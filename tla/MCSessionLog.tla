---------------------------- MODULE MCSessionLog ----------------------------
(* SessionLog on small instances; the .cfg files give the constants.  No   *)
(* action or property names a tab.                                         *)
EXTENDS SessionLog, TLC

Symmetry == Permutations(Logs)
=============================================================================
