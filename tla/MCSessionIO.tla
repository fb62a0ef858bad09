---------------------------- MODULE MCSessionIO ----------------------------
(* SessionIO on small instances; the .cfg files give the constants.        *)
EXTENDS SessionIO
=============================================================================
