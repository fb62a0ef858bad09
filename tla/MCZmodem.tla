------------------------------ MODULE MCZmodem ------------------------------
(* Zmodem on small instances; the .cfg files give the constants.           *)
EXTENDS Zmodem
=============================================================================
