------------------------------ MODULE MCXmodem ------------------------------
(* Xmodem on small files and a line with a few faults.                      *)
EXTENDS Xmodem
=============================================================================
