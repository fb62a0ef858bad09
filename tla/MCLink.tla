------------------------------- MODULE MCLink -------------------------------
(* Option 5 is one the client does not know; 255 is IAC as a key.          *)
EXTENDS Link
=============================================================================
