------------------------------- MODULE MCDesk -------------------------------
(* An empty directory, or one entry with or without a key profile of its    *)
(* own.                                                                     *)
EXTENDS Desk

SomeDirectories ==
    {{}, {Blank("e1")}, {[Blank("e1") EXCEPT !.keys = "bbs", !.connected = TRUE]}}
=============================================================================
