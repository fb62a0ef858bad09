------------------------------ MODULE FileCopy ------------------------------
(***************************************************************************)
(* What a file transfer promises, whatever the protocol: the copies grow   *)
(* unit by unit into the originals, across interrupted sessions too, and   *)
(* no file is reported as sent before its copy is complete.                *)
(***************************************************************************)
EXTENDS Naturals, Sequences

CONSTANTS Files, Unit(_, _)

VARIABLES
  size,   \* units in each original
  disk,   \* the copies
  sent    \* files the sender has reported in this session

vars == <<size, disk, sent>>

Original(f) == [i \in 1..size[f] |-> Unit(f, i)]

Prefixes(f) == {SubSeq(Original(f), 1, n) : n \in 0..size[f]}

Init ==
  /\ size \in [Files -> Nat]
  /\ \A f \in Files : disk[f] \in Prefixes(f)
  /\ DOMAIN disk = Files
  /\ sent = {}

Store(f) ==
  /\ Len(disk[f]) < size[f]
  /\ disk' = [disk EXCEPT ![f] = Append(@, Unit(f, Len(@) + 1))]
  /\ UNCHANGED <<size, sent>>

Report(f) ==
  /\ disk[f] = Original(f)
  /\ sent' = sent \cup {f}
  /\ UNCHANGED <<size, disk>>

NewSession == sent' = {} /\ UNCHANGED <<size, disk>>

Next == NewSession \/ \E f \in Files : Store(f) \/ Report(f)

Spec == Init /\ [][Next]_vars
=============================================================================
