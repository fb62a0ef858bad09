------------------------------- MODULE Zmodem -------------------------------
(***************************************************************************)
(* ZmodemSender::send and ZmodemReceiver::receive                          *)
(* (crates/waystone-comm-core/src/transfer/zmodem.rs) at the two ends of a *)
(* serial line or network connection, one frame or data subpacket at a     *)
(* time, with a line that damages or loses what it carries, an operator    *)
(* who tries again after a failure, and peers of other make that use more  *)
(* of the protocol.                                                        *)
(*                                                                         *)
(* A file is a sequence of units; a subpacket carries one.  Bytes that do  *)
(* not begin a frame are passed over while one is awaited (recv_frame).    *)
(***************************************************************************)
EXTENDS Naturals, Sequences, SequencesExt

CONSTANTS
  NFiles,       \* files in the batch; the TUI sends one
  Sizes,        \* sizes a file may have, in units
  Leftovers,    \* what an existing file of that name may hold:
                \* "prefix" of the original or "other" content
  OffsetLimit,  \* offsets on the line are taken modulo this (2^32)
  AckEvery,     \* subpackets from one ZCRCQ to the next (8)
  Foreign,      \* what only peers of other make send, or send then
  Faults,       \* what can go wrong: "damage" and "loss" on the line, "drop"
                \* of the connection, "haste", a time-out while the other end
                \* still has work to do, and "quit", a peer that cancels
  MaxFaults,    \* bound of the model: how often
  MaxSessions   \* bound of the model: attempts at the transfer

Files == 1..NFiles

ASSUME ZmodemAssumption ==
  /\ NFiles \in Nat \ {0} /\ Sizes \subseteq Nat /\ Sizes # {}
  /\ Leftovers \subseteq {"prefix", "other"}
  /\ OffsetLimit \in Nat \ {0} /\ AckEvery \in Nat \ {0}
  /\ Foreign \subseteq {"ZSINIT", "ZSKIP", "ZNAK", "ZRINIT", "ZFIN", "ZCAN", "CAN"}
  /\ Faults \subseteq {"damage", "loss", "drop", "haste", "quit"}
  /\ MaxFaults \in Nat /\ MaxSessions \in Nat \ {0}

VARIABLES
  size,      \* of the sender's files
  disk,      \* the receiver's files; empty if there is none
  toR, toS,  \* what is on the line, each way
  s,         \* the sender's control state
  file,      \* the file it is at
  start,     \* start_offset
  sent,      \* offset of the next unit
  packets,   \* pkt_count
  reported,  \* its results: files it reports as sent
  r,         \* the receiver's control state
  into,      \* the file it writes
  offset,    \* file_offset
  received,  \* its results
  faults, sessions

sender   == <<s, file, start, sent, packets, reported>>
receiver == <<r, into, offset, received>>
bounds   == <<faults, sessions>>
vars     == <<size, disk, toR, toS, sender, receiver, bounds>>

Awaiting == {"init", "pos", "ack", "finish", "fin"}
Reading  == {"session", "sinit", "info", "file", "data"}
Ended    == {"ok", "cancelled", "failed", "damaged"}

Nothing == <<0, 0>>
Unit(f, i) == <<f, i>>
Original(f) == [i \in 1..size[f] |-> Unit(f, i)]

FrameTypes == {"ZRQINIT", "ZRINIT", "ZSINIT", "ZACK", "ZFILE", "ZSKIP", "ZNAK", "ZFIN",
               "ZRPOS", "ZDATA", "ZEOF", "ZCAN", "badFrame"}
DataTypes  == {"ZCRCE", "ZCRCG", "ZCRCQ", "info", "badData"}
Noise      == {"OO", "CAN"}

Frame(type)      == [type |-> type, n |-> 0, unit |-> Nothing]
FrameAt(type, o) == [type |-> type, n |-> o % OffsetLimit, unit |-> Nothing]
Info(f)          == [type |-> "info", n |-> f, unit |-> Nothing]
Subpacket(u, term) == [type |-> term, n |-> 0, unit |-> u]
Messages == [type : FrameTypes \cup DataTypes \cup Noise, n : Nat, unit : Nat \X Nat]

TypeOK ==
  /\ size \in [Files -> Sizes]
  /\ disk \in [Files -> Seq(Nat \X Nat)]
  /\ toR \in Seq(Messages) /\ toS \in Seq(Messages)
  /\ s \in {"start", "seek", "send", "eof"} \cup Awaiting \cup Ended
  /\ file \in 1..NFiles + 1
  /\ start \in Nat /\ sent \in Nat /\ packets \in Nat
  /\ reported \subseteq Files
  /\ r \in {"start"} \cup Reading \cup Ended
  /\ into \in Files /\ offset \in Nat
  /\ received \subseteq Files
  /\ faults \in 0..MaxFaults /\ sessions \in 1..MaxSessions

\* What an interrupted transfer, or an unrelated file, may have left.
Left(f) ==
  {<<>>} \cup
  {[i \in 1..n |-> IF kind = "prefix" THEN Unit(f, i) ELSE Nothing] :
     n \in 1..size[f], kind \in Leftovers}

Init ==
  /\ size \in [Files -> Sizes]
  /\ disk \in [Files -> UNION {Left(f) : f \in Files}]
  /\ \A f \in Files : disk[f] \in Left(f)
  /\ toR = <<>> /\ toS = <<>>
  /\ s = "start" /\ file = 1 /\ start = 0 /\ sent = 0 /\ packets = 0 /\ reported = {}
  /\ r = "start" /\ into = 1 /\ offset = 0 /\ received = {}
  /\ faults = 0 /\ sessions = 1

\* Something goes wrong.
Fault(kind) == kind \in Faults /\ faults < MaxFaults /\ faults' = faults + 1

-----------------------------------------------------------------------------
(***************************************************************************)
(* The sender.                                                             *)
(***************************************************************************)

\* send_zhex, send_zbin32, send_data_subpacket, each a write_bytes.
SenderSends(messages) == toR' = toR \o messages

SenderStarts ==
  /\ s = "start"
  /\ s' = "init"
  /\ SenderSends(<<Frame("ZRQINIT")>>)
  /\ UNCHANGED <<size, disk, toS, file, start, sent, packets, reported, receiver, bounds>>

\* recv_frame returns a frame of one of these types.
SenderGets(state, types) ==
  /\ s = state
  /\ toS # <<>> /\ Head(toS).type \in types
  /\ toS' = Tail(toS)

\* The top of the loop over the files, or what follows it.
Offer(f) ==
  /\ file' = f
  /\ IF f \in Files
     THEN s' = "pos" /\ SenderSends(<<Frame("ZFILE"), Info(f)>>)
     ELSE s' = "fin" /\ SenderSends(<<Frame("ZFIN")>>)

\* A sender of other make may introduce itself before its first file.
SenderInit ==
  /\ \/ SenderGets("init", {"ZRINIT"}) /\ Offer(1)
     \/ /\ SenderGets("init", {"ZRINIT"}) /\ "ZSINIT" \in Foreign
        /\ file' = 1 /\ s' = "pos"
        /\ SenderSends(<<Frame("ZSINIT"), Info(1), Frame("ZFILE"), Info(1)>>)
     \/ /\ SenderGets("init", {"ZNAK"})
        /\ SenderSends(<<Frame("ZRQINIT")>>)
        /\ UNCHANGED <<s, file>>
  /\ UNCHANGED <<size, disk, start, sent, packets, reported, receiver, bounds>>

\* The answer to ZFILE.  A file of which the receiver has everything, or
\* that it declines, is passed over without ZDATA or ZEOF.
SenderPos ==
  /\ SenderGets("pos", {"ZRPOS", "ZSKIP"})
  /\ LET from == IF Head(toS).type = "ZRPOS" THEN Head(toS).n ELSE size[file] IN
     IF from >= size[file]
     THEN Offer(file + 1) /\ UNCHANGED <<start, sent>>
     ELSE s' = "seek" /\ start' = from /\ sent' = from /\ UNCHANGED <<toR, file>>
  /\ UNCHANGED <<size, disk, packets, reported, receiver, bounds>>

SenderSeeks ==
  /\ s = "seek"
  /\ s' = "send" /\ packets' = 0
  /\ SenderSends(<<FrameAt("ZDATA", sent)>>)
  /\ UNCHANGED <<size, disk, toS, file, start, sent, reported, receiver, bounds>>

SenderSendsUnit ==
  /\ s = "send" /\ sent < size[file]
  /\ LET last == sent + 1 = size[file]
         term == IF last THEN "ZCRCE"
                 ELSE IF (packets + 1) % AckEvery = 0 THEN "ZCRCQ" ELSE "ZCRCG"
     IN /\ SenderSends(<<Subpacket(Unit(file, sent + 1), term)>>)
        /\ packets' = IF last THEN packets ELSE packets + 1
        /\ s' = CASE term = "ZCRCE" -> "eof" [] term = "ZCRCQ" -> "ack" [] OTHER -> "send"
  /\ sent' = sent + 1
  /\ UNCHANGED <<size, disk, toS, file, start, reported, receiver, bounds>>

\* MUTANT: ZEOF is sent and not waited upon.
SenderEof_hasty ==
  /\ s = "eof" \/ (s = "send" /\ sent >= size[file])
  /\ file' = file + 1
  /\ IF file + 1 \in Files
     THEN s' = "pos" /\ SenderSends(<<FrameAt("ZEOF", sent), Frame("ZFILE"), Info(file + 1)>>)
     ELSE s' = "fin" /\ SenderSends(<<FrameAt("ZEOF", sent), Frame("ZFIN")>>)
  /\ reported' = reported \cup {file}
  /\ UNCHANGED <<size, disk, toS, start, sent, packets, receiver, bounds>>

\* After the last subpacket, or when a ZRPOS asked for nothing more.
SenderEof ==
  /\ s = "eof" \/ (s = "send" /\ sent >= size[file])
  /\ s' = "finish"
  /\ SenderSends(<<FrameAt("ZEOF", sent)>>)
  /\ UNCHANGED <<size, disk, toS, file, start, sent, packets, reported, receiver, bounds>>

\* A ZRPOS after the data began.
SenderRepositions ==
  /\ SenderGets("ack", {"ZRPOS"}) \/ SenderGets("finish", {"ZRPOS"})
  /\ IF Head(toS).n > size[file]
     THEN s' = "failed" /\ UNCHANGED sent
     ELSE s' = "seek" /\ sent' = Head(toS).n
  /\ UNCHANGED <<size, disk, toR, file, start, packets, reported, receiver, bounds>>

\* Whatever else answers a ZCRCQ is taken for the ZACK.
SenderAck ==
  /\ SenderGets("ack", FrameTypes \ {"ZRPOS", "ZCAN", "badFrame"})
  /\ s' = "send"
  /\ UNCHANGED <<size, disk, toR, file, start, sent, packets, reported, receiver, bounds>>

SenderFinish ==
  /\ \/ SenderGets("finish", {"ZRINIT"}) /\ Offer(file + 1)
     \/ /\ SenderGets("finish", {"ZFIN"})
        /\ s' = "ok" /\ SenderSends(<<Frame("ZFIN"), Frame("OO")>>)
        /\ UNCHANGED file
  /\ reported' = reported \cup {file}
  /\ UNCHANGED <<size, disk, start, sent, packets, receiver, bounds>>

SenderFin ==
  /\ \/ SenderGets("fin", {"ZFIN"}) /\ s' = "ok" /\ SenderSends(<<Frame("OO")>>)
     \/ SenderGets("fin", {"ZRINIT"}) /\ SenderSends(<<Frame("ZFIN")>>) /\ UNCHANGED s
  /\ UNCHANGED <<size, disk, file, start, sent, packets, reported, receiver, bounds>>

\* A cancel, or a frame whose check fails.
SenderAborts ==
  /\ \E state \in Awaiting :
       \/ SenderGets(state, {"ZCAN"}) /\ s' = "cancelled"
       \/ SenderGets(state, {"badFrame"}) /\ s' = "failed"
  /\ UNCHANGED <<size, disk, toR, file, start, sent, packets, reported, receiver, bounds>>

Wanted(state) ==
  CASE state = "init"   -> {"ZRINIT", "ZNAK", "ZCAN", "badFrame"}
    [] state = "pos"    -> {"ZRPOS", "ZSKIP", "ZCAN", "badFrame"}
    [] state = "ack"    -> FrameTypes
    [] state = "finish" -> {"ZRINIT", "ZFIN", "ZRPOS", "ZCAN", "badFrame"}
    [] state = "fin"    -> {"ZFIN", "ZRINIT", "ZCAN", "badFrame"}

\* Other frames and stray bytes are passed over.
SenderIgnores ==
  /\ \E state \in Awaiting :
       SenderGets(state, (FrameTypes \cup DataTypes \cup Noise) \ Wanted(state))
  /\ UNCHANGED <<size, disk, toR, sender, receiver, bounds>>

\* The receiver has nothing left to do but to wait, or is gone.
ReceiverIdle == r \in Reading \cup Ended /\ (toR = <<>> \/ r \in Ended)
SenderIdle   == s \in Awaiting \cup Ended /\ (toS = <<>> \/ s \in Ended)

\* A deadline passes: for want of anything to wait for, or too early.
Passes(deadline) ==
  \/ deadline /\ UNCHANGED faults
  \/ ~deadline /\ Fault("haste")

\* MUTANT: the wait for the answer to ZFILE has no deadline.
SenderTimesOut_forgets ==
  /\ s \in Awaiting \ {"pos"} /\ toS = <<>>
  /\ Passes(ReceiverIdle)
  /\ s' = "failed"
  /\ UNCHANGED <<size, disk, toR, toS, file, start, sent, packets, reported, receiver, sessions>>

SenderTimesOut ==
  /\ s \in Awaiting /\ toS = <<>>
  /\ Passes(ReceiverIdle)
  /\ s' = "failed"
  /\ UNCHANGED <<size, disk, toR, toS, file, start, sent, packets, reported, receiver, sessions>>

SenderStep ==
  \/ SenderStarts \/ SenderInit \/ SenderPos \/ SenderSeeks \/ SenderSendsUnit
  \/ SenderEof \/ SenderRepositions \/ SenderAck \/ SenderFinish \/ SenderFin
  \/ SenderAborts \/ SenderIgnores \/ SenderTimesOut

-----------------------------------------------------------------------------
(***************************************************************************)
(* The receiver.                                                           *)
(***************************************************************************)
ReceiverSends(messages) == toS' = toS \o messages

\* A receiver of other make may ask for the ZRQINIT again.
ReceiverStarts ==
  /\ r = "start"
  /\ r' = "session"
  /\ \/ ReceiverSends(<<Frame("ZRINIT")>>)
     \/ "ZNAK" \in Foreign /\ ReceiverSends(<<Frame("ZNAK")>>)
  /\ UNCHANGED <<size, disk, toR, sender, into, offset, received, bounds>>

ReceiverGets(state, types) ==
  /\ r = state
  /\ toR # <<>> /\ Head(toR).type \in types
  /\ toR' = Tail(toR)

\* ZSINIT is acknowledged before its subpacket is read.
ReceiverSession ==
  /\ \/ ReceiverGets("session", {"ZRQINIT"}) /\ ReceiverSends(<<Frame("ZRINIT")>>) /\ UNCHANGED r
     \/ ReceiverGets("session", {"ZSINIT"}) /\ ReceiverSends(<<Frame("ZACK")>>) /\ r' = "sinit"
     \/ ReceiverGets("session", {"ZFILE"}) /\ r' = "info" /\ UNCHANGED toS
  /\ UNCHANGED <<size, disk, sender, into, offset, received, bounds>>

\* Its result is not looked at.
ReceiverSinit ==
  /\ ReceiverGets("sinit", FrameTypes \cup DataTypes \cup Noise)
  /\ r' = "session"
  /\ ReceiverSends(<<Frame("ZRINIT")>>)
  /\ UNCHANGED <<size, disk, sender, into, offset, received, bounds>>

\* MUTANT: the file is always written from its start.
ReceiverOpens_afresh ==
  /\ ReceiverGets("info", {"info"})
  /\ into' = Head(toR).n
  /\ r' = "file" /\ offset' = 0
  /\ ReceiverSends(<<FrameAt("ZRPOS", 0)>>)
  /\ UNCHANGED <<size, disk, sender, received, bounds>>

\* An existing file is taken for the beginning of this one.
ReceiverOpens ==
  /\ ReceiverGets("info", {"info"})
  /\ into' = Head(toR).n
  /\ \/ /\ r' = "file" /\ offset' = Len(disk[into'])
        /\ ReceiverSends(<<FrameAt("ZRPOS", offset')>>)
     \/ /\ "ZSKIP" \in Foreign
        /\ r' = "session" /\ UNCHANGED offset
        /\ ReceiverSends(<<Frame("ZSKIP")>>)
  /\ UNCHANGED <<size, disk, sender, received, bounds>>

ReceiverData ==
  /\ ReceiverGets("file", {"ZDATA"})
  /\ IF Head(toR).n = offset
     THEN r' = "data" /\ UNCHANGED toS
     ELSE ReceiverSends(<<FrameAt("ZRPOS", offset)>>) /\ UNCHANGED r
  /\ UNCHANGED <<size, disk, sender, into, offset, received, bounds>>

\* MUTANT: a ZCRCQ is not answered.
ReceiverStores_mute ==
  /\ ReceiverGets("data", {"ZCRCE", "ZCRCG", "ZCRCQ"})
  /\ disk' = [disk EXCEPT ![into] = Append(@, Head(toR).unit)]
  /\ offset' = offset + 1
  /\ r' = IF Head(toR).type = "ZCRCE" THEN "file" ELSE "data"
  /\ UNCHANGED <<size, toS, sender, into, received, bounds>>

ReceiverStores ==
  /\ ReceiverGets("data", {"ZCRCE", "ZCRCG", "ZCRCQ"})
  /\ disk' = [disk EXCEPT ![into] = Append(@, Head(toR).unit)]
  /\ offset' = offset + 1
  /\ r' = IF Head(toR).type = "ZCRCE" THEN "file" ELSE "data"
  /\ IF Head(toR).type = "ZCRCQ"
     THEN ReceiverSends(<<FrameAt("ZACK", offset')>>)
     ELSE UNCHANGED toS
  /\ UNCHANGED <<size, sender, into, received, bounds>>

\* MUTANT: the whole file is asked for again.
ReceiverSpoiled_restarts ==
  /\ ReceiverGets("data", {"badData", "info"} \cup FrameTypes \cup Noise)
  /\ r' = "damaged"
  /\ ReceiverSends(<<FrameAt("ZRPOS", 0)>>)
  /\ UNCHANGED <<size, disk, sender, into, offset, received, bounds>>

\* Whatever else stands where a subpacket is expected fails its check.
ReceiverSpoiled ==
  /\ \/ /\ ReceiverGets("data", {"badData", "info"} \cup FrameTypes \cup Noise)
        /\ r' = "damaged"
        /\ ReceiverSends(<<FrameAt("ZRPOS", offset)>>)
     \/ /\ ReceiverGets("info", (FrameTypes \cup DataTypes \cup Noise) \ {"info"})
        /\ r' = "failed"
        /\ UNCHANGED toS
  /\ UNCHANGED <<size, disk, sender, into, offset, received, bounds>>

\* File::set_len
SetLen(content, n) == [i \in 1..n |-> IF i <= Len(content) THEN content[i] ELSE Nothing]

\* A receiver of other make may end the session here.
ReceiverEof ==
  /\ ReceiverGets("file", {"ZEOF"})
  /\ disk' = [disk EXCEPT ![into] = SetLen(@, Head(toR).n)]
  /\ received' = received \cup {into}
  /\ \/ r' = "session" /\ ReceiverSends(<<Frame("ZRINIT")>>)
     \/ "ZFIN" \in Foreign /\ r' = "ok" /\ ReceiverSends(<<Frame("ZFIN")>>)
  /\ UNCHANGED <<size, sender, into, offset, bounds>>

ReceiverFin ==
  /\ ReceiverGets("session", {"ZFIN"}) \/ ReceiverGets("file", {"ZFIN"})
  /\ r' = "ok"
  /\ ReceiverSends(<<Frame("ZFIN"), Frame("OO")>>)
  /\ UNCHANGED <<size, disk, sender, into, offset, received, bounds>>

ReceiverAborts ==
  /\ \E state \in {"session", "file"} :
       \/ ReceiverGets(state, {"ZNAK", "ZCAN"}) /\ r' = "cancelled"
       \/ ReceiverGets(state, {"badFrame"}) /\ r' = "failed"
  /\ UNCHANGED <<size, disk, toS, sender, into, offset, received, bounds>>

\* Other frames and stray bytes are passed over; bytes of a subpacket may
\* look like a cancel or the beginning of a frame.
ReceiverIgnores ==
  /\ LET others == (FrameTypes \cup DataTypes \cup Noise) \ {"ZFIN", "ZNAK", "ZCAN", "badFrame"} IN
     \/ ReceiverGets("session", others \ {"ZRQINIT", "ZSINIT", "ZFILE"})
     \/ ReceiverGets("file", others \ {"ZDATA", "ZEOF"})
  /\ \/ UNCHANGED r
     \/ Head(toR).type \in DataTypes /\ r' \in {"cancelled", "failed"}
  /\ UNCHANGED <<size, disk, toS, sender, into, offset, received, bounds>>

ReceiverTimesOut ==
  /\ r \in Reading /\ toR = <<>>
  /\ Passes(SenderIdle)
  /\ r' = IF r = "sinit" THEN "session" ELSE "failed"
  /\ CASE r = "data"  -> ReceiverSends(<<FrameAt("ZRPOS", offset)>>)
       [] r = "sinit" -> ReceiverSends(<<Frame("ZRINIT")>>)
       [] OTHER       -> UNCHANGED toS
  /\ UNCHANGED <<size, disk, toR, sender, into, offset, received, sessions>>

\* A receiver of other make may repeat its ZRINIT before it gives up.
ReceiverRepeats ==
  /\ r = "session" /\ toR = <<>>
  /\ "ZRINIT" \in Foreign /\ faults < MaxFaults /\ faults' = faults + 1
  /\ ReceiverSends(<<Frame("ZRINIT")>>)
  /\ UNCHANGED <<size, disk, toR, sender, receiver, sessions>>

ReceiverStep ==
  \/ ReceiverStarts \/ ReceiverSession \/ ReceiverSinit \/ ReceiverOpens \/ ReceiverData
  \/ ReceiverStores \/ ReceiverSpoiled \/ ReceiverEof \/ ReceiverFin \/ ReceiverAborts
  \/ ReceiverIgnores \/ ReceiverTimesOut

-----------------------------------------------------------------------------
(***************************************************************************)
(* Line, operator and peers.                                               *)
(***************************************************************************)
Damaged(m) ==
  IF m.type \in DataTypes THEN [m EXCEPT !.type = "badData", !.unit = Nothing]
  ELSE IF m.type \in Noise THEN m ELSE [m EXCEPT !.type = "badFrame"]

LineDamages ==
  /\ Fault("damage")
  /\ \/ \E i \in DOMAIN toR : toR' = [toR EXCEPT ![i] = Damaged(@)] /\ UNCHANGED toS
     \/ \E i \in DOMAIN toS : toS' = [toS EXCEPT ![i] = Damaged(@)] /\ UNCHANGED toR
  /\ UNCHANGED <<size, disk, sender, receiver, sessions>>

\* Without its first bytes a frame is not seen to be one.  (What a subpacket
\* loses spoils its check.)
LineLoses ==
  /\ Fault("loss")
  /\ \/ \E i \in DOMAIN toR :
          toR[i].type \in FrameTypes /\ toR' = RemoveAt(toR, i) /\ UNCHANGED toS
     \/ \E i \in DOMAIN toS :
          toS[i].type \in FrameTypes /\ toS' = RemoveAt(toS, i) /\ UNCHANGED toR
  /\ UNCHANGED <<size, disk, sender, receiver, sessions>>

\* The connection goes away under both, at any moment.
LineDrops ==
  /\ Fault("drop")
  /\ s' = IF s \in Ended THEN s ELSE "failed"
  /\ r' = IF r \in Ended THEN r ELSE "failed"
  /\ UNCHANGED <<size, disk, toR, toS, file, start, sent, packets, reported, into, offset,
                 received, sessions>>

\* A peer of other make is told to cancel: a ZCAN frame, or a run of CAN
\* bytes, which neither end takes for a cancel.
SenderQuits ==
  /\ s \notin Ended /\ Fault("quit")
  /\ \E how \in Foreign \cap {"ZCAN", "CAN"} : SenderSends(<<Frame(how)>>)
  /\ s' = "cancelled"
  /\ UNCHANGED <<size, disk, toS, file, start, sent, packets, reported, receiver, sessions>>

ReceiverQuits ==
  /\ r \notin Ended /\ Fault("quit")
  /\ \E how \in Foreign \cap {"ZCAN", "CAN"} : ReceiverSends(<<Frame(how)>>)
  /\ r' = "cancelled"
  /\ UNCHANGED <<size, disk, toR, sender, into, offset, received, sessions>>

\* Both programs have stopped, and the operator starts them again.
TryAgain ==
  /\ s \in Ended /\ r \in Ended
  /\ sessions < MaxSessions /\ sessions' = sessions + 1
  /\ toR' = <<>> /\ toS' = <<>>
  /\ s' = "start" /\ file' = 1 /\ start' = 0 /\ sent' = 0 /\ packets' = 0 /\ reported' = {}
  /\ r' = "start" /\ into' = 1 /\ offset' = 0 /\ received' = {}
  /\ UNCHANGED <<size, disk, faults>>

Next ==
  \/ SenderStep \/ ReceiverStep
  \/ LineDamages \/ LineLoses \/ LineDrops
  \/ SenderQuits \/ ReceiverQuits \/ ReceiverRepeats \/ TryAgain

Safety == Init /\ [][Next]_vars

\* Each end is a thread of its own whose reads have deadlines.
Spec == Safety /\ WF_vars(SenderStep) /\ WF_vars(ReceiverStep)
-----------------------------------------------------------------------------
(***************************************************************************)
(* Properties.                                                             *)
(***************************************************************************)

\* The copies grow into the originals, through faults and further attempts,
\* and the sender reports no file whose copy is incomplete: a ZRINIT sent
\* for another reason is never taken for the answer to ZEOF (zmodem.rs:
\* 508-551, 582-591, 820-850).
Copy == INSTANCE FileCopy WITH sent <- reported

CopiesFaithfully == Copy!Spec

\* The state is well formed, and the counts at the end of a transfer do not
\* underflow: no ZRPOS of our own receiver moves the sender back before its
\* start (zmodem.rs:829, 851).
CountIsNatural ==
  TypeOK /\ (s \in {"seek", "send", "eof", "ack", "finish"} => sent >= start)

\* Two ends that both report success agree on what was copied: every file
\* the sender reports was received to its end, not merely begun.
Agreement == s = "ok" => reported \subseteq received

\* When both ends report success, the copies are the originals: "Confirm the
\* local file exists and byte size/content match"
\* (PRODUCTION_SMOKE_CHECKLIST.md:31; zmodem.rs:506-519, 582-590).
Intact ==
  s = "ok" /\ r = "ok" => \A f \in Files : disk[f] = Original(f)

\* A transfer of one file that nothing disturbs succeeds at both ends, with
\* a peer of whatever make, a file left by an earlier attempt, or none to
\* send: neither end waits for a frame that the other does not send
\* (zmodem.rs:467-626, 653-874).
Completes == [](faults = 0) => <>(s = "ok" /\ r = "ok")

\* Every session comes to an end at both sides, whatever goes wrong.
Ends == []<>(s \in Ended /\ r \in Ended)
=============================================================================
