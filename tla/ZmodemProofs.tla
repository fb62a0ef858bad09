---------------------------- MODULE ZmodemProofs ----------------------------
(***************************************************************************)
(* Proofs about Zmodem.  The state is well formed whatever the constants   *)
(* are.  Between two ends of our own make, on a line that may damage what  *)
(* it carries, be slow or go away but does not lose frames, and with files *)
(* an interrupted transfer left, the copies grow into the originals, both  *)
(* ends agree on them, and the counts do not underflow.                    *)
(***************************************************************************)
EXTENDS Zmodem, TLAPS, SequenceTheorems

-----------------------------------------------------------------------------
(***************************************************************************)
(* The invariants.                                                         *)
(***************************************************************************)

\* A message as Messages says, and an "info" names a file of the batch.
Wire == {m \in Messages : m.type = "info" => m.n \in Files}

WellFormed ==
  /\ TypeOK
  /\ toR \in Seq(Wire)
  /\ s \in {"pos", "seek", "send", "ack", "eof", "finish"} => file \in Files

\* What the theorems about the copies suppose of the constants.
PlainLine ==
  /\ Leftovers \subseteq {"prefix"}
  /\ Foreign = {}
  /\ "loss" \notin Faults
  /\ \A n \in Sizes : n < OffsetLimit

Whole(f) == Len(disk[f]) = size[f]

\* Every copy is a beginning of its original; those before the file the
\* sender is at, and those the receiver has confirmed, are whole.
Disk ==
  /\ \A f \in Files :
       /\ Len(disk[f]) <= size[f]
       /\ \A i \in 1..Len(disk[f]) : disk[f][i] = Unit(f, i)
       /\ f < file \/ f \in received => Whole(f)
  /\ reported \subseteq received
  /\ s \in {"fin", "ok"} => file = NFiles + 1

\* Message m carries unit k of file f, or, after the last unit, its ZEOF.
Carries(m, f, k) ==
  \/ /\ k <= size[f]
     /\ m.type \in IF k = size[f] THEN {"ZCRCE", "badData"}
                   ELSE {"ZCRCG", "ZCRCQ", "badData"}
     /\ m.type # "badData" => m.unit = Unit(f, k)
  \/ /\ k = size[f] + 1
     /\ m.type \in {"ZEOF", "badFrame"} /\ m.n = size[f]

\* What a receiver that has no file open may find on the line.
Greeting ==
  \/ Len(toR) <= 1 /\ \A i \in 1..Len(toR) : toR[i].type \in {"ZRQINIT", "ZFIN", "badFrame"}
  \/ /\ Len(toR) \in {2, 3}
     /\ Len(toR) = 3 => toR[1].type \in {"ZRQINIT", "badFrame"}
     /\ toR[Len(toR) - 1].type \in {"ZFILE", "badFrame"}
     /\ toR[Len(toR)].type \in {"info", "badData"}

\* ZDATA for the offset at which the receiver stands, and then the units.
Streaming ==
  /\ offset < size[into]
  /\ toR[1].type \in {"ZDATA", "badFrame"} /\ toR[1].n = offset
  /\ \A i \in 2..Len(toR) : Carries(toR[i], into, (offset + i) - 1)

\* The file is whole: its ZEOF, or what follows a file passed over.
Closing ==
  /\ offset = size[into]
  /\ \/ /\ Len(toR) = 1
        /\ toR[1].type \in {"ZEOF", "badFrame"} /\ toR[1].n = size[into]
     \/ \A i \in 1..Len(toR) :
          toR[i].type \in {"ZFILE", "info", "ZFIN", "badFrame", "badData"}

\* What the receiver, while it runs, has before it on the line.
Incoming ==
  /\ r \in {"start", "session"} => Greeting
  /\ r = "info" => Len(toR) = 1 /\ toR[1].type \in {"info", "badData"}
  /\ r = "file" =>
       /\ offset = Len(disk[into])
       /\ toR = <<>> \/ Streaming \/ Closing
  /\ r = "data" =>
       /\ offset = Len(disk[into]) /\ offset < size[into]
       /\ \A i \in 1..Len(toR) : Carries(toR[i], into, offset + i)
  /\ r \notin Ended => r # "sinit"

\* What the sender, while it runs, has before it on the line.
Answers ==
  /\ s \in {"start", "init"} =>
       \A i \in 1..Len(toS) : toS[i].type \in {"ZRINIT", "badFrame"}
  /\ s = "pos" =>
       \A i \in 1..Len(toS) :
         /\ toS[i].type \in {"ZRINIT", "ZRPOS", "badFrame"}
         /\ toS[i].type = "ZRPOS" => i = Len(toS) /\ toS[i].n = Len(disk[file])
  /\ s \in {"seek", "send", "eof", "ack", "finish"} =>
       /\ start <= sent
       /\ \A i \in 1..Len(toS) :
            /\ toS[i].type \in {"ZACK", "ZRPOS", "ZRINIT", "badFrame"}
            /\ toS[i].type = "ZRPOS" =>
                 i = Len(toS) /\ start <= toS[i].n /\ toS[i].n <= size[file]
            /\ toS[i].type = "ZRINIT" =>
                 s = "finish" /\ i = Len(toS) /\ Whole(file) /\ file \in received
  /\ s = "fin" => \A i \in 1..Len(toS) : toS[i].type \in {"ZFIN", "OO", "badFrame"}

\* The receiver is reading the file the sender is at, and the line holds
\* what lies between them: offset up to ahead.
Reads(ahead) ==
  /\ into = file /\ start <= offset
  /\ \/ r = "file" /\ offset < size[file] /\ Len(toR) >= 1 /\ (offset + Len(toR)) - 1 = ahead
     \/ r = "data" /\ offset + Len(toR) = ahead

\* The two ends, while both run, are at the same point of the dialogue.
Together ==
  /\ s = "start" => toR = <<>>
  /\ s \in {"start", "init"} =>
       /\ r \in {"start", "session"} /\ file = 1
       /\ r = "start" => toS = <<>>
  /\ s = "init" =>
       /\ Len(toR) <= 1 /\ \A i \in 1..Len(toR) : toR[i].type \in {"ZRQINIT", "badFrame"}
  /\ s = "pos" =>
       \/ /\ r = "session" /\ Len(toR) \in {2, 3}
          /\ toR[Len(toR)].type = "info" => toR[Len(toR)].n = file
          /\ \A i \in 1..Len(toS) : toS[i].type # "ZRPOS"
       \/ /\ r = "info" /\ Len(toR) = 1
          /\ toR[1].type = "info" => toR[1].n = file
          /\ \A i \in 1..Len(toS) : toS[i].type # "ZRPOS"
       \/ /\ r = "file" /\ into = file /\ toR = <<>>
          /\ toS # <<>> /\ toS[Len(toS)].type \in {"ZRPOS", "badFrame"}
       \/ /\ r = "file" /\ into < file /\ offset = size[into] /\ toS = <<>>
          /\ \A i \in 1..Len(toR) : toR[i].type \notin {"ZEOF", "ZFIN"}
  /\ s = "seek" =>
       /\ r = "file" /\ into = file /\ toR = <<>> /\ toS = <<>>
       /\ sent = offset /\ sent < size[file]
  /\ s = "send" => sent < size[file] /\ toS = <<>> /\ Reads(sent)
  /\ s = "ack" =>
       /\ sent < size[file] /\ Reads(sent)
       /\ \/ toS = <<>>
          \/ /\ r = "data" /\ toR = <<>>
             /\ Len(toS) = 1 /\ toS[1].type \in {"ZACK", "badFrame"}
  /\ s = "eof" =>
       /\ sent = size[file] /\ toS = <<>>
       /\ \/ Reads(sent)
          \/ r = "file" /\ into = file /\ offset = size[file] /\ toR = <<>>
  /\ s = "finish" =>
       /\ sent = size[file]
       /\ \/ toS = <<>> /\ Reads(sent + 1)
          \/ /\ r = "file" /\ into = file /\ offset = size[file] /\ toS = <<>>
             /\ Len(toR) = 1 /\ toR[1].type \in {"ZEOF", "badFrame"}
          \/ /\ r = "session" /\ toR = <<>>
             /\ Len(toS) = 1 /\ toS[1].type \in {"ZRINIT", "badFrame"}
  /\ s = "fin" =>
       /\ r \in {"session", "file"} /\ toS = <<>>
       /\ Len(toR) = 1 /\ toR[1].type \in {"ZFIN", "badFrame"}
  /\ \A i \in 1..Len(toR) :
       toR[i].type = "ZCRCQ" => i = Len(toR) /\ s = "ack" /\ toS = <<>>

Inv ==
  /\ WellFormed /\ Disk /\ Incoming /\ Answers
  /\ s \notin Ended /\ r \notin Ended => Together

-----------------------------------------------------------------------------
(***************************************************************************)
(* Sequences of messages.                                                  *)
(***************************************************************************)
LEMMA Taken ==
  ASSUME NEW S, NEW q \in Seq(S), q # <<>>
  PROVE  /\ Len(q) \in Nat \ {0} /\ Head(q) = q[1] /\ q[1] \in S
         /\ Tail(q) \in Seq(S) /\ Len(Tail(q)) = Len(q) - 1
         /\ \A i \in 1..Len(Tail(q)) : Tail(q)[i] = q[i + 1]
OBVIOUS

LEMMA Put ==
  ASSUME NEW S, NEW q \in Seq(S), NEW a \in S
  PROVE  /\ q \o <<a>> \in Seq(S)
         /\ Len(q \o <<a>>) = Len(q) + 1
         /\ \A i \in 1..Len(q) : (q \o <<a>>)[i] = q[i]
         /\ (q \o <<a>>)[Len(q) + 1] = a
OBVIOUS

LEMMA PutTwo ==
  ASSUME NEW S, NEW q \in Seq(S), NEW a \in S, NEW b \in S
  PROVE  /\ q \o <<a, b>> \in Seq(S)
         /\ Len(q \o <<a, b>>) = Len(q) + 2
         /\ \A i \in 1..Len(q) : (q \o <<a, b>>)[i] = q[i]
         /\ (q \o <<a, b>>)[Len(q) + 1] = a
         /\ (q \o <<a, b>>)[Len(q) + 2] = b
OBVIOUS

LEMMA Altered ==
  ASSUME NEW S, NEW q \in Seq(S), NEW i \in DOMAIN q, NEW a \in S
  PROVE  /\ [q EXCEPT ![i] = a] \in Seq(S)
         /\ Len([q EXCEPT ![i] = a]) = Len(q)
         /\ i \in 1..Len(q)
OBVIOUS

LEMMA Removed ==
  ASSUME NEW S, NEW q \in Seq(S), NEW i \in DOMAIN q
  PROVE  RemoveAt(q, i) \in Seq(S)
BY DEF RemoveAt

LEMMA Kinds ==
  /\ \A type \in FrameTypes \cup Noise : Frame(type) \in Messages /\ Frame(type) \in Wire
  /\ \A type \in FrameTypes, o \in Nat :
       FrameAt(type, o) \in Messages /\ FrameAt(type, o) \in Wire
  /\ \A f \in Files : Info(f) \in Messages /\ Info(f) \in Wire
  /\ \A u \in Nat \X Nat, term \in {"ZCRCE", "ZCRCG", "ZCRCQ"} :
       Subpacket(u, term) \in Messages /\ Subpacket(u, term) \in Wire
<1>1. \A type \in FrameTypes \cup Noise : Frame(type) \in Messages
  BY DEF Frame, Messages, Nothing
<1>2. \A type \in FrameTypes, o \in Nat : FrameAt(type, o) \in Messages
  BY ZmodemAssumption DEF FrameAt, Messages, Nothing
<1>3. \A f \in Files : Info(f) \in Messages
  BY ZmodemAssumption DEF Info, Messages, Nothing, DataTypes, Files
<1>4. \A u \in Nat \X Nat, term \in {"ZCRCE", "ZCRCG", "ZCRCQ"} : Subpacket(u, term) \in Messages
  BY DEF Subpacket, Messages, DataTypes
<1>5. /\ \A type \in FrameTypes \cup Noise : Frame(type).type # "info"
      /\ \A type \in FrameTypes, o \in Nat : FrameAt(type, o).type # "info"
      /\ \A f \in Files : Info(f).n \in Files
      /\ \A u, term : Subpacket(u, term).type = term
  BY DEF Frame, FrameAt, Info, Subpacket, FrameTypes, Noise
<1>6. QED
  BY <1>1, <1>2, <1>3, <1>4, <1>5 DEF Wire

LEMMA Damages ==
  /\ \A m \in Messages : Damaged(m) \in Messages
  /\ \A m \in Wire : Damaged(m) \in Wire
<1> SUFFICES ASSUME NEW m \in Messages
             PROVE  Damaged(m) \in Messages /\ (m \in Wire => Damaged(m) \in Wire)
  BY DEF Wire
<1>1. CASE m.type \in DataTypes
  <2>1. Damaged(m) = [m EXCEPT !.type = "badData", !.unit = Nothing]
    BY <1>1 DEF Damaged
  <2>2. Damaged(m) \in Messages /\ Damaged(m).type = "badData"
    <3>1. Nothing \in Nat \X Nat /\ "badData" \in DataTypes
      BY DEF Nothing, DataTypes
    <3>2. QED
      BY <2>1, <3>1 DEF Messages
  <2>3. QED
    BY <2>2 DEF Wire
<1>2. CASE m.type \notin DataTypes /\ m.type \in Noise
  BY <1>2 DEF Damaged
<1>3. CASE m.type \notin DataTypes /\ m.type \notin Noise
  <2>1. Damaged(m) = [m EXCEPT !.type = "badFrame"]
    BY <1>3 DEF Damaged
  <2>2. Damaged(m) \in Messages /\ Damaged(m).type = "badFrame"
    BY <2>1 DEF Messages, FrameTypes
  <2>3. QED
    BY <2>2 DEF Wire
<1>4. QED
  BY <1>1, <1>2, <1>3

-----------------------------------------------------------------------------
(***************************************************************************)
(* The state is well formed.                                               *)
(***************************************************************************)
LEMMA WellFormedAtFirst == Init => WellFormed
<1> SUFFICES ASSUME Init PROVE WellFormed
  OBVIOUS
<1>1. \A f \in Files : disk[f] \in Seq(Nat \X Nat)
  <2> SUFFICES ASSUME NEW f \in Files PROVE disk[f] \in Seq(Nat \X Nat)
    OBVIOUS
  <2>1. size[f] \in Nat
    BY ZmodemAssumption DEF Init
  <2>2. CASE disk[f] = <<>>
    BY <2>2
  <2>3. CASE \E n \in 1..size[f], kind \in Leftovers :
               disk[f] = [i \in 1..n |-> IF kind = "prefix" THEN Unit(f, i) ELSE Nothing]
    BY <2>1, <2>3 DEF Unit, Nothing, Files
  <2>4. QED
    BY <2>2, <2>3 DEF Init, Left
<1>2. 1 \in Files /\ 1 \in 1..NFiles + 1 /\ 1 \in 1..MaxSessions /\ 0 \in 0..MaxFaults
  BY ZmodemAssumption DEF Files
<1>3. disk \in [Files -> Seq(Nat \X Nat)]
  BY <1>1 DEF Init
<1>4. QED
  BY <1>2, <1>3 DEF Init, WellFormed, TypeOK

LEMMA SenderWellFormed == WellFormed /\ SenderStep => WellFormed'
<1> SUFFICES ASSUME WellFormed, SenderStep PROVE WellFormed'
  OBVIOUS
<1> USE DEF WellFormed, TypeOK, sender, receiver, bounds
<1>0. /\ 1 \in Files /\ NFiles \in Nat /\ \A n \in Sizes : n \in Nat
      /\ \A f \in Files : f \in Nat /\ f \in 1..NFiles + 1 /\ f + 1 \in 1..NFiles + 1
  BY ZmodemAssumption DEF Files
<1>a. ASSUME NEW a \in FrameTypes \cup Noise, NEW q, q = toR \o <<Frame(a)>>
      PROVE  q \in Seq(Messages) /\ q \in Seq(Wire)
  BY <1>a, Kinds, Put
<1>b. ASSUME NEW a \in FrameTypes, NEW n \in Nat, NEW q, q = toR \o <<FrameAt(a, n)>>
      PROVE  q \in Seq(Messages) /\ q \in Seq(Wire)
  BY <1>b, Kinds, Put
<1>t. ASSUME NEW state, NEW types, SenderGets(state, types)
      PROVE  toS' \in Seq(Messages) /\ Head(toS) \in Messages
  BY <1>t, Taken DEF SenderGets
<1>o. ASSUME NEW f \in 1..NFiles + 1, Offer(f)
      PROVE  /\ toR' \in Seq(Messages) /\ toR' \in Seq(Wire) /\ file' \in 1..NFiles + 1
             /\ s' \in {"pos", "fin"} /\ (s' = "pos" => file' \in Files)
  <2>1. CASE f \in Files
    <3>1. Frame("ZFILE") \in Messages /\ Frame("ZFILE") \in Wire
          /\ Info(f) \in Messages /\ Info(f) \in Wire
      BY Kinds, <2>1 DEF FrameTypes
    <3>2. file' = f /\ s' = "pos" /\ toR' = toR \o <<Frame("ZFILE"), Info(f)>>
      BY <1>o, <2>1 DEF Offer, SenderSends
    <3>3. QED
      BY <3>1, <3>2, <2>1, PutTwo
  <2>2. CASE f \notin Files
    BY <1>o, <2>2, <1>a DEF Offer, SenderSends, FrameTypes
  <2>3. QED
    BY <2>1, <2>2
<1>1. CASE SenderStarts
  BY <1>1, <1>a DEF SenderStarts, SenderSends, FrameTypes, Awaiting, Ended
<1>2. CASE SenderInit
  <2>1. CASE SenderGets("init", {"ZRINIT"}) /\ Offer(1)
    BY <1>2, <2>1, <1>0, <1>t, <1>o DEF SenderInit, Awaiting
  <2>2. CASE /\ SenderGets("init", {"ZRINIT"})
             /\ file' = 1 /\ s' = "pos"
             /\ SenderSends(<<Frame("ZSINIT"), Info(1), Frame("ZFILE"), Info(1)>>)
    <3>1. /\ Frame("ZFILE") \in Messages /\ Frame("ZFILE") \in Wire
          /\ Frame("ZSINIT") \in Messages /\ Frame("ZSINIT") \in Wire
          /\ Info(1) \in Messages /\ Info(1) \in Wire
      BY Kinds, <1>0 DEF FrameTypes
    <3>2. <<Frame("ZSINIT"), Info(1), Frame("ZFILE"), Info(1)>> \in Seq(Messages)
          /\ <<Frame("ZSINIT"), Info(1), Frame("ZFILE"), Info(1)>> \in Seq(Wire)
      BY <3>1
    <3>3. toR' \in Seq(Messages) /\ toR' \in Seq(Wire)
      BY <3>2, <2>2, ConcatProperties DEF SenderSends
    <3>4. QED
      BY <1>2, <2>2, <3>3, <1>0, <1>t DEF SenderInit, Awaiting
  <2>3. CASE /\ SenderGets("init", {"ZNAK"})
             /\ SenderSends(<<Frame("ZRQINIT")>>)
             /\ UNCHANGED <<s, file>>
    BY <1>2, <2>3, <1>t, <1>a DEF SenderInit, SenderSends, FrameTypes
  <2>4. QED
    BY <1>2, <2>1, <2>2, <2>3 DEF SenderInit
<1>3. CASE SenderPos
  <2> DEFINE from == IF Head(toS).type = "ZRPOS" THEN Head(toS).n ELSE size[file]
  <2>1. s = "pos" /\ file \in Files /\ from \in Nat
        /\ toS' \in Seq(Messages)
    <3>1. s = "pos" /\ file \in Files /\ Head(toS) \in Messages /\ toS' \in Seq(Messages)
      BY <1>3, <1>t DEF SenderPos, SenderGets
    <3>2. QED
      BY <3>1, <1>0 DEF Messages
  <2>2. CASE from >= size[file]
    BY <1>3, <2>1, <2>2, <1>0, <1>o DEF SenderPos, Awaiting
  <2>3. CASE ~(from >= size[file])
    BY <1>3, <2>1, <2>3 DEF SenderPos
  <2>4. QED
    BY <2>2, <2>3
<1>4. CASE SenderSeeks
  BY <1>4, <1>b DEF SenderSeeks, SenderSends, FrameTypes
<1>5. CASE SenderSendsUnit
  <2> DEFINE last == sent + 1 = size[file]
             term == IF last THEN "ZCRCE"
                     ELSE IF (packets + 1) % AckEvery = 0 THEN "ZCRCQ" ELSE "ZCRCG"
  <2>1. file \in Files /\ term \in {"ZCRCE", "ZCRCG", "ZCRCQ"} /\ Unit(file, sent + 1) \in Nat \X Nat
    <3>1. file \in Files /\ file \in Nat /\ sent + 1 \in Nat
      <4>1. s = "send"
        BY <1>5 DEF SenderSendsUnit
      <4>2. QED
        BY <4>1, <1>0
    <3>2. QED
      BY <3>1 DEF Unit
  <2>2. toR' = toR \o <<Subpacket(Unit(file, sent + 1), term)>>
    BY <1>5 DEF SenderSendsUnit, SenderSends
  <2>3. toR' \in Seq(Messages) /\ toR' \in Seq(Wire)
    <3> HIDE DEF term
    <3> QED BY <2>1, <2>2, Kinds, Put
  <2>4. s' \in {"eof", "ack", "send"} /\ packets' \in Nat /\ sent' \in Nat
    BY <1>5 DEF SenderSendsUnit
  <2>5. QED
    BY <1>5, <2>1, <2>3, <2>4 DEF SenderSendsUnit, Awaiting
<1>6. CASE SenderEof
  BY <1>6, <1>b DEF SenderEof, SenderSends, FrameTypes, Awaiting
<1>7. CASE SenderRepositions
  BY <1>7, <1>t DEF SenderRepositions, SenderGets, Messages, Ended
<1>8. CASE SenderAck
  BY <1>8, <1>t DEF SenderAck, SenderGets
<1>9. CASE SenderFinish
  <2>1. file \in Files /\ toS' \in Seq(Messages) /\ reported' \subseteq Files
    BY <1>9, <1>t DEF SenderFinish, SenderGets
  <2>2. CASE Offer(file + 1)
    BY <1>9, <2>1, <2>2, <1>0, <1>o DEF SenderFinish, Awaiting
  <2>3. CASE s' = "ok" /\ SenderSends(<<Frame("ZFIN"), Frame("OO")>>) /\ UNCHANGED file
    <3>1. Frame("ZFIN") \in Messages /\ Frame("ZFIN") \in Wire
          /\ Frame("OO") \in Messages /\ Frame("OO") \in Wire
      BY Kinds DEF FrameTypes, Noise
    <3>2. QED
      BY <1>9, <2>1, <2>3, <3>1, PutTwo DEF SenderFinish, SenderSends, Ended
  <2>4. QED
    BY <1>9, <2>2, <2>3 DEF SenderFinish
<1>10. CASE SenderFin
  BY <1>10, <1>t, <1>a DEF SenderFin, SenderSends, FrameTypes, Noise, Ended
<1>11. CASE SenderAborts
  BY <1>11, <1>t DEF SenderAborts, Ended
<1>12. CASE SenderIgnores
  BY <1>12, <1>t DEF SenderIgnores
<1>13. CASE SenderTimesOut
  BY <1>13, ZmodemAssumption DEF SenderTimesOut, Passes, Fault, Ended
<1>14. QED
  BY <1>1, <1>2, <1>3, <1>4, <1>5, <1>6, <1>7, <1>8, <1>9, <1>10, <1>11, <1>12, <1>13
  DEF SenderStep

LEMMA ReceiverWellFormed == WellFormed /\ ReceiverStep => WellFormed'
<1> SUFFICES ASSUME WellFormed, ReceiverStep PROVE WellFormed'
  OBVIOUS
<1> USE DEF WellFormed, TypeOK, sender, receiver, bounds
<1>0. /\ \A n \in Sizes : n \in Nat
      /\ {"start"} \cup Reading \cup Ended =
           {"start", "session", "sinit", "info", "file", "data", "ok", "cancelled", "failed",
            "damaged"}
  BY ZmodemAssumption DEF Reading, Ended
<1>a. ASSUME NEW a \in FrameTypes \cup Noise, NEW q, q = toS \o <<Frame(a)>>
      PROVE  q \in Seq(Messages)
  BY <1>a, Kinds, Put
<1>b. ASSUME NEW a \in FrameTypes, NEW n \in Nat, NEW q, q = toS \o <<FrameAt(a, n)>>
      PROVE  q \in Seq(Messages)
  BY <1>b, Kinds, Put
<1>t. ASSUME NEW state, NEW types, ReceiverGets(state, types)
      PROVE  toR' \in Seq(Messages) /\ toR' \in Seq(Wire) /\ Head(toR) \in Messages /\ Head(toR) \in Wire
  BY <1>t, Taken DEF ReceiverGets
<1> USE DEF ReceiverSends
<1>1. CASE ReceiverStarts
  BY <1>1, <1>0, <1>a DEF ReceiverStarts, FrameTypes
<1>2. CASE ReceiverSession
  BY <1>2, <1>0, <1>a, <1>t DEF ReceiverSession, FrameTypes
<1>3. CASE ReceiverSinit
  BY <1>3, <1>0, <1>a, <1>t DEF ReceiverSinit, FrameTypes
<1>4. CASE ReceiverOpens
  <2>1. into' \in Files /\ toR' \in Seq(Messages) /\ toR' \in Seq(Wire)
    BY <1>4, <1>t DEF ReceiverOpens, ReceiverGets, Wire
  <2>2. disk[into'] \in Seq(Nat \X Nat)
    BY <2>1
  <2>3. Len(disk[into']) \in Nat
    BY <2>2
  <2>4. QED
    BY <1>4, <1>0, <1>a, <1>b, <2>1, <2>3 DEF ReceiverOpens, FrameTypes
<1>5. CASE ReceiverData
  BY <1>5, <1>0, <1>b, <1>t DEF ReceiverData, FrameTypes
<1>6. CASE ReceiverStores
  <2>1. toR' \in Seq(Messages) /\ toR' \in Seq(Wire) /\ Head(toR).unit \in Nat \X Nat
    BY <1>6, <1>t DEF ReceiverStores, Messages
  <2>2. disk' \in [Files -> Seq(Nat \X Nat)]
    <3>1. disk[into] \in Seq(Nat \X Nat)
      OBVIOUS
    <3>2. Append(disk[into], Head(toR).unit) \in Seq(Nat \X Nat)
      BY <3>1, <2>1
    <3>3. QED
      BY <1>6, <3>2 DEF ReceiverStores
  <2>3. toS' \in Seq(Messages)
    <3>1. offset' \in Nat
      BY <1>6 DEF ReceiverStores
    <3>2. CASE toS' = toS \o <<FrameAt("ZACK", offset')>>
      BY <3>1, <3>2, <1>b DEF FrameTypes
    <3>3. CASE toS' = toS
      BY <3>3
    <3>4. QED
      BY <1>6, <3>2, <3>3 DEF ReceiverStores
  <2>4. r' \in {"file", "data"} /\ offset' \in Nat
    BY <1>6 DEF ReceiverStores
  <2>5. UNCHANGED <<size, sender, into, received, bounds>>
    BY <1>6 DEF ReceiverStores
  <2>6. QED
    BY <1>0, <2>1, <2>2, <2>3, <2>4, <2>5
<1>7. CASE ReceiverSpoiled
  BY <1>7, <1>0, <1>b, <1>t DEF ReceiverSpoiled, FrameTypes
<1>8. CASE ReceiverEof
  <2>1. toR' \in Seq(Messages) /\ toR' \in Seq(Wire) /\ Head(toR).n \in Nat
    BY <1>8, <1>t DEF ReceiverEof, Messages
  <2>2. disk' \in [Files -> Seq(Nat \X Nat)]
    <3>1. disk[into] \in Seq(Nat \X Nat)
      OBVIOUS
    <3>2. SetLen(disk[into], Head(toR).n) \in Seq(Nat \X Nat)
      <4> DEFINE content == disk[into]
      <4>1. ASSUME NEW n \in Nat PROVE SetLen(content, n) \in Seq(Nat \X Nat)
        <5>1. \A i \in 1..n : (IF i <= Len(content) THEN content[i] ELSE Nothing) \in Nat \X Nat
          BY <3>1 DEF Nothing
        <5>2. SetLen(content, n) \in [1..n -> Nat \X Nat]
          BY <5>1 DEF SetLen
        <5>3. QED
          BY <5>2, SeqDef
      <4>2. QED
        BY <4>1, <2>1
    <3>3. QED
      BY <1>8, <3>2 DEF ReceiverEof
  <2>3. toS' \in Seq(Messages)
    BY <1>8, <1>a DEF ReceiverEof, FrameTypes
  <2>4. QED
    BY <1>8, <1>0, <2>1, <2>2, <2>3 DEF ReceiverEof
<1>9. CASE ReceiverFin
  <2>1. toS' \in Seq(Messages)
    <3>1. Frame("ZFIN") \in Messages /\ Frame("OO") \in Messages
      BY Kinds DEF FrameTypes, Noise
    <3>2. QED
      BY <1>9, <3>1, PutTwo DEF ReceiverFin
  <2>2. QED
    BY <1>9, <1>0, <1>t, <2>1 DEF ReceiverFin
<1>10. CASE ReceiverAborts
  BY <1>10, <1>0, <1>t DEF ReceiverAborts
<1>11. CASE ReceiverIgnores
  BY <1>11, <1>0, <1>t DEF ReceiverIgnores
<1>12. CASE ReceiverTimesOut
  <2>1. toS' \in Seq(Messages)
    BY <1>12, <1>a, <1>b DEF ReceiverTimesOut, FrameTypes
  <2>2. faults' \in 0..MaxFaults
    <3>1. Passes(SenderIdle)
      BY <1>12 DEF ReceiverTimesOut
    <3>2. faults' = faults \/ (faults < MaxFaults /\ faults' = faults + 1)
      BY <3>1 DEF Passes, Fault
    <3>3. QED
      BY <3>2, ZmodemAssumption
  <2>3. QED
    BY <1>12, <1>0, <2>1, <2>2 DEF ReceiverTimesOut
<1>13. QED
  BY <1>1, <1>2, <1>3, <1>4, <1>5, <1>6, <1>7, <1>8, <1>9, <1>10, <1>11, <1>12
  DEF ReceiverStep

LEMMA OthersWellFormed ==
  /\ WellFormed
  /\ LineDamages \/ LineLoses \/ LineDrops \/ SenderQuits \/ ReceiverQuits \/ ReceiverRepeats
       \/ TryAgain
  => WellFormed'
<1> USE DEF WellFormed, TypeOK, sender, receiver, bounds
<1>f. ASSUME WellFormed, NEW kind, Fault(kind)
      PROVE  faults' \in 0..MaxFaults
  BY <1>f, ZmodemAssumption DEF Fault
<1>1. ASSUME WellFormed, LineDamages PROVE WellFormed'
  <2>1. CASE \E i \in DOMAIN toR : toR' = [toR EXCEPT ![i] = Damaged(@)] /\ UNCHANGED toS
    <3>1. PICK i \in DOMAIN toR : toR' = [toR EXCEPT ![i] = Damaged(@)] /\ UNCHANGED toS
      BY <2>1
    <3>2. toR[i] \in Messages /\ toR[i] \in Wire
      BY <1>1
    <3>3. Damaged(toR[i]) \in Messages /\ Damaged(toR[i]) \in Wire
      BY <3>2, Damages
    <3>4. toR' \in Seq(Messages) /\ toR' \in Seq(Wire)
      BY <1>1, <3>1, <3>3, Altered
    <3>5. QED
      BY <1>1, <1>f, <3>1, <3>4 DEF LineDamages
  <2>2. CASE \E i \in DOMAIN toS : toS' = [toS EXCEPT ![i] = Damaged(@)] /\ UNCHANGED toR
    <3>1. PICK i \in DOMAIN toS : toS' = [toS EXCEPT ![i] = Damaged(@)] /\ UNCHANGED toR
      BY <2>2
    <3>2. toS[i] \in Messages
      BY <1>1
    <3>3. Damaged(toS[i]) \in Messages
      BY <3>2, Damages
    <3>4. toS' \in Seq(Messages)
      BY <1>1, <3>1, <3>3, Altered
    <3>5. QED
      BY <1>1, <1>f, <3>1, <3>4 DEF LineDamages
  <2>3. QED
    BY <1>1, <2>1, <2>2 DEF LineDamages
<1>2. ASSUME WellFormed, LineLoses PROVE WellFormed'
  <2>1. toR' \in Seq(Messages) /\ toR' \in Seq(Wire) /\ toS' \in Seq(Messages)
    BY <1>2, Removed DEF LineLoses
  <2>2. QED
    BY <1>2, <1>f, <2>1 DEF LineLoses
<1>3. ASSUME WellFormed, LineDrops PROVE WellFormed'
  BY <1>3, <1>f DEF LineDrops, Ended
<1>4. ASSUME WellFormed, SenderQuits PROVE WellFormed'
  <2>1. toR' \in Seq(Messages) /\ toR' \in Seq(Wire)
    <3>1. PICK how \in Foreign \cap {"ZCAN", "CAN"} : toR' = toR \o <<Frame(how)>>
      BY <1>4 DEF SenderQuits, SenderSends
    <3>2. Frame(how) \in Messages /\ Frame(how) \in Wire
      BY Kinds DEF FrameTypes, Noise
    <3>3. QED
      BY <1>4, <3>1, <3>2, Put
  <2>2. QED
    BY <1>4, <1>f, <2>1 DEF SenderQuits, Ended
<1>5. ASSUME WellFormed, ReceiverQuits PROVE WellFormed'
  <2>1. toS' \in Seq(Messages)
    <3>1. PICK how \in Foreign \cap {"ZCAN", "CAN"} : toS' = toS \o <<Frame(how)>>
      BY <1>5 DEF ReceiverQuits, ReceiverSends
    <3>2. Frame(how) \in Messages /\ Frame(how) \in Wire
      BY Kinds DEF FrameTypes, Noise
    <3>3. QED
      BY <1>5, <3>1, <3>2, Put
  <2>2. QED
    BY <1>5, <1>f, <2>1 DEF ReceiverQuits, Ended
<1>6. ASSUME WellFormed, ReceiverRepeats PROVE WellFormed'
  <2>1. toS' \in Seq(Messages)
    BY <1>6, Kinds, Put DEF ReceiverRepeats, ReceiverSends, FrameTypes
  <2>2. faults' \in 0..MaxFaults
    BY <1>6, ZmodemAssumption DEF ReceiverRepeats
  <2>3. QED
    BY <1>6, <2>1, <2>2 DEF ReceiverRepeats
<1>7. ASSUME WellFormed, TryAgain PROVE WellFormed'
  <2>1. 1 \in Files /\ 1 \in 1..NFiles + 1 /\ sessions' \in 1..MaxSessions
    BY <1>7, ZmodemAssumption DEF TryAgain, Files
  <2>2. QED
    BY <1>7, <2>1 DEF TryAgain
<1>8. QED
  BY <1>1, <1>2, <1>3, <1>4, <1>5, <1>6, <1>7

\* Whatever the constants, and so with peers of any make and every fault,
\* the state stays well formed, and every message on the line is one that
\* the other end can read.
THEOREM Typed == Safety => [](TypeOK /\ toR \in Seq(Wire))
<1>1. WellFormed /\ [Next]_vars => WellFormed'
  <2>1. ASSUME WellFormed, UNCHANGED vars PROVE WellFormed'
    BY <2>1 DEF WellFormed, TypeOK, vars, sender, receiver, bounds
  <2>2. QED
    BY <2>1, SenderWellFormed, ReceiverWellFormed, OthersWellFormed DEF Next
<1>2. WellFormed => TypeOK /\ toR \in Seq(Wire)
  BY DEF WellFormed
<1>3. QED
  BY WellFormedAtFirst, <1>1, <1>2, PTL DEF Safety

-----------------------------------------------------------------------------
(***************************************************************************)
(* The dialogue between two ends of our own make.                          *)
(***************************************************************************)
LEMMA WellFormedKept == WellFormed /\ [Next]_vars => WellFormed'
<1>1. ASSUME WellFormed, UNCHANGED vars PROVE WellFormed'
  BY <1>1 DEF WellFormed, TypeOK, vars, sender, receiver, bounds
<1>2. QED
  BY <1>1, SenderWellFormed, ReceiverWellFormed, OthersWellFormed DEF Next

\* What the steps below use of WellFormed.
LEMMA Shapes ==
  ASSUME WellFormed
  PROVE  /\ toR \in Seq(Messages) /\ toS \in Seq(Messages)
         /\ Len(toR) \in Nat /\ Len(toS) \in Nat
         /\ NFiles \in Nat \ {0} /\ file \in Nat /\ file <= NFiles + 1
         /\ into \in Files /\ into \in Nat /\ 1 \in Files
         /\ \A f \in Files : /\ f \in Nat /\ 1 <= f /\ f <= NFiles
                             /\ size[f] \in Nat /\ Len(disk[f]) \in Nat
         /\ start \in Nat /\ sent \in Nat /\ offset \in Nat
         /\ s \in {"pos", "seek", "send", "ack", "eof", "finish"} => file \in Files
         /\ \A i \in 1..Len(toR) : toR[i].n \in Nat
         /\ \A i \in 1..Len(toS) : toS[i].n \in Nat
<1>1. /\ toR \in Seq(Messages) /\ toS \in Seq(Messages)
      /\ file \in 1..NFiles + 1 /\ into \in Files
      /\ disk \in [Files -> Seq(Nat \X Nat)] /\ size \in [Files -> Sizes]
      /\ start \in Nat /\ sent \in Nat /\ offset \in Nat
      /\ s \in {"pos", "seek", "send", "ack", "eof", "finish"} => file \in Files
  BY DEF WellFormed, TypeOK
<1>2. \A m \in Messages : m.n \in Nat
  BY DEF Messages
<1>3. \A f \in Files : /\ f \in Nat /\ 1 <= f /\ f <= NFiles
                       /\ size[f] \in Nat /\ Len(disk[f]) \in Nat
  <2> SUFFICES ASSUME NEW f \in Files
               PROVE  /\ f \in Nat /\ 1 <= f /\ f <= NFiles
                      /\ size[f] \in Nat /\ Len(disk[f]) \in Nat
    OBVIOUS
  <2>1. disk[f] \in Seq(Nat \X Nat) /\ size[f] \in Sizes
    BY <1>1
  <2>2. size[f] \in Nat
    BY <2>1, ZmodemAssumption
  <2>3. Len(disk[f]) \in Nat
    BY <2>1, LenProperties
  <2>4. QED
    BY <2>2, <2>3, ZmodemAssumption DEF Files
<1>4. Len(toR) \in Nat /\ Len(toS) \in Nat
  BY <1>1
<1>5. \A i \in 1..Len(toR) : toR[i] \in Messages
  BY <1>1, ElementOfSeq
<1>6. \A i \in 1..Len(toS) : toS[i] \in Messages
  BY <1>1, ElementOfSeq
<1>7. NFiles \in Nat \ {0} /\ file \in Nat /\ file <= NFiles + 1 /\ 1 \in Files
  BY <1>1, ZmodemAssumption DEF Files
<1>8. QED
  BY <1>1, <1>2, <1>3, <1>4, <1>5, <1>6, <1>7

\* A message is read, or one or two are sent, at either end.
LEMMA SenderTook ==
  ASSUME WellFormed, NEW state, NEW types, SenderGets(state, types)
  PROVE  /\ s = state /\ Len(toS) \in Nat \ {0}
         /\ Head(toS) = toS[1] /\ toS[1].type \in types
         /\ Len(toS') = Len(toS) - 1 /\ (Len(toS) = 1 => toS' = <<>>)
         /\ \A i \in 1..Len(toS') : toS'[i] = toS[i + 1]
<1>1. toS \in Seq(Messages) /\ toS # <<>> /\ toS' = Tail(toS)
  BY DEF SenderGets, WellFormed, TypeOK
<1>2. QED
  BY <1>1, Taken DEF SenderGets

LEMMA ReceiverTook ==
  ASSUME WellFormed, NEW state, NEW types, ReceiverGets(state, types)
  PROVE  /\ r = state /\ Len(toR) \in Nat \ {0}
         /\ Head(toR) = toR[1] /\ toR[1].type \in types /\ toR[1] \in Wire
         /\ Len(toR') = Len(toR) - 1 /\ (Len(toR) = 1 => toR' = <<>>)
         /\ \A i \in 1..Len(toR') : toR'[i] = toR[i + 1]
<1>1. toR \in Seq(Wire) /\ toR # <<>> /\ toR' = Tail(toR)
  BY DEF ReceiverGets, WellFormed
<1>2. QED
  BY <1>1, Taken DEF ReceiverGets

LEMMA Said ==
  ASSUME NEW q \in Seq(Messages), NEW a
  PROVE  /\ Len(q \o <<a>>) = Len(q) + 1 /\ q \o <<a>> # <<>>
         /\ \A i \in 1..Len(q) : (q \o <<a>>)[i] = q[i]
         /\ (q \o <<a>>)[Len(q) + 1] = a
         /\ q = <<>> => q \o <<a>> = <<a>>
<1> DEFINE S == Messages \cup {a}
<1>1. q \in Seq(S) /\ a \in S
  BY SeqMonotonic
<1> HIDE DEF S
<1>2. /\ Len(q \o <<a>>) = Len(q) + 1 /\ Len(q) \in Nat
      /\ \A i \in 1..Len(q) : (q \o <<a>>)[i] = q[i]
      /\ (q \o <<a>>)[Len(q) + 1] = a
  BY <1>1, Put
<1>3. q = <<>> => q \o <<a>> = <<a>>
  BY <1>1
<1>4. QED
  BY <1>2, <1>3

LEMMA SaidTwo ==
  ASSUME NEW q \in Seq(Messages), NEW a, NEW b
  PROVE  /\ Len(q \o <<a, b>>) = Len(q) + 2
         /\ \A i \in 1..Len(q) : (q \o <<a, b>>)[i] = q[i]
         /\ (q \o <<a, b>>)[Len(q) + 1] = a
         /\ (q \o <<a, b>>)[Len(q) + 2] = b
<1> DEFINE S == Messages \cup {a, b}
<1>1. q \in Seq(S) /\ a \in S /\ b \in S
  BY SeqMonotonic
<1> HIDE DEF S
<1>2. QED
  BY <1>1, PutTwo

LEMMA Few == \A n \in Nat : n <= 1 => n = 0 \/ n = 1
OBVIOUS

LEMMA One == \A n \in Nat \ {0} : n <= 1 => n = 1
OBVIOUS

\* A part of the invariant holds on where nothing it speaks of changes.
LEMMA SteadyDisk ==
  ASSUME Disk, UNCHANGED <<size, disk, file, reported, received, s>>
  PROVE  Disk'
BY DEF Disk, Whole

LEMMA SteadyIncoming ==
  ASSUME Incoming, UNCHANGED <<size, disk, toR, r, into, offset>>
  PROVE  Incoming'
<1>1. Greeting => Greeting'
  BY DEF Greeting
<1>2. Streaming => Streaming'
  BY DEF Streaming, Carries
<1>3. Closing => Closing'
  BY DEF Closing
<1>4. QED
  BY <1>1, <1>2, <1>3 DEF Incoming, Carries

LEMMA SteadyAnswers ==
  ASSUME Answers, UNCHANGED <<size, disk, toS, s, file, start, sent, received>>
  PROVE  Answers'
BY DEF Answers, Whole

LEMMA InvAtFirst == PlainLine /\ Init => Inv
<1> SUFFICES ASSUME PlainLine, Init PROVE Inv
  OBVIOUS
<1>1. WellFormed
  BY WellFormedAtFirst
<1>2. \A f \in Files : /\ Len(disk[f]) <= size[f]
                       /\ \A i \in 1..Len(disk[f]) : disk[f][i] = Unit(f, i)
  <2> SUFFICES ASSUME NEW f \in Files
               PROVE  /\ Len(disk[f]) <= size[f]
                      /\ \A i \in 1..Len(disk[f]) : disk[f][i] = Unit(f, i)
    OBVIOUS
  <2>1. size[f] \in Nat
    BY ZmodemAssumption DEF Init
  <2>2. CASE disk[f] = <<>>
    BY <2>1, <2>2
  <2>3. CASE \E n \in 1..size[f], kind \in Leftovers :
               disk[f] = [i \in 1..n |-> IF kind = "prefix" THEN Unit(f, i) ELSE Nothing]
    <3>1. PICK n \in 1..size[f] : disk[f] = [i \in 1..n |-> Unit(f, i)]
      BY <2>3 DEF PlainLine
    <3>2. Len(disk[f]) = n
      BY <3>1, <2>1
    <3>3. QED
      BY <3>1, <3>2, <2>1
  <2>4. QED
    BY <2>2, <2>3 DEF Init, Left
<1>3. file = 1 /\ received = {} /\ reported = {} /\ s = "start" /\ r = "start"
      /\ toR = <<>> /\ toS = <<>>
  BY DEF Init
<1>4. Disk
  BY <1>1, <1>2, <1>3, Shapes DEF Disk
<1>5. Incoming /\ Answers /\ Together
  BY <1>3 DEF Incoming, Greeting, Answers, Together, Ended
<1>6. QED
  BY <1>1, <1>4, <1>5 DEF Inv

LEMMA SenderStartsKeeps == Inv /\ WellFormed' /\ SenderStarts => Inv'
<1> SUFFICES ASSUME Inv, WellFormed', SenderStarts PROVE Inv'
  OBVIOUS
<1>1. /\ s = "start" /\ s' = "init" /\ toR' = toR \o <<Frame("ZRQINIT")>>
      /\ UNCHANGED <<size, disk, toS, file, start, sent, reported, r, into, offset, received>>
  BY DEF SenderStarts, SenderSends, receiver
<1>2. Disk' /\ Answers'
  BY <1>1 DEF Inv, Disk, Whole, Answers
<1>3. ASSUME r \notin Ended
      PROVE  /\ Len(toR') = 1 /\ toR'[1].type = "ZRQINIT"
             /\ r \in {"start", "session"} /\ file = 1 /\ (r = "start" => toS = <<>>)
  <2>1. r \in {"start", "session"} /\ file = 1 /\ (r = "start" => toS = <<>>) /\ toR = <<>>
    BY <1>1, <1>3 DEF Inv, Together, Ended
  <2>2. QED
    BY <1>1, <2>1 DEF Frame
<1>4. Incoming'
  BY <1>1, <1>3 DEF Incoming, Greeting, Ended
<1>5. ASSUME r' \notin Ended PROVE Together'
  BY <1>1, <1>3, <1>5 DEF Together
<1>6. QED
  BY <1>2, <1>4, <1>5 DEF Inv

LEMMA SenderInitKeeps == PlainLine /\ Inv /\ WellFormed' /\ SenderInit => Inv'
<1> SUFFICES ASSUME PlainLine, Inv, WellFormed', SenderInit PROVE Inv'
  OBVIOUS
<1>w. WellFormed
  BY DEF Inv
<1>1. /\ s = "init" /\ Len(toS) \in Nat \ {0}
      /\ Len(toS') = Len(toS) - 1 /\ toS[1].type # "ZNAK"
      /\ \A i \in 1..Len(toS) : toS[i].type \in {"ZRINIT", "badFrame"}
      /\ \A i \in 1..Len(toS') : toS'[i] = toS[i + 1]
  <2>1. s = "init" /\ Len(toS) \in Nat \ {0}
        /\ Len(toS') = Len(toS) - 1 /\ \A i \in 1..Len(toS') : toS'[i] = toS[i + 1]
    BY <1>w, SenderTook DEF SenderInit
  <2>2. \A i \in 1..Len(toS) : toS[i].type \in {"ZRINIT", "badFrame"}
    BY <2>1 DEF Inv, Answers
  <2>3. QED
    BY <2>1, <2>2
<1>2. UNCHANGED <<size, disk, start, sent, reported, r, into, offset, received>>
  BY DEF SenderInit, receiver
<1>3. s' = "pos" /\ file' = 1 /\ toR' = toR \o <<Frame("ZFILE"), Info(1)>>
  <2>1. Offer(1)
    BY <1>1, <1>w, SenderTook DEF SenderInit, PlainLine
  <2>2. QED
    BY <2>1, <1>w, Shapes DEF Offer, SenderSends
<1>4. Disk'
  BY <1>1, <1>2, <1>3, <1>w, Shapes, SMTT(30) DEF Inv, Disk, Whole
<1>5. \A i \in 1..Len(toS') : toS'[i].type \in {"ZRINIT", "badFrame"}
  BY <1>1
<1>6. Answers'
  BY <1>1, <1>3, <1>5 DEF Answers
<1>7. ASSUME r \notin Ended
      PROVE  /\ r = "session" /\ Len(toR) \in {0, 1} /\ Len(toR') = Len(toR) + 2
             /\ Len(toR) = 1 => toR'[1].type \in {"ZRQINIT", "badFrame"}
             /\ toR'[Len(toR) + 1] = Frame("ZFILE") /\ toR'[Len(toR) + 2] = Info(1)
  <2>1. r \in {"start", "session"} /\ Len(toR) <= 1 /\ r # "start"
        /\ \A i \in 1..Len(toR) : toR[i].type \in {"ZRQINIT", "badFrame"}
    BY <1>1, <1>7 DEF Inv, Together, Ended
  <2>2. toR \in Seq(Messages) /\ Len(toR) \in Nat
    BY <1>w, Shapes
  <2>3. /\ Len(toR') = Len(toR) + 2
        /\ \A i \in 1..Len(toR) : toR'[i] = toR[i]
        /\ toR'[Len(toR) + 1] = Frame("ZFILE") /\ toR'[Len(toR) + 2] = Info(1)
    BY <1>3, <2>2, SaidTwo
  <2>4. Len(toR) = 0 \/ Len(toR) = 1
    BY <2>1, <2>2, Few
  <2>5. Len(toR) = 1 => toR'[1] = toR[1] /\ toR[1].type \in {"ZRQINIT", "badFrame"}
    BY <2>1, <2>3
  <2>6. QED
    BY <2>1, <2>3, <2>4, <2>5
<1>8. ASSUME r \notin Ended
      PROVE  /\ Len(toR') \in {2, 3}
             /\ Len(toR') = 3 => toR'[1].type \in {"ZRQINIT", "badFrame"}
             /\ toR'[Len(toR') - 1].type = "ZFILE"
             /\ toR'[Len(toR')].type = "info" /\ toR'[Len(toR')].n = 1
             /\ \A i \in 1..Len(toR') : toR'[i].type # "ZCRCQ"
  <2>1. Frame("ZFILE").type = "ZFILE" /\ Info(1).type = "info" /\ Info(1).n = 1
    BY DEF Frame, Info
  <2>2. CASE Len(toR) = 0
    <3>1. Len(toR') = 2 /\ toR'[1].type = "ZFILE" /\ toR'[2].type = "info" /\ toR'[2].n = 1
      BY <1>7, <1>8, <2>1, <2>2
    <3>2. QED
      BY <3>1
  <2>3. CASE Len(toR) = 1
    <3>1. /\ Len(toR') = 3 /\ toR'[1].type \in {"ZRQINIT", "badFrame"}
          /\ toR'[2].type = "ZFILE" /\ toR'[3].type = "info" /\ toR'[3].n = 1
      BY <1>7, <1>8, <2>1, <2>3
    <3>2. QED
      BY <3>1
  <2>4. QED
    BY <1>7, <1>8, <2>2, <2>3
<1>9. Incoming'
  BY <1>2, <1>7, <1>8 DEF Incoming, Greeting, Ended
<1>11. ASSUME r' \notin Ended PROVE Together'
  BY <1>2, <1>3, <1>5, <1>7, <1>8, <1>11 DEF Together
<1>12. QED
  BY <1>4, <1>6, <1>9, <1>11 DEF Inv

LEMMA SenderPosKeeps == Inv /\ WellFormed' /\ SenderPos => Inv'
<1> SUFFICES ASSUME Inv, WellFormed', SenderPos PROVE Inv'
  OBVIOUS
<1>w. WellFormed /\ Disk /\ Answers /\ Incoming /\ (s \notin Ended /\ r \notin Ended => Together)
  BY DEF Inv
<1>1. /\ s = "pos" /\ file \in Files /\ Len(toS) = 1 /\ toS' = <<>>
      /\ toS[1].type = "ZRPOS" /\ toS[1].n = Len(disk[file]) /\ Head(toS) = toS[1]
  <2>1. /\ s = "pos" /\ Len(toS) \in Nat \ {0} /\ Head(toS) = toS[1]
        /\ toS[1].type \in {"ZRPOS", "ZSKIP"} /\ (Len(toS) = 1 => toS' = <<>>)
    BY <1>w, SenderTook DEF SenderPos
  <2>2. toS[1].type = "ZRPOS" => 1 = Len(toS) /\ toS[1].n = Len(disk[file])
    <3>1. 1 \in 1..Len(toS)
      BY <2>1
    <3>2. QED
      BY <1>w, <2>1, <3>1 DEF Answers
  <2>3. toS[1].type # "ZSKIP"
    BY <1>w, <2>1 DEF Answers
  <2>4. QED
    BY <1>w, <2>1, <2>2, <2>3, Shapes
<1>2. /\ UNCHANGED <<size, disk, reported, r, into, offset, received>>
      /\ IF Len(disk[file]) >= size[file]
         THEN Offer(file + 1)
         ELSE /\ s' = "seek" /\ start' = Len(disk[file]) /\ sent' = Len(disk[file])
              /\ UNCHANGED <<toR, file>>
  BY <1>1 DEF SenderPos, receiver
<1>3. ASSUME r \notin Ended
      PROVE  /\ r = "file" /\ into = file /\ toR = <<>> /\ offset = Len(disk[file])
  <2>1. Together
    BY <1>w, <1>1, <1>3 DEF Ended
  <2>2. 1 \in 1..Len(toS) /\ toS # <<>>
    BY <1>1, SMTT(30)
  <2>3. r = "file" /\ into = file /\ toR = <<>>
    BY <1>1, <2>1, <2>2 DEF Together
  <2>4. QED
    BY <1>w, <2>3 DEF Incoming
<1>4. Len(disk[file]) <= size[file] /\ size[file] \in Nat /\ Len(disk[file]) \in Nat
  BY <1>w, <1>1, Shapes DEF Disk
<1>5. CASE Len(disk[file]) >= size[file]
  <2>1. Len(disk[file]) = size[file]
    BY <1>4, <1>5
  <2>2. /\ file' = file + 1
        /\ \/ file + 1 \in Files /\ s' = "pos" /\ toR' = toR \o <<Frame("ZFILE"), Info(file + 1)>>
           \/ file + 1 = NFiles + 1 /\ s' = "fin" /\ toR' = toR \o <<Frame("ZFIN")>>
    <3>1. Offer(file + 1)
      BY <1>2, <1>5
    <3>2. file + 1 \notin Files => file + 1 = NFiles + 1
      BY <1>1, ZmodemAssumption DEF Files
    <3>3. QED
      BY <3>1, <3>2 DEF Offer, SenderSends
  <2>3. \A f \in Files : f < file' => f < file \/ f = file
    BY <1>1, <2>2, <1>w, Shapes, SMTT(30)
  <2>4. Disk'
    BY <1>1, <1>2, <1>w, <2>1, <2>2, <2>3 DEF Disk, Whole
  <2>5. Answers'
    BY <1>1, <2>2 DEF Answers
  <2>6. ASSUME r \notin Ended
        PROVE  /\ \A i \in 1..Len(toR') : toR'[i].type \in {"ZFILE", "info", "ZFIN"}
               /\ s' = "fin" => Len(toR') = 1 /\ toR'[1].type = "ZFIN"
               /\ s' = "pos" => \A i \in 1..Len(toR') : toR'[i].type \in {"ZFILE", "info"}
    <3>1. CASE s' = "pos" /\ toR' = toR \o <<Frame("ZFILE"), Info(file + 1)>>
      <4>1. Len(toR') = 2 /\ toR'[1].type = "ZFILE" /\ toR'[2].type = "info"
        BY <1>3, <2>6, <3>1 DEF Frame, Info
      <4>2. QED
        BY <3>1, <4>1
    <3>2. CASE s' = "fin" /\ toR' = toR \o <<Frame("ZFIN")>>
      BY <1>3, <2>6, <3>2 DEF Frame
    <3>3. QED
      BY <2>2, <3>1, <3>2
  <2>7. Incoming'
    BY <1>2, <1>3, <2>1, <2>6 DEF Incoming, Closing, Ended
  <2>8. ASSUME r' \notin Ended PROVE Together'
    <3>1. into < file'
      BY <1>2, <1>3, <2>2, <2>8, <1>w, Shapes
    <3>2. QED
      BY <1>1, <1>2, <1>3, <2>1, <2>2, <2>6, <2>8, <3>1 DEF Together
  <2>9. QED
    BY <2>4, <2>5, <2>7, <2>8 DEF Inv
<1>6. CASE ~(Len(disk[file]) >= size[file])
  <2>1. Disk'
    BY <1>w, <1>1, <1>2, <1>6 DEF Disk, Whole
  <2>2. Answers'
    BY <1>1, <1>2, <1>4, <1>6 DEF Answers
  <2>3. Incoming'
    BY <1>w, <1>2, <1>6, SteadyIncoming
  <2>4. ASSUME r' \notin Ended PROVE Together'
    BY <1>1, <1>2, <1>3, <1>4, <1>6, <2>4 DEF Together
  <2>5. QED
    BY <2>1, <2>2, <2>3, <2>4 DEF Inv
<1>7. QED
  BY <1>5, <1>6

LEMMA SenderSeeksKeeps == PlainLine /\ Inv /\ WellFormed' /\ SenderSeeks => Inv'
<1> SUFFICES ASSUME PlainLine, Inv, WellFormed', SenderSeeks PROVE Inv'
  OBVIOUS
<1>w. WellFormed /\ Disk /\ Answers /\ Incoming /\ (s \notin Ended /\ r \notin Ended => Together)
  BY DEF Inv
<1>1. /\ s = "seek" /\ s' = "send" /\ toR' = toR \o <<FrameAt("ZDATA", sent)>>
      /\ UNCHANGED <<size, disk, toS, file, start, sent, reported, r, into, offset, received>>
  BY DEF SenderSeeks, SenderSends, receiver
<1>2. Disk' /\ Answers'
  BY <1>1, <1>w DEF Disk, Whole, Answers
<1>3. ASSUME r \notin Ended
      PROVE  /\ r = "file" /\ into = file /\ toS = <<>> /\ sent = offset /\ sent < size[file]
             /\ Len(toR') = 1 /\ toR'[1].type = "ZDATA" /\ toR'[1].n = offset
             /\ start <= offset
  <2>1. /\ r = "file" /\ into = file /\ toS = <<>> /\ sent = offset /\ sent < size[file]
        /\ toR = <<>> /\ start <= offset
    BY <1>1, <1>3, <1>w DEF Together, Ended, Answers
  <2>2. file \in Files /\ size[file] \in Sizes /\ offset \in Nat
    BY <1>w, <1>1 DEF WellFormed, TypeOK
  <2>3. offset % OffsetLimit = offset
    <3>1. \A a, n \in Nat : a < n => a % n = a
      OBVIOUS
    <3>2. size[file] \in Nat /\ size[file] < OffsetLimit /\ OffsetLimit \in Nat
      BY <2>2, ZmodemAssumption DEF PlainLine
    <3>3. offset < OffsetLimit
      BY <2>1, <2>2, <3>2
    <3>4. QED
      BY <2>2, <3>1, <3>2, <3>3
  <2>4. QED
    BY <1>1, <2>1, <2>3 DEF FrameAt
<1>4. Incoming'
  BY <1>1, <1>3, <1>w DEF Incoming, Streaming, Ended
<1>5. ASSUME r' \notin Ended PROVE Together'
  BY <1>1, <1>3, <1>5, <1>w, Shapes DEF Together, Reads
<1>6. QED
  BY <1>2, <1>4, <1>5 DEF Inv

LEMMA SenderSendsUnitKeeps == Inv /\ WellFormed' /\ SenderSendsUnit => Inv'
<1> SUFFICES ASSUME Inv, WellFormed', SenderSendsUnit PROVE Inv'
  OBVIOUS
<1>w. WellFormed /\ Disk /\ Answers /\ Incoming /\ (s \notin Ended /\ r \notin Ended => Together)
  BY DEF Inv
<1> DEFINE term == IF sent + 1 = size[file] THEN "ZCRCE"
                   ELSE IF (packets + 1) % AckEvery = 0 THEN "ZCRCQ" ELSE "ZCRCG"
           x == Subpacket(Unit(file, sent + 1), term)
<1>1. /\ toR' = toR \o <<x>>
      /\ s = "send" /\ sent < size[file] /\ sent' = sent + 1
      /\ x.unit = Unit(file, sent + 1)
      /\ \/ sent + 1 = size[file] /\ x.type = "ZCRCE" /\ s' = "eof"
         \/ sent + 1 # size[file] /\ x.type = "ZCRCQ" /\ s' = "ack"
         \/ sent + 1 # size[file] /\ x.type = "ZCRCG" /\ s' = "send"
  <2>1. /\ toR' = toR \o <<x>>
        /\ s = "send" /\ sent < size[file] /\ sent' = sent + 1
        /\ s' = CASE term = "ZCRCE" -> "eof" [] term = "ZCRCQ" -> "ack" [] OTHER -> "send"
    BY DEF SenderSendsUnit, SenderSends
  <2>2. x.unit = Unit(file, sent + 1) /\ x.type = term
    BY DEF Subpacket
  <2>3. \/ sent + 1 = size[file] /\ term = "ZCRCE"
        \/ sent + 1 # size[file] /\ term \in {"ZCRCQ", "ZCRCG"}
    OBVIOUS
  <2> HIDE DEF x, term
  <2>4. QED
    BY <2>1, <2>2, <2>3
<1> HIDE DEF x, term
<1>2. UNCHANGED <<size, disk, toS, file, start, reported, r, into, offset, received>>
  BY DEF SenderSendsUnit, receiver
<1>3. file \in Files /\ size[file] \in Nat /\ sent \in Nat /\ offset \in Nat /\ Len(toR) \in Nat
  BY <1>w, <1>1, Shapes
<1>4. Disk'
  BY <1>1, <1>2, <1>w DEF Disk, Whole
<1>5. Answers'
  <2>1. start <= sent'
    BY <1>1, <1>3, <1>w, Shapes DEF Answers
  <2>2. \A i \in 1..Len(toS) :
          /\ toS[i].type \in {"ZACK", "ZRPOS", "badFrame"}
          /\ toS[i].type = "ZRPOS" =>
               i = Len(toS) /\ start <= toS[i].n /\ toS[i].n <= size[file]
    BY <1>1, <1>w DEF Answers
  <2>3. QED
    BY <1>1, <1>2, <2>1, <2>2 DEF Answers
<1>6. /\ Len(toR') = Len(toR) + 1
      /\ \A i \in 1..Len(toR) : toR'[i] = toR[i]
      /\ toR'[Len(toR) + 1] = x
  BY <1>1, <1>w, Shapes, Said
<1>7. Carries(x, file, sent + 1)
  BY <1>1, <1>3 DEF Carries
<1>8. ASSUME r \notin Ended
      PROVE  /\ toS = <<>> /\ into = file /\ start <= offset
             /\ \/ r = "file" /\ Streaming /\ Len(toR) >= 1 /\ (offset + Len(toR)) - 1 = sent
                \/ r = "data" /\ offset + Len(toR) = sent
             /\ \A i \in 1..Len(toR) : toR[i].type # "ZCRCQ"
  <2>1. Together
    BY <1>w, <1>1, <1>8 DEF Ended
  <2>2. toS = <<>> /\ Reads(sent) /\ \A i \in 1..Len(toR) : toR[i].type # "ZCRCQ"
    BY <1>1, <2>1 DEF Together
  <2>3. r = "file" /\ Len(toR) >= 1 /\ offset < size[into] => Streaming
    BY <1>w, <1>3, Shapes DEF Incoming, Closing
  <2>4. QED
    BY <2>2, <2>3 DEF Reads
<1>9. Incoming'
  <2>1. CASE r \in Ended
    BY <1>2, <2>1 DEF Incoming, Ended
  <2>2. CASE r = "file" /\ r \notin Ended
    <3>1. Streaming /\ into = file /\ Len(toR) >= 1 /\ (offset + Len(toR)) - 1 = sent
      BY <1>8, <2>2
    <3>2. /\ toR'[1] = toR[1]
          /\ \A i \in 2..Len(toR') :
               \/ i \in 2..Len(toR) /\ toR'[i] = toR[i]
               \/ i = Len(toR) + 1 /\ toR'[i] = x /\ (offset + i) - 1 = sent + 1
      <4>1. 1 \in 1..Len(toR) /\ Len(toR) + 1 \in 2..Len(toR')
        BY <1>3, <1>6, <3>1
      <4>2. \A i \in 2..Len(toR') : i \in 2..Len(toR) \/ i = Len(toR) + 1
        BY <1>3, <1>6
      <4>3. \A i \in 2..Len(toR) : i \in 1..Len(toR)
        BY <1>3
      <4>4. (offset + (Len(toR) + 1)) - 1 = sent + 1
        BY <1>3, <3>1
      <4>5. ASSUME NEW i \in 2..Len(toR')
            PROVE  \/ i \in 2..Len(toR) /\ toR'[i] = toR[i]
                   \/ i = Len(toR) + 1 /\ toR'[i] = x /\ (offset + i) - 1 = sent + 1
        BY <1>6, <4>2, <4>3, <4>4
      <4>6. toR'[1] = toR[1]
        BY <1>6, <4>1
      <4>7. QED
        BY <4>5, <4>6
    <3>3. \A i \in 2..Len(toR') : Carries(toR'[i], into, (offset + i) - 1)
      BY <1>7, <3>1, <3>2 DEF Streaming
    <3>4. Streaming'
      BY <1>2, <3>1, <3>2, <3>3 DEF Streaming, Carries
    <3>5. QED
      BY <1>2, <1>w, <2>2, <3>4 DEF Incoming
  <2>3. CASE r = "data" /\ r \notin Ended
    <3>1. into = file /\ offset + Len(toR) = sent
      BY <1>8, <2>3
    <3>2. \A i \in 1..Len(toR') :
               \/ i \in 1..Len(toR) /\ toR'[i] = toR[i]
               \/ i = Len(toR) + 1 /\ toR'[i] = x /\ offset + i = sent + 1
      BY <1>3, <1>6, <3>1
    <3>3. \A i \in 1..Len(toR') : Carries(toR'[i], into, offset + i)
      BY <1>7, <1>w, <2>3, <3>1, <3>2 DEF Incoming
    <3>4. QED
      BY <1>2, <1>w, <2>3, <3>3 DEF Incoming, Carries
  <2>4. QED
    BY <1>8, <2>1, <2>2, <2>3
<1>10. ASSUME r' \notin Ended PROVE Together'
  <2>1. r \notin Ended /\ toS' = <<>>
    BY <1>2, <1>8, <1>10
  <2>2. Reads(sent)'
    BY <1>1, <1>2, <1>3, <1>6, <1>8, <2>1, SMTT(30) DEF Reads, Streaming
  <2>3. \A i \in 1..Len(toR') : toR'[i].type = "ZCRCQ" => i = Len(toR') /\ s' = "ack"
    <3>1. \A i \in 1..Len(toR') : i \in 1..Len(toR) \/ i = Len(toR')
      BY <1>3, <1>6
    <3>2. QED
      BY <1>1, <1>6, <1>8, <2>1, <3>1
  <2>4. s' # "eof" => sent' < size'[file']
    BY <1>1, <1>2, <1>3
  <2>5. QED
    BY <1>1, <1>2, <2>1, <2>2, <2>3, <2>4 DEF Together
<1>11. QED
  BY <1>4, <1>5, <1>9, <1>10 DEF Inv

LEMMA SenderEofKeeps == PlainLine /\ Inv /\ WellFormed' /\ SenderEof => Inv'
<1> SUFFICES ASSUME PlainLine, Inv, WellFormed', SenderEof PROVE Inv'
  OBVIOUS
<1>w. WellFormed /\ Disk /\ Answers /\ Incoming /\ (s \notin Ended /\ r \notin Ended => Together)
  BY DEF Inv
<1> DEFINE x == FrameAt("ZEOF", sent)
<1>1. /\ s \in {"eof", "send"} /\ (s = "send" => sent >= size[file])
      /\ s' = "finish" /\ toR' = toR \o <<x>>
      /\ UNCHANGED <<size, disk, toS, file, start, sent, reported, r, into, offset, received>>
  BY DEF SenderEof, SenderSends, receiver
<1>2. file \in Files /\ size[file] \in Nat /\ sent \in Nat /\ offset \in Nat /\ Len(toR) \in Nat
      /\ size[file] \in Sizes
  BY <1>w, <1>1, Shapes DEF WellFormed, TypeOK
<1>3. Disk' /\ Answers'
  BY <1>1, <1>w DEF Disk, Whole, Answers
<1>4. /\ Len(toR') = Len(toR) + 1
      /\ \A i \in 1..Len(toR) : toR'[i] = toR[i]
      /\ toR'[Len(toR) + 1] = x
  BY <1>1, <1>w, Shapes, Said
<1>5. ASSUME r \notin Ended
      PROVE  /\ s = "eof" /\ sent = size[file] /\ toS = <<>> /\ into = file
             /\ x.type = "ZEOF" /\ x.n = size[file] /\ Carries(x, file, sent + 1)
             /\ \/ /\ start <= offset /\ Streaming /\ r = "file"
                   /\ Len(toR) >= 1 /\ (offset + Len(toR)) - 1 = sent
                \/ start <= offset /\ r = "data" /\ offset + Len(toR) = sent
                \/ r = "file" /\ offset = size[file] /\ toR = <<>>
             /\ \A i \in 1..Len(toR) : toR[i].type # "ZCRCQ"
  <2>1. Together
    BY <1>w, <1>1, <1>5 DEF Ended
  <2>2. s = "eof"
    BY <1>1, <1>2, <2>1 DEF Together
  <2>3. /\ sent = size[file] /\ toS = <<>>
        /\ \/ Reads(sent)
           \/ r = "file" /\ into = file /\ offset = size[file] /\ toR = <<>>
        /\ \A i \in 1..Len(toR) : toR[i].type # "ZCRCQ"
    BY <2>1, <2>2 DEF Together
  <2>4. r = "file" /\ Len(toR) >= 1 /\ offset < size[into] => Streaming
    BY <1>w, <1>2, Shapes DEF Incoming, Closing
  <2>5. x.type = "ZEOF" /\ x.n = size[file]
    <3>1. \A a, n \in Nat : a < n => a % n = a
      OBVIOUS
    <3>2. size[file] < OffsetLimit /\ OffsetLimit \in Nat
      BY <1>2, ZmodemAssumption DEF PlainLine
    <3>3. sent % OffsetLimit = size[file]
      BY <1>2, <2>3, <3>1, <3>2
    <3>4. QED
      BY <3>3 DEF FrameAt
  <2>6. Carries(x, file, sent + 1)
    <3> HIDE DEF x
    <3> QED BY <1>2, <2>3, <2>5 DEF Carries
  <2>7. QED
    BY <2>2, <2>3, <2>4, <2>5, <2>6 DEF Reads
<1> HIDE DEF x
<1>6. Incoming'
  <2>1. CASE r \in Ended
    BY <1>1, <2>1 DEF Incoming, Ended
  <2>2. CASE r = "file" /\ r \notin Ended /\ toR # <<>>
    <3>1. /\ Streaming /\ into = file /\ Len(toR) >= 1 /\ (offset + Len(toR)) - 1 = sent
          /\ Carries(x, file, sent + 1)
      BY <1>5, <2>2
    <3>2. /\ toR'[1] = toR[1]
          /\ \A i \in 2..Len(toR') :
               \/ i \in 2..Len(toR) /\ toR'[i] = toR[i]
               \/ i = Len(toR) + 1 /\ toR'[i] = x /\ (offset + i) - 1 = sent + 1
      BY <1>2, <1>4, <3>1
    <3>3. \A i \in 2..Len(toR') : Carries(toR'[i], into, (offset + i) - 1)
      BY <3>1, <3>2 DEF Streaming
    <3>4. Streaming'
      BY <1>1, <3>1, <3>2, <3>3 DEF Streaming, Carries
    <3>5. QED
      BY <1>1, <1>w, <2>2, <3>4 DEF Incoming
  <2>3. CASE r = "file" /\ r \notin Ended /\ toR = <<>>
    <3>1. /\ into = file /\ offset = size[file] /\ Len(toR') = 1 /\ toR'[1] = x
          /\ x.type = "ZEOF" /\ x.n = size[file]
      BY <1>4, <1>5, <2>3
    <3>2. QED
      BY <1>1, <1>w, <2>3, <3>1 DEF Incoming, Closing
  <2>4. CASE r = "data" /\ r \notin Ended
    <3>1. into = file /\ offset + Len(toR) = sent /\ Carries(x, file, sent + 1)
      BY <1>5, <2>4
    <3>2. \A i \in 1..Len(toR') :
               \/ i \in 1..Len(toR) /\ toR'[i] = toR[i]
               \/ i = Len(toR) + 1 /\ toR'[i] = x /\ offset + i = sent + 1
      BY <1>2, <1>4, <3>1
    <3>3. \A i \in 1..Len(toR') : Carries(toR'[i], into, offset + i)
      BY <1>w, <2>4, <3>1, <3>2 DEF Incoming
    <3>4. QED
      BY <1>1, <1>w, <2>4, <3>3 DEF Incoming, Carries
  <2>5. QED
    BY <1>5, <2>1, <2>2, <2>3, <2>4
<1>7. ASSUME r' \notin Ended PROVE Together'
  <2>1. r \notin Ended
    BY <1>1, <1>7
  <2>2. \/ Reads(sent + 1)'
        \/ /\ r' = "file" /\ into' = file' /\ offset' = size'[file']
           /\ Len(toR') = 1 /\ toR'[1].type = "ZEOF"
    <3>1. CASE r = "file" /\ toR # <<>>
      BY <1>1, <1>2, <1>4, <1>5, <2>1, <3>1 DEF Reads, Streaming
    <3>2. CASE r = "file" /\ toR = <<>>
      BY <1>1, <1>2, <1>4, <1>5, <2>1, <3>2
    <3>3. CASE r = "data"
      BY <1>1, <1>2, <1>4, <1>5, <2>1, <3>3 DEF Reads
    <3>4. QED
      BY <1>5, <2>1, <3>1, <3>2, <3>3
  <2>3. \A i \in 1..Len(toR') : toR'[i].type # "ZCRCQ"
    <3>1. \A i \in 1..Len(toR') : i \in 1..Len(toR) \/ i = Len(toR) + 1
      BY <1>2, <1>4
    <3>2. QED
      BY <1>4, <1>5, <2>1, <3>1
  <2>4. QED
    BY <1>1, <1>5, <2>1, <2>2, <2>3 DEF Together
<1>8. QED
  BY <1>3, <1>6, <1>7 DEF Inv

LEMMA SenderRepositionsKeeps == Inv /\ WellFormed' /\ SenderRepositions => Inv'
<1> SUFFICES ASSUME Inv, WellFormed', SenderRepositions PROVE Inv'
  OBVIOUS
<1>w. WellFormed /\ Disk /\ Answers /\ Incoming /\ (s \notin Ended /\ r \notin Ended => Together)
  BY DEF Inv
<1>1. /\ s \in {"ack", "finish"} /\ Len(toS) \in Nat \ {0} /\ toS[1].type = "ZRPOS"
      /\ Head(toS) = toS[1] /\ 1 \in 1..Len(toS) /\ (Len(toS) = 1 => toS' = <<>>)
  <2>1. CASE SenderGets("ack", {"ZRPOS"})
    BY <1>w, <2>1, SenderTook
  <2>2. CASE SenderGets("finish", {"ZRPOS"})
    BY <1>w, <2>2, SenderTook
  <2>3. QED
    BY <2>1, <2>2 DEF SenderRepositions
<1>2. 1 = Len(toS) /\ start <= toS[1].n /\ toS[1].n <= size[file] /\ toS' = <<>>
  BY <1>w, <1>1 DEF Answers
<1>3. /\ s' = "seek" /\ sent' = toS[1].n
      /\ UNCHANGED <<size, disk, toR, file, start, reported, r, into, offset, received>>
  <2>1. ~(toS[1].n > size[file])
    BY <1>1, <1>2, <1>w, Shapes
  <2>2. QED
    BY <1>1, <2>1 DEF SenderRepositions, receiver
<1>4. r \in Ended
  <2> SUFFICES ASSUME r \notin Ended PROVE FALSE
    OBVIOUS
  <2>1. Together
    BY <1>w, <1>1 DEF Ended
  <2>2. QED
    BY <1>1, <1>2, <2>1 DEF Together
<1>5. Disk'
  BY <1>1, <1>3, <1>w DEF Disk, Whole
<1>6. Answers'
  BY <1>2, <1>3 DEF Answers
<1>7. Incoming'
  BY <1>3, <1>w, SteadyIncoming
<1>8. QED
  BY <1>3, <1>4, <1>5, <1>6, <1>7 DEF Inv

LEMMA SenderAckKeeps == Inv /\ WellFormed' /\ SenderAck => Inv'
<1> SUFFICES ASSUME Inv, WellFormed', SenderAck PROVE Inv'
  OBVIOUS
<1>w. WellFormed /\ Disk /\ Answers /\ Incoming /\ (s \notin Ended /\ r \notin Ended => Together)
  BY DEF Inv
<1>1. /\ s = "ack" /\ Len(toS) \in Nat \ {0} /\ (Len(toS) = 1 => toS' = <<>>)
      /\ Len(toS') = Len(toS) - 1
      /\ \A i \in 1..Len(toS') : toS'[i] = toS[i + 1]
  BY <1>w, SenderTook DEF SenderAck
<1>2. /\ s' = "send"
      /\ UNCHANGED <<size, disk, toR, file, start, sent, reported, r, into, offset, received>>
  BY DEF SenderAck, receiver
<1>3. Disk'
  BY <1>1, <1>2, <1>w DEF Disk, Whole
<1>4. \A i \in 1..Len(toS') : i + 1 \in 1..Len(toS) /\ (i + 1 = Len(toS) => i = Len(toS'))
  BY <1>1
<1>5. Answers'
  BY <1>1, <1>2, <1>4, <1>w DEF Answers
<1>6. Incoming'
  BY <1>2, <1>w, SteadyIncoming
<1>7. ASSUME r' \notin Ended PROVE Together'
  <2>1. Together /\ toS # <<>>
    BY <1>1, <1>2, <1>7, <1>w DEF Ended
  <2>2. sent < size[file] /\ Reads(sent) /\ toR = <<>> /\ Len(toS) = 1
    BY <1>1, <2>1 DEF Together
  <2>3. QED
    BY <1>1, <1>2, <2>2 DEF Together, Reads
<1>8. QED
  BY <1>3, <1>5, <1>6, <1>7 DEF Inv

LEMMA SenderFinishKeeps == Inv /\ WellFormed' /\ SenderFinish => Inv'
<1> SUFFICES ASSUME Inv, WellFormed', SenderFinish PROVE Inv'
  OBVIOUS
<1>w. WellFormed /\ Disk /\ Answers /\ Incoming /\ (s \notin Ended /\ r \notin Ended => Together)
  BY DEF Inv
<1>1. /\ s = "finish" /\ Len(toS) \in Nat \ {0} /\ toS[1].type \in {"ZRINIT", "ZFIN"}
      /\ Head(toS) = toS[1] /\ 1 \in 1..Len(toS) /\ (Len(toS) = 1 => toS' = <<>>)
  <2>1. CASE SenderGets("finish", {"ZRINIT"})
    BY <1>w, <2>1, SenderTook
  <2>2. CASE SenderGets("finish", {"ZFIN"})
    BY <1>w, <2>2, SenderTook
  <2>3. QED
    BY <2>1, <2>2 DEF SenderFinish
<1>2. toS[1].type = "ZRINIT" /\ Len(toS) = 1 /\ Whole(file) /\ file \in received /\ toS' = <<>>
  BY <1>w, <1>1 DEF Answers
<1>3. /\ reported' = reported \cup {file} /\ Offer(file + 1)
      /\ UNCHANGED <<size, disk, start, sent, r, into, offset, received>>
  BY <1>1, <1>2 DEF SenderFinish, SenderGets, receiver
<1>4. file \in Files /\ file \in Nat
  BY <1>1, <1>w, Shapes
<1>5. /\ file' = file + 1
      /\ \/ file + 1 \in Files /\ s' = "pos" /\ toR' = toR \o <<Frame("ZFILE"), Info(file + 1)>>
         \/ file + 1 = NFiles + 1 /\ s' = "fin" /\ toR' = toR \o <<Frame("ZFIN")>>
  <2>1. file + 1 \notin Files => file + 1 = NFiles + 1
    BY <1>4, ZmodemAssumption DEF Files
  <2>2. QED
    BY <1>3, <2>1 DEF Offer, SenderSends
<1>6. Disk'
  <2>1. \A f \in Files : f < file' => f < file \/ f = file
    BY <1>4, <1>5 DEF Files
  <2>2. QED
    BY <1>2, <1>3, <1>5, <1>w, <2>1 DEF Disk, Whole
<1>7. Answers'
  BY <1>2, <1>5 DEF Answers
<1>8. ASSUME r \notin Ended
      PROVE  /\ r = "session"
             /\ \/ s' = "fin" /\ Len(toR') = 1 /\ toR'[1].type = "ZFIN"
                \/ /\ s' = "pos" /\ Len(toR') = 2
                   /\ toR'[1].type = "ZFILE" /\ toR'[2].type = "info" /\ toR'[2].n = file'
  <2>1. Together
    BY <1>w, <1>1, <1>8 DEF Ended
  <2>2. r = "session" /\ toR = <<>>
    BY <1>1, <1>2, <2>1 DEF Together
  <2>3. QED
    BY <1>5, <2>2 DEF Frame, Info
<1>9. Incoming'
  <2>1. r \notin Ended => Greeting'
    BY <1>8 DEF Greeting
  <2>2. QED
    BY <1>3, <1>8, <2>1 DEF Incoming, Ended
<1>10. ASSUME r' \notin Ended PROVE Together'
  BY <1>2, <1>3, <1>8, <1>10 DEF Together
<1>11. QED
  BY <1>6, <1>7, <1>9, <1>10 DEF Inv

LEMMA SenderFinKeeps == Inv /\ WellFormed' /\ SenderFin => Inv'
<1> SUFFICES ASSUME Inv, WellFormed', SenderFin PROVE Inv'
  OBVIOUS
<1>w. WellFormed /\ Disk /\ Answers /\ Incoming /\ (s \notin Ended /\ r \notin Ended => Together)
  BY DEF Inv
<1>1. /\ s = "fin" /\ Len(toS) \in Nat \ {0} /\ toS[1].type \in {"ZRINIT", "ZFIN"}
      /\ 1 \in 1..Len(toS)
  <2>1. CASE SenderGets("fin", {"ZRINIT"})
    BY <1>w, <2>1, SenderTook
  <2>2. CASE SenderGets("fin", {"ZFIN"})
    BY <1>w, <2>2, SenderTook
  <2>3. QED
    BY <2>1, <2>2 DEF SenderFin
<1>2. /\ toS[1].type = "ZFIN" /\ s' = "ok"
      /\ UNCHANGED <<size, disk, file, start, sent, reported, r, into, offset, received>>
  <2>1. toS[1].type = "ZFIN"
    BY <1>w, <1>1 DEF Answers
  <2>2. ~SenderGets("fin", {"ZRINIT"})
    BY <1>w, <2>1, SenderTook
  <2>3. QED
    BY <2>1, <2>2 DEF SenderFin, receiver
<1>3. r \in Ended
  BY <1>1, <1>w DEF Together, Ended
<1>4. Disk'
  BY <1>1, <1>2, <1>w DEF Disk, Whole
<1>5. Answers' /\ Incoming'
  BY <1>2, <1>3 DEF Answers, Incoming, Ended
<1>6. QED
  BY <1>2, <1>3, <1>4, <1>5 DEF Inv

LEMMA SenderStopsKeeps == Inv /\ WellFormed' /\ (SenderAborts \/ SenderTimesOut) => Inv'
<1> SUFFICES ASSUME Inv, WellFormed', SenderAborts \/ SenderTimesOut PROVE Inv'
  OBVIOUS
<1>1. /\ s' \in {"cancelled", "failed"}
      /\ UNCHANGED <<size, disk, toR, file, start, sent, reported, r, into, offset, received>>
  BY DEF SenderAborts, SenderTimesOut, receiver
<1>2. Disk'
  BY <1>1 DEF Inv, Disk, Whole
<1>3. Answers'
  BY <1>1 DEF Answers
<1>4. Incoming'
  BY <1>1, SteadyIncoming DEF Inv
<1>5. QED
  BY <1>1, <1>2, <1>3, <1>4 DEF Inv, Ended

LEMMA SenderIgnoresKeeps == Inv /\ WellFormed' /\ SenderIgnores => Inv'
<1> SUFFICES ASSUME Inv, WellFormed', SenderIgnores PROVE Inv'
  OBVIOUS
<1>w. WellFormed /\ Disk /\ Answers /\ Incoming /\ (s \notin Ended /\ r \notin Ended => Together)
  BY DEF Inv
<1>1. PICK state \in Awaiting :
        SenderGets(state, (FrameTypes \cup DataTypes \cup Noise) \ Wanted(state))
  BY DEF SenderIgnores
<1>2. UNCHANGED <<size, disk, toR, s, file, start, sent, reported, r, into, offset, received>>
  BY DEF SenderIgnores, sender, receiver
<1>3. /\ s = state /\ Len(toS) \in Nat \ {0} /\ (Len(toS) = 1 => toS' = <<>>)
      /\ Len(toS') = Len(toS) - 1 /\ toS[1].type \notin Wanted(state)
      /\ \A i \in 1..Len(toS') : toS'[i] = toS[i + 1]
  BY <1>1, <1>w, SenderTook
<1>4. \A i \in 1..Len(toS') : i + 1 \in 1..Len(toS) /\ (i + 1 = Len(toS) => i = Len(toS'))
  BY <1>3
<1>5. Disk'
  BY <1>2, <1>w, SteadyDisk
<1>6. Answers'
  BY <1>2, <1>3, <1>4, <1>w, SMTT(30) DEF Answers, Whole
<1>7. Incoming'
  BY <1>2, <1>w, SteadyIncoming
<1>8. ASSUME r' \notin Ended PROVE Together'
  <2>1. Together
    BY <1>1, <1>2, <1>3, <1>8, <1>w DEF Awaiting, Ended
  <2>2. 1 \in 1..Len(toS) /\ toS # <<>>
    BY <1>3
  <2>3. CASE s = "init"
    BY <1>2, <2>1, <2>2, <2>3 DEF Together
  <2>4. CASE s = "pos"
    <3>1. toS[1].type \notin {"ZRPOS", "badFrame"}
      BY <1>3, <2>4 DEF Wanted
    <3>2. /\ \A i \in 1..Len(toS) : toS[i].type # "ZRPOS"
          => \A i \in 1..Len(toS') : toS'[i].type # "ZRPOS"
      BY <1>3, <1>4
    <3>3. toS[Len(toS)].type \in {"ZRPOS", "badFrame"} =>
            toS' # <<>> /\ toS'[Len(toS')] = toS[Len(toS)]
      <4> SUFFICES ASSUME toS[Len(toS)].type \in {"ZRPOS", "badFrame"}
                   PROVE  toS' # <<>> /\ toS'[Len(toS')] = toS[Len(toS)]
        OBVIOUS
      <4>1. Len(toS) # 1
        BY <3>1
      <4>2. Len(toS') \in 1..Len(toS')
        BY <1>3, <4>1
      <4>3. QED
        BY <1>3, <4>1, <4>2
    <3>4. QED
      BY <1>2, <2>1, <2>2, <2>4, <3>2, <3>3 DEF Together
  <2>5. CASE s \in {"ack", "finish", "fin"}
    <3>1. toS[1].type \in Wanted(s)
      BY <2>1, <2>2, <2>5 DEF Together, Wanted, FrameTypes
    <3>2. QED
      BY <1>3, <3>1
  <2>6. QED
    BY <1>1, <1>3, <2>3, <2>4, <2>5 DEF Awaiting
<1>9. QED
  BY <1>2, <1>5, <1>6, <1>7, <1>8 DEF Inv

LEMMA SenderKeeps == PlainLine /\ Inv /\ SenderStep => Inv'
<1>1. Inv /\ SenderStep => WellFormed'
  BY SenderWellFormed DEF Inv
<1>2. QED
  BY <1>1, SenderStartsKeeps, SenderInitKeeps, SenderPosKeeps, SenderSeeksKeeps,
     SenderSendsUnitKeeps, SenderEofKeeps, SenderRepositionsKeeps, SenderAckKeeps,
     SenderFinishKeeps, SenderFinKeeps, SenderStopsKeeps, SenderIgnoresKeeps
  DEF SenderStep

LEMMA ReceiverStartsKeeps == PlainLine /\ Inv /\ WellFormed' /\ ReceiverStarts => Inv'
<1> SUFFICES ASSUME PlainLine, Inv, WellFormed', ReceiverStarts PROVE Inv'
  OBVIOUS
<1>w. WellFormed /\ Disk /\ Answers /\ Incoming /\ (s \notin Ended /\ r \notin Ended => Together)
  BY DEF Inv
<1>1. /\ r = "start" /\ r' = "session" /\ toS' = toS \o <<Frame("ZRINIT")>>
      /\ UNCHANGED <<size, disk, toR, s, file, start, sent, reported, into, offset, received>>
  BY DEF ReceiverStarts, ReceiverSends, PlainLine, sender
<1>2. Disk'
  BY <1>1, <1>w, SteadyDisk
<1>3. Incoming'
  BY <1>1, <1>w DEF Incoming, Greeting
<1>4. ASSUME s \notin Ended
      PROVE  /\ Together /\ s \in {"start", "init"} /\ Len(toS') = 1 /\ toS'[1].type = "ZRINIT"
  <2>1. Together
    BY <1>1, <1>4, <1>w DEF Ended
  <2>2. s \in {"start", "init"}
    <3>1. s \in {"start", "init", "pos", "seek", "send", "ack", "eof", "finish", "fin"}
      BY <1>4, <1>w DEF WellFormed, TypeOK, Awaiting
    <3>2. QED
      BY <1>1, <2>1, <3>1 DEF Together, Reads
  <2>3. toS = <<>>
    BY <1>1, <2>1, <2>2 DEF Together
  <2>4. QED
    BY <1>1, <2>1, <2>2, <2>3 DEF Frame
<1>5. Answers'
  BY <1>1, <1>4 DEF Answers, Ended
<1>6. ASSUME s' \notin Ended PROVE Together'
  <2>1. /\ s = "start" => toR = <<>>
        /\ file = 1
        /\ s = "init" => Len(toR) <= 1 /\ \A i \in 1..Len(toR) : toR[i].type \in {"ZRQINIT", "badFrame"}
    BY <1>1, <1>4, <1>6 DEF Together
  <2>2. QED
    BY <1>1, <1>4, <1>6, <2>1 DEF Together
<1>7. QED
  BY <1>2, <1>3, <1>5, <1>6 DEF Inv

LEMMA ReceiverSessionKeeps == Inv /\ WellFormed' /\ ReceiverSession => Inv'
<1> SUFFICES ASSUME Inv, WellFormed', ReceiverSession PROVE Inv'
  OBVIOUS
<1>w. WellFormed /\ Disk /\ Answers /\ Incoming /\ (s \notin Ended /\ r \notin Ended => Together)
  BY DEF Inv
<1>1. /\ r = "session" /\ Len(toR) \in Nat \ {0}
      /\ toR[1].type \in {"ZRQINIT", "ZSINIT", "ZFILE"} /\ 1 \in 1..Len(toR)
      /\ Len(toR') = Len(toR) - 1 /\ (Len(toR) = 1 => toR' = <<>>)
      /\ \A i \in 1..Len(toR') : toR'[i] = toR[i + 1]
  BY <1>w, ReceiverTook DEF ReceiverSession
<1>2. UNCHANGED <<size, disk, s, file, start, sent, reported, into, offset, received>>
  BY DEF ReceiverSession, sender
<1>3. Greeting
  BY <1>1, <1>w DEF Incoming
<1>4. \/ /\ toR[1].type = "ZRQINIT" /\ (Len(toR) = 1 \/ Len(toR) = 3)
         /\ r' = "session" /\ toS' = toS \o <<Frame("ZRINIT")>>
      \/ toR[1].type = "ZFILE" /\ Len(toR) = 2 /\ r' = "info" /\ toS' = toS
  <2>1. \/ toR[1].type = "ZRQINIT" /\ (Len(toR) = 1 \/ Len(toR) = 3)
        \/ toR[1].type = "ZFILE" /\ Len(toR) = 2
    <3>1. CASE /\ Len(toR) <= 1
               /\ \A i \in 1..Len(toR) : toR[i].type \in {"ZRQINIT", "ZFIN", "badFrame"}
      BY <1>1, <3>1, One
    <3>2. CASE Len(toR) = 2 /\ toR[2 - 1].type \in {"ZFILE", "badFrame"}
      BY <1>1, <3>2
    <3>3. CASE Len(toR) = 3 /\ toR[1].type \in {"ZRQINIT", "badFrame"}
      BY <1>1, <3>3
    <3>4. QED
      BY <1>3, <3>1, <3>2, <3>3 DEF Greeting
  <2>2. CASE toR[1].type = "ZRQINIT" /\ (Len(toR) = 1 \/ Len(toR) = 3)
    BY <2>2, <1>1, <1>w, ReceiverTook DEF ReceiverSession, ReceiverSends
  <2>3. CASE toR[1].type = "ZFILE" /\ Len(toR) = 2
    BY <2>3, <1>1, <1>w, ReceiverTook DEF ReceiverSession, ReceiverSends
  <2>4. QED
    BY <2>1, <2>2, <2>3
<1>5. Disk'
  BY <1>2, <1>w, SteadyDisk
<1>6. Incoming'
  <2>1. CASE r' = "session" /\ Len(toR) = 1
    BY <1>1, <2>1 DEF Incoming, Greeting
  <2>2. CASE r' = "session" /\ Len(toR) = 3
    BY <1>1, <1>3, <2>2 DEF Incoming, Greeting
  <2>3. CASE r' = "info" /\ Len(toR) = 2
    BY <1>1, <1>3, <2>3 DEF Incoming, Greeting
  <2>4. QED
    BY <1>4, <2>1, <2>2, <2>3
<1>7. /\ r' = "session" => /\ Len(toS') = Len(toS) + 1 /\ Len(toS) \in Nat /\ toS' # <<>>
                           /\ \A i \in 1..Len(toS) : toS'[i] = toS[i]
                           /\ toS'[Len(toS) + 1].type = "ZRINIT"
  BY <1>4, <1>w, Shapes, Said, SMTT(30) DEF Frame
<1>8. ASSUME s \notin Ended
      PROVE  /\ Together
             /\ \/ s = "init" /\ r' = "session" /\ Len(toR) = 1
                \/ /\ s = "pos" /\ Len(toR) \in {2, 3}
                   /\ toR[Len(toR)].type = "info" => toR[Len(toR)].n = file
                   /\ \A i \in 1..Len(toS) : toS[i].type # "ZRPOS"
  <2>1. Together
    BY <1>1, <1>8, <1>w DEF Ended
  <2>2. s \in {"start", "init", "pos", "seek", "send", "ack", "eof", "finish", "fin"}
    BY <1>8, <1>w DEF WellFormed, TypeOK, Awaiting
  <2>3. s \in {"init", "pos"}
    BY <1>1, <2>1, <2>2 DEF Together, Reads
  <2>4. s = "init" => Len(toR) <= 1
    BY <2>1 DEF Together
  <2>5. s = "pos" => /\ Len(toR) \in {2, 3}
                     /\ toR[Len(toR)].type = "info" => toR[Len(toR)].n = file
                     /\ \A i \in 1..Len(toS) : toS[i].type # "ZRPOS"
    BY <1>1, <2>1 DEF Together
  <2>6. s = "init" => Len(toR) = 1
    BY <1>1, <2>4, One
  <2>7. s = "init" => r' = "session"
    BY <1>4, <2>6
  <2>8. QED
    BY <2>1, <2>3, <2>5, <2>6, <2>7
<1>9. Answers'
  <2>1. CASE s \in Ended
    BY <1>2, <2>1 DEF Answers, Ended
  <2>2. CASE s \notin Ended /\ r' = "info"
    BY <1>2, <1>4, <1>w, <2>2, SteadyAnswers
  <2>3. CASE s \notin Ended /\ r' = "session"
    <3>1. s \in {"init", "pos"} /\ \A i \in 1..Len(toS) : toS[i].type \in {"ZRINIT", "badFrame"}
      BY <1>8, <1>w, <2>3 DEF Answers
    <3>2. \A i \in 1..Len(toS') : toS'[i].type \in {"ZRINIT", "badFrame"}
      <4>1. \A i \in 1..Len(toS') : i \in 1..Len(toS) \/ i = Len(toS) + 1
        BY <1>7, <2>3
      <4>2. QED
        BY <1>7, <2>3, <3>1, <4>1
    <3>3. QED
      BY <1>2, <3>1, <3>2 DEF Answers
  <2>4. QED
    BY <1>4, <2>1, <2>2, <2>3
<1>10. ASSUME s' \notin Ended PROVE Together'
  <2>1. s \notin Ended
    BY <1>2, <1>10
  <2>2. CASE s = "init"
    <3>1. file = 1
      BY <1>8, <2>1, <2>2 DEF Together
    <3>2. QED
      BY <1>1, <1>2, <1>8, <2>1, <2>2, <3>1 DEF Together
  <2>3. CASE s = "pos" /\ r' = "session"
    <3>1. Len(toR') = 2 /\ toR'[2] = toR[3] /\ Len(toR) = 3 /\ toR'[1] = toR[2]
      BY <1>1, <1>4, <1>8, <2>1, <2>3
    <3>2. \A i \in 1..Len(toS') : toS'[i].type # "ZRPOS"
      <4>1. \A i \in 1..Len(toS') : i \in 1..Len(toS) \/ i = Len(toS) + 1
        BY <1>7, <2>3
      <4>2. QED
        BY <1>7, <1>8, <2>1, <2>3, <4>1
    <3>3. toR'[1].type # "ZCRCQ" /\ toR'[2].type # "ZCRCQ"
      BY <1>3, <3>1 DEF Greeting
    <3>4. QED
      BY <1>2, <1>8, <2>1, <2>3, <3>1, <3>2, <3>3 DEF Together
  <2>4. CASE s = "pos" /\ r' = "info"
    <3>1. Len(toR') = 1 /\ toR'[1] = toR[2] /\ Len(toR) = 2 /\ toS' = toS
      <4>1. Len(toR) = 2 /\ toS' = toS
        BY <1>4, <2>4
      <4>2. Len(toR') = 1 /\ 1 \in 1..Len(toR')
        BY <1>1, <4>1
      <4>3. QED
        BY <1>1, <4>1, <4>2
    <3>2. toR'[1].type # "ZCRCQ"
      BY <1>3, <3>1 DEF Greeting
    <3>3. QED
      BY <1>2, <1>8, <2>1, <2>4, <3>1, <3>2 DEF Together
  <2>5. QED
    BY <1>4, <1>8, <2>1, <2>2, <2>3, <2>4
<1>11. QED
  BY <1>5, <1>6, <1>9, <1>10 DEF Inv

LEMMA NoSinit == Inv /\ ReceiverSinit => FALSE
BY DEF Inv, Incoming, ReceiverSinit, ReceiverGets, Ended

LEMMA ReceiverOpensKeeps == PlainLine /\ Inv /\ WellFormed' /\ ReceiverOpens => Inv'
<1> SUFFICES ASSUME PlainLine, Inv, WellFormed', ReceiverOpens PROVE Inv'
  OBVIOUS
<1>w. WellFormed /\ Disk /\ Answers /\ Incoming /\ (s \notin Ended /\ r \notin Ended => Together)
  BY DEF Inv
<1> DEFINE x == FrameAt("ZRPOS", offset')
<1>1. /\ r = "info" /\ Len(toR) = 1 /\ toR' = <<>> /\ toR[1].type = "info"
      /\ into' = toR[1].n /\ into' \in Files
  <2>1. /\ r = "info" /\ toR[1].type = "info" /\ Head(toR) = toR[1] /\ toR[1] \in Wire
        /\ (Len(toR) = 1 => toR' = <<>>)
    BY <1>w, ReceiverTook DEF ReceiverOpens
  <2>2. Len(toR) = 1
    BY <1>w, <2>1 DEF Incoming
  <2>3. QED
    BY <2>1, <2>2 DEF ReceiverOpens, Wire
<1>2. /\ r' = "file" /\ offset' = Len(disk[into']) /\ toS' = toS \o <<x>>
      /\ UNCHANGED <<size, disk, s, file, start, sent, reported, received>>
  BY DEF ReceiverOpens, ReceiverSends, PlainLine, sender
<1>3. Disk'
  BY <1>2, <1>w, SteadyDisk
<1>4. Incoming'
  BY <1>1, <1>2 DEF Incoming, Ended
<1>5. x.type = "ZRPOS" /\ x.n = Len(disk[into'])
  <2>1. \A a, n \in Nat : a < n => a % n = a
    OBVIOUS
  <2>2. size[into'] \in Sizes /\ offset' \in Nat
    BY <1>1, <1>w DEF WellFormed, TypeOK
  <2>3. size[into'] < OffsetLimit /\ offset' <= size[into'] /\ size[into'] \in Nat
    BY <1>1, <1>2, <1>w, <2>2, ZmodemAssumption DEF PlainLine, Disk
  <2>4. offset' % OffsetLimit = offset'
    <3>1. OffsetLimit \in Nat
      BY ZmodemAssumption
    <3>2. offset' < OffsetLimit
      BY <2>2, <2>3, <3>1
    <3>3. QED
      BY <2>1, <2>2, <3>1, <3>2
  <2>5. QED
    BY <1>2, <2>4 DEF FrameAt
<1> HIDE DEF x
<1>6. /\ Len(toS') = Len(toS) + 1 /\ Len(toS) \in Nat /\ toS' # <<>>
      /\ \A i \in 1..Len(toS) : toS'[i] = toS[i]
      /\ toS'[Len(toS) + 1] = x
  BY <1>2, <1>w, Shapes, Said
<1>7. ASSUME s \notin Ended
      PROVE  /\ s = "pos" /\ into' = file /\ \A i \in 1..Len(toS) : toS[i].type # "ZRPOS"
  <2>1. Together
    BY <1>1, <1>7, <1>w DEF Ended
  <2>2. s \in {"start", "init", "pos", "seek", "send", "ack", "eof", "finish", "fin"}
    BY <1>7, <1>w DEF WellFormed, TypeOK, Awaiting
  <2>3. s = "pos"
    BY <1>1, <2>1, <2>2 DEF Together, Reads
  <2>4. QED
    BY <1>1, <2>1, <2>3 DEF Together
<1>8. Answers'
  <2>1. CASE s \in Ended
    BY <1>2, <2>1 DEF Answers, Ended
  <2>2. CASE s \notin Ended
    <3>1. \A i \in 1..Len(toS) : toS[i].type \in {"ZRINIT", "badFrame"}
      BY <1>7, <1>w, <2>2 DEF Answers
    <3>2. \A i \in 1..Len(toS') : i \in 1..Len(toS) \/ i = Len(toS')
      BY <1>6
    <3>3. QED
      BY <1>2, <1>5, <1>6, <1>7, <2>2, <3>1, <3>2 DEF Answers
  <2>3. QED
    BY <2>1, <2>2
<1>9. ASSUME s' \notin Ended PROVE Together'
  BY <1>1, <1>2, <1>5, <1>6, <1>7, <1>9 DEF Together
<1>10. QED
  BY <1>3, <1>4, <1>8, <1>9 DEF Inv

LEMMA ReceiverDataKeeps == Inv /\ WellFormed' /\ ReceiverData => Inv'
<1> SUFFICES ASSUME Inv, WellFormed', ReceiverData PROVE Inv'
  OBVIOUS
<1>w. WellFormed /\ Disk /\ Answers /\ Incoming /\ (s \notin Ended /\ r \notin Ended => Together)
  BY DEF Inv
<1>1. /\ r = "file" /\ Len(toR) \in Nat \ {0} /\ toR[1].type = "ZDATA" /\ Head(toR) = toR[1]
      /\ Len(toR') = Len(toR) - 1
      /\ \A i \in 1..Len(toR') : toR'[i] = toR[i + 1]
  BY <1>w, ReceiverTook DEF ReceiverData
<1>2. Streaming /\ offset = Len(disk[into])
  <2>1. toR # <<>> /\ 1 \in 1..Len(toR)
    BY <1>1
  <2>2. ~Closing
    BY <1>1, <2>1 DEF Closing
  <2>3. QED
    BY <1>1, <1>w, <2>1, <2>2 DEF Incoming
<1>3. /\ r' = "data"
      /\ UNCHANGED <<size, disk, toS, s, file, start, sent, reported, into, offset, received>>
  BY <1>1, <1>2 DEF ReceiverData, Streaming, sender
<1>4. offset \in Nat /\ \A i \in 1..Len(toR') : i + 1 \in 2..Len(toR) /\ (offset + (i + 1)) - 1 = offset + i
  BY <1>1, <1>w, Shapes
<1>5. \A i \in 1..Len(toR') : Carries(toR'[i], into, offset + i)
  BY <1>1, <1>2, <1>4 DEF Streaming
<1>6. Incoming'
  BY <1>2, <1>3, <1>5 DEF Incoming, Streaming, Carries
<1>7. Disk' /\ Answers'
  BY <1>3, <1>w, SteadyDisk, SteadyAnswers
<1>8. ASSUME s' \notin Ended PROVE Together'
  <2>1. Together /\ toR # <<>>
    BY <1>1, <1>3, <1>8, <1>w DEF Ended
  <2>2. s \in {"start", "init", "pos", "seek", "send", "ack", "eof", "finish", "fin"}
    BY <1>3, <1>8, <1>w DEF WellFormed, TypeOK, Awaiting
  <2>3. s \in {"send", "ack", "eof", "finish"}
    BY <1>1, <1>2, <2>1, <2>2 DEF Together, Streaming
  <2>4. ASSUME NEW ahead \in Nat, Reads(ahead) PROVE Reads(ahead)'
    BY <1>1, <1>3, <1>4, <2>4, <1>w, Shapes DEF Reads
  <2>5. \A i \in 1..Len(toR') :
          toR'[i].type = "ZCRCQ" => i = Len(toR') /\ s = "ack" /\ toS = <<>>
    <3>1. \A i \in 1..Len(toR) :
            toR[i].type = "ZCRCQ" => i = Len(toR) /\ s = "ack" /\ toS = <<>>
      BY <2>1 DEF Together
    <3>2. \A i \in 1..Len(toR') : i + 1 \in 1..Len(toR) /\ (i + 1 = Len(toR) => i = Len(toR'))
      BY <1>1
    <3>3. QED
      BY <1>1, <3>1, <3>2
  <2>6. sent \in Nat /\ sent + 1 \in Nat /\ sent' = sent
    BY <1>3, <1>w, Shapes
  <2>7. CASE s = "send"
    BY <1>3, <2>1, <2>4, <2>5, <2>6, <2>7 DEF Together
  <2>8. CASE s = "ack"
    <3>1. toS = <<>> /\ sent < size[file] /\ Reads(sent)
      BY <1>1, <2>1, <2>8 DEF Together
    <3>2. QED
      BY <1>3, <2>4, <2>5, <2>6, <2>8, <3>1 DEF Together
  <2>9. CASE s = "eof"
    <3>1. sent = size[file] /\ toS = <<>> /\ Reads(sent)
      BY <1>1, <2>1, <2>9 DEF Together
    <3>2. QED
      BY <1>3, <2>4, <2>5, <2>6, <2>9, <3>1 DEF Together
  <2>10. CASE s = "finish"
    <3>1. sent = size[file] /\ toS = <<>> /\ Reads(sent + 1)
      BY <1>1, <1>2, <2>1, <2>10 DEF Together, Streaming
    <3>2. Reads(sent + 1)'
      BY <2>4, <2>6, <3>1
    <3>3. QED
      BY <1>3, <2>5, <2>6, <2>10, <3>1, <3>2 DEF Together
  <2>11. QED
    BY <2>3, <2>7, <2>8, <2>9, <2>10
<1>9. QED
  BY <1>6, <1>7, <1>8 DEF Inv

LEMMA ReceiverStoresKeeps == Inv /\ WellFormed' /\ ReceiverStores => Inv'
<1> SUFFICES ASSUME Inv, WellFormed', ReceiverStores PROVE Inv'
  OBVIOUS
<1>w. WellFormed /\ Disk /\ Answers /\ Incoming /\ (s \notin Ended /\ r \notin Ended => Together)
  BY DEF Inv
<1>1. /\ r = "data" /\ Len(toR) \in Nat \ {0} /\ toR[1].type \in {"ZCRCE", "ZCRCG", "ZCRCQ"}
      /\ Head(toR) = toR[1] /\ 1 \in 1..Len(toR)
      /\ Len(toR') = Len(toR) - 1 /\ (Len(toR) = 1 => toR' = <<>>)
      /\ \A i \in 1..Len(toR') : toR'[i] = toR[i + 1]
  BY <1>w, ReceiverTook DEF ReceiverStores
<1>2. /\ disk' = [disk EXCEPT ![into] = Append(@, toR[1].unit)]
      /\ offset' = offset + 1
      /\ r' = IF toR[1].type = "ZCRCE" THEN "file" ELSE "data"
      /\ IF toR[1].type = "ZCRCQ"
         THEN toS' = toS \o <<FrameAt("ZACK", offset')>>
         ELSE toS' = toS
      /\ UNCHANGED <<size, s, file, start, sent, reported, into, received>>
  BY <1>1 DEF ReceiverStores, ReceiverSends, sender
<1>3. /\ into \in Files /\ disk \in [Files -> Seq(Nat \X Nat)] /\ toR[1].unit \in Nat \X Nat
      /\ offset \in Nat /\ size[into] \in Nat
  <2>1. toR[1] \in Messages
    BY <1>1, <1>w, ElementOfSeq DEF WellFormed, TypeOK
  <2>2. QED
    BY <2>1, <1>w, Shapes DEF WellFormed, TypeOK, Messages
<1>4. /\ offset = Len(disk[into]) /\ offset < size[into]
      /\ \A i \in 1..Len(toR) : Carries(toR[i], into, offset + i)
  BY <1>1, <1>w DEF Incoming
<1>5. /\ toR[1].unit = Unit(into, offset + 1) /\ offset + 1 <= size[into]
      /\ toR[1].type = "ZCRCE" <=> offset + 1 = size[into]
  <2>1. Carries(toR[1], into, offset + 1)
    BY <1>1, <1>4
  <2>2. QED
    BY <1>1, <1>3, <1>4, <2>1 DEF Carries
<1>6. /\ \A f \in Files : f # into => disk'[f] = disk[f]
      /\ Len(disk'[into]) = offset + 1
      /\ \A i \in 1..offset : disk'[into][i] = disk[into][i]
      /\ disk'[into][offset + 1] = toR[1].unit
  <2>1. disk'[into] = Append(disk[into], toR[1].unit) /\ \A f \in Files : f # into => disk'[f] = disk[f]
    BY <1>2, <1>3
  <2>2. disk[into] \in Seq(Nat \X Nat)
    BY <1>3
  <2>3. QED
    BY <1>3, <1>4, <2>1, <2>2, AppendProperties
<1>7. ~Whole(into)
  BY <1>3, <1>4 DEF Whole
<1>8. Disk'
  <2>1. ASSUME NEW f \in Files
        PROVE  /\ Len(disk'[f]) <= size[f]
               /\ \A i \in 1..Len(disk'[f]) : disk'[f][i] = Unit(f, i)
               /\ f < file \/ f \in received => Len(disk'[f]) = size[f]
    <3>1. CASE f = into
      <4>1. \A i \in 1..offset : disk[into][i] = Unit(into, i)
        BY <1>3, <1>4, <1>w DEF Disk
      <4>2. \A i \in 1..(offset + 1) : i \in 1..offset \/ i = offset + 1
        BY <1>3
      <4>3. \A i \in 1..Len(disk'[f]) : disk'[f][i] = Unit(f, i)
        BY <1>5, <1>6, <3>1, <4>1, <4>2
      <4>4. ~(f < file \/ f \in received)
        BY <1>7, <1>w, <3>1 DEF Disk
      <4>5. QED
        BY <1>5, <1>6, <3>1, <4>3, <4>4
    <3>2. CASE f # into
      BY <1>6, <1>w, <3>2 DEF Disk, Whole
    <3>3. QED
      BY <3>1, <3>2
  <2>2. QED
    BY <1>2, <1>w, <2>1 DEF Disk, Whole
<1>9. \A i \in 1..Len(toR') :
        /\ i + 1 \in 1..Len(toR) /\ offset + (i + 1) = offset' + i
        /\ (i + 1 = Len(toR) => i = Len(toR'))
  BY <1>1, <1>2, <1>3
<1>10. \A i \in 1..Len(toR') : Carries(toR'[i], into, offset' + i)
  BY <1>1, <1>4, <1>9
<1>11. Incoming'
  <2>1. CASE toR[1].type # "ZCRCE"
    <3>1. offset' < size[into] /\ offset' = Len(disk'[into])
      BY <1>2, <1>3, <1>5, <1>6, <2>1
    <3>2. QED
      BY <1>2, <1>10, <2>1, <3>1 DEF Incoming, Carries
  <2>2. CASE toR[1].type = "ZCRCE"
    <3>1. offset' = size[into] /\ offset' = Len(disk'[into])
      BY <1>2, <1>5, <1>6, <2>2
    <3>2. ASSUME toR' # <<>>
          PROVE  Len(toR') = 1 /\ toR'[1].type \in {"ZEOF", "badFrame"} /\ toR'[1].n = size[into]
      <4>1. Len(toR') \in Nat \ {0}
        <5>1. Len(toR) # 1 /\ Len(toR) # 0
          BY <1>1, <3>2
        <5>2. QED
          BY <1>1, <5>1
      <4>2. \A i \in 1..Len(toR') : ~(offset' + i <= size[into])
        BY <1>3, <3>1
      <4>3. \A i \in 1..Len(toR') : /\ offset' + i = size[into] + 1
                                    /\ toR'[i].type \in {"ZEOF", "badFrame"}
                                    /\ toR'[i].n = size[into]
        BY <1>10, <4>2 DEF Carries
      <4>4. \A i \in 1..Len(toR') : i = 1
        BY <1>3, <3>1, <4>3
      <4>5. 1 \in 1..Len(toR') /\ Len(toR') \in 1..Len(toR')
        BY <4>1
      <4>6. QED
        BY <4>3, <4>4, <4>5
    <3>3. QED
      BY <1>2, <2>2, <3>1, <3>2 DEF Incoming, Closing
  <2>3. QED
    BY <2>1, <2>2
<1>12. ASSUME s \notin Ended
       PROVE  /\ Together /\ s \in {"send", "ack", "eof", "finish"} /\ into = file
              /\ toR[1].type = "ZCRCQ" => s = "ack" /\ toS = <<>> /\ toR' = <<>>
              /\ toS = <<>>
  <2>1. Together /\ toR # <<>>
    BY <1>1, <1>12, <1>w DEF Ended
  <2>2. s \in {"start", "init", "pos", "seek", "send", "ack", "eof", "finish", "fin"}
    BY <1>12, <1>w DEF WellFormed, TypeOK, Awaiting
  <2>3. s \in {"send", "ack", "eof", "finish"}
    BY <1>1, <2>1, <2>2 DEF Together
  <2>4. into = file /\ toS = <<>>
    BY <1>1, <2>1, <2>3 DEF Together, Reads
  <2>5. toR[1].type = "ZCRCQ" => s = "ack" /\ toS = <<>> /\ toR' = <<>>
    BY <1>1, <2>1 DEF Together
  <2>6. QED
    BY <2>1, <2>3, <2>4, <2>5
<1>13. toR[1].type = "ZCRCQ" /\ toS = <<>> => Len(toS') = 1 /\ toS'[1].type = "ZACK"
  BY <1>2 DEF FrameAt
<1>14. Answers'
  <2>1. CASE s \in Ended
    BY <1>2, <2>1 DEF Answers, Ended
  <2>2. CASE s \notin Ended
    <3>1. \/ toS' = <<>>
          \/ s = "ack" /\ Len(toS') = 1 /\ toS'[1].type = "ZACK"
      BY <1>2, <1>12, <1>13, <2>2
    <3>2. start <= sent
      BY <1>12, <1>w, <2>2 DEF Answers
    <3>3. QED
      BY <1>2, <1>12, <2>2, <3>1, <3>2 DEF Answers
  <2>3. QED
    BY <2>1, <2>2
<1>15. ASSUME s' \notin Ended PROVE Together'
  <2>1. s \notin Ended /\ size[file] \in Nat /\ start \in Nat /\ sent \in Nat
    BY <1>2, <1>15, <1>w, <1>12, <1>3, Shapes
  <2>2. \A i \in 1..Len(toR') :
          toR'[i].type = "ZCRCQ" => i = Len(toR') /\ s = "ack" /\ toR[1].type # "ZCRCQ"
    <3>1. \A i \in 1..Len(toR) : toR[i].type = "ZCRCQ" => i = Len(toR) /\ s = "ack"
      BY <1>12, <2>1 DEF Together
    <3>2. toR[1].type = "ZCRCQ" => Len(toR') = 0
      BY <1>12, <2>1
    <3>3. QED
      BY <1>1, <1>9, <3>1, <3>2
  <2>3. ASSUME NEW ahead \in Nat, Reads(ahead)
        PROVE  /\ offset' + Len(toR') = ahead /\ start' <= offset'
               /\ offset + 1 # size[into] => Reads(ahead)'
    <3>1. start <= offset /\ offset + Len(toR) = ahead
      BY <1>1, <2>3 DEF Reads
    <3>2. offset' + Len(toR') = ahead /\ start' <= offset'
      <4>1. start' = start /\ offset' = offset + 1 /\ Len(toR') = Len(toR) - 1
        BY <1>1, <1>2
      <4>2. Len(toR) \in Nat
        BY <1>1
      <4>3. \A a, b, c \in Nat : a + b = c => (a + 1) + (b - 1) = c
        OBVIOUS
      <4>4. (offset + 1) + (Len(toR) - 1) = ahead
        BY <1>3, <3>1, <4>2, <4>3
      <4>5. start <= offset + 1
        BY <1>3, <2>1, <3>1
      <4>6. QED
        BY <4>1, <4>4, <4>5
    <3>3. offset + 1 # size[into] => Reads(ahead)'
      BY <1>2, <1>5, <1>12, <2>1, <3>2 DEF Reads
    <3>4. QED
      BY <3>2, <3>3
  <2>4. CASE s = "send"
    <3>1. Reads(sent) /\ sent < size[file]
      BY <1>12, <2>1, <2>4 DEF Together
    <3>2. offset + 1 # size[into]
      BY <1>1, <1>3, <1>12, <2>1, <3>1 DEF Reads
    <3>3. Reads(sent)'
      BY <1>2, <2>1, <2>3, <3>1, <3>2
    <3>4. toR[1].type # "ZCRCQ"
      BY <1>12, <2>1, <2>4
    <3>5. QED
      BY <1>2, <1>12, <2>1, <2>2, <2>4, <3>1, <3>3, <3>4 DEF Together
  <2>5. CASE s = "ack"
    <3>1. Reads(sent) /\ sent < size[file]
      BY <1>12, <2>1, <2>5 DEF Together
    <3>2. offset + 1 # size[into]
      BY <1>1, <1>3, <1>12, <2>1, <3>1 DEF Reads
    <3>3. Reads(sent)' /\ r' = "data"
      BY <1>2, <1>5, <2>1, <2>3, <3>1, <3>2
    <3>4. toR[1].type = "ZCRCQ" => /\ toR' = <<>> /\ Len(toS') = 1
                                   /\ toS'[1].type = "ZACK"
      BY <1>12, <1>13, <2>1
    <3>5. toR[1].type # "ZCRCQ" => toS' = <<>>
      BY <1>2, <1>12, <2>1
    <3>6. \A i \in 1..Len(toR') :
            toR'[i].type = "ZCRCQ" => i = Len(toR') /\ s' = "ack" /\ toS' = <<>>
      BY <1>2, <2>2, <2>5, <3>5
    <3>7. QED
      BY <1>2, <2>5, <3>1, <3>3, <3>4, <3>5, <3>6 DEF Together
  <2>6. CASE s = "eof"
    <3>1. Reads(sent) /\ sent = size[file] /\ toS' = <<>>
      BY <1>1, <1>2, <1>12, <2>1, <2>6 DEF Together
    <3>2. offset + 1 # size[into] => Reads(sent)'
      BY <1>2, <2>1, <2>3, <3>1
    <3>3. offset + 1 = size[into] => r' = "file" /\ offset' = size[file] /\ toR' = <<>>
      <4> SUFFICES ASSUME offset + 1 = size[into]
                   PROVE  r' = "file" /\ offset' = size[file] /\ toR' = <<>>
        OBVIOUS
      <4>1. Len(toR) = 1
        BY <1>1, <1>3, <1>12, <2>1, <3>1 DEF Reads
      <4>2. QED
        BY <1>1, <1>2, <1>5, <1>12, <2>1, <4>1
    <3>4. QED
      BY <1>2, <1>12, <2>1, <2>2, <2>6, <3>1, <3>2, <3>3 DEF Together
  <2>7. CASE s = "finish"
    <3>1. Reads(sent + 1) /\ sent = size[file] /\ toS' = <<>>
      BY <1>1, <1>2, <1>12, <2>1, <2>7 DEF Together
    <3>2. offset + 1 # size[into] => Reads(sent + 1)'
      BY <1>2, <2>1, <2>3, <3>1
    <3>3. offset + 1 = size[into] =>
            r' = "file" /\ offset' = size[file] /\ Len(toR') = 1 /\ toR'[1].type \in {"ZEOF", "badFrame"}
      <4> SUFFICES ASSUME offset + 1 = size[into]
                   PROVE  r' = "file" /\ offset' = size[file] /\ Len(toR') = 1 /\ toR'[1].type \in {"ZEOF", "badFrame"}
        OBVIOUS
      <4>1. Len(toR) = 2
        BY <1>1, <1>3, <1>12, <2>1, <3>1 DEF Reads
      <4>2. Len(toR') = 1 /\ 1 \in 1..Len(toR') /\ r' = "file" /\ offset' = size[file]
        BY <1>1, <1>2, <1>5, <1>12, <2>1, <4>1
      <4>3. Carries(toR'[1], into, offset' + 1) /\ offset' = size[into]
        BY <1>2, <1>10, <4>2
      <4>4. toR'[1].type \in {"ZEOF", "badFrame"}
        BY <1>3, <4>3 DEF Carries
      <4>5. QED
        BY <4>2, <4>4
    <3>4. QED
      BY <1>2, <1>12, <2>1, <2>2, <2>7, <3>1, <3>2, <3>3 DEF Together
  <2>8. QED
    BY <1>12, <2>1, <2>4, <2>5, <2>6, <2>7
<1>16. QED
  BY <1>8, <1>11, <1>14, <1>15 DEF Inv

\* A receiver whose data ran out or was spoiled says where it stands.
LEMMA AskedAgain ==
  ASSUME PlainLine, WellFormed, Disk, Answers, Incoming, s \notin Ended => Together,
         r = "data", toS' = toS \o <<FrameAt("ZRPOS", offset)>>,
         UNCHANGED <<size, disk, s, file, start, sent, received>>
  PROVE  Answers'
<1> DEFINE x == FrameAt("ZRPOS", offset)
<1>1. x.type = "ZRPOS" /\ x.n = offset
  <2>1. \A a, n \in Nat : a < n => a % n = a
    OBVIOUS
  <2>2. size[into] \in Sizes /\ offset \in Nat
    BY Shapes DEF WellFormed, TypeOK
  <2>3. size[into] < OffsetLimit /\ offset < size[into] /\ size[into] \in Nat /\ OffsetLimit \in Nat
    BY <2>2, ZmodemAssumption DEF PlainLine, Incoming
  <2>4. offset < OffsetLimit
    BY <2>2, <2>3
  <2>5. offset % OffsetLimit = offset
    BY <2>1, <2>2, <2>3, <2>4
  <2>6. QED
    BY <2>5 DEF FrameAt
<1>2. /\ Len(toS') = Len(toS) + 1 /\ Len(toS) \in Nat
      /\ \A i \in 1..Len(toS) : toS'[i] = toS[i]
      /\ toS'[Len(toS) + 1] = x
  BY Shapes, Said
<1> HIDE DEF x
<1>3. CASE s \in Ended
  BY <1>3 DEF Answers, Ended
<1>4. CASE s \notin Ended
  <2>1. s \in {"start", "init", "pos", "seek", "send", "ack", "eof", "finish", "fin"}
    BY <1>4 DEF WellFormed, TypeOK, Awaiting
  <2>2. /\ s \in {"send", "ack", "eof", "finish"} /\ into = file /\ start <= offset
        /\ \A i \in 1..Len(toS) : toS[i].type \in {"ZACK", "badFrame"}
    <3>1. Together
      BY <1>4
    <3>2. s \in {"send", "ack", "eof", "finish"}
      BY <2>1, <3>1 DEF Together
    <3>3. into = file /\ start <= offset
      BY <3>1, <3>2 DEF Together, Reads
    <3>4. \A i \in 1..Len(toS) : toS[i].type \in {"ZACK", "badFrame"}
      BY <3>1, <3>2 DEF Together
    <3>5. QED
      BY <3>2, <3>3, <3>4
  <2>3. start <= sent /\ offset <= size[file] /\ offset \in Nat
    BY <2>2, Shapes DEF Answers, Incoming
  <2>4. \A i \in 1..Len(toS') : i \in 1..Len(toS) \/ i = Len(toS')
    BY <1>2
  <2>5. QED
    BY <1>1, <1>2, <2>2, <2>3, <2>4 DEF Answers
<1>5. QED
  BY <1>3, <1>4

LEMMA ReceiverSpoiledKeeps == PlainLine /\ Inv /\ WellFormed' /\ ReceiverSpoiled => Inv'
<1> SUFFICES ASSUME PlainLine, Inv, WellFormed', ReceiverSpoiled PROVE Inv'
  OBVIOUS
<1>w. WellFormed /\ Disk /\ Answers /\ Incoming /\ (s \notin Ended /\ r \notin Ended => Together)
  BY DEF Inv
<1>1. UNCHANGED <<size, disk, s, file, start, sent, reported, into, offset, received>>
  BY DEF ReceiverSpoiled, sender
<1>2. \/ r = "info" /\ r' = "failed" /\ toS' = toS
      \/ r = "data" /\ r' = "damaged" /\ toS' = toS \o <<FrameAt("ZRPOS", offset)>> /\ toR # <<>>
  BY DEF ReceiverSpoiled, ReceiverGets, ReceiverSends
<1>3. Disk'
  BY <1>1, <1>w, SteadyDisk
<1>4. Incoming'
  BY <1>2 DEF Incoming, Ended
<1>5. Answers'
  <2>1. CASE toS' = toS
    BY <1>1, <1>w, <2>1, SteadyAnswers
  <2>2. CASE r = "data" /\ toS' = toS \o <<FrameAt("ZRPOS", offset)>> /\ toR # <<>>
    <3>1. s \notin Ended => Together
      BY <1>w, <2>2 DEF Ended
    <3>2. QED
      BY <1>1, <1>w, <2>2, <3>1, AskedAgain
  <2>3. QED
    BY <1>2, <2>1, <2>2
<1>6. r' \in Ended
  BY <1>2 DEF Ended
<1>7. QED
  BY <1>3, <1>4, <1>5, <1>6 DEF Inv

\* ZEOF finds the file whole.
LEMMA EofKeepsDisk ==
  ASSUME Inv, ReceiverEof
  PROVE  /\ Closing /\ Len(toR) = 1 /\ toR' = <<>> /\ r = "file"
         /\ toR[1].type = "ZEOF" /\ 1 \in 1..Len(toR)
         /\ offset = size[into] /\ offset = Len(disk[into])
         /\ disk' = disk
<1>w. WellFormed /\ Incoming
  BY DEF Inv
<1>1. /\ r = "file" /\ toR[1].type = "ZEOF" /\ Head(toR) = toR[1] /\ Len(toR) \in Nat \ {0}
      /\ (Len(toR) = 1 => toR' = <<>>) /\ 1 \in 1..Len(toR) /\ toR # <<>>
  BY <1>w, ReceiverTook DEF ReceiverEof
<1>2. /\ Closing /\ Len(toR) = 1 /\ toR' = <<>> /\ toR[1].n = size[into]
      /\ offset = size[into] /\ offset = Len(disk[into])
  <2>1. ~Streaming
    BY <1>1 DEF Streaming
  <2>2. Closing /\ offset = Len(disk[into])
    BY <1>1, <1>w, <2>1 DEF Incoming
  <2>3. QED
    BY <1>1, <2>2 DEF Closing
<1>3. disk' = disk
  <2>1. into \in Files /\ disk \in [Files -> Seq(Nat \X Nat)] /\ disk[into] \in Seq(Nat \X Nat)
    BY <1>w, Shapes DEF WellFormed, TypeOK
  <2>2. SetLen(disk[into], size[into]) = disk[into]
    BY <1>2, <2>1 DEF SetLen
  <2>3. disk' = [disk EXCEPT ![into] = SetLen(@, size[into])]
    BY <1>1, <1>2 DEF ReceiverEof
  <2>4. QED
    BY <2>1, <2>2, <2>3
<1>4. QED
  BY <1>1, <1>2, <1>3

LEMMA ReceiverEofKeeps == PlainLine /\ Inv /\ WellFormed' /\ ReceiverEof => Inv'
<1> SUFFICES ASSUME PlainLine, Inv, WellFormed', ReceiverEof PROVE Inv'
  OBVIOUS
<1>w. WellFormed /\ Disk /\ Answers /\ Incoming /\ (s \notin Ended /\ r \notin Ended => Together)
  BY DEF Inv
<1>1. r = "file" /\ toR # <<>>
  BY DEF ReceiverEof, ReceiverGets
<1>2. /\ Closing /\ Len(toR) = 1 /\ toR' = <<>>
      /\ offset = size[into] /\ offset = Len(disk[into])
      /\ toR[1].type = "ZEOF" /\ 1 \in 1..Len(toR)
  BY EofKeepsDisk
<1>3. /\ received' = received \cup {into}
      /\ r' = "session" /\ toS' = toS \o <<Frame("ZRINIT")>>
      /\ UNCHANGED <<size, s, file, start, sent, reported, into, offset>>
  BY DEF ReceiverEof, ReceiverSends, PlainLine, sender
<1>4. disk' = disk
  BY EofKeepsDisk
<1>5. Disk'
  BY <1>2, <1>3, <1>4, <1>w DEF Disk, Whole
<1>6. Incoming'
  BY <1>2, <1>3 DEF Incoming, Greeting
<1>7. ASSUME s \notin Ended
      PROVE  /\ Together
             /\ \/ s = "finish" /\ into = file /\ toS = <<>>
                \/ s = "fin"
  <2>1. Together
    BY <1>1, <1>7, <1>w DEF Ended
  <2>2. s \in {"start", "init", "pos", "seek", "send", "ack", "eof", "finish", "fin"}
    BY <1>7, <1>w DEF WellFormed, TypeOK, Awaiting
  <2>3. s \in {"finish", "fin"}
    <3>1. ~(offset < size[file]) \/ into # file
      <4>1. offset \in Nat
        BY <1>w, Shapes
      <4>2. ~(offset < offset)
        BY <4>1
      <4>3. QED
        BY <1>2, <4>2
    <3>2. s # "pos"
      BY <1>1, <1>2, <2>1 DEF Together
    <3>3. QED
      BY <1>1, <2>1, <2>2, <3>1, <3>2 DEF Together, Reads
  <2>4. s = "finish" => into = file /\ toS = <<>>
    BY <1>1, <2>1 DEF Together, Reads
  <2>5. QED
    BY <2>1, <2>3, <2>4
<1>8. s # "fin"
  BY <1>1, <1>2, <1>7 DEF Together, Ended
<1>9. ASSUME s \notin Ended
      PROVE  s = "finish" /\ into = file /\ Len(toS') = 1 /\ toS'[1].type = "ZRINIT"
  BY <1>3, <1>7, <1>8, <1>9 DEF Frame
<1>10. Answers'
  <2>1. CASE s \in Ended
    BY <1>3, <2>1 DEF Answers, Ended
  <2>2. CASE s \notin Ended
    <3>1. start <= sent
      BY <1>9, <1>w, <2>2 DEF Answers
    <3>2. Whole(file)' /\ file \in received'
      BY <1>2, <1>3, <1>4, <1>9, <2>2 DEF Whole
    <3>3. QED
      BY <1>3, <1>9, <2>2, <3>1, <3>2 DEF Answers
  <2>3. QED
    BY <2>1, <2>2
<1>11. ASSUME s' \notin Ended PROVE Together'
  <2>1. s = "finish" /\ sent = size[file]
    BY <1>3, <1>7, <1>9, <1>11 DEF Together
  <2>2. QED
    BY <1>2, <1>3, <1>9, <1>11, <2>1 DEF Together
<1>12. QED
  BY <1>5, <1>6, <1>10, <1>11 DEF Inv

LEMMA ReceiverFinKeeps == Inv /\ WellFormed' /\ ReceiverFin => Inv'
<1> SUFFICES ASSUME Inv, WellFormed', ReceiverFin PROVE Inv'
  OBVIOUS
<1>w. WellFormed /\ Disk /\ Answers /\ Incoming /\ (s \notin Ended /\ r \notin Ended => Together)
  BY DEF Inv
<1>1. /\ r \in {"session", "file"} /\ toR[1].type = "ZFIN" /\ Len(toR) \in Nat \ {0}
      /\ 1 \in 1..Len(toR)
  <2>1. CASE ReceiverGets("session", {"ZFIN"})
    BY <1>w, <2>1, ReceiverTook
  <2>2. CASE ReceiverGets("file", {"ZFIN"})
    BY <1>w, <2>2, ReceiverTook
  <2>3. QED
    BY <2>1, <2>2 DEF ReceiverFin
<1>2. /\ r' = "ok" /\ toS' = toS \o <<Frame("ZFIN"), Frame("OO")>>
      /\ UNCHANGED <<size, disk, s, file, start, sent, reported, into, offset, received>>
  BY DEF ReceiverFin, ReceiverSends, sender
<1>3. Disk' /\ Incoming'
  BY <1>2, <1>w, SteadyDisk DEF Incoming, Ended
<1>4. r = "session" => Greeting
  BY <1>w DEF Incoming
<1>5. s \notin Ended => s = "fin" /\ toS = <<>>
  <2> SUFFICES ASSUME s \notin Ended PROVE s = "fin" /\ toS = <<>>
    OBVIOUS
  <2>1. Together
    BY <1>1, <1>w DEF Ended
  <2>2. s \in {"start", "init", "pos", "seek", "send", "ack", "eof", "finish", "fin"}
    BY <1>w DEF WellFormed, TypeOK, Awaiting
  <2>3. s # "pos"
    <3>1. CASE r = "session"
      <4>1. Len(toR) > 1 => toR[1].type # "ZFIN"
        BY <1>1, <1>4, <3>1 DEF Greeting
      <4>2. QED
        BY <1>1, <2>1, <3>1, <4>1 DEF Together
    <3>2. CASE r = "file"
      BY <1>1, <2>1, <3>2 DEF Together
    <3>3. QED
      BY <1>1, <3>1, <3>2
  <2>4. s = "fin" => toS = <<>>
    BY <2>1 DEF Together
  <2>5. QED
    BY <1>1, <1>w, <2>1, <2>2, <2>3, <2>4 DEF Together, Reads, Incoming, Streaming, Closing
<1>6. Answers'
  <2>1. s \notin Ended => \A i \in 1..Len(toS') : toS'[i].type \in {"ZFIN", "OO"}
    BY <1>2, <1>5 DEF Frame
  <2>2. QED
    BY <1>2, <1>5, <2>1 DEF Answers, Ended
<1>7. QED
  BY <1>2, <1>3, <1>6 DEF Inv, Ended

LEMMA ReceiverAbortsKeeps == Inv /\ WellFormed' /\ ReceiverAborts => Inv'
<1> SUFFICES ASSUME Inv, WellFormed', ReceiverAborts PROVE Inv'
  OBVIOUS
<1>1. /\ r' \in {"cancelled", "failed"}
      /\ UNCHANGED <<size, disk, toS, s, file, start, sent, reported, into, offset, received>>
  BY DEF ReceiverAborts, sender
<1>2. Disk' /\ Answers'
  BY <1>1, SteadyDisk, SteadyAnswers DEF Inv
<1>3. Incoming'
  BY <1>1 DEF Incoming, Ended
<1>4. QED
  BY <1>1, <1>2, <1>3 DEF Inv, Ended

LEMMA ReceiverIgnoresKeeps == Inv /\ WellFormed' /\ ReceiverIgnores => Inv'
<1> SUFFICES ASSUME Inv, WellFormed', ReceiverIgnores PROVE Inv'
  OBVIOUS
<1>w. WellFormed /\ Disk /\ Answers /\ Incoming /\ (s \notin Ended /\ r \notin Ended => Together)
  BY DEF Inv
<1> DEFINE others == (FrameTypes \cup DataTypes \cup Noise) \ {"ZFIN", "ZNAK", "ZCAN", "badFrame"}
<1>1. /\ UNCHANGED <<size, disk, toS, s, file, start, sent, reported, into, offset, received>>
      /\ r' = r \/ r' \in {"cancelled", "failed"}
  BY DEF ReceiverIgnores, sender
<1>2. Disk' /\ Answers'
  BY <1>1, <1>w, SteadyDisk, SteadyAnswers
<1>3. CASE r' \in {"cancelled", "failed"}
  BY <1>1, <1>2, <1>3 DEF Inv, Incoming, Ended
<1>4. CASE r' = r
  <2>1. /\ Len(toR) \in Nat \ {0} /\ Len(toR') = Len(toR) - 1 /\ 1 \in 1..Len(toR)
        /\ \A i \in 1..Len(toR') : toR'[i] = toR[i + 1]
        /\ \/ r = "session" /\ toR[1].type \notin {"ZFIN", "badFrame", "ZRQINIT", "ZFILE"}
           \/ r = "file" /\ toR[1].type \notin {"ZFIN", "badFrame", "ZDATA", "ZEOF"}
    <3>1. CASE ReceiverGets("session", others \ {"ZRQINIT", "ZSINIT", "ZFILE"})
      BY <1>w, <3>1, ReceiverTook
    <3>2. CASE ReceiverGets("file", others \ {"ZDATA", "ZEOF"})
      BY <1>w, <3>2, ReceiverTook
    <3>3. QED
      BY <3>1, <3>2 DEF ReceiverIgnores
  <2>2. r = "file" /\ toR # <<>>
    <3>1. ~Greeting \/ r # "session"
      BY <2>1 DEF Greeting
    <3>2. QED
      BY <2>1, <3>1, <1>w DEF Incoming
  <2>3. /\ offset = Len(disk[into]) /\ offset = size[into]
        /\ \A i \in 1..Len(toR) : toR[i].type \in {"ZFILE", "info", "ZFIN", "badFrame", "badData"}
    <3>1. ~Streaming
      BY <2>1, <2>2 DEF Streaming
    <3>2. Closing /\ offset = Len(disk[into])
      BY <2>2, <3>1, <1>w DEF Incoming
    <3>3. QED
      BY <2>1, <2>2, <3>2 DEF Closing
  <2>4. \A i \in 1..Len(toR') : i + 1 \in 1..Len(toR)
    BY <2>1
  <2>5. Incoming'
    BY <1>1, <1>4, <2>1, <2>2, <2>3, <2>4 DEF Incoming, Closing, Ended
  <2>6. ASSUME s' \notin Ended PROVE Together'
    <3>1. Together
      BY <1>1, <2>2, <2>6, <1>w DEF Ended
    <3>2. s \in {"start", "init", "pos", "seek", "send", "ack", "eof", "finish", "fin"}
      BY <1>1, <2>6, <1>w DEF WellFormed, TypeOK, Awaiting
    <3>3. offset \in Nat
      BY <1>w, Shapes
    <3>4. s = "pos"
      BY <2>1, <2>2, <2>3, <3>1, <3>2, <3>3 DEF Together, Reads
    <3>5. /\ into < file /\ toS = <<>>
          /\ \A i \in 1..Len(toR) : toR[i].type \notin {"ZEOF", "ZFIN"}
      BY <2>2, <3>1, <3>4 DEF Together
    <3>6. QED
      BY <1>1, <1>4, <2>1, <2>2, <2>3, <2>4, <3>4, <3>5 DEF Together
  <2>7. QED
    BY <1>2, <2>5, <2>6 DEF Inv
<1>5. QED
  BY <1>1, <1>3, <1>4

LEMMA ReceiverTimesOutKeeps == PlainLine /\ Inv /\ WellFormed' /\ ReceiverTimesOut => Inv'
<1> SUFFICES ASSUME PlainLine, Inv, WellFormed', ReceiverTimesOut PROVE Inv'
  OBVIOUS
<1>w. WellFormed /\ Disk /\ Answers /\ Incoming /\ (s \notin Ended /\ r \notin Ended => Together)
  BY DEF Inv
<1>1. r # "sinit"
  BY <1>w DEF Incoming, Ended
<1>2. /\ r' = "failed"
      /\ UNCHANGED <<size, disk, toR, s, file, start, sent, reported, into, offset, received>>
      /\ \/ r = "data" /\ toS' = toS \o <<FrameAt("ZRPOS", offset)>>
         \/ toS' = toS
  BY <1>1 DEF ReceiverTimesOut, ReceiverSends, sender
<1>3. Disk' /\ Incoming'
  BY <1>2, <1>w, SteadyDisk DEF Incoming, Ended
<1>4. Answers'
  <2>1. CASE toS' = toS
    BY <1>2, <1>w, <2>1, SteadyAnswers
  <2>2. CASE r = "data" /\ toS' = toS \o <<FrameAt("ZRPOS", offset)>>
    <3>1. s \notin Ended => Together
      BY <1>w, <2>2 DEF Ended
    <3>2. QED
      BY <1>2, <1>w, <2>2, <3>1, AskedAgain
  <2>3. QED
    BY <1>2, <2>1, <2>2
<1>5. QED
  BY <1>2, <1>3, <1>4 DEF Inv, Ended

LEMMA ReceiverKeeps == PlainLine /\ Inv /\ ReceiverStep => Inv'
<1>1. Inv /\ ReceiverStep => WellFormed'
  BY ReceiverWellFormed DEF Inv
<1>2. QED
  BY <1>1, ReceiverStartsKeeps, ReceiverSessionKeeps, NoSinit, ReceiverOpensKeeps,
     ReceiverDataKeeps, ReceiverStoresKeeps, ReceiverSpoiledKeeps, ReceiverEofKeeps,
     ReceiverFinKeeps, ReceiverAbortsKeeps, ReceiverIgnoresKeeps, ReceiverTimesOutKeeps
  DEF ReceiverStep

\* What the line may make of message m.
Worn(m, w) ==
  \/ w = m
  \/ m.type \in DataTypes /\ w.type = "badData"
  \/ m.type \in FrameTypes /\ w.type = "badFrame" /\ w.n = m.n

LEMMA Wears == \A m \in Messages : Worn(m, Damaged(m))
<1> SUFFICES ASSUME NEW m \in Messages PROVE Worn(m, Damaged(m))
  OBVIOUS
<1>1. CASE m.type \in DataTypes
  BY <1>1 DEF Damaged, Worn, Messages
<1>2. CASE m.type \notin DataTypes /\ m.type \in Noise
  BY <1>2 DEF Damaged, Worn
<1>3. CASE m.type \notin DataTypes /\ m.type \notin Noise
  <2>1. m.type \in FrameTypes
    BY <1>3 DEF Messages
  <2>2. Damaged(m) = [m EXCEPT !.type = "badFrame"]
    BY <1>3 DEF Damaged
  <2>3. Damaged(m).type = "badFrame" /\ Damaged(m).n = m.n
    BY <2>2 DEF Messages
  <2>4. QED
    BY <2>1, <2>3 DEF Worn
<1>4. QED
  BY <1>1, <1>2, <1>3

LEMMA WornLine ==
  ASSUME NEW q \in Seq(Messages), NEW i \in DOMAIN q, NEW t, t = [q EXCEPT ![i] = Damaged(@)]
  PROVE  Len(t) = Len(q) /\ \A j \in 1..Len(q) : Worn(q[j], t[j])
<1>1. i \in 1..Len(q) /\ q[i] \in Messages
  BY ElementOfSeq
<1>2. Damaged(q[i]) \in Messages /\ Worn(q[i], Damaged(q[i]))
  BY <1>1, Damages, Wears
<1>3. Len(t) = Len(q) /\ \A j \in 1..Len(q) : t[j] = IF j = i THEN Damaged(q[i]) ELSE q[j]
  BY <1>1, <1>2, ExceptSeq
<1>4. QED
  BY <1>2, <1>3 DEF Worn

LEMMA DamagesKeep == Inv /\ LineDamages => Inv'
<1> SUFFICES ASSUME Inv, LineDamages PROVE Inv'
  OBVIOUS
<1>w. WellFormed /\ Disk /\ Answers /\ Incoming /\ (s \notin Ended /\ r \notin Ended => Together)
  BY DEF Inv
<1>0. WellFormed'
  BY <1>w, OthersWellFormed
<1>1. UNCHANGED <<size, disk, s, file, start, sent, reported, r, into, offset, received>>
  BY DEF LineDamages, sender, receiver
<1>2. /\ Len(toR') = Len(toR) /\ Len(toS') = Len(toS)
      /\ \A j \in 1..Len(toR) : Worn(toR[j], toR'[j])
      /\ \A j \in 1..Len(toS) : Worn(toS[j], toS'[j])
      /\ toR = <<>> <=> toR' = <<>>
      /\ toS = <<>> <=> toS' = <<>>
  <2>1. toR \in Seq(Messages) /\ toS \in Seq(Messages) /\ toR' \in Seq(Messages) /\ toS' \in Seq(Messages)
    BY <1>w, <1>0 DEF WellFormed, TypeOK
  <2>2. CASE \E i \in DOMAIN toR : toR' = [toR EXCEPT ![i] = Damaged(@)] /\ UNCHANGED toS
    <3>1. Len(toR') = Len(toR) /\ \A j \in 1..Len(toR) : Worn(toR[j], toR'[j])
      BY <2>1, <2>2, WornLine
    <3>2. QED
      BY <2>1, <2>2, <3>1 DEF Worn
  <2>3. CASE \E i \in DOMAIN toS : toS' = [toS EXCEPT ![i] = Damaged(@)] /\ UNCHANGED toR
    <3>1. Len(toS') = Len(toS) /\ \A j \in 1..Len(toS) : Worn(toS[j], toS'[j])
      BY <2>1, <2>3, WornLine
    <3>2. QED
      BY <2>1, <2>3, <3>1 DEF Worn
  <2>4. QED
    BY <2>2, <2>3 DEF LineDamages
<1>3. Len(toR) \in Nat /\ Len(toS) \in Nat /\ size[into] \in Nat
  BY <1>w, Shapes
<1>4. Disk'
  BY <1>1, <1>w, SteadyDisk
<1>5. ASSUME NEW j \in 1..Len(toR), NEW f, NEW k, Carries(toR[j], f, k), size[f] \in Nat
      PROVE  Carries(toR'[j], f, k)
  BY <1>2, <1>5 DEF Worn, Carries, DataTypes, FrameTypes
<1>6. Incoming'
  <2>1. Greeting => Greeting'
    <3>1. ASSUME NEW j \in 1..Len(toR)
          PROVE  /\ toR[j].type \in {"ZRQINIT", "ZFIN", "ZFILE", "badFrame"} =>
                      toR'[j].type \in {toR[j].type, "badFrame"}
                 /\ toR[j].type \in {"info", "badData"} => toR'[j].type \in {"info", "badData"}
      BY <1>2 DEF Worn, DataTypes, FrameTypes
    <3>2. CASE /\ Len(toR) <= 1
               /\ \A i \in 1..Len(toR) : toR[i].type \in {"ZRQINIT", "ZFIN", "badFrame"}
      BY <1>2, <3>1, <3>2 DEF Greeting
    <3>3. CASE /\ Len(toR) = 2 /\ toR[1].type \in {"ZFILE", "badFrame"}
               /\ toR[2].type \in {"info", "badData"}
      <4>1. 1 \in 1..Len(toR) /\ 2 \in 1..Len(toR)
        BY <3>3
      <4>2. toR'[1].type \in {"ZFILE", "badFrame"} /\ toR'[2].type \in {"info", "badData"}
        BY <3>1, <3>3, <4>1
      <4>3. QED
        BY <1>2, <3>3, <4>2 DEF Greeting
    <3>4. CASE /\ Len(toR) = 3 /\ toR[1].type \in {"ZRQINIT", "badFrame"}
               /\ toR[2].type \in {"ZFILE", "badFrame"} /\ toR[3].type \in {"info", "badData"}
      <4>1. 1 \in 1..Len(toR) /\ 2 \in 1..Len(toR) /\ 3 \in 1..Len(toR)
        BY <3>4
      <4>2. /\ toR'[1].type \in {"ZRQINIT", "badFrame"} /\ toR'[2].type \in {"ZFILE", "badFrame"}
            /\ toR'[3].type \in {"info", "badData"}
        BY <3>1, <3>4, <4>1
      <4>3. QED
        BY <1>2, <3>4, <4>2 DEF Greeting
    <3>5. QED
      BY <3>2, <3>3, <3>4 DEF Greeting
  <2>2. Streaming /\ toR # <<>> => Streaming'
    <3> SUFFICES ASSUME Streaming, toR # <<>> PROVE Streaming'
      OBVIOUS
    <3>1. 1 \in 1..Len(toR) /\ \A j \in 2..Len(toR) : j \in 1..Len(toR)
      BY <1>3, <1>w, EmptySeq DEF WellFormed, TypeOK
    <3>2. toR'[1].type \in {"ZDATA", "badFrame"} /\ toR'[1].n = offset
      BY <1>2, <3>1 DEF Streaming, Worn, DataTypes, FrameTypes
    <3>3. \A j \in 2..Len(toR) : Carries(toR'[j], into, (offset + j) - 1)
      BY <1>3, <1>5, <3>1 DEF Streaming
    <3>4. QED
      BY <1>1, <1>2, <3>2, <3>3 DEF Streaming, Carries
  <2>3. Closing => Closing'
    BY <1>1, <1>2, <1>3 DEF Closing, Worn, DataTypes, FrameTypes
  <2>4. r = "info" => Len(toR') = 1 /\ toR'[1].type \in {"info", "badData"}
    BY <1>2, <1>w DEF Incoming, Worn, DataTypes, FrameTypes
  <2>5. r = "data" => \A j \in 1..Len(toR') : Carries(toR'[j], into, offset + j)
    BY <1>2, <1>3, <1>5, <1>w DEF Incoming
  <2>6. QED
    BY <1>1, <1>2, <1>w, <2>1, <2>2, <2>3, <2>4, <2>5 DEF Incoming, Carries
<1>7. Answers'
  <2>1. ASSUME NEW j \in 1..Len(toS)
        PROVE  \/ toS'[j] = toS[j]
               \/ toS[j].type \in FrameTypes /\ toS'[j].type = "badFrame" /\ toS'[j].n = toS[j].n
               \/ toS[j].type \in DataTypes /\ toS'[j].type = "badData"
    BY <1>2 DEF Worn
  <2>2. QED
    BY <1>1, <1>2, <1>w, <2>1, SMTT(30) DEF Answers, Whole, FrameTypes, DataTypes
<1>8. ASSUME s' \notin Ended, r' \notin Ended PROVE Together'
  <2>1. Together
    BY <1>1, <1>8, <1>w
  <2>2. ASSUME NEW ahead, Reads(ahead) PROVE Reads(ahead)'
    BY <1>1, <1>2, <2>2 DEF Reads
  <2>3. \A i \in 1..Len(toR') :
          toR'[i].type = "ZCRCQ" => i = Len(toR') /\ s' = "ack" /\ toS' = <<>>
    BY <1>1, <1>2, <2>1 DEF Together, Worn
  <2>4. s = "start" => toR' = <<>>
    BY <1>2, <2>1 DEF Together
  <2>5. s \in {"start", "init"} =>
          /\ r' \in {"start", "session"} /\ file' = 1
          /\ r' = "start" => toS' = <<>>
    BY <1>1, <1>2, <2>1 DEF Together
  <2>6. s = "init" =>
          Len(toR') <= 1 /\ \A i \in 1..Len(toR') : toR'[i].type \in {"ZRQINIT", "badFrame"}
    BY <1>1, <1>2, <2>1 DEF Together, Worn, FrameTypes, DataTypes
  <2>7. CASE s = "pos"
    <3>1. CASE /\ r = "session" /\ Len(toR) \in {2, 3}
               /\ toR[Len(toR)].type = "info" => toR[Len(toR)].n = file
               /\ \A i \in 1..Len(toS) : toS[i].type # "ZRPOS"
      <4>1. Len(toR) \in 1..Len(toR)
        <5>1. Len(toR) = 2 \/ Len(toR) = 3
          BY <3>1
        <5>2. QED
          BY <5>1
      <4>2. /\ toR'[Len(toR)].type = "info" => toR'[Len(toR)].n = file
            /\ \A i \in 1..Len(toS') : toS'[i].type # "ZRPOS"
        BY <1>2, <3>1, <4>1 DEF Worn
      <4>3. QED
        BY <1>1, <1>2, <2>3, <2>7, <3>1, <4>2 DEF Together
    <3>2. CASE /\ r = "info" /\ Len(toR) = 1
               /\ toR[1].type = "info" => toR[1].n = file
               /\ \A i \in 1..Len(toS) : toS[i].type # "ZRPOS"
      <4>1. /\ toR'[1].type = "info" => toR'[1].n = file
            /\ \A i \in 1..Len(toS') : toS'[i].type # "ZRPOS"
        BY <1>2, <3>2 DEF Worn
      <4>2. QED
        BY <1>1, <1>2, <2>3, <2>7, <3>2, <4>1 DEF Together
    <3>3. CASE /\ r = "file" /\ into = file /\ toR = <<>>
               /\ toS # <<>> /\ toS[Len(toS)].type \in {"ZRPOS", "badFrame"}
      <4>1. Len(toS) \in 1..Len(toS)
        BY <1>3, <3>3, <1>w, EmptySeq DEF WellFormed, TypeOK
      <4>2. toS'[Len(toS)].type \in {"ZRPOS", "badFrame"}
        BY <1>2, <3>3, <4>1 DEF Worn, FrameTypes, DataTypes
      <4>3. QED
        BY <1>1, <1>2, <2>3, <2>7, <3>3, <4>2 DEF Together
    <3>4. CASE /\ r = "file" /\ into < file /\ offset = size[into] /\ toS = <<>>
               /\ \A i \in 1..Len(toR) : toR[i].type \notin {"ZEOF", "ZFIN"}
      <4>1. \A i \in 1..Len(toR') : toR'[i].type \notin {"ZEOF", "ZFIN"}
        BY <1>2, <3>4 DEF Worn
      <4>2. QED
        BY <1>1, <1>2, <2>3, <2>7, <3>4, <4>1 DEF Together
    <3>5. QED
      BY <2>1, <2>7, <3>1, <3>2, <3>3, <3>4 DEF Together
  <2>8. s = "seek" =>
       /\ r' = "file" /\ into' = file' /\ toR' = <<>> /\ toS' = <<>>
       /\ sent' = offset' /\ sent' < size'[file']
    BY <1>1, <1>2, <2>1 DEF Together
  <2>9. s = "send" => sent' < size'[file'] /\ toS' = <<>> /\ Reads(sent)'
    BY <1>1, <1>2, <2>1, <2>2 DEF Together
  <2>10. s = "ack" =>
       /\ sent' < size'[file'] /\ Reads(sent)'
       /\ \/ toS' = <<>>
          \/ /\ r' = "data" /\ toR' = <<>>
             /\ Len(toS') = 1 /\ toS'[1].type \in {"ZACK", "badFrame"}
    BY <1>1, <1>2, <2>1, <2>2 DEF Together, Worn, FrameTypes, DataTypes
  <2>11. s = "eof" =>
       /\ sent' = size'[file'] /\ toS' = <<>>
       /\ \/ Reads(sent)'
          \/ r' = "file" /\ into' = file' /\ offset' = size'[file'] /\ toR' = <<>>
    BY <1>1, <1>2, <2>1, <2>2 DEF Together
  <2>12. s = "finish" =>
       /\ sent' = size'[file']
       /\ \/ toS' = <<>> /\ Reads(sent + 1)'
          \/ /\ r' = "file" /\ into' = file' /\ offset' = size'[file'] /\ toS' = <<>>
             /\ Len(toR') = 1 /\ toR'[1].type \in {"ZEOF", "badFrame"}
          \/ /\ r' = "session" /\ toR' = <<>>
             /\ Len(toS') = 1 /\ toS'[1].type \in {"ZRINIT", "badFrame"}
    BY <1>1, <1>2, <2>1, <2>2 DEF Together, Worn, FrameTypes, DataTypes
  <2>13. s = "fin" =>
       /\ r' \in {"session", "file"} /\ toS' = <<>>
       /\ Len(toR') = 1 /\ toR'[1].type \in {"ZFIN", "badFrame"}
    BY <1>1, <1>2, <2>1 DEF Together, Worn, FrameTypes, DataTypes
  <2>14. CASE s # "pos"
    BY <1>1, <2>3, <2>4, <2>5, <2>6, <2>8, <2>9, <2>10, <2>11, <2>12, <2>13, <2>14 DEF Together
  <2>15. QED
    BY <2>7, <2>14
<1>9. QED
  BY <1>0, <1>4, <1>6, <1>7, <1>8 DEF Inv

LEMMA OthersKeep ==
  /\ PlainLine /\ Inv
  /\ LineDamages \/ LineLoses \/ LineDrops \/ SenderQuits \/ ReceiverQuits \/ ReceiverRepeats
       \/ TryAgain
  => Inv'
<1>w. ASSUME Inv PROVE WellFormed /\ Disk /\ Answers /\ Incoming
  BY <1>w DEF Inv
<1>1. PlainLine => ~LineLoses /\ ~SenderQuits /\ ~ReceiverQuits /\ ~ReceiverRepeats
  BY DEF PlainLine, LineLoses, SenderQuits, ReceiverQuits, ReceiverRepeats, Fault
<1>2. ASSUME Inv, LineDrops PROVE Inv'
  <2>1. WellFormed'
    BY <1>2, OthersWellFormed DEF Inv
  <2>2. /\ s' \in Ended /\ r' \in Ended /\ (s' = "ok" => s = "ok") /\ s' # "fin"
        /\ UNCHANGED <<size, disk, toR, toS, file, start, sent, reported, into, offset, received>>
    BY <1>2 DEF LineDrops, Ended
  <2>3. Disk'
    BY <1>2, <1>w, <2>2 DEF Disk, Whole
  <2>4. Answers' /\ Incoming'
    BY <2>2 DEF Answers, Incoming, Ended
  <2>5. QED
    BY <2>1, <2>2, <2>3, <2>4 DEF Inv
<1>3. ASSUME Inv, TryAgain PROVE Inv'
  <2>1. WellFormed'
    BY <1>3, OthersWellFormed DEF Inv
  <2>2. /\ toR' = <<>> /\ toS' = <<>> /\ s' = "start" /\ file' = 1 /\ reported' = {}
        /\ r' = "start" /\ received' = {} /\ UNCHANGED <<size, disk>>
    BY <1>3 DEF TryAgain
  <2>3. \A f \in Files : ~(f < 1)
    BY ZmodemAssumption DEF Files
  <2>4. Disk'
    BY <1>3, <1>w, <2>2, <2>3 DEF Disk
  <2>5. Incoming' /\ Answers' /\ Together'
    BY <2>2 DEF Incoming, Greeting, Answers, Together, Ended
  <2>6. QED
    BY <2>1, <2>4, <2>5 DEF Inv
<1>4. QED
  BY <1>1, <1>2, <1>3, DamagesKeep

\* The two ends are at one point of the dialogue, or one of them has given
\* up and what it left on the line misleads nobody.
THEOREM Dialogue ==
  ASSUME PlainLine
  PROVE  Safety => []Inv
<1>1. Inv /\ [Next]_vars => Inv'
  <2>1. ASSUME Inv, UNCHANGED vars PROVE Inv'
    <3>1. WellFormed'
      BY <2>1, WellFormedKept DEF Inv
    <3>2. UNCHANGED <<size, disk, toR, toS, s, file, start, sent, reported, r, into, offset, received>>
      BY <2>1 DEF vars, sender, receiver
    <3>3. Disk' /\ Incoming' /\ Answers'
      BY <2>1, <3>2, SteadyDisk, SteadyIncoming, SteadyAnswers DEF Inv
    <3>4. Together => Together'
      BY <3>2 DEF Together, Reads
    <3>5. QED
      BY <2>1, <3>1, <3>2, <3>3, <3>4 DEF Inv
  <2>2. QED
    BY <2>1, SenderKeeps, ReceiverKeeps, OthersKeep DEF Next
<1>2. Init => Inv
  BY InvAtFirst
<1>3. QED
  BY <1>1, <1>2, PTL DEF Safety

-----------------------------------------------------------------------------
(***************************************************************************)
(* What it is for.                                                         *)
(***************************************************************************)

\* No ZRPOS of our own receiver moves the sender back before its start, so
\* its counts do not underflow, for a batch of any length, files of any size
\* below the limit of the offsets, and any number of faults and attempts.
THEOREM CountsAreNatural ==
  ASSUME PlainLine
  PROVE  Safety => []CountIsNatural
<1>1. Inv => CountIsNatural
  BY DEF Inv, WellFormed, Answers, CountIsNatural
<1>2. QED
  BY <1>1, Dialogue, PTL

\* Every file the sender reports was received to its end.
THEOREM EndsAgree ==
  ASSUME PlainLine
  PROVE  Safety => []Agreement
<1>1. Inv => Agreement
  BY DEF Inv, Disk, Agreement
<1>2. QED
  BY <1>1, Dialogue, PTL

LEMMA SameContent ==
  ASSUME WellFormed, Disk, NEW f \in Files, Whole(f)
  PROVE  disk[f] = Original(f)
<1>1. disk[f] \in Seq(Nat \X Nat) /\ size[f] \in Nat /\ f \in Nat
  BY Shapes DEF WellFormed, TypeOK
<1>2. /\ Len(disk[f]) = size[f]
      /\ \A i \in 1..size[f] : disk[f][i] = Unit(f, i)
  BY <1>1 DEF Disk, Whole
<1>3. disk[f] = [i \in 1..size[f] |-> disk[f][i]]
  BY <1>1, <1>2, LenProperties
<1>4. QED
  BY <1>2, <1>3 DEF Original

\* Two ends that both report success hold the same files.
THEOREM CopiesIntact ==
  ASSUME PlainLine
  PROVE  Safety => []Intact
<1>1. Inv => Intact
  <2> SUFFICES ASSUME Inv, s = "ok", NEW f \in Files PROVE disk[f] = Original(f)
    BY DEF Intact
  <2>1. Whole(f)
    BY ZmodemAssumption DEF Inv, Disk, Files
  <2>2. QED
    BY <2>1, SameContent DEF Inv
<1>2. QED
  BY <1>1, Dialogue, PTL

-----------------------------------------------------------------------------
(***************************************************************************)
(* The transfer implements FileCopy.                                       *)
(***************************************************************************)
LEMMA CopyStarts == Inv /\ Init => Copy!Init
<1> SUFFICES ASSUME Inv, Init PROVE Copy!Init
  OBVIOUS
<1>1. ASSUME NEW f \in Files
      PROVE  disk[f] \in {SubSeq(Copy!Original(f), 1, n) : n \in 0..size[f]}
  <2>1. /\ disk[f] \in Seq(Nat \X Nat) /\ size[f] \in Nat /\ Len(disk[f]) \in Nat
        /\ Len(disk[f]) <= size[f] /\ f \in Nat
        /\ \A i \in 1..Len(disk[f]) : disk[f][i] = Unit(f, i)
    BY Shapes DEF Inv, WellFormed, TypeOK, Disk
  <2>2. Copy!Original(f) = [i \in 1..size[f] |-> Unit(f, i)]
    BY DEF Copy!Original
  <2> DEFINE n == Len(disk[f])
             q == [i \in 1..size[f] |-> Unit(f, i)]
  <2>3. \A i \in 1..size[f] : q[i] \in Nat \X Nat
    BY <2>1 DEF Unit
  <2>4. q \in [1..size[f] -> Nat \X Nat]
    BY <2>3
  <2>5. q \in Seq(Nat \X Nat) /\ Len(q) = size[f]
    <3>1. q \in Seq(Nat \X Nat)
      <4> HIDE DEF q
      <4> QED BY <2>1, <2>4, SeqDef, ZenonT(60)
    <3>2. QED
      BY <2>1, <3>1
  <2>6. /\ SubSeq(q, 1, n) \in Seq(Nat \X Nat) /\ Len(SubSeq(q, 1, n)) = n
        /\ \A i \in 1..n : SubSeq(q, 1, n)[i] = q[i]
    BY <2>1, <2>5, SMTT(30)
  <2>7. SubSeq(q, 1, n) = disk[f]
    <3>1. \A i \in 1..n : SubSeq(q, 1, n)[i] = disk[f][i]
      BY <2>1, <2>6
    <3>2. QED
      BY <2>1, <2>6, <3>1, SeqEqual
  <2>8. n \in 0..size[f]
    BY <2>1
  <2>9. disk[f] = SubSeq(Copy!Original(f), 1, n)
    BY <2>2, <2>7
  <2> HIDE DEF n
  <2>10. QED
    BY <2>8, <2>9
<1>2. size \in [Files -> Nat] /\ DOMAIN disk = Files /\ reported = {}
  BY ZmodemAssumption DEF Init
<1>3. QED
  BY <1>1, <1>2 DEF Copy!Init, Copy!Prefixes

\* Every other step leaves the copies and the reports alone.
LEMMA CopySteps ==
  ASSUME PlainLine, Inv, Next
  PROVE  Copy!Next \/ UNCHANGED <<size, disk, reported>>
<1>w. WellFormed /\ Disk /\ Answers /\ Incoming
  BY DEF Inv
<1>1. CASE SenderFinish
  <2>1. SenderGets("finish", {"ZRINIT"}) \/ SenderGets("finish", {"ZFIN"})
    BY <1>1 DEF SenderFinish
  <2>2. /\ s = "finish" /\ Len(toS) \in Nat \ {0} /\ toS[1].type \in {"ZRINIT", "ZFIN"}
        /\ 1 \in 1..Len(toS)
    <3>1. CASE SenderGets("finish", {"ZRINIT"})
      BY <1>w, <3>1, SenderTook
    <3>2. CASE SenderGets("finish", {"ZFIN"})
      BY <1>w, <3>2, SenderTook
    <3>3. QED
      BY <2>1, <3>1, <3>2
  <2>3. Whole(file) /\ file \in Files
    BY <1>w, <2>2, Shapes DEF Answers
  <2>4. disk[file] = Copy!Original(file)
    BY <1>w, <2>3, SameContent DEF Copy!Original, Original
  <2>5. Copy!Report(file)
    BY <1>1, <2>4 DEF Copy!Report, SenderFinish
  <2>6. QED
    BY <2>3, <2>5 DEF Copy!Next
<1>2. CASE ReceiverStores
  <2>1. /\ r = "data" /\ Len(toR) \in Nat \ {0} /\ Head(toR) = toR[1]
        /\ toR[1].type \in {"ZCRCE", "ZCRCG", "ZCRCQ"}
    BY <1>2, <1>w, ReceiverTook DEF ReceiverStores
  <2>2. into \in Files /\ size[into] \in Nat /\ offset \in Nat
    BY <1>w, Shapes
  <2>3. offset = Len(disk[into]) /\ offset < size[into] /\ Carries(toR[1], into, offset + 1)
    BY <1>w, <2>1 DEF Incoming
  <2>4. Head(toR).unit = Unit(into, Len(disk[into]) + 1)
    BY <2>1, <2>2, <2>3 DEF Carries
  <2>5. disk' = [disk EXCEPT ![into] = Append(@, Unit(into, Len(@) + 1))]
    BY <1>2, <2>4 DEF ReceiverStores
  <2>6. Copy!Store(into)
    BY <1>2, <2>3, <2>5 DEF Copy!Store, ReceiverStores, sender
  <2>7. QED
    BY <2>2, <2>6 DEF Copy!Next
<1>3. CASE ReceiverEof
  <2>1. disk' = disk
    BY <1>3, EofKeepsDisk
  <2>2. QED
    BY <1>3, <2>1 DEF ReceiverEof, sender
<1>4. CASE TryAgain
  BY <1>4 DEF TryAgain, Copy!Next, Copy!NewSession
<1>5. CASE SenderStep /\ ~SenderFinish
  BY <1>5 DEF SenderStep, SenderStarts, SenderInit, SenderPos, SenderSeeks, SenderSendsUnit,
     SenderEof, SenderRepositions, SenderAck, SenderFin, SenderAborts, SenderIgnores,
     SenderTimesOut, sender
<1>6. CASE ReceiverStep /\ ~ReceiverStores /\ ~ReceiverEof
  BY <1>6 DEF ReceiverStep, ReceiverStarts, ReceiverSession, ReceiverSinit, ReceiverOpens,
     ReceiverData, ReceiverSpoiled, ReceiverFin, ReceiverAborts, ReceiverIgnores,
     ReceiverTimesOut, sender
<1>7. CASE LineDamages \/ LineLoses \/ LineDrops \/ SenderQuits \/ ReceiverQuits \/ ReceiverRepeats
  BY <1>7 DEF LineDamages, LineLoses, LineDrops, SenderQuits, ReceiverQuits, ReceiverRepeats,
     sender
<1>8. QED
  BY <1>1, <1>2, <1>3, <1>4, <1>5, <1>6, <1>7 DEF Next

\* The copies grow unit by unit into the originals, through faults and
\* further attempts, and no file is reported whose copy is incomplete.
THEOREM Faithful ==
  ASSUME PlainLine
  PROVE  Safety => CopiesFaithfully
<1>1. Inv /\ Init => Copy!Init
  BY CopyStarts
<1>2. Inv /\ [Next]_vars => [Copy!Next]_(Copy!vars)
  <2>1. ASSUME Inv, Next PROVE Copy!Next \/ UNCHANGED Copy!vars
    BY <2>1, CopySteps DEF Copy!vars
  <2>2. UNCHANGED vars => UNCHANGED Copy!vars
    BY DEF vars, sender, Copy!vars
  <2>3. QED
    BY <2>1, <2>2
<1>3. Safety => []Inv
  BY Dialogue
<1>4. QED
  BY <1>1, <1>2, <1>3, PTL DEF Safety, CopiesFaithfully, Copy!Spec
=============================================================================
