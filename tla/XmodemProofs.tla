---------------------------- MODULE XmodemProofs ----------------------------
(***************************************************************************)
(* Proofs about Xmodem, for files and batches of any size, any number of   *)
(* faults of the line and any number of tries: over a paced line every     *)
(* copy is whole when its EOT is sent and blocks are written in order, a   *)
(* good line brings both ends to their end, and the blocks of a file of    *)
(* its own are written in order as long as there are fewer faults than     *)
(* block numbers.                                                          *)
(***************************************************************************)
EXTENDS Xmodem, TLAPS, SequenceTheorems, FiniteSetTheorems

-----------------------------------------------------------------------------
(***************************************************************************)
(* Types.                                                                  *)
(***************************************************************************)

SenderAts   == {"init", "data", "eot", "ask", "headed", "asked", "askend", "ended", "done", "failed"}
ReceiverAts == {"core", "header", "done", "failed"}
Senders   == [at : SenderAts, file : Nat, block : Nat \ {0},
              crc : BOOLEAN, tries : Nat, again : BOOLEAN]
Receivers == [at : ReceiverAts, file : Nat, expected : Nat \ {0},
              crc : BOOLEAN, tries : Nat]

Blocks  == {m \in [type : {"block"}, num : Nat, body : Nat \ {0}, crc : BOOLEAN,
                   good : BOOLEAN, header : BOOLEAN, whole : BOOLEAN] : m.num = m.body % Modulus}
Headers == [type : {"block"}, num : {0}, body : {0}, crc : {TRUE},
            good : BOOLEAN, header : BOOLEAN, whole : BOOLEAN, file : Nat]
Items   == {Item("eot"), Item("can"), Item("noise")}
Frames  == Items \cup Blocks \cup Headers
Replies == {"ACK", "NAK", "C", "CAN", "noise"}

FileCount == Cardinality(Files)

TypeOK ==
  /\ batch \in BOOLEAN
  /\ FileCount \in Nat \ {0} /\ Files = 1..FileCount /\ sizes \in [Files -> Nat]
  /\ ~batch => FileCount = 1
  /\ snd \in Senders /\ rcv \in Receivers
  /\ toR \in Seq(Frames) /\ toS \in Seq(Replies)
  /\ disk \in [{Stray} \cup Files -> Seq(Nat)]
  /\ faults \in [Kinds -> Nat]

Fine(m) == HasBody(m) /\ m.good /\ m.header /\ m.whole

-----------------------------------------------------------------------------
(***************************************************************************)
(* Over a paced line one thing is on its way at a time, or an ACK and the  *)
(* C after it: where the sender is tells where the receiver can be, what   *)
(* is on its way, and which copies are whole.                              *)
(***************************************************************************)

Count(n)  == [i \in 1..n |-> i]
Before(g) == \A f \in Files : f < g => Whole(f)
OnlyEots  == \A i \in 1..Len(toR) : toR[i] = Item("eot")
NoAck     == \A i \in 1..Len(toS) : toS[i] # "ACK"

BlockOf(k, m)  == m \in Blocks /\ m.body = k
HeaderOf(f, m) == m \in Headers /\ m.file = f

AtInit ==
  /\ ~batch /\ snd.file = 1 /\ Len(toR) = 0 /\ Len(toS) <= 1
  /\ rcv.at \in {"core", "failed"} /\ rcv.file = 1 /\ rcv.expected = 1 /\ disk[1] = Count(0)

AtData ==
  /\ snd.file \in Files /\ snd.block <= sizes[snd.file] /\ Before(snd.file)
  /\ rcv.at # "header"
  /\ rcv.at = "core" =>
       /\ rcv.file = snd.file /\ rcv.expected \in {snd.block, snd.block + 1}
       /\ \/ /\ Len(toR) = 0 /\ Len(toS) <= 1
             /\ Len(toS) = 1 /\ toS[1] = "ACK" => rcv.expected = snd.block + 1
          \/ Len(toS) = 0 /\ Len(toR) = 1 /\ BlockOf(snd.block, toR[1])
  /\ rcv.at \in Ended => NoAck

\* While the receiver is still in the file, every EOT sent so far is on its
\* way or lost.
AtEot ==
  /\ snd.file \in Files /\ Before(snd.file + 1)
  /\ snd.tries < MaxEots
  /\ ~snd.again => snd.tries = 0
  /\ rcv.at = "core" =>
       /\ rcv.file = snd.file /\ Len(toS) + Len(toR) <= 1 /\ OnlyEots /\ NoAck
       /\ faults["lose"] + Len(toR) >= snd.tries + 1
  /\ rcv.at = "header" =>
       batch /\ OnlyEots /\ Len(toS) + Len(toR) <= 2 /\ (~snd.again => Len(toR) = 0)
  /\ rcv.at \in Ended => Len(toS) <= 2

AtAsk ==
  /\ batch /\ snd.file \in Files /\ Before(snd.file)
  /\ rcv.at # "core"
  /\ rcv.at = "header" =>
       OnlyEots /\ Len(toS) + Len(toR) <= 1 /\ (~snd.again => Len(toR) = 0)
  /\ rcv.at \in Ended => Len(toS) <= 1

AtHeaded ==
  /\ batch /\ snd.file \in Files /\ Before(snd.file)
  /\ rcv.at = "header" =>
       \/ Len(toR) = 0 /\ NoAck
       \/ Len(toS) = 0 /\ Len(toR) = 1 /\ HeaderOf(snd.file, toR[1])
  /\ rcv.at = "core" =>
       /\ rcv.file = snd.file /\ rcv.expected = 1
       /\ Len(toR) = 0 /\ Len(toS) <= 2 /\ (Len(toS) = 2 => toS[2] # "ACK")
  /\ rcv.at \in Ended => NoAck

AtAsked ==
  /\ batch /\ snd.file \in Files /\ Before(snd.file)
  /\ rcv.at # "header"
  /\ rcv.at = "core" =>
       rcv.file = snd.file /\ rcv.expected = 1 /\ Len(toR) = 0 /\ Len(toS) <= 1 /\ NoAck
  /\ rcv.at \in Ended => Len(toS) = 0

AtAskEnd ==
  /\ batch /\ snd.file = FileCount + 1 /\ Before(snd.file)
  /\ rcv.at # "core" /\ (rcv.at = "header" => OnlyEots)

AtEnd ==
  /\ snd.file = FileCount + 1 /\ Before(snd.file)
  /\ rcv.at = "core" => ~batch /\ OnlyEots
  /\ rcv.at = "header" =>
       \A i \in 1..Len(toR) : toR[i] = Item("eot") \/ HeaderOf(0, toR[i])

AtFailed ==
  rcv.at \notin Ended => \A i \in 1..Len(toR) : toR[i] = Item("can")

Phases ==
  /\ snd.at = "init"   => AtInit
  /\ snd.at = "data"   => AtData
  /\ snd.at = "eot"    => AtEot
  /\ snd.at = "ask"    => AtAsk
  /\ snd.at = "headed" => AtHeaded
  /\ snd.at = "asked"  => AtAsked
  /\ snd.at = "askend" => AtAskEnd
  /\ snd.at \in {"ended", "done"} => AtEnd
  /\ snd.at = "failed" => AtFailed

\* The copies are the beginnings of the files; a batch that was received
\* without a second EOT is whole.
Copied ==
  /\ \A f \in Files : \E n \in 0..sizes[f] : disk[f] = Count(n)
  /\ rcv.at = "core" => rcv.file \in Files /\ disk[rcv.file] = Count(rcv.expected - 1)
  /\ batch /\ rcv.at = "done" /\ ~snd.again => \A f \in Files : Whole(f)

PacedInv == Paced => Phases /\ Copied

-----------------------------------------------------------------------------
(***************************************************************************)
(* What the line and the ends do to a sequence.                            *)
(***************************************************************************)

LEMMA Empty ==
  ASSUME NEW S, NEW q \in Seq(S)
  PROVE  /\ Len(q) \in Nat /\ DOMAIN q = 1..Len(q)
         /\ q = <<>> <=> Len(q) = 0
         /\ \A p \in 1..Len(q) : q[p] \in S
<1>1. Len(q) \in Nat /\ DOMAIN q = 1..Len(q) /\ \A p \in 1..Len(q) : q[p] \in S
  BY LenProperties, ElementOfSeq
<1>2. q = <<>> <=> Len(q) = 0
  BY EmptySeq
<1>3. QED
  BY <1>1, <1>2

LEMMA Taken ==
  ASSUME NEW S, NEW q \in Seq(S), q # <<>>
  PROVE  /\ Len(q) \in Nat \ {0} /\ Head(q) = q[1] /\ q[1] \in S
         /\ Tail(q) \in Seq(S) /\ Len(Tail(q)) = Len(q) - 1
         /\ \A p \in 1..Len(q) - 1 : Tail(q)[p] = q[p + 1]
<1>1. Len(q) \in Nat \ {0} /\ Head(q) = q[1] /\ q[1] \in S
  BY Empty, HeadTailProperties
<1>2. Tail(q) \in Seq(S) /\ Len(Tail(q)) = Len(q) - 1
  BY HeadTailProperties
<1>3. \A p \in 1..Len(q) - 1 : Tail(q)[p] = q[p + 1]
  BY HeadTailProperties
<1>4. QED
  BY <1>1, <1>2, <1>3

LEMMA Added ==
  ASSUME NEW S, NEW q \in Seq(S), NEW x \in S
  PROVE  /\ q \o <<x>> \in Seq(S) /\ Len(q \o <<x>>) = Len(q) + 1
         /\ (q \o <<x>>)[Len(q) + 1] = x
         /\ \A p \in 1..Len(q) : (q \o <<x>>)[p] = q[p]
<1> DEFINE one == <<x>>
<1>1. one \in Seq(S) /\ Len(one) = 1 /\ one[1] = x
  OBVIOUS
<1> HIDE DEF one
<1>2. Len(q) \in Nat
  BY LenProperties
<1>3. q \o one \in Seq(S) /\ Len(q \o one) = Len(q) + Len(one)
      /\ \A p \in 1..Len(q) + Len(one) : (q \o one)[p] = IF p <= Len(q) THEN q[p] ELSE one[p - Len(q)]
  BY <1>1, ConcatProperties
<1>4. \A p \in 1..Len(q) + 1 : (q \o one)[p] = IF p <= Len(q) THEN q[p] ELSE one[p - Len(q)]
  BY <1>1, <1>3
<1>5. QED
  BY <1>1, <1>2, <1>3, <1>4 DEF one

LEMMA AddedTwo ==
  ASSUME NEW S, NEW q \in Seq(S), NEW x \in S, NEW y \in S
  PROVE  /\ q \o <<x, y>> \in Seq(S) /\ Len(q \o <<x, y>>) = Len(q) + 2
         /\ (q \o <<x, y>>)[Len(q) + 1] = x /\ (q \o <<x, y>>)[Len(q) + 2] = y
         /\ \A p \in 1..Len(q) : (q \o <<x, y>>)[p] = q[p]
<1> DEFINE two == <<x, y>>
<1>1. two \in Seq(S) /\ Len(two) = 2 /\ two[1] = x /\ two[2] = y
  OBVIOUS
<1> HIDE DEF two
<1>2. Len(q) \in Nat
  BY LenProperties
<1>3. q \o two \in Seq(S) /\ Len(q \o two) = Len(q) + Len(two)
      /\ \A p \in 1..Len(q) + Len(two) : (q \o two)[p] = IF p <= Len(q) THEN q[p] ELSE two[p - Len(q)]
  BY <1>1, ConcatProperties
<1>4. \A p \in 1..Len(q) + 2 : (q \o two)[p] = IF p <= Len(q) THEN q[p] ELSE two[p - Len(q)]
  BY <1>1, <1>3
<1>5. QED
  BY <1>1, <1>2, <1>3, <1>4 DEF two

LEMMA Appended ==
  ASSUME NEW S, NEW q \in Seq(S), NEW x \in S
  PROVE  Append(q, x) = q \o <<x>>
BY AppendIsConcat

LEMMA Dropped ==
  ASSUME NEW S, NEW q \in Seq(S), NEW i \in 1..Len(q)
  PROVE  /\ Without(q, i) \in Seq(S) /\ Len(Without(q, i)) = Len(q) - 1
         /\ \A p \in 1..Len(q) - 1 : Without(q, i)[p] = q[IF p < i THEN p ELSE p + 1]
<1> DEFINE l == SubSeq(q, 1, i - 1)
           r == SubSeq(q, i + 1, Len(q))
<1>1. Len(q) \in Nat /\ i \in Nat /\ 1 <= i /\ i <= Len(q)
  BY LenProperties
<1>2. l \in Seq(S) /\ Len(l) = i - 1 /\ \A p \in 1..i - 1 : l[p] = q[p]
  BY <1>1, SubSeqProperties
<1>3. r \in Seq(S) /\ Len(r) = Len(q) - i /\ \A p \in 1..Len(q) - i : r[p] = q[p + i]
  BY <1>1, SubSeqProperties
<1>4. Without(q, i) = l \o r
  BY DEF Without
<1> HIDE DEF l, r
<1>5. l \o r \in Seq(S) /\ Len(l \o r) = Len(l) + Len(r)
      /\ \A p \in 1..Len(l) + Len(r) : (l \o r)[p] = IF p <= Len(l) THEN l[p] ELSE r[p - Len(l)]
  BY <1>2, <1>3, ConcatProperties
<1>6. Len(l) + Len(r) = Len(q) - 1
  BY <1>1, <1>2, <1>3
<1>7. ASSUME NEW p \in 1..Len(q) - 1 PROVE (l \o r)[p] = q[IF p < i THEN p ELSE p + 1]
  <2>1. CASE p < i
    <3>1. p \in 1..i - 1
      BY <1>1, <2>1
    <3>2. QED
      BY <1>2, <1>5, <1>6, <2>1, <3>1
  <2>2. CASE ~ (p < i)
    <3>1. p - (i - 1) \in 1..Len(q) - i /\ p - (i - 1) + i = p + 1
      BY <1>1, <2>2
    <3>2. r[p - (i - 1)] = q[p + 1]
      BY <1>3, <3>1
    <3>3. QED
      BY <1>1, <1>2, <1>5, <1>6, <2>2, <3>2
  <2>3. QED
    BY <2>1, <2>2
<1>8. QED
  BY <1>4, <1>5, <1>6, <1>7

LEMMA Changed ==
  ASSUME NEW S, NEW q \in Seq(S), NEW i \in 1..Len(q), NEW x \in S
  PROVE  /\ [q EXCEPT ![i] = x] \in Seq(S) /\ Len([q EXCEPT ![i] = x]) = Len(q)
         /\ \A p \in 1..Len(q) : [q EXCEPT ![i] = x][p] = IF p = i THEN x ELSE q[p]
<1> DEFINE r == [q EXCEPT ![i] = x]
<1>1. r \in Seq(S) /\ Len(r) = Len(q)
  BY ExceptSeq
<1>2. \A p \in 1..Len(q) : r[p] = IF p = i THEN x ELSE q[p]
  BY Empty
<1>3. QED
  BY <1>1, <1>2

-----------------------------------------------------------------------------
(***************************************************************************)
(* Frames.                                                                 *)
(***************************************************************************)

LEMMA FramesAre ==
  /\ \A k \in Nat \ {0}, c \in BOOLEAN : BlockFrame(k, c) \in Blocks
  /\ \A f \in Nat : HeaderFrame(f) \in Headers
  /\ NullFrame \in Headers
  /\ Item("eot") \in Items /\ Item("can") \in Items /\ Item("noise") \in Items
  /\ Blocks \subseteq Frames /\ Headers \subseteq Frames /\ Items \subseteq Frames
<1>1. ASSUME NEW k \in Nat \ {0}, NEW c \in BOOLEAN PROVE BlockFrame(k, c) \in Blocks
  <2>1. k % Modulus \in Nat
    BY NumbersAssumption
  <2>2. QED
    BY <2>1 DEF BlockFrame, Blocks
<1>2. \A f \in Nat : HeaderFrame(f) \in Headers
  BY DEF HeaderFrame, Headers
<1>3. NullFrame \in Headers
  BY <1>2 DEF NullFrame
<1>4. QED
  BY <1>1, <1>2, <1>3 DEF Items, Frames

LEMMA FrameKinds ==
  ASSUME NEW m \in Frames
  PROVE  /\ HasBody(m) <=> m \in Blocks \cup Headers
         /\ HasBody(m) => /\ m.num \in Nat /\ m.body \in Nat
                          /\ m.good \in BOOLEAN /\ m.header \in BOOLEAN /\ m.whole \in BOOLEAN
         /\ ~HasBody(m) => m.type \in {"eot", "can", "noise"} /\ m = Item(m.type)
<1>1. CASE m \in Items
  <2>1. m.type \in {"eot", "can", "noise"} /\ m = Item(m.type)
    BY <1>1 DEF Items, Item
  <2>2. m \notin Blocks /\ m \notin Headers
    BY <2>1 DEF Blocks, Headers
  <2>3. QED
    BY <2>1, <2>2 DEF HasBody
<1>2. CASE m \in Blocks
  <2>1. m \in [type : {"block"}, num : Nat, body : Nat \ {0}, crc : BOOLEAN,
              good : BOOLEAN, header : BOOLEAN, whole : BOOLEAN]
    BY <1>2 DEF Blocks
  <2>2. m.type = "block" /\ m.num \in Nat /\ m.body \in Nat
        /\ m.good \in BOOLEAN /\ m.header \in BOOLEAN /\ m.whole \in BOOLEAN
    BY <2>1
  <2>3. QED
    BY <1>2, <2>2 DEF HasBody
<1>3. CASE m \in Headers
  <2>1. m.type = "block" /\ m.num = 0 /\ m.body = 0
        /\ m.good \in BOOLEAN /\ m.header \in BOOLEAN /\ m.whole \in BOOLEAN
    BY <1>3 DEF Headers
  <2>2. HasBody(m) /\ m \in Blocks \cup Headers
    BY <1>3, <2>1 DEF HasBody
  <2>3. m.num \in Nat /\ m.body \in Nat
    BY <2>1
  <2>4. QED
    BY <2>1, <2>2, <2>3
<1>4. QED
  BY <1>1, <1>2, <1>3 DEF Frames

LEMMA Spoilt ==
  ASSUME NEW m \in Blocks \cup Headers
  PROVE  /\ m \in Blocks => /\ [m EXCEPT !.good = FALSE] \in Blocks
                            /\ [m EXCEPT !.header = FALSE] \in Blocks
                            /\ [m EXCEPT !.whole = FALSE] \in Blocks
         /\ m \in Headers => /\ [m EXCEPT !.good = FALSE] \in Headers
                             /\ [m EXCEPT !.header = FALSE] \in Headers
                             /\ [m EXCEPT !.whole = FALSE] \in Headers
BY DEF Blocks, Headers

LEMMA Typed ==
  ASSUME TypeOK
  PROVE  /\ snd.at \in SenderAts /\ snd.file \in Nat /\ snd.block \in Nat \ {0}
         /\ snd.crc \in BOOLEAN /\ snd.tries \in Nat /\ snd.again \in BOOLEAN
         /\ rcv.at \in ReceiverAts /\ rcv.file \in Nat /\ rcv.expected \in Nat \ {0}
         /\ rcv.crc \in BOOLEAN /\ rcv.tries \in Nat
BY DEF TypeOK, Senders, Receivers

-----------------------------------------------------------------------------
(***************************************************************************)
(* Types are kept.                                                         *)
(***************************************************************************)

LEMMA SendTyped ==
  ASSUME TypeOK
  PROVE  /\ \A m \in Frames : SendR(<<m>>) => toR' \in Seq(Frames)
         /\ \A b \in Replies : SendS(<<b>>) => toS' \in Seq(Replies)
         /\ \A b, c \in Replies : SendS(<<b, c>>) => toS' \in Seq(Replies)
         /\ toS # <<>> => Head(toS) \in Replies /\ Tail(toS) \in Seq(Replies)
         /\ toR # <<>> => Head(toR) \in Frames /\ Tail(toR) \in Seq(Frames)
<1>1. toR \in Seq(Frames) /\ toS \in Seq(Replies)
  BY DEF TypeOK
<1>2. ASSUME NEW m \in Frames, SendR(<<m>>) PROVE toR' \in Seq(Frames)
  BY <1>1, <1>2, Added DEF SendR
<1>3. ASSUME NEW b \in Replies, SendS(<<b>>) PROVE toS' \in Seq(Replies)
  BY <1>1, <1>3, Added DEF SendS
<1>4. ASSUME NEW b \in Replies, NEW c \in Replies, SendS(<<b, c>>) PROVE toS' \in Seq(Replies)
  BY <1>1, <1>4, AddedTwo DEF SendS
<1>5. toS # <<>> => Head(toS) \in Replies /\ Tail(toS) \in Seq(Replies)
  BY <1>1, Taken
<1>6. toR # <<>> => Head(toR) \in Frames /\ Tail(toR) \in Seq(Frames)
  BY <1>1, Taken
<1>7. QED
  BY <1>2, <1>3, <1>4, <1>5, <1>6

LEMMA EndsTyped ==
  /\ \A s \in Senders, n \in Nat : [s EXCEPT !.tries = n] \in Senders
  /\ \A s \in Senders, n \in Nat : [s EXCEPT !.tries = n, !.again = TRUE] \in Senders
  /\ \A s \in Senders, n \in Nat, a \in SenderAts : [s EXCEPT !.file = n, !.at = a] \in Senders
  /\ \A r \in Receivers, n \in Nat : [r EXCEPT !.tries = n] \in Receivers
  /\ \A r \in Receivers, n \in Nat \ {0} : [r EXCEPT !.expected = n, !.tries = 0] \in Receivers
  /\ \A r \in Receivers, n \in Nat :
       [r EXCEPT !.at = "core", !.file = n, !.expected = 1, !.tries = 0] \in Receivers
<1>1. \A s \in Senders, n \in Nat : [s EXCEPT !.tries = n] \in Senders
  BY DEF Senders
<1>2. \A s \in Senders, n \in Nat : [s EXCEPT !.tries = n, !.again = TRUE] \in Senders
  BY DEF Senders
<1>3. \A s \in Senders, n \in Nat, a \in SenderAts : [s EXCEPT !.file = n, !.at = a] \in Senders
  BY DEF Senders
<1>4. \A r \in Receivers, n \in Nat : [r EXCEPT !.tries = n] \in Receivers
  BY DEF Receivers
<1>5. ASSUME NEW r \in Receivers, NEW n \in Nat \ {0}
      PROVE  [r EXCEPT !.expected = n, !.tries = 0] \in Receivers
  BY DEF Receivers
<1>6. ASSUME NEW r \in Receivers, NEW n \in Nat
      PROVE  [r EXCEPT !.at = "core", !.file = n, !.expected = 1, !.tries = 0] \in Receivers
  <2>1. [r EXCEPT !.at = "core", !.file = n] \in Receivers
    BY DEF Receivers, ReceiverAts
  <2> DEFINE t == [r EXCEPT !.at = "core", !.file = n]
  <2>2. 1 \in Nat \ {0} /\ t \in Receivers
    BY <2>1
  <2>3. [r EXCEPT !.at = "core", !.file = n, !.expected = 1, !.tries = 0]
        = [t EXCEPT !.expected = 1, !.tries = 0]
    BY DEF Receivers
  <2> HIDE DEF t
  <2>4. [t EXCEPT !.expected = 1, !.tries = 0] \in Receivers
    BY <1>5, <2>2
  <2>5. QED
    BY <2>3, <2>4
<1>7. QED
  BY <1>1, <1>2, <1>3, <1>4, <1>5, <1>6

LEMMA OfferTyped ==
  ASSUME TypeOK, NEW f \in Nat, NEW k \in Nat \ {0}, NEW c \in BOOLEAN, Offer(f, k, c)
  PROVE  snd' \in Senders /\ toR' \in Seq(Frames)
<1>1. snd' \in Senders
  BY DEF TypeOK, Offer, Senders, SenderAts
<1> DEFINE m == IF k > sizes[f] THEN Item("eot") ELSE BlockFrame(k, c)
<1>2. m \in Frames
  BY FramesAre
<1>3. SendR(<<m>>)
  BY DEF Offer
<1> HIDE DEF m
<1>4. QED
  BY <1>1, <1>2, <1>3, SendTyped

LEMMA SenderAtTyped ==
  ASSUME TypeOK, NEW a \in SenderAts, SenderAt(a)
  PROVE  snd' \in Senders
BY DEF TypeOK, SenderAt, Senders

LEMMA EotTyped ==
  ASSUME TypeOK, NEW answered \in BOOLEAN, SenderEot(answered)
  PROVE  snd' \in Senders /\ toR' \in Seq(Frames)
<1>1. CASE answered \/ snd.tries + 1 >= MaxEots
  <2>1. FileSent /\ toR' = toR
    BY <1>1 DEF SenderEot, Quietly
  <2> DEFINE a == CASE ~batch                                -> "done"
                    [] batch /\ snd.file < Cardinality(Files) -> "ask"
                    [] OTHER                                  -> "askend"
  <2>2. snd' = [snd EXCEPT !.file = snd.file + 1, !.at = a] /\ a \in SenderAts
    BY <2>1 DEF FileSent, SenderAts
  <2> HIDE DEF a
  <2>3. snd \in Senders /\ snd.file + 1 \in Nat /\ toR \in Seq(Frames)
    BY Typed DEF TypeOK
  <2>4. QED
    BY <2>1, <2>2, <2>3, EndsTyped
<1>2. CASE ~ (answered \/ snd.tries + 1 >= MaxEots)
  <2>1. snd' = [snd EXCEPT !.tries = @ + 1, !.again = TRUE] /\ SendR(<<Item("eot")>>)
    BY <1>2 DEF SenderEot
  <2>2. snd' \in Senders
    <3>1. snd' = [snd EXCEPT !.tries = snd.tries + 1, !.again = TRUE] /\ snd \in Senders
          /\ snd.tries + 1 \in Nat
      BY <2>1, Typed DEF TypeOK
    <3>2. QED
      BY <3>1, EndsTyped
  <2>3. QED
    BY <2>1, <2>2, FramesAre, SendTyped
<1>3. QED
  BY <1>1, <1>2

LEMMA HeaderTyped ==
  ASSUME TypeOK, NEW b, SenderHeader(b)
  PROVE  snd' \in Senders /\ toR' \in Seq(Frames)
<1> USE DEF Quietly
<1>0. toR \in Seq(Frames) /\ snd.file \in Nat
  BY Typed DEF TypeOK
<1>1. CASE snd.at = "ask"
  <2>1. CASE b = "C"
    <3>1. SenderAt("headed") /\ SendR(<<HeaderFrame(snd.file)>>)
      BY <1>1, <2>1 DEF SenderHeader
    <3>2. QED
      BY <1>0, <3>1, SenderAtTyped, FramesAre, SendTyped DEF SenderAts
  <2>2. CASE b # "C"
    <3>1. SenderAt("failed") /\ toR' = toR
      BY <1>1, <2>2 DEF SenderHeader, SenderFails
    <3>2. QED
      BY <1>0, <3>1, SenderAtTyped DEF SenderAts
  <2>3. QED
    BY <2>1, <2>2
<1>2. CASE snd.at = "headed"
  <2>1. toR' = toR /\ (SenderAt("asked") \/ SenderAt("failed"))
    BY <1>2 DEF SenderHeader, SenderFails
  <2>2. QED
    BY <1>0, <2>1, SenderAtTyped DEF SenderAts
<1>3. CASE snd.at = "asked"
  <2>1. Offer(snd.file, 1, TRUE) \/ (SenderAt("failed") /\ toR' = toR)
    BY <1>3 DEF SenderHeader, SenderFails
  <2>2. QED
    <3>1. CASE Offer(snd.file, 1, TRUE)
      <4>1. 1 \in Nat \ {0} /\ TRUE \in BOOLEAN
        OBVIOUS
      <4>2. QED
        BY <1>0, <3>1, <4>1, OfferTyped
    <3>2. CASE SenderAt("failed") /\ toR' = toR
      BY <1>0, <3>2, SenderAtTyped DEF SenderAts
    <3>3. QED
      BY <2>1, <3>1, <3>2
<1>4. CASE snd.at = "askend"
  <2>1. (SenderAt("ended") /\ SendR(<<NullFrame>>)) \/ (SenderAt("done") /\ toR' = toR)
    BY <1>4 DEF SenderHeader
  <2>2. QED
    BY <1>0, <2>1, SenderAtTyped, FramesAre, SendTyped DEF SenderAts
<1>5. CASE snd.at = "ended"
  <2>1. SenderAt("done") /\ toR' = toR
    BY <1>5 DEF SenderHeader
  <2>2. QED
    BY <1>0, <2>1, SenderAtTyped DEF SenderAts
<1>6. QED
  BY <1>1, <1>2, <1>3, <1>4, <1>5 DEF SenderHeader

LEMMA DataTyped ==
  ASSUME TypeOK, NEW b, SenderData(b)
  PROVE  snd' \in Senders /\ toR' \in Seq(Frames)
<1> USE DEF Quietly
<1>0. toR \in Seq(Frames) /\ snd.file \in Nat /\ snd.block + 1 \in Nat \ {0} /\ snd.crc \in BOOLEAN
      /\ snd.block \in Nat \ {0}
  <2>1. toR \in Seq(Frames)
    BY DEF TypeOK
  <2>2. snd.file \in Nat /\ snd.block \in Nat \ {0} /\ snd.crc \in BOOLEAN
    BY Typed
  <2>3. snd.block + 1 \in Nat \ {0}
    BY <2>2
  <2>4. QED
    BY <2>1, <2>2, <2>3
<1>1. \/ Offer(snd.file, snd.block + 1, snd.crc)
      \/ SenderAt("failed") /\ toR' = toR
      \/ snd' = [snd EXCEPT !.tries = @ + 1] /\ SendR(<<BlockFrame(snd.block, snd.crc)>>)
      \/ SenderAt("failed") /\ SendR(<<Item("can")>>)
  BY DEF SenderData, SenderFails
<1>2. CASE Offer(snd.file, snd.block + 1, snd.crc)
  BY <1>0, <1>2, OfferTyped
<1>3. CASE SenderAt("failed") /\ toR' = toR
  BY <1>0, <1>3, SenderAtTyped DEF SenderAts
<1>4. CASE snd' = [snd EXCEPT !.tries = @ + 1] /\ SendR(<<BlockFrame(snd.block, snd.crc)>>)
  <2>1. snd' \in Senders
    <3>1. snd' = [snd EXCEPT !.tries = snd.tries + 1] /\ snd \in Senders /\ snd.tries + 1 \in Nat
      BY <1>4, Typed DEF TypeOK
    <3>2. QED
      BY <3>1, EndsTyped
  <2>2. BlockFrame(snd.block, snd.crc) \in Frames
    BY <1>0, FramesAre
  <2>3. QED
    BY <1>4, <2>1, <2>2, SendTyped
<1>5. CASE SenderAt("failed") /\ SendR(<<Item("can")>>)
  BY <1>5, SenderAtTyped, FramesAre, SendTyped DEF SenderAts
<1>6. QED
  BY <1>1, <1>2, <1>3, <1>4, <1>5

-----------------------------------------------------------------------------
(***************************************************************************)
(* What the receiver does with what it reads.                              *)
(***************************************************************************)

Counted     == rcv' = [rcv EXCEPT !.tries = rcv.tries + 1]
Failed      == rcv' = [rcv EXCEPT !.at = "failed"]
Replied(b)  == toS' = toS \o <<b>>

LEMMA RetryIs ==
  ASSUME TypeOK, NEW reply \in Replies, NEW last \in {<<>>, <<"CAN">>}, Retry(reply, last)
  PROVE  /\ rcv' \in Receivers /\ toS' \in Seq(Replies)
         /\ (Counted /\ Replied(reply)) \/ (Failed /\ (toS' = toS \/ Replied("CAN")))
<1>1. rcv \in Receivers /\ rcv.tries + 1 \in Nat /\ toS \in Seq(Replies)
  <2>1. rcv \in Receivers /\ toS \in Seq(Replies)
    BY DEF TypeOK
  <2>2. rcv.tries \in Nat
    BY Typed
  <2>3. QED
    BY <2>1, <2>2
<1>2. CASE Counted /\ Replied(reply)
  <2>1. rcv' \in Receivers
    BY <1>1, <1>2, EndsTyped DEF Counted
  <2>2. toS' \in Seq(Replies)
    BY <1>2, SendTyped DEF Replied, SendS
  <2>3. QED
    BY <1>2, <2>1, <2>2
<1>3. CASE Failed /\ SendS(last)
  <2>1. rcv' \in Receivers
    BY <1>1, <1>3 DEF Failed, Receivers, ReceiverAts
  <2>2. CASE last = <<>>
    <3>1. toS' = toS \o <<>>
      BY <1>3, <2>2 DEF SendS
    <3>2. toS' = toS
      BY <1>1, <3>1, ConcatEmptySeq
    <3>3. QED
      BY <1>1, <1>3, <2>1, <3>2
  <2>3. CASE last = <<"CAN">>
    <3>1. SendS(<<"CAN">>) /\ "CAN" \in Replies
      BY <1>3, <2>3 DEF Replies
    <3>2. toS' \in Seq(Replies)
      BY <3>1, SendTyped
    <3>3. QED
      BY <1>3, <2>1, <3>1, <3>2 DEF SendS, Replied
  <2>4. QED
    BY <2>2, <2>3
<1>4. (Counted /\ Replied(reply)) \/ (Failed /\ SendS(last))
  BY DEF Retry, Counted, Failed, Replied, SendS, ReceiverFails, ReceiverAt
<1>5. QED
  BY <1>2, <1>3, <1>4

\* The five ends of a block of data.
Refused(m) ==
  /\ ~Fine(m) /\ disk' = disk
  /\ (~m.header /\ toR' = <<>>) \/ (m.header /\ toR' = Tail(toR))
  /\ (Counted /\ Replied("NAK")) \/ (Failed /\ Replied("CAN"))
GivenUp(m) ==
  /\ ~Fine(m) \/ rcv.crc # m.crc
  /\ disk' = disk /\ toR' = Tail(toR) /\ toS' = toS /\ Failed
Again(m)  == Fine(m) /\ Duplicate(m) /\ disk' = disk /\ rcv' = rcv /\ toR' = Tail(toR) /\ Replied("ACK")
Foreign(m) ==
  Fine(m) /\ ~Duplicate(m) /\ ~InSequence(m) /\ disk' = disk /\ Failed /\ toR' = Tail(toR) /\ Replied("CAN")
Written(m) ==
  /\ Fine(m) /\ ~Duplicate(m) /\ InSequence(m) /\ toR' = Tail(toR) /\ Replied("ACK")
  /\ disk' = [disk EXCEPT ![rcv.file] = Append(@, m.body)]
  /\ rcv' = [rcv EXCEPT !.expected = rcv.expected + 1, !.tries = 0]

LEMMA BlockRead ==
  ASSUME TypeOK, NEW m \in Blocks \cup Headers, ReceiveBlock(m)
  PROVE  Refused(m) \/ GivenUp(m) \/ Again(m) \/ Foreign(m) \/ Written(m)
<1>1. HasBody(m) /\ m.header \in BOOLEAN /\ m.whole \in BOOLEAN /\ m.good \in BOOLEAN
  BY DEF Blocks, Headers, HasBody
<1>2. CASE ~m.header
  <2>1. Retry("NAK", <<"CAN">>) /\ toR' = <<>> /\ disk' = disk
    BY <1>2 DEF ReceiveBlock
  <2>2. (Counted /\ Replied("NAK")) \/ (Failed /\ Replied("CAN"))
    BY <2>1 DEF Retry, Counted, Failed, Replied, SendS, ReceiverFails, ReceiverAt
  <2>3. QED
    BY <1>1, <1>2, <2>1, <2>2 DEF Refused, Fine
<1>3. CASE m.header /\ (~m.whole \/ rcv.crc # m.crc)
  <2>1. ReceiverFails /\ toR' = Tail(toR) /\ UNCHANGED <<toS, disk>>
    BY <1>3 DEF ReceiveBlock
  <2>2. QED
    BY <1>3, <2>1 DEF GivenUp, Fine, Failed, ReceiverFails, ReceiverAt
<1>4. CASE m.header /\ m.whole /\ rcv.crc = m.crc /\ ~m.good
  <2>1. Retry("NAK", <<"CAN">>) /\ toR' = Tail(toR) /\ disk' = disk
    BY <1>4 DEF ReceiveBlock, Checked
  <2>2. (Counted /\ Replied("NAK")) \/ (Failed /\ Replied("CAN"))
    BY <2>1 DEF Retry, Counted, Failed, Replied, SendS, ReceiverFails, ReceiverAt
  <2>3. QED
    BY <1>1, <1>4, <2>1, <2>2 DEF Refused, Fine
<1>5. CASE m.header /\ m.whole /\ rcv.crc = m.crc /\ m.good
  <2>1. Fine(m)
    BY <1>1, <1>5 DEF Fine
  <2>2. /\ toR' = Tail(toR)
        /\ \/ Duplicate(m) /\ SendS(<<"ACK">>) /\ UNCHANGED <<rcv, disk>>
           \/ ~Duplicate(m) /\ ~InSequence(m) /\ SendS(<<"CAN">>) /\ ReceiverFails /\ UNCHANGED disk
           \/ /\ ~Duplicate(m) /\ InSequence(m)
              /\ disk' = [disk EXCEPT ![rcv.file] = Append(@, IF m.good THEN m.body ELSE 0)]
              /\ SendS(<<"ACK">>)
              /\ rcv' = [rcv EXCEPT !.expected = @ + 1, !.tries = 0]
    BY <1>5 DEF ReceiveBlock, Checked
  <2>3. QED
    BY <1>5, <2>1, <2>2
       DEF Again, Foreign, Written, Failed, Replied, SendS, ReceiverFails, ReceiverAt
<1>6. QED
  BY <1>1, <1>2, <1>3, <1>4, <1>5

LEMMA FailedTyped ==
  ASSUME TypeOK, Failed
  PROVE  rcv' \in Receivers
BY DEF TypeOK, Failed, Receivers, ReceiverAts

LEMMA RepliedTyped ==
  ASSUME TypeOK, NEW b \in Replies, Replied(b)
  PROVE  toS' \in Seq(Replies)
BY SendTyped DEF Replied, SendS

LEMMA BlockTyped ==
  ASSUME TypeOK, toR # <<>>, Head(toR) \in Blocks \cup Headers, ReceiveBlock(Head(toR))
  PROVE  /\ rcv' \in Receivers /\ toR' \in Seq(Frames) /\ toS' \in Seq(Replies)
         /\ disk' \in [{Stray} \cup Files -> Seq(Nat)]
<1> DEFINE m == Head(toR)
<1>1. Refused(m) \/ GivenUp(m) \/ Again(m) \/ Foreign(m) \/ Written(m)
  BY BlockRead
<1>2. /\ rcv \in Receivers /\ toR \in Seq(Frames) /\ toS \in Seq(Replies) /\ Tail(toR) \in Seq(Frames)
      /\ disk \in [{Stray} \cup Files -> Seq(Nat)] /\ rcv.tries + 1 \in Nat
      /\ rcv.expected + 1 \in Nat \ {0} /\ m.body \in Nat /\ <<>> \in Seq(Frames)
  <2>1. m.body \in Nat
    <3>1. m \in Frames /\ m \in Blocks \cup Headers
      BY FramesAre
    <3> HIDE DEF m
    <3>2. QED
      BY <3>1, FrameKinds
  <2>2. rcv.tries + 1 \in Nat /\ rcv.expected + 1 \in Nat \ {0}
    BY Typed
  <2>3. Tail(toR) \in Seq(Frames) /\ <<>> \in Seq(Frames)
    BY SendTyped, EmptySeq
  <2> HIDE DEF m
  <2>4. QED
    BY <2>1, <2>2, <2>3 DEF TypeOK
<1>3. {"ACK", "NAK", "CAN"} \subseteq Replies
  BY DEF Replies
<1> HIDE DEF m
<1>4. CASE Refused(m)
  <2>1. Counted => rcv' \in Receivers
    BY <1>2, EndsTyped DEF Counted
  <2>2. QED
    BY <1>2, <1>3, <1>4, <2>1, FailedTyped, RepliedTyped DEF Refused
<1>5. CASE GivenUp(m) \/ Again(m) \/ Foreign(m)
  BY <1>2, <1>3, <1>5, FailedTyped, RepliedTyped DEF GivenUp, Again, Foreign
<1>6. CASE Written(m)
  <2>1. rcv' \in Receivers
    BY <1>2, <1>6, EndsTyped DEF Written
  <2>2. disk' \in [{Stray} \cup Files -> Seq(Nat)]
    <3>1. disk' = [disk EXCEPT ![rcv.file] = Append(disk[rcv.file], m.body)]
      BY <1>6 DEF Written
    <3>2. rcv.file \in {Stray} \cup Files => Append(disk[rcv.file], m.body) \in Seq(Nat)
      BY <1>2, AppendProperties
    <3>3. QED
      BY <1>2, <3>1, <3>2
  <2>3. QED
    BY <1>2, <1>3, <1>6, <2>1, <2>2, RepliedTyped DEF Written
<1>7. QED
  BY <1>1, <1>4, <1>5, <1>6

\* The four ends of a header.
Torn(m)     == ~Fine(m) /\ Failed /\ toS' = toS /\ disk' = disk
Repeated(m) == ~Fine(m) /\ toS' = toS \o <<"NAK", "C">> /\ rcv' = rcv /\ disk' = disk
Closed(m)   == m = NullFrame /\ rcv' = [rcv EXCEPT !.at = "done"] /\ Replied("ACK") /\ disk' = disk
Named(m)    ==
  LET f == IF IsHeader(m) THEN m.file ELSE Stray
  IN  /\ Fine(m) /\ m # NullFrame
      /\ rcv' = [rcv EXCEPT !.at = "core", !.file = f, !.expected = 1, !.tries = 0]
      /\ toS' = toS \o <<"ACK", "C">> /\ disk' = [disk EXCEPT ![f] = <<>>]

LEMMA HeaderRead ==
  ASSUME NEW m \in Blocks \cup Headers, ReceiveHeader(m)
  PROVE  Torn(m) \/ Repeated(m) \/ Closed(m) \/ Named(m)
<1>1. HasBody(m) /\ m.header \in BOOLEAN /\ m.whole \in BOOLEAN /\ m.good \in BOOLEAN
  BY DEF Blocks, Headers, HasBody
<1>2. CASE ~m.header \/ ~m.whole
  <2>1. ReceiverFails /\ UNCHANGED <<toS, disk>>
    BY <1>2 DEF ReceiveHeader
  <2>2. QED
    BY <1>2, <2>1 DEF Torn, Fine, Failed, ReceiverFails, ReceiverAt
<1>3. CASE m.header /\ m.whole /\ ~m.good
  <2>1. SendS(<<"NAK", "C">>) /\ UNCHANGED <<rcv, disk>>
    BY <1>3 DEF ReceiveHeader
  <2>2. QED
    BY <1>3, <2>1 DEF Repeated, Fine, SendS
<1>4. CASE m.header /\ m.whole /\ m.good /\ m = NullFrame
  <2>1. ReceiverAt("done") /\ SendS(<<"ACK">>) /\ UNCHANGED disk
    BY <1>4 DEF ReceiveHeader
  <2>2. QED
    BY <1>4, <2>1 DEF Closed, ReceiverAt, Replied, SendS
<1>5. CASE m.header /\ m.whole /\ m.good /\ m # NullFrame
  <2> DEFINE f == IF IsHeader(m) THEN m.file ELSE Stray
  <2>1. /\ rcv' = [rcv EXCEPT !.at = "core", !.file = f, !.expected = 1, !.tries = 0]
        /\ SendS(<<"ACK", "C">>) /\ disk' = [disk EXCEPT ![f] = <<>>]
    BY <1>5 DEF ReceiveHeader
  <2>2. QED
    BY <1>1, <1>5, <2>1 DEF Named, Fine, SendS
<1>6. QED
  BY <1>1, <1>2, <1>3, <1>4, <1>5

LEMMA HeaderBlockTyped ==
  ASSUME TypeOK, NEW m \in Blocks \cup Headers, ReceiveHeader(m)
  PROVE  /\ rcv' \in Receivers /\ toS' \in Seq(Replies)
         /\ disk' \in [{Stray} \cup Files -> Seq(Nat)]
<1>1. Torn(m) \/ Repeated(m) \/ Closed(m) \/ Named(m)
  BY HeaderRead
<1>2. rcv \in Receivers /\ toS \in Seq(Replies) /\ disk \in [{Stray} \cup Files -> Seq(Nat)]
  BY DEF TypeOK
<1>3. {"ACK", "NAK", "C"} \subseteq Replies
  BY DEF Replies
<1>4. CASE Torn(m)
  BY <1>2, <1>4, FailedTyped DEF Torn
<1>5. CASE Repeated(m)
  BY <1>2, <1>3, <1>5, SendTyped DEF Repeated, SendS
<1>6. CASE Closed(m)
  <2>1. rcv' \in Receivers
    BY <1>2, <1>6 DEF Closed, Receivers, ReceiverAts
  <2>2. QED
    BY <1>2, <1>3, <1>6, <2>1, RepliedTyped DEF Closed
<1>7. CASE Named(m)
  <2> DEFINE f == IF IsHeader(m) THEN m.file ELSE Stray
  <2>1. f \in Nat
    <3>1. m \in Headers => m.file \in Nat
      BY DEF Headers
    <3>2. m \in Blocks => ~IsHeader(m)
      BY DEF Blocks, IsHeader
    <3>3. QED
      BY <3>1, <3>2 DEF Stray
  <2>2. /\ rcv' = [rcv EXCEPT !.at = "core", !.file = f, !.expected = 1, !.tries = 0]
        /\ toS' = toS \o <<"ACK", "C">> /\ disk' = [disk EXCEPT ![f] = <<>>]
    BY <1>7 DEF Named
  <2> HIDE DEF f
  <2>3. rcv' \in Receivers
    BY <1>2, <2>1, <2>2, EndsTyped
  <2>4. toS' \in Seq(Replies)
    BY <1>3, <2>2, SendTyped DEF SendS
  <2>5. disk' \in [{Stray} \cup Files -> Seq(Nat)]
    <3>1. <<>> \in Seq(Nat)
      BY EmptySeq
    <3>2. QED
      BY <1>2, <2>2, <3>1
  <2>6. QED
    BY <2>3, <2>4, <2>5
<1>8. QED
  BY <1>1, <1>4, <1>5, <1>6, <1>7

LEMMA SizedIn ==
  ASSUME TypeOK, NEW f \in Files
  PROVE  Sized(f) \in Seq(Nat)
<1>1. sizes[f] \in Nat /\ disk[f] \in Seq(Nat)
  BY DEF TypeOK
<1>2. ASSUME NEW i \in 1..sizes[f]
      PROVE  (IF i <= Len(disk[f]) THEN disk[f][i] ELSE 0) \in Nat
  BY <1>1, Empty
<1>3. Sized(f) \in [1..sizes[f] -> Nat]
  BY <1>2 DEF Sized
<1>4. QED
  BY <1>1, <1>3, SeqDef

\* What an EOT does to a batch, and to a single file.
BatchEot  ==
  /\ rcv' = [rcv EXCEPT !.at = "header"] /\ toS' = toS \o <<"ACK", "C">>
  /\ disk' = IF rcv.file # Stray THEN [disk EXCEPT ![rcv.file] = Sized(rcv.file)] ELSE disk
SingleEot == rcv' = [rcv EXCEPT !.at = "done"] /\ Replied("ACK") /\ disk' = disk

LEMMA EotRead ==
  ASSUME TypeOK, Eot
  PROVE  /\ (batch /\ BatchEot) \/ (~batch /\ SingleEot)
         /\ rcv' \in Receivers /\ toS' \in Seq(Replies)
         /\ disk' \in [{Stray} \cup Files -> Seq(Nat)]
<1>1. rcv \in Receivers /\ toS \in Seq(Replies) /\ disk \in [{Stray} \cup Files -> Seq(Nat)]
  BY DEF TypeOK
<1>2. {"ACK", "C"} \subseteq Replies
  BY DEF Replies
<1>3. CASE batch
  <2>1. BatchEot
    BY <1>3 DEF Eot, BatchEot, ReceiverAt, SendS, SetLen
  <2>2. rcv' \in Receivers
    BY <1>1, <2>1 DEF BatchEot, Receivers, ReceiverAts
  <2>3. toS' \in Seq(Replies)
    BY <1>2, <2>1, SendTyped DEF BatchEot, SendS
  <2>4. disk' \in [{Stray} \cup Files -> Seq(Nat)]
    <3>1. rcv.file \in Files => Sized(rcv.file) \in Seq(Nat)
      BY SizedIn
    <3>2. QED
      BY <1>1, <2>1, <3>1 DEF BatchEot
  <2>5. QED
    BY <1>3, <2>1, <2>2, <2>3, <2>4
<1>4. CASE ~batch
  <2>1. SingleEot
    BY <1>4 DEF Eot, SingleEot, ReceiverAt, SendS, SetLen, Replied
  <2>2. rcv' \in Receivers
    BY <1>1, <2>1 DEF SingleEot, Receivers, ReceiverAts
  <2>3. QED
    BY <1>1, <1>2, <1>4, <2>1, <2>2, RepliedTyped DEF SingleEot
<1>5. QED
  BY <1>3, <1>4


-----------------------------------------------------------------------------
(***************************************************************************)
(* The line and time.                                                      *)
(***************************************************************************)

Untouched == batch' = batch /\ sizes' = sizes

LEMMA Kept ==
  ASSUME TypeOK, Untouched, snd' \in Senders, rcv' \in Receivers,
         toR' \in Seq(Frames), toS' \in Seq(Replies),
         disk' \in [{Stray} \cup Files -> Seq(Nat)], faults' \in [Kinds -> Nat]
  PROVE  TypeOK' /\ Files' = Files /\ FileCount' = FileCount
<1>1. Files' = Files /\ FileCount' = FileCount
  BY DEF Untouched, Files, FileCount
<1>2. QED
  BY <1>1 DEF TypeOK, Untouched

\* One more fault of a kind.
Spent(kind) == faults' = [faults EXCEPT ![kind] = faults[kind] + 1]

LEMMA SpendIs ==
  ASSUME TypeOK, NEW kind \in Kinds, Spend(kind)
  PROVE  Spent(kind) /\ faults' \in [Kinds -> Nat]
<1>1. Spent(kind)
  BY DEF Spend, Spent
<1>2. faults \in [Kinds -> Nat]
  BY DEF TypeOK
<1>3. QED
  BY <1>1, <1>2 DEF Spent

\* What the line does to the frames and to the replies.
FrameSpoilt ==
  \E i \in 1..Len(toR) : \E kind \in {"damage", "garble", "cut"} :
    /\ HasBody(toR[i]) /\ Spent(kind) /\ toS' = toS
    /\ \E n \in Blocks \cup Headers :
         /\ toR' = [toR EXCEPT ![i] = n] /\ ~Fine(n) /\ n.body = toR[i].body /\ n.num = toR[i].num
         /\ n \in Blocks <=> toR[i] \in Blocks
         /\ n \in Headers => n.file = toR[i].file
FrameLost    == Spent("lose") /\ toS' = toS /\ \E i \in 1..Len(toR) : toR' = Without(toR, i)
FrameAdded   == Spent("noise") /\ toS' = toS /\ toR' = toR \o <<Item("noise")>>
ReplyGarbled == Spent("garble") /\ toR' = toR /\ \E i \in 1..Len(toS) : toS' = [toS EXCEPT ![i] = "noise"]
ReplyLost    == Spent("lose") /\ toR' = toR /\ \E i \in 1..Len(toS) : toS' = Without(toS, i)
ReplyAdded   == Spent("noise") /\ toR' = toR /\ toS' = toS \o <<"noise">>

LEMMA SpoilIs ==
  ASSUME TypeOK, NEW i \in 1..Len(toR), NEW kind \in {"damage", "garble", "cut"},
         HasBody(toR[i]), Spoil(i, kind)
  PROVE  \E n \in Blocks \cup Headers :
           /\ toR' = [toR EXCEPT ![i] = n] /\ ~Fine(n) /\ n.body = toR[i].body /\ n.num = toR[i].num
           /\ n \in Blocks <=> toR[i] \in Blocks
           /\ n \in Headers => n.file = toR[i].file
<1> DEFINE m == toR[i]
<1>1. m \in Frames
  BY Empty DEF TypeOK
<1>2. m \in Blocks \cup Headers
  BY <1>1, FrameKinds
<1> DEFINE n == CASE kind = "damage" -> [m EXCEPT !.good = FALSE]
                  [] kind = "garble" -> [m EXCEPT !.header = FALSE]
                  [] kind = "cut"    -> [m EXCEPT !.whole = FALSE]
<1>3. toR' = [toR EXCEPT ![i] = n]
  BY DEF Spoil
<1> HIDE DEF m
<1>4. CASE m \in Blocks
  <2>1. n \in Blocks
    BY <1>2, <1>4, Spoilt
  <2>2. ~Fine(n) /\ n.body = m.body /\ n.num = m.num
    BY <1>4 DEF Blocks, Fine, HasBody
  <2>3. n \notin Headers
    BY <2>1 DEF Blocks, Headers
  <2> HIDE DEF n
  <2>4. QED
    BY <1>3, <1>4, <2>1, <2>2, <2>3 DEF m
<1>5. CASE m \in Headers
  <2>1. n \in Headers
    BY <1>2, <1>5, Spoilt
  <2>2. ~Fine(n) /\ n.body = m.body /\ n.num = m.num /\ n.file = m.file
    BY <1>5 DEF Headers, Fine, HasBody
  <2>3. n \notin Blocks /\ m \notin Blocks
    BY <1>5, <2>1 DEF Blocks, Headers
  <2> HIDE DEF n
  <2>4. QED
    BY <1>3, <2>1, <2>2, <2>3 DEF m
<1>6. QED
  BY <1>2, <1>4, <1>5

LEMMA LineIs ==
  ASSUME TypeOK, Line
  PROVE  /\ FrameSpoilt \/ FrameLost \/ FrameAdded \/ ReplyGarbled \/ ReplyLost \/ ReplyAdded
         /\ Untouched /\ snd' = snd /\ rcv' = rcv /\ disk' = disk
         /\ TypeOK' /\ Files' = Files /\ FileCount' = FileCount
<1>1. toR \in Seq(Frames) /\ toS \in Seq(Replies) /\ DOMAIN toR = 1..Len(toR) /\ DOMAIN toS = 1..Len(toS)
  BY Empty DEF TypeOK
<1>2. Untouched /\ snd' = snd /\ rcv' = rcv /\ disk' = disk
  BY DEF Line, Untouched
<1>3. FrameSpoilt \/ FrameLost \/ FrameAdded \/ ReplyGarbled \/ ReplyLost \/ ReplyAdded
  <2>1. ASSUME NEW i \in 1..Len(toR), NEW kind \in {"damage", "garble", "cut"},
               HasBody(toR[i]), Spend(kind), Spoil(i, kind), toS' = toS
        PROVE  FrameSpoilt
    <3>1. Spent(kind)
      BY <2>1 DEF Spend, Spent
    <3>2. QED
      BY <2>1, <3>1, SpoilIs DEF FrameSpoilt
  <2>2. \A kind \in Kinds : Spend(kind) => Spent(kind)
    BY DEF Spend, Spent
  <2>3. {"lose", "noise", "garble"} \subseteq Kinds
    BY DEF Kinds
  <2>4. Append(toR, Item("noise")) = toR \o <<Item("noise")>> /\ Append(toS, "noise") = toS \o <<"noise">>
    <3>1. Item("noise") \in Frames /\ "noise" \in Replies
      BY FramesAre DEF Replies
    <3>2. QED
      BY <1>1, <3>1, Appended
  <2>5. \/ \E i \in 1..Len(toR), kind \in {"damage", "garble", "cut"} :
             HasBody(toR[i]) /\ Spend(kind) /\ Spoil(i, kind) /\ toS' = toS
        \/ \E i \in 1..Len(toS) :
             Spend("garble") /\ toS' = [toS EXCEPT ![i] = "noise"] /\ toR' = toR
        \/ \E i \in 1..Len(toR) : Spend("lose") /\ toR' = Without(toR, i) /\ toS' = toS
        \/ \E i \in 1..Len(toS) : Spend("lose") /\ toS' = Without(toS, i) /\ toR' = toR
        \/ Spend("noise") /\ toR' = Append(toR, Item("noise")) /\ toS' = toS
        \/ Spend("noise") /\ toS' = Append(toS, "noise") /\ toR' = toR
    BY <1>1 DEF Line
  <2>6. QED
    BY <2>1, <2>2, <2>3, <2>4, <2>5
       DEF FrameLost, FrameAdded, ReplyGarbled, ReplyLost, ReplyAdded
<1>4. toR' \in Seq(Frames) /\ toS' \in Seq(Replies)
  <2>1. Item("noise") \in Frames /\ "noise" \in Replies
    BY FramesAre DEF Replies
  <2>2. FrameSpoilt => toR' \in Seq(Frames) /\ toS' \in Seq(Replies)
    BY <1>1, Changed, FramesAre DEF FrameSpoilt
  <2>3. FrameLost \/ FrameAdded => toR' \in Seq(Frames) /\ toS' \in Seq(Replies)
    <3>1. \A i \in 1..Len(toR) : Without(toR, i) \in Seq(Frames)
      BY <1>1, Dropped
    <3>2. toR \o <<Item("noise")>> \in Seq(Frames)
      BY <1>1, <2>1, Added
    <3>3. QED
      BY <1>1, <3>1, <3>2 DEF FrameLost, FrameAdded
  <2>4. ReplyGarbled \/ ReplyLost \/ ReplyAdded => toR' \in Seq(Frames) /\ toS' \in Seq(Replies)
    <3>1. \A i \in 1..Len(toS) : Without(toS, i) \in Seq(Replies)
      BY <1>1, Dropped
    <3>2. \A i \in 1..Len(toS) : [toS EXCEPT ![i] = "noise"] \in Seq(Replies)
      BY <1>1, <2>1, Changed
    <3>3. toS \o <<"noise">> \in Seq(Replies)
      BY <1>1, <2>1, Added
    <3>4. QED
      BY <1>1, <3>1, <3>2, <3>3 DEF ReplyGarbled, ReplyLost, ReplyAdded
  <2>5. QED
    BY <1>3, <2>2, <2>3, <2>4
<1>5. faults' \in [Kinds -> Nat]
  <2>1. \E kind \in Kinds : Spent(kind)
    BY <1>3 DEF FrameSpoilt, FrameLost, FrameAdded, ReplyGarbled, ReplyLost, ReplyAdded, Kinds
  <2>2. faults \in [Kinds -> Nat]
    BY DEF TypeOK
  <2>3. QED
    BY <2>1, <2>2 DEF Spent
<1>6. snd' \in Senders /\ rcv' \in Receivers /\ disk' \in [{Stray} \cup Files -> Seq(Nat)]
  BY <1>2 DEF TypeOK
<1>7. QED
  BY <1>2, <1>3, <1>4, <1>5, <1>6, Kept


-----------------------------------------------------------------------------
(***************************************************************************)
(* Every step keeps the types, the files and the past of the line.         *)
(***************************************************************************)

Grown == \A kind \in Kinds : faults'[kind] >= faults[kind]

LEMMA SameFaults ==
  ASSUME TypeOK, faults' = faults
  PROVE  Grown /\ faults' \in [Kinds -> Nat]
<1>1. faults \in [Kinds -> Nat]
  BY DEF TypeOK
<1>2. QED
  BY <1>1 DEF Grown

LEMMA SpentGrows ==
  ASSUME TypeOK, NEW kind \in Kinds, Spent(kind)
  PROVE  Grown
<1>1. faults \in [Kinds -> Nat]
  BY DEF TypeOK
<1>2. QED
  BY <1>1 DEF Spent, Grown

LEMMA SenderReadsTyped ==
  ASSUME TypeOK, SenderReads
  PROVE  TypeOK' /\ Untouched /\ Grown /\ Files' = Files /\ FileCount' = FileCount
<1> DEFINE b == Head(toS)
<1>1. /\ toS # <<>> /\ toS' = Tail(toS) /\ rcv' = rcv /\ disk' = disk /\ faults' = faults /\ Untouched
      /\ SenderInit(b) \/ SenderData(b) \/ SenderEot(b = "ACK") \/ SenderHeader(b)
  BY DEF SenderReads, Untouched
<1>2. toS' \in Seq(Replies) /\ toR \in Seq(Frames)
  BY <1>1, SendTyped DEF TypeOK
<1>3. snd' \in Senders /\ toR' \in Seq(Frames)
  <2>1. CASE SenderInit(b)
    <3>1. Offer(1, 1, b = "C") \/ (SenderAt("failed") /\ toR' = toR)
      BY <2>1 DEF SenderInit, SenderFails, Quietly
    <3>2. 1 \in Nat /\ 1 \in Nat \ {0} /\ (b = "C") \in BOOLEAN /\ "failed" \in SenderAts
      BY DEF SenderAts
    <3> HIDE DEF b
    <3>3. QED
      BY <1>2, <3>1, <3>2, OfferTyped, SenderAtTyped
  <2>2. CASE SenderData(b)
    BY <2>2, DataTyped
  <2>3. CASE SenderEot(b = "ACK")
    <3>1. (b = "ACK") \in BOOLEAN
      OBVIOUS
    <3> HIDE DEF b
    <3>2. QED
      BY <2>3, <3>1, EotTyped
  <2>4. CASE SenderHeader(b)
    BY <2>4, HeaderTyped
  <2>5. QED
    BY <1>1, <2>1, <2>2, <2>3, <2>4
<1>4. rcv' \in Receivers /\ disk' \in [{Stray} \cup Files -> Seq(Nat)]
  BY <1>1 DEF TypeOK
<1>5. Grown /\ faults' \in [Kinds -> Nat]
  BY <1>1, SameFaults
<1>6. QED
  BY <1>1, <1>2, <1>3, <1>4, <1>5, Kept

LEMMA SenderWaitedTyped ==
  ASSUME TypeOK, SenderWaited
  PROVE  snd' \in Senders /\ toR' \in Seq(Frames)
<1>1. \/ SenderEot(FALSE)
      \/ (SenderAt("done") \/ SenderAt("failed")) /\ toR' = toR
  BY DEF SenderWaited, SenderFails, Quietly
<1>2. toR \in Seq(Frames) /\ {"done", "failed"} \subseteq SenderAts
  BY DEF TypeOK, SenderAts
<1>3. SenderEot(FALSE) => snd' \in Senders /\ toR' \in Seq(Frames)
  BY EotTyped
<1>4. QED
  BY <1>1, <1>2, <1>3, SenderAtTyped

\* How the receiver reads one frame.
ReadItem(m) ==
  \/ rcv.at = "core" /\ m = Item("eot") /\ Eot /\ toR' = Tail(toR)
  \/ rcv.at = "core" /\ m = Item("can") /\ Failed /\ toR' = Tail(toR) /\ toS' = toS /\ disk' = disk
  \/ rcv.at = "core" /\ m = Item("noise") /\ Retry("NAK", <<>>) /\ toR' = Tail(toR) /\ disk' = disk
  \/ /\ rcv.at = "header" /\ m = Item("eot") /\ rcv' = [rcv EXCEPT !.at = "done"]
     /\ Replied("ACK") /\ toR' = Tail(toR) /\ disk' = disk
  \/ /\ rcv.at = "header" /\ m \in {Item("can"), Item("noise")} /\ Failed
     /\ toR' = Tail(toR) /\ toS' = toS /\ disk' = disk
ReadFrame(m) ==
  /\ m \in Blocks \cup Headers
  /\ \/ rcv.at = "core" /\ ReceiveBlock(m)
     \/ rcv.at = "header" /\ ReceiveHeader(m) /\ toR' = Tail(toR)

LEMMA ReceiverReadsIs ==
  ASSUME TypeOK, ReceiverReads
  PROVE  /\ toR # <<>> /\ snd' = snd /\ faults' = faults /\ Untouched
         /\ ReadItem(Head(toR)) \/ ReadFrame(Head(toR))
<1> DEFINE m == Head(toR)
<1>1. /\ toR # <<>> /\ snd' = snd /\ faults' = faults /\ Untouched
      /\ ReceiverCore(m) \/ ReceiverHeader(m)
  BY DEF ReceiverReads, Untouched
<1>2. m \in Frames
  BY <1>1, SendTyped
<1> HIDE DEF m
<1>3. CASE HasBody(m)
  <2>1. m \in Blocks \cup Headers /\ m.type = "block"
    BY <1>2, <1>3, FrameKinds DEF HasBody
  <2>2. QED
    BY <1>1, <2>1 DEF ReceiverCore, ReceiverHeader, ReadFrame, m
<1>4. CASE ~HasBody(m)
  <2>1. m.type \in {"eot", "can", "noise"} /\ m = Item(m.type)
    BY <1>2, <1>4, FrameKinds
  <2>2. /\ m.type = "eot" => m = Item("eot")
        /\ m.type = "can" => m = Item("can")
        /\ m.type = "noise" => m = Item("noise")
        /\ m.type # "block"
    BY <2>1
  <2>3. CASE rcv.at = "core" /\ ReceiverCore(m)
    <3>1. /\ rcv.at = "core"
          /\ \/ m = Item("eot") /\ Eot /\ toR' = Tail(toR)
             \/ m = Item("can") /\ Failed /\ toR' = Tail(toR) /\ toS' = toS /\ disk' = disk
             \/ m = Item("noise") /\ Retry("NAK", <<>>) /\ toR' = Tail(toR) /\ disk' = disk
      BY <2>2, <2>3 DEF ReceiverCore, Failed, ReceiverFails, ReceiverAt
    <3>2. ReadItem(m)
      BY <3>1 DEF ReadItem
    <3>3. QED
      BY <1>1, <3>2 DEF m
  <2>4. CASE rcv.at = "header" /\ ReceiverHeader(m)
    <3>1. /\ rcv.at = "header" /\ toR' = Tail(toR)
          /\ \/ m = Item("eot") /\ rcv' = [rcv EXCEPT !.at = "done"] /\ Replied("ACK") /\ disk' = disk
             \/ /\ (m = Item("can") \/ m = Item("noise"))
                /\ Failed /\ toS' = toS /\ disk' = disk
      BY <1>4, <2>2, <2>4
         DEF ReceiverHeader, Failed, ReceiverFails, ReceiverAt, Replied, SendS
    <3>2. ReadItem(m)
      BY <3>1 DEF ReadItem
    <3>3. QED
      BY <1>1, <3>2 DEF m
  <2>5. QED
    BY <1>1, <2>3, <2>4 DEF ReceiverCore, ReceiverHeader, m
<1>5. QED
  BY <1>1, <1>3, <1>4 DEF m

LEMMA ReceiverReadsTyped ==
  ASSUME TypeOK, ReceiverReads
  PROVE  TypeOK' /\ Untouched /\ Grown /\ Files' = Files /\ FileCount' = FileCount
<1> DEFINE m == Head(toR)
<1>1. /\ toR # <<>> /\ snd' = snd /\ faults' = faults /\ Untouched
      /\ ReadItem(m) \/ ReadFrame(m)
  BY ReceiverReadsIs
<1>2. /\ rcv \in Receivers /\ toS \in Seq(Replies) /\ disk \in [{Stray} \cup Files -> Seq(Nat)]
      /\ Tail(toR) \in Seq(Frames)
  BY <1>1, SendTyped DEF TypeOK
<1>3. "NAK" \in Replies /\ "ACK" \in Replies
  BY DEF Replies
<1>4. /\ rcv' \in Receivers /\ toR' \in Seq(Frames) /\ toS' \in Seq(Replies)
      /\ disk' \in [{Stray} \cup Files -> Seq(Nat)]
  <2>1. CASE ReadItem(m)
    <3>1. Eot => rcv' \in Receivers /\ toS' \in Seq(Replies) /\ disk' \in [{Stray} \cup Files -> Seq(Nat)]
      BY EotRead
    <3>2. Retry("NAK", <<>>) => rcv' \in Receivers /\ toS' \in Seq(Replies)
      BY <1>3, RetryIs
    <3>3. rcv' = [rcv EXCEPT !.at = "done"] => rcv' \in Receivers
      BY <1>2 DEF Receivers, ReceiverAts
    <3> HIDE DEF m
    <3>4. QED
      BY <1>2, <1>3, <2>1, <3>1, <3>2, <3>3, FailedTyped, RepliedTyped DEF ReadItem
  <2>2. CASE ReadFrame(m)
    <3>1. CASE ReceiveBlock(m)
      BY <1>1, <2>2, <3>1, BlockTyped DEF ReadFrame
    <3>2. CASE ReceiveHeader(m) /\ toR' = Tail(toR)
      BY <1>2, <2>2, <3>2, HeaderBlockTyped DEF ReadFrame
    <3>3. QED
      BY <2>2, <3>1, <3>2 DEF ReadFrame
  <2>3. QED
    BY <1>1, <2>1, <2>2
<1>5. Grown /\ faults' \in [Kinds -> Nat] /\ snd' \in Senders
  BY <1>1, SameFaults DEF TypeOK
<1>6. QED
  BY <1>1, <1>4, <1>5, Kept

\* The receiver's turn after a time-out.
Asked ==
  /\ rcv.at = "core" /\ disk' = disk
  /\ \/ Counted /\ \E b \in {"C", "NAK"} : Replied(b)
     \/ Failed /\ toS' = toS
Gone == rcv.at = "header" /\ Failed /\ toS' = toS

LEMMA ReceiverWaitedIs ==
  ASSUME TypeOK, ReceiverWaited, disk' = disk
  PROVE  (Asked \/ Gone) /\ rcv' \in Receivers /\ toS' \in Seq(Replies)
<1>1. CASE rcv.at = "core"
  <2> DEFINE b == IF rcv.tries + 1 > MaxFallback THEN "NAK" ELSE InitChar
  <2>1. Retry(b, <<>>) /\ b \in {"C", "NAK"} /\ b \in Replies
    BY <1>1 DEF ReceiverWaited, InitChar, Replies
  <2> HIDE DEF b
  <2>2. (Counted /\ Replied(b)) \/ (Failed /\ toS' = toS \o <<>>)
    BY <2>1 DEF Retry, Counted, Replied, Failed, SendS, ReceiverFails, ReceiverAt
  <2>3. toS \o <<>> = toS
    BY ConcatEmptySeq DEF TypeOK
  <2>4. rcv' \in Receivers /\ toS' \in Seq(Replies)
    BY <2>1, RetryIs
  <2>5. QED
    BY <1>1, <2>1, <2>2, <2>3, <2>4 DEF Asked
<1>2. CASE rcv.at = "header"
  <2>1. Failed /\ toS' = toS
    BY <1>2 DEF ReceiverWaited, Failed, ReceiverFails, ReceiverAt
  <2>2. QED
    BY <1>2, <2>1, FailedTyped DEF Gone, TypeOK
<1>3. QED
  BY <1>1, <1>2 DEF ReceiverWaited

LEMMA StepTyped ==
  ASSUME TypeOK, [Next]_vars
  PROVE  TypeOK' /\ Untouched /\ Grown /\ Files' = Files /\ FileCount' = FileCount
<1>0. /\ snd \in Senders /\ rcv \in Receivers /\ toR \in Seq(Frames) /\ toS \in Seq(Replies)
      /\ disk \in [{Stray} \cup Files -> Seq(Nat)] /\ faults \in [Kinds -> Nat]
  BY DEF TypeOK
<1>1. CASE SenderReads
  BY <1>1, SenderReadsTyped
<1>2. CASE ReceiverReads
  BY <1>2, ReceiverReadsTyped
<1>3. CASE SenderTimesOut
  <2>1. Untouched /\ rcv' = rcv /\ toS' = toS /\ disk' = disk /\ faults' = faults /\ SenderWaited
    BY <1>3 DEF SenderTimesOut, Untouched
  <2>2. QED
    BY <1>0, <2>1, SenderWaitedTyped, SameFaults, Kept
<1>4. CASE ReceiverTimesOut
  <2>1. Untouched /\ snd' = snd /\ toR' = toR /\ disk' = disk /\ faults' = faults /\ ReceiverWaited
    BY <1>4 DEF ReceiverTimesOut, Untouched
  <2>2. QED
    BY <1>0, <2>1, ReceiverWaitedIs, SameFaults, Kept
<1>5. CASE Late
  <2>1. /\ Untouched /\ disk' = disk /\ Spend("late")
        /\ \/ SenderWaited /\ rcv' = rcv /\ toS' = toS
           \/ ReceiverWaited /\ snd' = snd /\ toR' = toR
    BY <1>5 DEF Late, Untouched
  <2>2. "late" \in Kinds
    BY DEF Kinds
  <2>3. faults' \in [Kinds -> Nat] /\ Grown
    BY <2>1, <2>2, SpendIs, SpentGrows
  <2>4. snd' \in Senders /\ rcv' \in Receivers /\ toR' \in Seq(Frames) /\ toS' \in Seq(Replies)
    BY <1>0, <2>1, SenderWaitedTyped, ReceiverWaitedIs
  <2>5. disk' \in [{Stray} \cup Files -> Seq(Nat)]
    BY <1>0, <2>1
  <2>6. QED
    BY <2>1, <2>3, <2>4, <2>5, Kept
<1>6. CASE Line
  <2>1. \E kind \in Kinds : Spent(kind)
    BY <1>6, LineIs
       DEF FrameSpoilt, FrameLost, FrameAdded, ReplyGarbled, ReplyLost, ReplyAdded, Kinds
  <2>2. QED
    BY <1>6, <2>1, LineIs, SpentGrows
<1>7. CASE UNCHANGED vars
  <2>1. Untouched /\ snd' = snd /\ rcv' = rcv /\ toR' = toR /\ toS' = toS /\ disk' = disk /\ faults' = faults
    BY <1>7 DEF vars, Untouched
  <2>2. QED
    BY <1>0, <2>1, SameFaults, Kept
<1>8. QED
  BY <1>1, <1>2, <1>3, <1>4, <1>5, <1>6, <1>7 DEF Next


-----------------------------------------------------------------------------
(***************************************************************************)
(* Copies.                                                                 *)
(***************************************************************************)

LEMMA CountIs ==
  ASSUME NEW n \in Nat
  PROVE  Count(n) \in Seq(Nat) /\ Len(Count(n)) = n /\ \A i \in 1..n : Count(n)[i] = i
<1>1. Count(n) \in [1..n -> Nat]
  BY DEF Count
<1>2. Count(n) \in Seq(Nat)
  BY <1>1, SeqDef
<1>3. DOMAIN Count(n) = 1..n /\ DOMAIN Count(n) = 1..Len(Count(n)) /\ Len(Count(n)) \in Nat
  BY <1>2, LenProperties DEF Count
<1>4. Len(Count(n)) = n
  BY <1>3
<1>5. QED
  BY <1>2, <1>4 DEF Count

LEMMA CountNone == Count(0) = <<>>
<1>1. Count(0) \in Seq(Nat) /\ Len(Count(0)) = 0
  BY CountIs
<1>2. QED
  BY <1>1, Empty

LEMMA CountNext ==
  ASSUME NEW n \in Nat
  PROVE  Append(Count(n), n + 1) = Count(n + 1)
<1> DEFINE q == Count(n)
           r == Count(n + 1)
           s == Append(q, n + 1)
<1>1. q \in Seq(Nat) /\ Len(q) = n /\ \A i \in 1..n : q[i] = i
  BY CountIs
<1>2. n + 1 \in Nat
  OBVIOUS
<1>3. r \in Seq(Nat) /\ Len(r) = n + 1 /\ \A i \in 1..n + 1 : r[i] = i
  BY <1>2, CountIs
<1> HIDE DEF q, r
<1>4. s = q \o <<n + 1>>
  BY <1>1, <1>2, Appended
<1>5. s \in Seq(Nat) /\ Len(s) = n + 1 /\ s[n + 1] = n + 1 /\ \A i \in 1..n : s[i] = q[i]
  BY <1>1, <1>2, <1>4, Added
<1> HIDE DEF s
<1>6. \A i \in 1..Len(s) : s[i] = r[i]
  BY <1>1, <1>3, <1>5
<1>7. s = r
  BY <1>3, <1>5, <1>6, SeqEqual
<1>8. QED
  BY <1>7 DEF s, q, r

LEMMA WholeIs ==
  ASSUME NEW f
  PROVE  Whole(f) <=> disk[f] = Count(sizes[f])
BY DEF Whole, Original, Count

\* The beginning of a file is a prefix of it.
LEMMA PrefixIs ==
  ASSUME NEW f, NEW n \in Nat, sizes[f] \in Nat, n <= sizes[f], disk[f] = Count(n)
  PROVE  Prefix(disk[f], Original(f))
<1> DEFINE o == Count(sizes[f])
           q == Count(n)
           r == SubSeq(o, 1, n)
<1>1. Original(f) = o
  BY DEF Original, Count
<1>2. o \in Seq(Nat) /\ Len(o) = sizes[f] /\ \A i \in 1..sizes[f] : o[i] = i
  BY CountIs
<1>3. q \in Seq(Nat) /\ Len(q) = n /\ \A i \in 1..n : q[i] = i
  BY CountIs
<1> HIDE DEF o, q
<1>4. r \in Seq(Nat) /\ Len(r) = n /\ \A i \in 1..n : r[i] = i
  <2>1. CASE n = 0
    <3>1. r = <<>>
      BY <2>1, SubSeqEmpty
    <3>2. QED
      BY <2>1, <3>1, EmptySeq
  <2>2. CASE n > 0
    <3>1. 1 \in 1..Len(o) /\ n \in 1..Len(o)
      BY <1>2, <2>2
    <3>2. r \in Seq(Nat) /\ Len(r) = n /\ \A i \in 1..n : r[i] = o[i]
      BY <1>2, <2>2, <3>1, SubSeqProperties
    <3> HIDE DEF r
    <3>3. \A i \in 1..n : i \in 1..sizes[f]
      OBVIOUS
    <3>4. QED
      BY <1>2, <3>2, <3>3
  <2>3. QED
    BY <2>1, <2>2
<1> HIDE DEF r
<1>5. q = r
  BY <1>3, <1>4, SeqEqual
<1>6. disk[f] = q
  BY DEF q
<1>7. QED
  BY <1>1, <1>2, <1>3, <1>5, <1>6 DEF Prefix, r

LEMMA SizedWhole ==
  ASSUME TypeOK, NEW f \in Files, Whole(f)
  PROVE  Sized(f) = disk[f]
<1>1. sizes[f] \in Nat /\ disk[f] = Count(sizes[f])
  BY WholeIs DEF TypeOK
<1>2. Len(disk[f]) = sizes[f] /\ \A i \in 1..sizes[f] : disk[f][i] = i
  BY <1>1, CountIs
<1>3. Sized(f) = [i \in 1..sizes[f] |-> i]
  BY <1>2 DEF Sized
<1>4. QED
  BY <1>1, <1>3 DEF Count

LEMMA SameCopies ==
  ASSUME Untouched, disk' = disk
  PROVE  /\ Files' = Files /\ FileCount' = FileCount
         /\ \A f : sizes'[f] = sizes[f] /\ disk'[f] = disk[f] /\ (Whole(f)' <=> Whole(f))
         /\ \A g : Before(g)' <=> Before(g)
BY DEF Untouched, Files, FileCount, Whole, Original, Before

\* The copy of a file that is not being written stays whole.
LEMMA BeforeNext ==
  ASSUME TypeOK, NEW f \in Files, Before(f), Whole(f)
  PROVE  Before(f + 1)
<1>1. \A g \in Files : g < f + 1 => g < f \/ g = f
  BY DEF TypeOK
<1>2. QED
  BY <1>1 DEF Before

LEMMA BeforeLess ==
  ASSUME TypeOK, NEW f \in Files, Before(f + 1)
  PROVE  Before(f) /\ Whole(f)
<1>1. \A g \in Files : (g < f => g < f + 1) /\ f < f + 1
  BY DEF TypeOK
<1>2. QED
  BY <1>1 DEF Before

LEMMA AllBefore ==
  ASSUME TypeOK, Before(FileCount + 1)
  PROVE  \A f \in Files : Whole(f)
<1>1. \A f \in Files : f < FileCount + 1
  BY DEF TypeOK
<1>2. QED
  BY <1>1 DEF Before


-----------------------------------------------------------------------------
(***************************************************************************)
(* The parts of a step of the sender.                                      *)
(***************************************************************************)

LEMMA SentOne ==
  ASSUME TypeOK, NEW m \in Frames, SendR(<<m>>)
  PROVE  /\ Len(toR) \in Nat /\ Len(toR') = Len(toR) + 1 /\ toR'[Len(toR) + 1] = m
         /\ \A p \in 1..Len(toR) : toR'[p] = toR[p]
<1>1. toR \in Seq(Frames) /\ toR' = toR \o <<m>>
  BY DEF TypeOK, SendR
<1>2. Len(toR) \in Nat
  BY <1>1, Empty
<1>3. QED
  BY <1>1, <1>2, Added

LEMMA HeadTaken ==
  ASSUME TypeOK, SenderReads
  PROVE  /\ Len(toS) \in Nat \ {0} /\ Head(toS) = toS[1] /\ toS[1] \in Replies
         /\ Len(toS') = Len(toS) - 1 /\ \A p \in 1..Len(toS) - 1 : toS'[p] = toS[p + 1]
         /\ rcv' = rcv /\ disk' = disk /\ faults' = faults /\ Untouched
<1>1. toS # <<>> /\ toS' = Tail(toS) /\ toS \in Seq(Replies)
  BY DEF SenderReads, TypeOK
<1>2. QED
  BY <1>1, Taken DEF SenderReads, Untouched

LEMMA SenderAtIs ==
  ASSUME TypeOK, NEW a \in SenderAts, SenderAt(a)
  PROVE  /\ snd'.at = a /\ snd'.file = snd.file /\ snd'.block = snd.block /\ snd'.crc = snd.crc
         /\ snd'.tries = snd.tries /\ snd'.again = snd.again
BY DEF TypeOK, SenderAt, Senders

LEMMA TriedIs ==
  ASSUME TypeOK, snd' = [snd EXCEPT !.tries = @ + 1]
  PROVE  /\ snd'.at = snd.at /\ snd'.file = snd.file /\ snd'.block = snd.block /\ snd'.crc = snd.crc
         /\ snd'.again = snd.again
BY DEF TypeOK, Senders

LEMMA OfferIs ==
  ASSUME TypeOK, NEW f \in Files, NEW k \in Nat \ {0}, NEW c \in BOOLEAN, Offer(f, k, c)
  PROVE  /\ snd'.at = IF k > sizes[f] THEN "eot" ELSE "data"
         /\ snd'.file = f /\ snd'.block = k /\ snd'.crc = c /\ snd'.tries = 0 /\ snd'.again = snd.again
         /\ Len(toR) \in Nat /\ Len(toR') = Len(toR) + 1
         /\ toR'[Len(toR) + 1] = IF k > sizes[f] THEN Item("eot") ELSE BlockFrame(k, c)
         /\ \A p \in 1..Len(toR) : toR'[p] = toR[p]
         /\ BlockFrame(k, c) \in Blocks /\ BlockFrame(k, c).body = k
<1>1. /\ snd'.at = IF k > sizes[f] THEN "eot" ELSE "data"
      /\ snd'.file = f /\ snd'.block = k /\ snd'.crc = c /\ snd'.tries = 0 /\ snd'.again = snd.again
  BY DEF TypeOK, Senders, Offer
<1> DEFINE m == IF k > sizes[f] THEN Item("eot") ELSE BlockFrame(k, c)
<1>2. m \in Frames /\ BlockFrame(k, c) \in Blocks
  BY FramesAre
<1>3. SendR(<<m>>)
  BY DEF Offer
<1>4. BlockFrame(k, c).body = k
  BY DEF BlockFrame
<1> HIDE DEF m
<1>5. Len(toR) \in Nat /\ Len(toR') = Len(toR) + 1 /\ toR'[Len(toR) + 1] = m
      /\ \A p \in 1..Len(toR) : toR'[p] = toR[p]
  BY <1>2, <1>3, SentOne
<1>6. QED
  BY <1>1, <1>2, <1>4, <1>5 DEF m

-----------------------------------------------------------------------------
(***************************************************************************)
(* The sender's steps over a paced line.                                   *)
(***************************************************************************)

\* The copies before the file that is being sent are still whole.
LEMMA BeforeStays ==
  ASSUME Untouched, disk' = disk, NEW f \in Nat, snd'.file = f
  PROVE  /\ Before(f) => Before(snd.file)'
         /\ Before(f + 1) => Before(snd.file + 1)'
<1>1. Before(f) => Before(snd.file)'
  BY DEF Before, Whole, Original, Untouched, Files
<1>2. Before(f + 1) => Before(snd.file + 1)'
  BY DEF Before, Whole, Original, Untouched, Files
<1>3. QED
  BY <1>1, <1>2

\* The first EOT of a file.
LEMMA EotBegun ==
  ASSUME TypeOK, Untouched, rcv' = rcv, disk' = disk, faults' = faults, NEW f \in Files,
         snd'.at = "eot", snd'.file = f, snd'.tries = 0, Before(f + 1),
         rcv.at \in {"core", "failed"}, rcv.at = "core" => rcv.file = f,
         Len(toS') = 0, Len(toR') = 1, toR'[1] = Item("eot")
  PROVE  Phases'
<1>1. f \in Nat /\ faults["lose"] \in Nat
  BY DEF TypeOK, Kinds
<1>2. Before(snd.file + 1)'
  BY <1>1, BeforeStays
<1>3. snd'.file \in Files' /\ snd'.tries < MaxEots
  BY TriesAssumption DEF Untouched, Files
<1>4. OnlyEots' /\ NoAck'
  BY DEF OnlyEots, NoAck
<1>5. faults'["lose"] + Len(toR') >= snd'.tries + 1
  BY <1>1
<1>6. rcv'.at \in {"core", "failed"} /\ (rcv'.at = "core" => rcv'.file = snd'.file)
      /\ Len(toS') + Len(toR') <= 1 /\ Len(toS') <= 2
  OBVIOUS
<1>7. AtEot'
  BY <1>2, <1>3, <1>4, <1>5, <1>6 DEF AtEot
<1>8. QED
  BY <1>7 DEF Phases

\* A block is sent, for the first time or once more.
LEMMA BlockBegun ==
  ASSUME TypeOK, Untouched, rcv' = rcv, disk' = disk, NEW f \in Files, NEW k \in Nat,
         snd'.at = "data", snd'.file = f, snd'.block = k, k <= sizes[f], Before(f),
         rcv.at # "header",
         rcv.at = "core" =>
           /\ rcv.file = f /\ rcv.expected \in {k, k + 1}
           /\ Len(toS') = 0 /\ Len(toR') = 1 /\ BlockOf(k, toR'[1]),
         rcv.at \in Ended => NoAck'
  PROVE  Phases'
<1>1. f \in Nat
  BY DEF TypeOK
<1>2. Before(snd.file)'
  BY <1>1, BeforeStays
<1>3. snd'.file \in Files' /\ snd'.block <= sizes'[snd'.file]
  BY DEF Untouched, Files
<1>4. rcv'.at = "core" => BlockOf(snd.block, toR[1])'
  BY DEF BlockOf, Blocks
<1>5. AtData'
  BY <1>2, <1>3, <1>4 DEF AtData
<1>6. QED
  BY <1>5 DEF Phases

LEMMA FailsSafe ==
  ASSUME snd'.at = "failed",
         rcv'.at \notin Ended => \A i \in 1..Len(toR') : toR'[i] = Item("can")
  PROVE  Phases'
BY DEF Phases, AtFailed

LEMMA InitKeeps ==
  ASSUME TypeOK, Copied, AtInit, SenderReads, SenderInit(Head(toS)), snd.at = "init"
  PROVE  Phases' /\ snd'.again = snd.again
<1> DEFINE b == Head(toS)
<1>1. /\ Len(toS) \in Nat \ {0} /\ Len(toS') = Len(toS) - 1
      /\ rcv' = rcv /\ disk' = disk /\ faults' = faults /\ Untouched
  BY HeadTaken
<1>2. ~batch /\ Len(toR) = 0 /\ Len(toS') = 0 /\ rcv.at \in {"core", "failed"}
      /\ rcv.file = 1 /\ rcv.expected = 1 /\ disk[1] = Count(0)
  BY <1>1 DEF AtInit
<1>3. 1 \in Files /\ Files = {1} /\ sizes[1] \in Nat
  BY <1>2 DEF TypeOK
<1>4. Before(1)
  BY <1>3 DEF Before
<1>6. CASE b \in {"C", "NAK"}
  <2> DEFINE c == b = "C"
  <2>1. Offer(1, 1, c) /\ c \in BOOLEAN /\ 1 \in Nat \ {0}
    BY <1>6 DEF SenderInit
  <2> HIDE DEF b, c
  <2>2. /\ snd'.at = IF 1 > sizes[1] THEN "eot" ELSE "data"
        /\ snd'.file = 1 /\ snd'.block = 1 /\ snd'.tries = 0 /\ snd'.again = snd.again
        /\ Len(toR') = Len(toR) + 1
        /\ toR'[Len(toR) + 1] = IF 1 > sizes[1] THEN Item("eot") ELSE BlockFrame(1, c)
        /\ BlockFrame(1, c) \in Blocks /\ BlockFrame(1, c).body = 1
    BY <1>3, <2>1, OfferIs
  <2>3. CASE 1 > sizes[1]
    <3>1. sizes[1] = 0 /\ Whole(1)
      BY <1>2, <1>3, <2>3, WholeIs
    <3>2. Before(1 + 1)
      BY <1>3, <3>1 DEF Before
    <3>3. toR'[1] = Item("eot") /\ Len(toR') = 1 /\ snd'.at = "eot"
      BY <1>2, <2>2, <2>3
    <3>4. QED
      BY <1>1, <1>2, <1>3, <2>2, <3>2, <3>3, EotBegun
  <2>4. CASE ~ (1 > sizes[1])
    <3>1. toR'[1] = BlockFrame(1, c) /\ Len(toR') = 1 /\ snd'.at = "data" /\ 1 <= sizes[1]
      BY <1>2, <1>3, <2>2, <2>4
    <3>2. BlockOf(1, toR'[1]) /\ NoAck' /\ rcv.at # "header" /\ 1 \in Nat /\ rcv.expected \in {1, 1 + 1}
      BY <1>2, <2>2, <3>1 DEF BlockOf, NoAck
    <3>3. QED
      BY <1>1, <1>2, <1>3, <1>4, <2>2, <3>1, <3>2, BlockBegun
  <2>5. QED
    BY <2>3, <2>4
<1>7. CASE b \notin {"C", "NAK"}
  <2>1. SenderAt("failed") /\ toR' = toR /\ "failed" \in SenderAts
    BY <1>7 DEF SenderInit, SenderFails, Quietly, SenderAts
  <2>2. snd'.at = "failed" /\ snd'.again = snd.again
    BY <2>1, SenderAtIs
  <2>3. QED
    BY <1>2, <2>1, <2>2, FailsSafe
<1>8. QED
  BY <1>6, <1>7

LEMMA DataKeeps ==
  ASSUME TypeOK, Copied, AtData, SenderReads, SenderData(Head(toS)), snd.at = "data"
  PROVE  Phases' /\ snd'.again = snd.again
<1> DEFINE b == Head(toS)
<1>0. PICK f \in Files, k \in Nat \ {0} : f = snd.file /\ k = snd.block
  BY Typed DEF AtData
<1>1. /\ Len(toS) \in Nat \ {0} /\ Len(toS') = Len(toS) - 1 /\ b = toS[1]
      /\ \A p \in 1..Len(toS) - 1 : toS'[p] = toS[p + 1]
      /\ rcv' = rcv /\ disk' = disk /\ faults' = faults /\ Untouched
  BY HeadTaken
<1>2. /\ k <= sizes[f] /\ Before(f) /\ rcv.at # "header"
      /\ rcv.at = "core" =>
           /\ rcv.file = f /\ rcv.expected \in {k, k + 1} /\ Len(toR) = 0 /\ Len(toS') = 0
           /\ b = "ACK" => rcv.expected = k + 1
      /\ rcv.at \in Ended => b # "ACK" /\ NoAck'
  <2>1. k <= sizes[f] /\ Before(f) /\ rcv.at # "header"
    BY <1>0 DEF AtData
  <2>2. rcv.at = "core" =>
           /\ rcv.file = f /\ rcv.expected \in {k, k + 1} /\ Len(toR) = 0 /\ Len(toS') = 0
           /\ b = "ACK" => rcv.expected = k + 1
    BY <1>0, <1>1 DEF AtData
  <2>3. rcv.at \in Ended => b # "ACK" /\ NoAck'
    BY <1>0, <1>1 DEF AtData, NoAck
  <2>4. QED
    BY <2>1, <2>2, <2>3
<1>3. k + 1 \in Nat \ {0} /\ sizes[f] \in Nat /\ snd.crc \in BOOLEAN /\ f \in Nat
      /\ rcv.at \in {"core", "header", "done", "failed"}
  BY Typed DEF TypeOK, ReceiverAts
<1> HIDE DEF b
<1>5. CASE b = "ACK"
  <2>1. Offer(f, k + 1, snd.crc)
    BY <1>0, <1>5 DEF SenderData, b
  <2>2. rcv.at = "core" /\ rcv.file = f /\ rcv.expected = k + 1 /\ Len(toR) = 0 /\ Len(toS') = 0
    BY <1>2, <1>3, <1>5 DEF Ended
  <2>3. /\ snd'.at = IF k + 1 > sizes[f] THEN "eot" ELSE "data"
        /\ snd'.file = f /\ snd'.block = k + 1 /\ snd'.tries = 0 /\ snd'.again = snd.again
        /\ Len(toR') = Len(toR) + 1
        /\ toR'[Len(toR) + 1] = IF k + 1 > sizes[f] THEN Item("eot") ELSE BlockFrame(k + 1, snd.crc)
        /\ BlockFrame(k + 1, snd.crc) \in Blocks /\ BlockFrame(k + 1, snd.crc).body = k + 1
    BY <1>2, <1>3, <2>1, OfferIs
  <2>4. CASE k + 1 > sizes[f]
    <3>1. sizes[f] = k /\ disk[f] = Count(k)
      <4>1. disk[f] = Count(rcv.expected - 1) /\ rcv.expected - 1 = k
        BY <2>2 DEF Copied
      <4>2. QED
        BY <1>2, <1>3, <2>4, <4>1
    <3>2. Whole(f)
      BY <3>1, WholeIs
    <3>3. Before(f + 1)
      BY <1>2, <3>2, BeforeNext
    <3>4. toR'[1] = Item("eot") /\ Len(toR') = 1 /\ snd'.at = "eot"
      BY <2>2, <2>3, <2>4
    <3>5. QED
      BY <1>1, <2>2, <2>3, <3>3, <3>4, EotBegun
  <2>5. CASE ~ (k + 1 > sizes[f])
    <3>1. toR'[1] = BlockFrame(k + 1, snd.crc) /\ Len(toR') = 1 /\ snd'.at = "data" /\ k + 1 <= sizes[f]
      BY <1>3, <2>2, <2>3, <2>5
    <3>2. BlockOf(k + 1, toR'[1]) /\ NoAck' /\ rcv.at # "header" /\ k + 1 \in Nat
          /\ rcv.expected \in {k + 1, k + 1 + 1}
      BY <1>3, <2>2, <2>3, <3>1 DEF BlockOf, NoAck
    <3>3. QED
      BY <1>1, <1>2, <2>2, <2>3, <3>1, <3>2, BlockBegun
  <2>6. QED
    BY <2>4, <2>5
<1>6. CASE b # "ACK"
  <2>1. \/ SenderAt("failed") /\ toR' = toR
        \/ SenderAt("failed") /\ SendR(<<Item("can")>>)
        \/ snd' = [snd EXCEPT !.tries = @ + 1] /\ SendR(<<BlockFrame(k, snd.crc)>>)
    BY <1>0, <1>6 DEF SenderData, SenderFails, Quietly, b
  <2>2. CASE SenderAt("failed") /\ (toR' = toR \/ SendR(<<Item("can")>>))
    <3>1. snd'.at = "failed" /\ snd'.again = snd.again
      BY <2>2, SenderAtIs DEF SenderAts
    <3>2. rcv.at = "core" => \A i \in 1..Len(toR') : toR'[i] = Item("can")
      <4>1. CASE toR' = toR
        BY <1>2, <4>1
      <4>2. CASE SendR(<<Item("can")>>)
        <5>1. Len(toR') = Len(toR) + 1 /\ toR'[Len(toR) + 1] = Item("can")
          BY <4>2, SentOne, FramesAre
        <5>2. QED
          BY <1>2, <5>1
      <4>3. QED
        BY <2>2, <4>1, <4>2
    <3>3. rcv'.at \notin Ended => rcv.at = "core"
      BY <1>1, <1>2, <1>3 DEF Ended
    <3>4. QED
      BY <3>1, <3>2, <3>3, FailsSafe
  <2>3. CASE snd' = [snd EXCEPT !.tries = @ + 1] /\ SendR(<<BlockFrame(k, snd.crc)>>)
    <3>1. snd'.at = "data" /\ snd'.file = f /\ snd'.block = k /\ snd'.again = snd.again
      BY <1>0, <2>3, TriedIs
    <3>2. BlockFrame(k, snd.crc) \in Blocks /\ BlockFrame(k, snd.crc).body = k
      BY <1>3, FramesAre DEF BlockFrame
    <3>3. Len(toR') = Len(toR) + 1 /\ toR'[Len(toR) + 1] = BlockFrame(k, snd.crc)
      BY <2>3, <3>2, SentOne, FramesAre
    <3>4. BlockOf(k, toR'[Len(toR) + 1])
      BY <3>2, <3>3 DEF BlockOf
    <3>5. rcv.at = "core" =>
            /\ rcv.file = f /\ rcv.expected \in {k, k + 1}
            /\ Len(toS') = 0 /\ Len(toR') = 1 /\ BlockOf(k, toR'[1])
      BY <1>2, <3>3, <3>4
    <3>6. QED
      BY <1>1, <1>2, <3>1, <3>5, BlockBegun
  <2>4. QED
    BY <2>1, <2>2, <2>3
<1>7. QED
  BY <1>5, <1>6


\* The sender took the reply it waited for, or nothing can come any more.
Turn(answered) ==
  \/ Len(toS) >= 1 /\ Len(toS') = Len(toS) - 1 /\ (NoAck => NoAck' /\ ~answered)
  \/ /\ Len(toS) = 0 /\ Len(toS') = 0 /\ NoAck' /\ ~answered
     /\ Len(toR) = 0 \/ rcv.at \in Ended

LEMMA EotKeeps ==
  ASSUME TypeOK, Paced, AtEot, snd.at = "eot", NEW answered \in BOOLEAN, SenderEot(answered),
         Turn(answered), rcv' = rcv, disk' = disk, faults' = faults, Untouched
  PROVE  Phases' /\ snd'.again \in {snd.again, TRUE}
<1>0. PICK f \in Files, t \in Nat : f = snd.file /\ t = snd.tries
  BY Typed DEF AtEot
<1>1. /\ Len(toS) \in Nat /\ Len(toR) \in Nat /\ faults["lose"] \in Nat /\ f \in Nat /\ MaxEots \in Nat
      /\ rcv.at \in {"core", "header", "done", "failed"} /\ snd.again \in BOOLEAN
      /\ FileCount \in Nat /\ f <= FileCount /\ (~batch => FileCount = 1)
  BY Typed, Empty, TriesAssumption DEF TypeOK, Kinds, ReceiverAts
<1>2. Before(f + 1) /\ (~snd.again => t = 0)
  BY <1>0 DEF AtEot
<1>3. rcv.at = "core" =>
        /\ rcv.file = f /\ Len(toS) + Len(toR) <= 1 /\ OnlyEots /\ NoAck
        /\ faults["lose"] + Len(toR) >= t + 1
  BY <1>0 DEF AtEot
<1>4. rcv.at = "header" =>
        batch /\ OnlyEots /\ Len(toS) + Len(toR) <= 2 /\ (~snd.again => Len(toR) = 0)
  BY DEF AtEot
<1>5. rcv.at \in Ended => Len(toS) <= 2
  BY DEF AtEot
<1>6. FileCount' = FileCount /\ Files' = Files /\ batch' = batch
  BY DEF Untouched, FileCount, Files
<1>7. faults["lose"] < MaxEots
  BY DEF Paced
<1>8. Len(toS') \in Nat
  BY <1>1 DEF Turn
<1>a. CASE answered \/ snd.tries + 1 >= MaxEots
  <2>1. FileSent /\ toR' = toR
    BY <1>a DEF SenderEot, Quietly
  <2>2. rcv.at = "core" => ~answered /\ Len(toR) = 0
    BY <1>1, <1>3 DEF Turn, Ended
  <2>3. rcv.at # "core"
    BY <1>0, <1>1, <1>3, <1>7, <1>a, <2>2
  <2> DEFINE a == CASE ~batch                                 -> "done"
                    [] batch /\ snd.file < Cardinality(Files) -> "ask"
                    [] OTHER                                  -> "askend"
  <2>4. snd' = [snd EXCEPT !.file = @ + 1, !.at = a]
    BY <2>1 DEF FileSent
  <2> HIDE DEF a
  <2>5. snd'.at = a /\ snd'.file = f + 1 /\ snd'.again = snd.again
    BY <1>0, <2>4 DEF TypeOK, Senders
  <2>6. Before(snd.file)'
    <3>1. f + 1 \in Nat
      BY <1>1
    <3>2. QED
      BY <1>2, <2>5, <3>1, BeforeStays
  <2>7. OnlyEots' <=> OnlyEots
    BY <2>1 DEF OnlyEots
  <2>8. CASE ~batch
    <3>1. a = "done" /\ f = 1 /\ FileCount = 1
      BY <1>1, <2>8 DEF a, TypeOK
    <3>2. rcv.at \notin {"core", "header"}
      BY <1>4, <2>3, <2>8
    <3>3. AtEnd'
      BY <1>6, <2>5, <2>6, <3>1, <3>2 DEF AtEnd
    <3>4. QED
      BY <2>5, <3>1, <3>3 DEF Phases
  <2>9. CASE batch /\ f < FileCount
    <3>1. a = "ask"
      BY <1>0, <2>9 DEF a, FileCount
    <3>2. snd'.file \in Files'
      BY <1>1, <1>6, <2>5, <2>9 DEF TypeOK
    <3>3. rcv'.at = "header" =>
            OnlyEots' /\ Len(toS') + Len(toR') <= 1 /\ (~snd'.again => Len(toR') = 0)
      BY <1>1, <1>4, <2>1, <2>5, <2>7 DEF Turn, Ended
    <3>4. rcv'.at \in Ended => Len(toS') <= 1
      BY <1>1, <1>5 DEF Turn
    <3>5. AtAsk'
      BY <1>6, <2>3, <2>6, <2>9, <3>2, <3>3, <3>4 DEF AtAsk
    <3>6. QED
      BY <2>5, <3>1, <3>5 DEF Phases
  <2>10. CASE batch /\ ~ (f < FileCount)
    <3>1. a = "askend" /\ f = FileCount
      BY <1>0, <1>1, <2>10 DEF a, FileCount
    <3>2. rcv'.at = "header" => OnlyEots'
      BY <1>4, <2>7
    <3>3. snd'.file = FileCount' + 1 /\ rcv'.at # "core"
      BY <1>6, <2>3, <2>5, <3>1
    <3>4. AtAskEnd'
      BY <1>6, <2>6, <2>10, <3>2, <3>3 DEF AtAskEnd
    <3>5. QED
      BY <2>5, <3>1, <3>4 DEF Phases
  <2>11. QED
    BY <2>8, <2>9, <2>10
<1>b. CASE ~ (answered \/ snd.tries + 1 >= MaxEots)
  <2>1. snd' = [snd EXCEPT !.tries = @ + 1, !.again = TRUE] /\ SendR(<<Item("eot")>>)
    BY <1>b DEF SenderEot
  <2>2. snd'.at = "eot" /\ snd'.file = f /\ snd'.tries = t + 1 /\ snd'.again = TRUE
    BY <1>0, <2>1 DEF TypeOK, Senders
  <2>3. Len(toR') = Len(toR) + 1 /\ toR'[Len(toR) + 1] = Item("eot")
        /\ \A p \in 1..Len(toR) : toR'[p] = toR[p]
    BY <2>1, SentOne, FramesAre
  <2>4. OnlyEots => OnlyEots'
    <3>1. \A p \in 1..Len(toR') : p \in 1..Len(toR) \/ p = Len(toR) + 1
      BY <1>1, <2>3
    <3>2. QED
      BY <2>3, <3>1 DEF OnlyEots
  <2>5. Before(snd.file + 1)'
    BY <1>1, <1>2, <2>2, BeforeStays
  <2>6. rcv'.at = "core" =>
          /\ rcv'.file = snd'.file /\ Len(toS') + Len(toR') <= 1 /\ OnlyEots' /\ NoAck'
          /\ faults'["lose"] + Len(toR') >= snd'.tries + 1
    BY <1>1, <1>3, <2>2, <2>3, <2>4 DEF Turn, Ended
  <2>7. rcv'.at = "header" => batch' /\ OnlyEots' /\ Len(toS') + Len(toR') <= 2
    BY <1>1, <1>4, <1>6, <2>3, <2>4 DEF Turn, Ended
  <2>8. rcv'.at \in Ended => Len(toS') <= 2
    BY <1>1, <1>5 DEF Turn
  <2>9. snd'.file \in Files' /\ snd'.tries < MaxEots /\ snd'.again
    BY <1>0, <1>1, <1>6, <1>b, <2>2
  <2>10. AtEot'
    BY <2>5, <2>6, <2>7, <2>8, <2>9 DEF AtEot
  <2>11. QED
    BY <2>2, <2>10 DEF Phases
<1>c. QED
  BY <1>a, <1>b


\* The end of the sender's last file.
LEMMA EndKeeps ==
  ASSUME TypeOK, Untouched, rcv' = rcv, disk' = disk, toR' = toR, snd'.at \in {"ended", "done"},
         snd'.file = snd.file, AtEnd
  PROVE  Phases'
<1>1. snd.file \in Nat
  BY Typed
<1>2. PICK f \in Nat : f = snd.file
  BY <1>1
<1>3. Before(f) /\ f = FileCount + 1
  BY <1>2 DEF AtEnd
<1>4. Before(snd.file)'
  BY <1>2, <1>3, BeforeStays
<1>5. FileCount' = FileCount /\ batch' = batch
  BY DEF Untouched, FileCount, Files
<1>6. rcv'.at = "core" => ~batch' /\ OnlyEots'
  BY <1>5 DEF AtEnd, OnlyEots
<1>7. rcv'.at = "header" =>
        \A i \in 1..Len(toR') : toR'[i] = Item("eot") \/ HeaderOf(0, toR'[i])
  BY DEF AtEnd
<1>8. rcv'.at = "header" =>
        (\A i \in 1..Len(toR) : toR[i] = Item("eot") \/ HeaderOf(0, toR[i]))'
  BY <1>7 DEF HeaderOf, Headers
<1>9. AtEnd'
  BY <1>2, <1>3, <1>4, <1>5, <1>6, <1>8 DEF AtEnd
<1>10. QED
  BY <1>9 DEF Phases

\* A header of a batch is sent, and answered.
LEMMA AskKeeps ==
  ASSUME TypeOK, AtAsk, SenderReads, SenderHeader(Head(toS)), snd.at = "ask"
  PROVE  Phases' /\ snd'.again = snd.again
<1> DEFINE b == Head(toS)
<1>0. PICK f \in Files : f = snd.file
  BY DEF AtAsk
<1>1. /\ Len(toS) \in Nat \ {0} /\ Len(toS') = Len(toS) - 1 /\ Len(toR) \in Nat
      /\ rcv' = rcv /\ disk' = disk /\ faults' = faults /\ Untouched /\ f \in Nat
      /\ rcv.at \in {"core", "header", "done", "failed"}
  BY HeadTaken, Typed, Empty DEF TypeOK, ReceiverAts
<1>2. /\ batch /\ Before(f) /\ rcv.at # "core"
      /\ rcv.at = "header" => Len(toR) = 0 /\ Len(toS') = 0
      /\ rcv.at \in Ended => Len(toS') = 0
  BY <1>0, <1>1 DEF AtAsk
<1>3. CASE b = "C"
  <2>1. SenderAt("headed") /\ SendR(<<HeaderFrame(f)>>) /\ "headed" \in SenderAts
    BY <1>0, <1>3 DEF SenderHeader, SenderAts
  <2>2. snd'.at = "headed" /\ snd'.file = f /\ snd'.again = snd.again
    BY <1>0, <2>1, SenderAtIs
  <2>3. HeaderFrame(f) \in Headers /\ HeaderFrame(f) \in Frames /\ HeaderFrame(f).file = f
    BY <1>1, FramesAre DEF HeaderFrame
  <2>4. Len(toR') = Len(toR) + 1 /\ toR'[Len(toR) + 1] = HeaderFrame(f)
    BY <2>1, <2>3, SentOne
  <2>5. rcv'.at = "header" => Len(toS') = 0 /\ Len(toR') = 1 /\ HeaderOf(snd.file, toR[1])'
    <3>1. rcv'.at = "header" => Len(toS') = 0 /\ Len(toR') = 1 /\ toR'[1] = HeaderFrame(f)
      <4>1. rcv'.at = "header" => Len(toS') = 0 /\ Len(toR) = 0
        BY <1>1, <1>2
      <4>2. Len(toR) = 0 => Len(toR) + 1 = 1
        OBVIOUS
      <4>3. QED
        BY <2>4, <4>1, <4>2
    <3>2. toR'[1] = HeaderFrame(f) => toR'[1] \in Headers /\ toR'[1].file = snd'.file
      BY <2>2, <2>3
    <3>3. HeaderOf(snd.file, toR[1])' <=> toR'[1] \in Headers /\ toR'[1].file = snd'.file
      BY DEF HeaderOf, Headers
    <3>4. QED
      BY <3>1, <3>2, <3>3
  <2>6. Before(snd.file)'
    BY <1>1, <1>2, <2>2, BeforeStays
  <2>7. batch' /\ snd'.file \in Files' /\ rcv'.at # "core"
    BY <1>1, <1>2, <2>2 DEF Untouched, Files
  <2>8. rcv'.at \in Ended => NoAck'
    BY <1>1, <1>2 DEF NoAck
  <2>9. AtHeaded'
    BY <2>5, <2>6, <2>7, <2>8 DEF AtHeaded
  <2>10. QED
    BY <2>2, <2>9 DEF Phases
<1>4. CASE b # "C"
  <2>1. SenderAt("failed") /\ toR' = toR /\ "failed" \in SenderAts
    BY <1>4 DEF SenderHeader, SenderFails, Quietly, SenderAts
  <2>2. snd'.at = "failed" /\ snd'.again = snd.again
    BY <2>1, SenderAtIs
  <2>3. rcv'.at \notin Ended => \A i \in 1..Len(toR') : toR'[i] = Item("can")
    BY <1>1, <1>2, <2>1 DEF Ended
  <2>4. QED
    BY <2>2, <2>3, FailsSafe
<1>5. QED
  BY <1>3, <1>4

LEMMA HeadedKeeps ==
  ASSUME TypeOK, AtHeaded, SenderReads, SenderHeader(Head(toS)), snd.at = "headed"
  PROVE  Phases' /\ snd'.again = snd.again
<1> DEFINE b == Head(toS)
<1>0. PICK f \in Files : f = snd.file
  BY DEF AtHeaded
<1>1. /\ Len(toS) \in Nat \ {0} /\ Len(toS') = Len(toS) - 1 /\ Len(toR) \in Nat /\ b = toS[1]
      /\ \A p \in 1..Len(toS) - 1 : toS'[p] = toS[p + 1]
      /\ rcv' = rcv /\ disk' = disk /\ faults' = faults /\ Untouched /\ f \in Nat
      /\ rcv.at \in {"core", "header", "done", "failed"}
  BY HeadTaken, Typed, Empty DEF TypeOK, ReceiverAts
<1>2. toR' = toR
  BY DEF SenderHeader, Quietly
<1>3. batch /\ Before(f)
  BY <1>0 DEF AtHeaded
<1>4. rcv.at = "header" => Len(toR) = 0 /\ NoAck
  BY <1>1 DEF AtHeaded
<1>5. rcv.at = "core" =>
        /\ rcv.file = f /\ rcv.expected = 1
        /\ Len(toR) = 0 /\ Len(toS) <= 2 /\ (Len(toS) = 2 => toS[2] # "ACK")
  BY <1>0 DEF AtHeaded
<1>6. rcv.at \in Ended => NoAck
  BY DEF AtHeaded
<1>7. CASE b = "ACK"
  <2>1. SenderAt("asked") /\ "asked" \in SenderAts
    BY <1>7 DEF SenderHeader, SenderAts
  <2>2. snd'.at = "asked" /\ snd'.file = f /\ snd'.again = snd.again
    BY <1>0, <2>1, SenderAtIs
  <2>3. rcv.at = "core"
    BY <1>1, <1>4, <1>6, <1>7 DEF NoAck, Ended
  <2>4. NoAck'
    <3>1. ASSUME NEW i \in 1..Len(toS') PROVE toS'[i] # "ACK"
      <4>1. i = 1 /\ Len(toS) = 2
        BY <1>1, <1>5, <2>3
      <4>2. QED
        BY <1>1, <1>5, <2>3, <4>1
    <3>2. QED
      BY <3>1 DEF NoAck
  <2>5. Before(snd.file)'
    BY <1>1, <1>3, <2>2, BeforeStays
  <2>6. batch' /\ snd'.file \in Files'
    BY <1>1, <1>3, <2>2 DEF Untouched, Files
  <2>7. /\ rcv'.at = "core" /\ rcv'.file = snd'.file /\ rcv'.expected = 1
        /\ Len(toR') = 0 /\ Len(toS') <= 1
    BY <1>1, <1>2, <1>5, <2>2, <2>3
  <2>8. AtAsked'
    BY <2>4, <2>5, <2>6, <2>7 DEF AtAsked, Ended
  <2>9. QED
    BY <2>2, <2>8 DEF Phases
<1>8. CASE b # "ACK"
  <2>1. SenderAt("failed") /\ "failed" \in SenderAts
    BY <1>8 DEF SenderHeader, SenderFails, SenderAts
  <2>2. snd'.at = "failed" /\ snd'.again = snd.again
    BY <2>1, SenderAtIs
  <2>3. rcv'.at \notin Ended => \A i \in 1..Len(toR') : toR'[i] = Item("can")
    BY <1>1, <1>2, <1>4, <1>5 DEF Ended
  <2>4. QED
    BY <2>2, <2>3, FailsSafe
<1>9. QED
  BY <1>7, <1>8

LEMMA AskedKeeps ==
  ASSUME TypeOK, Copied, AtAsked, SenderReads, SenderHeader(Head(toS)), snd.at = "asked"
  PROVE  Phases' /\ snd'.again = snd.again
<1> DEFINE b == Head(toS)
<1>0. PICK f \in Files : f = snd.file
  BY DEF AtAsked
<1>1. /\ Len(toS) \in Nat \ {0} /\ Len(toS') = Len(toS) - 1 /\ Len(toR) \in Nat
      /\ rcv' = rcv /\ disk' = disk /\ faults' = faults /\ Untouched /\ f \in Nat /\ sizes[f] \in Nat
      /\ rcv.at \in {"core", "header", "done", "failed"}
  BY HeadTaken, Typed, Empty DEF TypeOK, ReceiverAts
<1>2. /\ Before(f) /\ rcv.at = "core" /\ rcv.file = f /\ rcv.expected = 1
      /\ Len(toR) = 0 /\ Len(toS') = 0
  <2>1. rcv.at = "core"
    BY <1>1 DEF AtAsked, Ended
  <2>2. QED
    BY <1>0, <1>1, <2>1 DEF AtAsked
<1>3. CASE b = "C"
  <2> DEFINE c == TRUE
  <2>1. Offer(f, 1, c) /\ c \in BOOLEAN /\ 1 \in Nat \ {0}
    <3>1. Offer(snd.file, 1, TRUE)
      BY <1>3 DEF SenderHeader
    <3>2. Offer(f, 1, TRUE)
      BY <1>0, <3>1
    <3>3. TRUE \in BOOLEAN /\ 1 \in Nat \ {0}
      OBVIOUS
    <3>4. QED
      BY <3>2, <3>3
  <2> HIDE DEF c
  <2>2. /\ snd'.at = IF 1 > sizes[f] THEN "eot" ELSE "data"
        /\ snd'.file = f /\ snd'.block = 1 /\ snd'.tries = 0 /\ snd'.again = snd.again
        /\ Len(toR') = Len(toR) + 1
        /\ toR'[Len(toR) + 1] = IF 1 > sizes[f] THEN Item("eot") ELSE BlockFrame(1, c)
        /\ BlockFrame(1, c) \in Blocks /\ BlockFrame(1, c).body = 1
    BY <2>1, OfferIs
  <2>3. CASE 1 > sizes[f]
    <3>1. sizes[f] = 0 /\ rcv.expected - 1 = 0
      BY <1>1, <1>2, <2>3
    <3>2. Whole(f)
      <4>1. disk[f] = Count(rcv.expected - 1)
        BY <1>2 DEF Copied
      <4>2. QED
        BY <3>1, <4>1, WholeIs
    <3>3. Before(f + 1)
      BY <1>2, <3>2, BeforeNext
    <3>4. toR'[1] = Item("eot") /\ Len(toR') = 1 /\ snd'.at = "eot"
      BY <1>2, <2>2, <2>3
    <3>5. QED
      BY <1>1, <1>2, <2>2, <3>3, <3>4, EotBegun
  <2>4. CASE ~ (1 > sizes[f])
    <3>1. toR'[1] = BlockFrame(1, c) /\ Len(toR') = 1 /\ snd'.at = "data" /\ 1 <= sizes[f]
      BY <1>1, <1>2, <2>2, <2>4
    <3>2. BlockOf(1, toR'[1]) /\ NoAck' /\ rcv.at # "header" /\ 1 \in Nat /\ rcv.expected \in {1, 1 + 1}
      BY <1>2, <2>2, <3>1 DEF BlockOf, NoAck
    <3>3. QED
      BY <1>1, <1>2, <2>2, <3>1, <3>2, BlockBegun
  <2>5. QED
    BY <2>3, <2>4
<1>4. CASE b # "C"
  <2>1. SenderAt("failed") /\ toR' = toR /\ "failed" \in SenderAts
    BY <1>4 DEF SenderHeader, SenderFails, Quietly, SenderAts
  <2>2. snd'.at = "failed" /\ snd'.again = snd.again
    BY <2>1, SenderAtIs
  <2>3. rcv'.at \notin Ended => \A i \in 1..Len(toR') : toR'[i] = Item("can")
    BY <1>1, <1>2, <2>1
  <2>4. QED
    BY <2>2, <2>3, FailsSafe
<1>5. QED
  BY <1>3, <1>4

LEMMA AskEndKeeps ==
  ASSUME TypeOK, AtAskEnd, SenderReads, SenderHeader(Head(toS)), snd.at = "askend"
  PROVE  Phases' /\ snd'.again = snd.again
<1> DEFINE b == Head(toS)
<1>0. PICK f \in Nat : f = snd.file
  BY Typed
<1>1. /\ Len(toR) \in Nat /\ rcv' = rcv /\ disk' = disk /\ Untouched
  BY HeadTaken, Empty DEF TypeOK
<1>2. batch /\ Before(f) /\ f = FileCount + 1 /\ rcv.at # "core" /\ (rcv.at = "header" => OnlyEots)
  BY <1>0 DEF AtAskEnd
<1>3. CASE b = "C"
  <2>1. SenderAt("ended") /\ SendR(<<NullFrame>>) /\ "ended" \in SenderAts
    BY <1>3 DEF SenderHeader, SenderAts
  <2>2. snd'.at = "ended" /\ snd'.file = f /\ snd'.again = snd.again
    BY <1>0, <2>1, SenderAtIs
  <2>3. NullFrame \in Headers /\ NullFrame \in Frames /\ NullFrame.file = 0
    BY FramesAre DEF NullFrame, HeaderFrame
  <2>4. /\ Len(toR') = Len(toR) + 1 /\ toR'[Len(toR) + 1] = NullFrame
        /\ \A p \in 1..Len(toR) : toR'[p] = toR[p]
    BY <2>1, <2>3, SentOne
  <2>5. ASSUME rcv.at = "header"
        PROVE  (\A i \in 1..Len(toR) : toR[i] = Item("eot") \/ HeaderOf(0, toR[i]))'
    <3>1. ASSUME NEW i \in 1..Len(toR') PROVE toR'[i] = Item("eot") \/ HeaderOf(0, toR'[i])
      <4>1. i \in 1..Len(toR) \/ i = Len(toR) + 1
        BY <1>1, <2>4
      <4>2. HeaderOf(0, NullFrame)
        BY <2>3 DEF HeaderOf
      <4>3. QED
        BY <1>2, <2>4, <2>5, <4>1, <4>2 DEF OnlyEots
    <3>2. QED
      BY <3>1 DEF HeaderOf, Headers
  <2>6. Before(snd.file)'
    BY <1>1, <1>2, <2>2, BeforeStays
  <2>7. snd'.file = FileCount' + 1 /\ rcv'.at # "core"
    BY <1>1, <1>2, <2>2 DEF Untouched, FileCount, Files
  <2>8. AtEnd'
    BY <1>1, <2>5, <2>6, <2>7 DEF AtEnd
  <2>9. QED
    BY <2>2, <2>8 DEF Phases
<1>4. CASE b # "C"
  <2>1. SenderAt("done") /\ toR' = toR /\ "done" \in SenderAts
    BY <1>4 DEF SenderHeader, Quietly, SenderAts
  <2>2. snd'.at = "done" /\ snd'.file = snd.file /\ snd'.again = snd.again
    BY <2>1, SenderAtIs
  <2>3. AtEnd
    BY <1>0, <1>2 DEF AtEnd, OnlyEots
  <2>4. QED
    BY <1>1, <2>1, <2>2, <2>3, EndKeeps
<1>5. QED
  BY <1>3, <1>4


\* All the sender's steps.
LEMMA SenderReadsKeeps ==
  ASSUME TypeOK, Paced, Phases, Copied, SenderReads
  PROVE  Phases' /\ snd'.again \in {snd.again, TRUE}
<1> DEFINE b == Head(toS)
<1>1. SenderInit(b) \/ SenderData(b) \/ SenderEot(b = "ACK") \/ SenderHeader(b)
  BY DEF SenderReads
<1>2. CASE SenderInit(b)
  BY <1>2, InitKeeps DEF SenderInit, Phases
<1>3. CASE SenderData(b)
  BY <1>3, DataKeeps DEF SenderData, Phases
<1>4. CASE SenderEot(b = "ACK")
  <2>1. AtEot /\ snd.at = "eot" /\ (b = "ACK") \in BOOLEAN
    BY <1>4 DEF SenderEot, Phases
  <2>2. /\ Len(toS) \in Nat \ {0} /\ Len(toS') = Len(toS) - 1 /\ b = toS[1]
        /\ \A p \in 1..Len(toS) - 1 : toS'[p] = toS[p + 1]
        /\ rcv' = rcv /\ disk' = disk /\ faults' = faults /\ Untouched
    BY HeadTaken
  <2> HIDE DEF b
  <2>3. NoAck => NoAck' /\ b # "ACK"
    <3>1. \A p \in 1..Len(toS') : toS'[p] = toS[p + 1] /\ p + 1 \in 1..Len(toS)
      BY <2>2
    <3>2. 1 \in 1..Len(toS)
      BY <2>2
    <3>3. QED
      BY <2>2, <3>1, <3>2 DEF NoAck
  <2>4. Turn(b = "ACK")
    BY <2>2, <2>3 DEF Turn
  <2>5. QED
    BY <1>4, <2>1, <2>2, <2>4, EotKeeps
<1>5. CASE SenderHeader(b)
  <2>1. snd.at \in {"ask", "headed", "asked", "askend", "ended"}
    BY <1>5 DEF SenderHeader
  <2>2. CASE snd.at = "ended"
    <3>1. SenderAt("done") /\ toR' = toR /\ "done" \in SenderAts
      BY <1>5, <2>2 DEF SenderHeader, Quietly, SenderAts
    <3>2. snd'.at = "done" /\ snd'.file = snd.file /\ snd'.again = snd.again
      BY <3>1, SenderAtIs
    <3>3. AtEnd /\ rcv' = rcv /\ disk' = disk /\ Untouched
      BY <2>2, HeadTaken DEF Phases
    <3>4. QED
      BY <3>1, <3>2, <3>3, EndKeeps
  <2>3. CASE snd.at # "ended"
    BY <1>5, <2>1, <2>3, AskKeeps, HeadedKeeps, AskedKeeps, AskEndKeeps DEF Phases
  <2>4. QED
    BY <2>2, <2>3
<1>6. QED
  BY <1>1, <1>2, <1>3, <1>4, <1>5

LEMMA SenderTimesOutKeeps ==
  ASSUME TypeOK, Paced, Phases, SenderTimesOut
  PROVE  Phases' /\ snd'.again \in {snd.again, TRUE}
<1>1. /\ rcv' = rcv /\ toS' = toS /\ disk' = disk /\ faults' = faults /\ Untouched
      /\ SenderStarves /\ SenderWaited
  BY DEF SenderTimesOut, Untouched
<1>2. Len(toS) = 0 /\ (Len(toR) = 0 \/ rcv.at \in Ended) /\ Len(toR) \in Nat
  BY <1>1, Empty DEF SenderStarves, TypeOK
<1>3. CASE SenderEot(FALSE)
  <2>1. AtEot /\ snd.at = "eot" /\ FALSE \in BOOLEAN
    BY <1>3 DEF SenderEot, Phases
  <2>2. Turn(FALSE)
    BY <1>1, <1>2 DEF Turn, NoAck
  <2>3. QED
    BY <1>1, <1>3, <2>1, <2>2, EotKeeps
<1>4. CASE snd.at = "ended" /\ SenderAt("done") /\ toR' = toR
  <2>1. "done" \in SenderAts
    BY DEF SenderAts
  <2>2. snd'.at = "done" /\ snd'.file = snd.file /\ snd'.again = snd.again
    BY <1>4, <2>1, SenderAtIs
  <2>3. AtEnd
    BY <1>4 DEF Phases
  <2>4. QED
    BY <1>1, <1>4, <2>2, <2>3, EndKeeps
<1>5. CASE SenderFails /\ toR' = toR
  <2>1. SenderAt("failed") /\ "failed" \in SenderAts
    BY <1>5 DEF SenderFails, SenderAts
  <2>2. snd'.at = "failed" /\ snd'.again = snd.again
    BY <2>1, SenderAtIs
  <2>3. rcv'.at \notin Ended => \A i \in 1..Len(toR') : toR'[i] = Item("can")
    BY <1>1, <1>2, <1>5
  <2>4. QED
    BY <2>2, <2>3, FailsSafe
<1>6. QED
  BY <1>1, <1>3, <1>4, <1>5 DEF SenderWaited, Quietly


-----------------------------------------------------------------------------
(***************************************************************************)
(* Block numbers.                                                          *)
(***************************************************************************)

\* The quotient and the rest of a number are its only ones.
LEMMA Rest ==
  ASSUME NEW a \in Nat
  PROVE  /\ a % Modulus \in 0..Modulus - 1
         /\ a \div Modulus \in Nat
         /\ a = Modulus * (a \div Modulus) + (a % Modulus)
BY NumbersAssumption, SMTT(30)

LEMMA Rests ==
  ASSUME NEW p \in Nat, NEW q \in Nat, NEW r \in 0..Modulus - 1, NEW s \in 0..Modulus - 1
  PROVE  Modulus * p + r = Modulus * q + s => p = q /\ r = s
<1>1. Modulus \in Nat /\ Modulus >= 2
  BY NumbersAssumption
<1>2. ASSUME NEW x \in Nat, NEW y \in Nat, x < y PROVE Modulus * y >= Modulus * x + Modulus
  <2>1. y >= x + 1
    BY <1>2
  <2>2. Modulus * (x + 1) = Modulus * x + Modulus
    BY <1>1
  <2>3. Modulus * y >= Modulus * (x + 1)
    BY <1>1, <2>1
  <2>4. QED
    BY <2>2, <2>3
<1>3. ASSUME p < q PROVE Modulus * p + r < Modulus * q + s
  BY <1>1, <1>2, <1>3
<1>4. ASSUME q < p PROVE Modulus * q + s < Modulus * p + r
  BY <1>1, <1>2, <1>4
<1>5. Modulus * p + r \in Nat /\ Modulus * q + s \in Nat
  BY <1>1
<1>6. QED
  BY <1>1, <1>3, <1>4, <1>5

\* Numbers less than the modulus apart are told apart.
LEMMA Apart ==
  ASSUME NEW a \in Nat, NEW b \in Nat, a < b, b < a + Modulus
  PROVE  a % Modulus # b % Modulus
<1>1. SUFFICES ASSUME a % Modulus = b % Modulus PROVE FALSE
  OBVIOUS
<1> DEFINE p == a \div Modulus
           q == b \div Modulus
           r == a % Modulus
<1>2. p \in Nat /\ q \in Nat /\ r \in Nat /\ a = Modulus * p + r /\ b = Modulus * q + r
  BY <1>1, Rest
<1>3. Modulus \in Nat /\ Modulus >= 2
  BY NumbersAssumption
<1> HIDE DEF p, q, r
<1>4. Modulus * p < Modulus * q /\ Modulus * q < Modulus * p + Modulus
  BY <1>2, <1>3
<1>5. Modulus * (p + 1) = Modulus * p + Modulus
  BY <1>2, <1>3
<1>6. q <= p => Modulus * q <= Modulus * p
  BY <1>2, <1>3
<1>7. q >= p + 1 => Modulus * q >= Modulus * (p + 1)
  BY <1>2, <1>3
<1>8. QED
  BY <1>2, <1>3, <1>4, <1>5, <1>6, <1>7

LEMMA Around ==
  ASSUME NEW k \in Nat
  PROVE  (k + Modulus) % Modulus = k % Modulus
<1> DEFINE p == k \div Modulus
           r == k % Modulus
           l == k + Modulus
           q == l \div Modulus
           s == l % Modulus
<1>1. p \in Nat /\ r \in 0..Modulus - 1 /\ k = Modulus * p + r
  BY Rest
<1>2. Modulus \in Nat /\ Modulus >= 2 /\ l \in Nat
  BY NumbersAssumption
<1>3. q \in Nat /\ s \in 0..Modulus - 1 /\ l = Modulus * q + s
  BY <1>2, Rest
<1>4. Modulus * (p + 1) + r = l
  <2>1. l = k + Modulus
    OBVIOUS
  <2> HIDE DEF l, p, r
  <2>2. QED
    BY <1>1, <1>2, <2>1
<1> HIDE DEF p, q, r, s, l
<1>5. p + 1 \in Nat
  BY <1>1
<1>6. r = s
  BY <1>1, <1>3, <1>4, <1>5, Rests
<1>7. QED
  BY <1>6 DEF r, s, l

\* What the receiver makes of a block of data.
LEMMA Numbered ==
  ASSUME TypeOK, NEW m \in Blocks
  PROVE  /\ rcv.expected = m.body => InSequence(m) /\ ~Duplicate(m)
         /\ rcv.expected = m.body + 1 => Duplicate(m)
<1> DEFINE k == m.body
           e == rcv.expected
<1>1. k \in Nat \ {0} /\ m.num = k % Modulus
  BY DEF Blocks
<1>2. e \in Nat \ {0} /\ Modulus \in Nat /\ Modulus >= 2
  BY Typed, NumbersAssumption
<1> HIDE DEF k, e
<1>3. InSequence(m) <=> k % Modulus = e % Modulus
  BY <1>1 DEF InSequence, e
<1>4. Duplicate(m) <=> k % Modulus = (e + Modulus - 1) % Modulus
  BY <1>1 DEF Duplicate, e
<1>5. ASSUME e = k PROVE InSequence(m) /\ ~Duplicate(m)
  <2>1. k \in Nat /\ k + Modulus - 1 \in Nat /\ k < k + Modulus - 1 /\ k + Modulus - 1 < k + Modulus
    BY <1>1, <1>2
  <2> DEFINE l == k + Modulus - 1
  <2>2. l \in Nat /\ k < l /\ l < k + Modulus
    BY <2>1
  <2> HIDE DEF l
  <2>3. k % Modulus # l % Modulus
    BY <2>1, <2>2, Apart
  <2>4. QED
    BY <1>3, <1>4, <1>5, <2>3 DEF l
<1>6. ASSUME e = k + 1 PROVE Duplicate(m)
  <2>1. k \in Nat /\ e + Modulus - 1 = k + Modulus
    BY <1>1, <1>2, <1>6
  <2>2. (k + Modulus) % Modulus = k % Modulus
    BY <2>1, Around
  <2>3. QED
    BY <1>4, <2>1, <2>2
<1>7. QED
  BY <1>5, <1>6 DEF k, e


-----------------------------------------------------------------------------
(***************************************************************************)
(* The parts of a step of the receiver.                                    *)
(***************************************************************************)

LEMMA FrameTaken ==
  ASSUME TypeOK, toR # <<>>, toR' = Tail(toR)
  PROVE  /\ Len(toR) \in Nat \ {0} /\ Len(toR') = Len(toR) - 1
         /\ \A p \in 1..Len(toR) - 1 : toR'[p] = toR[p + 1]
BY Taken DEF TypeOK

LEMMA FrameNext ==
  ASSUME TypeOK, toR # <<>>
  PROVE  Len(toR) \in Nat \ {0} /\ Head(toR) = toR[1] /\ toR[1] \in Frames
BY Taken DEF TypeOK

LEMMA RepliedOne ==
  ASSUME TypeOK, NEW b \in Replies, Replied(b)
  PROVE  /\ Len(toS) \in Nat /\ Len(toS') = Len(toS) + 1 /\ toS'[Len(toS) + 1] = b
         /\ \A p \in 1..Len(toS) : toS'[p] = toS[p]
<1>1. toS \in Seq(Replies) /\ toS' = toS \o <<b>>
  BY DEF TypeOK, Replied
<1>2. Len(toS) \in Nat
  BY <1>1, Empty
<1>3. QED
  BY <1>1, <1>2, Added

LEMMA RepliedTwo ==
  ASSUME TypeOK, NEW b \in Replies, NEW c \in Replies, toS' = toS \o <<b, c>>
  PROVE  /\ Len(toS) \in Nat /\ Len(toS') = Len(toS) + 2
         /\ toS'[Len(toS) + 1] = b /\ toS'[Len(toS) + 2] = c
         /\ \A p \in 1..Len(toS) : toS'[p] = toS[p]
<1>1. toS \in Seq(Replies)
  BY DEF TypeOK
<1>2. Len(toS) \in Nat
  BY <1>1, Empty
<1>3. QED
  BY <1>1, <1>2, AddedTwo

LEMMA NoAckKept ==
  ASSUME TypeOK, NoAck, NEW b \in Replies, b # "ACK", Replied(b)
  PROVE  NoAck'
<1>1. /\ Len(toS) \in Nat /\ Len(toS') = Len(toS) + 1 /\ toS'[Len(toS) + 1] = b
      /\ \A p \in 1..Len(toS) : toS'[p] = toS[p]
  BY RepliedOne
<1>2. \A p \in 1..Len(toS') : p \in 1..Len(toS) \/ p = Len(toS) + 1
  BY <1>1
<1>3. QED
  BY <1>1, <1>2 DEF NoAck

LEMMA ReceiverIs ==
  ASSUME TypeOK
  PROVE  /\ Failed => /\ rcv'.at = "failed" /\ rcv'.file = rcv.file /\ rcv'.expected = rcv.expected
                      /\ rcv'.crc = rcv.crc
         /\ Counted => /\ rcv'.at = rcv.at /\ rcv'.file = rcv.file /\ rcv'.expected = rcv.expected
                       /\ rcv'.crc = rcv.crc
         /\ rcv' = [rcv EXCEPT !.at = "done"] =>
              /\ rcv'.at = "done" /\ rcv'.file = rcv.file /\ rcv'.expected = rcv.expected
              /\ rcv'.crc = rcv.crc
         /\ rcv' = [rcv EXCEPT !.at = "header"] => rcv'.at = "header" /\ rcv'.crc = rcv.crc
         /\ \A n \in Nat : rcv' = [rcv EXCEPT !.expected = n, !.tries = 0] =>
              /\ rcv'.at = rcv.at /\ rcv'.file = rcv.file /\ rcv'.expected = n
              /\ rcv'.crc = rcv.crc
BY DEF TypeOK, Receivers, Failed, Counted

LEMMA NamedIs ==
  ASSUME TypeOK, NEW f, rcv' = [rcv EXCEPT !.at = "core", !.file = f, !.expected = 1, !.tries = 0]
  PROVE  rcv'.at = "core" /\ rcv'.file = f /\ rcv'.expected = 1 /\ rcv'.crc = rcv.crc
<1>1. rcv \in Receivers
  BY DEF TypeOK
<1>2. QED
  BY <1>1 DEF Receivers

\* Once the receiver is gone there is little to say of what is on its way.
LEMMA GoneKeeps ==
  ASSUME TypeOK, Phases, Untouched, disk' = disk, faults' = faults, snd' = snd,
         rcv'.at \in Ended, snd.at # "init",
         snd.at \in {"data", "headed"} => NoAck',
         snd.at = "eot" => Len(toS') <= 2,
         snd.at = "ask" => Len(toS') <= 1,
         snd.at = "asked" => Len(toS') = 0
  PROVE  Phases'
<1>0. /\ snd'.at = snd.at /\ snd'.file = snd.file /\ snd'.block = snd.block
      /\ snd'.tries = snd.tries /\ snd'.again = snd.again
  OBVIOUS
<1>1. rcv'.at # "core" /\ rcv'.at # "header" /\ snd.file \in Nat
  BY Typed DEF Ended
<1>2. PICK f \in Nat : f = snd.file
  BY <1>1
<1>3. (Before(f) => Before(snd.file)') /\ (Before(f + 1) => Before(snd.file + 1)')
  BY <1>2, BeforeStays
<1>4. batch' = batch /\ Files' = Files /\ FileCount' = FileCount /\ sizes' = sizes
  BY DEF Untouched, Files, FileCount
<1>5. snd.at = "data" => AtData'
  <2>1. snd.at = "data" => AtData
    BY DEF Phases
  <2>2. QED
    BY <1>0, <1>1, <1>2, <1>3, <1>4, <2>1 DEF AtData
<1>6. snd.at = "eot" => AtEot'
  <2>1. snd.at = "eot" => AtEot
    BY DEF Phases
  <2>2. QED
    BY <1>0, <1>1, <1>2, <1>3, <1>4, <2>1 DEF AtEot
<1>7. snd.at = "ask" => AtAsk'
  <2>1. snd.at = "ask" => AtAsk
    BY DEF Phases
  <2>2. QED
    BY <1>0, <1>1, <1>2, <1>3, <1>4, <2>1 DEF AtAsk
<1>8. snd.at = "headed" => AtHeaded'
  <2>1. snd.at = "headed" => AtHeaded
    BY DEF Phases
  <2>2. QED
    BY <1>0, <1>1, <1>2, <1>3, <1>4, <2>1 DEF AtHeaded
<1>9. snd.at = "asked" => AtAsked'
  <2>1. snd.at = "asked" => AtAsked
    BY DEF Phases
  <2>2. QED
    BY <1>0, <1>1, <1>2, <1>3, <1>4, <2>1 DEF AtAsked
<1>10. snd.at = "askend" => AtAskEnd'
  <2>1. snd.at = "askend" => AtAskEnd
    BY DEF Phases
  <2>2. QED
    BY <1>0, <1>1, <1>2, <1>3, <1>4, <2>1 DEF AtAskEnd
<1>11. snd.at \in {"ended", "done"} => AtEnd'
  <2>1. snd.at \in {"ended", "done"} => AtEnd
    BY DEF Phases
  <2>2. QED
    BY <1>0, <1>1, <1>2, <1>3, <1>4, <2>1 DEF AtEnd
<1>12. AtFailed'
  BY <1>1 DEF AtFailed
<1>13. QED
  BY <1>0, <1>5, <1>6, <1>7, <1>8, <1>9, <1>10, <1>11, <1>12 DEF Phases

\* The copies are not touched.
LEMMA CopiedKept ==
  ASSUME TypeOK, Untouched, disk' = disk, Copied,
         rcv'.at = "core" => rcv.at = "core" /\ rcv'.file = rcv.file /\ rcv'.expected = rcv.expected,
         batch /\ rcv'.at = "done" /\ ~snd'.again => \A f \in Files : Whole(f)
  PROVE  Copied'
<1>1. batch' = batch /\ Files' = Files /\ sizes' = sizes
  BY DEF Untouched, Files
<1>2. (\A f \in Files : \E n \in 0..sizes[f] : disk[f] = Count(n))'
  BY <1>1 DEF Copied, Count
<1>3. (rcv.at = "core" => rcv.file \in Files /\ disk[rcv.file] = Count(rcv.expected - 1))'
  BY <1>1 DEF Copied, Count
<1>4. (batch /\ rcv.at = "done" /\ ~snd.again => \A f \in Files : Whole(f))'
  BY <1>1 DEF Whole, Original
<1>5. QED
  BY <1>2, <1>3, <1>4 DEF Copied


-----------------------------------------------------------------------------
(***************************************************************************)
(* What the receiver reads over a paced line.                              *)
(***************************************************************************)

\* The receiver has read all there was, and may have replied.
LEMMA DataStays ==
  ASSUME Untouched, snd' = snd, snd.at = "data", NEW f \in Files, NEW k \in Nat,
         f = snd.file, k = snd.block, k <= sizes[f], Before(snd.file)',
         rcv'.at = "core", rcv'.file = f, rcv'.expected \in {k, k + 1},
         Len(toR') = 0, Len(toS') <= 1,
         Len(toS') = 1 /\ toS'[1] = "ACK" => rcv'.expected = k + 1
  PROVE  Phases'
<1>1. Files' = Files /\ sizes' = sizes
  BY DEF Untouched, Files
<1>2. AtData'
  BY <1>1 DEF AtData, Ended
<1>3. QED
  BY <1>2 DEF Phases

LEMMA DataReads ==
  ASSUME TypeOK, Phases, Copied, snd.at = "data", ReceiverReads
  PROVE  Phases' /\ Copied'
<1> DEFINE m == Head(toR)
<1>1. /\ toR # <<>> /\ snd' = snd /\ faults' = faults /\ Untouched
      /\ ReadItem(m) \/ ReadFrame(m)
  BY ReceiverReadsIs
<1>2. AtData /\ Len(toR) \in Nat \ {0} /\ m = toR[1] /\ m \in Frames
  BY <1>1, FrameNext DEF Phases
<1>3. PICK f \in Files, k \in Nat \ {0} : f = snd.file /\ k = snd.block
  BY <1>2, Typed DEF AtData
<1>4. k <= sizes[f] /\ Before(f) /\ f \in Nat \ {0} /\ sizes[f] \in Nat
  BY <1>2, <1>3 DEF AtData, TypeOK
<1>5. rcv.at = "core"
  BY <1>1, <1>2 DEF AtData, ReadItem, ReadFrame
<1>6. /\ rcv.file = f /\ rcv.expected \in {k, k + 1} /\ Len(toS) = 0 /\ Len(toR) = 1
      /\ m \in Blocks /\ m.body = k
  BY <1>2, <1>3, <1>5 DEF AtData, BlockOf
<1>7. ReceiveBlock(m)
  <2>1. m.type = "block"
    BY <1>6 DEF Blocks
  <2> HIDE DEF m
  <2>2. ~ReadItem(m)
    BY <2>1 DEF ReadItem, Item
  <2>3. QED
    BY <1>1, <1>5, <2>2 DEF ReadFrame
<1> HIDE DEF m
<1>8. Refused(m) \/ GivenUp(m) \/ Again(m) \/ Foreign(m) \/ Written(m)
  BY <1>6, <1>7, BlockRead
<1>9. Len(toR') = 0
  <2>1. CASE toR' = <<>>
    BY <2>1, EmptySeq
  <2>2. CASE toR' = Tail(toR)
    BY <1>1, <1>6, <2>2, FrameTaken
  <2>3. QED
    BY <1>8, <2>1, <2>2 DEF Refused, GivenUp, Again, Foreign, Written
<1>10. \A b \in Replies : Replied(b) => Len(toS') = 1 /\ toS'[1] = b
  <2>1. ASSUME NEW b \in Replies, Replied(b) PROVE Len(toS') = 1 /\ toS'[1] = b
    <3>1. Len(toS') = Len(toS) + 1 /\ toS'[Len(toS) + 1] = b
      BY <2>1, RepliedOne
    <3>2. Len(toS) + 1 = 1
      BY <1>6
    <3>3. QED
      BY <3>1, <3>2
  <2>2. QED
    BY <2>1
<1>11. {"ACK", "NAK", "CAN"} \subseteq Replies
  BY DEF Replies
<1>12. CASE disk' = disk /\ Failed /\ (toS' = toS \/ Replied("CAN"))
  <2>1. rcv'.at = "failed"
    BY <1>12, ReceiverIs
  <2>2. NoAck'
    BY <1>6, <1>10, <1>11, <1>12 DEF NoAck
  <2>3. Phases'
    BY <1>1, <1>3, <1>12, <2>1, <2>2, GoneKeeps DEF Ended
  <2>4. Copied'
    BY <1>1, <1>12, <2>1, CopiedKept
  <2>5. QED
    BY <2>3, <2>4
<1>13. CASE disk' = disk /\ Counted /\ Replied("NAK")
  <2>1. rcv'.at = "core" /\ rcv'.file = f /\ rcv'.expected = rcv.expected
    BY <1>5, <1>6, <1>13, ReceiverIs
  <2>2. Len(toS') = 1 /\ toS'[1] = "NAK"
    BY <1>10, <1>11, <1>13
  <2>3. Before(snd.file)'
    BY <1>1, <1>3, <1>4, <1>13, BeforeStays
  <2>4. Phases'
    BY <1>1, <1>3, <1>4, <1>6, <1>9, <2>1, <2>2, <2>3, DataStays
  <2>5. Copied'
    BY <1>1, <1>5, <1>6, <1>13, <2>1, CopiedKept
  <2>6. QED
    BY <2>4, <2>5
<1>14. CASE Again(m)
  <2>1. disk' = disk /\ rcv' = rcv /\ Replied("ACK") /\ Duplicate(m)
    BY <1>14 DEF Again
  <2>2. rcv.expected = k + 1
    BY <1>6, <2>1, Numbered
  <2>3. Len(toS') = 1
    BY <1>10, <1>11, <2>1
  <2>4. Before(snd.file)'
    BY <1>1, <1>3, <1>4, <2>1, BeforeStays
  <2>5. Phases'
    BY <1>1, <1>3, <1>4, <1>5, <1>6, <1>9, <2>1, <2>2, <2>3, <2>4, DataStays
  <2>6. Copied'
    BY <1>1, <1>5, <2>1, CopiedKept
  <2>7. QED
    BY <2>5, <2>6
<1>15. CASE Written(m)
  <2>1. ~Duplicate(m) /\ Replied("ACK") /\ disk' = [disk EXCEPT ![f] = Append(disk[f], k)]
        /\ rcv' = [rcv EXCEPT !.expected = rcv.expected + 1, !.tries = 0]
    BY <1>6, <1>15 DEF Written
  <2>2. rcv.expected = k
    BY <1>6, <2>1, Numbered
  <2>3. rcv'.at = "core" /\ rcv'.file = f /\ rcv'.expected = k + 1
    <3>1. rcv' = [rcv EXCEPT !.expected = k + 1, !.tries = 0] /\ k + 1 \in Nat
      BY <2>1, <2>2
    <3>2. QED
      BY <1>5, <1>6, <3>1, ReceiverIs
  <2>4. Len(toS') = 1
    BY <1>10, <1>11, <2>1
  <2>5. disk[f] = Count(k - 1)
    BY <1>5, <1>6, <2>2 DEF Copied
  <2>6. Append(disk[f], k) = Count(k)
    <3>1. k - 1 \in Nat /\ k - 1 + 1 = k
      OBVIOUS
    <3>2. Append(Count(k - 1), k - 1 + 1) = Count(k - 1 + 1)
      BY <3>1, CountNext
    <3>3. QED
      BY <2>5, <3>1, <3>2
  <2>7. disk'[f] = Count(k) /\ \A g \in Files : g # f => disk'[g] = disk[g]
    <3>1. disk \in [{Stray} \cup Files -> Seq(Nat)]
      BY DEF TypeOK
    <3>2. QED
      BY <2>1, <2>6, <3>1
  <2>8. Files' = Files /\ sizes' = sizes /\ batch' = batch
    BY <1>1 DEF Untouched, Files
  <2>9. Before(snd.file)'
    <3>1. \A g \in Files : g < f => disk'[g] = disk[g]
      BY <1>4, <2>7 DEF TypeOK
    <3>2. QED
      BY <1>1, <1>3, <1>4, <2>8, <3>1 DEF Before, Whole, Original
  <2>10. Phases'
    BY <1>1, <1>3, <1>4, <1>9, <2>3, <2>4, <2>9, DataStays
  <2>11. Copied'
    <3>1. \A g \in Files : \E n \in 0..sizes[g] : disk'[g] = Count(n)
      <4>1. k \in 0..sizes[f]
        BY <1>4
      <4>2. QED
        BY <2>7, <4>1 DEF Copied
    <3>2. (\A g \in Files : \E n \in 0..sizes[g] : disk[g] = Count(n))'
      BY <2>8, <3>1 DEF Count
    <3>3. rcv'.expected - 1 = k
      BY <2>3
    <3>4. (rcv.at = "core" => rcv.file \in Files /\ disk[rcv.file] = Count(rcv.expected - 1))'
      BY <2>3, <2>7, <2>8, <3>3 DEF Count
    <3>5. QED
      BY <2>3, <3>2, <3>4 DEF Copied
  <2>12. QED
    BY <2>10, <2>11
<1>16. QED
  BY <1>8, <1>12, <1>13, <1>14, <1>15 DEF Refused, GivenUp, Foreign


\* The receiver reads an EOT where it waits for a header.
LEMMA DoneReads ==
  ASSUME TypeOK, Phases, Copied, ReceiverReads, rcv.at = "header",
         Head(toR) \in {Item("eot"), Item("can")},
         snd.at \in {"eot", "ask", "askend", "ended", "done", "failed"},
         snd.at = "eot" => Len(toS) <= 1, snd.at = "ask" => Len(toS) = 0,
         Head(toR) = Item("eot") /\ batch /\ ~snd.again => \A f \in Files : Whole(f)
  PROVE  Phases' /\ Copied'
<1> DEFINE m == Head(toR)
<1>1. /\ toR # <<>> /\ snd' = snd /\ faults' = faults /\ Untouched
      /\ ReadItem(m) \/ ReadFrame(m)
  BY ReceiverReadsIs
<1>2. m.type # "block" /\ (m = Item("eot") => m # Item("can") /\ m # Item("noise"))
      /\ (m = Item("can") => m # Item("eot"))
  BY DEF Item
<1>3. m \notin Blocks \cup Headers
  BY <1>2 DEF Blocks, Headers
<1>4. /\ disk' = disk
      /\ \/ m = Item("eot") /\ rcv' = [rcv EXCEPT !.at = "done"] /\ Replied("ACK")
         \/ m = Item("can") /\ Failed /\ toS' = toS
  <2> HIDE DEF m
  <2>1. ReadItem(m)
    BY <1>1, <1>3 DEF ReadFrame
  <2>2. m \in {Item("eot"), Item("can")}
    BY DEF m
  <2>3. QED
    BY <1>2, <2>1, <2>2 DEF ReadItem
<1>5. "ACK" \in Replies /\ Len(toS) \in Nat
  BY Empty DEF Replies, TypeOK
<1>6. Len(toS') <= Len(toS) + 1
  BY <1>4, <1>5, RepliedOne
<1>7. rcv'.at \in Ended /\ (rcv'.at = "done" => m = Item("eot"))
  BY <1>4, ReceiverIs DEF Ended
<1>8. Phases'
  <2>1. snd.at = "eot" => Len(toS') <= 2
    BY <1>5, <1>6
  <2>2. snd.at = "ask" => Len(toS') <= 1
    BY <1>5, <1>6
  <2>3. QED
    BY <1>1, <1>4, <1>7, <2>1, <2>2, GoneKeeps
<1>9. Copied'
  BY <1>1, <1>4, <1>7, CopiedKept DEF Ended
<1>10. QED
  BY <1>8, <1>9

LEMMA EotReads ==
  ASSUME TypeOK, Phases, Copied, snd.at = "eot", ReceiverReads
  PROVE  Phases' /\ Copied'
<1> DEFINE m == Head(toR)
<1>1. /\ toR # <<>> /\ snd' = snd /\ faults' = faults /\ Untouched
      /\ ReadItem(m) \/ ReadFrame(m)
  BY ReceiverReadsIs
<1>2. AtEot /\ Len(toR) \in Nat \ {0} /\ m = toR[1] /\ Len(toS) \in Nat
  BY <1>1, FrameNext, Empty DEF Phases, TypeOK
<1>3. PICK f \in Files : f = snd.file
  BY <1>2 DEF AtEot
<1>4. Before(f + 1) /\ f \in Nat \ {0} /\ (Len(toR) = 1 => snd.tries < MaxEots)
  BY <1>2, <1>3 DEF AtEot, TypeOK
<1>5. CASE rcv.at = "header"
  <2>1. m = Item("eot") /\ Len(toS) <= 1 /\ snd.again
    BY <1>2, <1>5 DEF AtEot, OnlyEots
  <2>2. QED
    BY <1>5, <2>1, DoneReads
<1>6. CASE rcv.at = "core"
  <2>1. m = Item("eot") /\ Len(toS) = 0 /\ Len(toR) = 1 /\ rcv.file = f
    <3>1. OnlyEots /\ Len(toS) + Len(toR) <= 1 /\ rcv.file = f
      BY <1>2, <1>3, <1>6 DEF AtEot
    <3>2. 1 \in 1..Len(toR)
      BY <1>2
    <3>3. m = Item("eot")
      BY <1>2, <3>1, <3>2 DEF OnlyEots
    <3>4. Len(toS) = 0 /\ Len(toR) = 1
      <4>1. Len(toS) + Len(toR) <= 1
        BY <3>1
      <4>2. Len(toS) \in Nat /\ Len(toR) \in Nat \ {0}
        BY <1>2
      <4>3. \A a \in Nat, b \in Nat \ {0} : a + b <= 1 => a = 0 /\ b = 1
        OBVIOUS
      <4>4. QED
        BY <4>1, <4>2, <4>3
    <3>5. QED
      BY <3>1, <3>3, <3>4
  <2>2. Eot /\ toR' = Tail(toR)
    <3>1. m.type = "eot"
      BY <2>1 DEF Item
    <3>2. m \notin Blocks \cup Headers /\ m # Item("can") /\ m # Item("noise")
      <4>1. m \notin Blocks \cup Headers
        BY <3>1 DEF Blocks, Headers
      <4>2. Item("can").type = "can" /\ Item("noise").type = "noise"
        BY DEF Item
      <4>3. QED
        BY <3>1, <4>1, <4>2
    <3> HIDE DEF m
    <3>3. QED
      BY <1>1, <1>6, <3>2 DEF ReadItem, ReadFrame
  <2>3. Len(toR') = 0
    BY <1>1, <2>1, <2>2, FrameTaken
  <2>4. (batch /\ BatchEot) \/ (~batch /\ SingleEot)
    BY <2>2, EotRead
  <2>5. {"ACK", "C"} \subseteq Replies
    BY DEF Replies
  <2>6. CASE ~batch /\ SingleEot
    <3>1. disk' = disk /\ rcv'.at = "done" /\ Replied("ACK")
      BY <2>6, ReceiverIs DEF SingleEot
    <3>2. Len(toS') = 1
      BY <2>1, <2>5, <3>1, RepliedOne
    <3>3. Phases'
      BY <1>1, <3>1, <3>2, GoneKeeps DEF Ended
    <3>4. Copied'
      BY <1>1, <2>6, <3>1, CopiedKept
    <3>5. QED
      BY <3>3, <3>4
  <2>7. CASE batch /\ BatchEot
    <3>1. Whole(f)
      BY <1>4, BeforeLess
    <3>2. disk' = disk
      <4>1. disk \in [{Stray} \cup Files -> Seq(Nat)]
        BY DEF TypeOK
      <4>2. Sized(f) = disk[f] /\ f # Stray
        BY <1>4, <3>1, SizedWhole DEF Stray
      <4>3. disk' = [disk EXCEPT ![f] = disk[f]]
        BY <2>1, <2>7, <4>2 DEF BatchEot
      <4>4. QED
        BY <4>1, <4>3
    <3>3. rcv'.at = "header" /\ toS' = toS \o <<"ACK", "C">>
      BY <2>7, ReceiverIs DEF BatchEot
    <3>4. Len(toS') = 2
      BY <2>1, <2>5, <3>3, RepliedTwo
    <3>5. Before(snd.file + 1)'
      BY <1>1, <1>3, <1>4, <3>2, BeforeStays
    <3>6. snd'.file \in Files' /\ snd'.tries < MaxEots /\ (~snd'.again => snd'.tries = 0) /\ batch'
      BY <1>1, <1>2, <2>7 DEF AtEot, Untouched, Files
    <3>7. OnlyEots'
      BY <2>3 DEF OnlyEots
    <3>8. AtEot'
      BY <2>3, <3>3, <3>4, <3>5, <3>6, <3>7 DEF AtEot, Ended
    <3>9. Phases'
      BY <1>1, <3>8 DEF Phases
    <3>10. Copied'
      BY <1>1, <3>2, <3>3, CopiedKept
    <3>11. QED
      BY <3>9, <3>10
  <2>8. QED
    BY <2>4, <2>6, <2>7
<1>7. QED
  BY <1>1, <1>5, <1>6 DEF ReadItem, ReadFrame

LEMMA AskReads ==
  ASSUME TypeOK, Phases, Copied, snd.at \in {"ask", "askend"}, ReceiverReads
  PROVE  Phases' /\ Copied'
<1> DEFINE m == Head(toR)
<1>1. toR # <<>> /\ (ReadItem(m) \/ ReadFrame(m))
  BY ReceiverReadsIs
<1>2. Len(toR) \in Nat \ {0} /\ m = toR[1] /\ Len(toS) \in Nat
  <2>1. Len(toS) \in Nat
    BY Empty DEF TypeOK
  <2>2. Len(toR) \in Nat \ {0} /\ m = toR[1]
    BY <1>1, FrameNext
  <2>3. QED
    BY <2>1, <2>2
<1>3. rcv.at \in {"core", "header"}
  BY <1>1 DEF ReadItem, ReadFrame
<1>4. CASE snd.at = "ask"
  <2>1. rcv.at = "header" /\ m = Item("eot") /\ Len(toS) = 0 /\ snd.again
    BY <1>2, <1>3, <1>4 DEF Phases, AtAsk, OnlyEots
  <2>2. QED
    BY <1>4, <2>1, DoneReads
<1>5. CASE snd.at = "askend"
  <2>1. rcv.at = "header" /\ m = Item("eot")
    BY <1>2, <1>3, <1>5 DEF Phases, AtAskEnd, OnlyEots
  <2>2. \A f \in Files : Whole(f)
    BY <1>5, AllBefore DEF Phases, AtAskEnd
  <2>3. QED
    BY <1>5, <2>1, <2>2, DoneReads
<1>6. QED
  BY <1>4, <1>5


\* The receiver reads the header the sender has sent.
LEMMA HeadedReads ==
  ASSUME TypeOK, Phases, Copied, snd.at = "headed", ReceiverReads
  PROVE  Phases' /\ Copied'
<1> DEFINE m == Head(toR)
<1>1. /\ toR # <<>> /\ snd' = snd /\ faults' = faults /\ Untouched
      /\ (ReadItem(m) \/ ReadFrame(m))
  BY ReceiverReadsIs
<1>2. AtHeaded /\ Len(toR) \in Nat \ {0} /\ m = toR[1]
  BY <1>1, FrameNext DEF Phases
<1>3. PICK f \in Files : f = snd.file
  BY <1>2 DEF AtHeaded
<1>4. batch /\ Before(f) /\ f \in Nat \ {0} /\ sizes[f] \in Nat
  BY <1>2, <1>3 DEF AtHeaded, TypeOK
<1>5. rcv.at = "header"
  BY <1>1, <1>2 DEF AtHeaded, ReadItem, ReadFrame
<1>6. Len(toS) = 0 /\ Len(toR) = 1 /\ m \in Headers /\ m.file = f
  BY <1>2, <1>3, <1>5 DEF AtHeaded, HeaderOf
<1>7. ReceiveHeader(m) /\ toR' = Tail(toR)
  <2>1. m.type = "block"
    BY <1>6 DEF Headers
  <2> HIDE DEF m
  <2>2. ~ReadItem(m)
    BY <2>1 DEF ReadItem, Item
  <2>3. QED
    BY <1>1, <1>5, <2>2 DEF ReadFrame
<1> HIDE DEF m
<1>8. Torn(m) \/ Repeated(m) \/ Closed(m) \/ Named(m)
  BY <1>6, <1>7, HeaderRead
<1>9. Len(toR') = 0
  BY <1>1, <1>6, <1>7, FrameTaken
<1>10. {"ACK", "NAK", "C"} \subseteq Replies
  BY DEF Replies
<1>11. Files' = Files /\ sizes' = sizes /\ batch' = batch
  BY <1>1 DEF Untouched, Files
<1>12. CASE Torn(m)
  <2>1. disk' = disk /\ toS' = toS /\ rcv'.at = "failed"
    BY <1>12, ReceiverIs DEF Torn
  <2>2. NoAck'
    BY <1>6, <2>1 DEF NoAck
  <2>3. Phases'
    BY <1>1, <1>3, <2>1, <2>2, GoneKeeps DEF Ended
  <2>4. Copied'
    BY <1>1, <2>1, CopiedKept
  <2>5. QED
    BY <2>3, <2>4
<1>13. CASE Repeated(m)
  <2>1. disk' = disk /\ rcv' = rcv /\ toS' = toS \o <<"NAK", "C">>
    BY <1>13 DEF Repeated
  <2>2. Len(toS') = 2 /\ toS'[1] = "NAK" /\ toS'[2] = "C"
    <3>1. /\ Len(toS') = Len(toS) + 2 /\ toS'[Len(toS) + 1] = "NAK" /\ toS'[Len(toS) + 2] = "C"
      BY <1>10, <2>1, RepliedTwo
    <3>2. Len(toS) + 1 = 1 /\ Len(toS) + 2 = 2
      BY <1>6
    <3>3. QED
      BY <3>1, <3>2
  <2>3. NoAck'
    <3>1. \A i \in 1..Len(toS') : i = 1 \/ i = 2
      BY <2>2
    <3>2. QED
      BY <2>2, <3>1 DEF NoAck
  <2>4. Before(snd.file)'
    BY <1>1, <1>3, <1>4, <2>1, BeforeStays
  <2>5. AtHeaded'
    BY <1>1, <1>2, <1>5, <1>9, <1>11, <2>1, <2>3, <2>4 DEF AtHeaded, Ended
  <2>6. Phases'
    BY <1>1, <2>5 DEF Phases
  <2>7. Copied'
    BY <1>1, <1>5, <2>1, CopiedKept
  <2>8. QED
    BY <2>6, <2>7
<1>14. CASE Closed(m)
  <2>1. NullFrame.file = 0
    BY DEF NullFrame, HeaderFrame
  <2>2. QED
    BY <1>4, <1>6, <1>14, <2>1 DEF Closed
<1>15. CASE Named(m)
  <2>1. IsHeader(m)
    BY <1>6 DEF Headers, IsHeader, HasBody
  <2>2. /\ rcv' = [rcv EXCEPT !.at = "core", !.file = f, !.expected = 1, !.tries = 0]
        /\ toS' = toS \o <<"ACK", "C">> /\ disk' = [disk EXCEPT ![f] = <<>>]
    BY <1>6, <1>15, <2>1 DEF Named
  <2>3. rcv'.at = "core" /\ rcv'.file = f /\ rcv'.expected = 1
    BY <2>2, NamedIs
  <2>4. Len(toS') = 2 /\ toS'[2] = "C"
    <3>1. Len(toS') = Len(toS) + 2 /\ toS'[Len(toS) + 2] = "C"
      BY <1>10, <2>2, RepliedTwo
    <3>2. Len(toS) + 2 = 2
      BY <1>6
    <3>3. QED
      BY <3>1, <3>2
  <2>5. disk'[f] = Count(0) /\ \A g \in Files : g # f => disk'[g] = disk[g]
    <3>1. disk \in [{Stray} \cup Files -> Seq(Nat)]
      BY DEF TypeOK
    <3>2. QED
      BY <2>2, <3>1, CountNone
  <2>6. Before(snd.file)'
    <3>1. \A g \in Files : g < f => disk'[g] = disk[g]
      BY <1>4, <2>5 DEF TypeOK
    <3>2. QED
      BY <1>1, <1>3, <1>4, <1>11, <3>1 DEF Before, Whole, Original
  <2>7. AtHeaded'
    BY <1>1, <1>2, <1>3, <1>9, <1>11, <2>3, <2>4, <2>6 DEF AtHeaded, Ended
  <2>8. Phases'
    BY <1>1, <2>7 DEF Phases
  <2>9. Copied'
    <3>1. \A g \in Files : \E n \in 0..sizes[g] : disk'[g] = Count(n)
      <4>1. 0 \in 0..sizes[f]
        BY <1>4
      <4>2. QED
        BY <2>5, <4>1 DEF Copied
    <3>2. (\A g \in Files : \E n \in 0..sizes[g] : disk[g] = Count(n))'
      BY <1>11, <3>1 DEF Count
    <3>3. rcv'.expected - 1 = 0
      BY <2>3
    <3>4. (rcv.at = "core" => rcv.file \in Files /\ disk[rcv.file] = Count(rcv.expected - 1))'
      BY <1>11, <2>3, <2>5, <3>3 DEF Count
    <3>5. QED
      BY <2>3, <3>2, <3>4 DEF Copied
  <2>10. QED
    BY <2>8, <2>9
<1>16. QED
  BY <1>8, <1>12, <1>13, <1>14, <1>15

\* The receiver reads after the sender's last file.
LEMMA EndReads ==
  ASSUME TypeOK, Phases, Copied, snd.at \in {"ended", "done"}, ReceiverReads
  PROVE  Phases' /\ Copied'
<1> DEFINE m == Head(toR)
<1>1. /\ toR # <<>> /\ snd' = snd /\ faults' = faults /\ Untouched
      /\ (ReadItem(m) \/ ReadFrame(m))
  BY ReceiverReadsIs
<1>2. AtEnd /\ Len(toR) \in Nat \ {0} /\ m = toR[1]
  BY <1>1, FrameNext DEF Phases
<1>3. \A f \in Files : Whole(f)
  BY <1>2, AllBefore DEF AtEnd
<1>4. 1 \in 1..Len(toR)
  BY <1>2
<1>5. CASE rcv.at = "core"
  <2>1. ~batch /\ m = Item("eot")
    BY <1>2, <1>4, <1>5 DEF AtEnd, OnlyEots
  <2>2. Eot
    <3>1. m.type = "eot"
      BY <2>1 DEF Item
    <3>2. m \notin Blocks \cup Headers /\ m # Item("can") /\ m # Item("noise")
      <4>1. m \notin Blocks \cup Headers
        BY <3>1 DEF Blocks, Headers
      <4>2. Item("can").type = "can" /\ Item("noise").type = "noise"
        BY DEF Item
      <4>3. QED
        BY <3>1, <4>1, <4>2
    <3> HIDE DEF m
    <3>3. QED
      BY <1>1, <1>5, <3>2 DEF ReadItem, ReadFrame
  <2>3. SingleEot
    BY <2>1, <2>2, EotRead
  <2>4. disk' = disk /\ rcv'.at = "done"
    BY <2>3, ReceiverIs DEF SingleEot
  <2>5. Phases'
    BY <1>1, <2>4, GoneKeeps DEF Ended
  <2>6. Copied'
    BY <1>1, <2>1, <2>4, CopiedKept
  <2>7. QED
    BY <2>5, <2>6
<1>6. CASE rcv.at = "header" /\ m = Item("eot")
  BY <1>3, <1>6, DoneReads
<1>7. CASE rcv.at = "header" /\ HeaderOf(0, m)
  <2>1. m \in Headers /\ m.file = 0
    BY <1>7 DEF HeaderOf
  <2>2. ReceiveHeader(m) /\ toR' = Tail(toR)
    <3>1. m.type = "block"
      BY <2>1 DEF Headers
    <3> HIDE DEF m
    <3>2. ~ReadItem(m)
      BY <3>1 DEF ReadItem, Item
    <3>3. QED
      BY <1>1, <1>7, <3>2 DEF ReadFrame
  <2> HIDE DEF m
  <2>3. Torn(m) \/ Repeated(m) \/ Closed(m) \/ Named(m)
    BY <2>1, <2>2, HeaderRead
  <2>4. CASE Torn(m) \/ Closed(m)
    <3>1. disk' = disk /\ rcv'.at \in Ended
      BY <2>4, ReceiverIs DEF Torn, Closed, Ended
    <3>2. Phases'
      BY <1>1, <3>1, GoneKeeps
    <3>3. Copied'
      BY <1>1, <1>3, <3>1, CopiedKept DEF Ended
    <3>4. QED
      BY <3>2, <3>3
  <2>5. CASE Repeated(m)
    <3>1. disk' = disk /\ rcv' = rcv
      BY <2>5 DEF Repeated
    <3>2. Len(toR') = Len(toR) - 1 /\ \A p \in 1..Len(toR) - 1 : toR'[p] = toR[p + 1]
      BY <1>1, <2>2, FrameTaken
    <3>3. \A i \in 1..Len(toR) : toR[i] = Item("eot") \/ HeaderOf(0, toR[i])
      BY <1>2, <1>7 DEF AtEnd
    <3>4. (\A i \in 1..Len(toR) : toR[i] = Item("eot") \/ HeaderOf(0, toR[i]))'
      <4>1. \A i \in 1..Len(toR') : i + 1 \in 1..Len(toR) /\ toR'[i] = toR[i + 1]
        BY <1>2, <3>2
      <4>2. \A i \in 1..Len(toR') : toR'[i] = Item("eot") \/ HeaderOf(0, toR'[i])
        BY <3>3, <4>1
      <4>3. QED
        BY <4>2 DEF HeaderOf, Headers
    <3>5. PICK f \in Nat : f = snd.file
      BY Typed
    <3>6. Before(snd.file)' /\ snd'.file = FileCount' + 1
      <4>1. Before(f) /\ f = FileCount + 1
        BY <1>2, <3>5 DEF AtEnd
      <4>2. FileCount' = FileCount
        BY <1>1 DEF Untouched, FileCount, Files
      <4>3. QED
        BY <1>1, <3>1, <3>5, <4>1, <4>2, BeforeStays
    <3>7. AtEnd'
      BY <1>7, <3>1, <3>4, <3>6 DEF AtEnd
    <3>8. Phases'
      BY <1>1, <3>7 DEF Phases
    <3>9. Copied'
      BY <1>1, <1>7, <3>1, CopiedKept
    <3>10. QED
      BY <3>8, <3>9
  <2>6. CASE Named(m)
    <3>1. Fine(m) /\ m # NullFrame
      BY <2>6 DEF Named
    <3>2. m = [type |-> "block", num |-> 0, body |-> 0, crc |-> TRUE, good |-> m.good,
               header |-> m.header, whole |-> m.whole, file |-> m.file]
      BY <2>1 DEF Headers
    <3>3. m.good = TRUE /\ m.header = TRUE /\ m.whole = TRUE
      BY <2>1, <3>1 DEF Fine, Headers
    <3>4. m = NullFrame
      BY <2>1, <3>2, <3>3 DEF NullFrame, HeaderFrame
    <3>5. QED
      BY <3>1, <3>4
  <2>7. QED
    BY <2>3, <2>4, <2>5, <2>6
<1>8. rcv.at \in {"core", "header"}
  BY <1>1 DEF ReadItem, ReadFrame
<1>9. rcv.at = "header" => m = Item("eot") \/ HeaderOf(0, m)
  BY <1>2, <1>4 DEF AtEnd
<1>10. QED
  BY <1>5, <1>6, <1>7, <1>8, <1>9

\* The receiver reads that the sender has given up.
LEMMA FailedReads ==
  ASSUME TypeOK, Phases, Copied, snd.at = "failed", ReceiverReads
  PROVE  Phases' /\ Copied'
<1> DEFINE m == Head(toR)
<1>1. /\ toR # <<>> /\ snd' = snd /\ faults' = faults /\ Untouched
      /\ (ReadItem(m) \/ ReadFrame(m))
  BY ReceiverReadsIs
<1>2. rcv.at \in {"core", "header"} /\ rcv.at \notin Ended
  BY <1>1 DEF ReadItem, ReadFrame, Ended
<1>3. m = Item("can")
  <2>1. 1 \in 1..Len(toR) /\ m = toR[1]
    BY <1>1, FrameNext
  <2>2. QED
    BY <1>2, <2>1 DEF Phases, AtFailed
<1>4. Failed /\ disk' = disk
  <2>1. m.type = "can"
    BY <1>3 DEF Item
  <2>2. m \notin Blocks \cup Headers
    BY <2>1 DEF Blocks, Headers
  <2>3. Item("eot").type = "eot" /\ Item("noise").type = "noise"
    BY DEF Item
  <2> HIDE DEF m
  <2>4. m # Item("eot") /\ m # Item("noise")
    BY <2>1, <2>3
  <2>5. QED
    BY <1>1, <2>2, <2>4 DEF ReadItem, ReadFrame
<1>5. rcv'.at = "failed"
  BY <1>4, ReceiverIs
<1>6. Phases'
  BY <1>1, <1>4, <1>5, GoneKeeps DEF Ended
<1>7. Copied'
  BY <1>1, <1>4, <1>5, CopiedKept
<1>8. QED
  BY <1>6, <1>7

LEMMA ReceiverReadsKeeps ==
  ASSUME TypeOK, Phases, Copied, ReceiverReads
  PROVE  Phases' /\ Copied'
<1> DEFINE m == Head(toR)
<1>1. Len(toR) \in Nat \ {0} /\ rcv.at \in {"core", "header"}
  BY ReceiverReadsIs, FrameNext DEF ReadItem, ReadFrame
<1>2. snd.at \notin {"init", "asked"}
  BY <1>1 DEF Phases, AtInit, AtAsked
<1>3. snd.at \in SenderAts
  BY Typed
<1>4. QED
  BY <1>2, <1>3, DataReads, EotReads, AskReads, HeadedReads, EndReads, FailedReads DEF SenderAts


-----------------------------------------------------------------------------
(***************************************************************************)
(* Time-outs of the receiver over a paced line.                            *)
(***************************************************************************)

\* The receiver asks once more.
LEMMA AskedAgain ==
  ASSUME TypeOK, Phases, Untouched, snd' = snd, toR' = toR, disk' = disk, faults' = faults,
         rcv.at = "core", Counted, NEW b \in {"C", "NAK"}, Replied(b),
         Len(toR) = 0, Len(toS) = 0 \/ snd.at \in Ended
  PROVE  Phases'
<1>1. rcv'.at = "core" /\ rcv'.file = rcv.file /\ rcv'.expected = rcv.expected
  BY ReceiverIs
<1>2. snd.at \notin Ended => Len(toS') = 1 /\ toS'[1] = b /\ NoAck'
  <2>1. ASSUME snd.at \notin Ended PROVE Len(toS') = 1 /\ toS'[1] = b
    <3>1. Len(toS') = Len(toS) + 1 /\ toS'[Len(toS) + 1] = b
      BY RepliedOne DEF Replies
    <3>2. Len(toS) + 1 = 1
      BY <2>1
    <3>3. QED
      BY <3>1, <3>2
  <2>2. QED
    BY <2>1 DEF NoAck
<1>3. OnlyEots' /\ Len(toR') = 0
  BY DEF OnlyEots
<1>4. batch' = batch /\ Files' = Files /\ FileCount' = FileCount /\ sizes' = sizes
  BY DEF Untouched, Files, FileCount
<1>5. PICK f \in Nat : f = snd.file
  BY Typed
<1>6. (Before(f) => Before(snd.file)') /\ (Before(f + 1) => Before(snd.file + 1)')
  BY <1>5, BeforeStays
<1>7. snd.at = "init" => AtInit'
  <2>1. ASSUME snd.at = "init" PROVE AtInit'
    <3>1. AtInit /\ Len(toS') = 1
      BY <1>2, <2>1 DEF Phases, Ended
    <3>2. (disk[1] = Count(0))'
      BY <3>1 DEF AtInit, Count
    <3>3. QED
      BY <1>1, <1>3, <1>4, <3>1, <3>2 DEF AtInit
  <2>2. QED
    BY <2>1
<1>8. snd.at = "data" => Phases'
  <2>1. ASSUME snd.at = "data" PROVE Phases'
    <3>1. AtData /\ Len(toS') = 1 /\ toS'[1] # "ACK"
      BY <1>2, <2>1 DEF Phases, Ended
    <3>2. Before(snd.file)'
      BY <1>5, <1>6, <3>1 DEF AtData
    <3>3. PICK g \in Files, k \in Nat : g = snd.file /\ k = snd.block
      BY <3>1, Typed DEF AtData
    <3>4. k <= sizes[g] /\ rcv.file = g /\ rcv.expected \in {k, k + 1}
      BY <3>1, <3>3 DEF AtData
    <3>5. QED
      BY <1>1, <1>3, <2>1, <3>1, <3>2, <3>3, <3>4, DataStays
  <2>2. QED
    BY <2>1
<1>9. snd.at = "eot" => AtEot'
  <2>1. ASSUME snd.at = "eot" PROVE AtEot'
    <3>1. AtEot /\ Len(toS') = 1 /\ NoAck'
      BY <1>2, <2>1 DEF Phases, Ended
    <3>2. Before(snd.file + 1)'
      BY <1>5, <1>6, <3>1 DEF AtEot
    <3>3. QED
      BY <1>1, <1>3, <1>4, <3>1, <3>2 DEF AtEot, Ended
  <2>2. QED
    BY <2>1
<1>10. snd.at \notin {"ask", "askend"}
  BY DEF Phases, AtAsk, AtAskEnd
<1>11. snd.at = "headed" => AtHeaded'
  <2>1. ASSUME snd.at = "headed" PROVE AtHeaded'
    <3>1. AtHeaded /\ Len(toS') = 1
      BY <1>2, <2>1 DEF Phases, Ended
    <3>2. Before(snd.file)'
      BY <1>5, <1>6, <3>1 DEF AtHeaded
    <3>3. QED
      BY <1>1, <1>3, <1>4, <3>1, <3>2 DEF AtHeaded, Ended
  <2>2. QED
    BY <2>1
<1>12. snd.at = "asked" => AtAsked'
  <2>1. ASSUME snd.at = "asked" PROVE AtAsked'
    <3>1. AtAsked /\ Len(toS') = 1 /\ NoAck'
      BY <1>2, <2>1 DEF Phases, Ended
    <3>2. Before(snd.file)'
      BY <1>5, <1>6, <3>1 DEF AtAsked
    <3>3. QED
      BY <1>1, <1>3, <1>4, <3>1, <3>2 DEF AtAsked, Ended
  <2>2. QED
    BY <2>1
<1>13. snd.at \in {"ended", "done"} => AtEnd'
  <2>1. ASSUME snd.at \in {"ended", "done"} PROVE AtEnd'
    <3>1. AtEnd
      BY <2>1 DEF Phases
    <3>2. Before(snd.file)'
      BY <1>5, <1>6, <3>1 DEF AtEnd
    <3>3. QED
      BY <1>1, <1>3, <1>4, <3>1, <3>2 DEF AtEnd
  <2>2. QED
    BY <2>1
<1>14. AtFailed'
  BY <1>3 DEF AtFailed
<1>15. QED
  BY <1>7, <1>8, <1>9, <1>10, <1>11, <1>12, <1>13, <1>14 DEF Phases

LEMMA ReceiverTimesOutKeeps ==
  ASSUME TypeOK, Phases, Copied, ReceiverTimesOut
  PROVE  Phases' /\ Copied'
<1>1. /\ snd' = snd /\ toR' = toR /\ disk' = disk /\ faults' = faults /\ Untouched
      /\ ReceiverStarves /\ ReceiverWaited
  BY DEF ReceiverTimesOut, Untouched
<1>2. Asked \/ Gone
  BY <1>1, ReceiverWaitedIs
<1>3. Len(toR) = 0 /\ (Len(toS) = 0 \/ snd.at \in Ended)
  BY <1>1, Empty DEF ReceiverStarves, TypeOK
<1>4. CASE Failed /\ toS' = toS
  <2>1. rcv'.at = "failed" /\ rcv'.file = rcv.file /\ rcv'.expected = rcv.expected
    BY <1>4, ReceiverIs
  <2>2. Copied'
    BY <1>1, <2>1, CopiedKept
  <2>3. CASE snd.at = "init"
    <3>1. AtInit
      BY <2>3 DEF Phases
    <3>2. (disk[1] = Count(0))'
      BY <1>1, <3>1 DEF AtInit, Count
    <3>3. AtInit'
      BY <1>1, <1>4, <2>1, <3>1, <3>2 DEF AtInit, Untouched
    <3>4. QED
      BY <1>1, <2>2, <2>3, <3>3 DEF Phases
  <2>4. CASE snd.at # "init"
    <3>1. snd.at \in {"data", "headed"} => NoAck'
      BY <1>3, <1>4 DEF NoAck, Ended
    <3>2. /\ snd.at = "eot" => Len(toS') <= 2
          /\ snd.at = "ask" => Len(toS') <= 1
          /\ snd.at = "asked" => Len(toS') = 0
      BY <1>3, <1>4 DEF Ended
    <3>3. Phases'
      BY <1>1, <2>1, <2>4, <3>1, <3>2, GoneKeeps DEF Ended
    <3>4. QED
      BY <2>2, <3>3
  <2>5. QED
    BY <2>3, <2>4
<1>5. CASE rcv.at = "core" /\ Counted /\ \E b \in {"C", "NAK"} : Replied(b)
  <2>1. PICK b \in {"C", "NAK"} : Replied(b)
    BY <1>5
  <2>2. Phases'
    BY <1>1, <1>3, <1>5, <2>1, AskedAgain
  <2>3. rcv'.at = "core" /\ rcv'.file = rcv.file /\ rcv'.expected = rcv.expected
    BY <1>5, ReceiverIs
  <2>4. Copied'
    BY <1>1, <1>5, <2>3, CopiedKept
  <2>5. QED
    BY <2>2, <2>4
<1>6. QED
  BY <1>2, <1>4, <1>5 DEF Asked, Gone


-----------------------------------------------------------------------------
(***************************************************************************)
(* The line, as long as it adds nothing.                                   *)
(***************************************************************************)

\* The second frame is what the line may make of the first one.
AsGood(m, n) ==
  /\ m \in Items => n = m
  /\ m \in Blocks => n \in Blocks /\ n.body = m.body
  /\ m \in Headers => n \in Headers /\ n.file = m.file

Thinned ==
  /\ Len(toR') \in Nat /\ Len(toS') \in Nat /\ Len(toR') <= Len(toR) /\ Len(toS') <= Len(toS)
  /\ \A p \in 1..Len(toR') : \E q \in 1..Len(toR) : AsGood(toR[q], toR'[p])
  /\ \A p \in 1..Len(toS') : toS'[p] = "ACK" => \E q \in 1..Len(toS) : toS[q] = "ACK"
  /\ Len(toS') = Len(toS) => \A p \in 1..Len(toS') : toS'[p] = "ACK" => toS[p] = "ACK"
  /\ faults'["lose"] + Len(toR') >= faults["lose"] + Len(toR)

LEMMA GoodIsGood ==
  ASSUME NEW m \in Frames
  PROVE  AsGood(m, m)
BY DEF AsGood

LEMMA LineThins ==
  ASSUME TypeOK, Line, faults'["noise"] = 0
  PROVE  Thinned
<1>1. /\ toR \in Seq(Frames) /\ toS \in Seq(Replies) /\ faults \in [Kinds -> Nat]
      /\ Len(toR) \in Nat /\ Len(toS) \in Nat /\ faults["lose"] \in Nat /\ faults["noise"] \in Nat
      /\ \A p \in 1..Len(toR) : toR[p] \in Frames
  BY Empty DEF TypeOK, Kinds
<1>2. FrameSpoilt \/ FrameLost \/ ReplyGarbled \/ ReplyLost
  <2>1. Spent("noise") => faults'["noise"] = faults["noise"] + 1
    BY <1>1 DEF Spent, Kinds
  <2>2. ~Spent("noise")
    BY <1>1, <2>1
  <2>3. QED
    BY <2>2, LineIs DEF FrameAdded, ReplyAdded
<1>3. \A p \in 1..Len(toR) : AsGood(toR[p], toR[p])
  BY <1>1, GoodIsGood
<1>4. CASE FrameSpoilt
  <2>1. PICK i \in 1..Len(toR), kind \in {"damage", "garble", "cut"}, n \in Blocks \cup Headers :
          /\ Spent(kind) /\ toS' = toS /\ HasBody(toR[i])
          /\ toR' = [toR EXCEPT ![i] = n] /\ n.body = toR[i].body
          /\ n \in Blocks <=> toR[i] \in Blocks
          /\ n \in Headers => n.file = toR[i].file
    BY <1>4 DEF FrameSpoilt
  <2>2. Len(toR') = Len(toR) /\ \A p \in 1..Len(toR) : toR'[p] = IF p = i THEN n ELSE toR[p]
    BY <1>1, <2>1, Changed, FramesAre
  <2>3. AsGood(toR[i], n)
    <3>1. toR[i] \in Frames /\ toR[i].type = "block"
      BY <1>1, <2>1 DEF HasBody
    <3>2. toR[i] \notin Items
      BY <3>1 DEF Items, Item
    <3>3. toR[i] \in Blocks => toR[i] \notin Headers
      BY DEF Blocks, Headers
    <3>4. n \in Blocks => n \notin Headers
      BY DEF Blocks, Headers
    <3>5. QED
      BY <2>1, <3>2, <3>3, <3>4 DEF AsGood
  <2>4. \A p \in 1..Len(toR') : \E q \in 1..Len(toR) : AsGood(toR[q], toR'[p])
    BY <1>3, <2>2, <2>3
  <2>5. faults'["lose"] = faults["lose"]
    BY <1>1, <2>1 DEF Spent, Kinds
  <2>6. QED
    BY <1>1, <2>1, <2>2, <2>4, <2>5 DEF Thinned
<1>5. CASE FrameLost
  <2>1. PICK i \in 1..Len(toR) : Spent("lose") /\ toS' = toS /\ toR' = Without(toR, i)
    BY <1>5 DEF FrameLost
  <2>2. Len(toR') = Len(toR) - 1
        /\ \A p \in 1..Len(toR) - 1 : toR'[p] = toR[IF p < i THEN p ELSE p + 1]
    BY <1>1, <2>1, Dropped
  <2>3. \A p \in 1..Len(toR') : \E q \in 1..Len(toR) : AsGood(toR[q], toR'[p])
    <3>1. ASSUME NEW p \in 1..Len(toR')
          PROVE  \E q \in 1..Len(toR) : AsGood(toR[q], toR'[p])
      <4>1. PICK q \in 1..Len(toR) : toR'[p] = toR[q]
        <5>1. p \in 1..Len(toR) - 1
          BY <1>1, <2>2
        <5>2. (IF p < i THEN p ELSE p + 1) \in 1..Len(toR)
          BY <1>1, <5>1
        <5>3. QED
          BY <2>2, <5>1, <5>2
      <4>2. QED
        BY <1>3, <4>1
    <3>2. QED
      BY <3>1
  <2>4. faults'["lose"] = faults["lose"] + 1
    BY <1>1, <2>1 DEF Spent, Kinds
  <2>5. QED
    BY <1>1, <2>1, <2>2, <2>3, <2>4 DEF Thinned
<1>6. CASE ReplyGarbled
  <2>1. PICK i \in 1..Len(toS) :
          Spent("garble") /\ toR' = toR /\ toS' = [toS EXCEPT ![i] = "noise"]
    BY <1>6 DEF ReplyGarbled
  <2>2. Len(toS') = Len(toS) /\ \A p \in 1..Len(toS) : toS'[p] = IF p = i THEN "noise" ELSE toS[p]
    BY <1>1, <2>1, Changed DEF Replies
  <2>3. \A p \in 1..Len(toR') : \E q \in 1..Len(toR) : AsGood(toR[q], toR'[p])
    BY <1>3, <2>1
  <2>4. faults'["lose"] = faults["lose"]
    BY <1>1, <2>1 DEF Spent, Kinds
  <2>5. \A p \in 1..Len(toS') : toS'[p] = "ACK" => toS[p] = "ACK" /\ p \in 1..Len(toS)
    BY <2>2
  <2>6. QED
    BY <1>1, <2>1, <2>2, <2>3, <2>4, <2>5 DEF Thinned
<1>7. CASE ReplyLost
  <2>1. PICK i \in 1..Len(toS) : Spent("lose") /\ toR' = toR /\ toS' = Without(toS, i)
    BY <1>7 DEF ReplyLost
  <2>2. Len(toS') = Len(toS) - 1
        /\ \A p \in 1..Len(toS) - 1 : toS'[p] = toS[IF p < i THEN p ELSE p + 1]
    BY <1>1, <2>1, Dropped
  <2>3. ASSUME NEW p \in 1..Len(toS'), toS'[p] = "ACK"
        PROVE  \E q \in 1..Len(toS) : toS[q] = "ACK"
    <3>1. p \in 1..Len(toS) - 1
      BY <1>1, <2>2
    <3>2. (IF p < i THEN p ELSE p + 1) \in 1..Len(toS)
      BY <1>1, <3>1
    <3>3. QED
      BY <2>2, <2>3, <3>1, <3>2
  <2>4. \A p \in 1..Len(toR') : \E q \in 1..Len(toR) : AsGood(toR[q], toR'[p])
    BY <1>3, <2>1
  <2>5. faults'["lose"] = faults["lose"] + 1
    BY <1>1, <2>1 DEF Spent, Kinds
  <2>6. QED
    BY <1>1, <2>1, <2>2, <2>3, <2>4, <2>5 DEF Thinned
<1>8. QED
  BY <1>2, <1>4, <1>5, <1>6, <1>7

LEMMA StutterThins ==
  ASSUME TypeOK, UNCHANGED vars
  PROVE  Thinned
<1>1. /\ toR' = toR /\ toS' = toS /\ faults' = faults
      /\ Len(toR) \in Nat /\ Len(toS) \in Nat /\ faults["lose"] \in Nat
      /\ \A p \in 1..Len(toR) : toR[p] \in Frames
  BY Empty DEF TypeOK, Kinds, vars
<1>2. \A p \in 1..Len(toR') : \E q \in 1..Len(toR) : AsGood(toR[q], toR'[p])
  BY <1>1, GoodIsGood
<1>3. QED
  BY <1>1, <1>2 DEF Thinned

\* What was known of what is on its way is still known.
LEMMA ThinIs ==
  ASSUME TypeOK, Thinned
  PROVE  /\ OnlyEots => OnlyEots'
         /\ NoAck => NoAck'
         /\ (\A i \in 1..Len(toR) : toR[i] = Item("can")) => \A i \in 1..Len(toR') : toR'[i] = Item("can")
         /\ (\A i \in 1..Len(toR) : toR[i] = Item("eot") \/ HeaderOf(0, toR[i])) =>
              \A i \in 1..Len(toR') : toR'[i] = Item("eot") \/ HeaderOf(0, toR'[i])
         /\ \A k : Len(toR) = 1 /\ Len(toR') = 1 /\ BlockOf(k, toR[1]) => BlockOf(k, toR'[1])
         /\ \A f : Len(toR) = 1 /\ Len(toR') = 1 /\ HeaderOf(f, toR[1]) => HeaderOf(f, toR'[1])
<1>1. \A m, n : AsGood(m, n) => /\ m = Item("eot") => n = Item("eot")
                                /\ m = Item("can") => n = Item("can")
                                /\ \A k : BlockOf(k, m) => BlockOf(k, n)
                                /\ \A f : HeaderOf(f, m) => HeaderOf(f, n)
  BY DEF AsGood, Items, BlockOf, HeaderOf
<1>2. \A p \in 1..Len(toR') : \E q \in 1..Len(toR) : AsGood(toR[q], toR'[p])
  BY DEF Thinned
<1>3. OnlyEots => OnlyEots'
  BY <1>1, <1>2 DEF OnlyEots
<1>4. NoAck => NoAck'
  BY DEF Thinned, NoAck
<1>5. (\A i \in 1..Len(toR) : toR[i] = Item("can")) => \A i \in 1..Len(toR') : toR'[i] = Item("can")
  BY <1>1, <1>2
<1>6. (\A i \in 1..Len(toR) : toR[i] = Item("eot") \/ HeaderOf(0, toR[i])) =>
         \A i \in 1..Len(toR') : toR'[i] = Item("eot") \/ HeaderOf(0, toR'[i])
  BY <1>1, <1>2
<1>7. Len(toR) = 1 /\ Len(toR') = 1 => AsGood(toR[1], toR'[1])
  <2>1. ASSUME Len(toR) = 1, Len(toR') = 1 PROVE AsGood(toR[1], toR'[1])
    <3>1. 1 \in 1..Len(toR') /\ \A q \in 1..Len(toR) : q = 1
      BY <2>1
    <3>2. QED
      BY <1>2, <3>1
  <2>2. QED
    BY <2>1
<1>8. QED
  BY <1>1, <1>3, <1>4, <1>5, <1>6, <1>7


LEMMA ThinKeeps ==
  ASSUME TypeOK, TypeOK', Phases, Thinned, snd' = snd, rcv' = rcv, disk' = disk, Untouched
  PROVE  Phases'
<1>0. /\ snd'.at = snd.at /\ snd'.file = snd.file /\ snd'.block = snd.block
      /\ snd'.tries = snd.tries /\ snd'.again = snd.again
  OBVIOUS
<1>1. /\ Len(toR') \in Nat /\ Len(toS') \in Nat /\ Len(toR') <= Len(toR) /\ Len(toS') <= Len(toS)
      /\ Len(toR) \in Nat /\ Len(toS) \in Nat
      /\ faults'["lose"] + Len(toR') >= faults["lose"] + Len(toR)
      /\ Len(toS') = Len(toS) => \A p \in 1..Len(toS') : toS'[p] = "ACK" => toS[p] = "ACK"
  BY Empty DEF Thinned, TypeOK
<1>a. /\ \A a, b \in Nat : a <= b /\ b = 0 => a = 0
      /\ \A a, b \in Nat : a <= b /\ b <= 1 => (a = 0 \/ a = 1) /\ (a = 1 => b = 1 /\ 1 \in 1..a)
      /\ \A a, b \in Nat : a <= b /\ b <= 2 /\ a = 2 => b = 2 /\ 2 \in 1..a
  OBVIOUS
<1>b. /\ Len(toR') \in Nat /\ Len(toS') \in Nat /\ Len(toR) \in Nat /\ Len(toS) \in Nat
      /\ Len(toR') <= Len(toR) /\ Len(toS') <= Len(toS)
  BY <1>1
<1>c. (Len(toS) = 0 => Len(toS') = 0) /\ (Len(toR) = 0 => Len(toR') = 0)
  BY <1>a, <1>b
<1>d. Len(toR) = 1 => Len(toR') = 0 \/ Len(toR') = 1
  <2>1. \A a, b \in Nat : a <= b /\ b = 1 => a = 0 \/ a = 1
    OBVIOUS
  <2>2. QED
    BY <1>b, <2>1
<1>e. Len(toS) <= 2 /\ Len(toS') = 2 => Len(toS) = 2 /\ 2 \in 1..Len(toS')
  BY <1>a, <1>b
<1>2. batch' = batch /\ Files' = Files /\ FileCount' = FileCount /\ sizes' = sizes
  BY DEF Untouched, Files, FileCount
<1>3. PICK f \in Nat : f = snd.file
  BY Typed
<1>4. (Before(f) => Before(snd.file)') /\ (Before(f + 1) => Before(snd.file + 1)')
  BY <1>3, BeforeStays
<1>5. (OnlyEots => OnlyEots') /\ (NoAck => NoAck')
  BY ThinIs
<1>6. snd.at = "init" => AtInit'
  <2>1. ASSUME snd.at = "init" PROVE AtInit'
    <3>1. AtInit
      BY <2>1 DEF Phases
    <3>2. (disk[1] = Count(0))'
      BY <3>1 DEF AtInit, Count
    <3>3. Len(toR') = 0 /\ Len(toS') <= 1
      BY <1>1, <3>1 DEF AtInit
    <3>4. QED
      BY <1>0, <1>2, <3>1, <3>2, <3>3 DEF AtInit
  <2>2. QED
    BY <2>1
<1>7. snd.at = "data" => AtData'
  <2>1. ASSUME snd.at = "data" PROVE AtData'
    <3>1. AtData
      BY <2>1 DEF Phases
    <3>2. Before(snd.file)'
      BY <1>3, <1>4, <3>1 DEF AtData
    <3>3. ASSUME rcv.at = "core", Len(toR) = 0, Len(toS) <= 1,
                 Len(toS) = 1 /\ toS[1] = "ACK" => rcv.expected = snd.block + 1
          PROVE  /\ Len(toR') = 0 /\ Len(toS') <= 1
                 /\ Len(toS') = 1 /\ toS'[1] = "ACK" => rcv'.expected = snd'.block + 1
      <4>1. Len(toR') = 0 /\ Len(toS') <= 1 /\ (Len(toS') = 1 => Len(toS) = 1 /\ 1 \in 1..Len(toS'))
        BY <1>a, <1>b, <3>3
      <4>2. QED
        BY <1>0, <1>1, <3>3, <4>1
    <3>4. ASSUME rcv.at = "core", Len(toS) = 0, Len(toR) = 1, BlockOf(snd.block, toR[1])
          PROVE  \/ Len(toR') = 0 /\ Len(toS') = 0
                 \/ Len(toS') = 0 /\ Len(toR') = 1 /\ BlockOf(snd.block, toR[1])'
      <4>1. PICK k \in Nat : k = snd.block
        BY Typed
      <4>2. Len(toS') = 0 /\ (Len(toR') = 0 \/ Len(toR') = 1)
        BY <1>c, <1>d, <3>4
      <4>3. Len(toR') = 1 => BlockOf(k, toR'[1])
        BY <3>4, <4>1, ThinIs
      <4>4. Len(toR') = 1 => BlockOf(snd.block, toR[1])'
        BY <1>0, <4>1, <4>3 DEF BlockOf, Blocks
      <4>5. QED
        BY <4>2, <4>4
    <3>5. rcv'.at = "core" =>
            \/ /\ Len(toR') = 0 /\ Len(toS') <= 1
               /\ Len(toS') = 1 /\ toS'[1] = "ACK" => rcv'.expected = snd'.block + 1
            \/ Len(toS') = 0 /\ Len(toR') = 1 /\ BlockOf(snd.block, toR[1])'
      BY <3>1, <3>3, <3>4 DEF AtData
    <3>6. /\ snd'.file \in Files' /\ snd'.block <= sizes'[snd'.file] /\ rcv'.at # "header"
          /\ rcv'.at = "core" => rcv'.file = snd'.file /\ rcv'.expected \in {snd'.block, snd'.block + 1}
          /\ rcv'.at \in Ended => NoAck'
      BY <1>2, <1>5, <3>1 DEF AtData
    <3>7. QED
      BY <3>2, <3>5, <3>6 DEF AtData
  <2>2. QED
    BY <2>1
<1>8. snd.at = "eot" => AtEot'
  <2>1. ASSUME snd.at = "eot" PROVE AtEot'
    <3>1. AtEot
      BY <2>1 DEF Phases
    <3>2. Before(snd.file + 1)'
      BY <1>3, <1>4, <3>1 DEF AtEot
    <3>3. snd.tries \in Nat /\ faults["lose"] \in Nat
      BY Typed DEF TypeOK, Kinds
    <3>4. rcv'.at = "core" =>
            /\ rcv'.file = snd'.file /\ Len(toS') + Len(toR') <= 1 /\ OnlyEots' /\ NoAck'
      BY <1>1, <1>5, <3>1 DEF AtEot
    <3>5. rcv'.at = "core" => faults'["lose"] + Len(toR') >= snd'.tries + 1
      <4>1. ASSUME rcv.at = "core" PROVE faults'["lose"] + Len(toR') >= snd.tries + 1
        <5>1. faults["lose"] + Len(toR) >= snd.tries + 1
          BY <3>1, <4>1 DEF AtEot
        <5>2. faults'["lose"] \in Nat
          BY DEF TypeOK, Kinds
        <5>3. QED
          BY <1>1, <3>3, <5>1, <5>2
      <4>2. QED
        BY <4>1
    <3>6. rcv'.at = "header" =>
            batch' /\ OnlyEots' /\ Len(toS') + Len(toR') <= 2 /\ (~snd'.again => Len(toR') = 0)
      BY <1>1, <1>2, <1>5, <3>1 DEF AtEot
    <3>7. rcv'.at \in Ended => Len(toS') <= 2
      BY <1>1, <3>1 DEF AtEot
    <3>8. snd'.file \in Files' /\ snd'.tries < MaxEots /\ (~snd'.again => snd'.tries = 0)
      BY <1>2, <3>1 DEF AtEot
    <3>9. QED
      BY <3>2, <3>4, <3>5, <3>6, <3>7, <3>8 DEF AtEot
  <2>2. QED
    BY <2>1
<1>9. snd.at = "ask" => AtAsk'
  <2>1. ASSUME snd.at = "ask" PROVE AtAsk'
    <3>1. AtAsk
      BY <2>1 DEF Phases
    <3>2. Before(snd.file)'
      BY <1>3, <1>4, <3>1 DEF AtAsk
    <3>3. rcv'.at = "header" =>
            OnlyEots' /\ Len(toS') + Len(toR') <= 1 /\ (~snd'.again => Len(toR') = 0)
      BY <1>1, <1>5, <3>1 DEF AtAsk
    <3>4. rcv'.at \in Ended => Len(toS') <= 1
      BY <1>1, <3>1 DEF AtAsk
    <3>5. batch' /\ snd'.file \in Files' /\ rcv'.at # "core"
      BY <1>2, <3>1 DEF AtAsk
    <3>6. QED
      BY <3>2, <3>3, <3>4, <3>5 DEF AtAsk
  <2>2. QED
    BY <2>1
<1>10. snd.at = "headed" => AtHeaded'
  <2>1. ASSUME snd.at = "headed" PROVE AtHeaded'
    <3>1. AtHeaded
      BY <2>1 DEF Phases
    <3>2. Before(snd.file)'
      BY <1>3, <1>4, <3>1 DEF AtHeaded
    <3>3. ASSUME rcv.at = "header"
          PROVE  \/ Len(toR') = 0 /\ NoAck'
                 \/ Len(toS') = 0 /\ Len(toR') = 1 /\ HeaderOf(snd.file, toR[1])'
      <4>1. CASE Len(toR) = 0 /\ NoAck
        BY <1>1, <1>5, <4>1
      <4>2. CASE Len(toS) = 0 /\ Len(toR) = 1 /\ HeaderOf(snd.file, toR[1])
        <5>1. Len(toS') = 0 /\ (Len(toR') = 0 \/ Len(toR') = 1)
          BY <1>c, <1>d, <4>2
        <5>2. Len(toR') = 1 => HeaderOf(f, toR'[1])
          BY <1>3, <4>2, ThinIs
        <5>3. Len(toR') = 1 => HeaderOf(snd.file, toR[1])'
          BY <1>0, <1>3, <5>2 DEF HeaderOf, Headers
        <5>4. NoAck'
          BY <5>1 DEF NoAck
        <5>5. QED
          BY <5>1, <5>3, <5>4
      <4>3. QED
        BY <3>1, <3>3, <4>1, <4>2 DEF AtHeaded
    <3>4. ASSUME rcv.at = "core"
          PROVE  /\ rcv'.file = snd'.file /\ rcv'.expected = 1
                 /\ Len(toR') = 0 /\ Len(toS') <= 2 /\ (Len(toS') = 2 => toS'[2] # "ACK")
      <4>1. /\ rcv.file = snd.file /\ rcv.expected = 1 /\ Len(toR) = 0 /\ Len(toS) <= 2
            /\ Len(toS) = 2 => toS[2] # "ACK"
        BY <3>1, <3>4 DEF AtHeaded
      <4>2. Len(toS') = 2 => Len(toS) = 2 /\ 2 \in 1..Len(toS')
        BY <1>e, <4>1
      <4>3. Len(toS') = 2 => toS'[2] # "ACK"
        BY <1>1, <4>1, <4>2
      <4>4. Len(toR') = 0 /\ Len(toS') <= 2
        BY <1>1, <4>1
      <4>5. QED
        BY <1>0, <4>1, <4>3, <4>4
    <3>5. batch' /\ snd'.file \in Files' /\ (rcv'.at \in Ended => NoAck')
      BY <1>2, <1>5, <3>1 DEF AtHeaded
    <3>6. QED
      BY <3>2, <3>3, <3>4, <3>5 DEF AtHeaded
  <2>2. QED
    BY <2>1
<1>11. snd.at = "asked" => AtAsked'
  <2>1. ASSUME snd.at = "asked" PROVE AtAsked'
    <3>1. AtAsked
      BY <2>1 DEF Phases
    <3>2. Before(snd.file)'
      BY <1>3, <1>4, <3>1 DEF AtAsked
    <3>3. rcv'.at = "core" =>
            rcv'.file = snd'.file /\ rcv'.expected = 1 /\ Len(toR') = 0 /\ Len(toS') <= 1 /\ NoAck'
      BY <1>1, <1>5, <3>1 DEF AtAsked
    <3>4. rcv'.at \in Ended => Len(toS') = 0
      BY <1>1, <3>1 DEF AtAsked
    <3>5. batch' /\ snd'.file \in Files' /\ rcv'.at # "header"
      BY <1>2, <3>1 DEF AtAsked
    <3>6. QED
      BY <3>2, <3>3, <3>4, <3>5 DEF AtAsked
  <2>2. QED
    BY <2>1
<1>12. snd.at = "askend" => AtAskEnd'
  <2>1. ASSUME snd.at = "askend" PROVE AtAskEnd'
    <3>1. AtAskEnd
      BY <2>1 DEF Phases
    <3>2. Before(snd.file)'
      BY <1>3, <1>4, <3>1 DEF AtAskEnd
    <3>3. QED
      BY <1>2, <1>5, <3>1, <3>2 DEF AtAskEnd
  <2>2. QED
    BY <2>1
<1>13. snd.at \in {"ended", "done"} => AtEnd'
  <2>1. ASSUME snd.at \in {"ended", "done"} PROVE AtEnd'
    <3>1. AtEnd
      BY <2>1 DEF Phases
    <3>2. Before(snd.file)'
      BY <1>3, <1>4, <3>1 DEF AtEnd
    <3>3. rcv'.at = "header" =>
            \A i \in 1..Len(toR') : toR'[i] = Item("eot") \/ HeaderOf(0, toR'[i])
      BY <3>1, ThinIs DEF AtEnd
    <3>4. rcv'.at = "header" =>
            (\A i \in 1..Len(toR) : toR[i] = Item("eot") \/ HeaderOf(0, toR[i]))'
      BY <3>3 DEF HeaderOf, Headers
    <3>5. QED
      BY <1>2, <1>5, <3>1, <3>2, <3>4 DEF AtEnd
  <2>2. QED
    BY <2>1
<1>14. snd.at = "failed" => AtFailed'
  BY ThinIs DEF Phases, AtFailed
<1>15. QED
  BY <1>0, <1>6, <1>7, <1>8, <1>9, <1>10, <1>11, <1>12, <1>13, <1>14 DEF Phases

-----------------------------------------------------------------------------
(***************************************************************************)
(* The theorems about a paced line.                                        *)
(***************************************************************************)

LEMMA InitTyped ==
  ASSUME Init
  PROVE  TypeOK
<1>1. PICK n \in IF batch THEN 1..MaxFiles ELSE {1} :
        sizes \in [1..n -> 0..IF batch THEN BatchBlocks ELSE MaxBlocks]
  BY DEF Init
<1>2. n \in Nat \ {0} /\ (~batch => n = 1)
  BY <1>1
<1>3. Files = 1..n /\ sizes \in [1..n -> Nat]
  BY <1>1, BlocksAssumption DEF Files
<1>4. FileCount = n
  <2>1. IsFiniteSet(1..n) /\ Cardinality(1..n) = n
    <3>1. 1 \in Int /\ n \in Int /\ n - 1 + 1 = n /\ ~ (1 > n)
      BY <1>2
    <3>2. Cardinality(1..n) = IF 1 > n THEN 0 ELSE n - 1 + 1
      BY <3>1, FS_Interval
    <3>3. QED
      BY <3>1, <3>2, FS_Interval
  <2>2. QED
    BY <1>3, <2>1 DEF FileCount
<1>5. snd \in Senders
  BY DEF Init, Senders, SenderAts
<1>6. rcv \in Receivers /\ toS \in Seq(Replies)
  <2>1. PICK crc \in BOOLEAN :
          /\ rcv = [at |-> IF batch THEN "header" ELSE "core", file |-> 1,
                    expected |-> 1, crc |-> crc, tries |-> 0]
          /\ toS = <<IF crc THEN "C" ELSE "NAK">>
    BY DEF Init
  <2>2. rcv \in Receivers
    BY <2>1 DEF Receivers, ReceiverAts
  <2> DEFINE b == IF crc THEN "C" ELSE "NAK"
  <2>3. b \in Replies
    BY DEF Replies
  <2> HIDE DEF b
  <2>4. <<b>> \in Seq(Replies)
    BY <2>3
  <2>5. QED
    BY <2>1, <2>2, <2>4 DEF b
<1>7. toR \in Seq(Frames)
  BY EmptySeq DEF Init
<1>8. disk \in [{Stray} \cup Files -> Seq(Nat)]
  <2>1. <<>> \in Seq(Nat)
    BY EmptySeq
  <2>2. QED
    BY <2>1 DEF Init
<1>9. faults \in [Kinds -> Nat] /\ batch \in BOOLEAN
  BY DEF Init
<1>10. QED
  BY <1>2, <1>3, <1>4, <1>5, <1>6, <1>7, <1>8, <1>9 DEF TypeOK

LEMMA InitPaced ==
  ASSUME Init
  PROVE  PacedInv
<1>1. TypeOK
  BY InitTyped
<1>2. /\ snd.at = IF batch THEN "ask" ELSE "init"
      /\ snd.file = 1 /\ snd.again = FALSE
      /\ rcv.at = IF batch THEN "header" ELSE "core"
      /\ rcv.file = 1 /\ rcv.expected = 1
  BY DEF Init
<1>3. Len(toR) = 0 /\ Len(toS) = 1 /\ toR = <<>>
  <2>1. toR = <<>> /\ Len(toR) = 0
    BY EmptySeq DEF Init
  <2>2. Len(toS) = 1
    BY DEF Init
  <2>3. QED
    BY <2>1, <2>2
<1>4. \A f \in {Stray} \cup Files : disk[f] = Count(0)
  BY CountNone DEF Init
<1>5. 1 \in Files /\ Before(1)
  <2>1. 1 \in Files /\ \A f \in Files : ~ (f < 1)
    BY <1>1 DEF TypeOK
  <2>2. QED
    BY <2>1 DEF Before
<1>6. Copied
  <2>1. \A f \in Files : \E n \in 0..sizes[f] : disk[f] = Count(n)
    <3>1. \A f \in Files : 0 \in 0..sizes[f]
      BY <1>1 DEF TypeOK
    <3>2. QED
      BY <1>4, <3>1
  <2>2. rcv.at = "core" => rcv.file \in Files /\ disk[rcv.file] = Count(rcv.expected - 1)
    <3>1. rcv.expected - 1 = 0
      BY <1>2
    <3>2. QED
      BY <1>2, <1>4, <1>5, <3>1
  <2>3. rcv.at # "done"
    BY <1>2
  <2>4. QED
    BY <2>1, <2>2, <2>3 DEF Copied
<1>7. Phases
  <2>1. CASE batch
    <3>1. AtAsk
      BY <1>2, <1>3, <1>5, <2>1 DEF AtAsk, OnlyEots, Ended
    <3>2. QED
      BY <1>2, <2>1, <3>1 DEF Phases
  <2>2. CASE ~batch
    <3>1. AtInit
      BY <1>2, <1>3, <1>4, <1>5, <2>2 DEF AtInit
    <3>2. QED
      BY <1>2, <2>2, <3>1 DEF Phases
  <2>3. QED
    BY <2>1, <2>2
<1>8. QED
  BY <1>6, <1>7 DEF PacedInv


\* A line that is paced after a step was paced before it.
LEMMA PacedStays ==
  ASSUME TypeOK, TypeOK', Grown, Paced'
  PROVE  Paced
<1>1. \A kind \in {"noise", "late", "lose"} :
        faults[kind] \in Nat /\ faults'[kind] \in Nat /\ faults'[kind] >= faults[kind]
  BY DEF TypeOK, Grown, Kinds
<1>2. faults'["noise"] = 0 /\ faults'["late"] = 0 /\ faults'["lose"] < MaxEots
  BY DEF Paced
<1>3. QED
  BY <1>1, <1>2, TriesAssumption DEF Paced

LEMMA StepPaced ==
  ASSUME TypeOK, TypeOK', PacedInv, [Next]_vars
  PROVE  PacedInv'
<1>1. SUFFICES ASSUME Paced' PROVE Phases' /\ Copied'
  BY DEF PacedInv
<1>2. Untouched /\ Grown
  BY StepTyped
<1>3. Paced /\ Phases /\ Copied
  BY <1>1, <1>2, PacedStays DEF PacedInv
<1>4. ASSUME rcv' = rcv, disk' = disk, snd'.again \in {snd.again, TRUE} PROVE Copied'
  <2>1. batch /\ rcv'.at = "done" /\ ~snd'.again => \A f \in Files : Whole(f)
    BY <1>3, <1>4 DEF Copied
  <2>2. QED
    BY <1>2, <1>3, <1>4, <2>1, CopiedKept
<1>5. CASE SenderReads
  <2>1. Phases' /\ snd'.again \in {snd.again, TRUE}
    BY <1>3, <1>5, SenderReadsKeeps
  <2>2. rcv' = rcv /\ disk' = disk
    BY <1>5 DEF SenderReads
  <2>3. QED
    BY <1>4, <2>1, <2>2
<1>6. CASE ReceiverReads
  BY <1>3, <1>6, ReceiverReadsKeeps
<1>7. CASE SenderTimesOut
  <2>1. Phases' /\ snd'.again \in {snd.again, TRUE}
    BY <1>3, <1>7, SenderTimesOutKeeps
  <2>2. rcv' = rcv /\ disk' = disk
    BY <1>7 DEF SenderTimesOut
  <2>3. QED
    BY <1>4, <2>1, <2>2
<1>8. CASE ReceiverTimesOut
  BY <1>3, <1>8, ReceiverTimesOutKeeps
<1>9. CASE Late
  <2>1. Spent("late") /\ faults \in [Kinds -> Nat]
    BY <1>9 DEF Late, Spend, Spent, TypeOK
  <2>2. faults'["late"] = faults["late"] + 1 /\ faults["late"] \in Nat
    BY <2>1 DEF Spent, Kinds
  <2>3. faults'["late"] = 0
    BY <1>1 DEF Paced
  <2>4. QED
    BY <2>2, <2>3
<1>10. CASE Line
  <2>1. faults'["noise"] = 0
    BY <1>1 DEF Paced
  <2>2. Thinned /\ snd' = snd /\ rcv' = rcv /\ disk' = disk
    BY <1>10, <2>1, LineThins, LineIs
  <2>3. Phases'
    BY <1>2, <1>3, <2>2, ThinKeeps
  <2>4. QED
    BY <1>4, <2>2, <2>3
<1>11. CASE UNCHANGED vars
  <2>1. Thinned /\ snd' = snd /\ rcv' = rcv /\ disk' = disk
    BY <1>11, StutterThins DEF vars
  <2>2. Phases'
    BY <1>2, <1>3, <2>1, ThinKeeps
  <2>3. QED
    BY <1>4, <2>1, <2>2
<1>12. QED
  BY <1>5, <1>6, <1>7, <1>8, <1>9, <1>10, <1>11 DEF Next

\* The types of the ends, of what is on its way, of the files and their
\* copies: a block on its way has the number of its body.
THEOREM TypesKept == Spec => []TypeOK
<1>1. Init => TypeOK
  BY InitTyped
<1>2. TypeOK /\ [Next]_vars => TypeOK'
  BY StepTyped
<1>3. QED
  BY <1>1, <1>2, PTL DEF Spec

\* Over a paced line, where the sender is tells where the receiver can be,
\* what is on its way and which copies are whole.
THEOREM PacedAlways == Spec => []PacedInv
<1>1. Init => PacedInv
  BY InitPaced
<1>2. TypeOK /\ TypeOK' /\ PacedInv /\ [Next]_vars => PacedInv'
  BY StepPaced
<1>3. QED
  BY <1>1, <1>2, TypesKept, PTL DEF Spec

\* When the sender ends a file its copy is whole, whatever is damaged,
\* garbled, cut or lost (send_core).
THEOREM WholeWhenEnded == Spec => []WholeAtEot
<1>1. TypeOK /\ PacedInv => WholeAtEot
  <2>1. SUFFICES ASSUME TypeOK, PacedInv, Paced, NEW f \in Files,
                        (snd.file = f /\ snd.at = "eot") \/ (snd.file > f /\ snd.at # "failed")
                 PROVE  Whole(f)
    BY DEF WholeAtEot
  <2>2. Phases
    BY <2>1 DEF PacedInv
  <2>3. f \in Nat /\ snd.file \in Nat /\ snd.at \in SenderAts /\ (f < snd.file => f < snd.file + 1)
    BY <2>1, Typed DEF TypeOK
  <2>4. CASE snd.at = "eot"
    <3>1. Before(snd.file + 1)
      BY <2>2, <2>4 DEF Phases, AtEot
    <3>2. f < snd.file + 1
      BY <2>1, <2>3, <2>4
    <3>3. QED
      BY <3>1, <3>2 DEF Before
  <2>5. CASE snd.at # "eot" /\ snd.at # "init"
    <3>1. snd.at # "failed" /\ f < snd.file
      BY <2>1, <2>3, <2>5
    <3>2. Before(snd.file)
      BY <2>2, <2>3, <2>5, <3>1
         DEF Phases, AtData, AtAsk, AtHeaded, AtAsked, AtAskEnd, AtEnd, SenderAts
    <3>3. QED
      BY <3>1, <3>2 DEF Before
  <2>6. CASE snd.at = "init"
    <3>1. snd.file = 1 /\ f >= 1
      BY <2>1, <2>2, <2>6 DEF Phases, AtInit, TypeOK
    <3>2. QED
      BY <2>1, <2>3, <2>6, <3>1
  <2>7. QED
    BY <2>4, <2>5, <2>6
<1>2. QED
  BY <1>1, TypesKept, PacedAlways, PTL

\* A receiver that reports a batch after the null header has all its files
\* (YmodemReceiver::receive).
THEOREM BatchesWhole == Spec => []BatchWhole
<1>1. PacedInv => BatchWhole
  BY DEF PacedInv, Copied, BatchWhole
<1>2. QED
  BY <1>1, PacedAlways, PTL


-----------------------------------------------------------------------------
(***************************************************************************)
(* On a good line one frame or its answer is on its way, and it is the one *)
(* that the other end waits for.                                           *)
(***************************************************************************)

OnWay(m)    == Len(toS) = 0 /\ Len(toR) = 1 /\ toR[1] = m
Answer(b)   == Len(toR) = 0 /\ Len(toS) = 1 /\ toS[1] = b
Answers     == Len(toR) = 0 /\ Len(toS) = 2 /\ toS[1] = "ACK" /\ toS[2] = "C"

CleanInit   == rcv.at = "core" /\ Answer(InitChar)
CleanData   ==
  /\ rcv.at = "core" /\ snd.crc = rcv.crc
  /\ \/ OnWay(BlockFrame(snd.block, snd.crc)) /\ rcv.expected = snd.block
     \/ Answer("ACK") /\ rcv.expected = snd.block + 1
CleanEot    ==
  \/ rcv.at = "core" /\ OnWay(Item("eot"))
  \/ batch /\ rcv.at = "header" /\ Answers
  \/ ~batch /\ rcv.at = "done" /\ Answer("ACK")
CleanAsk    == rcv.at = "header" /\ Answer("C")
CleanHeaded ==
  \/ rcv.at = "header" /\ OnWay(HeaderFrame(snd.file))
  \/ rcv.at = "core" /\ Answers
CleanAsked  == rcv.at = "core" /\ Answer("C")
CleanEnded  ==
  \/ rcv.at = "header" /\ OnWay(NullFrame)
  \/ rcv.at = "done" /\ Answer("ACK")

AtClean ==
  /\ snd.at = "init"   => CleanInit
  /\ snd.at = "data"   => CleanData
  /\ snd.at = "eot"    => CleanEot
  /\ snd.at \in {"ask", "askend"} => CleanAsk
  /\ snd.at = "headed" => CleanHeaded
  /\ snd.at = "asked"  => CleanAsked
  /\ snd.at = "ended"  => CleanEnded
  /\ snd.at = "done"   => rcv.at = "done"
  /\ snd.at # "failed"
  /\ batch => rcv.crc

Clean == Used = 0 => AtClean

\* What a reply becomes when it is read, and what a frame brings.
LEMMA AnswerRead ==
  ASSUME TypeOK, SenderReads
  PROVE  /\ \A b : Answer(b) => Head(toS) = b /\ Len(toS') = 0
         /\ Answers => Head(toS) = "ACK" /\ Len(toS') = 1 /\ toS'[1] = "C"
         /\ Len(toS) # 0
<1>1. /\ Len(toS) \in Nat \ {0} /\ Head(toS) = toS[1] /\ Len(toS') = Len(toS) - 1
      /\ \A p \in 1..Len(toS) - 1 : toS'[p] = toS[p + 1]
  BY HeadTaken
<1>2. ASSUME NEW b, Answer(b) PROVE Head(toS) = b /\ Len(toS') = 0
  BY <1>1, <1>2 DEF Answer
<1>3. ASSUME Answers PROVE Head(toS) = "ACK" /\ Len(toS') = 1 /\ toS'[1] = "C"
  <2>1. Len(toS) - 1 = 1 /\ toS[1] = "ACK" /\ toS[2] = "C"
    BY <1>3 DEF Answers
  <2>2. 1 \in 1..Len(toS) - 1 /\ 1 + 1 = 2
    BY <2>1
  <2>3. QED
    BY <1>1, <2>1, <2>2
<1>4. QED
  BY <1>1, <1>2, <1>3

LEMMA SentClean ==
  ASSUME TypeOK, Len(toR) = 0, Len(toS') = 0, NEW m \in Frames, SendR(<<m>>)
  PROVE  OnWay(m)'
<1>1. Len(toR') = Len(toR) + 1 /\ toR'[Len(toR) + 1] = m /\ Len(toR) + 1 = 1
  BY SentOne
<1>2. QED
  BY <1>1 DEF OnWay

\* The first thing a file sends, once it may.
LEMMA OfferClean ==
  ASSUME TypeOK, NEW f \in Files, NEW k \in Nat \ {0}, NEW c \in BOOLEAN, Offer(f, k, c),
         Len(toR) = 0, Len(toS') = 0, rcv' = rcv, batch' = batch,
         rcv.at = "core", rcv.expected = k, c = rcv.crc, batch => rcv.crc
  PROVE  AtClean'
<1>1. /\ snd'.at = IF k > sizes[f] THEN "eot" ELSE "data"
      /\ snd'.block = k /\ snd'.crc = c /\ Len(toR') = Len(toR) + 1
      /\ toR'[Len(toR) + 1] = IF k > sizes[f] THEN Item("eot") ELSE BlockFrame(k, c)
  <2> DEFINE a == IF k > sizes[f] THEN "eot" ELSE "data"
             m == IF k > sizes[f] THEN Item("eot") ELSE BlockFrame(k, c)
  <2>1. snd'.at = a /\ toR'[Len(toR) + 1] = m
    BY OfferIs
  <2> HIDE DEF a, m
  <2>2. snd'.block = k /\ snd'.crc = c /\ Len(toR') = Len(toR) + 1
    BY OfferIs
  <2>3. QED
    BY <2>1, <2>2 DEF a, m
<1>2. Len(toR') = 1 /\ toR'[1] = IF k > sizes[f] THEN Item("eot") ELSE BlockFrame(k, c)
  <2>1. Len(toR) + 1 = 1
    OBVIOUS
  <2>2. QED
    BY <1>1, <2>1
<1>3. CASE k > sizes[f]
  <2>1. OnWay(Item("eot"))'
    BY <1>2, <1>3 DEF OnWay
  <2>2. CleanEot'
    BY <2>1 DEF CleanEot
  <2>3. snd'.at = "eot"
    BY <1>1, <1>3
  <2>4. QED
    BY <2>2, <2>3 DEF AtClean
<1>4. CASE ~ (k > sizes[f])
  <2>1. OnWay(BlockFrame(snd.block, snd.crc))'
    BY <1>1, <1>2, <1>4 DEF OnWay, BlockFrame
  <2>2. CleanData'
    BY <1>1, <2>1 DEF CleanData
  <2>3. snd'.at = "data"
    BY <1>1, <1>4
  <2>4. QED
    BY <2>2, <2>3 DEF AtClean
<1>5. QED
  BY <1>3, <1>4

LEMMA SenderReadsClean ==
  ASSUME TypeOK, Phases, AtClean, SenderReads
  PROVE  AtClean'
<1> DEFINE b == Head(toS)
<1>1. /\ rcv' = rcv /\ batch' = batch /\ snd.at \notin Ended
      /\ SenderInit(b) \/ SenderData(b) \/ SenderEot(b = "ACK") \/ SenderHeader(b)
  BY DEF SenderReads
<1>2. /\ \A c : Answer(c) => b = c /\ Len(toS') = 0
      /\ Answers => b = "ACK" /\ Len(toS') = 1 /\ toS'[1] = "C"
      /\ Len(toS) # 0
  BY AnswerRead
<1>3. \A m : ~OnWay(m)
  BY <1>2 DEF OnWay
<1>4. snd.at \in SenderAts /\ rcv.crc \in BOOLEAN /\ snd.block + 1 \in Nat \ {0} /\ (batch => rcv.crc)
  BY Typed DEF AtClean
<1>5. \A a \in SenderAts : SenderAt(a) => snd'.at = a /\ snd'.file = snd.file
  BY SenderAtIs
<1>6. {"headed", "asked", "ended", "done"} \subseteq SenderAts
  BY DEF SenderAts
<1> HIDE DEF b
<1>7. CASE snd.at = "init"
  <2>1. rcv.at = "core" /\ Answer(InitChar)
    BY <1>7 DEF AtClean, CleanInit
  <2>2. b = InitChar /\ Len(toS') = 0 /\ Len(toR) = 0
    BY <1>2, <2>1 DEF Answer
  <2> DEFINE c == b = "C"
  <2>3. Offer(1, 1, c)
    BY <1>1, <1>7, <2>2 DEF SenderInit, SenderData, SenderEot, SenderHeader, InitChar
  <2>4. c = rcv.crc /\ c \in BOOLEAN
    BY <1>4, <2>2 DEF InitChar
  <2>5. 1 \in Files /\ rcv.expected = 1 /\ 1 \in Nat \ {0}
    BY <1>7 DEF Phases, AtInit, TypeOK
  <2> HIDE DEF c
  <2>6. QED
    BY <1>1, <1>4, <2>1, <2>2, <2>3, <2>4, <2>5, OfferClean
<1>8. CASE snd.at = "data"
  <2>1. rcv.at = "core" /\ snd.crc = rcv.crc /\ Answer("ACK") /\ rcv.expected = snd.block + 1
    BY <1>3, <1>8 DEF AtClean, CleanData
  <2>2. b = "ACK" /\ Len(toS') = 0 /\ Len(toR) = 0
    BY <1>2, <2>1 DEF Answer
  <2>3. Offer(snd.file, snd.block + 1, snd.crc)
    BY <1>1, <1>8, <2>2 DEF SenderInit, SenderData, SenderEot, SenderHeader
  <2>4. snd.file \in Files /\ snd.crc \in BOOLEAN
    BY <1>4, <1>8, <2>1 DEF Phases, AtData
  <2>5. QED
    BY <1>1, <1>4, <2>1, <2>2, <2>3, <2>4, OfferClean
<1>9. CASE snd.at = "eot"
  <2>1. \/ batch /\ rcv.at = "header" /\ Answers
        \/ ~batch /\ rcv.at = "done" /\ Answer("ACK")
    BY <1>3, <1>9 DEF AtClean, CleanEot
  <2>2. b = "ACK" /\ Len(toR) = 0
    BY <1>2, <2>1 DEF Answer, Answers
  <2>3. FileSent /\ toR' = toR
    BY <1>1, <1>9, <2>2 DEF SenderInit, SenderData, SenderEot, SenderHeader, Quietly
  <2>4. snd'.at \in IF batch THEN {"ask", "askend"} ELSE {"done"}
    BY <2>3 DEF FileSent, TypeOK, Senders
  <2>5. CASE batch
    <3>1. Answer("C")'
      BY <1>2, <2>1, <2>2, <2>3, <2>5 DEF Answer
    <3>2. rcv'.at = "header" /\ rcv'.crc
      BY <1>1, <1>4, <2>1, <2>5
    <3>3. CleanAsk'
      BY <3>1, <3>2 DEF CleanAsk
    <3>4. QED
      BY <2>4, <2>5, <3>2, <3>3 DEF AtClean
  <2>6. CASE ~batch
    BY <1>1, <2>1, <2>4, <2>6 DEF AtClean
  <2>7. QED
    BY <2>5, <2>6
<1>10. CASE snd.at \in {"ask", "askend"}
  <2>1. rcv.at = "header" /\ Answer("C")
    BY <1>10 DEF AtClean, CleanAsk
  <2>2. b = "C" /\ Len(toS') = 0 /\ Len(toR) = 0
    BY <1>2, <2>1 DEF Answer
  <2>3. CASE snd.at = "ask"
    <3>1. SenderAt("headed") /\ SendR(<<HeaderFrame(snd.file)>>)
      BY <1>1, <2>2, <2>3 DEF SenderInit, SenderData, SenderEot, SenderHeader
    <3>2. PICK f \in Nat : f = snd.file
      BY Typed
    <3>3. HeaderFrame(f) \in Frames
      BY FramesAre
    <3>4. OnWay(HeaderFrame(f))'
      BY <2>2, <3>1, <3>2, <3>3, SentClean
    <3>5. snd'.at = "headed" /\ snd'.file = f
      BY <1>5, <1>6, <3>1, <3>2
    <3>6. OnWay(HeaderFrame(snd.file))'
      BY <3>4, <3>5 DEF OnWay, HeaderFrame
    <3>7. CleanHeaded'
      BY <1>1, <2>1, <3>6 DEF CleanHeaded
    <3>8. QED
      BY <1>1, <1>4, <3>5, <3>7 DEF AtClean
  <2>4. CASE snd.at = "askend"
    <3>1. SenderAt("ended") /\ SendR(<<NullFrame>>)
      BY <1>1, <2>2, <2>4 DEF SenderInit, SenderData, SenderEot, SenderHeader
    <3>2. NullFrame \in Frames
      BY FramesAre
    <3>3. OnWay(NullFrame)'
      BY <2>2, <3>1, <3>2, SentClean
    <3>4. CleanEnded'
      BY <1>1, <2>1, <3>3 DEF CleanEnded
    <3>5. snd'.at = "ended"
      BY <1>5, <1>6, <3>1
    <3>6. QED
      BY <1>1, <1>4, <3>4, <3>5 DEF AtClean
  <2>5. QED
    BY <1>10, <2>3, <2>4
<1>11. CASE snd.at = "headed"
  <2>1. rcv.at = "core" /\ Answers
    BY <1>3, <1>11 DEF AtClean, CleanHeaded
  <2>2. b = "ACK" /\ Len(toR) = 0 /\ Len(toS') = 1 /\ toS'[1] = "C"
    BY <1>2, <2>1 DEF Answers
  <2>3. SenderAt("asked") /\ toR' = toR
    BY <1>1, <1>11, <2>2 DEF SenderInit, SenderData, SenderEot, SenderHeader, Quietly
  <2>4. Answer("C")'
    BY <2>2, <2>3 DEF Answer
  <2>5. CleanAsked'
    BY <1>1, <2>1, <2>4 DEF CleanAsked
  <2>6. snd'.at = "asked"
    BY <1>5, <1>6, <2>3
  <2>7. QED
    BY <1>1, <1>4, <2>5, <2>6 DEF AtClean
<1>12. CASE snd.at = "asked"
  <2>1. rcv.at = "core" /\ Answer("C")
    BY <1>12 DEF AtClean, CleanAsked
  <2>2. b = "C" /\ Len(toS') = 0 /\ Len(toR) = 0
    BY <1>2, <2>1 DEF Answer
  <2>3. Offer(snd.file, 1, TRUE)
    BY <1>1, <1>12, <2>2 DEF SenderInit, SenderData, SenderEot, SenderHeader
  <2>4. batch /\ snd.file \in Files /\ rcv.expected = 1
    BY <1>12, <2>1 DEF Phases, AtAsked
  <2> DEFINE c == TRUE
  <2>5. c \in BOOLEAN /\ c = rcv.crc /\ 1 \in Nat \ {0} /\ Offer(snd.file, 1, c)
    <3>1. rcv.crc = TRUE
      BY <1>4, <2>4
    <3>2. TRUE \in BOOLEAN /\ 1 \in Nat \ {0}
      OBVIOUS
    <3>3. QED
      BY <2>3, <3>1, <3>2
  <2> HIDE DEF c
  <2>6. QED
    BY <1>1, <1>4, <2>1, <2>2, <2>4, <2>5, OfferClean
<1>13. CASE snd.at = "ended"
  <2>1. rcv.at = "done"
    BY <1>3, <1>13 DEF AtClean, CleanEnded
  <2>2. SenderAt("done")
    BY <1>1, <1>13 DEF SenderInit, SenderData, SenderEot, SenderHeader
  <2>3. snd'.at = "done"
    BY <1>5, <1>6, <2>2
  <2>4. QED
    BY <1>1, <1>4, <2>1, <2>3 DEF AtClean
<1>14. QED
  BY <1>1, <1>4, <1>7, <1>8, <1>9, <1>10, <1>11, <1>12, <1>13 DEF SenderAts, Ended

\* What the receiver answers to the frame that was on its way.
LEMMA AnswerSent ==
  ASSUME TypeOK, toR # <<>>, toR' = Tail(toR), NEW m, OnWay(m)
  PROVE  /\ Head(toR) = m /\ Len(toR') = 0
         /\ \A b \in Replies : Replied(b) => Answer(b)'
         /\ toS' = toS \o <<"ACK", "C">> => Answers'
<1>1. Head(toR) = m /\ Len(toR') = 0 /\ Len(toS) + 1 = 1 /\ Len(toS) + 2 = 2
  BY FrameNext, FrameTaken DEF OnWay
<1>2. ASSUME NEW b \in Replies, Replied(b) PROVE Answer(b)'
  BY <1>1, <1>2, RepliedOne DEF Answer
<1>3. ASSUME toS' = toS \o <<"ACK", "C">> PROVE Answers'
  <2>1. "ACK" \in Replies /\ "C" \in Replies
    BY DEF Replies
  <2>2. Len(toS') = 2 /\ toS'[1] = "ACK" /\ toS'[2] = "C"
    BY <1>1, <1>3, <2>1, RepliedTwo
  <2>3. QED
    BY <1>1, <2>2 DEF Answers
<1>4. QED
  BY <1>1, <1>2, <1>3


LEMMA ReceiverReadsClean ==
  ASSUME TypeOK, Phases, AtClean, ReceiverReads
  PROVE  AtClean'
<1> DEFINE m == Head(toR)
<1>1. /\ toR # <<>> /\ snd' = snd /\ Untouched
      /\ (ReadItem(m) \/ ReadFrame(m))
  BY ReceiverReadsIs
<1>2. snd'.at = snd.at /\ snd'.file = snd.file /\ snd'.block = snd.block /\ snd'.crc = snd.crc
      /\ batch' = batch
  BY <1>1 DEF Untouched
<1>3. Len(toR) \in Nat \ {0} /\ m = toR[1] /\ rcv.at \in {"core", "header"}
  BY <1>1, FrameNext DEF ReadItem, ReadFrame
<1>4. \A b : ~Answer(b)
  BY <1>3 DEF Answer
<1>5. ~Answers
  BY <1>3 DEF Answers
<1>6. {"ACK", "C"} \subseteq Replies /\ snd.at \in SenderAts /\ (batch => rcv.crc)
  BY Typed DEF Replies, AtClean
<1>7. CASE snd.at = "data"
  <2> DEFINE k == snd.block
             c == snd.crc
             g == BlockFrame(k, c)
  <2>1. rcv.at = "core" /\ c = rcv.crc /\ OnWay(g) /\ rcv.expected = k
    BY <1>4, <1>7 DEF AtClean, CleanData
  <2>2. k \in Nat \ {0} /\ c \in BOOLEAN
    BY Typed
  <2>3. g \in Blocks /\ g.body = k /\ Fine(g) /\ g.crc = c /\ g.type = "block"
    <3>1. g \in Blocks
      BY <2>2, FramesAre
    <3>2. QED
      BY <3>1 DEF BlockFrame, Fine, HasBody
  <2> HIDE DEF k, c, g
  <2>4. m = g
    BY <1>3, <2>1 DEF OnWay
  <2>5. ReceiveBlock(g)
    <3>1. ~ReadItem(g)
      BY <2>3 DEF ReadItem, Item
    <3> HIDE DEF m
    <3>2. QED
      BY <1>1, <2>1, <2>4, <3>1 DEF ReadFrame
  <2>6. InSequence(g) /\ ~Duplicate(g)
    BY <2>1, <2>3, Numbered
  <2>7. Written(g)
    BY <2>1, <2>3, <2>5, <2>6, BlockRead DEF Refused, GivenUp, Again, Foreign
  <2>8. toR' = Tail(toR) /\ Replied("ACK") /\ rcv' = [rcv EXCEPT !.expected = k + 1, !.tries = 0]
    BY <2>1, <2>7 DEF Written
  <2>9. k + 1 \in Nat
    BY <2>2
  <2>10. rcv'.at = "core" /\ rcv'.expected = k + 1 /\ rcv'.crc = rcv.crc
    BY <2>1, <2>8, <2>9, ReceiverIs
  <2>11. Answer("ACK")'
    BY <1>1, <1>6, <2>1, <2>8, AnswerSent
  <2>12. CleanData'
    BY <1>2, <2>1, <2>10, <2>11 DEF CleanData, k, c
  <2>13. QED
    BY <1>2, <1>6, <1>7, <2>10, <2>12 DEF AtClean
<1>8. CASE snd.at = "eot"
  <2>1. rcv.at = "core" /\ OnWay(Item("eot"))
    BY <1>3, <1>4, <1>5, <1>8 DEF AtClean, CleanEot
  <2>2. m = Item("eot")
    BY <1>3, <2>1 DEF OnWay
  <2>3. Eot /\ toR' = Tail(toR)
    <3>1. m.type = "eot"
      BY <2>2 DEF Item
    <3>2. m \notin Blocks \cup Headers /\ m # Item("can") /\ m # Item("noise")
      <4>1. m \notin Blocks \cup Headers
        BY <3>1 DEF Blocks, Headers
      <4>2. Item("can").type = "can" /\ Item("noise").type = "noise"
        BY DEF Item
      <4>3. QED
        BY <3>1, <4>1, <4>2
    <3> HIDE DEF m
    <3>3. QED
      BY <1>1, <2>1, <3>2 DEF ReadItem, ReadFrame
  <2>4. (batch /\ BatchEot) \/ (~batch /\ SingleEot)
    BY <2>3, EotRead
  <2>5. CASE batch /\ BatchEot
    <3>1. rcv'.at = "header" /\ rcv'.crc = rcv.crc
      BY <2>5, ReceiverIs DEF BatchEot
    <3>2. Answers'
      BY <1>1, <2>1, <2>3, <2>5, AnswerSent DEF BatchEot
    <3>3. CleanEot'
      BY <1>2, <2>5, <3>1, <3>2 DEF CleanEot
    <3>4. QED
      BY <1>2, <1>6, <1>8, <3>1, <3>3 DEF AtClean
  <2>6. CASE ~batch /\ SingleEot
    <3>1. rcv'.at = "done"
      BY <2>6, ReceiverIs DEF SingleEot
    <3>2. Answer("ACK")'
      BY <1>1, <1>6, <2>1, <2>3, <2>6, AnswerSent DEF SingleEot
    <3>3. CleanEot'
      BY <1>2, <2>6, <3>1, <3>2 DEF CleanEot
    <3>4. QED
      BY <1>2, <1>8, <2>6, <3>3 DEF AtClean
  <2>7. QED
    BY <2>4, <2>5, <2>6
<1>9. CASE snd.at = "headed"
  <2>1. rcv.at = "header" /\ OnWay(HeaderFrame(snd.file))
    BY <1>5, <1>9 DEF AtClean, CleanHeaded
  <2>2. snd.file \in Nat \ {0}
    BY <1>9 DEF Phases, AtHeaded, TypeOK
  <2>3. PICK f \in Nat \ {0} : f = snd.file
    BY <2>2
  <2> DEFINE g == HeaderFrame(f)
  <2>4. g \in Headers /\ Fine(g) /\ g.file = f /\ g # NullFrame /\ IsHeader(g) /\ g.type = "block"
    <3>1. g \in Headers /\ g.file = f /\ NullFrame.file = 0 /\ g.type = "block"
      BY FramesAre DEF HeaderFrame, NullFrame
    <3>2. Fine(g) /\ IsHeader(g)
      BY DEF HeaderFrame, Fine, HasBody, IsHeader
    <3>3. g # NullFrame
      BY <2>3, <3>1
    <3>4. QED
      BY <3>1, <3>2, <3>3
  <2>5. OnWay(g)
    BY <2>1, <2>3
  <2> HIDE DEF g
  <2>6. m = g
    BY <1>3, <2>5 DEF OnWay
  <2>7. ReceiveHeader(g) /\ toR' = Tail(toR)
    <3>1. ~ReadItem(g)
      BY <2>4 DEF ReadItem, Item
    <3> HIDE DEF m
    <3>2. QED
      BY <1>1, <2>1, <2>6, <3>1 DEF ReadFrame
  <2>8. Named(g)
    BY <2>4, <2>7, HeaderRead DEF Torn, Repeated, Closed
  <2>9. /\ rcv' = [rcv EXCEPT !.at = "core", !.file = f, !.expected = 1, !.tries = 0]
        /\ toS' = toS \o <<"ACK", "C">>
    BY <2>4, <2>8 DEF Named
  <2>10. rcv'.at = "core" /\ rcv'.crc = rcv.crc
    BY <2>9, NamedIs
  <2>11. Answers'
    BY <1>1, <2>5, <2>7, <2>9, AnswerSent
  <2>12. CleanHeaded'
    BY <2>10, <2>11 DEF CleanHeaded
  <2>13. QED
    BY <1>2, <1>6, <1>9, <2>10, <2>12 DEF AtClean
<1>10. CASE snd.at = "ended"
  <2>1. rcv.at = "header" /\ OnWay(NullFrame)
    BY <1>4, <1>10 DEF AtClean, CleanEnded
  <2>2. NullFrame \in Headers /\ Fine(NullFrame) /\ NullFrame.type = "block"
    <3>1. NullFrame \in Headers
      BY FramesAre
    <3>2. QED
      BY <3>1 DEF NullFrame, HeaderFrame, Fine, HasBody
  <2>3. m = NullFrame
    BY <1>3, <2>1 DEF OnWay
  <2>4. ReceiveHeader(NullFrame) /\ toR' = Tail(toR)
    <3>1. ~ReadItem(NullFrame)
      BY <2>2 DEF ReadItem, Item
    <3> HIDE DEF m
    <3>2. QED
      BY <1>1, <2>1, <2>3, <3>1 DEF ReadFrame
  <2>5. Closed(NullFrame)
    BY <2>2, <2>4, HeaderRead DEF Torn, Repeated, Named
  <2>6. rcv'.at = "done" /\ rcv'.crc = rcv.crc /\ Replied("ACK")
    BY <2>5, ReceiverIs DEF Closed
  <2>7. Answer("ACK")'
    BY <1>1, <1>6, <2>1, <2>4, <2>6, AnswerSent
  <2>8. CleanEnded'
    BY <2>6, <2>7 DEF CleanEnded
  <2>9. QED
    BY <1>2, <1>6, <1>10, <2>6, <2>8 DEF AtClean
<1>11. snd.at \notin {"init", "ask", "askend", "asked", "done", "failed"}
  BY <1>3, <1>4 DEF AtClean, CleanInit, CleanAsk, CleanAsked
<1>12. QED
  BY <1>6, <1>7, <1>8, <1>9, <1>10, <1>11 DEF SenderAts

LEMMA NoneOf ==
  ASSUME NEW z \in [Kinds -> Nat],
         z["damage"] + z["garble"] + z["cut"] + z["lose"] + z["noise"] + z["late"] = 0
  PROVE  \A kind \in Kinds : z[kind] = 0
<1> DEFINE a == z["damage"]
           b == z["garble"]
           c == z["cut"]
           d == z["lose"]
           e == z["noise"]
           g == z["late"]
<1>1. a \in Nat /\ b \in Nat /\ c \in Nat /\ d \in Nat /\ e \in Nat /\ g \in Nat
  BY DEF Kinds
<1>2. a + b + c + d + e + g = 0
  OBVIOUS
<1> HIDE DEF a, b, c, d, e, g
<1>3. a = 0 /\ b = 0 /\ c = 0 /\ d = 0 /\ e = 0 /\ g = 0
  BY <1>1, <1>2
<1>4. QED
  BY <1>3 DEF Kinds, a, b, c, d, e, g

\* Nobody waits in vain.
LEMMA NoTimeOut ==
  ASSUME TypeOK, AtClean
  PROVE  ~SenderTimesOut /\ ~ReceiverTimesOut
<1>1. snd.at \in SenderAts
  BY Typed
<1>0. (toR = <<>> => Len(toR) = 0) /\ (toS = <<>> => Len(toS) = 0)
  <2>1. Len(<<>>) = 0
    OBVIOUS
  <2>2. QED
    BY <2>1
<1>2. \A m : OnWay(m) => toR # <<>>
  <2>1. \A m : OnWay(m) => Len(toR) = 1
    BY DEF OnWay
  <2>2. QED
    BY <1>0, <2>1
<1>3. \A b : Answer(b) => toS # <<>>
  <2>1. \A b : Answer(b) => Len(toS) = 1
    BY DEF Answer
  <2>2. QED
    BY <1>0, <2>1
<1>4. Answers => toS # <<>>
  <2>1. Answers => Len(toS) = 2
    BY DEF Answers
  <2>2. QED
    BY <1>0, <2>1
<1>5. CASE snd.at = "done"
  <2>1. rcv.at = "done"
    BY <1>5 DEF AtClean
  <2>2. ~SenderWaited
    BY <1>5 DEF SenderWaited, SenderEot, Ended
  <2>3. ~ReceiverWaited
    BY <2>1 DEF ReceiverWaited
  <2>4. QED
    BY <2>2, <2>3 DEF SenderTimesOut, ReceiverTimesOut
<1>6. CASE snd.at # "done"
  <2>1. snd.at \notin Ended
    BY <1>6 DEF AtClean, Ended
  <2>2. \/ toS # <<>>
        \/ toR # <<>> /\ rcv.at \in {"core", "header"}
    BY <1>1, <1>2, <1>3, <1>4, <2>1
       DEF AtClean, CleanInit, CleanData, CleanEot, CleanAsk, CleanHeaded, CleanAsked, CleanEnded,
           SenderAts, Ended
  <2>3. ~SenderStarves
    BY <2>2 DEF SenderStarves, Ended
  <2>4. ~ReceiverStarves
    BY <2>1, <2>2 DEF ReceiverStarves
  <2>5. QED
    BY <2>3, <2>4 DEF SenderTimesOut, ReceiverTimesOut
<1>7. QED
  BY <1>5, <1>6

LEMMA StepClean ==
  ASSUME TypeOK, TypeOK', PacedInv, Clean, [Next]_vars
  PROVE  Clean'
<1>1. SUFFICES ASSUME Used' = 0 PROVE AtClean'
  BY DEF Clean
<1>2. /\ \A kind \in Kinds : faults[kind] \in Nat /\ faults'[kind] \in Nat /\ faults'[kind] >= faults[kind]
  BY StepTyped DEF Grown, TypeOK
<1>3. \A kind \in Kinds : faults'[kind] = 0 /\ faults[kind] = 0
  <2>1. /\ faults' \in [Kinds -> Nat]
        /\ faults'["damage"] + faults'["garble"] + faults'["cut"]
             + faults'["lose"] + faults'["noise"] + faults'["late"] = 0
    BY <1>1 DEF Used, TypeOK
  <2>2. \A kind \in Kinds : faults'[kind] = 0
    BY <2>1, NoneOf
  <2>3. QED
    BY <1>2, <2>2
<1>4. Used = 0 /\ Paced
  BY <1>3, TriesAssumption DEF Used, Paced, Kinds
<1>5. AtClean /\ Phases
  BY <1>4 DEF Clean, PacedInv
<1>6. \A kind \in Kinds : ~Spent(kind)
  <2>1. \A kind \in Kinds : Spent(kind) => faults'[kind] = faults[kind] + 1
    BY DEF Spent, TypeOK
  <2>2. QED
    BY <1>3, <2>1
<1>7. CASE SenderReads
  BY <1>5, <1>7, SenderReadsClean
<1>8. CASE ReceiverReads
  BY <1>5, <1>8, ReceiverReadsClean
<1>9. CASE SenderTimesOut \/ ReceiverTimesOut
  BY <1>5, <1>9, NoTimeOut
<1>10. CASE Late
  <2>1. "late" \in Kinds /\ Spend("late")
    BY <1>10 DEF Late, Kinds
  <2>2. QED
    BY <1>6, <2>1, SpendIs
<1>11. CASE Line
  <2>1. \E kind \in Kinds : Spent(kind)
    BY <1>11, LineIs
       DEF FrameSpoilt, FrameLost, FrameAdded, ReplyGarbled, ReplyLost, ReplyAdded, Kinds
  <2>2. QED
    BY <1>6, <2>1
<1>12. CASE UNCHANGED vars
  <2>1. batch' = batch /\ snd' = snd /\ rcv' = rcv /\ toR' = toR /\ toS' = toS
    BY <1>12 DEF vars
  <2>2. QED
    BY <1>5, <2>1
       DEF AtClean, CleanInit, CleanData, CleanEot, CleanAsk, CleanHeaded, CleanAsked, CleanEnded,
           Answer, Answers, OnWay, InitChar, BlockFrame, HeaderFrame, NullFrame, Item
<1>13. QED
  BY <1>7, <1>8, <1>9, <1>10, <1>11, <1>12 DEF Next

LEMMA InitClean ==
  ASSUME Init
  PROVE  Clean
<1>1. PICK crc \in IF batch THEN {TRUE} ELSE BOOLEAN :
        /\ rcv = [at |-> IF batch THEN "header" ELSE "core", file |-> 1,
                  expected |-> 1, crc |-> crc, tries |-> 0]
        /\ toS = <<IF crc THEN "C" ELSE "NAK">>
  BY DEF Init
<1>2. snd.at = (IF batch THEN "ask" ELSE "init") /\ toR = <<>> /\ Len(toR) = 0
  BY EmptySeq DEF Init
<1>3. rcv.at = (IF batch THEN "header" ELSE "core") /\ rcv.crc = crc /\ (batch => rcv.crc)
  BY <1>1
<1>4. Len(toS) = 1 /\ toS[1] = InitChar
  BY <1>1, <1>3 DEF InitChar
<1>5. CASE batch
  <2>1. toS[1] = "C"
    BY <1>3, <1>4, <1>5 DEF InitChar
  <2>2. CleanAsk
    BY <1>2, <1>3, <1>4, <1>5, <2>1 DEF CleanAsk, Answer
  <2>3. QED
    BY <1>2, <1>3, <1>5, <2>2 DEF Clean, AtClean
<1>6. CASE ~batch
  <2>1. CleanInit
    BY <1>2, <1>3, <1>4, <1>6 DEF CleanInit, Answer
  <2>2. QED
    BY <1>2, <1>6, <2>1 DEF Clean, AtClean
<1>7. QED
  BY <1>5, <1>6

\* On a good line the frame or the answer on its way is always the one the
\* other end waits for: no step of either end breaks the hand-over of
\* send_core and receive_core, or of the two ends of ymodem.rs.
THEOREM CleanAlways == Spec => []Clean
<1>1. Init => Clean
  BY InitClean
<1>2. TypeOK /\ TypeOK' /\ PacedInv /\ Clean /\ [Next]_vars => Clean'
  BY StepClean
<1>3. QED
  BY <1>1, <1>2, TypesKept, PacedAlways, PTL DEF Spec

\* On a good line neither end gives up, and a receiver that is done has every
\* file (xmodem.rs and ymodem.rs against each other).
THEOREM GoodLineCompletes == Spec => []Completes
<1>1. TypeOK /\ PacedInv /\ Clean => Completes
  <2>1. SUFFICES ASSUME TypeOK, PacedInv, Clean, Used = 0
                 PROVE  /\ snd.at # "failed" /\ rcv.at # "failed"
                        /\ rcv.at = "done" => \A f \in Files : Whole(f)
    BY DEF Completes
  <2>2. AtClean
    BY <2>1 DEF Clean
  <2>3. Paced
    <3>2. faults["lose"] = 0 /\ faults["noise"] = 0 /\ faults["late"] = 0
      BY <2>1, NoneOf DEF Used, TypeOK, Kinds
    <3>3. QED
      BY <3>2, TriesAssumption DEF Paced
  <2>4. Phases /\ snd.at \in SenderAts
    BY <2>1, <2>3, Typed DEF PacedInv
  <2>5. snd.at # "failed" /\ rcv.at # "failed"
    BY <2>2, <2>4
       DEF AtClean, CleanInit, CleanData, CleanEot, CleanAsk, CleanHeaded, CleanAsked, CleanEnded, SenderAts
  <2>6. ASSUME rcv.at = "done" PROVE \A f \in Files : Whole(f)
    <3>1. (snd.at = "eot" /\ ~batch) \/ snd.at \in {"ended", "done"}
      BY <2>2, <2>4, <2>6
         DEF AtClean, CleanInit, CleanData, CleanEot, CleanAsk, CleanHeaded, CleanAsked, SenderAts
    <3>2. CASE snd.at = "eot" /\ ~batch
      <4>1. Before(snd.file + 1) /\ snd.file \in Files
        BY <2>4, <3>2 DEF Phases, AtEot
      <4>2. FileCount = 1 /\ snd.file = 1
        BY <2>1, <3>2, <4>1 DEF TypeOK
      <4>3. Before(FileCount + 1)
        BY <4>1, <4>2
      <4>4. QED
        BY <2>1, <4>3, AllBefore
    <3>3. CASE snd.at \in {"ended", "done"}
      <4>1. snd.file = FileCount + 1 /\ Before(snd.file)
        BY <2>4, <3>3 DEF Phases, AtEnd
      <4>2. Before(FileCount + 1)
        BY <4>1
      <4>3. QED
        BY <2>1, <4>2, AllBefore
    <3>4. QED
      BY <3>1, <3>2, <3>3
  <2>7. QED
    BY <2>5, <2>6
<1>2. QED
  BY <1>1, TypesKept, PacedAlways, CleanAlways, PTL

-----------------------------------------------------------------------------
(***************************************************************************)
(* A file of its own, over any line.  A byte of noise or a late answer     *)
(* puts one more item on its way (Extra), and the items on their way bound *)
(* how far the sender is ahead of the receiver: a frame at place p, with   *)
(* the replies behind it still to be read, lets the sender send no more    *)
(* than what is left of the Extra items.  Nor does it matter how far that  *)
(* is while nothing is lost: then no block is missing before another.      *)
(***************************************************************************)

Extra   == faults["noise"] + faults["late"]
Other   == faults["damage"] + faults["garble"] + faults["cut"] + faults["lose"]
Sending == snd.at = "data"
\* The last block the sender has sent.
Top     == IF snd.at \in {"data", "failed"} THEN snd.block ELSE snd.block - 1
\* The replies the sender has still to read.
Owed    == IF snd.at \in Ended THEN 0 ELSE Len(toS)

Good(p)     == p \in 1..Len(toR) /\ Fine(toR[p])
Body(p)     == toR[p].body
Acked(i)    == i \in 1..Len(toS) /\ toS[i] = "ACK"
Arriving(b) == \E p \in Nat : Good(p) /\ Body(p) = b

Near     == rcv.expected <= Top + 1 /\ Top <= rcv.expected + Extra
Few      == Len(toR) + Owed <= 1 + Extra
InLine   == \A p, q \in Nat : p <= q /\ Good(p) /\ Good(q) => Body(p) <= Body(q)
Within   == \A p \in Nat : Good(p) =>
              /\ Body(p) \in rcv.expected - 1..Top /\ Body(p) <= sizes[1]
              /\ Top + p + Owed <= Body(p) + 1 + Extra
Answered == snd.at \notin Ended => \A i \in Nat : Acked(i) => Top + i <= rcv.expected + Extra
NoneLost ==
  /\ \A p \in 1..Len(toR) : HasBody(toR[p]) => Good(p)
  /\ \A b \in rcv.expected..Top : b < Top \/ Sending => Arriving(b)

Dialogue == Near /\ Few /\ InLine /\ Within /\ Answered /\ (Other = 0 => NoneLost)

\* Where the ends of a file of its own can be.
Alone ==
  /\ snd.at \in {"init", "data", "eot", "done", "failed"} /\ rcv.at # "header"
  /\ rcv.file = 1 /\ (snd.at \in {"init", "data", "eot"} => snd.file = 1)
  /\ snd.at = "init" => snd.block = 1
  /\ snd.at = "data" => snd.block <= sizes[1]

\* The copy of the file, up to the block the receiver expects.
Filed   == disk[1] = Count(rcv.expected - 1) /\ rcv.expected - 1 <= sizes[1]
Talks   == rcv.at = "core" => Dialogue
Numbers == ~batch /\ Used < Modulus => Alone /\ Filed /\ Talks

LEMMA OneFile ==
  ASSUME TypeOK, ~batch
  PROVE  Files = {1} /\ 1 \in Files /\ sizes[1] \in Nat
<1>1. FileCount = 1 /\ Files = 1..FileCount /\ sizes \in [Files -> Nat]
  BY DEF TypeOK
<1>2. 1..1 = {1}
  OBVIOUS
<1>3. Files = {1}
  BY <1>1, <1>2
<1>4. QED
  BY <1>1, <1>3

\* What the sender of a single file can do after a reply, or without one.
Begins    == snd.at = "init" /\ \E c \in BOOLEAN : Offer(1, 1, c)
Proceeds  == snd.at = "data" /\ Offer(1, snd.block + 1, snd.crc)
Repeats   == snd.at = "data" /\ snd' = [snd EXCEPT !.tries = @ + 1]
             /\ SendR(<<BlockFrame(snd.block, snd.crc)>>)
GivesUp   == snd.at \in {"init", "data"} /\ SenderAt("failed") /\ (toR' = toR \/ SendR(<<Item("can")>>))
Concludes ==
  /\ snd.at = "eot" /\ snd'.at \in {"eot", "done"} /\ snd'.block = snd.block
  /\ snd'.at = "eot" => snd'.file = snd.file
  /\ toR' = toR \/ SendR(<<Item("eot")>>)

LEMMA EotIs ==
  ASSUME TypeOK, ~batch, NEW a \in BOOLEAN, SenderEot(a)
  PROVE  Concludes
<1>1. snd \in Senders /\ snd.at = "eot"
  BY DEF TypeOK, SenderEot
<1>2. CASE FileSent /\ toR' = toR
  <2>1. snd' = [snd EXCEPT !.file = @ + 1, !.at = "done"]
    BY <1>2 DEF FileSent
  <2>2. snd'.at = "done" /\ snd'.block = snd.block
    BY <1>1, <2>1 DEF Senders
  <2>3. QED
    BY <1>1, <1>2, <2>2 DEF Concludes
<1>3. CASE snd' = [snd EXCEPT !.tries = @ + 1, !.again = TRUE] /\ SendR(<<Item("eot")>>)
  <2>1. snd'.at = snd.at /\ snd'.block = snd.block /\ snd'.file = snd.file
    BY <1>1, <1>3 DEF Senders
  <2>2. QED
    BY <1>1, <1>3, <2>1 DEF Concludes
<1>4. QED
  BY <1>2, <1>3 DEF SenderEot, Quietly

LEMMA SenderMoves ==
  ASSUME TypeOK, ~batch, Alone, NEW b, NEW a \in BOOLEAN,
         SenderInit(b) \/ SenderData(b) \/ SenderEot(a) \/ SenderHeader(b)
  PROVE  Begins \/ (Proceeds /\ b = "ACK") \/ Repeats \/ GivesUp \/ Concludes
<1>1. CASE SenderInit(b)
  <2>1. snd.at = "init" /\ (Offer(1, 1, b = "C") \/ (SenderAt("failed") /\ toR' = toR))
    BY <1>1 DEF SenderInit, SenderFails, Quietly
  <2>2. (b = "C") \in BOOLEAN
    OBVIOUS
  <2>3. QED
    BY <2>1, <2>2 DEF Begins, GivesUp
<1>2. CASE SenderData(b)
  <2>1. snd.at = "data" /\ snd.file = 1
    BY <1>2 DEF SenderData, Alone
  <2>2. QED
    BY <1>2, <2>1 DEF SenderData, SenderFails, Quietly, Proceeds, Repeats, GivesUp
<1>3. CASE SenderEot(a)
  BY <1>3, EotIs
<1>4. CASE SenderHeader(b)
  BY <1>4 DEF SenderHeader, Alone
<1>5. QED
  BY <1>1, <1>2, <1>3, <1>4

LEMMA SenderWaits ==
  ASSUME TypeOK, ~batch, Alone, SenderWaited
  PROVE  GivesUp \/ Concludes
<1>1. CASE SenderEot(FALSE)
  BY <1>1, EotIs
<1>2. CASE snd.at \notin {"eot", "ended"} \cup Ended /\ SenderFails /\ toR' = toR
  BY <1>2 DEF SenderFails, GivesUp, Alone, Ended
<1>3. QED
  BY <1>1, <1>2 DEF SenderWaited, Quietly, Alone

\* What they make of the sender and of the frames.
LEMMA MovesAre ==
  ASSUME TypeOK, ~batch, Alone
  PROVE  /\ Begins => /\ snd'.at = IF 1 > sizes[1] THEN "eot" ELSE "data"
                      /\ snd'.file = 1 /\ snd'.block = 1
         /\ Proceeds => /\ snd'.at = IF snd.block + 1 > sizes[1] THEN "eot" ELSE "data"
                        /\ snd'.file = 1 /\ snd'.block = snd.block + 1
         /\ Repeats => snd'.at = "data" /\ snd'.file = snd.file /\ snd'.block = snd.block
         /\ GivesUp => snd'.at = "failed" /\ snd'.block = snd.block
         /\ Begins => \/ 1 > sizes[1] /\ SendR(<<Item("eot")>>)
                      \/ 1 <= sizes[1] /\ \E c \in BOOLEAN : SendR(<<BlockFrame(1, c)>>)
         /\ Proceeds => \/ snd.block + 1 > sizes[1] /\ SendR(<<Item("eot")>>)
                        \/ snd.block + 1 <= sizes[1] /\ \E c \in BOOLEAN : SendR(<<BlockFrame(snd.block + 1, c)>>)
<1>1. 1 \in Files /\ sizes[1] \in Nat
  BY OneFile
<1>2. snd.block \in Nat \ {0} /\ snd.crc \in BOOLEAN /\ snd.block + 1 \in Nat \ {0}
  BY Typed
<1>3. ASSUME NEW k \in Nat \ {0}, NEW c \in BOOLEAN, Offer(1, k, c)
      PROVE  /\ snd'.at = IF k > sizes[1] THEN "eot" ELSE "data"
             /\ snd'.file = 1 /\ snd'.block = k
             /\ \/ k > sizes[1] /\ SendR(<<Item("eot")>>)
                \/ k <= sizes[1] /\ SendR(<<BlockFrame(k, c)>>)
  <2>1. snd'.at = (IF k > sizes[1] THEN "eot" ELSE "data") /\ snd'.file = 1 /\ snd'.block = k
    BY <1>1, <1>3, OfferIs
  <2>2. k > sizes[1] \/ k <= sizes[1]
    BY <1>1
  <2>3. QED
    BY <1>1, <1>3, <2>1, <2>2 DEF Offer
<1>4. Begins => /\ snd'.at = IF 1 > sizes[1] THEN "eot" ELSE "data"
                /\ snd'.file = 1 /\ snd'.block = 1
                /\ \/ 1 > sizes[1] /\ SendR(<<Item("eot")>>)
                   \/ 1 <= sizes[1] /\ \E c \in BOOLEAN : SendR(<<BlockFrame(1, c)>>)
  <2>1. 1 \in Nat \ {0}
    OBVIOUS
  <2>2. SUFFICES ASSUME NEW c \in BOOLEAN, Offer(1, 1, c)
                 PROVE  /\ snd'.at = IF 1 > sizes[1] THEN "eot" ELSE "data"
                        /\ snd'.file = 1 /\ snd'.block = 1
                        /\ \/ 1 > sizes[1] /\ SendR(<<Item("eot")>>)
                           \/ 1 <= sizes[1] /\ \E d \in BOOLEAN : SendR(<<BlockFrame(1, d)>>)
    BY DEF Begins
  <2>3. QED
    BY <1>3, <2>1, <2>2
<1>5. Proceeds => /\ snd'.at = IF snd.block + 1 > sizes[1] THEN "eot" ELSE "data"
                  /\ snd'.file = 1 /\ snd'.block = snd.block + 1
                  /\ \/ snd.block + 1 > sizes[1] /\ SendR(<<Item("eot")>>)
                     \/ snd.block + 1 <= sizes[1] /\ \E c \in BOOLEAN : SendR(<<BlockFrame(snd.block + 1, c)>>)
  <2>1. SUFFICES ASSUME Offer(1, snd.block + 1, snd.crc)
                 PROVE  /\ snd'.at = IF snd.block + 1 > sizes[1] THEN "eot" ELSE "data"
                        /\ snd'.file = 1 /\ snd'.block = snd.block + 1
                        /\ \/ snd.block + 1 > sizes[1] /\ SendR(<<Item("eot")>>)
                           \/ snd.block + 1 <= sizes[1] /\ \E d \in BOOLEAN : SendR(<<BlockFrame(snd.block + 1, d)>>)
    BY DEF Proceeds
  <2>2. QED
    BY <1>2, <1>3, <2>1
<1>6. Repeats => snd'.at = "data" /\ snd'.file = snd.file /\ snd'.block = snd.block
  BY TriedIs DEF Repeats
<1>7. GivesUp => snd'.at = "failed" /\ snd'.block = snd.block
  BY SenderAtIs DEF GivesUp, SenderAts
<1>8. QED
  BY <1>4, <1>5, <1>6, <1>7

LEMMA SenderAlone ==
  ASSUME TypeOK, Untouched, ~batch, Alone, rcv' = rcv,
         Begins \/ Proceeds \/ Repeats \/ GivesUp \/ Concludes
  PROVE  Alone'
<1>1. sizes[1] \in Nat /\ sizes' = sizes /\ snd.block \in Nat \ {0} /\ snd.block + 1 \in Nat \ {0}
      /\ snd.crc \in BOOLEAN
  BY OneFile, Typed DEF Untouched
<1>4. rcv'.at # "header" /\ rcv'.file = 1
  BY DEF Alone
<1>5. CASE Begins
  <2>1. snd'.at = (IF 1 > sizes[1] THEN "eot" ELSE "data") /\ snd'.file = 1 /\ snd'.block = 1
    BY <1>5, MovesAre
  <2>2. QED
    BY <1>1, <1>4, <2>1 DEF Alone
<1>6. CASE Proceeds
  <2>1. snd'.at = (IF snd.block + 1 > sizes[1] THEN "eot" ELSE "data") /\ snd'.file = 1
        /\ snd'.block = snd.block + 1
    BY <1>6, MovesAre
  <2>2. QED
    BY <1>1, <1>4, <2>1 DEF Alone
<1>7. CASE Repeats
  <2>1. snd'.at = "data" /\ snd'.file = snd.file /\ snd'.block = snd.block /\ snd.at = "data"
    BY <1>7, MovesAre DEF Repeats
  <2>2. QED
    BY <1>1, <1>4, <2>1 DEF Alone
<1>8. CASE GivesUp
  <2>1. snd'.at = "failed"
    BY <1>8, MovesAre
  <2>2. QED
    BY <1>4, <2>1 DEF Alone
<1>9. CASE Concludes
  BY <1>4, <1>9 DEF Alone, Concludes
<1>10. QED
  BY <1>5, <1>6, <1>7, <1>8, <1>9

\* The counts.
LEMMA Counts ==
  ASSUME TypeOK, ~batch, Alone
  PROVE  /\ Extra \in Nat /\ Other \in Nat /\ Used = Extra + Other
         /\ Top \in Nat /\ Owed \in Nat /\ Len(toR) \in Nat /\ Len(toS) \in Nat
         /\ rcv.expected \in Nat \ {0} /\ sizes[1] \in Nat
         /\ \A p : Good(p) => p \in Nat \ {0} /\ Body(p) \in Nat
<1>1. \A kind \in Kinds : faults[kind] \in Nat
  BY DEF TypeOK
<1>2. Extra \in Nat /\ Other \in Nat /\ Used = Extra + Other
  BY <1>1 DEF Kinds, Extra, Other, Used
<1>3. Top \in Nat
  BY Typed DEF Top
<1>4. Len(toR) \in Nat /\ Len(toS) \in Nat /\ \A p \in 1..Len(toR) : toR[p] \in Frames
  BY Empty DEF TypeOK
<1>5. Owed \in Nat
  BY <1>4 DEF Owed
<1>6. \A p : Good(p) => p \in Nat \ {0} /\ Body(p) \in Nat
  BY <1>4, FrameKinds DEF Good, Fine, Body
<1>7. QED
  BY <1>2, <1>3, <1>4, <1>5, <1>6, Typed, OneFile

LEMMA CountsNext ==
  ASSUME TypeOK'
  PROVE  /\ Extra' \in Nat /\ Other' \in Nat /\ Used' = Extra' + Other'
         /\ Owed' \in Nat /\ Len(toR') \in Nat /\ Len(toS') \in Nat
         /\ rcv'.expected \in Nat \ {0}
         /\ \A p : Good(p)' => p \in Nat \ {0} /\ Body(p)' \in Nat
<1>1. \A kind \in Kinds : faults'[kind] \in Nat
  BY DEF TypeOK
<1>2. Extra' \in Nat /\ Other' \in Nat /\ Used' = Extra' + Other'
  BY <1>1 DEF Kinds, Extra, Other, Used
<1>3. toR' \in Seq(Frames) /\ toS' \in Seq(Replies) /\ rcv' \in Receivers
  BY DEF TypeOK
<1>4. Len(toR') \in Nat /\ Len(toS') \in Nat /\ \A p \in 1..Len(toR') : toR'[p] \in Frames
  BY <1>3, Empty
<1>5. Owed' \in Nat
  BY <1>4 DEF Owed
<1>6. \A p : Good(p)' => p \in Nat \ {0} /\ Body(p)' \in Nat
  BY <1>4, FrameKinds DEF Good, Fine, Body
<1>7. QED
  BY <1>2, <1>3, <1>4, <1>5, <1>6 DEF Receivers

\* What a step of the sender adds to the frames.
AddsItem  == \E m \in Items : SendR(<<m>>)
AddsBlock == \E c \in BOOLEAN : SendR(<<BlockFrame(Top', c)>>)
Adds ==
  /\ Top' \in {Top, Top + 1}
  /\ Top' = Top + 1 => Top = 0 \/ (Sending /\ Proceeds)
  /\ Sending' => Sending \/ Top' = Top + 1
  /\ Sending' => Top' # 0 /\ Top' <= sizes[1]
  /\ snd.at \notin Ended
  /\ \/ toR' = toR
     \/ AddsItem
     \/ Sending' /\ AddsBlock
  /\ Sending' /\ Top' = Top + 1 => AddsBlock

LEMMA SenderAdds ==
  ASSUME TypeOK, ~batch, Alone, sizes' = sizes,
         Begins \/ Proceeds \/ Repeats \/ GivesUp \/ Concludes
  PROVE  Adds
<1>1. sizes[1] \in Nat /\ snd.block \in Nat \ {0} /\ snd.crc \in BOOLEAN
  BY OneFile, Typed
<1>2. Item("eot") \in Items /\ Item("can") \in Items
  BY FramesAre
<1>3. CASE Begins
  <2>1. /\ snd'.at = (IF 1 > sizes[1] THEN "eot" ELSE "data")
        /\ snd'.block = 1 /\ snd.block = 1 /\ snd.at = "init"
        /\ \/ 1 > sizes[1] /\ SendR(<<Item("eot")>>)
           \/ 1 <= sizes[1] /\ \E c \in BOOLEAN : SendR(<<BlockFrame(1, c)>>)
    BY <1>3, MovesAre DEF Alone, Begins
  <2>2. Top = 0 /\ ~Sending
    BY <2>1 DEF Top, Sending
  <2>3. CASE 1 > sizes[1]
    <3>1. Top' = 0 /\ ~Sending' /\ SendR(<<Item("eot")>>)
      BY <1>1, <2>1, <2>3 DEF Top, Sending
    <3>2. AddsItem
      BY <1>2, <3>1 DEF AddsItem
    <3>3. QED
      BY <1>3, <2>1, <2>2, <3>1, <3>2 DEF Adds, Ended
  <2>4. CASE ~ (1 > sizes[1])
    <3>1. Top' = 1 /\ Sending'
      BY <1>1, <2>1, <2>4 DEF Top, Sending
    <3>2. 1 <= sizes[1] /\ \E c \in BOOLEAN : SendR(<<BlockFrame(1, c)>>)
      BY <1>1, <2>1, <2>4
    <3>3. AddsBlock
      BY <3>1, <3>2 DEF AddsBlock
    <3>4. QED
      BY <1>3, <2>1, <2>2, <3>1, <3>2, <3>3 DEF Adds, Ended
  <2>5. QED
    BY <2>3, <2>4
<1>4. CASE Proceeds
  <2>1. /\ snd'.at = (IF snd.block + 1 > sizes[1] THEN "eot" ELSE "data")
        /\ snd'.block = snd.block + 1 /\ snd.at = "data"
        /\ \/ snd.block + 1 > sizes[1] /\ SendR(<<Item("eot")>>)
           \/ snd.block + 1 <= sizes[1] /\ \E c \in BOOLEAN : SendR(<<BlockFrame(snd.block + 1, c)>>)
    BY <1>4, MovesAre DEF Proceeds
  <2>2. Top = snd.block /\ Sending
    BY <2>1 DEF Top, Sending
  <2>3. CASE snd.block + 1 > sizes[1]
    <3>1. Top' = Top /\ ~Sending' /\ SendR(<<Item("eot")>>)
      BY <1>1, <2>1, <2>2, <2>3 DEF Top, Sending
    <3>2. AddsItem
      BY <1>2, <3>1 DEF AddsItem
    <3>3. QED
      BY <1>1, <1>4, <2>1, <2>2, <3>1, <3>2 DEF Adds, Ended
  <2>4. CASE ~ (snd.block + 1 > sizes[1])
    <3>1. Top' = Top + 1 /\ Sending'
      BY <1>1, <2>1, <2>2, <2>4 DEF Top, Sending
    <3>2. snd.block + 1 <= sizes[1] /\ \E c \in BOOLEAN : SendR(<<BlockFrame(snd.block + 1, c)>>)
      BY <1>1, <2>1, <2>4
    <3>3. AddsBlock
      BY <2>2, <3>1, <3>2 DEF AddsBlock
    <3>4. QED
      BY <1>1, <1>4, <2>1, <2>2, <3>1, <3>2, <3>3 DEF Adds, Ended
  <2>5. QED
    BY <2>3, <2>4
<1>5. CASE Repeats
  <2>1. /\ snd'.at = "data" /\ snd'.block = snd.block /\ snd.at = "data"
        /\ SendR(<<BlockFrame(snd.block, snd.crc)>>) /\ snd.block <= sizes[1]
    BY <1>5, MovesAre DEF Repeats, Alone
  <2>2. Top = snd.block /\ Top' = snd.block /\ Sending /\ Sending'
    BY <2>1 DEF Top, Sending
  <2>3. AddsBlock
    BY <1>1, <2>1, <2>2 DEF AddsBlock
  <2>4. QED
    BY <1>1, <2>1, <2>2, <2>3 DEF Adds, Ended
<1>6. CASE GivesUp
  <2>1. /\ snd'.at = "failed" /\ snd'.block = snd.block /\ snd.at \in {"init", "data"}
        /\ toR' = toR \/ SendR(<<Item("can")>>)
    BY <1>6, MovesAre DEF GivesUp
  <2>2. Top' = snd.block /\ ~Sending'
    BY <2>1 DEF Top, Sending
  <2>3. toR' = toR \/ AddsItem
    BY <1>2, <2>1 DEF AddsItem
  <2>4. snd.at = "data" => Top = snd.block
    BY DEF Top
  <2>5. snd.at = "init" => Top = 0 /\ snd.block = 1
    BY DEF Top, Alone
  <2>6. QED
    BY <1>1, <2>1, <2>2, <2>3, <2>4, <2>5 DEF Adds, Ended
<1>7. CASE Concludes
  <2>1. /\ snd.at = "eot" /\ snd'.at \in {"eot", "done"} /\ snd'.block = snd.block
        /\ toR' = toR \/ SendR(<<Item("eot")>>)
    BY <1>7 DEF Concludes
  <2>2. Top' = snd.block - 1 /\ Top = snd.block - 1 /\ ~Sending'
    BY <2>1 DEF Top, Sending
  <2>3. toR' = toR \/ AddsItem
    BY <1>2, <2>1 DEF AddsItem
  <2>4. QED
    BY <1>1, <2>1, <2>2, <2>3 DEF Adds, Ended
<1>8. QED
  BY <1>3, <1>4, <1>5, <1>6, <1>7

\* The frames after a step of the sender, or of the line behind them.
LEMMA ItemAdded ==
  ASSUME TypeOK, NEW m \in Items, toR' = toR \o <<m>>
  PROVE  /\ Len(toR') = Len(toR) + 1
         /\ \A p : (Good(p) <=> Good(p)') /\ (Good(p) => Body(p)' = Body(p))
         /\ \A p \in 1..Len(toR') : HasBody(toR'[p]) => p \in 1..Len(toR) /\ toR'[p] = toR[p]
<1>1. m \in Frames /\ ~HasBody(m)
  <2>1. m \in Frames
    BY FramesAre
  <2>2. m.type # "block"
    BY DEF Items, Item
  <2>3. QED
    BY <2>1, <2>2 DEF HasBody
<1>2. /\ Len(toR) \in Nat /\ Len(toR') = Len(toR) + 1 /\ toR'[Len(toR) + 1] = m
      /\ \A p \in 1..Len(toR) : toR'[p] = toR[p]
  BY <1>1, SentOne DEF SendR
<1>3. \A p \in 1..Len(toR') : p \in 1..Len(toR) \/ p = Len(toR) + 1
  BY <1>2
<1>4. \A p \in 1..Len(toR) : p \in 1..Len(toR')
  BY <1>2
<1>5. ~Fine(m)
  BY <1>1 DEF Fine
<1>6. \A p : (Good(p) <=> Good(p)') /\ (Good(p) => Body(p)' = Body(p))
  BY <1>2, <1>3, <1>4, <1>5 DEF Good, Body
<1>7. QED
  BY <1>1, <1>2, <1>3, <1>6

LEMMA BlockAdded ==
  ASSUME TypeOK, NEW k \in Nat \ {0}, NEW c \in BOOLEAN, SendR(<<BlockFrame(k, c)>>)
  PROVE  /\ Len(toR') = Len(toR) + 1
         /\ \A p : Good(p) => Good(p)' /\ Body(p)' = Body(p)
         /\ \A p : Good(p)' => (Good(p) /\ Body(p)' = Body(p)) \/ (p = Len(toR) + 1 /\ Body(p)' = k)
         /\ \A p : p = Len(toR) + 1 => Good(p)' /\ Body(p)' = k
         /\ \A p \in 1..Len(toR') : HasBody(toR'[p]) =>
              (p \in 1..Len(toR) /\ toR'[p] = toR[p]) \/ Good(p)'
<1> DEFINE m == BlockFrame(k, c)
<1>0. Len(toR) \in Nat
  BY Empty DEF TypeOK
<1>. PICK l \in Nat : l = Len(toR) + 1
  BY <1>0
<1>1. m \in Frames /\ Fine(m) /\ m.body = k
  BY FramesAre DEF BlockFrame, Fine, HasBody
<1> HIDE DEF m
<1>2. /\ Len(toR) \in Nat /\ Len(toR') = l /\ toR'[l] = m /\ l \in Nat /\ l >= 1
      /\ \A p \in 1..Len(toR) : toR'[p] = toR[p]
  BY <1>1, SentOne DEF m
<1>3. \A p \in 1..Len(toR') : p \in 1..Len(toR) \/ p = l
  BY <1>2
<1>4. \A p \in 1..Len(toR) : p \in 1..Len(toR')
  BY <1>2
<1>5. l \in 1..Len(toR')
  BY <1>2
<1>6. Good(l)' /\ Body(l)' = k
  BY <1>1, <1>2, <1>5 DEF Good, Body
<1>7. \A p : Good(p) => Good(p)' /\ Body(p)' = Body(p)
  BY <1>2, <1>4 DEF Good, Body
<1>8. \A p : Good(p)' => (Good(p) /\ Body(p)' = Body(p)) \/ (p = l /\ Body(p)' = k)
  BY <1>2, <1>3, <1>6 DEF Good, Body
<1>9. \A p \in 1..Len(toR') : HasBody(toR'[p]) =>
        (p \in 1..Len(toR) /\ toR'[p] = toR[p]) \/ Good(p)'
  BY <1>2, <1>3, <1>6
<1>10. QED
  BY <1>2, <1>6, <1>7, <1>8, <1>9

LEMMA FramesStay ==
  ASSUME toR' = toR
  PROVE  /\ Len(toR') = Len(toR)
         /\ \A p : (Good(p) <=> Good(p)') /\ (Good(p) => Body(p)' = Body(p))
         /\ \A b : Arriving(b) => Arriving(b)'
BY DEF Good, Body, Arriving

\* All frames of blocks are still good ones when one is added.
LEMMA BodiesStay ==
  ASSUME TypeOK,
         \A p \in 1..Len(toR) : HasBody(toR[p]) => Good(p),
         \A p : Good(p) => Good(p)',
         \A p \in 1..Len(toR') : HasBody(toR'[p]) =>
           (p \in 1..Len(toR) /\ toR'[p] = toR[p]) \/ Good(p)'
  PROVE  (\A p \in 1..Len(toR) : HasBody(toR[p]) => Good(p))'
<1>1. \A p \in 1..Len(toR') : HasBody(toR'[p]) => Good(p)'
  OBVIOUS
<1>2. QED
  BY <1>1

\* The dialogue after a step of the sender: room for a frame is left by the
\* reply it read, or by the late answer it did not wait for.
Room ==
  /\ Extra' >= Extra /\ Other' = Other
  /\ Len(toR) + Owed' <= Extra'
  /\ Len(toR) = 0 \/ Extra' + Owed >= Extra + Owed' + 1
  /\ snd'.at \notin Ended => \A i \in Nat : Acked(i)' =>
       \E k \in Nat : Acked(k) /\ k + Extra' >= i + Extra + 1

\* What is on its way after it, whichever frame was sent.
LEMMA SentFrames ==
  ASSUME TypeOK, ~batch, Alone, Adds
  PROVE  /\ Len(toR') \in {Len(toR), Len(toR) + 1}
         /\ \A p : Good(p) => Good(p)' /\ Body(p)' = Body(p)
         /\ \A p : Good(p)' => \/ Good(p) /\ Body(p)' = Body(p)
                               \/ p = Len(toR) + 1 /\ Body(p)' = Top' /\ Sending'
         /\ Sending' /\ Top' = Top + 1 => Arriving(Top)'
         /\ (\A p \in 1..Len(toR) : HasBody(toR[p]) => Good(p))
              => (\A p \in 1..Len(toR) : HasBody(toR[p]) => Good(p))'
<1>1. CASE toR' = toR /\ ~ (Sending' /\ Top' = Top + 1)
  <2>1. (\A p \in 1..Len(toR) : HasBody(toR[p]) => Good(p))
              => (\A p \in 1..Len(toR) : HasBody(toR[p]) => Good(p))'
    BY <1>1 DEF Good
  <2>2. QED
    BY <1>1, <2>1, FramesStay
<1>2. CASE AddsItem /\ ~ (Sending' /\ Top' = Top + 1)
  <2>1. PICK m \in Items : SendR(<<m>>)
    BY <1>2 DEF AddsItem
  <2>2. /\ Len(toR') = Len(toR) + 1
        /\ \A p : (Good(p) <=> Good(p)') /\ (Good(p) => Body(p)' = Body(p))
        /\ \A p \in 1..Len(toR') : HasBody(toR'[p]) => p \in 1..Len(toR) /\ toR'[p] = toR[p]
    BY <2>1, ItemAdded DEF SendR
  <2>3. (\A p \in 1..Len(toR) : HasBody(toR[p]) => Good(p))
              => (\A p \in 1..Len(toR) : HasBody(toR[p]) => Good(p))'
    BY <2>2
  <2>4. QED
    BY <1>2, <2>2, <2>3
<1>3. CASE Sending' /\ AddsBlock
  <2>1. PICK k \in Nat \ {0} : k = Top'
    BY <1>3, Counts DEF Adds
  <2>2. PICK c \in BOOLEAN : SendR(<<BlockFrame(k, c)>>)
    BY <1>3, <2>1 DEF AddsBlock
  <2>3. /\ Len(toR') = Len(toR) + 1
        /\ \A p : Good(p) => Good(p)' /\ Body(p)' = Body(p)
        /\ \A p : Good(p)' => (Good(p) /\ Body(p)' = Body(p)) \/ (p = Len(toR) + 1 /\ Body(p)' = k)
        /\ \A p : p = Len(toR) + 1 => Good(p)' /\ Body(p)' = k
        /\ \A p \in 1..Len(toR') : HasBody(toR'[p]) =>
              (p \in 1..Len(toR) /\ toR'[p] = toR[p]) \/ Good(p)'
    BY <2>2, BlockAdded
  <2>4. (\A p \in 1..Len(toR) : HasBody(toR[p]) => Good(p))
              => (\A p \in 1..Len(toR) : HasBody(toR[p]) => Good(p))'
    BY <2>3, BodiesStay
  <2>5. Arriving(Top)'
    <3>1. Len(toR) + 1 \in Nat
      BY Counts
    <3>2. \E p \in Nat : Good(p)' /\ Body(p)' = Top'
      BY <2>1, <2>3, <3>1
    <3>3. QED
      BY <3>2 DEF Arriving
  <2>6. QED
    BY <1>3, <2>1, <2>3, <2>4, <2>5
<1>4. QED
  BY <1>1, <1>2, <1>3 DEF Adds

LEMMA SenderDialogue ==
  ASSUME TypeOK, TypeOK', ~batch, Alone, Dialogue, sizes' = sizes, rcv' = rcv,
         Room, Adds, Proceeds => Acked(1)
  PROVE  Dialogue'
<1>1. /\ Extra \in Nat /\ Other \in Nat /\ Top \in Nat /\ Owed \in Nat /\ Len(toR) \in Nat
      /\ rcv.expected \in Nat \ {0}
      /\ \A p : Good(p) => p \in Nat \ {0} /\ Body(p) \in Nat
  BY Counts
<1>2. /\ Extra' \in Nat /\ Owed' \in Nat /\ Len(toR') \in Nat /\ Top' \in Nat
      /\ rcv'.expected = rcv.expected /\ sizes'[1] = sizes[1]
      /\ \A p : Good(p)' => p \in Nat \ {0} /\ Body(p)' \in Nat
  BY <1>1, CountsNext DEF Adds
<1>3. Extra' >= Extra /\ Len(toR) + Owed' <= Extra' /\ Other' = Other
      /\ (Len(toR) = 0 \/ Extra' + Owed >= Extra + Owed' + 1)
  BY DEF Room
<1>4. /\ Len(toR') \in {Len(toR), Len(toR) + 1}
      /\ \A p : Good(p) => Good(p)' /\ Body(p)' = Body(p)
      /\ \A p : Good(p)' => \/ Good(p) /\ Body(p)' = Body(p)
                            \/ p = Len(toR) + 1 /\ Body(p)' = Top' /\ Sending'
      /\ Sending' /\ Top' = Top + 1 => Arriving(Top)'
  BY SentFrames
<1>5. Top' \in {Top, Top + 1} /\ (Sending' => Top' <= sizes[1])
  BY DEF Adds
<1>6. Near'
  <2>1. rcv.expected <= Top + 1 /\ Top <= rcv.expected + Extra
    BY DEF Dialogue, Near
  <2>2. Top' = Top + 1 => Top' <= rcv.expected + Extra'
    <3>1. CASE Top = 0
      BY <1>1, <1>2, <3>1
    <3>2. CASE Sending /\ Proceeds
      <4>1. Acked(1) /\ 1 \in Nat /\ snd.at \notin Ended
        BY <3>2 DEF Adds
      <4>2. Top + 1 <= rcv.expected + Extra
        BY <4>1 DEF Dialogue, Answered
      <4>3. QED
        BY <1>1, <1>2, <1>3, <4>2
    <3>3. QED
      BY <3>1, <3>2 DEF Adds
  <2>3. rcv.expected <= Top' + 1 /\ Top' <= rcv.expected + Extra'
    BY <1>1, <1>2, <1>3, <1>5, <2>1, <2>2
  <2>4. QED
    BY <1>2, <2>3 DEF Near
<1>7. Few'
  <2>1. Len(toR') + Owed' <= 1 + Extra'
    BY <1>1, <1>2, <1>3, <1>4
  <2>2. QED
    BY <2>1 DEF Few
<1>8. \A p : Good(p) => p <= Len(toR) /\ Body(p) <= Top
  <2>1. \A p \in Nat : Good(p) => Body(p) \in rcv.expected - 1..Top
    BY DEF Dialogue, Within
  <2>2. QED
    BY <1>1, <2>1 DEF Good
<1>9. InLine'
  <2>1. SUFFICES ASSUME NEW p \in Nat, NEW q \in Nat, p <= q, Good(p)', Good(q)'
                 PROVE  Body(p)' <= Body(q)'
    BY DEF InLine
  <2>2. CASE Good(p) /\ Good(q) /\ Body(p)' = Body(p) /\ Body(q)' = Body(q)
    BY <2>1, <2>2 DEF Dialogue, InLine
  <2>3. CASE q = Len(toR) + 1 /\ Body(q)' = Top'
    BY <1>1, <1>2, <1>4, <1>5, <1>8, <2>1, <2>3
  <2>4. CASE Good(q) /\ p = Len(toR) + 1
    BY <1>1, <1>8, <2>1, <2>4
  <2>5. QED
    BY <1>4, <2>1, <2>2, <2>3, <2>4
<1>10. Within'
  <2>1. SUFFICES ASSUME NEW p \in Nat, Good(p)'
                 PROVE  /\ Body(p)' \in rcv.expected - 1..Top' /\ Body(p)' <= sizes[1]
                        /\ Top' + p + Owed' <= Body(p)' + 1 + Extra'
    BY <1>2 DEF Within
  <2>2. CASE Good(p) /\ Body(p)' = Body(p)
    <3>1. /\ Body(p) \in rcv.expected - 1..Top /\ Body(p) <= sizes[1]
          /\ Top + p + Owed <= Body(p) + 1 + Extra
      BY <2>2 DEF Dialogue, Within
    <3>2. Len(toR) # 0
      BY <1>1, <2>2 DEF Good
    <3>3. Body(p) \in Nat /\ Top <= Top' /\ Top' <= Top + 1 /\ Extra' + Owed >= Extra + Owed' + 1
      BY <1>1, <1>3, <1>5, <2>2, <3>2
    <3>4. Top' + p + Owed' <= Body(p) + 1 + Extra'
      <4>1. \A a, b, c, d, e, x, y, z \in Nat :
              a <= b + 1 /\ x + d >= y + e + 1 /\ b + c + d <= z + 1 + y => a + c + e <= z + 1 + x
        OBVIOUS
      <4>2. QED
        BY <1>1, <1>2, <3>1, <3>3, <4>1
    <3>5. Body(p) \in rcv.expected - 1..Top'
      BY <1>1, <1>2, <3>1, <3>3
    <3>6. QED
      BY <2>2, <3>1, <3>4, <3>5
  <2>3. CASE p = Len(toR) + 1 /\ Body(p)' = Top' /\ Sending'
    <3>1. rcv.expected <= Top + 1 /\ Top' <= sizes[1]
      BY <1>5, <2>3 DEF Dialogue, Near
    <3>2. Top' \in rcv.expected - 1..Top'
      BY <1>1, <1>2, <1>5, <3>1
    <3>3. \A a, b, c, x \in Nat : b + c <= x => a + (b + 1) + c <= a + 1 + x
      OBVIOUS
    <3>4. Top' + (Len(toR) + 1) + Owed' <= Top' + 1 + Extra'
      BY <1>1, <1>2, <1>3, <3>3
    <3>5. QED
      BY <2>3, <3>1, <3>2, <3>4
  <2>4. QED
    BY <1>4, <2>1, <2>2, <2>3
<1>11. Answered'
  <2>1. SUFFICES ASSUME snd'.at \notin Ended, NEW i \in Nat, Acked(i)'
                 PROVE  Top' + i <= rcv.expected + Extra'
    BY <1>2 DEF Answered
  <2>2. PICK k \in Nat : Acked(k) /\ k + Extra' >= i + Extra + 1
    BY <2>1 DEF Room
  <2>3. Top + k <= rcv.expected + Extra
    BY <2>2 DEF Dialogue, Answered, Adds
  <2>4. Top' <= Top + 1
    BY <1>1, <1>5
  <2>5. \A a, b, c, d, x, y, z \in Nat :
          a <= b + 1 /\ c + x >= d + y + 1 /\ b + c <= z + y => a + d <= z + x
    OBVIOUS
  <2>6. QED
    BY <1>1, <1>2, <2>2, <2>3, <2>4, <2>5
<1>12. Other' = 0 => NoneLost'
  <2>1. SUFFICES ASSUME Other = 0 PROVE NoneLost'
    BY <1>3
  <2>2. /\ \A p \in 1..Len(toR) : HasBody(toR[p]) => Good(p)
        /\ \A b \in rcv.expected..Top : b < Top \/ Sending => Arriving(b)
    BY <2>1 DEF Dialogue, NoneLost
  <2>3. (\A p \in 1..Len(toR) : HasBody(toR[p]) => Good(p))'
    BY <2>2, SentFrames
  <2>4. \A b : Arriving(b) => Arriving(b)'
    BY <1>4 DEF Arriving
  <2>5. ASSUME NEW b \in rcv.expected..Top', b < Top' \/ Sending'
        PROVE  Arriving(b)'
    <3>1. CASE b <= Top /\ (b < Top \/ Sending)
      <4>1. b \in rcv.expected..Top
        BY <1>1, <1>2, <3>1
      <4>2. QED
        BY <2>2, <2>4, <3>1, <4>1
    <3>2. CASE b = Top /\ ~Sending
      <4>1. Top' = Top + 1 => Top = 0
        BY <3>2 DEF Adds
      <4>2. Top' = Top => ~Sending'
        BY <1>1, <3>2 DEF Adds
      <4>3. b >= 1
        BY <1>1, <1>2
      <4>4. QED
        BY <1>1, <1>2, <1>5, <2>5, <3>2, <4>1, <4>2, <4>3
    <3>3. CASE b > Top
      <4>1. b = Top' /\ Top' = Top + 1 /\ Sending'
        BY <1>1, <1>2, <1>5, <2>5, <3>3
      <4>2. QED
        BY <1>4, <4>1
    <3>4. QED
      BY <1>1, <1>2, <3>1, <3>2, <3>3
  <2>6. (\A b \in rcv.expected..Top : b < Top \/ Sending => Arriving(b))'
    BY <1>2, <2>5
  <2>7. QED
    BY <2>3, <2>6 DEF NoneLost
<1>13. QED
  BY <1>6, <1>7, <1>9, <1>10, <1>11, <1>12 DEF Dialogue

\* The dialogue after a step that adds no frame: each good one was a good
\* one, no further from the sender than the step allows.
Came(p, q) == Good(q) /\ Body(p)' = Body(q) /\ p + Owed' + Extra <= q + Owed + Extra'
Carries ==
  /\ \A p \in Nat : Good(p)' => \E q \in Nat : Came(p, q)
  /\ \A p, r \in Nat : p <= r /\ Good(p)' /\ Good(r)' =>
       \E q, s \in Nat : q <= s /\ Came(p, q) /\ Came(r, s)

LEMMA Carried ==
  ASSUME TypeOK, TypeOK', ~batch, Alone, Dialogue, sizes' = sizes, snd' = snd,
         Extra' >= Extra, Carries,
         rcv'.expected \in {rcv.expected, rcv.expected + 1}, rcv'.expected <= Top + 1,
         \A p \in Nat : Good(p)' => Body(p)' >= rcv'.expected - 1,
         Len(toR') + Owed' <= 1 + Extra',
         snd.at \notin Ended => \A i \in Nat : Acked(i)' => Top + i <= rcv'.expected + Extra',
         Other' = 0 => NoneLost'
  PROVE  Dialogue'
<1>1. /\ Extra \in Nat /\ Other \in Nat /\ Top \in Nat /\ Owed \in Nat /\ Len(toR) \in Nat
      /\ rcv.expected \in Nat \ {0} /\ sizes[1] \in Nat
      /\ \A p : Good(p) => p \in Nat \ {0} /\ Body(p) \in Nat
  BY Counts
<1>2. /\ Extra' \in Nat /\ Owed' \in Nat /\ Len(toR') \in Nat
      /\ rcv'.expected \in Nat \ {0} /\ sizes'[1] = sizes[1]
      /\ \A p : Good(p)' => p \in Nat \ {0} /\ Body(p)' \in Nat
  BY CountsNext
<1>3. Top' = Top
  BY DEF Top
<1>4. Near'
  <2>1. Top <= rcv.expected + Extra
    BY DEF Dialogue, Near
  <2>2. Top <= rcv'.expected + Extra'
    <3>1. rcv'.expected >= rcv.expected
      BY <1>1
    <3>2. QED
      BY <1>1, <1>2, <2>1, <3>1
  <2>3. QED
    BY <1>3, <2>2 DEF Near
<1>5. Few'
  BY DEF Few
<1>6. InLine'
  <2>1. SUFFICES ASSUME NEW p \in Nat, NEW r \in Nat, p <= r, Good(p)', Good(r)'
                 PROVE  Body(p)' <= Body(r)'
    BY DEF InLine
  <2>2. PICK q \in Nat, s \in Nat : q <= s /\ Came(p, q) /\ Came(r, s)
    BY <2>1 DEF Carries
  <2>3. Body(q) <= Body(s)
    BY <2>2 DEF Dialogue, InLine, Came
  <2>4. QED
    BY <2>2, <2>3 DEF Came
<1>7. Within'
  <2>1. SUFFICES ASSUME NEW p \in Nat, Good(p)'
                 PROVE  /\ Body(p)' \in rcv'.expected - 1..Top /\ Body(p)' <= sizes[1]
                        /\ Top + p + Owed' <= Body(p)' + 1 + Extra'
    BY <1>2, <1>3 DEF Within
  <2>2. PICK q \in Nat : Came(p, q)
    BY <2>1 DEF Carries
  <2>3. Good(q) /\ Body(p)' = Body(q) /\ p + Owed' + Extra <= q + Owed + Extra' /\ Body(q) \in Nat
    BY <1>1, <2>2 DEF Came
  <2>4. Body(q) \in rcv.expected - 1..Top /\ Body(q) <= sizes[1] /\ Top + q + Owed <= Body(q) + 1 + Extra
    BY <2>3 DEF Dialogue, Within
  <2>5. Body(p)' >= rcv'.expected - 1
    BY <2>1
  <2>6. \A a, b, c, d, e, x, y, z \in Nat :
          a + b + c <= d + 1 + x /\ e + z + x <= b + c + y => a + e + z <= d + 1 + y
    OBVIOUS
  <2>7. Top + p + Owed' <= Body(q) + 1 + Extra'
    BY <1>1, <1>2, <2>3, <2>4, <2>6
  <2>8. Body(q) \in rcv'.expected - 1..Top
    BY <1>1, <1>2, <2>3, <2>4, <2>5
  <2>9. QED
    BY <2>3, <2>4, <2>7, <2>8
<1>8. Answered'
  BY <1>3 DEF Answered
<1>9. QED
  BY <1>4, <1>5, <1>6, <1>7, <1>8 DEF Dialogue

\* The same step for step.
LEMMA CarriesBy ==
  ASSUME TypeOK, TypeOK', NEW d \in {0, 1}, Owed' \in Nat, Owed \in Nat, Extra \in Nat, Extra' \in Nat,
         \A p \in Nat : Good(p)' => Came(p, p + d)
  PROVE  Carries
<1>1. \A p \in Nat : p + d \in Nat
  OBVIOUS
<1>2. \A p, r \in Nat : p <= r => p + d <= r + d
  OBVIOUS
<1>3. QED
  BY <1>1, <1>2 DEF Carries

\* Nothing is lost by a step that keeps the good frames and adds no body.
LEMMA KeepsAll ==
  ASSUME TypeOK, ~batch, Alone, Dialogue, snd' = snd, rcv'.expected = rcv.expected, Other' = Other,
         \A p : Good(p) => Good(p)' /\ Body(p)' = Body(p),
         \A p \in 1..Len(toR') : HasBody(toR'[p]) => p \in 1..Len(toR) /\ toR'[p] = toR[p]
  PROVE  Other' = 0 => NoneLost'
<1>1. SUFFICES ASSUME Other = 0 PROVE NoneLost'
  OBVIOUS
<1>2. /\ \A p \in 1..Len(toR) : HasBody(toR[p]) => Good(p)
      /\ \A b \in rcv.expected..Top : b < Top \/ Sending => Arriving(b)
  BY <1>1 DEF Dialogue, NoneLost
<1>3. Top' = Top /\ Sending' = Sending
  BY DEF Top, Sending
<1>4. \A b : Arriving(b) => Arriving(b)'
  BY DEF Arriving
<1>5. (\A p \in 1..Len(toR) : HasBody(toR[p]) => Good(p))'
  BY <1>2, BodiesStay
<1>6. (\A b \in rcv.expected..Top : b < Top \/ Sending => Arriving(b))'
  BY <1>2, <1>3, <1>4
<1>7. QED
  BY <1>5, <1>6 DEF NoneLost

LEMMA SpentCounts ==
  ASSUME TypeOK, NEW kind \in Kinds, Spent(kind)
  PROVE  /\ kind \in {"noise", "late"} => Extra' = Extra + 1 /\ Other' = Other
         /\ kind \in {"damage", "garble", "cut", "lose"} => Extra' = Extra /\ Other' = Other + 1
<1>1. faults \in [Kinds -> Nat]
  BY DEF TypeOK
<1>2. \A o \in Kinds : faults[o] \in Nat /\ faults'[o] = IF o = kind THEN faults[o] + 1 ELSE faults[o]
  BY <1>1 DEF Spent
<1>3. Kinds = {"damage", "garble", "cut", "lose", "noise", "late"}
  BY DEF Kinds
<1>4. CASE kind = "noise"
  BY <1>2, <1>3, <1>4 DEF Extra, Other
<1>5. CASE kind = "late"
  BY <1>2, <1>3, <1>5 DEF Extra, Other
<1>6. CASE kind = "damage"
  BY <1>2, <1>3, <1>6 DEF Extra, Other
<1>7. CASE kind = "garble"
  BY <1>2, <1>3, <1>7 DEF Extra, Other
<1>8. CASE kind = "cut"
  BY <1>2, <1>3, <1>8 DEF Extra, Other
<1>9. CASE kind = "lose"
  <2>1. /\ faults'["lose"] = faults["lose"] + 1 /\ faults'["damage"] = faults["damage"]
        /\ faults'["garble"] = faults["garble"] /\ faults'["cut"] = faults["cut"]
        /\ faults'["noise"] = faults["noise"] /\ faults'["late"] = faults["late"]
    BY <1>2, <1>3, <1>9
  <2>2. \A o \in Kinds : faults[o] \in Nat
    BY <1>2
  <2>3. Extra' = Extra
    BY <2>1 DEF Extra
  <2>4. Other' = faults["damage"] + faults["garble"] + faults["cut"] + (faults["lose"] + 1)
    BY <2>1 DEF Other
  <2>5. \A a, b, c, d \in Nat : a + b + c + (d + 1) = (a + b + c + d) + 1
    OBVIOUS
  <2>6. Other' = Other + 1
    BY <1>3, <2>2, <2>4, <2>5 DEF Other
  <2>7. QED
    BY <1>9, <2>3, <2>6
<1>10. QED
  BY <1>3, <1>4, <1>5, <1>6, <1>7, <1>8, <1>9

\* A frame is spoilt or lost: the good ones left are nearer.
LEMMA FramesLost ==
  ASSUME TypeOK, TypeOK', ~batch, Alone, Dialogue, Untouched, snd' = snd, rcv' = rcv,
         FrameSpoilt \/ FrameLost
  PROVE  Dialogue'
<1>1. /\ Extra \in Nat /\ Other \in Nat /\ Top \in Nat /\ Owed \in Nat /\ Len(toR) \in Nat
      /\ rcv.expected \in Nat \ {0} /\ sizes' = sizes
      /\ \A p : Good(p) => p \in Nat \ {0} /\ Body(p) \in Nat
  BY Counts DEF Untouched
<1>2. Extra' \in Nat /\ Owed' \in Nat
  BY CountsNext
<1>3. toS' = toS /\ Extra' = Extra /\ Other' = Other + 1
  <2>1. toS' = toS /\ \E kind \in {"damage", "garble", "cut", "lose"} : Spent(kind)
    BY DEF FrameSpoilt, FrameLost
  <2>2. {"damage", "garble", "cut", "lose"} \subseteq Kinds
    BY DEF Kinds
  <2>3. QED
    BY <2>1, <2>2, SpentCounts
<1>4. Owed' = Owed
  BY <1>3 DEF Owed
<1>5. Carries /\ Len(toR') <= Len(toR)
  <2>1. toR \in Seq(Frames)
    BY DEF TypeOK
  <2>2. CASE FrameSpoilt
    <3>1. PICK i \in 1..Len(toR), n \in Blocks \cup Headers : toR' = [toR EXCEPT ![i] = n] /\ ~Fine(n)
      BY <2>2 DEF FrameSpoilt
    <3>2. n \in Frames
      BY FramesAre
    <3>3. Len(toR') = Len(toR) /\ \A p \in 1..Len(toR) : toR'[p] = IF p = i THEN n ELSE toR[p]
      BY <2>1, <3>1, <3>2, Changed
    <3>4. \A p \in Nat : Good(p)' => Good(p) /\ Body(p)' = Body(p)
      BY <3>1, <3>3 DEF Good, Body
    <3>5. \A p \in Nat : Good(p)' => Came(p, p + 0)
      BY <1>1, <1>2, <1>3, <1>4, <3>4 DEF Came
    <3>6. QED
      BY <1>1, <1>2, <3>3, <3>5, CarriesBy
  <2>3. CASE FrameLost
    <3>1. PICK i \in 1..Len(toR) : toR' = Without(toR, i)
      BY <2>3 DEF FrameLost
    <3>2. /\ Len(toR') = Len(toR) - 1
          /\ \A p \in 1..Len(toR) - 1 : toR'[p] = toR[IF p < i THEN p ELSE p + 1]
      BY <2>1, <3>1, Dropped
    <3> DEFINE at(p) == IF p < i THEN p ELSE p + 1
    <3>3. \A p \in Nat : at(p) \in Nat /\ p <= at(p)
      OBVIOUS
    <3>4. \A p, r \in Nat : p <= r => at(p) <= at(r)
      OBVIOUS
    <3>5. \A p \in 1..Len(toR) - 1 : at(p) \in 1..Len(toR) /\ toR'[p] = toR[at(p)]
      BY <1>1, <3>2
    <3> HIDE DEF at
    <3>6. \A p \in Nat : Good(p)' => Good(at(p)) /\ Body(p)' = Body(at(p))
      BY <3>2, <3>5 DEF Good, Body
    <3>7. \A p \in Nat : Good(p)' => Came(p, at(p))
      BY <1>1, <1>2, <1>3, <1>4, <3>3, <3>6 DEF Came
    <3>8. Carries
      BY <3>3, <3>4, <3>7 DEF Carries
    <3>9. QED
      BY <1>1, <3>2, <3>8
  <2>4. QED
    BY <2>2, <2>3
<1>6. \A p \in Nat : Good(p)' => Body(p)' >= rcv.expected - 1
  <2>1. SUFFICES ASSUME NEW p \in Nat, Good(p)' PROVE Body(p)' >= rcv.expected - 1
    OBVIOUS
  <2>2. PICK q \in Nat : Came(p, q)
    BY <1>5, <2>1 DEF Carries
  <2>3. Good(q) /\ Body(p)' = Body(q) /\ Body(q) \in rcv.expected - 1..Top
    BY <2>2 DEF Came, Dialogue, Within
  <2>4. QED
    BY <1>1, <2>3
<1>7. Len(toR') + Owed' <= 1 + Extra'
  <2>1. Len(toR) + Owed <= 1 + Extra /\ Len(toR') \in Nat
    BY CountsNext DEF Dialogue, Few
  <2>2. QED
    BY <1>1, <1>3, <1>4, <1>5, <2>1
<1>8. \A i \in Nat : Acked(i)' => Acked(i)
  BY <1>3 DEF Acked
<1>9. snd.at \notin Ended => \A i \in Nat : Acked(i)' => Top + i <= rcv.expected + Extra'
  BY <1>3, <1>8 DEF Dialogue, Answered
<1>10. Other' # 0
  BY <1>1, <1>3
<1>11. rcv.expected <= Top + 1
  BY DEF Dialogue, Near
<1>12. QED
  BY <1>1, <1>3, <1>5, <1>6, <1>7, <1>9, <1>10, <1>11, Carried

\* Noise behind the frames or the replies, a reply garbled or lost.
LEMMA LineTalks ==
  ASSUME TypeOK, TypeOK', ~batch, Alone, Dialogue, Untouched, snd' = snd, rcv' = rcv,
         FrameAdded \/ ReplyGarbled \/ ReplyLost \/ ReplyAdded
  PROVE  Dialogue'
<1>1. /\ Extra \in Nat /\ Other \in Nat /\ Top \in Nat /\ Owed \in Nat
      /\ Len(toR) \in Nat /\ Len(toS) \in Nat
      /\ rcv.expected \in Nat \ {0} /\ sizes' = sizes
      /\ \A p : Good(p) => p \in Nat \ {0} /\ Body(p) \in Nat
  BY Counts DEF Untouched
<1>2. Extra' \in Nat /\ Owed' \in Nat /\ Len(toR') \in Nat /\ Len(toS') \in Nat
  BY CountsNext
<1>3. toS \in Seq(Replies) /\ toR \in Seq(Frames) /\ "noise" \in Replies
  BY DEF TypeOK, Replies
<1>4. {"noise", "garble", "lose"} \subseteq Kinds
  BY DEF Kinds
\* The frames.
<1>5. /\ \A p : (Good(p) <=> Good(p)') /\ (Good(p) => Body(p)' = Body(p))
      /\ \A p \in 1..Len(toR') : HasBody(toR'[p]) => p \in 1..Len(toR) /\ toR'[p] = toR[p]
  <2>1. CASE FrameAdded
    <3>1. PICK m \in Items : m = Item("noise") /\ toR' = toR \o <<m>>
      BY <2>1, FramesAre DEF FrameAdded
    <3>2. QED
      BY <3>1, ItemAdded
  <2>2. CASE ReplyGarbled \/ ReplyLost \/ ReplyAdded
    <3>1. toR' = toR
      BY <2>2 DEF ReplyGarbled, ReplyLost, ReplyAdded
    <3>2. QED
      BY <3>1, FramesStay
  <2>3. QED
    BY <2>1, <2>2
\* The replies and the room they take.
<1>6. /\ Len(toR') + Len(toS') + Extra <= Len(toR) + Len(toS) + Extra'
      /\ Len(toS') + Extra <= Len(toS) + Extra' /\ Len(toR') + Extra <= Len(toR) + Extra'
      /\ Extra' >= Extra /\ (Other' = Other \/ Other' # 0)
      /\ \A i \in Nat : Acked(i)' => \E k \in Nat : k >= i /\ Acked(k)
  <2>1. CASE FrameAdded
    <3>1. Spent("noise") /\ toS' = toS /\ toR' = toR \o <<Item("noise")>>
      BY <2>1 DEF FrameAdded
    <3>2. Extra' = Extra + 1 /\ Other' = Other
      BY <1>4, <3>1, SpentCounts
    <3>3. Item("noise") \in Items
      BY FramesAre
    <3>4. Len(toR') = Len(toR) + 1
      BY <3>1, <3>3, ItemAdded
    <3>5. \A i \in Nat : Acked(i)' => i >= i /\ Acked(i)
      BY <3>1 DEF Acked
    <3>6. QED
      BY <1>1, <3>1, <3>2, <3>4, <3>5
  <2>2. CASE ReplyGarbled
    <3>1. Spent("garble") /\ toR' = toR
      BY <2>2 DEF ReplyGarbled
    <3>2. PICK j \in 1..Len(toS) : toS' = [toS EXCEPT ![j] = "noise"]
      BY <2>2 DEF ReplyGarbled
    <3>3. Extra' = Extra /\ Other' = Other + 1
      BY <1>4, <3>1, SpentCounts
    <3>4. Len(toS') = Len(toS) /\ \A p \in 1..Len(toS) : toS'[p] = IF p = j THEN "noise" ELSE toS[p]
      BY <1>3, <3>2, Changed
    <3>5. \A i \in Nat : Acked(i)' => i >= i /\ Acked(i)
      BY <3>4 DEF Acked
    <3>6. QED
      BY <1>1, <3>1, <3>3, <3>4, <3>5
  <2>3. CASE ReplyLost
    <3>1. Spent("lose") /\ toR' = toR
      BY <2>3 DEF ReplyLost
    <3>2. PICK j \in 1..Len(toS) : toS' = Without(toS, j)
      BY <2>3 DEF ReplyLost
    <3>3. Extra' = Extra /\ Other' = Other + 1
      BY <1>4, <3>1, SpentCounts
    <3>4. Len(toS') = Len(toS) - 1 /\ \A p \in 1..Len(toS) - 1 : toS'[p] = toS[IF p < j THEN p ELSE p + 1]
      BY <1>3, <3>2, Dropped
    <3> DEFINE at(p) == IF p < j THEN p ELSE p + 1
    <3>0. \A p \in 1..Len(toS) - 1 : at(p) \in 1..Len(toS) /\ at(p) >= p /\ at(p) \in Nat
      BY <1>1
    <3>5. \A p \in 1..Len(toS) - 1 : at(p) \in 1..Len(toS) /\ at(p) >= p /\ at(p) \in Nat /\ toS'[p] = toS[at(p)]
      BY <3>0, <3>4
    <3> HIDE DEF at
    <3>6. \A i \in Nat : Acked(i)' => at(i) \in Nat /\ at(i) >= i /\ Acked(at(i))
      BY <3>4, <3>5 DEF Acked
    <3>7. \A i \in Nat : Acked(i)' => \E k \in Nat : k >= i /\ Acked(k)
      BY <3>6
    <3>8. QED
      BY <1>1, <3>1, <3>3, <3>4, <3>7
  <2>4. CASE ReplyAdded
    <3>1. Spent("noise") /\ toR' = toR /\ toS' = toS \o <<"noise">>
      BY <2>4 DEF ReplyAdded
    <3>2. Extra' = Extra + 1 /\ Other' = Other
      BY <1>4, <3>1, SpentCounts
    <3>3. Len(toS') = Len(toS) + 1 /\ toS'[Len(toS) + 1] = "noise" /\ \A p \in 1..Len(toS) : toS'[p] = toS[p]
      BY <1>3, <3>1, Added
    <3>4. \A p \in 1..Len(toS') : p \in 1..Len(toS) \/ p = Len(toS) + 1
      BY <1>1, <3>3
    <3>5. \A i \in Nat : Acked(i)' => i >= i /\ Acked(i)
      BY <3>3, <3>4 DEF Acked
    <3>6. QED
      BY <1>1, <3>1, <3>2, <3>3, <3>5
  <2>5. QED
    BY <2>1, <2>2, <2>3, <2>4
<1>7. Owed' + Extra <= Owed + Extra'
  <2>1. CASE snd.at \in Ended
    <3>1. Owed' = 0 /\ Owed = 0 /\ Extra' >= Extra
      BY <1>6, <2>1 DEF Owed
    <3>2. \A x, y \in Nat : y >= x => 0 + x <= 0 + y
      OBVIOUS
    <3>3. QED
      BY <1>1, <1>2, <3>1, <3>2
  <2>2. CASE snd.at \notin Ended
    <3>1. Owed' = Len(toS') /\ Owed = Len(toS)
      BY <2>2 DEF Owed
    <3>2. QED
      BY <1>6, <3>1
  <2>3. QED
    BY <2>1, <2>2
<1>8. Carries
  <2>1. \A p \in Nat : p + 0 = p /\ p + Owed' + Extra <= p + Owed + Extra'
    <3>1. \A p, a, b, x, y \in Nat : a + x <= b + y => p + 0 = p /\ p + a + x <= p + b + y
      OBVIOUS
    <3>2. QED
      BY <1>1, <1>2, <1>7, <3>1
  <2>2. \A p \in Nat : Good(p)' => Came(p, p + 0)
    BY <1>5, <2>1 DEF Came
  <2>3. QED
    BY <1>1, <1>2, <2>2, CarriesBy
<1>9. \A p \in Nat : Good(p)' => Body(p)' >= rcv.expected - 1
  <2>1. \A p \in Nat : Good(p) => Body(p) >= rcv.expected - 1
    BY <1>1 DEF Dialogue, Within
  <2>2. QED
    BY <1>5, <2>1
<1>10. Len(toR') + Owed' <= 1 + Extra'
  <2>1. Len(toR) + Owed <= 1 + Extra
    BY DEF Dialogue, Few
  <2>2. CASE snd.at \in Ended
    <3>1. Owed' = 0 /\ Owed = 0
      BY <2>2 DEF Owed
    <3>2. \A a, c, x, y \in Nat : a + x <= c + y /\ c + 0 <= 1 + x => a + 0 <= 1 + y
      OBVIOUS
    <3>3. Len(toR') + Extra <= Len(toR) + Extra'
      BY <1>6
    <3>4. QED
      BY <1>1, <1>2, <2>1, <3>1, <3>2, <3>3
  <2>3. CASE snd.at \notin Ended
    <3>1. Owed' = Len(toS') /\ Owed = Len(toS)
      BY <2>3 DEF Owed
    <3>2. \A a, b, c, d, x, y \in Nat : a + b + x <= c + d + y /\ c + d <= 1 + x => a + b <= 1 + y
      OBVIOUS
    <3>3. Len(toR') + Len(toS') + Extra <= Len(toR) + Len(toS) + Extra'
      BY <1>6
    <3>4. QED
      BY <1>1, <1>2, <2>1, <3>1, <3>2, <3>3
  <2>4. QED
    BY <2>2, <2>3
<1>11. snd.at \notin Ended => \A i \in Nat : Acked(i)' => Top + i <= rcv.expected + Extra'
  <2>1. SUFFICES ASSUME snd.at \notin Ended, NEW i \in Nat, Acked(i)' PROVE Top + i <= rcv.expected + Extra'
    OBVIOUS
  <2>2. PICK k \in Nat : k >= i /\ Acked(k)
    BY <1>6, <2>1
  <2>3. Top + k <= rcv.expected + Extra
    BY <2>1, <2>2 DEF Dialogue, Answered
  <2>4. \A a, b, c, d, x, y \in Nat : a + b <= c + x /\ b >= d /\ y >= x => a + d <= c + y
    OBVIOUS
  <2>5. Extra' >= Extra
    BY <1>6
  <2>6. QED
    BY <1>1, <1>2, <2>2, <2>3, <2>4, <2>5
<1>12. Other' = 0 => NoneLost'
  <2>1. CASE Other' = Other
    BY <1>5, <2>1, KeepsAll
  <2>2. QED
    BY <1>6, <2>1
<1>13. rcv.expected <= Top + 1
  BY DEF Dialogue, Near
<1>14. QED
  BY <1>1, <1>6, <1>8, <1>9, <1>10, <1>11, <1>12, <1>13, Carried

-----------------------------------------------------------------------------
(***************************************************************************)
(* What the receiver reads of a file of its own.                           *)
(***************************************************************************)

LEMMA TailFrames ==
  ASSUME TypeOK, toR # <<>>, toR' = Tail(toR)
  PROVE  /\ Len(toR) \in Nat \ {0} /\ Len(toR') = Len(toR) - 1
         /\ \A p \in Nat : Good(p)' => Good(p + 1) /\ Body(p)' = Body(p + 1)
         /\ \A p \in Nat \ {0} : Good(p + 1) => Good(p)' /\ Body(p)' = Body(p + 1)
         /\ (\A p \in 1..Len(toR) : HasBody(toR[p]) => Good(p))
              => (\A p \in 1..Len(toR) : HasBody(toR[p]) => Good(p))'
<1>1. /\ Len(toR) \in Nat \ {0} /\ Len(toR') = Len(toR) - 1
      /\ \A p \in 1..Len(toR) - 1 : toR'[p] = toR[p + 1]
  BY FrameTaken
<1>2. \A p \in 1..Len(toR) - 1 : p + 1 \in 1..Len(toR) /\ p \in 1..Len(toR')
  BY <1>1
<1>3. \A p \in Nat \ {0} : p + 1 \in 1..Len(toR) => p \in 1..Len(toR) - 1
  BY <1>1
<1>4. \A p \in Nat : Good(p)' => Good(p + 1) /\ Body(p)' = Body(p + 1)
  BY <1>1, <1>2 DEF Good, Body
<1>5. \A p \in Nat \ {0} : Good(p + 1) => Good(p)' /\ Body(p)' = Body(p + 1)
  BY <1>1, <1>2, <1>3 DEF Good, Body
<1>6. ASSUME \A p \in 1..Len(toR) : HasBody(toR[p]) => Good(p)
      PROVE  (\A p \in 1..Len(toR) : HasBody(toR[p]) => Good(p))'
  <2>1. SUFFICES ASSUME NEW p \in 1..Len(toR'), HasBody(toR'[p]) PROVE Good(p)'
    OBVIOUS
  <2>2. p \in 1..Len(toR) - 1 /\ p \in Nat \ {0} /\ p + 1 \in 1..Len(toR)
    BY <1>1, <1>2
  <2>3. Good(p + 1)
    BY <1>1, <1>6, <2>1, <2>2
  <2>4. QED
    BY <1>5, <2>2, <2>3
<1>7. QED
  BY <1>1, <1>4, <1>5, <1>6

\* Nothing is lost when the frame that was read is not missed.
LEMMA TailLost ==
  ASSUME TypeOK, ~batch, Alone, NoneLost, snd' = snd, toR # <<>>, toR' = Tail(toR),
         rcv'.expected \in {rcv.expected, rcv.expected + 1}, Good(1) => Body(1) < rcv'.expected
  PROVE  NoneLost'
<1>1. /\ \A p \in 1..Len(toR) : HasBody(toR[p]) => Good(p)
      /\ \A b \in rcv.expected..Top : b < Top \/ Sending => Arriving(b)
  BY DEF NoneLost
<1>2. rcv.expected \in Nat /\ Top \in Nat /\ \A p : Good(p) => p \in Nat \ {0} /\ Body(p) \in Nat
  BY Counts
<1>3. Top' = Top /\ Sending' = Sending
  BY DEF Top, Sending
<1>4. (\A p \in 1..Len(toR) : HasBody(toR[p]) => Good(p))'
  BY <1>1, TailFrames
<1>5. ASSUME NEW b \in rcv'.expected..Top, b < Top \/ Sending
      PROVE  Arriving(b)'
  <2>1. b \in rcv.expected..Top
    BY <1>2
  <2>2. PICK p \in Nat : Good(p) /\ Body(p) = b
    BY <1>1, <1>5, <2>1 DEF Arriving
  <2>3. p # 1 /\ p \in Nat \ {0}
    BY <1>2, <2>2
  <2>4. PICK q \in Nat \ {0} : p = q + 1
    <3>1. p - 1 \in Nat \ {0} /\ p = (p - 1) + 1
      BY <2>3
    <3>2. QED
      BY <3>1
  <2>5. Good(q)' /\ Body(q)' = b
    BY <2>2, <2>4, TailFrames
  <2>6. QED
    BY <2>5 DEF Arriving
<1>6. (\A b \in rcv.expected..Top : b < Top \/ Sending => Arriving(b))'
  BY <1>3, <1>5
<1>7. QED
  BY <1>4, <1>6 DEF NoneLost

\* The receiver read a frame and answered it, in order unless one is lost.
LEMMA TailDialogue ==
  ASSUME TypeOK, TypeOK', ~batch, Alone, Dialogue, Untouched, snd' = snd, faults' = faults,
         toR # <<>>, toR' = Tail(toR), NEW b \in Replies, Replied(b),
         rcv'.expected = rcv.expected
           \/ (rcv'.expected = rcv.expected + 1 /\ Good(1) /\ Body(1) = rcv.expected),
         b = "ACK" => Good(1) /\ Body(1) = rcv'.expected - 1,
         Other = 0 => (Good(1) => Body(1) < rcv'.expected)
  PROVE  Dialogue'
<1>1. /\ Extra \in Nat /\ Other \in Nat /\ Top \in Nat /\ Owed \in Nat
      /\ Len(toR) \in Nat /\ Len(toS) \in Nat
      /\ rcv.expected \in Nat \ {0} /\ sizes' = sizes
      /\ \A p : Good(p) => p \in Nat \ {0} /\ Body(p) \in Nat
  BY Counts DEF Untouched
<1>2. Extra' = Extra /\ Other' = Other /\ Owed' \in Nat
  BY CountsNext DEF Extra, Other
<1>3. /\ Len(toS') = Len(toS) + 1 /\ toS'[Len(toS) + 1] = b
      /\ \A p \in 1..Len(toS) : toS'[p] = toS[p]
  BY RepliedOne
<1>4. /\ Len(toR) \in Nat \ {0} /\ Len(toR') = Len(toR) - 1
      /\ \A p \in Nat : Good(p)' => Good(p + 1) /\ Body(p)' = Body(p + 1)
  BY TailFrames
<1>5. Owed' <= Owed + 1
  <2>1. CASE snd.at \in Ended
    BY <1>1, <2>1 DEF Owed
  <2>2. CASE snd.at \notin Ended
    BY <1>1, <1>3, <2>2 DEF Owed
  <2>3. QED
    BY <2>1, <2>2
<1>6. rcv'.expected \in {rcv.expected, rcv.expected + 1} /\ rcv'.expected <= Top + 1
  <2>1. rcv.expected <= Top + 1
    BY DEF Dialogue, Near
  <2>2. Good(1) => Body(1) <= Top
    BY <1>1 DEF Dialogue, Within
  <2>3. QED
    BY <1>1, <2>1, <2>2
<1>7. Carries
  <2>1. \A p, x, y, z \in Nat : x <= y + 1 => p + x + z <= (p + 1) + y + z
    OBVIOUS
  <2>2. \A p \in Nat : Good(p)' => Came(p, p + 1)
    BY <1>1, <1>2, <1>4, <1>5, <2>1 DEF Came
  <2>3. QED
    BY <1>1, <1>2, <2>2, CarriesBy
<1>8. ASSUME NEW p \in Nat, Good(p)' PROVE Body(p)' >= rcv'.expected - 1
  <2>1. Good(p + 1) /\ Body(p)' = Body(p + 1) /\ p + 1 \in Nat /\ 1 <= p + 1 /\ 1 \in Nat
    BY <1>4, <1>8
  <2>2. Body(p + 1) \in Nat /\ Body(p + 1) >= rcv.expected - 1
    BY <1>1, <2>1 DEF Dialogue, Within
  <2>3. Good(1) => Body(1) <= Body(p + 1)
    BY <2>1 DEF Dialogue, InLine
  <2>4. QED
    BY <1>1, <2>1, <2>2, <2>3
<1>9. Len(toR') + Owed' <= 1 + Extra'
  <2>1. Len(toR) + Owed <= 1 + Extra
    BY DEF Dialogue, Few
  <2>2. QED
    BY <1>1, <1>2, <1>4, <1>5, <2>1
<1>10. ASSUME snd.at \notin Ended, NEW i \in Nat, Acked(i)' PROVE Top + i <= rcv'.expected + Extra'
  <2>1. i \in 1..Len(toS') /\ toS'[i] = "ACK"
    BY <1>10 DEF Acked
  <2>2. CASE i \in 1..Len(toS)
    <3>1. Acked(i)
      BY <1>3, <2>1, <2>2 DEF Acked
    <3>2. Top + i <= rcv.expected + Extra
      BY <1>10, <3>1 DEF Dialogue, Answered
    <3>3. rcv.expected <= rcv'.expected /\ rcv'.expected \in Nat
      BY <1>1, <1>6
    <3>4. QED
      BY <1>1, <1>2, <3>2, <3>3
  <2>3. CASE i = Len(toS) + 1
    <3>1. Good(1) /\ Body(1) = rcv'.expected - 1 /\ 1 \in Nat
      BY <1>3, <2>1, <2>3
    <3>2. Top + 1 + Owed <= Body(1) + 1 + Extra
      BY <3>1 DEF Dialogue, Within
    <3>3. Owed = Len(toS) /\ rcv'.expected \in Nat
      BY <1>1, <1>6, <1>10 DEF Owed
    <3>4. QED
      BY <1>1, <1>2, <2>3, <3>1, <3>2, <3>3
  <2>4. QED
    BY <1>1, <1>3, <2>1, <2>2, <2>3
<1>11. Other' = 0 => NoneLost'
  <2>1. SUFFICES ASSUME Other = 0 PROVE NoneLost'
    BY <1>2
  <2>2. NoneLost
    BY <2>1 DEF Dialogue
  <2>3. QED
    BY <1>6, <2>1, <2>2, TailLost
<1>12. Extra' >= Extra
  BY <1>1, <1>2
<1>13. QED
  BY <1>1, <1>6, <1>7, <1>8, <1>9, <1>10, <1>11, <1>12, Carried

\* The receiver threw away what was on its way, or waited in vain, and asks
\* again.
LEMMA QuietDialogue ==
  ASSUME TypeOK, TypeOK', ~batch, Alone, Dialogue, Untouched, snd' = snd,
         Len(toR') = 0, NEW b \in Replies \ {"ACK"}, Replied(b), rcv'.expected = rcv.expected,
         Extra' >= Extra, Len(toR') + Owed' <= 1 + Extra', Other' = 0 => NoneLost'
  PROVE  Dialogue'
<1>1. /\ Extra \in Nat /\ Other \in Nat /\ Top \in Nat /\ Len(toS) \in Nat
      /\ rcv.expected \in Nat \ {0} /\ sizes' = sizes
  BY Counts DEF Untouched
<1>2. Extra' \in Nat
  BY CountsNext
<1>3. /\ Len(toS') = Len(toS) + 1 /\ toS'[Len(toS) + 1] = b
      /\ \A p \in 1..Len(toS) : toS'[p] = toS[p]
  BY RepliedOne
<1>4. \A p \in Nat : ~Good(p)'
  BY DEF Good
<1>5. Carries
  BY <1>4 DEF Carries
<1>6. ASSUME snd.at \notin Ended, NEW i \in Nat, Acked(i)' PROVE Top + i <= rcv.expected + Extra'
  <2>1. i \in 1..Len(toS') /\ toS'[i] = "ACK"
    BY <1>6 DEF Acked
  <2>2. i \in 1..Len(toS)
    BY <1>1, <1>3, <2>1
  <2>3. Acked(i)
    BY <1>3, <2>1, <2>2 DEF Acked
  <2>4. Top + i <= rcv.expected + Extra
    BY <1>6, <2>3 DEF Dialogue, Answered
  <2>5. QED
    BY <1>1, <1>2, <2>4
<1>7. rcv.expected <= Top + 1
  BY DEF Dialogue, Near
<1>8. QED
  BY <1>1, <1>4, <1>5, <1>6, <1>7, Carried

\* A number is never misread: a good block at the head is the one before,
\* the next one, or nearer ahead than the numbers go round.
LEMMA HeadIs ==
  ASSUME TypeOK, ~batch, Alone, Dialogue, Used < Modulus, toR # <<>>,
         NEW m \in Blocks \cup Headers, m = toR[1], Fine(m)
  PROVE  /\ Good(1) /\ Body(1) = m.body
         /\ Duplicate(m) => m.body = rcv.expected - 1
         /\ ~Duplicate(m) /\ InSequence(m) => m.body = rcv.expected /\ rcv.expected <= sizes[1]
<1> DEFINE k == m.body
           e == rcv.expected
<1>1. Good(1) /\ Body(1) = k
  <2>1. 1 \in 1..Len(toR)
    BY FrameNext
  <2>2. QED
    BY <2>1 DEF Good, Body
<1>2. /\ Extra \in Nat /\ Other \in Nat /\ Top \in Nat /\ Used = Extra + Other
      /\ e \in Nat \ {0} /\ sizes[1] \in Nat /\ k \in Nat
  BY <1>1, Counts
<1>3. k \in e - 1..Top /\ k <= sizes[1]
  BY <1>1 DEF Dialogue, Within
<1>4. Modulus \in Nat /\ Modulus >= 2
  BY NumbersAssumption
<1>5. m.num = k % Modulus
  <2>1. 0 % Modulus = 0
    BY <1>4
  <2>2. QED
    BY <2>1 DEF Blocks, Headers
<1>6. k > e => k < e + Modulus - 1
  <2>1. SUFFICES ASSUME k > e PROVE k < e + Modulus - 1
    OBVIOUS
  <2>2. CASE Other = 0
    <3>1. e \in e..Top /\ e < Top
      BY <1>2, <1>3, <2>1
    <3>2. Arriving(e)
      BY <2>2, <3>1 DEF Dialogue, NoneLost
    <3>3. PICK p \in Nat : Good(p) /\ Body(p) = e
      BY <3>2 DEF Arriving
    <3>4. 1 <= p /\ 1 \in Nat
      BY <3>3 DEF Good
    <3>5. Body(1) <= Body(p)
      BY <1>1, <3>3, <3>4 DEF Dialogue, InLine
    <3>6. QED
      BY <1>1, <1>2, <2>1, <3>3, <3>5
  <2>3. CASE Other # 0
    <3>1. Top <= e + Extra
      BY DEF Dialogue, Near
    <3>2. QED
      BY <1>2, <1>3, <1>4, <2>3, <3>1
  <2>4. QED
    BY <2>2, <2>3
<1> HIDE DEF k, e
<1>7. InSequence(m) <=> k % Modulus = e % Modulus
  BY <1>5 DEF InSequence, e
<1>8. Duplicate(m) <=> k % Modulus = (e - 1) % Modulus
  <2>1. e - 1 \in Nat /\ e + Modulus - 1 = (e - 1) + Modulus
    BY <1>2, <1>4
  <2>2. ((e - 1) + Modulus) % Modulus = (e - 1) % Modulus
    BY <2>1, Around
  <2>3. QED
    BY <1>5, <2>1, <2>2 DEF Duplicate, e
<1>9. CASE k = e - 1
  BY <1>1, <1>8, <1>9 DEF k, e
<1>10. CASE k = e
  <2>1. (e - 1) % Modulus # e % Modulus
    <3>1. e - 1 \in Nat /\ e \in Nat /\ e - 1 < e /\ e < (e - 1) + Modulus
      BY <1>2, <1>4
    <3>2. QED
      BY <3>1, Apart
  <2>2. QED
    BY <1>1, <1>3, <1>8, <1>10, <2>1 DEF k, e
<1>11. CASE k > e
  <2>1. (e - 1) % Modulus # k % Modulus
    <3>1. e - 1 \in Nat /\ k \in Nat /\ e - 1 < k /\ k < (e - 1) + Modulus
      BY <1>2, <1>4, <1>6, <1>11
    <3>2. QED
      BY <3>1, Apart
  <2>2. e % Modulus # k % Modulus
    <3>1. e \in Nat /\ k \in Nat /\ e < k /\ k < e + Modulus
      BY <1>2, <1>4, <1>6, <1>11
    <3>2. QED
      BY <3>1, Apart
  <2>3. QED
    BY <1>1, <1>7, <1>8, <2>1, <2>2 DEF k, e
<1>12. QED
  BY <1>2, <1>3, <1>9, <1>10, <1>11

\* The copy stays as it is.
LEMMA FiledStays ==
  ASSUME Untouched, Filed, disk' = disk, rcv'.expected = rcv.expected
  PROVE  Filed'
BY DEF Untouched, Filed, Count

LEMMA ReadsNumbers ==
  ASSUME TypeOK, TypeOK', ~batch, Alone, Used < Modulus, Filed, Talks, ReceiverReads
  PROVE  Filed' /\ Talks' /\ Alone'
<1> DEFINE m == Head(toR)
<1>1. /\ toR # <<>> /\ snd' = snd /\ faults' = faults /\ Untouched
      /\ ReadItem(m) \/ ReadFrame(m)
  BY ReceiverReadsIs
<1>2. m \in Frames /\ m = toR[1] /\ Len(toR) \in Nat \ {0} /\ 1 \in 1..Len(toR)
  BY <1>1, FrameNext
<1> HIDE DEF m
<1>3. rcv.at = "core" /\ Dialogue /\ rcv.file = 1 /\ rcv.expected \in Nat \ {0}
  BY <1>1, Typed DEF ReadItem, ReadFrame, Alone, Talks
<1>4. Good(1) <=> Fine(m)
  BY <1>2 DEF Good
<1>5. ASSUME rcv'.at \in {"core", "done", "failed"}, rcv'.file = 1 PROVE Alone'
  BY <1>1, <1>5 DEF Alone, Untouched
<1>6. Failed => Alone' /\ Talks' /\ rcv'.expected = rcv.expected
  <2>1. Failed => rcv'.at = "failed" /\ rcv'.file = 1 /\ rcv'.expected = rcv.expected
    BY <1>3, ReceiverIs
  <2>2. QED
    BY <1>5, <2>1 DEF Talks
<1>7. Counted => Alone' /\ rcv'.expected = rcv.expected
  BY <1>3, <1>5, ReceiverIs
\* Nothing was written.
<1>8. ASSUME disk' = disk, Counted, toR' = Tail(toR), NEW b \in Replies \ {"ACK"}, Replied(b),
             Fine(m) => Other # 0
      PROVE  Filed' /\ Talks' /\ Alone'
  <2>1. Dialogue'
    BY <1>1, <1>3, <1>4, <1>7, <1>8, TailDialogue
  <2>2. QED
    BY <1>1, <1>7, <1>8, <2>1, FiledStays DEF Talks
<1>9. CASE ReadItem(m)
  <2>1. ~Fine(m)
    <3>1. m.type # "block"
      BY <1>3, <1>9 DEF ReadItem, Item
    <3>2. QED
      BY <3>1 DEF Fine, HasBody
  <2>2. CASE m = Item("eot") /\ Eot
    <3>1. rcv' = [rcv EXCEPT !.at = "done"] /\ disk' = disk
      BY <2>2 DEF Eot, SetLen, ReceiverAt
    <3>2. rcv'.at = "done" /\ rcv'.file = 1 /\ rcv'.expected = rcv.expected
      BY <1>3, <3>1, ReceiverIs
    <3>3. QED
      BY <1>1, <1>5, <3>1, <3>2, FiledStays DEF Talks
  <2>3. CASE Failed /\ disk' = disk
    BY <1>1, <1>6, <2>3, FiledStays
  <2>4. CASE Retry("NAK", <<>>) /\ toR' = Tail(toR) /\ disk' = disk
    <3>1. "NAK" \in Replies \ {"ACK"} /\ <<>> \in {<<>>, <<"CAN">>}
      BY DEF Replies
    <3>2. (Counted /\ Replied("NAK")) \/ Failed
      BY <2>4, <3>1, RetryIs
    <3>3. QED
      BY <1>1, <1>6, <1>8, <2>1, <2>4, <3>1, <3>2, FiledStays
  <2>5. QED
    BY <1>3, <1>9, <2>2, <2>3, <2>4 DEF ReadItem
<1>10. CASE ReadFrame(m)
  <2>1. m \in Blocks \cup Headers /\ ReceiveBlock(m)
    BY <1>3, <1>10 DEF ReadFrame
  <2>2. HasBody(m)
    BY <1>2, <2>1, FrameKinds
  <2>3. CASE GivenUp(m) \/ Foreign(m)
    BY <1>1, <1>6, <2>3, FiledStays DEF GivenUp, Foreign
  <2>4. CASE Refused(m)
    <3>1. Other # 0
      <4>1. ~Good(1)
        BY <1>4, <2>4 DEF Refused
      <4>2. ~NoneLost
        BY <1>2, <2>2, <4>1 DEF NoneLost
      <4>3. QED
        BY <1>3, <4>2 DEF Dialogue
    <3>2. disk' = disk /\ ~Fine(m) /\ (toR' = <<>> \/ toR' = Tail(toR))
      BY <2>4 DEF Refused
    <3>3. (Counted /\ Replied("NAK")) \/ Failed
      BY <2>4 DEF Refused
    <3>4. "NAK" \in Replies \ {"ACK"}
      BY DEF Replies
    <3>5. CASE Failed
      BY <1>1, <1>6, <3>2, <3>5, FiledStays
    <3>6. CASE Counted /\ Replied("NAK") /\ toR' = Tail(toR)
      BY <1>8, <3>2, <3>4, <3>6
    <3>7. CASE Counted /\ Replied("NAK") /\ toR' = <<>>
      <4>1. Len(toR') = 0
        BY <3>7
      <4>2. Extra' = Extra /\ Other' = Other /\ Extra \in Nat
        BY <1>1, Counts DEF Extra, Other
      <4>3. Len(toS') = Len(toS) + 1 /\ Len(toS) \in Nat /\ Len(toR) \in Nat \ {0}
        BY <1>2, <3>4, <3>7, RepliedOne
      <4>4. Len(toR') + Owed' <= 1 + Extra'
        <5>1. Len(toR) + Owed <= 1 + Extra
          BY <1>3 DEF Dialogue, Few
        <5>2. CASE snd.at \in Ended
          <6>1. Owed' = 0
            BY <1>1, <5>2 DEF Owed
          <6>2. QED
            BY <4>1, <4>2, <6>1
        <5>3. CASE snd.at \notin Ended
          <6>1. Owed' = Len(toS) + 1 /\ Owed = Len(toS)
            BY <1>1, <4>3, <5>3 DEF Owed
          <6>2. QED
            BY <4>1, <4>2, <4>3, <5>1, <6>1
        <5>4. QED
          BY <5>2, <5>3
      <4>5. Dialogue'
        <5>1. Extra' >= Extra /\ Other' # 0
          BY <3>1, <4>2
        <5>2. QED
          BY <1>1, <1>3, <1>7, <3>4, <3>7, <4>1, <4>4, <5>1, QuietDialogue
      <4>6. QED
        BY <1>1, <1>7, <3>2, <3>7, <4>5, FiledStays DEF Talks
    <3>8. QED
      BY <3>2, <3>3, <3>5, <3>6, <3>7
  <2>5. CASE Again(m)
    <3>1. /\ Fine(m) /\ Duplicate(m) /\ disk' = disk /\ rcv' = rcv /\ toR' = Tail(toR) /\ Replied("ACK")
          /\ "ACK" \in Replies
      BY <2>5 DEF Again, Replies
    <3>2. Good(1) /\ Body(1) = rcv.expected - 1
      BY <1>1, <1>2, <1>3, <2>1, <3>1, HeadIs
    <3>3. Body(1) < rcv.expected
      BY <1>3, <3>2
    <3>4. Dialogue'
      BY <1>1, <1>3, <3>1, <3>2, <3>3, TailDialogue
    <3>5. QED
      BY <1>1, <1>3, <1>5, <3>1, <3>4, FiledStays DEF Talks
  <2>6. CASE Written(m)
    <3>1. /\ Fine(m) /\ ~Duplicate(m) /\ InSequence(m) /\ toR' = Tail(toR) /\ Replied("ACK")
          /\ disk' = [disk EXCEPT ![rcv.file] = Append(@, m.body)]
          /\ rcv' = [rcv EXCEPT !.expected = rcv.expected + 1, !.tries = 0]
          /\ "ACK" \in Replies
      BY <2>6 DEF Written, Replies
    <3>2. Good(1) /\ Body(1) = rcv.expected /\ m.body = rcv.expected /\ rcv.expected <= sizes[1]
      BY <1>1, <1>2, <1>3, <2>1, <3>1, HeadIs
    <3>3. rcv'.at = "core" /\ rcv'.file = 1 /\ rcv'.expected = rcv.expected + 1
      <4>1. rcv.expected + 1 \in Nat
        BY <1>3
      <4>2. QED
        BY <1>3, <3>1, <4>1, ReceiverIs
    <3>4. Dialogue'
      <4>1. Body(1) = rcv'.expected - 1 /\ Body(1) < rcv'.expected
        BY <1>3, <3>2, <3>3
      <4>2. QED
        BY <1>1, <1>3, <3>1, <3>2, <3>3, <4>1, TailDialogue
    <3>5. Filed'
      <4>1. disk[1] = Count(rcv.expected - 1) /\ 1 \in Files /\ sizes' = sizes
        BY <1>1, OneFile DEF Filed, Untouched
      <4>2. disk'[1] = Append(disk[1], rcv.expected)
        BY <1>3, <3>1, <3>2, <4>1 DEF TypeOK
      <4>3. rcv.expected - 1 \in Nat /\ (rcv.expected - 1) + 1 = rcv.expected
        BY <1>3
      <4>4. Append(Count(rcv.expected - 1), rcv.expected) = Count(rcv.expected)
        BY <4>3, CountNext
      <4>5. rcv'.expected - 1 = rcv.expected
        BY <1>3, <3>3
      <4>6. disk'[1] = Count(rcv.expected)
        BY <4>1, <4>2, <4>4
      <4>7. QED
        BY <3>2, <4>1, <4>5, <4>6 DEF Filed, Count
    <3>6. QED
      BY <1>5, <3>3, <3>4, <3>5 DEF Talks
  <2>7. QED
    BY <2>1, <2>3, <2>4, <2>5, <2>6, BlockRead
<1>11. QED
  BY <1>1, <1>9, <1>10

-----------------------------------------------------------------------------
(***************************************************************************)
(* Every step of a file of its own.                                        *)
(***************************************************************************)

\* The receiver asks once more, or gives up.
LEMMA WaitsNumbers ==
  ASSUME TypeOK, TypeOK', ~batch, Alone, Filed, Talks, Untouched,
         snd' = snd, toR' = toR, disk' = disk, ReceiverWaited, Len(toR) = 0,
         Extra' >= Extra, Other' = Other, Dialogue => Owed <= Extra'
  PROVE  Alone' /\ Filed' /\ Talks'
<1>1. rcv.at = "core" /\ Dialogue
  BY DEF ReceiverWaited, Alone, Talks
<1>2. Extra \in Nat /\ Extra' \in Nat /\ Owed \in Nat /\ Len(toS) \in Nat
  BY Counts, CountsNext
<1>3. PICK b \in Replies \ {"ACK"} : Retry(b, <<>>)
  BY <1>1 DEF ReceiverWaited, InitChar, Replies
<1>4. (Counted /\ Replied(b)) \/ Failed
  BY <1>3, RetryIs
<1>5. rcv'.at \in {"core", "failed"} /\ rcv'.file = 1 /\ rcv'.expected = rcv.expected
      /\ (Failed => rcv'.at = "failed")
  BY <1>1, <1>4, ReceiverIs DEF Alone
<1>6. Alone'
  BY <1>5 DEF Alone, Untouched
<1>7. Filed'
  BY <1>5, FiledStays
<1>8. CASE Failed
  BY <1>5, <1>6, <1>7, <1>8 DEF Talks
<1>9. CASE Replied(b)
  <2>1. Len(toS') = Len(toS) + 1 /\ b \in Replies
    BY <1>9, RepliedOne
  <2>2. Owed' <= Owed + 1
    <3>1. CASE snd.at \in Ended
      BY <1>2, <3>1 DEF Owed
    <3>2. CASE snd.at \notin Ended
      BY <1>2, <2>1, <3>2 DEF Owed
    <3>3. QED
      BY <3>1, <3>2
  <2>3. Len(toR') + Owed' <= 1 + Extra'
    <3>1. Len(toR') = 0 /\ Owed <= Extra' /\ Owed' \in Nat
      BY <1>1, CountsNext
    <3>2. \A x, y, z \in Nat : x <= y + 1 /\ y <= z => 0 + x <= 1 + z
      OBVIOUS
    <3>3. QED
      BY <1>2, <2>2, <3>1, <3>2
  <2>4. /\ \A p : Good(p) => Good(p)' /\ Body(p)' = Body(p)
        /\ \A p \in 1..Len(toR') : HasBody(toR'[p]) => p \in 1..Len(toR) /\ toR'[p] = toR[p]
    BY FramesStay
  <2>5. Other' = 0 => NoneLost'
    BY <1>1, <1>5, <2>4, KeepsAll
  <2>6. Dialogue'
    BY <1>1, <1>5, <1>9, <2>3, <2>5, QuietDialogue
  <2>7. QED
    BY <1>6, <1>7, <2>6 DEF Talks
<1>10. QED
  BY <1>4, <1>8, <1>9

\* The sender goes on, repeats, gives up or is done.
LEMMA SendsNumbers ==
  ASSUME TypeOK, TypeOK', ~batch, Alone, Filed, Talks, Untouched, rcv' = rcv, disk' = disk,
         Begins \/ Proceeds \/ Repeats \/ GivesUp \/ Concludes,
         Proceeds => Acked(1), rcv.at = "core" => Room
  PROVE  Alone' /\ Filed' /\ Talks'
<1>1. Alone'
  BY SenderAlone
<1>2. Filed'
  BY FiledStays
<1>3. ASSUME rcv.at = "core" PROVE Dialogue'
  <2>1. sizes' = sizes
    BY DEF Untouched
  <2>2. Dialogue /\ Room
    BY <1>3 DEF Talks
  <2>3. Adds
    BY <2>1, SenderAdds
  <2>4. QED
    BY <2>1, <2>2, <2>3, SenderDialogue
<1>4. QED
  BY <1>1, <1>2, <1>3 DEF Talks

LEMMA SenderReadsNumbers ==
  ASSUME TypeOK, TypeOK', ~batch, Alone, Filed, Talks, SenderReads
  PROVE  Alone' /\ Filed' /\ Talks'
<1> DEFINE b == Head(toS)
           a == (b = "ACK")
<1>1. /\ toS # <<>> /\ snd.at \notin Ended /\ toS' = Tail(toS) /\ rcv' = rcv /\ disk' = disk
      /\ faults' = faults /\ Untouched
      /\ SenderInit(b) \/ SenderData(b) \/ SenderEot(a) \/ SenderHeader(b)
  BY DEF SenderReads, Untouched
<1>2. a \in BOOLEAN
  OBVIOUS
<1>3. /\ Len(toS) \in Nat \ {0} /\ b = toS[1] /\ Len(toS') = Len(toS) - 1
      /\ \A p \in 1..Len(toS) - 1 : toS'[p] = toS[p + 1]
  BY <1>1, Taken DEF TypeOK
<1> HIDE DEF a, b
<1>4. Begins \/ (Proceeds /\ b = "ACK") \/ Repeats \/ GivesUp \/ Concludes
  <2>1. PICK d \in BOOLEAN : SenderInit(b) \/ SenderData(b) \/ SenderEot(d) \/ SenderHeader(b)
    BY <1>1, <1>2
  <2>2. PICK c : c = b
    OBVIOUS
  <2>3. SenderInit(c) \/ SenderData(c) \/ SenderEot(d) \/ SenderHeader(c)
    BY <2>1, <2>2
  <2>4. Begins \/ (Proceeds /\ c = "ACK") \/ Repeats \/ GivesUp \/ Concludes
    BY <2>3, SenderMoves
  <2>5. QED
    BY <2>2, <2>4
<1>5. b = "ACK" => Acked(1)
  BY <1>3 DEF Acked
<1>6. Proceeds => b = "ACK"
  <2>1. ASSUME Proceeds PROVE SenderData(b)
    BY <1>1, <2>1 DEF Proceeds, SenderInit, SenderEot, SenderHeader
  <2>2. ASSUME Proceeds, b # "ACK" PROVE FALSE
    <3>1. snd'.block = snd.block + 1 /\ snd.block \in Nat /\ snd.at = "data" /\ snd \in Senders
      BY <2>2, MovesAre, Typed DEF Proceeds, TypeOK
    <3>2. Repeats \/ snd' = [snd EXCEPT !.at = "failed"]
      BY <2>1, <2>2, <3>1 DEF SenderData, SenderFails, SenderAt, Repeats
    <3>3. snd'.block = snd.block
      BY <3>1, <3>2, MovesAre DEF Senders
    <3>4. QED
      BY <3>1, <3>3
  <2>3. QED
    BY <2>2
<1>7. ASSUME rcv.at = "core" PROVE Room
  <2>1. Len(toR) + Owed <= 1 + Extra /\ Extra \in Nat /\ Len(toR) \in Nat
    BY <1>7, Counts DEF Talks, Dialogue, Few
  <2>2. Extra' = Extra /\ Other' = Other
    BY <1>1 DEF Extra, Other
  <2>3. Owed = Len(toS)
    BY <1>1 DEF Owed
  <2>4. Owed' \in Nat /\ Owed' <= Len(toS) - 1
    <3>1. Owed' = 0 \/ Owed' = Len(toS')
      BY DEF Owed
    <3>2. QED
      BY <1>3, <3>1
  <2>5. \A i \in Nat : Acked(i)' => i + 1 \in Nat /\ Acked(i + 1) /\ (i + 1) + Extra' >= i + Extra + 1
    <3>1. \A i \in 1..Len(toS) - 1 : i + 1 \in 1..Len(toS) /\ toS'[i] = toS[i + 1]
      BY <1>3
    <3>2. \A i \in Nat : Acked(i)' => Acked(i + 1)
      BY <1>3, <3>1 DEF Acked
    <3>3. \A i \in Nat : i + 1 \in Nat /\ (i + 1) + Extra >= i + Extra + 1
      BY <2>1
    <3>4. QED
      BY <2>2, <3>2, <3>3
  <2>6. \A i \in Nat : Acked(i)' => \E k \in Nat : Acked(k) /\ k + Extra' >= i + Extra + 1
    BY <2>5
  <2>7. Len(toR) + Owed' <= Extra' /\ Extra' + Owed >= Extra + Owed' + 1 /\ Extra' >= Extra
    BY <1>3, <2>1, <2>2, <2>3, <2>4
  <2>8. QED
    BY <2>2, <2>6, <2>7 DEF Room
<1>8. QED
  BY <1>1, <1>4, <1>5, <1>6, <1>7, SendsNumbers

\* A sender that waits in vain, or gives up on a late answer, proceeds to
\* no block.
LEMMA SenderWaitsNumbers ==
  ASSUME TypeOK, TypeOK', ~batch, Alone, Filed, Talks, Untouched, rcv' = rcv, disk' = disk,
         toS' = toS, Len(toS) = 0, SenderWaited, Other' = Other,
         (Extra' = Extra /\ (rcv.at = "core" => Len(toR) = 0)) \/ Extra' = Extra + 1
  PROVE  Alone' /\ Filed' /\ Talks'
<1>1. (GivesUp \/ Concludes) /\ snd'.at # "data" /\ snd'.block = snd.block
  BY SenderWaits, MovesAre DEF Concludes
<1>2. ~Proceeds
  <2>1. Proceeds => snd'.block = snd.block + 1
    BY MovesAre
  <2>2. QED
    BY <1>1, <2>1, Typed
<1>3. ASSUME rcv.at = "core" PROVE Room
  <2>1. Len(toR) + Owed <= 1 + Extra /\ Extra \in Nat /\ Len(toR) \in Nat
    BY <1>3, Counts DEF Talks, Dialogue, Few
  <2>2. Owed = 0 /\ Owed' = 0
    BY DEF Owed
  <2>3. \A i \in Nat : ~Acked(i)'
    BY DEF Acked
  <2>4. CASE Extra' = Extra /\ Len(toR) = 0
    <3>1. Extra' >= Extra /\ Len(toR) + Owed' <= Extra'
      BY <2>1, <2>2, <2>4
    <3>2. QED
      BY <2>3, <2>4, <3>1 DEF Room
  <2>5. CASE Extra' = Extra + 1
    <3>1. Extra' >= Extra /\ Len(toR) + Owed' <= Extra' /\ Extra' + Owed >= Extra + Owed' + 1
      BY <2>1, <2>2, <2>5
    <3>2. QED
      BY <2>3, <3>1 DEF Room
  <2>6. QED
    BY <1>3, <2>4, <2>5
<1>4. QED
  BY <1>1, <1>2, <1>3, SendsNumbers

LEMMA SumGrows ==
  ASSUME NEW y \in [Kinds -> Nat], NEW z \in [Kinds -> Nat], \A kind \in Kinds : z[kind] >= y[kind]
  PROVE  y["damage"] + y["garble"] + y["cut"] + y["lose"] + y["noise"] + y["late"]
           <= z["damage"] + z["garble"] + z["cut"] + z["lose"] + z["noise"] + z["late"]
<1>1. \A a, b, c, d, e, g, h, i, j, k, l, m \in Nat :
        a <= h /\ b <= i /\ c <= j /\ d <= k /\ e <= l /\ g <= m
          => a + b + c + d + e + g <= h + i + j + k + l + m
  OBVIOUS
<1>2. \A kind \in Kinds : y[kind] \in Nat /\ z[kind] \in Nat /\ y[kind] <= z[kind]
  OBVIOUS
<1>3. Kinds = {"damage", "garble", "cut", "lose", "noise", "late"}
  BY DEF Kinds
<1>4. /\ y["damage"] \in Nat /\ z["damage"] \in Nat /\ y["damage"] <= z["damage"]
      /\ y["garble"] \in Nat /\ z["garble"] \in Nat /\ y["garble"] <= z["garble"]
      /\ y["cut"] \in Nat /\ z["cut"] \in Nat /\ y["cut"] <= z["cut"]
      /\ y["lose"] \in Nat /\ z["lose"] \in Nat /\ y["lose"] <= z["lose"]
      /\ y["noise"] \in Nat /\ z["noise"] \in Nat /\ y["noise"] <= z["noise"]
      /\ y["late"] \in Nat /\ z["late"] \in Nat /\ y["late"] <= z["late"]
  BY <1>2, <1>3
<1>5. QED
  BY <1>1, <1>4

LEMMA UsedGrows ==
  ASSUME TypeOK, TypeOK', Grown
  PROVE  Used <= Used' /\ Used \in Nat /\ Used' \in Nat
<1>1. faults \in [Kinds -> Nat] /\ faults' \in [Kinds -> Nat]
  BY DEF TypeOK
<1>2. Used <= Used'
  BY <1>1, SumGrows DEF Grown, Used
<1>3. /\ \A kind \in Kinds : faults[kind] \in Nat /\ faults'[kind] \in Nat
  BY <1>1
<1>4. QED
  BY <1>2, <1>3 DEF Used, Kinds

LEMMA StepNumbers ==
  ASSUME TypeOK, TypeOK', Numbers, [Next]_vars
  PROVE  Numbers'
<1>1. Untouched /\ Grown
  BY StepTyped
<1>2. SUFFICES ASSUME ~batch, Used' < Modulus PROVE Alone' /\ Filed' /\ Talks'
  BY <1>1 DEF Numbers, Untouched
<1>3. Used < Modulus
  BY <1>1, <1>2, UsedGrows, NumbersAssumption
<1>4. Alone /\ Filed /\ Talks
  BY <1>2, <1>3 DEF Numbers
<1>5. /\ Extra \in Nat /\ Owed \in Nat /\ Len(toR) \in Nat
      /\ toS = <<>> => Len(toS) = 0
      /\ toR = <<>> => Len(toR) = 0
  BY <1>2, <1>4, Counts
<1>6. faults' = faults => Extra' = Extra /\ Other' = Other
  BY DEF Extra, Other
<1>7. CASE SenderReads
  BY <1>2, <1>4, <1>7, SenderReadsNumbers
<1>8. CASE ReceiverReads
  BY <1>2, <1>3, <1>4, <1>8, ReadsNumbers
<1>9. CASE SenderTimesOut
  <2>1. /\ toS = <<>> /\ (toR = <<>> \/ rcv.at \in Ended) /\ SenderWaited
        /\ rcv' = rcv /\ toS' = toS /\ disk' = disk /\ faults' = faults
    BY <1>9 DEF SenderTimesOut, SenderStarves
  <2>2. rcv.at = "core" => Len(toR) = 0
    BY <1>5, <2>1 DEF Ended
  <2>3. QED
    BY <1>1, <1>2, <1>4, <1>5, <1>6, <2>1, <2>2, SenderWaitsNumbers
<1>10. CASE ReceiverTimesOut
  <2>1. /\ toR = <<>> /\ (toS = <<>> \/ snd.at \in Ended) /\ ReceiverWaited
        /\ snd' = snd /\ toR' = toR /\ disk' = disk /\ faults' = faults
    BY <1>10 DEF ReceiverTimesOut, ReceiverStarves
  <2>2. Owed = 0
    BY <1>5, <2>1 DEF Owed
  <2>3. Extra' >= Extra /\ Owed <= Extra' /\ Other' = Other
    BY <1>5, <1>6, <2>1, <2>2
  <2>4. QED
    BY <1>1, <1>2, <1>4, <1>5, <2>1, <2>3, WaitsNumbers
<1>11. CASE Late
  <2>1. "late" \in Kinds /\ Spend("late") /\ disk' = disk
        /\ \/ toS = <<>> /\ SenderWaited /\ rcv' = rcv /\ toS' = toS
           \/ toR = <<>> /\ ReceiverWaited /\ snd' = snd /\ toR' = toR
    BY <1>11 DEF Late, Kinds
  <2>2. Extra' = Extra + 1 /\ Other' = Other
    BY <2>1, SpendIs, SpentCounts
  <2>3. CASE toS = <<>> /\ SenderWaited /\ rcv' = rcv /\ toS' = toS
    BY <1>1, <1>2, <1>4, <1>5, <2>1, <2>2, <2>3, SenderWaitsNumbers
  <2>4. CASE toR = <<>> /\ ReceiverWaited /\ snd' = snd /\ toR' = toR
    <3>1. Len(toR) = 0
      BY <1>5, <2>4
    <3>2. Dialogue => Owed <= Extra'
      BY <1>5, <2>2, <3>1 DEF Dialogue, Few
    <3>3. Extra' >= Extra
      BY <1>5, <2>2
    <3>4. QED
      BY <1>1, <1>2, <1>4, <2>1, <2>2, <2>4, <3>1, <3>2, <3>3, WaitsNumbers
  <2>5. QED
    BY <2>1, <2>3, <2>4
<1>12. CASE Line
  <2>1. /\ FrameSpoilt \/ FrameLost \/ FrameAdded \/ ReplyGarbled \/ ReplyLost \/ ReplyAdded
        /\ snd' = snd /\ rcv' = rcv /\ disk' = disk
    BY <1>12, LineIs
  <2>2. Alone' /\ Filed'
    BY <1>1, <1>4, <2>1, FiledStays DEF Alone, Untouched
  <2>3. rcv.at = "core" => Dialogue'
    BY <1>1, <1>2, <1>4, <2>1, FramesLost, LineTalks DEF Talks
  <2>4. QED
    BY <2>1, <2>2, <2>3 DEF Talks
<1>13. CASE UNCHANGED vars
  <2>1. /\ snd' = snd /\ rcv' = rcv /\ toR' = toR /\ toS' = toS /\ disk' = disk /\ faults' = faults
        /\ sizes' = sizes
    BY <1>13 DEF vars
  <2>2. Alone' /\ Filed'
    BY <1>1, <1>4, <2>1, FiledStays DEF Alone
  <2>3. /\ Extra' = Extra /\ Other' = Other /\ Top' = Top /\ Owed' = Owed /\ Sending' = Sending
        /\ \A p : (Good(p) <=> Good(p)') /\ Body(p)' = Body(p)
        /\ \A b : (Arriving(b) <=> Arriving(b)') /\ (Acked(b) <=> Acked(b)')
    BY <2>1 DEF Extra, Other, Top, Owed, Sending, Good, Body, Arriving, Acked
  <2>4. Dialogue => Dialogue'
    BY <2>1, <2>3 DEF Dialogue, Near, Few, InLine, Within, Answered, NoneLost
  <2>5. QED
    BY <1>4, <2>1, <2>2, <2>4 DEF Talks
<1>14. QED
  BY <1>7, <1>8, <1>9, <1>10, <1>11, <1>12, <1>13 DEF Next

LEMMA InitNumbers ==
  ASSUME Init
  PROVE  Numbers
<1>1. SUFFICES ASSUME ~batch PROVE Alone /\ Filed /\ Talks
  BY DEF Numbers
<1>2. TypeOK
  BY InitTyped
<1>3. /\ snd.at = "init" /\ snd.file = 1 /\ snd.block = 1
      /\ rcv.at = "core" /\ rcv.file = 1 /\ rcv.expected = 1
      /\ toR = <<>> /\ disk \in [{Stray} \cup Files -> {<<>>}]
      /\ faults = [kind \in Kinds |-> 0]
      /\ \E crc \in BOOLEAN : toS = <<IF crc THEN "C" ELSE "NAK">>
  BY <1>1 DEF Init
<1>4. Files = {1} /\ sizes[1] \in Nat
  BY <1>1, <1>2, OneFile
<1>5. Alone
  BY <1>3 DEF Alone
<1>6. Filed
  <2>1. disk[1] = <<>>
    BY <1>3, <1>4
  <2>2. rcv.expected - 1 = 0
    BY <1>3
  <2>3. QED
    BY <1>4, <2>1, <2>2, CountNone DEF Filed
<1>7. Extra = 0 /\ Other = 0 /\ Top = 0 /\ ~Sending
  BY <1>3 DEF Extra, Other, Kinds, Top, Sending
<1>8. Len(toR) = 0 /\ Len(toS) = 1 /\ toS[1] # "ACK" /\ Owed = 1
  BY <1>3 DEF Owed, Ended
<1>9. (\A p : ~Good(p)) /\ (\A i : ~Acked(i))
  BY <1>8 DEF Good, Acked
<1>10. Near /\ Few
  BY <1>3, <1>7, <1>8 DEF Near, Few
<1>11. InLine /\ Within /\ Answered
  BY <1>9 DEF InLine, Within, Answered
<1>12. NoneLost
  BY <1>3, <1>7, <1>8 DEF NoneLost
<1>13. QED
  BY <1>5, <1>6, <1>10, <1>11, <1>12 DEF Talks, Dialogue

\* Over any line with fewer faults than block numbers, the receiver of a
\* file of its own takes each block for what it is: the copy is the file up
\* to the block it expects, and the frames and replies on their way bound
\* how far the sender is ahead.
THEOREM NumbersAlways == Spec => []Numbers
<1>1. Init => Numbers
  BY InitNumbers
<1>2. TypeOK /\ TypeOK' /\ Numbers /\ [Next]_vars => Numbers'
  BY StepNumbers
<1>3. QED
  BY <1>1, <1>2, TypesKept, PTL DEF Spec

\* The blocks written are those of the file, in order and once each: a
\* batch over a paced line, a file of its own over any line with fewer
\* faults than block numbers (receive_core).
THEOREM WrittenInOrder == Spec => []InOrder
<1>1. TypeOK /\ PacedInv /\ Numbers => InOrder
  <2>1. SUFFICES ASSUME TypeOK, PacedInv, Numbers, NEW f \in Files,
                        IF batch THEN Paced ELSE Used < Modulus
                 PROVE  Prefix(disk[f], Original(f))
    BY DEF InOrder
  <2>2. sizes[f] \in Nat
    BY <2>1 DEF TypeOK
  <2>3. CASE batch
    <3>1. PICK n \in 0..sizes[f] : disk[f] = Count(n)
      BY <2>1, <2>3 DEF PacedInv, Copied
    <3>2. n \in Nat /\ n <= sizes[f]
      BY <2>2
    <3>3. QED
      BY <2>2, <3>1, <3>2, PrefixIs
  <2>4. CASE ~batch
    <3>1. disk[1] = Count(rcv.expected - 1) /\ rcv.expected - 1 <= sizes[1]
      BY <2>1, <2>4 DEF Numbers, Filed
    <3>2. rcv.expected - 1 \in Nat
      BY <2>1, Typed
    <3>3. f = 1
      BY <2>1, <2>4, OneFile
    <3>4. QED
      BY <2>2, <3>1, <3>2, <3>3, PrefixIs
  <2>5. QED
    BY <2>3, <2>4
<1>2. QED
  BY <1>1, TypesKept, PacedAlways, NumbersAlways, PTL
=============================================================================
