----------------------------- MODULE LinkProofs -----------------------------
(***************************************************************************)
(* Proofs about Link, for any bytes sent either way, any pieces they are   *)
(* read in and any number of them: a connection passes data on as it is,   *)
(* a remote that speaks telnet gets its answers in the order of its        *)
(* requests, and it knows the size of the window once it may be told.      *)
(***************************************************************************)
EXTENDS Link, TLAPS, SequenceTheorems, WellFoundedInduction

-----------------------------------------------------------------------------
(***************************************************************************)
(* What a step makes of a state and a sequence, item after item.           *)
(***************************************************************************)

After(step, x, b) == step[<<x, b>>]
Fold(step, p, q) ==
  LET after[n \in 0..Len(q)] == IF n = 0 THEN p ELSE After(step, after[n - 1], q[n])
  IN  after[Len(q)]

\* step takes states of P and items of B to states of P.
StepOf(P, B, step) == step \in [P \X B -> P]

Byte  == 0..255
Bytes == Seq(Byte)

Modes == {"data", "iac", "negotiation", "sub", "subiac"}
ParserState ==
  [mode : Modes, cmd : Byte, buf : Bytes,
   data : Bytes, responses : Seq(Bytes)]
parseStep == [x \in ParserState \X Byte |-> Parsed(x[1], x[2])]

HeardState ==
  {h \in [mode : {"data", "command", "option", "sub", "subcommand"}, buf : Bytes,
          data : Bytes, answers : Seq(Bytes), size : Nat] :
     h.mode = "option" => h.buf # <<>>}
hearStep == [x \in HeardState \X Byte |-> HeardByte(x[1], x[2])]
tellStep == [x \in HeardState \X Bytes |-> Hear(x[1], x[2])]
HearAll(h, messages) == Fold(tellStep, h, messages)

joinStep == [x \in Bytes \X Bytes |-> x[1] \o x[2]]
Joined(s, pieces) == Fold(joinStep, s, pieces)

(***************************************************************************)
(* The answer a request comes to, and what all that is on its way to the   *)
(* client comes to: data it has read and answers the remote has.           *)
(***************************************************************************)

Answer(cmd, opt) ==
  CASE cmd = DO   -> <<<<IF opt \in {SGA, NAWS, TTYPE} THEN WILL ELSE WONT, opt>>>>
    [] cmd = WILL -> <<<<IF opt \in {SGA, ECHO} THEN DO ELSE DONT, opt>>>>
    [] cmd = DONT /\ opt \in {SGA, NAWS, TTYPE} -> <<<<WONT, opt>>>>
    [] cmd = WONT /\ opt \in {SGA, ECHO}        -> <<<<DONT, opt>>>>
    [] OTHER -> <<>>
TypeAnswer(buf) ==
  IF Len(buf) >= 2 /\ SubSeq(buf, 1, 2) = <<TTYPE, SEND>> THEN <<<<SB, TTYPE, IS, 120>>>> ELSE <<>>

Ahead(mode, cmd, buf, data, answers) ==
  [mode |-> mode, cmd |-> cmd, buf |-> buf, data |-> data, answers |-> answers]
AheadState ==
  [mode : Modes, cmd : Byte, buf : Bytes,
   data : Bytes, answers : Seq(Bytes)]

Meant(a, b) ==
  CASE a.mode = "data" /\ b # IAC -> Ahead("data", a.cmd, a.buf, Append(a.data, b), a.answers)
    [] a.mode = "data" /\ b = IAC -> Ahead("iac", a.cmd, a.buf, a.data, a.answers)
    [] a.mode = "iac" /\ b = IAC  -> Ahead("data", a.cmd, a.buf, Append(a.data, IAC), a.answers)
    [] a.mode = "iac" /\ b = SB   -> Ahead("sub", a.cmd, <<>>, a.data, a.answers)
    [] a.mode = "iac" /\ b \in WILL..DONT -> Ahead("negotiation", b, a.buf, a.data, a.answers)
    [] a.mode = "negotiation" ->
         Ahead("data", a.cmd, a.buf, a.data, a.answers \o Answer(a.cmd, b))
    [] a.mode = "sub" /\ b # IAC  -> Ahead("sub", a.cmd, Append(a.buf, b), a.data, a.answers)
    [] a.mode = "sub" /\ b = IAC  -> Ahead("subiac", a.cmd, a.buf, a.data, a.answers)
    [] a.mode = "subiac" /\ b = SE ->
         Ahead("data", a.cmd, <<>>, a.data, a.answers \o TypeAnswer(a.buf))
    [] a.mode = "subiac" /\ b = IAC -> Ahead("sub", a.cmd, Append(a.buf, IAC), a.data, a.answers)
    [] OTHER -> Ahead("data", a.cmd, <<>>, a.data, a.answers)
meantStep == [x \in AheadState \X Byte |-> Meant(x[1], x[2])]

-----------------------------------------------------------------------------
(***************************************************************************)
(* The invariant.                                                          *)
(***************************************************************************)

Left    == IF Idle THEN <<>> ELSE answering[1].left
Pending == IF Idle THEN <<>> ELSE answering[1].data

\* The remote once it has heard the responses still to be written, and the
\* connection once it has read all that is on its way.
Told  == HearAll(heard, Left)
Begin == Ahead(parser.mode, parser.cmd, parser.buf, got \o Pending, Told.answers)
Read  == Fold(meantStep, Begin, down)

\* The client agrees to its own options only, and to a remote's.
Honest(answers) ==
  \A i \in 1..Len(answers) :
    /\ answers[i][1] = WILL => answers[i][2] \in {SGA, NAWS, TTYPE}
    /\ answers[i][1] = DO => answers[i][2] \in {SGA, ECHO}

\* The client's last word about the window size was that it will tell it.
WillTellSize(answers) ==
  \E i \in 1..Len(answers) :
    /\ answers[i][1] = WILL /\ answers[i][2] = NAWS
    /\ \A j \in 1..Len(answers) :
         answers[j][1] \in {WILL, WONT} /\ answers[j][2] = NAWS => j <= i

Matches(requests, answers) ==
  /\ Len(answers) = Len(requests)
  /\ \A i \in 1..Len(requests) : InKind(requests[i], answers[i])

Sound(h) ==
  /\ h.mode = "data" /\ h.data = wrote
  /\ Honest(h.answers) /\ (WillTellSize(h.answers) => h.size = cols)

\* A width that no byte of its message has to be doubled for, and the message.
WindowMsg(w) == <<IAC, SB, NAWS, w \div 256, w % 256, 0, 24, IAC, SE>>
SizeOK(w) == w \in Nat /\ w < 65280 /\ w % 256 # 255

TypeOK ==
  /\ protocol \in Protocols /\ status \in {"connected", "disconnected"}
  /\ down \in Bytes /\ heard \in HeardState
  /\ sent \in Bytes /\ asked \in Seq(Bytes) /\ wrote \in Bytes /\ got \in Bytes
  /\ parser \in [mode : Modes, cmd : Byte, buf : Bytes]
  /\ \/ answering = <<>>
     \/ /\ protocol = "telnet" /\ status = "connected"
        /\ answering = <<answering[1]>> /\ answering[1] \in [data : Bytes, left : Seq(Bytes)]
        /\ answering[1].left # <<>>
  /\ SizeOK(cols)
  /\ reader \in {"running", "stopped"} /\ writer \in {"running", "stopped"}
  /\ held \in Bytes /\ inq \in Seq(Bytes) /\ outq \in Seq(Bytes)
  /\ dropped \in BOOLEAN
  /\ protocol # "serial" => /\ reader = "stopped" /\ writer = "stopped"
                            /\ held = <<>> /\ inq = <<>> /\ outq = <<>>

TelnetInv ==
  /\ Sound(Told)
  /\ Read.mode = "data" /\ Read.data = sent /\ Matches(asked, Read.answers)

PlainInv ==   \* raw TCP and serial lines
  /\ asked = <<>> /\ heard.answers = <<>>
RawInv == got \o down = sent /\ heard.data = wrote

SerialIn ==
  IF status = "connected" THEN (Joined(got, inq) \o held) \o down = sent ELSE IsPrefix(got, sent)
SerialOut ==
  IF writer = "running" THEN Joined(heard.data, outq) = wrote
  ELSE outq = <<>> /\ IsPrefix(heard.data, wrote)
SerialInv == SerialIn /\ SerialOut

Inv ==
  /\ TypeOK
  /\ protocol = "telnet" => dropped \/ TelnetInv
  /\ protocol # "telnet" => PlainInv
  /\ protocol = "raw" => RawInv
  /\ protocol = "serial" => SerialInv

(***************************************************************************)
(* Least and greatest numbers.                                             *)
(***************************************************************************)

LessNat == {ss \in Nat \X Nat : ss[1] < ss[2]}

LEMMA Founded == IsWellFoundedOn(LessNat, Nat)
<1>1. LessNat = OpToRel(<, Nat)
  BY DEF LessNat, OpToRel
<1>2. QED
  BY <1>1, NatLessThanWellFounded

LEMMA Least ==
  ASSUME NEW S \in SUBSET Nat, S # {}
  PROVE  \E n \in S : \A m \in S : n <= m
<1>1. \E n \in S : \A m \in S : ~ <<m, n>> \in LessNat
  BY Founded, WFMin, Zenon
<1>2. PICK n \in S : \A m \in S : ~ <<m, n>> \in LessNat
  BY <1>1
<1>3. ASSUME NEW m \in S PROVE n <= m
  <2>1. m \in Nat /\ n \in Nat
    OBVIOUS
  <2>2. ~ (m < n)
    BY <1>2, <2>1 DEF LessNat
  <2>3. QED
    BY <2>1, <2>2
<1>4. QED
  BY <1>3

LEMMA Induct ==
  ASSUME NEW S, 0 \in S, \A n \in Nat : n \in S => n + 1 \in S
  PROVE  Nat \subseteq S
<1> DEFINE Bad == {n \in Nat : n \notin S}
<1>1. SUFFICES ASSUME Bad # {} PROVE FALSE
  OBVIOUS
<1>2. PICK n \in Bad : \A m \in Bad : n <= m
  <2> HIDE DEF Bad
  <2>1. Bad \in SUBSET Nat
    BY DEF Bad
  <2>2. QED
    BY <1>1, <2>1, Least
<1>3. n # 0 /\ n \in Nat
  OBVIOUS
<1>4. n - 1 \in Nat /\ n - 1 \notin Bad
  BY <1>2, <1>3
<1>5. n - 1 \in S
  BY <1>4
<1>6. QED
  BY <1>3, <1>4, <1>5
\* A set of sequences that holds the empty one, and each with one more item,
\* holds all of them.
LEMMA SeqInduct ==
  ASSUME NEW B, NEW S, <<>> \in S, \A q \in Seq(B), b \in B : q \in S => Append(q, b) \in S
  PROVE  Seq(B) \subseteq S
<1> DEFINE Lengths == {n \in Nat : \A q \in Seq(B) : Len(q) = n => q \in S}
<1>1. 0 \in Lengths
  BY EmptySeq
<1>2. ASSUME NEW n \in Nat, n \in Lengths PROVE n + 1 \in Lengths
  <2>1. SUFFICES ASSUME NEW q \in Seq(B), Len(q) = n + 1 PROVE q \in S
    OBVIOUS
  <2>2. q # <<>>
    BY <2>1, EmptySeq
  <2>3. PICK r \in Seq(B), b \in B : q = Append(r, b)
    BY <2>2, SequenceEmptyOrAppend
  <2>4. Len(q) = Len(r) + 1 /\ Len(r) \in Nat
    BY <2>3, AppendProperties, LenProperties
  <2>5. r \in S
    BY <1>2, <2>1, <2>4
  <2>6. QED
    BY <2>3, <2>5
<1> HIDE DEF Lengths
<1>3. Nat \subseteq Lengths
  BY <1>1, <1>2, Induct
<1>4. ASSUME NEW q \in Seq(B) PROVE q \in S
  <2>1. Len(q) \in Lengths
    BY <1>3, LenProperties
  <2>2. QED
    BY <2>1 DEF Lengths
<1>5. QED
  BY <1>4

LEMMA AppendConcat ==
  ASSUME NEW B, NEW q \in Seq(B), NEW r \in Seq(B), NEW b \in B
  PROVE  q \o Append(r, b) = Append(q \o r, b)
<1> DEFINE one == <<b>>
           qr  == q \o r
<1>1. one \in Seq(B) /\ qr \in Seq(B)
  BY ConcatProperties
<1>2. Append(r, b) = r \o one /\ Append(qr, b) = qr \o one
  BY <1>1, AppendIsConcat
<1> HIDE DEF one
<1>3. q \o (r \o one) = (q \o r) \o one
  BY <1>1, ConcatAssociative
<1>4. QED
  BY <1>2, <1>3

-----------------------------------------------------------------------------
(***************************************************************************)
(* Folds.                                                                  *)
(***************************************************************************)

\* after is what the first items of q make of p, one after the other.
Traces(step, p, q, after) ==
  after[0] = p /\ \A i \in 1..Len(q) : after[i] = After(step, after[i - 1], q[i])

LEMMA AfterIn ==
  ASSUME NEW P, NEW B, NEW step, StepOf(P, B, step), NEW x \in P, NEW b \in B
  PROVE  After(step, x, b) \in P
BY DEF StepOf, After

LEMMA TracesAgree ==
  ASSUME NEW P, NEW B, NEW step, StepOf(P, B, step), NEW p \in P, NEW q \in Seq(B), NEW m \in Nat,
         NEW f, NEW g, m <= Len(q), f[0] = p, g[0] = p,
         \A i \in 1..m : f[i - 1] \in P => f[i] = After(step, f[i - 1], q[i]),
         \A i \in 1..m : g[i - 1] \in P => g[i] = After(step, g[i - 1], q[i])
  PROVE  f[m] = g[m] /\ f[m] \in P
<1> DEFINE S == {n \in Nat : n <= m => f[n] = g[n] /\ f[n] \in P}
<1>1. 0 \in S
  OBVIOUS
<1>2. ASSUME NEW n \in Nat, n \in S PROVE n + 1 \in S
  <2>1. SUFFICES ASSUME n + 1 <= m PROVE f[n + 1] = g[n + 1] /\ f[n + 1] \in P
    OBVIOUS
  <2>2. f[n] = g[n] /\ f[n] \in P
    BY <1>2, <2>1
  <2>3. n + 1 \in 1..m /\ (n + 1) - 1 = n /\ n + 1 \in 1..Len(q)
    BY <2>1, LenProperties
  <2>4. f[n + 1] = After(step, f[n], q[n + 1]) /\ g[n + 1] = After(step, g[n], q[n + 1])
    BY <2>2, <2>3
  <2>5. q[n + 1] \in B
    BY <2>3, ElementOfSeq
  <2>7. After(step, f[n], q[n + 1]) \in P
    BY <2>2, <2>5, AfterIn
  <2>8. QED
    BY <2>2, <2>4, <2>7
<1> HIDE DEF S
<1>3. m \in S
  BY <1>1, <1>2, Induct
<1>4. QED
  BY <1>3 DEF S

\* The function a fold is defined by exists.
LEMMA Traced ==
  ASSUME NEW P, NEW B, NEW step, StepOf(P, B, step), NEW p \in P, NEW q \in Seq(B)
  PROVE  \E f : /\ Traces(step, p, q, f)
                /\ f = [n \in 0..Len(q) |-> IF n = 0 THEN p ELSE After(step, f[n - 1], q[n])]
<1> DEFINE Is(f, m) == f = [n \in 0..m |-> IF n = 0 THEN p ELSE After(step, f[n - 1], q[n])]
           S == {m \in Nat : \E f : Is(f, m)}
<1>1. 0 \in S
  <2>1. Is([n \in 0..0 |-> p], 0)
    OBVIOUS
  <2>2. QED
    BY <2>1
<1>2. ASSUME NEW m \in Nat, m \in S PROVE m + 1 \in S
  <2>1. PICK f : Is(f, m)
    BY <1>2
  <2> DEFINE h == [n \in 0..m + 1 |-> IF n <= m THEN f[n] ELSE After(step, f[m], q[m + 1])]
  <2>2. ASSUME NEW n \in 0..m + 1
        PROVE  h[n] = IF n = 0 THEN p ELSE After(step, h[n - 1], q[n])
    <3>1. CASE n = 0
      BY <2>1, <3>1
    <3>2. CASE n # 0 /\ n <= m
      <4>1. n \in 0..m /\ n - 1 \in 0..m /\ n - 1 \in 0..m + 1 /\ n - 1 <= m
        BY <3>2
      <4>2. h[n] = f[n] /\ h[n - 1] = f[n - 1]
        BY <3>2, <4>1
      <4>3. f[n] = After(step, f[n - 1], q[n])
        BY <2>1, <3>2, <4>1
      <4>4. QED
        BY <3>2, <4>2, <4>3
    <3>3. CASE n = m + 1
      <4>1. h[n] = After(step, f[m], q[m + 1]) /\ h[m] = f[m] /\ n - 1 = m /\ n # 0
        BY <3>3
      <4>2. QED
        BY <3>3, <4>1
    <3>4. QED
      BY <3>1, <3>2, <3>3
  <2>3. h = [n \in 0..m + 1 |-> h[n]]
    OBVIOUS
  <2> HIDE DEF h
  <2>4. Is(h, m + 1)
    BY <2>2, <2>3, SMTT(30)
  <2> HIDE DEF Is
  <2>5. \E g : Is(g, m + 1)
    BY <2>4
  <2>6. QED
    BY <2>5
<1> HIDE DEF S
<1>3. Len(q) \in Nat
  BY LenProperties
<1>4. Len(q) \in S
  BY <1>1, <1>2, <1>3, Induct
<1>5. PICK f : Is(f, Len(q))
  BY <1>4 DEF S
<1>6. Traces(step, p, q, f)
  <2>1. f[0] = p
    BY <1>3, <1>5
  <2>2. ASSUME NEW i \in 1..Len(q) PROVE f[i] = After(step, f[i - 1], q[i])
    BY <1>3, <1>5
  <2>3. QED
    BY <2>1, <2>2 DEF Traces
<1>7. QED
  BY <1>5, <1>6

\* What follows the steps of a fold ends where the fold does.
LEMMA FoldTraced ==
  ASSUME NEW P, NEW B, NEW step, StepOf(P, B, step), NEW p \in P, NEW q \in Seq(B), NEW g,
         g[0] = p, \A i \in 1..Len(q) : g[i - 1] \in P => g[i] = After(step, g[i - 1], q[i])
  PROVE  g[Len(q)] = Fold(step, p, q) /\ Fold(step, p, q) \in P
<1> DEFINE after[n \in 0..Len(q)] == IF n = 0 THEN p ELSE After(step, after[n - 1], q[n])
<1>1. Fold(step, p, q) = after[Len(q)]
  BY DEF Fold
<1>2. after = [n \in 0..Len(q) |-> IF n = 0 THEN p ELSE After(step, after[n - 1], q[n])]
  BY Traced
<1> HIDE DEF after
<1>3. Len(q) \in Nat /\ Len(q) <= Len(q)
  BY LenProperties
<1>4. after[0] = p
  BY <1>2, <1>3
<1>5. ASSUME NEW i \in 1..Len(q) PROVE after[i] = After(step, after[i - 1], q[i])
  BY <1>2, <1>3
<1> DEFINE m == Len(q)
<1>6. m \in Nat /\ m <= Len(q)
  BY <1>3
<1>7. /\ \A i \in 1..m : g[i - 1] \in P => g[i] = After(step, g[i - 1], q[i])
      /\ \A i \in 1..m : after[i - 1] \in P => after[i] = After(step, after[i - 1], q[i])
  BY <1>5
<1> HIDE DEF m
<1>8. g[m] = after[m] /\ g[m] \in P
  BY <1>4, <1>6, <1>7, TracesAgree
<1>9. QED
  BY <1>1, <1>8 DEF m

LEMMA FoldTrace ==
  ASSUME NEW P, NEW B, NEW step, StepOf(P, B, step), NEW p \in P, NEW q \in Seq(B)
  PROVE  /\ Fold(step, p, q) \in P
         /\ \E f : Traces(step, p, q, f) /\ f[Len(q)] = Fold(step, p, q)
<1>1. PICK f : Traces(step, p, q, f)
  BY Traced
<1>2. f[0] = p /\ \A i \in 1..Len(q) : f[i - 1] \in P => f[i] = After(step, f[i - 1], q[i])
  BY <1>1 DEF Traces
<1>3. f[Len(q)] = Fold(step, p, q) /\ Fold(step, p, q) \in P
  BY <1>2, FoldTraced
<1>4. QED
  BY <1>1, <1>3

LEMMA FoldEmpty ==
  ASSUME NEW P, NEW B, NEW step, StepOf(P, B, step), NEW p \in P
  PROVE  Fold(step, p, <<>>) = p
<1> DEFINE q == <<>>
<1>1. q \in Seq(B)
  BY EmptySeq
<1>2. Len(q) = 0
  BY EmptySeq
<1> HIDE DEF q
<1>3. \E f : Traces(step, p, q, f) /\ f[Len(q)] = Fold(step, p, q)
  BY <1>1, FoldTrace
<1>4. PICK f : Traces(step, p, q, f) /\ f[Len(q)] = Fold(step, p, q)
  BY <1>3
<1>5. f[0] = p
  BY <1>4 DEF Traces
<1>6. QED
  BY <1>2, <1>4, <1>5 DEF q

LEMMA FoldAppend ==
  ASSUME NEW P, NEW B, NEW step, StepOf(P, B, step), NEW p \in P, NEW q \in Seq(B), NEW b \in B
  PROVE  Fold(step, p, Append(q, b)) = After(step, Fold(step, p, q), b)
<1> DEFINE r == Append(q, b)
<1>1. /\ r \in Seq(B) /\ Len(r) = Len(q) + 1 /\ Len(q) \in Nat
      /\ \A i \in 1..Len(q) : r[i] = q[i]
      /\ r[Len(q) + 1] = b
  BY AppendProperties, LenProperties
<1> HIDE DEF r
<1>2. PICK f : Traces(step, p, r, f) /\ f[Len(r)] = Fold(step, p, r)
  BY <1>1, FoldTrace
<1>3. f[0] = p /\ \A i \in 1..Len(q) : f[i - 1] \in P => f[i] = After(step, f[i - 1], q[i])
  BY <1>1, <1>2 DEF Traces
<1>4. f[Len(q)] = Fold(step, p, q)
  BY <1>3, FoldTraced
<1>5. f[Len(q) + 1] = After(step, f[Len(q)], b)
  <2>1. Len(q) + 1 \in 1..Len(r) /\ (Len(q) + 1) - 1 = Len(q)
    BY <1>1
  <2>2. QED
    BY <1>1, <1>2, <2>1 DEF Traces
<1>6. QED
  BY <1>1, <1>2, <1>4, <1>5 DEF r

LEMMA FoldOne ==
  ASSUME NEW P, NEW B, NEW step, StepOf(P, B, step), NEW p \in P, NEW b \in B
  PROVE  Fold(step, p, <<b>>) = After(step, p, b)
<1> DEFINE none == <<>>
<1>1. none \in Seq(B) /\ Append(none, b) = <<b>> /\ Fold(step, p, none) = p
  <2>1. <<b>> \in Seq(B)
    OBVIOUS
  <2>2. <<>> \o <<b>> = <<b>>
    BY <2>1, ConcatEmptySeq
  <2>3. <<>> \in Seq(B)
    BY EmptySeq
  <2>4. Append(<<>>, b) = <<>> \o <<b>>
    BY <2>3, AppendIsConcat
  <2>5. QED
    BY <2>2, <2>3, <2>4, FoldEmpty
<1>2. none \in Seq(B)
  BY EmptySeq
<1> HIDE DEF none
<1>3. Fold(step, p, Append(none, b)) = After(step, Fold(step, p, none), b)
  BY <1>2, FoldAppend
<1>4. QED
  BY <1>1, <1>3

LEMMA FoldConcat ==
  ASSUME NEW P, NEW B, NEW step, StepOf(P, B, step), NEW p \in P, NEW q \in Seq(B), NEW r \in Seq(B)
  PROVE  Fold(step, p, q \o r) = Fold(step, Fold(step, p, q), r)
<1> DEFINE x == Fold(step, p, q)
           S == {s \in Seq(B) : Fold(step, p, q \o s) = Fold(step, x, s)}
<1>1. x \in P
  BY FoldTrace
<1> HIDE DEF x
<1>2. <<>> \in S
  <2>1. q \o <<>> = q
    BY ConcatEmptySeq
  <2>2. Fold(step, x, <<>>) = x
    BY <1>1, FoldEmpty
  <2>3. <<>> \in Seq(B)
    BY EmptySeq
  <2>4. QED
    BY <2>1, <2>2, <2>3 DEF x
<1>3. ASSUME NEW s \in Seq(B), NEW b \in B, s \in S PROVE Append(s, b) \in S
  <2> DEFINE qs == q \o s
  <2>1. qs \in Seq(B) /\ Append(s, b) \in Seq(B)
    BY ConcatProperties, AppendProperties
  <2>2. q \o Append(s, b) = Append(qs, b)
    BY AppendConcat
  <2>3. Fold(step, p, qs) = Fold(step, x, s)
    BY <1>3
  <2> HIDE DEF qs
  <2>4. Fold(step, p, Append(qs, b)) = After(step, Fold(step, p, qs), b)
    BY <2>1, FoldAppend
  <2>5. Fold(step, x, Append(s, b)) = After(step, Fold(step, x, s), b)
    BY <1>1, FoldAppend
  <2>6. QED
    BY <2>1, <2>2, <2>3, <2>4, <2>5
<1> HIDE DEF S
<1>4. Seq(B) \subseteq S
  BY <1>2, <1>3, SeqInduct
<1>5. r \in S
  BY <1>4
<1>6. QED
  BY <1>5 DEF S, x

\* What every step keeps, a fold keeps.
LEMMA FoldKeeps ==
  ASSUME NEW P, NEW B, NEW step, StepOf(P, B, step), NEW q \in Seq(B), NEW R \in SUBSET P, NEW p \in R,
         \A x \in R, b \in B : After(step, x, b) \in R
  PROVE  Fold(step, p, q) \in R
<1> DEFINE S == {s \in Seq(B) : Fold(step, p, s) \in R}
<1>1. <<>> \in S
  BY FoldEmpty, EmptySeq
<1>2. ASSUME NEW s \in Seq(B), NEW b \in B, s \in S PROVE Append(s, b) \in S
  <2>1. Fold(step, p, Append(s, b)) = After(step, Fold(step, p, s), b)
    BY FoldAppend
  <2>2. Append(s, b) \in Seq(B)
    BY AppendProperties
  <2>3. QED
    BY <1>2, <2>1, <2>2
<1> HIDE DEF S
<1>3. Seq(B) \subseteq S
  BY <1>1, <1>2, SeqInduct
<1>4. q \in S
  BY <1>3
<1>5. QED
  BY <1>4 DEF S

LEMMA FoldFirst ==
  ASSUME NEW P, NEW B, NEW step, StepOf(P, B, step), NEW p \in P, NEW q \in Seq(B), q # <<>>
  PROVE  Fold(step, p, q) = Fold(step, After(step, p, Head(q)), Tail(q))
<1> DEFINE b == Head(q)
           r == Tail(q)
           one == <<b>>
<1>1. b \in B /\ r \in Seq(B) /\ Len(r) = Len(q) - 1 /\ Len(q) \in Nat
      /\ \A i \in 1..Len(r) : r[i] = q[i + 1]
  BY HeadTailProperties, LenProperties
<1>2. one \in Seq(B) /\ Len(one) = 1 /\ one[1] = b /\ q[1] = b
  BY <1>1
<1> HIDE DEF one, r, b
<1>7. one \in Seq(B) /\ r \in Seq(B)
  BY <1>1, <1>2
<1>3. one \o r = q
  <2> DEFINE w == one \o r
  <2>0. /\ w \in Seq(B) /\ Len(w) = Len(one) + Len(r)
        /\ \A i \in 1..Len(one) + Len(r) : w[i] = IF i <= Len(one) THEN one[i] ELSE r[i - Len(one)]
    BY <1>7, ConcatProperties
  <2> HIDE DEF w
  <2>1. /\ w \in Seq(B) /\ Len(w) = 1 + Len(r)
        /\ \A i \in 1..1 + Len(r) : w[i] = IF i <= 1 THEN one[i] ELSE r[i - 1]
    BY <1>2, <2>0
  <2>2. \A i \in 1..Len(q) : w[i] = q[i]
    BY <1>1, <1>2, <2>1
  <2>3. w = q
    BY <1>1, <2>1, <2>2, SeqEqual
  <2>4. QED
    BY <2>3 DEF w
<1>4. Fold(step, p, one) = After(step, p, b)
  BY <1>1, FoldOne DEF one
<1>5. Fold(step, p, one \o r) = Fold(step, Fold(step, p, one), r)
  BY <1>1, <1>2, FoldConcat
<1>6. QED
  BY <1>3, <1>4, <1>5 DEF b, r

-----------------------------------------------------------------------------
(***************************************************************************)
(* The parser, byte by byte.                                               *)
(***************************************************************************)

Codes ==
  /\ IAC = 255 /\ DONT = 254 /\ DO = 253 /\ WONT = 252 /\ WILL = 251 /\ SB = 250 /\ SE = 240
  /\ ECHO = 1 /\ SGA = 3 /\ TTYPE = 24 /\ NAWS = 31 /\ IS = 0 /\ SEND = 1
LEMMA CodesAre == Codes
  BY DEF Codes, IAC, DONT, DO, WONT, WILL, SB, SE, ECHO, SGA, TTYPE, NAWS, IS, SEND

Parser(mode, cmd, buf, data, responses) ==
  [mode |-> mode, cmd |-> cmd, buf |-> buf, data |-> data, responses |-> responses]

LEMMA ParserFields ==
  ASSUME NEW m, NEW c, NEW u, NEW d, NEW r
  PROVE  LET p == Parser(m, c, u, d, r) IN
         p.mode = m /\ p.cmd = c /\ p.buf = u /\ p.data = d /\ p.responses = r
BY DEF Parser

WithMode(p, x)      == [p EXCEPT !.mode = x]
WithCmd(p, x)       == [p EXCEPT !.cmd = x]
WithBuf(p, x)       == [p EXCEPT !.buf = x]
WithData(p, x)      == [p EXCEPT !.data = x]
WithResponses(p, x) == [p EXCEPT !.responses = x]

LEMMA ParserExcept ==
  ASSUME NEW m, NEW c, NEW u, NEW d, NEW r, NEW x
  PROVE  /\ WithMode(Parser(m, c, u, d, r), x) = Parser(x, c, u, d, r)
         /\ WithCmd(Parser(m, c, u, d, r), x) = Parser(m, x, u, d, r)
         /\ WithBuf(Parser(m, c, u, d, r), x) = Parser(m, c, x, d, r)
         /\ WithData(Parser(m, c, u, d, r), x) = Parser(m, c, u, x, r)
         /\ WithResponses(Parser(m, c, u, d, r), x) = Parser(m, c, u, d, x)
BY DEF Parser, WithMode, WithCmd, WithBuf, WithData, WithResponses

\* What the parser does with a byte, field by field.
LEMMA ParsedIs ==
  ASSUME NEW m \in Modes, NEW c, NEW u, NEW d, NEW r, NEW b
  PROVE  Parsed(Parser(m, c, u, d, r), b) =
    CASE m = "data" /\ b # IAC -> Parser("data", c, u, Append(d, b), r)
      [] m = "data" /\ b = IAC -> Parser("iac", c, u, d, r)
      [] m = "iac" /\ b = IAC  -> Parser("data", c, u, Append(d, IAC), r)
      [] m = "iac" /\ b = SB   -> Parser("sub", c, <<>>, d, r)
      [] m = "iac" /\ b \in WILL..DONT -> Parser("negotiation", b, u, d, r)
      [] m = "negotiation" -> Parser("data", c, u, d, r \o RespondNegotiation(c, b))
      [] m = "sub" /\ b # IAC  -> Parser("sub", c, Append(u, b), d, r)
      [] m = "sub" /\ b = IAC  -> Parser("subiac", c, u, d, r)
      [] m = "subiac" /\ b = SE -> Parser("data", c, <<>>, d, r \o RespondSubnegotiation(u))
      [] m = "subiac" /\ b = IAC -> Parser("sub", c, Append(u, IAC), d, r)
      [] OTHER -> Parser("data", c, <<>>, d, r)
<1> DEFINE p == Parser(m, c, u, d, r)
           n == RespondNegotiation(c, b)
           s == RespondSubnegotiation(u)
<1>1. p.mode = m /\ p.cmd = c /\ p.buf = u /\ p.data = d /\ p.responses = r
  BY ParserFields
<1>2. IAC # SB /\ IAC \notin WILL..DONT /\ SB \notin WILL..DONT /\ IAC # SE
  BY CodesAre DEF Codes
<1>3. CASE m = "data" /\ b # IAC
  <2>1. Parsed(p, b) = WithData(p, Append(p.data, b))
    BY <1>1, <1>3 DEF Parsed, WithData, WithBuf
  <2>2. QED
    BY <1>1, <1>3, <2>1, ParserExcept
<1>4. CASE m = "data" /\ b = IAC
  <2>1. Parsed(p, b) = WithMode(p, "iac")
    BY <1>1, <1>4 DEF Parsed, In, WithMode, WithCmd, WithBuf, WithData, WithResponses
  <2>2. QED
    BY <1>1, <1>4, <2>1, ParserExcept
<1>5. CASE m = "iac" /\ b = IAC
  <2> DEFINE q == WithMode(p, "data")
  <2>1. Parsed(p, b) = WithData(q, Append(q.data, IAC))
    BY <1>1, <1>2, <1>5 DEF Parsed, In, WithMode, WithCmd, WithBuf, WithData, WithResponses
  <2>2. q = Parser("data", c, u, d, r)
    BY ParserExcept
  <2> HIDE DEF q
  <2>3. q.data = d
    BY <2>2, ParserFields
  <2>4. QED
    BY <1>2, <1>5, <2>1, <2>2, <2>3, ParserExcept
<1>6. CASE m = "iac" /\ b = SB
  <2> DEFINE q == WithMode(p, "sub")
  <2>1. Parsed(p, b) = WithBuf(q, <<>>)
    BY <1>1, <1>2, <1>6 DEF Parsed, In, WithMode, WithCmd, WithBuf, WithData, WithResponses
  <2>2. q = Parser("sub", c, u, d, r)
    BY ParserExcept
  <2> HIDE DEF q
  <2>3. QED
    BY <1>2, <1>6, <2>1, <2>2, ParserExcept
<1>7. CASE m = "iac" /\ b \in WILL..DONT
  <2> DEFINE q == WithMode(p, "negotiation")
  <2>1. Parsed(p, b) = WithCmd(q, b)
    BY <1>1, <1>2, <1>7 DEF Parsed, In, WithMode, WithCmd, WithBuf, WithData, WithResponses
  <2>2. q = Parser("negotiation", c, u, d, r)
    BY ParserExcept
  <2> HIDE DEF q
  <2>3. QED
    BY <1>2, <1>7, <2>1, <2>2, ParserExcept
<1>8. CASE m = "negotiation"
  <2> DEFINE q == WithMode(p, "data")
  <2>1. Parsed(p, b) = WithResponses(q, q.responses \o RespondNegotiation(p.cmd, b))
    BY <1>1, <1>8 DEF Parsed, In, WithMode, WithCmd, WithBuf, WithData, WithResponses
  <2>2. q = Parser("data", c, u, d, r)
    BY ParserExcept
  <2> HIDE DEF q
  <2>3. q.responses = r
    BY <2>2, ParserFields
  <2>4. QED
    BY <1>1, <1>8, <2>1, <2>2, <2>3, ParserExcept
<1>9. CASE m = "sub" /\ b # IAC
  <2>1. Parsed(p, b) = WithBuf(p, Append(p.buf, b))
    BY <1>1, <1>9 DEF Parsed, WithData, WithBuf
  <2>2. QED
    BY <1>1, <1>9, <2>1, ParserExcept
<1>10. CASE m = "sub" /\ b = IAC
  <2>1. Parsed(p, b) = WithMode(p, "subiac")
    BY <1>1, <1>10 DEF Parsed, In, WithMode, WithCmd, WithBuf, WithData, WithResponses
  <2>2. QED
    BY <1>1, <1>10, <2>1, ParserExcept
<1>11. CASE m = "subiac" /\ b = SE
  <2> DEFINE q  == WithMode(p, "data")
             q2 == WithResponses(q, q.responses \o RespondSubnegotiation(p.buf))
  <2>1. Parsed(p, b) = WithBuf(q2, <<>>)
    BY <1>1, <1>2, <1>11 DEF Parsed, In, WithMode, WithCmd, WithBuf, WithData, WithResponses
  <2>2. q = Parser("data", c, u, d, r)
    BY ParserExcept
  <2>3. q2 = Parser("data", c, u, d, r \o s)
    <3> HIDE DEF q
    <3>1. q.responses = r
      BY <2>2, ParserFields
    <3>2. QED
      BY <1>1, <2>2, <3>1, ParserExcept
  <2> HIDE DEF q2
  <2>4. QED
    BY <1>2, <1>11, <2>1, <2>3, ParserExcept
<1>12. CASE m = "subiac" /\ b = IAC
  <2> DEFINE q == WithMode(p, "sub")
  <2>1. Parsed(p, b) = WithBuf(q, Append(q.buf, IAC))
    BY <1>1, <1>2, <1>12 DEF Parsed, In, WithMode, WithCmd, WithBuf, WithData, WithResponses
  <2>2. q = Parser("sub", c, u, d, r)
    BY ParserExcept
  <2> HIDE DEF q
  <2>3. q.buf = u
    BY <2>2, ParserFields
  <2>4. QED
    BY <1>2, <1>12, <2>1, <2>2, <2>3, ParserExcept
<1>13. CASE \/ m = "iac" /\ b # IAC /\ b # SB /\ b \notin WILL..DONT
            \/ m = "subiac" /\ b # SE /\ b # IAC
  <2> DEFINE q == WithMode(p, "data")
  <2>1. Parsed(p, b) = WithBuf(q, <<>>)
    BY <1>1, <1>13 DEF Parsed, In, WithMode, WithCmd, WithBuf, WithData, WithResponses
  <2>2. q = Parser("data", c, u, d, r)
    BY ParserExcept
  <2> HIDE DEF q
  <2>3. QED
    BY <1>13, <2>1, <2>2, ParserExcept
<1>14. QED
  BY <1>3, <1>4, <1>5, <1>6, <1>7, <1>8, <1>9, <1>10, <1>11, <1>12, <1>13 DEF Modes

LEMMA ParserIn ==
  ASSUME NEW m \in Modes, NEW c \in Byte, NEW u \in Bytes, NEW d \in Bytes, NEW r \in Seq(Bytes)
  PROVE  Parser(m, c, u, d, r) \in ParserState
BY DEF Parser, ParserState

LEMMA ParserOf ==
  ASSUME NEW p \in ParserState
  PROVE  /\ p = Parser(p.mode, p.cmd, p.buf, p.data, p.responses)
         /\ p.mode \in Modes /\ p.cmd \in Byte /\ p.buf \in Bytes /\ p.data \in Bytes
         /\ p.responses \in Seq(Bytes)
BY DEF Parser, ParserState

LEMMA SizeBytes ==
  ASSUME NEW w, SizeOK(w)
  PROVE  /\ w \div 256 \in Byte /\ w \div 256 # IAC
         /\ w % 256 \in Byte /\ w % 256 # IAC
         /\ (w \div 256) * 256 + (w % 256) = w
<1>1. w \in Nat /\ w < 65280 /\ w % 256 # 255
  BY DEF SizeOK
<1>2. w \div 256 \in Int /\ w % 256 \in 0..255 /\ w = (w \div 256) * 256 + (w % 256)
  BY <1>1
<1> DEFINE hi == w \div 256
           lo == w % 256
<1>3. hi \in Int /\ lo \in 0..255 /\ lo # 255 /\ w = hi * 256 + lo
  BY <1>1, <1>2
<1> HIDE DEF hi, lo
<1>4. hi \in 0..254 /\ hi * 256 + lo = w
  BY <1>1, <1>3
<1>5. QED
  BY <1>3, <1>4, CodesAre DEF Codes, Byte, hi, lo

LEMMA Replies ==
  ASSUME SizeOK(cols), NEW c \in Byte, NEW b \in Byte, NEW u \in Bytes
  PROVE  /\ RespondNegotiation(c, b) \in Seq(Bytes)
         /\ RespondSubnegotiation(u) \in Seq(Bytes)
<1>1. NawsMsg \in Bytes /\ TerminalType \in Bytes
  BY SizeBytes, CodesAre DEF Codes, NawsMsg, TerminalType, Bytes, Byte
<1>2. RespondSubnegotiation(u) \in Seq(Bytes)
  <2>1. <<>> \in Seq(Bytes) /\ <<TerminalType>> \in Seq(Bytes)
    BY <1>1
  <2>2. QED
    BY <2>1 DEF RespondSubnegotiation
<1>3. RespondNegotiation(c, b) \in Seq(Bytes)
  <2>1. ASSUME NEW x \in {WILL, WONT, DO, DONT} PROVE <<IAC, x, b>> \in Bytes
    BY CodesAre DEF Codes, Bytes, Byte
  <2>2. ASSUME NEW x \in Bytes PROVE <<x>> \in Seq(Bytes)
    OBVIOUS
  <2>3. <<<<IAC, WILL, b>>, NawsMsg>> \in Seq(Bytes)
    BY <1>1, <2>1
  <2>4. <<>> \in Seq(Bytes)
    OBVIOUS
  <2> HIDE DEF Bytes
  <2>5. RespondNegotiation(c, b) \in {<<>>, <<<<IAC, WILL, b>>, NawsMsg>>, <<<<IAC, WILL, b>>>>,
                                       <<<<IAC, WONT, b>>>>, <<<<IAC, DO, b>>>>, <<<<IAC, DONT, b>>>>}
    BY DEF RespondNegotiation
  <2>6. QED
    BY <2>1, <2>2, <2>3, <2>4, <2>5
<1>4. QED
  BY <1>2, <1>3

LEMMA ParseSteps ==
  ASSUME SizeOK(cols)
  PROVE  StepOf(ParserState, Byte, parseStep)
<1>1. ASSUME NEW p \in ParserState, NEW b \in Byte PROVE Parsed(p, b) \in ParserState
  <2> DEFINE m == p.mode
             c == p.cmd
             u == p.buf
             d == p.data
             r == p.responses
             n == r \o RespondNegotiation(c, b)
             s == r \o RespondSubnegotiation(u)
  <2>1. /\ p = Parser(m, c, u, d, r) /\ m \in Modes /\ c \in Byte /\ u \in Bytes /\ d \in Bytes
        /\ r \in Seq(Bytes)
    BY ParserOf
  <2>2. IAC \in Byte /\ <<>> \in Bytes
    BY CodesAre DEF Codes, Byte, Bytes
  <2>3. n \in Seq(Bytes) /\ s \in Seq(Bytes)
    BY <2>1, Replies, ConcatProperties
  <2>4. /\ Append(d, b) \in Bytes /\ Append(d, IAC) \in Bytes
        /\ Append(u, b) \in Bytes /\ Append(u, IAC) \in Bytes
    BY <2>1, <2>2, AppendProperties DEF Bytes
  <2>5. {"data", "iac", "negotiation", "sub", "subiac"} \subseteq Modes
    BY DEF Modes
  <2> HIDE DEF m, c, u, d, r
  <2> DEFINE q  == Parsed(Parser(m, c, u, d, r), b)
             db == Append(d, b)
             di == Append(d, IAC)
             ub == Append(u, b)
             ui == Append(u, IAC)
             no == <<>>
  <2>8. \/ q = Parser("data", c, u, db, r) \/ q = Parser("iac", c, u, d, r)
        \/ q = Parser("data", c, u, di, r) \/ q = Parser("sub", c, no, d, r)
        \/ q = Parser("negotiation", b, u, d, r) \/ q = Parser("data", c, u, d, n)
        \/ q = Parser("sub", c, ub, d, r) \/ q = Parser("subiac", c, u, d, r)
        \/ q = Parser("data", c, no, d, s) \/ q = Parser("sub", c, ui, d, r)
        \/ q = Parser("data", c, no, d, r)
    BY <2>1, ParsedIs
  <2>9. db \in Bytes /\ di \in Bytes /\ ub \in Bytes /\ ui \in Bytes /\ no \in Bytes
    BY <2>2, <2>4
  <2> HIDE DEF q, n, s, db, di, ub, ui, no
  <2>6. q \in ParserState
    BY <2>1, <2>3, <2>5, <2>8, <2>9, ParserIn
  <2>7. QED
    BY <2>1, <2>6 DEF q
<1>2. QED
  BY <1>1 DEF StepOf, parseStep

-----------------------------------------------------------------------------
(***************************************************************************)
(* The remote, byte by byte.                                               *)
(***************************************************************************)

Heard(mode, buf, data, answers, size) ==
  [mode |-> mode, buf |-> buf, data |-> data, answers |-> answers, size |-> size]

LEMMA HeardFields ==
  ASSUME NEW m, NEW u, NEW d, NEW a, NEW s
  PROVE  LET h == Heard(m, u, d, a, s) IN
         h.mode = m /\ h.buf = u /\ h.data = d /\ h.answers = a /\ h.size = s
BY DEF Heard

WithAnswers(h, x) == [h EXCEPT !.answers = x]
WithSize(h, x)    == [h EXCEPT !.size = x]

LEMMA HeardExcept ==
  ASSUME NEW m, NEW u, NEW d, NEW a, NEW s, NEW x
  PROVE  /\ WithMode(Heard(m, u, d, a, s), x) = Heard(x, u, d, a, s)
         /\ WithBuf(Heard(m, u, d, a, s), x) = Heard(m, x, d, a, s)
         /\ WithData(Heard(m, u, d, a, s), x) = Heard(m, u, x, a, s)
         /\ WithAnswers(Heard(m, u, d, a, s), x) = Heard(m, u, d, x, s)
         /\ WithSize(Heard(m, u, d, a, s), x) = Heard(m, u, d, a, x)
BY DEF Heard, WithMode, WithBuf, WithData, WithAnswers, WithSize

\* What the remote does with a byte, field by field.
LEMMA HeardDataByte ==
  ASSUME NEW u, NEW d, NEW a, NEW s, NEW b
  PROVE  HeardByte(Heard("data", u, d, a, s), b) =
           IF b = IAC THEN Heard("command", u, d, a, s) ELSE Heard("data", u, Append(d, b), a, s)
<1> DEFINE h == Heard("data", u, d, a, s)
<1>1. h.mode = "data" /\ h.data = d
  BY HeardFields
<1>2. CASE b = IAC
  <2>1. HeardByte(h, b) = WithMode(h, "command")
    BY <1>1, <1>2 DEF HeardByte, In, WithMode
  <2>2. QED
    BY <1>2, <2>1, HeardExcept
<1>3. CASE b # IAC
  <2>1. HeardByte(h, b) = WithData(h, Append(d, b))
    BY <1>1, <1>3 DEF HeardByte, WithData
  <2>2. QED
    BY <1>3, <2>1, HeardExcept
<1>4. QED
  BY <1>2, <1>3

LEMMA HeardEscapedByte ==
  ASSUME NEW u, NEW d, NEW a, NEW s
  PROVE  HeardByte(Heard("command", u, d, a, s), IAC) = Heard("data", u, Append(d, IAC), a, s)
<1> DEFINE h  == Heard("command", u, d, a, s)
           h1 == WithMode(h, "data")
<1>1. h.mode = "command" /\ h1 = Heard("data", u, d, a, s) /\ h1.data = d
  BY HeardExcept, HeardFields
<1> HIDE DEF h
<1>5. h.mode = "command" /\ SB # IAC
  BY <1>1, CodesAre DEF Codes
<1>2. HeardByte(h, IAC) = WithData(h1, Append(h1.data, IAC))
  BY <1>5 DEF HeardByte, In, WithMode, WithData
<1> HIDE DEF h1
<1>3. HeardByte(h, IAC) = Heard("data", u, Append(d, IAC), a, s)
  BY <1>1, <1>2, HeardExcept
<1>4. QED
  BY <1>3 DEF h

LEMMA HeardBeginByte ==
  ASSUME NEW u, NEW d, NEW a, NEW s
  PROVE  HeardByte(Heard("command", u, d, a, s), SB) = Heard("sub", <<>>, d, a, s)
<1> DEFINE h  == Heard("command", u, d, a, s)
           h1 == WithMode(h, "sub")
<1>1. h.mode = "command" /\ h1 = Heard("sub", u, d, a, s) /\ SB # IAC
  BY HeardExcept, HeardFields, CodesAre DEF Codes
<1>2. HeardByte(h, SB) = WithBuf(h1, <<>>)
  BY <1>1 DEF HeardByte, In, WithMode, WithBuf
<1> HIDE DEF h1, h
<1>3. HeardByte(h, SB) = Heard("sub", <<>>, d, a, s)
  BY <1>1, <1>2, HeardExcept
<1>4. QED
  BY <1>3 DEF h

LEMMA HeardCommandByte ==
  ASSUME NEW u, NEW d, NEW a, NEW s, NEW b, b # IAC, b # SB
  PROVE  HeardByte(Heard("command", u, d, a, s), b) = Heard("option", <<b>>, d, a, s)
<1> DEFINE h  == Heard("command", u, d, a, s)
           h1 == WithMode(h, "option")
<1>1. h.mode = "command" /\ h1 = Heard("option", u, d, a, s)
  BY HeardExcept, HeardFields
<1>2. HeardByte(h, b) = WithBuf(h1, <<b>>)
  BY <1>1 DEF HeardByte, In, WithMode, WithBuf
<1> HIDE DEF h1, h
<1>3. HeardByte(h, b) = Heard("option", <<b>>, d, a, s)
  BY <1>1, <1>2, HeardExcept
<1>4. QED
  BY <1>3 DEF h

LEMMA HeardOptionByte ==
  ASSUME NEW u, NEW d, NEW a, NEW s, NEW b
  PROVE  HeardByte(Heard("option", u, d, a, s), b) = Heard("data", u, d, Append(a, <<u[1], b>>), s)
<1> DEFINE h  == Heard("option", u, d, a, s)
           h1 == WithMode(h, "data")
<1>1. h.mode = "option" /\ h.buf = u
  BY HeardFields
<1>2. h1 = Heard("data", u, d, a, s) /\ h1.answers = a
  BY HeardExcept, HeardFields
<1>3. HeardByte(h, b) = WithAnswers(h1, Append(h1.answers, <<h.buf[1], b>>))
  BY <1>1 DEF HeardByte, In, WithMode, WithAnswers
<1> HIDE DEF h1, h
<1>4. QED
  BY <1>1, <1>2, <1>3, HeardExcept DEF h

LEMMA HeardSubByte ==
  ASSUME NEW u, NEW d, NEW a, NEW s, NEW b
  PROVE  HeardByte(Heard("sub", u, d, a, s), b) =
           IF b = IAC THEN Heard("subcommand", u, d, a, s) ELSE Heard("sub", Append(u, b), d, a, s)
<1> DEFINE h == Heard("sub", u, d, a, s)
<1>1. h.mode = "sub" /\ h.buf = u
  BY HeardFields
<1>2. CASE b = IAC
  <2>1. HeardByte(h, b) = WithMode(h, "subcommand")
    BY <1>1, <1>2 DEF HeardByte, In, WithMode
  <2>2. QED
    BY <1>2, <2>1, HeardExcept
<1>3. CASE b # IAC
  <2>1. HeardByte(h, b) = WithBuf(h, Append(u, b))
    BY <1>1, <1>3 DEF HeardByte, WithBuf
  <2>2. QED
    BY <1>3, <2>1, HeardExcept
<1>4. QED
  BY <1>2, <1>3

LEMMA HeardSubcommandByte ==
  ASSUME NEW u, NEW d, NEW a, NEW s, NEW b
  PROVE  HeardByte(Heard("subcommand", u, d, a, s), b) =
           IF b = IAC THEN Heard("sub", Append(u, b), d, a, s)
           ELSE IF b = SE /\ Len(u) = 5 /\ u[1] = NAWS THEN Heard("data", u, d, a, u[2] * 256 + u[3])
           ELSE Heard("data", u, d, Append(a, <<SB>> \o u), s)
<1> DEFINE h  == Heard("subcommand", u, d, a, s)
           h1 == WithMode(h, "sub")
           h2 == WithMode(h, "data")
<1>1. h.mode = "subcommand" /\ h.buf = u
  BY HeardFields
<1>2. /\ h1 = Heard("sub", u, d, a, s) /\ h1.buf = u
      /\ h2 = Heard("data", u, d, a, s) /\ h2.answers = a
  BY HeardExcept, HeardFields
<1>3. SE # IAC
  BY CodesAre DEF Codes
<1>4. CASE b = IAC
  <2>1. HeardByte(h, b) = WithBuf(h1, Append(h1.buf, b))
    BY <1>1, <1>3, <1>4 DEF HeardByte, In, WithMode, WithBuf
  <2> HIDE DEF h1
  <2>2. QED
    BY <1>2, <1>4, <2>1, HeardExcept
<1>5. CASE b # IAC /\ b = SE /\ Len(u) = 5 /\ u[1] = NAWS
  <2>1. HeardByte(h, b) = WithSize(h2, u[2] * 256 + u[3])
    BY <1>1, <1>3, <1>5 DEF HeardByte, In, WithMode, WithSize
  <2> HIDE DEF h2
  <2>2. QED
    BY <1>2, <1>3, <1>5, <2>1, HeardExcept
<1>6. CASE b # IAC /\ ~(b = SE /\ Len(u) = 5 /\ u[1] = NAWS)
  <2>1. HeardByte(h, b) = WithAnswers(h2, Append(h2.answers, <<SB>> \o h.buf))
    BY <1>1, <1>6 DEF HeardByte, In, WithMode, WithAnswers
  <2> HIDE DEF h2, h
  <2>2. HeardByte(h, b) = Heard("data", u, d, Append(a, <<SB>> \o u), s)
    BY <1>1, <1>2, <2>1, HeardExcept
  <2>3. QED
    BY <1>6, <2>2 DEF h
<1>7. QED
  BY <1>4, <1>5, <1>6

HeardModes == {"data", "command", "option", "sub", "subcommand"}

LEMMA HeardIn ==
  ASSUME NEW m \in HeardModes, NEW u \in Bytes, NEW d \in Bytes, NEW a \in Seq(Bytes), NEW s \in Nat,
         m = "option" => u # <<>>
  PROVE  Heard(m, u, d, a, s) \in HeardState
BY DEF Heard, HeardState, HeardModes

LEMMA HeardOf ==
  ASSUME NEW h \in HeardState
  PROVE  /\ h = Heard(h.mode, h.buf, h.data, h.answers, h.size)
         /\ h.mode \in HeardModes /\ h.buf \in Bytes /\ h.data \in Bytes
         /\ h.answers \in Seq(Bytes) /\ h.size \in Nat
         /\ h.mode = "option" => h.buf # <<>>
BY DEF Heard, HeardState, HeardModes

LEMMA TwoBytes ==
  ASSUME NEW x \in Byte, NEW y \in Byte
  PROVE  x * 256 + y \in Nat
BY DEF Byte

LEMMA HeardByteIn ==
  ASSUME NEW h \in HeardState, NEW b \in Byte
  PROVE  HeardByte(h, b) \in HeardState
<1> DEFINE m == h.mode
           u == h.buf
           d == h.data
           a == h.answers
           s == h.size
           q == HeardByte(Heard(m, u, d, a, s), b)
<1>1. /\ h = Heard(m, u, d, a, s) /\ m \in HeardModes /\ u \in Bytes /\ d \in Bytes
      /\ a \in Seq(Bytes) /\ s \in Nat /\ (m = "option" => u # <<>>)
  BY HeardOf
<1> DEFINE db == Append(d, b)
           ub == Append(u, b)
           one == <<b>>
           none == <<>>
<1>2. /\ db \in Bytes /\ ub \in Bytes /\ one \in Bytes /\ none \in Bytes /\ one # <<>>
  BY <1>1, AppendProperties DEF Bytes
<1>3. HeardModes = {"data", "command", "option", "sub", "subcommand"}
  BY DEF HeardModes
<1> HIDE DEF m, u, d, a, s
<1>4. CASE m = "data"
  <2>1. q = Heard("command", u, d, a, s) \/ q = Heard("data", u, db, a, s)
    BY <1>4, HeardDataByte
  <2> HIDE DEF q, db
  <2>2. q \in HeardState
    BY <1>1, <1>2, <1>3, <2>1, HeardIn
  <2>3. QED
    BY <1>1, <2>2 DEF q
<1>5. CASE m = "command"
  <2>1. q = Heard("data", u, db, a, s) \/ q = Heard("sub", none, d, a, s) \/ q = Heard("option", one, d, a, s)
    <3>1. CASE b = IAC
      BY <1>5, <3>1, HeardEscapedByte
    <3>2. CASE b = SB
      BY <1>5, <3>2, HeardBeginByte
    <3>3. CASE b # IAC /\ b # SB
      BY <1>5, <3>3, HeardCommandByte
    <3>4. QED
      BY <3>1, <3>2, <3>3
  <2> HIDE DEF q, db, one, none
  <2>2. q \in HeardState
    BY <1>1, <1>2, <1>3, <2>1, HeardIn
  <2>3. QED
    BY <1>1, <2>2 DEF q
<1>6. CASE m = "option"
  <2> DEFINE x  == <<u[1], b>>
             ax == Append(a, x)
  <2>1. q = Heard("data", u, d, ax, s)
    BY <1>6, HeardOptionByte
  <2>2. u[1] \in Byte
    <3>1. u \in Seq(Byte) /\ u # <<>>
      BY <1>1, <1>6 DEF Bytes
    <3>2. 1 \in 1..Len(u)
      BY <3>1, EmptySeq
    <3>3. QED
      BY <3>1, <3>2, ElementOfSeq
  <2>3. x \in Bytes
    BY <2>2 DEF Bytes
  <2> HIDE DEF x
  <2>4. ax \in Seq(Bytes)
    BY <1>1, <2>3, AppendProperties
  <2> HIDE DEF q, ax
  <2>5. q \in HeardState
    BY <1>1, <1>2, <1>3, <2>1, <2>4, HeardIn
  <2>6. QED
    BY <1>1, <2>5 DEF q
<1>7. CASE m = "sub"
  <2>1. q = Heard("subcommand", u, d, a, s) \/ q = Heard("sub", ub, d, a, s)
    BY <1>7, HeardSubByte
  <2> HIDE DEF q, ub
  <2>2. q \in HeardState
    BY <1>1, <1>2, <1>3, <2>1, HeardIn
  <2>3. QED
    BY <1>1, <2>2 DEF q
<1>8. CASE m = "subcommand"
  <2> DEFINE x  == <<SB>> \o u
             ax == Append(a, x)
             w  == u[2] * 256 + u[3]
  <2>1. \/ q = Heard("sub", ub, d, a, s) \/ q = Heard("data", u, d, ax, s)
        \/ Len(u) = 5 /\ q = Heard("data", u, d, a, w)
    BY <1>8, HeardSubcommandByte
  <2>2. x \in Bytes
    <3>1. <<SB>> \in Seq(Byte) /\ u \in Seq(Byte)
      BY <1>1, CodesAre DEF Codes, Bytes, Byte
    <3>2. QED
      BY <3>1, ConcatProperties DEF Bytes
  <2>3. Len(u) = 5 => w \in Nat
    <3>1. SUFFICES ASSUME Len(u) = 5 PROVE w \in Nat
      OBVIOUS
    <3>2. 2 \in 1..Len(u) /\ 3 \in 1..Len(u) /\ u \in Seq(Byte)
      BY <1>1, <3>1 DEF Bytes
    <3>3. u[2] \in Byte /\ u[3] \in Byte
      BY <3>2, ElementOfSeq
    <3>4. QED
      BY <3>3, TwoBytes
  <2> HIDE DEF x, w
  <2>4. ax \in Seq(Bytes)
    BY <1>1, <2>2, AppendProperties
  <2> HIDE DEF q, ax, ub
  <2>5. q \in HeardState
    BY <1>1, <1>2, <1>3, <2>1, <2>3, <2>4, HeardIn
  <2>6. QED
    BY <1>1, <2>5 DEF q
<1>9. QED
  BY <1>1, <1>3, <1>4, <1>5, <1>6, <1>7, <1>8

LEMMA HearSteps == StepOf(HeardState, Byte, hearStep)
BY HeardByteIn DEF StepOf, hearStep

LEMMA HearIs ==
  ASSUME NEW h \in HeardState, NEW q \in Bytes
  PROVE  Hear(h, q) = Fold(hearStep, h, q) /\ Hear(h, q) \in HeardState
<1> DEFINE after[n \in 0..Len(q)] == IF n = 0 THEN h ELSE HeardByte(after[n - 1], q[n])
<1>1. Hear(h, q) = after[Len(q)]
  BY DEF Hear
<1>2. q \in Seq(Byte) /\ Len(q) \in Nat
  BY LenProperties DEF Bytes
<1>3. ASSUME NEW x \in HeardState, NEW b \in Byte PROVE After(hearStep, x, b) = HeardByte(x, b)
  BY DEF After, hearStep
<1>4. PICK f : /\ Traces(hearStep, h, q, f)
               /\ f = [n \in 0..Len(q) |-> IF n = 0 THEN h ELSE After(hearStep, f[n - 1], q[n])]
  BY <1>2, HearSteps, Traced
<1>5. ASSUME NEW i \in Nat, i <= Len(q) PROVE f[i] \in HeardState
  <2>1. f[0] = h /\ \A j \in 1..i : f[j] = After(hearStep, f[j - 1], q[j])
    BY <1>2, <1>4, <1>5 DEF Traces
  <2>2. QED
    BY <1>2, <1>5, <2>1, HearSteps, TracesAgree
<1>6. ASSUME NEW n \in 0..Len(q), n # 0
      PROVE  After(hearStep, f[n - 1], q[n]) = HeardByte(f[n - 1], q[n])
  <2>1. n - 1 \in Nat /\ n - 1 <= Len(q) /\ n \in 1..Len(q)
    BY <1>2, <1>6
  <2>2. f[n - 1] \in HeardState
    BY <1>5, <2>1
  <2>3. q[n] \in Byte
    BY <1>2, <2>1, ElementOfSeq
  <2>4. QED
    BY <1>3, <2>2, <2>3
<1>7. f = [n \in 0..Len(q) |-> IF n = 0 THEN h ELSE HeardByte(f[n - 1], q[n])]
  BY <1>4, <1>6
<1>8. after = [n \in 0..Len(q) |-> IF n = 0 THEN h ELSE HeardByte(after[n - 1], q[n])]
  BY <1>7
<1> HIDE DEF after
<1>9. after[0] = h
  BY <1>2, <1>8
<1>10. ASSUME NEW i \in 1..Len(q), after[i - 1] \in HeardState
       PROVE  after[i] = After(hearStep, after[i - 1], q[i])
  <2>1. after[i] = HeardByte(after[i - 1], q[i])
    BY <1>2, <1>8, <1>10
  <2>2. q[i] \in Byte
    BY <1>2, <1>10, ElementOfSeq
  <2>3. QED
    BY <1>3, <1>10, <2>1, <2>2
<1>11. after[Len(q)] = Fold(hearStep, h, q) /\ Fold(hearStep, h, q) \in HeardState
  BY <1>2, <1>9, <1>10, HearSteps, FoldTraced
<1>12. QED
  BY <1>1, <1>11

LEMMA RunIs ==
  ASSUME SizeOK(cols), NEW p \in ParserState, NEW q \in Bytes
  PROVE  Run(p, q) = Fold(parseStep, p, q)
<1> DEFINE after[n \in 0..Len(q)] == IF n = 0 THEN p ELSE Parsed(after[n - 1], q[n])
<1>1. Run(p, q) = after[Len(q)]
  BY DEF Run
<1>2. q \in Seq(Byte) /\ Len(q) \in Nat
  BY LenProperties DEF Bytes
<1>3. ASSUME NEW x \in ParserState, NEW b \in Byte PROVE After(parseStep, x, b) = Parsed(x, b)
  BY DEF After, parseStep
<1>4. PICK f : /\ Traces(parseStep, p, q, f)
               /\ f = [n \in 0..Len(q) |-> IF n = 0 THEN p ELSE After(parseStep, f[n - 1], q[n])]
  BY <1>2, ParseSteps, Traced
<1>5. ASSUME NEW i \in Nat, i <= Len(q) PROVE f[i] \in ParserState
  <2>1. f[0] = p /\ \A j \in 1..i : f[j] = After(parseStep, f[j - 1], q[j])
    BY <1>2, <1>4, <1>5 DEF Traces
  <2>2. QED
    BY <1>2, <1>5, <2>1, ParseSteps, TracesAgree
<1>6. ASSUME NEW n \in 0..Len(q), n # 0
      PROVE  After(parseStep, f[n - 1], q[n]) = Parsed(f[n - 1], q[n])
  <2>1. n - 1 \in Nat /\ n - 1 <= Len(q) /\ n \in 1..Len(q)
    BY <1>2, <1>6
  <2>2. f[n - 1] \in ParserState
    BY <1>5, <2>1
  <2>3. q[n] \in Byte
    BY <1>2, <2>1, ElementOfSeq
  <2>4. QED
    BY <1>3, <2>2, <2>3
<1>7. f = [n \in 0..Len(q) |-> IF n = 0 THEN p ELSE Parsed(f[n - 1], q[n])]
  BY <1>4, <1>6
<1>8. after = [n \in 0..Len(q) |-> IF n = 0 THEN p ELSE Parsed(after[n - 1], q[n])]
  BY <1>7
<1> HIDE DEF after
<1>9. after[0] = p
  BY <1>2, <1>8
<1>10. ASSUME NEW i \in 1..Len(q), after[i - 1] \in ParserState
       PROVE  after[i] = After(parseStep, after[i - 1], q[i])
  <2>1. after[i] = Parsed(after[i - 1], q[i])
    BY <1>2, <1>8, <1>10
  <2>2. q[i] \in Byte
    BY <1>2, <1>10, ElementOfSeq
  <2>3. QED
    BY <1>3, <1>10, <2>1, <2>2
<1>11. after[Len(q)] = Fold(parseStep, p, q)
  BY <1>2, <1>9, <1>10, ParseSteps, FoldTraced
<1>12. QED
  BY <1>1, <1>11

-----------------------------------------------------------------------------
(***************************************************************************)
(* What the remote makes of the client's messages.                         *)
(***************************************************************************)

LEMMA HearNext ==
  ASSUME NEW h \in HeardState, NEW q \in Bytes, q # <<>>
  PROVE  Hear(h, q) = Hear(HeardByte(h, Head(q)), Tail(q))
<1> DEFINE b == Head(q)
           r == Tail(q)
           g == HeardByte(h, b)
<1>1. q \in Seq(Byte) /\ b \in Byte /\ r \in Bytes /\ r \in Seq(Byte)
  BY HeadTailProperties DEF Bytes
<1>2. g \in HeardState /\ After(hearStep, h, b) = g
  BY <1>1, HeardByteIn DEF After, hearStep
<1>3. Hear(h, q) = Fold(hearStep, h, q) /\ Hear(g, r) = Fold(hearStep, g, r)
  BY <1>1, <1>2, HearIs
<1>4. Fold(hearStep, h, q) = Fold(hearStep, After(hearStep, h, Head(q)), Tail(q))
  BY <1>1, HearSteps, FoldFirst
<1>5. QED
  BY <1>2, <1>3, <1>4

LEMMA HearNone ==
  ASSUME NEW h \in HeardState
  PROVE  Hear(h, <<>>) = h
<1>1. <<>> \in Bytes /\ <<>> \in Seq(Byte)
  BY EmptySeq DEF Bytes
<1>2. Fold(hearStep, h, <<>>) = h
  BY HearSteps, FoldEmpty
<1>3. QED
  BY <1>1, <1>2, HearIs

LEMMA HearConcat ==
  ASSUME NEW h \in HeardState, NEW q \in Bytes, NEW r \in Bytes
  PROVE  Hear(h, q \o r) = Hear(Hear(h, q), r)
<1> DEFINE qr == q \o r
           g  == Hear(h, q)
<1>1. q \in Seq(Byte) /\ r \in Seq(Byte) /\ qr \in Bytes
  BY ConcatProperties DEF Bytes
<1>2. g \in HeardState /\ g = Fold(hearStep, h, q) /\ Hear(h, qr) = Fold(hearStep, h, qr)
  BY <1>1, HearIs
<1> HIDE DEF g
<1>3. Hear(g, r) = Fold(hearStep, g, r)
  BY <1>2, HearIs
<1>4. Fold(hearStep, h, q \o r) = Fold(hearStep, Fold(hearStep, h, q), r)
  BY <1>1, HearSteps, FoldConcat
<1>5. QED
  BY <1>2, <1>3, <1>4 DEF g

LEMMA HearOne ==
  ASSUME NEW h \in HeardState, NEW b \in Byte
  PROVE  Hear(h, <<b>>) = HeardByte(h, b)
<1> DEFINE q == <<b>>
           g == HeardByte(h, b)
<1>1. q \in Bytes /\ q # <<>> /\ Head(q) = b /\ Tail(q) = <<>>
  BY DEF Bytes
<1>2. g \in HeardState
  BY HeardByteIn
<1> HIDE DEF q
<1>3. Hear(h, q) = Hear(HeardByte(h, Head(q)), Tail(q))
  BY <1>1, HearNext
<1> HIDE DEF g
<1>4. Hear(g, <<>>) = g
  BY <1>2, HearNone
<1>5. QED
  BY <1>1, <1>3, <1>4 DEF q, g

LEMMA HearTwo ==
  ASSUME NEW h \in HeardState, NEW b \in Byte, NEW c \in Byte
  PROVE  Hear(h, <<b, c>>) = HeardByte(HeardByte(h, b), c)
<1> DEFINE q == <<b, c>>
           g == HeardByte(h, b)
<1>1. q \in Bytes /\ q # <<>> /\ Head(q) = b /\ Tail(q) = <<c>>
  BY DEF Bytes
<1>2. g \in HeardState
  BY HeardByteIn
<1> HIDE DEF q
<1>3. Hear(h, q) = Hear(HeardByte(h, Head(q)), Tail(q))
  BY <1>1, HearNext
<1> HIDE DEF g
<1>4. Hear(g, <<c>>) = HeardByte(g, c)
  BY <1>2, HearOne
<1>5. QED
  BY <1>1, <1>3, <1>4 DEF q, g

\* After q the remote waits for a command or data, and has data d, answers a
\* and size s.
Has(g, d, a, s) == g \in HeardState /\ g.mode = "data" /\ g.data = d /\ g.answers = a /\ g.size = s

LEMMA HasIs ==
  ASSUME NEW g, NEW d, NEW a, NEW s, Has(g, d, a, s)
  PROVE  /\ g = Heard("data", g.buf, d, a, s) /\ g.buf \in Bytes /\ g \in HeardState
         /\ d \in Bytes /\ a \in Seq(Bytes) /\ s \in Nat
BY HeardOf DEF Has

LEMMA HeardHas ==
  ASSUME NEW u \in Bytes, NEW d \in Bytes, NEW a \in Seq(Bytes), NEW s \in Nat
  PROVE  Has(Heard("data", u, d, a, s), d, a, s)
<1>1. "data" \in HeardModes /\ "data" # "option"
  BY DEF HeardModes
<1>2. QED
  BY <1>1, HeardIn, HeardFields DEF Has

\* A key, as write sends it.
LEMMA HearKey ==
  ASSUME NEW h, NEW d, NEW a, NEW s, Has(h, d, a, s), NEW b \in Byte
  PROVE  Has(Hear(h, Escaped(b)), Append(d, b), a, s)
<1> DEFINE u  == h.buf
           db == Append(d, b)
           c  == Heard("command", u, d, a, s)
<1>1. /\ h = Heard("data", u, d, a, s) /\ h \in HeardState /\ u \in Bytes
      /\ d \in Bytes /\ a \in Seq(Bytes) /\ s \in Nat
  BY HasIs
<1>2. db \in Bytes /\ IAC \in Byte
  BY <1>1, AppendProperties, CodesAre DEF Bytes, Codes, Byte
<1> HIDE DEF u, db
<1>3. HeardByte(c, IAC) = Heard("data", u, Append(d, IAC), a, s)
  BY HeardEscapedByte
<1>4. CASE b = IAC
  <2>1. Hear(h, <<IAC, IAC>>) = HeardByte(HeardByte(h, IAC), IAC)
    BY <1>1, <1>2, HearTwo
  <2>2. HeardByte(h, IAC) = c
    BY <1>1, HeardDataByte
  <2> HIDE DEF c
  <2>3. Hear(h, Escaped(b)) = Heard("data", u, db, a, s)
    BY <1>3, <1>4, <2>1, <2>2 DEF Escaped, db
  <2>4. QED
    BY <1>1, <1>2, <2>3, HeardHas DEF db
<1>5. CASE b # IAC
  <2>1. Hear(h, <<b>>) = HeardByte(h, b)
    BY <1>1, HearOne
  <2>2. HeardByte(h, b) = Heard("data", u, db, a, s)
    BY <1>1, <1>5, HeardDataByte DEF db
  <2>3. Hear(h, Escaped(b)) = Heard("data", u, db, a, s)
    BY <1>5, <2>1, <2>2 DEF Escaped
  <2>4. QED
    BY <1>1, <1>2, <2>3, HeardHas DEF db
<1>6. QED
  BY <1>4, <1>5

\* An answer.
LEMMA HearAnswer ==
  ASSUME NEW h, NEW d, NEW a, NEW s, Has(h, d, a, s), NEW x \in {WILL, WONT, DO, DONT}, NEW o \in Byte
  PROVE  Has(Hear(h, <<IAC, x, o>>), d, Append(a, <<x, o>>), s)
<1> DEFINE u  == h.buf
           xo == <<x, o>>
           one == <<x>>
           q == <<IAC, x, o>>
           ax == Append(a, xo)
           c == Heard("command", u, d, a, s)
           e == Heard("option", one, d, a, s)
<1>1. /\ h = Heard("data", u, d, a, s) /\ h \in HeardState /\ u \in Bytes
      /\ d \in Bytes /\ a \in Seq(Bytes) /\ s \in Nat
  BY HasIs
<1>2. x \in Byte /\ IAC \in Byte /\ x # IAC /\ x # SB
  BY CodesAre DEF Codes, Byte
<1>3. q \in Bytes /\ q # <<>> /\ Head(q) = IAC /\ Tail(q) = xo /\ xo \in Bytes /\ one \in Bytes
  BY <1>2 DEF Bytes
<1>4. one[1] = x
  OBVIOUS
<1> HIDE DEF one, q, u
<1>5. HeardByte(h, IAC) = c
  BY <1>1, HeardDataByte
<1>6. c \in HeardState
  BY <1>1, <1>2, <1>5, HeardByteIn
<1>7. HeardByte(c, x) = e
  BY <1>2, HeardCommandByte DEF one
<1>8. HeardByte(e, o) = Heard("data", one, d, ax, s)
  <2>1. HeardByte(e, o) = Heard("data", one, d, Append(a, <<one[1], o>>), s)
    BY HeardOptionByte
  <2>2. QED
    BY <1>4, <2>1
<1> HIDE DEF c
<1>9. Hear(c, <<x, o>>) = HeardByte(HeardByte(c, x), o)
  BY <1>2, <1>6, HearTwo
<1>10. Hear(h, q) = Hear(HeardByte(h, Head(q)), Tail(q))
  BY <1>1, <1>3, HearNext
<1> HIDE DEF e
<1>11. Hear(h, q) = Heard("data", one, d, ax, s)
  BY <1>3, <1>5, <1>7, <1>8, <1>9, <1>10
<1> HIDE DEF xo
<1>12. ax \in Seq(Bytes)
  BY <1>1, <1>3, AppendProperties
<1> HIDE DEF ax
<1>13. Has(Hear(h, q), d, ax, s)
  BY <1>1, <1>3, <1>11, <1>12, HeardHas
<1>14. QED
  BY <1>13 DEF q, ax, xo

\* A subnegotiation, of bytes other than IAC.
LEMMA HearSub ==
  ASSUME NEW d \in Bytes, NEW a \in Seq(Bytes), NEW s \in Nat,
         NEW q \in Seq(Byte \ {IAC})
  PROVE  LET none == <<>> IN
         Hear(Heard("sub", none, d, a, s), q) = Heard("sub", q, d, a, s)
<1> DEFINE B == Byte \ {IAC}
           none == <<>>
           h == Heard("sub", none, d, a, s)
           S == {r \in Seq(B) : Hear(h, r) = Heard("sub", r, d, a, s)}
<1>1. "sub" \in HeardModes /\ "sub" # "option" /\ none \in Bytes /\ none \in Seq(B)
  BY EmptySeq DEF HeardModes, Bytes
<1>2. h \in HeardState
  BY <1>1, HeardIn
<1>3. <<>> \in S
  <2>1. Hear(h, <<>>) = h
    BY <1>2, HearNone
  <2>2. QED
    BY <1>1, <2>1
<1> HIDE DEF h
<1>4. ASSUME NEW r \in Seq(B), NEW b \in B, r \in S PROVE Append(r, b) \in S
  <2> DEFINE g   == Heard("sub", r, d, a, s)
             one == <<b>>
  <2>1. r \in Bytes /\ b \in Byte /\ b # IAC /\ one \in Bytes /\ Append(r, b) \in Seq(B)
    <3>1. Append(r, b) \in Seq(B)
      BY AppendProperties
    <3>2. r \in Seq(Byte)
      BY SeqMonotonic
    <3>3. QED
      BY <3>1, <3>2 DEF Bytes
  <2>2. r \o one = Append(r, b)
    BY AppendIsConcat
  <2>3. Hear(h, r) = g
    BY <1>4
  <2>4. g \in HeardState
    BY <1>1, <2>1, HeardIn
  <2>5. Hear(g, <<b>>) = HeardByte(g, b)
    BY <2>1, <2>4, HearOne
  <2>6. HeardByte(g, b) = Heard("sub", Append(r, b), d, a, s)
    BY <2>1, HeardSubByte
  <2> HIDE DEF g, one
  <2>7. Hear(h, r \o one) = Hear(Hear(h, r), one)
    BY <1>2, <2>1, HearConcat
  <2>8. Hear(h, Append(r, b)) = Heard("sub", Append(r, b), d, a, s)
    BY <2>2, <2>3, <2>5, <2>6, <2>7 DEF one
  <2>9. QED
    BY <2>1, <2>8
<1> HIDE DEF S, B
<1>5. Seq(B) \subseteq S
  BY <1>3, <1>4, SeqInduct
<1>6. q \in S
  BY <1>5 DEF B
<1>7. QED
  BY <1>6 DEF S, h

\* The message with q as its subnegotiation.
SubMessage(q) == (<<IAC, SB>> \o q) \o <<IAC, SE>>

LEMMA HearSubMessage ==
  ASSUME NEW h, NEW d, NEW a, NEW s, Has(h, d, a, s), NEW q \in Seq(Byte \ {IAC})
  PROVE  Has(Hear(h, SubMessage(q)), d,
             IF Len(q) = 5 /\ q[1] = NAWS THEN a ELSE Append(a, <<SB>> \o q),
             IF Len(q) = 5 /\ q[1] = NAWS THEN q[2] * 256 + q[3] ELSE s)
<1> DEFINE u == h.buf
           begin == <<IAC, SB>>
           end   == <<IAC, SE>>
           none  == <<>>
           c == Heard("command", u, d, a, s)
           e == Heard("sub", none, d, a, s)
           f == Heard("sub", q, d, a, s)
           g == Heard("subcommand", q, d, a, s)
           k == HeardByte(g, SE)
<1>1. /\ h = Heard("data", u, d, a, s) /\ h \in HeardState /\ u \in Bytes
      /\ d \in Bytes /\ a \in Seq(Bytes) /\ s \in Nat
  BY HasIs
<1>2. /\ IAC \in Byte /\ SB \in Byte /\ SE \in Byte /\ IAC # SB /\ IAC # SE
  BY CodesAre DEF Codes, Byte
<1>3. begin \in Bytes /\ end \in Bytes /\ q \in Bytes /\ begin \o q \in Bytes
  <2>1. q \in Seq(Byte)
    BY SeqMonotonic
  <2>2. begin \in Seq(Byte) /\ end \in Seq(Byte)
    BY <1>2
  <2>3. begin \o q \in Seq(Byte)
    BY <2>1, <2>2, ConcatProperties
  <2>4. QED
    BY <2>1, <2>2, <2>3 DEF Bytes
<1>4. Hear(h, begin) = e
  <2>1. HeardByte(h, IAC) = c
    BY <1>1, HeardDataByte
  <2> HIDE DEF u
  <2>2. HeardByte(c, SB) = e
    BY HeardBeginByte
  <2>3. Hear(h, <<IAC, SB>>) = HeardByte(HeardByte(h, IAC), SB)
    BY <1>1, <1>2, HearTwo
  <2> HIDE DEF c, e
  <2>4. QED
    BY <2>1, <2>2, <2>3
<1>5. e \in HeardState
  <2> HIDE DEF e
  <2>1. QED
    BY <1>1, <1>3, <1>4, HearIs
<1>6. Hear(e, q) = f
  BY <1>1, HearSub
<1>7. f \in HeardState
  <2> HIDE DEF e, f
  <2>1. QED
    BY <1>3, <1>5, <1>6, HearIs
<1>8. Hear(f, end) = k
  <2>1. HeardByte(f, IAC) = g
    BY HeardSubByte
  <2> HIDE DEF f, g
  <2>2. Hear(f, <<IAC, SE>>) = HeardByte(HeardByte(f, IAC), SE)
    BY <1>2, <1>7, HearTwo
  <2>3. QED
    BY <2>1, <2>2
<1>9. k \in HeardState
  <2> HIDE DEF f, k
  <2>1. QED
    BY <1>3, <1>7, <1>8, HearIs
<1>10. k = IF Len(q) = 5 /\ q[1] = NAWS THEN Heard("data", q, d, a, q[2] * 256 + q[3])
           ELSE Heard("data", q, d, Append(a, <<SB>> \o q), s)
  BY <1>2, HeardSubcommandByte
<1>11. Hear(h, SubMessage(q)) = k
  <2> HIDE DEF begin, end, e, f, k
  <2> DEFINE bq == begin \o q
  <2>1. Hear(h, bq) = Hear(Hear(h, begin), q)
    BY <1>1, <1>3, HearConcat
  <2>2. bq \in Bytes
    BY <1>3
  <2> HIDE DEF bq
  <2>3. Hear(h, bq \o end) = Hear(Hear(h, bq), end)
    BY <1>1, <1>3, <2>2, HearConcat
  <2>4. SubMessage(q) = bq \o end
    BY DEF SubMessage, begin, end, bq
  <2>5. QED
    BY <1>4, <1>6, <1>8, <2>1, <2>3, <2>4
<1> HIDE DEF k
<1>12. CASE Len(q) = 5 /\ q[1] = NAWS
  <2>1. k = Heard("data", q, d, a, q[2] * 256 + q[3])
    BY <1>10, <1>12
  <2>2. k.mode = "data" /\ k.data = d /\ k.answers = a /\ k.size = q[2] * 256 + q[3]
    BY <2>1, HeardFields
  <2>3. QED
    BY <1>9, <1>11, <1>12, <2>2 DEF Has
<1>13. CASE ~(Len(q) = 5 /\ q[1] = NAWS)
  <2> DEFINE ax == Append(a, <<SB>> \o q)
  <2>1. k = Heard("data", q, d, ax, s)
    BY <1>10, <1>13
  <2> HIDE DEF ax
  <2>2. k.mode = "data" /\ k.data = d /\ k.answers = ax /\ k.size = s
    BY <2>1, HeardFields
  <2>3. QED
    BY <1>9, <1>11, <1>13, <2>2 DEF Has, ax
<1>14. QED
  BY <1>12, <1>13

LEMMA HearWindow ==
  ASSUME NEW h, NEW d, NEW a, NEW s, Has(h, d, a, s), NEW w, SizeOK(w)
  PROVE  Has(Hear(h, WindowMsg(w)), d, a, w) /\ WindowMsg(w) \in Bytes
<1> DEFINE x == w \div 256
           y == w % 256
           q == <<NAWS, x, y, 0, 24>>
           B == Byte \ {IAC}
<1>1. x \in B /\ y \in B /\ x * 256 + y = w
  BY SizeBytes
<1>2. NAWS \in B /\ 0 \in B /\ 24 \in B /\ IAC \in Byte /\ SB \in Byte /\ SE \in Byte /\ B \subseteq Byte
  BY CodesAre DEF Codes, Byte
<1> HIDE DEF x, y, B
<1>3. q \in Seq(B)
  BY <1>1, <1>2
<1>4. Len(q) = 5 /\ q[1] = NAWS /\ q[2] = x /\ q[3] = y /\ q[4] = 0 /\ q[5] = 24
  OBVIOUS
<1> HIDE DEF q
<1>5. Has(Hear(h, SubMessage(q)), d, a, q[2] * 256 + q[3])
  BY <1>3, <1>4, HearSubMessage DEF B
<1>6. SubMessage(q) = WindowMsg(w) /\ WindowMsg(w) \in Bytes
  <2> DEFINE begin == <<IAC, SB>>
             end   == <<IAC, SE>>
             all   == WindowMsg(w)
             bq    == begin \o q
  <2>1. /\ begin \in Seq(Byte) /\ end \in Seq(Byte) /\ q \in Seq(Byte)
        /\ Len(begin) = 2 /\ begin[1] = IAC /\ begin[2] = SB
        /\ Len(end) = 2 /\ end[1] = IAC /\ end[2] = SE
    <3>1. q \in Seq(Byte)
      BY <1>2, <1>3, SeqMonotonic
    <3>2. QED
      BY <1>2, <3>1
  <2>2. all = <<IAC, SB, NAWS, x, y, 0, 24, IAC, SE>>
    BY DEF WindowMsg, x, y
  <2>3. /\ all \in Seq(Byte) /\ Len(all) = 9
        /\ all[1] = IAC /\ all[2] = SB /\ all[3] = NAWS /\ all[4] = x /\ all[5] = y
        /\ all[6] = 0 /\ all[7] = 24 /\ all[8] = IAC /\ all[9] = SE
    BY <1>1, <1>2, <2>2
  <2> HIDE DEF begin, end, all
  <2>4. /\ bq \in Seq(Byte) /\ Len(bq) = Len(begin) + Len(q)
        /\ \A i \in 1..Len(begin) + Len(q) : bq[i] = IF i <= Len(begin) THEN begin[i] ELSE q[i - Len(begin)]
    BY <2>1, ConcatProperties
  <2> HIDE DEF bq
  <2>5. /\ bq \in Seq(Byte) /\ Len(bq) = 7
        /\ bq[1] = IAC /\ bq[2] = SB /\ bq[3] = NAWS /\ bq[4] = x /\ bq[5] = y
        /\ bq[6] = 0 /\ bq[7] = 24
    BY <1>4, <2>1, <2>4
  <2> DEFINE z == bq \o end
  <2>6. /\ z \in Seq(Byte) /\ Len(z) = Len(bq) + Len(end)
        /\ \A i \in 1..Len(bq) + Len(end) : z[i] = IF i <= Len(bq) THEN bq[i] ELSE end[i - Len(bq)]
    BY <2>1, <2>5, ConcatProperties
  <2>7. SubMessage(q) = z
    BY DEF SubMessage, begin, end, bq
  <2> HIDE DEF z
  <2>8. Len(z) = 9 /\ \A i \in 1..9 : z[i] = all[i]
    BY <2>1, <2>3, <2>5, <2>6
  <2>9. z = all
    BY <2>3, <2>6, <2>8, SeqEqual
  <2>10. QED
    BY <2>3, <2>7, <2>9 DEF all, Bytes
<1>7. q[2] * 256 + q[3] = w
  BY <1>1, <1>4
<1>8. QED
  BY <1>5, <1>6, <1>7

LEMMA HearType ==
  ASSUME NEW h, NEW d, NEW a, NEW s, Has(h, d, a, s)
  PROVE  Has(Hear(h, TerminalType), d, Append(a, <<SB, TTYPE, IS, 120>>), s) /\ TerminalType \in Bytes
<1> DEFINE q == <<TTYPE, IS, 120>>
           B == Byte \ {IAC}
           ans == <<SB, TTYPE, IS, 120>>
           one == <<SB>>
           begin == <<IAC, SB>>
           end   == <<IAC, SE>>
           bq    == begin \o q
           all   == TerminalType
           z     == bq \o end
           sq    == one \o q
<1>1. /\ TTYPE \in B /\ IS \in B /\ 120 \in B /\ IAC \in Byte /\ SB \in Byte /\ SE \in Byte
      /\ B \subseteq Byte
  BY CodesAre DEF Codes, Byte
<1> HIDE DEF B
<1>2. /\ q \in Seq(B) /\ q \in Seq(Byte) /\ begin \in Seq(Byte) /\ end \in Seq(Byte) /\ ans \in Seq(Byte)
      /\ one \in Seq(Byte)
  BY <1>1
<1>3. /\ Len(q) = 3 /\ q[1] = TTYPE /\ q[2] = IS /\ q[3] = 120
      /\ Len(begin) = 2 /\ begin[1] = IAC /\ begin[2] = SB
      /\ Len(end) = 2 /\ end[1] = IAC /\ end[2] = SE
      /\ Len(one) = 1 /\ one[1] = SB
      /\ Len(ans) = 4 /\ ans[1] = SB /\ ans[2] = TTYPE /\ ans[3] = IS /\ ans[4] = 120
  OBVIOUS
<1>4. /\ all \in Seq(Byte) /\ Len(all) = 7
      /\ all[1] = IAC /\ all[2] = SB /\ all[3] = TTYPE /\ all[4] = IS /\ all[5] = 120
      /\ all[6] = IAC /\ all[7] = SE
  BY <1>1 DEF TerminalType
<1> HIDE DEF q, begin, end, one, ans, all
<1>5. Has(Hear(h, SubMessage(q)), d, Append(a, one \o q), s)
  <2>1. Has(Hear(h, SubMessage(q)), d, IF Len(q) = 5 /\ q[1] = NAWS THEN a ELSE Append(a, <<SB>> \o q),
            IF Len(q) = 5 /\ q[1] = NAWS THEN q[2] * 256 + q[3] ELSE s)
    BY <1>2, HearSubMessage DEF B
  <2>2. ~(Len(q) = 5 /\ q[1] = NAWS)
    BY <1>3
  <2>3. QED
    BY <2>1, <2>2 DEF one
<1>6. /\ bq \in Seq(Byte) /\ Len(bq) = Len(begin) + Len(q)
      /\ \A i \in 1..Len(begin) + Len(q) : bq[i] = IF i <= Len(begin) THEN begin[i] ELSE q[i - Len(begin)]
  BY <1>2, ConcatProperties
<1> HIDE DEF bq
<1>7. /\ Len(bq) = 5
      /\ bq[1] = IAC /\ bq[2] = SB /\ bq[3] = TTYPE /\ bq[4] = IS /\ bq[5] = 120
  BY <1>3, <1>6
<1>8. /\ z \in Seq(Byte) /\ Len(z) = Len(bq) + Len(end)
      /\ \A i \in 1..Len(bq) + Len(end) : z[i] = IF i <= Len(bq) THEN bq[i] ELSE end[i - Len(bq)]
  <2>1. bq \in Seq(Byte)
    BY <1>6
  <2>2. QED
    BY <1>2, <2>1, ConcatProperties
<1>9. SubMessage(q) = z
  BY DEF SubMessage, begin, end, bq
<1>10. /\ sq \in Seq(Byte) /\ Len(sq) = Len(one) + Len(q)
       /\ \A i \in 1..Len(one) + Len(q) : sq[i] = IF i <= Len(one) THEN one[i] ELSE q[i - Len(one)]
  BY <1>2, ConcatProperties
<1> HIDE DEF z, sq
<1>11. z = all
  <2>1. Len(z) = 7 /\ \A i \in 1..7 : z[i] = all[i]
    BY <1>3, <1>4, <1>7, <1>8
  <2>2. z \in Seq(Byte) /\ all \in Seq(Byte) /\ Len(z) = Len(all) /\ Len(z) = 7
    BY <1>4, <1>8, <2>1
  <2>3. \A i \in 1..Len(z) : z[i] = all[i]
    BY <2>1, <2>2
  <2>4. QED
    BY <2>2, <2>3, SeqEqual
<1>12. sq = ans
  <2>1. Len(sq) = 4 /\ \A i \in 1..4 : sq[i] = ans[i]
    BY <1>3, <1>10
  <2>2. sq \in Seq(Byte) /\ ans \in Seq(Byte) /\ Len(sq) = Len(ans) /\ Len(sq) = 4
    BY <1>2, <1>3, <1>10, <2>1
  <2>3. \A i \in 1..Len(sq) : sq[i] = ans[i]
    BY <2>1, <2>2
  <2>4. QED
    BY <2>2, <2>3, SeqEqual
<1>13. QED
  BY <1>4, <1>5, <1>9, <1>11, <1>12 DEF all, ans, sq, Bytes

(***************************************************************************)
(* Messages one after the other.                                           *)
(***************************************************************************)

LEMMA TellSteps == StepOf(HeardState, Bytes, tellStep)
BY HearIs DEF StepOf, tellStep

LEMMA TellIs ==
  ASSUME NEW h \in HeardState, NEW q \in Bytes
  PROVE  After(tellStep, h, q) = Hear(h, q)
BY DEF After, tellStep

LEMMA HearAllIn ==
  ASSUME NEW h \in HeardState, NEW ms \in Seq(Bytes)
  PROVE  HearAll(h, ms) \in HeardState
BY TellSteps, FoldTrace DEF HearAll

LEMMA HearAllNone ==
  ASSUME NEW h \in HeardState
  PROVE  HearAll(h, <<>>) = h
BY TellSteps, FoldEmpty DEF HearAll

LEMMA HearAllOne ==
  ASSUME NEW h \in HeardState, NEW q \in Bytes
  PROVE  HearAll(h, <<q>>) = Hear(h, q)
<1>1. HearAll(h, <<q>>) = After(tellStep, h, q)
  BY TellSteps, FoldOne DEF HearAll
<1>2. QED
  BY <1>1, TellIs

LEMMA HearAllConcat ==
  ASSUME NEW h \in HeardState, NEW ms \in Seq(Bytes), NEW ns \in Seq(Bytes)
  PROVE  HearAll(h, ms \o ns) = HearAll(HearAll(h, ms), ns)
BY TellSteps, FoldConcat DEF HearAll

LEMMA HearAllFirst ==
  ASSUME NEW h \in HeardState, NEW ms \in Seq(Bytes), ms # <<>>
  PROVE  HearAll(h, ms) = HearAll(Hear(h, Head(ms)), Tail(ms))
<1> DEFINE q == Head(ms)
<1>1. q \in Bytes
  BY HeadTailProperties
<1>2. HearAll(h, ms) = Fold(tellStep, After(tellStep, h, Head(ms)), Tail(ms))
  BY TellSteps, FoldFirst DEF HearAll
<1>3. After(tellStep, h, q) = Hear(h, q)
  BY <1>1, TellIs
<1>4. QED
  BY <1>2, <1>3 DEF HearAll

LEMMA HearAllTwo ==
  ASSUME NEW h \in HeardState, NEW q \in Bytes, NEW r \in Bytes
  PROVE  HearAll(h, <<q, r>>) = Hear(Hear(h, q), r)
<1> DEFINE ms == <<q, r>>
           one == <<r>>
           g == Hear(h, q)
<1>1. ms \in Seq(Bytes) /\ ms # <<>> /\ Head(ms) = q /\ Tail(ms) = one
  OBVIOUS
<1>2. g \in HeardState
  BY HearIs
<1> HIDE DEF ms, g
<1>3. HearAll(h, ms) = HearAll(Hear(h, Head(ms)), Tail(ms))
  BY <1>1, HearAllFirst
<1>4. HearAll(g, <<r>>) = Hear(g, r)
  BY <1>2, HearAllOne
<1>5. QED
  BY <1>1, <1>3, <1>4 DEF ms, g

-----------------------------------------------------------------------------
(***************************************************************************)
(* What the client's answers come to.                                      *)
(***************************************************************************)

\* The remote has data d and answers a, that are honest, and the size it was
\* promised.
Stands(h, d, a) ==
  /\ h \in HeardState /\ h.mode = "data" /\ h.data = d /\ h.answers = a
  /\ Honest(a) /\ (WillTellSize(a) => h.size = cols)

Speaks(x, o) == (x = WILL => o \in {SGA, NAWS, TTYPE}) /\ (x = DO => o \in {SGA, ECHO})

LEMMA HonestAppend ==
  ASSUME NEW a \in Seq(Bytes), Honest(a), NEW p \in Bytes, Speaks(p[1], p[2])
  PROVE  Honest(Append(a, p))
<1> DEFINE ap == Append(a, p)
<1>1. /\ Len(ap) = Len(a) + 1 /\ Len(a) \in Nat /\ ap[Len(a) + 1] = p
      /\ \A i \in 1..Len(a) : ap[i] = a[i]
  BY AppendProperties, LenProperties
<1> HIDE DEF ap
<1>2. \A i \in 1..Len(ap) : i \in 1..Len(a) \/ i = Len(a) + 1
  BY <1>1
<1>3. QED
  BY <1>1, <1>2 DEF Honest, Speaks, ap

\* An answer that is no word about the window size changes nothing about it.
LEMMA TellAppend ==
  ASSUME NEW a \in Seq(Bytes), NEW p \in Bytes, ~(p[1] = WILL /\ p[2] = NAWS),
         WillTellSize(Append(a, p))
  PROVE  WillTellSize(a)
<1> DEFINE ap == Append(a, p)
           Word(q) == q[1] \in {WILL, WONT} /\ q[2] = NAWS
<1>1. /\ Len(ap) = Len(a) + 1 /\ Len(a) \in Nat /\ ap[Len(a) + 1] = p
      /\ \A i \in 1..Len(a) : ap[i] = a[i]
  BY AppendProperties, LenProperties
<1>2. PICK i \in 1..Len(ap) :
        /\ ap[i][1] = WILL /\ ap[i][2] = NAWS
        /\ \A j \in 1..Len(ap) : ap[j][1] \in {WILL, WONT} /\ ap[j][2] = NAWS => j <= i
  BY DEF WillTellSize
<1> HIDE DEF ap
<1>3. i # Len(a) + 1
  BY <1>1, <1>2
<1>4. i \in 1..Len(a) /\ a[i][1] = WILL /\ a[i][2] = NAWS
  BY <1>1, <1>2, <1>3
<1>5. ASSUME NEW j \in 1..Len(a), a[j][1] \in {WILL, WONT} /\ a[j][2] = NAWS PROVE j <= i
  <2>1. j \in 1..Len(ap) /\ ap[j] = a[j]
    BY <1>1
  <2>2. QED
    BY <1>2, <1>5, <2>1
<1>6. QED
  BY <1>4, <1>5 DEF WillTellSize

LEMMA StandsOne ==
  ASSUME NEW h, NEW d, NEW a, Stands(h, d, a), NEW x \in {WILL, WONT, DO, DONT}, NEW o \in Byte,
         Speaks(x, o), ~(x = WILL /\ o = NAWS)
  PROVE  Stands(Hear(h, <<IAC, x, o>>), d, Append(a, <<x, o>>))
<1> DEFINE p == <<x, o>>
           q == <<IAC, x, o>>
           g == Hear(h, q)
           s == h.size
<1>1. Has(h, d, a, s) /\ Honest(a) /\ (WillTellSize(a) => s = cols)
  BY DEF Stands, Has
<1>2. x \in Byte
  BY CodesAre DEF Codes, Byte
<1>3. p \in Bytes /\ p[1] = x /\ p[2] = o
  BY <1>2 DEF Bytes
<1>4. a \in Seq(Bytes)
  BY <1>1, HasIs
<1> HIDE DEF s
<1>5. Has(Hear(h, <<IAC, x, o>>), d, Append(a, <<x, o>>), s)
  BY <1>1, HearAnswer
<1> HIDE DEF p
<1>6. Honest(Append(a, p))
  BY <1>1, <1>3, <1>4, HonestAppend
<1>7. WillTellSize(Append(a, p)) => s = cols
  BY <1>1, <1>3, <1>4, TellAppend
<1>8. Has(g, d, Append(a, p), s)
  BY <1>5 DEF p
<1> HIDE DEF g, q
<1>9. Stands(g, d, Append(a, p))
  BY <1>6, <1>7, <1>8 DEF Stands, Has
<1>10. QED
  BY <1>9 DEF g, q, p

LEMMA StandsWindow ==
  ASSUME SizeOK(cols), NEW h, NEW d, NEW a, Stands(h, d, a)
  PROVE  /\ Stands(Hear(Hear(h, <<IAC, WILL, NAWS>>), NawsMsg), d, Append(a, <<WILL, NAWS>>))
         /\ NawsMsg \in Bytes
<1> DEFINE p == <<WILL, NAWS>>
           q == <<IAC, WILL, NAWS>>
           f == Hear(h, q)
           g == Hear(f, NawsMsg)
           s == h.size
           ap == Append(a, p)
<1>1. Has(h, d, a, s) /\ Honest(a)
  BY DEF Stands, Has
<1>2. WILL \in Byte /\ NAWS \in Byte /\ WILL # DO
  BY CodesAre DEF Codes, Byte
<1>3. p \in Bytes /\ p[1] = WILL /\ p[2] = NAWS
  BY <1>2 DEF Bytes
<1>4. a \in Seq(Bytes)
  BY <1>1, HasIs
<1> HIDE DEF s
<1>5. Has(f, d, ap, s)
  BY <1>1, <1>2, HearAnswer
<1> HIDE DEF p
<1>6. Honest(Append(a, p))
  <2>1. Speaks(p[1], p[2])
    BY <1>2, <1>3 DEF Speaks
  <2>2. QED
    BY <1>1, <1>3, <1>4, <2>1, HonestAppend
<1>7. NawsMsg = WindowMsg(cols)
  BY DEF NawsMsg, WindowMsg
<1> HIDE DEF f, q, ap
<1>8. Has(Hear(f, WindowMsg(cols)), d, ap, cols) /\ WindowMsg(cols) \in Bytes
  BY <1>5, HearWindow
<1>9. Has(g, d, ap, cols)
  BY <1>7, <1>8
<1> HIDE DEF g
<1>10. Stands(g, d, ap)
  BY <1>6, <1>9 DEF Stands, Has, ap
<1>11. QED
  BY <1>7, <1>8, <1>10 DEF g, f, q, ap, p

FourCommands ==
  WILL # WONT /\ WILL # DO /\ WILL # DONT /\ WONT # DO /\ WONT # DONT /\ DO # DONT

\* The replies to a negotiation, and the answer they come to.
LEMMA ReplyIs ==
  ASSUME NEW c \in Byte, NEW b \in Byte
  PROVE  \/ RespondNegotiation(c, b) = <<>> /\ Answer(c, b) = <<>>
         \/ \E x \in {WILL, WONT, DO, DONT} :
              /\ RespondNegotiation(c, b) = <<<<IAC, x, b>>>> /\ Answer(c, b) = <<<<x, b>>>>
              /\ Speaks(x, b) /\ ~(x = WILL /\ b = NAWS)
         \/ /\ b = NAWS /\ RespondNegotiation(c, b) = <<<<IAC, WILL, b>>, NawsMsg>>
            /\ Answer(c, b) = <<<<WILL, b>>>>
<1>1. /\ FourCommands /\ SGA # NAWS /\ SGA # TTYPE /\ SGA # ECHO
      /\ NAWS # TTYPE /\ NAWS # ECHO /\ TTYPE # ECHO
  BY CodesAre DEF Codes, FourCommands
<1>2. CASE c = DO /\ b \in {SGA, TTYPE}
  <2>1. RespondNegotiation(c, b) = <<<<IAC, WILL, b>>>> /\ Answer(c, b) = <<<<WILL, b>>>>
    BY <1>1, <1>2 DEF RespondNegotiation, Answer, FourCommands
  <2>2. QED
    BY <1>1, <1>2, <2>1 DEF Speaks, FourCommands
<1>3. CASE c = DO /\ b = NAWS
  BY <1>1, <1>3 DEF RespondNegotiation, Answer, FourCommands
<1>4. CASE c = DO /\ b \notin {SGA, TTYPE, NAWS}
  <2>1. RespondNegotiation(c, b) = <<<<IAC, WONT, b>>>> /\ Answer(c, b) = <<<<WONT, b>>>>
    BY <1>1, <1>4 DEF RespondNegotiation, Answer, FourCommands
  <2>2. QED
    BY <1>1, <1>4, <2>1 DEF Speaks, FourCommands
<1>5. CASE c = DONT /\ b \in {SGA, TTYPE, NAWS}
  <2>1. RespondNegotiation(c, b) = <<<<IAC, WONT, b>>>> /\ Answer(c, b) = <<<<WONT, b>>>>
    BY <1>1, <1>5 DEF RespondNegotiation, Answer, FourCommands
  <2>2. QED
    BY <1>1, <1>5, <2>1 DEF Speaks, FourCommands
<1>6. CASE c = DONT /\ b \notin {SGA, TTYPE, NAWS}
  BY <1>1, <1>6 DEF RespondNegotiation, Answer, FourCommands
<1>7. CASE c = WILL /\ b \in {SGA, ECHO}
  <2>1. RespondNegotiation(c, b) = <<<<IAC, DO, b>>>> /\ Answer(c, b) = <<<<DO, b>>>>
    BY <1>1, <1>7 DEF RespondNegotiation, Answer, FourCommands
  <2>2. QED
    BY <1>1, <1>7, <2>1 DEF Speaks, FourCommands
<1>8. CASE c = WILL /\ b \notin {SGA, ECHO}
  <2>1. RespondNegotiation(c, b) = <<<<IAC, DONT, b>>>> /\ Answer(c, b) = <<<<DONT, b>>>>
    BY <1>1, <1>8 DEF RespondNegotiation, Answer, FourCommands
  <2>2. QED
    BY <1>1, <1>8, <2>1 DEF Speaks, FourCommands
<1>9. CASE c = WONT /\ b \in {SGA, ECHO}
  <2>1. RespondNegotiation(c, b) = <<<<IAC, DONT, b>>>> /\ Answer(c, b) = <<<<DONT, b>>>>
    BY <1>1, <1>9 DEF RespondNegotiation, Answer, FourCommands
  <2>2. QED
    BY <1>1, <1>9, <2>1 DEF Speaks, FourCommands
<1>10. CASE c = WONT /\ b \notin {SGA, ECHO}
  BY <1>1, <1>10 DEF RespondNegotiation, Answer, FourCommands
<1>11. CASE c \notin {WILL, WONT, DO, DONT}
  BY <1>11 DEF RespondNegotiation, Answer
<1>12. QED
  BY <1>2, <1>3, <1>4, <1>5, <1>6, <1>7, <1>8, <1>9, <1>10, <1>11

LEMMA RepliesStand ==
  ASSUME SizeOK(cols), NEW h, NEW d, NEW a, Stands(h, d, a), NEW c \in Byte, NEW b \in Byte
  PROVE  Stands(HearAll(h, RespondNegotiation(c, b)), d, a \o Answer(c, b))
<1>1. h \in HeardState /\ a \in Seq(Bytes)
  BY HeardOf DEF Stands
<1>2. ASSUME NEW x \in {WILL, WONT, DO, DONT}
      PROVE  a \o <<<<x, b>>>> = Append(a, <<x, b>>) /\ <<IAC, x, b>> \in Bytes
  <2> DEFINE p == <<x, b>>
  <2>1. x \in Byte /\ IAC \in Byte
    BY CodesAre DEF Codes, Byte
  <2>2. p \in Bytes /\ <<IAC, x, b>> \in Bytes
    BY <2>1 DEF Bytes
  <2> HIDE DEF p
  <2>3. a \o <<p>> = Append(a, p)
    BY <1>1, <2>2, AppendIsConcat
  <2>4. QED
    BY <2>2, <2>3 DEF p
<1>3. CASE RespondNegotiation(c, b) = <<>> /\ Answer(c, b) = <<>>
  <2>1. a \o <<>> = a
    BY <1>1, ConcatEmptySeq
  <2>2. HearAll(h, <<>>) = h
    BY <1>1, HearAllNone
  <2>3. QED
    BY <1>3, <2>1, <2>2
<1>4. ASSUME NEW x \in {WILL, WONT, DO, DONT},
             RespondNegotiation(c, b) = <<<<IAC, x, b>>>>, Answer(c, b) = <<<<x, b>>>>,
             Speaks(x, b), ~(x = WILL /\ b = NAWS)
      PROVE  Stands(HearAll(h, RespondNegotiation(c, b)), d, a \o Answer(c, b))
  <2> DEFINE q == <<IAC, x, b>>
  <2>1. Stands(Hear(h, q), d, Append(a, <<x, b>>))
    BY <1>4, StandsOne
  <2>2. q \in Bytes
    BY <1>2
  <2> HIDE DEF q
  <2>3. HearAll(h, <<q>>) = Hear(h, q)
    BY <1>1, <2>2, HearAllOne
  <2>4. QED
    BY <1>2, <1>4, <2>1, <2>3 DEF q
<1>5. CASE /\ b = NAWS /\ RespondNegotiation(c, b) = <<<<IAC, WILL, b>>, NawsMsg>>
           /\ Answer(c, b) = <<<<WILL, b>>>>
  <2> DEFINE q == <<IAC, WILL, NAWS>>
  <2>1. Stands(Hear(Hear(h, q), NawsMsg), d, Append(a, <<WILL, NAWS>>)) /\ NawsMsg \in Bytes
    BY StandsWindow
  <2>2. q \in Bytes /\ a \o <<<<WILL, NAWS>>>> = Append(a, <<WILL, NAWS>>)
    BY <1>2, <1>5
  <2> HIDE DEF q
  <2>3. HearAll(h, <<q, NawsMsg>>) = Hear(Hear(h, q), NawsMsg)
    BY <1>1, <2>1, <2>2, HearAllTwo
  <2>4. QED
    BY <1>5, <2>1, <2>2, <2>3 DEF q
<1>6. QED
  BY <1>3, <1>4, <1>5, ReplyIs

LEMMA TypeStands ==
  ASSUME NEW h, NEW d, NEW a, Stands(h, d, a), NEW u \in Bytes
  PROVE  Stands(HearAll(h, RespondSubnegotiation(u)), d, a \o TypeAnswer(u))
<1>1. h \in HeardState /\ a \in Seq(Bytes)
  BY HeardOf DEF Stands
<1>2. CASE Len(u) >= 2 /\ SubSeq(u, 1, 2) = <<TTYPE, SEND>>
  <2> DEFINE p == <<SB, TTYPE, IS, 120>>
             ap == Append(a, p)
             g == Hear(h, TerminalType)
             s == h.size
  <2>1. RespondSubnegotiation(u) = <<TerminalType>> /\ TypeAnswer(u) = <<p>>
    BY <1>2 DEF RespondSubnegotiation, TypeAnswer
  <2>2. Has(h, d, a, s) /\ Honest(a) /\ (WillTellSize(a) => s = cols)
    BY DEF Stands, Has
  <2>3. /\ p \in Bytes /\ p[1] = SB /\ p[2] = TTYPE
        /\ SB # WILL /\ SB # DO
    BY CodesAre DEF Codes, Bytes, Byte
  <2> HIDE DEF s
  <2>4. Has(Hear(h, TerminalType), d, ap, s) /\ TerminalType \in Bytes
    BY <2>2, HearType
  <2> HIDE DEF p
  <2>5. Speaks(p[1], p[2]) /\ ~(p[1] = WILL /\ p[2] = NAWS)
    BY <2>3 DEF Speaks
  <2>6. Honest(ap)
    BY <1>1, <2>2, <2>3, <2>5, HonestAppend
  <2>7. WillTellSize(ap) => s = cols
    BY <1>1, <2>2, <2>3, <2>5, TellAppend
  <2>8. a \o <<p>> = ap
    BY <1>1, <2>3, AppendIsConcat
  <2> HIDE DEF ap
  <2>9. Stands(g, d, ap)
    BY <2>4, <2>6, <2>7 DEF Stands, Has
  <2>10. HearAll(h, <<TerminalType>>) = g
    BY <1>1, <2>4, HearAllOne
  <2>11. QED
    BY <2>1, <2>8, <2>9, <2>10
<1>3. CASE ~(Len(u) >= 2 /\ SubSeq(u, 1, 2) = <<TTYPE, SEND>>)
  <2>1. RespondSubnegotiation(u) = <<>> /\ TypeAnswer(u) = <<>>
    BY <1>3 DEF RespondSubnegotiation, TypeAnswer
  <2>2. a \o <<>> = a
    BY <1>1, ConcatEmptySeq
  <2>3. HearAll(h, <<>>) = h
    BY <1>1, HearAllNone
  <2>4. QED
    BY <2>1, <2>2, <2>3
<1>4. QED
  BY <1>2, <1>3

-----------------------------------------------------------------------------
(***************************************************************************)
(* A read takes its bytes as they are meant.                               *)
(***************************************************************************)

LEMMA AheadFields ==
  ASSUME NEW m, NEW c, NEW u, NEW d, NEW a
  PROVE  LET e == Ahead(m, c, u, d, a) IN
         e.mode = m /\ e.cmd = c /\ e.buf = u /\ e.data = d /\ e.answers = a
BY DEF Ahead

LEMMA AheadIn ==
  ASSUME NEW m \in Modes, NEW c \in Byte, NEW u \in Bytes, NEW d \in Bytes, NEW a \in Seq(Bytes)
  PROVE  Ahead(m, c, u, d, a) \in AheadState
BY DEF Ahead, AheadState

LEMMA AheadOf ==
  ASSUME NEW e \in AheadState
  PROVE  /\ e = Ahead(e.mode, e.cmd, e.buf, e.data, e.answers)
         /\ e.mode \in Modes /\ e.cmd \in Byte /\ e.buf \in Bytes /\ e.data \in Bytes
         /\ e.answers \in Seq(Bytes)
BY DEF Ahead, AheadState

LEMMA MeantIs ==
  ASSUME NEW m \in Modes, NEW c, NEW u, NEW d, NEW a, NEW b
  PROVE  Meant(Ahead(m, c, u, d, a), b) =
    CASE m = "data" /\ b # IAC -> Ahead("data", c, u, Append(d, b), a)
      [] m = "data" /\ b = IAC -> Ahead("iac", c, u, d, a)
      [] m = "iac" /\ b = IAC  -> Ahead("data", c, u, Append(d, IAC), a)
      [] m = "iac" /\ b = SB   -> Ahead("sub", c, <<>>, d, a)
      [] m = "iac" /\ b \in WILL..DONT -> Ahead("negotiation", b, u, d, a)
      [] m = "negotiation" -> Ahead("data", c, u, d, a \o Answer(c, b))
      [] m = "sub" /\ b # IAC  -> Ahead("sub", c, Append(u, b), d, a)
      [] m = "sub" /\ b = IAC  -> Ahead("subiac", c, u, d, a)
      [] m = "subiac" /\ b = SE -> Ahead("data", c, <<>>, d, a \o TypeAnswer(u))
      [] m = "subiac" /\ b = IAC -> Ahead("sub", c, Append(u, IAC), d, a)
      [] OTHER -> Ahead("data", c, <<>>, d, a)
<1> DEFINE e == Ahead(m, c, u, d, a)
<1>1. e.mode = m /\ e.cmd = c /\ e.buf = u /\ e.data = d /\ e.answers = a
  BY AheadFields
<1> HIDE DEF e
<1>2. Meant(e, b) =
    CASE m = "data" /\ b # IAC -> Ahead("data", c, u, Append(d, b), a)
      [] m = "data" /\ b = IAC -> Ahead("iac", c, u, d, a)
      [] m = "iac" /\ b = IAC  -> Ahead("data", c, u, Append(d, IAC), a)
      [] m = "iac" /\ b = SB   -> Ahead("sub", c, <<>>, d, a)
      [] m = "iac" /\ b \in WILL..DONT -> Ahead("negotiation", b, u, d, a)
      [] m = "negotiation" -> Ahead("data", c, u, d, a \o Answer(c, b))
      [] m = "sub" /\ b # IAC  -> Ahead("sub", c, Append(u, b), d, a)
      [] m = "sub" /\ b = IAC  -> Ahead("subiac", c, u, d, a)
      [] m = "subiac" /\ b = SE -> Ahead("data", c, <<>>, d, a \o TypeAnswer(u))
      [] m = "subiac" /\ b = IAC -> Ahead("sub", c, Append(u, IAC), d, a)
      [] OTHER -> Ahead("data", c, <<>>, d, a)
  BY <1>1 DEF Meant
<1>3. QED
  BY <1>2 DEF e

LEMMA AnswersIn ==
  ASSUME NEW c \in Byte, NEW b \in Byte, NEW u \in Bytes
  PROVE  Answer(c, b) \in Seq(Bytes) /\ TypeAnswer(u) \in Seq(Bytes)
<1>1. ASSUME NEW p \in Bytes PROVE <<p>> \in Seq(Bytes)
  OBVIOUS
<1>2. <<>> \in Seq(Bytes)
  OBVIOUS
<1>3. <<SB, TTYPE, IS, 120>> \in Bytes
  BY CodesAre DEF Codes, Bytes, Byte
<1>4. TypeAnswer(u) \in Seq(Bytes)
  BY <1>1, <1>2, <1>3 DEF TypeAnswer
<1>5. ASSUME NEW x \in {WILL, WONT, DO, DONT} PROVE <<<<x, b>>>> \in Seq(Bytes)
  <2>1. <<x, b>> \in Bytes
    BY CodesAre DEF Codes, Bytes, Byte
  <2>2. QED
    BY <1>1, <2>1
<1>6. Answer(c, b) \in Seq(Bytes)
  BY <1>2, <1>5, ReplyIs
<1>7. QED
  BY <1>4, <1>6

LEMMA MeantSteps == StepOf(AheadState, Byte, meantStep)
<1>1. ASSUME NEW e \in AheadState, NEW b \in Byte PROVE Meant(e, b) \in AheadState
  <2> DEFINE m == e.mode
             c == e.cmd
             u == e.buf
             d == e.data
             a == e.answers
             n == a \o Answer(c, b)
             s == a \o TypeAnswer(u)
             q  == Meant(Ahead(m, c, u, d, a), b)
             db == Append(d, b)
             di == Append(d, IAC)
             ub == Append(u, b)
             ui == Append(u, IAC)
             no == <<>>
  <2>1. /\ e = Ahead(m, c, u, d, a) /\ m \in Modes /\ c \in Byte /\ u \in Bytes /\ d \in Bytes
        /\ a \in Seq(Bytes)
    BY AheadOf
  <2>2. IAC \in Byte /\ no \in Bytes
    BY CodesAre DEF Codes, Byte, Bytes
  <2> HIDE DEF m, c, u, d, a
  <2>3. n \in Seq(Bytes) /\ s \in Seq(Bytes)
    BY <2>1, AnswersIn, ConcatProperties
  <2>4. db \in Bytes /\ di \in Bytes /\ ub \in Bytes /\ ui \in Bytes
    BY <2>1, <2>2, AppendProperties DEF Bytes
  <2>5. {"data", "iac", "negotiation", "sub", "subiac"} \subseteq Modes
    BY DEF Modes
  <2>6. \/ q = Ahead("data", c, u, db, a) \/ q = Ahead("iac", c, u, d, a)
        \/ q = Ahead("data", c, u, di, a) \/ q = Ahead("sub", c, no, d, a)
        \/ q = Ahead("negotiation", b, u, d, a) \/ q = Ahead("data", c, u, d, n)
        \/ q = Ahead("sub", c, ub, d, a) \/ q = Ahead("subiac", c, u, d, a)
        \/ q = Ahead("data", c, no, d, s) \/ q = Ahead("sub", c, ui, d, a)
        \/ q = Ahead("data", c, no, d, a)
    BY <2>1, MeantIs
  <2> HIDE DEF q, n, s, db, di, ub, ui, no
  <2>7. q \in AheadState
    BY <2>1, <2>2, <2>3, <2>4, <2>5, <2>6, AheadIn
  <2>8. QED
    BY <2>1, <2>7 DEF q
<1>2. QED
  BY <1>1 DEF StepOf, meantStep

\* A read that has come to p, with r returned before it and h the remote's
\* state, has come to what is meant: e.
Follows(p, e, r, h, d) ==
  /\ p \in ParserState /\ e \in AheadState
  /\ e = Ahead(p.mode, p.cmd, p.buf, r \o p.data, e.answers)
  /\ Stands(HearAll(h, p.responses), d, e.answers)

LEMMA FollowsIs ==
  ASSUME NEW p \in ParserState, NEW e \in AheadState,
         NEW m, NEW c, NEW u, NEW x, NEW y, NEW a, NEW z, NEW r, NEW h, NEW d,
         p = Parser(m, c, u, x, y), e = Ahead(m, c, u, z, a),
         z = r \o x, Stands(HearAll(h, y), d, a)
  PROVE  Follows(p, e, r, h, d)
BY ParserFields, AheadFields DEF Follows

LEMMA FollowsStep ==
  ASSUME SizeOK(cols), NEW p, NEW e, NEW r \in Bytes, NEW h \in HeardState, NEW d,
         Follows(p, e, r, h, d), NEW b \in Byte
  PROVE  Follows(Parsed(p, b), Meant(e, b), r, h, d)
<1> DEFINE m == p.mode
           c == p.cmd
           u == p.buf
           x == p.data
           y == p.responses
           a == e.answers
           rx == r \o x
           n == RespondNegotiation(c, b)
           s == RespondSubnegotiation(u)
           yn == y \o n
           ys == y \o s
           an == a \o Answer(c, b)
           as == a \o TypeAnswer(u)
           p2 == Parsed(p, b)
           e2 == Meant(e, b)
           no == <<>>
<1>1. /\ p = Parser(m, c, u, x, y) /\ m \in Modes /\ c \in Byte /\ u \in Bytes /\ x \in Bytes
      /\ y \in Seq(Bytes) /\ p \in ParserState /\ e \in AheadState
  BY ParserOf DEF Follows
<1>2. e = Ahead(m, c, u, rx, a) /\ Stands(HearAll(h, y), d, a)
  BY DEF Follows
<1>3. p2 \in ParserState /\ e2 \in AheadState
  <2>1. After(parseStep, p, b) = p2 /\ After(meantStep, e, b) = e2
    BY <1>1 DEF After, parseStep, meantStep
  <2> HIDE DEF p2, e2
  <2>2. QED
    BY <1>1, <2>1, ParseSteps, MeantSteps, AfterIn
<1>4. IAC # SB /\ IAC \notin WILL..DONT /\ SB \notin WILL..DONT /\ IAC # SE
  BY CodesAre DEF Codes
<1>5. x \in Seq(Byte) /\ r \in Seq(Byte) /\ IAC \in Byte
  BY <1>1, CodesAre DEF Codes, Bytes, Byte
<1> DEFINE xb  == Append(x, b)
           xi  == Append(x, IAC)
           rxb == Append(rx, b)
           rxi == Append(rx, IAC)
           ub  == Append(u, b)
           ui  == Append(u, IAC)
<1> HIDE DEF m, c, u, x, y, a
<1>6. r \o xb = rxb /\ r \o xi = rxi
  BY <1>5, AppendConcat
<1>7. e2 = Meant(Ahead(m, c, u, rx, a), b) /\ p2 = Parsed(Parser(m, c, u, x, y), b)
  BY <1>1, <1>2
<1>8. Stands(HearAll(h, yn), d, an) /\ Stands(HearAll(h, ys), d, as)
  <2> DEFINE g == HearAll(h, y)
  <2>1. Stands(g, d, a)
    BY <1>2
  <2>2. n \in Seq(Bytes) /\ s \in Seq(Bytes)
    BY <1>1, Replies
  <2> HIDE DEF n, s
  <2>3. HearAll(h, y \o n) = HearAll(HearAll(h, y), n) /\ HearAll(h, y \o s) = HearAll(HearAll(h, y), s)
    BY <1>1, <2>2, HearAllConcat
  <2> HIDE DEF g
  <2>4. Stands(HearAll(g, RespondNegotiation(c, b)), d, a \o Answer(c, b))
    BY <1>1, <2>1, RepliesStand
  <2>5. Stands(HearAll(g, RespondSubnegotiation(u)), d, a \o TypeAnswer(u))
    BY <1>1, <2>1, TypeStands
  <2>6. QED
    BY <2>3, <2>4, <2>5 DEF g, n, s
<1>22. rx = r \o x /\ Stands(HearAll(h, y), d, a)
  BY <1>2
<1> HIDE DEF rx
<1>9. CASE m = "data" /\ b # IAC
  <2>1. p2 = Parser("data", c, u, xb, y) /\ e2 = Ahead("data", c, u, rxb, a)
    BY <1>1, <1>7, <1>9, ParsedIs, MeantIs
  <2> HIDE DEF p2, e2, xb, rxb
  <2>2. Follows(p2, e2, r, h, d)
    BY <1>3, <1>6, <1>22, <2>1, FollowsIs
  <2>3. QED
    BY <2>2 DEF p2, e2
<1>10. CASE m = "data" /\ b = IAC
  <2>1. p2 = Parser("iac", c, u, x, y) /\ e2 = Ahead("iac", c, u, rx, a)
    BY <1>1, <1>7, <1>10, ParsedIs, MeantIs
  <2> HIDE DEF p2, e2
  <2>2. Follows(p2, e2, r, h, d)
    BY <1>3, <1>22, <2>1, FollowsIs
  <2>3. QED
    BY <2>2 DEF p2, e2
<1>11. CASE m = "iac" /\ b = IAC
  <2>1. p2 = Parser("data", c, u, xi, y) /\ e2 = Ahead("data", c, u, rxi, a)
    BY <1>1, <1>4, <1>7, <1>11, ParsedIs, MeantIs
  <2> HIDE DEF p2, e2, xi, rxi
  <2>2. Follows(p2, e2, r, h, d)
    BY <1>3, <1>6, <1>22, <2>1, FollowsIs
  <2>3. QED
    BY <2>2 DEF p2, e2
<1>12. CASE m = "iac" /\ b = SB
  <2>1. p2 = Parser("sub", c, no, x, y) /\ e2 = Ahead("sub", c, no, rx, a)
    BY <1>1, <1>4, <1>7, <1>12, ParsedIs, MeantIs
  <2> HIDE DEF p2, e2, no
  <2>2. Follows(p2, e2, r, h, d)
    BY <1>3, <1>22, <2>1, FollowsIs
  <2>3. QED
    BY <2>2 DEF p2, e2
<1>13. CASE m = "iac" /\ b \in WILL..DONT
  <2>1. p2 = Parser("negotiation", b, u, x, y) /\ e2 = Ahead("negotiation", b, u, rx, a)
    BY <1>1, <1>4, <1>7, <1>13, ParsedIs, MeantIs
  <2> HIDE DEF p2, e2
  <2>2. Follows(p2, e2, r, h, d)
    BY <1>3, <1>22, <2>1, FollowsIs
  <2>3. QED
    BY <2>2 DEF p2, e2
<1>14. CASE m = "negotiation"
  <2>1. p2 = Parser("data", c, u, x, yn) /\ e2 = Ahead("data", c, u, rx, an)
    BY <1>1, <1>7, <1>14, ParsedIs, MeantIs
  <2> HIDE DEF p2, e2, yn, an
  <2>2. Follows(p2, e2, r, h, d)
    BY <1>3, <1>8, <1>22, <2>1, FollowsIs
  <2>3. QED
    BY <2>2 DEF p2, e2
<1>15. CASE m = "sub" /\ b # IAC
  <2>1. p2 = Parser("sub", c, ub, x, y) /\ e2 = Ahead("sub", c, ub, rx, a)
    BY <1>1, <1>7, <1>15, ParsedIs, MeantIs
  <2> HIDE DEF p2, e2, ub
  <2>2. Follows(p2, e2, r, h, d)
    BY <1>3, <1>22, <2>1, FollowsIs
  <2>3. QED
    BY <2>2 DEF p2, e2
<1>16. CASE m = "sub" /\ b = IAC
  <2>1. p2 = Parser("subiac", c, u, x, y) /\ e2 = Ahead("subiac", c, u, rx, a)
    BY <1>1, <1>7, <1>16, ParsedIs, MeantIs
  <2> HIDE DEF p2, e2
  <2>2. Follows(p2, e2, r, h, d)
    BY <1>3, <1>22, <2>1, FollowsIs
  <2>3. QED
    BY <2>2 DEF p2, e2
<1>17. CASE m = "subiac" /\ b = SE
  <2>1. p2 = Parser("data", c, no, x, ys) /\ e2 = Ahead("data", c, no, rx, as)
    BY <1>1, <1>4, <1>7, <1>17, ParsedIs, MeantIs
  <2> HIDE DEF p2, e2, ys, as, no
  <2>2. Follows(p2, e2, r, h, d)
    BY <1>3, <1>8, <1>22, <2>1, FollowsIs
  <2>3. QED
    BY <2>2 DEF p2, e2
<1>18. CASE m = "subiac" /\ b = IAC
  <2>1. p2 = Parser("sub", c, ui, x, y) /\ e2 = Ahead("sub", c, ui, rx, a)
    BY <1>1, <1>4, <1>7, <1>18, ParsedIs, MeantIs
  <2> HIDE DEF p2, e2, ui
  <2>2. Follows(p2, e2, r, h, d)
    BY <1>3, <1>22, <2>1, FollowsIs
  <2>3. QED
    BY <2>2 DEF p2, e2
<1>19. CASE \/ m = "iac" /\ b # IAC /\ b # SB /\ b \notin WILL..DONT
            \/ m = "subiac" /\ b # SE /\ b # IAC
  <2>1. p2 = Parser("data", c, no, x, y) /\ e2 = Ahead("data", c, no, rx, a)
    BY <1>1, <1>7, <1>19, ParsedIs, MeantIs
  <2> HIDE DEF p2, e2, no
  <2>2. Follows(p2, e2, r, h, d)
    BY <1>3, <1>22, <2>1, FollowsIs
  <2>3. QED
    BY <2>2 DEF p2, e2
<1>20. m \in {"data", "iac", "negotiation", "sub", "subiac"}
  BY <1>1 DEF Modes
<1> HIDE DEF p2, e2
<1>21. QED
  BY <1>9, <1>10, <1>11, <1>12, <1>13, <1>14, <1>15, <1>16, <1>17, <1>18, <1>19, <1>20 DEF p2, e2

LEMMA FollowsAll ==
  ASSUME SizeOK(cols), NEW p, NEW e, NEW r \in Bytes, NEW h \in HeardState, NEW d,
         Follows(p, e, r, h, d), NEW q \in Bytes
  PROVE  Follows(Fold(parseStep, p, q), Fold(meantStep, e, q), r, h, d)
<1> DEFINE S == {t \in Seq(Byte) : Follows(Fold(parseStep, p, t), Fold(meantStep, e, t), r, h, d)}
<1>1. p \in ParserState /\ e \in AheadState /\ q \in Seq(Byte)
  BY DEF Follows, Bytes
<1>2. <<>> \in S
  <2>1. Fold(parseStep, p, <<>>) = p /\ Fold(meantStep, e, <<>>) = e
    BY <1>1, ParseSteps, MeantSteps, FoldEmpty
  <2>2. <<>> \in Seq(Byte)
    BY EmptySeq
  <2>3. QED
    BY <2>1, <2>2
<1>3. ASSUME NEW t \in Seq(Byte), NEW b \in Byte, t \in S PROVE Append(t, b) \in S
  <2> DEFINE p1 == Fold(parseStep, p, t)
             e1 == Fold(meantStep, e, t)
  <2>1. Follows(p1, e1, r, h, d)
    BY <1>3
  <2>2. /\ Fold(parseStep, p, Append(t, b)) = After(parseStep, Fold(parseStep, p, t), b)
        /\ Fold(meantStep, e, Append(t, b)) = After(meantStep, Fold(meantStep, e, t), b)
    BY <1>1, ParseSteps, MeantSteps, FoldAppend
  <2> HIDE DEF p1, e1
  <2>3. After(parseStep, p1, b) = Parsed(p1, b) /\ After(meantStep, e1, b) = Meant(e1, b)
    BY <2>1 DEF After, parseStep, meantStep, Follows
  <2>4. Follows(Parsed(p1, b), Meant(e1, b), r, h, d)
    BY <2>1, FollowsStep
  <2>5. Append(t, b) \in Seq(Byte)
    BY AppendProperties
  <2>6. QED
    BY <2>2, <2>3, <2>4, <2>5 DEF p1, e1
<1> HIDE DEF S
<1>4. Seq(Byte) \subseteq S
  BY <1>2, <1>3, SeqInduct
<1>5. q \in S
  BY <1>1, <1>4
<1>6. QED
  BY <1>5 DEF S

-----------------------------------------------------------------------------
(***************************************************************************)
(* What is heard and read is never taken back.                             *)
(***************************************************************************)

Before(s, t) == Len(s) <= Len(t) /\ \A i \in 1..Len(s) : s[i] = t[i]

LEMMA PrefixIs ==
  ASSUME NEW S, NEW s \in Seq(S), NEW t \in Seq(S)
  PROVE  IsPrefix(s, t) <=> Before(s, t)
<1> DEFINE q == SubSeq(t, 1, Len(s))
<1>1. Len(s) \in Nat /\ Len(t) \in Nat
  BY LenProperties
<1>2. SubSeq(s, 1, Len(s)) = s
  BY SubSeqFull
<1>3. ASSUME Len(s) <= Len(t)
      PROVE  q \in Seq(S) /\ Len(q) = Len(s) /\ \A i \in 1..Len(s) : q[i] = t[i]
  <2>1. \A i \in 1..Len(s) : t[i] \in S
    BY <1>1, <1>3, ElementOfSeq
  <2> DEFINE n == Len(s)
  <2>2. 1 \in Int /\ n \in Int /\ \A i \in 1..n : t[i] \in S
    BY <1>1, <2>1
  <2> HIDE DEF n
  <2>3. /\ SubSeq(t, 1, n) \in Seq(S)
        /\ Len(SubSeq(t, 1, n)) = IF 1 <= n THEN n - 1 + 1 ELSE 0
        /\ \A i \in 1..n - 1 + 1 : SubSeq(t, 1, n)[i] = t[1 + i - 1]
    BY <2>2, SubSeqProperties
  <2>4. QED
    BY <1>1, <2>3 DEF n
<1> HIDE DEF q
<1>4. ASSUME IsPrefix(s, t) PROVE Before(s, t)
  <2>1. Len(s) <= Len(t) /\ s = q
    BY <1>2, <1>4 DEF IsPrefix, q
  <2>2. QED
    BY <1>3, <2>1 DEF Before
<1>5. ASSUME Before(s, t) PROVE IsPrefix(s, t)
  <2>1. Len(s) <= Len(t) /\ \A i \in 1..Len(s) : s[i] = t[i]
    BY <1>5 DEF Before
  <2>2. q \in Seq(S) /\ Len(q) = Len(s) /\ \A i \in 1..Len(s) : s[i] = q[i]
    BY <1>3, <2>1
  <2>3. s = q
    BY <2>2, SeqEqual
  <2>4. QED
    BY <1>2, <2>1, <2>3 DEF IsPrefix, q
<1>6. QED
  BY <1>4, <1>5

LEMMA BeforeConcat ==
  ASSUME NEW S, NEW s \in Seq(S), NEW t \in Seq(S), NEW u \in Seq(S), Before(s, t)
  PROVE  Before(s, t \o u)
<1> DEFINE tu == t \o u
<1>1. Len(s) \in Nat /\ Len(t) \in Nat /\ Len(u) \in Nat
  BY LenProperties
<1>2. Len(tu) = Len(t) + Len(u) /\ \A i \in 1..Len(t) + Len(u) : tu[i] = IF i <= Len(t) THEN t[i] ELSE u[i - Len(t)]
  BY ConcatProperties
<1> HIDE DEF tu
<1>3. Before(s, tu)
  BY <1>1, <1>2 DEF Before
<1>4. QED
  BY <1>3 DEF tu

LEMMA BeforeSelf ==
  ASSUME NEW s, Len(s) \in Nat
  PROVE  Before(s, s)
BY DEF Before

LEMMA BeforeAppend ==
  ASSUME NEW S, NEW s \in Seq(S), NEW t \in Seq(S), NEW b \in S, Before(s, t)
  PROVE  Before(s, Append(t, b))
<1> DEFINE one == <<b>>
<1>1. one \in Seq(S) /\ Append(t, b) = t \o one
  BY AppendIsConcat
<1> HIDE DEF one
<1>2. Before(s, t \o one)
  BY <1>1, BeforeConcat
<1>3. QED
  BY <1>1, <1>2

LEMMA BeforeBefore ==
  ASSUME NEW S, NEW s \in Seq(S), NEW t \in Seq(S), NEW u \in Seq(S), Before(s, t), Before(t, u)
  PROVE  Before(s, u)
<1>1. Len(s) \in Nat /\ Len(t) \in Nat /\ Len(u) \in Nat
  BY LenProperties
<1>2. QED
  BY <1>1 DEF Before

\* The remote keeps what it has heard.
Later(d, a) == {h \in HeardState : Before(d, h.data) /\ Before(a, h.answers)}

LEMMA HeardByteLater ==
  ASSUME NEW d \in Bytes, NEW a \in Seq(Bytes), NEW h \in Later(d, a), NEW b \in Byte
  PROVE  HeardByte(h, b) \in Later(d, a)
<1> DEFINE m == h.mode
           u == h.buf
           x == h.data
           y == h.answers
           s == h.size
           q == HeardByte(h, b)
           xb == Append(x, b)
           w == <<u[1], b>>
           z == <<SB>> \o u
           yw == Append(y, w)
           yz == Append(y, z)
<1>1. /\ h = Heard(m, u, x, y, s) /\ m \in HeardModes /\ u \in Bytes /\ x \in Bytes
      /\ y \in Seq(Bytes) /\ (m = "option" => u # <<>>)
      /\ Before(d, x) /\ Before(a, y)
  BY HeardOf DEF Later
<1>2. q \in HeardState
  BY HeardByteIn DEF Later
<1> HIDE DEF q, m, u, x, y, s
<1>3. x \in Seq(Byte) /\ d \in Seq(Byte) /\ u \in Seq(Byte)
  BY <1>1 DEF Bytes
<1>4. Before(d, xb)
  BY <1>1, <1>3, BeforeAppend
<1>5. ASSUME m = "option" PROVE Before(a, yw)
  <2>1. u # <<>>
    BY <1>1, <1>5
  <2>2. u[1] \in Byte
    BY <1>3, <2>1, EmptySeq, ElementOfSeq
  <2>3. w \in Bytes
    BY <2>2 DEF Bytes
  <2> HIDE DEF w
  <2>4. QED
    BY <1>1, <2>3, BeforeAppend
<1>6. Before(a, yz)
  <2>1. <<SB>> \in Seq(Byte)
    BY CodesAre DEF Codes, Byte
  <2>2. z \in Bytes
    BY <1>3, <2>1, ConcatProperties DEF Bytes
  <2> HIDE DEF z
  <2>3. QED
    BY <1>1, <2>2, BeforeAppend
<1>7. HeardModes = {"data", "command", "option", "sub", "subcommand"}
  BY DEF HeardModes
<1>8. ASSUME NEW m2, NEW u2, NEW x2, NEW y2, NEW s2, q = Heard(m2, u2, x2, y2, s2),
             Before(d, x2), Before(a, y2)
      PROVE  q \in Later(d, a)
  <2>1. q.data = x2 /\ q.answers = y2
    BY <1>8, HeardFields
  <2>2. QED
    BY <1>2, <1>8, <2>1 DEF Later
<1>9. q = HeardByte(Heard(m, u, x, y, s), b)
  BY <1>1 DEF q
<1>10. CASE m = "data"
  <2>1. q = Heard("command", u, x, y, s) \/ q = Heard("data", u, xb, y, s)
    BY <1>9, <1>10, HeardDataByte
  <2> HIDE DEF xb
  <2>2. QED
    BY <1>1, <1>4, <1>8, <2>1 DEF q
<1>11. CASE m = "command"
  <2>1. CASE b = IAC
    <3>1. q = Heard("data", u, xb, y, s)
      BY <1>9, <1>11, <2>1, HeardEscapedByte
    <3> HIDE DEF xb
    <3>2. QED
      BY <1>1, <1>4, <1>8, <3>1 DEF q
  <2>2. CASE b = SB
    <3> DEFINE none == <<>>
    <3>1. q = Heard("sub", none, x, y, s)
      BY <1>9, <1>11, <2>2, HeardBeginByte
    <3> HIDE DEF none
    <3>2. QED
      BY <1>1, <1>8, <3>1 DEF q
  <2>3. CASE b # IAC /\ b # SB
    <3> DEFINE one == <<b>>
    <3>1. q = Heard("option", one, x, y, s)
      BY <1>9, <1>11, <2>3, HeardCommandByte
    <3> HIDE DEF one
    <3>2. QED
      BY <1>1, <1>8, <3>1 DEF q
  <2>4. QED
    BY <2>1, <2>2, <2>3
<1>12. CASE m = "option"
  <2>1. q = Heard("data", u, x, yw, s)
    BY <1>9, <1>12, HeardOptionByte
  <2>2. Before(a, yw)
    BY <1>5, <1>12
  <2> HIDE DEF yw
  <2>3. QED
    BY <1>1, <1>8, <2>1, <2>2 DEF q
<1>13. CASE m = "sub"
  <2> DEFINE ub == Append(u, b)
  <2>1. q = Heard("subcommand", u, x, y, s) \/ q = Heard("sub", ub, x, y, s)
    BY <1>9, <1>13, HeardSubByte
  <2> HIDE DEF ub
  <2>2. QED
    BY <1>1, <1>8, <2>1 DEF q
<1>14. CASE m = "subcommand"
  <2> DEFINE ub == Append(u, b)
             v  == u[2] * 256 + u[3]
  <2>1. \/ q = Heard("sub", ub, x, y, s) \/ q = Heard("data", u, x, yz, s)
        \/ q = Heard("data", u, x, y, v)
    BY <1>9, <1>14, HeardSubcommandByte
  <2> HIDE DEF ub, v, yz
  <2>2. QED
    BY <1>1, <1>6, <1>8, <2>1 DEF q
<1>15. QED
  BY <1>1, <1>7, <1>10, <1>11, <1>12, <1>13, <1>14

LEMMA HearLater ==
  ASSUME NEW d \in Bytes, NEW a \in Seq(Bytes), NEW h \in Later(d, a), NEW q \in Bytes
  PROVE  Hear(h, q) \in Later(d, a)
<1> DEFINE R == Later(d, a)
<1>1. h \in HeardState /\ R \in SUBSET HeardState /\ q \in Seq(Byte)
  BY DEF Later, Bytes
<1>2. ASSUME NEW g \in R, NEW b \in Byte PROVE After(hearStep, g, b) \in R
  <2>1. After(hearStep, g, b) = HeardByte(g, b)
    BY <1>1 DEF After, hearStep
  <2>2. QED
    BY <2>1, HeardByteLater
<1> HIDE DEF R
<1>3. h \in R
  BY DEF R
<1>4. Fold(hearStep, h, q) \in R
  BY <1>1, <1>2, <1>3, HearSteps, FoldKeeps
<1>5. QED
  BY <1>1, <1>4, HearIs DEF R

LEMMA HearAllLater ==
  ASSUME NEW h \in HeardState, NEW ms \in Seq(Bytes)
  PROVE  Before(h.data, HearAll(h, ms).data) /\ Before(h.answers, HearAll(h, ms).answers)
<1> DEFINE d == h.data
           a == h.answers
           R == Later(d, a)
<1>1. /\ d \in Bytes /\ a \in Seq(Bytes) /\ R \in SUBSET HeardState
      /\ Len(d) \in Nat /\ Len(a) \in Nat
  BY HeardOf, LenProperties DEF Later, Bytes
<1>2. h \in R
  BY <1>1, BeforeSelf DEF Later
<1> HIDE DEF d, a
<1>3. ASSUME NEW g \in R, NEW q \in Bytes PROVE After(tellStep, g, q) \in R
  <2>1. After(tellStep, g, q) = Hear(g, q)
    BY <1>1, TellIs
  <2>2. QED
    BY <1>1, <2>1, HearLater
<1> HIDE DEF R
<1>4. Fold(tellStep, h, ms) \in R
  BY <1>1, <1>2, <1>3, TellSteps, FoldKeeps
<1>5. QED
  BY <1>4 DEF HearAll, R, Later, d, a

\* So does what is meant.
LEMMA MeantLater ==
  ASSUME NEW e \in AheadState, NEW q \in Bytes
  PROVE  /\ Before(e.data, Fold(meantStep, e, q).data)
         /\ Before(e.answers, Fold(meantStep, e, q).answers)
<1> DEFINE d == e.data
           a == e.answers
           R == {f \in AheadState : Before(d, f.data) /\ Before(a, f.answers)}
<1>1. /\ d \in Seq(Byte) /\ a \in Seq(Bytes) /\ R \in SUBSET AheadState /\ q \in Seq(Byte)
      /\ Len(d) \in Nat /\ Len(a) \in Nat
  BY AheadOf, LenProperties DEF Bytes
<1>2. e \in R
  BY <1>1, BeforeSelf
<1> HIDE DEF d, a
<1>3. ASSUME NEW f \in R, NEW b \in Byte PROVE After(meantStep, f, b) \in R
  <2> DEFINE m == f.mode
             c == f.cmd
             u == f.buf
             x == f.data
             y == f.answers
             g  == After(meantStep, f, b)
             xb == Append(x, b)
             xi == Append(x, IAC)
             yn == y \o Answer(c, b)
             ys == y \o TypeAnswer(u)
  <2>1. /\ f = Ahead(m, c, u, x, y) /\ m \in Modes /\ c \in Byte /\ u \in Bytes /\ x \in Bytes
        /\ y \in Seq(Bytes) /\ Before(d, x) /\ Before(a, y)
    BY AheadOf
  <2>2. g \in AheadState /\ g = Meant(f, b)
    <3>1. f \in AheadState
      OBVIOUS
    <3>2. QED
      BY <3>1, MeantSteps, AfterIn DEF After, meantStep
  <2> HIDE DEF g, m, c, u, x, y, R
  <2>3. x \in Seq(Byte) /\ IAC \in Byte
    BY <2>1, CodesAre DEF Codes, Bytes, Byte
  <2>4. Before(d, xb) /\ Before(d, xi)
    BY <1>1, <2>1, <2>3, BeforeAppend
  <2>5. Answer(c, b) \in Seq(Bytes) /\ TypeAnswer(u) \in Seq(Bytes)
    BY <2>1, AnswersIn
  <2>6. Before(a, yn) /\ Before(a, ys)
    BY <1>1, <2>1, <2>5, BeforeConcat
  <2>7. g = Meant(Ahead(m, c, u, x, y), b)
    BY <2>1, <2>2
  <2>8. ASSUME NEW m2, NEW c2, NEW u2, NEW x2, NEW y2, g = Ahead(m2, c2, u2, x2, y2),
               Before(d, x2), Before(a, y2)
        PROVE  g \in R
    <3>1. g.data = x2 /\ g.answers = y2
      BY <2>8, AheadFields
    <3>2. QED
      BY <2>2, <2>8, <3>1 DEF R
  <2> DEFINE no == <<>>
             ub == Append(u, b)
             ui == Append(u, IAC)
  <2>9. \/ g = Ahead("data", c, u, xb, y) \/ g = Ahead("iac", c, u, x, y)
        \/ g = Ahead("data", c, u, xi, y) \/ g = Ahead("sub", c, no, x, y)
        \/ g = Ahead("negotiation", b, u, x, y) \/ g = Ahead("data", c, u, x, yn)
        \/ g = Ahead("sub", c, ub, x, y) \/ g = Ahead("subiac", c, u, x, y)
        \/ g = Ahead("data", c, no, x, ys) \/ g = Ahead("sub", c, ui, x, y)
        \/ g = Ahead("data", c, no, x, y)
    BY <2>1, <2>7, MeantIs
  <2> HIDE DEF no, ub, ui, xb, xi, yn, ys
  <2>10. g \in R
    BY <2>1, <2>4, <2>6, <2>8, <2>9
  <2>11. QED
    BY <2>10 DEF g
<1> HIDE DEF R
<1>4. Fold(meantStep, e, q) \in R
  BY <1>1, <1>2, <1>3, MeantSteps, FoldKeeps
<1>5. QED
  BY <1>4 DEF R, d, a

-----------------------------------------------------------------------------
(***************************************************************************)
(* What the remote's messages mean.                                        *)
(***************************************************************************)

LEMMA MeantIn ==
  ASSUME NEW e \in AheadState, NEW q \in Bytes
  PROVE  Fold(meantStep, e, q) \in AheadState
<1>1. q \in Seq(Byte)
  BY DEF Bytes
<1>2. QED
  BY <1>1, MeantSteps, FoldTrace

LEMMA MeantConcat ==
  ASSUME NEW e \in AheadState, NEW q \in Bytes, NEW r \in Bytes
  PROVE  Fold(meantStep, e, q \o r) = Fold(meantStep, Fold(meantStep, e, q), r)
<1>1. q \in Seq(Byte) /\ r \in Seq(Byte)
  BY DEF Bytes
<1>2. QED
  BY <1>1, MeantSteps, FoldConcat

LEMMA MeantNone ==
  ASSUME NEW e \in AheadState
  PROVE  Fold(meantStep, e, <<>>) = e
BY MeantSteps, FoldEmpty

LEMMA MeantNext ==
  ASSUME NEW e \in AheadState, NEW q \in Bytes, q # <<>>
  PROVE  /\ Fold(meantStep, e, q) = Fold(meantStep, Meant(e, Head(q)), Tail(q))
         /\ Meant(e, Head(q)) \in AheadState
<1> DEFINE b == Head(q)
           g == After(meantStep, e, b)
<1>1. q \in Seq(Byte) /\ b \in Byte
  BY HeadTailProperties DEF Bytes
<1>2. g = Meant(e, b)
  BY <1>1 DEF After, meantStep
<1>3. Fold(meantStep, e, q) = Fold(meantStep, After(meantStep, e, Head(q)), Tail(q))
  BY <1>1, MeantSteps, FoldFirst
<1> HIDE DEF b
<1>4. g \in AheadState
  BY <1>1, MeantSteps, AfterIn
<1>5. QED
  BY <1>2, <1>3, <1>4 DEF b

LEMMA MeantOne ==
  ASSUME NEW e \in AheadState, NEW b \in Byte
  PROVE  Fold(meantStep, e, <<b>>) = Meant(e, b) /\ Meant(e, b) \in AheadState
<1> DEFINE q == <<b>>
           g == Meant(e, b)
<1>1. q \in Bytes /\ q # <<>> /\ Head(q) = b /\ Tail(q) = <<>>
  BY DEF Bytes
<1> HIDE DEF q
<1>2. /\ Fold(meantStep, e, q) = Fold(meantStep, Meant(e, Head(q)), Tail(q))
      /\ Meant(e, Head(q)) \in AheadState
  BY <1>1, MeantNext
<1>3. g \in AheadState /\ Fold(meantStep, e, q) = Fold(meantStep, g, <<>>)
  BY <1>1, <1>2
<1> HIDE DEF g
<1>4. Fold(meantStep, g, <<>>) = g
  BY <1>3, MeantNone
<1>5. QED
  BY <1>3, <1>4 DEF q, g

LEMMA MeantTwo ==
  ASSUME NEW e \in AheadState, NEW b \in Byte, NEW c \in Byte
  PROVE  /\ Fold(meantStep, e, <<b, c>>) = Meant(Meant(e, b), c)
         /\ Meant(e, b) \in AheadState /\ Meant(Meant(e, b), c) \in AheadState
<1> DEFINE q == <<b, c>>
           g == Meant(e, b)
<1>1. q \in Bytes /\ q # <<>> /\ Head(q) = b /\ Tail(q) = <<c>>
  BY DEF Bytes
<1> HIDE DEF q
<1>2. /\ Fold(meantStep, e, q) = Fold(meantStep, Meant(e, Head(q)), Tail(q))
      /\ Meant(e, Head(q)) \in AheadState
  BY <1>1, MeantNext
<1>3. g \in AheadState /\ Fold(meantStep, e, q) = Fold(meantStep, g, <<c>>)
  BY <1>1, <1>2
<1> HIDE DEF g
<1>4. Fold(meantStep, g, <<c>>) = Meant(g, c) /\ Meant(g, c) \in AheadState
  BY <1>3, MeantOne
<1>5. QED
  BY <1>3, <1>4 DEF q, g

\* A data byte, as the remote sends it.
LEMMA MeantKey ==
  ASSUME NEW e \in AheadState, e.mode = "data", NEW b \in Byte
  PROVE  Fold(meantStep, e, Escaped(b)) = Ahead("data", e.cmd, e.buf, Append(e.data, b), e.answers)
<1> DEFINE c == e.cmd
           u == e.buf
           d == e.data
           a == e.answers
           f == Ahead("iac", c, u, d, a)
           g == Ahead("data", c, u, Append(d, b), a)
<1>1. /\ e = Ahead("data", c, u, d, a)
      /\ "data" \in Modes /\ "iac" \in Modes /\ IAC \in Byte
      /\ IAC # SB /\ IAC \notin WILL..DONT
  BY AheadOf, CodesAre DEF Codes, Byte, Modes
<1> HIDE DEF c, u, d, a
<1>2. CASE b = IAC
  <2>1. Meant(e, b) = f
    BY <1>1, <1>2, MeantIs
  <2>2. Meant(f, b) = g
    BY <1>1, <1>2, MeantIs
  <2>3. Fold(meantStep, e, <<b, b>>) = Meant(Meant(e, b), b)
    BY MeantTwo
  <2> HIDE DEF f, g
  <2>4. Fold(meantStep, e, Escaped(b)) = g
    BY <1>2, <2>1, <2>2, <2>3 DEF Escaped
  <2>5. QED
    BY <2>4 DEF g, c, u, d, a
<1>3. CASE b # IAC
  <2>1. Meant(e, b) = g
    BY <1>1, <1>3, MeantIs
  <2>2. Fold(meantStep, e, <<b>>) = Meant(e, b)
    BY MeantOne
  <2> HIDE DEF g
  <2>3. Fold(meantStep, e, Escaped(b)) = g
    BY <1>3, <2>1, <2>2 DEF Escaped
  <2>4. QED
    BY <2>3 DEF g, c, u, d, a
<1>4. QED
  BY <1>2, <1>3

\* A request.
LEMMA MeantRequest ==
  ASSUME NEW e \in AheadState, e.mode = "data", NEW cmd \in WILL..DONT, NEW opt \in Byte
  PROVE  Fold(meantStep, e, <<IAC, cmd, opt>>) =
           Ahead("data", cmd, e.buf, e.data, e.answers \o Answer(cmd, opt))
<1> DEFINE c == e.cmd
           u == e.buf
           d == e.data
           a == e.answers
           q == <<IAC, cmd, opt>>
           f == Ahead("iac", c, u, d, a)
           g == Ahead("negotiation", cmd, u, d, a)
           k == Ahead("data", cmd, u, d, a \o Answer(cmd, opt))
<1>1. /\ e = Ahead("data", c, u, d, a) /\ "data" \in Modes /\ "iac" \in Modes
      /\ "negotiation" \in Modes
  BY AheadOf DEF Modes
<1>2. IAC \in Byte /\ cmd \in Byte /\ cmd # IAC /\ cmd # SB
  BY CodesAre DEF Codes, Byte
<1> HIDE DEF c, u, d, a
<1>3. q \in Bytes /\ q # <<>> /\ Head(q) = IAC /\ Tail(q) = <<cmd, opt>>
  BY <1>2 DEF Bytes
<1>4. Meant(e, IAC) = f
  BY <1>1, MeantIs
<1>5. Meant(f, cmd) = g
  BY <1>1, <1>2, MeantIs
<1>6. Meant(g, opt) = k
  BY <1>1, MeantIs
<1> HIDE DEF q, f, g, k
<1>7. /\ Fold(meantStep, e, q) = Fold(meantStep, Meant(e, Head(q)), Tail(q))
      /\ Meant(e, Head(q)) \in AheadState
  BY <1>3, MeantNext
<1>8. Fold(meantStep, e, q) = Fold(meantStep, f, <<cmd, opt>>) /\ f \in AheadState
  BY <1>3, <1>4, <1>7
<1>9. Fold(meantStep, f, <<cmd, opt>>) = Meant(Meant(f, cmd), opt)
  BY <1>2, <1>8, MeantTwo
<1>10. Fold(meantStep, e, q) = k
  BY <1>5, <1>6, <1>8, <1>9
<1>11. QED
  BY <1>10 DEF q, k, u, d, a

\* The request for the type of the terminal.
LEMMA MeantTypeRequest ==
  ASSUME NEW e \in AheadState, e.mode = "data"
  PROVE  Fold(meantStep, e, <<IAC, SB, TTYPE, SEND, IAC, SE>>) =
           Ahead("data", e.cmd, <<>>, e.data, e.answers \o <<<<SB, TTYPE, IS, 120>>>>)
<1> DEFINE c == e.cmd
           u == e.buf
           d == e.data
           a == e.answers
           q6 == <<IAC, SB, TTYPE, SEND, IAC, SE>>
           q5 == <<SB, TTYPE, SEND, IAC, SE>>
           q4 == <<TTYPE, SEND, IAC, SE>>
           q3 == <<SEND, IAC, SE>>
           q2 == <<IAC, SE>>
           u0 == <<>>
           u1 == Append(u0, TTYPE)
           u2 == Append(u1, SEND)
           e1 == Ahead("iac", c, u, d, a)
           e2 == Ahead("sub", c, u0, d, a)
           e3 == Ahead("sub", c, u1, d, a)
           e4 == Ahead("sub", c, u2, d, a)
           e5 == Ahead("subiac", c, u2, d, a)
           e6 == Ahead("data", c, u0, d, a \o TypeAnswer(u2))
<1>1. /\ e = Ahead("data", c, u, d, a)
      /\ "data" \in Modes /\ "iac" \in Modes /\ "sub" \in Modes /\ "subiac" \in Modes
  BY AheadOf DEF Modes
<1>2. /\ IAC \in Byte /\ SB \in Byte /\ TTYPE \in Byte /\ SEND \in Byte /\ SE \in Byte
      /\ SB # IAC /\ TTYPE # IAC /\ SEND # IAC /\ SE # IAC /\ IAC \notin WILL..DONT
      /\ SB \notin WILL..DONT
  BY CodesAre DEF Codes, Byte
<1>3. /\ q6 \in Bytes /\ q6 # <<>> /\ Head(q6) = IAC /\ Tail(q6) = q5
      /\ q5 \in Bytes /\ q5 # <<>> /\ Head(q5) = SB /\ Tail(q5) = q4
      /\ q4 \in Bytes /\ q4 # <<>> /\ Head(q4) = TTYPE /\ Tail(q4) = q3
      /\ q3 \in Bytes /\ q3 # <<>> /\ Head(q3) = SEND /\ Tail(q3) = q2
  BY <1>2 DEF Bytes
<1>4. TypeAnswer(u2) = <<<<SB, TTYPE, IS, 120>>>>
  <2>1. u0 \in Seq(Byte) /\ Len(u0) = 0
    BY EmptySeq
  <2> HIDE DEF u0
  <2>2. u1 \in Seq(Byte) /\ Len(u1) = 1 /\ u1[1] = TTYPE
    BY <1>2, <2>1, AppendProperties
  <2> HIDE DEF u1
  <2>3. u2 \in Seq(Byte) /\ Len(u2) = 2 /\ u2[1] = u1[1] /\ u2[2] = SEND
    <3>1. u1 \in Seq(Byte)
      BY <2>2
    <3>2. /\ u2 \in Seq(Byte) /\ Len(u2) = Len(u1) + 1
          /\ \A i \in 1..Len(u1) : u2[i] = u1[i]
          /\ u2[Len(u1) + 1] = SEND
      BY <1>2, <3>1, AppendProperties
    <3> HIDE DEF u2
    <3>3. QED
      BY <2>2, <3>2
  <2> HIDE DEF u2
  <2> DEFINE v == <<TTYPE, SEND>>
  <2>4. v \in Seq(Byte) /\ Len(v) = 2 /\ v[1] = TTYPE /\ v[2] = SEND
    BY <1>2
  <2> HIDE DEF v
  <2>5. \A i \in 1..Len(u2) : u2[i] = v[i]
    BY <2>2, <2>3, <2>4
  <2>6. u2 = v
    BY <2>3, <2>4, <2>5, SeqEqual
  <2>7. SubSeq(u2, 1, Len(u2)) = u2
    BY <2>3, SubSeqFull
  <2>8. SubSeq(u2, 1, 2) = <<TTYPE, SEND>> /\ Len(u2) >= 2
    BY <2>3, <2>6, <2>7 DEF v
  <2>9. QED
    BY <2>8 DEF TypeAnswer
<1> HIDE DEF c, u, d, a
<1>5. Meant(e, IAC) = e1
  BY <1>1, MeantIs
<1>6. Meant(e1, SB) = e2
  BY <1>1, <1>2, MeantIs
<1> HIDE DEF u0
<1>7. Meant(e2, TTYPE) = e3
  BY <1>1, <1>2, MeantIs
<1> HIDE DEF u1
<1>8. Meant(e3, SEND) = e4
  BY <1>1, <1>2, MeantIs
<1> HIDE DEF u2
<1>9. Meant(e4, IAC) = e5
  BY <1>1, MeantIs
<1>10. Meant(e5, SE) = e6
  BY <1>1, <1>2, MeantIs DEF u0
<1> HIDE DEF q6, q5, q4, q3, e1, e2, e3, e4, e5, e6
<1>11. Fold(meantStep, e, q6) = Fold(meantStep, e1, q5) /\ e1 \in AheadState
  <2>1. /\ Fold(meantStep, e, q6) = Fold(meantStep, Meant(e, Head(q6)), Tail(q6))
        /\ Meant(e, Head(q6)) \in AheadState
    BY <1>3, MeantNext
  <2>2. QED
    BY <1>3, <1>5, <2>1
<1>12. Fold(meantStep, e1, q5) = Fold(meantStep, e2, q4) /\ e2 \in AheadState
  <2>1. /\ Fold(meantStep, e1, q5) = Fold(meantStep, Meant(e1, Head(q5)), Tail(q5))
        /\ Meant(e1, Head(q5)) \in AheadState
    BY <1>3, <1>11, MeantNext
  <2>2. QED
    BY <1>3, <1>6, <2>1
<1>13. Fold(meantStep, e2, q4) = Fold(meantStep, e3, q3) /\ e3 \in AheadState
  <2>1. /\ Fold(meantStep, e2, q4) = Fold(meantStep, Meant(e2, Head(q4)), Tail(q4))
        /\ Meant(e2, Head(q4)) \in AheadState
    BY <1>3, <1>12, MeantNext
  <2>2. QED
    BY <1>3, <1>7, <2>1
<1>14. Fold(meantStep, e3, q3) = Fold(meantStep, e4, q2) /\ e4 \in AheadState
  <2>1. /\ Fold(meantStep, e3, q3) = Fold(meantStep, Meant(e3, Head(q3)), Tail(q3))
        /\ Meant(e3, Head(q3)) \in AheadState
    BY <1>3, <1>13, MeantNext
  <2>2. QED
    BY <1>3, <1>8, <2>1
<1>15. Fold(meantStep, e4, <<IAC, SE>>) = Meant(Meant(e4, IAC), SE)
  BY <1>2, <1>14, MeantTwo
<1>16. Fold(meantStep, e, q6) = e6
  BY <1>9, <1>10, <1>11, <1>12, <1>13, <1>14, <1>15 DEF q2
<1>17. QED
  BY <1>4, <1>16 DEF q6, e6, u0, c, d, a

-----------------------------------------------------------------------------
(***************************************************************************)
(* Types.                                                                  *)
(***************************************************************************)

LEMMA TellType ==
  ASSUME heard \in HeardState, NEW q \in Bytes, Tell(q)
  PROVE  heard' \in HeardState
<1>1. CASE protocol = "telnet"
  BY <1>1, HearIs DEF Tell
<1>2. CASE protocol # "telnet"
  <2> DEFINE d == heard.data \o q
  <2>1. d \in Bytes
    BY HeardOf, ConcatProperties DEF Bytes
  <2>2. heard' = [heard EXCEPT !.data = d]
    BY <1>2 DEF Tell
  <2> HIDE DEF d
  <2>3. QED
    BY <2>1, <2>2 DEF HeardState
<1>3. QED
  BY <1>1, <1>2

LEMMA SmallSequences ==
  /\ \A b \in Byte : <<b>> \in Bytes /\ Escaped(b) \in Bytes
  /\ <<>> \in Bytes /\ <<>> \in Seq(Bytes)
  /\ \A s \in Bytes, t \in Bytes : s \o t \in Bytes
  /\ \A s \in Bytes, b \in Byte : Append(s, b) \in Bytes
  /\ \A s \in Seq(Bytes), b \in Bytes : Append(s, b) \in Seq(Bytes)
<1>1. IAC \in Byte
  BY CodesAre DEF Codes, Byte
<1>2. QED
  BY <1>1 DEF Bytes, Escaped

LEMMA Cut ==
  ASSUME NEW S, NEW q \in Seq(S), NEW n \in 0..Len(q)
  PROVE  /\ SubSeq(q, 1, n) \in Seq(S) /\ SubSeq(q, n + 1, Len(q)) \in Seq(S)
         /\ SubSeq(q, 1, n) \o SubSeq(q, n + 1, Len(q)) = q
<1> DEFINE m == n + 1
           k == Len(q)
<1>1. Len(q) \in Nat /\ n \in Nat
  BY LenProperties
<1>2. \A i \in 1..n : q[i] \in S
  BY <1>1, ElementOfSeq
<1>3. \A i \in m..k : q[i] \in S
  BY <1>1, ElementOfSeq
<1>4. m \in Int /\ k \in Int /\ n \in Int /\ 1 \in Int
  BY <1>1
<1> HIDE DEF m, k
<1>5. SubSeq(q, 1, n) \in Seq(S)
  BY <1>2, <1>4, SubSeqProperties
<1>6. SubSeq(q, m, k) \in Seq(S)
  BY <1>3, <1>4, SubSeqProperties
<1>7. SubSeq(q, 1, n) \o SubSeq(q, n + 1, k) = SubSeq(q, 1, k)
  <2> DEFINE one == 1
  <2>1. one \in 1..Len(q) + 1 /\ n \in one - 1..Len(q) /\ k \in n..Len(q)
    BY <1>1 DEF k
  <2> HIDE DEF one
  <2>2. SubSeq(q, one, n) \o SubSeq(q, n + 1, k) = SubSeq(q, one, k)
    BY <2>1, ConcatAdjacentSubSeq
  <2>3. QED
    BY <2>2 DEF one
<1>8. SubSeq(q, 1, k) = q
  BY SubSeqFull DEF k
<1>9. QED
  BY <1>5, <1>6, <1>7, <1>8 DEF m, k

LEMMA StartIn ==
  ASSUME TypeOK
  PROVE  /\ Start(parser) = Parser(parser.mode, parser.cmd, parser.buf, <<>>, <<>>)
         /\ Start(parser) \in ParserState
<1>1. Start(parser) = Parser(parser.mode, parser.cmd, parser.buf, <<>>, <<>>)
  BY DEF Start, Parser
<1>2. /\ parser.mode \in Modes /\ parser.cmd \in Byte /\ parser.buf \in Bytes
  BY DEF TypeOK
<1> DEFINE none == <<>>
<1>3. none \in Bytes /\ none \in Seq(Bytes)
  BY SmallSequences
<1> HIDE DEF none
<1>4. Parser(parser.mode, parser.cmd, parser.buf, none, none) \in ParserState
  BY <1>2, <1>3, ParserIn
<1>5. QED
  BY <1>1, <1>4 DEF none

LEMMA ParseIn ==
  ASSUME TypeOK, NEW q \in Bytes
  PROVE  /\ Parse(q) = Fold(parseStep, Start(parser), q)
         /\ Parse(q) \in ParserState
<1>1. SizeOK(cols) /\ Start(parser) \in ParserState /\ q \in Seq(Byte)
  BY StartIn DEF TypeOK, Bytes
<1>2. Parse(q) = Fold(parseStep, Start(parser), q)
  BY <1>1, RunIs DEF Parse
<1>3. QED
  BY <1>1, <1>2, ParseSteps, FoldTrace

\* Answering a read: what is left, and what of it is written next.
LEMMA LeftType ==
  ASSUME TypeOK
  PROVE  /\ Left \in Seq(Bytes) /\ Pending \in Bytes
         /\ ~Idle => /\ Left = answering[1].left /\ Pending = answering[1].data /\ Left # <<>>
                     /\ Head(Left) \in Bytes /\ Tail(Left) \in Seq(Bytes)
                     /\ Len(Tail(Left)) = Len(Left) - 1 /\ Len(Left) \in Nat
                     /\ protocol = "telnet" /\ status = "connected"
         /\ Idle => Left = <<>> /\ Pending = <<>>
<1>1. CASE Idle
  BY <1>1, SmallSequences DEF Left, Pending
<1>2. CASE ~Idle
  <2>1. /\ answering[1] \in [data : Bytes, left : Seq(Bytes)] /\ answering[1].left # <<>>
        /\ protocol = "telnet" /\ status = "connected"
    BY <1>2 DEF TypeOK, Idle
  <2>2. /\ Left = answering[1].left /\ Pending = answering[1].data
        /\ Left \in Seq(Bytes) /\ Pending \in Bytes /\ Left # <<>>
    BY <1>2, <2>1 DEF Left, Pending
  <2>3. QED
    BY <1>2, <2>1, <2>2, HeadTailProperties, LenProperties
<1>3. QED
  BY <1>1, <1>2

LEMMA InitType == Init => TypeOK
<1>1. SUFFICES ASSUME Init PROVE TypeOK
  OBVIOUS
<1> DEFINE none == <<>>
<1>0. none \in Bytes /\ none \in Seq(Bytes)
  BY SmallSequences
<1>2. heard \in HeardState
  <2>1. heard = Heard("data", none, none, none, 0)
    BY <1>1 DEF Init, Silence, Heard
  <2> HIDE DEF none
  <2>2. "data" \in HeardModes /\ "data" # "option" /\ 0 \in Nat
    BY DEF HeardModes
  <2>3. QED
    BY <1>0, <2>1, <2>2, HeardIn
<1>3. parser \in [mode : Modes, cmd : Byte, buf : Bytes]
  <2>1. parser = [mode |-> "data", cmd |-> 0, buf |-> none]
    BY <1>1 DEF Init, Fresh
  <2> HIDE DEF none
  <2>2. "data" \in Modes /\ 0 \in Byte
    BY DEF Modes, Byte
  <2>3. QED
    BY <1>0, <2>1, <2>2
<1>4. SizeOK(cols)
  <2>1. cols = 80
    BY <1>1 DEF Init
  <2>2. 80 % 256 = 80
    OBVIOUS
  <2>3. 80 \in Nat /\ 80 < 65280 /\ 80 % 256 # 255
    BY <2>2
  <2>4. QED
    BY <2>1, <2>3 DEF SizeOK
<1>5. QED
  BY <1>1, <1>2, <1>3, <1>4, SmallSequences DEF Init, TypeOK

LEMMA StepType ==
  ASSUME TypeOK, [Next]_vars
  PROVE  TypeOK'
<1>1. Keys \subseteq Byte /\ Options \subseteq Byte
  BY BytesAssumption DEF Byte
<1>2. ASSUME NEW b \in Keys, RemoteSends(b) PROVE TypeOK'
  <2>1. b \in Byte /\ down \in Bytes /\ sent \in Bytes
    BY <1>1 DEF TypeOK
  <2>2. down' \in Bytes /\ sent' \in Bytes
    BY <1>2, <2>1, SmallSequences DEF RemoteSends
  <2>3. QED
    BY <1>2, <2>2 DEF TypeOK, RemoteSends, serial, telnet
<1>3. ASSUME NEW q \in Bytes, NEW r \in Bytes, RemoteAsks(q, r) PROVE TypeOK'
  <2>1. down' \in Bytes /\ asked' \in Seq(Bytes)
    BY <1>3, SmallSequences DEF RemoteAsks, TypeOK
  <2>2. QED
    BY <1>3, <2>1 DEF TypeOK, RemoteAsks, serial, telnet
<1>4. CASE RemoteNegotiates
  <2>1. PICK cmd \in WILL..DONT, opt \in Options : RemoteAsks(<<IAC, cmd, opt>>, <<cmd, opt>>)
    BY <1>4 DEF RemoteNegotiates
  <2>2. <<IAC, cmd, opt>> \in Bytes /\ <<cmd, opt>> \in Bytes
    BY <1>1, CodesAre DEF Codes, Bytes, Byte
  <2>3. QED
    BY <1>3, <2>1, <2>2
<1>5. CASE RemoteWantsType
  <2>1. <<IAC, SB, TTYPE, SEND, IAC, SE>> \in Bytes /\ <<SB, TTYPE>> \in Bytes
    BY CodesAre DEF Codes, Bytes, Byte
  <2>2. QED
    BY <1>3, <1>5, <2>1 DEF RemoteWantsType
<1>6. ASSUME NEW n \in 1..Len(down), TcpRead(n) PROVE TypeOK'
  <2> DEFINE bytes == SubSeq(down, 1, n)
             rest  == SubSeq(down, n + 1, Len(down))
             p == Parse(bytes)
  <2>1. down \in Seq(Byte) /\ n \in 0..Len(down)
    BY LenProperties DEF TypeOK, Bytes
  <2>2. bytes \in Bytes /\ rest \in Bytes
    BY <2>1, Cut DEF Bytes
  <2>3. /\ p.mode \in Modes /\ p.cmd \in Byte /\ p.buf \in Bytes /\ p.data \in Bytes
        /\ p.responses \in Seq(Bytes)
    <3> HIDE DEF bytes
    <3>1. p \in ParserState
      BY <2>2, ParseIn
    <3>2. QED
      BY <3>1, ParserOf
  <2>4. /\ down' = rest
        /\ UNCHANGED <<protocol, status, heard, reader, writer, held, inq, outq, cols, dropped, sent,
                       asked, wrote>>
        /\ status = "connected" /\ protocol \in {"telnet", "raw"} /\ answering = <<>>
        /\ \/ protocol = "raw" /\ got' = got \o bytes /\ parser' = parser /\ answering' = answering
           \/ /\ protocol = "telnet" /\ parser' = [mode |-> p.mode, cmd |-> p.cmd, buf |-> p.buf]
              /\ \/ got' = got \o p.data /\ answering' = answering
                 \/ /\ p.responses # <<>> /\ got' = got
                    /\ answering' = <<[data |-> p.data, left |-> p.responses]>>
    BY <1>6 DEF TcpRead, Returned, OverTcp, Idle, serial
  <2> HIDE DEF bytes, rest, p
  <2>5. got \in Bytes
    BY DEF TypeOK
  <2>6. got' \in Bytes
    BY <2>2, <2>3, <2>4, <2>5, SmallSequences
  <2>7. parser' \in [mode : Modes, cmd : Byte, buf : Bytes]
    BY <2>3, <2>4 DEF TypeOK
  <2>8. \/ answering' = <<>>
        \/ /\ protocol' = "telnet" /\ status' = "connected"
           /\ answering' = <<answering'[1]>>
           /\ answering'[1] \in [data : Bytes, left : Seq(Bytes)]
           /\ answering'[1].left # <<>>
    BY <2>3, <2>4
  <2>9. QED
    BY <2>2, <2>4, <2>6, <2>7, <2>8 DEF TypeOK
<1>7. CASE WriteResponse
  <2>1. /\ ~Idle /\ Left # <<>> /\ Left \in Seq(Bytes) /\ Pending \in Bytes /\ Left = answering[1].left
        /\ Pending = answering[1].data
        /\ Head(Left) \in Bytes /\ Tail(Left) \in Seq(Bytes)
        /\ Len(Tail(Left)) = Len(Left) - 1 /\ Len(Left) \in Nat
        /\ protocol = "telnet" /\ status = "connected"
    BY <1>7, LeftType DEF WriteResponse
  <2>2. heard' \in HeardState
    BY <1>7, <2>1, TellType DEF WriteResponse, TypeOK
  <2>3. UNCHANGED <<protocol, status, down, serial, parser, cols, dropped, sent, asked, wrote>>
    BY <1>7 DEF WriteResponse
  <2>4. CASE Len(Left) = 1
    <3>1. answering' = <<>> /\ got' = got \o Pending
      BY <1>7, <2>1, <2>4 DEF WriteResponse, Returned
    <3>2. got' \in Bytes
      BY <2>1, <3>1, SmallSequences DEF TypeOK
    <3>3. QED
      BY <2>2, <2>3, <3>1, <3>2 DEF TypeOK, serial
  <2>5. CASE Len(Left) # 1
    <3> DEFINE a == [answering[1] EXCEPT !.left = Tail(Left)]
    <3>1. answering' = <<a>> /\ got' = got
      BY <1>7, <2>1, <2>5 DEF WriteResponse
    <3>2. answering[1] \in [data : Bytes, left : Seq(Bytes)]
      BY <2>1 DEF TypeOK, Idle
    <3>3. a \in [data : Bytes, left : Seq(Bytes)] /\ a.left = Tail(Left)
      BY <2>1, <3>2
    <3>4. Tail(Left) # <<>>
        <4> DEFINE t == Tail(Left)
      <4>1. Len(t) # 0
        BY <2>1, <2>5, EmptySeq
      <4> HIDE DEF t
      <4>2. t # <<>>
        BY <4>1, EmptySeq
      <4>3. QED
        BY <4>2 DEF t
    <3> HIDE DEF a
    <3>5. /\ answering'[1] = a /\ protocol' = "telnet" /\ status' = "connected"
      BY <2>1, <2>3, <3>1
    <3>6. QED
      BY <2>2, <2>3, <3>1, <3>3, <3>4, <3>5 DEF TypeOK, serial
  <2>6. QED
    BY <2>4, <2>5
<1>8. ASSUME ~Idle, NEW n \in 0..Len(Head(answering[1].left)) - 1, DropRead(n) PROVE TypeOK'
  <2> DEFINE q == Head(answering[1].left)
             part == SubSeq(q, 1, n)
  <2>1. q \in Bytes
    BY <1>8, LeftType
  <2> HIDE DEF q
  <2>2. part \in Bytes
    <3>1. q \in Seq(Byte) /\ Len(q) \in Nat /\ n \in 0..Len(q)
      BY <1>8, <2>1, LenProperties DEF Bytes, q
    <3>2. QED
      BY <3>1, Cut DEF Bytes
  <2>3. Tell(part)
    BY <1>8 DEF DropRead, q
  <2> HIDE DEF part
  <2>4. heard' \in HeardState
    BY <2>2, <2>3, TellType DEF TypeOK
  <2>5. QED
    BY <1>8, <2>4 DEF TypeOK, DropRead, serial, history
<1>9. ASSUME NEW b \in Keys, TcpWrite(b) PROVE TypeOK'
  <2> DEFINE q == IF protocol = "telnet" THEN Escaped(b) ELSE <<b>>
  <2>1. q \in Bytes /\ wrote' \in Bytes
    BY <1>1, <1>9, SmallSequences DEF TcpWrite, TypeOK
  <2>2. Tell(q)
    BY <1>9 DEF TcpWrite
  <2> HIDE DEF q
  <2>3. heard' \in HeardState
    BY <2>1, <2>2, TellType DEF TypeOK
  <2>4. QED
    BY <1>9, <2>1, <2>3 DEF TypeOK, TcpWrite, serial, telnet
<1>10. ASSUME NEW w \in Widths, Resize(w) PROVE TypeOK'
  <2>1. cols' = w /\ SizeOK(w)
    BY <1>10, WidthsAssumption DEF Resize, SizeOK
  <2>2. NawsMsg' = WindowMsg(w)
    BY <2>1 DEF NawsMsg, WindowMsg
  <2>3. WindowMsg(w) \in Bytes
    <3> DEFINE none == <<>>
    <3>1. none \in Bytes /\ none \in Seq(Bytes) /\ 0 \in Nat
      BY SmallSequences
    <3> HIDE DEF none
    <3>2. Has(Heard("data", none, none, none, 0), none, none, 0)
      BY <3>1, HeardHas
    <3>3. QED
      BY <2>1, <3>2, HearWindow
  <2>4. Tell(WindowMsg(w))
    BY <1>10, <2>2 DEF Resize, Tell
  <2>5. heard' \in HeardState
    BY <2>3, <2>4, TellType DEF TypeOK
  <2>6. QED
    BY <1>10, <2>1, <2>5 DEF TypeOK, Resize, serial, history
<1>11. ASSUME NEW n \in 1..Len(down), ReaderTakes(n) PROVE TypeOK'
  <2>1. down \in Seq(Byte) /\ n \in 0..Len(down)
    BY LenProperties DEF TypeOK, Bytes
  <2>2. SubSeq(down, 1, n) \in Bytes /\ SubSeq(down, n + 1, Len(down)) \in Bytes
    BY <2>1, Cut DEF Bytes
  <2>3. held' \in Bytes /\ down' \in Bytes
    BY <1>11, <2>2 DEF ReaderTakes
  <2>4. QED
    BY <1>11, <2>3 DEF TypeOK, ReaderTakes, telnet, history
<1>12. CASE ReaderSends
  <2>1. protocol = "serial"
    BY <1>12 DEF ReaderSends, TypeOK
  <2>2. inq' \in Seq(Bytes) /\ held' \in Bytes /\ reader' \in {"running", "stopped"}
    BY <1>12, SmallSequences DEF ReaderSends, TypeOK
  <2>3. QED
    BY <1>12, <2>1, <2>2 DEF TypeOK, ReaderSends, wire, telnet, history
<1>13. CASE ReaderFails
  BY <1>13 DEF TypeOK, ReaderFails, wire, telnet, history
<1>14. CASE WriterWrites
  <2>1. /\ protocol = "serial" /\ Head(outq) \in Bytes /\ Tail(outq) \in Seq(Bytes)
    BY <1>14, HeadTailProperties DEF WriterWrites, TypeOK
  <2>2. heard' \in HeardState
    BY <1>14, <2>1, TellType DEF WriterWrites, TypeOK
  <2>3. QED
    BY <1>14, <2>1, <2>2 DEF TypeOK, WriterWrites, telnet, history
<1>15. CASE WriterFails
  BY <1>15, SmallSequences DEF TypeOK, WriterFails, wire, telnet, history
<1>16. CASE WriterEnds
  BY <1>16 DEF TypeOK, WriterEnds, wire, telnet, history
<1>17. CASE SerialRead
  <2>1. protocol = "serial" /\ (answering = <<>>)
    BY <1>17 DEF SerialRead, OverSerial, TypeOK
  <2>2. CASE inq # <<>> /\ Returned(Head(inq)) /\ inq' = Tail(inq) /\ UNCHANGED status
    <3>1. Head(inq) \in Bytes /\ Tail(inq) \in Seq(Bytes) /\ got \in Bytes
      BY <2>2, HeadTailProperties DEF TypeOK
    <3>2. got' \in Bytes /\ inq' \in Seq(Bytes)
      BY <2>2, <3>1, SmallSequences DEF Returned
    <3>3. QED
      BY <1>17, <2>1, <2>2, <3>2 DEF TypeOK, SerialRead, wire, telnet
  <2>3. CASE /\ inq = <<>> /\ reader = "stopped" /\ status' = "disconnected" /\ UNCHANGED <<got, inq>>
    BY <1>17, <2>1, <2>3 DEF TypeOK, SerialRead, wire, telnet
  <2>4. QED
    BY <1>17, <2>2, <2>3 DEF SerialRead
<1>18. ASSUME NEW b \in Keys, SerialWrite(b) PROVE TypeOK'
  <2>1. protocol = "serial" /\ answering = <<>> /\ b \in Byte
    BY <1>1, <1>18 DEF SerialWrite, OverSerial, TypeOK
  <2>2. /\ wrote' \in Bytes /\ outq' \in Seq(Bytes) /\ status' \in {"connected", "disconnected"}
    BY <1>18, <2>1, SmallSequences DEF SerialWrite, TypeOK
  <2>3. QED
    BY <1>18, <2>1, <2>2 DEF TypeOK, SerialWrite, wire, telnet
<1>19. CASE Disconnect
  BY <1>19, SmallSequences DEF TypeOK, Disconnect, Idle, wire, telnet, history
<1>20. CASE UNCHANGED vars
  BY <1>20 DEF TypeOK, vars, wire, serial, telnet, history
<1>21. QED
  BY <1>2, <1>4, <1>5, <1>6, <1>7, <1>8, <1>9, <1>10, <1>11, <1>12, <1>13, <1>14, <1>15, <1>16, <1>17,
     <1>18, <1>19, <1>20 DEF Next, Remote, Reader, Writer

-----------------------------------------------------------------------------
(***************************************************************************)
(* Telnet: what each step makes of Told and Read.                          *)
(***************************************************************************)

LEMMA ToldIn ==
  ASSUME TypeOK
  PROVE  Told \in HeardState /\ heard \in HeardState /\ (Idle => Told = heard)
<1>1. heard \in HeardState
  BY DEF TypeOK
<1>2. Left \in Seq(Bytes) /\ (Idle => Left = <<>>)
  BY LeftType
<1>3. Told \in HeardState
  BY <1>1, <1>2, HearAllIn DEF Told
<1>4. HearAll(heard, <<>>) = heard
  BY <1>1, HearAllNone
<1>5. QED
  BY <1>1, <1>2, <1>3, <1>4 DEF Told

LEMMA ReadIn ==
  ASSUME TypeOK
  PROVE  /\ got \o Pending \in Bytes /\ Begin \in AheadState /\ Read \in AheadState
         /\ Read = Fold(meantStep, Begin, down) /\ down \in Bytes
         /\ Begin = Ahead(parser.mode, parser.cmd, parser.buf, got \o Pending, Told.answers)
<1> DEFINE d == got \o Pending
<1>1. /\ parser.mode \in Modes /\ parser.cmd \in Byte /\ parser.buf \in Bytes /\ got \in Bytes
      /\ down \in Bytes
  BY DEF TypeOK
<1>2. d \in Bytes
  BY <1>1, LeftType, SmallSequences
<1>3. Told.answers \in Seq(Bytes)
  BY ToldIn, HeardOf
<1> HIDE DEF d
<1>4. Ahead(parser.mode, parser.cmd, parser.buf, d, Told.answers) \in AheadState
  BY <1>1, <1>2, <1>3, AheadIn
<1>5. Begin \in AheadState
  BY <1>4 DEF Begin, d
<1>6. Read \in AheadState
  BY <1>1, <1>5, MeantIn DEF Read
<1>7. QED
  BY <1>1, <1>2, <1>5, <1>6 DEF Read, Begin, d

LEMMA Appended ==
  ASSUME NEW S, NEW q \in Seq(S), NEW e \in S
  PROVE  LET qe == Append(q, e) IN
         Len(qe) = Len(q) + 1 /\ qe[Len(q) + 1] = e /\ \A i \in 1..Len(q) : qe[i] = q[i]
BY AppendProperties

LEMMA MatchesAppend ==
  ASSUME NEW rs \in Seq(Bytes), NEW ys \in Seq(Bytes), Matches(rs, ys),
         NEW r \in Bytes, NEW y \in Bytes, InKind(r, y)
  PROVE  Matches(Append(rs, r), Append(ys, y))
<1> DEFINE rsr == Append(rs, r)
           ysy == Append(ys, y)
<1>1. Len(rs) \in Nat /\ Len(ys) = Len(rs)
  BY LenProperties DEF Matches
<1>2. Len(rsr) = Len(rs) + 1 /\ rsr[Len(rs) + 1] = r /\ \A i \in 1..Len(rs) : rsr[i] = rs[i]
  BY Appended
<1>3. Len(ysy) = Len(ys) + 1 /\ ysy[Len(ys) + 1] = y /\ \A i \in 1..Len(ys) : ysy[i] = ys[i]
  BY Appended
<1> HIDE DEF rsr, ysy
<1>4. \A i \in 1..Len(rsr) : i \in 1..Len(rs) \/ i = Len(rs) + 1
  BY <1>1, <1>2
<1>5. ASSUME NEW i \in 1..Len(rsr) PROVE InKind(rsr[i], ysy[i])
  <2>1. CASE i \in 1..Len(rs)
    <3>1. rsr[i] = rs[i] /\ ysy[i] = ys[i]
      BY <1>1, <1>2, <1>3, <2>1
    <3>2. InKind(rs[i], ys[i])
      BY <2>1 DEF Matches
    <3>3. QED
      BY <3>1, <3>2
  <2>2. CASE i = Len(rs) + 1
    BY <1>1, <1>2, <1>3, <2>2
  <2>3. QED
    BY <1>4, <2>1, <2>2
<1>6. Len(ysy) = Len(rsr)
  BY <1>1, <1>2, <1>3
<1>7. Matches(rsr, ysy)
  BY <1>5, <1>6 DEF Matches
<1>8. QED
  BY <1>7 DEF rsr, ysy

\* The remote takes back only what the client may have agreed to, and so every
\* request of it comes to one answer, in kind.
LEMMA AgreedOnly ==
  ASSUME TypeOK, TelnetInv, NEW cmd \in WILL..DONT, NEW opt \in Byte,
         cmd \in {DONT, WONT} => Agreed(cmd, opt)
  PROVE  /\ cmd = DONT => opt \in {SGA, NAWS, TTYPE}
         /\ cmd = WONT => opt \in {SGA, ECHO}
<1> DEFINE a == heard.answers
<1>1. /\ Before(a, Told.answers) /\ Honest(Told.answers) /\ Len(a) \in Nat /\ DOMAIN a = 1..Len(a)
  <2>1. heard \in HeardState /\ a \in Seq(Bytes) /\ Left \in Seq(Bytes)
    BY ToldIn, HeardOf, LeftType
  <2>2. Before(a, Told.answers)
    BY <2>1, HearAllLater DEF Told
  <2>3. QED
    BY <2>1, <2>2, LenProperties DEF TelnetInv, Sound
<1>2. \A i \in 1..Len(a) : i \in 1..Len(Told.answers) /\ Told.answers[i] = a[i]
  BY <1>1 DEF Before
<1> HIDE DEF a
<1>3. \A i \in 1..Len(a) : /\ a[i][1] = WILL => a[i][2] \in {SGA, NAWS, TTYPE}
                           /\ a[i][1] = DO => a[i][2] \in {SGA, ECHO}
  BY <1>1, <1>2 DEF Honest
<1>4. WILL # DO /\ WILL # DONT /\ WONT # DO /\ DO # DONT /\ DONT # WONT
  BY CodesAre DEF Codes
<1>5. CASE cmd = DONT
  <2>1. \E i \in DOMAIN a : a[i][1] \in {WILL, WONT} /\ a[i][2] = opt /\ a[i][1] \in {WILL, DO}
    BY <1>5 DEF Agreed, a
  <2>2. PICK i \in 1..Len(a) : a[i][1] = WILL /\ a[i][2] = opt
    BY <1>1, <1>4, <2>1
  <2>3. QED
    BY <1>3, <1>4, <1>5, <2>2
<1>6. CASE cmd = WONT
  <2>1. \E i \in DOMAIN a : a[i][1] \in {DO, DONT} /\ a[i][2] = opt /\ a[i][1] \in {WILL, DO}
    BY <1>4, <1>6 DEF Agreed, a
  <2>2. PICK i \in 1..Len(a) : a[i][1] = DO /\ a[i][2] = opt
    BY <1>1, <1>4, <2>1
  <2>3. QED
    BY <1>3, <1>4, <1>6, <2>2
<1>7. QED
  BY <1>5, <1>6

LEMMA AnswerInKind ==
  ASSUME NEW cmd \in WILL..DONT, NEW opt \in Byte,
         cmd = DONT => opt \in {SGA, NAWS, TTYPE}, cmd = WONT => opt \in {SGA, ECHO}
  PROVE  \E y \in Bytes : Answer(cmd, opt) = <<y>> /\ InKind(<<cmd, opt>>, y)
<1>1. /\ WILL # WONT /\ WILL # DO /\ WILL # DONT /\ WONT # DO /\ WONT # DONT /\ DO # DONT
      /\ WILL \in Byte /\ WONT \in Byte /\ DO \in Byte /\ DONT \in Byte
  BY CodesAre DEF Codes, Byte
<1>2. cmd \in {WILL, WONT, DO, DONT}
  BY CodesAre DEF Codes
<1> DEFINE x == CASE cmd = DO -> (IF opt \in {SGA, NAWS, TTYPE} THEN WILL ELSE WONT)
                  [] cmd = WILL -> (IF opt \in {SGA, ECHO} THEN DO ELSE DONT)
                  [] cmd = DONT -> WONT
                  [] OTHER -> DONT
           y == <<x, opt>>
<1>3. Answer(cmd, opt) = <<<<x, opt>>>>
  BY <1>1, <1>2 DEF Answer
<1>4. /\ x \in Byte
      /\ cmd = DO => x \in {WILL, WONT}
      /\ cmd = WILL => x \in {DO, DONT}
      /\ cmd = DONT => x = WONT
      /\ cmd = WONT => x = DONT
  BY <1>1, <1>2
<1> HIDE DEF x
<1>5. y \in Bytes /\ y[1] = x /\ y[2] = opt
  BY <1>4 DEF Bytes
<1>6. InKind(<<cmd, opt>>, y)
  BY <1>1, <1>2, <1>4, <1>5 DEF InKind
<1>7. QED
  BY <1>3, <1>5, <1>6

\* The steps that leave both ends of the connection as they are.
LEMMA TelnetSame ==
  ASSUME TelnetInv,
         UNCHANGED <<down, heard, parser, answering, got, sent, asked, wrote, cols>>
  PROVE  TelnetInv'
<1>1. Left' = Left /\ Pending' = Pending
  BY DEF Left, Pending, Idle
<1>2. Told' = Told
  BY <1>1 DEF Told
<1>3. Begin' = Begin
  BY <1>1, <1>2 DEF Begin
<1>4. Read' = Read
  BY <1>3 DEF Read
<1>5. QED
  BY <1>2, <1>4 DEF TelnetInv, Sound

\* The steps of the remote.
LEMMA RemoteSame ==
  ASSUME TypeOK, TelnetInv, NEW q \in Bytes, down' = down \o q,
         UNCHANGED <<heard, parser, answering, got, wrote, cols>>
  PROVE  Sound(Told)' /\ Read' = Fold(meantStep, Read, q)
<1>1. Left' = Left /\ Pending' = Pending
  BY DEF Left, Pending, Idle
<1>2. Told' = Told
  BY <1>1 DEF Told
<1>3. Begin' = Begin
  BY <1>1, <1>2 DEF Begin
<1>4. Read' = Fold(meantStep, Begin, down \o q)
  BY <1>3 DEF Read
<1>5. Fold(meantStep, Begin, down \o q) = Fold(meantStep, Fold(meantStep, Begin, down), q)
  BY ReadIn, MeantConcat
<1>6. Read = Fold(meantStep, Begin, down)
  BY ReadIn
<1>7. QED
  BY <1>2, <1>4, <1>5, <1>6 DEF TelnetInv, Sound

LEMMA RemoteSendsKeeps ==
  ASSUME TypeOK, protocol = "telnet", TelnetInv, NEW b \in Byte, RemoteSends(b)
  PROVE  TelnetInv'
<1> DEFINE q == Escaped(b)
<1>1. q \in Bytes
  BY SmallSequences
<1>2. Read \in AheadState /\ Read.mode = "data" /\ Read.data = sent /\ Matches(asked, Read.answers)
  BY ReadIn DEF TelnetInv
<1>3. Fold(meantStep, Read, q) = Ahead("data", Read.cmd, Read.buf, Append(Read.data, b), Read.answers)
  BY <1>2, MeantKey
<1>4. /\ down' = down \o q /\ sent' = Append(sent, b) /\ asked' = asked
      /\ UNCHANGED <<heard, parser, answering, got, wrote, cols>>
  BY DEF RemoteSends, telnet
<1> HIDE DEF q
<1>5. Sound(Told)' /\ Read' = Fold(meantStep, Read, q)
  BY <1>1, <1>4, RemoteSame
<1> DEFINE d == Append(Read.data, b)
<1>6. d = sent'
  BY <1>2, <1>4
<1> HIDE DEF d
<1>7. Read' = Ahead("data", Read.cmd, Read.buf, d, Read.answers)
  BY <1>3, <1>5 DEF d
<1>8. Read'.mode = "data" /\ Read'.data = d /\ Read'.answers = Read.answers
  BY <1>7, AheadFields
<1>9. Matches(asked', Read'.answers)
  BY <1>2, <1>4, <1>8
<1>10. QED
  BY <1>5, <1>6, <1>8, <1>9 DEF TelnetInv

\* A request, with the answer it comes to.
LEMMA AsksKeeps ==
  ASSUME TypeOK, TelnetInv, NEW q \in Bytes, NEW r \in Bytes, RemoteAsks(q, r),
         NEW c, NEW u, NEW y \in Bytes, InKind(r, y),
         Fold(meantStep, Read, q) = Ahead("data", c, u, Read.data, Read.answers \o <<y>>)
  PROVE  TelnetInv'
<1> DEFINE one == <<y>>
           a   == Read.answers
           ay  == Append(a, y)
<1>1. Read \in AheadState /\ Read.data = sent /\ Matches(asked, a)
  BY ReadIn DEF TelnetInv
<1>2. a \in Seq(Bytes) /\ asked \in Seq(Bytes)
  BY <1>1, AheadOf DEF TypeOK
<1> HIDE DEF a
<1>3. a \o one = ay
  BY <1>2, AppendIsConcat
<1>4. Matches(Append(asked, r), ay)
  BY <1>1, <1>2, MatchesAppend
<1>5. /\ down' = down \o q /\ asked' = Append(asked, r) /\ sent' = sent
      /\ UNCHANGED <<heard, parser, answering, got, wrote, cols>>
  BY DEF RemoteAsks, telnet
<1>6. Sound(Told)' /\ Read' = Fold(meantStep, Read, q)
  BY <1>5, RemoteSame
<1>7. Fold(meantStep, Read, q) = Ahead("data", c, u, Read.data, ay)
  BY <1>3 DEF a
<1> HIDE DEF ay
<1>8. Read'.mode = "data" /\ Read'.data = Read.data /\ Read'.answers = ay
  BY <1>6, <1>7, AheadFields
<1>9. Matches(asked', Read'.answers)
  BY <1>4, <1>5, <1>8
<1>10. QED
  BY <1>1, <1>5, <1>6, <1>8, <1>9 DEF TelnetInv

LEMMA NegotiatesKeeps ==
  ASSUME TypeOK, TelnetInv, RemoteNegotiates
  PROVE  TelnetInv'
<1>1. PICK cmd \in WILL..DONT, opt \in Options :
        /\ cmd \in {DONT, WONT} => Agreed(cmd, opt)
        /\ RemoteAsks(<<IAC, cmd, opt>>, <<cmd, opt>>)
  BY DEF RemoteNegotiates
<1> DEFINE q == <<IAC, cmd, opt>>
           r == <<cmd, opt>>
<1>2. opt \in Byte /\ cmd \in Byte
  BY BytesAssumption, CodesAre DEF Codes, Byte
<1>3. q \in Bytes /\ r \in Bytes
  BY <1>2, CodesAre DEF Codes, Bytes, Byte
<1>4. (cmd = DONT => opt \in {SGA, NAWS, TTYPE}) /\ (cmd = WONT => opt \in {SGA, ECHO})
  BY <1>1, <1>2, AgreedOnly
<1>5. PICK y \in Bytes : Answer(cmd, opt) = <<y>> /\ InKind(r, y)
  BY <1>2, <1>4, AnswerInKind
<1>6. Read \in AheadState /\ Read.mode = "data"
  BY ReadIn DEF TelnetInv
<1>7. Fold(meantStep, Read, q) =
        Ahead("data", cmd, Read.buf, Read.data, Read.answers \o Answer(cmd, opt))
  BY <1>2, <1>6, MeantRequest
<1>8. RemoteAsks(q, r)
  BY <1>1
<1> HIDE DEF q, r
<1>9. Fold(meantStep, Read, q) = Ahead("data", cmd, Read.buf, Read.data, Read.answers \o <<y>>)
  BY <1>5, <1>7
<1>10. QED
  BY <1>3, <1>5, <1>8, <1>9, AsksKeeps

LEMMA WantsTypeKeeps ==
  ASSUME TypeOK, TelnetInv, RemoteWantsType
  PROVE  TelnetInv'
<1> DEFINE q == <<IAC, SB, TTYPE, SEND, IAC, SE>>
           r == <<SB, TTYPE>>
           y == <<SB, TTYPE, IS, 120>>
           none == <<>>
<1>1. q \in Bytes /\ r \in Bytes /\ y \in Bytes
  BY CodesAre DEF Codes, Bytes, Byte
<1>2. InKind(r, y)
  BY CodesAre DEF Codes, InKind
<1>3. Read \in AheadState /\ Read.mode = "data"
  BY ReadIn DEF TelnetInv
<1>4. Fold(meantStep, Read, q) = Ahead("data", Read.cmd, none, Read.data, Read.answers \o <<y>>)
  BY <1>3, MeantTypeRequest
<1>5. RemoteAsks(q, r)
  BY DEF RemoteWantsType
<1> HIDE DEF q, r, y, none
<1>6. QED
  BY <1>1, <1>2, <1>4, <1>5, AsksKeeps

\* A read, wherever it cuts what is on its way.
LEMMA ReadFollows ==
  ASSUME TypeOK, TelnetInv, Idle
  PROVE  Follows(Start(parser), Begin, got, heard, wrote)
<1> DEFINE none == <<>>
           m == parser.mode
           c == parser.cmd
           u == parser.buf
           a == heard.answers
           z == got \o none
<1>1. none \in Bytes /\ none \in Seq(Bytes) /\ got \in Bytes
  BY SmallSequences DEF TypeOK
<1>2. Start(parser) = Parser(m, c, u, none, none) /\ Start(parser) \in ParserState
  BY StartIn
<1>3. Pending = none /\ Told = heard /\ heard \in HeardState
  BY LeftType, ToldIn
<1>4. HearAll(heard, none) = heard
  BY <1>3, HearAllNone
<1>5. Begin = Ahead(m, c, u, z, a) /\ Begin \in AheadState
  BY <1>3, ReadIn
<1>6. Stands(heard, wrote, a)
  BY <1>3 DEF TelnetInv, Sound, Stands
<1> HIDE DEF m, c, u, a, none
<1>7. Stands(HearAll(heard, none), wrote, a)
  BY <1>4, <1>6
<1>8. z = got \o none
  OBVIOUS
<1> HIDE DEF z
<1>9. QED
  BY <1>2, <1>5, <1>7, <1>8, FollowsIs

LEMMA TcpReadKeeps ==
  ASSUME TypeOK, protocol = "telnet", TelnetInv, NEW n \in 1..Len(down), TcpRead(n)
  PROVE  TelnetInv'
<1> DEFINE bytes == SubSeq(down, 1, n)
           rest  == SubSeq(down, n + 1, Len(down))
           p     == Parse(bytes)
           e     == Fold(meantStep, Begin, bytes)
           d     == got \o p.data
<1>1. /\ bytes \in Bytes /\ rest \in Bytes /\ bytes \o rest = down
  <2>1. down \in Seq(Byte) /\ n \in 0..Len(down)
    BY LenProperties DEF TypeOK, Bytes
  <2>2. QED
    BY <2>1, Cut DEF Bytes
<1>2. /\ Idle /\ down' = rest /\ heard' = heard /\ sent' = sent /\ asked' = asked
      /\ wrote' = wrote /\ cols' = cols
      /\ parser' = [mode |-> p.mode, cmd |-> p.cmd, buf |-> p.buf]
      /\ IF p.responses = <<>> THEN got' = d /\ answering' = answering
         ELSE answering' = <<[data |-> p.data, left |-> p.responses]>> /\ got' = got
  BY DEF TcpRead, Returned, wire
<1> HIDE DEF bytes, rest
<1>3. got \in Bytes /\ heard \in HeardState /\ SizeOK(cols) /\ Begin \in AheadState
  BY ReadIn DEF TypeOK
<1>4. Follows(p, e, got, heard, wrote)
  <2>1. Follows(Start(parser), Begin, got, heard, wrote)
    BY <1>2, ReadFollows
  <2>2. Follows(Fold(parseStep, Start(parser), bytes), e, got, heard, wrote)
    BY <1>1, <1>3, <2>1, FollowsAll
  <2>3. QED
    BY <1>1, <2>2, ParseIn
<1> HIDE DEF e
<1>5. /\ e \in AheadState /\ e = Ahead(p.mode, p.cmd, p.buf, d, e.answers) /\ p \in ParserState
      /\ Stands(HearAll(heard, p.responses), wrote, e.answers)
  BY <1>4 DEF Follows
<1>6. p.data \in Bytes /\ p.responses \in Seq(Bytes) /\ d \in Bytes
  BY <1>3, <1>5, ParserOf, SmallSequences
<1> HIDE DEF p
<1>7. /\ parser'.mode = p.mode /\ parser'.cmd = p.cmd /\ parser'.buf = p.buf
  BY <1>2
<1>8. Left' = p.responses /\ (got \o Pending)' = d
  <2>1. CASE p.responses = <<>>
    <3>1. Idle' /\ got' = d
      BY <1>2, <2>1 DEF Idle
    <3>2. Left' = <<>> /\ Pending' = <<>>
      BY <3>1 DEF Left, Pending
    <3>3. d \o <<>> = d
      BY <1>6, ConcatEmptySeq DEF Bytes
    <3>4. QED
      BY <2>1, <3>1, <3>2, <3>3
  <2>2. CASE p.responses # <<>>
    <3>1. ~Idle' /\ answering'[1] = [data |-> p.data, left |-> p.responses] /\ got' = got
      <4>1. answering' = <<[data |-> p.data, left |-> p.responses]>> /\ got' = got
        BY <1>2, <2>2
      <4>2. QED
        BY <4>1 DEF Idle
    <3>2. Left' = p.responses /\ Pending' = p.data
      BY <3>1 DEF Left, Pending
    <3>3. QED
      BY <3>1, <3>2 DEF d
  <2>3. QED
    BY <2>1, <2>2
<1> HIDE DEF d
<1>9. Told' = HearAll(heard, p.responses)
  BY <1>2, <1>8 DEF Told
<1>10. Sound(Told)' /\ Told'.answers = e.answers
  BY <1>2, <1>5, <1>9 DEF Stands, Sound
<1>11. Begin' = e
  <2>1. Begin' = Ahead(parser'.mode, parser'.cmd, parser'.buf, (got \o Pending)', Told'.answers)
    BY DEF Begin
  <2>2. QED
    BY <1>5, <1>7, <1>8, <1>10, <2>1
<1>12. Read' = Read
  <2>1. Read' = Fold(meantStep, e, rest)
    BY <1>2, <1>11 DEF Read
  <2>2. Fold(meantStep, Begin, bytes \o rest) = Fold(meantStep, Fold(meantStep, Begin, bytes), rest)
    BY <1>1, <1>3, MeantConcat
  <2>3. QED
    BY <1>1, <2>1, <2>2 DEF Read, e
<1>13. QED
  BY <1>2, <1>10, <1>12 DEF TelnetInv

LEMMA WriteResponseKeeps ==
  ASSUME TypeOK, protocol = "telnet", TelnetInv, WriteResponse
  PROVE  TelnetInv'
<1>1. /\ ~Idle /\ Left # <<>> /\ Left \in Seq(Bytes) /\ Pending \in Bytes /\ Left = answering[1].left
      /\ Pending = answering[1].data
      /\ Head(Left) \in Bytes /\ Tail(Left) \in Seq(Bytes)
      /\ Len(Tail(Left)) = Len(Left) - 1 /\ Len(Left) \in Nat
  BY LeftType DEF WriteResponse
<1>2. /\ heard' = Hear(heard, Head(Left))
      /\ UNCHANGED <<down, parser, cols, sent, asked, wrote>>
  BY <1>1 DEF WriteResponse, Tell
<1>3. got \in Bytes /\ heard \in HeardState
  BY DEF TypeOK
<1> DEFINE d == got \o Pending
           rest == Tail(Left)
<1>4. d \in Bytes
  BY <1>1, <1>3, SmallSequences
<1>5. Left' = rest /\ (got \o Pending)' = d
  <2>1. CASE Len(Left) = 1
    <3>1. answering' = <<>> /\ got' = d
      BY <1>1, <2>1 DEF WriteResponse, Returned
    <3>2. Left' = <<>> /\ Pending' = <<>>
      BY <3>1 DEF Left, Pending, Idle
    <3>3. d \o <<>> = d
      BY <1>4, ConcatEmptySeq DEF Bytes
    <3>4. rest = <<>>
      <4>1. Len(rest) = 0 /\ rest \in Seq(Bytes)
        BY <1>1, <2>1
      <4> HIDE DEF rest
      <4>2. QED
        BY <4>1, EmptySeq
    <3> HIDE DEF d, rest
    <3>5. QED
      BY <3>1, <3>2, <3>3, <3>4
  <2>2. CASE Len(Left) # 1
    <3> DEFINE a == [answering[1] EXCEPT !.left = rest]
    <3>1. answering' = <<a>> /\ got' = got
      BY <1>1, <2>2 DEF WriteResponse
    <3>2. answering[1] \in [data : Bytes, left : Seq(Bytes)]
      BY <1>1 DEF TypeOK, Idle
    <3>3. a.left = rest /\ a.data = Pending
      BY <1>1, <3>2
    <3> HIDE DEF a, rest
    <3>4. ~Idle' /\ answering'[1] = a
      BY <3>1 DEF Idle
    <3>5. Left' = rest /\ Pending' = Pending
      BY <3>3, <3>4 DEF Left, Pending
    <3>6. QED
      BY <3>1, <3>5
  <2>3. QED
    BY <2>1, <2>2
<1> HIDE DEF d
<1>6. Told' = Told
  <2>1. HearAll(heard, Left) = HearAll(Hear(heard, Head(Left)), Tail(Left))
    BY <1>1, <1>3, HearAllFirst
  <2>2. Told' = HearAll(Hear(heard, Head(Left)), rest)
    BY <1>2, <1>5 DEF Told
  <2>3. QED
    BY <2>1, <2>2 DEF Told
<1>7. Begin' = Begin
  BY <1>2, <1>5, <1>6 DEF Begin, d
<1>8. Read' = Read
  BY <1>2, <1>7 DEF Read
<1>9. QED
  BY <1>2, <1>6, <1>8 DEF TelnetInv, Sound

\* The client's own keys and its window.
LEMMA TellsKeeps ==
  ASSUME TypeOK, TelnetInv, Idle, UNCHANGED <<down, parser, answering, got, sent, asked>>,
         NEW d, NEW s, Has(heard', d, heard.answers, s), wrote' = d,
         WillTellSize(heard.answers) => s = cols'
  PROVE  TelnetInv'
<1>1. Left = <<>> /\ Left' = <<>> /\ Pending' = Pending /\ Told = heard
  BY ToldIn DEF Left, Pending, Idle
<1>2. heard' \in HeardState /\ heard'.mode = "data" /\ heard'.data = d /\ heard'.answers = heard.answers
      /\ heard'.size = s
  BY DEF Has
<1>3. Told' = heard'
  <2>1. HearAll(heard', <<>>) = heard'
    BY <1>2, HearAllNone
  <2>2. QED
    BY <1>1, <2>1 DEF Told
<1>4. Begin' = Begin
  BY <1>1, <1>2, <1>3 DEF Begin
<1>5. Read' = Read
  BY <1>4 DEF Read
<1>6. Sound(Told)'
  BY <1>1, <1>2, <1>3 DEF Sound, TelnetInv
<1>7. QED
  BY <1>5, <1>6 DEF TelnetInv

LEMMA TcpWriteKeeps ==
  ASSUME TypeOK, protocol = "telnet", TelnetInv, NEW b \in Byte, TcpWrite(b)
  PROVE  TelnetInv'
<1>1. /\ Idle /\ UNCHANGED <<down, parser, answering, got, sent, asked, cols>>
      /\ wrote' = Append(wrote, b) /\ heard' = Hear(heard, Escaped(b))
  BY DEF TcpWrite, telnet, Tell
<1>2. /\ heard \in HeardState /\ heard.mode = "data" /\ heard.data = wrote
      /\ (WillTellSize(heard.answers) => heard.size = cols)
  BY <1>1, ToldIn DEF TelnetInv, Sound
<1>3. Has(heard, wrote, heard.answers, heard.size)
  BY <1>2 DEF Has
<1>4. Has(Hear(heard, Escaped(b)), Append(wrote, b), heard.answers, heard.size)
  BY <1>3, HearKey
<1> DEFINE d == Append(wrote, b)
           s == heard.size
<1>5. Has(heard', d, heard.answers, s) /\ wrote' = d /\ (WillTellSize(heard.answers) => s = cols')
  BY <1>1, <1>2, <1>4
<1> HIDE DEF d, s
<1>6. QED
  BY <1>1, <1>5, TellsKeeps

LEMMA ResizeKeeps ==
  ASSUME TypeOK, protocol = "telnet", TelnetInv, NEW w \in Widths, Resize(w)
  PROVE  TelnetInv'
<1>1. /\ Idle /\ UNCHANGED <<down, parser, answering, got, sent, asked, wrote>> /\ cols' = w
  BY DEF Resize, history
<1>2. SizeOK(w)
  BY WidthsAssumption DEF SizeOK
<1>3. NawsMsg' = WindowMsg(w)
  BY <1>1 DEF NawsMsg, WindowMsg
<1>4. heard' = Hear(heard, WindowMsg(w))
  BY <1>3 DEF Resize, Tell
<1>5. heard \in HeardState /\ heard.mode = "data" /\ heard.data = wrote
  BY <1>1, ToldIn DEF TelnetInv, Sound
<1>6. Has(heard, wrote, heard.answers, heard.size)
  BY <1>5 DEF Has
<1>7. Has(Hear(heard, WindowMsg(w)), wrote, heard.answers, w)
  BY <1>2, <1>6, HearWindow
<1>8. Has(heard', wrote, heard.answers, w) /\ wrote' = wrote
      /\ (WillTellSize(heard.answers) => w = cols')
  BY <1>1, <1>4, <1>7
<1>9. QED
  BY <1>1, <1>8, TellsKeeps

-----------------------------------------------------------------------------
(***************************************************************************)
(* Raw TCP and serial lines.                                               *)
(***************************************************************************)

LEMMA PlainTell ==
  ASSUME protocol # "telnet", heard \in HeardState, NEW q \in Bytes, Tell(q)
  PROVE  /\ heard'.data = heard.data \o q /\ heard'.answers = heard.answers
         /\ heard.data \in Bytes
<1> DEFINE d == heard.data \o q
<1>1. heard' = [heard EXCEPT !.data = d]
  BY DEF Tell
<1> HIDE DEF d
<1>2. heard'.data = d /\ heard'.answers = heard.answers
  BY <1>1 DEF HeardState
<1>3. QED
  BY <1>2, HeardOf DEF d

LEMMA JoinSteps == StepOf(Bytes, Bytes, joinStep)
<1>1. \A s \in Bytes, t \in Bytes : s \o t \in Bytes
  BY SmallSequences
<1>2. QED
  BY <1>1 DEF StepOf, joinStep

LEMMA JoinIs ==
  ASSUME NEW s \in Bytes, NEW t \in Bytes
  PROVE  After(joinStep, s, t) = s \o t /\ s \o t \in Bytes
BY SmallSequences DEF After, joinStep

LEMMA JoinedIn ==
  ASSUME NEW s \in Bytes, NEW q \in Seq(Bytes)
  PROVE  Joined(s, q) \in Bytes
BY JoinSteps, FoldTrace DEF Joined

LEMMA JoinedNone ==
  ASSUME NEW s \in Bytes
  PROVE  Joined(s, <<>>) = s
BY JoinSteps, FoldEmpty DEF Joined

LEMMA JoinedAppend ==
  ASSUME NEW s \in Bytes, NEW q \in Seq(Bytes), NEW t \in Bytes
  PROVE  Joined(s, Append(q, t)) = Joined(s, q) \o t
<1>1. Fold(joinStep, s, Append(q, t)) = After(joinStep, Fold(joinStep, s, q), t)
  BY JoinSteps, FoldAppend
<1>2. Joined(s, q) \in Bytes
  BY JoinedIn
<1>3. QED
  BY <1>1, <1>2, JoinIs DEF Joined

LEMMA JoinedFirst ==
  ASSUME NEW s \in Bytes, NEW q \in Seq(Bytes), q # <<>>
  PROVE  Joined(s, q) = Joined(s \o Head(q), Tail(q))
<1>1. Fold(joinStep, s, q) = Fold(joinStep, After(joinStep, s, Head(q)), Tail(q))
  BY JoinSteps, FoldFirst
<1>2. Head(q) \in Bytes
  BY HeadTailProperties
<1>3. QED
  BY <1>1, <1>2, JoinIs DEF Joined

LEMMA JoinedLater ==
  ASSUME NEW s \in Bytes, NEW q \in Seq(Bytes)
  PROVE  Before(s, Joined(s, q))
<1> DEFINE R == {t \in Bytes : Before(s, t)}
<1>1. s \in R
  BY LenProperties, BeforeSelf DEF Bytes
<1>2. ASSUME NEW x \in R, NEW t \in Bytes PROVE After(joinStep, x, t) \in R
  <2>1. x \in Bytes /\ Before(s, x)
    OBVIOUS
  <2>2. After(joinStep, x, t) = x \o t /\ x \o t \in Bytes
    BY <2>1, JoinIs
  <2>3. Before(s, x \o t)
    BY <2>1, BeforeConcat DEF Bytes
  <2>4. QED
    BY <2>2, <2>3
<1>3. R \in SUBSET Bytes
  OBVIOUS
<1> HIDE DEF R
<1>4. Fold(joinStep, s, q) \in R
  BY <1>1, <1>2, <1>3, JoinSteps, FoldKeeps
<1>5. QED
  BY <1>4 DEF R, Joined

LEMMA PlainOne ==
  ASSUME NEW s \in Bytes, NEW b \in Byte
  PROVE  s \o <<b>> = Append(s, b)
<1> DEFINE one == <<b>>
<1>1. Append(s, b) = s \o one
  BY AppendIsConcat DEF Bytes
<1>2. QED
  BY <1>1

LEMMA Associates ==
  ASSUME NEW s \in Bytes, NEW t \in Bytes, NEW u \in Bytes
  PROVE  (s \o t) \o u = s \o (t \o u)
BY ConcatAssociative DEF Bytes

\* Raw TCP.
LEMMA RawReadKeeps ==
  ASSUME TypeOK, protocol = "raw", RawInv, NEW n \in 1..Len(down), TcpRead(n)
  PROVE  RawInv'
<1> DEFINE bytes == SubSeq(down, 1, n)
           rest  == SubSeq(down, n + 1, Len(down))
<1>1. /\ bytes \in Bytes /\ rest \in Bytes /\ bytes \o rest = down
  <2>1. down \in Seq(Byte) /\ n \in 0..Len(down)
    BY LenProperties DEF TypeOK, Bytes
  <2>2. QED
    BY <2>1, Cut DEF Bytes
<1>2. got' = got \o bytes /\ down' = rest /\ sent' = sent /\ heard' = heard /\ wrote' = wrote
  BY DEF TcpRead, Returned
<1> HIDE DEF bytes, rest
<1>3. got \in Bytes
  BY DEF TypeOK
<1>4. (got \o bytes) \o rest = got \o (bytes \o rest)
  BY <1>1, <1>3, Associates
<1>5. QED
  BY <1>1, <1>2, <1>4 DEF RawInv

LEMMA RawSendsKeeps ==
  ASSUME TypeOK, protocol = "raw", RawInv, NEW b \in Byte, RemoteSends(b)
  PROVE  RawInv'
<1> DEFINE one == <<b>>
<1>1. /\ down' = down \o one /\ sent' = Append(sent, b) /\ got' = got /\ heard' = heard
      /\ wrote' = wrote
  BY DEF RemoteSends
<1>2. got \in Bytes /\ down \in Bytes /\ one \in Bytes /\ sent \in Bytes
  BY SmallSequences DEF TypeOK
<1>3. Append(sent, b) = sent \o one
  BY <1>2, PlainOne
<1> HIDE DEF one
<1>4. (got \o down) \o one = got \o (down \o one)
  BY <1>2, Associates
<1>5. QED
  BY <1>1, <1>3, <1>4 DEF RawInv

LEMMA RawWriteKeeps ==
  ASSUME TypeOK, protocol = "raw", RawInv, NEW b \in Byte, TcpWrite(b)
  PROVE  RawInv' /\ heard'.answers = heard.answers
<1> DEFINE one == <<b>>
<1>1. /\ down' = down /\ sent' = sent /\ got' = got /\ wrote' = Append(wrote, b) /\ Tell(one)
  BY DEF TcpWrite
<1>2. wrote \in Bytes /\ one \in Bytes /\ heard \in HeardState
  BY SmallSequences DEF TypeOK
<1>3. Append(wrote, b) = wrote \o one
  BY <1>2, PlainOne
<1> HIDE DEF one
<1>4. heard'.data = heard.data \o one /\ heard'.answers = heard.answers
  BY <1>1, <1>2, PlainTell
<1>5. QED
  BY <1>1, <1>3, <1>4 DEF RawInv

\* What the reader and the channel hold is on its way to the connection.
LEMMA SerialInIn ==
  ASSUME TypeOK
  PROVE  /\ Joined(got, inq) \in Bytes /\ held \in Bytes /\ down \in Bytes /\ sent \in Bytes
         /\ Joined(got, inq) \o held \in Bytes /\ got \in Bytes /\ inq \in Seq(Bytes)
<1>1. /\ got \in Bytes /\ held \in Bytes /\ down \in Bytes /\ sent \in Bytes
      /\ inq \in Seq(Bytes)
  BY DEF TypeOK
<1>2. Joined(got, inq) \in Bytes
  BY <1>1, JoinedIn
<1>3. QED
  BY <1>1, <1>2, SmallSequences

LEMMA SerialGot ==
  ASSUME TypeOK, SerialIn
  PROVE  IsPrefix(got, sent)
<1>1. CASE status = "connected"
  <2> DEFINE j  == Joined(got, inq)
             jh == j \o held
             s  == jh \o down
  <2>1. /\ j \in Bytes /\ jh \in Bytes /\ got \in Bytes /\ inq \in Seq(Bytes) /\ held \in Bytes
        /\ down \in Bytes
    BY SerialInIn
  <2>2. Before(got, j)
    BY <2>1, JoinedLater
  <2>3. s = sent
    BY <1>1 DEF SerialIn
  <2> HIDE DEF j
  <2>4. Before(got, j \o held)
    BY <2>1, <2>2, BeforeConcat DEF Bytes
  <2> HIDE DEF jh
  <2>5. Before(got, jh \o down)
    BY <2>1, <2>4, BeforeConcat DEF Bytes, jh
  <2>6. Before(got, sent) /\ sent \in Bytes
    BY <2>3, <2>5 DEF TypeOK
  <2>7. QED
    BY <2>1, <2>6, PrefixIs DEF Bytes
<1>2. CASE status # "connected"
  BY <1>2 DEF SerialIn
<1>3. QED
  BY <1>1, <1>2

LEMMA SerialInKeeps ==
  ASSUME TypeOK, protocol = "serial", SerialIn, [Next]_vars
  PROVE  SerialIn'
<1> DEFINE j == Joined(got, inq)
<1>1. /\ j \in Bytes /\ held \in Bytes /\ down \in Bytes /\ sent \in Bytes
      /\ j \o held \in Bytes /\ got \in Bytes /\ inq \in Seq(Bytes)
  BY SerialInIn
<1>2. IsPrefix(got, sent)
  BY SerialGot
<1>3. ASSUME UNCHANGED <<status, got, inq, held, down, sent>> PROVE SerialIn'
  BY <1>3 DEF SerialIn
<1>4. ASSUME NEW b \in Keys, RemoteSends(b) PROVE SerialIn'
  <2> DEFINE one == <<b>>
             jh  == j \o held
  <2>1. b \in Byte /\ one \in Bytes /\ jh \in Bytes
    BY <1>1, BytesAssumption, SmallSequences DEF Byte
  <2>2. down' = down \o one /\ sent' = Append(sent, b) /\ UNCHANGED <<status, got, inq, held>>
    BY <1>4 DEF RemoteSends, serial
  <2>3. sent' = sent \o one
    BY <1>1, <2>1, <2>2, PlainOne
  <2>4. CASE status = "connected"
    <3>1. jh \o down = sent
      BY <2>4 DEF SerialIn
    <3> HIDE DEF jh, one
    <3>2. (jh \o down) \o one = jh \o (down \o one)
      <4>1. jh \in Bytes /\ down \in Bytes /\ one \in Bytes
        BY <1>1, <2>1
      <4>2. QED
        BY <4>1, Associates
    <3>3. jh \o down' = sent'
      BY <2>2, <2>3, <3>1, <3>2
    <3>4. QED
      BY <2>2, <2>4, <3>3 DEF SerialIn, jh
  <2>5. CASE status # "connected"
    <3> HIDE DEF one
    <3>1. Before(got, sent)
      BY <1>1, <1>2, PrefixIs DEF Bytes
    <3>2. Before(got, sent \o one)
      BY <1>1, <2>1, <3>1, BeforeConcat DEF Bytes
    <3>3. sent \o one \in Bytes
      BY <1>1, <2>1, SmallSequences
    <3>4. IsPrefix(got, sent \o one)
      BY <1>1, <3>2, <3>3, PrefixIs DEF Bytes
    <3>5. QED
      BY <2>2, <2>3, <2>5, <3>4 DEF SerialIn
  <2>6. QED
    BY <2>4, <2>5
<1>5. ASSUME NEW n \in 1..Len(down), ReaderTakes(n) PROVE SerialIn'
  <2> DEFINE bytes == SubSeq(down, 1, n)
             rest  == SubSeq(down, n + 1, Len(down))
  <2>1. bytes \in Bytes /\ rest \in Bytes /\ bytes \o rest = down
    <3>1. down \in Seq(Byte) /\ n \in 0..Len(down)
      BY <1>1, LenProperties DEF Bytes
    <3>2. QED
      BY <3>1, Cut DEF Bytes
  <2>2. held = <<>> /\ held' = bytes /\ down' = rest /\ UNCHANGED <<status, got, inq, sent>>
    BY <1>5 DEF ReaderTakes, history
  <2> HIDE DEF bytes, rest, j
  <2>3. (j \o bytes) \o rest = j \o (bytes \o rest) /\ j \o <<>> = j
    <3>1. j \in Bytes /\ bytes \in Bytes /\ rest \in Bytes
      BY <1>1, <2>1
    <3>2. (j \o bytes) \o rest = j \o (bytes \o rest)
      BY <3>1, Associates
    <3>3. j \o <<>> = j
      BY <3>1, ConcatEmptySeq DEF Bytes
    <3>4. QED
      BY <3>2, <3>3
  <2>4. CASE status = "connected"
    <3>1. (j \o <<>>) \o down = sent
      BY <2>2, <2>4 DEF SerialIn, j
    <3>2. (j \o held') \o down' = sent'
      BY <2>1, <2>2, <2>3, <3>1
    <3>3. QED
      BY <2>2, <2>4, <3>2 DEF SerialIn, j
  <2>5. CASE status # "connected"
    BY <2>2, <2>5 DEF SerialIn
  <2>6. QED
    BY <2>4, <2>5
<1>6. CASE ReaderSends
  <2>1. CASE status = "connected"
    <3>1. inq' = Append(inq, held) /\ held' = <<>> /\ UNCHANGED <<status, got, down, sent>>
      BY <1>6, <2>1 DEF ReaderSends, wire, history
    <3>2. Joined(got, Append(inq, held)) = j \o held
      BY <1>1, JoinedAppend
    <3> DEFINE jh == j \o held
    <3>3. jh \in Bytes /\ jh \o down = sent
      BY <1>1, <2>1 DEF SerialIn
    <3> HIDE DEF jh
    <3>4. jh \o <<>> = jh
      BY <3>3, ConcatEmptySeq DEF Bytes
    <3>5. Joined(got', inq') = jh
      BY <3>1, <3>2 DEF jh
    <3>6. (Joined(got', inq') \o held') \o down' = sent'
      BY <3>1, <3>3, <3>4, <3>5
    <3>7. QED
      BY <2>1, <3>1, <3>6 DEF SerialIn
  <2>2. CASE status # "connected"
    BY <1>6, <2>2 DEF ReaderSends, wire, history, SerialIn
  <2>3. QED
    BY <2>1, <2>2
<1>7. CASE SerialRead
  <2>1. CASE inq # <<>> /\ Returned(Head(inq)) /\ inq' = Tail(inq) /\ UNCHANGED status
    <3>1. /\ got' = got \o Head(inq) /\ inq' = Tail(inq) /\ status = "connected"
          /\ UNCHANGED <<status, held, down, sent>>
      BY <1>7, <2>1 DEF SerialRead, OverSerial, Returned, wire
    <3>2. Joined(got, inq) = Joined(got \o Head(inq), Tail(inq))
      BY <1>1, <2>1, JoinedFirst
    <3>3. Joined(got', inq') = Joined(got, inq)
      BY <3>1, <3>2
    <3>4. QED
      BY <3>1, <3>3 DEF SerialIn
  <2>2. CASE inq = <<>> /\ reader = "stopped" /\ status' = "disconnected" /\ UNCHANGED <<got, inq>>
    BY <1>2, <1>7, <2>2 DEF SerialRead, SerialIn
  <2>3. QED
    BY <1>7, <2>1, <2>2 DEF SerialRead
<1>8. ASSUME NEW b \in Keys, SerialWrite(b) PROVE SerialIn'
  <2>1. /\ UNCHANGED <<got, inq, held, down, sent>> /\ status = "connected"
        /\ status' = "disconnected" \/ status' = status
    BY <1>8 DEF SerialWrite, OverSerial, wire
  <2>2. QED
    BY <1>2, <1>3, <2>1 DEF SerialIn
<1>9. CASE Disconnect
  BY <1>2, <1>9 DEF Disconnect, SerialIn, wire, history
<1>10. CASE ReaderFails \/ WriterWrites \/ WriterFails \/ WriterEnds \/ UNCHANGED vars
  BY <1>3, <1>10
     DEF ReaderFails, WriterWrites, WriterFails, WriterEnds, vars, wire, serial, history
<1>11. ~Idle => FALSE
  BY DEF TypeOK, Idle
<1>12. ~OverTcp /\ protocol # "telnet"
  BY DEF OverTcp
<1>13. QED
  BY <1>4, <1>5, <1>6, <1>7, <1>8, <1>9, <1>10, <1>11, <1>12
     DEF Next, Remote, Reader, Writer, RemoteNegotiates, RemoteWantsType, RemoteAsks, TcpRead,
         TcpWrite, WriteResponse, Resize

\* What was written is in the channel or heard, until the writer stops.
LEMMA SerialOutKeeps ==
  ASSUME TypeOK, protocol = "serial", SerialOut, [Next]_vars
  PROVE  SerialOut' /\ heard'.answers = heard.answers
<1> DEFINE d == heard.data
           j == Joined(d, outq)
<1>1. /\ heard \in HeardState /\ d \in Bytes /\ outq \in Seq(Bytes) /\ wrote \in Bytes
      /\ writer \in {"running", "stopped"}
  BY HeardOf DEF TypeOK
<1>2. j \in Bytes
  BY <1>1, JoinedIn
<1>3. IsPrefix(d, wrote)
  <2>1. CASE writer = "running"
    <3>1. Before(d, j) /\ j = wrote
      BY <1>1, <2>1, JoinedLater DEF SerialOut
    <3> HIDE DEF d, j
    <3>2. QED
      BY <1>1, <3>1, PrefixIs DEF Bytes
  <2>2. CASE writer # "running"
    BY <2>2 DEF SerialOut
  <2>3. QED
    BY <2>1, <2>2
<1>4. ASSUME UNCHANGED <<writer, heard, outq, wrote>> PROVE SerialOut' /\ heard'.answers = heard.answers
  BY <1>4 DEF SerialOut
<1>5. CASE WriterWrites
  <2>1. /\ outq # <<>> /\ outq' = Tail(outq) /\ Tell(Head(outq)) /\ writer = "running"
        /\ UNCHANGED <<writer, wrote>>
    BY <1>5 DEF WriterWrites, history
  <2>2. Head(outq) \in Bytes
    BY <1>1, <2>1, HeadTailProperties
  <2>3. heard'.data = d \o Head(outq) /\ heard'.answers = heard.answers
    BY <1>1, <2>1, <2>2, PlainTell
  <2>4. Joined(d, outq) = Joined(d \o Head(outq), Tail(outq))
    BY <1>1, <2>1, JoinedFirst
  <2>5. Joined(heard'.data, outq') = wrote'
    BY <2>1, <2>3, <2>4 DEF SerialOut
  <2>6. QED
    BY <2>1, <2>3, <2>5 DEF SerialOut
<1>6. CASE WriterFails
  BY <1>3, <1>6 DEF WriterFails, SerialOut, wire, history
<1>7. CASE WriterEnds
  BY <1>3, <1>7 DEF WriterEnds, SerialOut, wire, history
<1>8. ASSUME NEW b \in Keys, SerialWrite(b) PROVE SerialOut' /\ heard'.answers = heard.answers
  <2>1. CASE writer = "stopped"
    BY <1>4, <1>8, <2>1 DEF SerialWrite, wire
  <2>2. CASE writer # "stopped"
    <3> DEFINE one == <<b>>
    <3>1. /\ writer = "running" /\ outq' = Append(outq, one) /\ wrote' = Append(wrote, b)
          /\ UNCHANGED <<writer, heard>>
      BY <1>1, <1>8, <2>2 DEF SerialWrite, wire
    <3>2. b \in Byte /\ one \in Bytes
      BY BytesAssumption, SmallSequences DEF Byte
    <3>3. Append(wrote, b) = wrote \o one
      BY <1>1, <3>2, PlainOne
    <3> HIDE DEF one
    <3>4. Joined(d, Append(outq, one)) = j \o one
      BY <1>1, <3>2, JoinedAppend
    <3>5. j = wrote
      BY <3>1 DEF SerialOut
    <3>6. Joined(heard'.data, outq') = wrote'
      BY <3>1, <3>3, <3>4, <3>5
    <3>7. QED
      BY <3>1, <3>6 DEF SerialOut
  <2>3. QED
    BY <2>1, <2>2
<1>9. ASSUME NEW b \in Keys, RemoteSends(b) PROVE SerialOut' /\ heard'.answers = heard.answers
  BY <1>4, <1>9 DEF RemoteSends, serial
<1>10. ASSUME NEW n \in 1..Len(down), ReaderTakes(n)
       PROVE  SerialOut' /\ heard'.answers = heard.answers
  BY <1>4, <1>10 DEF ReaderTakes, history
<1>11. CASE ReaderSends \/ ReaderFails \/ SerialRead \/ Disconnect \/ UNCHANGED vars
  BY <1>4, <1>11
     DEF ReaderSends, ReaderFails, SerialRead, Disconnect, vars, wire, serial, history
<1>12. ~Idle => FALSE
  BY DEF TypeOK, Idle
<1>13. ~OverTcp /\ protocol # "telnet"
  BY DEF OverTcp
<1>14. QED
  BY <1>5, <1>6, <1>7, <1>8, <1>9, <1>10, <1>11, <1>12, <1>13
     DEF Next, Remote, Reader, Writer, RemoteNegotiates, RemoteWantsType, RemoteAsks, TcpRead,
         TcpWrite, WriteResponse, Resize

-----------------------------------------------------------------------------
(***************************************************************************)
(* The invariant holds, and what follows from it.                          *)
(***************************************************************************)

LEMMA InitInv == Init => Inv
<1>1. SUFFICES ASSUME Init PROVE Inv
  OBVIOUS
<1>2. TypeOK
  BY <1>1, InitType
<1> DEFINE none == <<>>
<1>3. /\ none \in Bytes /\ none \in Seq(Bytes) /\ none \o none = none /\ Len(none) = 0
      /\ IsPrefix(none, none)
  <2>1. none \in Bytes /\ none \in Seq(Bytes)
    BY SmallSequences
  <2>2. none \o none = none
    BY <2>1, ConcatEmptySeq DEF Bytes
  <2>3. Len(none) = 0
    BY <2>1, EmptySeq DEF Bytes
  <2> HIDE DEF none
  <2>4. Before(none, none)
    BY <2>3, BeforeSelf
  <2>5. QED
    BY <2>1, <2>2, <2>3, <2>4, PrefixIs DEF Bytes
<1>4. /\ heard.mode = "data" /\ heard.data = none /\ heard.answers = none /\ Idle
      /\ parser.mode = "data" /\ down = none /\ sent = none /\ asked = none /\ wrote = none
      /\ got = none /\ held = none /\ inq = none /\ outq = none /\ status = "connected"
      /\ writer = (IF protocol = "serial" THEN "running" ELSE "stopped")
  BY <1>1 DEF Init, Silence, Fresh, Idle
<1>5. PlainInv /\ RawInv
  BY <1>3, <1>4 DEF PlainInv, RawInv
<1>6. protocol = "serial" => SerialInv
  <2>1. Joined(none, none) = none
    BY <1>3, JoinedNone
  <2> HIDE DEF none
  <2>2. (Joined(none, none) \o none) \o none = none
    BY <1>3, <2>1
  <2>3. QED
    BY <1>4, <2>1, <2>2 DEF SerialInv, SerialIn, SerialOut
<1>7. TelnetInv
  <2>1. Told = heard /\ Pending = none
    BY <1>2, <1>4, ToldIn, LeftType
  <2>2. Begin \in AheadState /\ Read = Fold(meantStep, Begin, down)
        /\ Begin = Ahead(parser.mode, parser.cmd, parser.buf, got \o Pending, Told.answers)
    BY <1>2, ReadIn
  <2>3. Read = Begin
    BY <1>4, <2>2, MeantNone
  <2> HIDE DEF none
  <2>4. Begin = Ahead("data", parser.cmd, parser.buf, none, none)
    BY <1>3, <1>4, <2>1, <2>2
  <2>5. Read.mode = "data" /\ Read.data = none /\ Read.answers = none
    BY <2>3, <2>4, AheadFields
  <2>6. Honest(none) /\ ~WillTellSize(none) /\ Matches(none, none)
    BY <1>3 DEF Honest, WillTellSize, Matches
  <2>7. QED
    BY <1>4, <2>1, <2>5, <2>6 DEF TelnetInv, Sound
<1>8. QED
  BY <1>2, <1>5, <1>6, <1>7 DEF Inv

LEMMA TelnetKeeps ==
  ASSUME TypeOK, protocol = "telnet", dropped \/ TelnetInv, [Next]_vars
  PROVE  dropped' \/ TelnetInv'
<1>1. CASE dropped
  BY <1>1
     DEF Next, Remote, Reader, Writer, RemoteSends, RemoteNegotiates, RemoteWantsType, RemoteAsks,
         TcpRead, WriteResponse, DropRead, TcpWrite, Resize, ReaderTakes, ReaderSends, ReaderFails,
         WriterWrites, WriterFails, WriterEnds, SerialRead, SerialWrite, Disconnect, vars, telnet
<1>2. CASE TelnetInv
  <2>1. ASSUME NEW b \in Keys PROVE b \in Byte
    BY BytesAssumption DEF Byte
  <2>2. ASSUME NEW b \in Keys, RemoteSends(b) PROVE TelnetInv'
    BY <1>2, <2>1, <2>2, RemoteSendsKeeps
  <2>3. CASE RemoteNegotiates
    BY <1>2, <2>3, NegotiatesKeeps
  <2>4. CASE RemoteWantsType
    BY <1>2, <2>4, WantsTypeKeeps
  <2>5. ASSUME NEW n \in 1..Len(down), TcpRead(n) PROVE TelnetInv'
    BY <1>2, <2>5, TcpReadKeeps
  <2>6. ASSUME NEW b \in Keys, TcpWrite(b) PROVE TelnetInv'
    BY <1>2, <2>1, <2>6, TcpWriteKeeps
  <2>7. CASE WriteResponse
    BY <1>2, <2>7, WriteResponseKeeps
  <2>8. ASSUME NEW n, DropRead(n) PROVE dropped'
    BY <2>8 DEF DropRead
  <2>9. ASSUME NEW w \in Widths, Resize(w) PROVE TelnetInv'
    BY <1>2, <2>9, ResizeKeeps
  <2>10. CASE Disconnect \/ UNCHANGED vars
    <3>1. UNCHANGED <<down, heard, parser, answering, got, sent, asked, wrote, cols>>
      BY <2>10 DEF Disconnect, vars, wire, telnet, history
    <3>2. QED
      BY <1>2, <3>1, TelnetSame
  <2>11. reader = "stopped" /\ writer = "stopped" /\ ~OverSerial
    BY DEF TypeOK, OverSerial
  <2>12. QED
    BY <2>2, <2>3, <2>4, <2>5, <2>6, <2>7, <2>8, <2>9, <2>10, <2>11
       DEF Next, Remote, Reader, Writer, ReaderTakes, ReaderSends, ReaderFails, WriterWrites,
           WriterFails, WriterEnds, SerialRead, SerialWrite
<1>3. QED
  BY <1>1, <1>2

LEMMA RawKeeps ==
  ASSUME TypeOK, protocol = "raw", RawInv, [Next]_vars
  PROVE  RawInv' /\ heard'.answers = heard.answers
<1>1. ASSUME NEW b \in Keys PROVE b \in Byte
  BY BytesAssumption DEF Byte
<1>2. ASSUME NEW b \in Keys, RemoteSends(b) PROVE RawInv' /\ heard'.answers = heard.answers
  <2>1. RawInv'
    BY <1>1, <1>2, RawSendsKeeps
  <2>2. QED
    BY <1>2, <2>1 DEF RemoteSends
<1>3. ASSUME NEW n \in 1..Len(down), TcpRead(n) PROVE RawInv' /\ heard'.answers = heard.answers
  <2>1. RawInv'
    BY <1>3, RawReadKeeps
  <2>2. QED
    BY <1>3, <2>1 DEF TcpRead
<1>4. ASSUME NEW b \in Keys, TcpWrite(b) PROVE RawInv' /\ heard'.answers = heard.answers
  BY <1>1, <1>4, RawWriteKeeps
<1>5. CASE Disconnect \/ UNCHANGED vars
  BY <1>5 DEF Disconnect, vars, wire, history, RawInv
<1>6. reader = "stopped" /\ writer = "stopped" /\ ~OverSerial /\ Idle /\ protocol # "telnet"
  BY DEF TypeOK, OverSerial, Idle
<1>7. QED
  BY <1>2, <1>3, <1>4, <1>5, <1>6
     DEF Next, Remote, Reader, Writer, RemoteNegotiates, RemoteWantsType, RemoteAsks, WriteResponse,
         Resize, ReaderTakes, ReaderSends, ReaderFails, WriterWrites, WriterFails, WriterEnds,
         SerialRead, SerialWrite

\* The protocol of a connection stays, and only telnet is asked for options.
LEMMA ProtocolStays ==
  ASSUME TypeOK, [Next]_vars
  PROVE  protocol' = protocol /\ (protocol # "telnet" => asked' = asked)
BY DEF Next, Remote, Reader, Writer, RemoteSends, RemoteNegotiates, RemoteWantsType, RemoteAsks,
       TcpRead, WriteResponse, DropRead, TcpWrite, Resize, ReaderTakes, ReaderSends, ReaderFails,
       WriterWrites, WriterFails, WriterEnds, SerialRead, SerialWrite, Disconnect, vars, history

LEMMA StepInv == Inv /\ [Next]_vars => Inv'
<1>1. SUFFICES ASSUME Inv, [Next]_vars PROVE Inv'
  OBVIOUS
<1>2. TypeOK /\ TypeOK' /\ protocol' = protocol /\ (protocol # "telnet" => asked' = asked)
  BY <1>1, StepType, ProtocolStays DEF Inv
<1>3. CASE protocol = "telnet"
  <2>1. dropped' \/ TelnetInv'
    BY <1>1, <1>2, <1>3, TelnetKeeps DEF Inv
  <2>2. QED
    BY <1>2, <1>3, <2>1 DEF Inv
<1>4. CASE protocol = "raw"
  <2>1. RawInv' /\ heard'.answers = heard.answers
    BY <1>1, <1>2, <1>4, RawKeeps DEF Inv
  <2>2. PlainInv'
    BY <1>1, <1>2, <1>4, <2>1 DEF Inv, PlainInv
  <2>3. QED
    BY <1>2, <1>4, <2>1, <2>2 DEF Inv
<1>5. CASE protocol = "serial"
  <2>1. SerialIn /\ SerialOut /\ PlainInv
    BY <1>1, <1>5 DEF Inv, SerialInv
  <2>2. SerialIn'
    BY <1>1, <1>2, <1>5, <2>1, SerialInKeeps
  <2>3. SerialOut' /\ heard'.answers = heard.answers
    BY <1>1, <1>2, <1>5, <2>1, SerialOutKeeps
  <2>4. PlainInv'
    BY <1>2, <1>5, <2>1, <2>3 DEF PlainInv
  <2>5. QED
    BY <1>2, <1>5, <2>2, <2>3, <2>4 DEF Inv, SerialInv
<1>6. protocol \in {"telnet", "raw", "serial"}
  BY <1>2, BytesAssumption DEF TypeOK
<1>7. QED
  BY <1>3, <1>4, <1>5, <1>6

\* Nothing is lost or invented on the way to the client, or on its way.
LEMMA TelnetReads ==
  ASSUME TypeOK, TelnetInv
  PROVE  /\ Before(got, sent) /\ Before(Told.answers, Read.answers)
         /\ Idle /\ down = <<>> => got = sent /\ heard.answers = Read.answers
<1> DEFINE d == got \o Pending
           a == Told.answers
<1>1. /\ d \in Bytes /\ Begin \in AheadState /\ Read = Fold(meantStep, Begin, down) /\ down \in Bytes
      /\ Begin = Ahead(parser.mode, parser.cmd, parser.buf, d, a) /\ Read.data = sent
  BY ReadIn DEF TelnetInv
<1>2. got \in Bytes /\ Pending \in Bytes /\ sent \in Bytes
  BY LeftType DEF TypeOK
<1>3. Before(got, d)
  <2>1. Len(got) \in Nat
    BY <1>2, LenProperties DEF Bytes
  <2>2. Before(got, got)
    BY <2>1, BeforeSelf
  <2>3. QED
    BY <1>2, <2>2, BeforeConcat DEF Bytes
<1>4. got \o <<>> = got
  BY <1>2, ConcatEmptySeq DEF Bytes
<1> HIDE DEF d, a
<1>5. Begin.data = d /\ Begin.answers = a
  BY <1>1, AheadFields
<1>6. Before(d, sent) /\ Before(a, Read.answers)
  BY <1>1, <1>5, MeantLater
<1>7. Before(got, sent)
  BY <1>1, <1>2, <1>3, <1>6, BeforeBefore DEF Bytes
<1>8. ASSUME Idle, down = <<>> PROVE got = sent /\ heard.answers = Read.answers
  <2>1. Pending = <<>> /\ Told = heard
    BY <1>8, LeftType, ToldIn
  <2>2. Read = Begin
    BY <1>1, <1>8, MeantNone
  <2>3. QED
    BY <1>1, <1>4, <1>5, <2>1, <2>2 DEF d, a
<1>9. QED
  BY <1>6, <1>7, <1>8 DEF a

LEMMA TelnetHears ==
  ASSUME TypeOK, TelnetInv
  PROVE  /\ Before(heard.data, wrote) /\ Before(heard.answers, Told.answers)
         /\ Idle => heard.data = wrote
<1>1. heard \in HeardState /\ Left \in Seq(Bytes) /\ (Idle => Told = heard)
  BY ToldIn, LeftType
<1>2. Before(heard.data, Told.data) /\ Before(heard.answers, Told.answers)
  BY <1>1, HearAllLater DEF Told
<1>3. Told.data = wrote
  BY DEF TelnetInv, Sound
<1>4. QED
  BY <1>1, <1>2, <1>3

LEMMA PlainHears ==
  ASSUME TypeOK, protocol # "telnet", Inv
  PROVE  /\ IsPrefix(heard.data, wrote) /\ IsPrefix(got, sent) /\ got \in Bytes
         /\ protocol = "raw" => (down = <<>> => got = sent) /\ heard.data = wrote
<1> DEFINE d == heard.data
<1>1. /\ d \in Bytes /\ outq \in Seq(Bytes) /\ wrote \in Bytes /\ got \in Bytes /\ down \in Bytes
      /\ sent \in Bytes /\ writer \in {"running", "stopped"}
  BY HeardOf DEF TypeOK
<1>2. CASE protocol = "raw"
  <2>1. got \o down = sent /\ d = wrote
    BY <1>2 DEF Inv, RawInv
  <2>2. Len(got) \in Nat /\ Len(wrote) \in Nat
    BY <1>1, LenProperties DEF Bytes
  <2>3. Before(got, got) /\ Before(wrote, wrote)
    BY <2>2, BeforeSelf
  <2>4. Before(got, got \o down)
    BY <1>1, <2>3, BeforeConcat DEF Bytes
  <2>5. got \o <<>> = got
    BY <1>1, ConcatEmptySeq DEF Bytes
  <2>6. IsPrefix(got, sent) /\ IsPrefix(wrote, wrote)
    BY <1>1, <2>1, <2>3, <2>4, PrefixIs DEF Bytes
  <2>7. QED
    BY <1>1, <2>1, <2>5, <2>6
<1>3. CASE protocol = "serial"
  <2>1. SerialIn /\ SerialOut
    BY <1>3 DEF Inv, SerialInv
  <2>2. IsPrefix(got, sent)
    BY <2>1, SerialGot
  <2>3. CASE writer = "running"
    <3>1. Before(d, Joined(d, outq)) /\ Joined(d, outq) = wrote
      BY <1>1, <2>1, <2>3, JoinedLater DEF SerialOut
    <3> HIDE DEF d
    <3>2. IsPrefix(d, wrote)
      BY <1>1, <3>1, PrefixIs DEF Bytes
    <3>3. QED
      BY <1>1, <1>3, <2>2, <3>2 DEF d
  <2>4. CASE writer # "running"
    BY <1>1, <1>3, <2>1, <2>2, <2>4 DEF SerialOut
  <2>5. QED
    BY <2>3, <2>4
<1>4. QED
  BY <1>2, <1>3, BytesAssumption DEF TypeOK

LEMMA IntactByInv == Inv => DataIntact
<1>1. SUFFICES ASSUME Inv, ~dropped PROVE DataIntact
  BY DEF DataIntact
<1>2. TypeOK
  BY <1>1 DEF Inv
<1>3. CASE protocol = "telnet"
  <2>1. TelnetInv
    BY <1>1, <1>3 DEF Inv
  <2>2. /\ Before(got, sent) /\ (Idle /\ down = <<>> => got = sent)
        /\ Before(heard.data, wrote) /\ (Idle => heard.data = wrote)
    BY <1>2, <2>1, TelnetReads, TelnetHears
  <2>3. got \in Bytes /\ sent \in Bytes /\ wrote \in Bytes /\ heard.data \in Bytes
    BY <1>2, HeardOf DEF TypeOK
  <2>4. IsPrefix(got, sent) /\ IsPrefix(heard.data, wrote)
    BY <2>2, <2>3, PrefixIs DEF Bytes
  <2>5. QED
    BY <2>2, <2>4 DEF DataIntact
<1>4. CASE protocol # "telnet"
  <2>1. /\ IsPrefix(heard.data, wrote) /\ IsPrefix(got, sent)
        /\ protocol = "raw" => (down = <<>> => got = sent) /\ heard.data = wrote
    BY <1>1, <1>2, <1>4, PlainHears
  <2>2. QED
    BY <1>4, <2>1 DEF DataIntact, OverTcp
<1>5. QED
  BY <1>3, <1>4

LEMMA AnsweredByInv == Inv => EveryRequestAnswered
<1>1. SUFFICES ASSUME Inv, ~dropped PROVE EveryRequestAnswered
  BY DEF EveryRequestAnswered
<1>2. TypeOK
  BY <1>1 DEF Inv
<1> DEFINE a == heard.answers
<1>3. a \in Seq(Bytes) /\ Len(a) \in Nat /\ DOMAIN a = 1..Len(a)
  BY <1>2, HeardOf, LenProperties DEF TypeOK
<1>4. CASE protocol = "telnet"
  <2> DEFINE t == Told.answers
             r == Read.answers
  <2>1. TelnetInv
    BY <1>1, <1>4 DEF Inv
  <2>2. Before(a, t) /\ Before(t, r) /\ (Idle /\ down = <<>> => a = r) /\ Matches(asked, r)
    BY <1>2, <2>1, TelnetReads, TelnetHears DEF TelnetInv
  <2>3. t \in Seq(Bytes) /\ r \in Seq(Bytes)
    BY <1>2, ToldIn, ReadIn, HeardOf, AheadOf
  <2> HIDE DEF a, t, r
  <2>4. Before(a, r)
    BY <1>3, <2>2, <2>3, BeforeBefore
  <2>5. Len(a) <= Len(r) /\ (\A i \in 1..Len(a) : a[i] = r[i]) /\ Len(r) = Len(asked)
        /\ Len(asked) \in Nat
    BY <1>2, <2>2, <2>4, LenProperties DEF Before, Matches, TypeOK
  <2>6. ASSUME NEW i \in 1..Len(a) PROVE InKind(asked[i], a[i])
    <3>1. i \in 1..Len(asked) /\ a[i] = r[i]
      BY <1>3, <2>5
    <3>2. InKind(asked[i], r[i])
      BY <2>2, <3>1 DEF Matches
    <3>3. QED
      BY <3>1, <3>2
  <2>7. Idle /\ down = <<>> => Len(a) = Len(asked)
    BY <2>2, <2>5
  <2>8. QED
    BY <1>3, <2>5, <2>6, <2>7 DEF EveryRequestAnswered, a
<1>5. CASE protocol # "telnet"
  <2>1. asked = <<>> /\ a = <<>>
    BY <1>1, <1>5 DEF Inv, PlainInv
  <2>2. Len(a) = 0 /\ Len(asked) = 0
    BY <1>3, <2>1, EmptySeq
  <2> HIDE DEF a
  <2>3. \A i \in DOMAIN a : FALSE
    BY <1>3, <2>2
  <2>4. QED
    BY <2>2, <2>3 DEF EveryRequestAnswered, a
<1>6. QED
  BY <1>4, <1>5

LEMMA SizeByInv == Inv => SizeKnown
<1>1. SUFFICES ASSUME Inv, protocol = "telnet", Idle, ~dropped, Agreed(DO, NAWS)
               PROVE  heard.size = cols
  BY DEF SizeKnown
<1> DEFINE a == heard.answers
<1>2. TypeOK /\ TelnetInv
  BY <1>1 DEF Inv
<1>3. Told = heard /\ a \in Seq(Bytes)
  BY <1>1, <1>2, ToldIn, HeardOf
<1>4. DOMAIN a = 1..Len(a)
  BY <1>3, LenProperties
<1>5. WILL # DO /\ WONT # DO /\ WONT # WILL
  BY CodesAre DEF Codes
<1>6. \E i \in DOMAIN a :
        /\ a[i][1] \in {WILL, WONT} /\ a[i][2] = NAWS /\ a[i][1] \in {WILL, DO}
        /\ \A j \in DOMAIN a : a[j][1] \in {WILL, WONT} /\ a[j][2] = NAWS => j <= i
  BY <1>1 DEF Agreed
<1> HIDE DEF a
<1>7. PICK i \in 1..Len(a) :
        /\ a[i][1] = WILL /\ a[i][2] = NAWS
        /\ \A j \in 1..Len(a) : a[j][1] \in {WILL, WONT} /\ a[j][2] = NAWS => j <= i
  BY <1>4, <1>5, <1>6
<1>8. WillTellSize(a)
  BY <1>7 DEF WillTellSize
<1>9. QED
  BY <1>2, <1>3, <1>8 DEF TelnetInv, Sound, a

\* What is on its way either way, and still to be answered, adds up to what was
\* sent and asked: the inductive invariant.
THEOREM Connected == Spec => []Inv
<1>1. QED
  BY InitInv, StepInv, PTL DEF Spec

\* A byte stream stays a byte stream both ways, wherever it is cut and whatever
\* is negotiated in its middle, until a read is dropped while it answers
\* (TelnetParser::parse, read, write, the serial threads).
THEOREM StreamsIntact == Spec => []DataIntact
<1>1. QED
  BY Connected, IntactByInv, PTL

\* The remote gets one answer in kind to each of its requests, in their order
\* (respond_negotiation, respond_subnegotiation).
THEOREM RequestsAnswered == Spec => []EveryRequestAnswered
<1>1. QED
  BY Connected, AnsweredByInv, PTL

\* A remote that was last told that it will get the window size has the current
\* one (naws_msg, send_resize).
THEOREM WindowKnown == Spec => []SizeKnown
<1>1. QED
  BY Connected, SizeByInv, PTL
=============================================================================
