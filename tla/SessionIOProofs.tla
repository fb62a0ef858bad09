-------------------------- MODULE SessionIOProofs --------------------------
(***************************************************************************)
(* Theorems about SessionIO, for every number of transfer threads and all  *)
(* channel capacities.  First its bookkeeping; then that it implements     *)
(* ChunkRouting: each of its steps is a step of the abstract router or     *)
(* leaves the router's state alone.  Last, that a transfer gets all the    *)
(* chunks that are read while it has the tap.                              *)
(***************************************************************************)
EXTENDS SessionIO, TLAPS, SequenceTheorems

-----------------------------------------------------------------------------
(* Messages and queues.                                                    *)

LEMMA DataType == \A n \in Nat \ {0} : Data(n) \in Messages
BY DEF Messages, Data

LEMMA EndingType == \A e \in Endings : Ending(e) \in Messages
BY DEF Messages, Ending

LEMMA ChunkType == \A m \in Messages : m.chunk \in Nat
BY DEF Messages

LEMMA TagType == \A m \in Messages : m.tag # "data" => m.tag \in Endings
BY DEF Messages

LEMMA DataHasChunk == \A m \in Messages : m.tag = "data" <=> m.chunk # 0
<1>1. \A m \in Messages : m.tag = "data" => m.chunk # 0
  BY DEF Messages, Endings
<1>2. \A m \in Messages : m.chunk # 0 => m.tag = "data"
  BY DEF Messages
<1>3. QED
  BY <1>1, <1>2

LEMMA TakeOne ==
  ASSUME NEW S, NEW q \in Seq(S), q # <<>>
  PROVE  Head(q) \in S /\ Tail(q) \in Seq(S) /\ Len(Tail(q)) = Len(q) - 1
OBVIOUS

LEMMA PutOne ==
  ASSUME NEW S, NEW q \in Seq(S), NEW e \in S
  PROVE  Append(q, e) \in Seq(S) /\ Len(Append(q, e)) = Len(q) + 1
OBVIOUS

LEMMA OneMessage ==
  ASSUME NEW S, NEW e \in S
  PROVE  <<e>> \in Seq(S) /\ Len(<<e>>) = 1
OBVIOUS

LEMMA NoMessage == ASSUME NEW S PROVE <<>> \in Seq(S) /\ Len(<<>>) = 0
OBVIOUS

\* The bounded channels stay within their capacity.
LEMMA ReceiveBounded ==
  ASSUME NEW S, NEW cap \in Nat, NEW q \in Seq(S), Len(q) <= cap, q # <<>>
  PROVE  Tail(q) \in Seq(S) /\ Len(Tail(q)) <= cap
OBVIOUS

LEMMA SendBounded ==
  ASSUME NEW S, NEW cap \in Nat, NEW q \in Seq(S), Len(q) < cap, NEW e \in S
  PROVE  Append(q, e) \in Seq(S) /\ Len(Append(q, e)) <= cap
OBVIOUS

-----------------------------------------------------------------------------
(* Consistency of the tab.                                                 *)

LEMMA Frame ==
  ASSUME TabConsistent
  PROVE  /\ UNCHANGED net => NetType'
         /\ UNCHANGED task => TaskType'
         /\ UNCHANGED chans => ChansType'
         /\ UNCHANGED tab => TabType'
         /\ UNCHANGED thread => ThreadType'
         /\ UNCHANGED hist => HistType'
<1> USE DEF TabConsistent, TypeOK
<1>1. UNCHANGED net => NetType'
  BY DEF NetType, net
<1>2. UNCHANGED task => TaskType'
  BY DEF TaskType, task
<1>3. UNCHANGED chans => ChansType'
  BY DEF ChansType, chans
<1>4. UNCHANGED tab => TabType'
  BY DEF TabType, tab
<1>5. UNCHANGED thread => ThreadType'
  BY DEF ThreadType, thread
<1>6. UNCHANGED hist => HistType'
  BY DEF HistType, hist
<1>7. QED
  BY <1>1, <1>2, <1>3, <1>4, <1>5, <1>6

LEMMA QueuesBounded ==
  ASSUME TabConsistent
  PROVE  /\ readQ \in Seq(Messages) /\ Len(readQ) <= ReadCap
         /\ writeQ \in Seq(Transfers \cup {User}) /\ Len(writeQ) <= WriteCap
         /\ resizeQ \in 0..ResizeCap
         /\ ctl \in BOOLEAN
         /\ outbox \in Seq(Messages) /\ Len(outbox) <= 1
         /\ ReadCap \in Nat /\ WriteCap \in Nat /\ TapCap \in Nat /\ ResizeCap \in Nat
BY SessionAssumption DEF TabConsistent, TypeOK, ChansType, TaskType

\* What a step may do to a channel, and that it keeps the channel's type.
LEMMA WriteQStep ==
  ASSUME TabConsistent,
         \/ UNCHANGED writeQ
         \/ writeQ # <<>> /\ writeQ' = Tail(writeQ)
         \/ \E w \in Transfers \cup {User} :
              Len(writeQ) < WriteCap /\ writeQ' = Append(writeQ, w)
  PROVE  writeQ' \in Seq(Transfers \cup {User}) /\ Len(writeQ') <= WriteCap
<1>1. /\ writeQ \in Seq(Transfers \cup {User}) /\ Len(writeQ) <= WriteCap
      /\ WriteCap \in Nat
  BY QueuesBounded
<1>2. CASE UNCHANGED writeQ
  BY <1>1, <1>2
<1>3. CASE writeQ # <<>> /\ writeQ' = Tail(writeQ)
  BY <1>1, <1>3, ReceiveBounded
<1>4. CASE \E w \in Transfers \cup {User} :
             Len(writeQ) < WriteCap /\ writeQ' = Append(writeQ, w)
  BY <1>1, <1>4, SendBounded
<1>5. QED
  BY <1>2, <1>3, <1>4

LEMMA ReadQStep ==
  ASSUME TabConsistent,
         \/ UNCHANGED readQ
         \/ readQ # <<>> /\ readQ' = Tail(readQ)
         \/ readQ' = <<>>
         \/ \E m \in Messages : Len(readQ) < ReadCap /\ readQ' = Append(readQ, m)
  PROVE  readQ' \in Seq(Messages) /\ Len(readQ') <= ReadCap
<1>1. /\ readQ \in Seq(Messages) /\ Len(readQ) <= ReadCap
      /\ ReadCap \in Nat
  BY QueuesBounded
<1>2. CASE UNCHANGED readQ
  BY <1>1, <1>2
<1>3. CASE readQ # <<>> /\ readQ' = Tail(readQ)
  BY <1>1, <1>3, ReceiveBounded
<1>4. CASE readQ' = <<>>
  BY <1>1, <1>4, NoMessage
<1>5. CASE \E m \in Messages : Len(readQ) < ReadCap /\ readQ' = Append(readQ, m)
  BY <1>1, <1>5, SendBounded
<1>6. QED
  BY <1>2, <1>3, <1>4, <1>5

LEMMA ChansStep ==
  ASSUME readQ' \in Seq(Messages) /\ Len(readQ') <= ReadCap,
         writeQ' \in Seq(Transfers \cup {User}) /\ Len(writeQ') <= WriteCap,
         resizeQ' \in 0..ResizeCap,
         ctl' \in BOOLEAN
  PROVE  ChansType'
BY DEF ChansType

LEMMA OutboxStep ==
  ASSUME io' \in {"running", "ended"},
         \/ outbox' = <<>>
         \/ \E m \in Messages : outbox' = <<m>>
  PROVE  TaskType'
<1>1. CASE outbox' = <<>>
  BY <1>1, NoMessage DEF TaskType
<1>2. CASE \E m \in Messages : outbox' = <<m>>
  BY <1>2, OneMessage DEF TaskType
<1>3. QED
  BY <1>1, <1>2

\* A transfer thread given a chunk, or taking one.
LEMMA TapStep ==
  ASSUME TabConsistent, NEW t \in Transfers, NEW q \in Seq(Nat), Len(q) <= TapCap,
         tapQ' = [tapQ EXCEPT ![t] = q]
  PROVE  tapQ' \in [Transfers -> Seq(Nat)] /\ \A u \in Transfers : Len(tapQ'[u]) <= TapCap
<1>1. tapQ \in [Transfers -> Seq(Nat)] /\ \A u \in Transfers : Len(tapQ[u]) <= TapCap
  BY DEF TabConsistent, TypeOK, ThreadType
<1>2. QED
  BY <1>1

LEMMA GotStep ==
  ASSUME TabConsistent, NEW t \in Transfers, NEW q \in Seq(Nat),
         got' = [got EXCEPT ![t] = q], UNCHANGED shown
  PROVE  HistType'
<1>1. got \in [Transfers -> Seq(Nat)] /\ shown \in Seq(Nat)
  BY DEF TabConsistent, TypeOK, HistType
<1>2. QED
  BY <1>1 DEF HistType

\* The bookkeeping looks at nothing else.
LEMMA BookkeepingFrame ==
  ASSUME TabConsistent, UNCHANGED <<open, tap, doneRx, readQ>>,
         \/ UNCHANGED th
         \/ \E t \in Transfers, state \in ThreadStates \ {"idle"} :
              th' = [th EXCEPT ![t] = state] /\ th[t] # "idle",
         UNCHANGED got
  PROVE  TransferBookkeeping'
<1>1. TransferBookkeeping /\ th \in [Transfers -> ThreadStates]
  BY DEF TabConsistent, TypeOK, ThreadType
<1>2. CASE UNCHANGED th
  BY <1>1, <1>2 DEF TransferBookkeeping
<1>3. ASSUME NEW t \in Transfers, NEW state \in ThreadStates \ {"idle"},
             th' = [th EXCEPT ![t] = state], th[t] # "idle"
      PROVE  TransferBookkeeping'
  <2>1. \A u \in Transfers : th'[u] = "idle" => th[u] = "idle"
    BY <1>1, <1>3
  <2>2. \A u \in Transfers : th[u] # "idle" => th'[u] # "idle"
    BY <1>1, <1>3
  <2>3. doneRx \in Transfers \cup {None}
    BY DEF TabConsistent, TypeOK, TabType
  <2>4. QED
    BY <1>1, <2>1, <2>2, <2>3 DEF TransferBookkeeping
<1>4. QED
  BY <1>2, <1>3

LEMMA IoConsistent ==
  ASSUME TabConsistent,
         (\E kind \in Kinds : IoRead(kind)) \/ IoStep
  PROVE  TabConsistent'
<1>1. ASSUME NEW kind \in Kinds, IoRead(kind)
      PROVE  TabConsistent'
  <2> DEFINE n == Len(stream) + 1
  <2>1. stream \in Seq(Kinds) /\ n \in Nat \ {0}
    <3>1. stream \in Seq(Kinds)
      BY DEF TabConsistent, TypeOK, NetType
    <3>2. QED
      BY <3>1
  <2>2. NetType'
    <3>1. stream' \in Seq(Kinds)
      BY <1>1, <2>1, PutOne DEF IoRead
    <3>2. remote' \in {"shell", "offered", "engaged", "closing"}
      <4>1. remote \in {"shell", "offered", "engaged", "closing"}
        BY DEF TabConsistent, TypeOK, NetType
      <4>2. QED
        BY <1>1, <4>1 DEF IoRead, RemoteSends
    <3>3. conn' \in {"up", "disconnected"}
      BY <1>1 DEF TabConsistent, TypeOK, NetType, IoRead
    <3>4. QED
      BY <3>1, <3>2, <3>3 DEF NetType
  <2>3. ChansType' /\ TabType'
    BY <1>1, Frame DEF IoRead, tab, chans
  <2>4. th \in [Transfers -> ThreadStates] /\ rx \in [Transfers -> BOOLEAN]
        /\ done \in [Transfers -> {"pending", "ok", "err", "closed"}]
        /\ got \in [Transfers -> Seq(Nat)] /\ shown \in Seq(Nat)
        /\ tapQ \in [Transfers -> Seq(Nat)]
        /\ \A u \in Transfers : Len(tapQ[u]) <= TapCap
    BY DEF TabConsistent, TypeOK, ThreadType, HistType
  <2>5. UNCHANGED <<th, rx, done, shown>> /\ io' = io /\ io \in {"running", "ended"}
    BY <1>1 DEF IoRead, TabConsistent, TypeOK, TaskType
  <2>6. CASE tap \in Transfers /\ rx[tap] /\ Len(tapQ[tap]) < TapCap
    <3>1. /\ tapQ' = [tapQ EXCEPT ![tap] = Append(tapQ[tap], n)]
          /\ got' = [got EXCEPT ![tap] = Append(got[tap], n)]
          /\ UNCHANGED outbox
      BY <1>1, <2>6, SessionAssumption DEF IoRead, Feed
    <3>2. ThreadType'
      <4>1. Append(tapQ[tap], n) \in Seq(Nat) /\ Len(Append(tapQ[tap], n)) <= TapCap
        BY <2>1, <2>4, <2>6, SendBounded, QueuesBounded
      <4>2. tapQ' \in [Transfers -> Seq(Nat)] /\ \A u \in Transfers : Len(tapQ'[u]) <= TapCap
        BY <2>6, <3>1, <4>1, TapStep
      <4>3. QED
        BY <2>4, <2>5, <4>2 DEF ThreadType
    <3>3. HistType'
      <4>1. Append(got[tap], n) \in Seq(Nat)
        BY <2>1, <2>4, <2>6, PutOne
      <4>2. QED
        BY <2>5, <2>6, <3>1, <4>1, GotStep
    <3>4. TaskType'
      BY <2>5, <3>1, Frame DEF task
    <3>5. TransferBookkeeping'
      <4>1. TransferBookkeeping
        BY DEF TabConsistent
      <4>2. UNCHANGED <<open, tap, doneRx, readQ>>
        BY <1>1 DEF IoRead, tab, chans
      <4>3. th[tap] # "idle"
        BY <2>6, <4>1, SessionAssumption DEF TransferBookkeeping
      <4>4. QED
        BY <2>4, <2>5, <2>6, <3>1, <4>1, <4>2, <4>3 DEF TransferBookkeeping
    <3>6. QED
      BY <2>2, <2>3, <3>2, <3>3, <3>4, <3>5 DEF TabConsistent, TypeOK
  <2>7. CASE ~(tap \in Transfers /\ rx[tap] /\ Len(tapQ[tap]) < TapCap)
    <3>1. UNCHANGED <<tapQ, got>>
      BY <1>1, <2>7 DEF IoRead, Feed, TabConsistent, TypeOK, TabType
    <3>2. \E m \in Messages : outbox' = <<m>>
      <4>1. CASE tap # None
        BY <1>1, <2>7, <4>1, EndingType DEF IoRead, Feed, Endings, TabConsistent, TypeOK, TabType
      <4>2. CASE tap = None
        BY <1>1, <2>1, <4>2, DataType DEF IoRead
      <4>3. QED
        BY <4>1, <4>2
    <3>3. TaskType'
      BY <2>5, <3>2, OutboxStep
    <3>4. ThreadType' /\ HistType'
      BY <2>5, <3>1, Frame DEF thread, hist
    <3>5. TransferBookkeeping'
      BY <1>1, <2>5, <3>1, BookkeepingFrame DEF IoRead, tab, chans
    <3>6. QED
      BY <2>2, <2>3, <3>3, <3>4, <3>5 DEF TabConsistent, TypeOK
  <2>8. QED
    BY <2>6, <2>7
<1>2. CASE IoReadFails
  <2>1. NetType' /\ ChansType' /\ TabType' /\ ThreadType' /\ HistType'
    BY <1>2, Frame DEF IoReadFails
  <2>2. TaskType'
    <3>1. conn \in Endings
      BY <1>2 DEF IoReadFails, TabConsistent, TypeOK, NetType, Endings
    <3>2. outbox' = <<Ending(conn)>> /\ io' = io /\ io \in {"running", "ended"}
      BY <1>2 DEF IoReadFails, TabConsistent, TypeOK, TaskType
    <3>3. QED
      BY <3>1, <3>2, EndingType, OutboxStep
  <2>3. TransferBookkeeping'
    BY <1>2, BookkeepingFrame DEF IoReadFails, tab, chans, thread, hist
  <2>4. QED
    BY <2>1, <2>2, <2>3 DEF TabConsistent, TypeOK
<1>3. CASE IoSend
  <2>1. NetType' /\ TabType' /\ ThreadType' /\ HistType'
    BY <1>3, Frame DEF IoSend
  <2>2. TaskType'
    BY <1>3, OutboxStep DEF IoSend
  <2>3. ChansType'
    <3>1. Head(outbox) \in Messages
      BY <1>3, TakeOne, QueuesBounded DEF IoSend
    <3>2. readQ' \in Seq(Messages) /\ Len(readQ') <= ReadCap
      BY <1>3, <3>1, ReadQStep DEF IoSend
    <3>3. UNCHANGED <<writeQ, resizeQ, ctl>>
      BY <1>3 DEF IoSend
    <3>4. QED
      BY <3>2, <3>3, WriteQStep, QueuesBounded, ChansStep
  <2>4. TransferBookkeeping'
    BY <1>3 DEF IoSend, tab, thread, hist, TabConsistent, TransferBookkeeping
  <2>5. QED
    BY <2>1, <2>2, <2>3, <2>4 DEF TabConsistent, TypeOK
<1>4. CASE IoWrite
  <2>1. TabType' /\ ThreadType' /\ HistType'
    BY <1>4, Frame DEF IoWrite
  <2>2. NetType'
    BY <1>4 DEF IoWrite, RemoteHears, TabConsistent, TypeOK, NetType
  <2>3. TaskType'
    <3>1. CASE UNCHANGED outbox
      BY <1>4, <3>1, Frame DEF IoWrite, task
    <3>2. CASE conn # "up" /\ outbox' = <<Ending(conn)>>
      <4>1. conn \in Endings
        BY <3>2 DEF TabConsistent, TypeOK, NetType, Endings
      <4>2. io' = io /\ io \in {"running", "ended"}
        BY <1>4 DEF IoWrite, TabConsistent, TypeOK, TaskType
      <4>3. QED
        BY <3>2, <4>1, <4>2, EndingType, OutboxStep
    <3>3. QED
      BY <1>4, <3>1, <3>2 DEF IoWrite
  <2>4. ChansType'
    <3>1. writeQ' \in Seq(Transfers \cup {User}) /\ Len(writeQ') <= WriteCap
      BY <1>4, WriteQStep DEF IoWrite
    <3>2. UNCHANGED <<readQ, resizeQ, ctl>>
      BY <1>4 DEF IoWrite
    <3>3. QED
      BY <3>1, <3>2, ReadQStep, QueuesBounded, ChansStep
  <2>5. TransferBookkeeping'
    BY <1>4, BookkeepingFrame DEF IoWrite, tab, thread, hist
  <2>6. QED
    BY <2>1, <2>2, <2>3, <2>4, <2>5 DEF TabConsistent, TypeOK
<1>5. CASE IoResize
  <2>1. NetType' /\ TabType' /\ ThreadType' /\ HistType'
    BY <1>5, Frame DEF IoResize
  <2>2. TaskType'
    <3>1. CASE UNCHANGED outbox
      BY <1>5, <3>1, Frame DEF IoResize, task
    <3>2. CASE conn # "up" /\ outbox' = <<Ending(conn)>>
      <4>1. conn \in Endings
        BY <3>2 DEF TabConsistent, TypeOK, NetType, Endings
      <4>2. io' = io /\ io \in {"running", "ended"}
        BY <1>5 DEF IoResize, TabConsistent, TypeOK, TaskType
      <4>3. QED
        BY <3>2, <4>1, <4>2, EndingType, OutboxStep
    <3>3. QED
      BY <1>5, <3>1, <3>2 DEF IoResize
  <2>3. ChansType'
    <3>1. resizeQ' \in 0..ResizeCap
      <4>1. resizeQ \in 0..ResizeCap /\ ResizeCap \in Nat
        BY QueuesBounded
      <4>2. resizeQ > 0 /\ resizeQ' = resizeQ - 1
        BY <1>5 DEF IoResize
      <4>3. QED
        BY <4>1, <4>2
    <3>2. UNCHANGED <<readQ, writeQ, ctl>>
      BY <1>5 DEF IoResize
    <3>3. QED
      BY <3>1, <3>2, ReadQStep, WriteQStep, QueuesBounded, ChansStep
  <2>4. TransferBookkeeping'
    BY <1>5, BookkeepingFrame DEF IoResize, tab, thread, hist
  <2>5. QED
    BY <2>1, <2>2, <2>3, <2>4 DEF TabConsistent, TypeOK
<1>6. CASE IoControl
  <2>1. TabType' /\ ThreadType' /\ HistType'
    BY <1>6, Frame DEF IoControl
  <2>2. NetType'
    BY <1>6 DEF IoControl, TabConsistent, TypeOK, NetType
  <2>3. TaskType'
    <3>1. outbox' = <<Ending("disconnected")>> /\ io' = io /\ io \in {"running", "ended"}
      BY <1>6 DEF IoControl, TabConsistent, TypeOK, TaskType
    <3>2. QED
      BY <3>1, EndingType, OutboxStep DEF Endings
  <2>4. ChansType'
    BY <1>6 DEF IoControl, TabConsistent, TypeOK, ChansType
  <2>5. TransferBookkeeping'
    BY <1>6, BookkeepingFrame DEF IoControl, tab, thread, hist
  <2>6. QED
    BY <2>1, <2>2, <2>3, <2>4, <2>5 DEF TabConsistent, TypeOK
<1>7. CASE IoSeesTabGone
  <2>1. NetType' /\ ChansType' /\ TabType' /\ ThreadType' /\ HistType'
    BY <1>7, Frame DEF IoSeesTabGone
  <2>2. TaskType'
    BY <1>7 DEF IoSeesTabGone, TabConsistent, TypeOK, TaskType
  <2>3. TransferBookkeeping'
    BY <1>7, BookkeepingFrame DEF IoSeesTabGone, tab, chans, thread, hist
  <2>4. QED
    BY <2>1, <2>2, <2>3 DEF TabConsistent, TypeOK
<1>8. QED
  BY <1>1, <1>2, <1>3, <1>4, <1>5, <1>6, <1>7 DEF IoStep

\* Starting a transfer.  Its thread is new, so nothing was fed to it before.
LEMMA SpawnConsistent ==
  ASSUME TabConsistent, NEW t \in Transfers, NEW initial \in Seq(Nat),
         Len(initial) <= 1, th[t] = "idle", Spawn(t, initial)
  PROVE  ThreadType' /\ (UNCHANGED shown => HistType')
<1>1. /\ th \in [Transfers -> ThreadStates] /\ rx \in [Transfers -> BOOLEAN]
      /\ done \in [Transfers -> {"pending", "ok", "err", "closed"}]
  BY DEF TabConsistent, TypeOK, ThreadType
<1>2. Len(initial) <= TapCap
  <2>1. TapCap \in Nat \ {0} /\ Len(initial) \in Nat
    BY SessionAssumption
  <2>2. QED
    BY <2>1
<1>3. /\ th' = [th EXCEPT ![t] = "write"] /\ rx' = [rx EXCEPT ![t] = TRUE]
      /\ tapQ' = [tapQ EXCEPT ![t] = initial] /\ got' = [got EXCEPT ![t] = initial]
      /\ done' = done
  BY DEF Spawn
<1>4. th' \in [Transfers -> ThreadStates] /\ rx' \in [Transfers -> BOOLEAN]
  BY <1>1, <1>3 DEF ThreadStates
<1>5. tapQ' \in [Transfers -> Seq(Nat)] /\ \A u \in Transfers : Len(tapQ'[u]) <= TapCap
  BY <1>2, <1>3, TapStep
<1>6. ThreadType'
  BY <1>1, <1>3, <1>4, <1>5 DEF ThreadType
<1>7. UNCHANGED shown => HistType'
  BY <1>3, GotStep
<1>8. QED
  BY <1>6, <1>7

LEMMA SpawnBookkeeping ==
  ASSUME TabConsistent, NEW t \in Transfers, NEW initial,
         open, open' = open, Spawn(t, initial)
  PROVE  TransferBookkeeping'
<1>1. th \in [Transfers -> ThreadStates] /\ got \in [Transfers -> Seq(Nat)]
  BY DEF TabConsistent, TypeOK, ThreadType, HistType
<1>2. \A u \in Transfers : th[u] = "idle" => got[u] = <<>>
  BY DEF TabConsistent, TransferBookkeeping
<1>3. /\ th' = [th EXCEPT ![t] = "write"] /\ got' = [got EXCEPT ![t] = initial]
      /\ tap' = t /\ doneRx' = t
  BY DEF Spawn
<1>4. \A u \in Transfers : th'[u] = "idle" => got'[u] = <<>>
  BY <1>1, <1>2, <1>3
<1>5. th'[t] = "write"
  BY <1>1, <1>3
<1>6. QED
  BY <1>3, <1>4, <1>5 DEF TransferBookkeeping

LEMMA QueueWriteStep ==
  ASSUME TabConsistent, QueueWrite \/ UNCHANGED <<writeQ, status>>
  PROVE  /\ writeQ' \in Seq(Transfers \cup {User}) /\ Len(writeQ') <= WriteCap
         /\ status' \in {"connected"} \cup Endings
<1>1. writeQ' \in Seq(Transfers \cup {User}) /\ Len(writeQ') <= WriteCap
  BY WriteQStep DEF QueueWrite
<1>2. status' \in {"connected"} \cup Endings
  BY DEF QueueWrite, Endings, TabConsistent, TypeOK, TabType
<1>3. QED
  BY <1>1, <1>2

LEMMA UiConsistent ==
  ASSUME TabConsistent, UiTick \/ UiEvent
  PROVE  TabConsistent'
<1>1. CASE UiPoll
  <2>1. NetType' /\ TaskType' /\ ChansType' /\ ThreadType' /\ HistType'
    BY <1>1, Frame DEF UiPoll
  <2>2. TabType'
    BY <1>1 DEF UiPoll, ClearTransferState, TabConsistent, TypeOK, TabType
  <2>3. TransferBookkeeping'
    BY <1>1 DEF UiPoll, ClearTransferState, chans, thread, hist, TabConsistent, TransferBookkeeping
  <2>4. QED
    BY <2>1, <2>2, <2>3 DEF TabConsistent, TypeOK
<1>2. CASE UiShow
  <2>1. NetType' /\ TaskType' /\ ThreadType'
    BY <1>2, Frame DEF UiShow
  <2>2. /\ writeQ' \in Seq(Transfers \cup {User}) /\ Len(writeQ') <= WriteCap
        /\ status' \in {"connected"} \cup Endings
    BY <1>2, QueueWriteStep DEF UiShow
  <2>3. ChansType'
    <3>1. readQ' \in Seq(Messages) /\ Len(readQ') <= ReadCap
      BY <1>2, ReadQStep DEF UiShow
    <3>2. UNCHANGED <<resizeQ, ctl>>
      BY <1>2 DEF UiShow
    <3>3. QED
      BY <2>2, <3>1, <3>2, QueuesBounded, ChansStep
  <2>4. TabType'
    <3>1. UNCHANGED <<open, ui, prompt, tap, doneRx, progress>>
      BY <1>2 DEF UiShow
    <3>2. QED
      BY <2>2, <3>1 DEF TabConsistent, TypeOK, TabType
  <2>5. HistType'
    <3>1. shown \in Seq(Nat) /\ got \in [Transfers -> Seq(Nat)]
      BY DEF TabConsistent, TypeOK, HistType
    <3>2. Head(readQ).chunk \in Nat
      BY <1>2, TakeOne, QueuesBounded, ChunkType DEF UiShow
    <3>3. shown' = Append(shown, Head(readQ).chunk) /\ got' = got
      BY <1>2 DEF UiShow
    <3>4. QED
      BY <3>1, <3>2, <3>3, PutOne DEF HistType
  <2>6. TransferBookkeeping'
    BY <1>2 DEF UiShow, thread, TabConsistent, TransferBookkeeping
  <2>7. QED
    BY <2>1, <2>3, <2>4, <2>5, <2>6 DEF TabConsistent, TypeOK
<1>3. CASE UiEnding
  <2>1. NetType' /\ TaskType' /\ ThreadType' /\ HistType'
    BY <1>3, Frame DEF UiEnding
  <2>2. ChansType'
    <3>1. readQ' \in Seq(Messages) /\ Len(readQ') <= ReadCap
      BY <1>3, ReadQStep DEF UiEnding
    <3>2. UNCHANGED <<writeQ, resizeQ, ctl>>
      BY <1>3 DEF UiEnding
    <3>3. QED
      BY <3>1, <3>2, WriteQStep, QueuesBounded, ChansStep
  <2>3. TabType'
    <3>1. Head(readQ).tag \in Endings
      BY <1>3, TakeOne, QueuesBounded, TagType DEF UiEnding
    <3>2. /\ status' = Head(readQ).tag /\ ui' = "keys"
          /\ UNCHANGED <<open, prompt, tap, doneRx, progress>>
      BY <1>3 DEF UiEnding
    <3>3. QED
      BY <3>1, <3>2 DEF TabConsistent, TypeOK, TabType
  <2>4. TransferBookkeeping'
    BY <1>3 DEF UiEnding, thread, hist, TabConsistent, TransferBookkeeping
  <2>5. QED
    BY <2>1, <2>2, <2>3, <2>4 DEF TabConsistent, TypeOK
<1>4. ASSUME NEW t \in Receivers, UiStartReceive(t)
      PROVE  TabConsistent'
  <2>1. NetType' /\ TaskType'
    BY <1>4, Frame DEF UiStartReceive
  <2>2. ChansType'
    <3>1. readQ' \in Seq(Messages) /\ Len(readQ') <= ReadCap
      BY <1>4, ReadQStep DEF UiStartReceive
    <3>2. UNCHANGED <<writeQ, resizeQ, ctl>>
      BY <1>4 DEF UiStartReceive
    <3>3. QED
      BY <3>1, <3>2, WriteQStep, QueuesBounded, ChansStep
  <2>3. TabType'
    BY <1>4 DEF UiStartReceive, Spawn, Transfers, TabConsistent, TypeOK, TabType
  <2>4. t \in Transfers
    BY DEF Transfers
  <2>5. ThreadType' /\ HistType'
    <3>1. Head(readQ).chunk \in Nat
      BY <1>4, TakeOne, QueuesBounded, ChunkType DEF UiStartReceive
    <3>2. <<Head(readQ).chunk>> \in Seq(Nat) /\ Len(<<Head(readQ).chunk>>) <= 1
      BY <3>1, OneMessage
    <3>3. QED
      BY <1>4, <2>4, <3>2, SpawnConsistent DEF UiStartReceive
  <2>6. TransferBookkeeping'
    BY <1>4, <2>4, SpawnBookkeeping DEF UiStartReceive
  <2>7. QED
    BY <2>1, <2>2, <2>3, <2>5, <2>6 DEF TabConsistent, TypeOK
<1>5. ASSUME NEW t \in Senders, UiStartSend(t)
      PROVE  TabConsistent'
  <2>1. NetType' /\ TaskType' /\ ChansType'
    BY <1>5, Frame DEF UiStartSend
  <2>2. TabType'
    BY <1>5 DEF UiStartSend, Spawn, Transfers, TabConsistent, TypeOK, TabType
  <2>3. t \in Transfers
    BY DEF Transfers
  <2>4. ThreadType' /\ HistType'
    <3>1. <<>> \in Seq(Nat) /\ Len(<<>>) <= 1
      BY NoMessage
    <3>2. QED
      BY <1>5, <2>3, <3>1, SpawnConsistent DEF UiStartSend
  <2>5. TransferBookkeeping'
    BY <1>5, <2>3, SpawnBookkeeping DEF UiStartSend
  <2>6. QED
    BY <2>1, <2>2, <2>4, <2>5 DEF TabConsistent, TypeOK
<1>6. CASE UiDrained \/ UiNoKey \/ UiSendFile \/ UiCancelPrompt
  <2> USE DEF UiDrained, UiNoKey, UiSendFile, UiCancelPrompt
  <2>1. NetType' /\ TaskType' /\ ChansType' /\ ThreadType' /\ HistType'
    BY <1>6, Frame
  <2>2. TabType'
    BY <1>6 DEF TabConsistent, TypeOK, TabType
  <2>3. TransferBookkeeping'
    BY <1>6, BookkeepingFrame DEF chans, thread, hist
  <2>4. QED
    BY <2>1, <2>2, <2>3 DEF TabConsistent, TypeOK
<1>7. CASE UiType
  <2>1. NetType' /\ TaskType' /\ ThreadType' /\ HistType'
    BY <1>7, Frame DEF UiType
  <2>2. /\ writeQ' \in Seq(Transfers \cup {User}) /\ Len(writeQ') <= WriteCap
        /\ status' \in {"connected"} \cup Endings
    BY <1>7, QueueWriteStep DEF UiType
  <2>3. ChansType'
    <3>1. UNCHANGED <<readQ, resizeQ, ctl>>
      BY <1>7 DEF UiType
    <3>2. QED
      BY <2>2, <3>1, ReadQStep, QueuesBounded, ChansStep
  <2>4. TabType'
    <3>1. ui' = "poll" /\ UNCHANGED <<open, prompt, tap, doneRx, progress>>
      BY <1>7 DEF UiType
    <3>2. QED
      BY <2>2, <3>1 DEF TabConsistent, TypeOK, TabType
  <2>5. TransferBookkeeping'
    BY <1>7, BookkeepingFrame DEF UiType, thread, hist
  <2>6. QED
    BY <2>1, <2>3, <2>4, <2>5 DEF TabConsistent, TypeOK
<1>8. CASE UiResize
  <2>1. NetType' /\ TaskType' /\ ThreadType' /\ HistType'
    BY <1>8, Frame DEF UiResize
  <2>2. ChansType'
    <3>1. resizeQ' \in 0..ResizeCap
      <4>1. resizeQ \in 0..ResizeCap /\ ResizeCap \in Nat
        BY QueuesBounded
      <4>2. \/ resizeQ' = resizeQ
            \/ resizeQ < ResizeCap /\ resizeQ' = resizeQ + 1
        BY <1>8 DEF UiResize
      <4>3. QED
        BY <4>1, <4>2
    <3>2. UNCHANGED <<readQ, writeQ, ctl>>
      BY <1>8 DEF UiResize
    <3>3. QED
      BY <3>1, <3>2, ReadQStep, WriteQStep, QueuesBounded, ChansStep
  <2>3. TabType'
    BY <1>8 DEF UiResize, Endings, TabConsistent, TypeOK, TabType
  <2>4. TransferBookkeeping'
    BY <1>8, BookkeepingFrame DEF UiResize, thread, hist
  <2>5. QED
    BY <2>1, <2>2, <2>3, <2>4 DEF TabConsistent, TypeOK
<1>9. CASE UiCloseTab
  <2>1. NetType' /\ TaskType' /\ ThreadType' /\ HistType'
    BY <1>9, Frame DEF UiCloseTab
  <2>2. ChansType'
    <3>1. UNCHANGED <<writeQ, resizeQ, ctl>> /\ readQ' = <<>>
      BY <1>9 DEF UiCloseTab
    <3>2. QED
      BY <3>1, ReadQStep, WriteQStep, QueuesBounded, ChansStep
  <2>3. TabType'
    BY <1>9 DEF UiCloseTab, TabConsistent, TypeOK, TabType
  <2>4. TransferBookkeeping'
    BY <1>9 DEF UiCloseTab, thread, hist, TabConsistent, TransferBookkeeping
  <2>5. QED
    BY <2>1, <2>2, <2>3, <2>4 DEF TabConsistent, TypeOK
<1>10. QED
  BY <1>1, <1>2, <1>3, <1>4, <1>5, <1>6, <1>7, <1>8, <1>9 DEF UiTick, UiEvent

LEMMA ScriptConsistent ==
  ASSUME TabConsistent, RemoteHangsUp \/ ScriptSend \/ ScriptDisconnect
  PROVE  TabConsistent'
<1>1. CASE RemoteHangsUp
  <2>1. TaskType' /\ ChansType' /\ TabType' /\ ThreadType' /\ HistType'
    BY <1>1, Frame DEF RemoteHangsUp
  <2>2. NetType'
    BY <1>1 DEF RemoteHangsUp, TabConsistent, TypeOK, NetType
  <2>3. TransferBookkeeping'
    BY <1>1, BookkeepingFrame DEF RemoteHangsUp, tab, chans, thread, hist
  <2>4. QED
    BY <2>1, <2>2, <2>3 DEF TabConsistent, TypeOK
<1>2. CASE ScriptSend
  <2>1. NetType' /\ TaskType' /\ TabType' /\ ThreadType' /\ HistType'
    BY <1>2, Frame DEF ScriptSend
  <2>2. ChansType'
    <3>1. writeQ' \in Seq(Transfers \cup {User}) /\ Len(writeQ') <= WriteCap
      BY <1>2, WriteQStep DEF ScriptSend
    <3>2. UNCHANGED <<readQ, resizeQ, ctl>>
      BY <1>2 DEF ScriptSend
    <3>3. QED
      BY <3>1, <3>2, ReadQStep, QueuesBounded, ChansStep
  <2>3. TransferBookkeeping'
    BY <1>2, BookkeepingFrame DEF ScriptSend, tab, thread, hist
  <2>4. QED
    BY <2>1, <2>2, <2>3 DEF TabConsistent, TypeOK
<1>3. CASE ScriptDisconnect
  <2>1. NetType' /\ TaskType' /\ TabType' /\ ThreadType' /\ HistType'
    BY <1>3, Frame DEF ScriptDisconnect
  <2>2. ChansType'
    BY <1>3 DEF ScriptDisconnect, TabConsistent, TypeOK, ChansType
  <2>3. TransferBookkeeping'
    BY <1>3, BookkeepingFrame DEF ScriptDisconnect, tab, thread, hist
  <2>4. QED
    BY <2>1, <2>2, <2>3 DEF TabConsistent, TypeOK
<1>4. QED
  BY <1>1, <1>2, <1>3

\* A thread that changes state has been started and does not become idle.
LEMMA GotoStep ==
  ASSUME TabConsistent, NEW t \in Transfers, th[t] # "idle",
         NEW state \in ThreadStates \ {"idle"}, Goto(t, state),
         UNCHANGED <<rx, done>>, UNCHANGED tapQ
  PROVE  ThreadType'
<1>1. th' = [th EXCEPT ![t] = state]
  BY DEF Goto
<1>2. QED
  BY <1>1 DEF TabConsistent, TypeOK, ThreadType

LEMMA GotoBookkeeping ==
  ASSUME TabConsistent, UNCHANGED <<open, tap, doneRx, readQ, got>>,
         NEW t \in Transfers, th[t] # "idle",
         NEW state \in ThreadStates \ {"idle"}, Goto(t, state)
  PROVE  TransferBookkeeping'
<1>1. th' = [th EXCEPT ![t] = state]
  BY DEF Goto
<1>2. QED
  BY <1>1, BookkeepingFrame

LEMMA ThreadConsistent ==
  ASSUME TabConsistent, NEW t \in Transfers, ThreadStep(t) \/ ThreadPanics(t)
  PROVE  TabConsistent'
<1>1. CASE ThreadWrite(t)
  <2>1. NetType' /\ TaskType' /\ TabType' /\ HistType'
    BY <1>1, Frame DEF ThreadWrite
  <2>2. ChansType'
    <3>1. writeQ' \in Seq(Transfers \cup {User}) /\ Len(writeQ') <= WriteCap
      BY <1>1, WriteQStep DEF ThreadWrite
    <3>2. UNCHANGED <<readQ, resizeQ, ctl>>
      BY <1>1 DEF ThreadWrite
    <3>3. QED
      BY <3>1, <3>2, ReadQStep, QueuesBounded, ChansStep
  <2>3. PICK state \in ThreadStates \ {"idle"} : Goto(t, state)
    BY <1>1 DEF ThreadWrite, ThreadStates
  <2>4. th[t] # "idle" /\ UNCHANGED <<rx, tapQ, done>>
    BY <1>1 DEF ThreadWrite
  <2>5. ThreadType'
    BY <2>3, <2>4, GotoStep
  <2>6. TransferBookkeeping'
    BY <1>1, <2>3, <2>4, GotoBookkeeping DEF ThreadWrite, tab, hist
  <2>7. QED
    BY <2>1, <2>2, <2>5, <2>6 DEF TabConsistent, TypeOK
<1>2. CASE ThreadRead(t)
  <2>1. NetType' /\ TaskType' /\ ChansType' /\ HistType'
    BY <1>2, Frame DEF ThreadRead
  <2>2. TabType'
    BY <1>2 DEF ThreadRead, TabConsistent, TypeOK, TabType
  <2>3. PICK state \in ThreadStates \ {"idle"} : Goto(t, state)
    BY <1>2 DEF ThreadRead, ThreadStates
  <2>4. th[t] # "idle" /\ UNCHANGED <<rx, done>>
    BY <1>2 DEF ThreadRead
  <2>5. ThreadType'
    <3>1. tapQ \in [Transfers -> Seq(Nat)] /\ Len(tapQ[t]) <= TapCap
      BY DEF TabConsistent, TypeOK, ThreadType
    <3>2. tapQ' = [tapQ EXCEPT ![t] = Tail(tapQ[t])] /\ tapQ[t] # <<>>
      BY <1>2 DEF ThreadRead
    <3>3. tapQ' \in [Transfers -> Seq(Nat)] /\ \A u \in Transfers : Len(tapQ'[u]) <= TapCap
      <4>1. Tail(tapQ[t]) \in Seq(Nat) /\ Len(Tail(tapQ[t])) <= TapCap
        BY <3>1, <3>2, ReceiveBounded, QueuesBounded
      <4>2. QED
        BY <3>2, <4>1, TapStep
    <3>4. th' = [th EXCEPT ![t] = state] /\ th \in [Transfers -> ThreadStates]
      BY <2>3 DEF Goto, TabConsistent, TypeOK, ThreadType
    <3>5. th' \in [Transfers -> ThreadStates]
      BY <3>4
    <3>6. QED
      BY <2>4, <3>3, <3>5 DEF TabConsistent, TypeOK, ThreadType
  <2>6. TransferBookkeeping'
    BY <1>2, <2>3, <2>4, GotoBookkeeping DEF ThreadRead, chans, hist
  <2>7. QED
    BY <2>1, <2>2, <2>5, <2>6 DEF TabConsistent, TypeOK
<1>3. CASE ThreadStarves(t) \/ ThreadPanics(t)
  <2>1. NetType' /\ TaskType' /\ ChansType' /\ TabType' /\ HistType'
    BY <1>3, Frame DEF ThreadStarves, ThreadPanics
  <2>2. PICK state \in ThreadStates \ {"idle"} : Goto(t, state)
    BY <1>3 DEF ThreadStarves, ThreadPanics, ThreadStates
  <2>3. th[t] # "idle" /\ UNCHANGED <<rx, tapQ, done>>
    BY <1>3 DEF ThreadStarves, ThreadPanics
  <2>4. ThreadType'
    BY <2>2, <2>3, GotoStep
  <2>5. TransferBookkeeping'
    BY <1>3, <2>2, <2>3, GotoBookkeeping
    DEF ThreadStarves, ThreadPanics, chans, tab, hist
  <2>6. QED
    BY <2>1, <2>4, <2>5 DEF TabConsistent, TypeOK
<1>4. CASE ThreadDropsStream(t)
  <2>1. NetType' /\ TaskType' /\ ChansType' /\ TabType' /\ HistType'
    BY <1>4, Frame DEF ThreadDropsStream
  <2>2. ThreadType'
    <3>1. <<>> \in Seq(Nat) /\ Len(<<>>) <= TapCap
      BY NoMessage, QueuesBounded
    <3>2. tapQ' \in [Transfers -> Seq(Nat)] /\ \A u \in Transfers : Len(tapQ'[u]) <= TapCap
      BY <1>4, <3>1, TapStep DEF ThreadDropsStream
    <3>3. rx' = [rx EXCEPT ![t] = FALSE] /\ UNCHANGED <<th, done>>
      BY <1>4 DEF ThreadDropsStream
    <3>4. QED
      BY <3>2, <3>3 DEF TabConsistent, TypeOK, ThreadType
  <2>3. TransferBookkeeping'
    BY <1>4, BookkeepingFrame DEF ThreadDropsStream, chans, tab, hist
  <2>4. QED
    BY <2>1, <2>2, <2>3 DEF TabConsistent, TypeOK
<1>5. CASE ThreadReports(t)
  <2>1. NetType' /\ TaskType' /\ ChansType' /\ TabType' /\ HistType'
    BY <1>5, Frame DEF ThreadReports
  <2>2. ThreadType'
    <3>1. PICK r \in {"pending", "ok", "err", "closed"} : done' = [done EXCEPT ![t] = r]
      BY <1>5 DEF ThreadReports
    <3>2. th' = [th EXCEPT ![t] = "reported"] /\ UNCHANGED <<rx, tapQ>>
      BY <1>5 DEF ThreadReports, Goto
    <3>3. th \in [Transfers -> ThreadStates] /\ "reported" \in ThreadStates
          /\ done \in [Transfers -> {"pending", "ok", "err", "closed"}]
      BY DEF TabConsistent, TypeOK, ThreadType, ThreadStates
    <3>4. th' \in [Transfers -> ThreadStates]
          /\ done' \in [Transfers -> {"pending", "ok", "err", "closed"}]
      BY <3>1, <3>2, <3>3
    <3>5. QED
      BY <3>2, <3>4 DEF TabConsistent, TypeOK, ThreadType
  <2>3. TransferBookkeeping'
    <3>1. th[t] # "idle" /\ Goto(t, "reported") /\ UNCHANGED <<open, tap, doneRx, readQ, got>>
      BY <1>5 DEF ThreadReports, chans, tab, hist
    <3>2. QED
      BY <3>1, GotoBookkeeping DEF ThreadStates
  <2>4. QED
    BY <2>1, <2>2, <2>3 DEF TabConsistent, TypeOK
<1>6. QED
  BY <1>1, <1>2, <1>3, <1>4, <1>5 DEF ThreadStep

LEMMA InitConsistent == Init => TabConsistent
<1> SUFFICES ASSUME Init PROVE TabConsistent
  OBVIOUS
<1>1. NetType /\ TaskType /\ HistType
  BY DEF Init, NetType, TaskType, HistType
<1>2. ChansType
  <2>1. 0 <= ReadCap /\ 0 <= WriteCap /\ 0 \in 0..ResizeCap
    BY SessionAssumption
  <2>2. readQ = <<>> /\ writeQ = <<>> /\ resizeQ = 0 /\ ctl = FALSE
    BY DEF Init
  <2>3. QED
    BY <2>1, <2>2, NoMessage DEF ChansType
<1>3. ThreadType
  <2>1. 0 <= TapCap
    BY SessionAssumption
  <2>2. /\ th = [t \in Transfers |-> "idle"] /\ rx = [t \in Transfers |-> FALSE]
        /\ tapQ = [t \in Transfers |-> <<>>] /\ done = [t \in Transfers |-> "pending"]
    BY DEF Init
  <2>3. \A t \in Transfers : Len(tapQ[t]) <= TapCap
    BY <2>1, <2>2, NoMessage
  <2>4. QED
    BY <2>2, <2>3 DEF ThreadType, ThreadStates
<1>4. TabType
  BY DEF Init, TabType
<1>5. TransferBookkeeping
  BY DEF Init, TransferBookkeeping
<1>6. QED
  BY <1>1, <1>2, <1>3, <1>4, <1>5 DEF TabConsistent, TypeOK

LEMMA NextConsistent == TabConsistent /\ [Next]_vars => TabConsistent'
<1> SUFFICES ASSUME TabConsistent, [Next]_vars
             PROVE  TabConsistent'
  OBVIOUS
<1>1. CASE UNCHANGED vars
  <2>1. NetType' /\ TaskType' /\ ChansType' /\ TabType' /\ ThreadType' /\ HistType'
    BY <1>1, Frame DEF vars
  <2>2. TransferBookkeeping'
    BY <1>1, BookkeepingFrame DEF vars, chans, tab, thread, hist
  <2>3. QED
    BY <2>1, <2>2 DEF TabConsistent, TypeOK
<1>2. CASE \/ RemoteHangsUp \/ ScriptSend \/ ScriptDisconnect
  BY <1>2, ScriptConsistent
<1>3. CASE (\E kind \in Kinds : IoRead(kind)) \/ IoStep
  BY <1>3, IoConsistent
<1>4. CASE UiTick \/ UiEvent
  BY <1>4, UiConsistent
<1>5. CASE \E t \in Transfers : ThreadStep(t) \/ ThreadPanics(t)
  BY <1>5, ThreadConsistent
<1>6. QED
  BY <1>1, <1>2, <1>3, <1>4, <1>5 DEF Next

\* Type correctness, and the transfer bookkeeping of a tab: whatever the
\* I/O task, the UI thread and the transfer threads do, the tap and the
\* awaited result belong to one and the same started transfer.
THEOREM Consistency == Safety => []TabConsistent
<1>1. QED
  BY InitConsistent, NextConsistent, PTL DEF Safety

-----------------------------------------------------------------------------
\* Only the UI thread touches the tap, in three places.
LEMMA TapKeepers ==
  ASSUME [Next]_vars, tap' # tap
  PROVE  UiPoll \/ (\E t \in Receivers : UiStartReceive(t))
                \/ (\E t \in Senders : UiStartSend(t))
<1>1. RemoteHangsUp \/ ScriptSend \/ ScriptDisconnect => UNCHANGED tap
  BY DEF RemoteHangsUp, ScriptSend, ScriptDisconnect, tab
<1>2. (\E kind \in Kinds : IoRead(kind)) => UNCHANGED tap
  BY DEF IoRead, tab
<1>3. IoStep => UNCHANGED tap
  BY DEF IoStep, IoReadFails, IoSend, IoWrite, IoResize, IoControl, IoSeesTabGone, tab
<1>4. UiShow \/ UiEnding \/ UiDrained \/ UiNoKey => UNCHANGED tap
  BY DEF UiShow, UiEnding, UiDrained, UiNoKey
<1>5. UiType \/ UiResize \/ UiSendFile \/ UiCancelPrompt \/ UiCloseTab => UNCHANGED tap
  BY DEF UiType, UiResize, UiSendFile, UiCancelPrompt, UiCloseTab
<1>6. \A t \in Transfers : ThreadStep(t) \/ ThreadPanics(t) => UNCHANGED tap
  BY DEF ThreadStep, ThreadWrite, ThreadRead, ThreadStarves, ThreadDropsStream,
         ThreadReports, ThreadPanics, tab
<1>7. UNCHANGED vars => UNCHANGED tap
  BY DEF vars, tab
<1>8. QED
  BY <1>1, <1>2, <1>3, <1>4, <1>5, <1>6, <1>7 DEF Next, UiTick, UiEvent

\* An offer never takes the connection from a running transfer.
THEOREM HandedOver == Safety => TapHandedOver
<1>1. ASSUME TabConsistent, [Next]_vars, tap # None, tap' # tap
      PROVE  done[tap] # "pending" \/ (prompt /\ tap' \in Senders)
  <2>1. tap = doneRx
    BY <1>1 DEF TabConsistent, TransferBookkeeping
  <2>2. CASE UiPoll
    BY <1>1, <2>1, <2>2 DEF UiPoll, TransferFinished
  <2>3. CASE \E t \in Receivers : UiStartReceive(t)
    BY <1>1, <2>1, <2>3 DEF UiStartReceive, StartsReceive
  <2>4. CASE \E t \in Senders : UiStartSend(t)
    BY <2>4 DEF UiStartSend, Spawn
  <2>5. QED
    BY <1>1, <2>2, <2>3, <2>4, TapKeepers
<1>2. TabConsistent /\ [Next]_vars =>
        [tap # None /\ tap' # tap =>
           done[tap] # "pending" \/ (prompt /\ tap' \in Senders)]_vars
  BY <1>1
<1>3. QED
  BY <1>2, Consistency, PTL DEF Safety, TapHandedOver


-----------------------------------------------------------------------------
(* The chunks of a queue of messages.                                      *)

LEMMA ChunksAppend ==
  ASSUME NEW q \in Seq(Messages), NEW m \in Messages
  PROVE  Chunks(Append(q, m)) = Append(Chunks(q), m.chunk)
<1>1. DOMAIN q = 1..Len(q) /\ DOMAIN Append(q, m) = 1..Len(q) + 1 /\ Len(q) \in Nat
  OBVIOUS
<1>2. Chunks(q) \in Seq(Nat) /\ Len(Chunks(q)) = Len(q)
  BY <1>1, ChunkType DEF Chunks
<1>3. Append(Chunks(q), m.chunk) = [i \in 1..Len(q) + 1 |-> IF i = Len(q) + 1 THEN m.chunk ELSE Chunks(q)[i]]
  BY <1>2
<1>4. QED
  BY <1>1, <1>3 DEF Chunks

LEMMA ChunksTail ==
  ASSUME NEW q \in Seq(Messages), q # <<>>
  PROVE  /\ Chunks(q) # <<>>
         /\ Head(Chunks(q)) = Head(q).chunk
         /\ Tail(Chunks(q)) = Chunks(Tail(q))
<1>1. DOMAIN q = 1..Len(q) /\ DOMAIN Tail(q) = 1..Len(q) - 1 /\ Len(q) \in Nat \ {0}
  OBVIOUS
<1>2. Chunks(q) \in Seq(Nat) /\ Len(Chunks(q)) = Len(q)
  BY <1>1, ChunkType DEF Chunks
<1>3. Head(Chunks(q)) = Head(q).chunk
  BY <1>1, <1>2 DEF Chunks
<1>4. Tail(Chunks(q)) = Chunks(Tail(q))
  BY <1>1, <1>2 DEF Chunks
<1>5. QED
  BY <1>1, <1>2, <1>3, <1>4

LEMMA TailConcat ==
  ASSUME NEW S, NEW q \in Seq(S), NEW r \in Seq(S), q # <<>>
  PROVE  q \o r # <<>> /\ Head(q \o r) = Head(q) /\ Tail(q \o r) = Tail(q) \o r
OBVIOUS

LEMMA ConcatOne ==
  ASSUME NEW S, NEW q \in Seq(S), NEW e \in S
  PROVE  q \o <<e>> = Append(q, e) /\ q \o <<>> = q /\ <<>> \o q = q
OBVIOUS

LEMMA Single ==
  ASSUME NEW S, NEW r \in Seq(S), Len(r) = 1
  PROVE  r = <<Head(r)>> /\ Head(r) \in S
OBVIOUS

LEMMA AtMostOne ==
  ASSUME NEW S, NEW q \in Seq(S), q # <<>>, Len(q) <= 1
  PROVE  Len(q) = 1
<1>1. Len(q) # 0
  BY EmptySeq
<1>2. Len(q) \in Nat
  OBVIOUS
<1>3. QED
  BY <1>1, <1>2

LEMMA Suffix ==
  ASSUME NEW S, NEW p \in Seq(S), NEW q \in Seq(S), NEW k \in Nat,
         Len(p) = k + Len(q), \A i \in 1..Len(q) : p[k + i] = q[i]
  PROVE  SubSeq(p, k + 1, Len(p)) = q
<1> DEFINE r == SubSeq(p, k + 1, Len(p))
<1>1. Len(q) \in Nat
  OBVIOUS
<1>2. r \in Seq(S) /\ Len(r) = Len(q)
  BY <1>1
<1>3. \A i \in 1..Len(q) : r[i] = p[k + i]
  BY <1>1
<1>4. QED
  BY <1>1, <1>2, <1>3

LEMMA EndingInOne == ASSUME NEW m PROVE EndingIn(<<m>>) <=> m.tag # "data"
BY DEF EndingIn

LEMMA EndingInNone == ~EndingIn(<<>>)
BY DEF EndingIn

LEMMA DataIsNoEnding == \A n \in Nat \ {0} : ~EndingIn(<<Data(n)>>)
BY EndingInOne DEF Data

LEMMA EndingIsEnding ==
  \A e \in Endings : EndingIn(<<Ending(e)>>) /\ Ending(e).chunk = 0
BY EndingInOne DEF Ending, Endings

-----------------------------------------------------------------------------
(* Steps.                                                                  *)

\* The router's state is made of these variables only.
LEMMA RouterFrame ==
  ASSUME UNCHANGED <<stream, io, outbox, readQ, open, status, shown, got>>
  PROVE  UNCHANGED Routing!vars
BY DEF Routing!vars, Chunks, OnTheWay, Given, LinkCut, EndingIn

LEMMA GiveThread ==
  ASSUME TabConsistent, NEW t \in Transfers, NEW n,
         UNCHANGED shown, got' = [got EXCEPT ![t] = Append(got[t], n)]
  PROVE  Routing!Give(t, n)
<1>1. got \in [Transfers -> Seq(Nat)] /\ t # None
  BY SessionAssumption DEF TabConsistent, TypeOK, HistType
<1>2. QED
  BY <1>1 DEF Routing!Give, Given

LEMMA GiveScreen ==
  ASSUME TabConsistent, NEW n, UNCHANGED got, shown' = Append(shown, n)
  PROVE  Routing!Give(None, n)
BY SessionAssumption DEF Routing!Give, Given

LEMMA QueueTypes ==
  ASSUME TabConsistent
  PROVE  /\ outbox \in Seq(Messages) /\ Len(outbox) <= 1
         /\ readQ \in Seq(Messages) /\ OnTheWay \in Seq(Messages)
         /\ Len(stream) \in Nat /\ LinkCut \in BOOLEAN
         /\ conn # "up" => conn \in Endings
<1>1. outbox \in Seq(Messages) /\ Len(outbox) <= 1 /\ readQ \in Seq(Messages)
  BY QueuesBounded
<1>2. OnTheWay \in Seq(Messages)
  BY <1>1 DEF OnTheWay
<1>3. Len(stream) \in Nat
  <2>1. stream \in Seq(Kinds)
    BY DEF TabConsistent, TypeOK, NetType
  <2>2. QED
    BY <2>1
<1>4. LinkCut \in BOOLEAN
  BY DEF LinkCut, EndingIn
<1>5. conn # "up" => conn \in Endings
  BY DEF TabConsistent, TypeOK, NetType, Endings
<1>6. QED
  BY <1>1, <1>2, <1>3, <1>4, <1>5

\* While the task selects, nothing was announced and no chunk waits in it.
LEMMA SelectingRouter ==
  ASSUME TabConsistent, Selecting
  PROVE  ~LinkCut /\ outbox = <<>> /\ OnTheWay = readQ
BY EndingInNone, QueueTypes, ConcatOne DEF Selecting, LinkCut, OnTheWay

\* The messages the task then leaves in its outbox.
LEMMA OutboxAppends ==
  ASSUME TabConsistent, Selecting, NEW m \in Messages, outbox' = <<m>>,
         UNCHANGED readQ
  PROVE  Chunks(OnTheWay)' = Append(Chunks(OnTheWay), m.chunk)
<1>1. OnTheWay' = Append(readQ, m)
  BY QueueTypes, ConcatOne DEF OnTheWay
<1>2. QED
  BY <1>1, SelectingRouter, QueueTypes, ChunksAppend

LEMMA TaskCuts ==
  ASSUME TabConsistent, Selecting, NEW e \in Endings, outbox' = <<Ending(e)>>,
         UNCHANGED <<io, readQ, open, status, shown, got>>,
         Len(stream') \in {Len(stream), Len(stream) + 1}
  PROVE  Routing!Cut
<1>1. Chunks(OnTheWay)' = Append(Chunks(OnTheWay), 0)
  BY OutboxAppends, EndingType, EndingIsEnding
<1>2. ~LinkCut /\ LinkCut'
  BY SelectingRouter, EndingIsEnding DEF LinkCut
<1>3. UNCHANGED Given
  BY DEF Given
<1>4. QED
  BY <1>1, <1>2, <1>3 DEF Routing!Cut

LEMMA IoReadRoutes ==
  ASSUME TabConsistent, NEW kind \in Kinds, IoRead(kind)
  PROVE  Routing!Next
<1> DEFINE n == Len(stream) + 1
<1>1. /\ Selecting /\ stream' = Append(stream, kind)
      /\ UNCHANGED <<io, readQ, open, status, shown>>
  BY DEF IoRead, chans, tab
<1>2. Len(stream') = n /\ n \in Nat \ {0}
  <2>1. stream \in Seq(Kinds)
    BY DEF TabConsistent, TypeOK, NetType
  <2>2. QED
    BY <1>1, <2>1, PutOne
<1>3. CASE tap # None /\ rx[tap] /\ Len(tapQ[tap]) < TapCap
  <2>1. tap \in Transfers
    BY <1>3 DEF TabConsistent, TypeOK, TabType
  <2>2. got' = [got EXCEPT ![tap] = Append(got[tap], n)] /\ UNCHANGED outbox
    BY <1>3 DEF IoRead, Feed
  <2>3. Routing!Give(tap, n)
    BY <1>1, <2>1, <2>2, GiveThread
  <2>4. UNCHANGED <<Chunks(OnTheWay), LinkCut>> /\ ~LinkCut
    BY <1>1, <2>2, SelectingRouter DEF Chunks, OnTheWay, LinkCut, EndingIn
  <2>5. Routing!Divert(tap)
    BY <1>1, <1>2, <2>3, <2>4 DEF Routing!Divert
  <2>6. QED
    BY <1>3, <2>1, <2>5 DEF Routing!Next
<1>4. CASE tap # None /\ ~(rx[tap] /\ Len(tapQ[tap]) < TapCap)
  <2>1. PICK e \in Endings : outbox' = <<Ending(e)>>
    BY <1>4 DEF IoRead, Feed, Endings
  <2>2. UNCHANGED got
    BY <1>4 DEF IoRead, Feed
  <2>3. QED
    BY <1>1, <1>2, <2>1, <2>2, TaskCuts DEF Routing!Next
<1>5. CASE tap = None
  <2>1. outbox' = <<Data(n)>> /\ UNCHANGED got
    BY <1>5 DEF IoRead
  <2>2. Chunks(OnTheWay)' = Append(Chunks(OnTheWay), n)
    <3>1. Data(n) \in Messages /\ Data(n).chunk = n
      BY <1>2, DataType DEF Data
    <3>2. QED
      BY <1>1, <2>1, <3>1, OutboxAppends
  <2>3. ~LinkCut /\ ~LinkCut'
    <3>1. ~EndingIn(outbox')
      BY <1>2, <2>1, DataIsNoEnding
    <3>2. QED
      BY <1>1, <3>1, SelectingRouter DEF LinkCut, EndingIn
  <2>4. UNCHANGED <<Given, LinkCut>>
    BY <1>1, <2>1, <2>3 DEF Given, LinkCut, EndingIn
  <2>5. Routing!Arrive
    BY <1>1, <1>2, <2>2, <2>3, <2>4 DEF Routing!Arrive
  <2>6. QED
    BY <2>5 DEF Routing!Next
<1>6. QED
  BY <1>3, <1>4, <1>5

LEMMA IoSendRoutes ==
  ASSUME TabConsistent, IoSend
  PROVE  Routing!Next \/ UNCHANGED Routing!vars
<1>1. /\ io = "running" /\ outbox # <<>> /\ outbox' = <<>>
      /\ UNCHANGED <<stream, open, status, shown, got>>
  BY DEF IoSend, net, tab, hist
<1>2. outbox \in Seq(Messages) /\ Len(outbox) = 1 /\ readQ \in Seq(Messages)
  <2>1. outbox \in Seq(Messages) /\ Len(outbox) <= 1 /\ readQ \in Seq(Messages)
    BY QueueTypes
  <2>2. QED
    BY <1>1, <2>1, AtMostOne
<1>3. outbox = <<Head(outbox)>> /\ Head(outbox) \in Messages
  BY <1>2, Single
<1>4. UNCHANGED Given
  BY <1>1 DEF Given
<1>5. CASE /\ open
           /\ readQ' = Append(readQ, Head(outbox))
           /\ io' = IF Head(outbox).tag = "data" THEN "running" ELSE "ended"
  <2>1. UNCHANGED OnTheWay
    <3>1. OnTheWay = Append(readQ, Head(outbox))
      BY <1>2, <1>3, ConcatOne DEF OnTheWay
    <3>2. Append(readQ, Head(outbox)) \in Seq(Messages)
      BY <1>2, <1>3, PutOne
    <3>3. OnTheWay' = Append(readQ, Head(outbox))
      BY <1>1, <1>3, <1>5, <3>2, ConcatOne DEF OnTheWay
    <3>4. QED
      BY <3>1, <3>3
  <2>2. UNCHANGED Chunks(OnTheWay)
    BY <2>1 DEF Chunks
  <2>3. LinkCut <=> Head(outbox).tag # "data"
    BY <1>1, <1>3, EndingInOne DEF LinkCut
  <2>4. LinkCut' <=> Head(outbox).tag # "data"
    <3>1. ~EndingIn(outbox)'
      BY <1>1 DEF EndingIn
    <3>2. QED
      BY <1>5, <3>1 DEF LinkCut
  <2>5. LinkCut' = LinkCut
    BY <2>3, <2>4 DEF LinkCut, EndingIn
  <2>6. QED
    BY <1>1, <1>4, <2>2, <2>5 DEF Routing!vars
<1>6. CASE ~open /\ io' = "ended" /\ UNCHANGED readQ
  <2>1. readQ = <<>>
    BY <1>6 DEF TabConsistent, TransferBookkeeping
  <2>2. OnTheWay' = <<>> /\ Chunks(OnTheWay)' = <<>>
    <3>1. OnTheWay' = <<>>
      BY <1>1, <1>6, <2>1 DEF OnTheWay
    <3>2. Chunks(<<>>) = <<>>
      BY DEF Chunks
    <3>3. QED
      BY <3>1, <3>2 DEF Chunks
  <2>3. \E k \in 1..Len(Chunks(OnTheWay)) + 1 :
          Chunks(OnTheWay)' = SubSeq(Chunks(OnTheWay), k, Len(Chunks(OnTheWay)))
    <3>1. Chunks(OnTheWay) \in Seq(Nat)
      BY QueueTypes, ChunkType, SMTT(30) DEF Chunks
    <3>2. Len(Chunks(OnTheWay)) + 1 \in 1..Len(Chunks(OnTheWay)) + 1
      BY <3>1
    <3>3. SubSeq(Chunks(OnTheWay), Len(Chunks(OnTheWay)) + 1, Len(Chunks(OnTheWay))) = <<>>
      BY <3>1
    <3>4. QED
      BY <2>2, <3>2, <3>3
  <2>4. LinkCut' = TRUE
    BY <1>6 DEF LinkCut
  <2>5. open' = FALSE
    BY <1>1, <1>6 DEF TabConsistent, TypeOK, TabType
  <2>6. Routing!Leave
    BY <1>1, <1>4, <2>3, <2>4, <2>5 DEF Routing!Leave
  <2>7. QED
    BY <2>6 DEF Routing!Next
<1>7. QED
  BY <1>5, <1>6 DEF IoSend

\* The other branches of the select either keep the router or cut the link.
LEMMA IoRoutes ==
  ASSUME TabConsistent, (\E kind \in Kinds : IoRead(kind)) \/ IoStep
  PROVE  Routing!Next \/ UNCHANGED Routing!vars
<1>1. CASE \E kind \in Kinds : IoRead(kind)
  BY <1>1, IoReadRoutes
<1>2. CASE IoSend
  BY <1>2, IoSendRoutes
<1>3. CASE IoReadFails \/ IoWrite \/ IoResize \/ IoControl
  <2> USE DEF IoReadFails, IoWrite, IoResize, IoControl
  <2>1. Selecting /\ UNCHANGED <<io, stream, readQ, open, status, shown, got>>
    BY <1>3 DEF net, chans, tab, hist
  <2>2. CASE UNCHANGED outbox
    BY <2>1, <2>2, RouterFrame
  <2>3. CASE \E e \in Endings : outbox' = <<Ending(e)>>
    <3>1. Len(stream') \in {Len(stream), Len(stream) + 1}
      BY <2>1
    <3>2. QED
      BY <2>1, <2>3, <3>1, TaskCuts DEF Routing!Next
  <2>4. UNCHANGED outbox \/ \E e \in Endings : outbox' = <<Ending(e)>>
    <3>1. "disconnected" \in Endings /\ (conn # "up" => conn \in Endings)
      BY QueueTypes DEF Endings
    <3>2. QED
      BY <1>3, <3>1
  <2>5. QED
    BY <2>2, <2>3, <2>4
<1>4. CASE IoSeesTabGone
  <2>1. /\ Selecting /\ ~open /\ io' = "ended"
        /\ UNCHANGED <<stream, outbox, readQ, open, status, shown, got>>
    BY <1>4 DEF IoSeesTabGone, net, chans, tab, hist
  <2>2. UNCHANGED <<Chunks(OnTheWay), Given>>
    BY <2>1 DEF Chunks, OnTheWay, Given
  <2>3. \E k \in 1..Len(Chunks(OnTheWay)) + 1 :
          Chunks(OnTheWay)' = SubSeq(Chunks(OnTheWay), k, Len(Chunks(OnTheWay)))
    <3>1. Chunks(OnTheWay) \in Seq(Nat)
      BY QueueTypes, ChunkType, SMTT(30) DEF Chunks
    <3>2. 1 \in 1..Len(Chunks(OnTheWay)) + 1
      BY <3>1
    <3>3. SubSeq(Chunks(OnTheWay), 1, Len(Chunks(OnTheWay))) = Chunks(OnTheWay)
      BY <3>1
    <3>4. QED
      BY <2>2, <3>2, <3>3
  <2>4. LinkCut' = TRUE
    BY <2>1 DEF LinkCut
  <2>5. open' = FALSE
    BY <2>1 DEF TabConsistent, TypeOK, TabType
  <2>6. Routing!Leave
    BY <2>1, <2>2, <2>3, <2>4, <2>5 DEF Routing!Leave
  <2>7. QED
    BY <2>6 DEF Routing!Next
<1>5. QED
  BY <1>1, <1>2, <1>3, <1>4 DEF IoStep

LEMMA UiShowRoutes ==
  ASSUME TabConsistent, UiShow
  PROVE  Routing!Next
<1>1. /\ readQ # <<>> /\ Head(readQ).tag = "data" /\ readQ' = Tail(readQ)
      /\ shown' = Append(shown, Head(readQ).chunk)
      /\ UNCHANGED <<stream, io, outbox, open, got>>
  BY DEF UiShow, net, task
<1>2. outbox \in Seq(Messages) /\ readQ \in Seq(Messages) /\ OnTheWay \in Seq(Messages)
  BY QueueTypes
<1>3. /\ OnTheWay # <<>> /\ Head(OnTheWay) = Head(readQ)
      /\ OnTheWay' = Tail(OnTheWay)
  BY <1>1, <1>2, TailConcat DEF OnTheWay
<1>4. Head(readQ).chunk # 0
  BY <1>1, <1>2, TakeOne, DataHasChunk
<1>5. /\ Chunks(OnTheWay) # <<>> /\ Head(Chunks(OnTheWay)) = Head(readQ).chunk
      /\ Chunks(OnTheWay)' = Tail(Chunks(OnTheWay))
  BY <1>2, <1>3, ChunksTail DEF Chunks
<1>6. Routing!Give(None, Head(readQ).chunk)
  BY <1>1, GiveScreen
<1>7. UNCHANGED LinkCut
  BY <1>1 DEF LinkCut, EndingIn
<1>8. (status # "connected")' \in {status # "connected", status # "connected" \/ LinkCut}
  <2>1. UNCHANGED status \/ (io = "ended" /\ status' = "disconnected")
    BY DEF UiShow, QueueWrite
  <2>2. CASE UNCHANGED status
    BY <2>2
  <2>3. CASE io = "ended" /\ status' = "disconnected"
    BY <2>3 DEF LinkCut
  <2>4. QED
    BY <2>1, <2>2, <2>3
<1>9. Routing!Deliver(None)
  BY <1>1, <1>4, <1>5, <1>6, <1>7, <1>8 DEF Routing!Deliver
<1>10. QED
  BY <1>9 DEF Routing!Next, Routing!Sinks

LEMMA UiStartReceiveRoutes ==
  ASSUME TabConsistent, NEW t \in Receivers, UiStartReceive(t)
  PROVE  Routing!Next
<1>1. /\ readQ # <<>> /\ Head(readQ).tag = "data" /\ readQ' = Tail(readQ)
      /\ th[t] = "idle" /\ got' = [got EXCEPT ![t] = <<Head(readQ).chunk>>]
      /\ UNCHANGED <<stream, io, outbox, open, status, shown>>
  BY DEF UiStartReceive, StartsReceive, Spawn, net, task
<1>2. outbox \in Seq(Messages) /\ readQ \in Seq(Messages) /\ OnTheWay \in Seq(Messages)
  BY QueueTypes
<1>3. /\ OnTheWay # <<>> /\ Head(OnTheWay) = Head(readQ)
      /\ OnTheWay' = Tail(OnTheWay)
  BY <1>1, <1>2, TailConcat DEF OnTheWay
<1>4. Head(readQ).chunk # 0 /\ Head(readQ).chunk \in Nat
  BY <1>1, <1>2, TakeOne, DataHasChunk, ChunkType
<1>5. /\ Chunks(OnTheWay) # <<>> /\ Head(Chunks(OnTheWay)) = Head(readQ).chunk
      /\ Chunks(OnTheWay)' = Tail(Chunks(OnTheWay))
  BY <1>2, <1>3, ChunksTail DEF Chunks
<1>6. t \in Transfers
  BY DEF Transfers
<1>7. Routing!Give(t, Head(readQ).chunk)
  <2>1. got[t] = <<>>
    BY <1>1, <1>6 DEF TabConsistent, TransferBookkeeping
  <2>2. Append(<<>>, Head(readQ).chunk) = <<Head(readQ).chunk>>
    BY <1>4
  <2>3. QED
    BY <1>1, <1>6, <2>1, <2>2, GiveThread
<1>8. UNCHANGED LinkCut
  BY <1>1 DEF LinkCut, EndingIn
<1>9. Given[t] = <<>>
  BY <1>1, <1>6, SessionAssumption DEF Given, TabConsistent, TransferBookkeeping
<1>10. Routing!Deliver(t)
  BY <1>1, <1>4, <1>5, <1>7, <1>8, <1>9 DEF Routing!Deliver
<1>11. QED
  BY <1>6, <1>10 DEF Routing!Next, Routing!Sinks

LEMMA UiEndingRoutes ==
  ASSUME TabConsistent, UiEnding
  PROVE  Routing!Next
<1>1. /\ readQ # <<>> /\ Head(readQ).tag # "data" /\ readQ' = Tail(readQ)
      /\ status' = Head(readQ).tag
      /\ UNCHANGED <<stream, io, outbox, open, shown, got>>
  BY DEF UiEnding, net, task, hist
<1>2. outbox \in Seq(Messages) /\ readQ \in Seq(Messages) /\ OnTheWay \in Seq(Messages)
  BY QueueTypes
<1>3. /\ OnTheWay # <<>> /\ Head(OnTheWay) = Head(readQ)
      /\ OnTheWay' = Tail(OnTheWay)
  BY <1>1, <1>2, TailConcat DEF OnTheWay
<1>4. Head(readQ).chunk = 0 /\ Head(readQ).tag \in Endings
  BY <1>1, <1>2, TakeOne, DataHasChunk, TagType
<1>5. /\ Chunks(OnTheWay) # <<>> /\ Head(Chunks(OnTheWay)) = 0
      /\ Chunks(OnTheWay)' = Tail(Chunks(OnTheWay))
  BY <1>2, <1>3, <1>4, ChunksTail DEF Chunks
<1>6. UNCHANGED <<LinkCut, Given>>
  BY <1>1 DEF LinkCut, EndingIn, Given
<1>7. (status # "connected")' = TRUE
  BY <1>1, <1>4 DEF Endings
<1>8. Routing!Announce
  BY <1>1, <1>5, <1>6, <1>7 DEF Routing!Announce
<1>9. QED
  BY <1>8 DEF Routing!Next

\* A keystroke or a new window size on a dead link.
LEMMA StumbleRoutes ==
  ASSUME TabConsistent, UNCHANGED <<stream, io, outbox, readQ, open, shown, got>>,
         UNCHANGED status \/ (io = "ended" /\ status' = "disconnected")
  PROVE  Routing!Next \/ UNCHANGED Routing!vars
<1>1. CASE UNCHANGED status
  BY <1>1, RouterFrame
<1>2. CASE io = "ended" /\ status' = "disconnected"
  <2>1. LinkCut /\ (status # "connected")' = TRUE
    BY <1>2 DEF LinkCut
  <2>2. UNCHANGED <<Chunks(OnTheWay), Given, LinkCut>>
    BY DEF Chunks, OnTheWay, Given, LinkCut, EndingIn
  <2>3. Routing!Stumble
    BY <2>1, <2>2 DEF Routing!Stumble
  <2>4. QED
    BY <2>3 DEF Routing!Next
<1>3. QED
  BY <1>1, <1>2

LEMMA UiCloseTabRoutes ==
  ASSUME TabConsistent, UiCloseTab
  PROVE  Routing!Next
<1>1. /\ open' = FALSE /\ readQ' = <<>>
      /\ UNCHANGED <<stream, io, outbox, status, shown, got>>
  BY DEF UiCloseTab, net, task, hist
<1>2. outbox \in Seq(Messages) /\ readQ \in Seq(Messages)
  BY QueueTypes
<1>3. OnTheWay' = outbox
  BY <1>1, <1>2 DEF OnTheWay
<1>4. \E k \in 1..Len(Chunks(OnTheWay)) + 1 :
        Chunks(OnTheWay)' = SubSeq(Chunks(OnTheWay), k, Len(Chunks(OnTheWay)))
  <2>1. Chunks(OnTheWay)' = Chunks(outbox)
    BY <1>3 DEF Chunks
  <2>2. Len(readQ) \in Nat /\ Len(outbox) \in Nat
    BY <1>2
  <2>3. /\ OnTheWay \in Seq(Messages) /\ Len(OnTheWay) = Len(readQ) + Len(outbox)
        /\ \A i \in 1..Len(outbox) : OnTheWay[Len(readQ) + i] = outbox[i]
    BY <1>2 DEF OnTheWay
  <2>4. /\ Chunks(OnTheWay) \in Seq(Nat) /\ Len(Chunks(OnTheWay)) = Len(readQ) + Len(outbox)
        /\ \A i \in 1..Len(readQ) + Len(outbox) : Chunks(OnTheWay)[i] = OnTheWay[i].chunk
    BY <2>2, <2>3, ChunkType DEF Chunks
  <2>5. /\ Chunks(outbox) \in Seq(Nat) /\ Len(Chunks(outbox)) = Len(outbox)
        /\ \A i \in 1..Len(outbox) : Chunks(outbox)[i] = outbox[i].chunk
    BY <1>2, ChunkType DEF Chunks
  <2>6. Len(readQ) + 1 \in 1..Len(Chunks(OnTheWay)) + 1
    BY <2>2, <2>4
  <2>7. SubSeq(Chunks(OnTheWay), Len(readQ) + 1, Len(Chunks(OnTheWay))) = Chunks(outbox)
    <3> DEFINE p == Chunks(OnTheWay)
               q == Chunks(outbox)
               k == Len(readQ)
    <3>1. ASSUME NEW i \in 1..Len(q)
          PROVE  p[k + i] = q[i]
      <4>1. i \in 1..Len(outbox) /\ k + i \in 1..Len(readQ) + Len(outbox)
        BY <2>2, <2>5
      <4>2. p[k + i] = OnTheWay[k + i].chunk /\ q[i] = outbox[i].chunk
        BY <2>4, <2>5, <4>1
      <4>3. OnTheWay[k + i] = outbox[i]
        BY <2>3, <4>1
      <4>4. QED
        BY <4>2, <4>3
    <3>2. p \in Seq(Nat) /\ q \in Seq(Nat) /\ k \in Nat /\ Len(p) = k + Len(q)
      BY <2>2, <2>4, <2>5
    <3> HIDE DEF p, q, k
    <3>3. SubSeq(p, k + 1, Len(p)) = q
      BY <3>1, <3>2, Suffix
    <3>4. QED
      BY <3>3 DEF p, q, k
  <2>8. QED
    BY <2>1, <2>6, <2>7
<1>5. UNCHANGED <<LinkCut, Given>>
  BY <1>1 DEF LinkCut, EndingIn, Given
<1>6. Routing!Leave
  BY <1>1, <1>4, <1>5 DEF Routing!Leave
<1>7. QED
  BY <1>6 DEF Routing!Next

\* All other steps of the UI thread, of scripts, of the remote and of the
\* transfer threads leave the router alone, or stumble over a dead link.
LEMMA QuietRoutes ==
  ASSUME TabConsistent,
         \/ RemoteHangsUp \/ ScriptSend \/ ScriptDisconnect
         \/ UiPoll \/ UiDrained \/ UiNoKey \/ UiSendFile \/ UiCancelPrompt
         \/ UiType \/ UiResize
  PROVE  Routing!Next \/ UNCHANGED Routing!vars
<1>1. UNCHANGED <<stream, io, outbox, readQ, open, shown, got>>
  BY DEF RemoteHangsUp, ScriptSend, ScriptDisconnect, UiPoll, UiDrained, UiNoKey,
         UiSendFile, UiCancelPrompt, UiType, UiResize, net, task, chans, tab, hist
<1>2. UNCHANGED status \/ (io = "ended" /\ status' = "disconnected")
  BY DEF RemoteHangsUp, ScriptSend, ScriptDisconnect, UiPoll, UiDrained, UiNoKey,
         UiSendFile, UiCancelPrompt, UiType, UiResize, QueueWrite, tab
<1>3. QED
  BY <1>1, <1>2, StumbleRoutes

LEMMA ThreadRoutes ==
  ASSUME NEW t \in Transfers, ThreadStep(t) \/ ThreadPanics(t)
  PROVE  UNCHANGED Routing!vars
<1>1. UNCHANGED <<stream, io, outbox, readQ, open, status, shown, got>>
  BY DEF ThreadStep, ThreadWrite, ThreadRead, ThreadStarves, ThreadPanics,
         ThreadDropsStream, ThreadReports, net, task, chans, tab, hist
<1>2. QED
  BY <1>1, RouterFrame

LEMMA StartSendRoutes ==
  ASSUME TabConsistent, NEW t \in Senders, UiStartSend(t)
  PROVE  UNCHANGED Routing!vars
<1>1. t \in Transfers /\ got \in [Transfers -> Seq(Nat)]
  BY DEF Transfers, TabConsistent, TypeOK, HistType
<1>2. th[t] = "idle" /\ got' = [got EXCEPT ![t] = <<>>]
      /\ UNCHANGED <<stream, io, outbox, readQ, open, status, shown>>
  BY DEF UiStartSend, Spawn, net, task, chans
<1>3. got[t] = <<>>
  BY <1>1, <1>2 DEF TabConsistent, TransferBookkeeping
<1>4. UNCHANGED got
  BY <1>1, <1>2, <1>3
<1>5. QED
  BY <1>2, <1>4, RouterFrame

LEMMA StepRoutes ==
  TabConsistent /\ [Next]_vars => [Routing!Next]_(Routing!vars)
<1> SUFFICES ASSUME TabConsistent, [Next]_vars
             PROVE  Routing!Next \/ UNCHANGED Routing!vars
  OBVIOUS
<1>1. CASE UNCHANGED vars
  BY <1>1, RouterFrame DEF vars, net, task, chans, tab, hist
<1>2. CASE \/ RemoteHangsUp \/ ScriptSend \/ ScriptDisconnect
           \/ UiPoll \/ UiDrained \/ UiNoKey \/ UiSendFile \/ UiCancelPrompt
           \/ UiType \/ UiResize
  BY <1>2, QuietRoutes
<1>3. CASE (\E kind \in Kinds : IoRead(kind)) \/ IoStep
  BY <1>3, IoRoutes
<1>4. CASE UiShow \/ UiEnding \/ UiCloseTab
  BY <1>4, UiShowRoutes, UiEndingRoutes, UiCloseTabRoutes
<1>5. CASE \E t \in Receivers : UiStartReceive(t)
  BY <1>5, UiStartReceiveRoutes
<1>6. CASE \E t \in Senders : UiStartSend(t)
  BY <1>6, StartSendRoutes
<1>7. CASE \E t \in Transfers : ThreadStep(t) \/ ThreadPanics(t)
  BY <1>7, ThreadRoutes
<1>8. QED
  BY <1>1, <1>2, <1>3, <1>4, <1>5, <1>6, <1>7 DEF Next, UiTick, UiEvent

LEMMA InitRoutes == Init => Routing!Init
<1> SUFFICES ASSUME Init PROVE Routing!Init
  OBVIOUS
<1>1. Len(stream) = 0 /\ OnTheWay = <<>> /\ Chunks(<<>>) = <<>>
  BY DEF Init, OnTheWay, Chunks
<1>2. Given = [s \in {None} \cup Transfers |-> <<>>]
  BY DEF Init, Given
<1>3. LinkCut = FALSE
  BY EndingInNone DEF Init, LinkCut
<1>4. open = TRUE /\ (status # "connected") = FALSE
  BY DEF Init
<1>5. QED
  BY <1>1, <1>2, <1>3, <1>4 DEF Routing!Init, Routing!Sinks

\* A tab routes every chunk as ChunkRouting promises: one sink for each, in
\* order on each path, and none lost before the link is cut or the tab closed.
THEOREM Routes == Safety => RoutesChunks
<1>1. QED
  BY InitRoutes, StepRoutes, Consistency, PTL DEF Safety, RoutesChunks, Routing!Spec

Router == INSTANCE ChunkRoutingProofs WITH
  Screen  <- None,
  arrived <- Len(stream),
  pending <- Chunks(OnTheWay),
  at      <- Given,
  cut     <- LinkCut,
  noticed <- status # "connected"

\* The instance that brings the theorems of ChunkRoutingProofs is the one of
\* SessionIO under another name.
LEMMA SameRouter ==
  /\ Routing!Init => Router!Init
  /\ [Routing!Next]_(Routing!vars) => [Router!Next]_(Router!vars)
  /\ Router!DeliveredOnce => DeliversOnce
  /\ Router!NothingLost => Routing!NothingLost
<1>1. Routing!Init => Router!Init
  BY DEF Routing!Init, Router!Init, Routing!Sinks, Router!Sinks
<1>2. Router!DeliveredOnce => DeliversOnce
  BY DEF DeliversOnce, Routing!DeliveredOnce, Router!DeliveredOnce,
         Routing!Sinks, Router!Sinks, Routing!Increasing, Router!Increasing
<1>3. UNCHANGED Routing!vars => UNCHANGED Router!vars
  BY DEF Routing!vars, Router!vars
<1>4. Routing!Arrive => Router!Arrive
  BY DEF Routing!Arrive, Router!Arrive
<1>5. Routing!Cut => Router!Cut
  BY DEF Routing!Cut, Router!Cut
<1>6. Routing!Announce => Router!Announce
  BY DEF Routing!Announce, Router!Announce
<1>7. Routing!Stumble => Router!Stumble
  BY DEF Routing!Stumble, Router!Stumble
<1>8. Routing!Leave => Router!Leave
  BY DEF Routing!Leave, Router!Leave
<1>9. \A t \in Transfers : Routing!Divert(t) => Router!Divert(t)
  BY DEF Routing!Divert, Router!Divert, Routing!Give, Router!Give
<1>10. \A s \in Routing!Sinks : Routing!Deliver(s) => Router!Deliver(s)
  BY DEF Routing!Deliver, Router!Deliver, Routing!Give, Router!Give
<1>11. Routing!Sinks = Router!Sinks
  BY DEF Routing!Sinks, Router!Sinks
<1>12. Routing!Next => Router!Next
  BY <1>4, <1>5, <1>6, <1>7, <1>8, <1>9, <1>10, <1>11 DEF Routing!Next, Router!Next
<1>13. Router!NothingLost => Routing!NothingLost
  BY <1>11 DEF Routing!NothingLost, Router!NothingLost
<1>14. QED
  BY <1>1, <1>2, <1>3, <1>12, <1>13

\* Nothing is delivered twice, to two sinks, or out of order on one path.
THEOREM OnceAndInOrder == Safety => []DeliversOnce
<1>1. Router!Spec => []Router!DeliveredOnce
  BY Router!DeliversOnce
<1>2. QED
  BY <1>1, Routes, SameRouter, PTL DEF RoutesChunks, Routing!Spec, Router!Spec

\* What the abstract router accounts for, the tab accounts for: a pending 0
\* is an ending in one of the two queues, any other number a Data message.
LEMMA Accounted ==
  ASSUME TabConsistent, Routing!NothingLost
  PROVE  NoQuietLoss
<1>1. /\ readQ \in Seq(Messages) /\ outbox \in Seq(Messages)
      /\ OnTheWay \in Seq(Messages) /\ Len(stream) \in Nat
  BY QueueTypes
<1>2. \A i \in DOMAIN OnTheWay : OnTheWay[i] \in Messages
        /\ \/ \E j \in DOMAIN readQ : OnTheWay[i] = readQ[j]
           \/ \E j \in DOMAIN outbox : OnTheWay[i] = outbox[j]
  <2> SUFFICES ASSUME NEW i \in DOMAIN OnTheWay
               PROVE  OnTheWay[i] \in Messages
        /\ \/ \E j \in DOMAIN readQ : OnTheWay[i] = readQ[j]
           \/ \E j \in DOMAIN outbox : OnTheWay[i] = outbox[j]
    OBVIOUS
  <2>1. /\ DOMAIN readQ = 1..Len(readQ) /\ Len(readQ) \in Nat
        /\ DOMAIN outbox = 1..Len(outbox) /\ Len(outbox) \in Nat
        /\ i \in 1..Len(readQ) + Len(outbox)
        /\ OnTheWay[i] = IF i <= Len(readQ) THEN readQ[i] ELSE outbox[i - Len(readQ)]
    BY <1>1 DEF OnTheWay
  <2>2. OnTheWay[i] \in Messages
    BY <1>1
  <2>3. CASE i <= Len(readQ)
    BY <2>1, <2>2, <2>3
  <2>4. CASE ~(i <= Len(readQ))
    <3>1. i - Len(readQ) \in 1..Len(outbox)
      BY <2>1, <2>4
    <3>2. QED
      BY <2>1, <2>2, <2>4, <3>1
  <2>5. QED
    BY <2>3, <2>4
<1>3. \A i \in DOMAIN Chunks(OnTheWay) :
        i \in DOMAIN OnTheWay /\ Chunks(OnTheWay)[i] = OnTheWay[i].chunk
  BY DEF Chunks
<1>4. \A i \in DOMAIN Chunks(OnTheWay) :
        Chunks(OnTheWay)[i] = 0 => EndingIn(readQ) \/ EndingIn(outbox)
  BY <1>2, <1>3, DataHasChunk DEF EndingIn
<1>5. \A i \in DOMAIN Chunks(OnTheWay) :
        Chunks(OnTheWay)[i] # 0 =>
          Chunks(OnTheWay)[i] \in DataIn(readQ) \cup DataIn(outbox)
  BY <1>2, <1>3, DataHasChunk DEF DataIn
<1>6. \A s \in Routing!Sinks : Given[s] = IF s = None THEN shown ELSE got[s]
  BY DEF Given, Routing!Sinks
<1>7. \A s \in Routing!Sinks : \A i \in DOMAIN Given[s] :
        \/ Given[s][i] \in Elements(shown)
        \/ \E t \in Transfers : Given[s][i] \in Elements(got[t])
  BY <1>6 DEF Elements, Routing!Sinks
<1>8. CASE LinkCut
  BY <1>4, <1>8 DEF Routing!NothingLost, NoQuietLoss
<1>9. CASE ~LinkCut /\ open
  <2>1. \A n \in 1..Len(stream) :
          \/ n \in DataIn(readQ) \cup DataIn(outbox) \cup Elements(shown)
          \/ \E t \in Transfers : n \in Elements(got[t])
    <3> SUFFICES ASSUME NEW n \in 1..Len(stream)
                 PROVE  \/ n \in DataIn(readQ) \cup DataIn(outbox) \cup Elements(shown)
                        \/ \E t \in Transfers : n \in Elements(got[t])
      OBVIOUS
    <3>1. \/ \E i \in DOMAIN Chunks(OnTheWay) : Chunks(OnTheWay)[i] = n
          \/ \E s \in Routing!Sinks : \E i \in DOMAIN Given[s] : Given[s][i] = n
      BY <1>9 DEF Routing!NothingLost
    <3>2. n # 0
      BY <1>1
    <3>3. QED
      BY <1>5, <1>7, <3>1, <3>2
  <2>2. DOMAIN stream = 1..Len(stream)
    <3>1. stream \in Seq(Kinds)
      BY DEF TabConsistent, TypeOK, NetType
    <3>2. QED
      BY <3>1
  <2>3. QED
    BY <2>1, <2>2 DEF NoQuietLoss
<1>10. QED
  BY <1>8, <1>9 DEF NoQuietLoss

\* Nothing the connection yields is lost behind the user's back.
THEOREM NothingLostQuietly == Safety => []NoQuietLoss
<1>1. Router!Spec => []Router!NothingLost
  BY Router!LosesNothing
<1>2. TabConsistent /\ Routing!NothingLost => NoQuietLoss
  BY Accounted
<1>3. QED
  BY <1>1, <1>2, Routes, Consistency, SameRouter, PTL
     DEF RoutesChunks, Routing!Spec, Router!Spec

-----------------------------------------------------------------------------
(***************************************************************************)
(* What a transfer gets.  Its chunks run on without a gap because the      *)
(* newest chunk of the stream is the last it was given, for as long as it  *)
(* has the tap of a link that is not cut.                                  *)
(***************************************************************************)

UpTo(q, n) == \A i \in DOMAIN q : q[i].chunk <= n

\* Every chunk under way or given to a transfer was read.
Known ==
  /\ UpTo(readQ, Len(stream)) /\ UpTo(outbox, Len(stream))
  /\ \A t \in Transfers : \A i \in DOMAIN got[t] : got[t][i] <= Len(stream)

TapInv == Known /\ TapSeesEverything

LEMMA UpToAppend ==
  ASSUME NEW q \in Seq(Messages), NEW m \in Messages, NEW n \in Nat, UpTo(q, n), m.chunk <= n
  PROVE  UpTo(Append(q, m), n)
<1>1. /\ Len(q) \in Nat /\ DOMAIN q = 1..Len(q) /\ DOMAIN Append(q, m) = 1..Len(q) + 1
      /\ \A i \in 1..Len(q) : Append(q, m)[i] = q[i]
      /\ Append(q, m)[Len(q) + 1] = m
  OBVIOUS
<1>2. \A i \in 1..Len(q) + 1 : i \in 1..Len(q) \/ i = Len(q) + 1
  BY <1>1
<1> QED BY <1>1, <1>2 DEF UpTo

LEMMA UpToTail ==
  ASSUME NEW q \in Seq(Messages), q # <<>>, NEW n \in Nat, UpTo(q, n)
  PROVE  UpTo(Tail(q), n) /\ Head(q).chunk <= n /\ Head(q) \in Messages
<1>1. /\ Len(q) \in Nat \ {0} /\ DOMAIN q = 1..Len(q) /\ DOMAIN Tail(q) = 1..Len(q) - 1
      /\ \A i \in 1..Len(q) - 1 : Tail(q)[i] = q[i + 1]
      /\ Head(q) = q[1] /\ Head(q) \in Messages
  OBVIOUS
<1>2. 1 \in 1..Len(q) /\ \A i \in 1..Len(q) - 1 : i + 1 \in 1..Len(q)
  BY <1>1
<1> QED BY <1>1, <1>2 DEF UpTo

LEMMA UpToOne ==
  ASSUME NEW m, NEW n, m.chunk <= n
  PROVE  UpTo(<<m>>, n)
BY DEF UpTo

LEMMA UpToNone == \A n : UpTo(<<>>, n)
BY DEF UpTo

LEMMA UpToMore ==
  ASSUME NEW q \in Seq(Messages), NEW n \in Nat, UpTo(q, n)
  PROVE  UpTo(q, n + 1)
<1> SUFFICES ASSUME NEW i \in DOMAIN q PROVE q[i].chunk <= n + 1
  BY DEF UpTo
<1>1. q[i] \in Messages
  OBVIOUS
<1>2. q[i].chunk \in Nat /\ q[i].chunk <= n
  BY <1>1, ChunkType DEF UpTo
<1> QED BY <1>2

\* No chunk is read, no thread given one, and the link not mended.
LEMMA NothingRead ==
  ASSUME TabConsistent, TapInv, UNCHANGED <<stream, got>>, tap' \in {tap, None},
         LinkCut => LinkCut', UpTo(readQ', Len(stream)), UpTo(outbox', Len(stream))
  PROVE  TapInv'
<1>1. Known'
  BY DEF TapInv, Known
<1>2. \A t \in Transfers : InSequence(t)'
  BY DEF TapInv, TapSeesEverything, InSequence
<1>3. ASSUME tap' # None, ~LinkCut'
      PROVE  UpToDate(tap)'
  <2>1. tap' = tap /\ tap # None /\ ~LinkCut
    BY <1>3
  <2>2. UpToDate(tap)
    BY <2>1 DEF TapInv, TapSeesEverything
  <2> QED BY <2>1, <2>2 DEF UpToDate
<1>4. TapSeesEverything'
  BY <1>2, <1>3 DEF TapSeesEverything
<1> QED BY <1>1, <1>4 DEF TapInv

\* A chunk is read.
LEMMA ReadKeepsTap ==
  ASSUME TabConsistent, TapInv, NEW kind \in Kinds, IoRead(kind)
  PROVE  TapInv'
<1> DEFINE n == Len(stream) + 1
<1>1. /\ Selecting /\ stream' = Append(stream, kind)
      /\ IF tap # None THEN Feed(tap, n)
         ELSE outbox' = <<Data(n)>> /\ UNCHANGED <<tapQ, got>>
      /\ UNCHANGED <<io, readQ, tap>>
  BY DEF IoRead, chans, tab
<1>2. /\ stream \in Seq(Kinds) /\ Len(stream) \in Nat /\ Len(stream') = n /\ n \in Nat \ {0}
      /\ outbox = <<>> /\ readQ \in Seq(Messages)
      /\ got \in [Transfers -> Seq(Nat)] /\ tap \in Transfers \cup {None}
  <2>1. /\ stream \in Seq(Kinds) /\ got \in [Transfers -> Seq(Nat)] /\ tap \in Transfers \cup {None}
        /\ readQ \in Seq(Messages) /\ outbox = <<>>
    BY <1>1, QueueTypes DEF TabConsistent, TypeOK, NetType, HistType, TabType, Selecting
  <2> QED BY <2>1, <1>1
<1>k. /\ UpTo(readQ, n)
      /\ \A t \in Transfers : \A i \in DOMAIN got[t] : got[t][i] \in Nat /\ got[t][i] <= Len(stream)
  <2>1. UpTo(readQ, n)
    BY <1>2, UpToMore DEF TapInv, Known
  <2>2. \A t \in Transfers : got[t] \in Seq(Nat)
    BY <1>2
  <2>3. \A t \in Transfers : \A i \in DOMAIN got[t] : got[t][i] \in Nat
    BY <2>2
  <2> QED BY <2>1, <2>3 DEF TapInv, Known
<1>3. CASE UNCHANGED got /\ outbox' \in {<<Data(n)>>, <<Ending("tap full")>>, <<Ending("tap closed")>>}
           /\ (tap # None => EndingIn(outbox'))
  <2>1. UpTo(outbox', n)
    <3>1. UpTo(<<Data(n)>>, n)
      BY <1>2, UpToOne DEF Data
    <3>2. \A e : UpTo(<<Ending(e)>>, n)
      <4>1. \A e : Ending(e).chunk <= n
        BY <1>2 DEF Ending
      <4> QED BY <4>1, UpToOne
    <3>3. outbox' = <<Data(n)>> \/ outbox' = <<Ending("tap full")>> \/ outbox' = <<Ending("tap closed")>>
      BY <1>3
    <3> QED BY <3>1, <3>2, <3>3
  <2>2. \A t \in Transfers : \A i \in DOMAIN got[t] : got[t][i] <= n
    BY <1>k, <1>2
  <2>3. Known'
    BY <1>1, <1>2, <1>3, <1>k, <2>1, <2>2 DEF Known
  <2>4. \A t \in Transfers : InSequence(t)'
    BY <1>3 DEF TapInv, TapSeesEverything, InSequence
  <2>5. tap' # None => LinkCut'
    BY <1>1, <1>3 DEF LinkCut
  <2> QED BY <2>3, <2>4, <2>5 DEF TapInv, TapSeesEverything
<1>4. CASE tap # None /\ got' = [got EXCEPT ![tap] = Append(got[tap], n)] /\ UNCHANGED outbox
  <2>1. PICK t \in Transfers : t = tap
    BY <1>2, <1>4
  <2>2. /\ got[t] \in Seq(Nat) /\ Len(got[t]) \in Nat /\ DOMAIN got[t] = 1..Len(got[t])
        /\ DOMAIN got'[t] = 1..Len(got[t]) + 1 /\ Len(got'[t]) = Len(got[t]) + 1
        /\ got'[t][Len(got[t]) + 1] = n
        /\ \A i \in 1..Len(got[t]) : got'[t][i] = got[t][i]
        /\ \A u \in Transfers : u # t => got'[u] = got[u]
        /\ got'[t] # <<>>
    <3>1. got[t] \in Seq(Nat) /\ got'[t] = Append(got[t], n)
          /\ \A u \in Transfers : u # t => got'[u] = got[u]
      BY <1>2, <1>4, <2>1
    <3>2. PICK q \in Seq(Nat) : q = got[t]
      BY <3>1
    <3>3. /\ Len(q) \in Nat /\ DOMAIN q = 1..Len(q)
          /\ DOMAIN Append(q, n) = 1..Len(q) + 1 /\ Len(Append(q, n)) = Len(q) + 1
          /\ Append(q, n)[Len(q) + 1] = n
          /\ \A i \in 1..Len(q) : Append(q, n)[i] = q[i]
      BY <1>2, <3>2
    <3>4. got'[t] # <<>>
      <4>1. Len(Append(q, n)) # 0
        BY <3>3
      <4>2. Append(q, n) # <<>>
        BY <4>1
      <4> QED BY <3>1, <3>2, <4>2
    <3> QED BY <3>1, <3>2, <3>3, <3>4
  <2>3. Known'
    <3>1. ASSUME NEW u \in Transfers, NEW i \in DOMAIN got'[u]
          PROVE  got'[u][i] <= n
      <4>1. CASE u # t
        <5>1. got'[u][i] = got[u][i] /\ i \in DOMAIN got[u]
          BY <4>1, <3>1, <2>2
        <5> QED BY <5>1, <1>k, <1>2
      <4>2. CASE u = t /\ i \in 1..Len(got[t])
        <5>1. got'[t][i] = got[t][i] /\ i \in DOMAIN got[t]
          BY <4>2, <2>2
        <5> QED BY <5>1, <4>2, <1>k, <1>2
      <4>3. CASE u = t /\ i = Len(got[t]) + 1
        BY <4>3, <2>2, <1>2
      <4> QED BY <4>1, <4>2, <4>3, <3>1, <2>2
    <3> QED BY <3>1, <1>1, <1>2, <1>4, <1>k, UpToNone DEF Known
  <2>4. ~LinkCut
    BY <1>1, SelectingRouter
  <2>5. InSequence(t) /\ UpToDate(t)
    BY <1>4, <2>1, <2>4 DEF TapInv, TapSeesEverything
  <2>6. InSequence(t)'
    <3>1. ASSUME NEW i \in DOMAIN got'[t]
          PROVE  \/ i = 1
                 \/ t \in Receivers /\ i = 2 /\ got'[t][1] < got'[t][2]
                 \/ got'[t][i] = got'[t][i-1] + 1
      <4>1. CASE i \in 1..Len(got[t])
        <5>1. i = 1 \/ i - 1 \in 1..Len(got[t])
          BY <4>1, <2>2
        <5>2. got'[t][i] = got[t][i] /\ i \in DOMAIN got[t]
          BY <4>1, <2>2
        <5>3. CASE i = 1
          BY <5>3
        <5>4. CASE i # 1
          <6>1. got'[t][i - 1] = got[t][i - 1]
            BY <5>1, <5>4, <2>2
          <6>2. CASE t \in Receivers /\ i = 2 /\ got[t][1] < got[t][2]
            <7>1. got'[t][1] = got[t][1] /\ got'[t][2] = got[t][2]
              BY <5>2, <6>1, <6>2
            <7> QED BY <6>2, <7>1
          <6>3. CASE got[t][i] = got[t][i - 1] + 1
            BY <5>2, <6>1, <6>3
          <6> QED BY <5>2, <5>4, <6>2, <6>3, <2>5 DEF InSequence
        <5> QED BY <5>3, <5>4
      <4>2. CASE i = Len(got[t]) + 1
        <5>1. CASE got[t] = <<>>
          BY <4>2, <5>1
        <5>2. CASE t \in Receivers /\ Len(got[t]) = 1
          <6>1. got'[t][1] = got[t][1] /\ 1 \in DOMAIN got[t] /\ got'[t][2] = n /\ i = 2
            BY <4>2, <5>2, <2>2
          <6>2. got[t][1] < n
            BY <6>1, <1>k, <1>2
          <6> QED BY <5>2, <6>1, <6>2
        <5>3. CASE got[t] # <<>> /\ got[t][Len(got[t])] = Len(stream)
          <6>1. Len(got[t]) \in 1..Len(got[t])
            BY <5>3, <2>2, EmptySeq
          <6>2. got'[t][i - 1] = Len(stream) /\ got'[t][i] = n
            BY <4>2, <5>3, <6>1, <2>2
          <6> QED BY <6>2
        <5> QED BY <5>1, <5>2, <5>3, <2>5 DEF UpToDate
      <4> QED BY <4>1, <4>2, <3>1, <2>2
    <3> QED BY <3>1 DEF InSequence
  <2>7. \A u \in Transfers : InSequence(u)'
    <3>1. ASSUME NEW u \in Transfers, u # t PROVE InSequence(u)'
      BY <3>1, <2>2 DEF TapInv, TapSeesEverything, InSequence
    <3> QED BY <3>1, <2>6
  <2>8. UpToDate(t)'
    BY <2>2, <1>2 DEF UpToDate
  <2>9. tap' = t
    BY <1>1, <2>1
  <2>10. UpToDate(tap)'
    BY <2>8, <2>9 DEF UpToDate
  <2> QED BY <2>3, <2>7, <2>10 DEF TapInv, TapSeesEverything
<1>5. CASE tap = None
  <2>1. outbox' = <<Data(n)>> /\ UNCHANGED got
    BY <1>1, <1>5
  <2> QED BY <2>1, <1>5, <1>3
<1>6. CASE tap # None
  <2>1. CASE rx[tap] /\ Len(tapQ[tap]) < TapCap
    BY <1>1, <1>4, <1>6, <2>1 DEF Feed
  <2>2. CASE ~(rx[tap] /\ Len(tapQ[tap]) < TapCap)
    <3>1. /\ outbox' \in {<<Ending("tap full")>>, <<Ending("tap closed")>>}
          /\ UNCHANGED got
      BY <1>1, <1>6, <2>2 DEF Feed
    <3>2. EndingIn(<<Ending("tap full")>>) /\ EndingIn(<<Ending("tap closed")>>)
      BY EndingIsEnding DEF Endings
    <3> QED BY <3>1, <3>2, <1>3
  <2> QED BY <2>1, <2>2
<1> QED BY <1>5, <1>6

\* A transfer begins with no chunk, or with one that was read.
LEMMA StartKeepsTap ==
  ASSUME TabConsistent, TapInv, NEW t \in Transfers, NEW initial \in Seq(Nat),
         initial = <<>> \/ (t \in Receivers /\ Len(initial) = 1 /\ initial[1] <= Len(stream)),
         UNCHANGED <<stream, outbox>>, tap' = t, got' = [got EXCEPT ![t] = initial],
         UpTo(readQ', Len(stream))
  PROVE  TapInv'
<1>1. /\ got'[t] = initial /\ \A u \in Transfers : u # t => got'[u] = got[u]
      /\ Len(initial) \in Nat /\ DOMAIN initial = 1..Len(initial)
  BY DEF TabConsistent, TypeOK, HistType
<1>2. \A i \in DOMAIN initial : i = 1 /\ initial[i] <= Len(stream)
  <2>1. CASE initial = <<>>
    BY <2>1
  <2>2. CASE Len(initial) = 1 /\ initial[1] <= Len(stream)
    BY <2>2, <1>1
  <2> QED BY <2>1, <2>2
<1>3. Known'
  BY <1>1, <1>2 DEF TapInv, Known
<1>4. \A u \in Transfers : InSequence(u)'
  <2>1. InSequence(t)'
    BY <1>1, <1>2 DEF InSequence
  <2>2. ASSUME NEW u \in Transfers, u # t PROVE InSequence(u)'
    BY <2>2, <1>1 DEF TapInv, TapSeesEverything, InSequence
  <2> QED BY <2>1, <2>2
<1>5. UpToDate(t)'
  BY <1>1 DEF UpToDate
<1>6. UpToDate(tap)'
  BY <1>5 DEF UpToDate
<1> QED BY <1>3, <1>4, <1>6 DEF TapInv, TapSeesEverything

\* What the task sends on is in its outbox no more.
LEMMA TaskKeepsTap ==
  ASSUME TabConsistent, TapInv, IoStep
  PROVE  TapInv'
<1>1. /\ outbox \in Seq(Messages) /\ Len(outbox) <= 1 /\ readQ \in Seq(Messages)
      /\ Len(stream) \in Nat /\ UNCHANGED <<stream, got, tap>>
      /\ UpTo(readQ, Len(stream)) /\ UpTo(outbox, Len(stream))
  BY QueueTypes DEF TapInv, Known, IoStep, IoReadFails, IoSend, IoWrite, IoResize, IoControl,
     IoSeesTabGone, net, hist, tab
<1>2. CASE IoSend
  <2>1. /\ io = "running" /\ outbox # <<>> /\ outbox' = <<>>
        /\ \/ /\ readQ' = Append(readQ, Head(outbox))
              /\ io' = IF Head(outbox).tag = "data" THEN "running" ELSE "ended"
           \/ io' = "ended" /\ UNCHANGED readQ
    BY <1>2 DEF IoSend
  <2>2. outbox = <<Head(outbox)>> /\ Head(outbox) \in Messages /\ Head(outbox).chunk <= Len(stream)
    BY <1>1, <2>1, AtMostOne, Single, UpToTail
  <2>3. UpTo(readQ', Len(stream)) /\ UpTo(outbox', Len(stream))
    BY <1>1, <2>1, <2>2, UpToAppend, UpToNone
  <2>4. LinkCut => LinkCut'
    BY <2>1, <2>2, EndingInOne DEF LinkCut
  <2> QED BY <1>1, <2>3, <2>4, NothingRead
<1>3. CASE IoReadFails \/ IoWrite \/ IoResize \/ IoControl \/ IoSeesTabGone
  <2>1. /\ UNCHANGED readQ /\ Selecting
        /\ UNCHANGED outbox \/ \E e : outbox' = <<Ending(e)>>
    BY <1>3 DEF IoReadFails, IoWrite, IoResize, IoControl, IoSeesTabGone, chans
  <2>2. UpTo(outbox', Len(stream))
    <3>1. \A e : Ending(e).chunk <= Len(stream)
      BY <1>1 DEF Ending
    <3> QED BY <1>1, <2>1, <3>1, UpToOne
  <2>3. ~LinkCut
    BY <2>1, SelectingRouter
  <2> QED BY <1>1, <2>1, <2>2, <2>3, NothingRead
<1> QED BY <1>2, <1>3 DEF IoStep

LEMMA UiKeepsTap ==
  ASSUME TabConsistent, TapInv, UiTick \/ UiEvent
  PROVE  TapInv'
<1>1. /\ readQ \in Seq(Messages) /\ Len(stream) \in Nat
      /\ UNCHANGED <<stream, outbox, io>>
      /\ UpTo(readQ, Len(stream)) /\ UpTo(outbox, Len(stream))
  BY QueueTypes DEF TapInv, Known, UiTick, UiEvent, UiPoll, UiShow, UiEnding, UiDrained, UiNoKey,
     UiStartReceive, UiType, UiResize, UiSendFile, UiCancelPrompt, UiCloseTab, UiStartSend, net, task
<1>2. LinkCut => LinkCut'
  BY <1>1 DEF LinkCut
<1>3. CASE \/ UiPoll \/ UiShow \/ UiEnding \/ UiDrained \/ UiNoKey
           \/ UiType \/ UiResize \/ UiSendFile \/ UiCancelPrompt \/ UiCloseTab
  <2>1. /\ UNCHANGED got /\ tap' \in {tap, None}
        /\ UNCHANGED readQ \/ (readQ # <<>> /\ readQ' = Tail(readQ)) \/ readQ' = <<>>
    BY <1>3 DEF UiPoll, ClearTransferState, UiShow, UiEnding, UiDrained, UiNoKey, UiType, UiResize,
       UiSendFile, UiCancelPrompt, UiCloseTab, chans, hist
  <2>2. UpTo(readQ', Len(stream))
    BY <1>1, <2>1, UpToTail, UpToNone
  <2> QED BY <1>1, <1>2, <2>1, <2>2, NothingRead
<1>4. ASSUME NEW t \in Receivers, UiStartReceive(t) PROVE TapInv'
  <2>1. /\ readQ # <<>> /\ readQ' = Tail(readQ) /\ tap' = t
        /\ got' = [got EXCEPT ![t] = <<Head(readQ).chunk>>]
    BY <1>4 DEF UiStartReceive, Spawn
  <2>2. /\ UpTo(Tail(readQ), Len(stream)) /\ Head(readQ).chunk <= Len(stream)
        /\ Head(readQ).chunk \in Nat
    BY <1>1, <2>1, UpToTail, ChunkType
  <2>3. PICK initial \in Seq(Nat) : initial = <<Head(readQ).chunk>>
    BY <2>2, OneMessage
  <2>4. Len(initial) = 1 /\ initial[1] <= Len(stream)
    BY <2>2, <2>3
  <2>5. t \in Transfers
    BY DEF Transfers
  <2> QED BY <1>1, <2>1, <2>2, <2>3, <2>4, <2>5, StartKeepsTap
<1>5. ASSUME NEW t \in Senders, UiStartSend(t) PROVE TapInv'
  <2>1. UNCHANGED readQ /\ tap' = t /\ got' = [got EXCEPT ![t] = <<>>]
    BY <1>5 DEF UiStartSend, Spawn, chans
  <2>2. t \in Transfers /\ <<>> \in Seq(Nat)
    BY DEF Transfers
  <2> QED BY <1>1, <2>1, <2>2, StartKeepsTap
<1> QED BY <1>3, <1>4, <1>5 DEF UiTick, UiEvent

\* Threads, scripts and the remote touch neither the tap nor the queues to
\* the screen.
LEMMA OthersKeepTap ==
  ASSUME TabConsistent, TapInv,
         \/ RemoteHangsUp \/ ScriptSend \/ ScriptDisconnect \/ UNCHANGED vars
         \/ \E t \in Transfers : ThreadStep(t) \/ ThreadPanics(t)
  PROVE  TapInv'
<1>1. UNCHANGED <<stream, got, tap, readQ, outbox, io>>
  BY DEF RemoteHangsUp, ScriptSend, ScriptDisconnect, ThreadStep, ThreadWrite, ThreadRead,
     ThreadStarves, ThreadPanics, ThreadDropsStream, ThreadReports, vars, net, task, chans, tab, hist
<1>2. LinkCut => LinkCut'
  BY <1>1 DEF LinkCut
<1>3. UpTo(readQ', Len(stream)) /\ UpTo(outbox', Len(stream))
  BY <1>1 DEF TapInv, Known
<1> QED BY <1>1, <1>2, <1>3, NothingRead

\* From the moment its tap is set a transfer gets every chunk of the stream
\* in order, until another takes over or the link is cut, with any number of
\* transfers and any capacity of the tap (app.rs:245-255, 850).
THEOREM NothingPassesBy == Safety => []TapSeesEverything
<1>1. Init => TapInv
  <2> SUFFICES ASSUME Init PROVE TapInv
    OBVIOUS
  <2>1. readQ = <<>> /\ outbox = <<>> /\ tap = None /\ got = [t \in Transfers |-> <<>>]
    BY DEF Init
  <2>2. \A t \in Transfers : DOMAIN got[t] = {}
    <3>1. \A t \in Transfers : got[t] = <<>>
      BY <2>1
    <3>2. DOMAIN <<>> = {}
      OBVIOUS
    <3> QED BY <3>1, <3>2, Zenon
  <2> QED BY <2>1, <2>2, UpToNone DEF TapInv, Known, TapSeesEverything, InSequence
<1>2. TabConsistent /\ TapInv /\ [Next]_vars => TapInv'
  BY ReadKeepsTap, TaskKeepsTap, UiKeepsTap, OthersKeepTap DEF Next
<1>3. TapInv => TapSeesEverything
  BY DEF TapInv
<1> QED BY <1>1, <1>2, <1>3, Consistency, PTL DEF Safety

=============================================================================
