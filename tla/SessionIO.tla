------------------------------ MODULE SessionIO ------------------------------
(***************************************************************************)
(* One open tab of the TUI (crates/waystone-comm-tui/src/app.rs): the      *)
(* asynchronous I/O task that owns the connection, the UI thread that      *)
(* drains its messages once per tick, and the blocking threads that run    *)
(* Zmodem transfers.  They share the transfer tap (a mutex around an       *)
(* optional channel sender) and bounded channels.                          *)
(*                                                                         *)
(* A chunk is what one read of the connection returns.  Chunks are named   *)
(* by their position in `stream'; their kind is what the remote meant.  A  *)
(* read with text in front of a Zmodem signature is two chunks here, the   *)
(* text and the offer.  The entry has no on_connect script, so the script  *)
(* data channel (app.rs:275) does not exist.                               *)
(***************************************************************************)
EXTENDS Naturals, Sequences, FiniteSets

CONSTANTS
  Receivers,   \* threads that start_zmodem_receive may spawn
  Senders,     \* threads that start_zmodem_send may spawn
  User,        \* the writer of everything the UI thread queues
  None,        \* no transfer
  ReadCap,     \* capacity of read_tx (1024 in the code)
  WriteCap,    \* capacity of write_tx (256)
  TapCap,      \* capacity of a tap (256)
  ResizeCap,   \* capacity of resize_tx (32); 0: the window is never resized
  Scripted,    \* whether named scripts run in the tab
  MaxChunks    \* bound of the model: chunks the remote sends

Transfers == Receivers \cup Senders

ASSUME SessionAssumption ==
  /\ Receivers \cap Senders = {}
  /\ None \notin Transfers
  /\ User \notin Transfers
  /\ IsFiniteSet(Receivers)
  /\ ReadCap \in Nat \ {0} /\ WriteCap \in Nat \ {0} /\ TapCap \in Nat \ {0}
  /\ ResizeCap \in Nat /\ Scripted \in BOOLEAN /\ MaxChunks \in Nat

\* text: for the terminal; offer: begins with the Zmodem auto-start
\* signature; zm: transfer protocol; zend: its closing frame; zcan: a cancel.
Kinds == {"text", "offer", "zm", "zend", "zcan"}

\* The messages after which the I/O task stops; each becomes the status.
Endings == {"disconnected", "tap full", "tap closed"}

Data(n)   == [tag |-> "data", chunk |-> n]
Ending(e) == [tag |-> e, chunk |-> 0]
Messages  == [tag : {"data"}, chunk : Nat \ {0}] \cup [tag : Endings, chunk : {0}]

VARIABLES
  \* the connection and what is behind it
  conn,      \* "up" or "disconnected", which stands for any other error too
  remote,    \* what the remote program is doing
  stream,    \* kinds of all chunks read so far (chunk n is stream[n])
  \* the I/O task
  io,        \* "running" or "ended"
  outbox,    \* messages it must still send before its next select
  \* channels
  readQ,     \* read_rx
  writeQ,    \* write_rx: the writer of each element
  resizeQ,   \* number of sizes in resize_rx
  ctl,       \* a script's Disconnect waits in script_control_rx
  \* the tab, owned by the UI thread
  open,      \* the tab exists
  ui,        \* where the UI thread is in its tick
  status,    \* session.status
  prompt,    \* the file-send prompt is open
  tap,       \* whose channel the shared tap feeds
  doneRx,    \* session.transfer_done_rx: the transfer it awaits
  progress,  \* whose figures the shared progress record shows
  \* the transfer threads
  th,        \* control state
  rx,        \* its end of the tap still exists
  tapQ,      \* chunks in its tap
  done,      \* its one-shot result
  \* history
  shown,     \* chunks given to the emulator and the session log
  got        \* chunks put into each thread's tap

net    == <<conn, remote, stream>>
task   == <<io, outbox>>
chans  == <<readQ, writeQ, resizeQ, ctl>>
tab    == <<open, ui, status, prompt, tap, doneRx, progress>>
thread == <<th, rx, tapQ, done>>
hist   == <<shown, got>>
vars   == <<net, task, chans, tab, thread, hist>>

ThreadStates ==
  {"idle", "write", "read", "lastwrite", "succeed", "fail", "panic", "reported"}

NetType ==
  /\ conn \in {"up", "disconnected"}
  /\ remote \in {"shell", "offered", "engaged", "closing"}
  /\ stream \in Seq(Kinds)

TaskType ==
  /\ io \in {"running", "ended"}
  /\ outbox \in Seq(Messages) /\ Len(outbox) <= 1

ChansType ==
  /\ readQ \in Seq(Messages) /\ Len(readQ) <= ReadCap
  /\ writeQ \in Seq(Transfers \cup {User}) /\ Len(writeQ) <= WriteCap
  /\ resizeQ \in 0..ResizeCap
  /\ ctl \in BOOLEAN

TabType ==
  /\ open \in BOOLEAN
  /\ ui \in {"poll", "drain", "keys"}
  /\ status \in {"connected"} \cup Endings
  /\ prompt \in BOOLEAN
  /\ tap \in Transfers \cup {None}
  /\ doneRx \in Transfers \cup {None}
  /\ progress \in Transfers \cup {None}

ThreadType ==
  /\ th \in [Transfers -> ThreadStates]
  /\ rx \in [Transfers -> BOOLEAN]
  /\ tapQ \in [Transfers -> Seq(Nat)]
  /\ \A t \in Transfers : Len(tapQ[t]) <= TapCap
  /\ done \in [Transfers -> {"pending", "ok", "err", "closed"}]

HistType ==
  /\ shown \in Seq(Nat)
  /\ got \in [Transfers -> Seq(Nat)]

TypeOK == NetType /\ TaskType /\ ChansType /\ TabType /\ ThreadType /\ HistType

Init ==
  /\ conn = "up" /\ remote = "shell" /\ stream = <<>>
  /\ io = "running" /\ outbox = <<>>
  /\ readQ = <<>> /\ writeQ = <<>> /\ resizeQ = 0 /\ ctl = FALSE
  /\ open = TRUE /\ ui = "poll" /\ status = "connected" /\ prompt = FALSE
  /\ tap = None /\ doneRx = None /\ progress = None
  /\ th = [t \in Transfers |-> "idle"]
  /\ rx = [t \in Transfers |-> FALSE]
  /\ tapQ = [t \in Transfers |-> <<>>]
  /\ done = [t \in Transfers |-> "pending"]
  /\ shown = <<>>
  /\ got = [t \in Transfers |-> <<>>]

-----------------------------------------------------------------------------
(***************************************************************************)
(* The remote.  It keeps to the protocol: after an offer it sends nothing  *)
(* but the rest of that offer until it is answered, and after its closing  *)
(* frame nothing until that is answered.                                   *)
(***************************************************************************)
Offers == {n \in DOMAIN stream : stream[n] = "offer"}

RemoteMaySend(kind) ==
  \/ remote = "shell"   /\ kind = "text"
  \/ remote = "shell"   /\ kind = "offer" /\ Cardinality(Offers) < Cardinality(Receivers)
  \/ remote = "offered" /\ kind \in {"zm", "zcan"}
  \/ remote = "engaged" /\ kind \in {"zm", "zend", "zcan"}

RemoteSends(kind) ==
  remote' = CASE kind = "offer" -> "offered"
              [] kind = "zend"  -> "closing"
              [] kind = "zcan"  -> "shell"
              [] OTHER          -> remote

\* What the bytes of writer w make of the remote: an answer to its offer or
\* to its closing frame, or the start of an upload it is waiting for.
RemoteHears(w) ==
  \/ w \in Transfers /\ remote = "offered" /\ remote' = "engaged"
  \/ w \in Transfers /\ remote = "closing" /\ remote' = "shell"
  \/ w \in Senders   /\ remote = "shell"   /\ remote' = "engaged"
  \/ /\ w \in Transfers => remote \in {"shell", "engaged"}
     /\ UNCHANGED remote

RemoteHangsUp ==
  /\ conn = "up"
  /\ conn' = "disconnected"
  /\ UNCHANGED <<remote, stream, task, chans, tab, thread, hist>>

-----------------------------------------------------------------------------
(***************************************************************************)
(* The I/O task: session_io_task.  Its select! takes any ready branch.  A  *)
(* message it sends on read_tx is awaited, so it is kept in `outbox' until *)
(* there is room; nothing else happens in the task meanwhile.              *)
(***************************************************************************)
Selecting == io = "running" /\ outbox = <<>>

\* MUTANT: a chunk that finds no place in the tap is dropped.
Feed_drops(t, n) ==
  /\ IF rx[t] /\ Len(tapQ[t]) < TapCap
     THEN /\ tapQ' = [tapQ EXCEPT ![t] = Append(@, n)]
          /\ got'  = [got EXCEPT ![t] = Append(@, n)]
     ELSE UNCHANGED <<tapQ, got>>
  /\ UNCHANGED outbox

\* MUTANT: a chunk that finds no place in the tap goes to the terminal.
Feed_spills(t, n) ==
  IF rx[t] /\ Len(tapQ[t]) < TapCap
  THEN /\ tapQ' = [tapQ EXCEPT ![t] = Append(@, n)]
       /\ got'  = [got EXCEPT ![t] = Append(@, n)]
       /\ UNCHANGED outbox
  ELSE /\ outbox' = <<Data(n)>>
       /\ UNCHANGED <<tapQ, got>>

\* MUTANT: a chunk fed to the tap goes to the terminal as well.
Feed_forks(t, n) ==
  /\ tapQ' = [tapQ EXCEPT ![t] = Append(@, n)]
  /\ got'  = [got EXCEPT ![t] = Append(@, n)]
  /\ outbox' = <<Data(n)>>

\* The clone of the tap is used outside the lock, by try_send.
Feed(t, n) ==
  IF rx[t] /\ Len(tapQ[t]) < TapCap
  THEN /\ tapQ' = [tapQ EXCEPT ![t] = Append(@, n)]
       /\ got'  = [got EXCEPT ![t] = Append(@, n)]
       /\ UNCHANGED outbox
  ELSE /\ outbox' = <<Ending(IF rx[t] THEN "tap full" ELSE "tap closed")>>
       /\ UNCHANGED <<tapQ, got>>

IoRead(kind) ==
  LET n == Len(stream) + 1 IN
  /\ Selecting /\ conn = "up" /\ n <= MaxChunks
  /\ RemoteMaySend(kind) /\ RemoteSends(kind)
  /\ stream' = Append(stream, kind)
  /\ IF tap # None
     THEN Feed(tap, n)
     ELSE outbox' = <<Data(n)>> /\ UNCHANGED <<tapQ, got>>
  /\ UNCHANGED <<conn, io, chans, tab, th, rx, done, shown>>

IoReadFails ==
  /\ Selecting /\ conn # "up"
  /\ outbox' = <<Ending(conn)>>
  /\ UNCHANGED <<net, io, chans, tab, thread, hist>>

\* MUTANT: read_tx.try_send: a message that finds no room is dropped.
IoSend_drops ==
  /\ io = "running" /\ outbox # <<>>
  /\ readQ' = IF open /\ Len(readQ) < ReadCap THEN Append(readQ, Head(outbox)) ELSE readQ
  /\ io' = IF Head(outbox).tag = "data" THEN "running" ELSE "ended"
  /\ outbox' = <<>>
  /\ UNCHANGED <<net, writeQ, resizeQ, ctl, tab, thread, hist>>

\* read_tx.send(..).await completes: there is room, or the tab is gone and
\* the receiver with it, which ends the task.
IoSend ==
  /\ io = "running" /\ outbox # <<>>
  /\ \/ /\ open /\ Len(readQ) < ReadCap
        /\ readQ' = Append(readQ, Head(outbox))
        /\ io' = IF Head(outbox).tag = "data" THEN "running" ELSE "ended"
     \/ /\ ~open
        /\ io' = "ended"
        /\ UNCHANGED readQ
  /\ outbox' = <<>>
  /\ UNCHANGED <<net, writeQ, resizeQ, ctl, tab, thread, hist>>

\* conn.write and conn.resize succeed, or fail on a connection that is down.
IoWrite ==
  /\ Selecting /\ writeQ # <<>>
  /\ writeQ' = Tail(writeQ)
  /\ \/ RemoteHears(Head(writeQ)) /\ UNCHANGED outbox
     \/ conn # "up" /\ outbox' = <<Ending(conn)>> /\ UNCHANGED remote
  /\ UNCHANGED <<conn, stream, io, readQ, resizeQ, ctl, tab, thread, hist>>

IoResize ==
  /\ Selecting /\ resizeQ > 0
  /\ resizeQ' = resizeQ - 1
  /\ \/ UNCHANGED outbox
     \/ conn # "up" /\ outbox' = <<Ending(conn)>>
  /\ UNCHANGED <<net, io, readQ, writeQ, ctl, tab, thread, hist>>

IoControl ==
  /\ Selecting /\ ctl
  /\ ctl' = FALSE
  /\ conn' = "disconnected"
  /\ outbox' = <<Ending("disconnected")>>
  /\ UNCHANGED <<remote, stream, io, readQ, writeQ, resizeQ, tab, thread, hist>>

\* MUTANT: a closed channel is passed over, as script_control_rx is.
IoSeesTabGone_spins ==
  Selecting /\ ~open /\ UNCHANGED vars

\* resize_tx lives only in the tab, and write_tx in the tab, the transfer
\* threads and perhaps a script: recv() returns None once all are gone.
IoSeesTabGone ==
  /\ Selecting /\ ~open
  /\ \/ resizeQ = 0
     \/ writeQ = <<>> /\ \A t \in Transfers : ~rx[t]
  /\ io' = "ended"
  /\ UNCHANGED <<net, outbox, chans, tab, thread, hist>>

IoStep == IoReadFails \/ IoSend \/ IoWrite \/ IoResize \/ IoControl \/ IoSeesTabGone

-----------------------------------------------------------------------------
(***************************************************************************)
(* The UI thread: drain_sessions, then at most one key, then the next tick.*)
(***************************************************************************)

\* queue_session_write
QueueWrite ==
  IF io = "ended"
  THEN status' = "disconnected" /\ UNCHANGED writeQ
  ELSE /\ writeQ' = IF Len(writeQ) < WriteCap THEN Append(writeQ, User) ELSE writeQ
       /\ UNCHANGED status

\* What start_zmodem_receive and start_zmodem_send have in common: a new
\* tap replaces the old one, and so do the result channel and the progress.
Spawn(t, initial) ==
  /\ tap' = t /\ doneRx' = t /\ progress' = t
  /\ th' = [th EXCEPT ![t] = "write"]
  /\ rx' = [rx EXCEPT ![t] = TRUE]
  /\ tapQ' = [tapQ EXCEPT ![t] = initial]
  /\ got' = [got EXCEPT ![t] = initial]
  /\ UNCHANGED done

\* MUTANT: a result channel closed by a panic counts as still empty.
TransferFinished_closed == doneRx # None /\ done[doneRx] \in {"ok", "err"}

TransferFinished == doneRx # None /\ done[doneRx] # "pending"

\* MUTANT: the tap is left in place.
ClearTransferState_tap == UNCHANGED tap /\ progress' = None

ClearTransferState == tap' = None /\ progress' = None

UiPoll ==
  /\ open /\ ui = "poll"
  /\ IF TransferFinished
     THEN ClearTransferState /\ doneRx' = None
     ELSE UNCHANGED <<tap, doneRx, progress>>
  /\ ui' = "drain"
  /\ UNCHANGED <<net, task, chans, open, status, prompt, thread, hist>>

\* MUTANT: whatever transfer is awaited.
StartsReceive_always(m) == m.tag = "data" /\ stream[m.chunk] = "offer"

\* Auto-detection (find_zmodem_signature), unless a transfer is awaited.
StartsReceive(m) ==
  m.tag = "data" /\ stream[m.chunk] = "offer" /\ doneRx = None

UiStartReceive(t) ==
  /\ open /\ ui = "drain" /\ readQ # <<>> /\ StartsReceive(Head(readQ))
  /\ th[t] = "idle" /\ Spawn(t, <<Head(readQ).chunk>>)
  /\ readQ' = Tail(readQ)
  /\ ui' = "keys"
  /\ UNCHANGED <<net, task, writeQ, resizeQ, ctl, open, status, prompt, shown>>

\* Processing a chunk may make the emulator answer (send_terminal_output).
UiShow ==
  /\ open /\ ui = "drain" /\ readQ # <<>>
  /\ Head(readQ).tag = "data" /\ ~StartsReceive(Head(readQ))
  /\ shown' = Append(shown, Head(readQ).chunk)
  /\ readQ' = Tail(readQ)
  /\ QueueWrite \/ UNCHANGED <<writeQ, status>>
  /\ UNCHANGED <<net, task, resizeQ, ctl, open, ui, prompt, tap, doneRx, progress,
                 thread, got>>

\* MUTANT: the ending is shown on the screen only.
UiEnding_silent ==
  /\ open /\ ui = "drain" /\ readQ # <<>>
  /\ Head(readQ).tag # "data"
  /\ readQ' = Tail(readQ)
  /\ ui' = "keys"
  /\ UNCHANGED <<net, task, writeQ, resizeQ, ctl, open, status, prompt, tap, doneRx,
                 progress, thread, hist>>

UiEnding ==
  /\ open /\ ui = "drain" /\ readQ # <<>>
  /\ Head(readQ).tag # "data"
  /\ status' = Head(readQ).tag
  /\ readQ' = Tail(readQ)
  /\ ui' = "keys"
  /\ UNCHANGED <<net, task, writeQ, resizeQ, ctl, open, prompt, tap, doneRx, progress,
                 thread, hist>>

UiDrained ==
  /\ open /\ ui = "drain" /\ readQ = <<>>
  /\ ui' = "keys"
  /\ UNCHANGED <<net, task, chans, open, status, prompt, tap, doneRx, progress,
                 thread, hist>>

UiNoKey ==
  /\ open /\ ui = "keys"
  /\ ui' = "poll"
  /\ UNCHANGED <<net, task, chans, open, status, prompt, tap, doneRx, progress,
                 thread, hist>>

\* A key for the remote: typed text, a key binding, or F7's "rz".
UiType ==
  /\ open /\ ui = "keys" /\ ~prompt
  /\ QueueWrite
  /\ ui' = "poll"
  /\ UNCHANGED <<net, task, readQ, resizeQ, ctl, open, prompt, tap, doneRx, progress,
                 thread, hist>>

UiResize ==
  /\ open /\ ui = "keys" /\ ResizeCap > 0
  /\ IF io = "ended"
     THEN status' = "disconnected" /\ UNCHANGED resizeQ
     ELSE /\ resizeQ' = IF resizeQ < ResizeCap THEN resizeQ + 1 ELSE resizeQ
          /\ UNCHANGED status
  /\ ui' = "poll"
  /\ UNCHANGED <<net, task, readQ, writeQ, ctl, open, prompt, tap, doneRx, progress,
                 thread, hist>>

\* F6: the prompt opens only if no transfer is awaited ...
UiSendFile ==
  /\ open /\ ui = "keys" /\ ~prompt /\ doneRx = None
  /\ prompt' = TRUE
  /\ ui' = "poll"
  /\ UNCHANGED <<net, task, chans, open, status, tap, doneRx, progress, thread, hist>>

\* ... and Enter, some ticks later, starts the transfer, or, like Esc, just
\* closes the prompt (there is no such file).
UiStartSend(t) ==
  /\ open /\ ui = "keys" /\ prompt
  /\ th[t] = "idle" /\ Spawn(t, <<>>)
  /\ prompt' = FALSE
  /\ ui' = "poll"
  /\ UNCHANGED <<net, task, chans, open, status, shown>>

UiCancelPrompt ==
  /\ open /\ ui = "keys" /\ prompt
  /\ prompt' = FALSE
  /\ ui' = "poll"
  /\ UNCHANGED <<net, task, chans, open, status, tap, doneRx, progress, thread, hist>>

\* Dropping the TabSession closes its ends of all channels; the tap itself
\* is shared with the I/O task and stays.
UiCloseTab ==
  /\ open /\ ui = "keys" /\ ~prompt
  /\ open' = FALSE
  /\ readQ' = <<>>
  /\ UNCHANGED <<net, task, writeQ, resizeQ, ctl, ui, status, prompt, tap, doneRx,
                 progress, thread, hist>>

\* A named script, on a thread of its own, calls s.send or s.disconnect; it
\* may outlive the tab.
ScriptSend ==
  /\ Scripted /\ io = "running" /\ Len(writeQ) < WriteCap
  /\ writeQ' = Append(writeQ, User)
  /\ UNCHANGED <<net, task, readQ, resizeQ, ctl, tab, thread, hist>>

ScriptDisconnect ==
  /\ Scripted /\ io = "running" /\ ~ctl
  /\ ctl' = TRUE
  /\ UNCHANGED <<net, task, readQ, writeQ, resizeQ, tab, thread, hist>>

\* The steps a tick takes by itself.
UiTick ==
  \/ UiPoll \/ UiShow \/ UiEnding \/ UiDrained \/ UiNoKey
  \/ \E t \in Receivers : UiStartReceive(t)

UiEvent ==
  \/ UiType \/ UiResize \/ UiSendFile \/ UiCancelPrompt \/ UiCloseTab
  \/ \E t \in Senders : UiStartSend(t)

-----------------------------------------------------------------------------
(***************************************************************************)
(* A transfer thread, seen from its stream (transfer/stream.rs): it reads  *)
(* its tap and answers through write_tx.  What it does with a chunk is the *)
(* business of the module Zmodem; here every outcome of a frame is allowed.*)
(***************************************************************************)
Goto(t, state) == th' = [th EXCEPT ![t] = state]

\* write_bytes: blocks while write_tx is full, fails once the task has ended.
ThreadWrite(t) ==
  /\ th[t] \in {"write", "lastwrite"}
  /\ \/ /\ io = "ended" /\ Goto(t, "fail")
        /\ UNCHANGED writeQ
     \/ /\ io = "running" /\ Len(writeQ) < WriteCap
        /\ writeQ' = Append(writeQ, t)
        /\ Goto(t, IF th[t] = "write" THEN "read" ELSE "succeed")
  /\ UNCHANGED <<net, task, readQ, resizeQ, ctl, tab, rx, tapQ, done, hist>>

\* A frame is answered, passed over, or damaged; one with data updates the
\* progress record.  A cancel may be passed over too (recv_frame, zmodem.rs:
\* 191-221, knows the byte 16 and the frame ZCAN, not a run of CAN bytes).
ThreadRead(t) ==
  /\ th[t] = "read" /\ tapQ[t] # <<>>
  /\ tapQ' = [tapQ EXCEPT ![t] = Tail(@)]
  /\ LET kind == stream[Head(tapQ[t])] IN
     \/ /\ kind \in {"zm", "offer", "text"}
        /\ \E next \in {"read", "write", "fail"} : Goto(t, next)
        /\ progress' \in IF kind = "zm" THEN {progress, t} ELSE {progress}
     \/ kind = "zend" /\ Goto(t, "lastwrite") /\ UNCHANGED progress
     \/ /\ kind = "zcan"
        /\ \E next \in {"read", "fail"} : Goto(t, next)
        /\ UNCHANGED progress
  /\ UNCHANGED <<net, task, chans, open, ui, status, prompt, tap, doneRx, rx, done, hist>>

\* MUTANT: fill without a deadline waits until every sender is gone.
ThreadStarves_patient(t) ==
  /\ th[t] = "read" /\ tapQ[t] = <<>> /\ tap # t
  /\ Goto(t, "fail")
  /\ UNCHANGED <<net, task, chans, tab, rx, tapQ, done, hist>>

\* fill: the deadline passes, or every sender of the tap is gone.
ThreadStarves(t) ==
  /\ th[t] = "read" /\ tapQ[t] = <<>>
  /\ Goto(t, "fail")
  /\ UNCHANGED <<net, task, chans, tab, rx, tapQ, done, hist>>

\* An arithmetic overflow in a debug build (zmodem.rs:851) unwinds.
ThreadPanics(t) ==
  /\ t \in Senders /\ th[t] = "read"
  /\ Goto(t, "panic")
  /\ UNCHANGED <<net, task, chans, tab, rx, tapQ, done, hist>>

\* The stream of a sender is a temporary, dropped before the result is sent;
\* that of a receiver is dropped when the closure ends, after it.
ThreadDropsStream(t) ==
  /\ rx[t]
  /\ \/ t \in Senders /\ th[t] \in {"succeed", "fail", "panic"}
     \/ t \in Receivers /\ th[t] = "reported"
  /\ rx' = [rx EXCEPT ![t] = FALSE]
  /\ tapQ' = [tapQ EXCEPT ![t] = <<>>]
  /\ UNCHANGED <<net, task, chans, tab, th, done, hist>>

ThreadReports(t) ==
  /\ th[t] \in {"succeed", "fail", "panic"}
  /\ t \in Senders => ~rx[t]
  /\ done' = [done EXCEPT ![t] = CASE th[t] = "succeed" -> "ok"
                                   [] th[t] = "fail"    -> "err"
                                   [] th[t] = "panic"   -> "closed"]
  /\ Goto(t, "reported")
  /\ UNCHANGED <<net, task, chans, tab, rx, tapQ, hist>>

ThreadStep(t) ==
  \/ ThreadWrite(t) \/ ThreadRead(t) \/ ThreadStarves(t)
  \/ ThreadDropsStream(t) \/ ThreadReports(t)

-----------------------------------------------------------------------------
Next ==
  \/ RemoteHangsUp \/ ScriptSend \/ ScriptDisconnect
  \/ \E kind \in Kinds : IoRead(kind)
  \/ IoStep
  \/ UiTick \/ UiEvent
  \/ \E t \in Transfers : ThreadStep(t) \/ ThreadPanics(t)

Safety == Init /\ [][Next]_vars

\* The runtime polls a ready task and select! looks at its branches in random
\* order, so none is passed over for ever; the UI loop ticks, and the OS runs
\* the threads, whose reads all have a deadline.  A full write_tx serves those
\* who wait for it in turn.  Nothing is asked of the user, of scripts or of
\* the remote.
Fairness ==
  /\ WF_vars(IoStep)
  /\ SF_vars(IoWrite) /\ SF_vars(IoResize)
  /\ SF_vars(IoSeesTabGone)
  /\ WF_vars(UiTick)
  /\ \A t \in Transfers : WF_vars(ThreadStep(t)) /\ SF_vars(ThreadWrite(t))

Spec == Safety /\ Fairness
-----------------------------------------------------------------------------
(***************************************************************************)
(* Safety.                                                                 *)
(***************************************************************************)

\* The tap and the awaited result always belong to the same transfer, one
\* that was started (set and cleared together, app.rs:914-1006, 788-832);
\* threads not yet started were given nothing, and a closed tab holds no
\* message.  Inductive.
TransferBookkeeping ==
  /\ tap = doneRx
  /\ doneRx # None => th[doneRx] # "idle"
  /\ \A t \in Transfers : th[t] = "idle" => got[t] = <<>>
  /\ ~open => readQ = <<>>

TabConsistent == TypeOK /\ TransferBookkeeping

\* The connection is never taken from a transfer that has not reported its
\* end, unless the user's own send takes it: an offer that arrives meanwhile
\* does not (the guards at app.rs:842 and 1177).
TapHandedOver ==
  [][tap # None /\ tap' # tap =>
       done[tap] # "pending" \/ (prompt /\ tap' \in Senders)]_vars

DataIn(queue)   == {queue[i].chunk : i \in {j \in DOMAIN queue : queue[j].tag = "data"}}
EndingIn(queue) == \E i \in DOMAIN queue : queue[i].tag # "data"
Elements(s)     == {s[i] : i \in DOMAIN s}

\* A chunk read from the connection is on its way to the screen, on the
\* screen, or was put into a tap; if it is nowhere, the session is ending
\* and the user is about to see why (the aborts of app.rs:255-272).
NoQuietLoss ==
  open =>
    \/ \A n \in DOMAIN stream :
         \/ n \in DataIn(outbox) \cup DataIn(readQ) \cup Elements(shown)
         \/ \E t \in Transfers : n \in Elements(got[t])
    \/ EndingIn(outbox) \/ EndingIn(readQ) \/ status # "connected"

\* Seen from outside the tab routes chunks as ChunkRouting promises: the
\* outbox and read_rx together are the chunks on their way, and a message
\* that ends the session is their end.
OnTheWay  == readQ \o outbox
Chunks(q) == [i \in DOMAIN q |-> q[i].chunk]
Given     == [s \in {None} \cup Transfers |-> IF s = None THEN shown ELSE got[s]]
LinkCut   == io = "ended" \/ EndingIn(outbox)

Routing == INSTANCE ChunkRouting WITH
  Screen  <- None,
  arrived <- Len(stream),
  pending <- Chunks(OnTheWay),
  at      <- Given,
  cut     <- LinkCut,
  noticed <- status # "connected"

RoutesChunks == Routing!Spec

\* Hence no byte is shown twice, or both shown and fed to a transfer, and
\* neither the screen nor a transfer gets its bytes out of order.
DeliversOnce == Routing!DeliveredOnce

\* From the moment its tap is set a transfer gets every chunk, in order,
\* with none passing it by to the terminal, until another transfer takes
\* over or the link is cut; only a receiver's first chunk, the offer, is
\* older (app.rs:245-255, 850).
InSequence(t) ==
  \A i \in DOMAIN got[t] :
    \/ i = 1
    \/ t \in Receivers /\ i = 2 /\ got[t][1] < got[t][2]
    \/ got[t][i] = got[t][i-1] + 1

UpToDate(t) ==
  \/ got[t] = <<>> \/ (t \in Receivers /\ Len(got[t]) = 1)
  \/ got[t][Len(got[t])] = Len(stream)

TapSeesEverything ==
  /\ \A t \in Transfers : InSequence(t)
  /\ tap # None /\ ~LinkCut => UpToDate(tap)

\* "Cancel a transfer and confirm Waystone Comm recovers cleanly": a session
\* is not aborted because the remote cancelled a transfer, however soon its
\* shell prompt follows the cancel (PRODUCTION_SMOKE_CHECKLIST.md:32;
\* app.rs:264-271).
CancelRecovers ==
  (\E t \in Transfers : \E i \in DOMAIN got[t] : stream[got[t][i]] = "zcan")
    => status # "tap closed"

\* "Zmodem auto-detect starts ...  The transfer completes without CRC retry
\* loops or timeout": what follows an offer goes to the transfer it starts
\* (SMOKE.md:140-141; app.rs:842-857).
OfferArrivesWhole ==
  \A t \in Receivers :
    Len(got[t]) >= 2 => got[t][2] = got[t][1] + 1

\* "No stuck transfer state": once no transfer is awaited and no thread
\* runs, no progress is shown (PRODUCTION_SMOKE_CHECKLIST.md:77;
\* app.rs:1176-1184, 1465-1476).
NoStuckTransferState ==
  doneRx = None /\ (\A t \in Transfers : th[t] \in {"idle", "reported"})
    => progress = None

(***************************************************************************)
(* Liveness, under Fairness.                                               *)
(***************************************************************************)

\* A transfer thread always ends and lets go of its tap: it is never left
\* blocked on the tap or on a full write channel, whatever became of the
\* I/O task, the tab or a transfer that replaced it.
TransferEnds ==
  \A t \in Transfers : rx[t] ~> th[t] = "reported" /\ ~rx[t]

\* The UI thread notices the end of the transfer it awaits and restores the
\* terminal.
TransferCleared == \A t \in Transfers : doneRx = t ~> doneRx # t \/ ~open

\* When the I/O task has stopped, the tab does not go on looking connected.
LinkLossNoticed == io = "ended" ~> ~open \/ status # "connected"

\* Closing a tab ends its I/O task and with it the connection.
CloseReleases == ~open ~> io = "ended"
=============================================================================
