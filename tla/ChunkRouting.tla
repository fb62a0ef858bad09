---------------------------- MODULE ChunkRouting ----------------------------
(***************************************************************************)
(* What the user may rely on while terminal output and file transfers      *)
(* share one connection (app.rs:222-356, 763-883), with no task, thread or *)
(* channel in sight: every chunk the connection yields is delivered to     *)
(* exactly one sink, each sink gets its chunks once and in order, and      *)
(* chunks are only lost after the link was cut or the tab closed.  A cut   *)
(* link is announced behind the last chunk, never in place of one.         *)
(***************************************************************************)
EXTENDS Naturals, Sequences

CONSTANTS Screen, Transfers

Sinks == {Screen} \cup Transfers

VARIABLES
  arrived,   \* number of chunks read; chunk n is the n-th
  pending,   \* chunks on their way to the UI thread; 0 announces the cut
  at,        \* what each sink was given
  cut,       \* no further chunk will arrive
  noticed,   \* the user can see that the link is cut
  open       \* the tab exists

vars == <<arrived, pending, at, cut, noticed, open>>

RoutingTypeOK ==
  /\ arrived \in Nat
  /\ pending \in Seq(Nat)
  /\ at \in [Sinks -> Seq(Nat)]
  /\ cut \in BOOLEAN /\ noticed \in BOOLEAN /\ open \in BOOLEAN

Init ==
  /\ arrived = 0 /\ pending = <<>>
  /\ at = [s \in Sinks |-> <<>>]
  /\ cut = FALSE /\ noticed = FALSE /\ open = TRUE

Give(s, n) == at' = [at EXCEPT ![s] = Append(@, n)]

\* A chunk arrives and queues up for the UI thread.
Arrive ==
  /\ ~cut
  /\ arrived' = arrived + 1
  /\ pending' = Append(pending, arrived + 1)
  /\ UNCHANGED <<at, cut, noticed, open>>

\* A chunk arrives and goes to a transfer at once.
Divert(t) ==
  /\ ~cut
  /\ arrived' = arrived + 1
  /\ Give(t, arrived + 1)
  /\ UNCHANGED <<pending, cut, noticed, open>>

\* The link fails, or it is given up because a chunk finds no place.
Cut ==
  /\ ~cut
  /\ arrived' \in {arrived, arrived + 1}
  /\ pending' = Append(pending, 0)
  /\ cut' = TRUE
  /\ UNCHANGED <<at, noticed, open>>

\* The oldest chunk reaches its sink: the screen, or a transfer that starts
\* with it.  Answering it may reveal a cut.
Deliver(s) ==
  /\ pending # <<>> /\ Head(pending) # 0
  /\ s # Screen => at[s] = <<>>
  /\ pending' = Tail(pending)
  /\ Give(s, Head(pending))
  /\ noticed' \in {noticed, noticed \/ cut}
  /\ UNCHANGED <<arrived, cut, open>>

Announce ==
  /\ pending # <<>> /\ Head(pending) = 0
  /\ pending' = Tail(pending)
  /\ noticed' = TRUE
  /\ UNCHANGED <<arrived, at, cut, open>>

\* A keystroke finds the link cut.
Stumble ==
  /\ cut /\ noticed' = TRUE
  /\ UNCHANGED <<arrived, pending, at, cut, open>>

\* The tab closes, and what was on its way to it is dropped.
Leave ==
  /\ open' = FALSE
  /\ \E k \in 1..Len(pending) + 1 : pending' = SubSeq(pending, k, Len(pending))
  /\ cut' \in {cut, TRUE}
  /\ UNCHANGED <<arrived, at, noticed>>

Next ==
  \/ Arrive \/ Cut \/ Announce \/ Stumble \/ Leave
  \/ \E t \in Transfers \ {Screen} : Divert(t)
  \/ \E s \in Sinks : Deliver(s)

Spec == Init /\ [][Next]_vars
-----------------------------------------------------------------------------
\* No sink is given a chunk twice or out of order, and no chunk reaches two
\* sinks (one try_send or one Data message per read, app.rs:245-294).
Increasing(q) == \A i, j \in DOMAIN q : i < j => q[i] < q[j]

DeliveredOnce ==
  \A s \in Sinks :
    /\ \A i \in DOMAIN at[s] : at[s][i] \in 1..arrived
    /\ Increasing(at[s])
    /\ \A r \in Sinks \ {s} : \A i \in DOMAIN at[s], j \in DOMAIN at[r] :
         at[s][i] # at[r][j]

\* While the link is up and the tab open, every chunk that arrived is on its
\* way or with a sink; once the link is cut, the user can see it or soon will
\* (the aborts of app.rs:255-272 and the Error branch, 299-304).
NothingLost ==
  open =>
    IF cut
    THEN noticed \/ \E i \in DOMAIN pending : pending[i] = 0
    ELSE \A n \in 1..arrived :
           \/ \E i \in DOMAIN pending : pending[i] = n
           \/ \E s \in Sinks : \E i \in DOMAIN at[s] : at[s][i] = n
=============================================================================
