------------------------- MODULE ChunkRoutingProofs -------------------------
(***************************************************************************)
(* Every behaviour of ChunkRouting delivers each chunk at most once, keeps *)
(* the order on each path and loses nothing while the link is up.          *)
(***************************************************************************)
EXTENDS ChunkRouting, TLAPS

\* Chunks in flight are in order, are on their way to nobody yet, and those
\* on the screen are older.  This makes DeliveredOnce inductive.
InFlight ==
  /\ \A i \in DOMAIN pending : pending[i] \in 0..arrived
  /\ \A i, j \in DOMAIN pending : i < j /\ pending[j] # 0 => pending[i] < pending[j]
  /\ \A s \in Sinks : \A i \in DOMAIN at[s], j \in DOMAIN pending : at[s][i] # pending[j]
  /\ \A i \in DOMAIN at[Screen], j \in DOMAIN pending :
       pending[j] # 0 => at[Screen][i] < pending[j]

RoutingInv == RoutingTypeOK /\ InFlight /\ DeliveredOnce

LEMMA AppendFacts ==
  ASSUME NEW q \in Seq(Nat), NEW n \in Nat
  PROVE  /\ Append(q, n) \in Seq(Nat)
         /\ DOMAIN q = 1..Len(q) /\ Len(q) \in Nat
         /\ DOMAIN Append(q, n) = 1..Len(q) + 1
         /\ \A i \in 1..Len(q) : Append(q, n)[i] = q[i]
         /\ Append(q, n)[Len(q) + 1] = n
OBVIOUS

LEMMA TailFacts ==
  ASSUME NEW q \in Seq(Nat), q # <<>>
  PROVE  /\ Tail(q) \in Seq(Nat) /\ Head(q) = q[1] /\ 1 \in DOMAIN q
         /\ DOMAIN q = 1..Len(q) /\ Len(q) \in Nat
         /\ DOMAIN Tail(q) = 1..Len(q) - 1
         /\ \A i \in DOMAIN Tail(q) : i + 1 \in DOMAIN q /\ Tail(q)[i] = q[i + 1]
OBVIOUS

LEMMA SuffixFacts ==
  ASSUME NEW q \in Seq(Nat), NEW k \in 1..Len(q) + 1
  PROVE  /\ SubSeq(q, k, Len(q)) \in Seq(Nat)
         /\ \A i \in DOMAIN SubSeq(q, k, Len(q)) :
              i \in Nat /\ i + k - 1 \in DOMAIN q /\ SubSeq(q, k, Len(q))[i] = q[i + k - 1]
OBVIOUS

\* Nothing changes for the sinks: in flight, chunks disappear or a new one or
\* the notice of the cut comes last.
LEMMA SinksKeep ==
  ASSUME RoutingInv, UNCHANGED at, arrived' \in {arrived, arrived + 1}
  PROVE  DeliveredOnce'
BY DEF RoutingInv, RoutingTypeOK, DeliveredOnce

LEMMA QueueGrows ==
  ASSUME RoutingInv, UNCHANGED at, arrived' \in {arrived, arrived + 1},
         NEW n \in Nat, n # 0 => n = arrived + 1 /\ arrived' = n,
         pending' = Append(pending, n)
  PROVE  InFlight' /\ pending' \in Seq(Nat)
<1> DEFINE l == Len(pending)
<1>1. /\ pending \in Seq(Nat) /\ arrived \in Nat /\ at \in [Sinks -> Seq(Nat)]
      /\ InFlight /\ DeliveredOnce
  BY DEF RoutingInv, RoutingTypeOK
<1>2. /\ pending' \in Seq(Nat) /\ DOMAIN pending = 1..l /\ l \in Nat
      /\ DOMAIN pending' = 1..l + 1
      /\ \A i \in 1..l : pending'[i] = pending[i]
      /\ pending'[l + 1] = n
  BY <1>1, AppendFacts
<1> HIDE DEF l
<1>3. \A i \in DOMAIN pending' : pending'[i] \in 0..arrived'
  BY <1>1, <1>2 DEF InFlight
<1>4. \A i, j \in DOMAIN pending' : i < j /\ pending'[j] # 0 => pending'[i] < pending'[j]
  <2> SUFFICES ASSUME NEW i \in 1..l + 1, NEW j \in 1..l + 1, i < j, pending'[j] # 0
               PROVE  pending'[i] < pending'[j]
    BY <1>2
  <2>1. i \in 1..l /\ pending'[i] = pending[i] /\ pending[i] \in 0..arrived
    <3>1. i \in 1..l
      BY <1>2
    <3>2. QED
      BY <1>1, <1>2, <3>1 DEF InFlight
  <2>2. CASE j = l + 1
    <3>1. pending'[j] = n /\ n # 0
      BY <1>2, <2>2
    <3>2. n = arrived + 1 /\ arrived \in Nat
      BY <1>1, <3>1
    <3>3. QED
      BY <2>1, <3>1, <3>2
  <2>3. CASE j \in 1..l
    BY <1>1, <1>2, <2>1, <2>3 DEF InFlight
  <2>4. l \in Nat
    BY <1>2
  <2>5. j \in 1..l \/ j = l + 1
    BY <2>4
  <2>6. QED
    BY <2>2, <2>3, <2>5
<1>5. \A s \in Sinks : \A i \in DOMAIN at[s], j \in DOMAIN pending' : at[s][i] # pending'[j]
  <2>1. \A j \in 1..l + 1 : j \in 1..l \/ j = l + 1
    BY <1>2
  <2>2. \A s \in Sinks : \A i \in DOMAIN at[s] :
          at[s][i] # n /\ \A j \in 1..l : at[s][i] # pending[j]
    <3>1. \A s \in Sinks : \A i \in DOMAIN at[s] : at[s][i] \in 1..arrived
      BY <1>1 DEF DeliveredOnce
    <3>2. \A s \in Sinks : \A i \in DOMAIN at[s], j \in 1..l : at[s][i] # pending[j]
      BY <1>1, <1>2 DEF InFlight
    <3>3. QED
      BY <1>1, <3>1, <3>2
  <2>3. QED
    BY <1>2, <2>1, <2>2
<1>6. \A i \in DOMAIN at[Screen], j \in DOMAIN pending' :
        pending'[j] # 0 => at[Screen][i] < pending'[j]
  BY <1>1, <1>2 DEF InFlight, DeliveredOnce, Sinks
<1>7. QED
  BY <1>2, <1>3, <1>4, <1>5, <1>6 DEF InFlight

\* Dropping chunks from the front keeps the rest as it is.
LEMMA QueueShrinks ==
  ASSUME RoutingInv, UNCHANGED <<at, arrived>>, pending' \in Seq(Nat),
         NEW d \in Nat,
         \A i \in DOMAIN pending' :
           i \in Nat /\ i + d \in DOMAIN pending /\ pending'[i] = pending[i + d]
  PROVE  InFlight'
<1>1. InFlight
  BY DEF RoutingInv
<1>2. \A i \in DOMAIN pending' : pending'[i] \in 0..arrived'
  BY <1>1 DEF InFlight
<1>3. \A i, j \in DOMAIN pending' : i < j /\ pending'[j] # 0 => pending'[i] < pending'[j]
  BY <1>1 DEF InFlight
<1>4. \A s \in Sinks : \A i \in DOMAIN at[s], j \in DOMAIN pending' : at[s][i] # pending'[j]
  BY <1>1 DEF InFlight
<1>5. \A i \in DOMAIN at[Screen], j \in DOMAIN pending' :
        pending'[j] # 0 => at[Screen][i] < pending'[j]
  BY <1>1 DEF InFlight
<1>6. QED
  BY <1>2, <1>3, <1>4, <1>5 DEF InFlight

\* A sink is given a chunk that nobody has and that is newer than its own.
LEMMA GiveOnce ==
  ASSUME RoutingInv, NEW s \in Sinks, NEW n \in Nat, Give(s, n),
         arrived' \in {arrived, arrived + 1}, n \in 1..arrived',
         \A r \in Sinks : \A i \in DOMAIN at[r] : at[r][i] # n,
         \A i \in DOMAIN at[s] : at[s][i] < n
  PROVE  DeliveredOnce' /\ at' \in [Sinks -> Seq(Nat)]
<1> DEFINE l == Len(at[s])
<1>1. /\ arrived \in Nat /\ at \in [Sinks -> Seq(Nat)] /\ DeliveredOnce
  BY DEF RoutingInv, RoutingTypeOK
<1>2. /\ at'[s] = Append(at[s], n) /\ at' \in [Sinks -> Seq(Nat)]
      /\ \A r \in Sinks \ {s} : at'[r] = at[r]
  BY <1>1, AppendFacts DEF Give
<1>3. /\ DOMAIN at[s] = 1..l /\ l \in Nat /\ DOMAIN at'[s] = 1..l + 1
      /\ \A i \in 1..l : at'[s][i] = at[s][i]
      /\ at'[s][l + 1] = n
  BY <1>1, <1>2, AppendFacts
<1> HIDE DEF l
<1>4. \A r \in Sinks : \A i \in DOMAIN at'[r] : at'[r][i] \in 1..arrived'
  <2>1. \A r \in Sinks : \A i \in DOMAIN at[r] : at[r][i] \in 1..arrived'
    BY <1>1 DEF DeliveredOnce
  <2>2. \A i \in 1..l + 1 : i \in 1..l \/ i = l + 1
    BY <1>3
  <2>3. \A i \in DOMAIN at'[s] : at'[s][i] \in 1..arrived'
    BY <1>3, <2>1, <2>2
  <2>4. QED
    BY <1>2, <2>1, <2>3
<1>5. \A r \in Sinks : Increasing(at'[r])
  <2>1. Increasing(at'[s])
    <3>1. \A i, j \in 1..l : i < j => at[s][i] < at[s][j]
      BY <1>1, <1>3 DEF Increasing, DeliveredOnce
    <3>2. \A i \in 1..l : at[s][i] < n
      BY <1>3
    <3>3. \A i \in 1..l + 1 : (i \in 1..l \/ i = l + 1)
      BY <1>3
    <3>4. \A i, j \in 1..l + 1 : i < j => i \in 1..l
      BY <1>3
    <3>5. \A i, j \in 1..l + 1 : i < j => at'[s][i] < at'[s][j]
      BY <1>3, <3>1, <3>2, <3>3, <3>4
    <3>6. QED
      BY <1>3, <3>5 DEF Increasing
  <2>2. \A r \in Sinks \ {s} : Increasing(at'[r])
    BY <1>1, <1>2 DEF DeliveredOnce
  <2>3. QED
    BY <2>1, <2>2
<1>6. \A q \in Sinks : \A r \in Sinks \ {q} : \A i \in DOMAIN at'[q], j \in DOMAIN at'[r] :
        at'[q][i] # at'[r][j]
  <2> SUFFICES ASSUME NEW q \in Sinks, NEW r \in Sinks \ {q},
                      NEW i \in DOMAIN at'[q], NEW j \in DOMAIN at'[r]
               PROVE  at'[q][i] # at'[r][j]
    OBVIOUS
  <2>1. CASE q # s /\ r # s
    BY <1>1, <1>2, <2>1 DEF DeliveredOnce
  <2>2. \A k \in 1..l + 1 : k \in 1..l \/ k = l + 1
    BY <1>3
  <2>3. \A p \in Sinks \ {s} : \A k \in 1..l, m \in DOMAIN at[p] : at[s][k] # at[p][m]
    BY <1>1, <1>3 DEF DeliveredOnce
  <2>4. \A p \in Sinks \ {s} : \A k \in DOMAIN at'[s], m \in DOMAIN at[p] : at'[s][k] # at[p][m]
    BY <1>3, <2>2, <2>3
  <2>5. CASE q = s
    <3>1. r \in Sinks \ {s} /\ at'[r] = at[r] /\ i \in DOMAIN at'[s] /\ j \in DOMAIN at[r]
      BY <1>2, <2>5
    <3>2. at'[s][i] # at[r][j]
      BY <2>4, <3>1
    <3>3. QED
      BY <2>5, <3>1, <3>2
  <2>6. CASE r = s
    <3>1. q \in Sinks \ {s} /\ at'[q] = at[q] /\ j \in DOMAIN at'[s] /\ i \in DOMAIN at[q]
      BY <1>2, <2>6
    <3>2. at'[s][j] # at[q][i]
      BY <2>4, <3>1
    <3>3. QED
      BY <2>6, <3>1, <3>2
  <2>7. QED
    BY <2>1, <2>5, <2>6
<1>7. QED
  BY <1>2, <1>4, <1>5, <1>6 DEF DeliveredOnce

LEMMA RoutingTypes ==
  ASSUME RoutingInv
  PROVE  /\ arrived \in Nat /\ pending \in Seq(Nat) /\ at \in [Sinks -> Seq(Nat)]
         /\ cut \in BOOLEAN /\ noticed \in BOOLEAN /\ open \in BOOLEAN
         /\ InFlight /\ DeliveredOnce
BY DEF RoutingInv, RoutingTypeOK

LEMMA ArriveInv == ASSUME RoutingInv, Arrive PROVE RoutingInv'
<1>1. InFlight' /\ pending' \in Seq(Nat)
  <2>1. arrived + 1 \in Nat
    BY RoutingTypes
  <2>2. QED
    BY <2>1, QueueGrows DEF Arrive
<1>2. DeliveredOnce'
  BY SinksKeep DEF Arrive
<1>3. RoutingTypeOK'
  BY <1>1, RoutingTypes DEF Arrive, RoutingTypeOK
<1>4. QED
  BY <1>1, <1>2, <1>3 DEF RoutingInv

LEMMA CutInv == ASSUME RoutingInv, Cut PROVE RoutingInv'
<1>1. InFlight' /\ pending' \in Seq(Nat)
  <2>1. 0 \in Nat /\ UNCHANGED at /\ arrived' \in {arrived, arrived + 1}
        /\ pending' = Append(pending, 0)
    BY DEF Cut
  <2>2. QED
    BY <2>1, QueueGrows, RoutingTypes
<1>2. DeliveredOnce'
  BY SinksKeep DEF Cut
<1>3. RoutingTypeOK'
  BY <1>1, RoutingTypes DEF Cut, RoutingTypeOK
<1>4. QED
  BY <1>1, <1>2, <1>3 DEF RoutingInv

LEMMA DivertInv == ASSUME RoutingInv, NEW t \in Transfers \ {Screen}, Divert(t) PROVE RoutingInv'
<1> DEFINE n == arrived + 1
<1>1. t \in Sinks /\ t # Screen /\ n \in Nat /\ n \in 1..arrived' /\ arrived' = n
  BY RoutingTypes DEF Sinks, Divert
<1>2. \A r \in Sinks : \A i \in DOMAIN at[r] : at[r][i] < n
  BY RoutingTypes DEF DeliveredOnce
<1>3. \A r \in Sinks : \A i \in DOMAIN at[r] : at[r][i] # n
  BY RoutingTypes DEF DeliveredOnce
<1>4. DeliveredOnce' /\ at' \in [Sinks -> Seq(Nat)]
  BY <1>1, <1>2, <1>3, GiveOnce DEF Divert
<1>5. InFlight'
  <2>1. UNCHANGED pending /\ at' = [at EXCEPT ![t] = Append(at[t], n)]
    BY DEF Divert, Give
  <2>2. at'[Screen] = at[Screen] /\ at'[t] = Append(at[t], n)
        /\ \A r \in Sinks \ {t} : at'[r] = at[r]
    BY <1>1, <2>1, RoutingTypes DEF Sinks
  <2>3. \A i \in DOMAIN pending : pending[i] \in 0..arrived /\ pending[i] # n
    BY RoutingTypes DEF InFlight
  <2>4. \A i \in DOMAIN pending' : pending'[i] \in 0..arrived'
    BY <1>1, <2>1, <2>3, RoutingTypes
  <2>5. \A s \in Sinks : \A i \in DOMAIN at'[s], j \in DOMAIN pending' : at'[s][i] # pending'[j]
    <3> SUFFICES ASSUME NEW s \in Sinks, NEW i \in DOMAIN at'[s], NEW j \in DOMAIN pending
                 PROVE  at'[s][i] # pending[j]
      BY <2>1
    <3>1. CASE s # t
      BY <2>2, <3>1, RoutingTypes DEF InFlight
    <3>2. CASE s = t
      <4>1. at[t] \in Seq(Nat)
        BY <1>1, RoutingTypes
      <4>2. (i \in DOMAIN at[t] /\ at'[t][i] = at[t][i]) \/ at'[t][i] = n
        BY <1>1, <2>2, <3>2, <4>1, AppendFacts
      <4>3. QED
        BY <1>1, <2>3, <3>2, <4>2, RoutingTypes DEF InFlight
    <3>3. QED
      BY <3>1, <3>2
  <2>6. QED
    BY <2>1, <2>2, <2>4, <2>5, RoutingTypes DEF InFlight
<1>6. RoutingTypeOK'
  BY <1>1, <1>4, RoutingTypes DEF Divert, RoutingTypeOK
<1>7. QED
  BY <1>4, <1>5, <1>6 DEF RoutingInv

LEMMA DeliverInv == ASSUME RoutingInv, NEW s \in Sinks, Deliver(s) PROVE RoutingInv'
<1> DEFINE n == Head(pending)
<1>0. /\ n # 0 /\ Give(s, n) /\ pending' = Tail(pending)
      /\ at' = [at EXCEPT ![s] = Append(at[s], n)] /\ UNCHANGED arrived
  BY DEF Deliver, Give
<1>1. /\ Tail(pending) \in Seq(Nat) /\ n = pending[1] /\ 1 \in DOMAIN pending
      /\ DOMAIN pending = 1..Len(pending) /\ Len(pending) \in Nat
      /\ DOMAIN Tail(pending) = 1..Len(pending) - 1
      /\ \A i \in DOMAIN Tail(pending) :
           i + 1 \in DOMAIN pending /\ Tail(pending)[i] = pending[i + 1]
  BY RoutingTypes, TailFacts DEF Deliver
<1> HIDE DEF n
<1>2. n \in 1..arrived /\ n \in Nat /\ n # 0
  <2>1. pending[1] \in 0..arrived /\ arrived \in Nat
    BY <1>1, RoutingTypes DEF InFlight
  <2>2. QED
    BY <1>1, <1>0, <2>1
<1>3. \A r \in Sinks : \A i \in DOMAIN at[r] : at[r][i] # n
  <2>1. \A r \in Sinks : \A i \in DOMAIN at[r] : at[r][i] # pending[1]
    <3>1. 1 \in DOMAIN pending /\ InFlight
      BY <1>1, RoutingTypes
    <3>2. QED
      BY <3>1 DEF InFlight
  <2>2. QED
    BY <1>1, <2>1
<1>4. \A i \in DOMAIN at[s] : at[s][i] < n
  <2>1. CASE s = Screen
    <3>1. \A i \in DOMAIN at[Screen] : pending[1] # 0 => at[Screen][i] < pending[1]
      BY <1>1, RoutingTypes DEF InFlight
    <3>2. QED
      BY <1>1, <1>2, <2>1, <3>1
  <2>2. CASE s # Screen
    BY <2>2 DEF Deliver
  <2>3. QED
    BY <2>1, <2>2
<1>5. DeliveredOnce' /\ at' \in [Sinks -> Seq(Nat)]
  BY <1>2, <1>3, <1>4, <1>0, GiveOnce
<1>6. /\ pending' = Tail(pending) /\ arrived' = arrived
      /\ at'[s] = Append(at[s], n)
      /\ \A r \in Sinks \ {s} : at'[r] = at[r]
      /\ Screen \in Sinks
  BY <1>0, RoutingTypes DEF Sinks
<1>7. \A i \in DOMAIN at'[s] : (i \in DOMAIN at[s] /\ at'[s][i] = at[s][i]) \/ at'[s][i] = n
  <2>1. at[s] \in Seq(Nat)
    BY RoutingTypes
  <2>2. QED
    BY <1>2, <1>6, <2>1, AppendFacts
<1>8. \A j \in DOMAIN pending' :
        /\ j + 1 \in DOMAIN pending /\ pending'[j] = pending[j + 1] /\ 1 < j + 1
        /\ pending'[j] # n
        /\ pending'[j] # 0 => n < pending'[j]
  <2> SUFFICES ASSUME NEW j \in DOMAIN pending'
               PROVE  /\ j + 1 \in DOMAIN pending /\ pending'[j] = pending[j + 1] /\ 1 < j + 1
                      /\ pending'[j] # n
                      /\ pending'[j] # 0 => n < pending'[j]
    OBVIOUS
  <2>1. j + 1 \in DOMAIN pending /\ pending'[j] = pending[j + 1] /\ 1 < j + 1
    BY <1>1, <1>6
  <2>2. pending'[j] # 0 => n < pending'[j]
    BY <1>1, <2>1, RoutingTypes DEF InFlight
  <2>3. pending'[j] # n
    BY <1>2, <2>2
  <2>4. QED
    BY <2>1, <2>2, <2>3
<1>9. InFlight'
  <2>1. \A i \in DOMAIN pending' : pending'[i] \in 0..arrived'
    BY <1>6, <1>8, RoutingTypes DEF InFlight
  <2>2. \A i, j \in DOMAIN pending' : i < j /\ pending'[j] # 0 => pending'[i] < pending'[j]
    <3>1. \A i \in DOMAIN pending' : i \in Nat
      BY <1>1, <1>6
    <3>2. QED
      BY <1>8, <3>1, RoutingTypes DEF InFlight
  <2>3. \A r \in Sinks : \A i \in DOMAIN at'[r], j \in DOMAIN pending' : at'[r][i] # pending'[j]
    <3> SUFFICES ASSUME NEW r \in Sinks, NEW i \in DOMAIN at'[r], NEW j \in DOMAIN pending'
                 PROVE  at'[r][i] # pending'[j]
      OBVIOUS
    <3>1. j + 1 \in DOMAIN pending /\ pending'[j] = pending[j + 1] /\ pending'[j] # n
      BY <1>8
    <3>2. (i \in DOMAIN at[r] /\ at'[r][i] = at[r][i]) \/ at'[r][i] = n
      BY <1>6, <1>7
    <3>3. i \in DOMAIN at[r] => at[r][i] # pending[j + 1]
      BY <3>1, RoutingTypes DEF InFlight
    <3>4. QED
      BY <3>1, <3>2, <3>3
  <2>4. \A i \in DOMAIN at'[Screen], j \in DOMAIN pending' :
          pending'[j] # 0 => at'[Screen][i] < pending'[j]
    <3> SUFFICES ASSUME NEW i \in DOMAIN at'[Screen], NEW j \in DOMAIN pending', pending'[j] # 0
                 PROVE  at'[Screen][i] < pending'[j]
      OBVIOUS
    <3>1. j + 1 \in DOMAIN pending /\ pending'[j] = pending[j + 1] /\ n < pending'[j]
      BY <1>8
    <3>2. (i \in DOMAIN at[Screen] /\ at'[Screen][i] = at[Screen][i]) \/ at'[Screen][i] = n
      BY <1>6, <1>7
    <3>3. i \in DOMAIN at[Screen] => at[Screen][i] < pending[j + 1]
      BY <3>1, RoutingTypes DEF InFlight
    <3>4. QED
      BY <3>1, <3>2, <3>3
  <2>5. QED
    BY <2>1, <2>2, <2>3, <2>4 DEF InFlight
<1>10. RoutingTypeOK'
  BY <1>1, <1>5, <1>6, RoutingTypes DEF Deliver, RoutingTypeOK
<1>11. QED
  BY <1>5, <1>9, <1>10 DEF RoutingInv

LEMMA AnnounceInv == ASSUME RoutingInv, Announce PROVE RoutingInv'
<1>1. pending' = Tail(pending) /\ pending' \in Seq(Nat) /\ UNCHANGED <<at, arrived>>
  BY RoutingTypes, TailFacts DEF Announce
<1>2. \A i \in DOMAIN pending' :
        i \in Nat /\ i + 1 \in DOMAIN pending /\ pending'[i] = pending[i + 1]
  BY <1>1, RoutingTypes, TailFacts DEF Announce
<1>3. InFlight'
  BY <1>1, <1>2, QueueShrinks
<1>4. DeliveredOnce'
  BY <1>1, SinksKeep
<1>5. RoutingTypeOK'
  BY <1>1, RoutingTypes DEF Announce, RoutingTypeOK
<1>6. QED
  BY <1>3, <1>4, <1>5 DEF RoutingInv

LEMMA LeaveInv == ASSUME RoutingInv, Leave PROVE RoutingInv'
<1>1. PICK k \in 1..Len(pending) + 1 : pending' = SubSeq(pending, k, Len(pending))
  BY DEF Leave
<1>2. UNCHANGED <<at, arrived>> /\ Len(pending) \in Nat /\ k \in Nat /\ k - 1 \in Nat
  BY RoutingTypes DEF Leave
<1>3. /\ pending' \in Seq(Nat)
      /\ \A i \in DOMAIN pending' :
           i \in Nat /\ i + k - 1 \in DOMAIN pending /\ pending'[i] = pending[i + k - 1]
  BY <1>1, RoutingTypes, SuffixFacts
<1>4. \A i \in DOMAIN pending' :
        i \in Nat /\ i + (k - 1) \in DOMAIN pending /\ pending'[i] = pending[i + (k - 1)]
  <2>1. \A i \in DOMAIN pending' : i + k - 1 = i + (k - 1)
    BY <1>2, <1>3
  <2>2. QED
    BY <1>3, <2>1
<1>5. InFlight'
  BY <1>2, <1>3, <1>4, QueueShrinks
<1>6. DeliveredOnce'
  BY <1>2, SinksKeep
<1>7. RoutingTypeOK'
  BY <1>3, RoutingTypes DEF Leave, RoutingTypeOK
<1>8. QED
  BY <1>5, <1>6, <1>7 DEF RoutingInv

LEMMA StumbleInv == ASSUME RoutingInv, Stumble \/ UNCHANGED vars PROVE RoutingInv'
<1>1. UNCHANGED <<arrived, pending, at, cut, open>> /\ noticed' \in BOOLEAN
  BY RoutingTypes DEF Stumble, vars
<1>2. QED
  BY <1>1 DEF RoutingInv, RoutingTypeOK, InFlight, DeliveredOnce

LEMMA RoutingInit == Init => RoutingInv
<1> SUFFICES ASSUME Init PROVE RoutingInv
  OBVIOUS
<1>1. DOMAIN pending = {} /\ Screen \in Sinks
      /\ \A s \in Sinks : at[s] = <<>> /\ DOMAIN at[s] = {}
  <2>1. pending = <<>> /\ Screen \in Sinks /\ \A s \in Sinks : at[s] = <<>>
    BY DEF Init, Sinks
  <2>2. DOMAIN <<>> = {}
    OBVIOUS
  <2>3. QED
    BY <2>1, <2>2
<1>2. RoutingTypeOK
  <2>1. <<>> \in Seq(Nat)
    OBVIOUS
  <2>2. at \in [Sinks -> Seq(Nat)]
    BY <2>1 DEF Init
  <2>3. QED
    BY <2>1, <2>2 DEF Init, RoutingTypeOK
<1>3. InFlight
  BY <1>1 DEF InFlight
<1>4. DeliveredOnce
  BY <1>1 DEF DeliveredOnce, Increasing
<1>5. QED
  BY <1>2, <1>3, <1>4 DEF RoutingInv

\* Whoever routes like this delivers every chunk at most once, to one sink,
\* and in order on each path.
THEOREM DeliversOnce == Spec => []DeliveredOnce
<1>1. RoutingInv /\ [Next]_vars => RoutingInv'
  BY ArriveInv, CutInv, DivertInv, DeliverInv, AnnounceInv, LeaveInv, StumbleInv DEF Next
<1>2. RoutingInv => DeliveredOnce
  BY DEF RoutingInv
<1>3. QED
  BY RoutingInit, <1>1, <1>2, PTL DEF Spec
-----------------------------------------------------------------------------
\* Nothing is lost: the chunks in flight and those that reached a sink.
Waiting == {pending[i] : i \in DOMAIN pending}
Held    == UNION {{at[s][i] : i \in DOMAIN at[s]} : s \in Sinks}

\* A new chunk joins the queue behind the others.
LEMMA PendingGrows ==
  ASSUME RoutingTypeOK, NEW m \in Nat, pending' = Append(pending, m)
  PROVE  m \in Waiting' /\ \A n \in Nat : n \in Waiting => n \in Waiting'
<1>1. /\ DOMAIN pending = 1..Len(pending) /\ Len(pending) \in Nat
      /\ DOMAIN pending' = 1..Len(pending) + 1
      /\ \A i \in 1..Len(pending) : pending'[i] = pending[i]
      /\ pending'[Len(pending) + 1] = m
  BY AppendFacts DEF RoutingTypeOK
<1>2. Len(pending) + 1 \in DOMAIN pending' /\ DOMAIN pending \subseteq DOMAIN pending'
  BY <1>1
<1>3. QED
  BY <1>1, <1>2 DEF Waiting

\* Only the head leaves the queue.
LEMMA PendingShrinks ==
  ASSUME RoutingTypeOK, pending # <<>>, pending' = Tail(pending)
  PROVE  \A n \in Nat : n # Head(pending) /\ n \in Waiting => n \in Waiting'
<1>1. /\ Head(pending) = pending[1]
      /\ DOMAIN pending = 1..Len(pending) /\ Len(pending) \in Nat
      /\ DOMAIN pending' = 1..Len(pending) - 1
      /\ \A i \in DOMAIN pending' : pending'[i] = pending[i + 1]
  BY TailFacts DEF RoutingTypeOK
<1> SUFFICES ASSUME NEW n \in Nat, n # Head(pending),
                    NEW i \in DOMAIN pending, pending[i] = n
             PROVE  n \in Waiting'
  BY DEF Waiting
<1>2. i # 1 /\ i \in 1..Len(pending)
  BY <1>1
<1>3. i - 1 \in DOMAIN pending' /\ (i - 1) + 1 = i
  BY <1>1, <1>2
<1>4. QED
  BY <1>1, <1>3 DEF Waiting

\* A sink keeps what it has.
LEMMA SinkGains ==
  ASSUME RoutingTypeOK, NEW s \in Sinks, NEW m \in Nat, Give(s, m)
  PROVE  m \in Held' /\ \A n \in Nat : n \in Held => n \in Held'
<1>1. at[s] \in Seq(Nat) /\ at'[s] = Append(at[s], m)
      /\ \A r \in Sinks \ {s} : at'[r] = at[r]
  BY DEF RoutingTypeOK, Give
<1>2. /\ DOMAIN at[s] = 1..Len(at[s]) /\ Len(at[s]) \in Nat
      /\ DOMAIN at'[s] = 1..Len(at[s]) + 1
      /\ \A i \in 1..Len(at[s]) : at'[s][i] = at[s][i]
      /\ at'[s][Len(at[s]) + 1] = m
  BY <1>1, AppendFacts
<1>3. Len(at[s]) + 1 \in DOMAIN at'[s] /\ DOMAIN at[s] \subseteq DOMAIN at'[s]
  BY <1>2
<1>4. m \in Held'
  BY <1>2, <1>3 DEF Held
<1>5. \A n \in Nat : n \in Held => n \in Held'
  <2> SUFFICES ASSUME NEW r \in Sinks, NEW i \in DOMAIN at[r]
               PROVE  at[r][i] \in Held'
    BY DEF Held
  <2>1. i \in DOMAIN at'[r] /\ at'[r][i] = at[r][i]
    BY <1>1, <1>2, <1>3
  <2>2. QED
    BY <2>1 DEF Held
<1>6. QED
  BY <1>4, <1>5

LEMMA LostMeans ==
  NothingLost <=>
    (open => IF cut THEN noticed \/ 0 \in Waiting
                    ELSE \A n \in 1..arrived : n \in Waiting \/ n \in Held)
BY DEF NothingLost, Waiting, Held

LEMMA NothingLostStep ==
  ASSUME RoutingTypeOK, NothingLost, [Next]_vars
  PROVE  NothingLost'
<1> DEFINE Accounted == open => IF cut THEN noticed \/ 0 \in Waiting
                        ELSE \A n \in 1..arrived : n \in Waiting \/ n \in Held
<1> SUFFICES ASSUME Accounted PROVE Accounted'
  BY LostMeans DEF NothingLost, Waiting, Held
<1>0. arrived \in Nat /\ arrived + 1 \in Nat
      /\ \A n \in 1..arrived + 1 : n \in 1..arrived \/ n = arrived + 1
  BY DEF RoutingTypeOK
<1>1. CASE Arrive
  <2>1. UNCHANGED <<at, open, cut>> /\ ~cut /\ arrived' = arrived + 1
        /\ pending' = Append(pending, arrived + 1)
    BY <1>1 DEF Arrive
  <2>2. arrived + 1 \in Waiting' /\ \A n \in Nat : n \in Waiting => n \in Waiting'
    BY <1>0, <2>1, PendingGrows
  <2>3. \A n : n \in Held => n \in Held'
    BY <2>1 DEF Held
  <2>4. \A n \in 1..arrived : n \in Nat
    BY <1>0
  <2>5. QED
    BY <1>0, <2>1, <2>2, <2>3, <2>4
<1>2. CASE \E t \in Transfers : Divert(t)
  <2>1. PICK t \in Transfers : Divert(t)
    BY <1>2
  <2>2. UNCHANGED <<pending, open, cut>> /\ ~cut /\ arrived' = arrived + 1
        /\ Give(t, arrived + 1) /\ t \in Sinks
    BY <2>1 DEF Divert, Sinks
  <2>3. arrived + 1 \in Held' /\ \A n \in Nat : n \in Held => n \in Held'
    BY <1>0, <2>2, SinkGains
  <2>4. \A n : n \in Waiting => n \in Waiting'
    BY <2>2 DEF Waiting
  <2>5. \A n \in 1..arrived : n \in Nat
    BY <1>0
  <2>6. QED
    BY <1>0, <2>2, <2>3, <2>4, <2>5
<1>3. CASE Cut
  <2>1. cut' /\ pending' = Append(pending, 0)
    BY <1>3 DEF Cut
  <2>2. 0 \in Waiting'
    BY <2>1, PendingGrows
  <2>3. QED
    BY <2>1, <2>2
<1>4. CASE \E s \in Sinks : Deliver(s)
  <2>1. PICK s \in Sinks : Deliver(s)
    BY <1>4
  <2>2. /\ pending # <<>> /\ Head(pending) # 0 /\ pending' = Tail(pending)
        /\ Give(s, Head(pending)) /\ UNCHANGED <<arrived, cut, open>>
        /\ noticed => noticed'
    BY <2>1 DEF Deliver
  <2>3. Head(pending) \in Nat
    BY <2>2, TailFacts DEF RoutingTypeOK
  <2>4. \A n \in Nat : n # Head(pending) /\ n \in Waiting => n \in Waiting'
    BY <2>2, PendingShrinks
  <2>5. Head(pending) \in Held' /\ \A n \in Nat : n \in Held => n \in Held'
    BY <2>2, <2>3, SinkGains
  <2>6. CASE cut
    BY <2>2, <2>4, <2>6
  <2>7. CASE ~cut
    <3>1. \A n \in 1..arrived : n \in Nat
      BY <1>0
    <3>2. QED
      BY <2>2, <2>4, <2>5, <2>7, <3>1
  <2>8. QED
    BY <2>6, <2>7
<1>5. CASE Announce
  <2>1. /\ pending # <<>> /\ Head(pending) = 0 /\ pending' = Tail(pending)
        /\ noticed' /\ UNCHANGED <<arrived, at, cut, open>>
    BY <1>5 DEF Announce
  <2>2. \A n \in Nat : n # 0 /\ n \in Waiting => n \in Waiting'
    BY <2>1, PendingShrinks
  <2>3. \A n : n \in Held => n \in Held'
    BY <2>1 DEF Held
  <2>4. \A n \in 1..arrived : n \in Nat /\ n # 0
    BY <1>0
  <2>5. QED
    BY <2>1, <2>2, <2>3, <2>4
<1>6. CASE Stumble
  BY <1>6 DEF Stumble, Waiting, Held
<1>7. CASE Leave
  BY <1>7 DEF Leave
<1>8. CASE UNCHANGED vars
  BY <1>8 DEF vars, Waiting, Held
<1>9. QED
  BY <1>1, <1>2, <1>3, <1>4, <1>5, <1>6, <1>7, <1>8 DEF Next

\* Whoever routes like this loses nothing while the link is up, and does not
\* hide it when the link is cut.
THEOREM LosesNothing == Spec => []NothingLost
<1>1. RoutingInv /\ [Next]_vars => RoutingInv'
  BY ArriveInv, CutInv, DivertInv, DeliverInv, AnnounceInv, LeaveInv, StumbleInv DEF Next
<1>2. RoutingInv => RoutingTypeOK
  BY DEF RoutingInv
<1>3. RoutingInv /\ NothingLost /\ [Next]_vars => NothingLost'
  BY <1>2, NothingLostStep
<1>4. Init => NothingLost
  BY DEF Init, NothingLost
<1>5. QED
  BY RoutingInit, <1>1, <1>3, <1>4, PTL DEF Spec
=============================================================================
