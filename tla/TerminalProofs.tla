--------------------------- MODULE TerminalProofs ---------------------------
(***************************************************************************)
(* Proofs about Terminal, for windows of any size and sequences with any   *)
(* parameters: the emulator gives the parser what it was given, the screen *)
(* stays well formed as long as the cursor is on it, two sequences alone   *)
(* lead off it, and the main screen survives the alternate one.            *)
(***************************************************************************)
EXTENDS Terminal, TLAPS, SequenceTheorems, WellFoundedInduction

-----------------------------------------------------------------------------
(***************************************************************************)
(* The invariants.                                                         *)
(***************************************************************************)

\* How many bytes of the character at hand have not come yet.  The emulator
\* counts them, but for C2, which it keeps back.
Missing == IF heard = <<>> THEN 0 ELSE 1 + ContinuationCount(heard[1]) - Len(heard)

Utf8Inv ==
  /\ heard \in Seq(Bytes) /\ (heard # <<>> => heard[1] # Cont)
  /\ Missing \in Nat
  /\ \/ /\ heard \in {<<C1>>, <<C2, C1>>}
        /\ fed = <<CSI>> /\ held = FALSE /\ conts = 0
     \/ heard = <<C2>> /\ fed = <<>> /\ held = TRUE /\ conts = 0
     \/ /\ heard \notin {<<C1>>, <<C2, C1>>, <<C2>>}
        /\ fed = heard /\ held = FALSE /\ conts = Missing

Style == [bold : BOOLEAN, bg : {"default", "blue"}]
Char == {"space", "q", "line-q", "e-acute"}
Cell == [ch : Char, style : Style]
Line(cols) == [1..cols -> Cell]
Screen(cols) == Seq(Line(cols))

Fields == {"cols", "rows", "grid", "col", "row", "visible", "style", "saved", "top", "bottom",
           "stops", "in_alt", "alt", "panicked"}

\* Wherever the cursor is, the lines have the width of the window, there are
\* enough of them, and the margins are inside.
Formed(s) ==
  /\ Fields \subseteq DOMAIN s
  /\ s.cols \in Nat \ {0} /\ s.rows \in Nat \ {0} /\ s.col \in Nat /\ s.row \in Nat
  /\ s.visible \in BOOLEAN /\ s.style \in Style /\ s.stops \subseteq Nat
  /\ s.saved \in [col : Nat, row : Nat, style : Style]
  /\ s.top \in Nat /\ s.bottom \in Nat /\ s.top <= s.bottom /\ s.bottom < s.rows
  /\ s.grid \in Screen(s.cols) /\ s.rows <= Len(s.grid)
  /\ s.alt \in [grid : Screen(s.cols), col : Nat, row : Nat, visible : BOOLEAN]
  /\ s.rows <= Len(s.alt.grid)

\* As long as the cursor was on the screen both have no line too many.
Tight(s) ==
  /\ Len(s.grid) = s.rows /\ Len(s.alt.grid) = s.rows
  /\ s.col < s.cols /\ s.row < s.rows
  /\ s.alt.col < s.cols /\ s.alt.row < s.rows
  /\ s.panicked = FALSE

\* The alternate screen covers the main one and keeps its cursor.
Covers ==
  t.in_alt => /\ t.alt.grid = main.grid
              /\ main.cursor # <<>> => main.cursor = <<t.saved.col, t.saved.row, t.saved.style>>

Inv ==
  /\ Formed(t)
  /\ strayed \/ Tight(t)
  /\ {"grid", "cursor"} \subseteq DOMAIN main /\ Covers

-----------------------------------------------------------------------------
(***************************************************************************)
(* Least and greatest numbers.                                             *)
(***************************************************************************)

LessNat == {ss \in Nat \X Nat : ss[1] < ss[2]}

LEMMA Founded == IsWellFoundedOn(LessNat, Nat)
<1>1. LessNat = OpToRel(<, Nat)
  BY DEF LessNat, OpToRel
<1>2. QED
  BY <1>1, NatLessThanWellFounded

LEMMA Least ==
  ASSUME NEW S \in SUBSET Nat, S # {}
  PROVE  \E n \in S : \A m \in S : n <= m
<1>1. \E n \in S : \A m \in S : ~ <<m, n>> \in LessNat
  BY Founded, WFMin, Zenon
<1>2. PICK n \in S : \A m \in S : ~ <<m, n>> \in LessNat
  BY <1>1
<1>3. ASSUME NEW m \in S PROVE n <= m
  <2>1. m \in Nat /\ n \in Nat
    OBVIOUS
  <2>2. ~ (m < n)
    BY <1>2, <2>1 DEF LessNat
  <2>3. QED
    BY <2>1, <2>2
<1>4. QED
  BY <1>3

LEMMA Induct ==
  ASSUME NEW S, 0 \in S, \A n \in Nat : n \in S => n + 1 \in S
  PROVE  Nat \subseteq S
<1> DEFINE Bad == {n \in Nat : n \notin S}
<1>1. SUFFICES ASSUME Bad # {} PROVE FALSE
  OBVIOUS
<1>2. PICK n \in Bad : \A m \in Bad : n <= m
  <2> HIDE DEF Bad
  <2>1. Bad \in SUBSET Nat
    BY DEF Bad
  <2>2. QED
    BY <1>1, <2>1, Least
<1>3. n # 0 /\ n \in Nat
  OBVIOUS
<1>4. n - 1 \in Nat /\ n - 1 \notin Bad
  BY <1>2, <1>3
<1>5. n - 1 \in S
  BY <1>4
<1>6. QED
  BY <1>3, <1>4, <1>5

LEMMA MinOfTwo ==
  ASSUME NEW a \in Int, NEW b \in Int
  PROVE  /\ Min({a, b}) \in {a, b}
         /\ Min({a, b}) <= a /\ Min({a, b}) <= b
<1>1. \E x \in {a, b} : \A y \in {a, b} : x <= y
  OBVIOUS
<1>2. QED
  BY <1>1 DEF Min

LEMMA MaxOfTwo ==
  ASSUME NEW a \in Int, NEW b \in Int
  PROVE  /\ Max({a, b}) \in {a, b}
         /\ Max({a, b}) >= a /\ Max({a, b}) >= b
<1>1. \E x \in {a, b} : \A y \in {a, b} : x >= y
  OBVIOUS
<1>2. QED
  BY <1>1 DEF Max

LEMMA MinOfMany ==
  ASSUME NEW S \in SUBSET Nat, S # {}
  PROVE  /\ Min(S) \in S
         /\ \A n \in S : Min(S) <= n
<1>1. \E x \in S : \A y \in S : x <= y
  BY Least
<1>2. QED
  BY <1>1 DEF Min

LEMMA MaxOfMany ==
  ASSUME NEW S \in SUBSET Nat, S # {}, NEW top \in Nat, \A n \in S : n <= top
  PROVE  /\ Max(S) \in S
         /\ \A n \in S : Max(S) >= n
<1> DEFINE Rest == {top - n : n \in S}
<1>1. Rest \in SUBSET Nat /\ Rest # {}
  <2>1. \A n \in S : n \in Nat /\ top - n \in Nat
    OBVIOUS
  <2>2. Rest \subseteq Nat
    BY <2>1
  <2>3. PICK n \in S : TRUE
    OBVIOUS
  <2>4. top - n \in Rest
    BY <2>3
  <2>5. QED
    BY <2>2, <2>4
<1>2. PICK r \in Rest : \A q \in Rest : r <= q
  <2> HIDE DEF Rest
  <2>1. QED
    BY <1>1, Least
<1>3. PICK x \in S : r = top - x
  BY <1>2
<1>4. ASSUME NEW y \in S PROVE x >= y
  <2>1. top - y \in Rest
    OBVIOUS
  <2>2. top - x <= top - y /\ x \in Nat /\ y \in Nat
    BY <1>2, <1>3, <2>1
  <2>3. QED
    BY <2>2
<1>5. QED
  BY <1>4 DEF Max

-----------------------------------------------------------------------------
(***************************************************************************)
(* Lines taken out and put in.                                             *)
(***************************************************************************)

LEMMA TakenOut ==
  ASSUME NEW S, NEW g \in Seq(S), NEW i \in 1..Len(g)
  PROVE  /\ RemoveAt(g, i) \in Seq(S)
         /\ Len(RemoveAt(g, i)) = Len(g) - 1
         /\ \A j \in 1..Len(g) - 1 :
               RemoveAt(g, i)[j] = IF j < i THEN g[j] ELSE g[j + 1]
<1> DEFINE u == SubSeq(g, 1, i - 1)
           v == SubSeq(g, i + 1, Len(g))
<1>1. /\ u \in Seq(S) /\ Len(u) = i - 1
      /\ \A j \in 1..i - 1 : u[j] = g[j]
  <2>1. \A j \in 1..i - 1 : j \in 1..Len(g)
    OBVIOUS
  <2>2. QED
    BY <2>1, SubSeqProperties
<1>2. /\ v \in Seq(S) /\ Len(v) = Len(g) - i
      /\ \A j \in 1..Len(g) - i : v[j] = g[i + j]
  <2>1. \A j \in i + 1..Len(g) : j \in 1..Len(g)
    OBVIOUS
  <2>2. QED
    BY <2>1, SubSeqProperties
<1>3. RemoveAt(g, i) = u \o v
  BY DEF RemoveAt
<1> HIDE DEF u, v
<1>4. /\ u \o v \in Seq(S) /\ Len(u \o v) = Len(u) + Len(v)
      /\ \A j \in 1..Len(u) + Len(v) :
            (u \o v)[j] = IF j <= Len(u) THEN u[j] ELSE v[j - Len(u)]
  BY <1>1, <1>2, ConcatProperties
<1>5. QED
  BY <1>1, <1>2, <1>3, <1>4

LEMMA PutIn ==
  ASSUME NEW S, NEW g \in Seq(S), NEW i \in 1..Len(g) + 1, NEW e \in S
  PROVE  /\ InsertAt(g, i, e) \in Seq(S)
         /\ Len(InsertAt(g, i, e)) = Len(g) + 1
         /\ \A j \in 1..Len(g) + 1 :
               InsertAt(g, i, e)[j] =
                 IF j < i THEN g[j] ELSE IF j = i THEN e ELSE g[j - 1]
<1> DEFINE u == SubSeq(g, 1, i - 1)
           v == SubSeq(g, i, Len(g))
           w == u \o <<e>>
<1>1. /\ u \in Seq(S) /\ Len(u) = i - 1
      /\ \A j \in 1..i - 1 : u[j] = g[j]
  <2>1. \A j \in 1..i - 1 : j \in 1..Len(g)
    OBVIOUS
  <2>2. QED
    BY <2>1, SubSeqProperties
<1>2. /\ v \in Seq(S) /\ Len(v) = Len(g) + 1 - i
      /\ \A j \in 1..Len(g) + 1 - i : v[j] = g[i + j - 1]
  <2>1. \A j \in i..Len(g) : j \in 1..Len(g)
    OBVIOUS
  <2>2. QED
    BY <2>1, SubSeqProperties
<1>3. InsertAt(g, i, e) = w \o v
  BY DEF InsertAt
<1>4. <<e>> \in Seq(S) /\ Len(<<e>>) = 1 /\ <<e>>[1] = e
  OBVIOUS
<1> HIDE DEF u, v
<1>5. /\ w \in Seq(S) /\ Len(w) = i
      /\ \A j \in 1..i : w[j] = IF j < i THEN g[j] ELSE e
  BY <1>1, <1>4, ConcatProperties
<1> HIDE DEF w
<1>6. /\ w \o v \in Seq(S) /\ Len(w \o v) = Len(w) + Len(v)
      /\ \A j \in 1..Len(w) + Len(v) :
            (w \o v)[j] = IF j <= Len(w) THEN w[j] ELSE v[j - Len(w)]
  BY <1>2, <1>5, ConcatProperties
<1>7. QED
  BY <1>2, <1>3, <1>5, <1>6

-----------------------------------------------------------------------------
(***************************************************************************)
(* What the methods of TerminalState keep.                                 *)
(***************************************************************************)

Same(s, r, F) == Fields \subseteq DOMAIN r /\ \A f \in Fields \ F : r[f] = s[f]

\* r is well formed if s is, and as tight; it has the size, the other screen
\* and the saved cursor of s.
Calm(s, r) ==
  /\ Formed(r)
  /\ r.cols = s.cols /\ r.rows = s.rows
  /\ r.in_alt = s.in_alt /\ r.alt = s.alt /\ r.saved = s.saved
  /\ Tight(s) => Tight(r)

LEMMA CalmItself == ASSUME NEW s, Formed(s) PROVE Calm(s, s)
  BY DEF Calm

LEMMA CalmTwice ==
  ASSUME NEW s, NEW r, NEW q, Calm(s, r), Calm(r, q)
  PROVE  Calm(s, q)
  BY DEF Calm

LEMMA Moved ==
  ASSUME NEW s, NEW r, Formed(s), Same(s, r, {"col", "row", "visible", "style"}),
         r.col \in Nat, r.row \in Nat, r.visible \in BOOLEAN, r.style \in Style,
         Tight(s) => r.col < s.cols /\ r.row < s.rows
  PROVE  Calm(s, r)
<1>1. /\ r.cols = s.cols /\ r.rows = s.rows /\ r.grid = s.grid /\ r.saved = s.saved
      /\ r.top = s.top /\ r.bottom = s.bottom /\ r.stops = s.stops
      /\ r.in_alt = s.in_alt /\ r.alt = s.alt /\ r.panicked = s.panicked
  BY DEF Same, Fields
<1>2. Formed(r)
  BY <1>1 DEF Formed, Same
<1>3. Tight(s) => Tight(r)
  BY <1>1 DEF Tight
<1>4. QED
  BY <1>1, <1>2, <1>3 DEF Calm

LEMMA Painted ==
  ASSUME NEW s, NEW r, Formed(s), Same(s, r, {"grid"}),
         r.grid \in Screen(s.cols), Len(r.grid) >= Len(s.grid),
         Tight(s) => Len(r.grid) = Len(s.grid)
  PROVE  Calm(s, r)
<1>1. /\ r.cols = s.cols /\ r.rows = s.rows /\ r.col = s.col /\ r.row = s.row
      /\ r.saved = s.saved /\ r.visible = s.visible /\ r.style = s.style
      /\ r.top = s.top /\ r.bottom = s.bottom /\ r.stops = s.stops
      /\ r.in_alt = s.in_alt /\ r.alt = s.alt /\ r.panicked = s.panicked
  BY DEF Same, Fields
<1>2. Formed(r)
  <2>1. Len(s.grid) \in Nat /\ Len(r.grid) \in Nat
    BY LenProperties DEF Formed, Screen
  <2>2. QED
    BY <1>1, <2>1, SMTT(30) DEF Formed, Same
<1>3. Tight(s) => Tight(r)
  BY <1>1 DEF Tight
<1>4. QED
  BY <1>1, <1>2, <1>3 DEF Calm

LEMMA Broken ==
  ASSUME NEW s, NEW r, NEW bad, Formed(s), Calm(s, r), Tight(s) => ~bad
  PROVE  Calm(s, Unless(bad, s, r))
<1>1. CASE bad
  <2> DEFINE q == [s EXCEPT !.panicked = TRUE]
  <2>1. Unless(bad, s, r) = q
    BY <1>1 DEF Unless
  <2>2. Fields \subseteq DOMAIN q
    BY DEF Formed
  <2>3. /\ q.cols = s.cols /\ q.rows = s.rows /\ q.col = s.col /\ q.row = s.row
        /\ q.saved = s.saved /\ q.visible = s.visible /\ q.style = s.style
        /\ q.top = s.top /\ q.bottom = s.bottom /\ q.stops = s.stops /\ q.grid = s.grid
        /\ q.in_alt = s.in_alt /\ q.alt = s.alt
    BY DEF Formed, Fields
  <2> HIDE DEF q
  <2>4. Formed(q)
    BY <2>2, <2>3 DEF Formed
  <2>5. QED
    BY <1>1, <2>1, <2>3, <2>4 DEF Calm
<1>2. CASE ~bad
  BY <1>2 DEF Unless
<1>3. QED
  BY <1>1, <1>2

\* A method that sets fields no formula here speaks of.
LEMMA Elsewhere ==
  ASSUME NEW s, NEW r, Formed(s), Same(s, r, {})
  PROVE  Calm(s, r)
<1>1. Same(s, r, {"grid"}) /\ r.grid = s.grid
  BY DEF Same, Fields
<1>2. Len(s.grid) \in Nat /\ s.grid \in Screen(s.cols)
  BY LenProperties DEF Formed, Screen
<1>3. QED
  BY <1>1, <1>2, Painted

LEMMA LooseSame ==
  ASSUME NEW s, Formed(s)
  PROVE  Same(s, Loose(s), {})
  BY DEF Loose, Same, Formed, Fields

LEMMA LooseCalm == ASSUME NEW s, Formed(s) PROVE Calm(s, Loose(s))
  BY LooseSame, Elsewhere

LEMMA LastOnes == ASSUME NEW s, Formed(s) PROVE s.cols - 1 \in Nat /\ s.rows - 1 \in Nat
<1>1. s.cols \in Nat \ {0} /\ s.rows \in Nat \ {0}
  BY DEF Formed
<1>2. QED
  BY <1>1

LEMMA LesserOf ==
  ASSUME NEW a \in Nat, NEW b \in Nat
  PROVE  Min({a, b}) \in Nat /\ Min({a, b}) <= a /\ Min({a, b}) <= b
  BY MinOfTwo

LEMMA LesserIs ==
  ASSUME NEW a \in Nat, NEW b \in Nat
  PROVE  Min({a, b}) = a \/ Min({a, b}) = b
<1>1. a \in Int /\ b \in Int
  OBVIOUS
<1>2. Min({a, b}) \in {a, b}
  BY <1>1, MinOfTwo
<1>3. QED
  BY <1>2

LEMMA GreaterIs ==
  ASSUME NEW a \in Nat, NEW b \in Nat
  PROVE  Max({a, b}) = a \/ Max({a, b}) = b
<1>1. a \in Int /\ b \in Int
  OBVIOUS
<1>2. Max({a, b}) \in {a, b}
  BY <1>1, MaxOfTwo
<1>3. QED
  BY <1>2

LEMMA InColumns ==
  ASSUME NEW s, Formed(s), NEW c \in Nat
  PROVE  Min({c, s.cols - 1}) \in Nat /\ Min({c, s.cols - 1}) < s.cols
<1>1. s.cols - 1 \in Nat /\ s.cols \in Nat
  BY LastOnes DEF Formed
<1>2. Min({c, s.cols - 1}) \in Nat /\ Min({c, s.cols - 1}) <= s.cols - 1
  BY <1>1, LesserOf
<1>3. QED
  BY <1>1, <1>2

LEMMA InRows ==
  ASSUME NEW s, Formed(s), NEW r \in Nat
  PROVE  Min({r, s.rows - 1}) \in Nat /\ Min({r, s.rows - 1}) < s.rows
<1>1. s.rows - 1 \in Nat /\ s.rows \in Nat
  BY LastOnes DEF Formed
<1>2. Min({r, s.rows - 1}) \in Nat /\ Min({r, s.rows - 1}) <= s.rows - 1
  BY <1>1, LesserOf
<1>3. QED
  BY <1>1, <1>2

LEMMA PlacedAt ==
  ASSUME NEW s, Formed(s), NEW c \in Nat, NEW r \in Nat,
         Tight(s) => c < s.cols /\ r < s.rows
  PROVE  Calm(s, [s EXCEPT !.col = c, !.row = r])
<1> DEFINE q == [s EXCEPT !.col = c, !.row = r]
<1>1. /\ Same(s, q, {"col", "row", "visible", "style"})
      /\ q.col = c /\ q.row = r /\ q.visible = s.visible /\ q.style = s.style
  BY DEF Same, Formed, Fields
<1>2. s.visible \in BOOLEAN /\ s.style \in Style
  BY DEF Formed
<1> HIDE DEF q
<1>3. Calm(s, q)
  BY <1>1, <1>2, Moved
<1>4. QED
  BY <1>3 DEF q

LEMMA PlacedCol ==
  ASSUME NEW s, Formed(s), NEW c \in Nat, Tight(s) => c < s.cols
  PROVE  Calm(s, [s EXCEPT !.col = c])
<1> DEFINE q == [s EXCEPT !.col = c]
<1>1. /\ Same(s, q, {"col", "row", "visible", "style"})
      /\ q.col = c /\ q.row = s.row /\ q.visible = s.visible /\ q.style = s.style
  BY DEF Same, Formed, Fields
<1>2. s.visible \in BOOLEAN /\ s.style \in Style /\ s.row \in Nat /\ (Tight(s) => s.row < s.rows)
  BY DEF Formed, Tight
<1> HIDE DEF q
<1>3. Calm(s, q)
  BY <1>1, <1>2, Moved
<1>4. QED
  BY <1>3 DEF q

LEMMA PlacedRow ==
  ASSUME NEW s, Formed(s), NEW r \in Nat, Tight(s) => r < s.rows
  PROVE  Calm(s, [s EXCEPT !.row = r])
<1> DEFINE q == [s EXCEPT !.row = r]
<1>1. /\ Same(s, q, {"col", "row", "visible", "style"})
      /\ q.col = s.col /\ q.row = r /\ q.visible = s.visible /\ q.style = s.style
  BY DEF Same, Formed, Fields
<1>2. s.visible \in BOOLEAN /\ s.style \in Style /\ s.col \in Nat /\ (Tight(s) => s.col < s.cols)
  BY DEF Formed, Tight
<1> HIDE DEF q
<1>3. Calm(s, q)
  BY <1>1, <1>2, Moved
<1>4. QED
  BY <1>3 DEF q

\* The fields of Loose(s) that the methods go on with.
LEMMA LooseFields ==
  ASSUME NEW s, Formed(s)
  PROVE  /\ Formed(Loose(s)) /\ (Tight(Loose(s)) <=> Tight(s))
         /\ Loose(s).col = s.col /\ Loose(s).row = s.row
         /\ Loose(s).cols = s.cols /\ Loose(s).rows = s.rows
         /\ Loose(s).grid = s.grid
<1>1. Formed(Loose(s))
  BY LooseCalm DEF Calm
<1>2. /\ Loose(s).cols = s.cols /\ Loose(s).rows = s.rows /\ Loose(s).grid = s.grid
      /\ Loose(s).col = s.col /\ Loose(s).row = s.row
      /\ Loose(s).alt = s.alt /\ Loose(s).panicked = s.panicked
  BY LooseSame DEF Same, Fields
<1>3. QED
  BY <1>1, <1>2 DEF Tight

LEMMA Steps ==
  ASSUME NEW a \in Nat, NEW n \in Nat
  PROVE  Less(a, n) \in Nat /\ Less(a, n) <= a /\ Plus(a, n) \in Nat
  BY DEF Less, Plus

LEMMA CursorUpCalm ==
  ASSUME NEW s, Formed(s), NEW n \in Nat PROVE Calm(s, CursorUp(s, n))
<1> DEFINE v == Max({Less(s.row, n), s.top})
<1>1. s.row \in Nat /\ s.top \in Nat /\ s.rows \in Nat /\ s.top < s.rows
  BY DEF Formed
<1>2. v \in Nat /\ (Tight(s) => v < s.rows)
  <2>1. Less(s.row, n) \in Nat /\ Less(s.row, n) <= s.row
    BY <1>1, Steps
  <2>2. v = Less(s.row, n) \/ v = s.top
    BY <1>1, <2>1, GreaterIs
  <2>3. Tight(s) => s.row < s.rows
    BY DEF Tight
  <2> HIDE DEF v
  <2>4. QED
    BY <1>1, <2>1, <2>2, <2>3
<1>3. CursorUp(s, n) = [Loose(s) EXCEPT !.row = v]
  BY LooseFields DEF CursorUp
<1> HIDE DEF v
<1>4. Calm(Loose(s), CursorUp(s, n))
  BY <1>2, <1>3, LooseFields, PlacedRow
<1>5. QED
  BY <1>4, LooseCalm, CalmTwice

LEMMA CursorDownCalm ==
  ASSUME NEW s, Formed(s), NEW n \in Nat PROVE Calm(s, CursorDown(s, n))
<1> DEFINE v == Min({Plus(s.row, n), s.bottom})
<1>1. s.row \in Nat /\ s.bottom \in Nat /\ s.rows \in Nat /\ s.bottom < s.rows
  BY DEF Formed
<1>2. v \in Nat /\ (Tight(s) => v < s.rows)
  <2>1. Plus(s.row, n) \in Nat
    BY <1>1, Steps
  <2>2. v \in Nat /\ v <= s.bottom
    BY <1>1, <2>1, LesserOf
  <2> HIDE DEF v
  <2>3. QED
    BY <1>1, <2>2
<1>3. CursorDown(s, n) = [Loose(s) EXCEPT !.row = v]
  BY LooseFields DEF CursorDown
<1> HIDE DEF v
<1>4. Calm(Loose(s), CursorDown(s, n))
  BY <1>2, <1>3, LooseFields, PlacedRow
<1>5. QED
  BY <1>4, LooseCalm, CalmTwice

LEMMA CursorForwardCalm ==
  ASSUME NEW s, Formed(s), NEW n \in Nat PROVE Calm(s, CursorForward(s, n))
<1> DEFINE v == Min({Plus(s.col, n), s.cols - 1})
<1>1. s.col \in Nat /\ Plus(s.col, n) \in Nat
  BY Steps DEF Formed
<1>2. v \in Nat /\ v < s.cols
  BY <1>1, InColumns
<1>3. CursorForward(s, n) = [Loose(s) EXCEPT !.col = v]
  BY LooseFields DEF CursorForward
<1> HIDE DEF v
<1>4. Calm(Loose(s), CursorForward(s, n))
  BY <1>2, <1>3, LooseFields, PlacedCol
<1>5. QED
  BY <1>4, LooseCalm, CalmTwice

LEMMA CursorBackCalm ==
  ASSUME NEW s, Formed(s), NEW n \in Nat PROVE Calm(s, CursorBack(s, n))
<1> DEFINE v == Less(s.col, n)
<1>1. s.col \in Nat /\ s.cols \in Nat
  BY DEF Formed
<1>2. v \in Nat /\ (Tight(s) => v < s.cols)
  <2>1. v \in Nat /\ v <= s.col
    BY <1>1, Steps
  <2>2. Tight(s) => s.col < s.cols
    BY DEF Tight
  <2> HIDE DEF v
  <2>3. QED
    BY <1>1, <2>1, <2>2
<1>3. CursorBack(s, n) = [Loose(s) EXCEPT !.col = v]
  BY LooseFields DEF CursorBack
<1> HIDE DEF v
<1>4. Calm(Loose(s), CursorBack(s, n))
  BY <1>2, <1>3, LooseFields, PlacedCol
<1>5. QED
  BY <1>4, LooseCalm, CalmTwice

LEMMA CursorGotoCalm ==
  ASSUME NEW s, Formed(s), NEW c \in Nat, NEW r \in Nat PROVE Calm(s, CursorGoto(s, c, r))
<1> DEFINE v == Min({c, s.cols - 1})
           w == Min({r, s.rows - 1})
<1>2. v \in Nat /\ v < s.cols /\ w \in Nat /\ w < s.rows
  BY InColumns, InRows
<1>3. CursorGoto(s, c, r) = [Loose(s) EXCEPT !.col = v, !.row = w]
  BY DEF CursorGoto
<1> HIDE DEF v, w
<1>4. Calm(Loose(s), [Loose(s) EXCEPT !.col = v, !.row = w])
  <2>1. Formed(Loose(s)) /\ Loose(s).cols = s.cols /\ Loose(s).rows = s.rows
    BY LooseFields
  <2>2. QED
    BY <1>2, <2>1, PlacedAt
<1>5. QED
  BY <1>3, <1>4, LooseCalm, CalmTwice

LEMMA RowToCalm ==
  ASSUME NEW s, Formed(s), NEW r \in Nat PROVE Calm(s, RowTo(s, r))
<1> DEFINE w == Min({r, s.rows - 1})
<1>2. w \in Nat /\ w < s.rows
  BY InRows
<1>3. RowTo(s, r) = [s EXCEPT !.row = w]
  BY DEF RowTo
<1> HIDE DEF w
<1>4. QED
  BY <1>2, <1>3, PlacedRow

LEMMA TabCalm == ASSUME NEW s, Formed(s) PROVE Calm(s, Tab(s))
<1> DEFINE ahead == {c \in s.stops : c > s.col} \cup {s.cols - 1}
           v == Min(ahead)
<1>1. s.stops \subseteq Nat /\ s.cols - 1 \in Nat /\ s.cols \in Nat
  BY LastOnes DEF Formed
<1>2. ahead \in SUBSET Nat /\ s.cols - 1 \in ahead
  BY <1>1
<1>3. Tab(s) = [Loose(s) EXCEPT !.col = v]
  BY DEF Tab
<1> HIDE DEF ahead
<1>4. v \in ahead /\ v <= s.cols - 1
  BY <1>2, MinOfMany
<1> HIDE DEF v
<1>5. v \in Nat /\ v < s.cols
  BY <1>1, <1>2, <1>4
<1>6. Calm(Loose(s), Tab(s))
  BY <1>3, <1>5, LooseFields, PlacedCol
<1>7. QED
  BY <1>6, LooseCalm, CalmTwice

LEMMA BackTabCalm ==
  ASSUME NEW s, Formed(s), NEW n \in Nat PROVE Calm(s, BackTab(s, n))
<1> DEFINE behind == {c \in s.stops : c < s.col}
           far == {c \in behind : Cardinality({d \in behind : d >= c}) = n}
           all == far \cup {0}
           v == Max(all)
           q == [s EXCEPT !.col = v]
<1>1. s.stops \subseteq Nat /\ s.col \in Nat /\ s.cols \in Nat
  BY DEF Formed
<1>2. far \subseteq behind
  OBVIOUS
<1>3. behind \subseteq Nat /\ \A c \in behind : c <= s.col
  BY <1>1
<1>4. BackTab(s, n) = Unless(s.col > s.cols, s, q)
  BY DEF BackTab
<1> HIDE DEF behind, far
<1>5. all \in SUBSET Nat /\ all # {} /\ \A c \in all : c <= s.col
  BY <1>1, <1>2, <1>3
<1> HIDE DEF all
<1>6. v \in all
  BY <1>1, <1>5, MaxOfMany
<1>7. v \in Nat /\ v <= s.col
  BY <1>5, <1>6
<1> HIDE DEF v
<1>8. Tight(s) => v < s.cols
  BY <1>1, <1>7 DEF Tight
<1>9. Calm(s, q)
  BY <1>7, <1>8, PlacedCol
<1>10. Tight(s) => ~(s.col > s.cols)
  BY <1>1 DEF Tight
<1> HIDE DEF q
<1>11. QED
  BY <1>4, <1>9, <1>10, Broken

-----------------------------------------------------------------------------
(***************************************************************************)
(* What is written in the cells.                                           *)
(***************************************************************************)

LEMMA PaintedWith ==
  ASSUME NEW s, Formed(s), NEW g \in Screen(s.cols), Len(g) = Len(s.grid)
  PROVE  Calm(s, [s EXCEPT !.grid = g])
<1> DEFINE q == [s EXCEPT !.grid = g]
<1>1. Same(s, q, {"grid"}) /\ q.grid = g
  BY DEF Same, Formed, Fields
<1>2. Len(s.grid) \in Nat
  BY LenProperties DEF Formed, Screen
<1> HIDE DEF q
<1>3. Calm(s, q)
  BY <1>1, <1>2, Painted
<1>4. QED
  BY <1>3 DEF q

\* One line of the screen replaced, or none if there is no such line.
LEMMA LineWritten ==
  ASSUME NEW S, NEW g \in Seq(S), NEW i, NEW x, i \in 1..Len(g) => x \in S
  PROVE  [g EXCEPT ![i] = x] \in Seq(S) /\ Len([g EXCEPT ![i] = x]) = Len(g)
<1>1. g \in [1..Len(g) -> S] /\ Len(g) \in Nat
  BY LenProperties
<1>2. [g EXCEPT ![i] = x] \in [1..Len(g) -> S]
  BY <1>1
<1>3. QED
  BY <1>1, <1>2, SeqDef, LenProperties

LEMMA LinesWritten ==
  ASSUME NEW S, NEW g \in Seq(S), NEW F,
         \A i \in 1..Len(g) : F[i] \in S, F = [i \in 1..Len(g) |-> F[i]]
  PROVE  F \in Seq(S) /\ Len(F) = Len(g)
<1>1. Len(g) \in Nat
  BY LenProperties
<1>2. F \in [1..Len(g) -> S]
  OBVIOUS
<1>3. QED
  BY <1>1, <1>2, SeqDef, LenProperties

LEMMA Blanks ==
  ASSUME NEW s, Formed(s)
  PROVE  /\ Space \in Cell /\ Blank(s) \in Cell
         /\ BlankLine(s) \in Line(s.cols)
<1>1. Plain \in Style /\ s.style \in Style
  BY DEF Plain, Style, Formed
<1>2. Space \in Cell
  BY <1>1 DEF Space, Cell, Char
<1>3. [Plain EXCEPT !.bg = s.style.bg] \in Style
  BY <1>1 DEF Style, Plain
<1>4. Blank(s) \in Cell
  BY <1>3 DEF Blank, Cell, Char
<1>5. QED
  BY <1>2, <1>4 DEF BlankLine, Line

LEMMA BlankRowsCalm ==
  ASSUME NEW s, Formed(s), NEW R
  PROVE  Calm(s, BlankRows(s, R))
<1> DEFINE F == [r \in DOMAIN s.grid |-> IF r - 1 \in R THEN BlankLine(s) ELSE s.grid[r]]
<1>1. s.grid \in Seq(Line(s.cols)) /\ DOMAIN s.grid = 1..Len(s.grid)
  BY LenProperties DEF Formed, Screen
<1>2. \A i \in 1..Len(s.grid) : s.grid[i] \in Line(s.cols)
  BY <1>1, ElementOfSeq
<1>3. \A i \in 1..Len(s.grid) : F[i] \in Line(s.cols)
  BY <1>1, <1>2, Blanks
<1>4. F = [i \in 1..Len(s.grid) |-> F[i]]
  BY <1>1
<1>5. BlankRows(s, R) = [s EXCEPT !.grid = F]
  BY DEF BlankRows
<1> HIDE DEF F
<1>6. F \in Screen(s.cols) /\ Len(F) = Len(s.grid)
  BY <1>1, <1>3, <1>4, LinesWritten DEF Screen
<1>7. QED
  BY <1>5, <1>6, PaintedWith

LEMMA FilledCalm ==
  ASSUME NEW s, Formed(s), NEW C, NEW cell \in Cell,
         Tight(s) => \A c \in C : c < s.cols /\ c \in Nat
  PROVE  Calm(s, Filled(s, C, cell))
<1> DEFINE bad == C # {} /\ (NoRow(s) \/ \E c \in C : c >= s.cols)
           k == s.row + 1
           L == [c \in DOMAIN s.grid[k] |-> IF c - 1 \in C THEN cell ELSE s.grid[k][c]]
           g == [s.grid EXCEPT ![k] = L]
<1>1. s.grid \in Seq(Line(s.cols))
  BY DEF Formed, Screen
<1>2. k \in 1..Len(s.grid) => L \in Line(s.cols)
  <2>1. SUFFICES ASSUME k \in 1..Len(s.grid) PROVE L \in Line(s.cols)
    OBVIOUS
  <2>2. s.grid[k] \in [1..s.cols -> Cell]
    BY <1>1, <2>1, ElementOfSeq DEF Line
  <2>3. QED
    BY <2>2 DEF Line
<1>3. Filled(s, C, cell) = Unless(bad, s, [s EXCEPT !.grid = g])
  BY DEF Filled
<1> HIDE DEF L, k
<1>4. g \in Screen(s.cols) /\ Len(g) = Len(s.grid)
  BY <1>1, <1>2, LineWritten DEF Screen
<1> HIDE DEF g
<1>5. Calm(s, [s EXCEPT !.grid = g])
  BY <1>4, PaintedWith
<1>6. Tight(s) => ~bad
  <2>1. Tight(s) => ~NoRow(s)
    BY DEF NoRow, Tight, Formed
  <2>2. QED
    BY <2>1 DEF Formed
<1> HIDE DEF bad
<1>7. QED
  BY <1>3, <1>5, <1>6, Broken

LEMMA EraseDisplayCalm ==
  ASSUME NEW s, Formed(s), NEW mode \in 0..2
  PROVE  Calm(s, EraseDisplay(s, mode))
<1>1. s.cols \in Nat /\ s.col \in Nat
  BY DEF Formed
<1>2. ASSUME NEW R, NEW C, C = s.col..s.cols - 1 \/ C = 0..s.col
      PROVE  Calm(s, Filled(BlankRows(s, R), C, Blank(s)))
  <2> DEFINE q == BlankRows(s, R)
  <2>1. Calm(s, q)
    BY BlankRowsCalm
  <2>2. q.col = s.col /\ q.cols = s.cols
    BY DEF BlankRows, Formed, Fields
  <2> HIDE DEF q
  <2>3. Tight(q) => \A c \in C : c < q.cols /\ c \in Nat
    BY <1>1, <1>2, <2>2 DEF Tight
  <2>4. Formed(q) /\ Blank(s) \in Cell
    BY <2>1, Blanks DEF Calm
  <2>5. Calm(q, Filled(q, C, Blank(s)))
    BY <2>3, <2>4, FilledCalm
  <2>6. Calm(s, Filled(q, C, Blank(s)))
    BY <2>1, <2>5, CalmTwice
  <2>7. QED
    BY <2>6 DEF q
<1>3. CASE mode = 0
  BY <1>2, <1>3 DEF EraseDisplay
<1>4. CASE mode = 1
  BY <1>2, <1>4 DEF EraseDisplay
<1>5. CASE mode = 2
  BY <1>5, BlankRowsCalm DEF EraseDisplay
<1>6. QED
  BY <1>3, <1>4, <1>5

LEMMA EraseLineCalm ==
  ASSUME NEW s, Formed(s), NEW mode \in 0..2
  PROVE  Calm(s, EraseLine(s, mode))
<1>1. s.cols \in Nat /\ s.col \in Nat /\ Blank(s) \in Cell
  BY Blanks DEF Formed
<1>2. CASE mode = 0
  <2>1. \A c \in s.col..s.cols - 1 : c < s.cols /\ c \in Nat
    BY <1>1
  <2>2. EraseLine(s, mode) = Filled(s, s.col..s.cols - 1, Blank(s))
    BY <1>2 DEF EraseLine
  <2>3. QED
    BY <1>1, <2>1, <2>2, FilledCalm
<1>3. CASE mode = 1
  <2> DEFINE last == Min({s.col, s.cols - 1})
  <2>1. last \in Nat /\ last < s.cols
    BY <1>1, InColumns
  <2>2. EraseLine(s, mode) = Filled(s, 0..last, Blank(s))
    BY <1>3 DEF EraseLine
  <2> HIDE DEF last
  <2>3. \A c \in 0..last : c < s.cols /\ c \in Nat
    BY <1>1, <2>1
  <2>4. QED
    BY <1>1, <2>2, <2>3, FilledCalm
<1>4. CASE mode = 2
  <2>1. \A c \in 0..s.cols - 1 : c < s.cols /\ c \in Nat
    BY <1>1
  <2>2. EraseLine(s, mode) = Filled(s, 0..s.cols - 1, Blank(s))
    BY <1>4 DEF EraseLine
  <2>3. QED
    BY <1>1, <2>1, <2>2, FilledCalm
<1>5. QED
  BY <1>2, <1>3, <1>4

LEMMA EraseCharsCalm ==
  ASSUME NEW s, Formed(s), NEW n \in Nat
  PROVE  Calm(s, EraseChars(s, n))
<1> DEFINE end == Min({s.col + n, s.cols})
<1>0. s.cols \in Nat /\ s.col \in Nat /\ Space \in Cell
  BY Blanks DEF Formed
<1>1. s.cols \in Nat /\ s.col \in Nat /\ s.col + n \in Nat /\ Space \in Cell
  BY <1>0
<1>2. end \in Nat /\ end <= s.cols
  BY <1>1, LesserOf
<1>3. EraseChars(s, n) = Filled(s, s.col..end - 1, Space)
  BY DEF EraseChars
<1> HIDE DEF end
<1>4. \A c \in s.col..end - 1 : c < s.cols /\ c \in Nat
  BY <1>1, <1>2
<1>5. QED
  BY <1>1, <1>3, <1>4, FilledCalm

\* What DeleteChars and InsertChars do: the cursor's line is replaced.
LEMMA LineReplaced ==
  ASSUME NEW s, Formed(s), NEW bad, NEW g,
         ~bad => g \in Screen(s.cols) /\ Len(g) = Len(s.grid),
         Tight(s) => ~bad
  PROVE  Calm(s, Unless(bad, s, [s EXCEPT !.grid = g]))
<1>1. CASE bad
  BY <1>1, CalmItself, Broken DEF Unless
<1>2. CASE ~bad
  BY <1>2, PaintedWith DEF Unless
<1>3. QED
  BY <1>1, <1>2

LEMMA DeleteCharsCalm ==
  ASSUME NEW s, Formed(s), NEW n \in Nat
  PROVE  Calm(s, DeleteChars(s, n))
<1> DEFINE end == Min({s.cols, s.col + n})
           bad == NoRow(s) \/ s.col > end
           k == s.row + 1
           old == s.grid[k]
           L == [c \in 1..s.cols |->
                   CASE c <= s.col -> old[c]
                     [] c > s.col /\ c + end - s.col <= s.cols -> old[c + end - s.col]
                     [] OTHER -> Blank(s)]
           g == [s.grid EXCEPT ![k] = L]
<1>0. s.cols \in Nat /\ s.col \in Nat /\ Blank(s) \in Cell
  BY Blanks DEF Formed
<1>1. s.cols \in Nat /\ s.col \in Nat /\ s.col + n \in Nat /\ Blank(s) \in Cell
  BY <1>0
<1>2. /\ end \in Nat /\ end <= s.cols
      /\ s.col <= s.cols => s.col <= end
  <2>1. end = s.cols \/ end = s.col + n
    BY <1>1, LesserIs
  <2> HIDE DEF end
  <2>2. end \in Nat /\ end <= s.cols
    BY <1>1, LesserOf DEF end
  <2>3. QED
    BY <1>1, <2>1, <2>2
<1>3. DeleteChars(s, n) = Unless(bad, s, [s EXCEPT !.grid = g])
  BY DEF DeleteChars
<1> HIDE DEF end
<1>4. k \in 1..Len(s.grid) /\ ~bad => L \in Line(s.cols)
  <2>1. SUFFICES ASSUME k \in 1..Len(s.grid), ~bad PROVE L \in Line(s.cols)
    OBVIOUS
  <2>2. old \in [1..s.cols -> Cell]
    BY <2>1, ElementOfSeq DEF Line, Formed, Screen
  <2>3. s.col <= end
    BY <1>1, <1>2, <2>1
  <2> HIDE DEF old
  <2>4. ASSUME NEW c \in 1..s.cols PROVE L[c] \in Cell
    <3>1. CASE c <= s.col
      <4>1. L[c] = old[c]
        BY <1>1, <3>1
      <4>2. QED
        BY <2>2, <4>1
    <3>2. CASE c > s.col /\ c + end - s.col <= s.cols
      <4>1. c + end - s.col \in 1..s.cols
        BY <1>1, <1>2, <2>3, <3>2
      <4>2. L[c] = old[c + end - s.col]
        BY <1>1, <3>2
      <4>3. QED
        BY <2>2, <4>1, <4>2
    <3>3. CASE ~(c <= s.col) /\ ~(c > s.col /\ c + end - s.col <= s.cols)
      BY <1>1, <3>3
    <3>4. QED
      BY <3>1, <3>2, <3>3
  <2>5. QED
    BY <2>4 DEF Line
<1>6. Tight(s) => ~bad
  BY <1>1, <1>2 DEF Tight, Formed, NoRow
<1> HIDE DEF bad, L, k
<1>g. ~bad => g \in Screen(s.cols) /\ Len(g) = Len(s.grid)
  <2>1. s.grid \in Seq(Line(s.cols))
    BY DEF Formed, Screen
  <2>2. QED
    BY <1>4, <2>1, LineWritten DEF Screen
<1> HIDE DEF g
<1>7. QED
  BY <1>3, <1>6, <1>g, LineReplaced

LEMMA InsertCharsCalm ==
  ASSUME NEW s, Formed(s), NEW n \in Nat
  PROVE  Calm(s, InsertChars(s, n))
<1> DEFINE bad == NoRow(s) \/ s.col > s.cols
           k == s.row + 1
           old == s.grid[k]
           L == [c \in 1..s.cols |->
                   CASE c <= s.col -> old[c] [] c > s.col + n -> old[c - n] [] OTHER -> Space]
           g == [s.grid EXCEPT ![k] = L]
<1>1. s.cols \in Nat /\ s.col \in Nat /\ Space \in Cell
  BY Blanks DEF Formed
<1>2. InsertChars(s, n) = Unless(bad, s, [s EXCEPT !.grid = g])
  BY DEF InsertChars
<1>3. k \in 1..Len(s.grid) /\ ~bad => L \in Line(s.cols)
  <2>1. SUFFICES ASSUME k \in 1..Len(s.grid), ~bad PROVE L \in Line(s.cols)
    OBVIOUS
  <2>2. old \in [1..s.cols -> Cell]
    BY <2>1, ElementOfSeq DEF Line, Formed, Screen
  <2> HIDE DEF old
  <2>3. ASSUME NEW c \in 1..s.cols PROVE L[c] \in Cell
    <3>1. CASE c <= s.col
      <4>1. L[c] = old[c]
        BY <1>1, <3>1
      <4>2. QED
        BY <2>2, <4>1
    <3>2. CASE c > s.col + n
      <4>1. c - n \in 1..s.cols /\ ~(c <= s.col)
        BY <1>1, <3>2
      <4>2. L[c] = old[c - n]
        BY <1>1, <3>2, <4>1
      <4>3. QED
        BY <2>2, <4>1, <4>2
    <3>3. CASE ~(c <= s.col) /\ ~(c > s.col + n)
      BY <1>1, <3>3
    <3>4. QED
      BY <3>1, <3>2, <3>3
  <2>4. QED
    BY <2>3 DEF Line
<1>5. Tight(s) => ~bad
  BY <1>1 DEF Tight, Formed, NoRow
<1> HIDE DEF bad, L, k
<1>g. ~bad => g \in Screen(s.cols) /\ Len(g) = Len(s.grid)
  <2>1. s.grid \in Seq(Line(s.cols))
    BY DEF Formed, Screen
  <2>2. QED
    BY <1>3, <2>1, LineWritten DEF Screen
<1> HIDE DEF g
<1>6. QED
  BY <1>2, <1>5, <1>g, LineReplaced

-----------------------------------------------------------------------------
(***************************************************************************)
(* Scrolling, inserting and deleting lines.                                *)
(***************************************************************************)

Shift1(g, from, to, x) ==
  InsertAt(IF from < Len(g) THEN RemoveAt(g, from + 1) ELSE g, to + 1, x)

\* i is the number of a line before or behind both from and to.
Beyond(i, from, to) == \/ i - 1 < from /\ i - 1 < to
                       \/ i - 1 > from /\ i - 1 > to

\* h is g with a line moved from one place to the other.
MovedIn(S, g, from, to, h) ==
  /\ h \in Seq(S)
  /\ from >= Len(g) => Len(h) = Len(g) + 1
  /\ from < Len(g) =>
       /\ Len(h) = Len(g)
       /\ \A i \in 1..Len(g) : Beyond(i, from, to) => h[i] = g[i]

LEMMA ShiftOnce ==
  ASSUME NEW S, NEW g \in Seq(S), NEW from \in Nat, NEW to \in Nat, to < Len(g), NEW x \in S
  PROVE  MovedIn(S, g, from, to, Shift1(g, from, to, x))
<1> DEFINE n == Len(g)
<1>1. n \in Nat
  BY LenProperties
<1>2. CASE from >= n
  <2>1. Shift1(g, from, to, x) = InsertAt(g, to + 1, x)
    BY <1>1, <1>2 DEF Shift1
  <2>2. to + 1 \in 1..Len(g) + 1
    BY <1>1
  <2>3. InsertAt(g, to + 1, x) \in Seq(S) /\ Len(InsertAt(g, to + 1, x)) = Len(g) + 1
    <3> DEFINE k == to + 1
    <3>1. k \in 1..Len(g) + 1
      BY <2>2
    <3> HIDE DEF k
    <3>2. InsertAt(g, k, x) \in Seq(S) /\ Len(InsertAt(g, k, x)) = Len(g) + 1
      BY <3>1, PutIn
    <3>3. QED
      BY <3>2 DEF k
  <2>4. QED
    BY <1>1, <1>2, <2>1, <2>3 DEF MovedIn
<1>3. CASE from < n
  <2> DEFINE h == RemoveAt(g, from + 1)
             q == InsertAt(h, to + 1, x)
  <2>1. Shift1(g, from, to, x) = q
    BY <1>3 DEF Shift1
  <2>2. from + 1 \in 1..Len(g)
    BY <1>1, <1>3
  <2>3. /\ h \in Seq(S) /\ Len(h) = n - 1
        /\ \A j \in 1..n - 1 : h[j] = IF j < from + 1 THEN g[j] ELSE g[j + 1]
    BY <2>2, TakenOut
  <2> HIDE DEF h
  <2>4. to + 1 \in 1..Len(h) + 1
    BY <1>1, <2>3
  <2>5. /\ q \in Seq(S) /\ Len(q) = Len(h) + 1
        /\ \A j \in 1..Len(h) + 1 :
             q[j] = IF j < to + 1 THEN h[j] ELSE IF j = to + 1 THEN x ELSE h[j - 1]
    BY <2>3, <2>4, PutIn
  <2> HIDE DEF q
  <2>6. q \in Seq(S) /\ Len(q) = n
    BY <1>1, <2>3, <2>5
  <2>7. ASSUME NEW i \in 1..n, Beyond(i, from, to) PROVE q[i] = g[i]
    <3>1. CASE i - 1 < from /\ i - 1 < to
      <4>1. q[i] = h[i]
        BY <1>1, <2>3, <2>5, <3>1
      <4>2. i \in 1..n - 1 /\ i < from + 1
        BY <1>1, <1>3, <3>1
      <4>3. h[i] = g[i]
        BY <2>3, <4>2
      <4>4. QED
        BY <4>1, <4>3
    <3>2. CASE i - 1 > from /\ i - 1 > to
      <4>1. q[i] = h[i - 1]
        BY <1>1, <2>3, <2>5, <3>2
      <4>2. i - 1 \in 1..n - 1 /\ ~(i - 1 < from + 1) /\ (i - 1) + 1 = i
        BY <1>1, <3>2
      <4>3. h[i - 1] = g[i]
        BY <2>3, <4>2
      <4>4. QED
        BY <4>1, <4>3
    <3>3. QED
      BY <2>7, <3>1, <3>2 DEF Beyond
  <2> HIDE DEF n
  <2>8. from < Len(g) /\ ~(from >= Len(g))
    BY <1>1, <1>3 DEF n
  <2>9. QED
    BY <2>1, <2>6, <2>7, <2>8 DEF n, MovedIn
<1>4. QED
  BY <1>1, <1>2, <1>3

\* g is grid after any number of such moves.
AllMoved(grid, from, to, g) ==
  /\ Len(g) >= Len(grid)
  /\ from < Len(grid) =>
       /\ Len(g) = Len(grid)
       /\ \A i \in 1..Len(grid) : Beyond(i, from, to) => g[i] = grid[i]

LEMMA ShiftedLines ==
  ASSUME NEW s, Formed(s), NEW from \in Nat, NEW to \in Nat, to < Len(s.grid), NEW n \in Nat
  PROVE  \E g \in Screen(s.cols) :
           /\ Shifted(s, from, to, n) = [s EXCEPT !.grid = g]
           /\ AllMoved(s.grid, from, to, g)
<1> DEFINE x == BlankLine(s)
           after[k \in 0..n] == IF k = 0 THEN s.grid ELSE Shift1(after[k - 1], from, to, x)
           Is(f, m) == f = [k \in 0..m |-> IF k = 0 THEN s.grid
                                           ELSE Shift1(f[k - 1], from, to, x)]
<1>1. Shifted(s, from, to, n) = [s EXCEPT !.grid = after[n]]
  BY DEF Shifted, Shift1
<1> HIDE DEF x
\* The function of the recursion exists.
<1>2. Is(after, n)
  <2> DEFINE S == {m \in Nat : \E f : Is(f, m)}
  <2>1. 0 \in S
    <3>1. Is([k \in 0..0 |-> s.grid], 0)
      OBVIOUS
    <3>2. QED
      BY <3>1
  <2>2. ASSUME NEW m \in Nat, m \in S PROVE m + 1 \in S
    <3>1. PICK f : Is(f, m)
      BY <2>2
    <3> DEFINE h == [k \in 0..m + 1 |-> IF k <= m THEN f[k] ELSE Shift1(f[m], from, to, x)]
    <3>2. ASSUME NEW k \in 0..m + 1
          PROVE  h[k] = IF k = 0 THEN s.grid ELSE Shift1(h[k - 1], from, to, x)
      <4>1. CASE k = 0
        BY <3>1, <4>1
      <4>2. CASE k # 0 /\ k <= m
        <5>1. k \in 0..m /\ k - 1 \in 0..m /\ k - 1 \in 0..m + 1 /\ k - 1 <= m
          BY <4>2
        <5>2. h[k] = f[k] /\ h[k - 1] = f[k - 1]
          BY <4>2, <5>1
        <5>3. f[k] = Shift1(f[k - 1], from, to, x)
          BY <3>1, <4>2, <5>1
        <5>4. QED
          BY <4>2, <5>2, <5>3
      <4>3. CASE k = m + 1
        <5>1. h[k] = Shift1(f[m], from, to, x) /\ h[m] = f[m] /\ k - 1 = m /\ k # 0
          BY <4>3
        <5>2. QED
          BY <5>1
      <4>4. QED
        BY <4>1, <4>2, <4>3
    <3>3. h = [k \in 0..m + 1 |-> h[k]]
      OBVIOUS
    <3> HIDE DEF h
    <3>4. Is(h, m + 1)
      BY <3>2, <3>3
    <3>5. QED
      BY <3>4, SMTT(30)
  <2> HIDE DEF S
  <2>3. n \in S
    BY <2>1, <2>2, Induct
  <2>4. \E f : Is(f, n)
    BY <2>3 DEF S
  <2>5. QED
    BY <2>4
<1> HIDE DEF after
<1>3. after[0] = s.grid /\ \A k \in 1..n : after[k] = Shift1(after[k - 1], from, to, x)
  BY <1>2
<1> HIDE DEF Is
<1> DEFINE L == Len(s.grid)
           Good(k) == /\ after[k] \in Screen(s.cols) /\ Len(after[k]) >= L
                      /\ from < L => /\ Len(after[k]) = L
                                     /\ \A i \in 1..L : Beyond(i, from, to) => after[k][i] = s.grid[i]
           Reached == {k \in Nat : k <= n => Good(k)}
<1>4. L \in Nat /\ s.grid \in Screen(s.cols) /\ x \in Line(s.cols)
  BY LenProperties, Blanks DEF Formed, Screen, x
<1>5. 0 \in Reached
  BY <1>3, <1>4
<1>6. ASSUME NEW k \in Nat, k \in Reached PROVE k + 1 \in Reached
  <2>1. SUFFICES ASSUME k + 1 <= n PROVE Good(k + 1)
    OBVIOUS
  <2>2. Good(k)
    BY <1>6, <2>1
  <2> DEFINE g == after[k]
             h == Shift1(g, from, to, x)
  <2>3. after[k + 1] = h
    BY <1>3, <2>1
  <2>4. g \in Seq(Line(s.cols)) /\ Len(g) \in Nat /\ to < Len(g) /\ Len(g) >= L
    <3>1. g \in Seq(Line(s.cols)) /\ Len(g) >= L
      BY <2>2 DEF Screen
    <3>2. Len(g) \in Nat
      BY <3>1, LenProperties
    <3>3. QED
      BY <1>4, <3>1, <3>2
  <2> HIDE DEF g
  <2>5. /\ h \in Seq(Line(s.cols))
        /\ from >= Len(g) => Len(h) = Len(g) + 1
        /\ from < Len(g) =>
             /\ Len(h) = Len(g)
             /\ \A i \in 1..Len(g) : Beyond(i, from, to) => h[i] = g[i]
    <3> DEFINE S == Line(s.cols)
    <3>1. g \in Seq(S) /\ to < Len(g) /\ x \in S
      BY <1>4, <2>4
    <3> HIDE DEF S
    <3>2. MovedIn(S, g, from, to, Shift1(g, from, to, x))
      BY <3>1, ShiftOnce
    <3>3. QED
      BY <3>2 DEF S, MovedIn
  <2> HIDE DEF h
  <2>6. h \in Screen(s.cols) /\ Len(h) >= L
    BY <1>4, <2>4, <2>5 DEF Screen
  <2>7. ASSUME from < L
        PROVE  Len(h) = L /\ \A i \in 1..L : Beyond(i, from, to) => h[i] = s.grid[i]
    <3>1. Len(g) = L /\ \A i \in 1..L : Beyond(i, from, to) => g[i] = s.grid[i]
      BY <2>2, <2>7 DEF g
    <3>2. QED
      BY <2>5, <2>7, <3>1
  <2>8. QED
    BY <2>3, <2>6, <2>7
<1> HIDE DEF Good, Reached
<1>7. n \in Reached
  BY <1>5, <1>6, Induct
<1>8. Good(n)
  BY <1>7 DEF Reached
<1>9. after[n] \in Screen(s.cols)
  BY <1>8 DEF Good
<1>10. QED
  BY <1>1, <1>8, <1>9 DEF Good, AllMoved

LEMMA ShiftedCalm ==
  ASSUME NEW s, Formed(s), NEW from \in Nat, NEW to \in Nat, to < Len(s.grid), NEW n \in Nat,
         Tight(s) => from < Len(s.grid)
  PROVE  Calm(s, Shifted(s, from, to, n))
<1>1. PICK g \in Screen(s.cols) :
           /\ Shifted(s, from, to, n) = [s EXCEPT !.grid = g]
           /\ AllMoved(s.grid, from, to, g)
  BY ShiftedLines
<1> DEFINE q == [s EXCEPT !.grid = g]
<1>2. Same(s, q, {"grid"}) /\ q.grid = g
  BY DEF Same, Formed, Fields
<1> HIDE DEF q
<1>3. Calm(s, q)
  BY <1>1, <1>2, Painted DEF AllMoved
<1>4. QED
  BY <1>1, <1>3 DEF q

\* The lines outside the margins of s are as they were.
Undisturbed(s, r) == \A i \in Outside(s) : r.grid[i] = s.grid[i]

LEMMA RegionOnly ==
  ASSUME NEW s, Formed(s), NEW from, NEW to, NEW n \in Nat,
         \/ from = s.top /\ to = s.bottom
         \/ from = s.bottom /\ to = s.top
  PROVE  /\ Calm(s, Shifted(s, from, to, n))
         /\ Undisturbed(s, Shifted(s, from, to, n))
         /\ Shifted(s, from, to, n).row = s.row
<1>1. /\ s.top \in Nat /\ s.bottom \in Nat /\ s.top <= s.bottom /\ s.bottom < s.rows
      /\ s.rows \in Nat /\ s.rows <= Len(s.grid) /\ Len(s.grid) \in Nat
  BY LenProperties DEF Formed, Screen
<1>2. from \in Nat /\ to \in Nat /\ from < Len(s.grid) /\ to < Len(s.grid)
  BY <1>1
<1>3. Calm(s, Shifted(s, from, to, n))
  BY <1>2, ShiftedCalm
<1>4. PICK g \in Screen(s.cols) :
           /\ Shifted(s, from, to, n) = [s EXCEPT !.grid = g]
           /\ AllMoved(s.grid, from, to, g)
  BY <1>2, ShiftedLines
<1> DEFINE q == [s EXCEPT !.grid = g]
<1>5. q.grid = g /\ q.row = s.row
  BY DEF Formed, Fields
<1> HIDE DEF q
<1>6. ASSUME NEW i \in Outside(s) PROVE q.grid[i] = s.grid[i]
  <2>1. i \in 1..s.rows /\ (i - 1 < s.top \/ i - 1 > s.bottom)
    BY DEF Outside
  <2>2. i \in 1..Len(s.grid)
    BY <1>1, <2>1
  <2>3. Beyond(i, from, to)
    BY <1>1, <2>1 DEF Beyond
  <2>4. QED
    BY <1>2, <1>4, <1>5, <2>2, <2>3 DEF AllMoved
<1>7. Shifted(s, from, to, n) = q
  BY <1>4 DEF q
<1>8. QED
  BY <1>3, <1>5, <1>6, <1>7 DEF Undisturbed

LEMMA ScrollsCalm ==
  ASSUME NEW s, Formed(s), NEW n \in Nat
  PROVE  /\ Calm(s, ScrollUp(s, n)) /\ Calm(s, ScrollDown(s, n))
         /\ Undisturbed(s, ScrollUp(s, n)) /\ Undisturbed(s, ScrollDown(s, n))
         /\ ScrollUp(s, n).row = s.row /\ ScrollDown(s, n).row = s.row
<1> DEFINE k == Min({n, s.bottom - s.top + 1})
<1>1. s.top \in Nat /\ s.bottom \in Nat /\ s.top <= s.bottom
  BY DEF Formed
<1>2. s.bottom - s.top + 1 \in Nat
  BY <1>1
<1>3. k \in Nat
  BY <1>2, LesserOf
<1>4. ScrollUp(s, n) = Shifted(s, s.top, s.bottom, k) /\ ScrollDown(s, n) = Shifted(s, s.bottom, s.top, k)
  BY DEF ScrollUp, ScrollDown
<1> HIDE DEF k
<1>5. /\ Calm(s, Shifted(s, s.top, s.bottom, k))
      /\ Undisturbed(s, Shifted(s, s.top, s.bottom, k))
      /\ Shifted(s, s.top, s.bottom, k).row = s.row
  BY <1>3, RegionOnly
<1>6. /\ Calm(s, Shifted(s, s.bottom, s.top, k))
      /\ Undisturbed(s, Shifted(s, s.bottom, s.top, k))
      /\ Shifted(s, s.bottom, s.top, k).row = s.row
  BY <1>3, RegionOnly
<1>7. QED
  BY <1>4, <1>5, <1>6

LEMMA DeleteLinesCalm ==
  ASSUME NEW s, Formed(s), NEW n \in Nat
  PROVE  Calm(s, DeleteLines(s, n))
<1>1. /\ s.bottom \in Nat /\ s.bottom < s.rows /\ s.row \in Nat
      /\ s.rows \in Nat /\ s.rows <= Len(s.grid) /\ Len(s.grid) \in Nat
  BY LenProperties DEF Formed, Screen
<1>2. s.bottom < Len(s.grid)
  BY <1>1
<1>3. Tight(s) => s.row < Len(s.grid)
  BY <1>1 DEF Tight
<1>4. QED
  BY <1>1, <1>2, <1>3, ShiftedCalm DEF DeleteLines

LEMMA InsertLinesCalm ==
  ASSUME NEW s, Formed(s), NEW n \in Nat
  PROVE  Calm(s, InsertLines(s, n))
<1>1. /\ s.bottom \in Nat /\ s.bottom < s.rows /\ s.row \in Nat
      /\ s.rows \in Nat /\ s.rows <= Len(s.grid) /\ Len(s.grid) \in Nat
  BY LenProperties DEF Formed, Screen
<1>2. CASE NoRow(s)
  <2>1. InsertLines(s, n) = Unless(NoRow(s), s, s)
    BY <1>2 DEF InsertLines, Unless
  <2>2. Tight(s) => ~NoRow(s)
    BY <1>1 DEF Tight, NoRow
  <2>3. QED
    BY <2>1, <2>2, CalmItself, Broken
<1>3. CASE ~NoRow(s)
  <2>1. s.row < Len(s.grid) /\ s.bottom < Len(s.grid)
    BY <1>1, <1>3 DEF NoRow
  <2>2. InsertLines(s, n) = Shifted(s, s.bottom, s.row, n)
    BY <1>3 DEF InsertLines, Unless
  <2>3. QED
    BY <1>1, <2>1, <2>2, ShiftedCalm
<1>4. QED
  BY <1>2, <1>3

LEMMA AdvanceRowCalm ==
  ASSUME NEW s, Formed(s)
  PROVE  Calm(s, AdvanceRow(s)) /\ Undisturbed(s, AdvanceRow(s))
<1>1. s.row \in Nat /\ s.rows \in Nat /\ s.bottom \in Nat
  BY DEF Formed
<1>2. CASE s.row = s.bottom
  BY <1>2, ScrollsCalm DEF AdvanceRow
<1>3. CASE s.row # s.bottom /\ s.row + 1 < s.rows
  <2> DEFINE q == [s EXCEPT !.row = s.row + 1]
  <2>1. AdvanceRow(s) = q
    BY <1>3 DEF AdvanceRow
  <2>2. s.row + 1 \in Nat
    BY <1>1
  <2>3. Calm(s, q)
    BY <1>3, <2>2, PlacedRow
  <2>4. q.grid = s.grid
    BY DEF Formed, Fields
  <2>5. QED
    BY <2>1, <2>3, <2>4 DEF Undisturbed
<1>4. CASE s.row # s.bottom /\ ~(s.row + 1 < s.rows)
  <2>1. AdvanceRow(s) = s
    BY <1>4 DEF AdvanceRow
  <2>2. QED
    BY <2>1, CalmItself DEF Undisturbed
<1>5. QED
  BY <1>2, <1>3, <1>4

-----------------------------------------------------------------------------
(***************************************************************************)
(* Characters, and the methods that only set fields.                       *)
(***************************************************************************)

\* Outside the margins of s only the cursor's line has changed.
WritesAtCursor(s, r) == \A i \in Outside(s) : r.grid[i] = s.grid[i] \/ i = r.row + 1

LEMMA Columnless ==
  ASSUME NEW s, Formed(s)
  PROVE  /\ Calm(s, [s EXCEPT !.col = 0, !.pending_wrap = FALSE])
         /\ Calm(s, [s EXCEPT !.col = 0])
<1>1. s.visible \in BOOLEAN /\ s.style \in Style /\ s.row \in Nat /\ s.cols \in Nat \ {0}
  BY DEF Formed
<1>2. Tight(s) => s.row < s.rows
  BY DEF Tight
<1>3. 0 < s.cols /\ 0 \in Nat
  BY <1>1
<1> DEFINE q == [s EXCEPT !.col = 0, !.pending_wrap = FALSE]
<1>4. /\ Same(s, q, {"col", "row", "visible", "style"})
      /\ q.col = 0 /\ q.row = s.row /\ q.visible = s.visible /\ q.style = s.style
  BY DEF Same, Formed, Fields
<1> HIDE DEF q
<1>5. Calm(s, q)
  BY <1>1, <1>2, <1>3, <1>4, Moved
<1>6. QED
  BY <1>3, <1>5, PlacedCol DEF q

LEMMA PutCharCalm ==
  ASSUME NEW s, Formed(s), NEW ch \in Char
  PROVE  Calm(s, PutChar(s, ch)) /\ WritesAtCursor(s, PutChar(s, ch))
<1> DEFINE q == [s EXCEPT !.col = 0, !.pending_wrap = FALSE]
           w == IF s.pending_wrap THEN AdvanceRow(q) ELSE s
           k == w.row + 1
           L == [w.grid[k] EXCEPT ![w.col + 1] = [ch |-> ch, style |-> w.style]]
           g == [w.grid EXCEPT ![k] = L]
           p == IF w.col < w.cols /\ ~NoRow(w) THEN [w EXCEPT !.grid = g] ELSE w
           r == PutChar(s, ch)
<1>1. Calm(s, w) /\ Undisturbed(s, w)
  <2>1. CASE s.pending_wrap
    <3>1. Calm(s, q)
      BY Columnless
    <3>2. /\ q.grid = s.grid /\ q.rows = s.rows
          /\ q.top = s.top /\ q.bottom = s.bottom
      BY DEF Formed, Fields
    <3> HIDE DEF q
    <3>3. Calm(q, AdvanceRow(q)) /\ Undisturbed(q, AdvanceRow(q))
      BY <3>1, AdvanceRowCalm DEF Calm
    <3>4. Undisturbed(s, AdvanceRow(q))
      BY <3>2, <3>3 DEF Undisturbed, Outside
    <3>5. Calm(s, AdvanceRow(q))
      BY <3>1, <3>3, CalmTwice
    <3>6. QED
      BY <2>1, <3>4, <3>5
  <2>2. CASE ~s.pending_wrap
    BY <2>2, CalmItself DEF Undisturbed
  <2>3. QED
    BY <2>1, <2>2
<1>2. \/ w.col + 1 < w.cols /\ r = [p EXCEPT !.col = p.col + 1]
      \/ r = [p EXCEPT !.pending_wrap = TRUE]
      \/ r = p
  <2>1. r = CASE w.col + 1 < w.cols                 -> [p EXCEPT !.col = p.col + 1]
              [] w.col + 1 >= w.cols /\ w.auto_wrap -> [p EXCEPT !.pending_wrap = TRUE]
              [] OTHER                              -> p
    BY DEF PutChar
  <2> HIDE DEF w, p, r
  <2>2. QED
    BY <2>1
<1> HIDE DEF w
<1>3. Formed(w) /\ w.col \in Nat /\ w.cols \in Nat /\ w.row \in Nat
  BY <1>1 DEF Calm, Formed
<1>4. /\ Calm(w, p) /\ p.col = w.col /\ p.row = w.row
      /\ \A i \in Outside(s) : p.grid[i] = w.grid[i] \/ i = k
  <2>1. CASE w.col < w.cols /\ ~NoRow(w)
    <3>1. w.grid \in Seq(Line(w.cols))
      BY <1>3 DEF Formed, Screen
    <3>2. [ch |-> ch, style |-> w.style] \in Cell
      BY <1>3 DEF Formed, Cell
    <3>3. k \in 1..Len(w.grid) => L \in Line(w.cols)
      <4>1. SUFFICES ASSUME k \in 1..Len(w.grid) PROVE L \in Line(w.cols)
        OBVIOUS
      <4> HIDE DEF k
      <4>2. w.grid[k] \in [1..w.cols -> Cell]
        BY <3>1, <4>1, ElementOfSeq DEF Line
      <4>3. QED
        BY <3>2, <4>2 DEF Line
    <3> HIDE DEF L, k
    <3>4. g \in Screen(w.cols) /\ Len(g) = Len(w.grid)
      BY <3>1, <3>3, LineWritten DEF Screen
    <3>5. \A i : i # k => g[i] = w.grid[i]
      OBVIOUS
    <3> HIDE DEF g
    <3>6. p = [w EXCEPT !.grid = g]
      BY <2>1
    <3>7. Calm(w, p)
      BY <1>3, <3>4, <3>6, PaintedWith
    <3>8. p.col = w.col /\ p.row = w.row /\ p.grid = g
      BY <1>3, <3>6 DEF Formed, Fields
    <3>9. QED
      BY <3>5, <3>7, <3>8
  <2>2. CASE ~(w.col < w.cols /\ ~NoRow(w))
    BY <1>3, <2>2, CalmItself
  <2>3. QED
    BY <2>1, <2>2
<1> HIDE DEF p
<1>5. Formed(p) /\ p.cols = w.cols /\ p.col \in Nat
  BY <1>4 DEF Calm, Formed
<1>6. Calm(p, r) /\ r.row = p.row /\ r.grid = p.grid
  <2> HIDE DEF r
  <2>1. CASE w.col + 1 < w.cols /\ r = [p EXCEPT !.col = p.col + 1]
    <3>1. p.col + 1 \in Nat /\ p.col + 1 < p.cols
      BY <1>3, <1>4, <1>5, <2>1
    <3>2. r.row = p.row /\ r.grid = p.grid
      BY <1>5, <2>1 DEF Formed, Fields
    <3>3. QED
      BY <1>5, <2>1, <3>1, <3>2, PlacedCol
  <2>2. CASE r = [p EXCEPT !.pending_wrap = TRUE]
    <3>1. Same(p, r, {})
      BY <1>5, <2>2 DEF Same, Formed, Fields
    <3>2. QED
      BY <1>5, <3>1, Elsewhere DEF Same, Fields
  <2>3. CASE r = p
    BY <1>5, <2>3, CalmItself
  <2>4. QED
    BY <1>2, <2>1, <2>2, <2>3
<1> HIDE DEF r
<1>7. Calm(s, r)
  BY <1>1, <1>4, <1>6, CalmTwice
<1>8. WritesAtCursor(s, r)
  BY <1>1, <1>4, <1>6 DEF WritesAtCursor, Undisturbed
<1>9. QED
  BY <1>7, <1>8 DEF r

LEMMA FieldsSet ==
  ASSUME NEW s, Formed(s), NEW v
  PROVE  /\ Calm(s, [s EXCEPT !.charset = v]) /\ Calm(s, [s EXCEPT !.output = v])
         /\ Calm(s, [s EXCEPT !.cursor_keys = v]) /\ Calm(s, [s EXCEPT !.auto_wrap = v])
         /\ Calm(s, [s EXCEPT !.g1 = v]) /\ Calm(s, [s EXCEPT !.title = v])
         /\ Calm(s, [s EXCEPT !.g0 = v, !.charset = v])
<1>1. /\ Same(s, [s EXCEPT !.charset = v], {}) /\ Same(s, [s EXCEPT !.output = v], {})
      /\ Same(s, [s EXCEPT !.cursor_keys = v], {}) /\ Same(s, [s EXCEPT !.auto_wrap = v], {})
      /\ Same(s, [s EXCEPT !.g1 = v], {}) /\ Same(s, [s EXCEPT !.title = v], {})
      /\ Same(s, [s EXCEPT !.g0 = v, !.charset = v], {})
  BY DEF Same, Formed, Fields
<1>2. QED
  BY <1>1, Elsewhere

LEMMA RenditionCalm ==
  ASSUME NEW s, Formed(s)
  PROVE  /\ \A style \in Styles : Calm(s, [s EXCEPT !.style = style])
         /\ \A on \in BOOLEAN : Calm(s, [s EXCEPT !.visible = on])
<1>1. /\ s.visible \in BOOLEAN /\ s.style \in Style /\ s.row \in Nat /\ s.col \in Nat
      /\ Tight(s) => s.col < s.cols /\ s.row < s.rows
  BY DEF Formed, Tight
<1>2. ASSUME NEW style \in Styles PROVE Calm(s, [s EXCEPT !.style = style])
  <2> DEFINE q == [s EXCEPT !.style = style]
  <2>1. /\ Same(s, q, {"col", "row", "visible", "style"})
        /\ q.col = s.col /\ q.row = s.row /\ q.visible = s.visible /\ q.style = style
    BY DEF Same, Formed, Fields
  <2>2. style \in Style
    <3>1. Plain \in Style
      BY DEF Plain, Style
    <3>2. [bold |-> TRUE, bg |-> "blue"] \in Style
      BY DEF Style
    <3>3. QED
      BY <3>1, <3>2 DEF Styles
  <2> HIDE DEF q
  <2>3. Calm(s, q)
    BY <1>1, <2>1, <2>2, Moved
  <2>4. QED
    BY <2>3 DEF q
<1>3. ASSUME NEW on \in BOOLEAN PROVE Calm(s, [s EXCEPT !.visible = on])
  <2> DEFINE q == [s EXCEPT !.visible = on]
  <2>1. /\ Same(s, q, {"col", "row", "visible", "style"})
        /\ q.col = s.col /\ q.row = s.row /\ q.visible = on /\ q.style = s.style
    BY DEF Same, Formed, Fields
  <2> HIDE DEF q
  <2>2. Calm(s, q)
    BY <1>1, <2>1, Moved
  <2>3. QED
    BY <2>2 DEF q
<1>4. QED
  BY <1>2, <1>3

LEMMA MarginsCalm ==
  ASSUME NEW s, Formed(s), NEW top \in Nat, NEW last \in Nat
  PROVE  Calm(s, Margins(s, top, last))
<1> DEFINE bottom == Min({last, s.rows - 1})
           q == [s EXCEPT !.top = top, !.bottom = bottom]
<1>1. bottom \in Nat /\ bottom < s.rows
  BY InRows
<1>2. Margins(s, top, last) = IF top < bottom THEN CursorGoto(q, 0, 0) ELSE s
  BY DEF Margins
<1> HIDE DEF bottom
<1>3. CASE top < bottom
  <2>1. Fields \subseteq DOMAIN q
    BY DEF Formed
  <2>2. /\ q.cols = s.cols /\ q.rows = s.rows /\ q.col = s.col /\ q.row = s.row
        /\ q.saved = s.saved /\ q.visible = s.visible /\ q.style = s.style
        /\ q.top = top /\ q.bottom = bottom /\ q.stops = s.stops /\ q.grid = s.grid
        /\ q.in_alt = s.in_alt /\ q.alt = s.alt /\ q.panicked = s.panicked
    BY DEF Formed, Fields
  <2> HIDE DEF q
  <2>3. top <= bottom
    BY <1>1, <1>3
  <2>4. Formed(q)
    BY <1>1, <2>1, <2>2, <2>3 DEF Formed
  <2>5. Calm(s, q)
    BY <2>2, <2>4 DEF Calm, Tight
  <2>6. Calm(q, CursorGoto(q, 0, 0))
    BY <2>4, CursorGotoCalm
  <2>7. QED
    BY <1>2, <1>3, <2>5, <2>6, CalmTwice
<1>4. CASE ~(top < bottom)
  BY <1>2, <1>4, CalmItself
<1>5. QED
  BY <1>3, <1>4

-----------------------------------------------------------------------------
(***************************************************************************)
(* New screens, other sizes, and the alternate screen.                     *)
(***************************************************************************)

LEMMA BlankScreen ==
  ASSUME NEW cols \in Nat \ {0}, NEW rows \in Nat
  PROVE  Lines(cols, rows) \in Screen(cols) /\ Len(Lines(cols, rows)) = rows
<1>1. Space \in Cell
  BY DEF Space, Cell, Char, Style, Plain
<1>2. Lines(cols, rows) \in [1..rows -> Line(cols)]
  BY <1>1 DEF Lines, Line
<1>3. DOMAIN Lines(cols, rows) = 1..rows
  BY DEF Lines
<1>4. QED
  BY <1>2, <1>3, SeqDef, LenProperties DEF Screen

LEMMA NewTight ==
  ASSUME NEW cols \in Nat \ {0}, NEW rows \in Nat \ {0}
  PROVE  /\ Formed(New(cols, rows)) /\ Tight(New(cols, rows))
         /\ New(cols, rows).in_alt = FALSE
         /\ New(cols, rows).cols = cols /\ New(cols, rows).rows = rows
<1> DEFINE q == New(cols, rows)
<1>1. Fields \subseteq DOMAIN q
  BY DEF New, Fields
<1>2. /\ q.cols = cols /\ q.rows = rows /\ q.grid = Lines(cols, rows)
      /\ q.col = 0 /\ q.row = 0 /\ q.visible = TRUE /\ q.style = Plain
      /\ q.saved = [col |-> 0, row |-> 0, style |-> Plain]
      /\ q.top = 0 /\ q.bottom = rows - 1 /\ q.stops = Stops(cols) /\ q.in_alt = FALSE
      /\ q.alt = [grid |-> Lines(cols, rows), col |-> 0, row |-> 0, visible |-> TRUE]
      /\ q.panicked = FALSE
  BY DEF New
<1> HIDE DEF q
<1>3. /\ Lines(cols, rows) \in Screen(cols) /\ Len(Lines(cols, rows)) = rows
  BY BlankScreen
<1>4. /\ q.saved \in [col : Nat, row : Nat, style : Style] /\ Plain \in Style
      /\ q.alt \in [grid : Screen(cols), col : Nat, row : Nat, visible : BOOLEAN]
      /\ q.alt.grid = Lines(cols, rows) /\ q.alt.col = 0 /\ q.alt.row = 0
  BY <1>2, <1>3 DEF Style, Plain
<1>5. Stops(cols) \subseteq Nat
  BY DEF Stops
<1>6. rows - 1 \in Nat /\ 0 <= rows - 1 /\ rows - 1 < rows /\ rows <= rows /\ 0 < cols /\ 0 < rows
  OBVIOUS
<1>7. Formed(q)
  BY <1>1, <1>2, <1>3, <1>4, <1>5, <1>6 DEF Formed
<1>8. Tight(q)
  BY <1>2, <1>3, <1>4, <1>6 DEF Tight
<1>9. QED
  BY <1>2, <1>7, <1>8 DEF q

LEMMA FitScreen ==
  ASSUME NEW c0, NEW g \in Screen(c0), NEW cols \in Nat \ {0}, NEW rows \in Nat, c0 \in Nat
  PROVE  Fit(g, cols, rows) \in Screen(cols) /\ Len(Fit(g, cols, rows)) = rows
<1>1. Space \in Cell
  BY DEF Space, Cell, Char, Style, Plain
<1>2. g \in Seq(Line(c0)) /\ Len(g) \in Nat
  BY LenProperties DEF Screen
<1>3. ASSUME NEW r \in 1..rows, NEW c \in 1..cols
      PROVE  (IF r <= Len(g) /\ c <= Len(g[r]) THEN g[r][c] ELSE Space) \in Cell
  <2>1. CASE r <= Len(g) /\ c <= Len(g[r])
    <3>1. r \in 1..Len(g)
      BY <1>2, <2>1
    <3>2. g[r] \in [1..c0 -> Cell]
      BY <1>2, <3>1, ElementOfSeq DEF Line
    <3>3. g[r] \in Seq(Cell) /\ DOMAIN g[r] = 1..c0
      BY <3>2, SeqDef
    <3>4. Len(g[r]) = c0
      BY <3>3, LenProperties
    <3>5. c \in 1..c0
      BY <2>1, <3>4
    <3>6. QED
      BY <2>1, <3>2, <3>5
  <2>2. CASE ~(r <= Len(g) /\ c <= Len(g[r]))
    BY <1>1, <2>2
  <2>3. QED
    BY <2>1, <2>2
<1>4. Fit(g, cols, rows) \in [1..rows -> Line(cols)]
  BY <1>3 DEF Fit, Line
<1>5. DOMAIN Fit(g, cols, rows) = 1..rows
  BY DEF Fit
<1>6. QED
  BY <1>4, <1>5, SeqDef, LenProperties DEF Screen

LEMMA ResizedTight ==
  ASSUME NEW s, Formed(s), NEW cols \in Nat \ {0}, NEW rows \in Nat \ {0}
  PROVE  /\ Formed(Resized(s, cols, rows))
         /\ s.panicked = FALSE => Tight(Resized(s, cols, rows))
         /\ Resized(s, cols, rows).in_alt = s.in_alt
         /\ Resized(s, cols, rows).saved = s.saved
         /\ Resized(s, cols, rows).alt.grid = Fit(s.alt.grid, cols, rows)
<1> DEFINE q == Resized(s, cols, rows)
           grid == Fit(s.grid, cols, rows)
           other == Fit(s.alt.grid, cols, rows)
           a == Min({s.col, cols - 1})
           b == Min({s.row, rows - 1})
           c == Min({s.alt.col, cols - 1})
           d == Min({s.alt.row, rows - 1})
<1>1. /\ s.alt \in [grid : Screen(s.cols), col : Nat, row : Nat, visible : BOOLEAN]
      /\ s.col \in Nat /\ s.row \in Nat /\ s.cols \in Nat /\ s.grid \in Screen(s.cols)
      /\ Fields \subseteq DOMAIN s
      /\ s.visible \in BOOLEAN /\ s.style \in Style
      /\ s.saved \in [col : Nat, row : Nat, style : Style]
  BY DEF Formed
<1>2. /\ s.alt.grid \in Screen(s.cols) /\ s.alt.col \in Nat /\ s.alt.row \in Nat
      /\ s.alt.visible \in BOOLEAN
      /\ s.alt = [grid |-> s.alt.grid, col |-> s.alt.col, row |-> s.alt.row,
                  visible |-> s.alt.visible]
  BY <1>1
<1>3. /\ grid \in Screen(cols) /\ Len(grid) = rows
      /\ other \in Screen(cols) /\ Len(other) = rows
  BY <1>1, <1>2, FitScreen
<1>4. /\ cols - 1 \in Nat /\ rows - 1 \in Nat /\ cols - 1 < cols /\ rows - 1 < rows
      /\ 0 <= rows - 1 /\ rows <= rows
  OBVIOUS
<1>5. /\ a \in Nat /\ a <= cols - 1 /\ c \in Nat /\ c <= cols - 1
      /\ b \in Nat /\ b <= rows - 1 /\ d \in Nat /\ d <= rows - 1
  BY <1>1, <1>2, <1>4, LesserOf
<1>6. q.alt = [grid |-> other, col |-> c, row |-> d, visible |-> s.alt.visible]
  BY <1>1 DEF Resized, Fields
<1>7. /\ q.cols = cols /\ q.rows = rows /\ q.grid = grid /\ q.col = a /\ q.row = b
      /\ q.saved = s.saved /\ q.visible = s.visible /\ q.style = s.style
      /\ q.top = 0 /\ q.bottom = rows - 1 /\ q.stops = Stops(cols)
      /\ q.in_alt = s.in_alt /\ q.panicked = s.panicked
      /\ Fields \subseteq DOMAIN q
  BY <1>1 DEF Resized, Fields
<1> HIDE DEF q, a, b, c, d, grid, other
<1>8. /\ q.alt.grid = other /\ q.alt.col = c /\ q.alt.row = d
      /\ q.alt \in [grid : Screen(cols), col : Nat, row : Nat, visible : BOOLEAN]
  BY <1>2, <1>3, <1>5, <1>6
<1>9. a < cols /\ b < rows /\ c < cols /\ d < rows
  BY <1>4, <1>5
<1>10. Stops(cols) \subseteq Nat
  BY DEF Stops
<1>11. Formed(q)
  <2>1. /\ q.top \in Nat /\ q.bottom \in Nat /\ q.top <= q.bottom /\ q.bottom < q.rows
        /\ q.rows <= Len(q.grid) /\ q.rows <= Len(q.alt.grid)
        /\ q.cols \in Nat \ {0} /\ q.rows \in Nat \ {0}
    BY <1>3, <1>4, <1>7, <1>8
  <2>2. q.grid \in Screen(q.cols) /\ q.stops \subseteq Nat /\ q.col \in Nat /\ q.row \in Nat
    BY <1>3, <1>5, <1>7, <1>10
  <2>3. /\ q.alt \in [grid : Screen(q.cols), col : Nat, row : Nat, visible : BOOLEAN]
        /\ q.saved \in [col : Nat, row : Nat, style : Style]
        /\ q.visible \in BOOLEAN /\ q.style \in Style
    BY <1>1, <1>7, <1>8
  <2>4. QED
    BY <1>7, <2>1, <2>2, <2>3 DEF Formed
<1>12. s.panicked = FALSE => Tight(q)
  BY <1>3, <1>7, <1>8, <1>9 DEF Tight
<1>13. QED
  BY <1>7, <1>8, <1>11, <1>12 DEF q, other

LEMMA SwappedFormed ==
  ASSUME NEW s, Formed(s)
  PROVE  /\ Formed(Swapped(s)) /\ (Tight(s) => Tight(Swapped(s)))
         /\ Swapped(s).cols = s.cols /\ Swapped(s).rows = s.rows
         /\ Swapped(s).grid = s.alt.grid /\ Swapped(s).alt.grid = s.grid
         /\ Swapped(s).saved = s.saved /\ Swapped(s).in_alt = s.in_alt
<1> DEFINE q == Swapped(s)
<1>1. /\ s.alt \in [grid : Screen(s.cols), col : Nat, row : Nat, visible : BOOLEAN]
      /\ s.col \in Nat /\ s.row \in Nat /\ s.grid \in Screen(s.cols) /\ s.visible \in BOOLEAN
      /\ Fields \subseteq DOMAIN s
  BY DEF Formed
<1>2. /\ q.cols = s.cols /\ q.rows = s.rows /\ q.grid = s.alt.grid
      /\ q.col = s.alt.col /\ q.row = s.alt.row /\ q.visible = s.alt.visible
      /\ q.alt = [grid |-> s.grid, col |-> s.col, row |-> s.row, visible |-> s.visible]
      /\ q.saved = s.saved /\ q.style = s.style
      /\ q.top = s.top /\ q.bottom = s.bottom /\ q.stops = s.stops
      /\ q.in_alt = s.in_alt /\ q.panicked = s.panicked
      /\ Fields \subseteq DOMAIN q
  BY <1>1 DEF Swapped, Fields
<1> HIDE DEF q
<1>3. /\ q.alt \in [grid : Screen(s.cols), col : Nat, row : Nat, visible : BOOLEAN]
      /\ q.alt.grid = s.grid /\ q.alt.col = s.col /\ q.alt.row = s.row
  BY <1>1, <1>2
<1>4. /\ s.alt.grid \in Screen(s.cols) /\ s.alt.col \in Nat /\ s.alt.row \in Nat
      /\ s.alt.visible \in BOOLEAN
  BY <1>1
<1>5. Formed(q)
  BY <1>2, <1>3, <1>4 DEF Formed
<1>6. Tight(s) => Tight(q)
  BY <1>2, <1>3 DEF Tight
<1>7. QED
  BY <1>2, <1>3, <1>5, <1>6 DEF q

LEMMA SaveCursorFormed ==
  ASSUME NEW s, Formed(s)
  PROVE  /\ Formed(SaveCursor(s)) /\ (Tight(s) => Tight(SaveCursor(s)))
         /\ SaveCursor(s).cols = s.cols /\ SaveCursor(s).rows = s.rows
         /\ SaveCursor(s).grid = s.grid /\ SaveCursor(s).alt = s.alt
         /\ SaveCursor(s).in_alt = s.in_alt
         /\ SaveCursor(s).saved = [col |-> s.col, row |-> s.row, style |-> s.style]
<1> DEFINE q == SaveCursor(s)
<1>1. /\ q.cols = s.cols /\ q.rows = s.rows /\ q.grid = s.grid /\ q.col = s.col /\ q.row = s.row
      /\ q.visible = s.visible /\ q.style = s.style /\ q.alt = s.alt
      /\ q.top = s.top /\ q.bottom = s.bottom /\ q.stops = s.stops
      /\ q.in_alt = s.in_alt /\ q.panicked = s.panicked
      /\ q.saved = [col |-> s.col, row |-> s.row, style |-> s.style]
      /\ Fields \subseteq DOMAIN q
  BY DEF SaveCursor, Formed, Fields
<1> HIDE DEF q
<1>2. q.saved \in [col : Nat, row : Nat, style : Style]
  BY <1>1 DEF Formed
<1>3. Formed(q)
  BY <1>1, <1>2 DEF Formed
<1>4. Tight(s) => Tight(q)
  BY <1>1 DEF Tight
<1>5. QED
  BY <1>1, <1>3, <1>4 DEF q

\* The saved cursor may be off the screen: tight only if it is on it.
LEMMA TakeSavedFormed ==
  ASSUME NEW s, Formed(s)
  PROVE  /\ Formed(TakeSaved(s))
         /\ Tight(s) /\ s.saved.col < s.cols /\ s.saved.row < s.rows => Tight(TakeSaved(s))
         /\ Tight(s) /\ OnScreen(TakeSaved(s)) => Tight(TakeSaved(s))
         /\ TakeSaved(s).cols = s.cols /\ TakeSaved(s).rows = s.rows
         /\ TakeSaved(s).grid = s.grid /\ TakeSaved(s).alt = s.alt
         /\ TakeSaved(s).in_alt = s.in_alt /\ TakeSaved(s).saved = s.saved
         /\ TakeSaved(s).col = s.saved.col /\ TakeSaved(s).row = s.saved.row
         /\ TakeSaved(s).style = s.saved.style
<1> DEFINE q == TakeSaved(s)
<1>1. /\ q.cols = s.cols /\ q.rows = s.rows /\ q.grid = s.grid
      /\ q.col = s.saved.col /\ q.row = s.saved.row /\ q.style = s.saved.style
      /\ q.visible = s.visible /\ q.alt = s.alt /\ q.saved = s.saved
      /\ q.top = s.top /\ q.bottom = s.bottom /\ q.stops = s.stops
      /\ q.in_alt = s.in_alt /\ q.panicked = s.panicked
      /\ Fields \subseteq DOMAIN q
  BY DEF TakeSaved, Formed, Fields
<1> HIDE DEF q
<1>2. s.saved.col \in Nat /\ s.saved.row \in Nat /\ s.saved.style \in Style
  BY DEF Formed
<1>3. Formed(q)
  BY <1>1, <1>2 DEF Formed
<1>4. Tight(s) /\ s.saved.col < s.cols /\ s.saved.row < s.rows => Tight(q)
  BY <1>1 DEF Tight
<1>5. Tight(s) /\ OnScreen(q) => Tight(q)
  BY <1>1, <1>4 DEF OnScreen
<1>6. QED
  BY <1>1, <1>3, <1>4, <1>5 DEF q

LEMMA RestoreCursorFormed ==
  ASSUME NEW s, Formed(s)
  PROVE  /\ Formed(RestoreCursor(s))
         /\ Tight(s) /\ s.saved.col < s.cols /\ s.saved.row < s.rows => Tight(RestoreCursor(s))
         /\ Tight(s) /\ OnScreen(RestoreCursor(s)) => Tight(RestoreCursor(s))
         /\ RestoreCursor(s).alt = s.alt
         /\ RestoreCursor(s).in_alt = s.in_alt /\ RestoreCursor(s).saved = s.saved
<1> DEFINE q == TakeSaved(s)
<1>1. RestoreCursor(s) = Loose(q)
  BY DEF RestoreCursor
<1>2. /\ Formed(q) /\ q.alt = s.alt /\ q.in_alt = s.in_alt /\ q.saved = s.saved
      /\ Tight(s) /\ s.saved.col < s.cols /\ s.saved.row < s.rows => Tight(q)
      /\ Tight(s) /\ OnScreen(q) => Tight(q)
  BY TakeSavedFormed
<1> HIDE DEF q
<1>3. Calm(q, Loose(q))
  BY <1>2, LooseCalm
<1>4. OnScreen(Loose(q)) <=> OnScreen(q)
  BY <1>2, LooseFields DEF OnScreen
<1>5. QED
  BY <1>1, <1>2, <1>3, <1>4 DEF Calm

LEMMA EnterAltFormed ==
  ASSUME NEW s, Formed(s), NEW save \in BOOLEAN, ~s.in_alt
  PROVE  /\ Formed(EnterAlt(s, save)) /\ (Tight(s) => Tight(EnterAlt(s, save)))
         /\ EnterAlt(s, save).in_alt = TRUE
         /\ EnterAlt(s, save).alt.grid = s.grid
         /\ save => EnterAlt(s, save).saved = [col |-> s.col, row |-> s.row, style |-> s.style]
<1> DEFINE p == IF save THEN SaveCursor(s) ELSE s
           l == Loose(Swapped(p))
           g == [r \in DOMAIN l.grid |-> IF r <= s.rows THEN Lines(s.cols, 1)[1] ELSE l.grid[r]]
           q == [l EXCEPT !.grid = g, !.col = 0, !.row = 0, !.in_alt = TRUE]
<1>1. EnterAlt(s, save) = q
  BY DEF EnterAlt
<1>2. /\ Formed(p) /\ (Tight(s) => Tight(p)) /\ p.grid = s.grid
      /\ p.cols = s.cols /\ p.rows = s.rows
      /\ save => p.saved = [col |-> s.col, row |-> s.row, style |-> s.style]
  BY SaveCursorFormed
<1> HIDE DEF p
<1>3. /\ Formed(Swapped(p)) /\ (Tight(p) => Tight(Swapped(p)))
      /\ Swapped(p).cols = p.cols /\ Swapped(p).rows = p.rows
      /\ Swapped(p).alt.grid = p.grid /\ Swapped(p).saved = p.saved
  BY <1>2, SwappedFormed
<1>4. /\ Formed(l) /\ (Tight(Swapped(p)) => Tight(l)) /\ l.cols = s.cols /\ l.rows = s.rows
      /\ l.alt.grid = s.grid /\ l.saved = p.saved
  BY <1>2, <1>3, LooseCalm DEF Calm
<1> HIDE DEF l
<1>5. s.cols \in Nat \ {0} /\ s.rows \in Nat \ {0}
  BY DEF Formed
<1>6. g \in Screen(s.cols) /\ Len(g) = Len(l.grid)
  <2>1. l.grid \in Seq(Line(s.cols)) /\ DOMAIN l.grid = 1..Len(l.grid)
    BY <1>4, LenProperties DEF Formed, Screen
  <2>2. Lines(s.cols, 1)[1] \in Line(s.cols)
    <3>1. Lines(s.cols, 1) \in [1..1 -> Line(s.cols)]
      BY <1>5, Blanks DEF Lines, Line
    <3>2. QED
      BY <3>1
  <2>3. \A i \in 1..Len(l.grid) : g[i] \in Line(s.cols)
    BY <2>1, <2>2, ElementOfSeq
  <2>4. g = [i \in 1..Len(l.grid) |-> g[i]]
    BY <2>1
  <2> HIDE DEF g
  <2>5. QED
    BY <2>1, <2>3, <2>4, LinesWritten DEF Screen
<1> HIDE DEF g
<1>7. /\ q.cols = l.cols /\ q.rows = l.rows /\ q.grid = g /\ q.col = 0 /\ q.row = 0
      /\ q.visible = l.visible /\ q.style = l.style /\ q.alt = l.alt /\ q.saved = l.saved
      /\ q.top = l.top /\ q.bottom = l.bottom /\ q.stops = l.stops
      /\ q.in_alt = TRUE /\ q.panicked = l.panicked
      /\ Fields \subseteq DOMAIN q
  BY <1>4 DEF Formed, Fields
<1> HIDE DEF q
<1>8. Formed(q)
  <2>1. /\ l.rows <= Len(l.grid) /\ l.rows <= Len(l.alt.grid)
        /\ l.alt \in [grid : Screen(l.cols), col : Nat, row : Nat, visible : BOOLEAN]
        /\ l.saved \in [col : Nat, row : Nat, style : Style]
        /\ l.visible \in BOOLEAN /\ l.style \in Style /\ l.stops \subseteq Nat
        /\ l.top \in Nat /\ l.bottom \in Nat /\ l.top <= l.bottom /\ l.bottom < l.rows
        /\ l.cols \in Nat \ {0} /\ l.rows \in Nat \ {0}
    BY <1>4 DEF Formed
  <2>2. q.grid \in Screen(q.cols) /\ q.rows <= Len(q.grid)
    BY <1>4, <1>6, <1>7, <2>1
  <2>3. /\ q.cols \in Nat \ {0} /\ q.rows \in Nat \ {0} /\ q.col \in Nat /\ q.row \in Nat
        /\ q.visible \in BOOLEAN /\ q.style \in Style /\ q.stops \subseteq Nat
        /\ q.saved \in [col : Nat, row : Nat, style : Style]
        /\ q.top \in Nat /\ q.bottom \in Nat /\ q.top <= q.bottom /\ q.bottom < q.rows
    BY <1>7, <2>1
  <2>4. /\ q.alt \in [grid : Screen(q.cols), col : Nat, row : Nat, visible : BOOLEAN]
        /\ q.rows <= Len(q.alt.grid)
    BY <1>7, <2>1
  <2>5. QED
    BY <1>7, <2>2, <2>3, <2>4 DEF Formed
<1>9. 0 < s.cols /\ 0 < s.rows
  BY <1>5
<1>10. Tight(l) => Tight(q)
  BY <1>4, <1>6, <1>7, <1>9 DEF Tight
<1>11. QED
  BY <1>1, <1>2, <1>3, <1>4, <1>7, <1>8, <1>10

LEMMA LeaveAltFormed ==
  ASSUME NEW s, Formed(s), NEW restore \in BOOLEAN, s.in_alt
  PROVE  /\ Formed(LeaveAlt(s, restore))
         /\ Tight(s) /\ ~restore => Tight(LeaveAlt(s, restore))
         /\ Tight(s) /\ s.saved.col < s.cols /\ s.saved.row < s.rows => Tight(LeaveAlt(s, restore))
         /\ Tight(s) /\ OnScreen(LeaveAlt(s, restore)) => Tight(LeaveAlt(s, restore))
         /\ LeaveAlt(s, restore).in_alt = FALSE
         /\ LeaveAlt(s, restore).grid = s.alt.grid
         /\ restore => /\ LeaveAlt(s, restore).col = s.saved.col
                       /\ LeaveAlt(s, restore).row = s.saved.row
                       /\ LeaveAlt(s, restore).style = s.saved.style
<1> DEFINE w == Swapped(s)
           p == IF restore THEN TakeSaved(w) ELSE w
           l == Loose(p)
           q == [l EXCEPT !.in_alt = FALSE]
<1>1. LeaveAlt(s, restore) = q
  BY DEF LeaveAlt
<1>2. /\ Formed(w) /\ (Tight(s) => Tight(w)) /\ w.cols = s.cols /\ w.rows = s.rows
      /\ w.grid = s.alt.grid /\ w.saved = s.saved
  BY SwappedFormed
<1> HIDE DEF w
<1>3. /\ Formed(p) /\ p.cols = s.cols /\ p.rows = s.rows /\ p.grid = s.alt.grid
      /\ Tight(s) /\ ~restore => Tight(p)
      /\ Tight(s) /\ s.saved.col < s.cols /\ s.saved.row < s.rows => Tight(p)
      /\ Tight(s) /\ OnScreen(p) => Tight(p)
      /\ restore => p.col = s.saved.col /\ p.row = s.saved.row /\ p.style = s.saved.style
  BY <1>2, TakeSavedFormed
<1> HIDE DEF p
<1>4. /\ Formed(l) /\ (Tight(p) => Tight(l)) /\ l.grid = p.grid
      /\ l.cols = p.cols /\ l.rows = p.rows /\ l.col = p.col /\ l.row = p.row
  BY <1>3, LooseFields
<1>5. l.style = p.style
  BY <1>3, LooseSame DEF Same, Fields
<1> HIDE DEF l
<1>6. /\ q.cols = l.cols /\ q.rows = l.rows /\ q.grid = l.grid /\ q.col = l.col /\ q.row = l.row
      /\ q.visible = l.visible /\ q.style = l.style /\ q.alt = l.alt /\ q.saved = l.saved
      /\ q.top = l.top /\ q.bottom = l.bottom /\ q.stops = l.stops
      /\ q.in_alt = FALSE /\ q.panicked = l.panicked
      /\ Fields \subseteq DOMAIN q
  BY <1>4 DEF Formed, Fields
<1> HIDE DEF q
<1>7. Formed(q)
  BY <1>4, <1>6 DEF Formed
<1>8. Tight(l) => Tight(q)
  BY <1>6 DEF Tight
<1>9. OnScreen(q) <=> OnScreen(p)
  BY <1>4, <1>6 DEF OnScreen
<1>10. QED
  BY <1>1, <1>3, <1>4, <1>5, <1>6, <1>7, <1>8, <1>9

LEMMA ColumnToFormed ==
  ASSUME NEW s, Formed(s), NEW c \in Nat
  PROVE  /\ Formed(ColumnTo(s, c))
         /\ Tight(s) /\ OnScreen(ColumnTo(s, c)) => Tight(ColumnTo(s, c))
         /\ ColumnTo(s, c).in_alt = s.in_alt /\ ColumnTo(s, c).alt = s.alt
         /\ ColumnTo(s, c).saved = s.saved
<1> DEFINE q == ColumnTo(s, c)
<1>1. /\ q.cols = s.cols /\ q.rows = s.rows /\ q.grid = s.grid /\ q.col = c /\ q.row = s.row
      /\ q.visible = s.visible /\ q.style = s.style /\ q.alt = s.alt /\ q.saved = s.saved
      /\ q.top = s.top /\ q.bottom = s.bottom /\ q.stops = s.stops
      /\ q.in_alt = s.in_alt /\ q.panicked = s.panicked
      /\ Fields \subseteq DOMAIN q
  BY DEF ColumnTo, Formed, Fields
<1> HIDE DEF q
<1>2. Formed(q)
  BY <1>1 DEF Formed
<1>3. Tight(s) /\ OnScreen(q) => Tight(q)
  BY <1>1 DEF Tight, OnScreen
<1>4. QED
  BY <1>1, <1>2, <1>3 DEF q

-----------------------------------------------------------------------------
(***************************************************************************)
(* The steps.  Most of them are quiet: the screen is as well formed as it  *)
(* was, and the cursor on it if it was.                                    *)
(***************************************************************************)

Quiet ==
  /\ Calm(t, t') /\ UNCHANGED main
  /\ strayed' = (strayed \/ ~OnScreen(t'))

LEMMA CalmCsi ==
  ASSUME NEW r, Calm(t, r), Csi(r), SameMain PROVE Quiet
  BY DEF Csi, Becomes, OffScreenFrom, SameMain, Quiet

LEMMA QuietKeeps == Inv /\ Quiet => Inv' /\ (~strayed => ~strayed')
<1> SUFFICES ASSUME Inv, Quiet PROVE Inv' /\ (~strayed => ~strayed')
  OBVIOUS
<1>1. /\ Formed(t') /\ (Tight(t) => Tight(t')) /\ t'.in_alt = t.in_alt
      /\ t'.alt = t.alt /\ t'.saved = t.saved
  BY DEF Quiet, Calm
<1>2. Tight(t') => OnScreen(t')
  BY DEF Tight, OnScreen
<1>3. ~strayed => Tight(t') /\ ~strayed'
  BY <1>1, <1>2 DEF Inv, Quiet
<1>4. strayed \/ ~strayed
  OBVIOUS
<1>5. strayed' \/ Tight(t')
  BY <1>3 DEF Quiet
<1>6. Covers'
  BY <1>1 DEF Covers, Inv, Quiet
<1>7. QED
  BY <1>1, <1>3, <1>5, <1>6 DEF Inv, Quiet

LEMMA CharactersQuiet ==
  ASSUME Formed(t),
         (\E b \in Bytes : Utf8Byte(b)) \/ Cp437Byte \/ PrintChar \/ Executes
  PROVE  Quiet
<1>1. CASE \E b \in Bytes : Utf8Byte(b)
  <2>1. PICK b \in Bytes : Utf8Byte(b)
    BY <1>1
  <2>2. PICK r : Becomes(r) /\ SameMain /\ (r = PutChar(t, "e-acute") \/ r = t)
    BY <2>1 DEF Utf8Byte
  <2>3. Calm(t, r)
    BY <2>2, CalmItself, PutCharCalm DEF Char
  <2>4. QED
    BY <2>2, <2>3 DEF Becomes, OffScreenFrom, SameMain, Quiet
<1>2. CASE Cp437Byte
  <2>1. Calm(t, PutChar(t, "e-acute"))
    BY PutCharCalm DEF Char
  <2>2. QED
    BY <1>2, <2>1, CalmCsi DEF Cp437Byte, Plainly
<1>3. CASE PrintChar
  <2> DEFINE ch == Mapped(t.charset, "q")
  <2>1. ch \in Char
    BY DEF Mapped, Char
  <2>2. Csi(PutChar(t, ch)) /\ SameMain
    BY <1>3 DEF PrintChar, Plainly
  <2> HIDE DEF ch
  <2>3. QED
    BY <2>1, <2>2, PutCharCalm, CalmCsi
<1>4. CASE BackSpace
  <2>1. [Loose(t) EXCEPT !.col = Less(@, 1)] = CursorBack(t, 1)
    BY DEF CursorBack
  <2>2. Calm(t, CursorBack(t, 1))
    BY CursorBackCalm
  <2>3. Csi(CursorBack(t, 1)) /\ SameMain
    BY <1>4, <2>1 DEF BackSpace, Plainly
  <2>4. QED
    BY <2>2, <2>3, CalmCsi
<1>5. CASE HorizontalTab
  BY <1>5, TabCalm, CalmCsi DEF HorizontalTab, Plainly
<1>6. CASE LineFeed
  <2>1. Calm(t, AdvanceRow(t)) /\ Formed(AdvanceRow(t))
    BY AdvanceRowCalm DEF Calm
  <2>2. Calm(t, Loose(AdvanceRow(t)))
    BY <2>1, LooseCalm, CalmTwice
  <2>3. QED
    BY <1>6, <2>2, CalmCsi DEF LineFeed, Plainly
<1>7. CASE CarriageReturn
  <2>1. Calm(t, Loose(t)) /\ Formed(Loose(t))
    BY LooseCalm DEF Calm
  <2>2. Calm(t, [Loose(t) EXCEPT !.col = 0])
    BY <2>1, Columnless, CalmTwice
  <2>3. QED
    BY <1>7, <2>2, CalmCsi DEF CarriageReturn, Plainly
<1>8. CASE ShiftOut \/ ShiftIn
  <2>1. PICK v : Csi([t EXCEPT !.charset = v]) /\ SameMain
    BY <1>8 DEF ShiftOut, ShiftIn, Plainly
  <2>2. QED
    BY <2>1, FieldsSet, CalmCsi
<1>9. QED
  BY <1>1, <1>2, <1>3, <1>4, <1>5, <1>6, <1>7, <1>8 DEF Executes

LEMMA CountsQuiet ==
  ASSUME Formed(t), NEW n \in Counts,
         Move(n) \/ TabForward(n) \/ TabBackward(n) \/ EditLine(n) \/ EditLines(n) \/ Scroll(n)
  PROVE  Quiet
<1>1. n \in Nat
  BY ParametersAssumption
<1>2. CASE Move(n)
  <2>1. /\ Calm(t, CursorUp(t, n)) /\ Calm(t, CursorDown(t, n))
        /\ Calm(t, CursorForward(t, n)) /\ Calm(t, CursorBack(t, n))
    BY <1>1, CursorUpCalm, CursorDownCalm, CursorForwardCalm, CursorBackCalm
  <2>2. Formed(CursorUp(t, n)) /\ Formed(CursorDown(t, n))
    BY <2>1 DEF Calm
  <2>3. /\ Calm(CursorDown(t, n), [CursorDown(t, n) EXCEPT !.col = 0])
        /\ Calm(CursorUp(t, n), [CursorUp(t, n) EXCEPT !.col = 0])
    BY <2>2, Columnless
  <2>4. /\ Calm(t, [CursorDown(t, n) EXCEPT !.col = 0])
        /\ Calm(t, [CursorUp(t, n) EXCEPT !.col = 0])
    BY <2>1, <2>3, CalmTwice
  <2>5. QED
    BY <1>2, <2>1, <2>4, CalmCsi DEF Move
<1>3. CASE TabForward(n)
  <2>1. Calm(t, Tab(t)) /\ Formed(Tab(t))
    BY TabCalm DEF Calm
  <2>2. Calm(t, Tab(Tab(t)))
    BY <2>1, TabCalm, CalmTwice
  <2>3. PICK r : Csi(r) /\ SameMain /\ (r = Tab(t) \/ r = Tab(Tab(t)))
    BY <1>3 DEF TabForward
  <2>4. QED
    BY <2>1, <2>2, <2>3, CalmCsi
<1>4. CASE TabBackward(n)
  BY <1>1, <1>4, BackTabCalm, CalmCsi DEF TabBackward
<1>5. CASE EditLine(n)
  BY <1>1, <1>5, InsertCharsCalm, EraseCharsCalm, DeleteCharsCalm, CalmCsi DEF EditLine
<1>6. CASE EditLines(n)
  BY <1>1, <1>6, InsertLinesCalm, DeleteLinesCalm, CalmCsi DEF EditLines
<1>7. CASE Scroll(n)
  BY <1>1, <1>7, ScrollsCalm, CalmCsi DEF Scroll
<1>8. QED
  BY <1>2, <1>3, <1>4, <1>5, <1>6, <1>7

LEMMA OthersQuiet ==
  ASSUME Formed(t),
         \/ \E c \in Columns, r \in Rows : CursorPosition(c, r)
         \/ \E r \in Rows : LineAbsolute(r)
         \/ \E mode \in 0..2 : Erase(mode)
         \/ \E style \in Styles : SelectRendition(style)
         \/ \E top, last \in Rows : SetMargins(top, last)
         \/ ReportStatus \/ ReportPosition
         \/ \E on \in BOOLEAN : SetMode(on)
  PROVE  Quiet
<1>1. Columns \subseteq Nat /\ Rows \subseteq Nat
  BY ParametersAssumption
<1>2. CASE \E c \in Columns, r \in Rows : CursorPosition(c, r)
  <2>1. PICK c \in Columns, r \in Rows : CursorPosition(c, r)
    BY <1>2
  <2>2. c \in Nat /\ r \in Nat
    BY <1>1
  <2>3. QED
    BY <2>1, <2>2, CursorGotoCalm, CalmCsi DEF CursorPosition
<1>3. CASE \E r \in Rows : LineAbsolute(r)
  <2>1. PICK r \in Rows : LineAbsolute(r)
    BY <1>3
  <2>2. r \in Nat
    BY <1>1
  <2>3. QED
    BY <2>1, <2>2, RowToCalm, CalmCsi DEF LineAbsolute
<1>4. CASE \E mode \in 0..2 : Erase(mode)
  BY <1>4, EraseDisplayCalm, EraseLineCalm, CalmCsi DEF Erase
<1>5. CASE \E style \in Styles : SelectRendition(style)
  BY <1>5, RenditionCalm, CalmCsi DEF SelectRendition
<1>6. CASE \E top, last \in Rows : SetMargins(top, last)
  <2>1. PICK top \in Rows, last \in Rows : SetMargins(top, last)
    BY <1>6
  <2>2. top \in Nat /\ last \in Nat
    BY <1>1
  <2>3. QED
    BY <2>1, <2>2, MarginsCalm, CalmCsi DEF SetMargins
<1>7. CASE ReportStatus \/ ReportPosition
  <2>1. PICK v : Csi([t EXCEPT !.output = v]) /\ SameMain
    BY <1>7 DEF ReportStatus, ReportPosition
  <2>2. QED
    BY <2>1, FieldsSet, CalmCsi
<1>8. CASE \E on \in BOOLEAN : SetMode(on)
  <2>1. PICK on \in BOOLEAN : SetMode(on)
    BY <1>8
  <2>2. Calm(t, Loose(t)) /\ Formed(Loose(t))
    BY LooseCalm DEF Calm
  <2>3. Calm(t, [Loose(t) EXCEPT !.auto_wrap = FALSE])
    BY <2>2, FieldsSet, CalmTwice
  <2>4. PICK r : Csi(r) /\ SameMain /\ \/ r = [t EXCEPT !.cursor_keys = on]
                                       \/ r = [t EXCEPT !.visible = on]
                                       \/ r = [t EXCEPT !.auto_wrap = TRUE]
                                       \/ r = [Loose(t) EXCEPT !.auto_wrap = FALSE]
    BY <2>1 DEF SetMode
  <2>5. Calm(t, [t EXCEPT !.cursor_keys = on]) /\ Calm(t, [t EXCEPT !.auto_wrap = TRUE])
    BY FieldsSet
  <2>6. Calm(t, [t EXCEPT !.visible = on])
    BY RenditionCalm
  <2>7. Calm(t, r)
    BY <2>3, <2>4, <2>5, <2>6
  <2>8. QED
    BY <2>4, <2>7, CalmCsi
<1>9. QED
  BY <1>2, <1>3, <1>4, <1>5, <1>6, <1>7, <1>8

LEMMA EscapesQuiet ==
  ASSUME Formed(t),
         \/ ReverseIndex \/ Index \/ NextLine \/ Title
         \/ \E set \in {"ascii", "line"} : DesignateG0(set) \/ DesignateG1(set)
  PROVE  Quiet
<1>1. CASE ReverseIndex
  <2>1. t.row \in Nat /\ (Tight(t) => t.row < t.rows) /\ t.rows \in Nat
    BY DEF Formed, Tight
  <2>2. Less(t.row, 1) \in Nat /\ Less(t.row, 1) <= t.row
    BY <2>1, Steps
  <2>3. Tight(t) => Less(t.row, 1) < t.rows
    BY <2>1, <2>2
  <2>4. Calm(t, [t EXCEPT !.row = Less(t.row, 1)])
    BY <2>2, <2>3, PlacedRow
  <2>5. PICK r : Csi(r) /\ SameMain /\ (r = ScrollDown(t, 1) \/ r = [t EXCEPT !.row = Less(t.row, 1)])
    BY <1>1 DEF ReverseIndex, Esc, Plainly
  <2>6. Calm(t, r)
    BY <2>4, <2>5, ScrollsCalm
  <2>7. QED
    BY <2>5, <2>6, CalmCsi
<1>2. CASE Index
  BY <1>2, AdvanceRowCalm, CalmCsi DEF Index, Esc, Plainly
<1>3. CASE NextLine
  <2> DEFINE q == [t EXCEPT !.col = 0]
  <2>1. Calm(t, q) /\ Formed(q)
    BY Columnless DEF Calm
  <2>2. Csi(AdvanceRow(q)) /\ SameMain
    BY <1>3 DEF NextLine, Esc, Plainly
  <2> HIDE DEF q
  <2>3. Calm(t, AdvanceRow(q))
    BY <2>1, AdvanceRowCalm, CalmTwice
  <2>4. QED
    BY <2>2, <2>3, CalmCsi
<1>4. CASE Title
  BY <1>4, FieldsSet, CalmCsi DEF Title, Esc, Plainly
<1>5. CASE \E set \in {"ascii", "line"} : DesignateG0(set) \/ DesignateG1(set)
  BY <1>5, FieldsSet, CalmCsi DEF DesignateG0, DesignateG1, Esc, Plainly
<1>6. QED
  BY <1>1, <1>2, <1>3, <1>4, <1>5

LEMMA AbsoluteKeeps ==
  ASSUME Inv, NEW c \in Columns, CharacterAbsolute(c) PROVE Inv'
<1>1. c \in Nat
  BY ParametersAssumption
<1>2. t' = ColumnTo(t, c) /\ main' = main /\ strayed' = (strayed \/ ~OnScreen(t'))
  BY DEF CharacterAbsolute, Csi, Becomes, OffScreenFrom, SameMain
<1>3. /\ Formed(t') /\ (Tight(t) /\ OnScreen(t') => Tight(t'))
      /\ t'.in_alt = t.in_alt /\ t'.alt = t.alt /\ t'.saved = t.saved
  BY <1>1, <1>2, ColumnToFormed DEF Inv
<1>4. strayed' \/ Tight(t')
  BY <1>2, <1>3 DEF Inv
<1>5. Covers'
  BY <1>2, <1>3 DEF Inv, Covers
<1>6. QED
  BY <1>2, <1>3, <1>4, <1>5 DEF Inv

LEMMA RestoreKeeps ==
  ASSUME Inv, Restore PROVE Inv' /\ (~strayed /\ SavedOnScreen => ~strayed')
<1>1. t' = RestoreCursor(t) /\ main' = main /\ strayed' = (strayed \/ ~OnScreen(t'))
  BY DEF Restore, Csi, Becomes, OffScreenFrom, SameMain
<1>2. /\ Formed(t') /\ (Tight(t) /\ OnScreen(t') => Tight(t'))
      /\ Tight(t) /\ SavedOnScreen => Tight(t')
      /\ t'.in_alt = t.in_alt /\ t'.alt = t.alt /\ t'.saved = t.saved
  BY <1>1, RestoreCursorFormed DEF Inv, SavedOnScreen
<1>3. strayed' \/ Tight(t')
  BY <1>1, <1>2 DEF Inv
<1>4. Covers'
  BY <1>1, <1>2 DEF Inv, Covers
<1>5. Tight(t') => OnScreen(t')
  BY DEF Tight, OnScreen
<1>6. ~strayed /\ SavedOnScreen => ~strayed'
  BY <1>1, <1>2, <1>5 DEF Inv
<1>7. QED
  BY <1>1, <1>2, <1>3, <1>4, <1>6 DEF Inv

\* A step after which the screen is as tight as before does not stray.
LEMMA TightStays ==
  ASSUME Inv, Tight(t) => Tight(t'), strayed' = (strayed \/ ~OnScreen(t'))
  PROVE  (strayed' \/ Tight(t')) /\ (~strayed => ~strayed')
<1>1. Tight(t') => OnScreen(t')
  BY DEF Tight, OnScreen
<1>2. QED
  BY <1>1 DEF Inv

LEMMA SaveKeeps ==
  ASSUME Inv, Save PROVE Inv' /\ (~strayed => ~strayed')
<1>1. /\ t' = SaveCursor(t) /\ main' = [main EXCEPT !.cursor = <<>>]
      /\ strayed' = (strayed \/ ~OnScreen(t'))
  BY DEF Save, Csi, Becomes, OffScreenFrom
<1>2. /\ Formed(t') /\ (Tight(t) => Tight(t')) /\ t'.in_alt = t.in_alt /\ t'.alt = t.alt
  BY <1>1, SaveCursorFormed DEF Inv
<1>3. main'.grid = main.grid /\ main'.cursor = <<>> /\ {"grid", "cursor"} \subseteq DOMAIN main'
  BY <1>1 DEF Inv
<1>4. Covers'
  BY <1>2, <1>3 DEF Inv, Covers
<1>5. QED
  BY <1>1, <1>2, <1>3, <1>4, TightStays DEF Inv

LEMMA EnterKeeps ==
  ASSUME Inv, NEW save \in BOOLEAN, SetAlternate(save)
  PROVE  Inv' /\ (~strayed => ~strayed')
<1>1. /\ t' = EnterAlt(t, save) /\ main' = (IF t.in_alt THEN main ELSE Left(t, save))
      /\ strayed' = (strayed \/ ~OnScreen(t'))
  BY DEF SetAlternate, Csi, Becomes, OffScreenFrom
<1>2. CASE t.in_alt
  <2>1. t' = t /\ main' = main
    BY <1>1, <1>2 DEF EnterAlt
  <2>2. Formed(t') /\ (Tight(t) => Tight(t')) /\ Covers'
    BY <2>1 DEF Inv, Covers
  <2>3. QED
    BY <1>1, <2>1, <2>2, TightStays DEF Inv
<1>3. CASE ~t.in_alt
  <2>1. /\ Formed(t') /\ (Tight(t) => Tight(t')) /\ t'.alt.grid = t.grid
        /\ save => t'.saved = [col |-> t.col, row |-> t.row, style |-> t.style]
    BY <1>1, <1>3, EnterAltFormed DEF Inv
  <2>2. /\ main'.grid = t.grid /\ {"grid", "cursor"} \subseteq DOMAIN main'
        /\ main'.cursor = IF save THEN <<t.col, t.row, t.style>> ELSE <<>>
    BY <1>1, <1>3 DEF Left
  <2>3. main'.cursor # <<>> => main'.cursor = <<t'.saved.col, t'.saved.row, t'.saved.style>>
    BY <2>1, <2>2
  <2>4. Covers'
    BY <2>1, <2>2, <2>3 DEF Covers
  <2>5. QED
    BY <1>1, <2>1, <2>2, <2>4, TightStays DEF Inv
<1>4. QED
  BY <1>2, <1>3

LEMMA LeaveKeeps ==
  ASSUME Inv, NEW restore \in BOOLEAN, ResetAlternate(restore)
  PROVE  /\ Inv'
         /\ ~strayed /\ (~restore \/ SavedOnScreen) => ~strayed'
         /\ t.in_alt => t'.grid = main.grid
         /\ t.in_alt /\ restore /\ main.cursor # <<>> => main.cursor = <<t'.col, t'.row, t'.style>>
<1>1. /\ t' = LeaveAlt(t, restore) /\ main' = (IF t.in_alt THEN Gone ELSE main)
      /\ strayed' = (strayed \/ ~OnScreen(t'))
  BY DEF ResetAlternate, Csi, Becomes, OffScreenFrom
<1>2. CASE ~t.in_alt
  <2>1. t' = t /\ main' = main
    BY <1>1, <1>2 DEF LeaveAlt
  <2>2. Formed(t') /\ (Tight(t) => Tight(t')) /\ Covers'
    BY <2>1 DEF Inv, Covers
  <2>3. QED
    BY <1>1, <1>2, <2>1, <2>2, TightStays DEF Inv
<1>3. CASE t.in_alt
  <2>1. /\ Formed(t') /\ t'.in_alt = FALSE /\ t'.grid = t.alt.grid
        /\ Tight(t) /\ ~restore => Tight(t')
        /\ Tight(t) /\ SavedOnScreen => Tight(t')
        /\ Tight(t) /\ OnScreen(t') => Tight(t')
        /\ restore => t'.col = t.saved.col /\ t'.row = t.saved.row /\ t'.style = t.saved.style
    BY <1>1, <1>3, LeaveAltFormed DEF Inv, SavedOnScreen
  <2>2. {"grid", "cursor"} \subseteq DOMAIN main'
    BY <1>1, <1>3 DEF Gone
  <2>3. strayed' \/ Tight(t')
    BY <1>1, <2>1 DEF Inv
  <2>4. Tight(t') => OnScreen(t')
    BY DEF Tight, OnScreen
  <2>5. ~strayed /\ (~restore \/ SavedOnScreen) => ~strayed'
    BY <1>1, <2>1, <2>4 DEF Inv
  <2>6. t'.grid = main.grid
    BY <1>3, <2>1 DEF Inv, Covers
  <2>7. restore /\ main.cursor # <<>> => main.cursor = <<t'.col, t'.row, t'.style>>
    BY <1>3, <2>1 DEF Inv, Covers
  <2>8. Covers'
    BY <2>1 DEF Covers
  <2>9. QED
    BY <2>1, <2>2, <2>3, <2>5, <2>6, <2>7, <2>8 DEF Inv
<1>4. QED
  BY <1>2, <1>3

LEMMA ResetKeeps ==
  ASSUME Inv, Reset PROVE Inv' /\ (~strayed => ~strayed')
<1>1. /\ t' = New(t.cols, t.rows) /\ main' = Gone
      /\ strayed' = (strayed \/ ~OnScreen(t'))
  BY DEF Reset, Esc, Plainly, Csi, Becomes, OffScreenFrom
<1>2. Formed(t') /\ Tight(t') /\ t'.in_alt = FALSE
  <2>1. t.cols \in Nat \ {0} /\ t.rows \in Nat \ {0}
    BY DEF Inv, Formed
  <2>2. LET new == New(t.cols, t.rows)
        IN  Formed(new) /\ Tight(new) /\ new.in_alt = FALSE
    BY <2>1, NewTight
  <2>3. QED
    BY <1>1, <2>2
<1>3. Covers' /\ {"grid", "cursor"} \subseteq DOMAIN main'
  BY <1>1, <1>2 DEF Covers, Gone
<1>4. QED
  BY <1>1, <1>2, <1>3, TightStays DEF Inv

LEMMA CanvasPositive ==
  ASSUME NEW size \in Sizes
  PROVE  CanvasCols(size[1]) \in Nat \ {0} /\ size[2] \in Nat \ {0}
<1>1. size[1] \in Nat \ {0} /\ size[2] \in Nat \ {0}
  BY SizesAssumption
<1>2. Min({size[1], Canvas}) \in Nat \ {0}
  BY <1>1, LesserIs, ParametersAssumption
<1>3. QED
  BY <1>1, <1>2 DEF CanvasCols

LEMMA ResizeKeeps ==
  ASSUME Inv, NEW size \in Sizes, Resize(size) PROVE Inv' /\ (~strayed => ~strayed')
<1> DEFINE cols == CanvasCols(size[1])
           rows == size[2]
<1>1. /\ t' = Resized(t, cols, rows) /\ strayed' = (strayed \/ ~OnScreen(t'))
      /\ main' = (IF t.in_alt THEN [main EXCEPT !.grid = Fit(main.grid, cols, rows)] ELSE main)
  BY DEF Resize, Becomes, OffScreenFrom
<1>2. cols \in Nat \ {0} /\ rows \in Nat \ {0}
  BY CanvasPositive
<1> HIDE DEF cols, rows
<1>3. /\ Formed(t') /\ (t.panicked = FALSE => Tight(t'))
      /\ t'.in_alt = t.in_alt /\ t'.saved = t.saved
      /\ t'.alt.grid = Fit(t.alt.grid, cols, rows)
  BY <1>1, <1>2, ResizedTight DEF Inv
<1>4. Tight(t) => Tight(t')
  BY <1>3 DEF Tight
<1>5. {"grid", "cursor"} \subseteq DOMAIN main'
  BY <1>1 DEF Inv
<1>6. Covers'
  <2>1. SUFFICES ASSUME t'.in_alt
        PROVE  /\ t'.alt.grid = main'.grid
               /\ main'.cursor # <<>> => main'.cursor = <<t'.saved.col, t'.saved.row, t'.saved.style>>
    BY DEF Covers
  <2>2. t.in_alt /\ t.alt.grid = main.grid
    BY <1>3, <2>1 DEF Inv, Covers
  <2>3. main'.grid = Fit(main.grid, cols, rows) /\ main'.cursor = main.cursor
    BY <1>1, <2>2 DEF Inv
  <2>4. QED
    BY <1>3, <2>2, <2>3 DEF Inv, Covers
<1>7. QED
  BY <1>1, <1>3, <1>4, <1>5, <1>6, TightStays DEF Inv

LEMMA OutputKeeps ==
  ASSUME Inv, TakeOutput PROVE Inv' /\ (~strayed => ~strayed')
<1>1. t' = [t EXCEPT !.output = <<>>] /\ strayed' = strayed /\ main' = main
  BY DEF TakeOutput
<1>2. Calm(t, t')
  BY <1>1, FieldsSet DEF Inv
<1>3. Covers'
  BY <1>1, <1>2 DEF Calm, Covers, Inv
<1>4. QED
  BY <1>1, <1>2, <1>3 DEF Inv, Calm

-----------------------------------------------------------------------------
(***************************************************************************)
(* The screens, always.                                                    *)
(***************************************************************************)

LeadsOff ==
  \/ \E c \in Columns : CharacterAbsolute(c)
  \/ ~SavedOnScreen /\ (Restore \/ ResetAlternate(TRUE))

LEMMA DispatchKeeps ==
  ASSUME Inv, Dispatches PROVE Inv' /\ (~strayed => ~strayed' \/ LeadsOff)
<1>f. Formed(t)
  BY DEF Inv
<1>1. CASE \E n \in Counts : \/ Move(n) \/ TabForward(n) \/ TabBackward(n)
                             \/ EditLine(n) \/ EditLines(n) \/ Scroll(n)
  BY <1>f, <1>1, CountsQuiet, QuietKeeps
<1>2. CASE \E c \in Columns : CharacterAbsolute(c)
  BY <1>2, AbsoluteKeeps DEF LeadsOff
<1>3. CASE \/ \E c \in Columns, r \in Rows : CursorPosition(c, r)
           \/ \E r \in Rows : LineAbsolute(r)
           \/ \E mode \in 0..2 : Erase(mode)
           \/ \E style \in Styles : SelectRendition(style)
           \/ \E top, last \in Rows : SetMargins(top, last)
           \/ ReportStatus \/ ReportPosition
           \/ \E on \in BOOLEAN : SetMode(on)
  <2>1. Quiet
    BY <1>f, <1>3, OthersQuiet
  <2>2. QED
    BY <2>1, QuietKeeps
<1>4. CASE \E on \in BOOLEAN : SetAlternate(on)
  BY <1>4, EnterKeeps
<1>5. CASE \E on \in BOOLEAN : ResetAlternate(on)
  <2>1. CASE ResetAlternate(TRUE)
    <3>1. Inv' /\ (~strayed /\ SavedOnScreen => ~strayed')
      BY <2>1, LeaveKeeps
    <3>2. QED
      BY <2>1, <3>1 DEF LeadsOff
  <2>2. CASE ResetAlternate(FALSE)
    BY <2>2, LeaveKeeps
  <2>3. QED
    BY <1>5, <2>1, <2>2
<1>6. CASE Save
  BY <1>6, SaveKeeps
<1>7. CASE Restore
  BY <1>7, RestoreKeeps DEF LeadsOff
<1>8. QED
  BY <1>1, <1>2, <1>3, <1>4, <1>5, <1>6, <1>7 DEF Dispatches

LEMMA NextKeeps ==
  ASSUME Inv, Next PROVE Inv' /\ (~strayed => ~strayed' \/ LeadsOff)
<1>f. Formed(t)
  BY DEF Inv
<1>1. CASE (\E b \in Bytes : Utf8Byte(b)) \/ Cp437Byte \/ PrintChar \/ Executes
  BY <1>f, <1>1, CharactersQuiet, QuietKeeps
<1>2. CASE Dispatches
  BY <1>2, DispatchKeeps
<1>3. CASE Escapes
  <2>1. CASE Reset
    BY <2>1, ResetKeeps
  <2>2. CASE ~Reset
    <3>1. \/ ReverseIndex \/ Index \/ NextLine \/ Title
          \/ \E set \in {"ascii", "line"} : DesignateG0(set) \/ DesignateG1(set)
      BY <1>3, <2>2 DEF Escapes
    <3>2. Quiet
      BY <1>f, <3>1, EscapesQuiet
    <3>3. QED
      BY <3>2, QuietKeeps
  <2>3. QED
    BY <2>1, <2>2
<1>4. CASE TakeOutput
  BY <1>4, OutputKeeps
<1>5. CASE \E size \in Sizes : Resize(size)
  BY <1>5, ResizeKeeps
<1>6. QED
  BY <1>1, <1>2, <1>3, <1>4, <1>5 DEF Next

LEMMA StutterKeeps == Inv /\ UNCHANGED vars => Inv'
  BY DEF Inv, Formed, Tight, Covers, vars

LEMMA InitHolds == Init => Inv
<1> SUFFICES ASSUME Init PROVE Inv
  OBVIOUS
<1>1. PICK size \in Sizes : t = New(CanvasCols(size[1]), size[2])
  BY DEF Init
<1>2. Formed(t) /\ Tight(t) /\ t.in_alt = FALSE
  <2>1. CanvasCols(size[1]) \in Nat \ {0} /\ size[2] \in Nat \ {0}
    BY <1>1, CanvasPositive
  <2>2. QED
    BY <1>1, <2>1, NewTight
<1>3. {"grid", "cursor"} \subseteq DOMAIN main
  BY DEF Init, Gone
<1>4. QED
  BY <1>2, <1>3 DEF Inv, Covers

\* Wherever the remote program puts the cursor, all lines have the width of
\* the window, both screens have its height at least, and the margins lie
\* inside; and exactly its height until the cursor leaves the screen.  Under
\* the alternate screen lies the main one (state.rs 280-492).
THEOREM Screens == Spec => []Inv
<1>1. Inv /\ [Next]_vars => Inv'
  BY NextKeeps, StutterKeeps
<1>2. QED
  BY <1>1, InitHolds, PTL DEF Spec

\* Nothing panics, and both screens have the size of the window, while the
\* cursor has never left the screen, for windows and parameters of any size
\* (the methods that index the grid, state.rs 280-492, after any resize).
THEOREM ScreensSound == Spec => []Sound
<1>1. Inv => Sound
  <2> SUFFICES ASSUME Inv, ~strayed PROVE Sound
    BY DEF Sound
  <2>1. Formed(t) /\ Tight(t)
    BY DEF Inv
  <2>2. ASSUME NEW g \in Screen(t.cols), Len(g) = t.rows PROVE Shaped(t, g)
    <3>1. g \in Seq(Line(t.cols)) /\ DOMAIN g = 1..Len(g) /\ t.cols \in Nat
      BY <2>1, <2>2, LenProperties DEF Screen, Formed
    <3>2. ASSUME NEW r \in DOMAIN g PROVE Len(g[r]) = t.cols
      <4>1. g[r] \in [1..t.cols -> Cell]
        BY <3>1, ElementOfSeq DEF Line
      <4>2. g[r] \in Seq(Cell) /\ DOMAIN g[r] = 1..t.cols
        BY <3>1, <4>1, SeqDef
      <4>3. QED
        BY <3>1, <4>2, LenProperties
    <3>3. QED
      BY <2>2, <3>2 DEF Shaped
  <2>3. t.grid \in Screen(t.cols) /\ t.alt.grid \in Screen(t.cols)
    BY <2>1 DEF Formed
  <2>4. Shaped(t, t.grid) /\ Shaped(t, t.alt.grid)
    BY <2>1, <2>2, <2>3 DEF Tight
  <2>5. t.top <= t.bottom /\ t.bottom < t.rows
    BY <2>1 DEF Formed
  <2>6. OnScreen([t EXCEPT !.col = t.alt.col, !.row = t.alt.row])
    BY <2>1 DEF OnScreen, Tight, Formed, Fields
  <2>7. ~t.panicked
    BY <2>1 DEF Tight
  <2>8. QED
    BY <2>4, <2>5, <2>6, <2>7 DEF Sound
<1>2. QED
  BY <1>1, Screens, PTL

\* Only CHA, and taking back a cursor that was saved on a larger screen, ever
\* move the cursor off the screen, for any parameters and sizes.
THEOREM TwoWaysOff == Spec => StaysOnScreen
<1>1. Inv /\ [Next]_vars =>
        [~strayed /\ strayed'
           => \/ \E c \in Columns : CharacterAbsolute(c)
              \/ ~SavedOnScreen /\ (Restore \/ ResetAlternate(TRUE))]_vars
  BY NextKeeps DEF LeadsOff
<1>2. QED
  BY <1>1, Screens, PTL DEF Spec, StaysOnScreen

\* The main screen lies untouched under the alternate one, through any number
\* of resizes (enter_alt_screen, resize).
THEOREM MainScreenSurvives == Spec => []MainScreenKept
<1>1. Inv => MainScreenKept
  BY DEF Inv, Covers, MainScreenKept
<1>2. QED
  BY <1>1, Screens, PTL

\* Leaving by ?1049l gives back that screen and the cursor saved on entering.
THEOREM GivenBack == Spec => BackAsItWas
<1>1. Inv /\ [Next]_vars =>
        [t.in_alt /\ ResetAlternate(TRUE)
           => /\ t'.grid = main.grid
              /\ main.cursor # <<>> => main.cursor = <<t'.col, t'.row, t'.style>>]_vars
  BY LeaveKeeps
<1>2. QED
  BY <1>1, Screens, PTL DEF Spec, BackAsItWas

LEMMA RegionSteps ==
  ASSUME Formed(t),
         \/ LineFeed \/ Index \/ NextLine \/ ReverseIndex \/ PrintChar \/ Cp437Byte
         \/ \E n \in Counts : Scroll(n)
  PROVE  WritesAtCursor(t, t')
<1>1. CASE LineFeed
  <2>1. t' = Loose(AdvanceRow(t))
    BY <1>1 DEF LineFeed, Plainly, Csi, Becomes
  <2>2. Formed(AdvanceRow(t)) /\ Undisturbed(t, AdvanceRow(t))
    BY AdvanceRowCalm DEF Calm
  <2>3. t'.grid = AdvanceRow(t).grid
    BY <2>1, <2>2, LooseFields
  <2>4. QED
    BY <2>2, <2>3 DEF Undisturbed, WritesAtCursor
<1>2. CASE Index
  <2>1. t' = AdvanceRow(t)
    BY <1>2 DEF Index, Esc, Plainly, Csi, Becomes
  <2>2. QED
    BY <2>1, AdvanceRowCalm DEF Undisturbed, WritesAtCursor
<1>3. CASE NextLine
  <2> DEFINE q == [t EXCEPT !.col = 0]
  <2>1. t' = AdvanceRow(q)
    BY <1>3 DEF NextLine, Esc, Plainly, Csi, Becomes
  <2>2. Formed(q)
    BY Columnless DEF Calm
  <2>3. q.grid = t.grid /\ q.rows = t.rows /\ q.top = t.top /\ q.bottom = t.bottom
    BY DEF Formed, Fields
  <2> HIDE DEF q
  <2>4. Undisturbed(q, t')
    BY <2>1, <2>2, AdvanceRowCalm
  <2>5. QED
    BY <2>3, <2>4 DEF Undisturbed, WritesAtCursor, Outside
<1>4. CASE ReverseIndex
  <2>1. t' = ScrollDown(t, 1) \/ t' = [t EXCEPT !.row = Less(t.row, 1)]
    BY <1>4 DEF ReverseIndex, Esc, Plainly, Csi, Becomes
  <2>2. Undisturbed(t, ScrollDown(t, 1))
    BY ScrollsCalm
  <2>3. [t EXCEPT !.row = Less(t.row, 1)].grid = t.grid
    BY DEF Formed, Fields
  <2>4. QED
    BY <2>1, <2>2, <2>3 DEF Undisturbed, WritesAtCursor
<1>5. CASE PrintChar
  <2> DEFINE ch == Mapped(t.charset, "q")
  <2>1. ch \in Char
    BY DEF Mapped, Char
  <2>2. t' = PutChar(t, ch)
    BY <1>5 DEF PrintChar, Plainly, Csi, Becomes
  <2> HIDE DEF ch
  <2>3. QED
    BY <2>1, <2>2, PutCharCalm
<1>6. CASE Cp437Byte
  <2>1. t' = PutChar(t, "e-acute") /\ "e-acute" \in Char
    BY <1>6 DEF Cp437Byte, Plainly, Csi, Becomes, Char
  <2>2. QED
    BY <2>1, PutCharCalm
<1>7. CASE \E n \in Counts : Scroll(n)
  <2>1. PICK n \in Counts : Scroll(n)
    BY <1>7
  <2>2. n \in Nat
    BY ParametersAssumption
  <2>3. t' = ScrollUp(t, n) \/ t' = ScrollDown(t, n)
    BY <2>1 DEF Scroll, Csi, Becomes
  <2>4. Undisturbed(t, ScrollUp(t, n)) /\ Undisturbed(t, ScrollDown(t, n))
    BY <2>2, ScrollsCalm
  <2>5. QED
    BY <2>3, <2>4 DEF Undisturbed, WritesAtCursor
<1>8. QED
  BY <1>1, <1>2, <1>3, <1>4, <1>5, <1>6, <1>7

\* What scrolls the region leaves all lines outside it alone, in windows of
\* any size, with any margins and counts.
THEOREM RegionHolds == Spec => MarginsHold
<1>1. Inv /\ [Next]_vars =>
        [/\ LineFeed \/ Index \/ NextLine \/ ReverseIndex \/ PrintChar \/ Cp437Byte
              \/ (\E n \in Counts : Scroll(n))
           => \A r \in Outside(t) : t'.grid[r] = t.grid[r] \/ r = t'.row + 1]_vars
  <2>1. ASSUME Inv,
               \/ LineFeed \/ Index \/ NextLine \/ ReverseIndex \/ PrintChar \/ Cp437Byte
               \/ \E n \in Counts : Scroll(n)
        PROVE  \A r \in Outside(t) : t'.grid[r] = t.grid[r] \/ r = t'.row + 1
    BY <2>1, RegionSteps DEF Inv, WritesAtCursor
  <2>2. QED
    BY <2>1
<1>2. QED
  BY <1>1, Screens, PTL DEF Spec, MarginsHold

-----------------------------------------------------------------------------
(***************************************************************************)
(* The bytes.                                                              *)
(***************************************************************************)

LEMMA Codes ==
  /\ C1 \in Bytes /\ C2 \in Bytes /\ Cont \in Bytes
  /\ C1 # C2 /\ C1 # Cont /\ C2 # Cont
  /\ ContinuationCount(C1) = 0 /\ ContinuationCount(C2) = 1
  /\ \A b \in Bytes : ContinuationCount(b) \in Nat
  BY DEF Bytes, C1, C2, Cont, Lead2, Lead3, Lead4, ContinuationCount

\* Everything but a byte above 0x7f ends the character or leaves it alone.
LEMMA OthersPass ==
  ASSUME Next, \A b \in Bytes : ~Utf8Byte(b)
  PROVE  AsciiPasses \/ UNCHANGED utf8
<1>1. CASE Cp437Byte \/ PrintChar
  BY <1>1 DEF Cp437Byte, PrintChar, Plainly, Csi
<1>2. CASE Executes
  BY <1>2 DEF Executes, BackSpace, HorizontalTab, LineFeed, CarriageReturn, ShiftOut, ShiftIn,
              Plainly, Csi
<1>3. CASE Dispatches
  <2>1. CASE \E n \in Counts : \/ Move(n) \/ TabForward(n) \/ TabBackward(n)
                               \/ EditLine(n) \/ EditLines(n) \/ Scroll(n)
    BY <2>1 DEF Move, TabForward, TabBackward, EditLine, EditLines, Scroll, Csi
  <2>2. CASE \/ \E c \in Columns : CharacterAbsolute(c)
             \/ \E c \in Columns, r \in Rows : CursorPosition(c, r)
             \/ \E r \in Rows : LineAbsolute(r)
             \/ \E mode \in 0..2 : Erase(mode)
             \/ \E style \in Styles : SelectRendition(style)
             \/ \E top, last \in Rows : SetMargins(top, last)
    BY <2>2 DEF CharacterAbsolute, CursorPosition, LineAbsolute, Erase, SelectRendition,
                SetMargins, Csi
  <2>3. CASE \/ ReportStatus \/ ReportPosition \/ Save \/ Restore
             \/ \E on \in BOOLEAN : SetMode(on) \/ SetAlternate(on) \/ ResetAlternate(on)
    BY <2>3 DEF ReportStatus, ReportPosition, Save, Restore, SetMode, SetAlternate,
                ResetAlternate, Csi
  <2>4. QED
    BY <1>3, <2>1, <2>2, <2>3 DEF Dispatches
<1>4. CASE Escapes
  BY <1>4 DEF Escapes, ReverseIndex, Index, NextLine, Reset, Title, DesignateG0, DesignateG1,
              Esc, Plainly, Csi
<1>5. CASE TakeOutput \/ \E size \in Sizes : Resize(size)
  BY <1>5 DEF TakeOutput, Resize
<1>6. QED
  BY <1>1, <1>2, <1>3, <1>4, <1>5 DEF Next

LEMMA WholeMissing ==
  ASSUME Utf8Inv
  PROVE  /\ Whole(heard) <=> Missing = 0
         /\ heard = <<C2>> => ~Whole(heard)
<1>1. Len(heard) \in Nat /\ (heard # <<>> => heard[1] \in Bytes)
  <2>1. heard \in Seq(Bytes)
    BY DEF Utf8Inv
  <2>2. Len(heard) \in Nat /\ (heard # <<>> => Len(heard) # 0)
    BY <2>1, LenProperties, EmptySeq
  <2>3. heard # <<>> => 1 \in 1..Len(heard)
    BY <2>2
  <2>4. QED
    BY <2>1, <2>2, <2>3, ElementOfSeq
<1>2. heard # <<>> => ContinuationCount(heard[1]) \in Nat
  BY <1>1, Codes
<1>3. Whole(heard) <=> Missing = 0
  BY <1>1, <1>2 DEF Whole, Missing
<1>4. heard = <<C2>> => ~Whole(heard)
  <2>1. Len(<<C2>>) = 1 /\ <<C2>>[1] = C2 /\ <<C2>> # <<>>
    OBVIOUS
  <2>2. QED
    BY <2>1, Codes DEF Whole
<1>5. QED
  BY <1>3, <1>4

LEMMA AppendToShort ==
  ASSUME NEW S, NEW x \in S, NEW y \in S
  PROVE  Append(<<>>, x) = <<x>> /\ Append(<<x>>, y) = <<x, y>>
<1>1. /\ <<>> \in Seq(S) /\ <<x>> \in Seq(S) /\ <<x, y>> \in Seq(S)
      /\ Len(<<>>) = 0 /\ Len(<<x>>) = 1 /\ Len(<<x, y>>) = 2
      /\ <<x>>[1] = x /\ <<x, y>>[1] = x /\ <<x, y>>[2] = y
  OBVIOUS
<1>2. Append(<<>>, x) = <<x>>
  <2> DEFINE a == Append(<<>>, x)
  <2>1. a \in Seq(S) /\ Len(a) = 1 /\ a[1] = x
    BY <1>1, AppendProperties
  <2>2. \A i \in 1..1 : a[i] = <<x>>[i]
    BY <1>1, <2>1
  <2> HIDE DEF a
  <2>3. a = <<x>>
    BY <1>1, <2>1, <2>2, SeqEqual
  <2>4. QED
    BY <2>3 DEF a
<1>3. Append(<<x>>, y) = <<x, y>>
  <2> DEFINE a == Append(<<x>>, y)
             both == <<x, y>>
  <2>1. a \in Seq(S) /\ Len(a) = 2 /\ a[1] = x /\ a[2] = y
    <3>1. /\ Append(<<x>>, y) \in Seq(S) /\ Len(Append(<<x>>, y)) = Len(<<x>>) + 1
          /\ \A i \in 1..Len(<<x>>) : Append(<<x>>, y)[i] = <<x>>[i]
          /\ Append(<<x>>, y)[Len(<<x>>) + 1] = y
      BY <1>1, AppendProperties
    <3>2. QED
      BY <1>1, <3>1
  <2>2. both \in Seq(S) /\ Len(both) = 2 /\ both[1] = x /\ both[2] = y
    BY <1>1
  <2> HIDE DEF a, both
  <2>3. \A i \in 1..Len(a) : a[i] = both[i]
    <3>1. \A i \in 1..2 : i = 1 \/ i = 2
      OBVIOUS
    <3>2. QED
      BY <2>1, <2>2, <3>1
  <2>4. a = both
    BY <2>1, <2>2, <2>3, SeqEqual
  <2>5. QED
    BY <2>4 DEF a, both
<1>4. QED
  BY <1>2, <1>3

LEMMA LongerHeard ==
  ASSUME NEW h \in Seq(Bytes), h # <<>>, NEW b \in Bytes
  PROVE  /\ Append(h, b) \in Seq(Bytes) /\ Append(h, b)[1] = h[1]
         /\ Len(Append(h, b)) = Len(h) + 1 /\ Append(h, b) # <<>>
         /\ h \o <<b>> = Append(h, b)
         /\ Append(h, b) # <<C1>> /\ Append(h, b) # <<C2>>
         /\ Append(h, b) = <<C2, C1>> => h = <<C2>>
<1>1. Len(h) \in Nat /\ Len(h) # 0
  BY LenProperties, EmptySeq
<1>2. 1 \in 1..Len(h)
  BY <1>1
<1>3. /\ Append(h, b) \in Seq(Bytes) /\ Len(Append(h, b)) = Len(h) + 1
      /\ \A i \in 1..Len(h) : Append(h, b)[i] = h[i]
  BY AppendProperties
<1>4. Append(h, b)[1] = h[1]
  BY <1>2, <1>3
<1>5. h \o <<b>> = Append(h, b)
  BY AppendIsConcat
<1>6. Len(<<C1>>) = 1 /\ Len(<<C2>>) = 1 /\ Len(<<>>) = 0 /\ Len(<<C2, C1>>) = 2
  OBVIOUS
<1>7. Append(h, b) # <<>> /\ Append(h, b) # <<C1>> /\ Append(h, b) # <<C2>>
  <2> DEFINE a == Append(h, b)
             n == Len(h)
  <2>1. Len(a) = n + 1 /\ n \in Nat /\ n # 0
    BY <1>1, <1>3
  <2> HIDE DEF a, n
  <2>2. Len(a) # 1 /\ Len(a) # 0
    BY <2>1
  <2>3. a # <<>> /\ a # <<C1>> /\ a # <<C2>>
    BY <1>6, <2>2, Zenon
  <2>4. QED
    BY <2>3 DEF a
<1>8. ASSUME Append(h, b) = <<C2, C1>> PROVE h = <<C2>>
  <2>1. Len(h) = 1
    <3> DEFINE n == Len(h)
    <3>1. n + 1 = 2 /\ n \in Nat
      BY <1>1, <1>3, <1>6, <1>8, Zenon
    <3> HIDE DEF n
    <3>2. n = 1
      BY <3>1
    <3>3. QED
      BY <3>2 DEF n
  <2>2. h[1] = C2
    BY <1>4, <1>8
  <2>3. h = [i \in 1..1 |-> h[i]]
    BY <2>1, LenProperties
  <2>4. <<C2>> = [i \in 1..1 |-> C2]
    OBVIOUS
  <2>5. QED
    BY <2>2, <2>3, <2>4
<1>9. QED
  BY <1>3, <1>4, <1>5, <1>7, <1>8

\* The first byte of a character.
LEMMA BeginsCharacter ==
  ASSUME Utf8Inv, NEW b \in Bytes, Utf8Byte(b), Whole(heard) PROVE Utf8Inv'
<1>1. /\ heard' = <<b>> /\ b # Cont /\ fed # <<CSI>> /\ ProcessByte(b)
  BY DEF Utf8Byte, MayFollow, Introduced
<1>2. held = FALSE /\ conts = 0
  BY <1>1, WholeMissing DEF Utf8Inv
<1>3. /\ <<b>> \in Seq(Bytes) /\ <<b>> # <<>> /\ <<b>>[1] = b /\ Len(<<b>>) = 1
      /\ ContinuationCount(b) \in Nat
  BY Codes
<1>4. Missing' = ContinuationCount(b)
  BY <1>1, <1>3 DEF Missing
<1>5. <<b>> # <<C2, C1>> /\ (<<b>> = <<C1>> => b = C1) /\ (<<b>> = <<C2>> => b = C2)
  OBVIOUS
<1>6. CASE b = C2
  <2>1. held' = TRUE /\ conts' = 0 /\ fed' = <<>>
    BY <1>1, <1>2, <1>6, Codes DEF ProcessByte, Hold
  <2>2. QED
    BY <1>1, <1>3, <1>4, <1>6, <2>1 DEF Utf8Inv
<1>7. CASE b = C1
  <2>1. held' = FALSE /\ conts' = 0 /\ fed' = <<CSI>>
    BY <1>1, <1>2, <1>7, Codes DEF ProcessByte, Control
  <2>2. QED
    BY <1>1, <1>3, <1>4, <1>7, <2>1 DEF Utf8Inv
<1>8. CASE b # C2 /\ b # C1
  <2>1. held' = FALSE /\ conts' = ContinuationCount(b) /\ fed' = <<b>>
    BY <1>1, <1>2, <1>8 DEF ProcessByte, Pass, Track
  <2>2. QED
    BY <1>1, <1>3, <1>4, <1>5, <1>8, <2>1 DEF Utf8Inv
<1>9. QED
  BY <1>6, <1>7, <1>8

\* The bytes after it.
LEMMA GoesOn ==
  ASSUME Utf8Inv, NEW b \in Bytes, Utf8Byte(b), ~Whole(heard) PROVE Utf8Inv'
<1>1. /\ heard' = Append(heard, b) /\ b \in {C1, Cont} /\ fed # <<CSI>> /\ ProcessByte(b)
  BY DEF Utf8Byte, MayFollow, Introduced
<1>2. heard # <<>> /\ heard \in Seq(Bytes) /\ heard[1] # Cont /\ Len(heard) \in Nat
  BY LenProperties DEF Whole, Utf8Inv
<1>3. /\ heard' \in Seq(Bytes) /\ heard'[1] = heard[1] /\ heard' # <<>>
      /\ Len(heard') = Len(heard) + 1 /\ heard \o <<b>> = heard'
      /\ heard' # <<C1>> /\ heard' # <<C2>> /\ (heard' = <<C2, C1>> => heard = <<C2>>)
  BY <1>1, <1>2, LongerHeard
<1>4. ContinuationCount(heard[1]) \in Nat
  <2>1. 1 \in 1..Len(heard)
    BY <1>2, EmptySeq
  <2>2. QED
    BY <1>2, <2>1, ElementOfSeq, Codes
<1>5. Missing \in Nat /\ Missing # 0
  BY WholeMissing DEF Utf8Inv
<1>6. Missing' = Missing - 1 /\ Missing' \in Nat
  <2>1. Missing = 1 + ContinuationCount(heard[1]) - Len(heard)
    BY <1>2 DEF Missing
  <2>2. Missing' = 1 + ContinuationCount(heard[1]) - (Len(heard) + 1)
    BY <1>3 DEF Missing
  <2>3. QED
    BY <1>2, <1>4, <1>5, <2>1, <2>2
<1>7. CASE heard = <<C2>>
  <2>1. fed = <<>> /\ held = TRUE /\ conts = 0
    BY <1>7, <1>2, Codes DEF Utf8Inv
  <2>2. Missing' = 0
    <3>1. Len(<<C2>>) = 1 /\ <<C2>>[1] = C2 /\ <<C2>> # <<>>
      OBVIOUS
    <3>2. Missing = 1
      BY <1>7, <3>1, Codes DEF Missing
    <3>3. QED
      BY <1>6, <3>2
  <2>3. CASE b = C1
    <3>1. held' = FALSE /\ conts' = 0 /\ fed' = Append(<<>>, CSI)
      BY <1>1, <2>1, <2>3 DEF ProcessByte, Control
    <3>2. Append(<<>>, CSI) = <<CSI>> /\ Append(<<C2>>, C1) = <<C2, C1>>
      <4> DEFINE all == {C2, C1, CSI}
      <4>1. C2 \in all /\ C1 \in all /\ CSI \in all
        OBVIOUS
      <4> HIDE DEF all
      <4>2. QED
        BY <4>1, AppendToShort
    <3>3. heard' = <<C2, C1>>
      BY <1>1, <1>7, <2>3, <3>2
    <3>4. QED
      BY <1>2, <1>3, <1>6, <3>1, <3>2, <3>3 DEF Utf8Inv
  <2>4. CASE b = Cont
    <3>1. held' = FALSE /\ conts' = 0 /\ fed' = <<>> \o <<C2, b>>
      BY <1>1, <2>1, <2>4, Codes DEF ProcessByte, Pass
    <3>2. <<>> \o <<C2, b>> = <<C2, b>> /\ Append(<<C2>>, b) = <<C2, b>>
      <4>1. <<C2, b>> \in Seq({C2, b})
        OBVIOUS
      <4>2. <<>> \o <<C2, b>> = <<C2, b>>
        BY <4>1, ConcatEmptySeq
      <4>3. Append(<<C2>>, b) = <<C2, b>>
        <5> DEFINE both == {C2, b}
        <5>1. C2 \in both /\ b \in both
          OBVIOUS
        <5> HIDE DEF both
        <5>2. QED
          BY <5>1, AppendToShort
      <4>4. QED
        BY <4>2, <4>3
    <3>3. heard' = <<C2, b>> /\ <<C2, b>> # <<C2, C1>>
      BY <1>1, <1>7, <2>4, <3>2, Codes
    <3>4. QED
      BY <1>2, <1>3, <1>6, <2>2, <3>1, <3>2, <3>3 DEF Utf8Inv
  <2>5. QED
    BY <1>1, <2>3, <2>4
<1>8. CASE heard # <<C2>>
  <2>1. fed = heard /\ held = FALSE /\ conts = Missing
    BY <1>1, <1>8 DEF Utf8Inv
  <2>2. held' = FALSE /\ conts' = conts - 1 /\ fed' = fed \o <<b>>
    BY <1>1, <1>5, <2>1 DEF ProcessByte, Pass, Track
  <2>3. heard' \notin {<<C1>>, <<C2, C1>>, <<C2>>}
    BY <1>3, <1>8
  <2>4. QED
    BY <1>2, <1>3, <1>6, <2>1, <2>2, <2>3 DEF Utf8Inv
<1>9. QED
  BY <1>7, <1>8

LEMMA NothingHeard ==
  ASSUME heard = <<>>, fed = <<>>, held = FALSE, conts = 0 PROVE Utf8Inv
<1>1. <<>> \in Seq(Bytes) /\ <<>> # <<C1>> /\ <<>> # <<C2, C1>> /\ <<>> # <<C2>>
  OBVIOUS
<1>2. Missing = 0
  BY DEF Missing
<1>3. QED
  BY <1>1, <1>2 DEF Utf8Inv

\* What the parser has been fed is what was heard, or the C2 that may yet
\* encode a control is held back, or it was a control.
LEMMA Heard == Spec => []Utf8Inv
<1>1. Init => Utf8Inv
  BY NothingHeard DEF Init
<1>2. Utf8Inv /\ [Next]_vars => Utf8Inv'
  <2>1. ASSUME Utf8Inv, Next PROVE Utf8Inv'
    <3>1. CASE \E b \in Bytes : Utf8Byte(b)
      <4>1. PICK b \in Bytes : Utf8Byte(b)
        BY <3>1
      <4>2. QED
        BY <2>1, <4>1, BeginsCharacter, GoesOn
    <3>2. CASE AsciiPasses
      <4>1. heard' = <<>> /\ fed' = <<>> /\ held' = FALSE /\ conts' = 0
        BY <3>2 DEF AsciiPasses
      <4>2. Missing' = 0
        BY <4>1 DEF Missing
      <4>3. <<>> \in Seq(Bytes) /\ <<>> # <<C1>> /\ <<>> # <<C2, C1>> /\ <<>> # <<C2>>
        OBVIOUS
      <4>4. QED
        BY <4>1, <4>2, <4>3 DEF Utf8Inv
    <3>3. CASE UNCHANGED utf8
      BY <2>1, <3>3 DEF Utf8Inv, Missing, utf8
    <3>4. QED
      BY <2>1, <3>1, <3>2, <3>3, OthersPass
  <2>2. ASSUME Utf8Inv, UNCHANGED vars PROVE Utf8Inv'
    BY <2>2 DEF Utf8Inv, Missing, vars
  <2>3. QED
    BY <2>1, <2>2
<1>3. QED
  BY <1>1, <1>2, PTL DEF Spec

\* Well formed text reaches the parser unchanged, and a C1 control becomes
\* its escape sequence, wherever the reads are cut (process_byte).
THEOREM TextIntact == Spec => []Utf8Intact
<1>1. Utf8Inv => Utf8Intact
  <2> SUFFICES ASSUME Utf8Inv PROVE Utf8Intact
    OBVIOUS
  <2>1. CASE heard \in {<<C1>>, <<C2, C1>>}
    <3>1. fed = <<CSI>> /\ held = FALSE
      <4>1. <<C1>> # <<C2>> /\ <<C2, C1>> # <<C2>>
        BY Codes
      <4>2. QED
        BY <2>1, <4>1 DEF Utf8Inv
    <3>2. QED
      BY <2>1, <3>1 DEF Utf8Intact
  <2>2. CASE heard = <<C2>> /\ heard \notin {<<C1>>, <<C2, C1>>}
    <3>1. fed = <<>> /\ held = TRUE
      BY <2>2 DEF Utf8Inv
    <3>2. <<>> \o <<C2>> = <<C2>>
      OBVIOUS
    <3>3. QED
      BY <2>2, <3>1, <3>2 DEF Utf8Intact
  <2>3. CASE heard # <<C2>> /\ heard \notin {<<C1>>, <<C2, C1>>}
    <3>1. fed = heard /\ held = FALSE /\ heard \in Seq(Bytes)
      BY <2>3 DEF Utf8Inv
    <3>2. heard \o <<>> = heard
      BY <3>1, ConcatEmptySeq
    <3>3. QED
      BY <2>3, <3>1, <3>2 DEF Utf8Intact
  <2>4. QED
    BY <2>1, <2>2, <2>3
<1>2. QED
  BY <1>1, Heard, PTL
=============================================================================
