-------------------------- MODULE SessionLogProofs --------------------------
(***************************************************************************)
(* Proofs about SessionLog, for every number of tabs, days and writes, any *)
(* limit and both kinds of format: what a session was told is logged is in *)
(* the log once and in order, in the file of its day, and in an HTML log   *)
(* inside a page of the session.                                           *)
(***************************************************************************)
EXTENDS SessionLog, TLAPS, SequenceTheorems

-----------------------------------------------------------------------------
(***************************************************************************)
(* The invariants.                                                         *)
(***************************************************************************)

Text == [kind : {"head", "foot", "output"}, by : Logs, n : Nat, day : Nat]
Writer == [writer : Files, date : 0..MaxDay, seq : Nat, size : Nat, html : BOOLEAN]

TypeOK ==
  /\ day \in 1..MaxDay /\ writes \in 0..MaxWrites
  /\ disk \in [Files -> Seq(Text)]
  /\ log \in [Logs -> Writer]
  /\ logged \in [Logs -> Seq(Nat)]
  /\ refused \in [Logs -> SUBSET (Nat \X Nat)]

\* No tab is ahead of the clock, and one that has looked at it today writes
\* to today's file or could not open it.
Clock ==
  \A l \in Logs :
    /\ log[l].date <= day /\ log[l].writer[1] <= day /\ log[l].writer[2] = 0
    /\ log[l].date = day =>
         log[l].writer[1] = day \/ \E m \in 1..writes : <<m, day>> \in refused[l]

\* Output of a tab is in no file after the one it has open.
Placed ==
  \A f \in Files : \A i \in DOMAIN disk[f] :
    disk[f][i].kind = "output" =>
      /\ disk[f][i].n \in 1..writes
      /\ f[1] <= log[disk[f][i].by].writer[1] /\ f[2] = 0

\* A tab that wrote its header to the file it has open has not left the page.
Paged ==
  Html => \A l \in Logs : log[l].html =>
    \E h \in DOMAIN disk[log[l].writer] :
      /\ disk[log[l].writer][h] = Header(l)
      /\ \A k \in DOMAIN disk[log[l].writer] : h <= k => disk[log[l].writer][k] # Footer(l)

Inv == TypeOK /\ Clock /\ Placed /\ Paged /\ LogIsComplete /\ RightDay /\ InsidePage

-----------------------------------------------------------------------------
(***************************************************************************)
(* What the operations do to the disk.                                     *)
(***************************************************************************)

\* One file longer, at its end, by what one tab writes; a write puts its
\* output last, and in an HTML log right behind a header, or in the page the
\* tab has open.
Longer(l, before, after) ==
  /\ after \in [Files -> Seq(Text)]
  /\ \A f \in Files : /\ Len(before[f]) <= Len(after[f])
                      /\ \A i \in 1..Len(before[f]) : after[f][i] = before[f][i]

Wrote(l, w) ==
  /\ Longer(l, disk, disk')
  /\ \A f \in Files : \A i \in 1..Len(disk'[f]) : i > Len(disk[f]) =>
       \/ disk'[f][i] = Footer(l)
       \/ disk'[f][i] = Header(l)
       \/ f = w /\ i = Len(disk'[w]) /\ disk'[f][i] = Output(l, writes', day)
  /\ Len(disk'[w]) > Len(disk[w])
  /\ disk'[w][Len(disk'[w])] = Output(l, writes', day)
  /\ Html =>
       \/ /\ Len(disk'[w]) - 1 > Len(disk[w])
          /\ disk'[w][Len(disk'[w]) - 1] = Header(l)
       \/ /\ Len(disk'[w]) = Len(disk[w]) + 1
          /\ w = log[l].writer /\ log[l].html

LEMMA TextsAre ==
  ASSUME NEW l \in Logs, NEW n \in Nat, NEW d \in Nat
  PROVE  Header(l) \in Text /\ Footer(l) \in Text /\ Output(l, n, d) \in Text
BY DEF Header, Footer, Output, Text

\* More at the end of one file.
LEMMA OneLonger ==
  ASSUME NEW content \in [Files -> Seq(Text)], NEW w \in Files, NEW text \in Seq(Text),
         NEW after, after = [content EXCEPT ![w] = @ \o text]
  PROVE  /\ after \in [Files -> Seq(Text)]
         /\ \A f \in Files : f # w => after[f] = content[f]
         /\ Len(after[w]) = Len(content[w]) + Len(text)
         /\ \A i \in 1..Len(content[w]) : after[w][i] = content[w][i]
         /\ \A i \in 1..Len(text) : after[w][Len(content[w]) + i] = text[i]
<1>1. /\ content[w] \o text \in Seq(Text)
      /\ Len(content[w] \o text) = Len(content[w]) + Len(text)
      /\ \A i \in 1..(Len(content[w]) + Len(text)) :
           (content[w] \o text)[i] = IF i <= Len(content[w]) THEN content[w][i] ELSE text[i - Len(content[w])]
  BY ConcatProperties
<1>2. Len(content[w]) \in Nat /\ Len(text) \in Nat
  BY LenProperties
<1>3. /\ after \in [Files -> Seq(Text)] /\ after[w] = content[w] \o text
      /\ \A f \in Files : f # w => after[f] = content[f]
  BY <1>1
<1>4. \A i \in 1..Len(content[w]) : after[w][i] = content[w][i]
  BY <1>1, <1>2, <1>3
<1>5. ASSUME NEW i \in 1..Len(text)
      PROVE  after[w][Len(content[w]) + i] = text[i]
  <2>1. /\ Len(content[w]) + i \in 1..(Len(content[w]) + Len(text))
        /\ ~(Len(content[w]) + i <= Len(content[w])) /\ (Len(content[w]) + i) - Len(content[w]) = i
    BY <1>2
  <2> QED BY <2>1, <1>1, <1>3
<1> QED BY <1>1, <1>3, <1>4, <1>5

\* Closing a page adds a footer to the file that was open, and to no other.
LEMMA ClosedIs ==
  ASSUME TypeOK, NEW l \in Logs
  PROVE  /\ Longer(l, disk, Closed(l))
         /\ \A f \in Files : \A i \in 1..Len(Closed(l)[f]) :
              i > Len(disk[f]) => Closed(l)[f][i] = Footer(l)
<1>t. disk \in [Files -> Seq(Text)] /\ log[l].writer \in Files /\ \A f \in Files : Len(disk[f]) \in Nat
  BY LenProperties DEF TypeOK, Writer
<1>1. CASE ~log[l].html
  BY <1>1, <1>t DEF Closed, Longer
<1>2. CASE log[l].html
  <2>1. <<Footer(l)>> \in Seq(Text) /\ Len(<<Footer(l)>>) = 1 /\ <<Footer(l)>>[1] = Footer(l)
    BY TextsAre
  <2>2. Closed(l) = [disk EXCEPT ![log[l].writer] = @ \o <<Footer(l)>>]
    <3>1. Append(disk[log[l].writer], Footer(l)) = disk[log[l].writer] \o <<Footer(l)>>
      BY <1>t, TextsAre, AppendIsConcat
    <3> QED BY <1>2, <3>1 DEF Closed
  <2>3. /\ Closed(l) \in [Files -> Seq(Text)]
        /\ \A f \in Files : f # log[l].writer => Closed(l)[f] = disk[f]
        /\ Len(Closed(l)[log[l].writer]) = Len(disk[log[l].writer]) + 1
        /\ \A i \in 1..Len(disk[log[l].writer]) : Closed(l)[log[l].writer][i] = disk[log[l].writer][i]
        /\ Closed(l)[log[l].writer][Len(disk[log[l].writer]) + 1] = Footer(l)
    <3> DEFINE foot == <<Footer(l)>>
    <3>1. foot \in Seq(Text) /\ Len(foot) = 1 /\ foot[1] = Footer(l) /\ 1 \in 1..Len(foot)
      BY <2>1
    <3>2. Closed(l) = [disk EXCEPT ![log[l].writer] = @ \o foot]
      BY <2>2
    <3> HIDE DEF foot
    <3>3. PICK w \in Files : w = log[l].writer
      BY <1>t
    <3>4. /\ Closed(l) \in [Files -> Seq(Text)]
          /\ \A f \in Files : f # w => Closed(l)[f] = disk[f]
          /\ Len(Closed(l)[w]) = Len(disk[w]) + Len(foot)
          /\ \A i \in 1..Len(disk[w]) : Closed(l)[w][i] = disk[w][i]
          /\ \A i \in 1..Len(foot) : Closed(l)[w][Len(disk[w]) + i] = foot[i]
      <4>1. Closed(l) = [disk EXCEPT ![w] = @ \o foot]
        BY <3>2, <3>3
      <4>2. disk \in [Files -> Seq(Text)] /\ w \in Files /\ foot \in Seq(Text)
        BY <3>1, <3>3, <1>t
      <4> QED BY <4>1, <4>2, OneLonger
    <3> QED BY <3>1, <3>3, <3>4
  <2>4. ASSUME NEW f \in Files
        PROVE  /\ Len(disk[f]) <= Len(Closed(l)[f])
               /\ \A i \in 1..Len(disk[f]) : Closed(l)[f][i] = disk[f][i]
               /\ \A i \in 1..Len(Closed(l)[f]) : i > Len(disk[f]) => Closed(l)[f][i] = Footer(l)
    <3>1. CASE f # log[l].writer
      BY <3>1, <2>3, <1>t
    <3>2. CASE f = log[l].writer
      <4>1. \A i \in 1..Len(Closed(l)[f]) : i > Len(disk[f]) => i = Len(disk[f]) + 1
        BY <3>2, <2>3, <1>t
      <4>2. Len(disk[f]) <= Len(Closed(l)[f])
        BY <3>2, <2>3, <1>t
      <4> QED BY <3>2, <4>1, <4>2, <2>3
    <3> QED BY <3>1, <3>2
  <2> QED BY <2>3, <2>4 DEF Longer
<1> QED BY <1>1, <1>2

\* A write through writer rec, on the disk as closing left it.
LEMMA AppendedIs ==
  ASSUME TypeOK, NEW l \in Logs, NEW rec \in Writer, NEW content,
         writes' \in Nat, Appended(l, rec, content), Longer(l, disk, content),
         \A f \in Files : \A i \in 1..Len(content[f]) :
           i > Len(disk[f]) => content[f][i] = Footer(l),
         rec.html => content = disk /\ rec.writer = log[l].writer /\ log[l].html
  PROVE  /\ Wrote(l, rec.writer)
         /\ log' \in [Logs -> Writer]
         /\ log'[l].writer = rec.writer /\ log'[l].html = Html /\ log'[l].date \in {rec.date, Unset}
         /\ \A j \in Logs : j # l => log'[j] = log[j]
         /\ logged' \in [Logs -> Seq(Nat)] /\ logged'[l] = Append(logged[l], writes')
         /\ \A j \in Logs : j # l => logged'[j] = logged[j]
<1> DEFINE text == IF Html /\ ~rec.html
                   THEN <<Header(l), Output(l, writes', day)>> ELSE <<Output(l, writes', day)>>
           total == rec.size + Len(text)
           full == Limit > 0 /\ total >= Limit
           new == [rec EXCEPT !.size = total, !.html = Html,
                              !.seq  = IF full THEN @ + 1 ELSE @,
                              !.date = IF full THEN Unset ELSE @]
           w == rec.writer
<1>t. /\ content \in [Files -> Seq(Text)] /\ w \in Files
      /\ \A f \in Files : Len(content[f]) \in Nat /\ Len(disk[f]) \in Nat
      /\ day \in Nat /\ Html \in BOOLEAN
  BY LenProperties, LogAssumption, SMTT(30) DEF TypeOK, Writer, Longer
<1>o. Header(l) \in Text /\ Output(l, writes', day) \in Text
  BY <1>t, TextsAre
<1>x. /\ text \in Seq(Text) /\ Len(text) \in Nat \ {0} /\ text[Len(text)] = Output(l, writes', day)
      /\ \A i \in 1..Len(text) : i = Len(text) \/ text[i] = Header(l)
      /\ IF Html /\ ~rec.html THEN Len(text) = 2 /\ text[1] = Header(l) ELSE Len(text) = 1
  <2>1. CASE Html /\ ~rec.html
    <3>1. text = <<Header(l), Output(l, writes', day)>>
      BY <2>1
    <3> QED BY <2>1, <3>1, <1>o
  <2>2. CASE ~(Html /\ ~rec.html)
    <3>1. text = <<Output(l, writes', day)>>
      BY <2>2
    <3> QED BY <2>2, <3>1, <1>o
  <2> QED BY <2>1, <2>2
<1>u. /\ disk' = [content EXCEPT ![w] = @ \o text]
      /\ log' = [log EXCEPT ![l] = new]
      /\ logged' = [logged EXCEPT ![l] = Append(@, writes')]
  BY DEF Appended
<1> HIDE DEF text
<1>n. new \in Writer /\ new.writer = w /\ new.html = Html /\ new.date \in {rec.date, Unset}
  <2>1. rec.size \in Nat /\ rec.seq \in Nat /\ rec.date \in 0..MaxDay
    BY DEF Writer
  <2>2. total \in Nat /\ rec.seq + 1 \in Nat /\ Unset \in 0..MaxDay
    BY <2>1, <1>x, LogAssumption DEF Unset
  <2>3. PICK q \in Nat : q = IF full THEN rec.seq + 1 ELSE rec.seq
    BY <2>1, <2>2
  <2>4. PICK d \in 0..MaxDay : d = IF full THEN Unset ELSE rec.date
    BY <2>1, <2>2
  <2>5. d \in {rec.date, Unset}
    BY <2>4
  <2>6. new = [rec EXCEPT !.size = total, !.html = Html, !.seq = q, !.date = d]
    BY <2>3, <2>4
  <2> HIDE DEF new, total, full
  <2>7. new \in Writer /\ new.writer = w /\ new.html = Html /\ new.date = d
    BY <2>2, <2>6, <1>t DEF Writer
  <2> QED BY <2>5, <2>7
<1> HIDE DEF new
<1>d. /\ disk' \in [Files -> Seq(Text)]
      /\ \A f \in Files : f # w => disk'[f] = content[f]
      /\ Len(disk'[w]) = Len(content[w]) + Len(text)
      /\ \A i \in 1..Len(content[w]) : disk'[w][i] = content[w][i]
      /\ \A i \in 1..Len(text) : disk'[w][Len(content[w]) + i] = text[i]
  <2> HIDE DEF w
  <2> QED BY <1>t, <1>x, <1>u, OneLonger
<1>c. \A f \in Files : /\ Len(disk[f]) <= Len(content[f])
                       /\ \A i \in 1..Len(disk[f]) : content[f][i] = disk[f][i]
  BY DEF Longer
<1>1. Longer(l, disk, disk')
  <2>1. ASSUME NEW f \in Files
        PROVE  /\ Len(disk[f]) <= Len(disk'[f])
               /\ \A i \in 1..Len(disk[f]) : disk'[f][i] = disk[f][i]
    <3>1. CASE f # w
      BY <3>1, <1>c, <1>d
    <3>2. CASE f = w
      <4>1. Len(disk[f]) <= Len(disk'[f])
        BY <3>2, <1>c, <1>d, <1>t, <1>x
      <4>2. \A i \in 1..Len(disk[f]) : i \in 1..Len(content[f])
        BY <1>c, <1>t
      <4> QED BY <3>2, <4>1, <4>2, <1>c, <1>d
    <3> QED BY <3>1, <3>2
  <2> QED BY <2>1, <1>d DEF Longer
<1>2. ASSUME NEW f \in Files, NEW i \in 1..Len(disk'[f]), i > Len(disk[f])
      PROVE  \/ disk'[f][i] = Footer(l)
             \/ disk'[f][i] = Header(l)
             \/ f = w /\ i = Len(disk'[w]) /\ disk'[f][i] = Output(l, writes', day)
  <2>1. CASE f # w
    BY <2>1, <1>2, <1>d
  <2>2. CASE f = w /\ i <= Len(content[w])
    <3>1. i \in 1..Len(content[f])
      BY <2>2, <1>t
    <3> QED BY <2>2, <3>1, <1>2, <1>d
  <2>3. CASE f = w /\ ~(i <= Len(content[w]))
    <3>1. PICK k : k = i - Len(content[w])
      OBVIOUS
    <3>2. k \in 1..Len(text) /\ i = Len(content[w]) + k
      BY <2>3, <3>1, <1>t, <1>x, <1>d
    <3>3. disk'[f][i] = text[k]
      BY <3>2, <2>3, <1>d
    <3>4. k = Len(text) => i = Len(disk'[w])
      BY <3>2, <1>d
    <3> QED BY <2>3, <3>2, <3>3, <3>4, <1>x
  <2> QED BY <2>1, <2>2, <2>3
<1>3. /\ Len(disk'[w]) > Len(disk[w])
      /\ disk'[w][Len(disk'[w])] = Output(l, writes', day)
  <2>1. Len(text) \in 1..Len(text) /\ Len(text) > 0
    BY <1>x
  <2>2. Len(disk'[w]) > Len(disk[w])
    <3>1. Len(disk[w]) <= Len(content[w]) /\ Len(disk'[w]) = Len(content[w]) + Len(text)
      BY <1>c, <1>d, <1>t
    <3> QED BY <2>1, <3>1, <1>t, <1>x
  <2>3. disk'[w][Len(content[w]) + Len(text)] = text[Len(text)]
    BY <2>1, <1>d
  <2> QED BY <2>2, <2>3, <1>d, <1>x
<1>4. ASSUME Html
      PROVE  \/ /\ Len(disk'[w]) - 1 > Len(disk[w])
                /\ disk'[w][Len(disk'[w]) - 1] = Header(l)
             \/ /\ Len(disk'[w]) = Len(disk[w]) + 1
                /\ w = log[l].writer /\ log[l].html
  <2>1. CASE rec.html
    BY <2>1, <1>d, <1>x
  <2>2. CASE ~rec.html
    <3>1. Len(text) = 2 /\ text[1] = Header(l) /\ 1 \in 1..Len(text)
      BY <2>2, <1>4, <1>x
    <3>2. Len(disk'[w]) - 1 = Len(content[w]) + 1 /\ Len(content[w]) + 1 > Len(disk[w])
      BY <3>1, <1>c, <1>d, <1>t
    <3> QED BY <3>1, <3>2, <1>d
  <2> QED BY <2>1, <2>2
<1>5. Wrote(l, w)
  BY <1>1, <1>2, <1>3, <1>4 DEF Wrote
<1>6. /\ log' \in [Logs -> Writer] /\ log'[l] = new
      /\ \A j \in Logs : j # l => log'[j] = log[j]
  BY <1>u, <1>n DEF TypeOK
<1>7. /\ logged' \in [Logs -> Seq(Nat)] /\ logged'[l] = Append(logged[l], writes')
      /\ \A j \in Logs : j # l => logged'[j] = logged[j]
  <2>1. Append(logged[l], writes') \in Seq(Nat)
    BY AppendProperties DEF TypeOK
  <2> QED BY <2>1, <1>u DEF TypeOK
<1> QED BY <1>5, <1>6, <1>7, <1>n

-----------------------------------------------------------------------------
(***************************************************************************)
(* What each of them means for the parts of the invariant.                 *)
(***************************************************************************)

\* Entries of different kinds or tabs differ.
LEMMA TextsDiffer ==
  \A l, j \in Logs, n, d \in Nat :
    /\ Header(l).kind # "output" /\ Footer(l).kind # "output"
    /\ Header(l) # Footer(j) /\ Output(l, n, d) # Footer(j)
    /\ l # j => Footer(l) # Footer(j)
    /\ Output(l, n, d).kind = "output" /\ Output(l, n, d).by = l
    /\ Output(l, n, d).n = n /\ Output(l, n, d).day = d
BY DEF Header, Footer, Output

\* After a write all output is where it was, but for the new one.
LEMMA WroteOutput ==
  ASSUME TypeOK, NEW l \in Logs, NEW w \in Files, Wrote(l, w), writes' \in Nat
  PROVE  /\ \A f \in Files : DOMAIN disk[f] = 1..Len(disk[f]) /\ DOMAIN disk'[f] = 1..Len(disk'[f])
         /\ \A f \in Files : \A i \in DOMAIN disk[f] : i \in DOMAIN disk'[f] /\ disk'[f][i] = disk[f][i]
         /\ \A f \in Files : \A i \in DOMAIN disk'[f] :
              disk'[f][i].kind = "output" =>
                \/ i \in DOMAIN disk[f] /\ disk'[f][i] = disk[f][i]
                \/ /\ f = w /\ i = Len(disk'[w]) /\ i > Len(disk[w])
                   /\ disk'[f][i] = Output(l, writes', day)
<1>1. \A f \in Files : /\ DOMAIN disk[f] = 1..Len(disk[f]) /\ DOMAIN disk'[f] = 1..Len(disk'[f])
                       /\ Len(disk[f]) \in Nat /\ Len(disk'[f]) \in Nat
  BY LenProperties DEF TypeOK, Wrote, Longer
<1>2. \A f \in Files : \A i \in DOMAIN disk[f] : i \in DOMAIN disk'[f] /\ disk'[f][i] = disk[f][i]
  <2>1. ASSUME NEW f \in Files, NEW i \in DOMAIN disk[f]
        PROVE  i \in DOMAIN disk'[f] /\ disk'[f][i] = disk[f][i]
    <3>1. i \in 1..Len(disk[f])
      BY <1>1
    <3>2. Len(disk[f]) <= Len(disk'[f]) /\ disk'[f][i] = disk[f][i]
      BY <3>1 DEF Wrote, Longer
    <3> QED BY <3>1, <3>2, <1>1
  <2> QED BY <2>1
<1>3. ASSUME NEW f \in Files, NEW i \in DOMAIN disk'[f], disk'[f][i].kind = "output"
      PROVE  \/ i \in DOMAIN disk[f] /\ disk'[f][i] = disk[f][i]
             \/ /\ f = w /\ i = Len(disk'[w]) /\ i > Len(disk[w])
                /\ disk'[f][i] = Output(l, writes', day)
  <2>1. CASE i > Len(disk[f])
    <3>1. day \in Nat
      BY DEF TypeOK
    <3>2. disk'[f][i] # Footer(l) /\ disk'[f][i] # Header(l)
      BY <1>3, <3>1, TextsDiffer
    <3> QED BY <2>1, <3>2, <1>1 DEF Wrote
  <2>2. CASE ~(i > Len(disk[f]))
    BY <2>2, <1>1, <1>2
  <2> QED BY <2>1, <2>2
<1> QED BY <1>1, <1>2, <1>3

\* A write, to the file the tab has open or to today's, keeps the invariant.
LEMMA WriteSafe ==
  ASSUME Inv, NEW l \in Logs, NEW w \in Files, Wrote(l, w),
         writes < MaxWrites, writes' = writes + 1, UNCHANGED <<day, refused>>,
         log' \in [Logs -> Writer], log'[l].writer = w, log'[l].html = Html,
         \A j \in Logs : j # l => log'[j] = log[j],
         logged' \in [Logs -> Seq(Nat)], logged'[l] = Append(logged[l], writes'),
         \A j \in Logs : j # l => logged'[j] = logged[j],
         log'[l].date \in {Unset, day}, w[2] = 0,
         log[l].writer[1] <= w[1], w[1] <= day,
         w[1] = day \/ \E m \in 1..writes : <<m, day>> \in refused[l]
  PROVE  Inv'
<1>t. /\ TypeOK /\ day \in 1..MaxDay /\ writes \in Nat /\ writes' \in Nat /\ writes' \in 0..MaxWrites
      /\ MaxDay \in Nat /\ MaxWrites \in Nat
  BY LogAssumption DEF Inv, TypeOK
<1>f. \A f \in Files : f[1] \in Nat /\ f[2] \in Nat
  BY <1>t DEF Files
<1>d. /\ \A f \in Files : DOMAIN disk[f] = 1..Len(disk[f]) /\ DOMAIN disk'[f] = 1..Len(disk'[f])
      /\ \A f \in Files : \A i \in DOMAIN disk[f] : i \in DOMAIN disk'[f] /\ disk'[f][i] = disk[f][i]
      /\ \A f \in Files : \A i \in DOMAIN disk'[f] :
           disk'[f][i].kind = "output" =>
             \/ i \in DOMAIN disk[f] /\ disk'[f][i] = disk[f][i]
             \/ /\ f = w /\ i = Len(disk'[w]) /\ i > Len(disk[w])
                /\ disk'[f][i] = Output(l, writes', day)
  BY <1>t, WroteOutput
<1>o. LET e == Output(l, writes', day) IN
      e.kind = "output" /\ e.by = l /\ e.n = writes' /\ e.day = day
  BY <1>t, TextsDiffer
<1>l. \A f \in Files : Len(disk[f]) \in Nat /\ Len(disk'[f]) \in Nat
  BY LenProperties DEF Inv, TypeOK, Wrote, Longer
<1>1. TypeOK'
  BY <1>t DEF Inv, TypeOK, Wrote, Longer
<1>2. Clock'
  <2>1. ASSUME NEW j \in Logs
        PROVE  /\ log'[j].date <= day' /\ log'[j].writer[1] <= day' /\ log'[j].writer[2] = 0
               /\ log'[j].date = day' =>
                    log'[j].writer[1] = day' \/ \E m \in 1..writes' : <<m, day'>> \in refused'[j]
    <3>0. \A m \in 1..writes : m \in 1..writes'
      BY <1>t
    <3>1. CASE j = l
      BY <3>0, <3>1, <1>t DEF Unset
    <3>2. CASE j # l
      BY <3>0, <3>2 DEF Inv, Clock
    <3> QED BY <3>1, <3>2
  <2> QED BY <2>1 DEF Clock
<1>3. Placed'
  <2>1. ASSUME NEW f \in Files, NEW i \in DOMAIN disk'[f], disk'[f][i].kind = "output"
        PROVE  /\ disk'[f][i].n \in 1..writes'
               /\ f[1] <= log'[disk'[f][i].by].writer[1] /\ f[2] = 0
    <3>1. CASE i \in DOMAIN disk[f] /\ disk'[f][i] = disk[f][i]
      <4>1. /\ disk[f][i].n \in 1..writes /\ f[2] = 0
            /\ f[1] <= log[disk[f][i].by].writer[1]
        BY <3>1, <2>1 DEF Inv, Placed
      <4>2. disk[f][i].by \in Logs
        <5>1. disk[f] \in Seq(Text) /\ i \in 1..Len(disk[f])
          BY <3>1, <1>d, <1>t DEF TypeOK
        <5>2. disk[f][i] \in Text
          BY <5>1, ElementOfSeq
        <5> QED BY <5>2 DEF Text
      <4>3. f[1] <= log'[disk[f][i].by].writer[1]
        <5>1. CASE disk[f][i].by = l
          <6>1. f[1] <= log[l].writer[1] /\ log[l].writer \in Files
            BY <4>1, <5>1, <1>t DEF TypeOK, Writer
          <6> QED BY <5>1, <6>1, <1>f
        <5>2. CASE disk[f][i].by # l
          BY <4>1, <4>2, <5>2
        <5> QED BY <5>1, <5>2
      <4>4. disk[f][i].n \in 1..writes'
        BY <4>1, <1>t
      <4> QED BY <3>1, <4>1, <4>3, <4>4
    <3>2. CASE f = w /\ disk'[f][i] = Output(l, writes', day)
      <4>1. writes' \in 1..writes' /\ w[1] <= w[1]
        BY <1>t, <1>f
      <4> QED BY <3>2, <4>1, <1>o
    <3> QED BY <2>1, <3>1, <3>2, <1>d
  <2> QED BY <2>1 DEF Placed
<1>4. RightDay'
  <2>1. ASSUME NEW f \in Files, NEW i \in DOMAIN disk'[f], disk'[f][i].kind = "output"
        PROVE  \/ f[1] = disk'[f][i].day
               \/ \E m \in 1..disk'[f][i].n - 1 : <<m, disk'[f][i].day>> \in refused'[disk'[f][i].by]
    <3>1. CASE i \in DOMAIN disk[f] /\ disk'[f][i] = disk[f][i]
      BY <3>1, <2>1 DEF Inv, RightDay
    <3>2. CASE f = w /\ disk'[f][i] = Output(l, writes', day)
      <4>1. writes' - 1 = writes
        BY <1>t
      <4> QED BY <3>2, <4>1, <1>o
    <3> QED BY <2>1, <3>1, <3>2, <1>d, ZenonT(60)
  <2> QED BY <2>1 DEF RightDay
<1>5. LogIsComplete'
  <2>a. /\ DOMAIN logged'[l] = DOMAIN logged[l] \cup {Len(logged[l]) + 1}
        /\ logged'[l][Len(logged[l]) + 1] = writes'
        /\ \A k \in DOMAIN logged[l] : logged'[l][k] = logged[l][k]
    <3>1. logged[l] \in Seq(Nat)
      BY <1>t DEF TypeOK
    <3>2. /\ Len(logged[l]) \in Nat /\ DOMAIN logged[l] = 1..Len(logged[l])
          /\ DOMAIN Append(logged[l], writes') = 1..(Len(logged[l]) + 1)
          /\ Append(logged[l], writes')[Len(logged[l]) + 1] = writes'
          /\ \A k \in 1..Len(logged[l]) : Append(logged[l], writes')[k] = logged[l][k]
      BY <3>1, <1>t, LenProperties, AppendProperties
    <3> QED BY <3>2
  <2>1. ASSUME NEW j \in Logs, NEW k \in DOMAIN logged'[j]
        PROVE  \E f \in Files : \E i \in DOMAIN disk'[f] :
                 IsOutput(disk'[f][i], j) /\ disk'[f][i].n = logged'[j][k]
    <3>1. CASE k \in DOMAIN logged[j] /\ logged'[j][k] = logged[j][k]
      <4>1. PICK f \in Files : \E i \in DOMAIN disk[f] :
              IsOutput(disk[f][i], j) /\ disk[f][i].n = logged[j][k]
        BY <3>1 DEF Inv, LogIsComplete
      <4>2. PICK i \in DOMAIN disk[f] : IsOutput(disk[f][i], j) /\ disk[f][i].n = logged[j][k]
        BY <4>1
      <4>3. i \in DOMAIN disk'[f] /\ disk'[f][i] = disk[f][i]
        BY <4>1, <4>2, <1>d
      <4>4. IsOutput(disk'[f][i], j) /\ disk'[f][i].n = logged'[j][k]
        BY <3>1, <4>2, <4>3
      <4> QED BY <4>1, <4>3, <4>4
    <3>2. CASE j = l /\ k = Len(logged[l]) + 1
      <4>1. /\ Len(disk'[w]) \in DOMAIN disk'[w]
            /\ disk'[w][Len(disk'[w])] = Output(l, writes', day)
        BY <1>d, <1>l, SMTT(30) DEF Wrote
      <4> QED BY <3>2, <4>1, <2>a, <1>o DEF IsOutput
    <3> QED BY <3>1, <3>2, <2>a
  <2>2. ASSUME NEW j \in Logs, NEW f \in Files, NEW i \in DOMAIN disk'[f], IsOutput(disk'[f][i], j)
        PROVE  \E k \in DOMAIN logged'[j] : logged'[j][k] = disk'[f][i].n
    <3>1. CASE i \in DOMAIN disk[f] /\ disk'[f][i] = disk[f][i]
      <4>1. PICK k \in DOMAIN logged[j] : logged[j][k] = disk[f][i].n
        BY <3>1, <2>2, ZenonT(60) DEF Inv, LogIsComplete
      <4> QED BY <3>1, <4>1, <2>a
    <3>2. CASE f = w /\ disk'[f][i] = Output(l, writes', day)
      <4>1. j = l /\ disk'[f][i].n = writes'
        BY <3>2, <2>2, <1>o DEF IsOutput
      <4>2. Len(logged[l]) + 1 \in DOMAIN logged'[l]
        BY <2>a
      <4> QED BY <4>1, <4>2, <2>a
    <3> QED BY <2>2, <3>1, <3>2, <1>d DEF IsOutput
  <2>3. ASSUME NEW j \in Logs, NEW f \in Files, NEW g \in Files,
               NEW a \in DOMAIN disk'[f], NEW b \in DOMAIN disk'[g],
               IsOutput(disk'[f][a], j), IsOutput(disk'[g][b], j)
        PROVE  disk'[f][a].n < disk'[g][b].n <=> ReadBefore(f, a, g, b)
    \* Output that was there is read before what is new.
    <3>o. ASSUME NEW h \in Files, NEW c \in DOMAIN disk[h], IsOutput(disk[h][c], l)
          PROVE  /\ disk[h][c].n < writes' /\ disk[h][c].n \in Nat
                 /\ h[1] <= w[1] /\ h[2] = 0
                 /\ h = w => c < Len(disk'[w])
      <4>1. disk[h][c].n \in 1..writes /\ h[2] = 0 /\ h[1] <= log[l].writer[1]
        BY <3>o DEF Inv, Placed, IsOutput
      <4>2. log[l].writer \in Files
        BY <1>t DEF TypeOK, Writer
      <4>3. h[1] <= w[1]
        BY <4>1, <4>2, <1>f, SMTT(30)
      <4>4. h = w => c < Len(disk'[w])
        BY <1>d, <1>l, SMTT(30) DEF Wrote
      <4> QED BY <4>1, <4>3, <4>4, <1>t, SMTT(30)
    <3>w. \A h \in Files : h[1] = w[1] /\ h[2] = 0 => h = w
      <4>1. ASSUME NEW h \in Files, h[1] = w[1], h[2] = 0
            PROVE  h = w
        <5>1. h = <<h[1], h[2]>> /\ w = <<w[1], w[2]>>
          BY DEF Files
        <5> QED BY <4>1, <5>1
      <4> QED BY <4>1
    <3>1. CASE a \in DOMAIN disk[f] /\ disk'[f][a] = disk[f][a] /\ b \in DOMAIN disk[g] /\ disk'[g][b] = disk[g][b]
      BY <3>1, <2>3 DEF Inv, LogIsComplete
    <3>2. CASE /\ a \in DOMAIN disk[f] /\ disk'[f][a] = disk[f][a]
               /\ g = w /\ b = Len(disk'[w]) /\ disk'[g][b] = Output(l, writes', day)
      <4>1. j = l
        BY <3>2, <2>3, <1>o DEF IsOutput
      <4>2. /\ disk[f][a].n < writes' /\ f[1] <= w[1] /\ f[2] = 0
            /\ f = w => a < Len(disk'[w])
        BY <4>1, <3>2, <2>3, <3>o
      <4>3. f[1] < w[1] \/ f = w
        BY <4>2, <3>w, <1>f
      <4> QED BY <3>2, <4>2, <4>3, <1>o DEF ReadBefore
    <3>3. CASE /\ b \in DOMAIN disk[g] /\ disk'[g][b] = disk[g][b]
               /\ f = w /\ a = Len(disk'[w]) /\ disk'[f][a] = Output(l, writes', day)
      <4>1. j = l
        BY <3>3, <2>3, <1>o DEF IsOutput
      <4>2. /\ disk[g][b].n < writes' /\ disk[g][b].n \in Nat /\ g[1] <= w[1] /\ g[2] = 0
            /\ g = w => b < Len(disk'[w])
        BY <4>1, <3>3, <2>3, <3>o
      <4>3. ~(writes' < disk[g][b].n)
        BY <4>2, <1>t
      <4>4. ~(w[1] < g[1]) /\ ~(w[2] < g[2])
        BY <4>2, <1>f
      <4>5. ~(w = g /\ Len(disk'[w]) < b)
        BY <4>2, <1>d, <1>l
      <4> QED BY <3>3, <4>3, <4>4, <4>5, <1>o DEF ReadBefore
    <3>4. CASE /\ f = w /\ a = Len(disk'[w]) /\ disk'[f][a] = Output(l, writes', day)
               /\ g = w /\ b = Len(disk'[w]) /\ disk'[g][b] = Output(l, writes', day)
      BY <3>4, <1>o, <1>f, <1>l, <1>t, SMTT(30) DEF ReadBefore
    <3> QED BY <2>3, <3>1, <3>2, <3>3, <3>4, <1>d DEF IsOutput
  <2> QED BY <2>1, <2>2, <2>3, ZenonT(60) DEF LogIsComplete
<1>6. InsidePage' /\ Paged'
  <2> SUFFICES ASSUME Html PROVE InsidePage' /\ Paged'
    BY DEF InsidePage, Paged
  <2>n. ASSUME NEW f \in Files, NEW i \in DOMAIN disk'[f], NEW j \in Logs,
               i \notin DOMAIN disk[f], j # l
        PROVE  disk'[f][i] # Footer(j)
    <3>1. i > Len(disk[f])
      BY <2>n, <1>d, <1>l
    <3>2. \/ disk'[f][i] = Footer(l) \/ disk'[f][i] = Header(l)
          \/ disk'[f][i] = Output(l, writes', day)
      BY <3>1, <1>d, SMTT(30) DEF Wrote
    <3>3. day \in Nat
      BY <1>t
    <3> QED BY <2>n, <3>2, <3>3, <1>t, TextsDiffer
  \* The new output has its header before it and no footer of the tab between.
  <2>h. \E h \in 1..Len(disk'[w]) - 1 :
          /\ disk'[w][h] = Header(l)
          /\ \A k \in h..Len(disk'[w]) : disk'[w][k] # Footer(l)
    <3>o. /\ disk'[w][Len(disk'[w])] = Output(l, writes', day) /\ Len(disk'[w]) > Len(disk[w])
          /\ Output(l, writes', day) # Footer(l) /\ Header(l) # Footer(l)
      <4>1. day \in Nat
        BY <1>t
      <4> QED BY <4>1, <1>t, TextsDiffer DEF Wrote
    <3>1. CASE /\ Len(disk'[w]) - 1 > Len(disk[w])
               /\ disk'[w][Len(disk'[w]) - 1] = Header(l)
      <4>1. \A k \in (Len(disk'[w]) - 1)..Len(disk'[w]) : k = Len(disk'[w]) - 1 \/ k = Len(disk'[w])
        BY <1>l
      <4>2. Len(disk'[w]) - 1 \in 1..Len(disk'[w]) - 1
        BY <3>1, <1>l
      <4> QED BY <3>1, <3>o, <4>1, <4>2
    <3>2. CASE /\ Len(disk'[w]) = Len(disk[w]) + 1
               /\ w = log[l].writer /\ log[l].html
      <4>1. PICK h \in DOMAIN disk[w] :
              /\ disk[w][h] = Header(l)
              /\ \A k \in DOMAIN disk[w] : h <= k => disk[w][k] # Footer(l)
        <5>1. \E h \in DOMAIN disk[log[l].writer] :
                /\ disk[log[l].writer][h] = Header(l)
                /\ \A k \in DOMAIN disk[log[l].writer] : h <= k => disk[log[l].writer][k] # Footer(l)
          BY <3>2 DEF Inv, Paged
        <5> QED BY <5>1, <3>2
      <4>2. h \in 1..Len(disk'[w]) - 1 /\ disk'[w][h] = Header(l)
        BY <4>1, <3>2, <1>d, <1>l, SMTT(30)
      <4>3. ASSUME NEW k \in h..Len(disk'[w])
            PROVE  disk'[w][k] # Footer(l)
        <5>1. CASE k = Len(disk'[w])
          BY <5>1, <3>o
        <5>2. CASE k # Len(disk'[w])
          <6>1. k \in DOMAIN disk[w] /\ h <= k
            <7>1. h \in Nat \ {0} /\ k \in Int /\ h <= k /\ k <= Len(disk'[w]) /\ Len(disk'[w]) \in Nat
              BY <4>1, <1>d, <1>l
            <7>2. k <= Len(disk[w]) /\ k \in Nat \ {0} /\ Len(disk[w]) \in Nat
              BY <7>1, <5>2, <3>2, <1>l, SMTT(30)
            <7> QED BY <7>1, <7>2, <1>d
          <6>2. disk'[w][k] = disk[w][k]
            BY <6>1, <1>d
          <6>3. disk[w][k] # Footer(l)
            BY <6>1, <4>1
          <6> QED BY <6>2, <6>3
        <5> QED BY <5>1, <5>2
      <4> QED BY <4>2, <4>3
    <3> QED BY <3>1, <3>2 DEF Wrote
  <2>1. ASSUME NEW f \in Files, NEW i \in DOMAIN disk'[f], disk'[f][i].kind = "output"
        PROVE  \E h \in 1..i - 1 : /\ disk'[f][h] = Header(disk'[f][i].by)
                                   /\ \A k \in h..i : disk'[f][k] # Footer(disk'[f][i].by)
    <3>1. CASE i \in DOMAIN disk[f] /\ disk'[f][i] = disk[f][i]
      <4>1. PICK h \in 1..i - 1 : /\ disk[f][h] = Header(disk[f][i].by)
                                  /\ \A k \in h..i : disk[f][k] # Footer(disk[f][i].by)
        BY <3>1, <2>1 DEF Inv, InsidePage
      <4>2. h \in DOMAIN disk[f] /\ \A k \in h..i : k \in DOMAIN disk[f]
        BY <3>1, <4>1, <1>d, <1>l
      <4> QED BY <3>1, <4>1, <4>2, <1>d
    <3>2. CASE f = w /\ i = Len(disk'[w]) /\ disk'[f][i] = Output(l, writes', day)
      <4>1. PICK h \in 1..Len(disk'[w]) - 1 :
              /\ disk'[w][h] = Header(l)
              /\ \A k \in h..Len(disk'[w]) : disk'[w][k] # Footer(l)
        BY <2>h
      <4>2. f = w /\ i = Len(disk'[w]) /\ disk'[f][i].by = l
        BY <3>2, <1>o
      <4>3. \E m \in 1..i - 1 : /\ disk'[f][m] = Header(l)
                               /\ \A k \in m..i : disk'[f][k] # Footer(l)
        BY <4>1, <4>2
      <4> QED BY <4>2, <4>3
    <3> QED BY <2>1, <3>1, <3>2, <1>d
  <2>2. ASSUME NEW j \in Logs, log'[j].html
        PROVE  \E h \in DOMAIN disk'[log'[j].writer] :
                 /\ disk'[log'[j].writer][h] = Header(j)
                 /\ \A k \in DOMAIN disk'[log'[j].writer] : h <= k => disk'[log'[j].writer][k] # Footer(j)
    <3>1. CASE j = l
      <4>1. PICK h \in 1..Len(disk'[w]) - 1 :
              /\ disk'[w][h] = Header(l)
              /\ \A k \in h..Len(disk'[w]) : disk'[w][k] # Footer(l)
        BY <2>h
      <4>2. h \in DOMAIN disk'[w] /\ \A k \in DOMAIN disk'[w] : h <= k => k \in h..Len(disk'[w])
        BY <4>1, <1>d, <1>l
      <4> QED BY <3>1, <4>1, <4>2
    <3>2. CASE j # l
      <4>1. log'[j] = log[j] /\ log[j].writer \in Files
        BY <3>2, <1>t DEF TypeOK, Writer
      <4>2. PICK h \in DOMAIN disk[log[j].writer] :
              /\ disk[log[j].writer][h] = Header(j)
              /\ \A k \in DOMAIN disk[log[j].writer] : h <= k => disk[log[j].writer][k] # Footer(j)
        BY <2>2, <4>1 DEF Inv, Paged
      <4> DEFINE v == log[j].writer
      <4>3. h \in DOMAIN disk'[v] /\ disk'[v][h] = Header(j)
        BY <4>1, <4>2, <1>d
      <4>4. ASSUME NEW k \in DOMAIN disk'[v], h <= k
            PROVE  disk'[v][k] # Footer(j)
        <5>1. CASE k \in DOMAIN disk[v]
          <6>1. disk'[v][k] = disk[v][k]
            BY <4>1, <5>1, <1>d
          <6> QED BY <6>1, <5>1, <4>2, <4>4
        <5>2. CASE k \notin DOMAIN disk[v]
          BY <5>2, <4>1, <4>4, <3>2, <2>n
        <5> QED BY <5>1, <5>2
      <4> QED BY <4>1, <4>3, <4>4
    <3> QED BY <3>1, <3>2
  <2> QED BY <2>1, <2>2 DEF InsidePage, Paged
<1> QED BY <1>1, <1>2, <1>3, <1>4, <1>5, <1>6 DEF Inv


-----------------------------------------------------------------------------
(***************************************************************************)
(* One lemma for each action.                                              *)
(***************************************************************************)

\* The writer with which a tab turns to a new file.
LEMMA TurnedIs ==
  ASSUME TypeOK, NEW l \in Logs
  PROVE  /\ Turned(l) \in Writer /\ Turned(l).writer = log[l].writer
         /\ Turned(l).date = day /\ Turned(l).html = FALSE
         /\ Opened(l).log \in Writer /\ Opened(l).log.writer = <<day, 0>>
         /\ Opened(l).log.date = day /\ Opened(l).log.html = FALSE
         /\ Opened(l).disk = Closed(l) /\ <<day, 0>> \in Files
<1>1. /\ log[l] \in Writer /\ day \in 0..MaxDay /\ day \in 1..MaxDay /\ 0 \in Nat /\ 0 \in 0..MaxWrites
      /\ FALSE \in BOOLEAN
  BY LogAssumption DEF TypeOK
<1>2. <<day, 0>> \in Files
  BY <1>1 DEF Files
<1>3. /\ Turned(l) = [log[l] EXCEPT !.html = FALSE, !.seq = 0, !.date = day, !.size = 0]
      /\ Turned(l) \in Writer /\ Turned(l).writer = log[l].writer
      /\ Turned(l).date = day /\ Turned(l).html = FALSE /\ Turned(l).seq = 0
  BY <1>1 DEF Turned, Writer
<1>4. Opened(l).log = [Turned(l) EXCEPT !.writer = <<day, 0>>] /\ Opened(l).disk = Closed(l)
  <2> HIDE DEF Turned
  <2> QED BY <1>3 DEF Opened, Path
<1>5. /\ Opened(l).log \in Writer /\ Opened(l).log.writer = <<day, 0>>
      /\ Opened(l).log.date = day /\ Opened(l).log.html = FALSE
  BY <1>2, <1>3, <1>4 DEF Writer
<1> QED BY <1>2, <1>3, <1>4, <1>5

LEMMA WriteKeeps ==
  ASSUME Inv, NEW l \in Logs, WriteBytes(l)
  PROVE  Inv'
<1>t. /\ TypeOK /\ day \in 1..MaxDay /\ writes \in Nat /\ writes' \in Nat
      /\ log[l] \in Writer /\ writes < MaxWrites /\ writes' = writes + 1
      /\ UNCHANGED <<day, refused>>
  BY LogAssumption DEF Inv, TypeOK, WriteBytes
<1>c. /\ log[l].date <= day /\ log[l].writer[1] <= day /\ log[l].writer[2] = 0
      /\ log[l].date = day =>
           log[l].writer[1] = day \/ \E m \in 1..writes : <<m, day>> \in refused[l]
  BY DEF Inv, Clock
<1>1. CASE Due(l)
  <2>1. Appended(l, Opened(l).log, Closed(l))
    BY <1>1, <1>t, TurnedIs DEF WriteBytes
  <2>2. PICK rec \in Writer : rec = Opened(l).log
    BY <1>t, TurnedIs
  <2>3. /\ rec \in Writer /\ rec.writer = <<day, 0>> /\ rec.date = day /\ ~rec.html
        /\ rec.writer \in Files /\ rec.writer[1] = day /\ rec.writer[2] = 0
    <3>1. /\ rec \in Writer /\ rec.writer = <<day, 0>> /\ rec.date = day /\ rec.html = FALSE
          /\ <<day, 0>> \in Files
      BY <2>2, <1>t, TurnedIs
    <3> QED BY <3>1
  <2>4. Appended(l, rec, Closed(l))
    BY <2>1, <2>2
  <2>5. /\ Wrote(l, rec.writer)
        /\ log' \in [Logs -> Writer]
        /\ log'[l].writer = rec.writer /\ log'[l].html = Html /\ log'[l].date \in {rec.date, Unset}
        /\ \A j \in Logs : j # l => log'[j] = log[j]
        /\ logged' \in [Logs -> Seq(Nat)] /\ logged'[l] = Append(logged[l], writes')
        /\ \A j \in Logs : j # l => logged'[j] = logged[j]
    <3>1. /\ Longer(l, disk, Closed(l))
          /\ \A f \in Files : \A i \in 1..Len(Closed(l)[f]) :
               i > Len(disk[f]) => Closed(l)[f][i] = Footer(l)
      BY <1>t, ClosedIs
    <3>2. PICK content : content = Closed(l)
      OBVIOUS
    <3>3. /\ Appended(l, rec, content) /\ Longer(l, disk, content)
          /\ \A f \in Files : \A i \in 1..Len(content[f]) :
               i > Len(disk[f]) => content[f][i] = Footer(l)
      BY <2>4, <3>1, <3>2
    <3>4. rec.html => content = disk /\ rec.writer = log[l].writer /\ log[l].html
      BY <2>3
    <3>5. TypeOK /\ rec \in Writer /\ writes' \in Nat
      BY <1>t, <2>3
    <3> QED BY <3>3, <3>4, <3>5, AppendedIs
  <2>6. /\ log'[l].date \in {Unset, day} /\ rec.writer[2] = 0
        /\ log[l].writer[1] <= rec.writer[1] /\ rec.writer[1] <= day
        /\ rec.writer[1] = day
    BY <2>3, <2>5, <1>c, <1>t
  <2> QED BY <1>t, <2>3, <2>5, <2>6, WriteSafe
<1>2. CASE ~Due(l)
  <2>1. PICK rec \in Writer : rec = log[l]
    BY <1>t
  <2>2. Appended(l, rec, disk)
    BY <1>2, <2>1 DEF WriteBytes
  <2>3. /\ Longer(l, disk, disk)
        /\ \A f \in Files : \A i \in 1..Len(disk[f]) : i > Len(disk[f]) => disk[f][i] = Footer(l)
    BY <1>t, LenProperties DEF TypeOK, Longer
  <2>4. rec \in Writer /\ rec.writer \in Files /\ rec.date = day
    BY <1>2, <2>1 DEF Writer, Due
  <2>5. rec.html => disk = disk /\ rec.writer = log[l].writer /\ log[l].html
    BY <2>1
  <2>6. /\ Wrote(l, rec.writer)
        /\ log' \in [Logs -> Writer]
        /\ log'[l].writer = rec.writer /\ log'[l].html = Html /\ log'[l].date \in {rec.date, Unset}
        /\ \A j \in Logs : j # l => log'[j] = log[j]
        /\ logged' \in [Logs -> Seq(Nat)] /\ logged'[l] = Append(logged[l], writes')
        /\ \A j \in Logs : j # l => logged'[j] = logged[j]
    BY <1>t, <2>2, <2>3, <2>4, <2>5, AppendedIs
  <2>7. /\ log'[l].date \in {Unset, day} /\ rec.writer[2] = 0
        /\ log[l].writer[1] <= rec.writer[1] /\ rec.writer[1] <= day
        /\ rec.writer[1] = day \/ \E m \in 1..writes : <<m, day>> \in refused[l]
    <3>1. rec.writer[1] \in Nat
      BY <2>4, LogAssumption DEF Files
    <3> QED BY <2>1, <2>4, <2>6, <3>1, <1>c
  <2> QED BY <1>t, <2>4, <2>6, <2>7, WriteSafe
<1> QED BY <1>1, <1>2

\* A failed open leaves a footer, in no page of another tab, and the note of
\* its day.
LEMMA WriteFailsKeeps ==
  ASSUME Inv, NEW l \in Logs, WriteBytesFails(l)
  PROVE  Inv'
<1>t. /\ TypeOK /\ day \in 1..MaxDay /\ writes \in Nat /\ writes' \in Nat /\ writes' \in 0..MaxWrites
      /\ writes' \in 1..writes' /\ \A m \in 1..writes : m \in 1..writes'
  BY LogAssumption DEF Inv, TypeOK, WriteBytesFails
<1>a. /\ log' = [log EXCEPT ![l] = Turned(l)] /\ disk' = Closed(l)
      /\ refused' = [refused EXCEPT ![l] = @ \cup {<<writes', day>>}]
      /\ day' = day /\ logged' = logged
  BY DEF WriteBytesFails
<1>l. /\ log' \in [Logs -> Writer]
      /\ log'[l].date = day /\ log'[l].html = FALSE /\ log'[l].writer = log[l].writer
      /\ \A j \in Logs : j # l => log'[j] = log[j]
      /\ \A j \in Logs : log'[j].writer = log[j].writer
  <2>1. /\ Turned(l) \in Writer /\ Turned(l).writer = log[l].writer
        /\ Turned(l).date = day /\ Turned(l).html = FALSE
    BY <1>t, TurnedIs
  <2> HIDE DEF Turned
  <2> QED BY <1>a, <1>t, <2>1 DEF TypeOK
<1>r. /\ refused' \in [Logs -> SUBSET (Nat \X Nat)]
      /\ \A j \in Logs : refused[j] \subseteq refused'[j]
      /\ <<writes', day>> \in refused'[l]
  <2>1. <<writes', day>> \in Nat \X Nat
    BY <1>t
  <2> QED BY <1>a, <1>t, <2>1 DEF TypeOK
<1>d. /\ disk' \in [Files -> Seq(Text)]
      /\ \A f \in Files : DOMAIN disk[f] = 1..Len(disk[f]) /\ DOMAIN disk'[f] = 1..Len(disk'[f])
      /\ \A f \in Files : Len(disk[f]) \in Nat /\ Len(disk'[f]) \in Nat
  BY <1>a, <1>t, ClosedIs, LenProperties DEF Longer, TypeOK
<1>k. ASSUME NEW f \in Files, NEW i \in DOMAIN disk[f]
      PROVE  i \in DOMAIN disk'[f] /\ disk'[f][i] = disk[f][i]
  <2>1. i \in 1..Len(disk[f])
    BY <1>d
  <2>2. Len(disk[f]) <= Len(disk'[f]) /\ disk'[f][i] = disk[f][i]
    BY <2>1, <1>a, <1>t, ClosedIs DEF Longer
  <2> QED BY <2>1, <2>2, <1>d
<1>n. ASSUME NEW f \in Files, NEW i \in DOMAIN disk'[f]
      PROVE  i \in DOMAIN disk[f] \/ disk'[f][i] = Footer(l)
  <2>1. i \in 1..Len(disk'[f])
    BY <1>d
  <2>2. i > Len(disk[f]) => disk'[f][i] = Footer(l)
    BY <2>1, <1>a, <1>t, ClosedIs
  <2> QED BY <2>1, <2>2, <1>d
<1>o. ASSUME NEW f \in Files, NEW i \in DOMAIN disk'[f], disk'[f][i].kind = "output"
      PROVE  i \in DOMAIN disk[f] /\ disk'[f][i] = disk[f][i]
  <2>1. disk'[f][i] # Footer(l)
    BY <1>o DEF Footer
  <2> QED BY <2>1, <1>n, <1>k
<1>1. TypeOK'
  BY <1>a, <1>d, <1>l, <1>r, <1>t DEF TypeOK
<1>2. Clock'
  <2>1. ASSUME NEW j \in Logs
        PROVE  /\ log'[j].date <= day' /\ log'[j].writer[1] <= day' /\ log'[j].writer[2] = 0
               /\ log'[j].date = day' =>
                    log'[j].writer[1] = day' \/ \E m \in 1..writes' : <<m, day'>> \in refused'[j]
    <3>0. log[j].writer[1] <= day /\ log[j].writer[2] = 0
      BY DEF Inv, Clock
    <3>1. CASE j = l
      BY <3>0, <3>1, <1>a, <1>l, <1>r, <1>t
    <3>2. CASE j # l
      <4>1. log[j].date <= day
        BY DEF Inv, Clock
      <4>2. ASSUME log[j].date = day
            PROVE  log[j].writer[1] = day \/ \E m \in 1..writes' : <<m, day>> \in refused'[j]
        <5>1. log[j].writer[1] = day \/ \E m \in 1..writes : <<m, day>> \in refused[j]
          BY <4>2 DEF Inv, Clock
        <5> QED BY <5>1, <1>r, <1>t
      <4> QED BY <3>0, <3>2, <4>1, <4>2, <1>a, <1>l
    <3> QED BY <3>1, <3>2
  <2> QED BY <2>1 DEF Clock
<1>3. Placed'
  <2>1. ASSUME NEW f \in Files, NEW i \in DOMAIN disk'[f], disk'[f][i].kind = "output"
        PROVE  /\ disk'[f][i].n \in 1..writes'
               /\ f[1] <= log'[disk'[f][i].by].writer[1] /\ f[2] = 0
    <3>1. i \in DOMAIN disk[f] /\ disk'[f][i] = disk[f][i]
      BY <2>1, <1>o
    <3>2. /\ disk[f][i].n \in 1..writes
          /\ f[1] <= log[disk[f][i].by].writer[1] /\ f[2] = 0
      BY <2>1, <3>1 DEF Inv, Placed
    <3>3. disk[f][i].by \in Logs
      <4>1. disk[f] \in Seq(Text) /\ i \in 1..Len(disk[f])
        BY <3>1, <1>d, <1>t DEF TypeOK
      <4>2. disk[f][i] \in Text
        BY <4>1, ElementOfSeq
      <4> QED BY <4>2 DEF Text
    <3> QED BY <3>1, <3>2, <3>3, <1>l, <1>t
  <2> QED BY <2>1 DEF Placed
<1>4. Paged'
  <2>1. ASSUME Html, NEW j \in Logs, log'[j].html
        PROVE  \E h \in DOMAIN disk'[log'[j].writer] :
                 /\ disk'[log'[j].writer][h] = Header(j)
                 /\ \A k \in DOMAIN disk'[log'[j].writer] : h <= k => disk'[log'[j].writer][k] # Footer(j)
    <3>1. j # l /\ log'[j] = log[j] /\ log[j].writer \in Files /\ log[j].html
      BY <2>1, <1>l, <1>t DEF TypeOK, Writer
    <3>2. PICK h \in DOMAIN disk[log[j].writer] :
            /\ disk[log[j].writer][h] = Header(j)
            /\ \A k \in DOMAIN disk[log[j].writer] : h <= k => disk[log[j].writer][k] # Footer(j)
      BY <2>1, <3>1 DEF Inv, Paged
    <3> DEFINE v == log[j].writer
    <3>3. h \in DOMAIN disk'[v] /\ disk'[v][h] = Header(j)
      BY <3>1, <3>2, <1>k
    <3>4. ASSUME NEW k \in DOMAIN disk'[v], h <= k
          PROVE  disk'[v][k] # Footer(j)
      <4>1. CASE k \in DOMAIN disk[v]
        BY <3>1, <3>2, <3>4, <4>1, <1>k
      <4>2. CASE k \notin DOMAIN disk[v]
        <5>1. disk'[v][k] = Footer(l)
          BY <3>1, <3>4, <4>2, <1>n
        <5> QED BY <5>1, <3>1 DEF Footer
      <4> QED BY <4>1, <4>2
    <3> QED BY <3>1, <3>3, <3>4
  <2> QED BY <2>1 DEF Paged
<1>5. LogIsComplete'
  <2>1. ASSUME NEW j \in Logs, NEW k \in DOMAIN logged[j]
        PROVE  \E f \in Files : \E i \in DOMAIN disk'[f] :
                 IsOutput(disk'[f][i], j) /\ disk'[f][i].n = logged[j][k]
    <3>1. PICK f \in Files : \E i \in DOMAIN disk[f] :
            IsOutput(disk[f][i], j) /\ disk[f][i].n = logged[j][k]
      BY DEF Inv, LogIsComplete
    <3>2. PICK i \in DOMAIN disk[f] : IsOutput(disk[f][i], j) /\ disk[f][i].n = logged[j][k]
      BY <3>1
    <3>3. i \in DOMAIN disk'[f] /\ disk'[f][i] = disk[f][i]
      BY <3>1, <3>2, <1>k
    <3>4. IsOutput(disk'[f][i], j) /\ disk'[f][i].n = logged[j][k]
      BY <3>2, <3>3
    <3> QED BY <3>1, <3>3, <3>4
  <2>2. ASSUME NEW j \in Logs, NEW f \in Files, NEW g \in Files,
               NEW a \in DOMAIN disk'[f], NEW b \in DOMAIN disk'[g],
               IsOutput(disk'[f][a], j), IsOutput(disk'[g][b], j)
        PROVE  /\ \E k \in DOMAIN logged[j] : logged[j][k] = disk'[f][a].n
               /\ disk'[f][a].n < disk'[g][b].n <=> ReadBefore(f, a, g, b)
    <3>1. /\ a \in DOMAIN disk[f] /\ disk'[f][a] = disk[f][a]
          /\ b \in DOMAIN disk[g] /\ disk'[g][b] = disk[g][b]
      BY <2>2, <1>o DEF IsOutput
    <3>2. IsOutput(disk[f][a], j) /\ IsOutput(disk[g][b], j)
      BY <2>2, <3>1
    <3>3. /\ \E k \in DOMAIN logged[j] : logged[j][k] = disk[f][a].n
          /\ disk[f][a].n < disk[g][b].n <=> ReadBefore(f, a, g, b)
      BY <3>1, <3>2 DEF Inv, LogIsComplete
    <3> QED BY <3>1, <3>3
  <2> QED BY <2>1, <2>2, <1>a DEF LogIsComplete
<1>6. RightDay'
  <2>1. ASSUME NEW f \in Files, NEW i \in DOMAIN disk'[f], disk'[f][i].kind = "output"
        PROVE  \/ f[1] = disk'[f][i].day
               \/ \E m \in 1..disk'[f][i].n - 1 : <<m, disk'[f][i].day>> \in refused'[disk'[f][i].by]
    <3>1. i \in DOMAIN disk[f] /\ disk'[f][i] = disk[f][i]
      BY <2>1, <1>o
    <3>2. \/ f[1] = disk[f][i].day
          \/ \E m \in 1..disk[f][i].n - 1 : <<m, disk[f][i].day>> \in refused[disk[f][i].by]
      BY <2>1, <3>1 DEF Inv, RightDay
    <3>3. disk[f][i].by \in Logs
      <4>1. disk[f] \in Seq(Text) /\ i \in 1..Len(disk[f])
        BY <3>1, <1>d, <1>t DEF TypeOK
      <4>2. disk[f][i] \in Text
        BY <4>1, ElementOfSeq
      <4> QED BY <4>2 DEF Text
    <3> QED BY <3>1, <3>2, <3>3, <1>r
  <2> QED BY <2>1 DEF RightDay
<1>7. InsidePage'
  <2>1. ASSUME Html, NEW f \in Files, NEW i \in DOMAIN disk'[f], disk'[f][i].kind = "output"
        PROVE  \E h \in 1..i - 1 : /\ disk'[f][h] = Header(disk'[f][i].by)
                                   /\ \A k \in h..i : disk'[f][k] # Footer(disk'[f][i].by)
    <3>1. i \in DOMAIN disk[f] /\ disk'[f][i] = disk[f][i]
      BY <2>1, <1>o
    <3>2. PICK h \in 1..i - 1 : /\ disk[f][h] = Header(disk[f][i].by)
                                /\ \A k \in h..i : disk[f][k] # Footer(disk[f][i].by)
      BY <2>1, <3>1 DEF Inv, InsidePage
    <3>3. h \in DOMAIN disk[f] /\ \A k \in h..i : k \in DOMAIN disk[f]
      BY <3>1, <3>2, <1>d
    <3> QED BY <3>1, <3>2, <3>3, <1>k
  <2> QED BY <2>1 DEF InsidePage
<1> QED BY <1>1, <1>2, <1>3, <1>4, <1>5, <1>6, <1>7 DEF Inv

\* A day further on, no tab has looked at the clock.
LEMMA MidnightKeeps ==
  ASSUME Inv, Midnight
  PROVE  Inv'
<1>1. /\ day \in 1..MaxDay /\ day' = day + 1 /\ day' \in 1..MaxDay
      /\ disk' = disk /\ log' = log /\ writes' = writes /\ logged' = logged /\ refused' = refused
  BY LogAssumption DEF Inv, TypeOK, Midnight
<1>2. TypeOK'
  BY <1>1 DEF Inv, TypeOK
<1>3. Clock'
  <2>1. ASSUME NEW l \in Logs
        PROVE  /\ log[l].date <= day' /\ log[l].writer[1] <= day' /\ log[l].writer[2] = 0
               /\ log[l].date # day'
    <3>1. log[l].date <= day /\ log[l].writer[1] <= day /\ log[l].writer[2] = 0
      BY DEF Inv, Clock
    <3>2. log[l].date \in Nat /\ log[l].writer[1] \in Nat /\ day \in Nat
      BY LogAssumption, <1>1 DEF Inv, TypeOK, Writer, Files
    <3> QED BY <3>1, <3>2, <1>1
  <2> QED BY <2>1, <1>1 DEF Clock
<1>4. Placed' /\ Paged' /\ LogIsComplete' /\ RightDay' /\ InsidePage'
  BY <1>1 DEF Inv, Placed, Paged, LogIsComplete, RightDay, InsidePage
<1> QED BY <1>2, <1>3, <1>4 DEF Inv

\* A new SessionLog begins in the file of the day, after all there is.
LEMMA ReconnectKeeps ==
  ASSUME Inv, NEW l \in Logs, Reconnect(l)
  PROVE  Inv'
<1>t. /\ day \in 1..MaxDay /\ day \in 0..MaxDay /\ <<day, 0>> \in Files /\ day \in Nat
      /\ log \in [Logs -> Writer] /\ disk \in [Files -> Seq(Text)]
  BY LogAssumption DEF Inv, TypeOK, Files
<1>1. /\ day' = day /\ disk' = disk /\ writes' = writes /\ logged' = logged /\ refused' = refused
      /\ log' = [log EXCEPT ![l] = Fresh(day)]
  BY DEF Reconnect
<1>2. /\ log' \in [Logs -> Writer] /\ log'[l].writer = <<day, 0>>
      /\ log'[l].date = day /\ log'[l].html = FALSE
      /\ \A j \in Logs : j # l => log'[j] = log[j]
  <2>1. /\ Fresh(day) \in Writer /\ Fresh(day).writer = <<day, 0>>
        /\ Fresh(day).date = day /\ Fresh(day).html = FALSE
    BY <1>t DEF Fresh, Path, Writer
  <2> QED BY <1>1, <1>t, <2>1
<1>3. TypeOK'
  BY <1>1, <1>2 DEF Inv, TypeOK
<1>4. Clock'
  <2>1. ASSUME NEW j \in Logs
        PROVE  /\ log'[j].date <= day /\ log'[j].writer[1] <= day /\ log'[j].writer[2] = 0
               /\ log'[j].date = day =>
                    log'[j].writer[1] = day \/ \E m \in 1..writes : <<m, day>> \in refused[j]
    <3>1. CASE j = l
      BY <3>1, <1>2, <1>t
    <3>2. CASE j # l
      BY <3>2, <1>2 DEF Inv, Clock
    <3> QED BY <3>1, <3>2
  <2> QED BY <2>1, <1>1 DEF Clock
<1>5. Placed'
  <2>1. ASSUME NEW f \in Files, NEW i \in DOMAIN disk[f], disk[f][i].kind = "output"
        PROVE  /\ disk[f][i].n \in 1..writes
               /\ f[1] <= log'[disk[f][i].by].writer[1] /\ f[2] = 0
    <3>1. /\ disk[f][i].n \in 1..writes /\ f[2] = 0
          /\ f[1] <= log[disk[f][i].by].writer[1]
      BY <2>1 DEF Inv, Placed
    <3>2. disk[f][i].by \in Logs
      <4>1. disk[f] \in Seq(Text) /\ i \in 1..Len(disk[f])
        BY <1>t, LenProperties
      <4>2. disk[f][i] \in Text
        BY <4>1, ElementOfSeq
      <4> QED BY <4>2 DEF Text
    <3>3. CASE disk[f][i].by = l
      <4>1. f[1] <= log[l].writer[1] /\ log[l].writer[1] <= day
        BY <3>1, <3>3 DEF Inv, Clock
      <4>2. f[1] \in Nat /\ log[l].writer[1] \in Nat
        BY <1>t, LogAssumption, SMTT(30) DEF Writer, Files
      <4>3. f[1] <= day
        BY <4>1, <4>2, <1>t
      <4> QED BY <3>1, <3>3, <4>3, <1>2
    <3>4. CASE disk[f][i].by # l
      BY <3>1, <3>2, <3>4, <1>2
    <3> QED BY <3>3, <3>4
  <2> QED BY <2>1, <1>1 DEF Placed
<1>6. Paged'
  <2>1. ASSUME Html, NEW j \in Logs, log'[j].html
        PROVE  \E h \in DOMAIN disk[log'[j].writer] :
                 /\ disk[log'[j].writer][h] = Header(j)
                 /\ \A k \in DOMAIN disk[log'[j].writer] : h <= k => disk[log'[j].writer][k] # Footer(j)
    <3>1. j # l /\ log'[j] = log[j] /\ log[j].html
      BY <2>1, <1>2
    <3> QED BY <2>1, <3>1 DEF Inv, Paged
  <2> QED BY <2>1, <1>1 DEF Paged
<1>7. LogIsComplete' /\ RightDay' /\ InsidePage'
  BY <1>1 DEF Inv, LogIsComplete, RightDay, InsidePage
<1> QED BY <1>3, <1>4, <1>5, <1>6, <1>7 DEF Inv

LEMMA BeginsWell == Init => Inv
<1> SUFFICES ASSUME Init PROVE Inv
  OBVIOUS
<1>1. /\ day = 1 /\ writes = 0 /\ disk = [f \in Files |-> <<>>]
      /\ log = [l \in Logs |-> Fresh(1)]
      /\ logged = [l \in Logs |-> <<>>] /\ refused = [l \in Logs |-> {}]
  BY DEF Init
<1>2. 1 \in 1..MaxDay /\ 1 \in 0..MaxDay /\ 0 \in 0..MaxWrites /\ <<1, 0>> \in Files
  BY LogAssumption DEF Files
<1>3. /\ Fresh(1) \in Writer /\ Fresh(1).date = 1 /\ Fresh(1).html = FALSE
      /\ Fresh(1).writer[1] = 1 /\ Fresh(1).writer[2] = 0
  BY <1>2 DEF Fresh, Path, Writer
<1>4. TypeOK
  BY <1>1, <1>2, <1>3, EmptySeq DEF TypeOK
<1>5. Clock /\ Paged
  BY <1>1, <1>3 DEF Clock, Paged
<1>6. \A f \in Files : disk[f] = <<>> /\ DOMAIN disk[f] = {}
  BY <1>1
<1>7. \A l \in Logs : DOMAIN logged[l] = {}
  <2>1. \A l \in Logs : logged[l] = <<>>
    BY <1>1
  <2>2. DOMAIN <<>> = {}
    OBVIOUS
  <2> QED BY <2>1, <2>2, Zenon
<1>8. Placed /\ RightDay
  BY <1>6 DEF Placed, RightDay
<1>9. LogIsComplete
  BY <1>6, <1>7 DEF LogIsComplete
<1>10. InsidePage
  BY <1>6 DEF InsidePage
<1> QED BY <1>4, <1>5, <1>8, <1>9, <1>10 DEF Inv

LEMMA StepsKeep == Inv /\ [Next]_vars => Inv'
<1> SUFFICES ASSUME Inv, [Next]_vars PROVE Inv'
  OBVIOUS
<1>1. CASE Midnight
  BY <1>1, MidnightKeeps
<1>2. ASSUME NEW l \in Logs, WriteBytes(l) PROVE Inv'
  BY <1>2, WriteKeeps
<1>3. ASSUME NEW l \in Logs, WriteBytesFails(l) PROVE Inv'
  BY <1>3, WriteFailsKeeps
<1>4. ASSUME NEW l \in Logs, Reconnect(l) PROVE Inv'
  BY <1>4, ReconnectKeeps
<1>5. CASE UNCHANGED vars
  BY <1>5 DEF vars, Inv, TypeOK, Clock, Placed, Paged, LogIsComplete, RightDay, InsidePage
<1> QED BY <1>1, <1>2, <1>3, <1>4, <1>5 DEF Next

-----------------------------------------------------------------------------
(***************************************************************************)
(* The theorems.                                                           *)
(***************************************************************************)

\* Writers, files and the clock fit together in every state.
THEOREM Logging == Spec => []Inv
<1> QED BY BeginsWell, StepsKeep, PTL DEF Spec

\* What write_bytes returned Ok for is in the log, once and in the order of
\* writing, over days, failures to open a file and reconnections
\* (logging/mod.rs:176-197, 343-370).
THEOREM LogsAll == Spec => []LogIsComplete
<1>1. Inv => LogIsComplete
  BY DEF Inv
<1> QED BY <1>1, Logging, PTL

\* Output goes to the file of its day, but for a tab that could not open it
\* (logging/mod.rs:343-369).
THEOREM EachDayItsFile == Spec => []RightDay
<1>1. Inv => RightDay
  BY DEF Inv
<1> QED BY <1>1, Logging, PTL

\* In an HTML log the output of a tab is inside a page the tab opened and
\* has not closed, however many tabs share the file (logging/mod.rs:318-338,
\* 351-358).
THEOREM EachPageItsOutput == Spec => []InsidePage
<1>1. Inv => InsidePage
  BY DEF Inv
<1> QED BY <1>1, Logging, PTL
=============================================================================
