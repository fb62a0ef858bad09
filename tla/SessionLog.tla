----------------------------- MODULE SessionLog -----------------------------
(***************************************************************************)
(* The session log (crates/waystone-comm-core/src/logging/mod.rs): which   *)
(* file of the entry's log directory each piece of session output goes to, *)
(* over days, size limits, reconnections and several tabs on one entry.    *)
(*                                                                         *)
(* A write of session output is one unit long, and so is the HTML header.  *)
(* Formatting, stripping and scrubbing of the text are left out.           *)
(***************************************************************************)
EXTENDS Naturals, Sequences

CONSTANTS
  Logs,        \* tabs open on the entry, each with its SessionLog
  Limit,       \* max_size_bytes, in units; 0: none
  Html,        \* the format writes a header and a footer
  OpenMayFail, \* whether opening a log file can fail after the first one
  MaxDay,      \* bound of the model: days
  MaxWrites    \* bound of the model: writes

ASSUME LogAssumption ==
  /\ Limit \in Nat /\ Html \in BOOLEAN /\ OpenMayFail \in BOOLEAN
  /\ MaxDay \in Nat \ {0} /\ MaxWrites \in Nat

Unset == 0   \* the empty date string

\* current_log_path
Path(date, seq) == <<date, seq>>
Files == (1..MaxDay) \X (0..MaxWrites)

Header(l)  == [kind |-> "head", by |-> l, n |-> 0, day |-> 0]
Footer(l) == [kind |-> "foot", by |-> l, n |-> 0, day |-> 0]
Output(l, n, d) == [kind |-> "output", by |-> l, n |-> n, day |-> d]

VARIABLES
  day,     \* Local::now()
  disk,    \* content of each file
  log,     \* the SessionLog of each tab
  writes,  \* writes so far
  logged,  \* what write_bytes returned Ok for, per tab
  refused  \* what it returned an error for, and on which day

vars == <<day, disk, log, writes, logged, refused>>

\* SessionLog::new, which opens the day's first file.
Fresh(d) == [writer |-> Path(d, 0), date |-> d, seq |-> 0, size |-> 0, html |-> FALSE]

Init ==
  /\ day = 1
  /\ disk = [f \in Files |-> <<>>]
  /\ log = [l \in Logs |-> Fresh(1)]
  /\ writes = 0
  /\ logged = [l \in Logs |-> <<>>]
  /\ refused = [l \in Logs |-> {}]

-----------------------------------------------------------------------------
\* MUTANT: the date is not looked at once a file is open.
Due_never(l) == log[l].date = Unset

\* rotate_if_needed: whether a file has to be opened.
Due(l) == log[l].date # day

\* It closes the HTML page in the old file ...
Closed(l) ==
  IF log[l].html THEN [disk EXCEPT ![log[l].writer] = Append(@, Footer(l))] ELSE disk

\* MUTANT: the new file's header is not asked for.
Turned_headless(l) == [log[l] EXCEPT !.seq = 0, !.date = day, !.size = 0]

\* ... and turns to a new name.  A date that differs, which it does after a
\* size rotation too, resets the sequence number.
Turned(l) == [log[l] EXCEPT !.html = FALSE, !.seq = 0, !.date = day, !.size = 0]

\* MUTANT: the file is created anew.
Opened_truncated(l) ==
  LET path == Path(Turned(l).date, Turned(l).seq)
  IN [log |-> [Turned(l) EXCEPT !.writer = path], disk |-> [Closed(l) EXCEPT ![path] = <<>>]]

\* OpenOptions::new().create(true).append(true).open
Opened(l) ==
  [log |-> [Turned(l) EXCEPT !.writer = Path(Turned(l).date, Turned(l).seq)],
   disk |-> Closed(l)]

\* One format's write to the open file; beyond the limit the next write is
\* made to look for a new one.
Appended(l, rec, content) ==
  LET text  == IF Html /\ ~rec.html
               THEN <<Header(l), Output(l, writes', day)>> ELSE <<Output(l, writes', day)>>
      total == rec.size + Len(text)
      full  == Limit > 0 /\ total >= Limit
  IN /\ disk' = [content EXCEPT ![rec.writer] = @ \o text]
     /\ log' = [log EXCEPT ![l] =
                  [rec EXCEPT !.size = total, !.html = Html,
                              !.seq  = IF full THEN @ + 1 ELSE @,
                              !.date = IF full THEN Unset ELSE @]]
     /\ logged' = [logged EXCEPT ![l] = Append(@, writes')]

WriteBytes(l) ==
  /\ writes < MaxWrites /\ writes' = writes + 1
  /\ IF Due(l)
     THEN Appended(l, Opened(l).log, Opened(l).disk)
     ELSE Appended(l, log[l], disk)
  /\ UNCHANGED <<day, refused>>

\* The new file cannot be opened: the error is returned with the old writer
\* still in place and the date already turned.
WriteBytesFails(l) ==
  /\ OpenMayFail /\ Due(l)
  /\ writes < MaxWrites /\ writes' = writes + 1
  /\ log' = [log EXCEPT ![l] = Turned(l)]
  /\ disk' = Closed(l)
  /\ refused' = [refused EXCEPT ![l] = @ \cup {<<writes', day>>}]
  /\ UNCHANGED <<day, logged>>

Midnight ==
  /\ day < MaxDay /\ day' = day + 1
  /\ UNCHANGED <<disk, log, writes, logged, refused>>

\* The tab is closed and the entry connected again.
Reconnect(l) ==
  /\ log' = [log EXCEPT ![l] = Fresh(day)]
  /\ UNCHANGED <<day, disk, writes, logged, refused>>

Next ==
  \/ Midnight
  \/ \E l \in Logs : WriteBytes(l) \/ WriteBytesFails(l) \/ Reconnect(l)

Spec == Init /\ [][Next]_vars
-----------------------------------------------------------------------------
\* Whether e is output of the tab l, and the order of reading the directory:
\* file after file in the order of their names.
IsOutput(e, l) == e.kind = "output" /\ e.by = l
ReadBefore(f, i, g, j) ==
  \/ f[1] < g[1]
  \/ f[1] = g[1] /\ f[2] < g[2]
  \/ f = g /\ i < j

\* What a session was told is logged is in the log, once and in the order in
\* which it was written, whichever files it went to (logging/mod.rs:176-197,
\* 343-370).
LogIsComplete ==
  \A l \in Logs :
    /\ \A k \in DOMAIN logged[l] : \E f \in Files : \E i \in DOMAIN disk[f] :
         IsOutput(disk[f][i], l) /\ disk[f][i].n = logged[l][k]
    /\ \A f, g \in Files : \A i \in DOMAIN disk[f], j \in DOMAIN disk[g] :
         IsOutput(disk[f][i], l) /\ IsOutput(disk[g][j], l) =>
           /\ \E k \in DOMAIN logged[l] : logged[l][k] = disk[f][i].n
           /\ disk[f][i].n < disk[g][j].n <=> ReadBefore(f, i, g, j)

\* "Date rotation happens automatically": output is in the file of the day
\* on which it was written, except that a tab which was told that day that
\* a write failed goes on in its old file (logging/mod.rs:4, 343-369).
RightDay ==
  \A f \in Files : \A i \in DOMAIN disk[f] :
    LET e == disk[f][i] IN
    e.kind = "output" =>
      f[1] = e.day \/ \E m \in 1..e.n - 1 : <<m, e.day>> \in refused[e.by]

\* In an HTML log all output of a session is inside a page of its own,
\* whatever other tabs write to the file: behind its header and not behind
\* its footer (logging/mod.rs:318-338, 351-358).
InsidePage ==
  Html => \A f \in Files : \A i \in DOMAIN disk[f] :
    disk[f][i].kind = "output" =>
      \E h \in 1..i-1 :
        /\ disk[f][h] = Header(disk[f][i].by)
        /\ \A k \in h..i : disk[f][k] # Footer(disk[f][i].by)

Size(f) == Len(SelectSeq(disk[f], LAMBDA e : e.kind # "foot"))

\* "Optional size-based rotation caps each file": what one tab writes to a
\* file is at most one write above the limit (logging/mod.rs:4, 42;
\* 192-195, 360-362).
Capped == Limit > 0 => \A f \in Files : Size(f) <= Limit + 1

=============================================================================
