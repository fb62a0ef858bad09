------------------------------ MODULE Terminal ------------------------------
(* The terminal: TerminalEmulator (terminal/emulator.rs) in front of        *)
(* TerminalState (terminal/state.rs).                                       *)
(*                                                                          *)
(* t is the TerminalState, with the fields of the struct; the operators on  *)
(* it are its methods, the actions are what the vte parser calls for one    *)
(* character, control or escape sequence of the remote program.  held,      *)
(* conts, fed and heard are the emulator in front of the parser, byte by    *)
(* byte, for the bytes above 0x7f; strayed and main are history.            *)
(* Arithmetic on u16 wraps, as in the release build.                        *)
EXTENDS Integers, Sequences, SequencesExt

CONSTANTS Sizes,      \* <<columns, rows>> the window takes, the first at the start
          Canvas,     \* columns an ansi-bbs screen has at most (80 in the code)
          TabWidth,   \* 8 in the code
          Counts,     \* parameters of the sequences that count
          Columns,    \* columns that CHA and CUP name, counted from 0
          Rows,       \* rows that CUP, VPA and DECSTBM name, counted from 0
          MaxSteps    \* bound: characters, sequences and resizes

ASSUME SizesAssumption == Sizes \subseteq (Nat \ {0}) \X (Nat \ {0})
ASSUME ParametersAssumption ==
    /\ Canvas \in Nat \ {0} /\ TabWidth \in Nat \ {0} /\ MaxSteps \in Nat
    /\ Counts \subseteq Nat /\ Columns \subseteq Nat /\ Rows \subseteq Nat

VARIABLES t, emulation, held, conts, fed, heard, strayed, main, steps

utf8 == <<held, conts, fed, heard>>
vars == <<t, emulation, held, conts, fed, heard, strayed, main, steps>>

Plus(a, b) == (a + b) % 65536
Less(a, b) == IF a > b THEN a - b ELSE 0          \* saturating_sub

----------------------------------------------------------------------------
(* Cells and the state                                                      *)

Plain  == [bold |-> FALSE, bg |-> "default"]
Styles == {Plain, [bold |-> TRUE, bg |-> "blue"]}
Space  == [ch |-> "space", style |-> Plain]
Lines(cols, rows) == [r \in 1..rows |-> [c \in 1..cols |-> Space]]
Stops(cols) == {c \in 0..cols-1 : c % TabWidth = 0}

New(cols, rows) ==
    [cols |-> cols, rows |-> rows, grid |-> Lines(cols, rows),
     col |-> 0, row |-> 0, visible |-> TRUE, style |-> Plain,
     saved |-> [col |-> 0, row |-> 0, style |-> Plain],
     top |-> 0, bottom |-> rows - 1, stops |-> Stops(cols),
     pending_wrap |-> FALSE, auto_wrap |-> TRUE, in_alt |-> FALSE,
     alt |-> [grid |-> Lines(cols, rows), col |-> 0, row |-> 0, visible |-> TRUE],
     title |-> FALSE, cursor_keys |-> FALSE, output |-> <<>>,
     g0 |-> "ascii", g1 |-> "ascii", charset |-> "ascii", panicked |-> FALSE]

OnScreen(s) == s.col < s.cols /\ s.row < s.rows

(* A row index past the grid panics in every method that indexes it.        *)
NoRow(s) == s.row >= Len(s.grid)
Unless(bad, s, result) == IF bad THEN [s EXCEPT !.panicked = TRUE] ELSE result

Blank(s)     == [ch |-> "space", style |-> [Plain EXCEPT !.bg = s.style.bg]]
BlankLine(s) == [c \in 1..s.cols |-> Blank(s)]

Fit(grid, cols, rows) ==
    [r \in 1..rows |-> [c \in 1..cols |->
        IF r <= Len(grid) /\ c <= Len(grid[r]) THEN grid[r][c] ELSE Space]]

\* MUTANT: the cursor of the other screen is not clamped.
Resized_unclamped(s, cols, rows) ==
    [s EXCEPT !.grid = Fit(@, cols, rows), !.cols = cols, !.rows = rows,
              !.top = 0, !.bottom = rows - 1,
              !.col = Min({@, cols - 1}), !.row = Min({@, rows - 1}),
              !.alt.grid = Fit(@, cols, rows), !.stops = Stops(cols)]

Resized(s, cols, rows) ==
    [s EXCEPT !.grid = Fit(@, cols, rows), !.cols = cols, !.rows = rows,
              !.top = 0, !.bottom = rows - 1,
              !.col = Min({@, cols - 1}), !.row = Min({@, rows - 1}),
              !.alt = [grid |-> Fit(@.grid, cols, rows), visible |-> @.visible,
                       col |-> Min({@.col, cols - 1}), row |-> Min({@.row, rows - 1})],
              !.stops = Stops(cols)]

----------------------------------------------------------------------------
(* Lines: scrolling, inserting and deleting all take the line at index from *)
(* out and put a blank one in at index to, n times.                         *)

Shifted(s, from, to, n) ==
    LET after[k \in 0..n] ==
          IF k = 0 THEN s.grid
          ELSE LET g == after[k-1] IN
               InsertAt(IF from < Len(g) THEN RemoveAt(g, from + 1) ELSE g,
                        to + 1, BlankLine(s))
    IN [s EXCEPT !.grid = after[n]]

\* MUTANT: the top margin is forgotten.
ScrollUp_whole(s, n) == Shifted(s, 0, s.bottom, Min({n, s.bottom + 1}))

ScrollUp(s, n)   == Shifted(s, s.top, s.bottom, Min({n, s.bottom - s.top + 1}))
ScrollDown(s, n) == Shifted(s, s.bottom, s.top, Min({n, s.bottom - s.top + 1}))
DeleteLines(s, n) == Shifted(s, s.row, s.bottom, n)
InsertLines(s, n) == Unless(NoRow(s), s, Shifted(s, s.bottom, s.row, n))

AdvanceRow(s) ==
    CASE s.row = s.bottom                        -> ScrollUp(s, 1)
      [] s.row # s.bottom /\ s.row + 1 < s.rows  -> [s EXCEPT !.row = @ + 1]
      [] OTHER                                   -> s

----------------------------------------------------------------------------
(* Characters                                                               *)

Mapped(charset, ch) == IF charset = "line" /\ ch = "q" THEN "line-q" ELSE ch

PutChar(s, ch) ==
    LET w == IF s.pending_wrap
             THEN AdvanceRow([s EXCEPT !.col = 0, !.pending_wrap = FALSE]) ELSE s
        p == IF w.col < w.cols /\ ~NoRow(w)
             THEN [w EXCEPT !.grid[w.row + 1][w.col + 1] = [ch |-> ch, style |-> w.style]]
             ELSE w
    IN CASE w.col + 1 < w.cols                  -> [p EXCEPT !.col = @ + 1]
         [] w.col + 1 >= w.cols /\ w.auto_wrap  -> [p EXCEPT !.pending_wrap = TRUE]
         [] OTHER                               -> p

(* The cells of columns C in the cursor's row become cell.                  *)
Filled(s, C, cell) ==
    Unless(C # {} /\ (NoRow(s) \/ \E c \in C : c >= s.cols), s,
           [s EXCEPT !.grid[s.row + 1] =
               [c \in DOMAIN @ |-> IF c - 1 \in C THEN cell ELSE @[c]]])

BlankRows(s, R) ==
    [s EXCEPT !.grid = [r \in DOMAIN @ |-> IF r - 1 \in R THEN BlankLine(s) ELSE @[r]]]

EraseDisplay(s, mode) ==
    CASE mode = 0 -> Filled(BlankRows(s, s.row+1..s.rows-1), s.col..s.cols-1, Blank(s))
      [] mode = 1 -> Filled(BlankRows(s, 0..s.row-1), 0..s.col, Blank(s))
      [] mode = 2 -> BlankRows(s, 0..s.rows-1)

EraseLine(s, mode) ==
    CASE mode = 0 -> Filled(s, s.col..s.cols-1, Blank(s))
      [] mode = 1 -> Filled(s, 0..Min({s.col, s.cols - 1}), Blank(s))
      [] mode = 2 -> Filled(s, 0..s.cols-1, Blank(s))

EraseChars(s, n) == Filled(s, s.col..Min({s.col + n, s.cols})-1, Space)

DeleteChars(s, n) ==
    LET end == Min({s.cols, s.col + n}) IN
    Unless(NoRow(s) \/ s.col > end, s,
           [s EXCEPT !.grid[s.row + 1] =
               [c \in 1..s.cols |-> CASE c <= s.col                      -> @[c]
                                      [] c > s.col /\ c + end - s.col <= s.cols -> @[c + end - s.col]
                                      [] OTHER                           -> Blank(s)]])

InsertChars(s, n) ==
    Unless(NoRow(s) \/ s.col > s.cols, s,
           [s EXCEPT !.grid[s.row + 1] =
               [c \in 1..s.cols |-> CASE c <= s.col     -> @[c]
                                      [] c > s.col + n  -> @[c - n]
                                      [] OTHER          -> Space]])

----------------------------------------------------------------------------
(* The cursor                                                               *)

Loose(s) == [s EXCEPT !.pending_wrap = FALSE]

CursorUp(s, n)      == [Loose(s) EXCEPT !.row = Max({Less(@, n), s.top})]
CursorDown(s, n)    == [Loose(s) EXCEPT !.row = Min({Plus(@, n), s.bottom})]
CursorForward(s, n) == [Loose(s) EXCEPT !.col = Min({Plus(@, n), s.cols - 1})]
CursorBack(s, n)    == [Loose(s) EXCEPT !.col = Less(@, n)]
CursorGoto(s, c, r) == [Loose(s) EXCEPT !.col = Min({c, s.cols - 1}), !.row = Min({r, s.rows - 1})]
ColumnTo(s, c)      == [s EXCEPT !.col = c]
\* MUTANT: VPA takes the row as it comes.
RowTo_unclamped(s, r) == [s EXCEPT !.row = r]

RowTo(s, r)         == [s EXCEPT !.row = Min({r, s.rows - 1})]

SaveCursor(s)    == [s EXCEPT !.saved = [col |-> s.col, row |-> s.row, style |-> s.style]]
TakeSaved(s)     == [s EXCEPT !.col = s.saved.col, !.row = s.saved.row, !.style = s.saved.style]
RestoreCursor(s) == Loose(TakeSaved(s))

Tab(s) ==
    LET ahead == {c \in s.stops : c > s.col} \cup {s.cols - 1} IN
    [Loose(s) EXCEPT !.col = Min(ahead)]

BackTab(s, n) ==
    LET behind == {c \in s.stops : c < s.col}
        far    == {c \in behind : Cardinality({d \in behind : d >= c}) = n}
    IN Unless(s.col > s.cols, s, [s EXCEPT !.col = Max(far \cup {0})])

Margins(s, top, last) ==
    LET bottom == Min({last, s.rows - 1}) IN
    IF top < bottom
    THEN CursorGoto([s EXCEPT !.top = top, !.bottom = bottom], 0, 0)
    ELSE s

----------------------------------------------------------------------------
(* The alternate screen                                                     *)

Swapped(s) ==
    [s EXCEPT !.grid = s.alt.grid, !.col = s.alt.col, !.row = s.alt.row,
              !.visible = s.alt.visible,
              !.alt = [grid |-> s.grid, col |-> s.col, row |-> s.row, visible |-> s.visible]]

\* MUTANT: entering twice swaps twice.
EnterAlt_again(s, save) ==
    [Loose(Swapped(IF save THEN SaveCursor(s) ELSE s))
     EXCEPT !.grid = [r \in DOMAIN @ |-> IF r <= s.rows THEN Lines(s.cols, 1)[1] ELSE @[r]],
            !.col = 0, !.row = 0, !.in_alt = TRUE]

EnterAlt(s, save) ==
    IF s.in_alt THEN s
    ELSE [Loose(Swapped(IF save THEN SaveCursor(s) ELSE s))
          EXCEPT !.grid = [r \in DOMAIN @ |-> IF r <= s.rows THEN Lines(s.cols, 1)[1] ELSE @[r]],
                 !.col = 0, !.row = 0, !.in_alt = TRUE]

\* MUTANT: the saved cursor is restored before the screens are swapped.
LeaveAlt_early(s, restore) ==
    IF ~s.in_alt THEN s
    ELSE [Loose(Swapped(IF restore THEN TakeSaved(s) ELSE s)) EXCEPT !.in_alt = FALSE]

LeaveAlt(s, restore) ==
    IF ~s.in_alt THEN s
    ELSE [Loose(IF restore THEN TakeSaved(Swapped(s)) ELSE Swapped(s))
          EXCEPT !.in_alt = FALSE]

----------------------------------------------------------------------------
(* The emulator in front of the parser.  Bytes are classes: Lead[n] starts  *)
(* a character of n bytes (C2, which also encodes the C1 controls, apart),  *)
(* C1 is a continuation byte that is also a C1 control (0x9B, CSI), Cont    *)
(* any other continuation byte.  The remote sends well formed text, raw C1  *)
(* controls and encoded ones, cut into reads anywhere.                      *)

C1    == "9b"
C2    == "c2"
Cont  == "bf"
Lead2 == "c3"
Lead3 == "e2"
Lead4 == "f0"
Bytes == {C1, C2, Cont, Lead2, Lead3, Lead4}
CSI   == "csi"

ContinuationCount(b) ==
    CASE b \in {C2, Lead2} -> 1 [] b = Lead3 -> 2 [] b = Lead4 -> 3 [] OTHER -> 0

(* What a whole character or control looks like, and what may follow.       *)
Whole(bytes) == IF bytes = <<>> THEN TRUE ELSE Len(bytes) = 1 + ContinuationCount(bytes[1])
MayFollow(bytes, b) == IF Whole(bytes) THEN b # Cont ELSE b \in {C1, Cont}

(* A sequence may be introduced by ESC [ or by the C1 control just heard.   *)
Introduced == fed = <<CSI>>
Boundary   == Whole(heard)

OffScreenFrom(s) == strayed' = (strayed \/ ~OnScreen(s))

(* The terminal becomes s at the end of a character, a sequence or a        *)
(* resize.  Nothing follows a panic.                                        *)
Becomes(s) ==
    /\ steps < MaxSteps /\ ~t.panicked
    /\ t' = s
    /\ steps' = steps + 1
    /\ OffScreenFrom(s)
    /\ UNCHANGED emulation

(* Bytes below 0x80 pass the emulator one by one and end what was held.     *)
AsciiPasses == held' = FALSE /\ conts' = 0 /\ fed' = <<>> /\ heard' = <<>>

Csi(s) == Boundary /\ Becomes(s) /\ AsciiPasses
Plainly(s) == ~Introduced /\ Csi(s)    \* the remote ends a sequence it has begun
Esc(s) == Plainly(s)
SameMain == UNCHANGED main

(* What the parser is fed for the byte: nothing yet, a control, or bytes.   *)
Hold(b)    == held' = TRUE /\ conts' = conts /\ fed' = IF Whole(heard) THEN <<>> ELSE fed
Control    == held' = FALSE /\ conts' = 0 /\ fed' = IF Whole(heard) THEN <<CSI>> ELSE Append(fed, CSI)
Pass(bs, n) == held' = FALSE /\ conts' = n /\ fed' = IF Whole(heard) THEN bs ELSE fed \o bs

\* MUTANT: a continuation byte ends the character.
Track_short(b) == ContinuationCount(b)

Track(b) == IF conts > 0 /\ b \in {C1, Cont} THEN conts - 1 ELSE ContinuationCount(b)

ProcessByte(b) ==
    CASE held /\ b = C1                  -> Control
      [] held /\ b # C1                  -> Pass(<<C2, b>>, conts)
      [] ~held /\ conts = 0 /\ b = C2    -> Hold(b)
      [] ~held /\ conts = 0 /\ b = C1    -> Control
      [] OTHER                           -> Pass(<<b>>, Track(b))

(* One byte above 0x7f.  The parser prints a character when it has been fed *)
(* all its bytes.                                                           *)
Utf8Byte(b) ==
    /\ emulation = "xterm" /\ ~Introduced
    /\ MayFollow(heard, b)
    /\ heard' = IF Whole(heard) THEN <<b>> ELSE Append(heard, b)
    /\ ProcessByte(b)
    /\ Becomes(IF Whole(heard') /\ fed' = heard' THEN PutChar(t, "e-acute") ELSE t)
    /\ SameMain

Cp437Byte ==
    /\ emulation = "ansi-bbs"
    /\ Plainly(PutChar(t, "e-acute"))
    /\ SameMain

----------------------------------------------------------------------------
(* What the parser calls                                                    *)

PrintChar == Plainly(PutChar(t, Mapped(t.charset, "q"))) /\ SameMain

BackSpace      == Plainly([Loose(t) EXCEPT !.col = Less(@, 1)]) /\ SameMain
HorizontalTab  == Plainly(Tab(t)) /\ SameMain
LineFeed       == Plainly(Loose(AdvanceRow(t))) /\ SameMain
CarriageReturn == Plainly([Loose(t) EXCEPT !.col = 0]) /\ SameMain
ShiftOut       == Plainly([t EXCEPT !.charset = t.g1]) /\ SameMain
ShiftIn        == Plainly([t EXCEPT !.charset = t.g0]) /\ SameMain

Move(n) ==
    /\ \/ Csi(CursorUp(t, n))
       \/ Csi(CursorDown(t, n))
       \/ Csi(CursorForward(t, n))
       \/ Csi(CursorBack(t, n))
       \/ Csi([CursorDown(t, n) EXCEPT !.col = 0])
       \/ Csi([CursorUp(t, n) EXCEPT !.col = 0])
    /\ SameMain
CharacterAbsolute(c) == Csi(ColumnTo(t, c)) /\ SameMain
CursorPosition(c, r) == Csi(CursorGoto(t, c, r)) /\ SameMain
LineAbsolute(r)      == Csi(RowTo(t, r)) /\ SameMain
TabForward(n)        == Csi(IF n = 1 THEN Tab(t) ELSE Tab(Tab(t))) /\ SameMain
TabBackward(n)       == Csi(BackTab(t, n)) /\ SameMain

Erase(mode) ==
    (Csi(EraseDisplay(t, mode)) \/ Csi(EraseLine(t, mode))) /\ SameMain
EditLine(n) ==
    (Csi(InsertChars(t, n)) \/ Csi(EraseChars(t, n)) \/ Csi(DeleteChars(t, n))) /\ SameMain
EditLines(n) ==
    (Csi(InsertLines(t, n)) \/ Csi(DeleteLines(t, n))) /\ SameMain
Scroll(n) ==
    (Csi(ScrollUp(t, n)) \/ Csi(ScrollDown(t, n))) /\ SameMain

SelectRendition(style) == Csi([t EXCEPT !.style = style]) /\ SameMain
SetMargins(top, last)  == Csi(Margins(t, top, last)) /\ SameMain

ReportStatus   == Csi([t EXCEPT !.output = Append(@, <<"ok">>)]) /\ SameMain
ReportPosition ==
    Csi([t EXCEPT !.output = Append(@, <<Plus(t.row, 1), Plus(t.col, 1)>>)]) /\ SameMain

(* Cursor keys, autowrap and visibility.                                    *)
SetMode(on) ==
    /\ \/ Csi([t EXCEPT !.cursor_keys = on])
       \/ Csi([t EXCEPT !.visible = on])
       \/ Csi(IF on THEN [t EXCEPT !.auto_wrap = TRUE] ELSE [Loose(t) EXCEPT !.auto_wrap = FALSE])
    /\ SameMain

(* main: the main screen as the alternate one found it, with the cursor     *)
(* that was saved on the way, if one was and nothing replaced it.           *)
Gone    == [grid |-> <<>>, cursor |-> <<>>]
Left(s, save) ==
    [grid |-> s.grid, cursor |-> IF save THEN <<s.col, s.row, s.style>> ELSE <<>>]

SetAlternate(save) ==
    /\ Csi(EnterAlt(t, save))
    /\ main' = IF t.in_alt THEN main ELSE Left(t, save)
ResetAlternate(restore) ==
    /\ Csi(LeaveAlt(t, restore))
    /\ main' = IF t.in_alt THEN Gone ELSE main

Save == /\ Csi(SaveCursor(t))                   \* CSI s, ESC 7
        /\ main' = [main EXCEPT !.cursor = <<>>]
Restore == Csi(RestoreCursor(t)) /\ SameMain    \* CSI u, ESC 8

ReverseIndex ==
    Esc(IF t.row = t.top THEN ScrollDown(t, 1) ELSE [t EXCEPT !.row = Less(@, 1)]) /\ SameMain
Index    == Esc(AdvanceRow(t)) /\ SameMain
NextLine == Esc(AdvanceRow([t EXCEPT !.col = 0])) /\ SameMain
Reset    == Esc(New(t.cols, t.rows)) /\ main' = Gone
DesignateG0(set) == Esc([t EXCEPT !.g0 = set, !.charset = set]) /\ SameMain
DesignateG1(set) == Esc([t EXCEPT !.g1 = set]) /\ SameMain
Title            == Esc([t EXCEPT !.title = TRUE]) /\ SameMain

(* After every chunk the session queues the reports for the remote.         *)
TakeOutput ==
    /\ t.output # <<>> /\ ~t.panicked
    /\ t' = [t EXCEPT !.output = <<>>]
    /\ UNCHANGED <<emulation, utf8, strayed, main, steps>>

(* The window was resized: ansi-bbs never gets more than Canvas columns.    *)
CanvasCols(cols) == IF emulation = "ansi-bbs" THEN Min({cols, Canvas}) ELSE cols
Resize(size) ==
    LET cols == CanvasCols(size[1]) IN
    /\ Becomes(Resized(t, cols, size[2]))
    /\ main' = IF t.in_alt THEN [main EXCEPT !.grid = Fit(@, cols, size[2])] ELSE main
    /\ UNCHANGED utf8

Executes ==
    \/ BackSpace \/ HorizontalTab \/ LineFeed \/ CarriageReturn \/ ShiftOut \/ ShiftIn
Dispatches ==
    \/ \E n \in Counts : \/ Move(n) \/ TabForward(n) \/ TabBackward(n)
                         \/ EditLine(n) \/ EditLines(n) \/ Scroll(n)
    \/ \E c \in Columns : CharacterAbsolute(c)
    \/ \E c \in Columns, r \in Rows : CursorPosition(c, r)
    \/ \E r \in Rows : LineAbsolute(r)
    \/ \E mode \in 0..2 : Erase(mode)
    \/ \E style \in Styles : SelectRendition(style)
    \/ \E top, last \in Rows : SetMargins(top, last)
    \/ ReportStatus \/ ReportPosition
    \/ \E on \in BOOLEAN : SetMode(on) \/ SetAlternate(on) \/ ResetAlternate(on)
    \/ Save \/ Restore
Escapes ==
    \/ ReverseIndex \/ Index \/ NextLine \/ Reset \/ Title
    \/ \E set \in {"ascii", "line"} : DesignateG0(set) \/ DesignateG1(set)

Init ==
    /\ emulation \in {"xterm", "ansi-bbs"}
    /\ t \in {New(CanvasCols(size[1]), size[2]) : size \in Sizes}
    /\ held = FALSE /\ conts = 0 /\ fed = <<>> /\ heard = <<>>
    /\ strayed = FALSE /\ main = Gone /\ steps = 0

Next ==
    \/ \E b \in Bytes : Utf8Byte(b)
    \/ Cp437Byte \/ PrintChar \/ Executes \/ Dispatches \/ Escapes
    \/ TakeOutput
    \/ \E size \in Sizes : Resize(size)

Spec == Init /\ [][Next]_vars

----------------------------------------------------------------------------
(* Properties                                                               *)

Shaped(s, g) == Len(g) = s.rows /\ \A r \in DOMAIN g : Len(g[r]) = s.cols

(* As long as the cursor has never left the screen nothing panics, both     *)
(* screens have the size of the window, the margins are inside it and the   *)
(* other screen's cursor too (all the methods that index the grid,          *)
(* state.rs 280-492, after any resize).                                     *)
Sound ==
    strayed \/
    /\ ~t.panicked
    /\ Shaped(t, t.grid) /\ Shaped(t, t.alt.grid)
    /\ t.top <= t.bottom /\ t.bottom < t.rows
    /\ OnScreen([t EXCEPT !.col = t.alt.col, !.row = t.alt.row])

SavedOnScreen == t.saved.col < t.cols /\ t.saved.row < t.rows

(* Only CHA, which sets the column as it comes, and the two ways to take    *)
(* back a cursor saved on a larger screen ever move it off the screen.      *)
StaysOnScreen ==
    [][ ~strayed /\ strayed'
          => \/ \E c \in Columns : CharacterAbsolute(c)
             \/ ~SavedOnScreen /\ (Restore \/ ResetAlternate(TRUE)) ]_vars

(* Whatever a full-screen program does, resizes included, the main screen   *)
(* is untouched under the alternate one (enter_alt_screen, resize).         *)
MainScreenKept == t.in_alt => t.alt.grid = main.grid

(* Leaving by ?1049l gives back the screen, and the cursor that entering by *)
(* ?1049h saved if nothing replaced it.                                     *)
BackAsItWas ==
    [][ t.in_alt /\ ResetAlternate(TRUE)
          => /\ t'.grid = main.grid
             /\ main.cursor # <<>> => main.cursor = <<t'.col, t'.row, t'.style>> ]_vars

Outside(s) == {r \in 1..s.rows : r - 1 < s.top \/ r - 1 > s.bottom}

(* What scrolls the region leaves the lines outside it alone: line feeds,   *)
(* (reverse) indexes, scrolling, and text that wraps at its bottom, which   *)
(* writes only in the line of the cursor.                                   *)
MarginsHold ==
    [][ /\ LineFeed \/ Index \/ NextLine \/ ReverseIndex \/ PrintChar \/ Cp437Byte
              \/ (\E n \in Counts : Scroll(n))
          => \A r \in Outside(t) : t'.grid[r] = t.grid[r] \/ r = t'.row + 1 ]_vars

(* Well formed text reaches the parser unchanged, but for the C2 held back, *)
(* and a C1 control, raw or encoded, becomes its escape sequence: never a   *)
(* continuation byte that looks like one (process_byte), however the bytes  *)
(* are cut into reads.                                                      *)
Utf8Intact ==
    IF heard \in {<<C1>>, <<C2, C1>>} THEN fed = <<CSI>> /\ ~held
    ELSE fed \o (IF held THEN <<C2>> ELSE <<>>) = heard
=============================================================================
