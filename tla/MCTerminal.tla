----------------------------- MODULE MCTerminal -----------------------------
(* Terminal on small screens: fresh ones, and screens whose every cell has a *)
(* character of its own, with margins set and the cursor, just saved, in the *)
(* middle or in a corner: what a few sequences of the remote leave.          *)
EXTENDS Terminal

MCSizes == {<<3, 3>>, <<2, 2>>, <<4, 2>>, <<1, 3>>}

Letters == <<"a", "b", "c", "d", "e", "f", "g", "h", "i">>
Written(s, at, top, bottom) ==
    [s EXCEPT !.grid = [y \in 1..s.rows |-> [x \in 1..s.cols |->
                          [ch |-> Letters[(y - 1) * s.cols + x], style |-> Plain]]],
              !.col = Min({at, s.cols - 1}), !.row = at,
              !.top = top, !.bottom = bottom,
              !.saved = [col |-> Min({at, s.cols - 1}), row |-> at, style |-> Plain]]

WrittenInit ==
    /\ emulation \in {"xterm", "ansi-bbs"}
    /\ \E at \in 0..2, margins \in {<<0, 2>>, <<0, 1>>, <<1, 2>>} :
          t = Written(New(CanvasCols(3), 3), at, margins[1], margins[2])
    /\ held = FALSE /\ conts = 0 /\ fed = <<>> /\ heard = <<>>
    /\ strayed = FALSE /\ main = Gone /\ steps = 0

MCSpec == (Init \/ WrittenInit) /\ [][Next]_vars
=============================================================================
