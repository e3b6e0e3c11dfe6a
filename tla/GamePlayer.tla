----------------------------- MODULE GamePlayer -----------------------------
(***************************************************************************)
(* What the viewer promises its user: a game, a place in it, and a board   *)
(* that shows the position there.  Nothing is remembered of the way to the *)
(* place, nothing is awaited.                                              *)
(***************************************************************************)
EXTENDS Integers, Sequences

CONSTANTS START, Apply(_, _), Library    \* the games there are to see

VARIABLES game, cursor, shown

vars == <<game, cursor, shown>>

\* The position after the first n moves of g.
PositionAfter(g, n) ==
    LET after[i \in 0..Len(g)] ==
            IF i = 0 THEN START ELSE Apply(after[i - 1], g[i])
    IN  after[n]

\* The cursor moves within the game, and the board with it.
GoTo(n) ==
    /\ n \in 0..Len(game)
    /\ cursor' = n
    /\ shown' = PositionAfter(game, n)
    /\ UNCHANGED game

Forward == GoTo(cursor + 1)
Back == GoTo(cursor - 1)
Rewind == GoTo(0)

\* Another game is opened, or this one is put away.
Open ==
    /\ game' \in Library \union {<<>>}
    /\ cursor' = 0 /\ shown' = START

Init == game = <<>> /\ cursor = 0 /\ shown = START
Next == Forward \/ Back \/ Rewind \/ Open
Spec == Init /\ [][Next]_vars

=============================================================================
