----------------------------- MODULE MCBoardFsm -----------------------------
(***************************************************************************)
(* A small instance of BoardFsm: each behaviour chooses at the start the   *)
(* few squares on which hands lift and put pieces, one set for each part   *)
(* of the rules, and up to which ply they play on.                         *)
(***************************************************************************)
EXTENDS BoardFsm

VARIABLE hands

Play(squares, plies) == [squares |-> squares, plies |-> plies]

Plays == {
    \* White castles kingside: e1, f1, g1, h1; the black knight of b8 plays.
    Play({1, 60, 61, 62, 63}, 2),
    \* Black castles queenside: e8, d8, c8, a8; the white knight of g1 plays.
    Play({0, 2, 3, 4, 62}, 1),
    \* e2 and d2 pawns, e3, e4, and the knight of b8: en passant squares.
    Play({1, 36, 44, 51, 52}, 2),
    \* The white king e1 and pawn e2, the black pawn e7 and knight b8: both
    \* pawns reach their last row by a capture.
    Play({1, 12, 52, 60}, 2),
    \* The white pawn e2, the black pawn e7 and knight b8: as long as they
    \* like, so that ply wraps.
    Play({1, 12, 52}, U8 - 1) }

AllHands == UNION {h.squares : h \in Plays}

PlyBound == ply <= hands.plies

MCInit == Init /\ hands \in Plays

MCNext ==
    /\ \/ Reset
       \/ \E pin \in hands.squares, is_up \in BOOLEAN : PinChange(pin, is_up)
    /\ UNCHANGED hands

MCSpec == MCInit /\ [][MCNext]_<<vars, hands>>

=============================================================================
