---------------------------- MODULE MCChessboard ----------------------------
(***************************************************************************)
(* Small instances of Chessboard: a page that steps through a game, and    *)
(* pieces that are dragged.                                                *)
(***************************************************************************)
EXTENDS Chessboard, TLC

CONSTANTS wP, bN, wB

Config(draggable, spare, off, onDrop) ==
    [draggable |-> draggable, sparePieces |-> spare, dropOffBoard |-> off,
     onDrop |-> onDrop]

\* The viewer's configuration: only dragging is off.
ViewerConfig == {Config(FALSE, FALSE, "snapback", {"none"})}

\* A board from which no piece is trashed, and one with spare pieces that are.
DragConfigs ==
    {Config(TRUE, FALSE, "snapback", {"none", "snapback"}),
     Config(TRUE, TRUE, "trash", {"none"})}

\* A game of four moves: a pawn steps forward, is taken by a knight, the
\* bishop takes the knight and goes back.
Game == <<
    <<1, 1>> :> wP @@ <<1, 2>> :> bN @@ <<2, 1>> :> wB,
    <<3, 1>> :> wP @@ <<1, 2>> :> bN @@ <<2, 1>> :> wB,
    <<3, 1>> :> bN @@ <<2, 1>> :> wB,
    <<3, 1>> :> wB,
    <<2, 1>> :> wB >>

History == {Game[n] : n \in DOMAIN Game}
GameStart == Game[1]

\* A page that steps through the game as the viewer's buttons next and prev do,
\* at any time, and turns the board.
StepThrough ==
    \/ \E n, m \in DOMAIN Game :
        /\ currentPosition = Game[n] /\ m \in {n - 1, n + 1}
        /\ Position(Game[m], TRUE)
    \/ Orientation("black")

StepNext == (StepThrough \/ Animations) /\ UNCHANGED config

StepSpec == Init /\ [][StepNext]_vars /\ Fairness

\* For the drags: a page that makes a move, sets the pieces up again or takes
\* them all, and turns and resizes the board, in the middle of drags too.
Placed == <<1, 1>> :> wP @@ <<2, 1>> :> bN
Takes == {<< << <<1, 1>>, <<2, 1>> >> >>}

\* On either square of a small board, the first of a large one, or off a small one.
DragPoints == {<<0, 0>>, <<1, 0>>, <<2, 0>>}

\* Everything at any time; what the page has animated has landed if it fades.
DragSpec == Init /\ [][Next /\ FadesWhatLanded]_vars

\* What a drag leaves behind when it has ended is not read any more.
DragView ==
    <<config, currentPosition, currentOrientation, squareSize,
      IF isDragging THEN dragVars ELSE <<>>, viewVars, dragged>>

=============================================================================
