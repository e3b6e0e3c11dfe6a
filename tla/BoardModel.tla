----------------------------- MODULE BoardModel -----------------------------
(***************************************************************************)
(* The pieces, squares and starting position the board firmware works with *)
(* (stm32/src/model.h, model.c).  A piece is its letter: upper case is     *)
(* white, lower case black, blank an empty square.  Squares are 0..63, row *)
(* by row from a8 = 0 to h1 = 63, as pin() computes them.                  *)
(***************************************************************************)
EXTENDS Integers

Square == 0..63
Color == {"white", "black"}
Wing == {"kingside", "queenside"}
Other(c) == IF c = "white" THEN "black" ELSE "white"

Empty == " "
WhitePiece == {"P", "R", "N", "B", "Q", "K"}
BlackPiece == {"p", "r", "n", "b", "q", "k"}
Piece == WhitePiece \union BlackPiece
PieceOf(c) == IF c = "white" THEN WhitePiece ELSE BlackPiece

King(c) == IF c = "white" THEN "K" ELSE "k"
Rook(c) == IF c = "white" THEN "R" ELSE "r"
Pawn(c) == IF c = "white" THEN "P" ELSE "p"
Queen(c) == IF c = "white" THEN "Q" ELSE "q"

\* The first square of a colour's home row, and the squares of castling on it.
HomeRow(c) == IF c = "white" THEN 56 ELSE 0
KingStart(c) == HomeRow(c) + 4
RookStart(c, w) == HomeRow(c) + (IF w = "kingside" THEN 7 ELSE 0)
KingCastle(c, w) == HomeRow(c) + (IF w = "kingside" THEN 6 ELSE 2)
RookCastle(c, w) == HomeRow(c) + (IF w = "kingside" THEN 5 ELSE 3)

BackRank == <<"r", "n", "b", "q", "k", "b", "n", "r">>
WhiteBackRank == <<"R", "N", "B", "Q", "K", "B", "N", "R">>

starting_board_initializer ==
    [s \in Square |-> IF s < 8 THEN BackRank[s + 1]
                      ELSE IF s < 16 THEN "p"
                      ELSE IF s < 48 THEN Empty
                      ELSE IF s < 56 THEN "P"
                      ELSE WhiteBackRank[s - 55]]

=============================================================================
