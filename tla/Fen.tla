-------------------------------- MODULE Fen ---------------------------------
(***************************************************************************)
(* FEN text and position objects in chessboard-1.0.0.js: validation, both  *)
(* conversions, and the digits that count empty squares.  A FEN is a       *)
(* sequence of rows (the text between two slashes), a row a sequence of    *)
(* characters; what follows the first space is cut off by every function   *)
(* here before anything else and is left out.                              *)
(***************************************************************************)
EXTENDS ChessPosition, SequencesExt

CONSTANT PieceOf           \* fenToPieceCode: the piece code of each letter

Digit == <<"1", "2", "3", "4", "5", "6", "7", "8">>
Ones(n) == [i \in 1..n |-> "1"]

Number(c) == CHOOSE n \in 1..8 : Digit[n] = c
IsDigit(c) == \E n \in 1..8 : Digit[n] = c

\* Every piece has a letter of its own, and no letter is a digit.
ASSUME LettersAssumption ==
    /\ {PieceOf[l] : l \in DOMAIN PieceOf} = Pieces
    /\ \A l, k \in DOMAIN PieceOf : PieceOf[l] = PieceOf[k] => l = k
    /\ \A l \in DOMAIN PieceOf : ~IsDigit(l)

\* row.replace(/old/g, new), for an old that does not occur in new and a row
\* that has fewer of them than characters.
ReplaceEvery(row, old, new) ==
    LET text[n \in 0..Len(row)] ==
            IF n = 0 THEN row ELSE ReplaceFirstSubSeq(new, old, text[n - 1])
    IN  text[Len(row)]

\* Eight empty squares are squeezed first, two last.
SqueezeFenEmptySquares(row) ==
    LET text[n \in 0..7] ==
            IF n = 0 THEN row
            ELSE ReplaceEvery(text[n - 1], Ones(9 - n), <<Digit[9 - n]>>)
    IN  text[7]

\* Here the order of the replacements does not matter.
ExpandFenEmptySquares(row) ==
    FlattenSeq([i \in DOMAIN row |->
        IF IsDigit(row[i]) THEN Ones(Number(row[i])) ELSE <<row[i]>>])

\* Mutant: the length is that of the text before the digits are expanded.
ValidRowUnexpanded(row) ==
    /\ Len(row) <= Files
    /\ \A i \in DOMAIN row : row[i] \in DOMAIN PieceOf \/ IsDigit(row[i])

ValidRow(row) ==
    LET squares == ExpandFenEmptySquares(row)
    IN  /\ Len(squares) = Files
        /\ \A i \in DOMAIN squares : squares[i] \in DOMAIN PieceOf \union {"1"}

ValidFen(fen) == Len(fen) = Ranks /\ \A i \in DOMAIN fen : ValidRow(fen[i])

FenToPieceCode(letter) == PieceOf[letter]
PieceCodeToFen(piece) == CHOOSE l \in DOMAIN PieceOf : PieceOf[l] = piece

\* colIdx after each number of characters of a row.
Columns(row) ==
    LET colIdx[j \in 0..Len(row)] ==
            IF j = 0 THEN 0
            ELSE colIdx[j - 1] + (IF IsDigit(row[j]) THEN Number(row[j]) ELSE 1)
    IN  colIdx

\* The pieces of a row as <<column, letter>>, columns counted from 1.
LettersOf(row) ==
    {<<Columns(row)[j - 1] + 1, row[j]>> : j \in {i \in DOMAIN row : ~IsDigit(row[i])}}

\* Mutant: the first row is rank 1.
FenToObjUpsideDown(fen) ==
    LET placed == UNION {{<<<<l[1], i>>, l[2]>> : l \in LettersOf(fen[i])}
                         : i \in DOMAIN fen}
    IN  [s \in {p[1] : p \in placed} |->
            FenToPieceCode((CHOOSE p \in placed : p[1] = s)[2])]

\* The first row is the highest rank.
FenToObj(fen) ==
    LET placed == UNION {{<<<<l[1], Ranks + 1 - i>>, l[2]>> : l \in LettersOf(fen[i])}
                         : i \in DOMAIN fen}
    IN  [s \in {p[1] : p \in placed} |->
            FenToPieceCode((CHOOSE p \in placed : p[1] = s)[2])]

ObjToFen(pos) ==
    [i \in 1..Ranks |->
        SqueezeFenEmptySquares(
            [j \in 1..Files |->
                LET s == <<j, Ranks + 1 - i>>
                IN  IF s \in DOMAIN pos THEN PieceCodeToFen(pos[s]) ELSE "1"])]
=============================================================================
