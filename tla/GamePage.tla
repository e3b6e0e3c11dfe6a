------------------------------ MODULE GamePage ------------------------------
(***************************************************************************)
(* The page that shows a game (Index.cshtml, index.html) and the functions *)
(* of geteval.ts that do not wait: the moves of the game, the position the *)
(* board shows, the list of moves, the table with the evaluation, and the  *)
(* handlers of the buttons.                                                *)
(*                                                                         *)
(* A handler runs to its end before anything else does.  jumpToMove is the *)
(* exception in form only: it clicks a button again and again, and each of *)
(* these clicks is a step here, during which nothing else happens.         *)
(*                                                                         *)
(* Positions are left uninterpreted: the board starts in START and a move  *)
(* leads to Apply(position, move); ChessPosition has them in detail.       *)
(***************************************************************************)
EXTENDS Integers, Sequences

CONSTANTS
    START, Apply(_, _),
    Fens,          \* what the service may answer: [ply, fen, move] each
    None,          \* undefined, and an empty cell
    MaxPly         \* bound: moves of a game

\* A fen tells whose move it is and how many have been made: its ply.
ASSUME GamePageAssumption ==
    /\ MaxPly \in Nat /\ None \notin Nat
    /\ \A f \in Fens : f.ply \in 1..MaxPly /\ None # [ply |-> f.ply, of |-> f.fen]
    /\ \A f, g \in Fens : f.fen = g.fen => f.ply = g.ply

VARIABLES
    move_array, fens, evals, evals_dict, selected_id,     \* geteval.ts
    board, index, positions,                              \* the page's script
    movestable,    \* rows of the list of moves, without its header
    selected,      \* plies whose cell has the class cell-select
    whitened,      \* the first cell has been given a white background
    counter, shown,    \* the table's row: its ply, and the evaluation shown
    disabled,      \* item[1].disabled
    clicks         \* what jumpToMove has to click: next if > 0, prev if < 0

analysisVars == <<fens, evals_dict, selected_id, disabled>>
playVars == <<board, index, positions>>
tableVars == <<counter, shown>>
listVars == <<movestable, selected, whitened>>
pageVars == <<move_array, evals, analysisVars, playVars, listVars, tableVars, clicks>>

Plies == 1..MaxPly
NoEvals == [p \in Plies |-> None]
Evaluations == {[ply |-> f.ply, of |-> f.fen] : f \in Fens}

-----------------------------------------------------------------------------
(* The tables *)

\* clearEvalTbl empties the cells of the table, the ply counter's among them.
ClearEvalTbl == counter' = None /\ shown' = None

\* Mutant: the list of evaluations is read without taking one off the ply.
UpdateEvalTblOffByOne(plyno) ==
    IF plyno + 1 \in Plies /\ evals[plyno + 1] # None
    THEN counter' = evals[plyno + 1].ply /\ shown' = evals[plyno + 1]
    ELSE ClearEvalTbl

\* updateEvalTbl, always after clearEvalTbl: nothing is filled in without an
\* evaluation.
UpdateEvalTbl(plyno) ==
    IF plyno \in Plies /\ evals[plyno] # None
    THEN counter' = evals[plyno].ply /\ shown' = evals[plyno]
    ELSE ClearEvalTbl

\* Mutant: the cells selected before stay so.
ColorMoveTableKeeps(idx) ==
    selected' = selected \union (IF (idx + 1) \div 2 <= Len(movestable) THEN {idx} ELSE {})

\* One row has the cells of two plies; callers pass an idx > 0.
ColorMoveTable(idx) ==
    selected' = IF (idx + 1) \div 2 <= Len(movestable) THEN {idx} ELSE {}

\* Mutant: the rows stay.
DeleteNoMoves == UNCHANGED listVars

DeleteMoves == movestable' = <<>> /\ selected' = {} /\ whitened' = FALSE

\* Mutant: the moves of the game before stay.
PopulateMoveArrayAppends(mvs) == move_array' = move_array \o mvs

\* The moves, in the widget's notation.
PopulateMoveArray(mvs) == move_array' = mvs

\* The rows for a list of moves: a number, and one or two moves.
Rows(mvs) ==
    [r \in 1..((Len(mvs) + 1) \div 2) |->
        [number |-> r,
         moves |-> SubSeq(mvs, 2 * r - 1, IF 2 * r <= Len(mvs) THEN 2 * r ELSE Len(mvs))]]

\* populateMovesTable appends to the rows that are there.
PopulateMovesTable(mvs) ==
    /\ movestable' = movestable \o Rows(mvs)
    /\ UNCHANGED <<selected, whitened>>

\* The argument of jumpToMove in the buttons of the list, and softReset's.
JumpArguments ==
    {-1} \union UNION {{2 * (movestable[r].number - 1) + c - 1 :
                            c \in DOMAIN movestable[r].moves} : r \in DOMAIN movestable}

-----------------------------------------------------------------------------
(* The buttons *)

\* The click is the user's, or one of jumpToMove's.
Clicked(step) == clicks' = IF clicks = 0 THEN 0 ELSE clicks - step

\* Mutant: the position is remembered again whenever the game moves on.
RememberedAgain == Append(positions, board)

\* The positions before each move, board.fen() when the move is new.
Remembered ==
    IF Len(positions) > index THEN positions ELSE Append(positions, board)

\* #nextbtn.  The counter it sets first is cleared with the table.
NextBtn ==
    /\ clicks >= 0
    /\ index < Len(move_array)
    /\ positions' = Remembered
    /\ board' = Apply(board, move_array[index + 1])
    /\ index' = index + 1
    /\ UpdateEvalTbl(index')
    /\ ColorMoveTable(index')
    /\ Clicked(1)
    /\ UNCHANGED <<move_array, evals, analysisVars, movestable, whitened>>

\* A click of jumpToMove on #nextbtn after the last move.
NextBtnAtEnd ==
    /\ clicks > 0
    /\ index >= Len(move_array)
    /\ Clicked(1)
    /\ UNCHANGED <<move_array, evals, analysisVars, playVars, listVars, tableVars>>

\* A click of jumpToMove on #prevbtn when the game loaded meanwhile is empty.
PrevBtnWithoutMoves ==
    /\ clicks < 0
    /\ move_array = <<>>
    /\ Clicked(-1)
    /\ UNCHANGED <<move_array, evals, analysisVars, playVars, listVars, tableVars>>

\* #prevbtn with a move to take back, not the first.  If the list of moves is
\* by now too short, the highlighting of squares, its last statement, throws,
\* and jumpToMove ends.
PrevBtn ==
    /\ clicks <= 0
    /\ move_array # <<>> /\ index > 1
    /\ index' = index - 1
    /\ board' = positions[index]
    /\ UpdateEvalTbl(index')
    /\ ColorMoveTable(index')
    /\ clicks' = IF clicks = 0 \/ index' >= Len(move_array) THEN 0 ELSE clicks + 1
    /\ UNCHANGED <<move_array, evals, analysisVars, positions, movestable, whitened>>

\* #prevbtn with one move to take back: the first cell is made white, its
\* class stays.
PrevBtnToStart ==
    /\ clicks <= 0
    /\ move_array # <<>> /\ index = 1 /\ movestable # <<>>
    /\ index' = 0
    /\ board' = positions[1]
    /\ UpdateEvalTbl(0)
    /\ whitened' = TRUE
    /\ Clicked(-1)
    /\ UNCHANGED <<move_array, evals, analysisVars, positions, movestable, selected>>

\* The same without a list of moves: it throws at the first cell.
PrevBtnToStartThrows ==
    /\ clicks <= 0
    /\ move_array # <<>> /\ index = 1 /\ movestable = <<>>
    /\ index' = 0 /\ board' = START
    /\ counter' = 0 /\ shown' = None
    /\ clicks' = 0
    /\ UNCHANGED <<move_array, evals, analysisVars, positions, listVars>>

\* #prevbtn at the start.
PrevBtnAtStart ==
    /\ clicks <= 0
    /\ move_array # <<>> /\ index = 0
    /\ board' = START
    /\ counter' = 0 /\ shown' = None
    /\ Clicked(-1)
    /\ UNCHANGED <<move_array, evals, analysisVars, index, positions, listVars>>

JumpToMove ==
    /\ clicks = 0
    /\ \E moveno \in JumpArguments : clicks' = moveno + 1 - index
    /\ UNCHANGED <<move_array, evals, analysisVars, playVars, listVars, tableVars>>

\* What the reset button and a submitted form have in common.
Restart ==
    /\ clicks = 0
    /\ positions' = <<>> /\ evals' = NoEvals /\ index' = 0
    /\ board' = START
    /\ DeleteMoves
    /\ ClearEvalTbl
    /\ UNCHANGED <<fens, evals_dict, clicks>>

\* Mutant: the board and the place in the game stay.
ResetListOnly ==
    /\ clicks = 0
    /\ DeleteMoves /\ ClearEvalTbl
    /\ move_array' = <<>> /\ evals' = NoEvals
    /\ UNCHANGED <<analysisVars, playVars, clicks>>

\* #resetbtn.  fens stays as it is, and what is awaited is not called off.
Reset == Restart /\ move_array' = <<>> /\ UNCHANGED <<selected_id, disabled>>

\* The next and previous buttons, and the list of moves.
Play ==
    \/ NextBtn \/ NextBtnAtEnd
    \/ PrevBtn \/ PrevBtnToStart \/ PrevBtnToStartThrows \/ PrevBtnAtStart
    \/ PrevBtnWithoutMoves
    \/ JumpToMove

InitPage ==
    /\ move_array = <<>> /\ fens = <<>> /\ evals = NoEvals
    /\ evals_dict = [f \in {} |-> None] /\ selected_id = 1
    /\ board = START /\ index = 0 /\ positions = <<>>
    /\ movestable = <<>> /\ selected = {} /\ whitened = FALSE
    /\ counter = 0 /\ shown = None
    /\ disabled = FALSE /\ clicks = 0

=============================================================================
