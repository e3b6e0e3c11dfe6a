------------------------- MODULE Chessboard_proofs --------------------------
(***************************************************************************)
(* Theorems about the chessboard widget, for every board, every set of     *)
(* pieces, every order in which effects end and any number of changes:     *)
(* what the variables hold and what a drag may do to the pieces, whatever  *)
(* the page does and when; and that the board at rest shows its position,  *)
(* and a dragged piece is seen, under a condition on the changes of        *)
(* position the page asks for.                                             *)
(***************************************************************************)
EXTENDS Chessboard, ChessPosition_proofs, SequenceTheorems

\* The callbacks of the animations change neither the position nor the drag.
LEMMA AnimationsKeepDrag ==
  ASSUME Animations
  PROVE  UNCHANGED <<currentPosition, currentOrientation, squareSize, dragVars>>
<1>1. CASE \E f \in flights : Land(f)
  BY <1>1 DEF Land, modelVars
<1>2. CASE \E s \in Squares : \E i \in DOMAIN dom[s] : EndFade(s, i)
  BY <1>2 DEF EndFade, modelVars
<1>3. CASE \E b \in DOMAIN batches : EndOrphan(b)
  BY <1>3 DEF EndOrphan, modelVars
<1>4. CASE EndDraggedEffect
  BY <1>4 DEF EndDraggedEffect
<1> QED BY <1>1, <1>2, <1>3, <1>4 DEF Animations

-----------------------------------------------------------------------------
(* Types, whatever the page does and when: the square that                 *)
(* isXYOnSquare name, the position that moves, drops and trashed pieces    *)
(* leave, the offsets of every size and orientation.                       *)

LEMMA SquareAtIs ==
  ASSUME NEW offsets, NEW p
  PROVE  SquareAt(offsets, p) \in Squares \union {OffBoard}
<1> DEFINE S == SquaresAt(offsets, p)
           First(s) == \A t \in S : s[1] < t[1] \/ (s[1] = t[1] /\ s[2] <= t[2])
<1>1. CASE S = {}
  BY <1>1 DEF SquareAt
<1>2. CASE S # {}
  <2>1. S \subseteq Squares
    BY DEF SquaresAt
  <2> HIDE DEF S
  <2>2. \A s \in S : s[1] \in Nat /\ s[2] \in Nat
    BY <2>1, BoardAssumption DEF Squares
  <2>3. PICK c \in {s[1] : s \in S} : \A d \in {s[1] : s \in S} : c <= d
    BY <1>2, <2>2, LeastNumber
  <2> DEFINE C == {s \in S : s[1] = c}
  <2>4. PICK r \in {s[2] : s \in C} : \A d \in {s[2] : s \in C} : r <= d
    <3>1. C # {} /\ C \subseteq S
      BY <2>3
    <3> HIDE DEF C
    <3>2. {s[2] : s \in C} \subseteq Nat /\ {s[2] : s \in C} # {}
      BY <2>2, <3>1
    <3> QED BY <3>2, LeastNumber
  <2>5. PICK s \in C : s[2] = r
    BY <2>4
  <2>6. \A t \in S : s[1] < t[1] \/ (s[1] = t[1] /\ s[2] <= t[2])
    <3> SUFFICES ASSUME NEW t \in S PROVE s[1] < t[1] \/ (s[1] = t[1] /\ s[2] <= t[2])
      OBVIOUS
    <3>1. c <= t[1] /\ s[1] = c /\ c \in Nat /\ t[1] \in Nat
      BY <2>2, <2>3, <2>5
    <3>2. t[1] = c => r <= t[2]
      BY <2>4
    <3> QED BY <2>5, <3>1, <3>2
  <2>7. s \in S /\ First(s)
    BY <2>5, <2>6
  <2> HIDE DEF First
  <2>8. (CHOOSE u \in S : First(u)) \in S
    BY <2>7
  <2> QED BY <1>2, <2>1, <2>8 DEF SquareAt, S, First
<1> QED BY <1>1, <1>2

LEMMA SizeIs ==
  ASSUME NEW width \in Nat PROVE CalculateSquareSize(width) \in Nat
<1>1. CASE width = 0
  BY <1>1 DEF CalculateSquareSize
<1>2. CASE width # 0
  <2>1. width - 1 \in Nat /\ Files \in Nat \ {0}
    BY <1>2, BoardAssumption
  <2>2. \A n \in Nat : n \div Files \in Nat
    BY <2>1
  <2> QED BY <1>2, <2>1, <2>2 DEF CalculateSquareSize
<1> QED BY <1>1, <1>2

LEMMA OffsetsAre ==
  ASSUME squareSize \in Nat PROVE Offsets \in [Squares -> Nat \X Nat]
<1>1. ASSUME NEW a \in Nat PROVE a * squareSize \in Nat
  OBVIOUS
<1>2. ASSUME NEW s \in Squares
      PROVE  /\ s[1] - 1 \in Nat /\ Ranks - s[2] \in Nat
             /\ Files - s[1] \in Nat /\ s[2] - 1 \in Nat
  BY BoardAssumption DEF Squares
<1>3. ASSUME NEW s \in Squares
      PROVE  OffsetOf(s, currentOrientation, squareSize) \in Nat \X Nat
  <2>1. /\ (s[1] - 1) * squareSize \in Nat /\ (Ranks - s[2]) * squareSize \in Nat
        /\ (Files - s[1]) * squareSize \in Nat /\ (s[2] - 1) * squareSize \in Nat
    BY <1>1, <1>2
  <2> QED BY <2>1 DEF OffsetOf
<1> QED BY <1>3 DEF Offsets

TypeInv ==
  /\ TypeOK
  /\ isDragging => draggedPiece \in Pieces
  /\ draggedPieceSource = Spare => config.sparePieces

\* A step of the animations, or one that only the elements see.
LEMMA TypesUntouched ==
  ASSUME TypeInv,
         UNCHANGED <<config, currentPosition, currentOrientation, squareSize, dragVars>>
  PROVE  TypeInv'
BY DEF TypeInv, TypeOK, dragVars

LEMMA CallsKeepTypes ==
  ASSUME TypeInv, PageCalls, UNCHANGED config PROVE TypeInv'
<1>1. ASSUME NEW pos \in Positions, NEW animate, Position(pos, animate) PROVE TypeInv'
  BY <1>1 DEF Position, TypeInv, TypeOK, dragVars
<1>2. ASSUME NEW animate, NEW moves \in MoveLists, Move(moves, animate) PROVE TypeInv'
  <2>1. CalculatePositionFromMoves(currentPosition, moves) \in Positions
    BY MovesKeepPositions, ChessboardAssumption DEF TypeInv, TypeOK
  <2> QED BY <1>1, <1>2, <2>1 DEF Move
<1>3. ASSUME NEW animate, Start(animate) PROVE TypeInv'
  BY <1>1, <1>3, ChessboardAssumption DEF Start
<1>4. ASSUME NEW animate, Clear(animate) PROVE TypeInv'
  <2>1. EmptyPosition \in Positions
    <3>1. EmptyPosition \in [{} -> Pieces] /\ {} \in SUBSET Squares
      BY DEF EmptyPosition
    <3> QED BY <3>1 DEF Positions
  <2> QED BY <1>1, <1>4, <2>1 DEF Clear
<1>5. ASSUME NEW colour \in {"white", "black"}, Orientation(colour) PROVE TypeInv'
  BY <1>5 DEF Orientation, DrawBoard, TypeInv, TypeOK, dragVars
<1>6. ASSUME NEW width \in Widths, Resize(width) PROVE TypeInv'
  <2>1. squareSize' \in Nat
    BY <1>6, SizeIs, ChessboardAssumption DEF Resize
  <2> QED BY <1>6, <2>1 DEF Resize, DrawBoard, TypeInv, TypeOK, dragVars
<1>7. ASSUME NEW pos \in Targets, NEW animate, Position(pos, animate) PROVE TypeInv'
  BY <1>1, <1>7, ChessboardAssumption
<1> QED BY <1>2, <1>3, <1>4, <1>5, <1>6, <1>7 DEF PageCalls

\* Whatever onDrop answers, the piece lands on a square, goes back or goes away.
LEMMA DropsKeepTypes ==
  ASSUME TypeInv, isDragging, UNCHANGED config, NEW location \in Squares \union {OffBoard},
         StopDraggedPiece(location)
  PROVE  TypeInv'
<1>1. ASSUME NEW effect, EndDrag(effect), currentPosition' \in Positions PROVE TypeInv'
  BY <1>1 DEF EndDrag, TypeInv, TypeOK
<1>2. ASSUME TrashDraggedPiece PROVE TypeInv'
  <2>1. currentPosition' \in Positions
    BY <1>2, WithoutIs DEF TrashDraggedPiece, TypeInv, TypeOK
  <2> QED BY <1>1, <1>2, <2>1 DEF TrashDraggedPiece
<1>3. ASSUME SnapbackDraggedPiece PROVE TypeInv'
  BY <1>1, <1>2, <1>3 DEF SnapbackDraggedPiece, TypeInv, TypeOK
<1>4. ASSUME location \in Squares, DropDraggedPieceOnSquare(location) PROVE TypeInv'
  <2>1. currentPosition' \in Positions
    <3>1. Without(currentPosition, {draggedPieceSource}) \in Positions
      BY WithoutIs DEF TypeInv, TypeOK
    <3>2. draggedPiece \in Pieces
      BY DEF TypeInv
    <3> QED BY <1>4, <3>1, <3>2, WithIs DEF DropDraggedPieceOnSquare
  <2> QED BY <1>1, <1>4, <2>1 DEF DropDraggedPieceOnSquare
<1>5. config.onDrop \subseteq {"none", "snapback", "trash"}
      /\ config.dropOffBoard \in {"snapback", "trash"}
  BY ChessboardAssumption DEF TypeInv, TypeOK
<1>6. PICK action \in {"snapback", "trash", "drop"} :
         /\ action = "drop" => location # OffBoard
         /\ CASE action = "snapback" -> SnapbackDraggedPiece
              [] action = "trash" -> TrashDraggedPiece
              [] action = "drop" -> DropDraggedPieceOnSquare(location)
  BY <1>5 DEF StopDraggedPiece
<1> QED BY <1>2, <1>3, <1>4, <1>6

LEMMA DragsKeepTypes ==
  ASSUME TypeInv, Drags, UNCHANGED config PROVE TypeInv'
<1>1. ASSUME NEW source \in Squares \union {Spare}, NEW piece \in Pieces,
             source = Spare => config.sparePieces, BeginDraggingPiece(source, piece)
      PROVE  TypeInv'
  <2>1. squareElsOffsets' \in [Squares -> Nat \X Nat]
    BY <1>1, OffsetsAre DEF BeginDraggingPiece, TypeInv, TypeOK
  <2>2. draggedPieceLocation' \in Squares \union {OffBoard}
    BY <1>1 DEF BeginDraggingPiece
  <2> QED BY <1>1, <2>1, <2>2 DEF BeginDraggingPiece, TypeInv, TypeOK
<1>2. ASSUME NEW s \in Squares, MousedownSquare(s) PROVE TypeInv'
  <2>1. currentPosition[s] \in Pieces
    BY <1>2, PositionsAre DEF MousedownSquare, TypeInv, TypeOK
  <2>2. s # Spare
    BY BoardAssumption DEF Squares, Spare
  <2> QED BY <1>1, <1>2, <2>1, <2>2 DEF MousedownSquare
<1>3. ASSUME NEW piece \in Pieces, MousedownSparePiece(piece) PROVE TypeInv'
  BY <1>1, <1>3 DEF MousedownSparePiece
<1>4. ASSUME NEW p \in Points, MousemoveWindow(p) PROVE TypeInv'
  <2>1. draggedPieceLocation' \in Squares \union {OffBoard}
    BY <1>4, SquareAtIs DEF MousemoveWindow, IsXYOnSquare
  <2> QED BY <1>4, <2>1 DEF MousemoveWindow, TypeInv, TypeOK
<1>5. ASSUME NEW p \in Points, MouseupWindow(p) PROVE TypeInv'
  <2>1. IsXYOnSquare(p) \in Squares \union {OffBoard}
    BY SquareAtIs DEF IsXYOnSquare
  <2> QED BY <1>5, <2>1, DropsKeepTypes DEF MouseupWindow
<1> QED BY <1>2, <1>3, <1>4, <1>5 DEF Drags

LEMMA TypeInit == Init => TypeInv
<1> SUFFICES ASSUME Init PROVE TypeInv
  OBVIOUS
<1>1. squareSize \in Nat
  BY SizeIs, ChessboardAssumption DEF Init
<1>2. squareElsOffsets \in [Squares -> Nat \X Nat]
  BY DEF Init, OffBoard
<1>3. draggedPieceSource # Spare
  BY DEF Init, OffBoard, Spare
<1> QED BY <1>1, <1>2, <1>3, ChessboardAssumption DEF Init, TypeInv, TypeOK

LEMMA TypeStep == TypeInv /\ [Next]_vars => TypeInv'
<1> SUFFICES ASSUME TypeInv, [Next]_vars PROVE TypeInv'
  OBVIOUS
<1>0. UNCHANGED config
  BY DEF Next, vars
<1>1. CASE PageCalls
  BY <1>0, <1>1, CallsKeepTypes
<1>2. CASE Drags
  BY <1>0, <1>2, DragsKeepTypes
<1>3. CASE Animations
  BY <1>0, <1>3, AnimationsKeepDrag, TypesUntouched
<1>4. CASE UNCHANGED vars
  BY <1>4, TypesUntouched DEF vars
<1> QED BY <1>1, <1>2, <1>3, <1>4 DEF Next

\* The widget's position stays a position of the board and the mouse names a
\* square of it or none, whatever is called, moved, dropped, resized or dragged,
\* and whenever.
THEOREM TypesAreKept == Spec => []TypeOK
<1>1. TypeInv => TypeOK
  BY DEF TypeInv
<1> QED BY <1>1, TypeInit, TypeStep, PTL DEF Spec
-----------------------------------------------------------------------------
(* What a drag may do to the pieces, whatever the page does meanwhile.     *)

\* The page's calls leave the drag alone.
LEMMA CallsKeepDrag ==
  ASSUME PageCalls PROVE UNCHANGED <<dragVars, dragged>>
<1>1. ASSUME NEW pos, NEW animate, Position(pos, animate)
      PROVE  UNCHANGED <<dragVars, dragged>>
  BY <1>1 DEF Position
<1>2. ASSUME NEW colour, Orientation(colour) PROVE UNCHANGED <<dragVars, dragged>>
  BY <1>2 DEF Orientation, DrawBoard
<1>3. ASSUME NEW width, Resize(width) PROVE UNCHANGED <<dragVars, dragged>>
  BY <1>3 DEF Resize, DrawBoard
<1> QED BY <1>1, <1>2, <1>3 DEF PageCalls, Move, Start, Clear

\* A drop ends the drag, by one of three ways.
LEMMA StopIs ==
  ASSUME TypeInv, NEW location, StopDraggedPiece(location)
  PROVE  /\ isDragging' = FALSE
         /\ \/ currentPosition' = currentPosition
            \/ TrashDraggedPiece
            \/ location # OffBoard /\ DropDraggedPieceOnSquare(location)
<1>1. config.onDrop \subseteq {"none", "snapback", "trash"}
      /\ config.dropOffBoard \in {"snapback", "trash"}
  BY ChessboardAssumption DEF TypeInv, TypeOK
<1>2. \/ SnapbackDraggedPiece \/ TrashDraggedPiece
      \/ location # OffBoard /\ DropDraggedPieceOnSquare(location)
  BY <1>1 DEF StopDraggedPiece
<1>3. SnapbackDraggedPiece => TrashDraggedPiece \/ currentPosition' = currentPosition
  BY DEF SnapbackDraggedPiece
<1>4. isDragging' = FALSE
  BY <1>2 DEF SnapbackDraggedPiece, TrashDraggedPiece, DropDraggedPieceOnSquare, EndDrag
<1> QED BY <1>2, <1>3, <1>4

\* A piece that stands on its source moves from there; a spare one is put down.
LEMMA DropCounts ==
  ASSUME TypeInv, isDragging, DraggedPieceIsReal,
         NEW location \in Squares \union {OffBoard}, StopDraggedPiece(location)
  PROVE  DropMakesNoPiece
<1> SUFFICES ASSUME NEW piece \in Pieces
             PROVE  PieceCount(currentPosition', piece)
                      <= PieceCount(currentPosition, piece)
                           + (IF draggedPieceSource = Spare /\ piece = draggedPiece
                              THEN 1 ELSE 0)
  BY DEF DropMakesNoPiece
<1>1. /\ currentPosition \in Positions /\ draggedPiece \in Pieces
      /\ draggedPieceSource # Spare =>
           /\ draggedPieceSource \in DOMAIN currentPosition
           /\ currentPosition[draggedPieceSource] = draggedPiece
  BY DEF TypeInv, TypeOK, DraggedPieceIsReal
<1> DEFINE left == Without(currentPosition, {draggedPieceSource})
<1>2. left \in Positions /\ PieceCount(left, piece) <= PieceCount(currentPosition, piece)
  BY <1>1, WithoutIs, WithoutMakesNoPiece
<1>3. PieceCount(currentPosition, piece) \in Nat /\ PieceCount(left, piece) \in Nat
  BY <1>1, <1>2, CountsAreNumbers
<1>4. CASE currentPosition' = currentPosition
  BY <1>3, <1>4
<1>5. CASE TrashDraggedPiece
  <2>1. currentPosition' = left
    BY <1>5 DEF TrashDraggedPiece
  <2> HIDE DEF left
  <2> QED BY <1>2, <1>3, <2>1
<1>6. CASE location # OffBoard /\ DropDraggedPieceOnSquare(location)
  <2>1. currentPosition' = With(left, location, draggedPiece) /\ location \in Squares
    BY <1>6 DEF DropDraggedPieceOnSquare
  <2>2. CASE draggedPieceSource = Spare
    <3> HIDE DEF left
    <3>1. PieceCount(currentPosition', piece)
            <= PieceCount(left, piece) + (IF piece = draggedPiece THEN 1 ELSE 0)
      BY <1>1, <1>2, <2>1, WithMakesOnePiece
    <3>2. With(left, location, draggedPiece) \in Positions
      BY <1>1, <1>2, <2>1, WithIs
    <3>3. PieceCount(currentPosition', piece) \in Nat
      BY <2>1, <3>2, CountsAreNumbers
    <3> QED BY <1>2, <1>3, <2>2, <3>1, <3>3
  <2>3. CASE draggedPieceSource # Spare
    <3>1. currentPosition' = MoveOne(currentPosition, draggedPieceSource, location)
      BY <1>1, <2>1, <2>3 DEF MoveOne
    <3>2. draggedPieceSource \in Squares
      BY <1>1, <2>3, PositionsAre
    <3> QED BY <1>1, <1>3, <2>1, <2>3, <3>1, <3>2, NoMoveMakesPieces
  <2> QED BY <2>2, <2>3
<1> QED BY <1>4, <1>5, <1>6, StopIs

LEMMA DragsKeepReal ==
  ASSUME TypeInv, Drags PROVE OnlyThePageParts /\ DropMakesNoPiece
<1>1. ASSUME NEW s \in Squares, MousedownSquare(s) PROVE OnlyThePageParts /\ DropMakesNoPiece
  <2>1. DraggedPieceIsReal' /\ isDragging'
    BY <1>1 DEF MousedownSquare, BeginDraggingPiece, DraggedPieceIsReal
  <2> QED BY <2>1 DEF OnlyThePageParts, DropMakesNoPiece
<1>2. ASSUME NEW piece \in Pieces, MousedownSparePiece(piece)
      PROVE  OnlyThePageParts /\ DropMakesNoPiece
  <2>1. DraggedPieceIsReal' /\ isDragging'
    BY <1>2 DEF MousedownSparePiece, BeginDraggingPiece, DraggedPieceIsReal
  <2> QED BY <2>1 DEF OnlyThePageParts, DropMakesNoPiece
<1>3. ASSUME NEW p \in Points, MousemoveWindow(p) PROVE OnlyThePageParts /\ DropMakesNoPiece
  BY <1>3 DEF MousemoveWindow, OnlyThePageParts, DropMakesNoPiece, DraggedPieceIsReal
<1>4. ASSUME NEW p \in Points, MouseupWindow(p) PROVE OnlyThePageParts /\ DropMakesNoPiece
  <2>1. isDragging /\ StopDraggedPiece(IsXYOnSquare(p))
        /\ IsXYOnSquare(p) \in Squares \union {OffBoard}
    BY <1>4, SquareAtIs DEF MouseupWindow, IsXYOnSquare
  <2>2. isDragging' = FALSE
    BY <2>1, StopIs
  <2>3. OnlyThePageParts
    BY <2>2 DEF OnlyThePageParts, DraggedPieceIsReal
  <2>4. DropMakesNoPiece
    <3>1. CASE DraggedPieceIsReal
      BY <2>1, <3>1, DropCounts
    <3>2. CASE ~DraggedPieceIsReal
      BY <3>2 DEF DropMakesNoPiece
    <3> QED BY <3>1, <3>2
  <2> QED BY <2>3, <2>4
<1> QED BY <1>1, <1>2, <1>3, <1>4 DEF Drags

\* A step that leaves the drag alone breaks it only by another position.
LEMMA DragStays ==
  ASSUME UNCHANGED dragVars PROVE OnlyThePageParts /\ DropMakesNoPiece
BY DEF OnlyThePageParts, DropMakesNoPiece, DraggedPieceIsReal, dragVars

\* beginDraggingPiece (1279-1317) and what follows until the drop, whatever the
\* page calls meanwhile: no finger, callback, turn or resize parts the piece that
\* is dragged from the square it was taken from, and while the page has not
\* changed the position under it, no drop, snapback or trash makes a piece that
\* was not there (stopDraggedPiece, 1358-1418).
THEOREM DropsMakeNoPiece == Spec => DragsKeepPieces
<1>1. ASSUME TypeInv, [Next]_vars PROVE [OnlyThePageParts /\ DropMakesNoPiece]_vars
  <2>1. CASE PageCalls
    BY <2>1, CallsKeepDrag, DragStays
  <2>2. CASE Drags
    BY <1>1, <2>2, DragsKeepReal
  <2>3. CASE Animations
    BY <2>3, AnimationsKeepDrag, DragStays
  <2>4. CASE UNCHANGED vars
    BY <2>4
  <2> QED BY <1>1, <2>1, <2>2, <2>3, <2>4 DEF Next
<1> QED BY <1>1, TypeInit, TypeStep, PTL DEF Spec, DragsKeepPieces

-----------------------------------------------------------------------------
(* The elements of the squares: each has a queue of effects, of batches    *)
(* there have been.  So at rest no element has an effect left.             *)

Effects == [kind : {"in", "out"}, batch : 1..MaxBatches]

IsElement(e) ==
  /\ e = [piece |-> e.piece, shown |-> e.shown, fx |-> e.fx]
  /\ e.fx \in Seq(Effects)

IsASequence(q) == \E S : q \in Seq(S)

AreElements(q) == IsASequence(q) /\ \A i \in DOMAIN q : IsElement(q[i])

\* The elements of a board, square by square.
IsBoard(b) == b = [s \in Squares |-> b[s]] /\ \A s \in Squares : AreElements(b[s])

ElementsInv ==
  /\ IsBoard(dom)
  /\ dragged = [shown |-> dragged.shown, fx |-> dragged.fx]
  /\ IsASequence(batches) /\ Len(batches) <= MaxBatches

LEMMA NewElement ==
  ASSUME NEW piece, NEW shown PROVE IsElement(Element(piece, shown))
BY DEF Element, IsElement

LEMMA NoElements == AreElements(<<>>)
<1>1. <<>> \in Seq({})
  OBVIOUS
<1> QED BY <1>1 DEF AreElements, IsASequence

LEMMA DrawnIsBoard ==
  ASSUME NEW pos PROVE IsBoard(Drawn(pos))
<1>1. ASSUME NEW s \in Squares PROVE AreElements(Drawn(pos)[s])
  <2>1. CASE s \in DOMAIN pos
    <3> DEFINE e == Element(pos[s], TRUE)
    <3>1. IsElement(e) /\ Drawn(pos)[s] = <<e>>
      BY <2>1, NewElement DEF Drawn
    <3> HIDE DEF e
    <3>2. <<e>> \in Seq({e}) /\ DOMAIN <<e>> = {1} /\ <<e>>[1] = e
      OBVIOUS
    <3>3. AreElements(<<e>>)
      BY <3>1, <3>2 DEF AreElements, IsASequence
    <3> QED BY <3>1, <3>3
  <2>2. CASE s \notin DOMAIN pos
    BY <2>2, NoElements DEF Drawn
  <2> QED BY <2>1, <2>2
<1> QED BY <1>1 DEF IsBoard, Drawn

LEMMA ElementWith ==
  ASSUME NEW e, IsElement(e), NEW shown, NEW fx
  PROVE  /\ [e EXCEPT !.shown = shown] = [piece |-> e.piece, shown |-> shown, fx |-> e.fx]
         /\ [e EXCEPT !.shown = shown, !.fx = fx]
              = [piece |-> e.piece, shown |-> shown, fx |-> fx]
<1> USE DEF IsElement
<1> DEFINE n == [e EXCEPT !.shown = shown]
<1>1. [e EXCEPT !.shown = shown, !.fx = fx] = [n EXCEPT !.fx = fx]
  OBVIOUS
<1>2. n = [piece |-> e.piece, shown |-> shown, fx |-> e.fx]
  OBVIOUS
<1> HIDE DEF n
<1>3. [n EXCEPT !.fx = fx] = [piece |-> e.piece, shown |-> shown, fx |-> fx]
  BY <1>2
<1> QED BY <1>1, <1>2, <1>3, Zenon DEF n

\* A sequence stays one when one of its places, or all of them, change.
LEMMA SameLength ==
  ASSUME NEW q, IsASequence(q), NEW r, r = [i \in DOMAIN q |-> r[i]]
  PROVE  IsASequence(r) /\ Len(r) = Len(q) /\ DOMAIN r = DOMAIN q
<1>1. PICK S : q \in Seq(S)
  BY DEF IsASequence
<1>2. DOMAIN q = 1..Len(q) /\ Len(q) \in Nat
  BY <1>1
<1> DEFINE R == {r[i] : i \in DOMAIN q}
<1>3. r \in [1..Len(q) -> R]
  BY <1>2
<1>4. r \in Seq(R)
  BY <1>2, <1>3
<1>5. Len(r) = Len(q)
  BY <1>2, <1>3
<1> QED BY <1>2, <1>4, <1>5 DEF IsASequence

LEMMA FadeKeepsElements ==
  ASSUME NEW q, AreElements(q), NEW kind \in {"in", "out"}, NEW b \in 1..MaxBatches
  PROVE  /\ AreElements(Fade(q, kind, b)) /\ DOMAIN Fade(q, kind, b) = DOMAIN q
         /\ \A i \in DOMAIN q :
              Fade(q, kind, b)[i].fx = Append(q[i].fx, [kind |-> kind, batch |-> b])
<1> DEFINE r == Fade(q, kind, b)
           fade == [kind |-> kind, batch |-> b]
<1>1. ASSUME NEW i \in DOMAIN q
      PROVE  \E shown : r[i] = [piece |-> q[i].piece, shown |-> shown,
                               fx |-> Append(q[i].fx, fade)]
  <2> DEFINE shown == q[i].shown \/ (kind = "in" /\ q[i].fx = <<>>)
  <2>1. IsElement(q[i])
    BY DEF AreElements
  <2>2. r[i] = [q[i] EXCEPT !.shown = shown, !.fx = Append(q[i].fx, fade)]
    BY Zenon DEF Fade
  <2> DEFINE e == q[i]
             fx == Append(q[i].fx, fade)
  <2> HIDE DEF shown, fx, r
  <2>3. [e EXCEPT !.shown = shown, !.fx = fx] = [piece |-> e.piece, shown |-> shown, fx |-> fx]
    BY <2>1, ElementWith, Zenon
  <2>4. r[i] = [piece |-> q[i].piece, shown |-> shown, fx |-> fx]
    BY <2>2, <2>3, Zenon DEF fx
  <2> QED BY <2>4 DEF fx
<1>2. r = [i \in DOMAIN q |-> r[i]]
  BY DEF Fade
<1>3. fade \in Effects
  BY DEF Effects
<1> HIDE DEF r, fade
<1>4. ASSUME NEW i \in DOMAIN q PROVE IsElement(r[i])
  <2>1. q[i].fx \in Seq(Effects)
    BY DEF AreElements, IsElement
  <2>2. Append(q[i].fx, fade) \in Seq(Effects)
    BY <2>1, <1>3
  <2>3. PICK shown : r[i] = [piece |-> q[i].piece, shown |-> shown,
                             fx |-> Append(q[i].fx, fade)]
    BY <1>1
  <2> QED BY <2>2, <2>3 DEF IsElement
<1>5. IsASequence(r) /\ DOMAIN r = DOMAIN q
  BY <1>2, SameLength DEF AreElements
<1>6. AreElements(r)
  BY <1>4, <1>5 DEF AreElements
<1>7. ASSUME NEW i \in DOMAIN q PROVE r[i].fx = Append(q[i].fx, fade)
  <2>1. PICK shown : r[i] = [piece |-> q[i].piece, shown |-> shown,
                             fx |-> Append(q[i].fx, fade)]
    BY <1>1
  <2> QED BY <2>1
<1> QED BY <1>5, <1>6, <1>7 DEF r, fade

LEMMA AppendKeepsElements ==
  ASSUME NEW q, AreElements(q), NEW e, IsElement(e)
  PROVE  AreElements(Append(q, e))
<1>1. PICK S : q \in Seq(S)
  BY DEF AreElements, IsASequence
<1>2. q \in Seq(S \union {e})
  BY <1>1
<1>3. Append(q, e) \in Seq(S \union {e})
  BY <1>2
<1>4. \A i \in DOMAIN Append(q, e) : (i \in DOMAIN q /\ Append(q, e)[i] = q[i]) \/ Append(q, e)[i] = e
  BY <1>2
<1>5. \A i \in DOMAIN Append(q, e) : IsElement(Append(q, e)[i])
  BY <1>4 DEF AreElements
<1> QED BY <1>3, <1>5 DEF AreElements, IsASequence

LEMMA FinishKeepsElements ==
  ASSUME ElementsInv, NEW b, NEW board, NEW left, IsBoard(board), UNCHANGED dragged,
         OnFinishAnimation(b, board, left)
  PROVE  ElementsInv'
<1>1. batches' = [i \in DOMAIN batches |-> batches'[i]]
  <2>1. batches = [i \in DOMAIN batches |-> batches[i]]
    BY DEF ElementsInv, IsASequence
  <2> QED BY <2>1 DEF OnFinishAnimation
<1>2. IsASequence(batches') /\ Len(batches') = Len(batches)
  BY <1>1, SameLength DEF ElementsInv
<1>3. IsBoard(dom')
  BY DrawnIsBoard DEF OnFinishAnimation
<1> QED BY <1>2, <1>3 DEF ElementsInv, IsASequence, IsBoard, AreElements, IsElement

LEMMA SquareKeepsBoard ==
  ASSUME NEW board, IsBoard(board), NEW s, NEW q, AreElements(q)
  PROVE  IsBoard([board EXCEPT ![s] = q])
BY DEF IsBoard

LEMMA LandKeepsElements ==
  ASSUME ElementsInv, NEW f, Land(f) PROVE ElementsInv'
<1> DEFINE removed == IF f.spare /\ f.onPage THEN {f.dest} ELSE {}
           there == IF removed = {} THEN dom[f.dest] ELSE <<>>
           board == IF f.onPage
                    THEN [dom EXCEPT ![f.dest] = Append(there, Element(f.piece, TRUE))]
                    ELSE dom
<1>1. IsBoard(board)
  <2>1. CASE f.onPage /\ f.dest \in Squares
    <3>1. AreElements(there)
      BY <2>1, NoElements DEF ElementsInv, IsBoard
    <3>2. AreElements(Append(there, Element(f.piece, TRUE)))
      BY <3>1, NewElement, AppendKeepsElements
    <3> HIDE DEF there
    <3> QED BY <2>1, <3>2, SquareKeepsBoard DEF ElementsInv
  <2>2. CASE f.onPage /\ f.dest \notin Squares
    <3>1. board = dom
      BY <2>2 DEF ElementsInv, IsBoard
    <3> QED BY <3>1 DEF ElementsInv
  <2>3. CASE ~f.onPage
    BY <2>3 DEF ElementsInv
  <2> QED BY <2>1, <2>2, <2>3
<1>2. OnFinishAnimation(f.batch, board, Orphaned(orphans, dom, removed))
  BY Zenon DEF Land
<1>3. UNCHANGED dragged
  BY DEF Land, modelVars
<1> HIDE DEF board, removed
<1> QED BY <1>1, <1>2, <1>3, FinishKeepsElements

\* What the end of a fade makes of the element.
LEMMA FadeEnds ==
  ASSUME ElementsInv, NEW s \in Squares, NEW i \in DOMAIN dom[s], EndFade(s, i)
  PROVE  \E shown, fx, q :
           /\ fx = <<>> \/ fx = Tail(dom[s][i].fx)
           /\ q = [dom[s] EXCEPT ![i] = [piece |-> dom[s][i].piece, shown |-> shown, fx |-> fx]]
           /\ OnFinishAnimation(Head(dom[s][i].fx).batch, [dom EXCEPT ![s] = q], orphans)
<1> DEFINE e == dom[s][i]
           fade == Head(e.fx)
           last == batches[fade.batch].numFinished + 1 = batches[fade.batch].length
           rest == IF last THEN <<>> ELSE Tail(e.fx)
           shown == \/ e.shown /\ fade.kind = "in"
                    \/ rest # <<>> /\ Head(rest).kind = "in"
           board == [dom EXCEPT ![s][i].shown = shown, ![s][i].fx = rest]
           e2 == [piece |-> e.piece, shown |-> shown, fx |-> rest]
           q == [dom[s] EXCEPT ![i] = e2]
<1>1. OnFinishAnimation(fade.batch, board, orphans)
  BY Zenon DEF EndFade
<1>2. IsElement(e)
  BY DEF ElementsInv, IsBoard, AreElements
<1>3. [e EXCEPT !.shown = shown, !.fx = rest] = e2
  <2> HIDE DEF e, shown, rest
  <2> QED BY <1>2, ElementWith, Zenon
<1>4. board = [dom EXCEPT ![s] = [dom[s] EXCEPT ![i] = [e EXCEPT !.shown = shown, !.fx = rest]]]
  <2> HIDE DEF shown, rest
  <2> QED BY DEF ElementsInv, IsBoard
<1>5. board = [dom EXCEPT ![s] = q]
  BY <1>3, <1>4, Zenon
<1>6. rest = <<>> \/ rest = Tail(dom[s][i].fx)
  OBVIOUS
<1> DEFINE b == Head(dom[s][i].fx).batch
<1>7. OnFinishAnimation(b, [dom EXCEPT ![s] = q], orphans)
  BY <1>1, <1>5, Zenon
<1>8. q = [dom[s] EXCEPT ![i] = [piece |-> dom[s][i].piece, shown |-> shown, fx |-> rest]]
  OBVIOUS
<1> HIDE DEF shown, rest, board, fade, q
<1> QED BY <1>6, <1>7, <1>8, Zenon

LEMMA PlaceKeepsElements ==
  ASSUME NEW q, AreElements(q), NEW i \in DOMAIN q, NEW e, IsElement(e)
  PROVE  AreElements([q EXCEPT ![i] = e])
<1> DEFINE r == [q EXCEPT ![i] = e]
<1>1. q = [j \in DOMAIN q |-> q[j]]
  BY DEF AreElements, IsASequence
<1>2. r = [j \in DOMAIN q |-> r[j]] /\ \A j \in DOMAIN q : r[j] = e \/ r[j] = q[j]
  BY <1>1
<1> HIDE DEF r
<1>3. IsASequence(r) /\ DOMAIN r = DOMAIN q
  BY <1>2, SameLength DEF AreElements
<1>4. AreElements(r)
  BY <1>2, <1>3 DEF AreElements
<1> QED BY <1>4 DEF r

LEMMA FadeKeepsInv ==
  ASSUME ElementsInv, NEW s \in Squares, NEW i \in DOMAIN dom[s], EndFade(s, i)
  PROVE  ElementsInv'
<1>1. PICK shown, fx, q :
           /\ fx = <<>> \/ fx = Tail(dom[s][i].fx)
           /\ q = [dom[s] EXCEPT ![i] = [piece |-> dom[s][i].piece, shown |-> shown, fx |-> fx]]
           /\ OnFinishAnimation(Head(dom[s][i].fx).batch, [dom EXCEPT ![s] = q], orphans)
  BY FadeEnds
<1>2. AreElements(dom[s])
  BY DEF ElementsInv, IsBoard
<1>3. fx \in Seq(Effects)
  <2>1. dom[s][i].fx \in Seq(Effects) /\ dom[s][i].fx # <<>>
    BY <1>2 DEF AreElements, IsElement, EndFade
  <2>2. Tail(dom[s][i].fx) \in Seq(Effects) /\ <<>> \in Seq(Effects)
    BY <2>1
  <2> QED BY <1>1, <2>2
<1> DEFINE e2 == [piece |-> dom[s][i].piece, shown |-> shown, fx |-> fx]
<1>4. IsElement(e2)
  BY <1>3 DEF IsElement
<1>5. AreElements(q)
  <2>1. q = [dom[s] EXCEPT ![i] = e2]
    BY <1>1
  <2> HIDE DEF e2
  <2> QED BY <1>2, <1>4, <2>1, PlaceKeepsElements
<1>6. IsBoard([dom EXCEPT ![s] = q])
  BY <1>5, SquareKeepsBoard DEF ElementsInv
<1>7. UNCHANGED dragged
  BY DEF EndFade, modelVars
<1> QED BY <1>1, <1>6, <1>7, FinishKeepsElements

LEMMA AnimateKeepsElements ==
  ASSUME ElementsInv, NEW plan, NEW pos, Len(batches) < MaxBatches, MaxBatches \in Nat,
         DoAnimations(plan, pos, Len(batches) + 1), UNCHANGED dragged
  PROVE  ElementsInv'
<1> DEFINE b == Len(batches) + 1
           sources == {m[1] : m \in plan.moves}
           fadeIns == IF config.sparePieces THEN {} ELSE plan.adds
           moved == [s \in Squares |-> IF s \in sources THEN <<>> ELSE dom[s]]
           added == [s \in Squares |->
                       IF s \in fadeIns
                       THEN Fade(Append(moved[s], Element(pos[s], FALSE)), "in", b)
                       ELSE moved[s]]
<1>1. /\ dom' = [s \in Squares |->
                   IF s \in plan.clears THEN Fade(added[s], "out", b) ELSE added[s]]
      /\ batches' = Append(batches, [length |-> AnimationCount(plan), numFinished |-> 0])
  BY Zenon DEF DoAnimations
<1> DEFINE batch == [length |-> AnimationCount(plan), numFinished |-> 0]
<1> HIDE DEF sources, fadeIns, batch
<1>2. PICK S : batches \in Seq(S)
  BY DEF ElementsInv, IsASequence
<1>3. b \in 1..MaxBatches /\ Len(batches) \in Nat
  BY <1>2
<1>4. /\ IsASequence(batches') /\ Len(batches') = b
  <2>1. batches \in Seq(S \union {batch})
    BY <1>2
  <2>2. batches' = Append(batches, batch)
    BY <1>1 DEF batch
  <2>3. batches' \in Seq(S \union {batch}) /\ Len(batches') = b
    BY <2>1, <2>2
  <2> QED BY <2>3 DEF IsASequence
<1> HIDE DEF b
<1>5. \A s \in Squares : AreElements(moved[s])
  BY NoElements DEF ElementsInv, IsBoard
<1> HIDE DEF moved
<1>6. ASSUME NEW s \in Squares PROVE AreElements(added[s])
  <2>1. CASE s \in fadeIns
    <3> DEFINE q == Append(moved[s], Element(pos[s], FALSE))
    <3>1. AreElements(q)
      BY <1>5, NewElement, AppendKeepsElements
    <3>2. added[s] = Fade(q, "in", b)
      BY <2>1
    <3> HIDE DEF q
    <3> QED BY <1>3, <3>1, <3>2, FadeKeepsElements
  <2>2. CASE s \notin fadeIns
    BY <1>5, <2>2
  <2> QED BY <2>1, <2>2
<1> HIDE DEF added
<1>7. ASSUME NEW s \in Squares PROVE AreElements(dom'[s])
  <2>1. CASE s \in plan.clears
    BY <1>1, <1>3, <1>6, <2>1, FadeKeepsElements
  <2>2. CASE s \notin plan.clears
    BY <1>1, <1>6, <2>2
  <2> QED BY <2>1, <2>2
<1>8. IsBoard(dom')
  <2>1. dom' = [s \in Squares |-> dom'[s]]
    BY <1>1
  <2> QED BY <1>7, <2>1 DEF IsBoard
<1>9. Len(batches') <= MaxBatches
  BY <1>3, <1>4
<1> QED BY <1>4, <1>8, <1>9 DEF ElementsInv, IsASequence, IsBoard, AreElements, IsElement

\* A drag hides the elements of its square, and changes nothing else of them.
LEMMA BeginKeepsElements ==
  ASSUME ElementsInv, NEW source, NEW piece, BeginDraggingPiece(source, piece)
  PROVE  /\ ElementsInv'
         /\ \A s \in Squares :
              /\ DOMAIN dom'[s] = DOMAIN dom[s]
              /\ \A i \in DOMAIN dom[s] :
                   /\ dom'[s][i].fx = dom[s][i].fx
                   /\ s = source => dom'[s][i].shown = FALSE
         /\ dragged'.shown = TRUE /\ dragged'.fx = dragged.fx
<1>1. dom' = [s \in Squares |->
                IF s = source
                THEN [i \in DOMAIN dom[s] |-> [dom[s][i] EXCEPT !.shown = FALSE]]
                ELSE dom[s]]
  BY DEF BeginDraggingPiece
<1>2. ASSUME NEW s \in Squares
      PROVE  /\ AreElements(dom'[s]) /\ DOMAIN dom'[s] = DOMAIN dom[s]
             /\ \A i \in DOMAIN dom[s] :
                  /\ dom'[s][i].fx = dom[s][i].fx
                  /\ s = source => dom'[s][i].shown = FALSE
  <2>1. AreElements(dom[s])
    BY DEF ElementsInv, IsBoard
  <2>2. CASE s = source
    <3> DEFINE q == dom'[s]
    <3>1. q = [i \in DOMAIN dom[s] |-> [dom[s][i] EXCEPT !.shown = FALSE]]
      BY <1>1, <2>2
    <3> HIDE DEF q
    <3>2. IsASequence(q) /\ DOMAIN q = DOMAIN dom[s]
      <4>1. q = [i \in DOMAIN dom[s] |-> q[i]]
        BY <3>1
      <4> QED BY <2>1, <4>1, SameLength DEF AreElements
    <3>3. ASSUME NEW i \in DOMAIN dom[s]
          PROVE  IsElement(q[i]) /\ q[i].fx = dom[s][i].fx /\ q[i].shown = FALSE
      <4>1. IsElement(dom[s][i])
        BY <2>1 DEF AreElements
      <4> DEFINE e == dom[s][i]
      <4>2. q[i] = [e EXCEPT !.shown = FALSE]
        BY <3>1
      <4> HIDE DEF e
      <4>3. q[i] = [piece |-> e.piece, shown |-> FALSE, fx |-> e.fx]
        BY <4>1, <4>2, ElementWith, Zenon DEF e
      <4> QED BY <4>1, <4>3 DEF IsElement, e
    <3>4. AreElements(q)
      BY <3>2, <3>3 DEF AreElements
    <3> QED BY <3>2, <3>3, <3>4 DEF q
  <2>3. CASE s # source
    BY <1>1, <2>1, <2>3
  <2> QED BY <2>2, <2>3
<1>3. IsBoard(dom')
  <2>1. dom' = [s \in Squares |-> dom'[s]]
    BY <1>1
  <2> QED BY <1>2, <2>1 DEF IsBoard
<1>4. dragged' = [shown |-> TRUE, fx |-> dragged.fx]
  BY DEF BeginDraggingPiece, ElementsInv
<1>5. dragged' = [shown |-> dragged'.shown, fx |-> dragged'.fx]
  BY <1>4
<1>6. UNCHANGED batches
  BY DEF BeginDraggingPiece
<1> QED BY <1>2, <1>3, <1>4, <1>5, <1>6
        DEF ElementsInv, IsASequence, IsBoard, AreElements, IsElement

\* A step that leaves the batches and the dragged piece alone and draws the
\* elements anew, or not at all.
LEMMA RedrawKeepsElements ==
  ASSUME ElementsInv, UNCHANGED batches,
         dom' = dom \/ \E pos : dom' = Drawn(pos),
         dragged' = [shown |-> dragged'.shown, fx |-> dragged'.fx]
  PROVE  ElementsInv'
<1>1. IsBoard(dom')
  BY DrawnIsBoard DEF ElementsInv
<1> QED BY <1>1 DEF ElementsInv, IsASequence, IsBoard, AreElements, IsElement

LEMMA ElementsStep ==
  ASSUME TypeInv, ElementsInv, [Next]_vars PROVE ElementsInv'
<1>1. ASSUME NEW pos, NEW animate \in BOOLEAN, Position(pos, animate) PROVE ElementsInv'
  <2>1. UNCHANGED dragged
    BY <1>1 DEF Position
  <2>2. dragged' = [shown |-> dragged'.shown, fx |-> dragged'.fx]
    BY <2>1 DEF ElementsInv
  <2>3. CASE /\ animate /\ pos # currentPosition /\ Len(batches) < MaxBatches
             /\ \E plan \in CalculateAnimations(currentPosition, pos) :
                   DoAnimations(plan, pos, Len(batches) + 1)
    BY <2>1, <2>3, AnimateKeepsElements, ChessboardAssumption
  <2>4. CASE ~animate /\ DrawPositionInstant(dom, pos) /\ UNCHANGED batches
    BY <2>2, <2>4, RedrawKeepsElements DEF DrawPositionInstant
  <2>5. CASE UNCHANGED viewVars
    BY <2>2, <2>5, RedrawKeepsElements DEF viewVars
  <2> QED BY <1>1, <2>3, <2>4, <2>5 DEF Position
<1>2. ASSUME DrawBoard PROVE ElementsInv'
  <2>1. dragged' = [shown |-> dragged'.shown, fx |-> dragged'.fx]
    BY <1>2 DEF DrawBoard, ElementsInv
  <2> QED BY <1>2, <2>1, RedrawKeepsElements DEF DrawBoard, DrawPositionInstant
<1>3. CASE PageCalls
  BY <1>1, <1>2, <1>3 DEF PageCalls, Move, Start, Clear, Orientation, Resize
<1>4. ASSUME NEW effect, EndDrag(effect), dom' = dom \/ \E pos : dom' = Drawn(pos)
      PROVE  ElementsInv'
  <2>1. dragged' = [shown |-> dragged'.shown, fx |-> dragged'.fx]
    BY <1>4 DEF EndDrag, ElementsInv
  <2> QED BY <1>4, <2>1, RedrawKeepsElements DEF EndDrag
<1>5. ASSUME TrashDraggedPiece PROVE ElementsInv'
  BY <1>4, <1>5 DEF TrashDraggedPiece, DrawPositionInstant
<1>6. ASSUME NEW p \in Points, MouseupWindow(p) PROVE ElementsInv'
  <2>1. config.onDrop \subseteq {"none", "snapback", "trash"}
        /\ config.dropOffBoard \in {"snapback", "trash"}
    BY ChessboardAssumption DEF TypeInv, TypeOK
  <2>2. \/ SnapbackDraggedPiece \/ TrashDraggedPiece
        \/ DropDraggedPieceOnSquare(IsXYOnSquare(p))
    BY <1>6, <2>1 DEF MouseupWindow, StopDraggedPiece
  <2>3. CASE SnapbackDraggedPiece
    BY <1>4, <1>5, <2>3 DEF SnapbackDraggedPiece
  <2>4. CASE DropDraggedPieceOnSquare(IsXYOnSquare(p))
    BY <1>4, <2>4 DEF DropDraggedPieceOnSquare
  <2> QED BY <1>5, <2>2, <2>3, <2>4
<1>7. ASSUME NEW p \in Points, MousemoveWindow(p) PROVE ElementsInv'
  <2>1. UNCHANGED <<dom, batches, dragged>>
    BY <1>7 DEF MousemoveWindow, viewVars
  <2>2. dragged' = [shown |-> dragged'.shown, fx |-> dragged'.fx]
    BY <2>1 DEF ElementsInv
  <2> QED BY <2>1, <2>2, RedrawKeepsElements
<1>8. CASE Drags
  BY <1>6, <1>7, <1>8, BeginKeepsElements DEF Drags, MousedownSquare, MousedownSparePiece
<1>9. ASSUME NEW b, EndOrphan(b) PROVE ElementsInv'
  BY <1>9, FinishKeepsElements DEF EndOrphan, modelVars, ElementsInv
<1>10. ASSUME EndDraggedEffect PROVE ElementsInv'
  <2>1. dragged' = [shown |-> dragged'.shown, fx |-> dragged'.fx] /\ UNCHANGED batches
        /\ (dom' = dom \/ \E pos : dom' = Drawn(pos))
    BY <1>10 DEF EndDraggedEffect, DrawPositionInstant
  <2> QED BY <2>1, RedrawKeepsElements
<1>11. CASE Animations
  BY <1>9, <1>10, <1>11, LandKeepsElements, FadeKeepsInv DEF Animations
<1>12. CASE UNCHANGED vars
  BY <1>12 DEF vars, viewVars, ElementsInv, IsASequence, IsBoard, AreElements, IsElement
<1> QED BY <1>3, <1>8, <1>11, <1>12 DEF Next

LEMMA ElementsInit == Init => ElementsInv
<1> SUFFICES ASSUME Init PROVE ElementsInv
  OBVIOUS
<1>1. IsBoard(dom)
  BY DrawnIsBoard DEF Init
<1>2. <<>> \in Seq({}) /\ Len(<<>>) = 0
  OBVIOUS
<1> QED BY <1>1, <1>2, ChessboardAssumption DEF Init, ElementsInv, IsASequence

-----------------------------------------------------------------------------
(* Counting callbacks.  A batch waits for as many callbacks as have not    *)
(* come: of elements on their way, of effects on elements of the page, and *)
(* of effects on elements that were removed.                               *)

Flying(air, b) == {f \in air : f.batch = b}

Pending(board, left, air, b) ==
  Cardinality(Flying(air, b)) + left[b] + Cardinality(Running(board, Squares, b))

\* The effects in a queue are of the batch of its first.
OneBatch(fx) == \A k \in DOMAIN fx : fx[k].batch = Head(fx).batch

\* Elements of which each waits for one batch, and elements on their way to a square.
IsView(board, left, air) ==
  /\ IsBoard(board)
  /\ \A s \in Squares : \A i \in DOMAIN board[s] : OneBatch(board[s][i].fx)
  /\ left \in [1..MaxBatches -> Nat]
  /\ IsFiniteSet(air)
  /\ \A f \in air : f.batch \in 1..MaxBatches /\ f.dest \in Squares

IsBatches(bs) ==
  bs \in Seq([length : Nat, numFinished : Nat]) /\ Len(bs) <= MaxBatches

Remaining(bs, b) ==
  IF b \in DOMAIN bs THEN bs[b].length - bs[b].numFinished ELSE 0

\* The effect of batch b that runs on element i of square s.
Runs(board, s, i, b) ==
  /\ i \in DOMAIN board[s]
  /\ board[s][i].fx # <<>> /\ Head(board[s][i].fx).batch = b

\* The effects of batch b that run are the last ones of their elements.
Single(board, b) ==
  \A s \in Squares : \A i : Runs(board, s, i, b) => Len(board[s][i].fx) = 1

\* Callbacks do not run short, and while a piece of the batch is on its way there
\* are no more of them than the batch counts.
CountedBatch(board, left, air, bs, b) ==
  /\ Pending(board, left, air, b) >= Remaining(bs, b)
  /\ b \notin DOMAIN bs => Pending(board, left, air, b) = 0
  /\ Flying(air, b) # {} => /\ Pending(board, left, air, b) = Remaining(bs, b)
                            /\ Single(board, b)

Counted(board, left, air, bs) ==
  /\ IsView(board, left, air) /\ IsBatches(bs)
  /\ \A b \in 1..MaxBatches : CountedBatch(board, left, air, bs, b)

CountInv == Counted(dom, orphans, flights, batches)

\* All callbacks that a redraw waits for have come.
AllFinished == \A b \in DOMAIN batches : batches[b].numFinished >= batches[b].length

\* The dragged piece is on its way to a square.
Snaps == \E i \in DOMAIN dragged.fx : dragged.fx[i] # "trash"

\* No snap will draw the board, and no begin of a drag has hidden a piece since
\* it was drawn: either nothing is dragged or, where nothing is trashed, the end
\* of a snap has hidden what is dragged, and drawn the board.
Quiet ==
  \/ ~isDragging /\ ~Snaps
  \/ isDragging /\ ~dragged.shown /\ NeverTrashes

\* When no redraw is to come the board is drawn, and the mouse carries nothing.
Settled ==
  /\ dragged.fx \in Seq({"trash", "snap", "snapback"})
  /\ NeverTrashes => \A i \in DOMAIN dragged.fx : dragged.fx[i] # "trash"
  /\ ~isDragging /\ dragged.fx = <<>> => ~dragged.shown
  /\ Quiet /\ AllFinished => dom = Drawn(currentPosition)

LEMMA RunningIs ==
  ASSUME NEW board, NEW S, NEW b, NEW s, NEW i
  PROVE  <<s, i>> \in Running(board, S, b) <=> s \in S /\ Runs(board, s, i, b)
<1> DEFINE All == UNION {{t} \X DOMAIN board[t] : t \in S}
<1>1. <<s, i>> \in All <=> s \in S /\ i \in DOMAIN board[s]
  OBVIOUS
<1> DEFINE Is(e) == /\ board[e[1]][e[2]].fx # <<>>
                    /\ Head(board[e[1]][e[2]].fx).batch = b
<1>2. Running(board, S, b) = {e \in All : Is(e)}
  BY DEF Running
<1>3. Is(<<s, i>>) <=> board[s][i].fx # <<>> /\ Head(board[s][i].fx).batch = b
  OBVIOUS
<1> HIDE DEF All, Is
<1> QED BY <1>1, <1>2, <1>3 DEF Runs

LEMMA RunningPairs ==
  ASSUME NEW board, NEW S, NEW b, NEW x \in Running(board, S, b)
  PROVE  \E s, i : s \in S /\ x = <<s, i>>
BY DEF Running

\* The same effects run on elements of which the same can be said.
LEMMA SameRunning ==
  ASSUME NEW board, NEW other, NEW S, NEW b,
         \A s \in S : \A i : Runs(board, s, i, b) <=> Runs(other, s, i, b)
  PROVE  Running(board, S, b) = Running(other, S, b)
<1>1. ASSUME NEW x \in Running(board, S, b) PROVE x \in Running(other, S, b)
  BY RunningPairs, RunningIs
<1>2. ASSUME NEW x \in Running(other, S, b) PROVE x \in Running(board, S, b)
  BY RunningPairs, RunningIs
<1> QED BY <1>1, <1>2

LEMMA NothingRuns ==
  ASSUME NEW board, NEW S, NEW b, \A s \in S : \A i : ~Runs(board, s, i, b)
  PROVE  Running(board, S, b) = {} /\ Cardinality(Running(board, S, b)) = 0
<1>1. ASSUME NEW x \in Running(board, S, b) PROVE FALSE
  BY RunningPairs, RunningIs
<1> QED BY <1>1, FS_EmptySet

LEMMA RunningFinite ==
  ASSUME NEW board, IsBoard(board), NEW S, S \subseteq Squares, NEW b
  PROVE  /\ IsFiniteSet(Running(board, S, b))
         /\ Cardinality(Running(board, S, b)) \in Nat
<1> DEFINE Pairs(s) == {s} \X DOMAIN board[s]
           T == {Pairs(s) : s \in S}
<1>1. ASSUME NEW s \in S PROVE IsFiniteSet(Pairs(s))
  <2>1. IsASequence(board[s])
    BY DEF IsBoard, AreElements
  <2> DEFINE D == DOMAIN board[s]
  <2>2. D = 1..Len(board[s]) /\ Len(board[s]) \in Nat
    BY <2>1 DEF IsASequence
  <2>3. IsFiniteSet(D)
    BY <2>2, FS_Interval
  <2>4. IsFiniteSet({s})
    BY FS_Singleton
  <2> HIDE DEF D
  <2>5. IsFiniteSet({s} \X D)
    BY <2>3, <2>4, FS_Product
  <2> QED BY <2>5 DEF D
<1>2. IsFiniteSet(T)
  <2>1. IsFiniteSet(S)
    BY SquaresAreFinite, FS_Subset
  <2> DEFINE f == [s \in S |-> Pairs(s)]
  <2>2. f \in Surjection(S, T)
    BY DEF Surjection
  <2> HIDE DEF T, f
  <2> QED BY <2>1, <2>2, FS_Surjection
<1>3. \A U \in T : IsFiniteSet(U)
  BY <1>1
<1>4. Running(board, S, b) \subseteq UNION T
  BY DEF Running
<1> HIDE DEF T
<1>5. IsFiniteSet(UNION T)
  BY <1>2, <1>3, FS_UNION
<1> QED BY <1>4, <1>5, FS_Subset, FS_CardinalityType

LEMMA PendingIsNumber ==
  ASSUME NEW board, NEW left, NEW air, IsView(board, left, air), NEW b \in 1..MaxBatches
  PROVE  /\ IsFiniteSet(Flying(air, b)) /\ Cardinality(Flying(air, b)) \in Nat
         /\ left[b] \in Nat /\ Cardinality(Running(board, Squares, b)) \in Nat
         /\ Pending(board, left, air, b) \in Nat
<1>1. IsFiniteSet(Flying(air, b)) /\ Cardinality(Flying(air, b)) \in Nat
  <2>1. Flying(air, b) \subseteq air
    BY DEF Flying
  <2> QED BY <2>1, FS_Subset, FS_CardinalityType DEF IsView
<1>2. left[b] \in Nat /\ Cardinality(Running(board, Squares, b)) \in Nat
  BY RunningFinite DEF IsView
<1> QED BY <1>1, <1>2 DEF Pending

LEMMA DrawnIsStill ==
  ASSUME NEW pos, NEW s \in Squares, NEW i \in DOMAIN Drawn(pos)[s]
  PROVE  Drawn(pos)[s][i].fx = <<>>
<1>1. CASE s \in DOMAIN pos
  <2> DEFINE e == Element(pos[s], TRUE)
  <2>1. Drawn(pos)[s] = <<e>> /\ e.fx = <<>>
    BY <1>1 DEF Drawn, Element
  <2> HIDE DEF e
  <2>2. i = 1 /\ Drawn(pos)[s][i] = e
    BY <2>1
  <2> QED BY <2>1, <2>2
<1>2. CASE s \notin DOMAIN pos
  BY <1>2 DEF Drawn
<1> QED BY <1>1, <1>2

\* Nothing runs on the squares S any more, and elsewhere what ran before.
EffectsGone(board, other, S) ==
  /\ \A s \in S : \A i, b : ~Runs(other, s, i, b)
  /\ \A s \in Squares \ S : \A i, b : Runs(board, s, i, b) <=> Runs(other, s, i, b)
  /\ \A s \in Squares : \A i, b :
        Runs(other, s, i, b) => other[s][i].fx = board[s][i].fx

\* Removing the elements of some squares leaves as many callbacks to come.
LEMMA RemovedStillCall ==
  ASSUME NEW board, NEW other, NEW left, NEW air, IsView(board, left, air),
         NEW S, S \subseteq Squares, EffectsGone(board, other, S),
         NEW b \in 1..MaxBatches
  PROVE  /\ Orphaned(left, board, S)[b] \in Nat
         /\ Pending(other, Orphaned(left, board, S), air, b) = Pending(board, left, air, b)
         /\ Single(board, b) => Single(other, b)
<1> DEFINE now == Orphaned(left, board, S)
<1>1. /\ now[b] = left[b] + Cardinality(Running(board, S, b)) /\ now[b] \in Nat
      /\ Pending(other, now, air, b) = Pending(board, left, air, b)
  <2> DEFINE R == Running(board, S, b)
             A == Running(board, Squares, b)
             B == Running(other, Squares, b)
  <2>1. IsFiniteSet(A) /\ IsFiniteSet(R) /\ Cardinality(R) \in Nat /\ Cardinality(A) \in Nat
    BY RunningFinite DEF IsView
  <2>2. R \subseteq A
    <3>1. ASSUME NEW x \in R PROVE x \in A
      BY RunningPairs, RunningIs
    <3> QED BY <3>1
  <2>3. B = A \ R
    <3>1. ASSUME NEW x \in B PROVE x \in A \ R
      <4>1. PICK s, i : s \in Squares /\ x = <<s, i>>
        BY RunningPairs
      <4>2. Runs(other, s, i, b)
        BY <4>1, RunningIs
      <4>3. s \notin S /\ Runs(board, s, i, b)
        BY <4>1, <4>2, Zenon DEF EffectsGone
      <4> QED BY <4>1, <4>3, RunningIs
    <3>2. ASSUME NEW x \in A, x \notin R PROVE x \in B
      <4>1. PICK s, i : s \in Squares /\ x = <<s, i>>
        BY RunningPairs
      <4>2. Runs(board, s, i, b) /\ s \notin S
        BY <3>2, <4>1, RunningIs
      <4>3. Runs(other, s, i, b)
        BY <4>1, <4>2, Zenon DEF EffectsGone
      <4> QED BY <4>1, <4>3, RunningIs
    <3> QED BY <3>1, <3>2
  <2> HIDE DEF A, B, R
  <2>4. Cardinality(B) = Cardinality(A) - Cardinality(R)
    <3>1. A \cap R = R
      BY <2>2
    <3>2. Cardinality(A \ R) = Cardinality(A) - Cardinality(A \cap R)
      BY <2>1, FS_Difference
    <3> QED BY <2>3, <3>1, <3>2
  <2>5. now[b] = left[b] + Cardinality(R)
    BY DEF Orphaned, R
  <2>6. left[b] \in Nat /\ Cardinality(Flying(air, b)) \in Nat
    BY PendingIsNumber
  <2> HIDE DEF now
  <2> QED BY <2>1, <2>4, <2>5, <2>6 DEF Pending, A, B, R
<1>2. ASSUME Single(board, b), NEW s \in Squares, NEW i, Runs(other, s, i, b)
      PROVE  Len(other[s][i].fx) = 1
  <2>1. Runs(board, s, i, b) /\ other[s][i].fx = board[s][i].fx
    BY <1>2 DEF EffectsGone
  <2> QED BY <1>2, <2>1 DEF Single
<1> QED BY <1>1, <1>2 DEF Single

LEMMA NoEffects == OneBatch(<<>>)
BY DEF OneBatch

\* When all are removed, in favour of a position.
LEMMA RedrawnStillCall ==
  ASSUME NEW board, NEW left, NEW air, IsView(board, left, air), NEW pos
  PROVE  /\ IsView(Drawn(pos), Orphaned(left, board, Squares), air)
         /\ \A b \in 1..MaxBatches :
              /\ Pending(Drawn(pos), Orphaned(left, board, Squares), air, b)
                   = Pending(board, left, air, b)
              /\ Single(Drawn(pos), b)
<1>1. \A s \in Squares : \A i, b : ~Runs(Drawn(pos), s, i, b)
  BY DrawnIsStill DEF Runs
<1>2. \A s \in Squares : \A i \in DOMAIN Drawn(pos)[s] : OneBatch(Drawn(pos)[s][i].fx)
  BY DrawnIsStill, NoEffects
<1>3. IsBoard(Drawn(pos))
  BY DrawnIsBoard
<1>4. EffectsGone(board, Drawn(pos), Squares) /\ Squares \subseteq Squares
  BY <1>1 DEF EffectsGone
<1>5. ASSUME NEW b \in 1..MaxBatches
      PROVE  /\ Orphaned(left, board, Squares)[b] \in Nat
             /\ Pending(Drawn(pos), Orphaned(left, board, Squares), air, b)
                  = Pending(board, left, air, b)
  BY <1>4, RemovedStillCall
<1>6. Orphaned(left, board, Squares) \in [1..MaxBatches -> Nat]
  BY <1>5 DEF Orphaned
<1>7. \A b : Single(Drawn(pos), b)
  BY <1>1 DEF Single
<1> QED BY <1>2, <1>3, <1>5, <1>6, <1>7 DEF IsView

\* onFinishAnimation3: one callback less to come, of this batch, or as many if
\* its element goes on with another effect.
LEMMA FinishCounts ==
  ASSUME CountInv, NEW b \in 1..MaxBatches, NEW board, NEW left, NEW air,
         IsView(board, left, air), air \subseteq flights,
         \A c \in 1..MaxBatches :
           /\ c # b => Pending(board, left, air, c) = Pending(dom, orphans, flights, c)
           /\ Single(dom, c) => Single(board, c),
         Pending(dom, orphans, flights, b) # 0,
         \/ Pending(board, left, air, b) = Pending(dom, orphans, flights, b) - 1
         \/ /\ Pending(board, left, air, b) = Pending(dom, orphans, flights, b)
            /\ Flying(air, b) = {},
         OnFinishAnimation(b, board, left), flights' = air
  PROVE  /\ CountInv'
         /\ \/ dom' = Drawn(currentPosition)
            \/ dom' = board /\ (AllFinished' => AllFinished)
<1> DEFINE r == batches[b]
           n == r.numFinished + 1
           came(c) == IF c = b THEN 1 ELSE 0
<1>0. /\ IsBatches(batches) /\ IsView(dom, orphans, flights)
      /\ \A c \in 1..MaxBatches : CountedBatch(dom, orphans, flights, batches, c)
  BY DEF CountInv, Counted
<1>1. b \in DOMAIN batches
  BY <1>0 DEF CountedBatch
<1>2. r \in [length : Nat, numFinished : Nat]
  <2> DEFINE S == [length : Nat, numFinished : Nat]
  <2>1. batches \in Seq(S)
    BY <1>0 DEF IsBatches
  <2> HIDE DEF S
  <2>2. batches[b] \in S
    BY <1>1, <2>1
  <2> QED BY <2>2 DEF S
<1>3. batches' = [batches EXCEPT ![b] = [r EXCEPT !.numFinished = n]]
  <2>1. batches' = [batches EXCEPT ![b].numFinished = batches[b].numFinished + 1]
    BY Zenon DEF OnFinishAnimation
  <2> QED BY <2>1
<1>4. [r EXCEPT !.numFinished = n] = [length |-> r.length, numFinished |-> n]
  BY <1>2
<1>5. n \in Nat /\ r.length \in Nat /\ r.numFinished \in Nat /\ n = r.numFinished + 1
  BY <1>2
<1> DEFINE q == [length |-> r.length, numFinished |-> n]
<1>6. q \in [length : Nat, numFinished : Nat] /\ q.numFinished = n /\ q.length = r.length
  BY <1>5
<1>7. batches' = [batches EXCEPT ![b] = q]
  BY <1>3, <1>4
<1> HIDE DEF q
<1>8. /\ IsBatches(batches') /\ DOMAIN batches' = DOMAIN batches
      /\ batches'[b] = q /\ \A c \in DOMAIN batches : c # b => batches'[c] = batches[c]
  BY <1>0, <1>1, <1>6, <1>7 DEF IsBatches
<1>9. /\ Remaining(batches, b) = r.length - r.numFinished
      /\ Remaining(batches', b) = r.length - n
      /\ \A c \in 1..MaxBatches : c # b => Remaining(batches', c) = Remaining(batches, c)
  BY <1>1, <1>6, <1>8 DEF Remaining
<1>10. ASSUME NEW c \in 1..MaxBatches PROVE CountedBatch(board, left, air, batches', c)
  <2>1. CountedBatch(dom, orphans, flights, batches, c)
    BY <1>0
  <2>2. Flying(air, c) # {} => Flying(flights, c) # {}
    BY DEF Flying
  <2>3. CASE c # b
    BY <1>8, <1>9, <2>1, <2>2, <2>3 DEF CountedBatch
  <2>4. CASE c = b
    <3>1. Pending(dom, orphans, flights, b) \in Nat
      BY <1>0, PendingIsNumber
    <3>2. /\ Pending(board, left, air, b) >= Remaining(batches', b)
          /\ Flying(air, b) # {} => Pending(board, left, air, b) = Remaining(batches', b)
      BY <1>5, <1>9, <2>1, <2>2, <2>4, <3>1 DEF CountedBatch
    <3> QED BY <1>1, <1>8, <2>1, <2>2, <2>4, <3>2 DEF CountedBatch
  <2> QED BY <2>3, <2>4
<1>11. CASE batches'[b].numFinished = r.length
  <2>1. dom' = Drawn(currentPosition) /\ orphans' = Orphaned(left, board, Squares)
    BY <1>11 DEF OnFinishAnimation
  <2>2. IsView(dom', orphans', air)
        /\ \A c \in 1..MaxBatches :
             /\ Pending(dom', orphans', air, c) = Pending(board, left, air, c)
             /\ Single(dom', c)
    BY <2>1, RedrawnStillCall
  <2>3. CountInv'
    BY <1>8, <1>10, <2>2 DEF CountInv, Counted, CountedBatch
  <2> QED BY <2>1, <2>3
<1>12. CASE batches'[b].numFinished # r.length
  <2>1. dom' = board /\ orphans' = left
    BY <1>12 DEF OnFinishAnimation
  <2>2. CountInv'
    BY <1>8, <1>10, <2>1 DEF CountInv, Counted
  <2>3. AllFinished' => AllFinished
    <3> SUFFICES ASSUME AllFinished', NEW c \in DOMAIN batches
                 PROVE  batches[c].numFinished >= batches[c].length
      BY DEF AllFinished
    <3>1. batches'[c].numFinished >= batches'[c].length
      BY <1>8 DEF AllFinished
    <3>2. CASE c # b
      BY <1>8, <3>1, <3>2
    <3>3. CASE c = b
      <4>1. n >= r.length /\ n # r.length
        BY <1>6, <1>8, <1>12, <3>1, <3>3
      <4>2. r.numFinished >= r.length
        BY <1>5, <4>1
      <4> QED BY <3>3, <4>2
    <3> QED BY <3>2, <3>3
  <2> QED BY <2>1, <2>2, <2>3
<1> QED BY <1>11, <1>12

\* What the end of an effect does to a board that is settled.
StaysSettled ==
  Quiet /\ AllFinished' => dom' = Drawn(currentPosition)

\* r is q and one more element, e.
OneMore(r, q, e) ==
  /\ \A i \in DOMAIN r : \/ i \in DOMAIN q /\ r[i] = q[i]
                         \/ i \notin DOMAIN q /\ r[i] = e
  /\ \A i \in DOMAIN q : i \in DOMAIN r /\ r[i] = q[i]

LEMMA AppendIs ==
  ASSUME NEW q, AreElements(q), NEW e PROVE OneMore(Append(q, e), q, e)
<1>1. PICK S : q \in Seq(S)
  BY DEF AreElements, IsASequence
<1>2. DOMAIN q = 1..Len(q) /\ Len(q) \in Nat
  BY <1>1
<1>3. Append(q, e) \in Seq(S \union {e}) /\ Len(Append(q, e)) = Len(q) + 1
  <2>1. q \in Seq(S \union {e})
    BY <1>1
  <2> QED BY <2>1
<1>4. DOMAIN Append(q, e) = 1..(Len(q) + 1)
  BY <1>3
<1>5. \A i \in 1..Len(q) : Append(q, e)[i] = q[i]
  BY <1>1
<1>6. Append(q, e)[Len(q) + 1] = e
  BY <1>1
<1>7. \A i \in 1..(Len(q) + 1) : i \in 1..Len(q) \/ (i = Len(q) + 1 /\ i \notin 1..Len(q))
  BY <1>2
<1> DEFINE r == Append(q, e)
<1>8. /\ DOMAIN r = 1..(Len(q) + 1) /\ r[Len(q) + 1] = e
      /\ \A i \in 1..Len(q) : r[i] = q[i]
  BY <1>4, <1>5, <1>6
<1> HIDE DEF r
<1>9. OneMore(r, q, e)
  BY <1>2, <1>7, <1>8 DEF OneMore
<1> QED BY <1>9 DEF r

LEMMA LandedIsView ==
  ASSUME CountInv, NEW f \in flights,
         NEW removed, removed = IF f.spare /\ f.onPage THEN {f.dest} ELSE {},
         NEW there, there = IF removed = {} THEN dom[f.dest] ELSE <<>>,
         NEW board, board = IF f.onPage
                    THEN [dom EXCEPT ![f.dest] = Append(there, Element(f.piece, TRUE))]
                    ELSE dom
  PROVE  /\ IsBoard(board)
         /\ \A s \in Squares : \A i \in DOMAIN board[s] : OneBatch(board[s][i].fx)
         /\ EffectsGone(dom, board, removed) /\ removed \subseteq Squares
<1> DEFINE e == Element(f.piece, TRUE)
<1>0. IsView(dom, orphans, flights) /\ f.dest \in Squares
  BY DEF CountInv, Counted, IsView
<1>1. IsBoard(dom) /\ \A s \in Squares : \A i \in DOMAIN dom[s] : OneBatch(dom[s][i].fx)
  BY <1>0 DEF IsView
<1>2. CASE ~f.onPage
  BY <1>1, <1>2 DEF EffectsGone
<1>3. CASE f.onPage
  <2>1. IsElement(e) /\ e.fx = <<>>
    BY NewElement DEF Element
  <2> HIDE DEF e
  <2>2. AreElements(there)
    BY <1>0, <1>1, NoElements DEF IsBoard
  <2>3. /\ board = [dom EXCEPT ![f.dest] = Append(there, e)]
        /\ \A s \in Squares \ {f.dest} : board[s] = dom[s]
        /\ board[f.dest] = Append(there, e)
    <3>1. board = [dom EXCEPT ![f.dest] = Append(there, e)]
      BY <1>3 DEF e
    <3>2. dom = [s \in Squares |-> dom[s]]
      BY <1>1 DEF IsBoard
    <3> QED BY <1>0, <3>1, <3>2
  <2> DEFINE q == Append(there, e)
  <2>10. AreElements(q)
    BY <2>1, <2>2, AppendKeepsElements
  <2>11. OneMore(q, there, e)
    BY <2>2, AppendIs
  <2>12. board[f.dest] = q /\ board = [dom EXCEPT ![f.dest] = q]
    BY <2>3
  <2> HIDE DEF q
  <2>4. IsBoard(board)
    BY <1>1, <2>10, <2>12, SquareKeepsBoard
  <2>5. /\ removed = {} => there = dom[f.dest]
        /\ removed # {} => there = <<>> /\ removed = {f.dest}
    OBVIOUS
  <2>6. ASSUME NEW i \in DOMAIN board[f.dest]
        PROVE  \/ board[f.dest][i].fx = <<>> /\ i \notin DOMAIN there
               \/ i \in DOMAIN there /\ removed = {} /\ board[f.dest][i] = dom[f.dest][i]
    <3>1. DOMAIN <<>> = {}
      OBVIOUS
    <3>2. i \in DOMAIN q /\ board[f.dest][i] = q[i]
      BY <2>12
    <3>3. CASE i \in DOMAIN there /\ q[i] = there[i]
      <4>1. removed = {}
        BY <2>5, <3>1, <3>3
      <4> QED BY <2>5, <3>2, <3>3, <4>1
    <3>4. CASE i \notin DOMAIN there /\ q[i] = e
      BY <2>1, <3>2, <3>4
    <3> QED BY <2>11, <3>2, <3>3, <3>4 DEF OneMore
  <2>7. \A s \in Squares : \A i \in DOMAIN board[s] : OneBatch(board[s][i].fx)
    <3>1. ASSUME NEW i \in DOMAIN board[f.dest] PROVE OneBatch(board[f.dest][i].fx)
      BY <1>0, <1>1, <2>5, <2>6, NoEffects
    <3> QED BY <1>1, <2>3, <3>1
  <2>8. ASSUME NEW i, NEW c
        PROVE  /\ Runs(board, f.dest, i, c) <=> removed = {} /\ Runs(dom, f.dest, i, c)
               /\ Runs(board, f.dest, i, c) => board[f.dest][i].fx = dom[f.dest][i].fx
    <3>1. ASSUME Runs(board, f.dest, i, c)
          PROVE  /\ removed = {} /\ Runs(dom, f.dest, i, c)
                 /\ board[f.dest][i].fx = dom[f.dest][i].fx
      BY <2>5, <2>6, <3>1 DEF Runs
    <3>2. ASSUME removed = {}, Runs(dom, f.dest, i, c) PROVE Runs(board, f.dest, i, c)
      <4>1. i \in DOMAIN board[f.dest] /\ board[f.dest][i] = dom[f.dest][i]
        BY <2>5, <2>11, <2>12, <3>2 DEF Runs, OneMore
      <4> QED BY <3>2, <4>1 DEF Runs
    <3> QED BY <3>1, <3>2
  <2>9. EffectsGone(dom, board, removed)
    <3>1. ASSUME NEW s \in removed, NEW i, NEW c PROVE ~Runs(board, s, i, c)
      BY <2>5, <2>8
    <3>2. ASSUME NEW s \in Squares \ removed, NEW i, NEW c
          PROVE  Runs(dom, s, i, c) <=> Runs(board, s, i, c)
      <4>1. CASE s = f.dest
        BY <2>5, <2>8, <4>1
      <4>2. CASE s # f.dest
        BY <2>3, <4>2 DEF Runs
      <4> QED BY <4>1, <4>2
    <3>3. ASSUME NEW s \in Squares, NEW i, NEW c, Runs(board, s, i, c)
          PROVE  board[s][i].fx = dom[s][i].fx
      <4>1. CASE s = f.dest
        BY <2>8, <3>3, <4>1
      <4>2. CASE s # f.dest
        BY <2>3, <4>2
      <4> QED BY <4>1, <4>2
    <3> QED BY <3>1, <3>2, <3>3 DEF EffectsGone
  <2> QED BY <1>0, <2>4, <2>5, <2>7, <2>9
<1> QED BY <1>2, <1>3

LEMMA LandCounts ==
  ASSUME CountInv, NEW f \in flights, Land(f) PROVE CountInv' /\ StaysSettled
<1> DEFINE removed == IF f.spare /\ f.onPage THEN {f.dest} ELSE {}
           there == IF removed = {} THEN dom[f.dest] ELSE <<>>
           board == IF f.onPage
                    THEN [dom EXCEPT ![f.dest] = Append(there, Element(f.piece, TRUE))]
                    ELSE dom
           left == Orphaned(orphans, dom, removed)
           air == flights \ {f}
           b == f.batch
<1>1. OnFinishAnimation(b, board, left) /\ flights' = air
  BY Zenon DEF Land
<1>2. /\ IsBoard(board)
      /\ \A s \in Squares : \A i \in DOMAIN board[s] : OneBatch(board[s][i].fx)
      /\ EffectsGone(dom, board, removed) /\ removed \subseteq Squares
  BY LandedIsView
<1> HIDE DEF board, removed, there
<1>3. IsView(dom, orphans, flights) /\ b \in 1..MaxBatches
  BY DEF CountInv, Counted, IsView
<1>4. ASSUME NEW c \in 1..MaxBatches
      PROVE  /\ left[c] \in Nat
             /\ Pending(board, left, flights, c) = Pending(dom, orphans, flights, c)
             /\ Single(dom, c) => Single(board, c)
  BY <1>2, <1>3, RemovedStillCall
<1>5. IsView(board, left, flights)
  <2>1. left \in [1..MaxBatches -> Nat]
    BY <1>4 DEF Orphaned
  <2> HIDE DEF left
  <2> QED BY <1>2, <1>3, <2>1 DEF IsView
<1>6. IsView(board, left, air)
  <2>1. IsFiniteSet(air)
    BY <1>3, FS_Subset DEF IsView
  <2> QED BY <1>5, <2>1 DEF IsView
<1> HIDE DEF left
<1>7. ASSUME NEW c \in 1..MaxBatches
      PROVE  Pending(board, left, air, c)
               = Pending(dom, orphans, flights, c) - (IF c = b THEN 1 ELSE 0)
  <2>1. Flying(air, c) = Flying(flights, c) \ {f} /\ (f \in Flying(flights, c) <=> c = b)
    BY DEF Flying
  <2>2. /\ IsFiniteSet(Flying(flights, c)) /\ Cardinality(Flying(flights, c)) \in Nat
        /\ left[c] \in Nat /\ Cardinality(Running(board, Squares, c)) \in Nat
    BY <1>5, PendingIsNumber
  <2> DEFINE F == Flying(flights, c)
  <2>3. Cardinality(Flying(air, c)) = Cardinality(F) - (IF c = b THEN 1 ELSE 0)
    <3> HIDE DEF F
    <3>1. IsFiniteSet(F) /\ Cardinality(F) \in Nat /\ Flying(air, c) = F \ {f}
      BY <2>1, <2>2 DEF F
    <3>2. Cardinality(F \ {f}) = IF f \in F THEN Cardinality(F) - 1 ELSE Cardinality(F)
      BY <3>1, FS_RemoveElement
    <3>3. f \in F <=> c = b
      BY <2>1 DEF F
    <3> QED BY <3>1, <3>2, <3>3
  <2>4. Pending(board, left, flights, c) = Pending(dom, orphans, flights, c)
    BY <1>4
  <2> QED BY <2>2, <2>3, <2>4 DEF Pending
<1>8. Pending(dom, orphans, flights, b) # 0 /\ ~AllFinished
  <2>1. f \in Flying(flights, b)
    BY DEF Flying, b
  <2>2. Cardinality(Flying(flights, b)) # 0
    BY <1>3, <2>1, PendingIsNumber, FS_EmptySet
  <2>3. /\ Cardinality(Flying(flights, b)) \in Nat /\ orphans[b] \in Nat
        /\ Cardinality(Running(dom, Squares, b)) \in Nat
    BY <1>3, PendingIsNumber
  <2>4. Pending(dom, orphans, flights, b) > 0
    BY <2>2, <2>3 DEF Pending
  <2>5. /\ Pending(dom, orphans, flights, b) = Remaining(batches, b)
        /\ IsBatches(batches)
    BY <1>3, <2>1 DEF CountInv, Counted, CountedBatch
  <2>6. CASE b \in DOMAIN batches
    <3> DEFINE S == [length : Nat, numFinished : Nat]
    <3>1. batches \in Seq(S)
      BY <2>5 DEF IsBatches
    <3>2. batches[b] \in S
      <4> HIDE DEF S
      <4> QED BY <2>6, <3>1
    <3>3. batches[b].length - batches[b].numFinished > 0
      BY <2>4, <2>5, <2>6 DEF Remaining
    <3>4. ~(batches[b].numFinished >= batches[b].length)
      BY <3>2, <3>3
    <3> QED BY <2>4, <2>6, <3>4 DEF AllFinished
  <2>7. CASE b \notin DOMAIN batches
    BY <2>4, <2>5, <2>7 DEF Remaining
  <2> QED BY <2>6, <2>7
<1>9. air \subseteq flights
  BY DEF air
<1> HIDE DEF air, b
<1>10. CountInv' /\ (dom' = Drawn(currentPosition) \/ (AllFinished' => AllFinished))
  <2>1. \A c \in 1..MaxBatches :
          c # b => Pending(board, left, air, c) = Pending(dom, orphans, flights, c)
    <3> SUFFICES ASSUME NEW c \in 1..MaxBatches, c # b
                 PROVE  Pending(board, left, air, c) = Pending(dom, orphans, flights, c)
      OBVIOUS
    <3>1. Pending(dom, orphans, flights, c) \in Nat
      BY <1>3, PendingIsNumber
    <3> QED BY <1>7, <3>1
  <2>2. Pending(board, left, air, b) = Pending(dom, orphans, flights, b) - 1
    BY <1>3, <1>7
  <2> QED BY <1>1, <1>3, <1>4, <1>6, <1>8, <1>9, <2>1, <2>2, FinishCounts
<1> QED BY <1>8, <1>10 DEF StaysSettled

\* The rest of a queue.
LEMMA RestOfQueue ==
  ASSUME NEW old \in Seq(Effects), old # <<>>, OneBatch(old),
         NEW fx, fx = <<>> \/ fx = Tail(old)
  PROVE  /\ fx \in Seq(Effects) /\ OneBatch(fx)
         /\ fx # <<>> => Head(fx).batch = Head(old).batch
         /\ Len(old) = 1 => fx = <<>>
         /\ Head(old).batch \in 1..MaxBatches
<1>1. Head(old) \in Effects /\ Head(old) = old[1] /\ 1 \in DOMAIN old
  OBVIOUS
<1>2. Head(old).batch \in 1..MaxBatches
  BY <1>1 DEF Effects
<1>3. CASE fx = <<>>
  BY <1>2, <1>3, NoEffects
<1>4. CASE fx = Tail(old) /\ fx # <<>>
  <2>1. /\ fx \in Seq(Effects) /\ DOMAIN fx = 1..Len(fx) /\ Len(fx) \in Nat
        /\ Len(fx) = Len(old) - 1 /\ Head(fx) = fx[1] /\ 1 \in DOMAIN fx
    BY <1>4
  <2>2. ASSUME NEW k \in DOMAIN fx PROVE fx[k].batch = Head(old).batch
    <3>1. k + 1 \in DOMAIN old /\ fx[k] = old[k + 1]
      BY <1>4, <2>1
    <3> QED BY <3>1 DEF OneBatch
  <2>3. Len(old) # 1
    BY <2>1
  <2> QED BY <1>2, <2>1, <2>2, <2>3 DEF OneBatch
<1> QED BY <1>3, <1>4

\* The end of a fade is one effect less that runs, unless its element goes on with
\* the next in its queue.
LEMMA FadeCounts ==
  ASSUME CountInv, ElementsInv, Settled,
         NEW s \in Squares, NEW i \in DOMAIN dom[s], EndFade(s, i)
  PROVE  CountInv' /\ StaysSettled
<1> DEFINE b == Head(dom[s][i].fx).batch
<1>0. IsView(dom, orphans, flights)
  BY DEF CountInv, Counted
<1>1. PICK shown, fx, q :
           /\ fx = <<>> \/ fx = Tail(dom[s][i].fx)
           /\ q = [dom[s] EXCEPT ![i] = [piece |-> dom[s][i].piece, shown |-> shown, fx |-> fx]]
           /\ OnFinishAnimation(b, [dom EXCEPT ![s] = q], orphans)
  BY FadeEnds
<1>2. /\ IsBoard(dom) /\ AreElements(dom[s])
      /\ dom[s][i].fx \in Seq(Effects) /\ dom[s][i].fx # <<>>
      /\ OneBatch(dom[s][i].fx)
  BY <1>0 DEF IsView, IsBoard, AreElements, IsElement, EndFade
<1>3. /\ fx \in Seq(Effects) /\ OneBatch(fx) /\ b \in 1..MaxBatches
      /\ fx # <<>> => Head(fx).batch = b
      /\ Len(dom[s][i].fx) = 1 => fx = <<>>
  BY <1>1, <1>2, RestOfQueue
<1> DEFINE e == [piece |-> dom[s][i].piece, shown |-> shown, fx |-> fx]
           board == [dom EXCEPT ![s] = q]
<1>4. AreElements(q) /\ q = [dom[s] EXCEPT ![i] = e] /\ e.fx = fx
  <2>1. q = [dom[s] EXCEPT ![i] = e] /\ e.fx = fx
    BY <1>1
  <2>2. IsElement(e)
    BY <1>3 DEF IsElement
  <2> HIDE DEF e
  <2> QED BY <1>2, <2>1, <2>2, PlaceKeepsElements
<1> HIDE DEF e
<1>5. /\ IsBoard(board) /\ board[s] = q
      /\ \A t \in Squares \ {s} : board[t] = dom[t]
  <2>1. IsBoard(board)
    BY <1>2, <1>4, SquareKeepsBoard
  <2>2. dom = [t \in Squares |-> dom[t]]
    BY <1>2 DEF IsBoard
  <2> QED BY <2>1, <2>2
<1>6. /\ DOMAIN q = DOMAIN dom[s] /\ q[i].fx = fx
      /\ \A j \in DOMAIN dom[s] \ {i} : q[j] = dom[s][j]
  <2>1. dom[s] = [j \in DOMAIN dom[s] |-> dom[s][j]]
    BY <1>2 DEF AreElements, IsASequence
  <2> QED BY <1>4, <2>1
<1> HIDE DEF board
<1>7. ASSUME NEW t \in Squares, NEW j, NEW c
      PROVE  Runs(board, t, j, c) <=>
               Runs(dom, t, j, c) /\ (fx # <<>> \/ ~(t = s /\ j = i))
  <2>1. CASE t # s
    BY <1>5, <2>1 DEF Runs
  <2>2. CASE t = s
    BY <1>2, <1>3, <1>5, <1>6, <2>2 DEF Runs
  <2> QED BY <2>1, <2>2
<1>8. IsView(board, orphans, flights)
  <2>1. \A t \in Squares : \A j \in DOMAIN board[t] : OneBatch(board[t][j].fx)
    BY <1>0, <1>3, <1>5, <1>6 DEF IsView
  <2> QED BY <1>0, <1>5, <2>1 DEF IsView
<1>9. <<s, i>> \in Running(dom, Squares, b) /\ Pending(dom, orphans, flights, b) # 0
  <2> DEFINE A == Running(dom, Squares, b)
  <2>1. <<s, i>> \in A
    BY <1>2, RunningIs DEF Runs
  <2>2. IsFiniteSet(A) /\ Cardinality(A) \in Nat
    BY <1>2, RunningFinite
  <2>3. Cardinality(A) # 0
    <3> HIDE DEF A
    <3> QED BY <2>1, <2>2, FS_EmptySet
  <2>4. orphans[b] \in Nat /\ Cardinality(Flying(flights, b)) \in Nat
    BY <1>0, <1>3, PendingIsNumber
  <2> QED BY <2>1, <2>2, <2>3, <2>4 DEF Pending
<1>10. ASSUME NEW c \in 1..MaxBatches, fx = <<>>
       PROVE  Pending(board, orphans, flights, c)
                = Pending(dom, orphans, flights, c) - (IF c = b THEN 1 ELSE 0)
  <2> DEFINE A == Running(dom, Squares, c)
             B == Running(board, Squares, c)
  <2>1. B = A \ {<<s, i>>}
    <3>1. ASSUME NEW x \in B PROVE x \in A \ {<<s, i>>}
      <4>1. PICK t, j : t \in Squares /\ x = <<t, j>>
        BY RunningPairs
      <4>2. Runs(dom, t, j, c) /\ ~(t = s /\ j = i)
        BY <1>7, <1>10, <4>1, RunningIs
      <4> QED BY <4>1, <4>2, RunningIs
    <3>2. ASSUME NEW x \in A, x # <<s, i>> PROVE x \in B
      <4>1. PICK t, j : t \in Squares /\ x = <<t, j>>
        BY RunningPairs
      <4>2. Runs(board, t, j, c)
        BY <1>7, <3>2, <4>1, RunningIs
      <4> QED BY <4>1, <4>2, RunningIs
    <3> QED BY <3>1, <3>2
  <2>2. <<s, i>> \in A <=> c = b
    BY <1>2, RunningIs DEF Runs
  <2>3. IsFiniteSet(A) /\ Cardinality(A) \in Nat
    BY <1>2, RunningFinite
  <2>4. orphans[c] \in Nat /\ Cardinality(Flying(flights, c)) \in Nat
    BY <1>0, PendingIsNumber
  <2> HIDE DEF A, B
  <2>5. Cardinality(B) = Cardinality(A) - (IF c = b THEN 1 ELSE 0)
    <3> DEFINE x == <<s, i>>
    <3>1. B = A \ {x} /\ (x \in A <=> c = b)
      BY <2>1, <2>2
    <3> HIDE DEF x, b
    <3>2. Cardinality(A \ {x}) = IF x \in A THEN Cardinality(A) - 1 ELSE Cardinality(A)
      BY <2>3, FS_RemoveElement
    <3> QED BY <2>3, <3>1, <3>2
  <2> HIDE DEF b
  <2> QED BY <2>3, <2>4, <2>5 DEF Pending, A, B
<1>11. ASSUME NEW c, fx # <<>>
       PROVE  Pending(board, orphans, flights, c) = Pending(dom, orphans, flights, c)
  <2>1. \A t \in Squares : \A j : Runs(board, t, j, c) <=> Runs(dom, t, j, c)
    BY <1>7, <1>11
  <2> QED BY <2>1, SameRunning DEF Pending
<1>12. ASSUME NEW c \in 1..MaxBatches, Single(dom, c) PROVE Single(board, c)
  <2> SUFFICES ASSUME NEW t \in Squares, NEW j, Runs(board, t, j, c)
               PROVE  Len(board[t][j].fx) = 1
    BY DEF Single
  <2>1. Runs(dom, t, j, c) /\ Len(dom[t][j].fx) = 1
    BY <1>7, <1>12 DEF Single
  <2>2. ~(t = s /\ j = i)
    BY <1>3, <1>7, <2>1
  <2>3. board[t][j] = dom[t][j]
    BY <1>5, <1>6, <2>1, <2>2 DEF Runs
  <2> QED BY <2>1, <2>3
<1>13. fx # <<>> => Flying(flights, b) = {}
  <2> SUFFICES ASSUME Flying(flights, b) # {} PROVE fx = <<>>
    OBVIOUS
  <2>1. Single(dom, b)
    BY <1>3 DEF CountInv, Counted, CountedBatch
  <2>2. Runs(dom, s, i, b)
    BY <1>9, RunningIs
  <2> QED BY <1>3, <2>1, <2>2 DEF Single
<1>14. OnFinishAnimation(b, board, orphans) /\ flights' = flights
  <2>1. flights' = flights
    BY DEF EndFade
  <2> QED BY <1>1, <2>1 DEF board
<1>15. Quiet => ~AllFinished
  <2> SUFFICES ASSUME dom = Drawn(currentPosition) PROVE FALSE
    BY DEF Settled
  <2> QED BY <1>2, DrawnIsStill
<1> HIDE DEF b
<1>16. CountInv' /\ (dom' = Drawn(currentPosition) \/ (AllFinished' => AllFinished))
  <2>1. \A c \in 1..MaxBatches :
          c # b => Pending(board, orphans, flights, c) = Pending(dom, orphans, flights, c)
    <3> SUFFICES ASSUME NEW c \in 1..MaxBatches, c # b
                 PROVE  Pending(board, orphans, flights, c) = Pending(dom, orphans, flights, c)
      OBVIOUS
    <3>1. Pending(dom, orphans, flights, c) \in Nat
      BY <1>0, PendingIsNumber
    <3> QED BY <1>10, <1>11, <3>1
  <2>2. \/ Pending(board, orphans, flights, b) = Pending(dom, orphans, flights, b) - 1
        \/ /\ Pending(board, orphans, flights, b) = Pending(dom, orphans, flights, b)
           /\ Flying(flights, b) = {}
    BY <1>3, <1>10, <1>11, <1>13
  <2> QED BY <1>3, <1>8, <1>9, <1>12, <1>14, <2>1, <2>2, FinishCounts
<1> QED BY <1>15, <1>16 DEF StaysSettled

LEMMA OrphanCounts ==
  ASSUME CountInv, Settled, NEW b \in DOMAIN batches, EndOrphan(b)
  PROVE  CountInv' /\ StaysSettled
<1> DEFINE left == [orphans EXCEPT ![b] = @ - 1]
<1>1. /\ IsView(dom, orphans, flights) /\ orphans \in [1..MaxBatches -> Nat]
      /\ b \in 1..MaxBatches
  <2>1. IsView(dom, orphans, flights) /\ IsBatches(batches)
    BY DEF CountInv, Counted
  <2>2. DOMAIN batches = 1..Len(batches) /\ Len(batches) \in Nat /\ Len(batches) <= MaxBatches
    BY <2>1 DEF IsBatches
  <2> QED BY <2>1, <2>2, ChessboardAssumption DEF IsView
<1>2. orphans[b] > 0 /\ OnFinishAnimation(b, dom, left) /\ flights' = flights
  BY Zenon DEF EndOrphan
<1>3. left \in [1..MaxBatches -> Nat]
      /\ \A c \in 1..MaxBatches : left[c] = orphans[c] - (IF c = b THEN 1 ELSE 0)
  BY <1>1, <1>2
<1> HIDE DEF left
<1>4. IsView(dom, left, flights)
  BY <1>1, <1>3 DEF IsView
<1>5. ASSUME NEW c \in 1..MaxBatches
      PROVE  Pending(dom, left, flights, c)
               = Pending(dom, orphans, flights, c) - (IF c = b THEN 1 ELSE 0)
  <2>1. /\ Cardinality(Flying(flights, c)) \in Nat /\ orphans[c] \in Nat
        /\ Cardinality(Running(dom, Squares, c)) \in Nat
    BY <1>1, PendingIsNumber
  <2> QED BY <1>3, <2>1 DEF Pending
<1>6. Pending(dom, orphans, flights, b) # 0
  <2>1. /\ Cardinality(Flying(flights, b)) \in Nat /\ orphans[b] \in Nat
        /\ Cardinality(Running(dom, Squares, b)) \in Nat
    BY <1>1, PendingIsNumber
  <2> QED BY <1>2, <2>1 DEF Pending
<1>7. CountInv' /\ (dom' = Drawn(currentPosition) \/ (dom' = dom /\ (AllFinished' => AllFinished)))
  <2>1. \A c \in 1..MaxBatches :
          c # b => Pending(dom, left, flights, c) = Pending(dom, orphans, flights, c)
    <3> SUFFICES ASSUME NEW c \in 1..MaxBatches, c # b
                 PROVE  Pending(dom, left, flights, c) = Pending(dom, orphans, flights, c)
      OBVIOUS
    <3>1. Pending(dom, orphans, flights, c) \in Nat
      BY <1>1, PendingIsNumber
    <3> QED BY <1>5, <3>1
  <2>2. Pending(dom, left, flights, b) = Pending(dom, orphans, flights, b) - 1
    BY <1>1, <1>5
  <2> QED BY <1>1, <1>2, <1>4, <1>6, <2>1, <2>2, FinishCounts
<1> QED BY <1>7 DEF StaysSettled, Settled

\* A drag runs no effects and ends none.
LEMMA BeginCounts ==
  ASSUME CountInv, ElementsInv, NEW source, NEW piece, BeginDraggingPiece(source, piece)
  PROVE  CountInv'
<1>1. ElementsInv'
  BY BeginKeepsElements
<1>2. \A s \in Squares : /\ DOMAIN dom'[s] = DOMAIN dom[s]
                         /\ \A i \in DOMAIN dom[s] : dom'[s][i].fx = dom[s][i].fx
  BY BeginKeepsElements
<1>3. UNCHANGED <<flights, orphans, batches>>
  BY DEF BeginDraggingPiece
<1>4. IsView(dom, orphans, flights)
  BY DEF CountInv, Counted
<1>5. IsView(dom', orphans, flights)
  BY <1>1, <1>2, <1>4 DEF IsView, ElementsInv
<1>7. \A b : Single(dom, b) => Single(dom', b)
  BY <1>2 DEF Single, Runs
<1>6. ASSUME NEW b \in 1..MaxBatches
      PROVE  Pending(dom', orphans, flights, b) = Pending(dom, orphans, flights, b)
  <2>1. \A s \in Squares : \A i : Runs(dom, s, i, b) <=> Runs(dom', s, i, b)
    BY <1>2 DEF Runs
  <2>2. Running(dom, Squares, b) = Running(dom', Squares, b)
    BY <2>1, SameRunning
  <2> QED BY <2>2 DEF Pending
<1> QED BY <1>3, <1>5, <1>6, <1>7 DEF CountInv, Counted, CountedBatch

\* A redraw by the page or by the end of a drag.
LEMMA RedrawCounts ==
  ASSUME CountInv, NEW pos, DrawPositionInstant(dom, pos), UNCHANGED <<flights, batches>>
  PROVE  CountInv'
<1>1. IsView(dom, orphans, flights)
  BY DEF CountInv, Counted
<1>2. /\ IsView(dom', orphans', flights)
      /\ \A b \in 1..MaxBatches :
           /\ Pending(dom', orphans', flights, b) = Pending(dom, orphans, flights, b)
           /\ Single(dom', b)
  BY <1>1, RedrawnStillCall DEF DrawPositionInstant
<1> QED BY <1>2 DEF CountInv, Counted, CountedBatch

\* At rest all callbacks have come.
LEMMA RestIsFinished ==
  ASSUME CountInv, BoardStands
  PROVE  /\ AllFinished
         /\ \A b \in 1..MaxBatches : Pending(dom, orphans, flights, b) = 0
<1>1. ASSUME NEW b \in 1..MaxBatches PROVE Pending(dom, orphans, flights, b) = 0
  <2>1. Flying(flights, b) = {} /\ orphans[b] = 0 /\ Running(dom, Squares, b) = {}
    BY DEF BoardStands, Flying
  <2> QED BY <2>1, FS_EmptySet DEF Pending
<1>2. ASSUME NEW b \in DOMAIN batches
      PROVE  batches[b].numFinished >= batches[b].length
  <2>1. IsBatches(batches)
    BY DEF CountInv, Counted
  <2> DEFINE S == [length : Nat, numFinished : Nat]
  <2>2. batches \in Seq(S) /\ Len(batches) <= MaxBatches
    BY <2>1 DEF IsBatches
  <2> HIDE DEF S
  <2>3. b \in 1..MaxBatches /\ batches[b] \in S
    BY <2>2, ChessboardAssumption
  <2>4. 0 >= Remaining(batches, b)
    BY <1>1, <2>3 DEF CountInv, Counted, CountedBatch
  <2>5. batches[b].numFinished \in Nat /\ batches[b].length \in Nat
    BY <2>3 DEF S
  <2> QED BY <2>4, <2>5 DEF Remaining
<1> QED BY <1>1, <1>2 DEF AllFinished

-----------------------------------------------------------------------------
(* A batch begins with as many callbacks to come as it has animations.     *)

\* As many elements as an operation that tells them apart makes of them.
LEMMA SameSize ==
  ASSUME NEW S, IsFiniteSet(S), NEW T, NEW f, f \in [S -> T],
         \A x, y \in S : f[x] = f[y] => x = y,
         \A y \in T : \E x \in S : f[x] = y
  PROVE  IsFiniteSet(T) /\ Cardinality(T) = Cardinality(S)
<1>1. f \in Bijection(S, T)
  BY DEF Bijection, Injection, Surjection, IsInjective
<1>2. ExistsBijection(S, T)
  BY <1>1 DEF ExistsBijection
<1> QED BY <1>2, FS_Bijection

LEMMA PlanIs ==
  ASSUME NEW p \in Positions, NEW q \in Positions, p # q,
         NEW plan \in CalculateAnimations(p, q)
  PROVE  /\ IsFiniteSet(plan.moves)
         /\ plan.adds \subseteq Squares /\ plan.clears \subseteq DOMAIN p
         /\ \A v \in plan.moves :
              v[1] \notin plan.clears /\ v[1] \in Squares /\ v[2] \in Squares
         /\ \A v, w \in plan.moves : v[2] = w[2] => v = w
         /\ \A s \in plan.adds \intersect DOMAIN p :
              s \in plan.clears \/ \E v \in plan.moves : v[1] = s
         /\ plan.moves # {} \/ plan.adds # {} \/ plan.clears # {}
<1> DEFINE p1 == Changed(p, q)
           p2 == Changed(q, p)
<1>1. PICK m \in Matchings(p1, p2) :
         plan = [moves |-> m.moves, adds |-> m.adds, clears |-> Clears(m)]
  BY DEF CalculateAnimations
<1>2. MatchInv(m, p1, p2) /\ m.todo = {}
  BY <1>1, ChangedDiffer, AllAreMatched
<1>3. /\ DOMAIN p1 = {s \in DOMAIN p : s \in DOMAIN q => p[s] # q[s]}
      /\ DOMAIN p2 = {s \in DOMAIN q : s \in DOMAIN p => q[s] # p[s]}
  BY ChangedIs
<1>4. DOMAIN p \subseteq Squares /\ DOMAIN q \subseteq Squares
  BY PositionsAre
<1> HIDE DEF p1, p2
<1>5. /\ plan.moves = m.moves /\ plan.adds = m.adds
      /\ plan.clears = DOMAIN m.left \ {v[2] : v \in plan.moves}
  BY <1>1 DEF Clears
<1>6. /\ \A v \in plan.moves : /\ v = <<v[1], v[2]>>
                               /\ v[1] \in DOMAIN p1 \ DOMAIN m.left
                               /\ v[2] \in DOMAIN p2 \ plan.adds
      /\ \A v, w \in plan.moves : v[2] = w[2] => v = w
      /\ plan.adds \subseteq DOMAIN p2 /\ DOMAIN m.left \subseteq DOMAIN p1
      /\ \A s \in DOMAIN p1 \ DOMAIN m.left : \E v \in plan.moves : v[1] = s
      /\ \A s \in DOMAIN p2 : s \in plan.adds \/ \E v \in plan.moves : v[2] = s
  BY <1>2, <1>5 DEF MatchInv, MovesMatch
<1>7. IsFiniteSet(plan.moves)
  <2>1. plan.moves \subseteq Squares \X Squares
    BY <1>3, <1>4, <1>6
  <2>2. IsFiniteSet(Squares \X Squares)
    BY SquaresAreFinite, FS_Product
  <2> QED BY <2>1, <2>2, FS_Subset
<1>8. ASSUME NEW s \in plan.adds \intersect DOMAIN p
      PROVE  s \in plan.clears \/ \E v \in plan.moves : v[1] = s
  <2>1. s \in DOMAIN p1
    BY <1>3, <1>6
  <2>2. \A v \in plan.moves : v[2] # s
    BY <1>6
  <2> QED BY <1>5, <1>6, <2>1, <2>2
<1>9. plan.moves # {} \/ plan.adds # {} \/ plan.clears # {}
  <2> SUFFICES ASSUME plan.moves = {}, plan.adds = {}, plan.clears = {} PROVE FALSE
    OBVIOUS
  <2>1. DOMAIN p1 = {} /\ DOMAIN p2 = {}
    BY <1>5, <1>6
  <2>2. DOMAIN p = DOMAIN q /\ \A s \in DOMAIN p : p[s] = q[s]
    BY <1>3, <2>1
  <2>3. p = [s \in DOMAIN p |-> p[s]] /\ q = [s \in DOMAIN q |-> q[s]]
    BY DEF Positions
  <2> QED BY <2>2, <2>3
<1> QED BY <1>3, <1>4, <1>5, <1>6, <1>7, <1>8, <1>9

\* A queue of effects of batch b.
OfBatch(fx, b) == fx # <<>> /\ \A k \in DOMAIN fx : fx[k].batch = b

\* At least n elements, which all fade for batch b.
Faded(q, n, b) ==
  /\ 1..n \subseteq DOMAIN q
  /\ \A i \in DOMAIN q : OfBatch(q[i].fx, b) /\ q[i].fx \in Seq(Effects)

\* One element, which fades once.
Alone(q) == DOMAIN q = {1} /\ Len(q[1].fx) = 1

LEMMA QueueOfBatch ==
  ASSUME NEW fx \in Seq(Effects), NEW b, OfBatch(fx, b)
  PROVE  OneBatch(fx) /\ Head(fx).batch = b
<1>1. Head(fx) = fx[1] /\ 1 \in DOMAIN fx
  BY DEF OfBatch
<1> QED BY <1>1 DEF OfBatch, OneBatch

LEMMA MoreOfBatch ==
  ASSUME NEW fx \in Seq(Effects), NEW fade \in Effects, NEW b, fade.batch = b,
         \A k \in DOMAIN fx : fx[k].batch = b
  PROVE  /\ Append(fx, fade) \in Seq(Effects) /\ OfBatch(Append(fx, fade), b)
         /\ Len(Append(fx, fade)) = Len(fx) + 1
<1> DEFINE r == Append(fx, fade)
<1>1. /\ r \in Seq(Effects) /\ Len(r) = Len(fx) + 1 /\ Len(fx) \in Nat
      /\ DOMAIN r = 1..(Len(fx) + 1) /\ DOMAIN fx = 1..Len(fx)
      /\ r[Len(fx) + 1] = fade /\ \A k \in 1..Len(fx) : r[k] = fx[k]
  OBVIOUS
<1> HIDE DEF r
<1>2. ASSUME NEW k \in DOMAIN r PROVE r[k].batch = b
  <2>1. k \in 1..Len(fx) \/ k = Len(fx) + 1
    BY <1>1
  <2> QED BY <1>1, <2>1
<1>3. r # <<>>
  BY <1>1
<1> QED BY <1>1, <1>2, <1>3 DEF OfBatch, r

\* Elements that stood still fade once, those that faded once more.
LEMMA StillFade ==
  ASSUME NEW q, AreElements(q), Still(q), NEW kind \in {"in", "out"}, NEW b \in 1..MaxBatches
  PROVE  /\ AreElements(Fade(q, kind, b)) /\ DOMAIN Fade(q, kind, b) = DOMAIN q
         /\ \A i \in DOMAIN q : /\ OfBatch(Fade(q, kind, b)[i].fx, b)
                               /\ Fade(q, kind, b)[i].fx \in Seq(Effects)
                               /\ Len(Fade(q, kind, b)[i].fx) = 1
<1> DEFINE r == Fade(q, kind, b)
           fade == [kind |-> kind, batch |-> b]
<1>1. /\ AreElements(r) /\ DOMAIN r = DOMAIN q
      /\ \A i \in DOMAIN q : r[i].fx = Append(q[i].fx, fade)
  BY FadeKeepsElements
<1>2. fade \in Effects /\ fade.batch = b
  BY DEF Effects
<1> HIDE DEF r, fade
<1>3. <<>> \in Seq(Effects) /\ Len(<<>>) = 0 /\ DOMAIN <<>> = {}
  OBVIOUS
<1>4. OfBatch(Append(<<>>, fade), b) /\ Append(<<>>, fade) \in Seq(Effects)
      /\ Len(Append(<<>>, fade)) = 1
  <2> DEFINE none == <<>>
  <2>1. none \in Seq(Effects) /\ Len(none) = 0 /\ \A k \in DOMAIN none : none[k].batch = b
    BY <1>3
  <2> HIDE DEF none
  <2>2. /\ Append(none, fade) \in Seq(Effects) /\ OfBatch(Append(none, fade), b)
        /\ Len(Append(none, fade)) = Len(none) + 1
    BY <1>2, <2>1, MoreOfBatch
  <2>3. Len(Append(none, fade)) = 1
    BY <2>1, <2>2
  <2> QED BY <2>2, <2>3 DEF none
<1>5. \A i \in DOMAIN q : r[i].fx = Append(<<>>, fade)
  BY <1>1 DEF Still
<1> QED BY <1>1, <1>4, <1>5 DEF r

LEMMA FadeAgain ==
  ASSUME NEW q, AreElements(q), NEW b \in 1..MaxBatches, \A i \in DOMAIN q : OfBatch(q[i].fx, b),
         NEW kind \in {"in", "out"}
  PROVE  /\ DOMAIN Fade(q, kind, b) = DOMAIN q
         /\ \A i \in DOMAIN q : /\ OfBatch(Fade(q, kind, b)[i].fx, b)
                               /\ Fade(q, kind, b)[i].fx \in Seq(Effects)
<1> DEFINE r == Fade(q, kind, b)
           fade == [kind |-> kind, batch |-> b]
<1>1. /\ DOMAIN r = DOMAIN q
      /\ \A i \in DOMAIN q : r[i].fx = Append(q[i].fx, fade)
  BY FadeKeepsElements
<1>2. fade \in Effects /\ fade.batch = b
  BY DEF Effects
<1> HIDE DEF r, fade
<1>3. ASSUME NEW i \in DOMAIN q PROVE OfBatch(r[i].fx, b) /\ r[i].fx \in Seq(Effects)
  <2>1. q[i].fx \in Seq(Effects) /\ OfBatch(q[i].fx, b)
    BY DEF AreElements, IsElement
  <2>2. \A k \in DOMAIN q[i].fx : q[i].fx[k].batch = b
    BY <2>1 DEF OfBatch
  <2> DEFINE fx == q[i].fx
  <2>3. r[i].fx = Append(fx, fade)
    BY <1>1
  <2>4. fx \in Seq(Effects) /\ \A k \in DOMAIN fx : fx[k].batch = b
    BY <2>1, <2>2
  <2> HIDE DEF fx
  <2>5. OfBatch(Append(fx, fade), b) /\ Append(fx, fade) \in Seq(Effects)
    BY <1>2, <2>4, MoreOfBatch
  <2> QED BY <2>3, <2>5
<1> QED BY <1>1, <1>3 DEF r

\* Squares to clear that another piece is to fade in on.
Doubled(plan) == FadeIns(plan) \intersect plan.clears

\* One element more is one place more.
LEMMA AppendedPlaces ==
  ASSUME NEW q, AreElements(q), NEW e, IsElement(e), e.fx = <<>>, Still(q)
  PROVE  /\ AreElements(Append(q, e)) /\ Still(Append(q, e)) /\ 1 \in DOMAIN Append(q, e)
         /\ q # <<>> => 1..2 \subseteq DOMAIN Append(q, e) /\ 1 \in DOMAIN q
         /\ q = <<>> => DOMAIN Append(q, e) = {1}
<1>1. PICK S : q \in Seq(S)
  BY DEF AreElements, IsASequence
<1>2. /\ Append(q, e) \in Seq(S \union {e}) /\ Len(Append(q, e)) = Len(q) + 1
      /\ Len(q) \in Nat /\ DOMAIN q = 1..Len(q) /\ (q # <<>> => Len(q) # 0)
  <2>1. q \in Seq(S \union {e})
    BY <1>1
  <2> QED BY <1>1, <2>1
<1>3. DOMAIN Append(q, e) = 1..(Len(q) + 1)
  BY <1>2
<1>4. OneMore(Append(q, e), q, e)
  BY AppendIs
<1>5. Still(Append(q, e))
  BY <1>4 DEF OneMore, Still
<1>6. AreElements(Append(q, e))
  BY AppendKeepsElements
<1> DEFINE D == DOMAIN Append(q, e)
<1>7. 1 \in D
  BY <1>2, <1>3
<1>8. q # <<>> => 1..2 \subseteq D /\ 1 \in DOMAIN q
  BY <1>2, <1>3
<1>9. q = <<>> => D = {1}
  BY <1>2, <1>3
<1> QED BY <1>5, <1>6, <1>7, <1>8, <1>9

\* What has landed fades, what moves away is gone, the rest stays as it is.
LEMMA AnimatedElements ==
  ASSUME IsBoard(dom), NEW pos, NEW plan, NEW b \in 1..MaxBatches, FadesLanded(plan),
         DoAnimations(plan, pos, b)
  PROVE  \A s \in Squares :
            IF s \in FadeIns(plan) \union plan.clears
            THEN /\ Still(Stays(plan, s))
                 /\ Faded(dom'[s], IF s \in Doubled(plan) THEN 2 ELSE 1, b)
                 /\ Departs(plan) => Alone(dom'[s])
            ELSE dom'[s] = Stays(plan, s)
<1> DEFINE fadeIns == FadeIns(plan)
           moved == [s \in Squares |-> IF s \in Sources(plan) THEN <<>> ELSE dom[s]]
           new(s) == Element(pos[s], FALSE)
           added == [s \in Squares |->
                       IF s \in fadeIns THEN Fade(Append(moved[s], new(s)), "in", b)
                       ELSE moved[s]]
<1>1. dom' = [s \in Squares |->
                IF s \in plan.clears THEN Fade(added[s], "out", b) ELSE added[s]]
  BY Zenon DEF DoAnimations, FadeIns, Sources
<1> SUFFICES ASSUME NEW s \in Squares
             PROVE  IF s \in fadeIns \union plan.clears
                    THEN /\ Still(Stays(plan, s))
                         /\ Faded(dom'[s], IF s \in Doubled(plan) THEN 2 ELSE 1, b)
                         /\ Departs(plan) => Alone(dom'[s])
                    ELSE dom'[s] = Stays(plan, s)
  OBVIOUS
<1> DEFINE q == Stays(plan, s)
<1>2. moved[s] = q
  BY DEF Stays
<1>3. AreElements(q)
  BY NoElements DEF Stays, IsBoard
<1> HIDE DEF moved
<1>4. added[s] = IF s \in fadeIns THEN Fade(Append(q, new(s)), "in", b) ELSE q
  BY <1>2
<1> HIDE DEF added
<1>5. dom'[s] = IF s \in plan.clears THEN Fade(added[s], "out", b) ELSE added[s]
  BY <1>1
<1> DEFINE e == Element(pos[s], FALSE)
<1>6. IsElement(e) /\ e.fx = <<>>
  BY NewElement DEF Element
<1>7. /\ s \in fadeIns \union plan.clears => Still(q)
      /\ s \in plan.clears => q # <<>>
      /\ Departs(plan) => /\ s \in plan.clears => s \notin fadeIns /\ Len(q) = 1
                          /\ s \in fadeIns => q = <<>>
  BY DEF FadesLanded
<1> HIDE DEF e, q
<1>8. CASE s \in fadeIns /\ s \notin plan.clears
  <2> DEFINE more == Append(q, e)
  <2>1. AreElements(more) /\ Still(more) /\ 1 \in DOMAIN more /\ (q = <<>> => DOMAIN more = {1})
    BY <1>3, <1>6, <1>7, <1>8, AppendedPlaces
  <2>2. dom'[s] = Fade(more, "in", b)
    BY <1>4, <1>5, <1>8 DEF e
  <2> HIDE DEF more
  <2>3. /\ DOMAIN dom'[s] = DOMAIN more
        /\ \A i \in DOMAIN more : /\ OfBatch(dom'[s][i].fx, b) /\ dom'[s][i].fx \in Seq(Effects)
                                 /\ Len(dom'[s][i].fx) = 1
    BY <2>1, <2>2, StillFade
  <2>4. 1..1 \subseteq DOMAIN more
    BY <2>1
  <2> QED BY <1>7, <1>8, <2>1, <2>3, <2>4 DEF Faded, Alone, Doubled, q
<1>9. CASE s \in plan.clears /\ s \notin fadeIns
  <2>1. dom'[s] = Fade(q, "out", b)
    BY <1>4, <1>5, <1>9
  <2>2. /\ DOMAIN dom'[s] = DOMAIN q
        /\ \A i \in DOMAIN q : /\ OfBatch(dom'[s][i].fx, b) /\ dom'[s][i].fx \in Seq(Effects)
                              /\ Len(dom'[s][i].fx) = 1
    BY <1>3, <1>7, <1>9, <2>1, StillFade
  <2>3. 1..1 \subseteq DOMAIN q /\ (Len(q) = 1 => DOMAIN q = {1})
    <3>1. PICK S : q \in Seq(S)
      BY <1>3 DEF AreElements, IsASequence
    <3>2. DOMAIN q = 1..Len(q) /\ Len(q) \in Nat /\ Len(q) # 0
      BY <1>7, <1>9, <3>1
    <3> QED BY <3>2
  <2> QED BY <1>7, <1>9, <2>2, <2>3 DEF Faded, Alone, Doubled, q
<1>10. CASE s \in fadeIns /\ s \in plan.clears
  <2> DEFINE more == Append(q, e)
             in == Fade(more, "in", b)
  <2>1. AreElements(more) /\ Still(more) /\ 1..2 \subseteq DOMAIN more
    BY <1>3, <1>6, <1>7, <1>10, AppendedPlaces
  <2>2. dom'[s] = Fade(in, "out", b)
    BY <1>4, <1>5, <1>10 DEF e
  <2> HIDE DEF more
  <2>3. AreElements(in) /\ DOMAIN in = DOMAIN more /\ \A i \in DOMAIN in : OfBatch(in[i].fx, b)
    BY <2>1, StillFade
  <2> HIDE DEF in
  <2>4. /\ DOMAIN dom'[s] = DOMAIN in
        /\ \A i \in DOMAIN in : OfBatch(dom'[s][i].fx, b) /\ dom'[s][i].fx \in Seq(Effects)
    BY <2>2, <2>3, FadeAgain
  <2> QED BY <1>7, <1>10, <2>1, <2>3, <2>4 DEF Faded, Doubled, q
<1>11. CASE s \notin fadeIns /\ s \notin plan.clears
  BY <1>4, <1>5, <1>11 DEF q
<1> QED BY <1>8, <1>9, <1>10, <1>11

\* Where something fades now nothing ran before, elsewhere nothing changes.
FadesOver(board, moved, F, D, b) ==
  \A s \in Squares : IF s \in F THEN /\ Still(moved[s])
                                    /\ Faded(board[s], IF s \in D THEN 2 ELSE 1, b)
                     ELSE board[s] = moved[s]

LEMMA FadedRun ==
  ASSUME NEW board, IsBoard(board), NEW moved, NEW F, F \subseteq Squares, NEW D, D \subseteq F,
         NEW b, FadesOver(board, moved, F, D, b),
         \A s \in Squares : \A i : ~Runs(moved, s, i, b)
  PROVE  /\ Cardinality(Running(board, Squares, b)) >= Cardinality(F) + Cardinality(D)
         /\ D = {} /\ (\A s \in F : Alone(board[s])) =>
              /\ Cardinality(Running(board, Squares, b)) = Cardinality(F) + Cardinality(D)
              /\ Single(board, b)
         /\ \A c : c # b => /\ Running(board, Squares, c) = Running(moved, Squares, c)
                            /\ Single(moved, c) => Single(board, c)
         /\ \A s \in F : \A i \in DOMAIN board[s] : OneBatch(board[s][i].fx)
<1>1. ASSUME NEW s \in F, NEW i \in DOMAIN board[s]
      PROVE  /\ board[s][i].fx # <<>> /\ OneBatch(board[s][i].fx)
             /\ Head(board[s][i].fx).batch = b
  <2>1. s \in Squares
    OBVIOUS
  <2>2. Faded(board[s], IF s \in D THEN 2 ELSE 1, b)
    BY <2>1 DEF FadesOver
  <2>3. OfBatch(board[s][i].fx, b) /\ board[s][i].fx \in Seq(Effects)
    BY <2>2 DEF Faded
  <2> QED BY <2>3, QueueOfBatch DEF OfBatch
<1>2. ASSUME NEW s \in F PROVE 1 \in DOMAIN board[s] /\ (s \in D => 2 \in DOMAIN board[s])
  <2>1. s \in Squares
    OBVIOUS
  <2>2. 1..(IF s \in D THEN 2 ELSE 1) \subseteq DOMAIN board[s]
    BY <2>1 DEF FadesOver, Faded
  <2>3. 1 \in 1..(IF s \in D THEN 2 ELSE 1) /\ (s \in D => 2 \in 1..(IF s \in D THEN 2 ELSE 1))
    OBVIOUS
  <2> QED BY <2>2, <2>3
<1>3. ASSUME NEW s \in F, NEW i, NEW c
      PROVE  Runs(board, s, i, c) <=> c = b /\ i \in DOMAIN board[s]
  BY <1>1 DEF Runs
<1>4. ASSUME NEW s \in F, NEW i, NEW c PROVE ~Runs(moved, s, i, c)
  <2>1. Still(moved[s])
    BY DEF FadesOver
  <2> QED BY <2>1 DEF Runs, Still
<1>5. ASSUME NEW s \in Squares \ F, NEW i, NEW c
      PROVE  /\ board[s] = moved[s] /\ (Runs(board, s, i, c) <=> Runs(moved, s, i, c))
  <2>1. board[s] = moved[s]
    BY DEF FadesOver
  <2> QED BY <2>1 DEF Runs
<1>6. IsFiniteSet(F) /\ IsFiniteSet(D)
  BY SquaresAreFinite, FS_Subset
<1> DEFINE A == {<<s, 1>> : s \in F}
           B == {<<s, 2>> : s \in D}
           T == Running(board, Squares, b)
<1>7. /\ IsFiniteSet(A) /\ Cardinality(A) = Cardinality(F)
      /\ IsFiniteSet(B) /\ Cardinality(B) = Cardinality(D)
  <2> DEFINE f == [s \in F |-> <<s, 1>>]
             g == [s \in D |-> <<s, 2>>]
  <2>1. f \in [F -> A] /\ \A y \in A : \E x \in F : f[x] = y
    OBVIOUS
  <2>2. g \in [D -> B] /\ \A y \in B : \E x \in D : g[x] = y
    OBVIOUS
  <2>3. (\A x, y \in F : f[x] = f[y] => x = y) /\ (\A x, y \in D : g[x] = g[y] => x = y)
    OBVIOUS
  <2> HIDE DEF f, g, A, B
  <2>4. IsFiniteSet(A) /\ Cardinality(A) = Cardinality(F)
    BY <1>6, <2>1, <2>3, SameSize
  <2>5. IsFiniteSet(B) /\ Cardinality(B) = Cardinality(D)
    BY <1>6, <2>2, <2>3, SameSize
  <2> QED BY <2>4, <2>5
<1>8. A \intersect B = {}
  OBVIOUS
<1>9. A \union B \subseteq T
  <2>1. ASSUME NEW s \in F PROVE <<s, 1>> \in T
    BY <1>2, <1>3, RunningIs
  <2>2. ASSUME NEW s \in D PROVE <<s, 2>> \in T
    BY <1>2, <1>3, RunningIs
  <2> HIDE DEF T
  <2> QED BY <2>1, <2>2
<1>10. ASSUME \A s \in F : Alone(board[s]) PROVE T \subseteq A
  <2> SUFFICES ASSUME NEW x \in T PROVE x \in A
    OBVIOUS
  <2>1. PICK s, i : s \in Squares /\ x = <<s, i>>
    BY RunningPairs
  <2>2. Runs(board, s, i, b)
    BY <2>1, RunningIs
  <2>3. s \in F
    BY <1>5, <2>1, <2>2
  <2>4. i = 1
    BY <1>3, <1>10, <2>2, <2>3 DEF Alone
  <2> QED BY <2>1, <2>3, <2>4
<1>11. IsFiniteSet(T) /\ Cardinality(T) \in Nat
  BY RunningFinite
<1> HIDE DEF A, B, T
<1>12. /\ IsFiniteSet(A \union B) /\ Cardinality(A \union B) = Cardinality(F) + Cardinality(D)
       /\ Cardinality(F) \in Nat /\ Cardinality(D) \in Nat
  <2>1. /\ IsFiniteSet(A \union B)
        /\ Cardinality(A \union B) = Cardinality(A) + Cardinality(B) - Cardinality(A \intersect B)
    BY <1>7, FS_Union
  <2>2. Cardinality(A \intersect B) = 0
    BY <1>8, FS_EmptySet
  <2>3. Cardinality(F) \in Nat /\ Cardinality(D) \in Nat
    BY <1>6, FS_CardinalityType
  <2> QED BY <1>7, <2>1, <2>2, <2>3
<1>13. Cardinality(T) >= Cardinality(F) + Cardinality(D)
  <2>1. Cardinality(A \union B) <= Cardinality(T)
    BY <1>9, <1>11, FS_Subset
  <2> QED BY <1>11, <1>12, <2>1
<1>14. ASSUME D = {}, \A s \in F : Alone(board[s])
       PROVE  Cardinality(T) = Cardinality(F) + Cardinality(D) /\ Single(board, b)
  <2>1. T = A \union B
    BY <1>9, <1>10, <1>14
  <2>2. Single(board, b)
    <3> SUFFICES ASSUME NEW s \in Squares, NEW i, Runs(board, s, i, b)
                 PROVE  Len(board[s][i].fx) = 1
      BY DEF Single
    <3>1. s \in F
      BY <1>5
    <3>2. i = 1 /\ Len(board[s][1].fx) = 1
      BY <1>3, <1>14, <3>1 DEF Alone
    <3> QED BY <3>2
  <2> QED BY <1>12, <2>1, <2>2
<1>15. ASSUME NEW c, c # b
       PROVE  /\ Running(board, Squares, c) = Running(moved, Squares, c)
              /\ Single(moved, c) => Single(board, c)
  <2>1. \A s \in Squares : \A i : Runs(board, s, i, c) <=> Runs(moved, s, i, c)
    BY <1>3, <1>4, <1>5, <1>15
  <2>2. Running(board, Squares, c) = Running(moved, Squares, c)
    BY <2>1, SameRunning
  <2>3. ASSUME Single(moved, c), NEW s \in Squares, NEW i, Runs(board, s, i, c)
        PROVE  Len(board[s][i].fx) = 1
    <3>1. Runs(moved, s, i, c) /\ s \notin F
      BY <1>4, <2>1, <2>3
    <3>2. board[s] = moved[s]
      BY <1>5, <3>1
    <3> QED BY <2>3, <3>1, <3>2 DEF Single
  <2> QED BY <2>2, <2>3 DEF Single
<1> QED BY <1>1, <1>13, <1>14, <1>15 DEF T

Leaving(plan, pos, b) ==
  {Flight(pos[m[2]], m[2], FALSE, b) : m \in plan.moves}
    \union {Flight(pos[s], s, TRUE, b) : s \in plan.adds \ FadeIns(plan)}

\* The elements that set out: one for each move, to squares of their own, and,
\* from the spare pieces, one for each square to add a piece to.
LEMMA SetOut ==
  ASSUME currentPosition \in Positions, NEW pos \in Positions, pos # currentPosition,
         NEW plan \in CalculateAnimations(currentPosition, pos), NEW b
  PROVE  /\ IsFiniteSet(Leaving(plan, pos, b))
         /\ \A f \in Leaving(plan, pos, b) : f.batch = b /\ f.dest \in Squares
         /\ Cardinality(Leaving(plan, pos, b))
              = Cardinality(plan.moves) + Cardinality(plan.adds \ FadeIns(plan))
         /\ Cardinality(plan.moves) \in Nat
<1> DEFINE air == Leaving(plan, pos, b)
           adds == plan.adds \ FadeIns(plan)
           M == {Flight(pos[m[2]], m[2], FALSE, b) : m \in plan.moves}
           A == {Flight(pos[s], s, TRUE, b) : s \in adds}
           moving == [m \in plan.moves |-> Flight(pos[m[2]], m[2], FALSE, b)]
           adding == [s \in adds |-> Flight(pos[s], s, TRUE, b)]
<1>1. /\ IsFiniteSet(plan.moves) /\ plan.adds \subseteq Squares
      /\ \A v \in plan.moves : v[2] \in Squares
      /\ \A v, w \in plan.moves : v[2] = w[2] => v = w
  BY PlanIs
<1>3. IsFiniteSet(M) /\ Cardinality(M) = Cardinality(plan.moves)
  <2>1. moving \in [plan.moves -> M] /\ \A y \in M : \E x \in plan.moves : moving[x] = y
    OBVIOUS
  <2>2. \A x, y \in plan.moves : moving[x] = moving[y] => x = y
    BY <1>1 DEF Flight
  <2> HIDE DEF moving, M
  <2> QED BY <1>1, <2>1, <2>2, SameSize
<1>4. IsFiniteSet(adds)
  BY <1>1, SquaresAreFinite, FS_Subset
<1>5. IsFiniteSet(A) /\ Cardinality(A) = Cardinality(adds)
  <2>1. adding \in [adds -> A] /\ \A y \in A : \E x \in adds : adding[x] = y
    OBVIOUS
  <2>2. \A x, y \in adds : adding[x] = adding[y] => x = y
    BY DEF Flight
  <2> HIDE DEF adding, A, adds
  <2> QED BY <1>4, <2>1, <2>2, SameSize
<1>6. M \intersect A = {}
  <2>1. \A f \in M : f.spare = FALSE
    BY DEF Flight
  <2>2. \A f \in A : f.spare = TRUE
    BY DEF Flight
  <2> QED BY <2>1, <2>2
<1>7. ASSUME NEW f \in M \union A PROVE f.batch = b /\ f.dest \in Squares
  <2>1. CASE f \in M
    BY <1>1, <2>1 DEF Flight
  <2>2. CASE f \in A
    BY <1>1, <2>2 DEF Flight
  <2> QED BY <2>1, <2>2
<1>8. air = M \union A
  BY DEF Leaving
<1> HIDE DEF M, A, air
<1>9. IsFiniteSet(air) /\ Cardinality(air) = Cardinality(M) + Cardinality(A)
  <2>1. /\ IsFiniteSet(M \union A)
        /\ Cardinality(M \union A) = Cardinality(M) + Cardinality(A) - Cardinality(M \intersect A)
    BY <1>3, <1>5, FS_Union
  <2>2. Cardinality(M \intersect A) = 0
    BY <1>6, FS_EmptySet
  <2>3. Cardinality(M) \in Nat /\ Cardinality(A) \in Nat
    BY <1>3, <1>5, FS_CardinalityType
  <2>4. Cardinality(M \union A) = Cardinality(M) + Cardinality(A)
    <3> DEFINE m == Cardinality(M)
               a == Cardinality(A)
    <3>1. Cardinality(M \union A) = m + a - 0 /\ m \in Nat /\ a \in Nat
      BY <2>1, <2>2, <2>3
    <3> HIDE DEF m, a
    <3>2. Cardinality(M \union A) = m + a
      BY <3>1
    <3> QED BY <3>2 DEF m, a
  <2> QED BY <1>8, <2>1, <2>4
<1>10. Cardinality(plan.moves) \in Nat
  BY <1>1, FS_CardinalityType
<1> QED BY <1>3, <1>5, <1>7, <1>8, <1>9, <1>10 DEF air

\* An element on its way is what Flight makes of it; those of a batch, which set
\* out together, are all for squares that are on the page or for squares that a
\* redraw has replaced.
FlightFields == {"piece", "dest", "spare", "onPage", "batch"}
IsFlight(f) == f = [x \in FlightFields |-> f[x]]

Together(air) ==
  \A f, g \in air : IsFlight(f) /\ (f.batch = g.batch => f.onPage = g.onPage)

Grounded(f) == [f EXCEPT !.onPage = FALSE]
Landless(air) == {Grounded(f) : f \in air}

LEMMA GroundedIs ==
  ASSUME NEW f, IsFlight(f)
  PROVE  /\ Grounded(f) = [x \in FlightFields |-> IF x = "onPage" THEN FALSE ELSE f[x]]
         /\ IsFlight(Grounded(f)) /\ Grounded(f).batch = f.batch
         /\ Grounded(f).dest = f.dest /\ Grounded(f).onPage = FALSE
<1> DEFINE h == [x \in FlightFields |-> IF x = "onPage" THEN FALSE ELSE f[x]]
<1>1. DOMAIN f = FlightFields /\ "onPage" \in FlightFields
  BY DEF IsFlight, FlightFields
<1>2. Grounded(f) = h
  BY <1>1 DEF Grounded, IsFlight
<1>3. h.batch = f.batch /\ h.dest = f.dest /\ h.onPage = FALSE
  BY DEF FlightFields
<1>4. IsFlight(h)
  BY DEF IsFlight
<1> QED BY <1>2, <1>3, <1>4

\* A redraw of the squares loses no element that is on its way.
LEMMA GroundedFlights ==
  ASSUME NEW air, Together(air)
  PROVE  /\ Together(Landless(air))
         /\ \A b : IsFiniteSet(Flying(air, b)) =>
              Cardinality(Flying(Landless(air), b)) = Cardinality(Flying(air, b))
         /\ IsFiniteSet(air) => IsFiniteSet(Landless(air))
         /\ \A g \in Landless(air) : \E f \in air : g.batch = f.batch /\ g.dest = f.dest
<1> DEFINE T == {Grounded(f) : f \in air}
<1>0. Landless(air) = T
  BY DEF Landless
<1>1. ASSUME NEW f \in air
      PROVE  /\ IsFlight(f) /\ IsFlight(Grounded(f)) /\ Grounded(f).batch = f.batch
             /\ Grounded(f).dest = f.dest /\ Grounded(f).onPage = FALSE
  <2>1. IsFlight(f)
    BY DEF Together
  <2> QED BY <2>1, GroundedIs
<1>2. ASSUME NEW f \in air, NEW g \in air, Grounded(f) = Grounded(g) PROVE f = g
  <2> DEFINE h(z) == [x \in FlightFields |-> IF x = "onPage" THEN FALSE ELSE z[x]]
  <2>1. IsFlight(f) /\ IsFlight(g)
    BY <1>1
  <2>2. Grounded(f) = h(f) /\ Grounded(g) = h(g)
    BY <2>1, GroundedIs
  <2>3. \A x \in FlightFields : x # "onPage" => f[x] = g[x]
    <3> SUFFICES ASSUME NEW x \in FlightFields, x # "onPage" PROVE f[x] = g[x]
      OBVIOUS
    <3>1. h(f)[x] = h(g)[x]
      BY <1>2, <2>2
    <3> QED BY <3>1
  <2>4. f.batch = g.batch
    BY <2>3 DEF FlightFields
  <2>5. f["onPage"] = g["onPage"]
    BY <2>4 DEF Together
  <2>6. \A x \in FlightFields : f[x] = g[x]
    BY <2>3, <2>5
  <2> QED BY <2>1, <2>6 DEF IsFlight
<1>3. Together(T)
  <2>1. ASSUME NEW g \in T PROVE IsFlight(g) /\ g.onPage = FALSE
    BY <1>1
  <2> HIDE DEF T
  <2> QED BY <2>1 DEF Together
<1>4. ASSUME NEW S \in SUBSET air, NEW U \in SUBSET T, IsFiniteSet(S),
             U = {Grounded(f) : f \in S}
      PROVE  IsFiniteSet(U) /\ Cardinality(U) = Cardinality(S)
  <2> DEFINE ground == [f \in S |-> Grounded(f)]
  <2>1. ground \in [S -> U] /\ \A y \in U : \E x \in S : ground[x] = y
    BY <1>4
  <2>2. \A x, y \in S : ground[x] = ground[y] => x = y
    BY <1>2
  <2> HIDE DEF ground
  <2> QED BY <1>4, <2>1, <2>2, SameSize
<1>5. ASSUME NEW b, IsFiniteSet(Flying(air, b))
      PROVE  Cardinality(Flying(T, b)) = Cardinality(Flying(air, b))
  <2>1. Flying(T, b) = {Grounded(f) : f \in Flying(air, b)}
    BY <1>1 DEF Flying
  <2>2. Flying(T, b) \in SUBSET T /\ Flying(air, b) \in SUBSET air
    BY DEF Flying
  <2> QED BY <1>4, <1>5, <2>1, <2>2
<1>6. IsFiniteSet(air) => IsFiniteSet(T)
  BY <1>4
<1>7. \A g \in T : \E f \in air : g.batch = f.batch /\ g.dest = f.dest
  BY <1>1
<1> HIDE DEF T
<1> QED BY <1>0, <1>3, <1>5, <1>6, <1>7

\* The flights of a new batch set out together, and no other is of that batch.
LEMMA LeavingTogether ==
  ASSUME NEW air, Together(air), NEW b, \A f \in air : f.batch # b, NEW pos, NEW plan
  PROVE  Together(air \union Leaving(plan, pos, b))
<1>1. ASSUME NEW f \in Leaving(plan, pos, b)
      PROVE  IsFlight(f) /\ f.batch = b /\ f.onPage = TRUE
  <2>1. PICK piece, dest, spare : f = Flight(piece, dest, spare, b)
    BY DEF Leaving
  <2>2. DOMAIN f = FlightFields /\ f = [x \in DOMAIN f |-> f[x]]
    BY <2>1 DEF Flight, FlightFields
  <2>3. f.batch = b /\ f.onPage = TRUE
    BY <2>1 DEF Flight
  <2> QED BY <2>2, <2>3 DEF IsFlight
<1> QED BY <1>1 DEF Together

\* A batch begins with as many callbacks to come as it counts, or with more if
\* none of its elements is on its way; the others have what they had.
LEMMA AnimateCounts ==
  ASSUME TypeInv, ElementsInv, CountInv, Together(flights),
         NEW pos \in Positions, pos # currentPosition,
         NEW plan \in CalculateAnimations(currentPosition, pos), FadesLanded(plan),
         Len(batches) < MaxBatches, DoAnimations(plan, pos, Len(batches) + 1),
         UNCHANGED dragged
  PROVE  CountInv' /\ ~AllFinished' /\ Together(flights')
<1> DEFINE b == Len(batches) + 1
           n == AnimationCount(plan)
           batch == [length |-> n, numFinished |-> 0]
           fades == FadeIns(plan) \union plan.clears
           both == Doubled(plan)
           adds == plan.adds \ FadeIns(plan)
           sources == Sources(plan)
           moved == [s \in Squares |-> Stays(plan, s)]
           air == Leaving(plan, pos, b)
           S == [length : Nat, numFinished : Nat]
<1>0. currentPosition \in Positions /\ MaxBatches \in Nat
  BY ChessboardAssumption DEF TypeInv, TypeOK
<1>1. batches \in Seq(S) /\ Len(batches) \in Nat /\ b \in 1..MaxBatches
  <2> HIDE DEF S
  <2>1. batches \in Seq(S)
    BY DEF CountInv, Counted, IsBatches, S
  <2> QED BY <1>0, <2>1
<1>2. /\ plan.adds \subseteq Squares /\ plan.clears \subseteq Squares
      /\ IsFiniteSet(plan.moves)
      /\ plan.moves # {} \/ plan.adds # {} \/ plan.clears # {}
  <2>1. DOMAIN currentPosition \subseteq Squares
    BY <1>0, PositionsAre
  <2> QED BY <1>0, <2>1, PlanIs
<1>3. /\ IsFiniteSet(plan.moves) /\ Cardinality(plan.moves) \in Nat
      /\ IsFiniteSet(plan.adds) /\ Cardinality(plan.adds) \in Nat
      /\ IsFiniteSet(plan.clears) /\ Cardinality(plan.clears) \in Nat
  <2>1. IsFiniteSet(plan.adds) /\ IsFiniteSet(plan.clears)
    BY <1>2, SquaresAreFinite, FS_Subset
  <2> QED BY <1>2, <2>1, FS_CardinalityType
<1>4. n \in Nat /\ n > 0
  <2>1. n = Cardinality(plan.moves) + Cardinality(plan.adds) + Cardinality(plan.clears)
    BY DEF AnimationCount
  <2>2. \/ Cardinality(plan.moves) # 0 \/ Cardinality(plan.adds) # 0
        \/ Cardinality(plan.clears) # 0
    BY <1>2, <1>3, FS_EmptySet
  <2> HIDE DEF n
  <2> QED BY <1>3, <2>1, <2>2
<1>5. /\ Cardinality(fades) \in Nat /\ Cardinality(both) \in Nat /\ Cardinality(adds) \in Nat
      /\ Cardinality(plan.moves) + Cardinality(adds) + (Cardinality(fades) + Cardinality(both)) = n
      /\ adds # {} => both = {}
  <2>0. n = Cardinality(plan.moves) + Cardinality(plan.adds) + Cardinality(plan.clears)
    BY DEF AnimationCount
  <2> HIDE DEF n
  <2>1. CASE config.sparePieces
    <3>1. fades = plan.clears /\ adds = plan.adds /\ both = {}
      BY <2>1 DEF FadeIns, Doubled
    <3>2. Cardinality(both) = 0
      BY <3>1, FS_EmptySet
    <3> HIDE DEF adds, fades, both
    <3> QED BY <1>3, <2>0, <3>1, <3>2
  <2>2. CASE ~config.sparePieces
    <3>1. /\ fades = plan.adds \union plan.clears /\ adds = {}
          /\ both = plan.adds \intersect plan.clears
      BY <2>2 DEF FadeIns, Doubled
    <3> HIDE DEF adds, fades, both
    <3>2. /\ IsFiniteSet(fades)
          /\ Cardinality(fades)
               = Cardinality(plan.adds) + Cardinality(plan.clears) - Cardinality(both)
      BY <1>3, <3>1, FS_Union
    <3>3. IsFiniteSet(both)
      BY <1>3, <3>1, FS_Subset
    <3>4. Cardinality(adds) = 0 /\ Cardinality(both) \in Nat /\ Cardinality(fades) \in Nat
      BY <3>1, <3>2, <3>3, FS_EmptySet, FS_CardinalityType
    <3> QED BY <1>3, <2>0, <3>1, <3>2, <3>4
  <2> QED BY <2>1, <2>2
<1>6. /\ orphans' = Orphaned(orphans, dom, sources)
      /\ flights' = flights \union air
      /\ batches' = Append(batches, batch)
  <2>1. /\ orphans' = Orphaned(orphans, dom, sources)
        /\ flights' = (flights
                \union {Flight(pos[m[2]], m[2], FALSE, b) : m \in plan.moves})
                \union {Flight(pos[s], s, TRUE, b) : s \in adds}
        /\ batches' = Append(batches, batch)
    BY Zenon DEF DoAnimations, FadeIns, Sources
  <2>2. air = {Flight(pos[m[2]], m[2], FALSE, b) : m \in plan.moves}
                \union {Flight(pos[s], s, TRUE, b) : s \in adds}
    BY Zenon DEF Leaving
  <2> HIDE DEF air, b, n, batch, adds, sources
  <2> QED BY <2>1, <2>2
<1>7. /\ IsFiniteSet(air) /\ \A f \in air : f.batch = b /\ f.dest \in Squares
      /\ Cardinality(air) = Cardinality(plan.moves) + Cardinality(adds)
      /\ air # {} => Departs(plan)
  <2> HIDE DEF b
  <2>1. air # {} => Departs(plan)
    BY DEF Leaving, Departs
  <2> QED BY <1>0, <2>1, SetOut
<1>8. /\ IsView(dom, orphans, flights)
      /\ \A c \in 1..MaxBatches : CountedBatch(dom, orphans, flights, batches, c)
  BY DEF CountInv, Counted
<1>10. ElementsInv'
  BY <1>0, AnimateKeepsElements
<1>11. sources \subseteq Squares
  BY <1>0, PlanIs DEF Sources
<1>12. /\ IsBatches(batches') /\ DOMAIN batches' = (DOMAIN batches) \union {b}
       /\ batches'[b] = batch /\ \A c \in DOMAIN batches : batches'[c] = batches[c] /\ c # b
  <2>1. batch \in S
    BY <1>4
  <2> HIDE DEF batch, S
  <2>2. batches' \in Seq(S) /\ Len(batches') = b
    BY <1>1, <1>6, <2>1
  <2>3. DOMAIN batches = 1..Len(batches) /\ DOMAIN batches' = 1..b
    BY <1>1, <2>2
  <2>4. batches'[b] = batch /\ \A c \in 1..Len(batches) : batches'[c] = batches[c]
    BY <1>1, <1>6
  <2>5. 1..b = (1..Len(batches)) \union {b} /\ b \notin 1..Len(batches)
    BY <1>1
  <2>6. IsBatches(batches')
    BY <1>1, <2>2 DEF IsBatches, S
  <2> QED BY <2>3, <2>4, <2>5, <2>6
<1>13. batch.length = n /\ batch.numFinished = 0
  OBVIOUS
<1> HIDE DEF n, batch, S
\* Nothing is under way for the new batch.
<1>14. /\ Flying(flights, b) = {}
       /\ \A s \in Squares : \A i : ~Runs(dom, s, i, b)
       /\ Pending(dom, orphans, flights, b) = 0
  <2>1. Pending(dom, orphans, flights, b) = 0
    BY <1>1, <1>8, <1>12 DEF CountedBatch
  <2> HIDE DEF b
  <2> DEFINE X == Flying(flights, b)
             Y == Running(dom, Squares, b)
  <2>2. /\ IsFiniteSet(X) /\ Cardinality(X) \in Nat /\ orphans[b] \in Nat
        /\ Cardinality(Y) \in Nat
    BY <1>1, <1>8, PendingIsNumber
  <2>3. IsFiniteSet(Y)
    BY RunningFinite DEF ElementsInv
  <2>4. Cardinality(X) + orphans[b] + Cardinality(Y) = 0
    BY <2>1 DEF Pending
  <2> HIDE DEF X, Y
  <2>5. Cardinality(X) = 0 /\ Cardinality(Y) = 0
    BY <2>2, <2>4
  <2>6. X = {} /\ Y = {}
    BY <2>2, <2>3, <2>5, FS_EmptySet
  <2>7. ASSUME NEW s \in Squares, NEW i PROVE ~Runs(dom, s, i, b)
    BY <2>6, RunningIs DEF Y
  <2> QED BY <2>1, <2>6, <2>7 DEF X
\* The elements that set out are removed from their squares.
<1>15. \A s \in Squares : moved[s] = IF s \in sources THEN <<>> ELSE dom[s]
  BY DEF Stays
<1>16. EffectsGone(dom, moved, sources)
  <2> HIDE DEF moved, sources
  <2>1. \A s \in sources : \A i, c : ~Runs(moved, s, i, c)
    BY <1>11, <1>15 DEF Runs
  <2>2. \A s \in Squares \ sources : \A i, c : Runs(dom, s, i, c) <=> Runs(moved, s, i, c)
    BY <1>15 DEF Runs
  <2>3. \A s \in Squares : \A i, c : Runs(moved, s, i, c) => moved[s][i].fx = dom[s][i].fx
    BY <1>15 DEF Runs
  <2> QED BY <2>1, <2>2, <2>3 DEF EffectsGone
<1>17. ASSUME NEW c \in 1..MaxBatches
       PROVE  /\ orphans'[c] \in Nat
              /\ Pending(moved, orphans', flights, c) = Pending(dom, orphans, flights, c)
              /\ Single(dom, c) => Single(moved, c)
  <2> HIDE DEF moved, sources, b, air
  <2> QED BY <1>6, <1>8, <1>11, <1>16, RemovedStillCall
<1>18. \A s \in Squares : \A i : ~Runs(moved, s, i, b)
  <2> HIDE DEF moved, sources, b
  <2> QED BY <1>11, <1>14, <1>16 DEF EffectsGone
<1>19. fades \subseteq Squares /\ both \subseteq fades
  BY <1>2 DEF FadeIns, Doubled
<1>20. \A s \in Squares : IF s \in fades
                          THEN /\ Still(moved[s])
                               /\ Faded(dom'[s], IF s \in both THEN 2 ELSE 1, b)
                               /\ Departs(plan) => Alone(dom'[s])
                          ELSE dom'[s] = moved[s]
  <2>1. IsBoard(dom)
    BY DEF ElementsInv
  <2> HIDE DEF b
  <2>2. \A s \in Squares :
            IF s \in FadeIns(plan) \union plan.clears
            THEN /\ Still(Stays(plan, s))
                 /\ Faded(dom'[s], IF s \in Doubled(plan) THEN 2 ELSE 1, b)
                 /\ Departs(plan) => Alone(dom'[s])
            ELSE dom'[s] = Stays(plan, s)
    BY <1>1, <2>1, AnimatedElements DEF b
  <2> QED BY <2>2
<1>21. /\ Cardinality(Running(dom', Squares, b)) >= Cardinality(fades) + Cardinality(both)
       /\ both = {} /\ (\A s \in fades : Alone(dom'[s])) =>
            /\ Cardinality(Running(dom', Squares, b)) = Cardinality(fades) + Cardinality(both)
            /\ Single(dom', b)
       /\ \A c : c # b => /\ Running(dom', Squares, c) = Running(moved, Squares, c)
                          /\ Single(moved, c) => Single(dom', c)
       /\ \A s \in fades : \A i \in DOMAIN dom'[s] : OneBatch(dom'[s][i].fx)
  <2>1. IsBoard(dom')
    BY <1>10 DEF ElementsInv
  <2> HIDE DEF fades, both, b, moved
  <2>2. FadesOver(dom', moved, fades, both, b)
    BY <1>20, Zenon DEF FadesOver
  <2> QED BY <1>18, <1>19, <2>1, <2>2, FadedRun
<1>22. Departs(plan) => both = {} /\ \A s \in fades : Alone(dom'[s])
  <2> SUFFICES ASSUME Departs(plan) PROVE both = {} /\ \A s \in fades : Alone(dom'[s])
    OBVIOUS
  <2>1. both = {}
    BY DEF FadesLanded, Doubled
  <2> HIDE DEF fades, both, b, moved
  <2> QED BY <1>19, <1>20, <2>1
<1>23. IsView(dom', orphans', flights')
  <2>1. orphans' \in [1..MaxBatches -> Nat]
    <3>1. orphans' = [c \in 1..MaxBatches |-> orphans'[c]]
      BY <1>6 DEF Orphaned
    <3> QED BY <1>17, <3>1
  <2>2. ASSUME NEW s \in Squares, NEW i \in DOMAIN dom'[s] PROVE OneBatch(dom'[s][i].fx)
    <3>1. CASE s \in fades
      BY <1>21, <3>1
    <3>2. CASE s \notin fades
      <4>1. dom'[s] = IF s \in sources THEN <<>> ELSE dom[s]
        BY <1>15, <1>20, <3>2
      <4>2. dom'[s] = dom[s]
        BY <4>1
      <4> QED BY <1>8, <4>2 DEF IsView
    <3> QED BY <3>1, <3>2
  <2>3. IsFiniteSet(flights')
    BY <1>6, <1>7, <1>8, FS_Union DEF IsView
  <2>4. \A f \in flights' : f.batch \in 1..MaxBatches /\ f.dest \in Squares
    <3> HIDE DEF air, b
    <3> QED BY <1>1, <1>6, <1>7, <1>8 DEF IsView
  <2>5. IsBoard(dom')
    BY <1>10 DEF ElementsInv
  <2> HIDE DEF b, air, fades, both, adds, sources, moved
  <2> QED BY <2>1, <2>2, <2>3, <2>4, <2>5 DEF IsView
<1> HIDE DEF fades, both, adds, sources, moved, air
<1>24. Flying(flights', b) = air /\ \A c : c # b => Flying(flights', c) = Flying(flights, c)
  <2> HIDE DEF b
  <2> QED BY <1>6, <1>7, <1>14 DEF Flying
<1>25. CountedBatch(dom', orphans', flights', batches', b)
  <2>1. orphans'[b] = 0
    <3> DEFINE X == Cardinality(Flying(flights, b))
               Y == Cardinality(Running(moved, Squares, b))
    <3>1. X + orphans'[b] + Y = 0
      BY <1>1, <1>14, <1>17 DEF Pending
    <3>2. X = 0
      BY <1>14, FS_EmptySet
    <3>3. Y = 0
      BY <1>18, NothingRuns
    <3>4. orphans'[b] \in Nat
      BY <1>1, <1>17
    <3> HIDE DEF X, Y, b
    <3> QED BY <3>1, <3>2, <3>3, <3>4
  <2> DEFINE X == Cardinality(air)
             Y == Cardinality(Running(dom', Squares, b))
             F == Cardinality(fades) + Cardinality(both)
  <2>2. Pending(dom', orphans', flights', b) = X + 0 + Y
    BY <1>24, <2>1 DEF Pending
  <2>3. X \in Nat /\ Y \in Nat /\ F \in Nat /\ X + F = n
    <3>1. X \in Nat
      BY <1>7, FS_CardinalityType
    <3>2. Y \in Nat
      BY <1>10, RunningFinite DEF ElementsInv
    <3> QED BY <1>3, <1>5, <1>7, <3>1, <3>2
  <2>4. Y >= F
    BY <1>21
  <2>5. air # {} => Y = F /\ Single(dom', b)
    BY <1>7, <1>21, <1>22
  <2>6. Remaining(batches', b) = n - 0 /\ b \in DOMAIN batches'
    BY <1>12, <1>13 DEF Remaining
  <2> HIDE DEF X, Y, F, b
  <2>7. Pending(dom', orphans', flights', b) >= Remaining(batches', b)
    BY <1>4, <2>2, <2>3, <2>4, <2>6
  <2>8. Y = F => Pending(dom', orphans', flights', b) = Remaining(batches', b)
    BY <1>4, <2>2, <2>3, <2>6
  <2> QED BY <1>24, <2>5, <2>6, <2>7, <2>8 DEF CountedBatch
<1>26. ASSUME NEW c \in 1..MaxBatches, c # b
       PROVE  CountedBatch(dom', orphans', flights', batches', c)
  <2> HIDE DEF b
  <2>1. /\ Flying(flights', c) = Flying(flights, c)
        /\ Running(dom', Squares, c) = Running(moved, Squares, c)
        /\ Single(moved, c) => Single(dom', c)
    BY <1>21, <1>24, <1>26
  <2>2. Pending(dom', orphans', flights', c) = Pending(moved, orphans', flights, c)
    BY <2>1 DEF Pending
  <2>3. Pending(dom', orphans', flights', c) = Pending(dom, orphans, flights, c)
    BY <1>17, <2>2
  <2>4. Single(dom, c) => Single(dom', c)
    BY <1>17, <2>1
  <2>5. Remaining(batches', c) = Remaining(batches, c) /\ (c \in DOMAIN batches <=> c \in DOMAIN batches')
    BY <1>12, <1>26 DEF Remaining
  <2>6. CountedBatch(dom, orphans, flights, batches, c)
    BY <1>8
  <2> QED BY <2>1, <2>3, <2>4, <2>5, <2>6 DEF CountedBatch
<1>27. CountInv'
  <2>1. \A c \in 1..MaxBatches : CountedBatch(dom', orphans', flights', batches', c)
    BY <1>25, <1>26
  <2> QED BY <1>12, <1>23, <2>1 DEF CountInv, Counted
<1>28. ~AllFinished'
  BY <1>4, <1>12, <1>13 DEF AllFinished
<1>29. Together(flights')
  <2>1. \A f \in flights : f.batch # b
    BY <1>14 DEF Flying
  <2> HIDE DEF b
  <2> QED BY <1>6, <2>1, LeavingTogether DEF air
<1> QED BY <1>27, <1>28, <1>29

-----------------------------------------------------------------------------
(* The board at rest.                                                      *)

\* The board is drawn anew, squares and all, while elements are on their way.
LEMMA BoardCounts ==
  ASSUME CountInv, Together(flights), DrawBoard
  PROVE  CountInv' /\ Together(flights')
<1>1. IsView(dom, orphans, flights)
  BY DEF CountInv, Counted
<1>2. flights' = Landless(flights) /\ UNCHANGED batches
  BY Zenon DEF DrawBoard, Grounded, Landless
<1>3. /\ IsView(dom', orphans', flights)
      /\ \A b \in 1..MaxBatches :
           /\ Pending(dom', orphans', flights, b) = Pending(dom, orphans, flights, b)
           /\ Single(dom', b)
  BY <1>1, RedrawnStillCall DEF DrawBoard, DrawPositionInstant
<1>4. /\ Together(flights')
      /\ \A b : IsFiniteSet(Flying(flights, b)) =>
           Cardinality(Flying(flights', b)) = Cardinality(Flying(flights, b))
      /\ IsFiniteSet(flights) => IsFiniteSet(flights')
      /\ \A g \in flights' : \E f \in flights : g.batch = f.batch /\ g.dest = f.dest
  BY <1>2, GroundedFlights
<1>5. IsView(dom', orphans', flights')
  BY <1>3, <1>4 DEF IsView
<1>6. ASSUME NEW b \in 1..MaxBatches
      PROVE  /\ Pending(dom', orphans', flights', b) = Pending(dom, orphans, flights, b)
             /\ Flying(flights', b) # {} => Flying(flights, b) # {}
  <2>1. IsFiniteSet(Flying(flights, b))
    BY <1>1, PendingIsNumber
  <2>2. Pending(dom', orphans', flights', b) = Pending(dom', orphans', flights, b)
    BY <1>4, <2>1 DEF Pending
  <2>3. Flying(flights', b) # {} => Flying(flights, b) # {}
    BY <1>4 DEF Flying
  <2> QED BY <1>3, <2>2, <2>3
<1> QED BY <1>2, <1>3, <1>4, <1>5, <1>6 DEF CountInv, Counted, CountedBatch

RestInv ==
  TypeInv /\ ElementsInv /\ CountInv /\ Settled /\ Together(flights)

LEMMA RestIsDrawn ==
  ASSUME RestInv, BoardStands, Quiet PROVE dom = Drawn(currentPosition)
<1>1. AllFinished
  BY RestIsFinished DEF RestInv
<1> QED BY <1>1 DEF RestInv, Settled

LEMMA DrawnSettles ==
  ASSUME Settled, UNCHANGED <<config, isDragging, dragged>>,
         dom' = Drawn(currentPosition') \/ (StaysSettled /\ UNCHANGED currentPosition)
  PROVE  Settled'
BY DEF Settled, StaysSettled, Quiet, NeverTrashes, Snaps

\* A change of position is one move of one piece, with or without a capture, made
\* or taken back.
OneMove(p, q) ==
  \E s \in DOMAIN p, t \in Squares :
    /\ t # s /\ (t \in DOMAIN p => p[t] # p[s])
    /\ q = MoveOne(p, s, t)

OneMoveAtATime ==
  Len(batches') # Len(batches) =>
    \/ OneMove(currentPosition, currentPosition')
    \/ OneMove(currentPosition', currentPosition)

\* One piece that moves is one element that sets out: nothing is cleared, and a
\* captured piece comes back where the other leaves.
LEMMA OneMoveIsAnimated ==
  ASSUME NEW p \in Positions, NEW q \in Positions, OneMove(p, q) \/ OneMove(q, p),
         NEW plan \in CalculateAnimations(p, q)
  PROVE  plan.clears = {} /\ \A x \in plan.adds : \E v \in plan.moves : v[1] = x
<1> DEFINE p1 == Changed(p, q)
           p2 == Changed(q, p)
<1>1. PICK m \in Matchings(p1, p2) :
         plan = [moves |-> m.moves, adds |-> m.adds, clears |-> Clears(m)]
  BY DEF CalculateAnimations
<1>2. MatchInv(m, p1, p2) /\ m.todo = {}
  BY <1>1, ChangedDiffer, AllAreMatched
<1>3. /\ DOMAIN p1 = {s \in DOMAIN p : s \in DOMAIN q => p[s] # q[s]}
      /\ DOMAIN p2 = {s \in DOMAIN q : s \in DOMAIN p => q[s] # p[s]}
      /\ (\A s \in DOMAIN p1 : p1[s] = p[s]) /\ (\A s \in DOMAIN p2 : p2[s] = q[s])
  BY ChangedIs
<1> HIDE DEF p1, p2
<1>4. /\ plan.moves = m.moves /\ plan.adds = m.adds
      /\ plan.clears = DOMAIN m.left \ {v[2] : v \in plan.moves}
  BY <1>1 DEF Clears
<1>5. /\ \A v \in plan.moves : /\ p1[v[1]] = p2[v[2]]
                               /\ v[1] \in DOMAIN p1 \ DOMAIN m.left
                               /\ v[2] \in DOMAIN p2 \ plan.adds
      /\ plan.adds \subseteq DOMAIN p2 /\ DOMAIN m.left \subseteq DOMAIN p1
      /\ \A s \in DOMAIN p1 \ DOMAIN m.left : \E v \in plan.moves : v[1] = s
      /\ \A s \in DOMAIN p2 : s \in plan.adds \/ \E v \in plan.moves : v[2] = s
      /\ \A s \in plan.adds, t \in DOMAIN m.left : p1[t] # p2[s]
  BY <1>2, <1>4 DEF MatchInv, MovesMatch
<1> DEFINE Moves(u, w, s, t) ==
             /\ s \in DOMAIN u /\ t # s /\ (t \in DOMAIN u => u[t] # u[s])
             /\ DOMAIN w = (DOMAIN u \ {s}) \union {t}
             /\ \A x \in DOMAIN w : w[x] = IF x = t THEN u[s] ELSE u[x]
<1>6. ASSUME NEW u, NEW w, OneMove(u, w) PROVE \E s, t : Moves(u, w, s, t)
  <2>1. PICK s \in DOMAIN u, t \in Squares :
          /\ t # s /\ (t \in DOMAIN u => u[t] # u[s]) /\ w = MoveOne(u, s, t)
    BY <1>6 DEF OneMove
  <2>2. w = [x \in (DOMAIN u \ {s}) \union {t} |->
               IF x = t THEN u[s] ELSE [y \in DOMAIN u \ {s} |-> u[y]][x]]
    BY <2>1 DEF MoveOne, With, Without
  <2>3. DOMAIN w = (DOMAIN u \ {s}) \union {t}
    BY <2>2
  <2>4. \A x \in DOMAIN w : w[x] = IF x = t THEN u[s] ELSE u[x]
    BY <2>2
  <2>5. Moves(u, w, s, t)
    BY <2>1, <2>3, <2>4
  <2> HIDE DEF Moves
  <2> QED BY <2>5
<1>7. CASE OneMove(p, q)
  <2>0. \E s, t : Moves(p, q, s, t)
    <3> HIDE DEF Moves
    <3> QED BY <1>6, <1>7
  <2>1. PICK s, t : Moves(p, q, s, t)
    BY <2>0
  <2>2. /\ DOMAIN p2 = {t} /\ p2[t] = p[s] /\ s \in DOMAIN p1 /\ p1[s] = p[s]
        /\ \A x \in DOMAIN p1 : x = s \/ (x = t /\ p1[x] # p[s])
    <3>1. \A x \in DOMAIN q \ {t} : x \in DOMAIN p /\ q[x] = p[x]
      BY <2>1
    <3>2. t \in DOMAIN q /\ q[t] = p[s] /\ s \notin DOMAIN q
      BY <2>1
    <3>3. DOMAIN p2 = {t} /\ p2[t] = p[s]
      BY <1>3, <2>1, <3>1, <3>2
    <3>4. s \in DOMAIN p1 /\ p1[s] = p[s]
      BY <1>3, <2>1, <3>2
    <3>5. ASSUME NEW x \in DOMAIN p1 PROVE x = s \/ (x = t /\ p1[x] # p[s])
      <4>1. x \in DOMAIN p /\ p1[x] = p[x] /\ (x \in DOMAIN q => p[x] # q[x])
        BY <1>3
      <4>2. x # s => x \in DOMAIN q
        BY <2>1, <4>1
      <4>3. x # s /\ x # t => q[x] = p[x]
        BY <2>1, <4>2
      <4>4. x = s \/ x = t
        BY <4>1, <4>2, <4>3
      <4> QED BY <2>1, <4>1, <4>4
    <3> QED BY <3>3, <3>4, <3>5
  <2>3. t \notin plan.adds
    <3> SUFFICES ASSUME t \in plan.adds PROVE FALSE
      OBVIOUS
    <3>1. plan.moves = {}
      BY <1>5, <2>2
    <3>2. s \in DOMAIN m.left
      BY <1>5, <2>2, <3>1
    <3> QED BY <1>5, <2>2, <3>2
  <2>4. plan.adds = {}
    BY <1>5, <2>2, <2>3
  <2>5. PICK v \in plan.moves : v[2] = t
    BY <1>5, <2>2, <2>3
  <2>6. v[1] = s /\ s \notin DOMAIN m.left
    BY <1>5, <2>2, <2>5
  <2>7. DOMAIN m.left \subseteq {t}
    BY <1>5, <2>2, <2>6
  <2>8. plan.clears = {}
    BY <1>4, <2>5, <2>7
  <2> QED BY <2>4, <2>8
<1>8. CASE OneMove(q, p)
  <2>0. \E s, t : Moves(q, p, s, t)
    <3> HIDE DEF Moves
    <3> QED BY <1>6, <1>8
  <2>1. PICK s, t : Moves(q, p, s, t)
    BY <2>0
  <2>2. /\ DOMAIN p1 = {t} /\ p1[t] = q[s] /\ s \in DOMAIN p2 /\ p2[s] = q[s]
        /\ \A x \in DOMAIN p2 : x = s \/ (x = t /\ p2[x] # q[s])
    <3>1. \A x \in DOMAIN p \ {t} : x \in DOMAIN q /\ p[x] = q[x]
      BY <2>1
    <3>2. t \in DOMAIN p /\ p[t] = q[s] /\ s \notin DOMAIN p
      BY <2>1
    <3>3. DOMAIN p1 = {t} /\ p1[t] = q[s]
      BY <1>3, <2>1, <3>1, <3>2
    <3>4. s \in DOMAIN p2 /\ p2[s] = q[s]
      BY <1>3, <2>1, <3>2
    <3>5. ASSUME NEW x \in DOMAIN p2 PROVE x = s \/ (x = t /\ p2[x] # q[s])
      <4>1. x \in DOMAIN q /\ p2[x] = q[x] /\ (x \in DOMAIN p => q[x] # p[x])
        BY <1>3
      <4>2. x # s => x \in DOMAIN p
        BY <2>1, <4>1
      <4>3. x # s /\ x # t => p[x] = q[x]
        BY <2>1, <4>2
      <4>4. x = s \/ x = t
        BY <4>1, <4>2, <4>3
      <4> QED BY <2>1, <4>1, <4>4
    <3> QED BY <3>3, <3>4, <3>5
  <2>3. s \notin plan.adds
    <3> SUFFICES ASSUME s \in plan.adds PROVE FALSE
      OBVIOUS
    <3>1. t \notin DOMAIN m.left
      BY <1>5, <2>2
    <3>2. PICK v \in plan.moves : v[1] = t
      BY <1>5, <2>2, <3>1
    <3>3. p2[v[2]] = q[s] /\ v[2] \in DOMAIN p2 /\ v[2] # s
      BY <1>5, <2>2, <3>2
    <3> QED BY <2>2, <3>3
  <2>4. PICK v \in plan.moves : v[2] = s
    BY <1>5, <2>2, <2>3
  <2>5. v[1] = t /\ DOMAIN m.left = {}
    BY <1>5, <2>2, <2>4
  <2>6. plan.clears = {}
    BY <1>4, <2>5
  <2>7. plan.adds \subseteq {t}
    BY <1>5, <2>2, <2>3
  <2> QED BY <2>4, <2>5, <2>6, <2>7
<1> QED BY <1>7, <1>8

\* So it fades at most on a square that its piece has left.
LEMMA OneMoveLands ==
  ASSUME NEW p \in Positions, NEW q \in Positions, OneMove(p, q) \/ OneMove(q, p),
         NEW plan \in CalculateAnimations(p, q)
  PROVE  FadesLanded(plan)
<1>1. plan.clears = {} /\ \A s \in plan.adds : s \in Sources(plan)
  BY OneMoveIsAnimated DEF Sources
<1>2. \A s \in FadeIns(plan) : Stays(plan, s) = <<>>
  BY <1>1 DEF FadeIns, Stays
<1>3. Still(<<>>)
  BY DEF Still
<1> QED BY <1>1, <1>2, <1>3 DEF FadesLanded

\* Conditions on the calls of the page under each of which they are animated well.
CalledWell == FadesWhatLanded \/ OneMoveAtATime

LEMMA CallsKeepRest ==
  ASSUME RestInv, PageCalls, UNCHANGED config, CalledWell
  PROVE  CountInv' /\ Settled' /\ Together(flights')
<1>0. RestInv => TypeInv /\ ElementsInv /\ CountInv /\ Settled /\ Together(flights)
  BY DEF RestInv
<1>1. ASSUME NEW pos \in Positions, NEW animate \in BOOLEAN, Position(pos, animate)
      PROVE  CountInv' /\ Settled' /\ Together(flights')
  <2>1. currentPosition' = pos /\ UNCHANGED <<config, isDragging, dragged>>
    BY <1>1 DEF Position, dragVars
  <2>2. CASE DrawPositionInstant(dom, pos) /\ UNCHANGED <<flights, batches>>
    <3>1. CountInv'
      BY <1>0, <2>2, RedrawCounts
    <3>2. Settled'
      BY <1>0, <2>1, <2>2, DrawnSettles DEF DrawPositionInstant
    <3> QED BY <1>0, <2>2, <3>1, <3>2
  <2>3. CASE /\ pos # currentPosition /\ Len(batches) < MaxBatches
             /\ \E plan \in CalculateAnimations(currentPosition, pos) :
                   DoAnimations(plan, pos, Len(batches) + 1)
    <3>0. currentPosition \in Positions
      BY <1>0 DEF TypeInv, TypeOK
    <3>1. PICK plan \in CalculateAnimations(currentPosition, pos) :
            DoAnimations(plan, pos, Len(batches) + 1)
      BY <2>3
    <3>2. Len(batches') # Len(batches)
      <4> DEFINE batch == [length |-> AnimationCount(plan), numFinished |-> 0]
      <4>1. batches' = Append(batches, batch)
        BY <3>1, Zenon DEF DoAnimations
      <4> HIDE DEF batch
      <4>2. PICK S : batches \in Seq(S)
        BY <1>0 DEF ElementsInv, IsASequence
      <4>3. Len(batches') = Len(batches) + 1 /\ Len(batches) \in Nat
        BY <4>1, <4>2
      <4> QED BY <4>3
    <3>3. plan \in CalculateAnimations(currentPosition, currentPosition')
      BY <2>1, <3>1
    <3>4. FadesLanded(plan)
      <4>1. CASE FadesWhatLanded
        BY <3>2, <3>3, <4>1 DEF FadesWhatLanded
      <4>2. CASE OneMoveAtATime
        <5>1. OneMove(currentPosition, pos) \/ OneMove(pos, currentPosition)
          BY <2>1, <3>2, <4>2 DEF OneMoveAtATime
        <5> QED BY <3>0, <3>1, <5>1, OneMoveLands
      <4> QED BY <4>1, <4>2 DEF CalledWell
    <3>5. CountInv' /\ ~AllFinished' /\ Together(flights')
      BY <1>0, <2>1, <2>3, <3>1, <3>4, AnimateCounts
    <3> QED BY <1>0, <2>1, <3>5 DEF Settled, NeverTrashes
  <2>4. CASE pos = currentPosition /\ UNCHANGED viewVars
    <3>1. UNCHANGED <<dom, flights, orphans, batches, currentPosition>>
      BY <2>1, <2>4 DEF viewVars
    <3>2. CountInv' /\ Together(flights')
      BY <1>0, <3>1 DEF CountInv
    <3>3. Settled'
      BY <1>0, <2>1, <3>1 DEF Settled, Quiet, NeverTrashes, Snaps, AllFinished
    <3> QED BY <3>2, <3>3
  <2> QED BY <1>1, <2>2, <2>3, <2>4 DEF Position
<1>2. ASSUME DrawBoard PROVE CountInv' /\ Settled' /\ Together(flights')
  <2>1. /\ DrawPositionInstant(dom, currentPosition)
        /\ UNCHANGED <<config, currentPosition, isDragging, dragged>>
    BY <1>2 DEF DrawBoard, dragVars
  <2>2. CountInv' /\ Together(flights')
    BY <1>0, <1>2, BoardCounts
  <2>3. Settled'
    BY <1>0, <2>1, DrawnSettles DEF DrawPositionInstant
  <2> QED BY <2>2, <2>3
<1>3. ASSUME NEW animate \in BOOLEAN, NEW moves \in MoveLists, Move(moves, animate)
      PROVE  CountInv' /\ Settled' /\ Together(flights')
  <2>1. CalculatePositionFromMoves(currentPosition, moves) \in Positions
    BY <1>0, MovesKeepPositions, ChessboardAssumption DEF TypeInv, TypeOK
  <2> QED BY <1>1, <1>3, <2>1 DEF Move
<1>4. ASSUME NEW animate \in BOOLEAN, Start(animate) \/ Clear(animate)
      PROVE  CountInv' /\ Settled' /\ Together(flights')
  <2>1. EmptyPosition \in Positions /\ START_POSITION \in Positions
    <3>1. EmptyPosition \in [{} -> Pieces] /\ {} \in SUBSET Squares
      BY DEF EmptyPosition
    <3> QED BY <3>1, ChessboardAssumption DEF Positions
  <2> QED BY <1>1, <1>4, <2>1 DEF Start, Clear
<1>5. ASSUME NEW animate \in BOOLEAN, NEW pos \in Targets, Position(pos, animate)
      PROVE  CountInv' /\ Settled' /\ Together(flights')
  BY <1>1, <1>5, ChessboardAssumption
<1>6. ASSUME NEW colour, Orientation(colour)
      PROVE  CountInv' /\ Settled' /\ Together(flights')
  BY <1>2, <1>6 DEF Orientation
<1>7. ASSUME NEW width, Resize(width) PROVE CountInv' /\ Settled' /\ Together(flights')
  BY <1>2, <1>7 DEF Resize
<1> QED BY <1>3, <1>4, <1>5, <1>6, <1>7 DEF PageCalls

\* Drags send nothing on its way, animations that end bring it down.
LEMMA FlightsStayTogether ==
  ASSUME RestInv, Drags \/ Animations PROVE Together(flights')
<1>0. TypeInv /\ Together(flights)
  BY DEF RestInv
<1>1. config.onDrop \subseteq {"none", "snapback", "trash"}
      /\ config.dropOffBoard \in {"snapback", "trash"}
  BY <1>0, ChessboardAssumption DEF TypeInv, TypeOK
<1>2. ASSUME NEW p, MouseupWindow(p) PROVE UNCHANGED flights
  BY <1>1, <1>2 DEF MouseupWindow, StopDraggedPiece, SnapbackDraggedPiece,
      TrashDraggedPiece, DropDraggedPieceOnSquare, EndDrag
<1>3. ASSUME NEW source, NEW piece, BeginDraggingPiece(source, piece) PROVE UNCHANGED flights
  BY <1>3 DEF BeginDraggingPiece
<1>4. CASE Drags
  <2>1. UNCHANGED flights
    BY <1>2, <1>3, <1>4 DEF Drags, MousedownSquare, MousedownSparePiece, MousemoveWindow,
        viewVars
  <2> QED BY <1>0, <2>1
<1>5. CASE Animations
  <2>1. CASE \E f \in flights : Land(f)
    <3>1. flights' \subseteq flights
      BY <2>1 DEF Land
    <3> QED BY <1>0, <3>1 DEF Together
  <2>2. CASE UNCHANGED flights
    BY <1>0, <2>2
  <2> QED BY <1>5, <2>1, <2>2 DEF Animations, EndFade, EndOrphan, EndDraggedEffect
<1> QED BY <1>4, <1>5

\* A drag that ends draws the board or has the piece snap, which will.
LEMMA DropsKeepRest ==
  ASSUME RestInv, UNCHANGED config, NEW location, StopDraggedPiece(location)
  PROVE  CountInv' /\ Settled'
<1>0. RestInv => TypeInv /\ ElementsInv /\ CountInv /\ Settled
  BY DEF RestInv
<1> DEFINE Fx == {"trash", "snap", "snapback"}
<1>1. ASSUME NEW effect \in Fx, EndDrag(effect)
      PROVE  /\ UNCHANGED <<flights, batches>> /\ isDragging' = FALSE
             /\ dragged'.fx \in Seq(Fx) /\ dragged'.fx # <<>>
             /\ effect # "trash" => Snaps'
             /\ \A i \in DOMAIN dragged'.fx :
                  dragged'.fx[i] = effect
                    \/ (i \in DOMAIN dragged.fx /\ dragged'.fx[i] = dragged.fx[i])
  <2>1. dragged'.fx = Append(dragged.fx, effect)
    BY <1>0, <1>1 DEF EndDrag, ElementsInv
  <2>2. dragged.fx \in Seq(Fx)
    BY <1>0 DEF Settled
  <2> HIDE DEF Fx
  <2>3. /\ dragged'.fx \in Seq(Fx) /\ dragged'.fx # <<>>
        /\ Len(dragged.fx) + 1 \in DOMAIN dragged'.fx
        /\ dragged'.fx[Len(dragged.fx) + 1] = effect
    BY <1>1, <2>1, <2>2
  <2>4. UNCHANGED <<flights, batches>> /\ isDragging' = FALSE
    BY <1>1 DEF EndDrag
  <2>5. \A i \in DOMAIN dragged'.fx :
          dragged'.fx[i] = effect
            \/ (i \in DOMAIN dragged.fx /\ dragged'.fx[i] = dragged.fx[i])
    BY <2>1, <2>2
  <2> QED BY <2>3, <2>4, <2>5 DEF Snaps
<1>2. ASSUME TrashDraggedPiece, ~NeverTrashes PROVE CountInv' /\ Settled'
  <2>1. EndDrag("trash") /\ DrawPositionInstant(dom, currentPosition')
    BY <1>2 DEF TrashDraggedPiece
  <2>2. CountInv'
    BY <1>0, <1>1, <2>1, RedrawCounts
  <2>3. ~NeverTrashes'
    BY <1>2 DEF NeverTrashes
  <2>4. Settled'
    BY <1>1, <2>1, <2>3 DEF Settled, DrawPositionInstant
  <2> QED BY <2>2, <2>4
<1>3. ASSUME NEW effect \in {"snap", "snapback"}, EndDrag(effect), UNCHANGED <<dom, orphans>>
      PROVE  CountInv' /\ Settled'
  <2>1. /\ UNCHANGED <<flights, batches>> /\ dragged'.fx \in Seq(Fx) /\ Snaps'
        /\ isDragging' = FALSE /\ dragged'.fx # <<>>
    BY <1>1, <1>3
  <2>2. CountInv'
    BY <1>0, <1>3, <2>1 DEF CountInv
  <2>3. NeverTrashes' => \A i \in DOMAIN dragged'.fx : dragged'.fx[i] # "trash"
    <3>1. NeverTrashes' => NeverTrashes
      BY DEF NeverTrashes
    <3>2. NeverTrashes => \A i \in DOMAIN dragged.fx : dragged.fx[i] # "trash"
      BY <1>0 DEF Settled
    <3>3. \A i \in DOMAIN dragged'.fx :
            dragged'.fx[i] = effect
              \/ (i \in DOMAIN dragged.fx /\ dragged'.fx[i] = dragged.fx[i])
      BY <1>1, <1>3
    <3> QED BY <1>3, <3>1, <3>2, <3>3
  <2> QED BY <2>1, <2>2, <2>3 DEF Settled, Quiet
<1>4. /\ config.onDrop \subseteq {"none", "snapback", "trash"}
      /\ config.dropOffBoard \in {"snapback", "trash"}
      /\ draggedPieceSource = Spare => config.sparePieces
  BY <1>0, ChessboardAssumption DEF TypeInv, TypeOK
<1>5. \/ SnapbackDraggedPiece
      \/ TrashDraggedPiece /\ ~NeverTrashes
      \/ DropDraggedPieceOnSquare(location)
  BY <1>4 DEF StopDraggedPiece, NeverTrashes
<1>6. CASE SnapbackDraggedPiece
  <2>1. CASE draggedPieceSource = Spare
    <3>1. TrashDraggedPiece /\ ~NeverTrashes
      BY <1>4, <1>6, <2>1 DEF SnapbackDraggedPiece, NeverTrashes
    <3> QED BY <1>2, <3>1
  <2>2. CASE draggedPieceSource # Spare
    BY <1>3, <1>6, <2>2 DEF SnapbackDraggedPiece
  <2> QED BY <2>1, <2>2
<1>7. CASE DropDraggedPieceOnSquare(location)
  BY <1>3, <1>7 DEF DropDraggedPieceOnSquare
<1> QED BY <1>2, <1>5, <1>6, <1>7

LEMMA DragsKeepRest ==
  ASSUME RestInv, Drags, UNCHANGED config PROVE CountInv' /\ Settled'
<1>0. RestInv => TypeInv /\ ElementsInv /\ CountInv /\ Settled
  BY DEF RestInv
<1>1. ASSUME NEW source, NEW piece, BeginDraggingPiece(source, piece)
      PROVE  CountInv' /\ Settled'
  <2>1. dragged'.fx = dragged.fx /\ dragged'.shown = TRUE
    BY <1>0, <1>1, BeginKeepsElements
  <2>2. isDragging'
    BY <1>1 DEF BeginDraggingPiece
  <2>3. ~Quiet'
    BY <2>1, <2>2 DEF Quiet
  <2> QED BY <1>0, <1>1, <2>1, <2>2, <2>3, BeginCounts DEF Settled, NeverTrashes
<1>2. ASSUME NEW p \in Points, MousemoveWindow(p) PROVE CountInv' /\ Settled'
  <2>1. UNCHANGED <<config, currentPosition, isDragging, dragged, dom, flights, orphans,
                    batches>>
    BY <1>2 DEF MousemoveWindow, viewVars
  <2> QED BY <1>0, <2>1 DEF CountInv, Settled, Quiet, NeverTrashes, Snaps, AllFinished
<1>3. ASSUME NEW p \in Points, MouseupWindow(p) PROVE CountInv' /\ Settled'
  BY <1>3, DropsKeepRest DEF MouseupWindow
<1> QED BY <1>1, <1>2, <1>3 DEF Drags, MousedownSquare, MousedownSparePiece

LEMMA AnimationsKeepRest ==
  ASSUME RestInv, Animations, UNCHANGED config PROVE CountInv' /\ Settled'
<1>0. RestInv => TypeInv /\ ElementsInv /\ CountInv /\ Settled
  BY DEF RestInv
<1>1. UNCHANGED <<currentPosition, isDragging>>
  BY AnimationsKeepDrag DEF dragVars
<1>2. CASE \E f \in flights : Land(f)
  <2>1. PICK f \in flights : Land(f)
    BY <1>2
  <2>2. UNCHANGED dragged
    BY <2>1 DEF Land, modelVars
  <2> QED BY <1>0, <1>1, <2>1, <2>2, LandCounts, DrawnSettles
<1>3. CASE \E s \in Squares : \E i \in DOMAIN dom[s] : EndFade(s, i)
  <2>0. PICK s \in Squares : \E i \in DOMAIN dom[s] : EndFade(s, i)
    BY <1>3
  <2>1. PICK i \in DOMAIN dom[s] : EndFade(s, i)
    BY <2>0
  <2>2. UNCHANGED dragged
    BY <2>1 DEF EndFade, modelVars
  <2> QED BY <1>0, <1>1, <2>1, <2>2, FadeCounts, DrawnSettles
<1>4. CASE \E b \in DOMAIN batches : EndOrphan(b)
  <2>1. PICK b \in DOMAIN batches : EndOrphan(b)
    BY <1>4
  <2>2. UNCHANGED dragged
    BY <2>1 DEF EndOrphan, modelVars
  <2> QED BY <1>0, <1>1, <2>1, <2>2, OrphanCounts, DrawnSettles
<1>5. CASE EndDraggedEffect
  <2> DEFINE Fx == {"trash", "snap", "snapback"}
  <2>1. /\ dragged.fx \in Seq(Fx) /\ dragged.fx # <<>>
        /\ dragged'.fx = Tail(dragged.fx) /\ dragged'.shown = FALSE
        /\ UNCHANGED <<flights, batches>>
    BY <1>0, <1>5 DEF Settled, EndDraggedEffect
  <2>2. /\ dragged'.fx \in Seq(Fx)
        /\ \A i \in DOMAIN dragged'.fx : \E j \in DOMAIN dragged.fx :
             dragged'.fx[i] = dragged.fx[j]
    <3> HIDE DEF Fx
    <3> DEFINE q == dragged.fx
    <3>1. q \in Seq(Fx) /\ q # <<>> /\ dragged'.fx = Tail(q)
      BY <2>1
    <3> HIDE DEF q
    <3>2. \A i \in DOMAIN Tail(q) : i + 1 \in DOMAIN q /\ Tail(q)[i] = q[i + 1]
      BY <3>1
    <3> QED BY <3>1, <3>2 DEF q
  <2>5. /\ NeverTrashes' = NeverTrashes
        /\ NeverTrashes => \A i \in DOMAIN dragged.fx : dragged.fx[i] # "trash"
        /\ NeverTrashes' => \A i \in DOMAIN dragged'.fx : dragged'.fx[i] # "trash"
    BY <1>0, <2>2 DEF Settled, NeverTrashes
  <2>3. CASE Head(dragged.fx) = "trash" /\ UNCHANGED <<dom, orphans>>
    <3>1. CountInv'
      BY <1>0, <2>1, <2>3 DEF CountInv
    <3>2. Snaps => Snaps'
      <4>1. SUFFICES ASSUME NEW i \in DOMAIN dragged.fx, dragged.fx[i] # "trash"
                     PROVE  Snaps'
        BY DEF Snaps
      <4> DEFINE q == dragged.fx
      <4> HIDE DEF Fx
      <4>2. q \in Seq(Fx) /\ i \in 1..Len(q) /\ Len(q) \in Nat /\ q[1] = Head(q)
        BY <2>1, <4>1
      <4>3. i # 1
        BY <2>3, <4>1, <4>2
      <4>4. i - 1 \in DOMAIN Tail(q) /\ Tail(q)[i - 1] = q[i]
        BY <2>1, <4>2, <4>3
      <4> QED BY <2>1, <4>1, <4>4 DEF Snaps
    <3>3. AllFinished' => AllFinished
      BY <2>1 DEF AllFinished
    <3>4. ~NeverTrashes
      <4> DEFINE q == dragged.fx
      <4> HIDE DEF Fx
      <4>1. q \in Seq(Fx) /\ q # <<>>
        BY <2>1
      <4> HIDE DEF q
      <4>2. 1 \in DOMAIN q /\ q[1] = Head(q)
        BY <4>1
      <4> QED BY <2>3, <2>5, <4>2 DEF q
    <3>5. Quiet' => Quiet
      BY <1>1, <2>5, <3>2, <3>4 DEF Quiet
    <3> QED BY <1>0, <1>1, <2>1, <2>2, <2>3, <2>5, <3>1, <3>3, <3>5 DEF Settled
  <2>4. CASE DrawPositionInstant(dom, currentPosition)
    <3>1. CountInv'
      BY <1>0, <2>1, <2>4, RedrawCounts
    <3> QED BY <1>1, <2>1, <2>2, <2>4, <2>5, <3>1 DEF Settled, DrawPositionInstant
  <2> QED BY <1>5, <2>3, <2>4 DEF EndDraggedEffect
<1> QED BY <1>2, <1>3, <1>4, <1>5 DEF Animations

LEMMA RestStep ==
  ASSUME RestInv, [Next]_vars, [CalledWell]_vars PROVE RestInv'
<1>1. TypeInv' /\ ElementsInv'
  BY TypeStep, ElementsStep DEF RestInv
<1>2. CASE UNCHANGED vars
  BY <1>1, <1>2 DEF vars, viewVars, dragVars, RestInv, CountInv, Settled, Quiet,
      NeverTrashes, Snaps, AllFinished
<1>3. CASE Next /\ CalledWell
  <2>1. CountInv' /\ Settled' /\ Together(flights')
    BY <1>3, CallsKeepRest, DragsKeepRest, AnimationsKeepRest, FlightsStayTogether DEF Next
  <2> QED BY <1>1, <2>1 DEF RestInv
<1> QED BY <1>2, <1>3

LEMMA RestInit == Init => RestInv
<1> SUFFICES ASSUME Init PROVE RestInv
  OBVIOUS
<1>1. TypeInv /\ ElementsInv
  BY TypeInit, ElementsInit
<1>7. Together(flights)
  BY DEF Init, Together
<1>2. dom = Drawn(currentPosition) /\ flights = {} /\ batches = <<>>
      /\ orphans = [b \in 1..MaxBatches |-> 0]
      /\ dragged.fx = <<>> /\ dragged.shown = FALSE
  BY DEF Init
<1>3. Settled
  BY <1>2 DEF Settled
<1>4. IsView(dom, orphans, flights)
  <2>2. \A s \in Squares : \A i \in DOMAIN dom[s] : OneBatch(dom[s][i].fx)
    BY <1>2, NoEffects, DrawnIsStill
  <2>3. orphans \in [1..MaxBatches -> Nat]
    BY <1>2
  <2> QED BY <1>1, <1>2, <2>2, <2>3, FS_EmptySet DEF IsView, ElementsInv
<1>5. IsBatches(batches)
  <2> DEFINE S == [length : Nat, numFinished : Nat]
  <2> HIDE DEF S
  <2>1. <<>> \in Seq(S) /\ Len(<<>>) <= MaxBatches
    BY ChessboardAssumption
  <2> QED BY <1>2, <2>1 DEF IsBatches, S
<1>6. ASSUME NEW b \in 1..MaxBatches
      PROVE  CountedBatch(dom, orphans, flights, batches, b)
  <2>1. Flying(flights, b) = {} /\ orphans[b] = 0
    BY <1>2 DEF Flying
  <2>2. Cardinality(Running(dom, Squares, b)) = 0
    <3>1. \A s \in Squares : \A i : ~Runs(dom, s, i, b)
      BY <1>2, DrawnIsStill DEF Runs
    <3> QED BY <3>1, NothingRuns
  <2>3. Remaining(batches, b) = 0
    BY <1>2 DEF Remaining
  <2>4. Pending(dom, orphans, flights, b) = 0
    BY <2>1, <2>2, FS_EmptySet DEF Pending
  <2> QED BY <2>1, <2>3, <2>4 DEF CountedBatch
<1> QED BY <1>1, <1>3, <1>4, <1>5, <1>6, <1>7 DEF RestInv, CountInv, Counted

\* What is drawn is seen.
LEMMA DrawnShows ==
  ASSUME dom = Drawn(currentPosition) PROVE Shows(currentPosition)
<1> SUFFICES ASSUME NEW s \in Squares
             PROVE  IF s \in DOMAIN currentPosition
                    THEN \E i \in DOMAIN dom[s] : Seen(s) = {i} /\ dom[s][i].piece = currentPosition[s]
                    ELSE Seen(s) = {}
  BY DEF Shows
<1>1. CASE s \in DOMAIN currentPosition
  <2> DEFINE e == Element(currentPosition[s], TRUE)
  <2>1. dom[s] = <<e>> /\ e.shown = TRUE /\ e.piece = currentPosition[s]
    BY <1>1 DEF Drawn, Element
  <2> HIDE DEF e
  <2>2. DOMAIN dom[s] = {1} /\ dom[s][1] = e
    BY <2>1
  <2>3. Seen(s) = {1}
    BY <2>1, <2>2 DEF Seen
  <2> QED BY <1>1, <2>1, <2>2, <2>3
<1>2. CASE s \notin DOMAIN currentPosition
  <2>1. dom[s] = <<>>
    BY <1>2 DEF Drawn
  <2> QED BY <1>2, <2>1 DEF Seen
<1> QED BY <1>1, <1>2

LEMMA RestShows == RestInv => RestShowsPosition /\ DraggedPieceIsSeen
<1> SUFFICES ASSUME RestInv PROVE RestShowsPosition /\ DraggedPieceIsSeen
  OBVIOUS
<1>1. ASSUME AtRest PROVE Shows(currentPosition) /\ ~dragged.shown
  <2>1. BoardStands /\ ~isDragging /\ dragged.fx = <<>>
    BY <1>1 DEF AtRest
  <2>2. Quiet
    BY <2>1 DEF Quiet, Snaps
  <2>3. ~dragged.shown
    BY <2>1 DEF RestInv, Settled
  <2> QED BY <2>1, <2>2, <2>3, RestIsDrawn, DrawnShows
<1>2. ASSUME isDragging, BoardStands, NeverTrashes, ~dragged.shown
      PROVE  Shows(currentPosition)
  <2>1. Quiet
    BY <1>2 DEF Quiet
  <2> QED BY <1>2, <2>1, RestIsDrawn, DrawnShows
<1> QED BY <1>1, <1>2 DEF RestShowsPosition, DraggedPieceIsSeen

\* doAnimations and the callbacks (956-1048), with drags in between (1279-1317)
\* and their snaps back (1187-1277), and with calls of the page at any time, a
\* redraw of the squares (1122-1141) while pieces are on their way to them
\* included: once nothing moves any more the board shows the position, each piece
\* once, and none is left at the mouse, if what each change of position fades has
\* landed.
THEOREM RestShowsWhatLanded ==
  Spec /\ [][FadesWhatLanded]_vars => []RestShowsPosition
<1>1. Init => RestInv
  BY RestInit
<1>2. RestInv /\ [Next]_vars /\ [FadesWhatLanded]_vars => RestInv'
  BY RestStep DEF CalledWell
<1> QED BY <1>1, <1>2, RestShows, PTL DEF Spec

\* The same for a page that steps through a game as fast as its user clicks, made
\* and taken back one move at a time: whatever is still on its way, a piece that
\* moves again is taken from where it is.
THEOREM RestShowsOneMoveAtATime ==
  Spec /\ [][OneMoveAtATime]_vars => []RestShowsPosition
<1>1. Init => RestInv
  BY RestInit
<1>2. RestInv /\ [Next]_vars /\ [OneMoveAtATime]_vars => RestInv'
  BY RestStep DEF CalledWell
<1> QED BY <1>1, <1>2, RestShows, PTL DEF Spec

\* A second drag begins while the first still snaps, and its end hides what is
\* dragged now (snapbackDraggedPiece, 1198-1200, dropDraggedPieceOnSquare,
\* 1258-1260): while the board stands the piece is then on the board, whatever
\* the page called between and whatever it calls next.
THEOREM DraggedPiecesAreSeen ==
  Spec /\ [][FadesWhatLanded \/ OneMoveAtATime]_vars => []DraggedPieceIsSeen
<1>1. Init => RestInv
  BY RestInit
<1>2. RestInv /\ [Next]_vars /\ [FadesWhatLanded \/ OneMoveAtATime]_vars => RestInv'
  BY RestStep DEF CalledWell
<1> QED BY <1>1, <1>2, RestShows, PTL DEF Spec
=============================================================================
