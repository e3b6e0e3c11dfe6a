----------------------------- MODULE Chessboard -----------------------------
(***************************************************************************)
(* The chessboard widget (chessboard-1.0.0.js): the position it keeps, the *)
(* elements it shows, the animations that lead from one position to the    *)
(* next, and the piece dragged with the mouse or a finger.                 *)
(*                                                                         *)
(* The script runs one handler at a time; what is concurrent are the       *)
(* animations, whose callbacks come later and in any order (their speeds   *)
(* are configured, and greater than 0).  Elements and their effect queues  *)
(* are jQuery's, modelled from how the script uses them: an element runs   *)
(* the effects of its queue one after the other; one that is removed loses *)
(* its queue, but the effect that runs still calls back.                   *)
(***************************************************************************)
EXTENDS ChessPosition

CONSTANTS
    START_POSITION,
    Targets,          \* positions callers pass to position()
    MoveLists,        \* lists of moves callers pass to move()
    Widths,           \* widths the container may have
    Points,           \* where the mouse may be, as <<x, y>>
    Configs,          \* configurations the widget may be given
    NoPiece,          \* null
    MaxBatches,       \* bound: animated position changes
    MaxQueue          \* bound: effects queued on the dragged piece

ASSUME ChessboardAssumption ==
    /\ Configs \subseteq
         [draggable : BOOLEAN, sparePieces : BOOLEAN,
          dropOffBoard : {"snapback", "trash"},
          onDrop : SUBSET {"none", "snapback", "trash"}]
    /\ \A c \in Configs : c.sparePieces => c.draggable    \* expandConfig
    /\ MaxBatches \in Nat /\ MaxQueue \in Nat /\ NoPiece \notin Pieces
    /\ START_POSITION \in Positions /\ Targets \subseteq Positions
    /\ MoveLists \subseteq Seq(Squares \X Squares)
    /\ Widths \subseteq Nat /\ Points \subseteq Nat \X Nat

VARIABLES
    config,            \* with, in onDrop, the results of the callback ({"none"}
                       \* if not given)
    currentPosition, currentOrientation, squareSize,
    isDragging, draggedPiece, draggedPieceSource, draggedPieceLocation,
    squareElsOffsets,  \* left and top of each square when the drag began
    dom,               \* per square: its piece elements, with their effects
    flights,           \* elements on their way to a square
    orphans,           \* per batch: effects running on removed elements
    batches,           \* calls of doAnimations: animations.length, numFinished
    dragged            \* $draggedPiece: is it shown, and its effects

dragVars == <<isDragging, draggedPiece, draggedPieceSource,
              draggedPieceLocation, squareElsOffsets>>
viewVars == <<dom, flights, orphans, batches>>
vars == <<config, currentPosition, currentOrientation, squareSize, dragVars,
          viewVars, dragged>>

OffBoard == <<0, 0>>
Spare == <<0, 1>>

-----------------------------------------------------------------------------
(* Geometry *)

\* The largest size whose squares fit, one pixel being padding.
CalculateSquareSize(width) == IF width = 0 THEN 0 ELSE (width - 1) \div Files

\* Left and top of a square: buildBoardHTML lists columns and rows the other
\* way around for black.
OffsetOf(s, orientation, size) ==
    IF orientation = "white"
    THEN <<(s[1] - 1) * size, (Ranks - s[2]) * size>>
    ELSE <<(Files - s[1]) * size, (s[2] - 1) * size>>

Offsets == [s \in Squares |-> OffsetOf(s, currentOrientation, squareSize)]

\* The squares at a point, by given offsets and the current square size.
SquaresAt(offsets, p) ==
    {s \in Squares :
        /\ p[1] >= offsets[s][1] /\ p[1] < offsets[s][1] + squareSize
        /\ p[2] >= offsets[s][2] /\ p[2] < offsets[s][2] + squareSize}

\* The first of them, column by column; captured squares may overlap when the
\* size has changed since.
SquareAt(offsets, p) ==
    LET S == SquaresAt(offsets, p)
    IN  IF S = {} THEN OffBoard
        ELSE CHOOSE s \in S :
                \A t \in S : s[1] < t[1] \/ (s[1] = t[1] /\ s[2] <= t[2])

IsXYOnSquare(p) == SquareAt(squareElsOffsets, p)

-----------------------------------------------------------------------------
(* Elements *)

\* A piece element without effects.
Element(piece, shown) == [piece |-> piece, shown |-> shown, fx |-> <<>>]

\* The elements of a square draw a position.
Drawn(pos) ==
    [s \in Squares |-> IF s \in DOMAIN pos THEN <<Element(pos[s], TRUE)>> ELSE <<>>]

\* The running effects of batch b on the elements of the squares S: those at
\* the heads of the queues.
Running(board, S, b) ==
    {e \in UNION {{s} \X DOMAIN board[s] : s \in S} :
        /\ board[e[1]][e[2]].fx # <<>>
        /\ Head(board[e[1]][e[2]].fx).batch = b}

\* The elements of the squares S are removed from board.
Orphaned(left, board, S) ==
    [b \in 1..MaxBatches |-> left[b] + Cardinality(Running(board, S, b))]

DrawPositionInstant(board, pos) ==
    dom' = Drawn(pos) /\ orphans' = Orphaned(orphans, board, Squares)

\* drawBoard: the squares are new elements as well, and what is under way
\* lands on squares that are no longer on the page.
DrawBoard ==
    /\ DrawPositionInstant(dom, currentPosition)
    /\ flights' = {[f EXCEPT !.onPage = FALSE] : f \in flights}
    /\ UNCHANGED <<batches, currentPosition, dragVars, dragged>>

\* elements.fadeIn and .fadeOut: queued on each of them.  A fade in shows its
\* element when it starts.
Fade(elements, kind, b) ==
    [i \in DOMAIN elements |->
        [elements[i] EXCEPT
            !.shown = @ \/ (kind = "in" /\ elements[i].fx = <<>>),
            !.fx = Append(@, [kind |-> kind, batch |-> b])]]

-----------------------------------------------------------------------------
(* Animations *)

Flight(piece, dest, spare, b) ==
    [piece |-> piece, dest |-> dest, spare |-> spare, onPage |-> TRUE, batch |-> b]

\* doAnimations(plan) as batch b, on the way from currentPosition to pos:
\* moves first, then adds, then clears.
DoAnimations(plan, pos, b) ==
    LET sources == {m[1] : m \in plan.moves}
        fadeIns == IF config.sparePieces THEN {} ELSE plan.adds
        moved == [s \in Squares |-> IF s \in sources THEN <<>> ELSE dom[s]]
        added == [s \in Squares |->
                    IF s \in fadeIns
                    THEN Fade(Append(moved[s], Element(pos[s], FALSE)), "in", b)
                    ELSE moved[s]]
    IN  /\ dom' = [s \in Squares |->
                    IF s \in plan.clears THEN Fade(added[s], "out", b) ELSE added[s]]
        /\ orphans' = Orphaned(orphans, dom, sources)
        /\ flights' = flights
                \union {Flight(pos[m[2]], m[2], FALSE, b) : m \in plan.moves}
                \union {Flight(pos[s], s, TRUE, b) : s \in plan.adds \ fadeIns}
        /\ batches' = Append(batches, [length |-> AnimationCount(plan), numFinished |-> 0])

\* Mutant: the board is not redrawn at the end.
OnFinishWithoutRedraw(b, board, left) ==
    /\ batches' = [batches EXCEPT ![b].numFinished = @ + 1]
    /\ dom' = board /\ orphans' = left

\* Mutant: the counter is compared before it is incremented.
OnFinishOffByOne(b, board, left) ==
    /\ batches' = [batches EXCEPT ![b].numFinished = @ + 1]
    /\ IF batches[b].numFinished = batches[b].length
       THEN dom' = Drawn(currentPosition) /\ orphans' = Orphaned(left, board, Squares)
       ELSE dom' = board /\ orphans' = left

\* onFinishAnimation3 of batch b, called when the elements are board and the
\* effects on removed ones are left.
OnFinishAnimation(b, board, left) ==
    /\ batches' = [batches EXCEPT ![b].numFinished = @ + 1]
    /\ IF batches'[b].numFinished = batches[b].length
       THEN dom' = Drawn(currentPosition) /\ orphans' = Orphaned(left, board, Squares)
       ELSE dom' = board /\ orphans' = left

modelVars == <<currentPosition, currentOrientation, squareSize, dragVars, dragged>>

\* onFinishAnimation1 and, from a spare piece, onFinishAnimation2, which first
\* removes what is on the square.
Land(f) ==
    LET removed == IF f.spare /\ f.onPage THEN {f.dest} ELSE {}
        there == IF removed = {} THEN dom[f.dest] ELSE <<>>
        board == IF f.onPage
                 THEN [dom EXCEPT ![f.dest] = Append(there, Element(f.piece, TRUE))]
                 ELSE dom
    IN  /\ flights' = flights \ {f}
        /\ OnFinishAnimation(f.batch, board, Orphaned(orphans, dom, removed))
        /\ UNCHANGED modelVars

\* The fade of element i of square s ends.  The next in its queue starts after
\* the callback, unless that removes the element.
EndFade(s, i) ==
    /\ dom[s][i].fx # <<>>
    /\ LET fade == Head(dom[s][i].fx)
           last == batches[fade.batch].numFinished + 1 = batches[fade.batch].length
           rest == IF last THEN <<>> ELSE Tail(dom[s][i].fx)
           board == [dom EXCEPT
                        ![s][i].shown = \/ @ /\ fade.kind = "in"
                                        \/ rest # <<>> /\ Head(rest).kind = "in",
                        ![s][i].fx = rest]
       IN  OnFinishAnimation(fade.batch, board, orphans)
    /\ UNCHANGED <<flights, modelVars>>

\* The same for an element that is no longer on the page.
EndOrphan(b) ==
    /\ orphans[b] > 0
    /\ OnFinishAnimation(b, dom, [orphans EXCEPT ![b] = @ - 1])
    /\ UNCHANGED <<flights, modelVars>>

-----------------------------------------------------------------------------
(* Calls of the page *)

\* widget.position: what differs from currentPosition is animated, and the
\* position is set at once.
Position(pos, useAnimation) ==
    /\ currentPosition' = pos
    /\ \/ /\ ~useAnimation
          /\ DrawPositionInstant(dom, pos)
          /\ UNCHANGED <<flights, batches>>
       \/ /\ useAnimation /\ pos # currentPosition /\ Len(batches) < MaxBatches
          /\ \E plan \in CalculateAnimations(currentPosition, pos) :
                DoAnimations(plan, pos, Len(batches) + 1)
       \/ /\ useAnimation /\ pos = currentPosition
          /\ UNCHANGED viewVars
    /\ UNCHANGED <<currentOrientation, squareSize, dragVars, dragged>>

Move(moves, useAnimation) ==
    Position(CalculatePositionFromMoves(currentPosition, moves), useAnimation)

Start(useAnimation) == Position(START_POSITION, useAnimation)

EmptyPosition == [s \in {} |-> NoPiece]
Clear(useAnimation) == Position(EmptyPosition, useAnimation)

\* widget.orientation with a colour, and widget.flip.
Orientation(colour) ==
    /\ currentOrientation' = colour
    /\ DrawBoard
    /\ UNCHANGED squareSize

Resize(width) ==
    /\ squareSize' = CalculateSquareSize(width)
    /\ DrawBoard
    /\ UNCHANGED currentOrientation

PageCalls ==
    \/ \E animate \in BOOLEAN :
        \/ \E pos \in Targets : Position(pos, animate)
        \/ \E moves \in MoveLists : Move(moves, animate)
        \/ Start(animate) \/ Clear(animate)
    \/ \E colour \in {"white", "black"} : Orientation(colour)
    \/ \E width \in Widths : Resize(width)

-----------------------------------------------------------------------------
(* The dragged piece *)

\* Mutant: a second finger does not change the source.
BeginDraggingKeepsSource(source, piece) ==
    /\ Len(dragged.fx) < MaxQueue
    /\ isDragging' = TRUE
    /\ draggedPiece' = piece /\ draggedPieceSource' = (IF isDragging THEN draggedPieceSource ELSE source)
    /\ draggedPieceLocation' = IF source = Spare THEN OffBoard ELSE source
    /\ squareElsOffsets' = Offsets
    /\ dragged' = [dragged EXCEPT !.shown = TRUE]
    /\ dom' = [s \in Squares |->
                IF s = source
                THEN [i \in DOMAIN dom[s] |-> [dom[s][i] EXCEPT !.shown = FALSE]]
                ELSE dom[s]]
    /\ UNCHANGED <<currentPosition, currentOrientation, squareSize,
                   flights, orphans, batches>>

\* beginDraggingPiece.  A second finger may start a drag during another.
BeginDraggingPiece(source, piece) ==
    /\ Len(dragged.fx) < MaxQueue
    /\ isDragging' = TRUE
    /\ draggedPiece' = piece /\ draggedPieceSource' = source
    /\ draggedPieceLocation' = IF source = Spare THEN OffBoard ELSE source
    /\ squareElsOffsets' = Offsets
    /\ dragged' = [dragged EXCEPT !.shown = TRUE]
    /\ dom' = [s \in Squares |->
                IF s = source
                THEN [i \in DOMAIN dom[s] |-> [dom[s][i] EXCEPT !.shown = FALSE]]
                ELSE dom[s]]
    /\ UNCHANGED <<currentPosition, currentOrientation, squareSize,
                   flights, orphans, batches>>

\* mousedownSquare, touchstartSquare.
MousedownSquare(s) ==
    /\ config.draggable /\ s \in DOMAIN currentPosition
    /\ BeginDraggingPiece(s, currentPosition[s])

\* mousedownSparePiece, touchstartSparePiece.
MousedownSparePiece(piece) ==
    config.sparePieces /\ BeginDraggingPiece(Spare, piece)

\* mousemoveWindow, touchmoveWindow and updateDraggedPiece.
MousemoveWindow(p) ==
    /\ isDragging
    /\ draggedPieceLocation' = IsXYOnSquare(p)
    /\ UNCHANGED <<currentPosition, currentOrientation, squareSize, isDragging,
                   draggedPiece, draggedPieceSource, squareElsOffsets, viewVars,
                   dragged>>

\* The drag ends, the dragged piece is animated to where it belongs.
EndDrag(effect) ==
    /\ isDragging' = FALSE
    /\ dragged' = [dragged EXCEPT !.fx = Append(@, effect)]
    /\ UNCHANGED <<draggedPiece, draggedPieceSource, draggedPieceLocation,
                   squareElsOffsets, currentOrientation, squareSize, flights, batches>>

TrashDraggedPiece ==
    /\ currentPosition' = Without(currentPosition, {draggedPieceSource})
    /\ DrawPositionInstant(dom, currentPosition')
    /\ EndDrag("trash")

SnapbackDraggedPiece ==
    IF draggedPieceSource = Spare THEN TrashDraggedPiece
    ELSE EndDrag("snapback") /\ UNCHANGED <<currentPosition, dom, orphans>>

DropDraggedPieceOnSquare(s) ==
    /\ currentPosition' =
        With(Without(currentPosition, {draggedPieceSource}), s, draggedPiece)
    /\ EndDrag("snap")
    /\ UNCHANGED <<dom, orphans>>

\* Mutant: off the board is not looked at.
StopDraggedPieceAnywhere(location) ==
    \E result \in config.onDrop :
        LET action == IF result # "none" THEN result
                      ELSE "drop"
        IN  CASE action = "snapback" -> SnapbackDraggedPiece
              [] action = "trash" -> TrashDraggedPiece
              [] action = "drop" -> DropDraggedPieceOnSquare(location)

StopDraggedPiece(location) ==
    \E result \in config.onDrop :
        LET action == IF result # "none" THEN result
                      ELSE IF location = OffBoard THEN config.dropOffBoard ELSE "drop"
        IN  CASE action = "snapback" -> SnapbackDraggedPiece
              [] action = "trash" -> TrashDraggedPiece
              [] action = "drop" -> DropDraggedPieceOnSquare(location)

\* mouseupWindow, touchendWindow.
MouseupWindow(p) == isDragging /\ StopDraggedPiece(IsXYOnSquare(p))

\* Mutant: the board is not redrawn.
EndDraggedEffectOnly ==
    /\ dragged.fx # <<>>
    /\ dragged' = [shown |-> FALSE, fx |-> Tail(dragged.fx)]
    /\ UNCHANGED <<currentPosition, currentOrientation, squareSize, dragVars,
                   viewVars>>

\* Mutant: the dragged piece is not hidden.
EndDraggedEffectStaysShown ==
    /\ dragged.fx # <<>>
    /\ dragged' = [dragged EXCEPT !.fx = Tail(@)]
    /\ IF Head(dragged.fx) = "trash" THEN UNCHANGED <<dom, orphans>>
       ELSE DrawPositionInstant(dom, currentPosition)
    /\ UNCHANGED <<currentPosition, currentOrientation, squareSize, dragVars,
                   flights, batches>>

\* The animation of the dragged piece that runs ends: complete of
\* snapbackDraggedPiece, onAnimationComplete of dropDraggedPieceOnSquare.
EndDraggedEffect ==
    /\ dragged.fx # <<>>
    /\ dragged' = [shown |-> FALSE, fx |-> Tail(dragged.fx)]
    /\ IF Head(dragged.fx) = "trash" THEN UNCHANGED <<dom, orphans>>
       ELSE DrawPositionInstant(dom, currentPosition)
    /\ UNCHANGED <<currentPosition, currentOrientation, squareSize, dragVars,
                   flights, batches>>

-----------------------------------------------------------------------------
Init ==
    /\ config \in Configs
    /\ currentPosition = START_POSITION /\ currentOrientation \in {"white", "black"}
    /\ \E width \in Widths : squareSize = CalculateSquareSize(width)
    /\ isDragging = FALSE /\ draggedPiece = NoPiece
    /\ draggedPieceSource = OffBoard /\ draggedPieceLocation = OffBoard
    /\ squareElsOffsets = [s \in Squares |-> OffBoard]
    /\ dom = Drawn(currentPosition) /\ flights = {}
    /\ orphans = [b \in 1..MaxBatches |-> 0] /\ batches = <<>>
    /\ dragged = [shown |-> FALSE, fx |-> <<>>]

Drags ==
    \/ \E s \in Squares : MousedownSquare(s)
    \/ \E piece \in Pieces : MousedownSparePiece(piece)
    \/ \E p \in Points : MousemoveWindow(p) \/ MouseupWindow(p)

Animations ==
    \/ \E f \in flights : Land(f)
    \/ \E s \in Squares : \E i \in DOMAIN dom[s] : EndFade(s, i)
    \/ \E b \in DOMAIN batches : EndOrphan(b)
    \/ EndDraggedEffect

Next == (PageCalls \/ Drags \/ Animations) /\ UNCHANGED config

Spec == Init /\ [][Next]_vars

\* The browser goes on with animations; nothing else has to happen.
Fairness == WF_vars(Animations /\ UNCHANGED config)

-----------------------------------------------------------------------------
TypeOK ==
    /\ config \in Configs
    /\ currentPosition \in Positions
    /\ currentOrientation \in {"white", "black"} /\ squareSize \in Nat
    /\ isDragging \in BOOLEAN /\ draggedPiece \in Pieces \union {NoPiece}
    /\ draggedPieceSource \in Squares \union {OffBoard, Spare}
    /\ draggedPieceLocation \in Squares \union {OffBoard}
    /\ squareElsOffsets \in [Squares -> Nat \X Nat]

\* What one sees on a square.
Seen(s) == {i \in DOMAIN dom[s] : dom[s][i].shown}

Shows(pos) ==
    \A s \in Squares :
        IF s \in DOMAIN pos
        THEN \E i \in DOMAIN dom[s] : Seen(s) = {i} /\ dom[s][i].piece = pos[s]
        ELSE Seen(s) = {}

\* No animation of the board is under way, and no drag either.
BoardStands ==
    /\ flights = {}
    /\ \A b \in 1..MaxBatches : orphans[b] = 0 /\ Running(dom, Squares, b) = {}

AtRest == BoardStands /\ ~isDragging /\ dragged.fx = <<>>

\* Once nothing moves any more the board shows the position, each piece once,
\* and none is left at the mouse, whatever calls came while earlier animations
\* ran or a piece was dragged.  It is said of changes that fade what has landed,
\* see FadesWhatLanded: the callbacks of others are too few or too many.
RestShowsPosition == AtRest => Shows(currentPosition) /\ ~dragged.shown

\* A position is shown in the end, unless another replaces it: no animation is
\* lost that its redraw waits for.
PositionIsShown ==
    \A pos \in Targets :
        currentPosition = pos ~> (Shows(pos) \/ currentPosition # pos)

\* Where nothing is trashed.
NeverTrashes ==
    /\ config.dropOffBoard = "snapback" /\ "trash" \notin config.onDrop
    /\ ~config.sparePieces    \* their snapback is one

\* While a piece is dragged, and the board stands, it is seen: at the mouse, or
\* with all others on the board.  The end of an earlier drag's snap hides it at
\* the mouse (1200, 1260), but then it is drawn on the board, where the begin of
\* the drag (1311-1315) had hidden it, whatever the page has changed, turned or
\* resized since.  (The end of a fade to the trash, 1239, hides it as well and
\* draws nothing: there it is not seen until it is dropped.)
DraggedPieceIsSeen ==
    isDragging /\ BoardStands /\ NeverTrashes =>
        dragged.shown \/ Shows(currentPosition)

\* The piece that is dragged stands on the square it was taken from.
DraggedPieceIsReal ==
    isDragging /\ draggedPieceSource # Spare =>
        /\ draggedPieceSource \in DOMAIN currentPosition
        /\ currentPosition[draggedPieceSource] = draggedPiece

\* Only the page parts the dragged piece from its square, by another position.
OnlyThePageParts ==
    DraggedPieceIsReal /\ ~DraggedPieceIsReal' =>
        currentPosition' # currentPosition /\ UNCHANGED dragVars

\* A drop makes no piece, but the one that was taken from the spare pieces.
DropMakesNoPiece ==
    isDragging /\ ~isDragging' /\ DraggedPieceIsReal =>
        \A piece \in Pieces :
            PieceCount(currentPosition', piece)
                <= PieceCount(currentPosition, piece)
                     + (IF draggedPieceSource = Spare /\ piece = draggedPiece
                        THEN 1 ELSE 0)

\* From the begin of a drag to the drop, the piece and the square remembered
\* part in one way only: the page changes the position meanwhile.  No second
\* finger, callback, turn or resize parts them; and as long as they have not
\* parted a drop makes no piece, on whatever square it ends.
DragsKeepPieces == [][OnlyThePageParts /\ DropMakesNoPiece]_vars

-----------------------------------------------------------------------------
(* Conditions on the changes of position that a page asks for *)

\* Squares a piece fades in on, and those a move leaves.
FadeIns(plan) == IF config.sparePieces THEN {} ELSE plan.adds
Sources(plan) == {m[1] : m \in plan.moves}

\* The elements of a square that the moves of a plan leave there.
Stays(plan, s) == IF s \in Sources(plan) THEN <<>> ELSE dom[s]

Still(elements) == \A i \in DOMAIN elements : elements[i].fx = <<>>

\* Something sets out for a square.
Departs(plan) == plan.moves # {} \/ plan.adds \ FadeIns(plan) # {}

\* What is to fade has landed and stands still.  If something else sets out as
\* well, one element fades on each square, and once.
FadesLanded(plan) ==
    /\ \A s \in FadeIns(plan) \union plan.clears : Still(Stays(plan, s))
    /\ \A s \in plan.clears : Stays(plan, s) # <<>>
    /\ Departs(plan) =>
        /\ \A s \in plan.clears : s \notin FadeIns(plan) /\ Len(Stays(plan, s)) = 1
        /\ \A s \in FadeIns(plan) : Stays(plan, s) = <<>>

\* The elements a change of position fades have landed, and fade once each if
\* others move, whatever was called before.
FadesWhatLanded ==
    Len(batches') # Len(batches) =>
        \A plan \in CalculateAnimations(currentPosition, currentPosition') :
            FadesLanded(plan)

=============================================================================
