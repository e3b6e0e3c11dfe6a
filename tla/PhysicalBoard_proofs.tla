------------------------ MODULE PhysicalBoard_proofs ------------------------
(***************************************************************************)
(* The machine keeps track of the pieces, for every Pins and U8.           *)
(***************************************************************************)
EXTENDS PhysicalBoard, BoardFsm_proofs

\* What is in the air and what has arrived, state by state.
LEMMA Hands ==
    ASSUME NEW c \in Color, NEW w \in Wing, NEW m, NEW k
    PROVE  /\ InAir(St(c, "turn"), m, k) = {}
           /\ InAir(St(c, "move"), m, k) = {m}
           /\ InAir(St(c, "capture"), m, k) = {m, k}
           /\ InAir(St(c, "enemy_capture"), m, k) = {k}
           /\ InAir(St(c, "castling"), m, k) = {KingStart(c)}
           /\ InAir(WingSt(c, "kingdown", w), m, k) = {KingStart(c)}
           /\ InAir(WingSt(c, "KINGUP_ROOKUP", w), m, k) = {KingStart(c), RookStart(c, w)}
           /\ InAir(WingSt(c, "kingdown_ROOKUP", w), m, k) = {KingStart(c), RookStart(c, w)}
           /\ InAir(WingSt(c, "KINGUP_rookdown", w), m, k) = {KingStart(c), RookStart(c, w)}
           /\ \A ph \in Phase : Arrived(St(c, ph)) = {}
           /\ Arrived(WingSt(c, "KINGUP_ROOKUP", w)) = {}
           /\ Arrived(WingSt(c, "kingdown", w)) = {KingCastle(c, w)}
           /\ Arrived(WingSt(c, "kingdown_ROOKUP", w)) = {KingCastle(c, w)}
           /\ Arrived(WingSt(c, "KINGUP_rookdown", w)) = {RookCastle(c, w)}
<1>1. \A ph \in WingPhase \ {"kingdown"} :
        InAir(WingSt(c, ph, w), m, k) = {KingStart(c), RookStart(c, w)}
  BY DEF InAir, WingSt, WingPhase
<1>2. \A ph \in Phase : Arrived(St(c, ph)) = {}
  BY DEF Arrived, St, Phase
<1>. QED BY <1>1, <1>2 DEF InAir, Arrived, St, WingSt, WingPhase

LEMMA CompleteMoveOccupied ==
    ASSUME TypeOK, NEW c \in Color, NEW from \in Square, NEW pin \in Square,
           from # pin, board[from] # Empty, CompleteMove(c, from, pin)
    PROVE  Occupied(board') = (Occupied(board) \ {from}) \union {pin}
<1>1. /\ Relocate(from, pin)[from] = Empty /\ Relocate(from, pin)[pin] = board[from]
      /\ \A s \in Square \ {from, pin} : Relocate(from, pin)[s] = board[s]
      /\ Relocate(from, pin) \in [Square -> Piece \union {Empty}]
  BY DEF Relocate, TypeOK
<1>2. board' = HandlePromotion(c, Relocate(from, pin), pin)
  BY DEF CompleteMove
<1>3. /\ board'[from] = Empty /\ board'[pin] # Empty
      /\ \A s \in Square \ {from, pin} : board'[s] = board[s]
  BY <1>1, <1>2, PieceFacts DEF HandlePromotion
<1>. QED BY <1>3 DEF Occupied

LEMMA CaptureOccupied ==
    ASSUME TypeOK, NEW c \in Color, NEW pin \in Square, x # y,
           board[x] # Empty, board' = HandlePromotion(c, CaptureBoard(pin), pin),
           \/ IsEnPassant(pin) /\ pin \notin {x, y}
           \/ ~IsEnPassant(pin) /\ pin = y
    PROVE  Occupied(board') = (Occupied(board) \ {x, y}) \union {pin}
<1>1. /\ CaptureBoard(pin)[x] = Empty /\ CaptureBoard(pin)[pin] = board[x]
      /\ pin # y => CaptureBoard(pin)[y] = Empty
      /\ \A s \in Square \ {x, y, pin} : CaptureBoard(pin)[s] = board[s]
      /\ CaptureBoard(pin) \in [Square -> Piece \union {Empty}]
  BY PieceFacts DEF CaptureBoard, Relocate, TypeOK
<1>2. /\ board'[x] = Empty /\ board'[pin] # Empty
      /\ pin # y => board'[y] = Empty
      /\ \A s \in Square \ {x, y, pin} : board'[s] = board[s]
  BY <1>1, PieceFacts DEF HandlePromotion, TypeOK
<1>. QED BY <1>2 DEF Occupied, TypeOK

LEMMA EndCastlingOccupied ==
    ASSUME TypeOK, NEW c \in Color, NEW w \in Wing, EndCastling(c, w)
    PROVE  Occupied(board') = (Occupied(board) \ {KingStart(c), RookStart(c, w)})
                                  \union {KingCastle(c, w), RookCastle(c, w)}
<1>1. /\ board'[KingStart(c)] = Empty /\ board'[RookStart(c, w)] = Empty
      /\ board'[KingCastle(c, w)] = King(c) /\ board'[RookCastle(c, w)] = Rook(c)
      /\ \A s \in Square \ {KingStart(c), RookStart(c, w), KingCastle(c, w),
                            RookCastle(c, w)} : board'[s] = board[s]
  BY SquareFacts DEF EndCastling, TypeOK
<1>2. King(c) # Empty /\ Rook(c) # Empty
  BY PieceFacts
<1>. QED BY <1>1, <1>2, SquareFacts DEF Occupied

\* An event of the closed board: a piece leaves or arrives.
SensedAt(pin, is_up) ==
    IF is_up THEN pin \in occ /\ occ' = occ \ {pin}
             ELSE pin \notin occ /\ occ' = occ \union {pin}

LEMMA TurnTracks ==
    ASSUME Inv, NEW c \in Color, NEW pin \in Square, NEW is_up \in BOOLEAN,
           occ = Expected, SensedAt(pin, is_up), is_started' = TRUE,
           TurnRun(c, pin, is_up)
    PROVE  Current' = Error \/ occ' = Expected'
<1>1. occ = Occupied(board) /\ board' = board
  BY Hands DEF TurnRun, Expected, Phase, Wing, gameVars
<1>2. CASE ctx' = Error
  BY <1>2 DEF Current
<1>3. CASE is_up /\ CanCastle(c, pin) /\ ctx' = St(c, "castling")
  <2>1. pin = KingStart(c)
    BY <1>3 DEF Inv, KingHome, CanCastle
  <2>2. Expected' = Occupied(board) \ {KingStart(c)}
    BY <1>1, <1>3, Hands DEF Expected, Current, Phase, Wing
  <2>. QED BY <1>1, <1>3, <2>1, <2>2 DEF SensedAt
<1>4. CASE is_up /\ x' = pin /\ ctx' = St(c, "move")
  <2>1. Expected' = Occupied(board) \ {pin}
    BY <1>1, <1>4, Hands DEF Expected, Current, Phase, Wing
  <2>. QED BY <1>1, <1>4, <2>1 DEF SensedAt
<1>5. CASE is_up /\ y' = pin /\ ctx' = St(c, "enemy_capture")
  <2>1. Expected' = Occupied(board) \ {pin}
    BY <1>1, <1>5, Hands DEF Expected, Current, Phase, Wing
  <2>. QED BY <1>1, <1>5, <2>1 DEF SensedAt
<1>. QED BY <1>2, <1>3, <1>4, <1>5 DEF TurnRun, SetState

LEMMA MoveTracks ==
    ASSUME Inv, NEW c \in Color, NEW pin \in Square, NEW is_up \in BOOLEAN,
           occ = Expected, SensedAt(pin, is_up), is_started' = TRUE,
           MoveRun(c, pin, is_up)
    PROVE  Current' = Error \/ occ' = Expected'
<1>1. occ = Occupied(board) \ {x}
  BY Hands DEF MoveRun, Expected, Phase, Wing
<1>2. board[x] \in PieceOf(c) /\ board[x] # Empty /\ x \in Occupied(board)
  BY PieceFacts DEF MoveRun, Inv, HeldPieces, IsOwn, TypeOK, Occupied
<1>3. CASE ctx' = Error
  BY <1>3 DEF Current
<1>4. CASE ~is_up /\ pin = x
  <2>1. ctx' = St(c, "turn") /\ board' = board
    BY <1>4 DEF MoveRun, SetState, gameVars
  <2>2. Expected' = Occupied(board)
    BY <2>1, Hands DEF Expected, Current, Phase, Wing
  <2>. QED BY <1>1, <1>2, <1>4, <2>2 DEF SensedAt
<1>5. CASE ~is_up /\ pin # x
  <2>1. CompleteMove(c, x, pin)
    BY <1>5 DEF MoveRun
  <2>2. Occupied(board') = (Occupied(board) \ {x}) \union {pin}
    BY <1>2, <1>5, <2>1, CompleteMoveOccupied DEF Inv, TypeOK
  <2>3. ctx' = St(Other(c), "turn") /\ Other(c) \in Color
    BY <2>1, PieceFacts DEF CompleteMove, SetState
  <2>4. Expected' = Occupied(board')
    BY <2>3, Hands DEF Expected, Current, Phase, Wing
  <2>. QED BY <1>1, <1>5, <2>2, <2>4 DEF SensedAt
<1>6. CASE is_up /\ IsEnemy(c, pin)
  <2>1. ctx' = St(c, "capture") /\ y' = pin /\ x' = x /\ board' = board
    BY <1>2, <1>6, PieceFacts DEF MoveRun, SetState, gameVars
  <2>2. Expected' = Occupied(board) \ {x, pin}
    BY <2>1, Hands DEF Expected, Current, Phase, Wing
  <2>. QED BY <1>1, <1>6, <2>2 DEF SensedAt
<1>. QED BY <1>3, <1>4, <1>5, <1>6 DEF MoveRun, SetState

LEMMA CaptureTracks ==
    ASSUME Inv, NEW c \in Color, NEW pin \in Square, NEW is_up \in BOOLEAN,
           occ = Expected, SensedAt(pin, is_up), is_started' = TRUE,
           CaptureRun(c, pin, is_up), ~Derails(pin, is_up)
    PROVE  Current' = Error \/ occ' = Expected'
<1>1. Current = St(c, "capture")
  BY DEF CaptureRun
<1>2. occ = Occupied(board) \ {x, y}
  BY <1>1, Hands DEF Expected, Phase, Wing
<1>3. board[x] \in PieceOf(c) /\ board[y] \in PieceOf(Other(c))
  BY <1>1 DEF Inv, HeldPieces, IsOwn, IsEnemy
<1>4. x # y /\ board[x] # Empty
  BY <1>3, PieceFacts
<1>5. CASE ~is_up /\ (pin = y \/ IsEnPassant(pin))
  <2>1. IsEnPassant(pin) => pin \notin {x, y}
    BY <1>1, <1>5 DEF Derails
  <2>2. /\ board' = HandlePromotion(c, CaptureBoard(pin), pin)
        /\ ctx' = St(Other(c), "turn") /\ Other(c) \in Color
    BY <1>5, PieceFacts DEF CaptureRun, SetState
  <2>3. Occupied(board') = (Occupied(board) \ {x, y}) \union {pin}
    BY <1>4, <1>5, <2>1, <2>2, CaptureOccupied DEF Inv
  <2>4. Expected' = Occupied(board')
    BY <2>2, Hands DEF Expected, Current, Phase, Wing
  <2>. QED BY <1>2, <1>5, <2>3, <2>4 DEF SensedAt
<1>6. CASE is_up \/ ~(pin = y \/ IsEnPassant(pin))
  <2>1. c # "white"
    BY <1>1, <1>6 DEF Derails
  <2>. QED BY <1>6, <2>1 DEF CaptureRun, AbortCapture, Current
<1>. QED BY <1>5, <1>6

LEMMA EnemyCaptureTracks ==
    ASSUME Inv, NEW c \in Color, NEW pin \in Square, NEW is_up \in BOOLEAN,
           occ = Expected, SensedAt(pin, is_up), is_started' = TRUE,
           EnemyCaptureRun(c, pin, is_up)
    PROVE  Current' = Error \/ occ' = Expected'
<1>1. occ = Occupied(board) \ {y} /\ board' = board /\ y' = y
  BY Hands DEF EnemyCaptureRun, Expected, Phase, Wing, gameVars
<1>2. y \in Occupied(board)
  BY PieceFacts DEF EnemyCaptureRun, Inv, HeldPieces, IsEnemy, TypeOK, Occupied
<1>3. CASE ctx' = Error
  BY <1>3 DEF Current
<1>4. CASE is_up /\ x' = pin /\ ctx' = St(c, "capture")
  <2>1. Expected' = Occupied(board) \ {pin, y}
    BY <1>1, <1>4, Hands DEF Expected, Current, Phase, Wing
  <2>. QED BY <1>1, <1>4, <2>1 DEF SensedAt
<1>5. CASE ~is_up /\ pin = y /\ ctx' = St(c, "turn")
  <2>1. Expected' = Occupied(board)
    BY <1>1, <1>5, Hands DEF Expected, Current, Phase, Wing
  <2>. QED BY <1>1, <1>2, <1>5, <2>1 DEF SensedAt
<1>. QED BY <1>3, <1>4, <1>5 DEF EnemyCaptureRun, SetState

LEMMA CastlingTracks ==
    ASSUME Inv, NEW c \in Color, NEW pin \in Square, NEW is_up \in BOOLEAN,
           occ = Expected, SensedAt(pin, is_up), is_started' = TRUE,
           CastlingRun(c, pin, is_up)
    PROVE  Current' = Error \/ occ' = Expected'
<1>1. occ = Occupied(board) \ {KingStart(c)}
  BY Hands DEF CastlingRun, Expected, Phase, Wing
<1>2. /\ board[KingStart(c)] # Empty /\ KingStart(c) \in Occupied(board)
      /\ KingStart(c) \in Square
  BY PieceFacts, SquareFacts
     DEF CastlingRun, Inv, HeldPieces, CanCastle, TypeOK, Occupied, Wing
<1>3. CASE ctx' = Error
  BY <1>3 DEF Current
<1>4. CASE ~is_up /\ pin = KingStart(c) /\ ctx' = St(c, "turn") /\ board' = board
  <2>1. Expected' = Occupied(board)
    BY <1>4, Hands DEF Expected, Current, Phase, Wing
  <2>. QED BY <1>1, <1>2, <1>4, <2>1 DEF SensedAt
<1>5. ASSUME NEW w \in CastleWing(c, pin), ~is_up, ctx' = WingSt(c, "kingdown", w),
             board' = board
      PROVE  occ' = Expected'
  <2>1. w \in Wing /\ pin = KingCastle(c, w)
    BY DEF CastleWing
  <2>2. Expected' = (Occupied(board) \ {KingStart(c)}) \union {pin}
    BY <1>5, <2>1, Hands DEF Expected, Current
  <2>. QED BY <1>1, <1>5, <2>2 DEF SensedAt
<1>6. CASE ~is_up /\ pin # KingStart(c) /\ CompleteMove(c, KingStart(c), pin)
  <2>1. Occupied(board') = (Occupied(board) \ {KingStart(c)}) \union {pin}
    BY <1>2, <1>6, CompleteMoveOccupied DEF Inv
  <2>2. ctx' = St(Other(c), "turn") /\ Other(c) \in Color
    BY <1>6, PieceFacts DEF CompleteMove, SetState
  <2>3. Expected' = Occupied(board')
    BY <2>2, Hands DEF Expected, Current, Phase, Wing
  <2>. QED BY <1>1, <1>6, <2>1, <2>3 DEF SensedAt
<1>7. ASSUME NEW w \in RookWing(c, pin), is_up, ctx' = WingSt(c, "KINGUP_ROOKUP", w),
             board' = board
      PROVE  occ' = Expected'
  <2>1. w \in Wing /\ pin = RookStart(c, w)
    BY DEF RookWing
  <2>2. Expected' = Occupied(board) \ {KingStart(c), pin}
    BY <1>7, <2>1, Hands DEF Expected, Current
  <2>. QED BY <1>1, <1>7, <2>2 DEF SensedAt
<1>8. CASE is_up /\ ctx' = St(c, "capture") /\ y' = pin /\ x' = KingStart(c) /\ board' = board
  <2>1. Expected' = Occupied(board) \ {KingStart(c), pin}
    BY <1>8, Hands DEF Expected, Current, Phase, Wing
  <2>. QED BY <1>1, <1>8, <2>1 DEF SensedAt
\* A piece was lifted, so the square was not empty.
<1>9. ~(is_up /\ board[pin] = Empty)
  BY <1>1 DEF SensedAt, Occupied
<1>. QED BY <1>3, <1>4, <1>5, <1>6, <1>7, <1>8, <1>9
        DEF CastlingRun, SetState, gameVars, CastleWing

LEMMA WingTracks ==
    ASSUME Inv, NEW c \in Color, NEW w \in Wing, NEW pin \in Square,
           NEW is_up \in BOOLEAN, occ = Expected, SensedAt(pin, is_up),
           is_started' = TRUE, WingRun(c, w, pin, is_up)
    PROVE  Current' = Error \/ occ' = Expected'
<1>. DEFINE Start == {KingStart(c), RookStart(c, w)}
<1>1. CASE ctx' = Error
  BY <1>1 DEF Current
<1>2. CASE EndCastling(c, w)
  <2>1. Occupied(board') = (Occupied(board) \ Start)
                              \union {KingCastle(c, w), RookCastle(c, w)}
    BY <1>2, EndCastlingOccupied DEF Inv
  <2>2. ctx' = St(Other(c), "turn") /\ Other(c) \in Color
    BY <1>2, PieceFacts DEF EndCastling, SetState
  <2>3. Expected' = Occupied(board')
    BY <2>2, Hands DEF Expected, Current, Phase
  <2>4. CASE KingdownRookupRun(c, w, pin, is_up) /\ ~is_up /\ pin = RookCastle(c, w)
    <3>1. occ = (Occupied(board) \ Start) \union {KingCastle(c, w)}
      BY <2>4, Hands DEF KingdownRookupRun, Expected
    <3>. QED BY <2>1, <2>3, <2>4, <3>1 DEF SensedAt
  <2>5. CASE KingupRookdownRun(c, w, pin, is_up) /\ ~is_up /\ pin = KingCastle(c, w)
    <3>1. occ = (Occupied(board) \ Start) \union {RookCastle(c, w)}
      BY <2>5, Hands DEF KingupRookdownRun, Expected
    <3>. QED BY <2>1, <2>3, <2>5, <3>1 DEF SensedAt
  <2>6. ctx' # Error
    BY <2>2 DEF St, Error
  <2>7. \A ph \in WingPhase : ctx' # WingSt(c, ph, w)
    BY <2>2 DEF St, WingSt, WingPhase
  <2>. QED BY <2>4, <2>5, <2>6, <2>7
          DEF WingRun, KingdownRun, KingdownRookupRun, KingupRookupRun,
              KingupRookdownRun, SetState, WingPhase
<1>3. CASE KingdownRun(c, w, pin, is_up) /\ ctx' # Error
  <2>1. /\ is_up /\ pin = RookStart(c, w) /\ ctx' = WingSt(c, "kingdown_ROOKUP", w)
        /\ board' = board
    BY <1>3 DEF KingdownRun, SetState, gameVars
  <2>2. occ = (Occupied(board) \ {KingStart(c)}) \union {KingCastle(c, w)}
    BY <1>3, Hands DEF KingdownRun, Expected
  <2>3. Expected' = (Occupied(board) \ Start) \union {KingCastle(c, w)}
    BY <2>1, Hands DEF Expected, Current
  <2>. QED BY <2>1, <2>2, <2>3, SquareFacts DEF SensedAt
<1>4. CASE KingupRookupRun(c, w, pin, is_up) /\ ctx' # Error
  <2>1. occ = Occupied(board) \ Start /\ board' = board /\ ~is_up
    BY <1>4, Hands DEF KingupRookupRun, Expected, SetState, gameVars
  <2>2. CASE pin = KingCastle(c, w) /\ ctx' = WingSt(c, "kingdown_ROOKUP", w)
    <3>1. Expected' = (Occupied(board) \ Start) \union {pin}
      BY <2>1, <2>2, Hands DEF Expected, Current
    <3>. QED BY <2>1, <2>2, <3>1 DEF SensedAt
  <2>3. CASE pin = RookCastle(c, w) /\ ctx' = WingSt(c, "KINGUP_rookdown", w)
    <3>1. Expected' = (Occupied(board) \ Start) \union {pin}
      BY <2>1, <2>3, Hands DEF Expected, Current
    <3>. QED BY <2>1, <2>3, <3>1 DEF SensedAt
  <2>. QED BY <1>4, <2>2, <2>3 DEF KingupRookupRun, SetState
<1>. QED BY <1>1, <1>2, <1>3, <1>4
        DEF WingRun, KingdownRookupRun, KingupRookdownRun, SetState

-----------------------------------------------------------------------------
(* The invariant: a machine that ignores events is in error, so that no     *)
(* event is ignored while pieces move and the machine seems to be on track. *)

TerminatedInError == is_started /\ terminated => ctx = Error

PhysInv == Inv /\ TerminatedInError /\ OccupancyTracked

LEMMA PhysNextIsNext == [PhysNext]_physVars => [Next]_vars
BY DEF PhysNext, physVars, Next, NewGame, Lift, Put, Sense

LEMMA SenseTracks ==
    ASSUME PhysInv, NEW pin \in Square, NEW is_up \in BOOLEAN,
           Sense(pin, is_up), SensedAt(pin, is_up)
    PROVE  TerminatedInError' /\ OccupancyTracked'
<1>. /\ PinChange(pin, is_up) /\ is_started' = TRUE /\ Inv
  BY DEF Sense, PinChange, PhysInv
<1>1. CASE Run(pin, is_up) /\ terminated' = FALSE
  <2>1. TerminatedInError'
    BY <1>1 DEF TerminatedInError
  <2>2. ASSUME tracked' PROVE Current' = Error \/ occ' = Expected'
    <3>1. tracked /\ ~Derails(pin, is_up)
      BY <2>2 DEF Sense
    <3>2. PICK c \in Color :
            \/ TurnRun(c, pin, is_up)
            \/ MoveRun(c, pin, is_up)
            \/ CaptureRun(c, pin, is_up)
            \/ EnemyCaptureRun(c, pin, is_up)
            \/ CastlingRun(c, pin, is_up)
            \/ \E w \in Wing : WingRun(c, w, pin, is_up)
      BY <1>1 DEF Run
    <3>3. Current # Error
      <4>1. \/ \E ph \in Phase : Current = St(c, ph)
            \/ \E ph \in WingPhase, w \in Wing : Current = WingSt(c, ph, w)
        BY <3>2, Zenon DEF TurnRun, MoveRun, CaptureRun, EnemyCaptureRun, CastlingRun,
                  WingRun, KingdownRun, KingdownRookupRun, KingupRookupRun,
                  KingupRookdownRun, Phase, WingPhase
      <4>. QED BY <4>1 DEF St, WingSt, Error, Phase, WingPhase
    <3>4. occ = Expected
      BY <3>1, <3>3 DEF PhysInv, OccupancyTracked
    <3>. QED BY <3>1, <3>2, <3>4, TurnTracks, MoveTracks, CaptureTracks,
                EnemyCaptureTracks, CastlingTracks, WingTracks
  <2>. QED BY <2>1, <2>2 DEF OccupancyTracked
<1>2. CASE ErrorRun
  BY <1>2 DEF ErrorRun, Current, St, Error, TerminatedInError, OccupancyTracked
<1>3. CASE is_started /\ terminated /\ UNCHANGED <<ctx, terminated>>
  BY <1>3 DEF PhysInv, TerminatedInError, OccupancyTracked, Current
<1>. QED BY <1>1, <1>2, <1>3 DEF PinChange

LEMMA PhysInitInv == PhysInit => PhysInv
<1>. SUFFICES ASSUME PhysInit PROVE PhysInv
  OBVIOUS
<1>1. Inv /\ TerminatedInError
  BY InitInv DEF PhysInit, Init, TerminatedInError
<1>2. Current = St("white", "turn") /\ board = starting_board_initializer
  BY DEF PhysInit, Init, Current
<1>3. OccupancyTracked
  BY <1>2, Hands DEF PhysInit, OccupancyTracked, Expected, Color, Wing, Phase
<1>. QED BY <1>1, <1>3 DEF PhysInv

LEMMA PhysNextInv == PhysInv /\ [PhysNext]_physVars => PhysInv'
<1>. SUFFICES ASSUME PhysInv, [PhysNext]_physVars PROVE PhysInv'
  OBVIOUS
<1>1. Inv'
  BY PhysNextIsNext, NextInv DEF PhysInv
<1>2. CASE NewGame
  <2>1. Current' = St("white", "turn") /\ board' = starting_board_initializer
    BY <1>2 DEF NewGame, Reset, Current
  <2>2. Expected' = Occupied(starting_board_initializer)
    BY <2>1, Hands DEF Expected, Color, Wing, Phase
  <2>3. OccupancyTracked' /\ TerminatedInError'
    BY <1>2, <2>2 DEF NewGame, Reset, OccupancyTracked, TerminatedInError
  <2>. QED BY <1>1, <2>3 DEF PhysInv
<1>3. ASSUME NEW pin \in Pins, Lift(pin) \/ Put(pin)
      PROVE  PhysInv'
  <2>. pin \in Square
    BY PinsAssumption DEF Square
  <2>1. PICK is_up \in BOOLEAN : Sense(pin, is_up) /\ SensedAt(pin, is_up)
    BY <1>3 DEF Lift, Put, SensedAt
  <2>. QED BY <1>1, <2>1, SenseTracks DEF PhysInv
<1>4. CASE UNCHANGED physVars
  BY <1>1, <1>4 DEF physVars, vars, gameVars, PhysInv, TerminatedInError,
                    OccupancyTracked, Expected, Current
<1>. QED BY <1>2, <1>3, <1>4 DEF PhysNext

\* Whatever the players do, the machine is in error, has derailed in one of the
\* named ways, or remembers exactly the squares on which pieces stand.
THEOREM OccupancyIsTracked == PhysSpec => []OccupancyTracked
<1>1. PhysInv => OccupancyTracked
  BY DEF PhysInv
<1>. QED BY <1>1, PhysInitInv, PhysNextInv, PTL DEF PhysSpec

=============================================================================
