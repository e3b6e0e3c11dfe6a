-------------------------- MODULE BoardFsm_proofs --------------------------
(***************************************************************************)
(* Proofs about BoardFsm, for every set of squares Pins and every U8.      *)
(***************************************************************************)
EXTENDS BoardFsm, FiniteSetTheorems, TLAPS

LEMMA PieceFacts ==
    ASSUME NEW c \in Color
    PROVE  /\ Other(c) \in Color /\ Other(c) # c
           /\ {King(c), Rook(c), Pawn(c), Queen(c)} \subseteq PieceOf(c)
           /\ PieceOf(c) \subseteq Piece
           /\ PieceOf(c) \cap PieceOf(Other(c)) = {}
           /\ Empty \notin Piece
           /\ Rook(c) # King(c) /\ Queen(c) # King(c) /\ Pawn(c) # King(c)
           /\ Rook(c) # Pawn(c)
BY DEF Color, Other, King, Rook, Pawn, Queen, PieceOf, Piece, WhitePiece,
       BlackPiece, Empty

LEMMA SquareFacts ==
    ASSUME NEW c \in Color, NEW w \in Wing
    PROVE  /\ {KingStart(c), RookStart(c, w), KingCastle(c, w), RookCastle(c, w)}
                 \subseteq Square
           /\ KingStart(c) # RookStart(c, w)
           /\ KingStart(c) # KingCastle(c, w) /\ KingStart(c) # RookCastle(c, w)
           /\ RookStart(c, w) # KingCastle(c, w) /\ RookStart(c, w) # RookCastle(c, w)
           /\ KingCastle(c, w) # RookCastle(c, w)
BY DEF Color, Wing, KingStart, RookStart, KingCastle, RookCastle, HomeRow, Square

LEMMA StartingBoardType ==
    starting_board_initializer \in [Square -> Piece \union {Empty}]
<1>1. ASSUME NEW s \in Square
      PROVE  starting_board_initializer[s] \in Piece \union {Empty}
  BY <1>1 DEF starting_board_initializer, Square, Piece, WhitePiece, BlackPiece,
              BackRank, WhiteBackRank
<1>. QED BY <1>1 DEF starting_board_initializer

LEMMA StateFacts ==
    ASSUME NEW c \in Color, NEW w \in Wing
    PROVE  /\ \A ph \in Phase : St(c, ph) \in States
           /\ \A ph \in WingPhase : WingSt(c, ph, w) \in States
           /\ Error \in States
BY DEF States, St, WingSt, Error

-----------------------------------------------------------------------------
(* Type correctness *)

LEMMA CompleteMoveType ==
    ASSUME TypeOK, NEW c \in Color, NEW from \in Square, NEW pin \in Square,
           CompleteMove(c, from, pin)
    PROVE  /\ ctx' \in States /\ state_val' \in States
           /\ board' \in [Square -> Piece \union {Empty}]
           /\ ply' \in 0..(U8 - 1) /\ ply_since_ponr' \in 0..(U8 - 1)
           /\ en_passant' \in BOOLEAN /\ en_passant_square' \in 0..255
           /\ rights' \in [Color -> [Wing -> BOOLEAN]]
           /\ shell_obj' \in MoveRecord
<1>. USE U8Assumption
<1>1. ctx' \in States /\ state_val' \in States
  BY PieceFacts DEF CompleteMove, SetState, States, St, Phase
<1>2. board' \in [Square -> Piece \union {Empty}]
  BY PieceFacts DEF CompleteMove, HandlePromotion, Relocate, TypeOK
<1>3. ply' \in 0..(U8 - 1) /\ ply_since_ponr' \in 0..(U8 - 1)
  BY DEF CompleteMove, HandlePonr, TypeOK
<1>4. en_passant' \in BOOLEAN /\ en_passant_square' \in 0..255
  <2>1. CASE board[from] = Pawn(c)
    <3>1. (pin - from = (IF c = "white" THEN -16 ELSE 16)) \in BOOLEAN
      BY Zenon
    <3>2. en_passant' \in BOOLEAN
      BY <2>1, <3>1, Zenon DEF CompleteMove, CheckEnPassant
    <3>3. en_passant_square' \in 0..255
      BY <2>1 DEF CompleteMove, CheckEnPassant, Square
    <3>. QED BY <3>2, <3>3
  <2>2. CASE board[from] # Pawn(c)
    BY <2>2 DEF CompleteMove, CheckEnPassant, TypeOK
  <2>. QED BY <2>1, <2>2
<1>5. rights' \in [Color -> [Wing -> BOOLEAN]]
  BY DEF CompleteMove, CheckCastling, TypeOK
<1>6. shell_obj' \in MoveRecord
  BY <1>2, <1>3 DEF CompleteMove, SendMove, MoveRecord
<1>. QED BY <1>1, <1>2, <1>3, <1>4, <1>5, <1>6

LEMMA CaptureType ==
    ASSUME TypeOK, NEW c \in Color, NEW pin \in Square, NEW is_up \in BOOLEAN,
           CaptureRun(c, pin, is_up)
    PROVE  /\ ctx' \in States /\ state_val' \in States
           /\ board' \in [Square -> Piece \union {Empty}]
           /\ ply' \in 0..(U8 - 1) /\ ply_since_ponr' \in 0..(U8 - 1)
           /\ en_passant' \in BOOLEAN /\ en_passant_square' \in 0..255
           /\ rights' \in [Color -> [Wing -> BOOLEAN]]
           /\ shell_obj' \in MoveRecord
           /\ x' \in Square /\ y' \in Square
<1>. USE U8Assumption
<1>1. CASE ~is_up /\ (pin = y \/ IsEnPassant(pin))
  <2>1. board' = HandlePromotion(c, CaptureBoard(pin), pin)
    BY <1>1 DEF CaptureRun
  <2>2. board' \in [Square -> Piece \union {Empty}]
    BY <2>1, PieceFacts DEF CaptureBoard, HandlePromotion, Relocate, TypeOK
  <2>3. ply' \in 0..(U8 - 1) /\ ply_since_ponr' \in 0..(U8 - 1)
    BY <1>1 DEF CaptureRun, TypeOK
  <2>4. rights' \in [Color -> [Wing -> BOOLEAN]]
    <3>1. CheckCastling(c, CaptureBoard(pin)[pin], x)
      BY <1>1 DEF CaptureRun
    <3>. QED BY <3>1 DEF CheckCastling, TypeOK
  <2>5. shell_obj' \in MoveRecord
    BY <1>1, <2>2, <2>3 DEF CaptureRun, SendMove, MoveRecord, TypeOK
  <2>6. ctx' \in States /\ state_val' \in States
    BY <1>1, PieceFacts DEF CaptureRun, SetState, States, St, Phase
  <2>. QED BY <1>1, <2>2, <2>3, <2>4, <2>5, <2>6 DEF CaptureRun, TypeOK
<1>2. CASE is_up \/ ~(pin = y \/ IsEnPassant(pin))
  <2>1. ctx' \in States /\ state_val' \in States
    BY <1>2 DEF CaptureRun, AbortCapture, States, St, Error, Color, Phase
  <2>. QED BY <1>2, <2>1 DEF CaptureRun, gameVars, TypeOK
<1>. QED BY <1>1, <1>2

LEMMA EndCastlingType ==
    ASSUME TypeOK, NEW c \in Color, NEW w \in Wing, EndCastling(c, w)
    PROVE  /\ ctx' \in States /\ state_val' \in States
           /\ board' \in [Square -> Piece \union {Empty}]
           /\ ply' \in 0..(U8 - 1) /\ ply_since_ponr' \in 0..(U8 - 1)
           /\ en_passant' \in BOOLEAN /\ en_passant_square' \in 0..255
           /\ rights' \in [Color -> [Wing -> BOOLEAN]]
           /\ shell_obj' \in MoveRecord
<1>. USE U8Assumption
<1>1. ctx' \in States /\ state_val' \in States
  BY PieceFacts DEF EndCastling, SetState, States, St, Phase
<1>2. board' \in [Square -> Piece \union {Empty}]
  BY PieceFacts, SquareFacts DEF EndCastling, TypeOK
<1>3. ply' \in 0..(U8 - 1)
  BY DEF EndCastling, TypeOK
<1>4. rights' \in [Color -> [Wing -> BOOLEAN]]
  BY DEF EndCastling, TypeOK
<1>5. shell_obj' \in MoveRecord
  BY <1>3, SquareFacts, PieceFacts
     DEF EndCastling, SendMoveCastle, MoveRecord, Rook, Color
<1>. QED BY <1>1, <1>2, <1>3, <1>4, <1>5 DEF EndCastling, TypeOK

LEMMA RunType ==
    ASSUME TypeOK, NEW pin \in Square, NEW is_up \in BOOLEAN, NEW c \in Color,
           \/ TurnRun(c, pin, is_up)
           \/ MoveRun(c, pin, is_up)
           \/ CaptureRun(c, pin, is_up)
           \/ EnemyCaptureRun(c, pin, is_up)
           \/ CastlingRun(c, pin, is_up)
           \/ \E w \in Wing : WingRun(c, w, pin, is_up),
           is_started' \in BOOLEAN, terminated' \in BOOLEAN
    PROVE  TypeOK'
<1>1. CASE TurnRun(c, pin, is_up)
  BY <1>1, StateFacts DEF TurnRun, SetState, gameVars, TypeOK, Phase, Wing
<1>2. CASE MoveRun(c, pin, is_up)
  <2>1. CASE ~is_up /\ pin # x
    BY <1>2, <2>1, CompleteMoveType DEF MoveRun, TypeOK
  <2>2. CASE is_up \/ pin = x
    BY <1>2, <2>2, StateFacts DEF MoveRun, SetState, gameVars, TypeOK, Phase, Wing
  <2>. QED BY <2>1, <2>2
<1>3. CASE CaptureRun(c, pin, is_up)
  BY <1>3, CaptureType DEF TypeOK
<1>4. CASE EnemyCaptureRun(c, pin, is_up)
  BY <1>4, StateFacts DEF EnemyCaptureRun, SetState, gameVars, TypeOK, Phase, Wing
<1>5. CASE CastlingRun(c, pin, is_up)
  <2>. KingStart(c) \in Square
    BY SquareFacts DEF Wing
  <2>1. CASE ~is_up /\ pin # KingStart(c) /\ CastleWing(c, pin) = {}
    BY <1>5, <2>1, CompleteMoveType DEF CastlingRun, TypeOK
  <2>2. CASE ~(~is_up /\ pin # KingStart(c) /\ CastleWing(c, pin) = {})
    BY <1>5, <2>2, StateFacts
       DEF CastlingRun, SetState, gameVars, TypeOK, Phase, WingPhase, Wing,
           CastleWing, RookWing
  <2>. QED BY <2>1, <2>2
<1>6. ASSUME NEW w \in Wing, WingRun(c, w, pin, is_up)
      PROVE  TypeOK'
  <2>1. CASE KingdownRun(c, w, pin, is_up)
    BY <1>6, <2>1, StateFacts
       DEF WingRun, KingdownRun, SetState, gameVars, TypeOK, WingPhase
  <2>2. CASE KingupRookupRun(c, w, pin, is_up)
    BY <1>6, <2>2, StateFacts
       DEF WingRun, KingupRookupRun, SetState, gameVars, TypeOK, WingPhase
  <2>3. CASE EndCastling(c, w)
    BY <1>6, <2>3, EndCastlingType DEF WingRun, TypeOK
  <2>4. CASE SetState(Error) /\ UNCHANGED gameVars
    BY <1>6, <2>4, StateFacts DEF WingRun, SetState, gameVars, TypeOK
  <2>. QED BY <1>6, <2>1, <2>2, <2>3, <2>4
              DEF WingRun, KingdownRookupRun, KingupRookdownRun
<1>. QED BY <1>1, <1>2, <1>3, <1>4, <1>5, <1>6

LEMMA FreshGameType ==
    /\ St("white", "turn") \in States
    /\ [c \in Color |-> [w \in Wing |-> TRUE]] \in [Color -> [Wing -> BOOLEAN]]
    /\ 0 \in Square /\ 0 \in 0..255 /\ 0 \in 0..(U8 - 1)
<1>1. St("white", "turn") \in States
  BY DEF St, States, Color, Phase
<1>2. 0 \in Square /\ 0 \in 0..255 /\ 0 \in 0..(U8 - 1)
  BY U8Assumption DEF Square
<1>. QED BY <1>1, <1>2

LEMMA InitType == Init => TypeOK
<1>1. ZeroRecord \in MoveRecord
  BY FreshGameType DEF ZeroRecord, MoveRecord, Nul
<1>. QED BY <1>1, FreshGameType, StartingBoardType DEF Init, TypeOK

LEMMA NextType == TypeOK /\ [Next]_vars => TypeOK'
<1>. SUFFICES ASSUME TypeOK, [Next]_vars PROVE TypeOK'
  OBVIOUS
<1>1. CASE Reset
  BY <1>1, FreshGameType, StartingBoardType DEF Reset, TypeOK
<1>2. ASSUME NEW pin \in Pins, NEW is_up \in BOOLEAN, PinChange(pin, is_up)
      PROVE  TypeOK'
  <2>. pin \in Square
    BY PinsAssumption DEF Square
  <2>1. CASE Run(pin, is_up) /\ terminated' = FALSE
    BY <1>2, <2>1, RunType DEF PinChange, Run
  <2>2. CASE ErrorRun
    BY <1>2, <2>2 DEF PinChange, ErrorRun, gameVars, TypeOK
  <2>3. CASE UNCHANGED <<ctx, terminated, state_val, x, y, gameVars>>
    BY <1>2, <2>3 DEF PinChange, gameVars, TypeOK
  <2>. QED BY <1>2, <2>1, <2>2, <2>3 DEF PinChange
<1>3. CASE UNCHANGED vars
  BY <1>3 DEF vars, gameVars, TypeOK
<1>. QED BY <1>1, <1>2, <1>3 DEF Next

\* Type correctness: every variable keeps to its C type, whatever events come.
THEOREM TypeCorrect == Spec => []TypeOK
BY InitType, NextType, PTL DEF Spec

-----------------------------------------------------------------------------
(* KingHome and HeldPieces, proved together: a king keeps its home because  *)
(* the piece a handler moves is one of the side to move (HeldPieces), and   *)
(* a castling king is at home because its right is alive (KingHome).        *)

Inv == TypeOK /\ KingHome /\ HeldPieces

LEMMA HeldNothing ==
    ASSUME is_started' = TRUE, NEW d \in Color, ctx' \in {St(d, "turn"), Error}
    PROVE  HeldPieces'
BY DEF HeldPieces, Current, St, WingSt, Error, WingPhase

LEMMA KingHomeKept ==
    ASSUME KingHome, UNCHANGED <<board, rights>>
    PROVE  KingHome'
BY DEF KingHome

\* Whatever stands where after a step that moves no king but at most removes
\* pieces, or moves a king and ends its colour's rights, kings stay at home.
LEMMA KingHomeStep ==
    ASSUME TypeOK, KingHome, NEW c \in Color,
           rights' \in [Color -> [Wing -> BOOLEAN]],
           \A w \in Wing : rights'[Other(c)][w] = rights[Other(c)][w],
           \A s \in Square : board'[s] = King(Other(c)) => board[s] = King(Other(c)),
           \/ /\ \A s \in Square : board'[s] = King(c) => board[s] = King(c)
              /\ \A w \in Wing : rights'[c][w] => rights[c][w]
           \/ /\ \A s, t \in Square : board'[s] = King(c) /\ board'[t] = King(c) => s = t
              /\ \A w \in Wing : ~rights'[c][w]
    PROVE  KingHome'
<1>1. ASSUME NEW d \in Color, NEW s \in Square, board'[s] = King(d)
      PROVE  /\ (\E w \in Wing : rights'[d][w]) => s = KingStart(d)
             /\ \A t \in Square : board'[t] = King(d) => t = s
  <2>1. CASE d = c
    BY <1>1, <2>1 DEF KingHome
  <2>2. CASE d = Other(c)
    BY <1>1, <2>2 DEF KingHome
  <2>. QED BY <2>1, <2>2 DEF Color, Other
<1>. QED BY <1>1 DEF KingHome

LEMMA RightsStep ==
    ASSUME TypeOK, NEW c \in Color, NEW piece, NEW from, CheckCastling(c, piece, from)
    PROVE  /\ rights' \in [Color -> [Wing -> BOOLEAN]]
           /\ \A w \in Wing : rights'[Other(c)][w] = rights[Other(c)][w]
           /\ \A w \in Wing : rights'[c][w] => rights[c][w]
           /\ piece = King(c) => \A w \in Wing : ~rights'[c][w]
BY PieceFacts DEF CheckCastling, TypeOK

LEMMA CompleteMoveKingHome ==
    ASSUME TypeOK, KingHome, NEW c \in Color, NEW from \in Square, NEW pin \in Square,
           from # pin, board[from] \in PieceOf(c), CompleteMove(c, from, pin)
    PROVE  KingHome'
<1>. /\ Other(c) \in Color /\ King(Other(c)) \in PieceOf(Other(c))
     /\ PieceOf(c) \cap PieceOf(Other(c)) = {} /\ King(c) \in PieceOf(c)
     /\ Queen(c) \in PieceOf(c) /\ Queen(c) # King(c) /\ Pawn(c) # King(c)
     /\ PieceOf(c) \subseteq Piece /\ PieceOf(Other(c)) \subseteq Piece
     /\ Empty \notin Piece
  BY PieceFacts
<1>1. /\ board' = HandlePromotion(c, Relocate(from, pin), pin)
      /\ CheckCastling(c, board[from], from)
  BY DEF CompleteMove
<1>2. /\ board'[from] = Empty
      /\ board'[pin] = board[from] \/ (board[from] = Pawn(c) /\ board'[pin] = Queen(c))
      /\ \A s \in Square \ {from, pin} : board'[s] = board[s]
  BY <1>1 DEF HandlePromotion, Relocate, TypeOK
<1>3. \A s \in Square : board'[s] = King(Other(c)) => board[s] = King(Other(c))
  BY <1>2
<1>4. CASE board[from] = King(c)
  <2>1. \A s, t \in Square : board'[s] = King(c) /\ board'[t] = King(c) => s = t
    BY <1>2, <1>4 DEF KingHome
  <2>. QED BY <1>1, <1>3, <1>4, <2>1, RightsStep, KingHomeStep
<1>5. CASE board[from] # King(c)
  <2>1. \A s \in Square : board'[s] = King(c) => board[s] = King(c)
    BY <1>2, <1>5
  <2>. QED BY <1>1, <1>3, <2>1, RightsStep, KingHomeStep
<1>. QED BY <1>4, <1>5

LEMMA CaptureKingHome ==
    ASSUME TypeOK, KingHome, NEW c \in Color, NEW pin \in Square,
           board[x] \in PieceOf(c),
           board' = HandlePromotion(c, CaptureBoard(pin), pin),
           CheckCastling(c, CaptureBoard(pin)[pin], x)
    PROVE  KingHome'
<1>. /\ Other(c) \in Color /\ King(Other(c)) \in PieceOf(Other(c))
     /\ PieceOf(c) \cap PieceOf(Other(c)) = {} /\ King(c) \in PieceOf(c)
     /\ Queen(c) \in PieceOf(c) /\ Queen(c) # King(c) /\ Pawn(c) # King(c)
     /\ PieceOf(c) \subseteq Piece /\ PieceOf(Other(c)) \subseteq Piece
     /\ Empty \notin Piece
  BY PieceFacts
<1>1. /\ CaptureBoard(pin)[x] = Empty
      /\ CaptureBoard(pin)[pin] \in {board[x], Empty}
      /\ \A s \in Square \ {x, pin} : CaptureBoard(pin)[s] \in {board[s], Empty}
  BY DEF CaptureBoard, Relocate, TypeOK
<1>2. /\ board'[x] = Empty
      /\ \/ board'[pin] = CaptureBoard(pin)[pin]
         \/ CaptureBoard(pin)[pin] = Pawn(c) /\ board'[pin] = Queen(c)
      /\ \A s \in Square \ {x, pin} : board'[s] \in {board[s], Empty}
  BY <1>1 DEF HandlePromotion, CaptureBoard, Relocate, TypeOK
<1>3. \A s \in Square : board'[s] = King(Other(c)) => board[s] = King(Other(c))
  BY <1>1, <1>2 DEF TypeOK
<1>4. CASE CaptureBoard(pin)[pin] = King(c)
  <2>1. board[x] = King(c)
    BY <1>1, <1>4
  <2>2. \A s, t \in Square : board'[s] = King(c) /\ board'[t] = King(c) => s = t
    BY <1>2, <2>1 DEF KingHome, TypeOK
  <2>. QED BY <1>3, <1>4, <2>2, RightsStep, KingHomeStep
<1>5. CASE CaptureBoard(pin)[pin] # King(c)
  <2>1. \A s \in Square : board'[s] = King(c) => board[s] = King(c)
    BY <1>1, <1>2, <1>5 DEF TypeOK
  <2>. QED BY <1>3, <2>1, RightsStep, KingHomeStep
<1>. QED BY <1>4, <1>5

LEMMA EndCastlingKingHome ==
    ASSUME TypeOK, KingHome, NEW c \in Color, NEW w \in Wing,
           board[KingStart(c)] = King(c), EndCastling(c, w)
    PROVE  KingHome'
<1>. /\ Other(c) \in Color /\ King(Other(c)) \in PieceOf(Other(c))
     /\ PieceOf(c) \cap PieceOf(Other(c)) = {} /\ King(c) \in PieceOf(c)
     /\ Rook(c) \in PieceOf(c) /\ Rook(c) # King(c) /\ Other(c) # c
     /\ PieceOf(c) \subseteq Piece /\ PieceOf(Other(c)) \subseteq Piece
     /\ Empty \notin Piece
  BY PieceFacts
<1>1. /\ board'[RookStart(c, w)] = Empty /\ board'[KingStart(c)] = Empty
      /\ board'[RookCastle(c, w)] = Rook(c) /\ board'[KingCastle(c, w)] = King(c)
      /\ \A s \in Square \ {RookStart(c, w), KingStart(c), RookCastle(c, w),
                             KingCastle(c, w)} : board'[s] = board[s]
  BY SquareFacts DEF EndCastling, TypeOK
<1>2. /\ rights' \in [Color -> [Wing -> BOOLEAN]]
      /\ \A v \in Wing : ~rights'[c][v]
      /\ \A v \in Wing : rights'[Other(c)][v] = rights[Other(c)][v]
  BY DEF EndCastling, TypeOK
<1>3. \A s \in Square : board'[s] = King(Other(c)) => board[s] = King(Other(c))
  BY <1>1
<1>4. \A s, t \in Square : board'[s] = King(c) /\ board'[t] = King(c) => s = t
  BY <1>1, SquareFacts DEF KingHome
<1>. QED BY <1>2, <1>3, <1>4, KingHomeStep

LEMMA TurnRunInv ==
    ASSUME Inv, NEW c \in Color, NEW pin \in Square, NEW is_up \in BOOLEAN,
           TurnRun(c, pin, is_up), is_started' = TRUE
    PROVE  KingHome' /\ HeldPieces'
<1>1. KingHome'
  BY KingHomeKept DEF Inv, TurnRun, gameVars
<1>2. CASE ctx' = Error
  BY <1>1, <1>2, HeldNothing
<1>3. CASE is_up /\ CanCastle(c, pin) /\ ctx' = St(c, "castling")
  <2>1. board[KingStart(c)] = King(c) /\ \E w \in Wing : rights[c][w]
    BY <1>3 DEF CanCastle, Inv, KingHome
  <2>2. ASSUME NEW d \in Color PROVE ctx' = St(d, "castling") => d = c
    BY <1>3 DEF St
  <2>3. UNCHANGED <<board, rights>>
    BY DEF TurnRun, gameVars
  <2>. QED BY <1>1, <1>3, <2>1, <2>2, <2>3
          DEF HeldPieces, Current, CanCastle, St, WingSt, WingPhase
<1>4. CASE is_up /\ IsOwn(c, pin) /\ x' = pin /\ ctx' = St(c, "move")
  <2>1. UNCHANGED <<board, rights>>
    BY DEF TurnRun, gameVars
  <2>. QED BY <1>1, <1>4, <2>1 DEF HeldPieces, Current, IsOwn, St, WingSt, WingPhase
<1>5. CASE is_up /\ IsEnemy(c, pin) /\ y' = pin /\ ctx' = St(c, "enemy_capture")
  <2>1. UNCHANGED <<board, rights>>
    BY DEF TurnRun, gameVars
  <2>. QED BY <1>1, <1>5, <2>1 DEF HeldPieces, Current, IsEnemy, St, WingSt, WingPhase
<1>. QED BY <1>2, <1>3, <1>4, <1>5 DEF TurnRun, SetState

LEMMA MoveRunInv ==
    ASSUME Inv, NEW c \in Color, NEW pin \in Square, NEW is_up \in BOOLEAN,
           MoveRun(c, pin, is_up), is_started' = TRUE
    PROVE  KingHome' /\ HeldPieces'
<1>1. IsOwn(c, x)
  BY DEF MoveRun, Inv, HeldPieces
<1>2. CASE ~is_up /\ pin # x
  <2>1. CompleteMove(c, x, pin)
    BY <1>2 DEF MoveRun
  <2>2. KingHome'
    BY <1>1, <1>2, <2>1, CompleteMoveKingHome DEF Inv, TypeOK, IsOwn
  <2>3. HeldPieces'
    BY <2>1, HeldNothing, PieceFacts DEF CompleteMove, SetState
  <2>. QED BY <2>2, <2>3
<1>3. CASE is_up \/ pin = x
  <2>1. UNCHANGED gameVars /\ UNCHANGED x
    BY <1>3 DEF MoveRun
  <2>2. KingHome'
    BY <2>1, KingHomeKept DEF Inv, gameVars
  <2>3. CASE ctx' \in {St(c, "turn"), Error}
    BY <2>2, <2>3, HeldNothing
  <2>4. CASE IsEnemy(c, pin) /\ y' = pin /\ ctx' = St(c, "capture")
    BY <1>1, <2>1, <2>2, <2>4
       DEF HeldPieces, Current, IsOwn, IsEnemy, gameVars, St, WingSt, WingPhase
  <2>. QED BY <1>3, <2>3, <2>4 DEF MoveRun, SetState
<1>. QED BY <1>2, <1>3

LEMMA CaptureRunInv ==
    ASSUME Inv, NEW c \in Color, NEW pin \in Square, NEW is_up \in BOOLEAN,
           CaptureRun(c, pin, is_up), is_started' = TRUE
    PROVE  KingHome' /\ HeldPieces'
<1>1. IsOwn(c, x)
  BY DEF CaptureRun, Inv, HeldPieces
<1>2. CASE ~is_up /\ (pin = y \/ IsEnPassant(pin))
  <2>1. /\ board' = HandlePromotion(c, CaptureBoard(pin), pin)
        /\ CheckCastling(c, CaptureBoard(pin)[pin], x)
        /\ ctx' = St(Other(c), "turn")
    BY <1>2 DEF CaptureRun, SetState
  <2>2. KingHome'
    BY <1>1, <2>1, CaptureKingHome DEF Inv, IsOwn
  <2>. QED BY <2>1, <2>2, HeldNothing, PieceFacts
<1>3. CASE is_up \/ ~(pin = y \/ IsEnPassant(pin))
  <2>1. UNCHANGED gameVars /\ ctx' \in {St("black", "turn"), Error}
    BY <1>3 DEF CaptureRun, AbortCapture
  <2>2. KingHome'
    BY <2>1, KingHomeKept DEF Inv, gameVars
  <2>. QED BY <2>1, <2>2, HeldNothing DEF Color
<1>. QED BY <1>2, <1>3

LEMMA EnemyCaptureRunInv ==
    ASSUME Inv, NEW c \in Color, NEW pin \in Square, NEW is_up \in BOOLEAN,
           EnemyCaptureRun(c, pin, is_up), is_started' = TRUE
    PROVE  KingHome' /\ HeldPieces'
<1>1. KingHome'
  BY KingHomeKept DEF Inv, EnemyCaptureRun, gameVars
<1>2. CASE ctx' \in {St(c, "turn"), Error}
  BY <1>1, <1>2, HeldNothing
<1>3. CASE IsOwn(c, pin) /\ x' = pin /\ ctx' = St(c, "capture")
  <2>1. IsEnemy(c, y) /\ UNCHANGED <<y, gameVars>>
    BY DEF EnemyCaptureRun, Inv, HeldPieces
  <2>. QED BY <1>1, <1>3, <2>1
          DEF HeldPieces, Current, IsOwn, IsEnemy, gameVars, St, WingSt, WingPhase
<1>. QED BY <1>2, <1>3 DEF EnemyCaptureRun, SetState

LEMMA CastlingRunInv ==
    ASSUME Inv, NEW c \in Color, NEW pin \in Square, NEW is_up \in BOOLEAN,
           CastlingRun(c, pin, is_up), is_started' = TRUE, is_started = TRUE
    PROVE  KingHome' /\ HeldPieces'
<1>1. board[KingStart(c)] = King(c) /\ \E w \in Wing : rights[c][w]
  BY DEF CastlingRun, Inv, HeldPieces, CanCastle
<1>2. CASE ~is_up /\ pin # KingStart(c) /\ CastleWing(c, pin) = {}
  <2>1. CompleteMove(c, KingStart(c), pin)
    BY <1>2 DEF CastlingRun, CastleWing
  <2>2. KingHome'
    BY <1>1, <1>2, <2>1, CompleteMoveKingHome, SquareFacts, PieceFacts DEF Inv, Wing
  <2>3. HeldPieces'
    BY <2>1, HeldNothing, PieceFacts DEF CompleteMove, SetState
  <2>. QED BY <2>2, <2>3
<1>3. CASE UNCHANGED gameVars
  <2>1. KingHome'
    BY <1>3, KingHomeKept DEF Inv, gameVars
  <2>2. CASE ctx' \in {St(c, "turn"), Error}
    BY <2>1, <2>2, HeldNothing
  <2>3. CASE \E w \in CastleWing(c, pin) : ctx' = WingSt(c, "kingdown", w)
    BY <1>1, <1>3, <2>1, <2>3
       DEF HeldPieces, Current, CastleWing, gameVars, St, WingSt, WingPhase
  <2>4. CASE \E w \in RookWing(c, pin) : ctx' = WingSt(c, "KINGUP_ROOKUP", w)
    BY <1>1, <1>3, <2>1, <2>4
       DEF HeldPieces, Current, RookWing, gameVars, St, WingSt, WingPhase
  <2>5. CASE IsEnemy(c, pin) /\ y' = pin /\ x' = KingStart(c) /\ ctx' = St(c, "capture")
    <3>1. King(c) \in PieceOf(c)
      BY PieceFacts
    <3>. QED BY <1>1, <1>3, <2>1, <2>5, <3>1
            DEF HeldPieces, Current, IsOwn, IsEnemy, gameVars, St, WingSt, WingPhase
  <2>6. CASE UNCHANGED ctx
    <3>1. ctx' = St(c, "castling")
      BY <2>6 DEF CastlingRun, Current
    <3>. QED BY <1>1, <1>3, <2>1, <3>1
            DEF HeldPieces, Current, CanCastle, gameVars, St, WingSt, WingPhase
  <2>. QED BY <1>2, <1>3, <2>2, <2>3, <2>4, <2>5, <2>6
          DEF CastlingRun, SetState
<1>. QED BY <1>2, <1>3 DEF CastlingRun

LEMMA WingRunInv ==
    ASSUME Inv, NEW c \in Color, NEW w \in Wing, NEW pin \in Square,
           NEW is_up \in BOOLEAN, WingRun(c, w, pin, is_up), is_started' = TRUE
    PROVE  KingHome' /\ HeldPieces'
<1>1. PICK ph \in WingPhase : Current = WingSt(c, ph, w)
  BY DEF WingRun, KingdownRun, KingdownRookupRun, KingupRookupRun, KingupRookdownRun,
         WingPhase
<1>2. board[KingStart(c)] = King(c) /\ rights[c][w]
  BY <1>1 DEF Inv, HeldPieces
<1>3. CASE EndCastling(c, w)
  <2>1. KingHome'
    BY <1>2, <1>3, EndCastlingKingHome DEF Inv
  <2>2. HeldPieces'
    BY <1>3, HeldNothing, PieceFacts DEF EndCastling, SetState
  <2>. QED BY <2>1, <2>2
<1>4. CASE UNCHANGED gameVars
  <2>1. KingHome'
    BY <1>4, KingHomeKept DEF Inv, gameVars
  <2>2. CASE ctx' = Error
    BY <2>1, <2>2, HeldNothing
  <2>3. CASE /\ ctx' \in {WingSt(c, "kingdown_ROOKUP", w), WingSt(c, "KINGUP_rookdown", w)}
             /\ board[RookStart(c, w)] = Rook(c)
    BY <1>2, <1>4, <2>1, <2>3
       DEF HeldPieces, Current, gameVars, St, WingSt, WingPhase
  <2>4. CASE KingupRookupRun(c, w, pin, is_up)
    <3>1. board[RookStart(c, w)] = Rook(c)
      BY <2>4 DEF KingupRookupRun, Inv, HeldPieces, WingPhase
    <3>. QED BY <2>2, <2>3, <2>4, <3>1 DEF KingupRookupRun, SetState
  <2>5. CASE ctx' # Error /\ KingdownRun(c, w, pin, is_up)
    BY <2>3, <2>5 DEF KingdownRun, SetState
  <2>. QED BY <1>3, <2>1, <2>2, <2>4, <2>5
          DEF WingRun, KingdownRookupRun, KingupRookdownRun, SetState
<1>. QED BY <1>3, <1>4
        DEF WingRun, KingdownRun, KingdownRookupRun, KingupRookupRun, KingupRookdownRun

LEMMA StartingKings ==
    \A c \in Color, s \in Square :
        starting_board_initializer[s] = King(c) => s = KingStart(c)
<1>1. \A i \in 1..8 : /\ BackRank[i] = "k" => i = 5
                      /\ WhiteBackRank[i] = "K" => i = 5
                      /\ BackRank[i] # "K" /\ WhiteBackRank[i] # "k"
  BY DEF BackRank, WhiteBackRank
<1>. SUFFICES ASSUME NEW c \in Color, NEW s \in Square,
                     starting_board_initializer[s] = King(c)
              PROVE  s = KingStart(c)
  OBVIOUS
<1>2. King(c) \notin {"p", "P", Empty}
  BY DEF King, Empty
<1>3. CASE s < 8
  <2>1. BackRank[s + 1] = King(c) /\ s + 1 \in 1..8
    BY <1>3 DEF starting_board_initializer, Square
  <2>. QED BY <1>1, <2>1 DEF King, KingStart, HomeRow, Color, Square
<1>4. CASE s > 55
  <2>1. WhiteBackRank[s - 55] = King(c) /\ s - 55 \in 1..8
    BY <1>4 DEF starting_board_initializer, Square
  <2>. QED BY <1>1, <2>1 DEF King, KingStart, HomeRow, Color, Square
<1>5. CASE s \in 8..55
  BY <1>2, <1>5 DEF starting_board_initializer, Square
<1>. QED BY <1>3, <1>4, <1>5 DEF Square

\* Before the first event of a game nothing is held.
LEMMA NotStartedHeld == ~is_started => HeldPieces
BY DEF HeldPieces, Current, St, WingSt, WingPhase

LEMMA NotStartedHeldNext == ~is_started' => HeldPieces'
BY DEF HeldPieces, Current, St, WingSt, WingPhase

LEMMA InitInv == Init => Inv
<1>1. Init => HeldPieces
  BY NotStartedHeld DEF Init
<1>2. Init => KingHome
  BY StartingKings DEF Init, KingHome
<1>. QED BY <1>1, <1>2, InitType DEF Inv

LEMMA RunInv ==
    ASSUME Inv, NEW pin \in Square, NEW is_up \in BOOLEAN, Run(pin, is_up),
           is_started' = TRUE
    PROVE  KingHome' /\ HeldPieces'
<1>1. PICK c \in Color :
        \/ TurnRun(c, pin, is_up)
        \/ MoveRun(c, pin, is_up)
        \/ CaptureRun(c, pin, is_up)
        \/ EnemyCaptureRun(c, pin, is_up)
        \/ CastlingRun(c, pin, is_up)
        \/ \E w \in Wing : WingRun(c, w, pin, is_up)
  BY DEF Run
<1>2. CASE CastlingRun(c, pin, is_up)
  <2>1. is_started = TRUE
    BY <1>2 DEF CastlingRun, Current, St, Inv, TypeOK
  <2>. QED BY <1>2, <2>1, CastlingRunInv
<1>. QED BY <1>1, <1>2, TurnRunInv, MoveRunInv, CaptureRunInv, EnemyCaptureRunInv,
            WingRunInv

LEMMA NextInv == Inv /\ [Next]_vars => Inv'
<1>. SUFFICES ASSUME Inv, [Next]_vars PROVE Inv'
  OBVIOUS
<1>1. TypeOK'
  BY NextType DEF Inv
<1>2. CASE Reset
  <2>1. KingHome'
    BY <1>2, StartingKings DEF Reset, KingHome
  <2>2. HeldPieces'
    BY <1>2, NotStartedHeldNext DEF Reset
  <2>. QED BY <1>1, <2>1, <2>2 DEF Inv
<1>3. ASSUME NEW pin \in Pins, NEW is_up \in BOOLEAN, PinChange(pin, is_up)
      PROVE  Inv'
  <2>. pin \in Square
    BY PinsAssumption DEF Square
  <2>1. CASE Run(pin, is_up)
    BY <1>1, <1>3, <2>1, RunInv DEF PinChange, Inv
  <2>2. CASE UNCHANGED <<ctx, state_val, x, y, gameVars>> /\ Current = Error
    <3>1. ctx' = Error
      BY <2>2 DEF Current, St, Error
    <3>2. KingHome' /\ HeldPieces'
      BY <1>3, <2>2, <3>1, KingHomeKept, HeldNothing
         DEF PinChange, Inv, gameVars, Color
    <3>. QED BY <1>1, <3>2 DEF Inv
  <2>3. CASE is_started /\ UNCHANGED <<ctx, state_val, x, y, gameVars>>
    <3>1. is_started' = is_started
      BY <1>3, <2>3 DEF PinChange, Inv, TypeOK
    <3>2. KingHome'
      BY <2>3, KingHomeKept DEF Inv, gameVars
    <3>3. HeldPieces'
      BY <2>3, <3>1 DEF Inv, HeldPieces, Current, CanCastle, IsOwn, IsEnemy, gameVars
    <3>. QED BY <1>1, <3>2, <3>3 DEF Inv
  <2>. QED BY <1>3, <2>1, <2>2, <2>3 DEF PinChange, ErrorRun
<1>4. CASE UNCHANGED vars
  BY <1>1, <1>4
     DEF vars, gameVars, Inv, KingHome, HeldPieces, Current, CanCastle, IsOwn, IsEnemy
<1>. QED BY <1>2, <1>3, <1>4 DEF Next

THEOREM Invariance == Spec => []Inv
BY InitInv, NextInv, PTL DEF Spec

\* A king with a right to castle is at home, and a colour has one king.
THEOREM KingsStayHome == Spec => []KingHome
<1>1. Inv => KingHome
  BY DEF Inv
<1>. QED BY <1>1, Invariance, PTL

\* Half-way through a move the remembered squares hold the pieces they should.
THEOREM PiecesAreHeld == Spec => []HeldPieces
<1>1. Inv => HeldPieces
  BY DEF Inv
<1>. QED BY <1>1, Invariance, PTL

-----------------------------------------------------------------------------
(* The record of the last move *)

LEMMA CompleteMoveRecord ==
    ASSUME TypeOK, NEW c \in Color, NEW from \in Square, NEW pin \in Square,
           from # pin, CompleteMove(c, from, pin)
    PROVE  RecordMatchesBoard'
<1>1. board'[from] = Empty
  BY DEF CompleteMove, HandlePromotion, Relocate, TypeOK
<1>. QED BY <1>1 DEF CompleteMove, SendMove, RecordMatchesBoard

LEMMA CaptureRecord ==
    ASSUME TypeOK, NEW c \in Color, NEW pin \in Square,
           board' = HandlePromotion(c, CaptureBoard(pin), pin), SendMove(x, pin)
    PROVE  RecordMatchesBoard'
<1>1. board'[x] = Empty
  <2>1. CaptureBoard(pin)[x] = Empty
    BY DEF CaptureBoard, Relocate, TypeOK
  <2>2. Pawn(c) # Empty
    BY DEF Pawn, Empty
  <2>. QED BY <2>1, <2>2 DEF HandlePromotion, CaptureBoard, Relocate, TypeOK
<1>. QED BY <1>1 DEF SendMove, RecordMatchesBoard

LEMMA EndCastlingRecord ==
    ASSUME TypeOK, NEW c \in Color, NEW w \in Wing, EndCastling(c, w)
    PROVE  RecordMatchesBoard'
<1>1. board'[KingStart(c)] = Empty
  BY SquareFacts DEF EndCastling, TypeOK
<1>. QED BY <1>1 DEF EndCastling, SendMoveCastle, RecordMatchesBoard

LEMMA RecordKept == RecordMatchesBoard /\ UNCHANGED gameVars => RecordMatchesBoard'
BY DEF RecordMatchesBoard, gameVars

\* What a handler does to the game: nothing, or one completed move.
LEMMA RunEffects ==
    ASSUME TypeOK, NEW pin \in Square, NEW is_up \in BOOLEAN, Run(pin, is_up)
    PROVE  \/ UNCHANGED gameVars
           \/ \E c \in Color :
                \/ MoveRun(c, pin, is_up) /\ x # pin /\ CompleteMove(c, x, pin)
                \/ /\ CastlingRun(c, pin, is_up) /\ KingStart(c) # pin
                   /\ CompleteMove(c, KingStart(c), pin)
                \/ /\ CaptureRun(c, pin, is_up)
                   /\ pin = y \/ IsEnPassant(pin)
                   /\ ctx' = St(Other(c), "turn") /\ ply' = (ply + 1) % U8
                   /\ board' = HandlePromotion(c, CaptureBoard(pin), pin)
                   /\ SendMove(x, pin)
                \/ \E w \in Wing :
                     /\ EndCastling(c, w)
                     /\ \E ph \in WingPhase \ {"kingdown"} : Current = WingSt(c, ph, w)
<1>1. PICK c \in Color :
        \/ TurnRun(c, pin, is_up)
        \/ MoveRun(c, pin, is_up)
        \/ CaptureRun(c, pin, is_up)
        \/ EnemyCaptureRun(c, pin, is_up)
        \/ CastlingRun(c, pin, is_up)
        \/ \E w \in Wing : WingRun(c, w, pin, is_up)
  BY DEF Run
<1>2. CASE TurnRun(c, pin, is_up) \/ EnemyCaptureRun(c, pin, is_up)
  BY <1>2 DEF TurnRun, EnemyCaptureRun
<1>3. CASE MoveRun(c, pin, is_up)
  BY <1>3 DEF MoveRun
<1>4. CASE CaptureRun(c, pin, is_up)
  BY <1>4 DEF CaptureRun, SetState
<1>5. CASE CastlingRun(c, pin, is_up)
  BY <1>5 DEF CastlingRun
<1>6. ASSUME NEW w \in Wing, WingRun(c, w, pin, is_up)
      PROVE  \/ UNCHANGED gameVars
             \/ /\ EndCastling(c, w)
                /\ \E ph \in WingPhase \ {"kingdown"} : Current = WingSt(c, ph, w)
  BY <1>6 DEF WingRun, KingdownRun, KingdownRookupRun, KingupRookupRun,
              KingupRookdownRun, WingPhase
<1>. QED BY <1>1, <1>2, <1>3, <1>4, <1>5, <1>6

LEMMA NextRecord == TypeOK /\ RecordMatchesBoard /\ [Next]_vars => RecordMatchesBoard'
<1>. SUFFICES ASSUME TypeOK, RecordMatchesBoard, [Next]_vars PROVE RecordMatchesBoard'
  OBVIOUS
<1>1. CASE Reset
  BY <1>1 DEF Reset, RecordMatchesBoard
<1>2. ASSUME NEW pin \in Pins, NEW is_up \in BOOLEAN, PinChange(pin, is_up)
      PROVE  RecordMatchesBoard'
  <2>. pin \in Square
    BY PinsAssumption DEF Square
  <2>1. CASE Run(pin, is_up)
    <3>1. \A c \in Color : KingStart(c) \in Square
      BY SquareFacts DEF Wing
    <3>. QED BY <2>1, <3>1, RunEffects, RecordKept, CompleteMoveRecord, CaptureRecord,
                EndCastlingRecord DEF TypeOK
  <2>2. CASE UNCHANGED gameVars
    BY <2>2, RecordKept
  <2>. QED BY <1>2, <2>1, <2>2 DEF PinChange, ErrorRun
<1>3. CASE UNCHANGED vars
  BY <1>3, RecordKept DEF vars
<1>. QED BY <1>1, <1>2, <1>3 DEF Next

\* Until the next move completes, the last record tells what the board shows.
THEOREM RecordsMatch == Spec => []RecordMatchesBoard
<1>1. Init => RecordMatchesBoard
  BY DEF Init, RecordMatchesBoard
<1>. QED BY <1>1, TypeCorrect, NextRecord, PTL DEF Spec

-----------------------------------------------------------------------------
(* What the counts of the pieces may do *)

LEMMA CountFinite ==
    ASSUME NEW S \in SUBSET Square
    PROVE  IsFiniteSet(S) /\ Cardinality(S) \in Nat
<1>1. IsFiniteSet(Square)
  <2>1. \A a, b \in Int : IsFiniteSet(a..b)
    BY FS_Interval
  <2>2. 0 \in Int /\ 63 \in Int
    OBVIOUS
  <2>. QED BY <2>1, <2>2, Zenon DEF Square
<1>2. IsFiniteSet(S)
  BY <1>1, FS_Subset
<1>. QED BY <1>2, FS_CardinalityType

\* A piece that changes its square is still one.
LEMMA MovedCount ==
    ASSUME NEW S \in SUBSET Square, NEW T \in SUBSET Square, NEW from \in S,
           NEW pin \in Square, T \subseteq (S \ {from}) \cup {pin}
    PROVE  Cardinality(T) <= Cardinality(S)
<1>. DEFINE R == S \ {from}
            A == R \cup {pin}
<1>1. IsFiniteSet(S) /\ Cardinality(S) \in Nat
  BY CountFinite
<1>2. IsFiniteSet(R) /\ Cardinality(R) = Cardinality(S) - 1
  BY <1>1, FS_RemoveElement
<1>3. IsFiniteSet(A) /\ Cardinality(A) <= Cardinality(R) + 1 /\ Cardinality(A) \in Nat
  <2>1. IsFiniteSet(A) /\ Cardinality(A) \in {Cardinality(R), Cardinality(R) + 1}
    BY <1>2, FS_AddElement
  <2>. QED BY <1>1, <1>2, <2>1, FS_CardinalityType
<1>4. Cardinality(T) <= Cardinality(A)
  BY <1>3, FS_Subset
<1>5. Cardinality(T) \in Nat
  BY CountFinite
<1>. QED BY <1>1, <1>2, <1>3, <1>4, <1>5

LEMMA FewerCount ==
    ASSUME NEW S \in SUBSET Square, NEW T \in SUBSET S
    PROVE  Cardinality(T) <= Cardinality(S)
BY CountFinite, FS_Subset

\* No pawn has stayed a pawn on the last rank: the handlers promote the piece that
\* was put there.
PawnsBelow ==
    \A c \in Color, s \in Square : board[s] = Pawn(c) => ~LastRank(c, s)

\* What a step that counts as a game step may do to the pieces.
PiecesOnlyFall ==
    \A c \in Color : \A p \in PieceOf(c) :
        \/ Count(p)' <= Count(p)
        \/ /\ p = Queen(c) /\ Count(p)' = Count(p) + 1
           /\ Count(Pawn(c))' = Count(Pawn(c)) - 1

\* A piece of c leaves a square for another or for good; an enemy may go too, and
\* a pawn that reaches the last rank may come back as a queen.
LEMMA MoveCounts ==
    ASSUME TypeOK, PawnsBelow, NEW c \in Color, NEW from \in Square, NEW pin \in Square,
           board[from] \in PieceOf(c), board' \in [Square -> Piece \union {Empty}],
           board'[from] = Empty,
           \A s \in Square \ {from, pin} :
              board'[s] = board[s] \/ (board'[s] = Empty /\ board[s] \notin PieceOf(c)),
           \/ board'[pin] \in {board[from], Empty}
           \/ board[from] = Pawn(c) /\ board'[pin] = Queen(c) /\ LastRank(c, pin)
    PROVE  PiecesOnlyFall
<1>. SUFFICES ASSUME NEW d \in Color, NEW p \in PieceOf(d)
              PROVE  \/ Count(p)' <= Count(p)
                     \/ /\ p = Queen(d) /\ Count(p)' = Count(p) + 1
                        /\ Count(Pawn(d))' = Count(Pawn(d)) - 1
  BY DEF PiecesOnlyFall
<1>. DEFINE S(q) == {s \in Square : board[s] = q}
            T(q) == {s \in Square : board'[s] = q}
<1>0. /\ \A q : Count(q) = Cardinality(S(q)) /\ Count(q)' = Cardinality(T(q))
      /\ \A q : S(q) \in SUBSET Square /\ T(q) \in SUBSET Square
  BY DEF Count
<1>f. /\ p # Empty /\ Pawn(c) # Empty /\ Pawn(c) # Queen(c)
      /\ Pawn(c) \in PieceOf(c) /\ Queen(c) \in PieceOf(c)
      /\ Queen(c) \in PieceOf(d) => d = c
  BY DEF PieceOf, WhitePiece, BlackPiece, Color, Empty, Pawn, Queen
<1>1. CASE p # board'[pin]
  <2>1. T(p) \subseteq S(p)
    BY <1>1, <1>f
  <2>2. Cardinality(T(p)) <= Cardinality(S(p))
    BY <1>0, <2>1, FewerCount
  <2>. QED BY <1>0, <2>2
<1>2. CASE p = board'[pin] /\ p = board[from]
  <2>1. T(p) \subseteq (S(p) \ {from}) \cup {pin} /\ from \in S(p)
    BY <1>2, <1>f
  <2>2. Cardinality(T(p)) <= Cardinality(S(p))
    BY <1>0, <2>1, MovedCount
  <2>. QED BY <1>0, <2>2
<1>3. CASE p = board'[pin] /\ board[from] = Pawn(c) /\ p = Queen(c) /\ LastRank(c, pin)
  <2>1. d = c /\ from # pin
    BY <1>3, <1>f
  <2>2. CASE board[pin] = p
    <3>1. T(p) \subseteq S(p)
      BY <1>3, <2>2, <1>f
    <3>2. Cardinality(T(p)) <= Cardinality(S(p))
      BY <1>0, <3>1, FewerCount
    <3>. QED BY <1>0, <3>2
  <2>3. CASE board[pin] # p
    <3>1. T(p) = S(p) \cup {pin} /\ pin \notin S(p)
      BY <1>3, <2>1, <2>3, <1>f
    <3>2. Cardinality(T(p)) = Cardinality(S(p)) + 1
      BY <3>1, <1>0, CountFinite, FS_AddElement
    <3>3. board[pin] # Pawn(c)
      BY <1>3 DEF PawnsBelow
    <3>4. T(Pawn(c)) = S(Pawn(c)) \ {from} /\ from \in S(Pawn(c))
      BY <1>3, <2>1, <3>3, <1>f
    <3>5. Cardinality(T(Pawn(c))) = Cardinality(S(Pawn(c))) - 1
      <4>1. IsFiniteSet(S(Pawn(c)))
        BY CountFinite
      <4>. HIDE DEF S, T
      <4>. QED BY <3>4, <4>1, FS_RemoveElement
    <3>6. p = Queen(d) /\ Count(p)' = Count(p) + 1
      BY <1>3, <2>1, <3>2, <1>0
    <3>7. Count(Pawn(d))' = Count(Pawn(d)) - 1
      BY <2>1, <3>5, <1>0
    <3>. QED BY <3>6, <3>7
  <2>. QED BY <2>2, <2>3
<1>. QED BY <1>1, <1>2, <1>3, <1>f

LEMMA EndCastlingCounts ==
    ASSUME TypeOK, NEW c \in Color, NEW w \in Wing, EndCastling(c, w),
           board[KingStart(c)] = King(c), board[RookStart(c, w)] = Rook(c)
    PROVE  PiecesOnlyFall
<1>. SUFFICES ASSUME NEW d \in Color, NEW p \in PieceOf(d)
              PROVE  Count(p)' <= Count(p)
  BY DEF PiecesOnlyFall
<1>. DEFINE S == {s \in Square : board[s] = p}
            T == {s \in Square : board'[s] = p}
<1>0. /\ Count(p) = Cardinality(S) /\ Count(p)' = Cardinality(T)
      /\ S \in SUBSET Square /\ T \in SUBSET Square
  BY DEF Count
<1>f. p # Empty /\ King(c) # Rook(c)
  BY DEF PieceOf, WhitePiece, BlackPiece, Empty, King, Rook
<1>b. /\ board'[RookStart(c, w)] = Empty /\ board'[KingStart(c)] = Empty
      /\ board'[RookCastle(c, w)] = Rook(c) /\ board'[KingCastle(c, w)] = King(c)
      /\ \A s \in Square \ {RookStart(c, w), KingStart(c), RookCastle(c, w), KingCastle(c, w)} :
            board'[s] = board[s]
      /\ KingCastle(c, w) \in Square /\ RookCastle(c, w) \in Square
      /\ KingStart(c) \in Square /\ RookStart(c, w) \in Square
  BY SquareFacts DEF EndCastling, TypeOK
<1>1. CASE p = King(c)
  <2>1. T \subseteq (S \ {KingStart(c)}) \cup {KingCastle(c, w)} /\ KingStart(c) \in S
    BY <1>1, <1>f, <1>b
  <2>. QED BY <1>0, <1>b, <2>1, MovedCount
<1>2. CASE p = Rook(c)
  <2>1. T \subseteq (S \ {RookStart(c, w)}) \cup {RookCastle(c, w)} /\ RookStart(c, w) \in S
    BY <1>2, <1>f, <1>b
  <2>. QED BY <1>0, <1>b, <2>1, MovedCount
<1>3. CASE p # King(c) /\ p # Rook(c)
  <2>1. T \subseteq S
    BY <1>3, <1>f, <1>b
  <2>. QED BY <1>0, <2>1, FewerCount
<1>. QED BY <1>1, <1>2, <1>3

LEMMA SameCounts ==
    ASSUME UNCHANGED board
    PROVE  PiecesOnlyFall
<1>. SUFFICES ASSUME NEW p PROVE Count(p)' <= Count(p)
  BY DEF PiecesOnlyFall
<1>1. Count(p)' = Count(p)
  BY DEF Count
<1>2. Count(p) \in Nat
  BY CountFinite DEF Count
<1>. QED BY <1>1, <1>2

\* The board after a move, as MoveCounts wants it; and pawns stay below.
LEMMA PromotedBoard ==
    ASSUME TypeOK, PawnsBelow, NEW c \in Color, NEW from \in Square, NEW pin \in Square,
           board[from] \in PieceOf(c), NEW b \in [Square -> Piece \union {Empty}],
           b[from] = Empty, b[pin] \in {board[from], Empty},
           \A s \in Square \ {from, pin} :
              b[s] = board[s] \/ (b[s] = Empty /\ board[s] \notin PieceOf(c)),
           board' = HandlePromotion(c, b, pin),
           board' \in [Square -> Piece \union {Empty}]
    PROVE  PiecesOnlyFall /\ PawnsBelow'
<1>f. /\ Pawn(c) # Empty /\ Pawn(c) # Queen(c) /\ Pawn(Other(c)) # Empty
      /\ Pawn(Other(c)) # Queen(c) /\ Pawn(Other(c)) \notin PieceOf(c)
      /\ \A d \in Color : d = c \/ d = Other(c)
  BY DEF PieceOf, WhitePiece, BlackPiece, Empty, Pawn, Queen, Color, Other
<1>1. /\ \A s \in Square \ {pin} : board'[s] = b[s]
      /\ board'[pin] = b[pin] \/ (b[pin] = Pawn(c) /\ LastRank(c, pin) /\ board'[pin] = Queen(c))
      /\ board'[pin] = Pawn(c) => ~LastRank(c, pin)
  BY <1>f DEF HandlePromotion
<1>2. board'[from] = Empty
  BY <1>1, <1>f
<1>3. \/ board'[pin] \in {board[from], Empty}
      \/ board[from] = Pawn(c) /\ board'[pin] = Queen(c) /\ LastRank(c, pin)
  BY <1>1, <1>f
<1>4. \A s \in Square \ {from, pin} :
         board'[s] = board[s] \/ (board'[s] = Empty /\ board[s] \notin PieceOf(c))
  BY <1>1
<1>5. PiecesOnlyFall
  BY <1>2, <1>3, <1>4, MoveCounts
<1>6. ASSUME NEW d \in Color, NEW s \in Square, board'[s] = Pawn(d)  PROVE ~LastRank(d, s)
  <2>1. CASE s = pin
    BY <1>1, <1>3, <1>6, <1>f, <2>1
  <2>2. CASE s # pin
    <3>1. s # from /\ board'[s] # Empty
      BY <1>2, <1>6, <1>f
    <3>2. board[s] = Pawn(d)
      BY <1>4, <1>6, <2>2, <3>1
    <3>. QED BY <3>2 DEF PawnsBelow
  <2>. QED BY <2>1, <2>2
<1>. QED BY <1>5, <1>6 DEF PawnsBelow, LastRank, Pawn

LEMMA RunCounts ==
    ASSUME Inv, PawnsBelow, NEW pin \in Square, NEW is_up \in BOOLEAN, Run(pin, is_up),
           TypeOK'
    PROVE  PiecesOnlyFall /\ PawnsBelow'
<1>. USE DEF Inv
<1>1. CASE UNCHANGED gameVars
  BY <1>1, SameCounts DEF gameVars, PawnsBelow, LastRank, Pawn
<1>2. ASSUME NEW c \in Color, NEW from \in Square, from # pin, board[from] \in PieceOf(c),
             CompleteMove(c, from, pin)
      PROVE  PiecesOnlyFall /\ PawnsBelow'
  <2>. DEFINE b == Relocate(from, pin)
  <2>1. /\ b \in [Square -> Piece \union {Empty}] /\ b[from] = Empty /\ b[pin] = board[from]
        /\ \A s \in Square \ {from, pin} : b[s] = board[s]
    BY <1>2 DEF Relocate, TypeOK
  <2>2. board' = HandlePromotion(c, b, pin) /\ board' \in [Square -> Piece \union {Empty}]
    BY <1>2 DEF CompleteMove, TypeOK
  <2>. HIDE DEF b
  <2>. QED BY <1>2, <2>1, <2>2, PromotedBoard
<1>3. ASSUME NEW c \in Color, CaptureRun(c, pin, is_up),
             board' = HandlePromotion(c, CaptureBoard(pin), pin)
      PROVE  PiecesOnlyFall /\ PawnsBelow'
  <2>. DEFINE b == CaptureBoard(pin)
  <2>1. board[x] \in PieceOf(c) /\ board[y] \in PieceOf(Other(c)) /\ x \in Square /\ y \in Square
    BY <1>3 DEF CaptureRun, HeldPieces, IsOwn, IsEnemy, TypeOK
  <2>2. PieceOf(c) \cap PieceOf(Other(c)) = {}
    BY PieceFacts
  <2>3. /\ b \in [Square -> Piece \union {Empty}] /\ b[x] = Empty
        /\ b[pin] \in {board[x], Empty}
        /\ \A s \in Square \ {x, pin} :
              b[s] = board[s] \/ (b[s] = Empty /\ board[s] \notin PieceOf(c))
    BY <2>1, <2>2 DEF CaptureBoard, Relocate, TypeOK
  <2>4. board' \in [Square -> Piece \union {Empty}]
    BY DEF TypeOK
  <2>. HIDE DEF b
  <2>. QED BY <1>3, <2>1, <2>3, <2>4, PromotedBoard DEF b
<1>4. ASSUME NEW c \in Color, NEW w \in Wing, EndCastling(c, w),
             NEW ph \in WingPhase \ {"kingdown"}, Current = WingSt(c, ph, w)
      PROVE  PiecesOnlyFall /\ PawnsBelow'
  <2>1. board[KingStart(c)] = King(c) /\ board[RookStart(c, w)] = Rook(c)
    BY <1>4 DEF HeldPieces
  <2>2. \A d \in Color, s \in Square : board'[s] = Pawn(d) => board[s] = Pawn(d)
    <3>1. \A d \in Color : Pawn(d) \notin {Empty, King(c), Rook(c)}
      BY DEF Color, Pawn, Empty, King, Rook
    <3>2. \A s \in Square : board'[s] \in {board[s], Empty, King(c), Rook(c)}
      BY <1>4, SquareFacts DEF EndCastling, TypeOK
    <3>. QED BY <3>1, <3>2
  <2>3. PawnsBelow'
    BY <2>2 DEF PawnsBelow, LastRank, Pawn
  <2>. QED BY <1>4, <2>1, <2>3, EndCastlingCounts
<1>5. ASSUME NEW c \in Color, MoveRun(c, pin, is_up)  PROVE board[x] \in PieceOf(c)
  BY <1>5 DEF MoveRun, HeldPieces, IsOwn
<1>6. ASSUME NEW c \in Color, CastlingRun(c, pin, is_up)
      PROVE  KingStart(c) \in Square /\ board[KingStart(c)] \in PieceOf(c)
  <2>1. board[KingStart(c)] = King(c)
    BY <1>6 DEF CastlingRun, HeldPieces, CanCastle
  <2>. QED BY <2>1, PieceFacts, SquareFacts DEF Wing
<1>7. x \in Square
  BY DEF TypeOK
<1>. QED BY <1>1, <1>2, <1>3, <1>4, <1>5, <1>6, <1>7, RunEffects

LEMMA StartingPawns ==
    \A c \in Color, s \in Square :
        starting_board_initializer[s] = Pawn(c) => ~LastRank(c, s)
<1>1. \A i \in 1..8 : BackRank[i] \notin {"p", "P"} /\ WhiteBackRank[i] \notin {"p", "P"}
  BY DEF BackRank, WhiteBackRank
<1>. SUFFICES ASSUME NEW c \in Color, NEW s \in Square,
                     starting_board_initializer[s] = Pawn(c)
              PROVE  ~LastRank(c, s)
  OBVIOUS
<1>2. CASE s < 8
  <2>1. BackRank[s + 1] = Pawn(c) /\ s + 1 \in 1..8
    BY <1>2 DEF starting_board_initializer, Square
  <2>. QED BY <1>1, <2>1 DEF Pawn
<1>3. CASE s > 55
  <2>1. WhiteBackRank[s - 55] = Pawn(c) /\ s - 55 \in 1..8
    BY <1>3 DEF starting_board_initializer, Square
  <2>. QED BY <1>1, <2>1 DEF Pawn
<1>. QED BY <1>2, <1>3 DEF LastRank, Square

LEMMA NextCounts ==
    Inv /\ PawnsBelow /\ [Next]_vars =>
        PawnsBelow' /\ [is_started' => PiecesOnlyFall]_vars
<1>. SUFFICES ASSUME Inv, PawnsBelow, [Next]_vars
              PROVE  PawnsBelow' /\ (is_started' => PiecesOnlyFall)
  OBVIOUS
<1>1. CASE Reset
  BY <1>1, StartingPawns DEF Reset, PawnsBelow, LastRank, Pawn
<1>2. ASSUME NEW pin \in Pins, NEW is_up \in BOOLEAN, PinChange(pin, is_up)
      PROVE  PawnsBelow' /\ PiecesOnlyFall
  <2>. pin \in Square
    BY PinsAssumption DEF Square
  <2>1. CASE Run(pin, is_up)
    BY <2>1, RunCounts, NextType DEF Inv
  <2>2. CASE UNCHANGED gameVars
    BY <2>2, SameCounts DEF gameVars, PawnsBelow, LastRank, Pawn
  <2>. QED BY <1>2, <2>1, <2>2 DEF PinChange, ErrorRun
<1>3. CASE UNCHANGED vars
  BY <1>3, SameCounts DEF vars, gameVars, PawnsBelow, LastRank, Pawn
<1>. QED BY <1>1, <1>2, <1>3 DEF Next

\* Within a game no event makes a piece appear: the number of each kind only falls,
\* but for a queen that takes the place of a pawn (fsm.c:190-460).
THEOREM PiecesNeverAppear == Spec => NoPieceAppears
<1>1. Init => PawnsBelow
  BY StartingPawns DEF Init, PawnsBelow
<1>2. Spec => []PawnsBelow
  BY <1>1, NextCounts, Invariance, PTL DEF Spec
<1>3. Inv /\ PawnsBelow /\ [Next]_vars => [is_started' => PiecesOnlyFall]_vars
  BY NextCounts
<1>. QED BY <1>2, <1>3, Invariance, PTL DEF Spec, NoPieceAppears, PiecesOnlyFall

-----------------------------------------------------------------------------
(* BoardFsm implements AtomicGame, for every Pins and U8: the handlers of  *)
(* lifted and put-down pieces amount to whole moves of the side to move.   *)

\* The instance has its own copies of the board's constants.
LEMMA SameModel ==
    /\ Game!Color = Color /\ Game!Wing = Wing /\ Game!Square = Square
    /\ Game!Empty = Empty
    /\ Game!starting_board_initializer = starting_board_initializer
    /\ \A c \in Color :
         /\ Game!Other(c) = Other(c) /\ Game!PieceOf(c) = PieceOf(c)
         /\ Game!King(c) = King(c) /\ Game!Rook(c) = Rook(c)
         /\ Game!Pawn(c) = Pawn(c) /\ Game!Queen(c) = Queen(c)
         /\ Game!KingStart(c) = KingStart(c)
         /\ \A w \in Wing :
              /\ Game!RookStart(c, w) = RookStart(c, w)
              /\ Game!KingCastle(c, w) = KingCastle(c, w)
              /\ Game!RookCastle(c, w) = RookCastle(c, w)
BY DEF Game!Color, Color, Game!Wing, Wing, Game!Square, Square, Game!Empty, Empty,
       Game!starting_board_initializer, starting_board_initializer, Game!BackRank,
       BackRank, Game!WhiteBackRank, WhiteBackRank, Game!Other, Other, Game!PieceOf,
       PieceOf, Game!WhitePiece, WhitePiece, Game!BlackPiece, BlackPiece, Game!King,
       King, Game!Rook, Rook, Game!Pawn, Pawn, Game!Queen, Queen, Game!KingStart,
       KingStart, Game!RookStart, RookStart, Game!KingCastle, KingCastle,
       Game!RookCastle, RookCastle, Game!HomeRow, HomeRow

LEMMA InitRefines == Init => Game!Init
BY SameModel DEF Init, Game!Init, Current, St, ZeroRecord

\* The bookkeeping of a completed move, whatever handler completes it.
LEMMA CompletedRefines ==
    ASSUME NEW c \in Color, Current.color = c, is_started' = TRUE,
           ctx' = St(Other(c), "turn"), ply' = (ply + 1) % U8, NEW from,
           shell_obj'.ply = ply', shell_obj'.from = from
    PROVE  Game!Completed(from)
<1>1. Current'.color = Other(c)
  BY DEF Current, St
<1>. QED BY <1>1, SameModel DEF Game!Completed

LEMMA PromotionArrives ==
    ASSUME TypeOK, NEW c \in Color, NEW b \in [Square -> Piece \union {Empty}],
           NEW pin \in Square
    PROVE  HandlePromotion(c, b, pin)[pin] \in Game!Arrivals(b[pin], pin)
<1>1. CASE b[pin] = Pawn(c) /\ LastRank(c, pin)
  <2>1. Queen(c) \in Game!Arrivals(b[pin], pin)
    BY <1>1, SameModel DEF Game!Arrivals, LastRank
  <2>. QED BY <1>1, <2>1 DEF HandlePromotion
<1>2. CASE ~(b[pin] = Pawn(c) /\ LastRank(c, pin))
  BY <1>2 DEF HandlePromotion, Game!Arrivals
<1>. QED BY <1>1, <1>2

\* A piece put on a square that is not an en passant square: an ordinary move.
LEMMA MoveRefines ==
    ASSUME TypeOK, NEW c \in Color, Current.color = c, is_started' = TRUE,
           NEW from \in Square, NEW pin \in Square, from # pin,
           board[from] \in PieceOf(c), ctx' = St(Other(c), "turn"),
           ply' = (ply + 1) % U8, SendMove(from, pin),
           board' = HandlePromotion(c, Relocate(from, pin), pin)
    PROVE  Game!Next
<1>1. Game!Completed(from)
  BY CompletedRefines DEF SendMove
<1>2. Relocate(from, pin) \in [Square -> Piece \union {Empty}]
  BY DEF Relocate, TypeOK
<1>3. Relocate(from, pin)[pin] = board[from]
  BY DEF Relocate, TypeOK
<1>4. board'[pin] \in Game!Arrivals(board[from], pin)
  BY <1>2, <1>3, PromotionArrives
<1>5. board' = [board EXCEPT ![from] = Empty, ![pin] = board'[pin]]
  BY DEF HandlePromotion, Relocate, TypeOK
<1>6. Game!Move(from)
  BY <1>1, <1>4, <1>5, SameModel DEF Game!Move
<1>. QED BY <1>6, SameModel DEF Game!Next

\* A piece put on the en passant square.
LEMMA EnPassantRefines ==
    ASSUME TypeOK, NEW c \in Color, Current.color = c, is_started' = TRUE,
           NEW pin \in Square, board[x] \in PieceOf(c), board[y] \in PieceOf(Other(c)),
           IsEnPassant(pin), ctx' = St(Other(c), "turn"), ply' = (ply + 1) % U8,
           SendMove(x, pin), board' = HandlePromotion(c, CaptureBoard(pin), pin)
    PROVE  Game!Next
<1>. DEFINE b == CaptureBoard(pin)
<1>1. Game!Completed(x)
  BY CompletedRefines DEF SendMove
<1>2. b = [board EXCEPT ![pin] = board[x], ![x] = Empty, ![y] = Empty]
  BY DEF CaptureBoard, Relocate
<1>3. b \in [Square -> Piece \union {Empty}] /\ x \in Square /\ y \in Square
  BY <1>2 DEF TypeOK
<1>4. x # y /\ board[x] # Empty /\ Pawn(c) # Empty /\ Queen(c) # Empty
  BY PieceFacts
<1>5. board' = [board EXCEPT ![x] = Empty, ![y] = Empty, ![pin] = board'[pin]]
  BY <1>2 DEF HandlePromotion, TypeOK
<1>6. CASE pin \in {x, y}
  <2>1. board'[pin] = Empty
    <3>1. b[pin] = Empty
      <4>1. CASE pin = x
        BY <1>2, <1>3, <1>4, <4>1 DEF TypeOK
      <4>2. CASE pin = y
        BY <1>2, <1>3, <1>4, <4>2 DEF TypeOK
      <4>. QED BY <1>6, <4>1, <4>2
    <3>. QED BY <1>4, <3>1 DEF HandlePromotion
  <2>2. Game!CaptureEnPassant(x)
    BY <1>1, <1>3, <1>5, <1>6, <2>1, SameModel, PieceFacts DEF Game!CaptureEnPassant
  <2>. QED BY <1>3, <2>2, SameModel DEF Game!Next
<1>7. CASE pin \notin {x, y}
  <2>1. b[pin] = board[x]
    BY <1>2, <1>7 DEF TypeOK
  <2>2. board'[pin] \in Game!Arrivals(board[x], pin)
    BY <1>3, <2>1, PromotionArrives
  <2>3. board'[pin] # Empty
    BY <1>4, <2>1 DEF HandlePromotion, TypeOK
  <2>4. Game!CaptureEnPassant(x)
    <3>1. board'[pin] \in Game!Arrivals(board[x], pin) \union {Game!Empty}
      BY <2>2
    <3>2. (board'[pin] = Game!Empty) <=> (pin \in {x, y})
      BY <1>7, <2>3, SameModel
    <3>3. /\ board[x] \in Game!PieceOf(Current.color)
          /\ board[y] \in Game!PieceOf(Game!Other(Current.color))
      BY SameModel, PieceFacts
    <3>4. board' = [board EXCEPT ![x] = Game!Empty, ![y] = Game!Empty,
                                 ![pin] = board'[pin]]
      BY <1>5, SameModel
    <3>5. pin \in Game!Square /\ y \in Game!Square
      BY <1>3, SameModel
    <3>. QED BY <1>1, <3>1, <3>2, <3>3, <3>4, <3>5 DEF Game!CaptureEnPassant
  <2>. QED BY <1>3, <2>4, SameModel DEF Game!Next
<1>. QED BY <1>6, <1>7

LEMMA CastleRefines ==
    ASSUME TypeOK, NEW c \in Color, NEW w \in Wing, Current.color = c,
           is_started' = TRUE, EndCastling(c, w),
           board[KingStart(c)] = King(c), board[RookStart(c, w)] = Rook(c)
    PROVE  Game!Next
<1>1. Game!Completed(KingStart(c))
  BY CompletedRefines DEF EndCastling, SetState, SendMoveCastle
<1>2. board' = [board EXCEPT ![KingStart(c)] = Empty, ![RookStart(c, w)] = Empty,
                             ![KingCastle(c, w)] = King(c), ![RookCastle(c, w)] = Rook(c)]
  BY SquareFacts DEF EndCastling, TypeOK
<1>3. Game!Castle(w)
  BY <1>1, <1>2, SameModel DEF Game!Castle
<1>. QED BY <1>3, SameModel DEF Game!Next

\* A step that completes no move keeps the turn, loses it (white only), or halts.
LEMMA NoMoveRefines ==
    ASSUME UNCHANGED gameVars,
           \/ Current'.color \in {Current.color, "none"}
           \/ Current.color = "white" /\ Current'.color = "black"
    PROVE  [Game!Next]_Game!game
BY DEF Game!Next, Game!Skip, Game!Halt, Game!game, gameVars

LEMMA NoMoveTurn ==
    ASSUME NEW pin \in Square, NEW is_up \in BOOLEAN, NEW c \in Color,
           \/ TurnRun(c, pin, is_up)
           \/ MoveRun(c, pin, is_up) /\ (is_up \/ pin = x)
           \/ CaptureRun(c, pin, is_up) /\ AbortCapture(c)
           \/ EnemyCaptureRun(c, pin, is_up)
           \/ /\ CastlingRun(c, pin, is_up) /\ is_started
              /\ is_up \/ pin = KingStart(c) \/ CastleWing(c, pin) # {}
           \/ \E w \in Wing : /\ WingRun(c, w, pin, is_up)
                              /\ ctx' \notin {St(Other(c), "turn")},
           is_started' = TRUE
    PROVE  \/ Current'.color \in {Current.color, "none"}
           \/ Current.color = "white" /\ Current'.color = "black"
<1>1. CASE TurnRun(c, pin, is_up)
  BY <1>1 DEF TurnRun, SetState, Current, St, Error
<1>2. CASE MoveRun(c, pin, is_up) /\ (is_up \/ pin = x)
  BY <1>2 DEF MoveRun, SetState, Current, St, Error
<1>3. CASE CaptureRun(c, pin, is_up) /\ AbortCapture(c)
  BY <1>3 DEF CaptureRun, AbortCapture, Current, St, Error
<1>4. CASE EnemyCaptureRun(c, pin, is_up)
  BY <1>4 DEF EnemyCaptureRun, SetState, Current, St, Error
<1>5. CASE /\ CastlingRun(c, pin, is_up) /\ is_started
           /\ is_up \/ pin = KingStart(c) \/ CastleWing(c, pin) # {}
  BY <1>5 DEF CastlingRun, SetState, Current, St, WingSt, Error
<1>6. ASSUME NEW w \in Wing, WingRun(c, w, pin, is_up), ctx' # St(Other(c), "turn")
      PROVE  Current'.color \in {Current.color, "none"}
  BY <1>6 DEF WingRun, KingdownRun, KingdownRookupRun, KingupRookupRun,
              KingupRookdownRun, EndCastling, SetState, Current, WingSt, St, Error
<1>. QED BY <1>1, <1>2, <1>3, <1>4, <1>5, <1>6

LEMMA RunRefines ==
    ASSUME Inv, NEW pin \in Square, NEW is_up \in BOOLEAN, Run(pin, is_up),
           is_started' = TRUE
    PROVE  [Game!Next]_Game!game
<1>1. PICK c \in Color :
        \/ TurnRun(c, pin, is_up)
        \/ MoveRun(c, pin, is_up)
        \/ CaptureRun(c, pin, is_up)
        \/ EnemyCaptureRun(c, pin, is_up)
        \/ CastlingRun(c, pin, is_up)
        \/ \E w \in Wing : WingRun(c, w, pin, is_up)
  BY DEF Run
<1>. /\ TypeOK /\ HeldPieces /\ x \in Square /\ y \in Square
     /\ KingStart(c) \in Square /\ King(c) \in PieceOf(c)
  BY SquareFacts, PieceFacts DEF Inv, TypeOK, Wing
<1>2. CASE TurnRun(c, pin, is_up) \/ EnemyCaptureRun(c, pin, is_up)
  BY <1>2, NoMoveTurn, NoMoveRefines DEF TurnRun, EnemyCaptureRun
<1>3. CASE MoveRun(c, pin, is_up)
  <2>1. CASE is_up \/ pin = x
    <3>1. UNCHANGED gameVars
      BY <1>3, <2>1 DEF MoveRun
    <3>. QED BY <1>3, <2>1, <3>1, NoMoveTurn, NoMoveRefines
  <2>2. CASE ~is_up /\ pin # x
    <3>1. Current.color = c /\ board[x] \in PieceOf(c)
      BY <1>3 DEF MoveRun, HeldPieces, St, IsOwn
    <3>2. CompleteMove(c, x, pin)
      BY <1>3, <2>2 DEF MoveRun
    <3>. QED BY <2>2, <3>1, <3>2, MoveRefines DEF CompleteMove, SetState
  <2>. QED BY <2>1, <2>2
<1>4. CASE CaptureRun(c, pin, is_up)
  <2>1. /\ Current.color = c /\ board[x] \in PieceOf(c) /\ board[y] \in PieceOf(Other(c))
    BY <1>4 DEF CaptureRun, HeldPieces, St, IsOwn, IsEnemy
  <2>2. CASE ~is_up /\ (pin = y \/ IsEnPassant(pin))
    <3>1. /\ board' = HandlePromotion(c, CaptureBoard(pin), pin)
          /\ SendMove(x, pin) /\ ply' = (ply + 1) % U8
          /\ ctx' = St(Other(c), "turn")
      BY <1>4, <2>2 DEF CaptureRun, SetState
    <3>2. CASE IsEnPassant(pin)
      BY <2>1, <3>1, <3>2, EnPassantRefines
    <3>3. CASE ~IsEnPassant(pin)
      <4>1. pin = y /\ x # y /\ CaptureBoard(pin) = Relocate(x, pin)
        BY <2>1, <2>2, <3>3, PieceFacts DEF CaptureBoard
      <4>. QED BY <2>1, <3>1, <4>1, MoveRefines
    <3>. QED BY <3>2, <3>3
  <2>3. CASE is_up \/ ~(pin = y \/ IsEnPassant(pin))
    <3>1. AbortCapture(c) /\ UNCHANGED gameVars
      BY <1>4, <2>3 DEF CaptureRun
    <3>. QED BY <1>4, <3>1, NoMoveTurn, NoMoveRefines
  <2>. QED BY <2>2, <2>3
<1>5. CASE CastlingRun(c, pin, is_up)
  <2>1. /\ Current.color = c /\ is_started
        /\ board[KingStart(c)] \in PieceOf(c)
    <3>1. Current = St(c, "castling")
      BY <1>5 DEF CastlingRun
    <3>2. Current.color = c
      BY <3>1 DEF St
    <3>3. is_started
      BY <3>1 DEF Current, St
    <3>4. board[KingStart(c)] = King(c)
      BY <3>1 DEF HeldPieces, CanCastle
    <3>. QED BY <3>2, <3>3, <3>4
  <2>2. CASE ~is_up /\ pin # KingStart(c) /\ CastleWing(c, pin) = {}
    <3>1. CompleteMove(c, KingStart(c), pin)
      BY <1>5, <2>2 DEF CastlingRun, CastleWing
    <3>. QED BY <2>1, <2>2, <3>1, MoveRefines DEF CompleteMove, SetState
  <2>3. CASE is_up \/ pin = KingStart(c) \/ CastleWing(c, pin) # {}
    <3>1. UNCHANGED gameVars
      BY <1>5, <2>3 DEF CastlingRun
    <3>. QED BY <1>5, <2>1, <2>3, <3>1, NoMoveTurn, NoMoveRefines
  <2>. QED BY <2>2, <2>3
<1>6. ASSUME NEW w \in Wing, WingRun(c, w, pin, is_up)
      PROVE  [Game!Next]_Game!game
  <2>1. CASE EndCastling(c, w) /\ ~UNCHANGED gameVars
    <3>1. PICK ph \in WingPhase \ {"kingdown"} : Current = WingSt(c, ph, w)
      BY <1>6, <2>1 DEF WingRun, KingdownRun, KingdownRookupRun, KingupRookupRun,
                        KingupRookdownRun, WingPhase
    <3>2. /\ Current.color = c /\ board[KingStart(c)] = King(c)
          /\ board[RookStart(c, w)] = Rook(c)
      BY <3>1 DEF HeldPieces, WingSt
    <3>. QED BY <2>1, <3>2, CastleRefines
  <2>2. CASE UNCHANGED gameVars
    <3>1. ~EndCastling(c, w)
      <4>. SUFFICES ASSUME EndCastling(c, w) PROVE FALSE
        OBVIOUS
      <4>1. board'[KingStart(c)] = Empty
        BY SquareFacts DEF EndCastling, TypeOK
      <4>2. PICK ph \in WingPhase : Current = WingSt(c, ph, w)
        BY <1>6 DEF WingRun, KingdownRun, KingdownRookupRun, KingupRookupRun,
                    KingupRookdownRun, WingPhase
      <4>3. board[KingStart(c)] = King(c)
        BY <4>2 DEF HeldPieces
      <4>. QED BY <2>2, <4>1, <4>3, PieceFacts DEF gameVars
    <3>2. ctx' # St(Other(c), "turn")
      BY <1>6, <3>1 DEF WingRun, KingdownRun, KingdownRookupRun, KingupRookupRun,
                        KingupRookdownRun, SetState, St, WingSt, Error
    <3>. QED BY <1>6, <2>2, <3>2, NoMoveTurn, NoMoveRefines
  <2>. QED BY <1>6, <2>1, <2>2 DEF WingRun, KingdownRun, KingdownRookupRun,
              KingupRookupRun, KingupRookdownRun
<1>. QED BY <1>1, <1>2, <1>3, <1>4, <1>5, <1>6

LEMMA NextRefines == Inv /\ [Next]_vars => [Game!Next]_Game!game
<1>. SUFFICES ASSUME Inv, [Next]_vars PROVE [Game!Next]_Game!game
  OBVIOUS
<1>1. CASE Reset
  <2>1. Current'.color = "white"
    BY <1>1 DEF Reset, Current, St
  <2>2. Game!NewGame
    BY <1>1, <2>1, SameModel DEF Reset, Game!NewGame
  <2>. QED BY <2>2 DEF Game!Next
<1>2. ASSUME NEW pin \in Pins, NEW is_up \in BOOLEAN, PinChange(pin, is_up)
      PROVE  [Game!Next]_Game!game
  <2>. pin \in Square
    BY PinsAssumption DEF Square
  <2>1. CASE Run(pin, is_up)
    BY <1>2, <2>1, RunRefines DEF PinChange
  <2>2. CASE ErrorRun
    <3>1. Current'.color = Current.color /\ UNCHANGED gameVars
      BY <1>2, <2>2 DEF PinChange, ErrorRun, Current, St, Error
    <3>. QED BY <3>1, NoMoveRefines
  <2>3. CASE is_started /\ UNCHANGED <<ctx, state_val, x, y, gameVars>>
    <3>1. Current'.color = Current.color /\ UNCHANGED gameVars
      BY <1>2, <2>3 DEF PinChange, Current
    <3>. QED BY <3>1, NoMoveRefines
  <2>. QED BY <1>2, <2>1, <2>2, <2>3 DEF PinChange
<1>3. CASE UNCHANGED vars
  <2>1. Current'.color = Current.color /\ UNCHANGED gameVars
    BY <1>3 DEF vars, Current
  <2>. QED BY <2>1, NoMoveRefines
<1>. QED BY <1>1, <1>2, <1>3 DEF Next

\* The machine implements the game of whole moves: every event is a whole move
\* of the side to move, a halt, a lost turn of white, a new game, or nothing.
THEOREM Refinement == Spec => ImplementsAtomicGame
BY InitRefines, Invariance, NextRefines, PTL DEF Spec, ImplementsAtomicGame, Game!Spec
=============================================================================
