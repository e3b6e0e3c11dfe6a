------------------------------ MODULE BoardFsm ------------------------------
(***************************************************************************)
(* The state machine of the chess board's STM32 (stm32/src/fsm.c).  The    *)
(* board senses only that a piece was lifted from a square or put down on  *)
(* one; pin_change hands each such event to the handler of the current     *)
(* state, and the handlers reconstruct the game from the events: who       *)
(* moves, what stands where, castling rights, en passant, ply counters,    *)
(* and the record of the last move (shell_obj) that is sent on.            *)
(*                                                                         *)
(* White and black have mirrored handlers; one definition, with the colour *)
(* as parameter, stands for both.  Where the two differ in the code        *)
(* (the failing branch of white_capture_run, the squares of a castling     *)
(* record) the definition says so.                                         *)
(***************************************************************************)
EXTENDS BoardModel, FiniteSets

CONSTANTS
    Pins,    \* the squares on which events occur (all 64 on the real board)
    U8       \* number of values of the uint8_t ply counters (256 in the code)

ASSUME PinsAssumption == Pins \subseteq 0..63
ASSUME U8Assumption == U8 \in Nat \ {0}

-----------------------------------------------------------------------------
(* The states of the machine (enum states), and its variables *)

Phase == {"turn", "move", "capture", "enemy_capture", "castling"}
WingPhase == {"kingdown", "KINGUP_ROOKUP", "kingdown_ROOKUP", "KINGUP_rookdown"}

St(c, ph) == [color |-> c, phase |-> ph, wing |-> "none"]
WingSt(c, ph, w) == [color |-> c, phase |-> ph, wing |-> w]
Error == [color |-> "none", phase |-> "error", wing |-> "none"]
NoState == [color |-> "none", phase |-> "null", wing |-> "none"]

States == [color : Color, phase : Phase, wing : {"none"}]
            \union [color : Color, phase : WingPhase, wing : Wing]
            \union {Error}

VARIABLES
    ctx,                \* SMF's current state (NoState before the first event)
    terminated,         \* SMF's terminate_val is not 0
    is_started,         \* FALSE until the first event after a reset
    state_val,          \* the state the firmware reports
    board,              \* what stands on each square
    x, y,               \* square of the moving piece, square of the captured one
    rights,             \* castling rights, per colour and wing
    en_passant, en_passant_square,
    ply, ply_since_ponr,
    shell_obj           \* record of the last completed move

gameVars == <<board, rights, en_passant, en_passant_square, ply,
              ply_since_ponr, shell_obj>>
vars == <<ctx, terminated, is_started, state_val, x, y, gameVars>>

\* shell_obj before the first move: zero-initialised (movetype 0 is EN_PASSANT)
Nul == "NUL"
ZeroRecord == [ply |-> 0, from |-> 0, to |-> 0, piece |-> Nul,
               captured |-> Nul, movetype |-> "EN_PASSANT"]

MoveRecord == [ply : 0..(U8 - 1), from : Square, to : Square,
               piece : Piece \union {Empty, Nul}, captured : {"R", "r", Empty, Nul},
               movetype : {"NORMAL", "CASTLING", "EN_PASSANT"}]

\* Every variable keeps to its C type; en_passant_square is a uint8_t that
\* may lie off the board.
TypeOK ==
    /\ ctx \in States \union {NoState}
    /\ terminated \in BOOLEAN
    /\ is_started \in BOOLEAN
    /\ state_val \in States
    /\ board \in [Square -> Piece \union {Empty}]
    /\ x \in Square /\ y \in Square
    /\ rights \in [Color -> [Wing -> BOOLEAN]]
    /\ en_passant \in BOOLEAN
    /\ en_passant_square \in 0..255
    /\ ply \in 0..(U8 - 1)
    /\ ply_since_ponr \in 0..(U8 - 1)
    /\ shell_obj \in MoveRecord

-----------------------------------------------------------------------------
(* Init: startup_fsm runs reset_fsm once on the zero-initialised state *)

Init ==
    /\ ctx = NoState
    /\ terminated = TRUE
    /\ is_started = FALSE
    /\ state_val = St("white", "turn")
    /\ board = starting_board_initializer
    /\ x = 0 /\ y = 0
    /\ rights = [c \in Color |-> [w \in Wing |-> TRUE]]
    /\ en_passant = FALSE /\ en_passant_square = 0
    /\ ply = 0 /\ ply_since_ponr = 0
    /\ shell_obj = ZeroRecord

\* Mutant: the machine is started in white only after power-up.
CurrentSurvivesReset == IF ctx = NoState THEN St("white", "turn") ELSE ctx

\* The state whose handler the next event runs: pin_change starts the machine
\* in white on the first event after a reset.
Current == IF is_started THEN ctx ELSE St("white", "turn")

\* smf_set_state together with the assignment of state_val next to it.
SetState(s) == ctx' = s /\ state_val' = s

IsOwn(c, pin) == board[pin] \in PieceOf(c)
IsEnemy(c, pin) == board[pin] \in PieceOf(Other(c))

CanCastle(c, pin) == board[pin] = King(c) /\ \E w \in Wing : rights[c][w]

-----------------------------------------------------------------------------
(* The effects of a completed move, in the order the handlers apply them   *)

\* Mutant: the square the piece left is not emptied.
RelocateKeepsOrigin(from, pin) == [board EXCEPT ![pin] = board[from]]

\* The moving piece leaves its square last: moved onto its own square it is lost.
Relocate(from, pin) == [board EXCEPT ![pin] = board[from], ![from] = Empty]

\* Mutant: the square is not cut to a uint8_t.
CheckEnPassantUncut(c, piece, from, pin) ==
    IF piece = Pawn(c)
    THEN /\ en_passant' = (pin - from = (IF c = "white" THEN -16 ELSE 16))
         /\ en_passant_square' = IF c = "white" THEN pin + 8 ELSE pin - 8
    ELSE UNCHANGED <<en_passant, en_passant_square>>

\* check_en_passant: only a pawn's move touches the flag and the square.
CheckEnPassant(c, piece, from, pin) ==
    IF piece = Pawn(c)
    THEN /\ en_passant' = (pin - from = (IF c = "white" THEN -16 ELSE 16))
         /\ en_passant_square' = (IF c = "white" THEN pin + 8 ELSE pin - 8) % 256
    ELSE UNCHANGED <<en_passant, en_passant_square>>

HandlePonr(c, piece) ==
    ply_since_ponr' = IF piece = Pawn(c) THEN 0 ELSE (ply_since_ponr + 1) % U8

\* Mutant: a king's move leaves the queenside right.
CheckCastlingForgetsQueenside(c, piece, from) ==
    rights' = IF piece = King(c) THEN [rights EXCEPT ![c]["kingside"] = FALSE]
              ELSE IF piece = Rook(c) THEN [rights EXCEPT ![c] =
                      [w \in Wing |-> rights[c][w] /\ from = RookStart(c, w)]]
              ELSE rights

\* check_castling: a king's move ends both rights; a rook's move keeps only the
\* right of the corner it left.
CheckCastling(c, piece, from) ==
    rights' = CASE piece = King(c) -> [rights EXCEPT ![c] = [w \in Wing |-> FALSE]]
                [] piece = Rook(c) -> [rights EXCEPT ![c] =
                      [w \in Wing |-> rights[c][w] /\ from = RookStart(c, w)]]
                [] OTHER -> rights

LastRank(c, pin) == IF c = "white" THEN pin < 8 ELSE pin > 55

HandlePromotion(c, b, pin) ==
    IF b[pin] = Pawn(c) /\ LastRank(c, pin)
    THEN [b EXCEPT ![pin] = Queen(c)] ELSE b

\* Mutant: the record is made before the ply is counted.
SendMoveBeforeCount(from, pin) ==
    shell_obj' = [ply |-> ply, from |-> from, to |-> pin, piece |-> board'[pin],
                  captured |-> Empty, movetype |-> "NORMAL"]

SendMove(from, pin) ==
    shell_obj' = [ply |-> ply', from |-> from, to |-> pin, piece |-> board'[pin],
                  captured |-> Empty, movetype |-> "NORMAL"]

\* A record of castling names the rook's start square for white and the rook's
\* castling square for black.
SendMoveCastle(c, w) ==
    shell_obj' = [ply |-> ply', from |-> KingStart(c),
                  to |-> IF c = "white" THEN RookStart(c, w) ELSE RookCastle(c, w),
                  piece |-> King(c), captured |-> Rook(c), movetype |-> "CASTLING"]

\* A piece of colour c is put down on another square than the one it left.
CompleteMove(c, from, pin) ==
    /\ SetState(St(Other(c), "turn"))
    /\ board' = HandlePromotion(c, Relocate(from, pin), pin)
    /\ ply' = (ply + 1) % U8
    /\ CheckEnPassant(c, board[from], from, pin)
    /\ HandlePonr(c, board[from])
    /\ CheckCastling(c, board[from], from)
    /\ SendMove(from, pin)

-----------------------------------------------------------------------------
(* The handlers: white_run and black_run, ..., error_run *)

TurnRun(c, pin, is_up) ==
    /\ Current = St(c, "turn")
    /\ \/ /\ ~is_up \/ board[pin] = Empty
          /\ SetState(Error)
          /\ UNCHANGED <<x, y>>
       \/ /\ is_up /\ CanCastle(c, pin)
          /\ SetState(St(c, "castling"))
          /\ UNCHANGED <<x, y>>
       \/ /\ is_up /\ IsOwn(c, pin) /\ ~CanCastle(c, pin)
          /\ SetState(St(c, "move"))
          /\ x' = pin /\ UNCHANGED y
       \/ /\ is_up /\ IsEnemy(c, pin)
          /\ SetState(St(c, "enemy_capture"))
          /\ y' = pin /\ UNCHANGED x
    /\ UNCHANGED gameVars

MoveRun(c, pin, is_up) ==
    /\ Current = St(c, "move")
    /\ \/ /\ ~is_up /\ pin = x
          /\ SetState(St(c, "turn"))
          /\ UNCHANGED <<y, gameVars>>
       \/ /\ ~is_up /\ pin # x
          /\ CompleteMove(c, x, pin)
          /\ UNCHANGED y
       \/ /\ is_up /\ IsEnemy(c, pin)
          /\ SetState(St(c, "capture"))
          /\ y' = pin
          /\ UNCHANGED gameVars
       \/ /\ is_up /\ ~IsEnemy(c, pin)
          /\ SetState(Error)
          /\ UNCHANGED <<y, gameVars>>
    /\ UNCHANGED x

IsEnPassant(pin) == en_passant /\ en_passant_square = pin

\* Mutant: an en passant leaves the captured pawn.
CaptureBoardKeepsVictim(pin) == Relocate(x, pin)

\* The board after a capture; after an en passant the square y is cleared as
\* well, even if it is the square the capturer was put on.
CaptureBoard(pin) ==
    IF IsEnPassant(pin) THEN [Relocate(x, pin) EXCEPT ![y] = Empty]
    ELSE Relocate(x, pin)

\* A capture that is not completed: white_capture_run reports error but goes to
\* black; black_capture_run goes to error.
AbortCapture(c) ==
    /\ state_val' = Error
    /\ ctx' = IF c = "white" THEN St("black", "turn") ELSE Error

CaptureRun(c, pin, is_up) ==
    /\ Current = St(c, "capture")
    /\ \/ /\ ~is_up /\ (pin = y \/ IsEnPassant(pin))
          /\ SetState(St(Other(c), "turn"))
          /\ board' = HandlePromotion(c, CaptureBoard(pin), pin)
          /\ ply_since_ponr' = 0
          /\ ply' = (ply + 1) % U8
          /\ en_passant' = FALSE
          /\ CheckCastling(c, CaptureBoard(pin)[pin], x)
          /\ SendMove(x, pin)
          /\ UNCHANGED en_passant_square
       \/ /\ is_up \/ ~(pin = y \/ IsEnPassant(pin))
          /\ AbortCapture(c)
          /\ UNCHANGED gameVars
    /\ UNCHANGED <<x, y>>

EnemyCaptureRun(c, pin, is_up) ==
    /\ Current = St(c, "enemy_capture")
    /\ \/ /\ is_up /\ IsOwn(c, pin)
          /\ SetState(St(c, "capture"))
          /\ x' = pin
       \/ /\ ~is_up /\ pin = y
          /\ SetState(St(c, "turn"))
          /\ UNCHANGED x
       \/ /\ IF is_up THEN ~IsOwn(c, pin) ELSE pin # y
          /\ SetState(Error)
          /\ UNCHANGED x
    /\ UNCHANGED <<y, gameVars>>

\* A square on which a lifted king may be put to start castling.
CastleWing(c, pin) == {w \in Wing : pin = KingCastle(c, w) /\ rights[c][w]}
\* A corner whose rook may be lifted to castle.
RookWing(c, pin) ==
    {w \in Wing : board[pin] = Rook(c) /\ pin = RookStart(c, w) /\ rights[c][w]}

CastlingRun(c, pin, is_up) ==
    /\ Current = St(c, "castling")
    /\ \/ /\ ~is_up /\ pin = KingStart(c)
          /\ SetState(St(c, "turn"))
          /\ UNCHANGED <<x, y, gameVars>>
       \/ /\ ~is_up
          /\ \E w \in CastleWing(c, pin) : SetState(WingSt(c, "kingdown", w))
          /\ UNCHANGED <<x, y, gameVars>>
       \* an ordinary king move: the move state is entered and run at once
       \/ /\ ~is_up /\ pin # KingStart(c) /\ CastleWing(c, pin) = {}
          /\ x' = KingStart(c)
          /\ CompleteMove(c, KingStart(c), pin)
          /\ UNCHANGED y
       \/ /\ is_up
          /\ \E w \in RookWing(c, pin) : SetState(WingSt(c, "KINGUP_ROOKUP", w))
          /\ UNCHANGED <<x, y, gameVars>>
       \/ /\ is_up /\ IsOwn(c, pin) /\ RookWing(c, pin) = {}
          /\ SetState(Error)
          /\ UNCHANGED <<x, y, gameVars>>
       \/ /\ is_up /\ IsEnemy(c, pin)
          /\ SetState(St(c, "capture"))
          /\ y' = pin /\ x' = KingStart(c)
          /\ UNCHANGED gameVars
       \/ /\ is_up /\ board[pin] = Empty
          /\ UNCHANGED <<ctx, state_val, x, y, gameVars>>

\* Mutant: the corner the rook left is not emptied.
EndCastlingKeepsRook(c, w) ==
    /\ SetState(St(Other(c), "turn"))
    /\ rights' = [rights EXCEPT ![c] = [v \in Wing |-> FALSE]]
    /\ ply' = (ply + 1) % U8
    /\ en_passant' = FALSE
    /\ board' = [board EXCEPT ![RookCastle(c, w)] = Rook(c),
                              ![KingStart(c)] = Empty,
                              ![KingCastle(c, w)] = King(c)]
    /\ SendMoveCastle(c, w)
    /\ UNCHANGED <<en_passant_square, ply_since_ponr>>

\* END_KINGSIDE_CASTLING_* and END_QUEENSIDE_CASTLING_*, then send_move_castle_*
EndCastling(c, w) ==
    /\ SetState(St(Other(c), "turn"))
    /\ rights' = [rights EXCEPT ![c] = [v \in Wing |-> FALSE]]
    /\ ply' = (ply + 1) % U8
    /\ en_passant' = FALSE
    /\ board' = [board EXCEPT ![RookStart(c, w)] = Empty,
                              ![RookCastle(c, w)] = Rook(c),
                              ![KingStart(c)] = Empty,
                              ![KingCastle(c, w)] = King(c)]
    /\ SendMoveCastle(c, w)
    /\ UNCHANGED <<en_passant_square, ply_since_ponr>>

KingdownRun(c, w, pin, is_up) ==
    /\ Current = WingSt(c, "kingdown", w)
    /\ IF is_up /\ board[pin] = Rook(c) /\ pin = RookStart(c, w)
       THEN SetState(WingSt(c, "kingdown_ROOKUP", w))
       ELSE SetState(Error)
    /\ UNCHANGED gameVars

KingdownRookupRun(c, w, pin, is_up) ==
    /\ Current = WingSt(c, "kingdown_ROOKUP", w)
    /\ IF ~is_up /\ pin = RookCastle(c, w)
       THEN EndCastling(c, w)
       ELSE SetState(Error) /\ UNCHANGED gameVars

KingupRookupRun(c, w, pin, is_up) ==
    /\ Current = WingSt(c, "KINGUP_ROOKUP", w)
    /\ \/ /\ ~is_up /\ pin = KingCastle(c, w)
          /\ SetState(WingSt(c, "kingdown_ROOKUP", w))
       \/ /\ ~is_up /\ pin = RookCastle(c, w)
          /\ SetState(WingSt(c, "KINGUP_rookdown", w))
       \/ /\ is_up \/ pin \notin {KingCastle(c, w), RookCastle(c, w)}
          /\ SetState(Error)
    /\ UNCHANGED gameVars

KingupRookdownRun(c, w, pin, is_up) ==
    /\ Current = WingSt(c, "KINGUP_rookdown", w)
    /\ IF ~is_up /\ pin = KingCastle(c, w)
       THEN EndCastling(c, w)
       ELSE SetState(Error) /\ UNCHANGED gameVars

WingRun(c, w, pin, is_up) ==
    /\ \/ KingdownRun(c, w, pin, is_up)
       \/ KingdownRookupRun(c, w, pin, is_up)
       \/ KingupRookupRun(c, w, pin, is_up)
       \/ KingupRookdownRun(c, w, pin, is_up)
    /\ UNCHANGED <<x, y>>

Run(pin, is_up) ==
    \E c \in Color :
        \/ TurnRun(c, pin, is_up)
        \/ MoveRun(c, pin, is_up)
        \/ CaptureRun(c, pin, is_up)
        \/ EnemyCaptureRun(c, pin, is_up)
        \/ CastlingRun(c, pin, is_up)
        \/ \E w \in Wing : WingRun(c, w, pin, is_up)

\* The first event in error only terminates the machine.
ErrorRun ==
    /\ Current = Error
    /\ terminated' = TRUE
    /\ UNCHANGED <<ctx, state_val, x, y, gameVars>>

-----------------------------------------------------------------------------
(* pin_change, the only entry point of events; reset_fsm *)

\* A terminated machine runs no handler until a reset.
PinChange(pin, is_up) ==
    /\ is_started' = TRUE
    /\ \/ /\ is_started => ~terminated
          /\ \/ Run(pin, is_up) /\ terminated' = FALSE
             \/ ErrorRun
       \/ /\ is_started /\ terminated
          /\ UNCHANGED <<ctx, terminated, state_val, x, y, gameVars>>

Reset ==
    /\ terminated' = TRUE
    /\ is_started' = FALSE
    /\ state_val' = St("white", "turn")
    /\ board' = starting_board_initializer
    /\ x' = 0 /\ y' = 0
    /\ rights' = [c \in Color |-> [w \in Wing |-> TRUE]]
    /\ en_passant' = FALSE /\ en_passant_square' = 0
    /\ ply' = 0 /\ ply_since_ponr' = 0
    /\ UNCHANGED <<ctx, shell_obj>>

Next == Reset \/ \E pin \in Pins, is_up \in BOOLEAN : PinChange(pin, is_up)

Spec == Init /\ [][Next]_vars

-----------------------------------------------------------------------------
(* Properties *)

\* A king with a castling right left stands at home (check_castling ends the
\* rights in every way a king can leave), and no colour ever has two kings.
KingHome ==
    \A c \in Color, s \in Square : board[s] = King(c) =>
        /\ (\E w \in Wing : rights[c][w]) => s = KingStart(c)
        /\ \A t \in Square : board[t] = King(c) => t = s

\* In the middle of a move the machine remembers real pieces: x holds a piece
\* of the side to move and y one of the opponent's, a castling king and rook
\* are still at home and the right is still there.  The handlers that complete
\* the move rely on it and do not check again.
HeldPieces ==
    \A c \in Color :
        /\ Current \in {St(c, "move"), St(c, "capture")} => IsOwn(c, x)
        /\ Current \in {St(c, "enemy_capture"), St(c, "capture")} => IsEnemy(c, y)
        /\ Current = St(c, "castling") => CanCastle(c, KingStart(c))
        /\ \A w \in Wing :
             /\ \A ph \in WingPhase : Current = WingSt(c, ph, w) =>
                     board[KingStart(c)] = King(c) /\ rights[c][w]
             /\ \A ph \in WingPhase \ {"kingdown"} : Current = WingSt(c, ph, w) =>
                     board[RookStart(c, w)] = Rook(c)

\* The record of the last move describes the board until the next move
\* completes, whatever is lifted, put back or aborted in between.  (A castling
\* record names other squares for white than for black; only the square the
\* king left is common.)
RecordMatchesBoard ==
    ply # 0 =>
        /\ shell_obj.ply = ply
        /\ board[shell_obj.from] = Empty
        /\ shell_obj.movetype = "NORMAL" => board[shell_obj.to] = shell_obj.piece

Count(p) == Cardinality({s \in Square : board[s] = p})

\* No event makes a piece appear: within a game the number of each kind of
\* piece only falls, except that a queen may take the place of a pawn.
NoPieceAppears ==
    [][is_started' =>
         \A c \in Color : \A p \in PieceOf(c) :
            \/ Count(p)' <= Count(p)
            \/ /\ p = Queen(c) /\ Count(p)' = Count(p) + 1
               /\ Count(Pawn(c))' = Count(Pawn(c)) - 1]_vars

\* The machine implements the game of whole moves.
Game == INSTANCE AtomicGame WITH
            placement <- board,
            turn <- Current.color,
            last <- [ply |-> shell_obj.ply, from |-> shell_obj.from]
ImplementsAtomicGame == Game!Spec

\* A piece that captures or moves stands on the square it was put on.  It may
\* not, when the square is also a remembered en passant square (fsm.c:424).
MoverStandsOnTarget ==
    ply # 0 /\ shell_obj.movetype = "NORMAL" => board[shell_obj.to] # Empty

=============================================================================
