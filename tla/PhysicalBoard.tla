--------------------------- MODULE PhysicalBoard ----------------------------
(***************************************************************************)
(* BoardFsm closed with the board it senses.  Each square has a sensor     *)
(* that tells only whether a piece stands there; a lift is possible where  *)
(* one stands, a put where none does.  The players do what they like:      *)
(* nothing says that they play chess, or wait for their turn.              *)
(*                                                                         *)
(* The machine promises that the board it remembers has pieces exactly     *)
(* where pieces stand, but for those that are in the air.  It may lose     *)
(* track in three ways, each visible to it, which Derails names.           *)
(***************************************************************************)
EXTENDS BoardFsm

VARIABLES
    occ,        \* the squares on which a piece stands
    tracked     \* the machine has not lost track in this game

physVars == <<vars, occ, tracked>>

Occupied(b) == {s \in Square : b[s] # Empty}

\* In state s of the machine: the squares whose piece is in the air, and the
\* squares on which a piece already stands that the board shows only when the
\* castling is over.
InAir(s, moving, captured) ==
    CASE s.phase = "move" -> {moving}
      [] s.phase = "capture" -> {moving, captured}
      [] s.phase = "enemy_capture" -> {captured}
      [] s.phase \in {"castling", "kingdown"} -> {KingStart(s.color)}
      [] s.phase \in WingPhase \ {"kingdown"} ->
             {KingStart(s.color), RookStart(s.color, s.wing)}
      [] OTHER -> {}

Arrived(s) ==
    CASE s.phase \in {"kingdown", "kingdown_ROOKUP"} -> {KingCastle(s.color, s.wing)}
      [] s.phase = "KINGUP_rookdown" -> {RookCastle(s.color, s.wing)}
      [] OTHER -> {}

Expected == (Occupied(board) \ InAir(Current, x, y)) \union Arrived(Current)

\* An event after which the machine's board is wrong although it is not in
\* error: white gives up a capture half way and keeps its turn's half-made
\* move; or a capture is taken for an en passant although the piece is put on
\* the square of the captured piece, or of its own.
Derails(pin, is_up) ==
    \E c \in Color :
        /\ Current = St(c, "capture")
        /\ \/ c = "white" /\ (is_up \/ ~(pin = y \/ IsEnPassant(pin)))
           \/ ~is_up /\ IsEnPassant(pin) /\ pin \in {x, y}

PhysInit ==
    /\ Init
    /\ occ = Occupied(starting_board_initializer)
    /\ tracked = TRUE

Sense(pin, is_up) ==
    /\ PinChange(pin, is_up)
    /\ tracked' = (tracked /\ ~Derails(pin, is_up))

Lift(pin) ==
    /\ pin \in occ
    /\ occ' = occ \ {pin}
    /\ Sense(pin, TRUE)

Put(pin) ==
    /\ pin \notin occ
    /\ occ' = occ \union {pin}
    /\ Sense(pin, FALSE)

\* A reset moves no piece: the machine starts right if the pieces do.
NewGame ==
    /\ Reset
    /\ UNCHANGED occ
    /\ tracked' = (occ = Occupied(starting_board_initializer))

PhysNext ==
    \/ NewGame
    \/ \E pin \in Pins : Lift(pin) \/ Put(pin)

PhysSpec == PhysInit /\ [][PhysNext]_physVars

-----------------------------------------------------------------------------
(* Properties *)

\* While it has not lost track and is not in error, the machine's board has
\* pieces exactly where pieces stand, but for those in the air.
OccupancyTracked == tracked /\ Current # Error => occ = Expected

=============================================================================
