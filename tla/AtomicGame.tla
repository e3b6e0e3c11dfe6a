----------------------------- MODULE AtomicGame -----------------------------
(***************************************************************************)
(* What the board's state machine promises to those who read its board and *)
(* its move records: a game in which whole moves happen, one per ply, by   *)
(* the side whose turn it is.  Lifting and putting down pieces does not    *)
(* show.  Two steps are not chess but are what fsm.c can do, and a reader  *)
(* of the records must know of them: white may lose its turn (Skip), and a *)
(* capture on a remembered en passant square may clear the square the      *)
(* capturer was put on (CaptureEnPassant with victim = to or from = to).   *)
(***************************************************************************)
EXTENDS BoardModel

CONSTANT U8     \* number of values of the ply counter

VARIABLES
    placement,   \* what stands on each square
    turn,        \* the side to move; "none" once the game is halted
    ply,         \* completed moves, modulo U8
    last         \* ply and origin of the last recorded move

game == <<placement, turn, ply, last>>

Init ==
    /\ placement = starting_board_initializer
    /\ turn = "white"
    /\ ply = 0
    /\ last = [ply |-> 0, from |-> 0]

\* The bookkeeping of every completed move.
Completed(from) ==
    /\ turn \in Color
    /\ turn' = Other(turn)
    /\ ply' = (ply + 1) % U8
    /\ last' = [ply |-> ply', from |-> from]

\* The piece put on square to: the one that left, or the queen it became.
Arrivals(piece, to) ==
    {piece} \union
        {Queen(c) : c \in {d \in Color : /\ piece = Pawn(d)
                                         /\ IF d = "white" THEN to < 8 ELSE to > 55}}

\* A move of the side to move; what stood on the square it goes to is gone.
Move(from) ==
    /\ Completed(from)
    /\ placement[from] \in PieceOf(turn)
    /\ \E to \in Square \ {from} :
         \E piece \in Arrivals(placement[from], to) :
           placement' = [placement EXCEPT ![from] = Empty, ![to] = piece]

\* An en passant capture: the captured piece stands on another square.
CaptureEnPassant(from) ==
    /\ Completed(from)
    /\ placement[from] \in PieceOf(turn)
    /\ \E to, victim \in Square :
         /\ placement[victim] \in PieceOf(Other(turn))
         /\ \E piece \in Arrivals(placement[from], to) \union {Empty} :
              /\ piece = Empty <=> to \in {from, victim}
              /\ placement' = [placement EXCEPT ![from] = Empty, ![victim] = Empty,
                                                ![to] = piece]

\* Castling moves a king and a rook that are still at home.
Castle(w) ==
    /\ turn \in Color
    /\ placement[KingStart(turn)] = King(turn)
    /\ placement[RookStart(turn, w)] = Rook(turn)
    /\ placement' = [placement EXCEPT ![KingStart(turn)] = Empty,
                                      ![RookStart(turn, w)] = Empty,
                                      ![KingCastle(turn, w)] = King(turn),
                                      ![RookCastle(turn, w)] = Rook(turn)]
    /\ Completed(KingStart(turn))

\* White gives up a capture half way and black is to move.
Skip ==
    /\ turn = "white"
    /\ turn' = "black"
    /\ UNCHANGED <<placement, ply, last>>

\* An impossible event: only a new game continues.
Halt ==
    /\ turn' = "none"
    /\ UNCHANGED <<placement, ply, last>>

NewGame ==
    /\ placement' = starting_board_initializer
    /\ turn' = "white"
    /\ ply' = 0
    /\ UNCHANGED last

Next ==
    \/ \E from \in Square : Move(from) \/ CaptureEnPassant(from)
    \/ \E w \in Wing : Castle(w)
    \/ Skip
    \/ Halt
    \/ NewGame

Spec == Init /\ [][Next]_game

=============================================================================
