-------------------------- MODULE MCPhysicalBoard ---------------------------
(***************************************************************************)
(* A small instance of PhysicalBoard: each behaviour chooses at the start  *)
(* the few squares the players touch, and up to which ply they play on.    *)
(***************************************************************************)
EXTENDS PhysicalBoard

VARIABLE hands

Play(squares, plies) == [squares |-> squares, plies |-> plies]

Plays == {
    \* e1, f1, g1, h1, f3 and the black knight of b8: the bishop and the
    \* knight make room, then white castles.
    Play({1, 45, 60, 61, 62, 63}, 5),
    \* As for BoardFsm: the e and d pawns, e3, e4 and the black knight of b8.
    Play({1, 36, 44, 51, 52}, 4) }

AllHands == UNION {h.squares : h \in Plays}

PlyBound == ply <= hands.plies

\* Once the machine is in error or has lost track only a reset is of interest.
OnTrack == tracked /\ Current # Error

MCInit == PhysInit /\ hands \in Plays

MCNext ==
    /\ \/ NewGame
       \/ \E pin \in hands.squares : Lift(pin) \/ Put(pin)
    /\ UNCHANGED hands

MCSpec == MCInit /\ [][MCNext]_<<physVars, hands>>

=============================================================================
