---------------------------- MODULE ChessPosition ---------------------------
(***************************************************************************)
(* Positions and what chessboard-1.0.0.js computes on them: the distance   *)
(* of squares, the closest piece, the effect of moves, the animations that *)
(* lead from a position to another.                                        *)
(*                                                                         *)
(* A square is <<column, row>>; a position object is a function whose      *)
(* domain is the set of its keys, the squares that carry a piece.  The     *)
(* board has Files columns and Ranks rows (8 and 8 in the code).           *)
(***************************************************************************)
EXTENDS Integers, FiniteSets, Sequences

CONSTANTS Files, Ranks,
          Pieces            \* piece codes: wP, bK, ...

ASSUME BoardAssumption ==
    Files \in Nat \ {0} /\ Ranks \in Nat \ {0}

Squares == (1..Files) \X (1..Ranks)

\* What validPositionObject accepts.
Positions == UNION {[S -> Pieces] : S \in SUBSET Squares}

Without(pos, S) == [s \in DOMAIN pos \ S |-> pos[s]]

With(pos, s, piece) ==
    [t \in DOMAIN pos \union {s} |-> IF t = s THEN piece ELSE pos[t]]

PieceCount(pos, piece) == Cardinality({s \in DOMAIN pos : pos[s] = piece})

-----------------------------------------------------------------------------
(* Distances *)

Abs(n) == IF n < 0 THEN -n ELSE n

SquareDistance(s, t) ==
    LET dx == Abs(s[1] - t[1])
        dy == Abs(s[2] - t[2])
    IN  IF dx >= dy THEN dx ELSE dy

\* t comes before u in createRadius(s): a stable sort by distance of the
\* squares listed column by column.
Nearer(s, t, u) ==
    LET dt == SquareDistance(s, t)
        du == SquareDistance(s, u)
    IN  \/ dt < du
        \/ dt = du /\ t[1] < u[1]
        \/ dt = du /\ t[1] = u[1] /\ t[2] <= u[2]

\* The squares that findClosestPiece may return: other squares that carry it.
Carriers(pos, piece, s) == {t \in DOMAIN pos \ {s} : pos[t] = piece}

FindClosestPiece(pos, piece, s) ==
    LET C == Carriers(pos, piece, s)
    IN  CHOOSE t \in C : \A u \in C : Nearer(s, t, u)

-----------------------------------------------------------------------------
(* calculatePositionFromMoves *)

\* Mutant: the source square keeps its piece.
MoveOneLeavesCopy(pos, src, dst) ==
    IF src \in DOMAIN pos THEN With(pos, dst, pos[src]) ELSE pos

\* One entry of the moves object.
MoveOne(pos, src, dst) ==
    IF src \in DOMAIN pos THEN With(Without(pos, {src}), dst, pos[src]) ELSE pos

\* moves: a sequence of <<source, destination>> in the order of the keys.
CalculatePositionFromMoves(pos, moves) ==
    LET after[n \in 0..Len(moves)] ==
            IF n = 0 THEN pos
            ELSE MoveOne(after[n - 1], moves[n][1], moves[n][2])
    IN  after[Len(moves)]

-----------------------------------------------------------------------------
(* calculateAnimations *)

\* Squares whose piece is the same in both positions are left alone.
Changed(pos, other) ==
    Without(pos, {s \in DOMAIN pos \intersect DOMAIN other : pos[s] = other[s]})

\* Mutant: a piece found is not removed from pos1 (delete pos1[closestPiece]).
MatchStepForgetsSource(m, pos2) ==
    {LET from == FindClosestPiece(m.left, pos2[s], s)
     IN  IF Carriers(m.left, pos2[s], s) = {}
         THEN [m EXCEPT !.todo = @ \ {s}, !.adds = @ \union {s}]
         ELSE [m EXCEPT !.todo = @ \ {s}, !.moves = @ \union {<<from, s>>}]
     : s \in m.todo}

\* The matching loop after n squares of pos2 have been looked at, in each
\* order in which the keys may come: what is left to look at, what is left of
\* pos1, the moves found, and the squares that found no piece.
MatchStep(m, pos2) ==
    {LET from == FindClosestPiece(m.left, pos2[s], s)
     IN  IF Carriers(m.left, pos2[s], s) = {}
         THEN [m EXCEPT !.todo = @ \ {s}, !.adds = @ \union {s}]
         ELSE [m EXCEPT !.todo = @ \ {s},
                        !.left = Without(@, {from}),
                        !.moves = @ \union {<<from, s>>}]
     : s \in m.todo}

Matchings(pos1, pos2) ==
    LET start == [todo |-> DOMAIN pos2, left |-> pos1, moves |-> {}, adds |-> {}]
        after[n \in 0..Cardinality(DOMAIN pos2)] ==
            IF n = 0 THEN {start}
            ELSE UNION {MatchStep(m, pos2) : m \in after[n - 1]}
    IN  after[Cardinality(DOMAIN pos2)]

\* A square a piece moves to is not cleared: its piece is captured.
Clears(m) == DOMAIN m.left \ {move[2] : move \in m.moves}

\* The animations that calculateAnimations may return: moves as <<source,
\* destination>>, squares to add a piece to, squares to clear.
CalculateAnimations(pos1, pos2) ==
    {[moves |-> m.moves, adds |-> m.adds, clears |-> Clears(m)]
     : m \in Matchings(Changed(pos1, pos2), Changed(pos2, pos1))}

AnimationCount(plan) ==
    Cardinality(plan.moves) + Cardinality(plan.adds) + Cardinality(plan.clears)
=============================================================================
