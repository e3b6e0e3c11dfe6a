--------------------------- MODULE MCWidgetParts ----------------------------
(***************************************************************************)
(* The parts of the chessboard widget that keep no state of their own, and *)
(* its throttle.  A behaviour looks at one of them: an editor changes one  *)
(* square of a position at a time, a typist types FEN texts character by   *)
(* character, or calls reach the throttle.                                 *)
(***************************************************************************)
EXTENDS Fen, Throttle

CONSTANTS MaxPieces,               \* bound: pieces of a position
          Keys,                    \* the characters typed
          MaxLength                \* bound: characters and slashes typed

VARIABLES part,                    \* the part looked at
          pos1, pos2,
          fen                      \* the rows typed so far

Letters == [P |-> "wP", p |-> "bP"]

SmallPositions == {pos \in Positions : Cardinality(DOMAIN pos) <= MaxPieces}

edited == <<pos1, pos2>>

PartsInit ==
    /\ part \in {"positions", "texts", "throttle"}
    /\ pos1 \in IF part = "positions" THEN SmallPositions ELSE {<<>>}
    /\ pos2 = pos1
    /\ fen = << <<>> >>
    /\ ThrottleInit

Place(s, piece) ==
    /\ pos2' = With(pos2, s, piece)
    /\ Cardinality(DOMAIN pos2') <= MaxPieces
    /\ UNCHANGED <<pos1, fen, throttleVars>>

TakeAway(s) ==
    /\ s \in DOMAIN pos2
    /\ pos2' = Without(pos2, {s})
    /\ UNCHANGED <<pos1, fen, throttleVars>>

Typed == FoldLeft(LAMBDA n, row : n + 1 + Len(row), 0, fen) - 1

\* A character is typed in the last row.
TypeCharacter(c) ==
    /\ Typed < MaxLength
    /\ fen' = [fen EXCEPT ![Len(fen)] = Append(@, c)]
    /\ UNCHANGED <<edited, throttleVars>>

TypeSlash ==
    /\ Typed < MaxLength
    /\ fen' = Append(fen, <<>>)
    /\ UNCHANGED <<edited, throttleVars>>

PartsNext ==
    /\ UNCHANGED part
    /\ CASE part = "positions" ->
                \E s \in Squares : TakeAway(s) \/ \E piece \in Pieces : Place(s, piece)
         [] part = "texts" -> TypeSlash \/ \E c \in Keys : TypeCharacter(c)
         [] OTHER -> ThrottleNext /\ UNCHANGED <<edited, fen>>

\* The throttle's fairness is that of ThrottleSpec.
PartsSpec ==
    /\ PartsInit /\ [][PartsNext]_<<part, edited, fen, throttleVars>>
    /\ WF_throttleVars(HandleTimeout) /\ WF_throttleVars(Tick)

-----------------------------------------------------------------------------
(* Positions *)

\* What a plan makes of pos1 once every animation has run.
Carried(plan) ==
    LET gone == plan.clears \union {m[1] : m \in plan.moves}
        landed == {m[2] : m \in plan.moves}
        Source(s) == (CHOOSE m \in plan.moves : m[2] = s)[1]
    IN  [s \in (DOMAIN pos1 \ gone) \union landed \union plan.adds |->
            IF s \in plan.adds THEN pos2[s]
            ELSE IF s \in landed THEN pos1[Source(s)] ELSE pos1[s]]

\* calculateAnimations (1034-1104) gets from pos1 to pos2, in whatever order
\* the keys of the positions come, captures, swaps and pieces that change places
\* included, and asks of no piece that it go two ways.  A piece that is on the
\* board in both positions is never faded out at one square and in at another:
\* what is added could not have been moved.
AnimationsReachTarget ==
    \A plan \in CalculateAnimations(pos1, pos2) :
        /\ Carried(plan) = pos2
        /\ \A m \in plan.moves :
            /\ m[1] \notin plan.clears
            /\ \A other \in plan.moves : other[1] = m[1] => other = m
        /\ \A s \in plan.adds, t \in plan.clears : pos1[t] # pos2[s]

\* calculatePositionFromMoves (494-511, which asks for asserts at 513): two
\* moves that do not meet commute, and no moves make a piece that was not
\* there before.  (Each position is pos1 and pos2 of some state.)
MovesKeepPieces ==
    part = "positions" /\ pos1 = pos2 =>
        \A m1, m2 \in Squares \X Squares :
            LET after == CalculatePositionFromMoves(pos2, <<m1, m2>>)
            IN  /\ \A piece \in Pieces :
                       PieceCount(after, piece) <= PieceCount(pos2, piece)
                /\ {m1[1], m1[2]} \intersect {m2[1], m2[2]} = {} =>
                       after = CalculatePositionFromMoves(pos2, <<m2, m1>>)
-----------------------------------------------------------------------------
(* FEN texts *)

\* The number of columns a row spells: the sum of its digits, and one for each
\* other character.
Width(row) ==
    LET w[n \in 0..Len(row)] ==
            IF n = 0 THEN 0
            ELSE w[n - 1] + (IF IsDigit(row[n]) THEN Number(row[n]) ELSE 1)
    IN  w[Len(row)]

\* validFen (225-248) accepts a text exactly when it has a row for each rank
\* and each row spells the width of the board, its digits written in any way,
\* with letters that are pieces.
AcceptsExactlyTheBoard ==
    ValidFen(fen) <=>
        /\ Len(fen) = Ranks
        /\ \A i \in DOMAIN fen :
               /\ Width(fen[i]) = Files
               /\ \A c \in ToSet(fen[i]) : IsDigit(c) \/ c \in DOMAIN PieceOf

\* A valid text is a position of the board, and the text objToFen writes for it
\* is valid and reads back as the same position: setCurrentPosition may compare
\* positions by comparing their texts (1140-1144).  It is the shortest of the
\* position's texts: empty squares are squeezed together (393, 406-414).
TextDeterminesPosition ==
    ValidFen(fen) =>
        LET pos == FenToObj(fen)
        IN  /\ pos \in Positions
            /\ ValidFen(ObjToFen(pos)) /\ FenToObj(ObjToFen(pos)) = pos
            /\ \A i \in DOMAIN fen : Len(ObjToFen(pos)[i]) <= Len(fen[i])
=============================================================================
