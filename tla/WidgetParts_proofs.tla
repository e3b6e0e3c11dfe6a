------------------------- MODULE WidgetParts_proofs --------------------------
(***************************************************************************)
(* Theorems about the parts of the chessboard widget that keep no state,   *)
(* for boards of every size and any set of pieces: the animations that     *)
(* calculateAnimations finds lead from one position to the other, moves    *)
(* make no pieces, the throttle lets one call through in an interval,      *)
(* validFen accepts what spells the board, and objToFen writes the         *)
(* shortest text of a position, which fenToObj reads back.                 *)
(***************************************************************************)
EXTENDS MCWidgetParts, ChessPosition_proofs, SequenceTheorems

-----------------------------------------------------------------------------
(* The animations. *)

LEMMA PlanReachesTarget ==
  ASSUME pos1 \in Positions, pos2 \in Positions,
         NEW plan \in CalculateAnimations(pos1, pos2)
  PROVE  /\ Carried(plan) = pos2
         /\ \A v \in plan.moves :
              /\ v[1] \notin plan.clears
              /\ \A other \in plan.moves : other[1] = v[1] => other = v
         /\ \A s \in plan.adds, t \in plan.clears : pos1[t] # pos2[s]
<1> DEFINE p1 == Changed(pos1, pos2)
           p2 == Changed(pos2, pos1)
<1>1. PICK m \in Matchings(p1, p2) :
         plan = [moves |-> m.moves, adds |-> m.adds, clears |-> Clears(m)]
  BY DEF CalculateAnimations
<1>2. MatchInv(m, p1, p2) /\ m.todo = {}
  BY <1>1, ChangedDiffer, AllAreMatched
<1>3. /\ DOMAIN p1 = {s \in DOMAIN pos1 : s \in DOMAIN pos2 => pos1[s] # pos2[s]}
      /\ DOMAIN p2 = {s \in DOMAIN pos2 : s \in DOMAIN pos1 => pos2[s] # pos1[s]}
      /\ \A s \in DOMAIN p1 : p1[s] = pos1[s]
      /\ \A s \in DOMAIN p2 : p2[s] = pos2[s]
  BY ChangedIs
<1> HIDE DEF p1, p2
<1> DEFINE landed == {v[2] : v \in plan.moves}
           sources == {v[1] : v \in plan.moves}
           gone == plan.clears \union sources
           D == (DOMAIN pos1 \ gone) \union landed \union plan.adds
           Source(s) == (CHOOSE v \in plan.moves : v[2] = s)[1]
           Piece(s) == IF s \in plan.adds THEN pos2[s]
                       ELSE IF s \in landed THEN pos1[Source(s)] ELSE pos1[s]
<1>4. /\ plan.moves = m.moves /\ plan.adds = m.adds
      /\ plan.clears = DOMAIN m.left \ landed
  BY <1>1 DEF Clears
<1>5. Carried(plan) = [s \in D |-> Piece(s)]
  BY DEF Carried
<1>6. landed \union plan.adds = DOMAIN p2
  <2>1. /\ \A v \in m.moves : v[2] \in DOMAIN p2
        /\ m.adds \subseteq DOMAIN p2
        /\ \A s \in DOMAIN p2 : s \in m.adds \/ \E v \in m.moves : v[2] = s
    BY <1>2 DEF MatchInv, MovesMatch
  <2> QED BY <2>1, <1>4
<1>7. sources \subseteq DOMAIN p1 /\ gone \subseteq DOMAIN p1
      /\ DOMAIN p1 \ gone \subseteq landed
  BY <1>2, <1>4 DEF MatchInv, MovesMatch
<1>8. \A s \in landed : pos1[Source(s)] = pos2[s]
  <2> SUFFICES ASSUME NEW s \in landed PROVE pos1[Source(s)] = pos2[s]
    OBVIOUS
  <2>1. \E v \in plan.moves : v[2] = s
    OBVIOUS
  <2> DEFINE v == CHOOSE v \in plan.moves : v[2] = s
  <2>2. v \in plan.moves /\ v[2] = s
    BY <2>1
  <2>3. Source(s) = v[1]
    OBVIOUS
  <2> HIDE DEF v
  <2>4. v[1] \in DOMAIN p1 /\ v[2] \in DOMAIN p2 /\ p1[v[1]] = p2[v[2]]
    BY <1>2, <1>4, <2>2 DEF MatchInv, MovesMatch
  <2> QED BY <1>3, <2>2, <2>3, <2>4
<1> HIDE DEF landed, gone, Source
<1>9. D = DOMAIN pos2
  BY <1>3, <1>6, <1>7
<1>10. ASSUME NEW s \in D PROVE Piece(s) = pos2[s]
  <2>1. CASE s \in plan.adds
    BY <2>1
  <2>2. CASE s \in landed
    BY <2>2, <1>8
  <2>3. CASE s \notin plan.adds /\ s \notin landed
    BY <1>3, <1>7, <2>3
  <2> QED BY <2>1, <2>2, <2>3
<1>11. Carried(plan) = pos2
  <2>1. pos2 = [s \in DOMAIN pos2 |-> pos2[s]]
    BY DEF Positions
  <2> HIDE DEF D, Piece
  <2> QED BY <2>1, <1>5, <1>9, <1>10
<1>12. ASSUME NEW v \in plan.moves
       PROVE  /\ v[1] \notin plan.clears
              /\ \A other \in plan.moves : other[1] = v[1] => other = v
  BY <1>2, <1>4 DEF MatchInv, MovesMatch
<1>13. ASSUME NEW s \in plan.adds, NEW t \in plan.clears PROVE pos1[t] # pos2[s]
  BY <1>2, <1>3, <1>4 DEF MatchInv
<1> QED BY <1>11, <1>12, <1>13

PosInv == pos1 \in Positions /\ pos2 \in Positions

LEMMA PosInvInit == PartsInit => PosInv
<1>1. <<>> \in Positions
  <2>1. <<>> \in [{} -> Pieces] /\ {} \in SUBSET Squares
    OBVIOUS
  <2> QED BY <2>1 DEF Positions
<1> QED BY <1>1 DEF PartsInit, PosInv, SmallPositions

LEMMA PosInvNext ==
  PosInv /\ [PartsNext]_<<part, edited, fen, throttleVars>> => PosInv'
<1> SUFFICES ASSUME PosInv, [PartsNext]_<<part, edited, fen, throttleVars>> PROVE PosInv'
  OBVIOUS
<1>1. ASSUME NEW s \in Squares, NEW piece \in Pieces, Place(s, piece) PROVE PosInv'
  BY <1>1, WithIs DEF Place, PosInv
<1>2. ASSUME NEW s \in Squares, TakeAway(s) PROVE PosInv'
  BY <1>2, WithoutIs DEF TakeAway, PosInv
<1>3. CASE UNCHANGED edited
  BY <1>3 DEF edited, PosInv
<1>4. CASE PartsNext
  <2>1. CASE part = "positions"
    BY <1>1, <1>2, <1>4, <2>1 DEF PartsNext
  <2>2. CASE part = "texts"
    BY <1>3, <1>4, <2>2 DEF PartsNext, TypeSlash, TypeCharacter
  <2>3. CASE part \notin {"positions", "texts"}
    BY <1>3, <1>4, <2>3 DEF PartsNext
  <2> QED BY <2>1, <2>2, <2>3
<1>5. CASE UNCHANGED <<part, edited, fen, throttleVars>>
  BY <1>3, <1>5
<1> QED BY <1>4, <1>5

\* calculateAnimations leads from any position to any other, on a board of any
\* size, whatever the order of the keys: every piece on its way ends on its
\* square, none goes two ways, none is faded that could have been moved.
THEOREM AnimationsLead == PartsSpec => []AnimationsReachTarget
<1>1. PosInv => AnimationsReachTarget
  BY PlanReachesTarget DEF PosInv, AnimationsReachTarget
<1> QED BY <1>1, PosInvInit, PosInvNext, PTL DEF PartsSpec

-----------------------------------------------------------------------------
(* Moves. *)

\* calculatePositionFromMoves makes no piece, and two moves that do not meet
\* may come in either order of the keys, for every position of every board.
THEOREM NoPieceIsMade == PartsSpec => []MovesKeepPieces
<1> SUFFICES PosInv => MovesKeepPieces
  BY PosInvInit, PosInvNext, PTL DEF PartsSpec
<1> SUFFICES ASSUME PosInv, NEW m1 \in Squares \X Squares, NEW m2 \in Squares \X Squares
             PROVE  LET after == CalculatePositionFromMoves(pos2, <<m1, m2>>)
                    IN  /\ \A piece \in Pieces :
                               PieceCount(after, piece) <= PieceCount(pos2, piece)
                        /\ {m1[1], m1[2]} \intersect {m2[1], m2[2]} = {} =>
                               after = CalculatePositionFromMoves(pos2, <<m2, m1>>)
  BY DEF MovesKeepPieces
<1> DEFINE first == MoveOne(pos2, m1[1], m1[2])
           second == MoveOne(first, m2[1], m2[2])
<1>1. /\ CalculatePositionFromMoves(pos2, <<m1, m2>>) = second
      /\ CalculatePositionFromMoves(pos2, <<m2, m1>>)
            = MoveOne(MoveOne(pos2, m2[1], m2[2]), m1[1], m1[2])
  BY TwoMoves
<1>2. /\ m1[1] \in Squares /\ m1[2] \in Squares /\ m2[1] \in Squares /\ m2[2] \in Squares
      /\ pos2 \in Positions
  BY DEF PosInv
<1>3. first \in Positions /\ second \in Positions
  BY <1>2, MoveOneIs DEF Moved
<1>4. ASSUME NEW piece \in Pieces PROVE PieceCount(second, piece) <= PieceCount(pos2, piece)
  <2>1. PieceCount(first, piece) <= PieceCount(pos2, piece)
    BY <1>2, NoMoveMakesPieces
  <2>2. PieceCount(second, piece) <= PieceCount(first, piece)
    BY <1>2, <1>3, NoMoveMakesPieces
  <2>3. PieceCount(pos2, piece) \in Nat /\ PieceCount(first, piece) \in Nat
        /\ PieceCount(second, piece) \in Nat
    BY <1>2, <1>3, CountsAreNumbers
  <2> HIDE DEF first, second
  <2> QED BY <2>1, <2>2, <2>3
<1>5. ASSUME {m1[1], m1[2]} \intersect {m2[1], m2[2]} = {}
      PROVE  second = MoveOne(MoveOne(pos2, m2[1], m2[2]), m1[1], m1[2])
  BY <1>2, <1>5, MovesCommute
<1> QED BY <1>1, <1>4, <1>5

-----------------------------------------------------------------------------
(* The throttle: while no timer is set, the last call of f is an interval  *)
(* ago.                                                                    *)

ThrottleInv == timeout \in BOOLEAN /\ (~timeout => since = Interval)

LEMMA ThrottleStep ==
  ASSUME ThrottleInv, ThrottleNext
  PROVE  ThrottleInv' /\ (received' # received => since = Interval)
<1>1. CASE Call
  <2>1. CASE timeout
    BY <1>1, <2>1 DEF Call, ThrottleInv
  <2>2. CASE ~timeout
    BY <1>1, <2>2 DEF Call, Fire, ThrottleInv
  <2> QED BY <2>1, <2>2
<1>2. CASE HandleTimeout
  BY <1>2 DEF HandleTimeout, Fire, ThrottleInv
<1>3. CASE Tick
  <2>1. timeout
    BY <1>3, ThrottleAssumption DEF Tick, ThrottleInv
  <2> QED BY <1>3, <2>1 DEF Tick, ThrottleInv
<1> QED BY <1>1, <1>2, <1>3 DEF ThrottleNext

\* throttle calls f at most once in an interval, of whatever length, by calls
\* and the timer together.
THEOREM OneCallAnInterval == PartsSpec => OncePerInterval
<1> DEFINE vars == <<part, edited, fen, throttleVars>>
           Quiet == received' # received => since = Interval
<1>1. PartsInit => ThrottleInv
  BY DEF PartsInit, ThrottleInit, ThrottleInv
<1>2. ThrottleInv /\ [PartsNext]_vars => ThrottleInv' /\ [Quiet]_throttleVars
  <2> SUFFICES ASSUME ThrottleInv, [PartsNext]_vars
               PROVE  ThrottleInv' /\ [Quiet]_throttleVars
    OBVIOUS
  <2>1. CASE ThrottleNext
    BY <2>1, ThrottleStep
  <2>2. CASE UNCHANGED throttleVars
    BY <2>2 DEF throttleVars, ThrottleInv
  <2>3. ThrottleNext \/ UNCHANGED throttleVars
    BY DEF PartsNext, TypeSlash, TypeCharacter, Place, TakeAway
  <2> QED BY <2>1, <2>2, <2>3
<1>3. [Quiet]_throttleVars => [received' # received => since = Interval]_throttleVars
  OBVIOUS
<1> HIDE DEF vars
<1>4. PartsInit /\ [][PartsNext]_vars => OncePerInterval
  BY <1>1, <1>2, PTL DEF OncePerInterval
<1> QED BY <1>4, PTL DEF PartsSpec, vars

-----------------------------------------------------------------------------
(* Recursive functions of a number: one exists up to every N, by extending *)
(* the one before it.                                                      *)

IsRun(g, N, a, F) == g = [n \in 0..N |-> IF n = 0 THEN a ELSE F[<<n, g[n - 1]>>]]

LEMMA RunGrows ==
  ASSUME NEW N \in Nat, N # 0, NEW V, NEW a \in V, NEW F \in [(Nat \ {0}) \X V -> V],
         NEW h \in [0..(N - 1) -> V], IsRun(h, N - 1, a, F)
  PROVE  \E g \in [0..N -> V] : IsRun(g, N, a, F)
<1> DEFINE g == [n \in 0..N |-> IF n = N THEN F[<<N, h[N - 1]>>] ELSE h[n]]
<1>1. \A n \in 0..(N - 1) : g[n] = h[n]
  OBVIOUS
<1>2. g[N] = F[<<N, h[N - 1]>>] /\ h[N - 1] \in V
  OBVIOUS
<1>3. ASSUME NEW n \in 0..N
      PROVE  /\ g[n] = IF n = 0 THEN a ELSE F[<<n, g[n - 1]>>]
             /\ g[n] \in V
  <2>1. CASE n = N
    <3>1. g[N - 1] = h[N - 1]
      BY <1>1
    <3>2. F[<<N, h[N - 1]>>] \in V
      BY <1>2
    <3> HIDE DEF g
    <3> QED BY <1>2, <2>1, <3>1, <3>2
  <2>2. CASE n # N
    <3>1. n \in 0..(N - 1) /\ (n # 0 => n - 1 \in 0..(N - 1))
      BY <2>2
    <3>2. h[n] = IF n = 0 THEN a ELSE F[<<n, h[n - 1]>>]
      BY <3>1 DEF IsRun
    <3> HIDE DEF g
    <3> QED BY <3>1, <3>2, <1>1
  <2> QED BY <2>1, <2>2
<1>4. g = [n \in 0..N |-> g[n]]
  OBVIOUS
<1> HIDE DEF g
<1>5. g \in [0..N -> V] /\ IsRun(g, N, a, F)
  BY <1>3, <1>4 DEF IsRun
<1> QED BY <1>5

LEMMA RunExists ==
  ASSUME NEW N \in Nat, NEW V, NEW a \in V, NEW F \in [(Nat \ {0}) \X V -> V]
  PROVE  \E g \in [0..N -> V] : IsRun(g, N, a, F)
<1> DEFINE T == {n \in 0..N : \E g \in [0..n -> V] : IsRun(g, n, a, F)}
<1>1. 0 \in T
  <2>1. [n \in 0..0 |-> a] \in [0..0 -> V] /\ IsRun([n \in 0..0 |-> a], 0, a, F)
    BY DEF IsRun
  <2> QED BY <2>1
<1>2. ASSUME NEW n \in 1..N, n - 1 \in T PROVE n \in T
  <2>1. PICK h \in [0..(n - 1) -> V] : IsRun(h, n - 1, a, F)
    BY <1>2
  <2>2. n \in Nat /\ n # 0
    OBVIOUS
  <2>3. \E g \in [0..n -> V] : IsRun(g, n, a, F)
    BY <2>1, <2>2, RunGrows
  <2> QED BY <2>3
<1>3. T = 0..N
  <2>1. T \subseteq 0..N
    OBVIOUS
  <2> HIDE DEF T
  <2> QED BY <1>1, <1>2, <2>1, UpTo
<1> QED BY <1>3

-----------------------------------------------------------------------------
(* The digits. *)

LEMMA DigitsDiffer ==
  ASSUME NEW n \in 1..8, NEW m \in 1..8, Digit[n] = Digit[m]
  PROVE  n = m
BY DEF Digit

LEMMA NumberOfDigit ==
  ASSUME NEW n \in 1..8
  PROVE  IsDigit(Digit[n]) /\ Number(Digit[n]) = n
BY DigitsDiffer DEF IsDigit, Number

LEMMA NumberIs ==
  ASSUME NEW c, IsDigit(c)
  PROVE  Number(c) \in 1..8 /\ Digit[Number(c)] = c
BY DEF IsDigit, Number

Spelt(c) == IF IsDigit(c) THEN Ones(Number(c)) ELSE <<c>>
Wide(c) == IF IsDigit(c) THEN Number(c) ELSE 1

LEMMA SpeltIs ==
  ASSUME NEW c
  PROVE  /\ Wide(c) \in 1..8
         /\ Spelt(c) \in Seq({c, "1"}) /\ Len(Spelt(c)) = Wide(c)
         /\ \A k \in 1..Wide(c) : Spelt(c)[k] = IF IsDigit(c) THEN "1" ELSE c
<1>1. CASE IsDigit(c)
  <2>1. Number(c) \in 1..8
    BY <1>1, NumberIs
  <2> QED BY <1>1, <2>1 DEF Spelt, Wide, Ones
<1>2. CASE ~IsDigit(c)
  BY <1>2 DEF Spelt, Wide
<1> QED BY <1>1, <1>2

-----------------------------------------------------------------------------
(* The concatenation of the texts of a sequence, as a recursive function   *)
(* of the number of texts put together.                                    *)

IsFlat(g, seqs, S) ==
  /\ g \in [0..Len(seqs) -> Seq(S)]
  /\ g[0] = <<>>
  /\ \A n \in 1..Len(seqs) : g[n] = g[n - 1] \o seqs[n]
  /\ FlattenSeq(seqs) = g[Len(seqs)]

LEMMA FlattenIs ==
  ASSUME NEW S, NEW seqs \in Seq(Seq(S))
  PROVE  \E g : IsFlat(g, seqs, S)
<1> DEFINE L == Len(seqs)
<1>1. CASE L = 0
  <2>1. seqs = <<>>
    BY <1>1
  <2>2. FlattenSeq(seqs) = <<>>
    BY <2>1 DEF FlattenSeq
  <2>3. IsFlat([n \in 0..0 |-> <<>>], seqs, S)
    BY <1>1, <2>2 DEF IsFlat
  <2> QED BY <2>3
<1>2. CASE L # 0
  <2> DEFINE IsIt(f) == f = [i \in 1..L |-> IF i = 1 THEN seqs[i] ELSE f[i - 1] \o seqs[i]]
             F == [p \in (Nat \ {0}) \X Seq(S) |->
                     IF p[1] + 1 <= L THEN p[2] \o seqs[p[1] + 1] ELSE p[2]]
  <2>1. FlattenSeq(seqs) = (CHOOSE f : IsIt(f))[L]
    BY <1>2 DEF FlattenSeq
  <2>2. seqs[1] \in Seq(S) /\ L - 1 \in Nat
    BY <1>2
  <2>3. F \in [(Nat \ {0}) \X Seq(S) -> Seq(S)]
    <3>1. ASSUME NEW p \in (Nat \ {0}) \X Seq(S)
          PROVE  (IF p[1] + 1 <= L THEN p[2] \o seqs[p[1] + 1] ELSE p[2]) \in Seq(S)
      <4>1. p[1] + 1 <= L => seqs[p[1] + 1] \in Seq(S)
        OBVIOUS
      <4> QED BY <4>1
    <3> QED BY <3>1
  <2>4. PICK h \in [0..(L - 1) -> Seq(S)] : IsRun(h, L - 1, seqs[1], F)
    <3> HIDE DEF F
    <3> QED BY <2>2, <2>3, RunExists
  <2> DEFINE f0 == [i \in 1..L |-> h[i - 1]]
  <2>5. IsIt(f0)
    <3>1. ASSUME NEW i \in 1..L
          PROVE  f0[i] = IF i = 1 THEN seqs[i] ELSE f0[i - 1] \o seqs[i]
      <4>1. i - 1 \in 0..(L - 1) /\ (i # 1 => (i - 1) - 1 \in 0..(L - 1) /\ i - 1 \in 1..L)
        BY <1>2
      <4>2. h[i - 1] = IF i - 1 = 0 THEN seqs[1] ELSE F[<<i - 1, h[(i - 1) - 1]>>]
        BY <2>4, <4>1 DEF IsRun
      <4>3. CASE i # 1
        <5>1. <<i - 1, h[(i - 1) - 1]>> \in (Nat \ {0}) \X Seq(S)
          <6>1. i - 1 \in Nat /\ i - 1 # 0 /\ (i - 1) - 1 \in 0..(L - 1)
            BY <4>1, <4>3
          <6>2. h[(i - 1) - 1] \in Seq(S)
            BY <6>1
          <6> QED BY <6>1, <6>2
        <5>2. F[<<i - 1, h[(i - 1) - 1]>>] = h[(i - 1) - 1] \o seqs[i]
          <6>1. (i - 1) + 1 = i /\ i <= L
            OBVIOUS
          <6> QED BY <5>1, <6>1
        <5> HIDE DEF F
        <5>3. f0[i] = h[i - 1] /\ f0[i - 1] = h[(i - 1) - 1]
          BY <4>1, <4>3
        <5>4. h[i - 1] = F[<<i - 1, h[(i - 1) - 1]>>]
          BY <4>2, <4>3
        <5> QED BY <4>3, <5>2, <5>3, <5>4
      <4>4. CASE i = 1
        BY <4>2, <4>4
      <4> QED BY <4>3, <4>4
    <3> HIDE DEF F
    <3> QED BY <3>1
  <2> DEFINE f == CHOOSE f : IsIt(f)
  <2> HIDE DEF f0, F
  <2>6. IsIt(f)
    BY <2>5
  <2> HIDE DEF f
  <2> DEFINE g == [n \in 0..L |-> IF n = 0 THEN <<>> ELSE f[n]]
  <2>7. \A i \in 1..L : f[i] = IF i = 1 THEN seqs[i] ELSE f[i - 1] \o seqs[i]
    BY <2>6
  <2>8. \A n \in 1..L : g[n] = g[n - 1] \o seqs[n]
    <3> SUFFICES ASSUME NEW n \in 1..L PROVE g[n] = g[n - 1] \o seqs[n]
      OBVIOUS
    <3>1. CASE n = 1
      <4>1. g[n] = f[n] /\ f[n] = seqs[n] /\ g[n - 1] = <<>> /\ seqs[n] \in Seq(S)
        BY <2>7, <3>1
      <4>2. <<>> \o seqs[n] = seqs[n]
        BY <4>1, ConcatEmptySeq
      <4> QED BY <4>1, <4>2
    <3>2. CASE n # 1
      <4>1. n - 1 \in 1..L
        BY <3>2
      <4>2. f[n] = f[n - 1] \o seqs[n]
        BY <2>7, <3>2
      <4>3. g[n] = f[n] /\ g[n - 1] = f[n - 1]
        BY <4>1
      <4> QED BY <4>2, <4>3
    <3> QED BY <3>1, <3>2
  <2>9. \A n \in 0..L : g[n] \in Seq(S)
    <3> DEFINE T == {n \in 0..L : g[n] \in Seq(S)}
    <3>1. 0 \in T
      OBVIOUS
    <3>2. ASSUME NEW n \in 1..L, n - 1 \in T PROVE n \in T
      <4>1. g[n - 1] \in Seq(S) /\ seqs[n] \in Seq(S)
        BY <3>2
      <4>2. g[n] = g[n - 1] \o seqs[n]
        BY <2>8
      <4>3. g[n - 1] \o seqs[n] \in Seq(S)
        <5> HIDE DEF g
        <5> QED BY <4>1
      <4>4. g[n] \in Seq(S)
        BY <4>2, <4>3
      <4>5. n \in 0..L
        OBVIOUS
      <4> HIDE DEF g
      <4> QED BY <4>4, <4>5
    <3>3. T \subseteq 0..L /\ L \in Nat
      OBVIOUS
    <3> HIDE DEF T
    <3>4. T = 0..L
      BY <3>1, <3>2, <3>3, UpTo
    <3> USE DEF T
    <3> QED BY <3>4
  <2>10. FlattenSeq(seqs) = g[L]
    <3>1. FlattenSeq(seqs) = f[L]
      BY <2>1 DEF f
    <3> QED BY <3>1, <1>2
  <2>11. IsFlat(g, seqs, S)
    <3>1. g[0] = <<>> /\ g = [n \in 0..L |-> g[n]]
      OBVIOUS
    <3> HIDE DEF g
    <3> QED BY <2>8, <2>9, <2>10, <3>1 DEF IsFlat
  <2> QED BY <2>11
<1> QED BY <1>1, <1>2

-----------------------------------------------------------------------------
(* The columns that the characters of a row stand for.                     *)

AreColumns(col, row) ==
  /\ col \in [0..Len(row) -> Nat]
  /\ col[0] = 0
  /\ \A j \in 1..Len(row) : col[j] = col[j - 1] + Wide(row[j])

LEMMA ColumnsAre ==
  ASSUME NEW row, Len(row) \in Nat
  PROVE  /\ AreColumns(Columns(row), row)
         /\ Width(row) = Columns(row)[Len(row)]
<1> DEFINE L == Len(row)
           F == [p \in (Nat \ {0}) \X Nat |-> p[2] + Wide(row[p[1]])]
           Are(c) == c = [j \in 0..L |->
                            IF j = 0 THEN 0
                            ELSE c[j - 1] + (IF IsDigit(row[j]) THEN Number(row[j]) ELSE 1)]
<1>1. \A c : Wide(c) \in Nat
  <2> SUFFICES ASSUME NEW c PROVE Wide(c) \in Nat
    OBVIOUS
  <2>1. Wide(c) \in 1..8
    BY SpeltIs
  <2> QED BY <2>1
<1>2. PICK h \in [0..L -> Nat] : IsRun(h, L, 0, F)
  <2>1. F \in [(Nat \ {0}) \X Nat -> Nat]
    BY <1>1
  <2> HIDE DEF F
  <2> QED BY <2>1, RunExists
<1>3. Are(h)
  <2>1. ASSUME NEW j \in 0..L
        PROVE  h[j] = IF j = 0 THEN 0
                      ELSE h[j - 1] + (IF IsDigit(row[j]) THEN Number(row[j]) ELSE 1)
    <3>1. h[j] = IF j = 0 THEN 0 ELSE F[<<j, h[j - 1]>>]
      BY <1>2 DEF IsRun
    <3>2. CASE j # 0
      <4>1. <<j, h[j - 1]>> \in (Nat \ {0}) \X Nat
        BY <3>2
      <4>2. F[<<j, h[j - 1]>>] = h[j - 1] + Wide(row[j])
        BY <4>1
      <4> HIDE DEF F
      <4> QED BY <3>1, <3>2, <4>2 DEF Wide
    <3> QED BY <3>1, <3>2
  <2> HIDE DEF F
  <2> QED BY <2>1
<1> HIDE DEF F
<1> DEFINE c == CHOOSE c : Are(c)
<1>4. Are(c)
  BY <1>3
<1>5. Columns(row) = c /\ Width(row) = c[L]
  BY DEF Columns, Width
<1> HIDE DEF c
<1>6. /\ DOMAIN c = 0..L /\ c[0] = 0
      /\ \A j \in 1..L : c[j] = c[j - 1] + Wide(row[j])
  BY <1>4 DEF Wide
<1>7. \A j \in 0..L : c[j] \in Nat
  <2> DEFINE T == {j \in 0..L : c[j] \in Nat}
  <2>1. 0 \in T /\ T \subseteq 0..L
    BY <1>6
  <2>2. ASSUME NEW j \in 1..L, j - 1 \in T PROVE j \in T
    BY <1>1, <1>6, <2>2
  <2> HIDE DEF T
  <2>3. T = 0..L
    BY <2>1, <2>2, UpTo
  <2> QED BY <2>3 DEF T
<1>8. c = [j \in 0..L |-> c[j]]
  BY <1>4
<1>9. c \in [0..L -> Nat]
  BY <1>7, <1>8
<1> QED BY <1>5, <1>6, <1>9 DEF AreColumns

LEMMA ColumnsGrow ==
  ASSUME NEW row, Len(row) \in Nat, NEW col, AreColumns(col, row),
         NEW j \in 0..Len(row)
  PROVE  \A i \in 0..j : i < j => col[i] < col[j]
<1> DEFINE L == Len(row)
           T == {m \in 0..L : \A i \in 0..m : i < m => col[i] < col[m]}
<1>1. 0 \in T /\ T \subseteq 0..L
  OBVIOUS
<1>2. ASSUME NEW m \in 1..L, m - 1 \in T PROVE m \in T
  <2>1. col[m - 1] \in Nat /\ Wide(row[m]) \in 1..8 /\ col[m] = col[m - 1] + Wide(row[m])
    <3>1. m - 1 \in 0..L
      OBVIOUS
    <3> QED BY <3>1, SpeltIs DEF AreColumns
  <2>2. ASSUME NEW i \in 0..m, i < m PROVE col[i] < col[m]
    <3>1. i = m - 1 \/ (i \in 0..(m - 1) /\ i < m - 1)
      BY <2>2
    <3>2. i = m - 1 \/ col[i] < col[m - 1]
      <4>1. \A u \in 0..(m - 1) : u < m - 1 => col[u] < col[m - 1]
        BY <1>2
      <4> QED BY <3>1, <4>1
    <3>3. col[i] \in Nat
      BY <2>2 DEF AreColumns
    <3>4. col[m - 1] < col[m]
      <4>1. PICK a \in Nat, w \in 1..8 : a = col[m - 1] /\ col[m] = a + w
        BY <2>1
      <4>2. a < a + w
        OBVIOUS
      <4> QED BY <4>1, <4>2, Zenon
    <3>5. col[m] \in Nat
      BY <2>1
    <3> HIDE DEF T
    <3> QED BY <2>1, <3>2, <3>3, <3>4, <3>5, SMTT(30)
  <2> QED BY <2>2
<1> HIDE DEF T
<1>3. T = 0..L
  BY <1>1, <1>2, UpTo
<1> QED BY <1>3 DEF T

\* Every column is that of a character.
LEMMA ColumnsCover ==
  ASSUME NEW row, Len(row) \in Nat, NEW col, AreColumns(col, row),
         NEW x \in 1..col[Len(row)]
  PROVE  \E j \in 1..Len(row) : \E k \in 1..Wide(row[j]) : x = col[j - 1] + k
<1> DEFINE L == Len(row)
           T == {m \in 0..L : x <= col[m] =>
                    \E j \in 1..L : \E k \in 1..Wide(row[j]) : x = col[j - 1] + k}
<1>1. 0 \in T /\ T \subseteq 0..L
  BY DEF AreColumns
<1>2. ASSUME NEW m \in 1..L, m - 1 \in T PROVE m \in T
  <2>1. col[m - 1] \in Nat /\ Wide(row[m]) \in 1..8 /\ col[m] = col[m - 1] + Wide(row[m])
    <3>1. m - 1 \in 0..L
      OBVIOUS
    <3> QED BY <3>1, SpeltIs DEF AreColumns
  <2>2. CASE x <= col[m - 1]
    BY <1>2, <2>2
  <2>3. CASE ~(x <= col[m - 1]) /\ x <= col[m]
    <3>1. x \in Nat
      BY DEF AreColumns
    <3>2. x - col[m - 1] \in 1..Wide(row[m]) /\ x = col[m - 1] + (x - col[m - 1])
      BY <2>1, <2>3, <3>1, SMTT(30)
    <3> QED BY <3>2
  <2>4. CASE ~(x <= col[m])
    BY <2>4
  <2> QED BY <2>2, <2>3, <2>4
<1> HIDE DEF T
<1>3. T = 0..L
  BY <1>1, <1>2, UpTo
<1>4. x <= col[L] /\ L \in T
  BY <1>3 DEF AreColumns
<1> QED BY <1>4 DEF T

-----------------------------------------------------------------------------
(* expandFenEmptySquares, character by character.                          *)

Shown(c) == IF IsDigit(c) THEN "1" ELSE c

LEMMA InPart ==
  ASSUME NEW a \in Nat, NEW v \in Nat, NEW b \in Nat, NEW w \in Nat, NEW k \in 1..v,
         a + v <= b
  PROVE  a + k \in 1..(b + w) /\ a + k <= b
OBVIOUS

LEMMA InLastPart ==
  ASSUME NEW a \in Nat, NEW w \in Nat, NEW k \in 1..w
  PROVE  a + k \in 1..(a + w) /\ ~(a + k <= a) /\ (a + k) - a = k
OBVIOUS

LEMMA ExpandIs ==
  ASSUME NEW C, NEW row \in Seq(C), NEW col, AreColumns(col, row)
  PROVE  /\ ExpandFenEmptySquares(row) \in Seq(C \union {"1"})
         /\ Len(ExpandFenEmptySquares(row)) = col[Len(row)]
         /\ \A j \in 1..Len(row) : \A k \in 1..Wide(row[j]) :
               ExpandFenEmptySquares(row)[col[j - 1] + k] = Shown(row[j])
<1> DEFINE L == Len(row)
           S == C \union {"1"}
           seqs == [i \in 1..L |-> Spelt(row[i])]
<1>0. L \in Nat
  OBVIOUS
<1>1. seqs \in Seq(Seq(S)) /\ Len(seqs) = L
  <2>1. ASSUME NEW i \in 1..L PROVE Spelt(row[i]) \in Seq(S)
    <3>1. row[i] \in C
      OBVIOUS
    <3>2. Spelt(row[i]) \in Seq({row[i], "1"}) /\ {row[i], "1"} \subseteq S
      BY <3>1, SpeltIs
    <3> HIDE DEF S
    <3> QED BY <3>2, SeqMonotonic
  <2> HIDE DEF S
  <2> QED BY <2>1
<1>2. ExpandFenEmptySquares(row) = FlattenSeq(seqs)
  <2>1. DOMAIN row = 1..L
    OBVIOUS
  <2> QED BY <2>1 DEF ExpandFenEmptySquares, Spelt
<1>3. PICK g : IsFlat(g, seqs, S)
  <2> HIDE DEF S, seqs
  <2> QED BY <1>1, FlattenIs
<1>4. \A n \in 1..L : seqs[n] = Spelt(row[n])
  OBVIOUS
<1> HIDE DEF seqs, S
<1>5. /\ \A n \in 0..L : g[n] \in Seq(S)
      /\ g[0] = <<>> /\ \A n \in 1..L : g[n] = g[n - 1] \o Spelt(row[n])
      /\ ExpandFenEmptySquares(row) = g[L]
  BY <1>1, <1>2, <1>3, <1>4 DEF IsFlat
<1> DEFINE Upto(n) == /\ Len(g[n]) = col[n]
                      /\ \A j \in 1..n : \A k \in 1..Wide(row[j]) :
                            g[n][col[j - 1] + k] = Shown(row[j])
           T == {n \in 0..L : Upto(n)}
<1>6. 0 \in T /\ T \subseteq 0..L
  BY <1>5 DEF AreColumns
<1>7. ASSUME NEW n \in 1..L, n - 1 \in T PROVE n \in T
  <2>1. /\ n - 1 \in 0..L /\ col[n - 1] \in Nat /\ col[n] = col[n - 1] + Wide(row[n])
        /\ Wide(row[n]) \in 1..8
    <3>1. n - 1 \in 0..L
      OBVIOUS
    <3> QED BY <3>1, SpeltIs DEF AreColumns
  <2>2. /\ Spelt(row[n]) \in Seq(S) /\ Len(Spelt(row[n])) = Wide(row[n])
        /\ \A k \in 1..Wide(row[n]) : Spelt(row[n])[k] = Shown(row[n])
    <3>1. seqs[n] \in Seq(S)
      BY <1>1
    <3> QED BY <1>4, <3>1, SpeltIs DEF Shown
  <2>3. g[n - 1] \in Seq(S) /\ Upto(n - 1) /\ g[n] = g[n - 1] \o Spelt(row[n])
    BY <1>5, <1>7, <2>1
  <2> DEFINE front == g[n - 1]
             back == Spelt(row[n])
  <2>10. /\ front \in Seq(S) /\ back \in Seq(S) /\ g[n] = front \o back
         /\ Len(front) = col[n - 1] /\ Len(back) = Wide(row[n])
    BY <2>2, <2>3
  <2> HIDE DEF front, back
  <2>11. /\ Len(g[n]) = col[n - 1] + Wide(row[n])
         /\ \A i \in 1..(col[n - 1] + Wide(row[n])) :
               g[n][i] = IF i <= col[n - 1] THEN front[i] ELSE back[i - col[n - 1]]
    <3>1. /\ Len(front \o back) = Len(front) + Len(back)
          /\ \A i \in 1..(Len(front) + Len(back)) :
                (front \o back)[i] = IF i <= Len(front) THEN front[i] ELSE back[i - Len(front)]
      BY <2>10, ConcatProperties
    <3> QED BY <2>10, <3>1
  <2>4. Len(g[n]) = col[n]
    BY <2>1, <2>11
  <2>5. ASSUME NEW j \in 1..n, NEW k \in 1..Wide(row[j])
        PROVE  g[n][col[j - 1] + k] = Shown(row[j])
    <3>1. CASE j = n
      <4>1. k \in 1..Wide(row[n])
        BY <3>1
      <4>2. /\ col[n - 1] + k \in 1..(col[n - 1] + Wide(row[n]))
            /\ ~(col[n - 1] + k <= col[n - 1])
            /\ (col[n - 1] + k) - col[n - 1] = k
        <5>1. col[n - 1] \in Nat /\ Wide(row[n]) \in Nat
          BY <2>1
        <5> QED BY <4>1, <5>1, InLastPart
      <4>3. g[n][col[n - 1] + k] = back[k]
        BY <2>11, <4>2
      <4>4. back[k] = Shown(row[n])
        BY <2>2, <4>1 DEF back
      <4> QED BY <3>1, <4>3, <4>4
    <3>2. CASE j # n
      <4>1. j \in 1..(n - 1) /\ j \in 1..L /\ j - 1 \in 0..L /\ j \in 0..L
        BY <3>2
      <4>2. g[n - 1][col[j - 1] + k] = Shown(row[j])
        BY <2>3, <4>1
      <4>3. col[j] <= col[n - 1]
        <5>1. col[j] \in Nat
          BY <4>1 DEF AreColumns
        <5>2. \A i \in 0..(n - 1) : i < n - 1 => col[i] < col[n - 1]
          BY <2>1, ColumnsGrow
        <5> QED BY <2>1, <4>1, <5>1, <5>2
      <4>4. col[j - 1] \in Nat /\ col[j] = col[j - 1] + Wide(row[j]) /\ Wide(row[j]) \in 1..8
        BY <4>1, SpeltIs DEF AreColumns
      <4>5. col[j - 1] + k \in 1..(col[n - 1] + Wide(row[n])) /\ col[j - 1] + k <= col[n - 1]
        <5>1. /\ col[n - 1] \in Nat /\ Wide(row[n]) \in Nat
              /\ col[j - 1] \in Nat /\ Wide(row[j]) \in Nat
              /\ col[j - 1] + Wide(row[j]) <= col[n - 1]
          <6>1. col[n - 1] \in Nat /\ Wide(row[n]) \in Nat
            BY <2>1
          <6>2. col[j - 1] \in Nat /\ Wide(row[j]) \in Nat
            BY <4>4
          <6>3. col[j - 1] + Wide(row[j]) <= col[n - 1]
            BY <4>3, <4>4
          <6> QED BY <6>1, <6>2, <6>3
        <5> QED BY <5>1, InPart
      <4>6. g[n][col[j - 1] + k] = front[col[j - 1] + k]
        BY <2>11, <4>5
      <4> USE DEF front
      <4> QED BY <4>2, <4>6
    <3> QED BY <3>1, <3>2
  <2> QED BY <2>4, <2>5
<1> HIDE DEF T
<1>8. T = 0..L
  BY <1>0, <1>6, <1>7, UpTo
<1>9. Upto(L) /\ g[L] \in Seq(S)
  BY <1>5, <1>8 DEF T
<1> QED BY <1>5, <1>9 DEF S

LEMMA ExpandByColumns ==
  ASSUME NEW C, NEW row \in Seq(C)
  PROVE  LET e == ExpandFenEmptySquares(row)
             col == Columns(row)
         IN  /\ AreColumns(col, row) /\ Width(row) = col[Len(row)]
             /\ e \in Seq(C \union {"1"}) /\ Len(e) = Width(row)
             /\ \A j \in 1..Len(row) : \A k \in 1..Wide(row[j]) :
                   e[col[j - 1] + k] = Shown(row[j])
<1> DEFINE e == ExpandFenEmptySquares(row)
           col == Columns(row)
<1>1. Len(row) \in Nat
  OBVIOUS
<1>2. AreColumns(col, row) /\ Width(row) = col[Len(row)]
  BY <1>1, ColumnsAre
<1>3. /\ e \in Seq(C \union {"1"}) /\ Len(e) = Width(row)
      /\ \A j \in 1..Len(row) : \A k \in 1..Wide(row[j]) : e[col[j - 1] + k] = Shown(row[j])
  <2> HIDE DEF col
  <2> QED BY <1>2, ExpandIs
<1> QED BY <1>2, <1>3

-----------------------------------------------------------------------------
(* validFen. *)

LEMMA OneIsADigit == IsDigit("1") /\ Number("1") = 1
<1>1. Digit[1] = "1"
  BY DEF Digit
<1> QED BY <1>1, NumberOfDigit

LEMMA ValidRowIs ==
  ASSUME NEW C, NEW row \in Seq(C)
  PROVE  ValidRow(row) <=>
            /\ Width(row) = Files
            /\ \A i \in 1..Len(row) : IsDigit(row[i]) \/ row[i] \in DOMAIN PieceOf
<1> DEFINE e == ExpandFenEmptySquares(row)
           col == Columns(row)
           Known == DOMAIN PieceOf \union {"1"}
<1>1. Len(row) \in Nat
  OBVIOUS
<1>2. AreColumns(col, row) /\ Width(row) = col[Len(row)]
  BY <1>1, ColumnsAre
<1>3. /\ e \in Seq(C \union {"1"}) /\ Len(e) = Width(row)
      /\ \A j \in 1..Len(row) : \A k \in 1..Wide(row[j]) : e[col[j - 1] + k] = Shown(row[j])
  BY ExpandByColumns
<1>4. ValidRow(row) <=> Len(e) = Files /\ \A i \in DOMAIN e : e[i] \in Known
  BY DEF ValidRow
<1>5. DOMAIN e = 1..Len(e)
  BY <1>3
<1> HIDE DEF e, col
<1>6. ASSUME \A i \in 1..Len(row) : IsDigit(row[i]) \/ row[i] \in DOMAIN PieceOf
      PROVE  \A x \in DOMAIN e : e[x] \in Known
  <2> SUFFICES ASSUME NEW x \in DOMAIN e PROVE e[x] \in Known
    OBVIOUS
  <2>1. PICK j \in 1..Len(row) : \E k \in 1..Wide(row[j]) : x = col[j - 1] + k
    <3>1. x \in 1..col[Len(row)]
      BY <1>2, <1>3, <1>5
    <3> QED BY <1>1, <1>2, <3>1, ColumnsCover
  <2>2. e[x] = Shown(row[j])
    BY <1>3, <2>1
  <2> QED BY <1>6, <2>2 DEF Shown
<1>7. ASSUME \A x \in DOMAIN e : e[x] \in Known
      PROVE  \A i \in 1..Len(row) : IsDigit(row[i]) \/ row[i] \in DOMAIN PieceOf
  <2> SUFFICES ASSUME NEW i \in 1..Len(row), ~IsDigit(row[i])
               PROVE  row[i] \in DOMAIN PieceOf
    OBVIOUS
  <2>1. 1 \in 1..Wide(row[i]) /\ Wide(row[i]) \in Nat
    <3>1. Wide(row[i]) \in 1..8
      BY SpeltIs
    <3> QED BY <3>1
  <2>2. e[col[i - 1] + 1] = row[i]
    BY <1>3, <2>1 DEF Shown
  <2>3. col[i - 1] + 1 \in DOMAIN e
    <3>1. /\ col[i - 1] \in Nat /\ col[i] \in Nat /\ col[i] = col[i - 1] + Wide(row[i])
          /\ i \in 0..Len(row) /\ Len(row) \in 0..Len(row)
      <4>1. i - 1 \in 0..Len(row) /\ i \in 0..Len(row) /\ Len(row) \in 0..Len(row)
        BY <1>1
      <4> QED BY <1>2, <4>1 DEF AreColumns
    <3>2. i = Len(row) \/ col[i] < col[Len(row)]
      <4>1. \A u \in 0..Len(row) : u < Len(row) => col[u] < col[Len(row)]
        BY <1>1, <1>2, <3>1, ColumnsGrow
      <4> QED BY <1>1, <3>1, <4>1
    <3>3. col[Len(row)] \in Nat
      BY <1>2, <3>1 DEF AreColumns
    <3>4. col[i] <= col[Len(row)]
      BY <3>1, <3>2, <3>3
    <3>5. col[i - 1] + 1 \in 1..col[Len(row)]
      BY <2>1, <3>1, <3>3, <3>4
    <3> QED BY <1>2, <1>3, <1>5, <3>5
  <2>4. row[i] \in Known
    BY <1>7, <2>2, <2>3
  <2> QED BY <2>4, OneIsADigit
<1> HIDE DEF Known
<1> QED BY <1>3, <1>4, <1>6, <1>7

FenInv == fen \in Seq(Seq(Keys)) /\ Len(fen) # 0

LEMMA ValidFenIs == FenInv => AcceptsExactlyTheBoard
<1> SUFFICES ASSUME FenInv PROVE AcceptsExactlyTheBoard
  OBVIOUS
<1>1. \A i \in DOMAIN fen : fen[i] \in Seq(Keys)
  BY DEF FenInv
<1>2. ASSUME NEW i \in DOMAIN fen
      PROVE  ValidRow(fen[i]) <=>
                /\ Width(fen[i]) = Files
                /\ \A c \in ToSet(fen[i]) : IsDigit(c) \/ c \in DOMAIN PieceOf
  <2>1. ToSet(fen[i]) = {fen[i][j] : j \in 1..Len(fen[i])}
    BY <1>1 DEF ToSet
  <2> QED BY <1>1, <2>1, ValidRowIs
<1> QED BY <1>2 DEF AcceptsExactlyTheBoard, ValidFen

LEMMA FenInvInit == PartsInit => FenInv
<1>1. << <<>> >> \in Seq(Seq(Keys)) /\ Len(<< <<>> >>) = 1
  OBVIOUS
<1> QED BY <1>1 DEF PartsInit, FenInv

LEMMA FenInvNext ==
  FenInv /\ [PartsNext]_<<part, edited, fen, throttleVars>> => FenInv'
<1> SUFFICES ASSUME FenInv, [PartsNext]_<<part, edited, fen, throttleVars>> PROVE FenInv'
  OBVIOUS
<1>1. ASSUME NEW c \in Keys, TypeCharacter(c) PROVE FenInv'
  <2>1. Len(fen) \in 1..Len(fen) /\ fen[Len(fen)] \in Seq(Keys)
    BY DEF FenInv
  <2>2. Append(fen[Len(fen)], c) \in Seq(Keys)
    BY <2>1
  <2>3. fen' = [fen EXCEPT ![Len(fen)] = Append(fen[Len(fen)], c)]
    BY <1>1 DEF TypeCharacter
  <2>4. fen' \in Seq(Seq(Keys)) /\ Len(fen') = Len(fen)
    BY <2>1, <2>2, <2>3, ExceptSeq DEF FenInv
  <2> QED BY <2>4 DEF FenInv
<1>2. ASSUME TypeSlash PROVE FenInv'
  <2>1. <<>> \in Seq(Keys) /\ fen' = Append(fen, <<>>)
    BY <1>2 DEF TypeSlash
  <2> QED BY <2>1 DEF FenInv
<1>3. CASE UNCHANGED fen
  BY <1>3 DEF FenInv
<1>4. CASE PartsNext
  <2>1. CASE part = "positions"
    BY <1>3, <1>4, <2>1 DEF PartsNext, TakeAway, Place
  <2>2. CASE part = "texts"
    BY <1>1, <1>2, <1>4, <2>2 DEF PartsNext
  <2>3. CASE part \notin {"positions", "texts"}
    BY <1>3, <1>4, <2>3 DEF PartsNext
  <2> QED BY <2>1, <2>2, <2>3
<1>5. CASE UNCHANGED <<part, edited, fen, throttleVars>>
  BY <1>3, <1>5
<1> QED BY <1>4, <1>5

\* validFen accepts what spells the board and nothing else, whatever the size of
\* the board, the letters of the pieces and the text: a row of digits and
\* letters in any order is accepted exactly when it is as wide as the board.
THEOREM TextsAccepted == PartsSpec => []AcceptsExactlyTheBoard
BY ValidFenIs, FenInvInit, FenInvNext, PTL DEF PartsSpec

-----------------------------------------------------------------------------
(* fenToObj reads a text by the squares it spells.                         *)

LEMMA InWidth ==
  ASSUME NEW row, Len(row) \in Nat, NEW col, AreColumns(col, row), NEW j \in 1..Len(row),
         NEW k \in 1..Wide(row[j])
  PROVE  /\ col[j - 1] \in Nat /\ col[j - 1] + k \in 1..col[Len(row)]
<1>1. j - 1 \in 0..Len(row) /\ j \in 0..Len(row) /\ Len(row) \in 0..Len(row)
  OBVIOUS
<1>2. /\ col[j - 1] \in Nat /\ col[j] \in Nat /\ col[Len(row)] \in Nat
      /\ col[j] = col[j - 1] + Wide(row[j])
  BY <1>1 DEF AreColumns
<1>3. \A u \in 0..Len(row) : u < Len(row) => col[u] < col[Len(row)]
  BY <1>1, ColumnsGrow
<1>4. j = Len(row) \/ col[j] < col[Len(row)]
  BY <1>1, <1>3
<1>5. col[j] <= col[Len(row)]
  BY <1>2, <1>4
<1>6. Wide(row[j]) \in Nat
  <2>1. Wide(row[j]) \in 1..8
    BY SpeltIs
  <2> QED BY <2>1
<1>7. k \in Nat /\ k >= 1 /\ k <= Wide(row[j])
  BY <1>6
<1> QED BY <1>2, <1>5, <1>6, <1>7

LEMMA LettersAre ==
  ASSUME NEW C, NEW row \in Seq(C)
  PROVE  LET e == ExpandFenEmptySquares(row)
         IN  LettersOf(row) = {<<x, e[x]>> : x \in {y \in 1..Len(e) : ~IsDigit(e[y])}}
<1>0. PICK col : col = Columns(row)
  OBVIOUS
<1> DEFINE e == ExpandFenEmptySquares(row)
           X == {y \in 1..Len(e) : ~IsDigit(e[y])}
           J == {i \in DOMAIN row : ~IsDigit(row[i])}
<1>1. Len(row) \in Nat /\ DOMAIN row = 1..Len(row)
  OBVIOUS
<1>2. AreColumns(col, row)
  BY <1>0, <1>1, ColumnsAre
<1>3. /\ e \in Seq(C \union {"1"}) /\ Len(e) = col[Len(row)]
      /\ \A j \in 1..Len(row) : \A k \in 1..Wide(row[j]) : e[col[j - 1] + k] = Shown(row[j])
  BY <1>0, ExpandByColumns
<1>4. LettersOf(row) = {<<col[j - 1] + 1, row[j]>> : j \in J}
  BY <1>0, Zenon DEF LettersOf
<1> HIDE DEF e
<1>5. ASSUME NEW j \in J PROVE col[j - 1] + 1 \in X /\ e[col[j - 1] + 1] = row[j]
  <2>1. j \in 1..Len(row) /\ ~IsDigit(row[j]) /\ 1 \in 1..Wide(row[j])
    BY <1>1 DEF Wide
  <2>2. e[col[j - 1] + 1] = row[j]
    BY <1>3, <2>1 DEF Shown
  <2>3. col[j - 1] + 1 \in 1..Len(e)
    BY <1>1, <1>2, <1>3, <2>1, InWidth
  <2> QED BY <2>1, <2>2, <2>3
<1>6. ASSUME NEW x \in X PROVE \E j \in J : x = col[j - 1] + 1 /\ e[x] = row[j]
  <2>1. PICK j \in 1..Len(row) : \E k \in 1..Wide(row[j]) : x = col[j - 1] + k
    <3>1. x \in 1..col[Len(row)]
      BY <1>3
    <3> QED BY <1>1, <1>2, <3>1, ColumnsCover, SMTT(30)
  <2>2. PICK k \in 1..Wide(row[j]) : x = col[j - 1] + k
    BY <2>1
  <2>3. e[x] = Shown(row[j])
    BY <1>3, <2>2
  <2>4. ~IsDigit(row[j]) /\ e[x] = row[j]
    BY <2>3, OneIsADigit DEF Shown
  <2>5. k = 1
    BY <2>4 DEF Wide
  <2> QED BY <1>1, <2>2, <2>4, <2>5
<1>7. {<<col[j - 1] + 1, row[j]>> : j \in J} = {<<x, e[x]>> : x \in X}
  <2> HIDE DEF X, J
  <2>1. ASSUME NEW j \in J PROVE <<col[j - 1] + 1, row[j]>> \in {<<x, e[x]>> : x \in X}
    BY <1>5
  <2>2. ASSUME NEW x \in X PROVE <<x, e[x]>> \in {<<col[j - 1] + 1, row[j]>> : j \in J}
    <3>1. PICK j \in J : x = col[j - 1] + 1 /\ e[x] = row[j]
      BY <1>6
    <3> QED BY <3>1
  <2> QED BY <2>1, <2>2
<1> QED BY <1>4, <1>7 DEF e

\* The character that a text has for a square, "1" for an empty one.
CharacterOf(text, s) == ExpandFenEmptySquares(text[Ranks + 1 - s[2]])[s[1]]
Occupied(text) == {s \in Squares : ~IsDigit(CharacterOf(text, s))}

LEMMA RowsOfFen ==
  ASSUME NEW C, NEW text \in Seq(Seq(C)), ValidFen(text), NEW i \in 1..Ranks
  PROVE  /\ DOMAIN text = 1..Ranks
         /\ text[i] \in Seq(C)
         /\ ExpandFenEmptySquares(text[i]) \in Seq(C \union {"1"})
         /\ Len(ExpandFenEmptySquares(text[i])) = Files
         /\ \A x \in 1..Files :
               ExpandFenEmptySquares(text[i])[x] \in DOMAIN PieceOf \union {"1"}
<1>1. DOMAIN text = 1..Ranks /\ ValidRow(text[i]) /\ text[i] \in Seq(C)
  <2>1. DOMAIN text = 1..Len(text) /\ Len(text) = Ranks
    BY DEF ValidFen
  <2>2. \A j \in 1..Len(text) : text[j] \in Seq(C)
    OBVIOUS
  <2> QED BY <2>1, <2>2 DEF ValidFen
<1> DEFINE e == ExpandFenEmptySquares(text[i])
<1>2. e \in Seq(C \union {"1"})
  BY <1>1, ColumnsAre, ExpandIs
<1>3. Len(e) = Files /\ \A x \in DOMAIN e : e[x] \in DOMAIN PieceOf \union {"1"}
  BY <1>1 DEF ValidRow
<1> HIDE DEF e
<1>4. DOMAIN e = 1..Files
  BY <1>2, <1>3
<1> QED BY <1>1, <1>2, <1>3, <1>4 DEF e

LEMMA FenToObjIs ==
  ASSUME NEW C, NEW text \in Seq(Seq(C)), ValidFen(text)
  PROVE  FenToObj(text) = [s \in Occupied(text) |-> PieceOf[CharacterOf(text, s)]]
<1> DEFINE placed == UNION {{<<<<l[1], Ranks + 1 - i>>, l[2]>> : l \in LettersOf(text[i])}
                            : i \in DOMAIN text}
           D == {p[1] : p \in placed}
           At(s) == (CHOOSE p \in placed : p[1] = s)[2]
           Really == {<<s, CharacterOf(text, s)>> : s \in Occupied(text)}
<1>1. FenToObj(text) = [s \in D |-> PieceOf[At(s)]]
  BY DEF FenToObj, FenToPieceCode
<1>2. Ranks \in Nat /\ Files \in Nat /\ DOMAIN text = 1..Ranks
  BY BoardAssumption DEF ValidFen
<1>3. ASSUME NEW i \in 1..Ranks
      PROVE  LET e == ExpandFenEmptySquares(text[i])
             IN  LettersOf(text[i]) = {<<x, e[x]>> : x \in {y \in 1..Files : ~IsDigit(e[y])}}
  <2>1. text[i] \in Seq(C) /\ Len(ExpandFenEmptySquares(text[i])) = Files
    BY RowsOfFen
  <2> QED BY <2>1, LettersAre
<1>4. placed \subseteq Really
  <2> SUFFICES ASSUME NEW i \in 1..Ranks, NEW l \in LettersOf(text[i])
               PROVE  <<<<l[1], Ranks + 1 - i>>, l[2]>> \in Really
    <3> SUFFICES ASSUME NEW p \in placed PROVE p \in Really
      OBVIOUS
    <3>1. PICK i \in 1..Ranks :
             p \in {<<<<l[1], Ranks + 1 - i>>, l[2]>> : l \in LettersOf(text[i])}
      BY <1>2
    <3>2. PICK l \in LettersOf(text[i]) : p = <<<<l[1], Ranks + 1 - i>>, l[2]>>
      BY <3>1
    <3> HIDE DEF placed, Really
    <3> QED BY <3>2
  <2> DEFINE e == ExpandFenEmptySquares(text[i])
  <2>1. PICK x \in 1..Files : ~IsDigit(e[x]) /\ l = <<x, e[x]>>
    BY <1>3
  <2> DEFINE s == <<x, Ranks + 1 - i>>
  <2>2. s \in Squares /\ Ranks + 1 - s[2] = i
    BY <1>2 DEF Squares
  <2>3. CharacterOf(text, s) = e[x]
    BY <2>2 DEF CharacterOf
  <2>4. s \in Occupied(text)
    BY <2>1, <2>2, <2>3 DEF Occupied
  <2> QED BY <2>1, <2>3, <2>4
<1>5. Really \subseteq placed
  <2> SUFFICES ASSUME NEW s \in Occupied(text)
               PROVE  <<s, CharacterOf(text, s)>> \in placed
    OBVIOUS
  <2> DEFINE i == Ranks + 1 - s[2]
             e == ExpandFenEmptySquares(text[i])
  <2>1. s \in Squares /\ ~IsDigit(CharacterOf(text, s)) /\ CharacterOf(text, s) = e[s[1]]
    BY DEF Occupied, CharacterOf
  <2>2. s[1] \in 1..Files /\ s[2] \in 1..Ranks /\ s = <<s[1], s[2]>>
    BY <2>1 DEF Squares
  <2>3. i \in 1..Ranks /\ Ranks + 1 - i = s[2]
    BY <1>2, <2>2
  <2>4. <<s[1], e[s[1]]>> \in LettersOf(text[i])
    BY <1>3, <2>1, <2>2, <2>3
  <2> HIDE DEF i, e
  <2>5. <<<<s[1], s[2]>>, e[s[1]]>> \in
          {<<<<l[1], Ranks + 1 - i>>, l[2]>> : l \in LettersOf(text[i])}
    BY <2>3, <2>4
  <2> QED BY <1>2, <2>1, <2>2, <2>3, <2>5
<1>6. placed = Really
  BY <1>4, <1>5
<1> HIDE DEF placed
<1>7. D = Occupied(text)
  <2>1. ASSUME NEW s \in D PROVE s \in Occupied(text)
    <3>1. PICK p \in Really : s = p[1]
      BY <1>6
    <3> QED BY <3>1
  <2>2. ASSUME NEW s \in Occupied(text) PROVE s \in D
    <3>1. <<s, CharacterOf(text, s)>> \in placed /\ <<s, CharacterOf(text, s)>>[1] = s
      BY <1>6
    <3> QED BY <3>1
  <2> HIDE DEF D
  <2> QED BY <2>1, <2>2
<1>8. ASSUME NEW s \in Occupied(text) PROVE At(s) = CharacterOf(text, s)
  <2>1. \E p \in placed : p[1] = s
    <3>1. <<s, CharacterOf(text, s)>> \in placed /\ <<s, CharacterOf(text, s)>>[1] = s
      BY <1>6
    <3> QED BY <3>1
  <2> DEFINE p == CHOOSE p \in placed : p[1] = s
  <2>2. p \in placed /\ p[1] = s
    BY <2>1
  <2>3. At(s) = p[2]
    OBVIOUS
  <2> HIDE DEF p
  <2> QED BY <1>6, <2>2, <2>3
<1> HIDE DEF D, At
<1> QED BY <1>1, <1>7, <1>8

\* Texts that spell the same squares are the same position.
LEMMA SameSquaresSamePosition ==
  ASSUME NEW C, NEW text \in Seq(Seq(C)), ValidFen(text),
         NEW K, NEW other \in Seq(Seq(K)), ValidFen(other),
         \A i \in 1..Ranks : ExpandFenEmptySquares(text[i]) = ExpandFenEmptySquares(other[i])
  PROVE  FenToObj(text) = FenToObj(other)
<1>1. \A s \in Squares : Ranks + 1 - s[2] \in 1..Ranks
  BY BoardAssumption DEF Squares
<1>2. \A s \in Squares : CharacterOf(text, s) = CharacterOf(other, s)
  BY <1>1 DEF CharacterOf
<1>3. Occupied(text) = Occupied(other)
  BY <1>2 DEF Occupied
<1>4. \A s \in Occupied(text) : CharacterOf(text, s) = CharacterOf(other, s)
  BY <1>2 DEF Occupied
<1>5. /\ FenToObj(text) = [s \in Occupied(text) |-> PieceOf[CharacterOf(text, s)]]
      /\ FenToObj(other) = [s \in Occupied(other) |-> PieceOf[CharacterOf(other, s)]]
  BY FenToObjIs
<1> QED BY <1>3, <1>4, <1>5

LEMMA FenToObjIsAPosition ==
  ASSUME NEW C, NEW text \in Seq(Seq(C)), ValidFen(text)
  PROVE  FenToObj(text) \in Positions
<1>1. ASSUME NEW s \in Occupied(text) PROVE PieceOf[CharacterOf(text, s)] \in Pieces
  <2>1. s[1] \in 1..Files /\ Ranks + 1 - s[2] \in 1..Ranks /\ ~IsDigit(CharacterOf(text, s))
    BY BoardAssumption DEF Occupied, Squares
  <2>2. CharacterOf(text, s) \in DOMAIN PieceOf \union {"1"}
    BY <2>1, RowsOfFen DEF CharacterOf
  <2> QED BY <2>1, <2>2, OneIsADigit, LettersAssumption
<1>2. Occupied(text) \in SUBSET Squares
  BY DEF Occupied
<1>3. FenToObj(text) \in [Occupied(text) -> Pieces]
  BY <1>1, FenToObjIs
<1> QED BY <1>2, <1>3 DEF Positions

\* What objToFen writes before it squeezes.
Written(pos, i) ==
  [j \in 1..Files |->
      LET s == <<j, Ranks + 1 - i>>
      IN  IF s \in DOMAIN pos THEN PieceCodeToFen(pos[s]) ELSE "1"]

LEMMA WrittenAsRead ==
  ASSUME NEW C, NEW text \in Seq(Seq(C)), ValidFen(text), NEW i \in 1..Ranks
  PROVE  Written(FenToObj(text), i) = ExpandFenEmptySquares(text[i])
<1> DEFINE pos == FenToObj(text)
           e == ExpandFenEmptySquares(text[i])
<1>1. /\ e \in Seq(C \union {"1"}) /\ Len(e) = Files
      /\ \A x \in 1..Files : e[x] \in DOMAIN PieceOf \union {"1"}
  BY RowsOfFen
<1>2. pos = [s \in Occupied(text) |-> PieceOf[CharacterOf(text, s)]]
  BY FenToObjIs
<1> HIDE DEF pos, e
<1>3. ASSUME NEW j \in 1..Files PROVE Written(pos, i)[j] = e[j]
  <2> DEFINE s == <<j, Ranks + 1 - i>>
  <2>1. s \in Squares /\ Ranks + 1 - s[2] = i /\ s[1] = j
    BY BoardAssumption DEF Squares
  <2>2. CharacterOf(text, s) = e[j]
    BY <2>1 DEF CharacterOf, e
  <2>3. Written(pos, i)[j] = IF s \in DOMAIN pos THEN PieceCodeToFen(pos[s]) ELSE "1"
    BY DEF Written
  <2> HIDE DEF s
  <2>4. CASE e[j] = "1"
    <3>1. s \notin DOMAIN pos
      BY <1>2, <2>2, <2>4, OneIsADigit DEF Occupied
    <3> QED BY <2>3, <2>4, <3>1
  <2>5. CASE e[j] # "1"
    <3>1. e[j] \in DOMAIN PieceOf /\ ~IsDigit(e[j])
      BY <1>1, <2>5, LettersAssumption
    <3>2. s \in DOMAIN pos /\ pos[s] = PieceOf[e[j]]
      BY <1>2, <2>1, <2>2, <3>1 DEF Occupied
    <3>3. PieceCodeToFen(PieceOf[e[j]]) = e[j]
      BY <3>1, LettersAssumption DEF PieceCodeToFen
    <3> QED BY <2>3, <3>2, <3>3
  <2> QED BY <2>4, <2>5
<1>4. e = [j \in 1..Files |-> e[j]]
  BY <1>1
<1>5. Written(pos, i) = [j \in 1..Files |-> Written(pos, i)[j]]
  BY DEF Written
<1> QED BY <1>3, <1>4, <1>5 DEF pos, e

-----------------------------------------------------------------------------
(* Texts put together.                                                     *)

LEMMA Regrouped ==
  ASSUME NEW S
  PROVE  \A x, y, z \in Seq(S) : (x \o y) \o z = x \o (y \o z)
OBVIOUS

LEMMA FlattenConcat ==
  ASSUME NEW S, NEW s \in Seq(Seq(S)), NEW t \in Seq(Seq(S))
  PROVE  FlattenSeq(s \o t) = FlattenSeq(s) \o FlattenSeq(t)
<1>0. \A x, y, z \in Seq(S) : (x \o y) \o z = x \o (y \o z)
  BY Regrouped, SMTT(30)
<1> DEFINE u == s \o t
           M == Len(s)
           N == Len(t)
<1>1. /\ M \in Nat /\ N \in Nat /\ u \in Seq(Seq(S)) /\ Len(u) = M + N
      /\ \A n \in 1..M : u[n] = s[n]
      /\ \A n \in 1..N : u[M + n] = t[n]
  OBVIOUS
<1> HIDE DEF u
<1>2. PICK f : IsFlat(f, s, S)
  BY FlattenIs
<1>3. PICK g : IsFlat(g, t, S)
  BY FlattenIs
<1>4. PICK h : IsFlat(h, u, S)
  BY <1>1, FlattenIs
<1>5. /\ f[0] = <<>> /\ \A n \in 0..M : f[n] \in Seq(S)
      /\ \A n \in 1..M : f[n] = f[n - 1] \o s[n]
      /\ FlattenSeq(s) = f[M]
  BY <1>2 DEF IsFlat
<1>6. /\ g[0] = <<>> /\ \A n \in 0..N : g[n] \in Seq(S)
      /\ \A n \in 1..N : g[n] = g[n - 1] \o t[n]
      /\ FlattenSeq(t) = g[N]
  BY <1>3 DEF IsFlat
<1>7. /\ h[0] = <<>> /\ \A n \in 1..(M + N) : h[n] = h[n - 1] \o u[n]
      /\ FlattenSeq(u) = h[M + N]
  BY <1>1, <1>4 DEF IsFlat
<1>8. h[M] = f[M]
  <2> DEFINE T == {n \in 0..M : h[n] = f[n]}
  <2>1. 0 \in T /\ T \subseteq 0..M
    BY <1>1, <1>5, <1>7
  <2>2. ASSUME NEW n \in 1..M, n - 1 \in T PROVE n \in T
    <3>1. n \in 1..(M + N) /\ n \in 0..M /\ h[n - 1] = f[n - 1]
      BY <1>1, <2>2
    <3>2. h[n] = h[n - 1] \o u[n] /\ f[n] = f[n - 1] \o s[n] /\ u[n] = s[n]
      BY <1>1, <1>5, <1>7, <3>1
    <3> QED BY <3>1, <3>2
  <2> HIDE DEF T
  <2>3. T = 0..M
    BY <1>1, <2>1, <2>2, UpTo
  <2>4. M \in T
    BY <1>1, <2>3
  <2> QED BY <2>4 DEF T
<1>9. h[M + N] = f[M] \o g[N]
  <2> DEFINE T == {n \in 0..N : h[M + n] = f[M] \o g[n]}
  <2>1. 0 \in T /\ T \subseteq 0..N
    <3>1. f[M] \in Seq(S) /\ M + 0 = M /\ 0 \in 0..N
      BY <1>1, <1>5
    <3>2. f[M] \o <<>> = f[M]
      BY <3>1, ConcatEmptySeq
    <3> QED BY <1>6, <1>8, <3>1, <3>2
  <2>2. ASSUME NEW n \in 1..N, n - 1 \in T PROVE n \in T
    <3>1. /\ M + n \in 1..(M + N) /\ (M + n) - 1 = M + (n - 1) /\ n \in 0..N
          /\ M \in 0..M /\ n - 1 \in 0..N
      BY <1>1
    <3>2. h[M + (n - 1)] = f[M] \o g[n - 1]
      BY <2>2
    <3>3. h[M + n] = h[(M + n) - 1] \o u[M + n]
      BY <1>7, <3>1
    <3>4. u[M + n] = t[n] /\ t[n] \in Seq(S) /\ f[M] \in Seq(S) /\ g[n - 1] \in Seq(S)
      <4>1. t[n] \in Seq(S)
        BY ElementOfSeq
      <4>2. u[M + n] = t[n]
        BY <1>1
      <4>3. f[M] \in Seq(S) /\ g[n - 1] \in Seq(S)
        BY <1>5, <1>6, <3>1
      <4> QED BY <4>1, <4>2, <4>3
    <3>5. (f[M] \o g[n - 1]) \o t[n] = f[M] \o (g[n - 1] \o t[n])
      BY <1>0, <3>4
    <3>6. h[M + n] = f[M] \o g[n]
      BY <1>6, <3>1, <3>2, <3>3, <3>4, <3>5
    <3> QED BY <3>1, <3>6
  <2> HIDE DEF T
  <2>3. T = 0..N
    BY <1>1, <2>1, <2>2, UpTo
  <2>4. N \in T
    BY <1>1, <2>3
  <2> QED BY <2>4 DEF T
<1> QED BY <1>5, <1>6, <1>7, <1>9 DEF u

LEMMA SpeltRow ==
  ASSUME NEW C, NEW row \in Seq(C)
  PROVE  /\ [i \in 1..Len(row) |-> Spelt(row[i])] \in Seq(Seq(C \union {"1"}))
         /\ ExpandFenEmptySquares(row) = FlattenSeq([i \in 1..Len(row) |-> Spelt(row[i])])
<1> DEFINE S == C \union {"1"}
<1>1. ASSUME NEW i \in 1..Len(row) PROVE Spelt(row[i]) \in Seq(S)
  <2>1. row[i] \in C
    OBVIOUS
  <2>2. Spelt(row[i]) \in Seq({row[i], "1"}) /\ {row[i], "1"} \subseteq S
    BY <2>1, SpeltIs
  <2> HIDE DEF S
  <2> QED BY <2>2, SeqMonotonic
<1> HIDE DEF S
<1>2. [i \in 1..Len(row) |-> Spelt(row[i])] \in Seq(Seq(S))
  BY <1>1
<1>3. DOMAIN row = 1..Len(row)
  OBVIOUS
<1> QED BY <1>2, <1>3 DEF S, ExpandFenEmptySquares, Spelt

LEMMA ExpandConcat ==
  ASSUME NEW C, NEW a \in Seq(C), NEW b \in Seq(C)
  PROVE  ExpandFenEmptySquares(a \o b) = ExpandFenEmptySquares(a) \o ExpandFenEmptySquares(b)
<1> DEFINE Each(row) == [i \in 1..Len(row) |-> Spelt(row[i])]
           S == C \union {"1"}
<1>1. a \o b \in Seq(C) /\ Len(a \o b) = Len(a) + Len(b)
  OBVIOUS
<1>2. Each(a) \in Seq(Seq(S)) /\ Each(b) \in Seq(Seq(S))
  BY SpeltRow
<1>3. /\ ExpandFenEmptySquares(a) = FlattenSeq(Each(a))
      /\ ExpandFenEmptySquares(b) = FlattenSeq(Each(b))
      /\ ExpandFenEmptySquares(a \o b) = FlattenSeq(Each(a \o b))
  BY <1>1, SpeltRow
<1>4. Each(a \o b) = Each(a) \o Each(b)
  <2>1. /\ Len(Each(a)) = Len(a) /\ Len(Each(b)) = Len(b)
        /\ Len(a) \in Nat /\ Len(b) \in Nat
    OBVIOUS
  <2>2. ASSUME NEW i \in 1..(Len(a) + Len(b))
        PROVE  Each(a \o b)[i] = IF i <= Len(a) THEN Each(a)[i] ELSE Each(b)[i - Len(a)]
    <3>1. (a \o b)[i] = IF i <= Len(a) THEN a[i] ELSE b[i - Len(a)]
      OBVIOUS
    <3>2. Each(a \o b)[i] = Spelt((a \o b)[i])
      BY <1>1
    <3>3. CASE i <= Len(a)
      <4>1. i \in 1..Len(a)
        BY <3>3
      <4> QED BY <3>1, <3>2, <3>3, <4>1
    <3>4. CASE ~(i <= Len(a))
      <4>1. i - Len(a) \in 1..Len(b)
        BY <2>1, <3>4
      <4> QED BY <3>1, <3>2, <3>4, <4>1
    <3> QED BY <3>3, <3>4
  <2>3. Each(a \o b) \in Seq(Seq(S)) /\ Len(Each(a \o b)) = Len(a) + Len(b)
    <3>1. Each(a \o b) \in Seq(Seq(S))
      BY <1>1, SpeltRow, Zenon
    <3>2. Len(Each(a \o b)) = Len(a \o b)
      BY <1>1
    <3> QED BY <1>1, <3>1, <3>2
  <2> HIDE DEF Each, S
  <2>4. /\ Each(a) \o Each(b) \in Seq(Seq(S))
        /\ Len(Each(a) \o Each(b)) = Len(Each(a)) + Len(Each(b))
        /\ \A i \in 1..(Len(Each(a)) + Len(Each(b))) :
              (Each(a) \o Each(b))[i] =
                  IF i <= Len(Each(a)) THEN Each(a)[i] ELSE Each(b)[i - Len(Each(a))]
    BY <1>2, ConcatProperties
  <2>5. /\ Len(Each(a) \o Each(b)) = Len(a) + Len(b)
        /\ \A i \in 1..(Len(a) + Len(b)) : (Each(a) \o Each(b))[i] = Each(a \o b)[i]
    BY <2>1, <2>2, <2>4
  <2> QED BY <2>3, <2>4, <2>5, SeqEqual
<1> HIDE DEF Each, S
<1>5. FlattenSeq(Each(a) \o Each(b)) = FlattenSeq(Each(a)) \o FlattenSeq(Each(b))
  BY <1>2, FlattenConcat
<1> QED BY <1>3, <1>4, <1>5

\* Ones and letters spell themselves.
LEMMA ExpandPlain ==
  ASSUME NEW C, NEW row \in Seq(C), \A i \in 1..Len(row) : row[i] = "1" \/ ~IsDigit(row[i])
  PROVE  ExpandFenEmptySquares(row) = row
<1> DEFINE e == ExpandFenEmptySquares(row)
           col == Columns(row)
           L == Len(row)
<1>1. /\ AreColumns(col, row) /\ e \in Seq(C \union {"1"}) /\ Len(e) = col[L]
      /\ \A j \in 1..L : \A k \in 1..Wide(row[j]) : e[col[j - 1] + k] = Shown(row[j])
  BY ExpandByColumns
<1>2. \A j \in 1..L : Wide(row[j]) = 1 /\ Shown(row[j]) = row[j]
  BY OneIsADigit DEF Wide, Shown
<1>3. L \in Nat
  OBVIOUS
<1> HIDE DEF e, col
<1>4. \A j \in 0..L : col[j] = j
  <2> DEFINE T == {j \in 0..L : col[j] = j}
  <2>1. 0 \in T /\ T \subseteq 0..L
    BY <1>1, <1>3 DEF AreColumns
  <2>2. ASSUME NEW j \in 1..L, j - 1 \in T PROVE j \in T
    BY <1>1, <1>2, <2>2 DEF AreColumns
  <2> HIDE DEF T
  <2>3. T = 0..L
    BY <1>3, <2>1, <2>2, UpTo
  <2> QED BY <2>3 DEF T
<1>5. Len(e) = L
  BY <1>1, <1>3, <1>4
<1>6. ASSUME NEW j \in 1..L PROVE e[j] = row[j]
  <2>1. j - 1 \in 0..L /\ 1 \in 1..Wide(row[j]) /\ (j - 1) + 1 = j
    BY <1>2
  <2>2. e[col[j - 1] + 1] = row[j]
    BY <1>1, <1>2, <2>1
  <2> QED BY <1>4, <2>1, <2>2
<1>7. row \in Seq(C \union {"1"})
  BY SeqMonotonic
<1> HIDE DEF L
<1>8. e = row
  BY <1>1, <1>5, <1>6, <1>7, SeqEqual DEF L
<1> QED BY <1>8 DEF e

LEMMA ExpandOnes ==
  ASSUME NEW n \in 1..8
  PROVE  /\ Ones(n) \in Seq({"1"}) /\ Len(Ones(n)) = n
         /\ ExpandFenEmptySquares(Ones(n)) = Ones(n)
         /\ ExpandFenEmptySquares(<<Digit[n]>>) = Ones(n)
<1>1. Ones(n) \in Seq({"1"}) /\ Len(Ones(n)) = n /\ \A i \in 1..n : Ones(n)[i] = "1"
  BY DEF Ones
<1>2. ExpandFenEmptySquares(Ones(n)) = Ones(n)
  BY <1>1, ExpandPlain
<1> DEFINE row == <<Digit[n]>>
           e == ExpandFenEmptySquares(row)
           col == Columns(row)
<1>3. row \in Seq({Digit[n]}) /\ Len(row) = 1 /\ row[1] = Digit[n]
  OBVIOUS
<1>4. Wide(row[1]) = n /\ Shown(row[1]) = "1"
  BY <1>3, NumberOfDigit DEF Wide, Shown
<1>5. /\ AreColumns(col, row) /\ e \in Seq({Digit[n]} \union {"1"}) /\ Len(e) = col[Len(row)]
      /\ \A j \in 1..Len(row) : \A k \in 1..Wide(row[j]) : e[col[j - 1] + k] = Shown(row[j])
  <2> HIDE DEF row
  <2> QED BY <1>3, ExpandByColumns
<1> HIDE DEF row, e, col
<1>6. col[0] = 0 /\ col[1] = n /\ col[1 - 1] = 0
  BY <1>3, <1>4, <1>5 DEF AreColumns
<1>7. Len(e) = n /\ \A k \in 1..n : e[k] = "1"
  <2>1. \A k \in 1..n : e[0 + k] = "1"
    BY <1>3, <1>4, <1>5, <1>6
  <2> QED BY <1>3, <1>5, <1>6, <2>1
<1>8. Ones(n) \in Seq({Digit[n]} \union {"1"})
  BY <1>1, SeqMonotonic
<1>9. e = Ones(n)
  BY <1>1, <1>5, <1>7, <1>8, SeqEqual
<1> QED BY <1>1, <1>2, <1>9 DEF e, row

-----------------------------------------------------------------------------
(* The replacement of the first n ones of a text by the digit n.           *)

OnesAt(t, q, n) ==
  q \in 1..Len(t) /\ q + n - 1 \in 1..Len(t) /\ \A k \in q..(q + n - 1) : t[k] = "1"

First(t, p, n) == OnesAt(t, p, n) /\ \A q \in 1..(p - 1) : ~OnesAt(t, q, n)

LEMMA SubSeqsAre ==
  ASSUME NEW u, NEW v
  PROVE  v \in SubSeqs(u) <=> \E i, j \in 0..Len(u) : v = SubSeq(u, i + 1, j)
BY SMT DEF SubSeqs

LEMMA OnesAreASubSeq ==
  ASSUME NEW C, NEW t \in Seq(C), NEW n \in 1..8, NEW m \in 0..Len(t)
  PROVE  Ones(n) \in SubSeqs(SubSeq(t, 1, m)) <=> \E q \in 1..Len(t) : OnesAt(t, q, n) /\ q + n - 1 <= m
<1> DEFINE u == SubSeq(t, 1, m)
<1>1. u \in Seq(C) /\ Len(u) = m /\ \A i \in 1..m : u[i] = t[i]
  OBVIOUS
<1> HIDE DEF u
<1>2. ASSUME NEW q \in 1..Len(t), OnesAt(t, q, n), q + n - 1 <= m
      PROVE  Ones(n) \in SubSeqs(u)
  <2>1. q - 1 \in 0..m /\ q + n - 1 \in 0..m /\ (q - 1) + 1 = q /\ q \in 1..m
    BY <1>2
  <2>2. SubSeq(u, q, q + n - 1) \in SubSeqs(u)
    <3>1. SubSeq(u, (q - 1) + 1, q + n - 1) \in SubSeqs(u)
      BY <1>1, <2>1, SubSeqsAre
    <3> QED BY <2>1, <3>1
  <2>3. SubSeq(u, q, q + n - 1) = [i \in 1..n |-> u[q + i - 1]]
    BY <1>1, <2>1
  <2>4. ASSUME NEW i \in 1..n PROVE u[q + i - 1] = "1"
    <3>1. q + i - 1 \in q..(q + n - 1) /\ q + i - 1 \in 1..m
      BY <1>2, <2>1
    <3> QED BY <1>1, <1>2, <3>1 DEF OnesAt
  <2>5. SubSeq(u, q, q + n - 1) = Ones(n)
    BY <2>3, <2>4 DEF Ones
  <2> QED BY <2>2, <2>5
<1>3. ASSUME Ones(n) \in SubSeqs(u)
      PROVE  \E q \in 1..Len(t) : OnesAt(t, q, n) /\ q + n - 1 <= m
  <2>1. PICK i \in 0..m, j \in 0..m : Ones(n) = SubSeq(u, i + 1, j)
    <3>1. \E i, j \in 0..Len(u) : Ones(n) = SubSeq(u, i + 1, j)
      BY <1>3, SubSeqsAre
    <3> QED BY <1>1, <3>1
  <2>2. Len(Ones(n)) = n /\ \A k \in 1..n : Ones(n)[k] = "1"
    BY DEF Ones
  <2>3. Len(SubSeq(u, i + 1, j)) = (IF i + 1 <= j THEN j - (i + 1) + 1 ELSE 0)
        /\ \A k \in 1..(j - (i + 1) + 1) : SubSeq(u, i + 1, j)[k] = u[(i + 1) + k - 1]
    <3>1. \A k \in (i + 1)..j : u[k] \in C
      BY <1>1
    <3> QED BY <3>1, SubSeqProperties
  <2>4. j = i + n
    BY <2>1, <2>2, <2>3
  <2>5. i + 1 \in 1..Len(t) /\ (i + 1) + n - 1 \in 1..Len(t) /\ (i + 1) + n - 1 <= m
    BY <2>4
  <2>6. ASSUME NEW k \in (i + 1)..((i + 1) + n - 1) PROVE t[k] = "1"
    <3>1. k - i \in 1..n /\ (i + 1) + (k - i) - 1 = k /\ k \in 1..m
      BY <2>4
    <3>2. j - (i + 1) + 1 = n
      BY <2>4
    <3>3. u[k] = "1"
      BY <2>1, <2>2, <2>3, <3>1, <3>2
    <3> QED BY <1>1, <3>1, <3>3
  <2> QED BY <2>5, <2>6 DEF OnesAt
<1> QED BY <1>2, <1>3 DEF u

LEMMA ReplaceFirstIs ==
  ASSUME NEW C, NEW t \in Seq(C), NEW n \in 1..8
  PROVE  \/ /\ \A q \in 1..Len(t) : ~OnesAt(t, q, n)
            /\ ReplaceFirstSubSeq(<<Digit[n]>>, Ones(n), t) = t
         \/ \E p \in 1..Len(t) :
               /\ First(t, p, n)
               /\ ReplaceFirstSubSeq(<<Digit[n]>>, Ones(n), t) =
                     SubSeq(t, 1, p - 1) \o <<Digit[n]>> \o SubSeq(t, p + n, Len(t))
<1> DEFINE r == ReplaceFirstSubSeq(<<Digit[n]>>, Ones(n), t)
           Upto(m) == Ones(n) \in SubSeqs(SubSeq(t, 1, m))
<1>0. Len(t) \in Nat /\ Len(Ones(n)) = n
  BY DEF Ones
<1>1. \A m \in 0..Len(t) : Upto(m) <=> \E q \in 1..Len(t) : OnesAt(t, q, n) /\ q + n - 1 <= m
  BY OnesAreASubSeq
<1>2. Ones(n) \in SubSeqs(t) <=> Upto(Len(t))
  <2>1. SubSeq(t, 1, Len(t)) = t
    BY SubSeqFull
  <2> QED BY <2>1
<1> HIDE DEF Upto
<1>3. CASE ~Upto(Len(t))
  <2>1. r = t
    BY <1>2, <1>3 DEF ReplaceFirstSubSeq
  <2>2. \A q \in 1..Len(t) : OnesAt(t, q, n) => q + n - 1 <= Len(t)
    BY DEF OnesAt
  <2>3. \A q \in 1..Len(t) : ~OnesAt(t, q, n)
    BY <1>0, <1>1, <1>3, <2>2
  <2> QED BY <2>1, <2>3
<1>4. CASE Upto(Len(t))
  <2> DEFINE IsLast(m) == Upto(m) /\ \A j \in 0..(m - 1) : ~Upto(j)
             T == {m \in 0..Len(t) : Upto(m)}
             last == CHOOSE m \in 0..Len(t) : IsLast(m)
  <2>1. last \in 0..Len(t) /\ IsLast(last)
    <3>1. T \subseteq Nat /\ T # {}
      BY <1>0, <1>4
    <3>2. PICK m \in T : \A j \in T : m <= j
      <4> HIDE DEF T
      <4> QED BY <3>1, LeastNumber
    <3>3. \A j \in 0..(m - 1) : ~Upto(j)
      BY <1>0, <3>2
    <3>4. m \in 0..Len(t) /\ IsLast(m)
      BY <3>2, <3>3
    <3> HIDE DEF IsLast
    <3> QED BY <3>4
  <2>2. IndexFirstSubSeq(Ones(n), t) = last - (n - 1)
    BY <1>0 DEF IndexFirstSubSeq, Upto
  <2> HIDE DEF last
  <2>3. PICK p \in 1..Len(t) : OnesAt(t, p, n) /\ p + n - 1 <= last
    BY <1>1, <2>1
  <2>4. p + n - 1 = last
    <3> SUFFICES ASSUME p + n - 1 # last PROVE FALSE
      OBVIOUS
    <3>1. last - 1 \in 0..Len(t) /\ last - 1 \in 0..(last - 1) /\ p + n - 1 <= last - 1
      BY <1>0, <2>1, <2>3
    <3>2. Upto(last - 1)
      BY <1>1, <2>3, <3>1
    <3> QED BY <2>1, <3>1, <3>2
  <2>5. First(t, p, n)
    <3> SUFFICES ASSUME NEW q \in 1..(p - 1), OnesAt(t, q, n) PROVE FALSE
      BY <2>3 DEF First
    <3>1. q \in 1..Len(t) /\ q + n - 1 <= last - 1 /\ last - 1 \in 0..Len(t) /\ last - 1 \in 0..(last - 1)
      BY <1>0, <2>1, <2>4
    <3>2. Upto(last - 1)
      BY <1>1, <3>1
    <3> QED BY <2>1, <3>1, <3>2
  <2>6. IndexFirstSubSeq(Ones(n), t) = p
    BY <2>1, <2>2, <2>4
  <2>7. r = SubSeq(t, 1, p - 1) \o <<Digit[n]>> \o SubSeq(t, p + n, Len(t))
    BY <1>0, <1>2, <1>4, <2>6 DEF ReplaceFirstSubSeq, ReplaceSubSeqAt
  <2> QED BY <2>5, <2>7
<1> QED BY <1>3, <1>4
Digits == {Digit[n] : n \in 1..8}

Replaced(t, p, n) == SubSeq(t, 1, p - 1) \o <<Digit[n]>> \o SubSeq(t, p + n, Len(t))

LEMMA ReplacedIs ==
  ASSUME NEW C, Digits \subseteq C, NEW t \in Seq(C), NEW n \in 1..8, NEW p \in 1..Len(t),
         OnesAt(t, p, n)
  PROVE  /\ Replaced(t, p, n) \in Seq(C)
         /\ Len(Replaced(t, p, n)) = Len(t) - n + 1
         /\ \A i \in 1..(p - 1) : Replaced(t, p, n)[i] = t[i]
         /\ Replaced(t, p, n)[p] = Digit[n]
         /\ \A i \in (p + 1)..(Len(t) - n + 1) : Replaced(t, p, n)[i] = t[i + n - 1]
         /\ ExpandFenEmptySquares(Replaced(t, p, n)) = ExpandFenEmptySquares(t)
<1> DEFINE a == SubSeq(t, 1, p - 1)
           d == <<Digit[n]>>
           b == SubSeq(t, p + n, Len(t))
           o == Ones(n)
           E(row) == ExpandFenEmptySquares(row)
<1>1. Len(t) \in Nat /\ p + n - 1 <= Len(t) /\ p \in Nat
  BY DEF OnesAt
<1>2. a \in Seq(C) /\ Len(a) = p - 1 /\ \A i \in 1..(p - 1) : a[i] = t[i]
  BY <1>1
<1>3. d \in Seq(C) /\ Len(d) = 1 /\ d[1] = Digit[n]
  BY DEF Digits
<1>4. /\ b \in Seq(C) /\ Len(b) = Len(t) - n - p + 1
      /\ \A i \in 1..(Len(t) - n - p + 1) : b[i] = t[p + n + i - 1]
  <2>1. \A i \in (p + n)..Len(t) : t[i] \in C
    BY <1>1
  <2>2. /\ b \in Seq(C) /\ Len(b) = (IF p + n <= Len(t) THEN Len(t) - (p + n) + 1 ELSE 0)
        /\ \A i \in 1..(Len(t) - (p + n) + 1) : b[i] = t[(p + n) + i - 1]
    BY <1>1, <2>1, SubSeqProperties
  <2>3. Len(t) - (p + n) + 1 = Len(t) - n - p + 1
    BY <1>1
  <2> HIDE DEF b
  <2>4. Len(b) = Len(t) - n - p + 1
    <3>1. CASE p + n <= Len(t)
      BY <2>2, <2>3, <3>1
    <3>2. CASE ~(p + n <= Len(t))
      <4>1. p + n = Len(t) + 1
        BY <1>1, <3>2
      <4> QED BY <1>1, <2>2, <3>2, <4>1
    <3> QED BY <3>1, <3>2
  <2> QED BY <2>2, <2>3, <2>4
<1>5. o \in Seq(C) /\ Len(o) = n /\ \A i \in 1..n : o[i] = "1"
  <2>1. "1" \in C
    BY DEF Digits, Digit
  <2> QED BY <2>1 DEF Ones
<1> HIDE DEF a, b, d, o
<1>6. Replaced(t, p, n) = (a \o d) \o b
  BY DEF Replaced, a, b, d
<1>7. /\ a \o d \in Seq(C) /\ Len(a \o d) = p
      /\ \A i \in 1..(p - 1) : (a \o d)[i] = t[i]
      /\ (a \o d)[p] = Digit[n]
  <2>1. /\ a \o d \in Seq(C) /\ Len(a \o d) = Len(a) + Len(d)
        /\ \A i \in 1..(Len(a) + Len(d)) : (a \o d)[i] = IF i <= Len(a) THEN a[i] ELSE d[i - Len(a)]
    BY <1>2, <1>3, ConcatProperties
  <2>2. Len(a) + Len(d) = p
    BY <1>1, <1>2, <1>3
  <2>3. \A i \in 1..p : (a \o d)[i] = IF i <= p - 1 THEN a[i] ELSE d[i - (p - 1)]
    BY <1>2, <2>1, <2>2
  <2>4. /\ p \in 1..p /\ ~(p <= p - 1) /\ p - (p - 1) = 1
        /\ \A i \in 1..(p - 1) : i \in 1..p /\ i <= p - 1
    BY <1>1
  <2> QED BY <1>2, <1>3, <2>1, <2>2, <2>3, <2>4
<1>8. /\ (a \o d) \o b \in Seq(C) /\ Len((a \o d) \o b) = Len(t) - n + 1
      /\ \A i \in 1..(Len(t) - n + 1) :
            ((a \o d) \o b)[i] = IF i <= p THEN (a \o d)[i] ELSE b[i - p]
  <2> DEFINE ad == a \o d
  <2>1. ad \in Seq(C) /\ Len(ad) = p
    BY <1>7
  <2> HIDE DEF ad
  <2>2. /\ ad \o b \in Seq(C) /\ Len(ad \o b) = Len(ad) + Len(b)
        /\ \A i \in 1..(Len(ad) + Len(b)) : (ad \o b)[i] = IF i <= Len(ad) THEN ad[i] ELSE b[i - Len(ad)]
    BY <1>4, <2>1, ConcatProperties
  <2>3. Len(ad) + Len(b) = Len(t) - n + 1
    BY <1>1, <1>4, <2>1
  <2>4. \A i \in 1..(Len(t) - n + 1) : (ad \o b)[i] = IF i <= p THEN ad[i] ELSE b[i - p]
    BY <2>1, <2>2, <2>3
  <2> QED BY <2>2, <2>3, <2>4 DEF ad
<1>9. ASSUME NEW i \in (p + 1)..(Len(t) - n + 1)
      PROVE  ((a \o d) \o b)[i] = t[i + n - 1]
  <2>1. i \in 1..(Len(t) - n + 1) /\ ~(i <= p) /\ i - p \in 1..(Len(t) - n - p + 1)
        /\ p + n + (i - p) - 1 = i + n - 1
    BY <1>1
  <2> QED BY <1>4, <1>8, <2>1
<1>10. \A i \in 1..p : ((a \o d) \o b)[i] = (a \o d)[i]
  <2>1. \A i \in 1..p : i \in 1..(Len(t) - n + 1) /\ i <= p
    BY <1>1
  <2> QED BY <1>8, <2>1
<1>11. t = (a \o o) \o b
  <2> DEFINE ao == a \o o
  <2>1. /\ ao \in Seq(C) /\ Len(ao) = p + n - 1
        /\ \A i \in 1..(p + n - 1) : ao[i] = IF i <= p - 1 THEN a[i] ELSE o[i - (p - 1)]
    <3>1. /\ ao \in Seq(C) /\ Len(ao) = Len(a) + Len(o)
          /\ \A i \in 1..(Len(a) + Len(o)) : ao[i] = IF i <= Len(a) THEN a[i] ELSE o[i - Len(a)]
      BY <1>2, <1>5, ConcatProperties
    <3>2. Len(a) + Len(o) = p + n - 1
      BY <1>1, <1>2, <1>5
    <3> QED BY <1>2, <3>1, <3>2
  <2> HIDE DEF ao
  <2>2. /\ ao \o b \in Seq(C) /\ Len(ao \o b) = Len(ao) + Len(b)
        /\ \A i \in 1..(Len(ao) + Len(b)) : (ao \o b)[i] = IF i <= Len(ao) THEN ao[i] ELSE b[i - Len(ao)]
    BY <1>4, <2>1, ConcatProperties
  <2>3. Len(ao) + Len(b) = Len(t)
    BY <1>1, <1>4, <2>1
  <2>4. ASSUME NEW i \in 1..Len(t) PROVE (ao \o b)[i] = t[i]
    <3>1. (ao \o b)[i] = IF i <= Len(ao) THEN ao[i] ELSE b[i - Len(ao)]
      BY <2>2, <2>3
    <3>2. CASE i <= p - 1
      <4>1. i \in 1..(p - 1) /\ i \in 1..(p + n - 1) /\ i <= p + n - 1
        BY <1>1, <3>2
      <4> QED BY <1>2, <2>1, <3>1, <4>1
    <3>3. CASE ~(i <= p - 1) /\ i <= p + n - 1
      <4>1. i \in 1..(p + n - 1) /\ i - (p - 1) \in 1..n /\ i \in p..(p + n - 1)
        BY <1>1, <3>3
      <4>2. ao[i] = "1"
        BY <1>5, <2>1, <3>3, <4>1
      <4> QED BY <2>1, <3>1, <3>3, <4>1, <4>2 DEF OnesAt
    <3>4. CASE ~(i <= p + n - 1)
      <4>1. i - (p + n - 1) \in 1..(Len(t) - n - p + 1)
            /\ p + n + (i - (p + n - 1)) - 1 = i
        BY <1>1, <3>4
      <4>2. b[i - (p + n - 1)] = t[i]
        BY <1>4, <4>1
      <4> QED BY <2>1, <3>1, <3>4, <4>2
    <3> QED BY <3>2, <3>3, <3>4
  <2>5. Len(ao \o b) = Len(t)
    BY <2>2, <2>3
  <2>6. ao \o b = t
    BY <2>2, <2>4, <2>5, SeqEqual
  <2> QED BY <2>6 DEF ao
<1>12. E((a \o d) \o b) = E(t)
  <2>1. a \o d \in Seq(C) /\ a \o o \in Seq(C)
    BY <1>2, <1>3, <1>5
  <2>2. E((a \o d) \o b) = E(a \o d) \o E(b) /\ E((a \o o) \o b) = E(a \o o) \o E(b)
    BY <1>4, <2>1, ExpandConcat
  <2>3. E(a \o d) = E(a) \o E(d) /\ E(a \o o) = E(a) \o E(o)
    BY <1>2, <1>3, <1>5, ExpandConcat
  <2>4. E(d) = E(o)
    BY ExpandOnes DEF d, o
  <2> HIDE DEF E
  <2> QED BY <1>11, <2>2, <2>3, <2>4
<1> DEFINE r == Replaced(t, p, n)
<1>13. /\ r \in Seq(C) /\ Len(r) = Len(t) - n + 1 /\ E(r) = E(t)
       /\ \A i \in (p + 1)..(Len(t) - n + 1) : r[i] = t[i + n - 1]
  BY <1>6, <1>8, <1>9, <1>12
<1>14. p \in 1..p /\ \A i \in 1..(p - 1) : i \in 1..p
  BY <1>1
<1>15. r[p] = Digit[n] /\ \A i \in 1..(p - 1) : r[i] = t[i]
  BY <1>6, <1>7, <1>10, <1>14
<1> QED BY <1>13, <1>15

-----------------------------------------------------------------------------
(* squeezeFenEmptySquares.  Its replacements leave no two digits side by   *)
(* side, except after an 8 and where ones are still to be squeezed.        *)

NoRun(t, n) == \A q \in 1..Len(t) : ~OnesAt(t, q, n)

Tight(t) ==
  \A i \in 1..(Len(t) - 1) :
    IsDigit(t[i]) /\ IsDigit(t[i + 1]) => t[i] = "8" \/ (t[i] = "1" /\ t[i + 1] = "1")

LEMMA DigitOverOne ==
  ASSUME NEW n \in 2..8
  PROVE  n \in 1..8 /\ Digit[n] # "1" /\ IsDigit(Digit[n]) /\ (n = 8 => Digit[n] = "8")
<1>1. 1 \in 1..8 /\ n \in 1..8 /\ n # 1
  OBVIOUS
<1>2. Digit[1] = "1" /\ Digit[8] = "8"
  BY DEF Digit
<1>3. Digit[n] # Digit[1]
  BY <1>1, DigitsDiffer
<1> QED BY <1>1, <1>2, <1>3, NumberOfDigit

LEMMA ReplacedStaysTight ==
  ASSUME NEW C, Digits \subseteq C, NEW t \in Seq(C), NEW n \in 2..8, NEW p \in 1..Len(t),
         First(t, p, n), Tight(t), n = 8 \/ NoRun(t, n + 1)
  PROVE  /\ Tight(Replaced(t, p, n))
         /\ n = 8 \/ NoRun(Replaced(t, p, n), n + 1)
<1> DEFINE r == Replaced(t, p, n)
           L == Len(t)
<1>1. /\ L \in Nat /\ p \in Nat /\ n \in Nat /\ p + n - 1 \in 1..L
      /\ \A k \in p..(p + n - 1) : t[k] = "1"
      /\ \A q \in 1..(p - 1) : ~OnesAt(t, q, n)
  BY DEF First, OnesAt
<1>2. Digit[n] # "1" /\ IsDigit(Digit[n]) /\ (n = 8 => Digit[n] = "8") /\ IsDigit("1") /\ "1" # "8"
  BY DigitOverOne, OneIsADigit
<1>3. /\ Len(r) = L - n + 1
      /\ \A i \in 1..(p - 1) : r[i] = t[i]
      /\ r[p] = Digit[n]
      /\ \A i \in (p + 1)..(L - n + 1) : r[i] = t[i + n - 1]
  <2>1. n \in 1..8 /\ OnesAt(t, p, n)
    BY DigitOverOne DEF First
  <2>2. Len(Replaced(t, p, n)) = Len(t) - n + 1
    BY <2>1, ReplacedIs
  <2>5. Replaced(t, p, n)[p] = Digit[n]
    BY <2>1, ReplacedIs
  <2>3. \A i \in 1..(p - 1) : Replaced(t, p, n)[i] = t[i]
    BY <2>1, ReplacedIs
  <2>4. \A i \in (p + 1)..(Len(t) - n + 1) : Replaced(t, p, n)[i] = t[i + n - 1]
    BY <2>1, ReplacedIs, ZenonT(30)
  <2> QED BY <2>2, <2>3, <2>4, <2>5
<1> HIDE DEF r
<1>4. ASSUME NEW i \in 1..(Len(r) - 1), IsDigit(r[i]), IsDigit(r[i + 1])
      PROVE  r[i] = "8" \/ (r[i] = "1" /\ r[i + 1] = "1")
  <2>1. CASE i + 1 < p
    <3>1. i \in 1..(p - 1) /\ i + 1 \in 1..(p - 1) /\ i \in 1..(L - 1)
      BY <1>1, <2>1
    <3>2. r[i] = t[i] /\ r[i + 1] = t[i + 1]
      BY <1>3, <3>1
    <3> QED BY <1>4, <3>1, <3>2 DEF Tight
  <2>2. CASE i + 1 = p
    <3>1. i \in 1..(p - 1) /\ i \in 1..(L - 1) /\ p \in p..(p + n - 1)
      BY <1>1, <2>2
    <3>2. r[i] = t[i] /\ t[i + 1] = "1"
      BY <1>1, <1>3, <2>2, <3>1
    <3>3. t[i] # "1"
      <4> SUFFICES ASSUME t[i] = "1" PROVE FALSE
        OBVIOUS
      <4>1. \A k \in i..(i + n - 1) : t[k] = "1"
        <5> SUFFICES ASSUME NEW k \in i..(i + n - 1), k # i PROVE t[k] = "1"
          OBVIOUS
        <5>1. k \in p..(p + n - 1)
          BY <1>1, <2>2, <3>1
        <5> QED BY <1>1, <5>1
      <4>2. i \in 1..L /\ i + n - 1 \in 1..L
        BY <1>1, <2>2, <3>1
      <4> QED BY <1>1, <3>1, <4>1, <4>2 DEF OnesAt
    <3> QED BY <1>2, <1>4, <3>1, <3>2, <3>3 DEF Tight
  <2>3. CASE i = p /\ n = 8
    BY <1>2, <1>3, <2>3
  <2>4. CASE i = p /\ n # 8
    <3>1. i + 1 \in (p + 1)..(L - n + 1) /\ (i + 1) + n - 1 = p + n
      BY <1>1, <1>3, <2>4
    <3>2. r[i + 1] = t[p + n]
      BY <1>3, <3>1
    <3>3. p + n - 1 \in 1..(L - 1) /\ (p + n - 1) + 1 = p + n /\ p + n \in 1..L
          /\ p + n - 1 \in p..(p + n - 1)
      BY <1>1, <1>3, <2>4
    <3>4. t[p + n - 1] = "1"
      BY <1>1, <3>3
    <3>5. t[p + n] = "1"
      BY <1>2, <1>4, <3>2, <3>3, <3>4 DEF Tight
    <3>6. \A k \in p..(p + (n + 1) - 1) : t[k] = "1"
      <4> SUFFICES ASSUME NEW k \in p..(p + (n + 1) - 1) PROVE t[k] = "1"
        OBVIOUS
      <4>1. k = p + n \/ k \in p..(p + n - 1)
        BY <1>1
      <4> QED BY <1>1, <3>5, <4>1
    <3>7. p + (n + 1) - 1 \in 1..L
      BY <1>1, <3>3
    <3>8. OnesAt(t, p, n + 1)
      BY <3>6, <3>7 DEF OnesAt
    <3> QED BY <2>4, <3>8 DEF NoRun
  <2>5. CASE i > p
    <3>1. /\ i \in (p + 1)..(L - n + 1) /\ i + 1 \in (p + 1)..(L - n + 1)
          /\ i + n - 1 \in 1..(L - 1) /\ (i + 1) + n - 1 = (i + n - 1) + 1
      BY <1>1, <1>3, <2>5
    <3>2. PICK j \in 1..(L - 1) : j = i + n - 1
      BY <3>1
    <3>3. r[i] = t[j] /\ r[i + 1] = t[j + 1]
      BY <1>3, <3>1, <3>2
    <3>4. IsDigit(t[j]) /\ IsDigit(t[j + 1])
      BY <1>4, <3>3, Zenon
    <3>5. t[j] = "8" \/ (t[j] = "1" /\ t[j + 1] = "1")
      BY <3>4 DEF Tight
    <3> QED BY <3>3, <3>5
  <2> QED BY <1>1, <1>3, <2>1, <2>2, <2>3, <2>4, <2>5
<1>5. ASSUME n # 8, NEW q \in 1..Len(r), OnesAt(r, q, n + 1) PROVE FALSE
  <2>1. q + (n + 1) - 1 \in 1..Len(r) /\ \A k \in q..(q + (n + 1) - 1) : r[k] = "1"
    BY <1>5 DEF OnesAt
  <2>2. p \notin q..(q + (n + 1) - 1)
    BY <1>2, <1>3, <2>1
  <2>3. CASE p < q
    <3>1. q + n - 1 \in 1..L /\ (q + n - 1) + (n + 1) - 1 \in 1..L
      BY <1>1, <1>3, <2>1, <2>3
    <3>2. ASSUME NEW k \in (q + n - 1)..((q + n - 1) + (n + 1) - 1) PROVE t[k] = "1"
      <4>1. /\ k - (n - 1) \in q..(q + (n + 1) - 1) /\ k - (n - 1) \in (p + 1)..(L - n + 1)
            /\ (k - (n - 1)) + n - 1 = k
        BY <1>1, <1>3, <2>1, <2>3
      <4> QED BY <1>3, <2>1, <4>1
    <3>3. OnesAt(t, q + n - 1, n + 1)
      BY <3>1, <3>2 DEF OnesAt
    <3> QED BY <1>5, <3>1, <3>3 DEF NoRun
  <2>4. CASE q + (n + 1) - 1 < p
    <3>1. q \in 1..L /\ q + (n + 1) - 1 \in 1..L
      BY <1>1, <1>3, <2>1, <2>4
    <3>2. ASSUME NEW k \in q..(q + (n + 1) - 1) PROVE t[k] = "1"
      <4>1. k \in 1..(p - 1)
        BY <1>1, <2>4
      <4> QED BY <1>3, <2>1, <4>1
    <3>3. OnesAt(t, q, n + 1)
      BY <3>1, <3>2 DEF OnesAt
    <3> QED BY <1>5, <3>1, <3>3 DEF NoRun
  <2> QED BY <1>1, <2>1, <2>2, <2>3, <2>4
<1>6. Tight(r)
  BY <1>4 DEF Tight
<1>7. n = 8 \/ NoRun(r, n + 1)
  BY <1>5 DEF NoRun
<1> QED BY <1>6, <1>7 DEF r

Squeezed(t, n) == ReplaceFirstSubSeq(<<Digit[n]>>, Ones(n), t)

LEMMA SqueezedIs ==
  ASSUME NEW C, Digits \subseteq C, NEW t \in Seq(C), NEW n \in 1..8
  PROVE  /\ Squeezed(t, n) \in Seq(C)
         /\ \/ NoRun(t, n) /\ Squeezed(t, n) = t
            \/ \E p \in 1..Len(t) : First(t, p, n) /\ Squeezed(t, n) = Replaced(t, p, n)
<1>1. CASE NoRun(t, n) /\ Squeezed(t, n) = t
  BY <1>1
<1>2. CASE \E p \in 1..Len(t) : First(t, p, n) /\ Squeezed(t, n) = Replaced(t, p, n)
  <2>1. PICK p \in 1..Len(t) : First(t, p, n) /\ Squeezed(t, n) = Replaced(t, p, n)
    BY <1>2
  <2>2. Replaced(t, p, n) \in Seq(C)
    BY <2>1, ReplacedIs DEF First
  <2> QED BY <1>2, <2>1, <2>2
<1> QED BY <1>1, <1>2, ReplaceFirstIs DEF Squeezed, NoRun, Replaced

IsSqueezing(g, row, n) ==
  /\ g[0] = row
  /\ \A k \in 1..Len(row) : g[k] = Squeezed(g[k - 1], n)
  /\ ReplaceEvery(row, Ones(n), <<Digit[n]>>) = g[Len(row)]

LEMMA ReplaceEveryIs ==
  ASSUME NEW C, Digits \subseteq C, NEW row \in Seq(C), NEW n \in 1..8
  PROVE  \E g \in [0..Len(row) -> Seq(C)] : IsSqueezing(g, row, n)
<1> DEFINE L == Len(row)
           F == [q \in (Nat \ {0}) \X Seq(C) |-> Squeezed(q[2], n)]
           Are(c) == c = [k \in 0..L |->
                            IF k = 0 THEN row
                            ELSE ReplaceFirstSubSeq(<<Digit[n]>>, Ones(n), c[k - 1])]
<1>0. L \in Nat
  OBVIOUS
<1>1. F \in [(Nat \ {0}) \X Seq(C) -> Seq(C)]
  <2>1. ASSUME NEW q \in (Nat \ {0}) \X Seq(C) PROVE Squeezed(q[2], n) \in Seq(C)
    BY SqueezedIs
  <2> QED BY <2>1
<1>2. PICK h \in [0..L -> Seq(C)] : IsRun(h, L, row, F)
  <2> HIDE DEF F
  <2> QED BY <1>0, <1>1, RunExists
<1>3. Are(h)
  <2>1. ASSUME NEW k \in 0..L
        PROVE  h[k] = IF k = 0 THEN row
                      ELSE ReplaceFirstSubSeq(<<Digit[n]>>, Ones(n), h[k - 1])
    <3>1. h[k] = IF k = 0 THEN row ELSE F[<<k, h[k - 1]>>]
      BY <1>2 DEF IsRun
    <3>2. CASE k # 0
      <4>1. <<k, h[k - 1]>> \in (Nat \ {0}) \X Seq(C)
        <5>1. k \in Nat \ {0} /\ k - 1 \in 0..L
          BY <1>0, <3>2
        <5> QED BY <5>1
      <4>2. F[<<k, h[k - 1]>>] = Squeezed(h[k - 1], n)
        BY <4>1
      <4> HIDE DEF F
      <4> QED BY <3>1, <3>2, <4>2 DEF Squeezed
    <3> QED BY <3>1, <3>2
  <2> HIDE DEF F
  <2> QED BY <2>1
<1> HIDE DEF F
<1> DEFINE g == CHOOSE c : Are(c)
<1>4. Are(g)
  BY <1>3
<1>5. ReplaceEvery(row, Ones(n), <<Digit[n]>>) = g[L]
  BY DEF ReplaceEvery
<1> HIDE DEF g
<1>6. g[0] = row /\ \A k \in 1..L : g[k] = Squeezed(g[k - 1], n)
  <2>1. \A k \in 0..L :
           g[k] = IF k = 0 THEN row ELSE ReplaceFirstSubSeq(<<Digit[n]>>, Ones(n), g[k - 1])
    BY <1>4
  <2> HIDE DEF Are
  <2>2. g[0] = row
    BY <1>0, <2>1
  <2>3. ASSUME NEW k \in 1..L PROVE g[k] = Squeezed(g[k - 1], n)
    <3>1. k \in 0..L /\ k # 0
      BY <1>0
    <3> QED BY <2>1, <3>1 DEF Squeezed
  <2> QED BY <2>2, <2>3
<1>7. \A k \in 0..L : g[k] \in Seq(C)
  <2> DEFINE T == {k \in 0..L : g[k] \in Seq(C)}
  <2>1. 0 \in T /\ T \subseteq 0..L
    BY <1>0, <1>6
  <2>2. ASSUME NEW k \in 1..L, k - 1 \in T PROVE k \in T
    <3>1. g[k - 1] \in Seq(C) /\ g[k] = Squeezed(g[k - 1], n) /\ k \in 0..L
      BY <1>0, <1>6, <2>2
    <3> HIDE DEF g
    <3>2. Squeezed(g[k - 1], n) \in Seq(C)
      BY <3>1, SqueezedIs
    <3> QED BY <3>1, <3>2
  <2> HIDE DEF T
  <2>3. T = 0..L
    BY <1>0, <2>1, <2>2, UpTo
  <2> QED BY <2>3 DEF T
<1>8. g = [k \in 0..L |-> g[k]]
  BY <1>4
<1>9. g \in [0..L -> Seq(C)]
  BY <1>7, <1>8
<1> QED BY <1>5, <1>6, <1>9 DEF IsSqueezing

LEMMA ReplaceEverySqueezes ==
  ASSUME NEW C, Digits \subseteq C, NEW row \in Seq(C), NEW n \in 2..8,
         Tight(row), n = 8 \/ NoRun(row, n + 1)
  PROVE  LET x == ReplaceEvery(row, Ones(n), <<Digit[n]>>)
         IN  /\ x \in Seq(C) /\ Tight(x) /\ NoRun(x, n)
             /\ ExpandFenEmptySquares(x) = ExpandFenEmptySquares(row)
<1> DEFINE L == Len(row)
           Same(u) == ExpandFenEmptySquares(u) = ExpandFenEmptySquares(row)
           Good(u) == Tight(u) /\ (n = 8 \/ NoRun(u, n + 1)) /\ Same(u)
<1>0. n \in 1..8 /\ L \in Nat
  BY DigitOverOne
<1>1. PICK g \in [0..L -> Seq(C)] : IsSqueezing(g, row, n)
  BY <1>0, ReplaceEveryIs
<1>2. /\ g[0] = row /\ \A k \in 1..L : g[k] = Squeezed(g[k - 1], n)
      /\ ReplaceEvery(row, Ones(n), <<Digit[n]>>) = g[L]
  BY <1>1 DEF IsSqueezing
<1>3. ASSUME NEW u \in Seq(C), Good(u)
      PROVE  /\ Good(Squeezed(u, n))
             /\ \/ Squeezed(u, n) = u /\ NoRun(u, n)
                \/ Len(Squeezed(u, n)) < Len(u)
  <2>1. CASE NoRun(u, n) /\ Squeezed(u, n) = u
    BY <1>3, <2>1
  <2>2. CASE \E p \in 1..Len(u) : First(u, p, n) /\ Squeezed(u, n) = Replaced(u, p, n)
    <3>1. PICK p \in 1..Len(u) : First(u, p, n) /\ Squeezed(u, n) = Replaced(u, p, n)
      BY <2>2
    <3>2. OnesAt(u, p, n)
      BY <3>1 DEF First
    <3>3. Len(Replaced(u, p, n)) = Len(u) - n + 1
      BY <1>0, <3>2, ReplacedIs, ZenonT(30)
    <3>4. ExpandFenEmptySquares(Replaced(u, p, n)) = ExpandFenEmptySquares(u)
      BY <1>0, <3>2, ReplacedIs
    <3>5. Tight(Replaced(u, p, n)) /\ (n = 8 \/ NoRun(Replaced(u, p, n), n + 1))
      BY <1>3, <3>1, ReplacedStaysTight
    <3>6. Len(Replaced(u, p, n)) < Len(u)
      BY <3>3
    <3> QED BY <1>3, <3>1, <3>4, <3>5, <3>6
  <2> QED BY <1>0, <2>1, <2>2, SqueezedIs
<1> HIDE DEF Good
<1> DEFINE T == {k \in 0..L : Good(g[k]) /\ (NoRun(g[k], n) \/ Len(g[k]) + k <= L)}
<1>4. 0 \in T /\ T \subseteq 0..L
  <2>1. Good(row)
    BY DEF Good
  <2> QED BY <1>0, <1>2, <2>1
<1>5. ASSUME NEW k \in 1..L, k - 1 \in T PROVE k \in T
  <2>1. /\ k - 1 \in 0..L /\ k \in 0..L /\ Good(g[k - 1])
        /\ NoRun(g[k - 1], n) \/ Len(g[k - 1]) + (k - 1) <= L
    BY <1>0, <1>5
  <2>2. g[k - 1] \in Seq(C) /\ g[k] = Squeezed(g[k - 1], n) /\ g[k] \in Seq(C)
    BY <1>2, <2>1
  <2>3. Good(g[k])
    BY <1>3, <2>1, <2>2
  <2>4. (g[k] = g[k - 1] /\ NoRun(g[k - 1], n)) \/ Len(g[k]) < Len(g[k - 1])
    BY <1>3, <2>1, <2>2
  <2>5. CASE NoRun(g[k - 1], n)
    <3>1. g[k] = g[k - 1]
      <4>1. \A p \in 1..Len(g[k - 1]) : ~First(g[k - 1], p, n)
        BY <2>5 DEF NoRun, First
      <4> QED BY <1>0, <2>2, <4>1, SqueezedIs
    <3> QED BY <2>1, <2>3, <2>5, <3>1
  <2>6. CASE ~NoRun(g[k - 1], n)
    <3>1. Len(g[k]) \in Nat /\ Len(g[k - 1]) \in Nat
      BY <2>2
    <3>2. Len(g[k]) + k <= L
      BY <1>0, <2>1, <2>4, <2>6, <3>1
    <3> QED BY <2>1, <2>3, <3>2
  <2> QED BY <2>5, <2>6
<1> HIDE DEF T
<1>6. T = 0..L
  BY <1>0, <1>4, <1>5, UpTo
<1>7. L \in 0..L /\ g[L] \in Seq(C) /\ Good(g[L]) /\ (NoRun(g[L], n) \/ Len(g[L]) + L <= L)
  BY <1>0, <1>6 DEF T
<1>8. NoRun(g[L], n)
  <2>1. CASE Len(g[L]) + L <= L
    <3>1. Len(g[L]) = 0
      BY <1>0, <1>7, <2>1
    <3> QED BY <3>1 DEF NoRun
  <2> QED BY <1>7, <2>1
<1> QED BY <1>2, <1>7, <1>8 DEF Good
LEMMA SqueezeIs ==
  ASSUME NEW C, Digits \subseteq C, NEW row \in Seq(C),
         \A i \in 1..Len(row) : row[i] = "1" \/ ~IsDigit(row[i])
  PROVE  /\ SqueezeFenEmptySquares(row) \in Seq(C)
         /\ Tight(SqueezeFenEmptySquares(row)) /\ NoRun(SqueezeFenEmptySquares(row), 2)
         /\ ExpandFenEmptySquares(SqueezeFenEmptySquares(row)) = row
<1> DEFINE F == [q \in (Nat \ {0}) \X Seq(C) |->
                   IF q[1] \in 1..7 THEN ReplaceEvery(q[2], Ones(9 - q[1]), <<Digit[9 - q[1]]>>)
                   ELSE q[2]]
           Are(c) == c = [n \in 0..7 |->
                            IF n = 0 THEN row
                            ELSE ReplaceEvery(c[n - 1], Ones(9 - n), <<Digit[9 - n]>>)]
<1>1. F \in [(Nat \ {0}) \X Seq(C) -> Seq(C)]
  <2>1. ASSUME NEW u \in Seq(C), NEW n \in 1..8
        PROVE  ReplaceEvery(u, Ones(n), <<Digit[n]>>) \in Seq(C)
    <3>1. PICK g \in [0..Len(u) -> Seq(C)] : IsSqueezing(g, u, n)
      BY ReplaceEveryIs
    <3>2. Len(u) \in 0..Len(u)
      OBVIOUS
    <3> QED BY <3>1, <3>2 DEF IsSqueezing
  <2>2. ASSUME NEW q \in (Nat \ {0}) \X Seq(C), q[1] \in 1..7
        PROVE  ReplaceEvery(q[2], Ones(9 - q[1]), <<Digit[9 - q[1]]>>) \in Seq(C)
    <3>1. 9 - q[1] \in 1..8 /\ q[2] \in Seq(C)
      BY <2>2
    <3> QED BY <2>1, <3>1
  <2>3. \A q \in (Nat \ {0}) \X Seq(C) : q[2] \in Seq(C)
    OBVIOUS
  <2>4. \A q \in (Nat \ {0}) \X Seq(C) :
          (IF q[1] \in 1..7 THEN ReplaceEvery(q[2], Ones(9 - q[1]), <<Digit[9 - q[1]]>>)
           ELSE q[2]) \in Seq(C)
    BY <2>2, <2>3
  <2> QED BY <2>4
<1>2. PICK h \in [0..7 -> Seq(C)] : IsRun(h, 7, row, F)
  <2> HIDE DEF F
  <2> QED BY <1>1, RunExists
<1>3. Are(h)
  <2>1. ASSUME NEW k \in 0..7
        PROVE  h[k] = IF k = 0 THEN row
                      ELSE ReplaceEvery(h[k - 1], Ones(9 - k), <<Digit[9 - k]>>)
    <3>1. h[k] = IF k = 0 THEN row ELSE F[<<k, h[k - 1]>>]
      BY <1>2 DEF IsRun
    <3>2. CASE k # 0
      <4>1. <<k, h[k - 1]>> \in (Nat \ {0}) \X Seq(C) /\ k \in 1..7
        <5>1. k \in Nat \ {0} /\ k - 1 \in 0..7
          BY <3>2
        <5> QED BY <3>2, <5>1
      <4>2. F[<<k, h[k - 1]>>] = ReplaceEvery(h[k - 1], Ones(9 - k), <<Digit[9 - k]>>)
        BY <4>1
      <4> HIDE DEF F
      <4> QED BY <3>1, <3>2, <4>2
    <3> QED BY <3>1, <3>2
  <2> HIDE DEF F
  <2> QED BY <2>1
<1> HIDE DEF F
<1> DEFINE g == CHOOSE c : Are(c)
<1>4. Are(g)
  BY <1>3
<1>5. SqueezeFenEmptySquares(row) = g[7]
  BY DEF SqueezeFenEmptySquares
<1>6. \A k \in 0..7 :
         g[k] = IF k = 0 THEN row ELSE ReplaceEvery(g[k - 1], Ones(9 - k), <<Digit[9 - k]>>)
  BY <1>4
<1> HIDE DEF g
<1> DEFINE Good(u) == u \in Seq(C) /\ Tight(u) /\ ExpandFenEmptySquares(u) = row
           T == {k \in 0..7 : Good(g[k]) /\ (k = 0 \/ NoRun(g[k], 9 - k))}
<1>7. 0 \in T /\ T \subseteq 0..7
  <2>1. ExpandFenEmptySquares(row) = row
    BY ExpandPlain
  <2>2. Tight(row)
    <3>1. Len(row) \in Nat
      OBVIOUS
    <3>2. ASSUME NEW i \in 1..(Len(row) - 1), IsDigit(row[i]), IsDigit(row[i + 1])
          PROVE  row[i] = "1" /\ row[i + 1] = "1"
      <4>1. i \in 1..Len(row) /\ i + 1 \in 1..Len(row)
        BY <3>1
      <4> QED BY <3>2, <4>1
    <3> QED BY <3>2 DEF Tight
  <2>3. g[0] = row
    BY <1>6
  <2> QED BY <2>1, <2>2, <2>3
<1>8. ASSUME NEW k \in 1..7, k - 1 \in T PROVE k \in T
  <2>1. PICK n \in 2..8 : n = 9 - k
    OBVIOUS
  <2>2. Good(g[k - 1]) /\ (k - 1 = 0 \/ NoRun(g[k - 1], 9 - (k - 1)))
    BY <1>8
  <2>3. n = 8 \/ NoRun(g[k - 1], n + 1)
    <3>1. CASE k = 1
      BY <2>1, <3>1
    <3>2. CASE k # 1
      <4>1. k - 1 # 0 /\ 9 - (k - 1) = n + 1
        BY <2>1, <3>2
      <4> QED BY <2>2, <4>1
    <3> QED BY <3>1, <3>2
  <2>4. g[k] = ReplaceEvery(g[k - 1], Ones(n), <<Digit[n]>>)
    <3>1. k \in 0..7 /\ k # 0
      OBVIOUS
    <3> QED BY <1>6, <2>1, <3>1
  <2>5. PICK u \in Seq(C) : u = g[k - 1] /\ Tight(u) /\ ExpandFenEmptySquares(u) = row
    BY <2>2
  <2>6. LET x == ReplaceEvery(u, Ones(n), <<Digit[n]>>)
        IN  /\ x \in Seq(C) /\ Tight(x) /\ NoRun(x, n)
            /\ ExpandFenEmptySquares(x) = ExpandFenEmptySquares(u)
    BY <2>3, <2>5, ReplaceEverySqueezes
  <2>7. Good(g[k]) /\ NoRun(g[k], n)
    BY <2>4, <2>5, <2>6
  <2>8. k \in 0..7
    OBVIOUS
  <2> HIDE DEF Good
  <2> QED BY <2>1, <2>7, <2>8
<1> HIDE DEF T
<1>9. T = 0..7
  BY <1>7, <1>8, UpTo
<1>10. 7 \in T
  BY <1>9
<1>11. Good(g[7]) /\ NoRun(g[7], 2)
  <2>1. 9 - 7 = 2 /\ 7 # 0
    OBVIOUS
  <2> HIDE DEF Good
  <2> QED BY <1>10, <2>1 DEF T
<1> QED BY <1>5, <1>11

-----------------------------------------------------------------------------
(* The squeezed text is the shortest: two of its characters never fit into *)
(* what one character of another text spells.                              *)

\* The columns of two characters of a squeezed text, a digit's each, are more
\* than eight apart unless a letter lies between.
LEMMA Apart ==
  ASSUME NEW C, NEW t \in Seq(C), Tight(t), NoRun(t, 2), NEW col, AreColumns(col, t),
         NEW i \in 1..Len(t), NEW j \in 1..Len(t), i < j, IsDigit(t[i]), IsDigit(t[i + 1])
  PROVE  col[i - 1] + 8 <= col[j - 1]
<1>1. i \in 1..(Len(t) - 1) /\ i - 1 \in 0..Len(t) /\ i \in 0..Len(t) /\ j - 1 \in 0..Len(t)
      /\ i \in 0..(j - 1) /\ Len(t) \in Nat
  OBVIOUS
<1>2. t[i] = "8" \/ (t[i] = "1" /\ t[i + 1] = "1")
  BY <1>1 DEF Tight
<1>3. ~(t[i] = "1" /\ t[i + 1] = "1")
  <2> SUFFICES ASSUME t[i] = "1", t[i + 1] = "1" PROVE FALSE
    OBVIOUS
  <2>1. \A k \in i..(i + 2 - 1) : k = i \/ k = i + 1
    BY <1>1
  <2>2. i + 2 - 1 \in 1..Len(t)
    BY <1>1
  <2>3. OnesAt(t, i, 2)
    BY <2>1, <2>2 DEF OnesAt
  <2> QED BY <2>3 DEF NoRun
<1>4. Wide(t[i]) = 8
  <2>1. 8 \in 1..8 /\ Digit[8] = "8"
    BY DEF Digit
  <2>2. Number("8") = 8
    BY <2>1, NumberOfDigit
  <2> QED BY <1>2, <1>3, <2>2 DEF Wide
<1>5. col[i] = col[i - 1] + 8 /\ col[i - 1] \in Nat /\ col[i] \in Nat /\ col[j - 1] \in Nat
  BY <1>1, <1>4 DEF AreColumns
<1>6. i = j - 1 \/ col[i] < col[j - 1]
  <2>1. i < j - 1 => col[i] < col[j - 1]
    BY <1>1, ColumnsGrow
  <2> QED BY <1>1, <2>1
<1> QED BY <1>5, <1>6, SMTT(30)

LEMMA Within ==
  ASSUME NEW a \in Nat, NEW b \in Nat, NEW x \in Nat, NEW w \in Nat, w <= 8,
         NEW k \in Nat, 1 <= k, k <= w, NEW l \in Nat, 1 <= l, l <= w,
         a + 1 = x + k, b + 1 = x + l
  PROVE  /\ ~(a + 8 <= b)
         /\ \A y \in Nat : a < y /\ y <= b => \E c \in 1..w : y + 1 = x + c
<1>1. ~(a + 8 <= b)
  OBVIOUS
<1>2. ASSUME NEW y \in Nat, a < y, y <= b PROVE \E c \in 1..w : y + 1 = x + c
  <2>1. y + 1 - x \in 1..w /\ y + 1 = x + (y + 1 - x)
    BY <1>2
  <2> QED BY <2>1
<1> QED BY <1>1, <1>2

\* Where two characters of the one text start in what one character of the
\* other spells, only a digit can spell both.
LEMMA OneEach ==
  ASSUME NEW C, NEW t \in Seq(C), Tight(t), NoRun(t, 2), NEW K, NEW u \in Seq(K),
         ExpandFenEmptySquares(u) = ExpandFenEmptySquares(t),
         NEW col, col = Columns(t), NEW cou, cou = Columns(u),
         NEW i \in 1..Len(t), NEW m \in 1..Len(t), i < m,
         NEW j \in 1..Len(u), NEW k \in 1..Wide(u[j]), NEW l \in 1..Wide(u[j]),
         col[i - 1] + 1 = cou[j - 1] + k, col[m - 1] + 1 = cou[j - 1] + l
  PROVE  FALSE
<1> DEFINE e == ExpandFenEmptySquares(t)
<1>1. Len(t) \in Nat /\ Len(u) \in Nat
  OBVIOUS
<1>2. /\ AreColumns(col, t)
      /\ \A a \in 1..Len(t) : \A b \in 1..Wide(t[a]) : e[col[a - 1] + b] = Shown(t[a])
  BY ExpandByColumns
<1>3. /\ AreColumns(cou, u)
      /\ \A a \in 1..Len(u) : \A b \in 1..Wide(u[a]) : e[cou[a - 1] + b] = Shown(u[a])
  BY ExpandByColumns
<1> HIDE DEF e
<1>4. i - 1 \in 0..(m - 1) /\ i - 1 \in 0..Len(t) /\ i \in 0..(m - 1) /\ m - 1 \in 0..Len(t)
      /\ i - 1 < m - 1 /\ i \in 0..Len(t) /\ j - 1 \in 0..Len(u) /\ i + 1 \in 1..Len(t)
  BY <1>1
<1>5. /\ col[i - 1] \in Nat /\ col[m - 1] \in Nat /\ cou[j - 1] \in Nat /\ col[i] \in Nat
      /\ Wide(u[j]) \in 1..8
  BY <1>2, <1>3, <1>4, SpeltIs DEF AreColumns
<1>6. PICK a \in Nat, b \in Nat, x \in Nat, y \in Nat, w \in 1..8 :
          a = col[i - 1] /\ b = col[m - 1] /\ x = cou[j - 1] /\ y = col[i] /\ w = Wide(u[j])
  BY <1>5
<1>7. /\ ~(a + 8 <= b)
      /\ \A z \in Nat : a < z /\ z <= b => \E c \in 1..w : z + 1 = x + c
  <2>1. w \in Nat /\ w <= 8
    OBVIOUS
  <2>2. k \in Nat /\ 1 <= k /\ k <= w
    BY <1>6
  <2>3. l \in Nat /\ 1 <= l /\ l <= w
    BY <1>6
  <2>4. a + 1 = x + k /\ b + 1 = x + l
    BY <1>6
  <2> QED BY <2>1, <2>2, <2>3, <2>4, Within
<1>8. col[i - 1] < col[m - 1]
  BY <1>1, <1>2, <1>4, ColumnsGrow
<1>9. IsDigit(u[j])
  <2> SUFFICES ASSUME ~IsDigit(u[j]) PROVE FALSE
    OBVIOUS
  <2>1. k = 1 /\ l = 1
    BY DEF Wide
  <2> QED BY <1>5, <1>8, <2>1
<1>10. \A g \in 1..Wide(u[j]) : e[cou[j - 1] + g] = "1"
  BY <1>3, <1>9 DEF Shown
<1>11. \A c : Shown(c) = "1" => IsDigit(c)
  BY OneIsADigit DEF Shown
<1>12. \A g \in 1..Len(t) : 1 \in 1..Wide(t[g])
  <2> SUFFICES ASSUME NEW g \in 1..Len(t) PROVE 1 \in 1..Wide(t[g])
    OBVIOUS
  <2>1. Wide(t[g]) \in 1..8
    BY SpeltIs
  <2> QED BY <2>1
<1>13. IsDigit(t[i])
  <2>1. e[col[i - 1] + 1] = "1"
    BY <1>10
  <2>2. e[col[i - 1] + 1] = Shown(t[i])
    BY <1>2, <1>12
  <2> QED BY <1>11, <2>1, <2>2
<1>14. IsDigit(t[i + 1])
  <2>1. i = m - 1 \/ col[i] < col[m - 1]
    <3>1. i < m - 1 => col[i] < col[m - 1]
      BY <1>1, <1>2, <1>4, ColumnsGrow
    <3> QED BY <1>4, <3>1
  <2>2. col[i - 1] < col[i]
    <3>1. i - 1 \in 0..i /\ i - 1 < i
      BY <1>4
    <3> QED BY <1>1, <1>2, <1>4, <3>1, ColumnsGrow
  <2>3. col[i] <= col[m - 1]
    BY <1>5, <2>1, SMTT(30)
  <2>4. PICK g \in 1..Wide(u[j]) : col[i] + 1 = cou[j - 1] + g
    <3>1. a < y /\ y <= b
      BY <1>6, <2>2, <2>3
    <3>2. \E c \in 1..w : y + 1 = x + c
      BY <1>7, <3>1
    <3> QED BY <1>6, <3>2
  <2>5. e[col[i] + 1] = "1"
    BY <1>10, <2>4
  <2>6. e[col[i] + 1] = Shown(t[i + 1])
    <3>1. (i + 1) - 1 = i
      BY <1>4
    <3>2. e[col[(i + 1) - 1] + 1] = Shown(t[i + 1])
      BY <1>2, <1>4, <1>12
    <3> QED BY <3>1, <3>2
  <2> QED BY <1>11, <2>5, <2>6
<1>15. col[i - 1] + 8 <= col[m - 1]
  BY <1>2, <1>13, <1>14, Apart
<1> QED BY <1>6, <1>7, <1>15

LEMMA Shortest ==
  ASSUME NEW C, NEW t \in Seq(C), Tight(t), NoRun(t, 2), NEW K, NEW u \in Seq(K),
         ExpandFenEmptySquares(u) = ExpandFenEmptySquares(t)
  PROVE  Len(t) <= Len(u)
<1>0. PICK col, cou : col = Columns(t) /\ cou = Columns(u)
  OBVIOUS
<1>1. Len(t) \in Nat /\ Len(u) \in Nat
  OBVIOUS
<1>2. AreColumns(col, t) /\ AreColumns(cou, u) /\ cou[Len(u)] = col[Len(t)]
  <2>1. /\ AreColumns(col, t) /\ Width(t) = col[Len(t)]
        /\ Len(ExpandFenEmptySquares(t)) = Width(t)
    BY <1>0, ExpandByColumns
  <2>2. /\ AreColumns(cou, u) /\ Width(u) = cou[Len(u)]
        /\ Len(ExpandFenEmptySquares(u)) = Width(u)
    BY <1>0, ExpandByColumns
  <2> QED BY <2>1, <2>2
<1> DEFINE Holds(i, j) == \E k \in 1..Wide(u[j]) : col[i - 1] + 1 = cou[j - 1] + k
           f == [i \in 1..Len(t) |-> CHOOSE j \in 1..Len(u) : Holds(i, j)]
<1>3. ASSUME NEW i \in 1..Len(t) PROVE \E j \in 1..Len(u) : Holds(i, j)
  <2>1. 1 \in 1..Wide(t[i])
    <3>1. Wide(t[i]) \in 1..8
      BY SpeltIs
    <3> QED BY <3>1
  <2>2. col[i - 1] + 1 \in 1..cou[Len(u)]
    BY <1>1, <1>2, <2>1, InWidth
  <2> QED BY <1>1, <1>2, <2>2, ColumnsCover
<1>4. \A i \in 1..Len(t) : f[i] \in 1..Len(u) /\ Holds(i, f[i])
  <2> HIDE DEF Holds
  <2> QED BY <1>3
<1>5. f \in [1..Len(t) -> 1..Len(u)]
  BY <1>4
<1> HIDE DEF f
<1>6. ASSUME NEW i \in 1..Len(t), NEW m \in 1..Len(t), i < m, f[i] = f[m] PROVE FALSE
  <2>1. PICK j \in 1..Len(u) : j = f[i]
    BY <1>4
  <2>2. PICK k \in 1..Wide(u[j]) : col[i - 1] + 1 = cou[j - 1] + k
    BY <1>4, <2>1
  <2>3. PICK l \in 1..Wide(u[j]) : col[m - 1] + 1 = cou[j - 1] + l
    BY <1>4, <1>6, <2>1
  <2> QED BY <1>0, <1>6, <2>2, <2>3, OneEach
<1>7. SUFFICES ASSUME ~(Len(t) <= Len(u)) PROVE FALSE
  OBVIOUS
<1>8. /\ IsFiniteSet(1..Len(t)) /\ Cardinality(1..Len(t)) = Len(t)
      /\ IsFiniteSet(1..Len(u)) /\ Cardinality(1..Len(u)) = Len(u)
  <2>1. 1 \in Int /\ Len(t) \in Int /\ Len(u) \in Int
    BY <1>1
  <2>2. /\ IsFiniteSet(1..Len(t))
        /\ Cardinality(1..Len(t)) = IF 1 > Len(t) THEN 0 ELSE Len(t) - 1 + 1
    BY <2>1, FS_Interval
  <2>3. /\ IsFiniteSet(1..Len(u))
        /\ Cardinality(1..Len(u)) = IF 1 > Len(u) THEN 0 ELSE Len(u) - 1 + 1
    BY <2>1, FS_Interval
  <2> QED BY <1>1, <2>2, <2>3
<1>9. Cardinality(1..Len(u)) < Cardinality(1..Len(t))
  BY <1>1, <1>7, <1>8
<1>10. \E i, m \in 1..Len(t) : i # m /\ f[i] = f[m]
  <2>1. \A g \in [1..Len(t) -> 1..Len(u)] : \E i, m \in 1..Len(t) : i # m /\ g[i] = g[m]
    BY <1>8, <1>9, FS_PigeonHole
  <2> QED BY <1>5, <2>1
<1>11. PICK i \in 1..Len(t), m \in 1..Len(t) : i # m /\ f[i] = f[m]
  BY <1>10
<1>12. i < m \/ m < i
  BY <1>11
<1> QED BY <1>6, <1>11, <1>12

\* What objToFen makes of a valid text: the same squares, in the fewest characters.
LEMMA ObjToFenIs ==
  ASSUME NEW text \in Seq(Seq(Keys)), ValidFen(text)
  PROVE  LET out == ObjToFen(FenToObj(text))
         IN  /\ out \in Seq(Seq(DOMAIN PieceOf \union Digits)) /\ Len(out) = Ranks
             /\ \A i \in 1..Ranks :
                   /\ ExpandFenEmptySquares(out[i]) = ExpandFenEmptySquares(text[i])
                   /\ Len(out[i]) <= Len(text[i])
<1> DEFINE pos == FenToObj(text)
           C == DOMAIN PieceOf \union Digits
           out == ObjToFen(pos)
<1>1. out = [i \in 1..Ranks |-> SqueezeFenEmptySquares(Written(pos, i))]
  BY DEF ObjToFen, Written
<1>2. "1" \in Digits
  <2>1. 1 \in 1..8 /\ Digit[1] = "1"
    BY DEF Digit
  <2> QED BY <2>1 DEF Digits
<1> HIDE DEF out
<1>3. ASSUME NEW i \in 1..Ranks
      PROVE  LET x == SqueezeFenEmptySquares(Written(pos, i))
             IN  /\ x \in Seq(C) /\ ExpandFenEmptySquares(x) = ExpandFenEmptySquares(text[i])
                 /\ Len(x) <= Len(text[i])
  <2>1. PICK e : e = ExpandFenEmptySquares(text[i])
    OBVIOUS
  <2>2. /\ text[i] \in Seq(Keys) /\ e \in Seq(Keys \union {"1"}) /\ Len(e) = Files
        /\ \A x \in 1..Files : e[x] \in DOMAIN PieceOf \union {"1"}
    BY <2>1, RowsOfFen
  <2>3. Written(pos, i) = e
    BY <2>1, WrittenAsRead
  <2>4. e \in Seq(C)
    <3>1. DOMAIN e = 1..Files /\ e = [x \in 1..Files |-> e[x]]
      BY <2>2
    <3>2. \A x \in 1..Files : e[x] \in C
      BY <1>2, <2>2
    <3>3. Files \in Nat
      BY BoardAssumption
    <3> HIDE DEF C
    <3>4. [x \in 1..Files |-> e[x]] \in Seq(C)
      BY <3>2, <3>3
    <3> QED BY <3>1, <3>4
  <2>5. \A x \in 1..Len(e) : e[x] = "1" \/ ~IsDigit(e[x])
    BY <2>2, LettersAssumption
  <2>6. Digits \subseteq C
    OBVIOUS
  <2> HIDE DEF C
  <2>7. PICK x : x = SqueezeFenEmptySquares(e)
    OBVIOUS
  <2>8. x \in Seq(C) /\ Tight(x) /\ NoRun(x, 2) /\ ExpandFenEmptySquares(x) = e
    BY <2>4, <2>5, <2>6, <2>7, SqueezeIs
  <2>9. Len(x) <= Len(text[i])
    BY <2>1, <2>2, <2>8, Shortest
  <2> QED BY <2>1, <2>3, <2>7, <2>8, <2>9
<1>4. Ranks \in Nat
  BY BoardAssumption
<1> HIDE DEF C, pos
<1>5. out \in Seq(Seq(C)) /\ Len(out) = Ranks
  <2>1. \A i \in 1..Ranks : SqueezeFenEmptySquares(Written(pos, i)) \in Seq(C)
    BY <1>3
  <2> QED BY <1>1, <1>4, <2>1
<1>6. \A i \in 1..Ranks :
        /\ ExpandFenEmptySquares(out[i]) = ExpandFenEmptySquares(text[i])
        /\ Len(out[i]) <= Len(text[i])
  BY <1>1, <1>3
<1> QED BY <1>5, <1>6 DEF out, pos, C

LEMMA WrittenIsShortest == FenInv => TextDeterminesPosition
<1> SUFFICES ASSUME FenInv, ValidFen(fen) PROVE TextDeterminesPosition
  BY DEF TextDeterminesPosition
<1>1. fen \in Seq(Seq(Keys)) /\ DOMAIN fen = 1..Ranks
  BY DEF FenInv, ValidFen
<1>2. PICK pos : pos = FenToObj(fen)
  OBVIOUS
<1>3. PICK out : out = ObjToFen(pos)
  OBVIOUS
<1>4. /\ out \in Seq(Seq(DOMAIN PieceOf \union Digits)) /\ Len(out) = Ranks
      /\ \A i \in 1..Ranks :
            /\ ExpandFenEmptySquares(out[i]) = ExpandFenEmptySquares(fen[i])
            /\ Len(out[i]) <= Len(fen[i])
  BY <1>1, <1>2, <1>3, ObjToFenIs
<1>5. ValidFen(out)
  <2>1. \A i \in 1..Ranks : ValidRow(fen[i])
    BY <1>1 DEF ValidFen
  <2>2. \A i \in 1..Ranks : ValidRow(out[i])
    BY <1>4, <2>1 DEF ValidRow
  <2>3. DOMAIN out = 1..Ranks
    BY <1>4
  <2> QED BY <1>4, <2>2, <2>3 DEF ValidFen
<1>6. FenToObj(out) = pos
  BY <1>1, <1>2, <1>4, <1>5, SameSquaresSamePosition
<1>7. pos \in Positions
  BY <1>1, <1>2, FenToObjIsAPosition
<1> QED BY <1>1, <1>2, <1>3, <1>4, <1>5, <1>6, <1>7 DEF TextDeterminesPosition

\* Whatever the board, the pieces and the text: a text that validFen accepts is
\* one position, objToFen writes a valid text for it that reads back as the
\* same position, and no row of it is longer than the row it was read from.  So
\* setCurrentPosition (1140-1144) may compare the texts of two positions, and
\* the replacements of squeezeFenEmptySquares (406-414), each applied to what
\* the one before it left, squeeze as far as digits up to 8 can.
THEOREM TextsAndPositions == PartsSpec => []TextDeterminesPosition
BY WrittenIsShortest, FenInvInit, FenInvNext, PTL DEF PartsSpec
=============================================================================
