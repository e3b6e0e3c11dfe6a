------------------------- MODULE ChessPosition_proofs ------------------------
(***************************************************************************)
(* Lemmas about positions, for boards of every size and any set of pieces: *)
(* what the operators of ChessPosition return, and what the matching loop  *)
(* of calculateAnimations leaves when it ends.                             *)
(***************************************************************************)
EXTENDS ChessPosition, FiniteSetTheorems, WellFoundedInduction, TLAPS

-----------------------------------------------------------------------------
(* Induction, in the form that first-order provers can use: a set of       *)
(* numbers has a least one.                                                *)

LEMMA LeastNumber ==
  ASSUME NEW T, T \subseteq Nat, T # {}
  PROVE  \E m \in T : \A n \in T : m <= n
<1> DEFINE Less == {ss \in Nat \X Nat : ss[1] < ss[2]}
<1>1. IsWellFoundedOn(Less, Nat)
  BY NatLessThanWellFounded, Zenon DEF OpToRel
<1>2. PICK m \in T : \A n \in T : ~(<<n, m>> \in Less)
  <2> HIDE DEF Less
  <2> QED BY <1>1, WFMin, Zenon
<1>3. ASSUME NEW n \in T PROVE m <= n
  <2>1. m \in Nat /\ n \in Nat /\ <<n, m>> \notin Less
    BY <1>2
  <2> QED BY <2>1
<1> QED BY <1>3

\* From one number to the next, up to N.
LEMMA UpTo ==
  ASSUME NEW N \in Nat, NEW T, T \subseteq 0..N, 0 \in T,
         \A n \in 1..N : n - 1 \in T => n \in T
  PROVE  T = 0..N
<1> SUFFICES ASSUME (0..N) \ T # {} PROVE FALSE
  OBVIOUS
<1> DEFINE Out == (0..N) \ T
<1>1. PICK n \in Out : \A k \in Out : n <= k
  <2>1. Out \subseteq Nat /\ Out # {}
    OBVIOUS
  <2> HIDE DEF Out
  <2> QED BY <2>1, LeastNumber
<1>2. n \in 1..N
  OBVIOUS
<1>3. n - 1 \notin Out /\ n - 1 \in 0..N
  <2>1. n - 1 \in 0..N /\ ~(n <= n - 1)
    BY <1>2
  <2> QED BY <2>1, <1>1
<1> QED BY <1>2, <1>3

-----------------------------------------------------------------------------
(* Positions and moves. *)

LEMMA SquaresAreFinite == IsFiniteSet(Squares)
<1>1. Files \in Int /\ Ranks \in Int
  BY BoardAssumption
<1>2. IsFiniteSet(1..Files) /\ IsFiniteSet(1..Ranks)
  BY <1>1, FS_Interval
<1> QED BY <1>2, FS_Product DEF Squares

LEMMA PositionsAre ==
  ASSUME NEW p \in Positions
  PROVE  DOMAIN p \subseteq Squares /\ \A s \in DOMAIN p : p[s] \in Pieces
BY DEF Positions

LEMMA WithIs ==
  ASSUME NEW p \in Positions, NEW s \in Squares, NEW piece \in Pieces
  PROVE  With(p, s, piece) \in Positions
<1>1. DOMAIN p \union {s} \in SUBSET Squares
  BY PositionsAre
<1>2. With(p, s, piece) \in [DOMAIN p \union {s} -> Pieces]
  BY PositionsAre DEF With
<1> QED BY <1>1, <1>2 DEF Positions

LEMMA WithoutIs ==
  ASSUME NEW p \in Positions, NEW S
  PROVE  Without(p, S) \in Positions
<1>1. DOMAIN p \ S \in SUBSET Squares
  BY PositionsAre
<1>2. Without(p, S) \in [DOMAIN p \ S -> Pieces]
  BY PositionsAre DEF Without
<1> QED BY <1>1, <1>2 DEF Positions

\* q is p with the piece of a, if there is one, moved to b.
Moved(q, p, a, b) ==
  /\ q \in Positions
  /\ DOMAIN q = IF a \in DOMAIN p THEN (DOMAIN p \ {a}) \union {b} ELSE DOMAIN p
  /\ \A t \in DOMAIN q : q[t] = IF a \in DOMAIN p /\ t = b THEN p[a] ELSE p[t]

LEMMA MoveOneIs ==
  ASSUME NEW p \in Positions, NEW a \in Squares, NEW b \in Squares
  PROVE  Moved(MoveOne(p, a, b), p, a, b)
<1>1. CASE a \in DOMAIN p
  <2>1. p[a] \in Pieces /\ Without(p, {a}) \in Positions
    BY <1>1, PositionsAre, WithoutIs
  <2>2. MoveOne(p, a, b) \in Positions
    BY <1>1, <2>1, WithIs DEF MoveOne
  <2>3. /\ DOMAIN Without(p, {a}) = DOMAIN p \ {a}
        /\ \A t \in DOMAIN p \ {a} : Without(p, {a})[t] = p[t]
    BY DEF Without
  <2> DEFINE q == Without(p, {a})
  <2>4. MoveOne(p, a, b) = [t \in DOMAIN q \union {b} |-> IF t = b THEN p[a] ELSE q[t]]
    BY <1>1 DEF MoveOne, With
  <2> HIDE DEF q
  <2>5. DOMAIN MoveOne(p, a, b) = DOMAIN q \union {b}
        /\ \A t \in DOMAIN q \union {b} :
              MoveOne(p, a, b)[t] = IF t = b THEN p[a] ELSE q[t]
    BY <2>4
  <2>6. DOMAIN q = DOMAIN p \ {a} /\ \A t \in DOMAIN q : q[t] = p[t]
    BY <2>3 DEF q
  <2> QED BY <1>1, <2>2, <2>5, <2>6 DEF Moved
<1>2. CASE a \notin DOMAIN p
  BY <1>2 DEF MoveOne, Moved
<1> QED BY <1>1, <1>2

LEMMA MovesCommute ==
  ASSUME NEW p \in Positions, NEW a \in Squares, NEW b \in Squares,
         NEW c \in Squares, NEW d \in Squares, {a, b} \intersect {c, d} = {}
  PROVE  MoveOne(MoveOne(p, a, b), c, d) = MoveOne(MoveOne(p, c, d), a, b)
<1> DEFINE q1 == MoveOne(p, a, b)
           q2 == MoveOne(p, c, d)
           r1 == MoveOne(q1, c, d)
           r2 == MoveOne(q2, a, b)
<1>0. a # c /\ a # d /\ b # c /\ b # d
  OBVIOUS
<1>1. Moved(q1, p, a, b)
  BY MoveOneIs
<1>2. Moved(q2, p, c, d)
  BY MoveOneIs
<1> HIDE DEF q1, q2
<1>3. Moved(r1, q1, c, d)
  <2> q1 \in Positions
    BY <1>1 DEF Moved
  <2> QED BY MoveOneIs
<1>4. Moved(r2, q2, a, b)
  <2> q2 \in Positions
    BY <1>2 DEF Moved
  <2> QED BY MoveOneIs
<1> HIDE DEF r1, r2
<1>5. (c \in DOMAIN q1 <=> c \in DOMAIN p) /\ (a \in DOMAIN q2 <=> a \in DOMAIN p)
  BY <1>0, <1>1, <1>2 DEF Moved
<1>6. /\ c \in DOMAIN p => q1[c] = p[c]
      /\ a \in DOMAIN p => q2[a] = p[a]
  BY <1>0, <1>1, <1>2, <1>5 DEF Moved
<1>7. DOMAIN r1 = DOMAIN r2
  BY <1>0, <1>1, <1>2, <1>3, <1>4, <1>5 DEF Moved
<1>8. ASSUME NEW t \in DOMAIN r1 PROVE r1[t] = r2[t]
  <2>1. CASE c \in DOMAIN p /\ t = d
    BY <1>0, <1>2, <1>3, <1>4, <1>5, <1>6, <1>7, <2>1 DEF Moved
  <2>2. CASE a \in DOMAIN p /\ t = b
    BY <1>0, <1>1, <1>3, <1>4, <1>5, <1>6, <1>7, <2>2 DEF Moved
  <2>3. CASE ~(c \in DOMAIN p /\ t = d) /\ ~(a \in DOMAIN p /\ t = b)
    BY <1>0, <1>1, <1>2, <1>3, <1>4, <1>5, <1>7, <2>3 DEF Moved
  <2> QED BY <2>1, <2>2, <2>3
<1>9. r1 = [t \in DOMAIN r1 |-> r1[t]] /\ r2 = [t \in DOMAIN r2 |-> r2[t]]
  BY <1>3, <1>4 DEF Positions, Moved
<1>10. r1 = r2
  BY <1>7, <1>8, <1>9
<1> QED BY <1>10 DEF r1, r2, q1, q2

\* The recursive function: after each move, the position that it makes of the
\* one before.
IsWay(f, pos, moves, n) ==
  f = [i \in 0..n |->
         IF i = 0 THEN pos ELSE MoveOne(f[i - 1], moves[i][1], moves[i][2])]

LEMMA WayGrows ==
  ASSUME NEW pos, NEW moves, NEW n \in Nat, n # 0, NEW v, IsWay(v, pos, moves, n - 1)
  PROVE  \E w : IsWay(w, pos, moves, n)
<1> DEFINE w == [i \in 0..n |-> IF i = n THEN MoveOne(v[n - 1], moves[n][1], moves[n][2])
                                ELSE v[i]]
<1>1. \A j \in 0..(n - 1) : w[j] = v[j]
  OBVIOUS
<1>2. ASSUME NEW i \in 0..n
      PROVE  w[i] = IF i = 0 THEN pos ELSE MoveOne(w[i - 1], moves[i][1], moves[i][2])
  <2>1. CASE i = n
    BY <1>1, <2>1
  <2>2. CASE i # n
    <3>1. i \in 0..(n - 1) /\ (i # 0 => i - 1 \in 0..(n - 1))
      BY <2>2
    <3>2. v[i] = IF i = 0 THEN pos ELSE MoveOne(v[i - 1], moves[i][1], moves[i][2])
      BY <3>1 DEF IsWay
    <3> HIDE DEF w
    <3> QED BY <3>1, <3>2, <1>1
  <2> QED BY <2>1, <2>2
<1>3. w = [i \in 0..n |-> w[i]]
  OBVIOUS
<1> HIDE DEF w
<1> QED BY <1>2, <1>3 DEF IsWay

LEMMA WayExists ==
  ASSUME NEW pos, NEW moves, NEW N \in Nat
  PROVE  \E w : IsWay(w, pos, moves, N)
<1> DEFINE NoWay == {n \in Nat : ~ \E w : IsWay(w, pos, moves, n)}
<1> SUFFICES ASSUME NoWay # {} PROVE FALSE
  OBVIOUS
<1>1. PICK n \in NoWay : \A k \in NoWay : n <= k
  <2>1. NoWay \subseteq Nat
    OBVIOUS
  <2> HIDE DEF NoWay
  <2> QED BY <2>1, LeastNumber
<1>2. n \in Nat /\ ~ \E w : IsWay(w, pos, moves, n)
  BY <1>1
<1>3. CASE n = 0
  <2>1. IsWay([i \in 0..0 |-> pos], pos, moves, 0)
    BY DEF IsWay
  <2> QED BY <2>1, <1>2, <1>3
<1>4. CASE n # 0
  <2>1. n - 1 \in Nat /\ n - 1 \notin NoWay
    BY <1>1, <1>2, <1>4
  <2> QED BY <2>1, <1>2, <1>4, WayGrows
<1> QED BY <1>3, <1>4

\* It ends where the way does.
LEMMA MovesMakeWay ==
  ASSUME NEW pos, NEW moves, Len(moves) \in Nat
  PROVE  \E w : /\ CalculatePositionFromMoves(pos, moves) = w[Len(moves)]
                /\ w[0] = pos
                /\ \A i \in 1..Len(moves) :
                     w[i] = MoveOne(w[i - 1], moves[i][1], moves[i][2])
<1> DEFINE w == CHOOSE f : IsWay(f, pos, moves, Len(moves))
<1>1. CalculatePositionFromMoves(pos, moves) = w[Len(moves)]
  BY DEF CalculatePositionFromMoves, IsWay
<1>2. IsWay(w, pos, moves, Len(moves))
  BY WayExists
<1> HIDE DEF w
<1>3. \A i \in 0..Len(moves) :
         w[i] = IF i = 0 THEN pos ELSE MoveOne(w[i - 1], moves[i][1], moves[i][2])
  BY <1>2 DEF IsWay
<1>4. w[0] = pos
  BY <1>3
<1>5. \A i \in 1..Len(moves) : w[i] = MoveOne(w[i - 1], moves[i][1], moves[i][2])
  BY <1>3
<1> QED BY <1>1, <1>4, <1>5

LEMMA TwoMoves ==
  ASSUME NEW p, NEW m1, NEW m2
  PROVE  CalculatePositionFromMoves(p, <<m1, m2>>)
            = MoveOne(MoveOne(p, m1[1], m1[2]), m2[1], m2[2])
<1> DEFINE moves == <<m1, m2>>
<1>1. Len(moves) = 2 /\ moves[1] = m1 /\ moves[2] = m2
  OBVIOUS
<1> HIDE DEF moves
<1>2. PICK w : /\ CalculatePositionFromMoves(p, moves) = w[2]
               /\ w[0] = p
               /\ \A i \in 1..2 : w[i] = MoveOne(w[i - 1], moves[i][1], moves[i][2])
  BY <1>1, MovesMakeWay
<1>3. w[1] = MoveOne(p, m1[1], m1[2])
  BY <1>1, <1>2
<1>4. w[2] = MoveOne(w[1], m2[1], m2[2])
  BY <1>1, <1>2
<1> QED BY <1>2, <1>3, <1>4 DEF moves

\* Any list of moves leads from a position to a position.
LEMMA MovesKeepPositions ==
  ASSUME NEW pos \in Positions, NEW moves \in Seq(Squares \X Squares)
  PROVE  CalculatePositionFromMoves(pos, moves) \in Positions
<1>1. PICK w : /\ CalculatePositionFromMoves(pos, moves) = w[Len(moves)]
               /\ w[0] = pos
               /\ \A i \in 1..Len(moves) :
                    w[i] = MoveOne(w[i - 1], moves[i][1], moves[i][2])
  BY MovesMakeWay
<1> DEFINE N == Len(moves)
           T == {i \in 0..N : w[i] \in Positions}
<1>2. N \in Nat /\ \A i \in 1..N : moves[i][1] \in Squares /\ moves[i][2] \in Squares
  <2>1. \A i \in 1..N : moves[i] \in Squares \X Squares
    OBVIOUS
  <2> QED BY <2>1
<1> HIDE DEF N
<1>3. 0 \in T
  BY <1>1, <1>2
<1>4. ASSUME NEW i \in 1..N, i - 1 \in T PROVE i \in T
  <2>1. w[i] = MoveOne(w[i - 1], moves[i][1], moves[i][2])
    BY <1>1 DEF N
  <2>2. w[i - 1] \in Positions
    BY <1>4
  <2>3. Moved(w[i], w[i - 1], moves[i][1], moves[i][2])
    BY <1>2, <2>1, <2>2, MoveOneIs
  <2>4. w[i] \in Positions
    BY <2>3 DEF Moved
  <2> QED BY <2>4
<1>5. T \subseteq 0..N
  OBVIOUS
<1> HIDE DEF T
<1>6. T = 0..N
  BY <1>2, <1>3, <1>4, <1>5, UpTo
<1>7. N \in T
  BY <1>2, <1>6
<1> QED BY <1>1, <1>7 DEF T, N

-----------------------------------------------------------------------------
(* findClosestPiece: among the pieces of a kind there is a nearest one, so *)
(* what it returns is one of them.                                         *)

LEMMA DistancesAreNumbers ==
  ASSUME NEW s \in Squares, NEW t \in Squares
  PROVE  SquareDistance(s, t) \in Nat
<1>1. s[1] \in Int /\ s[2] \in Int /\ t[1] \in Int /\ t[2] \in Int
  BY BoardAssumption DEF Squares
<1> QED BY <1>1 DEF SquareDistance, Abs

LEMMA NearestExists ==
  ASSUME NEW s \in Squares, NEW C, C \subseteq Squares, C # {}
  PROVE  \E t \in C : \A u \in C : Nearer(s, t, u)
<1>1. \A t \in C : t[1] \in Nat /\ t[2] \in Nat /\ SquareDistance(s, t) \in Nat
  BY DistancesAreNumbers, BoardAssumption DEF Squares
<1>2. PICK d \in {SquareDistance(s, t) : t \in C} :
         \A e \in {SquareDistance(s, t) : t \in C} : d <= e
  BY <1>1, LeastNumber
<1> DEFINE C1 == {t \in C : SquareDistance(s, t) = d}
<1>3. PICK c \in {t[1] : t \in C1} : \A e \in {t[1] : t \in C1} : c <= e
  BY <1>1, <1>2, LeastNumber
<1> DEFINE C2 == {t \in C1 : t[1] = c}
<1>4. PICK r \in {t[2] : t \in C2} : \A e \in {t[2] : t \in C2} : r <= e
  <2>1. C2 # {} /\ C2 \subseteq C
    BY <1>3
  <2> HIDE DEF C2
  <2>2. {t[2] : t \in C2} \subseteq Nat /\ {t[2] : t \in C2} # {}
    BY <1>1, <2>1
  <2> QED BY <2>2, LeastNumber
<1>5. PICK t \in C2 : t[2] = r
  BY <1>4
<1>6. ASSUME NEW u \in C PROVE Nearer(s, t, u)
  <2>1. SquareDistance(s, t) = d /\ d <= SquareDistance(s, u) /\ t[1] = c
    BY <1>2, <1>5
  <2>2. CASE d < SquareDistance(s, u)
    BY <2>1, <2>2 DEF Nearer
  <2>3. CASE SquareDistance(s, u) = d
    <3>1. c <= u[1]
      BY <1>3, <2>3
    <3>2. u[1] = c => r <= u[2]
      BY <1>4, <2>3
    <3> QED BY <1>1, <1>5, <2>1, <2>3, <3>1, <3>2 DEF Nearer
  <2> QED BY <1>1, <2>1, <2>2, <2>3
<1> QED BY <1>5, <1>6

LEMMA ClosestIsThere ==
  ASSUME NEW pos, DOMAIN pos \subseteq Squares, NEW piece, NEW s \in Squares,
         Carriers(pos, piece, s) # {}
  PROVE  FindClosestPiece(pos, piece, s) \in Carriers(pos, piece, s)
<1> DEFINE C == Carriers(pos, piece, s)
<1>1. \E t \in C : \A u \in C : Nearer(s, t, u)
  BY NearestExists DEF Carriers
<1> HIDE DEF C
<1>2. (CHOOSE t \in C : \A u \in C : Nearer(s, t, u)) \in C
  BY <1>1
<1> QED BY <1>2 DEF FindClosestPiece, C

-----------------------------------------------------------------------------
(* The matching loop of calculateAnimations.  Whatever the order of the    *)
(* keys: the squares of p2 that have been looked at have found a piece of  *)
(* p1, each another, or none, and then none that is left is of their kind. *)

\* Two positions without the squares they agree on.
Differ(p1, p2) ==
  /\ p1 \in Positions /\ p2 \in Positions
  /\ \A s \in DOMAIN p1 \intersect DOMAIN p2 : p1[s] # p2[s]

IsMatching(m) == m = [todo |-> m.todo, left |-> m.left, moves |-> m.moves, adds |-> m.adds]

MovesMatch(m, p1, p2) ==
  /\ \A v \in m.moves :
       /\ v = <<v[1], v[2]>> /\ p1[v[1]] = p2[v[2]]
       /\ v[1] \in DOMAIN p1 \ DOMAIN m.left
       /\ v[2] \in (DOMAIN p2 \ m.todo) \ m.adds
  /\ \A v, w \in m.moves : v[1] = w[1] \/ v[2] = w[2] => v = w

MatchInv(m, p1, p2) ==
  /\ IsMatching(m)
  /\ m.todo \subseteq DOMAIN p2 /\ m.adds \subseteq DOMAIN p2 \ m.todo
  /\ DOMAIN m.left \subseteq DOMAIN p1
  /\ \A s \in DOMAIN m.left : m.left[s] = p1[s]
  /\ MovesMatch(m, p1, p2)
  /\ \A s \in DOMAIN p1 \ DOMAIN m.left : \E v \in m.moves : v[1] = s
  /\ \A s \in DOMAIN p2 \ m.todo : s \in m.adds \/ \E v \in m.moves : v[2] = s
  /\ \A s \in m.adds, t \in DOMAIN m.left : p1[t] # p2[s]

\* A matching is a record of four fields, and nothing else changes of it.
LEMMA AddingIs ==
  ASSUME NEW m, IsMatching(m), NEW todo, NEW adds
  PROVE  [m EXCEPT !.todo = todo, !.adds = adds]
            = [todo |-> todo, left |-> m.left, moves |-> m.moves, adds |-> adds]
<1> USE DEF IsMatching
<1> DEFINE n == [m EXCEPT !.todo = todo]
<1>1. [m EXCEPT !.todo = todo, !.adds = adds] = [n EXCEPT !.adds = adds]
  OBVIOUS
<1>2. n = [todo |-> todo, left |-> m.left, moves |-> m.moves, adds |-> m.adds]
  OBVIOUS
<1> HIDE DEF n
<1>3. [n EXCEPT !.adds = adds] = [todo |-> todo, left |-> m.left, moves |-> m.moves, adds |-> adds]
  BY <1>2
<1> QED BY <1>1, <1>3, Zenon

LEMMA MovingIs ==
  ASSUME NEW m, IsMatching(m), NEW todo, NEW left, NEW moves
  PROVE  [m EXCEPT !.todo = todo, !.left = left, !.moves = moves]
            = [todo |-> todo, left |-> left, moves |-> moves, adds |-> m.adds]
<1> USE DEF IsMatching
<1> DEFINE n == [m EXCEPT !.todo = todo]
           k == [n EXCEPT !.left = left]
<1>1. [m EXCEPT !.todo = todo, !.left = left, !.moves = moves] = [k EXCEPT !.moves = moves]
  OBVIOUS
<1>2. n = [todo |-> todo, left |-> m.left, moves |-> m.moves, adds |-> m.adds]
  OBVIOUS
<1> HIDE DEF n
<1>3. k = [todo |-> todo, left |-> left, moves |-> m.moves, adds |-> m.adds]
  BY <1>2
<1> HIDE DEF k
<1>4. [k EXCEPT !.moves = moves] = [todo |-> todo, left |-> left, moves |-> moves, adds |-> m.adds]
  BY <1>3
<1> QED BY <1>1, <1>4, Zenon

\* A square finds no piece.
LEMMA AddKeeps ==
  ASSUME NEW p1, NEW p2, Differ(p1, p2), NEW m, MatchInv(m, p1, p2), NEW s \in m.todo,
         Carriers(m.left, p2[s], s) = {}
  PROVE  MatchInv([m EXCEPT !.todo = @ \ {s}, !.adds = @ \union {s}], p1, p2)
<1> DEFINE n == [todo |-> m.todo \ {s}, left |-> m.left, moves |-> m.moves,
                 adds |-> m.adds \union {s}]
<1>1. [m EXCEPT !.todo = @ \ {s}, !.adds = @ \union {s}] = n
  <2>1. IsMatching(m)
    BY DEF MatchInv
  <2> QED BY <2>1, AddingIs, Zenon
<1>2. /\ n.todo = m.todo \ {s} /\ n.left = m.left /\ n.moves = m.moves
      /\ n.adds = m.adds \union {s} /\ IsMatching(n)
  BY DEF IsMatching
<1> HIDE DEF n
<1>3. ASSUME NEW t \in DOMAIN m.left PROVE p1[t] # p2[s]
  <2>1. t \in DOMAIN p1 /\ m.left[t] = p1[t] /\ s \in DOMAIN p2
    BY DEF MatchInv
  <2>2. CASE t = s
    BY <2>1, <2>2 DEF Differ
  <2>3. CASE t # s
    BY <2>1, <2>3 DEF Carriers
  <2> QED BY <2>2, <2>3
<1>4. MovesMatch(n, p1, p2)
  <2>1. \A v \in m.moves : v[2] # s
    BY DEF MatchInv, MovesMatch
  <2> QED BY <1>2, <2>1 DEF MatchInv, MovesMatch
<1>5. \A t \in DOMAIN p2 \ n.todo : t \in n.adds \/ \E v \in n.moves : v[2] = t
  BY <1>2 DEF MatchInv
<1>6. n.todo \subseteq DOMAIN p2 /\ n.adds \subseteq DOMAIN p2 \ n.todo
  BY <1>2 DEF MatchInv
<1>7. \A t \in n.adds, u \in DOMAIN n.left : p1[u] # p2[t]
  BY <1>2, <1>3 DEF MatchInv
<1>8. MatchInv(n, p1, p2)
  BY <1>2, <1>4, <1>5, <1>6, <1>7 DEF MatchInv
<1> QED BY <1>1, <1>8

\* A square finds a piece, which is taken from those left.
LEMMA MoveKeeps ==
  ASSUME NEW p1, NEW p2, Differ(p1, p2), NEW m, MatchInv(m, p1, p2), NEW s \in m.todo,
         NEW from \in Carriers(m.left, p2[s], s)
  PROVE  MatchInv([m EXCEPT !.todo = @ \ {s}, !.left = Without(@, {from}),
                            !.moves = @ \union {<<from, s>>}], p1, p2)
<1> DEFINE n == [todo |-> m.todo \ {s}, left |-> Without(m.left, {from}),
                 moves |-> m.moves \union {<<from, s>>}, adds |-> m.adds]
<1>1. [m EXCEPT !.todo = @ \ {s}, !.left = Without(@, {from}),
                !.moves = @ \union {<<from, s>>}] = n
  <2>1. IsMatching(m)
    BY DEF MatchInv
  <2> QED BY <2>1, MovingIs, Zenon
<1>2. /\ n.todo = m.todo \ {s} /\ DOMAIN n.left = DOMAIN m.left \ {from}
      /\ \A t \in DOMAIN n.left : n.left[t] = m.left[t]
      /\ n.moves = m.moves \union {<<from, s>>}
      /\ n.adds = m.adds /\ IsMatching(n)
  BY DEF IsMatching, Without
<1> HIDE DEF n
<1>3. /\ from \in DOMAIN m.left /\ from \in DOMAIN p1 /\ p1[from] = p2[s]
      /\ s \in DOMAIN p2 /\ s \notin m.adds
  BY DEF MatchInv, Carriers
<1>4. MovesMatch(n, p1, p2)
  <2>1. \A v \in m.moves :
          /\ v = <<v[1], v[2]>> /\ p1[v[1]] = p2[v[2]]
          /\ v[1] \in DOMAIN p1 \ DOMAIN m.left /\ v[1] # from
          /\ v[2] \in (DOMAIN p2 \ m.todo) \ m.adds /\ v[2] # s
    BY <1>3 DEF MatchInv, MovesMatch
  <2>2. \A v \in n.moves :
          /\ v = <<v[1], v[2]>> /\ p1[v[1]] = p2[v[2]]
          /\ v[1] \in DOMAIN p1 \ DOMAIN n.left
          /\ v[2] \in (DOMAIN p2 \ n.todo) \ n.adds
    BY <1>2, <1>3, <2>1
  <2>3. ASSUME NEW v \in n.moves, NEW w \in n.moves, v[1] = w[1] \/ v[2] = w[2]
        PROVE  v = w
    <3>1. CASE v \in m.moves /\ w \in m.moves
      BY <2>3, <3>1 DEF MatchInv, MovesMatch
    <3>2. CASE ~(v \in m.moves /\ w \in m.moves)
      BY <1>2, <2>1, <2>3, <3>2
    <3> QED BY <3>1, <3>2
  <2> QED BY <2>2, <2>3 DEF MovesMatch
<1>5. \A t \in DOMAIN p1 \ DOMAIN n.left : \E v \in n.moves : v[1] = t
  <2>1. <<from, s>> \in n.moves /\ <<from, s>>[1] = from
    BY <1>2
  <2> QED BY <1>2, <2>1 DEF MatchInv
<1>6. \A t \in DOMAIN p2 \ n.todo : t \in n.adds \/ \E v \in n.moves : v[2] = t
  <2>1. <<from, s>> \in n.moves /\ <<from, s>>[2] = s
    BY <1>2
  <2> QED BY <1>2, <2>1 DEF MatchInv
<1>7. n.todo \subseteq DOMAIN p2 /\ n.adds \subseteq DOMAIN p2 \ n.todo
      /\ DOMAIN n.left \subseteq DOMAIN p1
  BY <1>2, <1>3 DEF MatchInv
<1>8. /\ \A t \in DOMAIN n.left : n.left[t] = p1[t]
      /\ \A t \in n.adds, u \in DOMAIN n.left : p1[u] # p2[t]
  BY <1>2 DEF MatchInv
<1>9. MatchInv(n, p1, p2)
  BY <1>2, <1>4, <1>5, <1>6, <1>7, <1>8 DEF MatchInv
<1> QED BY <1>1, <1>9

LEMMA StepKeeps ==
  ASSUME NEW p1, NEW p2, Differ(p1, p2), NEW m, MatchInv(m, p1, p2),
         NEW n \in MatchStep(m, p2)
  PROVE  MatchInv(n, p1, p2) /\ \E s \in m.todo : n.todo = m.todo \ {s}
<1> DEFINE From(s) == FindClosestPiece(m.left, p2[s], s)
           Add(s) == [m EXCEPT !.todo = @ \ {s}, !.adds = @ \union {s}]
           Move(s) == [m EXCEPT !.todo = @ \ {s}, !.left = Without(@, {From(s)}),
                                !.moves = @ \union {<<From(s), s>>}]
<1>1. PICK s \in m.todo : n = IF Carriers(m.left, p2[s], s) = {} THEN Add(s) ELSE Move(s)
  BY DEF MatchStep
<1>2. Add(s).todo = m.todo \ {s} /\ Move(s).todo = m.todo \ {s}
  BY DEF MatchInv, IsMatching
<1>3. CASE Carriers(m.left, p2[s], s) = {}
  <2>1. MatchInv(Add(s), p1, p2)
    BY <1>3, AddKeeps
  <2> QED BY <1>1, <1>2, <1>3, <2>1
<1>4. CASE Carriers(m.left, p2[s], s) # {}
  <2>1. s \in Squares /\ DOMAIN m.left \subseteq Squares
    BY PositionsAre DEF MatchInv, Differ
  <2>2. From(s) \in Carriers(m.left, p2[s], s)
    BY <1>4, <2>1, ClosestIsThere
  <2>3. MatchInv(Move(s), p1, p2)
    BY <2>2, MoveKeeps
  <2> QED BY <1>1, <1>2, <1>4, <2>3
<1> QED BY <1>3, <1>4

-----------------------------------------------------------------------------
(* All the rounds of the loop. *)

Beginning(p1, p2) == [todo |-> DOMAIN p2, left |-> p1, moves |-> {}, adds |-> {}]

Stepped(S, p2) == UNION {MatchStep(m, p2) : m \in S}

IsLoop(f, p1, p2, n) ==
  f = [i \in 0..n |-> IF i = 0 THEN {Beginning(p1, p2)} ELSE Stepped(f[i - 1], p2)]

LEMMA LoopGrows ==
  ASSUME NEW p1, NEW p2, NEW n \in Nat, n # 0, NEW v, IsLoop(v, p1, p2, n - 1)
  PROVE  \E w : IsLoop(w, p1, p2, n)
<1> DEFINE w == [i \in 0..n |-> IF i = n THEN Stepped(v[n - 1], p2) ELSE v[i]]
<1>1. \A j \in 0..(n - 1) : w[j] = v[j]
  OBVIOUS
<1>2. ASSUME NEW i \in 0..n
      PROVE  w[i] = IF i = 0 THEN {Beginning(p1, p2)} ELSE Stepped(w[i - 1], p2)
  <2>1. CASE i = n
    BY <1>1, <2>1
  <2>2. CASE i # n
    <3>1. i \in 0..(n - 1) /\ (i # 0 => i - 1 \in 0..(n - 1))
      BY <2>2
    <3>2. v[i] = IF i = 0 THEN {Beginning(p1, p2)} ELSE Stepped(v[i - 1], p2)
      BY <3>1 DEF IsLoop
    <3> HIDE DEF w
    <3> QED BY <3>1, <3>2, <1>1
  <2> QED BY <2>1, <2>2
<1>3. w = [i \in 0..n |-> w[i]]
  OBVIOUS
<1> HIDE DEF w
<1> QED BY <1>2, <1>3 DEF IsLoop

LEMMA LoopExists ==
  ASSUME NEW p1, NEW p2, NEW N \in Nat
  PROVE  \E w : IsLoop(w, p1, p2, N)
<1> DEFINE NoLoop == {n \in Nat : ~ \E w : IsLoop(w, p1, p2, n)}
<1> SUFFICES ASSUME NoLoop # {} PROVE FALSE
  OBVIOUS
<1>1. PICK n \in NoLoop : \A k \in NoLoop : n <= k
  <2>1. NoLoop \subseteq Nat
    OBVIOUS
  <2> HIDE DEF NoLoop
  <2> QED BY <2>1, LeastNumber
<1>2. n \in Nat /\ ~ \E w : IsLoop(w, p1, p2, n)
  BY <1>1
<1>3. CASE n = 0
  <2>1. IsLoop([i \in 0..0 |-> {Beginning(p1, p2)}], p1, p2, 0)
    BY DEF IsLoop
  <2> QED BY <2>1, <1>2, <1>3
<1>4. CASE n # 0
  <2>1. n - 1 \in Nat /\ n - 1 \notin NoLoop
    BY <1>1, <1>2, <1>4
  <2> QED BY <2>1, <1>2, <1>4, LoopGrows
<1> QED BY <1>3, <1>4

\* When the loop ends every square of p2 has been looked at.
LEMMA AllAreMatched ==
  ASSUME NEW p1, NEW p2, Differ(p1, p2), NEW m \in Matchings(p1, p2)
  PROVE  MatchInv(m, p1, p2) /\ m.todo = {}
<1> DEFINE N == Cardinality(DOMAIN p2)
           after == CHOOSE w : IsLoop(w, p1, p2, N)
<1>1. IsFiniteSet(DOMAIN p2) /\ N \in Nat
  <2>1. DOMAIN p2 \subseteq Squares
    BY PositionsAre DEF Differ
  <2> QED BY <2>1, SquaresAreFinite, FS_Subset, FS_CardinalityType
<1>2. m \in after[N]
  BY DEF Matchings, IsLoop, Beginning, Stepped
<1> HIDE DEF N
<1>3. IsLoop(after, p1, p2, N)
  BY <1>1, LoopExists
<1> HIDE DEF after
<1>4. \A i \in 0..N : after[i] = IF i = 0 THEN {Beginning(p1, p2)} ELSE Stepped(after[i - 1], p2)
  BY <1>3 DEF IsLoop
<1> DEFINE Good(k, i) == /\ MatchInv(k, p1, p2)
                         /\ IsFiniteSet(k.todo) /\ Cardinality(k.todo) = N - i
           T == {i \in 0..N : \A k \in after[i] : Good(k, i)}
<1>5. 0 \in T
  <2> SUFFICES Good(Beginning(p1, p2), 0)
    BY <1>1, <1>4
  <2>1. MatchInv(Beginning(p1, p2), p1, p2)
    BY DEF MatchInv, MovesMatch, IsMatching, Beginning
  <2> QED BY <1>1, <2>1 DEF Beginning, N
<1>6. ASSUME NEW i \in 1..N, i - 1 \in T PROVE i \in T
  <2> SUFFICES ASSUME NEW k \in after[i] PROVE Good(k, i)
    BY <1>1
  <2>1. i \in 0..N /\ i # 0 /\ i - 1 \in Int
    BY <1>1
  <2>2. k \in Stepped(after[i - 1], p2)
    BY <1>4, <2>1
  <2>3. PICK j \in after[i - 1] : k \in MatchStep(j, p2)
    BY <2>2 DEF Stepped
  <2>4. Good(j, i - 1)
    BY <1>6, <2>3
  <2>5. MatchInv(k, p1, p2)
    BY <2>3, <2>4, StepKeeps
  <2>6. PICK s \in j.todo : k.todo = j.todo \ {s}
    BY <2>3, <2>4, StepKeeps
  <2>7. IsFiniteSet(k.todo) /\ Cardinality(k.todo) = Cardinality(j.todo) - 1
    BY <2>4, <2>6, FS_RemoveElement
  <2> QED BY <1>1, <2>1, <2>4, <2>5, <2>7
<1>7. T = 0..N
  <2>1. T \subseteq 0..N /\ \A i \in 1..N : i - 1 \in T => i \in T
    BY <1>6
  <2> HIDE DEF T
  <2> QED BY <1>1, <1>5, <2>1, UpTo
<1>8. Good(m, N)
  <2>1. N \in T
    BY <1>1, <1>7
  <2> QED BY <1>2, <2>1
<1>9. Cardinality(m.todo) = 0
  BY <1>1, <1>8
<1> QED BY <1>8, <1>9, FS_EmptySet

LEMMA ChangedIs ==
  ASSUME NEW p \in Positions, NEW q \in Positions
  PROVE  /\ Changed(p, q) \in Positions
         /\ DOMAIN Changed(p, q) = {s \in DOMAIN p : s \in DOMAIN q => p[s] # q[s]}
         /\ \A s \in DOMAIN Changed(p, q) : Changed(p, q)[s] = p[s]
<1> DEFINE D == DOMAIN p \ {s \in DOMAIN p \intersect DOMAIN q : p[s] = q[s]}
<1>1. Changed(p, q) = [s \in D |-> p[s]]
  BY DEF Changed, Without
<1>2. D \subseteq Squares /\ \A s \in D : p[s] \in Pieces
  BY PositionsAre
<1>3. D = {s \in DOMAIN p : s \in DOMAIN q => p[s] # q[s]}
  OBVIOUS
<1> HIDE DEF D
<1>4. Changed(p, q) \in [D -> Pieces]
  BY <1>1, <1>2
<1>5. Changed(p, q) \in Positions
  BY <1>2, <1>4 DEF Positions
<1> QED BY <1>1, <1>3, <1>5

LEMMA ChangedDiffer ==
  ASSUME NEW p \in Positions, NEW q \in Positions
  PROVE  Differ(Changed(p, q), Changed(q, p))
<1> DEFINE p1 == Changed(p, q)
           p2 == Changed(q, p)
<1>1. /\ p1 \in Positions
      /\ DOMAIN p1 = {s \in DOMAIN p : s \in DOMAIN q => p[s] # q[s]}
      /\ \A s \in DOMAIN p1 : p1[s] = p[s]
  BY ChangedIs
<1>2. /\ p2 \in Positions
      /\ DOMAIN p2 = {s \in DOMAIN q : s \in DOMAIN p => q[s] # p[s]}
      /\ \A s \in DOMAIN p2 : p2[s] = q[s]
  BY ChangedIs
<1> HIDE DEF p1, p2
<1>3. Differ(p1, p2)
  BY <1>1, <1>2 DEF Differ
<1> QED BY <1>3 DEF p1, p2
-----------------------------------------------------------------------------
(* Pieces are counted. *)

LEMMA CountsAreNumbers ==
  ASSUME NEW p \in Positions, NEW piece
  PROVE  PieceCount(p, piece) \in Nat
<1>1. {s \in DOMAIN p : p[s] = piece} \subseteq Squares
  BY PositionsAre
<1> QED BY <1>1, SquaresAreFinite, FS_Subset, FS_CardinalityType DEF PieceCount

LEMMA NoMoveMakesPieces ==
  ASSUME NEW p \in Positions, NEW a \in Squares, NEW b \in Squares, NEW piece
  PROVE  PieceCount(MoveOne(p, a, b), piece) <= PieceCount(p, piece)
<1> DEFINE q == MoveOne(p, a, b)
           A == {s \in DOMAIN p : p[s] = piece}
           B == {s \in DOMAIN q : q[s] = piece}
<1>1. Moved(q, p, a, b)
  BY MoveOneIs
<1> HIDE DEF q
<1>2. PieceCount(p, piece) = Cardinality(A) /\ PieceCount(q, piece) = Cardinality(B)
  BY DEF PieceCount
<1>3. IsFiniteSet(A) /\ Cardinality(A) \in Nat
  <2>1. A \subseteq Squares
    BY PositionsAre
  <2> QED BY <2>1, SquaresAreFinite, FS_Subset, FS_CardinalityType
<1>4. Cardinality(B) <= Cardinality(A)
  <2>1. CASE a \in DOMAIN p /\ p[a] = piece
    <3>1. a \in A /\ B \subseteq (A \ {a}) \union {b}
      BY <1>1, <2>1 DEF Moved
    <3> HIDE DEF A, B
    <3>2. IsFiniteSet(A \ {a}) /\ Cardinality(A \ {a}) = Cardinality(A) - 1
      BY <1>3, <3>1, FS_RemoveElement
    <3>3. IsFiniteSet((A \ {a}) \union {b})
          /\ Cardinality((A \ {a}) \union {b}) <= Cardinality(A)
      <4>1. IsFiniteSet((A \ {a}) \union {b})
            /\ \/ Cardinality((A \ {a}) \union {b}) = Cardinality(A \ {a}) + 1
               \/ Cardinality((A \ {a}) \union {b}) = Cardinality(A \ {a})
        BY <3>2, FS_AddElement
      <4> QED BY <1>3, <3>2, <4>1
    <3>4. Cardinality(B) <= Cardinality((A \ {a}) \union {b})
      BY <3>1, <3>3, FS_Subset
    <3>5. /\ IsFiniteSet(B) /\ Cardinality(B) \in Nat
          /\ Cardinality((A \ {a}) \union {b}) \in Nat
      BY <3>1, <3>3, FS_Subset, FS_CardinalityType
    <3> QED BY <1>3, <3>3, <3>4, <3>5
  <2>2. CASE ~(a \in DOMAIN p /\ p[a] = piece)
    <3>1. B \subseteq A
      BY <1>1, <2>2 DEF Moved
    <3> HIDE DEF A, B
    <3> QED BY <1>3, <3>1, FS_Subset
  <2> QED BY <2>1, <2>2
<1> QED BY <1>2, <1>4 DEF q

\* A square that is emptied makes no piece more, one that is set at most the
\* piece set on it.
LEMMA WithoutMakesNoPiece ==
  ASSUME NEW p \in Positions, NEW S, NEW piece
  PROVE  PieceCount(Without(p, S), piece) <= PieceCount(p, piece)
<1> DEFINE A == {s \in DOMAIN p : p[s] = piece}
           B == {s \in DOMAIN Without(p, S) : Without(p, S)[s] = piece}
<1>1. IsFiniteSet(A)
  <2>1. A \subseteq Squares
    BY PositionsAre
  <2> QED BY <2>1, SquaresAreFinite, FS_Subset
<1>2. B \subseteq A
  BY DEF Without
<1>3. Cardinality(B) <= Cardinality(A)
  <2> HIDE DEF A, B
  <2> QED BY <1>1, <1>2, FS_Subset
<1> QED BY <1>3 DEF PieceCount

LEMMA WithMakesOnePiece ==
  ASSUME NEW p \in Positions, NEW a \in Squares, NEW b \in Pieces, NEW piece
  PROVE  PieceCount(With(p, a, b), piece)
           <= PieceCount(p, piece) + (IF piece = b THEN 1 ELSE 0)
<1> DEFINE A == {s \in DOMAIN p : p[s] = piece}
           B == {s \in DOMAIN With(p, a, b) : With(p, a, b)[s] = piece}
<1>1. IsFiniteSet(A) /\ Cardinality(A) \in Nat
  <2>1. A \subseteq Squares
    BY PositionsAre
  <2> QED BY <2>1, SquaresAreFinite, FS_Subset, FS_CardinalityType
<1>2. B \subseteq A \union (IF piece = b THEN {a} ELSE {})
  BY DEF With
<1>3. Cardinality(B) <= Cardinality(A) + (IF piece = b THEN 1 ELSE 0)
  <2> HIDE DEF A, B
  <2>1. CASE piece = b
    <3>1. /\ IsFiniteSet(A \union {a})
          /\ \/ Cardinality(A \union {a}) = Cardinality(A) + 1
             \/ Cardinality(A \union {a}) = Cardinality(A)
      BY <1>1, FS_AddElement
    <3>2. Cardinality(B) \in Nat /\ Cardinality(B) <= Cardinality(A \union {a})
      BY <1>2, <2>1, <3>1, FS_Subset, FS_CardinalityType
    <3> QED BY <1>1, <2>1, <3>1, <3>2
  <2>2. CASE piece # b
    <3>1. Cardinality(B) <= Cardinality(A)
      BY <1>1, <1>2, <2>2, FS_Subset
    <3> QED BY <1>1, <2>2, <3>1, <1>2, FS_Subset, FS_CardinalityType
  <2> QED BY <2>1, <2>2
<1> QED BY <1>3 DEF PieceCount

=============================================================================
