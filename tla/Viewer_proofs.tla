--------------------------- MODULE Viewer_proofs ----------------------------
(***************************************************************************)
(* Theorems about the viewer, for every set of games, however long, and    *)
(* any number of submits: what the board and the list of moves show, which *)
(* cell is seen selected, that the page implements the player of games, of *)
(* which moves the evaluations are, and that none is missing in the end.   *)
(***************************************************************************)
EXTENDS Viewer, SequenceTheorems, WellFoundedInduction, TLAPS

Moves == {f.move : f \in Fens}

LEMMA MovesOfAnswer ==
  ASSUME NEW id \in DOMAIN Games
  PROVE  MovesOf(AnswerOf(id)) \in Seq(Moves)
<1>1. AnswerOf(id) \in Seq(Fens)
  BY ViewerAssumption
<1> QED BY <1>1 DEF MovesOf, Moves

-----------------------------------------------------------------------------
(* Induction, in the form that first-order provers can use: a set of       *)
(* numbers has a least one.                                                *)

LEMMA LeastNumber ==
  ASSUME NEW T, T \subseteq Nat, T # {}
  PROVE  \E m \in T : \A n \in T : m <= n
<1> DEFINE Less == {ss \in Nat \X Nat : ss[1] < ss[2]}
<1>1. IsWellFoundedOn(Less, Nat)
  BY NatLessThanWellFounded, Zenon DEF OpToRel
<1>2. PICK m \in T : \A n \in T : ~(<<n, m>> \in Less)
  <2> HIDE DEF Less
  <2> QED BY <1>1, WFMin, Zenon
<1>3. ASSUME NEW n \in T PROVE m <= n
  <2>1. m \in Nat /\ n \in Nat /\ <<n, m>> \notin Less
    BY <1>2
  <2> QED BY <2>1
<1> QED BY <1>3

-----------------------------------------------------------------------------
(* The position after a number of moves, a recursive function: one exists  *)
(* for every length, by extending the one before it.                       *)

IsWay(w, g, n) ==
  w = [i \in 0..n |-> IF i = 0 THEN START ELSE Apply(w[i - 1], g[i])]

LEMMA WayGrows ==
  ASSUME NEW g, NEW n \in Nat, n # 0, NEW v, IsWay(v, g, n - 1)
  PROVE  \E w : IsWay(w, g, n)
<1> DEFINE w == [i \in 0..n |-> IF i = n THEN Apply(v[n - 1], g[n]) ELSE v[i]]
<1>1. \A j \in 0..(n - 1) : w[j] = v[j]
  OBVIOUS
<1>2. ASSUME NEW i \in 0..n
      PROVE  w[i] = IF i = 0 THEN START ELSE Apply(w[i - 1], g[i])
  <2>1. CASE i = n
    BY <1>1, <2>1
  <2>2. CASE i # n
    <3>1. i \in 0..(n - 1) /\ (i # 0 => i - 1 \in 0..(n - 1))
      BY <2>2
    <3>2. v[i] = IF i = 0 THEN START ELSE Apply(v[i - 1], g[i])
      BY <3>1 DEF IsWay
    <3> HIDE DEF w
    <3> QED BY <3>1, <3>2, <1>1
  <2> QED BY <2>1, <2>2
<1>3. w = [i \in 0..n |-> w[i]]
  OBVIOUS
<1> HIDE DEF w
<1> QED BY <1>2, <1>3 DEF IsWay

LEMMA WayExists ==
  ASSUME NEW g, NEW N \in Nat
  PROVE  \E w : IsWay(w, g, N)
<1> DEFINE Without == {n \in Nat : ~ \E w : IsWay(w, g, n)}
<1> SUFFICES ASSUME Without # {} PROVE FALSE
  OBVIOUS
<1>1. PICK n \in Without : \A k \in Without : n <= k
  <2>1. Without \subseteq Nat
    OBVIOUS
  <2> HIDE DEF Without
  <2> QED BY <2>1, LeastNumber
<1>2. n \in Nat /\ ~ \E w : IsWay(w, g, n)
  BY <1>1
<1>3. CASE n = 0
  <2>1. IsWay([i \in 0..0 |-> START], g, 0)
    BY DEF IsWay
  <2> QED BY <2>1, <1>2, <1>3
<1>4. CASE n # 0
  <2>1. n - 1 \in Nat /\ n - 1 \notin Without
    BY <1>1, <1>2, <1>4
  <2> QED BY <2>1, <1>2, <1>4, WayGrows
<1> QED BY <1>3, <1>4

After(g, n) == Player!PositionAfter(g, n)

\* What the recursive function computes: each position is the one before it
\* with the next move made.
LEMMA AfterMoves ==
  ASSUME NEW g, Len(g) \in Nat
  PROVE  /\ After(g, 0) = START
         /\ \A n \in 0..(Len(g) - 1) : After(g, n + 1) = Apply(After(g, n), g[n + 1])
<1> DEFINE after == CHOOSE w : IsWay(w, g, Len(g))
<1>1. \A n : After(g, n) = after[n]
  BY DEF After, Player!PositionAfter, IsWay
<1>2. IsWay(after, g, Len(g))
  BY WayExists
<1> HIDE DEF after
<1>3. after = [i \in 0..Len(g) |-> IF i = 0 THEN START ELSE Apply(after[i - 1], g[i])]
  BY <1>2 DEF IsWay
<1>4. after[0] = START
  BY <1>3
<1>5. ASSUME NEW n \in 0..(Len(g) - 1) PROVE after[n + 1] = Apply(after[n], g[n + 1])
  <2>1. n + 1 \in 0..Len(g) /\ n + 1 # 0 /\ (n + 1) - 1 = n
    OBVIOUS
  <2> QED BY <1>3, <2>1
<1> QED BY <1>1, <1>4, <1>5

-----------------------------------------------------------------------------
(* The board.  An answer replaces the moves, so the place in the game and  *)
(* the positions kept of it must be fresh while one is awaited.  Every     *)
(* position kept is that of its place in the game.                         *)

IsASequence(s) == \E S : s \in Seq(S)

BoardInv ==
  /\ index \in Nat /\ index <= Len(positions) /\ Len(positions) <= Len(move_array)
  /\ IsASequence(positions) /\ move_array \in Seq(Moves)
  /\ loads # {} => positions = <<>>
  /\ board = After(move_array, index)
  /\ \A i \in 1..Len(positions) : positions[i] = After(move_array, i - 1)

\* A step that leaves the game and the place in it alone.
LEMMA BoardUntouched ==
  ASSUME BoardInv, UNCHANGED <<move_array, playVars>>, loads' \subseteq loads
  PROVE  BoardInv'
BY DEF BoardInv, playVars

\* A step back to the start, in whatever game.
LEMMA BoardAtStart ==
  ASSUME index' = 0, board' = START, positions' = <<>>,
         move_array' \in Seq(Moves)
  PROVE  BoardInv'
<1>1. After(move_array, 0)' = START
  BY AfterMoves
<1>2. IsASequence(positions)'
  BY DEF IsASequence
<1> QED BY <1>1, <1>2 DEF BoardInv

\* The previous button at the start, and its last step without a list.
LEMMA BoardRewound ==
  ASSUME BoardInv, index' = 0, board' = START,
         UNCHANGED <<positions, move_array, loads>>
  PROVE  BoardInv'
<1>1. After(move_array, 0) = START
  BY AfterMoves DEF BoardInv
<1> QED BY <1>1 DEF BoardInv

\* What is remembered of a way that goes on.
LEMMA RememberedIs ==
  ASSUME IsASequence(positions), index \in Nat, index <= Len(positions)
  PROVE  /\ IsASequence(Remembered)
         /\ \A i \in 1..Len(positions) : Remembered[i] = positions[i]
         /\ IF Len(positions) > index THEN Len(Remembered) = Len(positions)
            ELSE Len(Remembered) = index + 1 /\ Remembered[index + 1] = board
<1>1. PICK S : positions \in Seq(S)
  BY DEF IsASequence
<1> DEFINE T == S \union {board}
<1>2. positions \in Seq(T) /\ Append(positions, board) \in Seq(T)
  BY <1>1
<1>3. IsASequence(Remembered)
  BY <1>2 DEF IsASequence, Remembered
<1> QED BY <1>1, <1>2, <1>3 DEF Remembered

LEMMA BoardAfterNext ==
  ASSUME BoardInv, loads = {}, NextBtn, UNCHANGED loads
  PROVE  BoardInv'
<1>1. /\ index' = index + 1 /\ board' = Apply(board, move_array[index + 1])
      /\ move_array' = move_array /\ index < Len(move_array)
      /\ positions' = Remembered
  BY DEF NextBtn
<1>2. board' = After(move_array, index + 1)
  <2>1. index \in 0..(Len(move_array) - 1)
    BY <1>1 DEF BoardInv
  <2> QED BY <1>1, <2>1, AfterMoves DEF BoardInv
<1> DEFINE pos == positions'
<1>3. ASSUME NEW i \in 1..Len(pos) PROVE pos[i] = After(move_array, i - 1)
  <2>1. CASE i \in 1..Len(positions)
    BY <2>1, <1>1, RememberedIs DEF BoardInv
  <2>2. CASE i \notin 1..Len(positions)
    <3>1. ~(Len(positions) > index) /\ i = index + 1 /\ pos[i] = board
      BY <2>2, <1>1, RememberedIs DEF BoardInv
    <3> QED BY <3>1 DEF BoardInv
  <2> QED BY <2>1, <2>2
<1>4. IsASequence(pos) /\ index + 1 <= Len(pos) /\ Len(pos) <= Len(move_array)
  BY <1>1, RememberedIs DEF BoardInv
<1> QED BY <1>1, <1>2, <1>3, <1>4 DEF BoardInv

LEMMA BoardAfterPrev ==
  ASSUME BoardInv, PrevBtn \/ PrevBtnToStart, UNCHANGED loads
  PROVE  BoardInv'
<1>1. /\ index > 0 /\ index' = index - 1 /\ board' = positions[index]
      /\ UNCHANGED <<positions, move_array>>
  BY DEF PrevBtn, PrevBtnToStart, BoardInv
<1>2. positions[index] = After(move_array, index - 1)
  BY <1>1 DEF BoardInv
<1> QED BY <1>1, <1>2 DEF BoardInv

LEMMA BoardAfterAnswer ==
  ASSUME BoardInv, Answers
  PROVE  BoardInv'
<1>1. ASSUME NEW l \in loads, FenArrives(l) PROVE BoardInv'
  <2>1. positions = <<>> /\ index = 0
    BY DEF BoardInv
  <2>2. board = START
    BY <2>1, AfterMoves DEF BoardInv
  <2>3. move_array' \in Seq(Moves)
    BY <1>1, MovesOfAnswer DEF FenArrives, PopulateMoveArray
  <2> QED BY <1>1, <2>1, <2>2, <2>3, BoardAtStart DEF FenArrives, playVars
<1>2. ASSUME NEW l \in loads, FenFails(l) PROVE BoardInv'
  BY <1>2, BoardUntouched DEF FenFails
<1>3. ASSUME NEW l \in loops, EvalArrives(l) \/ EvalFails(l) PROVE BoardInv'
  BY <1>3, BoardUntouched DEF EvalArrives, EvalFails, pageVars
<1> QED BY <1>1, <1>2, <1>3 DEF Answers

LEMMA BoardAfterStep ==
  ASSUME use.waitsToPlay, BoardInv, [Next]_vars
  PROVE  BoardInv'
<1>1. CASE MayPlay /\ Play /\ UNCHANGED callVars
  <2>1. loads = {} /\ loads' = loads
    BY <1>1 DEF MayPlay, callVars
  <2>2. CASE NextBtn
    BY <2>1, <2>2, BoardAfterNext
  <2>3. CASE PrevBtn \/ PrevBtnToStart
    BY <2>1, <2>3, BoardAfterPrev
  <2>4. CASE PrevBtnAtStart \/ PrevBtnToStartThrows
    BY <2>1, <2>4, BoardRewound DEF PrevBtnAtStart, PrevBtnToStartThrows
  <2>5. CASE NextBtnAtEnd \/ PrevBtnWithoutMoves \/ JumpToMove
    BY <2>1, <2>5, BoardUntouched DEF NextBtnAtEnd, PrevBtnWithoutMoves, JumpToMove
  <2> QED BY <1>1, <2>2, <2>3, <2>4, <2>5 DEF Play
<1>2. CASE Reset
  BY <1>2, BoardAtStart DEF Reset, Restart
<1>3. ASSUME NEW id \in Ids, Submit(id) PROVE BoardInv'
  BY <1>3, BoardAtStart DEF Submit, Restart, BoardInv
<1>4. ASSUME NEW id \in Ids, SubmitRefused(id) PROVE BoardInv'
  BY <1>4, BoardAtStart DEF SubmitRefused, BoardInv
<1>5. CASE Answers
  BY <1>5, BoardAfterAnswer
<1>6. CASE UNCHANGED vars
  BY <1>6, BoardUntouched DEF vars, pageVars, callVars
<1> QED BY <1>1, <1>2, <1>3, <1>4, <1>5, <1>6 DEF Next

\* Who uses the page, and how, does not change.
LEMMA UseStays == ASSUME [Next]_vars PROVE use' = use
  BY DEF Next, vars

WaitingBoard == use.waitsToPlay => BoardInv

LEMMA WaitingBoardAlways == Spec => []WaitingBoard
<1>1. Init => WaitingBoard
  <2>1. After(<<>>, 0) = START
    BY AfterMoves
  <2> QED BY <2>1 DEF Init, InitPage, WaitingBoard, BoardInv, IsASequence
<1>2. WaitingBoard /\ [Next]_vars => WaitingBoard'
  BY UseStays, BoardAfterStep DEF WaitingBoard
<1> QED BY <1>1, <1>2, PTL DEF Spec

\* The board, and every position kept for the previous button, shows the game
\* that is loaded, provided the user waits for a game before stepping through
\* it.
THEOREM BoardAlwaysShowsTheGame == Spec => []BoardShowsTheGame
<1>1. WaitingBoard => BoardShowsTheGame
  <2> SUFFICES ASSUME BoardInv PROVE BoardIsOfTheGame
    BY DEF WaitingBoard, BoardShowsTheGame
  <2> USE DEF BoardInv
  <2>1. positions # <<>> => positions[1] = START
    BY AfterMoves DEF IsASequence
  <2>2. ASSUME NEW i \in 1..(Len(positions) - 1)
        PROVE  positions[i + 1] = Apply(positions[i], move_array[i])
    <3>1. /\ i \in 1..Len(positions) /\ i + 1 \in 1..Len(positions)
          /\ i - 1 \in 0..(Len(move_array) - 1)
      BY DEF IsASequence
    <3> QED BY <3>1, AfterMoves
  <2>3. board = IF index = 0 THEN START ELSE Apply(positions[index], move_array[index])
    <3>1. CASE index = 0
      BY <3>1, AfterMoves
    <3>2. CASE index # 0
      <4>1. index \in 1..Len(positions) /\ index - 1 \in 0..(Len(move_array) - 1)
        BY <3>2 DEF IsASequence
      <4> QED BY <3>2, <4>1, AfterMoves
    <3> QED BY <3>1, <3>2
  <2> QED BY <2>1, <2>2, <2>3 DEF BoardIsOfTheGame, IsASequence
<1> QED BY <1>1, WaitingBoardAlways, PTL

-----------------------------------------------------------------------------
(* The page is a player of games, for a user who waits for games to load:  *)
(* every step is one of the player's, or leaves all that it shows alone.   *)

LEMMA PlayerGoes ==
  ASSUME use.waitsToPlay, use' = use, BoardInv, BoardInv', move_array' = move_array,
         index' \in {0, index - 1, index, index + 1}
  PROVE  [Player!Next]_Player!vars
<1> USE DEF BoardInv
<1>1. board' = Player!PositionAfter(move_array, index') /\ index' \in 0..Len(move_array)
  BY DEF After
<1>2. index' = index => board' = board
  OBVIOUS
<1> QED BY <1>1, <1>2 DEF Player!Next, Player!Forward, Player!Back, Player!Rewind,
                          Player!GoTo, Player!vars

LEMMA PlayerOpens ==
  ASSUME use.waitsToPlay, use' = use, index' = 0, board' = START,
         move_array' \in {MovesOf(AnswerOf(id)) : id \in DOMAIN Games} \union {<<>>}
  PROVE  [Player!Next]_Player!vars
BY DEF Player!Next, Player!Open

LEMMA PlayerStays ==
  ASSUME use' = use, UNCHANGED <<move_array, playVars>>
  PROVE  [Player!Next]_Player!vars
BY DEF Player!vars, playVars

LEMMA PlayIsPlayed ==
  ASSUME use.waitsToPlay, use' = use, BoardInv, BoardInv', Play
  PROVE  [Player!Next]_Player!vars
<1>1. CASE NextBtn \/ NextBtnAtEnd \/ PrevBtnWithoutMoves
  BY <1>1, PlayerGoes, PlayerStays DEF NextBtn, NextBtnAtEnd, PrevBtnWithoutMoves
<1>2. CASE PrevBtn \/ PrevBtnToStart
  BY <1>2, PlayerGoes DEF PrevBtn, PrevBtnToStart
<1>3. CASE PrevBtnToStartThrows \/ PrevBtnAtStart
  BY <1>3, PlayerGoes DEF PrevBtnToStartThrows, PrevBtnAtStart
<1>4. CASE JumpToMove
  BY <1>4, PlayerStays DEF JumpToMove
<1> QED BY <1>1, <1>2, <1>3, <1>4 DEF Play

LEMMA AnswersArePlayed ==
  ASSUME use.waitsToPlay, use' = use, BoardInv, Answers
  PROVE  [Player!Next]_Player!vars
<1>1. ASSUME NEW l \in loads, FenArrives(l) PROVE [Player!Next]_Player!vars
  <2>1. index = 0 /\ board = START
    BY AfterMoves DEF BoardInv
  <2> QED BY <1>1, <2>1, PlayerOpens DEF FenArrives, PopulateMoveArray, playVars
<1>2. ASSUME NEW l \in loads, FenFails(l) PROVE [Player!Next]_Player!vars
  BY <1>2, PlayerStays DEF FenFails
<1>3. ASSUME NEW l \in loops, EvalArrives(l) \/ EvalFails(l)
      PROVE  [Player!Next]_Player!vars
  BY <1>3, PlayerStays DEF EvalArrives, EvalFails, pageVars
<1> QED BY <1>1, <1>2, <1>3 DEF Answers

LEMMA StepIsPlayed ==
  ASSUME use.waitsToPlay, BoardInv, BoardInv', [Next]_vars
  PROVE  [Player!Next]_Player!vars
<1>1. CASE MayPlay /\ Play
  BY <1>1, UseStays, PlayIsPlayed
<1>2. CASE Reset
  BY <1>2, UseStays, PlayerOpens DEF Reset, Restart
<1>3. ASSUME NEW id \in Ids, Submit(id) \/ SubmitRefused(id)
      PROVE  [Player!Next]_Player!vars
  BY <1>3, UseStays, PlayerGoes DEF Submit, Restart, SubmitRefused
<1>4. CASE Answers
  BY <1>4, UseStays, AnswersArePlayed
<1>5. CASE UNCHANGED vars
  BY <1>5, PlayerStays DEF vars, pageVars
<1> QED BY <1>1, <1>2, <1>3, <1>4, <1>5 DEF Next

\* The page with all it keeps and awaits implements the player: whatever is
\* clicked while a game is loading, however answers are interleaved with
\* clicks, what is shown changes as in a player that remembers nothing.
THEOREM ThePagePlaysTheGame == Spec => PlaysTheGame
<1>1. Init => Player!Init
  BY DEF Init, InitPage, Player!Init
<1>2. WaitingBoard /\ WaitingBoard' /\ [Next]_vars => [Player!Next]_Player!vars
  <2> SUFFICES ASSUME WaitingBoard, WaitingBoard', [Next]_vars
               PROVE  [Player!Next]_Player!vars
    OBVIOUS
  <2>1. CASE use.waitsToPlay
    BY <2>1, UseStays, StepIsPlayed DEF WaitingBoard
  <2>2. CASE ~use.waitsToPlay
    BY <2>2, UseStays DEF Player!vars
  <2> QED BY <2>1, <2>2
<1> QED BY <1>1, <1>2, WaitingBoardAlways, PTL DEF Spec, PlaysTheGame, Player!Spec

-----------------------------------------------------------------------------
(* The list of moves.  Rows are appended, so the list must be empty when   *)
(* an answer arrives, and no second answer may be under way.               *)

ListInv ==
  /\ loads # {} => disabled /\ movestable = <<>>
  /\ \A l, m \in loads : l = m
  /\ ListIsOfTheGame

Row == [number : Nat, moves : Seq(Moves)]

LEMMA RowsAreASequence ==
  ASSUME NEW mvs \in Seq(Moves)
  PROVE  Rows(mvs) \in Seq(Row)
<1> DEFINE n == (Len(mvs) + 1) \div 2
           row(r) == [number |-> r,
                      moves |-> SubSeq(mvs, 2 * r - 1, IF 2 * r <= Len(mvs) THEN 2 * r
                                                       ELSE Len(mvs))]
<1>1. n \in Nat
  OBVIOUS
<1>2. ASSUME NEW r \in 1..n PROVE row(r) \in Row
  <2>1. /\ 2 * r - 1 \in 1..Len(mvs)
        /\ 2 * r <= Len(mvs) => 2 * r \in 1..Len(mvs)
        /\ Len(mvs) \in 1..Len(mvs)
    OBVIOUS
  <2>2. /\ 2 * r <= Len(mvs) => SubSeq(mvs, 2 * r - 1, 2 * r) \in Seq(Moves)
        /\ SubSeq(mvs, 2 * r - 1, Len(mvs)) \in Seq(Moves)
    BY <2>1
  <2> QED BY <2>2 DEF Row
<1>3. Rows(mvs) = [r \in 1..n |-> row(r)]
  BY DEF Rows
<1> HIDE DEF n, row
<1> QED BY <1>1, <1>2, <1>3

LEMMA ListUntouched ==
  ASSUME ListInv, UNCHANGED <<move_array, movestable, disabled, loads>>
  PROVE  ListInv'
BY DEF ListInv, ListIsOfTheGame, Rows

LEMMA PlayKeepsList ==
  ASSUME Play
  PROVE  UNCHANGED <<move_array, movestable, disabled>>
<1>1. CASE NextBtn \/ NextBtnAtEnd \/ PrevBtnWithoutMoves
  BY <1>1 DEF NextBtn, NextBtnAtEnd, PrevBtnWithoutMoves, listVars, analysisVars
<1>2. CASE PrevBtn \/ PrevBtnToStart
  BY <1>2 DEF PrevBtn, PrevBtnToStart, analysisVars
<1>3. CASE PrevBtnToStartThrows \/ PrevBtnAtStart
  BY <1>3 DEF PrevBtnToStartThrows, PrevBtnAtStart, listVars, analysisVars
<1>4. CASE JumpToMove
  BY <1>4 DEF JumpToMove, listVars, analysisVars
<1> QED BY <1>1, <1>2, <1>3, <1>4 DEF Play

LEMMA ListAfterAnswer ==
  ASSUME ListInv, Answers
  PROVE  ListInv'
<1>1. ASSUME NEW l \in loads, FenArrives(l) PROVE ListInv'
  <2>1. loads' = {} /\ movestable = <<>>
    BY <1>1 DEF FenArrives, ListInv
  <2>2. l.id \in DOMAIN Games
    BY <1>1 DEF FenArrives
  <2>3. move_array' = MovesOf(AnswerOf(l.id)) /\ movestable' = <<>> \o Rows(move_array')
    BY <1>1, <2>1 DEF FenArrives, PopulateMoveArray, PopulateMovesTable
  <2>4. movestable' = Rows(move_array')
    <3>1. Rows(move_array') \in Seq(Row)
      BY <2>2, <2>3, MovesOfAnswer, RowsAreASequence
    <3> QED BY <2>3, <3>1
  <2> QED BY <2>1, <2>4 DEF ListInv, ListIsOfTheGame, Rows
<1>2. ASSUME NEW l \in loads, FenFails(l) PROVE ListInv'
  <2>1. loads' = {} /\ movestable' = <<>>
    BY <1>2 DEF FenFails, ListInv, listVars
  <2> QED BY <2>1 DEF ListInv, ListIsOfTheGame
<1>3. ASSUME NEW l \in loops, EvalArrives(l) \/ EvalFails(l) PROVE ListInv'
  BY <1>3, ListUntouched DEF EvalArrives, EvalFails, pageVars, listVars, analysisVars
<1> QED BY <1>1, <1>2, <1>3 DEF Answers

LEMMA ListAfterStep ==
  ASSUME use.submitDisabled, ListInv, [Next]_vars
  PROVE  ListInv'
<1>1. CASE MayPlay /\ Play /\ UNCHANGED callVars
  BY <1>1, PlayKeepsList, ListUntouched DEF callVars
<1>2. CASE Reset /\ UNCHANGED callVars
  BY <1>2 DEF Reset, Restart, DeleteMoves, ListInv, ListIsOfTheGame, callVars
<1>3. ASSUME NEW id \in Ids, Submit(id) PROVE ListInv'
  BY <1>3 DEF Submit, Restart, DeleteMoves, ListInv, ListIsOfTheGame
<1>4. ASSUME NEW id \in Ids, SubmitRefused(id) PROVE ListInv'
  BY <1>4 DEF SubmitRefused, DeleteMoves, ListInv, ListIsOfTheGame
<1>5. CASE Answers
  BY <1>5, ListAfterAnswer
<1>6. CASE UNCHANGED vars
  BY <1>6, ListUntouched DEF vars, pageVars, listVars, analysisVars, callVars
<1> QED BY <1>1, <1>2, <1>3, <1>4, <1>5, <1>6 DEF Next

LEMMA ListsAlways == Spec => [](use.submitDisabled => ListInv)
<1> DEFINE Inv == use.submitDisabled => ListInv
<1>1. Init => Inv
  BY DEF Init, InitPage, ListInv, ListIsOfTheGame
<1>2. Inv /\ [Next]_vars => Inv'
  BY UseStays, ListAfterStep
<1> QED BY <1>1, <1>2, PTL DEF Spec

\* The list shows the moves that the buttons make or none, whatever the user
\* clicks while a game is loading, if the submit button is disabled until it
\* is there.
THEOREM ListAlwaysShowsTheGame == Spec => []ListShowsTheGame
<1>1. (use.submitDisabled => ListInv) => ListShowsTheGame
  BY DEF ListInv, ListShowsTheGame
<1> QED BY <1>1, ListsAlways, PTL

-----------------------------------------------------------------------------
(* The selected cell. *)

SelectionInv ==
  /\ index \in Nat /\ movestable \in Seq(Row)
  /\ movestable = <<>> => selected = {}
  /\ OnlyThisMoveSelected

LEMMA SelectionUntouched ==
  ASSUME SelectionInv, UNCHANGED <<index, listVars>>
  PROVE  SelectionInv'
BY DEF SelectionInv, OnlyThisMoveSelected, listVars

LEMMA NothingSelected ==
  ASSUME DeleteMoves, index' = 0
  PROVE  SelectionInv'
BY DEF DeleteMoves, SelectionInv, OnlyThisMoveSelected

LEMMA SelectionAfterPlay ==
  ASSUME SelectionInv, Play
  PROVE  SelectionInv'
<1> USE DEF SelectionInv, OnlyThisMoveSelected
<1>1. CASE NextBtn
  BY <1>1 DEF NextBtn, ColorMoveTable
<1>2. CASE PrevBtn
  BY <1>2 DEF PrevBtn, ColorMoveTable
<1>3. CASE PrevBtnToStart
  BY <1>3 DEF PrevBtnToStart
<1>4. CASE PrevBtnToStartThrows
  BY <1>4 DEF PrevBtnToStartThrows, listVars
<1>5. CASE NextBtnAtEnd \/ PrevBtnWithoutMoves \/ PrevBtnAtStart \/ JumpToMove
  BY <1>5, SelectionUntouched
     DEF NextBtnAtEnd, PrevBtnWithoutMoves, PrevBtnAtStart, JumpToMove, playVars
<1> QED BY <1>1, <1>2, <1>3, <1>4, <1>5 DEF Play

LEMMA SelectionAfterAnswer ==
  ASSUME SelectionInv, Answers
  PROVE  SelectionInv'
<1>1. ASSUME NEW l \in loads, FenArrives(l) PROVE SelectionInv'
  <2>1. Rows(MovesOf(fens')) \in Seq(Row)
    BY <1>1, MovesOfAnswer, RowsAreASequence DEF FenArrives
  <2>2. /\ movestable' = movestable \o Rows(MovesOf(fens'))
        /\ UNCHANGED <<index, selected, whitened>>
    BY <1>1 DEF FenArrives, PopulateMovesTable, playVars
  <2>3. movestable' \in Seq(Row) /\ Len(movestable') >= Len(movestable)
    BY <2>1, <2>2 DEF SelectionInv
  <2> QED BY <2>2, <2>3 DEF SelectionInv, OnlyThisMoveSelected
<1>2. ASSUME NEW l \in loads, FenFails(l) PROVE SelectionInv'
  BY <1>2, SelectionUntouched DEF FenFails, playVars
<1>3. ASSUME NEW l \in loops, EvalArrives(l) \/ EvalFails(l) PROVE SelectionInv'
  BY <1>3, SelectionUntouched DEF EvalArrives, EvalFails, pageVars, playVars
<1> QED BY <1>1, <1>2, <1>3 DEF Answers

\* Whatever is clicked and answered, in which order, the list never shows
\* another move selected than the one last made.
THEOREM OnlyThisMoveIsSelected == Spec => []OnlyThisMoveSelected
<1>1. Init => SelectionInv
  BY DEF Init, InitPage, SelectionInv, OnlyThisMoveSelected
<1>2. SelectionInv /\ [Next]_vars => SelectionInv'
  <2> SUFFICES ASSUME SelectionInv, [Next]_vars PROVE SelectionInv'
    OBVIOUS
  <2>1. CASE MayPlay /\ Play /\ UNCHANGED callVars
    BY <2>1, SelectionAfterPlay
  <2>2. CASE Reset
    BY <2>2, NothingSelected DEF Reset, Restart
  <2>3. ASSUME NEW id \in Ids, Submit(id) \/ SubmitRefused(id) PROVE SelectionInv'
    BY <2>3, NothingSelected DEF Submit, Restart, SubmitRefused
  <2>4. CASE Answers
    BY <2>4, SelectionAfterAnswer
  <2>5. CASE UNCHANGED vars
    BY <2>5, SelectionUntouched DEF vars, pageVars, playVars
  <2> QED BY <2>1, <2>2, <2>3, <2>4, <2>5 DEF Next
<1>3. SelectionInv => OnlyThisMoveSelected
  BY DEF SelectionInv
<1> QED BY <1>1, <1>2, <1>3, PTL DEF Spec

-----------------------------------------------------------------------------
(* updateEvals: what one run of the loop, up to a request or its end, does *)
(* to the evaluations and to what waits.                                   *)

EvalLists == [Plies -> Evaluations \union {None}]

\* The evaluations that are kept are filed under the fen they are of.
FiledByFen(dict) ==
  \A f \in DOMAIN dict : dict[f] \in Evaluations /\ dict[f].of = f

Waits(fen, calls) == \E l \in calls : \E k \in DOMAIN l.todo : l.todo[k] = fen

LEMMA EvaluationsAre ==
  /\ None \notin Evaluations
  /\ \A f \in Fens : f.ply \in Plies
  /\ \A f \in Fens, e \in Evaluations : e.of = f.fen => e.ply = f.ply
<1>1. \A e \in Evaluations : \E f \in Fens : e = [ply |-> f.ply, of |-> f.fen]
  BY DEF Evaluations
<1> QED BY <1>1, GamePageAssumption DEF Plies

LEMMA GreatestNumber ==
  ASSUME NEW N \in Nat, NEW S, S \subseteq 0..N, S # {}
  PROVE  Max(S) \in S
<1> DEFINE T == {N - x : x \in S}
<1>1. T \subseteq Nat /\ T # {}
  <2>1. \A x \in S : x \in 0..N /\ N - x \in Nat
    OBVIOUS
  <2> QED BY <2>1
<1>2. PICK m \in T : \A n \in T : m <= n
  <2> HIDE DEF T
  <2> QED BY <1>1, LeastNumber
<1>3. PICK x \in S : m = N - x
  BY <1>2
<1>4. ASSUME NEW y \in S PROVE x >= y
  <2>1. N - y \in T
    OBVIOUS
  <2>2. m <= N - y /\ x \in Int /\ y \in Int
    BY <1>2, <2>1
  <2> QED BY <2>2, <1>3
<1> QED BY <1>4 DEF Max

LEMMA HitsAreKnown ==
  ASSUME NEW todo \in Seq(Fens), NEW dict
  PROVE  /\ Hits(todo, dict) \in 0..Len(todo)
         /\ \A i \in 1..Hits(todo, dict) : todo[i].fen \in DOMAIN dict
<1> DEFINE S == {n \in 0..Len(todo) : \A i \in 1..n : todo[i].fen \in DOMAIN dict}
<1>1. Len(todo) \in Nat /\ S \subseteq 0..Len(todo) /\ S # {}
  <2>1. 0 \in S
    OBVIOUS
  <2> QED BY <2>1
<1>2. Hits(todo, dict) \in S
  <2>1. Max(S) \in S
    <3> HIDE DEF S
    <3> QED BY <1>1, GreatestNumber, Zenon
  <2>2. Hits(todo, dict) = Max(S)
    BY Zenon DEF Hits
  <2> QED BY <2>1, <2>2, Zenon
<1> QED BY <1>2

LEMMA NotedIs ==
  ASSUME NEW list \in EvalLists, NEW todo \in Seq(Fens), NEW n \in 0..Len(todo),
         NEW dict, FiledByFen(dict), \A i \in 1..n : todo[i].fen \in DOMAIN dict
  PROVE  /\ Noted(list, todo, n, dict) \in EvalLists
         /\ \A p \in Plies :
              \/ Noted(list, todo, n, dict)[p] = list[p]
              \/ \E i \in 1..n : todo[i].ply = p
                                 /\ Noted(list, todo, n, dict)[p] = dict[todo[i].fen]
         /\ \A i \in 1..n : Noted(list, todo, n, dict)[todo[i].ply] # None
         /\ \A p \in Plies :
              list[p] # None => Noted(list, todo, n, dict)[p] # None
<1> DEFINE ev == Noted(list, todo, n, dict)
           At(p) == {i \in 1..n : todo[i].ply = p}
<1>1. \A i \in 1..n : todo[i] \in Fens /\ dict[todo[i].fen] \in Evaluations
  BY DEF FiledByFen
<1>2. ASSUME NEW p \in Plies, At(p) = {}
      PROVE  ev[p] = list[p]
  BY <1>2 DEF Noted
<1>3. ASSUME NEW p \in Plies, At(p) # {}
      PROVE  \E i \in 1..n : todo[i].ply = p /\ ev[p] = dict[todo[i].fen]
  <2> DEFINE i == CHOOSE i \in At(p) : TRUE
  <2>1. i \in At(p)
    BY <1>3
  <2>2. ev[p] = dict[todo[i].fen]
    BY <1>3 DEF Noted
  <2> QED BY <2>1, <2>2
<1>4. \A p \in Plies : ev[p] \in Evaluations \union {None}
                       /\ (At(p) # {} \/ list[p] # None => ev[p] # None)
  BY <1>1, <1>2, <1>3, EvaluationsAre DEF EvalLists
<1>5. ev \in EvalLists
  BY <1>4 DEF Noted, EvalLists
<1>6. \A i \in 1..n : todo[i].ply \in Plies /\ i \in At(todo[i].ply)
  BY <1>1, EvaluationsAre
<1> HIDE DEF ev
<1>7. \A i \in 1..n : ev[todo[i].ply] # None
  BY <1>4, <1>6
<1>8. \A p \in Plies : ev[p] = list[p]
                       \/ \E i \in 1..n : todo[i].ply = p /\ ev[p] = dict[todo[i].fen]
  BY <1>2, <1>3
<1> QED BY <1>4, <1>5, <1>7, <1>8 DEF ev

\* The rest of the list, if there is one: its fens are of the list, and each
\* fen of the list is among the first n or waits in it.
LEMMA RestOf ==
  ASSUME NEW todo \in Seq(Fens), NEW n \in 0..Len(todo), n # Len(todo)
  PROVE  /\ SubSeq(todo, n + 1, Len(todo)) \in Seq(Fens) \ {<<>>}
         /\ \A k \in DOMAIN SubSeq(todo, n + 1, Len(todo)) :
              \E i \in DOMAIN todo : SubSeq(todo, n + 1, Len(todo))[k] = todo[i]
         /\ \A i \in (n + 1)..Len(todo) :
              \E k \in DOMAIN SubSeq(todo, n + 1, Len(todo)) :
                SubSeq(todo, n + 1, Len(todo))[k] = todo[i]
<1> DEFINE rest == SubSeq(todo, n + 1, Len(todo))
<1>1. rest \in Seq(Fens) /\ Len(rest) = Len(todo) - n
  BY SubSeqProperties
<1>2. \A k \in 1..Len(rest) : rest[k] = todo[n + k] /\ n + k \in 1..Len(todo)
  BY <1>1
<1> HIDE DEF rest
<1>3. \A i \in (n + 1)..Len(todo) : i - n \in 1..Len(rest) /\ rest[i - n] = todo[i]
  BY <1>1, <1>2
<1>4. DOMAIN rest = 1..Len(rest) /\ DOMAIN todo = 1..Len(todo) /\ rest # <<>>
  BY <1>1
<1>5. /\ rest \in Seq(Fens) \ {<<>>}
      /\ \A k \in DOMAIN rest : \E i \in DOMAIN todo : rest[k] = todo[i]
      /\ \A i \in (n + 1)..Len(todo) : \E k \in DOMAIN rest : rest[k] = todo[i]
  BY <1>1, <1>2, <1>3, <1>4
<1> QED BY <1>5, Zenon DEF rest

\* The loop has run over todo, with list the evaluations there were.
Runs(todo, list, others) ==
  /\ evals' \in EvalLists
  /\ \A p \in Plies : list[p] # None => evals'[p] # None
  /\ \A p \in Plies :
       \/ evals'[p] = list[p]
       \/ \E i \in DOMAIN todo : todo[i].ply = p /\ todo[i].fen = evals'[p].of
  /\ others \subseteq loops'
  /\ \A l \in loops' : l \in others \/
       /\ l.todo \in Seq(Fens) \ {<<>>}
       /\ \A k \in DOMAIN l.todo : \E i \in DOMAIN todo : l.todo[k] = todo[i]
  /\ \A i \in DOMAIN todo : evals'[todo[i].ply] # None \/ Waits(todo[i], loops')

LEMMA LoopDoes ==
  ASSUME NEW call, NEW todo \in Seq(Fens), NEW dict, NEW list \in EvalLists, NEW others,
         FiledByFen(dict), Continue(call, todo, dict, list, others)
  PROVE  Runs(todo, list, others)
<1> DEFINE n == Hits(todo, dict)
           rest == SubSeq(todo, n + 1, Len(todo))
<1>1. n \in 0..Len(todo) /\ \A i \in 1..n : todo[i].fen \in DOMAIN dict
  BY HitsAreKnown
<1>2. /\ evals' = Noted(list, todo, n, dict)
      /\ loops' = others \union
            (IF n = Len(todo) THEN {} ELSE {[call |-> call, todo |-> rest]})
  BY DEF Continue
<1> HIDE DEF n
<1>3. /\ evals' \in EvalLists
      /\ \A p \in Plies : list[p] # None => evals'[p] # None
      /\ \A i \in 1..n : evals'[todo[i].ply] # None
  BY <1>1, <1>2, NotedIs
<1>4. ASSUME NEW p \in Plies, evals'[p] # list[p]
      PROVE  \E i \in DOMAIN todo : todo[i].ply = p /\ todo[i].fen = evals'[p].of
  <2>1. PICK i \in 1..n : todo[i].ply = p /\ evals'[p] = dict[todo[i].fen]
    BY <1>1, <1>2, <1>4, NotedIs
  <2>2. i \in DOMAIN todo /\ todo[i].fen \in DOMAIN dict
    BY <1>1
  <2> QED BY <2>1, <2>2 DEF FiledByFen
<1>5. CASE n = Len(todo)
  BY <1>2, <1>3, <1>4, <1>5 DEF Runs
<1>6. CASE n # Len(todo)
  <2>1. /\ rest \in Seq(Fens) \ {<<>>}
        /\ \A k \in DOMAIN rest : \E i \in DOMAIN todo : rest[k] = todo[i]
        /\ \A i \in (n + 1)..Len(todo) : \E k \in DOMAIN rest : rest[k] = todo[i]
    BY <1>1, <1>6, RestOf
  <2> HIDE DEF rest
  <2> DEFINE r == [call |-> call, todo |-> rest]
  <2>2. r \in loops' /\ r.todo = rest /\ \A l \in loops' : l \in others \/ l = r
    BY <1>2, <1>6
  <2> HIDE DEF r
  <2>3. ASSUME NEW i \in DOMAIN todo
        PROVE  evals'[todo[i].ply] # None \/ Waits(todo[i], loops')
    <3>1. i \in 1..n \/ i \in (n + 1)..Len(todo)
      BY <1>1
    <3> QED BY <3>1, <1>3, <2>1, <2>2 DEF Waits
  <2>4. /\ others \subseteq loops'
        /\ \A l \in loops' : l \in others \/
             /\ l.todo \in Seq(Fens) \ {<<>>}
             /\ \A k \in DOMAIN l.todo : \E i \in DOMAIN todo : l.todo[k] = todo[i]
    BY <1>2, <2>1, <2>2
  <2> QED BY <1>3, <1>4, <2>3, <2>4 DEF Runs
<1> QED BY <1>5, <1>6

\* The answer for the fen that a loop waits for.
LEMMA FiledEval ==
  ASSUME NEW f \in Fens, NEW dict, FiledByFen(dict)
  PROVE  FiledByFen(Filed(f, dict))
<1>1. [ply |-> f.ply, of |-> f.fen] \in Evaluations
  BY DEF Evaluations
<1> QED BY <1>1 DEF FiledByFen, Filed

-----------------------------------------------------------------------------
(* The types.  What a loop enters is an evaluation because it is filed     *)
(* under the fen it is of, and under a ply of the list because it is of a  *)
(* fen that the service has sent.                                          *)

EvalTypes ==
  /\ fens \in Seq(Fens) /\ evals \in EvalLists /\ FiledByFen(evals_dict)
  /\ \A l \in loops : l.todo \in Seq(Fens) \ {<<>>}

PageTypes ==
  /\ move_array \in Seq(Moves) /\ Len(move_array) <= MaxPly
  /\ index \in 0..MaxPly /\ index <= Len(positions) /\ IsASequence(positions)
  /\ selected \subseteq Plies /\ shown \in Evaluations \union {None}

LEMMA NoEvalsIsAList == NoEvals \in EvalLists
BY DEF NoEvals, EvalLists

LEMMA RunsAfterFen ==
  ASSUME EvalTypes, NEW l \in loads, FenArrives(l)
  PROVE  fens' \in Seq(Fens) /\ evals_dict' = evals_dict /\ Runs(fens', evals, loops)
<1>1. fens' \in Seq(Fens) /\ evals_dict' = evals_dict
  BY ViewerAssumption DEF FenArrives
<1>2. Continue(l.call, fens', evals_dict, evals, loops)
  BY DEF FenArrives, Loaded
<1> QED BY <1>1, <1>2, LoopDoes DEF EvalTypes

LEMMA RunsAfterFailure ==
  ASSUME EvalTypes, NEW l \in loads, FenFails(l)
  PROVE  fens' = fens /\ evals_dict' = evals_dict /\ Runs(fens, evals, loops)
<1>1. Continue(l.call, fens, evals_dict, evals, loops)
  BY DEF FenFails, Loaded
<1> QED BY <1>1, LoopDoes DEF FenFails, EvalTypes

LEMMA RunsAfterRefusal ==
  ASSUME EvalTypes, NEW id, SubmitRefused(id)
  PROVE  fens' = fens /\ evals_dict' = evals_dict /\ Runs(fens, NoEvals, loops)
<1>1. Continue(submits', fens, evals_dict, NoEvals, loops)
  BY DEF SubmitRefused
<1> QED BY <1>1, LoopDoes, NoEvalsIsAList DEF SubmitRefused, EvalTypes

LEMMA RunsAfterEval ==
  ASSUME EvalTypes, NEW l \in loops, EvalArrives(l)
  PROVE  fens' = fens /\ FiledByFen(evals_dict') /\ Runs(l.todo, evals, loops \ {l})
<1> DEFINE dict == Filed(Head(l.todo), evals_dict)
<1>1. l.todo \in Seq(Fens) /\ Head(l.todo) \in Fens
  BY DEF EvalTypes
<1>2. FiledByFen(dict)
  BY <1>1, FiledEval DEF EvalTypes
<1>3. fens' = fens /\ evals_dict' = dict /\ Continue(l.call, l.todo, dict, evals, loops \ {l})
  BY DEF EvalArrives
<1> HIDE DEF dict
<1> QED BY <1>1, <1>2, <1>3, LoopDoes DEF EvalTypes

\* What the buttons leave alone.
LEMMA PlayKeepsEvals ==
  ASSUME Play
  PROVE  UNCHANGED <<fens, evals, evals_dict, move_array>>
<1>1. CASE NextBtn \/ NextBtnAtEnd \/ PrevBtnWithoutMoves
  BY <1>1 DEF NextBtn, NextBtnAtEnd, PrevBtnWithoutMoves, analysisVars
<1>2. CASE PrevBtn \/ PrevBtnToStart
  BY <1>2 DEF PrevBtn, PrevBtnToStart, analysisVars
<1>3. CASE PrevBtnToStartThrows \/ PrevBtnAtStart
  BY <1>3 DEF PrevBtnToStartThrows, PrevBtnAtStart, analysisVars
<1>4. CASE JumpToMove
  BY <1>4 DEF JumpToMove, analysisVars
<1> QED BY <1>1, <1>2, <1>3, <1>4 DEF Play

LEMMA EvalTypesAfterRun ==
  ASSUME NEW todo, NEW list, NEW others \in SUBSET loops, EvalTypes,
         fens' \in Seq(Fens), FiledByFen(evals_dict'), Runs(todo, list, others)
  PROVE  EvalTypes'
BY DEF EvalTypes, Runs, FiledByFen

LEMMA EvalTypesStay ==
  ASSUME EvalTypes, [Next]_vars
  PROVE  EvalTypes'
<1>1. CASE Play /\ UNCHANGED callVars
  BY <1>1, PlayKeepsEvals DEF EvalTypes, callVars, FiledByFen
<1>2. CASE Reset /\ UNCHANGED callVars
  BY <1>2, NoEvalsIsAList DEF Reset, Restart, EvalTypes, callVars, FiledByFen
<1>3. ASSUME NEW id \in Ids, Submit(id) PROVE EvalTypes'
  BY <1>3, NoEvalsIsAList DEF Submit, Restart, EvalTypes, FiledByFen
<1>4. ASSUME NEW id \in Ids, SubmitRefused(id) PROVE EvalTypes'
  BY <1>4, RunsAfterRefusal, EvalTypesAfterRun DEF EvalTypes
<1>5. ASSUME NEW l \in loads, FenArrives(l) PROVE EvalTypes'
  BY <1>5, RunsAfterFen, EvalTypesAfterRun DEF EvalTypes
<1>6. ASSUME NEW l \in loads, FenFails(l) PROVE EvalTypes'
  BY <1>6, RunsAfterFailure, EvalTypesAfterRun DEF EvalTypes
<1>7. ASSUME NEW l \in loops, EvalArrives(l) PROVE EvalTypes'
  BY <1>7, RunsAfterEval, EvalTypesAfterRun DEF EvalTypes
<1>8. ASSUME NEW l \in loops, EvalFails(l) PROVE EvalTypes'
  BY <1>8 DEF EvalFails, EvalTypes, pageVars, analysisVars, FiledByFen
<1>9. CASE UNCHANGED vars
  BY <1>9 DEF vars, pageVars, analysisVars, callVars, EvalTypes, FiledByFen
<1> QED BY <1>1, <1>2, <1>3, <1>4, <1>5, <1>6, <1>7, <1>8, <1>9 DEF Next, Answers

LEMMA EvalTypesAlways == Spec => []EvalTypes
<1>1. Init => EvalTypes
  BY NoEvalsIsAList DEF Init, InitPage, EvalTypes, FiledByFen
<1>2. EvalTypes /\ [Next]_vars => EvalTypes'
  BY EvalTypesStay
<1> QED BY <1>1, <1>2, PTL DEF Spec

LEMMA ShownIs ==
  ASSUME EvalTypes, NEW p \in Nat, UpdateEvalTbl(p)
  PROVE  /\ shown' \in Evaluations \union {None}
         /\ shown' # None => p \in Plies /\ shown' = evals[p] /\ counter' = evals[p].ply
BY DEF UpdateEvalTbl, ClearEvalTbl, EvalTypes, EvalLists

LEMMA PageTypesUntouched ==
  ASSUME PageTypes, UNCHANGED <<move_array, playVars, selected, shown>>
  PROVE  PageTypes'
BY DEF PageTypes, playVars

LEMMA PageTypesAtStart ==
  ASSUME PageTypes, index' = 0, positions' = <<>>, selected' = {}, shown' = None,
         move_array' = move_array \/ move_array' = <<>>
  PROVE  PageTypes'
<1>1. IsASequence(positions')
  BY DEF IsASequence
<1>2. 0 \in 0..MaxPly
  BY GamePageAssumption
<1>3. move_array' \in Seq(Moves) /\ Len(move_array') <= MaxPly
  <2>1. CASE move_array' = move_array
    BY <2>1 DEF PageTypes
  <2>2. CASE move_array' = <<>>
    BY <2>2, GamePageAssumption
  <2> QED BY <2>1, <2>2
<1>4. index' <= Len(positions') /\ selected' \subseteq Plies
  OBVIOUS
<1> QED BY <1>1, <1>2, <1>3, <1>4 DEF PageTypes

LEMMA PageTypesAfterPlay ==
  ASSUME EvalTypes, PageTypes, Play
  PROVE  PageTypes'
<1> USE GamePageAssumption DEF PageTypes
<1>1. CASE NextBtn
  <2>1. /\ index' = index + 1 /\ positions' = Remembered /\ move_array' = move_array
        /\ index < Len(move_array)
    BY <1>1 DEF NextBtn
  <2>2. selected' \subseteq Plies
    BY <1>1, <2>1 DEF NextBtn, ColorMoveTable, Plies
  <2>3. shown' \in Evaluations \union {None}
    BY <1>1, <2>1, ShownIs DEF NextBtn
  <2>4. IsASequence(positions') /\ index' <= Len(positions')
    BY <2>1, RememberedIs
  <2> QED BY <2>1, <2>2, <2>3, <2>4
<1>2. CASE PrevBtn
  <2>1. index' = index - 1 /\ index > 1 /\ UNCHANGED <<positions, move_array>>
    BY <1>2 DEF PrevBtn
  <2>2. selected' \subseteq Plies
    BY <1>2, <2>1 DEF PrevBtn, ColorMoveTable, Plies
  <2>3. shown' \in Evaluations \union {None}
    BY <1>2, <2>1, ShownIs DEF PrevBtn
  <2> QED BY <2>1, <2>2, <2>3 DEF IsASequence
<1>3. CASE PrevBtnToStart
  <2>1. index' = 0 /\ UNCHANGED <<positions, move_array, selected>>
    BY <1>3 DEF PrevBtnToStart
  <2>2. shown' \in Evaluations \union {None}
    BY <1>3, ShownIs DEF PrevBtnToStart
  <2> QED BY <2>1, <2>2 DEF IsASequence
<1>4. CASE PrevBtnToStartThrows \/ PrevBtnAtStart
  BY <1>4 DEF PrevBtnToStartThrows, PrevBtnAtStart, listVars, IsASequence
<1>5. CASE NextBtnAtEnd \/ PrevBtnWithoutMoves \/ JumpToMove
  BY <1>5, PageTypesUntouched DEF NextBtnAtEnd, PrevBtnWithoutMoves, JumpToMove, listVars, tableVars
<1> QED BY <1>1, <1>2, <1>3, <1>4, <1>5 DEF Play

LEMMA PageTypesAfterAnswer ==
  ASSUME PageTypes, Answers
  PROVE  PageTypes'
<1>1. ASSUME NEW l \in loads, FenArrives(l) PROVE PageTypes'
  <2>1. move_array' \in Seq(Moves) /\ Len(move_array') <= MaxPly
    <3>1. l.id \in DOMAIN Games /\ move_array' = MovesOf(AnswerOf(l.id))
      BY <1>1 DEF FenArrives, PopulateMoveArray
    <3>2. AnswerOf(l.id) \in Seq(Fens) /\ Len(AnswerOf(l.id)) <= MaxPly
      BY <3>1, ViewerAssumption
    <3>3. Len(MovesOf(AnswerOf(l.id))) = Len(AnswerOf(l.id))
      BY <3>2 DEF MovesOf
    <3> QED BY <3>1, <3>2, <3>3, MovesOfAnswer
  <2>2. UNCHANGED <<playVars, selected, shown>>
    BY <1>1 DEF FenArrives, PopulateMovesTable, tableVars
  <2> QED BY <2>1, <2>2 DEF PageTypes, playVars
<1>2. ASSUME NEW l \in loads, FenFails(l) PROVE PageTypes'
  BY <1>2, PageTypesUntouched DEF FenFails, listVars, tableVars
<1>3. ASSUME NEW l \in loops, EvalArrives(l) \/ EvalFails(l) PROVE PageTypes'
  BY <1>3, PageTypesUntouched DEF EvalArrives, EvalFails, pageVars, listVars, tableVars
<1> QED BY <1>1, <1>2, <1>3 DEF Answers

LEMMA PageTypesStay ==
  ASSUME EvalTypes, PageTypes, [Next]_vars
  PROVE  PageTypes'
<1>1. CASE Play
  BY <1>1, PageTypesAfterPlay
<1>2. CASE Reset
  BY <1>2, PageTypesAtStart DEF Reset, Restart, DeleteMoves, ClearEvalTbl
<1>3. ASSUME NEW id \in Ids, Submit(id) \/ SubmitRefused(id) PROVE PageTypes'
  BY <1>3, PageTypesAtStart
     DEF Submit, SubmitRefused, Restart, DeleteMoves, ClearEvalTbl
<1>4. CASE Answers
  BY <1>4, PageTypesAfterAnswer
<1>5. CASE UNCHANGED vars
  BY <1>5, PageTypesUntouched DEF vars, pageVars, listVars, tableVars
<1> QED BY <1>1, <1>2, <1>3, <1>4, <1>5 DEF Next

LEMMA PageTypesAlways == Spec => []PageTypes
<1>1. Init => PageTypes
  BY GamePageAssumption DEF Init, InitPage, PageTypes, IsASequence
<1>2. EvalTypes /\ PageTypes /\ [Next]_vars => PageTypes'
  BY PageTypesStay
<1> QED BY <1>1, <1>2, EvalTypesAlways, PTL DEF Spec

\* Values are what the script expects, however the page is used: a position
\* has been remembered for every move that can be taken back, and no loop is
\* left with nothing to wait for.
THEOREM TypesAreKept == Spec => []TypeOK
<1>1. Init => use \in Uses
  BY DEF Init
<1>2. use \in Uses /\ [Next]_vars => (use \in Uses)'
  BY UseStays
<1>3. EvalTypes /\ PageTypes /\ use \in Uses => TypeOK
  BY DEF EvalTypes, PageTypes, TypeOK, EvalLists
<1> QED BY <1>1, <1>2, <1>3, EvalTypesAlways, PageTypesAlways, PTL DEF Spec

-----------------------------------------------------------------------------
(* What a patient user sees.  While a game is loading no evaluation is     *)
(* kept, awaited or shown, so that none outlives its game; what a loop     *)
(* still waits for is of the game, and what the table shows is of the move *)
(* last made.                                                              *)

OfTheGame(e, p) == \E i \in DOMAIN fens : fens[i].ply = p /\ fens[i].fen = e.of

PatientInv ==
  /\ loads # {} => loops = {} /\ evals = NoEvals /\ shown = None
  /\ \A l \in loops : \A k \in DOMAIN l.todo : \E j \in DOMAIN fens : fens[j] = l.todo[k]
  /\ EvalsAreOfTheGame
  /\ shown # None => counter = index /\ OfTheGame(shown, index)

LEMMA NoEvalsOfTheGame == ASSUME evals = NoEvals PROVE EvalsAreOfTheGame
BY DEF NoEvals, EvalsAreOfTheGame

\* The evaluations, the game and what waits stay: so does the table, or it
\* shows the evaluation of another move.
LEMMA PatientAfterPlay ==
  ASSUME EvalTypes, PatientInv, index \in Nat, loads = {}, Play, UNCHANGED callVars
  PROVE  PatientInv'
<1>1. UNCHANGED <<fens, evals, loads, loops>>
  BY PlayKeepsEvals DEF callVars
<1>2. ASSUME NEW p \in Nat, index' = p, UpdateEvalTbl(p)
      PROVE  shown' # None => counter' = index' /\ OfTheGame(shown, index)'
  <2> SUFFICES ASSUME shown' # None PROVE counter' = index' /\ OfTheGame(shown, index)'
    OBVIOUS
  <2>1. /\ p \in Plies /\ shown' = evals[p] /\ counter' = evals[p].ply
        /\ evals[p] # None /\ evals[p] \in Evaluations
    BY <1>2, ShownIs DEF EvalTypes, EvalLists
  <2>2. PICK i \in DOMAIN fens : fens[i].ply = p /\ fens[i].fen = evals[p].of
    BY <2>1 DEF PatientInv, EvalsAreOfTheGame
  <2>3. fens[i] \in Fens
    BY <2>2 DEF EvalTypes
  <2>4. evals[p].ply = p
    BY <2>1, <2>2, <2>3, EvaluationsAre
  <2> QED BY <1>1, <1>2, <2>1, <2>2, <2>4 DEF OfTheGame
<1>3. shown' # None => counter' = index' /\ OfTheGame(shown, index)'
  <2>1. CASE NextBtn
    BY <2>1, <1>2 DEF NextBtn
  <2>2. CASE PrevBtn
    BY <2>2, <1>2 DEF PrevBtn
  <2>3. CASE PrevBtnToStart
    BY <2>3, <1>2 DEF PrevBtnToStart
  <2>4. CASE PrevBtnToStartThrows \/ PrevBtnAtStart
    BY <2>4 DEF PrevBtnToStartThrows, PrevBtnAtStart
  <2>5. CASE NextBtnAtEnd \/ PrevBtnWithoutMoves \/ JumpToMove
    BY <2>5, <1>1 DEF NextBtnAtEnd, PrevBtnWithoutMoves, JumpToMove, playVars, tableVars, PatientInv, OfTheGame
  <2> QED BY <2>1, <2>2, <2>3, <2>4, <2>5 DEF Play
<1>4. EvalsAreOfTheGame'
  BY <1>1 DEF PatientInv, EvalsAreOfTheGame
<1> QED BY <1>1, <1>3, <1>4 DEF PatientInv

\* All begins anew, in the game there is.
LEMMA PatientAfterRestart ==
  ASSUME PatientInv, loads' # {} => loops' = {},
         evals' = NoEvals, shown' = None, UNCHANGED <<fens, loops>>
  PROVE  PatientInv'
<1>1. EvalsAreOfTheGame'
  BY NoEvalsOfTheGame DEF NoEvals, EvalsAreOfTheGame
<1> QED BY <1>1 DEF PatientInv

\* A loop runs over fens of the game, which may just have arrived.
LEMMA PatientAfterRun ==
  ASSUME NEW todo, NEW list, NEW others, Runs(todo, list, others), loads' = {},
         \A i \in DOMAIN todo : \E j \in DOMAIN fens' : fens'[j] = todo[i],
         \A l \in others : \A k \in DOMAIN l.todo :
            \E j \in DOMAIN fens' : fens'[j] = l.todo[k],
         list = NoEvals \/ (list = evals /\ EvalsAreOfTheGame /\ fens' = fens),
         shown' # None => counter' = index' /\ OfTheGame(shown, index)'
  PROVE  PatientInv'
<1>1. ASSUME NEW p \in Plies, evals'[p] # None
      PROVE  \E i \in DOMAIN fens' : fens'[i].ply = p /\ fens'[i].fen = evals'[p].of
  <2>1. CASE evals'[p] = list[p]
    BY <1>1, <2>1 DEF NoEvals, EvalsAreOfTheGame
  <2>2. CASE evals'[p] # list[p]
    <3>1. PICK i \in DOMAIN todo : todo[i].ply = p /\ todo[i].fen = evals'[p].of
      BY <2>2 DEF Runs
    <3> QED BY <3>1
  <2> QED BY <2>1, <2>2
<1>2. EvalsAreOfTheGame'
  BY <1>1 DEF EvalsAreOfTheGame
<1>3. \A l \in loops' : \A k \in DOMAIN l.todo : \E j \in DOMAIN fens' : fens'[j] = l.todo[k]
  <2> SUFFICES ASSUME NEW l \in loops', NEW k \in DOMAIN l.todo
               PROVE  \E j \in DOMAIN fens' : fens'[j] = l.todo[k]
    OBVIOUS
  <2>1. CASE l \in others
    BY <2>1
  <2>2. CASE l \notin others
    <3>1. PICK i \in DOMAIN todo : l.todo[k] = todo[i]
      BY <2>2 DEF Runs
    <3> QED BY <3>1
  <2> QED BY <2>1, <2>2
<1> QED BY <1>2, <1>3 DEF PatientInv

LEMMA PatientAfterAnswer ==
  ASSUME EvalTypes, PatientInv, \A l, m \in loads : l = m, Answers
  PROVE  PatientInv'
<1>1. ASSUME NEW l \in loads, FenArrives(l) PROVE PatientInv'
  <2>1. loads' = {} /\ loops = {} /\ evals = NoEvals /\ shown' = None
    BY <1>1 DEF FenArrives, PatientInv, tableVars
  <2> QED BY <1>1, <2>1, RunsAfterFen, PatientAfterRun
<1>2. ASSUME NEW l \in loads, FenFails(l) PROVE PatientInv'
  <2>1. loads' = {} /\ loops = {} /\ evals = NoEvals /\ shown' = None /\ fens' = fens
    BY <1>2 DEF FenFails, PatientInv, tableVars
  <2> QED BY <1>2, <2>1, RunsAfterFailure, PatientAfterRun
<1>3. ASSUME NEW l \in loops, EvalArrives(l) PROVE PatientInv'
  <2>1. loads' = {} /\ UNCHANGED <<fens, index, counter, shown>>
    BY <1>3 DEF EvalArrives, PatientInv, playVars, tableVars
  <2>2. shown' # None => counter' = index' /\ OfTheGame(shown, index)'
    BY <2>1 DEF PatientInv, OfTheGame
  <2>3. Runs(l.todo, evals, loops \ {l})
    BY <1>3, RunsAfterEval
  <2>4. /\ \A i \in DOMAIN l.todo : \E j \in DOMAIN fens' : fens'[j] = l.todo[i]
        /\ \A m \in loops \ {l} : \A k \in DOMAIN m.todo :
             \E j \in DOMAIN fens' : fens'[j] = m.todo[k]
        /\ EvalsAreOfTheGame
    BY <2>1 DEF PatientInv
  <2> QED BY <2>1, <2>2, <2>3, <2>4, PatientAfterRun
<1>4. ASSUME NEW l \in loops, EvalFails(l) PROVE PatientInv'
  BY <1>4 DEF EvalFails, pageVars, analysisVars, playVars, tableVars,
              PatientInv, EvalsAreOfTheGame, OfTheGame
<1> QED BY <1>1, <1>2, <1>3, <1>4 DEF Answers

LEMMA PatientStep ==
  ASSUME Patient, EvalTypes, PageTypes, ListInv, PatientInv, [Next]_vars
  PROVE  PatientInv'
<1>1. CASE MayPlay /\ Play /\ UNCHANGED callVars
  BY <1>1, PatientAfterPlay, GamePageAssumption DEF Patient, MayPlay, PageTypes
<1>2. CASE Reset /\ UNCHANGED callVars
  BY <1>2, PatientAfterRestart DEF Reset, Restart, ClearEvalTbl, callVars, PatientInv
<1>3. ASSUME NEW id \in Ids, Submit(id) PROVE PatientInv'
  BY <1>3, PatientAfterRestart DEF Submit, Restart, ClearEvalTbl, Patient
<1>4. ASSUME NEW id \in Ids, SubmitRefused(id) PROVE PatientInv'
  <2>1. loads' = {} /\ loops = {} /\ shown' = None /\ fens' = fens
    BY <1>4 DEF SubmitRefused, ClearEvalTbl, Patient, ListInv
  <2> QED BY <1>4, <2>1, RunsAfterRefusal, PatientAfterRun
<1>5. CASE Answers
  BY <1>5, PatientAfterAnswer DEF ListInv, Patient
<1>6. CASE UNCHANGED vars
  BY <1>6 DEF vars, pageVars, analysisVars, playVars, tableVars, callVars,
              PatientInv, EvalsAreOfTheGame, OfTheGame
<1> QED BY <1>1, <1>2, <1>3, <1>4, <1>5, <1>6 DEF Next

LEMMA PatientAlways == Spec => [](Patient => PatientInv)
<1> DEFINE Inv == Patient => PatientInv
           Lists == use.submitDisabled => ListInv
<1>1. Init => Inv
  BY NoEvalsOfTheGame DEF Init, InitPage, PatientInv
<1>2. EvalTypes /\ PageTypes /\ Lists /\ Inv /\ [Next]_vars => Inv'
  BY UseStays, PatientStep DEF Patient
<1> QED BY <1>1, <1>2, EvalTypesAlways, PageTypesAlways, ListsAlways, PTL DEF Spec

\* Every evaluation kept for a patient user is of the game that is loaded,
\* whatever was reset, refused or could not be loaded in between.
THEOREM PatientEvaluationsFit == Spec => []PatientEvalsAreOfTheGame
<1>1. (Patient => PatientInv) => PatientEvalsAreOfTheGame
  BY DEF PatientInv, PatientEvalsAreOfTheGame
<1> QED BY <1>1, PatientAlways, PTL

\* What the table shows a patient user is the evaluation of the position after
\* the move last made, with its ply.
THEOREM EvaluationShownIsOfTheMove == Spec => []EvaluationIsOfTheMove
<1>1. (Patient => PatientInv) => EvaluationIsOfTheMove
  <2> SUFFICES ASSUME PatientInv, shown # None, \A i \in DOMAIN fens : fens[i].ply = i
               PROVE  index \in DOMAIN fens /\ shown.of = fens[index].fen
                      /\ counter = index
    BY DEF EvaluationIsOfTheMove
  <2>1. PICK i \in DOMAIN fens : fens[i].ply = index /\ fens[i].fen = shown.of
    BY DEF PatientInv, OfTheGame
  <2> QED BY <2>1 DEF PatientInv
<1> QED BY <1>1, PatientAlways, PTL

-----------------------------------------------------------------------------
(* Every move gets its evaluation, however games are loaded over one       *)
(* another: a fen of the game has one, or waits in some loop.              *)

CompleteInv ==
  loads = {} /\ move_array # <<>> /\ ~use.evalsFail =>
    \A i \in DOMAIN fens : evals[fens[i].ply] # None \/ Waits(fens[i], loops)

LEMMA CompleteAfterEval ==
  ASSUME EvalTypes, CompleteInv, NEW l \in loops, EvalArrives(l), use' = use
  PROVE  CompleteInv'
<1>1. /\ UNCHANGED <<fens, loads, move_array>>
      /\ Runs(l.todo, evals, loops \ {l})
  BY RunsAfterEval DEF EvalArrives
<1>2. ASSUME NEW i \in DOMAIN fens, evals[fens[i].ply] # None \/ Waits(fens[i], loops)
      PROVE  evals'[fens[i].ply] # None \/ Waits(fens[i], loops')
  <2>1. CASE evals[fens[i].ply] # None
    <3>1. fens[i].ply \in Plies
      BY EvaluationsAre DEF EvalTypes
    <3> QED BY <2>1, <3>1, <1>1 DEF Runs
  <2>2. CASE Waits(fens[i], loops)
    <3>1. PICK m \in loops : \E k \in DOMAIN m.todo : m.todo[k] = fens[i]
      BY <2>2 DEF Waits
    <3>2. CASE m = l
      BY <1>1, <3>1, <3>2 DEF Runs
    <3>3. CASE m # l
      BY <1>1, <3>1, <3>3 DEF Runs, Waits
    <3> QED BY <3>2, <3>3
  <2> QED BY <1>2, <2>1, <2>2
<1> QED BY <1>1, <1>2 DEF CompleteInv

LEMMA CompleteStep ==
  ASSUME EvalTypes, CompleteInv, [Next]_vars
  PROVE  CompleteInv'
<1>1. CASE Play /\ UNCHANGED callVars
  BY <1>1, UseStays, PlayKeepsEvals DEF CompleteInv, callVars
<1>2. CASE Reset
  BY <1>2 DEF Reset, CompleteInv
<1>3. ASSUME NEW id \in Ids, Submit(id) PROVE CompleteInv'
  BY <1>3 DEF Submit, CompleteInv
<1>4. ASSUME NEW id \in Ids, SubmitRefused(id) PROVE CompleteInv'
  BY <1>4, RunsAfterRefusal DEF CompleteInv, Runs
<1>5. ASSUME NEW l \in loads, FenArrives(l) PROVE CompleteInv'
  BY <1>5, RunsAfterFen DEF CompleteInv, Runs
<1>6. ASSUME NEW l \in loads, FenFails(l) PROVE CompleteInv'
  BY <1>6, RunsAfterFailure DEF CompleteInv, Runs
<1>7. ASSUME NEW l \in loops, EvalArrives(l) PROVE CompleteInv'
  BY <1>7, UseStays, CompleteAfterEval
<1>8. ASSUME NEW l \in loops, EvalFails(l) PROVE CompleteInv'
  BY <1>8, UseStays DEF EvalFails, CompleteInv
<1>9. CASE UNCHANGED vars
  BY <1>9 DEF vars, pageVars, analysisVars, callVars, CompleteInv
<1> QED BY <1>1, <1>2, <1>3, <1>4, <1>5, <1>6, <1>7, <1>8, <1>9 DEF Next, Answers

\* When nothing is awaited any more and no request for an evaluation fails,
\* every move of the game that is loaded has one, whoever uses the page.
THEOREM EvaluationsGetComplete == Spec => []EvalsAreComplete
<1>1. Init => CompleteInv
  BY DEF Init, InitPage, CompleteInv
<1>2. EvalTypes /\ CompleteInv /\ [Next]_vars => CompleteInv'
  BY CompleteStep
<1>3. CompleteInv => EvalsAreComplete
  BY DEF CompleteInv, EvalsAreComplete, Waits
<1> QED BY <1>1, <1>2, <1>3, EvalTypesAlways, PTL DEF Spec

=============================================================================
