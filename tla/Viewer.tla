------------------------------- MODULE Viewer -------------------------------
(***************************************************************************)
(* The page with the functions that wait for the analysis service: getFen, *)
(* which fetches the moves of a game, and updateEvals, which then fetches  *)
(* the evaluations one after the other (geteval.ts, and the submit handler *)
(* of the page).                                                           *)
(*                                                                         *)
(* Between a request and its answer the user may click anything.  A call   *)
(* that waits is a record in loads or in loops; its steps are those from   *)
(* one await to the next.  An answer and its body are awaited in turn, but *)
(* nothing is read or written in between: they are one answer here.        *)
(***************************************************************************)
EXTENDS GamePage, FiniteSetsExt, SequencesExt

CONSTANTS
    Ids,              \* what the user may select
    Games,            \* games of the service: id -> what /games/fen/id answers
    Null,             \* an entry for an illegal move
    Uses,             \* pages, users and services there are, see use
    MaxSubmits        \* bound: submits

\* The fens of a game: getFen takes the entries for illegal moves out.
AnswerOf(id) == SelectSeq(Games[id], LAMBDA f : f # Null)

MovesOf(answer) == [i \in DOMAIN answer |-> answer[i].move]

ASSUME ViewerAssumption ==
    /\ Ids \subseteq Int
    /\ DOMAIN Games \subseteq Int
    /\ \A id \in DOMAIN Games : Games[id] \in Seq(Fens \union {Null})
    /\ Null \notin Fens
    /\ \A id \in DOMAIN Games :
            AnswerOf(id) \in Seq(Fens) /\ Len(AnswerOf(id)) <= MaxPly
    /\ Uses \subseteq [submitDisabled : BOOLEAN, waitsToPlay : BOOLEAN,
                       waitsForEvals : BOOLEAN, evalsFail : BOOLEAN]
    /\ MaxSubmits \in Nat

VARIABLES
    use,       \* how the page is used: is item[1] the submit button (index.html)
               \* and not a list, does the user click nothing else while a game
               \* is loading, and submit only when no evaluation is awaited,
               \* may /fen/eval fail
    loads,     \* calls of getFen that wait: [call, id]
    loops,     \* calls of updateEvals that wait: [call, todo]
    submits    \* submits so far

callVars == <<loads, loops, submits>>
vars == <<use, pageVars, callVars>>

-----------------------------------------------------------------------------
(* updateEvals *)

\* The number of fens at the front whose evaluation is known: the loop gets
\* over them without waiting.
Hits(todo, dict) ==
    Max({n \in 0..Len(todo) : \A i \in 1..n : todo[i].fen \in DOMAIN dict})

\* The evaluations known to dict for the first n fens, entered by ply.
\* Mutant: by place in the list of those fetched.
NotedByPlace(list, todo, n, dict) ==
    [p \in Plies |-> IF p \in 1..n THEN dict[todo[p].fen] ELSE list[p]]

Noted(list, todo, n, dict) ==
    [p \in Plies |->
        LET I == {i \in 1..n : todo[i].ply = p}
        IN  IF I = {} THEN list[p] ELSE dict[todo[CHOOSE i \in I : TRUE].fen]]

\* Mutant: a fen whose evaluation is known ends the loop.
ContinueStops(call, todo, dict, list, others) ==
    LET n == Hits(todo, dict)
    IN  /\ evals' = Noted(list, todo, n, dict)
        /\ loops' = others \union (IF n > 0 \/ todo = <<>> THEN {}
                                   ELSE {[call |-> call, todo |-> todo]})

\* The loop runs from todo to the next request, or to its end.  It works on
\* the list of fens it began with, but on the evals there are by now.
Continue(call, todo, dict, list, others) ==
    LET n == Hits(todo, dict)
    IN  /\ evals' = Noted(list, todo, n, dict)
        /\ loops' = others \union
                (IF n = Len(todo) THEN {}
                 ELSE {[call |-> call, todo |-> SubSeq(todo, n + 1, Len(todo))]})

\* dict with the evaluation of f, filed under its fen.
Filed(f, dict) ==
    [fen \in DOMAIN dict \union {f.fen} |->
        IF fen = f.fen THEN [ply |-> f.ply, of |-> f.fen] ELSE dict[fen]]

\* The evaluation of the fen that call l waits for.
EvalArrives(l) ==
    LET f == Head(l.todo)
        dict == Filed(f, evals_dict)
    IN  /\ evals_dict' = dict
        /\ Continue(l.call, l.todo, dict, evals, loops \ {l})
        /\ UNCHANGED <<move_array, fens, selected_id, disabled, playVars,
                       listVars, tableVars, clicks, loads, submits>>

\* A request fails, or its answer cannot be used: the loop is left.
EvalFails(l) ==
    /\ use.evalsFail
    /\ loops' = loops \ {l}
    /\ UNCHANGED <<pageVars, loads, submits>>

-----------------------------------------------------------------------------
(* The form, and getFen *)

\* The end of getFen(l.id), and what submit does after it: updateEvals begins
\* with the fens there are.
Loaded(call, newFens) ==
    /\ disabled' = FALSE
    /\ Continue(call, newFens, evals_dict, evals, loops)

FenArrives(l) ==
    /\ l.id \in DOMAIN Games
    /\ loads' = loads \ {l}
    /\ fens' = AnswerOf(l.id)
    /\ PopulateMoveArray(MovesOf(fens'))
    /\ PopulateMovesTable(MovesOf(fens'))
    /\ Loaded(l.call, fens')
    /\ UNCHANGED <<evals_dict, selected_id, playVars, tableVars, clicks, submits>>

\* Mutant: the error is not caught.
FenFailsUncaught(l) ==
    /\ loads' = loads \ {l}
    /\ UNCHANGED <<pageVars, loops, submits>>

\* The request fails, or there is no such game; the error is caught in getFen,
\* and updateEvals runs over the game before.
FenFails(l) ==
    /\ loads' = loads \ {l}
    /\ Loaded(l.call, fens)
    /\ UNCHANGED <<move_array, fens, evals_dict, selected_id, playVars, listVars,
                   tableVars, clicks, submits>>

\* The form is submitted.  The moves of the game before stay in move_array
\* until those of this one arrive.
Submit(id) ==
    /\ submits < MaxSubmits
    /\ use.submitDisabled => ~disabled
    /\ use.waitsForEvals => loops = {}
    /\ id > 0
    /\ Restart
    /\ submits' = submits + 1
    /\ selected_id' = id
    /\ disabled' = TRUE
    /\ loads' = loads \union {[call |-> submits', id |-> id]}
    /\ UNCHANGED <<move_array, loops>>

\* getFen refuses the id, nothing is awaited: updateEvals runs at once.
SubmitRefused(id) ==
    /\ clicks = 0
    /\ submits < MaxSubmits
    /\ use.submitDisabled => ~disabled
    /\ use.waitsForEvals => loops = {}
    /\ id <= 0
    /\ positions' = <<>> /\ index' = 0 /\ board' = START
    /\ DeleteMoves
    /\ ClearEvalTbl
    /\ submits' = submits + 1
    /\ selected_id' = id
    /\ disabled' = FALSE
    /\ Continue(submits', fens, evals_dict, NoEvals, loops)
    /\ UNCHANGED <<move_array, fens, evals_dict, clicks, loads>>

-----------------------------------------------------------------------------
MayPlay == use.waitsToPlay => loads = {}

Answers ==
    /\ clicks = 0
    /\ \/ \E l \in loads : FenArrives(l) \/ FenFails(l)
       \/ \E l \in loops : EvalArrives(l) \/ EvalFails(l)

Init == InitPage /\ use \in Uses /\ loads = {} /\ loops = {} /\ submits = 0

Next ==
    /\ \/ MayPlay /\ Play /\ UNCHANGED callVars
       \/ Reset /\ UNCHANGED callVars
       \/ \E id \in Ids : Submit(id) \/ SubmitRefused(id)
       \/ Answers
    /\ UNCHANGED use

Spec == Init /\ [][Next]_vars

\* A script that runs ends; every request is answered or fails in the end, and
\* clicks do not overtake the answers for ever: strong fairness, as no answer is
\* taken while jumpToMove clicks.
FairSpec ==
    /\ Spec
    /\ WF_vars(clicks # 0 /\ Play /\ UNCHANGED <<use, callVars>>)
    /\ SF_vars(Answers /\ UNCHANGED use)

-----------------------------------------------------------------------------
(* What a user who waits for games to load sees is a player of games. *)

Player == INSTANCE GamePlayer WITH
            game <- IF use.waitsToPlay THEN move_array ELSE <<>>,
            cursor <- IF use.waitsToPlay THEN index ELSE 0,
            shown <- IF use.waitsToPlay THEN board ELSE START,
            Library <- {MovesOf(AnswerOf(id)) : id \in DOMAIN Games}

-----------------------------------------------------------------------------
(* Properties *)

\* Values are what the script expects: among them that a position has been
\* remembered for every move that can be taken back, which the previous
\* button relies on.
TypeOK ==
    /\ use \in Uses
    /\ \A i \in DOMAIN fens : fens[i] \in Fens
    /\ Len(move_array) <= MaxPly /\ index <= Len(positions)
    /\ evals \in [Plies -> Evaluations \union {None}]
    /\ \A l \in loops : l.todo # <<>> /\ \A i \in DOMAIN l.todo : l.todo[i] \in Fens
    /\ selected \subseteq Plies /\ shown \in Evaluations \union {None}

BoardIsOfTheGame ==
    /\ index <= Len(move_array)
    /\ positions # <<>> => positions[1] = START
    /\ \A i \in 1..(Len(positions) - 1) :
            positions[i + 1] = Apply(positions[i], move_array[i])
    /\ board = IF index = 0 THEN START
               ELSE Apply(positions[index], move_array[index])

\* If the user waits for games to load before stepping through them: the board
\* shows the game as it is after the first index moves, and so does every
\* position kept for the previous button: each is the one before it with the
\* move between them made.  (Index.cshtml:245-297: positions is filled on the
\* way forward and read on the way back, and survives everything but a submit
\* and a reset.)
BoardShowsTheGame == use.waitsToPlay => BoardIsOfTheGame

\* The page is a player of games: whatever it keeps of the way and awaits from
\* the service, each step of it opens a game, or goes forward, back, or to the
\* start of the one that is open; a jump is a number of such steps.
PlaysTheGame == Player!Spec

ListIsOfTheGame == movestable = <<>> \/ movestable = Rows(move_array)

\* If the form cannot be submitted while a game is loading:
\* the list of moves is empty (while a game is loading, or after a failure)
\* or lists the moves that the buttons make, however the user clicks
\* meanwhile.  (geteval.ts:108-136: rows are appended.)
ListShowsTheGame == use.submitDisabled => ListIsOfTheGame

\* No cell but that of the move last made is seen selected; that of the first
\* move may keep its class behind a white background.
OnlyThisMoveSelected ==
    LET seen == IF whitened THEN selected \ {1} ELSE selected
    IN  seen \subseteq {index}

\* A user who waits for the game to load, and then for its evaluations before
\* loading another.
Patient == use.waitsToPlay /\ use.waitsForEvals /\ use.submitDisabled

\* What the table shows a patient user belongs to the position on the board: it
\* is the evaluation of the fen after the move last made, with its ply, as long
\* as the game has no illegal move, whose entry shifts the others.
\* (geteval.ts:262-306; the list of evaluations is filled in the background.)
EvaluationIsOfTheMove ==
    Patient /\ shown # None /\ (\A i \in DOMAIN fens : fens[i].ply = i) =>
        /\ index \in DOMAIN fens
        /\ shown.of = fens[index].fen
        /\ counter = index

\* Every evaluation in the list is of the game that is loaded ...
EvalsAreOfTheGame ==
    \A p \in Plies : evals[p] # None =>
        \E i \in DOMAIN fens : fens[i].ply = p /\ fens[i].fen = evals[p].of

\* ... if the user is patient, whatever has been reset or could not be loaded.
PatientEvalsAreOfTheGame == Patient => EvalsAreOfTheGame

\* When nothing is awaited and no evaluation has failed, every move of the game
\* has its evaluation, also after games were loaded over one another; a reset
\* alone leaves gaps.
EvalsAreComplete ==
    (loads = {} /\ loops = {} /\ move_array # <<>> /\ ~use.evalsFail) =>
        \A i \in DOMAIN fens : evals[fens[i].ply] # None

\* What is under way ends, and the form can be used again after every submit,
\* whatever fails: the answers do not keep one another waiting, no click is left
\* to be made, and the submit button is not left disabled.
Idle == loads = {} /\ loops = {} /\ clicks = 0 /\ ~disabled
EverythingEnds == ~Idle ~> Idle

=============================================================================
