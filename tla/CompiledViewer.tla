--------------------------- MODULE CompiledViewer ---------------------------
(***************************************************************************)
(* The page with geteval.js, what the compiler makes of geteval.ts for a   *)
(* language without async functions: a function that awaits is a switch    *)
(* over labels, driven by __generator, a machine that keeps the label and  *)
(* the enclosing try statements, and by __awaiter, which has the machine   *)
(* continue when a promise is settled.                                     *)
(*                                                                         *)
(* An instruction is a pair: 0 next, 1 throw, 2 return, 3 break, 4 yield,  *)
(* 6 caught; 5 (yield* ) is not used by these functions.  A step of a call *)
(* is the machine running to its next yield, or to its end.                *)
(***************************************************************************)
EXTENDS GamePage, FiniteSets, SequencesExt, TLC

CONSTANTS
    Ids, Games, Null, MaxSubmits,    \* as in Viewer
    Hole                             \* a hole in an array

VARIABLES
    calls,     \* machines that wait: call number -> [fn, machine]
    submits    \* submits so far

vars == <<pageVars, calls, submits>>

\* What the functions read and write besides their own variables.
Globals == [fens |-> fens, move_array |-> move_array, movestable |-> movestable,
            evals |-> evals, evals_dict |-> evals_dict]

-----------------------------------------------------------------------------
(* The functions: what the switch does from a label on, sent being the     *)
(* instruction that sent() looks at.  m is the machine, with the globals.  *)

Op(m, op) == [m |-> m, op |-> op]
Throw(m) == Op(m, <<6, "error">>)
PushTry(m, try) == [m EXCEPT !.trys = Append(@, try)]

GetFen(m, sent) ==
    CASE m.label \in {0, 1} ->
            LET t == [PushTry(m, <<1, 4, Hole, 5>>) EXCEPT !.label = 1]
            IN  IF m.id <= 0 THEN Throw(t) ELSE Op(t, <<4, "fetch">>)
      [] m.label = 2 ->
            IF sent # <<0, "ok">> \/ m.id \notin DOMAIN Games THEN Throw(m)
            ELSE Op(m, <<4, "json">>)
      [] m.label = 3 ->
            IF sent[1] = 1 THEN Throw(m)
            ELSE LET answer == SelectSeq(Games[m.id], LAMBDA f : f # Null)
                     moves == [i \in DOMAIN answer |-> answer[i].move]
                 IN  Op([m EXCEPT !.glob.fens = answer,
                                  !.glob.move_array = moves,
                                  !.glob.movestable = @ \o Rows(moves)], <<3, 5>>)
      [] m.label = 4 -> Op(m, <<3, 5>>)
      [] m.label = 5 -> Op(m, <<2, None>>)

RECURSIVE UpdateEvals(_, _)
UpdateEvals(m, sent) ==
    LET f == m.fens_1[m.i + 1]
        from(n, m2) == UpdateEvals([m2 EXCEPT !.label = n], sent)
    IN  CASE m.label \in {0, 1} ->
                from(2, [PushTry(m, <<1, 9, Hole, 10>>)
                            EXCEPT !.i = 0, !.fens_1 = m.glob.fens])
          [] m.label = 2 ->
                Op(m, <<3, IF m.i >= Len(m.fens_1) THEN 8
                           ELSE IF f.fen \in DOMAIN m.glob.evals_dict THEN 6 ELSE 3>>)
          [] m.label = 3 -> Op(m, <<4, "fetch">>)
          [] m.label = 4 ->
                IF sent # <<0, "ok">> THEN Throw(m) ELSE Op(m, <<4, "json">>)
          [] m.label = 5 ->
                IF sent[1] = 1 THEN Throw(m)
                ELSE from(6, [m EXCEPT !.glob.evals_dict =
                                (f.fen :> [ply |-> f.ply, of |-> f.fen]) @@ @])
          [] m.label = 6 ->
                from(7, [m EXCEPT !.glob.evals[f.ply] = m.glob.evals_dict[f.fen]])
          [] m.label = 7 -> Op([m EXCEPT !.i = @ + 1], <<3, 2>>)
          [] m.label \in {8, 9} -> Op(m, <<3, 10>>)
          [] m.label = 10 -> Op(m, <<2, None>>)

Body(fn, m, sent) == IF fn = "getFen" THEN GetFen(m, sent) ELSE UpdateEvals(m, sent)

-----------------------------------------------------------------------------
(* __generator *)

\* Mutant: what is thrown at the last label before the handler is not caught.
CatchesShort(m, try) == m.label < try[2] - 1

\* What is thrown at the label of m is caught by the try statement.
Catches(m, try) == m.label < try[2]

\* A break to label n leads out of the try statement: not to its first label,
\* nor to the one after its last.
LeavesTry(n, try) == n <= try[1] \/ n >= try[4]

HasFinally(m, try) == try[3] # Hole /\ m.label < try[3]

\* The loop of step(op): the machine at its next yield, or at its end.
RECURSIVE Step(_, _, _)
Step(fn, m, op) ==
    LET run(m2, sent) == LET r == Body(fn, m2, sent) IN Step(fn, r.m, r.op)
        inTry == m.trys # <<>>
        try == Last(m.trys)
        left == [m EXCEPT !.trys = Front(@),
                          !.ops = IF try[3] # Hole THEN Front(@) ELSE @]
    IN  CASE op[1] \in {0, 1} -> run(m, op)
          [] op[1] = 4 -> [m |-> [m EXCEPT !.label = @ + 1], ended |-> "no"]
          [] op[1] = 7 -> Step(fn, [m EXCEPT !.ops = Front(@), !.trys = Front(@)], Last(m.ops))
          [] op[1] \in {2, 6} /\ ~inTry ->
                [m |-> m, ended |-> IF op[1] = 6 THEN "thrown" ELSE "returned"]
          [] op[1] = 3 /\ (~inTry \/ ~LeavesTry(op[2], try)) ->
                run([m EXCEPT !.label = op[2]], op)
          [] op[1] = 6 /\ inTry /\ Catches(m, try) ->
                run([m EXCEPT !.label = try[2]], op)
          [] OTHER ->
                IF HasFinally(m, try)
                THEN run([m EXCEPT !.label = try[3], !.ops = Append(@, op)], op)
                ELSE Step(fn, left, op)

-----------------------------------------------------------------------------
(* __awaiter, and the submit handler *)

\* A machine before its first step.
Machine(id, glob) ==
    [label |-> 0, trys |-> <<>>, ops |-> <<>>, id |-> id, i |-> 0,
     fens_1 |-> <<>>, glob |-> glob]

SetGlobals(g) ==
    /\ fens' = g.fens /\ move_array' = g.move_array /\ movestable' = g.movestable
    /\ evals' = g.evals /\ evals_dict' = g.evals_dict

\* Call c has run to r; others are the calls that wait besides.  When getFen
\* has returned, submit enables the form and calls updateEvals.
Ran(c, fn, r, others, isDisabled) ==
    LET u == IF fn = "getFen" /\ r.ended = "returned"
             THEN Step("updateEvals", Machine(r.m.id, r.m.glob), <<0, None>>)
             ELSE r
        now == IF u = r THEN fn ELSE "updateEvals"
    IN  /\ calls' = IF u.ended = "no"
                    THEN (c :> [fn |-> now, machine |-> [u.m EXCEPT !.glob = None]]) @@ others
                    ELSE others
        /\ SetGlobals(u.m.glob)
        /\ disabled' = (isDisabled /\ u = r)

\* What promises can be settled with: an answer, perhaps with an error status,
\* then its body; each may fail.
Outcomes(m) ==
    {<<0, "ok">>, <<1, "rejected">>}
        \union (IF m.label \in {2, 4} THEN {<<0, "error status">>} ELSE {})

\* A promise that call c waits for is settled: next or throw.
Settled(c, outcome) ==
    /\ clicks = 0
    /\ Ran(c, calls[c].fn,
           Step(calls[c].fn, [calls[c].machine EXCEPT !.glob = Globals], outcome),
           [d \in DOMAIN calls \ {c} |-> calls[d]], disabled)
    /\ UNCHANGED <<selected_id, playVars, selected, whitened, tableVars, clicks, submits>>

Submit(id) ==
    /\ clicks = 0
    /\ submits < MaxSubmits
    /\ submits' = submits + 1
    /\ selected_id' = id
    /\ positions' = <<>> /\ index' = 0 /\ board' = START
    /\ selected' = {} /\ whitened' = FALSE
    /\ ClearEvalTbl
    /\ Ran(submits', "getFen",
           Step("getFen",
                Machine(id, [Globals EXCEPT !.evals = NoEvals, !.movestable = <<>>]),
                <<0, None>>),
           calls, TRUE)
    /\ UNCHANGED clicks

Init == InitPage /\ calls = [c \in {} |-> None] /\ submits = 0

Next ==
    \/ Play /\ UNCHANGED <<calls, submits>>
    \/ Reset /\ UNCHANGED <<calls, submits>>
    \/ \E id \in Ids : Submit(id)
    \/ \E c \in DOMAIN calls : \E o \in Outcomes(calls[c].machine) : Settled(c, o)

Spec == Init /\ [][Next]_vars

-----------------------------------------------------------------------------
(* The functions as they were written *)

Waiting(fn) == {c \in DOMAIN calls : calls[c].fn = fn}

\* The page of Index.cshtml, whose submit button is not disabled, and any user.
AnyUse == [submitDisabled |-> FALSE, waitsToPlay |-> FALSE, waitsForEvals |-> FALSE,
           evalsFail |-> TRUE]

AsWritten == INSTANCE Viewer WITH
    Uses <- {AnyUse}, use <- AnyUse,
    loads <- {[call |-> c, id |-> calls[c].machine.id] : c \in Waiting("getFen")},
    loops <- {[call |-> c,
               todo |-> LET m == calls[c].machine
                        IN  SubSeq(m.fens_1, m.i + 1, Len(m.fens_1))]
                : c \in Waiting("updateEvals")}

\* The compiled functions do what those of geteval.ts do, with any number of
\* calls under way, whatever fails at whichever await: the labels, the breaks
\* and the stack of try statements come to what loop and catch say.
DoesWhatIsWritten == AsWritten!Spec

=============================================================================
