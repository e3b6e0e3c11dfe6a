------------------------------ MODULE MCViewer ------------------------------
(***************************************************************************)
(* The viewer with the games of MCGames, and four ways it is used.        *)
(***************************************************************************)
EXTENDS Viewer, MCGames

AllGames == WithIllegal(Null)
AllFens == FensOf(AllGames, Null)

Use(submitDisabled, toPlay, forEvals, fail) ==
    [submitDisabled |-> submitDisabled, waitsToPlay |-> toPlay,
     waitsForEvals |-> forEvals, evalsFail |-> fail]

\* A patient user of index.html; one who clicks anything at any time; any user
\* of Index.cshtml, whose form can be submitted again and again, where requests
\* for evaluations fail or not.
AllUses == {Use(TRUE, TRUE, TRUE, FALSE), Use(TRUE, FALSE, FALSE, FALSE),
            Use(FALSE, FALSE, FALSE, TRUE),
            Use(FALSE, FALSE, FALSE, FALSE)}

\* A user who waits for games, not for evaluations.
WaitingForGames == {Use(TRUE, TRUE, FALSE, FALSE)}

=============================================================================
