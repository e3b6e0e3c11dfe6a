------------------------------ MODULE MCGames -------------------------------
(***************************************************************************)
(* Games for the viewer: a position is the sequence of moves that led to   *)
(* it, so that no two ways of playing are confused.  null stands for the   *)
(* entry of an illegal move.                                               *)
(***************************************************************************)
EXTENDS Integers, Sequences, TLC

\* What the service answers for the moves of a game; each fen stands for the
\* moves so far, and their number.
Answer(moves, illegal, null) ==
    [k \in DOMAIN moves |->
        IF k \in illegal THEN null
        ELSE [ply |-> k, fen |-> SubSeq(moves, 1, k), move |-> moves[k]]]

\* Two games that begin alike, one longer than the other.
Legal(null) ==
    (1 :> Answer(<<"a", "b", "c">>, {}, null)) @@ (2 :> Answer(<<"a", "d">>, {}, null))

\* In a third, as in the first of the second pair, the analysis takes a move
\* for illegal; of a fourth it leaves none.
WithIllegal(null) ==
    Legal(null) @@ (3 :> Answer(<<"a", "b", "e">>, {2}, null))
                @@ (4 :> Answer(<<"f">>, {1}, null))
Castled(null) ==
    (1 :> Answer(<<"a", "b", "c">>, {2}, null)) @@ (2 :> Answer(<<"a", "d">>, {}, null))

FensOf(games, null) ==
    UNION {{games[g][i] : i \in DOMAIN games[g]} : g \in DOMAIN games} \ {null}

NoMoves == <<>>
Extended(pos, move) == Append(pos, move)

=============================================================================
