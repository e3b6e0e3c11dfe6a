-------------------------- MODULE MCCompiledViewer --------------------------
(***************************************************************************)
(* The compiled viewer with the games of MCGames.                          *)
(***************************************************************************)
EXTENDS CompiledViewer, MCGames

CastledGames == Castled(Null)
FensOfCastled == FensOf(CastledGames, Null)

=============================================================================
