SPECIFICATION Spec
CONSTANTS
    START <- NoMoves
    Apply <- Extended
    Fens <- FensOfCastled
    None = None
    Null = Null
    Hole = Hole
    MaxPly = 3
    Ids = {0, 1, 2, 3}
    Games <- CastledGames
    MaxSubmits = 2
PROPERTY DoesWhatIsWritten
CHECK_DEADLOCK FALSE
