SPECIFICATION Spec
CONSTANTS
    START <- NoMoves
    Apply <- Extended
    Fens <- AllFens
    None = None
    Null = Null
    MaxPly = 3
    Ids = {0, 1, 2, 3}
    Games <- AllGames
    Uses <- WaitingForGames
    MaxSubmits = 2
INVARIANTS
    EvalsAreOfTheGame
CHECK_DEADLOCK FALSE
