SPECIFICATION FairSpec
CONSTANTS
    START <- NoMoves
    Apply <- Extended
    Fens <- AllFens
    None = None
    Null = Null
    MaxPly = 3
    Ids = {0, 1, 2, 3, 4}
    Games <- AllGames
    Uses <- AllUses
    MaxSubmits = 2
INVARIANTS
    TypeOK
    BoardShowsTheGame
    EvaluationIsOfTheMove
    PatientEvalsAreOfTheGame
    ListShowsTheGame
    OnlyThisMoveSelected
    EvalsAreComplete
PROPERTIES
    PlaysTheGame
    EverythingEnds
CHECK_DEADLOCK FALSE
