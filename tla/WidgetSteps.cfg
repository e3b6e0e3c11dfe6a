SPECIFICATION StepSpec
CONSTANT
    Files = 3
    Ranks = 2
    wP = wP
    bN = bN
    wB = wB
    Pieces = {wP, bN, wB}
    NoPiece = NoPiece
    START_POSITION <- GameStart
    Targets <- History
    MoveLists = {}
    Widths = {9}
    Points = {}
    Configs <- ViewerConfig
    MaxBatches = 5
    MaxQueue = 1
INVARIANT RestShowsPosition
PROPERTY PositionIsShown
CHECK_DEADLOCK FALSE
