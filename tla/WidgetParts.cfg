SPECIFICATION PartsSpec
CONSTANT
    Files = 3
    Ranks = 2
    Pieces = {"wP", "bP"}
    PieceOf <- Letters
    MaxPieces = 3
    Keys = {"1", "2", "3", "P", "p"}
    MaxLength = 7
    Interval = 4
    MaxCalls = 5
INVARIANT AnimationsReachTarget MovesKeepPieces
INVARIANT AcceptsExactlyTheBoard TextDeterminesPosition
PROPERTY OncePerInterval LastCallArrives
CHECK_DEADLOCK FALSE
