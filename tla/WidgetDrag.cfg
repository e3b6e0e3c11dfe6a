SPECIFICATION DragSpec
CONSTANT
    Files = 2
    Ranks = 1
    wP = wP
    bN = bN
    wB = wB
    Pieces = {wP, bN}
    NoPiece = NoPiece
    START_POSITION <- Placed
    Targets = {}
    MoveLists <- Takes
    Widths = {3, 5}
    Points <- DragPoints
    Configs <- DragConfigs
    MaxBatches = 1
    MaxQueue = 2
INVARIANTS
    TypeOK RestShowsPosition DraggedPieceIsSeen
PROPERTY DragsKeepPieces
VIEW DragView
