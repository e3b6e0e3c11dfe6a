SPECIFICATION MCSpec
CONSTANT
    Pins <- AllHands
    U8 = 8
CONSTRAINT PlyBound OnTrack
INVARIANT OccupancyTracked
