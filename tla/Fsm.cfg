SPECIFICATION MCSpec
CONSTANT
    Pins <- AllHands
    U8 = 4
CONSTRAINT PlyBound
INVARIANT TypeOK KingHome HeldPieces RecordMatchesBoard
PROPERTY NoPieceAppears ImplementsAtomicGame
