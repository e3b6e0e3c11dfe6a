SPECIFICATION FairSpec
CONSTANT
    QueueLength = 2
    Plies = {1}
    NEW_GAME = NEW_GAME
    GARBLED = GARBLED
    AUTH_TOKEN_GET = AUTH_TOKEN_GET
    None = None
    MaxMessages = 4
INVARIANT GatewayTypeOK MovesOfTheirGame CarriedOutInOrder NothingDisappears
PROPERTY GameNeverGoesBack PipelineEmpties
