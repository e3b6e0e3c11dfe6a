SPECIFICATION FairSpec
CONSTANT
    MaxEvents = 6
    MaxResets = 3
INVARIANT ThreadsTypeOK HandledInOrder PromptIsCurrent
PROPERTY EveryEventIsHandled
CHECK_DEADLOCK FALSE
