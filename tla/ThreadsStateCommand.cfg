SPECIFICATION Spec
CONSTANT
    MaxEvents = 3
    MaxResets = 1
INVARIANT StateCommandIsCurrent
CHECK_DEADLOCK FALSE
