SPECIFICATION FairScenes

CONSTANTS
    Messages = {"hello"}
    Consumers = {"reader", "other"}
    Nobody = Nobody
    MaxAttempts = 2
    MaxUpsets = 2

INVARIANTS
    TypeOK
    Somewhere
PROPERTIES
    EveryMessageEnds
    LineDrains
    RunsEnd

CHECK_DEADLOCK FALSE
