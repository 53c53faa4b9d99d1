SPECIFICATION Spec

CONSTANTS
    Messages = {"m"}
    Consumers = {"c1", "c2"}
    Nobody = Nobody
    MaxAttempts = 2
    MaxUpsets = 0

INVARIANTS
    AcknowledgedNeverComesBack

CHECK_DEADLOCK FALSE
