SPECIFICATION Spec

CONSTANTS
    People = {"ann", "bob"}
    Slugs = {"slug"}
    Calls = {"c1", "c2"}
    Roles = {"developer", "owner"}
    Nobody = Nobody
    MaxCrossings = 1

INVARIANTS
    AGroupKeepsAnOwner

CHECK_DEADLOCK FALSE
