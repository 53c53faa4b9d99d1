SPECIFICATION Spec

CONSTANTS
    Addresses = {"app"}
    Uploads = {"u1", "u2", "u3"}
    Contents = {"old", "new"}
    Nothing = Nothing
    MaxCuts = 0

INVARIANTS
    DownloadsCanBeChecked

CHECK_DEADLOCK FALSE
