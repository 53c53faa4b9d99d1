SPECIFICATION Spec

CONSTANTS
    c1 = c1
    c2 = c2
    c3 = c3
    p1 = p1
    p2 = p2
    None = None
    Nobody = None

    People <- Pair
    Slugs = {"slug"}
    Askers <- Two
    Roles = {"developer", "maintainer", "owner"}
    MaxCrossings = 1

    Publishers <- Two
    Heads <- Pair
    NoDir = None
    MaxKills = 1

    Apps <- Pair
    AppCalls <- Two
    Ports = {80}
    NoRow = NoRow
    Gone = None
    NoId = NoBox
    NoPort = 0
    MaxRuns = 1
    MaxFaults = 1

    RoutedCalls = {"caller"}
    MaxRouted = 2
    Names = {"route"}
    Hops = {"hop"}
    Outside = "address"
    NoRoute = None

    Spaces = {"space"}
    Tasks <- Two
    NotYet = NoRow
    Removed = None
    NoBox = NoBox
    Links = {2}
    Unexported = {3}
    MaxWork = 3
    MaxBoxes = 2
    MaxTroubles = 1

    Branches = {"main"}
    Default = "main"
    Requests <- Two
    MaxCommits = 2
    MaxUpsets = 1

    Projects <- Pair
    Callers <- Three
    MaxCuts = 1

    Takers <- Two
    Tips <- Pair
    Nil = None
    MaxRows = 2
    MaxMoves = 2

    Members = {"ann", "bob"}
    Managers = {"ann"}
    Titles = {"old", "new"}
    NoTime = None
    MaxNumber = 2
    MaxChanges = 3

    Comments = {"comment"}
    Appliers <- Two
    Lines = {"", "new"}
    Blank = ""
    Replacements <- Bodies
    MaxLines = 2
    MaxSuggested = 3

    Secrets <- Pair
    Scanners <- Two
    MaxPushes = 2
    MaxDecisions = 1

CONSTRAINT FewThings

SYMMETRY Symmetry

INVARIANTS
    TypeOK
    AddressesAndProjectsAreKept
    SiteIsWhole
    RowTellsEngine
    WorkIsNotUndone
    SweepSparesTheLiving
    TipsAreTold
    AnsweredIsEnforced
    RowHasRepository
    FindingsAreKept

CHECK_DEADLOCK FALSE
