SPECIFICATION Spec

CONSTANTS
    c1 = c1
    c2 = c2
    d1 = d1
    d2 = d2
    d3 = d3
    p1 = p1
    p2 = p2
    None = None
    Nobody = None

    Users = {"ann"}
    Callers <- Two
    Keys = {"device"}
    Tokens <- Pair
    AttemptLimit = 2
    MaxPassword = 2
    MaxRestarts = 1

    Grantors = {"ann"}
    Clients = {"app"}
    Requesters <- Two
    Scopes = {"offline_access", "profile"}
    Offline = "offline_access"
    Handles <- OneToFour
    MaxRevocations = 1
    MaxStops = 1

    Holders <- Pair
    AccessTokens = {"token"}
    SshKeys = {"device"}
    Visitors <- Three
    MaxKeys = 2

    People = {"ann", "bob"}
    Crews = {"team"}
    Machines = {"bot"}
    Keeper = "ann"
    Resources = {1, 2}
    OwnerOf <- AnnThenBob
    Newer <- SecondIsNewer
    Requests <- Two
    Viewer = 1
    Operator = 2
    Admin = 3
    MaxWrites = 2

    Askers <- Two
    Unset = None
    Default <- Defaults
    Given <- Limits
    Sizes = {1, 3}
    MaxHeld = 6

    Pushers <- Two
    UploadIds = {"upload"}
    MaxPieces = 2
    Manifests = {"image"}
    Tags = {"latest"}
    Needs <- ImageNeedsBoth
    Absent = None
    MaxDeletions = 1
    MaxHalts = 1

    Addresses = {"address"}
    Uploads <- Three
    Contents <- Pair
    Nothing = None
    MaxCuts = 1

    Names = {"name"}
    Calls <- Three
    MaxRows = 2
    MaxVersion = 2
    MaxCalls = 4

    Sources <- Pair
    Fingerprints = {"print"}
    MaxReports = 4

    Checks <- Pair
    Persons = {"caller"}
    Kept = 1
    MaxLooks = 4
    MaxLost = 1

    Dbs = {"db"}
    Owners <- Two
    NoPassword = None
    MaxPasswords = 4
    MaxBreaks = 2

SYMMETRY Symmetry

INVARIANTS
    TypeOK
    ResetSignsOut
    AttemptsAreBounded
    ChainHasOneToken
    RevokedIsDropped
    RemovedOpensNothing
    RowsHaveFiles
    DigestTellsContents
    TaggedImagesPull
    PassedByFewOnly
    CountersAreHonest
    PasswordOpens

CHECK_DEADLOCK FALSE
