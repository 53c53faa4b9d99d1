SPECIFICATION Spec

CONSTANTS
    main = main
    main2 = main2
    s1 = s1
    s2 = s2
    r1 = r1
    r2 = r2
    p1 = p1
    p2 = p2
    alice = alice
    bob = bob
    lint = lint

    Requests = {r1}
    Branches = {main, s1}
    Projects = {p1}
    Users = {alice, bob}
    JobNames = {}
    ProjectOf <- OneRequest
    Source <- OneSource
    FirstTarget <- OneOnMain
    Author <- OneByAlice
    Protected = {main}
    FirstTip <- OneBranch
    Changes <- MCChanges
    Config <- OneWithJobs
    Jobs <- OneNoJobs
    Required = 1
    OwnerGroups <- OneOwnedByBob
    MaxEntries = 2
    MaxUpsets = 2

PROPERTIES
    ApprovedIsWhatIsBuilt

CHECK_DEADLOCK FALSE
