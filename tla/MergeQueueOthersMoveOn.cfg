SPECIFICATION FairSpec

CONSTANTS
    main = main
    main2 = main2
    s1 = s1
    s2 = s2
    r1 = r1
    r2 = r2
    p1 = p1
    p2 = p2
    alice = alice
    bob = bob
    lint = lint

    Requests = {r1, r2}
    Branches = {main, main2, s1, s2}
    Projects = {p1, p2}
    Users = {alice}
    JobNames = {}
    ProjectOf <- OneEach
    Source <- Sources
    FirstTarget <- OneMainEach
    Author <- ByAlice
    Protected = {main, main2}
    FirstTip <- FourBranches
    Changes <- MCChanges
    Config <- FirstBroken
    Jobs <- NoJobs
    Required = 0
    OwnerGroups <- NobodyOwns
    MaxEntries = 2
    MaxUpsets = 0

PROPERTIES
    OthersMoveOn

CHECK_DEADLOCK FALSE
