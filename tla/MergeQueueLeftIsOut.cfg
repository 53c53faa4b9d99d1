SPECIFICATION Spec

CONSTANTS
    main = main
    main2 = main2
    s1 = s1
    s2 = s2
    r1 = r1
    r2 = r2
    p1 = p1
    p2 = p2
    alice = alice
    bob = bob
    lint = lint

    Requests = {r1, r2}
    Branches = {main, s1, s2}
    Projects = {p1}
    Users = {alice}
    JobNames = {}
    ProjectOf <- TwoInOne
    Source <- Sources
    FirstTarget <- BothOnMain
    Author <- ByAlice
    Protected = {main}
    FirstTip <- SideBySide
    Changes <- MCChanges
    Config <- WithJobs
    Jobs <- NoJobs
    Required = 0
    OwnerGroups <- NobodyOwns
    MaxEntries = 2
    MaxUpsets = 2

PROPERTIES
    LeftIsOut

CHECK_DEADLOCK FALSE
