SPECIFICATION Spec

CONSTANTS
    p1 = p1
    p2 = p2
    m1 = m1
    m2 = m2

    AllPipelines = {p1, p2}
    AllJobs <- MCJobs
    PipelineOf <- MCPipelineOf
    Stage <- MCStage
    Runners = {m1, m2}
    Serves <- MCServes
    None = None
    MaxUpsets = 2

INVARIANTS
    TypeOK
    OneRunnerPerJob
    StagesInOrder
    NothingWaitsWhenFinished
    GreenWasEarned
PROPERTIES
    LivesAsPromised

CHECK_DEADLOCK FALSE
