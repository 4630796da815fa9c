SPECIFICATION FairSpec
CONSTANTS
    Node = {n1, n2}
    Simulator = simulator
    Worker = {w1}
    None = none
    Kept = kept
    SimulatorCalls <- AllSimulatorCalls
    WorkerCalls = {"express", "goroutine"}
    MaxNested = 1
INVARIANTS
    PipelineExclusive
    RunsBound
    LeavesNothing
    DeadlockOnlyAbba
    CommandsExecuted
PROPERTY
    CallsReturn
CHECK_DEADLOCK FALSE
