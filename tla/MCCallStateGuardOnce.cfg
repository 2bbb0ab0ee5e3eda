SPECIFICATION Spec
CONSTANTS
    j1 = j1
    j2 = j2
    j3 = j3
    None = None
    MaxBacklog = 3
    Job <- MCTwoJobs
INVARIANTS
    RunsOnce
