SPECIFICATION Spec
CONSTANTS
    Builds = {b1, b2}
    NoBuild = none
    Docs = {1, 2}
    Workers = {w1, w2}
    Users = {u1, u2}
    Batches = 2
    MaxAttempts = 2
    Faults = {"connect", "writeback", "broker"}
    MaxEvents = 3
    MaxTrouble = 3
SYMMETRY Symmetric
INVARIANT TypeOK
INVARIANT CompletedMeansReady
INVARIANT ItemListsAgree
PROPERTY KeepsOutcomes
PROPERTY StepsOfLifecycle
PROPERTY FinishedItemsKept
\* The system is idle when every job is over.
CHECK_DEADLOCK FALSE
