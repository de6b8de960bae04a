SPECIFICATION FairSpec
CONSTANTS
    Builds = {b1}
    NoBuild = none
    Docs = {1}
    Workers = {w1, w2}
    Users = {u1, u2}
    Batches = 2
    MaxAttempts = 2
    Faults = {}
    MaxEvents = 3
    MaxTrouble = 3
INVARIANT NoLostWork
PROPERTY JobsSettle
\* The system is idle when every job is over.
CHECK_DEADLOCK FALSE
