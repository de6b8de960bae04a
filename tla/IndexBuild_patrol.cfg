SPECIFICATION FairSpec
CONSTANTS
    Builds = {b1}
    NoBuild = none
    Docs = {1}
    Workers = {w1}
    Users = {u1}
    Batches = 1
    MaxAttempts = 2
    Faults = {"writeback"}
    MaxEvents = 1
    MaxTrouble = 2
PROPERTY PatrolRecovers
\* The system is idle when every job is over.
CHECK_DEADLOCK FALSE
