SPECIFICATION Spec
CONSTANTS
    Builds = {b1}
    NoBuild = none
    Docs = {1}
    Workers = {w1, w2}
    Users = {u1}
    Batches = 1
    MaxAttempts = 2
    Faults = {}
    MaxEvents = 2
    MaxTrouble = 2
PROPERTY LateWorkerRejected
\* The system is idle when every job is over.
CHECK_DEADLOCK FALSE
