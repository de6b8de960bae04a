SPECIFICATION FairSpec
CONSTANTS
    Runs = {r1}
    Assistant = {r1}
    MaxActive = 1
    Query = 1
    Answer = 2
    Excess = 1
    MaxLimit = 3
    Stalls = FALSE
PROPERTY InterruptedRunsEnd
\* With every run over and nothing reserved only the quota can still change.
CHECK_DEADLOCK FALSE
