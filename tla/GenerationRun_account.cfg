SPECIFICATION Spec
CONSTANTS
    Runs = {r1, r2}
    Assistant = {r2}
    MaxActive = 2
    Query = 1
    Answer = 1
    Excess = 1
    MaxLimit = 2
    Stalls = TRUE
INVARIANT TypeOK
INVARIANT AnswerIffCompleted
INVARIANT AccountBalances
 
 
 
 
\* With every run over and nothing reserved only the quota can still change.
CHECK_DEADLOCK FALSE
