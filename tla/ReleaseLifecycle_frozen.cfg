SPECIFICATION Spec
CONSTANTS
    Docs = {d1}
    MaxVersion = 1
    Builds = {b1}
    NoBuild = none
    Releases = {1}
    Sessions = {s1}
    MaxGen = 2
    MaxEpoch = 1
INVARIANT ServedContentFrozen
\* With every bound reached and no operator at work nothing is left to do.
CHECK_DEADLOCK FALSE
