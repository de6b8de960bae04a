SPECIFICATION Spec
CONSTANTS
    Docs = {d1, d2}
    MaxVersion = 1
    Builds = {b1, b2}
    NoBuild = none
    Releases = {1, 2, 3}
    Sessions = {s1, s2}
    MaxGen = 2
    MaxEpoch = 3
SYMMETRY Symmetric
INVARIANT TypeOK
INVARIANT OnlyActiveReady
INVARIANT OneReleasePerBuild
INVARIANT FreshBuildIsCurrent
PROPERTY PublishesCurrent
PROPERTY SwitchesToValidSources
PROPERTY KeepsEditions
\* With every bound reached and no operator at work nothing is left to do.
CHECK_DEADLOCK FALSE
