SPECIFICATION FairSpec
CONSTANTS
    Titles = {t1}
    NoTitle = none
    MaxVersions = 2
    Workers = {w1, w2}
    Users = {u1, u2}
    Outcomes <- SomeOutcomes
    MaxAttempts = 2
    MaxProfiles = 1
    MaxEvents = 2
    MaxTrouble = 2
INVARIANT TypeOK
INVARIANT TaskTellsVersion
INVARIANT ResultHasItsArtifact
INVARIANT NoLostWork
PROPERTY EvidenceKept
PROPERTY ParsesSettle
PROPERTY VersionsSettle
\* The system is idle when every job is over.
CHECK_DEADLOCK FALSE
