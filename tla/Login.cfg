SPECIFICATION FairSpec
CONSTANTS
    Names = {u1, n2}
    Users = {u1}
    NoUser = nobody
    Addresses = {a1}
    NoAddress = nowhere
    Requests = {r1, r2}
    Sessions = {s1}
    NoSession = nothing
    AccountLimit = 1
    AddressLimit = 2
    MaxLogins = 3
    MaxPassword = 2
    MaxForgotten = 2
INVARIANT TypeOK
INVARIANT FailuresBounded
INVARIANT SessionsCurrent
INVARIANT NoOrphans
PROPERTY AdmitsAgain
\* Every login has been made.
CHECK_DEADLOCK FALSE
