SPECIFICATION Spec
CONSTANTS
    Users = {u1, u2, u3}
    NoUser = nobody
    Admin = u1
    Tenants = {t1, t2, t3}
    NoTenant = nowhere
    Internal = t1
    Bases = {k1}
    NoBase = nothing
    Requests = {r1, r2}
    MaxRequests = 4
SYMMETRY Symmetric
INVARIANT TypeOK
INVARIANT GrantsWithinSpace
INVARIANT OneSpaceEach
PROPERTY AdminKept
PROPERTY CustomersStayReaders
PROPERTY PlatformKept
\* Every request has been made.
CHECK_DEADLOCK FALSE
