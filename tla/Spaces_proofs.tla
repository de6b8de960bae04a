--------------------------- MODULE Spaces_proofs ---------------------------
(***************************************************************************)
(* Proofs about Spaces.  The inductive invariant says what a request       *)
(* remembers: facts that stay true whatever happens (Known), since rows    *)
(* are never deleted, and facts that stay true while no other request      *)
(* commits (Fresh).                                                        *)
(***************************************************************************)
EXTENDS Spaces, FiniteSetTheorems, TLAPS

Requested(r, steps) == request[r].step \in steps

\* What is true of a request from the step that reads it to its end.
Known(r) ==
    LET q == request[r] IN
    /\ q.step # "idle" => q.actor \in Users
    /\ q.step \in {"space", "add", "change", "create"} =>
            q.tenant \in Tenants /\ Exists(member[q.tenant][q.actor])
    /\ q.step \in {"base", "grant", "regrant", "owner"} =>
            q.base \in Bases /\ q.tenant \in Tenants /\ base[q.base].tenant = q.tenant
    /\ q.step \in {"add", "change", "create", "grant", "regrant", "owner"} => q.subject \in Users
    /\ q.step \in {"add", "change"} => q.row.role \in SpaceRoles
    /\ q.step \in {"grant", "regrant"} => q.row.role \in BaseRoles
    /\ q.step \in {"create", "change", "grant", "regrant", "owner"} =>
            Exists(member[q.tenant][q.subject])

\* What is true of a request as long as no other one commits.
Fresh(r) ==
    LET q == request[r] IN
    q.alone =>
        /\ q.step \in {"space", "create"} => q.actor \in Admins(q.tenant)
        /\ q.step = "add" => ~Exists(member[q.tenant][q.subject])
        /\ q.step = "change" => /\ KeepsAdmin(q.tenant, q.subject, q.row)
                                /\ HasNoGrant(q.tenant, q.subject, q.row)
        /\ q.step = "grant" => MayHoldGrant(q.tenant, q.subject)
        /\ q.step = "regrant" /\ q.row.active => Internals(q.tenant, q.subject)
        /\ q.step = "platform" => Active(q.actor) /\ account[q.actor].platform

\* Whoever is about to found a space holds their row alone, and founded none.
Founders ==
    \A r \in Requests : request[r].step = "insert" =>
        /\ \A t \in Tenants : tenant[t].creator # request[r].actor
        /\ \A x \in Requests :
              request[x].step = "insert" /\ request[x].actor = request[r].actor => x = r

\* A knowledge base that is not there has nobody; one that is has an owner.
Vacant == \A k \in Bases : IF base[k].tenant = NoTenant THEN \A u \in Users : ~Exists(grant[k][u])
                                                        ELSE base[k].owner \in Users

\* An active row exists.
Rows ==
    /\ \A t \in Tenants, u \in Users : member[t][u].active => Exists(member[t][u])
    /\ \A k \in Bases, u \in Users : grant[k][u].active => Exists(grant[k][u])

IInv == /\ TypeOK /\ Rows /\ Vacant /\ GrantsWithinSpace /\ OneSpaceEach /\ Founders
        /\ \A r \in Requests : Known(r) /\ Fresh(r)

Quiet == UNCHANGED <<account, tenant, member, base, grant>>

\* Of several administrators one remains when one is taken away.
LEMMA Another ==
    ASSUME NEW S, IsFiniteSet(S), Cardinality(S) > 1, NEW u
    PROVE  \E x \in S : x # u
<1>1. SUFFICES ASSUME S \subseteq {u} PROVE FALSE
  OBVIOUS
<1>2. IsFiniteSet({u}) /\ Cardinality({u}) = 1
  BY FS_Singleton
<1>3. Cardinality(S) <= 1 /\ Cardinality(S) \in Nat
  BY <1>1, <1>2, FS_Subset, FS_CardinalityType
<1> QED
  BY <1>3

\* The initial state.
LEMMA InitIInv == Init => IInv
<1> SUFFICES ASSUME Init PROVE IInv
  OBVIOUS
<1> USE NamesAssumption, BoundAssumption DEF Init, None, NoRequest, Row, Exists
<1>1. TypeOK
  BY DEF TypeOK, SpaceRoles, BaseRoles, Steps
<1>2. Rows /\ Vacant /\ GrantsWithinSpace /\ OneSpaceEach /\ Founders
  BY DEF Rows, Vacant, GrantsWithinSpace, OneSpaceEach, Founders
<1>3. \A r \in Requests : Known(r) /\ Fresh(r)
  BY DEF Known, Fresh
<1> QED
  BY <1>1, <1>2, <1>3 DEF IInv

-----------------------------------------------------------------------------
(* Steps that change nothing but what a request remembers. *)

Remembered == [step : Steps, actor : Users \cup {NoUser},
               tenant : Tenants \cup {NoTenant}, base : Bases \cup {NoBase},
               subject : Users \cup {NoUser},
               row : [role : SpaceRoles \cup BaseRoles \cup {"none"}, active : BOOLEAN],
               alone : BOOLEAN]

\* Other requests know what they knew.
LEMMA QuietKnown ==
    ASSUME Quiet, NEW x, request'[x] = request[x], Known(x), Fresh(x)
    PROVE  Known(x)' /\ Fresh(x)'
BY DEF Quiet, Known, Fresh, Admins, KeepsAdmin, HasNoGrant, MayHoldGrant, Internals, Active, Exists

\* A step of request r, and of no other one, that leaves the tables alone.
Alone(r) ==
    /\ Quiet
    /\ made' \in Nat
    /\ request' \in [Requests -> Remembered]
    /\ \A x \in Requests : x # r => request'[x] = request[x]

\* Such a step keeps the invariant if it does for the request that made it.
LEMMA QuietStep ==
    ASSUME IInv, NEW r \in Requests, Alone(r), request'[r].step # "insert",
           Known(r)', Fresh(r)'
    PROVE  IInv'
<1>1. TypeOK'
  BY DEF IInv, TypeOK, Alone, Quiet, Remembered
<1>2. (Rows /\ Vacant /\ GrantsWithinSpace /\ OneSpaceEach)'
  BY DEF IInv, Alone, Quiet, Rows, Vacant, GrantsWithinSpace, OneSpaceEach, Exists
<1>3. Founders'
  BY DEF IInv, Founders, Alone, Quiet
<1>4. ASSUME NEW x \in Requests PROVE Known(x)' /\ Fresh(x)'
  <2>1. Quiet /\ (x # r => request'[x] = request[x]) /\ Known(x) /\ Fresh(x)
    BY DEF IInv, Alone
  <2> QED
    BY <2>1, QuietKnown
<1> QED
  BY <1>1, <1>2, <1>3, <1>4 DEF IInv

LEMMA WriteAlone ==
    ASSUME IInv, Quiet, made' \in Nat, NEW r \in Requests, NEW q \in Remembered,
           request' = [request EXCEPT ![r] = q]
    PROVE  Alone(r) /\ request'[r] = q
<1>1. request \in [Requests -> Remembered]
  BY DEF IInv, TypeOK, Remembered
<1> QED
  BY <1>1 DEF Alone

LEMMA BeginStep ==
    ASSUME IInv, NEW r \in Requests, NEW u \in Users, Begin(r, u)
    PROVE  IInv'
<1> USE NamesAssumption DEF Authorise, NoRequest, None
<1>1. ASSUME NEW t \in Tenants, AuthoriseSpace(r, u, t) PROVE IInv'
  <2> DEFINE q == [NoRequest EXCEPT !.step = "space", !.actor = u, !.tenant = t]
  <2>a. q \in Remembered
    BY <1>1 DEF IInv, TypeOK, Remembered, Steps
  <2>b. request' = [request EXCEPT ![r] = q] /\ Quiet /\ made' \in Nat
    BY <1>1 DEF IInv, TypeOK, Quiet, AuthoriseSpace
  <2>1. Alone(r) /\ request'[r] = q
    BY <2>a, <2>b, WriteAlone
  <2>2. Known(r)' /\ Fresh(r)' /\ request'[r].step # "insert"
    BY <1>1, <2>1 DEF IInv, TypeOK, Alone, Quiet, AuthoriseSpace, Known, Fresh, Admins, Is, Rows
  <2> QED
    BY <2>1, <2>2, QuietStep
<1>2. ASSUME NEW k \in Bases, AuthoriseBase(r, u, k) PROVE IInv'
  <2> DEFINE q == [NoRequest EXCEPT !.step = "base", !.actor = u,
                                    !.base = k, !.tenant = base[k].tenant]
  <2>a. q \in Remembered
    BY <1>2 DEF IInv, TypeOK, Remembered, Steps
  <2>b. request' = [request EXCEPT ![r] = q] /\ Quiet /\ made' \in Nat
    BY <1>2 DEF IInv, TypeOK, Quiet, AuthoriseBase
  <2>1. Alone(r) /\ request'[r] = q
    BY <2>a, <2>b, WriteAlone
  <2>2. Known(r)' /\ Fresh(r)' /\ request'[r].step # "insert"
    BY <1>2, <2>1 DEF IInv, TypeOK, Alone, Quiet, AuthoriseBase, Manages, Known, Fresh
  <2> QED
    BY <2>1, <2>2, QuietStep
<1>3. ASSUME AuthorisePlatform(r, u) PROVE IInv'
  <2> DEFINE q == [NoRequest EXCEPT !.step = "platform", !.actor = u]
  <2>a. q \in Remembered
    BY <1>3 DEF IInv, TypeOK, Remembered, Steps
  <2>b. request' = [request EXCEPT ![r] = q] /\ Quiet /\ made' \in Nat
    BY <1>3 DEF IInv, TypeOK, Quiet, AuthorisePlatform
  <2>1. Alone(r) /\ request'[r] = q
    BY <2>a, <2>b, WriteAlone
  <2>2. Known(r)' /\ Fresh(r)' /\ request'[r].step # "insert"
    BY <1>3, <2>1 DEF IInv, TypeOK, Alone, Quiet, AuthorisePlatform, Known, Fresh, Active
  <2> QED
    BY <2>1, <2>2, QuietStep
<1>4. ASSUME AuthoriseCreation(r, u) PROVE IInv'
  <2> DEFINE q == [NoRequest EXCEPT !.step = "creation", !.actor = u]
  <2>a. q \in Remembered
    BY <1>4 DEF IInv, TypeOK, Remembered, Steps
  <2>b. request' = [request EXCEPT ![r] = q] /\ Quiet /\ made' \in Nat
    BY <1>4 DEF IInv, TypeOK, Quiet, AuthoriseCreation
  <2>1. Alone(r) /\ request'[r] = q
    BY <2>a, <2>b, WriteAlone
  <2>2. Known(r)' /\ Fresh(r)' /\ request'[r].step # "insert"
    BY <1>4, <2>1 DEF IInv, TypeOK, Alone, Quiet, AuthoriseCreation, Known, Fresh
  <2> QED
    BY <2>1, <2>2, QuietStep
<1> QED
  BY <1>1, <1>2, <1>3, <1>4 DEF Begin

\* The reads of a transaction: each finds what Known and Fresh say it remembers.
LEMMA SpaceReads ==
    ASSUME IInv, NEW r \in Requests, NEW u \in Users,
           \/ \E role \in SpaceRoles : CheckAdd(r, u, role)
           \/ \E role \in SpaceRoles, active \in BOOLEAN : CheckChange(r, u, Row(role, active))
           \/ CheckCreate(r, u)
    PROVE  IInv'
<1> USE NamesAssumption DEF Reads, Row
<1>0. request[r] \in Remembered
  BY DEF IInv, TypeOK, Remembered
<1>1. ASSUME NEW role \in SpaceRoles, CheckAdd(r, u, role) PROVE IInv'
  <2> DEFINE q == [request[r] EXCEPT !.step = "add", !.subject = u, !.row = Row(role, TRUE)]
  <2>a. q \in Remembered
    BY <1>1, <1>0 DEF IInv, TypeOK, Remembered, Steps
  <2>b. request' = [request EXCEPT ![r] = q] /\ Quiet /\ made' \in Nat
    BY <1>1 DEF IInv, TypeOK, Quiet, CheckAdd
  <2>1. Alone(r) /\ request'[r] = q
    BY <2>a, <2>b, WriteAlone
  <2>2. Known(r)' /\ Fresh(r)' /\ request'[r].step # "insert"
    BY <1>1, <2>1, <1>0 DEF IInv, TypeOK, Alone, Quiet, Remembered, CheckAdd, Known, Fresh
  <2> QED
    BY <2>1, <2>2, QuietStep
<1>2. ASSUME NEW role \in SpaceRoles, NEW active \in BOOLEAN, CheckChange(r, u, Row(role, active))
      PROVE  IInv'
  <2> DEFINE q == [request[r] EXCEPT !.step = "change", !.subject = u, !.row = Row(role, active)]
  <2>a. q \in Remembered
    BY <1>2, <1>0 DEF IInv, TypeOK, Remembered, Steps
  <2>b. request' = [request EXCEPT ![r] = q] /\ Quiet /\ made' \in Nat
    BY <1>2 DEF IInv, TypeOK, Quiet, CheckChange
  <2>1. Alone(r) /\ request'[r] = q
    BY <2>a, <2>b, WriteAlone
  <2>c. /\ q.step = "change" /\ q.subject = u /\ q.actor \in Users /\ q.tenant \in Tenants
        /\ q.row = Row(role, active) /\ Exists(member[q.tenant][q.actor])
    BY <1>2, <1>0 DEF IInv, Remembered, CheckChange, Known
  <2>d. /\ Exists(member[q.tenant][u])
        /\ KeepsAdmin(q.tenant, u, q.row) /\ HasNoGrant(q.tenant, u, q.row)
    BY <1>2, <1>0 DEF CheckChange, Remembered
  <2>2. Known(r)' /\ Fresh(r)' /\ request'[r].step # "insert"
    BY <2>1, <2>c, <2>d DEF Alone, Quiet, Known, Fresh, KeepsAdmin, HasNoGrant, Admins, Exists
  <2> QED
    BY <2>1, <2>2, QuietStep
<1>3. ASSUME CheckCreate(r, u) PROVE IInv'
  <2> DEFINE q == [request[r] EXCEPT !.step = "create", !.subject = u]
  <2>a. q \in Remembered
    BY <1>3, <1>0 DEF IInv, TypeOK, Remembered, Steps
  <2>b. request' = [request EXCEPT ![r] = q] /\ Quiet /\ made' \in Nat
    BY <1>3 DEF IInv, TypeOK, Quiet, CheckCreate
  <2>1. Alone(r) /\ request'[r] = q
    BY <2>a, <2>b, WriteAlone
  <2>2. Known(r)' /\ Fresh(r)' /\ request'[r].step # "insert"
    BY <1>3, <2>1, <1>0 DEF IInv, TypeOK, Alone, Quiet, Remembered, CheckCreate, IsMember, Rows, Known, Fresh, Admins
  <2> QED
    BY <2>1, <2>2, QuietStep
<1> QED
  BY <1>1, <1>2, <1>3

LEMMA BaseReads ==
    ASSUME IInv, NEW r \in Requests, NEW u \in Users,
           \/ CheckOwner(r, u)
           \/ \E role \in BaseRoles : CheckGrant(r, u, role)
           \/ \E role \in BaseRoles, active \in BOOLEAN : CheckRegrant(r, u, Row(role, active))
    PROVE  IInv'
<1> USE NamesAssumption DEF Reads, Row
<1>0. request[r] \in Remembered
  BY DEF IInv, TypeOK, Remembered
<1>1. ASSUME CheckOwner(r, u) PROVE IInv'
  <2> DEFINE q == [request[r] EXCEPT !.step = "owner", !.subject = u]
  <2>a. q \in Remembered
    BY <1>1, <1>0 DEF IInv, TypeOK, Remembered, Steps
  <2>b. request' = [request EXCEPT ![r] = q] /\ Quiet /\ made' \in Nat
    BY <1>1 DEF IInv, TypeOK, Quiet, CheckOwner
  <2>1. Alone(r) /\ request'[r] = q
    BY <2>a, <2>b, WriteAlone
  <2>c. /\ q.step = "owner" /\ q.subject = u /\ q.actor \in Users /\ q.base \in Bases
        /\ q.tenant \in Tenants /\ base[q.base].tenant = q.tenant
    BY <1>1, <1>0 DEF IInv, Remembered, CheckOwner, Known
  <2>d. Exists(member[q.tenant][u])
    BY <1>1, <1>0, <2>c DEF IInv, Remembered, CheckOwner, IsMember, Rows
  <2>2. Known(r)' /\ Fresh(r)' /\ request'[r].step # "insert"
    BY <2>1, <2>c, <2>d DEF Alone, Quiet, Known, Fresh, Exists
  <2> QED
    BY <2>1, <2>2, QuietStep
<1>2. ASSUME NEW role \in BaseRoles, CheckGrant(r, u, role) PROVE IInv'
  <2> DEFINE q == [request[r] EXCEPT !.step = "grant", !.subject = u, !.row = Row(role, TRUE)]
  <2>a. q \in Remembered
    BY <1>2, <1>0 DEF IInv, TypeOK, Remembered, Steps
  <2>b. request' = [request EXCEPT ![r] = q] /\ Quiet /\ made' \in Nat
    BY <1>2 DEF IInv, TypeOK, Quiet, CheckGrant
  <2>1. Alone(r) /\ request'[r] = q
    BY <2>a, <2>b, WriteAlone
  <2>c. /\ q.step = "grant" /\ q.subject = u /\ q.actor \in Users /\ q.base \in Bases
        /\ q.tenant \in Tenants /\ base[q.base].tenant = q.tenant /\ q.row.role = role
    BY <1>2, <1>0 DEF IInv, Remembered, CheckGrant, Known
  <2>d. MayHoldGrant(q.tenant, u)
    BY <1>2, <1>0 DEF CheckGrant, Remembered
  <2>e. Exists(member[q.tenant][u])
    BY <2>d DEF MayHoldGrant, Is, Exists
  <2>2. Known(r)' /\ Fresh(r)' /\ request'[r].step # "insert"
    BY <2>1, <2>c, <2>d, <2>e DEF Alone, Quiet, Known, Fresh, MayHoldGrant, Active, Exists
  <2> QED
    BY <2>1, <2>2, QuietStep
<1>3. ASSUME NEW role \in BaseRoles, NEW active \in BOOLEAN, CheckRegrant(r, u, Row(role, active))
      PROVE  IInv'
  <2> DEFINE q == [request[r] EXCEPT !.step = "regrant", !.subject = u, !.row = Row(role, active)]
  <2>a. q \in Remembered
    BY <1>3, <1>0 DEF IInv, TypeOK, Remembered, Steps
  <2>b. request' = [request EXCEPT ![r] = q] /\ Quiet /\ made' \in Nat
    BY <1>3 DEF IInv, TypeOK, Quiet, CheckRegrant
  <2>1. Alone(r) /\ request'[r] = q
    BY <2>a, <2>b, WriteAlone
  <2>c. /\ q.step = "regrant" /\ q.subject = u /\ q.actor \in Users /\ q.base \in Bases
        /\ q.tenant \in Tenants /\ base[q.base].tenant = q.tenant
        /\ q.row.role = role /\ q.row.active = active
    BY <1>3, <1>0 DEF IInv, Remembered, CheckRegrant, Known
  <2>d. active => Internals(q.tenant, u)
    BY <1>3, <1>0 DEF CheckRegrant, Remembered
  <2>e. Exists(grant[q.base][u])
    BY <1>3, <1>0 DEF CheckRegrant, Remembered
  <2>f. Exists(member[q.tenant][u])
    BY <2>c, <2>e, NamesAssumption DEF IInv, GrantsWithinSpace
  <2>3. Known(r)' /\ Fresh(r)' /\ request'[r].step # "insert"
    BY <2>1, <2>c, <2>d, <2>f DEF Alone, Quiet, Known, Fresh, Internals, Active, Admins, Exists
  <2> QED
    BY <2>1, <2>3, QuietStep
<1> QED
  BY <1>1, <1>2, <1>3

LEMMA EndStep ==
    ASSUME IInv, NEW r \in Requests, Ends(r)
    PROVE  IInv'
<1>1. Alone(r) /\ request'[r] = NoRequest
  BY NamesAssumption DEF IInv, TypeOK, Reads, Remembered, Steps, Alone, Quiet, Ends, NoRequest, None
<1>2. Known(r)' /\ Fresh(r)'
  BY <1>1 DEF Known, Fresh, NoRequest
<1>3. request'[r].step # "insert"
  BY <1>1 DEF NoRequest
<1> QED
  BY <1>1, <1>2, <1>3, QuietStep

\* Nobody else holds the row of the caller, and nobody else can from now on.
LEMMA CountStep ==
    ASSUME IInv, NEW r \in Requests, CheckTenants(r)
    PROVE  IInv'
<1> DEFINE q == [request[r] EXCEPT !.step = "insert"]
<1>a. q \in Remembered
  <2>1. request[r] \in Remembered
    BY DEF IInv, TypeOK, Remembered
  <2>2. \A x \in Remembered : [x EXCEPT !.step = "insert"] \in Remembered
    BY DEF Remembered, Steps
  <2> QED
    BY <2>1, <2>2
<1>b. request' = [request EXCEPT ![r] = q] /\ Quiet /\ made' \in Nat
  BY DEF IInv, TypeOK, Quiet, Reads, CheckTenants
<1>1. Alone(r) /\ request'[r] = q
  BY <1>a, <1>b, WriteAlone
<1>2. TypeOK'
  BY <1>1 DEF IInv, TypeOK, Alone, Quiet, Remembered
<1>3. (Rows /\ Vacant /\ GrantsWithinSpace /\ OneSpaceEach)'
  BY <1>1 DEF IInv, Alone, Quiet, Rows, Vacant, GrantsWithinSpace, OneSpaceEach, Exists
<1>4. request[r].step = "creation" /\ request[r] \in Remembered
  BY DEF IInv, TypeOK, Remembered, CheckTenants
<1>5. Founders'
  BY <1>1, <1>4 DEF IInv, Founders, HoldsUser, CheckTenants, Alone, Quiet, Remembered
<1>6. ASSUME NEW x \in Requests PROVE Known(x)' /\ Fresh(x)'
  <2>1. Quiet /\ (x # r => request'[x] = request[x]) /\ Known(x) /\ Fresh(x)
    BY <1>1 DEF IInv, Alone
  <2>2. CASE x = r
    BY <2>1, <2>2, <1>1, <1>4 DEF Known, Fresh, Remembered
  <2> QED
    BY <2>1, <2>2, QuietKnown
<1> QED
  BY <1>2, <1>3, <1>5, <1>6 DEF IInv

-----------------------------------------------------------------------------
(* Steps that commit. *)

\* No row of a membership is deleted, and no knowledge base leaves its space.
Stays ==
    /\ \A t \in Tenants, u \in Users : Exists(member[t][u]) => Exists(member'[t][u])
    /\ \A k \in Bases : base[k].tenant # NoTenant => base'[k].tenant = base[k].tenant

\* What the tables must satisfy.
Tables ==
    /\ account \in [Users -> [status : {"none", "active", "disabled"}, platform : BOOLEAN]]
    /\ tenant \in [Tenants -> [exists : BOOLEAN, creator : Users \cup {NoUser}]]
    /\ member \in [Tenants -> [Users -> [role : SpaceRoles \cup {"none"}, active : BOOLEAN]]]
    /\ base \in [Bases -> [tenant : Tenants \cup {NoTenant}, owner : Users \cup {NoUser}]]
    /\ grant \in [Bases -> [Users -> [role : BaseRoles \cup {"none"}, active : BOOLEAN]]]
    /\ Rows /\ Vacant /\ GrantsWithinSpace

\* A commit leaves the other requests what they know, and nothing that is fresh.
LEMMA Forgets ==
    ASSUME IInv, NEW r \in Requests, Commits(r), NEW x \in Requests
    PROVE  \/ request'[x] = NoRequest
           \/ x # r /\ request'[x] = [request[x] EXCEPT !.alone = FALSE]
BY DEF IInv, TypeOK, Commits

\* Nobody comes to hold their row by the commit of another request.
LEMMA Inserters ==
    ASSUME IInv, NEW r \in Requests, Commits(r), NEW x \in Requests, request'[x].step = "insert"
    PROVE  x # r /\ request[x].step = "insert" /\ request'[x].actor = request[x].actor
<1>1. request[x] \in Remembered
  BY DEF IInv, TypeOK, Remembered
<1>2. request'[x] # NoRequest
  BY DEF NoRequest
<1>3. x # r /\ request'[x] = [request[x] EXCEPT !.alone = FALSE]
  BY <1>2, Forgets
<1> QED
  BY <1>1, <1>3 DEF Remembered

LEMMA CommitStep ==
    ASSUME IInv, NEW r \in Requests, Commits(r), Stays, Tables', OneSpaceEach',
           \A x \in Requests : request'[x].step = "insert" =>
                \A t \in Tenants : tenant'[t].creator # request[x].actor
    PROVE  IInv'
<1>0. request \in [Requests -> Remembered]
  BY DEF IInv, TypeOK, Remembered
<1>1. request' \in [Requests -> Remembered]
  <2>1. NoRequest \in Remembered
    BY NamesAssumption DEF NoRequest, None, Remembered, Steps
  <2>2. \A x \in Remembered : [x EXCEPT !.alone = FALSE] \in Remembered
    BY DEF Remembered
  <2>3. \A x \in Requests : [request[x] EXCEPT !.alone = FALSE] \in Remembered
    BY <1>0, <2>2
  <2> QED
    BY <2>1, <2>3 DEF Commits
<1>2. TypeOK'
  BY <1>1 DEF IInv, TypeOK, Tables, Commits, Remembered
<1>3. \A x \in Requests : request'[x].step = "insert" =>
            x # r /\ request[x].step = "insert" /\ request'[x].actor = request[x].actor
  BY Inserters
<1>4. Founders'
  BY <1>3 DEF IInv, Founders
<1>5. ASSUME NEW x \in Requests PROVE Known(x)' /\ Fresh(x)'
  <2>1. CASE request'[x] = NoRequest
    BY <2>1 DEF Known, Fresh, NoRequest
  <2>2. CASE request'[x] = [request[x] EXCEPT !.alone = FALSE]
    <3> DEFINE q == request[x]
    <3>1. q \in Remembered
      BY <1>0
    <3>2. /\ ~request'[x].alone /\ request'[x].step = q.step /\ request'[x].actor = q.actor
          /\ request'[x].tenant = q.tenant /\ request'[x].base = q.base
          /\ request'[x].subject = q.subject /\ request'[x].row = q.row
      BY <2>2, <3>1 DEF Remembered
    <3>3. Known(x)
      BY DEF IInv
    <3>4. q.step \in {"base", "grant", "regrant", "owner"} => base'[q.base].tenant = q.tenant
      BY <3>3, NamesAssumption DEF Known, Stays
    <3>5. q.step \in {"create", "change", "grant", "regrant", "owner"} =>
              Exists(member'[q.tenant][q.subject])
      BY <3>3 DEF Known, Stays
    <3>6. q.step \in {"space", "add", "change", "create"} => Exists(member'[q.tenant][q.actor])
      BY <3>3 DEF Known, Stays
    <3> HIDE DEF q
    <3>7. Known(x)'
      BY <3>2, <3>3, <3>4, <3>5, <3>6 DEF Known, q, Exists
    <3>8. Fresh(x)'
      BY <3>2 DEF Fresh
    <3> QED
      BY <3>7, <3>8
  <2> QED
    BY <2>1, <2>2, Forgets
<1> QED
  BY <1>2, <1>4, <1>5 DEF IInv, Tables

\* The tables as they are, taken from the invariant.
LEMMA TablesNow ==
    ASSUME IInv PROVE Tables
BY DEF IInv, TypeOK, Tables

\* A commit that leaves the spaces alone.
LEMMA SameTenants ==
    ASSUME IInv, NEW r \in Requests, Commits(r), tenant' = tenant
    PROVE  /\ OneSpaceEach'
           /\ \A x \in Requests : request'[x].step = "insert" =>
                \A t \in Tenants : tenant'[t].creator # request[x].actor
<1>1. OneSpaceEach'
  BY DEF IInv, OneSpaceEach
<1>2. ASSUME NEW x \in Requests, request'[x].step = "insert" PROVE request[x].step = "insert"
  BY <1>2, Inserters
<1> QED
  BY <1>1, <1>2 DEF IInv, Founders

\* A membership is written, or all memberships of one account are.
LEMMA MemberWrite ==
    ASSUME IInv, member' \in [Tenants -> [Users -> [role : SpaceRoles \cup {"none"}, active : BOOLEAN]]],
           UNCHANGED <<base, grant>>, account' = account, tenant' = tenant,
           \A t \in Tenants, u \in Users : Exists(member[t][u]) => Exists(member'[t][u]),
           \A t \in Tenants, u \in Users : member'[t][u].active => Exists(member'[t][u])
    PROVE  Stays /\ Tables'
<1>1. Stays
  BY DEF Stays
<1>2. Rows' /\ Vacant'
  BY DEF IInv, Rows, Vacant, Exists
<1>3. GrantsWithinSpace'
  <2> SUFFICES ASSUME NEW k \in Bases, base[k].tenant # NoTenant
               PROVE  /\ Exists(member'[base[k].tenant][base[k].owner])
                      /\ \A u \in Users : Exists(grant[k][u]) => Exists(member'[base[k].tenant][u])
    BY DEF GrantsWithinSpace, Exists
  <2>1. base[k].tenant \in Tenants /\ base[k].owner \in Users \cup {NoUser}
    BY DEF IInv, TypeOK
  <2>2. base[k].owner \in Users
    BY DEF IInv, Vacant
  <2> QED
    BY <2>1, <2>2 DEF IInv, GrantsWithinSpace
<1> QED
  BY <1>1, <1>2, <1>3 DEF IInv, TypeOK, Tables

\* A grant is written for somebody with a membership.
LEMMA GrantWrite ==
    ASSUME IInv, NEW k \in Bases, NEW u \in Users, base[k].tenant # NoTenant,
           NEW row \in [role : BaseRoles, active : BOOLEAN],
           Exists(member[base[k].tenant][u]),
           grant' = [grant EXCEPT ![k][u] = row],
           UNCHANGED <<account, tenant, member, base>>
    PROVE  Stays /\ Tables'
<1>1. Stays
  BY DEF Stays
<1>2. /\ grant' \in [Bases -> [Users -> [role : BaseRoles \cup {"none"}, active : BOOLEAN]]]
      /\ grant'[k][u] = row
      /\ \A x \in Bases, v \in Users : x # k \/ v # u => grant'[x][v] = grant[x][v]
  BY DEF IInv, TypeOK
<1>3. Exists(row)
  BY DEF Exists, BaseRoles
<1>4. Rows' /\ Vacant' /\ GrantsWithinSpace'
  BY <1>2, <1>3 DEF IInv, Rows, Vacant, GrantsWithinSpace, Exists
<1> QED
  BY <1>1, <1>2, <1>4 DEF IInv, TypeOK, Tables

LEMMA AddMemberStep ==
    ASSUME IInv, NEW r \in Requests, AddMember(r) \/ ChangeMember(r)
    PROVE  IInv'
<1> DEFINE t == request[r].tenant
           u == request[r].subject
           row == request[r].row
<1>1. t \in Tenants /\ u \in Users /\ row \in [role : SpaceRoles, active : BOOLEAN]
  BY DEF AddMember, ChangeMember, IInv, TypeOK, Known
<1>2. /\ member' = [member EXCEPT ![t][u] = row] /\ Commits(r)
      /\ UNCHANGED <<base, grant>> /\ account' = account /\ tenant' = tenant
  BY DEF AddMember, ChangeMember
<1> HIDE DEF t, u, row
<1>3. Exists(row)
  BY <1>1 DEF Exists, SpaceRoles
<1>4. /\ member' \in [Tenants -> [Users -> [role : SpaceRoles \cup {"none"}, active : BOOLEAN]]]
      /\ member'[t][u] = row
      /\ \A x \in Tenants, v \in Users : x # t \/ v # u => member'[x][v] = member[x][v]
  BY <1>1, <1>2 DEF IInv, TypeOK
<1>5. \A x \in Tenants, v \in Users : Exists(member[x][v]) => Exists(member'[x][v])
  BY <1>3, <1>4 DEF Exists
<1>6. \A x \in Tenants, v \in Users : member'[x][v].active => Exists(member'[x][v])
  BY <1>3, <1>4 DEF IInv, Rows, Exists
<1> QED
  BY <1>2, <1>4, <1>5, <1>6, MemberWrite, SameTenants, CommitStep

LEMMA CreateBaseStep ==
    ASSUME IInv, NEW r \in Requests, NEW k \in Bases, CreateBase(r, k)
    PROVE  IInv'
<1> DEFINE t == request[r].tenant
           o == request[r].subject
           u == request[r].actor
<1>1. /\ t \in Tenants /\ o \in Users /\ u \in Users /\ t # NoTenant
      /\ Exists(member[t][o]) /\ Exists(member[t][u])
  BY NamesAssumption DEF CreateBase, IInv, Known
<1>2. /\ base[k].tenant = NoTenant /\ base' = [base EXCEPT ![k] = [tenant |-> t, owner |-> o]]
      /\ grant' = [grant EXCEPT ![k][u] = Row("kb_admin", TRUE)]
      /\ Commits(r) /\ UNCHANGED <<account, tenant, member>>
  BY DEF CreateBase
<1> HIDE DEF t, o, u
<1>3. /\ base' \in [Bases -> [tenant : Tenants \cup {NoTenant}, owner : Users \cup {NoUser}]]
      /\ base'[k].tenant = t /\ base'[k].owner = o
      /\ \A x \in Bases : x # k => base'[x] = base[x]
  <2>1. [tenant |-> t, owner |-> o] \in [tenant : Tenants \cup {NoTenant}, owner : Users \cup {NoUser}]
    BY <1>1
  <2>2. base \in [Bases -> [tenant : Tenants \cup {NoTenant}, owner : Users \cup {NoUser}]]
    BY DEF IInv, TypeOK
  <2> QED
    BY <2>1, <2>2, <1>2
<1>4. /\ grant' \in [Bases -> [Users -> [role : BaseRoles \cup {"none"}, active : BOOLEAN]]]
      /\ Exists(grant'[k][u])
      /\ \A x \in Bases, v \in Users : x # k \/ v # u => grant'[x][v] = grant[x][v]
  BY <1>1, <1>2 DEF IInv, TypeOK, Row, BaseRoles, Exists
<1>5. \A v \in Users : Exists(grant'[k][v]) => v = u
  BY <1>2, <1>4 DEF IInv, Vacant, Exists
<1>6. Stays
  BY <1>2, <1>3 DEF Stays
<1>7. Rows'
  BY <1>2, <1>4 DEF IInv, Rows, Exists
<1>8. Vacant'
  <2>1. base'[k].tenant # NoTenant /\ base'[k].owner \in Users
    BY <1>1, <1>3
  <2>2. ASSUME NEW x \in Bases, x # k
        PROVE  IF base'[x].tenant = NoTenant THEN \A v \in Users : ~Exists(grant'[x][v])
                                             ELSE base'[x].owner \in Users
    <3>1. base'[x] = base[x] /\ \A v \in Users : grant'[x][v] = grant[x][v]
      BY <1>3, <1>4, <2>2
    <3> QED
      BY <3>1 DEF IInv, Vacant, Exists
  <2> QED
    BY <2>1, <2>2 DEF Vacant, Exists
<1>9. GrantsWithinSpace'
  <2>1. ASSUME NEW x \in Bases, base'[x].tenant # NoTenant
        PROVE  /\ Exists(member[base'[x].tenant][base'[x].owner])
               /\ \A v \in Users : Exists(grant'[x][v]) => Exists(member[base'[x].tenant][v])
    <3>1. CASE x = k
      BY <3>1, <1>1, <1>3, <1>5
    <3>2. CASE x # k
      BY <3>2, <2>1, <1>3, <1>4 DEF IInv, GrantsWithinSpace
    <3> QED
      BY <3>1, <3>2
  <2> QED
    BY <2>1, <1>2 DEF GrantsWithinSpace, Exists
<1>10. Tables'
  BY <1>2, <1>3, <1>4, <1>7, <1>8, <1>9 DEF IInv, TypeOK, Tables
<1> QED
  BY <1>2, <1>6, <1>10, SameTenants, CommitStep

LEMMA ChangeOwnerStep ==
    ASSUME IInv, NEW r \in Requests, ChangeOwner(r)
    PROVE  IInv'
<1> DEFINE k == request[r].base
           o == request[r].subject
<1>1. k \in Bases /\ o \in Users /\ base[k].tenant \in Tenants /\ Exists(member[base[k].tenant][o])
  BY DEF ChangeOwner, IInv, Known
<1>2. /\ base' = [base EXCEPT ![k].owner = o] /\ Commits(r)
      /\ UNCHANGED <<account, tenant, member, grant>>
  BY DEF ChangeOwner
<1> HIDE DEF k, o
<1>3. /\ base' \in [Bases -> [tenant : Tenants \cup {NoTenant}, owner : Users \cup {NoUser}]]
      /\ base'[k].tenant = base[k].tenant /\ base'[k].owner = o
      /\ \A x \in Bases : x # k => base'[x] = base[x]
  <2>1. base \in [Bases -> [tenant : Tenants \cup {NoTenant}, owner : Users \cup {NoUser}]]
    BY DEF IInv, TypeOK
  <2>2. /\ [base[k] EXCEPT !.owner = o] \in [tenant : Tenants \cup {NoTenant}, owner : Users \cup {NoUser}]
        /\ [base[k] EXCEPT !.owner = o].tenant = base[k].tenant
        /\ [base[k] EXCEPT !.owner = o].owner = o
    BY <1>1, <2>1
  <2>3. base' = [base EXCEPT ![k] = [base[k] EXCEPT !.owner = o]]
    BY <1>2
  <2> QED
    BY <1>1, <2>1, <2>2, <2>3
<1>4. Stays
  BY <1>2, <1>3 DEF Stays
<1>5. Rows' /\ Vacant'
  BY <1>1, <1>2, <1>3 DEF IInv, Rows, Vacant, Exists
<1>6. GrantsWithinSpace'
  BY <1>1, <1>2, <1>3 DEF IInv, GrantsWithinSpace, Exists
<1>7. Tables'
  BY <1>2, <1>3, <1>5, <1>6 DEF IInv, TypeOK, Tables
<1> QED
  BY <1>2, <1>4, <1>7, SameTenants, CommitStep

LEMMA GrantStep ==
    ASSUME IInv, NEW r \in Requests, AddGrant(r) \/ ChangeGrant(r)
    PROVE  IInv'
<1> DEFINE k == request[r].base
           u == request[r].subject
           row == request[r].row
<1>1. /\ k \in Bases /\ u \in Users /\ row \in [role : BaseRoles, active : BOOLEAN]
      /\ base[k].tenant # NoTenant /\ Exists(member[base[k].tenant][u])
  BY NamesAssumption DEF AddGrant, ChangeGrant, IInv, TypeOK, Known
<1>2. /\ grant' = [grant EXCEPT ![k][u] = row] /\ Commits(r)
      /\ UNCHANGED <<account, tenant, member, base>>
  BY DEF AddGrant, ChangeGrant
<1> HIDE DEF k, u, row
<1>3. Stays /\ Tables'
  BY <1>1, <1>2, GrantWrite
<1> QED
  BY <1>2, <1>3, SameTenants, CommitStep

\* Memberships are moved: what they were is disabled, and the rows stay.
LEMMA MovedRows ==
    ASSUME IInv, NEW u \in Users, NEW t \in Tenants \cup {NoTenant}, NEW role \in SpaceRoles,
           member' = Moved(u, t, role)
    PROVE  /\ member' \in [Tenants -> [Users -> [role : SpaceRoles \cup {"none"}, active : BOOLEAN]]]
           /\ \A x \in Tenants, v \in Users : Exists(member[x][v]) => Exists(member'[x][v])
           /\ \A x \in Tenants, v \in Users : member'[x][v].active => Exists(member'[x][v])
<1>1. member \in [Tenants -> [Users -> [role : SpaceRoles \cup {"none"}, active : BOOLEAN]]]
  BY DEF IInv, TypeOK
<1>2. ASSUME NEW x \in Tenants
      PROVE  /\ member'[x] \in [Users -> [role : SpaceRoles \cup {"none"}, active : BOOLEAN]]
             /\ \A v \in Users : v # u => member'[x][v] = member[x][v]
             /\ x = t => member'[x][u] = Row(role, TRUE)
             /\ x # t => member'[x][u] = [member[x][u] EXCEPT !.active = FALSE]
  <2>1. Row(role, TRUE) \in [role : SpaceRoles \cup {"none"}, active : BOOLEAN]
    BY DEF Row
  <2>2. [member[x][u] EXCEPT !.active = FALSE] \in [role : SpaceRoles \cup {"none"}, active : BOOLEAN]
    <3>1. member[x][u] \in [role : SpaceRoles \cup {"none"}, active : BOOLEAN]
      BY <1>1
    <3> QED
      BY <3>1
  <2> QED
    BY <1>1, <2>1, <2>2 DEF Moved
<1>3. Row(role, TRUE).role = role /\ role # "none"
  BY DEF Row, SpaceRoles
<1>4. \A x \in Tenants : LET row == [member[x][u] EXCEPT !.active = FALSE] IN
          row.role = member[x][u].role /\ ~row.active
  BY <1>1
<1>5. member' \in [Tenants -> [Users -> [role : SpaceRoles \cup {"none"}, active : BOOLEAN]]]
  BY <1>2 DEF Moved
<1>6. ASSUME NEW x \in Tenants, NEW v \in Users
      PROVE  /\ Exists(member[x][v]) => Exists(member'[x][v])
             /\ member'[x][v].active => Exists(member'[x][v])
  <2>1. CASE v # u
    BY <2>1, <1>2 DEF IInv, Rows
  <2>2. CASE v = u
    BY <2>2, <1>2, <1>3, <1>4 DEF Exists
  <2> QED
    BY <2>1, <2>2
<1> QED
  BY <1>5, <1>6

\* Platform administration writes accounts and memberships.
LEMMA AccountWrite ==
    ASSUME IInv, NEW r \in Requests, Commits(r), UNCHANGED <<tenant, base, grant>>,
           account' \in [Users -> [status : {"none", "active", "disabled"}, platform : BOOLEAN]],
           member' \in [Tenants -> [Users -> [role : SpaceRoles \cup {"none"}, active : BOOLEAN]]],
           \A t \in Tenants, u \in Users : Exists(member[t][u]) => Exists(member'[t][u]),
           \A t \in Tenants, u \in Users : member'[t][u].active => Exists(member'[t][u])
    PROVE  IInv'
<1>1. Stays
  BY DEF Stays
<1>2. Rows' /\ Vacant'
  BY DEF IInv, Rows, Vacant, Exists
<1>3. GrantsWithinSpace'
  <2> SUFFICES ASSUME NEW k \in Bases, base[k].tenant # NoTenant
               PROVE  /\ Exists(member'[base[k].tenant][base[k].owner])
                      /\ \A u \in Users : Exists(grant[k][u]) => Exists(member'[base[k].tenant][u])
    BY DEF GrantsWithinSpace, Exists
  <2>1. base[k].tenant \in Tenants /\ base[k].owner \in Users
    BY DEF IInv, TypeOK, Vacant
  <2> QED
    BY <2>1 DEF IInv, GrantsWithinSpace
<1>4. Tables'
  BY <1>2, <1>3 DEF IInv, TypeOK, Tables
<1> QED
  BY <1>1, <1>4, SameTenants, CommitStep

LEMMA CreateUserStep ==
    ASSUME IInv, NEW r \in Requests, NEW u \in Users, NEW platform \in BOOLEAN,
           NEW t \in Tenants \cup {NoTenant}, NEW role \in SpaceRoles,
           CreateUser(r, u, platform, t, role)
    PROVE  IInv'
<1>1. /\ Commits(r) /\ UNCHANGED <<tenant, base, grant>> /\ member' = Moved(u, t, role)
      /\ account' = [account EXCEPT ![u] = [status |-> "active", platform |-> platform]]
  BY DEF CreateUser
<1>2. account' \in [Users -> [status : {"none", "active", "disabled"}, platform : BOOLEAN]]
  BY <1>1 DEF IInv, TypeOK
<1> QED
  BY <1>1, <1>2, MovedRows, AccountWrite

LEMMA UpdateUserStep ==
    ASSUME IInv, NEW r \in Requests, NEW u \in Users,
           NEW status \in {"kept", "active", "disabled"}, NEW move \in Moves,
           UpdateUser(r, u, status, move)
    PROVE  IInv'
<1>1. /\ Commits(r) /\ UNCHANGED <<tenant, base, grant>>
      /\ member' = IF move.keeps THEN member ELSE Moved(u, move.tenant, move.role)
      /\ account' = [account EXCEPT
            ![u] = [status |-> IF status = "kept" THEN @.status ELSE status,
                    platform |-> IF move.keeps THEN @.platform ELSE move.platform]]
  BY DEF UpdateUser
<1>2. ~move.keeps => /\ move.platform \in BOOLEAN /\ move.tenant \in Tenants \cup {NoTenant}
                     /\ move.role \in SpaceRoles
  <2>1. CASE move = Keep
    BY <2>1 DEF Keep
  <2>2. CASE move # Keep
    BY <2>2 DEF Moves
  <2> QED
    BY <2>1, <2>2
<1>3. account' \in [Users -> [status : {"none", "active", "disabled"}, platform : BOOLEAN]]
  BY <1>1, <1>2 DEF IInv, TypeOK
<1>4. CASE move.keeps
  <2>1. member' = member
    BY <1>1, <1>4
  <2> QED
    BY <2>1, <1>1, <1>3, AccountWrite DEF IInv, TypeOK, Rows
<1>5. CASE ~move.keeps
  BY <1>1, <1>2, <1>3, <1>5, MovedRows, AccountWrite
<1> QED
  BY <1>4, <1>5

\* A space is founded by somebody who founded none, or for nobody's account.
LEMMA FoundsStep ==
    ASSUME IInv, NEW r \in Requests, NEW t \in Tenants, NEW u \in Users,
           NEW creator \in Users \cup {NoUser}, Founds(t, u, creator), Commits(r),
           UNCHANGED <<account, base, grant>>,
           creator # NoUser =>
               /\ creator = request[r].actor /\ request[r].step = "insert"
    PROVE  IInv'
<1>1. /\ tenant' \in [Tenants -> [exists : BOOLEAN, creator : Users \cup {NoUser}]]
      /\ tenant'[t].creator = creator
      /\ \A x \in Tenants : x # t => tenant'[x] = tenant[x]
  BY DEF Founds, IInv, TypeOK
<1>2. Row("space_admin", TRUE) \in [role : SpaceRoles, active : BOOLEAN] /\ Exists(Row("space_admin", TRUE))
  BY DEF Row, SpaceRoles, Exists
<1>3. /\ member' \in [Tenants -> [Users -> [role : SpaceRoles \cup {"none"}, active : BOOLEAN]]]
      /\ member'[t][u] = Row("space_admin", TRUE)
      /\ \A x \in Tenants, v \in Users : x # t \/ v # u => member'[x][v] = member[x][v]
  BY <1>2 DEF Founds, IInv, TypeOK
<1>4. \A x \in Tenants, v \in Users : Exists(member[x][v]) => Exists(member'[x][v])
  BY <1>2, <1>3 DEF Exists
<1>5. ASSUME NEW x \in Tenants, NEW v \in Users PROVE member'[x][v].active => Exists(member'[x][v])
  <2>1. CASE x = t /\ v = u
    BY <2>1, <1>2, <1>3
  <2>2. CASE x # t \/ v # u
    BY <2>2, <1>3 DEF IInv, Rows
  <2> QED
    BY <2>1, <2>2
<1>6. Stays
  BY <1>4 DEF Stays
<1>7. Rows' /\ Vacant'
  BY <1>5 DEF IInv, Rows, Vacant, Exists
<1>8. GrantsWithinSpace'
  <2> SUFFICES ASSUME NEW k \in Bases, base[k].tenant # NoTenant
               PROVE  /\ Exists(member'[base[k].tenant][base[k].owner])
                      /\ \A v \in Users : Exists(grant[k][v]) => Exists(member'[base[k].tenant][v])
    BY DEF GrantsWithinSpace, Exists
  <2>1. base[k].tenant \in Tenants /\ base[k].owner \in Users
    BY DEF IInv, TypeOK, Vacant
  <2> QED
    BY <1>4, <2>1 DEF IInv, GrantsWithinSpace
<1>9. Tables'
  BY <1>1, <1>3, <1>7, <1>8 DEF IInv, TypeOK, Tables
<1>10. OneSpaceEach'
  BY <1>1 DEF IInv, OneSpaceEach, Founders
<1>11. ASSUME NEW x \in Requests, request'[x].step = "insert", NEW y \in Tenants
       PROVE  tenant'[y].creator # request[x].actor
  <2>1. x # r /\ request[x].step = "insert"
    BY <1>11, Inserters
  <2>2. request[x].actor \in Users
    BY <2>1 DEF IInv, Known
  <2> QED
    BY <1>1, <2>1, <2>2, NamesAssumption DEF IInv, Founders
<1> QED
  BY <1>6, <1>9, <1>10, <1>11, CommitStep

LEMMA TenantStep ==
    ASSUME IInv, NEW r \in Requests, NEW t \in Tenants, CreateTenant(r, t) \/ InsertTenant(r, t)
    PROVE  IInv'
<1>1. request[r].actor \in Users
  BY DEF CreateTenant, InsertTenant, IInv, Known
<1>2. CASE CreateTenant(r, t)
  BY <1>1, <1>2, FoundsStep DEF CreateTenant
<1>3. CASE InsertTenant(r, t)
  BY <1>1, <1>3, FoundsStep DEF InsertTenant
<1> QED
  BY <1>2, <1>3

-----------------------------------------------------------------------------
(* The invariant. *)

LEMMA StepIInv == IInv /\ [Next]_vars => IInv'
<1> SUFFICES ASSUME IInv, [Next]_vars PROVE IInv'
  OBVIOUS
<1>1. CASE UNCHANGED vars
  <2>1. Quiet /\ request' = request /\ made' = made
    BY <1>1 DEF vars, Quiet
  <2>2. (TypeOK /\ Rows /\ Vacant /\ GrantsWithinSpace /\ OneSpaceEach /\ Founders)'
    BY <2>1 DEF IInv, Quiet, TypeOK, Rows, Vacant, GrantsWithinSpace, OneSpaceEach, Founders, Exists
  <2>3. ASSUME NEW x \in Requests PROVE Known(x)' /\ Fresh(x)'
    BY <2>1, QuietKnown DEF IInv
  <2> QED
    BY <2>2, <2>3 DEF IInv
<1>2. ASSUME NEW r \in Requests, NEW u \in Users, Begin(r, u) PROVE IInv'
  BY <1>2, BeginStep
<1>3. ASSUME NEW r \in Requests, Space(r) PROVE IInv'
  BY <1>3, SpaceReads, AddMemberStep, CreateBaseStep DEF Space
<1>4. ASSUME NEW r \in Requests, Base(r) PROVE IInv'
  BY <1>4, BaseReads, ChangeOwnerStep, GrantStep DEF Base
<1>5. ASSUME NEW r \in Requests, Platform(r) PROVE IInv'
  BY <1>5, CreateUserStep, UpdateUserStep, TenantStep, CountStep DEF Platform
<1>6. ASSUME NEW r \in Requests, Ends(r) PROVE IInv'
  BY <1>6, EndStep
<1> QED
  BY <1>1, <1>2, <1>3, <1>4, <1>5, <1>6 DEF Next

LEMMA Invariance == Spec => []IInv
<1> QED
  BY InitIInv, StepIInv, PTL DEF Spec

\* Every variable keeps its type.
THEOREM TypeCorrect == Spec => []TypeOK
<1>1. IInv => TypeOK
  BY DEF IInv
<1> QED
  BY <1>1, Invariance, PTL

\* Whoever owns or may edit a knowledge base has a membership in its space.
THEOREM GrantsStayWithin == Spec => []GrantsWithinSpace
<1>1. IInv => GrantsWithinSpace
  BY DEF IInv
<1> QED
  BY <1>1, Invariance, PTL

\* A space administrator founds one space at most.
THEOREM OneSpace == Spec => []OneSpaceEach
<1>1. IInv => OneSpaceEach
  BY DEF IInv
<1> QED
  BY <1>1, Invariance, PTL

-----------------------------------------------------------------------------
(* What a request that ran alone cannot do. *)

\* A step that was not a platform administrator's nor overlapped, by its kind:
\* it changes no table that matters, or it is one of six commits by a request
\* whose reads are fresh.
LEMMA LoneCommit ==
    ASSUME IInv, NEW r \in Requests, Commits(r), request[r].step # "idle", ~ByPlatform, ~Overlapped
    PROVE  request[r].alone /\ request[r].step # "platform" /\ Fresh(r) /\ Known(r)
<1>1. request'[r] = NoRequest
  BY DEF IInv, TypeOK, Commits
<1>2. Ended(r)
  BY <1>1 DEF Ended, NoRequest
<1> QED
  BY <1>2 DEF ByPlatform, Overlapped, IInv

LEMMA LoneStep ==
    ASSUME IInv, [Next]_vars, ~ByPlatform, ~Overlapped
    PROVE  \/ UNCHANGED <<account, member, base, grant>>
           \/ \E r \in Requests :
                 /\ Commits(r) /\ request[r].alone /\ Fresh(r) /\ Known(r) /\ account' = account
                 /\ \/ AddMember(r) \/ ChangeMember(r) \/ ChangeOwner(r)
                    \/ AddGrant(r) \/ ChangeGrant(r)
                    \/ \E k \in Bases : CreateBase(r, k)
                    \/ \E t \in Tenants : InsertTenant(r, t)
<1>1. CASE UNCHANGED vars
  BY <1>1 DEF vars
<1>2. ASSUME NEW r \in Requests, NEW u \in Users, Begin(r, u)
      PROVE  UNCHANGED <<account, member, base, grant>>
  BY <1>2 DEF Begin, AuthoriseSpace, AuthoriseBase, AuthorisePlatform, AuthoriseCreation, Authorise
<1>3. ASSUME NEW r \in Requests, Ends(r) PROVE UNCHANGED <<account, member, base, grant>>
  BY <1>3 DEF Ends, Reads
<1>4. ASSUME NEW r \in Requests, CheckTenants(r) PROVE UNCHANGED <<account, member, base, grant>>
  BY <1>4 DEF CheckTenants, Reads
<1>5. ASSUME NEW r \in Requests, NEW u \in Users,
             \/ \E role \in SpaceRoles : CheckAdd(r, u, role)
             \/ \E role \in SpaceRoles, active \in BOOLEAN : CheckChange(r, u, Row(role, active))
             \/ CheckCreate(r, u) \/ CheckOwner(r, u)
             \/ \E role \in BaseRoles : CheckGrant(r, u, role)
             \/ \E role \in BaseRoles, active \in BOOLEAN : CheckRegrant(r, u, Row(role, active))
      PROVE  UNCHANGED <<account, member, base, grant>>
  BY <1>5 DEF CheckAdd, CheckChange, CheckCreate, CheckOwner, CheckGrant, CheckRegrant, Reads
<1>6. ASSUME NEW r \in Requests, request[r].step = "platform" /\ Commits(r) PROVE FALSE
  BY <1>6, LoneCommit
<1>7. ASSUME NEW r \in Requests, NEW u \in Users, NEW platform \in BOOLEAN,
             NEW t \in Tenants \cup {NoTenant}, NEW role \in SpaceRoles
      PROVE  ~CreateUser(r, u, platform, t, role)
  BY <1>6 DEF CreateUser
<1>8. ASSUME NEW r \in Requests, NEW u \in Users, NEW status, NEW move
      PROVE  ~UpdateUser(r, u, status, move)
  BY <1>6 DEF UpdateUser
<1>9. ASSUME NEW r \in Requests, NEW t \in Tenants PROVE ~CreateTenant(r, t)
  BY <1>6 DEF CreateTenant
<1>10. ASSUME NEW r \in Requests,
              \/ AddMember(r) \/ ChangeMember(r) \/ ChangeOwner(r) \/ AddGrant(r) \/ ChangeGrant(r)
              \/ \E k \in Bases : CreateBase(r, k)
              \/ \E t \in Tenants : InsertTenant(r, t)
       PROVE  /\ Commits(r) /\ request[r].alone /\ Fresh(r) /\ Known(r) /\ account' = account
  BY <1>10, LoneCommit DEF AddMember, ChangeMember, ChangeOwner, AddGrant, ChangeGrant,
                           CreateBase, InsertTenant
<1>11. ASSUME NEW r \in Requests, Space(r) \/ Base(r) \/ Platform(r)
       PROVE  \/ UNCHANGED <<account, member, base, grant>>
              \/ AddMember(r) \/ ChangeMember(r) \/ ChangeOwner(r) \/ AddGrant(r) \/ ChangeGrant(r)
              \/ \E k \in Bases : CreateBase(r, k)
              \/ \E t \in Tenants : InsertTenant(r, t)
  BY <1>11, <1>4, <1>5, <1>7, <1>8, <1>9 DEF Space, Base, Platform
<1> QED
  BY <1>1, <1>2, <1>3, <1>10, <1>11 DEF Next

\* A lone request takes the last administrator from no space.
LEMMA AdminsRemain ==
    ASSUME IInv, [Next]_vars, ~ByPlatform, ~Overlapped, NEW t \in Tenants
    PROVE  account' = account /\ (Admins(t) \subseteq Admins(t)' \/ Admins(t)' # {})
<1>0. member \in [Tenants -> [Users -> [role : SpaceRoles \cup {"none"}, active : BOOLEAN]]]
  BY DEF IInv, TypeOK
<1>1. CASE UNCHANGED <<account, member, base, grant>>
  BY <1>1 DEF Admins, Is
<1>2. ASSUME NEW r \in Requests, Commits(r), request[r].alone, Fresh(r), Known(r),
             AddMember(r) \/ ChangeMember(r)
      PROVE  Admins(t) \subseteq Admins(t)' \/ Admins(t)' # {}
  <2> DEFINE s == request[r].tenant
             u == request[r].subject
             row == request[r].row
  <2>1. s \in Tenants /\ u \in Users
    BY <1>2 DEF AddMember, ChangeMember, Known
  <2>2. member' = [member EXCEPT ![s][u] = row]
    BY <1>2 DEF AddMember, ChangeMember
  <2>3. \/ ~Is(member[s][u], "space_admin")
        \/ Is(row, "space_admin")
        \/ Cardinality(Admins(s)) > 1
    BY <1>2, <2>1 DEF AddMember, ChangeMember, Fresh, KeepsAdmin, Exists, Is
  <2> HIDE DEF s, u, row
  <2>4. /\ member'[s][u] = row
        /\ \A x \in Tenants, v \in Users : x # s \/ v # u => member'[x][v] = member[x][v]
    BY <1>0, <2>1, <2>2
  <2>5. CASE t # s \/ ~Is(member[s][u], "space_admin") \/ Is(row, "space_admin")
    BY <2>1, <2>4, <2>5 DEF Admins, Is
  <2>6. CASE t = s /\ Cardinality(Admins(s)) > 1
    <3>1. IsFiniteSet(Admins(s))
      BY FiniteAssumption, FS_Subset DEF Admins
    <3>2. PICK x \in Admins(s) : x # u
      BY <2>6, <3>1, Another
    <3>3. x \in Admins(t)'
      BY <2>1, <2>4, <2>6, <3>2 DEF Admins, Is
    <3> QED
      BY <3>3
  <2> QED
    BY <2>3, <2>5, <2>6
<1>3. ASSUME NEW r \in Requests, NEW s \in Tenants, Known(r), InsertTenant(r, s)
      PROVE  Admins(t) \subseteq Admins(t)'
  <2>1. request[r].actor \in Users
    BY <1>3 DEF InsertTenant, Known
  <2>2. member' = [member EXCEPT ![s][request[r].actor] = Row("space_admin", TRUE)]
    BY <1>3 DEF InsertTenant, Founds
  <2> QED
    BY <1>0, <2>1, <2>2 DEF Admins, Is, Row
<1>4. ASSUME NEW r \in Requests,
             ChangeOwner(r) \/ AddGrant(r) \/ ChangeGrant(r) \/ \E k \in Bases : CreateBase(r, k)
      PROVE  Admins(t) \subseteq Admins(t)'
  BY <1>4 DEF ChangeOwner, AddGrant, ChangeGrant, CreateBase, Admins, Is
<1> QED
  BY <1>1, <1>2, <1>3, <1>4, LoneStep

\* A space loses its last usable administrator only to a platform administrator,
\* to overlapping transactions, or with disabled accounts counted for it.
THEOREM AdminsAreKept == Spec => AdminKept
<1>1. ASSUME IInv, [Next]_vars
      PROVE  \A t \in Tenants : Usable(t) # {} /\ Usable(t)' = {}
                => ByPlatform \/ Overlapped \/ Admins(t)' # {}
  <2> SUFFICES ASSUME NEW t \in Tenants, Usable(t) # {}, Usable(t)' = {},
                      ~ByPlatform, ~Overlapped
               PROVE  Admins(t)' # {}
    BY <1>1
  <2>1. account' = account /\ (Admins(t) \subseteq Admins(t)' \/ Admins(t)' # {})
    BY <1>1, AdminsRemain
  <2> QED
    BY <2>1 DEF Usable, Active
<1> QED
  BY <1>1, Invariance, PTL DEF Spec, AdminKept

\* A lone request makes nobody a customer with a grant.
LEMMA CustomersRemain ==
    ASSUME IInv, [Next]_vars, ~ByPlatform, ~Overlapped, NEW k \in Bases
    PROVE  Mixed(k)' \subseteq Mixed(k)
<1>0. /\ member \in [Tenants -> [Users -> [role : SpaceRoles \cup {"none"}, active : BOOLEAN]]]
      /\ grant \in [Bases -> [Users -> [role : BaseRoles \cup {"none"}, active : BOOLEAN]]]
      /\ base \in [Bases -> [tenant : Tenants \cup {NoTenant}, owner : Users \cup {NoUser}]]
  BY DEF IInv, TypeOK
<1>1. CASE UNCHANGED <<account, member, base, grant>>
  BY <1>1 DEF Mixed, Is
<1>2. ASSUME NEW r \in Requests, request[r].alone, Fresh(r), Known(r), AddMember(r) \/ ChangeMember(r)
      PROVE  Mixed(k)' \subseteq Mixed(k)
  <2> DEFINE s == request[r].tenant
             u == request[r].subject
             row == request[r].row
  <2>1. s \in Tenants /\ u \in Users
    BY <1>2 DEF AddMember, ChangeMember, Known
  <2>2. member' = [member EXCEPT ![s][u] = row] /\ base' = base /\ grant' = grant
    BY <1>2 DEF AddMember, ChangeMember
  <2>3. ~Exists(member[s][u]) \/ HasNoGrant(s, u, row)
    BY <1>2 DEF AddMember, ChangeMember, Fresh
  <2> HIDE DEF s, u, row
  <2>4. /\ member'[s][u] = row
        /\ \A x \in Tenants, v \in Users : x # s \/ v # u => member'[x][v] = member[x][v]
    BY <1>0, <2>1, <2>2
  <2>5. SUFFICES ASSUME NEW v \in Users, base[k].tenant # NoTenant, grant[k][v].active,
                        Is(member'[base[k].tenant][v], "customer_reader"), v \notin Mixed(k)
                 PROVE  FALSE
    BY <2>2 DEF Mixed, Is
  <2>6. base[k].tenant = s /\ v = u
    BY <1>0, <2>4, <2>5 DEF Mixed
  <2>7. Is(row, "customer_reader")
    BY <2>4, <2>5, <2>6
  <2>8. Exists(grant[k][u])
    BY <2>5, <2>6 DEF IInv, Rows
  <2>9. Exists(member[s][u])
    BY <2>1, <2>5, <2>6, <2>8 DEF IInv, GrantsWithinSpace
  <2> QED
    BY <2>3, <2>5, <2>6, <2>7, <2>9 DEF HasNoGrant
<1>3. ASSUME NEW r \in Requests, NEW s \in Tenants, Known(r), InsertTenant(r, s)
      PROVE  Mixed(k)' \subseteq Mixed(k)
  <2>1. request[r].actor \in Users
    BY <1>3 DEF InsertTenant, Known
  <2>2. /\ member' = [member EXCEPT ![s][request[r].actor] = Row("space_admin", TRUE)]
        /\ base' = base /\ grant' = grant
    BY <1>3 DEF InsertTenant, Founds
  <2> QED
    BY <1>0, <2>1, <2>2 DEF Mixed, Is, Row
<1>4. ASSUME NEW r \in Requests, request[r].alone, Fresh(r), Known(r), AddGrant(r) \/ ChangeGrant(r)
      PROVE  Mixed(k)' \subseteq Mixed(k)
  <2> DEFINE b == request[r].base
             u == request[r].subject
             row == request[r].row
  <2>1. b \in Bases /\ u \in Users /\ base[b].tenant = request[r].tenant
    BY <1>4 DEF AddGrant, ChangeGrant, Known
  <2>2. grant' = [grant EXCEPT ![b][u] = row] /\ base' = base /\ member' = member
    BY <1>4 DEF AddGrant, ChangeGrant
  <2>3. row.active => ~Is(member[base[b].tenant][u], "customer_reader")
    BY <1>4, <2>1 DEF AddGrant, ChangeGrant, Fresh, MayHoldGrant, Internals, Admins, Is
  <2> HIDE DEF b, u, row
  <2>4. /\ grant'[b][u] = row
        /\ \A x \in Bases, v \in Users : x # b \/ v # u => grant'[x][v] = grant[x][v]
    BY <1>0, <2>1, <2>2
  <2> QED
    BY <2>2, <2>3, <2>4 DEF Mixed, Is
<1>5. ASSUME NEW r \in Requests, NEW b \in Bases, request[r].alone, Fresh(r), Known(r), CreateBase(r, b)
      PROVE  Mixed(k)' \subseteq Mixed(k)
  <2> DEFINE t == request[r].tenant
             u == request[r].actor
  <2>1. t \in Tenants /\ u \in Users /\ Is(member[t][u], "space_admin") /\ base[b].tenant = NoTenant
    BY <1>5 DEF CreateBase, Known, Fresh, Admins
  <2>2. /\ base' = [base EXCEPT ![b] = [tenant |-> t, owner |-> request[r].subject]]
        /\ grant' = [grant EXCEPT ![b][u] = Row("kb_admin", TRUE)]
        /\ member' = member
    BY <1>5 DEF CreateBase
  <2> HIDE DEF t, u
  <2>3. /\ base'[b].tenant = t
        /\ \A x \in Bases : x # b => base'[x] = base[x]
    BY <1>0, <2>2
  <2>4. \A x \in Bases, v \in Users : x # b \/ v # u => grant'[x][v] = grant[x][v]
    BY <1>0, <2>1, <2>2
  <2>5. \A v \in Users : ~grant[b][v].active
    BY <2>1 DEF IInv, Vacant, Rows
  <2>6. CASE k # b
    BY <2>2, <2>3, <2>4, <2>6 DEF Mixed, Is
  <2>7. CASE k = b
    <3>1. ASSUME NEW v \in Mixed(k)' PROVE FALSE
      <4>1. v \in Users /\ grant'[b][v].active /\ Is(member[t][v], "customer_reader")
        BY <2>2, <2>3, <2>7, <3>1 DEF Mixed, Is
      <4>2. v = u
        BY <4>1, <2>4, <2>5
      <4> QED
        BY <4>1, <4>2, <2>1 DEF Is
    <3> QED
      BY <3>1
  <2> QED
    BY <2>6, <2>7
<1>6. ASSUME NEW r \in Requests, Known(r), ChangeOwner(r)
      PROVE  Mixed(k)' \subseteq Mixed(k)
  <2>1. \A x \in Bases : base'[x].tenant = base[x].tenant
    BY <1>0, <1>6 DEF ChangeOwner, Known
  <2> QED
    BY <1>6, <2>1 DEF ChangeOwner, Mixed, Is
<1> QED
  BY <1>1, <1>2, <1>3, <1>4, <1>5, <1>6, LoneStep

\* Nobody becomes a customer with a grant but through a platform administrator
\* or overlapping transactions.
THEOREM CustomersAreReaders == Spec => CustomersStayReaders
<1>1. ASSUME IInv, [Next]_vars
      PROVE  \A k \in Bases : Mixed(k)' \subseteq Mixed(k) \/ ByPlatform \/ Overlapped
  BY <1>1, CustomersRemain
<1> QED
  BY <1>1, Invariance, PTL DEF Spec, CustomersStayReaders

\* Accounts are changed by two handlers only.
LEMMA AccountStep ==
    ASSUME [Next]_vars, account' # account
    PROVE  \E r \in Requests, u \in Users :
               \/ \E platform \in BOOLEAN, t \in Tenants \cup {NoTenant}, role \in SpaceRoles :
                       CreateUser(r, u, platform, t, role)
               \/ \E status \in {"kept", "active", "disabled"}, move \in Moves :
                       UpdateUser(r, u, status, move)
<1>1. ~UNCHANGED vars
  BY DEF vars
<1>2. ASSUME NEW r \in Requests, NEW u \in Users PROVE ~Begin(r, u)
  BY DEF Begin, AuthoriseSpace, AuthoriseBase, AuthorisePlatform, AuthoriseCreation, Authorise
<1>3. ASSUME NEW r \in Requests PROVE ~Ends(r) /\ ~CheckTenants(r)
  BY DEF Ends, CheckTenants, Reads
<1>4. ASSUME NEW r \in Requests PROVE ~Space(r)
  BY DEF Space, CheckAdd, CheckChange, CheckCreate, Reads, AddMember, ChangeMember, CreateBase
<1>5. ASSUME NEW r \in Requests PROVE ~Base(r)
  BY DEF Base, CheckOwner, CheckGrant, CheckRegrant, Reads, ChangeOwner, AddGrant, ChangeGrant
<1>6. ASSUME NEW r \in Requests, NEW t \in Tenants PROVE ~CreateTenant(r, t) /\ ~InsertTenant(r, t)
  BY DEF CreateTenant, InsertTenant
<1> QED
  BY <1>1, <1>2, <1>3, <1>4, <1>5, <1>6 DEF Next, Platform

\* The platform loses its last administrator to overlapping transactions, or to
\* one who gives up the role.
THEOREM PlatformIsKept == Spec => PlatformKept
<1>1. ASSUME IInv, [Next]_vars
      PROVE  Platforms # {} /\ Platforms' = {} =>
                Overlapped \/ \E u \in Platforms : account'[u].status = "active"
  <2> SUFFICES ASSUME Platforms # {}, Platforms' = {}, ~Overlapped
               PROVE  \E u \in Platforms : account'[u].status = "active"
    BY <1>1
  <2>0. account \in [Users -> [status : {"none", "active", "disabled"}, platform : BOOLEAN]]
    BY <1>1 DEF IInv, TypeOK
  <2>1. account' # account
    BY DEF Platforms, Active
  <2>2. \E r \in Requests, u \in Users :
            \/ \E platform \in BOOLEAN, t \in Tenants \cup {NoTenant}, role \in SpaceRoles :
                    CreateUser(r, u, platform, t, role)
            \/ \E status \in {"kept", "active", "disabled"}, move \in Moves :
                    UpdateUser(r, u, status, move)
    BY <1>1, <2>1, AccountStep
  <2>3. PICK r \in Requests, u \in Users :
            \/ \E platform \in BOOLEAN, t \in Tenants \cup {NoTenant}, role \in SpaceRoles :
                    CreateUser(r, u, platform, t, role)
            \/ \E status \in {"kept", "active", "disabled"}, move \in Moves :
                    UpdateUser(r, u, status, move)
    BY <2>2
  <2>4. Commits(r) /\ request[r].step = "platform"
    BY <2>3 DEF CreateUser, UpdateUser
  <2>5. request[r].alone
    <3>1. Ended(r)
      BY <1>1, <2>4 DEF IInv, TypeOK, Commits, Ended, NoRequest
    <3> QED
      BY <3>1 DEF Overlapped
  <2> DEFINE a == request[r].actor
  <2>6. a \in Users /\ a \in Platforms
    BY <1>1, <2>4, <2>5 DEF IInv, Known, Fresh, Platforms
  <2>7. \A v \in Users : v # u => account'[v] = account[v]
    BY <2>0, <2>3 DEF CreateUser, UpdateUser
  <2>8. a = u
    BY <2>6, <2>7 DEF Platforms, Active
  <2>9. account[u].status = "active"
    BY <2>6, <2>8 DEF Platforms, Active
  <2>10. account'[u].status = "active"
    <3>1. ~\E platform \in BOOLEAN, t \in Tenants \cup {NoTenant}, role \in SpaceRoles :
                CreateUser(r, u, platform, t, role)
      BY <2>9 DEF CreateUser
    <3>2. PICK status \in {"kept", "active", "disabled"}, move \in Moves : UpdateUser(r, u, status, move)
      BY <2>3, <3>1
    <3>3. status # "disabled"
      BY <3>2, <2>8 DEF UpdateUser, MaySet
    <3> QED
      BY <2>0, <2>9, <3>2, <3>3 DEF UpdateUser
  <2> QED
    BY <2>6, <2>8, <2>10
<1> QED
  BY <1>1, Invariance, PTL DEF Spec, PlatformKept
=============================================================================
