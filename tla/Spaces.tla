------------------------------- MODULE Spaces -------------------------------
(***************************************************************************)
(* Accounts, spaces (tenants), memberships and knowledge base grants: the  *)
(* handlers of api/knowledge_routes.py for space members, knowledge base   *)
(* members, knowledge bases and their owners, those of                     *)
(* api/platform_routes.py for users and spaces, and the checks in main.py  *)
(* they share.                                                             *)
(*                                                                         *)
(* Every handler reads the authority of its caller, then opens a           *)
(* transaction that reads what it depends on, and then writes.  The        *)
(* database runs at READ COMMITTED and most of what is read is not locked, *)
(* so the three are steps of their own; a step "commit" is the writes of a *)
(* transaction.  auth_epoch, which is raised and never read, and the audit *)
(* log are left out.                                                       *)
(***************************************************************************)
EXTENDS Naturals, FiniteSets

CONSTANTS
    Users,        \* accounts
    NoUser,
    Admin,        \* the account made by ensure_bootstrap_admin
    Tenants,      \* spaces
    NoTenant,
    Internal,     \* the space made by ensure_bootstrap_admin
    Bases,        \* knowledge bases
    NoBase,
    Requests,     \* requests at work at the same time
    MaxRequests   \* bound: requests in all

ASSUME NamesAssumption == /\ Admin \in Users /\ NoUser \notin Users
                          /\ Internal \in Tenants /\ NoTenant \notin Tenants
                          /\ NoBase \notin Bases
ASSUME FiniteAssumption == IsFiniteSet(Users)
ASSUME BoundAssumption == MaxRequests \in Nat

SpaceRoles == {"space_admin", "space_member", "customer_reader"}
BaseRoles == {"kb_admin", "reader"}  \* an editor differs in content alone
None == [role |-> "none", active |-> FALSE]
Row(role, active) == [role |-> role, active |-> active]

VARIABLES
    account,   \* users: [status, platform]
    tenant,    \* tenants: [exists, creator]
    member,    \* tenant_members, per space and user
    base,      \* knowledge_bases: [tenant, owner]
    grant,     \* kb_members, per knowledge base and user
    request,   \* what each request remembers
    made       \* requests so far

vars == <<account, tenant, member, base, grant, request, made>>

Steps == {"idle", "space", "base", "platform", "creation",
          "add", "change", "create", "grant", "regrant", "owner", "insert"}
NoRequest == [step |-> "idle", actor |-> NoUser, tenant |-> NoTenant, base |-> NoBase,
              subject |-> NoUser, row |-> None, alone |-> TRUE]

TypeOK ==
    /\ account \in [Users -> [status : {"none", "active", "disabled"}, platform : BOOLEAN]]
    /\ tenant \in [Tenants -> [exists : BOOLEAN, creator : Users \cup {NoUser}]]
    /\ member \in [Tenants -> [Users -> [role : SpaceRoles \cup {"none"}, active : BOOLEAN]]]
    /\ base \in [Bases -> [tenant : Tenants \cup {NoTenant}, owner : Users \cup {NoUser}]]
    /\ grant \in [Bases -> [Users -> [role : BaseRoles \cup {"none"}, active : BOOLEAN]]]
    /\ request \in [Requests -> [step : Steps, actor : Users \cup {NoUser},
                                 tenant : Tenants \cup {NoTenant}, base : Bases \cup {NoBase},
                                 subject : Users \cup {NoUser},
                                 row : [role : SpaceRoles \cup BaseRoles \cup {"none"},
                                        active : BOOLEAN],
                                 alone : BOOLEAN]]
    /\ made \in Nat

\* The migrations, and ensure_bootstrap_admin at the first start; at every later
\* start it finds all of it and changes nothing.
Init ==
    /\ account = [u \in Users |-> IF u = Admin THEN [status |-> "active", platform |-> TRUE]
                                               ELSE [status |-> "none", platform |-> FALSE]]
    /\ tenant = [t \in Tenants |-> [exists |-> t = Internal, creator |-> NoUser]]
    /\ member = [t \in Tenants |-> [u \in Users |->
            IF t = Internal /\ u = Admin THEN Row("space_admin", TRUE) ELSE None]]
    /\ base = [k \in Bases |-> [tenant |-> NoTenant, owner |-> NoUser]]
    /\ grant = [k \in Bases |-> [u \in Users |-> None]]
    /\ request = [r \in Requests |-> NoRequest]
    /\ made = 0

Exists(row) == row.role # "none"
Is(row, role) == row.active /\ row.role = role
IsMember(t, u) == member[t][u].active
Admins(t) == {u \in Users : Is(member[t][u], "space_admin")}

-----------------------------------------------------------------------------
(* The caller: an account with a session, and what it may do now. *)

Active(u) == account[u].status = "active"

Authorise(r, u, next) ==
    /\ request[r].step = "idle"
    /\ made < MaxRequests
    /\ Active(u)
    /\ made' = made + 1
    /\ request' = [request EXCEPT ![r] = next]
    /\ UNCHANGED <<account, tenant, member, base, grant>>

AuthoriseSpace(r, u, t) ==
    /\ u \in Admins(t)
    /\ Authorise(r, u, [NoRequest EXCEPT !.step = "space", !.actor = u, !.tenant = t])

\* _knowledge_base_access: the role of the space admits its administrators and
\* its customers, the grant everybody else.
Manages(u, k) ==
    LET t == base[k].tenant IN
    /\ t # NoTenant
    /\ IsMember(t, u)
    /\ u \in Admins(t) \/ Is(grant[k][u], "kb_admin")

AuthoriseBase(r, u, k) ==
    /\ Manages(u, k)
    /\ Authorise(r, u, [NoRequest EXCEPT !.step = "base", !.actor = u,
                                         !.base = k, !.tenant = base[k].tenant])

AuthorisePlatform(r, u) ==
    /\ account[u].platform
    /\ Authorise(r, u, [NoRequest EXCEPT !.step = "platform", !.actor = u])

\* _require_space_management_actor for a caller who is not a platform administrator.
AuthoriseCreation(r, u) ==
    /\ ~account[u].platform
    /\ \E t \in Tenants : u \in Admins(t)
    /\ Authorise(r, u, [NoRequest EXCEPT !.step = "creation", !.actor = u])

-----------------------------------------------------------------------------
(* Transactions.  A request was alone if no other one committed since it began. *)

\* The transaction has read what it depends on.
Reads(r, next) ==
    /\ request' = [request EXCEPT ![r] = next]
    /\ UNCHANGED <<account, tenant, member, base, grant, made>>

Commits(r) ==
    /\ request' = [x \in Requests |->
            IF x = r \/ request[x].step = "idle" THEN NoRequest
                                                 ELSE [request[x] EXCEPT !.alone = FALSE]]
    /\ UNCHANGED made

\* A refusal (404, 409), an error, or the loss of the API process.
Ends(r) ==
    /\ request[r].step # "idle"
    /\ Reads(r, NoRequest)

\* DEFECT: the row of the account is read without FOR UPDATE.
NeverHeld(u) == FALSE
\* create_tenant holds the row of its caller from the count to its commit.
HoldsUser(u) == \E x \in Requests : request[x].step = "insert" /\ request[x].actor = u
\* update_space_member and update_knowledge_base_member hold the row they change.
HoldsMember(t, u) == \E x \in Requests :
    request[x].step = "change" /\ request[x].tenant = t /\ request[x].subject = u
HoldsGrant(k, u) == \E x \in Requests :
    request[x].step = "regrant" /\ request[x].base = k /\ request[x].subject = u

\* add_space_member.
CheckAdd(r, u, role) ==
    /\ request[r].step = "space"
    /\ Active(u)
    /\ ~Exists(member[request[r].tenant][u])
    /\ Reads(r, [request[r] EXCEPT !.step = "add", !.subject = u, !.row = Row(role, TRUE)])

\* The primary key refuses a second row; the foreign key waits for the account.
AddMember(r) ==
    LET t == request[r].tenant
        u == request[r].subject
    IN
    /\ request[r].step = "add"
    /\ ~Exists(member[t][u])
    /\ ~HoldsUser(u)
    /\ member' = [member EXCEPT ![t][u] = request[r].row]
    /\ Commits(r)
    /\ UNCHANGED <<account, tenant, base, grant>>

\* DEFECT: the administrators are counted with those who were disabled.
CountsEverybody(t, u, next) ==
    member[t][u].role = "space_admin" /\ ~Is(next, "space_admin")
        => Cardinality({x \in Users : member[t][x].role = "space_admin"}) > 1
\* _assert_space_member_role_change, first half.
KeepsAdmin(t, u, next) ==
    member[t][u].role = "space_admin" /\ ~Is(next, "space_admin") => Cardinality(Admins(t)) > 1

\* DEFECT: a customer is admitted whatever grants there are.
IgnoresGrants(t, u, next) == TRUE
\* _assert_space_member_role_change, second half.
HasNoGrant(t, u, next) ==
    Is(next, "customer_reader") => \A k \in Bases : base[k].tenant = t => ~grant[k][u].active

\* update_space_member, which locks the row it changes and no other.
CheckChange(r, u, next) ==
    LET t == request[r].tenant IN
    /\ request[r].step = "space"
    /\ Exists(member[t][u])
    /\ ~HoldsMember(t, u)
    /\ KeepsAdmin(t, u, next)
    /\ HasNoGrant(t, u, next)
    /\ Reads(r, [request[r] EXCEPT !.step = "change", !.subject = u, !.row = next])

ChangeMember(r) ==
    /\ request[r].step = "change"
    /\ member' = [member EXCEPT ![request[r].tenant][request[r].subject] = request[r].row]
    /\ Commits(r)
    /\ UNCHANGED <<account, tenant, base, grant>>

\* create_knowledge_base: the owner is checked before the transaction.
CheckCreate(r, owner) ==
    /\ request[r].step = "space"
    /\ owner = request[r].actor \/ IsMember(request[r].tenant, owner)
    /\ Reads(r, [request[r] EXCEPT !.step = "create", !.subject = owner])

\* _create_knowledge_base: the caller gets the first grant.
CreateBase(r, k) ==
    /\ request[r].step = "create"
    /\ base[k].tenant = NoTenant
    /\ ~HoldsUser(request[r].actor) /\ ~HoldsUser(request[r].subject)
    /\ base' = [base EXCEPT ![k] = [tenant |-> request[r].tenant, owner |-> request[r].subject]]
    /\ grant' = [grant EXCEPT ![k][request[r].actor] = Row("kb_admin", TRUE)]
    /\ Commits(r)
    /\ UNCHANGED <<account, tenant, member>>

\* update_knowledge_base_governance, as far as it names an owner.
CheckOwner(r, u) ==
    /\ request[r].step = "base"
    /\ IsMember(request[r].tenant, u)
    /\ Reads(r, [request[r] EXCEPT !.step = "owner", !.subject = u])

ChangeOwner(r) ==
    /\ request[r].step = "owner"
    /\ ~HoldsUser(request[r].subject)
    /\ base' = [base EXCEPT ![request[r].base].owner = request[r].subject]
    /\ Commits(r)
    /\ UNCHANGED <<account, tenant, member, grant>>

\* DEFECT: any account may be given a grant.
Anybody(t, u) == Active(u)
MayHoldGrant(t, u) == Active(u) /\ Is(member[t][u], "space_member")

\* add_knowledge_base_member.
CheckGrant(r, u, role) ==
    LET t == request[r].tenant
        k == request[r].base
    IN
    /\ request[r].step = "base"
    /\ MayHoldGrant(t, u)
    /\ ~Exists(grant[k][u])
    /\ Reads(r, [request[r] EXCEPT !.step = "grant", !.subject = u, !.row = Row(role, TRUE)])

AddGrant(r) ==
    LET k == request[r].base
        u == request[r].subject
    IN
    /\ request[r].step = "grant"
    /\ ~Exists(grant[k][u])
    /\ ~HoldsUser(u)
    /\ grant' = [grant EXCEPT ![k][u] = request[r].row]
    /\ Commits(r)
    /\ UNCHANGED <<account, tenant, member, base>>

Internals(t, u) == Active(u) /\ (Is(member[t][u], "space_member") \/ u \in Admins(t))

\* update_knowledge_base_member, which locks the row it changes.
CheckRegrant(r, u, next) ==
    LET k == request[r].base IN
    /\ request[r].step = "base"
    /\ Exists(grant[k][u])
    /\ ~HoldsGrant(k, u)
    /\ next.active => Internals(request[r].tenant, u)
    /\ Reads(r, [request[r] EXCEPT !.step = "regrant", !.subject = u, !.row = next])

ChangeGrant(r) ==
    /\ request[r].step = "regrant"
    /\ grant' = [grant EXCEPT ![request[r].base][request[r].subject] = request[r].row]
    /\ Commits(r)
    /\ UNCHANGED <<account, tenant, member, base>>

-----------------------------------------------------------------------------
(* Platform administration. *)

\* DEFECT: the role of the platform is written in the place of that of the space.
MovedAsAdmin(u, t, role) ==
    [x \in Tenants |-> [member[x] EXCEPT ![u] =
        IF x = t THEN Row("platform_admin", TRUE) ELSE [@ EXCEPT !.active = FALSE]]]
\* The membership of one space, or of none, in the place of all others.
Moved(u, t, role) ==
    [x \in Tenants |-> [member[x] EXCEPT ![u] =
        IF x = t THEN Row(role, TRUE) ELSE [@ EXCEPT !.active = FALSE]]]

\* create_user.
CreateUser(r, u, platform, t, role) ==
    /\ request[r].step = "platform"
    /\ account[u].status = "none"
    /\ t # NoTenant => tenant[t].exists
    /\ account' = [account EXCEPT ![u] = [status |-> "active", platform |-> platform]]
    /\ member' = Moved(u, t, role)
    /\ Commits(r)
    /\ UNCHANGED <<tenant, base, grant>>

\* DEFECT: an administrator may disable the account they work with.
AnyStatus(r, u, status) == TRUE
MaySet(r, u, status) == u = request[r].actor => status # "disabled"

\* What update_user is asked to do with the roles of an account.
Keep == [keeps |-> TRUE]
Moves == {Keep} \cup [keeps : {FALSE}, platform : BOOLEAN,
                      tenant : Tenants \cup {NoTenant}, role : SpaceRoles]

\* update_user: the status or the roles of an account, or both.  With roles, every
\* membership of the account is replaced, without the checks of update_space_member.
UpdateUser(r, u, status, move) ==
    /\ request[r].step = "platform"
    /\ account[u].status # "none"
    /\ MaySet(r, u, status)
    /\ ~HoldsUser(u)
    /\ ~move.keeps => /\ move.tenant # NoTenant => tenant[move.tenant].exists
                      /\ \A x \in Tenants :
                            HoldsMember(x, u) => ~IsMember(x, u) /\ x # move.tenant
    /\ account' = [account EXCEPT
            ![u] = [status |-> IF status = "kept" THEN @.status ELSE status,
                    platform |-> IF move.keeps THEN @.platform ELSE move.platform]]
    /\ member' = IF move.keeps THEN member ELSE Moved(u, move.tenant, move.role)
    /\ Commits(r)
    /\ UNCHANGED <<tenant, base, grant>>

Founds(t, u, creator) ==
    /\ ~tenant[t].exists
    /\ tenant' = [tenant EXCEPT ![t] = [exists |-> TRUE, creator |-> creator]]
    /\ member' = [member EXCEPT ![t][u] = Row("space_admin", TRUE)]

\* create_tenant by a platform administrator, who may found any number.
CreateTenant(r, t) ==
    /\ request[r].step = "platform"
    /\ ~HoldsUser(request[r].actor)
    /\ Founds(t, request[r].actor, NoUser)
    /\ Commits(r)
    /\ UNCHANGED <<account, base, grant>>

\* create_tenant by anybody else: the row of the caller is locked, then counted.
CheckTenants(r) ==
    LET u == request[r].actor IN
    /\ request[r].step = "creation"
    /\ ~HoldsUser(u)
    /\ \A t \in Tenants : tenant[t].creator # u
    /\ Reads(r, [request[r] EXCEPT !.step = "insert"])

InsertTenant(r, t) ==
    /\ request[r].step = "insert"
    /\ Founds(t, request[r].actor, request[r].actor)
    /\ Commits(r)
    /\ UNCHANGED <<account, base, grant>>

-----------------------------------------------------------------------------
Begin(r, u) ==
    \/ \E t \in Tenants : AuthoriseSpace(r, u, t)
    \/ \E k \in Bases : AuthoriseBase(r, u, k)
    \/ AuthorisePlatform(r, u)
    \/ AuthoriseCreation(r, u)

Space(r) ==
    \/ \E u \in Users : \/ \E role \in SpaceRoles : CheckAdd(r, u, role)
                        \/ \E role \in SpaceRoles, active \in BOOLEAN :
                               CheckChange(r, u, Row(role, active))
                        \/ CheckCreate(r, u)
    \/ AddMember(r) \/ ChangeMember(r)
    \/ \E k \in Bases : CreateBase(r, k)

Base(r) ==
    \/ \E u \in Users : \/ CheckOwner(r, u)
                        \/ \E role \in BaseRoles : CheckGrant(r, u, role)
                        \/ \E role \in BaseRoles, active \in BOOLEAN :
                               CheckRegrant(r, u, Row(role, active))
    \/ ChangeOwner(r) \/ AddGrant(r) \/ ChangeGrant(r)

Platform(r) ==
    \/ \E u \in Users, platform \in BOOLEAN, t \in Tenants \cup {NoTenant}, role \in SpaceRoles :
           CreateUser(r, u, platform, t, role)
    \/ \E u \in Users, status \in {"kept", "active", "disabled"}, move \in Moves :
           UpdateUser(r, u, status, move)
    \/ \E t \in Tenants : CreateTenant(r, t) \/ InsertTenant(r, t)
    \/ CheckTenants(r)

Next == \E r \in Requests :
    \/ \E u \in Users : Begin(r, u)
    \/ Space(r) \/ Base(r) \/ Platform(r)
    \/ Ends(r)

Spec == Init /\ [][Next]_vars

-----------------------------------------------------------------------------
(* Properties. *)

\* A step that ends request r in a platform administrator's name, or in the
\* name of anybody whose reads another request has made stale.
Ended(r) == request[r].step # "idle" /\ request'[r].step = "idle"
ByPlatform == \E r \in Requests : Ended(r) /\ request[r].step = "platform"
Overlapped == \E r \in Requests : Ended(r) /\ ~request[r].alone

Usable(t) == {u \in Admins(t) : Active(u)}

\* "A space must keep an administrator": it loses the last one who can log in
\* only to a platform administrator, to transactions that overlapped, or because
\* administrators whose accounts are disabled were counted (main.py:833-858).
AdminKept ==
    [][\A t \in Tenants : Usable(t) # {} /\ Usable(t)' = {}
            => ByPlatform \/ Overlapped \/ Admins(t)' # {}]_vars

Mixed(k) == {u \in Users : /\ base[k].tenant # NoTenant
                           /\ grant[k][u].active
                           /\ Is(member[base[k].tenant][u], "customer_reader")}

\* A customer gets no say over a knowledge base: nobody becomes a customer with a
\* grant, by any sequence of additions, changes and revocations of memberships
\* and grants, except through a platform administrator or transactions that
\* overlapped (main.py:859-870, knowledge_routes.py:649-653, 740-760).
CustomersStayReaders ==
    [][\A k \in Bases : Mixed(k)' \subseteq Mixed(k) \/ ByPlatform \/ Overlapped]_vars

\* What no foreign key says: whoever owns or may edit a knowledge base has a
\* membership in its space, be it disabled by now.
GrantsWithinSpace ==
    \A k \in Bases : base[k].tenant # NoTenant =>
        /\ Exists(member[base[k].tenant][base[k].owner])
        /\ \A u \in Users : Exists(grant[k][u]) => Exists(member[base[k].tenant][u])

\* A space administrator founds one space at most, however many requests they
\* make at once (platform_routes.py:1810-1823).
OneSpaceEach ==
    \A s, t \in Tenants : tenant[s].creator = tenant[t].creator /\ tenant[s].creator # NoUser => s = t

Platforms == {u \in Users : Active(u) /\ account[u].platform}

\* The platform loses its last administrator only if that one gives up the role
\* on their own account, or if administrators disabled or demoted each other at
\* the same time (platform_routes.py:1656-1659).
PlatformKept ==
    [][Platforms # {} /\ Platforms' = {} =>
            Overlapped \/ \E u \in Platforms : account'[u].status = "active"]_vars
=============================================================================
