-------------------------------- MODULE Login --------------------------------
(***************************************************************************)
(* Logins and browser sessions: login, logout, revoke_session and          *)
(* change_password of api/identity_routes.py, authenticate and             *)
(* revoke_token of core/auth.py, the counters of core/security.py in       *)
(* Redis, and the part of update_user (api/platform_routes.py) that ends   *)
(* sessions.                                                               *)
(*                                                                         *)
(* A login reserves an attempt in Redis, reads the account, verifies the   *)
(* password, inserts a session in a transaction and settles the attempt in *)
(* Redis: each is a step, and each may fail or lose its answer.  Writers   *)
(* of one account queue for its row, so a transaction is one step.  The    *)
(* passwords of an account are numbered in the order they were set; 0 is a *)
(* password it never had.  A session that is revoked, or past its          *)
(* expires_at, is never read again: its slot is then free.                 *)
(***************************************************************************)
EXTENDS Naturals, FiniteSets

CONSTANTS
    Names,         \* names that clients log in with
    Users,         \* those that have an account
    NoUser,
    Addresses,     \* addresses of clients
    NoAddress,
    Requests,      \* requests at work at the same time
    Sessions,      \* rows of sessions
    NoSession,
    AccountLimit,  \* LOGIN_ACCOUNT_IP_FAILURE_LIMIT
    AddressLimit,  \* LOGIN_IP_FAILURE_LIMIT
    MaxLogins,     \* bound: logins in all
    MaxPassword,   \* bound: passwords of an account
    MaxForgotten   \* bound: attempts a counter forgets

ASSUME NamesAssumption == Users \subseteq Names /\ NoUser \notin Names /\ NoSession \notin Sessions
                          /\ NoUser \notin Requests
ASSUME FiniteAssumption == IsFiniteSet(Requests)
ASSUME LimitAssumption == AccountLimit \in Nat /\ AddressLimit \in Nat
ASSUME BoundAssumption == MaxLogins \in Nat /\ MaxPassword \in Nat /\ MaxForgotten \in Nat

VARIABLES
    account,    \* users: [active, password]
    session,    \* sessions: who it is of, with which password it was opened,
                \* whether a browser has its token; history: whether it is late
    request,    \* what each request remembers
    failures,   \* account_failure_key and ip_failure_key
    inflight,   \* account_inflight_key and ip_inflight_key
    forgotten,  \* history: attempts at work when an inflight key expired
    lost,       \* history: sessions nobody could be told of, or take back
    made        \* logins so far

vars == <<account, session, request, failures, inflight, forgotten, lost, made>>
redis == <<failures, inflight, forgotten>>

Steps == {"idle", "reserved", "verified", "wrong", "opened", "broken", "orphan", "known"}
Trying == {"reserved", "verified", "wrong", "opened", "broken"}
NoRequest == [step |-> "idle", user |-> NoUser, address |-> NoAddress,
              password |-> 0, session |-> NoSession, late |-> FALSE]
Gone == [user |-> NoUser, password |-> 0, held |-> FALSE, late |-> FALSE]

\* login_attempt_keys: a counter of the name at the address, and one of the address.
Counters == (Names \cup {NoUser}) \X Addresses
Keys(u, a) == {<<u, a>>, <<NoUser, a>>}
Limit(c) == IF c[1] = NoUser THEN AddressLimit ELSE AccountLimit

\* What a request at a step knows.
Complete(q) ==
    /\ q.step \in Trying => q.user \in Names /\ q.address \in Addresses
    /\ q.step \in {"verified", "known"} => q.user \in Users
    /\ q.step \in {"opened", "orphan"} => q.session \in Sessions

TypeOK ==
    /\ account \in [Users -> [active : BOOLEAN, password : Nat]]
    /\ session \in [Sessions -> [user : Users \cup {NoUser}, password : Nat,
                                 held : BOOLEAN, late : BOOLEAN]]
    /\ request \in [Requests -> [step : Steps, user : Names \cup {NoUser},
                                 address : Addresses \cup {NoAddress}, password : Nat,
                                 session : Sessions \cup {NoSession}, late : BOOLEAN]]
    /\ \A r \in Requests : Complete(request[r])
    /\ failures \in [Counters -> Nat]
    /\ inflight \in [Counters -> Nat]
    /\ forgotten \in [Counters -> Nat]
    /\ lost \subseteq Sessions
    /\ made \in Nat

Init ==
    /\ account = [u \in Users |-> [active |-> TRUE, password |-> 1]]
    /\ session = [s \in Sessions |-> Gone]
    /\ request = [r \in Requests |-> NoRequest]
    /\ failures = [c \in Counters |-> 0]
    /\ inflight = [c \in Counters |-> 0]
    /\ forgotten = [c \in Counters |-> 0]
    /\ lost = {}
    /\ made = 0

Live(s) == session[s].user # NoUser

\* The attempts at work that count, or counted, at c.
At(r, c) == request[r].step \in Trying /\ c \in Keys(request[r].user, request[r].address)
AtWork(c) == {r \in Requests : At(r, c)}

Goes(r, step) == request' = [request EXCEPT ![r].step = step]
Ends(r) == request' = [request EXCEPT ![r] = NoRequest]

-----------------------------------------------------------------------------
(* The counters: two scripts, each atomic in Redis, and two times to live. *)

\* DEFECT: only the failures are held against the limit.
AdmitsByFailures(u, a) == \A c \in Keys(u, a) : failures[c] < Limit(c)
Admits(u, a) == \A c \in Keys(u, a) : failures[c] + inflight[c] < Limit(c)

Reserves(u, a) ==
    inflight' = [c \in Counters |-> IF c \in Keys(u, a) THEN inflight[c] + 1 ELSE inflight[c]]

\* _RESERVE_LOGIN_SCRIPT through reserve_login_attempt, with its answer or without:
\* without it the login ends with 503 and the reservation stays.
Reserve(r, u, a, password, answered) ==
    /\ request[r].step = "idle"
    /\ made < MaxLogins
    /\ Admits(u, a)
    /\ Reserves(u, a)
    /\ made' = made + 1
    /\ request' = IF answered
                    THEN [request EXCEPT ![r] = [NoRequest EXCEPT
                            !.step = "reserved", !.user = u, !.address = a,
                            !.password = password]]
                    ELSE request
    /\ UNCHANGED <<account, session, failures, forgotten, lost>>

\* DEFECT: the DECR of a counter that has expired leaves it below zero.
BelowZero(n) == n - 1
Minus(n) == IF n = 0 THEN 0 ELSE n - 1

\* _FINISH_LOGIN_SCRIPT: a count that reaches zero, or has expired, is deleted.
Settles(r, outcome) ==
    LET u == request[r].user
        a == request[r].address
    IN  /\ inflight' = [c \in Counters |->
                IF c \in Keys(u, a) THEN Minus(inflight[c]) ELSE inflight[c]]
        /\ failures' = [c \in Counters |->
                CASE outcome = "failure" /\ c \in Keys(u, a) -> failures[c] + 1
                  [] outcome = "success" /\ c = <<u, a>> -> 0
                  [] OTHER -> failures[c]]
        /\ UNCHANGED forgotten

\* DEFECT: a counter without a time to live.
NeverExpires(c) == FALSE
\* The reservations of a counter are dropped when its oldest one is 60 seconds old,
\* whether those attempts have ended or not.
ExpireInflight(c) ==
    /\ inflight[c] > 0
    /\ forgotten[c] + Cardinality(AtWork(c)) <= MaxForgotten
    /\ inflight' = [inflight EXCEPT ![c] = 0]
    /\ forgotten' = [forgotten EXCEPT ![c] = @ + Cardinality(AtWork(c))]
    /\ UNCHANGED <<account, session, request, failures, lost, made>>

\* 15 minutes after the last failure.
ExpireFailures(c) ==
    /\ failures[c] > 0
    /\ failures' = [failures EXCEPT ![c] = 0]
    /\ UNCHANGED <<account, session, request, inflight, forgotten, lost, made>>

-----------------------------------------------------------------------------
(* login. *)

\* authenticate reads an active account and verifies the password against it.
Verify(r) ==
    LET u == request[r].user IN
    /\ request[r].step = "reserved"
    /\ Goes(r, IF u \in Users /\ account[u] = [active |-> TRUE, password |-> request[r].password]
                  THEN "verified" ELSE "wrong")
    /\ UNCHANGED <<account, session, redis, lost, made>>

\* The database fails before the session is inserted.
VerifyFails(r) ==
    /\ request[r].step \in {"reserved", "verified"}
    /\ Goes(r, "broken")
    /\ UNCHANGED <<account, session, redis, lost, made>>

Free(s) == ~Live(s) /\ \A r \in Requests : request[r].session # s

\* The transaction of authenticate.  Without the answer to its COMMIT the session is
\* there and its token is not known to anybody.
Open(r, s, answered) ==
    /\ request[r].step = "verified"
    /\ Free(s)
    /\ session' = [session EXCEPT ![s] =
            [user |-> request[r].user, password |-> request[r].password,
             held |-> FALSE, late |-> request[r].late]]
    /\ request' = IF answered
                    THEN [request EXCEPT ![r].step = "opened", ![r].session = s]
                    ELSE [request EXCEPT ![r].step = "broken"]
    /\ lost' = IF answered THEN lost ELSE lost \cup {s}
    /\ UNCHANGED <<account, redis, made>>

Outcome(r) == CASE request[r].step = "wrong" -> "failure"
                [] request[r].step = "opened" -> "success"
                [] OTHER -> "neutral"

\* finish_login_attempt, and the answer to the client.
Finish(r) ==
    /\ request[r].step \in {"wrong", "opened", "broken"}
    /\ Settles(r, Outcome(r))
    /\ session' = IF request[r].step = "opened"
                    THEN [session EXCEPT ![request[r].session].held = Live(request[r].session)]
                    ELSE session
    /\ Ends(r)
    /\ UNCHANGED <<account, lost, made>>

\* DEFECT: a login whose attempt could not be settled leaves its session.
LeavesSession(r) == Ends(r)
\* What a login does when finish_login_attempt raises: it takes its session back.
TakesBack(r) == IF request[r].step = "opened" THEN Goes(r, "orphan") ELSE Ends(r)

\* finish_login_attempt raises, and the script has run or not; it is not repeated.
FinishFails(r, ran) ==
    /\ request[r].step \in {"wrong", "opened", "broken"}
    /\ IF ran THEN Settles(r, Outcome(r)) ELSE UNCHANGED redis
    /\ TakesBack(r)
    /\ UNCHANGED <<account, session, lost, made>>

\* revoke_token, by the login that could not be settled.
Revoke(r) ==
    /\ request[r].step = "orphan"
    /\ session' = [session EXCEPT ![request[r].session] = Gone]
    /\ Ends(r)
    /\ UNCHANGED <<account, redis, lost, made>>

RevokeFails(r) ==
    /\ request[r].step = "orphan"
    /\ lost' = lost \cup ({request[r].session} \cap {s \in Sessions : Live(s)})
    /\ Ends(r)
    /\ UNCHANGED <<account, session, redis, made>>

\* The process dies; the answer of a request never arrives.
Crash(r) ==
    /\ request[r].step # "idle"
    /\ lost' = lost \cup ({request[r].session} \cap {s \in Sessions : Live(s)})
    /\ Ends(r)
    /\ UNCHANGED <<account, session, redis, made>>

-----------------------------------------------------------------------------
(* Sessions and accounts. *)

\* load_user_from_token: the session admits a request of its browser.
Admitted(s) == Live(s) /\ session[s].held /\ account[session[s].user].active

\* logout, which asks for the token alone; and the session passing expires_at.
EndSession(s) ==
    /\ Live(s)
    /\ session' = [session EXCEPT ![s] = Gone]
    /\ lost' = lost \ {s}
    /\ UNCHANGED <<account, request, redis, made>>

\* change_password, up to the verification of the current password.  It takes a session:
\* a request with an API key is not admitted to this route (main.py:641-663).
KnowPassword(r, s) ==
    /\ request[r].step = "idle"
    /\ Admitted(s)
    /\ LET u == session[s].user IN
       request' = [request EXCEPT ![r] = [NoRequest EXCEPT
            !.step = "known", !.user = u, !.password = account[u].password]]
    /\ UNCHANGED <<account, session, redis, lost, made>>

\* history: a session that is gone is nobody's.
StillLost(alive) == {s \in lost : alive[s].user # NoUser}

\* DEFECT: the other sessions of the account live on.
NoneRevoked(u) == session
\* UPDATE sessions ... WHERE user_id = u.
AllRevoked(u) == [s \in Sessions |-> IF session[s].user = u THEN Gone ELSE session[s]]

\* history: who works with what was read of account u is late from now on.
Overtakes(u, r) ==
    [x \in Requests |->
        CASE x = r -> NoRequest
          [] x # r /\ request[x].user = u /\ request[x].step \in {"verified", "known"} ->
                [request[x] EXCEPT !.late = TRUE]
          [] OTHER -> request[x]]

Reset(u) ==
    /\ account[u].password < MaxPassword
    /\ account' = [account EXCEPT ![u].password = @ + 1]
Disable(u) ==
    /\ account[u].active
    /\ account' = [account EXCEPT ![u].active = FALSE]
Changes(u) == Reset(u) \/ Disable(u)

\* The transaction of change_password.
ChangePassword(r) ==
    LET u == request[r].user IN
    /\ request[r].step = "known"
    /\ Reset(u)
    /\ session' = AllRevoked(u)
    /\ lost' = StillLost(session')
    /\ request' = Overtakes(u, r)
    /\ UNCHANGED <<redis, made>>

\* update_user of a platform administrator: another password, or the account disabled.
UpdateUser(u) ==
    /\ Changes(u)
    /\ session' = AllRevoked(u)
    /\ lost' = StillLost(session')
    /\ request' = Overtakes(u, NoUser)
    /\ UNCHANGED <<redis, made>>

\* update_user with status 'active', which revokes nothing.
Enable(u) ==
    /\ ~account[u].active
    /\ account' = [account EXCEPT ![u].active = TRUE]
    /\ UNCHANGED <<session, request, redis, lost, made>>

-----------------------------------------------------------------------------

\* A wrong password, and the present one, which may be an old one when it is verified.
Guesses(u) == {0} \cup IF u \in Users THEN {account[u].password} ELSE {}

\* What a request does next by itself.
Proceeds(r) ==
    \/ Verify(r) \/ VerifyFails(r)
    \/ \E s \in Sessions, answered \in BOOLEAN : Open(r, s, answered)
    \/ Finish(r)
    \/ \E ran \in BOOLEAN : FinishFails(r, ran)
    \/ Revoke(r) \/ RevokeFails(r)
    \/ ChangePassword(r)

Begins(r) ==
    \/ \E u \in Names, a \in Addresses, answered \in BOOLEAN :
           \E password \in Guesses(u) : Reserve(r, u, a, password, answered)
    \/ \E s \in Sessions : KnowPassword(r, s)

Next ==
    \/ \E r \in Requests : Begins(r) \/ Proceeds(r) \/ Crash(r)
    \/ \E s \in Sessions : EndSession(s)
    \/ \E u \in Users : UpdateUser(u) \/ Enable(u)
    \/ \E c \in Counters : ExpireInflight(c) \/ ExpireFailures(c)

Spec == Init /\ [][Next]_vars

\* A request goes on, or its process dies, and a time to live ends.
Fairness ==
    /\ \A r \in Requests : WF_vars(Proceeds(r) \/ Crash(r))
    /\ \A c \in Counters : WF_vars(ExpireInflight(c)) /\ WF_vars(ExpireFailures(c))
FairSpec == Spec /\ Fairness

-----------------------------------------------------------------------------
(* Properties. *)

\* The failures of a counter and the attempts still at work there never exceed its
\* limit by more than the attempts that were at work when its reservations expired
\* (security.py: the 60 seconds run from the oldest reservation, and the DECR of an
\* attempt that was forgotten takes the reservation of another one).
FailuresBounded ==
    \A c \in Counters :
        failures[c] + Cardinality(AtWork(c)) <= Limit(c) + forgotten[c]

\* A session opened with a password the account no longer has, or still there while
\* the account is disabled, belongs to a login that had verified the password before
\* the change and inserted its session after it (auth.py:133 checks neither again);
\* the other sessions are ended by the change.
SessionsCurrent ==
    \A s \in Sessions : Live(s) /\ ~session[s].late =>
        account[session[s].user] = [active |-> TRUE, password |-> session[s].password]

\* A session whose token no browser was given is in the hands of a login that will
\* deliver it or take it back, unless the process died, the answer of the COMMIT was
\* lost or taking it back failed as well (identity_routes.py:65-75).
NoOrphans ==
    \A s \in Sessions : Live(s) /\ ~session[s].held =>
        \/ s \in lost
        \/ \E r \in Requests : request[r].session = s

\* However many attempts die or stay unsettled, every name and address is admitted
\* again: a counter does not stay at its limit.
AdmitsAgain == \A c \in Counters : []<>(failures[c] + inflight[c] < Limit(c))
=============================================================================
