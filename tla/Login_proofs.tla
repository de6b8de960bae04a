---------------------------- MODULE Login_proofs ----------------------------
(***************************************************************************)
(* Proofs about Login.  A counter holds at least the attempts at work that *)
(* it has not forgotten (Counted); what a request has verified is true     *)
(* until it is late (ReadsCurrent); and only a login that opened a session *)
(* remembers one (Hands).                                                  *)
(***************************************************************************)
EXTENDS Login, FiniteSetTheorems, TLAPS

Remembered == [step : Steps, user : Names \cup {NoUser},
               address : Addresses \cup {NoAddress}, password : Nat,
               session : Sessions \cup {NoSession}, late : BOOLEAN]
Rows == [user : Users \cup {NoUser}, password : Nat, held : BOOLEAN, late : BOOLEAN]

Counted == \A c \in Counters : Cardinality(AtWork(c)) <= inflight[c] + forgotten[c]

ReadsCurrent ==
    \A r \in Requests : request[r].step = "verified" /\ ~request[r].late =>
        account[request[r].user] = [active |-> TRUE, password |-> request[r].password]

Hands ==
    \A r \in Requests : request[r].step \notin {"opened", "orphan"} =>
        request[r].session = NoSession

-----------------------------------------------------------------------------
(* Types. *)

LEMMA InitType == Init => TypeOK
<1> SUFFICES ASSUME Init PROVE TypeOK
  OBVIOUS
<1>1. \A r \in Requests : request[r] = NoRequest
  BY DEF Init
<1>2. Complete(NoRequest)
  BY DEF Complete, NoRequest, Trying
<1> QED
  BY <1>1, <1>2 DEF Init, TypeOK, NoRequest, Gone, Steps

LEMMA KeysAreCounters ==
    ASSUME NEW u \in Names, NEW a \in Addresses
    PROVE  Keys(u, a) \subseteq Counters
BY DEF Keys, Counters

LEMMA SettlesType ==
    ASSUME TypeOK, NEW r \in Requests, NEW outcome, Settles(r, outcome)
    PROVE  /\ failures' \in [Counters -> Nat]
           /\ inflight' \in [Counters -> Nat]
           /\ forgotten' = forgotten
<1>1. \A n \in Nat : Minus(n) \in Nat
  BY DEF Minus
<1> QED
  BY <1>1 DEF TypeOK, Settles

LEMMA GoesType ==
    ASSUME TypeOK, NEW r \in Requests, NEW step \in Steps, Goes(r, step)
    PROVE  /\ request' \in [Requests -> Remembered]
           /\ request'[r] = [request[r] EXCEPT !.step = step]
           /\ \A x \in Requests : x # r => request'[x] = request[x]
BY DEF TypeOK, Goes, Remembered

LEMMA EndsType ==
    ASSUME TypeOK, NEW r \in Requests, Ends(r)
    PROVE  /\ request' \in [Requests -> Remembered]
           /\ request'[r] = NoRequest
           /\ \A x \in Requests : x # r => request'[x] = request[x]
BY DEF TypeOK, Ends, Remembered, NoRequest, Steps

LEMMA AllRevokedType ==
    ASSUME TypeOK, NEW u, session' = AllRevoked(u)
    PROVE  session' \in [Sessions -> Rows]
BY DEF TypeOK, AllRevoked, Rows, Gone

\* A step of one request that leaves the tables and the counters typed.
LEMMA OneType ==
    ASSUME TypeOK, NEW r \in Requests,
           account' \in [Users -> [active : BOOLEAN, password : Nat]],
           session' \in [Sessions -> Rows],
           request' \in [Requests -> Remembered],
           \A x \in Requests : x # r => request'[x] = request[x],
           Complete(request'[r]),
           failures' \in [Counters -> Nat], inflight' \in [Counters -> Nat],
           forgotten' \in [Counters -> Nat],
           lost' \subseteq Sessions, made' \in Nat
    PROVE  TypeOK'
<1>1. ASSUME NEW x \in Requests PROVE Complete(request'[x])
  <2>1. Complete(request[x])
    BY DEF TypeOK
  <2> QED
    BY <2>1
<1> QED
  BY <1>1 DEF TypeOK, Complete, Remembered, Rows

LEMMA NoRequestComplete == Complete(NoRequest)
BY DEF Complete, NoRequest, Trying

\* What a step leaves alone is typed.
LEMMA Kept ==
    ASSUME TypeOK
    PROVE  /\ account \in [Users -> [active : BOOLEAN, password : Nat]]
           /\ session \in [Sessions -> Rows]
           /\ \A x \in Requests : request[x] \in Remembered /\ Complete(request[x])
           /\ failures \in [Counters -> Nat] /\ inflight \in [Counters -> Nat]
           /\ forgotten \in [Counters -> Nat]
           /\ lost \subseteq Sessions /\ made \in Nat
BY DEF TypeOK, Rows, Remembered

LEMMA OvertakesType ==
    ASSUME TypeOK, NEW u, NEW r, request' = Overtakes(u, r)
    PROVE  /\ request' \in [Requests -> Remembered]
           /\ \A x \in Requests :
                 \/ request'[x] = NoRequest /\ x = r
                 \/ request'[x] = request[x] /\ x # r
                        /\ ~(request[x].user = u /\ request[x].step \in {"verified", "known"})
                 \/ request'[x] = [request[x] EXCEPT !.late = TRUE] /\ x # r
                        /\ request[x].user = u
<1>1. \A x \in Requests : NoRequest \in Remembered /\ request[x] \in Remembered
                          /\ [request[x] EXCEPT !.late = TRUE] \in Remembered
  BY DEF TypeOK, Remembered, NoRequest, Steps
<1> QED
  BY <1>1 DEF Overtakes

\* A change of an account that ends its sessions.
LEMMA RevokesType ==
    ASSUME TypeOK, NEW u \in Users, NEW r, Changes(u), session' = AllRevoked(u),
           lost' = StillLost(session'), request' = Overtakes(u, r),
           UNCHANGED <<redis, made>>
    PROVE  TypeOK'
<1>0. lost' \subseteq Sessions
  BY DEF TypeOK, StillLost
<1>1. account' \in [Users -> [active : BOOLEAN, password : Nat]]
  <2>1. CASE Reset(u)
    BY <2>1 DEF TypeOK, Reset
  <2>2. CASE Disable(u)
    BY <2>2 DEF TypeOK, Disable
  <2> QED
    BY <2>1, <2>2 DEF Changes
<1>2. session' \in [Sessions -> Rows]
  BY AllRevokedType
<1>3. ASSUME NEW x \in Requests PROVE Complete(request'[x])
  <2>1. request[x] \in Remembered /\ Complete(request[x])
    BY Kept
  <2>2. CASE request'[x] = NoRequest
    BY <2>2, NoRequestComplete
  <2>3. CASE request'[x] = [request[x] EXCEPT !.late = TRUE]
    BY <2>1, <2>3 DEF Complete, Remembered
  <2> QED
    BY <2>1, <2>2, <2>3, OvertakesType
<1>4. request' \in [Requests -> Remembered]
  BY OvertakesType
<1> QED
  BY <1>0, <1>1, <1>2, <1>3, <1>4 DEF TypeOK, redis, Remembered, Rows

\* The step of a request that has begun.
LEMMA ProceedsType ==
    ASSUME TypeOK, NEW r \in Requests, Proceeds(r)
    PROVE  TypeOK'
<1> USE Kept, OneType
<1>1. ASSUME Verify(r) PROVE TypeOK'
  <2>1. PICK step \in {"verified", "wrong"} :
            Goes(r, step) /\ (step = "verified" => request[r].user \in Users)
    BY <1>1 DEF Verify
  <2>2. step \in Steps
    BY DEF Steps
  <2>3. /\ request' \in [Requests -> Remembered]
        /\ request'[r] = [request[r] EXCEPT !.step = step]
        /\ \A x \in Requests : x # r => request'[x] = request[x]
    BY <2>1, <2>2, GoesType
  <2>4. Complete(request'[r])
    BY <1>1, <2>1, <2>3 DEF Verify, Complete, Trying, Remembered
  <2> QED
    BY <1>1, <2>3, <2>4 DEF Verify, redis
<1>2. ASSUME VerifyFails(r) PROVE TypeOK'
  <2>2. "broken" \in Steps
    BY DEF Steps
  <2>3. /\ request' \in [Requests -> Remembered]
        /\ request'[r] = [request[r] EXCEPT !.step = "broken"]
        /\ \A x \in Requests : x # r => request'[x] = request[x]
    BY <1>2, <2>2, GoesType DEF VerifyFails
  <2>4. Complete(request'[r])
    BY <1>2, <2>3 DEF VerifyFails, Complete, Trying, Remembered
  <2> QED
    BY <1>2, <2>3, <2>4 DEF VerifyFails, redis
<1>3. ASSUME NEW s \in Sessions, NEW answered \in BOOLEAN, Open(r, s, answered) PROVE TypeOK'
  <2> DEFINE q == IF answered THEN [request[r] EXCEPT !.step = "opened", !.session = s]
                              ELSE [request[r] EXCEPT !.step = "broken"]
  <2>1. request[r].user \in Users /\ request[r].user \in Names /\ request[r].address \in Addresses
    BY <1>3 DEF Open, Complete, Trying
  <2>2. session' \in [Sessions -> Rows]
    BY <1>3, <2>1 DEF Open, Rows, Remembered
  <2>3. request' = [request EXCEPT ![r] = q] /\ request \in [Requests -> Remembered]
    BY <1>3 DEF TypeOK, Open, Remembered
  <2>4. q \in Remembered /\ Complete(q)
    BY <2>1 DEF Remembered, Complete, Trying, Steps
  <2>5. /\ request' \in [Requests -> Remembered]
        /\ \A x \in Requests : x # r => request'[x] = request[x]
        /\ Complete(request'[r])
    BY <2>3, <2>4
  <2> QED
    BY <1>3, <2>2, <2>5 DEF Open, redis
<1>4. ASSUME Finish(r) PROVE TypeOK'
  <2>1. session' \in [Sessions -> Rows]
    <3>1. CASE request[r].step = "opened"
      <4>1. \A x \in Rows, c \in BOOLEAN : [x EXCEPT !.held = c] \in Rows
        BY DEF Rows
      <4>2. session' = [session EXCEPT ![request[r].session].held = Live(request[r].session)]
        BY <1>4, <3>1 DEF Finish
      <4>3. session \in [Sessions -> Rows] /\ Live(request[r].session) \in BOOLEAN
        BY DEF Rows, Live
      <4> QED
        BY <4>1, <4>2, <4>3
    <3>2. CASE request[r].step # "opened"
      BY <1>4, <3>2 DEF Finish
    <3> QED
      BY <3>1, <3>2
  <2>2. /\ failures' \in [Counters -> Nat]
        /\ inflight' \in [Counters -> Nat]
        /\ forgotten' = forgotten
    BY <1>4, SettlesType DEF Finish
  <2> QED
    BY <1>4, <2>1, <2>2, EndsType, NoRequestComplete DEF Finish
<1>5. ASSUME NEW ran \in BOOLEAN, FinishFails(r, ran) PROVE TypeOK'
  <2>1. /\ failures' \in [Counters -> Nat]
        /\ inflight' \in [Counters -> Nat]
        /\ forgotten' = forgotten
    BY <1>5, SettlesType DEF FinishFails, redis
  <2>2. CASE request[r].step = "opened" /\ Goes(r, "orphan")
    <3>1. "orphan" \in Steps
      BY DEF Steps
    <3>2. /\ request' \in [Requests -> Remembered]
          /\ request'[r] = [request[r] EXCEPT !.step = "orphan"]
          /\ \A x \in Requests : x # r => request'[x] = request[x]
      BY <2>2, <3>1, GoesType
    <3>3. Complete(request'[r])
      BY <2>2, <3>2 DEF Complete, Trying, Remembered
    <3> QED
      BY <1>5, <2>1, <3>2, <3>3 DEF FinishFails
  <2>3. CASE Ends(r)
    BY <1>5, <2>1, <2>3, EndsType, NoRequestComplete DEF FinishFails
  <2> QED
    BY <1>5, <2>2, <2>3 DEF FinishFails, TakesBack
<1>6. ASSUME Revoke(r) PROVE TypeOK'
  <2>1. session' \in [Sessions -> Rows]
    BY <1>6 DEF Revoke, Gone, Rows
  <2> QED
    BY <1>6, <2>1, EndsType, NoRequestComplete DEF Revoke, redis
<1>7. ASSUME RevokeFails(r) PROVE TypeOK'
  BY <1>7, EndsType, NoRequestComplete DEF RevokeFails, redis
<1>8. ASSUME ChangePassword(r) PROVE TypeOK'
  <2>1. request[r].user \in Users
    BY <1>8 DEF ChangePassword, Complete
  <2> QED
    BY <1>8, <2>1, RevokesType DEF ChangePassword, Changes
<1> QED
  BY <1>1, <1>2, <1>3, <1>4, <1>5, <1>6, <1>7, <1>8 DEF Proceeds

LEMMA BeginsType ==
    ASSUME TypeOK, NEW r \in Requests, Begins(r)
    PROVE  TypeOK'
<1> USE Kept, OneType
<1>1. ASSUME NEW u \in Names, NEW a \in Addresses, NEW answered \in BOOLEAN,
             NEW password \in Guesses(u), Reserve(r, u, a, password, answered)
      PROVE  TypeOK'
  <2> DEFINE q == [NoRequest EXCEPT !.step = "reserved", !.user = u, !.address = a,
                                    !.password = password]
  <2>1. password \in Nat
    BY DEF Guesses
  <2>2. q \in Remembered /\ Complete(q)
    BY <2>1 DEF Remembered, NoRequest, Complete, Steps, Trying
  <2>3. request \in [Requests -> Remembered]
    BY DEF TypeOK, Remembered
  <2>4. \/ request' = [request EXCEPT ![r] = q]
        \/ request' = request
    BY <1>1 DEF Reserve
  <2>5. /\ request' \in [Requests -> Remembered]
        /\ \A x \in Requests : x # r => request'[x] = request[x]
        /\ Complete(request'[r])
    BY <2>2, <2>3, <2>4
  <2>6. inflight' \in [Counters -> Nat] /\ made' \in Nat
    BY <1>1 DEF Reserve, Reserves
  <2> QED
    BY <1>1, <2>5, <2>6 DEF Reserve
<1>2. ASSUME NEW s \in Sessions, KnowPassword(r, s) PROVE TypeOK'
  <2>1. session[s].user \in Users
    BY <1>2 DEF KnowPassword, Admitted, Live, Rows
  <2> DEFINE u == session[s].user
             q == [NoRequest EXCEPT !.step = "known", !.user = u,
                                    !.password = account[u].password]
  <2>2. q \in Remembered /\ Complete(q)
    BY <2>1, NamesAssumption DEF Remembered, NoRequest, Complete, Steps, Trying
  <2>3. request \in [Requests -> Remembered] /\ request' = [request EXCEPT ![r] = q]
    BY <1>2 DEF TypeOK, Remembered, KnowPassword
  <2>4. /\ request' \in [Requests -> Remembered]
        /\ \A x \in Requests : x # r => request'[x] = request[x]
        /\ Complete(request'[r])
    BY <2>2, <2>3
  <2> QED
    BY <1>2, <2>4 DEF KnowPassword, redis
<1> QED
  BY <1>1, <1>2 DEF Begins

\* What a request remembers when it begins.
LEMMA BeginsRequest ==
    ASSUME TypeOK, NEW r \in Requests, Begins(r)
    PROVE  /\ \A x \in Requests : x # r => request'[x] = request[x]
           /\ request[r].step = "idle"
           /\ \/ request'[r] = request[r]
              \/ /\ request'[r].step \in {"reserved", "known"}
                 /\ request'[r].session = NoSession
           /\ UNCHANGED <<account, session, lost>>
<1>0. request \in [Requests -> Remembered]
  BY DEF TypeOK, Remembered
<1>1. CASE \E u \in Names, a \in Addresses, answered \in BOOLEAN :
              \E password \in Guesses(u) : Reserve(r, u, a, password, answered)
  BY <1>0, <1>1 DEF Reserve, NoRequest
<1>2. CASE \E s \in Sessions : KnowPassword(r, s)
  BY <1>0, <1>2 DEF KnowPassword, NoRequest, redis
<1> QED
  BY <1>1, <1>2 DEF Begins

LEMMA AccountType ==
    ASSUME TypeOK, NEW u \in Users, UpdateUser(u) \/ Enable(u)
    PROVE  TypeOK'
<1>1. CASE UpdateUser(u)
  BY <1>1, RevokesType DEF UpdateUser
<1>2. CASE Enable(u)
  <2>1. account' \in [Users -> [active : BOOLEAN, password : Nat]]
    BY <1>2 DEF TypeOK, Enable
  <2> QED
    BY <1>2, <2>1 DEF TypeOK, Enable, redis
<1> QED
  BY <1>1, <1>2

LEMMA AtWorkFinite ==
    \A c : IsFiniteSet(AtWork(c)) /\ Cardinality(AtWork(c)) \in Nat
<1> TAKE c
<1>1. AtWork(c) \in SUBSET Requests
  BY DEF AtWork
<1> QED
  BY <1>1, FiniteAssumption, FS_Subset, FS_CardinalityType

LEMMA ExpiryType ==
    ASSUME TypeOK, NEW c \in Counters, ExpireInflight(c) \/ ExpireFailures(c)
    PROVE  TypeOK'
<1>1. Cardinality(AtWork(c)) \in Nat
  BY AtWorkFinite
<1>2. CASE ExpireInflight(c)
  BY <1>1, <1>2 DEF TypeOK, ExpireInflight
<1>3. CASE ExpireFailures(c)
  BY <1>3 DEF TypeOK, ExpireFailures
<1> QED
  BY <1>2, <1>3

LEMMA NextType == TypeOK /\ [Next]_vars => TypeOK'
<1> SUFFICES ASSUME TypeOK, [Next]_vars PROVE TypeOK'
  OBVIOUS
<1>1. ASSUME NEW r \in Requests, Crash(r) PROVE TypeOK'
  BY <1>1, Kept, OneType, EndsType, NoRequestComplete DEF Crash, redis
<1>2. ASSUME NEW s \in Sessions, EndSession(s) PROVE TypeOK'
  BY <1>2 DEF TypeOK, EndSession, Gone, redis
<1>3. CASE UNCHANGED vars
  BY <1>3 DEF TypeOK, vars
<1> QED
  BY <1>1, <1>2, <1>3, BeginsType, ProceedsType, AccountType, ExpiryType DEF Next

\* Type correctness.
THEOREM TypeCorrect == Spec => []TypeOK
BY InitType, NextType, PTL DEF Spec

-----------------------------------------------------------------------------
(* The failures of a counter and the attempts at work there. *)

Bounded == TypeOK /\ Counted /\ FailuresBounded

\* The counters change and the attempts at work do not become more.
LEMMA FewerAtWork ==
    ASSUME Bounded, TypeOK', \A c \in Counters : AtWork(c)' \subseteq AtWork(c),
           forgotten' = forgotten, inflight' = inflight,
           \A c \in Counters : failures'[c] <= failures[c]
    PROVE  (Counted /\ FailuresBounded)'
<1> SUFFICES ASSUME NEW c \in Counters
             PROVE  /\ Cardinality(AtWork(c)') <= inflight'[c] + forgotten'[c]
                    /\ failures'[c] + Cardinality(AtWork(c)') <= Limit(c) + forgotten'[c]
  BY DEF Counted, FailuresBounded, Limit
<1>1. /\ Cardinality(AtWork(c)') <= Cardinality(AtWork(c))
      /\ Cardinality(AtWork(c)') \in Nat /\ Cardinality(AtWork(c)) \in Nat
  BY AtWorkFinite, FS_Subset, FS_CardinalityType
<1>2. /\ Cardinality(AtWork(c)) <= inflight[c] + forgotten[c]
      /\ failures[c] + Cardinality(AtWork(c)) <= Limit(c) + forgotten[c]
      /\ Limit(c) \in Nat
  BY LimitAssumption DEF Bounded, Counted, FailuresBounded, Limit
<1>3. /\ failures[c] \in Nat /\ inflight[c] \in Nat /\ forgotten[c] \in Nat
      /\ failures'[c] \in Nat
  BY DEF Bounded, TypeOK
<1> QED
  BY <1>1, <1>2, <1>3

\* One request takes a step and is not at work where it was not before.
LEMMA OneAtWork ==
    ASSUME NEW r \in Requests, \A x \in Requests : x # r => request'[x] = request[x],
           NEW c
    PROVE  AtWork(c)' = IF At(r, c)' THEN AtWork(c) \cup {r} ELSE AtWork(c) \ {r}
BY DEF AtWork, At

LEMMA SettleBounded ==
    ASSUME Bounded, TypeOK', NEW r \in Requests, NEW outcome, Settles(r, outcome),
           request[r].step \in Trying, request'[r].step \notin Trying,
           \A x \in Requests : x # r => request'[x] = request[x]
    PROVE  (Counted /\ FailuresBounded)'
<1> SUFFICES ASSUME NEW c \in Counters
             PROVE  /\ Cardinality(AtWork(c)') <= inflight'[c] + forgotten'[c]
                    /\ failures'[c] + Cardinality(AtWork(c)') <= Limit(c) + forgotten'[c]
  BY DEF Counted, FailuresBounded, Limit
<1>1. AtWork(c)' = AtWork(c) \ {r}
  BY OneAtWork DEF At
<1>2. /\ Cardinality(AtWork(c)) <= inflight[c] + forgotten[c]
      /\ failures[c] + Cardinality(AtWork(c)) <= Limit(c) + forgotten[c]
      /\ Limit(c) \in Nat /\ Cardinality(AtWork(c)) \in Nat
  BY LimitAssumption, AtWorkFinite DEF Bounded, Counted, FailuresBounded, Limit
<1>3. /\ failures[c] \in Nat /\ inflight[c] \in Nat /\ forgotten[c] \in Nat
      /\ failures'[c] \in Nat /\ inflight'[c] \in Nat /\ forgotten' = forgotten
  BY DEF Bounded, TypeOK, Settles
<1> DEFINE u == request[r].user
           a == request[r].address
<1>4. CASE c \in Keys(u, a)
  <2>1. r \in AtWork(c)
    BY <1>4 DEF AtWork, At
  <2>2. Cardinality(AtWork(c)') = Cardinality(AtWork(c)) - 1
    BY <1>1, <2>1, AtWorkFinite, FS_RemoveElement
  <2>3. inflight'[c] = Minus(inflight[c])
    BY <1>4 DEF Settles
  <2>4. failures'[c] <= failures[c] + 1
    <3>1. failures'[c] = CASE outcome = "failure" /\ c \in Keys(u, a) -> failures[c] + 1
                           [] outcome = "success" /\ c = <<u, a>> -> 0
                           [] OTHER -> failures[c]
      BY DEF Settles
    <3>2. failures'[c] \in {failures[c] + 1, 0, failures[c]}
      BY <3>1, Zenon
    <3> QED
      BY <1>3, <3>2
  <2>5. inflight'[c] >= inflight[c] - 1
    BY <1>3, <2>3 DEF Minus
  <2>6. Cardinality(AtWork(c)') <= inflight'[c] + forgotten'[c]
    <3>1. CASE inflight[c] = 0
      BY <1>2, <1>3, <2>2, <3>1
    <3>2. CASE inflight[c] # 0
      BY <1>2, <1>3, <2>2, <2>5, <3>2
    <3> QED
      BY <3>1, <3>2
  <2> QED
    BY <1>2, <1>3, <2>2, <2>4, <2>6
<1>5. CASE c \notin Keys(u, a)
  <2>1. r \notin AtWork(c)
    BY <1>5 DEF AtWork, At
  <2>2. AtWork(c)' = AtWork(c)
    BY <1>1, <2>1
  <2>3. inflight'[c] = inflight[c] /\ failures'[c] = failures[c]
    BY <1>5 DEF Settles, Keys
  <2> QED
    BY <1>2, <1>3, <2>2, <2>3
<1> QED
  BY <1>4, <1>5

LEMMA ReserveBounded ==
    ASSUME Bounded, TypeOK', NEW r \in Requests, NEW u \in Names, NEW a \in Addresses,
           NEW answered \in BOOLEAN, NEW password, Reserve(r, u, a, password, answered)
    PROVE  (Counted /\ FailuresBounded)'
<1> SUFFICES ASSUME NEW c \in Counters
             PROVE  /\ Cardinality(AtWork(c)') <= inflight'[c] + forgotten'[c]
                    /\ failures'[c] + Cardinality(AtWork(c)') <= Limit(c) + forgotten'[c]
  BY DEF Counted, FailuresBounded, Limit
<1>1. /\ Cardinality(AtWork(c)) <= inflight[c] + forgotten[c]
      /\ failures[c] + Cardinality(AtWork(c)) <= Limit(c) + forgotten[c]
      /\ Limit(c) \in Nat /\ Cardinality(AtWork(c)) \in Nat
  BY LimitAssumption, AtWorkFinite DEF Bounded, Counted, FailuresBounded, Limit
<1>2. /\ failures[c] \in Nat /\ inflight[c] \in Nat /\ forgotten[c] \in Nat
      /\ failures' = failures /\ forgotten' = forgotten
  BY DEF Bounded, TypeOK, Reserve
<1>3. r \notin AtWork(c) /\ request \in [Requests -> Remembered]
  BY DEF AtWork, At, Trying, Reserve, Bounded, TypeOK, Remembered
<1>4. \A x \in Requests : x # r => request'[x] = request[x]
  BY <1>3 DEF Reserve
<1>5. CASE c \in Keys(u, a)
  <2>1. inflight'[c] = inflight[c] + 1 /\ failures[c] + inflight[c] < Limit(c)
    BY <1>5 DEF Reserve, Reserves, Admits
  <2>2. Cardinality(AtWork(c)') <= Cardinality(AtWork(c)) + 1 /\ Cardinality(AtWork(c)') \in Nat
    <3>1. CASE At(r, c)'
      <4>1. AtWork(c)' = AtWork(c) \cup {r}
        BY <1>4, <3>1, OneAtWork
      <4>2. Cardinality(AtWork(c) \cup {r}) = Cardinality(AtWork(c)) + 1
        BY <1>3, AtWorkFinite, FS_AddElement
      <4> QED
        BY <1>1, <4>1, <4>2
    <3>2. CASE ~At(r, c)'
      <4>1. AtWork(c)' = AtWork(c)
        BY <1>3, <1>4, <3>2, OneAtWork
      <4> QED
        BY <1>1, <4>1
    <3> QED
      BY <3>1, <3>2
  <2> QED
    BY <1>1, <1>2, <2>1, <2>2
<1>6. CASE c \notin Keys(u, a)
  <2>1. inflight'[c] = inflight[c]
    BY <1>6 DEF Reserve, Reserves
  <2>2. ~At(r, c)'
    <3>1. request'[r] = request[r] \/ (request'[r].user = u /\ request'[r].address = a)
      BY <1>3 DEF Reserve, NoRequest
    <3> QED
      BY <1>3, <1>6, <3>1 DEF AtWork, At
  <2>3. AtWork(c)' = AtWork(c)
    BY <1>3, <1>4, <2>2, OneAtWork
  <2> QED
    BY <1>1, <1>2, <2>1, <2>3
<1> QED
  BY <1>5, <1>6

LEMMA StillAtWork ==
    ASSUME NEW r \in Requests, \A x \in Requests : x # r => request'[x] = request[x],
           request'[r].step \in Trying =>
               /\ request[r].step \in Trying
               /\ request'[r].user = request[r].user
               /\ request'[r].address = request[r].address
    PROVE  \A c \in Counters : AtWork(c)' \subseteq AtWork(c)
BY DEF AtWork, At

LEMMA ExpireBounded ==
    ASSUME Bounded, TypeOK', NEW d \in Counters, ExpireInflight(d)
    PROVE  (Counted /\ FailuresBounded)'
<1> SUFFICES ASSUME NEW c \in Counters
             PROVE  /\ Cardinality(AtWork(c)) <= inflight'[c] + forgotten'[c]
                    /\ failures[c] + Cardinality(AtWork(c)) <= Limit(c) + forgotten'[c]
  BY DEF Counted, FailuresBounded, Limit, ExpireInflight, AtWork, At
<1>1. /\ Cardinality(AtWork(c)) <= inflight[c] + forgotten[c]
      /\ failures[c] + Cardinality(AtWork(c)) <= Limit(c) + forgotten[c]
      /\ Limit(c) \in Nat /\ Cardinality(AtWork(c)) \in Nat
  BY LimitAssumption, AtWorkFinite DEF Bounded, Counted, FailuresBounded, Limit
<1>2. /\ failures[c] \in Nat /\ inflight[c] \in Nat /\ forgotten[c] \in Nat
  BY DEF Bounded, TypeOK
<1>3. CASE c = d
  <2>1. inflight'[c] = 0 /\ forgotten'[c] = forgotten[c] + Cardinality(AtWork(c))
    BY <1>3 DEF Bounded, TypeOK, ExpireInflight
  <2> QED
    BY <1>1, <1>2, <2>1
<1>4. CASE c # d
  <2>1. inflight'[c] = inflight[c] /\ forgotten'[c] = forgotten[c]
    BY <1>4 DEF Bounded, TypeOK, ExpireInflight
  <2> QED
    BY <1>1, <1>2, <2>1
<1> QED
  BY <1>3, <1>4

\* A request that is overtaken is at work as before.
LEMMA OvertakenAtWork ==
    ASSUME TypeOK, NEW u, NEW r, request' = Overtakes(u, r)
    PROVE  \A c \in Counters : AtWork(c)' \subseteq AtWork(c)
<1> SUFFICES ASSUME NEW c \in Counters, NEW x \in Requests, At(x, c)' PROVE At(x, c)
  BY DEF AtWork
<1>1. request[x] \in Remembered
  BY Kept
<1>2. CASE request'[x] = NoRequest
  BY <1>2 DEF At, NoRequest, Trying
<1>3. CASE request'[x] = request[x]
  BY <1>3 DEF At
<1>4. CASE request'[x] = [request[x] EXCEPT !.late = TRUE]
  BY <1>1, <1>4 DEF At, Remembered
<1> QED
  BY <1>2, <1>3, <1>4, OvertakesType

LEMMA NextBounded == Bounded /\ [Next]_vars => Bounded'
<1> SUFFICES ASSUME Bounded, [Next]_vars PROVE (Counted /\ FailuresBounded)'
  BY NextType DEF Bounded
<1>0. TypeOK /\ TypeOK' /\ \A n \in Nat : n <= n
  BY NextType DEF Bounded
<1>a. \A x \in Requests : request[x] \in Remembered
  BY <1>0, Kept
<1>b. /\ failures \in [Counters -> Nat]
      /\ (failures' = failures => \A c \in Counters : failures'[c] <= failures[c])
  BY <1>0 DEF TypeOK
<1> DEFINE Goal == (Counted /\ FailuresBounded)'
<1>1. ASSUME NEW r \in Requests, Begins(r) PROVE Goal
  <2>1. ASSUME NEW u \in Names, NEW a \in Addresses, NEW answered \in BOOLEAN,
               NEW password \in Guesses(u), Reserve(r, u, a, password, answered)
        PROVE  Goal
    BY <1>0, <2>1, ReserveBounded
  <2>2. ASSUME NEW s \in Sessions, KnowPassword(r, s) PROVE Goal
    <3>1. /\ \A x \in Requests : x # r => request'[x] = request[x]
          /\ request'[r].step = "known"
      BY <1>0, <2>2 DEF KnowPassword, TypeOK, NoRequest
    <3>2. \A c \in Counters : AtWork(c)' \subseteq AtWork(c)
      BY <3>1, StillAtWork DEF Trying
    <3> QED
      BY <1>0, <1>b, <2>2, <3>2, FewerAtWork DEF KnowPassword, redis
  <2> QED
    BY <1>1, <2>1, <2>2 DEF Begins
<1>2. ASSUME NEW r \in Requests, NEW step \in Steps, Goes(r, step), UNCHANGED redis,
             step \in Trying => request[r].step \in Trying
      PROVE  Goal
  <2>1. /\ request'[r] = [request[r] EXCEPT !.step = step]
        /\ \A x \in Requests : x # r => request'[x] = request[x]
    BY <1>0, <1>2, GoesType
  <2>2. \A c \in Counters : AtWork(c)' \subseteq AtWork(c)
    BY <1>a, <1>2, <2>1, StillAtWork DEF Remembered
  <2> QED
    BY <1>0, <1>b, <1>2, <2>2, FewerAtWork DEF redis
<1>3. ASSUME NEW r \in Requests, Ends(r), UNCHANGED redis PROVE Goal
  <2>1. /\ request'[r] = NoRequest
        /\ \A x \in Requests : x # r => request'[x] = request[x]
    BY <1>0, <1>3, EndsType
  <2>2. \A c \in Counters : AtWork(c)' \subseteq AtWork(c)
    BY <2>1, StillAtWork DEF NoRequest, Trying
  <2> QED
    BY <1>0, <1>b, <1>3, <2>2, FewerAtWork DEF redis
<1>4. ASSUME NEW r \in Requests, request[r].step \in {"wrong", "opened", "broken"},
             Settles(r, Outcome(r)), Ends(r) \/ Goes(r, "orphan")
      PROVE  Goal
  <2>1. "orphan" \in Steps
    BY DEF Steps
  <2>2. \A x \in Requests : x # r => request'[x] = request[x]
    BY <1>0, <1>4, <2>1, EndsType, GoesType
  <2>3. request'[r].step \notin Trying
    <3>1. CASE Ends(r)
      BY <1>0, <3>1, EndsType DEF NoRequest, Trying
    <3>2. CASE Goes(r, "orphan")
      <4>1. request'[r] = [request[r] EXCEPT !.step = "orphan"]
        BY <1>0, <2>1, <3>2, GoesType
      <4> QED
        BY <1>a, <4>1 DEF Trying, Remembered
    <3> QED
      BY <1>4, <3>1, <3>2
  <2>4. request[r].step \in Trying
    BY <1>4 DEF Trying
  <2> QED
    BY <1>0, <1>4, <2>2, <2>3, <2>4, SettleBounded
<1>5. ASSUME NEW u, NEW r, request' = Overtakes(u, r), UNCHANGED redis PROVE Goal
  BY <1>0, <1>b, <1>5, OvertakenAtWork, FewerAtWork DEF redis
<1>6. ASSUME UNCHANGED <<request, inflight, forgotten>>,
             \A c \in Counters : failures'[c] <= failures[c]
      PROVE  Goal
  <2>1. \A c \in Counters : AtWork(c)' \subseteq AtWork(c)
    BY <1>6 DEF AtWork, At
  <2> QED
    BY <1>0, <1>6, <2>1, FewerAtWork
<1>7. ASSUME NEW r \in Requests, Proceeds(r) PROVE Goal
  <2>1. CASE Verify(r) \/ VerifyFails(r)
    BY <1>2, <2>1 DEF Verify, VerifyFails, Steps, Trying
  <2>2. ASSUME NEW s \in Sessions, NEW answered \in BOOLEAN, Open(r, s, answered) PROVE Goal
    <3>1. /\ \A x \in Requests : x # r => request'[x] = request[x]
          /\ request'[r].user = request[r].user
          /\ request'[r].address = request[r].address
          /\ request[r].step \in Trying
      BY <1>0, <1>a, <2>2 DEF Open, TypeOK, Remembered, Trying
    <3>2. \A c \in Counters : AtWork(c)' \subseteq AtWork(c)
      BY <3>1, StillAtWork
    <3> QED
      BY <1>0, <1>b, <2>2, <3>2, FewerAtWork DEF Open, redis
  <2>3. CASE Finish(r)
    BY <1>4, <2>3 DEF Finish
  <2>4. ASSUME NEW ran \in BOOLEAN, FinishFails(r, ran) PROVE Goal
    <3>1. CASE ran
      BY <1>4, <2>4, <3>1 DEF FinishFails, TakesBack
    <3>2. CASE ~ran
      BY <1>2, <1>3, <2>4, <3>2 DEF FinishFails, TakesBack, Steps, Trying
    <3> QED
      BY <3>1, <3>2
  <2>5. CASE Revoke(r) \/ RevokeFails(r)
    BY <1>3, <2>5 DEF Revoke, RevokeFails
  <2>6. CASE ChangePassword(r)
    BY <1>5, <2>6 DEF ChangePassword
  <2> QED
    BY <1>7, <2>1, <2>2, <2>3, <2>4, <2>5, <2>6 DEF Proceeds
<1>8. ASSUME NEW c \in Counters, ExpireFailures(c) PROVE Goal
  <2>1. \A d \in Counters : failures'[d] <= failures[d]
    BY <1>b, <1>8 DEF ExpireFailures
  <2> QED
    BY <1>6, <1>8, <2>1 DEF ExpireFailures
<1>9. ASSUME NEW r \in Requests, Crash(r) PROVE Goal
  BY <1>3, <1>9 DEF Crash
<1>10. ASSUME NEW s \in Sessions, EndSession(s) PROVE Goal
  BY <1>6, <1>b, <1>10 DEF EndSession, redis
<1>11. ASSUME NEW u \in Users, UpdateUser(u) PROVE Goal
  BY <1>5, <1>11 DEF UpdateUser
<1>12. ASSUME NEW u \in Users, Enable(u) PROVE Goal
  BY <1>6, <1>b, <1>12 DEF Enable, redis
<1>13. CASE UNCHANGED vars
  BY <1>6, <1>b, <1>13 DEF vars
<1> QED
  BY <1>0, <1>1, <1>7, <1>8, <1>9, <1>10, <1>11, <1>12, <1>13, ExpireBounded DEF Next

\* The failures of a counter, with the attempts at work there, exceed its limit by no
\* more than the attempts its expiring reservations forgot, with any number of logins.
THEOREM FailuresAreBounded == Spec => []FailuresBounded
<1>1. Init => Bounded
  <2> SUFFICES ASSUME Init PROVE Bounded
    OBVIOUS
  <2>1. \A c : AtWork(c) = {}
    BY DEF Init, AtWork, At, NoRequest, Trying
  <2>2. \A c \in Counters : Cardinality(AtWork(c)) = 0
    BY <2>1, FS_EmptySet
  <2> QED
    BY <2>2, InitType, LimitAssumption DEF Bounded, Counted, FailuresBounded, Limit, Init
<1>2. Bounded => FailuresBounded
  BY DEF Bounded
<1> QED
  BY <1>1, <1>2, NextBounded, PTL DEF Spec

-----------------------------------------------------------------------------
(* Sessions and the passwords they were opened with. *)

Current == TypeOK /\ SessionsCurrent /\ ReadsCurrent

\* A change of account u ends its sessions and makes its logins late.
LEMMA RevokesCurrent ==
    ASSUME Current, NEW u \in Users, NEW r, Changes(u), session' = AllRevoked(u),
           request' = Overtakes(u, r)
    PROVE  (SessionsCurrent /\ ReadsCurrent)'
<1>1. \A v \in Users : v # u => account'[v] = account[v]
  <2>1. CASE Reset(u)
    BY <2>1 DEF Current, TypeOK, Reset
  <2>2. CASE Disable(u)
    BY <2>2 DEF Current, TypeOK, Disable
  <2> QED
    BY <2>1, <2>2 DEF Changes
<1>2. ASSUME NEW s \in Sessions, Live(s)', ~session'[s].late
      PROVE  account'[session'[s].user] =
                 [active |-> TRUE, password |-> session'[s].password]
  <2>1. session'[s] = session[s] /\ session[s].user # u /\ Live(s)
    BY <1>2 DEF AllRevoked, Live, Gone
  <2>2. session[s].user \in Users
    BY <2>1 DEF Current, TypeOK, Live
  <2> QED
    BY <1>1, <1>2, <2>1, <2>2 DEF Current, SessionsCurrent
<1>3. ASSUME NEW x \in Requests, request'[x].step = "verified", ~request'[x].late
      PROVE  account'[request'[x].user] =
                 [active |-> TRUE, password |-> request'[x].password]
  <2>1. request[x] \in Remembered /\ Complete(request[x])
    BY Kept DEF Current
  <2>2. request'[x] # NoRequest
    BY <1>3 DEF NoRequest
  <2>3. request'[x] # [request[x] EXCEPT !.late = TRUE]
    BY <1>3, <2>1 DEF Remembered
  <2>4. request'[x] = request[x] /\ request[x].user # u
    BY <1>3, <2>2, <2>3, OvertakesType DEF Current
  <2>5. request[x].user \in Users
    BY <1>3, <2>1, <2>4 DEF Complete
  <2> QED
    BY <1>1, <1>3, <2>4, <2>5 DEF Current, ReadsCurrent
<1> QED
  BY <1>2, <1>3 DEF SessionsCurrent, ReadsCurrent

LEMMA NextCurrent == Current /\ [Next]_vars => Current'
<1> SUFFICES ASSUME Current, [Next]_vars PROVE (SessionsCurrent /\ ReadsCurrent)'
  BY NextType DEF Current
<1> USE DEF Current
<1>a. \A x \in Requests : request[x] \in Remembered /\ Complete(request[x])
  BY Kept
<1> DEFINE Goal == (SessionsCurrent /\ ReadsCurrent)'
<1>1. ASSUME NEW r \in Requests, UNCHANGED account,
             \A x \in Requests : x # r => request'[x] = request[x],
             request'[r].step # "verified",
             \A s \in Sessions :
                 \/ session'[s].user = NoUser
                 \/ /\ session'[s].user = session[s].user
                    /\ session'[s].password = session[s].password
                    /\ session'[s].late = session[s].late
      PROVE  Goal
  BY <1>1 DEF SessionsCurrent, ReadsCurrent, Live
<1>2. ASSUME UNCHANGED <<account, session, request>> PROVE Goal
  BY <1>2 DEF SessionsCurrent, ReadsCurrent, Live
<1>3. ASSUME NEW r \in Requests, Begins(r) PROVE Goal
  <2>1. /\ \A x \in Requests : x # r => request'[x] = request[x]
        /\ request'[r] = request[r] \/ request'[r].step \in {"reserved", "known"}
        /\ UNCHANGED <<account, session>>
    BY <1>3, BeginsRequest
  <2> QED
    BY <2>1 DEF SessionsCurrent, ReadsCurrent, Live
<1>4. ASSUME NEW r \in Requests, Ends(r), UNCHANGED account,
             \A s \in Sessions :
                 \/ session'[s].user = NoUser
                 \/ /\ session'[s].user = session[s].user
                    /\ session'[s].password = session[s].password
                    /\ session'[s].late = session[s].late
      PROVE  Goal
  <2>1. /\ request'[r] = NoRequest
        /\ \A x \in Requests : x # r => request'[x] = request[x]
    BY <1>4, EndsType
  <2> QED
    BY <1>1, <1>4, <2>1 DEF NoRequest
<1>5. ASSUME NEW r \in Requests, Proceeds(r) PROVE Goal
  <2>1. CASE Verify(r)
    <3>1. PICK step \in {"verified", "wrong"} :
              /\ Goes(r, step)
              /\ step = "verified" =>
                    account[request[r].user] = [active |-> TRUE, password |-> request[r].password]
      BY <2>1 DEF Verify
    <3>2. step \in Steps
      BY DEF Steps
    <3>3. /\ request'[r] = [request[r] EXCEPT !.step = step]
          /\ \A x \in Requests : x # r => request'[x] = request[x]
      BY <3>1, <3>2, GoesType
    <3>4. UNCHANGED <<account, session>>
      BY <2>1 DEF Verify
    <3>5. /\ request'[r].step = step /\ request'[r].user = request[r].user
          /\ request'[r].password = request[r].password
      BY <1>a, <3>3 DEF Remembered
    <3>6. ReadsCurrent'
      BY <3>1, <3>3, <3>4, <3>5 DEF ReadsCurrent
    <3>7. SessionsCurrent'
      BY <3>4 DEF SessionsCurrent, Live
    <3> QED
      BY <3>6, <3>7
  <2>2. ASSUME NEW step \in {"broken", "orphan"}, Goes(r, step), UNCHANGED <<account, session>>
        PROVE  Goal
    <3>1. step \in Steps
      BY DEF Steps
    <3>2. /\ request'[r] = [request[r] EXCEPT !.step = step]
          /\ \A x \in Requests : x # r => request'[x] = request[x]
      BY <2>2, <3>1, GoesType
    <3> QED
      BY <1>a, <2>2, <3>2 DEF SessionsCurrent, ReadsCurrent, Live, Remembered
  <2>3. CASE VerifyFails(r)
    BY <2>2, <2>3 DEF VerifyFails
  <2>4. ASSUME NEW s \in Sessions, NEW answered \in BOOLEAN, Open(r, s, answered) PROVE Goal
    <3>1. /\ \A x \in Requests : x # r => request'[x] = request[x]
          /\ request'[r].step # "verified"
          /\ UNCHANGED account
          /\ request[r].step = "verified"
      BY <1>a, <2>4 DEF Open, TypeOK, Remembered
    <3>2. /\ session'[s] = [user |-> request[r].user, password |-> request[r].password,
                            held |-> FALSE, late |-> request[r].late]
          /\ \A t \in Sessions : t # s => session'[t] = session[t]
      BY <2>4 DEF Open, TypeOK
    <3>3. ~session'[s].late => account[session'[s].user] =
                 [active |-> TRUE, password |-> session'[s].password]
      BY <3>1, <3>2 DEF ReadsCurrent
    <3>4. ReadsCurrent'
      BY <3>1 DEF ReadsCurrent
    <3>5. SessionsCurrent'
      BY <3>1, <3>2, <3>3 DEF SessionsCurrent, Live
    <3> QED
      BY <3>4, <3>5
  <2>5. CASE Finish(r)
    <3>1. \A s \in Sessions : session'[s].user = session[s].user
              /\ session'[s].password = session[s].password
              /\ session'[s].late = session[s].late
      BY <2>5 DEF Finish, TypeOK
    <3>2. Ends(r) /\ UNCHANGED account
      BY <2>5 DEF Finish
    <3> QED
      BY <1>4, <3>1, <3>2
  <2>6. ASSUME NEW ran \in BOOLEAN, FinishFails(r, ran) PROVE Goal
    BY <1>4, <2>2, <2>6 DEF FinishFails, TakesBack
  <2>7. CASE Revoke(r)
    <3>1. \A s \in Sessions : session'[s] = Gone \/ session'[s] = session[s]
      BY <2>7 DEF Revoke, TypeOK
    <3>2. Ends(r) /\ UNCHANGED account
      BY <2>7 DEF Revoke
    <3>3. \A s \in Sessions :
                 \/ session'[s].user = NoUser
                 \/ /\ session'[s].user = session[s].user
                    /\ session'[s].password = session[s].password
                    /\ session'[s].late = session[s].late
      BY <3>1 DEF Gone
    <3> QED
      BY <1>4, <3>2, <3>3, Zenon
  <2>8. CASE RevokeFails(r)
    <3>1. Ends(r) /\ UNCHANGED <<account, session>>
      BY <2>8 DEF RevokeFails
    <3> QED
      BY <1>4, <3>1
  <2>9. CASE ChangePassword(r)
    <3>1. request[r].user \in Users
      BY <1>a, <2>9 DEF ChangePassword, Complete
    <3> QED
      BY <2>9, <3>1, RevokesCurrent DEF ChangePassword, Changes
  <2> QED
    BY <1>5, <2>1, <2>3, <2>4, <2>5, <2>6, <2>7, <2>8, <2>9 DEF Proceeds
<1>6. ASSUME NEW r \in Requests, Crash(r) PROVE Goal
  BY <1>4, <1>6 DEF Crash
<1>7. ASSUME NEW s \in Sessions, EndSession(s) PROVE Goal
  <2>1. \A t \in Sessions : session'[t] = Gone \/ session'[t] = session[t]
    BY <1>7 DEF EndSession, TypeOK
  <2> QED
    BY <1>7, <2>1 DEF EndSession, SessionsCurrent, ReadsCurrent, Live, Gone
<1>8. ASSUME NEW u \in Users, UpdateUser(u) PROVE Goal
  BY <1>8, RevokesCurrent DEF UpdateUser
<1>9. ASSUME NEW u \in Users, Enable(u) PROVE Goal
  <2>1. /\ \A v \in Users : v # u => account'[v] = account[v]
        /\ ~account[u].active
        /\ UNCHANGED <<session, request>>
    BY <1>9 DEF Enable, TypeOK
  <2>2. \A s \in Sessions : Live(s) => session[s].user \in Users
    BY DEF TypeOK, Live
  <2>3. \A x \in Requests : request[x].step = "verified" => request[x].user \in Users
    BY <1>a DEF Complete
  <2> QED
    BY <2>1, <2>2, <2>3 DEF SessionsCurrent, ReadsCurrent, Live
<1>10. ASSUME NEW c \in Counters, ExpireInflight(c) \/ ExpireFailures(c) PROVE Goal
  BY <1>2, <1>10 DEF ExpireInflight, ExpireFailures
<1>11. CASE UNCHANGED vars
  BY <1>2, <1>11 DEF vars
<1> QED
  BY <1>3, <1>5, <1>6, <1>7, <1>8, <1>9, <1>10, <1>11 DEF Next

\* A session that is there after a change of the password or a suspension is one of a
\* login that verified the password before and inserted the session after.
THEOREM SessionsAreCurrent == Spec => []SessionsCurrent
<1>1. Init => Current
  BY InitType DEF Init, Current, SessionsCurrent, ReadsCurrent, Live, Gone, NoRequest
<1>2. Current => SessionsCurrent
  BY DEF Current
<1> QED
  BY <1>1, <1>2, NextCurrent, PTL DEF Spec

-----------------------------------------------------------------------------
(* Sessions nobody holds. *)

Owned == TypeOK /\ NoOrphans /\ Hands

LEMMA NextOwned == Owned /\ [Next]_vars => Owned'
<1> SUFFICES ASSUME Owned, [Next]_vars PROVE (NoOrphans /\ Hands)'
  BY NextType DEF Owned
<1> USE DEF Owned
<1>a. \A x \in Requests : request[x] \in Remembered /\ Complete(request[x])
  BY Kept
<1> DEFINE Goal == (NoOrphans /\ Hands)'
\* Sessions end, or are as before, and requests keep theirs.
<1>1. ASSUME \A s \in Sessions : session'[s].user = NoUser \/ session'[s] = session[s],
             \A s \in Sessions : s \in lost => s \in lost' \/ session'[s].user = NoUser,
             \A x \in Requests : request[x].session = request'[x].session
                                  /\ (request[x].step \in {"opened", "orphan"}
                                         <=> request'[x].step \in {"opened", "orphan"})
      PROVE  Goal
  BY <1>1 DEF NoOrphans, Hands, Live
\* A request ends, and the session it has goes, is held or is lost.
<1>2. ASSUME NEW r \in Requests, Ends(r), lost \subseteq lost',
             \A s \in Sessions : session'[s].user = NoUser \/ session'[s] = session[s]
                                 \/ session'[s].held,
             request[r].session \in Sessions =>
                 LET s == request[r].session IN
                 session'[s].user = NoUser \/ session'[s].held \/ s \in lost'
      PROVE  Goal
  <2>1. /\ request'[r] = NoRequest
        /\ \A x \in Requests : x # r => request'[x] = request[x]
    BY <1>2, EndsType
  <2>2. Hands'
    BY <2>1 DEF Hands, NoRequest
  <2>3. ASSUME NEW s \in Sessions, Live(s)', ~session'[s].held
        PROVE  s \in lost' \/ \E x \in Requests : request'[x].session = s
    <3>1. Live(s) /\ ~session[s].held
      BY <1>2, <2>3 DEF Live
    <3>2. CASE s \in lost
      BY <1>2, <3>2
    <3>3. ASSUME NEW x \in Requests, request[x].session = s
          PROVE  s \in lost' \/ \E y \in Requests : request'[y].session = s
      BY <1>2, <2>1, <2>3, <3>3 DEF Live
    <3> QED
      BY <3>1, <3>2, <3>3 DEF NoOrphans
  <2> QED
    BY <2>2, <2>3 DEF NoOrphans
<1>3. ASSUME NEW r \in Requests, NEW step \in Steps, Goes(r, step),
             UNCHANGED <<session, lost>>,
             request[r].step \in {"opened", "orphan"} <=> step \in {"opened", "orphan"}
      PROVE  Goal
  <2>1. /\ request'[r] = [request[r] EXCEPT !.step = step]
        /\ \A x \in Requests : x # r => request'[x] = request[x]
    BY <1>3, GoesType
  <2>2. \A x \in Requests : request[x].session = request'[x].session
            /\ (request[x].step \in {"opened", "orphan"}
                   <=> request'[x].step \in {"opened", "orphan"})
    BY <1>a, <1>3, <2>1 DEF Remembered
  <2> QED
    BY <1>1, <1>3, <2>2
<1>4. ASSUME NEW u \in Users, NEW r, session' = AllRevoked(u), lost' = StillLost(session'),
             request' = Overtakes(u, r), r \in Requests => request[r].step = "known"
      PROVE  Goal
  <2>1. \A s \in Sessions : session'[s].user = NoUser \/ session'[s] = session[s]
    BY <1>4 DEF AllRevoked, Gone
  <2>2. \A s \in Sessions : s \in lost => s \in lost' \/ session'[s].user = NoUser
    BY <1>4 DEF StillLost
  <2>3. ASSUME NEW x \in Requests
        PROVE  request[x].session = request'[x].session
            /\ (request[x].step \in {"opened", "orphan"}
                   <=> request'[x].step \in {"opened", "orphan"})
    <3>1. CASE request'[x] = NoRequest /\ x = r
      BY <1>4, <3>1 DEF Hands, NoRequest
    <3>2. CASE request'[x] = request[x]
      BY <3>2
    <3>3. CASE request'[x] = [request[x] EXCEPT !.late = TRUE]
      BY <1>a, <3>3 DEF Remembered
    <3> QED
      BY <1>4, <3>1, <3>2, <3>3, OvertakesType
  <2> QED
    BY <1>1, <2>1, <2>2, <2>3
<1>5. ASSUME NEW r \in Requests, Begins(r) PROVE Goal
  <2>1. /\ \A x \in Requests : x # r => request'[x] = request[x]
        /\ \/ request'[r] = request[r]
           \/ /\ request'[r].step \in {"reserved", "known"}
              /\ request'[r].session = NoSession
        /\ request[r].step = "idle"
        /\ UNCHANGED <<lost, session>>
    BY <1>5, BeginsRequest
  <2>2. request[r].session = NoSession
    BY <2>1 DEF Hands
  <2> QED
    BY <1>1, <2>1, <2>2
<1>6. ASSUME NEW r \in Requests, Proceeds(r) PROVE Goal
  <2>1. CASE Verify(r) \/ VerifyFails(r)
    BY <1>3, <2>1 DEF Verify, VerifyFails, Steps
  <2>2. ASSUME NEW s \in Sessions, NEW answered \in BOOLEAN, Open(r, s, answered) PROVE Goal
    <3>1. /\ \A x \in Requests : x # r => request'[x] = request[x]
          /\ \/ request'[r].step = "opened" /\ request'[r].session = s
             \/ request'[r].step = "broken" /\ request'[r].session = request[r].session
                  /\ s \in lost'
          /\ lost \subseteq lost'
          /\ request[r].step = "verified"
      BY <1>a, <2>2 DEF Open, TypeOK, Remembered
    <3>2. \A t \in Sessions : t # s => session'[t] = session[t]
      BY <2>2 DEF Open, TypeOK
    <3>3. request[r].session = NoSession
      BY <3>1 DEF Hands
    <3> QED
      BY <3>1, <3>2, <3>3, NamesAssumption DEF NoOrphans, Hands, Live
  <2>3. CASE Finish(r)
    <3>1. CASE request[r].step = "opened"
      <4>1. request[r].session \in Sessions
        BY <1>a, <3>1 DEF Complete
      <4>2. /\ \A s \in Sessions : s # request[r].session => session'[s] = session[s]
            /\ session'[request[r].session] =
                 [session[request[r].session] EXCEPT !.held = Live(request[r].session)]
        BY <2>3, <3>1, <4>1 DEF Finish, TypeOK
      <4>3. session'[request[r].session].user = NoUser \/ session'[request[r].session].held
        <5>1. session[request[r].session] \in Rows
          BY <4>1, Kept
        <5> QED
          BY <4>2, <5>1 DEF Live, Rows
      <4> QED
        BY <1>2, <2>3, <4>2, <4>3 DEF Finish
    <3>2. CASE request[r].step # "opened"
      <4>1. request[r].session = NoSession
        BY <2>3, <3>2 DEF Finish, Hands
      <4> QED
        BY <1>2, <2>3, <3>2, <4>1, NamesAssumption DEF Finish
    <3> QED
      BY <3>1, <3>2
  <2>4. ASSUME NEW ran \in BOOLEAN, FinishFails(r, ran) PROVE Goal
    <3>1. CASE request[r].step = "opened"
      BY <1>3, <2>4, <3>1 DEF FinishFails, TakesBack, Steps
    <3>2. CASE request[r].step # "opened"
      <4>1. request[r].session = NoSession
        BY <2>4, <3>2 DEF FinishFails, Hands
      <4> QED
        BY <1>2, <2>4, <3>2, <4>1, NamesAssumption DEF FinishFails, TakesBack
    <3> QED
      BY <3>1, <3>2
  <2>5. CASE Revoke(r)
    <3>1. request[r].session \in Sessions
      BY <1>a, <2>5 DEF Complete, Revoke
    <3>2. /\ \A s \in Sessions : session'[s] = Gone \/ session'[s] = session[s]
          /\ session'[request[r].session] = Gone
      BY <2>5, <3>1 DEF Revoke, TypeOK
    <3> QED
      BY <1>2, <2>5, <3>2 DEF Revoke, Gone
  <2>6. CASE RevokeFails(r)
    BY <1>2, <2>6 DEF RevokeFails, Live
  <2>7. CASE ChangePassword(r)
    <3>1. request[r].user \in Users
      BY <1>a, <2>7 DEF ChangePassword, Complete
    <3> QED
      BY <1>4, <2>7, <3>1 DEF ChangePassword
  <2> QED
    BY <1>6, <2>1, <2>2, <2>3, <2>4, <2>5, <2>6, <2>7 DEF Proceeds
<1>7. ASSUME NEW r \in Requests, Crash(r) PROVE Goal
  BY <1>2, <1>7 DEF Crash, Live
<1>8. ASSUME NEW s \in Sessions, EndSession(s) PROVE Goal
  <2>1. \A t \in Sessions : IF t = s THEN session'[t] = Gone ELSE session'[t] = session[t]
    BY <1>8 DEF EndSession, TypeOK
  <2> QED
    BY <1>1, <1>8, <2>1 DEF EndSession, Gone
<1>9. ASSUME NEW u \in Users, UpdateUser(u) PROVE Goal
  BY <1>4, <1>9, NamesAssumption DEF UpdateUser
<1>10. ASSUME UNCHANGED <<session, request, lost>> PROVE Goal
  BY <1>1, <1>10
<1>11. ASSUME NEW u \in Users, Enable(u) PROVE Goal
  BY <1>10, <1>11 DEF Enable
<1>12. ASSUME NEW c \in Counters, ExpireInflight(c) \/ ExpireFailures(c) PROVE Goal
  BY <1>10, <1>12 DEF ExpireInflight, ExpireFailures
<1>13. CASE UNCHANGED vars
  BY <1>10, <1>13 DEF vars
<1> QED
  BY <1>5, <1>6, <1>7, <1>8, <1>9, <1>11, <1>12, <1>13 DEF Next

\* A session nobody can use or name is the trace of a failure that could not be
\* undone: no login that is answered leaves one.
THEOREM NoOrphanSessions == Spec => []NoOrphans
<1>1. Init => Owned
  BY InitType DEF Init, Owned, NoOrphans, Hands, Live, Gone, NoRequest
<1>2. Owned => NoOrphans
  BY DEF Owned
<1> QED
  BY <1>1, <1>2, NextOwned, PTL DEF Spec
=============================================================================
