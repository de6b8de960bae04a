--------------------------- MODULE GenerationRun ---------------------------
(***************************************************************************)
(* The runs that answer questions under one customer API key, and the      *)
(* token account of that key: _create_generation_run of main.py, cancel_run*)
(* of api/retrieval_routes.py, stream_generation_run of rag/chat.py and    *)
(* core/api_keys.py.                                                       *)
(*                                                                         *)
(* A question is put to one knowledge base or to the assistant, which      *)
(* searches all of the key's space.  What is set aside before a search is  *)
(* enough for one knowledge base; the assistant's search embeds the        *)
(* question once for each of them and may use more.                        *)
(*                                                                         *)
(* The stream of a run is a coroutine of the API process on a connection of*)
(* its own.  Every transaction and every autocommitted statement of it is a*)
(* step; between two steps the user may cancel, the client may disconnect, *)
(* the process may die, or another request with the key may take the       *)
(* reservation for abandoned.  Runs of web users have no key: they take the*)
(* same steps without those on the account.                                *)
(***************************************************************************)
EXTENDS Naturals, FiniteSets, Functions

CONSTANTS
    Runs,       \* generation_runs.id
    Assistant,  \* the runs of conversations of the scope 'assistant'
    MaxActive,  \* OPENAI_CHAT_MAX_CONCURRENT_RUNS (5 in the code)
    Query,      \* tokens set aside for retrieval
    Answer,     \* tokens set aside for the generation
    Excess,     \* bound: tokens that the assistant's retrieval uses beyond Query
    MaxLimit,   \* bound: api_keys.token_limit
    Stalls      \* may a living stream be silent for RESERVATION_STALE_AFTER_MINUTES?

ASSUME RunsAssumption == IsFiniteSet(Runs) /\ Assistant \subseteq Runs
ASSUME AmountsAssumption == /\ MaxActive \in Nat
                            /\ Query \in Nat \ {0}
                            /\ Answer \in Nat \ {0}
                            /\ Excess \in Nat
                            /\ MaxLimit \in Nat \ {0}
ASSUME StallsAssumption == Stalls \in BOOLEAN

VARIABLES
    run,          \* generation_runs.state; cancel_requested is set with "cancelled" only
    message,      \* messages.state of the assistant message of the run
    usage,        \* messages.usage: the tokens written there
    stream,       \* the coroutine: its place and its local variables, and whether its
                  \* reservation was taken for abandoned while it lived (a history variable)
    reservation,  \* api_key_reservations of the run; no row when tokens = 0
    bill,         \* api_key_usage of the run's request; no row when 0
    key,          \* api_keys.status, or "deleted" when deleted_at is set
    limit,        \* api_keys.token_limit
    used,         \* api_keys.token_used
    reserved      \* api_keys.token_reserved

account == <<reservation, bill, key, limit, used, reserved>>
vars == <<run, message, usage, stream, account>>

Spends == 0..(Query + Excess + Answer)
Terminal == {"completed", "failed", "cancelled"}
Steps == {"new", "mark", "reserve_query", "retrieve", "check", "reserve_answer", "generate",
          "stop", "persist", "settle", "tail", "fail_settle", "fail_read", "fail_write", "over"}

TypeOK ==
    /\ run \in [Runs -> {"none", "queued", "running"} \cup Terminal]
    /\ message \in [Runs -> {"none", "pending", "generating", "complete", "failed", "cancelled"}]
    /\ usage \in [Runs -> Spends]
    /\ stream \in [Runs -> [step : Steps, held : BOOLEAN, spent : Spends,
                            settled : BOOLEAN, writes : BOOLEAN, overtaken : BOOLEAN]]
    /\ reservation \in [Runs -> [tokens : Spends, spent : Spends]]
    /\ bill \in [Runs -> Spends]
    /\ key \in {"active", "disabled", "revoked", "deleted"}
    /\ limit \in 1..MaxLimit
    /\ used \in Nat
    /\ reserved \in Nat

NoReservation == [tokens |-> 0, spent |-> 0]
NewStream == [step |-> "new", held |-> FALSE, spent |-> 0, settled |-> FALSE, writes |-> FALSE,
              overtaken |-> FALSE]

Init ==
    /\ run = [r \in Runs |-> "none"]
    /\ message = [r \in Runs |-> "none"]
    /\ usage = [r \in Runs |-> 0]
    /\ stream = [r \in Runs |-> NewStream]
    /\ reservation = [r \in Runs |-> NoReservation]
    /\ bill = [r \in Runs |-> 0]
    /\ key = "active"
    /\ limit \in 1..MaxLimit
    /\ used = 0
    /\ reserved = 0

At(r, steps) == stream[r].step \in steps
\* What the retrieval of a run may use beyond what is set aside for it.
Beyond(r) == IF r \in Assistant THEN Excess ELSE 0
Goes(r, step) == stream' = [stream EXCEPT ![r].step = step]
\* The coroutine is gone, and its local variables with it.
Ended(r) == [NewStream EXCEPT !.step = "over", !.overtaken = stream[r].overtaken]
Ends(r) == stream' = [stream EXCEPT ![r] = Ended(r)]
Minus(a, b) == IF a > b THEN a - b ELSE 0  \* GREATEST(0, a - b)

(* An operator marked DEFECT differs from the one after it as a slip in the code
   would.  No specification uses it: the properties are tried out by putting it
   in that operator's place. *)

-----------------------------------------------------------------------------
(* Requests: a run is created, by a question or a retry, or cancelled. *)

\* create_run, or create_assistant_run with the key and no knowledge base.  The key was
\* active and had tokens left when the request was
\* authenticated, before this transaction, which does not look at the key again.
CreateRun(r) ==
    /\ run[r] = "none"
    /\ Cardinality({q \in Runs : run[q] \in {"queued", "running"}}) < MaxActive
    /\ run' = [run EXCEPT ![r] = "queued"]
    /\ message' = [message EXCEPT ![r] = "pending"]
    /\ UNCHANGED <<usage, stream, account>>

CancelRun(r) ==
    /\ run[r] \in {"queued", "running"}
    /\ run' = [run EXCEPT ![r] = "cancelled"]
    /\ message' = [message EXCEPT ![r] = "cancelled"]
    /\ UNCHANGED <<usage, stream, account>>

\* The administrator changes the quota of the key, never below what is taken.
UpdateQuota(n) ==
    /\ key # "deleted"
    /\ n \in 1..MaxLimit
    /\ n >= used + reserved
    /\ limit' = n
    /\ UNCHANGED <<run, message, usage, stream, reservation, bill, key, used, reserved>>

\* update_api_key_status, revoke_api_key and delete_api_key: of the statuses only
\* these two go back and forth, and whatever the key has set aside stays.
KeyBecomes(status) ==
    /\ key' = status
    /\ UNCHANGED <<run, message, usage, stream, reservation, bill, limit, used, reserved>>
UpdateStatus(status) ==
    key \in {"active", "disabled"} /\ status \in {"active", "disabled"} /\ KeyBecomes(status)
RevokeKey == key = "active" /\ KeyBecomes("revoked")
DeleteKey == key # "deleted" /\ KeyBecomes("deleted")

-----------------------------------------------------------------------------
(* The account of the key. *)

\* DEFECT: tokens set aside by other runs are not counted.
FitsUsed(n) == used + n <= limit
\* token_used + token_reserved + n <= token_limit
Fits(n) == used + reserved + n <= limit

\* DEFECT: what was authenticated once goes on.
Unchecked == TRUE
\* status = 'active' AND deleted_at IS NULL
Usable == key = "active"

\* reserve_api_key_tokens
Reserve(r, n) ==
    /\ Usable
    /\ Fits(n)
    /\ reserved' = reserved + n
    /\ reservation' = [reservation EXCEPT ![r].tokens = @ + n]
    /\ UNCHANGED <<bill, key, limit, used>>

\* The row of the run is deleted and the aggregate falls by what stood there.
Returned(r) ==
    /\ reservation' = [reservation EXCEPT ![r] = NoReservation]
    /\ reserved' = Minus(reserved, reservation[r].tokens)

\* DEFECT: charged whether or not the request has its row of usage.
BilledTwice(r, n) ==
    /\ bill' = [bill EXCEPT ![r] = IF @ = 0 THEN n ELSE @]
    /\ used' = used + n
\* DEFECT: ON CONFLICT DO UPDATE, adding up.
BilledOnTop(r, n) ==
    /\ bill' = [bill EXCEPT ![r] = @ + n]
    /\ used' = used + n
\* INSERT ... ON CONFLICT DO NOTHING, and token_used grows if a row was inserted.
Billed(r, n) ==
    /\ bill' = [bill EXCEPT ![r] = IF @ = 0 THEN n ELSE @]
    /\ used' = IF bill[r] = 0 THEN used + n ELSE used

\* finalize_quota: settle_api_key_usage, release_api_key_reservation or nothing.
Finalize(r) ==
    IF stream[r].settled
    THEN UNCHANGED account
    ELSE /\ UNCHANGED <<key, limit>>
         /\ IF stream[r].spent > 0 THEN Billed(r, stream[r].spent) ELSE UNCHANGED <<bill, used>>
         /\ IF stream[r].spent > 0 \/ stream[r].held
            THEN Returned(r)
            ELSE UNCHANGED <<reservation, reserved>>

\* persist_quota_progress: the usage so far, in the row of the run if there is one.
Progress(r, n) ==
    reservation' = [reservation EXCEPT ![r].spent = IF reservation[r].tokens > 0 THEN n ELSE @]

\* The larger of the usages in the message and in the reservation.
Known(r) == IF usage[r] >= reservation[r].spent THEN usage[r] ELSE reservation[r].spent

\* DEFECT: the message of a run that is over is marked as well.
InterruptedAlways(r) == TRUE
\* The process that ran it is gone.
Interrupted(r) == run[r] = "running"

\* recover_stale_api_key_reservations, run by the next request with the key whatever
\* its status; a call settles every stale row, which is this step for each of them.
\* The request has found the key before, and the key may have been deleted since.
Recover(r) ==
    /\ reservation[r].tokens > 0
    /\ run[r] \in {"running"} \cup Terminal
    /\ Stalls \/ At(r, {"over"})
    /\ run' = [run EXCEPT ![r] = IF @ = "running" THEN "failed" ELSE @]
    /\ message' = [message EXCEPT ![r] = IF Interrupted(r) THEN "failed" ELSE @]
    /\ usage' = [usage EXCEPT ![r] = IF Interrupted(r) THEN Known(r) ELSE @]
    /\ IF Known(r) > 0 THEN Billed(r, Known(r)) ELSE UNCHANGED <<bill, used>>
    /\ Returned(r)
    /\ stream' = [stream EXCEPT ![r].overtaken = @ \/ stream[r].step # "over"]
    /\ UNCHANGED <<key, limit>>

-----------------------------------------------------------------------------
(* The stream. *)

\* Of several connections to the events of a run one claims it; the others, and
\* those that find it claimed, return without effect.
Claim(r) ==
    /\ At(r, {"new"})
    /\ run[r] = "queued"
    /\ run' = [run EXCEPT ![r] = "running"]
    /\ Goes(r, "mark")
    /\ UNCHANGED <<message, usage, account>>

\* UPDATE messages SET state = 'generating', whatever has happened to the run.
MarkGenerating(r) ==
    /\ At(r, {"mark"})
    /\ message' = [message EXCEPT ![r] = "generating"]
    /\ Goes(r, "reserve_query")
    /\ UNCHANGED <<run, usage, account>>

\* What a run has used while it generates, its retrieval included.
Generating(r) == 1..(Query + Beyond(r) + Answer)

\* The reservation is made; `reserved_tokens +=` follows unless the coroutine is
\* cancelled while it waits for the commit.  A generation has used its prompt at once.
ReserveTokens(r) ==
    LET query == stream[r].step = "reserve_query" IN
    /\ At(r, {"reserve_query", "reserve_answer"})
    /\ Reserve(r, IF query THEN Query ELSE Answer)
    /\ \/ \E n \in IF query THEN {0} ELSE Generating(r) :
             stream' = [stream EXCEPT ![r].step = IF query THEN "retrieve" ELSE "generate",
                                      ![r].held = TRUE, ![r].spent = n]
       \/ Goes(r, "fail_settle")
    /\ UNCHANGED <<run, message, usage>>

\* The usage of a model call is known to the coroutine first: of the search in one
\* knowledge base it is within the bytes of the question, of the assistant's routing
\* and its search in one knowledge base after the other it is the sum ...
Spend(r) ==
    /\ At(r, {"retrieve", "generate"})
    /\ \E n \in IF stream[r].step = "retrieve" THEN 0..(Query + Beyond(r)) ELSE Generating(r) :
          stream' = [stream EXCEPT ![r].spent = n]
    /\ UNCHANGED <<run, message, usage, account>>

\* ... and saved now and then, but always when retrieval or generation ends.
SaveProgress(r) ==
    /\ At(r, {"retrieve", "generate"})
    /\ Progress(r, stream[r].spent)
    /\ \/ UNCHANGED stream
       \/ Goes(r, IF stream[r].step = "retrieve" THEN "check" ELSE "persist")
    /\ UNCHANGED <<run, message, usage, bill, key, limit, used, reserved>>

\* After retrieval: cancelled, or nothing was found and no model is called, or on.
CheckCancelled(r) ==
    /\ At(r, {"check"})
    /\ \/ run[r] = "cancelled" /\ Goes(r, "settle")
       \/ run[r] # "cancelled" /\ \E s \in {"persist", "reserve_answer"} : Goes(r, s)
    /\ UNCHANGED <<run, message, usage, account>>

\* At every fifth token the stream looks whether it is cancelled, and stops.
SeeCancelled(r) ==
    /\ At(r, {"generate"})
    /\ run[r] = "cancelled"
    /\ Goes(r, "stop")
    /\ UNCHANGED <<run, message, usage, account>>

Stop(r) ==
    /\ At(r, {"stop"})
    /\ message' = [message EXCEPT ![r] = "cancelled"]
    /\ usage' = [usage EXCEPT ![r] = stream[r].spent]
    /\ Goes(r, "settle")
    /\ UNCHANGED <<run, account>>

\* DEFECT: only a cancellation takes the run away.
NotCancelled(r) == run[r] # "cancelled"
\* Only the one who still holds the run may complete it.
Holds(r) == run[r] = "running"

\* _persist_completed_answer and _finish_without_generation.
Persist(r) ==
    /\ At(r, {"persist"})
    /\ IF Holds(r)
       THEN /\ run' = [run EXCEPT ![r] = "completed"]
            /\ message' = [message EXCEPT ![r] = "complete"]
            /\ usage' = [usage EXCEPT ![r] = stream[r].spent]
       ELSE UNCHANGED <<run, message, usage>>
    /\ Goes(r, "settle")
    /\ UNCHANGED account

\* Committed, and then acknowledged or not: the second time, in the handler of the
\* exception, it is done again.
Settle(r) ==
    /\ At(r, {"settle", "fail_settle"})
    /\ Finalize(r)
    /\ \/ stream' = [stream EXCEPT ![r].settled = TRUE,
                ![r].step = IF stream[r].step = "settle" THEN "tail" ELSE "fail_read"]
       \/ IF stream[r].step = "settle" THEN Goes(r, "fail_settle") ELSE Ends(r)
    /\ UNCHANGED <<run, message, usage>>

\* The timings are stored and the last event is sent.
Finish(r) ==
    /\ At(r, {"tail"})
    /\ Ends(r)
    /\ UNCHANGED <<run, message, usage, account>>

\* An exception, the client's disconnection (CancelledError) included, has a
\* handler anywhere from the claim to the last event.
Raise(r) ==
    /\ At(r, Steps \ {"new", "fail_settle", "fail_read", "fail_write", "over"})
    /\ Goes(r, "fail_settle")
    /\ UNCHANGED <<run, message, usage, account>>

\* _mark_failed, one transaction: its update of the message decides by the run as
\* it stood when the statement began, even if it then waits for a cancellation
\* that holds the message.
ReadForFailure(r) ==
    /\ At(r, {"fail_read"})
    /\ stream' = [stream EXCEPT ![r].step = "fail_write", ![r].writes = run[r] # "cancelled"]
    /\ UNCHANGED <<run, message, usage, account>>

\* DEFECT: no WHERE state <> 'cancelled'.
FailedAlways(s) == "failed"
\* WHERE state <> 'cancelled'
Failed(s) == IF s = "cancelled" THEN s ELSE "failed"

MarkFailed(r) ==
    /\ At(r, {"fail_write"})
    /\ message' = [message EXCEPT ![r] = IF stream[r].writes THEN "failed" ELSE @]
    /\ usage' = [usage EXCEPT ![r] = IF stream[r].writes THEN stream[r].spent ELSE @]
    /\ run' = [run EXCEPT ![r] = Failed(@)]
    /\ Ends(r)
    /\ UNCHANGED account

\* The process dies, the generator is closed at a `yield` (GeneratorExit is no
\* Exception), or a handler raises in its turn.
Die(r) ==
    /\ At(r, Steps \ {"new", "over"})
    /\ Ends(r)
    /\ UNCHANGED <<run, message, usage, account>>

-----------------------------------------------------------------------------
Request(r) == CreateRun(r) \/ CancelRun(r) \/ Recover(r)

Work(r) ==
    \/ Claim(r) \/ MarkGenerating(r) \/ ReserveTokens(r) \/ Spend(r) \/ SaveProgress(r)
    \/ CheckCancelled(r) \/ SeeCancelled(r) \/ Stop(r) \/ Persist(r) \/ Settle(r) \/ Finish(r)
    \/ ReadForFailure(r) \/ MarkFailed(r)

Next ==
    \/ \E r \in Runs : Request(r) \/ Work(r) \/ Raise(r) \/ Die(r)
    \/ \E n \in 1..MaxLimit : UpdateQuota(n)
    \/ \E s \in {"active", "disabled"} : UpdateStatus(s)
    \/ RevokeKey
    \/ DeleteKey

Spec == Init /\ [][Next]_vars

\* The event loop carries a stream on, and the key is used again, again and again,
\* as long as it can be found.
Fairness == \A r \in Runs : WF_vars(Work(r)) /\ WF_vars(key # "deleted" /\ Recover(r))
FairSpec == Spec /\ Fairness

-----------------------------------------------------------------------------
(* Properties. *)

\* The answer can be read exactly when the run is completed, although the two are
\* written by the stream, by cancellations, by failures and by the recovery of
\* stale reservations, in transactions of which some read first and write later.
AnswerIffCompleted == \A r \in Runs : message[r] = "complete" <=> run[r] = "completed"

\* A cancellation is final: neither an answer nor a failure that comes late
\* overwrites it (chat.py:661, 703).
CancelIsFinal == [][\A r \in Runs : run[r] = "cancelled" => run'[r] = "cancelled"]_vars

\* The aggregates of the key are the sums of the rows behind them, although a run
\* may be settled by its stream and by the recovery, by either of them twice, in
\* any order: nothing is charged or given back a second time.
AccountBalances ==
    /\ reserved = SumFunction([r \in Runs |-> reservation[r].tokens])
    /\ used = SumFunction(bill)

\* What a completed answer has used is charged to the key, in full, or its reservation
\* is still there for the recovery to find and charges it, wherever the stream may have
\* died; all of it is set aside then, but for the assistant's further searches.
AnswersArePaidFor ==
    \A r \in Runs : run[r] = "completed" /\ usage[r] > 0 =>
        \/ bill[r] = usage[r]
        \/ /\ bill[r] = 0
           /\ reservation[r].tokens > 0
           /\ reservation[r].spent = usage[r]
           /\ reservation[r].tokens + Beyond(r) >= usage[r]

\* What the assistant's answers that are charged may have cost beyond what was set
\* aside for them; nothing, if the key has put its questions to knowledge bases.
Overdraft == SumFunction([r \in Runs |-> IF bill[r] > 0 THEN Beyond(r) ELSE 0])

\* The key exceeds its limit only through a stream that has outlived its reservation or
\* by the further searches of the assistant's questions it was charged for, whatever
\* runs at the same time, dies or is cancelled, and however the limit is changed.
QuotaRespected ==
    (\A r \in Runs : ~stream[r].overtaken) => used + reserved <= limit + Overdraft

\* From the moment a key is disabled, revoked or deleted it can only give back what it
\* has committed itself to, although its streams go on, settle, die and are recovered
\* afterwards, and their requests were authenticated before; each of the assistant's
\* questions that are open then may still add its further searches, once.
KeyStopsSpending ==
    [][key # "active" /\ (\A r \in Runs : ~stream'[r].overtaken)
            => used' + reserved' <= used + reserved + (Overdraft' - Overdraft)]_vars

\* What the owner of the key sees of a run.
Fate(r) == IF run[r] \in {"queued", "running"} THEN "open"
           ELSE IF run[r] = "completed" THEN "answered" ELSE run[r]
Price(r) == IF run[r] = "completed" THEN usage[r] ELSE 0
Standing == IF key = "active" THEN "open" ELSE IF key = "disabled" THEN "suspended" ELSE "closed"

\* Streams, cancellations, failures and recoveries, each in several transactions,
\* implement the books that Ledger promises: a question is charged at most once, an
\* answer is covered when it is given and charged its price, a cancellation stands, only
\* an open key sets tokens aside, and more than was set aside is charged only to a
\* stream whose reservation was taken for abandoned while it lived, or for the further
\* searches of the assistant.
Book == INSTANCE Ledger WITH
    Questions <- Runs, OpenEnded <- Assistant, Amounts <- Spends, Limits <- 1..MaxLimit, MaxOpen <- MaxActive,
    fate <- [r \in Runs |-> Fate(r)],
    price <- [r \in Runs |-> Price(r)],
    promised <- [r \in Runs |-> reservation[r].tokens],
    charged <- bill,
    late <- {r \in Runs : stream[r].overtaken},
    status <- Standing
KeepsLedger == Book!Spec

\* 03-RAG (line 93) says that every run has exactly one terminal state.
OneTerminalState ==
    [][\A r \in Runs : run[r] \in Terminal => run'[r] = run[r]]_vars

\* 03-RAG (line 95) says of a process that crashes that its run is found by its
\* timeout and marked as interrupted: no run is running for ever.
InterruptedRunsEnd == \A r \in Runs : run[r] = "running" ~> run[r] # "running"
=============================================================================
