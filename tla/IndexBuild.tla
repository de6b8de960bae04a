----------------------------- MODULE IndexBuild -----------------------------
(***************************************************************************)
(* The index-build job of one knowledge base, from the request to the      *)
(* final state: create_build / cancel_task / retry_task of                 *)
(* api/lifecycle_routes.py, the outbox dispatcher of jobs/outbox.py, the   *)
(* Celery broker (external), the worker of jobs/builds.py and the lease    *)
(* patrol of jobs/tasks.py.                                                *)
(*                                                                         *)
(* PostgreSQL runs READ COMMITTED: a transaction that locks its rows is one*)
(* step, a read whose result is used after the next await is a step of its *)
(* own, and so is every autocommitted statement.  A build and its task are *)
(* created together and named by the same identifier.                      *)
(***************************************************************************)
EXTENDS Naturals, FiniteSets, Sequences

CONSTANTS
    Builds,       \* identifiers of builds, and of their tasks
    NoBuild,      \* what an idle process holds instead
    Docs,         \* document_id of the documents of the knowledge base
    Workers,      \* Celery worker processes (prefetch 1: one job at a time)
    Users,        \* concurrent cancel / retry requests
    Batches,      \* embedding batches of a document, ceil(chunks / 16)
    MaxAttempts,  \* sends after which an outbox event is given up (10 in the code)
    Faults,       \* the failures that lose work: subset of FaultKinds
    MaxEvents,    \* bound: outbox rows
    MaxTrouble    \* bound: user requests and failures of the environment

FaultKinds == {"connect", "writeback", "broker"}

ASSUME BuildsAssumption == NoBuild \notin Builds
ASSUME DocsAssumption == Docs \subseteq Nat \ {0} /\ IsFiniteSet(Docs) /\ Docs # {}
ASSUME BatchesAssumption == Batches \in Nat \ {0}
ASSUME BoundsAssumption == /\ MaxAttempts \in Nat \ {0}
                           /\ MaxEvents \in Nat
                           /\ MaxTrouble \in Nat
ASSUME FaultsAssumption == Faults \subseteq FaultKinds

VARIABLES
    epoch,       \* knowledge_bases.content_epoch
    inputEpoch,  \* index_builds.input_epoch
    build,       \* index_builds.state ("validating" is never committed)
    task,        \* tasks.state
    lease,       \* tasks.lease_until: NULL, in the future, or passed
    buildItem,   \* build_items.state
    taskItem,    \* task_items.state
    chunks,      \* the chunk rows of a document's artifact: [gen, size]
    embedded,    \* the batches of the present chunks that have embeddings
    outbox,      \* outbox_events
    queue,       \* messages in the broker, per task
    worker,      \* what each worker process remembers
    user,        \* what each cancel / retry request remembers
    trouble      \* user requests and failures so far

stored == <<epoch, inputEpoch, build, task, lease, buildItem, taskItem>>
content == <<chunks, embedded>>
jobs == <<outbox, queue, worker>>
vars == <<stored, content, jobs, user, trouble>>

JobStates == {"queued", "running", "completed", "failed", "cancelled"}
Steps == {"idle", "check", "run", "batch_check", "batch_write", "done",
          "final", "failing", "fail_write"}
Requests == {"idle", "cancel_task", "cancel_build", "cancel_build_items",
             "cancel_task_items", "retry"}

Idle == [step |-> "idle", build |-> NoBuild, todo |-> {}, gen |-> 0, off |-> 0]
NoRequest == [step |-> "idle", build |-> NoBuild]

TypeOK ==
    /\ epoch \in Nat
    /\ inputEpoch \in [Builds -> Nat]
    /\ build \in [Builds -> {"none", "queued", "running", "ready", "failed", "cancelled"}]
    /\ task \in [Builds -> JobStates \cup {"none"}]
    /\ lease \in [Builds -> {"null", "live", "expired"}]
    /\ buildItem \in [Builds -> [Docs -> JobStates]]
    /\ taskItem \in [Builds -> [Docs -> JobStates]]
    /\ chunks \in [Docs -> [gen : Nat, size : {0, Batches}]]
    /\ embedded \in [Docs -> SUBSET (1..Batches)]
    /\ outbox \in Seq([task : Builds, attempt : Nat, state : {"pending", "sent", "failed"}])
    /\ queue \in [Builds -> Nat]
    /\ worker \in [Workers -> [step : Steps, build : Builds \cup {NoBuild}, todo : SUBSET Docs,
                               gen : Nat, off : 0..Batches]]
    /\ user \in [Users -> [step : Requests, build : Builds \cup {NoBuild}]]
    /\ trouble \in Nat

Init ==
    /\ epoch = 0
    /\ inputEpoch = [b \in Builds |-> 0]
    /\ build = [b \in Builds |-> "none"]
    /\ task = [b \in Builds |-> "none"]
    /\ lease = [b \in Builds |-> "null"]
    /\ buildItem = [b \in Builds |-> [d \in Docs |-> "queued"]]
    /\ taskItem = [b \in Builds |-> [d \in Docs |-> "queued"]]
    /\ chunks = [d \in Docs |-> [gen |-> 0, size |-> Batches]]
    /\ embedded = [d \in Docs |-> {}]
    /\ outbox = << >>
    /\ queue = [b \in Builds |-> 0]
    /\ worker = [w \in Workers |-> Idle]
    /\ user = [u \in Users |-> NoRequest]
    /\ trouble = 0

Trouble == trouble < MaxTrouble /\ trouble' = trouble + 1

Event(b) == [task |-> b, attempt |-> 0, state |-> "pending"]
AddEvent(b) == Len(outbox) < MaxEvents /\ outbox' = Append(outbox, Event(b))

(* Defective variants.  Each differs from the operator it precedes as a slip in
   the code would; no specification uses it, and the checks of the properties
   are tried out by putting it in that operator's place. *)

\* DEFECT: no WHERE state <> 'completed'.
EveryItem(items, s) == [d \in Docs |-> s]
\* UPDATE ... SET state = s WHERE state <> 'completed', over the items of a job.
Unfinished(items, s) == [d \in Docs |-> IF items[d] = "completed" THEN "completed" ELSE s]

-----------------------------------------------------------------------------
(* The requests of users. *)

\* DEFECT: a build that no worker has taken up yet is overlooked.
NoneRunning == \A c \in Builds : build[c] # "running"
\* No build WHERE state IN ('queued','running','validating')
NoneActive == \A c \in Builds : build[c] \notin {"queued", "running"}

\* create_build: under the lock on the knowledge base, one active build at a
\* time, every document parsed, and at most one build of an input snapshot.
CreateBuild(b) ==
    /\ build[b] = "none"
    /\ NoneActive
    /\ \A d \in Docs : chunks[d].size > 0
    /\ \A c \in Builds : build[c] # "none" => inputEpoch[c] # epoch
    /\ AddEvent(b)
    /\ inputEpoch' = [inputEpoch EXCEPT ![b] = epoch]
    /\ build' = [build EXCEPT ![b] = "queued"]
    /\ task' = [task EXCEPT ![b] = "queued"]
    /\ UNCHANGED <<epoch, lease, buildItem, taskItem, content, queue, worker, user, trouble>>

\* Another document of the knowledge base is disabled or deleted: no build of
\* the model contains it, but the input snapshot is a new one.
ChangeContent ==
    /\ Trouble
    /\ epoch' = epoch + 1
    /\ UNCHANGED <<inputEpoch, build, task, lease, buildItem, taskItem, content, jobs, user>>

\* A document is parsed again: its chunks are deleted, with their embeddings
\* (ON DELETE CASCADE), and inserted anew; a failed parse leaves none.
Reparse(d) ==
    /\ Trouble
    /\ \E size \in {0, Batches} :
          chunks' = [chunks EXCEPT ![d] = [gen |-> @.gen + 1, size |-> size]]
    /\ embedded' = [embedded EXCEPT ![d] = {}]
    /\ UNCHANGED <<stored, jobs, user>>

\* Both requests read the state of the task first and act on it later.
Read(u, b, states, step) ==
    /\ user[u].step = "idle"
    /\ task[b] \in states
    /\ Trouble
    /\ user' = [user EXCEPT ![u] = [step |-> step, build |-> b]]
    /\ UNCHANGED <<stored, content, jobs>>

ReadForCancel(u, b) == Read(u, b, {"queued", "running"}, "cancel_task")
ReadForRetry(u, b) == Read(u, b, {"failed", "cancelled"}, "retry")

\* One request goes on from step s to step t.
Goes(u, s, t) ==
    /\ user[u].step = s
    /\ user' = [user EXCEPT ![u].step = t]

Finishes(u, s) ==
    /\ user[u].step = s
    /\ user' = [user EXCEPT ![u] = NoRequest]

\* DEFECT: the build is cancelled whatever its state.
StoppedAlways(s) == "cancelled"
\* WHERE state IN ('queued','running','validating')
Stopped(s) == IF s \in {"queued", "running"} THEN "cancelled" ELSE s

\* cancel_task is four autocommitted statements.
CancelTask(u) ==
    /\ Goes(u, "cancel_task", "cancel_build")
    /\ task' = [task EXCEPT ![user[u].build] = "cancelled"]
    /\ UNCHANGED <<epoch, inputEpoch, build, lease, buildItem, taskItem, content, jobs, trouble>>

CancelBuild(u) ==
    /\ Goes(u, "cancel_build", "cancel_build_items")
    /\ build' = [build EXCEPT ![user[u].build] = Stopped(@)]
    /\ UNCHANGED <<epoch, inputEpoch, task, lease, buildItem, taskItem, content, jobs, trouble>>

CancelBuildItems(u) ==
    /\ Goes(u, "cancel_build_items", "cancel_task_items")
    /\ buildItem' = [buildItem EXCEPT ![user[u].build] = Unfinished(@, "cancelled")]
    /\ UNCHANGED <<epoch, inputEpoch, build, task, lease, taskItem, content, jobs, trouble>>

CancelTaskItems(u) ==
    /\ Finishes(u, "cancel_task_items")
    /\ taskItem' = [taskItem EXCEPT ![user[u].build] = Unfinished(@, "cancelled")]
    /\ UNCHANGED <<epoch, inputEpoch, build, task, lease, buildItem, content, jobs, trouble>>

\* retry_task is one transaction, but nothing in it looks at the state again.
RetryTask(u) ==
    LET b == user[u].build IN
    /\ Finishes(u, "retry")
    /\ AddEvent(b)
    /\ task' = [task EXCEPT ![b] = "queued"]
    /\ lease' = [lease EXCEPT ![b] = "null"]
    /\ taskItem' = [taskItem EXCEPT ![b] = Unfinished(@, "queued")]
    /\ build' = [build EXCEPT ![b] = "queued"]
    /\ buildItem' = [buildItem EXCEPT ![b] = Unfinished(@, "queued")]
    /\ UNCHANGED <<epoch, inputEpoch, content, queue, worker, trouble>>

\* The connection or the API process is lost between two statements.
LoseRequest(u) ==
    /\ user[u].step # "idle"
    /\ Trouble
    /\ user' = [user EXCEPT ![u] = NoRequest]
    /\ UNCHANGED <<stored, content, jobs>>

-----------------------------------------------------------------------------
(* The outbox dispatcher, the broker and the lease patrol. *)

\* Any pending event may be the next: an earlier one may be postponed, or locked
\* by another run of the dispatcher (FOR UPDATE SKIP LOCKED).
Pending(e) == outbox[e].state = "pending"

Dispatch ==
    \E e \in DOMAIN outbox :
        /\ Pending(e)
        /\ outbox' = [outbox EXCEPT ![e].state = "sent", ![e].attempt = @ + 1]
        /\ queue' = [queue EXCEPT ![outbox[e].task] = @ + 1]
        /\ UNCHANGED <<stored, content, worker, user, trouble>>

\* The broker refuses the message; the event is tried again, and skipped in
\* the meantime, until its attempts are used up.
SendFails ==
    \E e \in DOMAIN outbox :
        /\ Pending(e)
        /\ outbox[e].attempt + 1 < MaxAttempts \/ "broker" \in Faults
        /\ Trouble
        /\ outbox' = [outbox EXCEPT ![e].attempt = @ + 1,
                ![e].state = IF outbox[e].attempt + 1 >= MaxAttempts THEN "failed" ELSE "pending"]
        /\ UNCHANGED <<stored, content, queue, worker, user>>

\* The dispatcher dies after the send and before its commit: the message is out
\* and the event still pending.
DispatcherDies ==
    \E e \in DOMAIN outbox :
        /\ Pending(e)
        /\ Trouble
        /\ queue' = [queue EXCEPT ![outbox[e].task] = @ + 1]
        /\ UNCHANGED <<stored, content, outbox, worker, user>>

\* A message not acknowledged within the visibility timeout is delivered again
\* while its first worker is still at work.
Redeliver(w) ==
    /\ worker[w].step # "idle"
    /\ Trouble
    /\ queue' = [queue EXCEPT ![worker[w].build] = @ + 1]
    /\ UNCHANGED <<stored, content, outbox, worker, user>>

ExpireLease(b) ==
    /\ task[b] = "running"
    /\ lease[b] = "live"
    /\ lease' = [lease EXCEPT ![b] = "expired"]
    /\ UNCHANGED <<epoch, inputEpoch, build, task, buildItem, taskItem, content, jobs, user, trouble>>

\* DEFECT: finished items are queued again as well.
RequeuedAlways(s) == "queued"
Requeued(s) == IF s = "running" THEN "queued" ELSE s

\* _recover_expired_task_leases: one transaction over every expired task.
RecoverLeases ==
    LET expired == {b \in Builds : task[b] = "running" /\ lease[b] = "expired"} IN
    /\ expired # {}
    /\ task' = [b \in Builds |-> IF b \in expired THEN "queued" ELSE task[b]]
    /\ lease' = [b \in Builds |-> IF b \in expired THEN "null" ELSE lease[b]]
    /\ taskItem' = [b \in Builds |-> [d \in Docs |->
            IF b \in expired THEN Requeued(taskItem[b][d]) ELSE taskItem[b][d]]]
    /\ UNCHANGED <<epoch, inputEpoch, build, buildItem, content, jobs, user, trouble>>

-----------------------------------------------------------------------------
(* The worker. *)

Takes(b) == queue[b] > 0 /\ queue' = [queue EXCEPT ![b] = @ - 1]
Becomes(w, r) == worker' = [worker EXCEPT ![w] = r]
Moves(w, s) == worker' = [worker EXCEPT ![w].step = s]
Returns(w) == Becomes(w, Idle)  \* and Celery acknowledges the message

\* DEFECT: acknowledged before the job is done, or not rejected when the worker is lost.
LosesMessage(b) == UNCHANGED queue
PutsBack(b) == queue' = [queue EXCEPT ![b] = @ + 1]

\* DEFECT: a job that is running is taken for one that is being looked after.
OverOrRunning(b) == task[b] \in {"running", "completed", "cancelled"}
Over(b) == task[b] \in {"completed", "cancelled"}

NextDoc(w) == CHOOSE d \in worker[w].todo : \A e \in worker[w].todo : d <= e

\* The first transaction of _process_index_build, with the list of unfinished
\* items fetched right after it.  A task that is already running is no obstacle.
Start(w, b) ==
    LET todo == {d \in Docs : buildItem[b][d] # "completed"} IN
    /\ worker[w].step = "idle"
    /\ Takes(b)
    /\ ~Over(b)
    /\ task' = [task EXCEPT ![b] = "running"]
    /\ lease' = [lease EXCEPT ![b] = "live"]
    /\ build' = [build EXCEPT ![b] = "running"]
    /\ Becomes(w, [Idle EXCEPT !.step = IF todo = {} THEN "final" ELSE "check",
                               !.build = b, !.todo = todo])
    /\ UNCHANGED <<epoch, inputEpoch, buildItem, taskItem, content, outbox, user, trouble>>

\* The task is over already: the message is acknowledged without effect.
StartNothing(w, b) ==
    /\ worker[w].step = "idle"
    /\ Takes(b)
    /\ Over(b)
    /\ UNCHANGED <<stored, content, outbox, worker, user, trouble>>

\* The model endpoint is disabled: the transaction is rolled back.
StartRefused(w, b) ==
    /\ worker[w].step = "idle"
    /\ Takes(b)
    /\ ~Over(b)
    /\ Trouble
    /\ Becomes(w, [Idle EXCEPT !.step = "failing", !.build = b])
    /\ UNCHANGED <<stored, content, outbox, user>>

\* The database cannot be reached: the job raises and its message is acknowledged.
ConnectFails(w, b) ==
    /\ "connect" \in Faults
    /\ worker[w].step = "idle"
    /\ Takes(b)
    /\ Trouble
    /\ UNCHANGED <<stored, content, outbox, worker, user>>

\* The cooperative cancellation checks, before an item and before a batch.
Check(w) ==
    /\ worker[w].step \in {"check", "batch_check"}
    /\ CASE task[worker[w].build] = "cancelled" -> Returns(w)
         [] worker[w].step = "check" -> Moves(w, "run")
         [] OTHER -> Moves(w, "batch_write")
    /\ UNCHANGED <<stored, content, outbox, queue, user, trouble>>

\* The item is marked running and its chunks are fetched.
RunItem(w) ==
    LET b == worker[w].build
        d == NextDoc(w)
    IN
    /\ worker[w].step = "run"
    /\ buildItem' = [buildItem EXCEPT ![b][d] = "running"]
    /\ taskItem' = [taskItem EXCEPT ![b][d] = "running"]
    /\ Becomes(w, [worker[w] EXCEPT
            !.step = IF chunks[d].size = 0 THEN "failing" ELSE "batch_check",
            !.gen = chunks[d].gen, !.off = 0])
    /\ UNCHANGED <<epoch, inputEpoch, build, task, lease, content, outbox, queue, user, trouble>>

\* DEFECT: the loop over the chunks makes one turn too many.
OneMore(n) == n <= Batches
More(n) == n < Batches

\* The vectors of a batch are stored and the lease is extended.  The foreign
\* key refuses vectors of chunks that a parse has replaced since they were read.
WriteBatch(w) ==
    LET b == worker[w].build
        d == NextDoc(w)
        n == worker[w].off + 1
    IN
    /\ worker[w].step = "batch_write"
    /\ IF worker[w].gen = chunks[d].gen
       THEN /\ embedded' = [embedded EXCEPT ![d] = @ \cup {n}]
            /\ lease' = [lease EXCEPT ![b] = IF task[b] = "running" THEN "live" ELSE @]
            /\ Becomes(w, [worker[w] EXCEPT !.off = n,
                    !.step = IF More(n) THEN "batch_check" ELSE "done"])
       ELSE /\ Moves(w, "failing")
            /\ UNCHANGED <<embedded, lease>>
    /\ UNCHANGED <<epoch, inputEpoch, build, task, buildItem, taskItem, chunks,
                   outbox, queue, user, trouble>>

FinishItem(w) ==
    LET b == worker[w].build
        d == NextDoc(w)
        rest == worker[w].todo \ {d}
    IN
    /\ worker[w].step = "done"
    /\ buildItem' = [buildItem EXCEPT ![b][d] = "completed"]
    /\ taskItem' = [taskItem EXCEPT ![b][d] = "completed"]
    /\ Becomes(w, [worker[w] EXCEPT !.todo = rest,
            !.step = IF rest = {} THEN "final" ELSE "check"])
    /\ UNCHANGED <<epoch, inputEpoch, build, task, lease, content, outbox, queue, user, trouble>>

\* DEFECT: an inner join, which counts only what is embedded.
EmbeddedOnly(d) == TRUE
\* The join over the present chunks of the build's artifacts.
Embedded(d) == chunks[d].size = Cardinality(embedded[d])

\* The last transaction: only the task is protected against a cancellation.
FinishBuild(w) ==
    LET b == worker[w].build IN
    /\ worker[w].step = "final"
    /\ IF \A d \in Docs : Embedded(d)
       THEN /\ build' = [build EXCEPT ![b] = "ready"]
            /\ task' = [task EXCEPT ![b] = IF @ = "cancelled" THEN @ ELSE "completed"]
            /\ lease' = [lease EXCEPT ![b] = IF task[b] = "cancelled" THEN @ ELSE "null"]
            /\ Returns(w)
       ELSE Moves(w, "failing") /\ UNCHANGED <<build, task, lease>>
    /\ UNCHANGED <<epoch, inputEpoch, buildItem, taskItem, content, outbox, queue, user, trouble>>

\* Any step may raise: the embedding service, the database, a deadlock.
Raise(w) ==
    /\ worker[w].step \notin {"idle", "failing", "fail_write"}
    /\ Trouble
    /\ Moves(w, "failing")
    /\ UNCHANGED <<stored, content, outbox, queue, user>>

\* _mark_build_failure reads the state of the task and writes afterwards.
ReadForFailure(w) ==
    /\ worker[w].step = "failing"
    /\ IF task[worker[w].build] = "cancelled" THEN Returns(w) ELSE Moves(w, "fail_write")
    /\ UNCHANGED <<stored, content, outbox, queue, user, trouble>>

MarkBuildFailure(w) ==
    LET b == worker[w].build IN
    /\ worker[w].step = "fail_write"
    /\ task' = [task EXCEPT ![b] = "failed"]
    /\ lease' = [lease EXCEPT ![b] = "null"]
    /\ taskItem' = [taskItem EXCEPT ![b] = Unfinished(@, "failed")]
    /\ build' = [build EXCEPT ![b] = "failed"]
    /\ buildItem' = [buildItem EXCEPT ![b] = Unfinished(@, "failed")]
    /\ Returns(w)
    /\ UNCHANGED <<epoch, inputEpoch, content, outbox, queue, user, trouble>>

\* The failure cannot be written back: the exception of that is swallowed, the
\* first one raised, and the message acknowledged all the same.
WriteBackFails(w) ==
    /\ "writeback" \in Faults
    /\ worker[w].step \in {"failing", "fail_write"}
    /\ Trouble
    /\ Returns(w)
    /\ UNCHANGED <<stored, content, outbox, queue, user>>

\* The worker process is lost: task_reject_on_worker_lost puts the message back.
Crash(w) ==
    /\ worker[w].step # "idle"
    /\ Trouble
    /\ PutsBack(worker[w].build)
    /\ Returns(w)
    /\ UNCHANGED <<stored, content, outbox, user>>

-----------------------------------------------------------------------------
Request(u) ==
    \/ \E b \in Builds : ReadForCancel(u, b) \/ ReadForRetry(u, b)
    \/ CancelTask(u) \/ CancelBuild(u) \/ CancelBuildItems(u) \/ CancelTaskItems(u)
    \/ RetryTask(u)
    \/ LoseRequest(u)

Deliver(w, b) == Start(w, b) \/ StartNothing(w, b) \/ StartRefused(w, b) \/ ConnectFails(w, b)

Work(w) ==
    \/ Check(w) \/ RunItem(w) \/ WriteBatch(w) \/ FinishItem(w) \/ FinishBuild(w)
    \/ ReadForFailure(w) \/ MarkBuildFailure(w)

Next ==
    \/ \E b \in Builds : CreateBuild(b) \/ ExpireLease(b)
    \/ ChangeContent
    \/ \E d \in Docs : Reparse(d)
    \/ \E u \in Users : Request(u)
    \/ Dispatch \/ SendFails \/ DispatcherDies \/ RecoverLeases
    \/ \E w \in Workers : \/ \E b \in Builds : Deliver(w, b)
                          \/ Work(w)
                          \/ Redeliver(w) \/ Raise(w) \/ WriteBackFails(w) \/ Crash(w)

Spec == Init /\ [][Next]_vars

\* Celery beat runs the dispatcher and the patrol for ever, a worker that is up
\* takes the next message and carries its job on, and a lease runs out.
Fairness ==
    /\ WF_vars(Dispatch)
    /\ WF_vars(RecoverLeases)
    /\ WF_vars(\E w \in Workers, b \in Builds : Deliver(w, b))
    /\ \A w \in Workers : WF_vars(Work(w))
    /\ \A b \in Builds : WF_vars(ExpireLease(b))
FairSpec == Spec /\ Fairness

-----------------------------------------------------------------------------
(* Properties. *)

\* A task is completed only together with its build being ready, whatever
\* cancellations, retries and second workers run into it (builds.py:273-306).
CompletedMeansReady == \A b \in Builds : task[b] = "completed" => build[b] = "ready"

\* The two item lists of a job agree on what is finished, although cancel_task
\* and the lease patrol write only one of them at a time: what a restarted
\* worker skips is what the user is shown as done.
ItemListsAgree ==
    \A b \in Builds, d \in Docs : (buildItem[b][d] = "completed") <=> (taskItem[b][d] = "completed")

\* A build becomes ready only at a moment at which every chunk its documents
\* then have is embedded: a parse that replaces chunks while the build runs is
\* caught by the foreign key or by the final count (builds.py:278-292).
ReadyOnlyWhenEmbedded ==
    [][\A b \in Builds : build[b] # "ready" /\ build'[b] = "ready"
            => \A d \in Docs : chunks[d].size = Cardinality(embedded[d])]_vars

\* Outbox, broker, leases, late workers and stale requests implement what
\* BuildOutcomes lets the rest of the system assume of a build: in particular it
\* becomes ready only at a moment at which every chunk its documents then have is
\* embedded, although a parse may replace them at any time (builds.py:278-292).
Outcome(b) == CASE build[b] \in {"queued", "running"} -> "pending"
                [] build[b] = "cancelled" -> "failed"
                [] OTHER -> build[b]
Outcomes == INSTANCE BuildOutcomes WITH
    Parts <- Docs,
    input <- inputEpoch,
    holds <- [b \in Builds |-> IF build[b] = "none" THEN {} ELSE Docs],
    outcome <- [b \in Builds |-> Outcome(b)],
    usable <- {d \in Docs : chunks[d].size > 0},
    covered <- {d \in Docs : chunks[d].size = Cardinality(embedded[d])}
KeepsOutcomes == Outcomes!Spec

\* ReleaseLifecycle reduces the execution of builds to three states and some steps
\* between them.  The documents of this module are its documents, in their first
\* version; 0 stands for all others, whose changes move the epoch on.  No release is
\* made here, and no build depends on one.
LifeDocs == Docs \cup {0}
LifeStatus == [d \in LifeDocs |-> IF d = 0 THEN "deleted" ELSE "active"]
LifeDesired == [d \in LifeDocs |-> 1]
LifeParse == [d \in LifeDocs |-> [v \in {1} |->
                IF d # 0 /\ chunks[d].size > 0 THEN "complete" ELSE "failed"]]
LifeRow(d) == [state |-> IF chunks[d].size > 0 THEN "ready" ELSE "failed",
               gen |-> chunks[d].gen, embedded |-> Embedded(d)]
NoRow == [state |-> "failed", gen |-> 0, embedded |-> FALSE]
LifeArtifact == [d \in LifeDocs |-> [v \in {1} |-> IF d = 0 THEN NoRow ELSE LifeRow(d)]]
LifeItems(b) == [d \in LifeDocs |-> IF d = 0 \/ build[b] = "none" THEN 0 ELSE 1]
LifeBuild == [b \in Builds |-> [state |-> Outcome(b), epoch |-> inputEpoch[b],
                                 items |-> LifeItems(b)]]
Life == INSTANCE ReleaseLifecycle WITH
    Docs <- LifeDocs, MaxVersion <- 1, Releases <- {}, Sessions <- {},
    MaxGen <- MaxTrouble, MaxEpoch <- MaxTrouble,
    status <- LifeStatus, desired <- LifeDesired, parse <- LifeParse,
    artifact <- LifeArtifact, build <- LifeBuild,
    active <- 0, release <- << >>, session <- << >>
Hidden == UNCHANGED <<epoch, inputEpoch, build, content>>  \* such a step is none there

\* The reduction loses nothing: whatever requests, late and repeated workers, broker
\* and patrol do to a build is a step that ReleaseLifecycle has too, or none, so that
\* what holds there of every step holds of the code's builds (builds.py:47-358).
StepsOfLifecycle == [][Hidden \/ Life!Next]_(Life!vars)

\* Cancelling, retrying, failing or recovering a job never throws away an item
\* that is finished: only a worker that took the item up itself sets it back.
FinishedItemsKept ==
    [][\A b \in Builds, d \in Docs :
            buildItem[b][d] = "completed" /\ buildItem'[b][d] # "completed"
            => \E w \in Workers : worker[w].step = "run" /\ worker[w].build = b /\ NextDoc(w) = d]_vars

AtWork(b) == \E w \in Workers : worker[w].step # "idle" /\ worker[w].build = b
Announced(b) == \E e \in DOMAIN outbox : outbox[e].state = "pending" /\ outbox[e].task = b

\* Work is never forgotten: a job that waits or runs has an event to dispatch, a
\* message in the broker, or a worker.  It needs all of: the outbox row in the
\* transaction of the request, the late acknowledgement, the guards of the worker.
NoLostWork ==
    \A b \in Builds : task[b] \in {"queued", "running"} => Announced(b) \/ queue[b] > 0 \/ AtWork(b)

\* Every job comes to an end: completed, failed or cancelled.
JobsSettle ==
    \A b \in Builds : task[b] \in {"queued", "running"} ~> task[b] \notin {"queued", "running"}

\* builds.py:354 says of a failure that could not be written back that the
\* lease patrol can still recover the task: it does not remain queued for ever.
PatrolRecovers == \A b \in Builds : task[b] = "queued" ~> task[b] # "queued"

\* A worker that outlived its lease must not overwrite the result of the worker
\* that replaced it: a completed task is not turned into a failed one.
LateWorkerRejected ==
    [][\A b \in Builds : task[b] = "completed" => task'[b] # "failed"]_vars
=============================================================================
