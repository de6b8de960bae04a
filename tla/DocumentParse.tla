--------------------------- MODULE DocumentParse ---------------------------
(***************************************************************************)
(* The documents of one knowledge base and the jobs that parse them: the   *)
(* upload and the reparse of api/knowledge_routes.py, cancel_task and      *)
(* retry_task of api/lifecycle_routes.py as far as they concern parse      *)
(* tasks, the ingestion profiles of api/platform_routes.py, and the worker *)
(* _process_document of jobs/tasks.py, between the outbox and the broker.  *)
(*                                                                         *)
(* A document version is created together with its only task and the only  *)
(* item of that task, and the three are named by one number; a document is *)
(* named by the number of its first version.  Steps are cut as in          *)
(* IndexBuild: a transaction that locks its rows is one step, an           *)
(* autocommitted statement is one, and so is a read that is used later.    *)
(***************************************************************************)
EXTENDS Naturals, FiniteSets, Sequences

CONSTANTS
    Titles,       \* titles of documents, taken from the names of the files
    NoTitle,      \* the title of a document that does not exist
    MaxVersions,  \* bound: document versions
    Workers,      \* Celery worker processes (prefetch 1: one job at a time)
    Users,        \* concurrent requests
    Outcomes,     \* what an execution may make of a file: subset of ParseResults
    MaxAttempts,  \* sends after which an outbox event is given up (10 in the code)
    MaxProfiles,  \* bound: ingestion profiles made by administrators
    MaxEvents,    \* bound: outbox rows
    MaxTrouble    \* bound: requests about tasks, and failures of the environment

ParseResults == {"complete", "partial", "unsupported", "failed"}
Versions == 1..MaxVersions

ASSUME TitlesAssumption == NoTitle \notin Titles
ASSUME OutcomesAssumption == Outcomes \subseteq ParseResults
ASSUME BoundsAssumption == /\ MaxVersions \in Nat
                           /\ MaxAttempts \in Nat \ {0}
                           /\ MaxProfiles \in Nat
                           /\ MaxEvents \in Nat
                           /\ MaxTrouble \in Nat

VARIABLES
    document,   \* documents: [title, status, desired]
    version,    \* document_versions: [doc, parse]
    task,       \* tasks.state of the parse task of a version
    item,       \* task_items.state of its only item
    profiles,   \* ingestion_profiles of the knowledge base, in the order of creation
    artifacts,  \* document_artifacts of a version, in the order of creation
    outbox,     \* outbox_events
    queue,      \* messages in the broker, per task
    worker,     \* what each worker process remembers
    user,       \* what each request remembers
    lost,       \* history: tasks whose work was lost by a failure nobody handles
    trouble     \* requests about tasks, and failures, so far

content == <<document, version, profiles, artifacts>>
tasks == <<task, item>>
jobs == <<outbox, queue, worker, lost>>
vars == <<content, tasks, jobs, user, trouble>>

JobStates == {"none", "queued", "running", "completed", "failed", "cancelled"}
ArtifactStates == {"ready", "partial", "failed"}  \* "processing" is never committed

Idle == [step |-> "idle", task |-> 0, profile |-> 0, result |-> "failed"]
NoRequest == [step |-> "idle", task |-> 0, title |-> NoTitle, doc |-> 0]

TypeOK ==
    /\ document \in [Versions -> [title : Titles \cup {NoTitle}, status : {"none", "active", "deleted"},
                                  desired : 0..MaxVersions]]
    /\ version \in [Versions -> [doc : 0..MaxVersions,
                                 parse : ParseResults \cup {"queued", "processing"}]]
    /\ task \in [Versions -> JobStates]
    /\ item \in [Versions -> JobStates]
    /\ profiles \in Seq({"default", "custom"})
    /\ artifacts \in [Versions -> Seq([profile : Nat, state : ArtifactStates,
                                       gen : Nat, cited : BOOLEAN])]
    /\ outbox \in Seq([task : Versions, attempt : Nat, state : {"pending", "sent", "failed"}])
    /\ queue \in [Versions -> Nat]
    /\ worker \in [Workers -> [step : {"idle", "parse", "write", "failing"},
                               task : 0..MaxVersions, profile : Nat, result : ParseResults]]
    /\ user \in [Users -> [step : {"idle", "insert", "reparse", "retry", "cancel_task", "cancel_item"},
                           task : 0..MaxVersions, title : Titles \cup {NoTitle},
                           doc : 0..MaxVersions]]
    /\ lost \subseteq Versions
    /\ trouble \in Nat

Init ==
    /\ document = [d \in Versions |-> [title |-> NoTitle, status |-> "none", desired |-> 0]]
    /\ version = [v \in Versions |-> [doc |-> 0, parse |-> "queued"]]
    /\ task = [v \in Versions |-> "none"]
    /\ item = [v \in Versions |-> "none"]
    /\ profiles = << >>
    /\ artifacts = [v \in Versions |-> << >>]
    /\ outbox = << >>
    /\ queue = [v \in Versions |-> 0]
    /\ worker = [w \in Workers |-> Idle]
    /\ user = [u \in Users |-> NoRequest]
    /\ lost = {}
    /\ trouble = 0

Trouble == trouble < MaxTrouble /\ trouble' = trouble + 1

Event(v) == [task |-> v, attempt |-> 0, state |-> "pending"]

\* The outbox row of a request, written in its transaction.
AddEvent(v) ==
    /\ outbox' = Append(outbox, Event(v))
    /\ lost' = lost \ {v}

-----------------------------------------------------------------------------
(* Documents and profiles. *)

Living(t) == {d \in Versions : document[d].status = "active" /\ document[d].title = t}

\* An upload holds the row lock of the document it found until its commit.
Locked(d) == \E u \in Users : user[u].step = "insert" /\ user[u].doc = d

Unused == {v \in Versions : version[v].doc = 0}
Doing(steps) == Cardinality({u \in Users : user[u].step \in steps})

\* Within the bounds there is a row for what a request is going to write.
RoomForVersion == Doing({"insert"}) < Cardinality(Unused)
RoomForEvent == Len(outbox) + Doing({"insert", "reparse", "retry"}) < MaxEvents

\* upload_document stores the file, begins its transaction and looks for a
\* document of that title: a row that is found is locked, one that is not cannot be.
FindDocument(u, t) ==
    /\ user[u].step = "idle"
    /\ RoomForVersion /\ RoomForEvent
    /\ \E d \in 0..MaxVersions :
        /\ IF Living(t) = {} THEN d = 0
           ELSE d \in Living(t) /\ ~Locked(d) /\ \A x \in Living(t) : d <= x
        /\ user' = [user EXCEPT ![u] = [NoRequest EXCEPT !.step = "insert", !.title = t, !.doc = d]]
    /\ UNCHANGED <<content, tasks, jobs, trouble>>

\* The rest of the transaction: the document if there is none, the version, the
\* task with its item, and the event.  Identifiers are given out in order.
InsertVersion(u) ==
    \E v \in Unused :
        LET d == IF user[u].doc = 0 THEN v ELSE user[u].doc IN
        /\ user[u].step = "insert"
        /\ \A x \in Unused : v <= x
        /\ document' = [document EXCEPT ![d] =
                [title |-> user[u].title, status |-> "active", desired |-> v]]
        /\ version' = [version EXCEPT ![v] = [doc |-> d, parse |-> "queued"]]
        /\ task' = [task EXCEPT ![v] = "queued"]
        /\ item' = [item EXCEPT ![v] = "queued"]
        /\ AddEvent(v)
        /\ user' = [user EXCEPT ![u] = NoRequest]
        /\ UNCHANGED <<profiles, artifacts, queue, worker, trouble>>

\* The transaction is rolled back, or the API process is lost.
LoseRequest(u) ==
    /\ user[u].step # "idle"
    /\ Trouble
    /\ user' = [user EXCEPT ![u] = NoRequest]
    /\ UNCHANGED <<content, tasks, jobs>>

DeleteDocument(d) ==
    /\ document[d].status = "active"
    /\ ~Locked(d)
    /\ Trouble
    /\ document' = [document EXCEPT ![d].status = "deleted"]
    /\ UNCHANGED <<version, profiles, artifacts, tasks, jobs, user>>

\* create_ingestion_profile, with a definition that is not the built-in one.
CreateProfile ==
    /\ Cardinality({i \in DOMAIN profiles : profiles[i] = "custom"}) < MaxProfiles
    /\ profiles' = Append(profiles, "custom")
    /\ UNCHANGED <<document, version, artifacts, tasks, jobs, user, trouble>>

\* The present chunks of an artifact appear in a retrieval trace or a citation.
Cite(v, i) ==
    /\ i \in DOMAIN artifacts[v]
    /\ artifacts[v][i].state \in {"ready", "partial"}
    /\ ~artifacts[v][i].cited
    /\ Trouble
    /\ artifacts' = [artifacts EXCEPT ![v][i].cited = TRUE]
    /\ UNCHANGED <<document, version, profiles, tasks, jobs, user>>

-----------------------------------------------------------------------------
(* Requests about parse tasks: the state is read first and acted on later. *)

Read(u, v, states, step) ==
    /\ user[u].step = "idle"
    /\ task[v] \in states
    /\ Trouble
    /\ user' = [user EXCEPT ![u] = [NoRequest EXCEPT !.step = step, !.task = v]]
    /\ UNCHANGED <<content, tasks, jobs>>

Desired(v) == \E d \in Versions : document[d].desired = v

ReadForReparse(u, v) ==
    Desired(v) /\ RoomForEvent /\ Read(u, v, {"completed", "failed", "cancelled"}, "reparse")
ReadForRetry(u, v) == RoomForEvent /\ Read(u, v, {"failed", "cancelled"}, "retry")
ReadForCancel(u, v) == Read(u, v, {"queued", "running"}, "cancel_task")

Unless(done, s, t) == IF s = done THEN s ELSE t

\* The transactions of reparse_document and retry_task, which differ in the
\* items: a reparse queues a completed one as well.
Requeue(u) ==
    LET v == user[u].task IN
    /\ user[u].step \in {"reparse", "retry"}
    /\ task' = [task EXCEPT ![v] = "queued"]
    /\ item' = [item EXCEPT ![v] =
            IF user[u].step = "retry" THEN Unless("completed", @, "queued") ELSE "queued"]
    /\ AddEvent(v)
    /\ user' = [user EXCEPT ![u] = NoRequest]
    /\ UNCHANGED <<content, queue, worker, trouble>>

\* cancel_task is two autocommitted statements here, and leaves the version alone.
CancelTask(u) ==
    /\ user[u].step = "cancel_task"
    /\ task' = [task EXCEPT ![user[u].task] = "cancelled"]
    /\ user' = [user EXCEPT ![u].step = "cancel_item"]
    /\ UNCHANGED <<content, item, jobs, trouble>>

CancelItem(u) ==
    /\ user[u].step = "cancel_item"
    /\ item' = [item EXCEPT ![user[u].task] = Unless("completed", @, "cancelled")]
    /\ user' = [user EXCEPT ![u] = NoRequest]
    /\ UNCHANGED <<content, task, jobs, trouble>>

-----------------------------------------------------------------------------
(* The outbox dispatcher and the broker, as in IndexBuild. *)

Pending(e) == outbox[e].state = "pending"

Dispatch ==
    \E e \in DOMAIN outbox :
        /\ Pending(e)
        /\ outbox' = [outbox EXCEPT ![e].state = "sent", ![e].attempt = @ + 1]
        /\ queue' = [queue EXCEPT ![outbox[e].task] = @ + 1]
        /\ UNCHANGED <<content, tasks, worker, lost, user, trouble>>

\* The broker refuses the message, for the last time or not.
SendFails ==
    \E e \in DOMAIN outbox :
        LET last == outbox[e].attempt + 1 >= MaxAttempts IN
        /\ Pending(e)
        /\ Trouble
        /\ outbox' = [outbox EXCEPT ![e].attempt = @ + 1,
                                    ![e].state = IF last THEN "failed" ELSE "pending"]
        /\ lost' = IF last THEN lost \cup {outbox[e].task} ELSE lost
        /\ UNCHANGED <<content, tasks, queue, worker, user>>

DispatcherDies ==
    \E e \in DOMAIN outbox :
        /\ Pending(e)
        /\ Trouble
        /\ queue' = [queue EXCEPT ![outbox[e].task] = @ + 1]
        /\ UNCHANGED <<content, tasks, outbox, worker, lost, user>>

Redeliver(w) ==
    /\ worker[w].step # "idle"
    /\ Trouble
    /\ queue' = [queue EXCEPT ![worker[w].task] = @ + 1]
    /\ UNCHANGED <<content, tasks, outbox, worker, lost, user>>

-----------------------------------------------------------------------------
(* The worker. *)

Takes(v) == queue[v] > 0 /\ queue' = [queue EXCEPT ![v] = @ - 1]
TakesUp(w, v, s) == worker' = [worker EXCEPT ![w] = [Idle EXCEPT !.step = s, !.task = v]]
Returns(w) == worker' = [worker EXCEPT ![w] = Idle]

\* DEFECT: a task that is running is taken for one that is being looked after.
OverOrRunning(v) == task[v] \in {"running", "completed", "cancelled"}
Over(v) == task[v] \in {"completed", "cancelled"}

\* The first transaction of _process_document.
Start(w, v) ==
    /\ worker[w].step = "idle"
    /\ Takes(v)
    /\ ~Over(v)
    /\ task' = [task EXCEPT ![v] = "running"]
    /\ item' = [item EXCEPT ![v] = "running"]
    /\ version' = [version EXCEPT ![v].parse = "processing"]
    /\ TakesUp(w, v, "parse")
    /\ UNCHANGED <<document, profiles, artifacts, outbox, lost, user, trouble>>

StartNothing(w, v) ==
    /\ worker[w].step = "idle"
    /\ Takes(v)
    /\ Over(v)
    /\ UNCHANGED <<content, tasks, outbox, worker, lost, user, trouble>>

\* The first transaction raises and is rolled back, before or after it has looked at
\* the task: the handler will report a failure of whatever there is.
StartRaises(w, v) ==
    /\ worker[w].step = "idle"
    /\ Takes(v)
    /\ Trouble
    /\ TakesUp(w, v, "failing")
    /\ UNCHANGED <<content, tasks, outbox, lost, user>>

\* The database cannot be reached: the job raises and its message is acknowledged.
ConnectFails(w, v) ==
    /\ worker[w].step = "idle"
    /\ Takes(v)
    /\ Trouble
    /\ lost' = lost \cup {v}
    /\ UNCHANGED <<content, tasks, outbox, worker, user>>

\* The file is parsed, with whatever this execution finds in the storage (an object
\* that is missing now is a file that "failed"), and the newest profile is read; 0
\* stands for none.
ParseFile(w) ==
    /\ worker[w].step = "parse"
    /\ \E result \in Outcomes :
            worker' = [worker EXCEPT ![w].step = "write", ![w].profile = Len(profiles),
                                     ![w].result = result]
    /\ UNCHANGED <<content, tasks, outbox, queue, lost, user, trouble>>

\* DEFECT: the artifact of a failed parse stays "processing", as it was inserted.
StaysProcessing(result) ==
    CASE result = "complete" -> "ready" [] result = "partial" -> "partial" [] OTHER -> "processing"
\* DEFECT: a partial parse is recorded as a ready artifact, a complete one as partial.
SwappedState(result) == IF result = "partial" THEN "ready" ELSE "partial"
ArtifactState(result) ==
    CASE result = "complete" -> "ready" [] result = "partial" -> "partial" [] OTHER -> "failed"

\* DEFECT: only a task that is still running is completed.
CompletesRunning(s) == IF s = "running" THEN "completed" ELSE s
\* WHERE state <> 'cancelled'
Completes(s) == IF s = "cancelled" THEN s ELSE "completed"

\* DEFECT: the chunks are deleted with whatever refers to them.
NeverBlocked(old, p) == FALSE
\* message_citations and retrieval_trace_items keep the chunks they refer to
\* (ON DELETE RESTRICT): the DELETE raises.
Blocked(old, p) == \E i \in DOMAIN old : old[i].profile = p /\ old[i].cited

\* The profile the last transaction works with: the one that was read, or the
\* built-in one, inserted now.  The insertion raises if another parse was faster.
UsesProfile(w, p) ==
    \/ worker[w].profile # 0 /\ p = worker[w].profile /\ UNCHANGED profiles
    \/ /\ worker[w].profile = 0
       /\ \A i \in DOMAIN profiles : profiles[i] # "default"
       /\ profiles' = Append(profiles, "default")
       /\ p = Len(profiles) + 1

\* The artifacts of a version after a parse with profile p: the row of that
\* profile is reused with new chunks, or a new row is the newest one.
Replaced(old, p, result) ==
    LET s == ArtifactState(result)
        mine(i) == old[i].profile = p
    IN IF \E i \in DOMAIN old : mine(i)
       THEN [i \in DOMAIN old |-> IF mine(i)
                THEN [profile |-> p, state |-> s, gen |-> old[i].gen + 1, cited |-> FALSE]
                ELSE old[i]]
       ELSE Append(old, [profile |-> p, state |-> s, gen |-> 1, cited |-> FALSE])

\* The last transaction, in which only the success looks at a cancellation.
FinishParse(w) ==
    LET v == worker[w].task
        result == worker[w].result
    IN
    /\ worker[w].step = "write"
    /\ \E p \in 1..(Len(profiles) + 1) :
        /\ UsesProfile(w, p)
        /\ ~Blocked(artifacts[v], p)
        /\ artifacts' = [artifacts EXCEPT ![v] = Replaced(@, p, result)]
    /\ version' = [version EXCEPT ![v].parse = result]
    /\ task' = [task EXCEPT ![v] = IF result = "failed" THEN "failed" ELSE Completes(@)]
    /\ item' = [item EXCEPT ![v] = IF result = "failed" THEN "failed" ELSE Completes(@)]
    /\ Returns(w)
    /\ UNCHANGED <<document, outbox, queue, lost, user, trouble>>

\* The last transaction raises: the built-in profile exists by now, or the
\* chunks to be replaced are cited.
WriteRefused(w) ==
    LET v == worker[w].task
        p == worker[w].profile
    IN
    /\ worker[w].step = "write"
    /\ IF p = 0 THEN \E i \in DOMAIN profiles : profiles[i] = "default"
                ELSE Blocked(artifacts[v], p)
    /\ TakesUp(w, worker[w].task, "failing")
    /\ UNCHANGED <<content, tasks, outbox, queue, lost, user, trouble>>

\* Any step may raise: the storage, the parser, the database.
Raise(w) ==
    /\ worker[w].step \in {"parse", "write"}
    /\ Trouble
    /\ TakesUp(w, worker[w].task, "failing")
    /\ UNCHANGED <<content, tasks, outbox, queue, lost, user>>

\* DEFECT: the failure is written to the task and not to the version.
FailsTaskOnly(s) == s
FailsVersion(s) == "failed"

\* The handler of the exception: nothing in it looks at the state of the task.
MarkFailure(w) ==
    LET v == worker[w].task IN
    /\ worker[w].step = "failing"
    /\ task' = [task EXCEPT ![v] = "failed"]
    /\ item' = [item EXCEPT ![v] = Unless("completed", @, "failed")]
    /\ version' = [version EXCEPT ![v].parse = FailsVersion(@)]
    /\ Returns(w)
    /\ UNCHANGED <<document, profiles, artifacts, outbox, queue, lost, user, trouble>>

\* The failure cannot be written back: that exception is swallowed, the function
\* returns, and the message is acknowledged.  There is no lease that could run out.
WriteBackFails(w) ==
    /\ worker[w].step = "failing"
    /\ Trouble
    /\ lost' = lost \cup {worker[w].task}
    /\ Returns(w)
    /\ UNCHANGED <<content, tasks, outbox, queue, user>>

\* DEFECT: acknowledged before the job is done, or not rejected when the worker is lost.
LosesMessage(v) == UNCHANGED queue
PutsBack(v) == queue' = [queue EXCEPT ![v] = @ + 1]

\* The worker process is lost: task_reject_on_worker_lost puts the message back.
Crash(w) ==
    /\ worker[w].step # "idle"
    /\ Trouble
    /\ PutsBack(worker[w].task)
    /\ Returns(w)
    /\ UNCHANGED <<content, tasks, outbox, lost, user>>

-----------------------------------------------------------------------------
Request(u) ==
    \/ \E t \in Titles : FindDocument(u, t)
    \/ \E v \in Versions : ReadForReparse(u, v) \/ ReadForRetry(u, v) \/ ReadForCancel(u, v)
    \/ InsertVersion(u) \/ Requeue(u) \/ CancelTask(u) \/ CancelItem(u) \/ LoseRequest(u)

Deliver(w, v) == Start(w, v) \/ StartNothing(w, v) \/ StartRaises(w, v) \/ ConnectFails(w, v)

Work(w) == ParseFile(w) \/ FinishParse(w) \/ WriteRefused(w) \/ MarkFailure(w)

Next ==
    \/ \E u \in Users : Request(u)
    \/ \E d \in Versions : DeleteDocument(d)
    \/ CreateProfile
    \/ \E v \in Versions : \E i \in DOMAIN artifacts[v] : Cite(v, i)
    \/ Dispatch \/ SendFails \/ DispatcherDies
    \/ \E w \in Workers : \/ \E v \in Versions : Deliver(w, v)
                          \/ Work(w)
                          \/ Redeliver(w) \/ Raise(w) \/ WriteBackFails(w) \/ Crash(w)

Spec == Init /\ [][Next]_vars

\* Celery beat runs the dispatcher for ever, and a worker that is up takes the
\* next message and carries its job on.
Fairness ==
    /\ WF_vars(Dispatch)
    /\ WF_vars(\E w \in Workers, v \in Versions : Deliver(w, v))
    /\ \A w \in Workers : WF_vars(Work(w))
FairSpec == Spec /\ Fairness

-----------------------------------------------------------------------------
(* Properties. *)

\* What the task says of a parse the version says too, although stale requests
\* write the task alone and two executions of one task may overlap: a completed
\* task has a version with a result, a failed one a version that failed (tasks.py:226-383).
TaskTellsVersion ==
    \A v \in Versions :
        /\ task[v] = "completed" => /\ version[v].parse \in {"complete", "partial", "unsupported"}
                                    /\ item[v] \in {"completed", "cancelled"}
        /\ task[v] = "failed" => version[v].parse = "failed"

\* A version that has a result has an artifact of that very result, although two of its
\* executions may differ, over a missing file, and each may write after the other, under
\* another profile (tasks.py:242-306).  It need not be the newest artifact, which is
\* what create_build goes by.
ResultHasItsArtifact ==
    \A v \in Versions :
        /\ version[v].parse = "complete" => \E i \in DOMAIN artifacts[v] : artifacts[v][i].state = "ready"
        /\ version[v].parse = "partial" => \E i \in DOMAIN artifacts[v] : artifacts[v][i].state = "partial"

\* Evidence that was shown to somebody stays what it was: no reparse, retry or
\* second execution replaces chunks that a trace or an answer refers to.
EvidenceKept ==
    [][\A v \in Versions : \A i \in DOMAIN artifacts[v] :
            artifacts[v][i].cited => artifacts'[v][i] = artifacts[v][i]]_vars

AtWork(v) == \E w \in Workers : worker[w].step # "idle" /\ worker[w].task = v
Announced(v) == \E e \in DOMAIN outbox : outbox[e].state = "pending" /\ outbox[e].task = v

\* A parse that waits or runs has an event to dispatch, a message in the broker
\* or a worker, unless one of the three failures lost it: an event given up, a
\* database out of reach at the start, or at the report of a failure.
NoLostWork ==
    \A v \in Versions : task[v] \in {"queued", "running"} =>
        Announced(v) \/ queue[v] > 0 \/ AtWork(v) \/ v \in lost

Waiting(v) == task[v] \in {"queued", "running"} /\ v \notin lost

\* Every parse task that is not lost comes to an end.
ParsesSettle == \A v \in Versions : Waiting(v) ~> ~Waiting(v)

\* A version does not remain "processing" for ever, except that of a task that
\* was cancelled (nothing puts the version back) or lost.
VersionsSettle ==
    \A v \in Versions :
        version[v].parse = "processing"
            ~> version[v].parse # "processing" \/ task[v] = "cancelled" \/ v \in lost
=============================================================================
