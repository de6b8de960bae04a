-------------------------- MODULE IndexBuild_proofs --------------------------
(***************************************************************************)
(* Theorems about IndexBuild, for any number of builds, documents, workers *)
(* and requests, whatever is lost or repeated.                             *)
(***************************************************************************)
EXTENDS IndexBuild, FiniteSetTheorems, SequenceTheorems, WellFoundedInduction, TLAPS

\* The inductive invariant: half of it is about the states of jobs, half about
\* their items.  The domains in it are the part of TypeOK that the steps need.
StatesInv ==
    /\ build \in [Builds -> {"none", "queued", "running", "ready", "failed", "cancelled"}]
    /\ task \in [Builds -> JobStates \cup {"none"}]
    /\ CompletedMeansReady
ItemsInv ==
    /\ buildItem \in [Builds -> [Docs -> JobStates]]
    /\ taskItem \in [Builds -> [Docs -> JobStates]]
    /\ ItemListsAgree
Inv == StatesInv /\ ItemsInv

states == <<build, task>>
items == <<buildItem, taskItem>>

\* An update of the unfinished items leaves finished what is finished.
LEMMA UnfinishedFacts ==
  ASSUME NEW f \in [Docs -> JobStates], NEW s \in JobStates \ {"completed"}
  PROVE  /\ Unfinished(f, s) \in [Docs -> JobStates]
         /\ \A d \in Docs : Unfinished(f, s)[d] = "completed" <=> f[d] = "completed"
  BY DEF Unfinished, JobStates

\* The invariant holds initially.
LEMMA InitInv == Init => Inv
  BY DEF Init, Inv, StatesInv, ItemsInv, CompletedMeansReady, ItemListsAgree, JobStates

\* Steps that touch neither builds nor tasks keep the first half.
LEMMA StatesStay == StatesInv /\ UNCHANGED states => StatesInv'
  BY DEF StatesInv, CompletedMeansReady, states

\* Steps that touch no item keep the second half.
LEMMA ItemsStay == ItemsInv /\ UNCHANGED items => ItemsInv'
  BY DEF ItemsInv, ItemListsAgree, items

\* One job moves to a state that is not `completed`, or is completed with its build.
LEMMA StatesMove ==
  ASSUME StatesInv, NEW b,
         NEW t \in JobStates \cup {"none"},
         NEW s \in {"none", "queued", "running", "ready", "failed", "cancelled"},
         t = "completed" => s = "ready",
         task' = [task EXCEPT ![b] = t], build' = [build EXCEPT ![b] = s]
  PROVE  StatesInv'
  BY DEF StatesInv, CompletedMeansReady

\* Both lists mark one item alike.
LEMMA ItemMarked ==
  ASSUME ItemsInv, NEW b, NEW d, NEW s \in JobStates,
         buildItem' = [buildItem EXCEPT ![b][d] = s], taskItem' = [taskItem EXCEPT ![b][d] = s]
  PROVE  ItemsInv'
<1>1. /\ buildItem' \in [Builds -> [Docs -> JobStates]]
      /\ taskItem' \in [Builds -> [Docs -> JobStates]]
  BY DEF ItemsInv
<1>2. ASSUME NEW c \in Builds, NEW e \in Docs
      PROVE  (buildItem'[c][e] = "completed") <=> (taskItem'[c][e] = "completed")
  <2>1. /\ buildItem'[c][e] = IF c = b /\ e = d THEN s ELSE buildItem[c][e]
        /\ taskItem'[c][e] = IF c = b /\ e = d THEN s ELSE taskItem[c][e]
    BY DEF ItemsInv
  <2> QED BY <2>1 DEF ItemsInv, ItemListsAgree
<1> QED BY <1>1, <1>2 DEF ItemsInv, ItemListsAgree

\* A list that holds finished exactly what the other one does.
Alike(f, g) ==
    /\ g \in [Builds -> [Docs -> JobStates]]
    /\ \A c \in Builds, e \in Docs : (g[c][e] = "completed") <=> (f[c][e] = "completed")

\* A list is swept: finished items stay, the others change.
LEMMA Sweep ==
  ASSUME NEW f \in [Builds -> [Docs -> JobStates]], NEW b, NEW s \in JobStates \ {"completed"}
  PROVE  Alike(f, [f EXCEPT ![b] = Unfinished(f[b], s)])
<1> DEFINE g == [f EXCEPT ![b] = Unfinished(f[b], s)]
<1>1. CASE b \in Builds
  <2>1. f[b] \in [Docs -> JobStates]
    BY <1>1
  <2>2. /\ Unfinished(f[b], s) \in [Docs -> JobStates]
        /\ \A e \in Docs : (Unfinished(f[b], s)[e] = "completed") <=> (f[b][e] = "completed")
    BY <2>1, UnfinishedFacts
  <2>3. \A c \in Builds : g[c] = IF c = b THEN Unfinished(f[b], s) ELSE f[c]
    OBVIOUS
  <2> QED BY <2>2, <2>3 DEF Alike
<1>2. CASE b \notin Builds
  <2>1. g = f
    BY <1>2
  <2> QED BY <2>1 DEF Alike
<1> QED BY <1>1, <1>2

\* Each list stays, or holds finished what it held: they still agree.
LEMMA ItemsAlike ==
  ASSUME ItemsInv,
         UNCHANGED buildItem \/ Alike(buildItem, buildItem'),
         UNCHANGED taskItem \/ Alike(taskItem, taskItem')
  PROVE  ItemsInv'
BY DEF ItemsInv, ItemListsAgree, Alike

-----------------------------------------------------------------------------
\* The requests of users keep the invariant.
LEMMA RequestStep ==
  ASSUME Inv, NEW u \in Users, Request(u)
  PROVE  Inv'
<1> USE DEF Inv
<1>1. ASSUME NEW b \in Builds, ReadForCancel(u, b) \/ ReadForRetry(u, b) PROVE Inv'
  BY <1>1, StatesStay, ItemsStay DEF ReadForCancel, ReadForRetry, Read, stored, states, items
<1>2. CASE CancelTask(u)
  <2>1. StatesInv'
    BY <1>2 DEF CancelTask, StatesInv, CompletedMeansReady, JobStates
  <2> QED BY <1>2, <2>1, ItemsStay DEF CancelTask, items
<1>3. CASE CancelBuild(u)
  <2>1. StatesInv'
    BY <1>3 DEF CancelBuild, Stopped, StatesInv, CompletedMeansReady
  <2> QED BY <1>3, <2>1, ItemsStay DEF CancelBuild, items
<1>4. CASE CancelBuildItems(u)
  <2>1. Alike(buildItem, buildItem')
    BY <1>4, Sweep DEF CancelBuildItems, ItemsInv, JobStates
  <2>2. ItemsInv'
    BY <1>4, <2>1, ItemsAlike DEF CancelBuildItems
  <2> QED BY <1>4, <2>2, StatesStay DEF CancelBuildItems, states
<1>5. CASE CancelTaskItems(u)
  <2>1. Alike(taskItem, taskItem')
    BY <1>5, Sweep DEF CancelTaskItems, ItemsInv, JobStates
  <2>2. ItemsInv'
    BY <1>5, <2>1, ItemsAlike DEF CancelTaskItems
  <2> QED BY <1>5, <2>2, StatesStay DEF CancelTaskItems, states
<1>6. CASE RetryTask(u)
  <2>1. StatesInv'
    BY <1>6, StatesMove DEF RetryTask, JobStates
  <2>2. ItemsInv'
    <3>1. Alike(buildItem, buildItem') /\ Alike(taskItem, taskItem')
      BY <1>6, Sweep DEF RetryTask, ItemsInv, JobStates
    <3> QED BY <3>1, ItemsAlike
  <2> QED BY <2>1, <2>2
<1>7. CASE LoseRequest(u)
  BY <1>7, StatesStay, ItemsStay DEF LoseRequest, stored, states, items
<1> QED BY <1>1, <1>2, <1>3, <1>4, <1>5, <1>6, <1>7 DEF Request

\* Taking a message up keeps the invariant.
LEMMA DeliverStep ==
  ASSUME Inv, NEW w \in Workers, NEW b \in Builds, Deliver(w, b)
  PROVE  Inv'
<1> USE DEF Inv
<1>1. CASE Start(w, b)
  <2>1. StatesInv'
    BY <1>1, StatesMove DEF Start, JobStates
  <2> QED BY <1>1, <2>1, ItemsStay DEF Start, items
<1>2. CASE StartNothing(w, b) \/ StartRefused(w, b) \/ ConnectFails(w, b)
  BY <1>2, StatesStay, ItemsStay
     DEF StartNothing, StartRefused, ConnectFails, stored, states, items
<1> QED BY <1>1, <1>2 DEF Deliver

\* The steps of a worker keep the invariant.
LEMMA WorkStep ==
  ASSUME Inv, NEW w \in Workers, Work(w)
  PROVE  Inv'
<1> USE DEF Inv
<1>1. CASE Check(w) \/ ReadForFailure(w)
  BY <1>1, StatesStay, ItemsStay DEF Check, ReadForFailure, stored, states, items
<1>2. CASE RunItem(w)
  <2>1. ItemsInv'
    BY <1>2, ItemMarked DEF RunItem, JobStates
  <2> QED BY <1>2, <2>1, StatesStay DEF RunItem, states
<1>3. CASE WriteBatch(w)
  BY <1>3, StatesStay, ItemsStay DEF WriteBatch, states, items
<1>4. CASE FinishItem(w)
  <2>1. ItemsInv'
    BY <1>4, ItemMarked DEF FinishItem, JobStates
  <2> QED BY <1>4, <2>1, StatesStay DEF FinishItem, states
<1>5. CASE FinishBuild(w)
  <2>1. StatesInv'
    <3>1. CASE UNCHANGED <<build, task>>
      BY <3>1, StatesStay DEF states
    <3>2. CASE ~UNCHANGED <<build, task>>
      BY <1>5, <3>2 DEF FinishBuild, StatesInv, CompletedMeansReady, JobStates
    <3> QED BY <3>1, <3>2
  <2> QED BY <1>5, <2>1, ItemsStay DEF FinishBuild, items
<1>6. CASE MarkBuildFailure(w)
  <2>1. StatesInv'
    BY <1>6, StatesMove DEF MarkBuildFailure, JobStates
  <2>2. ItemsInv'
    <3>1. Alike(buildItem, buildItem') /\ Alike(taskItem, taskItem')
      BY <1>6, Sweep DEF MarkBuildFailure, ItemsInv, JobStates
    <3> QED BY <3>1, ItemsAlike
  <2> QED BY <2>1, <2>2
<1> QED BY <1>1, <1>2, <1>3, <1>4, <1>5, <1>6 DEF Work

\* The lease patrol takes tasks back that are running, and items that are.
LEMMA PatrolStep ==
  ASSUME Inv, RecoverLeases
  PROVE  Inv'
<1> USE DEF Inv
<1>1. StatesInv'
  BY DEF RecoverLeases, StatesInv, CompletedMeansReady, JobStates
<1>2. ItemsInv'
  <2>1. \A b \in Builds, d \in Docs :
           /\ taskItem'[b][d] \in JobStates
           /\ taskItem'[b][d] = "completed" <=> taskItem[b][d] = "completed"
    BY DEF RecoverLeases, Requeued, ItemsInv, JobStates
  <2>2. taskItem' \in [Builds -> [Docs -> JobStates]]
    BY <2>1 DEF RecoverLeases
  <2> QED BY <2>1, <2>2 DEF RecoverLeases, ItemsInv, ItemListsAgree
<1> QED BY <1>1, <1>2

\* Every step keeps the invariant.
LEMMA NextInv == Inv /\ [Next]_vars => Inv'
<1> SUFFICES ASSUME Inv, [Next]_vars PROVE Inv'
  OBVIOUS
<1> USE DEF Inv
<1>1. ASSUME NEW b \in Builds, CreateBuild(b) PROVE Inv'
  <2>1. StatesInv'
    BY <1>1, StatesMove DEF CreateBuild, JobStates
  <2> QED BY <1>1, <2>1, ItemsStay DEF CreateBuild, items
<1>2. ASSUME NEW b \in Builds, ExpireLease(b) PROVE Inv'
  BY <1>2, StatesStay, ItemsStay DEF ExpireLease, states, items
<1>3. ASSUME NEW d \in Docs, Reparse(d) PROVE Inv'
  BY <1>3, StatesStay, ItemsStay DEF Reparse, stored, states, items
<1>4. CASE ChangeContent
  BY <1>4, StatesStay, ItemsStay DEF ChangeContent, states, items
<1>5. CASE Dispatch \/ SendFails \/ DispatcherDies
  BY <1>5, StatesStay, ItemsStay DEF Dispatch, SendFails, DispatcherDies, stored, states, items
<1>6. ASSUME NEW w \in Workers, Redeliver(w) \/ Raise(w) \/ WriteBackFails(w) \/ Crash(w)
      PROVE  Inv'
  BY <1>6, StatesStay, ItemsStay DEF Redeliver, Raise, WriteBackFails, Crash, stored, states, items
<1>7. CASE UNCHANGED vars
  BY <1>7, StatesStay, ItemsStay DEF vars, stored, states, items
<1> QED BY <1>1, <1>2, <1>3, <1>4, <1>5, <1>6, <1>7,
        RequestStep, DeliverStep, WorkStep, PatrolStep DEF Next

\* The inductive invariant holds in every reachable state.
LEMMA Invariance == Spec => []Inv
  BY InitInv, NextInv, PTL DEF Spec

\* A task is completed only together with its build, whatever the interleaving of
\* workers, cancellations, retries and the lease patrol.
THEOREM TaskFollowsBuild == Spec => []CompletedMeansReady
<1>1. Inv => CompletedMeansReady
  BY DEF Inv, StatesInv
<1> QED BY <1>1, Invariance, PTL

\* build_items and task_items never disagree on what is finished.
THEOREM ItemsAgree == Spec => []ItemListsAgree
<1>1. Inv => ItemListsAgree
  BY DEF Inv, ItemsInv
<1> QED BY <1>1, Invariance, PTL

-----------------------------------------------------------------------------
(* What workers and requests remember, and the types of everything. *)

EventRows == [task : Builds, attempt : Nat, state : {"pending", "sent", "failed"}]
WorkerRows == [step : Steps, build : Builds \cup {NoBuild}, todo : SUBSET Docs,
               gen : Nat, off : 0..Batches]
UserRows == [step : Requests, build : Builds \cup {NoBuild}]
ChunkRows == [gen : Nat, size : {0, Batches}]

ItemSteps == {"check", "run", "batch_check", "batch_write", "done"}

\* A worker that is busy has a job, one that is at an item has an item, and one
\* that is about to write a batch has a batch left.
WorkersInv ==
    /\ worker \in [Workers -> WorkerRows]
    /\ \A w \in Workers :
        /\ worker[w].step # "idle" => worker[w].build \in Builds
        /\ worker[w].step \in ItemSteps => worker[w].todo # {}
        /\ worker[w].step \in {"batch_check", "batch_write"} => worker[w].off < Batches
UsersInv ==
    /\ user \in [Users -> UserRows]
    /\ \A u \in Users : user[u].step # "idle" => user[u].build \in Builds
JobsInv == outbox \in Seq(EventRows) /\ queue \in [Builds -> Nat]
ContentInv == chunks \in [Docs -> ChunkRows] /\ embedded \in [Docs -> SUBSET (1..Batches)]
NumbersInv ==
    /\ epoch \in Nat
    /\ inputEpoch \in [Builds -> Nat]
    /\ lease \in [Builds -> {"null", "live", "expired"}]
    /\ trouble \in Nat

\* The first document of those a worker has left.
LEMMA NextDocFacts ==
  ASSUME NEW w \in Workers, worker[w].todo \subseteq Docs, worker[w].todo # {}
  PROVE  NextDoc(w) \in worker[w].todo /\ NextDoc(w) \in Docs
<1> DEFINE T == worker[w].todo
           Less == OpToRel(<, Nat)
<1>1. T \subseteq Nat
  BY DocsAssumption
<1> HIDE DEF T
<1>2. PICK x \in T : \A y \in T : <<y, x>> \notin Less
  <2> HIDE DEF Less
  <2>1. IsWellFoundedOn(Less, Nat)
    BY NatLessThanWellFounded DEF Less
  <2>2. T # {}
    BY DEF T
  <2> QED BY <1>1, <2>1, <2>2, WFMin
<1>3. \A y \in T : x <= y
  <2> SUFFICES ASSUME NEW y \in T, y < x PROVE FALSE
    BY <1>1
  <2>1. <<y, x>> \in Nat \X Nat
    BY <1>1
  <2>2. <<y, x>> \in Less
    BY <2>1 DEF OpToRel
  <2> QED BY <1>2, <2>2
<1> QED BY <1>3 DEF NextDoc, T

LEMMA WorkersStay == WorkersInv /\ UNCHANGED worker => WorkersInv'
  BY DEF WorkersInv
LEMMA UsersStay == UsersInv /\ UNCHANGED user => UsersInv'
  BY DEF UsersInv
LEMMA JobsStay == JobsInv /\ UNCHANGED <<outbox, queue>> => JobsInv'
  BY DEF JobsInv
LEMMA ContentStays == ContentInv /\ UNCHANGED content => ContentInv'
  BY DEF ContentInv, content

\* One worker goes on to a row like that.
LEMMA WorkerBecomes ==
  ASSUME WorkersInv, NEW w \in Workers, NEW r \in WorkerRows, Becomes(w, r),
         r.step # "idle" => r.build \in Builds,
         r.step \in ItemSteps => r.todo # {},
         r.step \in {"batch_check", "batch_write"} => r.off < Batches
  PROVE  WorkersInv'
BY DEF WorkersInv, Becomes

LEMMA WorkerReturns ==
  ASSUME WorkersInv, NEW w \in Workers, Returns(w)
  PROVE  WorkersInv'
<1>1. Idle \in WorkerRows /\ Idle.step = "idle"
  BY BatchesAssumption DEF Idle, WorkerRows, Steps
<1> QED BY <1>1, WorkerBecomes DEF Returns, ItemSteps

\* A busy worker goes on to a step that needs no more than the one before.
LEMMA WorkerMoves ==
  ASSUME WorkersInv, NEW w \in Workers, NEW s \in Steps \ {"idle"}, Moves(w, s),
         worker[w].step # "idle",
         s \in ItemSteps => worker[w].step \in ItemSteps,
         s \in {"batch_check", "batch_write"} => worker[w].off < Batches
  PROVE  WorkersInv'
<1> DEFINE r == [worker[w] EXCEPT !.step = s]
<1>1. r \in WorkerRows /\ r.step = s /\ r.build = worker[w].build /\ r.todo = worker[w].todo
      /\ r.off = worker[w].off
  BY DEF WorkersInv, WorkerRows
<1>2. Becomes(w, r)
  BY DEF Moves, Becomes
<1> HIDE DEF r
<1>3. worker[w].build \in Builds /\ (s \in ItemSteps => worker[w].todo # {})
  BY DEF WorkersInv
<1> QED BY <1>1, <1>2, <1>3, WorkerBecomes

LEMMA DeliverWorkers ==
  ASSUME WorkersInv, NEW w \in Workers, NEW b \in Builds, Deliver(w, b)
  PROVE  WorkersInv'
<1>0. Idle \in WorkerRows
  BY BatchesAssumption DEF Idle, WorkerRows, Steps
<1>1. CASE Start(w, b)
  <2> PICK todo \in SUBSET Docs :
        Becomes(w, [Idle EXCEPT !.step = IF todo = {} THEN "final" ELSE "check",
                                !.build = b, !.todo = todo])
    BY <1>1 DEF Start
  <2> DEFINE s == IF todo = {} THEN "final" ELSE "check"
             r == [Idle EXCEPT !.step = s, !.build = b, !.todo = todo]
  <2>1. /\ r \in WorkerRows
        /\ r.build = b
        /\ r.todo = todo
        /\ r.step = s
    <3>1. s \in Steps
      BY DEF Steps
    <3> HIDE DEF s
    <3> QED BY <1>0, <3>1 DEF WorkerRows
  <2>2. Becomes(w, r)
    OBVIOUS
  <2>3. s \notin {"batch_check", "batch_write"} /\ (s \in ItemSteps => todo # {})
    BY DEF ItemSteps
  <2> HIDE DEF r, s
  <2> QED BY <2>1, <2>2, <2>3, WorkerBecomes
<1>2. CASE StartRefused(w, b)
  <2> DEFINE r == [Idle EXCEPT !.step = "failing", !.build = b]
  <2>1. r \in WorkerRows /\ r.build = b /\ r.step = "failing"
    BY <1>0 DEF WorkerRows, Steps
  <2>2. Becomes(w, r)
    BY <1>2 DEF StartRefused
  <2> HIDE DEF r
  <2> QED BY <2>1, <2>2, WorkerBecomes DEF ItemSteps
<1>3. CASE StartNothing(w, b) \/ ConnectFails(w, b)
  BY <1>3, WorkersStay DEF StartNothing, ConnectFails
<1> QED BY <1>1, <1>2, <1>3 DEF Deliver

LEMMA WorkWorkers ==
  ASSUME WorkersInv, ContentInv, NEW w \in Workers, Work(w)
  PROVE  WorkersInv'
<1>0. worker[w] \in WorkerRows /\ Batches > 0
  BY BatchesAssumption DEF WorkersInv
<1>1. CASE Check(w)
  <2>1. CASE Returns(w)
    BY <2>1, WorkerReturns
  <2>2. CASE worker[w].step = "check" /\ Moves(w, "run")
    BY <2>2, WorkerMoves DEF Steps, ItemSteps
  <2>3. CASE worker[w].step = "batch_check" /\ Moves(w, "batch_write")
    BY <2>3, WorkerMoves DEF Steps, ItemSteps, WorkersInv
  <2> QED BY <1>1, <2>1, <2>2, <2>3 DEF Check
<1>2. CASE RunItem(w)
  <2> DEFINE d == NextDoc(w)
             s == IF chunks[d].size = 0 THEN "failing" ELSE "batch_check"
             r == [worker[w] EXCEPT !.step = s, !.gen = chunks[d].gen, !.off = 0]
  <2>1. worker[w].step = "run" /\ worker[w].todo # {} /\ worker[w].build \in Builds
    BY <1>2 DEF RunItem, WorkersInv, ItemSteps
  <2>2. d \in Docs
    BY <1>0, <2>1, NextDocFacts DEF WorkerRows
  <2>3. chunks[d].gen \in Nat
    BY <2>2 DEF ContentInv, ChunkRows
  <2>4. Becomes(w, r)
    BY <1>2 DEF RunItem
  <2> HIDE DEF d
  <2>5. /\ r \in WorkerRows
        /\ r.build = worker[w].build
        /\ r.todo = worker[w].todo
        /\ r.off = 0
    <3>1. s \in Steps /\ 0 \in 0..Batches
      BY BatchesAssumption DEF Steps
    <3> HIDE DEF s
    <3> QED BY <1>0, <2>3, <3>1 DEF WorkerRows
  <2> HIDE DEF r
  <2> QED BY <1>0, <2>1, <2>4, <2>5, WorkerBecomes
<1>3. CASE WriteBatch(w)
  <2>1. worker[w].step = "batch_write" /\ worker[w].todo # {} /\ worker[w].build \in Builds
        /\ worker[w].off < Batches
    BY <1>3 DEF WriteBatch, WorkersInv, ItemSteps
  <2>2. CASE Moves(w, "failing")
    BY <2>1, <2>2, WorkerMoves DEF Steps, ItemSteps
  <2>3. CASE ~Moves(w, "failing")
    <3> DEFINE n == worker[w].off + 1
               s == IF n < Batches THEN "batch_check" ELSE "done"
               r == [worker[w] EXCEPT !.off = n, !.step = s]
    <3>1. Becomes(w, r)
      BY <1>3, <2>3 DEF WriteBatch, More
    <3>2. n \in 0..Batches
      BY <1>0, <2>1, BatchesAssumption DEF WorkerRows
    <3>3. s \in {"batch_check", "batch_write"} => n < Batches
      OBVIOUS
    <3>4. s \in Steps
      BY DEF Steps
    <3> HIDE DEF n, s
    <3>5. /\ r \in WorkerRows
          /\ r.build = worker[w].build
          /\ r.todo = worker[w].todo
          /\ r.off = n
          /\ r.step = s
      BY <1>0, <3>2, <3>4 DEF WorkerRows
    <3> HIDE DEF r
    <3> QED BY <2>1, <3>1, <3>3, <3>5, WorkerBecomes
  <2> QED BY <2>2, <2>3
<1>4. CASE FinishItem(w)
  <2> DEFINE rest == worker[w].todo \ {NextDoc(w)}
             s == IF rest = {} THEN "final" ELSE "check"
             r == [worker[w] EXCEPT !.todo = rest, !.step = s]
  <2>1. worker[w].step = "done" /\ worker[w].build \in Builds
    BY <1>4 DEF FinishItem, WorkersInv
  <2>2. Becomes(w, r)
    BY <1>4 DEF FinishItem
  <2>3. rest \subseteq Docs
    BY <1>0 DEF WorkerRows
  <2>4. s \in Steps /\ (s \in ItemSteps => rest # {}) /\ s \notin {"batch_check", "batch_write"}
    BY DEF Steps, ItemSteps
  <2> HIDE DEF rest, s
  <2>5. /\ r \in WorkerRows
        /\ r.build = worker[w].build
        /\ r.todo = rest
        /\ r.step = s
    BY <1>0, <2>3, <2>4 DEF WorkerRows
  <2> HIDE DEF r
  <2> QED BY <2>1, <2>2, <2>4, <2>5, WorkerBecomes
<1>5. CASE FinishBuild(w)
  BY <1>5, WorkerReturns, WorkerMoves DEF FinishBuild, Steps, ItemSteps
<1>6. CASE ReadForFailure(w)
  BY <1>6, WorkerReturns, WorkerMoves DEF ReadForFailure, Steps, ItemSteps
<1>7. CASE MarkBuildFailure(w)
  BY <1>7, WorkerReturns DEF MarkBuildFailure
<1> QED BY <1>1, <1>2, <1>3, <1>4, <1>5, <1>6, <1>7 DEF Work

\* Every step keeps what workers remember.
LEMMA NextWorkers == WorkersInv /\ ContentInv /\ [Next]_vars => WorkersInv'
<1> SUFFICES ASSUME WorkersInv, ContentInv, [Next]_vars PROVE WorkersInv'
  OBVIOUS
<1>1. ASSUME NEW b \in Builds, CreateBuild(b) \/ ExpireLease(b) PROVE WorkersInv'
  BY <1>1, WorkersStay DEF CreateBuild, ExpireLease, jobs
<1>2. ASSUME NEW d \in Docs, Reparse(d) PROVE WorkersInv'
  BY <1>2, WorkersStay DEF Reparse, jobs
<1>3. ASSUME NEW u \in Users, Request(u) PROVE WorkersInv'
  BY <1>3, WorkersStay DEF Request, ReadForCancel, ReadForRetry, Read, CancelTask, CancelBuild,
           CancelBuildItems, CancelTaskItems, RetryTask, LoseRequest, jobs
<1>4. CASE ChangeContent \/ Dispatch \/ SendFails \/ DispatcherDies \/ RecoverLeases \/ UNCHANGED vars
  BY <1>4, WorkersStay
     DEF ChangeContent, Dispatch, SendFails, DispatcherDies, RecoverLeases, vars, jobs
<1>5. ASSUME NEW w \in Workers, Redeliver(w) PROVE WorkersInv'
  BY <1>5, WorkersStay DEF Redeliver
<1>6. ASSUME NEW w \in Workers, Raise(w) PROVE WorkersInv'
  BY <1>6, WorkerMoves DEF Raise, Steps, ItemSteps
<1>7. ASSUME NEW w \in Workers, WriteBackFails(w) \/ Crash(w) PROVE WorkersInv'
  BY <1>7, WorkerReturns DEF WriteBackFails, Crash
<1> QED BY <1>1, <1>2, <1>3, <1>4, <1>5, <1>6, <1>7, DeliverWorkers, WorkWorkers DEF Next

\* Every step keeps what requests remember.
LEMMA NextUsers == UsersInv /\ [Next]_vars => UsersInv'
<1> SUFFICES ASSUME UsersInv, [Next]_vars PROVE UsersInv'
  OBVIOUS
<1>1. ASSUME NEW u \in Users, Request(u) PROVE UsersInv'
  <2>0. user \in [Users -> UserRows]
    BY DEF UsersInv
  <2>1. ASSUME NEW b \in Builds, ReadForCancel(u, b) \/ ReadForRetry(u, b) PROVE UsersInv'
    <3>1. PICK s \in Requests : user' = [user EXCEPT ![u] = [step |-> s, build |-> b]]
      BY <2>1 DEF ReadForCancel, ReadForRetry, Read, Requests
    <3> QED BY <2>0, <3>1 DEF UsersInv, UserRows
  <2>2. CASE CancelTask(u) \/ CancelBuild(u) \/ CancelBuildItems(u)
    <3>1. PICK s \in Requests : user' = [user EXCEPT ![u].step = s] /\ user[u].step # "idle"
      BY <2>2 DEF CancelTask, CancelBuild, CancelBuildItems, Goes, Requests
    <3> QED BY <2>0, <3>1 DEF UsersInv, UserRows
  <2>3. CASE CancelTaskItems(u) \/ RetryTask(u) \/ LoseRequest(u)
    <3>1. user' = [user EXCEPT ![u] = NoRequest]
      BY <2>3 DEF CancelTaskItems, RetryTask, LoseRequest, Finishes
    <3> QED BY <2>0, <3>1 DEF UsersInv, UserRows, NoRequest, Requests
  <2> QED BY <1>1, <2>1, <2>2, <2>3 DEF Request
<1>2. ASSUME NEW b \in Builds, CreateBuild(b) \/ ExpireLease(b) PROVE UsersInv'
  BY <1>2, UsersStay DEF CreateBuild, ExpireLease
<1>3. ASSUME NEW d \in Docs, Reparse(d) PROVE UsersInv'
  BY <1>3, UsersStay DEF Reparse
<1>4. CASE ChangeContent \/ Dispatch \/ SendFails \/ DispatcherDies \/ RecoverLeases \/ UNCHANGED vars
  BY <1>4, UsersStay DEF ChangeContent, Dispatch, SendFails, DispatcherDies, RecoverLeases, vars
<1>5. ASSUME NEW w \in Workers, NEW b \in Builds, Deliver(w, b) PROVE UsersInv'
  BY <1>5, UsersStay DEF Deliver, Start, StartNothing, StartRefused, ConnectFails
<1>6. ASSUME NEW w \in Workers, Work(w) PROVE UsersInv'
  BY <1>6, UsersStay DEF Work, Check, RunItem, WriteBatch, FinishItem, FinishBuild,
           ReadForFailure, MarkBuildFailure
<1>7. ASSUME NEW w \in Workers, Redeliver(w) \/ Raise(w) \/ WriteBackFails(w) \/ Crash(w)
      PROVE  UsersInv'
  BY <1>7, UsersStay DEF Redeliver, Raise, WriteBackFails, Crash
<1> QED BY <1>1, <1>2, <1>3, <1>4, <1>5, <1>6, <1>7 DEF Next

\* An event is added at the end.
LEMMA EventAdded ==
  ASSUME outbox \in Seq(EventRows), NEW b \in Builds, AddEvent(b)
  PROVE  /\ outbox' \in Seq(EventRows)
         /\ Announced(b)'
         /\ \A c \in Builds : Announced(c) => Announced(c)'
<1> DEFINE x == Event(b)
<1>1. x \in EventRows /\ x.task = b /\ x.state = "pending"
  BY DEF Event, EventRows
<1>2. outbox' = Append(outbox, x)
  BY DEF AddEvent
<1> HIDE DEF x
<1>3. outbox' \in Seq(EventRows)
  BY <1>1, <1>2
<1>4. /\ DOMAIN outbox = 1..Len(outbox)
      /\ Len(outbox) \in Nat
      /\ DOMAIN outbox' = 1..(Len(outbox) + 1)
      /\ outbox'[Len(outbox) + 1] = x
      /\ \A e \in DOMAIN outbox : outbox'[e] = outbox[e]
  BY <1>1, <1>2
<1>5. Announced(b)'
  <2>1. Len(outbox) + 1 \in DOMAIN outbox'
    BY <1>4
  <2> QED BY <1>1, <1>4, <2>1 DEF Announced
<1>6. ASSUME NEW c \in Builds, Announced(c) PROVE Announced(c)'
  <2> PICK e \in DOMAIN outbox : outbox[e].state = "pending" /\ outbox[e].task = c
    BY <1>6 DEF Announced
  <2>1. e \in DOMAIN outbox' /\ outbox'[e] = outbox[e]
    BY <1>4
  <2> QED BY <2>1 DEF Announced
<1> QED BY <1>3, <1>5, <1>6

\* The state and the attempts of an event change, and nothing else of it.
LEMMA EventChanged ==
  ASSUME outbox \in Seq(EventRows), NEW e \in DOMAIN outbox,
         NEW n \in Nat, NEW s \in {"pending", "sent", "failed"},
         outbox' = [outbox EXCEPT ![e].attempt = n, ![e].state = s]
  PROVE  /\ outbox' \in Seq(EventRows)
         /\ DOMAIN outbox' = DOMAIN outbox
         /\ \A f \in DOMAIN outbox : f # e => outbox'[f] = outbox[f]
         /\ outbox'[e].task = outbox[e].task
         /\ outbox'[e].state = s
<1> DEFINE row == [[outbox[e] EXCEPT !.attempt = n] EXCEPT !.state = s]
<1>1. outbox[e] \in EventRows
  OBVIOUS
<1>2. row \in EventRows /\ row.task = outbox[e].task /\ row.state = s
  BY <1>1 DEF EventRows
<1>3. outbox' = [outbox EXCEPT ![e] = row]
  BY <1>1
<1> HIDE DEF row
<1>4. ASSUME NEW q \in Seq(EventRows), e \in DOMAIN q
      PROVE  [q EXCEPT ![e] = row] \in Seq(EventRows)
  BY <1>2, <1>4
<1>5. outbox' \in Seq(EventRows)
  BY <1>3, <1>4
<1> QED BY <1>2, <1>3, <1>5

\* Every step of the dispatcher is one of these.
LEMMA DispatcherFacts ==
  ASSUME JobsInv, Dispatch \/ SendFails \/ DispatcherDies
  PROVE  \E e \in DOMAIN outbox :
            /\ outbox[e].task \in Builds
            /\ \/ outbox' = outbox
               \/ \E n \in Nat, s \in {"pending", "sent", "failed"} :
                    /\ outbox' = [outbox EXCEPT ![e].attempt = n, ![e].state = s]
                    /\ s = "sent" => Dispatch
                    /\ s = "failed" => "broker" \in Faults
            /\ queue' = queue \/ queue' = [queue EXCEPT ![outbox[e].task] = @ + 1]
            /\ Dispatch => queue' # queue
<1>1. \A e \in DOMAIN outbox : outbox[e] \in EventRows
  BY DEF JobsInv
<1>2. \A e \in DOMAIN outbox : outbox[e].attempt + 1 \in Nat /\ outbox[e].task \in Builds
                                /\ outbox[e].attempt \in Nat
  BY <1>1 DEF EventRows
<1>3. CASE Dispatch
  <2> PICK e \in DOMAIN outbox :
        /\ outbox' = [outbox EXCEPT ![e].attempt = outbox[e].attempt + 1, ![e].state = "sent"]
        /\ queue' = [queue EXCEPT ![outbox[e].task] = @ + 1]
    <3>1. PICK e \in DOMAIN outbox :
            /\ outbox' = [outbox EXCEPT ![e].state = "sent", ![e].attempt = @ + 1]
            /\ queue' = [queue EXCEPT ![outbox[e].task] = @ + 1]
      BY <1>3 DEF Dispatch
    <3>2. outbox' = [outbox EXCEPT ![e].attempt = outbox[e].attempt + 1, ![e].state = "sent"]
      BY <3>1
    <3> QED BY <3>1, <3>2
  <2>1. queue' # queue
    <3>1. queue'[outbox[e].task] = queue[outbox[e].task] + 1 /\ queue[outbox[e].task] \in Nat
      BY <1>2 DEF JobsInv
    <3> QED BY <3>1
  <2> QED BY <1>2, <1>3, <2>1
<1>4. CASE SendFails
  <2> PICK e \in DOMAIN outbox :
        LET last == outbox[e].attempt + 1 >= MaxAttempts IN
        /\ outbox[e].attempt + 1 < MaxAttempts \/ "broker" \in Faults
        /\ outbox' = [outbox EXCEPT ![e].attempt = outbox[e].attempt + 1,
                                    ![e].state = IF last THEN "failed" ELSE "pending"]
        /\ UNCHANGED queue
    BY <1>4 DEF SendFails
  <2> DEFINE s == IF outbox[e].attempt + 1 >= MaxAttempts THEN "failed" ELSE "pending"
  <2>1. /\ s \in {"pending", "failed"}
        /\ s = "failed" => "broker" \in Faults
    BY <1>2, BoundsAssumption
  <2>2. outbox' = [outbox EXCEPT ![e].attempt = outbox[e].attempt + 1, ![e].state = s]
    OBVIOUS
  <2>3. ~Dispatch
    <3> SUFFICES ASSUME Dispatch PROVE FALSE
      OBVIOUS
    <3> PICK f \in DOMAIN outbox : queue' = [queue EXCEPT ![outbox[f].task] = @ + 1]
      BY DEF Dispatch
    <3>1. queue'[outbox[f].task] = queue[outbox[f].task] + 1 /\ queue[outbox[f].task] \in Nat
      BY <1>2 DEF JobsInv
    <3> QED BY <3>1
  <2> HIDE DEF s
  <2> QED BY <1>2, <2>1, <2>2, <2>3
<1>5. CASE DispatcherDies /\ ~Dispatch
  BY <1>2, <1>5 DEF DispatcherDies
<1> QED BY <1>3, <1>4, <1>5

\* Every step keeps events and messages what they are.
LEMMA NextJobs == JobsInv /\ UsersInv /\ WorkersInv /\ [Next]_vars => JobsInv'
<1> SUFFICES ASSUME JobsInv, UsersInv, WorkersInv, [Next]_vars PROVE JobsInv'
  OBVIOUS
<1>1. ASSUME NEW b \in Builds, CreateBuild(b) PROVE JobsInv'
  BY <1>1, EventAdded DEF CreateBuild, JobsInv
<1>2. ASSUME NEW u \in Users, RetryTask(u) PROVE JobsInv'
  <2>1. user[u].build \in Builds
    BY <1>2 DEF RetryTask, Finishes, UsersInv
  <2> QED BY <1>2, <2>1, EventAdded DEF RetryTask, JobsInv
<1>3. ASSUME NEW u \in Users, Request(u), ~RetryTask(u) PROVE JobsInv'
  BY <1>3, JobsStay DEF Request, ReadForCancel, ReadForRetry, Read, CancelTask, CancelBuild,
           CancelBuildItems, CancelTaskItems, LoseRequest, jobs
<1>4. CASE Dispatch \/ SendFails \/ DispatcherDies
  <2>1. PICK e \in DOMAIN outbox :
            /\ outbox[e].task \in Builds
            /\ \/ outbox' = outbox
               \/ \E n \in Nat, s \in {"pending", "sent", "failed"} :
                    outbox' = [outbox EXCEPT ![e].attempt = n, ![e].state = s]
            /\ queue' = queue \/ queue' = [queue EXCEPT ![outbox[e].task] = @ + 1]
    BY <1>4, DispatcherFacts
  <2>2. outbox' \in Seq(EventRows)
    BY <2>1, EventChanged DEF JobsInv
  <2>3. queue' \in [Builds -> Nat]
    BY <2>1 DEF JobsInv
  <2> QED BY <2>2, <2>3 DEF JobsInv
<1>5. ASSUME NEW b \in Builds, ExpireLease(b) PROVE JobsInv'
  BY <1>5, JobsStay DEF ExpireLease, jobs
<1>6. ASSUME NEW d \in Docs, Reparse(d) PROVE JobsInv'
  BY <1>6, JobsStay DEF Reparse, jobs
<1>7. CASE ChangeContent \/ RecoverLeases \/ UNCHANGED vars
  BY <1>7, JobsStay DEF ChangeContent, RecoverLeases, vars, jobs
<1>8. ASSUME NEW w \in Workers, NEW b \in Builds, Deliver(w, b) PROVE JobsInv'
  BY <1>8 DEF Deliver, Start, StartNothing, StartRefused, ConnectFails, Takes, JobsInv
<1>9. ASSUME NEW w \in Workers, Work(w) \/ Raise(w) \/ WriteBackFails(w) PROVE JobsInv'
  BY <1>9, JobsStay DEF Work, Check, RunItem, WriteBatch, FinishItem, FinishBuild,
           ReadForFailure, MarkBuildFailure, Raise, WriteBackFails
<1>10. ASSUME NEW w \in Workers, Redeliver(w) \/ Crash(w) PROVE JobsInv'
  BY <1>10 DEF Redeliver, Crash, PutsBack, JobsInv
<1> QED BY <1>1, <1>2, <1>3, <1>4, <1>5, <1>6, <1>7, <1>8, <1>9, <1>10 DEF Next

\* Every step keeps chunks and vectors what they are.
LEMMA NextContent == ContentInv /\ WorkersInv /\ [Next]_vars => ContentInv'
<1> SUFFICES ASSUME ContentInv, WorkersInv, [Next]_vars PROVE ContentInv'
  OBVIOUS
<1>1. ASSUME NEW d \in Docs, Reparse(d) PROVE ContentInv'
  <2>1. PICK size \in {0, Batches} : chunks' = [chunks EXCEPT ![d] = [gen |-> @.gen + 1, size |-> size]]
    BY <1>1 DEF Reparse
  <2>2. chunks' \in [Docs -> ChunkRows]
    BY <2>1 DEF ContentInv, ChunkRows
  <2> QED BY <1>1, <2>2 DEF Reparse, ContentInv
<1>2. ASSUME NEW w \in Workers, WriteBatch(w) PROVE ContentInv'
  <2>1. worker[w].off + 1 \in 1..Batches
    BY <1>2, BatchesAssumption DEF WriteBatch, WorkersInv, WorkerRows
  <2>2. embedded' \in [Docs -> SUBSET (1..Batches)]
    BY <1>2, <2>1 DEF WriteBatch, ContentInv
  <2> QED BY <1>2, <2>2 DEF WriteBatch, ContentInv
<1>3. ASSUME NEW b \in Builds, CreateBuild(b) \/ ExpireLease(b) PROVE ContentInv'
  BY <1>3, ContentStays DEF CreateBuild, ExpireLease
<1>4. ASSUME NEW u \in Users, Request(u) PROVE ContentInv'
  BY <1>4, ContentStays DEF Request, ReadForCancel, ReadForRetry, Read, CancelTask, CancelBuild,
           CancelBuildItems, CancelTaskItems, RetryTask, LoseRequest
<1>5. CASE ChangeContent \/ Dispatch \/ SendFails \/ DispatcherDies \/ RecoverLeases \/ UNCHANGED vars
  BY <1>5, ContentStays DEF ChangeContent, Dispatch, SendFails, DispatcherDies, RecoverLeases, vars
<1>6. ASSUME NEW w \in Workers, NEW b \in Builds, Deliver(w, b) PROVE ContentInv'
  BY <1>6, ContentStays DEF Deliver, Start, StartNothing, StartRefused, ConnectFails
<1>7. ASSUME NEW w \in Workers, Work(w), ~WriteBatch(w) PROVE ContentInv'
  BY <1>7, ContentStays DEF Work, Check, RunItem, FinishItem, FinishBuild,
           ReadForFailure, MarkBuildFailure
<1>8. ASSUME NEW w \in Workers, Redeliver(w) \/ Raise(w) \/ WriteBackFails(w) \/ Crash(w)
      PROVE  ContentInv'
  BY <1>8, ContentStays DEF Redeliver, Raise, WriteBackFails, Crash
<1> QED BY <1>1, <1>2, <1>3, <1>4, <1>5, <1>6, <1>7, <1>8 DEF Next

\* Every step keeps counters and leases what they are.
LEMMA NextNumbers == NumbersInv /\ [Next]_vars => NumbersInv'
<1> SUFFICES ASSUME NumbersInv, [Next]_vars PROVE NumbersInv'
  OBVIOUS
<1> USE DEF NumbersInv, Trouble, stored
<1>1. ASSUME NEW b \in Builds, CreateBuild(b) \/ ExpireLease(b) PROVE NumbersInv'
  BY <1>1 DEF CreateBuild, ExpireLease
<1>2. ASSUME NEW d \in Docs, Reparse(d) PROVE NumbersInv'
  BY <1>2 DEF Reparse
<1>3. ASSUME NEW u \in Users, Request(u) PROVE NumbersInv'
  BY <1>3 DEF Request, ReadForCancel, ReadForRetry, Read, CancelTask, CancelBuild,
           CancelBuildItems, CancelTaskItems, RetryTask, LoseRequest
<1>4. CASE ChangeContent \/ Dispatch \/ SendFails \/ DispatcherDies \/ UNCHANGED vars
  <2>1. /\ UNCHANGED <<inputEpoch, lease>>
        /\ epoch' = epoch \/ epoch' = epoch + 1
        /\ trouble' = trouble \/ trouble' = trouble + 1
    BY <1>4 DEF ChangeContent, Dispatch, SendFails, DispatcherDies, vars
  <2> QED BY <2>1
<1>5. CASE RecoverLeases
  BY <1>5 DEF RecoverLeases
<1>6. ASSUME NEW w \in Workers, NEW b \in Builds, Deliver(w, b) PROVE NumbersInv'
  BY <1>6 DEF Deliver, Start, StartNothing, StartRefused, ConnectFails
<1>7. ASSUME NEW w \in Workers, Work(w) PROVE NumbersInv'
  BY <1>7 DEF Work, Check, RunItem, WriteBatch, FinishItem, FinishBuild, ReadForFailure, MarkBuildFailure
<1>8. ASSUME NEW w \in Workers, Redeliver(w) \/ Raise(w) \/ WriteBackFails(w) \/ Crash(w)
      PROVE  NumbersInv'
  BY <1>8 DEF Redeliver, Raise, WriteBackFails, Crash
<1> QED BY <1>1, <1>2, <1>3, <1>4, <1>5, <1>6, <1>7, <1>8 DEF Next

AllInv == Inv /\ WorkersInv /\ UsersInv /\ JobsInv /\ ContentInv /\ NumbersInv

\* The whole invariant holds in every reachable state.
LEMMA AllInvariant == Spec => []AllInv
<1>1. Init => AllInv
  <2> SUFFICES ASSUME Init PROVE AllInv
    OBVIOUS
  <2>1. Idle \in WorkerRows /\ Idle.step = "idle"
    BY BatchesAssumption DEF Idle, WorkerRows, Steps
  <2>2. WorkersInv
    BY <2>1 DEF Init, WorkersInv, ItemSteps
  <2>3. UsersInv
    BY DEF Init, UsersInv, UserRows, NoRequest, Requests
  <2>4. ContentInv
    BY BatchesAssumption DEF Init, ContentInv, ChunkRows
  <2>5. JobsInv /\ NumbersInv
    BY DEF Init, JobsInv, NumbersInv
  <2> QED BY <2>2, <2>3, <2>4, <2>5, InitInv DEF AllInv
<1>2. AllInv /\ [Next]_vars => AllInv'
  BY NextInv, NextWorkers, NextUsers, NextJobs, NextContent, NextNumbers DEF AllInv
<1> QED BY <1>1, <1>2, PTL DEF Spec

\* TypeOK: every state has the types that the tables declare, and a worker is
\* never past the last batch of a document.
THEOREM TypeCorrect == Spec => []TypeOK
<1>1. AllInv => TypeOK
  BY DEF AllInv, Inv, StatesInv, ItemsInv, WorkersInv, UsersInv, JobsInv, ContentInv, NumbersInv,
         WorkerRows, UserRows, EventRows, ChunkRows, TypeOK
<1> QED BY <1>1, AllInvariant, PTL

-----------------------------------------------------------------------------
(* Action properties. *)

\* Only the last transaction of a worker makes a build ready.
LEMMA OnlyFinishMakesReady ==
  ASSUME Inv, [Next]_vars, NEW b \in Builds, build[b] # "ready", build'[b] = "ready"
  PROVE  \E w \in Workers : FinishBuild(w) /\ ~UNCHANGED build
<1>0. build \in [Builds -> {"none", "queued", "running", "ready", "failed", "cancelled"}]
  BY DEF Inv, StatesInv
<1> SUFFICES ASSUME \A w \in Workers : ~FinishBuild(w) PROVE build'[b] # "ready"
  OBVIOUS
<1>1. ASSUME NEW c \in Builds, CreateBuild(c) \/ ExpireLease(c) PROVE build'[b] # "ready"
  BY <1>0, <1>1 DEF CreateBuild, ExpireLease
<1>2. ASSUME NEW d \in Docs, Reparse(d) PROVE build'[b] # "ready"
  BY <1>2 DEF Reparse, stored
<1>3. ASSUME NEW u \in Users, Request(u) PROVE build'[b] # "ready"
  BY <1>0, <1>3 DEF Request, ReadForCancel, ReadForRetry, Read, CancelTask, CancelBuild, Stopped,
           CancelBuildItems, CancelTaskItems, RetryTask, LoseRequest, stored
<1>4. CASE ChangeContent \/ Dispatch \/ SendFails \/ DispatcherDies \/ RecoverLeases \/ UNCHANGED vars
  BY <1>4 DEF ChangeContent, Dispatch, SendFails, DispatcherDies, RecoverLeases, vars, stored
<1>5. ASSUME NEW w \in Workers, NEW c \in Builds, Deliver(w, c) PROVE build'[b] # "ready"
  BY <1>0, <1>5 DEF Deliver, Start, StartNothing, StartRefused, ConnectFails, stored
<1>6. ASSUME NEW w \in Workers, Work(w) PROVE build'[b] # "ready"
  BY <1>0, <1>6 DEF Work, Check, RunItem, WriteBatch, FinishItem, ReadForFailure, MarkBuildFailure, stored
<1>7. ASSUME NEW w \in Workers, Redeliver(w) \/ Raise(w) \/ WriteBackFails(w) \/ Crash(w)
      PROVE  build'[b] # "ready"
  BY <1>7 DEF Redeliver, Raise, WriteBackFails, Crash, stored
<1> QED BY <1>1, <1>2, <1>3, <1>4, <1>5, <1>6, <1>7 DEF Next

\* ReadyOnlyWhenEmbedded: at the step that makes a build ready, every chunk that
\* its documents then have is embedded, whatever parses ran meanwhile.
THEOREM ReadyIsEmbedded == Spec => ReadyOnlyWhenEmbedded
<1>1. Inv /\ [Next]_vars => [\A b \in Builds : build[b] # "ready" /\ build'[b] = "ready"
            => \A d \in Docs : chunks[d].size = Cardinality(embedded[d])]_vars
  <2> SUFFICES ASSUME Inv, [Next]_vars, NEW b \in Builds, build[b] # "ready", build'[b] = "ready"
               PROVE  \A d \in Docs : chunks[d].size = Cardinality(embedded[d])
    OBVIOUS
  <2>1. PICK w \in Workers : FinishBuild(w) /\ ~UNCHANGED build
    BY OnlyFinishMakesReady
  <2>2. \A d \in Docs : Embedded(d)
    BY <2>1 DEF FinishBuild
  <2> QED BY <2>2 DEF Embedded
<1> QED BY <1>1, Invariance, PTL DEF Spec, ReadyOnlyWhenEmbedded

TakenUp(b, d) == \E w \in Workers : worker[w].step = "run" /\ worker[w].build = b /\ NextDoc(w) = d

\* FinishedItemsKept: no cancellation, retry, failure or recovery takes back an
\* item that is finished; only a worker that took the item up does.
THEOREM FinishedAreKept == Spec => FinishedItemsKept
<1>1. ASSUME Inv, [Next]_vars, NEW b \in Builds, NEW d \in Docs,
             buildItem[b][d] = "completed", buildItem'[b][d] # "completed"
      PROVE  TakenUp(b, d)
  <2>0. buildItem \in [Builds -> [Docs -> JobStates]]
    BY <1>1 DEF Inv, ItemsInv
  <2>1. ~UNCHANGED buildItem
    BY <1>1
  <2>2. ~Alike(buildItem, buildItem')
    BY <1>1 DEF Alike
  <2>3. ASSUME NEW w \in Workers, RunItem(w) PROVE TakenUp(b, d)
    BY <1>1, <2>0, <2>3 DEF RunItem, TakenUp
  <2>4. ASSUME NEW w \in Workers, FinishItem(w) PROVE FALSE
    <3>1. PICK c \in {worker[w].build}, e \in {NextDoc(w)} :
             buildItem' = [buildItem EXCEPT ![c][e] = "completed"]
      BY <2>4 DEF FinishItem
    <3>2. buildItem'[b][d] = IF b = c /\ d = e THEN "completed" ELSE buildItem[b][d]
      BY <2>0, <3>1
    <3> QED BY <1>1, <3>2
  <2>5. ASSUME NEW w \in Workers, MarkBuildFailure(w) PROVE FALSE
    BY <2>0, <2>2, <2>5, Sweep DEF MarkBuildFailure, JobStates
  <2>6. ASSUME NEW w \in Workers, Work(w) PROVE TakenUp(b, d)
    BY <2>1, <2>3, <2>4, <2>5, <2>6
       DEF Work, Check, WriteBatch, FinishBuild, ReadForFailure, stored
  <2>7. ASSUME NEW u \in Users, CancelBuildItems(u) \/ RetryTask(u) PROVE FALSE
    <3>1. PICK c \in {user[u].build}, s \in JobStates \ {"completed"} :
             buildItem' = [buildItem EXCEPT ![c] = Unfinished(buildItem[c], s)]
      BY <2>7 DEF CancelBuildItems, RetryTask, JobStates
    <3>2. Alike(buildItem, buildItem')
      BY <2>0, <3>1, Sweep
    <3> QED BY <2>2, <3>2
  <2>8. ASSUME NEW u \in Users, Request(u) PROVE FALSE
    BY <2>1, <2>7, <2>8 DEF Request, ReadForCancel, ReadForRetry, Read, CancelTask, CancelBuild,
             CancelTaskItems, LoseRequest, stored
  <2>9. ASSUME NEW c \in Builds, CreateBuild(c) \/ ExpireLease(c) PROVE FALSE
    BY <2>1, <2>9 DEF CreateBuild, ExpireLease
  <2>10. ASSUME NEW e \in Docs, Reparse(e) PROVE FALSE
    BY <2>1, <2>10 DEF Reparse, stored
  <2>11. ASSUME NEW w \in Workers, NEW c \in Builds, Deliver(w, c) PROVE FALSE
    BY <2>1, <2>11 DEF Deliver, Start, StartNothing, StartRefused, ConnectFails, stored
  <2>12. ASSUME NEW w \in Workers, Redeliver(w) \/ Raise(w) \/ WriteBackFails(w) \/ Crash(w)
         PROVE  FALSE
    BY <2>1, <2>12 DEF Redeliver, Raise, WriteBackFails, Crash, stored
  <2>13. ~(ChangeContent \/ Dispatch \/ SendFails \/ DispatcherDies \/ RecoverLeases \/ UNCHANGED vars)
    BY <2>1 DEF ChangeContent, Dispatch, SendFails, DispatcherDies, RecoverLeases, vars, stored
  <2> QED BY <1>1, <2>6, <2>8, <2>9, <2>10, <2>11, <2>12, <2>13 DEF Next
<1>2. Inv /\ [Next]_vars => [\A b \in Builds, d \in Docs :
            buildItem[b][d] = "completed" /\ buildItem'[b][d] # "completed"
            => \E w \in Workers : worker[w].step = "run" /\ worker[w].build = b /\ NextDoc(w) = d]_vars
  BY <1>1 DEF TakenUp
<1> QED BY <1>2, Invariance, PTL DEF Spec, FinishedItemsKept

-----------------------------------------------------------------------------
(* Work is not lost, unless one of the failures happens that lose it. *)

Due(b) == task[b] \in {"queued", "running"}
Cared(b) == Announced(b) \/ queue[b] > 0 \/ AtWork(b)

\* A step keeps the work that is due if it looks after all that is due
\* afterwards: newly, or because it was looked after and still is.
LEMMA WorkKept ==
  ASSUME NoLostWork,
         \A b \in Builds : Due(b)' => Cared(b)' \/ (Due(b) /\ (Cared(b) => Cared(b)'))
  PROVE  NoLostWork'
BY DEF NoLostWork, Due, Cared

\* No task becomes due, and whoever looks after one goes on.
LEMMA WorkStays ==
  ASSUME NoLostWork, UNCHANGED outbox,
         \A b \in Builds : Due(b)' => Due(b),
         \A b \in Builds : queue[b] > 0 => queue'[b] > 0,
         \A w \in Workers : worker[w].step # "idle"
             => worker'[w].step # "idle" /\ worker'[w].build = worker[w].build
  PROVE  NoLostWork'
<1>1. \A b \in Builds : Cared(b) => Cared(b)'
  BY DEF Cared, Announced, AtWork
<1> QED BY <1>1, WorkKept

\* A task is queued together with its event.
LEMMA WorkAdded ==
  ASSUME StatesInv, JobsInv, NoLostWork, NEW b \in Builds, AddEvent(b),
         task' = [task EXCEPT ![b] = "queued"], UNCHANGED <<queue, worker>>
  PROVE  NoLostWork'
<1>1. Announced(b)' /\ \A c \in Builds : Announced(c) => Announced(c)'
  BY EventAdded DEF JobsInv
<1>2. \A c \in Builds : c # b => task'[c] = task[c]
  BY DEF StatesInv
<1>3. \A c \in Builds : c # b => (Due(c)' <=> Due(c)) /\ (Cared(c) => Cared(c)')
  BY <1>1, <1>2 DEF Due, Cared, AtWork
<1> QED BY <1>1, <1>3, WorkKept DEF Cared

\* A worker drops a job that is over then, or in the queue.
LEMMA WorkDropped ==
  ASSUME WorkersInv, NoLostWork, NEW w \in Workers, NEW b \in Builds, worker[w].build = b, Returns(w),
         UNCHANGED outbox,
         \A c \in Builds : c # b => task'[c] = task[c] /\ queue'[c] = queue[c],
         ~Due(b)' \/ queue'[b] > 0
  PROVE  NoLostWork'
<1>1. \A c \in Builds : c # b /\ AtWork(c) => AtWork(c)'
  BY DEF AtWork, Returns, Becomes, WorkersInv
<1>2. \A c \in Builds : Announced(c) => Announced(c)'
  BY DEF Announced
<1>3. \A c \in Builds : c # b => (Due(c)' <=> Due(c)) /\ (Cared(c) => Cared(c)')
  BY <1>1, <1>2 DEF Due, Cared
<1>4. Due(b)' => Cared(b)'
  BY DEF Cared
<1> QED BY <1>3, <1>4, WorkKept

LEMMA WorkRequested ==
  ASSUME AllInv, NoLostWork, NEW u \in Users, Request(u)
  PROVE  NoLostWork'
<1>1. CASE RetryTask(u)
  <2>1. user[u].build \in Builds
    BY <1>1 DEF RetryTask, Finishes, AllInv, UsersInv
  <2> QED BY <1>1, <2>1, WorkAdded DEF RetryTask, AllInv, Inv
<1>2. CASE CancelTask(u)
  <2>1. \A b \in Builds : Due(b)' => Due(b)
    BY <1>2 DEF CancelTask, Due, AllInv, Inv, StatesInv
  <2> QED BY <1>2, <2>1, WorkStays DEF CancelTask, jobs
<1>3. CASE ~RetryTask(u) /\ ~CancelTask(u)
  <2>1. UNCHANGED <<task, jobs>>
    BY <1>3 DEF Request, ReadForCancel, ReadForRetry, Read, CancelBuild, CancelBuildItems,
           CancelTaskItems, LoseRequest, stored
  <2> QED BY <2>1, WorkStays DEF Due, jobs
<1> QED BY <1>1, <1>2, <1>3

LEMMA WorkDispatched ==
  ASSUME "broker" \notin Faults, AllInv, NoLostWork, Dispatch \/ SendFails \/ DispatcherDies
  PROVE  NoLostWork'
<1>1. PICK e \in DOMAIN outbox :
            /\ outbox[e].task \in Builds
            /\ \/ outbox' = outbox
               \/ \E n \in Nat, s \in {"pending", "sent", "failed"} :
                    /\ outbox' = [outbox EXCEPT ![e].attempt = n, ![e].state = s]
                    /\ s = "sent" => Dispatch
                    /\ s = "failed" => "broker" \in Faults
            /\ queue' = queue \/ queue' = [queue EXCEPT ![outbox[e].task] = @ + 1]
            /\ Dispatch => queue' # queue
  BY DispatcherFacts DEF AllInv
<1>2. \A b \in Builds : queue[b] > 0 => queue'[b] > 0
  BY <1>1 DEF AllInv, JobsInv
<1>3. UNCHANGED <<task, worker>>
  BY DEF Dispatch, SendFails, DispatcherDies, stored
<1>4. ASSUME NEW b \in Builds, Announced(b) PROVE Announced(b)' \/ queue'[b] > 0
  <2> PICK f \in DOMAIN outbox : outbox[f].state = "pending" /\ outbox[f].task = b
    BY <1>4 DEF Announced
  <2>1. CASE outbox' = outbox
    BY <2>1 DEF Announced
  <2>2. ASSUME NEW n \in Nat, NEW s \in {"pending", "sent", "failed"},
               outbox' = [outbox EXCEPT ![e].attempt = n, ![e].state = s],
               s = "sent" => Dispatch, s = "failed" => "broker" \in Faults
        PROVE  Announced(b)' \/ queue'[b] > 0
    <3>1. /\ DOMAIN outbox' = DOMAIN outbox
          /\ f # e => outbox'[f] = outbox[f]
          /\ outbox'[e].task = outbox[e].task
          /\ outbox'[e].state = s
      BY <2>2, EventChanged DEF AllInv, JobsInv
    <3>2. CASE f # e \/ s = "pending"
      BY <3>1, <3>2 DEF Announced
    <3>3. CASE f = e /\ s = "sent"
      <4>1. queue' = [queue EXCEPT ![b] = @ + 1]
        BY <1>1, <2>2, <3>3
      <4> QED BY <4>1 DEF AllInv, JobsInv
    <3> QED BY <2>2, <3>2, <3>3
  <2> QED BY <1>1, <2>1, <2>2
<1>5. \A b \in Builds : (Due(b)' <=> Due(b)) /\ (Cared(b) => Cared(b)')
  BY <1>2, <1>3, <1>4 DEF Due, Cared, AtWork
<1> QED BY <1>5, WorkKept

LEMMA WorkDelivered ==
  ASSUME "connect" \notin Faults, AllInv, NoLostWork,
         NEW w \in Workers, NEW b \in Builds, Deliver(w, b)
  PROVE  NoLostWork'
<1>0. /\ worker[w].step = "idle"
      /\ UNCHANGED outbox
      /\ \A c \in Builds : c # b => task'[c] = task[c] /\ queue'[c] = queue[c]
      /\ \A x \in Workers : x # w => worker'[x] = worker[x]
  BY DEF Deliver, Start, StartNothing, StartRefused, ConnectFails, Takes, Becomes, stored,
         AllInv, Inv, StatesInv, JobsInv, WorkersInv
<1>1. \A c \in Builds : c # b => (Due(c)' <=> Due(c)) /\ (Cared(c) => Cared(c)')
  BY <1>0 DEF Due, Cared, Announced, AtWork
<1>2. Due(b)' => Cared(b)'
  <2>1. CASE Start(w, b) \/ StartRefused(w, b)
    <3>0. Idle \in WorkerRows
      BY BatchesAssumption DEF Idle, WorkerRows, Steps
    <3>1. PICK s \in Steps \ {"idle"}, todo \in SUBSET Docs :
             Becomes(w, [Idle EXCEPT !.step = s, !.build = b, !.todo = todo])
      <4>1. CASE Start(w, b)
        BY <4>1 DEF Start, Steps
      <4>2. CASE StartRefused(w, b)
        <5>1. Becomes(w, [Idle EXCEPT !.step = "failing", !.build = b])
          BY <4>2 DEF StartRefused
        <5>2. [Idle EXCEPT !.step = "failing", !.build = b]
                = [Idle EXCEPT !.step = "failing", !.build = b, !.todo = Idle.todo]
          BY <3>0 DEF WorkerRows
        <5>3. Idle.todo \in SUBSET Docs
          BY <3>0 DEF WorkerRows
        <5> QED BY <5>1, <5>2, <5>3 DEF Steps
      <4> QED BY <2>1, <4>1, <4>2
    <3>2. worker'[w].step # "idle" /\ worker'[w].build = b
      BY <3>0, <3>1 DEF Becomes, AllInv, WorkersInv, WorkerRows
    <3> QED BY <3>2 DEF Cared, AtWork
  <2>2. CASE StartNothing(w, b)
    BY <2>2 DEF StartNothing, Over, Due, stored
  <2> QED BY <2>1, <2>2 DEF Deliver, ConnectFails
<1> QED BY <1>1, <1>2, WorkKept

LEMMA WorkDone ==
  ASSUME "writeback" \notin Faults, AllInv, NoLostWork, NEW w \in Workers,
         Work(w) \/ Redeliver(w) \/ Raise(w) \/ WriteBackFails(w) \/ Crash(w)
  PROVE  NoLostWork'
<1>0. /\ WorkersInv
      /\ worker \in [Workers -> WorkerRows]
      /\ task \in [Builds -> JobStates \cup {"none"}]
      /\ queue \in [Builds -> Nat]
  BY DEF AllInv, Inv, StatesInv, WorkersInv, JobsInv
<1> PICK b \in Builds : b = worker[w].build
  BY DEF Work, Check, RunItem, WriteBatch, FinishItem, FinishBuild, ReadForFailure,
         MarkBuildFailure, Redeliver, Raise, WriteBackFails, Crash, AllInv, WorkersInv
<1>1. ASSUME NEW s \in Steps \ {"idle"}, Moves(w, s), UNCHANGED <<task, outbox, queue>>
      PROVE  NoLostWork'
  <2>1. \A x \in Workers : worker[x].step # "idle"
            => worker'[x].step # "idle" /\ worker'[x].build = worker[x].build
    BY <1>0, <1>1 DEF Moves, WorkerRows
  <2> QED BY <1>1, <2>1, WorkStays DEF Due
<1>2. CASE Check(w)
  <2>1. UNCHANGED <<task, outbox, queue>>
    BY <1>2 DEF Check, stored
  <2>2. CASE task[b] = "cancelled" /\ Returns(w)
    BY <1>0, <2>1, <2>2, WorkDropped DEF Due
  <2>3. CASE Moves(w, "run") \/ Moves(w, "batch_write")
    BY <1>1, <2>1, <2>3 DEF Steps
  <2> QED BY <1>2, <2>2, <2>3 DEF Check
<1>3. CASE RunItem(w) \/ WriteBatch(w) \/ FinishItem(w)
  <2>1. UNCHANGED <<task, outbox, queue>>
    BY <1>3 DEF RunItem, WriteBatch, FinishItem
  <2>2. /\ \A x \in Workers : x # w => worker'[x] = worker[x]
        /\ worker'[w].step # "idle"
        /\ worker'[w].build = worker[w].build
    <3>1. CASE RunItem(w)
      BY <1>0, <3>1 DEF RunItem, Becomes, WorkerRows
    <3>2. CASE WriteBatch(w)
      <4>1. CASE Moves(w, "failing")
        BY <1>0, <4>1 DEF Moves, WorkerRows
      <4>2. CASE ~Moves(w, "failing")
        <5>1. PICK n \in {worker[w].off + 1}, s \in {"batch_check", "done"} :
                 Becomes(w, [worker[w] EXCEPT !.off = n, !.step = s])
          BY <3>2, <4>2 DEF WriteBatch
        <5> QED BY <1>0, <5>1 DEF Becomes, WorkerRows
      <4> QED BY <4>1, <4>2
    <3>3. CASE FinishItem(w)
      BY <1>0, <3>3 DEF FinishItem, Becomes, WorkerRows
    <3> QED BY <1>3, <3>1, <3>2, <3>3
  <2> QED BY <2>1, <2>2, WorkStays DEF Due
<1>4. CASE FinishBuild(w)
  <2>1. CASE Moves(w, "failing") /\ UNCHANGED task
    BY <1>1, <1>4, <2>1 DEF FinishBuild, Steps
  <2>2. CASE /\ Returns(w)
             /\ task' = [task EXCEPT ![b] = IF @ = "cancelled" THEN @ ELSE "completed"]
    <3>1. ~Due(b)' /\ \A c \in Builds : c # b => task'[c] = task[c]
      BY <1>0, <2>2 DEF Due
    <3> QED BY <1>0, <1>4, <2>2, <3>1, WorkDropped DEF FinishBuild
  <2> QED BY <1>4, <2>1, <2>2 DEF FinishBuild
<1>5. CASE ReadForFailure(w)
  <2>1. UNCHANGED <<task, outbox, queue>>
    BY <1>5 DEF ReadForFailure, stored
  <2>2. CASE task[b] = "cancelled" /\ Returns(w)
    BY <1>0, <2>1, <2>2, WorkDropped DEF Due
  <2>3. CASE Moves(w, "fail_write")
    BY <1>1, <2>1, <2>3 DEF Steps
  <2> QED BY <1>5, <2>2, <2>3 DEF ReadForFailure
<1>6. CASE MarkBuildFailure(w)
  <2>1. ~Due(b)' /\ \A c \in Builds : c # b => task'[c] = task[c]
    BY <1>0, <1>6 DEF MarkBuildFailure, Due
  <2> QED BY <1>0, <1>6, <2>1, WorkDropped DEF MarkBuildFailure
<1>7. CASE Redeliver(w)
  <2>1. \A c \in Builds : queue[c] > 0 => queue'[c] > 0
    BY <1>0, <1>7 DEF Redeliver
  <2> QED BY <1>7, <2>1, WorkStays DEF Redeliver, stored, Due
<1>8. CASE Raise(w)
  BY <1>1, <1>8 DEF Raise, stored, Steps
<1>9. CASE Crash(w)
  <2>1. queue'[b] > 0 /\ \A c \in Builds : c # b => queue'[c] = queue[c]
    BY <1>0, <1>9 DEF Crash, PutsBack
  <2> QED BY <1>0, <1>9, <2>1, WorkDropped DEF Crash, stored
<1> QED BY <1>2, <1>3, <1>4, <1>5, <1>6, <1>7, <1>8, <1>9 DEF Work, WriteBackFails

\* NoLostWork: without the three failures that lose work, a job that waits or
\* runs has an event, a message or a worker, whatever crashes, is redelivered,
\* cancelled, retried or recovered.
THEOREM WorkIsKept == Faults = {} => (Spec => []NoLostWork)
<1> SUFFICES ASSUME Faults = {} PROVE Spec => []NoLostWork
  OBVIOUS
<1>1. Init => NoLostWork
  BY DEF Init, NoLostWork
<1>2. AllInv /\ NoLostWork /\ [Next]_vars => NoLostWork'
  <2> SUFFICES ASSUME AllInv, NoLostWork, [Next]_vars PROVE NoLostWork'
    OBVIOUS
  <2>1. CASE ChangeContent \/ UNCHANGED vars
    BY <2>1, WorkStays DEF ChangeContent, vars, stored, jobs, Due
  <2>2. ASSUME NEW d \in Docs, Reparse(d) PROVE NoLostWork'
    BY <2>2, WorkStays DEF Reparse, stored, jobs, Due
  <2>3. ASSUME NEW b \in Builds, ExpireLease(b) PROVE NoLostWork'
    BY <2>3, WorkStays DEF ExpireLease, jobs, Due
  <2>4. ASSUME NEW b \in Builds, CreateBuild(b) PROVE NoLostWork'
    BY <2>4, WorkAdded DEF CreateBuild, AllInv, Inv
  <2>5. CASE RecoverLeases
    <3>1. \A b \in Builds : Due(b)' => Due(b)
      BY <2>5 DEF RecoverLeases, Due
    <3> QED BY <2>5, <3>1, WorkStays DEF RecoverLeases, jobs
  <2> QED BY <2>1, <2>2, <2>3, <2>4, <2>5,
             WorkRequested, WorkDispatched, WorkDelivered, WorkDone DEF Next
<1> QED BY <1>1, <1>2, AllInvariant, PTL DEF Spec

-----------------------------------------------------------------------------
(* What is promised of builds. *)

BatchSteps == {"batch_check", "batch_write"}

\* What a step does to a worker that it does not leave alone: the worker drops its
\* job, goes on with it, or takes one from the queue.
Continues(w) ==
    \/ worker'[w].step = "idle"
    \/ /\ worker[w].step # "idle"
       /\ worker'[w].build = worker[w].build
       /\ \/ worker'[w].step \notin BatchSteps
          \/ /\ worker[w].step \in BatchSteps
             /\ worker'[w].todo = worker[w].todo
             /\ worker'[w].gen = worker[w].gen
          \/ RunItem(w)
    \/ \E b \in Builds : /\ queue[b] > 0
                         /\ worker'[w].build = b
                         /\ worker'[w].step \notin BatchSteps

LEMMA BusyContinues ==
  ASSUME AllInv, NEW w \in Workers, Work(w) \/ Raise(w)
  PROVE  Continues(w) /\ \A x \in Workers : x # w => worker'[x] = worker[x]
<1>0. worker \in [Workers -> WorkerRows]
  BY DEF AllInv, WorkersInv
<1>1. CASE Returns(w)
  BY <1>0, <1>1 DEF Returns, Becomes, Idle, Continues
<1>2. ASSUME NEW s \in Steps, Moves(w, s), worker[w].step # "idle",
             s \in BatchSteps => worker[w].step \in BatchSteps
      PROVE  Continues(w) /\ \A x \in Workers : x # w => worker'[x] = worker[x]
  <2>1. /\ worker'[w].step = s
        /\ worker'[w].build = worker[w].build
        /\ worker'[w].todo = worker[w].todo
        /\ worker'[w].gen = worker[w].gen
        /\ \A x \in Workers : x # w => worker'[x] = worker[x]
    BY <1>0, <1>2 DEF Moves, WorkerRows
  <2> QED BY <1>2, <2>1 DEF Continues
<1>3. CASE Check(w) /\ ~Returns(w)
  BY <1>2, <1>3 DEF Check, Steps, BatchSteps
<1>4. CASE RunItem(w)
  BY <1>0, <1>4 DEF RunItem, Becomes, WorkerRows, Continues
<1>5. CASE WriteBatch(w) /\ ~Moves(w, "failing")
  <2>1. PICK n \in {worker[w].off + 1}, s \in {"batch_check", "done"} :
           Becomes(w, [worker[w] EXCEPT !.off = n, !.step = s])
    BY <1>5 DEF WriteBatch
  <2> QED BY <1>0, <1>5, <2>1 DEF WriteBatch, Becomes, WorkerRows, Continues, BatchSteps
<1>6. CASE FinishItem(w)
  BY <1>0, <1>6 DEF FinishItem, Becomes, WorkerRows, Continues, BatchSteps
<1>7. CASE Moves(w, "failing") /\ worker[w].step # "idle"
  BY <1>2, <1>7 DEF Steps, BatchSteps
<1>8. CASE ReadForFailure(w) /\ ~Returns(w)
  BY <1>2, <1>8 DEF ReadForFailure, Steps, BatchSteps
<1> QED BY <1>1, <1>3, <1>4, <1>5, <1>6, <1>7, <1>8
        DEF Work, WriteBatch, FinishBuild, MarkBuildFailure, Raise

LEMMA WorkersContinue ==
  ASSUME AllInv, [Next]_vars, NEW w \in Workers
  PROVE  worker'[w] = worker[w] \/ Continues(w)
<1>0. worker \in [Workers -> WorkerRows]
  BY DEF AllInv, WorkersInv
<1>1. CASE UNCHANGED worker
  BY <1>1
<1>2. ASSUME NEW x \in Workers, Work(x) \/ Raise(x) PROVE worker'[w] = worker[w] \/ Continues(w)
  BY <1>2, BusyContinues
<1>3. ASSUME NEW x \in Workers, Returns(x) PROVE worker'[w] = worker[w] \/ Continues(w)
  BY <1>0, <1>3 DEF Returns, Becomes, Idle, Continues
<1>4. ASSUME NEW x \in Workers, NEW b \in Builds, Deliver(x, b)
      PROVE  worker'[w] = worker[w] \/ Continues(w)
  <2>0. Idle \in WorkerRows
    BY BatchesAssumption DEF Idle, WorkerRows, Steps
  <2>1. queue[b] > 0
    BY <1>4 DEF Deliver, Start, StartNothing, StartRefused, ConnectFails, Takes
  <2>2. CASE Start(x, b)
    <3>1. PICK s \in {"final", "check"}, todo \in SUBSET Docs :
             Becomes(x, [Idle EXCEPT !.step = s, !.build = b, !.todo = todo])
      BY <2>2 DEF Start
    <3> QED BY <1>0, <2>0, <2>1, <3>1 DEF Becomes, WorkerRows, Continues, BatchSteps
  <2>3. CASE StartRefused(x, b)
    <3>1. Becomes(x, [Idle EXCEPT !.step = "failing", !.build = b])
      BY <2>3 DEF StartRefused
    <3> QED BY <1>0, <2>0, <2>1, <3>1 DEF Becomes, WorkerRows, Continues, BatchSteps
  <2>4. CASE StartNothing(x, b) \/ ConnectFails(x, b)
    BY <1>1, <2>4 DEF StartNothing, ConnectFails
  <2> QED BY <1>4, <2>2, <2>3, <2>4 DEF Deliver
<1>5. ASSUME NEW u \in Users, Request(u) PROVE UNCHANGED worker
  BY <1>5 DEF Request, ReadForCancel, ReadForRetry, Read, CancelTask, CancelBuild,
           CancelBuildItems, CancelTaskItems, RetryTask, LoseRequest, jobs
<1> QED BY <1>1, <1>2, <1>3, <1>4, <1>5
        DEF Next, vars, jobs, CreateBuild, ExpireLease, ChangeContent, Reparse, Dispatch, SendFails,
            DispatcherDies, RecoverLeases, Redeliver, WriteBackFails, Crash

\* Tasks, events, messages, workers and requests are of builds that exist.
KnownInv ==
    /\ \A b \in Builds : task[b] # "none" => build[b] # "none"
    /\ \A e \in DOMAIN outbox : build[outbox[e].task] # "none"
    /\ \A b \in Builds : queue[b] > 0 => build[b] # "none"
    /\ \A w \in Workers : worker[w].step # "idle" => build[worker[w].build] # "none"
    /\ \A u \in Users : user[u].step # "idle" => build[user[u].build] # "none"

\* Chunks that a worker has fetched for an item are the present ones or older, and
\* if they are the present ones there are some.
FetchedInv ==
    \A w \in Workers : worker[w].step \in BatchSteps =>
        LET d == NextDoc(w) IN
        /\ worker[w].gen <= chunks[d].gen
        /\ worker[w].gen = chunks[d].gen => chunks[d].size = Batches

\* No step forgets a build.
LEMMA KnownGrows ==
  ASSUME AllInv, [Next]_vars, NEW b \in Builds, build[b] # "none"
  PROVE  build'[b] # "none"
<1>0. build \in [Builds -> {"none", "queued", "running", "ready", "failed", "cancelled"}]
  BY DEF AllInv, Inv, StatesInv
<1>1. CASE UNCHANGED build
  BY <1>1
<1>2. ASSUME NEW c, NEW s, s # "none", build' = [build EXCEPT ![c] = s] PROVE build'[b] # "none"
  BY <1>0, <1>2
<1>3. ASSUME NEW c \in Builds, CreateBuild(c) PROVE build'[b] # "none"
  BY <1>2, <1>3 DEF CreateBuild
<1>4. ASSUME NEW u \in Users, Request(u) PROVE build'[b] # "none"
  <2>1. CASE CancelBuild(u)
    <3>1. build' = [build EXCEPT ![user[u].build] = Stopped(@)]
      BY <2>1 DEF CancelBuild
    <3> QED BY <1>0, <3>1 DEF Stopped
  <2>2. CASE RetryTask(u)
    BY <1>2, <2>2 DEF RetryTask
  <2> QED BY <1>1, <1>4, <2>1, <2>2 DEF Request, ReadForCancel, ReadForRetry, Read, CancelTask,
           CancelBuildItems, CancelTaskItems, LoseRequest, stored
<1>5. ASSUME NEW w \in Workers, NEW c \in Builds, Deliver(w, c) PROVE build'[b] # "none"
  BY <1>1, <1>2, <1>5 DEF Deliver, Start, StartNothing, StartRefused, ConnectFails, stored
<1>6. ASSUME NEW w \in Workers, Work(w) PROVE build'[b] # "none"
  BY <1>1, <1>2, <1>6
     DEF Work, Check, RunItem, WriteBatch, FinishItem, FinishBuild, ReadForFailure, MarkBuildFailure,
         stored
<1> QED BY <1>1, <1>3, <1>4, <1>5, <1>6
        DEF Next, vars, stored, ExpireLease, ChangeContent, Reparse, Dispatch, SendFails,
            DispatcherDies, RecoverLeases, Redeliver, Raise, WriteBackFails, Crash

\* The steps that give a task a state, an event, a message or a request are of a
\* build that is known.
LEMMA KnownNext == AllInv /\ AllInv' /\ KnownInv /\ [Next]_vars => KnownInv'
<1> SUFFICES ASSUME AllInv, AllInv', KnownInv, [Next]_vars PROVE KnownInv'
  OBVIOUS
<1>0. /\ task \in [Builds -> JobStates \cup {"none"}]
      /\ outbox \in Seq(EventRows)
      /\ queue \in [Builds -> Nat]
      /\ \A w \in Workers : worker[w].step # "idle" => worker[w].build \in Builds
      /\ user \in [Users -> UserRows]
      /\ \A u \in Users : user[u].step # "idle" => user[u].build \in Builds
  BY DEF AllInv, Inv, StatesInv, JobsInv, WorkersInv, UsersInv
<1>g. \A b \in Builds : build[b] # "none" => build'[b] # "none"
  BY KnownGrows
<1>1. \A w \in Workers : worker'[w].step # "idle" => build'[worker'[w].build] # "none"
  BY <1>0, <1>g, WorkersContinue DEF Continues, KnownInv
<1>2. \A b \in Builds : task'[b] # "none" => build'[b] # "none"
  <2>1. ASSUME NEW c \in Builds, build'[c] # "none",
               \A b \in Builds \ {c} : task'[b] = task[b]
        PROVE  \A b \in Builds : task'[b] # "none" => build'[b] # "none"
    BY <1>g, <2>1 DEF KnownInv
  <2>2. CASE UNCHANGED task
    BY <1>g, <2>2 DEF KnownInv
  <2>3. ASSUME NEW c \in Builds, CreateBuild(c)
        PROVE  \A b \in Builds : task'[b] # "none" => build'[b] # "none"
    <3>1. build'[c] = "queued"
      BY <2>3 DEF CreateBuild, AllInv, Inv, StatesInv
    <3> QED BY <1>0, <2>1, <2>3, <3>1 DEF CreateBuild
  <2>4. ASSUME NEW u \in Users, CancelTask(u) \/ RetryTask(u)
        PROVE  \A b \in Builds : task'[b] # "none" => build'[b] # "none"
    <3>1. user[u].step # "idle"
      BY <2>4 DEF CancelTask, RetryTask, Goes, Finishes
    <3>2. user[u].build \in Builds /\ build'[user[u].build] # "none"
      BY <1>0, <1>g, <3>1 DEF KnownInv
    <3>3. \A b \in Builds \ {user[u].build} : task'[b] = task[b]
      BY <1>0, <2>4 DEF CancelTask, RetryTask
    <3> QED BY <2>1, <3>2, <3>3
  <2>5. ASSUME NEW w \in Workers, NEW c \in Builds, Deliver(w, c)
        PROVE  \A b \in Builds : task'[b] # "none" => build'[b] # "none"
    <3>1. queue[c] > 0 /\ \A b \in Builds \ {c} : task'[b] = task[b]
      BY <1>0, <2>5 DEF Deliver, Start, StartNothing, StartRefused, ConnectFails, Takes, stored
    <3> QED BY <1>g, <2>1, <3>1 DEF KnownInv
  <2>6. ASSUME NEW w \in Workers, FinishBuild(w) \/ MarkBuildFailure(w)
        PROVE  \A b \in Builds : task'[b] # "none" => build'[b] # "none"
    <3>1. worker[w].step # "idle"
      BY <2>6 DEF FinishBuild, MarkBuildFailure
    <3>2. worker[w].build \in Builds /\ build'[worker[w].build] # "none"
      BY <1>0, <1>g, <3>1 DEF KnownInv
    <3>3. \A b \in Builds \ {worker[w].build} : task'[b] = task[b]
      BY <1>0, <2>6 DEF FinishBuild, MarkBuildFailure
    <3> QED BY <2>1, <3>2, <3>3
  <2>7. CASE RecoverLeases
    BY <1>g, <2>7 DEF RecoverLeases, KnownInv
  <2>8. ASSUME NEW u \in Users, Request(u), ~CancelTask(u), ~RetryTask(u) PROVE UNCHANGED task
    BY <2>8 DEF Request, ReadForCancel, ReadForRetry, Read, CancelBuild, CancelBuildItems,
             CancelTaskItems, LoseRequest, stored
  <2>9. ASSUME NEW w \in Workers, Work(w), ~FinishBuild(w), ~MarkBuildFailure(w)
        PROVE  UNCHANGED task
    BY <2>9 DEF Work, Check, RunItem, WriteBatch, FinishItem, ReadForFailure, stored
  <2> QED BY <2>2, <2>3, <2>4, <2>5, <2>6, <2>7, <2>8, <2>9
          DEF Next, vars, stored, ExpireLease, ChangeContent, Reparse, Dispatch, SendFails,
              DispatcherDies, Redeliver, Raise, WriteBackFails, Crash
<1>3. /\ \A e \in DOMAIN outbox' : build'[outbox'[e].task] # "none"
      /\ \A b \in Builds : queue'[b] > 0 => build'[b] # "none"
  <2> DEFINE Goal == /\ \A e \in DOMAIN outbox' : build'[outbox'[e].task] # "none"
                     /\ \A b \in Builds : queue'[b] > 0 => build'[b] # "none"
  <2>0. \A e \in DOMAIN outbox : outbox[e].task \in Builds /\ build'[outbox[e].task] # "none"
    <3>1. \A e \in DOMAIN outbox : outbox[e] \in EventRows
      BY <1>0
    <3>2. \A e \in DOMAIN outbox : outbox[e].task \in Builds
      BY <3>1 DEF EventRows
    <3> QED BY <1>g, <3>2 DEF KnownInv
  <2>1. ASSUME UNCHANGED outbox,
               \A b \in Builds : queue'[b] > 0 => queue[b] > 0 \/ build'[b] # "none"
        PROVE  Goal
    BY <1>g, <2>0, <2>1 DEF KnownInv
  <2>2. ASSUME NEW b \in Builds, AddEvent(b), build'[b] # "none", UNCHANGED queue PROVE Goal
    <3> DEFINE x == Event(b)
    <3>1. x \in EventRows /\ x.task = b
      BY DEF Event, EventRows
    <3>2. outbox' = Append(outbox, x)
      BY <2>2 DEF AddEvent
    <3> HIDE DEF x
    <3>3. \A e \in DOMAIN outbox' : (e \in DOMAIN outbox /\ outbox'[e] = outbox[e]) \/ outbox'[e] = x
      BY <1>0, <3>1, <3>2
    <3> QED BY <1>g, <2>0, <2>2, <3>1, <3>3 DEF KnownInv
  <2>3. ASSUME NEW b \in Builds, CreateBuild(b) PROVE Goal
    <3>1. build'[b] = "queued"
      BY <2>3 DEF CreateBuild, AllInv, Inv, StatesInv
    <3> QED BY <2>2, <2>3, <3>1 DEF CreateBuild
  <2>4. ASSUME NEW u \in Users, RetryTask(u) PROVE Goal
    <3>1. user[u].build \in Builds /\ build'[user[u].build] # "none"
      BY <1>0, <1>g, <2>4 DEF RetryTask, Finishes, KnownInv
    <3> QED BY <2>2, <2>4, <3>1 DEF RetryTask
  <2>5. ASSUME Dispatch \/ SendFails \/ DispatcherDies PROVE Goal
    <3>1. PICK e \in DOMAIN outbox :
              /\ outbox[e].task \in Builds
              /\ \/ outbox' = outbox
                 \/ \E n \in Nat, r \in {"pending", "sent", "failed"} :
                      outbox' = [outbox EXCEPT ![e].attempt = n, ![e].state = r]
              /\ queue' = queue \/ queue' = [queue EXCEPT ![outbox[e].task] = @ + 1]
      BY <2>5, DispatcherFacts DEF AllInv
    <3>2. DOMAIN outbox' = DOMAIN outbox
          /\ \A f \in DOMAIN outbox : outbox'[f].task = outbox[f].task
      <4>1. CASE outbox' = outbox
        BY <4>1
      <4>2. ASSUME NEW n \in Nat, NEW r \in {"pending", "sent", "failed"},
                   outbox' = [outbox EXCEPT ![e].attempt = n, ![e].state = r]
            PROVE  DOMAIN outbox' = DOMAIN outbox
                   /\ \A f \in DOMAIN outbox : outbox'[f].task = outbox[f].task
        BY <1>0, <4>2, EventChanged
      <4> QED BY <3>1, <4>1, <4>2
    <3>3. \A b \in Builds : queue'[b] > 0 => queue[b] > 0 \/ build'[b] # "none"
      BY <1>0, <2>0, <3>1
    <3> QED BY <1>g, <2>0, <3>2, <3>3 DEF KnownInv
  <2>6. ASSUME NEW w \in Workers, NEW b \in Builds, Deliver(w, b) PROVE Goal
    <3>1. UNCHANGED outbox /\ \A c \in Builds : queue'[c] > 0 => queue[c] > 0
      BY <1>0, <2>6 DEF Deliver, Start, StartNothing, StartRefused, ConnectFails, Takes
    <3> QED BY <2>1, <3>1
  <2>7. ASSUME NEW w \in Workers, Redeliver(w) \/ Crash(w) PROVE Goal
    <3>1. worker[w].build \in Builds /\ build'[worker[w].build] # "none"
      BY <1>0, <1>g, <2>7 DEF Redeliver, Crash, KnownInv
    <3> QED BY <1>0, <2>1, <2>7, <3>1 DEF Redeliver, Crash, PutsBack
  <2>8. ASSUME UNCHANGED <<outbox, queue>> PROVE Goal
    BY <2>1, <2>8
  <2>9. ASSUME NEW u \in Users, Request(u), ~RetryTask(u) PROVE UNCHANGED <<outbox, queue>>
    BY <2>9 DEF Request, ReadForCancel, ReadForRetry, Read, CancelTask, CancelBuild,
             CancelBuildItems, CancelTaskItems, LoseRequest, jobs
  <2>10. ASSUME NEW w \in Workers, Work(w) PROVE UNCHANGED <<outbox, queue>>
    BY <2>10 DEF Work, Check, RunItem, WriteBatch, FinishItem, FinishBuild, ReadForFailure,
             MarkBuildFailure
  <2>11. ASSUME NEW b \in Builds, ExpireLease(b) PROVE UNCHANGED <<outbox, queue>>
    BY <2>11 DEF ExpireLease, jobs
  <2>12. ASSUME NEW d \in Docs, Reparse(d) PROVE UNCHANGED <<outbox, queue>>
    BY <2>12 DEF Reparse, jobs
  <2>13. ASSUME NEW w \in Workers, Raise(w) \/ WriteBackFails(w) PROVE UNCHANGED <<outbox, queue>>
    BY <2>13 DEF Raise, WriteBackFails
  <2>14. ASSUME ChangeContent \/ RecoverLeases \/ UNCHANGED vars PROVE Goal
    BY <2>8, <2>14 DEF ChangeContent, RecoverLeases, vars, jobs
  <2> HIDE DEF Goal
  <2>15. Goal
    BY <2>3, <2>4, <2>5, <2>6, <2>7, <2>8, <2>9, <2>10, <2>11, <2>12, <2>13, <2>14 DEF Next
  <2> QED BY <2>15 DEF Goal
<1>4. \A u \in Users : user'[u].step # "idle" => build'[user'[u].build] # "none"
  <2> DEFINE Goal == \A u \in Users : user'[u].step # "idle" => build'[user'[u].build] # "none"
  <2>1. ASSUME UNCHANGED user PROVE Goal
    BY <1>0, <1>g, <2>1 DEF KnownInv
  <2>2. ASSUME NEW u \in Users, NEW b \in Builds, ReadForCancel(u, b) \/ ReadForRetry(u, b)
        PROVE  Goal
    <3>1. /\ task[b] # "none"
          /\ \E r \in Requests : user' = [user EXCEPT ![u] = [step |-> r, build |-> b]]
      BY <2>2 DEF ReadForCancel, ReadForRetry, Read, Requests
    <3> QED BY <1>0, <1>g, <3>1 DEF KnownInv
  <2>3. ASSUME NEW u \in Users, CancelTask(u) \/ CancelBuild(u) \/ CancelBuildItems(u) PROVE Goal
    <3>1. PICK r \in Requests : user' = [user EXCEPT ![u].step = r] /\ user[u].step # "idle"
      BY <2>3 DEF CancelTask, CancelBuild, CancelBuildItems, Goes, Requests
    <3>2. user'[u].build = user[u].build /\ \A v \in Users : v # u => user'[v] = user[v]
      BY <1>0, <3>1 DEF UserRows
    <3> QED BY <1>0, <1>g, <3>1, <3>2 DEF KnownInv
  <2>4. ASSUME NEW u \in Users, CancelTaskItems(u) \/ RetryTask(u) \/ LoseRequest(u) PROVE Goal
    <3>1. user' = [user EXCEPT ![u] = NoRequest]
      BY <2>4 DEF CancelTaskItems, RetryTask, LoseRequest, Finishes
    <3> QED BY <1>0, <1>g, <3>1 DEF KnownInv, NoRequest
  <2>5. ASSUME NEW w \in Workers, NEW b \in Builds, Deliver(w, b) PROVE UNCHANGED user
    BY <2>5 DEF Deliver, Start, StartNothing, StartRefused, ConnectFails
  <2>6. ASSUME NEW w \in Workers, Work(w) PROVE UNCHANGED user
    BY <2>6 DEF Work, Check, RunItem, WriteBatch, FinishItem, FinishBuild, ReadForFailure,
             MarkBuildFailure
  <2>7. ASSUME NEW b \in Builds, CreateBuild(b) \/ ExpireLease(b) PROVE UNCHANGED user
    BY <2>7 DEF CreateBuild, ExpireLease
  <2>8. ASSUME NEW d \in Docs, Reparse(d) PROVE UNCHANGED user
    BY <2>8 DEF Reparse
  <2>9. ASSUME \/ ChangeContent \/ Dispatch \/ SendFails \/ DispatcherDies \/ RecoverLeases
               \/ UNCHANGED vars
        PROVE  Goal
    BY <2>1, <2>9 DEF ChangeContent, Dispatch, SendFails, DispatcherDies, RecoverLeases, vars
  <2>10. ASSUME NEW w \in Workers, Redeliver(w) \/ Raise(w) \/ WriteBackFails(w) \/ Crash(w)
         PROVE  UNCHANGED user
    BY <2>10 DEF Redeliver, Raise, WriteBackFails, Crash
  <2>11. ASSUME NEW u \in Users, Request(u) PROVE Goal
    BY <2>2, <2>3, <2>4, <2>11 DEF Request
  <2> HIDE DEF Goal
  <2>12. Goal
    BY <2>1, <2>5, <2>6, <2>7, <2>8, <2>9, <2>10, <2>11 DEF Next
  <2> QED BY <2>12 DEF Goal
<1> QED BY <1>1, <1>2, <1>3, <1>4 DEF KnownInv

\* A parse makes new chunks of what workers have fetched, and nothing else does.
LEMMA FetchedNext == AllInv /\ FetchedInv /\ [Next]_vars => FetchedInv'
<1> SUFFICES ASSUME AllInv, FetchedInv, [Next]_vars, NEW w \in Workers, worker'[w].step \in BatchSteps
             PROVE  /\ worker'[w].gen <= chunks'[NextDoc(w)'].gen
                    /\ worker'[w].gen = chunks'[NextDoc(w)'].gen
                          => chunks'[NextDoc(w)'].size = Batches
  BY DEF FetchedInv
<1>0. /\ worker[w] \in WorkerRows
      /\ chunks \in [Docs -> ChunkRows]
      /\ worker[w].step \in ItemSteps => worker[w].todo # {}
  BY DEF AllInv, WorkersInv, ContentInv
<1>1. CASE RunItem(w)
  <2>1. NextDoc(w) \in Docs
    BY <1>0, <1>1, NextDocFacts DEF RunItem, ItemSteps, WorkerRows
  <2>2. /\ worker'[w].gen = chunks[NextDoc(w)].gen
        /\ worker'[w].todo = worker[w].todo
        /\ chunks[NextDoc(w)].size # 0
        /\ chunks' = chunks
    BY <1>0, <1>1 DEF RunItem, Becomes, WorkerRows, BatchSteps, content, AllInv, WorkersInv
  <2>3. NextDoc(w)' = NextDoc(w)
    BY <2>2 DEF NextDoc
  <2> QED BY <1>0, <2>1, <2>2, <2>3 DEF ChunkRows
<1>2. CASE /\ worker[w].step \in BatchSteps
           /\ worker'[w].todo = worker[w].todo
           /\ worker'[w].gen = worker[w].gen
  <2>1. NextDoc(w) \in Docs
    BY <1>0, <1>2, NextDocFacts DEF ItemSteps, BatchSteps, WorkerRows
  <2>2. NextDoc(w)' = NextDoc(w)
    BY <1>2 DEF NextDoc
  <2>3. /\ worker[w].gen <= chunks[NextDoc(w)].gen
        /\ worker[w].gen = chunks[NextDoc(w)].gen => chunks[NextDoc(w)].size = Batches
    BY <1>2 DEF FetchedInv
  <2>4. \/ chunks'[NextDoc(w)] = chunks[NextDoc(w)]
        \/ chunks'[NextDoc(w)].gen = chunks[NextDoc(w)].gen + 1
    <3>1. CASE UNCHANGED chunks
      BY <3>1
    <3>2. ASSUME NEW d \in Docs, Reparse(d)
          PROVE  \/ chunks'[NextDoc(w)] = chunks[NextDoc(w)]
                 \/ chunks'[NextDoc(w)].gen = chunks[NextDoc(w)].gen + 1
      BY <1>0, <2>1, <3>2 DEF Reparse, ChunkRows
    <3>3. ASSUME NEW u \in Users, Request(u) PROVE UNCHANGED chunks
      BY <3>3 DEF Request, ReadForCancel, ReadForRetry, Read, CancelTask, CancelBuild,
               CancelBuildItems, CancelTaskItems, RetryTask, LoseRequest, content
    <3>4. ASSUME NEW x \in Workers, NEW b \in Builds, Deliver(x, b) PROVE UNCHANGED chunks
      BY <3>4 DEF Deliver, Start, StartNothing, StartRefused, ConnectFails, content
    <3>5. ASSUME NEW x \in Workers, Work(x) PROVE UNCHANGED chunks
      BY <3>5 DEF Work, Check, RunItem, WriteBatch, FinishItem, FinishBuild, ReadForFailure,
               MarkBuildFailure, content
    <3> QED BY <3>1, <3>2, <3>3, <3>4, <3>5
            DEF Next, vars, content, CreateBuild, ExpireLease, ChangeContent, Dispatch, SendFails,
                DispatcherDies, RecoverLeases, Redeliver, Raise, WriteBackFails, Crash
  <2>5. worker[w].gen \in Nat /\ chunks[NextDoc(w)].gen \in Nat
    BY <1>0, <2>1 DEF WorkerRows, ChunkRows
  <2> QED BY <1>2, <2>2, <2>3, <2>4, <2>5
<1>3. RunItem(w) \/ /\ worker[w].step \in BatchSteps
                    /\ worker'[w].todo = worker[w].todo
                    /\ worker'[w].gen = worker[w].gen
  <2>1. worker'[w] = worker[w] \/ Continues(w)
    BY WorkersContinue
  <2> QED BY <2>1 DEF Continues, BatchSteps
<1> QED BY <1>1, <1>2, <1>3

Inv2 == AllInv /\ KnownInv /\ FetchedInv

\* The strengthened invariant holds in every reachable state.
LEMMA Invariant2 == Spec => []Inv2
<1>1. Init => KnownInv /\ FetchedInv
  BY DEF Init, KnownInv, FetchedInv, BatchSteps, Idle, NoRequest
<1>2. AllInv /\ AllInv' /\ KnownInv /\ FetchedInv /\ [Next]_vars => KnownInv' /\ FetchedInv'
  BY KnownNext, FetchedNext
<1> QED BY <1>1, <1>2, AllInvariant, PTL DEF Spec, Inv2

Held == [b \in Builds |-> IF build[b] = "none" THEN {} ELSE Docs]
Seen == [b \in Builds |-> Outcome(b)]
Parsed == {d \in Docs : chunks[d].size > 0}
Covered == {d \in Docs : chunks[d].size = Cardinality(embedded[d])}

BuildStates == {"queued", "running", "ready", "failed", "cancelled"}

\* A build that is known gets a state, and nothing else happens that the rest of the
\* system sees; it gets ready with every document embedded.
Gets(b, s) ==
    /\ build[b] # "none"
    /\ build' = [build EXCEPT ![b] = s]
    /\ UNCHANGED <<epoch, inputEpoch, content>>
    /\ s = "ready" => \A d \in Docs : Embedded(d)

\* What a step does that others than jobs see.
Visible ==
    \/ Hidden
    \/ \E b \in Builds : CreateBuild(b)
    \/ ChangeContent
    \/ \E d \in Docs : Reparse(d)
    \/ \E w \in Workers : WriteBatch(w)
    \/ \E b \in Builds : \E s \in BuildStates : Gets(b, s)

\* Whoever takes a step, a request, a worker, the dispatcher or the patrol.
LEMMA VisibleNext ==
  ASSUME Inv2, [Next]_vars
  PROVE  Visible
<1> USE DEF Visible, BuildStates
<1>0. UNCHANGED <<epoch, inputEpoch, build, content>> => Visible
  BY DEF Hidden
<1>1. ASSUME NEW b \in Builds, CreateBuild(b) PROVE Visible
  BY <1>1
<1>2. ASSUME NEW b \in Builds, ExpireLease(b) PROVE Visible
  BY <1>0, <1>2 DEF ExpireLease
<1>3. CASE ChangeContent
  BY <1>3
<1>4. ASSUME NEW d \in Docs, Reparse(d) PROVE Visible
  BY <1>4
<1>5. ASSUME NEW u \in Users, Request(u) PROVE Visible
  <2> DEFINE b == user[u].build
  <2>0. user[u].step # "idle" => b \in Builds /\ build[b] # "none"
    BY DEF Inv2, AllInv, UsersInv, KnownInv
  <2>1. CASE RetryTask(u)
    <3>1. /\ user[u].step # "idle"
          /\ build' = [build EXCEPT ![b] = "queued"]
          /\ UNCHANGED <<epoch, inputEpoch, content>>
      BY <2>1 DEF RetryTask, Finishes
    <3> QED BY <2>0, <3>1 DEF Gets
  <2>2. CASE CancelBuild(u)
    <3>1. /\ user[u].step # "idle"
          /\ build' = [build EXCEPT ![b] = Stopped(build[b])]
          /\ UNCHANGED <<epoch, inputEpoch, content>>
      BY <2>2 DEF CancelBuild, Goes
    <3>2. CASE build[b] \in {"queued", "running"}
      <4>1. Stopped(build[b]) = "cancelled"
        BY <3>2 DEF Stopped
      <4> QED BY <2>0, <3>1, <4>1 DEF Gets
    <3>3. CASE build[b] \notin {"queued", "running"}
      <4>1. Stopped(build[b]) = build[b]
        BY <3>3 DEF Stopped
      <4>2. UNCHANGED build
        BY <2>0, <3>1, <4>1 DEF Inv2, AllInv, Inv, StatesInv
      <4> QED BY <1>0, <3>1, <4>2
    <3> QED BY <3>2, <3>3
  <2>3. CASE ~RetryTask(u) /\ ~CancelBuild(u)
    BY <1>0, <1>5, <2>3
       DEF Request, ReadForCancel, ReadForRetry, Read, CancelTask, CancelBuildItems,
           CancelTaskItems, LoseRequest, stored
  <2> QED BY <2>1, <2>2, <2>3
<1>6. ASSUME NEW w \in Workers, NEW b \in Builds, Deliver(w, b)
      PROVE  Visible
  <2>1. CASE Start(w, b)
    <3>1. /\ queue[b] > 0
          /\ build' = [build EXCEPT ![b] = "running"]
          /\ UNCHANGED <<epoch, inputEpoch, content>>
      BY <2>1 DEF Start, Takes
    <3>2. build[b] # "none"
      BY <3>1 DEF Inv2, KnownInv
    <3> QED BY <3>1, <3>2 DEF Gets
  <2>2. CASE ~Start(w, b)
    BY <1>0, <1>6, <2>2 DEF Deliver, StartNothing, StartRefused, ConnectFails, stored
  <2> QED BY <2>1, <2>2
<1>7. ASSUME NEW w \in Workers, Work(w) PROVE Visible
  <2> DEFINE b == worker[w].build
  <2>0. worker[w].step # "idle" => b \in Builds /\ build[b] # "none"
    BY DEF Inv2, AllInv, WorkersInv, KnownInv
  <2>1. CASE WriteBatch(w)
    BY <2>1
  <2>2. CASE FinishBuild(w) /\ ~UNCHANGED build
    <3>1. /\ worker[w].step # "idle"
          /\ \A d \in Docs : Embedded(d)
          /\ build' = [build EXCEPT ![b] = "ready"]
          /\ UNCHANGED <<epoch, inputEpoch, content>>
      BY <2>2 DEF FinishBuild
    <3> QED BY <2>0, <3>1 DEF Gets
  <2>3. CASE FinishBuild(w) /\ UNCHANGED build
    BY <1>0, <2>3 DEF FinishBuild
  <2>4. CASE MarkBuildFailure(w)
    <3>1. /\ worker[w].step # "idle"
          /\ build' = [build EXCEPT ![b] = "failed"]
          /\ UNCHANGED <<epoch, inputEpoch, content>>
      BY <2>4 DEF MarkBuildFailure
    <3> QED BY <2>0, <3>1 DEF Gets
  <2>5. CASE Check(w) \/ RunItem(w) \/ FinishItem(w) \/ ReadForFailure(w)
    BY <1>0, <2>5 DEF Check, RunItem, FinishItem, ReadForFailure, stored
  <2> QED BY <1>7, <2>1, <2>2, <2>3, <2>4, <2>5 DEF Work
<1>8. ASSUME NEW w \in Workers, Redeliver(w) \/ Raise(w) \/ WriteBackFails(w) \/ Crash(w)
      PROVE  Visible
  BY <1>0, <1>8 DEF Redeliver, Raise, WriteBackFails, Crash, stored
<1>9. CASE Dispatch \/ SendFails \/ DispatcherDies \/ RecoverLeases \/ UNCHANGED vars
  BY <1>0, <1>9 DEF Dispatch, SendFails, DispatcherDies, RecoverLeases, vars, stored
<1> QED BY <1>1, <1>2, <1>3, <1>4, <1>5, <1>6, <1>7, <1>8, <1>9 DEF Next

\* The outcome that a state stands for.
OutcomeOf(s) == CASE s \in {"queued", "running"} -> "pending"
                  [] s = "cancelled" -> "failed"
                  [] OTHER -> s

\* Its outcome becomes that of the state a build gets.
LEMMA BuildMoves ==
  ASSUME AllInv, NEW b \in Builds, NEW s \in BuildStates, Gets(b, s)
  PROVE  Outcomes!Becomes(b, OutcomeOf(s))
<1> USE DEF BuildStates, Gets
<1>1. \A c \in Builds : build'[c] = IF c = b THEN s ELSE build[c]
  BY DEF AllInv, Inv, StatesInv
<1>2. Seen' = [Seen EXCEPT ![b] = OutcomeOf(s)]
  BY <1>1 DEF Seen, Outcome, OutcomeOf
<1>3. Held' = Held
  BY <1>1 DEF Held
<1>4. Seen[b] # "none"
  BY DEF Seen, Outcome
<1>5. UNCHANGED <<Parsed, Covered>>
  BY DEF Parsed, Covered, content
<1> QED
  BY <1>2, <1>3, <1>4, <1>5
     DEF Outcomes!Becomes, Outcomes!Asked, Held, Seen, Parsed, Covered

\* A step that the rest of the system does not see.
LEMMA NothingSeen ==
  UNCHANGED <<epoch, inputEpoch, build, content>> => UNCHANGED Outcomes!vars
<1> SUFFICES ASSUME UNCHANGED <<epoch, inputEpoch, build, content>> PROVE UNCHANGED Outcomes!vars
  OBVIOUS
<1>1. UNCHANGED <<Held, Seen, Parsed, Covered>>
  BY DEF Held, Seen, Outcome, Parsed, Covered, content
<1> QED BY <1>1 DEF Outcomes!vars, Outcomes!builds, Held, Seen, Parsed, Covered

\* A build is asked for when every document is parsed.
LEMMA CreateSeen ==
  ASSUME AllInv, NEW b \in Builds, CreateBuild(b)
  PROVE  Outcomes!Next
<1>1. \A c \in Builds : build'[c] = IF c = b THEN "queued" ELSE build[c]
  BY DEF AllInv, Inv, StatesInv, CreateBuild
<1>2. Seen' = [Seen EXCEPT ![b] = "pending"]
  BY <1>1 DEF Seen, Outcome
<1>3. Held' = [Held EXCEPT ![b] = Docs]
  BY <1>1 DEF Held
<1>4. /\ Seen[b] = "none"
      /\ \A c \in Builds : Seen[c] # "pending" /\ (Seen[c] # "none" => inputEpoch[c] # epoch)
  <2>1. build[b] = "none" /\ \A c \in Builds : build[c] \notin {"queued", "running"}
    BY DEF CreateBuild, NoneActive
  <2>2. \A c \in Builds : build[c] \in {"none", "ready", "failed", "cancelled"}
    BY <2>1 DEF AllInv, Inv, StatesInv
  <2>3. \A c \in Builds : Seen[c] # "pending" /\ (Seen[c] # "none" => build[c] # "none")
    BY <2>2 DEF Seen, Outcome
  <2>4. Seen[b] = "none"
    BY <2>1 DEF Seen, Outcome
  <2> QED BY <2>3, <2>4 DEF CreateBuild
<1>5. Docs \subseteq Parsed /\ Docs # {}
  BY DocsAssumption DEF CreateBuild, Parsed
<1>6. inputEpoch' = [inputEpoch EXCEPT ![b] = epoch] /\ UNCHANGED <<epoch, Parsed, Covered>>
  BY DEF CreateBuild, Parsed, Covered, content
<1>7. Outcomes!Ask(b, Docs)
  BY <1>2, <1>3, <1>4, <1>5, <1>6 DEF Outcomes!Ask, Outcomes!Asked, Held, Seen, Parsed, Covered
<1> QED BY <1>7 DEF Outcomes!Next

\* A parse makes a document one with new chunks, or one without.
LEMMA ReparseSeen ==
  ASSUME AllInv, NEW d \in Docs, Reparse(d)
  PROVE  Outcomes!Parse(d) \/ Outcomes!Spoil(d)
<1>1. PICK size \in {0, Batches} :
         chunks' = [chunks EXCEPT ![d] = [gen |-> chunks[d].gen + 1, size |-> size]]
  BY DEF Reparse
<1>2. /\ chunks'[d].size = size
      /\ Cardinality(embedded'[d]) = 0
      /\ \A e \in Docs \ {d} : chunks'[e] = chunks[e] /\ embedded'[e] = embedded[e]
  BY <1>1, FS_EmptySet DEF AllInv, ContentInv, Reparse
<1>3. UNCHANGED <<epoch, inputEpoch, Held, Seen>>
  BY DEF Reparse, stored, Held, Seen, Outcome
<1>4. \A e \in Docs \ {d} : (e \in Parsed' <=> e \in Parsed) /\ (e \in Covered' <=> e \in Covered)
  BY <1>2 DEF Parsed, Covered
<1>5. Parsed \subseteq Docs /\ Covered \subseteq Docs /\ Parsed' \subseteq Docs /\ Covered' \subseteq Docs
  BY DEF Parsed, Covered
<1>6. CASE size = Batches
  <2>1. d \in Parsed' /\ d \notin Covered'
    BY <1>2, <1>6, BatchesAssumption DEF Parsed, Covered
  <2>2. Parsed' = Parsed \cup {d} /\ Covered' = Covered \ {d}
    BY <1>4, <1>5, <2>1
  <2> QED BY <1>3, <2>2 DEF Outcomes!Parse, Outcomes!builds, Held, Seen, Parsed, Covered
<1>7. CASE size = 0
  <2>1. d \notin Parsed' /\ d \in Covered'
    BY <1>2, <1>7 DEF Parsed, Covered
  <2>2. Parsed' = Parsed \ {d} /\ Covered' = Covered \cup {d}
    BY <1>4, <1>5, <2>1
  <2> QED BY <1>3, <2>2 DEF Outcomes!Spoil, Outcomes!builds, Held, Seen, Parsed, Covered
<1> QED BY <1>6, <1>7

\* Vectors make a document covered, or leave it as it is: those of a covered one
\* are all there already, and those of replaced chunks are refused.
LEMMA WriteCovers ==
  ASSUME Inv2, NEW w \in Workers, WriteBatch(w), embedded' # embedded
  PROVE  \E b \in Builds, d \in Docs :
            /\ build[b] # "none"
            /\ UNCHANGED <<epoch, inputEpoch, build, chunks>>
            /\ Covered' = Covered \/ Covered' = Covered \cup {d}
<1> DEFINE d == NextDoc(w)
           n == worker[w].off + 1
<1>8. UNCHANGED <<epoch, inputEpoch, build, chunks>>
  BY DEF WriteBatch
<1>0. /\ worker[w] \in WorkerRows
      /\ worker[w].step = "batch_write"
      /\ worker[w].todo # {}
      /\ worker[w].off < Batches
      /\ worker[w].build \in Builds
      /\ build[worker[w].build] # "none"
      /\ chunks \in [Docs -> ChunkRows]
      /\ embedded \in [Docs -> SUBSET (1..Batches)]
  BY DEF WriteBatch, Inv2, AllInv, WorkersInv, ContentInv, KnownInv, ItemSteps
<1>1. d \in Docs
  BY <1>0, NextDocFacts DEF WorkerRows
<1>2. n \in 1..Batches
  BY <1>0, BatchesAssumption DEF WorkerRows
<1>3. worker[w].gen = chunks[d].gen /\ embedded' = [embedded EXCEPT ![d] = @ \cup {n}]
  BY DEF WriteBatch
<1>4. chunks[d].size = Batches
  BY <1>0, <1>3 DEF Inv2, FetchedInv, BatchSteps
<1> HIDE DEF d, n
<1>5. d \in Covered => d \in Covered'
  <2> SUFFICES ASSUME d \in Covered PROVE d \in Covered'
    OBVIOUS
  <2>1. Cardinality(embedded[d]) = Batches
    BY <1>4 DEF Covered
  <2>2. IsFiniteSet(1..Batches) /\ Cardinality(1..Batches) = Batches
    BY FS_Interval, BatchesAssumption
  <2>3. embedded[d] = 1..Batches
    BY <1>0, <1>1, <2>1, <2>2, FS_Subset
  <2>4. embedded'[d] = embedded[d]
    BY <1>0, <1>1, <1>2, <1>3, <2>3
  <2> QED BY <1>8, <1>1, <1>4, <2>1, <2>4 DEF Covered
<1>6. \A e \in Docs \ {d} : e \in Covered' <=> e \in Covered
  <2>1. \A e \in Docs \ {d} : embedded'[e] = embedded[e]
    BY <1>0, <1>3
  <2> QED BY <1>8, <2>1 DEF Covered
<1>7. Covered' = Covered \/ Covered' = Covered \cup {d}
  <2>1. Covered \subseteq Docs /\ Covered' \subseteq Docs
    BY DEF Covered
  <2> QED BY <1>1, <1>5, <1>6, <2>1
<1> QED BY <1>0, <1>1, <1>7, <1>8

LEMMA WriteSeen ==
  ASSUME Inv2, NEW w \in Workers, WriteBatch(w)
  PROVE  [Outcomes!Next]_Outcomes!vars
<1>1. CASE UNCHANGED embedded
  BY <1>1, NothingSeen DEF WriteBatch, content
<1>2. CASE embedded' # embedded
  <2>1. PICK b \in Builds, d \in Docs :
            /\ build[b] # "none"
            /\ UNCHANGED <<epoch, inputEpoch, build, chunks>>
            /\ Covered' = Covered \/ Covered' = Covered \cup {d}
    BY <1>2, WriteCovers
  <2>2. UNCHANGED <<Held, Seen, Parsed>>
    BY <2>1 DEF Held, Seen, Outcome, Parsed
  <2>3. CASE Covered' = Covered
    BY <2>1, <2>2, <2>3 DEF Outcomes!vars, Outcomes!builds, Held, Seen, Parsed, Covered
  <2>4. CASE Covered' = Covered \cup {d}
    <3>1. d \in Held[b]
      BY <2>1 DEF Held
    <3>2. Outcomes!Embed(d)
      BY <2>1, <2>2, <2>4, <3>1
         DEF Outcomes!Embed, Outcomes!builds, Held, Seen, Parsed, Covered
    <3> QED BY <3>2 DEF Outcomes!Next
  <2> QED BY <2>1, <2>3, <2>4
<1> QED BY <1>1, <1>2

\* The moves of a build: taken up, retried, cancelled, failed, and finished with every
\* document covered.
LEMMA MoveSeen ==
  ASSUME Inv2, NEW b \in Builds, NEW s \in BuildStates, Gets(b, s)
  PROVE  Outcomes!Next
<1> USE DEF BuildStates, Gets
<1>1. Outcomes!Becomes(b, OutcomeOf(s))
  BY BuildMoves DEF Inv2
<1>2. CASE s \in {"queued", "running"}
  <2>1. OutcomeOf(s) = "pending"
    BY <1>2 DEF OutcomeOf
  <2> QED BY <1>1, <2>1 DEF Outcomes!Next, Outcomes!Resume
<1>3. CASE s \in {"failed", "cancelled"}
  <2>1. OutcomeOf(s) = "failed"
    BY <1>3 DEF OutcomeOf
  <2> QED BY <1>1, <2>1 DEF Outcomes!Next, Outcomes!Fail
<1>4. CASE s = "ready"
  <2>1. OutcomeOf(s) = "ready"
    BY <1>4 DEF OutcomeOf
  <2>2. Held[b] \subseteq Covered
    BY <1>4 DEF Held, Covered, Embedded
  <2> QED BY <1>1, <2>1, <2>2 DEF Outcomes!Next, Outcomes!Finish, Held, Covered
<1> QED BY <1>2, <1>3, <1>4

\* What is left of a job, in whatever order workers, requests and the patrol come, is
\* what BuildOutcomes promises to the rest of the system.
THEOREM OutcomesAreKept == Spec => KeepsOutcomes
<1>1. Init => Outcomes!Init
  <2> SUFFICES ASSUME Init PROVE Outcomes!Init
    OBVIOUS
  <2>1. Held = [b \in Builds |-> {}] /\ Seen = [b \in Builds |-> "none"]
    BY DEF Init, Held, Seen, Outcome
  <2> QED BY <2>1 DEF Init, Outcomes!Init, Held, Seen
<1>2. Inv2 /\ [Next]_vars => [Outcomes!Next]_Outcomes!vars
  <2> SUFFICES ASSUME Inv2, [Next]_vars PROVE [Outcomes!Next]_Outcomes!vars
    OBVIOUS
  <2>1. CASE Hidden
    BY <2>1, NothingSeen DEF Hidden
  <2>2. ASSUME NEW b \in Builds, CreateBuild(b) PROVE [Outcomes!Next]_Outcomes!vars
    BY <2>2, CreateSeen DEF Inv2
  <2>3. CASE ChangeContent
    <3>1. UNCHANGED <<inputEpoch, Held, Seen, Parsed, Covered>> /\ epoch' = epoch + 1
      BY <2>3 DEF ChangeContent, Held, Seen, Outcome, Parsed, Covered, content
    <3>2. Outcomes!Change
      BY <3>1 DEF Outcomes!Change, Outcomes!builds, Held, Seen, Parsed, Covered
    <3> QED BY <3>2 DEF Outcomes!Next
  <2>4. ASSUME NEW d \in Docs, Reparse(d) PROVE [Outcomes!Next]_Outcomes!vars
    <3>1. Outcomes!Parse(d) \/ Outcomes!Spoil(d)
      BY <2>4, ReparseSeen DEF Inv2
    <3> QED BY <3>1 DEF Outcomes!Next
  <2>5. ASSUME NEW w \in Workers, WriteBatch(w) PROVE [Outcomes!Next]_Outcomes!vars
    BY <2>5, WriteSeen
  <2>6. ASSUME NEW b \in Builds, NEW s \in BuildStates, Gets(b, s)
        PROVE  [Outcomes!Next]_Outcomes!vars
    BY <2>6, MoveSeen
  <2> QED BY <2>1, <2>2, <2>3, <2>4, <2>5, <2>6, VisibleNext DEF Visible
<1> QED BY <1>1, <1>2, Invariant2, PTL DEF Spec, KeepsOutcomes, Outcomes!Spec

-----------------------------------------------------------------------------
(* The steps of ReleaseLifecycle. *)

\* Each change of the content is one of the bounded troubles.
BoundedInv ==
    /\ trouble \in Nat
    /\ epoch <= trouble
    /\ \A d \in Docs : chunks[d].gen <= trouble

LEMMA TroubleGrows ==
  ASSUME NumbersInv, [Next]_vars
  PROVE  /\ trouble' = trouble \/ (trouble < MaxTrouble /\ trouble' = trouble + 1)
         /\ ChangeContent \/ (\E d \in Docs : Reparse(d)) => trouble < MaxTrouble /\ trouble' = trouble + 1
<1> USE DEF Trouble
<1>1. ASSUME NEW b \in Builds, CreateBuild(b) \/ ExpireLease(b) PROVE UNCHANGED trouble
  BY <1>1 DEF CreateBuild, ExpireLease
<1>2. ASSUME NEW u \in Users, Request(u)
      PROVE  UNCHANGED trouble \/ Trouble
  BY <1>2 DEF Request, ReadForCancel, ReadForRetry, Read, CancelTask, CancelBuild,
           CancelBuildItems, CancelTaskItems, RetryTask, LoseRequest
<1>3. ChangeContent \/ (\E d \in Docs : Reparse(d)) => Trouble
  BY DEF ChangeContent, Reparse
<1>4. CASE Dispatch \/ SendFails \/ DispatcherDies \/ RecoverLeases \/ UNCHANGED vars
  BY <1>3, <1>4 DEF Dispatch, SendFails, DispatcherDies, RecoverLeases, vars
<1>5. ASSUME NEW w \in Workers, NEW b \in Builds, Deliver(w, b) PROVE UNCHANGED trouble \/ Trouble
  BY <1>5 DEF Deliver, Start, StartNothing, StartRefused, ConnectFails
<1>6. ASSUME NEW w \in Workers, Work(w) PROVE UNCHANGED trouble
  BY <1>6 DEF Work, Check, RunItem, WriteBatch, FinishItem, FinishBuild, ReadForFailure, MarkBuildFailure
<1>7. ASSUME NEW w \in Workers, Redeliver(w) \/ Raise(w) \/ WriteBackFails(w) \/ Crash(w)
      PROVE  Trouble
  BY <1>7 DEF Redeliver, Raise, WriteBackFails, Crash
<1> QED BY <1>1, <1>2, <1>3, <1>4, <1>5, <1>6, <1>7 DEF Next

LEMMA BoundedNext ==
  ASSUME Inv2, BoundedInv, [Next]_vars
  PROVE  BoundedInv'
<1>1. /\ epoch \in Nat
      /\ chunks \in [Docs -> ChunkRows]
      /\ \A d \in Docs : chunks[d].gen \in Nat
      /\ NumbersInv
  BY DEF Inv2, AllInv, NumbersInv, ContentInv, ChunkRows
<1>2. trouble' \in Nat /\ trouble <= trouble'
  BY <1>1, TroubleGrows DEF BoundedInv
<1>3. CASE UNCHANGED <<epoch, chunks>>
  <2>1. epoch <= trouble'
    BY <1>1, <1>2 DEF BoundedInv
  <2>2. \A d \in Docs : chunks[d].gen <= trouble'
    BY <1>1, <1>2 DEF BoundedInv
  <2> QED BY <1>2, <1>3, <2>1, <2>2 DEF BoundedInv
<1>4. CASE ChangeContent
  <2>1. epoch' = epoch + 1 /\ UNCHANGED chunks /\ trouble' = trouble + 1
    BY <1>1, <1>4, TroubleGrows DEF ChangeContent, content
  <2> QED BY <1>1, <1>2, <2>1 DEF BoundedInv
<1>5. ASSUME NEW d \in Docs, Reparse(d) PROVE BoundedInv'
  <2>1. trouble' = trouble + 1 /\ UNCHANGED epoch
    BY <1>1, <1>5, TroubleGrows DEF Reparse, stored
  <2>2. PICK size \in {0, Batches} :
            chunks' = [chunks EXCEPT ![d] = [gen |-> chunks[d].gen + 1, size |-> size]]
    BY <1>5 DEF Reparse
  <2>3. \A e \in Docs : chunks'[e].gen = chunks[e].gen \/ chunks'[e].gen = chunks[e].gen + 1
    BY <1>1, <2>2
  <2> QED BY <1>1, <1>2, <2>1, <2>3 DEF BoundedInv
<1>6. CASE \E w \in Workers : WriteBatch(w)
  BY <1>3, <1>6 DEF WriteBatch
<1>7. CASE Hidden \/ (\E b \in Builds : CreateBuild(b))
           \/ (\E b \in Builds : \E t \in BuildStates : Gets(b, t))
  BY <1>3, <1>7 DEF Hidden, CreateBuild, Gets, content
<1> QED BY <1>4, <1>5, <1>6, <1>7, VisibleNext DEF Visible

LEMMA Bounded == Spec => [](Inv2 /\ BoundedInv)
<1>1. Init => BoundedInv
  BY DEF Init, BoundedInv
<1> QED BY <1>1, BoundedNext, Invariant2, PTL DEF Spec

LifeStep == [Hidden \/ Life!Next]_(Life!vars)

\* The documents do not change, and 0 is none of those of the build.
LEMMA LifeFixed == UNCHANGED <<LifeStatus, LifeDesired>> /\ 0 \notin Docs
  BY DocsAssumption DEF LifeStatus, LifeDesired, LifeDocs

\* What the knowledge base knows of parses stays while the chunks and their vectors do.
LEMMA LifeContent ==
  /\ UNCHANGED chunks => UNCHANGED LifeParse
  /\ UNCHANGED <<chunks, Covered>> => UNCHANGED LifeArtifact
<1>1. UNCHANGED chunks => UNCHANGED LifeParse
  BY DEF LifeParse, LifeDocs
<1>2. ASSUME UNCHANGED <<chunks, Covered>> PROVE UNCHANGED LifeArtifact
  <2>1. ASSUME NEW d \in Docs PROVE UNCHANGED LifeRow(d)
    <3>1. Embedded(d) <=> Embedded(d)'
      BY <1>2 DEF Covered, Embedded
    <3>2. Embedded(d) = Embedded(d)'
      BY <3>1 DEF Embedded
    <3> QED BY <1>2, <3>2 DEF LifeRow
  <2> QED BY <2>1 DEF LifeArtifact, LifeDocs, NoRow
<1> QED BY <1>1, <1>2

\* A build gets the state that its outcome stands for.
LEMMA LifeMoves ==
  ASSUME Inv2, NEW b \in Builds, NEW s \in BuildStates, Gets(b, s)
  PROVE  LifeStep
<1> DEFINE new == OutcomeOf(s)
<1>0. /\ b \in Builds
      /\ build \in [Builds -> {"none", "queued", "running", "ready", "failed", "cancelled"}]
      /\ build[b] # "none"
      /\ \A c \in Builds : build'[c] = IF c = b THEN s ELSE build[c]
      /\ UNCHANGED <<epoch, inputEpoch, chunks, embedded>>
  BY DEF Inv2, AllInv, Inv, StatesInv, Gets, BuildStates, content
<1>1. Outcome(b)' = new /\ new \in {"pending", "ready", "failed"}
  BY <1>0 DEF Outcome, OutcomeOf, BuildStates
<1>2. Outcome(b) \in {"pending", "ready", "failed"}
  BY <1>0 DEF Outcome
<1>3. \A c \in Builds : c # b => Outcome(c)' = Outcome(c)
  BY <1>0 DEF Outcome
<1>4. \A c \in Builds : LifeItems(c)' = LifeItems(c)
  BY <1>0 DEF LifeItems, BuildStates
<1> HIDE DEF new
<1>5. LifeBuild' = [LifeBuild EXCEPT ![b].state = new]
  BY <1>0, <1>1, <1>3, <1>4 DEF LifeBuild
<1>6. LifeBuild[b].state = Outcome(b) /\ LifeBuild' = [LifeBuild EXCEPT ![b].state = new]
  BY <1>5 DEF LifeBuild
<1>7. UNCHANGED <<epoch, LifeStatus, LifeDesired, LifeParse, LifeArtifact>>
  BY <1>0, LifeFixed, LifeContent DEF Covered
<1>8. CASE new = "pending" /\ Outcome(b) # "pending"
  <2>1. Life!RetryBuild(b)
    BY <1>2, <1>6, <1>7, <1>8 DEF Life!RetryBuild, Life!documents, Life!parses
  <2> QED BY <2>1 DEF LifeStep, Life!Next
<1>9. CASE new = "failed" /\ Outcome(b) # "failed"
  <2>1. Life!FailBuild(b)
    BY <1>2, <1>6, <1>7, <1>9 DEF Life!FailBuild, Life!documents, Life!parses
  <2> QED BY <2>1 DEF LifeStep, Life!Next
<1>10. CASE new = "ready" /\ Outcome(b) # "ready"
  <2>1. \A d \in Docs : Embedded(d)
    BY <1>10 DEF new, OutcomeOf, Gets, BuildStates
  <2>2. Life!Embedded(b)
    <3> SUFFICES ASSUME NEW d \in LifeDocs, LifeBuild[b].items[d] # 0
                 PROVE  LifeArtifact[d][LifeBuild[b].items[d]].embedded
      BY DEF Life!Embedded, Life!Contains, Life!NoVersion
    <3>1. d \in Docs /\ LifeBuild[b].items[d] = 1 /\ d # 0
      BY <1>0 DEF LifeBuild, LifeItems, LifeDocs
    <3>2. LifeArtifact[d][1] = LifeRow(d)
      BY <3>1 DEF LifeArtifact, LifeDocs
    <3> QED BY <2>1, <3>1, <3>2 DEF LifeRow
  <2>3. Life!FinishBuild(b)
    BY <1>2, <1>6, <1>7, <1>10, <2>2 DEF Life!FinishBuild, Life!documents, Life!parses
  <2> QED BY <2>3 DEF LifeStep, Life!Next
<1>11. CASE new = Outcome(b)
  <2>1. UNCHANGED LifeBuild
    BY <1>6, <1>11 DEF LifeBuild
  <2> QED BY <1>7, <2>1 DEF LifeStep, Life!vars
<1> QED BY <1>1, <1>8, <1>9, <1>10, <1>11

\* A build is frozen from the documents as they are.
LEMMA LifeCreates ==
  ASSUME Inv2, NEW b \in Builds, CreateBuild(b)
  PROVE  LifeStep
<1>0. /\ build[b] = "none"
      /\ \A c \in Builds : build'[c] = IF c = b THEN "queued" ELSE build[c]
      /\ \A c \in Builds : inputEpoch'[c] = IF c = b THEN epoch ELSE inputEpoch[c]
      /\ UNCHANGED <<epoch, chunks, embedded>>
  BY DEF Inv2, AllInv, Inv, StatesInv, NumbersInv, CreateBuild, content
<1>1. Life!Current = [d \in LifeDocs |-> IF d = 0 THEN 0 ELSE 1]
  BY LifeFixed DEF Life!Current, Life!NoVersion, LifeStatus, LifeDesired, LifeDocs
<1>2. LifeBuild' = [LifeBuild EXCEPT ![b] =
            [state |-> "pending", epoch |-> epoch, items |-> Life!Current]]
  <2>1. \A c \in Builds : c # b => Outcome(c)' = Outcome(c) /\ LifeItems(c)' = LifeItems(c)
    BY <1>0 DEF Outcome, LifeItems
  <2>2. Outcome(b)' = "pending" /\ LifeItems(b)' = Life!Current
    BY <1>0, <1>1 DEF Outcome, LifeItems
  <2> QED BY <1>0, <2>1, <2>2 DEF LifeBuild
<1>3. /\ LifeBuild[b].state = "none"
      /\ \A c \in Builds : LifeBuild[c].state # "pending"
      /\ \A c \in Builds : LifeBuild[c].state # "none" => LifeBuild[c].epoch # epoch
  <2>1. /\ build \in [Builds -> {"none", "queued", "running", "ready", "failed", "cancelled"}]
        /\ NoneActive
        /\ \A c \in Builds : build[c] # "none" => inputEpoch[c] # epoch
    BY DEF Inv2, AllInv, Inv, StatesInv, CreateBuild
  <2>2. \A c \in Builds : Outcome(c) # "pending" /\ (Outcome(c) # "none" => build[c] # "none")
    BY <2>1 DEF Outcome, NoneActive
  <2>3. \A c \in Builds : LifeBuild[c].state = Outcome(c) /\ LifeBuild[c].epoch = inputEpoch[c]
    BY DEF LifeBuild
  <2>4. Outcome(b) = "none"
    BY <1>0 DEF Outcome
  <2> QED BY <2>1, <2>2, <2>3, <2>4
<1>4. Life!Contains(Life!Current) = Docs
  BY <1>1, LifeFixed DEF Life!Contains, Life!NoVersion, LifeDocs
<1>5. \A d \in Docs : Life!Usable(d, LifeDesired[d])
  <2> SUFFICES ASSUME NEW d \in Docs
               PROVE  LifeParse[d][1] = "complete" /\ LifeArtifact[d][1].state = "ready"
    BY DEF Life!Usable, LifeDesired, LifeDocs
  <2>1. chunks[d].size > 0 /\ d # 0
    BY LifeFixed DEF CreateBuild
  <2> QED BY <2>1 DEF LifeParse, LifeArtifact, LifeRow, LifeDocs
<1>6. UNCHANGED <<epoch, LifeStatus, LifeDesired, LifeParse, LifeArtifact>>
  BY <1>0, LifeFixed, LifeContent DEF Covered
<1>7. Life!CreateBuild(b)
  BY <1>2, <1>3, <1>4, <1>5, <1>6, DocsAssumption
     DEF Life!CreateBuild, Life!documents, Life!parses
<1> QED BY <1>7 DEF LifeStep, Life!Next

\* One document has another artifact, the others have the one they had.
LEMMA LifeReplaces ==
  ASSUME NEW d \in Docs, NEW row, LifeRow(d)' = row,
         \A e \in Docs \ {d} : LifeRow(e)' = LifeRow(e)
  PROVE  LifeArtifact' = [LifeArtifact EXCEPT ![d][1] = row]
<1>1. d \in LifeDocs /\ d # 0
  BY LifeFixed DEF LifeDocs
<1>2. \A e \in LifeDocs : LifeArtifact'[e] =
         IF e = d THEN [v \in {1} |-> row] ELSE LifeArtifact[e]
  BY <1>1 DEF LifeArtifact, LifeDocs, NoRow
<1>3. /\ DOMAIN LifeArtifact' = LifeDocs
      /\ LifeArtifact = [e \in LifeDocs |-> LifeArtifact[e]]
      /\ LifeArtifact' = [e \in LifeDocs |-> LifeArtifact'[e]]
      /\ DOMAIN LifeArtifact[d] = {1}
  BY <1>1 DEF LifeArtifact, LifeDocs
<1>4. [LifeArtifact[d] EXCEPT ![1] = row] = [v \in {1} |-> row]
  BY <1>1 DEF LifeArtifact, LifeDocs
<1> QED BY <1>1, <1>2, <1>3, <1>4

\* Another document of the knowledge base is deleted.
LEMMA LifeChanges ==
  ASSUME Inv2, BoundedInv, ChangeContent, [Next]_vars
  PROVE  LifeStep
<1>1. epoch < MaxTrouble /\ epoch' = epoch + 1
  <2>1. epoch \in Nat /\ trouble < MaxTrouble /\ epoch <= trouble /\ trouble \in Nat
    BY DEF ChangeContent, Trouble, BoundedInv, Inv2, AllInv, NumbersInv
  <2> QED BY <2>1, BoundsAssumption DEF ChangeContent
<1>2. UNCHANGED <<LifeStatus, LifeDesired, LifeParse, LifeArtifact>>
  BY LifeFixed, LifeContent DEF ChangeContent, Covered, content
<1>3. UNCHANGED LifeBuild
  BY DEF ChangeContent, LifeBuild, LifeItems, Outcome
<1>4. 0 \in LifeDocs /\ LifeStatus[0] = "deleted"
  BY DEF LifeStatus, LifeDocs
<1>5. LifeStatus' = [LifeStatus EXCEPT ![0] = "deleted"]
  BY <1>2, <1>4 DEF LifeStatus
<1>6. Life!Delete(0)
  BY <1>1, <1>2, <1>3, <1>4, <1>5 DEF Life!Delete, Life!ChangesContent, Life!parses
<1> QED BY <1>4, <1>6 DEF LifeStep, Life!Next

\* A parse has a result, and leaves chunks that nobody has embedded or none.
LEMMA LifeParses ==
  ASSUME Inv2, BoundedInv, NEW d \in Docs, Reparse(d), [Next]_vars
  PROVE  LifeStep
<1>1. PICK size \in {0, Batches} :
         chunks' = [chunks EXCEPT ![d] = [gen |-> chunks[d].gen + 1, size |-> size]]
  BY DEF Reparse
<1> DEFINE ok == size > 0
           row == [state |-> IF ok THEN "ready" ELSE "failed", gen |-> chunks[d].gen + 1,
                   embedded |-> ~ok]
<1>2. /\ chunks'[d] = [gen |-> chunks[d].gen + 1, size |-> size]
      /\ Cardinality(embedded'[d]) = 0
      /\ \A e \in Docs \ {d} : chunks'[e] = chunks[e] /\ embedded'[e] = embedded[e]
  BY <1>1, FS_EmptySet DEF Inv2, AllInv, ContentInv, Reparse
<1>3. Embedded(d)' = ~ok
  BY <1>2, BatchesAssumption DEF Embedded
<1>4. LifeRow(d)' = row
  BY <1>2, <1>3 DEF LifeRow
<1>5. \A e \in Docs \ {d} : LifeRow(e)' = LifeRow(e)
  <2> SUFFICES ASSUME NEW e \in Docs \ {d} PROVE LifeRow(e)' = LifeRow(e)
    OBVIOUS
  <2>1. Embedded(e)' = Embedded(e) /\ chunks'[e] = chunks[e]
    BY <1>2 DEF Embedded
  <2> QED BY <2>1 DEF LifeRow
<1>6. d \in LifeDocs /\ d # 0
  BY LifeFixed DEF LifeDocs
<1>7. LifeArtifact[d][1].gen = chunks[d].gen /\ chunks[d].gen < MaxTrouble
  <2>1. LifeArtifact[d][1].gen = chunks[d].gen
    BY <1>6 DEF LifeArtifact, LifeRow
  <2>2. chunks[d].gen \in Nat /\ trouble < MaxTrouble /\ chunks[d].gen <= trouble /\ trouble \in Nat
    BY DEF Reparse, Trouble, BoundedInv, Inv2, AllInv, ContentInv, ChunkRows
  <2> QED BY <2>1, <2>2, BoundsAssumption
<1>8. /\ LifeParse[d][1] \in {"processing", "complete", "failed"}
      /\ LifeParse' = [LifeParse EXCEPT ![d][1] = IF ok THEN "complete" ELSE "failed"]
  <2>1. \A e \in LifeDocs : LifeParse'[e] =
          IF e = d THEN [v \in {1} |-> IF ok THEN "complete" ELSE "failed"] ELSE LifeParse[e]
    <3>1. chunks'[d].size = size
      BY <1>2
    <3> SUFFICES ASSUME NEW e \in LifeDocs
                 PROVE  LifeParse'[e] = IF e = d THEN [v \in {1} |-> IF ok THEN "complete" ELSE "failed"]
                                                ELSE LifeParse[e]
      OBVIOUS
    <3>2. CASE e = d
      BY <1>6, <3>1, <3>2 DEF LifeParse
    <3>3. CASE e # d /\ e = 0
      BY <3>3 DEF LifeParse
    <3>4. CASE e # d /\ e # 0
      <4>1. chunks'[e] = chunks[e]
        BY <1>2, <3>4 DEF LifeDocs
      <4> QED BY <3>4, <4>1 DEF LifeParse
    <3> QED BY <3>2, <3>3, <3>4
  <2>2. LifeParse[d][1] \in {"complete", "failed"}
    BY <1>6 DEF LifeParse
  <2>3. /\ LifeParse = [e \in LifeDocs |-> LifeParse[e]]
        /\ LifeParse' = [e \in LifeDocs |-> LifeParse'[e]]
        /\ DOMAIN LifeParse[d] = {1} /\ LifeParse[d] = [v \in {1} |-> LifeParse[d][v]]
    BY <1>6 DEF LifeParse, LifeDocs
  <2> DEFINE s == IF ok THEN "complete" ELSE "failed"
  <2>4. [LifeParse[d] EXCEPT ![1] = s] = [v \in {1} |-> s]
    BY <2>3
  <2> HIDE DEF s
  <2>5. LifeParse' = [LifeParse EXCEPT ![d] = [v \in {1} |-> s]]
    BY <1>6, <2>1, <2>3 DEF s
  <2> QED BY <2>2, <2>4, <2>5 DEF s
<1> HIDE DEF ok
<1>9. LifeArtifact' = [LifeArtifact EXCEPT ![d][1] =
            [state |-> IF ok THEN "ready" ELSE "failed", gen |-> LifeArtifact[d][1].gen + 1,
             embedded |-> ~ok]]
  <2> HIDE DEF row
  <2>1. LifeArtifact' = [LifeArtifact EXCEPT ![d][1] = row]
    BY <1>4, <1>5, LifeReplaces
  <2> QED BY <1>7, <2>1 DEF row
<1>10. UNCHANGED <<epoch, LifeStatus, LifeDesired, LifeBuild>>
  BY LifeFixed DEF Reparse, stored, LifeBuild, LifeItems, Outcome
<1>11. Life!FinishParse(d, 1)
  <2>1. ok \in BOOLEAN /\ (~ok /\ TRUE) = ~ok
    BY DEF ok
  <2> QED BY <1>7, <1>8, <1>9, <1>10, <2>1 DEF Life!FinishParse, Life!documents
<1>12. 1 \in Life!Versions
  BY DEF Life!Versions
<1> QED BY <1>6, <1>11, <1>12 DEF LifeStep, Life!Next

\* The last vectors of a document are stored, or some others.
LEMMA LifeEmbeds ==
  ASSUME Inv2, NEW w \in Workers, WriteBatch(w)
  PROVE  LifeStep
<1>1. CASE UNCHANGED embedded
  BY <1>1 DEF LifeStep, Hidden, WriteBatch, content
<1>2. CASE embedded' # embedded
  <2>1. PICK b \in Builds, d \in Docs :
            /\ build[b] # "none"
            /\ UNCHANGED <<epoch, inputEpoch, build, chunks>>
            /\ Covered' = Covered \/ Covered' = Covered \cup {d}
    BY <1>2, WriteCovers
  <2>2. UNCHANGED <<epoch, LifeStatus, LifeDesired, LifeParse, LifeBuild>>
    BY <2>1, LifeFixed, LifeContent DEF LifeBuild, LifeItems, Outcome
  <2>3. CASE Covered' = Covered
    BY <2>1, <2>2, <2>3, LifeContent DEF LifeStep, Life!vars
  <2>4. CASE Covered' = Covered \cup {d}
    <3>1. d \in LifeDocs /\ d # 0
      BY LifeFixed DEF LifeDocs
    <3>2. LifeArtifact[d][1] = LifeRow(d)
      BY <3>1 DEF LifeArtifact
    <3>3. LifeRow(d)' = [LifeArtifact[d][1] EXCEPT !.embedded = TRUE]
      <4>1. Embedded(d)' = TRUE
        <5>1. d \in Covered'
          BY <2>4
        <5> QED BY <5>1 DEF Covered, Embedded
      <4>2. LifeRow(d)' = [state |-> LifeRow(d).state, gen |-> LifeRow(d).gen, embedded |-> TRUE]
        BY <2>1, <4>1 DEF LifeRow
      <4>3. ASSUME NEW t, NEW g, NEW e, NEW z, LifeRow(d) = [state |-> t, gen |-> g, embedded |-> e]
            PROVE  [LifeRow(d) EXCEPT !.embedded = z]
                     = [state |-> LifeRow(d).state, gen |-> LifeRow(d).gen, embedded |-> z]
        BY <4>3
      <4>4. PICK t, g, e : LifeRow(d) = [state |-> t, gen |-> g, embedded |-> e]
        BY DEF LifeRow
      <4>5. \A z : [LifeRow(d) EXCEPT !.embedded = z]
                     = [state |-> LifeRow(d).state, gen |-> LifeRow(d).gen, embedded |-> z]
        BY <4>3, <4>4
      <4>6. [LifeRow(d) EXCEPT !.embedded = TRUE]
                     = [state |-> LifeRow(d).state, gen |-> LifeRow(d).gen, embedded |-> TRUE]
        BY <4>5
      <4> QED BY <3>2, <4>2, <4>6
    <3>4. \A e \in Docs \ {d} : LifeRow(e)' = LifeRow(e)
      <4> SUFFICES ASSUME NEW e \in Docs \ {d} PROVE LifeRow(e)' = LifeRow(e)
        OBVIOUS
      <4>1. e \in Covered' <=> e \in Covered
        BY <2>4
      <4>2. Embedded(e)' = Embedded(e)
        BY <4>1 DEF Covered, Embedded
      <4> QED BY <2>1, <4>2 DEF LifeRow
    <3>5. LifeArtifact' = [LifeArtifact EXCEPT ![d][1].embedded = TRUE]
      BY <3>3, <3>4, LifeReplaces
    <3>6. LifeBuild[b].state # "none" /\ LifeBuild[b].items[d] = 1
      BY <2>1, <3>1 DEF LifeBuild, LifeItems, Outcome
    <3>7. Life!Embed(d, 1)
      BY <2>2, <3>5, <3>6 DEF Life!Embed, Life!documents
    <3>8. 1 \in Life!Versions
      BY DEF Life!Versions
    <3> QED BY <3>1, <3>7, <3>8 DEF LifeStep, Life!Next
  <2> QED BY <2>1, <2>3, <2>4
<1> QED BY <1>1, <1>2

\* StepsOfLifecycle: nothing that outbox, broker, leases, workers and stale requests do
\* to a build is left out where ReleaseLifecycle reduces its execution to a few steps.
THEOREM ReductionIsSound == Spec => StepsOfLifecycle
<1>1. Inv2 /\ BoundedInv /\ [Next]_vars => LifeStep
  <2> SUFFICES ASSUME Inv2, BoundedInv, [Next]_vars PROVE LifeStep
    OBVIOUS
  <2>1. CASE Hidden
    BY <2>1 DEF LifeStep
  <2>2. ASSUME NEW b \in Builds, CreateBuild(b) PROVE LifeStep
    BY <2>2, LifeCreates
  <2>3. CASE ChangeContent
    BY <2>3, LifeChanges
  <2>4. ASSUME NEW d \in Docs, Reparse(d) PROVE LifeStep
    BY <2>4, LifeParses
  <2>5. ASSUME NEW w \in Workers, WriteBatch(w) PROVE LifeStep
    BY <2>5, LifeEmbeds
  <2>6. ASSUME NEW b \in Builds, NEW s \in BuildStates, Gets(b, s) PROVE LifeStep
    BY <2>6, LifeMoves
  <2> QED BY <2>1, <2>2, <2>3, <2>4, <2>5, <2>6, VisibleNext DEF Visible
<1> QED BY <1>1, Bounded, PTL DEF Spec, StepsOfLifecycle, LifeStep
=============================================================================
