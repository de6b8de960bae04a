------------------------ MODULE DocumentParse_proofs ------------------------
(***************************************************************************)
(* Theorems about DocumentParse, for any number of documents, workers and  *)
(* requests, whatever is lost or repeated.                                 *)
(***************************************************************************)
EXTENDS DocumentParse, SequenceTheorems, TLAPS

\* The versions that exist.
Known == {v \in Versions : version[v].doc # 0}

\* Whatever refers to a version refers to one that exists.
KnownInv ==
    /\ \A v \in Versions : task[v] # "none" \/ queue[v] > 0 => v \in Known
    /\ \A e \in DOMAIN outbox : outbox[e].task \in Known
    /\ \A w \in Workers : worker[w].step # "idle" => worker[w].task \in Known
    /\ \A u \in Users : user[u].step \notin {"idle", "insert"} => user[u].task \in Known

\* Some artifact of the version has that state.
Holds(v, s) == \E i \in DOMAIN artifacts[v] : artifacts[v][i].state = s

\* A version whose last parse came to something has an artifact of that state.
ArtifactsInv ==
    \A v \in Versions : \A r \in {"complete", "partial"} :
        version[v].parse = r => Holds(v, ArtifactState(r))

Inv == TypeOK /\ KnownInv /\ ArtifactsInv /\ TaskTellsVersion

\* Zero is no version.
LEMMA VersionsFacts == Versions \subseteq 0..MaxVersions /\ 0 \in 0..MaxVersions /\ 0 \notin Versions
  BY BoundsAssumption DEF Versions

EventRows == [task : Versions, attempt : Nat, state : {"pending", "sent", "failed"}]
DocumentRows == [title : Titles \cup {NoTitle}, status : {"none", "active", "deleted"},
                 desired : 0..MaxVersions]
VersionRows == [doc : 0..MaxVersions, parse : ParseResults \cup {"queued", "processing"}]
UserRows == [step : {"idle", "insert", "reparse", "retry", "cancel_task", "cancel_item"},
             task : 0..MaxVersions, title : Titles \cup {NoTitle}, doc : 0..MaxVersions]

\* The invariant holds initially.
LEMMA InitInv == Init => Inv
<1> SUFFICES ASSUME Init PROVE Inv
  OBVIOUS
<1> USE BoundsAssumption, VersionsFacts DEF Init, Idle, NoRequest
<1>1. TypeOK
  BY DEF TypeOK, ParseResults, JobStates, ArtifactStates
<1>2. KnownInv
  BY DEF KnownInv
<1>3. ArtifactsInv
  BY DEF ArtifactsInv
<1>4. TaskTellsVersion
  BY DEF TaskTellsVersion
<1> QED BY <1>1, <1>2, <1>3, <1>4 DEF Inv

\* Steps that touch neither versions nor artifacts keep what artifacts say.
LEMMA ArtifactsStay == ArtifactsInv /\ UNCHANGED <<version, artifacts>> => ArtifactsInv'
  BY DEF ArtifactsInv, Holds

\* Steps that touch neither versions nor tasks keep what tasks say.
LEMMA TellStays == TaskTellsVersion /\ UNCHANGED <<version, task, item>> => TaskTellsVersion'
  BY DEF TaskTellsVersion

\* An added event announces a version that exists.
LEMMA EventAdded ==
  ASSUME NEW v \in Versions, outbox \in Seq(EventRows), lost \subseteq Versions, AddEvent(v)
  PROVE  /\ outbox' \in Seq(EventRows)
         /\ lost' \subseteq Versions
         /\ \A e \in DOMAIN outbox' : outbox'[e].task = v \/ (e \in DOMAIN outbox /\ outbox'[e] = outbox[e])
<1> DEFINE x == Event(v)
<1>1. /\ x \in EventRows
      /\ x.task = v
  BY DEF Event, EventRows
<1>2. /\ outbox' = Append(outbox, x)
      /\ lost' = lost \ {v}
  BY DEF AddEvent
<1> HIDE DEF x
<1>3. outbox' \in Seq(EventRows)
  BY <1>1, <1>2
<1>4. ASSUME NEW e \in DOMAIN outbox' 
      PROVE  outbox'[e].task = v \/ (e \in DOMAIN outbox /\ outbox'[e] = outbox[e])
  <2>1. /\ DOMAIN outbox = 1..Len(outbox)
        /\ Len(outbox) \in Nat
        /\ DOMAIN outbox' = 1..(Len(outbox) + 1)
    BY <1>2
  <2>2. CASE e = Len(outbox) + 1
    BY <1>1, <1>2, <2>2
  <2>3. CASE e # Len(outbox) + 1
    BY <1>2, <2>1, <2>3
  <2> QED BY <2>2, <2>3
<1> QED BY <1>2, <1>3, <1>4

-----------------------------------------------------------------------------
(* Documents and profiles. *)

LEMMA FindStep ==
  ASSUME Inv, NEW u \in Users, NEW t \in Titles, FindDocument(u, t)
  PROVE  Inv'
<1> USE DEF Inv
<1> PICK d \in 0..MaxVersions :
        user' = [user EXCEPT ![u] = [NoRequest EXCEPT !.step = "insert", !.title = t, !.doc = d]]
  BY DEF FindDocument
<1>0. UNCHANGED <<content, tasks, jobs, trouble>>
  BY DEF FindDocument
<1> USE <1>0 DEF content, tasks, jobs
<1>1. TypeOK'
  <2>1. user' \in [Users -> UserRows]
    BY VersionsFacts DEF TypeOK, NoRequest, UserRows
  <2> QED BY <2>1 DEF TypeOK, UserRows
<1>2. KnownInv'
  BY DEF TypeOK, KnownInv, Known, NoRequest
<1> QED BY <1>1, <1>2, ArtifactsStay, TellStays

LEMMA InsertStep ==
  ASSUME Inv, NEW u \in Users, InsertVersion(u)
  PROVE  Inv'
<1> USE DEF Inv
<1> PICK v \in Unused : LET d == IF user[u].doc = 0 THEN v ELSE user[u].doc IN
        /\ document' = [document EXCEPT ![d] =
                [title |-> user[u].title, status |-> "active", desired |-> v]]
        /\ version' = [version EXCEPT ![v] = [doc |-> d, parse |-> "queued"]]
        /\ task' = [task EXCEPT ![v] = "queued"]
        /\ item' = [item EXCEPT ![v] = "queued"]
        /\ AddEvent(v)
        /\ user' = [user EXCEPT ![u] = NoRequest]
        /\ UNCHANGED <<profiles, artifacts, queue, worker, trouble>>
        /\ user[u].step = "insert"
  BY DEF InsertVersion
<1> DEFINE d == IF user[u].doc = 0 THEN v ELSE user[u].doc
<1>1. /\ v \in Versions
      /\ d \in Versions
      /\ v \notin Known
      /\ Known' = Known \cup {v}
  <2>1. v \in Versions \ Known
    BY DEF Unused, Known
  <2>2. user[u].doc \in 0..MaxVersions
    BY DEF TypeOK
  <2>3. d \in Versions
    BY <2>1, <2>2 DEF Versions
  <2>4. d # 0
    BY <2>3, VersionsFacts
  <2>5. version'[v].doc = d /\ \A x \in Versions : x # v => version'[x] = version[x]
    BY <2>1 DEF TypeOK
  <2> HIDE DEF d
  <2> QED BY <2>1, <2>3, <2>4, <2>5 DEF Known
<1> HIDE DEF d
<1>2. /\ outbox' \in Seq(EventRows)
      /\ lost' \subseteq Versions
      /\ \A e \in DOMAIN outbox' : outbox'[e].task = v \/ (e \in DOMAIN outbox /\ outbox'[e] = outbox[e])
  BY <1>1, EventAdded DEF TypeOK, EventRows
<1>3. TypeOK'
  <2>1. document' \in [Versions -> [title : Titles \cup {NoTitle}, status : {"none", "active", "deleted"},
                                    desired : 0..MaxVersions]]
    BY <1>1, VersionsFacts DEF TypeOK
  <2>2. version' \in [Versions -> [doc : 0..MaxVersions,
                                   parse : ParseResults \cup {"queued", "processing"}]]
    BY <1>1, VersionsFacts DEF TypeOK
  <2>3. /\ task' \in [Versions -> JobStates]
        /\ item' \in [Versions -> JobStates]
    BY <1>1 DEF TypeOK, JobStates
  <2>4. user' \in [Users -> UserRows]
    BY VersionsFacts DEF TypeOK, NoRequest, UserRows
  <2> QED BY <1>2, <2>1, <2>2, <2>3, <2>4 DEF TypeOK, EventRows, UserRows
<1>4. KnownInv'
  <2>1. \A x \in Versions : task'[x] # "none" \/ queue'[x] > 0 => x \in Known'
    BY <1>1 DEF KnownInv, TypeOK
  <2>2. \A e \in DOMAIN outbox' : outbox'[e].task \in Known'
    BY <1>1, <1>2 DEF KnownInv
  <2>3. \A w \in Workers : worker'[w].step # "idle" => worker'[w].task \in Known'
    BY <1>1 DEF KnownInv
  <2>4. \A x \in Users : user'[x].step \notin {"idle", "insert"} => user'[x].task \in Known'
    BY <1>1 DEF KnownInv, TypeOK, NoRequest
  <2> QED BY <2>1, <2>2, <2>3, <2>4 DEF KnownInv
<1>5. ArtifactsInv'
  <2>1. /\ version'[v].parse = "queued"
        /\ \A x \in Versions \ {v} : version'[x] = version[x]
    BY <1>1 DEF TypeOK
  <2> QED BY <2>1 DEF ArtifactsInv, Holds
<1>6. TaskTellsVersion'
  BY <1>1 DEF TaskTellsVersion, TypeOK
<1> QED BY <1>3, <1>4, <1>5, <1>6

LEMMA RequestEnds ==
  ASSUME Inv, NEW u \in Users, LoseRequest(u)
  PROVE  Inv'
<1> USE DEF Inv, LoseRequest, content, tasks, jobs
<1>1. TypeOK'
  <2>1. user' \in [Users -> UserRows]
    BY VersionsFacts DEF TypeOK, NoRequest, UserRows
  <2>2. trouble' \in Nat
    BY DEF TypeOK, Trouble
  <2> QED BY <2>1, <2>2 DEF TypeOK, UserRows
<1>2. KnownInv'
  BY DEF TypeOK, KnownInv, Known, NoRequest
<1> QED BY <1>1, <1>2, ArtifactsStay, TellStays

LEMMA DeleteStep ==
  ASSUME Inv, NEW d \in Versions, DeleteDocument(d)
  PROVE  Inv'
<1> USE DEF Inv, DeleteDocument, tasks, jobs
<1>1. TypeOK'
  <2>1. trouble' \in Nat
    BY DEF TypeOK, Trouble
  <2>2. document' \in [Versions -> DocumentRows]
    <3>1. document \in [Versions -> DocumentRows]
      BY DEF TypeOK, DocumentRows
    <3> QED BY <3>1 DEF DocumentRows
  <2> QED BY <2>1, <2>2 DEF TypeOK, DocumentRows
<1>2. KnownInv'
  BY DEF KnownInv, Known
<1> QED BY <1>1, <1>2, ArtifactsStay, TellStays

LEMMA ProfileStep ==
  ASSUME Inv, CreateProfile
  PROVE  Inv'
<1> USE DEF Inv, CreateProfile, tasks, jobs
<1>1. TypeOK'
  <2>1. profiles' \in Seq({"default", "custom"})
    BY DEF TypeOK
  <2> QED BY <2>1 DEF TypeOK
<1>2. KnownInv'
  BY DEF KnownInv, Known
<1> QED BY <1>1, <1>2, ArtifactsStay, TellStays

ArtifactRows == [profile : Nat, state : ArtifactStates, gen : Nat, cited : BOOLEAN]

LEMMA CiteStep ==
  ASSUME Inv, NEW v \in Versions, NEW i \in DOMAIN artifacts[v], Cite(v, i)
  PROVE  Inv'
<1> USE DEF Inv, Cite, tasks, jobs
<1>1. /\ artifacts[v] \in Seq(ArtifactRows)
      /\ artifacts' = [artifacts EXCEPT ![v] = [artifacts[v] EXCEPT ![i] =
                            [artifacts[v][i] EXCEPT !.cited = TRUE]]]
  BY DEF TypeOK, ArtifactRows
<1> DEFINE row == [artifacts[v][i] EXCEPT !.cited = TRUE]
           new == [artifacts[v] EXCEPT ![i] = row]
<1>2. row \in ArtifactRows /\ row.state = artifacts[v][i].state
  <2>1. artifacts[v][i] \in ArtifactRows
    BY <1>1
  <2> QED BY <2>1 DEF ArtifactRows
<1> HIDE DEF row
<1>3. /\ new \in Seq(ArtifactRows)
      /\ new # << >>
      /\ DOMAIN new = DOMAIN artifacts[v]
      /\ \A j \in DOMAIN new : new[j].state = artifacts[v][j].state
  BY <1>1, <1>2
<1> HIDE DEF new
<1>4. artifacts' \in [Versions -> Seq(ArtifactRows)]
  BY <1>1, <1>3 DEF TypeOK, ArtifactRows, row, new
<1>5. /\ artifacts'[v] = new
      /\ \A x \in Versions : x # v => artifacts'[x] = artifacts[x]
  BY <1>1 DEF TypeOK, new, row
<1>6. TypeOK'
  <2>1. trouble' \in Nat
    BY DEF TypeOK, Trouble
  <2> QED BY <1>4, <2>1 DEF TypeOK, ArtifactRows
<1>7. KnownInv'
  BY DEF KnownInv, Known
<1>8. ArtifactsInv'
  <2>1. \A x \in Versions : \A s : Holds(x, s) => Holds(x, s)'
    BY <1>3, <1>5 DEF Holds
  <2>2. UNCHANGED version
    OBVIOUS
  <2> QED BY <2>1, <2>2 DEF ArtifactsInv
<1> QED BY <1>6, <1>7, <1>8, TellStays

-----------------------------------------------------------------------------
(* Requests about tasks. *)

LEMMA ReadStep ==
  ASSUME Inv, NEW u \in Users, NEW v \in Versions,
         ReadForReparse(u, v) \/ ReadForRetry(u, v) \/ ReadForCancel(u, v)
  PROVE  Inv'
<1> USE DEF Inv, content, tasks, jobs
<1>1. PICK step \in {"reparse", "retry", "cancel_task"} :
        /\ task[v] # "none"
        /\ Trouble
        /\ user' = [user EXCEPT ![u] = [NoRequest EXCEPT !.step = step, !.task = v]]
        /\ UNCHANGED <<content, tasks, jobs>>
  BY DEF ReadForReparse, ReadForRetry, ReadForCancel, Read
<1>2. TypeOK'
  <2>1. user' \in [Users -> UserRows]
    BY <1>1, VersionsFacts DEF TypeOK, NoRequest, UserRows
  <2>2. trouble' \in Nat
    BY <1>1 DEF TypeOK, Trouble
  <2> QED BY <1>1, <2>1, <2>2 DEF TypeOK, UserRows
<1>3. KnownInv'
  <2>1. Known' = Known /\ v \in Known
    BY <1>1 DEF KnownInv, Known
  <2> QED BY <1>1, <2>1 DEF TypeOK, KnownInv, NoRequest
<1> QED BY <1>1, <1>2, <1>3, ArtifactsStay, TellStays

LEMMA RequeueStep ==
  ASSUME Inv, NEW u \in Users, Requeue(u)
  PROVE  Inv'
<1> DEFINE v == user[u].task
<1> USE DEF Inv, content
<1>1. v \in Known /\ v \in Versions
  BY DEF Requeue, KnownInv, Known
<1>2. PICK s \in JobStates :
        /\ task' = [task EXCEPT ![v] = "queued"]
        /\ item' = [item EXCEPT ![v] = s]
        /\ AddEvent(v)
        /\ user' = [user EXCEPT ![u] = NoRequest]
        /\ UNCHANGED <<content, queue, worker, trouble>>
  BY <1>1 DEF Requeue, Unless, JobStates, TypeOK
<1>3. /\ outbox' \in Seq(EventRows)
      /\ lost' \subseteq Versions
      /\ \A e \in DOMAIN outbox' : outbox'[e].task = v \/ (e \in DOMAIN outbox /\ outbox'[e] = outbox[e])
  BY <1>1, <1>2, EventAdded DEF TypeOK, EventRows
<1>4. Known' = Known
  BY <1>2 DEF Known
<1> HIDE DEF v
<1>5. TypeOK'
  <2>1. user' \in [Users -> UserRows]
    BY <1>2, VersionsFacts DEF TypeOK, NoRequest, UserRows
  <2>2. /\ task' \in [Versions -> JobStates]
        /\ item' \in [Versions -> JobStates]
    BY <1>2 DEF TypeOK, JobStates
  <2> QED BY <1>2, <1>3, <2>1, <2>2 DEF TypeOK, UserRows, EventRows
<1>6. KnownInv'
  BY <1>1, <1>2, <1>3, <1>4 DEF TypeOK, KnownInv, NoRequest
<1>7. TaskTellsVersion'
  BY <1>1, <1>2 DEF TypeOK, TaskTellsVersion
<1> QED BY <1>2, <1>5, <1>6, <1>7, ArtifactsStay

LEMMA CancelStep ==
  ASSUME Inv, NEW u \in Users, CancelTask(u) \/ CancelItem(u)
  PROVE  Inv'
<1> DEFINE v == user[u].task
<1> USE DEF Inv, content, jobs
<1>1. v \in Known /\ v \in Versions
  BY DEF CancelTask, CancelItem, KnownInv, Known
<1>2. /\ UNCHANGED <<content, jobs, trouble>>
      /\ user' \in [Users -> UserRows]
      /\ \A x \in Users : user'[x].step \notin {"idle", "insert"}
                            => user'[x].task = user[x].task /\ user[x].step \notin {"idle", "insert"}
  <2>1. user \in [Users -> UserRows]
    BY DEF TypeOK, UserRows
  <2>2. CASE CancelTask(u)
    BY <2>1, <2>2 DEF CancelTask, UserRows
  <2>3. CASE CancelItem(u)
    BY <2>1, <2>3, VersionsFacts DEF CancelItem, UserRows, NoRequest
  <2> QED BY <2>2, <2>3
<1>6. /\ task' \in [Versions -> JobStates]
      /\ item' \in [Versions -> JobStates]
      /\ \A x \in Versions \ {v} : task'[x] = task[x] /\ item'[x] = item[x]
      /\ \/ task'[v] = "cancelled" /\ item'[v] = item[v]
         \/ task'[v] = task[v] /\ item'[v] = Unless("completed", item[v], "cancelled")
  <2>1. CASE CancelTask(u)
    <3>1. task' = [task EXCEPT ![v] = "cancelled"] /\ item' = item
      BY <2>1 DEF CancelTask
    <3>2. item \in [Versions -> JobStates] /\ task \in [Versions -> JobStates]
      BY DEF TypeOK
    <3> QED BY <1>1, <3>1, <3>2 DEF JobStates
  <2>2. CASE CancelItem(u)
    <3>1. Unless("completed", item[v], "cancelled") \in JobStates
      BY <1>1 DEF Unless, TypeOK, JobStates
    <3>2. item' = [item EXCEPT ![v] = Unless("completed", item[v], "cancelled")] /\ task' = task
      BY <2>2 DEF CancelItem
    <3>3. item \in [Versions -> JobStates] /\ task \in [Versions -> JobStates]
      BY DEF TypeOK
    <3> QED BY <1>1, <3>1, <3>2, <3>3
  <2> QED BY <2>1, <2>2
<1> HIDE DEF v
<1>3. TypeOK'
  BY <1>2, <1>6 DEF TypeOK, UserRows
<1>4. KnownInv'
  <2>1. Known' = Known
    BY <1>2 DEF Known
  <2> QED BY <1>1, <1>2, <1>6, <2>1 DEF TypeOK, KnownInv
<1>5. TaskTellsVersion'
  BY <1>1, <1>2, <1>6 DEF TypeOK, TaskTellsVersion, Unless
<1> QED BY <1>2, <1>3, <1>4, <1>5, ArtifactsStay

-----------------------------------------------------------------------------
(* The outbox dispatcher and the broker. *)

LEMMA DispatcherStep ==
  ASSUME Inv, Dispatch \/ SendFails \/ DispatcherDies
  PROVE  Inv'
<1> USE DEF Inv, content, tasks
<1>1. PICK e \in DOMAIN outbox :
        /\ \/ outbox' = outbox
           \/ \E n \in Nat, s \in {"pending", "sent", "failed"} :
                outbox' = [outbox EXCEPT ![e].attempt = n, ![e].state = s]
        /\ queue' = queue \/ queue' = [queue EXCEPT ![outbox[e].task] = @ + 1]
        /\ lost' = lost \/ lost' = lost \cup {outbox[e].task}
        /\ trouble' = trouble \/ trouble' = trouble + 1
        /\ UNCHANGED <<content, tasks, worker, user>>
  <2>1. \A e \in DOMAIN outbox : outbox[e].attempt + 1 \in Nat
    <3>1. outbox \in Seq(EventRows)
      BY DEF TypeOK, EventRows
    <3>2. \A e \in DOMAIN outbox : outbox[e] \in EventRows
      BY <3>1
    <3> QED BY <3>2 DEF EventRows
  <2>2. CASE Dispatch
    <3>1. PICK e \in DOMAIN outbox :
            /\ outbox' = [outbox EXCEPT ![e].attempt = outbox[e].attempt + 1, ![e].state = "sent"]
            /\ queue' = [queue EXCEPT ![outbox[e].task] = @ + 1]
            /\ UNCHANGED <<content, tasks, worker, lost, user, trouble>>
      BY <2>2 DEF Dispatch
    <3> QED BY <2>1, <3>1
  <2>3. CASE SendFails
    <3>1. PICK e \in DOMAIN outbox :
            LET last == outbox[e].attempt + 1 >= MaxAttempts IN
            /\ outbox' = [outbox EXCEPT ![e].attempt = outbox[e].attempt + 1,
                                        ![e].state = IF last THEN "failed" ELSE "pending"]
            /\ lost' = IF last THEN lost \cup {outbox[e].task} ELSE lost
            /\ trouble' = trouble + 1
            /\ UNCHANGED <<content, tasks, queue, worker, user>>
      BY <2>3 DEF SendFails, Trouble
    <3> QED BY <2>1, <3>1
  <2>4. CASE DispatcherDies
    BY <2>4 DEF DispatcherDies, Trouble
  <2> QED BY <2>2, <2>3, <2>4
<1>2. /\ outbox \in Seq(EventRows)
      /\ outbox[e] \in EventRows
      /\ outbox[e].task \in Known
      /\ outbox[e].task \in Versions
  <2>1. outbox \in Seq(EventRows)
    BY DEF TypeOK, EventRows
  <2>2. outbox[e] \in EventRows
    BY <2>1
  <2> QED BY <2>1, <2>2 DEF EventRows, KnownInv
<1>3. /\ outbox' \in Seq(EventRows)
      /\ DOMAIN outbox' = DOMAIN outbox
      /\ \A x \in DOMAIN outbox : outbox'[x].task = outbox[x].task
  <2>1. CASE outbox' = outbox
    BY <1>2, <2>1
  <2>2. ASSUME NEW n \in Nat, NEW s \in {"pending", "sent", "failed"},
               outbox' = [outbox EXCEPT ![e].attempt = n, ![e].state = s]
        PROVE  /\ outbox' \in Seq(EventRows)
               /\ DOMAIN outbox' = DOMAIN outbox
               /\ \A x \in DOMAIN outbox : outbox'[x].task = outbox[x].task
    <3> DEFINE row == [[outbox[e] EXCEPT !.attempt = n] EXCEPT !.state = s]
    <3>1. row \in EventRows /\ row.task = outbox[e].task
      BY <1>2 DEF EventRows
    <3>2. outbox' = [outbox EXCEPT ![e] = row]
      BY <1>2, <2>2
    <3> HIDE DEF row
    <3> QED BY <1>2, <3>1, <3>2
  <2> QED BY <1>1, <2>1, <2>2
<1>4. queue' \in [Versions -> Nat] /\ \A v \in Versions : queue'[v] > 0 => v \in Known
  <2>1. queue \in [Versions -> Nat] /\ \A v \in Versions : queue[v] > 0 => v \in Known
    BY DEF TypeOK, KnownInv
  <2> QED BY <1>1, <1>2, <2>1
<1>5. TypeOK'
  <2>1. trouble' \in Nat /\ lost' \subseteq Versions
    <3>1. trouble \in Nat /\ lost \subseteq Versions
      BY DEF TypeOK
    <3>2. lost' \subseteq Versions
      BY <1>1, <1>2, <3>1
    <3>3. trouble' \in Nat
      BY <1>1, <3>1
    <3> QED BY <3>2, <3>3
  <2> QED BY <1>1, <1>3, <1>4, <2>1 DEF TypeOK, EventRows
<1>6. KnownInv'
  <2>1. Known' = Known
    BY <1>1 DEF Known
  <2> QED BY <1>1, <1>3, <1>4, <2>1 DEF KnownInv
<1> QED BY <1>1, <1>5, <1>6, ArtifactsStay, TellStays

-----------------------------------------------------------------------------
(* The worker. *)

WorkerRows == [step : {"idle", "parse", "write", "failing"}, task : 0..MaxVersions, profile : Nat,
               result : ParseResults]

\* A worker goes on with its task, drops it, or takes up one that exists.
GoesOn(w) ==
    /\ worker' \in [Workers -> WorkerRows]
    /\ \A x \in Workers : worker'[x].step # "idle"
            => \/ worker[x].step # "idle" /\ worker'[x].task = worker[x].task
               \/ worker'[x].task \in Known

LEMMA MovesOn ==
  ASSUME TypeOK, NEW w \in Workers, worker[w].step # "idle",
         TakesUp(w, worker[w].task, "failing") \/ Returns(w)
  PROVE  GoesOn(w)
<1>1. worker \in [Workers -> WorkerRows]
  BY DEF TypeOK, WorkerRows
<1>2. CASE TakesUp(w, worker[w].task, "failing")
  BY <1>1, <1>2 DEF TakesUp, GoesOn, WorkerRows, Idle, ParseResults
<1>3. CASE Returns(w)
  BY <1>1, <1>3, VersionsFacts DEF Returns, GoesOn, WorkerRows, Idle, ParseResults
<1> QED BY <1>2, <1>3

\* Steps of a worker that write nothing to the tables.
LEMMA Aside ==
  ASSUME Inv, NEW w \in Workers, GoesOn(w), UNCHANGED <<content, tasks, outbox, user>>,
         lost' \subseteq Versions, trouble' \in Nat, queue' \in [Versions -> Nat],
         \A v \in Versions : queue'[v] > 0 => v \in Known
  PROVE  Inv'
<1> USE DEF Inv, content, tasks
<1>1. TypeOK'
  BY DEF TypeOK, GoesOn, WorkerRows
<1>2. KnownInv'
  <2>1. Known' = Known
    BY DEF Known
  <2> QED BY <2>1 DEF KnownInv, GoesOn
<1> QED BY <1>1, <1>2, ArtifactsStay, TellStays

LEMMA WorkerFacts ==
  ASSUME Inv
  PROVE  /\ \A v \in Versions : queue[v] > 0 => v \in Known
         /\ queue \in [Versions -> Nat]
         /\ lost \subseteq Versions
         /\ trouble \in Nat
         /\ worker \in [Workers -> WorkerRows]
         /\ \A w \in Workers : worker[w].step # "idle" => worker[w].task \in Versions /\ worker[w].task \in Known
  BY DEF Inv, TypeOK, KnownInv, Known, WorkerRows

LEMMA AsideStep ==
  ASSUME Inv, NEW w \in Workers,
         Redeliver(w) \/ Raise(w) \/ WriteBackFails(w) \/ Crash(w) \/ ParseFile(w) \/ WriteRefused(w)
  PROVE  Inv'
<1>1. worker[w].step # "idle"
  BY DEF Redeliver, Raise, WriteBackFails, Crash, ParseFile, WriteRefused
<1>2. UNCHANGED <<content, tasks, outbox, user>>
  BY DEF Redeliver, Raise, WriteBackFails, Crash, ParseFile, WriteRefused
<1>3. GoesOn(w)
  <2>1. CASE Raise(w) \/ WriteBackFails(w) \/ Crash(w) \/ WriteRefused(w)
    BY <1>1, <2>1, MovesOn DEF Inv, Raise, WriteBackFails, Crash, WriteRefused
  <2>2. CASE Redeliver(w)
    BY <2>2, WorkerFacts DEF Redeliver, GoesOn
  <2>3. CASE ParseFile(w)
    <3>1. Len(profiles) \in Nat
      BY DEF Inv, TypeOK
    <3>2. PICK r \in ParseResults :
            worker' = [worker EXCEPT ![w] =
                [worker[w] EXCEPT !.step = "write", !.profile = Len(profiles), !.result = r]]
      BY <1>1, <2>3, WorkerFacts, OutcomesAssumption DEF ParseFile
    <3>3. worker[w] \in WorkerRows
      BY WorkerFacts
    <3> QED BY <1>1, <3>1, <3>2, <3>3, WorkerFacts DEF GoesOn, WorkerRows
  <2> QED BY <2>1, <2>2, <2>3
<1>4. lost' \subseteq Versions /\ trouble' \in Nat
  BY <1>1, WorkerFacts DEF Redeliver, Raise, WriteBackFails, Crash, ParseFile, WriteRefused, Trouble
<1>5. queue' \in [Versions -> Nat] /\ \A v \in Versions : queue'[v] > 0 => v \in Known
  BY <1>1, WorkerFacts DEF Redeliver, Raise, WriteBackFails, Crash, ParseFile, WriteRefused, PutsBack
<1> QED BY <1>2, <1>3, <1>4, <1>5, Aside

LEMMA NothingStep ==
  ASSUME Inv, NEW w \in Workers, NEW v \in Versions,
         StartNothing(w, v) \/ StartRaises(w, v) \/ ConnectFails(w, v)
  PROVE  Inv'
<1>1. UNCHANGED <<content, tasks, outbox, user>>
  BY DEF StartNothing, StartRaises, ConnectFails
<1>2. GoesOn(w)
  <2>1. CASE StartRaises(w, v)
    <3>1. v \in Known
      BY <2>1, WorkerFacts DEF StartRaises, Takes
    <3>2. 0 \in Nat /\ v \in 0..MaxVersions
      BY VersionsFacts
    <3> QED BY <2>1, <3>1, <3>2, WorkerFacts
            DEF StartRaises, TakesUp, Idle, ParseResults, GoesOn, WorkerRows
  <2>2. CASE UNCHANGED worker
    BY <2>2, WorkerFacts DEF GoesOn
  <2> QED BY <2>1, <2>2 DEF StartNothing, ConnectFails
<1>3. lost' \subseteq Versions /\ trouble' \in Nat
  BY WorkerFacts DEF StartNothing, StartRaises, ConnectFails, Trouble
<1>4. queue' \in [Versions -> Nat] /\ \A x \in Versions : queue'[x] > 0 => x \in Known
  BY WorkerFacts DEF StartNothing, StartRaises, ConnectFails, Takes
<1> QED BY <1>1, <1>2, <1>3, <1>4, Aside

LEMMA StartStep ==
  ASSUME Inv, NEW w \in Workers, NEW v \in Versions, Start(w, v)
  PROVE  Inv'
<1> USE DEF Inv
<1>1. v \in Known /\ queue' \in [Versions -> Nat] /\ \A x \in Versions : queue'[x] > 0 => x \in Known
  BY WorkerFacts DEF Start, Takes
<1>2. /\ version' \in [Versions -> VersionRows]
      /\ \A x \in Versions : version'[x].doc = version[x].doc
      /\ \A x \in Versions \ {v} : version'[x] = version[x]
      /\ version'[v].parse = "processing"
  <2>1. version \in [Versions -> VersionRows]
    BY DEF TypeOK, VersionRows
  <2> QED BY <2>1 DEF Start, VersionRows
<1>3. worker' \in [Workers -> WorkerRows]
      /\ \A x \in Workers : worker'[x].step # "idle" => worker'[x].task = v \/ worker'[x] = worker[x]
  BY WorkerFacts, VersionsFacts DEF Start, TakesUp, Idle, ParseResults, WorkerRows
<1>4. Known' = Known
  BY <1>2 DEF Known
<1>5. TypeOK'
  <2>1. task' \in [Versions -> JobStates] /\ item' \in [Versions -> JobStates]
    BY DEF Start, TypeOK, JobStates
  <2> QED BY <1>1, <1>2, <1>3, <2>1 DEF TypeOK, Start, WorkerRows, VersionRows
<1>6. KnownInv'
  BY <1>1, <1>3, <1>4 DEF KnownInv, Start, TypeOK
<1>7. ArtifactsInv'
  BY <1>2 DEF ArtifactsInv, Holds, Start
<1>8. TaskTellsVersion'
  BY <1>2 DEF TaskTellsVersion, Start, TypeOK
<1> QED BY <1>5, <1>6, <1>7, <1>8

LEMMA FailureStep ==
  ASSUME Inv, NEW w \in Workers, MarkFailure(w)
  PROVE  Inv'
<1> DEFINE v == worker[w].task
<1> USE DEF Inv
<1>1. v \in Known /\ v \in Versions /\ worker[w].step # "idle"
  BY WorkerFacts DEF MarkFailure
<1>2. /\ version' \in [Versions -> VersionRows]
      /\ \A x \in Versions : version'[x].doc = version[x].doc
      /\ \A x \in Versions \ {v} : version'[x] = version[x]
      /\ version'[v].parse = "failed"
  <2>1. version \in [Versions -> VersionRows]
    BY DEF TypeOK, VersionRows
  <2> QED BY <1>1, <2>1 DEF MarkFailure, VersionRows, FailsVersion, ParseResults
<1>3. GoesOn(w)
  BY <1>1, MovesOn DEF MarkFailure
<1>4. Known' = Known
  BY <1>2 DEF Known
<1>5. /\ task' \in [Versions -> JobStates]
      /\ item' \in [Versions -> JobStates]
      /\ task'[v] = "failed"
      /\ \A x \in Versions \ {v} : task'[x] = task[x] /\ item'[x] = item[x]
  <2>1. Unless("completed", item[v], "failed") \in JobStates
    BY <1>1 DEF Unless, TypeOK, JobStates
  <2> QED BY <1>1, <2>1 DEF MarkFailure, TypeOK, JobStates
<1>6. UNCHANGED <<document, profiles, artifacts, outbox, queue, lost, user, trouble>>
  BY DEF MarkFailure
<1> HIDE DEF v
<1>7. TypeOK'
  BY <1>2, <1>3, <1>5, <1>6 DEF TypeOK, GoesOn, WorkerRows, VersionRows
<1>8. KnownInv'
  BY <1>1, <1>3, <1>4, <1>5, <1>6 DEF KnownInv, GoesOn
<1>9. ArtifactsInv'
  BY <1>1, <1>2, <1>6 DEF ArtifactsInv, Holds
<1>10. TaskTellsVersion'
  BY <1>1, <1>2, <1>5 DEF TaskTellsVersion
<1> QED BY <1>7, <1>8, <1>9, <1>10

\* A version is parsed under one profile: some artifact has the state of the result
\* afterwards, and what is cited is still there.
LEMMA ReplacedFacts ==
  ASSUME NEW old \in Seq(ArtifactRows), NEW p \in Nat, NEW result \in ParseResults
  PROVE  /\ Replaced(old, p, result) \in Seq(ArtifactRows)
         /\ \E i \in DOMAIN Replaced(old, p, result) :
                Replaced(old, p, result)[i].state = ArtifactState(result)
         /\ ~Blocked(old, p) => \A i \in DOMAIN old :
                old[i].cited => i \in DOMAIN Replaced(old, p, result)
                                /\ Replaced(old, p, result)[i] = old[i]
<1> DEFINE s == ArtifactState(result)
           fresh == [profile |-> p, state |-> s, gen |-> 1, cited |-> FALSE]
           swept == [i \in DOMAIN old |-> IF old[i].profile = p
                        THEN [profile |-> p, state |-> s, gen |-> old[i].gen + 1, cited |-> FALSE]
                        ELSE old[i]]
<1>1. s \in ArtifactStates
  BY DEF ArtifactState, ArtifactStates
<1>2. \A i \in DOMAIN old : old[i] \in ArtifactRows
  OBVIOUS
<1> HIDE DEF s
<1>3. fresh \in ArtifactRows /\ fresh.state = s
  BY <1>1 DEF ArtifactRows
<1>4. CASE \E i \in DOMAIN old : old[i].profile = p
  <2>1. Replaced(old, p, result) = swept
    BY <1>4 DEF Replaced, s
  <2>2. /\ \A i \in DOMAIN old : swept[i] \in ArtifactRows
        /\ \E i \in DOMAIN old : swept[i].state = s
    BY <1>1, <1>2, <1>4 DEF ArtifactRows
  <2>3. swept \in Seq(ArtifactRows) /\ DOMAIN swept = DOMAIN old
    <3>1. DOMAIN old = 1..Len(old) /\ Len(old) \in Nat
      OBVIOUS
    <3>2. swept \in [1..Len(old) -> ArtifactRows]
      BY <2>2, <3>1
    <3>3. swept \in Seq(ArtifactRows)
      BY <3>1, <3>2, SeqDef
    <3> QED BY <3>1, <3>3
  <2>4. ~Blocked(old, p) => \A i \in DOMAIN old : old[i].cited => swept[i] = old[i]
    BY DEF Blocked
  <2> HIDE DEF swept
  <2> QED BY <2>1, <2>2, <2>3, <2>4 DEF s
<1>5. CASE ~\E i \in DOMAIN old : old[i].profile = p
  <2>1. Replaced(old, p, result) = Append(old, fresh)
    BY <1>5 DEF Replaced, s
  <2> HIDE DEF fresh
  <2> QED BY <1>3, <2>1 DEF s
<1> QED BY <1>4, <1>5

LEMMA FinishStep ==
  ASSUME Inv, NEW w \in Workers, FinishParse(w)
  PROVE  /\ Inv'
         /\ \A v \in Versions : \A i \in DOMAIN artifacts[v] :
                artifacts[v][i].cited => artifacts'[v][i] = artifacts[v][i]
<1> DEFINE v == worker[w].task
           result == worker[w].result
<1> USE DEF Inv
<1>1. v \in Known /\ v \in Versions /\ worker[w].step # "idle"
  BY WorkerFacts DEF FinishParse
<1>2. PICK p \in Nat :
        /\ UsesProfile(w, p)
        /\ ~Blocked(artifacts[v], p)
        /\ artifacts' = [artifacts EXCEPT ![v] = Replaced(@, p, result)]
  <2>1. 1..(Len(profiles) + 1) \subseteq Nat
    BY DEF TypeOK
  <2> QED BY <2>1 DEF FinishParse
<1>3. /\ result \in ParseResults
      /\ artifacts[v] \in Seq(ArtifactRows)
  BY <1>1 DEF TypeOK, ArtifactRows
<1> DEFINE new == Replaced(artifacts[v], p, result)
<1>4. /\ new \in Seq(ArtifactRows)
      /\ \E i \in DOMAIN new : new[i].state = ArtifactState(result)
      /\ \A i \in DOMAIN artifacts[v] :
            artifacts[v][i].cited => i \in DOMAIN new /\ new[i] = artifacts[v][i]
  BY <1>2, <1>3, ReplacedFacts
<1>5. /\ artifacts' \in [Versions -> Seq(ArtifactRows)]
      /\ artifacts'[v] = new
      /\ \A x \in Versions \ {v} : artifacts'[x] = artifacts[x]
  <2>1. artifacts \in [Versions -> Seq(ArtifactRows)]
    BY DEF TypeOK, ArtifactRows
  <2>2. artifacts' = [artifacts EXCEPT ![v] = new]
    BY <1>2
  <2> HIDE DEF new
  <2> QED BY <1>1, <1>4, <2>1, <2>2
<1>6. /\ version' \in [Versions -> VersionRows]
      /\ \A x \in Versions : version'[x].doc = version[x].doc
      /\ \A x \in Versions \ {v} : version'[x] = version[x]
      /\ version'[v].parse = result
  <2>1. version \in [Versions -> VersionRows]
    BY DEF TypeOK, VersionRows
  <2> QED BY <1>1, <1>3, <2>1 DEF FinishParse, VersionRows
<1>7. /\ task' \in [Versions -> JobStates]
      /\ item' \in [Versions -> JobStates]
      /\ task'[v] = IF result = "failed" THEN "failed" ELSE Completes(task[v])
      /\ item'[v] = IF result = "failed" THEN "failed" ELSE Completes(item[v])
      /\ \A x \in Versions \ {v} : task'[x] = task[x] /\ item'[x] = item[x]
  BY <1>1 DEF FinishParse, TypeOK, JobStates, Completes
<1>8. /\ UNCHANGED <<document, outbox, queue, lost, user, trouble>>
      /\ profiles' \in Seq({"default", "custom"})
  <2>1. profiles \in Seq({"default", "custom"})
    BY DEF TypeOK
  <2>2. profiles' = profiles \/ profiles' = Append(profiles, "default")
    BY <1>2 DEF UsesProfile
  <2>3. profiles' \in Seq({"default", "custom"})
    BY <2>1, <2>2
  <2> QED BY <2>3 DEF FinishParse
<1>9. GoesOn(w)
  BY <1>1, MovesOn DEF FinishParse
<1>10. Known' = Known
  BY <1>6 DEF Known
<1> HIDE DEF v, result, new
<1>11. TypeOK'
  BY <1>5, <1>6, <1>7, <1>8, <1>9 DEF TypeOK, GoesOn, WorkerRows, VersionRows, ArtifactRows
<1>12. KnownInv'
  BY <1>1, <1>7, <1>8, <1>9, <1>10 DEF KnownInv, GoesOn
<1>13. ArtifactsInv'
  <2> SUFFICES ASSUME NEW x \in Versions, NEW r \in {"complete", "partial"}, version'[x].parse = r
               PROVE  \E i \in DOMAIN artifacts'[x] : artifacts'[x][i].state = ArtifactState(r)
    BY DEF ArtifactsInv, Holds
  <2>1. CASE x = v
    BY <1>4, <1>5, <1>6, <2>1
  <2>2. CASE x # v
    BY <1>5, <1>6, <2>2 DEF ArtifactsInv, Holds
  <2> QED BY <2>1, <2>2
<1>14. TaskTellsVersion'
  BY <1>1, <1>3, <1>6, <1>7 DEF TaskTellsVersion, Completes, ParseResults
<1>15. \A x \in Versions : \A i \in DOMAIN artifacts[x] :
            artifacts[x][i].cited => artifacts'[x][i] = artifacts[x][i]
  BY <1>4, <1>5
<1> QED BY <1>11, <1>12, <1>13, <1>14, <1>15

-----------------------------------------------------------------------------
\* Every step keeps the invariant.
LEMMA NextInv == Inv /\ [Next]_vars => Inv'
<1> SUFFICES ASSUME Inv, [Next]_vars PROVE Inv'
  OBVIOUS
<1>1. CASE UNCHANGED vars
  <2>1. TypeOK' /\ KnownInv'
    BY <1>1 DEF vars, content, tasks, jobs, Inv, TypeOK, KnownInv, Known
  <2> QED BY <1>1, <2>1, ArtifactsStay, TellStays DEF vars, content, tasks, Inv
<1>2. ASSUME NEW u \in Users, Request(u) PROVE Inv'
  BY <1>2, FindStep, InsertStep, RequestEnds, ReadStep, RequeueStep, CancelStep DEF Request
<1>3. ASSUME NEW d \in Versions, DeleteDocument(d) PROVE Inv'
  BY <1>3, DeleteStep
<1>4. CASE CreateProfile
  BY <1>4, ProfileStep
<1>5. ASSUME NEW v \in Versions, NEW i \in DOMAIN artifacts[v], Cite(v, i) PROVE Inv'
  BY <1>5, CiteStep
<1>6. CASE Dispatch \/ SendFails \/ DispatcherDies
  BY <1>6, DispatcherStep
<1>7. ASSUME NEW w \in Workers, NEW v \in Versions, Deliver(w, v) PROVE Inv'
  BY <1>7, StartStep, NothingStep DEF Deliver
<1>8. ASSUME NEW w \in Workers, Work(w) PROVE Inv'
  BY <1>8, AsideStep, FinishStep, FailureStep DEF Work
<1>9. ASSUME NEW w \in Workers, Redeliver(w) \/ Raise(w) \/ WriteBackFails(w) \/ Crash(w) PROVE Inv'
  BY <1>9, AsideStep
<1> QED BY <1>1, <1>2, <1>3, <1>4, <1>5, <1>6, <1>7, <1>8, <1>9 DEF Next

LEMMA SpecInv == Spec => []Inv
  BY InitInv, NextInv, PTL DEF Spec

\* TypeOK: every state has the types that the tables declare.
THEOREM TypeCorrect == Spec => []TypeOK
<1>1. Inv => TypeOK
  BY DEF Inv
<1> QED BY <1>1, SpecInv, PTL

\* TaskTellsVersion: overlapping executions, stale requests and failures never
\* let a task report what its version does not.
THEOREM TaskIsTrue == Spec => []TaskTellsVersion
<1>1. Inv => TaskTellsVersion
  BY DEF Inv
<1> QED BY <1>1, SpecInv, PTL

\* ResultHasItsArtifact: the result of a version is that of one of its artifacts,
\* however its executions differ and in whatever order, and under whatever
\* profiles, they commit.
THEOREM ResultIsStored == Spec => []ResultHasItsArtifact
<1>1. Inv => ResultHasItsArtifact
  BY DEF Inv, ArtifactsInv, Holds, ArtifactState, ResultHasItsArtifact
<1> QED BY <1>1, SpecInv, PTL

\* EvidenceKept: no step changes an artifact whose chunks somebody refers to.
THEOREM EvidenceStays == Spec => EvidenceKept
<1>1. ASSUME Inv, [Next]_vars
      PROVE  \A v \in Versions : \A i \in DOMAIN artifacts[v] :
                artifacts[v][i].cited => artifacts'[v][i] = artifacts[v][i]
  <2>1. CASE UNCHANGED artifacts
    BY <2>1
  <2>2. ASSUME NEW v \in Versions, NEW i \in DOMAIN artifacts[v], Cite(v, i)
        PROVE  \A x \in Versions : \A j \in DOMAIN artifacts[x] :
                  artifacts[x][j].cited => artifacts'[x][j] = artifacts[x][j]
    BY <1>1, <2>2 DEF Cite, Inv, TypeOK
  <2>3. ASSUME NEW w \in Workers, FinishParse(w)
        PROVE  \A x \in Versions : \A j \in DOMAIN artifacts[x] :
                  artifacts[x][j].cited => artifacts'[x][j] = artifacts[x][j]
    BY <1>1, <2>3, FinishStep
  <2>4. \/ UNCHANGED artifacts
        \/ \E v \in Versions : \E i \in DOMAIN artifacts[v] : Cite(v, i)
        \/ \E w \in Workers : FinishParse(w)
    <3>1. ASSUME NEW u \in Users, Request(u) PROVE UNCHANGED artifacts
      BY <3>1 DEF Request, FindDocument, InsertVersion, ReadForReparse, ReadForRetry, ReadForCancel,
                  Read, Requeue, CancelTask, CancelItem, LoseRequest, content
    <3>2. ASSUME NEW d \in Versions, DeleteDocument(d) PROVE UNCHANGED artifacts
      BY <3>2 DEF DeleteDocument
    <3>3. CASE CreateProfile \/ Dispatch \/ SendFails \/ DispatcherDies \/ UNCHANGED vars
      BY <3>3 DEF CreateProfile, Dispatch, SendFails, DispatcherDies, vars, content
    <3>4. ASSUME NEW w \in Workers, NEW v \in Versions, Deliver(w, v) PROVE UNCHANGED artifacts
      BY <3>4 DEF Deliver, Start, StartNothing, StartRaises, ConnectFails, content
    <3>5. ASSUME NEW w \in Workers, Work(w) PROVE UNCHANGED artifacts \/ FinishParse(w)
      BY <3>5 DEF Work, ParseFile, WriteRefused, MarkFailure, content
    <3>6. ASSUME NEW w \in Workers, Redeliver(w) \/ Raise(w) \/ WriteBackFails(w) \/ Crash(w)
          PROVE  UNCHANGED artifacts
      BY <3>6 DEF Redeliver, Raise, WriteBackFails, Crash, content
    <3> QED BY <1>1, <3>1, <3>2, <3>3, <3>4, <3>5, <3>6 DEF Next
  <2> QED BY <2>1, <2>2, <2>3, <2>4
<1>2. Inv /\ [Next]_vars => [\A v \in Versions : \A i \in DOMAIN artifacts[v] :
                artifacts[v][i].cited => artifacts'[v][i] = artifacts[v][i]]_vars
  BY <1>1
<1> QED BY <1>2, SpecInv, PTL DEF Spec, EvidenceKept

-----------------------------------------------------------------------------
(* Work is not lost. *)

Due(v) == task[v] \in {"queued", "running"}
Cared(v) == Announced(v) \/ queue[v] > 0 \/ AtWork(v) \/ v \in lost

\* A step keeps the work that is due if it looks after all that is due
\* afterwards: newly, or because it was looked after and still is.
LEMMA WorkKept ==
  ASSUME NoLostWork,
         \A v \in Versions : Due(v)' => Cared(v)' \/ (Due(v) /\ (Cared(v) => Cared(v)'))
  PROVE  NoLostWork'
BY DEF NoLostWork, Due, Cared

\* No task becomes due, and whoever looks after one goes on.
LEMMA WorkStays ==
  ASSUME NoLostWork, UNCHANGED <<task, outbox>>,
         \A v \in Versions : queue[v] > 0 => queue'[v] > 0,
         \A w \in Workers : worker[w].step # "idle"
             => worker'[w].step # "idle" /\ worker'[w].task = worker[w].task,
         lost \subseteq lost'
  PROVE  NoLostWork'
<1>1. \A v \in Versions : (Due(v)' <=> Due(v)) /\ (Cared(v) => Cared(v)')
  BY DEF Due, Cared, Announced, AtWork
<1> QED BY <1>1, WorkKept

\* Requests about documents, and those that only read, touch neither tasks nor jobs.
LEMMA WorkUntouched == NoLostWork /\ UNCHANGED <<task, jobs>> => NoLostWork'
  BY DEF NoLostWork, Announced, AtWork, jobs

\* A task is queued together with its event.
LEMMA WorkAdded ==
  ASSUME TypeOK, NoLostWork, NEW v \in Versions, AddEvent(v),
         task' = [task EXCEPT ![v] = "queued"], UNCHANGED <<queue, worker>>
  PROVE  NoLostWork'
<1> DEFINE x == Event(v)
<1>1. /\ x.task = v
      /\ x.state = "pending"
      /\ outbox' = Append(outbox, x)
      /\ lost' = lost \ {v}
  BY DEF AddEvent, Event
<1> HIDE DEF x
<1>2. /\ DOMAIN outbox = 1..Len(outbox)
      /\ Len(outbox) \in Nat
      /\ DOMAIN outbox' = 1..(Len(outbox) + 1)
      /\ outbox'[Len(outbox) + 1] = x
      /\ \A e \in DOMAIN outbox : outbox'[e] = outbox[e]
  <2>1. outbox \in Seq(EventRows)
    BY DEF TypeOK, EventRows
  <2> QED BY <1>1, <2>1
<1>3. Announced(v)'
  <2>1. Len(outbox) + 1 \in DOMAIN outbox'
    BY <1>2
  <2> QED BY <1>1, <1>2, <2>1 DEF Announced
<1>4. ASSUME NEW c \in Versions, c # v
      PROVE  (Due(c)' <=> Due(c)) /\ (Cared(c) => Cared(c)')
  <2>1. Announced(c) => Announced(c)'
    <3> SUFFICES ASSUME NEW e \in DOMAIN outbox, outbox[e].state = "pending", outbox[e].task = c
                 PROVE  Announced(c)'
      BY DEF Announced
    <3>1. e \in DOMAIN outbox' /\ outbox'[e] = outbox[e]
      BY <1>2
    <3> QED BY <3>1 DEF Announced
  <2> QED BY <1>1, <1>4, <2>1 DEF Due, Cared, AtWork, TypeOK
<1> QED BY <1>3, <1>4, WorkKept DEF Cared

\* A worker drops a task that is over then, or in the queue, or lost.
LEMMA WorkDropped ==
  ASSUME TypeOK, NoLostWork, NEW w \in Workers, NEW v \in Versions, worker[w].task = v, Returns(w),
         UNCHANGED outbox,
         \A c \in Versions : c # v => task'[c] = task[c] /\ queue'[c] = queue[c],
         lost \subseteq lost',
         ~Due(v)' \/ queue'[v] > 0 \/ v \in lost'
  PROVE  NoLostWork'
<1>1. \A c \in Versions : c # v /\ AtWork(c) => AtWork(c)'
  BY DEF AtWork, Returns, TypeOK
<1>2. \A c \in Versions : Announced(c) => Announced(c)'
  BY DEF Announced
<1>3. \A c \in Versions : c # v => (Due(c)' <=> Due(c)) /\ (Cared(c) => Cared(c)')
  BY <1>1, <1>2 DEF Due, Cared
<1>4. Due(v)' => Cared(v)'
  BY DEF Cared
<1> QED BY <1>3, <1>4, WorkKept

LEMMA WorkRequested ==
  ASSUME Inv, NoLostWork, NEW u \in Users, Request(u)
  PROVE  NoLostWork'
<1>1. ASSUME NEW t \in Titles, FindDocument(u, t) PROVE NoLostWork'
  BY <1>1, WorkUntouched DEF FindDocument, tasks
<1>2. ASSUME NEW v \in Versions, ReadForReparse(u, v) \/ ReadForRetry(u, v) \/ ReadForCancel(u, v)
      PROVE  NoLostWork'
  BY <1>2, WorkUntouched DEF ReadForReparse, ReadForRetry, ReadForCancel, Read, tasks
<1>3. CASE LoseRequest(u)
  BY <1>3, WorkUntouched DEF LoseRequest, tasks
<1>4. CASE CancelItem(u)
  BY <1>4, WorkUntouched DEF CancelItem
<1>5. CASE CancelTask(u)
  <2>1. \A v \in Versions : (Due(v)' => Due(v)) /\ (Cared(v) => Cared(v)')
    BY <1>5 DEF CancelTask, jobs, Due, Cared, Announced, AtWork, Inv, TypeOK
  <2> QED BY <2>1, WorkKept
<1>6. CASE InsertVersion(u)
  <2>1. PICK v \in Unused : /\ task' = [task EXCEPT ![v] = "queued"]
                            /\ AddEvent(v)
                            /\ UNCHANGED <<queue, worker>>
    BY <1>6 DEF InsertVersion
  <2> QED BY <2>1, WorkAdded DEF Inv, Unused
<1>7. CASE Requeue(u)
  <2>1. user[u].task \in Versions
    BY <1>7 DEF Requeue, Inv, KnownInv, Known
  <2> QED BY <1>7, <2>1, WorkAdded DEF Requeue, Inv
<1> QED BY <1>1, <1>2, <1>3, <1>4, <1>5, <1>6, <1>7 DEF Request

LEMMA WorkDispatched ==
  ASSUME Inv, NoLostWork, Dispatch \/ SendFails \/ DispatcherDies
  PROVE  NoLostWork'
<1>0. queue \in [Versions -> Nat] /\ \A e \in DOMAIN outbox : outbox[e].task \in Versions
  BY DEF Inv, TypeOK, KnownInv, Known
<1> SUFFICES ASSUME NEW v \in Versions
             PROVE  (Due(v)' <=> Due(v)) /\ (Cared(v) => Cared(v)')
  BY WorkKept
<1>1. CASE Dispatch
  <2> PICK e \in DOMAIN outbox :
        /\ outbox' = [outbox EXCEPT ![e].state = "sent", ![e].attempt = @ + 1]
        /\ queue' = [queue EXCEPT ![outbox[e].task] = @ + 1]
        /\ UNCHANGED <<tasks, worker, lost>>
    BY <1>1 DEF Dispatch
  <2>1. DOMAIN outbox' = DOMAIN outbox /\ \A f \in DOMAIN outbox : f # e => outbox'[f] = outbox[f]
    OBVIOUS
  <2>2. queue'[outbox[e].task] > 0 /\ \A c \in Versions : queue[c] > 0 => queue'[c] > 0
    BY <1>0
  <2>3. Announced(v) => Announced(v)' \/ queue'[v] > 0
    BY <2>1, <2>2 DEF Announced
  <2> QED BY <2>2, <2>3 DEF Due, Cared, AtWork, tasks
<1>2. CASE SendFails
  <2> PICK e \in DOMAIN outbox :
        LET last == outbox[e].attempt + 1 >= MaxAttempts IN
        /\ outbox' = [outbox EXCEPT ![e].attempt = @ + 1,
                                    ![e].state = IF last THEN "failed" ELSE "pending"]
        /\ lost' = IF last THEN lost \cup {outbox[e].task} ELSE lost
        /\ UNCHANGED <<tasks, queue, worker>>
    BY <1>2 DEF SendFails
  <2>0. outbox[e] \in EventRows
    <3>1. outbox \in Seq(EventRows)
      BY DEF Inv, TypeOK, EventRows
    <3> QED BY <3>1
  <2>1. /\ DOMAIN outbox' = DOMAIN outbox
        /\ \A f \in DOMAIN outbox : f # e => outbox'[f] = outbox[f]
        /\ outbox'[e].task = outbox[e].task
        /\ outbox'[e].state = "pending" \/ outbox[e].task \in lost'
    BY <2>0 DEF EventRows
  <2>2. Announced(v) => Announced(v)' \/ v \in lost'
    BY <2>1 DEF Announced
  <2> QED BY <2>2 DEF Due, Cared, AtWork, tasks
<1>3. CASE DispatcherDies
  <2>1. \A c \in Versions : queue[c] > 0 => queue'[c] > 0
    BY <1>0, <1>3 DEF DispatcherDies
  <2> QED BY <1>3, <2>1 DEF DispatcherDies, Due, Cared, Announced, AtWork, tasks
<1> QED BY <1>1, <1>2, <1>3

LEMMA WorkDelivered ==
  ASSUME Inv, NoLostWork, NEW w \in Workers, NEW v \in Versions, Deliver(w, v)
  PROVE  NoLostWork'
<1>0. /\ worker[w].step = "idle"
      /\ UNCHANGED outbox
      /\ lost \subseteq lost'
      /\ \A c \in Versions : c # v => task'[c] = task[c] /\ queue'[c] = queue[c]
  BY DEF Deliver, Start, StartNothing, StartRaises, ConnectFails, Takes, tasks, Inv, TypeOK
<1>1. \A x \in Workers : x # w => worker'[x] = worker[x]
  BY DEF Deliver, Start, StartNothing, StartRaises, ConnectFails, TakesUp, Inv, TypeOK
<1>2. \A c \in Versions : c # v => (Due(c)' <=> Due(c)) /\ (Cared(c) => Cared(c)')
  BY <1>0, <1>1 DEF Due, Cared, Announced, AtWork
<1>3. Due(v)' => Cared(v)'
  <2>1. CASE Start(w, v)
    <3>1. worker'[w].step # "idle" /\ worker'[w].task = v
      BY <2>1 DEF Start, TakesUp, Idle, Inv, TypeOK
    <3> QED BY <3>1 DEF Cared, AtWork
  <2>2. CASE StartNothing(w, v)
    BY <2>2 DEF StartNothing, Over, Due, tasks
  <2>3. CASE ConnectFails(w, v)
    BY <2>3 DEF ConnectFails, Cared
  <2>4. CASE StartRaises(w, v)
    <3>1. worker'[w].step # "idle" /\ worker'[w].task = v
      BY <2>4 DEF StartRaises, TakesUp, Idle, Inv, TypeOK
    <3> QED BY <3>1 DEF Cared, AtWork
  <2> QED BY <2>1, <2>2, <2>3, <2>4 DEF Deliver
<1> QED BY <1>2, <1>3, WorkKept

LEMMA WorkDone ==
  ASSUME Inv, NoLostWork, NEW w \in Workers,
         Work(w) \/ Redeliver(w) \/ Raise(w) \/ WriteBackFails(w) \/ Crash(w)
  PROVE  NoLostWork'
<1> PICK v \in Versions : v = worker[w].task
  BY WorkerFacts DEF Work, ParseFile, FinishParse, WriteRefused, MarkFailure,
                     Redeliver, Raise, WriteBackFails, Crash
<1>0. TypeOK /\ queue \in [Versions -> Nat] /\ worker \in [Workers -> WorkerRows]
  BY WorkerFacts DEF Inv
<1>1. CASE ParseFile(w) \/ WriteRefused(w) \/ Raise(w)
  <2>1. UNCHANGED <<task, outbox, queue, lost>>
    BY <1>1 DEF ParseFile, WriteRefused, Raise, tasks
  <2>2. \A x \in Workers : worker[x].step # "idle"
            => worker'[x].step # "idle" /\ worker'[x].task = worker[x].task
    <3>1. CASE ParseFile(w)
      BY <1>0, <3>1 DEF ParseFile, WorkerRows
    <3>2. CASE TakesUp(w, worker[w].task, "failing")
      BY <1>0, <3>2 DEF TakesUp, Idle, WorkerRows
    <3> QED BY <1>1, <3>1, <3>2 DEF WriteRefused, Raise
  <2> QED BY <2>1, <2>2, WorkStays
<1>2. CASE Redeliver(w)
  BY <1>0, <1>2, WorkStays DEF Redeliver, tasks
<1>3. CASE FinishParse(w)
  <2>1. ~Due(v)'
    BY <1>0, <1>3 DEF FinishParse, Due, Completes, TypeOK
  <2> QED BY <1>0, <1>3, <2>1, WorkDropped DEF FinishParse, TypeOK
<1>4. CASE MarkFailure(w)
  <2>1. ~Due(v)'
    BY <1>0, <1>4 DEF MarkFailure, Due, TypeOK
  <2> QED BY <1>0, <1>4, <2>1, WorkDropped DEF MarkFailure, TypeOK
<1>5. CASE WriteBackFails(w)
  BY <1>0, <1>5, WorkDropped DEF WriteBackFails, tasks
<1>6. CASE Crash(w)
  <2>1. queue'[v] > 0 /\ \A c \in Versions : c # v => queue'[c] = queue[c]
    BY <1>0, <1>6 DEF Crash, PutsBack
  <2> QED BY <1>0, <1>6, <2>1, WorkDropped DEF Crash, tasks
<1> QED BY <1>1, <1>2, <1>3, <1>4, <1>5, <1>6 DEF Work

\* NoLostWork: a parse that waits or runs has an event, a message or a worker,
\* or is known to be lost, whatever requests, workers and failures do to it.
THEOREM WorkIsKept == Spec => []NoLostWork
<1>1. Init => NoLostWork
  BY DEF Init, NoLostWork
<1>2. Inv /\ NoLostWork /\ [Next]_vars => NoLostWork'
  <2> SUFFICES ASSUME Inv, NoLostWork, [Next]_vars PROVE NoLostWork'
    OBVIOUS
  <2>1. CASE UNCHANGED vars
    BY <2>1, WorkUntouched DEF vars, tasks
  <2>2. ASSUME NEW d \in Versions, DeleteDocument(d) PROVE NoLostWork'
    BY <2>2, WorkUntouched DEF DeleteDocument, tasks
  <2>3. CASE CreateProfile
    BY <2>3, WorkUntouched DEF CreateProfile, tasks
  <2>4. ASSUME NEW v \in Versions, NEW i \in DOMAIN artifacts[v], Cite(v, i) PROVE NoLostWork'
    BY <2>4, WorkUntouched DEF Cite, tasks
  <2> QED BY <2>1, <2>2, <2>3, <2>4, WorkRequested, WorkDispatched, WorkDelivered, WorkDone DEF Next
<1> QED BY <1>1, <1>2, SpecInv, PTL DEF Spec
=============================================================================
