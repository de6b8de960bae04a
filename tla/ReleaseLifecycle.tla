-------------------------- MODULE ReleaseLifecycle --------------------------
(***************************************************************************)
(* What a knowledge base serves: documents and their versions, the parse   *)
(* artifacts, the builds frozen from them and the releases published from  *)
(* builds (api/lifecycle_routes.py, api/knowledge_routes.py, main.py       *)
(* _load_release_preview, rag/releases.py).                                *)
(*                                                                         *)
(* publish_build, rollback_release and create_build hold the lock on the   *)
(* knowledge base row for their whole transaction, and every change of the *)
(* documents updates that row (content_epoch), so each of them is one step.*)
(* A parse that commits while such a transaction is open changes no row the*)
(* transaction writes: it is put after it.                                 *)
(* What an operator saw before the transaction is a step of its own.  The  *)
(* execution of builds and of parse tasks is reduced to its outcomes here; *)
(* IndexBuild has the former in full, and every step of it is one of these.*)
(***************************************************************************)
EXTENDS Naturals

CONSTANTS
    Docs,        \* logical documents
    MaxVersion,  \* bound: uploads of a document
    Builds,      \* index builds
    NoBuild,     \* what a release is made of before it exists
    Releases,    \* kb_releases.id, allocated in increasing order
    Sessions,    \* operators at the release page
    MaxGen,      \* bound: parses of a version that store chunks; with the last one
                 \* the version is left alone
    MaxEpoch     \* bound: changes of the content

Versions == 1..MaxVersion
NoVersion == 0
NoRelease == 0

ASSUME VersionsAssumption == MaxVersion \in Nat
ASSUME BuildsAssumption == NoBuild \notin Builds
ASSUME ReleasesAssumption == Releases \subseteq Nat \ {NoRelease}
ASSUME LimitsAssumption == MaxGen \in Nat /\ MaxEpoch \in Nat

VARIABLES
    epoch,     \* knowledge_bases.content_epoch
    active,    \* knowledge_bases.active_release_id
    status,    \* documents.status
    desired,   \* documents.desired_version_id
    parse,     \* document_versions.parse_status ("partial" counts as failed)
    artifact,  \* document_artifacts: its state, which parse its chunks stem
               \* from, and whether all these chunks are embedded
    build,     \* index_builds and build_items
    release,   \* kb_releases and release_items, and the chunks they were made of
    session    \* what each operator has read

documents == <<epoch, status, desired>>
parses == <<parse, artifact>>
vars == <<epoch, active, status, desired, parse, artifact, build, release, session>>

Manifest == [Docs -> Versions \cup {NoVersion}]  \* NoVersion: not in the manifest
Content == [Docs -> Nat]

TypeOK ==
    /\ epoch \in Nat
    /\ active \in Releases \cup {NoRelease}
    /\ status \in [Docs -> {"absent", "active", "disabled", "deleted"}]
    /\ desired \in Manifest
    /\ parse \in [Docs -> [Versions -> {"none", "queued", "processing", "complete", "failed"}]]
    /\ artifact \in [Docs -> [Versions -> [state : {"none", "ready", "failed"},
                                           gen : Nat, embedded : BOOLEAN]]]
    /\ build \in [Builds -> [state : {"none", "pending", "ready", "failed"},
                             epoch : Nat, items : Manifest]]
    /\ release \in [Releases -> [state : {"none", "ready", "retired"}, build : Builds \cup {NoBuild},
                                 items : Manifest, content : Content]]
    /\ session \in [Sessions -> [step : {"idle", "viewing", "targeted"},
                                 seen : Releases \cup {NoRelease},
                                 target : Releases \cup {NoRelease},
                                 state : {"none", "ready", "retired"}]]

Nothing == [d \in Docs |-> NoVersion]
Away == [step |-> "idle", seen |-> NoRelease, target |-> NoRelease, state |-> "none"]

Init ==
    /\ epoch = 0
    /\ active = NoRelease
    /\ status = [d \in Docs |-> "absent"]
    /\ desired = Nothing
    /\ parse = [d \in Docs |-> [v \in Versions |-> "none"]]
    /\ artifact = [d \in Docs |-> [v \in Versions |->
                        [state |-> "none", gen |-> 0, embedded |-> FALSE]]]
    /\ build = [b \in Builds |-> [state |-> "none", epoch |-> 0, items |-> Nothing]]
    /\ release = [r \in Releases |-> [state |-> "none", build |-> NoBuild, items |-> Nothing,
                                       content |-> [d \in Docs |-> 0]]]
    /\ session = [s \in Sessions |-> Away]

(* An operator marked DEFECT differs from the one after it as a slip in the code
   would.  No specification uses it: the properties are tried out by putting it
   in that operator's place. *)

-----------------------------------------------------------------------------
(* Documents. *)

\* DEFECT: the content changes and its epoch does not.
ChangesSilently == epoch' = epoch
\* Every change of the documents moves content_epoch on.
ChangesContent == epoch < MaxEpoch /\ epoch' = epoch + 1

\* upload_document: the next version of a document that is not deleted; a title
\* that is not known yet makes a new, active, document.
Upload(d) ==
    LET v == desired[d] + 1 IN
    /\ status[d] # "deleted"
    /\ v \in Versions
    /\ ChangesContent
    /\ status' = [status EXCEPT ![d] = IF @ = "absent" THEN "active" ELSE @]
    /\ desired' = [desired EXCEPT ![d] = v]
    /\ parse' = [parse EXCEPT ![d][v] = "queued"]
    /\ UNCHANGED <<active, artifact, build, release, session>>

\* disable_document and delete_document check the status before their
\* transaction: a request overtaken by another one changes only the epoch.
Disable(d) ==
    /\ status[d] # "absent"
    /\ ChangesContent
    /\ status' = [status EXCEPT ![d] = IF @ = "active" THEN "disabled" ELSE @]
    /\ UNCHANGED <<active, desired, parses, build, release, session>>

Delete(d) ==
    /\ status[d] # "absent"
    /\ ChangesContent
    /\ status' = [status EXCEPT ![d] = "deleted"]
    /\ UNCHANGED <<active, desired, parses, build, release, session>>

\* A parse task of a version is taken up: the one of the upload, a retry, or
\* reparse_document, which asks neither for the status nor for the epoch.
StartParse(d, v) ==
    /\ parse[d][v] \in {"queued", "complete", "failed"}
    /\ artifact[d][v].gen < MaxGen
    /\ parse' = [parse EXCEPT ![d][v] = "processing"]
    /\ UNCHANGED <<documents, active, artifact, build, release, session>>

\* The chunks of the artifact are replaced, their embeddings go with them; a failed
\* parse may leave no chunks, of which all are embedded.  A second execution of the
\* task may do so when the first one has given the version a result.
FinishParse(d, v) ==
    /\ parse[d][v] \in {"processing", "complete", "failed"}
    /\ artifact[d][v].gen < MaxGen
    /\ \E ok, none \in BOOLEAN :
          /\ parse' = [parse EXCEPT ![d][v] = IF ok THEN "complete" ELSE "failed"]
          /\ artifact' = [artifact EXCEPT ![d][v] =
                [state |-> IF ok THEN "ready" ELSE "failed", gen |-> @.gen + 1,
                 embedded |-> ~ok /\ none]]
    /\ UNCHANGED <<documents, active, build, release, session>>

\* An exception in any execution of the task, whose handler looks at nothing: the
\* artifact and its chunks stay as they were.
AbortParse(d, v) ==
    /\ parse[d][v] # "none"
    /\ artifact[d][v].gen < MaxGen
    /\ parse' = [parse EXCEPT ![d][v] = "failed"]
    /\ UNCHANGED <<documents, active, artifact, build, release, session>>

-----------------------------------------------------------------------------
(* Builds.  Late workers and stale requests make every move between the three
   states possible; module IndexBuild shows how. *)

\* The manifest of the documents as they are: the desired version of each active one.
Current == [d \in Docs |-> IF status[d] = "active" THEN desired[d] ELSE NoVersion]

\* A version whose chunks can be served.
Usable(d, v) == parse[d][v] = "complete" /\ artifact[d][v].state = "ready"
Contains(m) == {d \in Docs : m[d] # NoVersion}

CreateBuild(b) ==
    /\ build[b].state = "none"
    /\ \A c \in Builds : build[c].state # "pending"
    /\ \A c \in Builds : build[c].state # "none" => build[c].epoch # epoch
    /\ Contains(Current) # {}
    /\ \A d \in Contains(Current) : Usable(d, desired[d])
    /\ build' = [build EXCEPT ![b] = [state |-> "pending", epoch |-> epoch, items |-> Current]]
    /\ UNCHANGED <<documents, active, parses, release, session>>

\* A worker stores the last vectors of an item, in whatever state its build is now.
Embed(d, v) ==
    /\ \E b \in Builds : build[b].state # "none" /\ build[b].items[d] = v
    /\ artifact' = [artifact EXCEPT ![d][v].embedded = TRUE]
    /\ UNCHANGED <<documents, active, parse, build, release, session>>

\* DEFECT: an inner join, which counts only what is embedded.
EmbeddedOnly(b) == TRUE
\* Of the chunks that the items have now, all are embedded.
Embedded(b) == \A d \in Contains(build[b].items) : artifact[d][build[b].items[d]].embedded

FinishBuild(b) ==
    /\ build[b].state \in {"pending", "failed"}
    /\ Embedded(b)
    /\ build' = [build EXCEPT ![b].state = "ready"]
    /\ UNCHANGED <<documents, active, parses, release, session>>

\* Failed or cancelled, and retried.
FailBuild(b) ==
    /\ build[b].state \in {"pending", "ready"}
    /\ build' = [build EXCEPT ![b].state = "failed"]
    /\ UNCHANGED <<documents, active, parses, release, session>>

RetryBuild(b) ==
    /\ build[b].state \in {"failed", "ready"}
    /\ build' = [build EXCEPT ![b].state = "pending"]
    /\ UNCHANGED <<documents, active, parses, release, session>>

-----------------------------------------------------------------------------
(* Releases. *)

\* DEFECT: the release that was current stays ready.
SwitchedTo(r, new) == [release EXCEPT ![r] = new]
\* DEFECT: a state that the schema knows and no reader expects.
SwitchedInvalid(r, new) ==
    [q \in Releases |-> CASE q = r -> new
                          [] q = active /\ q # r -> [release[q] EXCEPT !.state = "invalidated"]
                          [] OTHER -> release[q]]
\* r becomes `new` and the current release, if there is one, retires.
Switched(r, new) ==
    [q \in Releases |-> CASE q = r -> new
                          [] q = active /\ q # r -> [release[q] EXCEPT !.state = "retired"]
                          [] OTHER -> release[q]]

\* The operator looks at the release page; the active release shown there is the
\* expected_active_release_id of the request.
View(s) ==
    /\ session[s].step = "idle"
    /\ session' = [session EXCEPT ![s] = [Away EXCEPT !.step = "viewing", !.seen = active]]
    /\ UNCHANGED <<documents, active, parses, build, release>>

\* The request is given up, or answered with 409.
Leave(s) ==
    /\ session[s].step # "idle"
    /\ session' = [session EXCEPT ![s] = Away]
    /\ UNCHANGED <<documents, active, parses, build, release>>

\* DEFECT: no comparison of the epochs (STALE_BUILD).
PublishableAnytime(b) ==
    /\ build[b].state = "ready"
    /\ Contains(build[b].items) # {}
    /\ \A d \in Contains(build[b].items) :
          LET v == build[b].items[d] IN
          status[d] = "active" /\ Usable(d, v) /\ artifact[d][v].embedded
\* _load_release_preview finds no error.
Publishable(b) ==
    /\ build[b].state = "ready"
    /\ build[b].epoch = epoch
    /\ Contains(build[b].items) # {}
    /\ \A d \in Contains(build[b].items) :
          LET v == build[b].items[d] IN
          status[d] = "active" /\ Usable(d, v) /\ artifact[d][v].embedded

Exists(r) == release[r].state # "none"

\* DEFECT: a build may be published again once its release has retired.
NotCurrent(b) == \A r \in Releases : r = active => release[r].build # b
Unpublished(b) == \A r \in Releases : Exists(r) => release[r].build # b

Publish(s, b) ==
    /\ session[s].step = "viewing"
    /\ session[s].seen = active
    /\ Publishable(b)
    /\ Unpublished(b)
    /\ \E r \in Releases :
          /\ ~Exists(r)
          /\ \A q \in Releases : q < r => Exists(q)
          /\ release' = Switched(r, [state |-> "ready", build |-> b, items |-> build[b].items,
                content |-> [d \in Docs |-> IF build[b].items[d] = NoVersion THEN 0
                                            ELSE artifact[d][build[b].items[d]].gen]])
          /\ active' = r
    /\ session' = [session EXCEPT ![s] = Away]
    /\ UNCHANGED <<documents, parses, build>>

\* rollback_release reads the target before its transaction.
ReadTarget(s, r) ==
    /\ session[s].step = "viewing"
    /\ Exists(r)
    /\ session' = [session EXCEPT ![s].step = "targeted", ![s].target = r,
                                  ![s].state = release[r].state]
    /\ UNCHANGED <<documents, active, parses, build, release>>

\* DEFECT: a release is remade of what its documents are now.
RemadeOf(r) == [release[r] EXCEPT !.state = "ready", !.items = Current]
\* The release is ready again, and otherwise as it was.
Restored(r) == [release[r] EXCEPT !.state = "ready"]

\* rollback_candidate_ids: the two latest releases that have retired, at most one is later.
Retired == {r \in Releases : release[r].state = "retired" /\ r # active}
Recent(r) == r \in Retired /\ \A p, q \in Retired : p > r /\ q > r => p = q

\* DEFECT: the documents of the release are not looked at.
SourcesUnchecked(r) == TRUE
\* No source of the release is deleted, disabled or no longer parsed.
SourcesValid(r) ==
    \A d \in Contains(release[r].items) : status[d] = "active" /\ Usable(d, release[r].items[d])

Rollback(s) ==
    LET r == session[s].target IN
    /\ session[s].step = "targeted"
    /\ session[s].seen = active
    /\ active # NoRelease
    /\ r # active
    /\ session[s].state = "retired"
    /\ Recent(r)
    /\ SourcesValid(r)
    /\ release' = Switched(r, Restored(r))
    /\ active' = r
    /\ session' = [session EXCEPT ![s] = Away]
    /\ UNCHANGED <<documents, parses, build>>

-----------------------------------------------------------------------------
Next ==
    \/ \E d \in Docs : Upload(d) \/ Disable(d) \/ Delete(d)
    \/ \E d \in Docs, v \in Versions : \/ StartParse(d, v) \/ FinishParse(d, v) \/ AbortParse(d, v)
                                         \/ Embed(d, v)
    \/ \E b \in Builds : CreateBuild(b) \/ FinishBuild(b) \/ FailBuild(b) \/ RetryBuild(b)
    \/ \E s \in Sessions :
          \/ View(s) \/ Leave(s) \/ Rollback(s)
          \/ \E b \in Builds : Publish(s, b)
          \/ \E r \in Releases : ReadTarget(s, r)

Spec == Init /\ [][Next]_vars

-----------------------------------------------------------------------------
(* Properties. *)

\* Exactly the release the knowledge base points to is ready, every other one is
\* retired: readers that go by the pointer and readers that go by the state agree
\* after any sequence of publications and rollbacks.
OnlyActiveReady == \A r \in Releases : release[r].state = "ready" <=> r = active

\* A build is published once; from then on it comes back by rollback only.
OneReleasePerBuild ==
    \A r, q \in Releases : Exists(r) /\ Exists(q) /\ release[r].build = release[q].build => r = q

\* A build of the present epoch holds exactly the present documents in their
\* desired versions: no change of the documents leaves the epoch alone, so that
\* the comparison of two numbers in the preview stands for that of two manifests.
FreshBuildIsCurrent ==
    \A b \in Builds : build[b].state # "none" /\ build[b].epoch = epoch => build[b].items = Current

\* What is published is the present state of the documents, all of them, even if
\* they have changed while the build ran or while the operator hesitated.
PublishesCurrent ==
    [][\A r \in Releases : ~Exists(r) /\ Exists(r)' => release'[r].items = Current]_vars

\* Switching, forward or back, never exposes a document that is disabled or
\* deleted, or a version whose last parse failed.
SwitchesToValidSources ==
    [][\A r \in Releases : active # r /\ active' = r
            => \A d \in Contains(release'[r].items) :
                  status[d] = "active" /\ Usable(d, release'[r].items[d])]_vars

\* Releases, builds, epochs and stale requests implement the history of editions that
\* Publications promises: it is only added to, in order, with the documents of that
\* moment and once for each build; what is shown changes by a publication or by a
\* return to one of the two latest others, and never goes away.
Edition == INSTANCE Publications WITH
    Numbers <- Releases, Manifests <- Manifest, Empty <- Nothing,
    present <- Current,
    editions <- [r \in {q \in Releases : Exists(q)} |->
                     [build |-> release[r].build, documents |-> release[r].items]],
    shown <- active
KeepsEditions == Edition!Spec

\* Chunks are documented as unchangeable once ready (02-data-model, table of
\* chunks): the active release still serves the chunks it was published with.
ServedContentFrozen ==
    active # NoRelease =>
        \A d \in Contains(release[active].items) :
            artifact[d][release[active].items[d]].gen = release[active].content[d]
=============================================================================
