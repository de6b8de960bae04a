----------------------- MODULE ReleaseLifecycle_proofs -----------------------
(***************************************************************************)
(* Theorems about ReleaseLifecycle, for any number of documents, versions, *)
(* builds, releases and operators.                                         *)
(*                                                                         *)
(* The comparison of two epochs in the preview stands for a comparison of  *)
(* manifests only because no build is ahead of the epoch: BuildsOfEpoch is *)
(* FreshBuildIsCurrent strengthened by that.                               *)
(***************************************************************************)
EXTENDS ReleaseLifecycle, TLAPS

\* No build is ahead of the content, and one that is level with it is current.
BuildsOfEpoch ==
    \A b \in Builds : build[b].state # "none" =>
        /\ build[b].epoch <= epoch
        /\ build[b].epoch = epoch => build[b].items = Current

Inv == TypeOK /\ OnlyActiveReady /\ OneReleasePerBuild /\ BuildsOfEpoch

ReleaseRecord == [state : {"none", "ready", "retired"}, build : Builds \cup {NoBuild},
                  items : Manifest, content : Content]
BuildRecord == [state : {"none", "pending", "ready", "failed"}, epoch : Nat, items : Manifest]
Artifact == [state : {"none", "ready", "failed"}, gen : Nat, embedded : BOOLEAN]
ParseStatus == {"none", "queued", "processing", "complete", "failed"}
SessionRecord == [step : {"idle", "viewing", "targeted"}, seen : Releases \cup {NoRelease},
                  target : Releases \cup {NoRelease}, state : {"none", "ready", "retired"}]

\* The manifest of the present documents is a manifest.
LEMMA CurrentType == TypeOK => Current \in Manifest
  BY DEF TypeOK, Current, Manifest

\* What the switch of releases leaves behind: the new release, the old one
\* retired, all the others untouched.
LEMMA SwitchedFacts ==
  ASSUME TypeOK, NEW r \in Releases, NEW new \in ReleaseRecord
  PROVE  /\ Switched(r, new) \in [Releases -> ReleaseRecord]
         /\ Switched(r, new)[r] = new
         /\ \A q \in Releases \ {r} :
               /\ Switched(r, new)[q].build = release[q].build
               /\ Switched(r, new)[q].state = IF q = active THEN "retired" ELSE release[q].state
<1> DEFINE old(q) == [release[q] EXCEPT !.state = "retired"]
<1>1. \A q \in Releases : release[q] \in ReleaseRecord
  BY DEF TypeOK, ReleaseRecord
<1>2. \A q \in Releases : /\ old(q) \in ReleaseRecord
                          /\ old(q).build = release[q].build
                          /\ old(q).state = "retired"
  BY <1>1 DEF ReleaseRecord
<1>3. \A q \in Releases : Switched(r, new)[q] =
          IF q = r THEN new ELSE IF q = active THEN old(q) ELSE release[q]
  BY DEF Switched
<1>4. Switched(r, new) \in [Releases -> ReleaseRecord]
  <2>1. Switched(r, new) = [q \in Releases |-> Switched(r, new)[q]]
    BY DEF Switched
  <2>2. \A q \in Releases : Switched(r, new)[q] \in ReleaseRecord
    BY <1>1, <1>2, <1>3
  <2> QED BY <2>1, <2>2
<1> QED BY <1>2, <1>3, <1>4

-----------------------------------------------------------------------------
\* The invariant holds initially.
LEMMA InitInv == Init => Inv
<1> SUFFICES ASSUME Init PROVE Inv
  OBVIOUS
<1>1. TypeOK
  BY DEF Init, TypeOK, Manifest, Content, Nothing, Away, NoVersion, NoRelease, Versions
<1>2. OnlyActiveReady
  BY ReleasesAssumption DEF Init, OnlyActiveReady
<1>3. OneReleasePerBuild
  BY DEF Init, OneReleasePerBuild, Exists
<1>4. BuildsOfEpoch
  BY DEF Init, BuildsOfEpoch
<1> QED BY <1>1, <1>2, <1>3, <1>4 DEF Inv

\* A change of the documents outdates every build.
LEMMA ContentStep ==
  ASSUME Inv, ChangesContent, UNCHANGED build
  PROVE  BuildsOfEpoch'
<1>1. epoch' = epoch + 1 /\ epoch \in Nat
  BY DEF ChangesContent, Inv, TypeOK
<1>2. \A b \in Builds : build[b].epoch \in Nat
  BY DEF Inv, TypeOK
<1>3. \A b \in Builds : build[b].state # "none" => build[b].epoch <= epoch
  BY DEF Inv, BuildsOfEpoch
<1> QED BY <1>1, <1>2, <1>3 DEF BuildsOfEpoch

\* As long as the documents stay, Current does.
LEMMA CurrentStays == UNCHANGED <<status, desired>> => Current' = Current
  BY DEF Current

\* A step that leaves the documents and the builds alone leaves their relation alone.
LEMMA BuildsStay == BuildsOfEpoch /\ UNCHANGED <<documents, build>> => BuildsOfEpoch'
  BY CurrentStays DEF BuildsOfEpoch, documents

\* A step that leaves the releases alone leaves their invariants alone.
LEMMA ReleasesStay ==
  OnlyActiveReady /\ OneReleasePerBuild /\ UNCHANGED <<active, release>>
      => OnlyActiveReady' /\ OneReleasePerBuild'
  BY DEF OnlyActiveReady, OneReleasePerBuild, Exists

-----------------------------------------------------------------------------
(* Types. *)

\* Uploading, disabling and deleting documents keep the types.
LEMMA DocumentTypes ==
  ASSUME TypeOK, NEW d \in Docs, Upload(d) \/ Disable(d) \/ Delete(d)
  PROVE  TypeOK'
<1>1. epoch' \in Nat
  BY DEF TypeOK, Upload, Disable, Delete, ChangesContent
<1>2. status' \in [Docs -> {"absent", "active", "disabled", "deleted"}]
  <2>1. status \in [Docs -> {"absent", "active", "disabled", "deleted"}]
    BY DEF TypeOK
  <2>2. CASE Upload(d)
    BY <2>1, <2>2 DEF Upload
  <2>3. CASE Disable(d)
    BY <2>1, <2>3 DEF Disable
  <2>4. CASE Delete(d)
    BY <2>1, <2>4 DEF Delete
  <2> QED BY <2>2, <2>3, <2>4
<1>3. desired' \in Manifest
  BY DEF TypeOK, Upload, Disable, Delete, Manifest
<1>4. parse' \in [Docs -> [Versions -> ParseStatus]]
  <2>1. parse \in [Docs -> [Versions -> ParseStatus]]
    BY DEF TypeOK, ParseStatus
  <2>2. CASE Upload(d)
    <3>1. parse' = [parse EXCEPT ![d] = [parse[d] EXCEPT ![desired[d] + 1] = "queued"]]
      BY <2>1, <2>2 DEF Upload
    <3> QED BY <2>1, <3>1 DEF ParseStatus
  <2>3. CASE Disable(d) \/ Delete(d)
    BY <2>1, <2>3 DEF Disable, Delete, parses
  <2> QED BY <2>2, <2>3
<1>5. UNCHANGED <<active, artifact, build, release, session>>
  BY DEF Upload, Disable, Delete, parses
<1> QED BY <1>1, <1>2, <1>3, <1>4, <1>5 DEF TypeOK, ParseStatus

\* The steps of a parse keep the types.
LEMMA ParseTypes ==
  ASSUME TypeOK, NEW d \in Docs, NEW v \in Versions,
         StartParse(d, v) \/ FinishParse(d, v) \/ AbortParse(d, v) \/ Embed(d, v)
  PROVE  TypeOK'
<1>1. UNCHANGED <<epoch, status, desired, active, build, release, session>>
  BY DEF StartParse, FinishParse, AbortParse, Embed, documents
<1>2. parse' \in [Docs -> [Versions -> ParseStatus]]
  <2>1. parse \in [Docs -> [Versions -> ParseStatus]]
    BY DEF TypeOK, ParseStatus
  <2>2. CASE Embed(d, v)
    BY <2>1, <2>2 DEF Embed
  <2>3. CASE ~Embed(d, v)
    <3>1. PICK p \in ParseStatus : parse' = [parse EXCEPT ![d] = [parse[d] EXCEPT ![v] = p]]
      <4>1. CASE StartParse(d, v)
        BY <2>1, <4>1 DEF StartParse, ParseStatus
      <4>2. CASE FinishParse(d, v)
        BY <2>1, <4>2 DEF FinishParse, ParseStatus
      <4>3. CASE AbortParse(d, v)
        BY <2>1, <4>3 DEF AbortParse, ParseStatus
      <4> QED BY <2>3, <4>1, <4>2, <4>3
    <3> QED BY <2>1, <3>1
  <2> QED BY <2>2, <2>3
<1>3. artifact' \in [Docs -> [Versions -> Artifact]]
  <2>1. artifact \in [Docs -> [Versions -> Artifact]]
    BY DEF TypeOK, Artifact
  <2>2. CASE FinishParse(d, v)
    <3>1. artifact[d][v].gen + 1 \in Nat
      BY <2>1 DEF Artifact
    <3>2. PICK a \in Artifact : artifact' = [artifact EXCEPT ![d] = [artifact[d] EXCEPT ![v] = a]]
      BY <2>1, <2>2, <3>1 DEF FinishParse, Artifact
    <3> QED BY <2>1, <3>2
  <2>3. CASE Embed(d, v)
    <3>1. \A a \in Artifact : [a EXCEPT !.embedded = TRUE] \in Artifact
      BY DEF Artifact
    <3> QED BY <2>1, <2>3, <3>1 DEF Embed
  <2>4. CASE StartParse(d, v) \/ AbortParse(d, v)
    BY <2>1, <2>4 DEF StartParse, AbortParse
  <2> QED BY <2>2, <2>3, <2>4
<1> QED BY <1>1, <1>2, <1>3 DEF TypeOK, ParseStatus, Artifact

\* The steps of a build keep the types.
LEMMA BuildTypes ==
  ASSUME TypeOK, NEW b \in Builds,
         CreateBuild(b) \/ FinishBuild(b) \/ FailBuild(b) \/ RetryBuild(b)
  PROVE  TypeOK'
<1>1. UNCHANGED <<epoch, status, desired, active, parse, artifact, release, session>>
  BY DEF CreateBuild, FinishBuild, FailBuild, RetryBuild, documents, parses
<1>2. build' \in [Builds -> BuildRecord]
  <2>1. build \in [Builds -> BuildRecord]
    BY DEF TypeOK, BuildRecord
  <2>2. CASE CreateBuild(b)
    <3>1. [state |-> "pending", epoch |-> epoch, items |-> Current] \in BuildRecord
      BY CurrentType DEF TypeOK, BuildRecord
    <3> QED BY <2>1, <2>2, <3>1 DEF CreateBuild
  <2>3. CASE FinishBuild(b)
    BY <2>1, <2>3 DEF FinishBuild, BuildRecord
  <2>4. CASE FailBuild(b)
    BY <2>1, <2>4 DEF FailBuild, BuildRecord
  <2>5. CASE RetryBuild(b)
    BY <2>1, <2>5 DEF RetryBuild, BuildRecord
  <2> QED BY <2>2, <2>3, <2>4, <2>5
<1> QED BY <1>1, <1>2 DEF TypeOK, BuildRecord

\* What an operator reads has its type.
LEMMA SessionTypes ==
  ASSUME TypeOK, NEW s \in Sessions,
         View(s) \/ Leave(s) \/ \E r \in Releases : ReadTarget(s, r)
  PROVE  TypeOK'
<1>1. UNCHANGED <<epoch, status, desired, active, parse, artifact, build, release>>
  BY DEF View, Leave, ReadTarget, documents, parses
<1>2. session' \in [Sessions -> SessionRecord]
  <2>1. /\ session \in [Sessions -> SessionRecord]
        /\ Away \in SessionRecord
        /\ active \in Releases \cup {NoRelease}
        /\ \A r \in Releases : release[r].state \in {"none", "ready", "retired"}
    BY DEF TypeOK, SessionRecord, Away
  <2>2. CASE View(s)
    <3>1. [Away EXCEPT !.step = "viewing", !.seen = active] \in SessionRecord
      BY <2>1 DEF Away, SessionRecord
    <3> QED BY <2>1, <2>2, <3>1 DEF View
  <2>3. CASE Leave(s)
    BY <2>1, <2>3 DEF Leave
  <2>4. ASSUME NEW r \in Releases, ReadTarget(s, r) PROVE session' \in [Sessions -> SessionRecord]
    <3>1. \A x \in SessionRecord, y \in {"none", "ready", "retired"} :
             [x EXCEPT !.step = "targeted", !.target = r, !.state = y] \in SessionRecord
      BY DEF SessionRecord
    <3>2. session' = [session EXCEPT ![s] =
                        [session[s] EXCEPT !.step = "targeted", !.target = r,
                                           !.state = release[r].state]]
      BY <2>1, <2>4 DEF ReadTarget
    <3> QED BY <2>1, <3>1, <3>2
  <2> QED BY <2>2, <2>3, <2>4
<1> QED BY <1>1, <1>2 DEF TypeOK, SessionRecord

-----------------------------------------------------------------------------
(* Publication and rollback. *)

\* A publication keeps the invariant.
LEMMA PublishStep ==
  ASSUME Inv, NEW s \in Sessions, NEW b \in Builds, Publish(s, b)
  PROVE  Inv'
<1> DEFINE content == [d \in Docs |-> IF build[b].items[d] = NoVersion THEN 0
                                      ELSE artifact[d][build[b].items[d]].gen]
           new == [state |-> "ready", build |-> b, items |-> build[b].items, content |-> content]
<1>1. PICK r \in Releases : /\ ~Exists(r)
                            /\ release' = Switched(r, new)
                            /\ active' = r
  BY DEF Publish
<1>2. new \in ReleaseRecord
  <2>1. build[b].items \in Manifest
    BY DEF Inv, TypeOK
  <2>2. content \in Content
    BY <2>1 DEF Inv, TypeOK, Content, Manifest
  <2> QED BY <2>1, <2>2 DEF ReleaseRecord
<1> HIDE DEF new
<1>3. /\ release' \in [Releases -> ReleaseRecord]
      /\ release'[r] = new
      /\ \A q \in Releases \ {r} :
            /\ release'[q].build = release[q].build
            /\ release'[q].state = IF q = active THEN "retired" ELSE release[q].state
  BY <1>1, <1>2, SwitchedFacts DEF Inv
<1>4. TypeOK'
  <2>1. session' \in [Sessions -> [step : {"idle", "viewing", "targeted"},
                                   seen : Releases \cup {NoRelease},
                                   target : Releases \cup {NoRelease},
                                   state : {"none", "ready", "retired"}]]
    BY DEF Inv, TypeOK, Publish, Away
  <2>2. UNCHANGED <<epoch, status, desired, parse, artifact, build>>
    BY DEF Publish, documents, parses
  <2> QED BY <1>1, <1>3, <2>1, <2>2 DEF Inv, TypeOK, ReleaseRecord
<1>5. OnlyActiveReady'
  <2>1. release'[r].state = "ready"
    BY <1>3 DEF new
  <2> QED BY <1>1, <1>3, <2>1 DEF Inv, OnlyActiveReady
<1>6. OneReleasePerBuild'
  <2>1. \A q \in Releases \ {r} : Exists(q)' => Exists(q)
    BY <1>3, ReleasesAssumption DEF Exists, Inv, OnlyActiveReady
  <2>2. \A q \in Releases : Exists(q) => release[q].build # b
    BY DEF Publish, Unpublished
  <2>3. release'[r].build = b
    BY <1>3 DEF new
  <2> QED BY <1>3, <2>1, <2>2, <2>3 DEF Inv, OneReleasePerBuild
<1>7. BuildsOfEpoch'
  BY BuildsStay DEF Inv, Publish
<1> QED BY <1>4, <1>5, <1>6, <1>7 DEF Inv

\* A rollback keeps the invariant.
LEMMA RollbackStep ==
  ASSUME Inv, NEW s \in Sessions, Rollback(s)
  PROVE  Inv'
<1> DEFINE r == session[s].target
           new == [release[r] EXCEPT !.state = "ready"]
<1>1. /\ r \in Releases
      /\ release[r].state = "retired"
      /\ release' = Switched(r, new)
      /\ active' = r
  BY DEF Rollback, Recent, Retired, Restored
<1>2. /\ new \in ReleaseRecord
      /\ new.build = release[r].build
      /\ new.state = "ready"
  <2>1. release[r] \in ReleaseRecord
    BY <1>1 DEF Inv, TypeOK, ReleaseRecord
  <2> QED BY <2>1 DEF ReleaseRecord
<1> HIDE DEF r, new
<1>3. /\ release' \in [Releases -> ReleaseRecord]
      /\ release'[r] = new
      /\ \A q \in Releases \ {r} :
            /\ release'[q].build = release[q].build
            /\ release'[q].state = IF q = active THEN "retired" ELSE release[q].state
  BY <1>1, <1>2, SwitchedFacts DEF Inv
<1>4. TypeOK'
  <2>1. session' \in [Sessions -> [step : {"idle", "viewing", "targeted"},
                                   seen : Releases \cup {NoRelease},
                                   target : Releases \cup {NoRelease},
                                   state : {"none", "ready", "retired"}]]
    BY DEF Inv, TypeOK, Rollback, Away
  <2>2. UNCHANGED <<epoch, status, desired, parse, artifact, build>>
    BY DEF Rollback, documents, parses
  <2> QED BY <1>1, <1>3, <2>1, <2>2 DEF Inv, TypeOK, ReleaseRecord
<1>5. OnlyActiveReady'
  BY <1>1, <1>2, <1>3 DEF Inv, OnlyActiveReady
<1>6. OneReleasePerBuild'
  <2>1. \A q \in Releases : Exists(q)' => Exists(q)
    BY <1>1, <1>3, ReleasesAssumption DEF Exists, Inv, OnlyActiveReady
  <2>2. \A q \in Releases : release'[q].build = release[q].build
    BY <1>2, <1>3
  <2> QED BY <2>1, <2>2 DEF Inv, OneReleasePerBuild
<1>7. BuildsOfEpoch'
  BY BuildsStay DEF Inv, Rollback
<1> QED BY <1>4, <1>5, <1>6, <1>7 DEF Inv

-----------------------------------------------------------------------------
\* Every step keeps the invariant.
LEMMA NextInv == Inv /\ [Next]_vars => Inv'
<1> SUFFICES ASSUME Inv, [Next]_vars PROVE Inv'
  OBVIOUS
<1>1. ASSUME NEW d \in Docs, Upload(d) \/ Disable(d) \/ Delete(d) PROVE Inv'
  <2>1. ChangesContent /\ UNCHANGED <<active, build, release>>
    BY <1>1 DEF Upload, Disable, Delete
  <2> QED BY <1>1, <2>1, DocumentTypes, ContentStep, ReleasesStay DEF Inv
<1>2. ASSUME NEW d \in Docs, NEW v \in Versions,
             StartParse(d, v) \/ FinishParse(d, v) \/ AbortParse(d, v) \/ Embed(d, v)
      PROVE  Inv'
  <2>1. UNCHANGED <<documents, build>> /\ UNCHANGED <<active, release>>
    BY <1>2 DEF StartParse, FinishParse, AbortParse, Embed
  <2> QED BY <1>2, <2>1, ParseTypes, BuildsStay, ReleasesStay DEF Inv
<1>3. ASSUME NEW b \in Builds, CreateBuild(b) PROVE Inv'
  <2>1. UNCHANGED documents /\ UNCHANGED <<active, release>> /\ UNCHANGED epoch
    BY <1>3 DEF CreateBuild, documents
  <2>2. Current' = Current
    BY <2>1, CurrentStays DEF documents
  <2>3. build' = [build EXCEPT ![b] = [state |-> "pending", epoch |-> epoch, items |-> Current]]
    BY <1>3 DEF CreateBuild
  <2>4. BuildsOfEpoch'
    BY <2>1, <2>2, <2>3 DEF Inv, TypeOK, BuildsOfEpoch
  <2> QED BY <1>3, <2>1, <2>4, BuildTypes, ReleasesStay DEF Inv
<1>4. ASSUME NEW b \in Builds, FinishBuild(b) \/ FailBuild(b) \/ RetryBuild(b) PROVE Inv'
  <2>1. UNCHANGED documents /\ UNCHANGED <<active, release>> /\ UNCHANGED epoch
    BY <1>4 DEF FinishBuild, FailBuild, RetryBuild, documents
  <2>2. Current' = Current
    BY <2>1, CurrentStays DEF documents
  <2>3. /\ build[b].state # "none"
        /\ \A c \in Builds : /\ build'[c].epoch = build[c].epoch
                             /\ build'[c].items = build[c].items
                             /\ c # b => build'[c].state = build[c].state
    BY <1>4 DEF Inv, TypeOK, FinishBuild, FailBuild, RetryBuild
  <2>4. BuildsOfEpoch'
    BY <2>1, <2>2, <2>3 DEF Inv, BuildsOfEpoch
  <2> QED BY <1>4, <2>1, <2>4, BuildTypes, ReleasesStay DEF Inv
<1>5. ASSUME NEW s \in Sessions, View(s) \/ Leave(s) \/ \E r \in Releases : ReadTarget(s, r)
      PROVE  Inv'
  <2>1. UNCHANGED <<documents, build>> /\ UNCHANGED <<active, release>>
    BY <1>5 DEF View, Leave, ReadTarget
  <2> QED BY <1>5, <2>1, SessionTypes, BuildsStay, ReleasesStay DEF Inv
<1>6. CASE UNCHANGED vars
  BY <1>6, BuildsStay, ReleasesStay DEF Inv, TypeOK, vars, documents
<1> QED BY <1>1, <1>2, <1>3, <1>4, <1>5, <1>6, PublishStep, RollbackStep DEF Next

\* The inductive invariant holds in every reachable state.
THEOREM Invariance == Spec => []Inv
  BY InitInv, NextInv, PTL DEF Spec

\* Types: in particular no release is ever in the state `invalidated` of the schema.
THEOREM TypeCorrect == Spec => []TypeOK
  BY Invariance, PTL DEF Inv

\* Exactly the release that the knowledge base points to is ready, after any
\* publications and rollbacks by any number of operators.
THEOREM ActiveIsTheReadyOne == Spec => []OnlyActiveReady
  BY Invariance, PTL DEF Inv

\* No build is ever published twice.
THEOREM PublishedOnce == Spec => []OneReleasePerBuild
  BY Invariance, PTL DEF Inv

\* A build of the present epoch holds the present documents.
THEOREM FreshIsCurrent == Spec => []FreshBuildIsCurrent
<1>1. Inv => FreshBuildIsCurrent
  BY DEF Inv, BuildsOfEpoch, FreshBuildIsCurrent
<1> QED BY <1>1, Invariance, PTL

\* What is published is what the documents are at that moment.
THEOREM PublicationIsCurrent == Spec => PublishesCurrent
<1> DEFINE Step == \A r \in Releases : ~Exists(r) /\ Exists(r)' => release'[r].items = Current
<1>1. ASSUME Inv, [Next]_vars PROVE [Step]_vars
  <2> SUFFICES ASSUME NEW r \in Releases, ~Exists(r), Exists(r)', [Next]_vars
               PROVE  release'[r].items = Current
    BY <1>1
  <2>1. PICK s \in Sessions, b \in Builds : Publish(s, b)
    <3>1. release' # release
      BY DEF Exists
    <3>2. ASSUME NEW s \in Sessions, Rollback(s) PROVE FALSE
      <4> DEFINE t == session[s].target
      <4>1. /\ t \in Releases /\ release[t].state = "retired"
            /\ release' = Switched(t, [release[t] EXCEPT !.state = "ready"])
        BY <3>2 DEF Rollback, Recent, Retired, Restored
      <4>2. r # t /\ r # active
        BY <1>1, <4>1, ReleasesAssumption DEF Exists, Inv, OnlyActiveReady
      <4>3. release'[r] = release[r]
        BY <4>1, <4>2 DEF Switched
      <4> QED BY <4>3 DEF Exists
    <3> QED BY <1>1, <3>1, <3>2 DEF Next, vars, Upload, Disable, Delete, StartParse, FinishParse,
            AbortParse, Embed, CreateBuild, FinishBuild, FailBuild, RetryBuild, View, Leave,
            ReadTarget
  <2>2. PICK q \in Releases : /\ release'[q].items = build[b].items
                              /\ \A p \in Releases \ {q} : Exists(p)' => Exists(p)
    <3>1. PICK q \in Releases :
             LET new == [state |-> "ready", build |-> b, items |-> build[b].items,
                         content |-> [d \in Docs |-> IF build[b].items[d] = NoVersion THEN 0
                                                     ELSE artifact[d][build[b].items[d]].gen]]
             IN release' = Switched(q, new)
      BY <2>1 DEF Publish
    <3>2. release'[q].items = build[b].items
      BY <3>1 DEF Switched
    <3>3. \A p \in Releases \ {q} : Exists(p)' => Exists(p)
      BY <1>1, <3>1, ReleasesAssumption DEF Switched, Exists, Inv, OnlyActiveReady
    <3> QED BY <3>2, <3>3
  <2>3. q = r
    BY <2>2
  <2>4. build[b].items = Current
    BY <1>1, <2>1 DEF Inv, BuildsOfEpoch, Publish, Publishable
  <2> QED BY <2>2, <2>3, <2>4
<1> QED BY <1>1, Invariance, PTL DEF Spec, PublishesCurrent

\* No switch, forward or back, exposes a document that is gone or a version whose
\* last parse failed.
THEOREM SwitchIsValid == Spec => SwitchesToValidSources
<1> DEFINE Valid(m) == \A d \in Contains(m) : status[d] = "active" /\ Usable(d, m[d])
           Step == \A r \in Releases : active # r /\ active' = r => Valid(release'[r].items)
<1>1. ASSUME Inv, [Next]_vars PROVE [Step]_vars
  <2> SUFFICES ASSUME NEW r \in Releases, active # r, active' = r, [Next]_vars
               PROVE  Valid(release'[r].items)
    BY <1>1
  <2>1. ASSUME NEW s \in Sessions, NEW b \in Builds, Publish(s, b)
        PROVE  Valid(release'[r].items)
    <3>1. release'[r].items = build[b].items
      BY <2>1 DEF Publish, Switched
    <3>2. Valid(build[b].items)
      BY <2>1 DEF Publish, Publishable
    <3> QED BY <3>1, <3>2
  <2>2. ASSUME NEW s \in Sessions, Rollback(s) PROVE Valid(release'[r].items)
    <3>1. /\ r = session[s].target
          /\ SourcesValid(r)
          /\ release' = Switched(r, [release[r] EXCEPT !.state = "ready"])
      BY <2>2 DEF Rollback, Restored
    <3>2. [release[r] EXCEPT !.state = "ready"].items = release[r].items
      BY DEF Inv, TypeOK
    <3>3. release'[r].items = release[r].items
      BY <3>1, <3>2 DEF Switched
    <3> QED BY <3>1, <3>3 DEF SourcesValid
  <2> QED BY <1>1, <2>1, <2>2 DEF Next, vars, Upload, Disable, Delete, StartParse, FinishParse,
          AbortParse, Embed, CreateBuild, FinishBuild, FailBuild, RetryBuild, View, Leave,
          ReadTarget
<1> QED BY <1>1, Invariance, PTL DEF Spec, SwitchesToValidSources

-----------------------------------------------------------------------------
(* The refinement. *)

Published == {q \in Releases : Exists(q)}
EditionOf(r) == [build |-> release[r].build, documents |-> release[r].items]
Editions == [r \in Published |-> EditionOf(r)]

\* A switch to a new row adds the edition of that row, if it is not there yet, and
\* changes no other one.
LEMMA SwitchedEditions ==
  ASSUME Inv, NEW r \in Releases, NEW new \in ReleaseRecord, new.state # "none",
         release' = Switched(r, new)
  PROVE  /\ Published' = Published \cup {r}
         /\ Editions' = [k \in Published \cup {r} |->
               IF k = r THEN [build |-> new.build, documents |-> new.items] ELSE Editions[k]]
<1>1. \A q \in Releases \ {r} :
         /\ release'[q].build = release[q].build
         /\ release'[q].items = release[q].items
         /\ release'[q].state = IF q = active THEN "retired" ELSE release[q].state
  BY DEF Switched, Inv, TypeOK
<1>2. release'[r] = new
  BY DEF Switched
<1>3. \A q \in Releases \ {r} : q = active => release[q].state = "ready"
  BY DEF Inv, OnlyActiveReady
<1>4. Published' = Published \cup {r}
  BY <1>1, <1>2, <1>3 DEF Published, Exists
<1>5. \A q \in Published \ {r} : EditionOf(q)' = EditionOf(q)
  BY <1>1 DEF EditionOf, Published
<1>6. EditionOf(r)' = [build |-> new.build, documents |-> new.items]
  BY <1>2 DEF EditionOf
<1>7. Editions' = [k \in Published' |-> EditionOf(k)']
  BY DEF Editions
<1> QED BY <1>4, <1>5, <1>6, <1>7 DEF Editions

\* A publication adds the next edition: the present documents, of a build without one.
LEMMA PublishAddsEdition ==
  ASSUME Inv, NEW s \in Sessions, NEW b \in Builds, Publish(s, b)
  PROVE  \E n \in Releases : Edition!Publish(b, n)
<1> DEFINE content == [d \in Docs |-> IF build[b].items[d] = NoVersion THEN 0
                                      ELSE artifact[d][build[b].items[d]].gen]
           new == [state |-> "ready", build |-> b, items |-> build[b].items, content |-> content]
<1>1. PICK n \in Releases : /\ ~Exists(n)
                            /\ \A q \in Releases : q < n => Exists(q)
                            /\ release' = Switched(n, new)
                            /\ active' = n
  BY DEF Publish
<1>2. content \in Content
  BY DEF Inv, TypeOK, Content, Manifest, NoVersion
<1>3. build[b].items \in Manifest
  BY DEF Inv, TypeOK
<1>4. new \in ReleaseRecord /\ new.state # "none" /\ new.build = b /\ new.items = build[b].items
  <2> HIDE DEF content
  <2> QED BY <1>2, <1>3 DEF ReleaseRecord
<1>5. build[b].items = Current
  BY DEF Inv, BuildsOfEpoch, Publish, Publishable
<1>6. Published' = Published \cup {n} /\ Editions' = [k \in Published \cup {n} |->
        IF k = n THEN [build |-> b, documents |-> Current] ELSE Editions[k]]
  <2> HIDE DEF new
  <2>1. Inv /\ n \in Releases /\ new \in ReleaseRecord /\ new.state # "none"
    BY <1>4
  <2>2. release' = Switched(n, new)
    BY <1>1
  <2>3. /\ Published' = Published \cup {n}
        /\ Editions' = [k \in Published \cup {n} |->
              IF k = n THEN [build |-> new.build, documents |-> new.items] ELSE Editions[k]]
    BY <2>1, <2>2, SwitchedEditions
  <2>4. new.build = b /\ new.items = Current
    BY <1>4, <1>5
  <2> QED BY <2>3, <2>4
<1>7. Current' = Current
  BY CurrentStays DEF Publish, documents
<1>8. Current # Nothing
  BY <1>5 DEF Publish, Publishable, Contains, Nothing
<1>9. n \notin Published /\ \A k \in Releases : k < n => k \in Published
  BY <1>1 DEF Published
<1>10. \A k \in Published : Editions[k].build # b
  BY DEF Publish, Unpublished, Editions, EditionOf, Published
<1>11. DOMAIN Editions = Published
  BY DEF Editions
<1> QED
  BY <1>1, <1>6, <1>7, <1>8, <1>9, <1>10, <1>11
     DEF Edition!Publish, Editions, EditionOf, Published

\* A rollback shows one of the two latest others again.
LEMMA RollbackShowsAgain ==
  ASSUME Inv, NEW s \in Sessions, Rollback(s)
  PROVE  \E n \in Releases : Edition!ShowAgain(n)
<1> DEFINE n == session[s].target
<1>1. /\ n \in Releases
      /\ n # active
      /\ release[n].state = "retired"
      /\ Recent(n)
      /\ active' = n
      /\ release' = Switched(n, Restored(n))
  BY DEF Rollback, Recent, Retired, Restored
<1>2. release[n] \in ReleaseRecord
  BY <1>1 DEF Inv, TypeOK, ReleaseRecord
<1>3. /\ Restored(n) \in ReleaseRecord
      /\ Restored(n).state # "none"
      /\ Restored(n).build = release[n].build
      /\ Restored(n).items = release[n].items
  BY <1>2 DEF Restored, ReleaseRecord
<1>4. n \in Published
  BY <1>1 DEF Published, Exists
<1>5. Editions' = Editions
  <2>1. Editions' = [k \in Published \cup {n} |->
          IF k = n THEN [build |-> Restored(n).build, documents |-> Restored(n).items]
                   ELSE Editions[k]]
    <3> HIDE DEF n
    <3> QED BY <1>1, <1>3, SwitchedEditions
  <2> QED BY <1>3, <1>4, <2>1 DEF Editions, EditionOf
<1>6. Retired = Published \ {active}
  BY DEF Retired, Published, Exists, Inv, TypeOK, OnlyActiveReady
<1>7. /\ n \in Published \ {active}
      /\ \A j, k \in Published \ {active} : j > n /\ k > n => j = k
  BY <1>1, <1>6 DEF Recent
<1>8. DOMAIN Editions = Published
  BY DEF Editions
<1>9. Current' = Current
  BY CurrentStays DEF Rollback, documents
<1>10. Edition!ShowAgain(n)
  <2> HIDE DEF n
  <2>1. Edition!Others = Published \ {active}
    BY <1>8 DEF Edition!Others, Editions, EditionOf, Published
  <2>2. /\ n \in Edition!Others
        /\ \A j, k \in Edition!Others : j > n /\ k > n => j = k
    BY <1>7, <2>1
  <2>3. active' = n
    BY <1>1
  <2> QED BY <1>5, <1>9, <2>2, <2>3 DEF Edition!ShowAgain, Editions, EditionOf, Published
<1> QED BY <1>1, <1>10

\* Whatever operators, workers and uploads do at the same time, the history that
\* readers see is that of Publications.
THEOREM EditionsAreKept == Spec => KeepsEditions
<1>1. Init => Edition!Init
  <2> SUFFICES ASSUME Init PROVE Edition!Init
    OBVIOUS
  <2>1. Current = Nothing
    BY DEF Init, Current, Nothing
  <2>2. Published = {}
    BY DEF Init, Published, Exists
  <2>3. Editions = [n \in {} |-> Nothing]
    BY <2>2 DEF Editions
  <2> QED BY <2>1, <2>3 DEF Init, Edition!Init, Editions, EditionOf, Published, NoRelease
<1>2. Inv /\ Inv' /\ [Next]_vars => [Edition!Next]_Edition!vars
  <2> SUFFICES ASSUME Inv, Inv', [Next]_vars PROVE [Edition!Next]_Edition!vars
    OBVIOUS
  <2>1. CASE UNCHANGED <<active, release>>
    <3>1. Current' \in Manifest
      BY DEF Inv, TypeOK, Current, Manifest
    <3>2. Editions' = Editions
      BY <2>1 DEF Editions, EditionOf, Published, Exists
    <3>3. Edition!Edit(Current')
      BY <2>1, <3>2 DEF Edition!Edit, Editions, EditionOf, Published
    <3> QED BY <3>1, <3>3 DEF Edition!Next
  <2>2. ASSUME NEW s \in Sessions, NEW b \in Builds, Publish(s, b) PROVE Edition!Next
    BY <2>2, PublishAddsEdition DEF Edition!Next
  <2>3. ASSUME NEW s \in Sessions, Rollback(s) PROVE Edition!Next
    BY <2>3, RollbackShowsAgain DEF Edition!Next
  <2> QED BY <2>1, <2>2, <2>3 DEF Next, vars, Upload, Disable, Delete, StartParse, FinishParse,
          AbortParse, Embed, CreateBuild, FinishBuild, FailBuild, RetryBuild, View, Leave,
          ReadTarget
<1> QED BY <1>1, <1>2, Invariance, PTL DEF Spec, KeepsEditions, Edition!Spec
=============================================================================
