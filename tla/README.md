# RAGManage: a TLA+ model of jobs, releases, answers, members and logins

RAGManage is a multi-tenant RAG platform: documents are uploaded and parsed, builds
embed their chunks, releases make a build what a knowledge base serves, and users
and holders of API keys ask questions against the active release. It is a FastAPI
application, Celery workers and a frontend around one PostgreSQL database; Redis is
the broker of Celery and holds the counters of rate limits.

Nearly all that is hard in it lies between transactions. The database runs READ
COMMITTED, handlers read a row in one statement and act on it in another,
jobs are delivered at least once, and clients, processes and connections go away
in the middle. This project models the six parts in which that matters most,
states in three abstract modules what they promise each other and their users, checks
both with TLC on small instances and proves invariants and refinements with TLAPS for
all instances.

| Module | Models | Proofs |
| --- | --- | --- |
| `IndexBuild` | an index-build job: requests, outbox, broker, workers, lease patrol | `IndexBuild_proofs` |
| `DocumentParse` | uploads and the jobs that parse them, between the same outbox and broker | `DocumentParse_proofs` |
| `ReleaseLifecycle` | documents, parses, builds and the releases published from them | `ReleaseLifecycle_proofs` |
| `GenerationRun` | generation runs and the token account of their API key | `GenerationRun_proofs` |
| `Publications` | the history of editions that `ReleaseLifecycle` implements | (there) |
| `BuildOutcomes` | what may be assumed of a build: `IndexBuild` implements it | `IndexBuild_proofs` |
| `Ledger` | the books of an API key that `GenerationRun` implements | `Ledger_proofs`, and there |
| `Spaces` | accounts, spaces, memberships, grants and the requests that change them | `Spaces_proofs` |
| `Login` | the login limiter in Redis, logins, passwords and sessions | `Login_proofs` |
| `Sums` | lemmas on sums over finite sets, for the account | (itself) |
| `MC...` | their instances for TLC | |

To check a run: `tlc -config IndexBuild_safety.cfg MCIndexBuild`; the proofs:
`tlapm IndexBuild_proofs.tla`. `PROJECT.json` lists the runs, the theorems, the
hazards each property is for, and for every definition the lines of code it stands for.

## 1. Inventory

Paths are relative to `src/backend/app/`.

**Index builds** (`jobs/builds.py`; created, cancelled and retried in
`api/lifecycle_routes.py`). State: `index_builds`, `build_items`, `tasks`,
`task_items`, `chunk_embeddings`. A worker claims the task, marks each item running,
embeds its chunks in batches of 16, marks it completed and counts in the end whether
every chunk has its vector. Hard: the same task may be at two workers, requests of
users decide by states that have moved on, cancelling is four separate statements, a
parse may replace chunks while they are being embedded, and failure handling may fail.
Correct when: what a job reports (task, build, two lists of items) agrees with what
is embedded, finished work is kept, and every job ends.

**Outbox, broker, patrol** (`jobs/outbox.py`, `jobs/worker.py`, `jobs/tasks.py`).
State: `outbox_events`, the queue in Redis, `tasks.lease_until`. Events written with
the request's transaction are sent every 2 s; the patrol takes expired leases back
every 30 s. Hard: at-least-once delivery, death between the send and the commit,
attempts that run out. Correct when: no job is forgotten.

**Documents and parsing** (`api/knowledge_routes.py`, `jobs/tasks.py`,
`rag/parsing.py`). State: `documents`, `document_versions`, `document_artifacts`,
`chunks`, `knowledge_bases.content_epoch`. Upload, disable, delete, reparse; the parse
task replaces the chunks of an artifact. Hard: it is a job like a build but has no
lease; two of them may run at once; it changes rows that builds and releases refer to
and meets citations that forbid it. Correct when: task and version tell the same,
evidence stays, and every parse ends.

**Releases** (`api/lifecycle_routes.py`, `main.py` `_load_release_preview`,
`rag/releases.py`). State: `knowledge_bases.active_release_id`, `kb_releases`,
`release_items`. Publish a ready build, roll back to one of the two latest retired
releases. Hard: several operators on the strength of the page they saw; builds and
documents change in between. Correct when: there is one active release and it is the
ready one, what is published is current, and no switch exposes a source that is gone.

**Generation runs** (`rag/chat.py`, `main.py` `_create_generation_run`,
`api/retrieval_routes.py`, `api/health_chat_routes.py`). State: `generation_runs`,
`messages`, the coroutine that streams the answer. Create, claim, retrieve, generate,
persist, cancel, fail. Hard: the stream, a cancellation and the recovery of stale
reservations write the same rows; the coroutine can be interrupted at any await.
Correct when: an answer and its run agree, and a cancelled run stays cancelled.

**API-key quota** (`core/api_keys.py`, `api/platform_routes.py`). State:
`api_keys.token_limit/used/reserved`, `api_key_reservations`, `api_key_usage`.
Reserve, note progress, settle, release, recover after ten minutes; disable, revoke or
delete the key meanwhile. Hard: settling twice, by different parties, after a commit that
was not acknowledged; a key that loses its validity under a run. Correct when:
aggregates are the sums of their rows, answers are paid for once, the limit holds, and
a key that is not active commits itself to nothing more.

**Identity and sessions** (`core/auth.py`, `core/security.py`,
`api/identity_routes.py`). State: `users`, `sessions` with hashed tokens and expiry,
four counters per login in Redis. Reserve an attempt, read the account, verify, insert a
session, settle the attempt, take the session back if that failed; log out, change or
reset the password, disable the account. Hard: every one of these steps may fail or lose its
answer, and the password may change between any two. Correct when: a counter bounds
the guesses at a password and never locks a name for ever, and sessions are those of
the present password of an active account.

**Spaces, memberships, platform administration** (`api/knowledge_routes.py`,
`api/platform_routes.py`, `main.py`). State: `users`, `tenants`, `tenant_members`,
`knowledge_bases.owner_id`, `kb_members`. Add and change members, grants, owners,
users and spaces. Hard: authority and conditions are read without locks before they
are used; the same rows are written by space administrators and, with other checks, by platform
administrators. Correct when: grants rest on memberships, the last administrator stays,
customers get no say over a knowledge base.

**Wiki** (`rag/wiki.py`, `api/wiki_routes.py`). State: entries in draft, review,
published or retired, with revisions and links. Hard: transitions and revisions with
optimistic versions.

**Retrieval, models, parsing of formats, evaluation** (`rag/retrieval.py`,
`rag/models.py`, `rag/parsing.py`, `rag/evaluation.py`): functions over text and
floating-point scores, and HTTP calls. No state of their own except traces.

**Configuration, health, audit; Open WebUI client; frontend**: settings, probes, an
append-only log, and clients of the endpoints above.

*Interactions.* Handlers and workers share the database and nothing else; a handler
starts a job by an outbox row in its own transaction. Parses feed builds (artifacts,
chunks), builds feed releases (items, vectors), releases feed retrieval
(`active_release_id`), runs call retrieval and charge the key. Foreign keys carry
behaviour: deleting chunks cascades to their embeddings.

The hazards of this code, each at its line and with the properties that watch it, are
the list `hazards` of `PROJECT.json`. Some more are visible in the models, are left open
by every document, and are watched by no property: retrying an old build beside an active one
makes two active builds (`lifecycle_routes.py:705`); a second worker sets an item of a
ready build back to running (`builds.py:94`); a cancelled task may have a ready
build (`builds.py:293`); a rollback does not look for vectors (`lifecycle_routes.py:249`);
two uploads of a new title make two documents (`knowledge_routes.py:847`); a reparse that read
"no profile" outdates the profile an administrator made meanwhile (`tasks.py:202`); and
a password change may overwrite the reset an administrator has just made
(`identity_routes.py:221`).

## 2. Atomicity

A step of a model is what the database makes atomic: a transaction that locks the
rows it depends on, or one autocommitted statement. Where a handler
reads first and writes after another await, the read and the write are two steps with
a program counter between them (`user[u].step`, `worker[w].step`, `session[s].step`,
`stream[r].step`, `request[r].step`). Where a transaction is one step although it has several statements:

- `create_build`, `publish_build` and `rollback_release` hold `SELECT ... FOR UPDATE`
  on the knowledge base, and every change of the documents updates that row.
- `_create_generation_run` counts and inserts under `pg_advisory_xact_lock`.
- Transactions about one account in `Login` write its row first and queue there.
- In `Spaces` a transaction is two steps, what it reads and what it writes, since most of
  what it reads is not locked; only rows that are locked or inserted keep others out
  (`HoldsUser`, `HoldsMember`, `HoldsGrant`).
- `FinishBuild` counts vectors and commits. A parse that commits between the two
  touches no row the transaction writes, so that interleaving leaves the same state as
  the parse right after it. The same holds of the preview inside `publish_build`.
- `_mark_failed` of a run is two steps although it is one transaction: its first
  statement may wait for a cancellation that holds the message and then act on what it
  had read of the run.

## 3. The modules

### IndexBuild

Processes are `Users` (a cancel or retry request each), `Workers`, and the periodic
tasks. `build`, `task`, `lease`, `buildItem`, `taskItem` are columns of the same
name; a build and its task share an identifier because they are inserted together.
`chunks[d]` is which parse the chunk rows of a document stem from and how many batches
they fill; `embedded[d]` is the set of batches with vectors, emptied by `Reparse`
as the cascade does. `outbox` is the table, `queue` the messages in the broker
(external), and `worker[w]` what the coroutine remembers: the items it fetched, the
parse its chunk ids stem from, and its place.

| Code | Actions |
| --- | --- |
| `create_build` | `CreateBuild` |
| `cancel_task`: the read, then four statements | `ReadForCancel`, `CancelTask`, `CancelBuild`, `CancelBuildItems`, `CancelTaskItems` |
| `retry_task`: the read, then one transaction | `ReadForRetry`, `RetryTask` |
| `dispatch_outbox_events` | `Dispatch`, `SendFails`, `DispatcherDies` |
| the patrol | `ExpireLease`, `RecoverLeases` |
| `_process_index_build` | `Start`, `StartNothing`, `StartRefused`, `ConnectFails`, `Check`, `RunItem`, `WriteBatch`, `FinishItem`, `FinishBuild` |
| `_mark_build_failure` | `ReadForFailure`, `MarkBuildFailure`, `WriteBackFails` |
| Celery: late acknowledgement, rejection on loss, visibility timeout | `PutsBack` in `Crash`, `Redeliver` |
| parses and document changes | `Reparse`, `ChangeContent` |

`Faults` names the three failures after which the code itself has no way to go on: the
database unreachable when a job starts (`connect`), a failure that cannot be written
back (`writeback`), an event refused ten times (`broker`). Safety is checked and proved
with all of them; liveness holds without them only, and `index_build_patrol` shows
what the second one does.

`BuildOutcomes` is what the rest of the system may assume of all this. A build is asked for
once for an input, while no other is pending, of parts that can be used at that moment; later
it may be pending, failed or ready at any time and in any order, but it becomes ready
(`Finish`) only at a moment at which all its parts are embedded, and a part that is
embedded (`Embed`) stays so until it is parsed again. `Outcomes` instantiates it with
`outcome` made of `build[b]` (queued and running are pending, cancelled is failed), `holds` all
documents, `usable` the documents that have chunks and `covered` those whose chunks all have vectors;
`KeepsOutcomes` says that every step of `IndexBuild` is a step of it or changes nothing there.

`ReleaseLifecycle` reduces the execution of a build to three states and a few steps between
them. `StepsOfLifecycle` says that this loses nothing: `Life` maps builds, chunks and vectors of
`IndexBuild` to the variables of `ReleaseLifecycle` (`LifeBuild`, `LifeArtifact`: the documents are
in their first version, document 0 stands for all others, there are no releases), and every step
of `IndexBuild` is a step there or leaves what is mapped alone (`Hidden`). The initial states are not
mapped, since `IndexBuild` begins with documents that are parsed, which is one of the later states
of `ReleaseLifecycle`.

Different embedding profiles within one epoch are not modelled: there is one build of
an input snapshot. A retry may start an old build beside an active one; the model has
that behaviour and no property speaks against it, as the code states the exclusion for
creation only.

### DocumentParse

A version, its only task and the only item of that task are inserted together and share a
number. What parsing comes to is decided by each execution for itself (`ParseFile`): the stored
file may be gone by the second one, which then "failed" (`rag/parsing.py:52-59`, `94-99`), so two
executions of one version may differ. `artifacts[v]` are the rows
of the version in the order of creation, each with its profile, state, the number of
times its chunks were replaced (`gen`) and whether a chunk is `cited` by a trace or an
answer. `user[u]` is a request between two of its statements, `worker[w]` a job with
the profile it has read. `lost` is a history variable: the tasks whose work was lost by a failure
that nobody handles.

| Code | Actions |
| --- | --- |
| `upload_document`: the locked search for the title, then the inserts | `FindDocument`, `InsertVersion`, `LoseRequest` |
| `reparse_document`, `retry_task` | `ReadForReparse`, `ReadForRetry`, `Requeue` |
| `cancel_task` of a parse | `ReadForCancel`, `CancelTask`, `CancelItem` |
| `delete_document`, ingestion profiles, retrieval traces and citations | `DeleteDocument`, `CreateProfile`, `Cite` |
| the dispatcher and the broker | `Dispatch`, `SendFails`, `DispatcherDies`, `Redeliver` |
| `_process_document` | `Start`, `StartNothing`, `StartRaises`, `ConnectFails`, `ParseFile`, `FinishParse`, `WriteRefused` |
| its exception handler, `_mark_task_failure` | `Raise`, `MarkFailure`, `WriteBackFails` |
| death of a worker | `Crash` |

### ReleaseLifecycle

The state is that of the tables: `epoch`, `active`, `status`, `desired`, `parse`,
`artifact` (with `gen`, which parse its chunks stem from, and whether they are all
embedded), `build` with its frozen `items`, `release` with its `items` and the `content`
it was published with, and for every operator in `session` the active release
seen and the rollback target read before the lock.

| Code | Actions |
| --- | --- |
| `upload_document`, `disable_document`, `delete_document` | `Upload`, `Disable`, `Delete` |
| `reparse_document`, retry of a parse, outcomes of `_process_document` | `StartParse`, `FinishParse`, `AbortParse` |
| `create_build` and what becomes of a build | `CreateBuild`, `Embed`, `FinishBuild`, `FailBuild`, `RetryBuild` |
| the release page (`expected_active_release_id`) | `View`, `Leave` |
| `publish_build` with `_load_release_preview` | `Publish` |
| `rollback_release` with `rollback_candidate_ids` | `ReadTarget`, `Rollback` |

The execution of a build is reduced to its outcomes; they include those that
`IndexBuild` shows to be possible (a failed build that a late worker makes ready, a
ready one that a late failure or retry takes back). That the reduction leaves out nothing a build
can do is not left to the reader: every step of `IndexBuild` that touches a build or its chunks is a
step of this module (`IndexBuild!StepsOfLifecycle`, checked and proved), so that what is shown here of
every step holds of the code's builds. The preview also compares item states and chunk counts
(`main.py:1727`); `Publishable` looks at the chunks only and so allows a publication that the code
refuses while an item of a ready build is being built again. The manifest hash is determined by
the build and not modelled apart from it. There is one ingestion profile: a parse replaces the
chunks of the version's artifact, also by a second execution of its task that ends after
the first. With a new profile a reparse makes another artifact and leaves that of older
builds alone; `DocumentParse` has both cases.

`Publications` is what all this promises: documents as they are (`present`), a history
of `editions` that only grows, and the one `shown`. `Edition` instantiates it with
`present <- Current`, `editions` the build and items of each row of `kb_releases`, and
`shown <- active`; `KeepsEditions` says that every step of `ReleaseLifecycle` is a step of it
or changes nothing there. A publication takes the present documents although the code compares
only epochs; a rollback changes no edition although it writes two rows.

### GenerationRun

One API key and its runs. `run` and `message` are the columns `state`, `usage` the
tokens stored with the message, `reservation` and `bill` the rows of the run,
`limit`, `used`, `reserved` the aggregates. `Assistant` are the
runs of conversations of the scope `assistant`. `stream[r]` is the coroutine: its step and
its local variables `spent` (usage known so far), `held` (`reserved_tokens > 0`) and
`settled`. `writes` is the decision of the first statement of `_mark_failed`.

| Code | Actions |
| --- | --- |
| `_create_generation_run`, `retry_run`, `cancel_run` | `CreateRun`, `CancelRun` |
| `reserve_api_key_tokens`, progress, settlement | `ReserveTokens`, `SaveProgress`, `Settle` (`Reserve`, `Progress`, `Finalize`) |
| `recover_stale_api_key_reservations` | `Recover` |
| the key's limit and status in `platform_routes.py` | `UpdateQuota`, `UpdateStatus`, `RevokeKey`, `DeleteKey` |
| `stream_generation_run` | `Claim`, `MarkGenerating`, `Spend`, `CheckCancelled`, `SeeCancelled`, `Stop`, `Finish` |
| `_persist_completed_answer`, `_finish_without_generation` | `Persist` |
| exception handlers and `_mark_failed` | `Raise`, `Settle`, `ReadForFailure`, `MarkFailed` |
| death of the process, `GeneratorExit` | `Die` |

What a run may use. For a question to one knowledge base the code sets aside the bytes of the
question before the search, more than its embedding can need (the comment at
`chat.py:1046`), and then what the
generation may need: `Query` and `Answer`. For a question to the assistant
(`create_assistant_run`) it sets aside the bytes of the routing messages and 1024
(`chat.py:1004-1013`), once; `execute_assistant_scope_search` then embeds the question once for
each published knowledge base (`chat.py:246-273`), all of which is summed (`chat.py:351-373`) and
charged. Such a run may therefore use, and be charged, up to `Excess` more than was set aside for
it, also when it ends right after the search. `Excess` is any natural number, the same bound for each run of
`Assistant`.

Other decisions: a commit may succeed without its acknowledgement, so that `ReserveTokens`
and `Settle` may continue in the exception handler; `Recover(r)` settles one stale
row where the code settles all in one transaction; `SeeCancelled` and `Stop` omit the
update of a run that is cancelled already. Runs of web users take the same steps
without those of the account. A retry is a run of its own. `authenticate_api_key` looks
at the status of the key long before the run is created, so `CreateRun` has no condition
on `key`; reservations look again (`Usable`).
The recovery is reached only through a key that is
found, that is, not deleted: fairness of `Recover` is stated for that case, while
a request that had found it may still recover.

`Ledger` is what the account promises: a question is asked once, has one of three ends, is
charged at most once and never more than was set aside for it before, or for an open-ended
question its excess over that (`Cover`), unless its
promise was taken back while its answer was still being written (`late`). An answer has a
price from the moment it is given; it is covered then, and charged exactly that when the
question leaves the books. `Book` instantiates it with `OpenEnded <- Assistant`, `fate` made of the state of the
run, `price` the usage stored with a completed message, `promised` the reservation, `charged` the bill,
`late <- {r : stream[r].overtaken}` and `status` of the key; `KeepsLedger` says that every step of
every process is an entry of these books or changes nothing there. One thing the books
have to allow shows what the code does: an answer that was given may still be withdrawn (`Fail`),
which is `OneTerminalState` below.

### Spaces

`account`, `tenant`, `member`, `base` and `grant` are the tables; rows of memberships and
grants are never deleted but switched off (`active`). `request[r]` is a request: its
step is the kind of authority it has read, then the check its transaction has made.
`alone` is a history variable that turns FALSE when another request commits in
between; with it a property can say which promise is kept by every request that runs by
itself, and which by all of them.

| Code | Actions |
| --- | --- |
| reading the session, the role and the access | `AuthoriseSpace`, `AuthoriseBase`, `AuthorisePlatform`, `AuthoriseCreation` |
| members of a space | `CheckAdd`, `AddMember`, `CheckChange`, `ChangeMember` |
| knowledge bases and their owners | `CheckCreate`, `CreateBase`, `CheckOwner`, `ChangeOwner` |
| grants | `CheckGrant`, `AddGrant`, `CheckRegrant`, `ChangeGrant` |
| `create_user`, `update_user`, `create_tenant` | `CreateUser`, `UpdateUser`, `CreateTenant`, `CheckTenants`, `InsertTenant` |
| a refusal or an error | `Ends` |

### Login

A counter is a name at an address, or an address. `failures` and `inflight` are its two
keys in Redis; the script that reserves adds the two and compares with the limit.
`request[r]` is a login with the password it was given (numbered as the account's
passwords are; 0 is a wrong one), later the session it opened; or a change of password.
`session[s].held` says that a browser has the token. History variables: `forgotten`, the attempts
that were at work when an `inflight` key expired; `late`, that the account has
changed since the login verified it; `lost`, the sessions nobody can take back.

| Code | Actions |
| --- | --- |
| `reserve_login_attempt`, `finish_login_attempt` | `Reserve`, `Finish`, `FinishFails` (`Settles`) |
| times to live in Redis | `ExpireInflight`, `ExpireFailures` |
| `authenticate` | `Verify`, `VerifyFails`, `Open` |
| the session taken back by `login` | `Revoke`, `RevokeFails` |
| `logout`, `revoke_session`, `change_password` | `EndSession`, `KnowPassword`, `ChangePassword` |
| `update_user`: reset, disable, enable | `UpdateUser`, `Enable` |
| death of the process | `Crash` |

### Defective variants

An operator marked DEFECT is the operator below it with a slip: a missing WHERE, a
comparison left out, a message acknowledged too early. No specification uses it. Put in
the place of the right one it must make TLC report the property it belongs to (the list
`mutants` of `PROJECT.json`): so each property is known to depend on a line of code.

## 4. Runs

All bounds are constants. Counters without a bound in the code (`outbox`, epochs,
parses, failures, requests) have one in the guards: `MaxEvents`, `MaxTrouble` (requests about
tasks, citations, profiles and failures of the environment together), `MaxEpoch`,
`MaxVersion`, `MaxGen`, `MaxLimit`, `MaxRequests`, `MaxLogins`, `MaxPassword`, `MaxForgotten`.

| Run | Instance | States | Result |
| --- | --- | --- | --- |
| `index_build` | 2 builds, 2 documents, 2 workers, 2 users, 2 batches, all faults, 3 events, 3 troubles | 2.2 M | `TypeOK`, `CompletedMeansReady`, `ItemListsAgree`, `FinishedItemsKept`, `KeepsOutcomes`, `StepsOfLifecycle` hold |
| `index_build_live` | 1 build, 1 document, 2 workers, 2 users, 2 batches, no fault of `Faults` | 560 K | `NoLostWork`, `JobsSettle` hold |
| `index_build_patrol` | 1 build, 1 worker, 1 user, fault `writeback` | small | `PatrolRecovers` violated |
| `index_build_late` | 1 build, 2 workers, 1 user | small | `LateWorkerRejected` violated |
| `document_parse` | 1 title, 2 versions, 2 workers, 2 requests, 1 profile of an administrator, 2 events, 2 troubles, with fairness | 460 K | `TypeOK`, `TaskTellsVersion`, `ResultHasItsArtifact`, `NoLostWork`, `EvidenceKept`, `ParsesSettle`, `VersionsSettle` hold |
| `release` | 2 documents, 2 parses each, 2 builds, 3 releases, 2 operators, 3 changes | 970 K | `TypeOK`, `OnlyActiveReady`, `OneReleasePerBuild`, `FreshBuildIsCurrent`, `PublishesCurrent`, `SwitchesToValidSources`, `KeepsEditions` hold |
| `release_frozen` | 1 document, 1 build, 1 release | small | `ServedContentFrozen` violated |
| `generation_account` | 2 runs, one of them the assistant's, limit up to 2, query 1, answer 1, excess 1, streams may stall, the key changes | 2.7 M | `TypeOK`, `AnswerIffCompleted`, `AccountBalances`, `AnswersArePaidFor`, `QuotaRespected`, `KeyStopsSpending`, `KeepsLedger` hold |
| `generation_terminal` | 1 run | small | `OneTerminalState` violated |
| `generation_interrupted` | 1 run, with fairness | small | `InterruptedRunsEnd` violated |
| `spaces` | 3 accounts, 3 spaces, 1 knowledge base, 2 requests at once, 4 in all | 290 K | `TypeOK`, `GrantsWithinSpace`, `OneSpaceEach`, `AdminKept`, `CustomersStayReaders`, `PlatformKept` hold |
| `login` | 2 names (1 account), 1 address, 2 requests at once, 3 logins, limits 1 and 2, 2 passwords, 1 session, with fairness | 730 K | `TypeOK`, `FailuresBounded`, `SessionsCurrent`, `NoOrphans`, `AdmitsAgain` hold |

Why the bounds are enough to be of interest. Three troubles make a redelivery, a
cancellation and a retry of one job, or a crash, a reparse and a failure; two workers and
two users are the least at which one overtakes another; two batches let a parse come
between them, and two documents let one item be finished when the other fails. In
`document_parse` two versions are an upload and its replacement or two documents that race for
the first profile, and two troubles a citation and a reparse, a crash and a cancellation, or a
redelivery that comes to another result under the new profile.
Two documents make manifests that differ in one place. Two builds make two releases, so
that the window of two retired releases never refuses in the run; that it refuses is
covered by the proof of `KeepsEditions`, and so is any larger instance.
A limit of 2 admits one complete run, or the retrieval of two and the answer of neither,
so that reservations are refused in the middle of a run; the excess of 1 makes a search of the
assistant that costs twice what was set aside for it. One version of a document with two
parses is what a build can be overtaken by; versions that replace each other differ from two
documents only in the manifest, and the theorems hold for any number of both. Three accounts are
an administrator of the platform and two members who can act against each other; four requests
make a member, an administrator, a grant and a change, in any order and two at a
time. The limits 1 and 2 let one name reach its limit without the other, and the two of
them that of the address.

Deadlock is not checked: the systems rest when every job is over, or when all bounds are
reached.

**What the passing runs say.** A completed task always has a ready build, and a build becomes ready
only when the chunks present at that moment are all embedded, whatever messages are repeated and
whatever parses come in between. Finished items survive failures, retries, cancellations and the
patrol; the one exception is a second worker that took the item up before it was finished. Without
the failures in `Faults`, every job is announced, queued or at a worker until it ends, although the
patrol itself announces nothing, and it does end. Whatever the job does to a build, the module of
releases allows for. A parse task and its version say the same whichever worker, request or handler wrote last;
a version with a result has an artifact of that result, though it need not be the newest one, by which
`create_build` goes (`lifecycle_routes.py:380-386`) and which then refuses the version;
evidence that was cited is never replaced, since the deletion is refused and its transaction with
it; and every parse ends, unless an event was given up or the database was out of reach when the job
began or its failure was to be reported (`lost`). A version stays in `processing` for ever only if
its task was cancelled.

Operators that publish and roll back at once leave
exactly one ready release, the active one; epochs that are equal mean manifests that are
equal; no switch exposes a document that is gone; and all of it together is the
history of `Publications`. Answers and completed runs go together, and all that happens to them is an
entry in the books of `Ledger`: a cancellation stands,
charges are made once and returned once, the quota is exceeded only by the further searches of the
assistant's questions that were charged (`Overdraft`; nothing, for a key that asks knowledge bases) or through a stream
that was silent for ten minutes and went on after its reservation had been taken back
(`overtaken`), which the comment at `core/api_keys.py:21` excludes, and a key that is not active
can only give back, or be charged such a search that was under way.

Grants and owners rest on memberships, and one user founds one space at most, in every
order of requests. The last administrator of a space or the platform, and the rule that a customer
has no grant, are kept by each request that runs by itself; they are lost through
transactions that overlap, through platform administrators (whose `update_user` makes none of
these checks), and, for spaces, through administrators whose accounts are disabled and who are
counted all the same. The properties name these ways, and the runs show that there is no other.
The limiter bounds failures by its limit plus the attempts it has forgotten, and forgets none
for ever; a session outlives the password it was opened with only if its login was between
verification and insertion when the password changed.

**What the violated properties say.** Each states a sentence of a comment or a
document that the code does not keep:

- `PatrolRecovers` (`jobs/builds.py:354`): a task taken back by the patrol has no event and
  no message, stays queued, and cannot be retried in that state.
- `LateWorkerRejected` (data-model document, line 107): there is no fencing; a late
  failure turns a completed task into a failed one.
- `ServedContentFrozen` (data-model document, line 36): a reparse replaces the chunks the
  active release serves and drops their vectors.
- `OneTerminalState` (RAG document, line 93): a disconnection after the answer
  is committed makes the completed run a failed one.
- `InterruptedRunsEnd` (RAG document, line 95): only runs with a reservation are found
  after a crash; others stay running and occupy a place of their key.

**Fairness.** `IndexBuild!Fairness`: Celery beat calls the dispatcher every 2 s and the
patrol every 30 s (`jobs/worker.py:18-27`), so `Dispatch` and `RecoverLeases` are weakly
fair; some worker takes a waiting message; a worker with a job carries it on; a lease of
five minutes runs out. Nothing is assumed of users, failures, crashes or parses, and a
request may hang for ever between two statements. `GenerationRun!Fairness`: the event
loop carries a stream on, and the key is used again, which is when stale
reservations are looked for, unless it is deleted. Fairness of `Recover` favours the code:
the violation of `InterruptedRunsEnd` does not come from a key left unused.
`DocumentParse!Fairness`: the dispatcher is called again and again, a waiting message is
taken by some worker, and a worker with a job carries it on; nothing is assumed of
requests, failures or redeliveries, and there is no patrol to help. `Login!Fairness`: a request
that is at work goes on or its process dies, and Redis lets a key with a time to live
expire; clients need do nothing.

## 5. Theorems

The proofs hold for every value of the constants that satisfies the named assumptions of
the modules; the bounds in the guards are arbitrary.

**IndexBuild_proofs**: `TypeCorrect`, `TaskFollowsBuild`, `ItemsAgree`, `OutcomesAreKept`,
`ReductionIsSound`, `ReadyIsEmbedded`, `FinishedAreKept`, and `WorkIsKept` for `Faults = {}`: all safety
properties of the two passing runs, with the refinement of `BuildOutcomes` and the steps of
`ReleaseLifecycle`. For `CompletedMeansReady` and
`ItemListsAgree` the invariant is each property with the domains of the two variables it is about,
and the two halves are proved apart because most steps touch one of them at most. For the first
half, every step that writes a task either writes a state other than completed or writes the build
ready with it, and every step that takes a build out of ready also writes its task; `CancelBuild`,
the only one that writes a build alone, spares a ready one (`Stopped`). For the second, a step
either marks one item alike in both lists or sweeps a list leaving finished what is finished
(`UnfinishedFacts`, `Sweep`, `ItemsAlike`). `TypeOK` is not inductive: that a worker writes no batch
after the last needs to know that it has a batch left when it is about to write, and a document left
when it is at one (`WorkersInv`); the other parts (`UsersInv`, `JobsInv`, `ContentInv`,
`NumbersInv`) are the types by variable. `ReadyIsEmbedded` rests on `FinishBuild` being the only
step that makes a build ready (`OnlyFinishMakesReady`).

`OutcomesAreKept` needs two invariants more. `KnownInv`: tasks, events, messages, workers and requests
are of builds that exist, without which a stray message could make a build that nobody asked
for pending. `FetchedInv`: the chunk ids a worker has fetched are those that are there, and then
there are some, or they stem from an earlier parse; so a batch that is written either belongs
to a part that stays or becomes covered (`WriteSeen`), or meets the foreign key and is not written.
`VisibleNext` says once what the steps of requests, patrol and workers come to for others:
a build gets a state (`Gets`), is created, its content changes, or nothing (`Hidden`). In `BuildOutcomes`
these are a move of one build's outcome (`MoveSeen`), nothing (`NothingSeen`), `Ask` (`CreateSeen`), and
`Parse` or `Spoil` (`ReparseSeen`). `ReadyIsEmbedded` states the part of it one would quote: a build becomes ready only
when all chunks present are embedded.

`ReductionIsSound` takes the same cases to `ReleaseLifecycle`: `LifeMoves` finds `FinishBuild`,
`FailBuild` or `RetryBuild` for a build that gets a state, `LifeCreates` is `CreateBuild`, for which no
build may be active and every document must have chunks, `LifeChanges` the deletion of document 0,
which moves the epoch and nothing else, `LifeParses` a parse that ends and `LifeEmbeds` the batch with which a document has
all its vectors. The bounds of the two modules are matched by `BoundedInv`: each change of the content is one
of the bounded troubles, so epochs and parses stay below `MaxTrouble`, which stands for `MaxEpoch` and `MaxGen`.

For `WorkIsKept`, every step leaves a job with
whoever looks after it, adds an event with the task that becomes due, or hands a job on:
from the event to the queue, from the queue to a worker, from a worker that dies back to the
queue, and out of a worker's hands only when the task is over (`WorkStays`, `WorkAdded`,
`WorkDropped`). The faults are excluded because each of them loses work.

**DocumentParse_proofs**: `TypeCorrect`, `TaskIsTrue`, `ResultIsStored`, `EvidenceStays`,
`WorkIsKept`: all safety properties of the run.
The invariant adds that whatever refers to a version refers to one that exists
(`KnownInv`) and that a version with a result has an artifact of that result
(`ArtifactsInv`). Nothing is assumed of what two executions of a task come to or of the order
in which they end: the transaction that writes the result writes its artifact, and
a later one that replaces this artifact writes the version again with its own result. `WorkIsKept` follows the jobs from hand to hand as
in `IndexBuild`, with the three failures not excluded but recorded in `lost`.

**ReleaseLifecycle_proofs**: `TypeCorrect`, `ActiveIsTheReadyOne`, `PublishedOnce`,
`FreshIsCurrent`, `PublicationIsCurrent`, `SwitchIsValid`, `EditionsAreKept`:
all properties of the passing run, the refinement of `Publications` among them. `FreshBuildIsCurrent` alone is
not inductive: a build whose epoch were ahead of the knowledge base could become level with it
without being current. `BuildsOfEpoch` adds that none is ahead. `PublicationIsCurrent` then follows
from the comparison of epochs in the preview, and `SwitchIsValid` from the checks of sources in both
transactions. For the refinement, `SwitchedEditions` says that a switch adds at most the edition of
its row and changes no other; `PublishAddsEdition` needs `BuildsOfEpoch` to know that what is added
is the present, and `RollbackShowsAgain` needs `OnlyActiveReady` to know that the retired releases
are all editions but the one shown.

**GenerationRun_proofs**: `TypeCorrect`, `AnswersAgree`, `AnswersPaid`, `CancellationFinal`,
`AccountIsBalanced`, `QuotaIsRespected`, `KeyStops`, `LedgerIsKept`: all safety properties of the
passing run, and the refinement of `Ledger`. The invariant has for each run three parts: `Phases`,
where the stream of a run in a given state can be; `Outlay`, what is reserved, spent and billed on
the way to `persist` as long as the run is `running` (the recovery takes it out of `running` in the
same transaction in which it settles); and `Paid`, that a completed run is charged in full or has
a reservation that knows all it owes and covers it but for the assistant's excess (`Beyond`). A lemma (`OthersStay`) says that a step of one run leaves the facts
of the others alone. For the account the invariant (`Balanced`) adds that the aggregates are the
sums of the rows, and that what a stream may still charge is covered by its reservation and the excess of its scope (`Within`)
unless the reservation was taken for abandoned. Then each step of a run moves the aggregates by what
it moves its own rows (`Follows`), and adds to what is used and set aside only by a reservation that
fits a key that is active (`Spares`); `Balanced`, the quota and the limits of an inactive key follow
from these two. That a reservation given back never exceeds what is set aside, so that `GREATEST(0,
...)` loses nothing, is a consequence of the sums, and the sums need the runs to be finitely many
(`RunsAssumption`).

For `LedgerIsKept` every step of a run is classified by what it means to the owner of the key
(`Entry`: a question asked, cancelled, answered, failed, a promise, a settlement, or nothing), and an
entry together with the sums of `Balanced` is a step of `Ledger` (`EntryIsWritten`,
`Commitment`). What a run of the assistant may use beyond its reservation is in `Ledger` what an open-ended question may
be charged beyond its promise; an answer has a promise in either case. The invariant needed besides `Balanced` is `Begun`: a stream is of a run that was
claimed, and lives past a failure only if its reservation was taken for abandoned. Without it a
stream could set tokens aside for a run that is over.

**Ledger_proofs**: what any keeper of such books can rely on. `LimitIsKept`: promises and charges
together stay within the limit and the excess of the open-ended questions that were charged,
unless a promise was taken back under its answer. `AnswersAreCovered`:
an answer is always either charged in full or has its price set aside, but for that excess. So the contract
that `GenerationRun` implements is strong enough to imply what its own theorems on quota
and cover say of it (for the quota, with aggregates that are the sums of their rows). Both assume finitely many questions, and amounts and limits that are natural
numbers (`Countable`), which the assumptions of `GenerationRun` provide.

**Sums**: `SumOfNothing` and `SumFollows`, that a sum over a finite set bounds each of its
terms and follows a change of one. The library's induction over finite sets takes an
operator as parameter, which no installed backend instantiates; the proofs
take a subset of least cardinality among the counterexamples instead (`SmallestSubset`), a
statement about sets.

**Spaces_proofs**: `TypeCorrect`, `GrantsStayWithin`, `OneSpace`, `AdminsAreKept`,
`CustomersAreReaders`, `PlatformIsKept`: all properties of the run. The invariant says what a
request remembers at each step: `Known`, which stays true whatever others commit, since
rows are never deleted, and `Fresh`, which is true as long as nobody else has committed
(`alone`). `Founders` adds that whoever is about to found a space holds the lock on their
account alone and has founded none.

**Login_proofs**: `TypeCorrect`, `FailuresAreBounded`, `SessionsAreCurrent`,
`NoOrphanSessions`: all safety properties of the run. `Counted` says that a
counter holds at least the attempts at work that it has not forgotten; with it the comparison in
the script bounds failures and attempts together. `ReadsCurrent` says that what a login
has verified is true until it is late, and `Hands` that only a login that has opened a session
remembers one.

**Model-checked only.** `JobsSettle`, `ParsesSettle`, `VersionsSettle` and `AdmitsAgain`
are liveness under fairness and need `ENABLED`: they stay with TLC. Every safety property of
a passing run is proved.

## 6. Plan

Done, in the order of their importance: jobs that may be lost or wrong (`IndexBuild`,
`DocumentParse`), releases that may be wrong and what they promise (`ReleaseLifecycle`,
`Publications`) and what they rely on (`BuildOutcomes`), answers that may be charged wrong and
the books they are in (`GenerationRun`, `Ledger`), and who may do what (`Spaces`, `Login`).

Left:

1. The contract between parses and releases, as `BuildOutcomes` is that between builds and
   releases: what `DocumentParse` guarantees of a version and `ReleaseLifecycle` relies on.
2. The review states of wiki entries with their optimistic versions.
3. Pure operators against reference definitions: chunking, the assembly of evidence
   within its budget.

## 7. Not modelled

- Text: prompts, answers, citations as such, error messages, formatting, locators.
- Scores, ranking, embeddings as numbers: floating point is out of TLC's reach.
- HTTP to model servers, file storage, the parsers of formats: their outcomes (success,
  failure, exception) are choices of the actions that call them.
- Provisioning of service keys at Open WebUI (`create_api_key`, `integrations/open_webui.py`):
  a protocol with another system of which the repository holds the client. The models start
  with a key that exists. Its hazard is in the list: the remote account is made before the
  local transaction, and its password is lost when that fails.
- Of identity: CSRF tokens, the origin check, the rate limiter of the management routes, expiry
  of sessions, authentication by key. Of administration: profiles, menus, model endpoints,
  settings.
- Expiry dates of keys: to the account they are a key that is disabled.
- Wiki entries; conversations, traces and feedback: rows of one user that no other part acts on.
- Evaluation, audit, health, configuration and the frontend: no state of theirs is read
  by what is modelled. The frontend's requests are possible at any time.
- Migrations: the modules have the schema of the latest one.
