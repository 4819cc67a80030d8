# A TLA+ model of Commons

This directory models the parts of `mncs_commons` (package
`src/src/mncs_commons/`) whose correctness depends on the order of events: the
crash-safe store and its compaction, the rules by which it admits entries, the
coordination of work on top of it, the local service and the public HTTP node
that serve it, the mesh that exchanges its records, the pressure ledger with its
compiled policy, and the family graph. The modules are checked with TLC on small
instances; the safety properties are also proved with TLAPS, for any number of
processes, records, requests, nodes and crashes (section 4.8 has the exceptions,
section 4 the hypotheses). Source references below are relative
to `src/src/mncs_commons/` unless they start with `docs/` or `scripts/`.

## 1. The system

### 1.1 Components

| Component | State it keeps | Operations | Talks to |
|---|---|---|---|
| Filesystem store, `store.py` | `ledger.jsonl` (hash-linked rows), content files, `.ledger-tail.json`, `.transactions/*`, `.writer.lock` | `init`, `add_record`, `add_event`, `add_snapshot`, `recover`, `current_cursor`, `sync_since`, `verify`, `install_generation` | everything above it; other processes through the directory |
| Semantic admission, `semantic.py`; lifecycle rules, `lifecycle.py` | none, they read the stored payloads | `record_semantic_diagnostics`, `validate_transition`, `derive_lifecycle` | store, under its lock |
| Compaction, `retention.py`, `archive.py` | pins, `.compaction-staging`, archives | `pin`, `unpin`, `compact`, `restore_archive` | store (`install_generation`) |
| Work coordination, `work.py`, `application/services.py` | records in the store; a work request is a chain of revisions | `submit_work`, `transition_work`, `claim_work`, `propose_work`, `work_next` | store, by digests read earlier |
| Family health, `health.py`, `application/services.py` | observations in the store | `family_health_sweep` | proposals, attachments and cancellations of work |
| Local service, `local_service.py` | service lock, two sockets, slots, recent request ids | start, accept, handle, close | store, clients |
| Public node, `http_server.py`, `visibility.py`, client `remote.py` | rate windows, loaded policy | routes, publication, sync | store, remote clients, local writers |
| Mesh, `mesh/`, with `bundle.py` | state file with origins, relay tables, bundle file | publish, pull, push, offer, capsules | stores of several nodes |
| Pressure ledger, `pressure.py` | one file per declaration, observation, event | add, observe, relate, transition, migrate, validate | kernel; checkouts that are merged |
| Pressure kernel, `pressure_runtime.py` | a session per process, a cache directory for all | `pressure_kernel` | compiler, build inputs |
| Family graph, `family_graph.py`, `scripts/reconcile_semantic_edges.py` | the checked-in graph | reconcile, check, generate facts | files of the family's repositories |
| Plans, `verification_plan.py`, `obligation_plan.py`; graph queries, `query.py` | none | validators, `bounded_graph` | callers |
| Validation and canonical form; adapters; command line; family record builders; reports | none | builders, filters, formats | store or services |

`PROJECT.json` lists every component with its source files and, where a part is
not modelled, the reason.

### 1.2 What is hard here

* **Crashes between file effects**: inside a commit, inside the installation of a
  generation, between a record and its origin mark, between an artifact and its
  receipt, and of a service that holds the store and two sockets.
* **Caches and marks that are written without a lock**: the tail file, pins, the
  state file of a node, the tables of a relay.
* **Check, then act over several reads**: `init`, claims, proposals, sweeps,
  publication under a capacity, transitions of a pressure, the reconciliation of
  a graph from files that are edited meanwhile.
* **Retry and recovery**: adds that were already done, requests whose client gave
  up, compactions that are started again, `recover` of a journal whose checks
  were made by a process that is dead.
* **Rules over history**: relations that move with a revision, dispositions of
  trust domains, a status that is replayed from merged events.
* **Limits**: rows, slots, remembered ids, rate windows, pages, batches, nodes of
  a graph answer.

The complete list, each at its line and with the properties that cover it, is
under `hazards` in `PROJECT.json`.

### 1.3 What makes the components correct

* Store: one append-only, admitted history, whatever crashes; what was reported
  as stored stays; a journaled entry is committed in the end.
* Compaction: only what has expired and is not protected leaves the hot ledger;
  what was settled stays retrievable; a cursor that is accepted skips nothing.
* Admission: revisions form a line, relations stay acyclic, a final disposition
  is final.
* Work and health: histories are legal, one of several claims wins, a submission
  that was acknowledged is the one that is stored, a current failure is not
  cancelled.
* Services: one owner of a store listens; slots come back; an answered write is
  in the ledger or in an archive; limits hold; withheld records stay; a client that
  goes on synchronizing misses nothing.
* Mesh: origins are true, delivery changes no record's state, a capsule is retained
  for what is lacking and wanted, records that the limit leaves reachable arrive.
* Pressure: both replays agree, no accepted transition is ignored, later news does
  not undo an accepted one; the kernel is that of the current source.
* Family graph: what a check passes is what the repositories declare.

## 2. Modules

| Module | Models | Uses |
|---|---|---|
| `Lifecycle`, `Semantic` | `lifecycle.py`, `semantic.py` and the checks of `add_event` | |
| `AppendLog` | the abstract specification: what the store promises | |
| `CommonsStore` | `store.py`: files, lock, transactions, crashes, recovery | `Semantic`, instance of `AppendLog` |
| `Compaction` | `retention.py`, `archive.py`, `install_generation`, `sync_since` | atomic adds, as promised by `AppendLog` |
| `WorkClaims` | `work.py`; `submit_work`, `transition_work`, `claim_work` | an append-only store |
| `FamilyHealth` | `propose_work`, `work_next`, `family_health_sweep`, `ProjectState` of `family_registry.py` | composed with `WorkClaims` |
| `LocalService` | `local_service.py`: servers, sockets, handlers, clients | a store reduced to committed and archived entries and a pending one |
| `PublicNode` | `http_server.py`, `visibility.py`, `remote.py`, `publish` and `sync` | `Traversal`, an append-only store |
| `Interest`, `Mesh` | `mesh/interest.py`, `mesh/capsule.py`; `mesh/node.py`, `transport.py`, `relay.py`, `bundle.py` | `Mesh` extends `Interest` |
| `Pressure` | `pressure.py` and the policy in `lifecycle.mncs` | |
| `PressureKernel` | `pressure_runtime.py`: sessions and the artifact cache | |
| `FamilyGraph` | `family_graph.py` and the two scripts that call it | |
| `Plans`, `Traversal` | the two plan validators; `bounded_graph` | pure operators |
| `Admission` | what is let in: histories under the rules of `Semantic`, and the plans that the validators accept | `Semantic`, `Plans`, instance of `AppendLog` |
| `CommonsStoreProofs`, `WorkClaimsProofs`, `CompactionProofs`, `LocalServiceProofs`, `PublicNodeProofs`, `MeshProofs`, `PressureProofs`, `FamilyGraphProofs` | theorems, section 4 | the module they are named after (`CommonsStoreProofs` also `Admission`, `WorkClaimsProofs` also `FamilyHealth`, `PressureProofs` also `PressureKernel`), `TLAPS` |
| `MC*` | instances for TLC; `MCAdmission` also states the property of the answers of `Traversal` | |

Definitions that are commented "Mutant of X" are deliberately wrong versions of
the definition that follows them. They are used by no specification; each is a
plausible bug which, put in the place of X, makes TLC report the property it is
paired with in `PROJECT.json`. They show that the property depends on the code.

### 2.1 `CommonsStore`

*State.* `created`, `ledger`, `torn`, `tail`, `contents`, `pending` are the
directory; `lock` is `.writer.lock`; `pc`, `item`, `row`, `seen` are the control
point and the local variables of each process; `acked` is the history variable
of entries that an add has reported as stored.

*Steps.* One step is one file system effect, or the reads between two of them.
Reads under the lock can be one step because everything they read is written
only under the lock, except the tail file, which is read once. `current_cursor`
holds no lock, so each of its reads is a step: `CursorStat` (size),
`CursorReadTail`, `CursorReadLast` (last line), `CursorReadRows`,
`CursorStatAgain` (the size that `_tail_from_rows` records), `CursorWriteTail`.

| Action | Code |
|---|---|
| `InitStart`, `InitLedger`, `InitTestTail`, `InitTail` | `init` |
| `AddEntry`, `AckDuplicate` | `add_record` and `add_event` up to `_commit`: lock, no pending transaction, checks, duplicate |
| `AddSnapshot` | `add_snapshot`: no content file, no journal |
| `LoadTail`, `RebuildTail` | `_load_tail_locked`, `_tail_from_rows`, `make_ledger_row` |
| `MakeTransaction`, `RejectOversized`, `WriteJournal`, `StageContent` | `_stage_transaction` |
| `WriteContent`, `StartAppend`, `AppendRow`, `SaveTail`, `RemoveFile`, `RemoveDirectory` | `_finish_transaction`, `_append_row`, and the same steps in `_recover_one_locked` |
| `StartRecover`, `RecoverOne`, `EndRecover` | `recover`, `_recover_one_locked` |
| `Crash` | the process dies, or an `OSError` or `KeyboardInterrupt` leaves the call |

*Data.* A row is its sequence number, its payload and the digest of its
predecessor. `canonical_digest` is taken to be collision free, so a digest is
represented by what it commits to (`EntryDigest`). The size of the ledger counts
two for a complete row and one for a partial one, which is all that the
comparisons of sizes can tell apart. An entry is a content digest; what the
checks read of it is in `Attr`.

*Two starting points.* `Init` is the store that `store init` leaves behind, and
`Spec` starts there. `FreshSpec` starts in an empty directory.

### 2.2 `Semantic` and `Lifecycle`

Pure rules over a history of content digests. `NextRevision`, `ReferencesAgree`,
`NoSelfRelation` and `HasCycle(RelationEdges(...))` are the four groups of
diagnostics of `record_semantic_diagnostics`; `EventAdmitted` is the check of
`add_event`. `DeriveForDomain` replays a history payload by payload
(`AfterPayload`: an event of the record and the domain whose first state is the
current one moves it, anything else is passed over).
`CurrentState` keeps a detail of the code: `add_event` looks a domain up as it is
written while `derive_lifecycle` strips the blanks of each event's domain, so an
event whose domain is written with blanks is always checked against `proposed`.

### 2.3 `AppendLog`

One variable, `history`: a completed add appends an entry that is not in the
history and is admitted after it; a snapshot may be appended at any time. The
refinement mapping is the sequence of payloads in the ledger
(`CommonsStore!Log`). `Admission` uses the same module directly: `Admit` is a
step of `AppendLog` up to a bound, without a file system under it, and
`AcceptObligationPlan` and `AcceptPlan` let in what the plan validators pass.

### 2.4 `WorkClaims`

`history[w]` is the chain of committed revisions of work request `w`; the digest
of a revision is its place in the chain, which is sound because the store admits
revisions only in a line (`RevisionsLinear`). A call is one action per read of
the store and one for its add:

| Action | Code |
|---|---|
| `SubmitRead`, `SubmitDuplicate`, `SubmitAdd` | `submit_work`, `duplicate_ack` |
| `TransitionRead`, `AddRevision` | `transition_work`, `revised_work_record`, `add_record` |
| `ClaimRead`, `ClaimActive`, `ClaimRevise`, `AddRevision` | `claim_work`: state of the work, active work of the lane and of the worker, `transition_work` |

`ValidWorkRecord` is `validate_work_record`, asked of every revision before it is
added, and `WorkAdmitted` is `work_semantic_diagnostics`, asked under the lock of
the store. Blockers, results, evidence and repository scopes are reduced to
whether they are supplied when the code requires them; a scope that is not one
repository is a property of the request (`ScopeInvalid`).

### 2.5 `FamilyHealth`

Extends `WorkClaims` by the requests as data (`request[w]`: lane, repositories,
finding, capability, dependencies) and by the sweeps of scanners. `Classify` is
the read of `propose_work`; it leads to a submission or to an attachment, each
committed in a later step through the actions of `WorkClaims`. A sweep publishes
an observation, then proposes for a FAIL (`ProposeFailure`), or for a PASS lists
the open work (`PassList`), scans the evidence of each item (`PassScan`) and
cancels it (`CancelTransition`, added later). `TakeNext` and `ContinueClaim` are a
worker who asks `work_next` and claims what it was offered. The history variables
are `tracked` (FAILs that were attached to or became work), `superseding` (PASSes
that cancelled it) and `unseen` (work that was committed while another request
was being proposed).

### 2.6 `Compaction`

A hot ledger of rows, content files, archives, pins, the staging directory and a
consumer's cursor. `compact` is cut at each read and each file effect:
`CompactRecords`, `CompactEvents`, `CompactSelect` (pins, protection, expiry),
`CompactArchive`, `CompactStage`, `CompactFill`, and the installation
`InstallStart`, `InstallLedger`, `InstallRemove`, `InstallMove`. Adds are atomic
and may fall between any two. A call keeps the ledger as it was at each of its
reads; `todo` is the set of entries still to be staged, which `CompactFill` goes
through in the order of those rows. `raced` holds the entries that were added while a
compaction ran; the properties except them, because they are lost (section 6).

### 2.7 `LocalService`

Two processes configured for one store: `AcquireOwnership`, `Prepare`,
`UnlinkStale`, `Bind`, `Listen` for each of the two roles, then `Accept` and one
handler per connection (`Drop`, `Reject`, `Admit`, `DispatchRead`,
`DispatchRecover`, `DispatchWrite`, `BeginWrite`, `EndWrite`, `Answer`), and
`StartClose`, `Join`, `Sweep`, `Exit`, `Crash`. A client connects, times out, and
sends the same request again. `store.compact` is a handler of its own: `CompactRead`
takes what is committed without a lock, `CompactArchive` archives it, `InstallStart`
waits for the writer lock and `InstallEnd` replaces the ledger; what is kept of it, and
how the files are replaced one by one, is `Compaction`. The store is what the
handlers can tell apart: the committed and the archived entries, the handler inside a
commit or an install, a transaction that a dead server has left (`stuck`; `stranded`
once an install has replaced the ledger it belongs to) and whether an install was cut
short (`torn`). `raced` holds what was committed while a compaction was under way.
`store.pin` and `store.unpin` change the file of pins, which no handler here reads, and
are answered by `DispatchRead`.

### 2.8 `PublicNode`

The ASGI application on one event loop, which a request gives up only while it
waits for its body: `Dispatch` counts the
request in the sliding windows (`Trim`, `Allows`, `Counted`) and answers the
routes that have no body; `Body` reads a chunk; `PublishGet` and `PublishAdd` are
the two steps of a publication, between which a local process may write
(`LocalAdd`); what the store refuses is `Diagnosed`: the first revision to arrive is
taken whatever its number, and then only the one that follows the latest. `Respond` is
the answer, or `RESPONSE_TOO_LARGE`: entries have sizes, in the answer and in the
capacity of the store. `SetPolicy` edits the policy file, which `Restart` loads. Ages in a
window stand for time stamps; `Tick` is the clock, and `DropOld` is the loop that
takes old entries from the front of a deque. The history variable `recent` lists
the requests that really were allowed in the last window, whatever the limiter
has in memory.

### 2.9 `Interest` and `Mesh`

`Matches` is the law of `matches` in `mesh/interest.py`; `CapsuleRecord` is the
record that a capsule lets a receiver see. A synchronization of a node over a
carrier (relay, bundle, other node) is `SyncStart` (frontiers), `SyncFetch`,
then per record `Ingest`, `MarkRead`, `MarkWrite` (the state file is read,
changed and replaced), then the push (`PushSelect`, the same three steps at the
other node). `OfferLoad` and `OfferSave` do the same for the tables of the relay.
Digests are numbers in the order of the sorted frontiers, because the code cuts
sorted lists at a limit (`FirstOf`). A batch is the set of what is left of the
list that the code goes through; `NextOf` is its next member, in the order of the
peer's ledger (`Place`) when a peer answered and of the digests otherwise.
`StateAt` is the state that the last event of a node's own ledger gives a record.
A call pushes on the links of `PushLinks`, with the interest that its caller gives it
and not the receiver's. `Reachable` names the records that pulls get to: what a node
leaves out for good and what comes before the record in the sorted list does not fill
the limit.

### 2.10 `Pressure` and `PressureKernel`

Documents of a checkout are sets; a call is one action per file effect
(`TransitionRead`, `TransitionWrite`, `CheckWritten`), and `Merge` takes the
documents of two checkouts together, as a version control system does with
files of distinct names. `Project` is the replay in Python, one `ProjectAdvance`
per step, which asks of the transition it takes that it `Follows`; `NativeFold` is
the one in the policy language, one `NativeAdvance` per step; `RegistryValid` is
`validate`. Instants are those that callers give (`discovered_at`, `observed_at`,
`occurred_at`), the clock being one of them, in any order. The history variable
`suspect` marks a checkout in which something was done that no call checks: an alias
declared twice (`AliasTaken`), an observation dated before an event of its pressure
(`Late`), a merge of registries that do not `Fit`, a check that failed.

`PressureKernel` has threads of processes that call `pressure_kernel`: digest and
stamp before the lock, the session that is kept under it, the identity of the
inputs, receipt and artifact of the cache, compilation, the two atomic writes.
`placement` says which threads share a process.

### 2.11 `FamilyGraph`, `Plans`, `Traversal`

`FamilyGraph` is one run of the reconciliation at a time, `ReadDeclaration`,
`ReadMetadata`, `BindEvidence`, `BindManifest`, `BindDigest` per repository and
then `Finish`, beside edits by the owners of the repositories at any time, the
removal of an evidence file included. The digest of a file is its content. `Plans` states the two validators as
predicates, grouped as the code groups its checks; `Traversal` is the breadth
first search of `bounded_graph` as a recursive function over rounds.

## 3. Runs

### 3.1 The runs

| Run | Instance | What it shows |
|---|---|---|
| `store_safety` | 2 processes, revisions `rec2a`, `rec2b` race for the place after `rec1`, a snapshot, unlocked cursors by both, 2 crashes, torn appends | `ChainValid`, `TrustedTailIsRight`, `PendingCommittable`, `AckedDurable`, `RevisionsLinear` |
| `store_fresh` | an empty directory, `init` by one process (again after a crash), two events that race for one disposition, one with a padded domain, an entry too large to journal, 2 crashes, fairness | the store starts right if no second `init` and no cursor runs before it is done; `ImplementsAppendLog`; `EventsTakeEffect`: no stored event is a dead letter; `FinalDispositions`: no step of the store leaves a final disposition; `JournaledCommits` |
| `admission` | all histories of up to 6 of 10 entries and a snapshot; all plans over two obligations | `RelationsAcyclic`; `AnswersBounded`: an answer is what the depth reaches, closest first, or is cut and says so; `PlansBacked`: the proof a plan claims is backed by evidence and covers its routing |
| `work_claims` | 2 workers, a shared-core request and one out of scope, 2 different submissions, 5 revisions | `HistoryLegal`, `OneClaimWins`, `SubmissionsAgree` |
| `work_single_writer` | 2 workers, 2 shared-core requests | **violated**: both claims pass the check of the lane (section 6) |
| `family_health` | 2 scanners, FAIL and PASS of one finding at three times, a worker, 3 requests, 3 sweeps | `SupersededByNewer`, `DuplicatesOnlyByRace`, `HealthyMeansSettled` |
| `compaction` | 6 entries with references and an event, a compactor, a pinner, a consumer, 1 crash, 2 compactions | `SettledRetrievable` (and archives restore), `SyncSkipsNothing`, `OnlyExpiredLeave` |
| `service` | 2 services on one pair of sockets, 2 connections that publish, read, recover and compact, 1 slot, a memory of 1 id, 1 crash, fairness | `OwnerListens`, `SlotsConserved`, `ReplaysRefused`, `OkMeansCommitted`, `ConnectionsEnd` |
| `pressure` | 2 agents with a checkout each, one merge, instants in any order, a pressure at `verifying`, a duplicate pair, two aliases, one of them of two declarations, a reworded legacy entry; and 2 threads of one or two processes, one edit, one death | `ReplaysAgree`, `NoTransitionIgnored`, `StaysValid`; `KernelSound`: of the sessions and of the shared cache |
| `mesh` | 2 nodes connected in four ways (one pulls and pushes, both pull with capsules on a relay, both share a relay, one reads a bundle and is pushed to), 4 identities, a limit of 2, 1 fault, fairness | `OriginsTruthful`, `PossessionOnly`, `TriageSound`, `Converges` |
| `public_node` | a following client and one that publishes two revisions in any order or reads, a local writer, 2 records and an event, pages of 2 of which some are too large, limits per source and for all that differ, 2 faults, both modes, fairness | `RateBound`, `WithheldStaysHome`, `IngestedOnce`, `Follows` |
| `family_graph` | 3 projects, 3 edits at any time | `CheckedIsCurrent`: graph, provider metadata and consumer index agree with the files; `GraphJoins` |

Each property is stated in words, with the sentence of the code or the documents
it is about, above its definition. Those of the store (the ones that no run lists
are parts of the inductive invariant and are proved, section 4):

* `ChainValid`: row *i* has sequence *i* and names the digest of row *i* - 1.
* `TrustedTailIsRight`: if the acceptance test of `_load_tail_locked` would take
  the tail file, the file says what the ledger says.
* `CursorsNamePrefix`: the tail file, and what a running `current_cursor` has in
  hand, name a prefix of the ledger, so a cursor of this store is never stale.
* `OneTransaction`, `PendingCommittable`: at most one transaction is pending; its
  journal is in the ledger already, or is the next row and still passes the
  checks that `add` made. `recover` is right not to repeat them.
* `NoDuplicateCommits`, `AckedDurable`, `ContentMatchesLedger`: an entry is
  committed once, what was reported stays, and content and ledger agree up to
  the pending journal.
* `ImplementsAppendLog`: every step appends one admitted entry or one snapshot
  to the history, or leaves the history alone.

`TypeOK` (`HealthTypeOK` in `FamilyHealth`) of a module says what its variables
range over. Those of `CommonsStore`, `WorkClaims` (a part of `WorkInv`),
`FamilyHealth`, `LocalService` and `Mesh` are proved; all of them hold on the instances above and
can be added to a configuration as an invariant.

Two runs hold two questions each, because their parts share no state: in
`admission` a plan is accepted or refused beside a history, and in `pressure`
the registry moves while the kernel is as at the start, or the other way round.

### 3.2 Bounds

*Store.* Two processes are enough for the races, since every one is between a
process that read and one that wrote in between; with a third nothing new can
hold the lock or the tail file, and the proofs cover any number. Two crashes let
a recovery crash as well. Three entries and a snapshot give a ledger in which a
stale tail can be of the right size, too short or too long, and a losing
revision. `MaxLedgerRows` is out of reach.

*Work and health.* Five revisions take a request through claim, run, block,
resume and completion. Three sweeps are a FAIL, a PASS and a later FAIL in any
order and overlap; three requests are one that is found, one that depends on it
and one that does not validate.

*Compaction.* Two compactions make a generation of a generation; one crash
between any two file effects, followed by a second compaction, is what an
operator meets. A second compactor shares the staging directory (section 6).

*Service.* One slot and a memory of one id are the limits at which slots and
replays can go wrong; two services make take-over and a late close meet. Each
connection sends one request, so that no id is dropped from the memory here; the
theorem `NoReplay` covers memories of every size and any number of requests. One
connection publishes or reads while the other publishes the same record, recovers or
compacts, so that a write meets a compaction of the other handler at every step, and
their servers may die in the commit or in the install.

*Pressure.* Two agents and one merge give two heads; `MaxDocuments` lets each
agent add one document, which is what the other has not seen. Two instants, 0 and 1,
let an event be dated before or after what is observed. Calls in different checkouts
are made one after the other, as they share no documents, and after the merge only the
checkout that was merged into goes on (`OneAtATime`, `Merged`). The start is a
pressure one step before `resolved`, since the interesting requirements are
those of that step. The kernel was also explored with three threads and two
edits (14 million states), with the same result.

*Mesh.* The limit of two cuts the three identities that a peer may lack: an event,
which nobody hands over, and two records, so that a record that is wanted comes in a
second call. The record of the other project and the event are what is left out and
takes room below the others; both nodes make one record, so that it is published where
it was received before. While one call marks what it pushed to a node, the node marks
what it publishes, and marks are lost. In each of the four ways to be connected the
carriers interact that could disturb each other; all of them at once are too many for
TLC and are covered by the theorems for everything but `Converges`.

*Public node.* One read per source and two for all, two writes per source and one for
all let each limit be met by itself. A page of two entries may be withheld as a whole or
be larger than `MaxResponse`. Two faults allow an edit of the policy and the restart
that loads it. The publishing client reads only from a node that takes no
publications (`Does`), which keeps the instance small.

*Family graph.* Three edits can change declaration, evidence and manifest
within one run and between two.

Symmetry permutes processes that play the same parts, in runs without liveness.
Deadlock checking is off where bounded histories, clocks or calls end
(`CHECK_DEADLOCK FALSE`); it is on in the runs of the store, of claims, of the
local service and of the graph, where another call can always start.

### 3.3 Fairness

* Store: a call that has begun goes on (`WF` on `Continue(p)`): the calls are
  sequential code without waiting once the lock is held; and an operator runs
  `store recover` on a store that reports `PENDING_TRANSACTION`, which is what
  that diagnostic asks for. None on crashes, new calls or who gets the lock.
  Appends are whole in this run: after a torn append the ledger is unreadable
  until an operator repairs it ("a partial ledger line ... fails verification",
  `docs/PROTOCOL.md`).
* Service: the threads of a service and of its handlers go on (`Progress`,
  `Handle`); each of their waits has a timeout in the code (accept, receive) or
  ends with the holder of the lock. None on clients, starts, closes or crashes.
* Mesh: a call goes on, and each link is synchronized again and again (`SF` on
  `SyncStart`), which is the "continued opportunity to exchange" of
  `docs/COMMONS_MESH.md`. The run asks it only of the links that push, which is
  enough there.
* Public node: time passes, the event loop takes what is ready in turn (`SF` on
  `Handle(c)`: a publication that holds the loop in between does not put others off
  for good), and the following client goes on synchronizing. Nothing is assumed of
  what the limiter allows: `Follows` holds for a client that has its source to itself
  and whose share of the limit for all is not taken by other sources (`Unstarved`),
  and as long as its page is not too large for an answer for good (`Blocked`).

## 4. Proofs

The theorems hold for every value of the constants that satisfies the named
assumptions of the modules. TLC evaluates those assumptions in every run. They
say what kind of thing a constant is (a bound is a number, `NoProc` is not a
process, the socket paths of one service are two, a link joins a node to another
carrier) and, where a model starts from given files, that those are files the
program writes (`MeshAssumption` of what was produced before a node was
connected, `PressureAssumption` of the first documents and events), and that
instants can be compared (`HealthAssumption` of observations,
`CompactionAssumption` of records).

Some theorems have a hypothesis on the constants beyond those assumptions,
stated in the theorem (`ASSUME ... PROVE`). Each holds in the run that checks the
property. One of them, `PriorValid`, is about the start; each of the others is there
because the property fails without it, in a way that section 6 describes.

No property below is inductive by itself. Each proof module defines the
invariant that is (it is the theorem named `...Invariant`), proves one lemma per
action or group of actions, and derives the properties from it.

### 4.1 Store: `CommonsStoreProofs`

| Theorem | Statement |
|---|---|
| `TypeCorrect` | `Spec => []TypeOK` |
| `StoreInvariant` | `Spec => []StoreInv` |
| `Chained` | `Spec => []ChainValid` |
| `TailTrustworthy` | `Spec => []TrustedTailIsRight` |
| `CursorsFresh` | `Spec => []CursorsNamePrefix` |
| `Recoverable` | `Spec => [](OneTransaction /\ PendingCommittable)` |
| `CommitsOnce` | `Spec => []NoDuplicateCommits` |
| `Durable` | `Spec => [](AckedDurable /\ ContentMatchesLedger)` |
| `StoreImplementsLog` | `Spec => ImplementsAppendLog` |
| `RevisionsInLine` | `Spec => []RevisionsLinear` |
| `NoDeadLetters` | `Spec => []EventsTakeEffect` |
| `DispositionsFinal` | `Spec => FinalDispositions` |
| `RelationsStayAcyclic` | `Spec => []NoRelationCycles` |
| `FreshInvariant` | one process runs `init`, no cursors: `FreshSpec => []FreshInv` |
| `FreshImplementsLog` | the same: `FreshSpec => ImplementsAppendLog` |
| `FreshNoDeadLetters` | the same: `FreshSpec => []EventsTakeEffect` |
| `FreshDispositionsFinal` | the same: `FreshSpec => FinalDispositions` |
| `AdmittedAcyclic` | `AdmissionSpec => []RelationsAcyclic` |
| `AcceptedPlansBacked` | `AdmissionSpec => []PlansBacked` |

That the chain stays valid depends on the row in the writer's hand being still
the next row when it is appended, which depends on the tail it was made from
having been right, which depends on what cursors may have written into the tail
file. `StoreInv` says what holds at each control point:

* `LockInv`: exactly the lock holder is at a control point inside the lock;
* `StageInv`: what the holder's transaction directory contains there, and that it
  is the only one;
* `RowInv`: from the checks to the append, the row in hand is the next row and
  its entry is still admitted and not committed; after the append it is the last
  row; its content file is there before the append;
* `TornInv`: an append starts on a ledger of complete rows only;
* `TailInv`, `CursorInv`, `CursorsNamePrefix`: the tail file and every cursor name
  a prefix, and an empty tail is recorded only for an empty file. The digest of a
  row determines its place, so a tail that names a prefix and matches the last
  row is the right one (`TrustedRight`). The second part is what fails when a
  cursor is taken before `init` has written the tail (section 6);
* `StartedInv`: once there is a ledger no `init` is about to write another. Where
  cursors are taken the tail file is there too; where none are, `init` may still
  have to write it.

Each part has a lemma that every step preserves it (`StepLock`, `StepStage`,
`StepRow`, ...); `StepFrame` and `StepOther` show that a step leaves the parts of
the other processes alone because only one holds the lock; `StepInv` puts them
together. So far `Admitted` is an arbitrary predicate of an entry and a history.
The refinement (`StepRefines`) shows that `AppendRow` is a `Commit` or a
`CommitSnapshot` of `AppendLog`, by `RowInv`, and that every other step leaves the
payloads unchanged.

The next four theorems look into the rules, and use the refinement in place of
the files: the history changes only by an entry that is admitted after it, or by a
snapshot. `RevisionsInLine` follows from `NextRevision`, `RelationsStayAcyclic`
from the check for cycles on the history with the new entry, and the two about
events from `DeriveForDomain`, of which it is shown that the replay of a longer
history begins with the replay of the shorter one.

*From an empty directory.* `init` writes the ledger and the tail in two steps
without the lock. Writers may be at work between them, because a ledger without a
tail is one whose tail is rebuilt. The second write then puts the tail of an empty
ledger over the tail of the first writer; nobody trusts it, since its size is not
that of the file. `FreshInv` is therefore `BlankInv` (the empty directory, in which
`init` may be about to write the ledger) or `StoreInv`, whose part `StartedInv`
allows the second write to be still to come, and `TailInv` allows the empty tail
only for an empty file. TLC found no state outside `FreshInv` on the instance of
`store_fresh` with torn appends. The two hypotheses, `OneInitialiser` and
`CursorProcs = {}`, are there because of section 6: a second `init`
replaces a ledger in use, and a cursor between the two writes records an empty
tail that is trusted.

*Admission.* `AdmissionInv` says that the check for cycles passes on the history
and that the plan was accepted. The check looks for a set of records each of which
has a successor in the set, which is how `_has_cycle` ends; `RelationsAcyclic` says
that no record is among its own descendants. They are joined by `Leads`: if *y* is
reached from *r* in some number of steps, then a set of nodes leads from *r* to
*y*, each of them having a successor that is in the set or is *y*; with *y* = *r*
the set is a cycle. `AcceptedPlansBacked` follows from what the two validators ask.
The first attempt at it failed: `ValidSelection` lacked the check that a plan's
routing is in the vocabulary (`verification_plan.py:322`), without which a plan
with a routing of no known kind would have been accepted; the model has it now
(`RoutingScopes`) and the instance a plan with such a routing.

### 4.2 Work: `WorkClaimsProofs`

| Theorem | Statement |
|---|---|
| `WorkInvariant` | `Spec => []WorkInv` |
| `HistoriesLegal` | `Spec => []HistoryLegal` |
| `ClaimsExclusive` | `Spec => []OneClaimWins` |
| `SubmissionsStored` | `Spec => []SubmissionsAgree` |
| `HealthInvariant`, `HealthTypesOK` | `HealthSpec => []HealthInv`, `HealthSpec => []HealthTypeOK` |
| `PassesNewer` | `HealthSpec => []SupersededByNewer` |
| `DuplicatesRaced` | `HealthSpec => []DuplicatesOnlyByRace` |
| `HealthySettled` | no transition asks for `SUPERSEDED`: `HealthSpec => []HealthyMeansSettled` |

A claim is decided in three steps: a read, a look at the active work, an add.
`ClaimsInHand` says that the revision which the claim named is still claimable or
is no longer the last; in the second case the store refuses the add, so of two
claims of one revision the later one fails.

The same holds of a PASS that cancels: between its scan and its add a FAIL may be
attached, but then the work has another revision. `HealthInv` has for each session
what it read (`SessionInv`: a scan found no FAIL as late as the PASS up to the
revision that it is about to supersede; a proposal that is about to be submitted
has no open duplicate but what came after its look, which is in `unseen`), that
what was tracked is a stored FAIL of its work, and that superseded work stays so
(`RecordedInv`). `Extended` is what every step may do to the store: histories and
observations grow, requests stay, closed work stays closed. `HealthySettled` needs in addition that superseded work has a PASS
that superseded it (`SupersededByPass`). Its hypothesis `NoWithdrawal` says that
workers do not ask for `SUPERSEDED` themselves: the transition tables allow them
to, and work that was withdrawn in this way counts as settled although no PASS of
its finding has come.

### 4.3 Compaction: `CompactionProofs`

| Theorem | Statement |
|---|---|
| `NothingSettledIsLost` | `Spec => []Retrievable` |
| `SettledStaysRetrievable` | one compactor: `Spec => []SettledRetrievable` |
| `CursorsSkipNothing` | `Spec => []SyncSkipsNothing` |
| `OnlyExpiredEverLeave` | one compactor, one pinner: `Spec => OnlyExpiredLeave` |

`RetrievalInv`: from the moment a compaction has read the records, what was
settled is among them or in an archive, because what is added after that is not
settled; once its archive is made, all of it is in an archive and the hot ledger
may be replaced by anything. That archives restore needs `RestoreInv`, that what a
compaction has in hand before it archives is still the ledger; a second compactor
breaks this (section 6), hence the hypothesis `OneCompactor`. `CursorInv`: the rows
that the digest of a consumer's cursor stands for were seen.

`OnlyExpiredEverLeave` follows a record from the choice to the installation, which
may be days and several calls of `pin` later. `LeaveInv` says of a compaction that
the records it read cover what is hot (what raced aside), that each record it does
not keep may leave (`MayLeave`: expired, not pinned unless it raced, not in the protection
graph), and that each it keeps is still to be staged or is in a row of the staging store.
What may leave still may when days pass. `ProtectionGraph` is a recursive function
over rounds; that its last round is closed under references, and so is the set
without the record that the property asks for, is shown by counting: a round that
adds nothing ends the growth, and there are more rounds than records. A second
compactor may install another's half-filled staging directory, and of two pinners
the slower one writes back a file without the other's pin (`OnePinner`). TLC
checked `LeaveInv` on an instance of 3,917,636 states before it was proved.

### 4.4 Services: `LocalServiceProofs`, `PublicNodeProofs`

| Theorem | Statement |
|---|---|
| `ServiceInvariant`, `ServiceTyped` | `Spec => []ServiceInv`, `Spec => []TypeOK` |
| `OnlyOwnerListens` | `Spec => []OwnerListens` |
| `SlotsBalance` | `Spec => []SlotsConserved` |
| `NoReplay` | `Spec => []ReplaysRefused` |
| `OkIsStored` | `Spec => []OkMeansCommitted` |
| `LimitsHold` | `Spec => []RateBound` |
| `WithheldIsKept` | `Spec => []WithheldStaysHome` |
| `PublishedOnce` | `Spec => []IngestedOnce` |

`ServiceInv` has a part for each property: `SocketInv` (what a start has bound so
far, and that whoever is between its start and its end owns the lock), `ConnInv`
(what a handler is about to say is committed, archived or raced), `CompactInv` (what a
compaction has read covers what was committed, up to what raced it, and is archived
before it installs), `SlotInv`, and `MemoryInv` (the deque of ids is the end of all that was admitted).

The public node has three independent invariants. `LimiterInv`: a window holds
what it has not dropped yet followed by the requests of the last window, oldest
first, so what `_trim` leaves is what was allowed. `PublishInv`: one publication
at a time is between its read and its add, and if it did not find its record, no
publication of that record was answered 201, although a local write may have
stored it. `PrivacyInv`: what each start found withheld is withheld now.

### 4.5 Mesh: `MeshProofs`

| Theorem | Statement |
|---|---|
| `MeshInvariant`, `MeshTyped` | `Spec => []MeshInv`, `Spec => []TypeOK` |
| `MarksTruthful` | `Spec => []OriginsTruthful` |
| `DeliveryPromotesNothing` | `Spec => []PossessionOnly` |
| `TriageIsSound` | `Spec => []TriageSound` |

Stores only grow (`Grows`, shown of every step by `StepKeeps`). So what a call
took from a peer or selected for one is still held there when it is marked, and
the state file that a call read, however stale, still holds only true marks when
it is written back. `MeshInv` says this of every call in progress (`CallOK`) and
bounds the relay's tables, also as a call has them in hand. `DeliveryPromotesNothing`
needs that a batch which is being ingested holds records only: a frontier also names
events, so this is a fact about what the carriers hand over. `TriageIsSound` rests on
`CapsuleClaimsLess`: what a capsule leaves out of a record could only have made it
match more.

### 4.6 Pressure: `PressureProofs`

| Theorem | Statement |
|---|---|
| `RegistryInvariant` | `Spec => []RegistryInv` |
| `ReplaysAlwaysAgree` | `Spec => []ReplaysAgree` |
| `NoneIgnored` | `Spec => []NoTransitionIgnored` |
| `ValidRegistriesStay` | a checkout each, valid at the start: `Spec => []StaysValid` |
| `KernelInvariant` | `KernelSpec => []KernelInv` |
| `KernelIsSound` | `KernelSpec => []KernelSound` |

`RegistryInv`: events carry the numbers in which they were made, each follows an
earlier one, what was acknowledged in a checkout is in its documents, and the
event that a failed check would remove is nobody else's. The two replays are
recursive functions over the number of steps; that they agree is shown for any
finite set of transitions, by taking the first step at which they would differ.
A replay that ends valid has taken one transition in each step, and because the
numbers grow along it they are distinct, hence all of them.

`ValidRegistriesStay` is about `RegistryValid`, which is `validate`: every check it
makes is shown to survive every kind of document that a call can add. The difficult
one is a replay that rests on observations: an event was judged on what it refers to
and on what was observed before its instant, and an observation that is not `Late` is
not among that, whatever instants callers give. `ValidInv` says in addition that what a
call has written and not yet checked can be taken back, after which the documents
are valid (`ValidBut`). A merge is taken apart into what both sides have and what each
has alone (`ValidWithMore`, `ValidTogether`): when they fit, every pressure has the
events of one of them, and what the other one knows more of it changes no event. Its
hypotheses: an agent has its checkout to itself (`OwnCheckout`; in a shared one, taking
back a declaration leaves the observation that another agent has recorded of it without
its pressure), and the first documents are valid (`PriorValid`).

`KernelInv` needs no history of the inputs: what a call read at the present number
of edits is what the inputs are now.

### 4.7 Family graph: `FamilyGraphProofs`

| Theorem | Statement |
|---|---|
| `GraphInvariant` | `Spec => []GraphInv` |
| `CheckMeansCurrent` | `Spec => []CheckedIsCurrent` |
| `GraphsJoin` | `Spec => []GraphJoins` |

That a graph joins is a fact about `generate_graph`. That a check means something
needs what the run has read so far: it agrees with the files as long as no edit
fell into the run.

### 4.8 Only model-checked

* Liveness: `JournaledCommits`, `ConnectionsEnd`, `Converges`, `Follows`. Temporal
  reasoning with fairness is outside the prover's fragment.
* `AnswersBounded`: what a fold over the data of a graph computes, compared with
  the distance it stands for. It needs an induction over that data. TLC checks it
  for all requests of the instance.

Every other property of a passing run is stated by a theorem.

## 5. What is left out

* `store.py`: `verify`, `query` and the other reading calls change nothing and
  are not actions. `verify` reads the ledger and the content files without the
  lock, so that its verdict can be wrong for a moment while a commit is under
  way; `LocalService` lets it give any verdict (`Verdicts`).
* An append is cut inside the JSON of its row. The cut between the JSON and its
  newline, after which the last line still parses and the next append continues
  it, is not modelled; the safety results hold for the other cuts.
* Disk failures that lose or reorder written data are not modelled; the code
  calls `fsync` on what it writes. A file of the pressure registry is written
  whole here, although `_write_json` does not replace it atomically.
* The skip of repeated event digests in `derive_lifecycle` is left out: a digest
  occurs once in a ledger (`NoDuplicateCommits`).
* The binding of producer references in `semantic.py` keeps the first reference
  of a stable id even when it carries no digest, so two later references with
  different digests are both admitted. No document gives a rule for this, and no
  property is stated.
* Frames, headers, JSON shapes and field-by-field validation are reduced to
  well formed or not. Views, budgets and blobs of the mesh and its native
  executor (which decides the same law in batches) are left out.

### Not modelled

Validation and canonical form, adapters, epochs, compatibility and evidence
reports, the record builders of `family.py`, `family_change.py` and
`family_projection.py`, `architecture.py`, `lane_policy.py` and the command
lines keep no state and have no order of events: they map arguments to a
document or a report. A model of them would repeat their tables. What they
produce enters the modelled parts as an entry or a request.

## 6. Disagreements and observations

`work_single_writer` is the run in which TLC refutes a document:
`docs/PARALLEL_WORK.md:163` says that a claim enforces a single writer of the
`SHARED_CORE` lane, and two workers who claim two requests both pass the check
(`findings` in `PROJECT.json`).

What follows was seen in the code while modelling it. Properties above that name
an exception (`raced`, `unseen`, `suspect`, `Experiments`) are stated so that
they hold in spite of it.

*Store.*
* A crash between `mkdtemp` and the journal, or while `rmtree` runs, leaves a
  directory that `recover` rejects for ever, and no writer is let in
  (`store.py:271`, `316`).
* A cursor taken before `init` has written the tail file can record an empty tail
  with the size of a ledger that has a row by then; the next add trusts it and
  starts the chain anew (`store.py:213`, `441`).
* The slower of two `init` calls replaces a ledger that may hold an acknowledged
  entry (`store.py:140`).
* The append that passes `MAX_LEDGER_ROWS` is acknowledged; nothing can be read
  after it (`store.py:177`).

*Compaction.*
* An entry that is added after the records were read is in neither the new
  generation nor, depending on the moment, the archive; an interrupted
  installation leaves the new ledger with the old content files, while
  `docs/INFORMATION_LIFECYCLE.md:93` says that the previous hot store remains.
* Two compactions share `.compaction-staging`, and an archive that one of them
  makes from rows which the other has replaced since does not always restore
  (`SettledStaysRetrievable` is therefore proved for one compactor; that what was
  settled can still be loaded is proved for any number); pins are read and written back
  without a lock (`retention.py:248`).
* A kept revision whose predecessor has expired is refused by the staged store,
  so that compaction fails until it expires as well.

* `store.compact` of the local service replaces the ledger beside the handlers of
  other connections: what one of them was told is stored is lost when it was committed
  between the read and the install (`raced` in `LocalService`). Compaction does not ask
  for a pending transaction: one that is there when the ledger is replaced is no longer
  its next row, and `recover` refuses it from then on (`stranded`). A service that
  dies in the install leaves a store that may not verify (`torn`).

*Work and health.*
* A project with no work and a latest FAIL, or with no observation, has the posture
  that the registry gives it: a registry that says `HEALTHY_NO_WORK` is believed
  (`family_registry.py:362`); in the packaged one every project is `NEEDS_REVIEW`.
* A worker who resumes blocked work while owning another claim has two
  (`docs/PARALLEL_WORK.md:47`).
* A proposal that duplicates work in `NEEDS_RECONCILIATION` does not attach
  (`docs/PARALLEL_WORK.md:118`). Attaching moves the coordination state of work
  in which it differs from the default of its state. A lane that is not listed
  raises. A PASS cancels only work that is `AVAILABLE`. An error in the middle of
  a sweep leaves the later observations unread. Two equal proposals that race
  both become `AVAILABLE`. A worker may move work to `SUPERSEDED` by hand, after
  which a PASS of any other finding makes the project healthy.
* `docs/PARALLEL_WORK.md` also allows `AVAILABLE` and `CLAIMED` to move to
  `NEEDS_RECONCILIATION`, which `_COORDINATION_TRANSITIONS` does not; and it maps
  `CLAIMED` to the states `assigned` and `queued`, while a transition that names
  the coordination state it finds may cancel work and leave it `CLAIMED`
  (`work.py:955`).

*Public node.*
* The conversation route falls through to the evidence trace; the route of an
  experiment returns it although it is withheld (excepted in
  `WithheldStaysHome`); edits of the policy are not seen until a restart, and are
  read, changed and written without a lock.
* Local writes between the check and the add carry the ledger beyond its
  capacity; the retry of a stored record at capacity is refused as if it were
  new. The list of open work is cut before it is filtered.
* A page that is larger than `max_response_bytes` is answered with 500 whenever it is
  asked for, and carries no cursor: a client that does not ask for fewer entries
  stops there for good (`http_server.py:312`, `Blocked`).
* Clients that share a source, or a limit for all that is below the sum of the limits
  of the sources, let busy clients starve others (`Unstarved`).
* The first revision of a record to arrive is taken whatever its number; the earlier
  ones are refused from then on (`semantic.py:81`).

*Mesh.*
* The list of missing records is cut at its limit before the interest is
  applied, and events are in the frontiers though no carrier hands them over: events,
  large records and records of no interest can keep one of interest away for good when
  they fill the limit, against "both nodes eventually possess the same set of relevant
  immutable record identities" (`mesh/node.py:18-23`). `Converges` is therefore stated
  of the records that they leave reachable. The receiving gate judges without a
  lifecycle state.
* A push is given `match_all` unless its caller says otherwise, and nothing in the
  repository does (`mesh/transport.py:266`): a peer is given records that are of no
  interest to it, and keeps them.
* The frontier of a relay names the records that capsules announce; a node
  that holds one takes it for held by the relay and does not offer it, although the
  relay has the capsule only (`mesh/relay.py:171-174`).
* Records are imported in the order of their digests, so that a second revision
  may come before the first; `receive_records` catches `MeshError` only, and the
  refusal of the store (`StoreError`) ends the exchange (`mesh/node.py:588`).
* Origin marks are lost by crashes and by races of two calls; those that are
  there are true (`MarksTruthful`).
* `publish_local` of a record that was received before marks it as local
  (`mesh/node.py:390-391`).

*Pressure.*
* Instants are the caller's. An observation that is dated before an accepted event, or
  recorded after an event that was dated in the future, changes what the event rested
  on and can make it invalid (`pressure.py:1240`, `1441-1448`). `add` stores aliases as
  they are given; `validate` reports the second owner of one (`pressure.py:990-992`,
  `1784-1791`). These are two of the ways out of `StaysValid` (`suspect`); without any
  one of them TLC finds the property violated.
* A `duplicate_of` relation in either direction satisfies the requirement.
* In a checkout that two agents share, the unlink after a failed validation can
  remove an event or a declaration that another agent has built on. A kernel error inside
  `validate` leaves the new event in place.
* An edit of the build inputs between their digest and the compilation stores
  the artifact under the identity of the old inputs, where every later process
  with those inputs finds it (`pressure_runtime.py:227-297`; `raced` in
  `PressureKernel`). The stamp that is kept was read before the lock, which costs
  a rebuild and never keeps an old session; sessions that are replaced stay open.

*Family graph and plans.*
* `generate_provider_facts.py` writes no evidence digests, so that the freshness
  check has nothing to compare; the manifest is read twice; the graph is not
  replaced atomically; a participation file without participants disables the
  membership check.
* Outside the `repository_canonical` scope an obligation plan may stop without
  evidence; a plan may claim a local proof while its own impact edges name
  consumers; the binding to a source revision is optional.

## 7. Plan

Done: all modules of section 2 and the theorems of section 4.

1. `CommonsStore`: the cut before the newline, with its proofs.
2. `LocalService` and `PublicNode` over the log of `CommonsStore` in place of
   their reduced stores.
