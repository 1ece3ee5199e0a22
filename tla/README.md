# AKB in TLA+

AKB is a knowledge base for agents: documents, files and tables in vaults, kept
in PostgreSQL, searched through a vector index and followed through change
events. These modules model the parts of its backend where several processes,
retries and crashes meet. TLC checks them on small instances; TLAPS proves the
central ones for every value of the constants.

In the inventory a component in bold is modelled, in whole or in part.

Paths below are relative to `src/backend/app/` unless they begin with `docs/`.

## 1. Inventory

| Component | State | Operations | Talks to | What is hard | What makes it correct |
| --- | --- | --- | --- | --- | --- |
| **Native revision ledger** `services/native_revision_service.py`, `repositories/native_revision_repo.py` | resources (lifecycle, path, Head), path aliases, revisions, mutation ids; advisory and row locks | create, replace, move, delete, restore, with retries under one mutation id | everything that stores text; leaves an event and an invalidation intent in each commit | four kinds of lock taken in steps; values read before a lock is granted; answers lost after a commit | each request happens at one instant on the resource its reference names; paths are unambiguous; history is one line; a key commits once; no deadlock |
| **Derived index worker** `services/native_derived_worker.py` | intents (outcome, attempts, lease), derived heads | close outranked intents, claim, apply or delete, fail, rescue | ledger (reads Heads), chunks | leases that run out under a slow worker; a Head that moves during the work | search never goes back to an older Head; a healthy status is true; work ends |
| **Embed and delete workers** `services/embed_worker.py`, `delete_worker.py`, `index_service.py` | chunks, delete outbox, the points of the store | insert, drop, reap, embed, delete, rescue | vector store, in the transaction (pgvector) or over the network | the store is outside the transaction; chunks go while they are embedded | no point without a chunk or a pending deletion; what is marked indexed is in the store |
| **Event outbox and publisher** `services/events_publisher.py`, `repositories/events_repo.py` | events (published, abandoned, attempts, lease), the Redis stream | emit, claim a batch, XADD, mark, fail, release, rescue, sweep | Redis | XADD that fails after it was done; overlapping leases; batches half done | table and stream agree; copies are bounded; nothing is given up early; all come to rest |
| **Event tail** `services/event_tail_service.py` | position, fetched rows, wakeup, the client's cursor | open, check the role, query, send, wait, resume | events table, access control | ids committed out of order, purge, revocation in mid-batch, lost wakeups | each event once and in order; nothing after a revocation; nothing skipped |
| **Write lane and connection pool** `services/write_lane.py`, `db/postgres.py` | gates of vaults, slots, threads, waiters; who holds and waits for connections | admit, commit in a thread, cancel, give up; acquire, release | Git, everything | admission under deadlines; a caller cancelled while its thread runs; holding one connection while waiting for another, sessions that PostgreSQL ends | slots, gates and connections add up; one commit at a time in a vault; everyone is served |
| **Queue rescuer, worker runner** `services/queue_rescuer.py`, `_backfill.py` | loop tasks, in-flight iterations | run, stop, give up rows whose last claim died | all queues | a claim that dies with the last attempt; a stop that times out | no row in limbo; no second loop |
| Document facade `services/native_document_service.py` | none of its own | document operations, hooks after the commit | ledger, graph, publications | a hook lost between commit and answer | what a hook does, delivery repeats |
| **File projection** `services/native_file_projection.py` | one outbox row per File, intents under new ids | claim, look, create, restore, replace, delete, fail, reopen | ledger, files | several commits for one intent; a File that changes after the last look | an intent that is done left the text of the File, or none; every intent is closed |
| **Files and object store** `services/file_service.py`, `asset_service.py`, `asset_gc_worker.py`, `s3_delete_worker.py` | file rows, object keys, references, delete outbox | reserve, upload, confirm, replace, delete, collect | S3, ledger | remote calls between transactions; keys used again | no row without its object, no object deleted that a row names |
| Cutover `services/native_revision_authority.py`, `native_revision_cutover.py`, `native_revision_reconcile.py` | runs, fences, receipts | plan, copy, verify, fence, commit, abort | Git, ledger | resumption after a crash at any failpoint | one authority at a time; nothing lost in the passage |
| Git documents `services/document_service.py`, `git_service.py` | repositories, document rows | commit and record, through the write lane | Git, PostgreSQL | two stores in one operation | row and commit agree |
| External Git mirrors `services/external_git_*.py` | claims, snapshots, retirements | preflight, reconcile, quarantine, retire | Git hosts | claims across processes; history rewritten upstream | a mirror shows one upstream state |
| **Access control** `services/access_service.py`, `access_contributions.py`, `role_sync.py` | roles, contributions with revisions, database roles | grant, revoke, transfer, reconcile | everything | replays of automated grants; two copies of one fact | the effective role is the strongest basis; the copies converge |
| Accounts and sessions `services/auth_service.py`, `sso_*.py`, `account_*.py` | tokens, sessions, epochs | log in, refresh, revoke, delete | identity provider | a refresh token rotated and the answer lost | a revoked session stays revoked |
| Application control plane `services/app_*.py` | installations, grants, rollout jobs and targets | install, approve, roll out, resume | tables, roles | leases during schema changes; replays | batches in order; each step once |
| Tables `services/table_*.py` | table registry, rows | rows, schema, migrations | events | row writes during a migration | a write sees one schema |
| Publications `services/publication_service.py` | links, bindings | publish, resolve, withdraw | documents, files | a resource that moves or goes | a link shows what it was bound to, or nothing |
| Vocabulary `services/sparse_encoder.py`, `bm25_maintenance.py` | term ids, epoch | encode, renumber | embed worker | ids read before a renumbering and stored after it | ids of one epoch in every row |
| Notifications, agent memory, metadata worker, search, graph, audit, API, MCP, frontend | see `PROJECT.json` | | | | |

How they interact: a request reaches the ledger through the facade and commits
revision, event and intent in one transaction. The publisher and the tails
consume the events; the derived worker consumes the intents and writes chunks;
the embed and delete workers carry chunks to the vector store. All workers run
in every server process, share their queues through `FOR UPDATE SKIP LOCKED`
and leases, and take connections from one pool per process. Files live in the
object store; their deletion goes through an outbox of its own, and their text
through the file projection back into the ledger. Access control stands before
every request and projects its roles into PostgreSQL. Writes that commit to Git
pass the write lane before they ask for a connection.

## 2. Modules

| Module | Role |
| --- | --- |
| `LedgerStore` | tables, requests and reads of the ledger; the properties of its tables |
| `VersionedStore` | abstract specification: each request at one instant |
| `NativeLedger` | the transactions, lock by lock; shown to implement `VersionedStore` |
| `NativeLedgerInv`, `NativeLedgerProofs` | the inductive invariant; the theorems |
| `MCNativeLedger` | requests and instances for TLC |
| `DerivedIndex` | the ledger's intents and the workers that deliver them |
| `VectorIndex` | chunks, delete outbox, vector store, embed and delete workers |
| `FileProjection` | Files of the catalogue, their outbox, and the text resources workers make of them |
| `EventOutbox` | the events table and the publishers |
| `EventTail` | one vault's events, one client, the streaming coroutine |
| `ConnectionPool` | calls and tails that share a pool: its state and steps |
| `WriteLane`, `MCWriteLane` | the write lane composed with the pool; its instance |
| `ObjectStore` | files, replacements and images; transfers; the outbox of deletions; collector and inventory |
| `Access` | one vault's roles and bases, requests, scoped tokens, database roles, reconciliation |
| `EventOutboxProofs`, `EventTailProofs`, `DerivedIndexProofs`, `VectorIndexProofs`, `FileProjectionProofs`, `AccessProofs` | theorems about the modules they are named for |
| `LaneAndStoreProofs` | theorems about `WriteLane` and about `ObjectStore` |

A definition whose name ends in `Slip` is the form a plausible bug would give
its neighbour. No specification uses it; `PROJECT.json` pairs each property
with the slip that breaks it.

### The ledger

`resources`, `aliases` and `revisions` are `native_resources`,
`native_resource_path_aliases` and `native_revisions`; a revision is named by
its position in commit order, because the code only compares revision ids.
`answers` records what clients were told. `tx` is one PostgreSQL transaction per
worker: its step, its locks and what it has read. The actions are the steps of
`_publish_*`:

| Action | Code |
| --- | --- |
| `Begin` | a request arrives; a create without an id mints one |
| `LockMutation`, `ReplayMutation`, `RejectReuse` | `lock_mutation`, `find_mutation`: go on, answer again, or refuse a key used for something else |
| `Resolve`, `RejectResolve` | `resolve_live_reference`: id, path or alias, ambiguous or not, and the resource the caller expected |
| `LockRow`, `RejectRow` | `SELECT ... FOR UPDATE` of the resource and what is read under it |
| `LockPath` | the paths needed, one at a time in sorted order |
| `Check`, `RejectCheck` | the second resolution and the tests of expected Head, destination and owner |
| `Publish*`, `UniqueViolation` | all writes and the commit, or a unique index of migration 048 |
| `Deliver`, `Lose` | the answer arrives; or the process, the call or the connection is lost, before or after the commit |

Two reads that the code makes in a row without a lock between them are one
step where nothing in between matters to either (the statements of one
resolution). Payload, manifest, activity, event and intent are written in the
same commit and stand in the model as the revision.

### The queues

In `DerivedIndex`, `EventOutbox` and `VectorIndex` a row is `due` or not, and
becomes due at any moment (`Elapse...`): a lease may run out under a worker
that is still busy, which is the case worth checking. `attempts` is counted by
the claim. `claim` is the worker that claimed last, where the code compares
`claimed_at`. Faults (failed calls, lost workers) are bounded by `MaxFaults`.
Each step of a worker is one transaction or one call outside of one; a rescue is
`queue_rescuer._rescue_once`.

`DerivedIndex` sees the ledger only as `Publish(r, alive)`: a new Head, live or
deleted, and its intent. `stamps` keeps the intents of a resource by
`occurred_at`; `Skew` lets one process's clock lag. `VectorIndex` claims one row
at a time, since returning what a batch did not attempt is the subject of
`EventOutbox`; `store.joins` says whether the store
shares the transaction (pgvector) or is called over the network, where a request
may outlive its caller (`flight`, `Land`).

`FileProjection` sees the ledger through its promise: each commit happens at one
instant, is refused if the Head is not the expected one, and is answered again
if its mutation id was used for the same request. An intent is known by the
`version` of the File that owed it. A worker looks four times (`Look`, `See`,
`Match`, `Recheck`) before its first commit, and after a restore once more
(`SeeAgain`); between any two of these the File may change, its intent be
rewritten, or another worker take the row. `overtaken` and `looked` are ghosts:
they tell a commit made by a worker that was overtaken by a change of the File
after its last look at it.

### The tail

In `EventTail` ids are drawn by `EmitEvent` and become visible by `Commit`, in
any order. The coroutine's program counter has a place for each await at which
other things happen. The wire holds frames that a disconnection loses. The
cursor codec is the identity on ids: encryption and encoding are pure, and a
cursor of another vault or filter is refused before any state is read.

### The write lane and the pool

`ConnectionPool` keeps, of every request and tail, whether it holds or waits for
one or two connections. Most calls take one. `Nested` calls ask for a second one
with the first in hand, once for each document or table they deal with, and
`Atomic` ones do so inside a transaction: the recursive deletion of a collection
under native authority (`collection_service.py:382`) and snapshots of publications
(`publication_service.py:1963`). A table migration (`table_migration_service.py:315`)
is nested and not atomic. `Reap` is PostgreSQL ending a transaction that has been
idle for 60 seconds (`db/postgres.py:65`): asyncpg has the connection back at once,
and its caller learns of it when it next uses it (`lost` if it still waits for
another, `last` while it works on that one). What a deletion then leaves half
done, the documents it has deleted in transactions of their own, is not modelled.

`WriteLane` extends it: a write passes `gate`, `slot`,
`inside` (from where it waits for and holds its connection), `commit` (its thread
is queued, runs or is done) and `leaving`. `ReapCommit` is `Reap` for a transaction
that waits for its commit (`git_service.py:215`): the connection is free, gate, slot
and thread are not. `GiveUp` is the deadline or a
cancellation in either wait, `Cancel` a cancellation during the commit, which is
remembered (`Absorb`) until the thread is done. Chores are `run_git_write` calls
outside of a lane, those that must complete from the stage `owed` on. Nothing
obliges a thread to end.

### Files and objects

A transaction of `ObjectStore` is one action; a transfer, an inspection, a copy
and a deletion in the store are steps of their own, since no transaction spans
the two stores. Keys matter only by how they are chosen: `Preferred`, made of a
hash and therefore wanted again, `Staging`, written by a replacement's
capability, and random ones. `late` remembers the keys of transfers that
outlived the decision about their row.

### Access

Every transaction of `Access` that changes roles holds the role-authority lock
and is one step; the check that lets a request in (`LetIn`) is made before, and
the requests wait in `requests`. Hooks after a commit may be lost (`HookLost`)
or run late. An operator's grants by hand (`foreign`) are what the product can
see and cannot revoke.

## 3. Runs

| Run | Question | Bounds |
| --- | --- | --- |
| `ledger_paths` | create, swap, move, delete, alias, documents and a file in one namespace, a path that is an id: `PathIdentity`, `LocksSuffice`, `NoWaitCycle`, and the refinement `AtOnce` | 3 transactions, 3 resources, 3 paths, 11 requests, 4 revisions |
| `ledger_history` | writes from one Head, retries, reused keys, restores: `LinearHistory`, `AnswersTrue`, `EveryRequestEnds` | 2 transactions, 9 requests, 5 revisions |
| `derived` | `HealthTruthful`, `NeverBackwards`, `Settles` | 1 resource, 3 revisions, 2 workers, 2 attempts, 2 faults |
| `derived_skew` | `HealthTruthful` when clocks disagree (violated, section 5) | 1 worker, 2 revisions |
| `vector` | `NoOrphan`, `IndexedTrue`, `Settles`, for both kinds of store | 1 chunk, 2 embedders, 1 deleter, 2 attempts, 2 faults |
| `projection` | `HealthTruthful`, `Settles` | 1 File, 2 texts and other content, 3 mutations, 2 workers, 1 attempt and 1 reopening, 1 fault |
| `projection_cascade` | `FreshWhenDone` (violated, section 5) | 1 File, 1 worker, no faults |
| `outbox` | `StreamTrue`, `BoundedCopies`, `GivenUpWhenSpent`, `Settles` | 2 events (one suppressed), 2 publishers, batches of 2, 2 attempts, 3 faults |
| `tail` | `OrderedOnce`, `OnlyLateOrSwept`, `EntitledOnly`, `GapSeen`, `Followed` | 3 ids, 2 open transactions, 2 connections, 1 revocation, purge |
| `lane` | `Accounted`, `WithinLane`, `OneCommitPerVault`, `Served`, `Compensated` | 3 writes to 2 vaults, 1 chore, 1 deletion of a collection, 1 tail, 2 connections, 1 slot, 2 waiters |
| `objects` | `BytesKept`, `CertifiedUnlessLate`, `NoOrphan`, `ImagesKept`, `ComesClean` | 2 files, 1 image, 2 workers, 3 keys, 1 transfer at a time, 3 requests, 1 fault |
| `access` | `TokenWithinUser`, `ProjectedTogether`, `NeverOverwrittenByOlder`, `RightAtCommit`, `Heals` | 2 users, 1 scoped token, 1 automated grantor that sends revisions, direct requests with and without one, 3 events |

Types are the first conjunct of one invariant of each module.

Why the bounds are enough: two transactions or workers are what every race here
needs, and three for a circle of locks that is not a pair; the locks of the
ledger are proved for any number. Two attempts distinguish the first, a later
and the last one; in `projection` a reopened intent comes with the same mutation
ids, so that a second try is there with one attempt, and three mutations are
text, none, other text: a restore and a replacement for one intent. Chunks and
resources meet only in the rescuer's statement and in claims, so one of them
shows what many would; events meet in batches, so there are two. Three ids let
one be overtaken while another is behind it. Two files may want one key, and a
third request is what a deletion, an upload and a replacement need to meet. One
slot with two vaults makes writes wait for both gate and slot. Larger instances
that take too long for a routine run were run once: `projection` with two
attempts (2.7 million states), and with two Files at one path; `access` with
requests of every source with and without a revision (1.95 million states);
`lane` with two writes and a table migration besides, and three connections (94
thousand states). The last one with two connections violates `Served`, as section
5 says.

### Fairness

- Ledger: `Proceed` is weakly fair, since the server runs the statements it is
  sent, each under a timeout. Lock steps are strongly fair: PostgreSQL queues
  the waiters of a heavyweight lock. Neither a request nor a loss is fair.
- Queues: the loops of `BackfillRunner` go on after any exception, so a worker's
  steps are weakly fair; time passes. A claim of a given row is strongly fair:
  the claims take new rows first and then the oldest due ones, and there are
  finitely many, so a row that is due again and again is claimed. The rescuer's
  loop is weakly fair, strongly where it waits for row locks.
- Tail: the coroutine goes on, NOTIFYs and frames arrive, transactions end. The
  heartbeat is not fair, so that no property owes its truth to the clock.
- Lane: the deadline of the two waits passes, coroutines go on, asyncpg's queue
  and asyncio's semaphore pass nobody over for ever, the executor starts what is
  queued. PostgreSQL keeps its timeouts: a statement ends, and so does a
  transaction that is idle. Neither clients nor threads need end: `Served` holds
  although a commit may hang, and `Compensated` says itself that commits end.
- Objects: `Progress` is weakly fair as a whole (time passes, requests under way
  go on, some process runs the worker), and so is each step of a worker that has
  begun a row.
- Access: only the reconciler's timer.

`CHECK_DEADLOCK FALSE` appears where a model really stops: a bound of events,
revisions or connections is used up and all rows are at rest.

## 4. Proofs

`NativeLedgerProofs` proves, for any sets of workers, resources, paths, keys and
requests that satisfy `StoreConstants`, `StoreRequests` and `LedgerConstants`:

- `LockInvariant`: `Spec => []LockInv`
- `TypesHold`: `Spec => []TypeOK`
- `Implements`: `Spec => AtOnce`, the refinement of `VersionedStore`
- `PathsIdentify`: `Spec => []PathIdentity`
- `LocksAreEnough`: `Spec => []LocksSuffice`
- `AnswersHold`: `Spec => []AnswersTrue`
- `HistoryIsLinear`: `Spec => []LinearHistory`
- `NobodyInACircle`: `Spec => []NoWaitCycle`

The assumptions say that the two null values are no resource and no path, that
paths have a total order, that resources have a surface, and what the validators
let through: a restore names its resource and Head, a move changes the path, a
create with an id uses its surface. The workers are finitely many.

The argument. `LinearHistory`, `PathIdentity` and the refinement are not
inductive by themselves: that a transaction's commit is legal depends on what it
read several steps earlier. `LockInv` closes the gap. `Exclusive` says no lock
is held twice, `Holds` which locks a transaction has at each step, `Found` how
its target relates to its request, and `Stable` that what it has read is still
true: its key is unused, its row unchanged and, once checked, the paths it
locked are as they were. A commit by another transaction could disturb `Stable`
only by writing that row, that path or that key, and would need the same lock
(lemma `CommitElsewhere`); every other step leaves the tables alone (`Frame`).
`LockInvStep` goes through the actions one by one. With it, `CommitRefines`
maps each `Publish*` to one abstract operation, `DeliverRefines` the answer, and
every other step stutters. The three table properties are then proved of the
abstract step (`IdentityStep`, `AnswersStep`, `LineStep`) and carried over.

`PathIdentity` and `LinearHistory` are so proved without the locks in sight, and
`LocksSuffice` shows that the unique indexes are a second net.

`NoWaitCycle` needs a second invariant, `WaitInv` (in `NativeLedgerInv`): the lock a
transaction waits for lies behind those it holds, in the one order mutex, row,
paths from low to high (`Orderly`). In a set of transactions that wait for one
another look at who waits for a path, and among them at the one whose path is
highest: its holder is in the set, holds that path, and therefore waits for a
higher one. If nobody waits for a path, then nobody in the set holds a row yet
and nobody waits for one; what is left waits for mutexes and holds none. That a
finite set of workers has one that wants the highest path comes from the
library's least element of a set of numbers (`Least`, `Highest`).

`LaneAndStoreProofs` has the theorems about two components that share nothing but
that module. For the write lane it proves, for any finite sets of writes, chores, tails and other
calls, any vaults, any number of slots and any size of the pool:

- `LaneAccounted`: `LaneSpec => []Accounted`
- `LaneWithin`: `LaneSpec => []WithinLane`
- `LaneOneCommit`: `LaneSpec => []OneCommitPerVault`

Its invariant `LaneInv` adds to `Accounted` the order in which a write takes
things (`Ordered`): only a job in its commit has a thread, and only a write that
was given a slot waits for or has a connection. From this the connections and
threads of writes are among the admitted jobs, whose number the semaphore
bounds, and two threads of one vault would be two holders of one gate. The
arithmetic is in three lemmas: what a change of one job's stage does to the sets
that are counted (`Move`), to their sizes (`Count`), and what a step does to the
number of connections (`Shrink`, `Granting`).

`EventOutboxProofs` proves, for any events, any finite set of publishers and any
bounds, `StreamAgrees`, `CopiesBounded` and `SpentFirst`: `Spec => []StreamTrue`,
`[]BoundedCopies` and `[]GivenUpWhenSpent`. None is inductive: that a row has had
no more copies than it may have depends on who still holds it. `OutboxInv` counts
the holders: copies made, and copies workers may still make, are paid for by the
attempts charged (`Paid`). A release gives an attempt back, which is harmless
because it drops the holder that the attempt paid for, and because only the last
claim may release (`Ranked`): every other worker that still has the row in hand
was charged less. So a worker whose charge reached the maximum, and which gives
the row up without looking at it again, is right that all attempts are spent.

`EventTailProofs` proves, for any number of ids, open transactions, connections
and revocations and any size of batches, `Ordered`, `NothingElseLost`,
`Entitled` and `GapsAreSeen`: `Spec => []OrderedOnce`, `[]OnlyLateOrSwept`,
`[]EntitledOnly` and `Spec => GapSeen`. `TailInv`
keeps the line cursor, frames under way, position, rows in hand (`ClientInv`,
`RowsInv`), and says of every place the tail has passed that something with that id
or a larger one is committed (`Reached`), so that a commit behind it is late by
definition, and that what lies before it is delivered, purged or late
(`Behind`). Places passed are the cursor, each frame and the position, because a
lost connection sends the client back to any of them. `GapSeen` is about one
step: what was purged lies before the oldest row that is left, so a cursor that
is let in has passed all of it.

`DerivedIndexProofs` proves, for any resources, revisions, workers and bounds,
`Forward`, `Spec => NeverBackwards` whatever the clocks do, and `Truthful`,
`Spec => []HealthTruthful` if `Skew = 0`. `DerivedInv` says that every revision
has its intent, that stamps rise with revisions when clocks agree, and that what
a worker decided about its revision is still true as long as that is the Head.

`VectorIndexProofs` proves, for any chunks, workers and bounds and both kinds of
store, `NoPointLeft` and `IndexedFound`: `Spec => []NoOrphan` and
`[]IndexedTrue`. Neither is inductive. `LockInv` says that the worker that writes a
chunk's point, and no other, has its row locked; a locked row is there (`TypeOK`);
and a chunk whose id was ever listed has gone for good (`Gone`). So an upsert never
meets a deletion of the same point half-way (`AtWork`), what a worker wrote stands
until its commit (`EmbedderInv`), and a deletion that was carried out is still true
when it is recorded (`DeleterInv`), strays apart. Chunks that their drop had not seen
(`unseen`, section 5) are excepted by name. The run has one chunk, because
no step of the code relates two; the theorems need no such reasoning.

`FileProjectionProofs` proves, for any Files, texts, workers and bounds, `DoneIsTrue`:
`Spec => []HealthTruthful`. Its invariant says at each step of a worker that
works for the latest version what it has found out is so, or was overtaken
(`Settled`); what workers of older versions know binds nobody. The proof showed that the
ghost had to compare with the version a worker looked at last, not with the one
of its intent: after a second look the two differ.

`AccessProofs` proves, for any users, tokens, sources and bounds, `TokensWithin`
(`Spec => []TokenWithinUser`), `Projected` (`Spec => ProjectedTogether`),
`NewestWins` (`Spec => NeverOverwrittenByOlder`) and `RightsAtCommit`
(`Spec => RightAtCommit`). The invariant needs only the types, that a token not yet issued has no roles,
and that a grant names one basis; the work is in showing that each projection follows the strongest
basis it was computed from.

For the object store `LaneAndStoreProofs` proves, for any files, images, deletion
workers and bounds:

- `StoresAgree`: `Spec => []StoreInv`
- `BytesAreKept`: `Spec => [](faults <= 1 => BytesKept)`
- `BytesAreCertified`: `Spec => [](faults <= 1 => CertifiedUnlessLate)`
- `NothingIsOrphaned`: `Spec => []NoOrphan`
- `ImagesAreKept`: `Spec => []ImagesKept`

`StoreInv` says that no two rows live at one key and a key not yet drawn is
nowhere (`KeysInv`); that the intents of a key with an owner are all processed, and
a worker's intent is one that was ready (`WorkInv`); that a replacement's candidate
is known to its own intent alone (`SwapInv`); that a transfer under way is for a
pending row, has a delayed deletion waiting for it, or is known to be late
(`PutInv`); what an inspection has found until the decision (`CheckInv`); and that
nothing but its own upload writes the key of an image (`PictureInv`). A key is
given to a new owner while its deletion may be under way only if both its lease
and its lock are gone. `Strict` says that each worker's lease is good and its own,
`AllLocked` that each worker that deletes has the lock; without a fault both hold,
after one fault one of them (`FaultInv`), and either is enough: a leased intent is
not processed, and a locked key is not available. Two faults can take both, a
lease that runs out under a worker and then its connection, and the bytes of a new
owner of the preferred key go. This is why the run has `MaxFaults = 1` and why the
first two theorems are about states with at most one fault. The last two hold
whatever fails: an object without a row is pursued by an intent that no worker is
about to mark as done (`Pursued`). The proof goes by kinds of steps: what takes a
row away (`Disowning`), gives one a key (`Naming`), confirms one (`Confirming`), lists
and clears (`Tidying`), moves a row to its candidate (`Publishing`), lets a transfer
in and ends it (`LettingIn`, `Landing`), and what a deletion worker does (`Draining`).

The assumptions of these modules are the named `ASSUME` of the module each
extends: that the null values are no workers, events or contents, that bounds
are numbers, that the sets counted are finite.

Only model-checked: liveness (fairness and `ENABLED` are beyond the prover), that
is `EveryRequestEnds`, `Followed`, `Settles`, `Served`, `Compensated`, `Heals` and
`ComesClean`. Every invariant and every action property of a passing run has its
theorem.

## 5. Where code and documentation disagree

| Run | Statement | What happens |
| --- | --- | --- |
| `derived_skew` | `services/native_derived_worker.py:329` "Older pending intents for the same Resource can therefore be closed" | with two clocks the Head's intent is the one closed; the status stays ok |
| `projection_cascade` | `services/native_file_projection.py:3` "A row written in the same PostgreSQL transaction as each confirmed File mutation", `:102` "only an empty durable queue is actually healthy/fresh" | a collection is deleted with a File in it (`collection_service.py:482`) and no row is written: the text of the File stays in the ledger, and its path taken |

Next to each stands the property the code does keep: `HealthTruthful` with one
clock, `HealthTruthful` of a File whose last change owed an intent.

Other statements hold only with an exception, which the property that comes
closest names:

- `docs/guides/building-curation-on-change-events.md:59` says of the tail
  "Delivery is at least once." `OnlyLateOrSwept` exempts events that were
  committed after one with a larger id had been: ids 1 and 2 are drawn, 2
  commits and is sent, 1 commits behind the cursor and is never sent.
- `services/event_tail_service.py:201`, "Reject a cursor that cannot reach the
  retained head without a gap." `GapSeen` holds while rows are purged from the
  old end and some are left: with all rows of the vault purged, or an old
  unpublished one left, the cursor is accepted.
- `services/document_service.py:530`, "Holding this connection while acquiring
  another is what deadlocked the pool"; `services/role_authority.py:6`, "Do not
  acquire another pool connection while holding this transaction"
  (`docs/designs/pg-native-rbac/00-overview.md:360` likewise). The deletion of a
  collection does so for each document, snapshots, migrations and tails do it
  too. `Served` holds because an idle transaction is ended, whatever becomes of
  the request, so that with all connections held this way everybody waits for a
  minute; and it holds only while tails and migrations, which have no transaction
  open, are fewer than connections: with as many of them TLC finds each with one
  connection waiting for another, for ever.
- `api/routes/files.py:116` says of a confirmed file "bytes that do not belong
  there must never reach it". A transfer is let in when its capability is
  resolved and writes its key when its body ends, also after the confirmation:
  `CertifiedUnlessLate` exempts keys with such a transfer.
- `db/migrations/015_events_outbox.py:10` says "even if Redis is down for hours,
  no events are lost". An outage that uses an event's attempts up leaves it
  abandoned after Redis is back (`GivenUpWhenSpent`).
- `services/embed_worker.py:309` says of the lock on a chunk's row that it
  prevents an orphan in the vector store: `NoOrphan` exempts the strays, points
  written by an upsert whose caller had given up on it or was lost, and which the
  store executed after the chunk's deletion was processed.
- `services/index_service.py:574`, "The outbox enqueue and the PG DELETE MUST commit
  atomically", lest points be orphaned. They do, but in two statements, and the
  second goes by source: a File's or table's chunk that is indexed anew between
  them (`services/file_service.py:1163`, under a lock that the deletion does not
  take) is deleted and not listed. `NoOrphan` exempts such chunks (`unseen`);
  the document service and the derived worker rewrite and delete under one lock.
- A worker of the file projection that has passed its last look may be overtaken
  by a change of the File, and by another worker that closes the new intent,
  before its own commit arrives: that resource is `overtaken`, and
  `HealthTruthful` does not speak of it.
- Removing a contribution (`services/access_contributions.py:311`) forgets its
  revision with it: an older grant retried after that is applied.
  `NeverOverwrittenByOlder` speaks of a basis that is there.

## 6. Not modelled

The reasons stand with each component in `PROJECT.json`. Cryptography, the
identity provider, Git itself, the object store and the drivers of the vector
stores are external; search, ranking and query compilation have no state; the
frontend, packages, charts, evaluation and deployment programs reach the backend
only through its API, and make up most of the repository. Of the modelled parts:
reads of old revisions, the graph edges a delivery writes, the trimming of the
Redis stream, manual requeueing of abandoned rows but for the projection's, the
purge of processed deletions, which nothing reads, the move of a projected
resource, for which no code gives cause, archived vaults and public access, and
the objects of avatars. In `ObjectStore` a deletion that fails has done
nothing: one that the object store carries out after its call timed out is not
modelled, and could take an object that was put there since. One fault is
allowed at a time: a worker
that loses its lock and then is so slow to record its deletion that the key has
been wanted again takes the bytes of the new owner; a lock that could not be released
is only logged (`services/s3_delete_worker.py:246`). Deletion of a whole vault is not
followed: it holds the vault's row throughout, which every row of the vault refers
to, so nothing joins what it deletes; what it risks is a deadlock with a worker that
holds a resource, which the database resolves by aborting one of them.

## 7. Plan

What is left, the most consequential first.

1. Git commit against document row, on top of `WriteLane`.
2. `Authority`: fence, cutover and resumption.
3. `SsoSessions`, `Rollout`, `VocabularyFence`, `Publications`,
   `TableMigration`, `WorkerRunner`.
4. `VaultDeletion`: the order of row locks against the workers.
5. A common abstract queue, in which a row is pending, done or given up, and
   the proof that the queues implement it.
