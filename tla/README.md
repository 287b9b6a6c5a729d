# Surreal-Memory: a TLA+ verification project

TLA+ models of the parts of Surreal-Memory whose correctness depends on the
order of events, TLC configurations that check them on small instances, and
TLAPS proofs for every instance. Paths are relative to the repository; Python
paths without a prefix are under `src/surreal_memory/`.

## 1. The system

Surreal-Memory is a graph memory for AI agents. An MCP server offers some sixty
tools; `remember` runs the encoding pipeline (text to neurons, synapses and
fibers), `recall` runs spreading activation, and `consolidate` runs up to twenty
maintenance strategies over the graph. Everything is stored in SurrealDB; a
brain may be synchronised between devices through a hub.

| Component | State it keeps | Operations | Interaction | What is hard |
|---|---|---|---|---|
| Durable consolidation run (`storage/surrealdb/consolidation_state.py`, `engine/consolidation_progress.py`) | one lease row and one run record per brain, a session per invocation | acquire, renew, release; get, start, claim, save; open, checkpoint, complete, pause, fail, close | called by the engine from any process; shared rows; a heartbeat task beside the work | separate queries without a transaction, leases that expire under a live session, whole-row overwrites, lost acknowledgements |
| Consolidation engine (`engine/consolidation.py`) | the loop's locals, budgets, the active session | `run`, the strategy dispatch, the unit boundary helpers, the auto-tier finalization | drives the session, writes the graph | crash between a write and its checkpoint, timeouts, cancellation, failure of one strategy among many |
| Summarize: census and group plan (`engine/consolidation.py` `_summarize_durable`, `engine/consolidation_group_plan.py`, the plan rows of the store) | frozen census pages, candidates, postings, an append-only union-find, members, one pending unit | stage, join, add members, write one summary per group, replay | a strategy of a run; its rows outlive the worker | resumption at any query, an expired owner writing beside its successor, sources that change |
| Consolidation lock file (`utils/consolidation_lock.py`) | a file with pid and timestamp | acquire, clear stale, release | session end of each MCP server process | file system calls interleave, stale locks, reused pids |
| Semantic discovery and source revision (`engine/semantic_discovery.py`, `storage/surrealdb/semantic_*.py`) | staged candidates, fingerprint, revision counter | stage, publish, restart, recover | inside the semantic_link strategy; operator recovery commands | sources change during a scan, recovery against a resuming worker |
| Device sync (`sync/sync_engine.py`, `storage/memory_sync_ops.py`, `sync/incremental_merge.py`) | change log with a synced flag, device registry with a watermark | record, prepare, push/pull, apply, mark synced, prune, collapse | HTTP to a hub | two sequence spaces, lost answers, page limits, failing applies |
| Merkle delta sync (`sync/merkle.py`) | cached bucket hashes | compute, compare, apply | HTTP to a hub | stale cache, deletion of what was not pushed |
| Hubs (`sync-hub/`, `server/routes/hub.py`) | ordered change log, devices, brain owner | append, read since, watermark | answer devices | several queries per request without a transaction |
| Event socket (`server/routes/sync.py`, `sync/client.py`) | subscriptions, event history | subscribe, push, history, reconnect | WebSocket | reconnection, missed events |
| SurrealDB store (`storage/surrealdb/store.py`) | one shared connection, its generation, a lock | graph CRUD, reconnect, change log | every coroutine sends its queries over it | single-flight reconnect, what may be replayed, cancellation with the lock held |
| Schema and migrations | schema version | apply DDL, convert data | at connection time | crash between steps |
| Compression (`engine/compression.py`) | fiber tiers, intents and receipts in the fiber rows, backups, neuron snapshots | compress, replay a prepared intent, decompress, recover | the compress strategy of a run; a recover command | write-ahead intents over neurons that fibers share, crash between two writes, edits and pins in between |
| Lifecycle, stages, tiers (`lifecycle.py`, `memory_stages.py`, `tier_engine.py`) | neuron states | strategies of a run | inside a unit | numeric |
| Maintenance scheduling (`mcp/maintenance_handler.py`, `scheduled_consolidation_handler.py`) | cooldowns, one task | pulse, auto-consolidate, session end | starts runs | overlapping triggers |
| Editor hooks (`hooks/`) | transcript cursor, receipts | capture at stop and before compaction | separate processes | duplicated and lost captures |
| Encoding, retrieval, extraction, safety, surface | none across calls | data transformation | | numeric and textual, not ordering |
| CLI, dashboard, extensions, integrations, payment hub | | user interface and I/O | | |

What makes each of them correct:

* **Consolidation run**: committed work is never taken back and never skipped,
  whoever takes the run over; what cannot be repeated (the auto-tier) is not
  repeated; "completed" means completed; an interrupted run can be finished.
* **Engine**: a run with a failed strategy does not complete; a fenced-out
  worker stops within one unit.
* **Summarize**: the plan is the one the frozen census determines, however often
  it was resumed; each group gets one summary with all its rows; the run ends
  unless one of its sources changed.
* **Compression**: no user text is lost, whichever calls overlap; a receipt tells the truth; a prepared
  compression does not stay half done without a reason.
* **Lock file**: one consolidating process; a dead process's lock goes away.
* **Sync**: every local change reaches the hub, every hub change reaches every
  device, the newer of two conflicting changes wins, the exchange goes quiet.
* **Merkle**: equal roots mean equal content; nothing unpushed is deleted.
* **Store**: one reconnect per failure; a query that may have been executed is
  not sent again; every call ends; the connection recovers.
* **Migrations**: a migration interrupted anywhere can be run again.
* **Hooks**: each piece of transcript is captured once.

`PROJECT.json` lists the components with their status and, under `hazards`, the
lines where the code is exposed.

## 2. Modules

| Module | What it is |
|---|---|
| `DurableRun` | what a durable run promises the operator: an abstract specification |
| `ConsolidationRun` | lease, run record and sessions: the core |
| `MCConsolidationRun` | constants for TLC |
| `ConsolidationRunProofs` | proofs about `ConsolidationRun`, with the refinement of `DurableRun` |
| `ConsolidationFileLock` | the lock file of the session-end consolidation |
| `MCConsolidationFileLock` | constants for TLC |
| `ConsolidationFileLockProofs` | proofs about `ConsolidationFileLock` |
| `DeviceSync` | device stores, the `smem_sync` call and the hub's handler |
| `MCDeviceSync` | constants for TLC |
| `DeviceSyncProofs` | proofs about `DeviceSync` |
| `FiberCompression` | compression of fibers, its replay, and the two restores |
| `MCFiberCompression` | constants for TLC |
| `FiberCompressionProofs` | proofs about `FiberCompression` |
| `StoreReconnect` | one query of the store and the repair of the shared connection |
| `MCStoreReconnect` | constants for TLC |
| `StoreReconnectProofs` | proofs about `StoreReconnect` |
| `SummarizePlan` | census, group plan and units of the summarize strategy |
| `MCSummarizePlan` | constants for TLC |
| `SummarizePlanProofs` | proofs about the units of `SummarizePlan` |
| `SummarizePlanLemmas` | facts about its operators: pages, the order of the pairs, the union-find |
| `SummarizeGroupsProofs` | proofs about its plan, with what rests on it |

### ConsolidationRun

The model has one brain. A *token* is an invocation of `ConsolidationEngine.run`,
named by its owner token (a fresh uuid). Since an invocation starts at most one
run, a run is named by the token that started it.

| Model | Code |
|---|---|
| `leaseOwner`, `leaseLive` | the `consolidation_lease` row; `leaseLive` is `expires_at > now` |
| `rec` | the `consolidation_progress` row: run id, owner token, options, status, completed strategies, per-strategy cursor, phase |
| `sess[t].local` | `session.state`, the session's own copy of the row |
| `sess[t].lost` | `_lease_lost` |
| `sess[t].finOnly` | `resume_finalization_only` |
| `sess[t].failed` | `failed_strategies` (0 stands for the auto-tier entry) |
| `sess[t].outcome` | `report.extra["consolidation_status"]` |
| `Options` | the options fingerprint, with the versions, the schema and the reference time that `open` also compares |
| `applied`, `tierRuns`, `finished`, `late` | history, read by properties only |

Each query of the store is one atomic step (a single SurrealQL statement), and
everything between two awaits belongs to the step before it. `Acquire`,
`ReadRecord`, `Claim`, `ResumeSave` and `Start` are the queries of `open()`, in
the order it issues them. `NextStrategy`, `CheckBudget`, `ApplyUnit`,
`UnitFails`, `CheckpointUnit` and `CompleteStrategy` are the strategy loop over a
handler that does what all resumable handlers do: check the budget, write one
unit, checkpoint the cursor behind it. `LoopEnds`, `TierStarted`, `RunAutoTier`,
`TierCompleted`, `FailRun`, `CompleteRun` and `ReadBack` are the finalization;
`PauseRun` and `Close` the way out. `Save` is `_save()` with its three outcomes:
acknowledged, fenced out, or raising (in which case the row may or may not have
been written, and the session keeps its local change).

The environment: `Heartbeat` (a renewal that fails fences the session out
locally), `LeaseExpires` (also under a live holder: a blocked loop, a suspended
host, clocks that differ), `Interrupt` (the strategy timeout or a cancellation at
any await), `TotalTimeout`, `Crash`. Everything that is not the code's normal
course is counted in `faults` and bounded by `MaxFaults`.

Abstractions: strategies are numbered in dispatch order and have `Units` units
each; the phases a strategy writes are the single value `"work"`, because the
finalization distinguishes only three others; `tierRuns` counts the calls of
`_run_auto_tier`, those included that return without a write for want of a Pro
licence or a brain; an explicit `--resume` that names
another run is one of the ways `ReadRecord` blocks. The last branch of `run`
(`pause` with unfinished strategies and nothing failed,
`engine/consolidation.py:1298`) has no action: it cannot be reached, which the
deadlock check of the runs confirms (a session that got there would have no
step). The order of `completed_strategies`, which the read-back compares, is the
dispatch order in every record and not kept.

`DurableRun` is the promise of the operator guide (`docs/guides/consolidation.md`):
a run under one identity, whose recorded work is only ever added to and was done
before, and which is finished for good once its plan is on record and its closing
step (the auto-tier, taken at most once) is behind it. Sessions, leases and faults
do not occur in it. A run is named by the token that started it; every session that
gets as far as the claim or the start uses its token up, whether it starts a run
(`Begin`) or not (`Retire`), which is why a run that has been replaced cannot come
back, whichever session wakes up with a copy of it. `Promise` in `ConsolidationRun` is the mapping: the row
gives the run on record, its plan and what is recorded; `applied` and `tierRuns`
give what was done. A unit may be written again and for a run that is no longer on
record (`Perform`), since the work carries no fence. That a run replaces only a
completed one, which the guide also says, is not in `DurableRun`: see section 5.

### ConsolidationFileLock

One step per file system call: the exclusive create, the write of the payload,
the read of `_try_clear_stale`, its unlink, the second create; and for the
release, `exists`, the read and the unlink. The file is its creator and its
content (`empty` between create and write). A write to a file that was unlinked
since goes nowhere, as it does for an open descriptor. `ReusePid` gives a dead
process's pid to a new one. A pid whose signal is refused (another user's
process) counts as dead in the code; the data directory belongs to one user, so
the model leaves that out.

### DeviceSync

`DeviceSync` composes three parts: the stores of the devices, the clients that
run `smem_sync`, and the hub. A client is a process on a device; several clients
may share a device, and with it the change log and the watermark.

| Model | Code |
|---|---|
| `has[d]` | which neurons, synapses and fibers the store of `d` holds |
| `log[d]` | its `change_log` rows; `id` names a row, `seq` is its `sequence` column |
| `nextSeq[c]` | `_change_seq` of the store object of a process, zero after a restart |
| `mark[d]` | `last_sync_sequence` of the device row, or `NoRow` |
| `attempted[c]` | `_self_registration_attempted` |
| `hub` | the hub's `change_log`, by id; `Foreign` is a change of another brain |
| `ex[c]` | the call in progress: request, answer and where it is |
| `seen[d]` | history: what the apply loop of `d` was handed; read by properties only |
| `missed` in `ex[c]`, `skipped[d]` | history: what the answer under way leaves out, and what the answers that moved the position of `d` had left out; read by properties only |

`Write`, `Delete`, `Seed`, `Prune` and `Collapse` are what else changes a store
and its log, at any time, also between the steps of a call. The call is `Begin`
(device lookup and self-registration), `Collect` (pending rows and the POST),
`HubAppend`, `HubRead`, `HubMax` (the three queries of the hub's handler that
touch the log), `Apply` (one remote change), `MarkSynced`, `SetWatermark`.
`GiveUp` is the client's timeout, after which the request goes on at the hub;
`CallFails` loses a request or an answer or lets a step raise; `Restart` restarts
a process, also during a call. A failing log insert, lookup, apply, mark or
watermark write is a branch of its action, counted in `faults`.

An insert or update from the hub changes nothing in `Apply`. That is what the
code does: the payload which `_change_payload` logs has no `id`, which
`_neuron_from_payload` and `_synapse_from_payload` require, and there is none at
all for fibers and seeded rows (`sync_memories`, section 5).

Requests of several clients overlap in the hub's handler, as they do in a worker
that serves each request for itself: `HubAppend` of one may come between the
`HubRead` and the `HubMax` of another. A page takes the first `PageLimit` unseen
changes, and the maximum that is answered with it does not depend on the page. The
ids of all brains come from one `AUTOINCREMENT`; `OtherBrain` takes one, so that the
ids of the modelled brain have gaps and `MaxId` may be larger than the number of its
changes.

Abstractions: one brain is modelled in full; an entity is present or not, and the
cascades of a deletion (which log nothing) are left out; the device row that the
hub keeps is written and read by no request; a client whose request is still on its
way starts no other call, which a second client on the same device does in its place
(the theorems cover it); `mark_synced` reads and marks in one step. The bounds are
`MaxRows` of each device, at which its users stop writing and a remote deletion is not
logged any more, `MaxHub`, at which the hub keeps less of a request as it does by its
cap on changes, and `MaxFaults`. Left out are the Merkle path, the Python hub,
ownership and licences, and `_skip_change_log`.

### FiberCompression

A fiber is a set of neurons with an anchor; fibers share neurons. The store is
four tables, and each write of one of their rows is a step, so that the process
may die between any two.

| Model | Code |
|---|---|
| `content` | the neurons' texts |
| `backup`, `snap` | the `compression_backups` and `neuron_snapshots` rows |
| `fiber[f]` | the fiber row: `pinned`, the tier, and in its metadata the prepared intent and the receipt of the last compression |
| `pins` | what `get_pinned_neuron_ids` returned at the start of the pass |
| `comp` | the call of `compress_fiber` or `_resume_prepared_fiber` under way |
| `rest` | the call of `decompress_fiber` or `recover_fiber` under way |
| `owed` | history: the words that the users are entitled to get back |
| `touched`, `dropped`, `stale` | history: what others did to the neurons of a call, and to their saved copies, since it read them |

`Compress` is the checks of `compress_fiber` up to its first write;
`SaveBackup`, `SaveSnapshot`, `WriteIntent`, `WriteNeuron` and `WriteFiber` are
its writes in their order; `Resume` enters the same writes from a prepared
intent. `Recover` and `Decompress` are the checks of the two restores, followed
by `RestoreNeuron`, `ResetFiber` and the deletions `DropBackup` and
`DropSnapshot`. `Edit` and `Pin` are the users, at any time.

A text is what was written and the user's words it still has, so that losing a
word and writing a wrong text are different things and both visible. A summary
is one text for each fiber and tier; what it says is left out, and so are the
size guards and ineligible fibers, of which the model may skip any. The reads of
a call belong to the step that begins it. Fibers come in any order, which covers
the order of the pages. Left out are rows that an older version wrote without a
receipt.

Nothing keeps a restore and a compression apart, nor either from an edit, in the
code or in the model: a scheduled pass and a recover command interleave as they
like. What the code does not protect then is taken out of `owed`, by name and no
more than that (`Forfeit`):

* a compression or a restore overwrites a neuron that somebody else wrote since
  the call read it, a restore and an edit included; for a compression also a neuron
  whose backup or snapshot a restore deleted since (`touched`, `dropped`, `stale`);
* a restore deletes the saved copy of a neuron that was written by others after
  the restore had written it;
* a fiber without a receipt is decompressed whatever its neurons hold, over a
  later edit: the deletion of a backup is the last step of a restore, and a crash
  before it, or right after a backup was saved, leaves a backup beside a full
  fiber, which `decompress_fiber` does not tell from a compressed one although its
  docstring speaks of tiers 1 and 2 only.

Everything else that may happen, crashes at any write among it, loses no word.

### StoreReconnect

| Model | Code |
|---|---|
| `conns` | the connections in their order; the last one is `_conn`, their number is `_conn_generation` |
| `home` | whether `_conn_loop` is the running loop |
| `lock` | the holder of `_reauth_lock` |
| `call[c]` | the frame of `_query_response` of a coroutine: the generation it started from, the one it compares under the lock, the attempt, the connection its request is on |
| `sends`, `lost`, `tried` | history, read by properties only |

A step is what happens between two awaits of the event loop. `Begin` is the part
before the first await, `Acquire` the check under the lock (whoever finds the
generation unmoved dials), `DialSucceeds` and `PreviousClosed` are
`_reconnect`, `Answered` and `RequestFails` what comes of a request;
`Handle` is the except clauses, of the first attempt and of the retry loop, which
differ. `Cancel` is a task cancelled or timed out by its caller, also with the
lock held. The environment expires the token, restarts the server, ends the
receive task of a broken connection, and uses the store from a second
`asyncio.run`.

Left out are `initialize` and `close`, which run before and after the queries,
the backoff's length and the texts by which errors are told apart (a failing
request is an authentication failure, a connection failure or something else).
`Socket` chooses the transport.

Two things met while modelling are not findings. A timeout or an error of the
application that is caught in the retry loop reconnects a healthy connection, by
which the requests of the others are cut off; `FreshKept` allows this, since the
caller's own request failed. And the rebuild after a change of loop is tried once
on a WebSocket, where the comment at `store.py:1040` speaks of three attempts.

### SummarizePlan

One run and several workers that open it. A worker whose lease was taken over
goes on until its next checkpoint is fenced, and its plan rows and graph writes
land beside its successor's.

| Model | Code |
|---|---|
| `rec`, `owner` | the strategy's state in the run record (phase, cursor, sequence, pending unit) and whose saves it accepts |
| `census` | the frozen pages, one immutable row each |
| `cands`, `markers` | candidate and posting rows; `existing_summary` rows |
| `parents`, `ranks` | the append-only events of the union-find |
| `members` | member and group rows |
| `brain` | the rows of each summary: its neuron, the neuron's state row, its synapses, its fiber |
| `afterGroup[w]` | where the loop over the groups began; the pending checkpoint writes it back |
| `torn`, `undone` | history: summaries whose worker ended inside `add_neuron`, and those it took back under another worker |
| `copy[w]`, `pos[w]` | the worker's copy of the state, and how far it is since its last checkpoint |
| `page`, `joining`, `goal`, `snap` | what a worker has read or is about to write, save or apply |
| `live` | how often each fiber row was edited and recalled |

The phases are the actions in their order: `ReadPage`, `StagePage`, `CensusEnds`;
`StageFiber`, `StageEnds`; `ReadPair`, `WriteUnion`, `PairsEnd`; `AddMember`,
`MembersEnd`; `Collect`, `Replay`, `Look`, `Add`, `Applied`, `UnitsEnd`.
`Checkpoint` is the fenced save that ends each unit, `Stop` a crash, a budget
pause, a cancellation or a failing query, `Open` the next invocation.

`add_neuron` inserts the neuron and then its state row, two steps of `Add`. If the
second insert fails, or succeeds without its answer (`AddFails`), or finds the row
there, it deletes the neuron again, and the database deletes the neuron's edges with
it (`TakeBack`). A crash or cancellation between the two leaves the neuron alone,
and the replay asks for the neuron only (`Look`).

The union-find is kept as the code keeps it, by events with a sequence number of
which only the earlier ones count, since this is what makes the replay of a pair
by another worker write the same rows. `Root` goes as far as the loop of `find`
does, and a tree that is deeper is a conflict.

Abstractions: the completion marker of the census is not kept, because a record
that was not saved behind it comes to the same step again; a batch of candidates
or of members is one row a step; the find and the write of a member, and the reads
of `collect_group`, are one step; a posting that is over the limit connects
nothing; fibers created after the start are excluded by `created_before`, and so
not modelled; `NSynapses` stands for the up to ten edges of a summary, and every
one is a row of its own. Left out are the in-memory path of a run without a
session, checkpoints of older versions and merge manifests.

## 3. What the runs check

| Run | Bounds | Shows |
|---|---|---|
| `run_resume` | 3 invocations, 2 strategies of 1 unit, auto-tier on, 2 faults | `CommittedWorkIsKept`, `NoUnitSkipped`, `FencedSessionStops`, `AutoTierAtMostOnce`, `CompletedMeansAll`, `ReportedCompletionIsDurable`, `ImplementsDurableRun` |
| `run_ends` | the same with 1 fault, fairness | `CompletesOrRefuses` |
| `file_lock` | 3 processes, 2 faults, fairness | `SoleUser`, `AbandonedIsCleared` |
| `sync_exchange` | a device that writes 2 changes and one that reads, pages of 1, hub of 2, another brain, 1 fault, fairness | `NothingElseSkipped`, `EveryChangeReaches` |
| `compression` | 2 fibers with a shared neuron, tiers 1 and 4, an edit or pin, a restore, a crash, fairness | `NothingLost`, `ReceiptMatchesLive`, `IntentResolves` |
| `reconnect` | 2 callers, 3 attempts, WebSocket, 4 faults, fairness | `FirstNotReplayed`, `FreshKept`, `CallsEnd`, `Recovers` |
| `summarize` | 9 fibers, 6 tags, 2 workers, pages of 4, 1 synapse for each summary, 1 change of a source, 1 failing insert, 1 fault, fairness | `PlanRowsAgree`, `GroupsAreComponents`, `SummaryOnce`, `NoPartialSummary`, `DueGroupsOnly`, `EndsUnlessHindered` |
| `file_lock_race`, `sync_memories`, `sync_marked`, `compression_pins`, `reconnect_replay` | small instances of the same modules, with 0, 0, 0, 0 and 2 faults | five statements of documents and comments that the code does not keep (section 5) |

Each module's `TypeOK` is checked in its run with invariants.

Why the bounds are enough. For the runs of the lease, three invocations give
every pattern the code distinguishes: a stalled one, the one that took over, and
one that comes when both have touched the row. Two strategies make "completed"
different from "completed so far" and give the failure of one a successor that
still runs. With one unit a cursor has the three values that matter (no state,
started, done). Two faults are needed for the deepest cases (a stalled holder
whose successor then crashes; a lost acknowledgement followed by a crash). The
theorems cover every other value of the constants.

For `sync_exchange`: one device that writes and one that reads is the smallest
instance in which a change is between the two, and the writer, which syncs as well,
is the other request at the hub. Two changes and a page of one are the smallest that
cut a page; one fault is any single failure, at any of the steps: a lost answer after
which the writer pushes its rows again, a request that arrives late, a restart, a
lookup that fails. Both ways in which an answer leaves a change out (an append
between the two queries, a cut page) occur, each within a few steps.
Three clients, two of them processes of one device, were checked once for the
safety properties (one row, one fault, 1 794 535 states); `WatermarkCovers` is proved
for any number of them. `sync_memories` and `sync_marked` need one round of calls.

For `compression`: the shared neuron is a plain member of one fiber and all there
is of the other, so that it is written by either for a different reason and a text
may be source of both. Tier 1 stands for the reversible ones and tier 4 for those
that need snapshots. One crash and one restore are enough to meet a prepared
intent, a backup without a compression, a snapshot that the other fiber made, and a
restore in the middle of a compression. Three neurons in two overlapping pairs
(tiers 1 and 4 in 782 015 states, 3 and 4 in 302 516) and two neurons with tiers 1, 3
and 4 (2 087 865) were checked once.

For `reconnect`: the second caller is the peer that has reconnected meanwhile.
Four faults let two connections fail one after the other with a failing dial and
a cancellation between. Each fault can be met by any caller at any step.

For `summarize`: a tag joins two pairs, whose tree gets as deep as the bound
allows, so that `find` is used at its limit; one pair has a summary of an earlier
run; one tag is too common for its posting limit and would merge two groups if it
counted. The fiber that changes is the last of a page. With one fault either the worker crashes (also between the two inserts
of a neuron) or it is overtaken and goes on; one failing insert adds the rollback,
which may be the expired owner's. The run reaches a summary without a state row and
one without its neuron behind the cursor, so that both excuses of `NoPartialSummary`
are used. A census of two fibers with two synapses and three faults was checked once
(three workers and safety in 3 547 900 states, two workers with liveness in 89 521).

Fairness (`FairSpec`). A session that can take a step takes one (asyncio tasks
keep running while the process lives); the lease of a session that is gone runs
out, since time passes; and while the run is unfinished somebody starts the
command again, which is the recovery the guide prescribes. No fault is ever
forced, and `TotalTimeout`, `Heartbeat` failures and stalls have no fairness.
For the lock file: running processes go on, sessions keep ending, time passes.
For sync: each client keeps calling `smem_sync` and a call in progress goes on
(weak fairness of `Sync`). Writes, seeding, pruning, collapsing, faults and the
changes of other brains have none. For compression: a live process goes on, passes
keep being started and each reaches every fiber with a prepared intent; restores
have none. For the connection: callers keep calling and their steps go on (a dial and a close are
bounded by timeouts, the asyncio lock is first come, first served), and the
receive task of a broken connection ends. For summarize: a live worker goes on,
and a run that is unfinished and has no live owner is opened again.

`FiberCompression` is the one module whose runs do not check deadlock: when its
edits, restores and crashes are used up and everything is compressed, it stops.

Each property has a mutant in the module, a variant of one definition with a
plausible bug (`OwnsRow_unfenced`, `Finished_keepsIntent`, `Joined_leaf`, ...),
under which its run fails.

## 4. What is proved

`ConsolidationRunProofs`, for every number of invocations, strategies and units,
every set of options and every fault bound, from `ConstantsAssumption` alone:

* `TypeCorrect`: `Spec => []TypeOK`
* `CommittedWorkKept`: `Spec => CommittedWorkIsKept`
* `NothingSkipped`: `Spec => []NoUnitSkipped`
* `ReportedCompletion`: `Spec => []ReportedCompletionIsDurable`
* `FencedStops`: `Spec => []FencedSessionStops`
* `AutoTierOnce`: `Spec /\ ClaimantHasSameOptions => []AutoTierAtMostOnce`
* `CompletionIsComplete`: `Spec /\ ClaimantHasSameOptions => []CompletedMeansAll`
* `RunImplementsPromise`: `Spec /\ ClaimantHasSameOptions => ImplementsDurableRun`

None of the properties is inductive. A save overwrites the whole row with the
session's copy, so that the row keeps its work only if every session that may
still write has a copy that is not behind. The inductive invariant `IInv` says
so, once for each place where a copy of the record lives:

* `RowOK`: what the row counts as committed was written (`Backed`).
* `Good`: so was what the session's copy counts as committed; its program
  counter agrees with the cursor (a session about to checkpoint a unit has
  written it); its copy carries its own token.
* `Linked`: the session whose token is on the row has a copy of the same run
  that is not behind the row (`Behind`). For all others nothing is claimed,
  because the fence rejects their saves. A token that has not claimed or started
  yet is on no row.

The proof that a step preserves `IInv` has a lemma per kind of step; the lemmas
about `Save` carry the argument, and each action reduces to one of them. The
action property follows from `Linked` of the writing session.

`FencedStops` adds `LateInv`: the units written off the row are at most the
strategies that failed since, except between a unit and its checkpoint, where one
more is under way; and the strategy under way has not failed yet.

The last three theorems need a hypothesis of their own. `ReadRecord` compares the
options of the invocation with those of the row it read, but the claim that
follows takes whatever row is there by then. With `ClaimantHasSameOptions` (whoever
takes over a row came with that row's options, which is so whenever there is one
set of options only) the invariant `TierInv` follows the auto-tier of a run: once it is
under way (`Engaged`), the row and the copy of the session that owns the row show
it (`TierShows`, `TierRow`), one session at a time is at it (`OneAtTier`), and the
phase of a record tells what the run has behind it (`PhaseTells`, `Finalized`).
That the hypothesis is needed is a finding of section 5.

For the refinement the steps are sorted into three kinds: a save (`SaveShape`: the
row stays or becomes the copy of the session that owns it, which still has the same
run and options) is `Record` or a stutter; a step beside the row (`AsideShape`) is
`Perform`, `Close`, `Retire` or a stutter; and `Claim` and `Start` are `Retire` and
`Begin`. The guards come from the invariants: `Linked` and `OptInv` keep the run and
its plan, `Behind` what is recorded, `Backed` and `TierRow` say that it was done, and
`Unstarted` that a session at work has a run whose token is used up.

`ConsolidationFileLockProofs`, for any number of processes:

* `LockTypeCorrect`: `Spec => []TypeOK`
* `LockExcludes`: `Spec => []SoleUser`, by an invariant that adds: a process
  inside acquire or release is alive, at most one is inside acquire, and while
  somebody uses the lock nobody is beyond judging it.

`DeviceSyncProofs`, for any number of devices, clients and entities and any limits:

* `TypeCorrect`: `Spec => []TypeOK`, from an invariant `TypeInv` that also says
  that no call carries a position or an index past the end of the hub's log.
* `WatermarkCovers`: `Spec => []NothingElseSkipped`, from `SyncAssumption` alone:
  requests may overlap, pages may be cut, a device may have any number of processes
  and other brains may take ids of the hub.

`NothingElseSkipped` speaks of positions at rest, and a position is written at the
end of a call from what was read at its start and in the middle. The inductive
invariant `SafeInv` therefore has a part `Covered` for each call: what its device
need not be given any more (`Settled`: given, or skipped with an earlier position),
together with what the call has still to apply and what its answer leaves out, is
everything of the others up to the position it will write. The append of another
request adds to the log and to what the answers under way leave out by the same
step; a cut page moves the rest of the unseen changes from the one to the other. A
request that arrives late, a position that goes back, a repeated push and an insert
that is not applied do not touch it, because what is settled only grows.

`FiberCompressionProofs`, for any fibers that share neurons in any way, any tiers
and any number of edits, restores and crashes:

* `TypeCorrect`: `Spec => []TypeOK`
* `CompressionLosesNothing`: `Spec => []NothingLost`
* `ReceiptsTellTheTruth`: `Spec => ReceiptMatchesLive`

That no word is lost is not inductive, since a word may be in a backup only, and
a later restore or compression may take the backup away. The invariant
(`TypeInv /\ SafeInv`) says of each place that carries a promise what it
promises: `StoreGood` (the backup and the snapshots of an intent cover the source
it is about to overwrite, and those of a receipt cover its result), `CompGood`
(what the compression under way has still to write is covered by what it has
saved, except where others wrote or a restore dropped the copy since), `RestGood`
(what a restore with a receipt writes contains what it overwrites of the words that
are owed, and what it has written is there, except where others wrote since). A
restore and a compression may be at any two steps of theirs at once: `CompKept` and
`RestKept` say what either tolerates from the other.

`StoreReconnectProofs`, for any number of callers, attempts and faults and both
transports:

* `TypeCorrect`: `Spec => []TypeOK`, which includes the bound on the sendings
* `FirstAttemptNotReplayed`: `Spec => []FirstNotReplayed`
* `SingleFlight`: `Spec => FreshKept`

The invariant has, for each call, `Entitled` (who waits for the lock has a reason
to replace the connection it noted, as long as that is the one in use), `Placed`
(who dials noted the current connection; a pending request is on the one it
counts from), `Counted` (the attempt bounds the sendings, and on a WebSocket no
second attempt without a first sending) and `CutOff` (a query that lost its
receiver in its first attempt still waits there or has ended).

`SummarizePlanProofs`, for any fibers, tags, limits and numbers of workers, from
`PlanAssumption` alone:

* `SummariesAreUnique`: `Spec => []SummaryOnce`
* `SummariesAreWhole`: `Spec => []NoPartialSummary`

The invariant is the write-ahead argument. A row is `There` if it was written or is
one of those that no replay looks for (`Excused`). The run record is `Good`: each row
of a summary in the brain belongs to the pending unit, or to a unit behind the cursor
of which every row is there. `Behind` has to say what that is, since the checkpoint
of a pending unit takes the cursor back: a pending unit is the first that is due, so
that the units before it are behind. What any worker applies, an expired owner
included, is `Kept`: still pending in the record, or already whole, so that its late
writes find their rows there. The owner's copy is the record, and what it is about to
save is `Good` too.

Rows are taken back as well, by `add_neuron`. What keeps the argument is that this
never makes a row missing that was there (`Stays`): either somebody counted on the
summary (`CountedOn`) and the rows are excused from then on, or nobody did, and the
unit is still pending with nobody having gone past it. A neuron lacks its state row
only where that is excused (`HalfOK`). The fiber of a summary is never taken back,
and `SummaryOnce` and `DueGroupsOnly` rest on it.

`SummarizeGroupsProofs`, for any fibers, tags, limits, thresholds, depths and
numbers of workers:

* `TypeCorrect`: `Spec => []TypeOK`
* `GroupsCorrect`: `Spec => []GroupsAreComponents`
* `RowsAlwaysAgree`: `Spec => []PlanRowsAgree`, assuming `GroupsFit`: no connected
  component has `2 ^ MaxDepth` fibers
* `DueGroupsAreSummarised`: `Spec => []DueGroupsOnly`

The invariant is built in layers, one for each phase of the plan, each resting on
those below. All of them say, of every record that is somewhere (the row, a
worker's copy, what a worker is about to save: `Recs`), what its cursor implies
about the plan. Rows are only ever added (`Grows`), so that this stays true of the
records of workers that have lost the run long ago, and of all steps only those
that make a record or add a row have something to show:

* `CensusInv`: pages behind the cursor are staged, and a page is only staged as it
  was before.
* `StageInv`: each fiber behind the cursor is a candidate if it is a source, its
  marker is there if it is a summary, and nothing else is. Past this phase the
  candidates are the sources, so that all workers count the same pairs.
* `PairInv(F)`: the pairs are read in one order, fixed by the census (`Entries`,
  `At`), and there is a position F up to which they are joined: the rows before F
  are those that the pairs call for, computed from the rows before them
  (`JoinedBefore`), and there are none at F or behind it. A worker stands at F or
  before it; in the first case its rows are new, in the second they are there.
* `MemberInv` (`ListInv` and `MembersOK`): members carry the root of their tree
  after the last pair, and those behind the cursor are listed.
* `DueInv`: what is pending, being applied or written is a due group, and due
  groups behind the cursor have their fiber, which nobody takes back.

What the union-find computes is `SummarizePlanLemmas`. `IsForest(rho, q)` says that
`rho` gives each fiber the root of its tree at position q: the trees are inside the
components, the pairs before q are joined, ranks rise along the paths, and a root
of rank n has `2 ^ n` fibers below it. `ForestExists` finds such a `rho` for every
q up to F, by induction over the positions, `FoundIsRoot` shows that a path that
`find` accepts ends in `rho`, and `TreesAreComponents` that after the last pair the
trees are the components of the reference definition. A path that is longer than
`find` goes can only end in a conflict, never in a wrong group; `NotTooDeep` shows
that it takes `2 ^ MaxDepth` fibers, where `_MAX_UNION_DEPTH` is 128. So
`GroupsCorrect` needs no bound on the groups, and `RowsAlwaysAgree` needs one.

The library's induction theorems take a predicate as a parameter, which the
provers cannot instantiate; over the naturals it is enough to have it with a set
(`NatInductionSet`), which is what the recursion of `Root` (`PathExists`) and the
induction over the positions use. Where the model would count recursively the
lemmas count the elements of a set instead (`First`, `Pow2`).

Only model-checked: the liveness properties (`CompletesOrRefuses`,
`AbandonedIsCleared`, `EveryChangeReaches`, `IntentResolves`, `CallsEnd`, `Recovers`
and `EndsUnlessHindered`), which are beyond TLAPS.

## 5. Where documentation and code disagree

With a run each:

* **The lock file does not exclude** (`file_lock_race`). A contender can read it
  between its creation and its write, or unlink a fresh one in place of the stale
  one it judged, against the module's docstring. What it does guarantee is
  `SoleUser`.
* **Inserts do not arrive** (`sync_memories`). The logged payload lacks the id
  that the receiving side requires.
* **A row that was never sent is marked** (`sync_marked`). `mark_synced` is given the
  hub's maximal id and compares it with the device's own sequence numbers. The hub's
  ids run ahead, in the trace since another brain has taken one, so that a row that is
  logged while the request is on its way is marked, never sent and in the end pruned,
  although a comment at the log says that nothing is dropped (`store.py:3940`). A
  second device, a lost answer after which the rows are pushed again, the hub's cap
  of 500 changes and a restart of the process, which sets the sequence back to zero,
  lead to the same.
* **A pin is taken back** (`compression_pins`). A pin set while its fiber is being
  compressed is overwritten by the completing write of the whole row, against the
  comment that it takes effect with the next pass.
* **A request is replayed** (`reconnect_replay`). The rule that a request whose
  receiver died is not sent again is kept in the first attempt only; the retry
  loop reconnects and sends after every failure, against the docstring of
  `_DeadWebSocketReceiverError`. Writes that are not idempotent may be applied
  twice.

Seen while modelling, without a run; the formula is in the module where one is
named:

* The claim names neither the run nor the fingerprint, so that an invocation may
  continue a run that was made with other options
  (`ConsolidationRun!ClaimantHasSameOptions`). `docs/guides/consolidation.md` says
  that a request with other options will not override the saved run.
* The hub answers with changes that were unseen and a maximum that was read later,
  and it cuts a page at 1000 changes and not the position that goes with it
  (`sync-hub/src/db/queries.ts:150`, `routes/sync.ts:86`). In both ways a device moves
  past changes it was never given, for good, although the route promises to "return
  unseen changes" (`DeviceSync!NothingSkipped`, which fails in the model of
  `sync_exchange` either way). `NothingElseSkipped` says that there is no third way.
* A compression and a restore that overlap can lose words, in the ways that
  `FiberCompression` names (section 2): both work on neurons that they have read
  before, and a restore deletes saved copies that a compression counts on.
* A destructively compressed fiber can lose the snapshots it would be recovered
  from, when a fiber that shares its neurons is recovered first, or when the
  compression finds a snapshot that a restore is about to delete
  (`FiberCompression!RecoverableStays`, against `engine/compression.py:12`):
  `recover_fiber` then refuses it. The words are not lost: those of the shared
  neurons are in the neurons again, the others stay in their snapshots.
* A prepared intent whose neurons another fiber has changed can no longer be
  replayed (`Refused`), and each later pass raises at it until an operator steps
  in.
* A recall between the staging of a census page and its checkpoint, followed by a
  crash, makes every resumption of the run refuse, and so does an edit of a source
  at any time (`Hindered`). The tests of the census resume intend it; an edit of
  a source behind its pending snapshot leaves a partial summary that is refused
  for good.
* A summary may stay without parts, and a run may stay stuck, because `add_neuron`
  has two inserts (`store.py:1275`). A worker that is cancelled between them leaves
  a neuron without a state row, and the replay asks for the neuron only
  (`engine/consolidation.py:5298`). If the second insert succeeds and its answer is
  lost, the rollback deletes the neuron and not the state row, and each replay then
  collides with it, until somebody runs `smem prune-orphan-states`
  (`SummarizePlan!Stuck`). If an expired owner collides with its successor there, its
  rollback deletes the neuron and the edges that the successor counts on
  (`SummarizePlan!Excused`).
* `start_consolidation_progress` and `claim_consolidation_progress` do not look at
  the lease: a stalled invocation may replace a run started since, or fence out
  the holder, which is what `Start` and `Claim` allow. The guide says that the next
  run begins only after the saved one has completed. `CommittedWorkIsKept` and
  `NoUnitSkipped` hold in spite of this: the fence on `save` does its job.
* A remote deletion is logged again as the peer's own (`Apply`). The retention
  pass orders updates by a sequence that restarts at zero with the process
  (`Restart`), so that it may keep an older update of an entity and delete the latest.

## 6. Not modelled

The modules follow the order of events where correctness depends on it. Most of
the code's 142 000 lines do something else: request handlers, pages and command
line, text extraction, encoding, ranking and the strategies' heuristics are
numeric or textual work on one request at a time, for which a model would be a
second copy of the code. The share of lines that the models stand for is
accordingly small, and the row in `PROJECT.json` for each component says which
part of it is meant.

Not modelled although it has a protocol of its own, in the order in which it would
be worth adding:

1. The merge rules of the sync conflict resolution as operators, checked against
   a reference over bounded inputs (delete wins, symmetry of the unions).
2. The pending/committed protocol of `essence_backfill`, with edits of the fiber
   during the LLM call.
3. The semantic-link recovery commands against a resuming worker, and the source
   revision that guards publication.
4. The Merkle delta sync, with its cache that is only added to and its deletion of
   entities the hub does not have.
5. The event socket and its reconnecting client; the maintenance scheduling
   (cooldown, task and scheduled loop over the lease); the hooks' cursor.
6. Schema conversions that are interrupted.
