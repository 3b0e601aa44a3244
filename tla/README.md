# HOL Guard: a verification project

HOL Guard (`src/src/codex_plugin_scanner/guard`) reviews what AI coding harnesses
are about to do on a developer's machine. A local daemon answers hook requests,
SQLite and the system keychain hold its authority, and several processes (daemon,
CLI, hook commands, native runtimes) share one *guard home*. This directory holds
TLA+ models of the parts where several actors share state, the TLC runs that check
them on small instances, and TLAPS proofs for every value of the constants.

Paths below are relative to `src/src/codex_plugin_scanner/guard/` unless they
start with `src/` or `docs/`.

## 1. Inventory

| Component | State | Operations | Interacts with | What is hard |
|---|---|---|---|---|
| Workflow capability authority (`store_workflow_capabilit*.py`) | tables of capabilities, receipts and a hash-chained transition ledger in SQLite; one control record in the keychain | issue, claim, revoke, two lookups | file lock, SQLite, keychain, wall clock | two media without a common transaction; crashes; lost commits; unreadable keychain; clock set back |
| Runtime hook scheduler (`daemon/runtime_hook_scheduler*.py`, `runtime_hook_deadline.py`) | queued and active counters, lanes with client groups, retained bytes, active limit | reserve/resize/release bytes, acquire, release permit, set active limit | daemon request threads, process runner | one condition variable for all waits; eight exits from the queue; shares, ageing, deadlines |
| Evidence writer and journal (`daemon/runtime_hook_evidence_*.py`) | in-memory queue, set of durable records, receipt memory; journal file; evidence tables | submit, stop, worker loop, recovery | hook threads, other processes on the same journal, SQLite | crash between append, insert and rewrite; retries; bounded drain |
| Hook process runner (`daemon/hook_process_*.py`) | registered, usable and idle workers, generation, target; the worker processes | start, review, replace, resize, trim, close; publish capacity | scheduler (`set_active_limit`), operating system | six kinds of thread; close races process creation; a kill proves nothing unless the worker was isolated; capacity is read under a lock and published after it |
| Continuations (`store_continuation.py`, `continuation_*.py`) | claims with leases, resume row, effects, one-shot authority | continue a decided request, complete the waiting hook | approvals, hook process, review outbox | lease expires under a slow caller; a hook that finalizes without a lease; replays of older results |
| One-time authorities (`store_local_once_authority.py`, `store_exact_cloud_local_once.py`) | one-time grants | grant, consume | approvals, hooks | double use by concurrent consumers |
| Review event outbox (`store_review_event_*.py`, `runtime/cloud_review_*.py`) | events with stream and request numbers, request ledger with bindings, cursors; login | triggers, bind, append, rebind, reassign, requeue; the worker's round | approvals, login, Cloud; connect repair (`runtime/runner.py`), which rebinds too, from other threads and processes | login and bindings change during a round; a rebind writes what it read before its transaction; lost, partial and refused answers; renumbering; crash between the transactions that apply one answer |
| Memory decision outbox (`memory_decision_outbox.py`) | pending decisions | enqueue, flush | cloud | retries, duplicates |
| Native policy snapshots (`native_policy_snapshot_*.py`) | generation, published file | publish | resident runtimes | generations must not go back |
| Native runtime resilience (`native_runtime_resilience.py`) | health per runtime in a bounded map | record failure/success, admit one-shot | hook path | quarantine and eviction |
| Resident runtime (Rust, `src/rust/crates/guard-runtime`) | leases, restart budget, replay memory | acquire, renew, retire | daemon, hook commands | take-over of leases |
| Remote command queue, approvals, runtime transitions, policy bundles | see `PROJECT.json` | | | |
| Plugin scanner, CLI, adapters, dashboard, proxies, classifiers | none, or only UI state | | | stateless analysis of files and commands; no state machine to check |

What makes the modelled components correct:

* **Capability authority** - a database that a call accepts is the last one any
  process committed; a capability yields at most `max_uses` receipts over its whole
  life; the keychain's record is monotone; no legal history makes the store reject
  its own tables; callers see issues, claims and revocations as atomic and permanent.
* **Scheduler** - counters equal what they count; every exit gives back what the
  request owns; limits and client shares hold; no waiter sleeps next to capacity it
  could use; every waiter leaves.
* **Evidence writer** - accepted evidence is stored, journaled or in memory, or the
  writer reports itself degraded; no writer erases another's lines; the queue does not
  grow past its cap and a batch; every record leaves the queue.
* **Process runner** - no worker process escapes the runner's books; a confirmed close
  leaves nothing running; what the idle queue offers is usable and in nobody else's
  hands; lost workers come back.
* **Continuations** - per offer one outcome, reported once and never changed; an
  authority is consumed with the completion it was for or not at all.
* **Review outbox** - every event is in the outbox, settled by Cloud or replaced; a
  request's events keep their order; an event goes to no account that its request was not
  first bound or explicitly reassigned to; the outbox drains.

The hazards behind these properties are listed in `PROJECT.json` under `hazards`,
each at its line.

## 2. Plan

Done, in this order:

1. `CapabilityRecords` -> `CapabilityBook` (abstract) -> `WorkflowAuthority`
   (detailed, refines the book) and their proofs.
2. `HookScheduler`.
3. `EvidenceWriter` and its proofs.
4. `HookRunner`, which feeds the scheduler's active limit.
5. `ReviewOutbox`, and `Continuation`, which extends it: the same transaction finalizes
   an attempt and appends the terminal event; proofs of the continuation's invariants.
   Proofs of the invariants of `HookRunner` and `ReviewOutbox`, and of what was left of
   `WorkflowAuthority`.
6. Proofs of `HookScheduler`, whose `_dispatch` is a search inside a loop.

Next:

7. One-time authorities on their own, `native_runtime_resilience`, policy snapshot
   generations.

## 3. Modules and the code

### 3.1 Workflow capability authority

`CapabilityRecords.tla` has the records (row, receipt, transition, ledger, tables),
the consistency checks of `load_and_validate_authority` and the effect of each
operation's SQL statements (`IssueTx`, `ClaimTx`, `RevokeTx`). A ledger head hash is
modelled by the ledger itself: SHA-256 chains identify their history, and comparing
(sequence, head) is comparing ledgers. HMAC signatures are taken to be unforgeable,
so signed rows are just rows.

`CapabilityBook.tla` is what callers are promised: one variable `book`; entries happen
at one instant, in order of time, and stay.

`WorkflowAuthority.tla` is the code. A call is a sequence of steps under the file lock
`workflow-capability-authority.lock`:

| Step (`pc`) | Action | Code |
|---|---|---|
| idle | `Begin` reads the clock and takes the lock | `store_connection_schema.py:649` |
| load | `LoadRefused`, `Bootstrap`, `LoadControl` | `store_workflow_capability_control.py:64-81` |
| resolve | `PendingUnresolved`, `ResolveForward` | `:82-93` |
| observe | `ObserveRefused`, `Observe` | `:94-99` |
| apply | `Prepare`, `Decline`, `Lookup`, `LookupReceipt` | `:102-122`, `store_workflow_capabilities.py` |
| commit | `Commit` | end of the SQLite transaction |
| finalize | `Finalize` | `:125-136` |

The environment: `Crash` (an exception or a kill, between any two steps),
`DatabaseLoss` (all processes gone, the database at any earlier commit: a power cut
with `synchronous=NORMAL`, or a restored backup), keychain reads that answer None and
keychain writes that report failure whether or not they were done, and `SetClock`.
`Faults` says which happen. Two history variables, `sealed` (the last commit of any
process) and `delivered` (receipts handed out), exist for the properties only.

`Decline` covers every refusal of a request after the control checks (unknown, expired,
revoked, exhausted, replayed, or a caller context that does not match). Refusals by
argument validation or for a missing signing key come before any state is read and are
left out.

### 3.2 Runtime hook scheduler

`HookScheduler.tla`. Each request is a thread; each method of the scheduler runs under
one lock and is one action, with its `_dispatch` included. The private methods
(`_enqueue`, `_remove_queued`, `_expire_waiters`, `_oldest_aged_eligible`, `_next_item`,
`_dispatch`) are operators on the scheduler record; the weighted round over the lanes,
the rotation of client groups and the age boost are as in the code. `woken` is the set
of threads the condition variable has notified, so a missing `notify_all` would be
visible as a thread that never runs.

Details worth knowing:

* The queue is one sequence in order of `sequence`; the deque of a client group is its
  part of that sequence (`Items`, with `Oldest` for `items[0]`), and `rota` is the order of
  the groups in each lane's `OrderedDict`. That the two agree is `GroupsReachable`.
* The loops over the queue, a lane's groups, the lanes and the free slots are recursive
  functions of the number of rounds, so that they can be proved about.
* A wake-up can be lost in two ways. `NoByteWaitLost` is about threads that wait for bytes,
  `NoLostWakeup` about a free slot next to a queued request that may have it. A slot is
  covered (`SlotCovered`) when some thread in the wait of `acquire`, whatever became of its
  own request, has been notified, timed out or cancelled: when it wakes it dispatches.
  `NoLostWakeup` says which steps may uncover a slot: only `Interrupted` of a thread whose
  request a search has already rejected. There `_remove_queued` returns False, so the
  exception handler notifies nobody; and `_next_item` makes at most 11 turns, so a search
  whose turns all meet heads that can no longer finish ends before it has looked at every
  request and leaves the rest to the threads it rejected. Five requests of one group, of
  which the first four cannot finish any more, and four interrupts are enough to see it; the
  slot then stays free until the next wake-up or deadline.

* Time is in ticks, kept relative (`left`, `age`), and does not pass inside a locked
  method. `GiveUp` is the case of a deadline that passes between the thread's own
  `_dispatch` and its look at the clock.
* A queue listener that raises is `Acquire` followed by `Interrupted`: the model's thread
  is then in its wait, where the code is still before it; the owned state is the same.
* Left out: exceptions inside the byte waits (they own nothing yet or keep what they had),
  and a cancellation event set for a request that already has its slot (the code no
  longer looks at it).
* The service-time prediction is an arbitrary value that changes (`Reestimate`); samples and
  quantiles are not modelled. Statistics are left out.
* `resize` is part of the API and of the tests; the daemon's request handler
  (`daemon/server.py:6327-6400`, `:6688-6694`) does not call it.
* Two observations that break no property: every woken waiter runs `_dispatch`, which
  notifies all again, so a wake-up costs more the more requests wait; and `_next_item`
  makes at most 11 turns, so it can answer None although an eligible request stands
  behind several heads that can no longer finish. The rejections in that search are
  followed by a `notify_all`, and the next thread goes on.

### 3.3 Evidence writer and journal

`EvidenceWriter.tla`. A process owns a writer; writers share the journal file and the
database. The worker's loop is cut where the code can fail or be interrupted: take a
batch, journal (append and fsync), check the drain deadline, persist, rewrite. `Start`
is `_recover_journal`; `Down` is the end of a process, by death or after `stop()`.

Abstractions: the journal is the set of its readable lines plus the number of
unreadable ones and whether it ends inside a line; file order decides nothing that is
checked. A receipt that two writers journaled has two lines, which shows only in the
refusal of the second one at recovery. Byte limits are refusals that may occur at any
fill level (queue) and a number of lines (journal). "In SQLite" means that the insert
returned: a pre-tool record without a command needs no row and counts as stored. Record
contents, correlation, statistics, the preview sidecar and the batching delay are left
out, and so are submissions that validation refuses before the queue is looked at.

What the model shows about the code beside its properties:

* An accepted record is lost when the process dies before the worker has appended it.
  The writer answers True on queueing; `AckedIsHeldOrDegraded` is a promise of a living
  process.
* A record that SQLite never accepts is retried for ever, in turn with the others:
  `PendingSettles` needs SQLite to accept it eventually.
* A journal beyond its size limit is refused by recovery and by every rewrite while appends
  go on; it does not shrink by itself. The writer is degraded.
* The contract `docs/guard/contracts/native-hook-decision-receipt-persistence.v1.md:41` caps
  the queue at 2,000 records; a retry (`runtime_hook_evidence_writer.py:439`) re-appends
  without looking, which the run `evidence_cap` shows. What holds is at most a batch more
  (`QueueStaysBounded`, section 5).
* A receipt whose append failed stays in `_receipt_seen`, so submitting it again is
  answered True; the writer is degraded by then, as the property requires.
* Lines left by a dead writer wait for the next start of some writer.

### 3.4 Hook process runner

`HookRunner.tla`. Each critical section of `_state_lock` is one action, and so is every
step at which a thread can be overtaken: process creation, isolation, retirement, taking
a worker from the queue, delivering a count to the listener. `proc` is what the operating
system has behind a slot:

| `proc` | Meaning | Retirement (`retire_worker_slot`) |
|---|---|---|
| `raw` | started, not yet its own process group or job | the kill is not proof; fails once |
| `up` | isolated, guardian alive (also while it holds as containment anchor) | contains the tree, or times out |
| `orphan` | guardian died after isolation, its children may live | cannot be confirmed |
| `husk` | died before isolation | nothing to contain |

| Thread | Actions | Code |
|---|---|---|
| `start`, `close_contained` | `Start`, `StartFails`, `CloseBegin`, `CloseRetire`, `CloseReturn` | `hook_process_runner.py:103-160`, `:394-446` |
| supervisor | `SupExit`, `SupSpawn`, `SupGather`, `Isolate`, `Admit`, `NotReady` | `:459-512`, `hook_process_creation.py:62-235` |
| spawn thread | `SpawnProcess`, `SpawnRefused`, `Register`, `RetireStale` | `hook_process_creation.py:26-58` |
| retirement thread | `RetireRun` | `hook_process_worker.py:166-184` |
| reviewer | `Enter` ... `HandOver` | `hook_process_runner.py:186-289`, `hook_process_slot_review.py` |
| trimmers | `TrimCheck`, `TrimTake`, `TrimRetire` | `hook_process_runner_lifecycle.py:149-162` |
| listener | `Deliver` | `:239-240` |

Abstractions: a generation is counted at each start only (the code also counts at close
and at a failed containment; no generation is live in a closed runner). `Start` requires
that the last close was confirmed: `daemon/service_lifecycle.py` serialises starts and
stops and refuses (`:100-102`) a service that is quarantined after an unconfirmed one. A
change of the usable set and the count that `_publish_capacity` reads in its own section
right after it are one step; the delivery is another. With `TrackCounts = FALSE` only
the fact that a count is under way is kept. The target is any number within its bounds
(load, CPU and memory policy left out); backfill and retry delays are time only; a
review refused as transiently not ready enters again. `Slots` is as large as
`ProcessLimit`, so a full idle queue does not occur. Reuse of a process id by the system
is not modelled.

### 3.5 Review event outbox

`ReviewOutbox.tla`. `db` is the three outbox tables and the AUTOINCREMENT counter; the
operators on a database (`Insert`, `BindFirst`, `Append`, `Acknowledge`, `Rebind`,
`Adopt`, `Requeue`, ...) are the SQL statements from which the transactions are made. A
row is known by its request and request number (`event_id`) and by its stream number.
`sync` is the worker's round, and `refresh` what each thread or process that refreshes
bindings has read and not yet written:

| `sync.pc` | Actions | Code (`runtime/cloud_review_sync.py` unless named) |
|---|---|---|
| idle | `SyncBegin` | `:219-241` |
| rebind | `SyncRebind`, which starts a refresh if the round's identity is still logged in | `store_review_event_outbox.py:150-176` |
| list | the worker's refresh, then `SyncList` | `store_review_event_outbox.py:205-267` |
| post | `SyncDrop`, `SyncPost`, `SyncLost` | `:264-358`, `:383-394` |
| settle | `SettleAck`, `SettleRecover`, `SettleRepair`, `SettleMismatch`, `SettleRetry`, `SettleRequeue` | `:359-381`, `cloud_review_retry_recovery.py` |

| `refresh[p].pc` | Actions | Code (`store_review_event_outbox_binding.py` unless named) |
|---|---|---|
| idle | `RepairBegin`: connect repair loads the login (the worker's `SyncRebind` does the same) | `runtime/runner.py:4411-4435` |
| select | `RefreshSelect` reads the candidate rows | `:159-178` |
| write | `RefreshWrite` updates rows and requests | `:179-226` |

A refresh (`refresh_same_subject_binding`) reads the login and the rows in autocommit;
SQLite's implicit BEGIN comes with its first UPDATE, which names a row by `stream_sequence`
only. The two reads and the write are therefore three steps with anything in between, and
what is written may be stale. Connect repair is called by the command line, by handler
threads of the daemon and by the command queue without the lock of the cloud sync, so it
rebinds or holds rows of a batch that is on the wire; `Refreshers` is the set of all of
these, `Worker` the one that drains.

Requests, logins, reassignments, requeues and refreshes happen between any two steps of a
round; `SyncCrash` ends the round anywhere. `settled`, `replaced` and `consent` are history variables.

Abstractions: one worker thread and one OAuth source; `_persist_recovered_oauth_binding` is
a `ChangeLogin`; the repair that precedes a round (`runtime/cloud_review_sync_auth.py:50`)
is a refresh like any other, and the worker's identity check and its load of the login are
one step, because a change between them shows nothing that another refresher's load does
not; `retry_review_events` also selects before its implicit BEGIN, which at worst delays a
row that was rebound meanwhile, and is one step; the list is in stream order
(`list_ready_review_events` discards its `newest_first` argument); a request always has a
ledger row, so the branch of `_binding_for_append` for none is absent; a round ends when
nothing is listed or an answer is lost, not after a number of batches; a failing replay
marker is one way of `SyncDrop` or of a retry; the refresh of an expired session in the
middle of a post is not modelled, so the model does not say under which account Cloud
stored an event. An acknowledged number is never above the counter.

What the model shows beside its properties: `refresh_same_subject_binding` is meant to touch
rows "only when subject and workspace are unchanged", and its UPDATE re-checks only the
number. Rows it selected that were held and then explicitly reassigned to another account
before it writes get its machine, and are held again although the user has just confirmed
them. The row's account does not change (`ConsentedOnly`) and nothing is lost
(`NothingLost`): the row waits for another reassignment.

### 3.6 Continuations

`Continuation.tla` extends the outbox. A call of `continue_request_after_application`
computes its offer, looks for an earlier result of that offer (`Look`), takes the lease
(`Claim`), runs its adapter (`Run`) and finalizes (`Finalize`), or writes what it found
again (`Replay`). The waiting hook completes without a lease (`HookLook`,
`HookFinalize`) and may consume the one-shot authority in the same transaction. A caller
that dies simply stops; `LeaseExpires` needs no reason. Two offers stand for all of them:
the hook still waits, or it does not. A result is terminal or waiting and carries as
evidence the caller that made it.

What the model shows beside its properties: claims are per offer, and so is everything
the code promises. When the hook completes, the operation stops waiting, the next call
computes another offer, does not see the hook's result, and may report a second terminal
outcome of the request; a replay of an older offer's result overwrites the resume row.
`OneOutcome` and `CompletedIsFinal` are therefore about claims.

## 4. Runs

| Run | Instance | Distinct states | Checks |
|---|---|---|---|
| `wca_loss` | 2 processes, 1 capability with 2 uses, 3 invocations, 3 times; crash, loss, failing writes | 170,844 (symmetric in processes and invocations) | `TypeOK`, `AuthorityInvariant`, `SealedByControl`, `UsesBounded`, `StoreNeverRejectsItself`, `ControlMonotone`, `ImplementsBook` |
| `wca_misread` | 2 processes, 2 capabilities with different windows, 1 invocation, 2 times; crash, failing reads and writes | 113,038 | `AuthorityInvariant`, `DeliveredStaysSealed`, `ImplementsBook`, `CallsReturn`, `CommittedIsFinalized` |
| `wca_bootstrap` | crash and failing reads | stops at the violation | `ControlMonotone` is violated |
| `hook_admission` | 3 requests, 2 clients, 2 lanes, one without a reservation, one cancellable; limits 0 and 2 | 1.1 million | `TypeOK`, `Accounted`, `NothingLeaked`, `WithinLimits`, `GroupsReachable`, `NoByteWaitLost`, `AdmissionsJustified` |
| `hook_live` | 3 requests, 2 clients on one harness with one slot | 73 thousand | `NoLostWakeup`, `RequestsAnswered` |
| `evidence_safe` | 2 writers, a receipt and another record, queue and batch of 1; all faults | 860 thousand | `TypeOK`, `AckedIsHeldOrDegraded`, `JournalNeverForgets` |
| `evidence_live` | 1 writer, 4 records, queue of 1, batch of 2; all faults but torn lines | 400 thousand | `DurableIsRecoverable`, `PendingSettles` |
| `evidence_cap` | 1 writer, 3 records, queue and batch of 1; failing inserts | stops at the violation | `QueueCapped` is violated |
| `evidence_torn` | 1 writer, torn appends | stops at the violation | `DurableIsRecoverable` is violated |
| `hook_runner` | 2 workers, 1 reviewer, targets 1 and 2, two generations, one mishap | 1.17 million | `TypeOK`, `Owned`, `ContainedMeansGone`, `IdleIsUsable`, `CapacityRestored` |
| `hook_capacity` | 2 workers, 1 reviewer, fixed target, one mishap | stops at the violation | `LimitIsCurrent` is violated |
| `review` | 1 request, 3 logins (one account on two machines, another account), batches of 2, 2 calls, 1 hook; the worker and a connect repair refresh | 1.15 million | `TypeOK`, `NothingLost`, `OrderKept`, `ConsentedOnly`, `OneOutcome`, `SpentWithCompletion`, `CompletedIsFinal`, `Drains` |

Why these bounds. *Capabilities*: two processes suffice for every pair of steps to
interleave (the lock admits one at a time); two uses and three invocations let a third
claim be refused; every ledger prefix is a possible loss; two capabilities, asked for the
same invocation, show that one does not disturb the other. Ledgers are bounded by themselves: a capability is issued
once, revoked once and used `max_uses` times. *Scheduler*: three requests of two clients
give a group with two members, a competing client, a full queue (limit 2), a full byte
budget (3 bytes), a per-harness limit and an active limit of zero; deadlines of one or
two ticks make expiry race every other step. *Evidence*: two writers are the smallest
case in which a rewrite meets another's line; a batch larger than the queue lets the retries
of one batch compete with submissions. *Runner*: two workers let one be spawned, retired or
trimmed while the other serves; two generations are the smallest case in which something
of a closed pool meets an open one; one mishap is a death, timeout, failed start or failed
kill at every possible place, and a mishap closes the pool, so a second one meets little
that is new. *Outbox*: properties of rows are per request; one request with its created,
refreshed, resolved, snapshot and terminal events gives prefixes, gaps and renumbering;
three logins are the smallest set with "same account, other machine" and "other account".
Behaviours begin with nobody or one machine of the first account logged in (`FirstLogins`);
the other beginnings are reached by a change of login or differ in names only.
`Scenarios` says what a behaviour may have: two troubles (a login change, refusal, loss,
crash, consent or requeue) with a connect repair anywhere, so that a login change, a repair
that rebinds the batch on the wire and a refused answer meet; a trouble and a caller; or two
callers and a hook. Whether a hook waits is left open only where there are callers
(`ReviewSpec`). Named bounds: `Times`, `Budgets`, `Estimates`,
`AgeBoost`, `JournalLimit`, `MaxTorn`, `MaxGen`, `MaxMishaps`, `MaxWrites`,
`Scenarios`.

Symmetry is used only where no temporal property needs the identity of the permuted
values, and never in the liveness runs. Deadlock is checked
in every run but `review`: a daemon that is logged out and has nothing to do rests.

### Fairness

* `WorkflowAuthority`: a call that holds the lock goes on (a running process) and lookups
  keep coming; nothing is assumed of issues, claims, revocations or the clock. Crashes,
  misreads and failing writes may go on for ever, but not always at the same step: the control
  item of a process that reads it again and again is read once, and the resolution of a
  pending transition that is written again and again is written once (strong fairness of
  `LoadControl` and `Resolved`). Without that no protocol finishes.
* `HookScheduler`: a thread that is not in a wait, or whose wait may return (notified,
  timed out, cancelled), runs; the clock advances. The permit holder ends because its
  review is bounded by the same deadline. New requests, interrupts, resizes and the
  active limit get no fairness, so every answer must come from the scheduler or the
  deadline.
* `EvidenceWriter`: the worker runs (weak), and SQLite accepts a record that is tried
  again and again (strong fairness of `Persist`). The process may stop or die at any
  time and appends or rewrites may fail for ever.

* `HookRunner`: every thread that was started runs; nobody has to review, resize, start
  or close. `CapacityRestored` allows the other way out, a runner that closed itself.
* `ReviewOutbox` and `Continuation`: the worker's loop, its refresh included, runs and time
  passes. Callers and connect repairs get no fairness: they may die between any two steps. `Drains` rests on `Scenarios`: logins stop changing and Cloud stops refusing.

### Findings

* `wca_bootstrap`: `load_validate_and_observe_control` takes None from the keychain for
  "no control yet", and the secret store answers None also when reading fails
  (`store_secret_policy_integrity.py:261-265`). When the database has no authority data
  yet - a first issue died between prepare and commit - the next issue overwrites the
  record and withdraws the announced transition. The module calls the record monotonic and
  `test_pending_control_never_clears_backward_to_old_database` says pending never clears
  backward. No receipt is at stake: `wca_misread` shows that with an intact database
  callers still see the book.
* `evidence_torn`: `append_journal` does not look how the file ends, so the first append
  after a torn one is unreadable although the writer calls it durable.
* `evidence_cap`: a failing insert puts its record back into the queue although a submission
  took the place meanwhile, so the queue exceeds the cap that the contract
  `native-hook-decision-receipt-persistence.v1.md:41` states.
* `hook_capacity`: counts are read under the runner's lock and delivered after it, so an
  older count can be delivered last and the scheduler admits reviews for a worker that was
  withdrawn, which a comment in `hook_process_slot_review.py` says withdrawing first
  prevents. The next change of the pool repairs it.

By design, and not a finding: a call that dies between prepare and commit leaves a pending
transition that no later call may complete or withdraw, so the authority refuses
everything from then on (`capability_control_pending_unresolved`). That is why
`CommittedIsFinalized` speaks of committed transitions only.

## 5. Proofs

The proofs hold for every set of processes, capabilities, invocations, requests, writers and
records. Assumptions on the constants are the named `ASSUME`s in the modules, which TLC
evaluates in the runs.

**`CapabilityRecordsProofs`** - lemmas on the tables: types of the transactions, the ledger
grows by one, which rows and receipts they touch, and that each transaction takes tables
that pass the consistency checks for every capability (`Consistent`) to tables that do. The
last needs that a capability without a row has left no transition and no receipt, which the
checks themselves never look at.

**`CapabilityBookProofs`** - `BookTyped`, `BookUsesAccounted`, `BookReceiptsPermanent`:
the abstract book never exceeds `max_uses`, gives each receipt its own use number, and
never changes a receipt or adds one to a revoked capability. By the refinement these
are facts about the committed tables of the store.

**`WorkflowAuthorityProofs`** - from `ToleratedFaults` (database loss and keychain misreads
do not both happen; an empty database next to an unreadable control is indistinguishable
from a first start):

* `AuthorityInvariantHolds`: `SealedByControl` alone is not inductive. A `Finalize`
  writes what the call loaded steps ago, so the invariant must say that the loaded control
  is still the one in the keychain (only the lock holder is inside a call); a `Commit`
  makes the announced ledger true, so the transaction must be exactly what was announced;
  and a lost database must be recognisable, so every snapshot is shorter than the last
  commit or is that commit. `CallInvariant`, `ControlWellFormed` and `SnapshotsBehind`
  say this. One lemma per action, one step per conjunct it disturbs.
* `SealedByControlHolds`, `StoreTyped`: its consequences.
* `DeliveredStaysSealedHolds`: a receipt is handed out only after its commit, and commits
  only add receipts.
* `UsesStayBounded`: the refinement turns the book's accounting into a fact about `sealed`.
* `StoreNeverRejectsItselfHolds`: every database the store can fall back to is `Consistent`;
  only a commit adds one, and its transaction starts from one of them.
* `ControlMonotoneHolds` assumes `"read" \notin Faults`, the case the finding is about: each of
  the four steps that write the control writes one that may follow the one there, because
  the one a call loaded is the one there.
* `StoreImplementsBook`: `Init` maps to the empty book, `Commit` to one entry of the book
  (the invariant at "commit" gives the entry's guards), every other step to a stutter.

**`EvidenceWriterProofs`**

* `WriterInvariantHolds`: types, "a record at the rewrite step is in SQLite", "a batch is at
  most `max_batch`" and `QueueBounded`, inductive together: a retry moves one record from
  the batch to the queue, so only the sum is bounded. `QueueBounded` is what is left of the
  contract's cap (`QueueCapped`, which `evidence_cap` refutes).
* `QueueStaysBounded`, and `JournalNeverForgetsHolds`: only the rewrite removes a line,
  and then the invariant says that its record is stored.
* `DurableIsRecoverableHolds` assumes `"torn" \notin Faults`, the case the finding is about.
* `AckedIsHeldOrDegradedHolds`: strengthened by what a deduplicated answer relies on:
  everything in `_receipt_seen` is held or the writer is degraded, and a worker that has
  ended without being degraded has nothing left.

* `WriterTyped`: the type part of the invariant.

**`ContinuationProofs`** - for any requests, offers' claims, callers, hooks, logins and
outbox traffic (outbox steps leave the continuation's variables alone, so they cost one
lemma):

* `InvariantHolds`: `OneOutcome` is not inductive, because a replay finalizes with a result
  that was read steps ago and whose claim may have changed since. The invariant adds where
  results come from (`Authored`): the evidence of every result in circulation, in a call,
  in the resume row or on a claim, names the one caller that made it, and that caller still
  carries the same request, offer and result. Two claims completed with the same evidence
  are then the same claim, and a replay of a completed claim's evidence is a replay of the
  same result.
* `OutcomesAreUnique`, `CompletionIsFinal`, `AuthoritySpentWithCompletion` follow; the last
  needs that an authority is spent in a step that completes the claim, and that completed
  claims do not change.

**`HookRunnerProofs`** - for any workers, reviewers, trimmers, generations and mishaps:

* `RunnerInvariantHolds`: neither `Owned` nor `IdleIsUsable` is inductive. A reviewer puts
  back a worker it took steps ago, perhaps in a runner that was closed and started again
  meanwhile; a supervisor admits a batch it started earlier; a close drains queues that
  others still fill. The invariant says that a slot is in one place (`Custody`: the queue,
  somebody's hands, the supervisor's batch, or a thread that starts or retires it) with one
  holder (`OneHolder`), that only the newest generation has a supervisor (`OneSupervisor`),
  what a closed, a contained and a never started runner look like (`Lifecycle`), and that in
  an open runner what is idle, in the handshake or under review in this generation is
  registered (`OpenPool`).
* `RunnerTypeCorrect`, `WorkersOwned`, `ContainmentIsReal`, `IdleWorkersUsable` and
  `WorkersNotShared` follow.

**`ReviewOutboxProofs`** - of `Continuation`'s specification, that is, with every caller that
writes to the outbox and any number of refreshers in other threads and processes, and on top
of the continuation's invariant:

* `ReviewInvariantHolds`: the worker and the refreshers name rows by numbers they read in an
  earlier transaction, so what they acknowledge, purge, renumber or rebind is right only if a
  number they remember still names the row of the same event, or none (`InStep`), although
  rows were renumbered, rebound, held or reassigned meanwhile. Of a refresher the invariant
  also says that the rows it selected were bound and that a bound row stays bound
  (`RefreshersSound`): its write marks them deliverable whatever they are by then. That
  rests on every number being given out once (`Numbered`), on marked rows being delivered or
  replaced (`Acknowledged`), and on an unbound row belonging to an unbound request
  (`HeldUnbound`), which makes a first binding the first. These speak of a database value,
  not of the variable, so a transaction made of several operators is proved operator by
  operator.
* `ReviewTypeCorrect`, `NoEventLost` and `StreamOrder` follow. `ConsentRespected` adds what
  is on its way: a batch was read for the identity of its round from rows bound to it
  (`BatchMoves`), and an account a request was handed to stays one of its accounts
  (`ConsentGrows`), so a post prepared before the login or the rows changed stays consented.

**`HookSchedulerProofs`** - for any requests, clients, harnesses, payload sizes, limits,
deadlines and predictions:

* `SchedulerInvariantHolds`: none of `Accounted`, `GroupsReachable` and `NothingLeaked` is
  inductive, and inside `_dispatch` none of them even holds: a request that a search has
  taken out of its lane is neither queued nor granted, and still counted as queued.
  `Sound(s, out)` describes the scheduler object with the requests of `out` in that state:
  counters equal to what they count, a rotation that names exactly the groups with queued
  requests, every request in one place, `retained` the sum of the reservations. Each private
  method is shown to keep it or to move one request in or out of `out`; `_expire_waiters`
  and the searches only reject (`Trimmed`, `Found`), and `_dispatch` ends with `out` empty.
  The rest of the invariant relates the object to the threads: what a thread owns at each
  place (`Homes`), the limits (`Limits`) and the byte waits (`ByteWaits`).
* The loops are handled without induction over data: `LoopRuns` shows that the recursive
  function of a loop exists, `LoopFollows` that what every round keeps holds after the last
  one, both from the fact that a non-empty set of numbers has a least element.
* `SchedulerTypeCorrect` (no counter goes below zero), `AccountedHolds`, `NothingLeakedHolds`,
  `WithinLimitsHolds`, `GroupsReachableHolds`, `NoByteWaitLostHolds` follow from the invariant;
  `AdmissionsJustifiedHolds` from what `_dispatch` does between its first and its last grant
  (`Justified`): a grant made early stays within the share although later rounds change the
  queue, because clients only leave it.

* `NoLostWakeupHolds` is about what `_dispatch` leaves behind. A search that neither picks
  nor rejects (`Quiet`) has seen every group of every lane: each group it passes is barren,
  one lane's loop passes the whole rotation in order (`Passed`), and a quiet turn moves the
  cursor on, so three of the 11 turns cover the three lanes. With that, `_dispatch` ends with
  every slot taken, with a rejection, or with nobody who may have a slot (`Exhausted`); the
  count of its rounds suffices because every round that goes on takes a request out of the
  queue. A thread that goes back to sleep after its own dispatch therefore leaves a slot only
  to a request other than its own, or next to a rejected one, and has notified the threads
  of both. The interrupt of a rejected request's thread is excluded by the property;
  `SlotAlwaysCovered` turns it into an invariant under the hypothesis that such threads
  return undisturbed (`RejectedReturn`).

Every invariant and every action property of the passing runs is proved. Only model-checked
is liveness (`CallsReturn`, `CommittedIsFinalized`, `RequestsAnswered`, `PendingSettles`,
`CapacityRestored`, `Drains`), which the prover does not handle under fairness.

## 6. Not modelled

The components of section 1 without a module, with the reason for each in
`PROJECT.json`. Most of the repository is of a kind that a state machine says nothing
about: parsers and classifiers of commands, packages and manifests, rules and scoring,
adapters that translate one harness's JSON into another, the command line, rendering, the
dashboard, generated catalogues and installers. Their correctness is input by input, and
their tests are the right tool. The effort here goes where several actors share state,
and the models cover a small share of the lines for that reason.

Inside the modelled components: cryptography, encodings, statistics, event
payloads, and SQLite and the keychain beyond the failures named above.
