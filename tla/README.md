# A verification project for gears-rust

TLA+ modules, TLC configurations and TLAPS proofs for parts of
`constructorfabric/gears-rust`: the transactional outbox of `libs/toolkit-db`, the
component every gear with reliable side effects relies on, the worker loop of
`libs/toolkit-taskward` that runs its tasks, and the database leases that billing and
account management fence their jobs with. Paths below are to the repository (`src/` in `PROJECT.json`); `outbox/` stands for
`libs/toolkit-db/src/outbox/`.

## 1. Inventory

### 1.1 The system

gears-rust is a framework of libraries (`libs/`) and deployable modules
("gears", `gears/`). The parts that carry logic of their own:

| Part | State | Operations | Interacts through |
|---|---|---|---|
| **outbox** (`outbox/`) | eight SQL tables (`incoming`, `body`, `partitions`, `outgoing`, `processor`, `vacuum_counter`, `dead_letters`, traces), per-process scheduler and subscription registry | enqueue, sequence, process (leased or transactional), vacuum, reconcile, replay dead letters, count, deliver and sweep traces | database rows and row locks between processes; mutexes, `Notify`, watch channels and atomics within one |
| **coord and account-management leases** (`gears/bss/libs/coord`, `gears/system/account-management/.../infra/lease`) | one row per lease, a guard and a heartbeat per holder | acquire, work fenced, renew, release | billing jobs, account-management jobs |
| **taskward** (`libs/toolkit-taskward`) | a loop per worker, semaphores, backoff | execute, idle, sleep, escalate, shut down | runs every outbox task |
| **toolkit-db** (`libs/toolkit-db`) | connections, advisory locks, migration table | begin, commit, lock, migrate | used by all |
| **cluster** (`gears/system/cluster`) | cache, locks, leaders, service entries | compare-and-set, lock, elect, watch | plugins for Redis, PostgreSQL, Kubernetes and a standalone one |
| **durable execution** (`libs/toolkit-durable-execution`) | journal, leases, timers | start, execute, replay, complete | database |
| **host runtime** (`libs/toolkit`) | gear registry, phases | start, stop, ready | all gears |
| **event broker** (`gears/system/event-broker`) | topics, groups, offsets | publish, consume, commit | storage plugins, SDK dispatcher |
| **gateways** (`api-gateway`, `oagw`, `grpc-hub`, `toolkit-http`) | routes, limits, connections | route, throttle, proxy, retry | network |
| **billing** (`gears/bss`), **platform services** (`gears/system/*`), **product gears** (`chat-engine`, `mini-chat`, `file-storage`, ...) | domain tables | domain operations | REST and gRPC, the outbox |

`PROJECT.json` lists all of them with what is modelled and why the rest is not.

### 1.2 The outbox

A message travels

    producer --insert--> incoming, body          (inside the business transaction)
             --Wake--> prioritizer --take--> sequencer: partition row lock,
                                             incoming -> outgoing, next seq numbers
             --notify--> processor (leased or transactional): batch after the
                         cursor, handler, ack, dead letters, vacuum_counter + 1
             --counter--> vacuum: delete outgoing and body up to the cursor

A batch may carry a trace: its row counts the entities that are not settled, every
acknowledgement counts it down in its own transaction, and the process that
submitted the batch hands the outcome to a subscription. Rejected messages become
dead letters, which operators replay, resolve, reject, discard and clean up.

Every step may run in a different process; they meet in the database. What is
hard about it:

* *Interleaving.* Sequencers of several processes claim from one partition.
  Ids are drawn at insert and become visible at commit. Several vacuum workers
  sweep the same partition. All partitions of a process share one handler.
  Acknowledgements of several partitions write the same trace rows.
* *Stale state.* A leased processor reads a batch in one transaction, calls the
  handler outside any, and acknowledges in a third place, by which time its lease may
  be over and the partition further on. The vacuum reads the cursor once and
  deletes in chunks. A replayed dead letter is answered for long after it was
  claimed. The trace sweeper deletes what it selected earlier.
* *Failure.* Processes die with a lease; transactions fail at each statement;
  the answer to a commit is lost; a handler stops in the middle of a batch.
* *Wakeups.* A sequencer worker waits on one `Notify` with one stored permit;
  pushes are coalesced; partitions move between two mutexes through a local
  buffer; a push for a partition that is being processed must not get lost.
* *Numbers.* `attempts` is a `SMALLINT`; the adaptive batch size must not reach
  0; the vacuum counter is clamped at 0.

What makes it correct: each committed message is numbered exactly once and in its
producer's order; the cursor only moves forward and only past messages that were
handled or dead-lettered; a dead letter is written once and is with one replayer
at a time; nothing unacknowledged is deleted and everything acknowledged is, in the
end; announced work is never forgotten; every message is settled; a subscriber is
told the true outcome of its batch, once.

### 1.3 The leases

A lease is one row with a holder and an expiry. Work is fenced: it commits in one
SERIALIZABLE transaction with a check of the row. What is hard: the transaction
reads a snapshot, so a peer's claim may be invisible to it; `NOW()` is the time a
transaction began, however long it has waited; workers decide on their own clocks;
the guard's own heartbeat writes the row that its work has in its snapshot; the
answer to a claim may be lost. What makes it correct: work commits only while its
worker's claim is the latest; a live lease is never taken or prolonged by another;
no lease outlives its TTL; a loss is signalled; calls return.

### 1.4 Taskward

Every outbox task is a worker: wait for a notification, a pace or a sleep, take a
permit of the bulkhead, run one pass, and after an error wait longer each time.
What is hard: a worker may wait for two semaphores at once and be served by both;
notifications arrive during a pass or a backoff; passes fail for a long time, panic
or never return; shutdown comes at any of these points. What makes it correct: no
permit is lost or doubled; who is notified runs; errors never end a worker;
shutdown ends.

`PROJECT.json` lists the hazards at their lines and the property that covers each.

## 2. Plan

Done:

1. `Outbox` with its abstract specification `OutboxQueue`, the inductive
   invariant, its proof and the refinement proof.
2. `OutboxTransactional`, the second processing mode, with its proofs.
3. `OutboxPrioritizer`, how work is announced inside a process, with its proofs.
4. `CoordLease` with its proofs, both implementations of the lease.
5. `OutboxDeadLetters` with its proofs.
6. `OutboxTrace`, traces, subscriptions, notifier, reporter and sweeper, with its
   proofs.
7. `Taskward`, the worker loop and its bulkhead, with its proofs.

Every invariant and every action property of a passing run is stated by a theorem now,
some under a hypothesis the code needs (section 5); what is left to TLC is liveness.

Next, in this order:

8. `next_chunk` in `Outbox`.
9. A refinement proof for the transactional processors: they promise more than
   `OutboxQueue` does, since handler writes and cursor commit together.
10. `ClusterLock`: the lock and leader plugins against one abstract lock with
    fencing tokens; then durable execution.

## 3. Modules

| Module | Models |
|---|---|
| `Outbox` | one partition: producers, sequencers, leased processors, vacuums |
| `OutboxQueue` | the abstract queue a caller may rely on |
| `OutboxProofs`, `OutboxRefinement` | proofs about `Outbox` |
| `OutboxTransactional`, `OutboxTransactionalProofs` | transactional processors, adaptive batch size, and proofs |
| `OutboxPrioritizer`, `OutboxPrioritizerProofs` | `SharedPrioritizer`, `Wake`, `Notify`, sequencer loop, reconciler of one process, and proofs |
| `OutboxDeadLetters`, `OutboxDeadLettersProofs` | replay and administration of dead letters, and proofs |
| `OutboxTrace`, `OutboxTraceProofs` | traced batches from enqueue to collection, over several partitions and processes, and proofs |
| `CoordLease`, `CoordLeaseProofs` | the lease row with its guards and heartbeats, and proofs |
| `Taskward`, `TaskwardProofs` | the worker loop, bulkhead and task set that run the outbox's tasks, and proofs |
| `MC*` | symmetry sets and instances for TLC |

### 3.1 Outbox

One action is one committed database transaction or one in-memory step between
two of them. Partitions share no row, so one partition is enough. Variables that
carry column names are the columns; `pc`, `batch`, `done`, `rejected`, `result`
are the locals of a processor's pass; `vpc`, `vsnap`, `vcursor` those of a sweep;
`committed`, `owner`, `log`, `calls` and `faults` are history and bounds.

| Action | Code |
|---|---|
| `Enqueue`, `CommitEnqueue`, `RollbackEnqueue` | `core.rs` `enqueue`, `enqueue_batch`; the caller's transaction |
| `ClaimIncoming`, `CommitSequenced`, `RollbackSequenced` | `workers/sequencer.rs` `process_partition` |
| `AcquireLease`, `ReleaseEmpty` | `strategy.rs` `acquire_lease_and_read` (phase 1) |
| `HandleOk`, `HandleReject`, `ReturnSuccess`, `ReturnRetry`, `ReturnReject` | the handler through `batch.rs` and `handler.rs` (phase 2) |
| `AckAdvance`, `AckRelease`, `AckRetry`, `AckLost` | `strategy.rs` `lease_guarded_ack` (phase 3) |
| `PassFails`, `Crash`, `LeaseExpires` | a failed statement, a dead process, `locked_until < NOW()` |
| `Vacuum*` | `workers/vacuum.rs` |

`OrderByLimit` is the `ORDER BY ... LIMIT` of the statements. A crashed process
never comes back under its worker id: a successor is another member of
`Workers`. `LeaseExpires` does not look at the holder: a holder may stall past its
lease, which the acknowledgement's `locked_by` guard has to survive. An acquired
batch may be of any size up to `MsgBatch`, which covers every adaptive batch size.

### 3.2 OutboxTransactional

A pass is one database transaction under the row lock of its partition. The
adapter's `processed` counter belongs to the process, since
`TransactionalProcessorFactory` clones one `Arc` for all partitions. `size` and
`failures` are `PartitionMode`: degraded to the full batch size and normal mode
behave alike, so the mode is the size. `CommitAnswerLost` is a commit that
happened and whose answer did not arrive. `effects` counts the handler's
committed writes per message. PostgreSQL and MySQL are modelled; SQLite takes no
row lock (it serialises writers itself).

### 3.3 OutboxPrioritizer

A critical section under one mutex is one action together with the `notify_one`
that follows it; `push_dirty`, which takes the second mutex while it holds the
first, is one action per lock operation. `Notify` is external and modelled from
tokio's contract: one waiter is woken, or one permit is stored. Time is
abstracted: a repeated push may or may not fall into the coalescing window, any
due partition may be the oldest, a cooldown ends at some point. `leaked[k]`
records that rows came without a `Wake` in this process (another process, or a
`Wake` dropped unfired). Wakeups after an error cooldown need the reconciler,
because `guard.error()` notifies nobody and sequencers have no timer: the code
relies on the reconciler's minute there, and so does the model.

### 3.4 CoordLease

`row` is the committed row; `pc`, `tries`, `start`, `snap`, `pend` are the locals
of a call of `acquire` or `with_ack_in_tx` and its transaction, `uuid` is the
guard, `beat`, `beatId` and `renewAt` its heartbeat task. A holder's UUID is the
number of its term. `Impl` chooses the implementation: they differ in the fence (an
UPDATE with `clock_timestamp()` in `coord`, a SELECT with `NOW()` in account
management) and in the clock that stamps a fresh row. The rest of the two copies
is the same code.

The database is PostgreSQL under SERIALIZABLE: `snap[w]` is what a transaction
sees, `stale[w]` that the row was written since, `locker` who has written it and
not committed. An UPDATE on a stale snapshot fails with 40001 and is retried up to
`MaxAttempts` times; a lone read dependency does not abort anybody. `Skew` is how far a
worker's clock may be from the database's; `TTL`, `MaxTime` are in ticks.

| Action | Code |
|---|---|
| `AcquireCall`, `AcquireRead`, `AcquireClaims`, `AcquireHeld`, `AcquireConflicts`, `AcquireCommits` | `manager.rs` `acquire`, with its retries |
| `AckCall`, `AckWork`, `AckFence`, `AckConflicts`, `AckLost`, `AckCommits` | `guard.rs` `with_ack_in_tx` |
| `SpawnRenewal`, `RenewBlocks`, `RenewOnce`, `RenewFails`, `StopRenewal` | `guard.rs` heartbeat loop and handle |
| `Release`, `Abandon` | `release_impl`; a guard consumed by a failed release, or dropped |
| `TxFails`, `Crash`, `Tick` | a failed statement, a dead process, the clock |

### 3.5 OutboxDeadLetters

`status`, `attempts` and `deadline` are the columns; `lock` is the row lock of an
open `replay` or `discard`, which select and update in two statements; `batch` is
what a caller was handed, `unheard` what it answered for without hearing of the
outcome (it may answer again). `resolve` and `reject` are one UPDATE each; one that
meets a full `attempts` fails as a whole, so `Reject` requires `Fits` and the
caller may give up (`Vanish`). A scope is any set of letters; `FirstRows` is the
`ORDER BY ... LIMIT` of a replay. `owner` and `stolen` are history: to whom a letter
was last handed, and whether an answer has hit a letter that was somebody else's.

### 3.6 OutboxTrace

Several partitions and processes, each process with one worker, a notifier and a
reporter; one sweeper. `queue`, `cursor`, `lease` and `dead` are what traces need of
the outbox: the messages of a partition are numbered when their batch commits,
because how they are numbered is the subject of `Outbox`. `row[t]` is the
trace row; `completed_at` is `pending <= 0`, and `age` is the time since the stamp
that the sweeper's rule looks at.

| Action | Code |
|---|---|
| `Subscribe`, `Drop`, `Closed` | `subscription.rs` registry |
| `EnqueueBatch` | `core.rs`, the trace row of a batch |
| `TakeAndHandle` | lease, batch and handler of one pass |
| `WriteRow`, `LeaseLost`, `DeadlockAbort`, `TxFails`, `Commit`, `CommitUnheard`, `DeliverClaimed` | `strategy.rs` acknowledgement with `apply_trace_progress` and `deliver_claimed` |
| `NotifierReads`, `NotifierClaims`, `ClaimUnheard` | the notifier |
| `ReporterReads`, `ReporterPublishes`, `ReporterClears` | the retry reporter |
| `SweepSelects`, `SweepDeletes` | `workers/trace_sweeper.rs` |
| `Tick`, `Stop` | the clock; the end of a process |

An acknowledgement is one transaction that takes its row locks one by one, in the
order of its statements (`Statements`), and has its effect at the commit. Traces
are unique, which `record.rs` makes the caller's duty. Left out: the `attempts` of
an outcome, MySQL's two-statement claim, callback watches, passes of the
reporter that show and clear nothing. The sweeper's DELETE waits for the locks of
all its rows. `Tick` does not let mail that a subscriber waits for grow older
than `OrphanAfter`: the notifier looks every two seconds and the default is a day.

### 3.7 Taskward

A worker is `Tiered` (the sequencers: a shared or a guaranteed permit) or `Fixed`
(the vacuums: shared only; the partition processors are alike with a semaphore of
their own). `pc` is the await the loop is at: `pacing`, `idle`, `sleeping` and
`backoff` are the waits of the directives, `fallback` and `waiting` the two polls of
`Bulkhead::acquire`, `running` and `hung` a pass. `sem` is tokio's semaphore,
external and modelled from its contract: waiters are served in their order, and an
acquire that is dropped hands on what it was served. `owed` is history: a
notification for which no pass has begun while the set was running.

| Action | Code |
|---|---|
| `Notify` | `poker.rs`, and whoever else notifies the worker |
| `Wakes`, `TimeIsUp`, `BackoffEnds` | `task.rs` `run_inner`, the waits of the directives |
| `TryShared`, `TryGuaranteed`, `Served` | `bulkhead.rs` `acquire`: first polls, and being served |
| `PassSucceeds`, `PassFails`, `Hangs` | the pass and its result, `reset`, `escalate` |
| `Cancel`, `DropSet`, `Aborts` | `task_set.rs` |
| `Breaks`, `StopDeadline` | the cancelled branches and the stop grace of `run_inner` |

A panic of a pass counts as an error, since every outbox worker is built with
`CatchAndRetry`. Where the semaphore's first poll is ready, waking up and entering
the pass is one action: there is no await between them. Left out: the
lengths of the sleeps, listeners, `Signal`, the start notification.

## 4. Runs

| Run | Shows | Instance |
|---|---|---|
| `outbox` | numbered once, in its producer's order; nothing skipped, dead-lettered twice or deleted early; refinement of `OutboxQueue`; settled and vacuumed in the end | 2 producers, 2 sequencers, 2 processors, 1 vacuum, 2 messages, 1 fault |
| `txn_race` | transactional safety under races; every message is settled at every batch size | 2 processes, 3 messages, 2 faults |
| `prio_wakeups` | no signal and no wakeup lost, one guard per partition | 2 workers, 2 partitions, 3 rows, 1 fault |
| `prio_reconciled` | unannounced rows and errored partitions are sequenced with the reconciler | 1 worker, 1 partition, 2 rows |
| `lease_coord` | fenced commits, bounded terms, signalled losses, calls that return | 2 workers, TTL 2, skew 1, 4 ticks, 3 calls, 2 attempts, 1 fault |
| `dead_letters` | lifecycle, exclusive claims, letters that can be recovered | 2 letters, 2 callers, 3 ticks, 1 fault |
| `traces` | exact counts, true and single answers, everything answered and collected | 1 trace of 3 entities over 2 partitions, 2 processes, 2 faults |
| `taskward` | no permit lost, every notification runs, the vacuum's too (against two comments, see below), shutdown ends | 2 sequencers, 1 vacuum, 1 shared and 1 guaranteed permit, a death after 2 failures, 1 hung pass |

The bounds let the interesting cases happen. Two processors are needed for a lost
lease, two messages in a batch for a partial acknowledgement. One fault is a stall and
a takeover, or a failure, not both: the safety properties of `outbox` are proved for any
number of faults (section 5), and only its two liveness properties rest on this
bound. Vacuum chunks of one
row make a sweep of two messages span three transactions. Three rows with batches
of one and two inner iterations make a pass end undrained while a push is on its way.
A lease of two ticks with skewed clocks can be renewed, run out and be stolen within
four; three calls are a claim, its work and a peer's claim. A deadline of one tick
within three can be missed by one caller and met by the next. Two entities of a trace in
one partition and one in the other allow a partial retry, and a completion by
either process, the owner or not. The workers of `taskward` are as many as
`start` spawns for one permit of each kind. Deadlock is not checked where the bounds exhaust
the work and all workers wait, which is how an idle outbox looks.

The type invariants of `Outbox`, `CoordLease` and `OutboxDeadLetters` and
`CursorNeverMovesBack` (which `ImplementsQueue` implies) are proved (section 5) and not
checked by a run.

### Fairness

* `Outbox!Fairness`: weak fairness of each task's steps. Tasks are woken by
  pokers and idle intervals, so an enabled pass runs; handlers are dropped at
  the lease deadline (`strategy.rs`), so a pass ends; leases run out by the clock.
  Retries, errors, crashes and stalls are never forced and are bounded by `MaxFaults`:
  liveness says "if failures stop".
* `OutboxTransactional!FairSpec`: weak fairness of every worker's pass, for the
  same reasons.
* `OutboxPrioritizer!FairSpec`: weak fairness of cooldowns, wake calls and the
  reconciler, whose poker never stops; strong fairness for threads that need a
  mutex or the scheduler: the mutexes are held for a few instructions and tokio
  polls every ready task.
* `CoordLease!Fairness`: weak fairness of a call that has begun and of renewals,
  which are ordinary async code; nobody has to call, and the clock need not move.
* `OutboxDeadLetters!Fairness`: time passes and transactions that began end;
  nobody has to call or to answer.
* `OutboxTrace!Fairness`: weak fairness of each loop and of time; strong fairness
  of a statement that waits for a row, because PostgreSQL grants a row lock to its
  waiters in turn.
* `Taskward!Fairness`: tokio polls every ready task and every timer ends, a pass
  that does not hang ends, semaphores are first come first served; nobody has to
  notify, to cancel or to drop, and a hung pass never ends by itself.

### Disagreements between code and documentation

Each is a finding in `PROJECT.json`. The first four are runs that expect a violation; in the
last the code does more than the comments allow, and the passing run shows it.

| Run | The text | What happens |
|---|---|---|
| `outbox_two_vacuums` | `vacuum.rs`: partitions dirtied during a sweep are picked up in the next cycle | two sweeps subtract the same snapshot; an acknowledgement in between is forgotten until the next one of the partition |
| `lease_am_fence` | account-management `lease/mod.rs`: a steal between the work and the commit aborts or is caught by the fence | the fence reads its snapshot; a steal after it stays invisible and both commit |
| `txn_shared_count` | `processor.rs`: the failure is at position `pc + 1`, so degrading to `max(pc, 1)` isolates the poison message | the counter `pc` is read from belongs to the process: with two partitions (1 process, 2 partitions, batches of 2, 2 messages each, 1 fault) the other partition's pass moves it between the failure and the load, and the batch keeps the failing message (`PoisonIsolated`) |
| `taskward_outage` | `task.rs`: the worker never exits on action errors, the loop only exits on cancellation | the backoff is multiplied before it is capped; in a long outage (about 69 failures in a row with the defaults) the product is no `Duration` and the panic ends the worker |
| `taskward` | `bulkhead.rs`: "Vacuum only runs when sequencers are idle or using their guaranteed permits"; `manager.rs`: "sequencers preempt vacuum via the biased select" | the bias orders the branches of one worker's select; between workers tokio serves whoever came first, so a waiting vacuum gets the next shared permit although the sequencers never run out of work (`EveryNotificationRuns` holds for it) |

### Also observed

Seen while modelling, from the code or in explorations that are not kept as runs:

* `handler.rs` promises transactional handlers "exactly-once within the database
  transaction", and the test `tx_partial_retry_rolls_back_all` is named after it; a
  Retry commits the writes for the messages before the failing one
  (`strategy.rs`, `ack`), and the next pass commits them again. `RepeatedOnlyByRetry`
  says that nothing else repeats them.
* `dead_letter.rs` says that replay prevents concurrent callers from claiming the
  same rows and that resolve and reject are safe; both ask for the status only. A
  late reject, after the deadline, frees a letter that another caller has claimed in
  the meantime, and a third may claim it. `OneReplayerUnlessStolen` is what remains.
* `manager.rs` gives a connection budget for processors, guaranteed and shared permits;
  reconciler, notifier, reporter and sweeper run without a bulkhead and come on top.
* The start notification wakes only workers that are already waiting
  (`notify_waiters`); the others wait for their poker.
* `attempts` belongs to the partition: a message behind a retried one starts above
  0, where `handler.rs` says it is 0 on the first attempt. The `SMALLINT` is
  incremented per acquisition; when it is full no lease can be taken.
* Without errors, announced rows are sequenced without the reconciler.
* The doc comment of `SharedPrioritizer` says its two mutexes are never held
  simultaneously; a coalesced push holds both (`PushLocksScheduler`). No path takes
  them in the opposite order, so nothing deadlocks.
* `coord` compares the snapshot's expiry with `clock_timestamp()`: a heartbeat that
  renewed the row after the snapshot does not help, and the guard reports
  `LeaseLost` for a lease it holds. The heartbeat may also fail its own guard's
  fence with 40001, which is retried. A renewal that waits for the row prolongs it
  from the time it began to wait.
* Account management stamps a fresh row with the worker's clock, so that a first
  claim may outlive its TTL by the skew; `coord` does not.
* A bounded replay hands out pending letters in the order of their ids: one that is
  rejected over and over comes before all others each time.
* A partial retry locks the traces it settles in their order and then those it
  retries in theirs, and a retry of a whole batch locks its traces before the
  cursor: acknowledgements can wait for each other, and the database has to abort
  one (`DeadlockAbort`). The aborted one is repeated after its lease.
* When the answer of a claim of mail is lost, nobody claims it again and its
  subscriber waits until its process stops (`lost` in `OutboxTrace`; `NoMailLost` and
  `EventuallyAnswered` excuse it). The caller may ask `trace_status`, as
  `workers/notifier.rs` says.
* `trace_sweeper.rs` says that an unfinished trace goes after no progress for
  `leftover_after`; the statement takes the age from `created_at`, and the DELETE
  does not ask again.

## 5. Proofs

Every theorem holds for all values of the constants that satisfy the
assumptions of the module: any number of actors, messages, faults and partitions.
Assumed are only that batch sizes and periods are positive or natural numbers, bounds are
natural numbers, `None` is not the name of an actor or a trace row and actors of
different kinds have different names; for `Taskward` that there are finitely many
workers; for `OutboxTrace` what `TraceAssumption` says of
its batches; for `OutboxTransactional` also that retries stay below the limit of the
`SMALLINT` column. Where a theorem needs more of the code's configuration, that is a
hypothesis of the theorem.

**`OutboxProofs`** proves `Spec => []Inv`. The properties are not inductive by
themselves. That nothing is skipped (`SettledWasHandled`) needs to know that
whoever can still acknowledge works on a batch that begins right after the
cursor and has no holes, `HolderIsCurrent`; this in turn holds because taking the
lease changes `locked_by` and every acknowledgement checks it, whether or not
the lease time is over. `PassesAreSound` says what the locals of a pass mean.
That numbers have no gaps (`NumbersAreDense`) needs that only the holder of the
partition lock has claimed rows (`ClaimsAreExclusive`) and that ids are fresh
(`IdsAreFresh`); the vacuum is harmless because the cursor it read is never ahead
(`VacuumIsBehind`). There is one lemma per action, frame lemmas for the parts an
action leaves alone, and a pigeonhole lemma that bounds the log. From `Inv`
follow `TypeCorrect`, `SequencesExactlyOnce`, `NeverVacuumsUnprocessed`,
`NothingIsSkipped`, `DeadLettersOnce`, `LeaseFences`, and the action property
`CursorIsMonotonic`.

Two more results have a strengthening of their own on top of `Inv`. `OrderIsKept`
(`ProducerOrder`): the rows of a producer lie in layers, numbered, claimed, visible,
open, and ids rise from layer to layer (`ProducersAreOrdered`). A claim keeps this
because the lock makes it choose from all visible rows, so what it leaves out is above
what it takes; a commit keeps it because a producer has one transaction at a time.
`OneVacuumFindsAll` (`NoOrphanedRows`) is stated for at most one vacuum worker, which
is a hypothesis and not an assumption of the module: with two it is false, and the
`outbox_two_vacuums` run shows how. `SweepsAreThorough` says what a sweep still owes:
an acknowledgement after its snapshot leaves the counter above the snapshot; if there
was none, the cursor the sweep read is current, and a chunk that is not full was the
rest of it.

**`OutboxRefinement`** proves `Spec => ImplementsQueue`: commits of producers are
`Submit`, of sequencers `Order`, a handler's Ok is `Acknowledge`, an
acknowledgement that advances is `Settle`; all other actions stutter. The
mapping takes `pending` from `incoming`, `cursor` from `processed_seq`, `acked`
and `dead` from what the handler said and the dead-letter rows.

**`OutboxTransactionalProofs`** proves `TypeCorrect` (the batch size never leaves
`1..BatchSize`), `NothingIsSkipped`, `WritesRepeatedOnlyByRetry` and
`SettledStaysSettled`. The strengthening says that a pass that is under way holds
the row lock, that its `base` is the current cursor, and that its batch lies
within what was sequenced. `PoisonIsolated` is false (run `txn_shared_count`).

**`OutboxPrioritizerProofs`** proves `TypeCorrect`, `ExclusiveClaims`, `SignalsAreKept`
and `WakeupsAreKept`. A signal is followed from the push to the pass that sees the
row. The delicate point is a push that is suppressed: it is harmless because the push
it repeats is still in the inbox (`WindowIsQueued`, the window never outlives its push)
and because the pusher holds the inbox while it looks at the claims
(`PushesHoldLocks`). A guard and a drained buffer live exactly as long as the step of
the loop they belong to (`PassesAreGuarded`). For wakeups, `SomebodyDrains` (an inbox
that is not empty has a permit or a ready worker) is inductive by itself;
`SomebodyTakes` adds the due partitions, and holds until a pass fails, because a
failed pass puts its partition into a cooldown whose end notifies nobody.

**`OutboxTraceProofs`** proves `TypeCorrect`, `TracesAreCounted`,
`SubscribersAreToldTheTruth`, `MailIsKept` and the action property
`CompletionIsFinal`. That counts are exact needs the locking discipline of the
acknowledgement: whoever still has the lease has read its batch at the cursor
(`LeasesAreFresh`), the processor row is fenced before any trace is counted down,
and at the commit every trace with a settled message is locked by this transaction or
was collected (`StatementsCover`, `LocksAreHeld`). A commit then takes from `pending`
exactly the messages it settles, which is shown with cardinalities and a bijection
between places of the queue and entities of the batch (`SettledByCommit`,
`CountedByEnqueue`). A trace is used once (`BatchesAreNew`), and a completion on its
way is as true as a delivered one (`MailIsTrue`).

**`TaskwardProofs`** proves `TypeCorrect` and `NoPermitLeaks`. The queue of a semaphore
has no duplicates, is disjoint from those it has served, and both contain only
workers whose loop waits for that semaphore; a pass that runs or hangs holds one
permit. Each operation of the semaphore (join, serve, leave, release) then moves permits
between the three places and creates none.

**`CoordLeaseProofs`** proves `TypeCorrect` for both implementations and, for
`coord`, `OnlyTheLatestCommits`, `LeasesAreBounded` and `OnlyExpiryOrRelease`.
That a fenced commit is the latest holder's needs that the row names the latest
term or nobody (`RowIsLatest`), that whoever has a term has a row
(`GuardsHaveRows`), that open claims and fences hold the row's lock (`ClaimHoldsRow`,
`FenceHoldsRow`), and that a snapshot not marked stale is the row
(`FreshSnapshots`): the fence's UPDATE then passes only on the present row, and the lock
keeps it present until the commit. `ClocksAgree` and `ClaimsAreBounded` say that
no transaction began in the future, from which the bound on a lease follows.

**`OutboxDeadLettersProofs`** proves `TypeCorrect`, `ClaimsAreExclusive` and
`LettersFollowTheDiagram`. The strengthening says that letters selected by an open
transaction are locked by it and still have the status they were selected with,
and, until something is stolen, that a caller in time owns the letters of its batch.

Every inductive invariant was also checked by TLC, as an invariant of the instances
of section 4.

Only model-checked: all liveness properties (`EventuallySettled` of both processing
modes, `EventuallyVacuumed`, `EventuallySequenced`, `LossIsSignalled`,
`EveryCallReturns`, `Recoverable`, `EventuallyAnswered`, `EventuallyCollected`,
`EveryNotificationRuns`, `ShutdownEnds`): fairness and `ENABLED` are outside the proof
system's reach.

## 6. Not modelled

Of the outbox: the order in which `stop` ends its task sets, statistics,
migrations, payloads, headers and validation; `next_chunk`; traces used twice,
the attempts of an outcome and callback watches; SQL dialect differences other than
row locks (SQLite has one writer, MySQL claims mail in two statements); backoff
durations; the probability that two random worker ids collide. Of taskward: the
`Propagate` policy, `Signal`, listeners and the lengths of its sleeps. Of the leases: SQLite's dialect and the jobs
that run under them.

The project covers the outbox, its worker loop and the leases, and little else: measured over the
whole repository, the modelled lines are a very small share. Cluster locks
and durable execution are planned (section 2). The event broker, the
gateways, billing, the platform services and the product gears were surveyed, not
read in depth; they are left out for their size, and nothing here says that they
are free of the same kinds of hazard.
