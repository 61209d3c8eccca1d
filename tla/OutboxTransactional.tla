------------------------ MODULE OutboxTransactional ------------------------
(***************************************************************************)
(* The transactional processors of one queue: TransactionalStrategy, the   *)
(* per-message adapter around the user's handler, and the adaptive batch   *)
(* size of PartitionProcessor.  Every process runs one worker for each     *)
(* partition; the workers of a process share one handler instance and so   *)
(* one `processed` counter (builder.rs, ArcTransactionalHandler).          *)
(*                                                                         *)
(* A pass is one database transaction.  It takes the row lock of its       *)
(* partition (FOR UPDATE SKIP LOCKED), reads a batch after the cursor,     *)
(* runs the handler, acknowledges and commits.  Passes that find the row   *)
(* locked or no message change nothing and are not actions.  Sequence      *)
(* numbers are dense (module Outbox), so a batch is an interval after the  *)
(* cursor.  PostgreSQL and MySQL are modelled; SQLite takes no row lock.   *)
(* A handler's write is counted when it says Success to the message; what  *)
(* it wrote for the message it fails on, and traces, are left out.         *)
(***************************************************************************)
EXTENDS Integers

CONSTANTS
    Processes,      \* processes serving the queue
    Partitions,     \* partitions of the queue
    None,           \* nobody holds the row lock
    PerMessage,     \* PerMessageAdapter (TRUE) or a batch handler (FALSE)
    BatchSize,      \* WorkerTuning.batch_size
    Threshold,      \* WorkerTuning.degradation_threshold
    MaxMsgs,        \* bound: messages of a partition
    MaxFaults       \* bound: retries, errors and crashes

ASSUME TuningAssumption ==
    BatchSize \in Nat \ {0} /\ Threshold \in Nat \ {0} /\ PerMessage \in BOOLEAN

\* The retries of a run stay below the limit of the SMALLINT column `attempts`.
ASSUME LimitsAssumption == MaxMsgs \in Nat /\ MaxFaults \in 0..32766

ASSUME NobodyAssumption == None \notin Processes

VARIABLES
    outgoing,       \* outgoing[k]: highest sequence number handed out
    processed_seq, attempts, counter,   \* the partition's rows in the database
    row_lock,       \* row_lock[k]: the process whose pass holds the row
    effects,        \* effects[k][s]: committed writes of the handler for seq s
    dead_letters,   \* dead_letters[k][s]: dead-letter rows for seq s
    processed,      \* processed[p]: the adapter's AtomicUsize
    wpc,            \* wpc[w]: where worker w's pass stands
    base,           \* base[w]: the cursor the pass read
    count,          \* count[w]: messages in the batch
    handled,        \* handled[w]: messages the handler has said Success to
    result,         \* result[w]: what handle() returned
    reported,       \* reported[w]: what processed_count() returned, clamped
    size,           \* size[w]: PartitionMode::effective_batch_size
    failures,       \* failures[w]: PartitionMode.consecutive_failures
    retried,        \* history: Retry passes committed per partition
    faults

dbVars == <<processed_seq, attempts, counter, effects, dead_letters, retried>>
passVars == <<wpc, base, count, handled, result, reported>>
modeVars == <<size, failures>>
vars == <<outgoing, dbVars, row_lock, processed, passVars, modeVars, faults>>

Workers == Processes \X Partitions
Seqs == 1..MaxMsgs
Results == {"Success", "Retry", "Reject"}

AtLeastOne(n) == IF n >= 1 THEN n ELSE 1
Least(m, n) == IF m <= n THEN m ELSE n

Fault == faults < MaxFaults /\ faults' = faults + 1

Init ==
    /\ outgoing = [k \in Partitions |-> 0]
    /\ processed_seq = [k \in Partitions |-> 0]
    /\ attempts = [k \in Partitions |-> 0]
    /\ counter = [k \in Partitions |-> 0]
    /\ row_lock = [k \in Partitions |-> None]
    /\ effects = [k \in Partitions |-> [s \in Seqs |-> 0]]
    /\ dead_letters = [k \in Partitions |-> [s \in Seqs |-> 0]]
    /\ processed = [p \in Processes |-> 0]
    /\ wpc = [w \in Workers |-> "idle"]
    /\ base = [w \in Workers |-> 0]
    /\ count = [w \in Workers |-> 0]
    /\ handled = [w \in Workers |-> 0]
    /\ result = [w \in Workers |-> "Success"]
    /\ reported = [w \in Workers |-> 0]
    /\ size = [w \in Workers |-> BatchSize]
    /\ failures = [w \in Workers |-> 0]
    /\ retried = [k \in Partitions |-> 0]
    /\ faults = 0

\* The sequencer commits one more message of partition k (module Outbox).
Sequence(k) ==
    /\ outgoing[k] < MaxMsgs
    /\ outgoing' = [outgoing EXCEPT ![k] = @ + 1]
    /\ UNCHANGED <<dbVars, row_lock, processed, passVars, modeVars, faults>>
-----------------------------------------------------------------------------
(* One pass of worker <<p, k>>.                                            *)

RowFree_NoLock(k) == TRUE

RowFree(k) == row_lock[k] = None

\* LIMIT size: how many messages after the cursor the pass reads.
Readable(w) == Least(size[w], outgoing[w[2]] - processed_seq[w[2]])

\* The row is locked, the batch read and handle() entered, which resets the
\* counter of the process.
Begin(p, k) == LET w == <<p, k>> IN
    /\ wpc[w] = "idle"
    /\ RowFree(k)
    /\ Readable(w) > 0
    /\ row_lock' = [row_lock EXCEPT ![k] = p]
    /\ wpc' = [wpc EXCEPT ![w] = "handling"]
    /\ base' = [base EXCEPT ![w] = processed_seq[k]]
    /\ count' = [count EXCEPT ![w] = Readable(w)]
    /\ handled' = [handled EXCEPT ![w] = 0]
    /\ processed' = [processed EXCEPT ![p] = 0]
    /\ UNCHANGED <<outgoing, dbVars, result, reported, modeVars, faults>>

\* The user's handler succeeds with the next message.
HandleOk(p, k) == LET w == <<p, k>> IN
    /\ wpc[w] = "handling"
    /\ handled[w] < count[w]
    /\ handled' = [handled EXCEPT ![w] = @ + 1]
    /\ processed' = [processed EXCEPT ![p] = @ + 1]
    /\ UNCHANGED <<outgoing, dbVars, row_lock, wpc, base, count, result, reported,
                   modeVars, faults>>

Return(p, k, r) == LET w == <<p, k>> IN
    /\ wpc[w] = "handling"
    /\ wpc' = [wpc EXCEPT ![w] = "returned"]
    /\ result' = [result EXCEPT ![w] = r]
    /\ UNCHANGED <<outgoing, dbVars, row_lock, processed, base, count, handled,
                   reported, modeVars>>

ReturnSuccess(p, k) ==
    /\ handled[<<p, k>>] = count[<<p, k>>]
    /\ Return(p, k, "Success")
    /\ UNCHANGED faults

\* The next message fails; handle() returns without looking at the rest.
ReturnRetry(p, k) ==
    /\ handled[<<p, k>>] < count[<<p, k>>]
    /\ Return(p, k, "Retry")
    /\ Fault

ReturnReject(p, k) ==
    /\ handled[<<p, k>>] < count[<<p, k>>]
    /\ Return(p, k, "Reject")
    /\ UNCHANGED faults

\* processed_count() loads the shared counter; execute() clamps it to count.
ReadCount(p, k) == LET w == <<p, k>> IN
    /\ wpc[w] = "returned"
    /\ wpc' = [wpc EXCEPT ![w] = "counted"]
    /\ reported' = [reported EXCEPT ![w] = Least(processed[p], count[w])]
    /\ UNCHANGED <<outgoing, dbVars, row_lock, processed, base, count, handled,
                   result, modeVars, faults>>

BatchSeqs(w) == (base[w] + 1)..(base[w] + count[w])
HandledSeqs(w) == (base[w] + 1)..(base[w] + handled[w])

\* What ack() and the commit leave in the database.  Whatever the result, the
\* handler's own writes are part of the transaction.
CommitWrites(w) == LET k == w[2] IN
    effects' = [effects EXCEPT ![k] =
                    [s \in Seqs |-> @[s] + IF s \in HandledSeqs(w) THEN 1 ELSE 0]]

Advance_ToNewest(w) == LET k == w[2] IN
    /\ processed_seq' = [processed_seq EXCEPT ![k] = outgoing[k]]
    /\ attempts' = [attempts EXCEPT ![k] = 0]
    /\ counter' = [counter EXCEPT ![k] = @ + 1]

\* advance_processed_seq and bump_vacuum_counter.
Advance(w) == LET k == w[2] IN
    /\ processed_seq' = [processed_seq EXCEPT ![k] = base[w] + count[w]]
    /\ attempts' = [attempts EXCEPT ![k] = 0]
    /\ counter' = [counter EXCEPT ![k] = @ + 1]

DeadLetterBatch(w) == LET k == w[2] IN
    dead_letters' = [dead_letters EXCEPT ![k] =
                        [s \in Seqs |-> @[s] + IF s \in BatchSeqs(w) THEN 1 ELSE 0]]

Ack(w) == LET k == w[2] IN
    /\ CommitWrites(w)
    /\ \/ result[w] = "Success" /\ Advance(w) /\ UNCHANGED <<dead_letters, retried>>
       \/ /\ result[w] = "Retry"
          /\ attempts' = [attempts EXCEPT ![k] = @ + 1]
          /\ retried' = [retried EXCEPT ![k] = @ + 1]
          /\ UNCHANGED <<processed_seq, counter, dead_letters>>
       \/ result[w] = "Reject" /\ Advance(w) /\ DeadLetterBatch(w) /\ UNCHANGED retried

DegradeTo_NoFloor(w) == IF PerMessage THEN reported[w] ELSE 1

DegradeTo(w) == IF PerMessage THEN AtLeastOne(reported[w]) ELSE 1

\* PartitionMode::transition.  A batch size degraded to BatchSize and the
\* normal mode behave alike, so the mode is the size itself.
NextFailures(w) == IF result[w] = "Retry" THEN failures[w] + 1 ELSE 0

NextSize(w) ==
    CASE result[w] = "Success" -> Least(2 * size[w], BatchSize)
      [] result[w] = "Retry"   -> IF NextFailures(w) >= Threshold
                                  THEN DegradeTo(w) ELSE size[w]
      [] result[w] = "Reject"  -> DegradeTo(w)

Transition(w) ==
    /\ size' = [size EXCEPT ![w] = NextSize(w)]
    /\ failures' = [failures EXCEPT ![w] = NextFailures(w)]

EndPass(p, k) ==
    /\ wpc' = [wpc EXCEPT ![<<p, k>>] = "idle"]
    /\ row_lock' = [row_lock EXCEPT ![k] = None]
    /\ UNCHANGED <<outgoing, processed, base, count, handled, result, reported>>

Commit(p, k) ==
    /\ wpc[<<p, k>>] = "counted"
    /\ Ack(<<p, k>>)
    /\ Transition(<<p, k>>)
    /\ EndPass(p, k)
    /\ UNCHANGED faults

\* The commit happens but its answer is lost: the worker sees an error and its
\* mode makes no transition.
CommitAnswerLost(p, k) ==
    /\ wpc[<<p, k>>] = "counted"
    /\ Fault
    /\ Ack(<<p, k>>)
    /\ EndPass(p, k)
    /\ UNCHANGED modeVars

PassFails_KeepsWrites(p, k) ==
    /\ wpc[<<p, k>>] # "idle"
    /\ Fault
    /\ EndPass(p, k)
    /\ CommitWrites(<<p, k>>)
    /\ UNCHANGED <<processed_seq, attempts, counter, dead_letters, retried, modeVars>>

\* A statement fails: the transaction is dropped and rolls back.
PassFails(p, k) ==
    /\ wpc[<<p, k>>] # "idle"
    /\ Fault
    /\ EndPass(p, k)
    /\ UNCHANGED <<dbVars, modeVars>>

\* The process dies, or is stopped and its handlers outlast the grace: all its
\* transactions roll back and a successor starts with fresh workers.
Crash(p) ==
    /\ \E k \in Partitions : wpc[<<p, k>>] # "idle"
    /\ Fault
    /\ row_lock' = [k \in Partitions |-> IF row_lock[k] = p THEN None ELSE row_lock[k]]
    /\ processed' = [processed EXCEPT ![p] = 0]
    /\ wpc' = [w \in Workers |-> IF w[1] = p THEN "idle" ELSE wpc[w]]
    /\ size' = [w \in Workers |-> IF w[1] = p THEN BatchSize ELSE size[w]]
    /\ failures' = [w \in Workers |-> IF w[1] = p THEN 0 ELSE failures[w]]
    /\ UNCHANGED <<outgoing, dbVars, base, count, handled, result, reported>>

Step(p, k) ==
    \/ Begin(p, k)
    \/ HandleOk(p, k)
    \/ ReturnSuccess(p, k)
    \/ ReturnRetry(p, k)
    \/ ReturnReject(p, k)
    \/ ReadCount(p, k)
    \/ Commit(p, k)

Next ==
    \/ \E k \in Partitions : Sequence(k)
    \/ \E p \in Processes, k \in Partitions :
           Step(p, k) \/ CommitAnswerLost(p, k) \/ PassFails(p, k)
    \/ \E p \in Processes : Crash(p)

Spec == Init /\ [][Next]_vars

\* The worker loop polls for ever (poll interval, reconciler), and a handler
\* call returns; errors, crashes and retries are limited by MaxFaults.
FairSpec == Spec /\ \A p \in Processes, k \in Partitions : WF_vars(Step(p, k))
-----------------------------------------------------------------------------
(* Properties.                                                             *)

CountersOK ==
    /\ outgoing \in [Partitions -> 0..MaxMsgs]
    /\ processed_seq \in [Partitions -> 0..MaxMsgs]
    /\ attempts \in [Partitions -> Nat]
    /\ counter \in [Partitions -> Nat]
    /\ effects \in [Partitions -> [Seqs -> Nat]]
    /\ dead_letters \in [Partitions -> [Seqs -> Nat]]
    /\ retried \in [Partitions -> Nat]
    /\ processed \in [Processes -> Nat]
    /\ faults \in 0..MaxFaults

PassOK ==
    /\ row_lock \in [Partitions -> Processes \cup {None}]
    /\ wpc \in [Workers -> {"idle", "handling", "returned", "counted"}]
    /\ base \in [Workers -> 0..MaxMsgs]
    /\ count \in [Workers -> 0..BatchSize]
    /\ handled \in [Workers -> 0..BatchSize]
    /\ result \in [Workers -> Results]
    /\ reported \in [Workers -> 0..BatchSize]
    /\ size \in [Workers -> 1..BatchSize]
    /\ failures \in [Workers -> Nat]

\* Type invariant.  The batch size never leaves 1..BatchSize, so no pass asks
\* the database for LIMIT 0 or for more than was configured.
TypeOK == CountersOK /\ PassOK

\* Nothing is skipped and no dead letter is written twice: a message behind the
\* cursor has a committed write of the handler or one dead letter, a message
\* ahead of the cursor has no dead letter (strategy.rs, ack).
NothingSkipped ==
    \A k \in Partitions : \A s \in Seqs :
        /\ s <= processed_seq[k] => effects[k][s] >= 1 \/ dead_letters[k][s] = 1
        /\ s > processed_seq[k] => dead_letters[k][s] = 0
        /\ dead_letters[k][s] <= 1

\* Only a committed Retry pass can repeat the handler's writes: crashes, errors,
\* lost answers and rival processes never do (strategy.rs, process).
RepeatedOnlyByRetry ==
    \A k \in Partitions : \A s \in Seqs :
        effects[k][s] <= retried[k] + (IF s <= processed_seq[k] THEN 1 ELSE 0)

\* A message behind the cursor is settled for good: no later pass, of whichever
\* process, writes for it or dead-letters it again, and the cursor only grows.
SettledIsFinal ==
    [][\A k \in Partitions :
         /\ processed_seq'[k] >= processed_seq[k]
         /\ \A s \in Seqs : s <= processed_seq[k] =>
                effects'[k][s] = effects[k][s] /\ dead_letters'[k][s] = dead_letters[k][s]]_vars

\* A retried pass degrades the batch to the messages before the failing one: "we
\* know the failure is at position pc+1, so we degrade to max(pc, 1) to isolate the
\* poison message" (PartitionMode::transition, workers/processor.rs).  pc is what
\* processed_count() returns; the partition workers of a process share one adapter
\* and so one count (ArcTransactionalHandler, builder.rs), which the pass of
\* another partition resets and counts up between this pass's failure and its load.
PoisonIsolated ==
    [][PerMessage => \A w \in Workers :
         failures'[w] > failures[w] /\ failures'[w] >= Threshold
             => size'[w] <= AtLeastOne(handled[w])]_vars

\* Every sequenced message is eventually settled, whatever the batch size was
\* degraded to by the failures before (PartitionMode, PartitionProcessor).
EventuallySettled ==
    \A k \in Partitions : \A s \in Seqs :
        outgoing[k] >= s ~> processed_seq[k] >= s
=============================================================================
