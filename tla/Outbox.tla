------------------------------- MODULE Outbox -------------------------------
(***************************************************************************)
(* One partition of a transactional outbox (libs/toolkit-db/src/outbox):   *)
(* producers write messages inside their business transactions, sequencers *)
(* number them, leased processors hand them to a handler and acknowledge   *)
(* them, vacuum workers delete what was acknowledged.  Every actor may     *)
(* belong to a different process; they meet only in the database.          *)
(*                                                                         *)
(* One action is one committed database transaction or one in-memory step  *)
(* between two of them.  Partitions share no row of these tables, so the   *)
(* module describes one of them; queues, payloads and error texts are left *)
(* out.  A message is named by the id its `incoming` row is given, and its *)
(* `body` row by the same id (both are written by the same statement).     *)
(***************************************************************************)
EXTENDS Integers, Sequences, FiniteSets

CONSTANTS
    Producers,      \* callers running business transactions
    Sequencers,     \* sequencer tasks of all processes
    Workers,        \* leased processors of this partition, one per process life
    Vacuums,        \* vacuum tasks of all processes
    None,           \* SQL NULL
    MaxMsgs,        \* bound: messages ever inserted
    MaxFaults,      \* bound: crashes, errors, stalls and fruitless handler calls
    SeqBatch,       \* SequencerConfig.batch_size
    MsgBatch,       \* WorkerTuning.batch_size of the processor
    VacBatch,       \* WorkerTuning.batch_size of the vacuum
    AttemptsMax     \* largest value of the SMALLINT column `attempts`

ASSUME BoundsAssumption == MaxMsgs \in Nat /\ MaxFaults \in Nat

ASSUME SettingsAssumption ==
    /\ SeqBatch \in Nat \ {0} /\ MsgBatch \in Nat \ {0} /\ VacBatch \in Nat \ {0}
    /\ AttemptsMax \in Nat \ {0}

ASSUME NoneAssumption == None \notin Workers /\ None \notin Sequencers

VARIABLES
    \* enqueue
    next_id,        \* next value of the id column of `incoming`
    open,           \* open[p]: ids inserted by p's transaction, not committed
    incoming,       \* committed rows of `incoming` (ids)
    body,           \* committed rows of `body` (ids)
    \* sequencer
    part_lock,      \* sequencer holding the row lock on `partitions`, or None
    claimed,        \* claimed[q]: rows q's transaction has claimed, in order
    sequence,       \* partitions.sequence
    outgoing,       \* rows of `outgoing`: seq -> message
    \* processor row
    processed_seq, attempts, locked_by, lease_over,
    \* processors
    pc, batch, done, rejected, result, seen,
    dead_letters,   \* dead_letters[s]: dead-letter rows written for seq s
    \* vacuum
    counter,        \* vacuum_counter.counter
    vpc, vsnap, vcursor,
    \* history
    committed,      \* messages whose business transaction committed
    owner,          \* owner[m]: the producer of message m
    log,            \* messages in the order the sequencer numbered them
    calls,          \* calls[s]: what the handler has said of seq s so far
    faults          \* how much of MaxFaults is spent

enqueueVars == <<next_id, open, incoming, body>>
sequencerVars == <<part_lock, claimed, sequence, outgoing>>
rowVars == <<processed_seq, attempts, locked_by, lease_over>>
workerVars == <<pc, batch, done, rejected, result, seen>>
vacuumVars == <<vpc, vsnap, vcursor>>
historyVars == <<committed, owner, log, calls, faults>>
vars == <<enqueueVars, sequencerVars, rowVars, workerVars, dead_letters,
          counter, vacuumVars, historyVars>>

Ids  == 1..MaxMsgs
Seqs == 1..MaxMsgs

\* ORDER BY the row's number, LIMIT lim: every sequence that lists the lowest
\* rows of S in increasing order, as many of them as lim allows.
OrderByLimit(S, lim) ==
    {q \in UNION {[1..n -> S] : n \in 0..lim} :
        /\ \A i, j \in DOMAIN q : i < j => q[i] < q[j]
        /\ \A m \in S : (\A i \in DOMAIN q : q[i] # m)
               => Len(q) = lim /\ \A i \in DOMAIN q : q[i] < m}

Elems(q) == {q[i] : i \in DOMAIN q}

Fault == faults < MaxFaults /\ faults' = faults + 1

Init ==
    /\ next_id = 1
    /\ open = [p \in Producers |-> {}]
    /\ incoming = {} /\ body = {}
    /\ part_lock = None
    /\ claimed = [q \in Sequencers |-> <<>>]
    /\ sequence = 0
    /\ outgoing = [s \in {} |-> 0]
    /\ processed_seq = 0 /\ attempts = 0 /\ locked_by = None /\ lease_over = FALSE
    /\ pc = [w \in Workers |-> "idle"]
    /\ batch = [w \in Workers |-> <<>>]
    /\ done = [w \in Workers |-> 0]
    /\ rejected = [w \in Workers |-> {}]
    /\ result = [w \in Workers |-> "Success"]
    /\ seen = [w \in Workers |-> 0]
    /\ dead_letters = [s \in Seqs |-> 0]
    /\ counter = 0
    /\ vpc = [v \in Vacuums |-> "idle"]
    /\ vsnap = [v \in Vacuums |-> 0]
    /\ vcursor = [v \in Vacuums |-> 0]
    /\ committed = {}
    /\ owner = [m \in Ids |-> None]
    /\ log = <<>>
    /\ calls = [s \in Seqs |-> "none"]
    /\ faults = 0
-----------------------------------------------------------------------------
(* Producers: Outbox::enqueue and enqueue_batch inside a transaction.      *)

\* A row is inserted in p's open transaction: it takes its id at once, and
\* nobody sees it until the commit.
Enqueue(p) ==
    /\ next_id <= MaxMsgs
    /\ next_id' = next_id + 1
    /\ open' = [open EXCEPT ![p] = @ \cup {next_id}]
    /\ owner' = [owner EXCEPT ![next_id] = p]
    /\ UNCHANGED <<incoming, body, sequencerVars, rowVars, workerVars,
                   dead_letters, counter, vacuumVars, committed, log, calls, faults>>

CommitEnqueue(p) ==
    /\ open[p] # {}
    /\ incoming' = incoming \cup open[p]
    /\ body' = body \cup open[p]
    /\ committed' = committed \cup open[p]
    /\ open' = [open EXCEPT ![p] = {}]
    /\ UNCHANGED <<next_id, sequencerVars, rowVars, workerVars, dead_letters,
                   counter, vacuumVars, owner, log, calls, faults>>

\* The business transaction fails or its process dies: the rows never existed,
\* their ids are not reused.
RollbackEnqueue(p) ==
    /\ open[p] # {}
    /\ Fault
    /\ open' = [open EXCEPT ![p] = {}]
    /\ UNCHANGED <<next_id, incoming, body, sequencerVars, rowVars, workerVars,
                   dead_letters, counter, vacuumVars, committed, owner, log, calls>>
-----------------------------------------------------------------------------
(* Sequencers: one iteration of Sequencer::process_partition.              *)

\* Mutant: the partition row is not locked.
PartitionFree_NoLock == TRUE

\* FOR UPDATE SKIP LOCKED on the partition row.
PartitionFree == part_lock = None

\* Rows of `incoming` another transaction has claimed are locked and skipped.
Claimable(q) ==
    incoming \ UNION {Elems(claimed[r]) : r \in Sequencers \ {q}}

\* The transaction locks the partition and claims the oldest visible rows.
ClaimIncoming(q) ==
    /\ claimed[q] = <<>>
    /\ PartitionFree
    /\ \E c \in OrderByLimit(Claimable(q), SeqBatch) :
          /\ c # <<>>
          /\ claimed' = [claimed EXCEPT ![q] = c]
    /\ part_lock' = q
    /\ UNCHANGED <<enqueueVars, sequence, outgoing, rowVars, workerVars,
                   dead_letters, counter, vacuumVars, historyVars>>

\* It deletes the claimed rows, allocates their numbers, writes `outgoing` and
\* commits, which releases the lock.
CommitSequenced(q) ==
    LET c == claimed[q]
        n == Len(c)
    IN  /\ c # <<>>
        /\ incoming' = incoming \ Elems(c)
        /\ sequence' = sequence + n
        /\ outgoing' = [s \in DOMAIN outgoing \cup (sequence + 1 .. sequence + n) |->
                           IF s \in sequence + 1 .. sequence + n
                             THEN c[s - sequence] ELSE outgoing[s]]
        /\ log' = log \o c
        /\ claimed' = [claimed EXCEPT ![q] = <<>>]
        /\ part_lock' = None
        /\ UNCHANGED <<next_id, open, body, rowVars, workerVars, dead_letters,
                       counter, vacuumVars, committed, owner, calls, faults>>

\* Mutant: the row lock outlives the failed transaction.
RollbackSequenced_KeepsLock(q) ==
    /\ claimed[q] # <<>>
    /\ Fault
    /\ claimed' = [claimed EXCEPT ![q] = <<>>]
    /\ UNCHANGED <<enqueueVars, part_lock, sequence, outgoing, rowVars, workerVars,
                   dead_letters, counter, vacuumVars, committed, owner, log, calls>>

\* Mutant: the claim's DELETE is committed on its own and survives the rollback.
RollbackSequenced_LosesRows(q) ==
    /\ claimed[q] # <<>>
    /\ Fault
    /\ incoming' = incoming \ Elems(claimed[q])
    /\ claimed' = [claimed EXCEPT ![q] = <<>>]
    /\ part_lock' = None
    /\ UNCHANGED <<next_id, open, body, sequence, outgoing, rowVars, workerVars,
                   dead_letters, counter, vacuumVars, committed, owner, log, calls>>

\* A database error, lock contention or the death of the process undoes it all.
RollbackSequenced(q) ==
    /\ claimed[q] # <<>>
    /\ Fault
    /\ claimed' = [claimed EXCEPT ![q] = <<>>]
    /\ part_lock' = None
    /\ UNCHANGED <<enqueueVars, sequence, outgoing, rowVars, workerVars,
                   dead_letters, counter, vacuumVars, committed, owner, log, calls>>
-----------------------------------------------------------------------------
(* Processors: LeasedStrategy::process.                                    *)

\* Mutant: the batch starts at the cursor, not after it.
Unprocessed_Inclusive == {s \in DOMAIN outgoing : s >= processed_seq}

\* The rows a processor reads with the lease: seq > processed_seq, ORDER BY seq
\* LIMIT n, n the batch size PartitionMode allows at the moment.
Unprocessed == {s \in DOMAIN outgoing : s > processed_seq}

\* lease_acquire's WHERE clause.
LeaseFree == locked_by = None \/ lease_over

\* Phase 1, one transaction: take the lease, count the attempt, read a batch.
\* attempts + 1 beyond the column's range is an error, and so is a missing
\* body: both abort the transaction, which then has changed nothing.
AcquireLease(w) ==
    /\ pc[w] = "idle"
    /\ LeaseFree
    /\ attempts < AttemptsMax
    /\ \E n \in 1..MsgBatch : \E b \in OrderByLimit(Unprocessed, n) :
          /\ \A i \in DOMAIN b : outgoing[b[i]] \in body
          /\ batch' = [batch EXCEPT ![w] = b]
          /\ pc' = [pc EXCEPT ![w] = IF b = <<>> THEN "releasing" ELSE "handling"]
    /\ locked_by' = w /\ lease_over' = FALSE
    /\ attempts' = attempts + 1
    /\ seen' = [seen EXCEPT ![w] = attempts]
    /\ UNCHANGED <<enqueueVars, sequencerVars, processed_seq, done, rejected,
                   result, dead_letters, counter, vacuumVars, historyVars>>

\* The pass is over: its locals are gone, the worker idles (or is dead).
EndPass(w, to) ==
    /\ pc' = [pc EXCEPT ![w] = to]
    /\ batch' = [batch EXCEPT ![w] = <<>>]
    /\ done' = [done EXCEPT ![w] = 0]
    /\ rejected' = [rejected EXCEPT ![w] = {}]
    /\ result' = [result EXCEPT ![w] = "Success"]
    /\ seen' = [seen EXCEPT ![w] = 0]

\* lease_release: guarded by the holder, resets attempts.
ReleaseLease(w) ==
    IF locked_by = w
      THEN locked_by' = None /\ lease_over' = FALSE /\ attempts' = 0
      ELSE UNCHANGED <<locked_by, lease_over, attempts>>

\* The batch was empty: the lease is given back by a statement of its own.
ReleaseEmpty(w) ==
    /\ pc[w] = "releasing"
    /\ ReleaseLease(w)
    /\ EndPass(w, "idle")
    /\ UNCHANGED <<enqueueVars, sequencerVars, processed_seq, dead_letters,
                   counter, vacuumVars, historyVars>>

\* Phase 2, outside any transaction: the handler takes the next message and
\* acknowledges it (MessageResult::Ok) ...
HandleOk(w) ==
    /\ pc[w] = "handling" /\ done[w] < Len(batch[w])
    /\ done' = [done EXCEPT ![w] = @ + 1]
    /\ calls' = [calls EXCEPT ![batch[w][done[w] + 1]] = "handled"]
    /\ UNCHANGED <<enqueueVars, sequencerVars, rowVars, pc, batch, rejected,
                   result, seen, dead_letters, counter, vacuumVars, committed,
                   owner, log, faults>>

\* ... or marks it for the dead letters and goes on (MessageResult::Reject).
HandleReject(w) ==
    /\ pc[w] = "handling" /\ done[w] < Len(batch[w])
    /\ done' = [done EXCEPT ![w] = @ + 1]
    /\ rejected' = [rejected EXCEPT ![w] = @ \cup {done[w] + 1}]
    /\ calls' = [calls EXCEPT ![batch[w][done[w] + 1]] =
                    IF @ = "none" THEN "tried" ELSE @]
    /\ UNCHANGED <<enqueueVars, sequencerVars, rowVars, pc, batch, result, seen,
                   dead_letters, counter, vacuumVars, committed, owner, log, faults>>

Return(w, r) ==
    /\ pc[w] = "handling"
    /\ pc' = [pc EXCEPT ![w] = "acking"]
    /\ result' = [result EXCEPT ![w] = r]
    /\ UNCHANGED <<enqueueVars, sequencerVars, rowVars, batch, done, rejected,
                   seen, dead_letters, counter, vacuumVars, committed, owner, log>>

\* The messages are exhausted, or should_stop() ended the loop after one of them.
ReturnSuccess(w) ==
    /\ done[w] > 0
    /\ Return(w, "Success")
    /\ UNCHANGED <<calls, faults>>

\* The handler retries its next message, is dropped at the lease deadline or at
\* shutdown, or (a raw LeasedHandler) returns without having handled anything.
ReturnRetry(w) ==
    /\ Fault
    /\ \/ Return(w, "Retry")
       \/ done[w] = 0 /\ Return(w, "Success")
    /\ calls' = IF done[w] < Len(batch[w])
                  THEN [calls EXCEPT ![batch[w][done[w] + 1]] =
                          IF @ = "none" THEN "tried" ELSE @]
                  ELSE calls

\* A raw LeasedHandler rejects what is left of the batch.
ReturnReject(w) ==
    /\ Return(w, "Reject")
    /\ UNCHANGED <<calls, faults>>
-----------------------------------------------------------------------------
(* Phase 3: lease_guarded_ack, one transaction.                            *)

\* processed_advance_seq: the last message the handler got through, 0 if none.
ProcessedAdvanceSeq(w) == IF done[w] > 0 THEN batch[w][done[w]] ELSE 0

\* Mutant: the cursor passes the whole batch, whatever the handler got through.
AdvanceSeq_WholeBatch(w) == batch[w][Len(batch[w])]

\* Where the ack moves the cursor; a rejected batch is passed as a whole.
AdvanceSeq(w) ==
    IF result[w] = "Reject" THEN batch[w][Len(batch[w])] ELSE ProcessedAdvanceSeq(w)

\* The rows the ack inserts: persist_rejections, and for a rejected batch the
\* messages the handler did not get to.
RejectedSeqs(w) == {batch[w][i] : i \in rejected[w]}

\* Mutant: the tail starts one message early.
RejectedTail_OffByOne(w) ==
    IF result[w] = "Reject"
      THEN {batch[w][i] : i \in {j \in DOMAIN batch[w] : j >= done[w]}} ELSE {}

RejectedTail(w) ==
    IF result[w] = "Reject"
      THEN {batch[w][i] : i \in done[w] + 1 .. Len(batch[w])} ELSE {}

One(b) == IF b THEN 1 ELSE 0

InsertDeadLetters(w) ==
    dead_letters' = [s \in Seqs |->
        dead_letters[s] + One(s \in RejectedSeqs(w)) + One(s \in RejectedTail(w))]

\* Mutant: the ack does not check who holds the lease.
HoldsLease_Unfenced(w) == TRUE

\* locked_by = this worker: the guard of every statement that ends a lease.
HoldsLease(w) == locked_by = w

\* The cursor moves, the lease ends, the vacuum is told: advance_cursor.
AckAdvance(w) ==
    /\ pc[w] = "acking" /\ AdvanceSeq(w) > 0
    /\ HoldsLease(w)
    /\ processed_seq' = AdvanceSeq(w)
    /\ attempts' = 0 /\ locked_by' = None /\ lease_over' = FALSE
    /\ counter' = counter + 1
    /\ InsertDeadLetters(w)
    /\ EndPass(w, "idle")
    /\ UNCHANGED <<enqueueVars, sequencerVars, vacuumVars, historyVars>>

\* Success over nothing: advance_cursor(seq = 0) only gives the lease back.
AckRelease(w) ==
    /\ pc[w] = "acking" /\ AdvanceSeq(w) = 0 /\ result[w] = "Success"
    /\ ReleaseLease(w)
    /\ EndPass(w, "idle")
    /\ UNCHANGED <<enqueueVars, sequencerVars, processed_seq, dead_letters,
                   counter, vacuumVars, historyVars>>

\* Nothing processed: lease_record_retry ends the lease and keeps attempts.
AckRetry(w) ==
    /\ pc[w] = "acking" /\ AdvanceSeq(w) = 0 /\ result[w] = "Retry"
    /\ HoldsLease(w)
    /\ locked_by' = None /\ lease_over' = FALSE
    /\ EndPass(w, "idle")
    /\ UNCHANGED <<enqueueVars, sequencerVars, processed_seq, attempts,
                   dead_letters, counter, vacuumVars, historyVars>>

\* The guarded statement matched no row: the whole ack is rolled back.
AckLost(w) ==
    /\ pc[w] = "acking"
    /\ AdvanceSeq(w) > 0 \/ result[w] = "Retry"
    /\ ~HoldsLease(w)
    /\ EndPass(w, "idle")
    /\ UNCHANGED <<enqueueVars, sequencerVars, rowVars, dead_letters, counter,
                   vacuumVars, historyVars>>

\* A database error ends the pass; the lease stays until it runs out.
PassFails(w) ==
    /\ pc[w] \in {"releasing", "acking"}
    /\ Fault
    /\ EndPass(w, "idle")
    /\ UNCHANGED <<enqueueVars, sequencerVars, rowVars, dead_letters, counter,
                   vacuumVars, committed, owner, log, calls>>

\* The process dies and its worker id with it: a restarted process draws a new
\* id, another member of Workers.  One process stays.
Crash(w) ==
    /\ pc[w] # "dead"
    /\ \E x \in Workers \ {w} : pc[x] # "dead"
    /\ Fault
    /\ EndPass(w, "dead")
    /\ UNCHANGED <<enqueueVars, sequencerVars, rowVars, dead_letters, counter,
                   vacuumVars, committed, owner, log, calls>>

\* NOW() passes locked_until.  It is free of charge when nobody works under the
\* lease; under a working holder it is a stall, since the handler is dropped
\* `headroom` before the lease ends.
LeaseExpires ==
    /\ locked_by # None /\ ~lease_over
    /\ lease_over' = TRUE
    /\ IF \E w \in Workers : w = locked_by /\ pc[w] \notin {"idle", "dead"}
         THEN Fault ELSE UNCHANGED faults
    /\ UNCHANGED <<enqueueVars, sequencerVars, processed_seq, attempts, locked_by,
                   workerVars, dead_letters, counter, vacuumVars, committed,
                   owner, log, calls>>
-----------------------------------------------------------------------------
(* Vacuum: VacuumTask::execute on this partition.                          *)

\* snapshot_dirty finds the partition by its counter and remembers the value.
VacuumSnapshot(v) ==
    /\ vpc[v] = "idle" /\ counter > 0
    /\ vsnap' = [vsnap EXCEPT ![v] = counter]
    /\ vpc' = [vpc EXCEPT ![v] = "read"]
    /\ UNCHANGED <<enqueueVars, sequencerVars, rowVars, workerVars, dead_letters,
                   counter, vcursor, historyVars>>

\* vacuum_partition reads processed_seq once.
VacuumRead(v) ==
    /\ vpc[v] = "read"
    /\ vcursor' = [vcursor EXCEPT ![v] = processed_seq]
    /\ vpc' = [vpc EXCEPT ![v] = IF processed_seq = 0 THEN "drained" ELSE "draining"]
    /\ UNCHANGED <<enqueueVars, sequencerVars, rowVars, workerVars, dead_letters,
                   counter, vsnap, historyVars>>

\* Mutant: takes the first unprocessed row as well.
Collectable_OffByOne(v) == {s \in DOMAIN outgoing : s <= vcursor[v] + 1}

Collectable(v) == {s \in DOMAIN outgoing : s <= vcursor[v]}

\* delete_chunk: a bounded number of rows and their bodies, in a transaction; a
\* short chunk is the last one.
VacuumDelete(v) ==
    /\ vpc[v] = "draining"
    /\ \E q \in OrderByLimit(Collectable(v), VacBatch) :
          /\ outgoing' = [s \in DOMAIN outgoing \ Elems(q) |-> outgoing[s]]
          /\ body' = body \ {outgoing[s] : s \in Elems(q)}
          /\ vpc' = [vpc EXCEPT ![v] = IF Len(q) < VacBatch THEN "drained" ELSE @]
    /\ UNCHANGED <<next_id, open, incoming, part_lock, claimed, sequence, rowVars,
                   workerVars, dead_letters, counter, vsnap, vcursor, historyVars>>

EndSweep(v) ==
    /\ vpc' = [vpc EXCEPT ![v] = "idle"]
    /\ vsnap' = [vsnap EXCEPT ![v] = 0]
    /\ vcursor' = [vcursor EXCEPT ![v] = 0]

\* Mutant: the counter is reset, not decremented by the snapshot.
VacuumDecrement_Reset(v) ==
    /\ vpc[v] = "drained"
    /\ counter' = 0
    /\ EndSweep(v)
    /\ UNCHANGED <<enqueueVars, sequencerVars, rowVars, workerVars, dead_letters,
                   historyVars>>

\* drain_partition: GREATEST(counter - snapshot, 0).
VacuumDecrement(v) ==
    /\ vpc[v] = "drained"
    /\ counter' = IF counter > vsnap[v] THEN counter - vsnap[v] ELSE 0
    /\ EndSweep(v)
    /\ UNCHANGED <<enqueueVars, sequencerVars, rowVars, workerVars, dead_letters,
                   historyVars>>

\* Mutant: a sweep that was cut short decrements the counter all the same.
VacuumAbort_Decrements(v) ==
    /\ vpc[v] # "idle"
    /\ Fault
    /\ counter' = IF counter > vsnap[v] THEN counter - vsnap[v] ELSE 0
    /\ EndSweep(v)
    /\ UNCHANGED <<enqueueVars, sequencerVars, rowVars, workerVars, dead_letters,
                   committed, owner, log, calls>>

\* An error, a shutdown or a crash ends the sweep; the counter is not touched.
VacuumAbort(v) ==
    /\ vpc[v] # "idle"
    /\ Fault
    /\ EndSweep(v)
    /\ UNCHANGED <<enqueueVars, sequencerVars, rowVars, workerVars, dead_letters,
                   counter, committed, owner, log, calls>>
-----------------------------------------------------------------------------
ProducerStep(p)  == Enqueue(p) \/ CommitEnqueue(p) \/ RollbackEnqueue(p)
SequencerStep(q) == ClaimIncoming(q) \/ CommitSequenced(q) \/ RollbackSequenced(q)
HandlerStep(w)   == \/ HandleOk(w) \/ HandleReject(w)
                    \/ ReturnSuccess(w) \/ ReturnRetry(w) \/ ReturnReject(w)
AckStep(w)       == AckAdvance(w) \/ AckRelease(w) \/ AckRetry(w) \/ AckLost(w)
WorkerStep(w)    == \/ AcquireLease(w) \/ ReleaseEmpty(w) \/ HandlerStep(w)
                    \/ AckStep(w) \/ PassFails(w) \/ Crash(w)
VacuumStep(v)    == \/ VacuumSnapshot(v) \/ VacuumRead(v) \/ VacuumDelete(v)
                    \/ VacuumDecrement(v) \/ VacuumAbort(v)

Next ==
    \/ \E p \in Producers : ProducerStep(p)
    \/ \E q \in Sequencers : SequencerStep(q)
    \/ \E w \in Workers : WorkerStep(w)
    \/ LeaseExpires
    \/ \E v \in Vacuums : VacuumStep(v)

Spec == Init /\ [][Next]_vars

\* What the code keeps doing: tasks poll on timers (poker, idle_interval), a
\* handler is dropped at its deadline, a transaction ends, a lease runs out.
Fairness ==
    /\ \A p \in Producers : WF_vars(CommitEnqueue(p))
    /\ \A q \in Sequencers : WF_vars(ClaimIncoming(q)) /\ WF_vars(CommitSequenced(q))
    /\ \A w \in Workers :
          /\ WF_vars(AcquireLease(w))
          /\ WF_vars(ReleaseEmpty(w))
          /\ WF_vars(HandlerStep(w))
          /\ WF_vars(AckStep(w))
    /\ WF_vars(LeaseExpires)
    /\ \A v \in Vacuums : WF_vars(VacuumSnapshot(v) \/ VacuumRead(v)
                                    \/ VacuumDelete(v) \/ VacuumDecrement(v))

FairSpec == Spec /\ Fairness
-----------------------------------------------------------------------------
(* Correctness.                                                            *)

EnqueueTypes ==
    /\ next_id \in 1..MaxMsgs + 1
    /\ open \in [Producers -> SUBSET Ids]
    /\ incoming \subseteq Ids /\ body \subseteq Ids
SequencerTypes ==
    /\ part_lock \in Sequencers \cup {None}
    /\ claimed \in [Sequencers -> Seq(Ids)]
    /\ sequence \in Nat
    /\ DOMAIN outgoing \subseteq Nat
    /\ outgoing \in [DOMAIN outgoing -> Ids]
RowTypes ==
    /\ processed_seq \in Nat /\ attempts \in 0..AttemptsMax
    /\ locked_by \in Workers \cup {None} /\ lease_over \in BOOLEAN
WorkerTypes ==
    /\ pc \in [Workers -> {"idle", "releasing", "handling", "acking", "dead"}]
    /\ batch \in [Workers -> Seq(Nat)]
    /\ done \in [Workers -> Nat]
    /\ rejected \in [Workers -> SUBSET Nat]
    /\ result \in [Workers -> {"Success", "Retry", "Reject"}]
    /\ seen \in [Workers -> 0..AttemptsMax]
VacuumTypes ==
    /\ counter \in Nat
    /\ vpc \in [Vacuums -> {"idle", "read", "draining", "drained"}]
    /\ vsnap \in [Vacuums -> Nat] /\ vcursor \in [Vacuums -> Nat]
HistoryTypes ==
    /\ committed \subseteq Ids
    /\ owner \in [Ids -> Producers \cup {None}]
    /\ log \in Seq(Ids)
CallTypes ==
    /\ calls \in [Seqs -> {"none", "tried", "handled"}]
    /\ dead_letters \in [Seqs -> Nat]
FaultTypes == faults \in 0..MaxFaults

\* Every variable keeps its type: counters stay within the width of their column.
TypeOK ==
    /\ EnqueueTypes /\ SequencerTypes /\ RowTypes /\ WorkerTypes
    /\ VacuumTypes /\ HistoryTypes /\ CallTypes /\ FaultTypes

\* Every message whose business transaction committed is either still waiting in
\* `incoming` or has exactly one sequence number, and no rolled-back message has
\* one: the claim, delete and insert of Sequencer::process_partition neither
\* drop nor duplicate a row when sequencers overlap, fail or die.
SequencedOnce ==
    /\ committed = incoming \cup Elems(log)
    /\ incoming \cap Elems(log) = {}
    /\ \A i, j \in DOMAIN log : i # j => log[i] # log[j]

\* Until the cursor has passed a sequence number, its `outgoing` row and its
\* body are there to be read: numbers are allocated without gaps and the vacuum
\* never removes what is not acknowledged, whatever cursor it read and whenever.
UnprocessedIsReadable ==
    \A s \in processed_seq + 1 .. sequence :
        /\ s \in DOMAIN outgoing
        /\ outgoing[s] = log[s]
        /\ outgoing[s] \in body

\* The cursor stands only behind messages the handler acknowledged or the ack
\* dead-lettered: a partial batch, a lost lease or a failed ack skips nothing.
SettledWasHandled ==
    \A s \in 1..processed_seq :
        s <= MaxMsgs /\ (calls[s] = "handled" \/ dead_letters[s] > 0)

\* A message is dead-lettered at most once, and only together with the move of
\* the cursor past it: a redelivered batch leaves no second row.
DeadLetteredOnce ==
    \A s \in Seqs : dead_letters[s] <= One(s <= processed_seq)

\* The cursor of the partition never moves back, although a processor whose
\* lease was taken over still holds the acknowledgement of older messages.
CursorNeverMovesBack == [][processed_seq' >= processed_seq]_vars

\* Messages one producer submitted keep their order: the `incoming` ids rise
\* with its inserts, and claims take the lowest visible ids under the lock.
ProducerOrder ==
    \A i, j \in DOMAIN log : i < j /\ owner[log[i]] = owner[log[j]] => log[i] < log[j]

\* Acknowledged rows whose counter is zero are found by no vacuum again, so
\* while no sweep is under way a nonzero counter points at every one of them.
NoOrphanedRows ==
    (\A v \in Vacuums : vpc[v] = "idle") /\ counter = 0
        => \A s \in DOMAIN outgoing : s > processed_seq

\* Every committed message is settled in the end: handled or dead-lettered,
\* with the cursor behind it.
Settled(m) == \E s \in 1..processed_seq : s <= Len(log) /\ log[s] = m
EventuallySettled == \A m \in Ids : m \in committed ~> Settled(m)

\* The rows and bodies of settled messages are eventually deleted.
EventuallyVacuumed == \A m \in Ids : []<>(Settled(m) => m \notin body)

-----------------------------------------------------------------------------
(* Why it is correct: the parts of the inductive invariant.                *)

\* Inside an open or a committed transaction, an id belongs to one message.
IdsAreFresh ==
    /\ \A m \in committed : m < next_id
    /\ \A p \in Producers : \A m \in open[p] : m < next_id /\ m \notin committed
    /\ \A p, r \in Producers : p # r => open[p] \cap open[r] = {}

\* Only the sequencer with the lock has claimed rows, which are still there.
ClaimsAreExclusive ==
    \A q \in Sequencers : claimed[q] # <<>> =>
        /\ part_lock = q
        /\ Len(claimed[q]) <= SeqBatch
        /\ Elems(claimed[q]) \subseteq incoming
        /\ \A i, j \in DOMAIN claimed[q] : i < j => claimed[q][i] < claimed[q][j]

\* Numbers are handed out without gaps, and `outgoing` agrees with the order.
NumbersAreDense ==
    /\ Len(log) = sequence
    /\ sequence <= MaxMsgs
    /\ processed_seq <= sequence
    /\ incoming \subseteq body
    /\ DOMAIN outgoing \subseteq 1..sequence
    /\ \A s \in DOMAIN outgoing : outgoing[s] = log[s]

\* A pass works on an increasing batch of numbered messages, a prefix of which
\* is acknowledged or marked for the dead letters; between passes nothing is
\* left over.
Working(w) == pc[w] \in {"handling", "acking"}
PassesAreSound ==
    \A w \in Workers :
        /\ Working(w) =>
              /\ batch[w] # <<>>
              /\ \A i \in DOMAIN batch[w] : batch[w][i] \in 1..sequence
              /\ \A i, j \in DOMAIN batch[w] : i < j => batch[w][i] < batch[w][j]
              /\ done[w] <= Len(batch[w])
              /\ rejected[w] \subseteq 1..done[w]
              /\ \A i \in 1..done[w] :
                    i \in rejected[w] \/ calls[batch[w][i]] = "handled"
        /\ ~Working(w) => done[w] = 0 /\ rejected[w] = {}

\* The batch of the worker named by locked_by begins right after the cursor and
\* has no holes: whoever may still acknowledge has read the current state.  The
\* lease may be over; what counts is that nobody has taken it since.
HolderIsCurrent ==
    \A w \in Workers : Working(w) /\ locked_by = w =>
        /\ \A i \in DOMAIN batch[w] : batch[w][i] > processed_seq
        /\ \A s \in processed_seq + 1 .. batch[w][Len(batch[w])] :
              \E i \in DOMAIN batch[w] : batch[w][i] = s

\* A sweep uses a cursor that may be old, never one that is ahead.
VacuumIsBehind == \A v \in Vacuums : vcursor[v] <= processed_seq

\* The rows of one producer are numbered, claimed, visible and written in the
\* order of their ids: each of these sets lies below the next one.
ProducersAreOrdered ==
    /\ \A p \in Producers : \A m \in open[p] :
          owner[m] = p /\ \A k \in committed : owner[k] = p => k < m
    /\ \A m \in incoming : \A i \in DOMAIN log : owner[log[i]] = owner[m] => log[i] < m
    /\ \A q \in Sequencers : \A m \in incoming \ Elems(claimed[q]) :
          \A i \in DOMAIN claimed[q] :
              owner[claimed[q][i]] = owner[m] => claimed[q][i] < m
    /\ ProducerOrder

\* What a sweep still has to do.  Every acknowledgement since its snapshot shows
\* as a counter above it; if there is none, the sweep works with the current
\* cursor and, once drained, has left nothing behind.
Collected == \A s \in DOMAIN outgoing : s > processed_seq
SweepsAreThorough ==
    \A v \in Vacuums :
        /\ vpc[v] # "idle" => vsnap[v] > 0 /\ vsnap[v] <= counter
        /\ vpc[v] = "draining" /\ counter = vsnap[v] => vcursor[v] = processed_seq
        /\ vpc[v] = "drained" /\ counter = vsnap[v] => Collected

Inv ==
    /\ TypeOK /\ IdsAreFresh /\ ClaimsAreExclusive /\ NumbersAreDense
    /\ PassesAreSound /\ HolderIsCurrent /\ VacuumIsBehind
    /\ SequencedOnce /\ UnprocessedIsReadable
    /\ SettledWasHandled /\ DeadLetteredOnce
-----------------------------------------------------------------------------
\* The pipeline implements the queue OutboxQueue describes: sequencing, leases,
\* redelivery and vacuuming show in it as steps of that queue or not at all.
Queue == INSTANCE OutboxQueue WITH
    Messages <- Ids, Batch <- SeqBatch, pending <- incoming, log <- log,
    cursor <- processed_seq,
    acked <- {s \in Seqs : calls[s] = "handled"},
    dead <- {s \in Seqs : dead_letters[s] > 0}

ImplementsQueue == Queue!Spec
=============================================================================
