------------------------- MODULE OutboxPrioritizer -------------------------
(***************************************************************************)
(* How the sequencer workers of one process learn that a partition has     *)
(* rows to sequence: SharedPrioritizer (an inbox and a scheduler behind    *)
(* two mutexes, and a Notify), the Wake fired after a commit, the          *)
(* sequencer's use of a PartitionGuard, and the cold reconciler.           *)
(*                                                                         *)
(* A critical section that takes one mutex is one action, with the         *)
(* notify_one that follows it; push_dirty, which may take the second mutex *)
(* while it holds the first, is one action per lock operation.  Instants   *)
(* are abstracted: a repeated push may or may not fall into the coalescing *)
(* window, a cooldown ends at some point, and any ready partition may be   *)
(* the oldest one.  Absorbing an inbox is idempotent per partition, so the *)
(* inbox is a set.  Semaphores, pacing and shutdown are left out.          *)
(***************************************************************************)
EXTENDS Integers

CONSTANTS
    Partitions,     \* partitions of the outbox
    Workers,        \* sequencer workers of this process
    Producers,      \* callers in this process that enqueue and fire a Wake
    Reconciler,     \* the cold reconciler task
    None,
    Batch,          \* SequencerConfig.batch_size
    Inner,          \* SequencerConfig.max_inner_iterations
    MaxRows,        \* bound: rows ever committed
    MaxFaults,      \* bound: skips, contention, panics
    MaxErrors,      \* bound: database errors of a pass (they cause a cooldown)
    MaxLeaks        \* bound: rows committed without a Wake in this process

ASSUME LimitsAssumption ==
    /\ Batch \in Nat \ {0} /\ Inner \in Nat \ {0}
    /\ MaxRows \in Nat /\ MaxFaults \in Nat /\ MaxErrors \in Nat /\ MaxLeaks \in Nat

ASSUME ThreadsAssumption ==
    /\ Workers \cap Producers = {} /\ Reconciler \notin Workers \cup Producers
    /\ None \notin Workers \cup Producers \cup Partitions /\ None # Reconciler

VARIABLES
    rows,           \* rows[k]: committed rows of `incoming` in partition k
    \* Inbox
    queue,          \* partitions in Inbox.queue
    last_push,      \* partitions in Inbox.last_push
    inbox_lock,     \* thread holding the inbox mutex across steps, or None
    \* PartitionScheduler
    pending,        \* pending partitions that are due
    cooling,        \* pending partitions whose dirty_since lies in the future
    claimed, redirtied,
    sched_lock,     \* thread holding the scheduler mutex across steps, or None
    permit,         \* the Notify's stored permit
    \* threads
    pushing,        \* pushing[t]: partition of t's running push_dirty, or None
    pstep,          \* pstep[t]: how far that call is: "start", "held", "check"
    wpc,            \* wpc[w]: the sequencer worker's place in its loop
    buf,            \* buf[w]: partitions drained from the inbox, not absorbed
    guard,          \* guard[w]: the partition of w's PartitionGuard, or None
    iter,           \* iter[w]: inner iterations done
    idle_next,      \* idle_next[w]: the pass ends in Directive::Idle
    firing,         \* firing[p]: p is inside Wake::fire
    todo,           \* partitions the reconciler still has to push
    reconciling,
    \* bounds and history
    total, leaks, faults, errors,
    leaked          \* leaked[k]: rows nobody in this process was told about

dbVars == <<rows, total, leaks, leaked>>
inboxVars == <<queue, last_push, inbox_lock>>
schedVars == <<pending, cooling, claimed, redirtied, sched_lock>>
pushVars == <<pushing, pstep>>
workerVars == <<buf, guard, iter, idle_next>>
reconcilerVars == <<todo, reconciling>>
wakeVars == <<wpc, permit>>
vars == <<dbVars, inboxVars, schedVars, pushVars, workerVars, wakeVars, firing,
          reconcilerVars, faults, errors>>

Threads == Workers \cup Producers \cup {Reconciler}

Fault == faults < MaxFaults /\ faults' = faults + 1

Init ==
    /\ rows = [k \in Partitions |-> 0] /\ total = 0 /\ leaks = 0
    /\ leaked = [k \in Partitions |-> FALSE]
    /\ queue = {} /\ last_push = {} /\ inbox_lock = None
    /\ pending = {} /\ cooling = {} /\ claimed = {} /\ redirtied = {}
    /\ sched_lock = None /\ permit = FALSE
    /\ pushing = [t \in Threads |-> None]
    /\ pstep = [t \in Threads |-> "start"]
    /\ wpc = [w \in Workers |-> "idle"]
    /\ buf = [w \in Workers |-> {}]
    /\ guard = [w \in Workers |-> None]
    /\ iter = [w \in Workers |-> 0]
    /\ idle_next = [w \in Workers |-> TRUE]
    /\ firing = [p \in Producers |-> FALSE]
    /\ todo = {} /\ reconciling = FALSE
    /\ faults = 0 /\ errors = 0

\* Notify::notify_one, once the workers stand at pcs: one waiter is woken, or
\* the permit is stored.
NotifyOne(pcs) ==
    \/ \E v \in Workers :
          /\ pcs[v] = "waiting"
          /\ wpc' = [pcs EXCEPT ![v] = "ready"]
          /\ UNCHANGED permit
    \/ /\ \A v \in Workers : pcs[v] # "waiting"
       /\ wpc' = pcs
       /\ permit' = TRUE
-----------------------------------------------------------------------------
(* push_dirty, called by thread t for partition pushing[t].                *)

InboxFree == inbox_lock = None
SchedFree == sched_lock = None

CallPush(t, k) == pushing' = [pushing EXCEPT ![t] = k]
ReturnPush(t) ==
    /\ pushing' = [pushing EXCEPT ![t] = None]
    /\ pstep' = [pstep EXCEPT ![t] = "start"]

Accept(k) == queue' = queue \cup {k} /\ last_push' = last_push \cup {k}

\* try_push accepts: no recent push, or its window is over.
PushAccepted(t) ==
    /\ pushing[t] # None /\ pstep[t] = "start"
    /\ InboxFree
    /\ Accept(pushing[t])
    /\ ReturnPush(t)
    /\ NotifyOne(wpc)
    /\ UNCHANGED <<dbVars, inbox_lock, schedVars, workerVars, firing, reconcilerVars,
                   faults, errors>>

Coalesces(k) == k \in last_push

\* try_push falls into the window of an earlier push; the inbox stays locked.
PushCoalesced(t) ==
    /\ pushing[t] # None /\ pstep[t] = "start"
    /\ InboxFree
    /\ Coalesces(pushing[t])
    /\ inbox_lock' = t
    /\ pstep' = [pstep EXCEPT ![t] = "held"]
    /\ UNCHANGED <<dbVars, queue, last_push, schedVars, pushing, workerVars, wakeVars,
                   firing, reconcilerVars, faults, errors>>

PushLocksScheduler(t) ==
    /\ pstep[t] = "held"
    /\ SchedFree
    /\ sched_lock' = t
    /\ pstep' = [pstep EXCEPT ![t] = "check"]
    /\ UNCHANGED <<dbVars, inboxVars, pending, cooling, claimed, redirtied, pushing,
                   workerVars, wakeVars, firing, reconcilerVars, faults, errors>>

\* The partition is claimed: force_push, so that absorb() will re-dirty it.
PushForced(t) ==
    /\ pstep[t] = "check"
    /\ pushing[t] \in claimed
    /\ Accept(pushing[t])
    /\ inbox_lock' = None /\ sched_lock' = None
    /\ ReturnPush(t)
    /\ NotifyOne(wpc)
    /\ UNCHANGED <<dbVars, pending, cooling, claimed, redirtied, workerVars, firing,
                   reconcilerVars, faults, errors>>

PushSuppressed(t) ==
    /\ pstep[t] = "check"
    /\ pushing[t] \notin claimed
    /\ inbox_lock' = None /\ sched_lock' = None
    /\ ReturnPush(t)
    /\ UNCHANGED <<dbVars, queue, last_push, pending, cooling, claimed, redirtied,
                   workerVars, wakeVars, firing, reconcilerVars, faults, errors>>

PushStep(t) ==
    \/ PushAccepted(t)
    \/ PushCoalesced(t)
    \/ PushLocksScheduler(t)
    \/ PushForced(t)
    \/ PushSuppressed(t)
-----------------------------------------------------------------------------
(* Producers and the reconciler.                                           *)

\* A producer's transaction commits; Wake::fire begins.
Commit(p, k) ==
    /\ ~firing[p]
    /\ total < MaxRows
    /\ total' = total + 1
    /\ rows' = [rows EXCEPT ![k] = @ + 1]
    /\ firing' = [firing EXCEPT ![p] = TRUE]
    /\ CallPush(p, k)
    /\ UNCHANGED <<leaks, leaked, inboxVars, schedVars, pstep, workerVars, wakeVars,
                   reconcilerVars, faults, errors>>

\* Wake::fire ends with wake_sequencers.
FireEnds(p) ==
    /\ firing[p] /\ pushing[p] = None
    /\ firing' = [firing EXCEPT ![p] = FALSE]
    /\ NotifyOne(wpc)
    /\ UNCHANGED <<dbVars, inboxVars, schedVars, pushVars, workerVars, reconcilerVars,
                   faults, errors>>

\* Another process commits a row, or a Wake of this one is dropped unfired.
CommitUnannounced(k) ==
    /\ total < MaxRows /\ leaks < MaxLeaks
    /\ total' = total + 1 /\ leaks' = leaks + 1
    /\ rows' = [rows EXCEPT ![k] = @ + 1]
    /\ leaked' = [leaked EXCEPT ![k] = TRUE]
    /\ UNCHANGED <<inboxVars, schedVars, pushVars, workerVars, wakeVars, firing,
                   reconcilerVars, faults, errors>>

\* discover_dirty_partitions; a run that finds nothing changes nothing.
ReconcileBegins ==
    /\ ~reconciling
    /\ \E k \in Partitions : rows[k] > 0
    /\ reconciling' = TRUE
    /\ todo' = {k \in Partitions : rows[k] > 0}
    /\ UNCHANGED <<dbVars, inboxVars, schedVars, pushVars, workerVars, wakeVars, firing,
                   faults, errors>>

ReconcilePushes ==
    /\ reconciling /\ pushing[Reconciler] = None
    /\ \E k \in todo : CallPush(Reconciler, k) /\ todo' = todo \ {k}
    /\ UNCHANGED <<dbVars, inboxVars, schedVars, pstep, workerVars, wakeVars, firing,
                   reconciling, faults, errors>>

\* wake_sequencers.
ReconcileEnds ==
    /\ reconciling /\ pushing[Reconciler] = None /\ todo = {}
    /\ reconciling' = FALSE
    /\ NotifyOne(wpc)
    /\ UNCHANGED <<dbVars, inboxVars, schedVars, pushVars, workerVars, todo, firing,
                   faults, errors>>
-----------------------------------------------------------------------------
(* Sequencer workers: take, one pass, the guard's acknowledgement.         *)

\* Directive::Idle: wait for the Notify, or use up its permit.
Wait(w) ==
    /\ wpc[w] = "idle"
    /\ wpc' = [wpc EXCEPT ![w] = IF permit THEN "ready" ELSE "waiting"]
    /\ permit' = FALSE
    /\ UNCHANGED <<dbVars, inboxVars, schedVars, pushVars, workerVars, firing,
                   reconcilerVars, faults, errors>>

\* take(), phase 1.
Drain(w) ==
    /\ wpc[w] = "ready"
    /\ InboxFree
    /\ buf' = [buf EXCEPT ![w] = queue]
    /\ queue' = {} /\ last_push' = {}
    /\ wpc' = [wpc EXCEPT ![w] = "absorb"]
    /\ UNCHANGED <<dbVars, inbox_lock, schedVars, pushVars, guard, iter, idle_next, permit,
                   firing, reconcilerVars, faults, errors>>

\* absorb(): what becomes pending, and what is flagged.
Fresh_IgnoresClaimed(S) == S \ (pending \cup cooling)

Fresh(S) == S \ (pending \cup cooling \cup claimed)

Redirties_None(S) == {}

Redirties(S) == S \cap (claimed \ (pending \cup cooling))

\* take(), phase 2, with a partition that is due.
TakeOne(w, k) == LET due == pending \cup Fresh(buf[w]) IN
    /\ wpc[w] = "absorb"
    /\ SchedFree
    /\ k \in due
    /\ pending' = due \ {k}
    /\ redirtied' = redirtied \cup Redirties(buf[w])
    /\ claimed' = claimed \cup {k}
    /\ buf' = [buf EXCEPT ![w] = {}]
    /\ guard' = [guard EXCEPT ![w] = k]
    /\ iter' = [iter EXCEPT ![w] = 0]
    /\ idle_next' = [idle_next EXCEPT ![w] = TRUE]
    /\ LET pcs == [wpc EXCEPT ![w] = "pass"] IN
         IF due \ {k} # {} THEN NotifyOne(pcs) ELSE wpc' = pcs /\ UNCHANGED permit
    /\ UNCHANGED <<dbVars, inboxVars, cooling, sched_lock, pushVars, firing, reconcilerVars,
                   faults, errors>>

\* take(), phase 2, with nothing due.
TakeNone(w) ==
    /\ wpc[w] = "absorb"
    /\ SchedFree
    /\ pending \cup Fresh(buf[w]) = {}
    /\ redirtied' = redirtied \cup Redirties(buf[w])
    /\ buf' = [buf EXCEPT ![w] = {}]
    /\ wpc' = [wpc EXCEPT ![w] = "idle"]
    /\ UNCHANGED <<dbVars, inboxVars, pending, cooling, claimed, sched_lock, pushVars, guard,
                   iter, idle_next, permit, firing, reconcilerVars, faults, errors>>

Claimable(k) == IF rows[k] < Batch THEN rows[k] ELSE Batch

AfterIteration_NoLimit(w) == IF Claimable(guard[w]) < Batch THEN "drained" ELSE "pass"

\* A short claim means the partition is drained; a full one asks for another
\* iteration, as long as there are any left.
AfterIteration(w) ==
    IF Claimable(guard[w]) < Batch THEN "drained"
    ELSE IF iter[w] + 1 = Inner THEN "undrained" ELSE "pass"

\* One inner iteration of process_partition that claims rows and commits.
Iterate(w) == LET k == guard[w]
                  left == rows[k] - Claimable(k) IN
    /\ wpc[w] = "pass"
    /\ rows[k] > 0
    /\ rows' = [rows EXCEPT ![k] = left]
    /\ leaked' = [leaked EXCEPT ![k] = @ /\ left > 0]
    /\ iter' = [iter EXCEPT ![w] = @ + 1]
    /\ idle_next' = [idle_next EXCEPT ![w] = FALSE]
    /\ wpc' = [wpc EXCEPT ![w] = AfterIteration(w)]
    /\ UNCHANGED <<total, leaks, inboxVars, schedVars, pushVars, buf, guard, permit, firing,
                   reconcilerVars, faults, errors>>

FindsNothing(w) ==
    /\ wpc[w] = "pass"
    /\ rows[guard[w]] = 0
    /\ wpc' = [wpc EXCEPT ![w] = "drained"]
    /\ UNCHANGED <<dbVars, inboxVars, schedVars, pushVars, workerVars, permit, firing,
                   reconcilerVars, faults, errors>>

Unclaim(k) == claimed' = claimed \ {k} /\ redirtied' = redirtied \ {k}
DropGuard(w) == guard' = [guard EXCEPT ![w] = None]

\* ack_processed: the partition is due again if it was re-dirtied.
Reinserted(k) == IF k \in redirtied THEN pending \cup {k} ELSE pending

\* guard.processed(), and push_dirty if the partition is saturated.
Processed(w) == LET k == guard[w] IN
    /\ wpc[w] \in {"drained", "undrained"}
    /\ SchedFree
    /\ Unclaim(k)
    /\ pending' = Reinserted(k)
    /\ DropGuard(w)
    /\ LET pcs == [wpc EXCEPT ![w] = IF wpc[w] = "undrained" THEN "push"
                                     ELSE IF idle_next[w] THEN "idle" ELSE "ready"] IN
         IF Reinserted(k) # {} THEN NotifyOne(pcs) ELSE wpc' = pcs /\ UNCHANGED permit
    /\ IF wpc[w] = "undrained" THEN CallPush(w, k) ELSE UNCHANGED pushing
    /\ UNCHANGED <<dbVars, inboxVars, cooling, sched_lock, pstep, buf, iter, idle_next, firing,
                   reconcilerVars, faults, errors>>

Requeue_Silent(w, pcs) ==
    /\ SchedFree
    /\ Unclaim(guard[w])
    /\ pending' = pending \cup {guard[w]}
    /\ DropGuard(w)
    /\ wpc' = pcs /\ UNCHANGED permit

\* skipped() and the guard's Drop.
Requeue(w, pcs) ==
    /\ SchedFree
    /\ Unclaim(guard[w])
    /\ pending' = pending \cup {guard[w]}
    /\ DropGuard(w)
    /\ NotifyOne(pcs)

\* The partition row is locked by another process, or the pass panics: the
\* worker goes idle.
Skipped(w) ==
    /\ wpc[w] = "pass"
    /\ Fault
    /\ Requeue(w, [wpc EXCEPT ![w] = "idle"])
    /\ UNCHANGED <<dbVars, inboxVars, cooling, sched_lock, pushVars, buf, iter, idle_next,
                   firing, reconcilerVars, errors>>

\* Lock contention: skipped() and push_dirty().
Contended(w) ==
    /\ wpc[w] = "pass"
    /\ Fault
    /\ Requeue(w, [wpc EXCEPT ![w] = "push"])
    /\ CallPush(w, guard[w])
    /\ UNCHANGED <<dbVars, inboxVars, cooling, sched_lock, pstep, buf, iter, idle_next,
                   firing, reconcilerVars, errors>>

PushReturned(w) ==
    /\ wpc[w] = "push" /\ pushing[w] = None
    /\ wpc' = [wpc EXCEPT ![w] = "ready"]
    /\ UNCHANGED <<dbVars, inboxVars, schedVars, pushVars, workerVars, permit, firing,
                   reconcilerVars, faults, errors>>

AckError_StaysClaimed(k) == UNCHANGED <<cooling, claimed, redirtied>>

\* ack_error: back to pending, not due before the backoff is over.
AckError(k) == cooling' = cooling \cup {k} /\ Unclaim(k)

\* guard.error(): nobody is notified; the worker proceeds.
Errored(w) ==
    /\ wpc[w] = "pass"
    /\ errors < MaxErrors /\ errors' = errors + 1
    /\ SchedFree
    /\ AckError(guard[w])
    /\ DropGuard(w)
    /\ wpc' = [wpc EXCEPT ![w] = "ready"]
    /\ UNCHANGED <<dbVars, inboxVars, pending, sched_lock, pushVars, buf, iter, idle_next,
                   permit, firing, reconcilerVars, faults>>

\* The clock reaches a partition's dirty_since.
CooldownEnds(k) ==
    /\ k \in cooling
    /\ cooling' = cooling \ {k}
    /\ pending' = pending \cup {k}
    /\ UNCHANGED <<dbVars, inboxVars, claimed, redirtied, sched_lock, pushVars, workerVars,
                   wakeVars, firing, reconcilerVars, faults, errors>>

WorkerStep(w) ==
    \/ Wait(w)
    \/ Drain(w)
    \/ \E k \in Partitions : TakeOne(w, k)
    \/ TakeNone(w)
    \/ Iterate(w)
    \/ FindsNothing(w)
    \/ Processed(w)
    \/ PushReturned(w)

Reconcile == ReconcileBegins \/ ReconcilePushes \/ ReconcileEnds

Next ==
    \/ \E t \in Threads : PushStep(t)
    \/ \E p \in Producers : (\E k \in Partitions : Commit(p, k)) \/ FireEnds(p)
    \/ \E k \in Partitions : CommitUnannounced(k) \/ CooldownEnds(k)
    \/ Reconcile
    \/ \E w \in Workers : WorkerStep(w) \/ Skipped(w) \/ Contended(w) \/ Errored(w)

Spec == Init /\ [][Next]_vars

\* Tokio runs every task that is ready, so calls and passes that began go on.
\* Strong fairness: the mutexes are held for a few instructions and the reconciler
\* sleeps between its runs, so a thread that keeps finding one free gets it.
Running ==
    /\ \A t \in Threads : SF_vars(PushStep(t))
    /\ \A p \in Producers : WF_vars(FireEnds(p))
    /\ \A w \in Workers : SF_vars(WorkerStep(w))
    /\ \A k \in Partitions : WF_vars(CooldownEnds(k))

\* The reconciler's poker fires for ever.
FairSpec == Spec /\ Running /\ WF_vars(Reconcile)
-----------------------------------------------------------------------------
(* Properties.                                                             *)

\* Type invariant.
TypeOK ==
    /\ rows \in [Partitions -> 0..MaxRows] /\ leaked \in [Partitions -> BOOLEAN]
    /\ queue \subseteq Partitions /\ last_push \subseteq Partitions
    /\ pending \subseteq Partitions /\ cooling \subseteq Partitions
    /\ claimed \subseteq Partitions /\ redirtied \subseteq Partitions
    /\ inbox_lock \in Threads \cup {None} /\ sched_lock \in Threads \cup {None}
    /\ permit \in BOOLEAN
    /\ pushing \in [Threads -> Partitions \cup {None}]
    /\ pstep \in [Threads -> {"start", "held", "check"}]
    /\ wpc \in [Workers -> {"idle", "waiting", "ready", "absorb", "pass", "drained",
                            "undrained", "push"}]
    /\ buf \in [Workers -> SUBSET Partitions]
    /\ guard \in [Workers -> Partitions \cup {None}]
    /\ iter \in [Workers -> 0..Inner] /\ idle_next \in [Workers -> BOOLEAN]
    /\ firing \in [Producers -> BOOLEAN]
    /\ todo \subseteq Partitions /\ reconciling \in BOOLEAN
    /\ total \in 0..MaxRows /\ leaks \in 0..MaxLeaks
    /\ faults \in 0..MaxFaults /\ errors \in 0..MaxErrors

\* PartitionScheduler's invariant: a partition is idle, pending or claimed, and
\* re-dirtied only while claimed; a claimed one has exactly one guard, so it can
\* neither be sequenced by two workers of the process nor stay claimed for ever.
OnePlace ==
    /\ pending \cap cooling = {}
    /\ (pending \cup cooling) \cap claimed = {}
    /\ redirtied \subseteq claimed
    /\ claimed = {guard[w] : w \in Workers} \ {None}
    /\ \A v, w \in Workers : v # w /\ guard[v] = guard[w] => guard[v] = None

\* Somebody will look at partition k again: it waits somewhere on its way from a
\* push to a pass, or its pass has not read the table for the last time.
Signalled(k) ==
    \/ k \in queue \cup pending \cup cooling \cup redirtied
    \/ \E w \in Workers : k \in buf[w]
    \/ \E w \in Workers : guard[w] = k /\ wpc[w] \in {"pass", "undrained"}
    \/ \E t \in Threads : pushing[t] = k

\* No dirty signal is lost between the inbox, a drained buffer, the scheduler and
\* a running pass, however pushes are coalesced: rows announced by a Wake are
\* waiting for a pass that will see them (prioritizer.rs, push_dirty_impl).
NoSignalLost == \A k \in Partitions : rows[k] > 0 /\ ~leaked[k] => Signalled(k)

\* No wakeup is lost: while a partition waits in the inbox or is due, some worker
\* is awake or the next to go idle finds a permit.  That holds until a pass fails
\* with a database error: guard.error() and the end of its cooldown notify nobody.
NoLostWakeup ==
    errors = 0 /\ queue \cup pending # {} => permit \/ \E w \in Workers : wpc[w] # "waiting"

\* Every committed row is sequenced: no signal, wakeup or permit is lost on the
\* way, no thread waits for a mutex for ever, and what nobody was told about, or
\* what cools down after an error, is found by the reconciler (SharedPrioritizer,
\* Wake::fire, reconcile_dirty).
EventuallySequenced == \A k \in Partitions : rows[k] > 0 ~> rows[k] = 0
=============================================================================
