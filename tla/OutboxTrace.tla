---------------------------- MODULE OutboxTrace ----------------------------
(***************************************************************************)
(* Traced batches of the outbox.  A caller subscribes to a trace in its    *)
(* own process and enqueues a batch whose entities spread over partitions; *)
(* every acknowledgement, of whatever process, counts the trace's row down *)
(* in its own transaction.  The completion is claimed by the instance that *)
(* submitted the batch, in the acknowledgement that reaches zero or by its *)
(* notifier, and handed to the subscription.  A reporter shows the retries *)
(* and a sweeper collects the rows.  Traces are unique, which is the       *)
(* caller's duty (record.rs:83); the database is PostgreSQL.               *)
(***************************************************************************)
EXTENDS Integers, FiniteSets, Sequences, FiniteSetsExt, Functions

CONSTANTS
    Traces,         \* trace strings, as numbers in their lexical order
    Partitions,
    Instances,      \* processes: each one worker, notifier and reporter
    Owner,          \* Owner[t]: the instance that submits t
    Batch,          \* Batch[t][p]: how many entities of t go to partition p
    Watched,        \* traces whose subscriber reads every state with next()
    None,
    MsgBatch,       \* messages a worker reads at a time
    PageSize,       \* rows the notifier, reporter and sweeper read at a time
    Retention, OrphanAfter, LeftoverAfter,  \* TraceSweep's periods, in ticks
    MaxFaults       \* bound: retries, lost leases, lost answers, failures, stops

ASSUME TraceAssumption ==
    /\ Traces \subseteq Nat \ {0} /\ IsFiniteSet(Traces)
    /\ Owner \in [Traces -> Instances]
    /\ IsFiniteSet(Partitions) /\ Partitions \cap Nat = {}
    /\ Batch \in [Traces -> [Partitions -> Nat]]
    /\ \A t \in Traces : \E p \in Partitions : Batch[t][p] > 0
    /\ Watched \subseteq Traces
    /\ None \notin Instances \cup Nat /\ MsgBatch \in Nat \ {0} /\ PageSize \in Nat \ {0}
    /\ Retention \in Nat /\ OrphanAfter \in Nat /\ LeftoverAfter \in Nat
    /\ MaxFaults \in Nat

VARIABLES
    queue,          \* queue[p]: the trace of every message of p, by seq
    cursor,         \* cursor[p]: processed_seq
    lease,          \* lease[p]: locked_by
    dead,           \* dead[t]: dead letters that carry t
    row,            \* row[t]: the trace row, or None
    lock,           \* lock[r]: who has locked trace row r or processor row r
    job,            \* job[i]: the acknowledgement i's worker is at, or None
    todo,           \* todo[i]: groups of rows its transaction has still to write
    mail,           \* mail[i]: completions claimed by a commit, not handed over
    page,           \* page[i]: mail the notifier has read and not claimed
    report,         \* report[i]: retrying traces the reporter has read, or None
    clearing,       \* clearing[i]: senders cloned to be set back to InFlight
    sub,            \* sub[t]: the state the subscription to t sees
    told,           \* told[t]: the failures it was told of, or None
    doomed,         \* rows the sweeper has selected
    up,             \* instances that run
    faults,
    lost            \* history: traces claimed by a statement whose answer was
                    \* lost, or collected before they were claimed

msgVars == <<queue, cursor, lease, dead>>
ackVars == <<lock, job, todo, mail>>
subVars == <<sub, told>>
workerVars == <<page, report, clearing>>
vars == <<msgVars, row, ackVars, workerVars, subVars, doomed, up, faults, lost>>

Rows == Traces \cup Partitions
\* Ages are not told apart beyond the longest period.
MaxAge == Max({Retention, OrphanAfter, LeftoverAfter}) + 1

Init ==
    /\ queue = [p \in Partitions |-> <<>>]
    /\ cursor = [p \in Partitions |-> 0]
    /\ lease = [p \in Partitions |-> None]
    /\ dead = [t \in Traces |-> 0]
    /\ row = [t \in Traces |-> None]
    /\ lock = [r \in Rows |-> None]
    /\ job = [i \in Instances |-> None]
    /\ todo = [i \in Instances |-> <<>>]
    /\ mail = [i \in Instances |-> {}]
    /\ page = [i \in Instances |-> {}]
    /\ report = [i \in Instances |-> None]
    /\ clearing = [i \in Instances |-> {}]
    /\ sub = [t \in Traces |-> "unused"]
    /\ told = [t \in Traces |-> None]
    /\ doomed = {}
    /\ up = Instances
    /\ faults = 0
    /\ lost = {}

Fault == faults < MaxFaults /\ faults' = faults + 1

Present(t) == row[t] # None
Open(t) == Present(t) /\ row[t].pending > 0
\* completed_at IS NOT NULL AND notified_at IS NULL.
Mail(t) == Present(t) /\ row[t].pending <= 0 /\ ~row[t].notified
\* The registry of t's owner has an entry for t.
Waiting(t) == sub[t] \in {"inflight", "retrying"}
Entries(i) == {t \in Traces : Owner[t] = i /\ Waiting(t)}
\* SELECT ... LIMIT.
Pages(S) == {Q \in SUBSET S : Cardinality(Q) = Min({Cardinality(S), PageSize})}
Enqueued(t) == \E p \in Partitions : t \in Range(queue[p])
-----------------------------------------------------------------------------
(* The submitting caller.                                                  *)

\* Interest is registered before the enqueuing transaction commits; a closed
\* registry keeps no entry.
Subscribe(t) ==
    /\ sub[t] = "unused" /\ ~Enqueued(t)
    /\ sub' = [sub EXCEPT ![t] = IF Owner[t] \in up THEN "inflight" ELSE "closed"]
    /\ UNCHANGED <<msgVars, row, ackVars, workerVars, told, doomed, up, faults, lost>>

\* Drop: the subscription releases its own entry.
Drop(t) ==
    /\ Waiting(t)
    /\ sub' = [sub EXCEPT ![t] = "dropped"]
    /\ UNCHANGED <<msgVars, row, ackVars, workerVars, told, doomed, up, faults, lost>>

Entities(t) == UNION {{p} \X (1..Batch[t][p]) : p \in Partitions}

NewRow(t) == [pending |-> Cardinality(Entities(t)), failures |-> 0, stuck |-> FALSE,
              notified |-> FALSE, age |-> 0]

\* The row and the messages commit together.
EnqueueBatch(t) ==
    /\ Owner[t] \in up /\ ~Enqueued(t)
    /\ row' = [row EXCEPT ![t] = NewRow(t)]
    /\ queue' = [p \in Partitions |-> queue[p] \o [k \in 1..Batch[t][p] |-> t]]
    /\ UNCHANGED <<cursor, lease, dead, ackVars, workerVars, subVars, doomed, up,
                   faults, lost>>
-----------------------------------------------------------------------------
(* Acknowledgements: one transaction per batch of a partition.             *)

Slice(p, a, b) == {queue[p][k] : k \in a + 1..b}

\* The rows the transaction writes, in groups that are each sorted by trace: the
\* cursor, the traces it settles and those it retries; but a retry of the whole
\* batch writes the traces first.
Statements(p, from, upto, last) ==
    IF upto = from THEN <<Slice(p, from, last), {p}>>
    ELSE IF upto = last THEN <<{p}, Slice(p, from, upto)>>
    ELSE <<{p}, Slice(p, from, upto), Slice(p, upto, last)>>

\* The last message a batch of p reads.
BatchEnd(p) == Min({Len(queue[p]), cursor[p] + MsgBatch})

\* i takes the lease of p, reads a batch and runs the handler: those
\* up to upto are settled, the ones in bad dead-lettered, the rest is retried.
\* The lease is free or has expired; to expire while its holder is still busy
\* with it counts as a fault.
TakeAndHandle(i, p, upto, bad) ==
    /\ i \in up /\ job[i] = None /\ mail[i] = {}
    /\ cursor[p] < BatchEnd(p) /\ lock[p] = None
    /\ LET busy == lease[p] # None /\ job[lease[p]] # None /\ job[lease[p]].p = p
           cost == (IF busy THEN 1 ELSE 0) + (IF upto < BatchEnd(p) THEN 1 ELSE 0)
       IN  faults + cost <= MaxFaults /\ faults' = faults + cost
    /\ lease' = [lease EXCEPT ![p] = i]
    /\ job' = [job EXCEPT ![i] =
          [p |-> p, from |-> cursor[p], upto |-> upto, last |-> BatchEnd(p), bad |-> bad]]
    /\ todo' = [todo EXCEPT ![i] = Statements(p, cursor[p], upto, BatchEnd(p))]
    /\ UNCHANGED <<queue, cursor, dead, row, lock, mail, workerVars, subVars, doomed,
                   up, lost>>

Unlocked(i) == [r \in Rows |-> IF lock[r] = i THEN None ELSE lock[r]]

\* A rolled back or aborted transaction: nothing is counted and nothing is told,
\* and a lease that is still the worker's stays until it expires.
RolledBack(i) ==
    /\ lock' = Unlocked(i)
    /\ job' = [job EXCEPT ![i] = None]
    /\ todo' = [todo EXCEPT ![i] = <<>>]
    /\ UNCHANGED <<msgVars, row, mail, workerVars, subVars, doomed, up, lost>>

Free(r, i) == lock[r] \in {None, i}

Fenced_Unchecked(i) == TRUE

Fenced(i) == lease[job[i].p] = i

\* The row of i's next UPDATE.
Least(S) == CHOOSE r \in S : \A q \in S \ {r} : r < q
NextRow(i) == Least(Head(todo[i]))

\* The next UPDATE finds its row and locks it, or finds none: a trace that was
\* collected, or that is complete.
WriteRow(i) ==
    /\ job[i] # None /\ todo[i] # <<>>
    /\ LET r == NextRow(i)
           rest == Head(todo[i]) \ {r}
       IN  /\ Free(r, i)
           /\ r \in Partitions => Fenced(i)
           /\ lock' = IF r \in Partitions \/ Open(r)
                      THEN [lock EXCEPT ![r] = i] ELSE lock
           /\ todo' = [todo EXCEPT ![i] =
                 IF rest = {} THEN Tail(@) ELSE <<rest>> \o Tail(@)]
    /\ UNCHANGED <<msgVars, row, job, mail, workerVars, subVars, doomed, up, faults,
                   lost>>

\* The cursor's UPDATE matches no row: another worker has the lease.
LeaseLost(i) ==
    /\ job[i] # None /\ todo[i] # <<>>
    /\ NextRow(i) = job[i].p /\ Free(job[i].p, i) /\ ~Fenced(i)
    /\ RolledBack(i)
    /\ UNCHANGED faults

\* Acknowledgements that wait for one another: the database aborts one.
Waits(i, j) ==
    /\ i # j /\ job[i] # None /\ todo[i] # <<>>
    /\ lock[NextRow(i)] = j

Deadlocked(i) == \E j \in Instances : Waits(i, j) /\ Waits(j, i)

DeadlockAbort(i) ==
    /\ Deadlocked(i)
    /\ RolledBack(i)
    /\ UNCHANGED faults

TxFails(i) ==
    /\ job[i] # None
    /\ Fault
    /\ RolledBack(i)

\* How many messages of t the job settles, and how many of them it rejects.
Terminal(j, t) == Cardinality({k \in j.from + 1..j.upto : queue[j.p][k] = t})
Rejected(j, t) == Cardinality({k \in j.bad : queue[j.p][k] = t})
Beyond(j) == Slice(j.p, j.upto, j.last)

\* UPDATE ... SET pending = pending - terminal ... WHERE pending > 0.
Advanced(r, j, t) ==
    LET n == Terminal(j, t) IN
    IF n = 0 THEN r
    ELSE [r EXCEPT !.pending = @ - n, !.failures = @ + Rejected(j, t),
                   !.stuck = FALSE, !.age = IF r.pending <= n THEN 0 ELSE @]

Claimable_StillPending(i, t, r) == ~r.notified /\ Owner[t] = i

Claimable_Anybody(i, t, r) == r.pending <= 0 /\ ~r.notified

Claimable(i, t, r) == r.pending <= 0 /\ ~r.notified /\ Owner[t] = i

Claimed(r) == [r EXCEPT !.notified = TRUE, !.age = 0]

Retried(r) == IF r.pending > 0 THEN [r EXCEPT !.stuck = TRUE] ELSE r

Acked_RetryOnly(i, j, t) ==
    LET a == Advanced(row[t], j, t)
        c == IF Claimable(i, t, a) THEN Claimed(a) ELSE a
    IN  IF t \in Beyond(j) THEN Retried(row[t]) ELSE c

\* What the job makes of row t, which it has locked, when it commits.
Acked(i, j, t) ==
    LET a == Advanced(row[t], j, t)
        c == IF Claimable(i, t, a) THEN Claimed(a) ELSE a
    IN  IF t \in Beyond(j) THEN Retried(c) ELSE c

MyRows(i) == {t \in Traces : lock[t] = i}
\* The outcomes its claims return.
Completions(i, j) ==
    {[trace |-> t, failures |-> Acked(i, j, t).failures] :
       t \in {u \in MyRows(i) : Acked(i, j, u).notified}}

CommitEffects(i) ==
    LET j == job[i] IN
    /\ cursor' = [cursor EXCEPT ![j.p] = j.upto]
    /\ lease' = [lease EXCEPT ![j.p] = None]
    /\ dead' = [t \in Traces |-> dead[t] + Rejected(j, t)]
    /\ row' = [t \in Traces |-> IF lock[t] = i THEN Acked(i, j, t) ELSE row[t]]
    /\ lock' = Unlocked(i)
    /\ job' = [job EXCEPT ![i] = None]

Committing(i) == job[i] # None /\ todo[i] = <<>>

Commit(i) ==
    /\ Committing(i)
    /\ CommitEffects(i)
    /\ mail' = [mail EXCEPT ![i] = Completions(i, job[i])]
    /\ UNCHANGED <<queue, todo, workerVars, subVars, doomed, up, faults, lost>>

\* The commit takes effect, but the worker sees an error and tells nobody.
CommitUnheard(i) ==
    /\ Committing(i)
    /\ Fault
    /\ CommitEffects(i)
    /\ lost' = lost \cup {o.trace : o \in Completions(i, job[i])}
    /\ UNCHANGED <<queue, todo, mail, workerVars, subVars, doomed, up>>

\* deliver: the entry is removed with the terminal state, if there is one.
Deliver(o) ==
    /\ sub' = IF Waiting(o.trace) THEN [sub EXCEPT ![o.trace] = "completed"] ELSE sub
    /\ told' = IF Waiting(o.trace) THEN [told EXCEPT ![o.trace] = o.failures] ELSE told

\* deliver_claimed, after the commit.
DeliverClaimed(i) ==
    /\ \E o \in mail[i] :
          /\ Deliver(o)
          /\ mail' = [mail EXCEPT ![i] = @ \ {o}]
    /\ UNCHANGED <<msgVars, row, lock, job, todo, workerVars, doomed, up, faults,
                   lost>>
-----------------------------------------------------------------------------
(* The notifier: mail of this instance that another one finished.          *)

\* The gate and the page.
NotifierReads(i) ==
    /\ i \in up /\ Entries(i) # {} /\ page[i] = {}
    /\ \E Q \in Pages({t \in Traces : Owner[t] = i /\ Mail(t)}) :
          Q # {} /\ page' = [page EXCEPT ![i] = Q]
    /\ UNCHANGED <<msgVars, row, ackVars, report, clearing, subVars, doomed, up,
                   faults, lost>>

\* The claim of one row of the page, and what it returns if it claims.
NotifierClaims(i) ==
    \E t \in page[i] :
      /\ Free(t, None)
      /\ page' = [page EXCEPT ![i] = @ \ {t}]
      /\ IF Present(t) /\ Claimable(i, t, row[t])
         THEN /\ row' = [row EXCEPT ![t] = Claimed(@)]
              /\ Deliver([trace |-> t, failures |-> row[t].failures])
         ELSE UNCHANGED <<row, subVars>>
      /\ UNCHANGED <<msgVars, ackVars, report, clearing, doomed, up, faults, lost>>

\* The claim sticks and its answer is lost: the error ends the page.
ClaimUnheard(i) ==
    \E t \in page[i] :
      /\ Free(t, None) /\ Present(t) /\ Claimable(i, t, row[t])
      /\ Fault
      /\ row' = [row EXCEPT ![t] = Claimed(@)]
      /\ lost' = lost \cup {t}
      /\ page' = [page EXCEPT ![i] = {}]
      /\ UNCHANGED <<msgVars, ackVars, report, clearing, subVars, doomed, up>>
-----------------------------------------------------------------------------
(* The retry reporter.                                                     *)

Retrying(i) == {t \in Traces : Owner[t] = i /\ Open(t) /\ row[t].stuck}

\* The gate (somebody reads retries) and the page.  Passes with nothing to show
\* and nothing to clear change nothing and are left out.
ReporterReads(i) ==
    /\ i \in up /\ report[i] = None /\ clearing[i] = {}
    /\ Entries(i) \cap Watched # {}
    /\ Retrying(i) # {} \/ \E t \in Entries(i) : sub[t] = "retrying"
    /\ \E Q \in Pages(Retrying(i)) : report' = [report EXCEPT ![i] = Q]
    /\ UNCHANGED <<msgVars, row, ackVars, page, clearing, subVars, doomed, up, faults,
                   lost>>

\* publish_retry for every row; unless the page is full, the senders of all
\* other entries are then cloned under the lock.
ReporterPublishes(i) ==
    /\ report[i] # None
    /\ sub' = [t \in Traces |-> IF t \in report[i] \cap Watched /\ Waiting(t)
                               THEN "retrying" ELSE sub[t]]
    /\ clearing' = [clearing EXCEPT ![i] =
          IF Cardinality(report[i]) < PageSize THEN Entries(i) \ report[i] ELSE {}]
    /\ report' = [report EXCEPT ![i] = None]
    /\ UNCHANGED <<msgVars, row, ackVars, page, told, doomed, up, faults, lost>>

Cleared_Always(s) == "inflight"

\* send_if_modified on a clone, outside the registry's lock.
Cleared(s) == IF s = "retrying" THEN "inflight" ELSE s

ReporterClears(i) ==
    /\ \E t \in clearing[i] :
          /\ sub' = [sub EXCEPT ![t] = Cleared(@)]
          /\ clearing' = [clearing EXCEPT ![i] = @ \ {t}]
    /\ UNCHANGED <<msgVars, row, ackVars, page, report, told, doomed, up, faults,
                   lost>>
-----------------------------------------------------------------------------
(* The sweeper, the clock and the end of a process.                        *)

Collectable_NoOrphans(r) ==
    \/ r.notified /\ r.failures = 0 /\ r.age > Retention
    \/ r.notified /\ r.failures > 0 /\ r.age > LeftoverAfter
    \/ r.pending > 0 /\ r.age > LeftoverAfter

\* The four rules of select_collectable_traces.
Collectable(r) ==
    \/ r.notified /\ r.failures = 0 /\ r.age > Retention
    \/ r.pending <= 0 /\ ~r.notified /\ r.age > OrphanAfter
    \/ r.notified /\ r.failures > 0 /\ r.age > LeftoverAfter
    \/ r.pending > 0 /\ r.age > LeftoverAfter

SweepSelects ==
    /\ doomed = {}
    /\ doomed' \in Pages({t \in Traces : Present(t) /\ Collectable(row[t])}) \ {{}}
    /\ UNCHANGED <<msgVars, row, ackVars, workerVars, subVars, up, faults, lost>>

\* The selected ids are deleted without a second look, once nobody locks them.
SweepDeletes ==
    /\ doomed # {} /\ \A t \in doomed : lock[t] = None
    /\ row' = [t \in Traces |-> IF t \in doomed THEN None ELSE row[t]]
    /\ lost' = lost \cup {t \in doomed : Present(t) /\ ~row[t].notified}
    /\ doomed' = {}
    /\ UNCHANGED <<msgVars, ackVars, workerVars, subVars, up, faults>>

\* Time passes.  The notifier looks every two seconds while somebody waits, so
\* mail that is waited for does not grow older than orphan_after.
Tick ==
    /\ \A t \in Traces :
          Mail(t) /\ Waiting(t) => row[t].age < OrphanAfter
    /\ \E t \in Traces : Present(t) /\ row[t].age < MaxAge
    /\ row' = [t \in Traces |->
                 IF Present(t) /\ row[t].age < MaxAge
                 THEN [row[t] EXCEPT !.age = @ + 1] ELSE row[t]]
    /\ UNCHANGED <<msgVars, ackVars, workerVars, subVars, doomed, up, faults, lost>>

Closed_StillOpen(i) == sub

\* close: the senders of all entries are dropped.
Closed(i) == [t \in Traces |-> IF t \in Entries(i) THEN "closed" ELSE sub[t]]

\* The outbox of i is stopped or its process ends: open transactions roll back,
\* claimed mail is not handed over and close() resolves every subscription.
Stop(i) ==
    /\ i \in up /\ up # {i}
    /\ Fault
    /\ up' = up \ {i}
    /\ lock' = Unlocked(i)
    /\ job' = [job EXCEPT ![i] = None]
    /\ todo' = [todo EXCEPT ![i] = <<>>]
    /\ mail' = [mail EXCEPT ![i] = {}]
    /\ page' = [page EXCEPT ![i] = {}]
    /\ report' = [report EXCEPT ![i] = None]
    /\ clearing' = [clearing EXCEPT ![i] = {}]
    /\ sub' = Closed(i)
    /\ UNCHANGED <<msgVars, row, told, doomed, lost>>
-----------------------------------------------------------------------------
Handles(i) ==
    \E p \in Partitions : \E upto \in cursor[p]..BatchEnd(p) :
      \E bad \in SUBSET (cursor[p] + 1..upto) : TakeAndHandle(i, p, upto, bad)

\* The whole batch succeeds or is rejected.
Settles(i) ==
    \E p \in Partitions : \E bad \in SUBSET (cursor[p] + 1..BatchEnd(p)) :
      TakeAndHandle(i, p, BatchEnd(p), bad)

Next ==
    \/ \E t \in Traces : Subscribe(t) \/ Drop(t) \/ EnqueueBatch(t)
    \/ \E i \in Instances :
          \/ Handles(i) \/ WriteRow(i) \/ LeaseLost(i) \/ DeadlockAbort(i)
          \/ TxFails(i) \/ Commit(i) \/ CommitUnheard(i) \/ DeliverClaimed(i)
          \/ NotifierReads(i) \/ NotifierClaims(i) \/ ClaimUnheard(i)
          \/ ReporterReads(i) \/ ReporterPublishes(i) \/ ReporterClears(i)
          \/ Stop(i)
    \/ SweepSelects \/ SweepDeletes \/ Tick

Spec == Init /\ [][Next]_vars

\* Every worker, notifier, reporter and sweeper loop goes on while its process
\* runs; a handler whose retries are over settles its batch; time passes.  The
\* database grants a row to those that wait for it in turn.
Fairness ==
    /\ \A i \in Instances :
          /\ WF_vars(Settles(i) \/ Commit(i) \/ DeliverClaimed(i) \/ DeadlockAbort(i))
          /\ SF_vars(WriteRow(i) \/ LeaseLost(i))
          /\ WF_vars(NotifierReads(i) \/ NotifierClaims(i))
          /\ WF_vars(ReporterPublishes(i) \/ ReporterClears(i))
    /\ WF_vars(SweepSelects \/ SweepDeletes) /\ WF_vars(Tick)

FairSpec == Spec /\ Fairness
-----------------------------------------------------------------------------
RowType == [pending : Nat, failures : Nat, stuck : BOOLEAN, notified : BOOLEAN,
            age : 0..MaxAge]
ASSUME NoneAssumption == None \notin RowType

JobType == [p : Partitions, from : Nat, upto : Nat, last : Nat, bad : SUBSET Nat]
Outcomes == [trace : Traces, failures : Nat]

\* Every variable has its type; in particular no acknowledgement drives a
\* trace's pending below zero (trace_advance).
TypeOK ==
    /\ queue \in [Partitions -> Seq(Traces)]
    /\ cursor \in [Partitions -> Nat]
    /\ lease \in [Partitions -> Instances \cup {None}]
    /\ dead \in [Traces -> Nat]
    /\ row \in [Traces -> RowType \cup {None}]
    /\ lock \in [Rows -> Instances \cup {None}]
    /\ job \in [Instances -> JobType \cup {None}]
    /\ todo \in [Instances -> Seq(SUBSET Rows)]
    /\ mail \in [Instances -> SUBSET Outcomes]
    /\ page \in [Instances -> SUBSET Traces]
    /\ report \in [Instances -> (SUBSET Traces) \cup {None}]
    /\ clearing \in [Instances -> SUBSET Traces]
    /\ sub \in [Traces -> {"unused", "inflight", "retrying", "completed", "closed",
                            "dropped"}]
    /\ told \in [Traces -> Nat \cup {None}]
    /\ doomed \subseteq Traces /\ lost \subseteq Traces
    /\ up \subseteq Instances
    /\ faults \in 0..MaxFaults

\* Messages of t the partitions have not got past.
Unsettled(t) ==
    UNION {{<<p, k>> : k \in {n \in cursor[p] + 1..Len(queue[p]) : queue[p][n] = t}} :
             p \in Partitions}

\* A trace row counts exactly the entities that no partition has settled and the
\* dead letters that carry its trace, whichever workers acknowledge, lose their
\* lease, roll back or are never answered (apply_trace_progress).
CountsAreExact ==
    \A t \in Traces : Present(t) =>
      /\ row[t].pending = Cardinality(Unsettled(t))
      /\ row[t].failures = dead[t]

\* A subscriber is told of a completion only when every entity of its batch is
\* durably settled, and is told the number that really was dead-lettered
\* (deliver_claimed after the commit).
ToldTheTruth ==
    \A t \in Traces : sub[t] = "completed" => Unsettled(t) = {} /\ told[t] = dead[t]

\* A completion stamped as delivered while its subscriber waits is on its way to
\* it, unless the answer of the claiming statement was lost: nobody but the
\* submitter claims it (trace_claim_mail).
NoMailLost ==
    \A t \in Traces : Present(t) /\ row[t].notified /\ Waiting(t) =>
      t \in lost \cup {o.trace : o \in mail[Owner[t]]}

\* A subscription that has completed stays so: a reporter that is clearing a
\* retry with a sender it cloned earlier does not set it back, and no second
\* delivery replaces the outcome (clear_retries_except, deliver).
CompletedIsFinal ==
    [][\A t \in Traces : sub[t] = "completed" =>
         sub'[t] = "completed" /\ told'[t] = told[t]]_vars

\* Every subscriber of an enqueued batch is answered, with the outcome or with
\* None when its process stops, unless the sweeper gave the batch up as a
\* leftover or the claiming statement's answer was lost (Notifier, close).
EventuallyAnswered ==
    \A t \in Traces : Present(t) /\ Waiting(t) ~> ~Waiting(t) \/ t \in lost

\* Every trace row is collected in the end, also when its owner is gone and when
\* its batch failed (TraceSweeper::sweep).
EventuallyCollected == \A t \in Traces : Present(t) ~> ~Present(t)
=============================================================================
