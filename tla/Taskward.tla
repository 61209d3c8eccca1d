------------------------------ MODULE Taskward ------------------------------
(***************************************************************************)
(* The worker loop of toolkit-taskward and the bulkhead that admits its    *)
(* passes, as the outbox uses them: sequencers take a shared permit or one *)
(* of their guaranteed ones (Tiered), vacuums a shared one only (Fixed;    *)
(* the partition processors do the same with a semaphore of their own).    *)
(* Panics of a pass are caught and count as errors (CatchAndRetry).        *)
(* A worker has one Notify here, for its pokers and events together; the   *)
(* one that the sequencers share is the subject of OutboxPrioritizer.      *)
(* Time is abstracted: a sleep ends at some point.                         *)
(***************************************************************************)
EXTENDS Integers, FiniteSets, Sequences, SequencesExt

CONSTANTS
    Tiered, Fixed,      \* workers, by their ConcurrencyLimit
    None,
    Guaranteed, Shared, \* permits of the two semaphores
    Initial, Multiplier,\* BackoffConfig: first interval and growth
    DurationMax,        \* the largest Duration
    MaxFailures,        \* bound: consecutive failures of a worker
    MaxHung             \* bound: passes that never return

Workers == Tiered \cup Fixed
Semaphores == {"shared", "guaranteed"}
Capacity == [s \in Semaphores |-> IF s = "shared" THEN Shared ELSE Guaranteed]

ASSUME TaskwardAssumption ==
    /\ Tiered \cap Fixed = {} /\ None \notin Workers \cup Semaphores
    /\ IsFiniteSet(Workers)
    /\ Guaranteed \in Nat \ {0} /\ Shared \in Nat \ {0}
    /\ Initial \in Nat \ {0} /\ Multiplier \in Nat \ {0} /\ DurationMax \in Nat
    /\ MaxFailures \in Nat /\ MaxHung \in Nat

VARIABLES
    pc,         \* pc[w]: where w's loop is
    note,       \* note[w]: the permit stored in w's Notify
    owed,       \* owed[w]: w was notified and has not begun a pass since, and
                \* no pass is owed any more once the set is cancelled
    sem,        \* sem[s]: free permits, waiters in order, waiters served
    permit,     \* permit[w]: the semaphore w holds a permit of, or None
    failures,   \* failures[w]: consecutive_failures
    cancelled,  \* the token of the task set
    aborting    \* the set was dropped: its tasks are aborted

loopVars == <<note, owed, failures>>
setVars == <<cancelled, aborting>>
vars == <<pc, loopVars, sem, permit, setVars>>

\* The first directive is Idle.
Init ==
    /\ pc = [w \in Workers |-> "idle"]
    /\ note = [w \in Workers |-> FALSE]
    /\ owed = [w \in Workers |-> FALSE]
    /\ sem = [s \in Semaphores |-> [free |-> Capacity[s], queue |-> <<>>, served |-> {}]]
    /\ permit = [w \in Workers |-> None]
    /\ failures = [w \in Workers |-> 0]
    /\ cancelled = FALSE /\ aborting = FALSE

Goto(w, place) == pc' = [pc EXCEPT ![w] = place]
Ended(w) == pc[w] \in {"stopped", "dead"}
-----------------------------------------------------------------------------
(* tokio's semaphore: a permit that is returned goes to the first waiter.  *)

Give(S) ==
    IF S.queue = <<>> THEN [S EXCEPT !.free = @ + 1]
    ELSE [S EXCEPT !.queue = Tail(@), !.served = @ \cup {Head(S.queue)}]

\* An acquire that is dropped hands on the permit it was served.
Leave(S, w) ==
    IF w \in S.served THEN Give([S EXCEPT !.served = @ \ {w}])
    ELSE [S EXCEPT !.queue = RemoveFirst(@, w)]
-----------------------------------------------------------------------------
(* Notifications and the error backoff.                                    *)

\* A poker, a Wake or a sequencer notifies w.
Notify(w) ==
    /\ ~cancelled /\ ~Ended(w)
    /\ note' = [note EXCEPT ![w] = TRUE]
    /\ owed' = [owed EXCEPT ![w] = TRUE]
    /\ UNCHANGED <<pc, failures, sem, permit, setVars>>

\* The error floor of Idle is over.
BackoffEnds(w) ==
    /\ pc[w] = "backoff"
    /\ Goto(w, "idle")
    /\ UNCHANGED <<loopVars, sem, permit, setVars>>
-----------------------------------------------------------------------------
(* Waking up, and Bulkhead::acquire.                                       *)

\* w has a permit of s and executes.
Enter(w, s) ==
    /\ permit' = [permit EXCEPT ![w] = s]
    /\ Goto(w, "running")
    /\ owed' = [owed EXCEPT ![w] = FALSE]

\* The first poll of the shared semaphore, in both modes.
TryShared(w) ==
    IF sem["shared"].free > 0
    THEN sem' = [sem EXCEPT !["shared"].free = @ - 1] /\ Enter(w, "shared")
    ELSE /\ sem' = [sem EXCEPT !["shared"].queue = Append(@, w)]
         /\ Goto(w, IF w \in Tiered THEN "fallback" ELSE "waiting")
         /\ UNCHANGED <<permit, owed>>

\* wait_any, in Idle and in Sleep; the way from a wait to acquire has no await.
Wakes(w) ==
    /\ pc[w] \in {"idle", "sleeping"} /\ note[w] /\ ~cancelled
    /\ note' = [note EXCEPT ![w] = FALSE]
    /\ TryShared(w)
    /\ UNCHANGED <<failures, setVars>>

\* The pace of Proceed or the time of Sleep is over.
TimeIsUp(w) ==
    /\ pc[w] \in {"pacing", "sleeping"} /\ ~cancelled
    /\ TryShared(w)
    /\ UNCHANGED <<note, failures, setVars>>

\* The first poll of the guaranteed one; a permit ends the wait for the other.
TryGuaranteed(w) ==
    /\ pc[w] = "fallback"
    /\ IF sem["guaranteed"].free > 0
       THEN /\ sem' = [s \in Semaphores |->
                  IF s = "shared" THEN Leave(sem[s], w) ELSE [sem[s] EXCEPT !.free = @ - 1]]
            /\ Enter(w, "guaranteed")
       ELSE /\ sem' = [sem EXCEPT !["guaranteed"].queue = Append(@, w)]
            /\ Goto(w, "waiting")
            /\ UNCHANGED <<permit, owed>>
    /\ UNCHANGED <<note, failures, setVars>>

AfterTaking_KeepsPlace(w, s) ==
    [t \in Semaphores |-> IF t = s THEN [sem[t] EXCEPT !.served = @ \ {w}] ELSE sem[t]]

\* The permit of s is w's, and its wait for the other semaphore is dropped.
AfterTaking(w, s) ==
    [t \in Semaphores |-> IF t = s THEN [sem[t] EXCEPT !.served = @ \ {w}]
                          ELSE Leave(sem[t], w)]

\* biased: shared before guaranteed.
Served(w) ==
    /\ pc[w] = "waiting"
    /\ \E s \in Semaphores :
          /\ w \in sem[s].served
          /\ s = "guaranteed" => w \notin sem["shared"].served
          /\ sem' = AfterTaking(w, s)
          /\ Enter(w, s)
    /\ UNCHANGED <<note, failures, setVars>>
-----------------------------------------------------------------------------
(* A pass and its result.                                                  *)

\* What the end of an iteration, or of the loop, leaves of w's permit.
Released(w) ==
    IF permit[w] = None THEN [s \in Semaphores |-> Leave(sem[s], w)]
    ELSE [sem EXCEPT ![permit[w]] = Give(@)]

ReleasePermit_OnlyAtStop(w, place) ==
    IF place = "stopped"
    THEN sem' = Released(w) /\ permit' = [permit EXCEPT ![w] = None]
    ELSE UNCHANGED <<sem, permit>>

ReleasePermit_KeepsIt(w, place) == sem' = Released(w) /\ UNCHANGED permit

\* _permit is dropped before the loop sleeps, waits or ends.
ReleasePermit(w, place) == sem' = Released(w) /\ permit' = [permit EXCEPT ![w] = None]

\* Proceed, Idle or Sleep: the backoff is reset.
PassSucceeds(w) ==
    /\ pc[w] = "running"
    /\ \E place \in {"pacing", "idle", "sleeping"} :
          Goto(w, place) /\ ReleasePermit(w, place)
    /\ failures' = [failures EXCEPT ![w] = 0]
    /\ UNCHANGED <<note, owed, setVars>>

\* initial.mul_f64(multiplier.powi(n - 1)), before it is capped.
Raw(n) == Initial * Multiplier^(n - 1)

\* escalate: mul_f64 panics when its result is no Duration, and nothing catches
\* that; otherwise the floor is slept off, unless the pass took longer.
AfterError(w) ==
    IF Raw(failures[w] + 1) > DurationMax THEN {"dead"} ELSE {"backoff", "idle"}

\* An error, or a panic of the pass.
PassFails(w) ==
    /\ pc[w] = "running" /\ failures[w] < MaxFailures
    /\ failures' = [failures EXCEPT ![w] = @ + 1]
    /\ \E place \in AfterError(w) : Goto(w, place) /\ ReleasePermit(w, place)
    /\ UNCHANGED <<note, owed, setVars>>

\* The pass will never return, whatever the token says.
Hangs(w) ==
    /\ pc[w] = "running"
    /\ Cardinality({v \in Workers : pc[v] = "hung"}) < MaxHung
    /\ Goto(w, "hung")
    /\ UNCHANGED <<loopVars, sem, permit, setVars>>
-----------------------------------------------------------------------------
(* Shutdown.                                                               *)

\* TaskSet::shutdown cancels, and so does its drop, which aborts as well.
Cancel ==
    /\ ~cancelled /\ cancelled' = TRUE
    /\ owed' = [w \in Workers |-> FALSE]
    /\ UNCHANGED <<pc, note, failures, sem, permit, aborting>>

\* The set, or the future of its shutdown, is dropped.
DropSet ==
    /\ ~aborting
    /\ aborting' = TRUE /\ cancelled' = TRUE
    /\ owed' = [w \in Workers |-> FALSE]
    /\ UNCHANGED <<pc, note, failures, sem, permit>>

\* The task ends, and with it its place in every queue and its notifiers.
Stops(w) ==
    /\ Goto(w, "stopped") /\ ReleasePermit(w, "stopped")
    /\ note' = [note EXCEPT ![w] = FALSE]
    /\ failures' = [failures EXCEPT ![w] = 0]
    /\ UNCHANGED <<owed, setVars>>

\* Every wait of the loop also waits for the token.
Breaks(w) ==
    /\ cancelled /\ pc[w] \in {"pacing", "backoff", "idle", "sleeping", "waiting"}
    /\ Stops(w)

StopDeadline_Cooperative(w) == cancelled /\ pc[w] = "running" /\ Stops(w)

\* The pass is still running when its grace is over, and is dropped.
StopDeadline(w) == cancelled /\ pc[w] \in {"running", "hung"} /\ Stops(w)

\* Drop of NamedTask: the task ends at its next await.
Aborts(w) == aborting /\ ~Ended(w) /\ pc[w] # "fallback" /\ Stops(w)
-----------------------------------------------------------------------------
\* What a worker does by itself.
Step(w) ==
    \/ BackoffEnds(w) \/ Wakes(w) \/ TimeIsUp(w)
    \/ TryGuaranteed(w) \/ Served(w)
    \/ PassSucceeds(w) \/ PassFails(w)

Next ==
    \/ \E w \in Workers :
          Notify(w) \/ Step(w) \/ Hangs(w) \/ Breaks(w) \/ StopDeadline(w) \/ Aborts(w)
    \/ Cancel \/ DropSet

Spec == Init /\ [][Next]_vars

\* The runtime polls every ready task and every timer ends; a pass that does not
\* hang ends; nobody has to notify, to cancel or to drop.
Fairness ==
    \A w \in Workers : WF_vars(Step(w)) /\ WF_vars(Breaks(w) \/ StopDeadline(w))

FairSpec == Spec /\ Fairness
-----------------------------------------------------------------------------
\* Every variable has its type; no semaphore has more permits than it began with.
TypeOK ==
    /\ pc \in [Workers -> {"pacing", "backoff", "idle", "sleeping",
                           "fallback", "waiting", "running", "hung", "stopped", "dead"}]
    /\ note \in [Workers -> BOOLEAN] /\ owed \in [Workers -> BOOLEAN]
    /\ \A s \in Semaphores :
          /\ sem[s].free \in 0..Capacity[s]
          /\ sem[s].queue \in Seq(Workers) /\ sem[s].served \subseteq Workers
    /\ permit \in [Workers -> Semaphores \cup {None}]
    /\ failures \in [Workers -> 0..MaxFailures]
    /\ cancelled \in BOOLEAN /\ aborting \in BOOLEAN

\* Every permit is free, on its way to a worker that waits for it, or with a pass
\* that runs, however the two waits of a tiered worker, cancellation, a stop
\* deadline and the end of a worker interleave (Bulkhead::acquire, _permit).
PermitsAccounted ==
    \A s \in Semaphores :
      /\ sem[s].served \subseteq {w \in Workers : pc[w] \in {"fallback", "waiting"}}
      /\ sem[s].free + Cardinality(sem[s].served)
           + Cardinality({w \in Workers : permit[w] = s /\ pc[w] \in {"running", "hung"}})
         = Capacity[s]

\* Who is notified begins a pass, also when the notification comes during a pass
\* or a backoff, unless the worker dies, a pass hangs or the set is stopped
\* (run_inner).  This includes a vacuum among sequencers that never run out of
\* work, and so contradicts bulkhead.rs ("Vacuum only runs when sequencers are
\* idle or using their guaranteed permits") and spawn_vacuum_workers
\* ("sequencers preempt vacuum via the biased select"): biased orders the polls
\* of one worker, while tokio's semaphore serves those who wait in turn.
EveryNotificationRuns ==
    \A w \in Workers :
      owed[w] ~> \/ ~owed[w] \/ Ended(w)
                 \/ \E v \in Workers : pc[v] = "hung"

\* Shutdown ends: every worker stops, whatever it waits for and even when its pass
\* never returns, so that shutdown can join them all (stop_deadline, TaskSet::shutdown).
ShutdownEnds == cancelled ~> \A w \in Workers : Ended(w)

\* "The worker never exits on action errors [...] The loop only exits on
\* cancellation" (WorkerTask, task.rs).
OnlyCancellationEnds == \A w \in Workers : Ended(w) => cancelled
=============================================================================
