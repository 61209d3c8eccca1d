---------------------- MODULE OutboxPrioritizerProofs ----------------------
(***************************************************************************)
(* The safety of the wakeup path for any number of partitions, workers,    *)
(* producers, rows and faults.  A signal is followed from the push through *)
(* the inbox, a drained buffer and the scheduler to a pass; a wakeup is    *)
(* followed from the notification to the take that answers it.             *)
(***************************************************************************)
EXTENDS OutboxPrioritizer, TLAPS

\* No partition has more rows than were ever committed.
RowsAreCounted == \A k \in Partitions : rows[k] <= total

\* A push that was coalesced holds the inbox, so the push it was coalesced with
\* is still in it; one that looks at the claims holds the scheduler as well.
PushesHoldLocks ==
    \A t \in Threads :
        /\ pstep[t] # "start" => inbox_lock = t /\ pushing[t] \in last_push
        /\ pstep[t] = "check" => sched_lock = t

\* The coalescing window never outlives the push it belongs to.
WindowIsQueued == last_push \subseteq queue

\* A worker or a producer is inside push_dirty only where it calls it.
PushesAreCalled ==
    /\ \A p \in Producers : pushing[p] # None => firing[p]
    /\ \A w \in Workers : pushing[w] # None => wpc[w] = "push"

\* A guard lives exactly as long as its pass, and a drained buffer from phase 1
\* of take() to its phase 2.
PassesAreGuarded ==
    \A w \in Workers :
        /\ guard[w] # None <=> wpc[w] \in {"pass", "drained", "undrained"}
        /\ wpc[w] # "absorb" => buf[w] = {}
        /\ wpc[w] = "pass" => iter[w] < Inner

\* Whoever was woken by a push, or will find its permit, has not drained yet.
SomebodyDrains == queue # {} => permit \/ \E w \in Workers : wpc[w] = "ready"

\* A due partition will be taken: somebody is before the second phase of take().
SomebodyTakes ==
    errors = 0 =>
        /\ cooling = {}
        /\ pending # {} => permit \/ \E w \in Workers : wpc[w] \in {"ready", "absorb"}

Inv ==
    /\ TypeOK /\ RowsAreCounted
    /\ PushesHoldLocks /\ WindowIsQueued /\ PushesAreCalled /\ PassesAreGuarded
    /\ OnePlace /\ NoSignalLost
    /\ SomebodyDrains /\ SomebodyTakes
-----------------------------------------------------------------------------
Places == {"idle", "waiting", "ready", "absorb", "pass", "drained", "undrained", "push"}

\* What a notification leaves behind: a permit or a ready worker, and nobody else
\* moved.
LEMMA Notified ==
    ASSUME NEW pcs \in [Workers -> Places], permit \in BOOLEAN, NotifyOne(pcs)
    PROVE  /\ wpc' \in [Workers -> Places] /\ permit' \in BOOLEAN
           /\ permit' \/ \E w \in Workers : wpc'[w] = "ready"
           /\ \A w \in Workers :
                 wpc'[w] = pcs[w] \/ (pcs[w] = "waiting" /\ wpc'[w] = "ready")
<1>1. CASE \E v \in Workers : /\ pcs[v] = "waiting"
                              /\ wpc' = [pcs EXCEPT ![v] = "ready"]
                              /\ UNCHANGED permit
  BY <1>1 DEF Places
<1>2. CASE wpc' = pcs /\ permit' = TRUE
  BY <1>2
<1>. QED
  BY <1>1, <1>2 DEF NotifyOne

\* The types without those of wpc and permit, which a notification changes.
StoreTypes ==
    /\ rows \in [Partitions -> 0..MaxRows] /\ leaked \in [Partitions -> BOOLEAN]
    /\ queue \subseteq Partitions /\ last_push \subseteq Partitions
    /\ pending \subseteq Partitions /\ cooling \subseteq Partitions
    /\ claimed \subseteq Partitions /\ redirtied \subseteq Partitions
    /\ inbox_lock \in Threads \cup {None} /\ sched_lock \in Threads \cup {None}
    /\ todo \subseteq Partitions /\ reconciling \in BOOLEAN
    /\ total \in 0..MaxRows /\ leaks \in 0..MaxLeaks
    /\ faults \in 0..MaxFaults /\ errors \in 0..MaxErrors

ThreadTypes ==
    /\ pushing \in [Threads -> Partitions \cup {None}]
    /\ pstep \in [Threads -> {"start", "held", "check"}]
    /\ buf \in [Workers -> SUBSET Partitions]
    /\ guard \in [Workers -> Partitions \cup {None}]
    /\ iter \in [Workers -> 0..Inner] /\ idle_next \in [Workers -> BOOLEAN]
    /\ firing \in [Producers -> BOOLEAN]

WakeTypes == wpc \in [Workers -> Places] /\ permit \in BOOLEAN

LEMMA Types == TypeOK <=> StoreTypes /\ ThreadTypes /\ WakeTypes
  BY Zenon DEF TypeOK, StoreTypes, ThreadTypes, WakeTypes, Places

LEMMA TypesNext == TypeOK' <=> StoreTypes' /\ ThreadTypes' /\ WakeTypes'
  BY Zenon DEF TypeOK, StoreTypes, ThreadTypes, WakeTypes, Places

\* What each conjunct depends on: a step that leaves that alone preserves it.
LEMMA Frame ==
    /\ StoreTypes /\ UNCHANGED <<rows, leaked, queue, last_push, pending, cooling, claimed,
          redirtied, inbox_lock, sched_lock, todo, reconciling, total, leaks, faults, errors>>
       => StoreTypes'
    /\ ThreadTypes /\ UNCHANGED <<pushing, pstep, buf, guard, iter, idle_next, firing>>
       => ThreadTypes'
    /\ WakeTypes /\ UNCHANGED <<wpc, permit>> => WakeTypes'
    /\ RowsAreCounted /\ UNCHANGED <<rows, total>> => RowsAreCounted'
    /\ PushesHoldLocks /\ UNCHANGED <<pstep, pushing, last_push, inbox_lock, sched_lock>>
       => PushesHoldLocks'
    /\ WindowIsQueued /\ UNCHANGED <<queue, last_push>> => WindowIsQueued'
    /\ PushesAreCalled /\ UNCHANGED <<pushing, firing, wpc>> => PushesAreCalled'
    /\ PassesAreGuarded /\ UNCHANGED <<guard, wpc, buf, iter>> => PassesAreGuarded'
    /\ OnePlace /\ UNCHANGED <<pending, cooling, claimed, redirtied, guard>> => OnePlace'
    /\ NoSignalLost /\ UNCHANGED <<rows, leaked, queue, pending, cooling, redirtied, buf,
                                   guard, wpc, pushing>>
       => NoSignalLost'
    /\ SomebodyDrains /\ UNCHANGED <<queue, permit, wpc>> => SomebodyDrains'
    /\ SomebodyTakes /\ UNCHANGED <<errors, cooling, pending, permit, wpc>> => SomebodyTakes'
<1>1. StoreTypes /\ UNCHANGED <<rows, leaked, queue, last_push, pending, cooling, claimed,
          redirtied, inbox_lock, sched_lock, todo, reconciling, total, leaks, faults, errors>>
      => StoreTypes'
  BY Zenon DEF StoreTypes
<1>2. ThreadTypes /\ UNCHANGED <<pushing, pstep, buf, guard, iter, idle_next, firing>>
      => ThreadTypes'
  BY Zenon DEF ThreadTypes
<1>3. NoSignalLost /\ UNCHANGED <<rows, leaked, queue, pending, cooling, redirtied, buf,
                                  guard, wpc, pushing>>
      => NoSignalLost'
  BY DEF NoSignalLost, Signalled
<1>4. OnePlace /\ UNCHANGED <<pending, cooling, claimed, redirtied, guard>> => OnePlace'
  BY DEF OnePlace
<1>5. PassesAreGuarded /\ UNCHANGED <<guard, wpc, buf, iter>> => PassesAreGuarded'
  BY DEF PassesAreGuarded
<1>6. PushesHoldLocks /\ UNCHANGED <<pstep, pushing, last_push, inbox_lock, sched_lock>>
      => PushesHoldLocks'
  BY DEF PushesHoldLocks
<1>. QED
  BY <1>1, <1>2, <1>3, <1>4, <1>5, <1>6
  DEF WakeTypes, RowsAreCounted, WindowIsQueued, PushesAreCalled, SomebodyDrains,
      SomebodyTakes

\* At first there are no rows, no calls and no claims.
LEMMA InitInv == Init => Inv
<1>. SUFFICES ASSUME Init PROVE Inv
  OBVIOUS
<1>1. StoreTypes
  <2>1. /\ rows \in [Partitions -> 0..MaxRows] /\ total \in 0..MaxRows
        /\ leaks \in 0..MaxLeaks /\ faults \in 0..MaxFaults /\ errors \in 0..MaxErrors
    BY LimitsAssumption DEF Init
  <2>2. leaked \in [Partitions -> BOOLEAN] /\ reconciling \in BOOLEAN
    BY DEF Init
  <2>. QED
    BY <2>1, <2>2 DEF Init, StoreTypes
<1>2. ThreadTypes
  BY LimitsAssumption DEF Init, ThreadTypes
<1>3. WakeTypes
  BY DEF Init, WakeTypes, Places
<1>4. RowsAreCounted /\ PushesHoldLocks /\ WindowIsQueued
  BY DEF Init, RowsAreCounted, PushesHoldLocks, WindowIsQueued
<1>5. PushesAreCalled /\ PassesAreGuarded
  BY DEF Init, PushesAreCalled, PassesAreGuarded, Threads
<1>6. OnePlace /\ NoSignalLost /\ SomebodyDrains /\ SomebodyTakes
  BY DEF Init, OnePlace, NoSignalLost, SomebodyDrains, SomebodyTakes
<1>. QED
  BY <1>1, <1>2, <1>3, <1>4, <1>5, <1>6, Types DEF Inv

\* An accepted push puts its partition into the inbox and notifies.
LEMMA PushAcceptedInv ==
    ASSUME Inv, NEW t \in Threads, PushAccepted(t)
    PROVE  Inv'
<1>. USE DEF dbVars, inboxVars, schedVars, pushVars, workerVars,
        reconcilerVars, wakeVars
<1>0. StoreTypes /\ ThreadTypes /\ WakeTypes
  BY Types DEF Inv
<1>1. /\ WakeTypes'
      /\ permit' \/ \E v \in Workers : wpc'[v] = "ready"
      /\ \A v \in Workers : \/ wpc'[v] = wpc[v]
                            \/ wpc[v] = "waiting" /\ wpc'[v] = "ready"
  BY <1>0, Notified DEF PushAccepted, WakeTypes
<1>2. RowsAreCounted' /\ WindowIsQueued' /\ OnePlace'
  <2>1. RowsAreCounted' /\ OnePlace'
    BY Frame DEF Inv, PushAccepted
  <2>2. WindowIsQueued'
    BY DEF Inv, PushAccepted, Accept, WindowIsQueued
  <2>. QED
    BY <2>1, <2>2
<1>3. StoreTypes'
  BY <1>0 DEF PushAccepted, Accept, StoreTypes, ThreadTypes
<1>4. ThreadTypes'
  BY <1>0 DEF PushAccepted, ReturnPush, ThreadTypes
<1>5. PushesHoldLocks'
  BY DEF Inv, PushAccepted, Accept, ReturnPush, PushesHoldLocks
<1>6. PushesAreCalled' /\ PassesAreGuarded'
  BY <1>1 DEF Inv, PushAccepted, ReturnPush, PushesAreCalled, PassesAreGuarded
<1>7. NoSignalLost'
  BY <1>1 DEF Inv, PushAccepted, Accept, ReturnPush, NoSignalLost, Signalled
<1>8. SomebodyDrains' /\ SomebodyTakes'
  BY <1>1 DEF Inv, PushAccepted, SomebodyDrains, SomebodyTakes
<1>. QED
  BY <1>1, <1>2, <1>3, <1>4, <1>5, <1>6, <1>7, <1>8, TypesNext DEF Inv

\* A coalesced push takes the inbox; the push it repeats is still there.
LEMMA PushCoalescedInv ==
    ASSUME Inv, NEW t \in Threads, PushCoalesced(t)
    PROVE  Inv'
<1>. USE DEF dbVars, inboxVars, schedVars, pushVars, workerVars,
        reconcilerVars, wakeVars
<1>0. StoreTypes /\ ThreadTypes /\ WakeTypes
  BY Types DEF Inv
<1>1. /\ WakeTypes' /\ RowsAreCounted' /\ WindowIsQueued' /\ PushesAreCalled'
      /\ PassesAreGuarded' /\ OnePlace' /\ NoSignalLost' /\ SomebodyDrains'
      /\ SomebodyTakes'
  BY <1>0, Frame DEF Inv, PushCoalesced
<1>2. StoreTypes'
  BY <1>0 DEF PushCoalesced, StoreTypes
<1>3. ThreadTypes'
  BY <1>0 DEF PushCoalesced, ThreadTypes
<1>4. PushesHoldLocks'
  BY ThreadsAssumption
  DEF Inv, PushCoalesced, Coalesces, InboxFree, PushesHoldLocks, Threads
<1>. QED
  BY <1>1, <1>2, <1>3, <1>4, TypesNext DEF Inv

\* With the inbox it takes the scheduler.
LEMMA PushLocksSchedulerInv ==
    ASSUME Inv, NEW t \in Threads, PushLocksScheduler(t)
    PROVE  Inv'
<1>. USE DEF dbVars, inboxVars, schedVars, pushVars, workerVars,
        reconcilerVars, wakeVars
<1>0. StoreTypes /\ ThreadTypes /\ WakeTypes
  BY Types DEF Inv
<1>1. /\ WakeTypes' /\ RowsAreCounted' /\ WindowIsQueued' /\ PushesAreCalled'
      /\ PassesAreGuarded' /\ OnePlace' /\ NoSignalLost' /\ SomebodyDrains'
      /\ SomebodyTakes'
  BY <1>0, Frame DEF Inv, PushLocksScheduler
<1>2. StoreTypes'
  BY <1>0 DEF PushLocksScheduler, StoreTypes
<1>3. ThreadTypes'
  BY <1>0 DEF PushLocksScheduler, ThreadTypes
<1>4. PushesHoldLocks'
  BY DEF Inv, PushLocksScheduler, PushesHoldLocks
<1>. QED
  BY <1>1, <1>2, <1>3, <1>4, TypesNext DEF Inv

\* A push that finds its partition claimed is accepted.
LEMMA PushForcedInv == ASSUME Inv, NEW t \in Threads, PushForced(t) PROVE Inv'
<1>. USE DEF dbVars, inboxVars, schedVars, pushVars, workerVars,
        reconcilerVars, wakeVars
<1>0. StoreTypes /\ ThreadTypes /\ WakeTypes
  BY Types DEF Inv
<1>1. /\ WakeTypes'
      /\ permit' \/ \E v \in Workers : wpc'[v] = "ready"
      /\ \A v \in Workers : \/ wpc'[v] = wpc[v]
                            \/ wpc[v] = "waiting" /\ wpc'[v] = "ready"
  BY <1>0, Notified DEF PushForced, WakeTypes
<1>2. RowsAreCounted' /\ WindowIsQueued' /\ OnePlace'
  <2>1. RowsAreCounted' /\ OnePlace'
    BY Frame DEF Inv, PushForced
  <2>2. WindowIsQueued'
    BY DEF Inv, PushForced, Accept, WindowIsQueued
  <2>. QED
    BY <2>1, <2>2
<1>3. StoreTypes'
  BY <1>0 DEF PushForced, Accept, StoreTypes
<1>4. ThreadTypes'
  BY <1>0 DEF PushForced, ReturnPush, ThreadTypes
<1>5. PushesHoldLocks'
  BY <1>0 DEF Inv, PushForced, ReturnPush, PushesHoldLocks, ThreadTypes
<1>6. PushesAreCalled' /\ PassesAreGuarded'
  BY <1>1 DEF Inv, PushForced, ReturnPush, PushesAreCalled, PassesAreGuarded
<1>7. NoSignalLost'
  BY <1>1 DEF Inv, PushForced, Accept, ReturnPush, NoSignalLost, Signalled
<1>8. SomebodyDrains' /\ SomebodyTakes'
  BY <1>1 DEF Inv, PushForced, SomebodyDrains, SomebodyTakes
<1>. QED
  BY <1>1, <1>2, <1>3, <1>4, <1>5, <1>6, <1>7, <1>8, TypesNext DEF Inv

\* A push that is suppressed repeats one that is still in the inbox.
LEMMA PushSuppressedInv ==
    ASSUME Inv, NEW t \in Threads, PushSuppressed(t)
    PROVE  Inv'
<1>. USE DEF dbVars, inboxVars, schedVars, pushVars, workerVars,
        reconcilerVars, wakeVars
<1>0. StoreTypes /\ ThreadTypes /\ WakeTypes
  BY Types DEF Inv
<1>1. /\ WakeTypes' /\ RowsAreCounted' /\ WindowIsQueued' /\ OnePlace'
      /\ SomebodyDrains' /\ SomebodyTakes'
  BY <1>0, Frame DEF Inv, PushSuppressed
<1>2. StoreTypes'
  BY <1>0 DEF PushSuppressed, StoreTypes
<1>3. ThreadTypes'
  BY <1>0 DEF PushSuppressed, ReturnPush, ThreadTypes
<1>4. PushesHoldLocks'
  BY <1>0 DEF Inv, PushSuppressed, ReturnPush, PushesHoldLocks, ThreadTypes
<1>5. PushesAreCalled' /\ PassesAreGuarded'
  BY DEF Inv, PushSuppressed, ReturnPush, PushesAreCalled, PassesAreGuarded
<1>6. NoSignalLost'
  BY DEF Inv, PushSuppressed, ReturnPush, NoSignalLost, Signalled, WindowIsQueued,
     PushesHoldLocks
<1>. QED
  BY <1>1, <1>2, <1>3, <1>4, <1>5, <1>6, TypesNext DEF Inv

\* A committed row is announced by the push its Wake begins.
LEMMA CommitInv ==
    ASSUME Inv, NEW p \in Producers, NEW k \in Partitions, Commit(p, k)
    PROVE  Inv'
<1>. USE DEF dbVars, inboxVars, schedVars, pushVars, workerVars,
        reconcilerVars, wakeVars
<1>0. StoreTypes /\ ThreadTypes /\ WakeTypes
  BY Types DEF Inv
<1>1. /\ WakeTypes' /\ WindowIsQueued' /\ PassesAreGuarded' /\ OnePlace'
      /\ SomebodyDrains' /\ SomebodyTakes'
  BY <1>0, Frame DEF Inv, Commit
<1>2. StoreTypes'
  <2>1. rows' \in [Partitions -> 0..MaxRows] /\ total' \in 0..MaxRows
    BY <1>0, LimitsAssumption DEF Inv, Commit, RowsAreCounted, StoreTypes
  <2>. QED
    BY <1>0, <2>1, Zenon DEF Commit, StoreTypes
<1>3. ThreadTypes'
  BY <1>0 DEF Commit, CallPush, ThreadTypes
<1>4. RowsAreCounted'
  BY <1>0 DEF Inv, Commit, RowsAreCounted, StoreTypes
<1>5. PushesHoldLocks'
  <2>1. pstep[p] = "start"
    BY <1>0, ThreadsAssumption
    DEF Inv, Commit, PushesHoldLocks, PushesAreCalled, StoreTypes, Threads
  <2>. QED
    BY <2>1 DEF Inv, Commit, CallPush, PushesHoldLocks
<1>6. PushesAreCalled'
  BY <1>0, ThreadsAssumption DEF Inv, Commit, CallPush, PushesAreCalled, ThreadTypes
<1>7. NoSignalLost'
  BY <1>0, ThreadsAssumption
  DEF Inv, Commit, CallPush, NoSignalLost, Signalled, PushesAreCalled, ThreadTypes,
      Threads
<1>. QED
  BY <1>1, <1>2, <1>3, <1>4, <1>5, <1>6, <1>7, TypesNext DEF Inv

\* The end of fire only notifies.
LEMMA FireEndsInv == ASSUME Inv, NEW p \in Producers, FireEnds(p) PROVE Inv'
<1>. USE DEF dbVars, inboxVars, schedVars, pushVars, workerVars,
        reconcilerVars, wakeVars
<1>0. StoreTypes /\ ThreadTypes /\ WakeTypes
  BY Types DEF Inv
<1>1. /\ WakeTypes'
      /\ permit' \/ \E v \in Workers : wpc'[v] = "ready"
      /\ \A v \in Workers : \/ wpc'[v] = wpc[v]
                            \/ wpc[v] = "waiting" /\ wpc'[v] = "ready"
  BY <1>0, Notified DEF FireEnds, WakeTypes
<1>2. /\ StoreTypes' /\ RowsAreCounted' /\ WindowIsQueued' /\ PushesHoldLocks'
      /\ OnePlace' /\ NoSignalLost'
  <2>1. StoreTypes' /\ RowsAreCounted' /\ WindowIsQueued' /\ PushesHoldLocks' /\ OnePlace'
    BY <1>0, Frame DEF Inv, FireEnds
  <2>2. NoSignalLost'
    BY <1>1 DEF Inv, FireEnds, NoSignalLost, Signalled
  <2>. QED
    BY <2>1, <2>2
<1>3. ThreadTypes'
  BY <1>0 DEF FireEnds, ThreadTypes
<1>4. PushesAreCalled'
  BY <1>1 DEF Inv, FireEnds, PushesAreCalled
<1>5. PassesAreGuarded' /\ SomebodyDrains' /\ SomebodyTakes'
  BY <1>1 DEF Inv, FireEnds, PassesAreGuarded, SomebodyDrains, SomebodyTakes
<1>. QED
  BY <1>1, <1>2, <1>3, <1>4, <1>5, TypesNext DEF Inv

\* A row nobody announces is a leaked one.
LEMMA CommitUnannouncedInv ==
    ASSUME Inv, NEW k \in Partitions, CommitUnannounced(k)
    PROVE  Inv'
<1>. USE DEF dbVars, inboxVars, schedVars, pushVars, workerVars,
        reconcilerVars, wakeVars
<1>0. StoreTypes /\ ThreadTypes /\ WakeTypes
  BY Types DEF Inv
<1>1. /\ ThreadTypes' /\ WakeTypes' /\ WindowIsQueued' /\ PushesHoldLocks'
      /\ PushesAreCalled' /\ PassesAreGuarded' /\ OnePlace' /\ SomebodyDrains'
      /\ SomebodyTakes'
  BY <1>0, Frame DEF Inv, CommitUnannounced
<1>2. StoreTypes'
  <2>1. /\ rows' \in [Partitions -> 0..MaxRows] /\ total' \in 0..MaxRows
        /\ leaks' \in 0..MaxLeaks
    BY <1>0, LimitsAssumption DEF Inv, CommitUnannounced, RowsAreCounted, StoreTypes
  <2>2. leaked' \in [Partitions -> BOOLEAN]
    BY <1>0 DEF CommitUnannounced, StoreTypes
  <2>. QED
    BY <1>0, <2>1, <2>2, Zenon DEF CommitUnannounced, StoreTypes
<1>3. RowsAreCounted'
  BY <1>0 DEF Inv, CommitUnannounced, RowsAreCounted, StoreTypes
<1>4. NoSignalLost'
  BY <1>0 DEF Inv, CommitUnannounced, NoSignalLost, Signalled, StoreTypes
<1>. QED
  BY <1>1, <1>2, <1>3, <1>4, TypesNext DEF Inv

\* The end of a cooldown moves its partition; there is none without an error.
LEMMA CooldownEndsInv ==
    ASSUME Inv, NEW k \in Partitions, CooldownEnds(k)
    PROVE  Inv'
<1>. USE DEF dbVars, inboxVars, schedVars, pushVars, workerVars,
        reconcilerVars, wakeVars
<1>0. StoreTypes /\ ThreadTypes /\ WakeTypes
  BY Types DEF Inv
<1>1. /\ ThreadTypes' /\ WakeTypes' /\ RowsAreCounted' /\ WindowIsQueued'
      /\ PushesHoldLocks' /\ PushesAreCalled' /\ PassesAreGuarded'
  BY <1>0, Frame DEF Inv, CooldownEnds
<1>2. StoreTypes'
  BY <1>0 DEF CooldownEnds, StoreTypes
<1>3. OnePlace'
  BY DEF Inv, CooldownEnds, OnePlace
<1>4. NoSignalLost'
  BY DEF Inv, CooldownEnds, NoSignalLost, Signalled
<1>5. SomebodyDrains' /\ SomebodyTakes'
  BY DEF Inv, CooldownEnds, SomebodyDrains, SomebodyTakes
<1>. QED
  BY <1>1, <1>2, <1>3, <1>4, <1>5, TypesNext DEF Inv

\* The reconciler only adds pushes and notifications.
LEMMA ReconcileBeginsInv == ASSUME Inv, ReconcileBegins PROVE Inv'
<1>. USE DEF dbVars, inboxVars, schedVars, pushVars, workerVars,
        reconcilerVars, wakeVars
<1>0. StoreTypes /\ ThreadTypes /\ WakeTypes
  BY Types DEF Inv
<1>1. /\ ThreadTypes' /\ WakeTypes' /\ RowsAreCounted' /\ WindowIsQueued'
      /\ PushesHoldLocks' /\ PushesAreCalled' /\ PassesAreGuarded' /\ OnePlace'
      /\ NoSignalLost' /\ SomebodyDrains' /\ SomebodyTakes'
  BY <1>0, Frame DEF Inv, ReconcileBegins
<1>2. StoreTypes'
  BY <1>0 DEF ReconcileBegins, StoreTypes
<1>. QED
  BY <1>1, <1>2, TypesNext DEF Inv

\* It pushes one partition at a time.
LEMMA ReconcilePushesInv == ASSUME Inv, ReconcilePushes PROVE Inv'
<1>. USE DEF dbVars, inboxVars, schedVars, pushVars, workerVars,
        reconcilerVars, wakeVars
<1>0. StoreTypes /\ ThreadTypes /\ WakeTypes
  BY Types DEF Inv
<1>1. /\ WakeTypes' /\ RowsAreCounted' /\ WindowIsQueued' /\ PassesAreGuarded'
      /\ OnePlace' /\ SomebodyDrains' /\ SomebodyTakes'
  BY <1>0, Frame DEF Inv, ReconcilePushes
<1>2. StoreTypes'
  BY <1>0 DEF ReconcilePushes, StoreTypes
<1>3. ThreadTypes'
  BY <1>0 DEF ReconcilePushes, CallPush, ThreadTypes, StoreTypes
<1>4. PushesHoldLocks'
  BY <1>0, ThreadsAssumption
  DEF Inv, ReconcilePushes, CallPush, PushesHoldLocks, StoreTypes
<1>5. PushesAreCalled'
  BY ThreadsAssumption DEF Inv, ReconcilePushes, CallPush, PushesAreCalled
<1>6. NoSignalLost'
  BY ThreadsAssumption DEF Inv, ReconcilePushes, CallPush, NoSignalLost, Signalled
<1>. QED
  BY <1>1, <1>2, <1>3, <1>4, <1>5, <1>6, TypesNext DEF Inv

\* It notifies when it is done.
LEMMA ReconcileEndsInv == ASSUME Inv, ReconcileEnds PROVE Inv'
<1>. USE DEF dbVars, inboxVars, schedVars, pushVars, workerVars,
        reconcilerVars, wakeVars
<1>0. StoreTypes /\ ThreadTypes /\ WakeTypes
  BY Types DEF Inv
<1>1. /\ WakeTypes'
      /\ permit' \/ \E v \in Workers : wpc'[v] = "ready"
      /\ \A v \in Workers : \/ wpc'[v] = wpc[v]
                            \/ wpc[v] = "waiting" /\ wpc'[v] = "ready"
  BY <1>0, Notified DEF ReconcileEnds, WakeTypes
<1>2. /\ ThreadTypes' /\ RowsAreCounted' /\ WindowIsQueued' /\ PushesHoldLocks'
      /\ OnePlace' /\ NoSignalLost'
  <2>1. ThreadTypes' /\ RowsAreCounted' /\ WindowIsQueued' /\ PushesHoldLocks' /\ OnePlace'
    BY <1>0, Frame DEF Inv, ReconcileEnds
  <2>2. NoSignalLost'
    BY <1>1 DEF Inv, ReconcileEnds, NoSignalLost, Signalled
  <2>. QED
    BY <2>1, <2>2
<1>3. StoreTypes'
  BY <1>0 DEF ReconcileEnds, StoreTypes
<1>4. PushesAreCalled' /\ PassesAreGuarded'
  BY <1>1 DEF Inv, ReconcileEnds, PushesAreCalled, PassesAreGuarded
<1>5. SomebodyDrains' /\ SomebodyTakes'
  BY <1>1 DEF Inv, ReconcileEnds, SomebodyDrains, SomebodyTakes
<1>. QED
  BY <1>1, <1>2, <1>3, <1>4, <1>5, TypesNext DEF Inv

\* A worker goes to sleep only if it finds no permit, and then another one is up.
LEMMA WaitInv == ASSUME Inv, NEW w \in Workers, Wait(w) PROVE Inv'
<1>. USE DEF dbVars, inboxVars, schedVars, pushVars, workerVars,
        reconcilerVars, wakeVars
<1>0. StoreTypes /\ ThreadTypes /\ WakeTypes
  BY Types DEF Inv
<1>1. /\ StoreTypes' /\ ThreadTypes' /\ RowsAreCounted' /\ WindowIsQueued'
      /\ PushesHoldLocks' /\ OnePlace'
  BY <1>0, Frame DEF Inv, Wait
<1>2. WakeTypes'
  BY <1>0 DEF Wait, WakeTypes, Places
<1>3. PushesAreCalled' /\ PassesAreGuarded'
  BY DEF Inv, Wait, PushesAreCalled, PassesAreGuarded
<1>4. NoSignalLost'
  BY DEF Inv, Wait, NoSignalLost, Signalled
<1>5. SomebodyDrains' /\ SomebodyTakes'
  BY <1>0 DEF Inv, Wait, SomebodyDrains, SomebodyTakes, WakeTypes
<1>. QED
  BY <1>1, <1>2, <1>3, <1>4, <1>5, TypesNext DEF Inv

\* Phase 1 of take() moves the inbox to the buffer.
LEMMA DrainInv == ASSUME Inv, NEW w \in Workers, Drain(w) PROVE Inv'
<1>. USE DEF dbVars, inboxVars, schedVars, pushVars, workerVars,
        reconcilerVars, wakeVars
<1>0. StoreTypes /\ ThreadTypes /\ WakeTypes
  BY Types DEF Inv
<1>1. RowsAreCounted' /\ WindowIsQueued' /\ OnePlace'
  <2>1. RowsAreCounted' /\ OnePlace'
    BY Frame DEF Inv, Drain
  <2>2. WindowIsQueued'
    BY DEF Inv, Drain, WindowIsQueued
  <2>. QED
    BY <2>1, <2>2
<1>2. StoreTypes'
  BY <1>0 DEF Drain, StoreTypes
<1>3. ThreadTypes'
  BY <1>0 DEF Drain, ThreadTypes, StoreTypes
<1>4. WakeTypes'
  BY <1>0 DEF Drain, WakeTypes, Places
<1>5. PushesHoldLocks'
  BY ThreadsAssumption DEF Inv, Drain, InboxFree, PushesHoldLocks, Threads
<1>6. PushesAreCalled' /\ PassesAreGuarded'
  BY <1>0 DEF Inv, Drain, PushesAreCalled, PassesAreGuarded, WakeTypes
<1>7. NoSignalLost'
  BY <1>0 DEF Inv, Drain, NoSignalLost, Signalled, PassesAreGuarded, ThreadTypes
<1>8. SomebodyDrains' /\ SomebodyTakes'
  BY DEF Inv, Drain, SomebodyDrains, SomebodyTakes
<1>. QED
  BY <1>1, <1>2, <1>3, <1>4, <1>5, <1>6, <1>7, <1>8, TypesNext DEF Inv

\* Phase 2 absorbs the buffer, takes one partition and tells of the others.
LEMMA TakeOneInv ==
    ASSUME Inv, NEW w \in Workers, NEW k \in Partitions, TakeOne(w, k)
    PROVE  Inv'
<1>. DEFINE pcs == [wpc EXCEPT ![w] = "pass"]
            due == pending \cup Fresh(buf[w])
<1>. USE DEF dbVars, inboxVars, schedVars, pushVars, workerVars,
        reconcilerVars, wakeVars
<1>0. StoreTypes /\ ThreadTypes /\ WakeTypes
  BY Types DEF Inv
<1>1. /\ WakeTypes'
      /\ due \ {k} # {} => permit' \/ \E v \in Workers : wpc'[v] = "ready"
      /\ due \ {k} = {} => wpc' = pcs /\ permit' = permit
      /\ \A v \in Workers : \/ wpc'[v] = pcs[v]
                            \/ pcs[v] = "waiting" /\ wpc'[v] = "ready"
  <2>1. pcs \in [Workers -> Places]
    BY <1>0 DEF WakeTypes, Places
  <2>2. CASE due \ {k} # {}
    <3>1. NotifyOne(pcs)
      BY <2>2 DEF TakeOne
    <3>. QED
      BY <1>0, <2>1, <2>2, <3>1, Notified DEF WakeTypes
  <2>3. CASE due \ {k} = {}
    <3>1. wpc' = pcs /\ permit' = permit
      BY <2>3 DEF TakeOne
    <3>. QED
      BY <1>0, <2>1, <2>3, <3>1 DEF WakeTypes
  <2>. QED
    BY <2>2, <2>3
<1>2. /\ wpc[w] = "absorb" /\ guard[w] = None /\ k \in due /\ k \notin claimed
      /\ pending' = due \ {k} /\ claimed' = claimed \cup {k} /\ cooling' = cooling
      /\ redirtied' = redirtied \cup Redirties(buf[w])
      /\ buf' = [buf EXCEPT ![w] = {}] /\ guard' = [guard EXCEPT ![w] = k]
  BY DEF Inv, TakeOne, Fresh, OnePlace, PassesAreGuarded
<1>. HIDE DEF pcs
<1>3. \A v \in Workers : /\ v # w => pcs[v] = wpc[v]
                         /\ pcs[w] = "pass"
  BY <1>0 DEF pcs, WakeTypes
<1>4. RowsAreCounted' /\ WindowIsQueued' /\ PushesHoldLocks'
  BY Frame DEF Inv, TakeOne
<1>5. StoreTypes'
  <2>1. /\ pending' \subseteq Partitions
        /\ claimed' \subseteq Partitions /\ redirtied' \subseteq Partitions
    BY <1>0, <1>2 DEF StoreTypes, ThreadTypes, Fresh, Redirties
  <2>. QED
    BY <1>0, <2>1, Zenon DEF TakeOne, StoreTypes
<1>6. ThreadTypes'
  BY <1>0, LimitsAssumption DEF TakeOne, ThreadTypes
<1>7. PushesAreCalled'
  <2>1. pushing' = pushing /\ firing' = firing
    BY DEF TakeOne
  <2>. QED
    BY <1>0, <1>1, <1>2, <1>3, <2>1 DEF Inv, PushesAreCalled, WakeTypes
<1>8. PassesAreGuarded'
  <2>1. iter' = [iter EXCEPT ![w] = 0]
    BY DEF TakeOne
  <2>. QED
    BY <1>0, <1>1, <1>2, <1>3, <2>1, LimitsAssumption, ThreadsAssumption
    DEF Inv, PassesAreGuarded, ThreadTypes, WakeTypes
<1>9. OnePlace'
  <2>1. /\ /\ pending' \cap cooling' = {}
        /\ (pending' \cup cooling') \cap claimed' = {}
        /\ redirtied' \subseteq claimed'
    BY <1>2 DEF Inv, OnePlace, Fresh, Redirties
  <2>2. claimed' = {guard'[v] : v \in Workers} \ {None}
    BY <1>0, <1>2, ThreadsAssumption DEF Inv, OnePlace, ThreadTypes
  <2>3. \A u, v \in Workers : u # v /\ guard'[u] = guard'[v] => guard'[u] = None
    BY <1>0, <1>2, ThreadsAssumption DEF Inv, OnePlace, ThreadTypes
  <2>. QED
    BY <2>1, <2>2, <2>3 DEF OnePlace
<1>10. NoSignalLost'
  <2>. SUFFICES ASSUME NEW j \in Partitions, rows'[j] > 0, ~leaked'[j]
                PROVE  Signalled(j)'
    BY DEF NoSignalLost
  <2>1. /\ rows' = rows /\ leaked' = leaked /\ queue' = queue /\ pushing' = pushing
    BY DEF TakeOne
  <2>2. Signalled(j)
    BY <2>1 DEF Inv, NoSignalLost
  <2>3. CASE j \in queue \cup cooling \cup redirtied \/ \E t \in Threads : pushing[t] = j
    BY <1>2, <2>1, <2>3 DEF Signalled
  <2>4. CASE j = k
    BY <1>0, <1>1, <1>2, <1>3, <2>4 DEF Signalled, ThreadTypes
  <2>5. CASE j # k /\ (j \in pending \/ j \in buf[w])
    BY <1>2, <2>5, Zenon DEF Signalled, Fresh, Redirties
  <2>6. CASE \E v \in Workers : v # w /\ j \in buf[v]
    BY <1>0, <1>2, <2>6 DEF Signalled, ThreadTypes
  <2>7. CASE \E v \in Workers : guard[v] = j /\ wpc[v] \in {"pass", "undrained"}
    BY <1>0, <1>1, <1>2, <1>3, <2>7 DEF Signalled, ThreadTypes
  <2>. QED
    BY <2>2, <2>3, <2>4, <2>5, <2>6, <2>7, Zenon DEF Signalled
<1>11. SomebodyDrains'
  <2>1. queue' = queue
    BY DEF TakeOne
  <2>. QED
    BY <1>1, <1>2, <1>3, <2>1 DEF Inv, SomebodyDrains
<1>12. SomebodyTakes'
  <2>1. errors' = errors
    BY DEF TakeOne
  <2>. QED
    BY <1>1, <1>2, <2>1 DEF Inv, SomebodyTakes
<1>. QED
  BY <1>1, <1>4, <1>5, <1>6, <1>7, <1>8, <1>9, <1>10, <1>11, <1>12, TypesNext DEF Inv

\* Phase 2 with nothing due: the buffer held only claimed or cooling partitions.
LEMMA TakeNoneInv == ASSUME Inv, NEW w \in Workers, TakeNone(w) PROVE Inv'
<1>. USE DEF dbVars, inboxVars, schedVars, pushVars, workerVars,
        reconcilerVars, wakeVars
<1>0. StoreTypes /\ ThreadTypes /\ WakeTypes
  BY Types DEF Inv
<1>1. RowsAreCounted' /\ WindowIsQueued' /\ PushesHoldLocks'
  BY <1>0, Frame DEF Inv, TakeNone
<1>2. StoreTypes'
  BY <1>0 DEF TakeNone, Redirties, StoreTypes
<1>3. ThreadTypes'
  BY <1>0 DEF TakeNone, ThreadTypes
<1>4. WakeTypes'
  BY <1>0 DEF TakeNone, WakeTypes, Places
<1>5. PushesAreCalled' /\ PassesAreGuarded'
  BY <1>0 DEF Inv, TakeNone, PushesAreCalled, PassesAreGuarded, ThreadTypes
<1>6. OnePlace'
  BY DEF Inv, TakeNone, Redirties, OnePlace
<1>7. NoSignalLost'
  BY DEF Inv, TakeNone, Fresh, Redirties, NoSignalLost, Signalled
<1>8. SomebodyDrains' /\ SomebodyTakes'
  BY DEF Inv, TakeNone, SomebodyDrains, SomebodyTakes
<1>. QED
  BY <1>1, <1>2, <1>3, <1>4, <1>5, <1>6, <1>7, <1>8, TypesNext DEF Inv

\* An iteration that takes fewer rows than a batch leaves none.
LEMMA IterateInv == ASSUME Inv, NEW w \in Workers, Iterate(w) PROVE Inv'
<1>. USE DEF dbVars, inboxVars, schedVars, pushVars, workerVars,
        reconcilerVars, wakeVars
<1>0. StoreTypes /\ ThreadTypes /\ WakeTypes
  BY Types DEF Inv
<1>1. WindowIsQueued' /\ PushesHoldLocks' /\ OnePlace'
  BY <1>0, Frame DEF Inv, Iterate
<1>2. StoreTypes'
  <2>1. guard[w] \in Partitions
    BY <1>0 DEF Inv, Iterate, PassesAreGuarded, ThreadTypes
  <2>2. rows' \in [Partitions -> 0..MaxRows]
    BY <1>0, <2>1, LimitsAssumption DEF Iterate, Claimable, StoreTypes
  <2>3. leaked' \in [Partitions -> BOOLEAN]
    BY <1>0, <2>1, Zenon DEF Iterate, StoreTypes
  <2>. QED
    BY <1>0, <2>2, <2>3, Zenon DEF Iterate, StoreTypes
<1>3. ThreadTypes'
  <2>1. iter' \in [Workers -> 0..Inner]
    BY <1>0, LimitsAssumption DEF Inv, Iterate, PassesAreGuarded, ThreadTypes
  <2>2. idle_next' \in [Workers -> BOOLEAN]
    BY <1>0 DEF Iterate, ThreadTypes
  <2>. QED
    BY <1>0, <2>1, <2>2, Zenon DEF Iterate, ThreadTypes
<1>4. WakeTypes'
  BY <1>0 DEF Iterate, AfterIteration, WakeTypes, Places
<1>5. RowsAreCounted'
  BY <1>0, LimitsAssumption DEF Inv, Iterate, Claimable, RowsAreCounted, StoreTypes
<1>6. PushesAreCalled'
  BY DEF Inv, Iterate, PushesAreCalled
<1>7. PassesAreGuarded'
  BY <1>0, LimitsAssumption, ThreadsAssumption
  DEF Inv, Iterate, AfterIteration, Claimable, PassesAreGuarded, Places,
      StoreTypes, ThreadTypes, WakeTypes, Threads
<1>8. NoSignalLost'
  <2>. DEFINE k == guard[w]
  <2>. SUFFICES ASSUME NEW j \in Partitions, rows'[j] > 0, ~leaked'[j]
                PROVE  Signalled(j)'
    BY DEF NoSignalLost
  <2>1. /\ k \in Partitions /\ wpc[w] = "pass" /\ rows[k] > 0
        /\ rows' = [rows EXCEPT ![k] = rows[k] - Claimable(k)]
        /\ wpc' = [wpc EXCEPT ![w] = AfterIteration(w)]
        /\ queue' = queue /\ pending' = pending /\ cooling' = cooling
        /\ redirtied' = redirtied /\ buf' = buf /\ guard' = guard /\ pushing' = pushing
    BY <1>0 DEF Inv, Iterate, PassesAreGuarded, ThreadTypes
  <2>2. rows[j] > 0 /\ ~leaked[j]
    <3>1. CASE j # k
      BY <1>0, <2>1, <3>1 DEF Iterate, StoreTypes
    <3>2. CASE j = k
      <4>1. leaked'[j] = (leaked[j] /\ rows[k] - Claimable(k) > 0)
        BY <1>0, <2>1, <3>2 DEF Iterate, StoreTypes
      <4>2. rows'[j] = rows[k] - Claimable(k)
        BY <1>0, <2>1, <3>2 DEF StoreTypes
      <4>. QED
        BY <2>1, <3>2, <4>1, <4>2
    <3>. QED
      BY <3>1, <3>2
  <2>3. Signalled(j)
    BY <2>2 DEF Inv, NoSignalLost
  <2>4. CASE \/ j \in queue \cup pending \cup cooling \cup redirtied
             \/ \E v \in Workers : j \in buf[v]
             \/ \E t \in Threads : pushing[t] = j
    BY <2>1, <2>4 DEF Signalled
  <2>5. CASE j = k
    <3>1. rows[k] - Claimable(k) > 0
      BY <1>0, <2>1, <2>5 DEF StoreTypes
    <3>2. AfterIteration(w) \in {"pass", "undrained"}
      BY <1>0, <2>1, <3>1, LimitsAssumption DEF AfterIteration, Claimable, StoreTypes
    <3>. QED
      BY <1>0, <2>1, <2>5, <3>2 DEF Signalled, WakeTypes
  <2>6. CASE \E v \in Workers : v # w /\ guard[v] = j /\ wpc[v] \in {"pass", "undrained"}
    BY <1>0, <2>1, <2>6 DEF Signalled, WakeTypes
  <2>. QED
    BY <2>3, <2>4, <2>5, <2>6 DEF Signalled
<1>9. SomebodyDrains' /\ SomebodyTakes'
  BY DEF Inv, Iterate, SomebodyDrains, SomebodyTakes
<1>. QED
  BY <1>1, <1>2, <1>3, <1>4, <1>5, <1>6, <1>7, <1>8, <1>9, TypesNext DEF Inv

\* An empty partition is drained.
LEMMA FindsNothingInv ==
    ASSUME Inv, NEW w \in Workers, FindsNothing(w)
    PROVE  Inv'
<1>. USE DEF dbVars, inboxVars, schedVars, pushVars, workerVars,
        reconcilerVars, wakeVars
<1>0. StoreTypes /\ ThreadTypes /\ WakeTypes
  BY Types DEF Inv
<1>1. /\ StoreTypes' /\ ThreadTypes' /\ RowsAreCounted' /\ WindowIsQueued'
      /\ PushesHoldLocks' /\ OnePlace'
  BY <1>0, Frame DEF Inv, FindsNothing
<1>2. WakeTypes'
  BY <1>0 DEF FindsNothing, WakeTypes, Places
<1>3. PushesAreCalled' /\ PassesAreGuarded'
  BY DEF Inv, FindsNothing, PushesAreCalled, PassesAreGuarded
<1>4. NoSignalLost'
  BY DEF Inv, FindsNothing, NoSignalLost, Signalled
<1>5. SomebodyDrains' /\ SomebodyTakes'
  BY DEF Inv, FindsNothing, SomebodyDrains, SomebodyTakes
<1>. QED
  BY <1>1, <1>2, <1>3, <1>4, <1>5, TypesNext DEF Inv

\* A finished pass hands a re-dirtied partition back, and pushes a saturated one.
LEMMA ProcessedInv == ASSUME Inv, NEW w \in Workers, Processed(w) PROVE Inv'
<1>. DEFINE k == guard[w]
            pcs == [wpc EXCEPT ![w] = IF wpc[w] = "undrained" THEN "push"
                                      ELSE IF idle_next[w] THEN "idle" ELSE "ready"]
<1>. USE DEF dbVars, inboxVars, schedVars, pushVars, workerVars,
        reconcilerVars, wakeVars
<1>0. StoreTypes /\ ThreadTypes /\ WakeTypes
  BY Types DEF Inv
<1>1. /\ WakeTypes'
      /\ pending' # {} => permit' \/ \E v \in Workers : wpc'[v] = "ready"
      /\ pending' = {} => wpc' = pcs /\ permit' = permit
      /\ \A v \in Workers : \/ wpc'[v] = pcs[v]
                            \/ pcs[v] = "waiting" /\ wpc'[v] = "ready"
  <2>1. pcs \in [Workers -> Places]
    BY <1>0 DEF WakeTypes, Places
  <2>2. pending' = Reinserted(k)
    BY DEF Processed
  <2>3. CASE Reinserted(k) # {}
    <3>1. NotifyOne(pcs)
      BY <2>3 DEF Processed
    <3>. QED
      BY <1>0, <2>1, <2>2, <2>3, <3>1, Notified DEF WakeTypes
  <2>4. CASE Reinserted(k) = {}
    <3>1. wpc' = pcs /\ permit' = permit
      BY <2>4 DEF Processed
    <3>. QED
      BY <1>0, <2>1, <2>2, <2>4, <3>1 DEF WakeTypes
  <2>. QED
    BY <2>3, <2>4
<1>2. /\ wpc[w] \in {"drained", "undrained"} /\ pushing[w] = None
      /\ k \in Partitions /\ k \in claimed
      /\ pending' = IF k \in redirtied THEN pending \cup {k} ELSE pending
      /\ claimed' = claimed \ {k} /\ redirtied' = redirtied \ {k} /\ cooling' = cooling
      /\ guard' = [guard EXCEPT ![w] = None]
      /\ pushing' = IF wpc[w] = "undrained" THEN [pushing EXCEPT ![w] = k] ELSE pushing
  <2>1. wpc[w] \in {"drained", "undrained"} /\ k \in Partitions /\ pushing[w] = None
    BY <1>0 DEF Inv, Processed, PassesAreGuarded, PushesAreCalled, ThreadTypes
  <2>2. k \in claimed
    BY <2>1, ThreadsAssumption DEF Inv, OnePlace
  <2>. QED
    BY <2>1, <2>2 DEF Processed, Reinserted, Unclaim, DropGuard, CallPush
<1>3. /\ pcs[w] = IF wpc[w] = "undrained" THEN "push"
                  ELSE IF idle_next[w] THEN "idle" ELSE "ready"
      /\ \A v \in Workers : v # w => pcs[v] = wpc[v]
  BY <1>0 DEF WakeTypes
<1>. HIDE DEF pcs
<1>4. RowsAreCounted' /\ WindowIsQueued'
  BY Frame DEF Inv, Processed
<1>5. StoreTypes'
  <2>1. /\ pending' \subseteq Partitions /\ claimed' \subseteq Partitions
        /\ redirtied' \subseteq Partitions
    BY <1>0, <1>2 DEF StoreTypes
  <2>. QED
    BY <1>0, <1>2, <2>1, Zenon DEF Processed, StoreTypes
<1>6. ThreadTypes'
  <2>1. /\ pushing' \in [Threads -> Partitions \cup {None}]
        /\ guard' \in [Workers -> Partitions \cup {None}]
    BY <1>0, <1>2 DEF ThreadTypes, Threads
  <2>. QED
    BY <1>0, <2>1, Zenon DEF Processed, ThreadTypes
<1>7. PushesHoldLocks'
  <2>1. /\ pstep' = pstep /\ last_push' = last_push
        /\ inbox_lock' = inbox_lock /\ sched_lock' = sched_lock
    BY DEF Processed
  <2>2. pstep[w] = "start"
    BY <1>0, <1>2, ThreadsAssumption DEF Inv, PushesHoldLocks, StoreTypes, Threads
  <2>. QED
    BY <1>0, <1>2, <2>1, <2>2 DEF Inv, PushesHoldLocks, ThreadTypes, Threads
<1>8. PushesAreCalled'
  <2>1. firing' = firing
    BY DEF Processed
  <2>. QED
    BY <1>0, <1>1, <1>2, <1>3, <2>1, ThreadsAssumption
    DEF Inv, PushesAreCalled, ThreadTypes, Threads
<1>9. PassesAreGuarded'
  <2>1. buf' = buf /\ iter' = iter
    BY DEF Processed
  <2>2. pcs[w] \in {"push", "idle", "ready"}
    BY <1>3
  <2>3. ASSUME NEW v \in Workers, v # w
        PROVE  wpc'[v] = wpc[v] \/ (wpc[v] = "waiting" /\ wpc'[v] = "ready")
    BY <1>1, <1>3, <2>3
  <2>4. wpc'[w] \in {"push", "idle", "ready"}
    BY <1>1, <2>2
  <2>. QED
    BY <1>0, <1>2, <2>1, <2>3, <2>4 DEF Inv, PassesAreGuarded, ThreadTypes
<1>10. OnePlace'
  <2>1. /\ /\ pending' \cap cooling' = {}
        /\ (pending' \cup cooling') \cap claimed' = {}
        /\ redirtied' \subseteq claimed'
    BY <1>2 DEF Inv, OnePlace
  <2>2. claimed' = {guard'[v] : v \in Workers} \ {None}
    BY <1>0, <1>2, ThreadsAssumption DEF Inv, OnePlace, ThreadTypes
  <2>3. \A u, v \in Workers : u # v /\ guard'[u] = guard'[v] => guard'[u] = None
    BY <1>0, <1>2, ThreadsAssumption DEF Inv, OnePlace, ThreadTypes
  <2>. QED
    BY <2>1, <2>2, <2>3 DEF OnePlace
<1>11. NoSignalLost'
  <2>. SUFFICES ASSUME NEW j \in Partitions, rows'[j] > 0, ~leaked'[j]
                PROVE  Signalled(j)'
    BY DEF NoSignalLost
  <2>1. /\ rows' = rows /\ leaked' = leaked /\ queue' = queue /\ buf' = buf
    BY DEF Processed
  <2>2. Signalled(j)
    BY <2>1 DEF Inv, NoSignalLost
  <2>3. CASE \/ j \in queue \cup pending \cup cooling \cup redirtied
             \/ \E v \in Workers : j \in buf[v]
    BY <1>2, <2>1, <2>3 DEF Signalled
  <2>4. CASE \E t \in Threads : pushing[t] = j
    BY <1>0, <1>2, <2>4, ThreadsAssumption DEF Signalled, ThreadTypes, Threads
  <2>5. CASE j = k /\ wpc[w] = "undrained"
    <3>1. w \in Threads /\ pushing'[w] = j
      BY <1>0, <1>2, <2>5 DEF ThreadTypes, Threads
    <3>. QED
      BY <3>1 DEF Signalled
  <2>6. CASE \E v \in Workers : v # w /\ guard[v] = j /\ wpc[v] \in {"pass", "undrained"}
    BY <1>0, <1>1, <1>2, <1>3, <2>6 DEF Signalled, ThreadTypes
  <2>. QED
    BY <1>2, <2>2, <2>3, <2>4, <2>5, <2>6 DEF Signalled
<1>12. SomebodyDrains'
  <2>1. queue' = queue
    BY DEF Processed
  <2>. QED
    BY <1>1, <1>2, <1>3, <2>1 DEF Inv, SomebodyDrains
<1>13. SomebodyTakes'
  <2>1. errors' = errors
    BY DEF Processed
  <2>. QED
    BY <1>1, <1>2, <2>1 DEF Inv, SomebodyTakes
<1>. QED
  BY <1>1, <1>4, <1>5, <1>6, <1>7, <1>8, <1>9, <1>10, <1>11, <1>12, <1>13, TypesNext
  DEF Inv

\* A skipped partition is due again, and somebody is told.
LEMMA SkippedInv == ASSUME Inv, NEW w \in Workers, Skipped(w) PROVE Inv'
<1>. USE DEF dbVars, inboxVars, schedVars, pushVars, workerVars,
        reconcilerVars, wakeVars
<1>0. StoreTypes /\ ThreadTypes /\ WakeTypes
  BY Types DEF Inv
<1>1. /\ WakeTypes'
      /\ permit' \/ \E v \in Workers : wpc'[v] = "ready"
      /\ \A v \in Workers : \/ wpc'[v] = [wpc EXCEPT ![w] = "idle"][v]
                            \/ [wpc EXCEPT ![w] = "idle"][v] = "waiting" /\ wpc'[v] = "ready"
  <2>1. [wpc EXCEPT ![w] = "idle"] \in [Workers -> Places]
    BY <1>0 DEF WakeTypes, Places
  <2>. QED
    BY <1>0, <2>1, Notified DEF Skipped, Requeue, WakeTypes
<1>2. RowsAreCounted' /\ WindowIsQueued' /\ PushesHoldLocks'
  BY <1>0, Frame DEF Inv, Skipped
<1>3. StoreTypes'
  <2>1. guard[w] \in Partitions
    BY <1>0 DEF Inv, Skipped, PassesAreGuarded, ThreadTypes
  <2>2. faults' \in 0..MaxFaults
    BY <1>0, LimitsAssumption DEF Skipped, Fault, StoreTypes
  <2>3. /\ pending' \subseteq Partitions
        /\ claimed' \subseteq Partitions /\ redirtied' \subseteq Partitions
    BY <1>0, <2>1 DEF Skipped, Requeue, Unclaim, StoreTypes
  <2>. QED
    BY <1>0, <2>2, <2>3, Zenon DEF Skipped, StoreTypes
<1>4. ThreadTypes'
  BY <1>0 DEF Skipped, Requeue, DropGuard, ThreadTypes
<1>5. PushesAreCalled' /\ PassesAreGuarded'
  BY <1>0, <1>1
  DEF Inv, Skipped, Requeue, DropGuard, PushesAreCalled, PassesAreGuarded,
      ThreadTypes, WakeTypes
<1>6. OnePlace'
  BY <1>0, ThreadsAssumption
  DEF Inv, Skipped, Requeue, Unclaim, DropGuard, OnePlace, StoreTypes, ThreadTypes
<1>7. NoSignalLost'
  <2>1. SUFFICES ASSUME NEW k \in Partitions, rows'[k] > 0, ~leaked'[k]
                 PROVE  Signalled(k)'
    BY DEF NoSignalLost
  <2>2. Signalled(k)
    BY <2>1 DEF Inv, NoSignalLost, Skipped
  <2>3. CASE guard[w] = k
    BY <2>3 DEF Skipped, Requeue, Signalled
  <2>4. CASE guard[w] # k
    <3>1. /\ k \in redirtied => k \in redirtied'
          /\ \A v \in Workers : guard[v] = k => guard'[v] = k
      BY <1>0, <2>4 DEF Skipped, Requeue, Unclaim, DropGuard, ThreadTypes
    <3>2. \A v \in Workers : guard[v] = k /\ wpc[v] \in {"pass", "undrained"}
              => wpc'[v] \in {"pass", "undrained"}
      BY <1>0, <1>1, <2>4 DEF WakeTypes
    <3>. QED
      BY <2>2, <3>1, <3>2 DEF Skipped, Requeue, Signalled
  <2>. QED
    BY <2>3, <2>4
<1>8. SomebodyDrains' /\ SomebodyTakes'
  BY <1>1 DEF Inv, Skipped, SomebodyDrains, SomebodyTakes
<1>. QED
  BY <1>1, <1>2, <1>3, <1>4, <1>5, <1>6, <1>7, <1>8, TypesNext DEF Inv

\* A contended one is pushed as well.
LEMMA ContendedInv == ASSUME Inv, NEW w \in Workers, Contended(w) PROVE Inv'
<1>. USE DEF dbVars, inboxVars, schedVars, pushVars, workerVars,
        reconcilerVars, wakeVars
<1>0. StoreTypes /\ ThreadTypes /\ WakeTypes
  BY Types DEF Inv
<1>1. /\ WakeTypes'
      /\ permit' \/ \E v \in Workers : wpc'[v] = "ready"
      /\ \A v \in Workers : \/ wpc'[v] = [wpc EXCEPT ![w] = "push"][v]
                            \/ [wpc EXCEPT ![w] = "push"][v] = "waiting" /\ wpc'[v] = "ready"
  <2>1. [wpc EXCEPT ![w] = "push"] \in [Workers -> Places]
    BY <1>0 DEF WakeTypes, Places
  <2>. QED
    BY <1>0, <2>1, Notified DEF Contended, Requeue, WakeTypes
<1>2. RowsAreCounted' /\ WindowIsQueued'
  BY <1>0, Frame DEF Inv, Contended
<1>3. StoreTypes'
  <2>1. guard[w] \in Partitions
    BY <1>0 DEF Inv, Contended, PassesAreGuarded, ThreadTypes
  <2>2. faults' \in 0..MaxFaults
    BY <1>0, LimitsAssumption DEF Contended, Fault, StoreTypes
  <2>3. /\ pending' \subseteq Partitions
        /\ claimed' \subseteq Partitions /\ redirtied' \subseteq Partitions
    BY <1>0, <2>1 DEF Contended, Requeue, Unclaim, StoreTypes
  <2>. QED
    BY <1>0, <2>2, <2>3, Zenon DEF Contended, StoreTypes
<1>4. ThreadTypes'
  BY <1>0 DEF Contended, Requeue, DropGuard, CallPush, ThreadTypes
<1>5. PushesHoldLocks'
  <2>1. pstep[w] = "start"
    BY <1>0, ThreadsAssumption
    DEF Inv, Contended, PushesHoldLocks, PushesAreCalled, StoreTypes, Threads
  <2>. QED
    BY <2>1 DEF Inv, Contended, CallPush, PushesHoldLocks
<1>6. PushesAreCalled' /\ PassesAreGuarded'
  BY <1>0, <1>1, ThreadsAssumption
  DEF Inv, Contended, Requeue, DropGuard, CallPush, PushesAreCalled,
      PassesAreGuarded, ThreadTypes, WakeTypes
<1>7. OnePlace'
  BY <1>0, ThreadsAssumption
  DEF Inv, Contended, Requeue, Unclaim, DropGuard, OnePlace, StoreTypes, ThreadTypes
<1>8. NoSignalLost'
  BY <1>0, <1>1, ThreadsAssumption
  DEF Inv, Contended, Requeue, Fault, Unclaim, DropGuard, CallPush, SchedFree,
      NoSignalLost, Signalled, OnePlace, PassesAreGuarded, PushesAreCalled,
      WindowIsQueued, PushesHoldLocks, StoreTypes, ThreadTypes, WakeTypes,
      Threads, Places
<1>9. SomebodyDrains' /\ SomebodyTakes'
  BY <1>1 DEF Inv, Contended, SomebodyDrains, SomebodyTakes
<1>. QED
  BY <1>1, <1>2, <1>3, <1>4, <1>5, <1>6, <1>7, <1>8, <1>9, TypesNext DEF Inv

\* After the push the worker is ready again.
LEMMA PushReturnedInv ==
    ASSUME Inv, NEW w \in Workers, PushReturned(w)
    PROVE  Inv'
<1>. USE DEF dbVars, inboxVars, schedVars, pushVars, workerVars,
        reconcilerVars, wakeVars
<1>0. StoreTypes /\ ThreadTypes /\ WakeTypes
  BY Types DEF Inv
<1>1. /\ StoreTypes' /\ ThreadTypes' /\ RowsAreCounted' /\ WindowIsQueued'
      /\ PushesHoldLocks' /\ OnePlace'
  BY <1>0, Frame DEF Inv, PushReturned
<1>2. WakeTypes'
  BY <1>0 DEF PushReturned, WakeTypes, Places
<1>3. PushesAreCalled' /\ PassesAreGuarded'
  BY DEF Inv, PushReturned, PushesAreCalled, PassesAreGuarded
<1>4. NoSignalLost'
  BY DEF Inv, PushReturned, NoSignalLost, Signalled
<1>5. SomebodyDrains' /\ SomebodyTakes'
  BY DEF Inv, PushReturned, SomebodyDrains, SomebodyTakes
<1>. QED
  BY <1>1, <1>2, <1>3, <1>4, <1>5, TypesNext DEF Inv

\* A failed pass leaves its partition cooling, and ends what is said of wakeups.
LEMMA ErroredInv == ASSUME Inv, NEW w \in Workers, Errored(w) PROVE Inv'
<1>. USE DEF dbVars, inboxVars, schedVars, pushVars, workerVars,
        reconcilerVars, wakeVars
<1>0. StoreTypes /\ ThreadTypes /\ WakeTypes
  BY Types DEF Inv
<1>1. RowsAreCounted' /\ WindowIsQueued' /\ PushesHoldLocks'
  BY <1>0, Frame DEF Inv, Errored
<1>2. StoreTypes'
  <2>1. guard[w] \in Partitions
    BY <1>0 DEF Inv, Errored, PassesAreGuarded, ThreadTypes
  <2>2. errors' \in 0..MaxErrors
    BY <1>0, LimitsAssumption DEF Errored, StoreTypes
  <2>3. /\ cooling' \subseteq Partitions
        /\ claimed' \subseteq Partitions /\ redirtied' \subseteq Partitions
    BY <1>0, <2>1 DEF Errored, AckError, Unclaim, StoreTypes
  <2>. QED
    BY <1>0, <2>2, <2>3, Zenon DEF Errored, StoreTypes
<1>3. ThreadTypes'
  BY <1>0 DEF Errored, DropGuard, ThreadTypes
<1>4. WakeTypes'
  BY <1>0 DEF Errored, WakeTypes, Places
<1>5. PushesAreCalled' /\ PassesAreGuarded'
  BY <1>0
  DEF Inv, Errored, DropGuard, PushesAreCalled, PassesAreGuarded, ThreadTypes,
      WakeTypes
<1>6. OnePlace'
  BY <1>0, ThreadsAssumption
  DEF Inv, Errored, AckError, Unclaim, DropGuard, OnePlace, StoreTypes, ThreadTypes
<1>7. NoSignalLost'
  BY DEF Inv, Errored, AckError, Unclaim, DropGuard, NoSignalLost, Signalled
<1>8. SomebodyDrains' /\ SomebodyTakes'
  BY <1>0 DEF Inv, Errored, SomebodyDrains, SomebodyTakes, StoreTypes
<1>. QED
  BY <1>1, <1>2, <1>3, <1>4, <1>5, <1>6, <1>7, <1>8, TypesNext DEF Inv
-----------------------------------------------------------------------------
LEMMA NextInv == Inv /\ [Next]_vars => Inv'
<1>. SUFFICES ASSUME Inv, [Next]_vars PROVE Inv'
  OBVIOUS
<1>1. ASSUME NEW t \in Threads, PushStep(t) PROVE Inv'
  BY <1>1, PushAcceptedInv, PushCoalescedInv, PushLocksSchedulerInv, PushForcedInv,
     PushSuppressedInv
  DEF PushStep
<1>2. ASSUME NEW p \in Producers, NEW k \in Partitions, Commit(p, k) PROVE Inv'
  BY <1>2, CommitInv
<1>3. ASSUME NEW p \in Producers, FireEnds(p) PROVE Inv'
  BY <1>3, FireEndsInv
<1>4. ASSUME NEW k \in Partitions, CommitUnannounced(k) \/ CooldownEnds(k) PROVE Inv'
  BY <1>4, CommitUnannouncedInv, CooldownEndsInv
<1>5. ASSUME Reconcile PROVE Inv'
  BY <1>5, ReconcileBeginsInv, ReconcilePushesInv, ReconcileEndsInv DEF Reconcile
<1>6. ASSUME NEW w \in Workers, WorkerStep(w) PROVE Inv'
  BY <1>6, WaitInv, DrainInv, TakeOneInv, TakeNoneInv, IterateInv, FindsNothingInv,
     ProcessedInv, PushReturnedInv
  DEF WorkerStep
<1>7. ASSUME NEW w \in Workers, Skipped(w) \/ Contended(w) \/ Errored(w) PROVE Inv'
  BY <1>7, SkippedInv, ContendedInv, ErroredInv
<1>8. CASE UNCHANGED vars
  BY <1>8, Frame, Types, TypesNext
  DEF Inv, vars, dbVars, inboxVars, schedVars, pushVars, workerVars, reconcilerVars,
      wakeVars
<1>. QED
  BY <1>1, <1>2, <1>3, <1>4, <1>5, <1>6, <1>7, <1>8 DEF Next

\* The inductive invariant holds throughout.
THEOREM Invariance == Spec => []Inv
  BY InitInv, NextInv, PTL DEF Spec

\* Types: every variable keeps its type; in particular no partition has more rows
\* than were committed and no pass makes more than max_inner_iterations.
THEOREM TypeCorrect == Spec => []TypeOK
<1>1. Inv => TypeOK
  BY DEF Inv
<1>. QED
  BY <1>1, Invariance, PTL

\* The scheduler's invariant: a partition is idle, pending or claimed, re-dirtied
\* only while claimed, and a claimed one has exactly one guard, so no two workers
\* of the process sequence the same partition (PartitionScheduler).
THEOREM ExclusiveClaims == Spec => []OnePlace
<1>1. Inv => OnePlace
  BY DEF Inv
<1>. QED
  BY <1>1, Invariance, PTL

\* Rows announced by a Wake are always on their way to a pass that will see them:
\* coalescing, force_push, absorb() and ack_processed lose no signal, in whatever
\* order pushes, takes and passes interleave (prioritizer.rs).
THEOREM SignalsAreKept == Spec => []NoSignalLost
<1>1. Inv => NoSignalLost
  BY DEF Inv
<1>. QED
  BY <1>1, Invariance, PTL

\* Until a pass fails with a database error, a partition in the inbox or due for a
\* take always has a worker awake or a stored permit (Notify of SharedPrioritizer).
THEOREM WakeupsAreKept == Spec => []NoLostWakeup
<1>1. Inv => NoLostWakeup
  BY DEF Inv, SomebodyDrains, SomebodyTakes, NoLostWakeup
<1>. QED
  BY <1>1, Invariance, PTL
=============================================================================
