----------------------------- MODULE CoordLease -----------------------------
(***************************************************************************)
(* The distributed lease kept in one row of a table: LeaseManager::acquire,*)
(* and LeaseGuard with its fenced transaction (with_ack_in_tx), heartbeat  *)
(* and release.  Two crates hold this code: bss/libs/coord ("coord") and   *)
(* the account-management original it was taken from ("am"), which fences  *)
(* with a SELECT and stamps a fresh row with the worker's clock.           *)
(*                                                                         *)
(* The database is PostgreSQL: SERIALIZABLE transactions read the snapshot *)
(* of their first statement, an UPDATE waits for the row's lock and fails  *)
(* with 40001 when the row was written since the snapshot, and NOW() is    *)
(* the time the transaction began.  Keys are independent, so there is one. *)
(* A holder's UUID is the number of its term.                              *)
(***************************************************************************)
EXTENDS Integers

CONSTANTS
    Workers,        \* tasks that acquire the lease
    Impl,           \* the implementation: "coord" or "am"
    None, NoRow,
    TTL,            \* ticks a lease lasts
    Skew,           \* a worker's clock differs from the database's by at most this
    MaxAttempts,    \* DEFAULT_TX_RETRY_ATTEMPTS
    MaxTime,        \* bound: the database clock
    MaxCalls,       \* bound: calls of acquire and with_ack_in_tx
    MaxFaults       \* bound: crashes, failed statements, lost commit answers

ASSUME LeaseAssumption ==
    /\ Impl \in {"coord", "am"}
    /\ TTL \in Nat \ {0} /\ Skew \in Nat /\ MaxAttempts \in Nat \ {0}
    /\ MaxTime \in Nat /\ MaxCalls \in Nat /\ MaxFaults \in Nat
    /\ None \notin Workers \cup Nat
    /\ NoRow \notin [by : Nat \cup {None}, until : Int, attempts : Nat]

VARIABLES
    now,            \* the database clock
    row,            \* the committed row [by, until, attempts], or NoRow
    locker,         \* worker whose open transaction has written the row, or None
    terms,          \* leases granted so far; the latest one's UUID
    pc,             \* pc[w]: where w's call of acquire or with_ack_in_tx is
    tries,          \* tries[w]: attempts of that call's transaction
    start,          \* start[w]: NOW() in that transaction
    snap,           \* snap[w]: the row in that transaction's snapshot
    stale,          \* stale[w]: the row was written since that snapshot
    pend,           \* pend[w]: the uncommitted row of an acquiring transaction
    uuid,           \* uuid[w]: locked_by of w's LeaseGuard, or None
    beat,           \* beat[w]: "off", "healthy", "lost", or "cancelled" in a renewal
    beatId,         \* beatId[w]: the heartbeat's copy of the guard's UUID
    renewAt,        \* renewAt[w]: NOW() of a renewal that waits for the row, or None
    calls, faults,
    acked           \* history: <<term of a fenced commit, latest term at that time>>

txVars == <<pc, tries, start, snap, pend>>
beatVars == <<beat, beatId, renewAt>>
vars == <<now, row, locker, terms, txVars, stale, uuid, beatVars, calls, faults, acked>>

Epoch == 0
FreshRow == [by |-> None, until |-> Epoch, attempts |-> 0]

Init ==
    /\ now = 1
    /\ row = NoRow /\ locker = None /\ terms = 0
    /\ pc = [w \in Workers |-> "idle"]
    /\ tries = [w \in Workers |-> 1]
    /\ start = [w \in Workers |-> 0]
    /\ snap = [w \in Workers |-> NoRow]
    /\ stale = [w \in Workers |-> FALSE]
    /\ pend = [w \in Workers |-> NoRow]
    /\ uuid = [w \in Workers |-> None]
    /\ beat = [w \in Workers |-> "off"]
    /\ beatId = [w \in Workers |-> None]
    /\ renewAt = [w \in Workers |-> None]
    /\ calls = 0 /\ faults = 0 /\ acked = {}

Fault == faults < MaxFaults /\ faults' = faults + 1

InAcquire == {"begin", "read", "claim"}
InAck == {"ack", "worked", "fenced"}

\* A committed write of the row: whoever has a snapshot from before will fail to
\* update it.
Write(r) ==
    /\ row' = r
    /\ stale' = [v \in Workers |-> pc[v] \in {"read", "worked"}]

Unlocked(w) == locker' = IF locker = w THEN None ELSE locker

\* The call returns, with or without a guard, or its transaction begins again.
Goto(w, place) ==
    /\ pc' = [pc EXCEPT ![w] = place]
    /\ tries' = [tries EXCEPT ![w] = 1]
    /\ start' = [start EXCEPT ![w] = 0]
    /\ snap' = [snap EXCEPT ![w] = NoRow]
    /\ pend' = [pend EXCEPT ![w] = NoRow]

Return(w, place) == Goto(w, place) /\ stale' = [stale EXCEPT ![w] = FALSE]

\* The transaction's body begins again.
Restart(w, n) ==
    /\ pc' = [pc EXCEPT ![w] = IF @ \in InAcquire THEN "begin" ELSE "ack"]
    /\ tries' = [tries EXCEPT ![w] = n]
    /\ start' = [start EXCEPT ![w] = now]
    /\ snap' = [snap EXCEPT ![w] = NoRow]
    /\ pend' = [pend EXCEPT ![w] = NoRow]
    /\ stale' = [stale EXCEPT ![w] = FALSE]

GiveUp(w) == Return(w, IF pc[w] \in InAcquire THEN "idle" ELSE "held")

Retry_ForEver(w) == Restart(w, tries[w])

\* After contention: another attempt with a new snapshot, or the last error.
Retry(w) == IF tries[w] < MaxAttempts THEN Restart(w, tries[w] + 1) ELSE GiveUp(w)
-----------------------------------------------------------------------------
(* LeaseManager::acquire.                                                  *)

AcquireCall(w) ==
    /\ pc[w] = "idle" /\ uuid[w] = None
    /\ calls < MaxCalls /\ calls' = calls + 1
    /\ pc' = [pc EXCEPT ![w] = "begin"]
    /\ UNCHANGED <<now, row, locker, terms, tries, start, snap, pend, stale, uuid,
                   beatVars, faults, acked>>

\* BEGIN and the SELECT.  The worker compares locked_until with its own clock,
\* which is d ticks away from the database's.
AcquireRead(w) ==
    /\ pc[w] = "begin"
    /\ \E d \in -Skew..Skew :
          IF row = NoRow \/ row.until <= now + d
          THEN /\ pc' = [pc EXCEPT ![w] = "read"]
               /\ start' = [start EXCEPT ![w] = now]
               /\ snap' = [snap EXCEPT ![w] = row]
               /\ stale' = [stale EXCEPT ![w] = FALSE]
               /\ UNCHANGED <<tries, pend>>
          ELSE Return(w, "idle")
    /\ UNCHANGED <<now, row, locker, terms, uuid, beatVars, calls, faults, acked>>

\* expired_filter, on the transaction's NOW().
Expired(r, t) == r.until < t

\* claim_expired_slot, on the row read or on the sentinel just inserted.
ClaimSlot(w) ==
    LET old == IF snap[w] = NoRow THEN FreshRow ELSE snap[w]
    IN [by |-> terms + 1, until |-> start[w] + TTL, attempts |-> old.attempts + 1]

\* account-management inserts the claimed row itself, with the worker's clock.
InsertClaimed(d) == [by |-> terms + 1, until |-> now + d + TTL, attempts |-> 1]

ClaimedRow_WorkerClock(w, d) == IF snap[w] = NoRow THEN InsertClaimed(d) ELSE ClaimSlot(w)

\* The row this transaction leaves behind.
ClaimedRow(w, d) == IF snap[w] = NoRow /\ Impl = "am" THEN InsertClaimed(d) ELSE ClaimSlot(w)

\* The INSERT, or the UPDATE of a row that is still the one read.
AcquireClaims(w) ==
    /\ pc[w] = "read" /\ locker = None
    /\ IF snap[w] = NoRow THEN row = NoRow ELSE Expired(snap[w], start[w]) /\ ~stale[w]
    /\ \E d \in -Skew..Skew : pend' = [pend EXCEPT ![w] = ClaimedRow(w, d)]
    /\ locker' = w
    /\ pc' = [pc EXCEPT ![w] = "claim"]
    /\ UNCHANGED <<now, row, terms, tries, start, snap, stale, uuid, beatVars, calls,
                   faults, acked>>

\* LeaseHeld: a peer has inserted the row, or the UPDATE matches nothing.
AcquireHeld(w) ==
    /\ pc[w] = "read"
    /\ IF snap[w] = NoRow THEN row # NoRow ELSE ~Expired(snap[w], start[w])
    /\ Return(w, "idle")
    /\ UNCHANGED <<now, row, locker, terms, uuid, beatVars, calls, faults, acked>>

\* 40001: the row was written since it was read (PostgreSQL may report a peer's
\* insert of a key this transaction has looked for in this way too).
AcquireConflicts(w) ==
    /\ pc[w] = "read" /\ locker = None /\ stale[w]
    /\ snap[w] # NoRow => Expired(snap[w], start[w])
    /\ Retry(w)
    /\ UNCHANGED <<now, row, locker, terms, uuid, beatVars, calls, faults, acked>>

AcquireCommits(w) ==
    /\ pc[w] = "claim"
    /\ Write(pend[w])
    /\ terms' = terms + 1
    /\ Unlocked(w)
    /\ \/ /\ Goto(w, "held")
          /\ uuid' = [uuid EXCEPT ![w] = terms + 1]
          /\ UNCHANGED faults
       \/ /\ Fault                  \* the answer is lost: claimed, but no guard
          /\ Goto(w, "idle")
          /\ UNCHANGED uuid
    /\ UNCHANGED <<now, beatVars, calls, acked>>
-----------------------------------------------------------------------------
(* LeaseGuard::with_ack_in_tx.                                             *)

\* The guard lends itself (&self): it may be called again after LeaseLost.
AckCall(w) ==
    /\ pc[w] \in {"held", "lost"}
    /\ calls < MaxCalls /\ calls' = calls + 1
    /\ pc' = [pc EXCEPT ![w] = "ack"]
    /\ start' = [start EXCEPT ![w] = now]
    /\ UNCHANGED <<now, row, locker, terms, tries, snap, pend, stale, uuid, beatVars,
                   faults, acked>>

\* The caller's work f; its first statement takes the snapshot.
AckWork(w) ==
    /\ pc[w] = "ack"
    /\ pc' = [pc EXCEPT ![w] = "worked"]
    /\ snap' = [snap EXCEPT ![w] = row]
    /\ stale' = [stale EXCEPT ![w] = FALSE]
    /\ UNCHANGED <<now, row, locker, terms, tries, start, pend, uuid, beatVars, calls,
                   faults, acked>>

\* The fence's WHERE, on the snapshot: locked_by is mine, and locked_until is
\* after clock_timestamp() or, in account-management, after NOW().
FenceMatches(w) ==
    /\ snap[w].by = uuid[w]
    /\ snap[w].until > (IF Impl = "coord" THEN now ELSE start[w])

\* The fence UPDATE locks the row, if it still is the one in the snapshot.
UpdateFence(w) == locker = None /\ ~stale[w] /\ locker' = w

\* account-management's fence SELECT reads the snapshot and locks nothing.
SelectFence(w) == UNCHANGED locker

FencePasses_Select(w) == SelectFence(w)

FencePasses(w) == IF Impl = "coord" THEN UpdateFence(w) ELSE SelectFence(w)

AckFence(w) ==
    /\ pc[w] = "worked" /\ FenceMatches(w)
    /\ FencePasses(w)
    /\ pc' = [pc EXCEPT ![w] = "fenced"]
    /\ UNCHANGED <<now, row, terms, tries, start, snap, pend, stale, uuid, beatVars,
                   calls, faults, acked>>

\* 40001 at the fence.
AckConflicts(w) ==
    /\ pc[w] = "worked" /\ FenceMatches(w)
    /\ Impl = "coord" /\ locker = None /\ stale[w]
    /\ Retry(w)
    /\ UNCHANGED <<now, row, locker, terms, uuid, beatVars, calls, faults, acked>>

\* Zero rows: LeaseLost, never retried.
AckLost(w) ==
    /\ pc[w] = "worked" /\ ~FenceMatches(w)
    /\ Return(w, "lost")
    /\ UNCHANGED <<now, row, locker, terms, uuid, beatVars, calls, faults, acked>>

\* The work and the touched row become visible together.
AckCommits(w) ==
    /\ pc[w] = "fenced"
    /\ acked' = acked \cup {<<uuid[w], terms>>}
    /\ IF Impl = "coord"
       THEN Write(row)
       ELSE UNCHANGED row /\ stale' = [stale EXCEPT ![w] = FALSE]
    /\ Unlocked(w)
    /\ Goto(w, "held")
    /\ UNCHANGED <<now, terms, uuid, beatVars, calls, faults>>

\* An open transaction fails: with contention it is retried, with another error
\* of the database or of the work the call returns it.
TxFails(w) ==
    /\ pc[w] \in {"read", "claim", "ack", "worked", "fenced"}
    /\ Retry(w) \/ GiveUp(w)
    /\ Unlocked(w)
    /\ Fault
    /\ UNCHANGED <<now, row, terms, uuid, beatVars, calls, acked>>
-----------------------------------------------------------------------------
(* The heartbeat.                                                          *)

SpawnRenewal(w) ==
    /\ pc[w] = "held" /\ beat[w] = "off"
    /\ beat' = [beat EXCEPT ![w] = "healthy"]
    /\ beatId' = [beatId EXCEPT ![w] = uuid[w]]
    /\ UNCHANGED <<now, row, locker, terms, txVars, stale, uuid, renewAt, calls, faults,
                   acked>>

\* The UPDATE has begun and waits for the row.
RenewBlocks(w) ==
    /\ beat[w] = "healthy" /\ renewAt[w] = None /\ locker # None
    /\ renewAt' = [renewAt EXCEPT ![w] = now]
    /\ UNCHANGED <<now, row, locker, terms, txVars, stale, uuid, beat, beatId, calls,
                   faults, acked>>

\* live_filter, on the NOW() of the statement.
Renewable(w, t) == row.by = beatId[w] /\ row.until > t

BeatEnds(w, state) ==
    /\ beat' = [beat EXCEPT ![w] = state]
    /\ beatId' = [beatId EXCEPT ![w] = None]

AfterRenewal_NeverLost(w, ok) ==
    IF beat[w] = "cancelled" THEN BeatEnds(w, "off") ELSE UNCHANGED <<beat, beatId>>

\* What the loop does after a renewal: it goes on, or ends.
AfterRenewal(w, ok) ==
    IF beat[w] = "cancelled"
    THEN BeatEnds(w, "off")
    ELSE IF ok THEN UNCHANGED <<beat, beatId>> ELSE BeatEnds(w, "lost")

RenewOnce(w) ==
    /\ beat[w] \in {"healthy", "cancelled"} /\ locker = None
    /\ beat[w] = "cancelled" => renewAt[w] # None
    /\ LET t == IF renewAt[w] = None THEN now ELSE renewAt[w]
       IN /\ IF Renewable(w, t)
             THEN Write([row EXCEPT !.until = t + TTL])
             ELSE UNCHANGED <<row, stale>>
          /\ AfterRenewal(w, Renewable(w, t))
    /\ renewAt' = [renewAt EXCEPT ![w] = None]
    /\ UNCHANGED <<now, locker, terms, txVars, uuid, calls, faults, acked>>

\* A database error: the next tick tries again.
RenewFails(w) ==
    /\ beat[w] \in {"healthy", "cancelled"} /\ renewAt[w] # None
    /\ Fault
    /\ AfterRenewal(w, TRUE)
    /\ renewAt' = [renewAt EXCEPT ![w] = None]
    /\ UNCHANGED <<now, row, locker, terms, txVars, stale, uuid, calls, acked>>

\* RenewalHandle::shutdown or drop: a renewal under way ends first.
StopRenewal(w) ==
    /\ beat[w] \in {"healthy", "lost"}
    /\ IF renewAt[w] = None
       THEN BeatEnds(w, "off")
       ELSE beat' = [beat EXCEPT ![w] = "cancelled"] /\ UNCHANGED beatId
    /\ UNCHANGED <<now, row, locker, terms, txVars, stale, uuid, renewAt, calls, faults,
                   acked>>
-----------------------------------------------------------------------------
(* The end of a guard.                                                     *)

DropGuard(w) ==
    /\ uuid' = [uuid EXCEPT ![w] = None]
    /\ pc' = [pc EXCEPT ![w] = "idle"]

\* The row release_impl leaves: free, with the attempts counter reset or kept.
Released(reset) ==
    [by |-> None, until |-> Epoch, attempts |-> IF reset THEN 0 ELSE row.attempts]

MayRelease_Any(w) == TRUE

MayRelease(w) == row.by = uuid[w]

Release(w) ==
    /\ pc[w] \in {"held", "lost"} /\ locker = None
    /\ IF MayRelease(w)
       THEN \E reset \in BOOLEAN : Write(Released(reset))
       ELSE UNCHANGED <<row, stale>>
    /\ DropGuard(w)
    /\ UNCHANGED <<now, locker, terms, tries, start, snap, pend, beatVars, calls, faults,
                   acked>>

\* The guard goes out of scope unreleased, or release returns an error.
Abandon(w) ==
    /\ pc[w] \in {"held", "lost"}
    /\ DropGuard(w)
    /\ UNCHANGED <<now, row, locker, terms, tries, start, snap, pend, stale, beatVars,
                   calls, faults, acked>>

\* The process dies: its transaction is rolled back, its heartbeat ends.
Crash(w) ==
    /\ uuid[w] # None \/ pc[w] # "idle"
    /\ Fault
    /\ Return(w, "idle")
    /\ Unlocked(w)
    /\ uuid' = [uuid EXCEPT ![w] = None]
    /\ BeatEnds(w, "off")
    /\ renewAt' = [renewAt EXCEPT ![w] = None]
    /\ UNCHANGED <<now, row, terms, calls, acked>>

Tick ==
    /\ now < MaxTime
    /\ now' = now + 1
    /\ UNCHANGED <<row, locker, terms, txVars, stale, uuid, beatVars, calls, faults, acked>>

\* The steps of a call that has begun.
CallStep(w) ==
    \/ AcquireRead(w) \/ AcquireClaims(w) \/ AcquireHeld(w) \/ AcquireConflicts(w)
    \/ AcquireCommits(w)
    \/ AckWork(w) \/ AckFence(w) \/ AckConflicts(w) \/ AckLost(w) \/ AckCommits(w)

Next ==
    \/ \E w \in Workers :
          \/ AcquireCall(w) \/ AckCall(w) \/ CallStep(w) \/ TxFails(w)
          \/ SpawnRenewal(w) \/ RenewBlocks(w) \/ RenewOnce(w) \/ RenewFails(w)
          \/ StopRenewal(w)
          \/ Release(w) \/ Abandon(w) \/ Crash(w)
    \/ Tick

Spec == Init /\ [][Next]_vars

\* The runtime runs what is ready and PostgreSQL serves those who wait for a row
\* lock in turn.  Nothing starts a call, ends a heartbeat or lets time pass.
Fairness == \A w \in Workers : WF_vars(CallStep(w)) /\ WF_vars(RenewOnce(w))

FairSpec == Spec /\ Fairness
-----------------------------------------------------------------------------
(* Properties.                                                             *)

Rows == [by : Nat \cup {None}, until : Int, attempts : Nat]

\* Type invariant.
TypeOK ==
    /\ now \in Nat
    /\ row \in Rows \cup {NoRow} /\ locker \in Workers \cup {None}
    /\ terms \in Nat /\ calls \in 0..MaxCalls /\ faults \in 0..MaxFaults
    /\ pc \in [Workers -> {"idle", "held", "lost"} \cup InAcquire \cup InAck]
    /\ tries \in [Workers -> 1..MaxAttempts]
    /\ start \in [Workers -> Nat]
    /\ snap \in [Workers -> Rows \cup {NoRow}]
    /\ stale \in [Workers -> BOOLEAN]
    /\ pend \in [Workers -> Rows \cup {NoRow}]
    /\ uuid \in [Workers -> Nat \cup {None}]
    /\ beat \in [Workers -> {"off", "healthy", "lost", "cancelled"}]
    /\ beatId \in [Workers -> Nat \cup {None}]
    /\ renewAt \in [Workers -> Nat \cup {None}]
    /\ acked \subseteq Nat \X Nat

\* Work fenced by with_ack_in_tx is committed only by the latest holder: once a
\* peer's claim is committed, no earlier holder commits, whatever it had read,
\* done or checked before ("The holder's writes and the lease validation cannot
\* drift apart").
FencedByLatest == \A p \in acked : p[1] = p[2]

\* A term ends in no other way than by its own guard's release or, after its
\* locked_until, by a peer's claim: no worker's clock, retry, late release or
\* late renewal takes a live lease away (release_impl, claim_expired_slot).
TermEnds ==
    [][row # NoRow /\ row.by # None /\ row'.by # row.by =>
         \/ \E w \in Workers : uuid[w] = row.by /\ uuid'[w] = None /\ row'.by = None
         \/ row'.by = terms + 1 /\ row.until < now]_vars

\* No lease reaches further than TTL from the database's now,
\* however a worker's clock is off (ttl_expr).
LeaseIsBounded == row # NoRow => row.until <= now + TTL

\* A heartbeat whose lease another term has taken, or whose guard was released,
\* does not stay Healthy for ever (RenewalState::Lost).  A guard that is gone
\* without a release leaves its UUID in the row, and a heartbeat that renews it.
LossIsSignalled ==
    \A w \in Workers :
        beat[w] = "healthy" /\ row.by # beatId[w] ~> beat[w] # "healthy"

\* Every acquire and every with_ack_in_tx returns: the row lock of a fence, the
\* heartbeat that waits for it, a peer's claim and the retries cannot block one
\* another for ever (transaction_with_retry_max).
EveryCallReturns ==
    \A w \in Workers :
        pc[w] \in InAcquire \cup InAck ~> pc[w] \notin InAcquire \cup InAck
=============================================================================
