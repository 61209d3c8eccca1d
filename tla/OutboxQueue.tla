---------------------------- MODULE OutboxQueue ----------------------------
(***************************************************************************)
(* What one partition of the outbox promises its callers, with neither     *)
(* tables nor leases: submitted messages are put into one order, the       *)
(* handler is called at least once for each of them, and they are settled  *)
(* in that order, each one acknowledged by the handler or dead-lettered.   *)
(***************************************************************************)
EXTENDS Integers, Sequences

CONSTANTS
    Messages,
    Batch       \* most messages put into the order at a time

VARIABLES
    pending,    \* submitted, not yet in the order
    log,        \* the order
    acked,      \* places of the log the handler has acknowledged
    cursor,     \* the places up to here are settled
    dead        \* the places that were settled as dead letters

queueVars == <<pending, log, acked, cursor, dead>>

InLog == {log[i] : i \in DOMAIN log}

Init == pending = {} /\ log = <<>> /\ acked = {} /\ cursor = 0 /\ dead = {}

\* A business transaction commits its messages, all of them at once.
Submit ==
    \E S \in SUBSET (Messages \ (pending \cup InLog)) :
        /\ S # {}
        /\ pending' = pending \cup S
        /\ UNCHANGED <<log, acked, cursor, dead>>

\* Some pending messages are given the next places.
Order ==
    \E n \in 1..Batch : \E c \in [1..n -> pending] :
        /\ \A i, j \in 1..n : i # j => c[i] # c[j]
        /\ log' = log \o c
        /\ pending' = pending \ {c[i] : i \in 1..n}
        /\ UNCHANGED <<acked, cursor, dead>>

\* The handler acknowledges a message, perhaps not for the first time.
Acknowledge ==
    \E s \in DOMAIN log :
        /\ acked' = acked \cup {s}
        /\ UNCHANGED <<pending, log, cursor, dead>>

\* The cursor moves on; what it passes was acknowledged or is dead-lettered now.
Settle ==
    \E n \in cursor + 1 .. Len(log) : \E D \in SUBSET (cursor + 1 .. n) :
        /\ (cursor + 1 .. n) \ D \subseteq acked
        /\ cursor' = n
        /\ dead' = dead \cup D
        /\ UNCHANGED <<pending, log, acked>>

Next == Submit \/ Order \/ Acknowledge \/ Settle

Spec == Init /\ [][Next]_queueVars
=============================================================================
