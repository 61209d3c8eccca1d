--------------------------- MODULE MCOutboxTrace ---------------------------
(* Small instances of OutboxTrace for TLC. *)
EXTENDS OutboxTrace

CONSTANTS i1, i2, p1, p2

\* One instance submits and both process; a batch spreads over both partitions.
MCOwner == [t \in Traces |-> i1]
MCBatch == [t \in Traces |-> [p \in Partitions |-> IF p = p1 THEN 2 ELSE 1]]
=============================================================================
