------------------------ MODULE MCOutboxPrioritizer ------------------------
(* Small instances of OutboxPrioritizer for TLC.                           *)
EXTENDS OutboxPrioritizer, TLC

\* Workers, producers and partitions are interchangeable in the safety runs.
Symmetry ==
    Permutations(Partitions) \cup Permutations(Workers) \cup Permutations(Producers)
=============================================================================
