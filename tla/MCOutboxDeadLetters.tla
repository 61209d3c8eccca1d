---- MODULE MCOutboxDeadLetters ----
(* Instances of OutboxDeadLetters for TLC. *)
EXTENDS OutboxDeadLetters
====
