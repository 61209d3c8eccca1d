----------------------- MODULE MCOutboxTransactional -----------------------
(* Small instances of OutboxTransactional for TLC.                         *)
EXTENDS OutboxTransactional
=============================================================================
