---- MODULE MCCoordLease ----
(* Instances of CoordLease for TLC. *)
EXTENDS CoordLease
====
