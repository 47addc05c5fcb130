---------------------------- MODULE MCIsrRelay ----------------------------
(* The invoke-system relay on small instances. *)
EXTENDS IsrRelay
=============================================================================
