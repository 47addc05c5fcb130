---------------------------- MODULE MCMpExclusive ---------------------------
(* Small instances of MpExclusive for TLC: one regular and two direct keys,  *)
(* so that a direct request can wait behind another one.                     *)
EXTENDS MpExclusive

CONSTANTS r1, r2, r3

MCKeys == {"get", "method", "other"}
MCKey == [r \in Requests |-> CASE r = r1 -> "get" [] r = r2 -> "method" [] r = r3 -> "other"]
MCInterface == [k \in MCKeys |-> IF k = "get" THEN "regular" ELSE "direct"]
MCFilters == {MCKeys}
=============================================================================
