----------------------------- MODULE MCScanPool -----------------------------
(* Values of the constants of ScanPool for TLC: a delivery, its            *)
(* redelivery, a second pair of twins or a delivery of its own, and a job  *)
(* with no key.                                                            *)
EXTENDS ScanPool, TLC

CONSTANTS j1, j2, j3, j4, k1, k2

MCJobs == {j1, j2, j3, j4}
MCKeyOf == (j1 :> k1) @@ (j2 :> k1) @@ (j3 :> k2) @@ (j4 :> NoKey)
=============================================================================
