---------------------------- MODULE MCAppServer -----------------------------
(* Values of the constants of AppServer for TLC.                           *)
EXTENDS AppServer, TLC

CONSTANTS j1, j2, j3, d1, h1, pr

(* A delivery, its redelivery, and a forged delivery about the same head   *)
(* that has no id and names no pull request.                               *)
MCJobs == {j1, j2, j3}
MCKindOf == [j \in MCJobs |-> IF j = j3 THEN "forged" ELSE "scan"]
MCDeliveryOf == (j1 :> d1) @@ (j2 :> d1) @@ (j3 :> NoKey)
MCHeadOf == [j \in MCJobs |-> h1]
MCPullOf == (j1 :> pr) @@ (j2 :> pr) @@ (j3 :> NoPull)
MCKeyOf == [j \in MCJobs |-> IF MCDeliveryOf[j] = NoKey THEN MCHeadOf[j] ELSE MCDeliveryOf[j]]
=============================================================================
