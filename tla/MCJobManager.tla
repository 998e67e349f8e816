----------------------------- MODULE MCJobManager -----------------------------
(* Bounds for TLC on JobManager.                                           *)
EXTENDS JobManager, TLC

CONSTANTS j1, j2, c1, c2, k1, k2

OneJob == {j1}
TwoJobs == {j1, j2}
TwoCommands == {c1, c2}
TwoKeys == {k1, k2}

(* A request of every control path and, for two of them, another key.      *)
MixedRequests ==
  {[kind |-> "generate", keep |-> TRUE, key |-> k1],
   [kind |-> "image2image", keep |-> TRUE, key |-> k2],
   [kind |-> "validate_loras", keep |-> TRUE, key |-> k1]}

(* Requests whose worker always ends or reports itself resident.           *)
EndingRequests ==
  {[kind |-> "generate", keep |-> TRUE, key |-> k1]}
KeptImage2Image == {[kind |-> "image2image", keep |-> TRUE, key |-> k1]}

Symmetry == Permutations(TwoJobs) \cup Permutations(TwoCommands)
=============================================================================
