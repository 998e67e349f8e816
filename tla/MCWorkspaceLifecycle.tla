------------------------ MODULE MCWorkspaceLifecycle ------------------------
(* Bounds for TLC on WorkspaceLifecycle.                                   *)
EXTENDS WorkspaceLifecycle, TLC

CONSTANTS h1, h2, p1, p2

OneCall == {h1}
TwoCalls == {h1, h2}
TwoPods == {p1, p2}

Symmetry == Permutations(TwoCalls) \cup Permutations(TwoPods)
=============================================================================
