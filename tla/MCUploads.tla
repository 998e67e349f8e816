----------------------------- MODULE MCUploads -----------------------------
(* Bounds for TLC on Uploads.                                              *)
EXTENDS Uploads, TLC

CONSTANTS r1, u1, u2, loras, vae, n1, cA, cB

OneCall == {r1}
TwoUploads == {u1, u2}
OneName == {n1}
TwoKinds == {loras, vae}
TwoData == {cA, cB}

(* Sessions are alike, and so are contents and kinds: an id has one file,  *)
(* so that no choice depends on the kind.                                  *)
Symmetry == Permutations(TwoUploads) \cup Permutations(TwoData)
              \cup Permutations(TwoKinds)
=============================================================================
