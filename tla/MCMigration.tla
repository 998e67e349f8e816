----------------------------- MODULE MCMigration -----------------------------
(* Bounds for TLC on Migration.                                            *)
EXTENDS Migration, TLC

CONSTANTS h1, h2, m1

TwoCalls == {h1, h2}
OneMigration == {m1}

(* The calls of clients are alike: invariants may be checked up to a       *)
(* permutation of them.                                                    *)
CallSymmetry == Permutations(TwoCalls)
=============================================================================
