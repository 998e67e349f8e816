--------------------------- MODULE MCDownloadQueue ---------------------------
(* Bounds for TLC on DownloadQueue.                                        *)
EXTENDS DownloadQueue, TLC

CONSTANTS t1, t2, n1, n2, cA, cB

TwoNames == {n1, n2}
TwoTransfers == {t1, t2}
Page(provider, offers) == [provider |-> provider, offers |-> offers]
File(n, c, sized, hashed) ==
  [files |-> (n :> c) @@ [m \in TwoNames |-> None], sized |-> sized, hashed |-> hashed]
Both == [files |-> (n1 :> cB) @@ (n2 :> cA), sized |-> FALSE, hashed |-> FALSE]

(* Two files of different names, with hashes; two versions of one name, of *)
(* which one has no hash; a repository in conflict with each of them.      *)
Hashed == Page("civitai", {File(n1, cA, FALSE, TRUE), File(n2, cB, FALSE, TRUE)})
Mixed == Page("civitai", {File(n1, cA, TRUE, TRUE), File(n1, cB, TRUE, FALSE)})
Repository == Page("huggingface", {Both})
AllSources == {Hashed, Mixed, Repository}
EachItsOwn == (t1 :> {Hashed, Mixed}) @@ (t2 :> {Repository})
=============================================================================
