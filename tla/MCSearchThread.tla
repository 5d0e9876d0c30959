---------------------------- MODULE MCSearchThread ----------------------------
(* SearchThread with two chunks, four hits and two workers.               *)
EXTENDS SearchThread, TLC

CONSTANTS h1, h2, h3, h4, c1, c2, w1, w2

MCHitsOf == (c1 :> {h1, h2}) @@ (c2 :> {h3, h4})
MCWeight == (h1 :> 1) @@ (h2 :> 1) @@ (h3 :> 2) @@ (h4 :> 1)
MCNameHits == [k \in NameKind |-> IF k = "file" THEN {"f1"} ELSE {"t1", "t2"}]
Symmetry == Permutations(Worker)
=============================================================================
