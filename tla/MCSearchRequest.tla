--------------------------- MODULE MCSearchRequest ---------------------------
(* SearchRequest with two handlers and three matching lines, one of them   *)
(* the exact match and one the prefix match of a tag.                      *)
EXTENDS SearchRequest, TLC

CONSTANTS a, b, c, h1, h2

Unlimited == {-1}
Symmetry == Permutations(Handler)
=============================================================================
