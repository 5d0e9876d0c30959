----------------------------- MODULE MCChunkFiles -----------------------------
(* ChunkFiles with a chunk of four lines, two of them empty.              *)
EXTENDS ChunkFiles

At(l, r) == [l |-> l, r |-> r]
MCLine == {At(0, 0), At(1, 2), At(3, 3), At(4, 6)}
=============================================================================
