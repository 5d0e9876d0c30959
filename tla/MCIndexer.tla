------------------------------ MODULE MCIndexer ------------------------------
(***************************************************************************)
(* Indexer with texts of length 0 to 2, one too long to be indexed and one *)
(* with a NUL in it, in chunks of five bytes.                              *)
(***************************************************************************)
EXTENDS Indexer, TLC

CONSTANTS w1, w2

MCLenOf == ("" :> 0) @@ ("a" :> 1) @@ ("bb" :> 2) @@ ("long" :> 4) @@ ("0" :> 1)

FileOf(lines, unterminated) == [lines |-> lines, unterminated |-> unterminated]
MCInputs ==
    {FileOf(ls, FALSE) : ls \in BoundedSeq({"a", "bb"}, 2)} \cup
    {FileOf(<<"a", "bb", "a">>, FALSE), FileOf(<<"bb", "long", "bb">>, TRUE),
     FileOf(<<"a", "0">>, FALSE), FileOf(<<"bb", "a", "", "a">>, FALSE)}
MCOneCharTail == {FileOf(<<"bb", "a">>, TRUE)} \cup MCInputs

=============================================================================
