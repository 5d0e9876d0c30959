----------------------------- MODULE MCBackend ------------------------------
EXTENDS Backend, TLC, SequencesExt

\* texts of length 0 to 2, one too long to be indexed and one with a NUL
MCLenOf == ("" :> 0) @@ ("a" :> 1) @@ ("bb" :> 2) @@ ("long" :> 4) @@ ("0" :> 1)

FileOf(texts, unterminated) == [lines |-> texts, unterminated |-> unterminated]
MCInputs ==
  {FileOf(ls, FALSE) : ls \in BoundedSeq({"a", "bb"}, 2)} \cup
  {FileOf(<<"a", "bb", "a">>, FALSE), FileOf(<<"bb", "long", "bb">>, TRUE),
   FileOf(<<"a", "0">>, FALSE), FileOf(<<"bb", "a", "", "a">>, FALSE)}
=============================================================================
