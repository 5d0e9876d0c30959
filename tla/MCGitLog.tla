------------------------------- MODULE MCGitLog -------------------------------
EXTENDS GitLog
MCHashes == <<"1", "2", "3">>
MCFileLists == {<<>>, <<"f", "g">>}
=============================================================================
