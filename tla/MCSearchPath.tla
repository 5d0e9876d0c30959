---------------------------- MODULE MCSearchPath ----------------------------
EXTENDS SearchPath, TLC

\* a word, the same word encoded, and a text no decoder takes, which is not a
\* regular expression either
MCQuery == {"a", "%61", "(%"}
MCBad == {"(%"}
MCDecode == ("a" :> "a") @@ ("%61" :> "a") @@ ("(%" :> Malformed)

\* a word that is also a number, operators, and parentheses plain and escaped
MCTokens == {"1", " ", "(", ")", "\\(", "file:", "lit:", "max_matches:"}

\* what is past the end of the vector: -1, which previous_first is at first, and
\* 4, which by the lengths of the names is previous_first, a candidate or neither
MCGarbage == {-1, 4}

MCRequestLimit == {-1, 0, 1, 3}

\* the key of <<1>>, <<2, 3>> is the key of <<1, 2>>, <<3>>
MCTrees == {<<1>>, <<1, 2>>}
MCPaths == {<<3>>, <<2, 3>>}
=============================================================================
