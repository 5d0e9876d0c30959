----------------------------- MODULE MCParseQuery -----------------------------
EXTENDS ParseQuery
MCTokens == {"w", "1", " ", "(", ")", "\\(", "file:", "lit:", "max_matches:"}
=============================================================================
