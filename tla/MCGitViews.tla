----------------------------- MODULE MCGitViews -----------------------------
EXTENDS GitViews, TLC

MCHashes == <<"1", "2", "3", "4">>

\* a commit that changes no file, or two
MCFileLists == {<<>>, <<"f", "g">>}

\* a readme in the root and in a directory, and a file whose name ends like one
MCEntries == ("" :> <<"README.md", "sub", "subREADME.md">>) @@ ("sub" :> <<"README.md">>)
MCReadme == ("README.md" :> "README.md") @@ ("subREADME.md" :> "README.md")
MCTrees == {{}, {"README.md"}, {"README.md", "sub/README.md"}, {"subREADME.md", "sub/README.md"}}
MCIds == <<"c1", "c2", "c3">>
MCRequests ==
  [kind : {"experimental"}, rev : {"HEAD", "main", "c1"}, path : {"README.md", "sub"}, dfc : {"", "c1"}]
  \cup [kind : {"blob", "zoekt"}, rev : {"main"}, path : {"", "sub"}, dfc : {""}]
=============================================================================
