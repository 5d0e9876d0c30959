---------------------------- MODULE DirectoryTree ----------------------------
(***************************************************************************)
(* buildDirectoryTree: the flat output of git ls-tree -r -t, in which a    *)
(* directory comes before what is in it, is made into a tree with one      *)
(* pointer to the current directory and the depth of the last entry.       *)
(***************************************************************************)
EXTENDS Naturals, Sequences

CONSTANTS
  MaxEntries,   \* bound: lines of the output
  MaxDepth      \* bound: levels of directories

DirtreeAssumption == MaxEntries \in Nat /\ MaxDepth \in Nat

VARIABLES
  lines,       \* the output: depth (slashes in the name) and type of every entry
  i,           \* entries read
  currDir, prevDepth,
  children,    \* Children of the root, 0, and of every entry
  ParentDir    \* of the directories read

vars == <<lines, i, currDir, prevDepth, children, ParentDir>>

\* git ls-tree, external: a directory is followed by its first entry, anything
\* else by an entry that is not deeper
Outputs ==
  {s \in UNION {[1 .. n -> [depth : 0 .. MaxDepth, type : {"blob", "tree", "commit"}]] : n \in 0 .. MaxEntries} :
     /\ s # <<>> => s[1].depth = 0 /\ s[Len(s)].type # "tree"
     /\ \A k \in 1 .. Len(s) - 1 : IF s[k].type = "tree" THEN s[k + 1].depth = s[k].depth + 1
                                   ELSE s[k + 1].depth <= s[k].depth}

Init ==
  /\ lines \in Outputs
  /\ i = 0
  /\ currDir = 0
  /\ prevDepth = 0
  /\ children = [k \in 0 .. Len(lines) |-> <<>>]
  /\ ParentDir = [k \in 0 .. Len(lines) |-> 0]

\* One step up is taken for all of them.
DepthAbove_AtOnce(pathDepth) == pathDepth

DepthAbove(pathDepth) == prevDepth - 1

\* for prevDepth > pathDepth: one turn
GoUp ==
  /\ i < Len(lines) /\ prevDepth > lines[i + 1].depth
  /\ currDir' = ParentDir[currDir]
  /\ prevDepth' = DepthAbove(lines[i + 1].depth)
  /\ UNCHANGED <<lines, i, children, ParentDir>>

\* the entry goes to the current directory, and a directory becomes that
AddEntry ==
  /\ i < Len(lines) /\ prevDepth <= lines[i + 1].depth
  /\ i' = i + 1
  /\ children' = [children EXCEPT ![currDir] = Append(@, i + 1)]
  /\ IF lines[i + 1].type = "tree"
     THEN /\ ParentDir' = [ParentDir EXCEPT ![i + 1] = currDir]
          /\ currDir' = i + 1
          /\ prevDepth' = prevDepth + 1
     ELSE UNCHANGED <<ParentDir, currDir, prevDepth>>
  /\ UNCHANGED lines

Next == GoUp \/ AddEntry

Spec == Init /\ [][Next]_vars

-----------------------------------------------------------------------------
\* the directory an entry is in: the last one above it in the output
DirOf(k) ==
  IF lines[k].depth = 0 THEN 0
  ELSE CHOOSE d \in 1 .. k - 1 : /\ lines[d].depth = lines[k].depth - 1
                                 /\ \A e \in d + 1 .. k - 1 : lines[e].depth >= lines[k].depth

\* Every entry is a child of the directory its path names and of no other, in
\* git's order, submodules and directories that close several levels at once
\* included (buildDirectoryTree).
TreeExact ==
  /\ \A k \in 1 .. i, d \in 0 .. i :
       (\E j \in 1 .. Len(children[d]) : children[d][j] = k) <=> d = DirOf(k)
  /\ \A d \in 0 .. i : \A j \in 1 .. Len(children[d]) - 1 : children[d][j] < children[d][j + 1]
=============================================================================
