---------------------------- MODULE GitViewsProofs ----------------------------
(***************************************************************************)
(* Proofs about the views of a repository, for any repository, any page    *)
(* and any fetches meanwhile: the tree of directories is the one the paths *)
(* name, the log is parsed exactly and its table complete when it says so, *)
(* the page of a file is of one commit, every line is blamed on its own    *)
(* commit, the page of a commit has the diff of every file, and the rows   *)
(* of a diff are the lines git showed.                                     *)
(***************************************************************************)
EXTENDS GitViews, FiniteSets, FiniteSetTheorems, WellFoundedInduction, TLAPS

-----------------------------------------------------------------------------
(* buildDirectoryTree.                                                     *)

(* d, 0 for the root, is the directory entry k is in.                      *)
IsDirOf(k, d) ==
    /\ d \in 0 .. (k - 1)
    /\ IF lines[k].depth = 0 THEN d = 0
       ELSE /\ d # 0 /\ lines[d].depth = lines[k].depth - 1
            /\ \A e \in (d + 1) .. (k - 1) : lines[e].depth >= lines[k].depth

(* The depth of what is in directory d.                                    *)
DepthIn(d) == IF d = 0 THEN 0 ELSE lines[d].depth + 1

Line == [depth : 0 .. MaxDepth, type : {"blob", "tree", "commit"}]

DirtreeType ==
    /\ lines \in Seq(Line)
    /\ i \in 0 .. Len(lines) /\ currDir \in 0 .. i /\ prevDepth \in Nat
    /\ children \in [0 .. Len(lines) -> Seq(1 .. i)]
    /\ ParentDir \in [0 .. Len(lines) -> 0 .. Len(lines)]

(* git's order: a directory is followed by its first entry.                *)
LinesInv ==
    /\ lines # <<>> => lines[1].depth = 0
    /\ \A k \in 1 .. (Len(lines) - 1) : IF lines[k].type = "tree" THEN lines[k + 1].depth = lines[k].depth + 1
                                        ELSE lines[k + 1].depth <= lines[k].depth

(***************************************************************************)
(* The current directory is the innermost open one of the depth reached so *)
(* far, and the parent of every directory read is the one it is in.        *)
(***************************************************************************)
CurrentInv ==
    /\ prevDepth = DepthIn(currDir)
    /\ i < Len(lines) => lines[i + 1].depth <= prevDepth
    /\ \A e \in (currDir + 1) .. i : lines[e].depth >= prevDepth
    /\ \A k \in 1 .. i : lines[k].type = "tree" => IsDirOf(k, ParentDir[k])
    /\ currDir # 0 => lines[currDir].type = "tree"
    /\ \A k \in 1 .. i : lines[k].type = "tree" /\ ParentDir[k] # 0 => lines[ParentDir[k]].type = "tree"

ChildrenInv ==
    /\ \A k \in 1 .. i : \E d \in 0 .. Len(lines) : IsDirOf(k, d)
    /\ \A k \in 1 .. i, d \in 0 .. Len(lines) :
         (\E j \in 1 .. Len(children[d]) : children[d][j] = k) <=> IsDirOf(k, d)
    /\ \A d \in 0 .. Len(lines) : \A j \in 1 .. (Len(children[d]) - 1) : children[d][j] < children[d][j + 1]

DirtreeInv == DirtreeType /\ LinesInv /\ CurrentInv /\ ChildrenInv

LEMMA OneDirOf ==
    ASSUME lines \in Seq(Line), NEW k \in 1 .. Len(lines), NEW c, NEW d, IsDirOf(k, c), IsDirOf(k, d)
    PROVE  c = d
<1>1. lines[k] \in Line
      OBVIOUS
<1>2. lines[k].depth \in Nat
      BY <1>1, Assumptions DEF Line, Dirtree!DirtreeAssumption
<1>3. c \in Int /\ d \in Int
      BY DEF IsDirOf
<1>4. ~(c < d) /\ ~(d < c)
      BY <1>2, <1>3 DEF IsDirOf
<1> QED BY <1>3, <1>4

LEMMA LineDepths ==
    ASSUME DirtreeType, NEW k \in 1 .. Len(lines)
    PROVE  lines[k] \in Line /\ lines[k].depth \in Nat
<1>1. lines[k] \in Line
      BY DEF DirtreeType
<1> QED BY <1>1, Assumptions DEF Line, Dirtree!DirtreeAssumption

LEMMA SeqWiden ==
    ASSUME NEW S, NEW T, S \subseteq T, NEW s \in Seq(S)
    PROVE  s \in Seq(T)
<1>1. s \in [1 .. Len(s) -> S] /\ Len(s) \in Nat
      OBVIOUS
<1>2. s \in [1 .. Len(s) -> T]
      BY <1>1
<1> QED BY <1>1, <1>2

LEMMA SeqElement ==
    ASSUME NEW S, NEW s \in Seq(S), NEW j \in 1 .. Len(s)
    PROVE  s[j] \in S
OBVIOUS

LEMMA DirtreeInitially == Dirtree!Init => DirtreeInv
<1> SUFFICES ASSUME Dirtree!Init PROVE DirtreeInv
    OBVIOUS
<1>1. MaxEntries \in Nat /\ MaxDepth \in Nat
      BY Assumptions DEF Dirtree!DirtreeAssumption
<1>2. PICK n \in 0 .. MaxEntries : lines \in [1 .. n -> Line]
      BY DEF Dirtree!Init, Dirtree!Outputs, Line
<1>3. lines \in Seq(Line) /\ Len(lines) = n
      BY <1>1, <1>2
<1>4. LinesInv
      BY <1>3 DEF Dirtree!Init, Dirtree!Outputs, LinesInv
<1>5. /\ i = 0 /\ currDir = 0 /\ prevDepth = 0
      /\ children = [k \in 0 .. Len(lines) |-> <<>>] /\ ParentDir = [k \in 0 .. Len(lines) |-> 0]
      BY DEF Dirtree!Init
<1>6. DirtreeType
  <2>1. 0 \in 0 .. Len(lines)
        BY <1>3
  <2>2. children \in [0 .. Len(lines) -> Seq(1 .. i)]
        BY <1>5
  <2> QED BY <1>3, <1>5, <2>1, <2>2 DEF DirtreeType
<1>7. CurrentInv
  <2>1. i < Len(lines) => lines[i + 1].depth <= prevDepth
        BY <1>3, <1>4, <1>5 DEF LinesInv
  <2> QED BY <1>5, <2>1 DEF CurrentInv, DepthIn
<1>8. ChildrenInv
      BY <1>5 DEF ChildrenInv
<1> QED BY <1>4, <1>6, <1>7, <1>8 DEF DirtreeInv

LEMMA GoUpDirtree ==
    ASSUME DirtreeInv, Dirtree!GoUp
    PROVE  DirtreeInv'
<1> USE DEF DirtreeInv
<1> DEFINE p == ParentDir[currDir]
<1>1. /\ i < Len(lines) /\ prevDepth > lines[i + 1].depth /\ currDir' = p /\ prevDepth' = prevDepth - 1
      /\ UNCHANGED <<lines, i, children, ParentDir>>
      BY DEF Dirtree!GoUp, Dirtree!DepthAbove
<1>2. /\ lines \in Seq(Line) /\ i \in 0 .. Len(lines) /\ currDir \in 0 .. i /\ prevDepth \in Nat
      BY DEF DirtreeType
<1>3. i + 1 \in 1 .. Len(lines) /\ lines[i + 1].depth \in Nat
      BY <1>1, <1>2, LineDepths
<1>4. currDir # 0 /\ currDir \in 1 .. i /\ currDir \in 1 .. Len(lines)
      BY <1>1, <1>2, <1>3 DEF CurrentInv, DepthIn
<1>5. prevDepth = lines[currDir].depth + 1 /\ lines[currDir].type = "tree" /\ lines[currDir].depth \in Nat
      BY <1>4, LineDepths DEF CurrentInv, DepthIn
<1>6. IsDirOf(currDir, p)
      BY <1>4, <1>5 DEF CurrentInv
<1>7. p \in 0 .. (currDir - 1) /\ p \in Nat
      BY <1>4, <1>6 DEF IsDirOf
<1>8. DirtreeType'
      BY <1>1, <1>2, <1>4, <1>5, <1>7 DEF DirtreeType
<1>9. DepthIn(p) = prevDepth - 1
  <2>1. CASE lines[currDir].depth = 0
        BY <1>5, <1>6, <2>1 DEF IsDirOf, DepthIn
  <2>2. CASE lines[currDir].depth # 0
    <3>1. p # 0 /\ lines[p].depth = lines[currDir].depth - 1
          BY <1>6, <2>2 DEF IsDirOf
    <3> QED BY <1>5, <3>1 DEF DepthIn
  <2> QED BY <2>1, <2>2
<1>10. \A e \in (p + 1) .. i : lines[e].depth >= prevDepth - 1
  <2> TAKE e \in (p + 1) .. i
  <2>1. e \in 1 .. Len(lines) /\ lines[e].depth \in Nat
        BY <1>2, <1>7, LineDepths
  <2>2. CASE e < currDir
        BY <1>4, <1>5, <1>6, <1>7, <2>1, <2>2 DEF IsDirOf
  <2>3. CASE e = currDir
        BY <1>5, <2>3
  <2>4. CASE e > currDir
        BY <1>2, <1>4, <2>1, <2>4 DEF CurrentInv
  <2> QED BY <1>4, <2>1, <2>2, <2>3, <2>4
<1>11. p # 0 => lines[p].type = "tree"
       BY <1>4, <1>5 DEF CurrentInv
<1>12. CurrentInv'
  <2>1. lines[i + 1].depth <= prevDepth - 1
        BY <1>1, <1>2, <1>3
  <2>2. \A k \in 1 .. i : lines[k].type = "tree" => IsDirOf(k, ParentDir[k])'
        BY <1>1 DEF CurrentInv, IsDirOf
  <2> QED BY <1>1, <1>9, <1>10, <1>11, <2>1, <2>2 DEF CurrentInv, DepthIn
<1>13. LinesInv' /\ ChildrenInv'
       BY <1>1 DEF LinesInv, ChildrenInv, IsDirOf
<1> QED BY <1>8, <1>12, <1>13

LEMMA AddEntryDirtree ==
    ASSUME DirtreeInv, Dirtree!AddEntry
    PROVE  DirtreeInv'
<1> USE DEF DirtreeInv
<1> DEFINE k == i + 1
<1>1. /\ i < Len(lines) /\ prevDepth <= lines[k].depth /\ i' = k /\ lines' = lines
      /\ children' = [children EXCEPT ![currDir] = Append(@, k)]
      /\ IF lines[k].type = "tree"
         THEN /\ ParentDir' = [ParentDir EXCEPT ![k] = currDir] /\ currDir' = k
              /\ prevDepth' = prevDepth + 1
         ELSE UNCHANGED <<ParentDir, currDir, prevDepth>>
      BY DEF Dirtree!AddEntry
<1>2. /\ lines \in Seq(Line) /\ i \in 0 .. Len(lines) /\ currDir \in 0 .. i /\ prevDepth \in Nat
      /\ children \in [0 .. Len(lines) -> Seq(1 .. i)] /\ ParentDir \in [0 .. Len(lines) -> 0 .. Len(lines)]
      BY DEF DirtreeType
<1>3. k \in 1 .. Len(lines) /\ lines[k].depth \in Nat
      BY <1>1, <1>2, LineDepths
<1>4. lines[k].depth = prevDepth
      BY <1>1, <1>2, <1>3 DEF CurrentInv
<1>5. IsDirOf(k, currDir)
  <2>1. currDir # 0 => currDir \in 1 .. Len(lines) /\ lines[currDir].depth \in Nat
    <3>1. currDir # 0 => currDir \in 1 .. Len(lines)
          BY <1>2
    <3> QED BY <3>1, LineDepths
  <2>2. (k - 1) = i /\ currDir \in 0 .. (k - 1)
        BY <1>2
  <2>3. \A e \in (currDir + 1) .. (k - 1) : lines[e].depth >= lines[k].depth
        BY <1>4, <2>2 DEF CurrentInv
  <2>4. prevDepth = DepthIn(currDir)
        BY DEF CurrentInv
  <2>5. CASE currDir = 0
        BY <1>4, <2>2, <2>4, <2>5 DEF IsDirOf, DepthIn
  <2>6. CASE currDir # 0
    <3>1. lines[k].depth = lines[currDir].depth + 1
          BY <1>4, <2>4, <2>6 DEF DepthIn
    <3> HIDE DEF k
    <3> QED BY <2>1, <2>2, <2>3, <2>6, <3>1 DEF IsDirOf
  <2> QED BY <2>5, <2>6
<1>6. DirtreeType'
  <2>1. \A d \in 0 .. Len(lines) : children[d] \in Seq(1 .. k)
    <3> TAKE d \in 0 .. Len(lines)
    <3>1. children[d] \in Seq(1 .. i) /\ 1 .. i \subseteq 1 .. k
          BY <1>2
    <3> HIDE DEF k
    <3> QED BY <3>1, SeqWiden
  <2>2. Append(children[currDir], k) \in Seq(1 .. k)
        BY <1>2, <2>1
  <2>3. children' \in [0 .. Len(lines) -> Seq(1 .. k)]
        BY <1>1, <1>2, <2>1, <2>2
  <2>4. k \in 0 .. Len(lines) /\ currDir' \in 0 .. k /\ prevDepth' \in Nat
        BY <1>1, <1>2, <1>3
  <2>5. ParentDir' \in [0 .. Len(lines) -> 0 .. Len(lines)]
        BY <1>1, <1>2
  <2> QED BY <1>1, <1>2, <2>3, <2>4, <2>5 DEF DirtreeType
<1>7. CurrentInv'
  <2>1. i' < Len(lines') => lines'[i' + 1].depth <= prevDepth'
    <3> SUFFICES ASSUME k < Len(lines)
                 PROVE  lines[k + 1].depth <= prevDepth'
        BY <1>1
    <3>1. k \in 1 .. (Len(lines) - 1)
          BY <1>2, <1>3
    <3>2. IF lines[k].type = "tree" THEN lines[k + 1].depth = lines[k].depth + 1
          ELSE lines[k + 1].depth <= lines[k].depth
          BY <3>1 DEF LinesInv
    <3>3. k + 1 \in 1 .. Len(lines) /\ lines[k + 1].depth \in Nat
          BY <3>1, <1>2, LineDepths
    <3> HIDE DEF k
    <3> QED BY <1>1, <1>2, <1>3, <1>4, <3>2, <3>3
  <2>2. prevDepth' = DepthIn(currDir)'
        BY <1>1, <1>2, <1>3, <1>4 DEF CurrentInv, DepthIn
  <2>3. \A e \in (currDir' + 1) .. i' : lines'[e].depth >= prevDepth'
    <3>1. CASE lines[k].type = "tree"
          BY <1>1, <1>2, <3>1
    <3>2. CASE lines[k].type # "tree"
      <4>1. \A e \in (currDir + 1) .. k : e \in (currDir + 1) .. i \/ e = k
            BY <1>2
      <4>2. \A e \in (currDir + 1) .. k : lines[e].depth >= prevDepth
            BY <1>3, <1>4, <4>1, <1>2 DEF CurrentInv
      <4> QED BY <1>1, <3>2, <4>2
    <3> QED BY <3>1, <3>2
  <2>4. ASSUME NEW m \in 1 .. k, lines[m].type = "tree"
        PROVE  /\ IsDirOf(m, ParentDir[m])'
               /\ ParentDir'[m] # 0 => lines'[ParentDir'[m]].type = "tree"
    <3>1. CASE m = k
      <4>1. ParentDir'[m] = currDir
            BY <1>1, <1>2, <1>3, <2>4, <3>1
      <4> QED BY <1>1, <1>5, <3>1, <4>1 DEF IsDirOf, CurrentInv
    <3>2. CASE m # k
      <4>1. m \in 1 .. i /\ ParentDir'[m] = ParentDir[m]
            BY <1>1, <1>2, <1>3, <3>2
      <4>2. IsDirOf(m, ParentDir[m]) /\ (ParentDir[m] # 0 => lines[ParentDir[m]].type = "tree")
            BY <2>4, <4>1 DEF CurrentInv
      <4> QED BY <1>1, <4>1, <4>2 DEF IsDirOf
    <3> QED BY <3>1, <3>2
  <2>5. currDir' # 0 => lines'[currDir'].type = "tree"
        BY <1>1 DEF CurrentInv
  <2> QED BY <1>1, <2>1, <2>2, <2>3, <2>4, <2>5 DEF CurrentInv
<1>8. LinesInv'
      BY <1>1 DEF LinesInv
<1>9. \A m, d : IsDirOf(m, d)' <=> IsDirOf(m, d)
      BY <1>1 DEF IsDirOf
<1>10. /\ children'[currDir] = Append(children[currDir], k) /\ children[currDir] \in Seq(1 .. i)
       /\ \A d \in 0 .. Len(lines) : d # currDir => children'[d] = children[d]
       /\ \A d \in 0 .. Len(lines) : children[d] \in Seq(1 .. i)
  <2> DEFINE S == Seq(1 .. i)
  <2>1. children \in [0 .. Len(lines) -> S] /\ currDir \in 0 .. Len(lines)
        BY <1>2
  <2> HIDE DEF S
  <2>2. /\ children'[currDir] = Append(children[currDir], k) /\ children[currDir] \in S
        /\ \A d \in 0 .. Len(lines) : d # currDir => children'[d] = children[d]
        /\ \A d \in 0 .. Len(lines) : children[d] \in S
        BY <1>1, <2>1
  <2> QED BY <2>2 DEF S
<1> HIDE DEF k
<1>11. k = i + 1 /\ k \notin 1 .. i /\ \A m \in 1 .. k : m \in 1 .. i \/ m = k
       BY <1>2 DEF k
<1>12. ASSUME NEW m \in 1 .. k, NEW d \in 0 .. Len(lines)
       PROVE  (\E j \in 1 .. Len(children'[d]) : children'[d][j] = m) <=> IsDirOf(m, d)
  <2>1. CASE d = currDir
    <3>1. (\E j \in 1 .. Len(children'[d]) : children'[d][j] = m)
            <=> m = k \/ (\E j \in 1 .. Len(children[d]) : children[d][j] = m)
      <4> DEFINE s == children[d]
      <4>1. s \in Seq(1 .. i) /\ children'[d] = Append(s, k)
            BY <1>10, <2>1
      <4> HIDE DEF s
      <4>2. /\ Len(Append(s, k)) = Len(s) + 1 /\ Append(s, k)[Len(s) + 1] = k /\ Len(s) \in Nat
            /\ \A j \in 1 .. Len(s) : Append(s, k)[j] = s[j]
            BY <4>1
      <4> QED BY <4>1, <4>2 DEF s
    <3>2. CASE m = k
          BY <1>5, <2>1, <3>1, <3>2
    <3>3. CASE m # k
          BY <1>11, <3>1, <3>3 DEF ChildrenInv
    <3> QED BY <3>2, <3>3
  <2>2. CASE d # currDir
    <3>1. children'[d] = children[d] /\ children[d] \in Seq(1 .. i)
          BY <1>10, <2>2
    <3>2. CASE m = k
      <4>1. ~\E j \in 1 .. Len(children[d]) : children[d][j] = m
            BY <1>11, <3>1, <3>2, SeqElement
      <4>2. ~IsDirOf(k, d)
            BY <1>2, <1>3, <1>5, <2>2, OneDirOf
      <4> QED BY <3>1, <3>2, <4>1, <4>2
    <3>3. CASE m # k
          BY <1>11, <3>1, <3>3 DEF ChildrenInv
    <3> QED BY <3>2, <3>3
  <2> QED BY <2>1, <2>2
<1>13. ASSUME NEW d \in 0 .. Len(lines), NEW j \in 1 .. (Len(children'[d]) - 1)
       PROVE  children'[d][j] < children'[d][j + 1]
  <2> DEFINE s == children[d]
  <2>1. s \in Seq(1 .. i)
        BY <1>10
  <2>2. \A l \in 1 .. (Len(s) - 1) : s[l] < s[l + 1]
        BY DEF ChildrenInv
  <2> HIDE DEF s
  <2>3. CASE d = currDir
    <3>1. children'[d] = Append(s, k)
          BY <1>10, <2>3 DEF s
    <3>2. Len(Append(s, k)) = Len(s) + 1 /\ Len(s) \in Nat
          BY <2>1
    <3>3. CASE j = Len(s)
      <4>1. s[j] \in 1 .. i /\ Append(s, k)[j] = s[j] /\ Append(s, k)[j + 1] = k
        <5>1. j \in 1 .. Len(s) /\ j + 1 = Len(s) + 1
              BY <3>1, <3>2, <3>3
        <5>2. s[j] \in 1 .. i
              BY <2>1, <5>1, SeqElement
        <5> QED BY <2>1, <5>1, <5>2
      <4> QED BY <1>2, <1>11, <3>1, <4>1
    <3>4. CASE j # Len(s)
      <4>1. j \in 1 .. (Len(s) - 1)
            BY <3>1, <3>2, <3>4
      <4>2. Append(s, k)[j] = s[j] /\ Append(s, k)[j + 1] = s[j + 1]
            BY <2>1, <3>2, <4>1
      <4> QED BY <2>2, <3>1, <4>1, <4>2
    <3> QED BY <3>3, <3>4
  <2>4. CASE d # currDir
        BY <1>10, <2>2, <2>4 DEF s
  <2> QED BY <2>3, <2>4
<1>14. ChildrenInv'
  <2>1. \A m \in 1 .. k : \E d \in 0 .. Len(lines) : IsDirOf(m, d)
        BY <1>2, <1>5, <1>11 DEF ChildrenInv
  <2> QED BY <1>1, <1>9, <1>12, <1>13, <2>1 DEF ChildrenInv, k
<1> QED BY <1>6, <1>7, <1>8, <1>14

LEMMA DirtreeNext == DirtreeInv /\ Dirtree!Next => DirtreeInv'
BY GoUpDirtree, AddEntryDirtree DEF Dirtree!Next

(* The directory of the definition is the one of the invariant.            *)
LEMMA DirOfIs ==
    ASSUME DirtreeInv, NEW k \in 1 .. i, NEW d \in 0 .. Len(lines), IsDirOf(k, d)
    PROVE  Dirtree!DirOf(k) = d
<1> DEFINE P(c) == /\ lines[c].depth = lines[k].depth - 1
                   /\ \A e \in (c + 1) .. (k - 1) : lines[e].depth >= lines[k].depth
<1>1. lines \in Seq(Line) /\ k \in 1 .. Len(lines)
      BY DEF DirtreeInv, DirtreeType
<1>2. CASE lines[k].depth = 0
      BY <1>2 DEF Dirtree!DirOf, IsDirOf
<1>3. CASE lines[k].depth # 0
  <2>1. d \in 1 .. (k - 1) /\ P(d)
        BY <1>1, <1>3 DEF IsDirOf
  <2>2. \A c \in 1 .. (k - 1) : P(c) => c = d
    <3> TAKE c \in 1 .. (k - 1)
    <3>1. P(c) => IsDirOf(k, c)
          BY <1>1, <1>3 DEF IsDirOf
    <3> QED BY <1>1, <3>1, OneDirOf
  <2>3. Dirtree!DirOf(k) = CHOOSE c \in 1 .. (k - 1) : P(c)
        BY <1>3 DEF Dirtree!DirOf
  <2> HIDE DEF P
  <2> QED BY <2>1, <2>2, <2>3
<1> QED BY <1>2, <1>3

LEMMA TreeFromInv == DirtreeInv => Dirtree!TreeExact
<1> SUFFICES ASSUME DirtreeInv PROVE Dirtree!TreeExact
    OBVIOUS
<1>1. lines \in Seq(Line) /\ i \in 0 .. Len(lines)
      BY DEF DirtreeInv, DirtreeType
<1>2. ASSUME NEW k \in 1 .. i, NEW d \in 0 .. i
      PROVE  (\E j \in 1 .. Len(children[d]) : children[d][j] = k) <=> d = Dirtree!DirOf(k)
  <2>1. d \in 0 .. Len(lines)
        BY <1>1
  <2>2. PICK c \in 0 .. Len(lines) : IsDirOf(k, c)
        BY DEF DirtreeInv, ChildrenInv
  <2>3. Dirtree!DirOf(k) = c
        BY <2>2, DirOfIs
  <2>4. IsDirOf(k, d) <=> d = c
        BY <1>1, <2>2, OneDirOf
  <2> QED BY <2>1, <2>3, <2>4 DEF DirtreeInv, ChildrenInv
<1>3. \A d \in 0 .. i : \A j \in 1 .. (Len(children[d]) - 1) : children[d][j] < children[d][j + 1]
  <2>1. \A d \in 0 .. i : d \in 0 .. Len(lines)
        BY <1>1
  <2> QED BY <2>1 DEF DirtreeInv, ChildrenInv
<1> QED BY <1>2, <1>3 DEF Dirtree!TreeExact

(***************************************************************************)
(* buildDirectoryTree: at every moment each entry read is a child of the   *)
(* directory its path names and of no other, in git's order, however many  *)
(* levels an entry closes at once.                                         *)
(***************************************************************************)
THEOREM TreeIsExact == Spec => []TreeExact
<1>1. Init => (part = "Dirtree" => DirtreeInv)
      BY DirtreeInitially DEF Init
<1>2. (part = "Dirtree" => DirtreeInv) /\ [Next]_all => (part = "Dirtree" => DirtreeInv)'
  <2> SUFFICES ASSUME part = "Dirtree" => DirtreeInv, [Next]_all, part' = "Dirtree"
               PROVE  DirtreeInv'
      OBVIOUS
  <2>1. CASE DirtreeStep(Dirtree!Next)
        BY <2>1, DirtreeNext DEF DirtreeStep
  <2>2. CASE \/ DiffStep(Diff!Next) \/ BlameStep(Blame!Next) \/ ShowStep(Show!Next)
             \/ LogStep(Log!Next) \/ ViewStep(View!Next)
        BY <2>2 DEF DiffStep, BlameStep, ShowStep, LogStep, ViewStep
  <2>3. CASE UNCHANGED all
    <3>1. UNCHANGED <<part, dirtreeVars>>
          BY <2>3 DEF all
    <3>2. UNCHANGED <<lines, i, currDir, prevDepth, children, ParentDir>> /\ DirtreeInv
          BY <3>1 DEF dirtreeVars
    <3>3. DirtreeType' /\ LinesInv'
          BY <3>2 DEF DirtreeInv, DirtreeType, LinesInv
    <3>4. CurrentInv'
          BY <3>2 DEF DirtreeInv, CurrentInv, IsDirOf, DepthIn
    <3>5. ChildrenInv'
          BY <3>2 DEF DirtreeInv, ChildrenInv, IsDirOf
    <3> QED BY <3>3, <3>4, <3>5 DEF DirtreeInv
  <2> QED BY <2>1, <2>2, <2>3 DEF Next
<1>3. (part = "Dirtree" => DirtreeInv) => TreeExact
      BY TreeFromInv DEF TreeExact
<1> QED BY <1>1, <1>2, <1>3, PTL DEF Spec

-----------------------------------------------------------------------------
(* BuildGitLog and the history table.                                      *)

Text == STRING \cup {Log!Blank, Log!Field}
Word == STRING \ {Log!Blank}
LogCommit == [id : Word, files : Seq(Word)]
ParsedCommit == [id : Seq(Text), files : Seq(Text)]
ParsedCommits == Seq(ParsedCommit)
Request == [skip : {0, Step}, n : {0, Step}, all : BOOLEAN]
Job == [busy : {TRUE}, req : Request, page : Seq(LogCommit), raw : Seq(Seq(Text)), commits : ParsedCommits]

LogType ==
    /\ history \in Seq(LogCommit) /\ Len(history) <= MaxHistory
    /\ nameOnly \in BOOLEAN
    /\ inflight \in Seq(Request)
    /\ job = Log!Idle \/ job \in Job
    /\ log_rows \in ParsedCommits
    /\ buttons \in BOOLEAN
    /\ first \in Seq(LogCommit)

(* What parseNextCommitFromLog makes of a commit of the page.              *)
Wanted(c) == [id |-> <<c.id>>, files |-> IF nameOnly THEN c.files ELSE <<>>]

(* The text between commit k of a page and the next: the names, the id.    *)
Between(page_, k) ==
    IF k = Len(page_) THEN Log!NameLines(page_[k]) ELSE Log!NameLines(page_[k]) \o <<page_[k + 1].id>>

(* What is left of git's output when r commits of the page have been read. *)
RawAfter(page_, r, raw) ==
    IF r = Len(page_) THEN Log!EmptyLog(raw)
    ELSE /\ Len(raw) = 10 * (Len(page_) - r) + 1
         /\ Log!TrimNewline(raw[1]) = <<page_[r + 1].id>>
         /\ \A m \in 1 .. (Len(page_) - r) : raw[10 * m + 1] = Between(page_, r + m)

ReadInv(j) ==
    /\ Len(j.commits) <= Len(j.page)
    /\ \A k \in 1 .. Len(j.commits) : j.commits[k] = Wanted(j.page[k])
    /\ RawAfter(j.page, Len(j.commits), j.raw)
ParseInv == job.busy => ReadInv(job)

LEMMA LogFacts ==
    /\ Step \in Nat \ {0} /\ MaxHistory \in Nat
    /\ Hashes \in Seq(Word) /\ MaxHistory <= Len(Hashes)
    /\ FileLists \subseteq Seq(Word)
BY Assumptions DEF Log!LogAssumption, Word

LEMMA Framed ==
    ASSUME NEW f \in Seq(Text)
    PROVE  LET u == <<Log!Blank>> \o f \o <<Log!Blank>>
           IN  /\ u \in Seq(Text) /\ Len(u) = Len(f) + 2 /\ Len(f) \in Nat
               /\ u[1] = Log!Blank /\ u[Len(f) + 2] = Log!Blank
               /\ \A k \in 1 .. Len(f) : u[k + 1] = f[k]
<1> DEFINE v == <<Log!Blank>> \o f
           u == v \o <<Log!Blank>>
<1>1. Log!Blank \in Text
      BY DEF Text
<1>2. /\ v \in Seq(Text) /\ Len(v) = Len(f) + 1 /\ Len(f) \in Nat /\ v[1] = Log!Blank
      /\ \A k \in 1 .. Len(f) : v[k + 1] = f[k]
      BY <1>1
<1> HIDE DEF v
<1>3. /\ u \in Seq(Text) /\ Len(u) = Len(v) + 1 /\ u[Len(v) + 1] = Log!Blank
      /\ \A k \in 1 .. Len(v) : u[k] = v[k]
      BY <1>1, <1>2
<1> HIDE DEF u
<1>4. /\ u \in Seq(Text) /\ Len(u) = Len(f) + 2 /\ Len(f) \in Nat
      /\ u[1] = Log!Blank /\ u[Len(f) + 2] = Log!Blank
      /\ \A k \in 1 .. Len(f) : u[k + 1] = f[k]
      BY <1>2, <1>3
<1> QED BY <1>4 DEF u, v

LEMMA LogSets == \A S : Log!Cardinality(S) = Cardinality(S)
BY DEF Log!Cardinality, Cardinality

LEMMA FirstNaturals ==
    ASSUME NEW m \in Nat
    PROVE  IsFiniteSet(1 .. m) /\ Cardinality(1 .. m) = m
<1>1. 1 \in Int /\ m \in Int /\ (1 > m => m = 0) /\ (m - 1) + 1 = m
      OBVIOUS
<1> QED BY <1>1, FS_Interval

(* The file names of a text, when what follows them is empty or dropped.   *)
LEMMA FileLinesAre ==
    ASSUME NEW t \in Seq(Text), NEW f \in Seq(Word), Len(t) \in {Len(f) + 1, Len(f) + 2},
           \A k \in 1 .. Len(f) : t[k] = f[k],
           Len(t) = Len(f) + 2 => t[Len(f) + 1] = Log!Blank
    PROVE  Log!FileLines(t) = f
<1> DEFINE names == {k \in 1 .. Len(t) - 1 : t[k] # Log!Blank}
           upTo(k) == {j \in names : j <= k}
           nth(n) == CHOOSE k \in names : Log!Cardinality(upTo(k)) = n
<1>1. Len(f) \in Nat /\ \A k \in 1 .. Len(f) : f[k] # Log!Blank
  <2>1. \A k \in 1 .. Len(f) : f[k] \in Word
        OBVIOUS
  <2> QED BY <2>1 DEF Word
<1>2. names = 1 .. Len(f)
      BY <1>1
<1>3. \A k \in names : Log!Cardinality(upTo(k)) = k
  <2> TAKE k \in names
  <2>1. upTo(k) = 1 .. k /\ k \in Nat
        BY <1>1, <1>2
  <2> HIDE DEF upTo, names
  <2> QED BY <2>1, LogSets, FirstNaturals
<1>4. \A n \in names : nth(n) = n
      BY <1>3
<1>5. Log!FileLines(t) = [n \in 1 .. Log!Cardinality(names) |-> t[nth(n)]]
      BY DEF Log!FileLines
<1>6. Log!Cardinality(names) = Len(f)
      BY <1>1, <1>2, LogSets, FirstNaturals
<1> HIDE DEF names, nth
<1>7. Log!FileLines(t) = [n \in 1 .. Len(f) |-> f[n]]
      BY <1>2, <1>4, <1>5, <1>6
<1> QED BY <1>7

(* The names of a commit are read from the text after it, and the id of    *)
(* the next one.                                                           *)
LEMMA NamesRead ==
    ASSUME nameOnly, NEW c \in LogCommit
    PROVE  /\ Log!FileLines(Log!TrimNewline(Log!NameLines(c))) = c.files
           /\ Log!NameLines(c) \in Seq(Text)
<1>1. c.files \in Seq(Word) /\ c.files \in Seq(Text)
  <2>1. c.files \in Seq(Word)
        BY DEF LogCommit
  <2> QED BY <2>1, SeqWiden DEF Word, Text
<1> DEFINE f == c.files
           u == <<Log!Blank>> \o f \o <<Log!Blank>>
<1>2. CASE f = <<>>
  <2>1. Log!NameLines(c) = <<Log!Blank>> /\ Log!TrimNewline(<<Log!Blank>>) = <<Log!Blank>>
        BY <1>2 DEF Log!NameLines, Log!TrimNewline
  <2>2. <<Log!Blank>> \in Seq(Text) /\ Len(<<Log!Blank>>) = Len(f) + 1 /\ Len(f) = 0
        BY <1>2 DEF Text
  <2>3. Log!FileLines(<<Log!Blank>>) = f
    <3>1. /\ f \in Seq(Word) /\ \A k \in 1 .. Len(f) : <<Log!Blank>>[k] = f[k]
          /\ Len(<<Log!Blank>>) \in {Len(f) + 1, Len(f) + 2} /\ Len(<<Log!Blank>>) # Len(f) + 2
          BY <1>1, <2>2
    <3> HIDE DEF f
    <3> QED BY <3>1, <2>2, FileLinesAre
  <2> QED BY <2>1, <2>2, <2>3
<1>3. CASE f # <<>>
  <2>1. Log!NameLines(c) = u
        BY <1>3 DEF Log!NameLines
  <2> HIDE DEF f
  <2>2. /\ u \in Seq(Text) /\ Len(u) = Len(f) + 2 /\ Len(f) \in Nat /\ u[1] = Log!Blank
        /\ u[Len(f) + 2] = Log!Blank /\ \A k \in 1 .. Len(f) : u[k + 1] = f[k]
        BY <1>1, Framed DEF f
  <2> HIDE DEF u
  <2>3. /\ Tail(u) \in Seq(Text) /\ Len(Tail(u)) = Len(f) + 1
        /\ \A k \in 1 .. (Len(f) + 1) : Tail(u)[k] = u[k + 1]
        BY <2>2
  <2>4. Log!TrimNewline(u) = Tail(u)
        BY <2>2 DEF Log!TrimNewline
  <2>5. \A k \in 1 .. Len(f) : Tail(u)[k] = f[k]
        BY <2>2, <2>3
  <2>6. Log!FileLines(Tail(u)) = f
    <3>1. f \in Seq(Word) /\ Len(Tail(u)) \in {Len(f) + 1, Len(f) + 2} /\ Len(Tail(u)) # Len(f) + 2
          BY <1>1, <2>2, <2>3 DEF f
    <3> QED BY <3>1, <2>3, <2>5, FileLinesAre
  <2> QED BY <2>1, <2>2, <2>4, <2>6 DEF f
<1> QED BY <1>2, <1>3

LEMMA BlankTrimmed ==
    ASSUME NEW id \in Word
    PROVE  Log!TrimNewline(<<Log!Blank>> \o <<id>>) = <<id>>
<1> DEFINE w == <<Log!Blank>> \o <<id>>
<1>1. id \in Text /\ Log!Blank \in Text
      BY DEF Word, Text
<1>2. Len(w) = 2 /\ w[1] = Log!Blank /\ w[2] = id /\ DOMAIN w = 1 .. 2 /\ w \in Seq(Text)
      BY <1>1
<1> HIDE DEF w
<1>3. w = <<Log!Blank, id>>
      BY <1>2
<1>4. Log!TrimNewline(<<Log!Blank, id>>) = <<id>>
      BY DEF Log!TrimNewline
<1> QED BY <1>3, <1>4 DEF w

LEMMA NamesAndIdRead ==
    ASSUME nameOnly, NEW c \in LogCommit, NEW id \in Word
    PROVE  /\ Log!FileLines(Log!TrimNewline(Log!NameLines(c) \o <<id>>)) = c.files
           /\ Log!NextCommit(Log!TrimNewline(Log!NameLines(c) \o <<id>>)) = id
<1>1. c.files \in Seq(Word) /\ c.files \in Seq(Text) /\ id \in Text
  <2>1. c.files \in Seq(Word)
        BY DEF LogCommit
  <2> QED BY <2>1, SeqWiden DEF Word, Text
<1> DEFINE f == c.files
           u == <<Log!Blank>> \o f \o <<Log!Blank>>
           v == u \o <<id>>
<1>2. CASE f = <<>>
  <2>1. Log!NameLines(c) = <<Log!Blank>>
        BY <1>2 DEF Log!NameLines
  <2>2. Log!TrimNewline(Log!NameLines(c) \o <<id>>) = <<id>>
        BY <2>1, BlankTrimmed
  <2>3. <<id>> \in Seq(Text) /\ Len(<<id>>) = Len(f) + 1 /\ Len(f) = 0
        BY <1>1, <1>2
  <2>4. Log!FileLines(<<id>>) = f
    <3>1. /\ f \in Seq(Word) /\ \A k \in 1 .. Len(f) : <<id>>[k] = f[k]
          /\ Len(<<id>>) \in {Len(f) + 1, Len(f) + 2} /\ Len(<<id>>) # Len(f) + 2
          BY <1>1, <2>3
    <3> HIDE DEF f
    <3> QED BY <3>1, <2>3, FileLinesAre
  <2>5. Log!NextCommit(<<id>>) = id
        BY DEF Log!NextCommit
  <2> QED BY <2>1, <2>2, <2>4, <2>5
<1>3. CASE f # <<>>
  <2>1. Log!NameLines(c) \o <<id>> = v
        BY <1>3 DEF Log!NameLines
  <2> HIDE DEF f
  <2>2. /\ u \in Seq(Text) /\ Len(u) = Len(f) + 2 /\ Len(f) \in Nat /\ u[1] = Log!Blank
        /\ u[Len(f) + 2] = Log!Blank /\ \A k \in 1 .. Len(f) : u[k + 1] = f[k]
        BY <1>1, Framed DEF f
  <2> HIDE DEF u
  <2>3. /\ v \in Seq(Text) /\ Len(v) = Len(f) + 3 /\ v[Len(f) + 3] = id
        /\ \A k \in 1 .. (Len(f) + 2) : v[k] = u[k]
        BY <1>1, <2>2
  <2> HIDE DEF v
  <2>4. /\ Tail(v) \in Seq(Text) /\ Len(Tail(v)) = Len(f) + 2
        /\ \A k \in 1 .. (Len(f) + 2) : Tail(v)[k] = v[k + 1]
        BY <2>2, <2>3
  <2>5. Log!TrimNewline(v) = Tail(v)
        BY <2>2, <2>3 DEF Log!TrimNewline
  <2>6. /\ \A k \in 1 .. Len(f) : Tail(v)[k] = f[k]
        /\ Tail(v)[Len(f) + 1] = Log!Blank /\ Tail(v)[Len(f) + 2] = id
        BY <2>2, <2>3, <2>4
  <2>7. Log!FileLines(Tail(v)) = f
        BY <1>1, <2>2, <2>4, <2>6, FileLinesAre DEF f
  <2>8. Log!NextCommit(Tail(v)) = id
        BY <2>4, <2>6 DEF Log!NextCommit
  <2> QED BY <2>1, <2>5, <2>7, <2>8 DEF f
<1> QED BY <1>2, <1>3

LEMMA NamesType ==
    ASSUME NEW c \in LogCommit
    PROVE  Log!NameLines(c) \in Seq(Text) /\ Len(Log!NameLines(c)) \in Nat
<1>1. CASE nameOnly
      BY <1>1, NamesRead
<1>2. CASE ~nameOnly
  <2>1. Log!NameLines(c) = <<Log!Blank>>
        BY <1>2 DEF Log!NameLines
  <2> QED BY <2>1 DEF Text
<1> QED BY <1>1, <1>2

LEMMA CommitIds ==
    ASSUME NEW c \in LogCommit
    PROVE  c.id \in Word /\ c.id \in Text /\ c.id # Log!Blank
<1>1. c.id \in Word
      BY DEF LogCommit
<1> QED BY <1>1 DEF Word, Text

LEMMA BetweenType ==
    ASSUME NEW p \in Seq(LogCommit), NEW k \in 1 .. Len(p)
    PROVE  Between(p, k) \in Seq(Text)
<1>1. p[k] \in LogCommit /\ (k # Len(p) => p[k + 1] \in LogCommit)
      BY SeqElement
<1>2. Log!NameLines(p[k]) \in Seq(Text)
      BY <1>1, NamesType
<1>3. k # Len(p) => <<p[k + 1].id>> \in Seq(Text)
      BY <1>1, CommitIds
<1> QED BY <1>2, <1>3 DEF Between

(* git's output before anything is read.                                   *)
LEMMA OutputAfter ==
    ASSUME NEW p \in Seq(LogCommit)
    PROVE  Log!GitOutput(p) \in Seq(Seq(Text)) /\ RawAfter(p, 0, Log!GitOutput(p))
<1> DEFINE raw == Log!GitOutput(p)
           N == 10 * Len(p) + 1
<1>1. N \in Nat /\ Len(p) \in Nat
      OBVIOUS
<1>2. DOMAIN raw = 1 .. N
      BY DEF Log!GitOutput
<1>3. CASE Len(p) = 0
  <2>1. raw = [j \in 1 .. 1 |-> raw[j]] /\ raw[1] = <<Log!Blank>>
        BY <1>3 DEF Log!GitOutput
  <2>2. raw = << <<Log!Blank>> >>
        BY <2>1
  <2>3. <<Log!Blank>> \in Seq(Text)
        BY DEF Text
  <2> QED BY <1>3, <2>2, <2>3 DEF RawAfter, Log!EmptyLog
<1>4. CASE Len(p) # 0
  <2>1. \A j \in 1 .. N : (j - 1) % 10 # 0 => raw[j] = <<Log!Field>>
        BY DEF Log!GitOutput
  <2>2. raw[1] = <<p[1].id>>
        BY <1>1, <1>4 DEF Log!GitOutput
  <2>3. \A m \in 1 .. Len(p) : raw[10 * m + 1] = Between(p, m)
    <3> TAKE m \in 1 .. Len(p)
    <3> DEFINE j == 10 * m + 1
    <3>1. j \in 1 .. N /\ (j - 1) % 10 = 0 /\ (j - 1) \div 10 = m /\ m + 1 # 1
          BY <1>1
    <3> HIDE DEF j
    <3> DEFINE k == ((j - 1) \div 10) + 1
    <3>2. raw[j] = IF (j - 1) % 10 # 0 THEN <<Log!Field>>
                   ELSE IF Len(p) = 0 THEN <<Log!Blank>>
                   ELSE IF k = 1 THEN <<p[1].id>>
                   ELSE IF k = Len(p) + 1 THEN Log!NameLines(p[k - 1])
                   ELSE Log!NameLines(p[k - 1]) \o <<p[k].id>>
          BY <3>1 DEF Log!GitOutput
    <3>3. k = m + 1 /\ k - 1 = m /\ (k = Len(p) + 1 <=> m = Len(p))
          BY <3>1, <1>1
    <3> HIDE DEF k
    <3>4. raw[j] = Between(p, m)
          BY <3>1, <3>2, <3>3, <1>4 DEF Between
    <3> QED BY <3>4 DEF j
  <2>4. \A j \in 1 .. N : raw[j] \in Seq(Text)
    <3> TAKE j \in 1 .. N
    <3>1. CASE (j - 1) % 10 # 0
      <4>1. Log!Field \in Text /\ raw[j] = <<Log!Field>>
            BY <2>1, <3>1 DEF Text
      <4> HIDE DEF raw
      <4> QED BY <4>1
    <3>2. CASE j = 1
      <4>1. p[1] \in LogCommit
            BY <1>1, <1>4, SeqElement
      <4>2. p[1].id \in Text /\ raw[j] = <<p[1].id>>
            BY <4>1, <2>2, <3>2, CommitIds
      <4> HIDE DEF raw
      <4> QED BY <4>2
    <3>3. CASE (j - 1) % 10 = 0 /\ j # 1
      <4>1. PICK m \in 1 .. Len(p) : j = 10 * m + 1
        <5>1. (j - 1) \div 10 \in 1 .. Len(p) /\ j = 10 * ((j - 1) \div 10) + 1
              BY <3>3, <1>1
        <5> QED BY <5>1
      <4> HIDE DEF raw
      <4> QED BY <4>1, <2>3, BetweenType
    <3> QED BY <3>1, <3>2, <3>3
  <2> HIDE DEF raw
  <2>5. raw \in Seq(Seq(Text)) /\ Len(raw) = N
    <3>1. raw = [j \in 1 .. N |-> raw[j]]
          BY <1>2 DEF raw, Log!GitOutput
    <3>2. raw \in [1 .. N -> Seq(Text)]
          BY <3>1, <2>4
    <3> HIDE DEF N
    <3> QED BY <3>2, <1>1
  <2>6. Log!TrimNewline(raw[1]) = <<p[1].id>>
        BY <2>2 DEF Log!TrimNewline
  <2>7. RawAfter(p, 0, raw)
    <3>1. \A m \in 1 .. (Len(p) - 0) : raw[10 * m + 1] = Between(p, 0 + m)
          BY <2>3, <1>1
    <3> QED BY <1>1, <1>4, <2>5, <2>6, <3>1 DEF RawAfter
  <2> QED BY <2>5, <2>7 DEF raw
<1> QED BY <1>1, <1>3, <1>4

LEMMA Single ==
    ASSUME NEW S, NEW s \in Seq(S), Len(s) = 1
    PROVE  s = <<s[1]>>
OBVIOUS

LEMMA Prefixed ==
    ASSUME NEW S, NEW x \in S, NEW s \in Seq(S)
    PROVE  LET u == <<x>> \o s
           IN  /\ u \in Seq(S) /\ Len(u) = Len(s) + 1 /\ Len(s) \in Nat /\ u[1] = x
               /\ \A k \in 1 .. Len(s) : u[k + 1] = s[k]
OBVIOUS

(* One turn of the parser: the commit read is the next one of the page, and *)
(* what is left is what git wrote after it.                                *)
LEMMA TurnReads ==
    ASSUME NEW p \in Seq(LogCommit), NEW r \in Nat, r <= Len(p),
           NEW raw \in Seq(Seq(Text)), RawAfter(p, r, raw), ~Log!EmptyLog(raw),
           nameOnly \in BOOLEAN
    PROVE  /\ r < Len(p) /\ Len(raw) >= Log!PartsPerCommit
           /\ Log!ParsedCommit(raw) = Wanted(p[r + 1])
           /\ Log!Rest(raw) \in Seq(Seq(Text)) /\ RawAfter(p, r + 1, Log!Rest(raw))
<1> DEFINE d == Len(p) - r
           c == p[r + 1]
           t == raw[11]
<1>1. r < Len(p) /\ Len(p) \in Nat
      BY DEF RawAfter
<1>2. /\ Len(raw) = 10 * d + 1 /\ Log!TrimNewline(raw[1]) = <<c.id>>
      /\ \A m \in 1 .. d : raw[10 * m + 1] = Between(p, r + m)
      BY <1>1 DEF RawAfter
<1>3. d \in Nat /\ d >= 1 /\ Len(raw) >= 11 /\ r + 1 \in 1 .. Len(p)
      BY <1>1, <1>2
<1> HIDE DEF d, c, t
<1>4. t = Between(p, r + 1) /\ t \in Seq(Text)
  <2>1. 1 \in 1 .. d /\ 10 * 1 + 1 = 11
        BY <1>3
  <2> QED BY <2>1, <1>2, <1>3, BetweenType DEF t
<1>5. c \in LogCommit /\ (d > 1 => p[r + 2] \in LogCommit)
  <2>1. d > 1 => r + 2 \in 1 .. Len(p)
        BY <1>1 DEF d
  <2> QED BY <1>3, <2>1, SeqElement DEF c
<1>6. Log!PartsPerCommit = IF nameOnly THEN 11 ELSE 10
      BY DEF Log!PartsPerCommit, Log!partsPerCommitBasic, Log!partsPerCommitWithFileNames
<1>7. d = 1 => t = Log!NameLines(c)
      BY <1>4, <1>1 DEF Between, c, d
<1>8. d > 1 => t = Log!NameLines(c) \o <<p[r + 2].id>>
  <2>1. d > 1 => r + 1 # Len(p) /\ (r + 1) + 1 = r + 2
        BY <1>1 DEF d
  <2> QED BY <1>4, <2>1 DEF Between, c
<1>9. nameOnly => Log!FileLines(Log!TrimNewline(t)) = c.files
  <2> SUFFICES ASSUME nameOnly PROVE Log!FileLines(Log!TrimNewline(t)) = c.files
      OBVIOUS
  <2>1. CASE d = 1
        BY <2>1, <1>7, <1>5, NamesRead
  <2>2. CASE d > 1
    <3>1. p[r + 2].id \in Word
          BY <2>2, <1>5, CommitIds
    <3> QED BY <2>2, <3>1, <1>8, <1>5, NamesAndIdRead
  <2> QED BY <2>1, <2>2, <1>3
<1>10. Log!ParsedCommit(raw) = Wanted(c)
       BY <1>2, <1>9 DEF Log!ParsedCommit, Wanted, t
<1>11. Log!Rest(raw) \in Seq(Seq(Text)) /\ RawAfter(p, r + 1, Log!Rest(raw))
  <2>0. Len(p) - (r + 1) = d - 1 /\ (r + 1 = Len(p) <=> d = 1) /\ (r + 1) + 1 = r + 2
        BY <1>1 DEF d
  <2>1. CASE nameOnly /\ d = 1
    <3>1. Log!Rest(raw) = <<>>
          BY <2>1, <1>2, <1>6 DEF Log!Rest
    <3> QED BY <3>1, <2>0, <2>1 DEF RawAfter, Log!EmptyLog
  <2>2. CASE nameOnly /\ d > 1
    <3> DEFINE id == p[r + 2].id
               rest == SubSeq(raw, 12, Len(raw))
               left == << <<id>> >> \o rest
    <3>1. id \in Word /\ id # Log!Blank /\ <<id>> \in Seq(Text)
          BY <2>2, <1>5, CommitIds
    <3>2. Log!NextCommit(Log!TrimNewline(t)) = id
          BY <2>2, <3>1, <1>8, <1>5, NamesAndIdRead
    <3>3. Log!Rest(raw) = left
      <4>1. ~(Len(raw) <= 11) /\ 11 + 1 = 12
            BY <1>2, <2>2, <1>3
      <4> QED BY <4>1, <3>1, <3>2, <2>2, <1>6 DEF Log!Rest, t
    <3>4. /\ rest \in Seq(Seq(Text)) /\ Len(rest) = 10 * (d - 1)
          /\ \A k \in 1 .. Len(rest) : rest[k] = raw[k + 11]
          BY <1>2, <1>3, <2>2
    <3> HIDE DEF rest, id
    <3>5. /\ left \in Seq(Seq(Text)) /\ Len(left) = Len(rest) + 1
          /\ left[1] = <<id>> /\ \A k \in 1 .. Len(rest) : left[k + 1] = rest[k]
          BY <3>1, <3>4, Prefixed
    <3> HIDE DEF left
    <3>9. Len(rest) = 10 * (d - 1) /\ Len(left) = 10 * (d - 1) + 1
          BY <3>4, <3>5
    <3>6. \A m \in 1 .. (d - 1) : left[10 * m + 1] = Between(p, (r + 1) + m)
      <4> TAKE m \in 1 .. (d - 1)
      <4>1. 10 * m \in 1 .. Len(rest) /\ m + 1 \in 1 .. d
        <5>1. m \in Nat /\ m >= 1 /\ m <= d - 1
              BY <1>3
        <5> QED BY <5>1, <3>9, <1>3
      <4>2. left[10 * m + 1] = raw[10 * m + 11]
            BY <4>1, <3>4, <3>5
      <4>3. 10 * m + 11 = 10 * (m + 1) + 1 /\ r + (m + 1) = (r + 1) + m
            BY <1>3
      <4> QED BY <4>1, <4>2, <4>3, <1>2
    <3>7. Log!TrimNewline(left[1]) = <<id>>
          BY <3>5 DEF Log!TrimNewline
    <3>8. RawAfter(p, r + 1, left)
      <4>1. /\ Len(left) = 10 * (Len(p) - (r + 1)) + 1
            /\ \A m \in 1 .. (Len(p) - (r + 1)) : left[10 * m + 1] = Between(p, (r + 1) + m)
            BY <2>0, <3>6, <3>9
      <4>2. r + 1 # Len(p) /\ p[(r + 1) + 1].id = id
            BY <2>0, <2>2 DEF id
      <4> QED BY <4>1, <4>2, <3>7 DEF RawAfter
    <3> QED BY <3>3, <3>5, <3>8
  <2>3. CASE ~nameOnly
    <3> DEFINE left == SubSeq(raw, 11, Len(raw))
    <3>1. Log!Rest(raw) = left
      <4>1. ~(Len(raw) <= 10) /\ 10 + 1 = 11
            BY <1>3
      <4> QED BY <4>1, <2>3, <1>6 DEF Log!Rest
    <3>2. /\ left \in Seq(Seq(Text)) /\ Len(left) = 10 * (d - 1) + 1
          /\ \A k \in 1 .. Len(left) : left[k] = raw[k + 10]
          BY <1>2, <1>3
    <3> HIDE DEF left
    <3>7. Len(left) = 10 * (d - 1) + 1
          BY <3>2
    <3>3. left[1] = t
          BY <3>2, <1>3 DEF t
    <3>4. Log!NameLines(c) = <<Log!Blank>>
          BY <2>3 DEF Log!NameLines
    <3>5. CASE d = 1
      <4>1. left[1] = <<Log!Blank>> /\ Len(left) = 1
            BY <3>2, <3>3, <3>4, <3>5, <1>7
      <4>2. left = << <<Log!Blank>> >>
            BY <4>1, <3>2, Single
      <4> QED BY <3>1, <3>2, <3>5, <4>2, <2>0 DEF RawAfter, Log!EmptyLog
    <3>6. CASE d > 1
      <4> DEFINE id == p[r + 2].id
      <4>1. id \in Word
            BY <3>6, <1>5, CommitIds
      <4>2. left[1] = <<Log!Blank>> \o <<id>>
            BY <3>3, <3>4, <3>6, <1>8
      <4> HIDE DEF id
      <4>3. Log!TrimNewline(left[1]) = <<id>>
            BY <4>1, <4>2, BlankTrimmed
      <4>4. \A m \in 1 .. (d - 1) : left[10 * m + 1] = Between(p, (r + 1) + m)
        <5> TAKE m \in 1 .. (d - 1)
        <5>1. 10 * m + 1 \in 1 .. Len(left) /\ m + 1 \in 1 .. d
          <6>1. m \in Nat /\ m >= 1 /\ m <= d - 1
                BY <1>3
          <6> QED BY <6>1, <3>7, <1>3
        <5>2. left[10 * m + 1] = raw[(10 * m + 1) + 10]
              BY <5>1, <3>2
        <5>3. (10 * m + 1) + 10 = 10 * (m + 1) + 1 /\ r + (m + 1) = (r + 1) + m
              BY <1>3
        <5> QED BY <5>1, <5>2, <5>3, <1>2
      <4>5. RawAfter(p, r + 1, left)
        <5>1. /\ Len(left) = 10 * (Len(p) - (r + 1)) + 1
              /\ \A m \in 1 .. (Len(p) - (r + 1)) : left[10 * m + 1] = Between(p, (r + 1) + m)
              BY <2>0, <4>4, <3>7
        <5>2. r + 1 # Len(p) /\ p[(r + 1) + 1].id = id
              BY <2>0, <3>6 DEF id
        <5> QED BY <5>1, <5>2, <4>3 DEF RawAfter
      <4> QED BY <3>1, <3>2, <4>5
    <3> QED BY <3>5, <3>6, <1>3
  <2> QED BY <2>1, <2>2, <2>3, <1>3
<1> QED BY <1>1, <1>3, <1>6, <1>10, <1>11 DEF c

(* The branch only grows: what it had at the first page is its tail.       *)
Grows(older, newer) ==
    /\ Len(older) <= Len(newer)
    /\ \A k \in 1 .. Len(older) : newer[k + (Len(newer) - Len(older))] = older[k]

FirstRequest == [skip |-> 0, n |-> Step, all |-> FALSE]
MoreRequests == {[skip |-> Step, n |-> 0, all |-> TRUE], [skip |-> Step, n |-> Step, all |-> FALSE]}

Shown(k) == \E m \in 1 .. Len(log_rows) : log_rows[m].id = <<first[k].id>>
OnPage(k) == \E m \in 1 .. Len(job.page) : job.page[m] = first[k]

(* Before the first answer: the request waits, is served, or has failed.   *)
Opening ==
    /\ log_rows = <<>> /\ ~buttons
    /\ \/ inflight = <<FirstRequest>> /\ job = Log!Idle
       \/ inflight = <<>> /\ job = Log!Idle
       \/ /\ inflight = <<>> /\ job # Log!Idle /\ job.req = FirstRequest
          /\ \A k \in 1 .. Len(first) : k <= Step \/ Len(job.page) < Step => OnPage(k)

(* After it: a page that is the last one has all that the first did not    *)
(* show, and the buttons go only when such a page was added. The answer    *)
(* that throws finds no button: it adds no row, and none is missing.       *)
Scrolling ==
    /\ \A k \in 1 .. Len(inflight) : inflight[k] \in MoreRequests
    /\ \A k \in 1 .. Len(first) : k <= Step \/ ~buttons => Shown(k)
    /\ job # Log!Idle =>
         /\ job.req \in MoreRequests
         /\ \A k \in 1 .. Len(first) : k > Step /\ (job.req.all \/ Len(job.page) < Step) => OnPage(k)

TableInv == Grows(first, history) /\ (Opening \/ Scrolling)

LogInv == LogType /\ ParseInv /\ TableInv

(* git log -n --skip: a page that is not full ends with the oldest commit. *)
LEMMA SelectedIs ==
    ASSUME NEW S, NEW h \in Seq(S), NEW skip \in Nat, NEW n \in Nat
    PROVE  LET s == Log!Selected(h, skip, n)
           IN  /\ s \in Seq(S)
               /\ \A k \in 1 .. Len(h) :
                    k > skip /\ (n = 0 \/ k <= skip + n \/ Len(s) < n)
                      => k - skip \in 1 .. Len(s) /\ s[k - skip] = h[k]
<1> DEFINE e == IF n = 0 \/ skip + n > Len(h) THEN Len(h) ELSE skip + n
           s == SubSeq(h, skip + 1, e)
<1>1. s = Log!Selected(h, skip, n)
      BY DEF Log!Selected
<1>2. Len(h) \in Nat /\ e \in Nat /\ e <= Len(h)
      OBVIOUS
<1>3. n = 0 \/ skip + n > Len(h) => e = Len(h)
      OBVIOUS
<1>4. ~(n = 0 \/ skip + n > Len(h)) => e = skip + n
      OBVIOUS
<1> HIDE DEF e
<1>5. CASE skip + 1 <= e
  <2>1. /\ s \in Seq(S) /\ Len(s) = e - skip
        /\ \A m \in 1 .. (e - skip) : s[m] = h[skip + m]
        BY <1>2, <1>5
  <2> HIDE DEF s
  <2>2. ASSUME NEW k \in 1 .. Len(h), k > skip, n = 0 \/ k <= skip + n \/ Len(s) < n
        PROVE  k - skip \in 1 .. Len(s) /\ s[k - skip] = h[k]
    <3>1. k <= e
          BY <1>2, <1>3, <1>4, <2>1, <2>2
    <3>2. k - skip \in 1 .. (e - skip) /\ skip + (k - skip) = k
          BY <3>1, <1>2, <2>2
    <3> QED BY <3>2, <2>1
  <2> QED BY <1>1, <2>1, <2>2
<1>6. CASE ~(skip + 1 <= e)
  <2>1. s = <<>> /\ s \in Seq(S) /\ Len(s) = 0
        BY <1>2, <1>6
  <2> HIDE DEF s
  <2>2. ASSUME NEW k \in 1 .. Len(h), k > skip, n = 0 \/ k <= skip + n \/ Len(s) < n
        PROVE  FALSE
        BY <1>2, <1>3, <1>4, <1>6, <2>1, <2>2
  <2> QED BY <1>1, <2>1, <2>2
<1> QED BY <1>5, <1>6

LEMMA RemovedIs ==
    ASSUME NEW S, inflight \in Seq(S), NEW a \in 1 .. Len(inflight)
    PROVE  /\ Log!RemoveRequest(a) \in Seq(S)
           /\ \A k \in 1 .. Len(Log!RemoveRequest(a)) :
                \E m \in 1 .. Len(inflight) : Log!RemoveRequest(a)[k] = inflight[m]
           /\ Len(inflight) = 1 => Log!RemoveRequest(a) = <<>>
<1> DEFINE N == Len(inflight) - 1
           s == Log!RemoveRequest(a)
           at(k) == IF k < a THEN k ELSE k + 1
<1>1. N \in Nat /\ \A k \in 1 .. N : at(k) \in 1 .. Len(inflight)
      OBVIOUS
<1>2. s = [k \in 1 .. N |-> inflight[at(k)]]
      BY DEF Log!RemoveRequest
<1>3. \A k \in 1 .. N : inflight[at(k)] \in S
      BY <1>1, SeqElement
<1> HIDE DEF s, at
<1>4. s \in [1 .. N -> S]
      BY <1>2, <1>3
<1>5. s \in Seq(S) /\ Len(s) = N
      BY <1>1, <1>4
<1>6. Len(inflight) = 1 => s = <<>>
      BY <1>5
<1> HIDE DEF N
<1>7. \A k \in 1 .. Len(s) : s[k] = inflight[at(k)] /\ at(k) \in 1 .. Len(inflight)
      BY <1>1, <1>2, <1>5
<1> QED BY <1>5, <1>6, <1>7 DEF s

LEMMA GrowsAgain ==
    ASSUME NEW S, NEW f \in Seq(S), NEW h \in Seq(S), NEW c \in S, Grows(f, h)
    PROVE  <<c>> \o h \in Seq(S) /\ Len(<<c>> \o h) = Len(h) + 1 /\ Grows(f, <<c>> \o h)
<1> DEFINE g == <<c>> \o h
<1>1. /\ g \in Seq(S) /\ Len(g) = Len(h) + 1 /\ Len(h) \in Nat
      /\ \A k \in 1 .. Len(h) : g[k + 1] = h[k]
      BY Prefixed
<1> HIDE DEF g
<1>2. Len(f) \in Nat /\ Len(f) <= Len(h)
      BY DEF Grows
<1>3. ASSUME NEW k \in 1 .. Len(f)
      PROVE  g[k + (Len(g) - Len(f))] = f[k]
  <2> DEFINE m == k + (Len(h) - Len(f))
  <2>1. m \in 1 .. Len(h) /\ k + (Len(g) - Len(f)) = m + 1
        BY <1>1, <1>2
  <2>2. h[m] = f[k]
        BY DEF Grows
  <2> HIDE DEF m
  <2> QED BY <2>1, <2>2, <1>1
<1>4. Grows(f, g)
      BY <1>1, <1>2, <1>3 DEF Grows
<1> QED BY <1>1, <1>4 DEF g

LEMMA GrowsItself ==
    ASSUME NEW S, NEW h \in Seq(S)
    PROVE  Grows(h, h)
<1>1. Len(h) \in Nat /\ \A k \in 1 .. Len(h) : k + (Len(h) - Len(h)) = k
      OBVIOUS
<1> QED BY <1>1 DEF Grows

(* A commit the branch had at the first page is still there, lower down.   *)
LEMMA StillThere ==
    ASSUME NEW S, NEW f \in Seq(S), NEW h \in Seq(S), Grows(f, h), NEW k \in 1 .. Len(f)
    PROVE  LET m == k + (Len(h) - Len(f)) IN m \in 1 .. Len(h) /\ m >= k /\ h[m] = f[k]
<1>1. Len(f) \in Nat /\ Len(h) \in Nat /\ Len(f) <= Len(h)
      BY DEF Grows
<1>2. h[k + (Len(h) - Len(f))] = f[k]
      BY DEF Grows
<1> QED BY <1>1, <1>2

LEMMA WantedType ==
    ASSUME NEW c \in LogCommit
    PROVE  Wanted(c) \in ParsedCommit /\ Wanted(c).id = <<c.id>>
<1>1. <<c.id>> \in Seq(Text)
      BY CommitIds
<1>2. c.files \in Seq(Text) /\ <<>> \in Seq(Text)
  <2>1. c.files \in Seq(Word)
        BY DEF LogCommit
  <2> QED BY <2>1, SeqWiden DEF Word, Text
<1> QED BY <1>1, <1>2 DEF Wanted, ParsedCommit

LEMMA HashOfCommit ==
    ASSUME NEW n \in 1 .. MaxHistory, NEW f \in FileLists
    PROVE  Log!Commit(n, f) \in LogCommit
<1>1. MaxHistory \in Nat /\ MaxHistory <= Len(Hashes) /\ Hashes \in Seq(Word) /\ f \in Seq(Word)
      BY LogFacts
<1>2. n \in 1 .. Len(Hashes)
      BY <1>1
<1>3. Hashes[n] \in Word
      BY <1>1, <1>2, SeqElement
<1> QED BY <1>1, <1>3 DEF Log!Commit, LogCommit

LEMMA LogInitially == Log!Init => LogInv
<1> SUFFICES ASSUME Log!Init PROVE LogInv
    OBVIOUS
<1>1. Step \in Nat \ {0} /\ MaxHistory \in Nat
      BY LogFacts
<1>2. PICK n \in 0 .. MaxHistory : \E f \in Log!Histories(n) :
         history = [k \in 1 .. n |-> Log!Commit(n + 1 - k, f[k])]
      BY DEF Log!Init
<1>3. PICK f \in Log!Histories(n) : history = [k \in 1 .. n |-> Log!Commit(n + 1 - k, f[k])]
      BY <1>2
<1>4. \A k \in 1 .. n : Log!Commit(n + 1 - k, f[k]) \in LogCommit
  <2> TAKE k \in 1 .. n
  <2>1. n + 1 - k \in 1 .. MaxHistory
        BY <1>1
  <2>2. f[k] \in FileLists
        BY DEF Log!Histories
  <2> QED BY <2>1, <2>2, HashOfCommit
<1>5. history \in [1 .. n -> LogCommit]
      BY <1>3, <1>4
<1>6. history \in Seq(LogCommit) /\ Len(history) = n
      BY <1>5, <1>1
<1>7. /\ nameOnly \in BOOLEAN /\ inflight = <<FirstRequest>> /\ job = Log!Idle /\ log_rows = <<>>
      /\ buttons = FALSE /\ first = <<>>
      BY DEF Log!Init, FirstRequest
<1>8. FirstRequest \in Request
      BY <1>1 DEF FirstRequest, Request
<1>9. LogType
  <2>1. inflight \in Seq(Request) /\ log_rows \in ParsedCommits /\ first \in Seq(LogCommit)
        BY <1>7, <1>8 DEF ParsedCommits
  <2>2. buttons \in BOOLEAN
        BY <1>7, Zenon
  <2> QED BY <1>1, <1>6, <1>7, <2>1, <2>2 DEF LogType
<1>10. ParseInv
       BY <1>7 DEF ParseInv, Log!Idle
<1>11. TableInv
  <2>1. Grows(first, history)
        BY <1>6, <1>7 DEF Grows
  <2> QED BY <2>1, <1>7 DEF TableInv, Opening
<1> QED BY <1>9, <1>10, <1>11 DEF LogInv

LEMMA JobFacts ==
    ASSUME LogType, job # Log!Idle
    PROVE  /\ job \in Job /\ job.busy /\ job.req \in Request /\ job.page \in Seq(LogCommit)
           /\ job.raw \in Seq(Seq(Text)) /\ job.commits \in ParsedCommits
<1>1. job \in Job
      BY DEF LogType
<1> QED BY <1>1 DEF Job

LEMMA BusyJob ==
    ASSUME job.busy
    PROVE  job # Log!Idle
BY DEF Log!Idle

(* What a page must have for the buttons to go.                            *)
LEMMA PageOfFirst ==
    ASSUME LogType, Grows(first, history), NEW k \in 1 .. Len(first), NEW n \in {0, Step},
           k > Step, n = 0 \/ Len(Log!Selected(history, Step, n)) < Step
    PROVE  LET s == Log!Selected(history, Step, n)
           IN  \E m \in 1 .. Len(s) : s[m] = first[k]
<1> DEFINE s == Log!Selected(history, Step, n)
           at == k + (Len(history) - Len(first))
<1>1. Step \in Nat /\ n \in Nat /\ (n # 0 => n = Step)
      BY LogFacts
<1>2. history \in Seq(LogCommit) /\ first \in Seq(LogCommit)
      BY DEF LogType
<1>3. at \in 1 .. Len(history) /\ at >= k /\ history[at] = first[k]
      BY <1>2, StillThere
<1> HIDE DEF at
<1>4. at > Step /\ (n = 0 \/ Len(s) < n)
      BY <1>1, <1>3
<1>5. at - Step \in 1 .. Len(s) /\ s[at - Step] = history[at]
      BY <1>1, <1>2, <1>3, <1>4, SelectedIs
<1> HIDE DEF s
<1>6. \E m \in 1 .. Len(s) : s[m] = first[k]
      BY <1>3, <1>5
<1> QED BY <1>6 DEF s

LEMMA LogServe ==
    ASSUME LogInv, NEW a \in 1 .. Len(inflight), Log!Serve(a)
    PROVE  LogInv'
<1> DEFINE r == inflight[a]
           s == Log!Selected(history, r.skip, r.n)
<1>1. /\ LogType /\ TableInv /\ Step \in Nat \ {0} /\ MaxHistory \in Nat
      BY LogFacts DEF LogInv
<1>2. /\ job = Log!Idle /\ inflight' = Log!RemoveRequest(a)
      /\ job' = [busy |-> TRUE, req |-> r, page |-> s, raw |-> Log!GitOutput(s), commits |-> <<>>]
      /\ first' = IF r.skip = 0 THEN history ELSE first
      /\ UNCHANGED <<history, nameOnly, log_rows, buttons>>
      BY DEF Log!Serve
<1>3. history \in Seq(LogCommit) /\ first \in Seq(LogCommit) /\ inflight \in Seq(Request)
      BY <1>1 DEF LogType
<1>4. r \in Request
      BY <1>3, SeqElement
<1>5. r.skip \in {0, Step} /\ r.n \in {0, Step} /\ r.skip \in Nat /\ r.n \in Nat
      BY <1>1, <1>4 DEF Request
<1> HIDE DEF r
<1>6. s \in Seq(LogCommit)
      BY <1>3, <1>5, SelectedIs
<1> HIDE DEF s
<1>7. Log!GitOutput(s) \in Seq(Seq(Text)) /\ RawAfter(s, 0, Log!GitOutput(s))
      BY <1>6, OutputAfter
<1>8. LogType'
  <2>1. <<>> \in ParsedCommits
        BY DEF ParsedCommits
  <2>2. job' \in Job
        BY <1>2, <1>4, <1>6, <1>7, <2>1 DEF Job
  <2>3. inflight' \in Seq(Request)
        BY <1>2, <1>3, RemovedIs
  <2>4. first' \in Seq(LogCommit)
        BY <1>2, <1>3
  <2> QED BY <1>1, <1>2, <2>2, <2>3, <2>4 DEF LogType
<1>9. ParseInv'
  <2>1. job'.page = s /\ job'.commits = <<>> /\ job'.raw = Log!GitOutput(s)
        BY <1>2
  <2>2. RawAfter(job.page, 0, job.raw)'
        BY <1>2, <1>7, <2>1 DEF RawAfter, Between, Log!NameLines, Log!EmptyLog, Log!TrimNewline
  <2>3. Len(job'.commits) = 0
        BY <2>1
  <2> QED BY <1>6, <2>1, <2>2, <2>3 DEF ParseInv, ReadInv
<1>10. TableInv'
  <2>1. Grows(first', history')
        BY <1>1, <1>2, <1>3, GrowsItself DEF TableInv
  <2>2. /\ \A k \in 1 .. Len(inflight') : \E m \in 1 .. Len(inflight) : inflight'[k] = inflight[m]
        /\ Len(inflight) = 1 => inflight' = <<>>
        BY <1>2, <1>3, RemovedIs
  <2>3. job' # Log!Idle /\ job'.req = r /\ job'.page = s
        BY <1>2 DEF Log!Idle
  <2>4. CASE Opening
    <3>1. inflight = <<FirstRequest>> /\ log_rows = <<>> /\ ~buttons
          BY <2>4, <1>2 DEF Opening
    <3>2. r = FirstRequest /\ Len(inflight) = 1
          BY <3>1 DEF r
    <3>3. r.skip = 0 /\ r.n = Step /\ first' = history
          BY <3>2, <1>2 DEF FirstRequest
    <3>4. ASSUME NEW k \in 1 .. Len(history), k <= Step \/ Len(s) < Step
          PROVE  \E m \in 1 .. Len(s) : s[m] = history[k]
      <4>1. k > 0 /\ k - 0 = k /\ 0 + Step = Step
            BY <1>1
      <4>2. k - 0 \in 1 .. Len(s) /\ s[k - 0] = history[k]
        <5>1. s = Log!Selected(history, 0, Step) /\ 0 \in Nat /\ Step \in Nat
              BY <1>1, <3>3 DEF s
        <5> QED BY <1>3, <3>4, <4>1, <5>1, SelectedIs
      <4> QED BY <4>1, <4>2
    <3>5. Opening'
          BY <1>2, <2>2, <2>3, <3>1, <3>2, <3>3, <3>4 DEF Opening, OnPage, FirstRequest
    <3> QED BY <2>1, <3>5 DEF TableInv
  <2>5. CASE Scrolling
    <3>1. r \in MoreRequests
          BY <2>5 DEF Scrolling, r
    <3>2. r.skip = Step /\ r.skip # 0 /\ first' = first /\ (r.all => r.n = 0)
          BY <3>1, <1>1, <1>2 DEF MoreRequests
    <3>3. \A k \in 1 .. Len(inflight') : inflight'[k] \in MoreRequests'
          BY <2>2, <2>5 DEF Scrolling, MoreRequests
    <3>4. \A k \in 1 .. Len(first') : k <= Step \/ ~buttons' => Shown(k)'
          BY <2>5, <1>2, <3>2 DEF Scrolling, Shown
    <3>5. ASSUME NEW k \in 1 .. Len(first), k > Step, r.all \/ Len(s) < Step
          PROVE  \E m \in 1 .. Len(s) : s[m] = first[k]
          BY <1>1, <1>5, <3>2, <3>5, PageOfFirst DEF s, TableInv
    <3>6. Scrolling'
          BY <2>3, <3>1, <3>2, <3>3, <3>4, <3>5 DEF Scrolling, OnPage, MoreRequests
    <3> QED BY <2>1, <3>6 DEF TableInv
  <2> QED BY <1>1, <2>4, <2>5 DEF TableInv
<1> QED BY <1>8, <1>9, <1>10 DEF LogInv

LEMMA ParseKept ==
    ASSUME ParseInv, UNCHANGED <<nameOnly, job>>
    PROVE  ParseInv'
BY DEF ParseInv, ReadInv, Wanted, RawAfter, Between, Log!NameLines, Log!EmptyLog, Log!TrimNewline

LEMMA RawKept ==
    ASSUME NEW p, NEW r, NEW raw, RawAfter(p, r, raw), UNCHANGED nameOnly,
           job'.page = p, Len(job'.commits) = r, job'.raw = raw
    PROVE  RawAfter(job.page, Len(job.commits), job.raw)'
BY DEF RawAfter, Between, Log!NameLines, Log!EmptyLog, Log!TrimNewline

LEMMA LogGitFails ==
    ASSUME LogInv, NEW a \in 1 .. Len(inflight), Log!GitFails(a)
    PROVE  LogInv'
<1>1. LogType /\ TableInv /\ ParseInv
      BY DEF LogInv
<1>2. /\ job = Log!Idle /\ inflight' = Log!RemoveRequest(a)
      /\ UNCHANGED <<history, nameOnly, job, log_rows, buttons, first>>
      BY DEF Log!GitFails
<1>3. /\ inflight' \in Seq(Request)
      /\ \A k \in 1 .. Len(inflight') : \E m \in 1 .. Len(inflight) : inflight'[k] = inflight[m]
      /\ Len(inflight) = 1 => inflight' = <<>>
      BY <1>1, <1>2, RemovedIs DEF LogType
<1>4. LogType'
      BY <1>1, <1>2, <1>3 DEF LogType
<1>5. ParseInv'
      BY <1>1, <1>2, ParseKept
<1>6. TableInv'
  <2>1. CASE Opening
    <3>1. inflight = <<FirstRequest>> /\ log_rows = <<>> /\ ~buttons
          BY <2>1, <1>2 DEF Opening
    <3>2. Len(inflight) = 1
          BY <3>1
    <3> QED BY <1>1, <1>2, <1>3, <3>1, <3>2 DEF TableInv, Grows, Opening
  <2>2. CASE Scrolling
    <3>1. \A k \in 1 .. Len(inflight') : inflight'[k] \in MoreRequests
          BY <1>3, <2>2 DEF Scrolling
    <3>2. Scrolling'
          BY <2>2, <3>1, <1>2 DEF Scrolling, MoreRequests, Shown
    <3> QED BY <1>1, <1>2, <3>2 DEF TableInv, Grows
  <2> QED BY <1>1, <2>1, <2>2 DEF TableInv
<1> QED BY <1>4, <1>5, <1>6 DEF LogInv

LEMMA Appended ==
    ASSUME NEW S, NEW s \in Seq(S), NEW x \in S
    PROVE  /\ Append(s, x) \in Seq(S) /\ Len(Append(s, x)) = Len(s) + 1 /\ Len(s) \in Nat
           /\ \A k \in 1 .. Len(s) : Append(s, x)[k] = s[k]
           /\ Append(s, x)[Len(s) + 1] = x
OBVIOUS

LEMMA LogParseNext ==
    ASSUME LogInv, Log!ParseNext
    PROVE  LogInv'
<1> DEFINE n == Len(job.commits)
           c == Log!ParsedCommit(job.raw)
<1>1. LogType /\ TableInv /\ ParseInv /\ nameOnly \in BOOLEAN
      BY DEF LogInv, LogType
<1>2. /\ job.busy /\ ~Log!EmptyLog(job.raw)
      /\ UNCHANGED <<history, nameOnly, inflight, log_rows, buttons, first>>
      BY DEF Log!ParseNext
<1>3. /\ job # Log!Idle /\ job \in Job /\ job.page \in Seq(LogCommit)
      /\ job.raw \in Seq(Seq(Text)) /\ job.commits \in ParsedCommits
      BY <1>1, <1>2, BusyJob, JobFacts
<1>4. /\ n \in Nat /\ n <= Len(job.page) /\ RawAfter(job.page, n, job.raw)
      /\ \A k \in 1 .. n : job.commits[k] = Wanted(job.page[k])
      BY <1>1, <1>2, <1>3 DEF ParseInv, ReadInv, ParsedCommits
<1> HIDE DEF n, c
<1>5. /\ n < Len(job.page) /\ Len(job.raw) >= Log!PartsPerCommit
      /\ c = Wanted(job.page[n + 1])
      /\ Log!Rest(job.raw) \in Seq(Seq(Text)) /\ RawAfter(job.page, n + 1, Log!Rest(job.raw))
      BY <1>1, <1>2, <1>3, <1>4, TurnReads DEF c
<1>6. job' = [job EXCEPT !.raw = Log!Rest(job.raw), !.commits = Append(job.commits, c)]
  <2>1. Len(job.raw) \in Nat /\ Log!PartsPerCommit \in Nat
        BY <1>3 DEF Log!PartsPerCommit, Log!partsPerCommitBasic, Log!partsPerCommitWithFileNames
  <2>2. ~(Len(job.raw) < Log!PartsPerCommit)
        BY <2>1, <1>5
  <2> QED BY <2>2 DEF Log!ParseNext, c
<1>7. /\ job'.page = job.page /\ job'.req = job.req /\ job'.busy = job.busy
      /\ job'.raw = Log!Rest(job.raw) /\ job'.commits = Append(job.commits, c)
      BY <1>3, <1>6 DEF Job
<1>8. c \in ParsedCommit
  <2>1. n + 1 \in 1 .. Len(job.page)
        BY <1>3, <1>4, <1>5
  <2> QED BY <1>3, <1>5, <2>1, SeqElement, WantedType
<1>9. /\ job'.commits \in ParsedCommits /\ Len(job'.commits) = n + 1
      /\ \A k \in 1 .. n : job'.commits[k] = job.commits[k]
      /\ job'.commits[n + 1] = c
      BY <1>3, <1>7, <1>8, Appended DEF ParsedCommits, n
<1>10. job' \in Job /\ job' # Log!Idle
  <2>1. job' \in Job
        BY <1>3, <1>5, <1>6, <1>7, <1>9 DEF Job
  <2>2. job'.busy
        BY <1>2, <1>7, Zenon
  <2> QED BY <2>1, <2>2 DEF Log!Idle
<1>11. LogType'
       BY <1>1, <1>2, <1>10 DEF LogType
<1>12. ParseInv'
  <2>1. RawAfter(job.page, n + 1, Log!Rest(job.raw))
        BY <1>5
  <2>2. \A k \in 1 .. (n + 1) : job'.commits[k] = Wanted(job.page[k])
    <3>1. \A k \in 1 .. (n + 1) : k \in 1 .. n \/ k = n + 1
          BY <1>4
    <3> QED BY <3>1, <1>4, <1>5, <1>9
  <2>3. n + 1 <= Len(job'.page)
        BY <1>3, <1>4, <1>5, <1>7
  <2>4. RawAfter(job.page, Len(job.commits), job.raw)'
        BY <2>1, <1>2, <1>7, <1>9, RawKept
  <2>5. \A k \in 1 .. Len(job'.commits) : job'.commits[k] = Wanted(job.page[k])'
        BY <2>2, <1>2, <1>7, <1>9 DEF Wanted
  <2> QED BY <2>3, <2>4, <2>5, <1>9 DEF ParseInv, ReadInv
<1>13. TableInv'
  <2>1. CASE Opening
        BY <2>1, <1>1, <1>2, <1>3, <1>7, <1>10 DEF TableInv, Grows, Opening, OnPage, FirstRequest
  <2>2. CASE Scrolling
    <3>1. \A k \in 1 .. Len(first) : OnPage(k)' <=> OnPage(k)
          BY <1>2, <1>7 DEF OnPage
    <3>2. \A k \in 1 .. Len(first) : Shown(k)' <=> Shown(k)
          BY <1>2 DEF Shown
    <3>3. /\ job'.req \in MoreRequests'
          /\ \A k \in 1 .. Len(inflight') : inflight'[k] \in MoreRequests'
          BY <2>2, <1>2, <1>3, <1>7 DEF Scrolling, MoreRequests
    <3>4. \A k \in 1 .. Len(first') : k <= Step \/ ~buttons' => Shown(k)'
          BY <2>2, <3>2, <1>2 DEF Scrolling
    <3>5. \A k \in 1 .. Len(first') : k > Step /\ (job'.req.all \/ Len(job'.page) < Step) => OnPage(k)'
          BY <2>2, <3>1, <1>2, <1>3, <1>7 DEF Scrolling
    <3>6. Scrolling'
          BY <3>3, <3>4, <3>5 DEF Scrolling
    <3> QED BY <3>6, <1>1, <1>2 DEF TableInv, Grows
  <2> QED BY <1>1, <2>1, <2>2 DEF TableInv
<1> QED BY <1>11, <1>12, <1>13 DEF LogInv

LEMMA Concatenated ==
    ASSUME NEW S, NEW s \in Seq(S), NEW t \in Seq(S)
    PROVE  /\ s \o t \in Seq(S) /\ Len(s \o t) = Len(s) + Len(t) /\ Len(s) \in Nat /\ Len(t) \in Nat
           /\ \A k \in 1 .. Len(s) : (s \o t)[k] = s[k]
           /\ \A k \in 1 .. Len(t) : (s \o t)[Len(s) + k] = t[k]
OBVIOUS

LEMMA EmptyIsAll ==
    ASSUME NEW p \in Seq(LogCommit), NEW r \in Nat, r <= Len(p), NEW raw, RawAfter(p, r, raw),
           Log!EmptyLog(raw)
    PROVE  r = Len(p)
<1> DEFINE e == Len(p) - r
<1> SUFFICES ASSUME r # Len(p) PROVE FALSE
    OBVIOUS
<1>1. Len(raw) = 10 * (Len(p) - r) + 1
      BY DEF RawAfter
<1>2. e \in Nat /\ e >= 1 /\ Len(raw) = 10 * e + 1
      BY <1>1
<1> HIDE DEF e
<1>3. Len(raw) # 0 /\ Len(raw) # 1
      BY <1>2
<1>4. Len(raw) = 0 \/ Len(raw) = 1
      BY DEF Log!EmptyLog
<1> QED BY <1>3, <1>4

LEMMA LogReply ==
    ASSUME LogInv, Log!Reply
    PROVE  LogInv'
<1>1. LogType /\ TableInv /\ ParseInv /\ Step \in Nat \ {0}
      BY LogFacts DEF LogInv
<1> DEFINE more   == Len(job.commits) >= Step /\ ~Log!MaybeLastPage(job.commits, job.req.n)
           throws == job.req.all /\ ~buttons
<1>2. /\ job.busy /\ Log!EmptyLog(job.raw)
      /\ log_rows' = IF throws THEN log_rows ELSE log_rows \o job.commits
      /\ buttons' = (more /\ (job.req.all => throws))
      /\ job' = Log!Idle
      /\ UNCHANGED <<history, nameOnly, inflight, first>>
      BY DEF Log!Reply
<1>3. /\ job # Log!Idle /\ job \in Job /\ job.page \in Seq(LogCommit)
      /\ job.req \in Request /\ job.commits \in ParsedCommits /\ log_rows \in ParsedCommits
      /\ first \in Seq(LogCommit)
      BY <1>1, <1>2, BusyJob, JobFacts DEF LogType
<1>4. /\ Len(job.commits) = Len(job.page)
      /\ \A k \in 1 .. Len(job.page) : job.commits[k] = Wanted(job.page[k])
  <2>1. /\ Len(job.commits) <= Len(job.page) /\ RawAfter(job.page, Len(job.commits), job.raw)
        /\ \A k \in 1 .. Len(job.commits) : job.commits[k] = Wanted(job.page[k])
        BY <1>1, <1>2 DEF ParseInv, ReadInv
  <2>2. Len(job.commits) \in Nat
        BY <1>3 DEF ParsedCommits
  <2> QED BY <2>1, <2>2, <1>2, <1>3, EmptyIsAll
<1>5. ~throws =>
      /\ log_rows' \in ParsedCommits /\ Len(log_rows) \in Nat
      /\ Len(log_rows') = Len(log_rows) + Len(job.page)
      /\ \A k \in 1 .. Len(log_rows) : log_rows'[k] = log_rows[k]
      /\ \A k \in 1 .. Len(job.page) : log_rows'[Len(log_rows) + k] = job.commits[k]
  <2> SUFFICES ASSUME ~throws
               PROVE  /\ log_rows' \in ParsedCommits /\ Len(log_rows) \in Nat
                      /\ Len(log_rows') = Len(log_rows) + Len(job.page)
                      /\ \A k \in 1 .. Len(log_rows) : log_rows'[k] = log_rows[k]
                      /\ \A k \in 1 .. Len(job.page) : log_rows'[Len(log_rows) + k] = job.commits[k]
      OBVIOUS
  <2> DEFINE u == log_rows \o job.commits
  <2>1. /\ u \in Seq(ParsedCommit) /\ Len(log_rows) \in Nat
        /\ Len(u) = Len(log_rows) + Len(job.commits)
        /\ \A k \in 1 .. Len(log_rows) : u[k] = log_rows[k]
        /\ \A k \in 1 .. Len(job.commits) : u[Len(log_rows) + k] = job.commits[k]
        BY <1>3, Concatenated DEF ParsedCommits
  <2>2. log_rows' = u
        BY <1>2
  <2> HIDE DEF u
  <2> QED BY <2>1, <2>2, <1>4 DEF ParsedCommits
<1>6. LogType'
  <2>1. buttons' \in BOOLEAN
        BY <1>2, Zenon
  <2>2. log_rows' \in ParsedCommits
        BY <1>2, <1>3, <1>5
  <2> QED BY <1>1, <1>2, <2>1, <2>2 DEF LogType
<1>7. ParseInv'
      BY <1>2 DEF ParseInv, Log!Idle
<1>8. \A k \in 1 .. Len(first) : Shown(k) \/ (OnPage(k) /\ ~throws) => Shown(k)'
  <2> SUFFICES ASSUME NEW k \in 1 .. Len(first), Shown(k) \/ (OnPage(k) /\ ~throws)
               PROVE  \E m \in 1 .. Len(log_rows') : log_rows'[m].id = <<first[k].id>>
      BY <1>2 DEF Shown
  <2>0. CASE throws /\ Shown(k)
        BY <2>0, <1>2 DEF Shown
  <2>1. CASE ~throws /\ Shown(k)
    <3>1. PICK m \in 1 .. Len(log_rows) : log_rows[m].id = <<first[k].id>>
          BY <2>1 DEF Shown
    <3>2. m \in 1 .. Len(log_rows')
          BY <1>3, <1>5, <2>1
    <3> QED BY <3>1, <3>2, <1>5, <2>1
  <2>2. CASE ~throws /\ OnPage(k)
    <3>1. PICK m \in 1 .. Len(job.page) : job.page[m] = first[k]
          BY <2>2 DEF OnPage
    <3>2. Len(log_rows) + m \in 1 .. Len(log_rows')
          BY <1>3, <1>5, <2>2
    <3>3. log_rows'[Len(log_rows) + m] = Wanted(first[k])
          BY <3>1, <1>4, <1>5, <2>2
    <3>4. Wanted(first[k]).id = <<first[k].id>>
          BY <1>3, SeqElement, WantedType
    <3> QED BY <3>2, <3>3, <3>4
  <2> QED BY <2>0, <2>1, <2>2
<1>9. Scrolling'
  <2>1. job' = Log!Idle /\ inflight' = inflight /\ first' = first
        BY <1>2
  <2>2. Log!MaybeLastPage(job.commits, job.req.n) <=> Len(job.page) < job.req.n
        BY <1>4 DEF Log!MaybeLastPage
  <2>3. CASE Opening
    <3>1. /\ inflight = <<>> /\ job.req = FirstRequest
          /\ \A k \in 1 .. Len(first) : k <= Step \/ Len(job.page) < Step => OnPage(k)
          BY <2>3, <1>3 DEF Opening
    <3>2. ~throws /\ (~buttons' => Len(job.page) < Step)
      <4>1. ~job.req.all /\ job.req.n = Step
            BY <3>1 DEF FirstRequest
      <4>2. Len(job.page) \in Nat
            BY <1>3
      <4>3. ~throws /\ buttons' = more
            BY <4>1, <1>2, Zenon
      <4>4. ~more => Len(job.page) < Step
            BY <4>1, <4>2, <2>2, <1>1, <1>4
      <4> QED BY <4>3, <4>4, Zenon
    <3>3. \A k \in 1 .. Len(first) : k <= Step \/ ~buttons' => Shown(k)'
          BY <3>1, <3>2, <1>8
    <3>4. \A k \in 1 .. Len(inflight') : inflight'[k] \in MoreRequests'
          BY <3>1, <2>1
    <3> QED BY <3>3, <3>4, <2>1 DEF Scrolling
  <2>4. CASE Scrolling
    <3>1. job.req \in MoreRequests
          BY <2>4, <1>3 DEF Scrolling
    <3>2. ~throws /\ ~buttons' => job.req.all \/ Len(job.page) < Step
      <4>1. job.req.all \/ (~job.req.all /\ job.req.n = Step)
            BY <3>1 DEF MoreRequests
      <4>2. Len(job.page) \in Nat
            BY <1>3
      <4>3. ~throws /\ ~job.req.all => (buttons' <=> more)
            BY <1>2
      <4>4. ~job.req.all /\ ~more => Len(job.page) < Step
            BY <4>1, <4>2, <2>2, <1>1, <1>4
      <4> QED BY <4>3, <4>4, Zenon
    <3>3. \A k \in 1 .. Len(first) : k <= Step \/ ~buttons' => Shown(k)'
      <4> SUFFICES ASSUME NEW k \in 1 .. Len(first), k <= Step \/ ~buttons' PROVE Shown(k)'
          OBVIOUS
      <4>0. CASE throws
            BY <4>0, <2>4, <1>8 DEF Scrolling
      <4>1. CASE k <= Step
            BY <4>1, <2>4, <1>8 DEF Scrolling
      <4>2. CASE ~throws /\ ~(k <= Step)
        <5>1. k > Step
              BY <4>2, <1>1, <1>3
        <5>2. OnPage(k)
              BY <5>1, <4>2, <3>2, <2>4, <1>3 DEF Scrolling
        <5> QED BY <5>2, <4>2, <1>8
      <4> QED BY <4>0, <4>1, <4>2, Zenon
    <3>4. \A k \in 1 .. Len(inflight') : inflight'[k] \in MoreRequests'
          BY <2>1, <2>4 DEF Scrolling, MoreRequests
    <3> QED BY <3>3, <3>4, <2>1 DEF Scrolling
  <2> QED BY <1>1, <2>3, <2>4 DEF TableInv
<1>10. TableInv'
       BY <1>1, <1>2, <1>9 DEF TableInv, Grows
<1> QED BY <1>6, <1>7, <1>10 DEF LogInv

LEMMA LogClick ==
    ASSUME LogInv, NEW more \in BOOLEAN, Log!Click(more)
    PROVE  LogInv'
<1> DEFINE r == [skip |-> Log!Cursor, n |-> IF more THEN 0 ELSE Step, all |-> more]
<1>1. LogType /\ TableInv /\ ParseInv /\ Step \in Nat \ {0} /\ inflight \in Seq(Request)
      BY LogFacts DEF LogInv, LogType
<1>2. /\ buttons /\ inflight' = Append(inflight, r)
      /\ UNCHANGED <<history, nameOnly, job, log_rows, buttons, first>>
      BY DEF Log!Click
<1>3. r \in MoreRequests
  <2>1. CASE more
        BY <2>1 DEF MoreRequests, Log!Cursor
  <2>2. CASE ~more
        BY <2>2 DEF MoreRequests, Log!Cursor
  <2> QED BY <2>1, <2>2
<1>4. r \in Request
      BY <1>1, <1>3 DEF MoreRequests, Request
<1> HIDE DEF r
<1>5. /\ inflight' \in Seq(Request) /\ Len(inflight') = Len(inflight) + 1 /\ Len(inflight) \in Nat
      /\ \A k \in 1 .. Len(inflight) : inflight'[k] = inflight[k]
      /\ inflight'[Len(inflight) + 1] = r
      BY <1>1, <1>2, <1>4, Appended
<1>6. LogType'
      BY <1>1, <1>2, <1>5 DEF LogType
<1>7. ParseInv'
      BY <1>1, <1>2, ParseKept
<1>8. Scrolling
      BY <1>1, <1>2 DEF TableInv, Opening
<1>9. \A k \in 1 .. Len(inflight') : inflight'[k] \in MoreRequests
  <2>1. \A k \in 1 .. Len(inflight') : k \in 1 .. Len(inflight) \/ k = Len(inflight) + 1
        BY <1>5
  <2> QED BY <2>1, <1>3, <1>5, <1>8 DEF Scrolling
<1>10. Scrolling'
  <2>1. \A k \in 1 .. Len(first) : (OnPage(k)' <=> OnPage(k)) /\ (Shown(k)' <=> Shown(k))
        BY <1>2 DEF OnPage, Shown
  <2> QED BY <1>2, <1>8, <1>9, <2>1 DEF Scrolling, MoreRequests
<1> QED BY <1>1, <1>2, <1>6, <1>7, <1>10 DEF LogInv, TableInv, Grows

LEMMA LogPush ==
    ASSUME LogInv, NEW f \in FileLists, Log!Push(f)
    PROVE  LogInv'
<1> DEFINE c == Log!Commit(Len(history) + 1, f)
<1>1. /\ LogType /\ TableInv /\ ParseInv /\ MaxHistory \in Nat
      /\ history \in Seq(LogCommit) /\ first \in Seq(LogCommit)
      BY LogFacts DEF LogInv, LogType
<1>2. /\ Len(history) < MaxHistory /\ history' = <<c>> \o history
      /\ UNCHANGED <<nameOnly, inflight, job, log_rows, buttons, first>>
      BY DEF Log!Push
<1>3. c \in LogCommit
  <2>1. Len(history) + 1 \in 1 .. MaxHistory
        BY <1>1, <1>2
  <2> QED BY <2>1, HashOfCommit
<1> HIDE DEF c
<1>4. history' \in Seq(LogCommit) /\ Len(history') = Len(history) + 1 /\ Grows(first, history')
      BY <1>1, <1>2, <1>3, GrowsAgain DEF TableInv
<1>5. LogType'
  <2>1. Len(history') <= MaxHistory
        BY <1>1, <1>2, <1>4
  <2> QED BY <1>1, <1>2, <1>4, <2>1 DEF LogType
<1>6. ParseInv'
      BY <1>1, <1>2, ParseKept
<1>7. TableInv'
  <2>1. Grows(first', history')
        BY <1>2, <1>4
  <2>2. \A k \in 1 .. Len(first) : (OnPage(k)' <=> OnPage(k)) /\ (Shown(k)' <=> Shown(k))
        BY <1>2 DEF OnPage, Shown
  <2>3. Opening => Opening'
        BY <1>2, <2>2 DEF Opening, FirstRequest
  <2>4. Scrolling => Scrolling'
        BY <1>2, <2>2 DEF Scrolling, MoreRequests
  <2> QED BY <1>1, <2>1, <2>3, <2>4 DEF TableInv
<1> QED BY <1>5, <1>6, <1>7 DEF LogInv

LEMMA LogStutters ==
    ASSUME LogInv, UNCHANGED <<history, nameOnly, inflight, job, log_rows, buttons, first>>
    PROVE  LogInv'
<1>1. LogType /\ TableInv /\ ParseInv
      BY DEF LogInv
<1>2. LogType'
      BY <1>1 DEF LogType
<1>3. ParseInv'
      BY <1>1, ParseKept
<1>4. \A k \in 1 .. Len(first) : (OnPage(k)' <=> OnPage(k)) /\ (Shown(k)' <=> Shown(k))
      BY DEF OnPage, Shown
<1>5. Opening => Opening'
      BY <1>4 DEF Opening, FirstRequest
<1>6. Scrolling => Scrolling'
      BY <1>4 DEF Scrolling, MoreRequests
<1> QED BY <1>1, <1>2, <1>3, <1>5, <1>6 DEF LogInv, TableInv, Grows

LEMMA LogNext == LogInv /\ Log!Next => LogInv'
<1> SUFFICES ASSUME LogInv, Log!Next PROVE LogInv'
    OBVIOUS
<1>1. CASE \E a \in 1 .. Len(inflight) : Log!Serve(a)
      BY <1>1, LogServe
<1>2. CASE \E a \in 1 .. Len(inflight) : Log!GitFails(a)
      BY <1>2, LogGitFails
<1>3. CASE Log!ParseNext
      BY <1>3, LogParseNext
<1>4. CASE Log!Reply
      BY <1>4, LogReply
<1>5. CASE \E more \in BOOLEAN : Log!Click(more)
      BY <1>5, LogClick
<1>6. CASE \E f \in FileLists : Log!Push(f)
      BY <1>6, LogPush
<1>7. CASE \E from \in 1 .. Len(history) : Log!SimpleLog(from)
  <2>1. UNCHANGED <<history, nameOnly, inflight, job, log_rows, buttons, first>>
        BY <1>7 DEF Log!SimpleLog
  <2> QED BY <2>1, LogStutters
<1> QED BY <1>1, <1>2, <1>3, <1>4, <1>5, <1>6, <1>7 DEF Log!Next

LEMMA LogIsInvariant == Spec => [](part = "Log" => LogInv)
<1>1. Init => (part = "Log" => LogInv)
      BY LogInitially DEF Init
<1>2. (part = "Log" => LogInv) /\ [Next]_all => (part = "Log" => LogInv)'
  <2> SUFFICES ASSUME part = "Log" => LogInv, [Next]_all, part' = "Log"
               PROVE  LogInv'
      OBVIOUS
  <2>1. CASE LogStep(Log!Next)
        BY <2>1, LogNext DEF LogStep
  <2>2. CASE \/ DiffStep(Diff!Next) \/ BlameStep(Blame!Next) \/ ShowStep(Show!Next)
             \/ DirtreeStep(Dirtree!Next) \/ ViewStep(View!Next)
        BY <2>2 DEF DiffStep, BlameStep, ShowStep, DirtreeStep, ViewStep
  <2>3. CASE UNCHANGED all
    <3>1. UNCHANGED <<part, logVars>>
          BY <2>3 DEF all
    <3>2. UNCHANGED <<part, history, nameOnly, inflight, job, log_rows, buttons, first>>
          BY <3>1 DEF logVars
    <3> QED BY <3>2, LogStutters
  <2> QED BY <2>1, <2>2, <2>3 DEF Next
<1> QED BY <1>1, <1>2, PTL DEF Spec

(***************************************************************************)
(* parseNextCommitFromLog reads, without an error, exactly the commits git *)
(* wrote, each with its own file names, with names asked for or not and    *)
(* with commits that changed no file among them.                           *)
(***************************************************************************)
THEOREM LogIsExact == Spec => []LogExact
<1>1. (part = "Log" => LogInv) => LogExact
  <2> SUFFICES ASSUME LogInv, job.busy PROVE Log!LogExact
      BY DEF LogExact, Log!LogExact
  <2> DEFINE n == Len(job.commits)
  <2>1. /\ LogType /\ nameOnly \in BOOLEAN /\ ReadInv(job)
        BY DEF LogInv, LogType, ParseInv
  <2>2. /\ job.page \in Seq(LogCommit) /\ job.raw \in Seq(Seq(Text)) /\ n \in Nat
        BY <2>1, BusyJob, JobFacts DEF ParsedCommits
  <2>3. /\ n <= Len(job.page) /\ RawAfter(job.page, n, job.raw)
        /\ \A k \in 1 .. n : job.commits[k] = Wanted(job.page[k])
        BY <2>1 DEF ReadInv
  <2>4. ~Log!EmptyLog(job.raw) => Len(job.raw) >= Log!PartsPerCommit
        BY <2>1, <2>2, <2>3, TurnReads
  <2>5. Log!EmptyLog(job.raw) => n = Len(job.page)
        BY <2>2, <2>3, EmptyIsAll
  <2> QED BY <2>3, <2>4, <2>5 DEF Log!LogExact, Wanted
<1> QED BY <1>1, LogIsInvariant, PTL

(***************************************************************************)
(* The history table: when no button is left and no answer is awaited, the *)
(* rows have every commit the branch had at the first page, whatever was   *)
(* pushed meanwhile, failed, or came back out of order.                    *)
(***************************************************************************)
THEOREM TableIsWhole == Spec => []DoneMeansAll
<1>1. (part = "Log" => LogInv) => DoneMeansAll
  <2> SUFFICES ASSUME LogInv, log_rows # <<>>, ~buttons, NEW k \in 1 .. Len(first)
               PROVE  <<first[k].id>> \in Log!CommitIds(log_rows)
      BY DEF DoneMeansAll, Log!DoneMeansAll
  <2>1. Shown(k)
        BY DEF LogInv, TableInv, Opening, Scrolling
  <2> QED BY <2>1 DEF Shown, Log!CommitIds
<1> QED BY <1>1, LogIsInvariant, PTL

-----------------------------------------------------------------------------
(* BuildFileData and its handlers, with a fetch at any moment.             *)

Known(x) == \E k \in 1 .. Len(commits) : Ids[k] = x
IsId(x) == \E k \in 1 .. Len(Ids) : Ids[k] = x

ViewType ==
    /\ commits \in Seq(Trees) /\ Len(commits) <= Len(Ids)
    /\ refs = [b \in Branch |-> refs[b]] /\ \A b \in Branch : refs[b] = View!None \/ Known(refs[b])
    /\ head \in Branch
    /\ page = [type |-> page.type, from |-> page.from, readme |-> page.readme]
    /\ moved \in BOOLEAN

(* Only ServeExperimental resolves HEAD first, and stops when it cannot.   *)
HeadInv ==
    /\ view_pc \in {"head", "touch", "tree", "branches"} => req.kind = "experimental"
    /\ req.kind = "experimental" /\ view_pc \notin {"head", "error"} /\ ~moved =>
         refs[head] # View!None /\ headRev = head

(* The commit BuildFileData is called with, and the hash it makes of it:   *)
(* not a hash only if git could not resolve it, or could only after a      *)
(* fetch.                                                                  *)
LastOrRev ==
    IF View!RevParse(repoRev) = View!None \/ req.path = View!None THEN repoRev
    ELSE View!LastTouch(View!RevParse(repoRev), req.path)
CommitInv ==
    req.kind = "experimental" /\ req.dfc = View!None /\ ~moved
    /\ view_pc \notin {"head", "touch", "error"} => commit = LastOrRev
HashInv ==
    view_pc \notin {"head", "touch", "hash", "error"} =>
      /\ IsId(commitHash) \/ moved \/ View!RevParse(commitHash) = View!None
      /\ ~moved => commitHash = IF View!RevParse(commit) = View!None THEN commit ELSE View!RevParse(commit)

(* What has been read is of the commit the hash still names.               *)
PageInv ==
    /\ view_pc \in {"head", "touch", "hash", "type", "read"} => page.readme = <<>>
    /\ view_pc = "read" =>
         page.type # View!None /\ page.type = View!ObjectType(commitHash, req.path)
    /\ view_pc \in {"readme", "links"} => page.type # View!None
    /\ view_pc \in {"readme", "links", "tree", "branches", "done"} /\ page.type # View!None =>
         /\ page.from = View!RevParse(commitHash) /\ page.from # View!None
         /\ page.type = View!ObjectType(page.from, req.path)
         /\ page.readme # <<>> => page.readme[1] = page.from

EndInv ==
    /\ view_pc = "panic" => moved
    /\ view_pc \in {"branches", "done"} /\ req.kind = "experimental" /\ ~moved =>
         tree = View!RevParse(repoRev)
    /\ branches # <<>> => view_pc = "done" /\ (~moved => branches[1] = headRev)

ViewInv == ViewType /\ HeadInv /\ CommitInv /\ HashInv /\ PageInv /\ EndInv

LEMMA Least ==
    ASSUME NEW T \in SUBSET Nat, T # {}
    PROVE  \E x \in T : \A y \in T : x <= y
<1> DEFINE R == OpToRel(<, Nat)
<1>1. \E x \in T : \A y \in T : ~(<<y, x>> \in R)
      BY WFMin, NatLessThanWellFounded, Zenon
<1>2. \A x, y \in Nat : y < x => <<y, x>> \in R
      BY DEF OpToRel
<1> HIDE DEF R
<1>3. PICK x \in T : \A y \in T : ~(<<y, x>> \in R)
      BY <1>1
<1>4. \A y \in T : x <= y
  <2> TAKE y \in T
  <2>1. x \in Nat /\ y \in Nat /\ ~(y < x)
        BY <1>2, <1>3
  <2> QED BY <2>1
<1> QED BY <1>4

LEMMA Greatest ==
    ASSUME NEW N \in Nat, NEW T \in SUBSET (1 .. N), T # {}
    PROVE  \E x \in T : \A y \in T : y <= x
<1> DEFINE U == {k \in Nat : N - k \in T}
<1>1. U \in SUBSET Nat /\ U # {}
  <2>1. PICK t \in T : TRUE
        OBVIOUS
  <2>2. N - t \in Nat /\ N - (N - t) = t
        BY <2>1
  <2>3. N - t \in U
        BY <2>1, <2>2
  <2> QED BY <2>3
<1>2. PICK k \in U : \A j \in U : k <= j
  <2> HIDE DEF U
  <2> QED BY <1>1, Least
<1>3. \A y \in T : N - y \in U
      OBVIOUS
<1>4. \A y \in T : y <= N - k
      BY <1>2, <1>3
<1> QED BY <1>2, <1>4

LEMMA ViewFacts ==
    /\ Ids \in Seq(STRING) /\ Len(Ids) \in Nat \ {0} /\ View!None # "HEAD"
    /\ \A k, m \in 1 .. Len(Ids) : Ids[k] = Ids[m] => k = m
    /\ IsFiniteSet(Branch) /\ View!None \notin Branch /\ "HEAD" \notin Branch
    /\ \A k \in 1 .. Len(Ids) : Ids[k] # View!None /\ Ids[k] # "HEAD" /\ Ids[k] \notin Branch
<1>1. /\ Ids \in Seq(STRING) /\ Ids # <<>> /\ View!IsInjective(Ids) /\ View!IsFiniteSet(Branch)
      /\ {View!None, "HEAD"} \cap (Branch \cup View!ToSet(Ids)) = {} /\ Branch \cap View!ToSet(Ids) = {}
      BY Assumptions DEF View!FileViewAssumption
<1>2. View!None # "HEAD"
      BY Zenon DEF View!None
<1>3. Len(Ids) \in Nat \ {0} /\ DOMAIN Ids = 1 .. Len(Ids)
      BY <1>1
<1>4. \A k, m \in 1 .. Len(Ids) : Ids[k] = Ids[m] => k = m
      BY <1>1, <1>3 DEF View!IsInjective
<1>5. IsFiniteSet(Branch)
      BY <1>1 DEF View!IsFiniteSet, IsFiniteSet
<1>6. \A k \in 1 .. Len(Ids) : Ids[k] \in View!ToSet(Ids)
      BY <1>3 DEF View!ToSet
<1>7. View!None \notin Branch /\ "HEAD" \notin Branch
      BY <1>1, Zenon
<1>8. \A k \in 1 .. Len(Ids) : Ids[k] # View!None /\ Ids[k] # "HEAD" /\ Ids[k] \notin Branch
  <2> TAKE k \in 1 .. Len(Ids)
  <2>1. Ids[k] \in View!ToSet(Ids)
        BY <1>6
  <2> QED BY <2>1, <1>1, Zenon
<1> QED BY <1>1, <1>2, <1>3, <1>4, <1>5, <1>7, <1>8

(* What rev-parse answers.                                                 *)
LEMMA Resolved ==
    ASSUME ViewType, NEW x
    PROVE  /\ View!RevParse(x) # View!None => Known(View!RevParse(x)) /\ IsId(View!RevParse(x))
           /\ Known(x) => View!RevParse(x) = x /\ x # View!None /\ IsId(x)
           /\ IsId(x) /\ View!RevParse(x) # View!None => View!RevParse(x) = x /\ Known(x)
<1>1. /\ Len(commits) \in Nat /\ Len(commits) <= Len(Ids) /\ Len(Ids) \in Nat /\ head \in Branch
      /\ \A b \in Branch : refs[b] = View!None \/ Known(refs[b])
      BY ViewFacts DEF ViewType
<1>2. \A y : Known(y) => IsId(y)
  <2>1. \A k \in 1 .. Len(commits) : k \in 1 .. Len(Ids)
        BY <1>1
  <2> QED BY <2>1 DEF Known, IsId
<1>3. \A y : IsId(y) => y # View!None /\ y # "HEAD" /\ y \notin Branch
      BY ViewFacts DEF IsId
<1>4. \A y : y # "HEAD" /\ y \notin Branch =>
               View!RevParse(y) = IF Known(y) THEN y ELSE View!None
      BY DEF View!RevParse, Known
<1>5. View!RevParse(x) # View!None => Known(View!RevParse(x))
  <2>1. CASE x = "HEAD"
        BY <2>1, <1>1 DEF View!RevParse
  <2>2. CASE x # "HEAD" /\ x \in Branch
        BY <2>2, <1>1 DEF View!RevParse
  <2>3. CASE x # "HEAD" /\ x \notin Branch
        BY <2>3, <1>4
  <2> QED BY <2>1, <2>2, <2>3
<1> QED BY <1>2, <1>3, <1>4, <1>5

LEMMA NoneIsNone ==
    ASSUME ViewType
    PROVE  View!RevParse(View!None) = View!None
<1>1. View!None # "HEAD" /\ View!None \notin Branch
      BY ViewFacts
<1> QED BY <1>1 DEF View!RevParse

LEMMA NumberOf ==
    ASSUME ViewType, NEW k \in 1 .. Len(commits)
    PROVE  View!Number(Ids[k]) = k
<1>1. \A m \in 1 .. Len(commits) : m \in 1 .. Len(Ids)
      BY ViewFacts DEF ViewType
<1>2. \A m \in 1 .. Len(commits) : Ids[m] = Ids[k] => m = k
      BY <1>1, ViewFacts
<1> QED BY <1>2 DEF View!Number

LEMMA NumberIs ==
    ASSUME ViewType, NEW x, Known(x)
    PROVE  View!Number(x) \in 1 .. Len(commits) /\ Ids[View!Number(x)] = x
BY DEF Known, View!Number

LEMMA SameObject ==
    ASSUME ViewType, NEW x, NEW p, View!RevParse(x) # View!None
    PROVE  View!ObjectType(View!RevParse(x), p) = View!ObjectType(x, p)
<1>1. View!RevParse(View!RevParse(x)) = View!RevParse(x)
      BY Resolved
<1> QED BY <1>1 DEF View!ObjectType

LEMMA NoObject ==
    ASSUME NEW x, NEW p, View!ObjectType(x, p) # View!None
    PROVE  View!RevParse(x) # View!None
BY DEF View!ObjectType

(* rev-list -1: nothing under the path changed after the commit it names.  *)
LEMMA SameSince ==
    ASSUME ViewType, NEW x, Known(x), NEW p, View!LastTouch(x, p) # View!None
    PROVE  LET y == View!LastTouch(x, p)
           IN  Known(y) /\ View!Under(View!Number(y), p) = View!Under(View!Number(x), p)
<1> DEFINE N == View!Number(x)
           touch == {n \in 1 .. N : IF n = 1 THEN View!Under(1, p) # {}
                                    ELSE View!Under(n, p) # View!Under(n - 1, p)}
           y == View!LastTouch(x, p)
           last == CHOOSE n \in touch : \A m \in touch : m <= n
<1>1. N \in 1 .. Len(commits) /\ N \in Nat /\ Len(commits) \in Nat
      BY NumberIs DEF ViewType
<1>2. y = IF touch = {} THEN View!None ELSE Ids[last]
      BY DEF View!LastTouch
<1>3. touch # {} /\ y = Ids[last]
      BY <1>2
<1> HIDE DEF N
<1>4. touch \in SUBSET (1 .. N)
      OBVIOUS
<1>5. last \in touch /\ \A m \in touch : m <= last
  <2> HIDE DEF touch
  <2>1. \E n \in touch : \A m \in touch : m <= n
        BY <1>1, <1>3, <1>4, Greatest
  <2> QED BY <2>1
<1> HIDE DEF last
<1>6. last \in 1 .. N /\ last \in 1 .. Len(commits)
      BY <1>1, <1>4, <1>5
<1>7. Known(y) /\ View!Number(y) = last
      BY <1>3, <1>6, NumberOf DEF Known
<1>8. \A n \in (last + 1) .. N : View!Under(n, p) = View!Under(n - 1, p)
  <2> TAKE n \in (last + 1) .. N
  <2>1. n \in 1 .. N /\ n # 1 /\ ~(n <= last)
        BY <1>1, <1>6
  <2>2. n \notin touch
        BY <2>1, <1>5
  <2> QED BY <2>1, <2>2
<1> HIDE DEF touch, y
<1>9. View!Under(N, p) = View!Under(last, p)
  <2> DEFINE other == {n \in last .. N : View!Under(n, p) # View!Under(last, p)}
  <2> SUFFICES ASSUME other # {} PROVE FALSE
    <3>1. N \in last .. N
          BY <1>1, <1>6
    <3> QED BY <3>1
  <2>1. other \in SUBSET Nat
        BY <1>6
  <2>2. PICK n \in other : \A m \in other : n <= m
    <3> HIDE DEF other
    <3> QED BY <2>1, Least
  <2>3. n \in last .. N /\ View!Under(n, p) # View!Under(last, p)
        BY <2>2
  <2>4. n # last
        BY <2>3, Zenon
  <2>6. n \in (last + 1) .. N /\ n - 1 \in last .. N /\ ~(n <= n - 1)
        BY <2>3, <2>4, <1>1, <1>6
  <2>5. View!Under(n - 1, p) = View!Under(last, p)
        BY <2>2, <2>6
  <2> QED BY <2>3, <2>5, <2>6, <1>8
<1> QED BY <1>7, <1>9 DEF N, y

(* A fetch keeps the commits there are.                                    *)
LEMMA FetchKeeps ==
    ASSUME ViewType, View!Fetch
    PROVE  /\ ViewType' /\ moved' /\ ~moved
           /\ \A x : Known(x) => Known(x)' /\ View!RevParse(x)' = x /\ View!RevParse(x) = x
           /\ \A x, p : Known(x) => View!ObjectType(x, p)' = View!ObjectType(x, p)
<1>1. /\ commits \in Seq(Trees) /\ Len(commits) <= Len(Ids) /\ Len(commits) \in Nat /\ head \in Branch
      /\ refs = [b \in Branch |-> refs[b]] /\ \A b \in Branch : refs[b] = View!None \/ Known(refs[b])
      /\ Len(Ids) \in Nat
      BY ViewFacts DEF ViewType
<1>2. ~moved /\ moved' /\ moved' \in BOOLEAN /\ UNCHANGED page
      BY Zenon DEF View!Fetch
<1>3. /\ commits' \in Seq(Trees) /\ Len(commits') <= Len(Ids) /\ Len(commits) <= Len(commits')
      /\ Len(commits') \in Nat /\ head' \in Branch
      /\ \A k \in 1 .. Len(commits) : k \in 1 .. Len(commits') /\ commits'[k] = commits[k]
      /\ refs' = [b \in Branch |-> refs'[b]]
      /\ \A b \in Branch : \/ refs'[b] = View!None \/ refs'[b] = refs[b]
                           \/ \E k \in 1 .. Len(commits') : refs'[b] = Ids[k]
  <2>1. PICK b \in Branch : View!Prune(b) \/ View!SetHead(b) \/ \E t \in Trees : View!Advance(b, t)
        BY DEF View!Fetch
  <2>2. CASE View!Prune(b)
    <3>1. refs' = [refs EXCEPT ![b] = View!None] /\ UNCHANGED <<commits, head>>
          BY <2>2 DEF View!Prune
    <3> QED BY <3>1, <1>1
  <2>3. CASE View!SetHead(b)
    <3>1. head' = b /\ UNCHANGED <<commits, refs>>
          BY <2>3 DEF View!SetHead
    <3> QED BY <3>1, <1>1
  <2>4. CASE \E t \in Trees : View!Advance(b, t)
    <3>1. PICK t \in Trees : View!Advance(b, t)
          BY <2>4
    <3>2. /\ Len(commits) < Len(Ids) /\ commits' = Append(commits, t) /\ head' = head
          /\ refs' = [refs EXCEPT ![b] = Ids[Len(commits) + 1]]
          BY <3>1 DEF View!Advance
    <3>3. /\ commits' \in Seq(Trees) /\ Len(commits') = Len(commits) + 1
          /\ \A k \in 1 .. Len(commits) : commits'[k] = commits[k]
          BY <3>2, <1>1, Appended
    <3>4. Len(commits) + 1 \in 1 .. Len(commits') /\ \A k \in 1 .. Len(commits) : k \in 1 .. Len(commits')
          BY <3>3, <1>1
    <3>5. /\ refs' = [c \in Branch |-> refs'[c]]
          /\ \A c \in Branch : refs'[c] = refs[c] \/ refs'[c] = Ids[Len(commits) + 1]
          BY <3>2, <1>1
    <3>6. Len(commits') <= Len(Ids) /\ Len(commits) <= Len(commits') /\ Len(commits') \in Nat
          BY <3>2, <3>3, <1>1
    <3>7. \A c \in Branch : \/ refs'[c] = refs[c] \/ \E k \in 1 .. Len(commits') : refs'[c] = Ids[k]
          BY <3>4, <3>5
    <3> QED BY <3>2, <3>3, <3>4, <3>5, <3>6, <3>7, <1>1
  <2> QED BY <2>1, <2>2, <2>3, <2>4
<1>4. \A x : Known(x) => Known(x)'
      BY <1>3 DEF Known
<1>5. ViewType'
  <2>1. \A b \in Branch : refs'[b] = View!None \/ Known(refs[b])'
    <3> TAKE b \in Branch
    <3>1. CASE refs'[b] = refs[b]
      <4>1. Known(refs[b]) => \E k \in 1 .. Len(commits') : Ids[k] = refs[b]
            BY <1>3 DEF Known
      <4> QED BY <3>1, <4>1, <1>1 DEF Known
    <3>2. CASE \E k \in 1 .. Len(commits') : refs'[b] = Ids[k]
          BY <3>2 DEF Known
    <3> QED BY <3>1, <3>2, <1>3
  <2> QED BY <1>1, <1>2, <1>3, <2>1 DEF ViewType
<1>6. ASSUME NEW x, Known(x)
      PROVE  View!RevParse(x)' = x /\ View!RevParse(x) = x
  <2>1. IsId(x) /\ View!RevParse(x) = x
        BY <1>6, Resolved
  <2>2. x # "HEAD" /\ x \notin Branch
        BY <2>1, ViewFacts DEF IsId
  <2>3. Known(x)'
        BY <1>4, <1>6
  <2>4. View!RevParse(x)' = x
        BY <2>2, <2>3 DEF View!RevParse, Known
  <2> QED BY <2>1, <2>4
<1>7. ASSUME NEW x, NEW p, Known(x)
      PROVE  View!ObjectType(x, p)' = View!ObjectType(x, p)
  <2>1. View!RevParse(x)' = x /\ View!RevParse(x) = x
        BY <1>6, <1>7
  <2>2. PICK k \in 1 .. Len(commits) : Ids[k] = x
        BY <1>7 DEF Known
  <2>3. View!Number(x) = k
        BY <2>2, NumberOf
  <2>4. View!Number(x)' = k
    <3>1. \A m \in 1 .. Len(commits') : m \in 1 .. Len(Ids)
          BY <1>1, <1>3
    <3>2. k \in 1 .. Len(commits')
          BY <1>3
    <3>3. \A m \in 1 .. Len(commits') : Ids[m] = x => m = k
          BY <3>1, <3>2, <2>2, ViewFacts
    <3> QED BY <3>2, <3>3, <2>2 DEF View!Number
  <2>5. View!Exists(k, p)' = View!Exists(k, p)
        BY <1>3 DEF View!Exists
  <2> QED BY <2>1, <2>3, <2>4, <2>5 DEF View!ObjectType
<1> QED BY <1>2, <1>4, <1>5, <1>6, <1>7

LEMMA ViewInitially == View!Init => ViewInv
<1> SUFFICES ASSUME View!Init PROVE ViewInv
    OBVIOUS
<1>1. /\ commits \in [1 .. Len(Ids) - 1 -> Trees] /\ head \in Branch /\ moved = FALSE
      /\ refs \in [Branch -> {View!None} \cup {Ids[k] : k \in 1 .. Len(Ids) - 1}]
      /\ page = [type |-> View!None, from |-> View!None, readme |-> <<>>] /\ branches = <<>>
      /\ view_pc = IF req.kind = "experimental" THEN "head" ELSE "hash"
      BY DEF View!Init
<1>2. Len(Ids) \in Nat \ {0} /\ Len(Ids) - 1 \in Nat
      BY ViewFacts
<1>3. commits \in Seq(Trees) /\ Len(commits) = Len(Ids) - 1
      BY <1>1, <1>2
<1>4. ViewType
  <2>1. \A b \in Branch : refs[b] = View!None \/ Known(refs[b])
    <3> TAKE b \in Branch
    <3>1. refs[b] \in {View!None} \cup {Ids[k] : k \in 1 .. Len(Ids) - 1}
          BY <1>1
    <3> QED BY <3>1, <1>3 DEF Known
  <2>2. moved \in BOOLEAN
        BY <1>1, Zenon
  <2>3. refs = [b \in Branch |-> refs[b]]
        BY <1>1
  <2> QED BY <1>1, <1>2, <1>3, <2>1, <2>2, <2>3 DEF ViewType
<1>5. (view_pc = "head" /\ req.kind = "experimental") \/ (view_pc = "hash" /\ req.kind # "experimental")
  <2>1. view_pc = IF req.kind = "experimental" THEN "head" ELSE "hash"
        BY <1>1
  <2> QED BY <2>1
<1>6. HeadInv /\ CommitInv /\ HashInv
      BY <1>5 DEF HeadInv, CommitInv, HashInv
<1>7. PageInv /\ EndInv
      BY <1>1, <1>5 DEF PageInv, EndInv
<1> QED BY <1>4, <1>6, <1>7 DEF ViewInv

LEMMA ViewFetch ==
    ASSUME ViewInv, View!Fetch
    PROVE  ViewInv'
<1>1. ViewType /\ HeadInv /\ HashInv /\ PageInv /\ EndInv
      BY DEF ViewInv
<1>2. /\ ViewType' /\ moved' /\ ~moved
      /\ \A x : Known(x) => View!RevParse(x)' = x /\ View!RevParse(x) = x
      /\ \A x, p : Known(x) => View!ObjectType(x, p)' = View!ObjectType(x, p)
      BY <1>1, FetchKeeps
<1>3. /\ UNCHANGED <<req, view_pc, repoRev, headRev, commit, commitHash, page, tree, branches>>
      /\ view_pc \notin {"done", "error", "panic"}
      BY DEF View!Fetch
<1>4. HeadInv' /\ CommitInv' /\ HashInv'
      BY <1>1, <1>2, <1>3 DEF HeadInv, CommitInv, HashInv
<1>5. EndInv'
      BY <1>1, <1>2, <1>3 DEF EndInv
<1>6. ASSUME view_pc \notin {"head", "touch", "hash", "error"}, View!RevParse(commitHash) # View!None
      PROVE  Known(commitHash)
      BY <1>1, <1>2, <1>6, Resolved DEF HashInv
<1>7. ASSUME view_pc = "read"
      PROVE  page'.type # View!None /\ page'.type = View!ObjectType(commitHash, req.path)'
  <2>1. page.type # View!None /\ page.type = View!ObjectType(commitHash, req.path)
        BY <1>1, <1>7 DEF PageInv
  <2>2. Known(commitHash)
        BY <2>1, <1>6, <1>7, NoObject
  <2>3. View!ObjectType(commitHash, req.path)' = View!ObjectType(commitHash, req.path)
        BY <2>2, <1>2, <1>3
  <2> QED BY <2>1, <2>3, <1>3
<1>8. ASSUME view_pc \in {"readme", "links", "tree", "branches"}, page.type # View!None
      PROVE  /\ page'.from = View!RevParse(commitHash)' /\ page'.from # View!None
             /\ page'.type = View!ObjectType(page.from, req.path)'
             /\ page'.readme # <<>> => page'.readme[1] = page'.from
  <2>1. /\ page.from = View!RevParse(commitHash) /\ page.from # View!None
        /\ page.type = View!ObjectType(page.from, req.path)
        /\ page.readme # <<>> => page.readme[1] = page.from
        BY <1>1, <1>8 DEF PageInv
  <2>2. Known(commitHash) /\ page.from = commitHash
        BY <2>1, <1>2, <1>6, <1>8
  <2>3. View!RevParse(commitHash)' = commitHash
        BY <2>2, <1>2, <1>3
  <2>4. View!ObjectType(page.from, req.path)' = View!ObjectType(page.from, req.path)
        BY <2>2, <1>2, <1>3
  <2> QED BY <2>1, <2>2, <2>3, <2>4, <1>3
<1>9. PageInv'
  <2>1. /\ view_pc' \in {"head", "touch", "hash", "type", "read"} => page'.readme = <<>>
        /\ view_pc' \in {"readme", "links"} => page'.type # View!None
        BY <1>1, <1>3 DEF PageInv
  <2> QED BY <2>1, <1>3, <1>7, <1>8 DEF PageInv
<1> QED BY <1>2, <1>4, <1>5, <1>9 DEF ViewInv

(* What a handler step that leaves the repository alone keeps.             *)
LEMMA RepoKept ==
    ASSUME ViewType, UNCHANGED <<commits, refs, head, moved>>,
           page' = [type |-> page'.type, from |-> page'.from, readme |-> page'.readme]
    PROVE  /\ ViewType'
           /\ \A x : /\ View!RevParse(x)' = View!RevParse(x) /\ (Known(x)' <=> Known(x))
                     /\ View!Number(x)' = View!Number(x)
           /\ \A x, p : /\ View!ObjectType(x, p)' = View!ObjectType(x, p)
                        /\ View!LastTouch(x, p)' = View!LastTouch(x, p)
<1>1. \A x : View!RevParse(x)' = View!RevParse(x) /\ View!Number(x)' = View!Number(x)
      BY DEF View!RevParse, View!Number
<1>2. \A x : Known(x)' <=> Known(x)
      BY DEF Known
<1>3. \A n, p : View!Exists(n, p)' <=> View!Exists(n, p)
      BY DEF View!Exists
<1>4. \A n, p : View!Under(n, p)' = View!Under(n, p)
      BY DEF View!Under
<1>5. \A x, p : View!ObjectType(x, p)' = View!ObjectType(x, p)
      BY <1>1, <1>3 DEF View!ObjectType
<1>6. \A x, p : View!LastTouch(x, p)' = View!LastTouch(x, p)
      BY DEF View!LastTouch, View!Number, View!Under
<1>7. ViewType'
      BY DEF ViewType, Known
<1> QED BY <1>1, <1>2, <1>5, <1>6, <1>7

LEMMA ViewResolveHead ==
    ASSUME ViewInv, View!ResolveHead
    PROVE  ViewInv'
<1>1. ViewType /\ HeadInv /\ PageInv /\ EndInv /\ head \in Branch
      BY DEF ViewInv, ViewType
<1>2. /\ view_pc = "head"
      /\ UNCHANGED <<commits, refs, head, req, commit, commitHash, page, tree, branches, moved>>
      BY DEF View!ResolveHead, View!repo
<1>3. ViewType'
      BY <1>1, <1>2, RepoKept DEF ViewType
<1>4. view_pc' = "error" \/ (view_pc' = "touch" /\ headRev' = head /\ refs[head] # View!None)
  <2>1. View!RevParse("HEAD") = refs[head]
        BY <1>1 DEF View!RevParse
  <2> QED BY <2>1 DEF View!ResolveHead
<1>5. HeadInv' /\ CommitInv' /\ HashInv'
      BY <1>1, <1>2, <1>4 DEF HeadInv, CommitInv, HashInv
<1>6. PageInv' /\ EndInv'
      BY <1>1, <1>2, <1>4 DEF PageInv, EndInv
<1> QED BY <1>3, <1>5, <1>6 DEF ViewInv

LEMMA ViewLastRev ==
    ASSUME ViewInv, View!LastRev
    PROVE  ViewInv'
<1>1. ViewType /\ HeadInv /\ PageInv /\ EndInv
      BY DEF ViewInv
<1>2. /\ view_pc = "touch" /\ view_pc' = "hash" /\ (req.dfc = View!None => commit' = LastOrRev)
      /\ UNCHANGED <<commits, refs, head, req, repoRev, headRev, commitHash, page, tree, branches, moved>>
      BY DEF View!LastRev, View!repo, LastOrRev
<1>3. /\ ViewType' /\ \A x : View!RevParse(x)' = View!RevParse(x)
      /\ \A x, p : View!LastTouch(x, p)' = View!LastTouch(x, p)
      BY <1>1, <1>2, RepoKept DEF ViewType
<1>4. LastOrRev' = LastOrRev
      BY <1>2, <1>3 DEF LastOrRev
<1>5. HeadInv' /\ CommitInv' /\ HashInv'
      BY <1>1, <1>2, <1>4 DEF HeadInv, CommitInv, HashInv
<1>6. PageInv' /\ EndInv'
      BY <1>1, <1>2 DEF PageInv, EndInv
<1> QED BY <1>3, <1>5, <1>6 DEF ViewInv

LEMMA CommitKept ==
    ASSUME ViewType, CommitInv, view_pc \notin {"head", "touch"},
           UNCHANGED <<commits, refs, head, moved, req, repoRev, commit>>,
           page' = [type |-> page'.type, from |-> page'.from, readme |-> page'.readme],
           view_pc = "error" => view_pc' = "error"
    PROVE  CommitInv'
<1>1. /\ \A x : View!RevParse(x)' = View!RevParse(x)
      /\ \A x, p : View!LastTouch(x, p)' = View!LastTouch(x, p)
      BY RepoKept
<1>2. LastOrRev' = LastOrRev
      BY <1>1 DEF LastOrRev
<1> QED BY <1>2 DEF CommitInv

LEMMA HashKept ==
    ASSUME ViewType, HashInv, view_pc \notin {"head", "touch", "hash", "error"},
           UNCHANGED <<commits, refs, head, moved, commit, commitHash>>,
           page' = [type |-> page'.type, from |-> page'.from, readme |-> page'.readme]
    PROVE  HashInv'
<1>1. \A x : View!RevParse(x)' = View!RevParse(x)
      BY RepoKept
<1> QED BY <1>1 DEF HashInv, IsId

LEMMA ViewCommitHash ==
    ASSUME ViewInv, View!CommitHash
    PROVE  ViewInv'
<1>1. ViewType /\ HeadInv /\ CommitInv /\ PageInv /\ EndInv
      BY DEF ViewInv
<1>2. /\ view_pc = "hash" /\ view_pc' = "type"
      /\ commitHash' = IF View!RevParse(commit) = View!None THEN commit ELSE View!RevParse(commit)
      /\ UNCHANGED <<commits, refs, head, req, repoRev, headRev, commit, page, tree, branches, moved>>
      BY DEF View!CommitHash, View!repo
<1>3. /\ ViewType' /\ \A x : View!RevParse(x)' = View!RevParse(x)
      BY <1>1, <1>2, RepoKept DEF ViewType
<1>4. CommitInv'
      BY <1>1, <1>2, CommitKept DEF ViewType
<1>5. HashInv'
  <2>1. IsId(commitHash)' \/ View!RevParse(commitHash)' = View!None
    <3>1. CASE View!RevParse(commit) = View!None
          BY <3>1, <1>2, <1>3
    <3>2. CASE View!RevParse(commit) # View!None
      <4>1. IsId(View!RevParse(commit)) /\ commitHash' = View!RevParse(commit)
            BY <3>2, <1>1, <1>2, Resolved
      <4> QED BY <4>1 DEF IsId
    <3> QED BY <3>1, <3>2
  <2> QED BY <2>1, <1>2, <1>3 DEF HashInv
<1>6. HeadInv' /\ PageInv' /\ EndInv'
      BY <1>1, <1>2 DEF HeadInv, PageInv, EndInv
<1> QED BY <1>3, <1>4, <1>5, <1>6 DEF ViewInv

LEMMA ViewCatType ==
    ASSUME ViewInv, View!CatType
    PROVE  ViewInv'
<1> DEFINE t == View!ObjectType(commitHash, req.path)
<1>1. ViewType /\ HeadInv /\ CommitInv /\ HashInv /\ PageInv /\ EndInv
      BY DEF ViewInv
<1>2. /\ view_pc = "type" /\ page' = [page EXCEPT !.type = t]
      /\ IF t = View!None THEN view_pc' = IF req.kind = "experimental" THEN "tree" ELSE "error"
         ELSE view_pc' = "read"
      /\ UNCHANGED <<commits, refs, head, req, repoRev, headRev, commit, commitHash, tree, branches, moved>>
      BY DEF View!CatType, View!repo, View!Revision, View!Missing
<1> HIDE DEF t
<1>3. page' = [type |-> t, from |-> page.from, readme |-> page.readme]
      BY <1>1, <1>2 DEF ViewType
<1>4. page'.type = t /\ page'.from = page.from /\ page'.readme = page.readme
      BY <1>3
<1>5. /\ ViewType' /\ \A x, p : View!ObjectType(x, p)' = View!ObjectType(x, p)
      BY <1>1, <1>2, <1>3, <1>4, RepoKept
<1>6. CommitInv' /\ HashInv'
      BY <1>1, <1>2, <1>3, <1>4, CommitKept, HashKept
<1>7. view_pc' \in {"tree", "error", "read"} /\ (view_pc' = "tree" => req.kind = "experimental")
      /\ (view_pc' = "tree" => t = View!None) /\ (view_pc' = "read" => t # View!None)
      BY <1>2
<1>8. HeadInv' /\ EndInv'
      BY <1>1, <1>2, <1>7 DEF HeadInv, EndInv
<1>9. PageInv'
  <2>1. page.readme = <<>>
        BY <1>1, <1>2 DEF PageInv
  <2>2. View!ObjectType(commitHash, req.path)' = t
        BY <1>2, <1>5 DEF t
  <2> QED BY <2>1, <2>2, <1>4, <1>7 DEF PageInv
<1> QED BY <1>5, <1>6, <1>8, <1>9 DEF ViewInv

LEMMA ViewRead ==
    ASSUME ViewInv, View!Read
    PROVE  ViewInv'
<1> DEFINE t == View!ObjectType(commitHash, req.path)
           f == View!RevParse(commitHash)
<1>1. ViewType /\ HeadInv /\ CommitInv /\ HashInv /\ PageInv /\ EndInv
      BY DEF ViewInv
<1>2. /\ view_pc = "read" /\ page.type # View!None /\ page.type = t /\ page.readme = <<>>
      BY <1>1 DEF View!Read, PageInv
<1>3. /\ page' = [page EXCEPT !.from = f]
      /\ view_pc' = IF page.type = "tree" THEN "readme" ELSE "links"
      /\ UNCHANGED <<commits, refs, head, req, repoRev, headRev, commit, commitHash, tree, branches, moved>>
      BY <1>2 DEF View!Read, View!repo, View!Revision
<1>4. page' = [type |-> page.type, from |-> f, readme |-> page.readme]
      BY <1>1, <1>3 DEF ViewType
<1>5. f # View!None /\ View!ObjectType(f, req.path) = t
      BY <1>1, <1>2, NoObject, SameObject
<1> HIDE DEF t, f
<1>6. page'.type = page.type /\ page'.from = f /\ page'.readme = page.readme
      BY <1>4
<1>7. /\ ViewType' /\ \A x, p : View!ObjectType(x, p)' = View!ObjectType(x, p)
      /\ \A x : View!RevParse(x)' = View!RevParse(x)
      BY <1>1, <1>3, <1>4, <1>6, RepoKept
<1>8. CommitInv' /\ HashInv'
      BY <1>1, <1>2, <1>3, <1>4, <1>6, CommitKept, HashKept
<1>9. view_pc' \in {"readme", "links"}
      BY <1>3
<1>10. HeadInv' /\ EndInv'
       BY <1>1, <1>2, <1>3, <1>9 DEF HeadInv, EndInv
<1>11. PageInv'
  <2>1. View!RevParse(commitHash)' = f
        BY <1>3, <1>7 DEF f
  <2>2. View!ObjectType(page.from, req.path)' = t
        BY <1>3, <1>5, <1>6, <1>7
  <2> QED BY <2>1, <2>2, <1>2, <1>5, <1>6, <1>9 DEF PageInv
<1> QED BY <1>7, <1>8, <1>10, <1>11 DEF ViewInv

LEMMA ViewReadReadme ==
    ASSUME ViewInv, View!ReadReadme
    PROVE  ViewInv'
<1>1. ViewType /\ HeadInv /\ CommitInv /\ HashInv /\ PageInv /\ EndInv
      BY DEF ViewInv
<1>2. /\ view_pc = "readme" /\ view_pc' = "links"
      /\ page' = page \/ \E path : page' = [page EXCEPT !.readme = <<View!RevParse(commitHash), path>>]
      /\ UNCHANGED <<commits, refs, head, req, repoRev, headRev, commit, commitHash, tree, branches, moved>>
      BY DEF View!ReadReadme, View!repo, View!Revision
<1>3. /\ page.type # View!None /\ page.from = View!RevParse(commitHash) /\ page.from # View!None
      /\ page.type = View!ObjectType(page.from, req.path)
      /\ page.readme # <<>> => page.readme[1] = page.from
      BY <1>1, <1>2 DEF PageInv
<1>4. /\ page' = [type |-> page'.type, from |-> page'.from, readme |-> page'.readme]
      /\ page'.type = page.type /\ page'.from = page.from
      /\ page'.readme # <<>> => page'.readme[1] = page.from
  <2>1. page = [type |-> page.type, from |-> page.from, readme |-> page.readme]
        BY <1>1 DEF ViewType
  <2>2. CASE page' = page
        BY <2>1, <2>2, <1>3
  <2>3. ASSUME NEW path, page' = [page EXCEPT !.readme = <<View!RevParse(commitHash), path>>]
        PROVE  /\ page' = [type |-> page'.type, from |-> page'.from, readme |-> page'.readme]
               /\ page'.type = page.type /\ page'.from = page.from
               /\ page'.readme # <<>> => page'.readme[1] = page.from
    <3>1. page' = [type |-> page.type, from |-> page.from, readme |-> <<page.from, path>>]
          BY <2>1, <2>3, <1>3
    <3> QED BY <3>1
  <2> QED BY <2>2, <2>3, <1>2
<1>5. /\ ViewType' /\ \A x, p : View!ObjectType(x, p)' = View!ObjectType(x, p)
      /\ \A x : View!RevParse(x)' = View!RevParse(x)
      BY <1>1, <1>2, <1>4, RepoKept
<1>6. CommitInv' /\ HashInv'
      BY <1>1, <1>2, <1>4, CommitKept, HashKept
<1>7. HeadInv' /\ EndInv'
      BY <1>1, <1>2 DEF HeadInv, EndInv
<1>8. PageInv'
  <2>1. View!RevParse(commitHash)' = View!RevParse(commitHash)
        BY <1>2, <1>5
  <2>2. View!ObjectType(page.from, req.path)' = View!ObjectType(page.from, req.path)
        BY <1>2, <1>4, <1>5
  <2> QED BY <2>1, <2>2, <1>2, <1>3, <1>4 DEF PageInv
<1> QED BY <1>5, <1>6, <1>7, <1>8 DEF ViewInv

LEMMA PageKept ==
    ASSUME ViewType, PageInv, UNCHANGED <<commits, refs, head, moved, req, commitHash, page>>,
           view_pc \in {"links", "tree", "branches"},
           view_pc' \notin {"head", "touch", "hash", "type", "read", "readme", "links"}
    PROVE  PageInv'
<1>1. /\ \A x, p : View!ObjectType(x, p)' = View!ObjectType(x, p)
      /\ \A x : View!RevParse(x)' = View!RevParse(x)
      BY RepoKept DEF ViewType
<1>2. /\ View!RevParse(commitHash)' = View!RevParse(commitHash)
      /\ View!ObjectType(page.from, req.path)' = View!ObjectType(page.from, req.path)
      BY <1>1
<1> QED BY <1>2 DEF PageInv

LEMMA ViewLinks ==
    ASSUME ViewInv, View!Links
    PROVE  ViewInv'
<1>1. ViewType /\ HeadInv /\ CommitInv /\ HashInv /\ PageInv /\ EndInv
      BY DEF ViewInv
<1>2. /\ view_pc = "links" /\ view_pc' \in {"done", "panic", "tree"}
      /\ view_pc' = "tree" => req.kind = "experimental"
      /\ view_pc' = "panic" => ~IsId(commitHash)
      /\ view_pc' = "done" => req.kind # "experimental"
      /\ UNCHANGED <<commits, refs, head, req, repoRev, headRev, commit, commitHash, page, tree, branches, moved>>
      BY DEF View!Links, View!repo, IsId
<1>3. /\ ViewType'
      BY <1>1, <1>2, RepoKept DEF ViewType
<1>4. CommitInv' /\ HashInv' /\ PageInv'
      BY <1>1, <1>2, CommitKept, HashKept, PageKept DEF ViewType
<1>5. HeadInv'
      BY <1>1, <1>2 DEF HeadInv
<1>6. IsId(commitHash) \/ moved
      BY <1>1, <1>2 DEF HashInv, PageInv
<1>7. EndInv'
      BY <1>1, <1>2, <1>6 DEF EndInv
<1> QED BY <1>3, <1>4, <1>5, <1>7 DEF ViewInv

LEMMA ViewDirectoryTree ==
    ASSUME ViewInv, View!DirectoryTree
    PROVE  ViewInv'
<1>1. ViewType /\ HeadInv /\ CommitInv /\ HashInv /\ PageInv /\ EndInv
      BY DEF ViewInv
<1>2. /\ view_pc = "tree" /\ view_pc' = "branches" /\ tree' = View!RevParse(repoRev)
      /\ UNCHANGED <<commits, refs, head, req, repoRev, headRev, commit, commitHash, page, branches, moved>>
      BY DEF View!DirectoryTree, View!repo
<1>3. /\ ViewType' /\ \A x : View!RevParse(x)' = View!RevParse(x)
      BY <1>1, <1>2, RepoKept DEF ViewType
<1>4. CommitInv' /\ HashInv' /\ PageInv'
      BY <1>1, <1>2, CommitKept, HashKept, PageKept DEF ViewType
<1>5. HeadInv'
      BY <1>1, <1>2 DEF HeadInv
<1>6. EndInv'
      BY <1>1, <1>2, <1>3 DEF EndInv
<1> QED BY <1>3, <1>4, <1>5, <1>6 DEF ViewInv

(* A list of a finite set leaves out none of its elements.                 *)
LEMMA ListHasAll ==
    ASSUME NEW S, IsFiniteSet(S), NEW x \in S, NEW list \in View!SetToSeqs(S)
    PROVE  x \in View!ToSet(list) /\ list \in Seq(S)
<1> DEFINE D == 1 .. Cardinality(S)
<1>1. \A T : View!Cardinality(T) = Cardinality(T)
      BY DEF View!Cardinality, Cardinality
<1>2. /\ list \in [D -> S] /\ \A k, m \in D : k # m => list[k] # list[m]
      BY <1>1 DEF View!SetToSeqs
<1>3. Cardinality(S) \in Nat
      BY FS_CardinalityType
<1>4. IsFiniteSet(D) /\ Cardinality(D) = Cardinality(S)
      BY <1>3, FirstNaturals
<1>5. IsFiniteSet(S \ {x}) /\ Cardinality(S \ {x}) = Cardinality(S) - 1
      BY FS_RemoveElement
<1>6. Cardinality(S \ {x}) < Cardinality(D)
      BY <1>3, <1>4, <1>5
<1>7. x \in View!ToSet(list)
  <2> SUFFICES ASSUME x \notin View!ToSet(list) PROVE FALSE
      OBVIOUS
  <2>1. list \in [D -> S \ {x}]
        BY <1>2 DEF View!ToSet
  <2> HIDE DEF D
  <2>2. \E k, m \in D : k # m /\ list[k] = list[m]
        BY <2>1, <1>4, <1>5, <1>6, FS_PigeonHole
  <2> QED BY <2>2, <1>2
<1>8. list \in Seq(S)
      BY <1>2, <1>3
<1> QED BY <1>7, <1>8

LEMMA FirstOfReversed ==
    ASSUME NEW S, NEW list \in Seq(S), NEW k \in 1 .. Len(list)
    PROVE  View!Reverse(View!MoveToEnd(list, k))[1] = list[k]
<1> DEFINE rest == View!RemoveAt(list, k)
           s == Append(rest, list[k])
<1>1. rest \in Seq(S)
  <2>1. Len(list) \in Nat /\ k - 1 \in 0 .. Len(list) /\ k + 1 \in 1 .. (Len(list) + 1)
        OBVIOUS
  <2>2. SubSeq(list, 1, k - 1) \in Seq(S) /\ SubSeq(list, k + 1, Len(list)) \in Seq(S)
        BY <2>1
  <2> QED BY <2>2 DEF View!RemoveAt
<1>2. list[k] \in S
      OBVIOUS
<1> HIDE DEF rest
<1>3. s \in Seq(S) /\ Len(s) = Len(rest) + 1 /\ Len(rest) \in Nat /\ s[Len(rest) + 1] = list[k]
      BY <1>1, <1>2, Appended
<1> HIDE DEF s
<1>4. View!Reverse(s)[1] = s[(Len(s) - 1) + 1]
  <2>1. 1 \in 1 .. Len(s)
        BY <1>3
  <2> QED BY <2>1 DEF View!Reverse
<1>5. (Len(s) - 1) + 1 = Len(rest) + 1
      BY <1>3
<1> QED BY <1>3, <1>4, <1>5 DEF s, rest, View!MoveToEnd

LEMMA ViewListAllBranches ==
    ASSUME ViewInv, View!ListAllBranches
    PROVE  ViewInv'
<1> DEFINE S == {b \in Branch : refs[b] # View!None}
<1>1. ViewType /\ HeadInv /\ CommitInv /\ HashInv /\ PageInv /\ EndInv /\ head \in Branch
      BY DEF ViewInv, ViewType
<1>2. /\ view_pc = "branches"
      /\ UNCHANGED <<commits, refs, head, req, repoRev, headRev, commit, commitHash, page, tree, moved>>
      BY DEF View!ListAllBranches, View!repo
<1>3. PICK list \in View!SetToSeqs(S) :
        \/ list = <<>> /\ branches' = <<>> /\ view_pc' = "done"
        \/ \E k \in DOMAIN list : /\ list[k] = head /\ view_pc' = "done"
                                  /\ branches' = View!Reverse(View!MoveToEnd(list, k))
        \/ list # <<>> /\ head \notin View!ToSet(list) /\ view_pc' = "panic" /\ UNCHANGED branches
      BY DEF View!ListAllBranches
<1>4. IsFiniteSet(S)
      BY ViewFacts, FS_Subset
<1>5. req.kind = "experimental" /\ branches = <<>>
      BY <1>1, <1>2 DEF HeadInv, EndInv
<1>6. ~moved => head \in S /\ headRev = head
      BY <1>1, <1>2, <1>5 DEF HeadInv
<1> HIDE DEF S
<1>7. view_pc' = "done" \/ (view_pc' = "panic" /\ moved /\ branches' = <<>>)
      BY <1>3, <1>4, <1>5, <1>6, ListHasAll
<1>8. branches' # <<>> => view_pc' = "done" /\ (~moved => branches'[1] = headRev)
  <2> SUFFICES ASSUME branches' # <<>>, ~moved PROVE branches'[1] = headRev
      BY <1>7
  <2>1. PICK k \in DOMAIN list : list[k] = head /\ branches' = View!Reverse(View!MoveToEnd(list, k))
        BY <1>3, <1>5
  <2>2. list \in Seq(S)
        BY <1>4, <1>6, ListHasAll
  <2>3. k \in 1 .. Len(list)
        BY <2>1, <2>2
  <2>4. branches'[1] = list[k]
        BY <2>1, <2>2, <2>3, FirstOfReversed
  <2> QED BY <2>1, <2>4, <1>6
<1>9. /\ ViewType' /\ \A x : View!RevParse(x)' = View!RevParse(x)
      BY <1>1, <1>2, RepoKept DEF ViewType
<1>10. CommitInv' /\ HashInv' /\ PageInv'
       BY <1>1, <1>2, <1>7, CommitKept, HashKept, PageKept DEF ViewType
<1>11. HeadInv'
       BY <1>1, <1>2, <1>7 DEF HeadInv
<1>12. EndInv'
       BY <1>1, <1>2, <1>7, <1>8, <1>9 DEF EndInv
<1> QED BY <1>9, <1>10, <1>11, <1>12 DEF ViewInv

LEMMA ViewNext == ViewInv /\ View!Next => ViewInv'
<1> SUFFICES ASSUME ViewInv, View!Next PROVE ViewInv'
    OBVIOUS
<1> QED BY ViewFetch, ViewResolveHead, ViewLastRev, ViewCommitHash, ViewCatType, ViewRead,
           ViewReadReadme, ViewLinks, ViewDirectoryTree, ViewListAllBranches
        DEF View!Next, View!Handle

LEMMA ViewStutters ==
    ASSUME ViewInv, UNCHANGED <<commits, refs, head, req, view_pc, repoRev, headRev, commit,
                                commitHash, page, tree, branches, moved>>
    PROVE  ViewInv'
<1>1. ViewType /\ HeadInv /\ CommitInv /\ HashInv /\ PageInv /\ EndInv
      BY DEF ViewInv
<1>2. /\ ViewType' /\ \A x : View!RevParse(x)' = View!RevParse(x)
      /\ \A x, p : /\ View!ObjectType(x, p)' = View!ObjectType(x, p)
                   /\ View!LastTouch(x, p)' = View!LastTouch(x, p)
      BY <1>1, RepoKept DEF ViewType
<1>3. /\ View!RevParse(repoRev)' = View!RevParse(repoRev) /\ View!RevParse(commit)' = View!RevParse(commit)
      /\ View!RevParse(commitHash)' = View!RevParse(commitHash) /\ LastOrRev' = LastOrRev
      /\ View!ObjectType(page.from, req.path)' = View!ObjectType(page.from, req.path)
      /\ View!ObjectType(commitHash, req.path)' = View!ObjectType(commitHash, req.path)
      BY <1>2 DEF LastOrRev
<1>4. HeadInv' /\ CommitInv' /\ HashInv'
      BY <1>1, <1>3 DEF HeadInv, CommitInv, HashInv, IsId
<1>5. PageInv' /\ EndInv'
      BY <1>1, <1>3 DEF PageInv, EndInv
<1> QED BY <1>2, <1>4, <1>5 DEF ViewInv

LEMMA ViewIsInvariant == Spec => [](part = "View" => ViewInv)
<1>1. Init => (part = "View" => ViewInv)
      BY ViewInitially DEF Init
<1>2. (part = "View" => ViewInv) /\ [Next]_all => (part = "View" => ViewInv)'
  <2> SUFFICES ASSUME part = "View" => ViewInv, [Next]_all, part' = "View"
               PROVE  ViewInv'
      OBVIOUS
  <2>1. CASE ViewStep(View!Next)
        BY <2>1, ViewNext DEF ViewStep
  <2>2. CASE \/ DiffStep(Diff!Next) \/ BlameStep(Blame!Next) \/ ShowStep(Show!Next)
             \/ DirtreeStep(Dirtree!Next) \/ LogStep(Log!Next)
        BY <2>2 DEF DiffStep, BlameStep, ShowStep, DirtreeStep, LogStep
  <2>3. CASE UNCHANGED all
    <3>1. UNCHANGED <<part, viewVars>>
          BY <2>3 DEF all
    <3>2. UNCHANGED <<part, commits, refs, head, req, view_pc, repoRev, headRev, commit,
                      commitHash, page, tree, branches, moved>>
          BY <3>1 DEF viewVars
    <3> QED BY <3>2, ViewStutters
  <2> QED BY <2>1, <2>2, <2>3 DEF Next
<1> QED BY <1>1, <1>2, PTL DEF Spec

(* Without a fetch, the last commit of the path and the revision agree.    *)
LEMMA SamePath ==
    ASSUME ViewInv, view_pc = "done", page.type # View!None, req.kind = "experimental",
           req.dfc = View!None, ~moved
    PROVE  View!Under(View!Number(page.from), req.path) = View!Under(View!Number(tree), req.path)
<1> DEFINE r == View!RevParse(repoRev)
<1>1. /\ ViewType /\ commit = LastOrRev /\ tree = r
      /\ commitHash = IF View!RevParse(commit) = View!None THEN commit ELSE View!RevParse(commit)
      /\ page.from = View!RevParse(commitHash) /\ page.from # View!None
      BY DEF ViewInv, CommitInv, HashInv, PageInv, EndInv
<1>2. commitHash = View!RevParse(commit) /\ View!RevParse(commit) # View!None
      BY <1>1
<1>3. page.from = View!RevParse(commit)
  <2>1. Known(View!RevParse(commit))
        BY <1>1, <1>2, Resolved
  <2> QED BY <2>1, <1>1, <1>2, Resolved
<1>4. CASE r = View!None
  <2>1. commit = repoRev
        BY <1>4, <1>1 DEF LastOrRev
  <2> QED BY <2>1, <1>2, <1>4
<1>5. CASE r # View!None /\ req.path = View!None
  <2>1. commit = repoRev
        BY <1>5, <1>1 DEF LastOrRev
  <2> QED BY <2>1, <1>1, <1>3
<1>6. CASE r # View!None /\ req.path # View!None
  <2>1. commit = View!LastTouch(r, req.path)
        BY <1>6, <1>1 DEF LastOrRev
  <2>2. Known(r)
        BY <1>1, <1>6, Resolved
  <2>3. commit # View!None
    <3>1. View!RevParse(View!None) = View!None
          BY <1>1, NoneIsNone
    <3> QED BY <3>1, <1>2
  <2>4. Known(commit) /\ View!Under(View!Number(commit), req.path) = View!Under(View!Number(r), req.path)
        BY <2>1, <2>2, <2>3, <1>1, SameSince
  <2>5. page.from = commit
        BY <2>4, <1>1, <1>3, Resolved
  <2> QED BY <2>4, <2>5, <1>1
<1> QED BY <1>4, <1>5, <1>6

(***************************************************************************)
(* BuildFileData: whatever one fetch does between two git commands, the    *)
(* type, the content and the readme of a page come from one commit, the    *)
(* one it names; the path is there what it is in the revision asked for;   *)
(* HEAD's branch is first in the list; and a handler panics only if the    *)
(* fetch came in its way.                                                  *)
(***************************************************************************)
THEOREM PageIsExact == Spec => []PageExact
<1>1. (part = "View" => ViewInv) => PageExact
  <2> SUFFICES ASSUME ViewInv PROVE View!PageExact
      BY DEF PageExact
  <2>1. view_pc = "panic" => moved
        BY DEF ViewInv, EndInv
  <2>2. view_pc = "done" /\ page.type # View!None =>
          /\ page.type = View!ObjectType(page.from, req.path)
          /\ View!RevParse(commitHash) = commitHash => page.from = commitHash
          /\ page.readme # <<>> => page.readme[1] = page.from
        BY DEF ViewInv, PageInv
  <2>3. view_pc = "done" /\ branches # <<>> /\ ~moved => branches[1] = headRev
        BY DEF ViewInv, EndInv
  <2> QED BY <2>1, <2>2, <2>3, SamePath DEF View!PageExact
<1> QED BY <1>1, ViewIsInvariant, PTL

-----------------------------------------------------------------------------
(* GitBlameBlob and processNextChunk.                                      *)

Ranges == [start : Nat, end : Nat]
BlameLines == 1 .. Len(blame)

BlameType ==
    /\ blame \in Seq(Commits) /\ cuts \in SUBSET Nat
    /\ next \in Blame!Place /\ Blame!IsOutput(next) /\ eof \in Blame!Place /\ Blame!IsOutput(eof)
    /\ chunks \in [Commits -> [ranges : Seq(Ranges), data : BOOLEAN, alreadyFilled : BOOLEAN]]
    /\ blame_pc \in {"header", "chunk", "done"}

(* The scanner has not passed the end of the output.                       *)
ItemNo(x) == IF x.item = "head" THEN 0 ELSE IF x.item = "data" THEN 1 ELSE 2
EofInv == next.line < eof.line \/ (next.line = eof.line /\ ItemNo(next) <= ItemNo(eof))

(* The last line of the chunks whose header has been read.                 *)
LastKnown == IF blame_pc = "chunk" THEN next.line + linesInChunk - 1 ELSE next.line - 1

(* rs are ranges in order, and cover the lines of c up to n.               *)
RangesOf(rs, c, n) ==
    /\ \A k \in 1 .. Len(rs) : rs[k].start <= rs[k].end
    /\ \A j, k \in 1 .. Len(rs) : j < k => rs[j].end < rs[k].start
    /\ \A l \in Nat : (\E k \in 1 .. Len(rs) : rs[k].start <= l /\ l <= rs[k].end)
                        <=> (l \in BlameLines /\ l <= n /\ blame[l] = c)

OwnerInv ==
    /\ DOMAIN owner = 1 .. (next.line - 1)
    /\ \A l \in 1 .. (next.line - 1) : owner[l] = blame[l]
    /\ \A c \in Commits : RangesOf(chunks[c].ranges, c, LastKnown)

(* The data of a commit come with its first line, and are filled once.     *)
DataInv ==
    /\ \A l \in 1 .. (next.line - 1) : chunks[blame[l]].data
    /\ \A c \in Commits : chunks[c].alreadyFilled => \E l \in 1 .. (next.line - 1) : blame[l] = c
    /\ next.item = "code" => chunks[blame[next.line]].data

(* A chunk is being read to its end, and then the next one begins.         *)
ChunkInv ==
    IF blame_pc = "chunk"
    THEN /\ linesInChunk \in Nat \ {0}
         /\ LastKnown \in BlameLines
         /\ \A l \in next.line .. LastKnown : blame[l] = chunk
         /\ \A l \in (next.line + 1) .. LastKnown : ~Blame!StartsChunk(l)
         /\ LastKnown < Len(blame) => Blame!StartsChunk(LastKnown + 1)
         /\ IF next.item = "head" THEN ~Blame!StartsChunk(next.line) ELSE currLineNumber = next.line
    ELSE next.item = "head" /\ (next.line <= Len(blame) => Blame!StartsChunk(next.line))

BlameInv == BlameType /\ EofInv /\ OwnerInv /\ DataInv /\ ChunkInv

LEMMA BlameInitially == Blame!Init => BlameInv
<1> SUFFICES ASSUME Blame!Init PROVE BlameInv
    OBVIOUS
<1>1. PICK n \in 0 .. MaxLines : blame \in [1 .. n -> Commits]
      BY DEF Blame!Init
<1>2. n \in Nat /\ blame \in Seq(Commits) /\ Len(blame) = n
      BY <1>1
<1>3. /\ next = [line |-> 1, item |-> "head"] /\ blame_pc = "header" /\ owner = <<>>
      /\ chunks = [c \in Commits |-> [ranges |-> <<>>, data |-> FALSE, alreadyFilled |-> FALSE]]
      /\ cuts \in SUBSET Nat /\ eof \in Blame!Place /\ Blame!IsOutput(eof)
      BY <1>2 DEF Blame!Init, Blame!NoChunk
<1>4. BlameType
  <2>1. chunks \in [Commits -> [ranges : Seq(Ranges), data : BOOLEAN, alreadyFilled : BOOLEAN]]
        BY <1>3
  <2>2. next \in Blame!Place /\ Blame!IsOutput(next)
        BY <1>2, <1>3 DEF Blame!IsOutput, Blame!Place
  <2> QED BY <1>2, <1>3, <2>1, <2>2 DEF BlameType
<1>10. EofInv
      BY <1>2, <1>3 DEF EofInv, ItemNo, Blame!Place
<1>5. LastKnown = 0
      BY <1>3 DEF LastKnown
<1>6. \A c \in Commits : chunks[c].ranges = <<>> /\ ~chunks[c].alreadyFilled
      BY <1>3
<1>7. OwnerInv
      BY <1>2, <1>3, <1>5, <1>6 DEF OwnerInv, RangesOf, BlameLines
<1>8. DataInv
      BY <1>3, <1>6 DEF DataInv
<1>9. ChunkInv
      BY <1>2, <1>3 DEF ChunkInv, Blame!StartsChunk
<1> QED BY <1>4, <1>10, <1>7, <1>8, <1>9 DEF BlameInv

LEMMA ChunkSizeIs ==
    ASSUME BlameType, next.line <= Len(blame)
    PROVE  LET n == Blame!ChunkSize(next.line) l == next.line
           IN  /\ n \in 1 .. (Len(blame) - l + 1)
               /\ l + n > Len(blame) \/ Blame!StartsChunk(l + n)
               /\ \A k \in 1 .. (n - 1) : ~Blame!StartsChunk(l + k)
               /\ \A k \in l .. (l + n - 1) : blame[k] = blame[l]
<1> DEFINE l == next.line
           n == Blame!ChunkSize(l)
           Good(s) == /\ l + s > Len(blame) \/ Blame!StartsChunk(l + s)
                      /\ \A k \in 1 .. (s - 1) : ~Blame!StartsChunk(l + k)
           Stops == {s \in 1 .. (Len(blame) - l + 1) : l + s > Len(blame) \/ Blame!StartsChunk(l + s)}
<1>1. Len(blame) \in Nat /\ l \in Nat /\ l >= 1 /\ l <= Len(blame)
      BY DEF BlameType, Blame!Place
<1> HIDE DEF l
<1>2. Len(blame) - l + 1 \in Stops /\ Stops \in SUBSET Nat
      BY <1>1
<1>3. PICK m \in Stops : \A k \in Stops : m <= k
      BY <1>2, Least
<1>4. Good(m)
  <2>1. ASSUME NEW k \in 1 .. (m - 1) PROVE ~Blame!StartsChunk(l + k)
    <3>1. k \notin Stops /\ k \in 1 .. (Len(blame) - l + 1)
          BY <1>1, <1>3
    <3> QED BY <3>1
  <2>2. m \in Stops
        BY <1>3
  <2> QED BY <2>1, <2>2
<1>5. n \in 1 .. (Len(blame) - l + 1) /\ Good(n)
  <2>1. n = CHOOSE s \in 1 .. Len(blame) - l + 1 : Good(s)
        BY DEF Blame!ChunkSize
  <2> QED BY <1>3, <1>4, <2>1
<1> HIDE DEF n
<1>6. \A k \in l .. (l + n - 1) : blame[k] = blame[l]
  <2> DEFINE Other == {k \in l .. (l + n - 1) : blame[k] # blame[l]}
  <2> SUFFICES ASSUME Other # {} PROVE FALSE
      OBVIOUS
  <2>1. Other \in SUBSET Nat
        BY <1>1
  <2>2. PICK k \in Other : \A j \in Other : k <= j
        BY <2>1, Least
  <2>3. k \in Nat /\ k > l /\ k <= l + n - 1
        BY <2>2, <1>1, <1>5
  <2>4. k - 1 \notin Other /\ k - 1 \in l .. (l + n - 1)
        BY <2>2, <2>3, <1>1, <1>5
  <2>5. blame[k] # blame[k - 1]
        BY <2>2, <2>4
  <2>6. Blame!StartsChunk(k)
        BY <2>5 DEF Blame!StartsChunk
  <2>7. k - l \in 1 .. (n - 1) /\ l + (k - l) = k
        BY <2>3, <1>1, <1>5
  <2> QED BY <2>6, <2>7, <1>5
<1> QED BY <1>5, <1>6 DEF n, l

(* What After leads to.                                                    *)
LEMMA BlameAdvances ==
    ASSUME BlameType, EofInv, ~Blame!AtEnd, UNCHANGED <<blame, eof>>, next' = Blame!After(next)
    PROVE  /\ next.line <= Len(blame)
           /\ next' \in Blame!Place' /\ Blame!IsOutput(next)' /\ EofInv'
           /\ eof' \in Blame!Place' /\ Blame!IsOutput(eof)'
<1>1. /\ Len(blame) \in Nat /\ next \in Blame!Place /\ eof \in Blame!Place
      /\ next.line \in 1 .. (Len(blame) + 1) /\ next.item \in {"head", "data", "code"}
      /\ eof.line \in 1 .. (Len(blame) + 1) /\ eof.item \in {"head", "data", "code"}
      BY DEF BlameType, Blame!Place
<1>2. next.line = eof.line /\ next.item = eof.item => next = eof
      BY <1>1 DEF Blame!Place
<1>3. /\ next.line > Len(blame) => next.item = "head"
      /\ eof.line > Len(blame) => eof.item = "head"
      /\ eof.line <= Len(blame) /\ eof.item = "data" => Blame!FirstOfCommit(eof.line)
      BY DEF BlameType, Blame!IsOutput
<1>4. next.line <= Len(blame)
      BY <1>1, <1>2, <1>3 DEF EofInv, Blame!AtEnd
<1>5. eof' \in Blame!Place' /\ Blame!IsOutput(eof)'
      BY DEF BlameType, Blame!Place, Blame!IsOutput, Blame!FirstOfCommit
<1>6. CASE next.item = "code"
  <2>1. next' = [line |-> next.line + 1, item |-> "head"]
        BY <1>6 DEF Blame!After
  <2>2. next'.line = next.line + 1 /\ next'.item = "head"
        BY <2>1
  <2>3. next' \in Blame!Place' /\ Blame!IsOutput(next)'
        BY <1>1, <1>4, <2>1, <2>2 DEF Blame!Place, Blame!IsOutput
  <2>4. EofInv'
        BY <1>1, <1>2, <1>6, <2>2 DEF EofInv, ItemNo, Blame!AtEnd
  <2> QED BY <1>4, <1>5, <2>3, <2>4
<1>7. CASE next.item # "code"
  <2> DEFINE it == IF next.item = "head" /\ Blame!FirstOfCommit(next.line) THEN "data" ELSE "code"
  <2>1. next' = [line |-> next.line, item |-> it]
        BY <1>7 DEF Blame!After
  <2>2. next'.line = next.line /\ next'.item = it /\ it \in {"data", "code"}
        BY <2>1
  <2>3. it = "data" => Blame!FirstOfCommit(next.line)
        OBVIOUS
  <2>5. Blame!FirstOfCommit(next.line)' = Blame!FirstOfCommit(next.line)
        BY <2>2 DEF Blame!FirstOfCommit
  <2>6. next.line = eof.line => ItemNo(next) < ItemNo(eof)
        BY <1>1, <1>2 DEF EofInv, ItemNo, Blame!AtEnd
  <2>7. next.line = eof.line => ~(it = "code" /\ eof.item = "data")
    <3> SUFFICES ASSUME next.line = eof.line, eof.item = "data" PROVE it = "data"
        BY <2>2
    <3>1. next.item = "head"
          BY <2>6, <1>1 DEF ItemNo
    <3>2. Blame!FirstOfCommit(next.line)
          BY <1>3, <1>4
    <3> QED BY <3>1, <3>2
  <2> HIDE DEF it
  <2>8. next' \in Blame!Place' /\ Blame!IsOutput(next)'
        BY <1>1, <1>4, <2>1, <2>2, <2>3, <2>5 DEF Blame!Place, Blame!IsOutput
  <2>9. EofInv'
    <3>1. next.line = eof.line => eof.item \in {"data", "code"}
          BY <2>6, <1>1 DEF ItemNo
    <3> QED BY <1>1, <2>2, <2>6, <2>7, <3>1 DEF EofInv, ItemNo
  <2> QED BY <1>4, <1>5, <2>8, <2>9
<1> QED BY <1>6, <1>7

(* The ranges of a commit, with its lines l .. e added.                    *)
LEMMA AddedRange ==
    ASSUME NEW rs \in Seq(Ranges), NEW c, NEW l \in Nat \ {0}, NEW e \in Nat, l <= e, e <= Len(blame),
           Len(blame) \in Nat, RangesOf(rs, c, l - 1), \A k \in l .. e : blame[k] = c
    PROVE  /\ Blame!AddRange(rs, l, e) \in Seq(Ranges)
           /\ RangesOf(Blame!AddRange(rs, l, e), c, e)
<1> DEFINE ss == Blame!AddRange(rs, l, e)
           n == Len(rs)
           In(r, x) == r.start <= x /\ x <= r.end
<1>1. n \in Nat /\ \A k \in 1 .. n : rs[k].start \in Nat /\ rs[k].end \in Nat
  <2>1. n \in Nat /\ \A k \in 1 .. n : rs[k] \in Ranges
        OBVIOUS
  <2> QED BY <2>1 DEF Ranges
<1>2. \A k \in 1 .. n : rs[k].start <= rs[k].end /\ rs[k].end < l
  <2> TAKE k \in 1 .. n
  <2>1. rs[k].start <= rs[k].end
        BY DEF RangesOf
  <2>2. rs[k].end <= l - 1
        BY <1>1, <2>1 DEF RangesOf
  <2> QED BY <2>1, <2>2, <1>1
<1>3. \A x \in Nat : (x \in BlameLines /\ x <= e /\ blame[x] = c)
                    <=> (x \in BlameLines /\ x <= l - 1 /\ blame[x] = c) \/ (l <= x /\ x <= e)
      BY DEF BlameLines
<1>4. CASE Blame!Merges(rs, l, e)
  <2>1. n > 0 /\ rs[n].end = e - 1 /\ e = l
    <3>1. rs # <<>> /\ e - 1 = rs[n].end
          BY <1>4 DEF Blame!Merges
    <3>2. n > 0 /\ n \in 1 .. n
          BY <1>1, <3>1
    <3>3. rs[n].end < l /\ rs[n].end \in Nat
          BY <1>1, <1>2, <3>2
    <3> QED BY <3>1, <3>2, <3>3
  <2>2. ss = [rs EXCEPT ![n].end = e]
        BY <1>4 DEF Blame!AddRange
  <2>3. /\ Len(ss) = n /\ \A k \in 1 .. n : ss[k].start = rs[k].start
        /\ \A k \in 1 .. (n - 1) : ss[k].end = rs[k].end
        /\ ss[n].end = e /\ ss \in Seq(Ranges)
    <3>1. n \in 1 .. n
          BY <1>1, <2>1
    <3>2. ss = [rs EXCEPT ![n] = [rs[n] EXCEPT !.end = e]]
          BY <2>2
    <3>3. rs[n] \in Ranges
          BY <3>1
    <3>4. /\ [rs[n] EXCEPT !.end = e] \in Ranges /\ [rs[n] EXCEPT !.end = e].end = e
          /\ [rs[n] EXCEPT !.end = e].start = rs[n].start
          BY <3>3 DEF Ranges
    <3> QED BY <3>1, <3>2, <3>4
  <2> HIDE DEF ss
  <2>4. \A x \in Nat : (\E k \in 1 .. n : In(ss[k], x)) <=> (\E k \in 1 .. n : In(rs[k], x)) \/ x = l
    <3> TAKE x \in Nat
    <3>1. ASSUME NEW k \in 1 .. n, In(ss[k], x) PROVE (\E j \in 1 .. n : In(rs[j], x)) \/ x = l
      <4>1. CASE k = n
            BY <4>1, <3>1, <2>1, <2>3, <1>1
      <4>2. CASE k # n
            BY <4>2, <3>1, <2>3, <1>1, SMTT(30)
      <4> QED BY <4>1, <4>2
    <3>2. ASSUME NEW k \in 1 .. n, In(rs[k], x) PROVE \E j \in 1 .. n : In(ss[j], x)
      <4>1. CASE k = n
            BY <4>1, <3>2, <2>1, <2>3, <1>1
      <4>2. CASE k # n
            BY <4>2, <3>2, <2>3, <1>1
      <4> QED BY <4>1, <4>2
    <3>3. In(ss[n], l)
          BY <2>1, <2>3, <1>1, <1>2
    <3> QED BY <3>1, <3>2, <3>3, <2>1
  <2>5. \A x \in Nat : (\E k \in 1 .. n : In(rs[k], x)) <=> (x \in BlameLines /\ x <= l - 1 /\ blame[x] = c)
        BY DEF RangesOf
  <2>6. \A x \in Nat : (\E k \in 1 .. Len(ss) : In(ss[k], x)) <=> (x \in BlameLines /\ x <= e /\ blame[x] = c)
    <3> TAKE x \in Nat
    <3>1. (l <= x /\ x <= e) <=> x = l
          BY <2>1
    <3> QED BY <3>1, <2>3, <2>4, <2>5, <1>3
  <2>7. \A k \in 1 .. Len(ss) : ss[k].start <= ss[k].end
    <3> TAKE k \in 1 .. Len(ss)
    <3> QED BY <2>1, <2>3, <1>1, <1>2
  <2>8. \A j, k \in 1 .. Len(ss) : j < k => ss[j].end < ss[k].start
    <3> TAKE j, k \in 1 .. Len(ss)
    <3> HAVE j < k
    <3>1. j \in 1 .. (n - 1) /\ k \in 1 .. n
          BY <2>3, <1>1
    <3>2. j \in 1 .. n
          BY <3>1, <1>1
    <3>3. rs[j].end < rs[k].start
          BY <3>1, <3>2 DEF RangesOf
    <3> QED BY <3>1, <3>3, <2>3
  <2> QED BY <2>3, <2>6, <2>7, <2>8 DEF RangesOf, ss
<1>5. CASE ~Blame!Merges(rs, l, e)
  <2> DEFINE r == [start |-> l, end |-> e]
  <2>1. ss = Append(rs, r) /\ r \in Ranges
        BY <1>5 DEF Blame!AddRange, Ranges
  <2>2. /\ Len(ss) = n + 1 /\ \A k \in 1 .. n : ss[k] = rs[k]
        /\ ss[n + 1].start = l /\ ss[n + 1].end = e /\ ss \in Seq(Ranges)
        BY <2>1, <1>1
  <2> HIDE DEF ss
  <2>4. \A x \in Nat : (\E k \in 1 .. (n + 1) : In(ss[k], x)) <=> (\E k \in 1 .. n : In(rs[k], x)) \/ (l <= x /\ x <= e)
    <3> TAKE x \in Nat
    <3>1. ASSUME NEW k \in 1 .. (n + 1), In(ss[k], x) PROVE (\E j \in 1 .. n : In(rs[j], x)) \/ (l <= x /\ x <= e)
      <4>1. CASE k = n + 1
            BY <4>1, <3>1, <2>2
      <4>2. CASE k # n + 1
        <5>1. k \in 1 .. n
              BY <4>2, <1>1
        <5> QED BY <5>1, <3>1, <2>2
      <4> QED BY <4>1, <4>2
    <3>2. ASSUME NEW k \in 1 .. n, In(rs[k], x) PROVE \E j \in 1 .. (n + 1) : In(ss[j], x)
          BY <3>2, <2>2, <1>1
    <3>3. l <= x /\ x <= e => In(ss[n + 1], x)
          BY <2>2
    <3>4. n + 1 \in 1 .. (n + 1)
          BY <1>1
    <3> QED BY <3>1, <3>2, <3>3, <3>4
  <2>5. \A x \in Nat : (\E k \in 1 .. n : In(rs[k], x)) <=> (x \in BlameLines /\ x <= l - 1 /\ blame[x] = c)
        BY DEF RangesOf
  <2>6. \A x \in Nat : (\E k \in 1 .. Len(ss) : In(ss[k], x)) <=> (x \in BlameLines /\ x <= e /\ blame[x] = c)
        BY <2>2, <2>4, <2>5, <1>3
  <2>7. \A k \in 1 .. Len(ss) : ss[k].start <= ss[k].end
    <3> TAKE k \in 1 .. Len(ss)
    <3>1. k = n + 1 \/ k \in 1 .. n
          BY <2>2, <1>1
    <3> QED BY <3>1, <2>2, <1>1, <1>2
  <2>8. \A j, k \in 1 .. Len(ss) : j < k => ss[j].end < ss[k].start
    <3> TAKE j, k \in 1 .. Len(ss)
    <3> HAVE j < k
    <3>1. j \in 1 .. n /\ (k = n + 1 \/ k \in 1 .. n)
          BY <2>2, <1>1
    <3>2. k \in 1 .. n => rs[j].end < rs[k].start
          BY <3>1, <1>1 DEF RangesOf
    <3> QED BY <3>1, <3>2, <2>2, <1>2
  <2> QED BY <2>2, <2>6, <2>7, <2>8 DEF RangesOf, ss
<1> QED BY <1>4, <1>5

LEMMA BlameHeader ==
    ASSUME BlameInv, Blame!Header
    PROVE  BlameInv'
<1> DEFINE l == next.line
<1>1. BlameType /\ EofInv /\ OwnerInv /\ DataInv /\ ChunkInv
      BY DEF BlameInv
<1>2. /\ UNCHANGED <<blame, cuts, owner, eof>> /\ blame_pc = "header" /\ next.item = "head"
      /\ LastKnown = l - 1 /\ Len(blame) \in Nat /\ l \in 1 .. (Len(blame) + 1)
  <2>1. blame_pc = "header" /\ UNCHANGED <<blame, cuts, owner, eof>>
        BY DEF Blame!Header
  <2>2. next.item = "head" /\ LastKnown = l - 1
        BY <1>1, <2>1 DEF ChunkInv, LastKnown
  <2> QED BY <1>1, <2>1, <2>2 DEF BlameType, Blame!Place
<1>9. Blame!Place' = Blame!Place /\ \A x : Blame!FirstOfCommit(x)' = Blame!FirstOfCommit(x)
      BY <1>2 DEF Blame!Place, Blame!FirstOfCommit
<1>10. \A x : Blame!StartsChunk(x)' = Blame!StartsChunk(x)
      BY <1>2 DEF Blame!StartsChunk
<1>3. CASE Blame!AtEnd \/ Blame!Output.k # "chunk"
  <2>1. blame_pc' = "done" /\ UNCHANGED <<next, chunks>>
        BY <1>3 DEF Blame!Header
  <2>2. LastKnown' = LastKnown
        BY <1>2, <2>1 DEF LastKnown
  <2>3. BlameType'
    <3>1. Blame!IsOutput(next)' /\ Blame!IsOutput(eof)'
          BY <1>1, <1>2, <1>9, <2>1 DEF BlameType, Blame!IsOutput
    <3> QED BY <1>1, <1>2, <1>9, <2>1, <3>1 DEF BlameType
  <2>4. OwnerInv'
        BY <1>1, <1>2, <2>1, <2>2 DEF OwnerInv, RangesOf, BlameLines
  <2>5. DataInv' /\ EofInv'
        BY <1>1, <1>2, <2>1 DEF DataInv, EofInv, ItemNo
  <2>6. ChunkInv'
        BY <1>1, <1>2, <1>10, <2>1 DEF ChunkInv
  <2> QED BY <2>3, <2>4, <2>5, <2>6 DEF BlameInv
<1>4. CASE ~Blame!AtEnd /\ Blame!Output.k = "chunk"
  <2> DEFINE n == Blame!ChunkSize(l)
             e == l + n - 1
             c == blame[l]
             rs == chunks[c].ranges
             ss == Blame!AddRange(rs, l, e)
  <2>1. /\ Blame!StartsChunk(l) /\ Blame!Output.commit = c /\ Blame!Output.line = l
        /\ Blame!Output.size = n
    <3>1. CASE Blame!StartsChunk(l)
          BY <3>1, <1>2 DEF Blame!Output
    <3>2. CASE ~Blame!StartsChunk(l)
      <4>1. Blame!Output = [k |-> "line", line |-> l]
            BY <3>2, <1>2 DEF Blame!Output
      <4> QED BY <4>1, <1>4
    <3> QED BY <3>1, <3>2
  <2>2. /\ blame_pc' = "chunk" /\ chunk' = c /\ currLineNumber' = l /\ linesInChunk' = n
        /\ chunks' = [chunks EXCEPT ![c].ranges = ss] /\ next' = Blame!After(next)
        BY <1>4, <2>1 DEF Blame!Header
  <2>3. /\ l <= Len(blame) /\ next' \in Blame!Place' /\ Blame!IsOutput(next)' /\ EofInv'
        /\ eof' \in Blame!Place' /\ Blame!IsOutput(eof)'
        BY <1>1, <1>2, <1>4, <2>2, BlameAdvances
  <2>4. next'.line = l /\ next'.item = IF Blame!FirstOfCommit(l) THEN "data" ELSE "code"
    <3>1. next' = [line |-> l, item |-> IF Blame!FirstOfCommit(l) THEN "data" ELSE "code"]
          BY <1>2, <2>2 DEF Blame!After
    <3> QED BY <3>1
  <2>5. /\ n \in 1 .. (Len(blame) - l + 1) /\ (l + n > Len(blame) \/ Blame!StartsChunk(l + n))
        /\ \A k \in 1 .. (n - 1) : ~Blame!StartsChunk(l + k)
        /\ \A k \in l .. (l + n - 1) : blame[k] = blame[l]
        BY <1>1, <2>3, ChunkSizeIs
  <2> HIDE DEF n
  <2>6. c \in Commits /\ rs \in Seq(Ranges) /\ RangesOf(rs, c, l - 1)
    <3>1. c \in Commits
          BY <1>1, <1>2, <2>3 DEF BlameType
    <3> QED BY <1>1, <1>2, <3>1 DEF BlameType, OwnerInv
  <2>7. e \in Nat /\ l <= e /\ e <= Len(blame)
        BY <1>2, <2>5
  <2>8. ss \in Seq(Ranges) /\ RangesOf(ss, c, e)
    <3>1. l \in Nat \ {0} /\ \A k \in l .. e : blame[k] = c
          BY <1>2, <2>5
    <3> HIDE DEF l, e, c, rs
    <3> QED BY <1>2, <2>6, <2>7, <3>1, AddedRange
  <2>9. LastKnown' = e
        BY <2>2, <2>4 DEF LastKnown
  <2>10. /\ chunks' \in [Commits -> [ranges : Seq(Ranges), data : BOOLEAN, alreadyFilled : BOOLEAN]]
         /\ chunks'[c].ranges = ss /\ \A d \in Commits \ {c} : chunks'[d] = chunks[d]
         /\ \A d \in Commits : chunks'[d].data = chunks[d].data /\ chunks'[d].alreadyFilled = chunks[d].alreadyFilled
    <3> HIDE DEF ss, c
    <3>1. chunks \in [Commits -> [ranges : Seq(Ranges), data : BOOLEAN, alreadyFilled : BOOLEAN]]
          BY <1>1 DEF BlameType
    <3> QED BY <2>2, <2>6, <2>8, <3>1
  <2>11. BlameType'
    <3>1. blame' \in Seq(Commits) /\ cuts' \in SUBSET Nat
          BY <1>1, <1>2 DEF BlameType
    <3> QED BY <2>2, <2>3, <2>10, <3>1 DEF BlameType
  <2>12. OwnerInv'
    <3>1. ASSUME NEW d \in Commits PROVE RangesOf(chunks'[d].ranges, d, e)
      <4>1. CASE d = c
            BY <4>1, <2>8, <2>10
      <4>2. CASE d # c
        <5>1. RangesOf(chunks[d].ranges, d, l - 1)
              BY <1>1, <1>2 DEF OwnerInv
        <5>2. \A x \in Nat : (x \in BlameLines /\ x <= e /\ blame[x] = d) <=> (x \in BlameLines /\ x <= l - 1 /\ blame[x] = d)
          <6> TAKE x \in Nat
          <6>1. x >= l /\ x <= e => blame[x] = c
                BY <2>5, <1>2, <2>7
          <6> QED BY <6>1, <4>2, <2>7, <1>2
        <5>3. chunks'[d] = chunks[d]
              BY <4>2, <2>10
        <5> QED BY <5>1, <5>2, <5>3 DEF RangesOf
      <4> QED BY <4>1, <4>2
    <3>2. \A rr, d, x : RangesOf(rr, d, x)' <=> RangesOf(rr, d, x)
          BY <1>2 DEF RangesOf, BlameLines
    <3>3. (\A d \in Commits : RangesOf(chunks[d].ranges, d, LastKnown))'
          BY <2>9, <3>1, <1>2 DEF RangesOf, BlameLines
    <3> QED BY <1>1, <1>2, <2>4, <3>3 DEF OwnerInv
  <2>13. DataInv'
    <3>1. ASSUME next'.item = "code" PROVE chunks[c].data
      <4>1. ~Blame!FirstOfCommit(l)
            BY <2>4, <3>1
      <4>2. PICK m \in 1 .. (l - 1) : blame[m] = blame[l]
            BY <4>1 DEF Blame!FirstOfCommit
      <4> QED BY <4>2, <1>1 DEF DataInv
    <3>2. \A m \in 1 .. (l - 1) : blame[m] \in Commits /\ chunks[blame[m]].data
          BY <1>1, <1>2 DEF DataInv, BlameType
    <3>3. \A d \in Commits : chunks[d].alreadyFilled => \E m \in 1 .. (l - 1) : blame[m] = d
          BY <1>1 DEF DataInv
    <3>4. \A m \in 1 .. (l - 1) : chunks'[blame[m]].data
          BY <3>2, <2>10
    <3>5. next'.item = "code" => chunks'[c].data
          BY <3>1, <2>6, <2>10
    <3>6. \A d \in Commits : chunks'[d].alreadyFilled => \E m \in 1 .. (l - 1) : blame[m] = d
          BY <3>3, <2>10
    <3> QED BY <1>2, <2>4, <3>4, <3>5, <3>6 DEF DataInv
  <2>14. ChunkInv'
    <3>1. \A k \in (l + 1) .. e : ~Blame!StartsChunk(k)
      <4> TAKE k \in (l + 1) .. e
      <4>1. k - l \in 1 .. (n - 1) /\ l + (k - l) = k
            BY <1>2, <2>5, <2>7
      <4> QED BY <4>1, <2>5
    <3>2. e < Len(blame) => Blame!StartsChunk(e + 1)
      <4>1. e + 1 = l + n
            BY <1>2, <2>5
      <4> QED BY <4>1, <2>5, <2>7
    <3>3. next'.item # "head" /\ e \in BlameLines
          BY <2>4, <2>7, <1>2 DEF BlameLines
    <3>4. n \in Nat \ {0}
          BY <2>5
    <3>5. (\A k \in next.line .. LastKnown : blame[k] = chunk)'
          BY <1>2, <2>2, <2>4, <2>5, <2>9
    <3>6. (\A k \in (next.line + 1) .. LastKnown : ~Blame!StartsChunk(k))'
          BY <1>10, <2>4, <2>9, <3>1
    <3>7. (LastKnown < Len(blame) => Blame!StartsChunk(LastKnown + 1))'
          BY <1>2, <2>9, <3>2 DEF Blame!StartsChunk
    <3>8. (LastKnown \in BlameLines)'
          BY <1>2, <2>9, <3>3 DEF BlameLines
    <3> QED BY <2>2, <2>4, <3>3, <3>4, <3>5, <3>6, <3>7, <3>8 DEF ChunkInv
  <2> QED BY <2>3, <2>11, <2>12, <2>13, <2>14 DEF BlameInv
<1> QED BY <1>3, <1>4

LEMMA BlameStutters ==
    ASSUME BlameInv, UNCHANGED <<blame, cuts, next, eof, chunks, owner, chunk, currLineNumber, linesInChunk, blame_pc>>
    PROVE  BlameInv'
<1>1. BlameType /\ EofInv /\ OwnerInv /\ DataInv /\ ChunkInv
      BY DEF BlameInv
<1>2. Blame!Place' = Blame!Place /\ \A x : Blame!FirstOfCommit(x)' = Blame!FirstOfCommit(x)
      BY DEF Blame!Place, Blame!FirstOfCommit
<1>3. \A x : Blame!StartsChunk(x)' = Blame!StartsChunk(x)
      BY DEF Blame!StartsChunk
<1>4. LastKnown' = LastKnown
      BY DEF LastKnown
<1>5. BlameType'
  <2>1. Blame!IsOutput(next)' /\ Blame!IsOutput(eof)'
        BY <1>1, <1>2 DEF BlameType, Blame!IsOutput
  <2> QED BY <1>1, <1>2, <2>1 DEF BlameType
<1>6. OwnerInv'
      BY <1>1, <1>4 DEF OwnerInv, RangesOf, BlameLines
<1>7. DataInv' /\ EofInv'
      BY <1>1 DEF DataInv, EofInv, ItemNo
<1>8. ChunkInv'
  <2>1. Blame!StartsChunk(next.line)' = Blame!StartsChunk(next.line)
        BY <1>3
  <2>2. Blame!StartsChunk(LastKnown + 1)' = Blame!StartsChunk(LastKnown + 1)
        BY <1>3, <1>4
  <2> QED BY <1>1, <1>3, <1>4, <2>1, <2>2 DEF ChunkInv, BlameLines
<1> QED BY <1>5, <1>6, <1>7, <1>8 DEF BlameInv

LEMMA BlameScanLine ==
    ASSUME BlameInv, Blame!ScanLine
    PROVE  BlameInv'
<1> DEFINE l == next.line
           e == LastKnown
<1>1. BlameType /\ EofInv /\ OwnerInv /\ DataInv /\ ChunkInv
      BY DEF BlameInv
<1>2. /\ UNCHANGED <<blame, cuts, eof, chunk>> /\ blame_pc = "chunk"
      /\ Len(blame) \in Nat /\ l \in 1 .. (Len(blame) + 1)
      BY <1>1 DEF Blame!ScanLine, BlameType, Blame!Place
<1>3. /\ linesInChunk \in Nat \ {0} /\ e = l + linesInChunk - 1 /\ e \in 1 .. Len(blame)
      /\ \A k \in l .. e : blame[k] = chunk
      /\ \A k \in (l + 1) .. e : ~Blame!StartsChunk(k)
      /\ e < Len(blame) => Blame!StartsChunk(e + 1)
      /\ IF next.item = "head" THEN ~Blame!StartsChunk(l) ELSE currLineNumber = l
      BY <1>1, <1>2 DEF ChunkInv, LastKnown, BlameLines
<1>4. l \in 1 .. Len(blame) /\ l <= e /\ blame[l] = chunk /\ chunk \in Commits
      BY <1>1, <1>2, <1>3 DEF BlameType
<1>5. Blame!Place' = Blame!Place /\ \A x : Blame!FirstOfCommit(x)' = Blame!FirstOfCommit(x)
      BY <1>2 DEF Blame!Place, Blame!FirstOfCommit
<1>6. \A x : Blame!StartsChunk(x)' = Blame!StartsChunk(x)
      BY <1>2 DEF Blame!StartsChunk
<1>7. \A rr, d, x : RangesOf(rr, d, x)' <=> RangesOf(rr, d, x)
      BY <1>2 DEF RangesOf, BlameLines
<1>8. chunks \in [Commits -> [ranges : Seq(Ranges), data : BOOLEAN, alreadyFilled : BOOLEAN]]
      BY <1>1 DEF BlameType
<1>9. /\ DOMAIN owner = 1 .. (l - 1) /\ \A k \in 1 .. (l - 1) : owner[k] = blame[k]
      /\ \A c \in Commits : RangesOf(chunks[c].ranges, c, e)
      BY <1>1 DEF OwnerInv
<1>10. /\ \A k \in 1 .. (l - 1) : blame[k] \in Commits /\ chunks[blame[k]].data
       /\ \A c \in Commits : chunks[c].alreadyFilled => \E k \in 1 .. (l - 1) : blame[k] = c
       /\ next.item = "code" => chunks[chunk].data
       BY <1>1, <1>2, <1>4 DEF DataInv, BlameType
<1>11. CASE Blame!AtEnd
  <2>1. UNCHANGED <<next, chunks, owner, currLineNumber, linesInChunk, blame_pc>>
        BY <1>11 DEF Blame!ScanLine
  <2> QED BY <2>1, <1>2, BlameStutters
<1>12. CASE ~Blame!AtEnd
  <2>1. next' = Blame!After(next)
        BY <1>12 DEF Blame!ScanLine
  <2>2. /\ next' \in Blame!Place' /\ Blame!IsOutput(next)' /\ EofInv'
        /\ eof' \in Blame!Place' /\ Blame!IsOutput(eof)'
        BY <1>1, <1>2, <1>12, <2>1, BlameAdvances
  <2>3. ASSUME blame_pc' \in {"header", "chunk"},
               chunks' \in [Commits -> [ranges : Seq(Ranges), data : BOOLEAN, alreadyFilled : BOOLEAN]]
        PROVE  BlameType'
    <3>1. blame' \in Seq(Commits) /\ cuts' \in SUBSET Nat
          BY <1>1, <1>2 DEF BlameType
    <3> QED BY <2>2, <2>3, <3>1 DEF BlameType
  <2>4. CASE Blame!Output.k = "line"
    <3>1. next.item = "head"
      <4>1. next.item # "head" => Blame!Output = [k |-> next.item]
            BY DEF Blame!Output
      <4>2. next.item # "head" => Blame!Output.k = next.item
            BY <4>1
      <4>3. next.item \in {"head", "data", "code"}
            BY <1>1 DEF BlameType, Blame!Place
      <4> QED BY <2>4, <4>2, <4>3
    <3>2. ~Blame!StartsChunk(l)
          BY <1>3, <3>1
    <3>3. Blame!Output = [k |-> "line", line |-> l]
          BY <3>1, <3>2 DEF Blame!Output
    <3>4. currLineNumber' = l /\ UNCHANGED <<chunks, owner, linesInChunk, blame_pc>>
          BY <2>4, <3>3, <1>12 DEF Blame!ScanLine
    <3>5. l > 1 /\ blame[l - 1] = blame[l]
          BY <1>2, <3>2 DEF Blame!StartsChunk
    <3>6. l - 1 \in 1 .. (l - 1)
          BY <1>2, <3>5
    <3>7. ~Blame!FirstOfCommit(l)
          BY <3>5, <3>6 DEF Blame!FirstOfCommit
    <3>8. next'.line = l /\ next'.item = "code"
      <4>1. next' = [line |-> l, item |-> "code"]
            BY <2>1, <3>1, <3>7 DEF Blame!After
      <4> QED BY <4>1
    <3>9. LastKnown' = e
          BY <3>4, <3>8 DEF LastKnown
    <3>10. BlameType'
          BY <1>2, <1>8, <2>3, <3>4
    <3>11. OwnerInv'
      <4>1. \A c \in Commits : RangesOf(chunks[c].ranges, c, LastKnown)'
            BY <1>2, <1>9, <3>4, <3>9 DEF RangesOf, BlameLines
      <4> QED BY <1>2, <1>9, <3>4, <3>8, <4>1 DEF OwnerInv
    <3>12. DataInv'
      <4>1. chunks[blame[l]].data
            BY <1>10, <3>5, <3>6
      <4> QED BY <1>2, <1>10, <3>4, <3>8, <4>1 DEF DataInv
    <3>13. ChunkInv'
      <4>1. (\A k \in next.line .. LastKnown : blame[k] = chunk)'
            BY <1>2, <1>3, <3>8, <3>9
      <4>2. (\A k \in (next.line + 1) .. LastKnown : ~Blame!StartsChunk(k))'
            BY <1>3, <1>6, <3>8, <3>9
      <4>3. (LastKnown < Len(blame) => Blame!StartsChunk(LastKnown + 1))'
            BY <1>2, <1>3, <3>9 DEF Blame!StartsChunk
      <4>4. (LastKnown \in BlameLines)'
            BY <1>2, <1>3, <3>9 DEF BlameLines
      <4> QED BY <1>2, <1>3, <3>4, <3>8, <4>1, <4>2, <4>3, <4>4 DEF ChunkInv
    <3> QED BY <2>2, <3>10, <3>11, <3>12, <3>13 DEF BlameInv
  <2>5. CASE Blame!Output.k = "code"
    <3>1. next.item = "code"
      <4>1. CASE next.item = "head"
        <5>1. Blame!Output = [k |-> "line", line |-> l]
              BY <4>1, <1>3 DEF Blame!Output
        <5> QED BY <5>1, <2>5
      <4>2. CASE next.item # "head"
        <5>1. Blame!Output = [k |-> next.item]
              BY <4>2 DEF Blame!Output
        <5>2. Blame!Output.k = next.item
              BY <5>1
        <5> QED BY <5>2, <2>5
      <4> QED BY <4>1, <4>2
    <3>2. /\ chunks' = [chunks EXCEPT ![chunk].alreadyFilled = TRUE]
          /\ owner' = [k \in DOMAIN owner \cup {currLineNumber} |-> IF k = currLineNumber THEN chunk ELSE owner[k]]
          /\ linesInChunk' = linesInChunk - 1
          /\ blame_pc' = IF linesInChunk' = 0 THEN "header" ELSE "chunk"
          BY <2>5, <1>12 DEF Blame!ScanLine, Blame!ChunkRead
    <3>3. next'.line = l + 1 /\ next'.item = "head"
      <4>1. next' = [line |-> l + 1, item |-> "head"]
            BY <2>1, <3>1 DEF Blame!After
      <4> QED BY <4>1
    <3>4. currLineNumber = l
          BY <1>3, <3>1
    <3>5. /\ chunks' \in [Commits -> [ranges : Seq(Ranges), data : BOOLEAN, alreadyFilled : BOOLEAN]]
          /\ \A d \in Commits : chunks'[d].data = chunks[d].data /\ chunks'[d].ranges = chunks[d].ranges
          /\ \A d \in Commits \ {chunk} : chunks'[d].alreadyFilled = chunks[d].alreadyFilled
          BY <1>4, <1>8, <3>2
    <3>6. LastKnown' = e
      <4>1. CASE linesInChunk = 1
            BY <4>1, <1>2, <1>3, <3>2, <3>3 DEF LastKnown
      <4>2. CASE linesInChunk # 1
        <5>1. blame_pc' = "chunk" /\ linesInChunk' = linesInChunk - 1 /\ linesInChunk \in Nat
              BY <4>2, <1>3, <3>2
        <5>2. LastKnown' = l + 1 + (linesInChunk - 1) - 1
              BY <5>1, <3>3 DEF LastKnown
        <5> QED BY <5>1, <5>2, <1>2, <1>3
      <4> QED BY <4>1, <4>2
    <3>10. BlameType'
          BY <2>3, <3>2, <3>5
    <3>11. OwnerInv'
      <4>1. (\A c \in Commits : RangesOf(chunks[c].ranges, c, LastKnown))'
            BY <1>2, <1>9, <3>5, <3>6 DEF RangesOf, BlameLines
      <4>2. DOMAIN owner' = 1 .. (next'.line - 1)
            BY <1>2, <1>9, <3>2, <3>3, <3>4
      <4>3. \A k \in 1 .. (next'.line - 1) : owner'[k] = blame[k]
            BY <1>2, <1>4, <1>9, <3>2, <3>3, <3>4
      <4> QED BY <1>2, <4>1, <4>2, <4>3 DEF OwnerInv
    <3>12. DataInv'
      <4>1. \A k \in 1 .. (next'.line - 1) : chunks'[blame[k]].data
        <5> TAKE k \in 1 .. (next'.line - 1)
        <5>1. k \in 1 .. (l - 1) \/ k = l
              BY <1>2, <3>3
        <5> QED BY <5>1, <1>4, <1>10, <3>1, <3>5
      <4>2. \A c \in Commits : chunks'[c].alreadyFilled => \E k \in 1 .. (next'.line - 1) : blame[k] = c
        <5> TAKE c \in Commits
        <5>1. CASE c = chunk
          <6>1. l \in 1 .. (next'.line - 1)
                BY <1>2, <3>3
          <6> QED BY <6>1, <5>1, <1>4
        <5>2. CASE c # chunk
          <6>1. \A k \in 1 .. (l - 1) : k \in 1 .. (next'.line - 1)
                BY <1>2, <3>3
          <6> QED BY <6>1, <5>2, <3>5, <1>10
        <5> QED BY <5>1, <5>2
      <4> QED BY <1>2, <3>3, <4>1, <4>2 DEF DataInv
    <3>13. ChunkInv'
      <4>0. e < Len(blame) => Blame!StartsChunk(e + 1)
            BY <1>3
      <4>1. CASE linesInChunk = 1
        <5>1. e = l /\ blame_pc' = "header"
              BY <4>1, <1>2, <1>3, <3>2
        <5>2. (next.line <= Len(blame) => Blame!StartsChunk(next.line))'
              BY <5>1, <4>0, <1>2, <3>3 DEF Blame!StartsChunk
        <5> QED BY <5>1, <5>2, <3>3 DEF ChunkInv
      <4>2. CASE linesInChunk # 1
        <5>1. linesInChunk' \in Nat \ {0} /\ blame_pc' = "chunk" /\ l + 1 <= e
              BY <4>2, <1>2, <1>3, <3>2
        <5>2. (\A k \in next.line .. LastKnown : blame[k] = chunk)'
              BY <1>2, <1>3, <3>3, <3>6
        <5>3. (\A k \in (next.line + 1) .. LastKnown : ~Blame!StartsChunk(k))'
              BY <1>2, <1>3, <1>6, <3>3, <3>6
        <5>4. (LastKnown < Len(blame) => Blame!StartsChunk(LastKnown + 1))'
              BY <1>2, <1>3, <3>6 DEF Blame!StartsChunk
        <5>5. (LastKnown \in BlameLines)'
              BY <1>2, <1>3, <3>6 DEF BlameLines
        <5>6. (~Blame!StartsChunk(next.line))'
          <6>1. l + 1 \in (l + 1) .. e
                BY <1>2, <1>3, <5>1
          <6>2. ~Blame!StartsChunk(l + 1)
                BY <6>1, <1>3
          <6> QED BY <6>2, <1>2, <3>3 DEF Blame!StartsChunk
        <5> QED BY <3>3, <5>1, <5>2, <5>3, <5>4, <5>5, <5>6 DEF ChunkInv
      <4> QED BY <4>1, <4>2
    <3> QED BY <2>2, <3>10, <3>11, <3>12, <3>13 DEF BlameInv
  <2>6. CASE Blame!Output.k \in {"data", "chunk"}
    <3>1. next.item = "data" /\ Blame!Output.k = "data"
      <4>1. CASE next.item = "head"
        <5>1. Blame!Output = [k |-> "line", line |-> l]
              BY <4>1, <1>3 DEF Blame!Output
        <5> QED BY <5>1, <2>6
      <4>2. CASE next.item # "head"
        <5>1. Blame!Output = [k |-> next.item]
              BY <4>2 DEF Blame!Output
        <5>2. Blame!Output.k = next.item
              BY <5>1
        <5>3. next.item \in {"head", "data", "code"}
              BY <1>1 DEF BlameType, Blame!Place
        <5> QED BY <5>2, <5>3, <2>6
      <4> QED BY <4>1, <4>2
    <3>2. /\ chunks' = IF chunks[chunk].alreadyFilled THEN chunks ELSE [chunks EXCEPT ![chunk].data = TRUE]
          /\ UNCHANGED <<owner, currLineNumber, linesInChunk, blame_pc>>
          BY <3>1, <1>12 DEF Blame!ScanLine
    <3>3. Blame!FirstOfCommit(l)
          BY <1>1, <1>4, <3>1 DEF BlameType, Blame!IsOutput
    <3>4. ~chunks[chunk].alreadyFilled
          BY <1>4, <1>10, <3>3 DEF Blame!FirstOfCommit
    <3>5. /\ chunks' \in [Commits -> [ranges : Seq(Ranges), data : BOOLEAN, alreadyFilled : BOOLEAN]]
          /\ \A d \in Commits : chunks'[d].alreadyFilled = chunks[d].alreadyFilled /\ chunks'[d].ranges = chunks[d].ranges
          /\ \A d \in Commits : chunks[d].data => chunks'[d].data
          /\ chunks'[chunk].data
          BY <1>4, <1>8, <3>2, <3>4
    <3>8. next'.line = l /\ next'.item = "code"
      <4>1. next' = [line |-> l, item |-> "code"]
            BY <2>1, <3>1 DEF Blame!After
      <4> QED BY <4>1
    <3>9. LastKnown' = e
          BY <3>2, <3>8 DEF LastKnown
    <3>10. BlameType'
          BY <1>2, <2>3, <3>2, <3>5
    <3>11. OwnerInv'
      <4>1. (\A c \in Commits : RangesOf(chunks[c].ranges, c, LastKnown))'
            BY <1>2, <1>9, <3>5, <3>9 DEF RangesOf, BlameLines
      <4> QED BY <1>2, <1>9, <3>2, <3>8, <4>1 DEF OwnerInv
    <3>12. DataInv'
      <4>1. \A k \in 1 .. (l - 1) : chunks'[blame[k]].data
            BY <1>10, <3>5
      <4>2. \A c \in Commits : chunks'[c].alreadyFilled => \E k \in 1 .. (l - 1) : blame[k] = c
            BY <1>10, <3>5
      <4>3. chunks'[blame[l]].data
            BY <1>4, <3>5
      <4> QED BY <1>2, <3>8, <4>1, <4>2, <4>3 DEF DataInv
    <3>13. ChunkInv'
      <4>1. (\A k \in next.line .. LastKnown : blame[k] = chunk)'
            BY <1>2, <1>3, <3>8, <3>9
      <4>2. (\A k \in (next.line + 1) .. LastKnown : ~Blame!StartsChunk(k))'
            BY <1>3, <1>6, <3>8, <3>9
      <4>3. (LastKnown < Len(blame) => Blame!StartsChunk(LastKnown + 1))'
            BY <1>2, <1>3, <3>9 DEF Blame!StartsChunk
      <4>4. (LastKnown \in BlameLines)'
            BY <1>2, <1>3, <3>9 DEF BlameLines
      <4>5. currLineNumber' = l
            BY <1>3, <3>1, <3>2
      <4> QED BY <1>2, <1>3, <3>2, <3>8, <4>1, <4>2, <4>3, <4>4, <4>5 DEF ChunkInv
    <3> QED BY <2>2, <3>10, <3>11, <3>12, <3>13 DEF BlameInv
  <2> QED BY <1>12, <2>4, <2>5, <2>6 DEF Blame!ScanLine
<1> QED BY <1>11, <1>12

LEMMA BlameIsInvariant == Spec => [](part = "Blame" => BlameInv)
<1>1. Init => (part = "Blame" => BlameInv)
      BY BlameInitially DEF Init
<1>2. (part = "Blame" => BlameInv) /\ [Next]_all => (part = "Blame" => BlameInv)'
  <2> SUFFICES ASSUME part = "Blame" => BlameInv, [Next]_all, part' = "Blame"
               PROVE  BlameInv'
      OBVIOUS
  <2>1. CASE BlameStep(Blame!Next)
        BY <2>1, BlameHeader, BlameScanLine DEF BlameStep, Blame!Next
  <2>2. CASE \/ DiffStep(Diff!Next) \/ ShowStep(Show!Next) \/ LogStep(Log!Next)
             \/ ViewStep(View!Next) \/ DirtreeStep(Dirtree!Next)
        BY <2>2 DEF DiffStep, ShowStep, LogStep, ViewStep, DirtreeStep
  <2>3. CASE UNCHANGED all
    <3>1. UNCHANGED <<part, blameVars>>
          BY <2>3 DEF all
    <3>2. UNCHANGED <<part, blame, cuts, next, eof, chunks, owner, chunk, currLineNumber, linesInChunk, blame_pc>>
          BY <3>1 DEF blameVars
    <3> QED BY <3>2, BlameStutters
  <2> QED BY <2>1, <2>2, <2>3 DEF Next
<1> QED BY <1>1, <1>2, PTL DEF Spec

(***************************************************************************)
(* processNextChunk: every line of the blame view is attributed to the     *)
(* commit git blames for it, with that commit's data, and the ranges of a  *)
(* commit are disjoint, in order and cover exactly its lines read so far,  *)
(* wherever git splits its chunks and wherever its output ends.            *)
(***************************************************************************)
THEOREM BlameIsExact == Spec => []BlameExact
<1>1. (part = "Blame" => BlameInv) => BlameExact
  <2> SUFFICES ASSUME BlameInv PROVE Blame!BlameExact
      BY DEF BlameExact
  <2>1. BlameType /\ OwnerInv /\ DataInv /\ ChunkInv
        BY DEF BlameInv
  <2>2. \A l \in DOMAIN owner : owner[l] = blame[l] /\ chunks[owner[l]].data
        BY <2>1 DEF OwnerInv, DataInv
  <2>3. \A c \in Commits : \A j, k \in 1 .. Len(chunks[c].ranges) :
           j < k => chunks[c].ranges[j].end < chunks[c].ranges[k].start
        BY <2>1 DEF OwnerInv, RangesOf
  <2>4. ASSUME blame_pc # "chunk", NEW c \in Commits
        PROVE  Blame!RangeLines(c) = {l \in DOMAIN owner : owner[l] = c}
    <3> DEFINE rs == chunks[c].ranges
    <3>1. rs \in Seq(Ranges) /\ RangesOf(rs, c, next.line - 1) /\ Len(blame) \in Nat
          /\ next.line \in 1 .. (Len(blame) + 1)
          BY <2>1, <2>4 DEF BlameType, OwnerInv, LastKnown, Blame!Place
    <3>2. \A l \in Nat : l \in DOMAIN owner /\ owner[l] = c <=> \E k \in 1 .. Len(rs) : rs[k].start <= l /\ l <= rs[k].end
      <4> TAKE l \in Nat
      <4>1. l \in 1 .. (next.line - 1) /\ blame[l] = c <=> \E k \in 1 .. Len(rs) : rs[k].start <= l /\ l <= rs[k].end
            BY <3>1 DEF RangesOf, BlameLines
      <4> QED BY <4>1, <2>1 DEF OwnerInv
    <3>3. DOMAIN owner \in SUBSET Nat
          BY <2>1, <3>1 DEF OwnerInv
    <3>4. \A k \in 1 .. Len(rs) : rs[k].start \in Nat /\ rs[k].end \in Nat
      <4>1. \A k \in 1 .. Len(rs) : rs[k] \in Ranges
            BY <3>1
      <4> QED BY <4>1 DEF Ranges
    <3>5. Blame!RangeLines(c) = UNION {r.start .. r.end : r \in {rs[k] : k \in 1 .. Len(rs)}}
      <4>1. DOMAIN rs = 1 .. Len(rs)
            BY <3>1
      <4> QED BY <4>1 DEF Blame!RangeLines, Blame!ToSet
    <3>6. \A x : x \in Blame!RangeLines(c) <=> \E k \in 1 .. Len(rs) : x \in rs[k].start .. rs[k].end
          BY <3>5
    <3> HIDE DEF rs
    <3>7. \A x : x \in Blame!RangeLines(c) <=> x \in Nat /\ \E k \in 1 .. Len(rs) : rs[k].start <= x /\ x <= rs[k].end
          BY <3>4, <3>6
    <3> QED BY <3>2, <3>3, <3>7
  <2> QED BY <2>2, <2>3, <2>4 DEF Blame!BlameExact
<1> QED BY <1>1, BlameIsInvariant, PTL

-----------------------------------------------------------------------------
(* GitShowCommit.                                                          *)

LineKinds == {"end", "dashes", "stat", "summary", "diff", "index", "@@", "delete", "insert", "context"}
ShowLine == [k : LineKinds, file : Nat, hunk : Nat]
DiffType == [header : Nat, headerLines : Nat, chunkLine : BOOLEAN, lines : Seq(ShowLine), hunkNum : Nat]

ShowType ==
    /\ files \in Seq(Nat) /\ Len(files) >= 1
    /\ found \in BOOLEAN /\ entry \in Nat /\ line \in ShowLine
    /\ statLines \in Seq([file : Nat, hunkNum : Nat])
    /\ summary \in BOOLEAN /\ diffs \in Seq(DiffType) /\ currDif \in DiffType /\ hunkNum \in Nat
    /\ show_pc \in {"field", "stat", "patch", "done"}

(* ls are the shown lines of file f, as far as they have been read.        *)
HunkLines(ls, f) ==
    \A h \in Nat \ {0} :
        /\ 3 * h - 2 <= Len(ls) => ls[3 * h - 2] = Show!Line("delete", f, h)
        /\ 3 * h - 1 <= Len(ls) => ls[3 * h - 1] = Show!Line("insert", f, h)
        /\ 3 * h <= Len(ls) => ls[3 * h] = Show!Line("context", f, h)

(* d is the whole diff of file f.                                          *)
WholeDiff(d, f) ==
    /\ d.header = f /\ d.hunkNum = f - 1 /\ d.headerLines = 1
    /\ Len(d.lines) = 3 * files[f] /\ HunkLines(d.lines, f)

StatInv == \A k \in 1 .. Len(statLines) : statLines[k].file = k /\ statLines[k].hunkNum = k - 1

FieldsInv ==
    show_pc = "field" \/ (show_pc = "stat" /\ entry = Show!FieldCount) =>
        statLines = <<>> /\ hunkNum = 0 /\ (show_pc = "field" => entry < Show!FieldCount)

(* The diffstat is read line by line, one line for every file.             *)
InStat ==
    show_pc = "stat" /\ entry # Show!FieldCount =>
        /\ entry = Show!FieldCount + 1 /\ hunkNum = Len(statLines)
        /\ IF found
           THEN IF line.k = "stat" THEN line = Show!Line("stat", Len(statLines) + 1, 0) /\ Len(statLines) < Len(files)
                ELSE line.k = "summary" /\ Len(statLines) = Len(files)
           ELSE line = Show!NoLine /\ statLines = <<>>

NoDiffsYet == show_pc \in {"field", "stat"} => diffs = <<>> /\ currDif = Show!NoDif

StatRead == show_pc \in {"patch", "done"} => Len(statLines) = (IF found THEN Len(files) ELSE 0) /\ summary = found

(* The file at hand: what of it has been read is what line says.           *)
InDiff(f) ==
    /\ currDif.header = f /\ currDif.hunkNum = f - 1 /\ HunkLines(currDif.lines, f)
    /\ \/ /\ line = Show!Line("index", f, 0) /\ currDif.headerLines = 0
          /\ ~currDif.chunkLine /\ currDif.lines = <<>>
       \/ /\ currDif.headerLines = 1
          /\ \E h \in 1 .. files[f] :
               \/ line = Show!Line("@@", f, h) /\ Len(currDif.lines) = 3 * h - 3
               \/ /\ currDif.chunkLine
                  /\ \/ line = Show!Line("delete", f, h) /\ Len(currDif.lines) = 3 * h - 3
                     \/ line = Show!Line("insert", f, h) /\ Len(currDif.lines) = 3 * h - 2
                     \/ line = Show!Line("context", f, h) /\ Len(currDif.lines) = 3 * h - 1
       \/ WholeDiff(currDif, f) /\ line = Show!NextFile(f)

PatchInv ==
    show_pc = "patch" =>
        IF ~found THEN line = Show!NoLine /\ diffs = <<>> /\ currDif = Show!NoDif
        ELSE IF currDif = Show!NoDif
        THEN line = Show!Line("diff", 1, 0) /\ diffs = <<>> /\ hunkNum = 0
        ELSE /\ hunkNum = Len(diffs) /\ Len(diffs) < Len(files)
             /\ \A k \in 1 .. Len(diffs) : WholeDiff(diffs[k], k)
             /\ InDiff(Len(diffs) + 1)

DoneInv ==
    show_pc = "done" =>
        IF found THEN Len(diffs) = Len(files) /\ \A k \in 1 .. Len(diffs) : WholeDiff(diffs[k], k)
        ELSE diffs = <<>>

ShowInv == /\ ShowType /\ StatInv /\ FieldsInv /\ InStat /\ NoDiffsYet /\ StatRead /\ PatchInv /\ DoneInv

LEMMA LineFields ==
    \A k, f, h : Show!Line(k, f, h).k = k /\ Show!Line(k, f, h).file = f /\ Show!Line(k, f, h).hunk = h
BY DEF Show!Line

LEMMA LineType ==
    /\ \A k \in LineKinds, f, h \in Nat : Show!Line(k, f, h) \in ShowLine
    /\ Show!NoLine \in ShowLine /\ Show!NoLine.k = "end"
    /\ \A k \in {"dashes", "stat", "summary", "diff", "index", "@@", "delete", "insert", "context"} : k \in LineKinds
BY DEF Show!Line, ShowLine, Show!NoLine, LineKinds

LEMMA NoDifType ==
    /\ Show!NoDif \in DiffType /\ Show!NoDif.header = 0 /\ Show!NoDif.headerLines = 0
    /\ ~Show!NoDif.chunkLine /\ Show!NoDif.lines = <<>> /\ Show!NoDif.hunkNum = 0
BY DEF Show!NoDif, DiffType

LEMMA ShowInitially == Show!Init => ShowInv
<1> SUFFICES ASSUME Show!Init PROVE ShowInv
    OBVIOUS
<1>1. PICK n \in 1 .. MaxFiles : files \in [1 .. n -> Hunks]
      BY DEF Show!Init
<1>2. n \in Nat /\ files \in Seq(Nat) /\ Len(files) = n /\ n >= 1
  <2>1. n \in Nat /\ n >= 1
        BY <1>1, Assumptions DEF Show!ShowAssumption
  <2>2. files \in [1 .. n -> Nat]
        BY <1>1, Assumptions DEF Show!ShowAssumption
  <2> QED BY <2>1, <2>2
<1>3. /\ found \in BOOLEAN /\ entry = 0 /\ line = Show!NoLine /\ statLines = <<>> /\ summary = FALSE
      /\ diffs = <<>> /\ currDif = Show!NoDif /\ hunkNum = 0 /\ show_pc = "field"
      BY DEF Show!Init
<1>4. ShowType
  <2>1. line \in ShowLine
        BY <1>3, LineType, LineFields
  <2>2. statLines \in Seq([file : Nat, hunkNum : Nat]) /\ diffs \in Seq(DiffType)
        BY <1>3
  <2> QED BY <1>2, <1>3, <2>1, <2>2, NoDifType DEF ShowType
<1> QED BY <1>3, <1>4 DEF ShowInv, StatInv, FieldsInv, InStat, NoDiffsYet, StatRead, PatchInv, DoneInv, Show!FieldCount

(* WholeDiff and the like depend on files only.                            *)
LEMMA DiffKept ==
    ASSUME UNCHANGED files
    PROVE  /\ \A d, f : WholeDiff(d, f)' = WholeDiff(d, f)
           /\ \A f : Show!NextFile(f)' = Show!NextFile(f)
           /\ \A f, h : Show!NextHunk(f, h)' = Show!NextHunk(f, h)
BY DEF WholeDiff, HunkLines, Show!NextFile, Show!NextHunk

LEMMA ShowScanField ==
    ASSUME ShowInv, Show!ScanField
    PROVE  ShowInv'
<1>1. /\ show_pc = "field" /\ entry' = entry + 1 /\ show_pc' = (IF entry' = 9 THEN "stat" ELSE "field")
      /\ UNCHANGED <<files, found, line, statLines, summary, diffs, currDif, hunkNum>>
      BY DEF Show!ScanField, Show!FieldCount
<1>2. ShowType' /\ StatInv'
      BY <1>1 DEF ShowInv, ShowType, StatInv
<1>3. entry < 9 /\ entry \in Nat /\ statLines = <<>> /\ hunkNum = 0
      BY <1>1 DEF ShowInv, FieldsInv, ShowType, Show!FieldCount
<1>4. show_pc' = "field" => entry' < 9
      BY <1>1, <1>3
<1>5. show_pc' = "stat" => entry' = 9
      BY <1>1
<1>6. NoDiffsYet'
      BY <1>1 DEF ShowInv, NoDiffsYet
<1> QED BY <1>1, <1>2, <1>3, <1>4, <1>5, <1>6
        DEF ShowInv, FieldsInv, InStat, StatRead, PatchInv, DoneInv, Show!FieldCount

LEMMA ShowScanStat ==
    ASSUME ShowInv, Show!ScanStat
    PROVE  ShowInv'
<1>1. /\ show_pc = "stat" /\ entry = 9 /\ entry' = 10 /\ line' = Show!After(Show!FirstLine(10))
      /\ UNCHANGED <<files, found, statLines, summary, diffs, currDif, hunkNum, show_pc>>
      BY DEF Show!ScanStat, Show!FieldCount
<1>2. statLines = <<>> /\ hunkNum = 0 /\ Len(files) \in Nat /\ Len(files) >= 1
      BY <1>1 DEF ShowInv, FieldsInv, ShowType, Show!FieldCount
<1>3. line' = IF found THEN Show!Line("stat", 1, 0) ELSE Show!NoLine
  <2>1. Show!FirstLine(10) = IF found THEN Show!Line("dashes", 0, 0) ELSE Show!NoLine
        BY DEF Show!FirstLine, Show!FieldCount
  <2>2. CASE found
        BY <1>1, <2>1, <2>2 DEF Show!After, Show!Line
  <2>3. CASE ~found
        BY <1>1, <2>1, <2>3 DEF Show!After, Show!Line, Show!NoLine
  <2> QED BY <2>2, <2>3
<1>4. line' \in ShowLine /\ (found => line'.k = "stat")
      BY <1>3, LineType, LineFields
<1>5. ShowType' /\ StatInv'
      BY <1>1, <1>4 DEF ShowInv, ShowType, StatInv
<1>6. NoDiffsYet'
      BY <1>1 DEF ShowInv, NoDiffsYet
<1>7. InStat'
      BY <1>1, <1>2, <1>3, <1>4 DEF InStat, Show!FieldCount, Show!NoLine, Show!Line
<1> QED BY <1>1, <1>5, <1>6, <1>7
        DEF ShowInv, FieldsInv, StatRead, PatchInv, DoneInv, Show!FieldCount

LEMMA ShowStatLine ==
    ASSUME ShowInv, Show!StatLine
    PROVE  ShowInv'
<1>1. /\ show_pc = "stat" /\ entry > 9 /\ UNCHANGED <<files, found, diffs, currDif>>
      BY DEF Show!StatLine, Show!FieldCount
<1>2. /\ entry = 10 /\ hunkNum = Len(statLines)
      /\ found => IF line.k = "stat" THEN line = Show!Line("stat", Len(statLines) + 1, 0) /\ Len(statLines) < Len(files)
                  ELSE line.k = "summary" /\ Len(statLines) = Len(files)
      /\ ~found => line = Show!NoLine /\ statLines = <<>>
      /\ ShowType /\ StatInv /\ diffs = <<>> /\ currDif = Show!NoDif
      BY <1>1 DEF ShowInv, InStat, ShowType, NoDiffsYet, Show!FieldCount
<1>3. Len(statLines) \in Nat /\ Len(files) \in Nat /\ Show!NoLine.k = "end"
      BY <1>2, LineType DEF ShowType
<1>4. CASE line.k = "stat"
  <2> DEFINE n == Len(statLines)
             s == [file |-> line.file, hunkNum |-> hunkNum]
  <2>1. found /\ line = Show!Line("stat", n + 1, 0) /\ n < Len(files) /\ line.file = n + 1
        BY <1>2, <1>3, <1>4, LineFields
  <2>2. statLines' = Append(statLines, s) /\ hunkNum' = n + 1 /\ line' = Show!After(line) /\ UNCHANGED <<entry, summary, show_pc>>
        BY <1>2, <1>4 DEF Show!StatLine
  <2>3. s \in [file : Nat, hunkNum : Nat] /\ s.file = n + 1 /\ s.hunkNum = n
        BY <1>2, <1>3, <2>1
  <2>4. /\ Len(statLines') = n + 1 /\ statLines' \in Seq([file : Nat, hunkNum : Nat])
        /\ \A k \in 1 .. n : statLines'[k] = statLines[k]
        /\ statLines'[n + 1] = s
    <3>1. statLines \in Seq([file : Nat, hunkNum : Nat])
          BY <1>2 DEF ShowType
    <3> HIDE DEF s
    <3> QED BY <2>2, <2>3, <3>1
  <2>5. line' = IF n + 1 < Len(files) THEN Show!Line("stat", n + 2, 0) ELSE Show!Line("summary", 0, 0)
    <3>1. line' = IF line.file < Len(files) THEN Show!Line("stat", line.file + 1, 0) ELSE Show!Line("summary", 0, 0)
          BY <1>4, <2>2 DEF Show!After
    <3>2. line.file + 1 = n + 2
          BY <1>3, <2>1
    <3> QED BY <2>1, <3>1, <3>2
  <2>6. line' \in ShowLine /\ line'.k = IF n + 1 < Len(files) THEN "stat" ELSE "summary"
        BY <1>3, <2>5, LineType, LineFields
  <2>7. ShowType'
        BY <1>1, <1>2, <1>3, <2>2, <2>4, <2>6 DEF ShowType
  <2>8. StatInv'
    <3> SUFFICES ASSUME NEW k \in 1 .. (n + 1) PROVE statLines'[k].file = k /\ statLines'[k].hunkNum = k - 1
        BY <2>4 DEF StatInv
    <3>1. CASE k = n + 1
          BY <3>1, <1>3, <2>3, <2>4
    <3>2. CASE k # n + 1
      <4>1. k \in 1 .. n
            BY <3>2, <1>3
      <4> QED BY <4>1, <1>2, <2>4 DEF StatInv
    <3> QED BY <3>1, <3>2
  <2>9. InStat'
    <3>1. n + 2 = (n + 1) + 1
          BY <1>3
    <3>2. CASE n + 1 < Len(files)
          BY <3>1, <3>2, <1>1, <1>2, <2>1, <2>2, <2>4, <2>5, <2>6 DEF InStat, Show!FieldCount
    <3>3. CASE ~(n + 1 < Len(files))
          BY <3>3, <1>1, <1>2, <1>3, <2>1, <2>2, <2>4, <2>5, <2>6 DEF InStat, Show!FieldCount
    <3> QED BY <3>2, <3>3
  <2>10. NoDiffsYet'
        BY <1>1, <1>2 DEF NoDiffsYet
  <2> QED BY <1>1, <1>2, <2>2, <2>7, <2>8, <2>9, <2>10
          DEF ShowInv, FieldsInv, StatRead, PatchInv, DoneInv, Show!FieldCount
<1>5. CASE line.k # "stat"
  <2>1. /\ summary' = (line # Show!NoLine) /\ entry' = 11 /\ line' = Show!FirstLine(11) /\ hunkNum' = 0
        /\ show_pc' = "patch" /\ statLines' = statLines
    <3>1. /\ summary' = (line # Show!NoLine) /\ entry' = entry + 1 /\ line' = Show!FirstLine(entry') /\ hunkNum' = 0
          /\ show_pc' = "patch" /\ statLines' = statLines
          BY <1>5 DEF Show!StatLine
    <3>2. entry' = 11
          BY <1>2, <3>1
    <3> QED BY <3>1, <3>2
  <2>2. Len(statLines) = (IF found THEN Len(files) ELSE 0) /\ summary' = found
    <3>1. CASE found
          BY <3>1, <1>2, <1>3, <1>5, <2>1 DEF ShowType
    <3>2. CASE ~found
          BY <3>2, <1>2, <2>1 DEF ShowType
    <3> QED BY <3>1, <3>2
  <2>3. line' = IF found THEN Show!Line("diff", 1, 0) ELSE Show!NoLine
        BY <1>1, <2>1 DEF Show!FirstLine, Show!FieldCount
  <2>4. line' \in ShowLine
        BY <2>3, LineType, LineFields
  <2>5. ShowType'
        BY <1>1, <1>2, <2>1, <2>2, <2>4 DEF ShowType
  <2>6. StatInv'
        BY <1>2, <2>1 DEF StatInv
  <2>7. StatRead'
        BY <1>1, <2>1, <2>2 DEF StatRead
  <2>8. PatchInv'
    <3>1. CASE found
          BY <3>1, <1>1, <1>2, <2>1, <2>3 DEF PatchInv, Show!NoDif, Show!Line
    <3>2. CASE ~found
          BY <3>2, <1>1, <1>2, <2>1, <2>3 DEF PatchInv, Show!NoDif, Show!NoLine, Show!Line
    <3> QED BY <3>1, <3>2
  <2> QED BY <2>1, <2>5, <2>6, <2>7, <2>8 DEF ShowInv, FieldsInv, InStat, NoDiffsYet, DoneInv
<1> QED BY <1>4, <1>5

(* A line appended where it belongs keeps the lines in their places.       *)
LEMMA HunkLinesAppend ==
    ASSUME NEW ls \in Seq(ShowLine), NEW x \in ShowLine, NEW f \in Nat, NEW h \in Nat \ {0}, HunkLines(ls, f),
           \/ Len(ls) = 3 * h - 3 /\ x = Show!Line("delete", f, h)
           \/ Len(ls) = 3 * h - 2 /\ x = Show!Line("insert", f, h)
           \/ Len(ls) = 3 * h - 1 /\ x = Show!Line("context", f, h)
    PROVE  HunkLines(Append(ls, x), f)
<1> DEFINE n == Len(ls)
           as == Append(ls, x)
<1>1. n \in Nat /\ Len(as) = n + 1 /\ as[n + 1] = x /\ \A k \in 1 .. n : as[k] = ls[k]
      OBVIOUS
<1> HIDE DEF as
<1> SUFFICES ASSUME NEW g \in Nat \ {0}
             PROVE  /\ 3 * g - 2 <= Len(as) => as[3 * g - 2] = Show!Line("delete", f, g)
                    /\ 3 * g - 1 <= Len(as) => as[3 * g - 1] = Show!Line("insert", f, g)
                    /\ 3 * g <= Len(as) => as[3 * g] = Show!Line("context", f, g)
    BY DEF HunkLines, as
<1>2. /\ 3 * g - 2 <= n => ls[3 * g - 2] = Show!Line("delete", f, g)
      /\ 3 * g - 1 <= n => ls[3 * g - 1] = Show!Line("insert", f, g)
      /\ 3 * g <= n => ls[3 * g] = Show!Line("context", f, g)
      BY DEF HunkLines
<1>3. 3 * g - 2 \in Nat \ {0} /\ 3 * g - 1 \in Nat \ {0} /\ 3 * g \in Nat \ {0}
      OBVIOUS
<1>4. ASSUME 3 * g - 2 <= Len(as) PROVE as[3 * g - 2] = Show!Line("delete", f, g)
  <2>1. CASE 3 * g - 2 <= n
    <3>1. 3 * g - 2 \in 1 .. n
          BY <1>1, <1>3, <2>1
    <3>2. as[3 * g - 2] = ls[3 * g - 2]
          BY <1>1, <3>1
    <3> QED BY <1>2, <2>1, <3>2
  <2>2. CASE ~(3 * g - 2 <= n)
    <3>1. 3 * g - 2 = n + 1
          BY <1>1, <1>4, <2>2
    <3>2. h = g /\ n = 3 * h - 3
          BY <3>1
    <3>3. x = Show!Line("delete", f, h)
          BY <3>2
    <3> QED BY <1>1, <3>1, <3>2, <3>3
  <2> QED BY <2>1, <2>2
<1>5. ASSUME 3 * g - 1 <= Len(as) PROVE as[3 * g - 1] = Show!Line("insert", f, g)
  <2>1. CASE 3 * g - 1 <= n
    <3>1. 3 * g - 1 \in 1 .. n
          BY <1>1, <1>3, <2>1
    <3>2. as[3 * g - 1] = ls[3 * g - 1]
          BY <1>1, <3>1
    <3> QED BY <1>2, <2>1, <3>2
  <2>2. CASE ~(3 * g - 1 <= n)
    <3>1. 3 * g - 1 = n + 1
          BY <1>1, <1>5, <2>2
    <3>2. h = g /\ n = 3 * h - 2
          BY <3>1
    <3>3. x = Show!Line("insert", f, h)
          BY <3>2
    <3> QED BY <1>1, <3>1, <3>2, <3>3
  <2> QED BY <2>1, <2>2
<1>6. ASSUME 3 * g <= Len(as) PROVE as[3 * g] = Show!Line("context", f, g)
  <2>1. CASE 3 * g <= n
    <3>1. 3 * g \in 1 .. n
          BY <1>1, <1>3, <2>1
    <3>2. as[3 * g] = ls[3 * g]
          BY <1>1, <3>1
    <3> QED BY <1>2, <2>1, <3>2
  <2>2. CASE ~(3 * g <= n)
    <3>1. 3 * g = n + 1
          BY <1>1, <1>6, <2>2
    <3>2. h = g /\ n = 3 * h - 1
          BY <3>1
    <3>3. x = Show!Line("context", f, h)
          BY <3>2
    <3> QED BY <1>1, <3>1, <3>2, <3>3
  <2> QED BY <2>1, <2>2
<1> QED BY <1>4, <1>5, <1>6

(* A whole diff is appended to the whole diffs before it.                  *)
LEMMA DiffsAppend ==
    ASSUME ShowType, WholeDiff(currDif, Len(diffs) + 1), \A k \in 1 .. Len(diffs) : WholeDiff(diffs[k], k)
    PROVE  /\ Append(diffs, currDif) \in Seq(DiffType) /\ Len(Append(diffs, currDif)) = Len(diffs) + 1
           /\ \A k \in 1 .. (Len(diffs) + 1) : WholeDiff(Append(diffs, currDif)[k], k)
<1> DEFINE n == Len(diffs)
           ds == Append(diffs, currDif)
<1>1. diffs \in Seq(DiffType) /\ currDif \in DiffType
      BY DEF ShowType
<1>2. n \in Nat /\ ds \in Seq(DiffType) /\ Len(ds) = n + 1 /\ ds[n + 1] = currDif /\ \A k \in 1 .. n : ds[k] = diffs[k]
      BY <1>1
<1> HIDE DEF ds
<1>3. ASSUME NEW k \in 1 .. (n + 1) PROVE WholeDiff(ds[k], k)
  <2>1. CASE k = n + 1
        BY <1>2, <2>1
  <2>2. CASE k # n + 1
    <3>1. k \in 1 .. n
          BY <1>2, <2>2
    <3> QED BY <1>2, <3>1
  <2> QED BY <2>1, <2>2
<1> QED BY <1>2, <1>3 DEF ds

(* What a patch step leaves alone.                                         *)
LEMMA ShowPatchFrame ==
    ASSUME ShowInv, Show!PatchLine
    PROVE  /\ show_pc = "patch" /\ UNCHANGED <<files, found, entry, statLines, summary>> /\ ShowType /\ StatInv'
           /\ show_pc' \in {"patch", "done"} => StatRead'
           /\ Len(diffs) \in Nat /\ Len(files) \in Nat /\ Len(files) >= 1
           /\ found /\ currDif # Show!NoDif => Len(diffs) + 1 \in DOMAIN files /\ files[Len(diffs) + 1] \in Nat
<1>1. show_pc = "patch" /\ UNCHANGED <<files, found, entry, statLines, summary>>
      BY DEF Show!PatchLine
<1>2. ShowType /\ StatInv /\ StatRead /\ PatchInv
      BY DEF ShowInv
<1>3. StatInv' /\ (show_pc' \in {"patch", "done"} => StatRead')
      BY <1>1, <1>2 DEF StatInv, StatRead
<1>4. files \in Seq(Nat) /\ diffs \in Seq(DiffType) /\ Len(files) >= 1
      BY <1>2 DEF ShowType
<1>5. ASSUME found, currDif # Show!NoDif
      PROVE  Len(diffs) + 1 \in DOMAIN files /\ files[Len(diffs) + 1] \in Nat
  <2>1. Len(diffs) < Len(files)
        BY <1>1, <1>2, <1>5 DEF PatchInv
  <2> QED BY <1>4, <2>1
<1> QED BY <1>1, <1>2, <1>3, <1>4, <1>5

LEMMA ShowPatchEnds ==
    ASSUME ShowInv, Show!PatchLine, Show!PatchEnds
    PROVE  ShowInv'
<1>1. /\ line = Show!NoLine /\ show_pc' = "done" /\ UNCHANGED <<line, currDif, hunkNum>>
      /\ diffs' = IF currDif # Show!NoDif THEN Append(diffs, currDif) ELSE diffs
      BY DEF Show!PatchEnds
<1>2. /\ show_pc = "patch" /\ UNCHANGED <<files, found, entry, statLines, summary>> /\ ShowType /\ StatInv' /\ StatRead'
      /\ Len(diffs) \in Nat /\ Len(files) \in Nat /\ Len(files) >= 1
      BY <1>1, ShowPatchFrame
<1>3. PatchInv
      BY DEF ShowInv
<1>4. /\ diffs' \in Seq(DiffType)
      /\ IF found THEN Len(diffs') = Len(files) /\ \A k \in 1 .. Len(diffs') : WholeDiff(diffs'[k], k)
         ELSE diffs' = <<>>
  <2>1. CASE ~found
        BY <1>1, <1>2, <1>3, <2>1 DEF PatchInv
  <2>2. CASE found
    <3>1. currDif # Show!NoDif
          BY <1>1, <1>2, <1>3, <2>2, LineType, LineFields DEF PatchInv
    <3>2. /\ Len(diffs) < Len(files) /\ InDiff(Len(diffs) + 1)
          /\ \A k \in 1 .. Len(diffs) : WholeDiff(diffs[k], k)
          BY <1>2, <1>3, <2>2, <3>1 DEF PatchInv
    <3>3. WholeDiff(currDif, Len(diffs) + 1) /\ line = Show!NextFile(Len(diffs) + 1)
      <4>1. line.k = "end"
            BY <1>1, LineType
      <4> QED BY <3>2, <4>1, LineFields DEF InDiff
    <3>4. ~(Len(diffs) + 1 < Len(files))
          BY <1>1, <3>3, LineType, LineFields DEF Show!NextFile
    <3>5. Len(diffs) + 1 = Len(files)
          BY <1>2, <3>2, <3>4
    <3> QED BY <1>1, <1>2, <2>2, <3>1, <3>2, <3>3, <3>5, DiffsAppend
  <2> QED BY <2>1, <2>2
<1>5. ShowType'
      BY <1>1, <1>2, <1>4 DEF ShowType
<1>6. DoneInv'
      BY <1>2, <1>4, DiffKept DEF DoneInv
<1> QED BY <1>1, <1>2, <1>5, <1>6 DEF ShowInv, FieldsInv, InStat, NoDiffsYet, PatchInv

LEMMA ShowDiffStarts ==
    ASSUME ShowInv, Show!PatchLine, Show!DiffStarts
    PROVE  ShowInv'
<1>1. /\ line # Show!NoLine /\ line.k = "diff" /\ line' = Show!After(line) /\ show_pc' = show_pc
      /\ diffs' = IF currDif # Show!NoDif THEN Append(diffs, currDif) ELSE diffs
      /\ hunkNum' = IF currDif # Show!NoDif THEN hunkNum + 1 ELSE hunkNum
      /\ currDif' = [Show!NoDif EXCEPT !.header = line.file, !.hunkNum = hunkNum']
      BY DEF Show!DiffStarts
<1>2. /\ show_pc = "patch" /\ UNCHANGED <<files, found, entry, statLines, summary>> /\ ShowType /\ StatInv' /\ StatRead'
      /\ Len(diffs) \in Nat /\ Len(files) \in Nat /\ Len(files) >= 1
      BY <1>1, ShowPatchFrame
<1>3. PatchInv
      BY DEF ShowInv
<1>4. found
      BY <1>1, <1>2, <1>3 DEF PatchInv
<1>5. /\ diffs' \in Seq(DiffType) /\ Len(diffs') \in Nat /\ Len(diffs') < Len(files)
      /\ \A k \in 1 .. Len(diffs') : WholeDiff(diffs'[k], k)
      /\ hunkNum' = Len(diffs') /\ line = Show!Line("diff", Len(diffs') + 1, 0)
  <2>1. CASE currDif = Show!NoDif
        BY <1>1, <1>2, <1>3, <1>4, <2>1 DEF PatchInv, ShowType
  <2>2. CASE currDif # Show!NoDif
    <3>1. /\ hunkNum = Len(diffs) /\ Len(diffs) < Len(files) /\ InDiff(Len(diffs) + 1)
          /\ \A k \in 1 .. Len(diffs) : WholeDiff(diffs[k], k)
          BY <1>2, <1>3, <1>4, <2>2 DEF PatchInv
    <3>2. WholeDiff(currDif, Len(diffs) + 1) /\ line = Show!NextFile(Len(diffs) + 1)
          BY <1>1, <3>1, LineFields DEF InDiff
    <3>3. Len(diffs) + 1 < Len(files) /\ line = Show!Line("diff", Len(diffs) + 1 + 1, 0)
          BY <1>1, <3>2 DEF Show!NextFile
    <3>4. diffs' \in Seq(DiffType) /\ Len(diffs') = Len(diffs) + 1 /\ \A k \in 1 .. Len(diffs') : WholeDiff(diffs'[k], k)
          BY <1>1, <1>2, <2>2, <3>1, <3>2, DiffsAppend
    <3> QED BY <1>1, <1>2, <2>2, <3>1, <3>3, <3>4
  <2> QED BY <2>1, <2>2
<1> DEFINE f == Len(diffs') + 1
<1>6. line.file = f /\ f \in Nat /\ f > 0
      BY <1>5, LineFields
<1>7. /\ currDif' \in DiffType /\ currDif'.header = f /\ currDif'.hunkNum = f - 1 /\ currDif'.headerLines = 0
      /\ ~currDif'.chunkLine /\ currDif'.lines = <<>> /\ currDif' # Show!NoDif
  <2>1. currDif' = [header |-> f, headerLines |-> 0, chunkLine |-> FALSE, lines |-> <<>>, hunkNum |-> Len(diffs')]
        BY <1>1, <1>5, <1>6 DEF Show!NoDif
  <2>2. currDif' \in DiffType /\ currDif'.header = f /\ currDif'.hunkNum = f - 1 /\ currDif'.headerLines = 0
        BY <2>1, <1>5, <1>6 DEF DiffType
  <2>3. ~currDif'.chunkLine /\ currDif'.lines = <<>>
        BY <2>1
  <2> HIDE DEF f
  <2> QED BY <2>2, <2>3, <1>6, NoDifType
<1>8. line' = Show!Line("index", f, 0)
      BY <1>1, <1>6 DEF Show!After
<1>9. line' \in ShowLine
      BY <1>6, <1>8, LineType
<1>10. ShowType'
      BY <1>1, <1>2, <1>5, <1>7, <1>9 DEF ShowType
<1>11. PatchInv'
  <2>1. HunkLines(currDif'.lines, f)
    <3> SUFFICES ASSUME NEW g \in Nat \ {0} PROVE ~(3 * g - 2 <= 0) /\ ~(3 * g - 1 <= 0) /\ ~(3 * g <= 0)
        BY <1>7 DEF HunkLines
    <3> QED OBVIOUS
  <2>3. InDiff(Len(diffs) + 1)'
        BY <1>7, <1>8, <2>1 DEF InDiff, HunkLines
  <2> QED BY <1>2, <1>4, <1>5, <1>7, <2>3, DiffKept DEF PatchInv
<1> QED BY <1>1, <1>2, <1>10, <1>11 DEF ShowInv, FieldsInv, InStat, NoDiffsYet, DoneInv

LEMMA ShowDiffLine ==
    ASSUME ShowInv, Show!PatchLine, Show!DiffLine
    PROVE  ShowInv'
<1>1. /\ line # Show!NoLine /\ line.k # "diff" /\ line' = Show!After(line) /\ UNCHANGED <<diffs, hunkNum, show_pc>>
      /\ currDif' = IF line.k = "@@" THEN [currDif EXCEPT !.chunkLine = TRUE]
                    ELSE IF currDif.chunkLine THEN [currDif EXCEPT !.lines = Append(@, line)]
                    ELSE [currDif EXCEPT !.headerLines = @ + 1]
      BY DEF Show!DiffLine
<1>2. /\ show_pc = "patch" /\ UNCHANGED <<files, found, entry, statLines, summary>> /\ ShowType /\ StatInv' /\ StatRead'
      /\ Len(diffs) \in Nat /\ Len(files) \in Nat /\ Len(files) >= 1
      BY <1>1, ShowPatchFrame
<1>3. PatchInv
      BY DEF ShowInv
<1>4. found /\ currDif # Show!NoDif
      BY <1>1, <1>2, <1>3, LineFields DEF PatchInv
<1> DEFINE f == Len(diffs) + 1
<1>5. /\ hunkNum = Len(diffs) /\ Len(diffs) < Len(files) /\ InDiff(f)
      /\ \A k \in 1 .. Len(diffs) : WholeDiff(diffs[k], k)
      BY <1>2, <1>3, <1>4 DEF PatchInv
<1>6. f \in Nat \ {0} /\ files[f] \in Nat /\ f' = f
      BY <1>1, <1>2, <1>4, ShowPatchFrame
<1>7. currDif \in DiffType /\ currDif.lines \in Seq(ShowLine) /\ currDif.headerLines \in Nat /\ line \in ShowLine
  <2>1. currDif \in DiffType /\ line \in ShowLine
        BY <1>2 DEF ShowType
  <2> QED BY <2>1 DEF DiffType
<1>8. /\ currDif' \in DiffType /\ currDif'.header = currDif.header /\ currDif'.hunkNum = currDif.hunkNum
      /\ line.k = "@@" => currDif'.chunkLine /\ currDif'.lines = currDif.lines /\ currDif'.headerLines = currDif.headerLines
      /\ line.k # "@@" /\ currDif.chunkLine =>
           /\ currDif'.chunkLine /\ currDif'.lines = Append(currDif.lines, line) /\ currDif'.headerLines = currDif.headerLines
      /\ line.k # "@@" /\ ~currDif.chunkLine =>
           /\ ~currDif'.chunkLine /\ currDif'.lines = currDif.lines /\ currDif'.headerLines = currDif.headerLines + 1
  <2>1. CASE line.k = "@@"
    <3>1. currDif' = [currDif EXCEPT !.chunkLine = TRUE]
          BY <1>1, <2>1
    <3> QED BY <1>7, <2>1, <3>1 DEF DiffType
  <2>2. CASE line.k # "@@" /\ currDif.chunkLine
    <3>1. currDif' = [currDif EXCEPT !.lines = Append(currDif.lines, line)]
          BY <1>1, <2>2
    <3>2. Append(currDif.lines, line) \in Seq(ShowLine)
          BY <1>7
    <3> QED BY <1>7, <2>2, <3>1, <3>2 DEF DiffType
  <2>3. CASE line.k # "@@" /\ ~currDif.chunkLine
    <3>1. currDif' = [currDif EXCEPT !.headerLines = currDif.headerLines + 1]
          BY <1>1, <2>3
    <3>2. currDif.headerLines + 1 \in Nat
          BY <1>7
    <3> QED BY <1>7, <2>3, <3>1, <3>2 DEF DiffType
  <2> QED BY <2>1, <2>2, <2>3
<1>9. currDif.header = f /\ currDif.hunkNum = f - 1 /\ HunkLines(currDif.lines, f)
      BY <1>5 DEF InDiff
<1> DEFINE InHunk(l, d, h) ==
             \/ l = Show!Line("@@", f, h) /\ Len(d.lines) = 3 * h - 3
             \/ /\ d.chunkLine
                /\ \/ l = Show!Line("delete", f, h) /\ Len(d.lines) = 3 * h - 3
                   \/ l = Show!Line("insert", f, h) /\ Len(d.lines) = 3 * h - 2
                   \/ l = Show!Line("context", f, h) /\ Len(d.lines) = 3 * h - 1
           Then == /\ line' \in ShowLine /\ HunkLines(currDif'.lines, f) /\ currDif'.headerLines = 1
                   /\ \/ \E h \in 1 .. files[f] : InHunk(line', currDif', h)
                      \/ Len(currDif'.lines) = 3 * files[f] /\ line' = Show!NextFile(f)
<1>10. Show!NextFile(f) \in ShowLine
      BY <1>2, <1>6, LineType DEF Show!NextFile
<1>11. \A h \in Nat : Show!NextHunk(f, h) \in ShowLine
  <2> SUFFICES ASSUME NEW h \in Nat PROVE Show!NextHunk(f, h) \in ShowLine
      OBVIOUS
  <2>1. Show!Line("@@", f, h + 1) \in ShowLine
        BY <1>6, LineType
  <2> QED BY <1>10, <2>1 DEF Show!NextHunk
<1>12. ASSUME NEW h \in Nat, h <= files[f], HunkLines(currDif'.lines, f), currDif'.headerLines = 1,
              Len(currDif'.lines) = 3 * h, line' = Show!NextHunk(f, h)
       PROVE  Then
  <2>1. line' \in ShowLine
        BY <1>11, <1>12
  <2>2. CASE h < files[f]
    <3>1. line' = Show!Line("@@", f, h + 1) /\ h + 1 \in 1 .. files[f] /\ 3 * h = 3 * (h + 1) - 3
          BY <1>6, <1>12, <2>2 DEF Show!NextHunk
    <3>2. InHunk(line', currDif', h + 1)
          BY <1>12, <3>1
    <3> HIDE DEF InHunk
    <3> QED BY <1>12, <2>1, <3>1, <3>2
  <2>3. CASE ~(h < files[f])
    <3>1. h = files[f] /\ line' = Show!NextFile(f)
          BY <1>6, <1>12, <2>3 DEF Show!NextHunk
    <3> HIDE DEF InHunk
    <3> QED BY <1>12, <2>1, <3>1
  <2> QED BY <2>2, <2>3
<1>13. ASSUME line = Show!Line("index", f, 0), currDif.headerLines = 0, ~currDif.chunkLine, currDif.lines = <<>>
       PROVE  Then
  <2>1. line.k = "index" /\ line.file = f
        BY <1>13, LineFields
  <2>2. line' = Show!NextHunk(f, 0)
        BY <1>1, <2>1 DEF Show!After
  <2>3. currDif'.lines = <<>> /\ currDif'.headerLines = 1 /\ HunkLines(currDif'.lines, f)
        BY <1>8, <1>9, <1>13, <2>1
  <2>4. Len(currDif'.lines) = 3 * 0 /\ 0 <= files[f]
        BY <1>6, <2>3
  <2> HIDE DEF Then
  <2> QED BY <1>12, <2>2, <2>3, <2>4
<1>14. ASSUME NEW h \in 1 .. files[f], InHunk(line, currDif, h), currDif.headerLines = 1
       PROVE  Then
  <2>0. h \in Nat \ {0} /\ h <= files[f]
        BY <1>6
  <2>1. CASE line = Show!Line("@@", f, h) /\ Len(currDif.lines) = 3 * h - 3
    <3>1. line.k = "@@" /\ line.file = f /\ line.hunk = h
          BY <2>1, LineFields
    <3>2. line' = Show!Line("delete", f, h)
          BY <1>1, <3>1 DEF Show!After
    <3>3. line' \in ShowLine
          BY <1>6, <2>0, <3>2, LineType
    <3>4. currDif'.chunkLine /\ currDif'.lines = currDif.lines /\ currDif'.headerLines = 1
          BY <1>8, <1>14, <3>1
    <3>5. InHunk(line', currDif', h)
          BY <2>1, <3>2, <3>4
    <3> HIDE DEF InHunk
    <3> QED BY <1>9, <3>3, <3>4, <3>5
  <2>2. CASE line = Show!Line("delete", f, h) /\ Len(currDif.lines) = 3 * h - 3 /\ currDif.chunkLine
    <3>1. line.k = "delete" /\ line.file = f /\ line.hunk = h
          BY <2>2, LineFields
    <3>2. line' = Show!Line("insert", f, h)
          BY <1>1, <3>1 DEF Show!After
    <3>3. line' \in ShowLine
          BY <1>6, <2>0, <3>2, LineType
    <3>4. currDif'.chunkLine /\ currDif'.lines = Append(currDif.lines, line) /\ currDif'.headerLines = 1
          BY <1>8, <1>14, <2>2, <3>1
    <3>5. Len(currDif'.lines) = 3 * h - 2
          BY <1>7, <2>0, <2>2, <3>4
    <3>6. HunkLines(currDif'.lines, f)
          BY <1>6, <1>7, <1>9, <2>0, <2>2, <3>4, HunkLinesAppend
    <3>7. InHunk(line', currDif', h)
          BY <3>2, <3>4, <3>5
    <3> HIDE DEF InHunk
    <3> QED BY <3>3, <3>4, <3>6, <3>7
  <2>3. CASE line = Show!Line("insert", f, h) /\ Len(currDif.lines) = 3 * h - 2 /\ currDif.chunkLine
    <3>1. line.k = "insert" /\ line.file = f /\ line.hunk = h
          BY <2>3, LineFields
    <3>2. line' = Show!Line("context", f, h)
          BY <1>1, <3>1 DEF Show!After
    <3>3. line' \in ShowLine
          BY <1>6, <2>0, <3>2, LineType
    <3>4. currDif'.chunkLine /\ currDif'.lines = Append(currDif.lines, line) /\ currDif'.headerLines = 1
          BY <1>8, <1>14, <2>3, <3>1
    <3>5. Len(currDif'.lines) = 3 * h - 1
          BY <1>7, <2>0, <2>3, <3>4
    <3>6. HunkLines(currDif'.lines, f)
          BY <1>6, <1>7, <1>9, <2>0, <2>3, <3>4, HunkLinesAppend
    <3>7. InHunk(line', currDif', h)
          BY <3>2, <3>4, <3>5
    <3> HIDE DEF InHunk
    <3> QED BY <3>3, <3>4, <3>6, <3>7
  <2>4. CASE line = Show!Line("context", f, h) /\ Len(currDif.lines) = 3 * h - 1 /\ currDif.chunkLine
    <3>1. line.k = "context" /\ line.file = f /\ line.hunk = h
          BY <2>4, LineFields
    <3>2. line' = Show!NextHunk(f, h)
          BY <1>1, <3>1 DEF Show!After
    <3>4. currDif'.chunkLine /\ currDif'.lines = Append(currDif.lines, line) /\ currDif'.headerLines = 1
          BY <1>8, <1>14, <2>4, <3>1
    <3>5. Len(currDif'.lines) = 3 * h
          BY <1>7, <2>0, <2>4, <3>4
    <3>6. HunkLines(currDif'.lines, f)
          BY <1>6, <1>7, <1>9, <2>0, <2>4, <3>4, HunkLinesAppend
    <3> HIDE DEF Then
    <3> QED BY <1>12, <2>0, <3>2, <3>4, <3>5, <3>6
  <2> HIDE DEF Then
  <2> QED BY <1>14, <2>1, <2>2, <2>3, <2>4
<1>15. line # Show!NextFile(f)
      BY <1>1, LineFields DEF Show!NextFile
<1>16. Then
  <2>1. CASE \E h \in 1 .. files[f] : InHunk(line, currDif, h) /\ currDif.headerLines = 1
    <3>1. PICK h \in 1 .. files[f] : InHunk(line, currDif, h) /\ currDif.headerLines = 1
          BY <2>1
    <3> HIDE DEF Then, InHunk
    <3> QED BY <1>14, <3>1
  <2>2. CASE ~\E h \in 1 .. files[f] : InHunk(line, currDif, h) /\ currDif.headerLines = 1
    <3>1. /\ line = Show!Line("index", f, 0) /\ currDif.headerLines = 0
          /\ ~currDif.chunkLine /\ currDif.lines = <<>>
          BY <1>5, <1>15, <2>2 DEF InDiff
    <3> HIDE DEF Then
    <3> QED BY <1>13, <3>1
  <2> HIDE DEF Then, InHunk
  <2> QED BY <2>1, <2>2
<1>17. ShowType'
      BY <1>1, <1>2, <1>8, <1>16 DEF ShowType
<1>18. currDif'.header = f /\ currDif'.hunkNum = f - 1 /\ HunkLines(currDif'.lines, f) /\ currDif'.headerLines = 1
      BY <1>8, <1>9, <1>16
<1>19. HunkLines(currDif.lines, f)'
      BY <1>6, <1>18 DEF HunkLines
<1>20. InDiff(f)'
  <2>1. CASE \E h \in 1 .. files[f] : InHunk(line', currDif', h)
    <3>1. PICK h \in 1 .. files[f] : InHunk(line', currDif', h)
          BY <2>1
    <3>2. h \in 1 .. (files[f])'
          BY <1>2, <1>6
    <3>3. currDif'.header = f' /\ currDif'.hunkNum = f' - 1
          BY <1>6, <1>18
    <3>4. \/ line' = Show!Line("@@", f', h) /\ Len(currDif'.lines) = 3 * h - 3
          \/ /\ currDif'.chunkLine
             /\ \/ line' = Show!Line("delete", f', h) /\ Len(currDif'.lines) = 3 * h - 3
                \/ line' = Show!Line("insert", f', h) /\ Len(currDif'.lines) = 3 * h - 2
                \/ line' = Show!Line("context", f', h) /\ Len(currDif'.lines) = 3 * h - 1
          BY <1>6, <3>1
    <3> HIDE DEF f
    <3> QED BY <1>18, <1>19, <3>2, <3>3, <3>4 DEF InDiff
  <2>2. CASE Len(currDif'.lines) = 3 * files[f] /\ line' = Show!NextFile(f)
    <3>1. WholeDiff(currDif, f)'
          BY <1>2, <1>6, <1>18, <1>19, <2>2 DEF WholeDiff
    <3>2. (line = Show!NextFile(f))'
          BY <1>2, <1>6, <2>2 DEF Show!NextFile
    <3> QED BY <1>6, <1>18, <1>19, <3>1, <3>2 DEF InDiff
  <2> HIDE DEF InHunk
  <2> QED BY <1>16, <2>1, <2>2
<1>21. currDif' # Show!NoDif
      BY <1>6, <1>18, NoDifType
<1>22. PatchInv'
      BY <1>1, <1>2, <1>4, <1>5, <1>20, <1>21, DiffKept DEF PatchInv
<1> QED BY <1>1, <1>2, <1>17, <1>22 DEF ShowInv, FieldsInv, InStat, NoDiffsYet, DoneInv

LEMMA ShowStutters ==
    ASSUME ShowInv, UNCHANGED showVars
    PROVE  ShowInv'
<1>1. UNCHANGED <<files, found, entry, line, statLines, summary, diffs, currDif, hunkNum, show_pc>>
      BY DEF showVars
<1> QED BY <1>1 DEF ShowInv, ShowType, StatInv, FieldsInv, InStat, NoDiffsYet, StatRead, PatchInv, InDiff, WholeDiff,
           HunkLines, DoneInv, Show!NextFile

LEMMA ShowNext ==
    ASSUME ShowInv, Show!Next
    PROVE  ShowInv'
<1>1. CASE Show!PatchLine
      BY <1>1, ShowPatchEnds, ShowDiffStarts, ShowDiffLine DEF Show!PatchLine
<1> QED BY <1>1, ShowScanField, ShowScanStat, ShowStatLine DEF Show!Next

LEMMA ShowInvImplies == ShowInv => Show!ShowExact
<1> SUFFICES ASSUME ShowInv, show_pc = "done"
             PROVE  /\ Len(diffs) = (IF found THEN Len(files) ELSE 0)
                    /\ Len(statLines) = Len(diffs)
                    /\ summary = found
                    /\ \A n \in 1 .. Len(diffs) :
                         /\ diffs[n].header = n /\ statLines[n].file = n
                         /\ diffs[n].hunkNum = statLines[n].hunkNum
                         /\ diffs[n].headerLines = 1
                         /\ Len(diffs[n].lines) = 3 * files[n]
                         /\ \A h \in 1 .. files[n] :
                              /\ diffs[n].lines[3 * h - 2] = Show!Line("delete", n, h)
                              /\ diffs[n].lines[3 * h - 1] = Show!Line("insert", n, h)
                              /\ diffs[n].lines[3 * h] = Show!Line("context", n, h)
    BY DEF Show!ShowExact
<1>1. ShowType /\ StatInv /\ StatRead /\ DoneInv
      BY DEF ShowInv
<1>2. /\ Len(diffs) = (IF found THEN Len(files) ELSE 0) /\ Len(statLines) = Len(diffs) /\ summary = found
      /\ \A k \in 1 .. Len(diffs) : WholeDiff(diffs[k], k)
      BY <1>1 DEF StatRead, DoneInv
<1>3. ASSUME NEW n \in 1 .. Len(diffs)
      PROVE  /\ diffs[n].header = n /\ statLines[n].file = n /\ diffs[n].hunkNum = statLines[n].hunkNum
             /\ diffs[n].headerLines = 1 /\ Len(diffs[n].lines) = 3 * files[n]
      BY <1>1, <1>2 DEF StatInv, WholeDiff
<1>4. ASSUME NEW n \in 1 .. Len(diffs), NEW h \in 1 .. files[n]
      PROVE  /\ diffs[n].lines[3 * h - 2] = Show!Line("delete", n, h)
             /\ diffs[n].lines[3 * h - 1] = Show!Line("insert", n, h)
             /\ diffs[n].lines[3 * h] = Show!Line("context", n, h)
  <2>1. files[n] \in Nat
        BY <1>1, <1>2 DEF ShowType
  <2>2. /\ Len(diffs[n].lines) = 3 * files[n]
        /\ 3 * h - 2 <= Len(diffs[n].lines) => diffs[n].lines[3 * h - 2] = Show!Line("delete", n, h)
        /\ 3 * h - 1 <= Len(diffs[n].lines) => diffs[n].lines[3 * h - 1] = Show!Line("insert", n, h)
        /\ 3 * h <= Len(diffs[n].lines) => diffs[n].lines[3 * h] = Show!Line("context", n, h)
        BY <1>2, <2>1 DEF WholeDiff, HunkLines
  <2>3. h \in Nat /\ h <= files[n]
        BY <2>1
  <2> QED BY <2>1, <2>2, <2>3
<1> QED BY <1>2, <1>3, <1>4

LEMMA ShowIsInvariant == Spec => [](part = "Show" => ShowInv)
<1>1. Init => (part = "Show" => ShowInv)
      BY ShowInitially DEF Init
<1>2. (part = "Show" => ShowInv) /\ [Next]_all => (part = "Show" => ShowInv)'
  <2> SUFFICES ASSUME part = "Show" => ShowInv, [Next]_all, part' = "Show"
               PROVE  ShowInv'
      OBVIOUS
  <2>1. CASE ShowStep(Show!Next)
        BY <2>1, ShowNext DEF ShowStep
  <2>2. CASE \/ DiffStep(Diff!Next) \/ BlameStep(Blame!Next) \/ LogStep(Log!Next)
             \/ ViewStep(View!Next) \/ DirtreeStep(Dirtree!Next)
        BY <2>2 DEF DiffStep, BlameStep, LogStep, ViewStep, DirtreeStep
  <2>3. CASE UNCHANGED all
    <3>1. UNCHANGED <<part, showVars>>
          BY <2>3 DEF all
    <3> QED BY <3>1, ShowStutters
  <2> QED BY <2>1, <2>2, <2>3 DEF Next
<1> QED BY <1>1, <1>2, PTL DEF Spec

(***************************************************************************)
(* GitShowCommit: every file of the shown commit has its line in the       *)
(* diffstat and, with the same number, its diff with the lines of all its  *)
(* hunks in order, a file without hunks too; a commit git does not find    *)
(* gives an empty page.                                                    *)
(***************************************************************************)
THEOREM ShowIsExact == Spec => []ShowExact
<1>1. (part = "Show" => ShowInv) => ShowExact
      BY ShowInvImplies DEF ShowExact
<1> QED BY <1>1, ShowIsInvariant, PTL

-----------------------------------------------------------------------------
(* The diff of a file.                                                     *)

(* What the parser makes of line k of the script.                          *)
LineOf(k) ==
    [k |-> script[k], text |-> k, old |-> IF script[k] = "+" THEN 0 ELSE Diff!Number(k, "+"),
     new |-> IF script[k] = "-" THEN 0 ELSE Diff!Number(k, "-")]
HeaderOf(k) == [k |-> "@@", text |-> k, old |-> 0, new |-> 0]

HunkLine == [k : {"@@", "=", "-", "+"}, text : Nat, old : Nat, new : Nat]
OutputLine == [k : {"diff", "index", "---", "+++", "Binary", "@@", "=", "-", "+", "\\", "end"}, at : Nat]
RowSide == [num : Nat, text : Nat]
DiffRow == [type : {"hunk", "context", "modified", "deleted", "added"}, before : RowSide, after : RowSide]

UnifiedType ==
    /\ script \in Seq({"=", "-", "+"})
    /\ \A k \in 1 .. (Len(script) - 1) : ~(script[k] = "+" /\ script[k + 1] = "-")
    /\ kind = "text"
    /\ input \in OutputLine /\ nextHeader \in OutputLine
    /\ diff_pc \in {"header", "hunk", "lines", "rows", "done"}
    /\ hunks \in Seq(Seq(HunkLine)) /\ old \in Nat /\ new \in Nat
    /\ hunkIndex \in Nat /\ lineIndex \in Nat
    /\ modified \in Seq(HunkLine) /\ diff_rows \in Seq(DiffRow)

(* The script line hunk g begins with, and the last one it has.            *)
FirstOf(g) == hunks[g][1].text
LastOf(g) == FirstOf(g) + Len(hunks[g]) - 2

(* n is the first line shown after line m.                                 *)
ShownNext(m, n) == n \in Diff!Shown /\ m < n /\ \A k \in Diff!Shown : m < k => n <= k

(***************************************************************************)
(* A hunk is a header and shown lines of the script without a gap; the     *)
(* hunks follow each other as in the script.                               *)
(***************************************************************************)
HunksInv ==
    /\ \A g \in 1 .. Len(hunks) :
         /\ Len(hunks[g]) >= 1 /\ FirstOf(g) \in Diff!Shown /\ hunks[g][1] = HeaderOf(FirstOf(g))
         /\ \A m \in 2 .. Len(hunks[g]) :
              FirstOf(g) + m - 2 \in Diff!Shown /\ hunks[g][m] = LineOf(FirstOf(g) + m - 2)
    /\ Len(hunks) > 0 => ShownNext(0, FirstOf(1))
    /\ \A g \in 1 .. (Len(hunks) - 1) : Len(hunks[g]) >= 2 /\ ShownNext(LastOf(g), FirstOf(g + 1))

(* The last line of the script that was read.                              *)
LastRead == IF hunks = <<>> THEN 0 ELSE LastOf(Len(hunks))

(* Whether the hunk from line m has a line of the version without c lines. *)
Starts(m, c) == IF \E k \in m .. Len(script) : m .. k \subseteq Diff!Shown /\ script[k] # c THEN 1 ELSE 0

(* Where the scanner is, and what the counters are.                        *)
ScanInv ==
    /\ diff_pc = "header" => hunks = <<>> /\ nextHeader = Diff!NoLine
    /\ diff_pc = "header" => \E k \in {"diff", "index", "---", "+++"} : input = Diff!Line(k, 0)
    /\ diff_pc = "hunk" =>
         /\ hunks # <<>> => Len(hunks[Len(hunks)]) >= 2
         /\ (IF nextHeader # Diff!NoLine THEN nextHeader ELSE input) = Diff!HunkAfter(LastRead)
         /\ nextHeader # Diff!NoLine => input = Diff!Following(nextHeader)
    /\ diff_pc = "lines" =>
         /\ hunks # <<>> /\ nextHeader = Diff!NoLine
         /\ old = Diff!Number(LastRead, "+") + Starts(FirstOf(Len(hunks)), "+")
         /\ new = Diff!Number(LastRead, "-") + Starts(FirstOf(Len(hunks)), "-")
         /\ \/ LastRead + 1 \in Diff!Shown /\ input = Diff!Line(script[LastRead + 1], LastRead + 1)
            \/ /\ Len(hunks[Len(hunks)]) >= 2 /\ LastRead + 1 \notin Diff!Shown
               /\ input = Diff!HunkAfter(LastRead)
            \/ /\ Len(hunks[Len(hunks)]) >= 2 /\ LastRead = Len(script)
               /\ input = Diff!Line("\\", 0)
    /\ diff_pc \in {"rows", "done"} => \A k \in Diff!Shown : k <= LastRead

(* The first line of the script that has no row.                           *)
Reached ==
    IF hunkIndex > Len(hunks) THEN Len(script) + 1
    ELSE IF lineIndex - Len(modified) <= 1 THEN FirstOf(hunkIndex)
    ELSE FirstOf(hunkIndex) + (lineIndex - Len(modified)) - 2

LinesBelow(n, c) == {k \in Diff!Shown : k < n /\ script[k] # c}

(***************************************************************************)
(* The lines put aside are the changed lines just before the one to visit; *)
(* all lines before them have their rows.                                  *)
(***************************************************************************)
RowsInv ==
    /\ diff_pc \in {"header", "hunk", "lines"} =>
         hunkIndex = 1 /\ lineIndex = 1 /\ modified = <<>> /\ diff_rows = <<>>
    /\ diff_pc \in {"rows", "done"} =>
         /\ hunkIndex \in 1 .. (Len(hunks) + 1) /\ lineIndex >= 1
         /\ IF hunkIndex <= Len(hunks) THEN lineIndex <= Len(hunks[hunkIndex]) + 1
            ELSE lineIndex = 1 /\ modified = <<>>
         /\ Len(modified) < lineIndex
         /\ \A n \in 1 .. Len(modified) :
              modified[n] = hunks[hunkIndex][lineIndex - Len(modified) - 1 + n] /\ modified[n].k \in {"+", "-"}
         /\ Diff!HasLines(diff_rows, "+", LinesBelow(Reached, "+"))
         /\ Diff!HasLines(diff_rows, "-", LinesBelow(Reached, "-"))
         /\ Diff!Level(diff_rows)
    /\ diff_pc = "done" => hunkIndex > Len(hunks)

DiffInv == UnifiedType /\ HunksInv /\ ScanInv /\ RowsInv

LEMMA DiffSets == \A S : Diff!Cardinality(S) = Cardinality(S)
BY DEF Diff!Cardinality, Cardinality

LEMMA NumberNext ==
    ASSUME NEW n \in Nat, n >= 1, NEW c
    PROVE  /\ Diff!Number(n - 1, c) \in Nat
           /\ Diff!Number(n, c) = IF script[n] # c THEN Diff!Number(n - 1, c) + 1 ELSE Diff!Number(n - 1, c)
<1> DEFINE A == {k \in 1 .. (n - 1) : script[k] # c}
           B == {k \in 1 .. n : script[k] # c}
<1>1. Diff!Number(n - 1, c) = Cardinality(A) /\ Diff!Number(n, c) = Cardinality(B)
      BY DiffSets DEF Diff!Number
<1>2. IsFiniteSet(1 .. (n - 1)) /\ A \subseteq 1 .. (n - 1)
  <2>1. n - 1 \in Nat
        OBVIOUS
  <2> QED BY <2>1, FirstNaturals
<1>3. IsFiniteSet(A)
      BY <1>2, FS_Subset
<1>4. Cardinality(A) \in Nat
      BY <1>3, FS_CardinalityType
<1>5. n \notin A
      OBVIOUS
<1>6. CASE script[n] # c
  <2>1. B = A \cup {n}
        BY <1>6
  <2> HIDE DEF A, B
  <2>2. Cardinality(A \cup {n}) = Cardinality(A) + 1
        BY <1>3, <1>5, FS_AddElement
  <2> QED BY <1>1, <1>4, <1>6, <2>1, <2>2
<1>7. CASE script[n] = c
  <2>1. B = A
        BY <1>7
  <2> HIDE DEF A, B
  <2> QED BY <1>1, <1>4, <1>7, <2>1
<1> HIDE DEF A, B
<1> QED BY <1>6, <1>7

LEMMA NumberIsNat ==
    ASSUME NEW n \in Nat, NEW c
    PROVE  Diff!Number(n, c) \in Nat
<1>1. n + 1 \in Nat /\ n + 1 >= 1 /\ (n + 1) - 1 = n
      OBVIOUS
<1> QED BY <1>1, NumberNext

LEMMA ShownLines == Diff!Shown \subseteq DOMAIN script
BY DEF Diff!Shown

(* git's next hunk is the one that begins with the next line shown.        *)
LEMMA HunkAfterIs ==
    ASSUME script \in Seq({"=", "-", "+"}), kind = "text", NEW m \in Nat
    PROVE  \/ \E n \in Diff!Shown : ShownNext(m, n) /\ Diff!HunkAfter(m) = Diff!Line("@@", n)
           \/ Diff!HunkAfter(m) = Diff!NoLine /\ \A k \in Diff!Shown : k <= m
<1> DEFINE T == {k \in Diff!Shown : k > m}
<1>1. Diff!Shown \in SUBSET Nat
      BY ShownLines
<1>2. CASE \E k \in Diff!Shown : k > m
  <2>1. T \in SUBSET Nat /\ T # {}
        BY <1>1, <1>2
  <2>2. PICK x \in T : \A y \in T : x <= y
    <3> HIDE DEF T
    <3> QED BY <2>1, Least
  <2> DEFINE n == CHOOSE k \in Diff!Shown : k > m /\ \A j \in Diff!Shown : j > m => k <= j
  <2>3. x \in Diff!Shown /\ x > m /\ \A j \in Diff!Shown : j > m => x <= j
        BY <2>2
  <2>4. n \in Diff!Shown /\ n > m /\ \A j \in Diff!Shown : j > m => n <= j
        BY <2>3
  <2>5. Diff!HunkAfter(m) = Diff!Line("@@", n)
        BY <1>2 DEF Diff!HunkAfter
  <2> HIDE DEF n
  <2>6. n \in Nat
        BY <1>1, <2>4
  <2>7. ShownNext(m, n)
        BY <1>1, <2>4, <2>6 DEF ShownNext
  <2> QED BY <2>4, <2>5, <2>7
<1>3. CASE ~\E k \in Diff!Shown : k > m
  <2>1. Diff!HunkAfter(m) = Diff!NoLine
        BY <1>3 DEF Diff!HunkAfter, Diff!NextFile
  <2>2. \A k \in Diff!Shown : k <= m
        BY <1>1, <1>3
  <2> QED BY <2>1, <2>2
<1> QED BY <1>2, <1>3

LEMMA Joined ==
    ASSUME NEW T, NEW r \in Seq(T), NEW u \in Seq(T)
    PROVE  /\ r \o u \in Seq(T) /\ DOMAIN (r \o u) = 1 .. (Len(r) + Len(u))
           /\ \A n \in DOMAIN r : n \in DOMAIN (r \o u) /\ (r \o u)[n] = r[n]
           /\ \A n \in DOMAIN u : Len(r) + n \in DOMAIN (r \o u) /\ (r \o u)[Len(r) + n] = u[n]
           /\ \A n \in DOMAIN (r \o u) :
                \/ n \in DOMAIN r
                \/ n - Len(r) \in DOMAIN u /\ n = Len(r) + (n - Len(r)) /\ \A m \in DOMAIN r : m < n
           /\ \A m \in DOMAIN r, n \in DOMAIN u : m < Len(r) + n
OBVIOUS

LEMMA HasJoined ==
    ASSUME NEW r \in Seq(DiffRow), NEW u \in Seq(DiffRow), NEW c, NEW S \in SUBSET Nat, NEW T \in SUBSET Nat,
           Diff!HasLines(r, c, S), Diff!HasLines(u, c, T), \A a \in S, b \in T : a < b
    PROVE  Diff!HasLines(r \o u, c, S \cup T)
<1> DEFINE v == r \o u
<1>1. /\ DOMAIN v = 1 .. (Len(r) + Len(u))
      /\ \A n \in DOMAIN r : n \in DOMAIN v /\ v[n] = r[n]
      /\ \A n \in DOMAIN u : Len(r) + n \in DOMAIN v /\ v[Len(r) + n] = u[n]
      /\ \A n \in DOMAIN v : n \in DOMAIN r \/ (n - Len(r) \in DOMAIN u /\ n = Len(r) + (n - Len(r)))
      BY Joined
<1>2. DOMAIN r = 1 .. Len(r) /\ DOMAIN u = 1 .. Len(u) /\ Len(r) \in Nat /\ Len(u) \in Nat
      OBVIOUS
<1> HIDE DEF v
<1> DEFINE Sd(w, n) == Diff!Side(w[n], c)
<1>3. /\ \A n \in DOMAIN r : Sd(r, n) # Diff!NoSide =>
           Sd(r, n).text \in S /\ Sd(r, n).num = Diff!Number(Sd(r, n).text, c)
      /\ \A k \in S : \E n \in DOMAIN r : Sd(r, n).text = k
      /\ \A m, n \in DOMAIN r : m < n /\ Sd(r, m) # Diff!NoSide /\ Sd(r, n) # Diff!NoSide =>
           Sd(r, m).text < Sd(r, n).text
      BY DEF Diff!HasLines
<1>4. /\ \A n \in DOMAIN u : Sd(u, n) # Diff!NoSide =>
           Sd(u, n).text \in T /\ Sd(u, n).num = Diff!Number(Sd(u, n).text, c)
      /\ \A k \in T : \E n \in DOMAIN u : Sd(u, n).text = k
      /\ \A m, n \in DOMAIN u : m < n /\ Sd(u, m) # Diff!NoSide /\ Sd(u, n) # Diff!NoSide =>
           Sd(u, m).text < Sd(u, n).text
      BY DEF Diff!HasLines
<1>5. /\ \A n \in DOMAIN r : Sd(v, n) = Sd(r, n)
      /\ \A n \in DOMAIN u : Sd(v, Len(r) + n) = Sd(u, n)
      BY <1>1
<1> HIDE DEF Sd
<1>6. ASSUME NEW n \in DOMAIN v, Sd(v, n) # Diff!NoSide
      PROVE  Sd(v, n).text \in S \cup T /\ Sd(v, n).num = Diff!Number(Sd(v, n).text, c)
  <2>1. CASE n \in DOMAIN r
        BY <1>3, <1>5, <1>6, <2>1
  <2>2. CASE n - Len(r) \in DOMAIN u /\ n = Len(r) + (n - Len(r))
    <3>1. Sd(v, n) = Sd(u, n - Len(r))
          BY <1>5, <2>2
    <3> QED BY <1>4, <1>6, <2>2, <3>1
  <2> QED BY <1>1, <2>1, <2>2
<1>7. ASSUME NEW k \in S \cup T
      PROVE  \E n \in DOMAIN v : Sd(v, n).text = k
  <2>1. CASE k \in S
        BY <1>1, <1>3, <1>5, <2>1
  <2>2. CASE k \in T
    <3>1. PICK n \in DOMAIN u : Sd(u, n).text = k
          BY <1>4, <2>2
    <3> QED BY <1>1, <1>5, <3>1
  <2> QED BY <2>1, <2>2
<1>8. ASSUME NEW m \in DOMAIN v, NEW n \in DOMAIN v, m < n, Sd(v, m) # Diff!NoSide, Sd(v, n) # Diff!NoSide
      PROVE  Sd(v, m).text < Sd(v, n).text
  <2>1. CASE m \in DOMAIN r /\ n \in DOMAIN r
        BY <1>3, <1>5, <1>8, <2>1
  <2>2. CASE m \in DOMAIN r /\ n - Len(r) \in DOMAIN u /\ n = Len(r) + (n - Len(r))
    <3>1. Sd(v, n) = Sd(u, n - Len(r)) /\ Sd(v, m) = Sd(r, m)
          BY <1>5, <2>2
    <3>2. Sd(v, m).text \in S /\ Sd(v, n).text \in T
          BY <1>3, <1>4, <1>8, <2>2, <3>1
    <3> QED BY <3>2
  <2>3. CASE m \notin DOMAIN r /\ n \notin DOMAIN r
    <3>1. /\ m - Len(r) \in DOMAIN u /\ m = Len(r) + (m - Len(r))
          /\ n - Len(r) \in DOMAIN u /\ n = Len(r) + (n - Len(r))
          BY <1>1, <2>3
    <3>2. Sd(v, m) = Sd(u, m - Len(r)) /\ Sd(v, n) = Sd(u, n - Len(r)) /\ m - Len(r) < n - Len(r)
          BY <1>1, <1>2, <1>5, <1>8, <3>1
    <3> QED BY <1>4, <1>8, <3>1, <3>2
  <2>4. m \notin DOMAIN r => n \notin DOMAIN r
        BY <1>1, <1>2, <1>8
  <2> QED BY <1>1, <2>1, <2>2, <2>3, <2>4
<1>9. Diff!HasLines(v, c, S \cup T)
      BY <1>6, <1>7, <1>8 DEF Diff!HasLines, Sd
<1> QED BY <1>9 DEF v

LEMMA LevelJoined ==
    ASSUME NEW r \in Seq(DiffRow), NEW u \in Seq(DiffRow), Diff!Level(r), Diff!Level(u)
    PROVE  Diff!Level(r \o u)
<1> DEFINE v == r \o u
<1>1. \A n \in DOMAIN v : (n \in DOMAIN r /\ v[n] = r[n]) \/ \E m \in DOMAIN u : v[n] = u[m]
      BY Joined
<1> HIDE DEF v
<1> DEFINE P(w) == w.before # Diff!NoSide /\ w.after # Diff!NoSide =>
                     \/ w.before.text = w.after.text
                     \/ /\ w.before.text < w.after.text
                        /\ \A k \in w.before.text .. w.after.text : script[k] # "="
<1>2. (\A n \in DOMAIN r : P(r[n])) /\ (\A n \in DOMAIN u : P(u[n]))
      BY DEF Diff!Level
<1>3. Diff!Level(v) <=> \A n \in DOMAIN v : P(v[n])
      BY DEF Diff!Level
<1> HIDE DEF P
<1> QED BY <1>1, <1>2, <1>3 DEF v

(* Rows whose sides are the lines from m on.                               *)
LEMMA RunHas ==
    ASSUME NEW rs \in Seq(DiffRow), NEW c, NEW m \in Nat,
           \A n \in 1 .. Len(rs) : Diff!Side(rs[n], c) = [num |-> Diff!Number(m + n - 1, c), text |-> m + n - 1]
    PROVE  Diff!HasLines(rs, c, m .. (m + Len(rs) - 1))
<1>1. DOMAIN rs = 1 .. Len(rs) /\ Len(rs) \in Nat
      OBVIOUS
<1>2. ASSUME NEW n \in DOMAIN rs
      PROVE  /\ Diff!Side(rs[n], c).text = m + n - 1
             /\ Diff!Side(rs[n], c).num = Diff!Number(m + n - 1, c)
      BY <1>1
<1>3. ASSUME NEW k \in m .. (m + Len(rs) - 1)
      PROVE  \E n \in DOMAIN rs : Diff!Side(rs[n], c).text = k
  <2>1. k - m + 1 \in DOMAIN rs /\ m + (k - m + 1) - 1 = k
        BY <1>1
  <2> QED BY <1>2, <2>1
<1>4. ASSUME NEW n \in DOMAIN rs
      PROVE  m + n - 1 \in m .. (m + Len(rs) - 1)
      BY <1>1
<1>5. ASSUME NEW k \in DOMAIN rs, NEW n \in DOMAIN rs, k < n
      PROVE  Diff!Side(rs[k], c).text < Diff!Side(rs[n], c).text
      BY <1>1, <1>2, <1>5
<1> QED BY <1>2, <1>3, <1>4, <1>5 DEF Diff!HasLines

LEMMA NoneHas ==
    ASSUME NEW rs, NEW c, \A n \in DOMAIN rs : Diff!Side(rs[n], c) = Diff!NoSide
    PROVE  Diff!HasLines(rs, c, {})
BY DEF Diff!HasLines

(* The lines of one type, when they stand together.                        *)
Together(ls, t, p, d) ==
    p + d <= Len(ls) /\ \A n \in 1 .. Len(ls) : ls[n].k = t <=> n \in (p + 1) .. (p + d)

LEMMA OfTypeIs ==
    ASSUME NEW ls \in Seq(HunkLine), NEW t, NEW p \in Nat, NEW d \in Nat,
           Together(ls, t, p, d),
           NEW q \in Seq(HunkLine), Len(q) = d, \A n \in 1 .. d : q[n] = ls[p + n]
    PROVE  Diff!OfType(ls, t) = q
<1> DEFINE S == {n \in DOMAIN ls : ls[n].k = t}
           Upto(x) == {j \in S : j <= x}
<1>1. Diff!OfType(ls, t) = [n \in 1 .. Diff!Cardinality(S) |-> ls[CHOOSE j \in S : Diff!Cardinality(Upto(j)) = n]]
      BY DEF Diff!OfType
<1>2. S = (p + 1) .. (p + d)
  <2>1. DOMAIN ls = 1 .. Len(ls) /\ Len(ls) \in Nat
        OBVIOUS
  <2> QED BY <2>1 DEF Together
<1> HIDE DEF S
<1>3. ASSUME NEW x \in S
      PROVE  Diff!Cardinality(Upto(x)) = x - p
  <2>1. Upto(x) = (p + 1) .. x
        BY <1>2
  <2>2. p + 1 \in Int /\ x \in Int /\ ~(p + 1 > x) /\ x - (p + 1) + 1 = x - p
        BY <1>2
  <2>3. Cardinality((p + 1) .. x) = x - (p + 1) + 1
        BY <2>2, FS_Interval
  <2> QED BY <2>1, <2>2, <2>3, DiffSets
<1>4. Diff!Cardinality(S) = d
  <2>1. p + 1 \in Int /\ p + d \in Int /\ (p + 1 > p + d <=> d = 0) /\ (p + d) - (p + 1) + 1 = d
        OBVIOUS
  <2> QED BY <1>2, <2>1, FS_Interval, DiffSets
<1> HIDE DEF Upto
<1>5. ASSUME NEW n \in 1 .. d
      PROVE  (CHOOSE j \in S : Diff!Cardinality(Upto(j)) = n) = p + n
  <2>1. p + n \in S /\ (p + n) - p = n
        BY <1>2
  <2>2. \A x \in S : x - p = n => x = p + n
        BY <1>2
  <2> DEFINE z == CHOOSE j \in S : Diff!Cardinality(Upto(j)) = n
  <2>3. z \in S /\ Diff!Cardinality(Upto(z)) = n
        BY <1>3, <2>1
  <2> HIDE DEF z
  <2>4. z = p + n
        BY <1>3, <2>2, <2>3
  <2> QED BY <2>4 DEF z
<1>6. Diff!OfType(ls, t) = [n \in 1 .. d |-> ls[p + n]]
      BY <1>1, <1>4, <1>5
<1>7. q = [n \in 1 .. d |-> ls[p + n]]
      OBVIOUS
<1> QED BY <1>6, <1>7

(* Within a change the deleted lines come first.                           *)
LEMMA DeletedFirst ==
    ASSUME script \in Seq({"=", "-", "+"}),
           \A k \in 1 .. (Len(script) - 1) : ~(script[k] = "+" /\ script[k + 1] = "-"),
           NEW f \in Nat, NEW z \in Nat, f >= 1, f <= z + 1, z <= Len(script),
           \A k \in f .. z : script[k] \in {"+", "-"}
    PROVE  \E d \in 0 .. (z + 1 - f) :
             (\A k \in f .. (f + d - 1) : script[k] = "-") /\ (\A k \in (f + d) .. z : script[k] = "+")
<1> DEFINE T == {k \in f .. z : script[k] = "+"}
<1>1. T \in SUBSET Nat /\ Len(script) \in Nat
      OBVIOUS
<1>2. CASE T = {}
  <2>1. z + 1 - f \in 0 .. (z + 1 - f) /\ f + (z + 1 - f) - 1 = z /\ f + (z + 1 - f) = z + 1
        OBVIOUS
  <2>2. \A k \in f .. z : script[k] = "-"
        BY <1>2
  <2>3. \A k \in (z + 1) .. z : script[k] = "+"
        OBVIOUS
  <2> QED BY <2>1, <2>2, <2>3
<1>3. CASE T # {}
  <2>1. PICK x \in T : \A y \in T : x <= y
    <3> HIDE DEF T
    <3> QED BY <1>1, <1>3, Least
  <2>2. x \in f .. z /\ script[x] = "+" /\ \A k \in f .. (x - 1) : script[k] = "-"
        BY <2>1
  <2> DEFINE U == {k \in x .. z : script[k] = "-"}
  <2>3. U = {}
    <3> SUFFICES ASSUME U # {} PROVE FALSE
        OBVIOUS
    <3>1. U \in SUBSET Nat
          BY <2>2
    <3>2. PICK y \in U : \A w \in U : y <= w
      <4> HIDE DEF U
      <4> QED BY <3>1, Least
    <3>3. y \in x .. z /\ script[y] = "-" /\ y # x
          BY <2>2, <3>2
    <3>4. y - 1 \in x .. z /\ y - 1 \notin U /\ y - 1 \in f .. z /\ y - 1 \in 1 .. (Len(script) - 1) /\ (y - 1) + 1 = y
          BY <2>2, <3>2, <3>3
    <3>5. script[y - 1] = "+"
          BY <3>4
    <3> QED BY <3>3, <3>4, <3>5
  <2>4. \A k \in x .. z : script[k] = "+"
        BY <2>2, <2>3
  <2>5. x - f \in 0 .. (z + 1 - f) /\ f + (x - f) - 1 = x - 1 /\ f + (x - f) = x
        BY <2>2
  <2> HIDE DEF T, U
  <2> QED BY <2>2, <2>4, <2>5
<1> QED BY <1>2, <1>3

LEMMA LineOfType ==
    ASSUME script \in Seq({"=", "-", "+"}), NEW k \in DOMAIN script
    PROVE  /\ LineOf(k) \in HunkLine /\ LineOf(k).k = script[k] /\ LineOf(k).text = k
           /\ script[k] # "+" => LineOf(k).old = Diff!Number(k, "+")
           /\ script[k] # "-" => LineOf(k).new = Diff!Number(k, "-")
<1>1. k \in Nat /\ script[k] \in {"=", "-", "+"}
      OBVIOUS
<1>2. Diff!Number(k, "+") \in Nat /\ Diff!Number(k, "-") \in Nat
      BY <1>1, NumberIsNat
<1> QED BY <1>1, <1>2 DEF LineOf, HunkLine

(* The sides of the rows.                                                  *)
LEMMA LeftOf ==
    ASSUME script \in Seq({"=", "-", "+"}), NEW m \in DOMAIN script, script[m] # "+", NEW row,
           row = Diff!Row("deleted", Diff!Before(LineOf(m)), Diff!NoSide)
    PROVE  /\ row \in DiffRow /\ Diff!Side(row, "+") = [num |-> Diff!Number(m, "+"), text |-> m]
           /\ Diff!Side(row, "-") = Diff!NoSide /\ row.after = Diff!NoSide
<1>1. Diff!Before(LineOf(m)) = [num |-> Diff!Number(m, "+"), text |-> m]
      BY LineOfType DEF Diff!Before
<1>2. m \in Nat /\ Diff!Number(m, "+") \in Nat
      BY NumberIsNat
<1> QED BY <1>1, <1>2 DEF Diff!Row, Diff!Side, Diff!NoSide, DiffRow, RowSide

LEMMA RightOf ==
    ASSUME script \in Seq({"=", "-", "+"}), NEW m \in DOMAIN script, script[m] # "-", NEW row,
           row = Diff!Row("added", Diff!NoSide, Diff!After(LineOf(m)))
    PROVE  /\ row \in DiffRow /\ Diff!Side(row, "-") = [num |-> Diff!Number(m, "-"), text |-> m]
           /\ Diff!Side(row, "+") = Diff!NoSide /\ row.before = Diff!NoSide
<1>1. Diff!After(LineOf(m)) = [num |-> Diff!Number(m, "-"), text |-> m]
      BY LineOfType DEF Diff!After
<1>2. m \in Nat /\ Diff!Number(m, "-") \in Nat
      BY NumberIsNat
<1> QED BY <1>1, <1>2 DEF Diff!Row, Diff!Side, Diff!NoSide, DiffRow, RowSide

LEMMA SidesOf ==
    ASSUME script \in Seq({"=", "-", "+"}), NEW m \in DOMAIN script, NEW n \in DOMAIN script,
           script[m] # "+", script[n] # "-", NEW t \in {"modified", "context"}, NEW row,
           row = Diff!Row(t, Diff!Before(LineOf(m)), Diff!After(LineOf(n)))
    PROVE  /\ row \in DiffRow
           /\ Diff!Side(row, "+") = [num |-> Diff!Number(m, "+"), text |-> m] /\ row.before = Diff!Side(row, "+")
           /\ Diff!Side(row, "-") = [num |-> Diff!Number(n, "-"), text |-> n] /\ row.after = Diff!Side(row, "-")
<1>1. /\ Diff!Before(LineOf(m)) = [num |-> Diff!Number(m, "+"), text |-> m]
      /\ Diff!After(LineOf(n)) = [num |-> Diff!Number(n, "-"), text |-> n]
      BY LineOfType DEF Diff!Before, Diff!After
<1>2. m \in Nat /\ n \in Nat /\ Diff!Number(m, "+") \in Nat /\ Diff!Number(n, "-") \in Nat
      BY NumberIsNat
<1> QED BY <1>1, <1>2 DEF Diff!Row, Diff!Side, Diff!NoSide, DiffRow, RowSide

LEMMA IsASeq ==
    ASSUME NEW T, NEW s, NEW n \in Nat, DOMAIN s = 1 .. n, s = [k \in DOMAIN s |-> s[k]], \A k \in 1 .. n : s[k] \in T
    PROVE  s \in Seq(T) /\ Len(s) = n
OBVIOUS

(* getModifiedDiffRows shows the lines it is given.                        *)
LEMMA ModifiedShown ==
    ASSUME script \in Seq({"=", "-", "+"}),
           \A k \in 1 .. (Len(script) - 1) : ~(script[k] = "+" /\ script[k + 1] = "-"),
           NEW f \in Nat, f >= 1, NEW ls \in Seq(HunkLine), f + Len(ls) - 1 <= Len(script),
           \A n \in 1 .. Len(ls) : ls[n] = LineOf(f + n - 1) /\ ls[n].k \in {"+", "-"}
    PROVE  /\ Diff!ModifiedRows(ls) \in Seq(DiffRow)
           /\ Diff!HasLines(Diff!ModifiedRows(ls), "+", {k \in f .. (f + Len(ls) - 1) : script[k] # "+"})
           /\ Diff!HasLines(Diff!ModifiedRows(ls), "-", {k \in f .. (f + Len(ls) - 1) : script[k] # "-"})
           /\ Diff!Level(Diff!ModifiedRows(ls))
<1> DEFINE N == Len(ls)
           z == f + N - 1
<1>1. N \in Nat /\ DOMAIN ls = 1 .. N /\ Len(script) \in Nat /\ DOMAIN script = 1 .. Len(script)
      OBVIOUS
<1>2. z \in Nat /\ f <= z + 1 /\ z <= Len(script) /\ z + 1 - f = N
      BY <1>1
<1>3. \A n \in 1 .. N : f + n - 1 \in DOMAIN script /\ ls[n].k = script[f + n - 1]
  <2> TAKE n \in 1 .. N
  <2>1. f + n - 1 \in DOMAIN script
        BY <1>1
  <2> QED BY <2>1, LineOfType
<1>4. \A k \in f .. z : script[k] \in {"+", "-"}
  <2> TAKE k \in f .. z
  <2>1. k - f + 1 \in 1 .. N /\ f + (k - f + 1) - 1 = k
        BY <1>1
  <2> QED BY <1>3, <2>1
<1> HIDE DEF N, z
<1>5. PICK d \in 0 .. N :
         (\A k \in f .. (f + d - 1) : script[k] = "-") /\ (\A k \in (f + d) .. z : script[k] = "+")
      BY <1>2, <1>4, DeletedFirst
<1> DEFINE a == N - d
           b == IF a < d THEN a ELSE d
<1>6. /\ d \in Nat /\ a \in Nat /\ b \in Nat /\ d + a = N /\ b <= a /\ b <= d /\ a - b \in Nat /\ d - b \in Nat
      BY <1>1, <1>5
<1>7. Diff!OfType(ls, "-") = [n \in 1 .. d |-> ls[n]]
  <2>1. Together(ls, "-", 0, d)
    <3>1. \A n \in 1 .. N : ls[n].k = "-" <=> n <= d
      <4> TAKE n \in 1 .. N
      <4>1. n <= d => f + n - 1 \in f .. (f + d - 1)
            BY <1>5
      <4>2. ~(n <= d) => f + n - 1 \in (f + d) .. z
            BY <1>1, <1>2, <1>5
      <4> QED BY <1>3, <1>5, <4>1, <4>2
    <3> QED BY <1>1, <1>5, <3>1 DEF N, Together
  <2>2. 0 \in Nat /\ d \in Nat /\ ls \in Seq(HunkLine)
        BY <1>6
  <2> DEFINE q == [n \in 1 .. d |-> ls[n]]
  <2>3. q \in Seq(HunkLine) /\ Len(q) = d /\ \A n \in 1 .. d : q[n] = ls[0 + n]
        BY <1>1, <2>2 DEF N
  <2> HIDE DEF q
  <2>4. Diff!OfType(ls, "-") = q
        BY ONLY <2>1, <2>2, <2>3, OfTypeIs
  <2> QED BY <2>4 DEF q
<1>8. Diff!OfType(ls, "+") = [n \in 1 .. a |-> ls[d + n]]
  <2>1. Together(ls, "+", d, a)
    <3>1. \A n \in 1 .. N : ls[n].k = "+" <=> n > d
      <4> TAKE n \in 1 .. N
      <4>1. n <= d => f + n - 1 \in f .. (f + d - 1)
            BY <1>5
      <4>2. ~(n <= d) => f + n - 1 \in (f + d) .. z
            BY <1>1, <1>2, <1>5
      <4> QED BY <1>3, <1>5, <4>1, <4>2
    <3> QED BY <1>1, <1>5, <1>6, <3>1 DEF N, Together
  <2> HIDE DEF a
  <2>2. d \in Nat /\ a \in Nat /\ ls \in Seq(HunkLine)
        BY <1>6
  <2> DEFINE q == [n \in 1 .. a |-> ls[d + n]]
  <2>3. q \in Seq(HunkLine) /\ Len(q) = a /\ \A n \in 1 .. a : q[n] = ls[d + n]
        BY <1>1, <1>6, <2>2 DEF N
  <2> HIDE DEF q
  <2>4. Diff!OfType(ls, "+") = q
        BY ONLY <2>1, <2>2, <2>3, OfTypeIs
  <2> QED BY <2>4 DEF q
<1> HIDE DEF a
<1> DEFINE A == [n \in 1 .. b |-> Diff!Row("modified", Diff!Before(ls[n]), Diff!After(ls[d + n]))]
           B == [n \in 1 .. (d - b) |-> Diff!Row("deleted", Diff!Before(ls[b + n]), Diff!NoSide)]
           C == [n \in 1 .. (a - b) |-> Diff!Row("added", Diff!NoSide, Diff!After(ls[d + (b + n)]))]
<1>9. Diff!ModifiedRows(ls) = A \o B \o C
  <2> DEFINE del == [n \in 1 .. d |-> ls[n]]
             add == [n \in 1 .. a |-> ls[d + n]]
  <2>1. Len(del) = d /\ Len(add) = a
        BY <1>6
  <2>2. /\ \A n \in 1 .. b : del[n] = ls[n] /\ add[n] = ls[d + n]
        /\ \A n \in 1 .. (d - b) : del[b + n] = ls[b + n]
        /\ \A n \in 1 .. (a - b) : add[b + n] = ls[d + (b + n)]
        BY <1>6
  <2> HIDE DEF del, add
  <2>3. Diff!ModifiedRows(ls) =
          [n \in 1 .. b |-> Diff!Row("modified", Diff!Before(del[n]), Diff!After(add[n]))]
          \o [n \in 1 .. (d - b) |-> Diff!Row("deleted", Diff!Before(del[b + n]), Diff!NoSide)]
          \o [n \in 1 .. (a - b) |-> Diff!Row("added", Diff!NoSide, Diff!After(add[b + n]))]
        BY <1>7, <1>8, <2>1 DEF Diff!ModifiedRows, del, add
  <2>4. A = [n \in 1 .. b |-> Diff!Row("modified", Diff!Before(del[n]), Diff!After(add[n]))]
        BY <2>2
  <2>5. B = [n \in 1 .. (d - b) |-> Diff!Row("deleted", Diff!Before(del[b + n]), Diff!NoSide)]
        BY <2>2
  <2>6. C = [n \in 1 .. (a - b) |-> Diff!Row("added", Diff!NoSide, Diff!After(add[b + n]))]
        BY <2>2
  <2> HIDE DEF A, B, C
  <2> QED BY <2>3, <2>4, <2>5, <2>6
<1>10. ASSUME NEW n \in 1 .. d
       PROVE  /\ n \in 1 .. N /\ f + n - 1 \in DOMAIN script /\ script[f + n - 1] = "-"
              /\ ls[n] = LineOf(f + n - 1)
  <2>1. n \in 1 .. N /\ f + n - 1 \in f .. (f + d - 1)
        BY <1>1, <1>5
  <2> QED BY <1>3, <1>5, <2>1 DEF N
<1>11. ASSUME NEW n \in 1 .. a
       PROVE  /\ d + n \in 1 .. N /\ f + d + n - 1 \in DOMAIN script /\ script[f + d + n - 1] = "+"
              /\ ls[d + n] = LineOf(f + d + n - 1)
  <2>1. d + n \in 1 .. N /\ f + (d + n) - 1 \in (f + d) .. z /\ f + (d + n) - 1 = f + d + n - 1
        BY <1>1, <1>2, <1>5, <1>6
  <2> QED BY <1>3, <1>5, <2>1 DEF N
<1>12. /\ A \in Seq(DiffRow) /\ Len(A) = b /\ DOMAIN A = 1 .. b
       /\ \A n \in 1 .. b :
            /\ Diff!Side(A[n], "+") = [num |-> Diff!Number(f + n - 1, "+"), text |-> f + n - 1]
            /\ Diff!Side(A[n], "-") = [num |-> Diff!Number((f + d) + n - 1, "-"), text |-> (f + d) + n - 1]
            /\ A[n].before.text = f + n - 1 /\ A[n].after.text = (f + d) + n - 1
  <2>1. ASSUME NEW n \in 1 .. b
        PROVE  /\ A[n] \in DiffRow
               /\ Diff!Side(A[n], "+") = [num |-> Diff!Number(f + n - 1, "+"), text |-> f + n - 1]
               /\ Diff!Side(A[n], "-") = [num |-> Diff!Number(f + d + n - 1, "-"), text |-> f + d + n - 1]
               /\ A[n].before.text = f + n - 1 /\ A[n].after.text = f + d + n - 1
    <3>1. n \in 1 .. d /\ n \in 1 .. a
          BY <1>6
    <3>2. /\ f + n - 1 \in DOMAIN script /\ script[f + n - 1] # "+" /\ ls[n] = LineOf(f + n - 1)
          /\ f + d + n - 1 \in DOMAIN script /\ script[f + d + n - 1] # "-" /\ ls[d + n] = LineOf(f + d + n - 1)
          BY <1>10, <1>11, <3>1
    <3>3. A[n] = Diff!Row("modified", Diff!Before(LineOf(f + n - 1)), Diff!After(LineOf(f + d + n - 1)))
          BY <3>2
    <3>4. /\ A[n] \in DiffRow
          /\ Diff!Side(A[n], "+") = [num |-> Diff!Number(f + n - 1, "+"), text |-> f + n - 1]
          /\ Diff!Side(A[n], "-") = [num |-> Diff!Number(f + d + n - 1, "-"), text |-> f + d + n - 1]
          /\ A[n].before = [num |-> Diff!Number(f + n - 1, "+"), text |-> f + n - 1]
          /\ A[n].after = [num |-> Diff!Number(f + d + n - 1, "-"), text |-> f + d + n - 1]
      <4> HIDE DEF A
      <4> QED BY <3>2, <3>3, SidesOf
    <3> QED BY <3>4
  <2>2. DOMAIN A = 1 .. b /\ A = [k \in DOMAIN A |-> A[k]]
        OBVIOUS
  <2> HIDE DEF A
  <2>3. A \in Seq(DiffRow) /\ Len(A) = b
        BY <1>6, <2>1, <2>2, IsASeq
  <2> QED BY <2>1, <2>2, <2>3
<1>13. /\ B \in Seq(DiffRow) /\ Len(B) = d - b /\ DOMAIN B = 1 .. (d - b)
       /\ \A n \in 1 .. (d - b) :
            /\ Diff!Side(B[n], "+") = [num |-> Diff!Number((f + b) + n - 1, "+"), text |-> (f + b) + n - 1]
            /\ Diff!Side(B[n], "-") = Diff!NoSide /\ B[n].after = Diff!NoSide
  <2>1. ASSUME NEW n \in 1 .. (d - b)
        PROVE  /\ B[n] \in DiffRow
               /\ Diff!Side(B[n], "+") = [num |-> Diff!Number((f + b) + n - 1, "+"), text |-> (f + b) + n - 1]
               /\ Diff!Side(B[n], "-") = Diff!NoSide /\ B[n].after = Diff!NoSide
    <3>1. b + n \in 1 .. d /\ f + (b + n) - 1 = (f + b) + n - 1
          BY <1>6
    <3>2. /\ (f + b) + n - 1 \in DOMAIN script /\ script[(f + b) + n - 1] = "-"
          /\ ls[b + n] = LineOf((f + b) + n - 1)
          BY <1>10, <3>1
    <3>3. B[n] = Diff!Row("deleted", Diff!Before(LineOf((f + b) + n - 1)), Diff!NoSide)
          BY <3>2
    <3> HIDE DEF B
    <3>4. script[(f + b) + n - 1] # "+"
          BY <3>2
    <3> QED BY <3>2, <3>3, <3>4, LeftOf
  <2>2. DOMAIN B = 1 .. (d - b) /\ B = [k \in DOMAIN B |-> B[k]]
        OBVIOUS
  <2> HIDE DEF B
  <2>3. B \in Seq(DiffRow) /\ Len(B) = d - b
        BY <1>6, <2>1, <2>2, IsASeq
  <2> QED BY <2>1, <2>2, <2>3
<1>14. /\ C \in Seq(DiffRow) /\ Len(C) = a - b /\ DOMAIN C = 1 .. (a - b)
       /\ \A n \in 1 .. (a - b) :
            /\ Diff!Side(C[n], "-") = [num |-> Diff!Number((f + d + b) + n - 1, "-"), text |-> (f + d + b) + n - 1]
            /\ Diff!Side(C[n], "+") = Diff!NoSide /\ C[n].before = Diff!NoSide
  <2>1. ASSUME NEW n \in 1 .. (a - b)
        PROVE  /\ C[n] \in DiffRow
               /\ Diff!Side(C[n], "-") = [num |-> Diff!Number((f + d + b) + n - 1, "-"), text |-> (f + d + b) + n - 1]
               /\ Diff!Side(C[n], "+") = Diff!NoSide /\ C[n].before = Diff!NoSide
    <3>1. b + n \in 1 .. a /\ f + d + (b + n) - 1 = (f + d + b) + n - 1
          BY <1>6
    <3>2. /\ (f + d + b) + n - 1 \in DOMAIN script /\ script[(f + d + b) + n - 1] = "+"
          /\ ls[d + (b + n)] = LineOf((f + d + b) + n - 1)
          BY <1>11, <3>1
    <3>3. C[n] = Diff!Row("added", Diff!NoSide, Diff!After(LineOf((f + d + b) + n - 1)))
          BY <3>2
    <3> HIDE DEF C
    <3>4. script[(f + d + b) + n - 1] # "-"
          BY <3>2
    <3> QED BY <3>2, <3>3, <3>4, RightOf
  <2>2. DOMAIN C = 1 .. (a - b) /\ C = [k \in DOMAIN C |-> C[k]]
        OBVIOUS
  <2> HIDE DEF C
  <2>3. C \in Seq(DiffRow) /\ Len(C) = a - b
        BY <1>6, <2>1, <2>2, IsASeq
  <2> QED BY <2>1, <2>2, <2>3
<1> HIDE DEF A, B, C, b
<1>15. /\ f + d \in Nat /\ f + b \in Nat /\ f + d + b \in Nat
       /\ (f + b) + (d - b) - 1 = f + d - 1 /\ (f + d + b) + (a - b) - 1 = z
       BY <1>1, <1>2, <1>6 DEF z
<1>16. /\ Diff!HasLines(A, "+", f .. (f + b - 1)) /\ Diff!HasLines(B, "+", (f + b) .. (f + d - 1))
       /\ Diff!HasLines(C, "+", {})
  <2>1. Diff!HasLines(A, "+", f .. (f + b - 1))
        BY <1>12, RunHas
  <2>2. Diff!HasLines(B, "+", (f + b) .. ((f + b) + (d - b) - 1))
        BY <1>13, <1>15, RunHas
  <2> QED BY <1>14, <1>15, <2>1, <2>2, NoneHas
<1>17. /\ Diff!HasLines(A, "-", (f + d) .. ((f + d) + b - 1)) /\ Diff!HasLines(B, "-", {})
       /\ Diff!HasLines(C, "-", (f + d + b) .. z)
  <2>1. Diff!HasLines(A, "-", (f + d) .. ((f + d) + b - 1))
        BY <1>12, <1>15, RunHas
  <2>2. Diff!HasLines(C, "-", (f + d + b) .. ((f + d + b) + (a - b) - 1))
        BY <1>14, <1>15, RunHas
  <2> QED BY <1>13, <1>15, <2>1, <2>2, NoneHas
<1>18. Diff!Level(A) /\ Diff!Level(B) /\ Diff!Level(C)
  <2>1. ASSUME NEW n \in DOMAIN A
        PROVE  \/ A[n].before.text = A[n].after.text
               \/ /\ A[n].before.text < A[n].after.text
                  /\ \A k \in A[n].before.text .. A[n].after.text : script[k] # "="
    <3>1. n \in 1 .. b /\ A[n].before.text = f + n - 1 /\ A[n].after.text = (f + d) + n - 1
          BY <1>12
    <3>2. f + n - 1 < (f + d) + n - 1 /\ (f + n - 1) .. ((f + d) + n - 1) \subseteq f .. z
          BY <1>2, <1>6, <3>1
    <3> QED BY <1>4, <3>1, <3>2
  <2> QED BY <1>12, <1>13, <1>14, <2>1 DEF Diff!Level
<1>19. A \o B \in Seq(DiffRow) /\ A \o B \o C \in Seq(DiffRow)
      BY <1>12, <1>13, <1>14, Joined
<1>20. Diff!Level(A \o B \o C)
      BY <1>12, <1>13, <1>14, <1>18, <1>19, LevelJoined
<1>21. Diff!HasLines(A \o B \o C, "+", {k \in f .. z : script[k] # "+"})
  <2>1. /\ f .. (f + b - 1) \in SUBSET Nat /\ (f + b) .. (f + d - 1) \in SUBSET Nat /\ {} \in SUBSET Nat
        /\ \A x \in f .. (f + b - 1), y \in (f + b) .. (f + d - 1) : x < y
        /\ (f .. (f + b - 1)) \cup ((f + b) .. (f + d - 1)) = f .. (f + d - 1) /\ f .. (f + d - 1) \in SUBSET Nat
        BY <1>6
  <2>2. Diff!HasLines(A \o B, "+", (f .. (f + b - 1)) \cup ((f + b) .. (f + d - 1)))
        BY <1>12, <1>13, <1>16, <2>1, HasJoined
  <2>3. Diff!HasLines(A \o B \o C, "+", (f .. (f + d - 1)) \cup {})
    <3>1. \A x \in f .. (f + d - 1), y \in {} : x < y
          OBVIOUS
    <3> QED BY <1>14, <1>16, <1>19, <2>1, <2>2, <3>1, HasJoined
  <2>4. (f .. (f + d - 1)) \cup {} = {k \in f .. z : script[k] # "+"}
    <3>1. \A k \in f .. z : k \in f .. (f + d - 1) \/ k \in (f + d) .. z
          BY <1>2, <1>6
    <3>2. \A k \in f .. (f + d - 1) : k \in f .. z
          BY <1>2, <1>6
    <3> QED BY <1>5, <3>1, <3>2
  <2> QED BY <2>3, <2>4
<1>22. Diff!HasLines(A \o B \o C, "-", {k \in f .. z : script[k] # "-"})
  <2> DEFINE P == (f + d) .. ((f + d) + b - 1)
             Q == (f + d + b) .. z
  <2>1. P \in SUBSET Nat /\ Q \in SUBSET Nat /\ {} \in SUBSET Nat /\ (\A x \in P, y \in Q : x < y) /\ P \cup {} = P
        BY <1>2, <1>6
  <2>2. P \cup Q = {k \in f .. z : script[k] # "-"}
    <3>1. P \cup Q = (f + d) .. z
          BY <1>2, <1>6
    <3>2. \A k \in f .. z : k \in f .. (f + d - 1) \/ k \in (f + d) .. z
          BY <1>2, <1>6
    <3>3. \A k \in (f + d) .. z : k \in f .. z
          BY <1>2, <1>6
    <3> HIDE DEF P, Q
    <3> QED BY <1>5, <3>1, <3>2, <3>3
  <2> HIDE DEF P, Q
  <2>3. \A x \in P, y \in {} : x < y
        OBVIOUS
  <2>4. Diff!HasLines(A, "-", P) /\ Diff!HasLines(B, "-", {}) /\ Diff!HasLines(C, "-", Q)
        BY <1>17 DEF P, Q
  <2>5. Diff!HasLines(A \o B, "-", P \cup {})
        BY <1>12, <1>13, <2>1, <2>3, <2>4, HasJoined
  <2>6. Diff!HasLines(A \o B \o C, "-", P \cup Q)
        BY <1>14, <1>19, <2>1, <2>4, <2>5, HasJoined
  <2> QED BY <2>2, <2>6
<1> QED BY <1>9, <1>19, <1>20, <1>21, <1>22 DEF N, z

-----------------------------------------------------------------------------
LEMMA DiffFrame ==
    ASSUME script' = script, kind' = kind
    PROVE  /\ Diff!Shown' = Diff!Shown
           /\ \A k, c : Diff!Number(k, c)' = Diff!Number(k, c)
           /\ \A k : LineOf(k)' = LineOf(k)
           /\ \A m, n : ShownNext(m, n)' = ShownNext(m, n)
           /\ \A m, c : Starts(m, c)' = Starts(m, c)
           /\ \A m : Diff!HunkAfter(m)' = Diff!HunkAfter(m)
           /\ \A l : Diff!Following(l)' = Diff!Following(l)
           /\ \A n, c : LinesBelow(n, c)' = LinesBelow(n, c)
           /\ \A rs, c, S : Diff!HasLines(rs, c, S)' <=> Diff!HasLines(rs, c, S)
           /\ \A rs : Diff!Level(rs)' <=> Diff!Level(rs)
<1>1. Diff!Shown' = Diff!Shown
      BY DEF Diff!Shown
<1>2. \A k, c : Diff!Number(k, c)' = Diff!Number(k, c)
      BY DEF Diff!Number
<1>3. \A k : LineOf(k)' = LineOf(k)
      BY <1>2 DEF LineOf
<1>4. \A m, n : ShownNext(m, n)' = ShownNext(m, n)
      BY <1>1 DEF ShownNext
<1>5. \A m, c : Starts(m, c)' = Starts(m, c)
      BY <1>1 DEF Starts
<1>6. \A m : Diff!HunkAfter(m)' = Diff!HunkAfter(m)
      BY <1>1 DEF Diff!HunkAfter, Diff!NextFile
<1>7. \A l : Diff!Following(l)' = Diff!Following(l)
      BY <1>1, <1>6 DEF Diff!Following, Diff!NextFile
<1>8. \A n, c : LinesBelow(n, c)' = LinesBelow(n, c)
      BY <1>1 DEF LinesBelow
<1>9. \A rs, c, S : Diff!HasLines(rs, c, S)' <=> Diff!HasLines(rs, c, S)
      BY <1>2 DEF Diff!HasLines
<1>10. \A rs : Diff!Level(rs)' <=> Diff!Level(rs)
      BY DEF Diff!Level
<1> QED BY <1>1, <1>2, <1>3, <1>4, <1>5, <1>6, <1>7, <1>8, <1>9, <1>10

LEMMA HunkFacts ==
    ASSUME UnifiedType, HunksInv, NEW g \in 1 .. Len(hunks)
    PROVE  /\ hunks[g] \in Seq(HunkLine) /\ Len(hunks[g]) \in Nat /\ Len(hunks[g]) >= 1
           /\ FirstOf(g) \in 1 .. Len(script) /\ LastOf(g) \in 0 .. Len(script)
           /\ LastOf(g) = FirstOf(g) + Len(hunks[g]) - 2
           /\ FirstOf(g) .. LastOf(g) \subseteq Diff!Shown
<1>1. script \in Seq({"=", "-", "+"}) /\ hunks \in Seq(Seq(HunkLine))
      BY DEF UnifiedType
<1>2. hunks[g] \in Seq(HunkLine) /\ Len(hunks[g]) \in Nat
      BY <1>1
<1>3. /\ Len(hunks[g]) >= 1 /\ FirstOf(g) \in Diff!Shown
      /\ \A m \in 2 .. Len(hunks[g]) : FirstOf(g) + m - 2 \in Diff!Shown
      BY DEF HunksInv
<1>4. Diff!Shown \subseteq 1 .. Len(script) /\ Len(script) \in Nat
      BY <1>1, ShownLines
<1> DEFINE F == FirstOf(g)
           L == Len(hunks[g])
           Z == LastOf(g)
<1>5. Z = F + L - 2
      BY DEF LastOf
<1>6. /\ L \in Nat /\ L >= 1 /\ F \in Diff!Shown
      /\ \A m \in 2 .. L : F + m - 2 \in Diff!Shown
      BY <1>2, <1>3
<1> HIDE DEF F, L, Z
<1>7. F \in 1 .. Len(script)
      BY <1>4, <1>6
<1>8. F .. Z \subseteq Diff!Shown
  <2> SUFFICES ASSUME NEW k \in F .. Z PROVE k \in Diff!Shown
      OBVIOUS
  <2>1. k - F + 2 \in 2 .. L /\ F + (k - F + 2) - 2 = k
        BY <1>5, <1>6, <1>7
  <2> QED BY <1>6, <2>1
<1>9. Z \in 0 .. Len(script)
  <2>1. CASE L = 1
        BY <1>4, <1>5, <1>7, <2>1
  <2>2. CASE L >= 2
    <3>1. L \in 2 .. L
          BY <1>6, <2>2
    <3>2. Z \in Diff!Shown
          BY <1>5, <1>6, <3>1
    <3> QED BY <1>4, <3>2
  <2> QED BY <1>6, <2>1, <2>2
<1> QED BY <1>2, <1>3, <1>5, <1>7, <1>8, <1>9 DEF F, L, Z

LEMMA LastReadIs ==
    ASSUME UnifiedType, HunksInv
    PROVE  /\ LastRead \in 0 .. Len(script) /\ Len(script) \in Nat
           /\ hunks # <<>> => Len(hunks) \in 1 .. Len(hunks) /\ LastRead = LastOf(Len(hunks))
           /\ hunks = <<>> => Len(hunks) = 0 /\ LastRead = 0
<1>1. script \in Seq({"=", "-", "+"}) /\ hunks \in Seq(Seq(HunkLine))
      BY DEF UnifiedType
<1>2. (hunks # <<>> => Len(hunks) \in 1 .. Len(hunks)) /\ (hunks = <<>> => Len(hunks) = 0) /\ Len(script) \in Nat
      BY <1>1
<1> QED BY <1>2, HunkFacts DEF LastRead

LEMMA LineIs ==
    ASSUME NEW k, NEW n
    PROVE  /\ Diff!Line(k, n).k = k /\ Diff!Line(k, n).at = n
           /\ Diff!NoLine.k = "end" /\ (k # "end" => Diff!Line(k, n) # Diff!NoLine)
<1>1. Diff!Line(k, n).k = k /\ Diff!Line(k, n).at = n /\ Diff!NoLine.k = "end"
      BY DEF Diff!Line, Diff!NoLine
<1> QED BY <1>1

LEMMA OutputLineIs ==
    ASSUME NEW k \in {"diff", "index", "---", "+++", "Binary", "@@", "=", "-", "+", "\\", "end"}, NEW n \in Nat
    PROVE  Diff!Line(k, n) \in OutputLine /\ Diff!NoLine \in OutputLine
BY DEF Diff!Line, Diff!NoLine, OutputLine

LEMMA HunkAfterType ==
    ASSUME UnifiedType, NEW m \in Nat
    PROVE  Diff!HunkAfter(m) \in OutputLine /\ Diff!HunkAfter(m).k \in {"@@", "end"}
<1>1. script \in Seq({"=", "-", "+"}) /\ kind = "text"
      BY DEF UnifiedType
<1>2. CASE Diff!HunkAfter(m) = Diff!NoLine
      BY <1>2, OutputLineIs, LineIs
<1>3. CASE \E n \in Diff!Shown : Diff!HunkAfter(m) = Diff!Line("@@", n)
  <2>1. PICK n \in Diff!Shown : Diff!HunkAfter(m) = Diff!Line("@@", n)
        BY <1>3
  <2>2. n \in Nat
        BY <1>1, ShownLines
  <2> QED BY <2>1, <2>2, OutputLineIs, LineIs
<1> QED BY <1>1, <1>2, <1>3, HunkAfterIs

LEMMA UnifiedInitially == Diff!Init /\ kind = "text" => DiffInv
<1> SUFFICES ASSUME Diff!Init, kind = "text" PROVE DiffInv
    OBVIOUS
<1>1. PICK n \in 1 .. MaxScript : script \in [1 .. n -> {"=", "-", "+"}]
      BY DEF Diff!Init, Diff!Scripts
<1>2. MaxScript \in Nat
      BY Assumptions DEF Diff!DiffAssumption
<1>3. /\ script \in Seq({"=", "-", "+"})
      /\ \A k \in 1 .. (Len(script) - 1) : ~(script[k] = "+" /\ script[k + 1] = "-")
  <2>1. script \in Seq({"=", "-", "+"})
        BY <1>1, <1>2
  <2>2. \A k \in 1 .. (Len(script) - 1) : ~(script[k] = "+" /\ script[k + 1] = "-")
        BY DEF Diff!Init, Diff!Scripts
  <2> QED BY <2>1, <2>2
<1>4. /\ input = Diff!Line("diff", 0) /\ diff_pc = "header" /\ nextHeader = Diff!NoLine /\ hunks = <<>>
      /\ old = 0 /\ new = 0 /\ hunkIndex = 1 /\ lineIndex = 1 /\ modified = <<>> /\ diff_rows = <<>>
      BY DEF Diff!Init
<1>5. UnifiedType
      BY <1>3, <1>4, OutputLineIs DEF UnifiedType
<1>6. HunksInv /\ ScanInv /\ RowsInv
      BY <1>4 DEF HunksInv, ScanInv, RowsInv
<1> QED BY <1>5, <1>6 DEF DiffInv

LEMMA UnifiedFrame ==
    ASSUME UnifiedType, script' = script, kind' = kind
    PROVE  /\ script' \in Seq({"=", "-", "+"}) /\ kind' = "text"
           /\ \A k \in 1 .. (Len(script') - 1) : ~(script'[k] = "+" /\ script'[k + 1] = "-")
BY DEF UnifiedType

LEMMA AppendIs ==
    ASSUME NEW T, NEW s \in Seq(T), NEW e \in T, NEW u, u = Append(s, e)
    PROVE  /\ u \in Seq(T) /\ Len(u) = Len(s) + 1 /\ u[Len(s) + 1] = e /\ Len(s) \in Nat
           /\ \A k \in 1 .. Len(s) : u[k] = s[k]
OBVIOUS

LEMMA RowsNotYet ==
    ASSUME RowsInv, diff_pc \in {"header", "hunk", "lines"}, diff_pc' \in {"header", "hunk", "lines"},
           hunkIndex' = hunkIndex, lineIndex' = lineIndex, modified' = modified, diff_rows' = diff_rows
    PROVE  RowsInv'
BY DEF RowsInv

LEMMA DiffParseHeader ==
    ASSUME DiffInv, Diff!ParseHeader
    PROVE  DiffInv'
<1>1. UnifiedType /\ HunksInv /\ ScanInv /\ RowsInv
      BY DEF DiffInv
<1>2. /\ diff_pc = "header" /\ input' = Diff!Following(input)
      /\ diff_pc' = IF input.k \in {"end", "Binary"} THEN "nil" ELSE IF input.k = "+++" THEN "hunk" ELSE "header"
      /\ script' = script /\ kind' = kind /\ nextHeader' = nextHeader /\ hunks' = hunks /\ old' = old /\ new' = new
      /\ hunkIndex' = hunkIndex /\ lineIndex' = lineIndex /\ modified' = modified /\ diff_rows' = diff_rows
      BY DEF Diff!ParseHeader, Diff!counters, Diff!view
<1>3. hunks = <<>> /\ nextHeader = Diff!NoLine
      BY <1>1, <1>2 DEF ScanInv
<1>4. PICK k \in {"diff", "index", "---", "+++"} : input = Diff!Line(k, 0)
      BY <1>1, <1>2 DEF ScanInv
<1>5. kind = "text" /\ input.k = k /\ input.at = 0
      BY <1>1, <1>4, LineIs DEF UnifiedType
<1>6. /\ k = "diff" => input' = Diff!Line("index", 0) /\ diff_pc' = "header"
      /\ k = "index" => input' = Diff!Line("---", 0) /\ diff_pc' = "header"
      /\ k = "---" => input' = Diff!Line("+++", 0) /\ diff_pc' = "header"
      /\ k = "+++" => input' = Diff!HunkAfter(0) /\ diff_pc' = "hunk"
      BY <1>2, <1>5 DEF Diff!Following
<1>7. diff_pc' \in {"header", "hunk"} /\ input' \in OutputLine
  <2>1. Diff!HunkAfter(0) \in OutputLine
        BY <1>1, HunkAfterType
  <2> QED BY <1>4, <1>6, <2>1, OutputLineIs
<1>8. UnifiedType'
      BY <1>1, <1>2, <1>7, UnifiedFrame DEF UnifiedType
<1>9. HunksInv'
      BY <1>2, <1>3 DEF HunksInv
<1>10. ScanInv'
  <2>1. LastRead' = 0 /\ Diff!HunkAfter(0)' = Diff!HunkAfter(0) /\ Diff!NoLine' = Diff!NoLine
        BY <1>2, <1>3, DiffFrame DEF LastRead, Diff!NoLine
  <2>2. diff_pc' = "header" => \E x \in {"diff", "index", "---", "+++"} : input' = Diff!Line(x, 0)
        BY <1>4, <1>6
  <2>3. diff_pc' = "hunk" => input' = Diff!HunkAfter(0)
        BY <1>4, <1>6
  <2>4. hunks' = <<>> /\ nextHeader' = Diff!NoLine
        BY <1>2, <1>3
  <2> QED BY <1>7, <2>1, <2>2, <2>3, <2>4 DEF ScanInv
<1>11. RowsInv'
      BY <1>1, <1>2, <1>7, RowsNotYet
<1> QED BY <1>8, <1>9, <1>10, <1>11 DEF DiffInv

LEMMA StartsIs ==
    ASSUME NEW m, NEW c, Diff!Number(m - 1, c) \in Nat
    PROVE  /\ Diff!HunkStart(m, c) = Diff!Number(m - 1, c) + Starts(m, c)
           /\ Starts(m, c) \in {0, 1}
BY DEF Diff!HunkStart, Starts

(* The parser begins a hunk at line b.                                     *)
LEMMA HunkBegins ==
    ASSUME DiffInv, diff_pc = "hunk", NEW b \in Diff!Shown, ShownNext(LastRead, b),
           diff_pc' = "lines", nextHeader' = Diff!NoLine, input' = Diff!Following(Diff!Line("@@", b)),
           old' = Diff!HunkStart(b, "+"), new' = Diff!HunkStart(b, "-"), hunks' = Append(hunks, <<HeaderOf(b)>>),
           script' = script, kind' = kind,
           hunkIndex' = hunkIndex, lineIndex' = lineIndex, modified' = modified, diff_rows' = diff_rows
    PROVE  DiffInv'
<1>1. UnifiedType /\ HunksInv /\ ScanInv /\ RowsInv
      BY DEF DiffInv
<1>0. PICK N \in Nat : N = Len(hunks)
      BY <1>1 DEF UnifiedType
<1>2. script \in Seq({"=", "-", "+"}) /\ hunks \in Seq(Seq(HunkLine)) /\ N \in Nat
      BY <1>1 DEF UnifiedType
<1>3. b \in 1 .. Len(script) /\ Len(script) \in Nat /\ b \in Nat /\ b - 1 \in Nat
      BY <1>2, ShownLines
<1>4. HeaderOf(b) \in HunkLine /\ HeaderOf(b).text = b
      BY <1>3 DEF HeaderOf, HunkLine
<1> DEFINE H == <<HeaderOf(b)>>
<1>5. H \in Seq(HunkLine) /\ Len(H) = 1 /\ H[1] = HeaderOf(b)
      BY <1>4
<1> HIDE DEF H
<1>6. /\ hunks' \in Seq(Seq(HunkLine)) /\ Len(hunks') = N + 1 /\ hunks'[N + 1] = H
      /\ \A g \in 1 .. N : hunks'[g] = hunks[g]
  <2>1. hunks' = Append(hunks, H)
        BY DEF H
  <2>2. hunks \in Seq(Seq(HunkLine)) /\ H \in Seq(HunkLine) /\ N = Len(hunks)
        BY <1>0, <1>2, <1>5
  <2> QED BY ONLY <2>1, <2>2, AppendIs
<1>7. /\ \A g \in 1 .. N : FirstOf(g)' = FirstOf(g) /\ LastOf(g)' = LastOf(g)
      /\ FirstOf(N + 1)' = b /\ LastOf(N + 1)' = b - 1
  <2>1. \A g \in 1 .. N : FirstOf(g)' = FirstOf(g) /\ LastOf(g)' = LastOf(g)
        BY <1>6 DEF FirstOf, LastOf
  <2>2. FirstOf(N + 1)' = b
        BY <1>4, <1>5, <1>6 DEF FirstOf
  <2>3. LastOf(N + 1)' = b + 1 - 2
        BY <1>5, <1>6, <2>2 DEF LastOf
  <2> QED BY <1>3, <2>1, <2>2, <2>3
<1>8. hunks' # <<>> /\ LastRead' = b - 1
  <2>1. hunks' # <<>>
        BY <1>2, <1>6
  <2> QED BY <1>6, <1>7, <2>1 DEF LastRead
<1>9. \A c : Diff!Number(b - 1, c) \in Nat
      BY <1>3, NumberIsNat
<1>10. /\ old' = Diff!Number(b - 1, "+") + Starts(b, "+") /\ new' = Diff!Number(b - 1, "-") + Starts(b, "-")
       /\ old' \in Nat /\ new' \in Nat
      BY <1>9, StartsIs
<1>11. input' = Diff!Line(script[b], b) /\ input' \in OutputLine
  <2>1. input' = Diff!Line(script[b], b)
        BY LineIs DEF Diff!Following
  <2>2. script[b] \in {"=", "-", "+"}
        BY <1>2, <1>3
  <2> QED BY <1>3, <2>1, <2>2, OutputLineIs
<1>12. UnifiedType'
  <2>1. nextHeader' \in OutputLine
        BY OutputLineIs, LineIs DEF Diff!NoLine
  <2>2. hunkIndex' \in Nat /\ lineIndex' \in Nat /\ modified' \in Seq(HunkLine) /\ diff_rows' \in Seq(DiffRow)
        BY <1>1 DEF UnifiedType
  <2> QED BY <1>1, <1>6, <1>10, <1>11, <2>1, <2>2, UnifiedFrame DEF UnifiedType
<1>13. HunksInv'
  <2>1. ASSUME NEW g \in 1 .. Len(hunks')
        PROVE  /\ Len(hunks'[g]) >= 1 /\ FirstOf(g)' \in Diff!Shown /\ hunks'[g][1] = HeaderOf(FirstOf(g)')
               /\ \A m \in 2 .. Len(hunks'[g]) :
                    FirstOf(g)' + m - 2 \in Diff!Shown /\ hunks'[g][m] = LineOf(FirstOf(g)' + m - 2)
    <3>1. CASE g \in 1 .. N
          BY <1>0, <1>1, <1>6, <1>7, <3>1 DEF HunksInv
    <3>2. CASE g = N + 1
      <4>1. hunks'[g] = H /\ Len(hunks'[g]) = 1 /\ FirstOf(g)' = b
            BY <1>5, <1>6, <1>7, <3>2
      <4>0. b \in Diff!Shown
            OBVIOUS
      <4>2. Len(hunks'[g]) >= 1 /\ FirstOf(g)' \in Diff!Shown
            BY ONLY <4>0, <4>1
      <4>3. hunks'[g][1] = HeaderOf(FirstOf(g)')
            BY <1>5, <4>1
      <4>4. \A m \in 2 .. Len(hunks'[g]) : FALSE
            BY ONLY <4>1
      <4> QED BY <4>2, <4>3, <4>4
    <3> QED BY <1>2, <1>6, <3>1, <3>2
  <2>2. Len(hunks') > 0 => ShownNext(0, FirstOf(1)')
    <3>1. CASE N = 0
      <4>1. LastRead = 0 /\ FirstOf(1)' = b
            BY <1>0, <1>1, <1>2, <1>7, <3>1, LastReadIs
      <4> QED BY <4>1
    <3>2. CASE N > 0
      <4>1. 1 \in 1 .. N /\ ShownNext(0, FirstOf(1))
            BY <1>0, <1>1, <1>2, <3>2 DEF HunksInv
      <4> QED BY <1>7, <4>1
    <3> QED BY <1>2, <3>1, <3>2
  <2>3. ASSUME NEW g \in 1 .. (Len(hunks') - 1)
        PROVE  Len(hunks'[g]) >= 2 /\ ShownNext(LastOf(g)', FirstOf(g + 1)')
    <3>1. g \in 1 .. N
          BY <1>2, <1>6
    <3>2. CASE g = N
      <4>1. hunks # <<>>
            BY <1>0, <1>2, <3>1
      <4>2. Len(hunks[N]) >= 2 /\ LastRead = LastOf(N)
            BY <1>0, <1>1, <4>1, LastReadIs DEF ScanInv
      <4> QED BY <1>6, <1>7, <3>1, <3>2, <4>2
    <3>3. CASE g # N
      <4>1. g \in 1 .. (N - 1) /\ g + 1 \in 1 .. N
            BY <1>2, <3>1, <3>3
      <4> QED BY <1>0, <1>1, <1>6, <1>7, <3>1, <4>1 DEF HunksInv
    <3> QED BY <3>2, <3>3
  <2>4. /\ Diff!Shown' = Diff!Shown /\ (\A k : LineOf(k)' = LineOf(k)) /\ \A k : HeaderOf(k)' = HeaderOf(k)
        /\ \A m, n : ShownNext(m, n)' <=> ShownNext(m, n)
        BY DiffFrame DEF HeaderOf
  <2> QED BY <2>1, <2>2, <2>3, <2>4 DEF HunksInv, ShownNext
<1>14. ScanInv'
  <2>1. FirstOf(Len(hunks))' = b
        BY <1>6, <1>7 DEF FirstOf
  <2>2. /\ Diff!Shown' = Diff!Shown /\ (\A k, c : Diff!Number(k, c)' = Diff!Number(k, c))
        /\ (\A m, c : Starts(m, c)' = Starts(m, c)) /\ (\A m : Diff!HunkAfter(m)' = Diff!HunkAfter(m))
        BY DiffFrame
  <2>3. b - 1 + 1 = b /\ input' = Diff!Line(script'[b - 1 + 1], b - 1 + 1)
        BY <1>3, <1>11
  <2>4. /\ old' = Diff!Number(LastRead, "+")' + Starts(FirstOf(Len(hunks)), "+")'
        /\ new' = Diff!Number(LastRead, "-")' + Starts(FirstOf(Len(hunks)), "-")'
        BY <1>8, <1>10, <2>1 DEF Diff!Number, Starts, Diff!Shown
  <2>5. nextHeader' = Diff!NoLine'
        BY DEF Diff!NoLine
  <2> QED BY <1>8, <2>2, <2>3, <2>4, <2>5 DEF ScanInv
<1>15. RowsInv'
      BY <1>1, RowsNotYet
<1> QED BY <1>12, <1>13, <1>14, <1>15 DEF DiffInv

LEMMA DiffBeginHunk ==
    ASSUME DiffInv, Diff!BeginHunk
    PROVE  DiffInv'
<1> DEFINE header == IF nextHeader # Diff!NoLine THEN nextHeader ELSE input
<1>1. UnifiedType /\ HunksInv /\ ScanInv /\ RowsInv
      BY DEF DiffInv
<1>2. /\ diff_pc = "hunk" /\ nextHeader' = Diff!NoLine
      /\ input' = IF nextHeader # Diff!NoLine THEN input ELSE Diff!Following(input)
      /\ script' = script /\ kind' = kind
      /\ hunkIndex' = hunkIndex /\ lineIndex' = lineIndex /\ modified' = modified /\ diff_rows' = diff_rows
      BY DEF Diff!BeginHunk, Diff!counters, Diff!view
<1>3. /\ header = Diff!NoLine => diff_pc' = "rows" /\ UNCHANGED <<hunks, Diff!counters>>
      /\ header # Diff!NoLine /\ header.k = "@@" =>
             /\ diff_pc' = "lines"
             /\ old' = Diff!HunkStart(header.at, "+") /\ new' = Diff!HunkStart(header.at, "-")
             /\ hunks' = Append(hunks, <<[k |-> "@@", text |-> header.at, old |-> 0, new |-> 0]>>)
  <2>1. Diff!NoLine.k # "@@"
        BY LineIs
  <2> QED BY <2>1 DEF Diff!BeginHunk
<1>4. /\ hunks # <<>> => Len(hunks[Len(hunks)]) >= 2
      /\ header = Diff!HunkAfter(LastRead)
      /\ nextHeader # Diff!NoLine => input = Diff!Following(nextHeader)
      BY <1>1, <1>2 DEF ScanInv
<1>5. input' = Diff!Following(header)
      BY <1>2, <1>4
<1>6. /\ script \in Seq({"=", "-", "+"}) /\ kind = "text" /\ LastRead \in Nat /\ LastRead \in 0 .. Len(script)
      /\ Len(script) \in Nat
      BY <1>1, LastReadIs DEF UnifiedType
<1>7. CASE \E n \in Diff!Shown : ShownNext(LastRead, n) /\ Diff!HunkAfter(LastRead) = Diff!Line("@@", n)
  <2>1. PICK n \in Diff!Shown : ShownNext(LastRead, n) /\ Diff!HunkAfter(LastRead) = Diff!Line("@@", n)
        BY <1>7
  <2>2. header = Diff!Line("@@", n)
        BY <1>4, <2>1
  <2>3. header # Diff!NoLine /\ header.k = "@@" /\ header.at = n
        BY <2>2, LineIs
  <2> HIDE DEF header
  <2>4. /\ diff_pc' = "lines" /\ old' = Diff!HunkStart(n, "+") /\ new' = Diff!HunkStart(n, "-")
        /\ hunks' = Append(hunks, <<HeaderOf(n)>>)
        BY <1>3, <2>3 DEF HeaderOf
  <2>5. input' = Diff!Following(Diff!Line("@@", n))
        BY <1>5, <2>2
  <2> QED BY <1>2, <2>1, <2>4, <2>5, HunkBegins
<1>8. CASE Diff!HunkAfter(LastRead) = Diff!NoLine /\ \A k \in Diff!Shown : k <= LastRead
  <2>1. header = Diff!NoLine
        BY <1>4, <1>8
  <2>2. diff_pc' = "rows" /\ hunks' = hunks /\ old' = old /\ new' = new
        BY <1>3, <2>1 DEF Diff!counters
  <2>3. input' = Diff!NoLine
        BY <1>5, <2>1, LineIs DEF Diff!Following
  <2>4. UnifiedType'
    <3>1. Diff!NoLine \in OutputLine
          BY OutputLineIs
    <3> QED BY <1>1, <1>2, <2>2, <2>3, <3>1, UnifiedFrame DEF UnifiedType
  <2>5. /\ Diff!Shown' = Diff!Shown /\ (\A k : LineOf(k)' = LineOf(k)) /\ (\A m, n : ShownNext(m, n)' <=> ShownNext(m, n))
        /\ LastRead' = LastRead /\ (\A g : FirstOf(g)' = FirstOf(g) /\ LastOf(g)' = LastOf(g))
        BY <1>2, <2>2, DiffFrame DEF LastRead, FirstOf, LastOf
  <2>6. HunksInv'
        BY <1>1, <2>2, <2>5 DEF HunksInv, HeaderOf
  <2>7. ScanInv'
        BY <1>8, <2>2, <2>5 DEF ScanInv
  <2>8. RowsInv'
    <3>1. hunkIndex = 1 /\ lineIndex = 1 /\ modified = <<>> /\ diff_rows = <<>>
          BY <1>1, <1>2 DEF RowsInv
    <3>2. hunks \in Seq(Seq(HunkLine))
          BY <1>1 DEF UnifiedType
    <3>3. Reached' = IF 1 > Len(hunks) THEN Len(script) + 1 ELSE FirstOf(1)
          BY <1>2, <2>2, <3>1 DEF Reached, FirstOf
    <3>4. ASSUME NEW c PROVE LinesBelow(Reached, c)' = {}
      <4>1. ASSUME NEW k \in Diff!Shown PROVE ~(k < Reached')
        <5>1. k \in Nat /\ k >= 1 /\ k <= LastRead
              BY <1>6, <1>8, ShownLines
        <5>2. CASE hunks = <<>>
              BY <1>1, <5>1, <5>2, LastReadIs
        <5>3. CASE hunks # <<>>
          <6>1. Len(hunks) > 0 /\ 1 \in 1 .. Len(hunks) /\ ~(1 > Len(hunks))
                BY <3>2, <5>3
          <6>2. ShownNext(0, FirstOf(1))
                BY <1>1, <6>1 DEF HunksInv
          <6>3. FirstOf(1) \in Nat
                BY <1>1, <6>1, HunkFacts
          <6> QED BY <3>3, <5>1, <6>1, <6>2, <6>3 DEF ShownNext
        <5> QED BY <5>2, <5>3
      <4> QED BY <2>5, <4>1 DEF LinesBelow
    <3>5. \A c : Diff!HasLines(<<>>, c, {})
          BY NoneHas
    <3>6. Diff!Level(<<>>)
          BY DEF Diff!Level
    <3>7. /\ hunkIndex' = 1 /\ lineIndex' = 1 /\ modified' = <<>> /\ diff_rows' = <<>>
          /\ hunkIndex' \in 1 .. (Len(hunks') + 1)
          /\ hunkIndex' <= Len(hunks') => lineIndex' <= Len(hunks'[hunkIndex']) + 1
      <4>1. 1 \in 1 .. Len(hunks) => Len(hunks[1]) \in Nat
            BY <1>1, HunkFacts
      <4> QED BY <1>2, <2>2, <3>1, <3>2, <4>1
    <3>8. /\ Diff!HasLines(diff_rows, "+", LinesBelow(Reached, "+"))'
          /\ Diff!HasLines(diff_rows, "-", LinesBelow(Reached, "-"))'
          /\ Diff!Level(diff_rows)'
      <4>1. \A rs, c, S : Diff!HasLines(rs, c, S)' <=> Diff!HasLines(rs, c, S)
            BY <1>2, DiffFrame
      <4>2. \A rs : Diff!Level(rs)' <=> Diff!Level(rs)
            BY <1>2, DiffFrame
      <4>3. Diff!HasLines(<<>>, "+", {})' /\ Diff!HasLines(<<>>, "-", {})' /\ Diff!Level(<<>>)'
            BY <3>5, <3>6, <4>1, <4>2
      <4> QED BY <3>4, <3>7, <4>3 DEF Diff!HasLines, Diff!Level
    <3> QED BY <2>2, <3>7, <3>8 DEF RowsInv
  <2> QED BY <2>4, <2>6, <2>7, <2>8 DEF DiffInv
<1> QED BY <1>6, <1>7, <1>8, HunkAfterIs

(* What the parser makes of the next line of a hunk.                       *)
LEMMA LineMade ==
    ASSUME DiffInv, diff_pc = "lines", LastRead + 1 \in Diff!Shown,
           input = Diff!Line(script[LastRead + 1], LastRead + 1)
    PROVE  /\ Diff!DiffLine(input) = LineOf(LastRead + 1)
           /\ \A c \in {"+", "-"} : script[LastRead + 1] # c => Starts(FirstOf(Len(hunks)), c) = 1
           /\ \A c \in {"+", "-"} : Starts(FirstOf(Len(hunks)), c) \in {0, 1}
<1> DEFINE r == LastRead
           b == FirstOf(Len(hunks))
<1>1. UnifiedType /\ HunksInv /\ ScanInv
      BY DEF DiffInv
<1>2. /\ hunks # <<>>
      /\ old = Diff!Number(r, "+") + Starts(b, "+") /\ new = Diff!Number(r, "-") + Starts(b, "-")
      BY <1>1 DEF ScanInv
<1>3. r \in 0 .. Len(script) /\ Len(script) \in Nat /\ Len(hunks) \in 1 .. Len(hunks) /\ r = LastOf(Len(hunks))
      BY <1>1, <1>2, LastReadIs
<1>4. b \in 1 .. Len(script) /\ b .. r \subseteq Diff!Shown /\ r = b + Len(hunks[Len(hunks)]) - 2 /\ Len(hunks[Len(hunks)]) >= 1
      BY <1>1, <1>3, HunkFacts
<1>5. script \in Seq({"=", "-", "+"}) /\ Len(hunks[Len(hunks)]) \in Nat
      BY <1>1, <1>3, HunkFacts DEF UnifiedType
<1>6. r + 1 \in 1 .. Len(script)
      BY <1>3, <1>5, ShownLines
<1>7. r + 1 \in Nat /\ r + 1 >= 1 /\ (r + 1) - 1 = r /\ r \in Nat /\ r + 1 >= b
      BY <1>3, <1>4, <1>5
<1> HIDE DEF r, b
<1>8. b .. (r + 1) \subseteq Diff!Shown
  <2>1. \A k \in b .. (r + 1) : k \in b .. r \/ k = r + 1
        BY <1>4, <1>7
  <2>2. r + 1 \in Diff!Shown
        BY DEF r
  <2> QED BY <1>4, <2>1, <2>2
<1>9. ASSUME NEW c, script[r + 1] # c
      PROVE  Starts(b, c) = 1
  <2>1. r + 1 \in b .. Len(script)
        BY <1>4, <1>6, <1>7
  <2> QED BY <1>8, <1>9, <2>1 DEF Starts
<1>10. \A c : Diff!Number(r, c) \in Nat /\ (script[r + 1] # c => Diff!Number(r + 1, c) = Diff!Number(r, c) + 1)
      BY <1>7, NumberNext
<1>11. Diff!DiffLine(input) = LineOf(r + 1)
  <2>1. input.k = script[r + 1] /\ input.at = r + 1
        BY LineIs DEF r
  <2>2. script[r + 1] # "+" => old = Diff!Number(r + 1, "+")
        BY <1>2, <1>9, <1>10
  <2>3. script[r + 1] # "-" => new = Diff!Number(r + 1, "-")
        BY <1>2, <1>9, <1>10
  <2> QED BY <2>1, <2>2, <2>3 DEF Diff!DiffLine, LineOf
<1>12. \A c : Starts(b, c) \in {0, 1}
      BY DEF Starts
<1> QED BY <1>9, <1>11, <1>12 DEF r, b

(* The parser reads line x of the script into the current hunk.            *)
LEMMA LineReads ==
    ASSUME DiffInv, diff_pc = "lines", NEW x \in Diff!Shown, x = LastRead + 1,
           input = Diff!Line(script[x], x),
           diff_pc' = "lines", nextHeader' = nextHeader, input' = Diff!Following(input),
           hunks' = [hunks EXCEPT ![Len(hunks)] = Append(@, Diff!DiffLine(input))],
           old' = IF input.k = "+" THEN old ELSE old + 1, new' = IF input.k = "-" THEN new ELSE new + 1,
           script' = script, kind' = kind,
           hunkIndex' = hunkIndex, lineIndex' = lineIndex, modified' = modified, diff_rows' = diff_rows
    PROVE  DiffInv'
<1>1. UnifiedType /\ HunksInv /\ ScanInv /\ RowsInv
      BY DEF DiffInv
<1>2. PICK N \in Nat : N = Len(hunks)
      BY <1>1 DEF UnifiedType
<1>3. /\ hunks # <<>> /\ nextHeader = Diff!NoLine
      /\ old = Diff!Number(LastRead, "+") + Starts(FirstOf(N), "+")
      /\ new = Diff!Number(LastRead, "-") + Starts(FirstOf(N), "-")
      BY <1>1, <1>2 DEF ScanInv
<1>4. N \in 1 .. N /\ LastRead = LastOf(N) /\ LastRead \in Nat
      BY <1>1, <1>2, <1>3, LastReadIs
<1>5. PICK b \in Nat : b = FirstOf(N)
      BY <1>1, <1>2, <1>4, HunkFacts
<1>6. PICK L \in Nat : L = Len(hunks[N])
      BY <1>1, <1>2, <1>4, HunkFacts
<1>7. /\ L >= 1 /\ LastRead = b + L - 2 /\ x = b + L - 1 /\ x \in Nat /\ x >= 1 /\ x - 1 = LastRead
      /\ hunks[N] \in Seq(HunkLine)
  <2>1. /\ hunks[N] \in Seq(HunkLine) /\ Len(hunks[N]) >= 1
        /\ LastOf(N) = FirstOf(N) + Len(hunks[N]) - 2 /\ FirstOf(N) \in 1 .. Len(script)
        BY <1>1, <1>2, <1>4, HunkFacts
  <2>2. L >= 1 /\ LastRead = b + L - 2
        BY ONLY <1>4, <1>5, <1>6, <2>1
  <2>3. x = LastRead + 1 /\ b \in Nat /\ L \in Nat /\ b >= 1
        BY <1>5, <2>1
  <2> QED BY ONLY <2>1, <2>2, <2>3
<1>8. /\ script \in Seq({"=", "-", "+"}) /\ kind = "text" /\ hunks \in Seq(Seq(HunkLine))
      /\ x \in DOMAIN script /\ x \in 1 .. Len(script) /\ Len(script) \in Nat
      BY <1>1, ShownLines DEF UnifiedType
<1>9. /\ Diff!DiffLine(input) = LineOf(x) /\ LineOf(x) \in HunkLine
      /\ \A c \in {"+", "-"} : script[x] # c => Starts(b, c) = 1
      /\ \A c \in {"+", "-"} : Starts(b, c) \in {0, 1}
  <2>1. LineOf(x) \in HunkLine
        BY <1>8, LineOfType
  <2> QED BY <1>2, <1>5, <2>1, LineMade
<1>10. /\ hunks' \in Seq(Seq(HunkLine)) /\ Len(hunks') = N
       /\ \A g \in 1 .. N : g # N => hunks'[g] = hunks[g]
       /\ Len(hunks'[N]) = L + 1 /\ hunks'[N][L + 1] = LineOf(x)
       /\ \A m \in 1 .. L : hunks'[N][m] = hunks[N][m]
  <2> DEFINE H == Append(hunks[N], LineOf(x))
  <2>1. /\ H \in Seq(HunkLine) /\ Len(H) = L + 1 /\ H[L + 1] = LineOf(x)
        /\ \A m \in 1 .. L : H[m] = hunks[N][m]
        BY <1>6, <1>7, <1>9, AppendIs
  <2>2. hunks' = [hunks EXCEPT ![N] = H]
        BY <1>2, <1>9
  <2> HIDE DEF H
  <2>3. hunks \in Seq(Seq(HunkLine)) /\ N \in 1 .. Len(hunks) /\ N = Len(hunks)
        BY <1>2, <1>4, <1>8
  <2>4. hunks' \in Seq(Seq(HunkLine)) /\ Len(hunks') = N /\ hunks'[N] = H /\ \A g \in 1 .. N : g # N => hunks'[g] = hunks[g]
        BY ONLY <2>1, <2>2, <2>3
  <2> QED BY ONLY <2>1, <2>4
<1>11. /\ \A g \in 1 .. N : FirstOf(g)' = FirstOf(g)
       /\ \A g \in 1 .. N : g # N => LastOf(g)' = LastOf(g)
       /\ FirstOf(N)' = b /\ LastOf(N)' = x
  <2>1. \A g \in 1 .. N : g # N => FirstOf(g)' = FirstOf(g) /\ LastOf(g)' = LastOf(g)
        BY <1>10 DEF FirstOf, LastOf
  <2>2. 1 \in 1 .. L
        BY <1>7
  <2>3. FirstOf(N)' = FirstOf(N)
        BY <1>10, <2>2 DEF FirstOf
  <2>4. LastOf(N)' = b + (L + 1) - 2
        BY <1>5, <1>10, <2>3 DEF LastOf
  <2> QED BY <1>5, <1>7, <2>1, <2>3, <2>4
<1>12. hunks' # <<>> /\ LastRead' = x
  <2>1. hunks' # <<>>
    <3>1. Len(hunks') # 0
          BY <1>4, <1>10
    <3> QED BY ONLY <3>1
  <2> QED BY <1>10, <1>11, <2>1 DEF LastRead
<1>13. script[x] \in {"=", "-", "+"} /\ input.k = script[x] /\ input.at = x
      BY <1>8, LineIs
<1>14. /\ old' = Diff!Number(x, "+") + Starts(b, "+") /\ new' = Diff!Number(x, "-") + Starts(b, "-")
       /\ old' \in Nat /\ new' \in Nat
  <2>1. ASSUME NEW c PROVE /\ Diff!Number(LastRead, c) \in Nat
                           /\ Diff!Number(x, c) = IF script[x] # c THEN Diff!Number(LastRead, c) + 1
                                                 ELSE Diff!Number(LastRead, c)
        BY <1>7, NumberNext
  <2>2. Starts(b, "+") \in Nat /\ Starts(b, "-") \in Nat
        BY <1>9
  <2>3. old = Diff!Number(LastRead, "+") + Starts(b, "+") /\ new = Diff!Number(LastRead, "-") + Starts(b, "-")
        BY <1>3, <1>5
  <2>4. old' = IF script[x] = "+" THEN old ELSE old + 1
        BY <1>13
  <2>5. new' = IF script[x] = "-" THEN new ELSE new + 1
        BY <1>13
  <2> QED BY ONLY <2>1, <2>2, <2>3, <2>4, <2>5
<1>15. /\ \/ x + 1 \in Diff!Shown /\ input' = Diff!Line(script[x + 1], x + 1)
          \/ x + 1 \notin Diff!Shown /\ input' = Diff!HunkAfter(x)
          \/ x = Len(script) /\ input' = Diff!Line("\\", 0)
       /\ input' \in OutputLine
  <2>1. input' = IF x + 1 \in Diff!Shown THEN Diff!Line(script[x + 1], x + 1)
                 ELSE IF x = Len(script) /\ input.k # "=" THEN Diff!Line("\\", 0) ELSE Diff!HunkAfter(x)
        BY <1>13 DEF Diff!Following
  <2>2. x + 1 \in Diff!Shown => Diff!Line(script[x + 1], x + 1) \in OutputLine
    <3>1. x + 1 \in Diff!Shown => x + 1 \in DOMAIN script
          BY ShownLines
    <3>2. x + 1 \in Diff!Shown => script[x + 1] \in {"=", "-", "+"} /\ x + 1 \in Nat
          BY <1>8, <3>1
    <3> QED BY <3>2, OutputLineIs
  <2>3. Diff!Line("\\", 0) \in OutputLine /\ Diff!HunkAfter(x) \in OutputLine
        BY <1>1, <1>7, OutputLineIs, HunkAfterType
  <2> QED BY <2>1, <2>2, <2>3
<1>16. UnifiedType'
  <2>1. /\ nextHeader' \in OutputLine /\ hunkIndex' \in Nat /\ lineIndex' \in Nat
        /\ modified' \in Seq(HunkLine) /\ diff_rows' \in Seq(DiffRow)
        BY <1>1 DEF UnifiedType
  <2> QED BY <1>1, <1>10, <1>14, <1>15, <2>1, UnifiedFrame DEF UnifiedType
<1>17. HunksInv'
  <2>1. ASSUME NEW g \in 1 .. N
        PROVE  /\ Len(hunks'[g]) >= 1 /\ FirstOf(g)' \in Diff!Shown /\ hunks'[g][1] = HeaderOf(FirstOf(g)')
               /\ \A m \in 2 .. Len(hunks'[g]) :
                    FirstOf(g)' + m - 2 \in Diff!Shown /\ hunks'[g][m] = LineOf(FirstOf(g)' + m - 2)
    <3>1. /\ Len(hunks[g]) >= 1 /\ FirstOf(g) \in Diff!Shown /\ hunks[g][1] = HeaderOf(FirstOf(g))
          /\ \A m \in 2 .. Len(hunks[g]) :
               FirstOf(g) + m - 2 \in Diff!Shown /\ hunks[g][m] = LineOf(FirstOf(g) + m - 2)
          BY <1>1, <1>2 DEF HunksInv
    <3>2. CASE g # N
      <4>1. hunks'[g] = hunks[g] /\ FirstOf(g)' = FirstOf(g)
            BY <1>10, <1>11, <3>2
      <4> QED BY ONLY <3>1, <4>1
    <3>3. CASE g = N
      <4>1. /\ Len(hunks'[g]) = L + 1 /\ FirstOf(g)' = b /\ FirstOf(g) = b /\ Len(hunks[g]) = L
            /\ hunks'[g][L + 1] = LineOf(x) /\ \A m \in 1 .. L : hunks'[g][m] = hunks[g][m]
            BY <1>5, <1>6, <1>10, <1>11, <3>3
      <4>2. hunks'[g][1] = HeaderOf(b) /\ b \in Diff!Shown
        <5>1. 1 \in 1 .. L
              BY <1>7
        <5> QED BY ONLY <3>1, <4>1, <5>1
      <4>3. ASSUME NEW m \in 2 .. (L + 1)
            PROVE  b + m - 2 \in Diff!Shown /\ hunks'[g][m] = LineOf(b + m - 2)
        <5>1. CASE m = L + 1
          <6>1. b + m - 2 = x
                BY <1>7, <5>1
          <6> QED BY <4>1, <5>1, <6>1
        <5>2. CASE m # L + 1
          <6>1. m \in 2 .. L /\ m \in 1 .. L
                BY <5>2
          <6> QED BY ONLY <3>1, <4>1, <6>1
        <5> QED BY <5>1, <5>2
      <4>4. L + 1 >= 1
            OBVIOUS
      <4> QED BY ONLY <4>1, <4>2, <4>3, <4>4
    <3> QED BY <3>2, <3>3
  <2>2. Len(hunks') > 0 => ShownNext(0, FirstOf(1)')
    <3>1. 1 \in 1 .. N /\ Len(hunks) > 0
          BY <1>2, <1>4
    <3> QED BY <1>1, <1>11, <3>1 DEF HunksInv
  <2>3. ASSUME NEW g \in 1 .. (N - 1)
        PROVE  Len(hunks'[g]) >= 2 /\ ShownNext(LastOf(g)', FirstOf(g + 1)')
    <3>1. g \in 1 .. N /\ g + 1 \in 1 .. N /\ g # N
          OBVIOUS
    <3>2. Len(hunks[g]) >= 2 /\ ShownNext(LastOf(g), FirstOf(g + 1))
          BY <1>1, <1>2 DEF HunksInv
    <3>3. hunks'[g] = hunks[g] /\ LastOf(g)' = LastOf(g) /\ FirstOf(g + 1)' = FirstOf(g + 1)
          BY <1>10, <1>11, <3>1
    <3> QED BY <3>2, <3>3
  <2>4. /\ Diff!Shown' = Diff!Shown /\ (\A k : LineOf(k)' = LineOf(k)) /\ \A k : HeaderOf(k)' = HeaderOf(k)
        /\ \A m, n : ShownNext(m, n)' <=> ShownNext(m, n)
        BY DiffFrame DEF HeaderOf
  <2>5. Len(hunks') = N
        BY <1>10
  <2> QED BY ONLY <2>1, <2>2, <2>3, <2>4, <2>5 DEF HunksInv, ShownNext
<1>18. ScanInv'
  <2>1. FirstOf(Len(hunks))' = b
        BY <1>10, <1>11 DEF FirstOf
  <2>2. Diff!Shown' = Diff!Shown /\ \A m : Diff!HunkAfter(m)' = Diff!HunkAfter(m)
        BY DiffFrame
  <2>3. /\ old' = Diff!Number(LastRead, "+")' + Starts(FirstOf(Len(hunks)), "+")'
        /\ new' = Diff!Number(LastRead, "-")' + Starts(FirstOf(Len(hunks)), "-")'
    <3>1. \A c : Diff!Number(LastRead, c)' = Diff!Number(x, c)
          BY <1>12 DEF Diff!Number
    <3>2. \A c : Starts(FirstOf(Len(hunks)), c)' = Starts(b, c)
          BY <2>1, <2>2 DEF Starts
    <3> QED BY ONLY <1>14, <3>1, <3>2
  <2>4. nextHeader' = Diff!NoLine'
        BY <1>3 DEF Diff!NoLine
  <2>5. Len(hunks'[Len(hunks')]) >= 2
        BY <1>7, <1>10
  <2>6. Diff!HunkAfter(LastRead)' = Diff!HunkAfter(x)
        BY <1>12, <2>2 DEF Diff!HunkAfter
  <2>7. script' = script /\ diff_pc' = "lines"
        OBVIOUS
  <2> QED BY ONLY <1>12, <1>15, <2>2, <2>3, <2>4, <2>5, <2>6, <2>7 DEF ScanInv
<1>19. RowsInv'
      BY <1>1, RowsNotYet
<1> QED BY <1>16, <1>17, <1>18, <1>19 DEF DiffInv

LEMMA HunksKept ==
    ASSUME script' = script, kind' = kind, hunks' = hunks
    PROVE  /\ HunksInv => HunksInv'
           /\ LastRead' = LastRead /\ (\A g : FirstOf(g)' = FirstOf(g) /\ LastOf(g)' = LastOf(g))
<1>1. /\ Diff!Shown' = Diff!Shown /\ (\A k : LineOf(k)' = LineOf(k)) /\ (\A m, n : ShownNext(m, n)' <=> ShownNext(m, n))
      BY DiffFrame
<1>2. LastRead' = LastRead /\ (\A g : FirstOf(g)' = FirstOf(g) /\ LastOf(g)' = LastOf(g))
      BY DEF LastRead, FirstOf, LastOf
<1>3. HunksInv => HunksInv'
      BY <1>1, <1>2 DEF HunksInv, HeaderOf
<1> QED BY <1>2, <1>3

LEMMA DiffParseLine ==
    ASSUME DiffInv, Diff!ParseLine
    PROVE  DiffInv'
<1>1. UnifiedType /\ HunksInv /\ ScanInv /\ RowsInv
      BY DEF DiffInv
<1>2. /\ diff_pc = "lines" /\ input' = Diff!Following(input) /\ script' = script /\ kind' = kind
      /\ hunkIndex' = hunkIndex /\ lineIndex' = lineIndex /\ modified' = modified /\ diff_rows' = diff_rows
      BY DEF Diff!ParseLine, Diff!view
<1>3. /\ input.k \in {"end", "@@", "diff"} =>
           diff_pc' = "hunk" /\ nextHeader' = Diff!NextHunkHeader(input) /\ hunks' = hunks /\ old' = old /\ new' = new
      /\ input.k = "\\" =>
           diff_pc' = diff_pc /\ nextHeader' = nextHeader /\ hunks' = hunks /\ old' = old /\ new' = new
      /\ input.k \in {"+", "-", "="} =>
           /\ hunks' = [hunks EXCEPT ![Len(hunks)] = Append(@, Diff!DiffLine(input))]
           /\ old' = (IF input.k = "+" THEN old ELSE old + 1) /\ new' = (IF input.k = "-" THEN new ELSE new + 1)
           /\ diff_pc' = diff_pc /\ nextHeader' = nextHeader
      BY DEF Diff!ParseLine, Diff!counters
<1>4. /\ script \in Seq({"=", "-", "+"}) /\ kind = "text" /\ LastRead \in Nat /\ LastRead \in 0 .. Len(script)
      /\ Len(script) \in Nat
      BY <1>1, LastReadIs DEF UnifiedType
<1>5. hunks # <<>> /\ nextHeader = Diff!NoLine
      BY <1>1, <1>2 DEF ScanInv
<1>6. /\ old = Diff!Number(LastRead, "+") + Starts(FirstOf(Len(hunks)), "+")
      /\ new = Diff!Number(LastRead, "-") + Starts(FirstOf(Len(hunks)), "-")
      BY <1>1, <1>2 DEF ScanInv
<1>7. CASE LastRead + 1 \in Diff!Shown /\ input = Diff!Line(script[LastRead + 1], LastRead + 1)
  <2>1. PICK x \in Diff!Shown : x = LastRead + 1
        BY <1>7
  <2>2. input = Diff!Line(script[x], x)
        BY <1>7, <2>1
  <2>3. input.k \in {"+", "-", "="}
    <3>1. x \in DOMAIN script
          BY ShownLines
    <3>2. script[x] \in {"=", "-", "+"}
          BY <1>4, <3>1
    <3> QED BY <2>2, <3>2, LineIs
  <2>4. /\ hunks' = [hunks EXCEPT ![Len(hunks)] = Append(@, Diff!DiffLine(input))]
        /\ old' = (IF input.k = "+" THEN old ELSE old + 1) /\ new' = (IF input.k = "-" THEN new ELSE new + 1)
        /\ diff_pc' = "lines" /\ nextHeader' = nextHeader
        BY <1>2, <1>3, <2>3
  <2>5. DiffInv
        OBVIOUS
  <2> QED BY ONLY <1>2, <2>1, <2>2, <2>4, <2>5, LineReads
<1>8. CASE /\ Len(hunks[Len(hunks)]) >= 2 /\ LastRead + 1 \notin Diff!Shown
           /\ input = Diff!HunkAfter(LastRead)
  <2>1. input.k \in {"@@", "end"} /\ input \in OutputLine
        BY <1>1, <1>4, <1>8, HunkAfterType
  <2>2. diff_pc' = "hunk" /\ nextHeader' = Diff!NextHunkHeader(input) /\ hunks' = hunks /\ old' = old /\ new' = new
        BY <1>3, <2>1
  <2>3. \/ nextHeader' = input /\ input # Diff!NoLine /\ input' = Diff!Following(nextHeader')
        \/ nextHeader' = Diff!NoLine /\ input' = Diff!NoLine /\ input = Diff!NoLine
    <3>1. CASE input = Diff!NoLine
      <4>1. input.k = "end"
            BY <3>1, LineIs
      <4> QED BY <1>2, <2>2, <3>1, <4>1 DEF Diff!Following, Diff!NextHunkHeader
    <3>2. CASE \E n \in Diff!Shown : input = Diff!Line("@@", n)
      <4>1. input.k = "@@" /\ input # Diff!NoLine
            BY <3>2, LineIs
      <4> QED BY <1>2, <2>2, <4>1 DEF Diff!NextHunkHeader
    <3> QED BY <1>4, <1>8, <3>1, <3>2, HunkAfterIs
  <2>4. input' \in OutputLine
    <3>1. CASE input = Diff!NoLine
          BY <2>1, <2>3, <3>1
    <3>2. CASE \E n \in Diff!Shown : input = Diff!Line("@@", n)
      <4>1. PICK n \in Diff!Shown : input = Diff!Line("@@", n)
            BY <3>2
      <4>2. input.k = "@@" /\ input.at = n
            BY <4>1, LineIs
      <4>3. input' = Diff!Line(script[n], n)
            BY <1>2, <4>2 DEF Diff!Following
      <4>4. n \in DOMAIN script
            BY ShownLines
      <4>5. script[n] \in {"=", "-", "+"} /\ n \in Nat
            BY <1>4, <4>4
      <4> QED BY <4>3, <4>5, OutputLineIs
    <3> QED BY <1>4, <1>8, <3>1, <3>2, HunkAfterIs
  <2>5. UnifiedType'
    <3>1. nextHeader' \in OutputLine
          BY <2>1, <2>3
    <3>2. /\ hunks' \in Seq(Seq(HunkLine)) /\ old' \in Nat /\ new' \in Nat /\ hunkIndex' \in Nat /\ lineIndex' \in Nat
          /\ modified' \in Seq(HunkLine) /\ diff_rows' \in Seq(DiffRow)
          BY <1>1, <1>2, <2>2 DEF UnifiedType
    <3> QED BY <1>1, <1>2, <2>2, <2>4, <3>1, <3>2, UnifiedFrame DEF UnifiedType
  <2>6. HunksInv' /\ LastRead' = LastRead
        BY <1>1, <1>2, <2>2, HunksKept
  <2>7. ScanInv'
    <3>1. Diff!NoLine' = Diff!NoLine /\ Diff!HunkAfter(LastRead)' = Diff!HunkAfter(LastRead)
      <4>1. Diff!Shown' = Diff!Shown
            BY <1>2, DiffFrame
      <4> QED BY <1>2, <2>6, <4>1 DEF Diff!NoLine, Diff!HunkAfter, Diff!NextFile
    <3>2. Diff!Following(nextHeader)' = Diff!Following(nextHeader')
      <4>1. Diff!Shown' = Diff!Shown /\ \A m : Diff!HunkAfter(m)' = Diff!HunkAfter(m)
            BY <1>2, DiffFrame
      <4> QED BY <1>2, <4>1 DEF Diff!Following, Diff!NextFile, Diff!HunkAfter
    <3>3. (IF nextHeader' # Diff!NoLine THEN nextHeader' ELSE input') = Diff!HunkAfter(LastRead)
          BY <1>8, <2>3
    <3>4. nextHeader' # Diff!NoLine => input' = Diff!Following(nextHeader')
          BY <2>3
    <3>5. Len(hunks'[Len(hunks')]) >= 2 /\ diff_pc' = "hunk"
          BY <1>8, <2>2
    <3> QED BY ONLY <3>1, <3>2, <3>3, <3>4, <3>5 DEF ScanInv
  <2>8. RowsInv'
        BY <1>1, <1>2, <2>2, RowsNotYet
  <2> QED BY <2>5, <2>6, <2>7, <2>8 DEF DiffInv
<1>9. CASE /\ Len(hunks[Len(hunks)]) >= 2 /\ LastRead = Len(script)
           /\ input = Diff!Line("\\", 0)
  <2>1. input.k = "\\"
        BY <1>9, LineIs
  <2>2. diff_pc' = "lines" /\ nextHeader' = nextHeader /\ hunks' = hunks /\ old' = old /\ new' = new
        BY <1>2, <1>3, <2>1
  <2>3. input' = Diff!NoLine
        BY <1>2, <1>4, <2>1 DEF Diff!Following, Diff!NextFile
  <2>4. LastRead + 1 \notin Diff!Shown /\ Diff!HunkAfter(LastRead) = Diff!NoLine
    <3>1. \A k \in Diff!Shown : k \in Nat /\ k <= LastRead
          BY <1>4, <1>9, ShownLines
    <3>2. ~\E n \in Diff!Shown : ShownNext(LastRead, n)
          BY <1>4, <3>1 DEF ShownNext
    <3> QED BY <1>4, <3>1, <3>2, HunkAfterIs
  <2>5. UnifiedType'
    <3>1. Diff!NoLine \in OutputLine
          BY OutputLineIs
    <3>2. /\ hunks' \in Seq(Seq(HunkLine)) /\ old' \in Nat /\ new' \in Nat /\ hunkIndex' \in Nat /\ lineIndex' \in Nat
          /\ modified' \in Seq(HunkLine) /\ diff_rows' \in Seq(DiffRow) /\ nextHeader' \in OutputLine
          BY <1>1, <1>2, <2>2 DEF UnifiedType
    <3> QED BY <1>1, <1>2, <2>2, <2>3, <3>1, <3>2, UnifiedFrame DEF UnifiedType
  <2>6. HunksInv' /\ LastRead' = LastRead /\ \A g : FirstOf(g)' = FirstOf(g)
        BY <1>1, <1>2, <2>2, HunksKept
  <2>7. ScanInv'
    <3>1. Diff!Shown' = Diff!Shown
          BY <1>2, DiffFrame
    <3>2. Diff!NoLine' = Diff!NoLine /\ Diff!HunkAfter(LastRead)' = Diff!HunkAfter(LastRead)
          BY <1>2, <2>6, <3>1 DEF Diff!NoLine, Diff!HunkAfter, Diff!NextFile
    <3>3. /\ old' = Diff!Number(LastRead, "+")' + Starts(FirstOf(Len(hunks)), "+")'
          /\ new' = Diff!Number(LastRead, "-")' + Starts(FirstOf(Len(hunks)), "-")'
      <4>1. \A c : Diff!Number(LastRead, c)' = Diff!Number(LastRead, c)
            BY <1>2, <2>6 DEF Diff!Number
      <4>2. \A c : Starts(FirstOf(Len(hunks)), c)' = Starts(FirstOf(Len(hunks)), c)
            BY <1>2, <2>2, <3>1 DEF Starts, FirstOf
      <4> QED BY <1>6, <2>2, <4>1, <4>2
    <3>4. Len(hunks'[Len(hunks')]) >= 2 /\ diff_pc' = "lines" /\ hunks' # <<>> /\ nextHeader' = Diff!NoLine
          BY <1>5, <1>9, <2>2
    <3> QED BY ONLY <2>3, <2>4, <2>6, <3>1, <3>2, <3>3, <3>4 DEF ScanInv
  <2>8. RowsInv'
        BY <1>1, <1>2, <2>2, RowsNotYet
  <2> QED BY <2>5, <2>6, <2>7, <2>8 DEF DiffInv
<1> QED BY <1>1, <1>2, <1>7, <1>8, <1>9 DEF ScanInv

-----------------------------------------------------------------------------
LEMMA BelowGrows ==
    ASSUME script \in Seq({"=", "-", "+"}), NEW n \in Nat, NEW e \in Nat, n <= e, n .. (e - 1) \subseteq Diff!Shown, NEW c
    PROVE  /\ LinesBelow(e, c) = LinesBelow(n, c) \cup {k \in n .. (e - 1) : script[k] # c}
           /\ \A x \in LinesBelow(n, c), y \in {k \in n .. (e - 1) : script[k] # c} : x < y
           /\ LinesBelow(n, c) \in SUBSET Nat /\ {k \in n .. (e - 1) : script[k] # c} \in SUBSET Nat
<1>1. Diff!Shown \subseteq Nat
      BY ShownLines
<1>2. \A k \in Diff!Shown : k < e <=> k < n \/ k \in n .. (e - 1)
      BY <1>1
<1>3. \A k \in n .. (e - 1) : k \in Diff!Shown /\ k < e
      BY <1>1
<1>4. LinesBelow(e, c) = LinesBelow(n, c) \cup {k \in n .. (e - 1) : script[k] # c}
      BY <1>2, <1>3 DEF LinesBelow
<1>5. \A x \in LinesBelow(n, c) : x \in Nat /\ x < n
      BY <1>1 DEF LinesBelow
<1>6. \A y \in {k \in n .. (e - 1) : script[k] # c} : y \in Nat /\ n <= y
      OBVIOUS
<1> QED BY <1>4, <1>5, <1>6

LEMMA RowsGrow ==
    ASSUME script \in Seq({"=", "-", "+"}), NEW n \in Nat, NEW e \in Nat, n <= e, n .. (e - 1) \subseteq Diff!Shown, NEW c,
           NEW r \in Seq(DiffRow), NEW u \in Seq(DiffRow),
           Diff!HasLines(r, c, LinesBelow(n, c)), Diff!HasLines(u, c, {k \in n .. (e - 1) : script[k] # c})
    PROVE  Diff!HasLines(r \o u, c, LinesBelow(e, c))
<1> DEFINE S == LinesBelow(n, c)
           T == {k \in n .. (e - 1) : script[k] # c}
<1>1. LinesBelow(e, c) = S \cup T /\ (\A x \in S, y \in T : x < y) /\ S \in SUBSET Nat /\ T \in SUBSET Nat
      BY BelowGrows
<1>2. Diff!HasLines(r, c, S) /\ Diff!HasLines(u, c, T)
      OBVIOUS
<1> HIDE DEF S, T
<1>3. Diff!HasLines(r \o u, c, S \cup T)
      BY <1>1, <1>2, HasJoined
<1> QED BY <1>1, <1>3

(* The line to visit, and the rows once the changed lines put aside have   *)
(* theirs.                                                                 *)
AtLine == IF lineIndex = 1 THEN FirstOf(hunkIndex) ELSE FirstOf(hunkIndex) + lineIndex - 2

LEMMA PutAside ==
    ASSUME DiffInv, diff_pc = "rows", hunkIndex <= Len(hunks)
    PROVE  /\ hunkIndex \in 1 .. Len(hunks) /\ lineIndex \in 1 .. (Len(hunks[hunkIndex]) + 1)
           /\ Reached \in Nat /\ Reached + Len(modified) = AtLine /\ (lineIndex = 1 => modified = <<>>)
           /\ AtLine \in 1 .. (LastOf(hunkIndex) + 1)
           /\ diff_rows \o Diff!ModifiedRows(modified) \in Seq(DiffRow)
           /\ Diff!HasLines(diff_rows \o Diff!ModifiedRows(modified), "+", LinesBelow(AtLine, "+"))
           /\ Diff!HasLines(diff_rows \o Diff!ModifiedRows(modified), "-", LinesBelow(AtLine, "-"))
           /\ Diff!Level(diff_rows \o Diff!ModifiedRows(modified))
<1> DEFINE g == hunkIndex
           b == FirstOf(g)
           L == Len(hunks[g])
           l == lineIndex
           q == Len(modified)
           D == Reached
           E == AtLine
<1>1. UnifiedType /\ HunksInv /\ ScanInv /\ RowsInv
      BY DEF DiffInv
<1>2. /\ script \in Seq({"=", "-", "+"}) /\ hunks \in Seq(Seq(HunkLine)) /\ modified \in Seq(HunkLine)
      /\ diff_rows \in Seq(DiffRow) /\ l \in Nat /\ q \in Nat
      /\ \A k \in 1 .. (Len(script) - 1) : ~(script[k] = "+" /\ script[k + 1] = "-")
      BY <1>1 DEF UnifiedType
<1>3. /\ g \in 1 .. Len(hunks) /\ l >= 1 /\ l <= L + 1 /\ q < l
      /\ \A n \in 1 .. q : modified[n] = hunks[g][l - q - 1 + n] /\ modified[n].k \in {"+", "-"}
      /\ Diff!HasLines(diff_rows, "+", LinesBelow(D, "+")) /\ Diff!HasLines(diff_rows, "-", LinesBelow(D, "-"))
      /\ Diff!Level(diff_rows)
  <2>1. Len(hunks) \in Nat /\ g \in 1 .. (Len(hunks) + 1)
        BY <1>1, <1>2 DEF RowsInv
  <2>2. g \in 1 .. Len(hunks)
        BY <2>1
  <2> QED BY <1>1, <2>2 DEF RowsInv
<1>4. /\ L \in Nat /\ L >= 1 /\ b \in 1 .. Len(script) /\ LastOf(g) \in 0 .. Len(script) /\ LastOf(g) = b + L - 2
      /\ b .. LastOf(g) \subseteq Diff!Shown /\ Len(script) \in Nat
      BY <1>1, <1>2, <1>3, HunkFacts
<1>5. hunks[g][1].k = "@@" /\ \A m \in 2 .. L : hunks[g][m] = LineOf(b + m - 2)
  <2>1. hunks[g][1] = HeaderOf(b) /\ \A m \in 2 .. L : hunks[g][m] = LineOf(b + m - 2)
        BY <1>1, <1>3 DEF HunksInv
  <2> QED BY <2>1 DEF HeaderOf
<1>6. D = IF l - q <= 1 THEN b ELSE b + (l - q) - 2
  <2>1. ~(g > Len(hunks))
        BY <1>2, <1>3
  <2> QED BY <2>1 DEF Reached
<1>7. E = IF l = 1 THEN b ELSE b + l - 2
      BY DEF AtLine
<1>8. modified = <<>> <=> q = 0
      BY <1>2
<1> DEFINE Z == LastOf(g)
<1> HIDE DEF g, b, L, l, q, D, E, Z
<1>9. q # 0 => l - q >= 2
  <2> SUFFICES ASSUME q # 0, ~(l - q >= 2) PROVE FALSE
      OBVIOUS
  <2>1. 1 \in 1 .. q /\ l - q - 1 + 1 = 1
        BY <1>2, <1>3
  <2>2. modified[1].k \in {"+", "-"} /\ modified[1] = hunks[g][1]
        BY <1>3, <2>1
  <2> QED BY <1>5, <2>2
<1>10. /\ D \in Nat /\ D >= 1 /\ E \in Nat /\ D + q = E /\ E \in 1 .. (Z + 1) /\ D <= E /\ D >= b
       /\ D + q - 1 <= Len(script)
      BY <1>2, <1>3, <1>4, <1>6, <1>7, <1>9 DEF Z
<1>11. D .. (E - 1) \subseteq Diff!Shown
  <2>1. D .. (E - 1) \subseteq b .. Z
        BY <1>4, <1>10 DEF Z
  <2> QED BY <1>4, <2>1 DEF Z
<1>12. \A n \in 1 .. q : modified[n] = LineOf(D + n - 1)
  <2> TAKE n \in 1 .. q
  <2>1. l - q - 1 + n \in 2 .. L /\ b + (l - q - 1 + n) - 2 = D + n - 1
        BY <1>2, <1>3, <1>4, <1>6, <1>9
  <2> QED BY <1>3, <1>5, <2>1
<1> DEFINE M == Diff!ModifiedRows(modified)
<1>13. /\ M \in Seq(DiffRow) /\ Diff!Level(M)
       /\ Diff!HasLines(M, "+", {k \in D .. (D + q - 1) : script[k] # "+"})
       /\ Diff!HasLines(M, "-", {k \in D .. (D + q - 1) : script[k] # "-"})
  <2>1. \A n \in 1 .. Len(modified) : modified[n] = LineOf(D + n - 1) /\ modified[n].k \in {"+", "-"}
        BY <1>3, <1>12 DEF q
  <2>2. D + Len(modified) - 1 <= Len(script)
        BY <1>10 DEF q
  <2> QED BY <1>2, <1>10, <2>1, <2>2, ModifiedShown DEF q
<1> HIDE DEF M
<1>14. D + q - 1 = E - 1
      BY <1>2, <1>10
<1>15. Diff!HasLines(diff_rows \o M, "+", LinesBelow(E, "+")) /\ Diff!HasLines(diff_rows \o M, "-", LinesBelow(E, "-"))
      BY <1>2, <1>3, <1>10, <1>11, <1>13, <1>14, RowsGrow
<1>16. diff_rows \o M \in Seq(DiffRow) /\ Diff!Level(diff_rows \o M)
      BY <1>2, <1>3, <1>13, LevelJoined, Joined
<1>17. l \in 1 .. (L + 1) /\ (l = 1 => modified = <<>>)
      BY <1>2, <1>3, <1>4, <1>8, <1>9
<1> QED BY <1>3, <1>10, <1>15, <1>16, <1>17 DEF g, b, L, l, q, D, E, Z, M

(* What the walk over the hunks leaves alone.                              *)
LEMMA WalkFrame ==
    ASSUME DiffInv, diff_pc \in {"rows", "done"}, diff_pc' \in {"rows", "done"},
           script' = script, kind' = kind, input' = input, nextHeader' = nextHeader,
           hunks' = hunks, old' = old, new' = new,
           hunkIndex' \in Nat, lineIndex' \in Nat, modified' \in Seq(HunkLine), diff_rows' \in Seq(DiffRow)
    PROVE  UnifiedType' /\ HunksInv' /\ ScanInv'
<1>1. UnifiedType /\ HunksInv /\ ScanInv
      BY DEF DiffInv
<1>2. UnifiedType'
  <2>1. /\ hunks' \in Seq(Seq(HunkLine)) /\ old' \in Nat /\ new' \in Nat
        /\ input' \in OutputLine /\ nextHeader' \in OutputLine
        BY <1>1 DEF UnifiedType
  <2> QED BY <1>1, <2>1, UnifiedFrame DEF UnifiedType
<1>3. HunksInv' /\ LastRead' = LastRead
      BY <1>1, HunksKept
<1>4. ScanInv'
  <2>1. Diff!Shown' = Diff!Shown /\ \A k \in Diff!Shown : k <= LastRead
        BY <1>1, DiffFrame DEF ScanInv
  <2> QED BY <1>3, <2>1 DEF ScanInv
<1> QED BY <1>2, <1>3, <1>4

(* The rows after a step of the walk to line n of the script.              *)
LEMMA WalkRows ==
    ASSUME script' = script, kind' = kind, NEW n, Reached' = n,
           Diff!HasLines(diff_rows', "+", LinesBelow(n, "+")), Diff!HasLines(diff_rows', "-", LinesBelow(n, "-")),
           Diff!Level(diff_rows')
    PROVE  /\ Diff!HasLines(diff_rows, "+", LinesBelow(Reached, "+"))'
           /\ Diff!HasLines(diff_rows, "-", LinesBelow(Reached, "-"))'
           /\ Diff!Level(diff_rows)'
<1>1. /\ \A rs, c, S : Diff!HasLines(rs, c, S)' <=> Diff!HasLines(rs, c, S)
      /\ \A rs : Diff!Level(rs)' <=> Diff!Level(rs)
      /\ Diff!Shown' = Diff!Shown /\ \A k, c : Diff!Number(k, c)' = Diff!Number(k, c)
      BY DiffFrame
<1>2. \A c : LinesBelow(Reached, c)' = LinesBelow(n, c)
      BY <1>1 DEF LinesBelow
<1>4. Diff!Level(diff_rows)' <=> Diff!Level(diff_rows')
      BY DEF Diff!Level
<1>5. Diff!HasLines(diff_rows', "+", LinesBelow(Reached, "+")') /\ Diff!HasLines(diff_rows', "-", LinesBelow(Reached, "-")')
      BY <1>2
<1>6. Diff!HasLines(diff_rows, "+", LinesBelow(Reached, "+"))' <=> Diff!HasLines(diff_rows', "+", LinesBelow(Reached, "+")')
      BY <1>1 DEF Diff!HasLines
<1>7. Diff!HasLines(diff_rows, "-", LinesBelow(Reached, "-"))' <=> Diff!HasLines(diff_rows', "-", LinesBelow(Reached, "-")')
      BY <1>1 DEF Diff!HasLines
<1> QED BY <1>4, <1>5, <1>6, <1>7

LEMMA RowsThere ==
    ASSUME diff_pc' \in {"rows", "done"}, diff_pc' = "done" => hunkIndex' > Len(hunks'),
           hunkIndex' \in 1 .. (Len(hunks') + 1), lineIndex' >= 1,
           IF hunkIndex' <= Len(hunks') THEN lineIndex' <= Len(hunks'[hunkIndex']) + 1
           ELSE lineIndex' = 1 /\ modified' = <<>>,
           Len(modified') < lineIndex',
           \A n \in 1 .. Len(modified') :
              modified'[n] = hunks'[hunkIndex'][lineIndex' - Len(modified') - 1 + n] /\ modified'[n].k \in {"+", "-"},
           Diff!HasLines(diff_rows, "+", LinesBelow(Reached, "+"))',
           Diff!HasLines(diff_rows, "-", LinesBelow(Reached, "-"))', Diff!Level(diff_rows)'
    PROVE  RowsInv'
BY DEF RowsInv

LEMMA OneRow ==
    ASSUME NEW r \in Seq(DiffRow), NEW row \in DiffRow, NEW s, s = r \o <<row>>,
           NEW c, NEW S \in SUBSET Nat, NEW T \in SUBSET Nat, \A a \in S, b \in T : a < b,
           Diff!HasLines(r, c, S), Diff!HasLines(<<row>>, c, T)
    PROVE  Diff!HasLines(s, c, S \cup T)
<1>1. <<row>> \in Seq(DiffRow)
      OBVIOUS
<1> QED BY <1>1, HasJoined

LEMMA BelowAreNats ==
    ASSUME script \in Seq({"=", "-", "+"}), NEW n, NEW c
    PROVE  LinesBelow(n, c) \in SUBSET Nat
<1>1. Diff!Shown \subseteq Nat
      BY ShownLines
<1> QED BY <1>1 DEF LinesBelow

(* The row of a hunk header shows no line.                                 *)
LEMMA HeaderRow ==
    LET row == Diff!Row("hunk", Diff!NoSide, Diff!NoSide)
    IN  /\ row \in DiffRow /\ <<row>> \in Seq(DiffRow)
        /\ Diff!HasLines(<<row>>, "+", {}) /\ Diff!HasLines(<<row>>, "-", {}) /\ Diff!Level(<<row>>)
<1> DEFINE row == Diff!Row("hunk", Diff!NoSide, Diff!NoSide)
<1>1. row \in DiffRow /\ row.before = Diff!NoSide /\ row.after = Diff!NoSide
      BY DEF Diff!Row, Diff!NoSide, DiffRow, RowSide
<1> HIDE DEF row
<1>2. <<row>> \in Seq(DiffRow) /\ DOMAIN <<row>> = {1} /\ <<row>>[1] = row
      BY <1>1
<1>3. \A c : Diff!Side(row, c) = Diff!NoSide
      BY <1>1 DEF Diff!Side
<1> DEFINE w == <<row>>
<1>4. \A n \in DOMAIN w : w[n] = row
      BY <1>2
<1> HIDE DEF w
<1>5. \A c : Diff!HasLines(w, c, {})
  <2> TAKE c
  <2>1. \A n \in DOMAIN w : Diff!Side(w[n], c) = Diff!NoSide
        BY <1>3, <1>4
  <2> QED BY <2>1, NoneHas
<1>6. Diff!Level(w)
      BY <1>1, <1>4 DEF Diff!Level
<1> QED BY <1>1, <1>2, <1>5, <1>6 DEF w, row

(* The row of a context line shows it on both sides.                       *)
LEMMA ContextRow ==
    ASSUME script \in Seq({"=", "-", "+"}), NEW m \in DOMAIN script, script[m] = "=", NEW row,
           row = Diff!Row("context", Diff!Before(LineOf(m)), Diff!After(LineOf(m)))
    PROVE  /\ row \in DiffRow /\ <<row>> \in Seq(DiffRow)
           /\ Diff!HasLines(<<row>>, "+", {m}) /\ Diff!HasLines(<<row>>, "-", {m}) /\ Diff!Level(<<row>>)
<1>0. script[m] # "+" /\ script[m] # "-" /\ m \in Nat
      OBVIOUS
<1>1. /\ row \in DiffRow
      /\ Diff!Side(row, "+") = [num |-> Diff!Number(m, "+"), text |-> m] /\ row.before = Diff!Side(row, "+")
      /\ Diff!Side(row, "-") = [num |-> Diff!Number(m, "-"), text |-> m] /\ row.after = Diff!Side(row, "-")
      BY <1>0, SidesOf
<1> DEFINE w == <<row>>
<1>2. w \in Seq(DiffRow) /\ Len(w) = 1 /\ w[1] = row /\ DOMAIN w = 1 .. 1
      BY <1>1
<1> HIDE DEF w
<1>3. ASSUME NEW c \in {"+", "-"} PROVE Diff!HasLines(w, c, {m})
  <2>1. \A n \in 1 .. Len(w) : Diff!Side(w[n], c) = [num |-> Diff!Number(m + n - 1, c), text |-> m + n - 1]
    <3> TAKE n \in 1 .. Len(w)
    <3>1. n = 1 /\ m + n - 1 = m
          BY <1>0, <1>2
    <3>2. w[n] = row
          BY <1>2, <3>1
    <3> QED BY <1>1, <3>1, <3>2
  <2>2. Diff!HasLines(w, c, m .. (m + Len(w) - 1))
        BY <1>0, <1>2, <2>1, RunHas
  <2>3. m .. (m + Len(w) - 1) = {m}
        BY <1>0, <1>2
  <2> QED BY <2>2, <2>3
<1>4. Diff!Level(w)
  <2>1. \A n \in DOMAIN w : w[n] = row
        BY <1>2
  <2>2. row.before.text = row.after.text
        BY <1>1
  <2> QED BY <2>1, <2>2 DEF Diff!Level
<1> QED BY <1>1, <1>2, <1>3, <1>4 DEF w

LEMMA BelowNext ==
    ASSUME script \in Seq({"=", "-", "+"}), NEW n \in Diff!Shown, NEW e, e = n + 1, NEW c, script[n] # c
    PROVE  /\ LinesBelow(e, c) = LinesBelow(n, c) \cup {n} /\ \A x \in LinesBelow(n, c), y \in {n} : x < y
           /\ LinesBelow(n, c) \in SUBSET Nat /\ {n} \in SUBSET Nat
<1>1. Diff!Shown \subseteq Nat
      BY ShownLines
<1>2. \A k \in Diff!Shown : k < e <=> k < n \/ k = n
      BY <1>1
<1> QED BY <1>1, <1>2 DEF LinesBelow

LEMMA DiffVisitLine ==
    ASSUME DiffInv, Diff!VisitLine
    PROVE  DiffInv'
<1>1. UnifiedType /\ HunksInv /\ ScanInv /\ RowsInv
      BY DEF DiffInv
<1>2. /\ diff_pc = "rows" /\ hunkIndex <= Len(hunks) /\ lineIndex <= Len(hunks[hunkIndex])
      /\ lineIndex' = lineIndex + 1 /\ hunkIndex' = hunkIndex /\ diff_pc' = diff_pc
      /\ script' = script /\ kind' = kind /\ input' = input /\ nextHeader' = nextHeader
      /\ hunks' = hunks /\ old' = old /\ new' = new
      BY DEF Diff!VisitLine, Diff!counters
<1>3. PICK g \in 1 .. Len(hunks) : g = hunkIndex
      BY <1>1, <1>2, PutAside
<1>4. PICK l \in Nat : l = lineIndex
      BY <1>1 DEF UnifiedType
<1>5. PICK b \in Nat : b = FirstOf(g)
      BY <1>1, HunkFacts
<1>6. PICK L \in Nat : L = Len(hunks[g])
      BY <1>1, HunkFacts
<1>7. PICK line1 : line1 = hunks[g][l]
      OBVIOUS
<1>8. PICK R : R = diff_rows \o Diff!ModifiedRows(modified)
      OBVIOUS
<1>9. PICK E \in Nat : E = AtLine
      BY <1>2, PutAside
<1>10. /\ IF line1.k \in {"+", "-"} THEN modified' = Append(modified, line1) /\ diff_rows' = diff_rows
          ELSE /\ modified' = <<>>
               /\ diff_rows' = R \o <<IF line1.k = "@@" THEN Diff!Row("hunk", Diff!NoSide, Diff!NoSide)
                                      ELSE Diff!Row("context", Diff!Before(line1), Diff!After(line1))>>
      BY <1>3, <1>4, <1>7, <1>8 DEF Diff!VisitLine
<1>11. /\ l \in 1 .. L /\ Reached \in Nat /\ Reached + Len(modified) = E /\ (l = 1 => modified = <<>>)
       /\ R \in Seq(DiffRow) /\ Diff!HasLines(R, "+", LinesBelow(E, "+")) /\ Diff!HasLines(R, "-", LinesBelow(E, "-"))
       /\ Diff!Level(R)
  <2>1. l \in 1 .. (L + 1) /\ l <= L
        BY <1>2, <1>3, <1>4, <1>6, PutAside
  <2>2. l \in 1 .. L
        BY <2>1
  <2> QED BY <1>2, <1>4, <1>8, <1>9, <2>2, PutAside
<1>12. E = IF l = 1 THEN b ELSE b + l - 2
      BY <1>3, <1>4, <1>5, <1>9 DEF AtLine
<1>13. /\ hunks[g] \in Seq(HunkLine) /\ L >= 1 /\ b \in 1 .. Len(script) /\ LastOf(g) = b + L - 2
       /\ LastOf(g) \in 0 .. Len(script) /\ b .. LastOf(g) \subseteq Diff!Shown
      BY <1>1, <1>5, <1>6, HunkFacts
<1>14. /\ script \in Seq({"=", "-", "+"}) /\ Len(script) \in Nat /\ hunks \in Seq(Seq(HunkLine)) /\ Len(hunks) \in Nat
       /\ modified \in Seq(HunkLine) /\ diff_rows \in Seq(DiffRow) /\ Len(modified) \in Nat
      BY <1>1 DEF UnifiedType
<1>15. line1 \in HunkLine
      BY <1>6, <1>7, <1>11, <1>13
<1>16. l = 1 => line1.k = "@@"
  <2>1. hunks[g][1] = HeaderOf(b)
        BY <1>1, <1>5 DEF HunksInv
  <2> QED BY <1>7, <2>1 DEF HeaderOf
<1>17. l # 1 => /\ E \in DOMAIN script /\ E \in Diff!Shown /\ line1 = LineOf(E) /\ line1.k = script[E]
                /\ script[E] \in {"=", "-", "+"}
  <2> SUFFICES ASSUME l # 1
               PROVE  /\ E \in DOMAIN script /\ E \in Diff!Shown /\ line1 = LineOf(E) /\ line1.k = script[E]
                      /\ script[E] \in {"=", "-", "+"}
      OBVIOUS
  <2>1. l \in 2 .. L /\ E = b + l - 2
        BY <1>11, <1>12
  <2>2. b + l - 2 \in Diff!Shown /\ hunks[g][l] = LineOf(b + l - 2)
        BY <1>1, <1>5, <1>6, <2>1 DEF HunksInv
  <2>3. E \in Diff!Shown /\ line1 = LineOf(E)
        BY <1>7, <2>1, <2>2
  <2>4. E \in DOMAIN script
        BY <2>3, ShownLines
  <2> QED BY <1>14, <2>3, <2>4, LineOfType
<1>18. /\ hunkIndex' = g /\ lineIndex' = l + 1 /\ hunks' = hunks /\ diff_pc' = "rows"
       /\ hunkIndex' \in 1 .. (Len(hunks') + 1) /\ lineIndex' >= 1 /\ hunkIndex' \in Nat /\ lineIndex' \in Nat
       /\ hunkIndex' <= Len(hunks') /\ lineIndex' <= Len(hunks'[hunkIndex']) + 1
  <2>1. hunkIndex' = g /\ lineIndex' = l + 1 /\ hunks' = hunks /\ diff_pc' = "rows"
        BY <1>2, <1>3, <1>4
  <2>2. g \in 1 .. Len(hunks) /\ Len(hunks) \in Nat /\ l \in 1 .. L /\ L \in Nat /\ L = Len(hunks[g])
        BY <1>6, <1>11, <1>14
  <2> QED BY ONLY <2>1, <2>2
<1>19. CASE line1.k \in {"+", "-"}
  <2>1. modified' = Append(modified, line1) /\ diff_rows' = diff_rows
        BY <1>10, <1>19
  <2>2. PICK q \in Nat : q = Len(modified)
        BY <1>14
  <2>3. /\ modified' \in Seq(HunkLine) /\ Len(modified') = q + 1 /\ modified'[q + 1] = line1
        /\ \A n \in 1 .. q : modified'[n] = modified[n]
    <3>1. modified \in Seq(HunkLine) /\ line1 \in HunkLine
          BY <1>14, <1>15
    <3> QED BY ONLY <2>1, <2>2, <3>1, AppendIs
  <2>4. /\ q < l
        /\ \A n \in 1 .. q : modified[n] = hunks[g][l - q - 1 + n] /\ modified[n].k \in {"+", "-"}
        BY <1>1, <1>2, <1>3, <1>4, <2>2 DEF RowsInv
  <2>5. \A n \in 1 .. Len(modified') : /\ modified'[n] = hunks'[hunkIndex'][lineIndex' - Len(modified') - 1 + n]
                                       /\ modified'[n].k \in {"+", "-"}
    <3> TAKE n \in 1 .. Len(modified')
    <3>1. n \in 1 .. (q + 1) /\ lineIndex' - Len(modified') - 1 + n = l - q - 1 + n
          BY <1>18, <2>3
    <3>2. CASE n = q + 1
      <4>1. l - q - 1 + n = l
            BY <3>2
      <4> QED BY <1>7, <1>18, <1>19, <2>3, <3>1, <3>2, <4>1
    <3>3. CASE n # q + 1
      <4>1. n \in 1 .. q
            BY <3>1, <3>3
      <4> QED BY <1>18, <2>3, <2>4, <3>1, <4>1
    <3> QED BY <3>2, <3>3
  <2>6. Reached' = Reached
    <3>1. lineIndex' - Len(modified') = lineIndex - Len(modified) /\ hunkIndex' = hunkIndex /\ hunks' = hunks /\ script' = script
          BY <1>2, <1>4, <1>18, <2>2, <2>3
    <3> QED BY <3>1 DEF Reached, FirstOf
  <2>7. /\ Diff!HasLines(diff_rows', "+", LinesBelow(Reached, "+")) /\ Diff!HasLines(diff_rows', "-", LinesBelow(Reached, "-"))
        /\ Diff!Level(diff_rows')
        BY <1>1, <1>2, <2>1 DEF RowsInv
  <2>8. PICK n : n = Reached
        OBVIOUS
  <2>9. /\ Diff!HasLines(diff_rows, "+", LinesBelow(Reached, "+"))'
        /\ Diff!HasLines(diff_rows, "-", LinesBelow(Reached, "-"))'
        /\ Diff!Level(diff_rows)'
        BY <1>2, <2>6, <2>7, <2>8, WalkRows
  <2>10. Len(modified') < lineIndex'
        BY <1>18, <2>3, <2>4
  <2>11. RowsInv'
        BY ONLY <1>18, <2>5, <2>9, <2>10, RowsThere
  <2>12. UnifiedType' /\ HunksInv' /\ ScanInv'
        BY <1>2, <1>14, <1>18, <2>1, <2>3, WalkFrame
  <2> QED BY <2>11, <2>12 DEF DiffInv
<1>20. ASSUME ~(line1.k \in {"+", "-"}), NEW e \in Nat, NEW row \in DiffRow,
              diff_rows' = R \o <<row>>, e = b + (l + 1) - 2,
              Diff!HasLines(diff_rows', "+", LinesBelow(e, "+")), Diff!HasLines(diff_rows', "-", LinesBelow(e, "-")),
              Diff!Level(diff_rows')
       PROVE  DiffInv'
  <2>1. modified' = <<>> /\ Len(modified') = 0 /\ modified' \in Seq(HunkLine)
        BY <1>10, <1>20
  <2>2. diff_rows' \in Seq(DiffRow)
    <3>1. <<row>> \in Seq(DiffRow)
          OBVIOUS
    <3> QED BY <1>11, <1>20, <3>1, Joined
  <2>3. Reached' = e
    <3>1. ~(hunkIndex' > Len(hunks')) /\ ~(lineIndex' - Len(modified') <= 1) /\ lineIndex' - Len(modified') = l + 1
      <4>1. l >= 1
            BY <1>11
      <4>2. g \in 1 .. Len(hunks) /\ Len(hunks) \in Nat
            BY <1>14
      <4> QED BY ONLY <1>4, <1>18, <2>1, <4>1, <4>2
    <3>2. FirstOf(hunkIndex)' = b
          BY <1>5, <1>18 DEF FirstOf
    <3> QED BY <1>20, <3>1, <3>2 DEF Reached
  <2>4. /\ Diff!HasLines(diff_rows, "+", LinesBelow(Reached, "+"))'
        /\ Diff!HasLines(diff_rows, "-", LinesBelow(Reached, "-"))'
        /\ Diff!Level(diff_rows)'
        BY <1>2, <1>20, <2>3, WalkRows
  <2>5. Len(modified') < lineIndex' /\ \A n \in 1 .. Len(modified') : FALSE
        BY ONLY <1>4, <1>18, <2>1
  <2>6. RowsInv'
        BY ONLY <1>18, <2>4, <2>5, RowsThere
  <2>7. UnifiedType' /\ HunksInv' /\ ScanInv'
        BY <1>2, <1>18, <2>1, <2>2, WalkFrame
  <2> QED BY <2>6, <2>7 DEF DiffInv
<1>21. LinesBelow(E, "+") \in SUBSET Nat /\ LinesBelow(E, "-") \in SUBSET Nat
      BY <1>14, BelowAreNats
<1>22. CASE line1.k = "@@"
  <2>1. l = 1
        BY <1>17, <1>22
  <2>2. E = b + (l + 1) - 2
        BY <1>12, <2>1
  <2>3. PICK row : row = Diff!Row("hunk", Diff!NoSide, Diff!NoSide)
        OBVIOUS
  <2>4. diff_rows' = R \o <<row>>
        BY <1>10, <1>22, <2>3
  <2>5. /\ row \in DiffRow /\ <<row>> \in Seq(DiffRow)
        /\ Diff!HasLines(<<row>>, "+", {}) /\ Diff!HasLines(<<row>>, "-", {}) /\ Diff!Level(<<row>>)
        BY <2>3, HeaderRow
  <2>6. ASSUME NEW c \in {"+", "-"} PROVE Diff!HasLines(diff_rows', c, LinesBelow(E, c))
    <3>1. {} \in SUBSET Nat /\ LinesBelow(E, c) \in SUBSET Nat /\ \A x \in LinesBelow(E, c), y \in {} : x < y
          BY <1>21
    <3>2. Diff!HasLines(R, c, LinesBelow(E, c)) /\ Diff!HasLines(<<row>>, c, {})
          BY <1>11, <2>5
    <3>3. Diff!HasLines(diff_rows', c, LinesBelow(E, c) \cup {})
          BY <1>11, <2>4, <2>5, <3>1, <3>2, OneRow
    <3>4. LinesBelow(E, c) \cup {} = LinesBelow(E, c)
          OBVIOUS
    <3> QED BY <3>3, <3>4
  <2>7. Diff!Level(diff_rows')
        BY <1>11, <2>4, <2>5, LevelJoined
  <2> QED BY <1>20, <1>22, <2>2, <2>4, <2>5, <2>6, <2>7
<1>23. CASE ~(line1.k \in {"+", "-", "@@"})
  <2>1. l # 1 /\ E = b + l - 2
        BY <1>12, <1>16, <1>23
  <2>2. E \in DOMAIN script /\ E \in Diff!Shown /\ line1 = LineOf(E) /\ script[E] = "="
        BY <1>17, <1>23, <2>1
  <2>3. PICK row : row = Diff!Row("context", Diff!Before(LineOf(E)), Diff!After(LineOf(E)))
        OBVIOUS
  <2>4. diff_rows' = R \o <<row>>
        BY <1>10, <1>23, <2>2, <2>3
  <2>5. /\ row \in DiffRow /\ <<row>> \in Seq(DiffRow)
        /\ Diff!HasLines(<<row>>, "+", {E}) /\ Diff!HasLines(<<row>>, "-", {E}) /\ Diff!Level(<<row>>)
        BY <1>14, <2>2, <2>3, ContextRow
  <2>6. PICK e \in Nat : e = E + 1
        OBVIOUS
  <2>7. e = b + (l + 1) - 2 /\ e - 1 = E /\ E <= e
        BY <2>1, <2>6
  <2>8. ASSUME NEW c \in {"+", "-"} PROVE Diff!HasLines(diff_rows', c, LinesBelow(e, c))
    <3>1. script \in Seq({"=", "-", "+"}) /\ E \in Diff!Shown /\ e = E + 1 /\ script[E] # c
          BY <1>14, <2>2, <2>6
    <3>2. /\ LinesBelow(e, c) = LinesBelow(E, c) \cup {E} /\ \A x \in LinesBelow(E, c), y \in {E} : x < y
          /\ LinesBelow(E, c) \in SUBSET Nat /\ {E} \in SUBSET Nat
          BY ONLY <3>1, BelowNext
    <3>3. Diff!HasLines(R, c, LinesBelow(E, c)) /\ Diff!HasLines(<<row>>, c, {E})
          BY <1>11, <2>5
    <3>4. Diff!HasLines(diff_rows', c, LinesBelow(E, c) \cup {E})
          BY <1>11, <2>4, <2>5, <3>2, <3>3, OneRow
    <3> QED BY <3>2, <3>4
  <2>9. Diff!Level(diff_rows')
        BY <1>11, <2>4, <2>5, LevelJoined
  <2> QED BY <1>20, <1>23, <2>4, <2>5, <2>7, <2>8, <2>9
<1> QED BY <1>19, <1>22, <1>23

(* No line is shown between two hunks, nor after the last one.             *)
LEMMA NoneBetween ==
    ASSUME script \in Seq({"=", "-", "+"}), NEW m \in Nat, NEW n \in Nat, m < n,
           \A k \in Diff!Shown : m < k => n <= k, NEW c
    PROVE  LinesBelow(n, c) = LinesBelow(m + 1, c)
<1>1. Diff!Shown \subseteq Nat
      BY ShownLines
<1>2. \A k \in Diff!Shown : k < n <=> k < m + 1
      BY <1>1
<1> QED BY <1>2 DEF LinesBelow

LEMMA DiffEndHunk ==
    ASSUME DiffInv, Diff!EndHunk
    PROVE  DiffInv'
<1>1. UnifiedType /\ HunksInv /\ ScanInv /\ RowsInv
      BY DEF DiffInv
<1>2. /\ diff_pc = "rows" /\ hunkIndex <= Len(hunks) /\ lineIndex > Len(hunks[hunkIndex])
      /\ diff_rows' = diff_rows \o Diff!ModifiedRows(modified)
      /\ hunkIndex' = hunkIndex + 1 /\ lineIndex' = 1 /\ modified' = <<>> /\ diff_pc' = diff_pc
      /\ script' = script /\ kind' = kind /\ input' = input /\ nextHeader' = nextHeader
      /\ hunks' = hunks /\ old' = old /\ new' = new
      BY DEF Diff!EndHunk, Diff!counters
<1>3. PICK g \in 1 .. Len(hunks) : g = hunkIndex
      BY <1>2, PutAside
<1>4. PICK N \in Nat : N = Len(hunks)
      BY <1>1 DEF UnifiedType
<1>5. /\ script \in Seq({"=", "-", "+"}) /\ Len(script) \in Nat /\ Len(hunks[g]) \in Nat /\ Len(hunks[g]) >= 1
      /\ FirstOf(g) \in 1 .. Len(script) /\ LastOf(g) \in 0 .. Len(script)
      /\ LastOf(g) = FirstOf(g) + Len(hunks[g]) - 2
      BY <1>1, HunkFacts DEF UnifiedType
<1>6. PICK z \in Nat : z = LastOf(g)
      BY <1>5
<1>7. AtLine = z + 1
  <2>1. lineIndex \in 1 .. (Len(hunks[g]) + 1) /\ lineIndex > Len(hunks[g])
        BY <1>2, <1>3, PutAside
  <2>2. lineIndex = Len(hunks[g]) + 1 /\ lineIndex # 1
        BY <1>5, <2>1
  <2> QED BY <1>3, <1>5, <1>6, <2>2 DEF AtLine
<1>8. /\ diff_rows' \in Seq(DiffRow) /\ Diff!Level(diff_rows')
      /\ Diff!HasLines(diff_rows', "+", LinesBelow(z + 1, "+")) /\ Diff!HasLines(diff_rows', "-", LinesBelow(z + 1, "-"))
      BY <1>2, <1>7, PutAside
<1>9. /\ hunkIndex' = g + 1 /\ g \in 1 .. N /\ Len(hunks') = N /\ modified' \in Seq(HunkLine) /\ Len(modified') = 0
      BY <1>2, <1>3, <1>4
<1>10. \E n \in Nat : Reached' = n /\ z < n /\ \A k \in Diff!Shown : z < k => n <= k
  <2>1. CASE g = N
    <3>1. Reached' = Len(script) + 1
      <4>1. hunkIndex' > Len(hunks')
            BY <1>9, <2>1
      <4> QED BY <1>2, <4>1 DEF Reached
    <3>2. z = LastRead
      <4>1. hunks # <<>>
            BY <1>4, <2>1
      <4> QED BY <1>4, <1>6, <2>1, <4>1 DEF LastRead
    <3>3. \A k \in Diff!Shown : k <= z
          BY <1>1, <1>2, <3>2 DEF ScanInv
    <3>4. Len(script) + 1 \in Nat /\ z < Len(script) + 1
          BY <1>5, <1>6
    <3>5. \A k \in Diff!Shown : k \in Nat
          BY <1>5, ShownLines
    <3>6. \A k \in Diff!Shown : ~(z < k)
          BY <3>3, <3>5
    <3> QED BY <3>1, <3>4, <3>6
  <2>2. CASE g # N
    <3>1. g \in 1 .. (N - 1) /\ g + 1 \in 1 .. N
          BY <1>9, <2>2
    <3>2. ShownNext(LastOf(g), FirstOf(g + 1))
          BY <1>1, <1>4, <3>1 DEF HunksInv
    <3>3. Reached' = FirstOf(g + 1)
      <4>1. ~(hunkIndex' > Len(hunks')) /\ lineIndex' - Len(modified') <= 1
            BY <1>2, <1>9, <3>1
      <4> QED BY <1>2, <1>9, <4>1 DEF Reached, FirstOf
    <3>4. FirstOf(g + 1) \in Nat
          BY <1>1, <1>4, <3>1, HunkFacts
    <3> QED BY <1>6, <3>2, <3>3, <3>4 DEF ShownNext
  <2> QED BY <2>1, <2>2
<1>11. PICK n \in Nat : Reached' = n /\ z < n /\ \A k \in Diff!Shown : z < k => n <= k
      BY <1>10
<1>12. LinesBelow(n, "+") = LinesBelow(z + 1, "+") /\ LinesBelow(n, "-") = LinesBelow(z + 1, "-")
      BY <1>5, <1>11, NoneBetween
<1>13. /\ Diff!HasLines(diff_rows, "+", LinesBelow(Reached, "+"))'
       /\ Diff!HasLines(diff_rows, "-", LinesBelow(Reached, "-"))'
       /\ Diff!Level(diff_rows)'
  <2>1. /\ Diff!HasLines(diff_rows', "+", LinesBelow(n, "+")) /\ Diff!HasLines(diff_rows', "-", LinesBelow(n, "-"))
        BY <1>8, <1>12
  <2> QED BY <1>2, <1>8, <1>11, <2>1, WalkRows
<1>14. /\ diff_pc' = "rows" /\ hunkIndex' \in 1 .. (Len(hunks') + 1) /\ hunkIndex' \in Nat /\ lineIndex' = 1
       /\ lineIndex' \in Nat /\ lineIndex' >= 1 /\ Len(modified') < lineIndex'
       /\ hunkIndex' <= Len(hunks') => lineIndex' <= Len(hunks'[hunkIndex']) + 1
  <2>1. /\ diff_pc' = "rows" /\ hunkIndex' \in 1 .. (Len(hunks') + 1) /\ hunkIndex' \in Nat /\ lineIndex' = 1
        /\ Len(modified') < lineIndex'
        BY <1>2, <1>9
  <2>2. ASSUME hunkIndex' <= Len(hunks') PROVE lineIndex' <= Len(hunks'[hunkIndex']) + 1
    <3>1. hunkIndex' \in 1 .. Len(hunks) /\ hunks' = hunks
          BY <1>2, <1>4, <1>9, <2>2
    <3>2. Len(hunks[hunkIndex']) \in Nat
          BY <1>1, <3>1, HunkFacts
    <3> QED BY <2>1, <3>1, <3>2
  <2> QED BY <2>1, <2>2
<1>15. RowsInv'
  <2>1. \A k \in 1 .. Len(modified') : /\ modified'[k] = hunks'[hunkIndex'][lineIndex' - Len(modified') - 1 + k]
                                       /\ modified'[k].k \in {"+", "-"}
        BY <1>9
  <2> QED BY ONLY <1>2, <1>13, <1>14, <2>1, RowsThere
<1>16. UnifiedType' /\ HunksInv' /\ ScanInv'
      BY <1>2, <1>8, <1>9, <1>14, WalkFrame
<1> QED BY <1>15, <1>16 DEF DiffInv

LEMMA DiffEndRows ==
    ASSUME DiffInv, Diff!EndRows
    PROVE  DiffInv'
<1>1. UnifiedType /\ HunksInv /\ ScanInv /\ RowsInv
      BY DEF DiffInv
<1>2. /\ diff_pc = "rows" /\ hunkIndex > Len(hunks) /\ diff_pc' = "done"
      /\ script' = script /\ kind' = kind /\ input' = input /\ nextHeader' = nextHeader
      /\ hunks' = hunks /\ old' = old /\ new' = new
      /\ hunkIndex' = hunkIndex /\ lineIndex' = lineIndex /\ modified' = modified /\ diff_rows' = diff_rows
      BY DEF Diff!EndRows, Diff!counters, Diff!view
<1>3. UnifiedType' /\ HunksInv' /\ ScanInv'
  <2>1. hunkIndex' \in Nat /\ lineIndex' \in Nat /\ modified' \in Seq(HunkLine) /\ diff_rows' \in Seq(DiffRow)
        BY <1>1, <1>2 DEF UnifiedType
  <2> QED BY <1>2, <2>1, WalkFrame
<1>4. PICK n : n = Reached
      OBVIOUS
<1>5. Reached' = n
      BY <1>2, <1>4 DEF Reached, FirstOf
<1>6. /\ Diff!HasLines(diff_rows', "+", LinesBelow(n, "+")) /\ Diff!HasLines(diff_rows', "-", LinesBelow(n, "-"))
      /\ Diff!Level(diff_rows')
      BY <1>1, <1>2, <1>4 DEF RowsInv
<1>7. /\ Diff!HasLines(diff_rows, "+", LinesBelow(Reached, "+"))'
      /\ Diff!HasLines(diff_rows, "-", LinesBelow(Reached, "-"))'
      /\ Diff!Level(diff_rows)'
      BY <1>2, <1>5, <1>6, WalkRows
<1>8. /\ hunkIndex \in 1 .. (Len(hunks) + 1) /\ lineIndex >= 1
      /\ IF hunkIndex <= Len(hunks) THEN lineIndex <= Len(hunks[hunkIndex]) + 1 ELSE lineIndex = 1 /\ modified = <<>>
      /\ Len(modified) < lineIndex
      /\ \A k \in 1 .. Len(modified) :
           modified[k] = hunks[hunkIndex][lineIndex - Len(modified) - 1 + k] /\ modified[k].k \in {"+", "-"}
      BY <1>1, <1>2 DEF RowsInv
<1>9. /\ diff_pc' \in {"rows", "done"} /\ (diff_pc' = "done" => hunkIndex' > Len(hunks'))
      /\ hunkIndex' \in 1 .. (Len(hunks') + 1) /\ lineIndex' >= 1
      /\ IF hunkIndex' <= Len(hunks') THEN lineIndex' <= Len(hunks'[hunkIndex']) + 1 ELSE lineIndex' = 1 /\ modified' = <<>>
      /\ Len(modified') < lineIndex'
      /\ \A k \in 1 .. Len(modified') :
           modified'[k] = hunks'[hunkIndex'][lineIndex' - Len(modified') - 1 + k] /\ modified'[k].k \in {"+", "-"}
      BY <1>2, <1>8
<1>10. RowsInv'
      BY ONLY <1>7, <1>9, RowsThere
<1> QED BY <1>3, <1>10 DEF DiffInv

LEMMA DiffStutters ==
    ASSUME DiffInv, UNCHANGED diffVars
    PROVE  DiffInv'
<1>1. UnifiedType /\ HunksInv /\ ScanInv /\ RowsInv
      BY DEF DiffInv
<1>2. /\ diff_pc' = diff_pc /\ script' = script /\ kind' = kind /\ input' = input /\ nextHeader' = nextHeader
      /\ hunks' = hunks /\ old' = old /\ new' = new
      /\ hunkIndex' = hunkIndex /\ lineIndex' = lineIndex /\ modified' = modified /\ diff_rows' = diff_rows
      BY DEF diffVars
<1>3. UnifiedType'
      BY <1>1, <1>2 DEF UnifiedType
<1>4. /\ HunksInv' /\ LastRead' = LastRead
      /\ \A g : FirstOf(g)' = FirstOf(g) /\ LastOf(g)' = LastOf(g)
      BY <1>1, <1>2, HunksKept
<1>5. /\ Diff!Shown' = Diff!Shown /\ (\A k, c : Diff!Number(k, c)' = Diff!Number(k, c))
      /\ (\A m, c : Starts(m, c)' = Starts(m, c)) /\ (\A m : Diff!HunkAfter(m)' = Diff!HunkAfter(m))
      /\ (\A l : Diff!Following(l)' = Diff!Following(l)) /\ (\A n, c : LinesBelow(n, c)' = LinesBelow(n, c))
      /\ (\A rs, c, S : Diff!HasLines(rs, c, S)' <=> Diff!HasLines(rs, c, S))
      /\ (\A rs : Diff!Level(rs)' <=> Diff!Level(rs))
      BY <1>2, DiffFrame
<1>6. ScanInv'
      BY <1>1, <1>2, <1>4, <1>5 DEF ScanInv, Diff!Line, Diff!NoLine, FirstOf
<1>7. RowsInv'
      BY <1>1, <1>2, <1>4, <1>5 DEF RowsInv, Reached, FirstOf, LinesBelow
<1> QED BY <1>3, <1>4, <1>6, <1>7 DEF DiffInv

LEMMA DiffNext == DiffInv /\ Diff!Next => DiffInv'
BY DiffParseHeader, DiffBeginHunk, DiffParseLine, DiffVisitLine, DiffEndHunk, DiffEndRows DEF Diff!Next

LEMMA DiffInvImplies == DiffInv => Diff!RowsExact
<1> SUFFICES ASSUME DiffInv, diff_pc = "done"
             PROVE  /\ \A c \in {"+", "-"} : Diff!HasLines(diff_rows, c, {k \in Diff!Shown : script[k] # c})
                    /\ Diff!Level(diff_rows)
    BY DEF Diff!RowsExact
<1>1. UnifiedType /\ RowsInv
      BY DEF DiffInv
<1>2. /\ Diff!HasLines(diff_rows, "+", LinesBelow(Reached, "+")) /\ Diff!HasLines(diff_rows, "-", LinesBelow(Reached, "-"))
      /\ Diff!Level(diff_rows) /\ hunkIndex > Len(hunks)
      BY <1>1 DEF RowsInv
<1>3. Reached = Len(script) + 1
      BY <1>2 DEF Reached
<1>4. script \in Seq({"=", "-", "+"}) /\ \A k \in Diff!Shown : k < Len(script) + 1
  <2>1. script \in Seq({"=", "-", "+"})
        BY <1>1 DEF UnifiedType
  <2> QED BY <2>1, ShownLines
<1>5. \A c : LinesBelow(Reached, c) = {k \in Diff!Shown : script[k] # c}
      BY <1>3, <1>4 DEF LinesBelow
<1>6. /\ Diff!HasLines(diff_rows, "+", {k \in Diff!Shown : script[k] # "+"})
      /\ Diff!HasLines(diff_rows, "-", {k \in Diff!Shown : script[k] # "-"})
  <2>1. /\ LinesBelow(Reached, "+") = {k \in Diff!Shown : script[k] # "+"}
        /\ LinesBelow(Reached, "-") = {k \in Diff!Shown : script[k] # "-"}
        BY <1>5
  <2> QED BY <1>2, <2>1
<1> QED BY <1>2, <1>6

LEMMA UnifiedIsInvariant == Spec => [](part = "Diff" /\ kind = "text" => DiffInv)
<1>1. Init => (part = "Diff" /\ kind = "text" => DiffInv)
      BY UnifiedInitially DEF Init
<1>2. (part = "Diff" /\ kind = "text" => DiffInv) /\ [Next]_all => (part = "Diff" /\ kind = "text" => DiffInv)'
  <2> SUFFICES ASSUME part = "Diff" /\ kind = "text" => DiffInv, [Next]_all, part' = "Diff", kind' = "text"
               PROVE  DiffInv'
      OBVIOUS
  <2>1. CASE DiffStep(Diff!Next)
    <3>1. part = "Diff" /\ Diff!Next
          BY <2>1 DEF DiffStep
    <3>2. kind' = kind
          BY <3>1 DEF Diff!Next, Diff!ParseHeader, Diff!BeginHunk, Diff!ParseLine, Diff!VisitLine, Diff!EndHunk, Diff!EndRows
    <3> QED BY <3>1, <3>2, DiffNext
  <2>2. CASE \/ BlameStep(Blame!Next) \/ ShowStep(Show!Next) \/ LogStep(Log!Next)
             \/ ViewStep(View!Next) \/ DirtreeStep(Dirtree!Next)
        BY <2>2 DEF BlameStep, ShowStep, LogStep, ViewStep, DirtreeStep
  <2>3. CASE UNCHANGED all
    <3>1. UNCHANGED <<part, diffVars>>
          BY <2>3 DEF all
    <3>2. part = "Diff" /\ kind = "text"
          BY <3>1 DEF diffVars
    <3> QED BY <3>1, <3>2, DiffStutters
  <2> QED BY <2>1, <2>2, <2>3 DEF Next
<1> QED BY <1>1, <1>2, PTL DEF Spec

(***************************************************************************)
(* GetDiffRowsSplit: the rows of a diff show every line git showed, on the *)
(* side of each version that has it, once, in the order of the file and    *)
(* with its number there; lines stand side by side only if they are the    *)
(* same line or of one change.                                             *)
(***************************************************************************)
THEOREM RowsAreExact == Spec => []RowsExact
<1>1. (part = "Diff" /\ kind = "text" => DiffInv) => RowsExact
      BY DiffInvImplies DEF RowsExact, Diff!RowsExact
<1> QED BY <1>1, UnifiedIsInvariant, PTL
===============================================================================
