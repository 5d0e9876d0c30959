--------------------------- MODULE ChunkFilesProofs ---------------------------
(***************************************************************************)
(* Proofs about ChunkFiles, for any lines in the chunk, any number of      *)
(* files, any gap and any order of the lines: the ranges of a file are     *)
(* disjoint, cover its lines and have small gaps, and the search tree over *)
(* them finds what a scan would.                                           *)
(***************************************************************************)
EXTENDS ChunkFiles, FiniteSetTheorems, TLAPS

(***************************************************************************)
(* A range begins with a line and ends with one, so that a line is either  *)
(* inside a range or entirely before or after it (LineOrRange).            *)
(***************************************************************************)
EndsAtLines ==
    \A g \in cur_file :
        /\ \E b \in Line : b.l = g.left
        /\ \E c \in Line : c.r = g.right

(* Files that have not been started have no lines.                         *)
LaterEmpty == \A f \in File : f > file => has[f] = {}

(* After the last file there are no ranges left to finish.                 *)
NoneLeft == file \notin File => cur_file = {}

ChunkInv ==
    /\ TypeOK
    /\ EndsAtLines
    /\ LaterEmpty
    /\ NoneLeft
    /\ RangesDisjoint
    /\ LinesCovered

IsRange(g) ==
    /\ g.left \in Nat /\ g.right \in Nat /\ g.left <= g.right
    /\ g = [left |-> g.left, right |-> g.right]

(***************************************************************************)
(* A line is inside a range that begins and ends with a line, or disjoint  *)
(* from it.                                                                *)
(***************************************************************************)
LEMMA LineOrRange ==
    ASSUME NEW a \in Line, NEW g, IsRange(g),
           \E b \in Line : b.l = g.left,
           \E c \in Line : c.r = g.right
    PROVE  Inside(a, g) \/ a.r < g.left \/ g.right < a.l
BY ChunkFilesAssumption DEF IsRange, Inside

(***************************************************************************)
(* What add_chunk_file's three cases compute: the number of bytes between  *)
(* the line and the range, 0 for a line inside.                            *)
(***************************************************************************)
LEMMA DistIs ==
    ASSUME NEW a \in Line, NEW g, IsRange(g)
    PROVE  /\ Dist(g, a) \in Nat
           /\ Inside(a, g) => Dist(g, a) = 0
           /\ a.r < g.left => Dist(g, a) = g.left - a.r
           /\ g.right < a.l => Dist(g, a) = a.l - g.right
BY ChunkFilesAssumption DEF IsRange, Inside, Dist

LEMMA ExpandIs ==
    ASSUME NEW a \in Line, NEW g, IsRange(g)
    PROVE  /\ IsRange(Expand(g, a))
           /\ Inside(a, Expand(g, a))
           /\ Expand(g, a).left <= g.left /\ g.right <= Expand(g, a).right
           /\ Expand(g, a).left = a.l \/ Expand(g, a).left = g.left
           /\ Expand(g, a).right = a.r \/ Expand(g, a).right = g.right
           /\ Inside(a, g) => Expand(g, a) = g
           /\ a.r < g.left => Expand(g, a).left = a.l /\ Expand(g, a).right = g.right
           /\ g.right < a.l => Expand(g, a).left = g.left /\ Expand(g, a).right = a.r
BY ChunkFilesAssumption DEF IsRange, Inside, Expand

Apart(g, h) == g.right < h.left \/ h.right < g.left

(***************************************************************************)
(* Expanding the nearest range to take in a line does not reach any other: *)
(* a range in between would have been nearer.                              *)
(***************************************************************************)
LEMMA NearestStaysApart ==
    ASSUME ChunkInv, NEW a \in Line, NEW g \in Nearest(a), NEW h \in cur_file, h # g
    PROVE  Apart(Expand(g, a), h)
<1> g \in cur_file /\ Dist(g, a) <= Dist(h, a)
    BY DEF Nearest
<1>1. IsRange(g) /\ IsRange(h)
      BY DEF ChunkInv, TypeOK, IsRange
<1>2. Apart(g, h)
      BY DEF ChunkInv, RangesDisjoint, Apart
<1>3. Inside(a, h) \/ a.r < h.left \/ h.right < a.l
      BY <1>1, LineOrRange DEF ChunkInv, EndsAtLines
<1>4. Inside(a, g) \/ a.r < g.left \/ g.right < a.l
      BY <1>1, LineOrRange DEF ChunkInv, EndsAtLines
<1>5. a.l \in Nat /\ a.r \in Nat /\ a.l <= a.r
      BY ChunkFilesAssumption
<1>6. CASE Inside(a, g)
      BY <1>1, <1>2, <1>6, ExpandIs
<1>7. CASE a.r < g.left
      BY <1>1, <1>2, <1>3, <1>5, <1>7, ExpandIs, DistIs DEF IsRange, Inside, Apart
<1>8. CASE g.right < a.l
      BY <1>1, <1>2, <1>3, <1>5, <1>8, ExpandIs, DistIs DEF IsRange, Inside, Apart
<1> QED BY <1>4, <1>6, <1>7, <1>8

(***************************************************************************)
(* A line that is kMaxGap or more from every range is disjoint from them.  *)
(***************************************************************************)
LEMMA FarIsApart ==
    ASSUME ChunkInv, NEW a \in Line, NEW h \in cur_file, Dist(h, a) >= kMaxGap
    PROVE  Apart(RangeOf(a), h)
<1>1. IsRange(h)
      BY DEF ChunkInv, TypeOK, IsRange
<1>2. Inside(a, h) \/ a.r < h.left \/ h.right < a.l
      BY <1>1, LineOrRange DEF ChunkInv, EndsAtLines
<1> QED BY <1>1, <1>2, DistIs, ChunkFilesAssumption DEF IsRange, Apart, RangeOf

LEMMA InitChunkInv == Init => ChunkInv
<1> SUFFICES ASSUME Init PROVE ChunkInv
    OBVIOUS
<1>1. TypeOK
  <2>1. file \in 1..(MaxFiles + 1)
        BY ChunkFilesAssumption DEF Init
  <2> QED BY <2>1 DEF Init, TypeOK
<1>2. EndsAtLines /\ LaterEmpty /\ NoneLeft /\ RangesDisjoint
      BY DEF Init, EndsAtLines, LaterEmpty, NoneLeft, RangesDisjoint
<1>3. LinesCovered
      BY ChunkFilesAssumption DEF Init, LinesCovered, File
<1> QED BY <1>1, <1>2, <1>3 DEF ChunkInv

(***************************************************************************)
(* add_chunk_file, both ways: the ranges stay apart and cover the line.    *)
(***************************************************************************)
LEMMA AddPreserves ==
    ASSUME ChunkInv, NEW a \in Line, AddChunkFile(a)
    PROVE  ChunkInv'
<1> file \in File /\ has \in [File -> SUBSET Line]
    BY DEF AddChunkFile, ChunkInv, TypeOK
<1>1. PICK r : /\ IsRange(r)
               /\ Inside(a, r)
               /\ r \in cur_file'
               /\ \A h \in cur_file' : h # r => h \in cur_file /\ Apart(r, h)
               /\ \A h \in cur_file : h \in cur_file' \/ (r.left <= h.left /\ h.right <= r.right)
               /\ \E b \in Line : b.l = r.left
               /\ \E c \in Line : c.r = r.right
  <2>1. CASE ExpandNearest(a)
    <3>1. PICK g \in Nearest(a) : cur_file' = (cur_file \ {g}) \cup {Expand(g, a)}
          BY <2>1 DEF ExpandNearest
    <3>2. g \in cur_file /\ IsRange(g)
          BY <3>1 DEF Nearest, ChunkInv, TypeOK, IsRange
    <3>3. \A h \in cur_file : h # g => Apart(Expand(g, a), h)
          BY NearestStaysApart
    <3>4. /\ \E b \in Line : b.l = Expand(g, a).left
          /\ \E c \in Line : c.r = Expand(g, a).right
          BY <3>2, ExpandIs DEF ChunkInv, EndsAtLines
    <3>5. /\ IsRange(Expand(g, a)) /\ Inside(a, Expand(g, a))
          /\ Expand(g, a).left <= g.left /\ g.right <= Expand(g, a).right
          BY <3>2, ExpandIs
    <3> WITNESS Expand(g, a)
    <3> QED BY <3>1, <3>2, <3>3, <3>4, <3>5
  <2>2. CASE NewRange(a)
    <3>1. IsRange(RangeOf(a)) /\ Inside(a, RangeOf(a))
          BY ChunkFilesAssumption DEF IsRange, RangeOf, Inside
    <3>2. \A h \in cur_file : Apart(RangeOf(a), h)
          BY <2>2, FarIsApart DEF NewRange
    <3>3. (\E b \in Line : b.l = RangeOf(a).left) /\ (\E c \in Line : c.r = RangeOf(a).right)
          BY DEF RangeOf
    <3> WITNESS RangeOf(a)
    <3> QED BY <2>2, <3>1, <3>2, <3>3 DEF NewRange
  <2> QED BY <2>1, <2>2 DEF AddChunkFile
<1>2. TypeOK'
  <2>1. \A g \in cur_file' : IsRange(g)
        BY <1>1 DEF ChunkInv, TypeOK, IsRange
  <2>2. has' \in [File -> SUBSET Line]
        BY DEF AddChunkFile
  <2>3. file' = file /\ pc' = pc /\ cut' = cut
        BY DEF AddChunkFile, walk_vars
  <2> QED BY <2>1, <2>2, <2>3 DEF ChunkInv, TypeOK, IsRange
<1>3. EndsAtLines'
      BY <1>1 DEF ChunkInv, EndsAtLines
<1>4. LaterEmpty' /\ NoneLeft'
      BY DEF ChunkInv, LaterEmpty, NoneLeft, AddChunkFile, File
<1>5. RangesDisjoint'
      BY <1>1 DEF ChunkInv, RangesDisjoint, Apart
<1>6. LinesCovered'
  <2>1. ASSUME NEW b \in has'[file] PROVE \E g \in cur_file' : Inside(b, g)
    <3>1. CASE b = a
          BY <1>1, <3>1
    <3>2. CASE b \in has[file]
      <4>1. PICK h \in cur_file : Inside(b, h)
            BY <3>2 DEF ChunkInv, LinesCovered
      <4>2. IsRange(h) /\ b.l \in Nat /\ b.r \in Nat
            BY <3>2, ChunkFilesAssumption DEF ChunkInv, TypeOK, IsRange
      <4>3. CASE h \in cur_file'
            BY <4>1, <4>3
      <4>4. CASE r.left <= h.left /\ h.right <= r.right
            BY <1>1, <4>1, <4>2, <4>4 DEF Inside, IsRange
      <4> QED BY <1>1, <4>3, <4>4
    <3> QED BY <3>1, <3>2 DEF AddChunkFile
  <2>2. \A f \in File : f < file => has'[f] = has[f]
        BY DEF AddChunkFile, File
  <2>3. file' = file /\ files' = files
        BY DEF AddChunkFile
  <2> QED BY <2>1, <2>2, <2>3 DEF ChunkInv, LinesCovered
<1> QED BY <1>2, <1>3, <1>4, <1>5, <1>6 DEF ChunkInv

(***************************************************************************)
(* finish_file moves the ranges of the file that it ends to files.         *)
(***************************************************************************)
LEMMA FinishPreserves ==
    ASSUME ChunkInv, FinishFile
    PROVE  ChunkInv'
<1>1. /\ file \in File /\ file' = file + 1 /\ has' = has /\ cur_file' = {}
      /\ pc' = pc /\ cut' = cut
      /\ files' = files \cup {[left |-> g.left, right |-> g.right, file |-> file] :
                                g \in cur_file}
      BY DEF FinishFile, walk_vars
<1>2. TypeOK'
      BY <1>1, ChunkFilesAssumption DEF ChunkInv, TypeOK, File
<1>3. EndsAtLines' /\ NoneLeft' /\ RangesDisjoint'
      BY <1>1 DEF EndsAtLines, NoneLeft, RangesDisjoint
<1>4. LaterEmpty'
      BY <1>1, ChunkFilesAssumption DEF ChunkInv, LaterEmpty, File
<1>5. LinesCovered'
  <2>1. ASSUME file' \in File PROVE has'[file'] = {}
        BY <1>1, <2>1, ChunkFilesAssumption DEF ChunkInv, LaterEmpty, File
  <2>2. ASSUME NEW f \in File, f < file', NEW a \in has'[f]
        PROVE  \E e \in files' : e.file = f /\ Inside(a, e)
    <3>1. CASE f = file
      <4>1. PICK g \in cur_file : Inside(a, g)
            BY <1>1, <2>2, <3>1 DEF ChunkInv, LinesCovered
      <4> DEFINE e == [left |-> g.left, right |-> g.right, file |-> file]
      <4>2. e \in files' /\ e.file = f /\ Inside(a, e)
            BY <1>1, <3>1, <4>1 DEF Inside
      <4> QED BY <4>2
    <3>2. CASE f < file
          BY <1>1, <2>2, <3>2 DEF ChunkInv, LinesCovered
    <3>3. f = file \/ f < file
          BY <1>1, <2>2, ChunkFilesAssumption DEF File
    <3> QED BY <3>1, <3>2, <3>3
  <2> QED BY <2>1, <2>2 DEF LinesCovered
<1> QED BY <1>2, <1>3, <1>4, <1>5 DEF ChunkInv

LEMMA NextChunkInv == ChunkInv /\ [Next]_vars => ChunkInv'
<1> SUFFICES ASSUME ChunkInv, [Next]_vars PROVE ChunkInv'
    OBVIOUS
<1>1. ASSUME NEW a \in Line, AddChunkFile(a) PROVE ChunkInv'
      BY <1>1, AddPreserves
<1>2. CASE FinishFile
      BY <1>2, FinishPreserves
<1>3. CASE UNCHANGED index_vars /\ pc' \in {"index", "final", "walk", "found"} /\ cut' \in BOOLEAN
      BY <1>3 DEF ChunkInv, TypeOK, EndsAtLines, LaterEmpty, NoneLeft, RangesDisjoint,
                  LinesCovered, index_vars
<1>4. CASE FinalizeFiles
      BY <1>3, <1>4 DEF FinalizeFiles, ChunkInv, TypeOK, walk_vars
<1>5. ASSUME NEW a \in Line, FindMatch(a.l) PROVE ChunkInv'
      BY <1>3, <1>5 DEF FindMatch
<1>6. CASE Walk
      BY <1>3, <1>6 DEF Walk, ChunkInv, TypeOK
<1>7. CASE Walked
      BY <1>3, <1>7 DEF Walked, ChunkInv, TypeOK, walk_vars
<1>8. CASE ExitEarly
      BY <1>3, <1>8 DEF ExitEarly
<1>9. CASE UNCHANGED vars
      BY <1>3, <1>9 DEF vars, walk_vars, ChunkInv, TypeOK
<1> QED BY <1>1, <1>2, <1>4, <1>5, <1>6, <1>7, <1>8, <1>9 DEF Next

LEMMA ChunkInvariant == Spec => []ChunkInv
BY InitChunkInv, NextChunkInv, PTL DEF Spec

(***************************************************************************)
(* The ranges of a file never overlap: finish_file()'s assertion holds for *)
(* every input.                                                            *)
(***************************************************************************)
THEOREM FinishFileAssert == Spec => []RangesDisjoint
BY ChunkInvariant, PTL DEF ChunkInv

(***************************************************************************)
(* Every line of every file stays covered by a range for that file, which  *)
(* is what makes a search that looks a line up find all files with it.     *)
(***************************************************************************)
THEOREM NoLineLost == Spec => []LinesCovered
BY ChunkInvariant, PTL DEF ChunkInv

-----------------------------------------------------------------------------
(***************************************************************************)
(* The gaps of a range.  Each range begins and ends with a line of the     *)
(* file, and a line inside that is not the last has another one close      *)
(* behind it.                                                              *)
(***************************************************************************)
Follows(b, a, g) == b.l > a.r /\ b.l - a.r < kMaxGap /\ Inside(b, g)

(* What GapsBounded says of one range of a file with the lines L.          *)
Tight(g, L) ==
    /\ \E a \in L : a.l = g.left
    /\ \E a \in L : a.r = g.right
    /\ \A a \in L : Inside(a, g) /\ a.r # g.right => \E b \in L : Follows(b, a, g)

LEMMA GapsAreTight ==
    GapsBounded <=> (file \in File => \A g \in cur_file : Tight(g, has[file]))
BY DEF GapsBounded, Tight, Follows

LEMMA LeastElement ==
    ASSUME NEW T \in SUBSET Nat, T # {}
    PROVE  \E x \in T : \A y \in T : x <= y
<1> DEFINE R == OpToRel(<, Nat)
<1>1. \E x \in T : \A y \in T : ~(<<y, x>> \in R)
      BY WFMin, NatLessThanWellFounded, Zenon
<1>2. \A x, y \in Nat : y < x => <<y, x>> \in R
      BY DEF OpToRel
<1> HIDE DEF R
<1>3. PICK x \in T : \A y \in T : ~(<<y, x>> \in R)
      BY <1>1
<1>4. \A y \in T : x <= y
  <2> TAKE y \in T
  <2>1. x \in Nat /\ y \in Nat /\ ~(y < x)
        BY <1>2, <1>3
  <2> QED BY <2>1
<1> QED BY <1>4

LEMMA GreatestBelow ==
    ASSUME NEW N \in Nat, NEW T \in SUBSET Nat, T # {}, \A t \in T : t <= N
    PROVE  \E x \in T : \A y \in T : y <= x
<1> DEFINE U == {k \in Nat : N - k \in T}
<1>1. U \in SUBSET Nat /\ U # {}
  <2>1. PICK t \in T : TRUE
        OBVIOUS
  <2>2. N - t \in Nat /\ N - (N - t) = t
        BY <2>1
  <2>3. N - t \in U
        BY <2>1, <2>2
  <2> QED BY <2>3
<1>2. PICK k \in U : \A j \in U : k <= j
  <2> HIDE DEF U
  <2> QED BY <1>1, LeastElement
<1>3. \A y \in T : N - y \in U
      OBVIOUS
<1>4. \A y \in T : y <= N - k
      BY <1>2, <1>3
<1> QED BY <1>2, <1>4

(***************************************************************************)
(* A new line in the middle of a range: the line that followed the last    *)
(* one before it now follows it.                                           *)
(***************************************************************************)
LEMMA NewInside ==
    ASSUME NEW g, IsRange(g), NEW L \in SUBSET Line, Tight(g, L),
           NEW a \in Line, Inside(a, g)
    PROVE  Tight(g, L \cup {a})
<1>1. CASE a \in L
  <2>1. L \cup {a} = L
        BY <1>1
  <2> QED BY <2>1
<1>2. CASE a \notin L
  <2>1. /\ a.l \in Nat /\ a.r \in Nat /\ a.l <= a.r
        /\ \A b \in L : b.l \in Nat /\ b.r \in Nat /\ b.l <= b.r /\ (a.r < b.l \/ b.r < a.l)
        BY <1>2, ChunkFilesAssumption
  <2> DEFINE T == {b.r : b \in {c \in L : Inside(c, g) /\ c.r < a.l}}
  <2>2. T \in SUBSET Nat /\ T # {} /\ \A t \in T : t <= a.l
    <3>1. PICK c \in L : c.l = g.left
          BY DEF Tight
    <3>2. c.r < a.l
          BY <2>1, <3>1 DEF Inside, IsRange
    <3>3. c.r \in T
          BY <2>1, <3>1, <3>2 DEF Inside, IsRange
    <3> QED BY <2>1, <3>3
  <2> HIDE DEF T
  <2>3. PICK t \in T : \A s \in T : s <= t
        BY <2>1, <2>2, GreatestBelow
  <2>4. PICK c \in L : Inside(c, g) /\ c.r < a.l /\ t = c.r
        BY DEF T
  <2>5. PICK b \in L : Follows(b, c, g)
        BY <2>1, <2>4 DEF Tight, Inside, IsRange
  <2>6. ~(b.r < a.l)
    <3> SUFFICES ASSUME b.r < a.l PROVE FALSE
        OBVIOUS
    <3>1. b.r \in T
          BY <2>5 DEF T, Follows
    <3>2. b.r <= c.r
          BY <2>3, <2>4, <3>1
    <3> QED BY <2>1, <2>5, <3>2 DEF Follows
  <2>7. Follows(b, a, g)
        BY <2>1, <2>4, <2>5, <2>6, ChunkFilesAssumption DEF Follows
  <2> QED BY <2>7 DEF Tight
<1> QED BY <1>1, <1>2

(* A range that is expanded to its left.                                   *)
LEMMA NewBefore ==
    ASSUME NEW g, IsRange(g), NEW L \in SUBSET Line, Tight(g, L), NEW a \in Line,
           a.r < g.left, g.left - a.r < kMaxGap,
           NEW r, IsRange(r), r.left = a.l, r.right = g.right,
           \A x \in L : Inside(x, r) => Inside(x, g)
    PROVE  Tight(r, L \cup {a})
<1>1. /\ a.l \in Nat /\ a.r \in Nat /\ a.l <= a.r
      /\ \A x \in L : x.l \in Nat /\ x.r \in Nat /\ x.l <= x.r
      BY ChunkFilesAssumption
<1>2. \A x \in Line : Inside(x, g) => Inside(x, r)
      BY <1>1, ChunkFilesAssumption DEF Inside, IsRange
<1>3. PICK f \in L : f.l = g.left
      BY DEF Tight
<1>4. Inside(f, g)
  <2>1. PICK c \in L : c.r = g.right
        BY DEF Tight
  <2> QED BY <1>1, <1>3, <2>1, LineOrRange DEF Inside, IsRange
<1>5. Follows(f, a, r)
      BY <1>1, <1>2, <1>3, <1>4 DEF Follows
<1>6. \A x \in L : Inside(x, r) /\ x.r # r.right => \E b \in L : Follows(b, x, r)
      BY <1>2 DEF Tight, Follows
<1>7. \E c \in L : c.r = r.right
      BY DEF Tight
<1> QED BY <1>5, <1>6, <1>7 DEF Tight

(* A range that is expanded to its right.                                  *)
LEMMA NewBehind ==
    ASSUME NEW g, IsRange(g), NEW L \in SUBSET Line, Tight(g, L), NEW a \in Line,
           g.right < a.l, a.l - g.right < kMaxGap,
           NEW r, IsRange(r), r.left = g.left, r.right = a.r,
           \A x \in L : Inside(x, r) => Inside(x, g)
    PROVE  Tight(r, L \cup {a})
<1>1. /\ a.l \in Nat /\ a.r \in Nat /\ a.l <= a.r
      /\ \A x \in L : x.l \in Nat /\ x.r \in Nat /\ x.l <= x.r
      BY ChunkFilesAssumption
<1>2. \A x \in Line : Inside(x, g) => Inside(x, r)
      BY <1>1, ChunkFilesAssumption DEF Inside, IsRange
<1>3. Inside(a, r)
      BY <1>1 DEF Inside, IsRange
<1>4. ASSUME NEW x \in L, Inside(x, r), x.r # r.right
      PROVE  \E b \in L \cup {a} : Follows(b, x, r)
  <2>1. CASE x.r = g.right
        BY <1>3, <2>1 DEF Follows
  <2>2. CASE x.r # g.right
        BY <1>2, <1>4, <2>2 DEF Tight, Follows
  <2> QED BY <2>1, <2>2
<1>5. \E c \in L : c.l = r.left
      BY DEF Tight
<1> QED BY <1>4, <1>5 DEF Tight

LEMMA AddKeepsGaps ==
    ASSUME ChunkInv, GapsBounded, NEW a \in Line, AddChunkFile(a)
    PROVE  GapsBounded'
<1> DEFINE L == has[file]
           M == L \cup {a}
<1>1. /\ file \in File /\ file' = file /\ has'[file] = M /\ L \in SUBSET Line
      /\ ExpandNearest(a) \/ NewRange(a)
      BY DEF AddChunkFile, ChunkInv, TypeOK
<1>2. \A g \in cur_file : IsRange(g) /\ Tight(g, L)
      BY <1>1, GapsAreTight DEF ChunkInv, TypeOK, IsRange
<1>3. \A x \in L : \E g \in cur_file : Inside(x, g)
      BY <1>1 DEF ChunkInv, LinesCovered
<1>4. \A x \in M : x.l \in Nat /\ x.r \in Nat /\ x.l <= x.r
      BY <1>1, ChunkFilesAssumption
<1> HIDE DEF L, M
<1>5. ASSUME NEW r, Inside(a, r), IsRange(r), NEW h \in cur_file, Apart(r, h)
      PROVE  Tight(h, M) /\ ~Inside(a, h) /\ \A x \in L : Inside(x, h) => ~Inside(x, r)
  <2>1. ~Inside(a, h)
        BY <1>2, <1>4, <1>5 DEF M, Inside, IsRange, Apart
  <2>2. \A x \in L : Inside(x, h) => ~Inside(x, r)
        BY <1>2, <1>4, <1>5 DEF M, Inside, IsRange, Apart
  <2>3. \A x \in M : Inside(x, h) => x \in L
        BY <2>1 DEF M
  <2> QED BY <1>2, <2>1, <2>2, <2>3 DEF Tight, M
<1>6. \A h \in cur_file' : Tight(h, M)
  <2>1. CASE ExpandNearest(a)
    <3>1. PICK g \in Nearest(a) : Dist(g, a) < kMaxGap /\ cur_file' = (cur_file \ {g}) \cup {Expand(g, a)}
          BY <2>1 DEF ExpandNearest
    <3> DEFINE r == Expand(g, a)
    <3>2. g \in cur_file /\ IsRange(g) /\ Tight(g, L)
          BY <1>2, <3>1 DEF Nearest
    <3>3. IsRange(r) /\ Inside(a, r)
          BY <3>2, ExpandIs
    <3>4. \A h \in cur_file : h # g => Apart(r, h)
          BY NearestStaysApart
    <3>5. Inside(a, g) \/ a.r < g.left \/ g.right < a.l
          BY <3>2, LineOrRange DEF ChunkInv, EndsAtLines
    <3>6. /\ Inside(a, g) => r = g
          /\ a.r < g.left => r.left = a.l /\ r.right = g.right /\ Dist(g, a) = g.left - a.r
          /\ g.right < a.l => r.left = g.left /\ r.right = a.r /\ Dist(g, a) = a.l - g.right
          BY <3>2, ExpandIs, DistIs
    <3> HIDE DEF r
    <3>7. \A h \in cur_file : h # g => Tight(h, M) /\ \A x \in L : Inside(x, h) => ~Inside(x, r)
          BY <1>5, <3>3, <3>4
    <3>8. \A x \in L : Inside(x, r) => Inside(x, g)
          BY <1>3, <3>7
    <3>9. Tight(r, M)
      <4>1. CASE Inside(a, g)
            BY <1>1, <3>2, <3>6, <4>1, NewInside DEF M
      <4>2. CASE a.r < g.left
            BY <1>1, <3>1, <3>2, <3>3, <3>6, <3>8, <4>2, NewBefore DEF M
      <4>3. CASE g.right < a.l
            BY <1>1, <3>1, <3>2, <3>3, <3>6, <3>8, <4>3, NewBehind DEF M
      <4> QED BY <3>5, <4>1, <4>2, <4>3
    <3> QED BY <3>1, <3>7, <3>9 DEF r
  <2>2. CASE NewRange(a)
    <3> DEFINE r == RangeOf(a)
    <3>1. IsRange(r) /\ Inside(a, r) /\ r.left = a.l /\ r.right = a.r
          BY ChunkFilesAssumption DEF IsRange, RangeOf, Inside
    <3>2. \A h \in cur_file : Apart(r, h)
          BY <2>2, FarIsApart DEF NewRange
    <3>3. cur_file' = cur_file \cup {r}
          BY <2>2 DEF NewRange
    <3> HIDE DEF r
    <3>4. \A h \in cur_file : Tight(h, M) /\ \A x \in L : Inside(x, h) => ~Inside(x, r)
          BY <1>5, <3>1, <3>2
    <3>5. \A x \in M : Inside(x, r) => x = a
          BY <1>3, <3>4 DEF M
    <3>6. Tight(r, M)
          BY <3>1, <3>5 DEF Tight, M
    <3> QED BY <3>3, <3>4, <3>6
  <2> QED BY <1>1, <2>1, <2>2
<1>7. \A h \in cur_file' :
        /\ \E x \in has'[file] : x.l = h.left
        /\ \E x \in has'[file] : x.r = h.right
        /\ \A x \in has'[file] : Inside(x, h) /\ x.r # h.right =>
              \E b \in has'[file] : Follows(b, x, h)
      BY <1>1, <1>6 DEF Tight
<1> QED BY <1>1, <1>7 DEF GapsBounded, Follows

LEMMA NextGaps == ChunkInv /\ GapsBounded /\ [Next]_vars => GapsBounded'
<1> SUFFICES ASSUME ChunkInv, GapsBounded, [Next]_vars PROVE GapsBounded'
    OBVIOUS
<1>1. ASSUME NEW a \in Line, AddChunkFile(a) PROVE GapsBounded'
      BY <1>1, AddKeepsGaps
<1>2. CASE FinishFile
      BY <1>2 DEF FinishFile, GapsBounded
<1>3. CASE UNCHANGED index_vars
      BY <1>3 DEF index_vars, GapsBounded
<1> QED BY <1>1, <1>2, <1>3 DEF Next, FinalizeFiles, FindMatch, Walk, Walked, ExitEarly, vars

-----------------------------------------------------------------------------
(***************************************************************************)
(* The chunk_files of finished files: finitely many, and those of one file *)
(* apart from each other.                                                  *)
(***************************************************************************)
IsEntry(e) ==
    /\ e.left \in Nat /\ e.right \in Nat /\ e.left <= e.right
    /\ e.file \in File /\ e.file < file

FilesInv ==
    /\ IsFiniteSet(cur_file) /\ IsFiniteSet(files)
    /\ \A e \in files : IsEntry(e)
    /\ \A d, e \in files : d.file = e.file => (d.left = e.left /\ d.right = e.right) \/ Apart(d, e)
    /\ pc # "index" => cur_file = {}

LEMMA NextFiles == ChunkInv /\ FilesInv /\ [Next]_vars => FilesInv'
<1> SUFFICES ASSUME ChunkInv, FilesInv, [Next]_vars PROVE FilesInv'
    OBVIOUS
<1>1. ASSUME NEW a \in Line, AddChunkFile(a) PROVE FilesInv'
  <2>1. IsFiniteSet(cur_file')
    <3>1. \A g : IsFiniteSet(cur_file \ {g})
          BY FS_RemoveElement DEF FilesInv
    <3>2. \A g : IsFiniteSet((cur_file \ {g}) \cup {Expand(g, a)})
          BY <3>1, FS_AddElement
    <3>3. IsFiniteSet(cur_file \cup {RangeOf(a)})
          BY FS_AddElement DEF FilesInv
    <3> QED BY <1>1, <3>2, <3>3 DEF AddChunkFile, ExpandNearest, NewRange
  <2>2. files' = files /\ file' = file /\ pc' = pc /\ pc = "index"
        BY <1>1 DEF AddChunkFile
  <2> QED BY <2>1, <2>2 DEF FilesInv, IsEntry
<1>2. CASE FinishFile
  <2> DEFINE new(g) == [left |-> g.left, right |-> g.right, file |-> file]
             N == {new(g) : g \in cur_file}
  <2>1. /\ files' = files \cup N /\ cur_file' = {} /\ file' = file + 1 /\ file \in File
        BY <1>2 DEF FinishFile
  <2>2. file \in Nat /\ \A e \in files : e.file < file /\ e.file \in File
        BY <2>1, ChunkFilesAssumption DEF FilesInv, IsEntry, File
  <2>3. IsFiniteSet(files')
    <3>1. [g \in cur_file |-> new(g)] \in Surjection(cur_file, N)
          BY DEF Surjection
    <3>2. IsFiniteSet(N)
          BY <3>1, FS_Surjection DEF FilesInv
    <3> HIDE DEF N
    <3> QED BY <2>1, <3>2, FS_Union DEF FilesInv
  <2>4. \A e \in files' : IsEntry(e)'
    <3>1. ASSUME NEW e \in files PROVE IsEntry(e)'
          BY <2>1, <2>2, ChunkFilesAssumption DEF FilesInv, IsEntry, File
    <3>2. ASSUME NEW e \in N PROVE IsEntry(e)'
          BY <2>1, <2>2, <3>2 DEF ChunkInv, TypeOK, IsEntry
    <3> QED BY <2>1, <3>1, <3>2
  <2>5. ASSUME NEW d \in files', NEW e \in files', d.file = e.file
        PROVE  (d.left = e.left /\ d.right = e.right) \/ Apart(d, e)
    <3>1. CASE d \in files /\ e \in files
          BY <2>5, <3>1 DEF FilesInv
    <3>2. CASE d \in N /\ e \in N
      <4>1. PICK g \in cur_file, h \in cur_file : d = new(g) /\ e = new(h)
            BY <3>2
      <4>2. g = h \/ Apart(g, h)
            BY DEF ChunkInv, RangesDisjoint, Apart
      <4> QED BY <4>1, <4>2 DEF Apart
    <3>3. \A c \in files, b \in N : c.file # b.file
          BY <2>2, ChunkFilesAssumption DEF File
    <3> QED BY <2>1, <2>5, <3>1, <3>2, <3>3
  <2>6. IsFiniteSet(cur_file')
        BY <2>1, FS_EmptySet
  <2> QED BY <2>1, <2>3, <2>4, <2>5, <2>6 DEF FilesInv
<1>3. CASE UNCHANGED index_vars /\ (pc' # "index" => pc # "index" \/ cur_file = {})
      BY <1>3 DEF index_vars, FilesInv, IsEntry
<1> QED BY <1>1, <1>2, <1>3 DEF Next, FinalizeFiles, FindMatch, Walk, Walked, ExitEarly, vars

(***************************************************************************)
(* finalize_files sorts: SortedRanges lists each range of a finite set     *)
(* once, and in order.                                                     *)
(***************************************************************************)
Below(S, g) == {h \in S : Less(h, g)}
Rank(S, g) == Cardinality(Below(S, g))

RangeSet == [left : Nat, right : Nat]

LEMMA LessIsOrder ==
    ASSUME NEW S \in SUBSET RangeSet
    PROVE  /\ \A g \in S : ~Less(g, g)
           /\ \A g, h \in S : g # h => Less(g, h) \/ Less(h, g)
           /\ \A f, g, h \in S : Less(f, g) /\ Less(g, h) => Less(f, h)
BY DEF Less, RangeSet

LEMMA RankIsIndex ==
    ASSUME NEW S \in SUBSET RangeSet, IsFiniteSet(S)
    PROVE  /\ \A g \in S : Rank(S, g) \in Nat /\ Rank(S, g) < Cardinality(S)
           /\ \A g, h \in S : Less(g, h) => Rank(S, g) < Rank(S, h)
           /\ \A n \in 1..Cardinality(S) : \E g \in S : Rank(S, g) = n - 1
<1> DEFINE N == Cardinality(S)
<1>0. N \in Nat
      BY FS_CardinalityType
<1>1. \A g \in S : Below(S, g) \in SUBSET S /\ IsFiniteSet(Below(S, g)) /\ Rank(S, g) \in Nat
      BY FS_Subset, FS_CardinalityType DEF Below, Rank
<1>2. ASSUME NEW g \in S, NEW T, IsFiniteSet(T), Below(S, g) \in SUBSET T, g \in T
      PROVE  Rank(S, g) < Cardinality(T)
  <2>1. g \notin Below(S, g)
        BY LessIsOrder DEF Below
  <2>2. Rank(S, g) <= Cardinality(T) /\ (Cardinality(T) = Rank(S, g) => T = Below(S, g))
        BY <1>2, FS_Subset DEF Rank
  <2>3. Cardinality(T) \in Nat
        BY <1>2, FS_CardinalityType
  <2> QED BY <1>1, <1>2, <2>1, <2>2, <2>3
<1>3. \A g \in S : Rank(S, g) < N
      BY <1>1, <1>2
<1>4. \A g, h \in S : Less(g, h) => Rank(S, g) < Rank(S, h)
  <2> TAKE g \in S, h \in S
  <2> HAVE Less(g, h)
  <2>1. g \in Below(S, h)
        BY DEF Below
  <2>2. Below(S, g) \in SUBSET Below(S, h)
        BY LessIsOrder DEF Below
  <2> QED BY <1>1, <1>2, <2>1, <2>2 DEF Rank
<1>5. \A n \in 1..N : \E g \in S : Rank(S, g) = n - 1
  <2> DEFINE T == 0..(N - 1)
             f == [g \in S |-> Rank(S, g)]
  <2>1. IsFiniteSet(T) /\ Cardinality(T) = N
        BY <1>0, FS_Interval
  <2>2. f \in Injection(S, T)
    <3>1. f \in [S -> T]
          BY <1>0, <1>1, <1>3
    <3>2. ASSUME NEW g \in S, NEW h \in S, g # h PROVE Rank(S, g) # Rank(S, h)
      <4>1. Rank(S, g) < Rank(S, h) \/ Rank(S, h) < Rank(S, g)
            BY <1>4, <3>2, LessIsOrder
      <4> QED BY <1>1, <4>1
    <3> QED BY <3>1, <3>2 DEF Injection, IsInjective
  <2>3. f \in Surjection(S, T)
    <3> HIDE DEF f, T
    <3> QED BY <2>1, <2>2, FS_Injection
  <2> TAKE n \in 1..N
  <2>4. n - 1 \in T
        BY <1>0
  <2>5. PICK g \in S : f[g] = n - 1
        BY <2>3, <2>4 DEF Surjection
  <2> QED BY <2>5
<1> QED BY <1>1, <1>3, <1>4, <1>5

LEMMA SortedRangesIs ==
    ASSUME NEW S \in SUBSET RangeSet, IsFiniteSet(S)
    PROVE  /\ Cardinality(S) \in Nat
           /\ SortedRanges(S) \in [1..Cardinality(S) -> S]
           /\ \A i, j \in 1..Cardinality(S) : i < j => Less(SortedRanges(S)[i], SortedRanges(S)[j])
           /\ \A g \in S : \E i \in 1..Cardinality(S) : SortedRanges(S)[i] = g
<1> DEFINE N == Cardinality(S)
           s == SortedRanges(S)
<1>0. N \in Nat
      BY FS_CardinalityType
<1>1. \A n \in 1..N : s[n] \in S /\ Rank(S, s[n]) = n - 1
  <2> TAKE n \in 1..N
  <2>1. \E g \in S : Cardinality({h \in S : Less(h, g)}) = n - 1
        BY RankIsIndex DEF Rank, Below
  <2>2. s[n] = CHOOSE g \in S : Cardinality({h \in S : Less(h, g)}) = n - 1
        BY DEF SortedRanges
  <2> QED BY <2>1, <2>2 DEF Rank, Below
<1>2. s \in [1..N -> S]
      BY <1>1 DEF SortedRanges
<1> HIDE DEF s, N
<1>3. \A g, h \in S : Rank(S, g) < Rank(S, h) => Less(g, h)
  <2> TAKE g \in S, h \in S
  <2> HAVE Rank(S, g) < Rank(S, h)
  <2>1. Rank(S, g) \in Nat /\ Rank(S, h) \in Nat
        BY RankIsIndex
  <2>2. g # h /\ ~(Rank(S, h) < Rank(S, g))
        BY <2>1
  <2> QED BY <2>2, RankIsIndex, LessIsOrder
<1>4. \A i, j \in 1..N : i < j => Less(s[i], s[j])
  <2> TAKE i \in 1..N, j \in 1..N
  <2> HAVE i < j
  <2>1. Rank(S, s[i]) < Rank(S, s[j])
        BY <1>0, <1>1
  <2> QED BY <1>1, <1>3, <2>1
<1>5. \A g \in S : \E i \in 1..N : s[i] = g
  <2> TAKE g \in S
  <2> DEFINE i == Rank(S, g) + 1
  <2>1. i \in 1..N /\ i - 1 = Rank(S, g)
        BY <1>0, RankIsIndex DEF N
  <2> HIDE DEF i
  <2>2. s[i] \in S /\ Rank(S, s[i]) = Rank(S, g)
        BY <1>1, <2>1
  <2>3. s[i] = g
    <3>1. Rank(S, g) \in Nat
          BY RankIsIndex
    <3>2. ~(Rank(S, g) < Rank(S, s[i])) /\ ~(Rank(S, s[i]) < Rank(S, g))
          BY <2>2, <3>1
    <3> QED BY <2>2, <3>2, RankIsIndex, LessIsOrder
  <2> QED BY <2>1, <2>3
<1> QED BY <1>0, <1>2, <1>4, <1>5 DEF s, N

-----------------------------------------------------------------------------
(***************************************************************************)
(* The sorted chunk_files, and what they have to do with files.            *)
(***************************************************************************)
ChunkFileSet == [left : Nat, right : Nat, files : SUBSET File]
Index == 1..Len(cf)

SameRange(g, h) == g.left = h.left /\ g.right = h.right

SortedInv ==
    /\ cf \in Seq(ChunkFileSet)
    /\ \A i, j \in Index : i < j => cf[i].left <= cf[j].left /\ ~SameRange(cf[i], cf[j])
    /\ \A e \in files : \E i \in Index : SameRange(cf[i], e) /\ e.file \in cf[i].files
    /\ \A i \in Index : \A f \in cf[i].files : \E e \in files : SameRange(cf[i], e) /\ e.file = f

LEMMA FinalizeSorts ==
    ASSUME FilesInv, FinalizeFiles
    PROVE  SortedInv'
<1> DEFINE range(e) == [left |-> e.left, right |-> e.right]
           S == {range(e) : e \in files}
           s == SortedRanges(S)
           N == Cardinality(S)
           of(g) == {e.file : e \in {d \in files : d.left = g.left /\ d.right = g.right}}
<1>1. cf' = [n \in DOMAIN s |-> [left |-> s[n].left, right |-> s[n].right, files |-> of(s[n])]]
      BY DEF FinalizeFiles
<1>2. S \in SUBSET RangeSet
      BY DEF FilesInv, IsEntry, RangeSet
<1>3. IsFiniteSet(S)
  <2>1. [e \in files |-> range(e)] \in Surjection(files, S)
        BY DEF Surjection
  <2> QED BY <2>1, FS_Surjection DEF FilesInv
<1>4. \A e \in files : range(e) \in S
      OBVIOUS
<1>5. \A g \in S : g \in RangeSet /\ of(g) \in SUBSET File
      BY <1>2 DEF FilesInv, IsEntry
<1>6. \A g \in S : \A f \in of(g) : \E e \in files : SameRange(g, e) /\ e.file = f
      BY DEF SameRange
<1>7. \A e \in files : e.file \in of(range(e))
      OBVIOUS
<1> HIDE DEF S
<1>8. /\ N \in Nat /\ s \in [1..N -> S]
      /\ \A i, j \in 1..N : i < j => Less(s[i], s[j])
      /\ \A g \in S : \E i \in 1..N : s[i] = g
      BY <1>2, <1>3, SortedRangesIs
<1> HIDE DEF s, N, of
<1>9. /\ DOMAIN cf' = 1..N
      /\ \A n \in 1..N : /\ cf'[n] \in ChunkFileSet
                         /\ cf'[n].left = s[n].left /\ cf'[n].right = s[n].right
                         /\ cf'[n].files = of(s[n])
      BY <1>1, <1>5, <1>8 DEF ChunkFileSet, RangeSet
<1>10. cf' \in Seq(ChunkFileSet) /\ Index' = 1..N
  <2>1. cf' \in [1..N -> ChunkFileSet]
        BY <1>1, <1>8, <1>9
  <2> QED BY <1>8, <2>1 DEF Index
<1>11. \A i, j \in 1..N : i < j => cf'[i].left <= cf'[j].left /\ ~SameRange(cf'[i], cf'[j])
  <2> TAKE i \in 1..N, j \in 1..N
  <2> HAVE i < j
  <2>1. Less(s[i], s[j]) /\ s[i] \in RangeSet /\ s[j] \in RangeSet
        BY <1>5, <1>8
  <2> QED BY <1>9, <2>1 DEF Less, RangeSet, SameRange
<1>12. \A e \in files : \E i \in 1..N : SameRange(cf'[i], e) /\ e.file \in cf'[i].files
  <2> TAKE e \in files
  <2>1. PICK i \in 1..N : s[i] = range(e)
        BY <1>4, <1>8
  <2>2. SameRange(cf'[i], e)
        BY <1>9, <2>1 DEF SameRange
  <2> QED BY <1>7, <1>9, <2>1, <2>2
<1>13. \A i \in 1..N : \A f \in cf'[i].files : \E e \in files : SameRange(cf'[i], e) /\ e.file = f
  <2> TAKE i \in 1..N
  <2> TAKE f \in cf'[i].files
  <2>1. PICK e \in files : SameRange(s[i], e) /\ e.file = f
        BY <1>6, <1>8, <1>9
  <2> QED BY <1>9, <2>1 DEF SameRange
<1>14. files' = files
       BY DEF FinalizeFiles, index_vars
<1>15. \A e \in files' : \E i \in 1..N : SameRange(cf'[i], e) /\ e.file \in cf'[i].files
       BY <1>12, <1>14
<1>16. \A i \in 1..N : \A f \in cf'[i].files : \E e \in files' : SameRange(cf'[i], e) /\ e.file = f
       BY <1>13, <1>14
<1> QED BY <1>10, <1>11, <1>15, <1>16 DEF SortedInv, SameRange

-----------------------------------------------------------------------------
(***************************************************************************)
(* The tree of build_tree.  right_limit is the largest right end below a   *)
(* node; it is enough for the walk that it is no smaller.                  *)
(***************************************************************************)
Node == [lo : 0..Len(cf), hi : 0..Len(cf)]
Entries(n) == {k \in Index : n.lo < k /\ k <= n.hi}

IsMax(m, n) ==
    /\ m \in Int /\ m >= -1
    /\ \A k \in Entries(n) : cf[k].right <= m
    /\ m = -1 \/ \E k \in Entries(n) : cf[k].right = m

LEMMA SortedTypes ==
    ASSUME cf \in Seq(ChunkFileSet)
    PROVE  /\ Len(cf) \in Nat
           /\ \A k \in Index : cf[k] \in ChunkFileSet /\ cf[k].left \in Nat /\ cf[k].right \in Nat
<1>1. \A k \in Index : cf[k] \in ChunkFileSet
      BY DEF Index
<1>2. \A c \in ChunkFileSet : c.left \in Nat /\ c.right \in Nat
      BY DEF ChunkFileSet
<1> QED BY <1>1, <1>2

LEMMA NodeSplits ==
    ASSUME Len(cf) \in Nat, NEW n \in Node, IsNode(n)
    PROVE  /\ LeftChild(n) \in Node /\ RightChild(n) \in Node
           /\ Mid(n) \in Nat /\ n.lo <= Mid(n) /\ Mid(n) < n.hi
           /\ Mid(n) + 1 \in Entries(n)
           /\ LeftChild(n).lo = n.lo /\ LeftChild(n).hi = Mid(n)
           /\ RightChild(n).lo = Mid(n) + 1 /\ RightChild(n).hi = n.hi
           /\ \A k \in Entries(n) : k \in Entries(LeftChild(n)) \/ k = Mid(n) + 1 \/ k \in Entries(RightChild(n))
           /\ \A k \in Entries(LeftChild(n)) : k \in Entries(n) /\ k < Mid(n) + 1
           /\ \A k \in Entries(RightChild(n)) : k \in Entries(n) /\ k > Mid(n) + 1
<1>1. n.lo \in 0..Len(cf) /\ n.hi \in 0..Len(cf) /\ n.lo < n.hi
      BY DEF Node, IsNode
<1>2. Mid(n) \in Nat /\ n.lo <= Mid(n) /\ Mid(n) < n.hi
      BY <1>1 DEF Mid
<1>3. /\ LeftChild(n).lo = n.lo /\ LeftChild(n).hi = Mid(n)
      /\ RightChild(n).lo = Mid(n) + 1 /\ RightChild(n).hi = n.hi
      BY DEF LeftChild, RightChild
<1>4. LeftChild(n) \in Node /\ RightChild(n) \in Node
      BY <1>1, <1>2 DEF LeftChild, RightChild, Node
<1> QED BY <1>1, <1>2, <1>3, <1>4 DEF Entries, Index

LEMMA MaxOfParts ==
    ASSUME cf \in Seq(ChunkFileSet), NEW n \in Node, IsNode(n),
           NEW x, NEW y, IsMax(x, LeftChild(n)), IsMax(y, RightChild(n))
    PROVE  IsMax(Larger(Root(n).right, Larger(x, y)), n)
<1> DEFINE z == Root(n).right
           m == Larger(z, Larger(x, y))
<1>1. Len(cf) \in Nat /\ \A k \in Index : cf[k].right \in Nat
      BY SortedTypes
<1>2. Mid(n) + 1 \in Entries(n) /\ z = cf[Mid(n) + 1].right /\ z \in Nat
      BY <1>1, NodeSplits DEF Root, Entries
<1> HIDE DEF z
<1>3. /\ m \in Int /\ m >= -1 /\ z <= m /\ x <= m /\ y <= m /\ m \in {x, y, z}
      BY <1>2 DEF Larger, IsMax
<1> HIDE DEF m
<1>4. \A k \in Entries(n) : cf[k].right <= m
      BY <1>1, <1>2, <1>3, NodeSplits DEF IsMax, Entries
<1>5. m = -1 \/ \E k \in Entries(n) : cf[k].right = m
      BY <1>1, <1>2, <1>3, NodeSplits DEF IsMax
<1> QED BY <1>3, <1>4, <1>5 DEF IsMax, m, z

LEMMA MaxOfNone ==
    ASSUME Len(cf) \in Nat, NEW n \in Node, ~IsNode(n)
    PROVE  IsMax(-1, n)
BY DEF IsMax, Entries, Index, Node, IsNode

LEMMA MaxIsUnique ==
    ASSUME cf \in Seq(ChunkFileSet), NEW n \in Node, NEW x, NEW y, IsMax(x, n), IsMax(y, n)
    PROVE  x = y
<1>1. \A k \in Entries(n) : cf[k].right \in Nat
      BY SortedTypes DEF Entries
<1> QED BY <1>1 DEF IsMax

(* A property of nodes that passes from the children to their parent.      *)
LEMMA MaxExists ==
    ASSUME cf \in Seq(ChunkFileSet)
    PROVE  \A n \in Node : \E m \in Int : IsMax(m, n)
<1> DEFINE Bad == {n \in Node : ~\E m \in Int : IsMax(m, n)}
           T == {n.hi - n.lo : n \in Bad}
<1>1. Len(cf) \in Nat
      OBVIOUS
<1>2. \A n \in Bad : IsNode(n) /\ n.lo \in Nat /\ n.hi \in Nat
      BY <1>1, MaxOfNone DEF Node, IsMax
<1>3. T \in SUBSET Nat
      BY <1>2 DEF IsNode
<1>4. T = {}
  <2> SUFFICES ASSUME T # {} PROVE FALSE
      OBVIOUS
  <2>1. PICK t \in T : \A u \in T : t <= u
    <3> HIDE DEF T
    <3> QED BY <1>3, LeastElement
  <2>2. PICK n \in Bad : t = n.hi - n.lo
        OBVIOUS
  <2>3. \A c \in Node : c.hi - c.lo < t => \E m \in Int : IsMax(m, c)
    <3> TAKE c \in Node
    <3> HAVE c.hi - c.lo < t
    <3>1. t \in Nat /\ c.hi - c.lo \in Int
          BY <1>1, <1>3 DEF Node
    <3>2. c \in Bad => c.hi - c.lo \in T
          OBVIOUS
    <3>3. c \notin Bad
          BY <2>1, <3>1, <3>2
    <3> QED BY <3>3
  <2>4. n \in Node /\ IsNode(n) /\ n.lo \in Nat /\ n.hi \in Nat
        BY <1>2
  <2> HIDE DEF Bad, T
  <2>5. PICK x \in Int : IsMax(x, LeftChild(n))
        BY <1>1, <2>2, <2>3, <2>4, NodeSplits
  <2>6. PICK y \in Int : IsMax(y, RightChild(n))
        BY <1>1, <2>2, <2>3, <2>4, NodeSplits
  <2>7. IsMax(Larger(Root(n).right, Larger(x, y)), n)
        BY <2>4, <2>5, <2>6, MaxOfParts
  <2> QED BY <2>7 DEF Bad, IsMax
<1> QED BY <1>4

LEMMA LimitsUnfold ==
    ASSUME cf \in Seq(ChunkFileSet)
    PROVE  \A n \in Node : RightLimits[n] =
              IF IsNode(n)
              THEN Larger(Root(n).right, Larger(RightLimits[LeftChild(n)], RightLimits[RightChild(n)]))
              ELSE -1
<1> DEFINE body(f, n) == IF IsNode(n)
                         THEN Larger(Root(n).right, Larger(f[LeftChild(n)], f[RightChild(n)]))
                         ELSE -1
           M == [n \in Node |-> CHOOSE m \in Int : IsMax(m, n)]
<1>1. \A n \in Node : M[n] \in Int /\ IsMax(M[n], n)
      BY MaxExists
<1>0. M = [n \in Node |-> M[n]]
      OBVIOUS
<1> HIDE DEF M
<1>2. \A n \in Node : M[n] = body(M, n)
  <2> TAKE n \in Node
  <2>1. Len(cf) \in Nat
        OBVIOUS
  <2>2. CASE IsNode(n)
    <3>1. IsMax(body(M, n), n)
          BY <1>1, <2>1, <2>2, NodeSplits, MaxOfParts
    <3> HIDE DEF body
    <3> QED BY <1>1, <3>1, MaxIsUnique
  <2>3. CASE ~IsNode(n)
    <3>1. IsMax(body(M, n), n)
          BY <2>1, <2>3, MaxOfNone
    <3> HIDE DEF body
    <3> QED BY <1>1, <3>1, MaxIsUnique
  <2> QED BY <2>2, <2>3
<1>3. M = [n \in Node |-> body(M, n)]
      BY <1>0, <1>2
<1>4. RightLimits = CHOOSE f : f = [n \in Node |-> body(f, n)]
      BY DEF RightLimits, Node
<1> HIDE DEF body
<1>5. RightLimits = [n \in Node |-> body(RightLimits, n)]
      BY <1>3, <1>4
<1>6. \A n \in Node : RightLimits[n] = body(RightLimits, n)
      BY <1>5
<1> QED BY <1>6 DEF body

LEMMA LimitIsMax ==
    ASSUME cf \in Seq(ChunkFileSet)
    PROVE  \A n \in Node : IsMax(RightLimit(n), n)
<1> DEFINE Bad == {n \in Node : ~IsMax(RightLimits[n], n)}
           T == {n.hi - n.lo : n \in Bad}
<1>1. Len(cf) \in Nat
      OBVIOUS
<1>2. \A n \in Bad : IsNode(n) /\ n.lo \in Nat /\ n.hi \in Nat
      BY <1>1, MaxOfNone, LimitsUnfold DEF Node
<1>3. T \in SUBSET Nat
      BY <1>2 DEF IsNode
<1>4. T = {}
  <2> SUFFICES ASSUME T # {} PROVE FALSE
      OBVIOUS
  <2>1. PICK t \in T : \A u \in T : t <= u
    <3> HIDE DEF T
    <3> QED BY <1>3, LeastElement
  <2>2. PICK n \in Bad : t = n.hi - n.lo
        OBVIOUS
  <2>3. \A c \in Node : c.hi - c.lo < t => IsMax(RightLimits[c], c)
    <3> TAKE c \in Node
    <3> HAVE c.hi - c.lo < t
    <3>1. t \in Nat /\ c.hi - c.lo \in Int
          BY <1>1, <1>3 DEF Node
    <3>2. c \in Bad => c.hi - c.lo \in T
          OBVIOUS
    <3>3. c \notin Bad
          BY <2>1, <3>1, <3>2
    <3> QED BY <3>3
  <2>4. n \in Node /\ IsNode(n) /\ n.lo \in Nat /\ n.hi \in Nat
        BY <1>2
  <2> HIDE DEF Bad, T
  <2>5. IsMax(RightLimits[LeftChild(n)], LeftChild(n)) /\ IsMax(RightLimits[RightChild(n)], RightChild(n))
        BY <1>1, <2>2, <2>3, <2>4, NodeSplits
  <2>6. IsMax(RightLimits[n], n)
        BY <2>4, <2>5, MaxOfParts, LimitsUnfold
  <2> QED BY <2>6 DEF Bad
<1> QED BY <1>4 DEF RightLimit

-----------------------------------------------------------------------------
(***************************************************************************)
(* The walk of find_match.  The nodes on its stack have no entry in common *)
(* and lie from right to left.  A chunk_file that is no longer below any   *)
(* of them was visited or can have no match, so that tried counts exactly  *)
(* the matches outside the stack, of which a file has at most one.         *)
(***************************************************************************)
Above(s, b) == \A i \in 1..Len(s) : b <= s[i].lo

IsStack(s) ==
    /\ s \in Seq(Node)
    /\ \A i \in 1..Len(s) : IsNode(s[i])
    /\ \A i, j \in 1..Len(s) : i < j => s[j].hi <= s[i].lo

Pending(s) == {k \in Index : \E i \in 1..Len(s) : k \in Entries(s[i])}

Hit(k, f) == f \in cf[k].files \cap Accepted /\ cf[k].left <= loff /\ loff <= cf[k].right

Counted(K) == \A f \in File : tried[f] = IF \E k \in K : Hit(k, f) THEN 1 ELSE 0

WalkInv ==
    /\ pc # "index" => SortedInv
    /\ pc \in {"walk", "found"} => loff \in Nat /\ tried \in [File -> Nat]
    /\ pc = "walk" => IsStack(stack) /\ Counted(Index \ Pending(stack))
    /\ pc = "found" /\ ~cut => Counted(Index)

LEMMA OneHit ==
    ASSUME FilesInv, SortedInv, loff \in Nat, NEW f, NEW i \in Index, NEW j \in Index, Hit(i, f), Hit(j, f)
    PROVE  i = j
<1> SUFFICES ASSUME i # j PROVE FALSE
    OBVIOUS
<1>1. PICK d \in files : SameRange(cf[i], d) /\ d.file = f
      BY DEF SortedInv, Hit
<1>2. PICK e \in files : SameRange(cf[j], e) /\ e.file = f
      BY DEF SortedInv, Hit
<1>3. /\ d.left \in Nat /\ d.right \in Nat /\ e.left \in Nat /\ e.right \in Nat
      /\ (d.left = e.left /\ d.right = e.right) \/ Apart(d, e)
      BY <1>1, <1>2 DEF FilesInv, IsEntry
<1>4. d.left <= loff /\ loff <= d.right /\ e.left <= loff /\ loff <= e.right
      BY <1>1, <1>2 DEF Hit, SameRange
<1>5. SameRange(cf[i], cf[j]) /\ SameRange(cf[j], cf[i])
      BY <1>1, <1>2, <1>3, <1>4 DEF Apart, SameRange
<1>6. i < j \/ j < i
      BY DEF SortedInv, Index
<1> QED BY <1>5, <1>6 DEF SortedInv

LEMMA PushIs ==
    ASSUME Len(cf) \in Nat, NEW s, IsStack(s), NEW c \in Node, c.lo <= c.hi, Above(s, c.hi)
    PROVE  /\ IsStack(Push(s, c)) /\ Above(Push(s, c), c.lo)
           /\ Pending(Push(s, c)) = Pending(s) \cup Entries(c)
<1>1. c.lo \in Nat /\ c.hi \in Nat /\ \A d \in Node : d.lo \in Nat /\ d.hi \in Nat
      BY DEF Node
<1>2. s \in Seq(Node) /\ Len(s) \in Nat /\ \A i \in 1..Len(s) : s[i] \in Node /\ s[i].lo \in Nat
      BY <1>1 DEF IsStack
<1>3. CASE IsNode(c)
  <2> DEFINE t == Append(s, c)
  <2>1. /\ t \in Seq(Node) /\ Len(t) = Len(s) + 1 /\ t[Len(s) + 1] = c
        /\ \A i \in 1..Len(s) : t[i] = s[i]
        /\ Push(s, c) = t
        BY <1>2, <1>3 DEF Push
  <2> HIDE DEF t
  <2>2. \A i \in 1..Len(t) : (i \in 1..Len(s) /\ t[i] = s[i]) \/ (i = Len(s) + 1 /\ t[i] = c)
        BY <1>2, <2>1
  <2>3. \A i \in 1..Len(t) : IsNode(t[i])
        BY <1>3, <2>2 DEF IsStack
  <2>4. ASSUME NEW i \in 1..Len(t), NEW j \in 1..Len(t), i < j PROVE t[j].hi <= t[i].lo
    <3>1. i \in 1..Len(s) /\ t[i] = s[i]
          BY <1>2, <2>1, <2>4
    <3>2. CASE j \in 1..Len(s) /\ t[j] = s[j]
          BY <2>4, <3>1, <3>2 DEF IsStack
    <3>3. CASE j = Len(s) + 1 /\ t[j] = c
          BY <3>1, <3>3 DEF Above
    <3> QED BY <2>2, <3>2, <3>3
  <2>5. Above(t, c.lo)
    <3> SUFFICES ASSUME NEW i \in 1..Len(t) PROVE c.lo <= t[i].lo
        BY DEF Above
    <3>1. CASE i \in 1..Len(s) /\ t[i] = s[i]
      <4>1. c.hi <= s[i].lo /\ s[i].lo \in Nat
            BY <1>2, <3>1 DEF Above
      <4> QED BY <1>1, <3>1, <4>1
    <3>2. CASE t[i] = c
          BY <1>1, <3>2
    <3> QED BY <2>2, <3>1, <3>2
  <2>6. Pending(t) = Pending(s) \cup Entries(c)
    <3>1. \A k : (\E i \in 1..Len(t) : k \in Entries(t[i]))
                   <=> (\E i \in 1..Len(s) : k \in Entries(s[i])) \/ k \in Entries(c)
      <4> TAKE k
      <4>1. 1..Len(s) \subseteq 1..Len(t) /\ Len(s) + 1 \in 1..Len(t)
            BY <1>2, <2>1
      <4> QED BY <2>1, <2>2, <4>1
    <3> QED BY <3>1 DEF Pending, Entries
  <2> QED BY <2>1, <2>3, <2>4, <2>5, <2>6 DEF IsStack
<1>4. CASE ~IsNode(c)
  <2>1. Push(s, c) = s
        BY <1>4 DEF Push
  <2>2. c.lo = c.hi
        BY <1>1, <1>4 DEF IsNode
  <2>3. Entries(c) = {}
        BY <1>1, <2>2 DEF Entries, Index
  <2> QED BY <2>1, <2>2, <2>3
<1> QED BY <1>3, <1>4

LEMMA PopIs ==
    ASSUME Len(cf) \in Nat, IsStack(stack), stack # <<>>
    PROVE  LET n == stack[Len(stack)]
               rest == SubSeq(stack, 1, Len(stack) - 1)
           IN  /\ n \in Node /\ IsNode(n)
               /\ IsStack(rest) /\ Above(rest, n.hi)
               /\ Pending(stack) = Pending(rest) \cup Entries(n)
<1> DEFINE N == Len(stack)
           n == stack[N]
           rest == SubSeq(stack, 1, N - 1)
<1>1. stack \in Seq(Node) /\ N \in Nat \ {0}
      BY DEF IsStack
<1>2. n \in Node /\ IsNode(n)
      BY <1>1 DEF IsStack
<1>3. rest \in Seq(Node) /\ Len(rest) = N - 1 /\ \A i \in 1..(N - 1) : rest[i] = stack[i]
  <2>1. \A i \in 1..(N - 1) : stack[i] \in Node
        BY <1>1
  <2>2. rest = [i \in 1..(N - 1) |-> stack[i]]
        BY <1>1
  <2>3. N - 1 \in Nat
        BY <1>1
  <2> HIDE DEF rest, N
  <2> QED BY <2>1, <2>2, <2>3
<1> HIDE DEF rest, n
<1>4. \A i \in 1..N : i \in 1..(N - 1) \/ i = N
      BY <1>1
<1>5. 1..(N - 1) \subseteq 1..N /\ N \in 1..N /\ \A i \in 1..(N - 1) : i < N
      BY <1>1
<1>6. IsStack(rest)
      BY <1>3, <1>5 DEF IsStack
<1>7. Above(rest, n.hi)
      BY <1>3, <1>5 DEF IsStack, Above, n
<1>8. Pending(stack) = Pending(rest) \cup Entries(n)
  <2>1. \A k : (\E i \in 1..N : k \in Entries(stack[i]))
                 <=> (\E i \in 1..(N - 1) : k \in Entries(rest[i])) \/ k \in Entries(n)
        BY <1>3, <1>4, <1>5 DEF n
  <2> QED BY <1>3, <2>1 DEF Pending, Entries
<1> QED BY <1>2, <1>6, <1>7, <1>8 DEF n, rest

LEMMA AboveLess ==
    ASSUME Len(cf) \in Nat, NEW s, IsStack(s), NEW b \in Nat, NEW c \in Nat, Above(s, b), c <= b
    PROVE  Above(s, c)
<1>1. \A d \in Node : d.lo \in Nat
      BY DEF Node
<1>2. \A i \in 1..Len(s) : s[i].lo \in Nat /\ b <= s[i].lo
      BY <1>1 DEF IsStack, Above
<1> QED BY <1>2 DEF Above

(* What visiting one node does to the stack.                               *)
LEMMA StackStep ==
    ASSUME SortedInv, loff \in Nat, IsStack(stack), Walk,
           NEW n, n = stack[Len(stack)]
    PROVE  /\ IsStack(stack')
           /\ Pending(stack') \subseteq Pending(stack)
           /\ Mid(n) + 1 \in Pending(stack)
           /\ \A k \in Pending(stack) \ Pending(stack') :
                 (loff > RightLimit(n) \/ k # Mid(n) + 1) => \A f : ~Hit(k, f)
           /\ loff <= RightLimit(n) => Mid(n) + 1 \notin Pending(stack')
<1> DEFINE rest == SubSeq(stack, 1, Len(stack) - 1)
           beyond == loff > RightLimit(n)
           inRight == loff >= Root(n).left
           right == IF inRight THEN Push(rest, RightChild(n)) ELSE rest
<1>1. /\ Len(cf) \in Nat /\ cf \in Seq(ChunkFileSet)
      /\ \A k \in Index : cf[k].left \in Nat /\ cf[k].right \in Nat
      BY SortedTypes DEF SortedInv
<1>2. /\ n \in Node /\ IsNode(n) /\ IsStack(rest) /\ Above(rest, n.hi)
      /\ Pending(stack) = Pending(rest) \cup Entries(n)
      BY <1>1, PopIs DEF Walk
<1>3. stack' = IF beyond THEN rest ELSE Push(right, LeftChild(n))
      BY DEF Walk
<1> HIDE DEF rest
<1>4. n.lo \in Nat /\ n.hi \in Nat
      BY <1>1, <1>2 DEF Node
<1>5. \A k \in Pending(rest) : n.hi < k
  <2> TAKE k \in Pending(rest)
  <2>1. PICK i \in 1..Len(rest) : k \in Entries(rest[i])
        BY DEF Pending
  <2>2. n.hi <= rest[i].lo /\ rest[i].lo < k
        BY <1>2, <2>1 DEF Above, Entries
  <2>3. rest[i] \in Node /\ k \in Nat
        BY <1>1, <1>2, <2>1 DEF IsStack, Entries, Index
  <2>4. rest[i].lo \in Nat
        BY <1>1, <2>3 DEF Node
  <2> QED BY <1>4, <2>2, <2>3, <2>4
<1>6. /\ LeftChild(n) \in Node /\ RightChild(n) \in Node
      /\ Mid(n) \in Nat /\ n.lo <= Mid(n) /\ Mid(n) < n.hi /\ Mid(n) + 1 \in Entries(n)
      /\ LeftChild(n).lo = n.lo /\ LeftChild(n).hi = Mid(n)
      /\ RightChild(n).lo = Mid(n) + 1 /\ RightChild(n).hi = n.hi
      /\ \A k \in Entries(n) : k \in Entries(LeftChild(n)) \/ k = Mid(n) + 1 \/ k \in Entries(RightChild(n))
      /\ \A k \in Entries(LeftChild(n)) : k \in Entries(n) /\ k < Mid(n) + 1
      /\ \A k \in Entries(RightChild(n)) : k \in Entries(n) /\ k > Mid(n) + 1
      BY <1>1, <1>2, NodeSplits
<1>7. \A k \in Entries(n) : k \in Index /\ k \in Nat /\ k <= n.hi
      BY <1>1 DEF Entries, Index
<1>8. CASE beyond
  <2>1. stack' = rest
        BY <1>3, <1>8
  <2>2. ASSUME NEW k \in Entries(n), NEW f, Hit(k, f) PROVE FALSE
    <3>1. IsMax(RightLimit(n), n)
          BY <1>1, <1>2, LimitIsMax
    <3> QED BY <1>1, <1>7, <1>8, <2>2, <3>1 DEF IsMax, Hit
  <2>3. RightLimit(n) \in Int
        BY <1>1, <1>2, LimitIsMax DEF IsMax
  <2> QED BY <1>2, <1>6, <1>8, <2>1, <2>2, <2>3
<1>9. CASE ~beyond
  <2>1. /\ IsStack(right) /\ Above(right, Mid(n))
        /\ Pending(right) = IF inRight THEN Pending(rest) \cup Entries(RightChild(n)) ELSE Pending(rest)
    <3>1. CASE inRight
      <4>1. IsStack(Push(rest, RightChild(n))) /\ Above(Push(rest, RightChild(n)), Mid(n) + 1)
            /\ Pending(Push(rest, RightChild(n))) = Pending(rest) \cup Entries(RightChild(n))
            BY <1>1, <1>2, <1>4, <1>6, PushIs
      <4>2. Above(Push(rest, RightChild(n)), Mid(n))
            BY <1>1, <1>6, <4>1, AboveLess
      <4> QED BY <3>1, <4>1, <4>2
    <3>2. CASE ~inRight
      <4>1. Above(rest, Mid(n))
            BY <1>1, <1>2, <1>4, <1>6, AboveLess
      <4> QED BY <1>2, <3>2, <4>1
    <3> QED BY <3>1, <3>2
  <2> HIDE DEF right
  <2>2. IsStack(stack') /\ Pending(stack') = Pending(right) \cup Entries(LeftChild(n))
        BY <1>1, <1>3, <1>4, <1>6, <1>9, <2>1, PushIs
  <2>3. Pending(stack') \subseteq Pending(stack)
        BY <1>2, <1>6, <2>1, <2>2
  <2>4. Mid(n) + 1 \notin Pending(stack')
        BY <1>4, <1>5, <1>6, <2>1, <2>2
  <2>5. ASSUME NEW k \in Pending(stack) \ Pending(stack'), k # Mid(n) + 1, NEW f, Hit(k, f)
        PROVE  FALSE
    <3>1. k \in Entries(RightChild(n)) /\ ~inRight
          BY <1>2, <1>6, <2>1, <2>2, <2>5
    <3>2. Mid(n) + 1 \in Index /\ k \in Index /\ Mid(n) + 1 < k
          BY <1>6, <1>7, <3>1
    <3>3. Root(n).left <= cf[k].left
          BY <3>2 DEF SortedInv, Root
    <3>4. Root(n).left \in Nat /\ cf[k].left \in Nat
          BY <1>1, <3>2 DEF Root
    <3> QED BY <2>5, <3>1, <3>3, <3>4 DEF Hit
  <2> QED BY <1>2, <1>6, <1>9, <2>2, <2>3, <2>4, <2>5
<1> QED BY <1>8, <1>9

LEMMA WalkStep ==
    ASSUME FilesInv, WalkInv, Walk
    PROVE  WalkInv'
<1> DEFINE n == stack[Len(stack)]
           r == Mid(n) + 1
           K == Index \ Pending(stack)
           L == Index \ Pending(stack')
           visit == loff <= RightLimit(n)
<1>1. /\ SortedInv /\ loff \in Nat /\ tried \in [File -> Nat] /\ IsStack(stack) /\ Counted(K)
      /\ pc = "walk" /\ pc' = "walk" /\ UNCHANGED <<index_vars, cf, loff, cut>>
      BY DEF WalkInv, Walk
<1>2. Len(cf) \in Nat /\ n \in Node /\ Root(n) = cf[r]
      BY <1>1, SortedTypes, PopIs DEF SortedInv, Walk, Root
<1>3. RightLimit(n) \in Int
      BY <1>1, <1>2, LimitIsMax DEF SortedInv, IsMax
<1>4. tried' = [f \in File |->
                  IF visit /\ r \in Index /\ Hit(r, f) THEN tried[f] + 1 ELSE tried[f]]
  <2>1. tried' = [f \in File |->
          IF ~(loff > RightLimit(n)) /\ loff >= Root(n).left /\ loff <= Root(n).right
             /\ f \in Root(n).files \cap Accepted
          THEN tried[f] + 1 ELSE tried[f]]
        BY DEF Walk
  <2>2. r \in Index
        BY <1>1, StackStep DEF Pending
  <2>3. (loff >= Root(n).left <=> Root(n).left <= loff) /\ (~(loff > RightLimit(n)) <=> visit)
    <3>1. Root(n).left \in Nat
          BY <1>1, <1>2, <2>2, SortedTypes DEF SortedInv
    <3> QED BY <1>1, <1>3, <3>1
  <2> QED BY <1>2, <2>1, <2>2, <2>3 DEF Hit
<1>5. /\ IsStack(stack') /\ Pending(stack') \subseteq Pending(stack) /\ r \in Pending(stack)
      /\ \A k \in Pending(stack) \ Pending(stack') : (~visit \/ k # r) => \A f : ~Hit(k, f)
      /\ visit => r \notin Pending(stack')
  <2>1. loff > RightLimit(n) <=> ~visit
        BY <1>1, <1>3
  <2> QED BY <1>1, <2>1, StackStep
<1> HIDE DEF r, visit
<1>6. r \in Index /\ r \notin K /\ K \subseteq L /\ (visit => r \in L)
      BY <1>5 DEF Pending
<1>7. \A k \in L : k \in K \/ (visit /\ k = r) \/ \A f : ~Hit(k, f)
      BY <1>5 DEF Pending
<1>8. \A i, j \in Index : \A f : Hit(i, f) /\ Hit(j, f) => i = j
      BY <1>1, OneHit
<1>9. K \subseteq Index /\ L \subseteq Index
      OBVIOUS
<1> HIDE DEF K, L, n
<1>10. \A f \in File : tried'[f] = IF \E k \in L : Hit(k, f) THEN 1 ELSE 0
  <2> TAKE f \in File
  <2>1. tried[f] = (IF \E k \in K : Hit(k, f) THEN 1 ELSE 0) /\ tried[f] \in Nat
        BY <1>1 DEF Counted
  <2>2. CASE visit /\ Hit(r, f)
    <3>1. ~\E k \in K : Hit(k, f)
          BY <1>6, <1>8, <1>9, <2>2
    <3> QED BY <1>4, <1>6, <2>1, <2>2, <3>1
  <2>3. CASE ~(visit /\ Hit(r, f))
    <3>1. (\E k \in L : Hit(k, f)) <=> \E k \in K : Hit(k, f)
          BY <1>6, <1>7, <2>3
    <3> QED BY <1>4, <2>1, <2>3, <3>1
  <2> QED BY <2>2, <2>3
<1>11. tried' \in [File -> Nat]
       BY <1>1, <1>4
<1>12. cf' = cf /\ loff' = loff /\ files' = files /\ Index' = Index
       BY <1>1 DEF index_vars, Index
<1>13. SortedInv'
       BY <1>1, <1>12 DEF SortedInv, SameRange
<1>14. IsStack(stack)'
       BY <1>5, <1>12 DEF IsStack, Node, IsNode
<1>15. (Index \ Pending(stack))' = L
       BY <1>12 DEF L, Pending, Entries
<1>16. Counted(Index \ Pending(stack))'
  <2>1. \A k, f : Hit(k, f)' <=> Hit(k, f)
        BY <1>12 DEF Hit
  <2> QED BY <1>10, <1>15, <2>1 DEF Counted
<1> QED BY <1>1, <1>11, <1>12, <1>13, <1>14, <1>16 DEF WalkInv

(***************************************************************************)
(* A line that find_match looks up belongs to a finished file, so that the *)
(* tree is not empty.                                                      *)
(***************************************************************************)
LEMMA LinesAreFiled ==
    ASSUME ChunkInv, FilesInv, pc # "index", NEW f \in File, NEW a \in has[f]
    PROVE  \E e \in files : e.file = f /\ Inside(a, e)
<1>1. file \in Nat /\ f \in Nat
      BY ChunkFilesAssumption DEF ChunkInv, TypeOK, File
<1>2. ~(f > file)
      BY DEF ChunkInv, LaterEmpty
<1>3. f # file
      BY DEF ChunkInv, LinesCovered, FilesInv
<1> QED BY <1>1, <1>2, <1>3 DEF ChunkInv, LinesCovered

LEMMA StartWalk ==
    ASSUME ChunkInv, FilesInv, WalkInv, NEW a \in Line, FindMatch(a.l)
    PROVE  WalkInv'
<1> DEFINE n == [lo |-> 0, hi |-> Len(cf)]
<1>1. /\ SortedInv /\ pc' = "walk" /\ loff' = a.l /\ stack' = <<n>> /\ tried' = [f \in File |-> 0]
      /\ cf' = cf /\ files' = files /\ pc # "index" /\ a.l \in Nat
      BY ChunkFilesAssumption DEF FindMatch, WalkInv, index_vars
<1>2. Len(cf) \in Nat
      BY <1>1, SortedTypes DEF SortedInv
<1>3. 0 < Len(cf)
  <2>1. PICK f \in File : \E b \in has[f] : b.l = a.l
        BY DEF FindMatch
  <2>2. PICK e \in files : e.file = f
        BY <1>1, <2>1, LinesAreFiled
  <2> QED BY <1>1, <1>2, <2>2 DEF SortedInv, Index
<1>4. SortedInv' /\ Index' = Index
      BY <1>1 DEF SortedInv, SameRange, Index
<1>5. Node' = Node /\ n \in Node /\ IsNode(n)
      BY <1>1, <1>2, <1>3 DEF Node, IsNode
<1>6. stack' \in Seq(Node) /\ Len(stack') = 1 /\ stack'[1] = n
      BY <1>1, <1>5
<1>7. IsStack(stack)'
  <2>1. \A i \in 1..Len(stack') : i = 1
        BY <1>6
  <2> QED BY <1>5, <1>6, <2>1 DEF IsStack, IsNode
<1>8. Pending(stack)' = Index
  <2>1. \A k \in Index : 0 < k /\ k <= Len(cf)
        BY <1>2 DEF Index
  <2>2. 1 \in 1..Len(stack')
        BY <1>6
  <2> QED BY <1>4, <1>6, <2>1, <2>2 DEF Pending, Entries
<1>9. Counted(Index \ Pending(stack))'
      BY <1>1, <1>4, <1>8 DEF Counted
<1> QED BY <1>1, <1>4, <1>7, <1>9 DEF WalkInv

LEMMA NextWalk == ChunkInv /\ FilesInv /\ WalkInv /\ [Next]_vars => WalkInv'
<1> SUFFICES ASSUME ChunkInv, FilesInv, WalkInv, [Next]_vars PROVE WalkInv'
    OBVIOUS
<1>1. ASSUME pc' = "index" PROVE WalkInv'
      BY <1>1 DEF WalkInv
<1>2. CASE FinalizeFiles
  <2>1. SortedInv' /\ pc' = "final"
        BY <1>2, FinalizeSorts DEF FinalizeFiles
  <2> QED BY <2>1 DEF WalkInv
<1>3. ASSUME NEW a \in Line, FindMatch(a.l) PROVE WalkInv'
      BY <1>3, StartWalk
<1>4. CASE Walk
      BY <1>4, WalkStep
<1>5. CASE UNCHANGED <<index_vars, cf>>
           /\ UNCHANGED <<loff, stack, tried>> /\ (pc' # "index" => pc # "index")
           /\ (pc' = pc \/ (pc = "walk" /\ pc' = "found" /\ (cut' \/ stack = <<>>))) /\ (cut' = cut \/ cut')
  <2>1. files' = files /\ cf' = cf /\ loff' = loff /\ stack' = stack /\ tried' = tried
        BY <1>5 DEF index_vars
  <2>2. SortedInv' = SortedInv /\ IsStack(stack)' = IsStack(stack) /\ Index' = Index
        /\ Counted(Index \ Pending(stack))' = Counted(Index \ Pending(stack))
        /\ Counted(Index)' = Counted(Index)
        BY <2>1 DEF SortedInv, SameRange, IsStack, Node, IsNode, Index, Counted, Pending, Entries, Hit
  <2>3. stack = <<>> => Pending(stack) = {}
        BY DEF Pending
  <2>4. CASE pc' = pc
        BY <1>5, <2>1, <2>2, <2>4 DEF WalkInv
  <2>5. CASE pc = "walk" /\ pc' = "found" /\ (cut' \/ stack = <<>>)
    <3>1. stack = <<>> => Counted(Index)
      <4>1. stack = <<>> => Index \ Pending(stack) = Index
            BY <2>3
      <4> QED BY <2>5, <4>1 DEF WalkInv
    <3> QED BY <2>1, <2>2, <2>5, <3>1 DEF WalkInv
  <2> QED BY <1>5, <2>4, <2>5
<1>6. ASSUME NEW a \in Line, AddChunkFile(a) PROVE WalkInv'
      BY <1>1, <1>6 DEF AddChunkFile
<1>7. CASE FinishFile
      BY <1>1, <1>7 DEF FinishFile
<1>8. CASE Walked
      BY <1>5, <1>8 DEF Walked, walk_vars
<1>9. CASE ExitEarly
      BY <1>5, <1>9 DEF ExitEarly
<1>10. CASE UNCHANGED vars
      BY <1>5, <1>10 DEF vars, walk_vars
<1> QED BY <1>2, <1>3, <1>4, <1>6, <1>7, <1>8, <1>9, <1>10 DEF Next

LEMMA WalkIsExact ==
    ASSUME ChunkInv, FilesInv, WalkInv
    PROVE  FindMatchExact
<1> SUFFICES ASSUME pc = "found", ~cut, NEW f \in File
             PROVE  /\ tried[f] = IF f \in Accepted /\ \E e \in files :
                                        e.file = f /\ loff >= e.left /\ loff <= e.right
                                  THEN 1 ELSE 0
                    /\ f \in Accepted /\ (\E a \in has[f] : a.l = loff) => tried[f] = 1
    BY DEF FindMatchExact
<1>1. SortedInv /\ loff \in Nat /\ tried[f] = IF \E k \in Index : Hit(k, f) THEN 1 ELSE 0
      BY DEF WalkInv, Counted
<1>2. (\E k \in Index : Hit(k, f))
         <=> (f \in Accepted /\ \E e \in files : e.file = f /\ loff >= e.left /\ loff <= e.right)
  <2>1. ASSUME NEW k \in Index, Hit(k, f)
        PROVE  f \in Accepted /\ \E e \in files : e.file = f /\ loff >= e.left /\ loff <= e.right
    <3>1. PICK e \in files : SameRange(cf[k], e) /\ e.file = f
          BY <1>1, <2>1 DEF SortedInv, Hit
    <3>2. e.left \in Nat
          BY DEF FilesInv, IsEntry
    <3> QED BY <1>1, <2>1, <3>1, <3>2 DEF Hit, SameRange
  <2>2. ASSUME f \in Accepted, NEW e \in files, e.file = f, loff >= e.left, loff <= e.right
        PROVE  \E k \in Index : Hit(k, f)
    <3>1. PICK k \in Index : SameRange(cf[k], e) /\ e.file \in cf[k].files
          BY <1>1 DEF SortedInv
    <3>2. e.left \in Nat
          BY DEF FilesInv, IsEntry
    <3> QED BY <1>1, <2>2, <3>1, <3>2 DEF Hit, SameRange
  <2> QED BY <2>1, <2>2
<1>3. ASSUME NEW a \in has[f], a.l = loff
      PROVE  \E e \in files : e.file = f /\ loff >= e.left /\ loff <= e.right
  <2>1. PICK e \in files : e.file = f /\ Inside(a, e)
        BY LinesAreFiled
  <2>2. a \in Line
        BY DEF ChunkInv, TypeOK
  <2> QED BY <1>3, <2>1, <2>2, ChunkFilesAssumption DEF Inside, FilesInv, IsEntry
<1> QED BY <1>1, <1>2, <1>3

LEMMA InitWalk == Init => GapsBounded /\ FilesInv /\ WalkInv
BY FS_EmptySet DEF Init, GapsBounded, FilesInv, WalkInv

(***************************************************************************)
(* What a search relies on, for any lines, files, gap and constraints: a   *)
(* range has no hole of kMaxGap bytes, and find_match, which prunes the    *)
(* tree with right_limit and the order of the ranges, tries each accepted  *)
(* file with a range around the line exactly once and no other.            *)
(***************************************************************************)
THEOREM SearchFindsRanges == Spec => []RangesUsable
<1>1. Init => GapsBounded /\ FilesInv /\ WalkInv
      BY InitWalk
<1>2. ChunkInv /\ GapsBounded /\ FilesInv /\ WalkInv /\ [Next]_vars
         => GapsBounded' /\ FilesInv' /\ WalkInv'
      BY NextGaps, NextFiles, NextWalk
<1>3. ChunkInv /\ GapsBounded /\ FilesInv /\ WalkInv => RangesUsable
      BY WalkIsExact DEF RangesUsable
<1> QED BY <1>1, <1>2, <1>3, ChunkInvariant, PTL DEF Spec
=============================================================================
