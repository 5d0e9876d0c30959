------------------------------ MODULE ChunkFiles ------------------------------
(***************************************************************************)
(* Which files the lines stored in one chunk come from.  While a file is   *)
(* indexed, add_chunk_file() collects ranges of the chunk's data that hold *)
(* its lines; finish_file() moves them to `files', finalize_files() sorts  *)
(* them, merges equal ranges and builds a search tree, and a search walks  *)
(* that tree (find_match) to find the files a matching line may be in.     *)
(*                                                                         *)
(* A line is the interval l..r of the chunk's data, r being its newline.   *)
(* With line deduplication a file may use lines that earlier files stored, *)
(* so its lines come in any order.                                         *)
(***************************************************************************)
EXTENDS Integers, Sequences, FiniteSets

CONSTANTS
    Line,       \* the lines stored in the chunk: [l, r]
    MaxFiles,   \* bound: files indexed
    kMaxGap,    \* a line this far from every range starts a new one
    Accepted    \* the files that satisfy the query's file and tree constraints

ASSUME ChunkFilesAssumption ==
    /\ \A a \in Line : a.l \in Nat /\ a.r \in Nat /\ a.l <= a.r
    /\ \A a, b \in Line : a # b => a.r < b.l \/ b.r < a.l
    /\ kMaxGap \in Nat \ {0}
    /\ MaxFiles \in Nat

File == 1..MaxFiles

VARIABLES
    file,       \* the file being indexed
    has,        \* has[f]: the lines of file f added so far
    cur_file,   \* the ranges of the file being indexed
    files,      \* chunk_files of finished files: [left, right, file]
    cf,         \* files, sorted and merged by finalize_files: [left, right, files]
    pc,         \* "index", "final", "walk" or "found"
    loff,       \* the line find_match looks up
    stack,      \* its stack of tree nodes
    tried,      \* tried[f]: how often try_match was called with f
    cut         \* limiter_.exit_early() ended the walk

index_vars == <<file, has, cur_file, files>>
walk_vars  == <<loff, stack, tried, cut>>
vars == <<index_vars, cf, pc, walk_vars>>

RangeOf(a) == [left |-> a.l, right |-> a.r]

Init ==
    /\ file = 1 /\ has = [f \in File |-> {}]
    /\ cur_file = {} /\ files = {} /\ cf = <<>>
    /\ pc = "index" /\ loff = 0 /\ stack = <<>>
    /\ tried = [f \in File |-> 0] /\ cut = FALSE

-----------------------------------------------------------------------------
Dist_ToAnEnd(g, a) ==
    IF a.l <= g.left THEN (IF g.left > a.r THEN g.left - a.r ELSE 0)
    ELSE IF a.r >= g.right THEN (IF a.l > g.right THEN a.l - g.right ELSE 0)
    ELSE a.l - g.left
Dist(g, a) ==
    IF a.l <= g.left THEN (IF g.left > a.r THEN g.left - a.r ELSE 0)
    ELSE IF a.r >= g.right THEN (IF a.l > g.right THEN a.l - g.right ELSE 0)
    ELSE 0

Expand_LeftOnly(g, a) ==
    [left  |-> IF a.l < g.left THEN a.l ELSE g.left,
     right |-> g.right]
Expand(g, a) ==
    [left  |-> IF a.l < g.left THEN a.l ELSE g.left,
     right |-> IF a.r > g.right THEN a.r ELSE g.right]

Nearest(a) == {g \in cur_file : \A h \in cur_file : Dist(g, a) <= Dist(h, a)}

(***************************************************************************)
(* chunk::add_chunk_file.  Of several nearest ranges the code takes the    *)
(* one that was made first; the model takes any.                           *)
(***************************************************************************)
ExpandNearest(a) ==
    \E g \in Nearest(a) :
        /\ Dist(g, a) < kMaxGap
        /\ cur_file' = (cur_file \ {g}) \cup {Expand(g, a)}

NewRange(a) ==
    /\ \A g \in cur_file : Dist(g, a) >= kMaxGap
    /\ cur_file' = cur_file \cup {RangeOf(a)}

AddChunkFile(a) ==
    /\ pc = "index" /\ file \in File
    /\ ExpandNearest(a) \/ NewRange(a)
    /\ has' = [has EXCEPT ![file] = @ \cup {a}]
    /\ UNCHANGED <<file, files, cf, pc, walk_vars>>

(* chunk::finish_file                                                      *)
FinishFile ==
    /\ pc = "index" /\ file \in File
    /\ files' = files \cup {[left |-> g.left, right |-> g.right, file |-> file] :
                              g \in cur_file}
    /\ cur_file' = {}
    /\ file' = file + 1
    /\ UNCHANGED <<has, cf, pc, walk_vars>>

-----------------------------------------------------------------------------
Less(g, h) == g.left < h.left \/ (g.left = h.left /\ g.right < h.right)

SortedRanges(S) ==
    [n \in 1..Cardinality(S) |-> CHOOSE g \in S : Cardinality({h \in S : Less(h, g)}) = n - 1]

(* chunk::finalize_files: sort, and one chunk_file for equal ranges.       *)
FinalizeFiles ==
    /\ pc = "index" /\ cur_file = {}
    /\ LET ranges == SortedRanges({[left |-> e.left, right |-> e.right] : e \in files})
       IN  cf' = [n \in DOMAIN ranges |->
                    [left  |-> ranges[n].left,
                     right |-> ranges[n].right,
                     files |-> {e.file : e \in {d \in files : d.left = ranges[n].left
                                                   /\ d.right = ranges[n].right}}]]
    /\ pc' = "final"
    /\ UNCHANGED <<index_vars, walk_vars>>

(***************************************************************************)
(* chunk::build_tree(lo, hi): the tree over the entries lo..hi-1 of files  *)
(* (from 0) has the middle one at its root; right_limit is the largest     *)
(* right end in it.                                                        *)
(***************************************************************************)
Mid(n) == (n.lo + n.hi) \div 2
Root(n) == cf[Mid(n) + 1]
LeftChild(n) == [lo |-> n.lo, hi |-> Mid(n)]
RightChild(n) == [lo |-> Mid(n) + 1, hi |-> n.hi]
IsNode(n) == n.lo < n.hi

Larger(x, y) == IF x > y THEN x ELSE y
RightLimits[n \in [lo : 0..Len(cf), hi : 0..Len(cf)]] ==
    IF IsNode(n)
    THEN Larger(Root(n).right, Larger(RightLimits[LeftChild(n)], RightLimits[RightChild(n)]))
    ELSE -1

RightLimit_OwnOnly(n) == Root(n).right
RightLimit(n) == RightLimits[n]

(* searcher::find_match, for the line that starts at off.                  *)
FindMatch(off) ==
    /\ pc \in {"final", "found"}
    /\ \E f \in File : \E a \in has[f] : a.l = off
    /\ loff' = off
    /\ stack' = <<[lo |-> 0, hi |-> Len(cf)]>>
    /\ tried' = [f \in File |-> 0]
    /\ cut' = FALSE
    /\ pc' = "walk"
    /\ UNCHANGED <<index_vars, cf>>

Push(s, n) == IF IsNode(n) THEN Append(s, n) ELSE s

(* One round of its loop: pop a node, visit it, push its children.         *)
Walk ==
    /\ pc = "walk" /\ stack # <<>>
    /\ LET n    == stack[Len(stack)]
           rest == SubSeq(stack, 1, Len(stack) - 1)
           beyond  == loff > RightLimit(n)
           inRight == loff >= Root(n).left
           inRoot  == inRight /\ loff <= Root(n).right
       IN  /\ stack' = IF beyond THEN rest
                       ELSE Push(IF inRight THEN Push(rest, RightChild(n)) ELSE rest,
                                 LeftChild(n))
           /\ tried' = [f \in File |->
                IF ~beyond /\ inRoot /\ f \in Root(n).files \cap Accepted
                THEN tried[f] + 1 ELSE tried[f]]
    /\ UNCHANGED <<index_vars, cf, pc, loff, cut>>

Walked ==
    /\ pc = "walk" /\ stack = <<>>
    /\ pc' = "found"
    /\ UNCHANGED <<index_vars, cf, walk_vars>>

ExitEarly ==
    /\ pc = "walk"
    /\ cut' = TRUE
    /\ pc' = "found"
    /\ UNCHANGED <<index_vars, cf, loff, stack, tried>>

Next ==
    \/ \E a \in Line : AddChunkFile(a)
    \/ FinishFile
    \/ FinalizeFiles
    \/ \E a \in Line : FindMatch(a.l)
    \/ Walk \/ Walked \/ ExitEarly

Spec == Init /\ [][Next]_vars

-----------------------------------------------------------------------------
TypeOK ==
    /\ file \in 1..(MaxFiles + 1)
    /\ has \in [File -> SUBSET Line]
    /\ \A g \in cur_file : g.left \in Nat /\ g.right \in Nat /\ g.left <= g.right
                           /\ g = [left |-> g.left, right |-> g.right]
    /\ pc \in {"index", "final", "walk", "found"}
    /\ cut \in BOOLEAN

(***************************************************************************)
(* finish_file()'s assert(right < it->left): the ranges of one file never  *)
(* overlap or touch, whatever order its lines come in and whichever of     *)
(* them are expanded.                                                      *)
(***************************************************************************)
RangesDisjoint ==
    \A g, h \in cur_file : g # h => g.right < h.left \/ h.right < g.left

(***************************************************************************)
(* No line is lost by expanding or moving ranges: every line added         *)
(* for the current file lies inside one of its ranges, and every line of a *)
(* finished file inside a chunk_file for it.                               *)
(***************************************************************************)
Inside(a, g) == g.left <= a.l /\ a.r <= g.right

LinesCovered ==
    /\ file \in File => \A a \in has[file] : \E g \in cur_file : Inside(a, g)
    /\ \A f \in File : f < file =>
        \A a \in has[f] : \E e \in files : e.file = f /\ Inside(a, e)

(***************************************************************************)
(* A range spans no hole of kMaxGap bytes or more between two neighbouring *)
(* lines of its file, and starts and ends with lines of the file: a search *)
(* tries a file for nothing only near its lines.                           *)
(***************************************************************************)
GapsBounded ==
    file \in File =>
        \A g \in cur_file :
            /\ \E a \in has[file] : a.l = g.left
            /\ \E a \in has[file] : a.r = g.right
            /\ \A a \in has[file] : Inside(a, g) /\ a.r # g.right =>
                \E b \in has[file] : b.l > a.r /\ b.l - a.r < kMaxGap /\ Inside(b, g)

(***************************************************************************)
(* The tree walk of find_match finds what find_match_brute finds: it tries *)
(* exactly the accepted files with a range around the line, each one once; *)
(* every accepted file that has the line is among them.                    *)
(***************************************************************************)
FindMatchExact ==
    pc = "found" /\ ~cut =>
        \A f \in File :
            /\ tried[f] = IF f \in Accepted /\ \E e \in files :
                                e.file = f /\ loff >= e.left /\ loff <= e.right
                          THEN 1 ELSE 0
            /\ f \in Accepted /\ (\E a \in has[f] : a.l = loff) => tried[f] = 1

(***************************************************************************)
(* What a search relies on: the ranges of a file have small gaps only, and *)
(* find_match visits exactly the files whose ranges hold the match.        *)
(***************************************************************************)
RangesUsable == GapsBounded /\ FindMatchExact
=============================================================================
