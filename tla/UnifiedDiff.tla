----------------------------- MODULE UnifiedDiff -----------------------------
(***************************************************************************)
(* The diff page: GetDiffBetweenTwoCommits runs git diff on a path,        *)
(* parseGitUnifiedDiff reads its output line by line into hunks, and       *)
(* GetDiffRowsSplit turns them into the rows of a side-by-side view.       *)
(*                                                                         *)
(* A change of a file is an edit script: "=" keeps a line, "-" deletes     *)
(* one, "+" adds one.  The text of a line is its position in the script,   *)
(* so that no two lines are alike and a row with a wrong number or a wrong *)
(* text can be told from the right one.                                    *)
(***************************************************************************)
EXTENDS Naturals, Sequences, FiniteSets

CONSTANTS
    MaxScript,      \* bound: length of an edit script
    Context         \* lines of context git diff shows

DiffAssumption == MaxScript \in Nat /\ Context \in Nat

VARIABLES
    script,         \* how the file changed; external
    kind,           \* "text", "binary", "empty", or "two": a second file follows
    input,          \* the line of git's output the scanner reads next
    pc,             \* "header", "hunk", "lines", "rows", "done", "nil", "panic"
    nextHeader,     \* hs.nextHunkHeader, NoLine for nil
    hunks,          \* diff.Hunks, each the sequence of its lines
    old, new,       \* rollingDiffBeforeCounter, rollingDiffAfterCounter
    hunkIndex,      \* the hunk and the line of it that GetDiffRowsSplit
    lineIndex,      \* visits next
    modified,       \* modifiedLines
    rows

counters == <<old, new>>
view == <<hunkIndex, lineIndex, modified, rows>>
vars == <<script, kind, input, pc, nextHeader, hunks, counters, view>>

-----------------------------------------------------------------------------
(* git diff.  The old version of the file is the lines that are not "+",   *)
(* the new one those that are not "-": Number(i, c) counts the lines up to *)
(* i of the version without the c lines.                                   *)
Number(i, c) == Cardinality({k \in 1..i : script[k] # c})
Shown == {i \in DOMAIN script :
            \E k \in DOMAIN script : script[k] # "=" /\ i <= k + Context /\ k <= i + Context}
\* @@ -l,s +l,s @@: an empty range starts at the line before it
HunkStart(i, c) ==
    IF \E k \in i..Len(script) : i..k \subseteq Shown /\ script[k] # c
    THEN Number(i - 1, c) + 1 ELSE Number(i - 1, c)

\* a line of the output: what it begins with, and for a line of the file its
\* place in the script, for a hunk header that of the first line of the hunk
Line(k, i) == [k |-> k, at |-> i]
NoLine == Line("end", 0)
NextFile == IF kind = "two" THEN Line("diff", 0) ELSE NoLine
HunkAfter(i) ==
    IF \E k \in Shown : k > i
    THEN Line("@@", CHOOSE k \in Shown : k > i /\ \A j \in Shown : j > i => k <= j)
    ELSE NextFile
Following(l) ==
    CASE l.k = "diff"  -> Line("index", 0)
      [] l.k = "index" -> IF kind = "empty" THEN NoLine
                          ELSE Line(IF kind = "binary" THEN "Binary" ELSE "---", 0)
      [] l.k = "---"   -> Line("+++", 0)
      [] l.k = "+++"   -> HunkAfter(0)
      [] l.k = "@@"    -> Line(script[l.at], l.at)
      [] l.k \in {"=", "-", "+"} ->
            IF l.at + 1 \in Shown THEN Line(script[l.at + 1], l.at + 1)
            \* "\ No newline at end of file" after the last line that was changed
            ELSE IF l.at = Len(script) /\ l.k # "=" THEN Line("\\", 0)
            ELSE HunkAfter(l.at)
      [] l.k = "\\"    -> NextFile
      [] OTHER         -> NoLine

\* scripts of a changed file; within a change git shows the deleted lines first
Scripts ==
    {s \in UNION {[1..n -> {"=", "-", "+"}] : n \in 1..MaxScript} :
        /\ \E i \in DOMAIN s : s[i] # "="
        /\ \A i \in 1..(Len(s) - 1) : ~(s[i] = "+" /\ s[i + 1] = "-")}

Init ==
    /\ script \in Scripts
    /\ kind \in {"text", "two", "binary", "empty"}
    /\ input = Line("diff", 0)
    /\ pc = "header" /\ nextHeader = NoLine /\ hunks = <<>> /\ old = 0 /\ new = 0
    /\ hunkIndex = 1 /\ lineIndex = 1 /\ modified = <<>> /\ rows = <<>>

-----------------------------------------------------------------------------
(* parseGitDiffHeader: read up to +++, which a diff may not have.          *)
ParseHeader ==
    /\ pc = "header"
    /\ pc' = IF input.k \in {"end", "Binary"} THEN "nil"
             ELSE IF input.k = "+++" THEN "hunk" ELSE "header"
    /\ input' = Following(input)
    /\ UNCHANGED <<script, kind, nextHeader, hunks, counters, view>>

(* parseGitDiffHunk up to its loop: the header is the one the last hunk    *)
(* ended at, or the next line.  A line that is no hunk header makes the    *)
(* call header.toString() on nil.  The counts of the header are not used.  *)
BeginHunk ==
    /\ pc = "hunk"
    /\ LET header == IF nextHeader # NoLine THEN nextHeader ELSE input
       IN CASE header = NoLine  -> pc' = "rows" /\ UNCHANGED <<hunks, counters>>
            [] header.k = "@@"  ->
                 /\ pc' = "lines"
                 /\ old' = HunkStart(header.at, "+") /\ new' = HunkStart(header.at, "-")
                 /\ hunks' = Append(hunks, <<[k |-> "@@", text |-> header.at, old |-> 0, new |-> 0]>>)
            [] OTHER            -> pc' = "panic" /\ UNCHANGED <<hunks, counters>>
    /\ input' = IF nextHeader # NoLine THEN input ELSE Following(input)
    /\ nextHeader' = NoLine
    /\ UNCHANGED <<script, kind, view>>

(* The line that ends a hunk is kept if it is the header of the next one.  *)
NextHunkHeader(line) == IF line.k = "@@" THEN line ELSE NoLine

(* One turn of the loop over the lines of a hunk.  The marker of a missing *)
(* newline sets a flag in lines, the slice that hunk.Lines was made from   *)
(* and that no longer is the one it points to: no line of the hunk gets it.*)
DiffLine(line) ==
    [k |-> line.k, text |-> line.at, old |-> IF line.k = "+" THEN 0 ELSE old,
     new |-> IF line.k = "-" THEN 0 ELSE new]
ParseLine ==
    /\ pc = "lines"
    /\ \/ /\ input.k \in {"end", "@@", "diff"}     \* UnknownLine ends the hunk
          /\ pc' = "hunk"
          /\ nextHeader' = NextHunkHeader(input)
          /\ UNCHANGED <<hunks, counters>>
       \/ /\ input.k = "\\"
          /\ UNCHANGED <<pc, nextHeader, hunks, counters>>
       \/ /\ input.k \in {"+", "-", "="}
          /\ hunks' = [hunks EXCEPT ![Len(hunks)] = Append(@, DiffLine(input))]
          /\ old' = IF input.k = "+" THEN old ELSE old + 1
          /\ new' = IF input.k = "-" THEN new ELSE new + 1
          /\ UNCHANGED <<pc, nextHeader>>
    /\ input' = Following(input)
    /\ UNCHANGED <<script, kind, view>>

-----------------------------------------------------------------------------
(* The rows: a side is the number and the text of a line, or NoSide.       *)
NoSide == [num |-> 0, text |-> 0]
Row(type, before, after) == [type |-> type, before |-> before, after |-> after]
Before(line) == [num |-> line.old, text |-> line.text]
After(line)  == [num |-> line.new, text |-> line.text]

(* getModifiedDiffRows: deleted and added lines side by side, then what is *)
(* left of either.                                                         *)
OfType(ls, k) ==
    LET at == {i \in DOMAIN ls : ls[i].k = k}
    IN [n \in 1..Cardinality(at) |->
          ls[CHOOSE i \in at : Cardinality({j \in at : j <= i}) = n]]
ModifiedRows(ls) ==
    LET added   == OfType(ls, "+")
        deleted == OfType(ls, "-")
        both    == IF Len(added) < Len(deleted) THEN Len(added) ELSE Len(deleted)
    IN [i \in 1..both |-> Row("modified", Before(deleted[i]), After(added[i]))]
       \o [i \in 1..(Len(deleted) - both) |-> Row("deleted", Before(deleted[both + i]), NoSide)]
       \o [i \in 1..(Len(added) - both) |-> Row("added", NoSide, After(added[both + i]))]

(* One turn of the loop of getDiffRowsFromHunk.                            *)
VisitLine ==
    /\ pc = "rows" /\ hunkIndex <= Len(hunks) /\ lineIndex <= Len(hunks[hunkIndex])
    /\ lineIndex' = lineIndex + 1
    /\ LET line == hunks[hunkIndex][lineIndex] IN
       IF line.k \in {"+", "-"}
       THEN modified' = Append(modified, line) /\ UNCHANGED rows
       ELSE /\ modified' = <<>>
            /\ rows' = rows \o ModifiedRows(modified)
                  \o <<IF line.k = "@@" THEN Row("hunk", NoSide, NoSide)
                       ELSE Row("context", Before(line), After(line))>>
    /\ UNCHANGED <<script, kind, input, pc, nextHeader, hunks, counters, hunkIndex>>

(* "Do one more pass to process the remaining list of modified lines."     *)
EndHunk_Forgets ==
    /\ pc = "rows" /\ hunkIndex <= Len(hunks) /\ lineIndex > Len(hunks[hunkIndex])
    /\ hunkIndex' = hunkIndex + 1 /\ lineIndex' = 1 /\ modified' = <<>>
    /\ UNCHANGED <<script, kind, input, pc, nextHeader, hunks, counters, rows>>
EndHunk ==
    /\ pc = "rows" /\ hunkIndex <= Len(hunks) /\ lineIndex > Len(hunks[hunkIndex])
    /\ rows' = rows \o ModifiedRows(modified)
    /\ hunkIndex' = hunkIndex + 1 /\ lineIndex' = 1 /\ modified' = <<>>
    /\ UNCHANGED <<script, kind, input, pc, nextHeader, hunks, counters>>

EndRows ==
    /\ pc = "rows" /\ hunkIndex > Len(hunks)
    /\ pc' = "done"
    /\ UNCHANGED <<script, kind, input, nextHeader, hunks, counters, view>>

Next == ParseHeader \/ BeginHunk \/ ParseLine \/ VisitLine \/ EndHunk \/ EndRows

Spec == Init /\ [][Next]_vars /\ WF_vars(Next)

-----------------------------------------------------------------------------
Side(row, c) == IF c = "+" THEN row.before ELSE row.after

\* On the side of the version without the c lines, rs has the lines in S, each
\* once, in the order of the file and with its number in that version.
HasLines(rs, c, S) ==
    /\ \A n \in DOMAIN rs : Side(rs[n], c) # NoSide =>
          Side(rs[n], c).text \in S /\ Side(rs[n], c).num = Number(Side(rs[n], c).text, c)
    /\ \A i \in S : \E n \in DOMAIN rs : Side(rs[n], c).text = i
    /\ \A m, n \in DOMAIN rs : m < n /\ Side(rs[m], c) # NoSide /\ Side(rs[n], c) # NoSide =>
          Side(rs[m], c).text < Side(rs[n], c).text

\* Lines stand side by side only if they are the same line, or of one change.
Level(rs) ==
    \A n \in DOMAIN rs : rs[n].before # NoSide /\ rs[n].after # NoSide =>
        \/ rs[n].before.text = rs[n].after.text
        \/ /\ rs[n].before.text < rs[n].after.text
           /\ \A i \in rs[n].before.text .. rs[n].after.text : script[i] # "="

(***************************************************************************)
(* The rows of a change show every line git showed, on the side or sides   *)
(* of the versions it belongs to, once, in the order of the file and with  *)
(* its line number in that version; a context line is level with itself,   *)
(* a deleted line with an added one of the same change.  Counters that     *)
(* drift, a group of changes dropped at the end of a hunk and a mixed-up   *)
(* pair would all break this.                                              *)
(***************************************************************************)
RowsExact ==
    pc = "done" /\ kind = "text" =>
        /\ \A c \in {"+", "-"} : HasLines(rows, c, {i \in Shown : script[i] # c})
        /\ Level(rows)

(***************************************************************************)
(* Every diff of one file is parsed to its end; the nil header is          *)
(* dereferenced exactly when git's output goes on with a second file,      *)
(* which is what a directory in the path of the URL asks for.              *)
(***************************************************************************)
Parsed == pc = CASE kind = "text" -> "done" [] kind = "two" -> "panic" [] OTHER -> "nil"
ParseEnds == <>Parsed
=============================================================================
