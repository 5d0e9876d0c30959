-------------------------------- MODULE GitShow --------------------------------
(***************************************************************************)
(* GitShowCommit: git show with --patch-with-stat -z, read as entries that *)
(* end in NUL: nine fields of the commit, the diffstat, the patch.  The    *)
(* commit page links the i-th line of the diffstat to the diff with that   *)
(* HunkNum.  The exit status of git is never asked for.                    *)
(***************************************************************************)
EXTENDS Naturals, Sequences

CONSTANTS
  Hunks,       \* the numbers of hunks a file of the patch may have (0: binary, mode)
  MaxFiles     \* bound: files of the commit

ShowAssumption == Hunks \subseteq Nat /\ MaxFiles \in Nat

VARIABLES
  files,      \* the number of hunks of every file of the commit; external
  found,      \* git finds the commit
  entry,      \* the entries read by the scanner
  line,       \* the line of the entry to be read next
  statLines,  \* DiffStat.StatLines
  summary,    \* DiffStat.SummaryLine is set
  diffs,      \* GitShow.Diffs
  currDif, hunkNum, pc

vars == <<files, found, entry, line, statLines, summary, diffs, currDif, hunkNum, pc>>

FieldCount == 9

-----------------------------------------------------------------------------
(* The output of git, external: a line is named by what it is and by the   *)
(* file and the hunk it is about.                                          *)
Line(k, f, h) == [k |-> k, file |-> f, hunk |-> h]
NoLine == Line("end", 0, 0)

NextFile(f) == IF f < Len(files) THEN Line("diff", f + 1, 0) ELSE NoLine
NextHunk(f, h) == IF h < files[f] THEN Line("@@", f, h + 1) ELSE NextFile(f)

\* The diffstat: a line of dashes, one line per file, the summary.  The patch:
\* for every file its header lines, and an @@ line before each hunk.
After(l) ==
  CASE l.k = "dashes"  -> Line("stat", 1, 0)
    [] l.k = "stat"    -> IF l.file < Len(files) THEN Line("stat", l.file + 1, 0) ELSE Line("summary", 0, 0)
    [] l.k = "diff"    -> Line("index", l.file, 0)
    [] l.k = "index"   -> NextHunk(l.file, 0)
    [] l.k = "@@"      -> Line("delete", l.file, l.hunk)
    [] l.k = "delete"  -> Line("insert", l.file, l.hunk)
    [] l.k = "insert"  -> Line("context", l.file, l.hunk)
    [] l.k = "context" -> NextHunk(l.file, l.hunk)
    [] OTHER           -> NoLine

-----------------------------------------------------------------------------
\* The first line of entry n; nothing if git found nothing.
FirstLine(n) ==
  IF ~found THEN NoLine
  ELSE IF n = FieldCount + 1 THEN Line("dashes", 0, 0)
  ELSE IF n = FieldCount + 2 THEN Line("diff", 1, 0)
  ELSE NoLine

NoDif == [header |-> 0, headerLines |-> 0, chunkLine |-> FALSE, lines |-> <<>>, hunkNum |-> 0]

Init ==
  /\ \E n \in 1 .. MaxFiles : files \in [1 .. n -> Hunks]
  /\ found \in BOOLEAN
  /\ entry = 0
  /\ line = NoLine
  /\ statLines = <<>>
  /\ summary = FALSE
  /\ diffs = <<>>
  /\ currDif = NoDif
  /\ hunkNum = 0
  /\ pc = "field"

\* scanner.Scan for the nine fields of the commit
ScanField ==
  /\ pc = "field"
  /\ entry' = entry + 1
  /\ pc' = IF entry' = FieldCount THEN "stat" ELSE "field"
  /\ UNCHANGED <<files, found, line, statLines, summary, diffs, currDif, hunkNum>>

\* scanner.Scan, and the first line of the diffstat thrown away
ScanStat ==
  /\ pc = "stat"
  /\ entry = FieldCount
  /\ entry' = entry + 1
  /\ line' = After(FirstLine(entry'))
  /\ UNCHANGED <<files, found, statLines, summary, diffs, currDif, hunkNum, pc>>

\* one turn of the loop over the diffstat; it ends at the first line that is
\* not a file's, or at the end of the text
StatLine ==
  /\ pc = "stat"
  /\ entry > FieldCount
  /\ IF line.k = "stat"
     THEN /\ statLines' = Append(statLines, [file |-> line.file, hunkNum |-> hunkNum])
          /\ hunkNum' = hunkNum + 1
          /\ line' = After(line)
          /\ UNCHANGED <<entry, summary, pc>>
     ELSE /\ summary' = (line # NoLine)
          /\ entry' = entry + 1
          /\ line' = FirstLine(entry')
          /\ hunkNum' = 0
          /\ pc' = "patch"
          /\ UNCHANGED statLines
  /\ UNCHANGED <<files, found, diffs, currDif>>

\* The last diff is forgotten at the end of the patch.
PatchEnds_Forgets ==
  /\ line = NoLine
  /\ pc' = "done"
  /\ UNCHANGED <<line, diffs, currDif, hunkNum>>

\* "assuming we've hit an EOL"
PatchEnds ==
  /\ line = NoLine
  /\ diffs' = IF currDif # NoDif THEN Append(diffs, currDif) ELSE diffs
  /\ pc' = "done"
  /\ UNCHANGED <<line, currDif, hunkNum>>

\* a line that starts with "diff" ends the previous diff and starts one
DiffStarts ==
  /\ line # NoLine
  /\ line.k = "diff"
  /\ line' = After(line)
  /\ diffs' = IF currDif # NoDif THEN Append(diffs, currDif) ELSE diffs
  /\ hunkNum' = IF currDif # NoDif THEN hunkNum + 1 ELSE hunkNum
  /\ currDif' = [NoDif EXCEPT !.header = line.file, !.hunkNum = hunkNum']
  /\ UNCHANGED pc

\* any other line belongs to the current diff: before the first @@ line it is
\* a header line, after it a line of the diff; an @@ line is kept but not shown
DiffLine ==
  /\ line # NoLine
  /\ line.k # "diff"
  /\ line' = After(line)
  /\ currDif' = IF line.k = "@@" THEN [currDif EXCEPT !.chunkLine = TRUE]
                ELSE IF currDif.chunkLine THEN [currDif EXCEPT !.lines = Append(@, line)]
                ELSE [currDif EXCEPT !.headerLines = @ + 1]
  /\ UNCHANGED <<diffs, hunkNum, pc>>

PatchLine ==
  /\ pc = "patch"
  /\ PatchEnds \/ DiffStarts \/ DiffLine
  /\ UNCHANGED <<files, found, entry, statLines, summary>>

Next == ScanField \/ ScanStat \/ StatLine \/ PatchLine

Spec == Init /\ [][Next]_vars

-----------------------------------------------------------------------------
\* Every file of the commit has a line in the diffstat and a diff, with the
\* same number, so that the link of the diffstat leads to the diff of its
\* file; the diff has the lines of all the hunks in order, though ChunkLine
\* keeps only the last @@ line, and a file without hunks has none
\* (GitShowCommit).  A commit git does not find gives an empty page.
ShowExact ==
  pc = "done" =>
    /\ Len(diffs) = (IF found THEN Len(files) ELSE 0)
    /\ Len(statLines) = Len(diffs)
    /\ summary = found
    /\ \A i \in 1 .. Len(diffs) :
         /\ diffs[i].header = i /\ statLines[i].file = i
         /\ diffs[i].hunkNum = statLines[i].hunkNum
         /\ diffs[i].headerLines = 1
         /\ Len(diffs[i].lines) = 3 * files[i]
         /\ \A h \in 1 .. files[i] :
              /\ diffs[i].lines[3 * h - 2] = Line("delete", i, h)
              /\ diffs[i].lines[3 * h - 1] = Line("insert", i, h)
              /\ diffs[i].lines[3 * h] = Line("context", i, h)
=============================================================================
