------------------------------ MODULE GitViews ------------------------------
(***************************************************************************)
(* The views of a repository the web server makes from the output of git,  *)
(* checked in one run: a diff, the blame, a commit, the log, the page of a *)
(* file and the tree of directories. The parts do not share state: an      *)
(* initial state picks the one that runs.                                  *)
(***************************************************************************)
EXTENDS Naturals, Sequences

CONSTANTS
  MaxScript, Context, Commits, MaxLines, Hunks, MaxFiles, Step, Hashes,
  FileLists, MaxHistory, MaxClicks, Files, Dirs, Entries, Readme, Branch, Trees, Ids,
  Requests, MaxEntries, MaxDepth

VARIABLES
  part,   \* the part that runs
  script, kind, input, diff_pc, nextHeader, hunks, old, new, hunkIndex,
  lineIndex, modified, diff_rows,
  blame, cuts, next, eof, chunks, owner, chunk, currLineNumber,
  linesInChunk, blame_pc,
  files, found, entry, line, statLines, summary, diffs, currDif,
  hunkNum, show_pc,
  history, nameOnly, inflight, job, log_rows, buttons, first, clicks, simple,
  commits, refs, head, req, view_pc, repoRev, headRev, commit, commitHash,
  page, tree, branches, moved,
  lines, i, currDir, prevDepth, children, ParentDir

Diff == INSTANCE UnifiedDiff WITH pc <- diff_pc, rows <- diff_rows
Blame == INSTANCE GitBlame WITH pc <- blame_pc
Show == INSTANCE GitShow WITH pc <- show_pc
Log == INSTANCE GitLog WITH rows <- log_rows
View == INSTANCE FileView WITH pc <- view_pc
Dirtree == INSTANCE DirectoryTree

ASSUME Assumptions ==
  /\ Diff!DiffAssumption /\ Show!ShowAssumption /\ Log!LogAssumption
  /\ View!FileViewAssumption /\ Dirtree!DirtreeAssumption

diffVars == <<script, kind, input, diff_pc, nextHeader, hunks, old, new,
              hunkIndex, lineIndex, modified, diff_rows>>
blameVars == <<blame, cuts, next, eof, chunks, owner, chunk,
               currLineNumber, linesInChunk, blame_pc>>
showVars == <<files, found, entry, line, statLines, summary, diffs,
              currDif, hunkNum, show_pc>>
logVars == <<history, nameOnly, inflight, job, log_rows, buttons, first,
             clicks, simple>>
viewVars == <<commits, refs, head, req, view_pc, repoRev, headRev, commit,
              commitHash, page, tree, branches, moved>>
dirtreeVars == <<lines, i, currDir, prevDepth, children, ParentDir>>
all == <<part, diffVars, blameVars, showVars, logVars, viewVars, dirtreeVars>>

\* the parts that do not run keep still
off == "off"
OffDiff == script = off /\ kind = off /\ input = off /\ diff_pc = off /\
           nextHeader = off /\ hunks = off /\ old = off /\ new = off /\
           hunkIndex = off /\ lineIndex = off /\ modified = off /\ diff_rows = off
OffBlame == blame = off /\ cuts = off /\ next = off /\ eof = off /\
            chunks = off /\ owner = off /\ chunk = off /\
            currLineNumber = off /\ linesInChunk = off /\ blame_pc = off
OffShow == files = off /\ found = off /\ entry = off /\ line = off /\
           statLines = off /\ summary = off /\ diffs = off /\ currDif = off
           /\ hunkNum = off /\ show_pc = off
OffLog == history = off /\ nameOnly = off /\ inflight = off /\ job = off /\
          log_rows = off /\ buttons = off /\ first = off /\ clicks = off /\
          simple = off
OffView == commits = off /\ refs = off /\ head = off /\ req = off /\
           view_pc = off /\ repoRev = off /\ headRev = off /\ commit = off
           /\ commitHash = off /\ page = off /\ tree = off /\ branches = off
           /\ moved = off
OffDirtree == lines = off /\ i = off /\ currDir = off /\ prevDepth = off /\
              children = off /\ ParentDir = off

Init ==
  \/ part = "Diff" /\ Diff!Init /\ OffBlame /\ OffShow /\ OffLog /\ OffView /\ OffDirtree
  \/ part = "Blame" /\ Blame!Init /\ OffDiff /\ OffShow /\ OffLog /\ OffView /\ OffDirtree
  \/ part = "Show" /\ Show!Init /\ OffDiff /\ OffBlame /\ OffLog /\ OffView /\ OffDirtree
  \/ part = "Log" /\ Log!Init /\ OffDiff /\ OffBlame /\ OffShow /\ OffView /\ OffDirtree
  \/ part = "View" /\ View!Init /\ OffDiff /\ OffBlame /\ OffShow /\ OffLog /\ OffDirtree
  \/ part = "Dirtree" /\ Dirtree!Init /\ OffDiff /\ OffBlame /\ OffShow /\ OffLog /\ OffView

DiffStep(A) ==
  /\ part = "Diff" /\ A
  /\ UNCHANGED <<part, blameVars, showVars, logVars, viewVars, dirtreeVars>>
BlameStep(A) ==
  /\ part = "Blame" /\ A
  /\ UNCHANGED <<part, diffVars, showVars, logVars, viewVars, dirtreeVars>>
ShowStep(A) ==
  /\ part = "Show" /\ A
  /\ UNCHANGED <<part, diffVars, blameVars, logVars, viewVars, dirtreeVars>>
LogStep(A) ==
  /\ part = "Log" /\ A
  /\ UNCHANGED <<part, diffVars, blameVars, showVars, viewVars, dirtreeVars>>
ViewStep(A) ==
  /\ part = "View" /\ A
  /\ UNCHANGED <<part, diffVars, blameVars, showVars, logVars, dirtreeVars>>
DirtreeStep(A) ==
  /\ part = "Dirtree" /\ A
  /\ UNCHANGED <<part, diffVars, blameVars, showVars, logVars, viewVars>>

Next ==
  \/ DiffStep(Diff!Next)
  \/ BlameStep(Blame!Next)
  \/ ShowStep(Show!Next)
  \/ LogStep(Log!Next)
  \/ ViewStep(View!Next)
  \/ DirtreeStep(Dirtree!Next)

Spec == Init /\ [][Next]_all
        \* the parsers of a diff and of the blame keep running
        /\ WF_all(DiffStep(Diff!Next) \/ BlameStep(Blame!Next))

-----------------------------------------------------------------------------
\* UnifiedDiff.RowsExact: the rows of a diff are the lines of both files.
RowsExact == part = "Diff" => Diff!RowsExact

\* GitBlame.BlameExact: every line has the commit and the range of its own.
BlameExact == part = "Blame" => Blame!BlameExact

\* GitShow.ShowExact: the statistics and the hunks are those of the commit.
ShowExact == part = "Show" => Show!ShowExact

\* GitLog.LogExact: a page has git's commits, each with its own files.
LogExact == part = "Log" => Log!LogExact

\* GitLog.DoneMeansAll: a table without a button for more has every commit.
DoneMeansAll == part = "Log" => Log!DoneMeansAll

\* FileView.PageExact: a page is of one commit, whatever is fetched meanwhile.
PageExact == part = "View" => View!PageExact

\* DirectoryTree.TreeExact: every entry is in its own directory.
TreeExact == part = "Dirtree" => Dirtree!TreeExact

\* UnifiedDiff.ParseEnds and GitBlame.BlameEnds: the parsers come to the end of
\* git's output, where that of a blame stays for ever if it is inside a chunk.
ViewsEnd ==
  <>(/\ part = "Diff" => Diff!Parsed
     /\ part = "Blame" => Blame!Answered)
=============================================================================
