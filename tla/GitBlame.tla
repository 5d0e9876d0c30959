------------------------------- MODULE GitBlame -------------------------------
(***************************************************************************)
(* GitBlameBlob and processNextChunk: the porcelain output of git blame,   *)
(* read line by line into one BlameChunk per commit, with the ranges of    *)
(* lines of the commit and a map from each line to its chunk.              *)
(*                                                                         *)
(* The output may end early: git dies, or a line is longer than the buffer *)
(* of bufio.Scanner, after which Scan returns false for good.              *)
(***************************************************************************)
EXTENDS Integers, Sequences, SequencesExt

CONSTANTS
  Commits,    \* the commits that wrote the file
  MaxLines    \* bound: lines of the file

VARIABLES
  blame,    \* the commit of every line of the file
  cuts,     \* lines at which git starts a chunk though the commit stays the same
  next,     \* the line of output the scanner reads next
  eof,      \* the line before which the output ends
  chunks,   \* commitHashToChunkMap: LineRanges, the commit's data, alreadyFilled
  owner,    \* lnoToChunkMap
  chunk, currLineNumber, linesInChunk,   \* locals of processNextChunk
  pc

vars == <<blame, cuts, next, eof, chunks, owner, chunk, currLineNumber, linesInChunk, pc>>

-----------------------------------------------------------------------------
(* git blame --porcelain, external: for every line of the file a header,   *)
(* for the first line of a commit its data, and the code.                  *)

StartsChunk(l) == l = 1 \/ blame[l] # blame[l - 1] \/ l \in cuts

ChunkSize(l) ==
  CHOOSE n \in 1 .. Len(blame) - l + 1 :
    /\ l + n > Len(blame) \/ StartsChunk(l + n)
    /\ \A k \in 1 .. n - 1 : ~StartsChunk(l + k)

FirstOfCommit(l) == \A m \in 1 .. l - 1 : blame[m] # blame[l]

Place == [line : 1 .. Len(blame) + 1, item : {"head", "data", "code"}]

IsOutput(x) ==
  IF x.line > Len(blame) THEN x.item = "head" ELSE x.item = "data" => FirstOfCommit(x.line)

After(x) ==
  IF x.item = "code" THEN [line |-> x.line + 1, item |-> "head"]
  ELSE [line |-> x.line, item |-> IF x.item = "head" /\ FirstOfCommit(x.line) THEN "data" ELSE "code"]

\* the header of a chunk has its commit and size
Output ==
  IF next.item # "head" THEN [k |-> next.item]
  ELSE IF StartsChunk(next.line)
  THEN [k |-> "chunk", commit |-> blame[next.line], line |-> next.line, size |-> ChunkSize(next.line)]
  ELSE [k |-> "line", line |-> next.line]

AtEnd == next = eof

\* an output that is whole, or ends where another chunk would begin
EndsWhole == eof.item = "head" /\ (eof.line > Len(blame) \/ StartsChunk(eof.line))

-----------------------------------------------------------------------------
NoChunk == [ranges |-> <<>>, data |-> FALSE, alreadyFilled |-> FALSE]

Init ==
  /\ \E n \in 0 .. MaxLines : blame \in [1 .. n -> Commits]
  /\ cuts \in SUBSET (2 .. Len(blame))
  /\ next = [line |-> 1, item |-> "head"]
  /\ eof \in {x \in Place : IsOutput(x)}
  /\ chunks = [c \in Commits |-> NoChunk]
  /\ owner = <<>>
  /\ chunk = CHOOSE c \in Commits : TRUE   \* not read before processNextChunk sets it
  /\ currLineNumber = 0
  /\ linesInChunk = 0
  /\ pc = "header"

\* The test without its equality merges over the lines of other commits.
Merges_Any(ranges, start, end) == ranges # <<>> /\ end - 1 >= ranges[Len(ranges)].end

\* "attempt to merge this chunk interval with the previous"
Merges(ranges, start, end) == ranges # <<>> /\ end - 1 = ranges[Len(ranges)].end

AddRange(ranges, start, end) ==
  IF Merges(ranges, start, end)
  THEN [ranges EXCEPT ![Len(ranges)].end = end]
  ELSE Append(ranges, [start |-> start, end |-> end])

\* processNextChunk up to its loop; GitBlameBlob ends its own loop when the
\* scanner has no line, and also, before it looks at the error, when the line
\* is not the header of a chunk
Header ==
  /\ pc = "header"
  /\ IF AtEnd \/ Output.k # "chunk"
     THEN pc' = "done" /\ UNCHANGED <<next, chunks, chunk, currLineNumber, linesInChunk>>
     ELSE /\ pc' = "chunk"
          /\ chunk' = Output.commit
          /\ currLineNumber' = Output.line
          /\ linesInChunk' = Output.size
          /\ chunks' = [chunks EXCEPT ![Output.commit].ranges =
                          AddRange(@, Output.line, Output.line + Output.size - 1)]
          /\ next' = After(next)
  /\ UNCHANGED <<blame, cuts, eof, owner>>

\* The loop goes on for one line more than the chunk has.
ChunkRead_OneMore(left) == left + 1 = 0

\* for linesInChunk != 0
ChunkRead(left) == left = 0

\* one turn of the loop of processNextChunk; a Scan that fails leaves the
\* empty line, which is none of the cases
ScanLine ==
  /\ pc = "chunk"
  /\ IF AtEnd THEN UNCHANGED <<next, chunks, owner, currLineNumber, linesInChunk, pc>>
     ELSE /\ next' = After(next)
          /\ \/ /\ Output.k = "line"
                /\ currLineNumber' = Output.line
                /\ UNCHANGED <<chunks, owner, linesInChunk, pc>>
             \/ /\ Output.k = "code"
                /\ chunks' = [chunks EXCEPT ![chunk].alreadyFilled = TRUE]
                /\ owner' = [l \in DOMAIN owner \cup {currLineNumber} |->
                               IF l = currLineNumber THEN chunk ELSE owner[l]]
                /\ linesInChunk' = linesInChunk - 1
                /\ pc' = IF ChunkRead(linesInChunk') THEN "header" ELSE "chunk"
                /\ UNCHANGED currLineNumber
             \/ /\ Output.k \in {"data", "chunk"}
                /\ chunks' = IF chunks[chunk].alreadyFilled \/ Output.k = "chunk" THEN chunks
                             ELSE [chunks EXCEPT ![chunk].data = TRUE]
                /\ UNCHANGED <<owner, currLineNumber, linesInChunk, pc>>
  /\ UNCHANGED <<blame, cuts, eof, chunk>>

Next == Header \/ ScanLine

Fairness == WF_vars(Next)

Spec == Init /\ [][Next]_vars /\ Fairness

-----------------------------------------------------------------------------
RangeLines(c) == UNION {r.start .. r.end : r \in ToSet(chunks[c].ranges)}

\* A line of the result is attributed to the commit git blames for it, with
\* that commit's data; the ranges of a commit are disjoint and cover, once a
\* chunk is read, exactly the commit's lines read so far.  It holds though
\* git's chunks may split a run of lines, and however much output arrives
\* (processNextChunk).
BlameExact ==
  /\ \A l \in DOMAIN owner : owner[l] = blame[l] /\ chunks[owner[l]].data
  /\ \A c \in Commits : \A i, j \in 1 .. Len(chunks[c].ranges) :
       i < j => chunks[c].ranges[i].end < chunks[c].ranges[j].start
  /\ pc # "chunk" => \A c \in Commits : RangeLines(c) = {l \in DOMAIN owner : owner[l] = c}

\* the loop of processNextChunk at the end of the output, which Scan never passes
ScansForEver == pc = "chunk" /\ AtEnd

\* "keep scanning until we hit linesInChunk codeLines": the request is answered
\* if and only if the output ends between two chunks.  Cut inside a chunk,
\* wherever that is, the loop takes the failing Scan for an empty line for ever.
Answered == IF EndsWhole THEN pc = "done" ELSE ScansForEver
BlameEnds == <>Answered
=============================================================================
