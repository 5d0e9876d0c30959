------------------------------- MODULE SearchV2 -------------------------------
(***************************************************************************)
(* doSearchV2: the web server sends a query to its backend, and to the     *)
(* backup when the backend is unavailable, and merges the matches of each  *)
(* file, whose context lines overlap, into one result with sorted lines.   *)
(*                                                                         *)
(* A tree or a path is a sequence of words joined by "-" (a number stands  *)
(* for a word).  The text of a line is named by its place.                 *)
(***************************************************************************)
EXTENDS Naturals, Sequences, FiniteSets, SequencesExt

CONSTANTS
  Trees, Paths,
  FileLines,     \* lines of every file
  Context,       \* lines of context the backend sends on each side of a match
  MaxResults     \* bound: matches of an answer

SearchV2Assumption ==
  Trees \subseteq Seq(Nat) /\ Paths \subseteq Seq(Nat) /\ FileLines \in Nat /\ Context \in Nat

VARIABLES
  up,        \* whether the backend and the backup, if there is one, answer
  answers,   \* what each of the two would answer: its matches, in its order
  search,    \* the matches not merged yet
  backendIdxUsed,
  files,     \* dedupedResults: a result of the reply for every key
  ranged,    \* the keys the loop over dedupedResults has visited
  reply,     \* reply.Results
  pc

vars == <<up, answers, search, backendIdxUsed, files, ranged, reply, pc>>

Match == [tree : Trees, path : Paths, line : 1 .. FileLines, bounds : 1 .. 2]

Answers == {a \in UNION {[1 .. n -> Match] : n \in 0 .. MaxResults} :
              \A i, j \in 1 .. Len(a) : i # j =>
                <<a[i].tree, a[i].path, a[i].line>> # <<a[j].tree, a[j].path, a[j].line>>}

TextOf(m, l) == <<m.tree, m.path, l>>

\* CodeSearchResult, external: the lines before the match from the nearest on
ContextBefore(m) == [k \in 1 .. (IF m.line <= Context THEN m.line - 1 ELSE Context) |->
                       TextOf(m, m.line - k)]
ContextAfter(m) == [k \in 1 .. (IF m.line + Context > FileLines THEN FileLines - m.line ELSE Context) |->
                      TextOf(m, m.line + k)]

Init ==
  /\ up \in [primary : {"up", "unavailable", "failing"},
            backup : {"up", "unavailable", "none"}]
  /\ \E a \in Answers : answers = [primary |-> a, backup |-> SubSeq(a, 2, Len(a))]
  /\ search = <<>>
  /\ backendIdxUsed = FALSE
  /\ files = <<>>
  /\ ranged = {}
  /\ reply = <<>>
  /\ pc = "primary"

-----------------------------------------------------------------------------
\* Search of the backend; on status 14, Unavailable, of the backup
TryPrimary ==
  /\ pc = "primary"
  /\ pc' = IF up.primary = "up" THEN "merge"
           ELSE IF up.primary = "unavailable" /\ up.backup # "none" THEN "backup"
           ELSE "failed"
  /\ search' = IF pc' = "merge" THEN answers.primary ELSE <<>>
  /\ UNCHANGED <<up, answers, backendIdxUsed, files, ranged, reply>>

TryBackup ==
  /\ pc = "backup"
  /\ backendIdxUsed' = TRUE
  /\ pc' = IF up.backup = "up" THEN "merge" ELSE "failed"
  /\ search' = IF pc' = "merge" THEN answers.backup ELSE <<>>
  /\ UNCHANGED <<up, answers, files, ranged, reply>>

Key(m) == m.tree \o m.path

ContextLinesInit(m) == Reverse(ContextBefore(m)) \o <<TextOf(m, m.line)>> \o ContextAfter(m)

\* A context line takes the bounds of a match on the same line away.
Bounds_Overwritten(m, old, l) == IF l = m.line THEN m.bounds ELSE 0

\* "defer to the existing bounds information"
Bounds(m, old, l) ==
  LET new == IF l = m.line THEN m.bounds ELSE 0
  IN  IF l \in DOMAIN old /\ old[l].bounds > new THEN old[l].bounds ELSE new

Merge(m) ==
  LET old   == IF Key(m) \in DOMAIN files THEN files[Key(m)].lines ELSE <<>>
      texts == ContextLinesInit(m)
      begin == m.line - Len(ContextBefore(m))
      fresh == [l \in begin .. begin + Len(texts) - 1 |->
                  [bounds |-> Bounds(m, old, l), text |-> texts[l - begin + 1]]]
      lines == [l \in DOMAIN old \cup DOMAIN fresh |->
                  IF l \in DOMAIN fresh THEN fresh[l] ELSE old[l]]
  IN  IF Key(m) \in DOMAIN files
      THEN [files EXCEPT ![Key(m)].lines = lines, ![Key(m)].numMatches = @ + 1]
      ELSE [k \in DOMAIN files \cup {Key(m)} |->
              IF k \in DOMAIN files THEN files[k]
              ELSE [tree |-> m.tree, path |-> m.path, lines |-> lines, numMatches |-> 1]]

MergeResult ==
  /\ pc = "merge"
  /\ search # <<>>
  /\ files' = Merge(Head(search))
  /\ search' = Tail(search)
  /\ UNCHANGED <<up, answers, backendIdxUsed, ranged, reply, pc>>

\* strings compared word by word
Less(a, b) ==
  \E k \in 1 .. Len(b) :
    /\ \A j \in 1 .. k - 1 : j <= Len(a) /\ a[j] = b[j]
    /\ Len(a) < k \/ a[k] < b[k]

ResultLess(r, s) == IF r.tree # s.tree THEN Less(r.tree, s.tree) ELSE Less(r.path, s.path)

\* ContextLines to Lines, sorted; the map is ranged over in any order
RenderFile ==
  /\ pc = "merge"
  /\ search = <<>>
  /\ \E k \in DOMAIN files \ ranged :
       LET lines == files[k].lines
       IN  \E order \in [1 .. Cardinality(DOMAIN lines) -> DOMAIN lines] :
             /\ ToSet(order) = DOMAIN lines
             /\ \A n \in 2 .. Len(order) : order[n - 1] < order[n]
             /\ reply' = Append(reply,
                  [tree |-> files[k].tree, path |-> files[k].path, numMatches |-> files[k].numMatches,
                   lines |-> [n \in 1 .. Len(order) |->
                                [lno |-> order[n], bounds |-> lines[order[n]].bounds, text |-> lines[order[n]].text]]])
             /\ ranged' = ranged \cup {k}
  /\ UNCHANGED <<up, answers, search, backendIdxUsed, files, pc>>

\* sort.Slice of the results: none is less than one before it
SortResults ==
  /\ pc = "merge"
  /\ search = <<>>
  /\ ranged = DOMAIN files
  /\ \E p \in Bijection(1 .. Len(reply), 1 .. Len(reply)) :
       /\ reply' = [n \in 1 .. Len(reply) |-> reply[p[n]]]
       /\ \A j, k \in 1 .. Len(reply) : j < k => ~ResultLess(reply'[k], reply'[j])
  /\ pc' = "replied"
  /\ UNCHANGED <<up, answers, search, backendIdxUsed, files, ranged>>

Next == TryPrimary \/ TryBackup \/ MergeResult \/ RenderFile \/ SortResults

Spec == Init /\ [][Next]_vars

-----------------------------------------------------------------------------
Used == IF backendIdxUsed THEN answers.backup ELSE answers.primary

Matches(r) == {m \in ToSet(Used) : m.tree = r.tree /\ m.path = r.path}

Window(m) == {l \in 1 .. FileLines : l + Context >= m.line /\ l <= m.line + Context}

\* the matches with the key of r are all of the file of r
OneFile(r) == \A m \in ToSet(Used) : Key(m) = Key(r) => m.tree = r.tree /\ m.path = r.path

\* The reply has one result for each key of a match in the answer of the one
\* backend that was used, and they are in order.  Where the key is that of one
\* file ("%s-%s" may name two), the lines of the result are the contexts of the
\* file's matches, once each, in order, with the text of that line of that
\* file, and a line has bounds exactly if it is a match, however the contexts
\* overlap and in whatever order the matches came (doSearchV2; "Bounds may or
\* may not be defined. If they are, then this line is a match").
ReplyExact ==
  pc = "replied" =>
    /\ \A m \in ToSet(Used) : \E r \in ToSet(reply) : Key(r) = Key(m)
    /\ \A r \in ToSet(reply) : \E m \in ToSet(Used) : m.tree = r.tree /\ m.path = r.path
    /\ \A j, k \in 1 .. Len(reply) :
         j < k => ResultLess(reply[j], reply[k]) /\ Key(reply[j]) # Key(reply[k])
    /\ \A r \in ToSet(reply) : OneFile(r) =>
         /\ r.numMatches = Cardinality(Matches(r))
         /\ {r.lines[n].lno : n \in 1 .. Len(r.lines)} = UNION {Window(m) : m \in Matches(r)}
         /\ \A n \in 1 .. Len(r.lines) :
              /\ n > 1 => r.lines[n - 1].lno < r.lines[n].lno
              /\ r.lines[n].text = <<r.tree, r.path, r.lines[n].lno>>
              /\ IF \E m \in Matches(r) : m.line = r.lines[n].lno
                 THEN \E m \in Matches(r) : m.line = r.lines[n].lno /\ r.lines[n].bounds = m.bounds
                 ELSE r.lines[n].bounds = 0
=============================================================================
