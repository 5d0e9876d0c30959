-------------------------------- MODULE GitLog --------------------------------
(***************************************************************************)
(* The commit log of a file: BuildGitLog and its parser, the handlers that *)
(* serve a page of it (ServeGitLogJson, ServeGitLogForZoekt), the history  *)
(* table of the file view page that asks for the pages, and the older      *)
(* BuildSimpleGitLogData.  The branch may gain commits between two pages.  *)
(*                                                                         *)
(* A text is the sequence of its lines; the output of git log is the       *)
(* sequence of its NUL-separated texts.                                    *)
(***************************************************************************)
EXTENDS Naturals, Sequences, FiniteSets

CONSTANTS
  Step,         \* cursorStep of the page, and the 1000 of the simple log
  Hashes,       \* the ids of commits, oldest first
  FileLists,    \* the lists of file names a commit may have changed
  MaxHistory,   \* bound: commits of the branch
  MaxClicks     \* bound: clicks on the buttons

Blank == ""        \* the empty line, no file name and no id
Field == "field"   \* any field of a commit that no property tells apart

LogAssumption ==
  /\ Step \in Nat \ {0} /\ MaxHistory \in Nat
  /\ Hashes \in Seq(STRING \ {Blank}) /\ MaxHistory <= Len(Hashes)
  /\ FileLists \subseteq Seq(STRING \ {Blank})

VARIABLES
  history,   \* the commits of the branch, newest first
  nameOnly,  \* CommitOptions.NameOnly
  inflight,  \* the requests of the page that are not served yet, in any order
  job,       \* the request being served: the rest of rawLog, the commits read
  rows,      \* the rows of the history table
  buttons,   \* "Show more" and "Show all" are on the page
  first,     \* ghost: the history when the first page was read
  clicks,
  simple     \* the last answer of BuildSimpleGitLogData

vars == <<history, nameOnly, inflight, job, rows, buttons, first, clicks, simple>>

Idle == [busy |-> FALSE]

Commit(n, files) == [id |-> Hashes[n], files |-> files]

Histories(n) == [1 .. n -> FileLists]

Init ==
  /\ \E n \in 0 .. MaxHistory : \E f \in Histories(n) :
       history = [i \in 1 .. n |-> Commit(n + 1 - i, f[i])]
  /\ nameOnly \in BOOLEAN
  /\ inflight = <<[skip |-> 0, n |-> Step, all |-> FALSE]>>   \* loadHistory()
  /\ job = Idle
  /\ rows = <<>>
  /\ buttons = FALSE
  /\ first = <<>>
  /\ clicks = 0
  /\ simple = [from |-> 1, commits |-> <<>>, last |-> FALSE, history |-> <<>>]

-----------------------------------------------------------------------------
(* git log, external *)

\* -n limits the commits, after --skip; no -n when N is zero
Selected(h, skip, n) ==
  SubSeq(h, skip + 1, IF n = 0 \/ skip + n > Len(h) THEN Len(h) ELSE skip + n)

\* --name-only lists the changed files after a commit that has any
NameLines(c) == IF nameOnly /\ c.files # <<>> THEN <<Blank>> \o c.files \o <<Blank>> ELSE <<Blank>>

\* ten NUL-terminated fields per commit, a newline between two commits
GitOutput(cs) ==
  [j \in 1 .. 10 * Len(cs) + 1 |->
     LET i == ((j - 1) \div 10) + 1
     IN  IF (j - 1) % 10 # 0 THEN <<Field>>
         ELSE IF Len(cs) = 0 THEN <<Blank>>
         ELSE IF i = 1 THEN <<cs[1].id>>
         ELSE IF i = Len(cs) + 1 THEN NameLines(cs[i - 1])
         ELSE NameLines(cs[i - 1]) \o <<cs[i].id>>]

-----------------------------------------------------------------------------
(* fileview.go *)

partsPerCommitBasic == 10
partsPerCommitWithFileNames == 11
PartsPerCommit == IF nameOnly THEN partsPerCommitWithFileNames ELSE partsPerCommitBasic

EmptyLog(raw) == raw = <<>> \/ raw = <<<<Blank>>>>

TrimNewline(t) == IF Len(t) > 1 /\ Head(t) = Blank THEN Tail(t) ELSE t

\* parseCommitFileNames: the names, and the id of the next commit read with them
FileLines(t) ==
  LET names == {k \in 1 .. Len(t) - 1 : t[k] # Blank}
      nth(n) == CHOOSE k \in names : Cardinality({j \in names : j <= k}) = n
  IN  [n \in 1 .. Cardinality(names) |-> t[nth(n)]]
NextCommit(t) == t[Len(t)]

\* parseNextCommitFromLog: the commit at the head of rawLog ...
ParsedCommit(raw) ==
  [id    |-> TrimNewline(raw[1]),
   files |-> IF nameOnly THEN FileLines(TrimNewline(raw[11])) ELSE <<>>]

\* The id read with the names is not put back.
Rest_Dropped(raw) ==
  IF Len(raw) <= PartsPerCommit THEN <<>> ELSE SubSeq(raw, PartsPerCommit + 1, Len(raw))

\* ... and what is left of rawLog after it
Rest(raw) ==
  LET n == PartsPerCommit
  IN  IF Len(raw) <= n THEN <<>>
      ELSE LET rest == SubSeq(raw, n + 1, Len(raw))
           IN  IF nameOnly /\ NextCommit(TrimNewline(raw[11])) # Blank
               THEN <<<<NextCommit(TrimNewline(raw[11]))>>>> \o rest
               ELSE rest

\* A page that is exactly full is taken for the last one.
MaybeLastPage_Full(commits, n) == Len(commits) <= n

MaybeLastPage(commits, n) == Len(commits) < n

RemoveRequest(i) == [j \in 1 .. Len(inflight) - 1 |-> inflight[IF j < i THEN j ELSE j + 1]]

\* the handler takes a request and git answers for the branch as it is now
Serve(i) ==
  /\ job = Idle
  /\ inflight' = RemoveRequest(i)
  /\ LET page == Selected(history, inflight[i].skip, inflight[i].n)
     IN  job' = [busy |-> TRUE, req |-> inflight[i], page |-> page,
                 raw |-> GitOutput(page), commits |-> <<>>]
  /\ first' = IF inflight[i].skip = 0 THEN history ELSE first
  /\ UNCHANGED <<history, nameOnly, rows, buttons, clicks, simple>>

\* git log exits with an error, the handler replies 500 and the page keeps its rows
GitFails(i) ==
  /\ job = Idle
  /\ inflight' = RemoveRequest(i)
  /\ UNCHANGED <<history, nameOnly, job, rows, buttons, first, clicks, simple>>

\* one turn of the loop of parseCommitLogOutput
ParseNext ==
  /\ job.busy
  /\ ~EmptyLog(job.raw)
  /\ IF Len(job.raw) < PartsPerCommit
     THEN job' = Idle    \* "invalid commit log entry", the handler replies 500
     ELSE job' = [job EXCEPT !.raw = Rest(@), !.commits = Append(@, ParsedCommit(job.raw))]
  /\ UNCHANGED <<history, nameOnly, inflight, rows, buttons, first, clicks, simple>>

\* the rest of BuildGitLog, and what loadHistory does with the reply: buttons
\* are made or removed first; the answer to "Show all" then removes the ones it
\* found on the page, and throws before it adds a row when it found none
Reply ==
  /\ job.busy
  /\ EmptyLog(job.raw)
  /\ LET more   == Len(job.commits) >= Step /\ ~MaybeLastPage(job.commits, job.req.n)
         throws == job.req.all /\ ~buttons
     IN  /\ rows' = IF throws THEN rows ELSE rows \o job.commits
         /\ buttons' = (more /\ (job.req.all => throws))
  /\ job' = Idle
  /\ UNCHANGED <<history, nameOnly, inflight, first, clicks, simple>>

\* a click: the buttons were made with data-cursor = cursorStep and keep it
Cursor == Step

Click(all) ==
  /\ buttons
  /\ clicks < MaxClicks
  /\ clicks' = clicks + 1
  /\ inflight' = Append(inflight, [skip |-> Cursor, n |-> IF all THEN 0 ELSE Step, all |-> all])
  /\ UNCHANGED <<history, nameOnly, job, rows, buttons, first, simple>>

\* a fetch of the repository brings a commit
Push(files) ==
  /\ Len(history) < MaxHistory
  /\ history' = <<Commit(Len(history) + 1, files)>> \o history
  /\ UNCHANGED <<nameOnly, inflight, job, rows, buttons, first, clicks, simple>>

\* BuildSimpleGitLogData: -z puts a NUL between the commits, the regular
\* expression wants one after each of them
Terminated(cs) == SubSeq(cs, 1, Len(cs) - 1)

SimpleLog(from) ==
  LET out == Selected(history, from - 1, Step)
      matches == IF out = <<>> THEN <<>> ELSE Terminated(out)
  IN  /\ simple' = [from |-> from, commits |-> matches, last |-> Len(matches) < Step,
                    history |-> history]
      /\ UNCHANGED <<history, nameOnly, inflight, job, rows, buttons, first, clicks>>

Next ==
  \/ \E i \in 1 .. Len(inflight) : Serve(i) \/ GitFails(i)
  \/ ParseNext
  \/ Reply
  \/ \E all \in BOOLEAN : Click(all)
  \/ \E files \in FileLists : Push(files)
  \/ \E from \in 1 .. Len(history) : SimpleLog(from)

Spec == Init /\ [][Next]_vars

-----------------------------------------------------------------------------
CommitIds(cs) == {cs[i].id : i \in 1 .. Len(cs)}

\* The parser reads, without an error, exactly the commits of the page, each
\* with its own changed files, whether names were asked for or not, merges
\* without files included (parseNextCommitFromLog, parseCommitFileNames).
LogExact ==
  job.busy =>
    LET read == Len(job.commits)
    IN  /\ read <= Len(job.page)
        /\ IF EmptyLog(job.raw) THEN read = Len(job.page) ELSE Len(job.raw) >= PartsPerCommit
        /\ \A i \in 1 .. read :
             job.commits[i] = [id    |-> <<job.page[i].id>>,
                               files |-> IF nameOnly THEN job.page[i].files ELSE <<>>]

\* When the page offers no further button and waits for no answer, every
\* commit the branch had at the first page is in the table, whatever was
\* pushed between the pages and in whatever order the answers came
\* (MaybeLastPage of BuildGitLog, loadHistory).
DoneMeansAll ==
  (rows # <<>> /\ ~buttons /\ inflight = <<>> /\ job = Idle)
    => \A i \in 1 .. Len(first) : <<first[i].id>> \in CommitIds(rows)

\* "{{ if not .MaybeLastPage }}", the condition of the button that loads more:
\* a simple log without the button has shown every commit from its first one
\* on (BuildSimpleGitLogData).
SimpleLogWhole ==
  simple.last => Len(simple.commits) = Len(simple.history) - simple.from + 1
=============================================================================
