--------------------------- MODULE CompositeQuery ---------------------------
(***************************************************************************)
(* lgiap composite: the queries of a composition run concurrently, each    *)
(* answer goes to resultCh, the first error cancels the others; when all   *)
(* have succeeded, the answers are combined in the order they arrived,     *)
(* filtered and deduplicated in place, sorted and printed.                 *)
(*                                                                         *)
(* A tree, a version, a path is a number; Blank is the empty string.       *)
(***************************************************************************)
EXTENDS Naturals, Sequences, SequencesExt, FiniteSets

CONSTANT Compositions   \* compositions: [queries, excludeFiles, aware], where a
                        \* query is [op, json, reply], a result [tree, version, path,
                        \* line]; json: the answer's body is JSON

Blank == ""
Includes == {Blank, "include"}
Result == [tree : Nat, version : Nat, path : Nat, line : Nat]

CompositeAssumption ==
    \A c \in Compositions :
        /\ c.aware \in BOOLEAN
        /\ c.queries \in Seq([op : Includes \cup {"exclude_by_file", "exclude_by_repo"},
                              json : BOOLEAN, reply : Seq(Result)])

VARIABLES
    comp,           \* the composition read from the file
    failing,        \* the queries that the server does not answer
    qpc,            \* query goroutines: "run", "deliver", "exited"
    cancelled,      \* ctx
    mpc,            \* "collect", "combine", "dedupe", "error", "printed"
    results,        \* the queries whose result has arrived, in order
    at,             \* the element of results, then of allFound, the loop is at
    allFound, excludedFiles, excludedRepos, seen,
    output

loop == <<at, allFound, excludedFiles, excludedRepos, seen, output>>
vars == <<comp, failing, qpc, cancelled, mpc, results, loop>>

Query == DOMAIN comp.queries

Init ==
    /\ comp \in Compositions
    /\ failing \in SUBSET Query
    /\ qpc = [q \in Query |-> "run"]
    /\ cancelled = FALSE /\ mpc = "collect" /\ results = <<>>
    /\ at = 1 /\ allFound = <<>> /\ excludedFiles = {} /\ excludedRepos = {}
    /\ seen = {} /\ output = <<>>

-----------------------------------------------------------------------------
(* doQuery returns, with an answer or an error; a cancelled request fails. *)
DoQuery(q) ==
    /\ qpc[q] = "run"
    /\ qpc' = [qpc EXCEPT ![q] = "deliver"]
    /\ UNCHANGED <<comp, failing, cancelled, mpc, results, loop>>

(* select { case <-ctx.Done(): ...                                         *)
GiveUp_Never(q) == FALSE /\ qpc[q] = "deliver" /\ UNCHANGED vars
GiveUp(q) ==
    /\ qpc[q] = "deliver" /\ cancelled
    /\ qpc' = [qpc EXCEPT ![q] = "exited"]
    /\ UNCHANGED <<comp, failing, cancelled, mpc, results, loop>>

(* ... case resultCh <- &r: main receives.  The first error ends main, and *)
(* cncl() the rest.                                                        *)
Receive(q) ==
    /\ mpc = "collect" /\ qpc[q] = "deliver" /\ Len(results) # Len(comp.queries)
    /\ qpc' = [qpc EXCEPT ![q] = "exited"]
    /\ IF q \in failing
       THEN cancelled' = TRUE /\ mpc' = "error" /\ UNCHANGED results
       ELSE results' = Append(results, q) /\ UNCHANGED <<cancelled, mpc>>
    /\ UNCHANGED <<comp, failing, loop>>

-----------------------------------------------------------------------------
(* makeExcludedFileKey, makeExcludedRepoKey and makeDedupeKey.             *)
Version(r) == IF comp.aware THEN r.version ELSE Blank
FileKey(r) == [tree |-> r.tree, version |-> Version(r), path |-> r.path]
RepoKey(r) == [FileKey(r) EXCEPT !.path = Blank]
DedupeKey(r) == <<FileKey(r), r.line>>

(* All queries have succeeded: excludedFiles starts with exclude_files.    *)
Collected ==
    /\ mpc = "collect" /\ Len(results) = Len(comp.queries)
    /\ excludedFiles' = comp.excludeFiles
    /\ mpc' = "combine"
    /\ UNCHANGED <<comp, failing, qpc, cancelled, results, at, allFound, excludedRepos, seen,
                   output>>

(* One turn of the loop over the results: switch r.Operator.               *)
Combine ==
    LET q == comp.queries[results[at]]
        Keys(op, Key(_)) == IF q.op = op THEN {Key(q.reply[i]) : i \in DOMAIN q.reply} ELSE {}
    IN
    /\ mpc = "combine" /\ at <= Len(results) /\ q.json
    /\ at' = at + 1
    /\ allFound' = IF q.op \in Includes THEN allFound \o q.reply ELSE allFound
    /\ excludedFiles' = excludedFiles \cup Keys("exclude_by_file", FileKey)
    /\ excludedRepos' = excludedRepos \cup Keys("exclude_by_repo", RepoKey)
    /\ UNCHANGED <<comp, failing, qpc, cancelled, mpc, results, seen, output>>

(* Decode fails: main returns the error, the goroutines are gone.          *)
NotJson ==
    /\ mpc = "combine" /\ at <= Len(results) /\ ~comp.queries[results[at]].json
    /\ mpc' = "error"
    /\ UNCHANGED <<comp, failing, qpc, cancelled, results, loop>>

Combined ==
    /\ mpc = "combine" /\ at > Len(results)
    /\ at' = 1
    /\ mpc' = "dedupe"
    /\ UNCHANGED <<comp, failing, qpc, cancelled, results, allFound, excludedFiles,
                   excludedRepos, seen, output>>

(* The loop that keeps the wanted results at the front of allFound, the    *)
(* slice it ranges over.                                                   *)
NextSlot_SeenFirst == Cardinality(seen) + 2
NextSlot == Cardinality(seen) + 1
Visit ==
    LET found == allFound[at] IN
    /\ mpc = "dedupe" /\ at <= Len(allFound)
    /\ at' = at + 1
    /\ IF \/ FileKey(found) \in excludedFiles \/ RepoKey(found) \in excludedRepos
          \/ DedupeKey(found) \in seen
       THEN UNCHANGED <<allFound, seen>>
       ELSE /\ allFound' = [allFound EXCEPT ![NextSlot] = found]
            /\ seen' = seen \cup {DedupeKey(found)}
    /\ UNCHANGED <<comp, failing, qpc, cancelled, mpc, results, excludedFiles, excludedRepos,
                   output>>

(* formatResults: by tree, path, version (if it counts) and line.          *)
Less(a, b) ==
    LET Key(r) == <<r.tree, r.path, IF comp.aware THEN r.version ELSE 0, r.line>>
        k == Key(a)  l == Key(b)
    IN \E i \in 1..4 : k[i] < l[i] /\ \A h \in 1..(i - 1) : k[h] = l[h]

FormatResults ==
    LET n == Cardinality(seen) IN
    /\ mpc = "dedupe" /\ at > Len(allFound)
    /\ \E p \in Bijection(1..n, 1..n) :   \* sort.Slice
          /\ output' = [i \in 1..n |-> allFound[p[i]]]
          /\ \A i, k \in 1..n : i < k => ~Less(output'[k], output'[i])
    /\ mpc' = "printed"
    /\ UNCHANGED <<comp, failing, qpc, cancelled, results, at, allFound, excludedFiles,
                   excludedRepos, seen>>

Next ==
    \/ Collected \/ Combine \/ NotJson \/ Combined \/ Visit \/ FormatResults
    \/ \E q \in Query : DoQuery(q) \/ GiveUp(q) \/ Receive(q)

(* Requests return, and goroutines that can run do.                        *)
Spec == Init /\ [][Next]_vars /\ WF_vars(Next)

-----------------------------------------------------------------------------
(***************************************************************************)
(* A line of a file is printed once if and only if some include query      *)
(* found it and neither its file nor its repository is excluded by any     *)
(* query or by exclude_files, and the lines are in order; this does not    *)
(* depend on the order in which the answers arrive.  Which version of a    *)
(* line is printed does, if the composition is not aware of versions: it   *)
(* is the one that arrived first, never a later one and never one that     *)
(* was overwritten while the slice was filtered in place.                  *)
(***************************************************************************)
RepliesTo(ops) ==
    UNION {ToSet(comp.queries[q].reply) : q \in {x \in Query : comp.queries[x].op \in ops}}

(* What the answer that arrived n-th gives to allFound.                    *)
Found(n) ==
    LET q == comp.queries[results[n]] IN IF q.op \in Includes THEN q.reply ELSE <<>>
FirstToArrive(r) ==
    \E n \in DOMAIN results : \E i \in DOMAIN Found(n) :
        /\ Found(n)[i] = r
        /\ \A m \in 1..n : \A k \in DOMAIN Found(m) :
              m < n \/ k < i => DedupeKey(Found(m)[k]) # DedupeKey(r)

OutputExact ==
    mpc = "printed" =>
        LET files == comp.excludeFiles \cup {FileKey(r) : r \in RepliesTo({"exclude_by_file"})}
            repos == {RepoKey(r) : r \in RepliesTo({"exclude_by_repo"})}
            wanted == {r \in RepliesTo(Includes) :
                          FileKey(r) \notin files /\ RepoKey(r) \notin repos}
        IN /\ failing = {}
           /\ {DedupeKey(output[i]) : i \in DOMAIN output} = {DedupeKey(r) : r \in wanted}
           /\ \A i \in DOMAIN output : FirstToArrive(output[i])
           /\ \A i, k \in DOMAIN output : i < k => Less(output[i], output[k])

(***************************************************************************)
(* lgiap finishes, with an error if a query failed or an answer cannot be  *)
(* read, and no query goroutine stays blocked on resultCh.                 *)
(***************************************************************************)
Finished ==
    /\ mpc = IF failing = {} /\ \A q \in Query : comp.queries[q].json THEN "printed" ELSE "error"
    /\ \A q \in Query : qpc[q] = "exited"
CompositeFinishes == <>Finished
=============================================================================
