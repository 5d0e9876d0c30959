------------------------------ MODULE LoadRepos ------------------------------
(***************************************************************************)
(* livegrep-github-reindex up to the configuration it writes.  loadRepos:  *)
(* a dispatcher sends the jobs (a repository, an organization, a user) on  *)
(* jobc, Workers goroutines run them and send what they got on repoc, main *)
(* collects.  A job of several pages runs callGitHubConcurrently: a        *)
(* goroutine per further page, at most Limit of them calling GitHub at a   *)
(* time, their answers in resStream, which a last goroutine closes.  The   *)
(* first error makes the collector at either level return at once.         *)
(***************************************************************************)
EXTENDS Naturals, Sequences, SequencesExt, FiniteSets

CONSTANTS
    Listing,        \* by job, by page: the names of the repositories GitHub lists
    Worker,         \* the Workers goroutines
    Limit,          \* *flagMaxConcurrentGHRequests
    Excluded,       \* the names of forks, archived and ignored repositories
    MaxBad          \* bound: pages whose request fails

LoadAssumption ==
    /\ Limit \in Nat \ {0} /\ MaxBad \in Nat /\ Worker # {}
    /\ Listing \in Seq(Seq(Seq(Nat)))
    /\ \A j \in DOMAIN Listing : Listing[j] # <<>>

Job == DOMAIN Listing
Pages(j) == DOMAIN Listing[j]
Page == UNION {{<<j, p>> : p \in Pages(j)} : j \in Job}
FurtherPages(j) == Pages(j) \ {1}

(* A *github.Repository, by where it was listed; its FullName.             *)
ReposOf(j, p) == [i \in DOMAIN Listing[j][p] |-> <<j, p, i>>]
Places(j, ps) == UNION {ToSet(ReposOf(j, p)) : p \in ps}
FullName(x) == Listing[x[1]][x[2]][x[3]]

VARIABLES
    bad,            \* the pages <<j, p>> whose request fails
    sent,           \* the dispatcher has sent the jobs 1..sent
    jobcClosed, done,
    wpc, wjob,      \* worker: "take", "first", "pages", "out", "exited"
    gpc,            \* page goroutines: "new", "call", "release", "exited"
    stream,         \* resStream of a job: the pages answered and not yet read
    streamClosed,
    matrix,         \* resultsMatrix: the pages stored
    res,            \* what a worker is about to send: [repos, err]
    mpc,            \* main: "range", "config", "fatal", "written"
    out, config

dispatcher == <<sent, jobcClosed>>
pagevars == <<gpc, stream, streamClosed, matrix>>
vars == <<bad, dispatcher, done, wpc, wjob, pagevars, res, mpc, out, config>>

NoResult == [repos |-> <<>>, err |-> FALSE]
Error == [repos |-> <<>>, err |-> TRUE]
Found(s) == [repos |-> s, err |-> FALSE]

Init ==
    /\ bad \in {b \in SUBSET Page : Cardinality(b) <= MaxBad}
    /\ sent = 0 /\ jobcClosed = FALSE /\ done = FALSE
    /\ wpc = [w \in Worker |-> "take"] /\ wjob = [w \in Worker |-> 0]
    /\ gpc = [j \in Job |-> [p \in FurtherPages(j) |-> "none"]]
    /\ stream = [j \in Job |-> <<>>] /\ streamClosed = [j \in Job |-> FALSE]
    /\ matrix = [j \in Job |-> {}]
    /\ res = [w \in Worker |-> NoResult]
    /\ mpc = "range" /\ out = <<>> /\ config = <<>>

-----------------------------------------------------------------------------
(* The dispatcher and a worker in its first select meet on jobc.           *)
SendJob(w) ==
    /\ ~jobcClosed /\ sent < Len(Listing) /\ wpc[w] = "take"
    /\ sent' = sent + 1
    /\ wpc' = [wpc EXCEPT ![w] = "first"]
    /\ wjob' = [wjob EXCEPT ![w] = sent + 1]
    /\ UNCHANGED <<bad, jobcClosed, done, pagevars, res, mpc, out, config>>

(* All jobs sent, or <-done: the deferred close(jobc).                     *)
CloseJobs ==
    /\ ~jobcClosed /\ (sent = Len(Listing) \/ done)
    /\ jobcClosed' = TRUE
    /\ UNCHANGED <<bad, sent, done, wpc, wjob, pagevars, res, mpc, out, config>>

WorkerExits(w) ==
    /\ wpc[w] \in {"take", "out"}
    /\ done \/ (wpc[w] = "take" /\ jobcClosed)
    /\ wpc' = [wpc EXCEPT ![w] = "exited"]
    /\ UNCHANGED <<bad, dispatcher, done, wjob, pagevars, res, mpc, out, config>>

(* getOneRepo, or the first page of getOrgRepos and getUserRepos: with no  *)
(* further page the job is over, otherwise a goroutine per page starts.    *)
FirstPage(w) ==
    LET j == wjob[w] IN
    /\ wpc[w] = "first"
    /\ IF <<j, 1>> \in bad \/ FurtherPages(j) = {}
       THEN /\ res' = [res EXCEPT ![w] = IF <<j, 1>> \in bad THEN Error
                                         ELSE Found(ReposOf(j, 1))]
            /\ wpc' = [wpc EXCEPT ![w] = "out"]
            /\ UNCHANGED pagevars
       ELSE /\ matrix' = [matrix EXCEPT ![j] = {1}]
            /\ gpc' = [gpc EXCEPT ![j] = [p \in FurtherPages(j) |-> "new"]]
            /\ wpc' = [wpc EXCEPT ![w] = "pages"]
            /\ UNCHANGED <<stream, streamClosed, res>>
    /\ UNCHANGED <<bad, dispatcher, done, wjob, mpc, out, config>>

(* s <- true: the semaphore is a channel with room for Limit.              *)
Holding(j) == {p \in FurtherPages(j) : gpc[j][p] \in {"call", "release"}}
Acquire(j, p) ==
    /\ gpc[j][p] = "new" /\ Cardinality(Holding(j)) < Limit
    /\ gpc' = [gpc EXCEPT ![j][p] = "call"]
    /\ UNCHANGED <<bad, dispatcher, done, wpc, wjob, stream, streamClosed, matrix, res,
                   mpc, out, config>>

(* The request returns and its answer goes to resStream, which has room    *)
(* for all of them (pagesToCall).                                          *)
StreamRoom(j) == Cardinality(FurtherPages(j))
Answer(j, p) ==
    /\ gpc[j][p] = "call" /\ Len(stream[j]) < StreamRoom(j)
    /\ stream' = [stream EXCEPT ![j] = Append(@, p)]
    /\ gpc' = [gpc EXCEPT ![j][p] = "release"]
    /\ UNCHANGED <<bad, dispatcher, done, wpc, wjob, streamClosed, matrix, res, mpc,
                   out, config>>

(* <-s, then the deferred w.Done().                                        *)
Release(j, p) ==
    /\ gpc[j][p] = "release"
    /\ gpc' = [gpc EXCEPT ![j][p] = "exited"]
    /\ UNCHANGED <<bad, dispatcher, done, wpc, wjob, stream, streamClosed, matrix, res,
                   mpc, out, config>>

(* wg.Wait(): wg.Add(1) precedes each go statement, so that a goroutine    *)
(* that has not run yet counts.                                            *)
Waited(j) == \A p \in FurtherPages(j) : gpc[j][p] = "exited"
CloseStream(j) ==
    /\ FurtherPages(j) # {} /\ ~streamClosed[j]
    /\ \A p \in FurtherPages(j) : gpc[j][p] # "none"
    /\ Waited(j)
    /\ streamClosed' = [streamClosed EXCEPT ![j] = TRUE]
    /\ UNCHANGED <<bad, dispatcher, done, wpc, wjob, gpc, stream, matrix, res, mpc, out,
                   config>>

(* for res := range resStream.                                             *)
ReadStream(w) ==
    LET j == wjob[w]  p == Head(stream[wjob[w]]) IN
    /\ wpc[w] = "pages" /\ stream[j] # <<>>
    /\ stream' = [stream EXCEPT ![j] = Tail(@)]
    /\ IF <<j, p>> \in bad
       THEN /\ res' = [res EXCEPT ![w] = Error]
            /\ wpc' = [wpc EXCEPT ![w] = "out"]
            /\ UNCHANGED matrix
       ELSE matrix' = [matrix EXCEPT ![j] = @ \cup {p}] /\ UNCHANGED <<res, wpc>>
    /\ UNCHANGED <<bad, dispatcher, done, wjob, gpc, streamClosed, mpc, out, config>>

(* resStream is closed and empty: flatten the matrix.                      *)
Flattened(S) ==
    {s \in Bijection(1..Cardinality(S), S) :
        \A i, k \in DOMAIN s :
            i < k => s[i][2] < s[k][2] \/ (s[i][2] = s[k][2] /\ s[i][3] < s[k][3])}
StreamEnds(w) ==
    LET j == wjob[w] IN
    /\ wpc[w] = "pages" /\ stream[j] = <<>> /\ streamClosed[j]
    /\ \E s \in Flattened(Places(j, matrix[j])) : res' = [res EXCEPT ![w] = Found(s)]
    /\ wpc' = [wpc EXCEPT ![w] = "out"]
    /\ UNCHANGED <<bad, dispatcher, done, wjob, pagevars, mpc, out, config>>

(* main receives from repoc; at an error it closes done and returns.       *)
Collect(w) ==
    /\ mpc = "range" /\ wpc[w] = "out"
    /\ wpc' = [wpc EXCEPT ![w] = "take"]
    /\ IF res[w].err
       THEN done' = TRUE /\ mpc' = "fatal" /\ UNCHANGED out
       ELSE out' = out \o res[w].repos /\ UNCHANGED <<done, mpc>>
    /\ UNCHANGED <<bad, dispatcher, wjob, pagevars, res, config>>

(* wg.Wait(); close(repoc): main's range ends.                             *)
RangeEnds_FirstExit ==
    /\ mpc = "range" /\ \E w \in Worker : wpc[w] = "exited"
    /\ mpc' = "config"
    /\ UNCHANGED <<bad, dispatcher, done, wpc, wjob, pagevars, res, out, config>>
RangeEnds ==
    /\ mpc = "range" /\ \A w \in Worker : wpc[w] = "exited"
    /\ mpc' = "config"
    /\ UNCHANGED <<bad, dispatcher, done, wpc, wjob, pagevars, res, out, config>>

(* filterRepos, sort.Sort(ReposByName), which need not be stable,          *)
(* buildConfig and writeConfig.                                            *)
FilterRepos == {i \in DOMAIN out : FullName(out[i]) \notin Excluded}
WriteConfig ==
    LET n == Cardinality(FilterRepos) IN
    /\ mpc = "config"
    /\ \E p \in Bijection(1..n, FilterRepos) :
          /\ config' = [i \in 1..n |-> out[p[i]]]
          /\ \A i, k \in 1..n : i < k => ~(FullName(config'[k]) < FullName(config'[i]))
    /\ mpc' = "written"
    /\ UNCHANGED <<bad, dispatcher, done, wpc, wjob, pagevars, res, out>>

Next ==
    \/ CloseJobs \/ RangeEnds \/ WriteConfig
    \/ \E w \in Worker : \/ SendJob(w) \/ WorkerExits(w) \/ FirstPage(w) \/ ReadStream(w)
                         \/ StreamEnds(w) \/ Collect(w)
    \/ \E j \in Job : \/ CloseStream(j)
                      \/ \E p \in FurtherPages(j) : Acquire(j, p) \/ Answer(j, p)
                                                    \/ Release(j, p)

(* The Go scheduler runs what can run; requests to GitHub return.          *)
Spec == Init /\ [][Next]_vars /\ WF_vars(Next)

-----------------------------------------------------------------------------
(***************************************************************************)
(* The configuration that is written lists, in the order of their names,   *)
(* exactly the repositories that GitHub listed and no flag excludes, each  *)
(* as often as it was listed: no page and no job is lost to the channels   *)
(* or taken twice, and no failed request is taken for an empty page.       *)
(***************************************************************************)
AllListed == UNION {Places(j, Pages(j)) : j \in Job}
ConfigExact ==
    mpc = "written" =>
        /\ bad = {}
        /\ ToSet(config) = {x \in AllListed : FullName(x) \notin Excluded}
        /\ IsInjective(config)
        /\ \A i, k \in DOMAIN config : i < k => FullName(config[i]) <= FullName(config[k])

(***************************************************************************)
(* Whatever fails, main finishes and every goroutine, of the workers and   *)
(* of the pages, exits: none stays blocked on a channel nobody reads after *)
(* an early return.                                                        *)
(***************************************************************************)
AllExited ==
    /\ mpc \in {"written", "fatal"} /\ jobcClosed
    /\ \A w \in Worker : wpc[w] = "exited"
    /\ \A j \in Job : \A p \in FurtherPages(j) : gpc[j][p] \in {"none", "exited"}
NoGoroutineLeaks == <>AllExited
=============================================================================
