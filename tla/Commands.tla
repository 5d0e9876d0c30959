------------------------------ MODULE Commands ------------------------------
(***************************************************************************)
(* The Go programs, checked in one run: livegrep-github-reindex loads the  *)
(* list of repositories, livegrep-fetch-reindex fetches and indexes them,  *)
(* and lgiap asks several queries at once. The parts do not share state:   *)
(* an initial state picks the one that runs.                               *)
(***************************************************************************)
EXTENDS Naturals, Sequences

CONSTANTS
  Listing, Worker, Limit, Excluded, MaxBad, Repo, Branch, MaxChange,
  MaxFault, Compositions

VARIABLES
  part,   \* the part that runs
  bad, sent, jobcClosed, done, wpc, wjob, gpc, stream, streamClosed, matrix,
  res, load_mpc, out, config,
  remote, changes, faults, clone, pc, co, fetch, ls, tries, tmp, index,
  serving, wanted, raced,
  comp, failing, qpc, cancelled, lgiap_mpc, results, at, allFound,
  excludedFiles, excludedRepos, seen, output

Load == INSTANCE LoadRepos WITH mpc <- load_mpc
Fetch == INSTANCE FetchReindex
Lgiap == INSTANCE CompositeQuery WITH mpc <- lgiap_mpc

ASSUME Assumptions ==
  Load!LoadAssumption /\ Fetch!FetchAssumption /\ Lgiap!CompositeAssumption

loadVars == <<bad, sent, jobcClosed, done, wpc, wjob, gpc, stream,
              streamClosed, matrix, res, load_mpc, out, config>>
fetchVars == <<remote, changes, faults, clone, pc, co, fetch, ls, tries,
               tmp, index, serving, wanted, raced>>
lgiapVars == <<comp, failing, qpc, cancelled, lgiap_mpc, results, at,
               allFound, excludedFiles, excludedRepos, seen, output>>
all == <<part, loadVars, fetchVars, lgiapVars>>

\* the parts that do not run keep still
off == "off"
OffLoad == bad = off /\ sent = off /\ jobcClosed = off /\ done = off /\
           wpc = off /\ wjob = off /\ gpc = off /\ stream = off /\
           streamClosed = off /\ matrix = off /\ res = off /\ load_mpc = off
           /\ out = off /\ config = off
OffFetch == remote = off /\ changes = off /\ faults = off /\ clone = off /\
            pc = off /\ co = off /\ fetch = off /\ ls = off /\ tries = off
            /\ tmp = off /\ index = off /\ serving = off /\ wanted = off /\
            raced = off
OffLgiap == comp = off /\ failing = off /\ qpc = off /\ cancelled = off /\
            lgiap_mpc = off /\ results = off /\ at = off /\ allFound = off /\
            excludedFiles = off /\ excludedRepos = off /\ seen = off /\
            output = off

Init ==
  \/ part = "Load" /\ Load!Init /\ OffFetch /\ OffLgiap
  \/ part = "Fetch" /\ Fetch!Init /\ OffLoad /\ OffLgiap
  \/ part = "Lgiap" /\ Lgiap!Init /\ OffLoad /\ OffFetch

LoadStep(A) ==
  /\ part = "Load" /\ A
  /\ UNCHANGED <<part, fetchVars, lgiapVars>>
FetchStep(A) ==
  /\ part = "Fetch" /\ A
  /\ UNCHANGED <<part, loadVars, lgiapVars>>
LgiapStep(A) ==
  /\ part = "Lgiap" /\ A
  /\ UNCHANGED <<part, loadVars, fetchVars>>

Next ==
  \/ LoadStep(Load!Next)
  \/ FetchStep(Fetch!Next)
  \/ LgiapStep(Lgiap!Next)

Spec == Init /\ [][Next]_all
        \* the fairness of each part (only one runs, so fairness of the union is fairness of it)
        /\ WF_all(\/ LoadStep(Load!Next)
                  \/ FetchStep(Fetch!Step)
                  \/ LgiapStep(Lgiap!Next))

-----------------------------------------------------------------------------
\* LoadRepos.ConfigExact: the configuration lists the repositories of the jobs.
ConfigExact == part = "Load" => Load!ConfigExact

\* FetchReindex.IndexWhole: the index file is never a partial one.
IndexWhole == part = "Fetch" => Fetch!IndexWhole

\* FetchReindex.PublishedIsFresh: an index that is published has what the run fetched.
PublishedIsFresh == part = "Fetch" => Fetch!PublishedIsFresh

\* FetchReindex.Converges: killed runs and failed commands are made good.
Converges == <>[](part = "Fetch" => Fetch!UpToDate)

\* CompositeQuery.OutputExact: every line that qualifies is printed once, in the
\* version that arrived first.
OutputExact == part = "Lgiap" => Lgiap!OutputExact

\* LoadRepos.NoGoroutineLeaks and CompositeQuery.CompositeFinishes: whatever
\* fails, the programs finish and no goroutine stays blocked on a channel.
ToolsFinish ==
  <>(/\ part = "Load" => Load!AllExited
     /\ part = "Lgiap" => Lgiap!Finished)
=============================================================================
