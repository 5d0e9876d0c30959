---------------------------- MODULE FetchReindex ----------------------------
(***************************************************************************)
(* One livegrep-fetch-reindex at a time, run again and again by its        *)
(* scheduler: checkoutOne brings the mirror clone of every repository up   *)
(* to date while the remotes move on, codesearch dumps the index of the    *)
(* clones' HEADs to index.tmp, which is renamed over the index.  The run   *)
(* may be killed at any step; what is on disk stays.                       *)
(*                                                                         *)
(* checkoutRepos is the contract that CheckoutRepos establishes: the       *)
(* repositories are checked out concurrently and in any order, it returns  *)
(* nil if all succeed and an error, after the workers are idle, if one     *)
(* fails.  A remote has one branch, whose tip is a version number; a push  *)
(* raises it and a default-branch rename moves it to another branch.       *)
(***************************************************************************)
EXTENDS Naturals, FiniteSets

CONSTANTS
    Repo, Branch,
    MaxChange,      \* bound: pushes and renames
    MaxFault        \* bound: failed git commands and killed runs

FetchAssumption ==
    IsFiniteSet(Repo) /\ Repo # {} /\ Branch # {} /\ MaxChange \in Nat /\ MaxFault \in Nat

VARIABLES
    remote,         \* [head, refs]: the default branch, and version per branch
    changes, faults,
    clone,          \* the directory r.Path: [bare, head, refs]
    pc,             \* main(): "off", "checkout", "dump", "rename", "reload"
    co,             \* checkoutOne(r)
    fetch, ls,      \* its two goroutines: "run", "ok", "err"; ls's answer
    tries,          \* failed attempts of callGitInternal, by command
    tmp, index,     \* the files
    serving,        \* what the backend has loaded
    wanted, raced   \* history: remote versions when the run started, renames since

disk   == <<clone, tmp, index>>
world  == <<remote, changes>>
volatile == <<co, fetch, ls, tries>>
vars == <<world, faults, disk, pc, volatile, serving, wanted, raced>>

\* contents of an index file; a whole one has every repository's version, or 0
No == [state |-> "none", tips |-> <<>>]
Partial == [state |-> "partial", tips |-> <<>>]
Whole(v) == [state |-> "whole", tips |-> v]
Command == {"clone", "fetch", "ls"}
NoRefs == <<>>
Only(b, v) == [x \in {b} |-> v]
Default == CHOOSE b \in Branch : TRUE

\* git rev-parse HEAD^0 in a repository; 0 if the branch does not exist
Tip(g) == IF g.head \in DOMAIN g.refs THEN g.refs[g.head] ELSE 0
Tips == [r \in Repo |-> Tip(remote[r])]

Init ==
    /\ remote = [r \in Repo |-> [head |-> Default, refs |-> Only(Default, 1)]]
    /\ changes = 0 /\ faults = 0
    /\ \E b \in Branch :
          clone = [r \in Repo |-> [bare |-> FALSE, head |-> b, refs |-> NoRefs]]
    /\ pc = "off"
    /\ co = [r \in Repo |-> "todo"]
    /\ fetch = [r \in Repo |-> "run"] /\ ls = [r \in Repo |-> "run"]
    /\ tries = [r \in Repo |-> [c \in Command |-> 0]]
    /\ tmp = No /\ index = No /\ serving = No
    /\ wanted = [r \in Repo |-> 0] /\ raced = {}

-----------------------------------------------------------------------------
(* The remotes.                                                            *)
Push(r) ==
    /\ changes < MaxChange
    /\ remote' = [remote EXCEPT ![r].refs[remote[r].head] = @ + 1]
    /\ changes' = changes + 1
    /\ UNCHANGED <<faults, disk, pc, volatile, serving, wanted, raced>>

RenameHead(r, b) ==
    /\ changes < MaxChange /\ b # remote[r].head
    /\ remote' = [remote EXCEPT ![r] = [head |-> b, refs |-> Only(b, Tip(@))]]
    /\ changes' = changes + 1
    /\ raced' = IF pc = "off" THEN raced ELSE raced \cup {r}
    /\ UNCHANGED <<faults, disk, pc, volatile, serving, wanted>>

-----------------------------------------------------------------------------
(* main(): a new process.                                                  *)
Start ==
    /\ pc = "off"
    /\ pc' = "checkout"
    /\ wanted' = Tips
    /\ UNCHANGED <<world, faults, disk, volatile, serving, raced>>

(* log.Fatalln, or return from main.                                       *)
Exit ==
    /\ pc' = "off"
    /\ co' = [r \in Repo |-> "todo"]
    /\ fetch' = [r \in Repo |-> "run"] /\ ls' = [r \in Repo |-> "run"]
    /\ tries' = [r \in Repo |-> [c \in Command |-> 0]]
    /\ wanted' = [r \in Repo |-> 0] /\ raced' = {}

(* git rev-parse --is-bare-repository: anything but a bare repository is   *)
(* removed and cloned again; a bare one gets its remote set (set-url).     *)
Probe(r) ==
    /\ pc = "checkout" /\ co[r] = "todo"
    /\ co' = [co EXCEPT ![r] = IF clone[r].bare THEN "parallel" ELSE "clone"]
    /\ clone' = IF clone[r].bare THEN clone
                ELSE [clone EXCEPT ![r] = [@ EXCEPT !.refs = NoRefs]]
    /\ UNCHANGED <<world, faults, tmp, index, pc, fetch, ls, tries, serving, wanted,
                   raced>>

(* git clone --mirror copies the branches and HEAD of the remote.          *)
Clone(r) ==
    /\ pc = "checkout" /\ co[r] = "clone"
    /\ clone' = [clone EXCEPT ![r] = [bare |-> TRUE, head |-> remote[r].head,
                                      refs |-> remote[r].refs]]
    /\ co' = [co EXCEPT ![r] = "done"]
    /\ UNCHANGED <<world, faults, tmp, index, pc, fetch, ls, tries, serving, wanted,
                   raced>>

(* git fetch -p makes the branches those of the remote; HEAD stays.        *)
Fetch(r) ==
    /\ pc = "checkout" /\ co[r] = "parallel" /\ fetch[r] = "run"
    /\ fetch' = [fetch EXCEPT ![r] = "ok"]
    /\ clone' = [clone EXCEPT ![r].refs = remote[r].refs]
    /\ UNCHANGED <<world, faults, tmp, index, pc, co, ls, tries, serving, wanted, raced>>

(* git ls-remote --symref origin HEAD.                                     *)
LsRemote(r) ==
    /\ pc = "checkout" /\ co[r] = "parallel" /\ ls[r] = "run"
    /\ ls' = [ls EXCEPT ![r] = remote[r].head]
    /\ UNCHANGED <<world, faults, disk, pc, co, fetch, tries, serving, wanted, raced>>

(* An attempt of one of the three commands fails; the third one's error is *)
(* returned.  A failed git clone removes what it has created.              *)
Attempt(r, c) ==
    LET n == tries[r][c] + 1 IN
    /\ tries' = [tries EXCEPT ![r][c] = n]
    /\ co' = IF c = "clone" /\ n = 3 THEN [co EXCEPT ![r] = "failed"] ELSE co
    /\ fetch' = IF c = "fetch" /\ n = 3 THEN [fetch EXCEPT ![r] = "err"] ELSE fetch
    /\ ls' = IF c = "ls" /\ n = 3 THEN [ls EXCEPT ![r] = "err"] ELSE ls

GitFails(r, c) ==
    /\ pc = "checkout" /\ faults < MaxFault
    /\ \/ c = "clone" /\ co[r] = "clone"
       \/ c = "fetch" /\ co[r] = "parallel" /\ fetch[r] = "run"
       \/ c = "ls"    /\ co[r] = "parallel" /\ ls[r] = "run"
    /\ Attempt(r, c)
    /\ faults' = faults + 1
    /\ UNCHANGED <<world, disk, pc, serving, wanted, raced>>

(* Local commands that are not tried again fail: remote set-url, RemoveAll *)
(* and MkdirAll before the fetch or clone, symbolic-ref after them.        *)
LocalFails(r) ==
    /\ pc = "checkout" /\ faults < MaxFault
    /\ \/ co[r] = "todo"
       \/ co[r] = "parallel" /\ fetch[r] = "ok" /\ ls[r] \in Branch
    /\ co' = [co EXCEPT ![r] = "failed"]
    /\ faults' = faults + 1
    /\ UNCHANGED <<world, disk, pc, fetch, ls, tries, serving, wanted, raced>>

(* g.Wait(), then git symbolic-ref HEAD if it differs from the remote's.   *)
Join_KeepsHead(r) ==
    /\ pc = "checkout" /\ co[r] = "parallel"
    /\ fetch[r] # "run" /\ ls[r] # "run"
    /\ co' = [co EXCEPT ![r] = IF "err" \in {fetch[r], ls[r]} THEN "failed" ELSE "done"]
    /\ UNCHANGED <<world, faults, disk, pc, fetch, ls, tries, serving, wanted, raced>>
Join(r) ==
    /\ pc = "checkout" /\ co[r] = "parallel"
    /\ fetch[r] # "run" /\ ls[r] # "run"
    /\ IF "err" \in {fetch[r], ls[r]}
       THEN co' = [co EXCEPT ![r] = "failed"] /\ UNCHANGED clone
       ELSE /\ clone' = [clone EXCEPT ![r].head = ls[r]]
            /\ co' = [co EXCEPT ![r] = "done"]
    /\ UNCHANGED <<world, faults, tmp, index, pc, fetch, ls, tries, serving, wanted,
                   raced>>

(* checkoutRepos returns.                                                  *)
CheckedOut_IgnoresError ==
    /\ pc = "checkout" /\ \A r \in Repo : co[r] \in {"done", "failed"}
    /\ pc' = "dump" /\ tmp' = Partial
    /\ UNCHANGED <<world, faults, clone, index, volatile, serving, wanted, raced>>
CheckedOut ==
    /\ pc = "checkout" /\ \A r \in Repo : co[r] = "done"
    /\ pc' = "dump" /\ tmp' = Partial
    /\ UNCHANGED <<world, faults, clone, index, volatile, serving, wanted, raced>>

CheckoutError ==
    /\ pc = "checkout"
    /\ \E r \in Repo : co[r] = "failed"
    /\ \A r \in Repo : co[r] \in {"todo", "done", "failed"}
    /\ Exit
    /\ UNCHANGED <<world, faults, disk, serving>>

(* codesearch --dump_index index.tmp.  A repository whose HEAD names no    *)
(* branch is skipped.                                                      *)
Dump_InPlace ==
    /\ pc = "dump"
    /\ index' = IF index = Partial THEN Whole([r \in Repo |-> Tip(clone[r])]) ELSE Partial
    /\ pc' = IF index = Partial THEN "rename" ELSE "dump"
    /\ UNCHANGED <<world, faults, clone, tmp, volatile, serving, wanted, raced>>
Dump ==
    /\ pc = "dump"
    /\ tmp' = Whole([r \in Repo |-> Tip(clone[r])])
    /\ pc' = "rename"
    /\ UNCHANGED <<world, faults, clone, index, volatile, serving, wanted, raced>>

Rename ==
    /\ pc = "rename"
    /\ index' = tmp /\ tmp' = No
    /\ pc' = "reload"
    /\ UNCHANGED <<world, faults, clone, volatile, serving, wanted, raced>>

(* reloadBackend: the backend loads the file; IndexReload has the details. *)
Reload ==
    /\ pc = "reload"
    /\ serving' = index
    /\ Exit
    /\ UNCHANGED <<world, faults, disk>>

(* The process group is killed, or codesearch or os.Rename fails.  A clone *)
(* that is interrupted leaves a directory that may pass for a repository.  *)
Killed ==
    /\ pc # "off" /\ faults < MaxFault
    /\ faults' = faults + 1
    /\ \E half \in SUBSET {r \in Repo : co[r] = "clone"} :
          clone' = [r \in Repo |-> IF r \in half THEN [clone[r] EXCEPT !.bare = TRUE]
                                   ELSE clone[r]]
    /\ Exit
    /\ UNCHANGED <<world, tmp, index, serving>>

Step == \/ Start \/ CheckedOut \/ CheckoutError \/ Dump \/ Rename \/ Reload
        \/ \E r \in Repo : Probe(r) \/ Clone(r) \/ Fetch(r) \/ LsRemote(r)
                           \/ Join(r)

Next == \/ Step \/ Killed
        \/ \E r \in Repo : \/ Push(r) \/ LocalFails(r)
                           \/ \E b \in Branch : RenameHead(r, b)
                           \/ \E c \in Command : GitFails(r, c)

(* The scheduler starts the next run, and a process that can run does.     *)
Spec == Init /\ [][Next]_vars /\ WF_vars(Step)

-----------------------------------------------------------------------------
Index == {No, Partial} \cup {Whole(v) : v \in [Repo -> 0..(MaxChange + 1)]}

TypeOK ==
    /\ pc \in {"off", "checkout", "dump", "rename", "reload"}
    /\ co \in [Repo -> {"todo", "clone", "parallel", "done", "failed"}]
    /\ fetch \in [Repo -> {"run", "ok", "err"}]
    /\ ls \in [Repo -> {"run", "err"} \cup Branch]
    /\ tries \in [Repo -> [Command -> 0..3]]
    /\ {tmp, index, serving} \subseteq Index
    /\ wanted \in [Repo -> 0..(MaxChange + 1)] /\ raced \subseteq Repo

(***************************************************************************)
(* However runs are killed, the index file never is a partial one: a       *)
(* backend that starts at any moment finds no index or a whole one.        *)
(***************************************************************************)
IndexWhole == index # Partial /\ serving # Partial

(***************************************************************************)
(* An index that a run publishes holds, of every repository, at least the  *)
(* version its remote had when the run started: not a clone left over from *)
(* an earlier run whose fetch or clone failed or was killed.  The one      *)
(* exception is a remote that renamed its default branch during the run:   *)
(* git fetch and git ls-remote run in parallel and may see different       *)
(* branches, HEAD names one that was not fetched, and the repository       *)
(* disappears from the index until the next run.                           *)
(***************************************************************************)
PublishedIsFresh ==
    pc = "reload" => \A r \in Repo : index.tips[r] >= wanted[r] \/ (index.tips[r] = 0 /\ r \in raced)

(***************************************************************************)
(* When the remotes stop changing and git stops failing, the backend ends  *)
(* up with the current version of every repository: interrupted clones are *)
(* repaired, and a HEAD left on a branch that no longer exists is moved.   *)
(***************************************************************************)
UpToDate == serving = Whole(Tips)
Converges == <>[]UpToDate
=============================================================================
