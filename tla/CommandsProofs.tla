---------------------------- MODULE CommandsProofs ----------------------------
(***************************************************************************)
(* Proofs about the Go programs: livegrep-github-reindex writes a          *)
(* configuration only if it has every repository listed, whatever the      *)
(* interleaving of dispatcher, workers and page goroutines; a killed or    *)
(* failed livegrep-fetch-reindex never leaves a partial index behind, and  *)
(* an index that it publishes is not older than its run; lgiap prints the  *)
(* same lines whatever the order of the answers.                           *)
(***************************************************************************)
EXTENDS Commands, FiniteSets, FiniteSetTheorems, TLAPS

-----------------------------------------------------------------------------
(* The inductive invariant of livegrep-fetch-reindex.                      *)

Refs == UNION {[B -> Nat] : B \in SUBSET Branch}

FetchType ==
    /\ remote \in [Repo -> [head : Branch, refs : Refs]]
    /\ clone \in [Repo -> [bare : BOOLEAN, head : Branch, refs : Refs]]
    /\ pc \in {"off", "checkout", "dump", "rename", "reload"}
    /\ co \in [Repo -> {"todo", "clone", "parallel", "done", "failed"}]
    /\ fetch \in [Repo -> {"run", "ok", "err"}]
    /\ ls \in [Repo -> {"run", "err"} \cup Branch]
    /\ wanted \in [Repo -> Nat]

(* A remote has one branch; a run wants no more than the remotes have.     *)
RemoteInv ==
    /\ \A r \in Repo : DOMAIN remote[r].refs = {remote[r].head}
    /\ pc # "off" => \A r \in Repo : wanted[r] <= remote[r].refs[remote[r].head]

(* The one branch the clone has is no older than the run, and is the       *)
(* remote's default branch unless that was renamed meanwhile.              *)
Fetched(r) ==
    \E b \in Branch :
        /\ DOMAIN clone[r].refs = {b} /\ clone[r].refs[b] >= wanted[r]
        /\ b = remote[r].head \/ r \in raced

(* What indexing a clone yields: its version, or nothing after a rename.   *)
Fresh(r, v) == v >= wanted[r] \/ (v = 0 /\ r \in raced)

(***************************************************************************)
(* How far checkoutOne has come with each repository.                      *)
(***************************************************************************)
CheckoutInv ==
    /\ pc = "off" => co = [r \in Repo |-> "todo"]
    /\ \A r \in Repo : co[r] \in {"todo", "clone"} => fetch[r] = "run" /\ ls[r] = "run"
    /\ pc = "checkout" =>
        \A r \in Repo :
            /\ co[r] = "parallel" /\ fetch[r] = "ok" => Fetched(r)
            /\ co[r] = "parallel" /\ ls[r] \notin {"run", "err"} =>
                   ls[r] = remote[r].head \/ r \in raced
            /\ co[r] = "done" => Fresh(r, Fetch!Tip(clone[r]))

(* The files: only the temporary one is ever partial.                      *)
FilesInv ==
    /\ pc = "dump" => \A r \in Repo : Fresh(r, Fetch!Tip(clone[r]))
    /\ pc = "rename" => tmp.state = "whole" /\ \A r \in Repo : Fresh(r, tmp.tips[r])
    /\ pc = "reload" => \A r \in Repo : Fresh(r, index.tips[r])
    /\ index.state # "partial" /\ serving.state # "partial"

FetchInv == FetchType /\ RemoteInv /\ CheckoutInv /\ FilesInv

-----------------------------------------------------------------------------
LEMMA FetchInit == Fetch!Init => FetchInv
<1> SUFFICES ASSUME Fetch!Init PROVE FetchInv
    OBVIOUS
<1>1. Fetch!Default \in Branch
      BY Assumptions DEF Fetch!Default, Fetch!FetchAssumption
<1>2. Fetch!Only(Fetch!Default, 1) \in Refs /\ Fetch!NoRefs \in Refs
  <2>1. Fetch!Only(Fetch!Default, 1) \in [{Fetch!Default} -> Nat]
        BY DEF Fetch!Only
  <2>2. Fetch!NoRefs \in [{} -> Nat]
        BY DEF Fetch!NoRefs
  <2> QED BY <1>1, <2>1, <2>2 DEF Refs
<1>3. FetchType
      BY <1>1, <1>2 DEF Fetch!Init, FetchType
<1>4. RemoteInv /\ CheckoutInv
      BY DEF Fetch!Init, RemoteInv, CheckoutInv, Fetch!Only
<1>5. FilesInv
      BY DEF Fetch!Init, FilesInv, Fetch!No
<1> QED BY <1>3, <1>4, <1>5 DEF FetchInv

LEMMA TipsAreNat ==
    ASSUME FetchType, NEW r \in Repo
    PROVE  Fetch!Tip(clone[r]) \in Nat /\ Fetch!Tip(remote[r]) \in Nat
BY DEF FetchType, Fetch!Tip, Refs

LEMMA RemoteTip ==
    ASSUME FetchType, RemoteInv, NEW r \in Repo
    PROVE  /\ Fetch!Tip(remote[r]) = remote[r].refs[remote[r].head]
           /\ remote[r].refs[remote[r].head] \in Nat
           /\ remote[r].head \in Branch
BY DEF FetchType, Fetch!Tip, Refs, RemoteInv

-----------------------------------------------------------------------------
(* The remotes move on: versions grow, and a rename is noted.              *)
LEMMA RemoteMoves ==
    ASSUME FetchInv, UNCHANGED <<clone, pc, co, fetch, ls, wanted, tmp, index, serving>>,
           raced \subseteq raced',
           remote' \in [Repo -> [head : Branch, refs : Refs]],
           \A r \in Repo :
               /\ DOMAIN remote'[r].refs = {remote'[r].head}
               /\ remote'[r].refs[remote'[r].head] >= remote[r].refs[remote[r].head]
               /\ remote'[r].head = remote[r].head \/ pc = "off" \/ r \in raced'
    PROVE  FetchInv'
<1> USE DEF FetchInv
<1>1. FetchType'
      BY DEF FetchType
<1>2. RemoteInv'
  <2>1. ASSUME NEW r \in Repo
        PROVE  /\ remote'[r].refs[remote'[r].head] \in Nat /\ remote[r].refs[remote[r].head] \in Nat
               /\ wanted[r] \in Nat
    <3>1. remote'[r].refs \in Refs /\ remote[r].refs \in Refs
          BY DEF FetchType
    <3>2. remote'[r].head \in DOMAIN remote'[r].refs /\ remote[r].head \in DOMAIN remote[r].refs
          BY DEF RemoteInv
    <3> QED BY <3>1, <3>2 DEF Refs, FetchType
  <2> QED BY <2>1 DEF RemoteInv
<1>3. \A r \in Repo : \A v : Fresh(r, v) => Fresh(r, v)'
      BY DEF Fresh
<1>4. \A r \in Repo : pc # "off" /\ Fetched(r) => Fetched(r)'
      BY DEF Fetched
<1>5. CheckoutInv'
      BY <1>3, <1>4 DEF CheckoutInv, Fetch!Tip, Fresh
<1>6. FilesInv'
      BY <1>3 DEF FilesInv, Fetch!Tip, Fresh
<1> QED BY <1>1, <1>2, <1>5, <1>6

LEMMA PushFetch ==
    ASSUME FetchInv, NEW r \in Repo, Fetch!Push(r)
    PROVE  FetchInv'
<1> USE DEF FetchInv
<1> DEFINE v == remote[r].refs[remote[r].head]
           moved == [remote[r].refs EXCEPT ![remote[r].head] = v + 1]
<1>1. v \in Nat /\ remote[r].head \in Branch /\ DOMAIN remote[r].refs = {remote[r].head}
      BY RemoteTip DEF RemoteInv
<1>2. remote' = [remote EXCEPT ![r] = [remote[r] EXCEPT !.refs = moved]]
      BY DEF Fetch!Push, FetchType
<1>3. remote[r].refs \in Refs /\ remote[r] \in [head : Branch, refs : Refs]
      BY DEF FetchType
<1>4. moved \in [{remote[r].head} -> Nat] /\ moved[remote[r].head] = v + 1
      BY <1>1, <1>3 DEF Refs
<1>5. moved \in Refs
      BY <1>1, <1>4 DEF Refs
<1> HIDE DEF moved, v
<1>6. /\ remote'[r].head = remote[r].head /\ remote'[r].refs = moved
      /\ \A s \in Repo \ {r} : remote'[s] = remote[s]
      BY <1>2, <1>3 DEF FetchType
<1>7. remote' \in [Repo -> [head : Branch, refs : Refs]]
      BY <1>2, <1>3, <1>5 DEF FetchType
<1>8. \A s \in Repo :
        /\ DOMAIN remote'[s].refs = {remote'[s].head}
        /\ remote'[s].refs[remote'[s].head] >= remote[s].refs[remote[s].head]
        /\ remote'[s].head = remote[s].head
  <2>1. \A s \in Repo : remote[s].refs[remote[s].head] \in Nat
        BY RemoteTip
  <2> QED BY <1>1, <1>4, <1>6, <2>1 DEF RemoteInv, v
<1>9. UNCHANGED <<clone, pc, co, fetch, ls, wanted, tmp, index, serving, raced>>
      BY DEF Fetch!Push, Fetch!disk, Fetch!volatile
<1> QED BY <1>7, <1>8, <1>9, RemoteMoves

LEMMA RenameHeadFetch ==
    ASSUME FetchInv, NEW r \in Repo, NEW b \in Branch, Fetch!RenameHead(r, b)
    PROVE  FetchInv'
<1> USE DEF FetchInv
<1>1. Fetch!Tip(remote[r]) \in Nat /\ Fetch!Tip(remote[r]) = remote[r].refs[remote[r].head]
      BY RemoteTip
<1>2. Fetch!Only(b, Fetch!Tip(remote[r])) \in Refs
  <2>1. Fetch!Only(b, Fetch!Tip(remote[r])) \in [{b} -> Nat]
        BY <1>1 DEF Fetch!Only
  <2> QED BY <2>1 DEF Refs
<1>3. remote' = [remote EXCEPT ![r] = [head |-> b, refs |-> Fetch!Only(b, Fetch!Tip(remote[r]))]]
      BY DEF Fetch!RenameHead, FetchType
<1>4. remote' \in [Repo -> [head : Branch, refs : Refs]]
      BY <1>2, <1>3 DEF FetchType
<1>5. pc # "off" => r \in raced'
      BY DEF Fetch!RenameHead
<1>6. \A s \in Repo :
        /\ DOMAIN remote'[s].refs = {remote'[s].head}
        /\ remote'[s].refs[remote'[s].head] >= remote[s].refs[remote[s].head]
        /\ remote'[s].head = remote[s].head \/ pc = "off" \/ s \in raced'
  <2>1. \A s \in Repo : remote[s].refs[remote[s].head] \in Nat
        BY RemoteTip
  <2>2. ASSUME NEW s \in Repo, s # r
        PROVE  remote'[s] = remote[s]
        BY <1>3, <2>2 DEF FetchType
  <2>3. /\ remote'[r].head = b /\ DOMAIN remote'[r].refs = {b}
        /\ remote'[r].refs[b] = remote[r].refs[remote[r].head]
        BY <1>1, <1>3 DEF FetchType, Fetch!Only
  <2> QED BY <1>5, <2>1, <2>2, <2>3 DEF RemoteInv
<1>7. UNCHANGED <<clone, pc, co, fetch, ls, wanted, tmp, index, serving>> /\ raced \subseteq raced'
      BY DEF Fetch!RenameHead, Fetch!disk, Fetch!volatile
<1> QED BY <1>4, <1>6, <1>7, RemoteMoves

-----------------------------------------------------------------------------
(* main().                                                                 *)
LEMMA StartFetch ==
    ASSUME FetchInv, Fetch!Start
    PROVE  FetchInv'
<1> USE DEF FetchInv
<1>1. /\ pc = "off" /\ pc' = "checkout" /\ wanted' = Fetch!Tips
      /\ UNCHANGED <<remote, clone, co, fetch, ls, raced, tmp, index, serving>>
      BY DEF Fetch!Start, Fetch!world, Fetch!disk, Fetch!volatile
<1>2. \A r \in Repo : wanted'[r] = remote[r].refs[remote[r].head] /\ wanted'[r] \in Nat
      BY <1>1, RemoteTip DEF Fetch!Tips
<1>3. FetchType'
  <2>1. wanted' \in [Repo -> Nat]
        BY <1>1, <1>2 DEF Fetch!Tips
  <2> QED BY <1>1, <2>1 DEF FetchType
<1>4. RemoteInv' /\ CheckoutInv' /\ FilesInv'
      BY <1>1, <1>2 DEF RemoteInv, CheckoutInv, FilesInv
<1> QED BY <1>3, <1>4

(* The process ends: what it knew is gone, the files stay.                 *)
LEMMA ExitFetch ==
    ASSUME FetchInv, Fetch!Exit, UNCHANGED <<remote, index>>,
           clone' \in [Repo -> [bare : BOOLEAN, head : Branch, refs : Refs]],
           serving' \in {serving, index}
    PROVE  FetchInv'
<1> USE DEF FetchInv
<1>1. /\ pc' = "off" /\ co' = [r \in Repo |-> "todo"]
      /\ fetch' = [r \in Repo |-> "run"] /\ ls' = [r \in Repo |-> "run"]
      /\ wanted' = [r \in Repo |-> 0]
      BY DEF Fetch!Exit
<1>2. FetchType'
      BY <1>1 DEF FetchType
<1>3. RemoteInv' /\ CheckoutInv' /\ FilesInv'
      BY <1>1 DEF RemoteInv, CheckoutInv, FilesInv
<1> QED BY <1>2, <1>3

LEMMA MainFetch ==
    ASSUME FetchInv,
           Fetch!CheckedOut \/ Fetch!CheckoutError \/ Fetch!Dump \/ Fetch!Rename \/ Fetch!Reload
    PROVE  FetchInv'
<1> USE DEF FetchInv
<1>1. CASE Fetch!CheckedOut
  <2>1. /\ pc = "checkout" /\ pc' = "dump" /\ \A r \in Repo : co[r] = "done"
        /\ UNCHANGED <<remote, clone, co, fetch, ls, wanted, raced, index, serving>>
        BY <1>1 DEF Fetch!CheckedOut, Fetch!world, Fetch!volatile
  <2>2. FetchType' /\ RemoteInv' /\ CheckoutInv'
        BY <2>1 DEF FetchType, RemoteInv, CheckoutInv
  <2>3. FilesInv'
        BY <2>1 DEF FilesInv, CheckoutInv, Fetch!Tip, Fresh
  <2> QED BY <2>2, <2>3
<1>2. CASE Fetch!CheckoutError
  <2>1. Fetch!Exit /\ UNCHANGED <<remote, clone, index, serving>>
        BY <1>2 DEF Fetch!CheckoutError, Fetch!world, Fetch!disk
  <2> QED BY <2>1, ExitFetch DEF FetchType
<1>3. CASE Fetch!Dump
  <2>1. /\ pc = "dump" /\ pc' = "rename" /\ tmp' = Fetch!Whole([r \in Repo |-> Fetch!Tip(clone[r])])
        /\ UNCHANGED <<remote, clone, co, fetch, ls, wanted, raced, index, serving>>
        BY <1>3 DEF Fetch!Dump, Fetch!world, Fetch!volatile
  <2>2. FetchType' /\ RemoteInv' /\ CheckoutInv'
        BY <2>1 DEF FetchType, RemoteInv, CheckoutInv
  <2>3. tmp'.state = "whole" /\ \A r \in Repo : tmp'.tips[r] = Fetch!Tip(clone[r])
        BY <2>1 DEF Fetch!Whole
  <2>4. FilesInv'
        BY <2>1, <2>3 DEF FilesInv, Fresh
  <2> QED BY <2>2, <2>4
<1>4. CASE Fetch!Rename
  <2>1. /\ pc = "rename" /\ pc' = "reload" /\ index' = tmp
        /\ UNCHANGED <<remote, clone, co, fetch, ls, wanted, raced, serving>>
        BY <1>4 DEF Fetch!Rename, Fetch!world, Fetch!volatile
  <2>2. FetchType' /\ RemoteInv' /\ CheckoutInv'
        BY <2>1 DEF FetchType, RemoteInv, CheckoutInv
  <2>3. FilesInv'
        BY <2>1 DEF FilesInv, Fresh
  <2> QED BY <2>2, <2>3
<1>5. CASE Fetch!Reload
  <2>1. Fetch!Exit /\ UNCHANGED <<remote, clone, index>> /\ serving' = index
        BY <1>5 DEF Fetch!Reload, Fetch!world, Fetch!disk
  <2> QED BY <2>1, ExitFetch DEF FetchType
<1> QED BY <1>1, <1>2, <1>3, <1>4, <1>5

(* The run is killed; what an interrupted clone left may look bare.        *)
LEMMA KilledFetch ==
    ASSUME FetchInv, Fetch!Killed
    PROVE  FetchInv'
<1>1. PICK half \in SUBSET {r \in Repo : co[r] = "clone"} :
        clone' = [r \in Repo |-> IF r \in half THEN [clone[r] EXCEPT !.bare = TRUE] ELSE clone[r]]
      BY DEF Fetch!Killed
<1>2. clone' \in [Repo -> [bare : BOOLEAN, head : Branch, refs : Refs]]
      BY <1>1 DEF FetchInv, FetchType
<1>3. Fetch!Exit /\ UNCHANGED <<remote, index, serving>>
      BY DEF Fetch!Killed, Fetch!world
<1> QED BY <1>2, <1>3, ExitFetch

-----------------------------------------------------------------------------
(* checkoutOne: a step for one repository leaves the others as they are.   *)
LEMMA OneRepo ==
    ASSUME FetchInv, NEW r \in Repo, pc = "checkout", FetchType',
           UNCHANGED <<remote, pc, wanted, raced, index, serving>>,
           \A s \in Repo \ {r} :
               clone'[s] = clone[s] /\ co'[s] = co[s] /\ fetch'[s] = fetch[s] /\ ls'[s] = ls[s],
           co'[r] \in {"todo", "clone"} => fetch'[r] = "run" /\ ls'[r] = "run",
           co'[r] = "parallel" /\ fetch'[r] = "ok" => Fetched(r)',
           co'[r] = "parallel" /\ ls'[r] \notin {"run", "err"} => ls'[r] = remote[r].head \/ r \in raced,
           co'[r] = "done" => Fresh(r, Fetch!Tip(clone'[r]))
    PROVE  FetchInv'
<1> USE DEF FetchInv
<1>1. RemoteInv' /\ FilesInv'
      BY DEF RemoteInv, FilesInv
<1>2. \A s \in Repo : \A v : Fresh(s, v)' <=> Fresh(s, v)
      BY DEF Fresh
<1>3. \A s \in Repo \ {r} : Fetched(s) => Fetched(s)'
      BY DEF Fetched
<1>4. ASSUME NEW s \in Repo
      PROVE  /\ co'[s] \in {"todo", "clone"} => fetch'[s] = "run" /\ ls'[s] = "run"
             /\ co'[s] = "parallel" /\ fetch'[s] = "ok" => Fetched(s)'
             /\ co'[s] = "parallel" /\ ls'[s] \notin {"run", "err"} =>
                    ls'[s] = remote'[s].head \/ s \in raced'
             /\ co'[s] = "done" => Fresh(s, Fetch!Tip(clone[s]))'
  <2>1. CASE s = r
        BY <1>2, <2>1 DEF Fetch!Tip, Fresh
  <2>2. CASE s # r
        BY <1>2, <1>3, <2>2 DEF CheckoutInv, Fetch!Tip, Fresh
  <2> QED BY <2>1, <2>2
<1>5. CheckoutInv'
      BY <1>4 DEF CheckoutInv
<1> QED BY <1>1, <1>5

LEMMA ProbeFetch ==
    ASSUME FetchInv, NEW r \in Repo, Fetch!Probe(r)
    PROVE  FetchInv'
<1> USE DEF FetchInv
<1>1. /\ pc = "checkout" /\ co[r] = "todo"
      /\ UNCHANGED <<remote, pc, wanted, raced, index, serving, fetch, ls>>
      BY DEF Fetch!Probe, Fetch!world
<1>2. Fetch!NoRefs \in Refs
  <2>1. Fetch!NoRefs \in [{} -> Nat]
        BY DEF Fetch!NoRefs
  <2> QED BY <2>1 DEF Refs
<1>3. co' = [co EXCEPT ![r] = IF clone[r].bare THEN "parallel" ELSE "clone"]
      BY DEF Fetch!Probe
<1>4. /\ clone' \in [Repo -> [bare : BOOLEAN, head : Branch, refs : Refs]]
      /\ \A s \in Repo \ {r} : clone'[s] = clone[s]
      BY <1>2 DEF Fetch!Probe, FetchType
<1>5. FetchType'
      BY <1>1, <1>3, <1>4 DEF FetchType
<1>6. fetch[r] = "run" /\ ls[r] = "run"
      BY <1>1 DEF CheckoutInv
<1>7. /\ co'[r] \in {"parallel", "clone"} /\ \A s \in Repo \ {r} : co'[s] = co[s]
      /\ fetch' = fetch /\ ls' = ls
      BY <1>1, <1>3 DEF FetchType
<1> QED BY <1>1, <1>4, <1>5, <1>6, <1>7, OneRepo

LEMMA CloneFetch ==
    ASSUME FetchInv, NEW r \in Repo, Fetch!Clone(r)
    PROVE  FetchInv'
<1> USE DEF FetchInv
<1>1. /\ pc = "checkout" /\ UNCHANGED <<remote, pc, wanted, raced, index, serving, fetch, ls>>
      /\ clone' = [clone EXCEPT ![r] = [bare |-> TRUE, head |-> remote[r].head, refs |-> remote[r].refs]]
      /\ co' = [co EXCEPT ![r] = "done"]
      BY DEF Fetch!Clone, Fetch!world
<1>2. FetchType'
      BY <1>1 DEF FetchType
<1>3. /\ \A s \in Repo \ {r} : clone'[s] = clone[s] /\ co'[s] = co[s]
      /\ co'[r] = "done" /\ clone'[r].head = remote[r].head /\ clone'[r].refs = remote[r].refs
      /\ fetch' = fetch /\ ls' = ls
      BY <1>1 DEF FetchType
<1>4. Fresh(r, Fetch!Tip(clone'[r]))
  <2>1. Fetch!Tip(clone'[r]) = remote[r].refs[remote[r].head]
        BY <1>3 DEF Fetch!Tip, RemoteInv
  <2> QED BY <1>1, <2>1 DEF Fresh, RemoteInv
<1> QED BY <1>1, <1>2, <1>3, <1>4, OneRepo

LEMMA FetchFetch ==
    ASSUME FetchInv, NEW r \in Repo, Fetch!Fetch(r)
    PROVE  FetchInv'
<1> USE DEF FetchInv
<1>1. /\ pc = "checkout" /\ co[r] = "parallel"
      /\ UNCHANGED <<remote, pc, wanted, raced, index, serving, co, ls>>
      /\ clone' = [clone EXCEPT ![r].refs = remote[r].refs]
      /\ fetch' = [fetch EXCEPT ![r] = "ok"]
      BY DEF Fetch!Fetch, Fetch!world
<1>2. FetchType'
      BY <1>1 DEF FetchType
<1>3. /\ \A s \in Repo \ {r} : clone'[s] = clone[s] /\ fetch'[s] = fetch[s]
      /\ clone'[r].refs = remote[r].refs /\ co' = co /\ ls' = ls
      BY <1>1 DEF FetchType
<1>4. Fetched(r)'
  <2>1. remote[r].head \in Branch /\ DOMAIN remote[r].refs = {remote[r].head}
        BY RemoteTip DEF RemoteInv
  <2>2. remote[r].refs[remote[r].head] >= wanted[r]
        BY <1>1, RemoteTip DEF RemoteInv, FetchType
  <2> QED BY <1>1, <1>3, <2>1, <2>2 DEF Fetched
<1>5. ls[r] \notin {"run", "err"} => ls[r] = remote[r].head \/ r \in raced
      BY <1>1 DEF CheckoutInv
<1> QED BY <1>1, <1>2, <1>3, <1>4, <1>5, OneRepo

LEMMA LsRemoteFetch ==
    ASSUME FetchInv, NEW r \in Repo, Fetch!LsRemote(r)
    PROVE  FetchInv'
<1> USE DEF FetchInv
<1>1. /\ pc = "checkout" /\ co[r] = "parallel"
      /\ UNCHANGED <<remote, pc, wanted, raced, index, serving, co, fetch, clone>>
      /\ ls' = [ls EXCEPT ![r] = remote[r].head]
      BY DEF Fetch!LsRemote, Fetch!world, Fetch!disk
<1>2. FetchType'
      BY <1>1, RemoteTip DEF FetchType
<1>3. /\ \A s \in Repo \ {r} : ls'[s] = ls[s]
      /\ ls'[r] = remote[r].head /\ co' = co /\ fetch' = fetch /\ clone' = clone
      BY <1>1 DEF FetchType
<1>4. fetch[r] = "ok" => Fetched(r)'
      BY <1>1 DEF CheckoutInv, Fetched
<1> QED BY <1>1, <1>2, <1>3, <1>4, OneRepo

(* A command fails: nothing is claimed of a repository that failed.        *)
LEMMA FailsFetch ==
    ASSUME FetchInv, NEW r \in Repo,
           Fetch!LocalFails(r) \/ \E c \in Fetch!Command : Fetch!GitFails(r, c)
    PROVE  FetchInv'
<1> USE DEF FetchInv
<1>1. pc = "checkout" /\ UNCHANGED <<remote, pc, wanted, raced, index, serving, clone>>
      BY DEF Fetch!LocalFails, Fetch!GitFails, Fetch!world, Fetch!disk
<1>2. /\ co' \in {co, [co EXCEPT ![r] = "failed"]}
      /\ fetch' \in {fetch, [fetch EXCEPT ![r] = "err"]}
      /\ ls' \in {ls, [ls EXCEPT ![r] = "err"]}
      /\ co' # co \/ (fetch' = fetch /\ ls' = ls) \/ co[r] = "parallel"
      BY DEF Fetch!LocalFails, Fetch!GitFails, Fetch!Attempt
<1>3. FetchType'
      BY <1>1, <1>2 DEF FetchType
<1>4. /\ \A s \in Repo \ {r} : co'[s] = co[s] /\ fetch'[s] = fetch[s] /\ ls'[s] = ls[s]
      /\ co'[r] \in {co[r], "failed"} /\ fetch'[r] \in {fetch[r], "err"} /\ ls'[r] \in {ls[r], "err"}
      BY <1>2 DEF FetchType
<1>5. co'[r] \in {"todo", "clone"} => fetch'[r] = "run" /\ ls'[r] = "run"
      BY <1>2, <1>4 DEF CheckoutInv, FetchType
<1>6. co'[r] = "parallel" /\ fetch'[r] = "ok" => Fetched(r)'
      BY <1>1, <1>4 DEF CheckoutInv, Fetched
<1>7. co'[r] = "parallel" /\ ls'[r] \notin {"run", "err"} => ls'[r] = remote[r].head \/ r \in raced
      BY <1>1, <1>4 DEF CheckoutInv
<1>8. co'[r] = "done" => Fresh(r, Fetch!Tip(clone'[r]))
      BY <1>1, <1>4 DEF CheckoutInv
<1> QED BY <1>1, <1>3, <1>4, <1>5, <1>6, <1>7, <1>8, OneRepo

(***************************************************************************)
(* HEAD of the clone is set to what ls-remote answered, and the branches   *)
(* are what fetch got; when they disagree the remote was renamed between.  *)
(***************************************************************************)
LEMMA JoinFetch ==
    ASSUME FetchInv, NEW r \in Repo, Fetch!Join(r)
    PROVE  FetchInv'
<1> USE DEF FetchInv
<1>1. /\ pc = "checkout" /\ co[r] = "parallel" /\ fetch[r] # "run" /\ ls[r] # "run"
      /\ UNCHANGED <<remote, pc, wanted, raced, index, serving, fetch, ls>>
      BY DEF Fetch!Join, Fetch!world
<1>2. CASE "err" \in {fetch[r], ls[r]}
  <2>1. co' = [co EXCEPT ![r] = "failed"] /\ clone' = clone
        BY <1>2 DEF Fetch!Join
  <2>2. FetchType'
        BY <1>1, <2>1 DEF FetchType
  <2>3. co'[r] = "failed" /\ \A s \in Repo \ {r} : co'[s] = co[s]
        BY <2>1 DEF FetchType
  <2> QED BY <1>1, <2>1, <2>2, <2>3, OneRepo
<1>3. CASE "err" \notin {fetch[r], ls[r]}
  <2>1. clone' = [clone EXCEPT ![r].head = ls[r]] /\ co' = [co EXCEPT ![r] = "done"]
        BY <1>3 DEF Fetch!Join
  <2>2. fetch[r] = "ok" /\ ls[r] \in Branch /\ ls[r] \notin {"run", "err"}
        BY <1>1, <1>3 DEF FetchType
  <2>3. FetchType'
        BY <1>1, <2>1, <2>2 DEF FetchType
  <2>4. /\ \A s \in Repo \ {r} : clone'[s] = clone[s] /\ co'[s] = co[s]
        /\ co'[r] = "done" /\ clone'[r].head = ls[r] /\ clone'[r].refs = clone[r].refs
        BY <2>1 DEF FetchType
  <2>5. Fetched(r) /\ (ls[r] = remote[r].head \/ r \in raced)
        BY <1>1, <2>2 DEF CheckoutInv
  <2>6. Fresh(r, Fetch!Tip(clone'[r]))
        BY <2>4, <2>5 DEF Fetched, Fresh, Fetch!Tip
  <2> QED BY <1>1, <2>3, <2>4, <2>6, OneRepo
<1> QED BY <1>2, <1>3

LEMMA FetchNext ==
    ASSUME FetchInv, Fetch!Next
    PROVE  FetchInv'
BY StartFetch, MainFetch, KilledFetch, PushFetch, RenameHeadFetch, ProbeFetch, CloneFetch, FetchFetch,
   LsRemoteFetch, JoinFetch, FailsFetch DEF Fetch!Next, Fetch!Step

-----------------------------------------------------------------------------
(* The inductive invariant of lgiap composite.                             *)

(* The results that the first n answers to queries with these operators    *)
(* hold.                                                                   *)
Holds(q, ops, r) ==
    /\ comp.queries[q].op \in ops
    /\ \E h \in DOMAIN comp.queries[q].reply : comp.queries[q].reply[h] = r
Answers(ops, n) == {r \in Lgiap!Result : \E i \in 1..n : Holds(results[i], ops, r)}

LgiapType ==
    /\ comp \in Compositions
    /\ qpc \in [Lgiap!Query -> {"run", "deliver", "exited"}]
    /\ lgiap_mpc \in {"collect", "combine", "dedupe", "error", "printed"}
    /\ results \in Seq(Lgiap!Query)
    /\ at \in Nat \ {0}
    /\ allFound \in Seq(Lgiap!Result)
    /\ IsFiniteSet(seen)

(* Every query answers at most once, and only one that did not fail.       *)
CollectInv ==
    /\ failing \in SUBSET Lgiap!Query
    /\ \A i \in 1..Len(results) : qpc[results[i]] = "exited" /\ results[i] \notin failing
    /\ \A i, k \in 1..Len(results) : results[i] = results[k] => i = k
    /\ Len(results) <= Len(comp.queries)
    /\ lgiap_mpc \in {"combine", "dedupe", "printed"} => Len(results) = Len(comp.queries)
    /\ lgiap_mpc = "collect" =>
           at = 1 /\ allFound = <<>> /\ excludedRepos = {}
    /\ lgiap_mpc \in {"collect", "combine"} => seen = {}

(* What is excluded by the first n answers.                                *)
ExcludedBy(n) ==
    /\ excludedFiles = comp.excludeFiles \cup {Lgiap!FileKey(r) : r \in Answers({"exclude_by_file"}, n)}
    /\ excludedRepos = {Lgiap!RepoKey(r) : r \in Answers({"exclude_by_repo"}, n)}

CombineInv ==
    lgiap_mpc = "combine" =>
        /\ at <= Len(results) + 1
        /\ {allFound[i] : i \in 1..Len(allFound)} = Answers(Lgiap!Includes, at - 1)
        /\ ExcludedBy(at - 1)

Wanted ==
    {r \in Answers(Lgiap!Includes, Len(results)) :
        Lgiap!FileKey(r) \notin excludedFiles /\ Lgiap!RepoKey(r) \notin excludedRepos}

(* The loop that deduplicates in place: what it kept is in front of what   *)
(* it has yet to look at.                                                  *)
DedupeInv ==
    lgiap_mpc = "dedupe" =>
        LET n == Cardinality(seen) IN
        /\ ExcludedBy(Len(results))
        /\ n < at /\ at <= Len(allFound) + 1
        /\ \A i \in 1..n : allFound[i] \in Wanted /\ Lgiap!DedupeKey(allFound[i]) \in seen
        /\ \A key \in seen : \E i \in 1..n : Lgiap!DedupeKey(allFound[i]) = key
        /\ \A i, k \in 1..n :
              Lgiap!DedupeKey(allFound[i]) = Lgiap!DedupeKey(allFound[k]) => i = k
        /\ \A i \in at..Len(allFound) : allFound[i] \in Answers(Lgiap!Includes, Len(results))
        /\ \A r \in Wanted :
              Lgiap!DedupeKey(r) \in seen \/ \E i \in at..Len(allFound) : allFound[i] = r

(* OutputExact but for which of the results with the same key is printed.  *)
Printable ==
    LET files == comp.excludeFiles \cup
                     {Lgiap!FileKey(r) : r \in Lgiap!RepliesTo({"exclude_by_file"})}
        repos == {Lgiap!RepoKey(r) : r \in Lgiap!RepliesTo({"exclude_by_repo"})}
    IN {r \in Lgiap!RepliesTo(Lgiap!Includes) :
           Lgiap!FileKey(r) \notin files /\ Lgiap!RepoKey(r) \notin repos}
OutputLines ==
    lgiap_mpc = "printed" =>
        /\ failing = {}
        /\ {Lgiap!DedupeKey(output[i]) : i \in DOMAIN output} = {Lgiap!DedupeKey(r) : r \in Printable}
        /\ \A i, k \in DOMAIN output : i < k => Lgiap!Less(output[i], output[k])

LgiapInv == LgiapType /\ CollectInv /\ CombineInv /\ DedupeInv /\ OutputLines

(* Which of them is printed.  While the answers are combined, a result of  *)
(* allFound stands behind everything that arrived before it; while the     *)
(* slice is filtered, what it stands behind is either ahead of the loop or *)
(* excluded, or its key has been seen.                                     *)
Gathered(k) ==
    \E n \in 1..(at - 1) : \E i \in DOMAIN Lgiap!Found(n) :
        /\ Lgiap!Found(n)[i] = allFound[k]
        /\ \A m \in 1..n : \A j \in DOMAIN Lgiap!Found(m) :
              m < n \/ j < i => \E h \in 1..(k - 1) : allFound[h] = Lgiap!Found(m)[j]
Passed(x) ==
    \/ Lgiap!DedupeKey(x) \in seen
    \/ Lgiap!FileKey(x) \in excludedFiles
    \/ Lgiap!RepoKey(x) \in excludedRepos
Waits(k) ==
    \E n \in 1..Len(results) : \E i \in DOMAIN Lgiap!Found(n) :
        /\ Lgiap!Found(n)[i] = allFound[k]
        /\ \A m \in 1..n : \A j \in DOMAIN Lgiap!Found(m) :
              m < n \/ j < i =>
                  \/ Passed(Lgiap!Found(m)[j])
                  \/ \E h \in at..(k - 1) : allFound[h] = Lgiap!Found(m)[j]
ArrivalInv ==
    /\ lgiap_mpc = "combine" => \A k \in 1..Len(allFound) : Gathered(k)
    /\ lgiap_mpc = "dedupe" =>
           /\ \A x \in {allFound[i] : i \in 1..Cardinality(seen)} : Lgiap!FirstToArrive(x)
           /\ \A k \in at..Len(allFound) : Waits(k)
    /\ lgiap_mpc = "printed" =>
           \A x \in {output[i] : i \in DOMAIN output} : Lgiap!FirstToArrive(x)

-----------------------------------------------------------------------------
LEMMA LgiapSets ==
    /\ \A S : Lgiap!Cardinality(S) = Cardinality(S)
    /\ \A s : Lgiap!ToSet(s) = {s[a] : a \in DOMAIN s}
<1>1. \A S : Lgiap!Cardinality(S) = Cardinality(S)
      BY DEF Lgiap!Cardinality, Cardinality
<1>2. \A s : Lgiap!ToSet(s) = {s[a] : a \in DOMAIN s}
      BY DEF Lgiap!ToSet
<1> QED BY <1>1, <1>2

(* The composition read from the file.                                     *)
LEMMA Composition ==
    ASSUME LgiapType
    PROVE  /\ comp.aware \in BOOLEAN
           /\ Len(comp.queries) \in Nat /\ Lgiap!Query = 1..Len(comp.queries)
           /\ \A q \in Lgiap!Query : comp.queries[q].reply \in Seq(Lgiap!Result)
           /\ \A i \in 1..Len(results) : results[i] \in Lgiap!Query
           /\ Len(results) \in Nat
<1> DEFINE Q == [op : Lgiap!Includes \cup {"exclude_by_file", "exclude_by_repo"},
                 json : BOOLEAN, reply : Seq(Lgiap!Result)]
<1>1. comp.aware \in BOOLEAN /\ comp.queries \in Seq(Q)
      BY Assumptions DEF LgiapType, Lgiap!CompositeAssumption
<1>2. \A q \in DOMAIN comp.queries : comp.queries[q] \in Q
  <2> HIDE DEF Q
  <2> QED BY <1>1
<1>3. Len(comp.queries) \in Nat /\ Lgiap!Query = 1..Len(comp.queries)
      BY <1>1 DEF Lgiap!Query
<1>4. \A q \in Lgiap!Query : comp.queries[q].reply \in Seq(Lgiap!Result)
      BY <1>2 DEF Lgiap!Query
<1>5. Len(results) \in Nat /\ \A i \in 1..Len(results) : results[i] \in Lgiap!Query
      BY DEF LgiapType
<1> QED BY <1>1, <1>3, <1>4, <1>5

(* The keys depend on the composition only.                                *)
LEMMA SameKeys ==
    ASSUME comp' = comp
    PROVE  /\ \A r : Lgiap!FileKey(r)' = Lgiap!FileKey(r)
           /\ \A r : Lgiap!RepoKey(r)' = Lgiap!RepoKey(r)
           /\ \A r : Lgiap!DedupeKey(r)' = Lgiap!DedupeKey(r)
           /\ \A r, s : Lgiap!Less(r, s)' = Lgiap!Less(r, s)
           /\ \A ops : Lgiap!RepliesTo(ops)' = Lgiap!RepliesTo(ops)
<1>1. \A r : Lgiap!FileKey(r)' = Lgiap!FileKey(r)
      BY DEF Lgiap!FileKey, Lgiap!Version
<1>2. \A r : Lgiap!RepoKey(r)' = Lgiap!RepoKey(r)
      BY <1>1 DEF Lgiap!RepoKey
<1>3. \A r : Lgiap!DedupeKey(r)' = Lgiap!DedupeKey(r)
      BY <1>1 DEF Lgiap!DedupeKey
<1>4. \A r, s : Lgiap!Less(r, s)' = Lgiap!Less(r, s)
      BY DEF Lgiap!Less
<1>5. \A ops : Lgiap!RepliesTo(ops)' = Lgiap!RepliesTo(ops)
      BY DEF Lgiap!RepliesTo, Lgiap!Query
<1> QED BY <1>1, <1>2, <1>3, <1>4, <1>5

LEMMA SameAnswers ==
    ASSUME comp' = comp, results' = results
    PROVE  \A ops, n : Answers(ops, n)' = Answers(ops, n)
BY DEF Answers, Holds

LEMMA LgiapInit == Lgiap!Init => LgiapInv
<1> SUFFICES ASSUME Lgiap!Init PROVE LgiapInv
    OBVIOUS
<1>1. LgiapType
      BY FS_EmptySet DEF Lgiap!Init, LgiapType
<1>2. CollectInv
  <2>1. Len(comp.queries) \in Nat
        BY <1>1, Composition
  <2> QED BY <2>1 DEF Lgiap!Init, CollectInv
<1> QED BY <1>1, <1>2 DEF Lgiap!Init, LgiapInv, CombineInv, DedupeInv, OutputLines

-----------------------------------------------------------------------------
(* Steps that leave main's loops alone.                                    *)
loops == <<comp, failing, lgiap_mpc, results, at, allFound, excludedFiles, excludedRepos,
           seen, output>>

LEMMA LoopsKept ==
    ASSUME UNCHANGED loops, CombineInv, DedupeInv, OutputLines
    PROVE  CombineInv' /\ DedupeInv' /\ OutputLines'
<1> USE DEF loops
<1>1. ASSUME NEW n, ExcludedBy(n) PROVE ExcludedBy(n)'
      BY <1>1, SameKeys, SameAnswers, Zenon DEF ExcludedBy
<1>2. CombineInv'
      BY <1>1, SameAnswers DEF CombineInv
<1>3. Wanted' = Wanted
      BY SameKeys, SameAnswers DEF Wanted
<1>4. DedupeInv'
      BY <1>1, <1>3, SameKeys, SameAnswers DEF DedupeInv
<1>5. OutputLines'
  <2>1. Printable' = Printable
        BY SameKeys DEF Printable
  <2>2. \A i, k \in DOMAIN output : Lgiap!Less(output[i], output[k])' <=> Lgiap!Less(output[i], output[k])
        BY DEF Lgiap!Less
  <2>3. {Lgiap!DedupeKey(output[i])' : i \in DOMAIN output} = {Lgiap!DedupeKey(output[i]) : i \in DOMAIN output}
        BY DEF Lgiap!DedupeKey, Lgiap!FileKey, Lgiap!Version
  <2>4. {Lgiap!DedupeKey(r)' : r \in Printable} = {Lgiap!DedupeKey(r) : r \in Printable}
        BY SameKeys
  <2> QED BY <2>1, <2>2, <2>3, <2>4 DEF OutputLines
<1> QED BY <1>2, <1>4, <1>5

LEMMA DoQueryLgiap ==
    ASSUME LgiapInv, NEW q \in Lgiap!Query, Lgiap!DoQuery(q) \/ Lgiap!GiveUp(q)
    PROVE  LgiapInv'
<1> USE DEF LgiapInv
<1>1. UNCHANGED loops
      BY DEF Lgiap!DoQuery, Lgiap!GiveUp, Lgiap!loop, loops
<1>2. /\ qpc[q] # "exited"
      /\ qpc' = [qpc EXCEPT ![q] = "deliver"] \/ qpc' = [qpc EXCEPT ![q] = "exited"]
      BY DEF Lgiap!DoQuery, Lgiap!GiveUp
<1>3. LgiapType'
      BY <1>1, <1>2 DEF LgiapType, loops, Lgiap!Query
<1>4. \A i \in 1..Len(results) : qpc'[results[i]] = "exited"
      BY <1>2, Composition DEF CollectInv, LgiapType
<1>5. CollectInv'
      BY <1>1, <1>4 DEF CollectInv, loops, Lgiap!Query
<1> QED BY <1>1, <1>3, <1>5, LoopsKept

LEMMA ReceiveLgiap ==
    ASSUME LgiapInv, NEW q \in Lgiap!Query, Lgiap!Receive(q)
    PROVE  LgiapInv'
<1> USE DEF LgiapInv
<1>1. /\ lgiap_mpc = "collect" /\ qpc[q] = "deliver" /\ Len(results) # Len(comp.queries)
      /\ qpc' = [qpc EXCEPT ![q] = "exited"]
      /\ UNCHANGED <<comp, failing, at, allFound, excludedFiles, excludedRepos, seen, output>>
      BY DEF Lgiap!Receive, Lgiap!loop
<1>2. \A i \in 1..Len(results) : qpc'[results[i]] = "exited" /\ results[i] # q
      BY <1>1, Composition DEF CollectInv, LgiapType
<1>3. lgiap_mpc' \in {"collect", "error"}
      BY <1>1 DEF Lgiap!Receive
<1>4. LgiapType' /\ CollectInv'
  <2>1. CASE q \in failing
    <3>1. results' = results
          BY <2>1 DEF Lgiap!Receive
    <3> QED BY <1>1, <1>2, <1>3, <3>1 DEF LgiapType, CollectInv, Lgiap!Query
  <2>2. CASE q \notin failing
    <3>1. results' = Append(results, q)
          BY <2>2 DEF Lgiap!Receive
    <3>2. results' \in Seq(Lgiap!Query) /\ Len(results') = Len(results) + 1
          BY <3>1 DEF LgiapType
    <3>3. LgiapType'
          BY <1>1, <1>3, <3>2 DEF LgiapType, Lgiap!Query
    <3>4. /\ \A i \in 1..Len(results) : results'[i] = results[i]
          /\ results'[Len(results) + 1] = q
          BY <3>1 DEF LgiapType
    <3>5. qpc'[q] = "exited" /\ Len(results) \in Nat /\ Len(comp.queries) \in Nat
          BY <1>1, Composition DEF LgiapType
    <3>6. \A i \in 1..Len(results') : qpc'[results'[i]] = "exited" /\ results'[i] \notin failing
          BY <1>2, <2>2, <3>2, <3>4, <3>5 DEF CollectInv
    <3>7. \A i, k \in 1..Len(results') : results'[i] = results'[k] => i = k
          BY <1>2, <3>2, <3>4, <3>5 DEF CollectInv
    <3>8. Len(results') <= Len(comp.queries)
          BY <1>1, <3>2, <3>5 DEF CollectInv
    <3> QED BY <1>1, <1>3, <3>3, <3>6, <3>7, <3>8 DEF CollectInv, Lgiap!Query
  <2> QED BY <2>1, <2>2
<1>5. CombineInv' /\ DedupeInv' /\ OutputLines'
      BY <1>3 DEF CombineInv, DedupeInv, OutputLines
<1> QED BY <1>4, <1>5

LEMMA CollectedLgiap ==
    ASSUME LgiapInv, Lgiap!Collected
    PROVE  LgiapInv'
<1> USE DEF LgiapInv
<1>1. /\ lgiap_mpc = "collect" /\ Len(results) = Len(comp.queries)
      /\ excludedFiles' = comp.excludeFiles /\ lgiap_mpc' = "combine"
      /\ UNCHANGED <<comp, failing, qpc, results, at, allFound, excludedRepos, seen>>
      BY DEF Lgiap!Collected
<1>2. LgiapType' /\ CollectInv'
      BY <1>1 DEF LgiapType, CollectInv, Lgiap!Query
<1>3. \A ops : Answers(ops, 0)' = {}
      BY DEF Answers
<1>4. at' = 1 /\ at' - 1 = 0 /\ allFound' = <<>> /\ excludedRepos' = {} /\ Len(results') \in Nat
      BY <1>1, Composition DEF CollectInv
<1>5. ExcludedBy(0)'
      BY <1>1, <1>3, <1>4 DEF ExcludedBy
<1>6. CombineInv'
      BY <1>3, <1>4, <1>5 DEF CombineInv
<1> QED BY <1>1, <1>2, <1>6 DEF DedupeInv, OutputLines

(* One more answer.                                                        *)
LEMMA OneMoreAnswer ==
    ASSUME LgiapType, NEW n \in 1..Len(results), NEW ops
    PROVE  LET q == results[n]
               R == comp.queries[q].reply
           IN Answers(ops, n) =
                  IF comp.queries[q].op \in ops
                  THEN Answers(ops, n - 1) \cup {R[h] : h \in DOMAIN R}
                  ELSE Answers(ops, n - 1)
<1> DEFINE q == results[n]
           R == comp.queries[q].reply
<1>1. R \in Seq(Lgiap!Result) /\ n \in Nat /\ n >= 1
      BY Composition
<1>2. \A h \in DOMAIN R : R[h] \in Lgiap!Result
  <2> HIDE DEF R
  <2> QED BY <1>1
<1>3. 1..n = (1..(n - 1)) \cup {n}
      BY <1>1
<1>4. \A r : (\E i \in 1..n : Holds(results[i], ops, r)) <=>
              (\E i \in 1..(n - 1) : Holds(results[i], ops, r)) \/ Holds(q, ops, r)
      BY <1>3
<1>5. \A r : Holds(q, ops, r) <=> comp.queries[q].op \in ops /\ \E h \in DOMAIN R : R[h] = r
      BY DEF Holds
<1> HIDE DEF R, q
<1>6. Answers(ops, n) =
          IF comp.queries[q].op \in ops
          THEN Answers(ops, n - 1) \cup {R[h] : h \in DOMAIN R}
          ELSE Answers(ops, n - 1)
      BY <1>2, <1>4, <1>5 DEF Answers
<1> QED BY <1>6 DEF q, R

LEMMA CombineLgiap ==
    ASSUME LgiapInv, Lgiap!Combine
    PROVE  LgiapInv'
<1> USE DEF LgiapInv
<1> DEFINE q == comp.queries[results[at]]
           R == q.reply
           S == {R[h] : h \in DOMAIN R}
<1>1. /\ lgiap_mpc = "combine" /\ at <= Len(results) /\ at' = at + 1
      /\ allFound' = IF q.op \in Lgiap!Includes THEN allFound \o R ELSE allFound
      /\ excludedFiles' = excludedFiles \cup
             (IF q.op = "exclude_by_file" THEN {Lgiap!FileKey(R[h]) : h \in DOMAIN R} ELSE {})
      /\ excludedRepos' = excludedRepos \cup
             (IF q.op = "exclude_by_repo" THEN {Lgiap!RepoKey(R[h]) : h \in DOMAIN R} ELSE {})
      /\ UNCHANGED <<comp, failing, qpc, lgiap_mpc, results, seen>>
      BY DEF Lgiap!Combine
<1>2. at \in 1..Len(results) /\ Len(results) \in Nat
      BY <1>1, Composition DEF LgiapType
<1>3. R \in Seq(Lgiap!Result)
      BY <1>2, Composition
<1>4. \A ops : Answers(ops, at) =
          IF q.op \in ops THEN Answers(ops, at - 1) \cup S ELSE Answers(ops, at - 1)
      BY <1>2, OneMoreAnswer
<1>5. /\ {allFound[i] : i \in 1..Len(allFound)} = Answers(Lgiap!Includes, at - 1)
      /\ ExcludedBy(at - 1)
      BY <1>1 DEF CombineInv
<1>6. at' - 1 = at /\ at' \in Nat \ {0} /\ at' <= Len(results) + 1
      BY <1>1, <1>2 DEF LgiapType
<1>7. \A ops : Answers(ops, at - 1)' = Answers(ops, at)
  <2>1. comp' = comp /\ results' = results /\ at' - 1 = at
        BY <1>1, <1>6
  <2> QED BY <2>1 DEF Answers, Holds
<1>8. allFound' \in Seq(Lgiap!Result)
  <2> HIDE DEF R
  <2> QED BY <1>1, <1>3 DEF LgiapType
<1>9. {allFound'[i] : i \in 1..Len(allFound')} = Answers(Lgiap!Includes, at)
  <2>1. CASE q.op \in Lgiap!Includes
    <3>1. allFound' = allFound \o R /\ Answers(Lgiap!Includes, at) = Answers(Lgiap!Includes, at - 1) \cup S
          BY <1>1, <1>4, <2>1
    <3>2. allFound \in Seq(Lgiap!Result)
          BY DEF LgiapType
    <3> HIDE DEF R
    <3>3. /\ Len(allFound') = Len(allFound) + Len(R) /\ Len(allFound) \in Nat /\ Len(R) \in Nat
          /\ DOMAIN R = 1..Len(R)
          /\ \A i \in 1..Len(allFound) : allFound'[i] = allFound[i]
          /\ \A i \in 1..Len(R) : allFound'[Len(allFound) + i] = R[i]
          BY <1>3, <3>1, <3>2
    <3>4. \A i \in 1..Len(allFound') :
              i \in 1..Len(allFound) \/ (i - Len(allFound) \in 1..Len(R) /\ i = Len(allFound) + (i - Len(allFound)))
          BY <3>3
    <3>5. {allFound'[i] : i \in 1..Len(allFound')} =
              {allFound[i] : i \in 1..Len(allFound)} \cup {R[h] : h \in 1..Len(R)}
      <4>1. ASSUME NEW i \in 1..Len(allFound')
            PROVE  allFound'[i] \in {allFound[h] : h \in 1..Len(allFound)} \cup {R[h] : h \in 1..Len(R)}
        <5>1. CASE i \in 1..Len(allFound)
              BY <5>1, <3>3
        <5>2. CASE i - Len(allFound) \in 1..Len(R) /\ i = Len(allFound) + (i - Len(allFound))
          <6>1. allFound'[i] = R[i - Len(allFound)]
                BY <5>2, <3>3
          <6> QED BY <5>2, <6>1
        <5> QED BY <5>1, <5>2, <3>4
      <4>2. \A i \in 1..Len(allFound) : i \in 1..Len(allFound')
            BY <3>3
      <4>3. \A i \in 1..Len(R) : Len(allFound) + i \in 1..Len(allFound')
            BY <3>3
      <4>4. ASSUME NEW i \in 1..Len(allFound)
            PROVE  allFound[i] \in {allFound'[h] : h \in 1..Len(allFound')}
            BY <4>2, <3>3
      <4>5. ASSUME NEW i \in 1..Len(R)
            PROVE  R[i] \in {allFound'[h] : h \in 1..Len(allFound')}
            BY <4>3, <3>3
      <4> QED BY <4>1, <4>4, <4>5, Zenon
    <3> QED BY <1>5, <3>1, <3>3, <3>5
  <2>2. CASE q.op \notin Lgiap!Includes
        BY <1>1, <1>4, <1>5, <2>2
  <2> QED BY <2>1, <2>2
<1>10. /\ excludedFiles' = comp.excludeFiles \cup {Lgiap!FileKey(r) : r \in Answers({"exclude_by_file"}, at)}
       /\ excludedRepos' = {Lgiap!RepoKey(r) : r \in Answers({"exclude_by_repo"}, at)}
  <2>1. /\ {Lgiap!FileKey(R[h]) : h \in DOMAIN R} = {Lgiap!FileKey(r) : r \in S}
        /\ {Lgiap!RepoKey(R[h]) : h \in DOMAIN R} = {Lgiap!RepoKey(r) : r \in S}
        OBVIOUS
  <2>2. Answers({"exclude_by_file"}, at) =
            IF q.op = "exclude_by_file" THEN Answers({"exclude_by_file"}, at - 1) \cup S
            ELSE Answers({"exclude_by_file"}, at - 1)
        BY <1>4
  <2>3. Answers({"exclude_by_repo"}, at) =
            IF q.op = "exclude_by_repo" THEN Answers({"exclude_by_repo"}, at - 1) \cup S
            ELSE Answers({"exclude_by_repo"}, at - 1)
        BY <1>4
  <2> HIDE DEF R, S, q
  <2> QED BY <1>1, <1>5, <2>1, <2>2, <2>3 DEF ExcludedBy
<1> HIDE DEF R, S, q
<1>11. ExcludedBy(at - 1)'
  <2>1. \A r : Lgiap!FileKey(r)' = Lgiap!FileKey(r) /\ Lgiap!RepoKey(r)' = Lgiap!RepoKey(r)
        BY <1>1, SameKeys
  <2> QED BY <1>1, <1>7, <1>10, <2>1 DEF ExcludedBy
<1>12. CombineInv'
      BY <1>1, <1>6, <1>7, <1>9, <1>11 DEF CombineInv
<1>13. LgiapType' /\ CollectInv'
      BY <1>1, <1>6, <1>8 DEF LgiapType, CollectInv, Lgiap!Query
<1> QED BY <1>1, <1>12, <1>13 DEF DedupeInv, OutputLines

LEMMA SameFrame ==
    ASSUME UNCHANGED <<comp, results, excludedFiles, excludedRepos>>
    PROVE  /\ ExcludedBy(Len(results)) => ExcludedBy(Len(results))'
           /\ Answers(Lgiap!Includes, Len(results))' = Answers(Lgiap!Includes, Len(results))
           /\ Wanted' = Wanted
<1>1. Answers(Lgiap!Includes, Len(results))' = Answers(Lgiap!Includes, Len(results))
      BY DEF Answers, Holds
<1>2. Wanted' = Wanted
      BY <1>1, SameKeys DEF Wanted
<1>3. ExcludedBy(Len(results)) => ExcludedBy(Len(results))'
  <2>1. \A ops : Answers(ops, Len(results))' = Answers(ops, Len(results))
        BY DEF Answers, Holds
  <2> QED BY <2>1, SameKeys, Zenon DEF ExcludedBy
<1> QED BY <1>1, <1>2, <1>3

LEMMA CombinedLgiap ==
    ASSUME LgiapInv, Lgiap!Combined
    PROVE  LgiapInv'
<1> USE DEF LgiapInv
<1>1. /\ lgiap_mpc = "combine" /\ at > Len(results) /\ at' = 1 /\ lgiap_mpc' = "dedupe"
      /\ UNCHANGED <<comp, failing, qpc, results, allFound, excludedFiles, excludedRepos, seen>>
      BY DEF Lgiap!Combined
<1>2. LgiapType' /\ CollectInv'
      BY <1>1 DEF LgiapType, CollectInv, Lgiap!Query
<1>3. /\ {allFound[i] : i \in 1..Len(allFound)} = Answers(Lgiap!Includes, Len(results))
      /\ ExcludedBy(Len(results))
  <2>1. at - 1 = Len(results)
        BY <1>1, Composition DEF CombineInv, LgiapType
  <2> QED BY <1>1, <2>1 DEF CombineInv
<1>4. seen' = {} /\ Cardinality(seen') = 0 /\ Len(allFound) \in Nat
      BY <1>1, FS_EmptySet DEF CollectInv, LgiapType
<1>5. /\ ExcludedBy(Len(results))'
      /\ Answers(Lgiap!Includes, Len(results))' = Answers(Lgiap!Includes, Len(results))
      BY <1>1, <1>3, SameFrame
<1>6. DedupeInv'
  <2>1. Wanted' \subseteq Answers(Lgiap!Includes, Len(results))'
        BY DEF Wanted
  <2> QED BY <1>1, <1>3, <1>4, <1>5, <2>1 DEF DedupeInv
<1> QED BY <1>1, <1>2, <1>6 DEF CombineInv, OutputLines


LEMMA VisitLgiap ==
    ASSUME LgiapInv, Lgiap!Visit
    PROVE  LgiapInv'
<1> USE DEF LgiapInv
<1> DEFINE found == allFound[at]
           n == Cardinality(seen)
           N == Len(allFound)
           D(r) == Lgiap!DedupeKey(r)
<1>1. /\ lgiap_mpc = "dedupe" /\ at <= N /\ at' = at + 1 /\ lgiap_mpc' = lgiap_mpc
      /\ UNCHANGED <<comp, failing, qpc, results, excludedFiles, excludedRepos>>
      BY DEF Lgiap!Visit
<1>2. /\ ExcludedBy(Len(results))
      /\ n < at /\ at <= N + 1
      /\ \A i \in 1..n : allFound[i] \in Wanted /\ D(allFound[i]) \in seen
      /\ \A key \in seen : \E i \in 1..n : D(allFound[i]) = key
      /\ \A i, k \in 1..n : D(allFound[i]) = D(allFound[k]) => i = k
      /\ \A i \in at..N : allFound[i] \in Answers(Lgiap!Includes, Len(results))
      /\ \A r \in Wanted : D(r) \in seen \/ \E i \in at..N : allFound[i] = r
      BY <1>1 DEF DedupeInv
<1>3. /\ n \in Nat /\ N \in Nat /\ at \in Nat /\ at >= 1 /\ at \in at..N
      /\ allFound \in Seq(Lgiap!Result) /\ found \in Lgiap!Result
      BY <1>1, FS_CardinalityType DEF LgiapType
<1>4. /\ ExcludedBy(Len(results))' /\ Wanted' = Wanted
      /\ Answers(Lgiap!Includes, Len(results))' = Answers(Lgiap!Includes, Len(results))
      /\ \A r : D(r)' = D(r)
      BY <1>1, <1>2, SameFrame, SameKeys
<1>5. found \in Answers(Lgiap!Includes, Len(results))
      BY <1>2, <1>3
<1>6. CASE UNCHANGED <<allFound, seen>> /\ (found \in Wanted => D(found) \in seen)
  <2>1. LgiapType' /\ CollectInv'
        BY <1>1, <1>3, <1>6 DEF LgiapType, CollectInv, Lgiap!Query
  <2>2. \A r \in Wanted : D(r) \in seen \/ \E i \in (at + 1)..N : allFound[i] = r
    <3> TAKE r \in Wanted
    <3>1. ASSUME NEW i \in at..N, allFound[i] = r, D(r) \notin seen
          PROVE  i \in (at + 1)..N
          BY <1>3, <1>6, <3>1
    <3> QED BY <1>2, <3>1
  <2>3. \A i \in (at + 1)..N : i \in at..N
        BY <1>3
  <2>4. n < at + 1 /\ at + 1 <= N + 1
        BY <1>1, <1>2, <1>3
  <2>5. DedupeInv'
        BY <1>1, <1>2, <1>4, <1>6, <2>2, <2>3, <2>4 DEF DedupeInv
  <2> QED BY <1>1, <2>1, <2>5 DEF CombineInv, OutputLines
<1>7. CASE /\ found \in Wanted /\ D(found) \notin seen
           /\ allFound' = [allFound EXCEPT ![n + 1] = found]
           /\ seen' = seen \cup {D(found)}
  <2>1. IsFiniteSet(seen') /\ Cardinality(seen') = n + 1
        BY <1>7, FS_AddElement DEF LgiapType
  <2>2. n + 1 \in 1..N /\ n + 1 <= at
        BY <1>1, <1>2, <1>3
  <2>3. allFound' \in Seq(Lgiap!Result) /\ Len(allFound') = N
    <3> HIDE DEF found, n
    <3> QED BY <1>3, <1>7, <2>2
  <2>4. LgiapType' /\ CollectInv'
        BY <1>1, <1>3, <2>1, <2>3 DEF LgiapType, CollectInv, Lgiap!Query
  <2>5. /\ allFound'[n + 1] = found
        /\ \A i \in 1..n : allFound'[i] = allFound[i]
        /\ \A i \in (at + 1)..N : allFound'[i] = allFound[i] /\ i \in at..N
    <3>1. \A i \in 1..N : allFound'[i] = IF i = n + 1 THEN found ELSE allFound[i]
      <4> HIDE DEF found, n
      <4> QED BY <1>3, <1>7
    <3> QED BY <1>3, <2>2, <3>1
  <2>6. \A i \in 1..(n + 1) : i \in 1..n \/ i = n + 1
        BY <1>3
  <2>7. \A i \in 1..(n + 1) : allFound'[i] \in Wanted /\ D(allFound'[i]) \in seen'
    <3> HIDE DEF found, n, D
    <3> QED BY <1>2, <1>7, <2>5, <2>6
  <2>8. \A key \in seen' : \E i \in 1..(n + 1) : D(allFound'[i]) = key
    <3>1. n + 1 \in 1..(n + 1) /\ \A i \in 1..n : i \in 1..(n + 1)
          BY <1>3
    <3> HIDE DEF found, n, D
    <3> QED BY <1>2, <1>7, <2>5, <3>1
  <2>9. \A i, k \in 1..(n + 1) : D(allFound'[i]) = D(allFound'[k]) => i = k
    <3> HIDE DEF found, n, D
    <3> QED BY <1>2, <1>7, <2>5, <2>6
  <2>10. \A i \in (at + 1)..N : allFound'[i] \in Answers(Lgiap!Includes, Len(results))
         BY <1>2, <2>5
  <2>11. \A r \in Wanted : D(r) \in seen' \/ \E i \in (at + 1)..N : allFound'[i] = r
    <3> TAKE r \in Wanted
    <3>1. ASSUME NEW i \in at..N, allFound[i] = r, D(r) \notin seen'
          PROVE  i \in (at + 1)..N /\ allFound'[i] = r
      <4>1. i # at
            BY <1>7, <3>1
      <4>2. i \in (at + 1)..N
            BY <1>3, <4>1
      <4> QED BY <3>1, <4>2, <2>5
    <3> HIDE DEF D
    <3> QED BY <1>2, <1>7, <3>1
  <2>12. n + 1 < at + 1 /\ at + 1 <= N + 1
        BY <1>1, <1>2, <1>3
  <2>13. \A r : Lgiap!DedupeKey(r)' = D(r)
        BY <1>4
  <2> HIDE DEF D, n, N
  <2>14. \A i \in 1..(n + 1) : Lgiap!DedupeKey(allFound[i])' = D(allFound'[i])
        BY <1>1 DEF Lgiap!DedupeKey, Lgiap!FileKey, Lgiap!Version, D
  <2>15. DedupeInv'
        BY <1>1, <1>4, <2>1, <2>3, <2>7, <2>8, <2>9, <2>10, <2>11, <2>12, <2>13, <2>14 DEF DedupeInv
  <2> QED BY <1>1, <2>4, <2>15 DEF CombineInv, OutputLines
<1>8. \/ UNCHANGED <<allFound, seen>> /\ (found \in Wanted => D(found) \in seen)
      \/ /\ found \in Wanted /\ D(found) \notin seen
         /\ allFound' = [allFound EXCEPT ![n + 1] = found]
         /\ seen' = seen \cup {D(found)}
  <2>1. Lgiap!NextSlot = n + 1
        BY LgiapSets DEF Lgiap!NextSlot
  <2> QED BY <1>5, <2>1 DEF Lgiap!Visit, Wanted
<1> QED BY <1>6, <1>7, <1>8

(***************************************************************************)
(* Less orders the results of different lines, one way or the other.       *)
(***************************************************************************)
LEMMA LessTotal ==
    ASSUME LgiapType, NEW r \in Lgiap!Result, NEW s \in Lgiap!Result,
           Lgiap!DedupeKey(r) # Lgiap!DedupeKey(s), ~Lgiap!Less(s, r)
    PROVE  Lgiap!Less(r, s)
<1> DEFINE v(x) == IF comp.aware THEN x.version ELSE 0
           K(x) == <<x.tree, x.path, v(x), x.line>>
           L(x, y) == \E i \in 1..4 : K(x)[i] < K(y)[i] /\ \A h \in 1..(i - 1) : K(x)[h] = K(y)[h]
<1>1. /\ r.tree \in Nat /\ r.path \in Nat /\ r.line \in Nat /\ v(r) \in Nat
      /\ s.tree \in Nat /\ s.path \in Nat /\ s.line \in Nat /\ v(s) \in Nat
      BY DEF Lgiap!Result
<1>2. r.tree # s.tree \/ r.path # s.path \/ v(r) # v(s) \/ r.line # s.line
      BY DEF Lgiap!DedupeKey, Lgiap!FileKey, Lgiap!Version
<1>3. \A x, y : Lgiap!Less(x, y) <=> L(x, y)
      BY DEF Lgiap!Less
<1>4. \A x, y : L(x, y) <=>
          \/ x.tree < y.tree
          \/ x.tree = y.tree /\ x.path < y.path
          \/ x.tree = y.tree /\ x.path = y.path /\ v(x) < v(y)
          \/ x.tree = y.tree /\ x.path = y.path /\ v(x) = v(y) /\ x.line < y.line
  <2> TAKE x, y
  <2>1. 1..4 = {1, 2, 3, 4}
        OBVIOUS
  <2>2. 1..(1 - 1) = {} /\ 1..(2 - 1) = {1} /\ 1..(3 - 1) = {1, 2} /\ 1..(4 - 1) = {1, 2, 3}
        OBVIOUS
  <2>3. /\ K(x)[1] = x.tree /\ K(x)[2] = x.path /\ K(x)[3] = v(x) /\ K(x)[4] = x.line
        /\ K(y)[1] = y.tree /\ K(y)[2] = y.path /\ K(y)[3] = v(y) /\ K(y)[4] = y.line
        OBVIOUS
  <2> HIDE DEF K, v
  <2> QED BY <2>1, <2>2, <2>3
<1> HIDE DEF L, K, v
<1>5. L(r, s)
      BY <1>1, <1>2, <1>3, <1>4
<1> QED BY <1>3, <1>5

(***************************************************************************)
(* Every query has answered: as many answers have arrived as there are     *)
(* queries, and no query answers twice.                                    *)
(***************************************************************************)
LEMMA EveryQueryAnswers ==
    ASSUME LgiapType, CollectInv, Len(results) = Len(comp.queries)
    PROVE  /\ failing = {}
           /\ \A ops : Lgiap!RepliesTo(ops) = Answers(ops, Len(results))
<1> DEFINE n == Len(results)
<1>1. n \in Nat /\ Lgiap!Query = 1..n
      BY Composition
<1>2. results \in Injection(1..n, 1..n)
  <2>1. results \in [1..n -> 1..n]
        BY <1>1 DEF LgiapType
  <2> QED BY <2>1 DEF CollectInv, Injection, IsInjective
<1>3. results \in Surjection(1..n, 1..n)
  <2> HIDE DEF n
  <2>1. IsFiniteSet(1..n)
        BY <1>1, FS_Interval
  <2> QED BY <1>2, <2>1, FS_Injection
<1>4. \A q \in Lgiap!Query : \E i \in 1..n : results[i] = q
      BY <1>1, <1>3 DEF Surjection
<1>5. failing = {}
      BY <1>4 DEF CollectInv
<1>6. ASSUME NEW ops PROVE Lgiap!RepliesTo(ops) = Answers(ops, n)
  <2>1. ASSUME NEW r PROVE r \in Lgiap!RepliesTo(ops) <=> \E q \in Lgiap!Query : Holds(q, ops, r)
        BY LgiapSets DEF Lgiap!RepliesTo, Holds
  <2>2. ASSUME NEW r, NEW q \in Lgiap!Query, Holds(q, ops, r) PROVE r \in Lgiap!Result
    <3>1. comp.queries[q].reply \in Seq(Lgiap!Result)
          BY Composition
    <3> QED BY <2>2, <3>1 DEF Holds
  <2>3. ASSUME NEW r
        PROVE  (\E q \in Lgiap!Query : Holds(q, ops, r)) <=> \E i \in 1..n : Holds(results[i], ops, r)
        BY <1>4, Composition
  <2> QED BY <2>1, <2>2, <2>3 DEF Answers
<1> QED BY <1>5, <1>6

LEMMA FormatResultsLgiap ==
    ASSUME LgiapInv, Lgiap!FormatResults
    PROVE  LgiapInv'
<1> USE DEF LgiapInv
<1> DEFINE n == Cardinality(seen)
           D(r) == Lgiap!DedupeKey(r)
<1>1. /\ lgiap_mpc = "dedupe" /\ at > Len(allFound) /\ lgiap_mpc' = "printed"
      /\ UNCHANGED <<comp, failing, qpc, results, at, allFound, excludedFiles, excludedRepos, seen>>
      BY DEF Lgiap!FormatResults
<1>2. PICK p \in Lgiap!Bijection(1..n, 1..n) :
          /\ output' = [i \in 1..n |-> allFound[p[i]]]
          /\ \A i, k \in 1..n : i < k => ~Lgiap!Less(output'[k], output'[i])
      BY LgiapSets DEF Lgiap!FormatResults
<1>3. /\ p \in [1..n -> 1..n]
      /\ \A i, k \in 1..n : p[i] = p[k] => i = k
      /\ \A k \in 1..n : \E i \in 1..n : p[i] = k
      BY DEF Lgiap!Bijection, Lgiap!Injection, Lgiap!Surjection, Lgiap!IsInjective
<1>4. /\ ExcludedBy(Len(results))
      /\ n < at /\ at <= Len(allFound) + 1
      /\ \A i \in 1..n : allFound[i] \in Wanted /\ D(allFound[i]) \in seen
      /\ \A key \in seen : \E i \in 1..n : D(allFound[i]) = key
      /\ \A i, k \in 1..n : D(allFound[i]) = D(allFound[k]) => i = k
      /\ \A r \in Wanted : D(r) \in seen \/ \E i \in at..Len(allFound) : allFound[i] = r
      BY <1>1 DEF DedupeInv
<1>5. n \in Nat /\ at \in Nat /\ Len(allFound) \in Nat
      BY FS_CardinalityType DEF LgiapType
<1>6. \A r \in Wanted : D(r) \in seen
      BY <1>1, <1>4, <1>5
<1>7. DOMAIN output' = 1..n /\ \A i \in 1..n : output'[i] = allFound[p[i]] /\ p[i] \in 1..n
      BY <1>2, <1>3
<1> HIDE DEF n, D
<1>8. {D(output'[i]) : i \in 1..n} = {D(r) : r \in Wanted}
  <2>1. ASSUME NEW i \in 1..n PROVE D(output'[i]) \in {D(r) : r \in Wanted}
        BY <1>4, <1>7
  <2>2. ASSUME NEW r \in Wanted PROVE D(r) \in {D(output'[i]) : i \in 1..n}
    <3>1. PICK k \in 1..n : D(allFound[k]) = D(r)
          BY <1>4, <1>6
    <3>2. PICK i \in 1..n : p[i] = k
          BY <1>3
    <3> QED BY <1>7, <3>1, <3>2
  <2> QED BY <2>1, <2>2
<1>9. ASSUME NEW i \in 1..n, NEW k \in 1..n, i < k
      PROVE  Lgiap!Less(output'[i], output'[k])
  <2>1. p[i] # p[k]
    <3>1. i # k
          BY <1>5, <1>9
    <3> QED BY <1>3, <3>1
  <2>2. D(output'[i]) # D(output'[k])
        BY <1>4, <1>7, <2>1
  <2>3. output'[i] \in Lgiap!Result /\ output'[k] \in Lgiap!Result
        BY <1>4, <1>7 DEF Wanted, Answers
  <2>4. ~Lgiap!Less(output'[k], output'[i])
        BY <1>2, <1>9
  <2> QED BY <2>2, <2>3, <2>4, LessTotal DEF D
<1>10. failing = {} /\ \A ops : Lgiap!RepliesTo(ops) = Answers(ops, Len(results))
      BY <1>1, EveryQueryAnswers DEF CollectInv
<1>11. OutputLines'
  <2> DEFINE files == comp.excludeFiles \cup {Lgiap!FileKey(r) : r \in Lgiap!RepliesTo({"exclude_by_file"})}
             repos == {Lgiap!RepoKey(r) : r \in Lgiap!RepliesTo({"exclude_by_repo"})}
  <2>1. files = excludedFiles /\ repos = excludedRepos
        BY <1>4, <1>10 DEF ExcludedBy
  <2>2. Printable = Wanted
    <3>1. Printable = {r \in Lgiap!RepliesTo(Lgiap!Includes) :
                          Lgiap!FileKey(r) \notin files /\ Lgiap!RepoKey(r) \notin repos}
          BY DEF Printable
    <3> HIDE DEF files, repos
    <3> QED BY <1>10, <2>1, <3>1 DEF Wanted
  <2>3. Printable' = Wanted
        BY <1>1, <2>2, SameKeys DEF Printable
  <2>4. \A x : D(x)' = D(x)
        BY <1>1, SameKeys DEF D
  <2>5. \A i \in 1..n : Lgiap!DedupeKey(output[i])' = D(output'[i])
        BY <1>1 DEF D, Lgiap!DedupeKey, Lgiap!FileKey, Lgiap!Version
  <2>6. \A i, k \in 1..n : Lgiap!Less(output[i], output[k])' <=> Lgiap!Less(output'[i], output'[k])
        BY <1>1 DEF Lgiap!Less
  <2>7. {Lgiap!DedupeKey(output[i])' : i \in DOMAIN output'} = {Lgiap!DedupeKey(r)' : r \in Printable'}
        BY <1>7, <1>8, <2>3, <2>4, <2>5 DEF D
  <2>8. \A i, k \in DOMAIN output' : i < k => Lgiap!Less(output[i], output[k])'
        BY <1>7, <1>9, <2>6
  <2> QED BY <1>1, <1>10, <2>7, <2>8 DEF OutputLines
<1>12. LgiapType' /\ CollectInv'
      BY <1>1 DEF LgiapType, CollectInv, Lgiap!Query
<1> QED BY <1>1, <1>11, <1>12 DEF CombineInv, DedupeInv

LEMMA NotJsonLgiap ==
    ASSUME LgiapInv, Lgiap!NotJson
    PROVE  LgiapInv'
BY DEF Lgiap!NotJson, Lgiap!loop, LgiapInv, LgiapType, CollectInv, CombineInv, DedupeInv,
       OutputLines, Lgiap!Query

LEMMA LgiapNext ==
    ASSUME LgiapInv, Lgiap!Next
    PROVE  LgiapInv'
BY NotJsonLgiap, DoQueryLgiap, ReceiveLgiap, CollectedLgiap, CombineLgiap, CombinedLgiap, VisitLgiap,
   FormatResultsLgiap DEF Lgiap!Next

-----------------------------------------------------------------------------
(* The order of arrival, on top of LgiapInv.                               *)

LEMMA SameArrivals ==
    ASSUME comp' = comp, results' = results
    PROVE  /\ \A n : Lgiap!Found(n)' = Lgiap!Found(n)
           /\ \A x : Lgiap!FirstToArrive(x)' <=> Lgiap!FirstToArrive(x)
<1>1. \A n : Lgiap!Found(n)' = Lgiap!Found(n)
      BY DEF Lgiap!Found
<1>2. \A x : Lgiap!DedupeKey(x)' = Lgiap!DedupeKey(x)
      BY SameKeys
<1>3. ASSUME NEW x PROVE Lgiap!FirstToArrive(x)' <=> Lgiap!FirstToArrive(x)
  <2>1. \A m : \A k \in DOMAIN Lgiap!Found(m) :
            Lgiap!DedupeKey(Lgiap!Found(m)[k])' = Lgiap!DedupeKey(Lgiap!Found(m)[k])
        BY <1>1 DEF Lgiap!DedupeKey, Lgiap!FileKey, Lgiap!Version
  <2> QED BY <1>1, <1>2, <2>1 DEF Lgiap!FirstToArrive
<1> QED BY <1>1, <1>3

(* An answer gives the results of an include query.                        *)
LEMMA FoundIs ==
    ASSUME LgiapType, NEW n \in 1..Len(results)
    PROVE  /\ Lgiap!Found(n) \in Seq(Lgiap!Result)
           /\ Lgiap!Found(n) = IF comp.queries[results[n]].op \in Lgiap!Includes
                               THEN comp.queries[results[n]].reply ELSE <<>>
<1>1. comp.queries[results[n]].reply \in Seq(Lgiap!Result)
      BY Composition
<1>2. Lgiap!Found(n) = IF comp.queries[results[n]].op \in Lgiap!Includes
                       THEN comp.queries[results[n]].reply ELSE <<>>
      BY DEF Lgiap!Found
<1> HIDE DEF Lgiap!Result
<1>3. <<>> \in Seq(Lgiap!Result)
      OBVIOUS
<1> QED BY <1>1, <1>2, <1>3

LEMMA FoundIsAnswer ==
    ASSUME LgiapType, NEW n \in 0..Len(results), NEW m \in 1..n, NEW j \in DOMAIN Lgiap!Found(m)
    PROVE  Lgiap!Found(m)[j] \in Answers(Lgiap!Includes, n)
<1>1. n \in Nat /\ m \in 1..Len(results)
      BY Composition
<1>2. /\ comp.queries[results[m]].op \in Lgiap!Includes
      /\ Lgiap!Found(m) = comp.queries[results[m]].reply
      BY <1>1, FoundIs
<1>3. Lgiap!Found(m) \in Seq(Lgiap!Result)
      BY <1>1, FoundIs
<1>4. Lgiap!Found(m)[j] \in Lgiap!Result
  <2> DEFINE F == Lgiap!Found(m)
  <2>1. j \in DOMAIN F /\ F \in Seq(Lgiap!Result)
        BY <1>3
  <2> HIDE DEF F
  <2>2. F[j] \in Lgiap!Result
        BY <2>1
  <2> QED BY <2>2 DEF F
<1>5. Holds(results[m], Lgiap!Includes, Lgiap!Found(m)[j])
      BY <1>2 DEF Holds
<1> QED BY <1>4, <1>5 DEF Answers

LEMMA CombineArrival ==
    ASSUME LgiapInv, ArrivalInv, Lgiap!Combine
    PROVE  ArrivalInv'
<1> USE DEF LgiapInv
<1> DEFINE F == Lgiap!Found(at)
           N == Len(allFound)
<1>1. /\ lgiap_mpc = "combine" /\ lgiap_mpc' = "combine" /\ at <= Len(results) /\ at' = at + 1
      /\ allFound' = IF comp.queries[results[at]].op \in Lgiap!Includes
                     THEN allFound \o comp.queries[results[at]].reply ELSE allFound
      /\ UNCHANGED <<comp, results>>
      BY DEF Lgiap!Combine
<1>2. at \in 1..Len(results) /\ Len(results) \in Nat /\ at' - 1 = at
      BY <1>1, Composition DEF LgiapType
<1>3. F \in Seq(Lgiap!Result) /\ allFound \in Seq(Lgiap!Result)
      BY <1>2, FoundIs DEF LgiapType
<1>4. allFound' = allFound \o F
  <2>1. CASE comp.queries[results[at]].op \in Lgiap!Includes
        BY <1>1, <1>2, <2>1, FoundIs
  <2>2. CASE comp.queries[results[at]].op \notin Lgiap!Includes
    <3>1. F = <<>>
          BY <1>2, <2>2, FoundIs
    <3>2. allFound' = allFound
          BY <1>1, <2>2
    <3> HIDE DEF F
    <3> QED BY <1>3, <3>1, <3>2
  <2> QED BY <2>1, <2>2
<1>5. \A n : Lgiap!Found(n)' = Lgiap!Found(n)
      BY <1>1, SameArrivals
<1>6. \A k \in 1..N : Gathered(k)
      BY <1>1 DEF ArrivalInv
<1>7. \A m \in 1..(at - 1) : \A j \in DOMAIN Lgiap!Found(m) : \E h \in 1..N : allFound[h] = Lgiap!Found(m)[j]
  <2> SUFFICES ASSUME NEW m \in 1..(at - 1), NEW j \in DOMAIN Lgiap!Found(m)
               PROVE  \E h \in 1..N : allFound[h] = Lgiap!Found(m)[j]
      OBVIOUS
  <2>1. Lgiap!Found(m)[j] \in Answers(Lgiap!Includes, at - 1)
        BY <1>2, FoundIsAnswer
  <2>2. {allFound[i] : i \in 1..N} = Answers(Lgiap!Includes, at - 1)
        BY <1>1 DEF CombineInv
  <2> QED BY <2>1, <2>2
<1>8. /\ N \in Nat /\ Len(F) \in Nat /\ Len(allFound') = N + Len(F) /\ DOMAIN F = 1..Len(F)
      /\ \A i \in 1..N : allFound'[i] = allFound[i]
      /\ \A i \in 1..Len(F) : allFound'[N + i] = F[i]
  <2> HIDE DEF F
  <2> QED BY <1>3, <1>4
<1>9. ASSUME NEW k \in 1..Len(allFound')
      PROVE  Gathered(k)'
  <2>1. CASE k \in 1..N
    <3>1. PICK n \in 1..(at - 1) : \E i \in DOMAIN Lgiap!Found(n) :
              /\ Lgiap!Found(n)[i] = allFound[k]
              /\ \A m \in 1..n : \A j \in DOMAIN Lgiap!Found(m) :
                    m < n \/ j < i => \E h \in 1..(k - 1) : allFound[h] = Lgiap!Found(m)[j]
          BY <1>6, <2>1 DEF Gathered
    <3>2. PICK i \in DOMAIN Lgiap!Found(n) :
              /\ Lgiap!Found(n)[i] = allFound[k]
              /\ \A m \in 1..n : \A j \in DOMAIN Lgiap!Found(m) :
                    m < n \/ j < i => \E h \in 1..(k - 1) : allFound[h] = Lgiap!Found(m)[j]
          BY <3>1
    <3>3. n \in 1..at
          BY <1>2
    <3>4. \A h \in 1..(k - 1) : allFound'[h] = allFound[h]
          BY <1>8, <2>1
    <3>5. Lgiap!Found(n)[i] = allFound'[k]
          BY <1>8, <2>1, <3>2
    <3>6. \A m \in 1..n : \A j \in DOMAIN Lgiap!Found(m) :
              m < n \/ j < i => \E h \in 1..(k - 1) : allFound'[h] = Lgiap!Found(m)[j]
          BY <3>2, <3>4
    <3> QED BY <1>2, <1>5, <3>3, <3>5, <3>6 DEF Gathered
  <2>2. CASE k \notin 1..N
    <3> DEFINE i == k - N
    <3>1. i \in 1..Len(F) /\ k = N + i
          BY <1>8, <2>2
    <3>2. F[i] = allFound'[k]
          BY <1>8, <3>1
    <3>3. ASSUME NEW m \in 1..at, NEW j \in DOMAIN Lgiap!Found(m), m < at \/ j < i
          PROVE  \E h \in 1..(k - 1) : allFound'[h] = Lgiap!Found(m)[j]
      <4>1. CASE m < at
        <5>1. m \in 1..(at - 1)
              BY <1>2, <4>1
        <5>2. PICK h \in 1..N : allFound[h] = Lgiap!Found(m)[j]
              BY <1>7, <5>1
        <5>3. h \in 1..(k - 1)
              BY <1>8, <3>1
        <5> QED BY <1>8, <5>2, <5>3
      <4>2. CASE m = at
        <5>1. j \in 1..Len(F) /\ j < i
              BY <1>2, <1>8, <3>3, <4>2
        <5>2. N + j \in 1..(k - 1) /\ allFound'[N + j] = F[j]
              BY <1>8, <3>1, <5>1
        <5> QED BY <4>2, <5>2
      <4> QED BY <1>2, <4>1, <4>2
    <3>4. i \in DOMAIN Lgiap!Found(at) /\ at \in 1..at
          BY <1>2, <1>8, <3>1
    <3> HIDE DEF i
    <3> QED BY <1>2, <1>5, <3>2, <3>3, <3>4 DEF Gathered
  <2> QED BY <2>1, <2>2
<1> QED BY <1>1, <1>9 DEF ArrivalInv

LEMMA CombinedArrival ==
    ASSUME LgiapInv, ArrivalInv, Lgiap!Combined
    PROVE  ArrivalInv'
<1> USE DEF LgiapInv
<1>1. /\ lgiap_mpc = "combine" /\ at > Len(results) /\ at' = 1 /\ lgiap_mpc' = "dedupe"
      /\ UNCHANGED <<comp, results, allFound, seen>>
      BY DEF Lgiap!Combined
<1>2. Len(results) \in Nat /\ at - 1 = Len(results) /\ Len(allFound) \in Nat
      BY <1>1, Composition DEF CombineInv, LgiapType
<1>3. \A n : Lgiap!Found(n)' = Lgiap!Found(n)
      BY <1>1, SameArrivals
<1>4. Cardinality(seen') = 0
      BY <1>1, FS_EmptySet DEF CollectInv
<1>5. ASSUME NEW k \in 1..Len(allFound) PROVE Waits(k)'
  <2>1. Gathered(k)
        BY <1>1 DEF ArrivalInv
  <2> QED BY <1>1, <1>2, <1>3, <2>1 DEF Gathered, Waits
<1> QED BY <1>1, <1>4, <1>5 DEF ArrivalInv

LEMMA VisitArrival ==
    ASSUME LgiapInv, ArrivalInv, Lgiap!Visit
    PROVE  ArrivalInv'
<1> USE DEF LgiapInv
<1> DEFINE found == allFound[at]
           n == Cardinality(seen)
           N == Len(allFound)
           P(x) == Passed(x)
<1>1. /\ lgiap_mpc = "dedupe" /\ at <= N /\ at' = at + 1 /\ lgiap_mpc' = "dedupe"
      /\ UNCHANGED <<comp, results, excludedFiles, excludedRepos>>
      BY DEF Lgiap!Visit
<1>2. /\ n \in Nat /\ N \in Nat /\ at \in Nat /\ at >= 1 /\ at \in at..N /\ n < at
      /\ allFound \in Seq(Lgiap!Result)
      BY <1>1, FS_CardinalityType DEF LgiapType, DedupeInv
<1>3. /\ \A x : Lgiap!FirstToArrive(x)' <=> Lgiap!FirstToArrive(x)
      /\ \A m : Lgiap!Found(m)' = Lgiap!Found(m)
      BY <1>1, SameArrivals
<1>4. /\ \A x \in {allFound[i] : i \in 1..n} : Lgiap!FirstToArrive(x)
      /\ \A k \in at..N : Waits(k)
      BY <1>1 DEF ArrivalInv
<1>5. \/ P(found) /\ UNCHANGED <<allFound, seen>>
      \/ /\ ~P(found)
         /\ allFound' = [allFound EXCEPT ![n + 1] = found]
         /\ seen' = seen \cup {Lgiap!DedupeKey(found)}
  <2>1. Lgiap!NextSlot = n + 1
        BY LgiapSets DEF Lgiap!NextSlot
  <2> QED BY <2>1 DEF Lgiap!Visit, Passed
<1>6. \A x : (Passed(x) \/ x = found) => Passed(x)'
  <2> SUFFICES ASSUME NEW x, Passed(x) \/ x = found PROVE Passed(x)'
      OBVIOUS
  <2>1. /\ Lgiap!DedupeKey(x)' = Lgiap!DedupeKey(x) /\ Lgiap!FileKey(x)' = Lgiap!FileKey(x)
        /\ Lgiap!RepoKey(x)' = Lgiap!RepoKey(x)
        BY <1>1, SameKeys
  <2>2. Lgiap!DedupeKey(x) \in seen' \/ Passed(x)
    <3>1. CASE x = found
          BY <1>5, <3>1
    <3>2. CASE Passed(x)
          BY <3>2
    <3> QED BY <3>1, <3>2
  <2>3. seen \subseteq seen'
        BY <1>5
  <2> QED BY <1>1, <2>1, <2>2, <2>3 DEF Passed
<1>7. /\ N' = N
      /\ \A i \in (at + 1)..N : allFound'[i] = allFound[i] /\ i \in at..N
  <2>1. CASE UNCHANGED allFound
        BY <1>2, <2>1
  <2>2. CASE allFound' = [allFound EXCEPT ![n + 1] = found]
    <3> HIDE DEF found, n
    <3>1. Len(allFound') = Len(allFound)
          BY <1>2, <2>2
    <3>2. \A i \in (at + 1)..Len(allFound) : i \in 1..Len(allFound) /\ i # n + 1 /\ i \in at..Len(allFound)
          BY <1>2
    <3>3. \A i \in 1..Len(allFound) : i # n + 1 => allFound'[i] = allFound[i]
          BY <1>2, <2>2
    <3> QED BY <3>1, <3>2, <3>3
  <2> QED BY <1>5, <2>1, <2>2
<1>8. ASSUME NEW k \in (at + 1)..N PROVE Waits(k)'
  <2>1. Waits(k) /\ allFound'[k] = allFound[k] /\ k \in Nat
        BY <1>2, <1>4, <1>7
  <2>2. \A h \in at..(k - 1) : h = at \/ (h \in (at + 1)..(k - 1) /\ allFound'[h] = allFound[h])
        BY <1>2, <1>7, <2>1
  <2>3. PICK c \in 1..Len(results) : \E i \in DOMAIN Lgiap!Found(c) :
            /\ Lgiap!Found(c)[i] = allFound[k]
            /\ \A m \in 1..c : \A j \in DOMAIN Lgiap!Found(m) :
                  m < c \/ j < i =>
                      \/ Passed(Lgiap!Found(m)[j])
                      \/ \E h \in at..(k - 1) : allFound[h] = Lgiap!Found(m)[j]
        BY <2>1 DEF Waits
  <2>4. PICK i \in DOMAIN Lgiap!Found(c) :
            /\ Lgiap!Found(c)[i] = allFound[k]
            /\ \A m \in 1..c : \A j \in DOMAIN Lgiap!Found(m) :
                  m < c \/ j < i =>
                      \/ Passed(Lgiap!Found(m)[j])
                      \/ \E h \in at..(k - 1) : allFound[h] = Lgiap!Found(m)[j]
        BY <2>3
  <2>5. ASSUME NEW m \in 1..c, NEW j \in DOMAIN Lgiap!Found(m), m < c \/ j < i
        PROVE  \/ Passed(Lgiap!Found(m)[j])'
               \/ \E h \in (at + 1)..(k - 1) : allFound'[h] = Lgiap!Found(m)'[j]
    <3> PICK x : x = Lgiap!Found(m)[j]
        OBVIOUS
    <3>1. x = Lgiap!Found(m)'[j]
          BY <1>3
    <3>2. Passed(x)' <=> Passed(Lgiap!Found(m)[j])'
          BY <3>1 DEF Passed, Lgiap!DedupeKey, Lgiap!FileKey, Lgiap!RepoKey, Lgiap!Version
    <3>3. Passed(x) \/ \E h \in at..(k - 1) : allFound[h] = x
          BY <2>4, <2>5
    <3>4. Passed(x)' \/ \E h \in (at + 1)..(k - 1) : allFound'[h] = x
          BY <1>6, <2>2, <3>3
    <3> QED BY <3>1, <3>2, <3>4
  <2>6. i \in DOMAIN Lgiap!Found(c)' /\ Lgiap!Found(c)'[i] = allFound'[k]
        BY <1>3, <2>1, <2>4
  <2>7. Len(results') = Len(results) /\ \A m : DOMAIN Lgiap!Found(m)' = DOMAIN Lgiap!Found(m)
        BY <1>1, <1>3
  <2> QED BY <1>1, <2>5, <2>6, <2>7 DEF Waits
<1>9. CASE P(found) /\ UNCHANGED <<allFound, seen>>
      BY <1>1, <1>3, <1>4, <1>7, <1>8, <1>9 DEF ArrivalInv
<1>10. CASE /\ ~P(found)
            /\ allFound' = [allFound EXCEPT ![n + 1] = found]
            /\ seen' = seen \cup {Lgiap!DedupeKey(found)}
  <2>1. Cardinality(seen') = n + 1
    <3>1. Lgiap!DedupeKey(found) \notin seen
          BY <1>10 DEF Passed
    <3> QED BY <1>10, <3>1, FS_AddElement DEF LgiapType
  <2>2. Lgiap!FirstToArrive(found)
    <3>1. PICK c \in 1..Len(results) : \E i \in DOMAIN Lgiap!Found(c) :
              /\ Lgiap!Found(c)[i] = found
              /\ \A m \in 1..c : \A j \in DOMAIN Lgiap!Found(m) :
                    m < c \/ j < i =>
                        \/ Passed(Lgiap!Found(m)[j])
                        \/ \E h \in at..(at - 1) : allFound[h] = Lgiap!Found(m)[j]
          BY <1>2, <1>4 DEF Waits
    <3>2. PICK i \in DOMAIN Lgiap!Found(c) :
              /\ Lgiap!Found(c)[i] = found
              /\ \A m \in 1..c : \A j \in DOMAIN Lgiap!Found(m) :
                    m < c \/ j < i =>
                        \/ Passed(Lgiap!Found(m)[j])
                        \/ \E h \in at..(at - 1) : allFound[h] = Lgiap!Found(m)[j]
          BY <3>1
    <3>3. at..(at - 1) = {}
          BY <1>2
    <3>4. ASSUME NEW x, Passed(x) PROVE Lgiap!DedupeKey(x) # Lgiap!DedupeKey(found)
      <4>1. ~Passed(found)
            BY <1>10
      <4>2. ASSUME Lgiap!DedupeKey(x) = Lgiap!DedupeKey(found) PROVE Lgiap!FileKey(x) = Lgiap!FileKey(found)
            BY <4>2 DEF Lgiap!DedupeKey
      <4>3. ASSUME Lgiap!FileKey(x) = Lgiap!FileKey(found) PROVE Lgiap!RepoKey(x) = Lgiap!RepoKey(found)
            BY <4>3 DEF Lgiap!RepoKey
      <4> HIDE DEF found
      <4> QED BY <3>4, <4>1, <4>2, <4>3 DEF Passed
    <3>5. DOMAIN results = 1..Len(results)
          BY DEF LgiapType
    <3> HIDE DEF found
    <3> QED BY <3>2, <3>3, <3>4, <3>5 DEF Lgiap!FirstToArrive
  <2>3. \A i \in 1..(n + 1) : allFound'[i] = found \/ (i \in 1..n /\ allFound'[i] = allFound[i])
    <3> HIDE DEF found, n
    <3>1. \A i \in 1..Len(allFound) : allFound'[i] = IF i = n + 1 THEN found ELSE allFound[i]
          BY <1>2, <1>10
    <3>2. \A i \in 1..(n + 1) : i \in 1..Len(allFound) /\ (i = n + 1 \/ i \in 1..n)
          BY <1>2
    <3> QED BY <3>1, <3>2
  <2> HIDE DEF found, n, N
  <2>4. \A x \in {allFound'[i] : i \in 1..(n + 1)} : Lgiap!FirstToArrive(x)
        BY <1>4, <2>2, <2>3
  <2>5. \A k \in (at + 1)..N' : Waits(k)'
        BY <1>7, <1>8
  <2>6. \A x \in {allFound'[i] : i \in 1..(n + 1)} : Lgiap!FirstToArrive(x)'
        BY <1>3, <2>4
  <2> QED BY <1>1, <2>1, <2>5, <2>6 DEF ArrivalInv, N
<1> QED BY <1>5, <1>9, <1>10

LEMMA FormatResultsArrival ==
    ASSUME LgiapInv, ArrivalInv, Lgiap!FormatResults
    PROVE  ArrivalInv'
<1> DEFINE n == Cardinality(seen)
<1>1. /\ lgiap_mpc = "dedupe" /\ lgiap_mpc' = "printed" /\ UNCHANGED <<comp, results>>
      BY DEF Lgiap!FormatResults
<1>2. PICK p \in Lgiap!Bijection(1..n, 1..n) : output' = [i \in 1..n |-> allFound[p[i]]]
      BY LgiapSets DEF Lgiap!FormatResults
<1>3. p \in [1..n -> 1..n]
      BY DEF Lgiap!Bijection, Lgiap!Injection, Lgiap!Surjection, Lgiap!IsInjective
<1> HIDE DEF n
<1>4. DOMAIN output' = 1..n /\ \A i \in 1..n : output'[i] \in {allFound[k] : k \in 1..n}
      BY <1>2, <1>3
<1>5. \A x \in {allFound[i] : i \in 1..n} : Lgiap!FirstToArrive(x)'
      BY <1>1, SameArrivals DEF ArrivalInv, n
<1>6. \A x \in {output'[i] : i \in DOMAIN output'} : Lgiap!FirstToArrive(x)'
      BY <1>4, <1>5
<1> QED BY <1>1, <1>6 DEF ArrivalInv

(* Steps that leave main's loops alone, or are before or after them.       *)
LEMMA ArrivalKept ==
    ASSUME UNCHANGED loops, ArrivalInv
    PROVE  ArrivalInv'
<1> USE DEF loops
<1>1. /\ \A n : Lgiap!Found(n)' = Lgiap!Found(n)
      /\ \A x : Lgiap!FirstToArrive(x)' <=> Lgiap!FirstToArrive(x)
      BY SameArrivals
<1>2. ASSUME NEW k PROVE Gathered(k) => Gathered(k)'
      BY <1>1 DEF Gathered
<1>3. ASSUME NEW k PROVE Waits(k) => Waits(k)'
  <2>1. \A m : \A j : Passed(Lgiap!Found(m)[j]) => Passed(Lgiap!Found(m)[j])'
    <3>1. \A m, j : Lgiap!Found(m)[j]' = Lgiap!Found(m)[j]
          BY <1>1
    <3> QED BY <3>1 DEF Passed, Lgiap!DedupeKey, Lgiap!FileKey, Lgiap!RepoKey, Lgiap!Version
  <2> QED BY <1>1, <2>1 DEF Waits
<1> QED BY <1>1, <1>2, <1>3 DEF ArrivalInv

LEMMA NextArrival ==
    ASSUME LgiapInv, ArrivalInv, Lgiap!Next
    PROVE  ArrivalInv'
<1>1. CASE Lgiap!Combine
      BY <1>1, CombineArrival
<1>2. CASE Lgiap!Combined
      BY <1>2, CombinedArrival
<1>3. CASE Lgiap!Visit
      BY <1>3, VisitArrival
<1>4. CASE Lgiap!FormatResults
      BY <1>4, FormatResultsArrival
<1>5. CASE Lgiap!Collected
  <2>1. lgiap_mpc' = "combine" /\ allFound' = <<>>
        BY <1>5 DEF Lgiap!Collected, LgiapInv, CollectInv
  <2> QED BY <2>1 DEF ArrivalInv
<1>6. CASE Lgiap!NotJson
      BY <1>6 DEF Lgiap!NotJson, ArrivalInv
<1>7. ASSUME NEW q \in Lgiap!Query, Lgiap!Receive(q) PROVE ArrivalInv'
  <2>1. lgiap_mpc' \in {"collect", "error"}
        BY <1>7 DEF Lgiap!Receive
  <2> QED BY <2>1 DEF ArrivalInv
<1>8. ASSUME NEW q \in Lgiap!Query, Lgiap!DoQuery(q) \/ Lgiap!GiveUp(q) PROVE ArrivalInv'
  <2>1. UNCHANGED loops
        BY <1>8 DEF Lgiap!DoQuery, Lgiap!GiveUp, Lgiap!loop, loops
  <2> QED BY <2>1, ArrivalKept
<1> QED BY <1>1, <1>2, <1>3, <1>4, <1>5, <1>6, <1>7, <1>8 DEF Lgiap!Next

-----------------------------------------------------------------------------
(* The inductive invariant of livegrep-github-reindex.                     *)

AllOf(j) == Load!Places(j, Load!Pages(j))
GState == {"none", "new", "call", "release", "exited"}

LoadType ==
    /\ bad \in SUBSET Load!Page
    /\ sent \in 0..Len(Listing)
    /\ wpc \in [Worker -> {"take", "first", "pages", "out", "exited"}]
    /\ wjob \in [Worker -> 0..Len(Listing)]
    /\ load_mpc \in {"range", "config", "fatal", "written"}
    /\ out \in Seq(Load!AllListed)

PagesType ==
    /\ gpc \in [Load!Job -> UNION {[Q -> GState] : Q \in SUBSET Nat}]
    /\ \A j \in Load!Job : gpc[j] \in [Load!FurtherPages(j) -> GState]
    /\ stream \in [Load!Job -> Seq(Nat)]
    /\ \A j \in Load!Job : \A i \in DOMAIN stream[j] : stream[j][i] \in Load!FurtherPages(j)
    /\ streamClosed \in [Load!Job -> BOOLEAN]
    /\ matrix \in [Load!Job -> SUBSET Nat]
    /\ \A j \in Load!Job : matrix[j] \subseteq Load!Pages(j)
    /\ res \in [Worker -> [repos : Seq(Load!AllListed), err : BOOLEAN]]

Busy(w) == wpc[w] \in {"first", "pages", "out"}
Held(j) == \E w \in Worker : Busy(w) /\ wjob[w] = j
NoneBad(j) == \A p \in Load!Pages(j) : <<j, p>> \notin bad

(* A job that was sent is with one worker, until all it lists is in out.   *)
JobsInv ==
    /\ \A w \in Worker : Busy(w) => wjob[w] \in 1..sent
    /\ \A v, w \in Worker : Busy(v) /\ Busy(w) /\ wjob[v] = wjob[w] => v = w
    /\ \A j \in 1..sent :
          \/ done \/ Held(j)
          \/ NoneBad(j) /\ \A x \in AllOf(j) : \E i \in 1..Len(out) : out[i] = x
    /\ \A i \in 1..Len(out) : out[i][1] \in 1..sent /\ ~Held(out[i][1])
    /\ \A i, k \in 1..Len(out) : out[i] = out[k] => i = k

(* Who has come to an end, and why.                                        *)
EndsInv ==
    /\ done <=> load_mpc = "fatal"
    /\ jobcClosed => sent = Len(Listing) \/ done
    /\ \A w \in Worker : wpc[w] = "exited" => done \/ jobcClosed
    /\ load_mpc \in {"config", "written"} => \A w \in Worker : wpc[w] = "exited"

(* The pages of a job: an answer is in resStream or in the matrix.         *)
Answered(j, p) == gpc[j][p] \in {"release", "exited"}
PagesInv ==
    /\ \A j \in Load!Job : streamClosed[j] =>
          Load!FurtherPages(j) # {} /\ \A p \in Load!FurtherPages(j) : gpc[j][p] = "exited"
    /\ \A j \in Load!Job : j > sent => \A p \in Load!FurtherPages(j) : gpc[j][p] = "none"
    /\ \A w \in Worker : wpc[w] = "first" =>
          \A p \in Load!FurtherPages(wjob[w]) : gpc[wjob[w]][p] = "none"
    /\ \A j \in Load!Job : \A p \in matrix[j] : <<j, p>> \notin bad
    /\ \A w \in Worker : wpc[w] = "pages" =>
          /\ 1 \in matrix[wjob[w]]
          /\ \A p \in Load!FurtherPages(wjob[w]) : Answered(wjob[w], p) =>
                 p \in matrix[wjob[w]] \/ \E i \in DOMAIN stream[wjob[w]] : stream[wjob[w]][i] = p

(* What a worker is about to send, unless it is an error, is all that its  *)
(* job lists.                                                              *)
ResInv ==
    \A w \in Worker : wpc[w] = "out" /\ ~res[w].err =>
        /\ NoneBad(wjob[w])
        /\ {res[w].repos[i] : i \in 1..Len(res[w].repos)} = AllOf(wjob[w])
        /\ \A i, k \in 1..Len(res[w].repos) : res[w].repos[i] = res[w].repos[k] => i = k

LoadInv == LoadType /\ PagesType /\ JobsInv /\ EndsInv /\ PagesInv /\ ResInv /\ Load!ConfigExact

-----------------------------------------------------------------------------
LEMMA LoadSets ==
    /\ \A S : Load!Cardinality(S) = Cardinality(S)
    /\ \A s : Load!ToSet(s) = {s[a] : a \in DOMAIN s}
<1>1. \A S : Load!Cardinality(S) = Cardinality(S)
      BY DEF Load!Cardinality, Cardinality
<1>2. \A s : Load!ToSet(s) = {s[a] : a \in DOMAIN s}
      BY DEF Load!ToSet
<1> QED BY <1>1, <1>2

(* What GitHub lists.                                                      *)
LEMMA Listings ==
    /\ Len(Listing) \in Nat /\ Load!Job = 1..Len(Listing)
    /\ \A j \in Load!Job :
          /\ Load!Pages(j) = 1..Len(Listing[j]) /\ Len(Listing[j]) \in Nat /\ 1 \in Load!Pages(j)
          /\ \A p \in Load!Pages(j) : Listing[j][p] \in Seq(Nat)
<1>1. Listing \in Seq(Seq(Seq(Nat))) /\ \A j \in DOMAIN Listing : Listing[j] # <<>>
      BY Assumptions DEF Load!LoadAssumption
<1>2. ASSUME NEW j \in Load!Job
      PROVE  Listing[j] \in Seq(Seq(Nat)) /\ Listing[j] # <<>>
      BY <1>1 DEF Load!Job
<1>3. ASSUME NEW j \in Load!Job
      PROVE  /\ Load!Pages(j) = 1..Len(Listing[j]) /\ Len(Listing[j]) \in Nat /\ 1 \in Load!Pages(j)
             /\ \A p \in Load!Pages(j) : Listing[j][p] \in Seq(Nat)
      BY <1>2 DEF Load!Pages
<1>4. Len(Listing) \in Nat /\ Load!Job = 1..Len(Listing)
      BY <1>1 DEF Load!Job
<1> QED BY <1>3, <1>4

LEMMA PlacesAre ==
    /\ \A j, ps, x : x \in Load!Places(j, ps) <=>
           \E p \in ps : \E i \in DOMAIN Listing[j][p] : x = <<j, p, i>>
    /\ \A j, p, i : i \in DOMAIN Listing[j][p] => <<j, p, i>>[1] = j
    /\ \A j, ps : \A x \in Load!Places(j, ps) : x[1] = j
    /\ \A j \in Load!Job : \A ps \in SUBSET Load!Pages(j) : Load!Places(j, ps) \subseteq Load!AllListed
    /\ \A x : x \in Load!AllListed <=> \E j \in Load!Job : x \in AllOf(j)
<1>1. ASSUME NEW j, NEW ps, NEW x
      PROVE  x \in Load!Places(j, ps) <=>
                 \E p \in ps : \E i \in DOMAIN Listing[j][p] : x = <<j, p, i>>
  <2>1. ASSUME NEW p
        PROVE  x \in Load!ToSet(Load!ReposOf(j, p)) <=> \E i \in DOMAIN Listing[j][p] : x = <<j, p, i>>
    <3> DEFINE R == Load!ReposOf(j, p)
    <3>1. DOMAIN R = DOMAIN Listing[j][p] /\ \A i \in DOMAIN R : R[i] = <<j, p, i>>
          BY DEF Load!ReposOf
    <3>2. Load!ToSet(R) = {R[i] : i \in DOMAIN R}
          BY LoadSets
    <3> HIDE DEF R
    <3>3. x \in Load!ToSet(R) <=> \E i \in DOMAIN Listing[j][p] : x = <<j, p, i>>
          BY <3>1, <3>2
    <3> QED BY <3>3 DEF R
  <2> QED BY <2>1 DEF Load!Places
<1>2. \A j, ps : \A x \in Load!Places(j, ps) : x[1] = j
      BY <1>1
<1>3. \A x : x \in Load!AllListed <=> \E j \in Load!Job : x \in AllOf(j)
      BY DEF Load!AllListed, AllOf
<1>4. \A j \in Load!Job : \A ps \in SUBSET Load!Pages(j) : Load!Places(j, ps) \subseteq Load!AllListed
  <2> TAKE j \in Load!Job
  <2> TAKE ps \in SUBSET Load!Pages(j)
  <2>1. Load!Places(j, ps) \subseteq AllOf(j)
        BY <1>1 DEF AllOf
  <2> QED BY <1>3, <2>1
<1> QED BY <1>1, <1>2, <1>3, <1>4

LEMMA FiniteListings ==
    ASSUME NEW j \in Load!Job, NEW ps \in SUBSET Load!Pages(j)
    PROVE  IsFiniteSet(Load!Places(j, ps))
<1> DEFINE L(p) == Load!ToSet(Load!ReposOf(j, p))
           f == [p \in ps |-> L(p)]
           S == {L(p) : p \in ps}
<1>1. IsFiniteSet(ps)
  <2>1. IsFiniteSet(1..Len(Listing[j]))
    <3>1. PICK n \in Nat : n = Len(Listing[j])
          BY Listings
    <3> QED BY <3>1, FS_Interval
  <2> QED BY <2>1, Listings, FS_Subset
<1>2. f \in Surjection(ps, S)
      BY DEF Surjection
<1>3. IsFiniteSet(S)
  <2> HIDE DEF f, S
  <2> QED BY <1>1, <1>2, FS_Surjection
<1>4. ASSUME NEW p \in ps PROVE IsFiniteSet(L(p))
  <2> DEFINE D == DOMAIN Listing[j][p]
             g == [i \in D |-> <<j, p, i>>]
             T == {g[i] : i \in D}
  <2>1. Listing[j][p] \in Seq(Nat)
        BY Listings
  <2>2. D = 1..Len(Listing[j][p]) /\ Len(Listing[j][p]) \in Nat
        BY <2>1
  <2>3. IsFiniteSet(D)
    <3> HIDE DEF D
    <3> QED BY <2>2, FS_Interval
  <2>4. L(p) = T
        BY LoadSets DEF Load!ReposOf
  <2>5. g \in Surjection(D, T)
        BY DEF Surjection
  <2> HIDE DEF g, T, D, L
  <2> QED BY <2>3, <2>4, <2>5, FS_Surjection
<1>5. UNION S = Load!Places(j, ps)
      BY DEF Load!Places
<1>6. \A X \in S : IsFiniteSet(X)
      BY <1>4
<1> HIDE DEF S
<1> QED BY <1>3, <1>5, <1>6, FS_UNION

LEMMA NamesAreNat ==
    ASSUME NEW x \in Load!AllListed
    PROVE  Load!FullName(x) \in Nat
<1>1. PICK j \in Load!Job : \E p \in Load!Pages(j) : \E i \in DOMAIN Listing[j][p] : x = <<j, p, i>>
      BY PlacesAre DEF AllOf
<1>2. PICK p \in Load!Pages(j) : \E i \in DOMAIN Listing[j][p] : x = <<j, p, i>>
      BY <1>1
<1>3. Listing[j][p] \in Seq(Nat)
      BY Listings
<1> QED BY <1>2, <1>3 DEF Load!FullName

LEMMA LoadInit == Load!Init => LoadInv
<1> SUFFICES ASSUME Load!Init PROVE LoadInv
    OBVIOUS
<1>1. LoadType
      BY Listings DEF Load!Init, LoadType
<1>2. PagesType
  <2>1. ASSUME NEW j \in Load!Job
        PROVE  /\ gpc[j] \in [Load!FurtherPages(j) -> GState]
               /\ Load!FurtherPages(j) \in SUBSET Nat
        BY Listings DEF Load!Init, GState, Load!FurtherPages
  <2>2. gpc \in [Load!Job -> UNION {[Q -> GState] : Q \in SUBSET Nat}]
    <3>1. DOMAIN gpc = Load!Job /\ gpc = [j \in Load!Job |-> gpc[j]]
          BY DEF Load!Init
    <3> QED BY <2>1, <3>1
  <2> QED BY <2>1, <2>2 DEF Load!Init, PagesType, Load!NoResult
<1>3. JobsInv /\ EndsInv
      BY DEF Load!Init, JobsInv, EndsInv, Busy, Held
<1>4. PagesInv /\ ResInv
      BY DEF Load!Init, PagesInv, ResInv
<1> QED BY <1>1, <1>2, <1>3, <1>4 DEF Load!Init, LoadInv, Load!ConfigExact

-----------------------------------------------------------------------------
(* The goroutines of the pages.                                            *)
LEMMA PageStep ==
    ASSUME LoadInv, UNCHANGED <<bad, sent, jobcClosed, done, wpc, wjob, matrix, res, load_mpc, out, config>>,
           PagesType', PagesInv'
    PROVE  LoadInv'
<1> USE DEF LoadInv
<1>1. LoadType'
      BY DEF LoadType
<1>2. JobsInv' /\ EndsInv'
      BY DEF JobsInv, EndsInv, Busy, Held, NoneBad
<1>3. ResInv' /\ Load!ConfigExact'
      BY DEF ResInv, NoneBad, Load!ConfigExact
<1> QED BY <1>1, <1>2, <1>3

(* A page goroutine goes from one place to the next.                       *)
LEMMA GoroutineMoves ==
    ASSUME LoadInv, NEW j \in Load!Job, NEW p \in Load!FurtherPages(j), NEW g \in GState,
           gpc' = [gpc EXCEPT ![j][p] = g]
    PROVE  /\ gpc' \in [Load!Job -> UNION {[Q -> GState] : Q \in SUBSET Nat}]
           /\ \A k \in Load!Job : gpc'[k] \in [Load!FurtherPages(k) -> GState]
           /\ gpc'[j][p] = g
           /\ \A k \in Load!Job : \A r \in Load!FurtherPages(k) :
                 (k # j \/ r # p) => gpc'[k][r] = gpc[k][r]
<1>1. gpc \in [Load!Job -> UNION {[Q -> GState] : Q \in SUBSET Nat}]
      BY DEF LoadInv, PagesType
<1>2. \A k \in Load!Job : gpc[k] \in [Load!FurtherPages(k) -> GState]
      BY DEF LoadInv, PagesType
<1>3. Load!FurtherPages(j) \in SUBSET Nat
      BY Listings DEF Load!FurtherPages
<1> DEFINE G == [gpc[j] EXCEPT ![p] = g]
<1>4. G \in [Load!FurtherPages(j) -> GState] /\ G[p] = g /\ \A r \in Load!FurtherPages(j) : r # p => G[r] = gpc[j][r]
      BY <1>2
<1>5. gpc' = [gpc EXCEPT ![j] = G]
      OBVIOUS
<1> HIDE DEF G
<1>6. G \in UNION {[Q -> GState] : Q \in SUBSET Nat}
      BY <1>3, <1>4
<1>7. gpc'[j] = G /\ \A k \in Load!Job : k # j => gpc'[k] = gpc[k]
      BY <1>1, <1>5
<1>8. gpc' \in [Load!Job -> UNION {[Q -> GState] : Q \in SUBSET Nat}]
      BY <1>1, <1>5, <1>6
<1> QED BY <1>2, <1>4, <1>7, <1>8

LEMMA AcquireLoad ==
    ASSUME LoadInv, NEW j \in Load!Job, NEW p \in Load!FurtherPages(j), Load!Acquire(j, p)
    PROVE  LoadInv'
<1> USE DEF LoadInv
<1>1. /\ gpc[j][p] = "new" /\ gpc' = [gpc EXCEPT ![j][p] = "call"]
      /\ UNCHANGED <<bad, sent, jobcClosed, done, wpc, wjob, stream, streamClosed, matrix, res,
                     load_mpc, out, config>>
      BY DEF Load!Acquire, Load!dispatcher
<1>2. /\ gpc' \in [Load!Job -> UNION {[Q -> GState] : Q \in SUBSET Nat}]
      /\ \A k \in Load!Job : gpc'[k] \in [Load!FurtherPages(k) -> GState]
      /\ gpc'[j][p] = "call"
      /\ \A k \in Load!Job : \A r \in Load!FurtherPages(k) :
             (k # j \/ r # p) => gpc'[k][r] = gpc[k][r]
  <2>1. "call" \in GState
        BY DEF GState
  <2> QED BY <1>1, <2>1, GoroutineMoves
<1>3. PagesType'
      BY <1>1, <1>2 DEF PagesType
<1>4. PagesInv'
  <2>1. \A w \in Worker : wpc[w] \in {"first", "pages"} => wjob[w] \in Load!Job
        BY Listings DEF JobsInv, Busy, LoadType
  <2> QED BY <1>1, <1>2, <2>1 DEF PagesInv, Answered
<1> QED BY <1>1, <1>3, <1>4, PageStep

LEMMA ReleaseLoad ==
    ASSUME LoadInv, NEW j \in Load!Job, NEW p \in Load!FurtherPages(j), Load!Release(j, p)
    PROVE  LoadInv'
<1> USE DEF LoadInv
<1>1. /\ gpc[j][p] = "release" /\ gpc' = [gpc EXCEPT ![j][p] = "exited"]
      /\ UNCHANGED <<bad, sent, jobcClosed, done, wpc, wjob, stream, streamClosed, matrix, res,
                     load_mpc, out, config>>
      BY DEF Load!Release, Load!dispatcher
<1>2. /\ gpc' \in [Load!Job -> UNION {[Q -> GState] : Q \in SUBSET Nat}]
      /\ \A k \in Load!Job : gpc'[k] \in [Load!FurtherPages(k) -> GState]
      /\ gpc'[j][p] = "exited"
      /\ \A k \in Load!Job : \A r \in Load!FurtherPages(k) :
             (k # j \/ r # p) => gpc'[k][r] = gpc[k][r]
  <2>1. "exited" \in GState
        BY DEF GState
  <2> QED BY <1>1, <2>1, GoroutineMoves
<1>3. PagesType'
      BY <1>1, <1>2 DEF PagesType
<1>4. PagesInv'
  <2>1. \A w \in Worker : wpc[w] \in {"first", "pages"} => wjob[w] \in Load!Job
        BY Listings DEF JobsInv, Busy, LoadType
  <2> QED BY <1>1, <1>2, <2>1 DEF PagesInv, Answered
<1> QED BY <1>1, <1>3, <1>4, PageStep

LEMMA AnswerLoad ==
    ASSUME LoadInv, NEW j \in Load!Job, NEW p \in Load!FurtherPages(j), Load!Answer(j, p)
    PROVE  LoadInv'
<1> USE DEF LoadInv
<1>1. /\ gpc[j][p] = "call" /\ gpc' = [gpc EXCEPT ![j][p] = "release"]
      /\ stream' = [stream EXCEPT ![j] = Append(stream[j], p)]
      /\ UNCHANGED <<bad, sent, jobcClosed, done, wpc, wjob, streamClosed, matrix, res,
                     load_mpc, out, config>>
      BY DEF Load!Answer, Load!dispatcher
<1>2. /\ gpc' \in [Load!Job -> UNION {[Q -> GState] : Q \in SUBSET Nat}]
      /\ \A k \in Load!Job : gpc'[k] \in [Load!FurtherPages(k) -> GState]
      /\ gpc'[j][p] = "release"
      /\ \A k \in Load!Job : \A r \in Load!FurtherPages(k) :
             (k # j \/ r # p) => gpc'[k][r] = gpc[k][r]
  <2>1. "release" \in GState
        BY DEF GState
  <2> QED BY <1>1, <2>1, GoroutineMoves
<1>3. stream[j] \in Seq(Nat) /\ p \in Nat
      BY Listings DEF PagesType, Load!FurtherPages
<1>4. stream' \in [Load!Job -> Seq(Nat)] /\ stream'[j] = Append(stream[j], p)
      /\ \A k \in Load!Job : k # j => stream'[k] = stream[k]
      BY <1>1, <1>3 DEF PagesType
<1>5. PagesType'
  <2>1. \A i \in DOMAIN stream'[j] : i \in DOMAIN stream[j] \/ stream'[j][i] = p
        BY <1>3, <1>4
  <2>2. \A i \in DOMAIN stream[j] : stream'[j][i] = stream[j][i]
        BY <1>3, <1>4
  <2>3. \A k \in Load!Job : \A i \in DOMAIN stream'[k] : stream'[k][i] \in Load!FurtherPages(k)
    <3> TAKE k \in Load!Job
    <3>1. CASE k = j
          BY <2>1, <2>2, <3>1 DEF PagesType
    <3>2. CASE k # j
      <4>1. stream'[k] = stream[k]
            BY <1>4, <3>2
      <4> QED BY <4>1 DEF PagesType
    <3> QED BY <3>1, <3>2
  <2> QED BY <1>1, <1>2, <1>4, <2>3 DEF PagesType
<1>6. \E i \in DOMAIN stream'[j] : stream'[j][i] = p
  <2>1. Len(stream[j]) + 1 \in DOMAIN stream'[j] /\ stream'[j][Len(stream[j]) + 1] = p
        BY <1>3, <1>4
  <2> QED BY <2>1
<1>7. \A i \in DOMAIN stream[j] : i \in DOMAIN stream'[j] /\ stream'[j][i] = stream[j][i]
      BY <1>3, <1>4
<1>8. ASSUME NEW w \in Worker, wpc[w] = "pages", NEW r \in Load!FurtherPages(wjob[w]), Answered(wjob[w], r)'
      PROVE  r \in matrix[wjob[w]] \/ \E i \in DOMAIN stream'[wjob[w]] : stream'[wjob[w]][i] = r
  <2>1. wjob[w] \in Load!Job
        BY <1>8, Listings DEF JobsInv, Busy, LoadType
  <2>2. CASE wjob[w] = j /\ r = p
        BY <1>6, <2>2
  <2>3. CASE wjob[w] = j /\ r # p
    <3>1. Answered(wjob[w], r)
          BY <1>1, <1>2, <1>8, <2>1, <2>3 DEF Answered
    <3> QED BY <1>7, <1>8, <2>3, <3>1 DEF PagesInv
  <2>4. CASE wjob[w] # j
    <3>1. Answered(wjob[w], r)
          BY <1>1, <1>2, <1>8, <2>1, <2>4 DEF Answered
    <3>2. stream'[wjob[w]] = stream[wjob[w]]
          BY <1>4, <2>1, <2>4
    <3>3. r \in matrix[wjob[w]] \/ \E i \in DOMAIN stream[wjob[w]] : stream[wjob[w]][i] = r
          BY <1>8, <3>1 DEF PagesInv
    <3> QED BY <3>2, <3>3
  <2> QED BY <2>2, <2>3, <2>4
<1>9. PagesInv'
  <2>1. \A w \in Worker : wpc[w] \in {"first", "pages"} => wjob[w] \in Load!Job
        BY Listings DEF JobsInv, Busy, LoadType
  <2>2. \A k \in Load!Job : streamClosed'[k] =>
            Load!FurtherPages(k) # {} /\ \A r \in Load!FurtherPages(k) : gpc'[k][r] = "exited"
        BY <1>1, <1>2 DEF PagesInv
  <2>3. \A k \in Load!Job : k > sent => \A r \in Load!FurtherPages(k) : gpc'[k][r] = "none"
        BY <1>1, <1>2 DEF PagesInv
  <2>4. \A w \in Worker : wpc[w] = "first" =>
            \A r \in Load!FurtherPages(wjob[w]) : gpc'[wjob[w]][r] = "none"
        BY <1>1, <1>2, <2>1 DEF PagesInv
  <2>5. /\ \A k \in Load!Job : \A r \in matrix[k] : <<k, r>> \notin bad
        /\ \A w \in Worker : wpc[w] = "pages" => 1 \in matrix[wjob[w]]
        BY DEF PagesInv
  <2>6. \A w \in Worker : wpc[w] = "pages" =>
            \A r \in Load!FurtherPages(wjob[w]) : gpc'[wjob[w]][r] \in {"release", "exited"} =>
                r \in matrix[wjob[w]] \/ \E i \in DOMAIN stream'[wjob[w]] : stream'[wjob[w]][i] = r
        BY <1>1, <1>8 DEF Answered
  <2>7. bad' = bad /\ sent' = sent /\ wpc' = wpc /\ wjob' = wjob /\ matrix' = matrix
        BY <1>1
  <2> QED BY ONLY <2>2, <2>3, <2>4, <2>5, <2>6, <2>7 DEF PagesInv, Answered
<1> QED BY <1>1, <1>5, <1>9, PageStep

LEMMA CloseStreamLoad ==
    ASSUME LoadInv, NEW j \in Load!Job, Load!CloseStream(j)
    PROVE  LoadInv'
<1> USE DEF LoadInv
<1>1. /\ Load!FurtherPages(j) # {} /\ \A p \in Load!FurtherPages(j) : gpc[j][p] = "exited"
      /\ streamClosed' = [streamClosed EXCEPT ![j] = TRUE]
      /\ UNCHANGED <<bad, sent, jobcClosed, done, wpc, wjob, gpc, stream, matrix, res,
                     load_mpc, out, config>>
      BY DEF Load!CloseStream, Load!Waited, Load!dispatcher
<1>2. PagesType'
      BY <1>1 DEF PagesType
<1>3. PagesInv'
  <2>1. \A k \in Load!Job : streamClosed'[k] => k = j \/ streamClosed[k]
        BY <1>1 DEF PagesType
  <2> QED BY <1>1, <2>1 DEF PagesInv, Answered
<1> QED BY <1>1, <1>2, <1>3, PageStep


-----------------------------------------------------------------------------
(* The dispatcher, the workers and main.                                   *)
LEMMA ConfigKept ==
    ASSUME Load!ConfigExact, UNCHANGED <<bad, config>>, load_mpc' = load_mpc \/ load_mpc' # "written"
    PROVE  Load!ConfigExact'
BY DEF Load!ConfigExact

LEMMA JobsKept ==
    ASSUME JobsInv, UNCHANGED <<bad, sent, done, wjob, out>>, \A w \in Worker : Busy(w)' <=> Busy(w)
    PROVE  JobsInv'
<1>1. \A j : Held(j)' <=> Held(j)
      BY DEF Held
<1>2. \A j : NoneBad(j)' <=> NoneBad(j)
      BY DEF NoneBad
<1>3. /\ \A w \in Worker : Busy(w)' => wjob'[w] \in 1..sent'
      /\ \A v, w \in Worker : Busy(v)' /\ Busy(w)' /\ wjob'[v] = wjob'[w] => v = w
      BY DEF JobsInv
<1>4. \A j \in 1..sent' :
          \/ done' \/ Held(j)'
          \/ NoneBad(j)' /\ \A x \in AllOf(j) : \E i \in 1..Len(out') : out'[i] = x
      BY <1>1, <1>2 DEF JobsInv
<1>5. \A i \in 1..Len(out) : ~Held(out[i][1])'
  <2>1. \A i \in 1..Len(out) : ~Held(out[i][1])
        BY DEF JobsInv
  <2> QED BY <2>1 DEF Held
<1>6. /\ \A i \in 1..Len(out') : out'[i][1] \in 1..sent'
      /\ \A i, k \in 1..Len(out') : out'[i] = out'[k] => i = k
      BY DEF JobsInv
<1>7. \A i \in 1..Len(out') : ~Held(out[i][1])'
      BY <1>5
<1> QED BY <1>3, <1>4, <1>6, <1>7 DEF JobsInv, AllOf

LEMMA PagesKept ==
    ASSUME PagesInv, UNCHANGED <<bad, gpc, stream, streamClosed, matrix>>,
           \A j \in Load!Job : j > sent' => j > sent,
           \A w \in Worker : wpc'[w] = "pages" => wpc[w] = "pages" /\ wjob'[w] = wjob[w],
           \A w \in Worker : wpc'[w] = "first" =>
               \A p \in Load!FurtherPages(wjob'[w]) : gpc[wjob'[w]][p] = "none"
    PROVE  PagesInv'
<1>1. ASSUME NEW w \in Worker, wpc'[w] = "pages"
      PROVE  /\ 1 \in matrix'[wjob'[w]]
             /\ \A p \in Load!FurtherPages(wjob'[w]) : gpc'[wjob'[w]][p] \in {"release", "exited"} =>
                   p \in matrix'[wjob'[w]] \/ \E i \in DOMAIN stream'[wjob'[w]] : stream'[wjob'[w]][i] = p
  <2>1. wpc[w] = "pages" /\ wjob'[w] = wjob[w]
        BY <1>1
  <2>2. /\ 1 \in matrix[wjob[w]]
        /\ \A p \in Load!FurtherPages(wjob[w]) : gpc[wjob[w]][p] \in {"release", "exited"} =>
               p \in matrix[wjob[w]] \/ \E i \in DOMAIN stream[wjob[w]] : stream[wjob[w]][i] = p
        BY <2>1 DEF PagesInv, Answered
  <2> QED BY <2>1, <2>2
<1>2. /\ \A j \in Load!Job : streamClosed'[j] =>
             Load!FurtherPages(j) # {} /\ \A p \in Load!FurtherPages(j) : gpc'[j][p] = "exited"
      /\ \A j \in Load!Job : j > sent' => \A p \in Load!FurtherPages(j) : gpc'[j][p] = "none"
      /\ \A j \in Load!Job : \A p \in matrix'[j] : <<j, p>> \notin bad'
      BY DEF PagesInv
<1>3. \A w \in Worker : wpc'[w] = "first" =>
          \A p \in Load!FurtherPages(wjob'[w]) : gpc'[wjob'[w]][p] = "none"
      OBVIOUS
<1> QED BY ONLY <1>1, <1>2, <1>3 DEF PagesInv, Answered

LEMMA ResKept ==
    ASSUME ResInv, bad' = bad,
           \A w \in Worker : wpc'[w] = "out" =>
               wpc[w] = "out" /\ wjob'[w] = wjob[w] /\ res'[w] = res[w]
    PROVE  ResInv'
<1>1. ASSUME NEW w \in Worker, wpc'[w] = "out", ~res'[w].err
      PROVE  /\ NoneBad(wjob[w])'
             /\ {res'[w].repos[i] : i \in 1..Len(res'[w].repos)} = AllOf(wjob'[w])
             /\ \A i, k \in 1..Len(res'[w].repos) : res'[w].repos[i] = res'[w].repos[k] => i = k
  <2>1. wpc[w] = "out" /\ wjob'[w] = wjob[w] /\ res'[w] = res[w]
        BY <1>1
  <2>2. /\ NoneBad(wjob[w])
        /\ {res[w].repos[i] : i \in 1..Len(res[w].repos)} = AllOf(wjob[w])
        /\ \A i, k \in 1..Len(res[w].repos) : res[w].repos[i] = res[w].repos[k] => i = k
        BY <1>1, <2>1 DEF ResInv
  <2>3. NoneBad(wjob[w])'
        BY <2>1, <2>2 DEF NoneBad
  <2> QED BY <2>1, <2>2, <2>3
<1> QED BY <1>1 DEF ResInv, AllOf

LEMMA BusyJobs ==
    ASSUME LoadInv, NEW w \in Worker, Busy(w)
    PROVE  wjob[w] \in Load!Job /\ wjob[w] \in 1..sent /\ ~(load_mpc \in {"config", "written"})
<1>1. sent \in 0..Len(Listing) /\ Len(Listing) \in Nat
      BY Listings DEF LoadInv, LoadType
<1>2. wjob[w] \in 1..sent
      BY DEF LoadInv, JobsInv
<1> QED BY <1>1, <1>2, Listings DEF LoadInv, EndsInv, Busy

LEMMA SendJobLoad ==
    ASSUME LoadInv, NEW w \in Worker, Load!SendJob(w)
    PROVE  LoadInv'
<1> USE DEF LoadInv
<1>1. /\ ~jobcClosed /\ sent < Len(Listing) /\ wpc[w] = "take" /\ sent' = sent + 1
      /\ wpc' = [wpc EXCEPT ![w] = "first"] /\ wjob' = [wjob EXCEPT ![w] = sent + 1]
      /\ UNCHANGED <<bad, jobcClosed, done, gpc, stream, streamClosed, matrix, res, load_mpc, out, config>>
      BY DEF Load!SendJob, Load!pagevars
<1>2. sent \in Nat /\ sent + 1 \in 1..Len(Listing) /\ Len(Listing) \in Nat
      BY <1>1, Listings DEF LoadType
<1>3. /\ wpc'[w] = "first" /\ wjob'[w] = sent + 1
      /\ \A v \in Worker : v # w => wpc'[v] = wpc[v] /\ wjob'[v] = wjob[v]
      BY <1>1 DEF LoadType
<1>4. LoadType' /\ PagesType'
      BY <1>1, <1>2 DEF LoadType, PagesType
<1>5. ~Busy(w) /\ Busy(w)' /\ \A v \in Worker : v # w => (Busy(v)' <=> Busy(v))
      BY <1>1, <1>3 DEF Busy
<1>6. \A j \in 1..sent : Held(j)' <=> Held(j)
      BY <1>2, <1>3, <1>5 DEF Held
<1>7. JobsInv'
  <2>1. \A v \in Worker : Busy(v)' => wjob'[v] \in 1..sent'
        BY <1>1, <1>2, <1>3, <1>5 DEF JobsInv
  <2>2. \A u, v \in Worker : Busy(u)' /\ Busy(v)' /\ wjob'[u] = wjob'[v] => u = v
    <3>1. \A v \in Worker : v # w /\ Busy(v)' => wjob'[v] # sent + 1 /\ Busy(v)
          BY <1>2, <1>3, <1>5 DEF JobsInv
    <3> QED BY <1>3, <3>1 DEF JobsInv
  <2>3. \A j \in 1..sent' :
            \/ done' \/ Held(j)'
            \/ NoneBad(j)' /\ \A x \in AllOf(j) : \E i \in 1..Len(out') : out'[i] = x
    <3>1. \E v \in Worker : Busy(v)' /\ wjob'[v] = sent + 1
          BY <1>3, <1>5
    <3> TAKE j \in 1..sent'
    <3>2. CASE j = sent + 1
          BY <3>1, <3>2 DEF Held
    <3>3. CASE j \in 1..sent
      <4>1. \/ done \/ Held(j)
            \/ NoneBad(j) /\ \A x \in AllOf(j) : \E i \in 1..Len(out) : out[i] = x
            BY <3>3 DEF JobsInv
      <4>2. NoneBad(j) => NoneBad(j)'
            BY <1>1 DEF NoneBad
      <4> QED BY <1>1, <1>6, <3>3, <4>1, <4>2
    <3> QED BY <1>1, <1>2, <3>2, <3>3
  <2>4. \A i \in 1..Len(out') : out'[i][1] \in 1..sent' /\ ~Held(out[i][1])'
    <3> TAKE i \in 1..Len(out')
    <3>1. PICK j : j = out[i][1]
          OBVIOUS
    <3>2. j \in 1..sent /\ ~Held(j)
          BY <1>1, <3>1 DEF JobsInv
    <3>3. ~Held(j)' /\ j \in 1..sent'
          BY <1>1, <1>2, <1>6, <3>2
    <3> QED BY <1>1, <3>1, <3>3 DEF Held
  <2>5. \A i, k \in 1..Len(out') : out'[i] = out'[k] => i = k
        BY <1>1 DEF JobsInv
  <2> QED BY <2>1, <2>2, <2>3, <2>4, <2>5 DEF JobsInv, AllOf
<1>8. EndsInv'
      BY <1>1, <1>3 DEF EndsInv
<1>9. PagesInv'
  <2>1. sent + 1 \in Load!Job /\ \A p \in Load!FurtherPages(sent + 1) : gpc[sent + 1][p] = "none"
        BY <1>2, Listings DEF PagesInv
  <2>2. \A j \in Load!Job : j > sent' => j > sent
        BY <1>1, <1>2, Listings
  <2>3. \A v \in Worker : wpc'[v] = "first" =>
            \A p \in Load!FurtherPages(wjob'[v]) : gpc[wjob'[v]][p] = "none"
    <3>1. \A v \in Worker : v # w /\ wpc'[v] = "first" => wpc[v] = "first" /\ wjob'[v] = wjob[v]
          BY <1>3
    <3> QED BY <1>3, <2>1, <3>1 DEF PagesInv
  <2>4. \A v \in Worker : wpc'[v] = "pages" => wpc[v] = "pages" /\ wjob'[v] = wjob[v]
        BY <1>3
  <2> QED BY <1>1, <2>2, <2>3, <2>4, PagesKept
<1>10. ResInv'
  <2>1. \A v \in Worker : wpc'[v] = "out" => wpc[v] = "out" /\ wjob'[v] = wjob[v]
        BY <1>3
  <2> QED BY <1>1, <2>1, ResKept
<1> QED BY <1>1, <1>4, <1>7, <1>8, <1>9, <1>10, ConfigKept

LEMMA CloseJobsLoad ==
    ASSUME LoadInv, Load!CloseJobs
    PROVE  LoadInv'
<1> USE DEF LoadInv
<1>1. /\ sent = Len(Listing) \/ done
      /\ jobcClosed' = TRUE
      /\ UNCHANGED <<bad, sent, done, wpc, wjob, gpc, stream, streamClosed, matrix, res, load_mpc, out, config>>
      BY DEF Load!CloseJobs, Load!pagevars
<1>2. LoadType' /\ PagesType' /\ EndsInv'
      BY <1>1 DEF LoadType, PagesType, EndsInv
<1>3. JobsInv'
      BY <1>1, JobsKept DEF Busy
<1>4. PagesInv' /\ ResInv'
      BY <1>1 DEF PagesInv, ResInv, Answered, NoneBad
<1> QED BY <1>1, <1>2, <1>3, <1>4, ConfigKept

LEMMA WorkerExitsLoad ==
    ASSUME LoadInv, NEW w \in Worker, Load!WorkerExits(w)
    PROVE  LoadInv'
<1> USE DEF LoadInv
<1>1. /\ wpc[w] \in {"take", "out"} /\ (done \/ (wpc[w] = "take" /\ jobcClosed))
      /\ wpc' = [wpc EXCEPT ![w] = "exited"]
      /\ UNCHANGED <<bad, sent, jobcClosed, done, wjob, gpc, stream, streamClosed, matrix, res, load_mpc, out,
                     config>>
      BY DEF Load!WorkerExits, Load!pagevars, Load!dispatcher
<1>2. wpc'[w] = "exited" /\ \A v \in Worker : v # w => wpc'[v] = wpc[v]
      BY <1>1 DEF LoadType
<1>3. LoadType' /\ PagesType'
      BY <1>1 DEF LoadType, PagesType
<1>4. EndsInv'
      BY <1>1, <1>2 DEF EndsInv
<1>5. \A v \in Worker : Busy(v)' => Busy(v) /\ v # w
      BY <1>2 DEF Busy
<1>6. JobsInv'
  <2>1. CASE wpc[w] = "take"
        BY <1>1, <1>2, <2>1, JobsKept DEF Busy
  <2>2. CASE done
    <3>1. \A j : Held(j)' => Held(j)
          BY <1>1, <1>5 DEF Held
    <3>2. \A i \in 1..Len(out) : ~Held(out[i][1])'
      <4> TAKE i \in 1..Len(out)
      <4>1. PICK j : j = out[i][1]
            OBVIOUS
      <4>2. ~Held(j)'
            BY <3>1, <4>1 DEF JobsInv
      <4> QED BY <1>1, <4>1, <4>2 DEF Held
    <3>3. /\ \A v \in Worker : Busy(v)' => wjob'[v] \in 1..sent'
          /\ \A u, v \in Worker : Busy(u)' /\ Busy(v)' /\ wjob'[u] = wjob'[v] => u = v
          BY <1>1, <1>5 DEF JobsInv
    <3> QED BY <1>1, <2>2, <3>2, <3>3 DEF JobsInv
  <2> QED BY <1>1, <2>1, <2>2
<1>7. PagesInv' /\ ResInv'
  <2>1. \A v \in Worker : wpc'[v] \in {"first", "pages", "out"} => wpc'[v] = wpc[v]
        BY <1>2
  <2>2. PagesInv'
        BY <1>1, <2>1, PagesKept DEF PagesInv
  <2>3. ResInv'
        BY <1>1, <2>1, ResKept
  <2> QED BY <2>2, <2>3
<1> QED BY <1>1, <1>3, <1>4, <1>6, <1>7, ConfigKept

LEMMA RangeEndsLoad ==
    ASSUME LoadInv, Load!RangeEnds
    PROVE  LoadInv'
<1> USE DEF LoadInv
<1>1. /\ load_mpc = "range" /\ (\A w \in Worker : wpc[w] = "exited") /\ load_mpc' = "config"
      /\ UNCHANGED <<bad, sent, jobcClosed, done, wpc, wjob, gpc, stream, streamClosed, matrix, res, out, config>>
      BY DEF Load!RangeEnds, Load!pagevars, Load!dispatcher
<1>2. LoadType' /\ PagesType' /\ EndsInv'
      BY <1>1 DEF LoadType, PagesType, EndsInv
<1>3. JobsInv'
      BY <1>1, JobsKept DEF Busy
<1>4. PagesInv' /\ ResInv'
      BY <1>1 DEF PagesInv, ResInv, Answered, NoneBad
<1> QED BY <1>1, <1>2, <1>3, <1>4, ConfigKept


(* A worker comes to the end of its job, with an error or with all that    *)
(* the job lists.                                                          *)
LEMMA JobOver ==
    ASSUME LoadInv, NEW w \in Worker, Busy(w), NEW r \in [repos : Seq(Load!AllListed), err : BOOLEAN],
           wpc' = [wpc EXCEPT ![w] = "out"], res' = [res EXCEPT ![w] = r],
           UNCHANGED <<bad, sent, jobcClosed, done, wjob, gpc, streamClosed, matrix, load_mpc, out, config>>,
           stream' \in [Load!Job -> Seq(Nat)],
           \A j \in Load!Job : j # wjob[w] => stream'[j] = stream[j],
           \A i \in DOMAIN stream'[wjob[w]] : stream'[wjob[w]][i] \in Load!FurtherPages(wjob[w]),
           ~r.err => /\ NoneBad(wjob[w])
                     /\ {r.repos[i] : i \in 1..Len(r.repos)} = AllOf(wjob[w])
                     /\ \A i, k \in 1..Len(r.repos) : r.repos[i] = r.repos[k] => i = k
    PROVE  LoadInv'
<1> USE DEF LoadInv
<1>1. /\ wpc'[w] = "out" /\ res'[w] = r
      /\ \A v \in Worker : v # w => wpc'[v] = wpc[v] /\ res'[v] = res[v]
      BY DEF LoadType, PagesType
<1>2. LoadType' /\ PagesType'
  <2>1. \A j \in Load!Job : \A i \in DOMAIN stream'[j] : stream'[j][i] \in Load!FurtherPages(j)
    <3> TAKE j \in Load!Job
    <3>1. CASE j # wjob[w]
      <4>1. stream'[j] = stream[j]
            BY <3>1
      <4> QED BY <4>1 DEF PagesType
    <3> QED BY <3>1
  <2> QED BY <2>1 DEF LoadType, PagesType
<1>3. JobsInv'
      BY <1>1, JobsKept DEF Busy
<1>4. EndsInv'
      BY <1>1, BusyJobs DEF EndsInv, Busy
<1>5. ResInv'
  <2>1. ASSUME NEW v \in Worker, wpc'[v] = "out", ~res'[v].err
        PROVE  /\ NoneBad(wjob[v])
               /\ {res'[v].repos[i] : i \in 1..Len(res'[v].repos)} = AllOf(wjob[v])
               /\ \A i, k \in 1..Len(res'[v].repos) : res'[v].repos[i] = res'[v].repos[k] => i = k
    <3>1. CASE v = w
      <4>1. res'[v] = r /\ wjob[v] = wjob[w] /\ ~r.err
            BY <1>1, <2>1, <3>1
      <4>2. /\ NoneBad(wjob[w])
            /\ {r.repos[i] : i \in 1..Len(r.repos)} = AllOf(wjob[w])
            /\ \A i, k \in 1..Len(r.repos) : r.repos[i] = r.repos[k] => i = k
            BY <4>1
      <4> QED BY ONLY <4>1, <4>2
    <3>2. CASE v # w
      <4>1. wpc[v] = "out" /\ res'[v] = res[v]
            BY <1>1, <2>1, <3>2
      <4>2. /\ NoneBad(wjob[v])
            /\ {res[v].repos[i] : i \in 1..Len(res[v].repos)} = AllOf(wjob[v])
            /\ \A i, k \in 1..Len(res[v].repos) : res[v].repos[i] = res[v].repos[k] => i = k
            BY <2>1, <4>1 DEF ResInv
      <4> QED BY <4>1, <4>2
    <3> QED BY <3>1, <3>2
  <2>2. \A v \in Worker : NoneBad(wjob[v]) => NoneBad(wjob[v])'
        BY DEF NoneBad
  <2> QED BY <2>1, <2>2 DEF ResInv, AllOf
<1>6. PagesInv'
  <2>1. ASSUME NEW v \in Worker, wpc'[v] = "pages"
        PROVE  /\ 1 \in matrix[wjob[v]]
               /\ \A p \in Load!FurtherPages(wjob[v]) : gpc[wjob[v]][p] \in {"release", "exited"} =>
                     p \in matrix[wjob[v]] \/ \E i \in DOMAIN stream'[wjob[v]] : stream'[wjob[v]][i] = p
    <3>1. v # w /\ wpc[v] = "pages" /\ Busy(v)
          BY <1>1, <2>1 DEF Busy
    <3>2. wjob[v] \in Load!Job /\ wjob[v] # wjob[w]
          BY <3>1, BusyJobs DEF JobsInv
    <3>3. stream'[wjob[v]] = stream[wjob[v]]
          BY <3>2
    <3>4. /\ 1 \in matrix[wjob[v]]
          /\ \A p \in Load!FurtherPages(wjob[v]) : gpc[wjob[v]][p] \in {"release", "exited"} =>
                p \in matrix[wjob[v]] \/ \E i \in DOMAIN stream[wjob[v]] : stream[wjob[v]][i] = p
          BY <3>1 DEF PagesInv, Answered
    <3> QED BY <3>3, <3>4
  <2>2. \A v \in Worker : wpc'[v] = "first" => wpc[v] = "first"
        BY <1>1
  <2>3. /\ \A j \in Load!Job : streamClosed[j] =>
              Load!FurtherPages(j) # {} /\ \A p \in Load!FurtherPages(j) : gpc[j][p] = "exited"
        /\ \A j \in Load!Job : j > sent => \A p \in Load!FurtherPages(j) : gpc[j][p] = "none"
        /\ \A j \in Load!Job : \A p \in matrix[j] : <<j, p>> \notin bad
        BY DEF PagesInv
  <2>4. /\ bad' = bad /\ sent' = sent /\ wjob' = wjob /\ gpc' = gpc
        /\ streamClosed' = streamClosed /\ matrix' = matrix
        OBVIOUS
  <2>5. \A v \in Worker : wpc'[v] = "first" =>
            \A p \in Load!FurtherPages(wjob[v]) : gpc[wjob[v]][p] = "none"
        BY <2>2 DEF PagesInv
  <2>6. \A v \in Worker : wpc'[v] = "pages" =>
            /\ 1 \in matrix[wjob[v]]
            /\ \A p \in Load!FurtherPages(wjob[v]) : gpc[wjob[v]][p] \in {"release", "exited"} =>
                  p \in matrix[wjob[v]] \/ \E i \in DOMAIN stream'[wjob[v]] : stream'[wjob[v]][i] = p
        BY <2>1
  <2>7. /\ \A j \in Load!Job : streamClosed'[j] =>
              Load!FurtherPages(j) # {} /\ \A p \in Load!FurtherPages(j) : gpc'[j][p] = "exited"
        /\ \A j \in Load!Job : j > sent' => \A p \in Load!FurtherPages(j) : gpc'[j][p] = "none"
        /\ \A j \in Load!Job : \A p \in matrix'[j] : <<j, p>> \notin bad'
        BY ONLY <2>3, <2>4
  <2>8. \A v \in Worker : wpc'[v] = "first" =>
            \A p \in Load!FurtherPages(wjob'[v]) : gpc'[wjob'[v]][p] = "none"
        BY ONLY <2>4, <2>5
  <2>9. \A v \in Worker : wpc'[v] = "pages" =>
            /\ 1 \in matrix'[wjob'[v]]
            /\ \A p \in Load!FurtherPages(wjob'[v]) : gpc'[wjob'[v]][p] \in {"release", "exited"} =>
                  p \in matrix'[wjob'[v]] \/ \E i \in DOMAIN stream'[wjob'[v]] : stream'[wjob'[v]][i] = p
        BY ONLY <2>4, <2>6
  <2> QED BY ONLY <2>7, <2>8, <2>9 DEF PagesInv, Answered
<1> QED BY <1>2, <1>3, <1>4, <1>5, <1>6, ConfigKept

(* A job whose only page is the first one.                                 *)
LEMMA OnePageJob ==
    ASSUME NEW j \in Load!Job, Load!FurtherPages(j) = {}
    PROVE  LET s == Load!ReposOf(j, 1) IN
           /\ Load!Pages(j) = {1}
           /\ s \in Seq(Load!AllListed)
           /\ {s[i] : i \in 1..Len(s)} = AllOf(j)
           /\ \A i, k \in 1..Len(s) : s[i] = s[k] => i = k
<1> DEFINE s == Load!ReposOf(j, 1)
           n == Len(Listing[j][1])
<1>1. Load!Pages(j) = {1}
      BY Listings DEF Load!FurtherPages
<1>2. Listing[j][1] \in Seq(Nat)
      BY <1>1, Listings
<1>3. n \in Nat /\ DOMAIN Listing[j][1] = 1..n
      BY <1>2
<1>4. s = [i \in 1..n |-> <<j, 1, i>>]
      BY <1>3 DEF Load!ReposOf
<1>5. \A x : x \in AllOf(j) <=> \E i \in 1..n : x = <<j, 1, i>>
  <2>1. \A x : x \in Load!Places(j, {1}) <=> \E i \in DOMAIN Listing[j][1] : x = <<j, 1, i>>
        BY PlacesAre
  <2> QED BY <1>1, <1>3, <2>1 DEF AllOf
<1>6. AllOf(j) \subseteq Load!AllListed
      BY PlacesAre
<1> HIDE DEF s, n
<1>7. \A i \in 1..n : s[i] \in Load!AllListed
      BY <1>4, <1>5, <1>6
<1>8. s \in Seq(Load!AllListed) /\ Len(s) = n
      BY <1>3, <1>4, <1>7
<1>9. {s[i] : i \in 1..n} = AllOf(j)
      BY <1>4, <1>5
<1>10. \A i, k \in 1..n : s[i] = s[k] => i = k
      BY <1>4
<1> QED BY <1>1, <1>8, <1>9, <1>10 DEF s

LEMMA FirstPageLoad ==
    ASSUME LoadInv, NEW w \in Worker, Load!FirstPage(w)
    PROVE  LoadInv'
<1> USE DEF LoadInv
<1> DEFINE j == wjob[w]
<1>1. /\ wpc[w] = "first" /\ Busy(w)
      /\ UNCHANGED <<bad, sent, jobcClosed, done, wjob, load_mpc, out, config>>
      BY DEF Load!FirstPage, Load!dispatcher, Busy
<1>2. j \in Load!Job /\ j \in 1..sent /\ load_mpc \notin {"config", "written"}
      BY <1>1, BusyJobs
<1>3. CASE <<j, 1>> \in bad \/ Load!FurtherPages(j) = {}
  <2> DEFINE r == IF <<j, 1>> \in bad THEN Load!Error ELSE Load!Found(Load!ReposOf(j, 1))
  <2>1. /\ res' = [res EXCEPT ![w] = r] /\ wpc' = [wpc EXCEPT ![w] = "out"]
        /\ UNCHANGED <<gpc, stream, streamClosed, matrix>>
        BY <1>3 DEF Load!FirstPage, Load!pagevars
  <2>2. /\ r \in [repos : Seq(Load!AllListed), err : BOOLEAN]
        /\ ~r.err => /\ NoneBad(j)
                     /\ {r.repos[i] : i \in 1..Len(r.repos)} = AllOf(j)
                     /\ \A i, k \in 1..Len(r.repos) : r.repos[i] = r.repos[k] => i = k
    <3>1. CASE <<j, 1>> \in bad
          BY <3>1 DEF Load!Error
    <3>2. CASE <<j, 1>> \notin bad
      <4>1. Load!FurtherPages(j) = {} /\ r = [repos |-> Load!ReposOf(j, 1), err |-> FALSE]
            BY <1>3, <3>2 DEF Load!Found
      <4> HIDE DEF j, r
      <4>2. LET s == Load!ReposOf(j, 1) IN
            /\ Load!Pages(j) = {1}
            /\ s \in Seq(Load!AllListed)
            /\ {s[i] : i \in 1..Len(s)} = AllOf(j)
            /\ \A i, k \in 1..Len(s) : s[i] = s[k] => i = k
            BY <1>2, <4>1, OnePageJob
      <4>3. NoneBad(j)
            BY <3>2, <4>2 DEF NoneBad
      <4> QED BY <4>1, <4>2, <4>3
    <3> QED BY <3>1, <3>2
  <2>3. /\ stream' \in [Load!Job -> Seq(Nat)]
        /\ \A i \in DOMAIN stream'[j] : stream'[j][i] \in Load!FurtherPages(j)
        BY <1>2, <2>1 DEF PagesType
  <2> HIDE DEF r
  <2> QED BY <1>1, <2>1, <2>2, <2>3, JobOver
<1>4. CASE <<j, 1>> \notin bad /\ Load!FurtherPages(j) # {}
  <2> DEFINE G == [p \in Load!FurtherPages(j) |-> "new"]
  <2>1. /\ matrix' = [matrix EXCEPT ![j] = {1}] /\ gpc' = [gpc EXCEPT ![j] = G]
        /\ wpc' = [wpc EXCEPT ![w] = "pages"]
        /\ UNCHANGED <<stream, streamClosed, res>>
        BY <1>4 DEF Load!FirstPage
  <2>2. wpc'[w] = "pages" /\ \A v \in Worker : v # w => wpc'[v] = wpc[v]
        BY <2>1 DEF LoadType
  <2>3. matrix'[j] = {1} /\ \A k \in Load!Job : k # j => matrix'[k] = matrix[k] /\ gpc'[k] = gpc[k]
        BY <1>2, <2>1 DEF PagesType
  <2>4. G \in [Load!FurtherPages(j) -> GState] /\ \A p \in Load!FurtherPages(j) : G[p] = "new"
        BY DEF GState
  <2>5. gpc'[j] = G
        BY <1>2, <2>1 DEF PagesType
  <2> HIDE DEF G
  <2>6. LoadType'
        BY <1>1, <2>1 DEF LoadType
  <2>7. PagesType'
    <3>1. G \in UNION {[Q -> GState] : Q \in SUBSET Nat}
      <4>1. Load!FurtherPages(j) \in SUBSET Nat
            BY <1>2, Listings DEF Load!FurtherPages
      <4> QED BY <2>4, <4>1
    <3>2. gpc' \in [Load!Job -> UNION {[Q -> GState] : Q \in SUBSET Nat}]
          BY <2>1, <3>1 DEF PagesType
    <3>3. \A k \in Load!Job : gpc'[k] \in [Load!FurtherPages(k) -> GState]
      <4> TAKE k \in Load!Job
      <4>1. CASE k = j
            BY <2>4, <2>5, <4>1
      <4>2. CASE k # j
            BY <2>3, <4>2 DEF PagesType
      <4> QED BY <4>1, <4>2
    <3>4. matrix' \in [Load!Job -> SUBSET Nat] /\ \A k \in Load!Job : matrix'[k] \subseteq Load!Pages(k)
          BY <1>2, <2>1, <2>3, Listings DEF PagesType
    <3> QED BY <2>1, <3>2, <3>3, <3>4 DEF PagesType
  <2>8. JobsInv'
        BY <1>1, <2>2, JobsKept DEF Busy
  <2>9. EndsInv'
        BY <1>1, <1>2, <2>2 DEF EndsInv
  <2>10. ResInv'
    <3>1. \A v \in Worker : wpc'[v] = "out" => wpc[v] = "out"
          BY <2>2
    <3> QED BY <1>1, <2>1, <3>1, ResKept
  <2>11. PagesInv'
    <3>1. ~streamClosed[j]
      <4>1. \A p \in Load!FurtherPages(j) : gpc[j][p] = "none"
            BY <1>1 DEF PagesInv
      <4> QED BY <1>2, <1>4, <4>1 DEF PagesInv
    <3>2. \A k \in Load!Job : streamClosed[k] =>
              Load!FurtherPages(k) # {} /\ \A p \in Load!FurtherPages(k) : gpc'[k][p] = "exited"
          BY <2>3, <3>1 DEF PagesInv
    <3>3. \A k \in Load!Job : k > sent => \A p \in Load!FurtherPages(k) : gpc'[k][p] = "none"
      <4>1. ~(j > sent)
            BY <1>2, Listings DEF LoadType
      <4> HIDE DEF j
      <4> QED BY <2>3, <4>1 DEF PagesInv
    <3>4. \A v \in Worker : wpc'[v] \in {"first", "pages"} /\ v # w =>
              wpc[v] = wpc'[v] /\ wjob[v] \in Load!Job /\ wjob[v] # j
      <4> TAKE v \in Worker
      <4> HAVE wpc'[v] \in {"first", "pages"} /\ v # w
      <4>1. Busy(v) /\ wpc[v] = wpc'[v]
            BY <2>2 DEF Busy
      <4> QED BY <1>1, <4>1, BusyJobs DEF JobsInv
    <3>5. \A v \in Worker : wpc'[v] = "first" =>
              \A p \in Load!FurtherPages(wjob[v]) : gpc'[wjob[v]][p] = "none"
      <4> TAKE v \in Worker
      <4> HAVE wpc'[v] = "first"
      <4>1. v # w
            BY <2>2
      <4>2. gpc'[wjob[v]] = gpc[wjob[v]] /\ wpc[v] = "first"
            BY <2>3, <3>4, <4>1
      <4> QED BY <4>2 DEF PagesInv
    <3>6. \A k \in Load!Job : \A p \in matrix'[k] : <<k, p>> \notin bad
      <4> TAKE k \in Load!Job
      <4>1. CASE k = j
            BY <1>4, <2>3, <4>1
      <4>2. CASE k # j
        <5>1. matrix'[k] = matrix[k]
              BY <2>3, <4>2
        <5> QED BY <5>1 DEF PagesInv
      <4> QED BY <4>1, <4>2
    <3>7. ASSUME NEW v \in Worker, wpc'[v] = "pages"
          PROVE  /\ 1 \in matrix'[wjob[v]]
                 /\ \A p \in Load!FurtherPages(wjob[v]) : gpc'[wjob[v]][p] \in {"release", "exited"} =>
                       p \in matrix'[wjob[v]] \/ \E i \in DOMAIN stream[wjob[v]] : stream[wjob[v]][i] = p
      <4>1. CASE v = w
            BY <2>3, <2>4, <2>5, <4>1
      <4>2. CASE v # w
        <5>1. gpc'[wjob[v]] = gpc[wjob[v]] /\ matrix'[wjob[v]] = matrix[wjob[v]] /\ wpc[v] = "pages"
              BY <2>3, <3>4, <3>7, <4>2
        <5>2. /\ 1 \in matrix[wjob[v]]
              /\ \A p \in Load!FurtherPages(wjob[v]) : gpc[wjob[v]][p] \in {"release", "exited"} =>
                    p \in matrix[wjob[v]] \/ \E i \in DOMAIN stream[wjob[v]] : stream[wjob[v]][i] = p
              BY <5>1 DEF PagesInv, Answered
        <5> QED BY <5>1, <5>2
      <4> QED BY <4>1, <4>2
    <3>8. UNCHANGED <<bad, sent, wjob, stream, streamClosed>>
          BY <1>1, <2>1
    <3> QED BY ONLY <3>2, <3>3, <3>5, <3>6, <3>7, <3>8 DEF PagesInv, Answered
  <2> QED BY <1>1, <2>6, <2>7, <2>8, <2>9, <2>10, <2>11, ConfigKept
<1> QED BY <1>3, <1>4


(* What is read from a channel, and what is left in it.                    *)
LEMMA HeadAndTail ==
    ASSUME NEW t \in Seq(Nat), t # <<>>
    PROVE  /\ Tail(t) \in Seq(Nat) /\ 1 \in DOMAIN t /\ Head(t) = t[1]
           /\ \A i \in DOMAIN Tail(t) : i + 1 \in DOMAIN t /\ Tail(t)[i] = t[i + 1]
           /\ \A i \in DOMAIN t : i = 1 \/ (i - 1 \in DOMAIN Tail(t) /\ Tail(t)[i - 1] = t[i])
<1>1. Len(t) \in Nat /\ Len(t) >= 1 /\ DOMAIN t = 1..Len(t)
      OBVIOUS
<1>2. /\ Tail(t) \in Seq(Nat) /\ Len(Tail(t)) = Len(t) - 1 /\ DOMAIN Tail(t) = 1..(Len(t) - 1)
      /\ \A i \in 1..(Len(t) - 1) : Tail(t)[i] = t[i + 1]
      BY <1>1
<1>3. \A i \in DOMAIN t : i = 1 \/ (i - 1 \in 1..(Len(t) - 1) /\ (i - 1) + 1 = i)
      BY <1>1
<1> QED BY <1>1, <1>2, <1>3

LEMMA ReadStreamLoad ==
    ASSUME LoadInv, NEW w \in Worker, Load!ReadStream(w)
    PROVE  LoadInv'
<1> USE DEF LoadInv
<1> DEFINE j == wjob[w]
           p == Head(stream[j])
<1>1. /\ wpc[w] = "pages" /\ Busy(w) /\ stream[j] # <<>>
      /\ stream' = [stream EXCEPT ![j] = Tail(stream[j])]
      /\ UNCHANGED <<bad, sent, jobcClosed, done, wjob, gpc, streamClosed, load_mpc, out, config>>
      BY DEF Load!ReadStream, Load!dispatcher, Busy
<1>2. j \in Load!Job /\ j \in 1..sent
      BY <1>1, BusyJobs
<1>3. stream[j] \in Seq(Nat) /\ \A i \in DOMAIN stream[j] : stream[j][i] \in Load!FurtherPages(j)
      BY <1>2 DEF PagesType
<1>4. stream'[j] = Tail(stream[j]) /\ \A k \in Load!Job : k # j => stream'[k] = stream[k]
      BY <1>1, <1>2 DEF PagesType
<1> HIDE DEF j
<1>5. /\ Tail(stream[j]) \in Seq(Nat) /\ p \in Load!FurtherPages(j)
      /\ \A i \in DOMAIN Tail(stream[j]) : i + 1 \in DOMAIN stream[j] /\ Tail(stream[j])[i] = stream[j][i + 1]
      /\ \A i \in DOMAIN stream[j] :
             stream[j][i] = p \/ (i - 1 \in DOMAIN Tail(stream[j]) /\ Tail(stream[j])[i - 1] = stream[j][i])
  <2>1. PICK t : t = stream[j]
        OBVIOUS
  <2>2. t \in Seq(Nat) /\ t # <<>> /\ \A i \in DOMAIN t : t[i] \in Load!FurtherPages(j)
        BY <1>1, <1>3, <2>1 DEF j
  <2>3. /\ Tail(t) \in Seq(Nat) /\ 1 \in DOMAIN t /\ Head(t) = t[1]
        /\ \A i \in DOMAIN Tail(t) : i + 1 \in DOMAIN t /\ Tail(t)[i] = t[i + 1]
        /\ \A i \in DOMAIN t : i = 1 \/ (i - 1 \in DOMAIN Tail(t) /\ Tail(t)[i - 1] = t[i])
        BY <2>2, HeadAndTail
  <2>4. /\ Tail(t) \in Seq(Nat) /\ Head(t) \in Load!FurtherPages(j)
        /\ \A i \in DOMAIN Tail(t) : i + 1 \in DOMAIN t /\ Tail(t)[i] = t[i + 1]
        /\ \A i \in DOMAIN t :
              t[i] = Head(t) \/ (i - 1 \in DOMAIN Tail(t) /\ Tail(t)[i - 1] = t[i])
        BY <2>2, <2>3
  <2> QED BY ONLY <2>1, <2>4
<1>6. stream' \in [Load!Job -> Seq(Nat)]
      BY <1>1, <1>2, <1>5 DEF PagesType
<1>7. \A i \in DOMAIN stream'[j] : stream'[j][i] \in Load!FurtherPages(j)
      BY <1>3, <1>4, <1>5
<1>8. CASE <<j, p>> \in bad
  <2>1. /\ res' = [res EXCEPT ![w] = Load!Error] /\ wpc' = [wpc EXCEPT ![w] = "out"]
        /\ matrix' = matrix
        BY <1>8 DEF Load!ReadStream, j
  <2>2. Load!Error \in [repos : Seq(Load!AllListed), err : BOOLEAN] /\ Load!Error.err
        BY DEF Load!Error
  <2> QED BY <1>1, <1>4, <1>6, <1>7, <2>1, <2>2, JobOver DEF j
<1>9. CASE <<j, p>> \notin bad
  <2>1. matrix' = [matrix EXCEPT ![j] = matrix[j] \cup {p}] /\ UNCHANGED <<res, wpc>>
        BY <1>9 DEF Load!ReadStream, j
  <2>2. matrix'[j] = matrix[j] \cup {p} /\ \A k \in Load!Job : k # j => matrix'[k] = matrix[k]
        BY <1>2, <2>1 DEF PagesType
  <2>3. p \in Load!Pages(j) /\ p \in Nat
        BY <1>2, <1>5, Listings DEF Load!FurtherPages
  <2> HIDE DEF p
  <2>4. LoadType' /\ EndsInv'
        BY <1>1, <2>1 DEF LoadType, EndsInv
  <2>5. PagesType'
    <3>1. matrix' \in [Load!Job -> SUBSET Nat]
          BY <1>2, <2>1, <2>3 DEF PagesType
    <3>2. \A k \in Load!Job : matrix'[k] \subseteq Load!Pages(k)
      <4> TAKE k \in Load!Job
      <4>1. CASE k = j
            BY <2>2, <2>3, <4>1 DEF PagesType
      <4>2. CASE k # j
            BY <2>2, <4>2 DEF PagesType
      <4> QED BY <4>1, <4>2
    <3>3. \A k \in Load!Job : \A i \in DOMAIN stream'[k] : stream'[k][i] \in Load!FurtherPages(k)
      <4> TAKE k \in Load!Job
      <4>1. CASE k = j
            BY <1>7, <4>1
      <4>2. CASE k # j
        <5>1. stream'[k] = stream[k]
              BY <1>4, <4>2
        <5> QED BY <5>1 DEF PagesType
      <4> QED BY <4>1, <4>2
    <3> QED BY <1>1, <1>6, <2>1, <3>1, <3>2, <3>3 DEF PagesType
  <2>6. JobsInv'
        BY <1>1, <2>1, JobsKept DEF Busy
  <2>7. ResInv'
        BY <1>1, <2>1, ResKept
  <2>8. PagesInv'
    <3>1. \A k \in Load!Job : \A q \in matrix'[k] : <<k, q>> \notin bad
      <4> TAKE k \in Load!Job
      <4>1. CASE k = j
            BY <1>9, <2>2, <4>1 DEF PagesInv
      <4>2. CASE k # j
        <5>1. matrix'[k] = matrix[k]
              BY <2>2, <4>2
        <5> QED BY <5>1 DEF PagesInv
      <4> QED BY <4>1, <4>2
    <3>2. ASSUME NEW v \in Worker, wpc[v] = "pages"
          PROVE  /\ 1 \in matrix'[wjob[v]]
                 /\ \A q \in Load!FurtherPages(wjob[v]) : gpc[wjob[v]][q] \in {"release", "exited"} =>
                       q \in matrix'[wjob[v]] \/ \E i \in DOMAIN stream'[wjob[v]] : stream'[wjob[v]][i] = q
      <4>1. /\ 1 \in matrix[wjob[v]]
            /\ \A q \in Load!FurtherPages(wjob[v]) : gpc[wjob[v]][q] \in {"release", "exited"} =>
                  q \in matrix[wjob[v]] \/ \E i \in DOMAIN stream[wjob[v]] : stream[wjob[v]][i] = q
            BY <3>2 DEF PagesInv, Answered
      <4>2. CASE wjob[v] = j
        <5>1. \A q : (\E i \in DOMAIN stream[j] : stream[j][i] = q) =>
                      q = p \/ \E i \in DOMAIN stream'[j] : stream'[j][i] = q
              BY <1>4, <1>5 DEF p
        <5> QED BY <2>2, <4>1, <4>2, <5>1
      <4>3. CASE wjob[v] # j
        <5>1. wjob[v] \in Load!Job
              BY <3>2, BusyJobs DEF Busy
        <5>2. matrix'[wjob[v]] = matrix[wjob[v]] /\ stream'[wjob[v]] = stream[wjob[v]]
              BY <1>4, <2>2, <4>3, <5>1
        <5> QED BY <4>1, <5>2
      <4> QED BY <4>2, <4>3
    <3>3. /\ bad' = bad /\ sent' = sent /\ wjob' = wjob /\ gpc' = gpc /\ wpc' = wpc
          /\ streamClosed' = streamClosed
          BY <1>1, <2>1
    <3>4. /\ \A k \in Load!Job : streamClosed'[k] =>
                Load!FurtherPages(k) # {} /\ \A q \in Load!FurtherPages(k) : gpc'[k][q] = "exited"
          /\ \A k \in Load!Job : k > sent' => \A q \in Load!FurtherPages(k) : gpc'[k][q] = "none"
          /\ \A v \in Worker : wpc'[v] = "first" =>
                \A q \in Load!FurtherPages(wjob'[v]) : gpc'[wjob'[v]][q] = "none"
          BY <3>3 DEF PagesInv
    <3>5. \A v \in Worker : wpc'[v] = "pages" =>
              /\ 1 \in matrix'[wjob'[v]]
              /\ \A q \in Load!FurtherPages(wjob'[v]) : gpc'[wjob'[v]][q] \in {"release", "exited"} =>
                    q \in matrix'[wjob'[v]] \/ \E i \in DOMAIN stream'[wjob'[v]] : stream'[wjob'[v]][i] = q
          BY ONLY <3>2, <3>3
    <3>6. \A k \in Load!Job : \A q \in matrix'[k] : <<k, q>> \notin bad'
          BY <3>1, <3>3
    <3> QED BY ONLY <3>4, <3>5, <3>6 DEF PagesInv, Answered
  <2> QED BY <1>1, <2>4, <2>5, <2>6, <2>7, <2>8, ConfigKept
<1> QED BY <1>8, <1>9

LEMMA StreamEndsLoad ==
    ASSUME LoadInv, NEW w \in Worker, Load!StreamEnds(w)
    PROVE  LoadInv'
<1> USE DEF LoadInv
<1> DEFINE j == wjob[w]
           S == Load!Places(j, matrix[j])
           n == Cardinality(S)
<1>1. /\ wpc[w] = "pages" /\ Busy(w) /\ stream[j] = <<>> /\ streamClosed[j]
      /\ wpc' = [wpc EXCEPT ![w] = "out"]
      /\ UNCHANGED <<bad, sent, jobcClosed, done, wjob, gpc, stream, streamClosed, matrix, load_mpc, out, config>>
      BY DEF Load!StreamEnds, Load!dispatcher, Load!pagevars, Busy
<1>2. PICK s \in Load!Flattened(S) : res' = [res EXCEPT ![w] = Load!Found(s)]
      BY DEF Load!StreamEnds
<1>3. j \in Load!Job
      BY <1>1, BusyJobs
<1>4. \A p \in Load!FurtherPages(j) : p \in matrix[j]
  <2>1. \A p \in Load!FurtherPages(j) : gpc[j][p] = "exited"
        BY <1>1, <1>3 DEF PagesInv
  <2>2. \A p \in Load!FurtherPages(j) : p \in matrix[j] \/ \E i \in DOMAIN stream[j] : stream[j][i] = p
        BY <1>1, <2>1 DEF PagesInv, Answered
  <2>3. DOMAIN stream[j] = {}
        BY <1>1
  <2> QED BY <2>2, <2>3
<1>5. matrix[j] = Load!Pages(j)
  <2>1. 1 \in matrix[j]
        BY <1>1 DEF PagesInv
  <2>2. matrix[j] \subseteq Load!Pages(j)
        BY <1>3 DEF PagesType
  <2> QED BY <1>4, <2>1, <2>2 DEF Load!FurtherPages
<1>6. S = AllOf(j) /\ NoneBad(j)
      BY <1>3, <1>5 DEF AllOf, PagesInv, NoneBad
<1>7. n \in Nat /\ S \subseteq Load!AllListed
  <2>1. IsFiniteSet(AllOf(j))
        BY <1>3, FiniteListings DEF AllOf
  <2>2. AllOf(j) \subseteq Load!AllListed
        BY <1>3, PlacesAre
  <2> QED BY <1>6, <2>1, <2>2, FS_CardinalityType
<1>8. /\ s \in [1..n -> S]
      /\ \A i, k \in 1..n : s[i] = s[k] => i = k
      /\ \A x \in S : \E i \in 1..n : s[i] = x
  <2>1. s \in Load!Bijection(1..n, S)
        BY LoadSets DEF Load!Flattened
  <2> HIDE DEF S, n
  <2> QED BY <2>1 DEF Load!Bijection, Load!Injection, Load!Surjection, Load!IsInjective
<1> HIDE DEF n, S
<1>9. s \in Seq(Load!AllListed) /\ Len(s) = n
      BY <1>7, <1>8
<1>10. {s[i] : i \in 1..n} = S
      BY <1>8
<1> DEFINE r == Load!Found(s)
<1>11. r = [repos |-> s, err |-> FALSE]
      BY DEF Load!Found
<1>12. /\ stream' \in [Load!Job -> Seq(Nat)]
       /\ \A i \in DOMAIN stream'[j] : stream'[j][i] \in Load!FurtherPages(j)
       BY <1>1, <1>3 DEF PagesType
<1> HIDE DEF r
<1>13. /\ r \in [repos : Seq(Load!AllListed), err : BOOLEAN]
       /\ {r.repos[i] : i \in 1..Len(r.repos)} = AllOf(j)
       /\ \A i, k \in 1..Len(r.repos) : r.repos[i] = r.repos[k] => i = k
       BY <1>6, <1>8, <1>9, <1>10, <1>11
<1>14. res' = [res EXCEPT ![w] = r]
       BY <1>2 DEF r
<1> QED BY <1>1, <1>6, <1>12, <1>13, <1>14, JobOver


(* The elements of a concatenation.                                        *)
LEMMA Concatenated ==
    ASSUME NEW S, NEW s \in Seq(S), NEW t \in Seq(S)
    PROVE  /\ s \o t \in Seq(S) /\ Len(s) \in Nat /\ Len(t) \in Nat /\ Len(s \o t) = Len(s) + Len(t)
           /\ \A i \in 1..Len(s) : i \in 1..Len(s \o t) /\ (s \o t)[i] = s[i]
           /\ \A i \in 1..Len(t) : Len(s) + i \in 1..Len(s \o t) /\ (s \o t)[Len(s) + i] = t[i]
           /\ \A i \in 1..Len(s \o t) :
                 i \in 1..Len(s) \/ (i - Len(s) \in 1..Len(t) /\ (s \o t)[i] = t[i - Len(s)])
<1>1. /\ s \o t \in Seq(S) /\ Len(s) \in Nat /\ Len(t) \in Nat /\ Len(s \o t) = Len(s) + Len(t)
      /\ \A i \in 1..(Len(s) + Len(t)) : (s \o t)[i] = IF i <= Len(s) THEN s[i] ELSE t[i - Len(s)]
      OBVIOUS
<1>2. \A i \in 1..Len(s) : i \in 1..Len(s \o t) /\ (s \o t)[i] = s[i]
      BY <1>1
<1>3. \A i \in 1..Len(t) : Len(s) + i \in 1..(Len(s) + Len(t)) /\ ~(Len(s) + i <= Len(s)) /\ (Len(s) + i) - Len(s) = i
      BY <1>1
<1>4. \A i \in 1..Len(t) : Len(s) + i \in 1..Len(s \o t) /\ (s \o t)[Len(s) + i] = t[i]
      BY <1>1, <1>3
<1>5. \A i \in 1..(Len(s) + Len(t)) : i \in 1..Len(s) \/ (i - Len(s) \in 1..Len(t) /\ ~(i <= Len(s)))
      BY <1>1
<1> QED BY <1>1, <1>2, <1>4, <1>5

LEMMA CollectLoad ==
    ASSUME LoadInv, NEW w \in Worker, Load!Collect(w)
    PROVE  LoadInv'
<1> USE DEF LoadInv
<1>1. /\ load_mpc = "range" /\ wpc[w] = "out" /\ Busy(w) /\ wpc' = [wpc EXCEPT ![w] = "take"]
      /\ UNCHANGED <<bad, sent, jobcClosed, wjob, gpc, stream, streamClosed, matrix, res, config>>
      BY DEF Load!Collect, Load!dispatcher, Load!pagevars, Busy
<1>2. wpc'[w] = "take" /\ \A v \in Worker : v # w => wpc'[v] = wpc[v]
      BY <1>1 DEF LoadType
<1>3. ~Busy(w)' /\ \A v \in Worker : v # w => (Busy(v)' <=> Busy(v))
      BY <1>2 DEF Busy
<1>4. PagesInv' /\ ResInv' /\ PagesType'
  <2>1. \A v \in Worker : wpc'[v] \in {"first", "pages", "out"} => wpc'[v] = wpc[v]
        BY <1>2
  <2>2. PagesInv'
        BY <1>1, <2>1, PagesKept DEF PagesInv
  <2>3. ResInv'
        BY <1>1, <2>1, ResKept
  <2>4. PagesType'
        BY <1>1 DEF PagesType
  <2> QED BY <2>2, <2>3, <2>4
<1>5. /\ \A v \in Worker : Busy(v)' => wjob'[v] \in 1..sent'
      /\ \A u, v \in Worker : Busy(u)' /\ Busy(v)' /\ wjob'[u] = wjob'[v] => u = v
      BY <1>1, <1>3 DEF JobsInv
<1>6. \A k : Held(k)' => Held(k)
      BY <1>1, <1>3 DEF Held
<1>7. CASE res[w].err
  <2>1. done' = TRUE /\ load_mpc' = "fatal" /\ out' = out
        BY <1>7 DEF Load!Collect
  <2>2. LoadType' /\ EndsInv'
        BY <1>1, <1>2, <2>1 DEF LoadType, EndsInv
  <2>3. \A i \in 1..Len(out) : ~Held(out[i][1])'
    <3> TAKE i \in 1..Len(out)
    <3>1. PICK k : k = out[i][1]
          OBVIOUS
    <3>2. ~Held(k)'
          BY <1>6, <3>1 DEF JobsInv
    <3> QED BY <2>1, <3>1, <3>2 DEF Held
  <2>4. JobsInv'
        BY <1>1, <1>5, <2>1, <2>3 DEF JobsInv
  <2> QED BY <1>1, <1>4, <2>1, <2>2, <2>4, ConfigKept
<1>8. CASE ~res[w].err
  <2> DEFINE R == res[w].repos
  <2>1. out' = out \o R /\ done' = done /\ load_mpc' = load_mpc
        BY <1>8 DEF Load!Collect
  <2>2. R \in Seq(Load!AllListed) /\ out \in Seq(Load!AllListed)
        BY DEF PagesType, LoadType
  <2>3. PICK j : j = wjob[w]
        OBVIOUS
  <2>4. j \in Load!Job /\ j \in 1..sent
        BY <1>1, <2>3, BusyJobs
  <2>5. /\ NoneBad(j)
        /\ {R[i] : i \in 1..Len(R)} = AllOf(j)
        /\ \A i, k \in 1..Len(R) : R[i] = R[k] => i = k
        BY <1>1, <1>8, <2>3 DEF ResInv
  <2> HIDE DEF R
  <2>6. /\ out' \in Seq(Load!AllListed) /\ Len(out) \in Nat /\ Len(R) \in Nat
        /\ \A i \in 1..Len(out) : i \in 1..Len(out') /\ out'[i] = out[i]
        /\ \A i \in 1..Len(R) : Len(out) + i \in 1..Len(out') /\ out'[Len(out) + i] = R[i]
        /\ \A i \in 1..Len(out') :
              i \in 1..Len(out) \/ (i - Len(out) \in 1..Len(R) /\ out'[i] = R[i - Len(out)])
        BY <2>1, <2>2, Concatenated
  <2>7. LoadType' /\ EndsInv'
        BY <1>1, <1>2, <2>1, <2>6 DEF LoadType, EndsInv
  <2>8. Held(j) /\ ~Held(j)' /\ \A k : k # j => (Held(k)' <=> Held(k))
        BY <1>1, <1>3, <2>3 DEF Held, JobsInv
  <2>9. \A i \in 1..Len(R) : R[i][1] = j
    <3>1. \A i \in 1..Len(R) : R[i] \in AllOf(j)
          BY <2>5
    <3> QED BY <3>1, PlacesAre DEF AllOf
  <2>10. \A i \in 1..Len(out) : out[i][1] # j /\ out[i][1] \in 1..sent /\ ~Held(out[i][1])
        BY <2>8 DEF JobsInv
  <2>11. \A k \in 1..sent :
             \/ done' \/ Held(k)'
             \/ NoneBad(k)' /\ \A x \in AllOf(k) : \E i \in 1..Len(out') : out'[i] = x
    <3> TAKE k \in 1..sent
    <3>1. NoneBad(k) => NoneBad(k)'
          BY <1>1 DEF NoneBad
    <3>2. CASE k = j
      <4>1. \A x \in AllOf(j) : \E i \in 1..Len(R) : R[i] = x
            BY <2>5
      <4>2. \A x \in AllOf(j) : \E i \in 1..Len(out') : out'[i] = x
            BY <2>6, <4>1
      <4> QED BY <2>5, <3>1, <3>2, <4>2
    <3>3. CASE k # j
      <4>1. \/ done \/ Held(k)
            \/ NoneBad(k) /\ \A x \in AllOf(k) : \E i \in 1..Len(out) : out[i] = x
            BY DEF JobsInv
      <4>2. ASSUME NEW x, \E i \in 1..Len(out) : out[i] = x PROVE \E i \in 1..Len(out') : out'[i] = x
            BY <2>6, <4>2
      <4> QED BY <2>1, <2>8, <3>1, <3>3, <4>1, <4>2
    <3> QED BY <3>2, <3>3
  <2>12. \A i \in 1..Len(out') : out'[i][1] \in 1..sent /\ ~Held(out[i][1])'
    <3> TAKE i \in 1..Len(out')
    <3>1. PICK k : k = out'[i][1]
          OBVIOUS
    <3>2. k \in 1..sent /\ ~Held(k)'
      <4>1. CASE i \in 1..Len(out)
        <5>1. k = out[i][1] /\ k # j
              BY <2>6, <2>10, <3>1, <4>1
        <5>2. k \in 1..sent /\ ~Held(k)
              BY <2>10, <4>1, <5>1
        <5> QED BY <2>8, <5>1, <5>2
      <4>2. CASE i - Len(out) \in 1..Len(R) /\ out'[i] = R[i - Len(out)]
        <5>1. k = j
              BY <2>9, <3>1, <4>2
        <5> QED BY <2>4, <2>8, <5>1
      <4> QED BY <2>6, <4>1, <4>2
    <3> QED BY <3>1, <3>2 DEF Held
  <2>13. \A i, k \in 1..Len(out') : out'[i] = out'[k] => i = k
    <3> TAKE i, k \in 1..Len(out')
    <3> HAVE out'[i] = out'[k]
    <3>1. CASE i \in 1..Len(out) /\ k \in 1..Len(out)
          BY <2>6, <3>1 DEF JobsInv
    <3>2. CASE i \in 1..Len(out) /\ k \notin 1..Len(out)
      <4>1. out'[i] = out[i] /\ out[i][1] # j
            BY <2>6, <2>10, <3>2
      <4>2. k - Len(out) \in 1..Len(R) /\ out'[k] = R[k - Len(out)]
            BY <2>6, <3>2
      <4>3. out'[k][1] = j
            BY <2>9, <4>2
      <4> QED BY <4>1, <4>3
    <3>3. CASE i \notin 1..Len(out) /\ k \in 1..Len(out)
      <4>1. out'[k] = out[k] /\ out[k][1] # j
            BY <2>6, <2>10, <3>3
      <4>2. i - Len(out) \in 1..Len(R) /\ out'[i] = R[i - Len(out)]
            BY <2>6, <3>3
      <4>3. out'[i][1] = j
            BY <2>9, <4>2
      <4> QED BY <4>1, <4>3
    <3>4. CASE i \notin 1..Len(out) /\ k \notin 1..Len(out)
      <4>1. /\ i - Len(out) \in 1..Len(R) /\ out'[i] = R[i - Len(out)]
            /\ k - Len(out) \in 1..Len(R) /\ out'[k] = R[k - Len(out)]
            BY <2>6, <3>4
      <4>2. i - Len(out) = k - Len(out)
            BY <2>5, <4>1
      <4> QED BY <2>6, <4>2
    <3> QED BY <3>1, <3>2, <3>3, <3>4
  <2>14. JobsInv'
        BY <1>1, <1>5, <2>11, <2>12, <2>13 DEF JobsInv, AllOf
  <2> QED BY <1>1, <1>4, <2>1, <2>7, <2>14, ConfigKept
<1> QED BY <1>7, <1>8

LEMMA WriteConfigLoad ==
    ASSUME LoadInv, Load!WriteConfig
    PROVE  LoadInv'
<1> USE DEF LoadInv
<1> DEFINE K == Load!FilterRepos
           n == Cardinality(K)
           N(x) == Load!FullName(x)
<1>1. /\ load_mpc = "config" /\ load_mpc' = "written"
      /\ UNCHANGED <<bad, sent, jobcClosed, done, wpc, wjob, gpc, stream, streamClosed, matrix, res, out>>
      BY DEF Load!WriteConfig, Load!dispatcher, Load!pagevars
<1>2. PICK p \in Load!Bijection(1..n, K) :
          /\ config' = [i \in 1..n |-> out[p[i]]]
          /\ \A i, k \in 1..n : i < k => ~(N(config'[k]) < N(config'[i]))
      BY LoadSets DEF Load!WriteConfig
<1>3. /\ p \in [1..n -> K]
      /\ \A i, k \in 1..n : p[i] = p[k] => i = k
      /\ \A k \in K : \E i \in 1..n : p[i] = k
  <2> HIDE DEF K, n
  <2> QED BY DEF Load!Bijection, Load!Injection, Load!Surjection, Load!IsInjective
<1>4. /\ ~done /\ sent = Len(Listing) /\ \A k : ~Held(k)
  <2>1. PICK w : w \in Worker
        BY Assumptions DEF Load!LoadAssumption
  <2> QED BY <1>1, <2>1 DEF EndsInv, Held, Busy
<1>5. \A j \in Load!Job : NoneBad(j) /\ \A x \in AllOf(j) : \E i \in 1..Len(out) : out[i] = x
      BY <1>4, Listings DEF JobsInv
<1>6. bad = {}
  <2>1. bad \subseteq Load!Page
        BY DEF LoadType
  <2>2. \A x \in Load!Page : x \notin bad
        BY <1>5 DEF Load!Page, NoneBad
  <2> QED BY <2>1, <2>2
<1>7. /\ out \in Seq(Load!AllListed) /\ DOMAIN out = 1..Len(out)
      /\ \A i \in DOMAIN out : out[i] \in Load!AllListed
      /\ \A i, k \in DOMAIN out : out[i] = out[k] => i = k
  <2>1. out \in Seq(Load!AllListed)
        BY DEF LoadType
  <2> QED BY <2>1 DEF JobsInv
<1>8. \A x \in Load!AllListed : \E i \in DOMAIN out : out[i] = x
      BY <1>5, <1>7, PlacesAre
<1>9. \A i : i \in K <=> i \in DOMAIN out /\ N(out[i]) \notin Excluded
      BY DEF Load!FilterRepos
<1> HIDE DEF K, n
<1>10. DOMAIN config' = 1..n /\ \A i \in 1..n : config'[i] = out[p[i]] /\ p[i] \in K /\ p[i] \in DOMAIN out
      BY <1>2, <1>3, <1>9
<1>11. {config'[i] : i \in DOMAIN config'} = {x \in Load!AllListed : N(x) \notin Excluded}
  <2>1. ASSUME NEW i \in 1..n PROVE config'[i] \in {x \in Load!AllListed : N(x) \notin Excluded}
        BY <1>7, <1>9, <1>10
  <2>2. ASSUME NEW x \in Load!AllListed, N(x) \notin Excluded
        PROVE  \E i \in 1..n : config'[i] = x
    <3>1. PICK k \in DOMAIN out : out[k] = x
          BY <1>8
    <3>2. k \in K
          BY <1>9, <2>2, <3>1
    <3>3. PICK i \in 1..n : p[i] = k
          BY <1>3, <3>2
    <3> QED BY <1>10, <3>1, <3>3
  <2> HIDE DEF N
  <2> QED BY <1>10, <2>1, <2>2
<1>12. \A i, k \in DOMAIN config' : config'[i] = config'[k] => i = k
      BY <1>3, <1>7, <1>10
<1>13. \A i, k \in DOMAIN config' : i < k => N(config'[i]) <= N(config'[k])
  <2>1. \A i \in 1..n : N(config'[i]) \in Nat
        BY <1>7, <1>10, NamesAreNat
  <2> HIDE DEF N
  <2> QED BY <1>2, <1>10, <2>1
<1>14. Load!ConfigExact'
  <2>1. Load!ToSet(config') = {config'[i] : i \in DOMAIN config'}
        BY LoadSets
  <2>2. Load!IsInjective(config')
        BY <1>12 DEF Load!IsInjective
  <2> QED BY <1>1, <1>6, <1>11, <1>13, <2>1, <2>2 DEF Load!ConfigExact
<1>15. LoadType' /\ PagesType' /\ EndsInv'
      BY <1>1 DEF LoadType, PagesType, EndsInv
<1>16. JobsInv'
      BY <1>1, JobsKept DEF Busy
<1>17. PagesInv' /\ ResInv'
      BY <1>1 DEF PagesInv, ResInv, Answered, NoneBad
<1> QED BY <1>14, <1>15, <1>16, <1>17

LEMMA LoadNext ==
    ASSUME LoadInv, Load!Next
    PROVE  LoadInv'
BY CloseJobsLoad, RangeEndsLoad, WriteConfigLoad, SendJobLoad, WorkerExitsLoad, FirstPageLoad, ReadStreamLoad,
   StreamEndsLoad, CollectLoad, CloseStreamLoad, AcquireLoad, AnswerLoad, ReleaseLoad DEF Load!Next

LEMMA LoadStutters ==
    ASSUME LoadInv, UNCHANGED loadVars
    PROVE  LoadInv'
<1> USE DEF LoadInv, loadVars
<1>1. LoadType' /\ PagesType' /\ EndsInv'
      BY DEF LoadType, PagesType, EndsInv
<1>2. JobsInv'
      BY JobsKept DEF Busy
<1>3. PagesInv' /\ ResInv'
      BY DEF PagesInv, ResInv, Answered, NoneBad
<1> QED BY <1>1, <1>2, <1>3, ConfigKept

-----------------------------------------------------------------------------
(* The parts together.                                                     *)

CommandsInv ==
    /\ part = "Load" => LoadInv
    /\ part = "Fetch" => FetchInv
    /\ part = "Lgiap" => LgiapInv /\ ArrivalInv

LEMMA FetchStutters ==
    ASSUME FetchInv, UNCHANGED fetchVars
    PROVE  FetchInv'
BY DEF fetchVars, FetchInv, FetchType, RemoteInv, CheckoutInv, FilesInv, Fetched, Fresh, Fetch!Tip

LEMMA LgiapStutters ==
    ASSUME LgiapInv, UNCHANGED lgiapVars
    PROVE  LgiapInv' /\ (ArrivalInv => ArrivalInv')
<1> USE DEF LgiapInv, lgiapVars
<1>1. LgiapType' /\ CollectInv'
      BY DEF LgiapType, CollectInv, Lgiap!Query
<1>2. CombineInv' /\ DedupeInv' /\ OutputLines'
      BY LoopsKept DEF loops
<1>3. ArrivalInv => ArrivalInv'
      BY ArrivalKept DEF loops
<1> QED BY <1>1, <1>2, <1>3

LEMMA SpecCommandsInv == Spec => []CommandsInv
<1>1. Init => CommandsInv
  <2>1. Lgiap!Init => ArrivalInv
        BY DEF Lgiap!Init, ArrivalInv
  <2> QED BY <2>1, LoadInit, FetchInit, LgiapInit DEF Init, CommandsInv
<1>2. CommandsInv /\ [Next]_all => CommandsInv'
  <2> SUFFICES ASSUME CommandsInv, [Next]_all PROVE CommandsInv'
      OBVIOUS
  <2>1. CASE FetchStep(Fetch!Next)
        BY <2>1, FetchNext DEF FetchStep, CommandsInv
  <2>2. CASE LgiapStep(Lgiap!Next)
        BY <2>2, LgiapNext, NextArrival DEF LgiapStep, CommandsInv
  <2>3. CASE LoadStep(Load!Next)
        BY <2>3, LoadNext DEF LoadStep, CommandsInv
  <2>4. CASE UNCHANGED all
        BY <2>4, LoadStutters, FetchStutters, LgiapStutters DEF CommandsInv, all
  <2> QED BY <2>1, <2>2, <2>3, <2>4 DEF Next
<1> QED BY <1>1, <1>2, PTL DEF Spec

(***************************************************************************)
(* ConfigExact for any listing, any number of workers and page requests at *)
(* a time, and any failures: the configuration livegrep-github-reindex     *)
(* writes has, in the order of their names, each repository that GitHub    *)
(* listed and no flag excludes, and it is written only if no request       *)
(* failed.                                                                 *)
(***************************************************************************)
THEOREM ConfigIsExact == Spec => []ConfigExact
<1>1. CommandsInv => ConfigExact
      BY DEF CommandsInv, LoadInv, ConfigExact
<1> QED BY <1>1, SpecCommandsInv, PTL

(***************************************************************************)
(* IndexWhole for any repositories and any number of faults: whenever a    *)
(* run is killed, the index file and what the backend has loaded from it   *)
(* are whole, because only index.tmp is ever written piece by piece.       *)
(***************************************************************************)
THEOREM IndexNeverPartial == Spec => []IndexWhole
<1>1. CommandsInv => IndexWhole
      BY DEF CommandsInv, FetchInv, FilesInv, IndexWhole, Fetch!IndexWhole, Fetch!Partial
<1> QED BY <1>1, SpecCommandsInv, PTL

(***************************************************************************)
(* PublishedIsFresh for any repositories, pushes, renames and faults: what *)
(* a run publishes is, of every repository, at least as new as the remote  *)
(* was when it started, or missing because of a rename during the run.     *)
(***************************************************************************)
THEOREM PublishesFreshIndex == Spec => []PublishedIsFresh
<1>1. CommandsInv => PublishedIsFresh
      BY DEF CommandsInv, FetchInv, FilesInv, Fresh, PublishedIsFresh, Fetch!PublishedIsFresh
<1> QED BY <1>1, SpecCommandsInv, PTL

(***************************************************************************)
(* OutputExact for any composition: whatever the order in which the        *)
(* answers arrive, what lgiap prints is, in order and once each, the lines *)
(* that some include query found and that no query excludes, and of the    *)
(* results that are the same line to it the first that arrived.            *)
(***************************************************************************)
THEOREM CompositeOutputIsExact == Spec => []OutputExact
<1>1. LgiapInv /\ ArrivalInv => Lgiap!OutputExact
  <2> SUFFICES ASSUME LgiapInv, ArrivalInv, lgiap_mpc = "printed" PROVE Lgiap!OutputExact
      BY DEF Lgiap!OutputExact
  <2>1. \A i \in DOMAIN output : Lgiap!FirstToArrive(output[i])
        BY DEF ArrivalInv
  <2> QED BY <2>1 DEF LgiapInv, OutputLines, Printable, Lgiap!OutputExact
<1>2. CommandsInv => OutputExact
      BY <1>1 DEF CommandsInv, OutputExact
<1> QED BY <1>2, SpecCommandsInv, PTL
=============================================================================
