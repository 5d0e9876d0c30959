------------------------------- MODULE FileView -------------------------------
(***************************************************************************)
(* The pages of a file or a directory: BuildFileData and the handlers that *)
(* call it.  A page is put together from the answers of several git        *)
(* commands, and livegrep-fetch-reindex may move, prune and create the     *)
(* branches of the repository between any two of them.                     *)
(***************************************************************************)
EXTENDS Naturals, Sequences, FiniteSets, SequencesExt

CONSTANTS
  Files,       \* paths of files
  Dirs,        \* paths of directories, "" is the root
  Entries,     \* Entries[d]: names in directory d, in git's order
  Readme,      \* names supportedReadmeRegex matches, and the part it matches
  Branch,      \* names of branches
  Trees,       \* the sets of files a commit may have
  Ids,         \* the ids of commits, oldest first
  Requests     \* [kind, rev, path, dfc]

None == ""   \* no commit, no name; the path of the root

\* no branch has the name of a commit or of HEAD
FileViewAssumption ==
  /\ Ids \in Seq(STRING) /\ Ids # <<>> /\ IsInjective(Ids)
  /\ IsFiniteSet(Branch)
  /\ {None, "HEAD"} \cap (Branch \cup ToSet(Ids)) = {} /\ Branch \cap ToSet(Ids) = {}

VARIABLES
  commits,     \* the trees of the commits: the files of each
  refs, head,  \* the commit of every branch, None if there is none; HEAD
  req, pc,
  repoRev, headRev,
  commit,      \* the commit BuildFileData is called with
  commitHash,
  page,        \* what has been read: the commit it is from, what it is
  tree,        \* the commit the directory tree is of
  branches,    \* the list of branches
  moved        \* ghost: a branch or HEAD changed during the request

repo == <<commits, refs, head>>
vars == <<repo, req, pc, repoRev, headRev, commit, commitHash, page, tree, branches, moved>>

Join(dir, name) == IF dir = None THEN name ELSE dir \o "/" \o name

Init ==
  /\ commits \in [1 .. Len(Ids) - 1 -> Trees]
  /\ refs \in [Branch -> {None} \cup {Ids[i] : i \in 1 .. Len(Ids) - 1}]
  /\ head \in Branch
  /\ req \in Requests
  /\ pc = IF req.kind = "experimental" THEN "head" ELSE "hash"
  /\ repoRev = req.rev
  /\ headRev = None
  /\ commit = req.rev
  /\ commitHash = None
  /\ page = [type |-> None, from |-> None, readme |-> <<>>]
  /\ tree = None
  /\ branches = <<>>
  /\ moved = FALSE

-----------------------------------------------------------------------------
(* git, external *)

\* the commit a revision names; None when git exits with an error
RevParse(rev) ==
  LET name == IF rev = "HEAD" THEN head ELSE rev
  IN  IF name \in Branch THEN refs[name]
      ELSE IF \E i \in 1 .. Len(commits) : Ids[i] = name THEN name ELSE None

Number(id) == CHOOSE i \in 1 .. Len(commits) : Ids[i] = id

Exists(n, path) ==
  \/ path \in commits[n]
  \/ path \in Dirs /\ (path = None \/ \E k \in 1 .. Len(Entries[path]) : Join(path, Entries[path][k]) \in commits[n])

\* what cat-file finds at rev:path
ObjectType(rev, path) ==
  IF RevParse(rev) = None \/ (RevParse(rev) # None /\ ~Exists(Number(RevParse(rev)), path)) THEN None
  ELSE IF path \in Dirs THEN "tree" ELSE "blob"

Under(n, path) == IF path \in Files THEN commits[n] \cap {path}
                  ELSE {f \in commits[n] : \E k \in 1 .. Len(Entries[path]) : f = Join(path, Entries[path][k])}

\* rev-list -1 rev -- path: the last commit that changed the path, None if none
LastTouch(id, path) ==
  LET touch == {n \in 1 .. Number(id) :
                  IF n = 1 THEN Under(1, path) # {} ELSE Under(n, path) # Under(n - 1, path)}
  IN  IF touch = {} THEN None ELSE Ids[CHOOSE n \in touch : \A m \in touch : m <= n]

\* a commit is fetched to a branch, which may be new
Advance(b, t) ==
  /\ Len(commits) < Len(Ids)
  /\ commits' = Append(commits, t)
  /\ refs' = [refs EXCEPT ![b] = Ids[Len(commits) + 1]]
  /\ head' = head

\* git fetch --prune deletes a branch that is gone
Prune(b) ==
  /\ refs[b] # None
  /\ refs' = [refs EXCEPT ![b] = None]
  /\ UNCHANGED <<commits, head>>

\* fetch-reindex makes HEAD point to the branch ls-remote has named
SetHead(b) ==
  /\ head # b /\ refs[b] # None
  /\ head' = b
  /\ UNCHANGED <<commits, refs>>

Fetch ==
  /\ ~moved    \* at most one change in a request
  /\ pc \notin {"done", "error", "panic"}
  /\ \E b \in Branch : Prune(b) \/ SetHead(b) \/ \E t \in Trees : Advance(b, t)
  /\ moved' = TRUE
  /\ UNCHANGED <<req, pc, repoRev, headRev, commit, commitHash, page, tree, branches>>

-----------------------------------------------------------------------------
(* ServeExperimental, before BuildFileData *)

ResolveHead ==
  /\ pc = "head"
  /\ IF RevParse("HEAD") = None
     THEN pc' = "error" /\ UNCHANGED <<headRev, repoRev>>
     ELSE /\ headRev' = head
          /\ repoRev' = IF req.rev = "HEAD" THEN head ELSE req.rev
          /\ pc' = "touch"
  /\ UNCHANGED <<repo, req, commit, commitHash, page, tree, branches, moved>>

\* the empty path is an error to rev-list
LastRev ==
  /\ pc = "touch"
  /\ commit' = IF req.dfc # None THEN req.dfc
               ELSE IF RevParse(repoRev) = None \/ req.path = None THEN repoRev
               ELSE LastTouch(RevParse(repoRev), req.path)
  /\ pc' = "hash"
  /\ UNCHANGED <<repo, req, repoRev, headRev, commitHash, page, tree, branches, moved>>

(* BuildFileData *)

CommitHash ==
  /\ pc = "hash"
  /\ commitHash' = IF RevParse(commit) = None THEN commit ELSE RevParse(commit)
  /\ pc' = "type"
  /\ UNCHANGED <<repo, req, repoRev, headRev, commit, page, tree, branches, moved>>

\* The objects are named by the revision of the request.
Revision_AsGiven == commit

\* obj = commitHash + ":" + cleanPath
Revision == commitHash

\* without an object the page says so, or the handler replies with an error
Missing == pc' = IF req.kind = "experimental" THEN "tree" ELSE "error"

CatType ==
  /\ pc = "type"
  /\ page' = [page EXCEPT !.type = ObjectType(Revision, req.path)]
  /\ IF ObjectType(Revision, req.path) = None THEN Missing ELSE pc' = "read"
  /\ UNCHANGED <<repo, req, repoRev, headRev, commit, commitHash, tree, branches, moved>>

\* cat-file again, for the content or the list; then, for a list, the readme
Read ==
  /\ pc = "read"
  /\ IF ObjectType(Revision, req.path) = None
     THEN Missing /\ page' = [page EXCEPT !.type = None]
     ELSE /\ page' = [page EXCEPT !.from = RevParse(Revision)]
          /\ pc' = IF page.type = "tree" THEN "readme" ELSE "links"
  /\ UNCHANGED <<repo, req, repoRev, headRev, commit, commitHash, tree, branches, moved>>

\* the first readme of the list, for zoekt the last; its path is obj + name,
\* without a separator
ReadmeName(n) ==
  LET names == SelectSeq(Entries[req.path],
                         LAMBDA e : Join(req.path, e) \in commits[n] /\ e \in DOMAIN Readme)
  IN  IF names = <<>> THEN None ELSE Readme[names[IF req.kind = "zoekt" THEN Len(names) ELSE 1]]

ReadReadme ==
  /\ pc = "readme"
  /\ LET name == ReadmeName(Number(page.from))
         path == req.path \o name
     IN  page' = IF name # None /\ path \in Files /\ ObjectType(Revision, path) = "blob"
                 THEN [page EXCEPT !.readme = <<RevParse(Revision), path>>] ELSE page
  /\ pc' = "links"
  /\ UNCHANGED <<repo, req, repoRev, headRev, commit, commitHash, tree, branches, moved>>

\* commitHash[:8] and [:16] need a hash; the preview for zoekt has no links
Links ==
  /\ pc = "links"
  /\ pc' = IF req.kind = "zoekt" THEN "done"
           ELSE IF \A i \in 1 .. Len(Ids) : Ids[i] # commitHash THEN "panic"
           ELSE IF req.kind = "experimental" THEN "tree" ELSE "done"
  /\ UNCHANGED <<repo, req, repoRev, headRev, commit, commitHash, page, tree, branches, moved>>

(* ServeExperimental, after BuildFileData *)

DirectoryTree ==
  /\ pc = "tree"
  /\ tree' = RevParse(repoRev)
  /\ pc' = "branches"
  /\ UNCHANGED <<repo, req, repoRev, headRev, commit, commitHash, page, branches, moved>>

MoveToEnd(list, k) == Append(RemoveAt(list, k), list[k])

\* HEAD is moved to the end and the list is reversed
ListAllBranches ==
  /\ pc = "branches"
  /\ \E list \in SetToSeqs({b \in Branch : refs[b] # None}) :   \* in git's order, by date
       \/ list = <<>> /\ branches' = <<>> /\ pc' = "done"
       \/ \E k \in DOMAIN list :
            list[k] = head /\ branches' = Reverse(MoveToEnd(list, k)) /\ pc' = "done"
       \/ /\ list # <<>> /\ head \notin ToSet(list)
          /\ pc' = "panic" /\ UNCHANGED branches   \* branches[-1]
  /\ UNCHANGED <<repo, req, repoRev, headRev, commit, commitHash, page, tree, moved>>

Handle == \/ ResolveHead \/ LastRev \/ CommitHash \/ CatType \/ Read \/ ReadReadme
          \/ Links \/ DirectoryTree \/ ListAllBranches

Next == Fetch \/ Handle

Spec == Init /\ [][Next]_vars

-----------------------------------------------------------------------------
\* A page is of one commit, the one it names: the content or the list, its type
\* and the readme were all read from it, whatever is fetched meanwhile; without a
\* dfc the path is there what it is in the commit of the revision; and the handler
\* panics only if a fetch changed the branches under it (BuildFileData).
PageExact ==
  /\ pc = "panic" => moved
  /\ pc = "done" /\ page.type # None =>
       /\ page.type = ObjectType(page.from, req.path)
       /\ RevParse(commitHash) = commitHash => page.from = commitHash
       /\ page.readme # <<>> => page.readme[1] = page.from
  /\ pc = "done" /\ page.type # None /\ req.kind = "experimental" /\ req.dfc = None /\ ~moved =>
       Under(Number(page.from), req.path) = Under(Number(tree), req.path)
  /\ pc = "done" /\ branches # <<>> /\ ~moved => branches[1] = headRev
=============================================================================
