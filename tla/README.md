# Livegrep in TLA+

Livegrep searches source code with regular expressions.
`livegrep-github-reindex` writes a list of repositories,
`livegrep-fetch-reindex` clones them and runs the C++ program `codesearch` to
build an index file; `codesearch` also loads such a file and serves it over
gRPC; the Go program `livegrep` is the web frontend that parses queries, asks
the server, renders the answers, and shows files, logs, blames and diffs from
the clones; `lgiap` is a command line client for composed queries.

The modules here model the parts of the program whose correctness depends on
the order of events (threads, goroutines, queues, RPCs, reloads, fetches) or on
delicate parsing and index arithmetic. TLC checks them on small instances and
TLAPS proves almost all of their safety properties for all instances. `PROJECT.json` lists,
for each definition, the source lines it models.

## Inventory

| Component | State | Operations | Hard because |
|---|---|---|---|
| search thread (`src/src/codesearch.cc`) | job on `match()`'s stack, queues, `pending`, limiter | `match`, `search_one`, `search_file_one`, `search_tree_one`, destructor | lifetime of the job, unlocked limiter, last worker closes |
| name searchers (`codesearch.cc`) | candidate positions, `previous_first`, `left_bound` | the candidate loop, `match_filename`/`match_tree` | `lower_bound` arithmetic, read at `end()` |
| line match bounds (`codesearch.cc`) | `re2_match_cache_`, bounds | `try_match`, `find_matches_in_line` | bytes and code points, empty matches |
| chunk file ranges (`chunk.cc`) | `cur_file`, `files`, the tree | `add_chunk_file`, `finish_file`, `finalize_files`, `find_match` | merging of ranges, pruned tree search |
| indexing (`codesearch.cc`, `chunk_allocator.cc`, `content.cc`) | `lines_`, chunks, `finalize_queue_` | `index_file`, `alloc`, `finish_chunk`, `finalize`, `finalize_worker` | deduplication across chunks handed to other threads |
| gRPC service (`tools/grpc_server.cc`) | `pool_`, limits of a request | `Search`, `TagsFirstSearch_` | concurrent requests, several limits for one answer |
| index reload (`tools/codesearch.cc`, `lib/fs_linux.cc`, `server/backend.go`) | index file, loaded index, promise, watch, frontend's copy | load, serve, `Reload`, watch, `poll` | three processes, no common lock |
| fetch-reindex (`cmd/livegrep-fetch-reindex`) | channels, `errc`; clones, `.tmp` and index on disk | `checkoutRepos`, `checkoutWorker`, `checkoutOne`, dump, rename, reload | failures while work is handed out, bounded channel, parallel git commands, killed runs |
| github-reindex (`cmd/livegrep-github-reindex`) | `jobc`, `repoc`, `done`, per job semaphore and `resStream` | `loadRepos`, `runJobs`, `callGitHubConcurrently`, filter, write | two levels of goroutines, early return on error |
| lgiap (`cmd/lgiap`) | `resultCh`, context, results | `compositeQuery`, `formatResults` | answers in any order, cancellation, in-place deduplication |
| query parser (`server/query.go`) | `ops`, `key`, `term`, flags of the loop | `ParseQuery`, `onlyOneSynonym` | operators, escapes and groups depend on context |
| web server and API (`server/api.go`, `server/server.go`) | a request, `dedupedResults` | `doSearchV2`, `getNextPageUrl`, page handlers | failover, overlapping contexts, the text of a query edited and parsed again |
| file viewer (`server/fileviewer/fileview.go`) | what has been read of git's output | `BuildFileData`, `BuildGitLog`, `GitBlameBlob`, `GitShowCommit`, `parseGitUnifiedDiff`, `buildDirectoryTree` | several git commands per page, look-ahead in parsers, counters |
| search page (`web/src/codesearch/codesearch.js`) | `urlFetching`, what is shown | `updateQuery`, fetch callbacks, popstate | answers in any order |
| file view page (`web/src/fileview/fileview_v2.js`) | rows and buttons of the history table | `loadHistory` | pages of a log that moves |
| suffix search, query planner, `dump_load`, git indexer, fs indexer, tags, score, debug, metrics, tools, templates | | | see "Not modelled" |

Who talks to whom: github-reindex writes the configuration that fetch-reindex
reads; fetch-reindex updates the clones, starts indexing and asks for the
reload; indexing writes the file that reload serves; the gRPC service borrows a
search thread and calls `match()`; a search thread searches the chunks that
indexing produced (`ChunkFiles`) and computes the bounds it reports
(`LineBounds`); the frontend polls the service, sends it the queries it parsed
and merges its answers; the search page asks the frontend; the file viewer
reads the clones while fetch-reindex changes them.

What makes each part correct is said at its properties; the dangers behind
them are the `hazards` of `PROJECT.json`.

## Modules

Conventions. A definition `X_Y` next to `X` is a wrong version of `X` with the
slip that `Y` names; it is used to see that a property would notice the slip.
`pc` variables name the statement a thread is about to execute. A bound is a
constant whose comment begins with "bound". A definition marked external says
what git, GitHub or another program does, as far as the code uses it.

`Backend`, `SearchPath`, `Commands` and `GitViews` each put together several
parts that do not share state: an initial state picks the part that runs, the
variables of the others keep still, and a property of the module is the part's
property (or the conjunction of several closely related ones) where that part
runs. The assumptions of the parts are asserted there. `MC...` modules only give
constants their values.

### codesearch

**`SearchThread`** (with **`Match`**, the abstract specification). One
`search_thread`: the caller of `match()`, `Worker` threads that run
`search_one`, and one thread each for file and tree names. A step is one
access to shared state: a push or pop, one read or write of an atomic, the
decrement of `pending`. What a chunk contains is given (`HitsOf`), as is the
number of matches in a line (`Weight`) and the hits the caller's transform
rejects (`Dropped`). The deadline may pass at any moment (`Expire`). `Match`
says what a caller may rely on: matching results, each at most once, and all
of them if the reason is "none". `KeepsPromise` is the refinement.

**`NameSearch`**. The loop that turns the suffix-array positions of a literal
into names. The input is any set of name lengths, candidates and matching
names within the bounds; `garbage` is the word that lies behind the vector and
that the code reads when `lower_bound` returns `end()`.

**`LineBounds`**. A line is the sequence of the byte widths of its characters
and the regular expression is the length of its match at each position.

**`ChunkFiles`**. Lines are intervals of a chunk; `cur_file` and `files` are as
in the code, the tree is built and walked with the code's pruning. One level
of the walk is a step so that the limiter can end it in between.

**`Indexer`**. The indexing thread handles one line per step; finalizer threads
take chunks from the queue. Chunk memory is the sequence of its texts.
The content of a file is the list of pieces `file_contents_builder` keeps, and
`LineNumbers` reads it back the way `try_match` does. Suffix sorting is a state
of the chunk ("sorted"); the sort itself is not modelled.

**`SearchRequest`**. gRPC handlers and the pool. `match()` is used through what
`Match` promises, not through `SearchThread`'s state.

**`IndexReload`**. The file, the server's main loop and the frontend's poll.
`mode` is the reload RPC or the file watch, as the flags select. A new index may
have a later or an earlier time than the one before.

### The Go programs

**`CheckoutRepos`**. `checkoutRepos`, its workers and both channels. A fetch
succeeds or fails as `failing` says, which Init chooses.

**`FetchReindex`**. Whole runs of fetch-reindex, one after another, on top of
what `CheckoutRepos` establishes for the dispatch: `checkoutOne` with its probe
of the clone, `git clone`, and `git fetch` in parallel with `git ls-remote`, each
tried up to three times; then the dump to `.tmp`, the rename and the reload. The
remotes get pushes and renames of their default branch at any time, git commands
fail, and a run may be killed at any step, after which the disk is as it is; an
interrupted clone may look like a bare repository.

**`LoadRepos`**. github-reindex: the dispatcher, the workers, the page
goroutines with their semaphore and stream, the collector, and the filtered and
sorted configuration. A repository is a place in GitHub's listing (`Listing`: by
job, by page), so that one that is listed twice is two; the sort is any order by
name, as `sort.Sort` is not stable. Any set of requests within the bound fails.

**`CompositeQuery`**. lgiap's composite queries: goroutines that deliver or give
up, the collector, the loop over the answers that collects what is found and
what is excluded, the loop that filters and deduplicates into the slice it
reads, one result per step, and an unstable sort.

### The web server and its pages

**`SearchBox`**. The search page, requests in flight, and their answers.

**`ParseQuery`**. A query is a sequence of tokens, not of characters: operators,
words, numbers, spaces, parentheses and an escaped one. Terms hold the positions
of their tokens, so that a token lost or used twice shows. `FollowLink` replaces
the query by the one `getNextPageUrl` builds, which is parsed again.

**`SearchV2`**. `doSearchV2`: the backend, the backup on "unavailable", the
merging of contexts by file and line, the loop over the map of files in any
order, the unstable sort of the reply. Trees and paths are sequences of words, so
that the key `tree-path` can name two files (`a-b` with `c`, `a` with `b-c`).

**`UnifiedDiff`**, **`GitBlame`**, **`GitShow`**, **`GitLog`**,
**`DirectoryTree`**. The parsers of the file viewer, one line (or NUL-separated
entry) per step, on git's output for every small change, file, commit, history
and tree. Git's output is computed from the thing it describes, which the
properties compare with the result. In `UnifiedDiff`, `GitBlame` and `GitShow` the
scanner holds the line it reads next, and git's output is the function from a
line to the one after it. `GitBlame` lets the output end early.
`GitLog` also has the handler, the history table of the page, whose requests may
be served in any order, and pushes in between; and the older simple log.

**`FileView`**. `BuildFileData` and the handlers around it, one git command per
step, while one change of the branches (a new commit, a pruned branch, a new
HEAD) happens at any point of the request.

### Compositions and proofs

**`Backend`** runs `Indexer`, `LineBounds` or `IndexReload`; **`SearchPath`** runs
`SearchBox`, `ParseQuery`, `SearchRequest`, `NameSearch` or `SearchV2`;
**`Commands`** runs `LoadRepos`, `FetchReindex` or `CompositeQuery`; **`GitViews`**
runs one of the parsers, `GitLog` or `FileView`. **`...Proofs`** hold the theorems
of the module they extend (`SearchResultProofs` goes on from
`SearchThreadProofs`).

## What the runs show

| Run | Bounds | Result |
|---|---|---|
| `search_thread` | 2 workers, 2 chunks, 4 hits (one counting 2, one rejected), limits 0, 1, 4, 2 jobs | the job is alive while used, pushes come before the close, counts agree, the limit is overshot by at most the number of workers minus one line, the reason is true, refines `Match` |
| `search_thread_live` | the same with limit 1 | `match()` returns, the destructor joins |
| `checkout_repos` | 2 workers, 5 repositories, any failing | verdict is right; it returns if the failures fit in `errc`, and may hang only with a full one |
| `chunk_files` | 4 lines, 3 files, `kMaxGap` 3 | assertion of `finish_file`, coverage, gaps, exact search |
| `backend` | `Indexer`: 3 files from 11, chunks of 5 bytes, 2 finalizers; `LineBounds`: 3 characters of 1 or 2 bytes, matches of 0 to 2, 2 files; `IndexReload`: 4 generations with times 1 to 3 in any order, RPC or watch | every line is found at its number, no lookup outside the current chunk, each chunk sorted once and not written after it is queued; count and bounds are exact as far as wide characters and empty matches allow, and the loop over a line ends unless it stands at an empty match; reloads are honoured, the server ends on the file that is there, or misses exactly a change before its watch, and the frontend on its description |
| `search_path` | `SearchBox`: 3 queries (a word, its encoding, and a text that is neither a regular expression nor decodable), 3 requests; `ParseQuery`: queries of up to 5 of 8 tokens, then the link; `SearchRequest`: 2 handlers, 3 lines, limits -1, 0, 1, 3, 3 requests; `NameSearch`: 3 names of length up to 3; `SearchV2`: up to 3 matches in 4 files of 3 lines, two of them with the same key, context 1 | no stale results when nothing is in flight, after going back in the history too; no token lost, what parentheses enclose stays together; the link widens a query exactly if its limit is in reach; NONE means complete (with a limit), pool discipline; when a name is missed; the reply has each line once with its text and bounds |
| `commands` | `LoadRepos`: 3 jobs of 1, 3 and 2 pages, 2 workers, 2 requests at a time, 2 failures; `FetchReindex`: 2 repositories, 2 branch names, 1 change of a remote, 3 faults; `CompositeQuery`: 3 queries, 870 compositions, any failing, two with an answer that is not JSON | the configuration is exact or not written, no goroutine is left; the index file is never partial, what is published is as new as the start of the run, killed runs are made good; the lines lgiap prints do not depend on the order of answers, and of several versions of a line it prints the first to arrive |
| `git_views` | `UnifiedDiff`: edit scripts up to 7 lines, context 1; `GitBlame`: 5 lines of 2 commits, any chunks, output cut anywhere; `GitShow`: 3 files of 0 to 2 hunks; `GitLog`: 4 commits, pages of 2, 2 clicks; `FileView`: 3 commits, 2 branches, 4 trees; `DirectoryTree`: 5 entries, depth 3 | rows, blame, commit page, log and tree are those of the thing git described; a table without buttons has every commit; a page is of one commit; the parsers end, except the blame of an output that ends inside a chunk |
| `search_request_unlimited` | 1 request | violated: an unlimited tags-first request skips the corpus |
| `indexer_tail` | 1 file | violated: an unterminated last line of one character is lost |
| `next_page_link` | queries of up to 3 tokens | violated: the link does not always widen the query |
| `simple_log` | 3 commits, pages of 2 | violated: the last commit is lost and every page is called the last |

Why these bounds: two workers and two chunks give every race over `pending`
and the limiter (one worker last, one worker between a check and an update),
and a second job shows a thread that still holds the first. Five
repositories for two workers are more than the error channel holds. Three names
are the least for which a candidate can shadow the next name and yet not be the
last. Chunks of five bytes fill in the middle of a file, so that pieces and
deduplication cross chunks. Three ranges of one file are needed to expand one
between two others. Five tokens hold an operator, a group and a limit at once.
Three lines with a line of context on either side hold two matches that are in
each other's context and two that share a line of it.
Three faults are all attempts of one git command, or a killed run and more;
the renaming of one default branch is what fetch and ls-remote can disagree on.
Seven lines of a script with context 1 make two hunks with changes of
unequal length in each. Pages of two out of four commits give a full last page,
and a push between two pages.

Deadlock checking is off where the system may stop: after the bounded number of
jobs, files, requests or changes there is nothing to do, and programs and
parsers end. Waiting for ever is excluded by liveness properties
(`MatchReturns`, `DestructorJoins`, `ReturnsOrFull`, `CallsReturn`,
`ToolsFinish`, `ViewsEnd`, `Converges`).

`ReturnsOrFull` describes a real hang of `checkoutRepos`: when more
repositories fail than `errc` has places and main is already in `wg.Wait()`,
nobody receives.

### Where the code differs from what it says of itself

Shown by a run that ends in a violation:

* `indexer_tail`: a last line of one character without a newline is left out of
  the index, although the comment at `codesearch.cc:757` says it is added.
* `search_request_unlimited`: with tags loaded, a request without a limit is
  answered from the tags alone (`grpc_server.cc:286`), although a negative limit
  is said to disable the limiter entirely (`grpc_server.cc:326`).
* `next_page_link`: the link to more results is said to multiply the limit by
  three (`api.go:441`). A limit at the start of the query is not seen and a
  second one is appended, which is an error; an unclosed parenthesis swallows
  the appended limit; a limit inside parentheses counts as one.
* `simple_log`: `gitLogRegex` wants a NUL after each commit where git puts one
  between two, so that the last commit is lost (`fileview.go:651`), and of 1000
  commits at most 999 are found, so that every page is taken for the last
  one and the template's button (`simplegitlog.html:26`) is never shown.

Stated by properties that say exactly what does hold:

* `MissedOnlyInShadow` and `InOrderAtMostTwice`: the walk over names may skip a
  matching name it has not returned and return one twice, against the comment
  at `codesearch.cc:530`.
* `BoundsExact`: wide characters disturb the count and the bounds
  (`codesearch.cc:305`), and lines in which the expression has an empty match
  are left out. `CallsReturn`: at such a match the loop does not advance
  (`codesearch.cc:1149`), and the call need not return.
* `IndexFollows`: after a return to an older index the frontend keeps the
  description of the newer one (`backend.go:160` says "different", the code
  tests `Before`); and with the file watch the server serves the old index
  exactly if the last change fell between the load of the file and the start of
  the watch (`tools/codesearch.cc:184`). What the watch is told of is always
  honoured.
* `SettledOnQuery` speaks of a box that is not empty: after clearing it, a late
  answer to the cleared query is still displayed (`codesearch.js:86`). A history
  entry sets the box to its query decoded once more (`codesearch.js:142`), and
  fetches the query as it is: for `%61` the box shows `a` with the results for
  `%61`, and for a text that cannot be decoded nothing but the address changes.
* `LinkWidens` says when the link of `api.go:441` keeps its promise: there is no
  limit and no open parenthesis, or the first text of its kind is the limit.
* `OutputExact`: in a composition that is not aware of versions, results of
  several versions are one line, and the version and text that lgiap prints are
  those of the answer that arrived first (`lgiap/main.go:221`).
* `PublishedIsFresh`: a repository whose default branch is renamed between the
  parallel fetch and ls-remote disappears from the index until the next run
  (`fetch-reindex/main.go:349`).
* `ViewsEnd`: the blame of an output that ends inside a chunk never returns,
  which the property demands of exactly these outputs (`fileview.go:1079`), and
  a diff of more than one file ends in a nil
  dereference (`fileview.go:2090`).
* `BlameExact` does not ask for the fewest ranges: consecutive chunks of a
  commit are merged only if the later one has one line (`fileview.go:1069`).
* `DoneMeansAll` does not ask for each commit once: the buttons of the history
  table keep the cursor they were made with, so a second "Show more" loads the
  same page again (`fileview_v2.js:212`). The answer to a second "Show all" finds
  no buttons and throws before it adds its rows, perhaps after it made new
  buttons (`fileview_v2.js:297`); the property holds all the same: the
  table was whole when the buttons went.
* `PageExact`: a page's parts come from one commit, but a HEAD whose branch was
  pruned meanwhile makes `ListAllBranches` panic (`fileview.go:1708`). The
  readme of a subdirectory is looked up without a separator
  (`fileview.go:1351`), so it is not found, or another file's is shown.
* `ReplyExact` is exact for a key that names one file: the matches of two files
  whose `tree-path` is the same text are merged into one result
  (`api.go:289`).
* `RowsExact` does not speak of the marker of a missing newline: the flag is set
  on a slice that the hunk no longer uses.

### Fairness

Weak fairness of each thread, goroutine or poll loop: the operating system and
the Go scheduler run whatever can run, and no thread of the code waits for
anything but the queues and channels modelled. Where parts share an MC module,
one weak fairness condition for the union of their steps is that of the part
that runs. In `LoadRepos`, `CompositeQuery` and the parsers no step disables
itself for ever while others go on for ever (every behaviour is finite up to
stuttering, except the endless blame), so that fairness of the whole next-state
relation is what scheduling gives each goroutine. In `FetchReindex` the fair
steps are those of the program and its scheduler; faults and changes of remotes
are not fair, and are bounded. In `IndexReload` the Reload RPC has strong
fairness: the client asks gRPC to wait until the server is ready, and the server
is away from time to time. The passing of the deadline, network errors, new
requests and new files have no fairness. `search_path` checks safety only.

## What is proved

All theorems are for any finite numbers of threads, chunks, lines, names,
repositories, commits and so on, under the `ASSUME` of the component's module.
Each rests on an inductive invariant, a conjunction of the parts named below;
one lemma per action (or kind of thread) shows that a step keeps it.

* `SearchThreadProofs`: `TypeCorrect`, `JobSafe` (`JobOutlivesUse`) and
  `PushesAreDelivered` (`NoPushAfterClose`). `JobOutlivesUse` is not inductive:
  it needs that the entries left in the job queue and the workers busy with
  the current job together number `pending`, that only
  the current job is queued, and that the result queue is closed only at
  `pending = 0` by the worker that brought it there. `WorkerInv` says this with
  cardinalities; `NameInv` is its like for the two name searchers, of which
  there is one each. `HitInHand` says that a worker between finding and pushing
  has a hit. The conjunction with `TypeOK` is `IInv`.
* `SearchResultProofs`: `ReasonIsTrue` (`ReasonTrue`), `LimitIsKept`
  (`LimitKept`) and `ImplementsMatch`: `SearchThread`
  refines `Match` (`KeepsPromise`). `PlaceInv` and `NamePlaceInv` say where each
  hit of the corpus is (not yet found, in a worker's hand, in the queue, returned,
  or dropped), `OnceInv` that it is in one place only; `CountInv` relates the
  counter of the limiter to the lines that were pushed and to the workers
  between push and count, from which `LimitInv` and `OvershootInv` follow. The
  refinement maps the lines popped by `match()` to the output of `Match`, and
  shows that each step of a thread is a step of `Match` or a stutter.
* `CheckoutReposProofs`: `NilIsSuccess` and `ErrorIsFailure`. `CheckoutInv`
  accounts for every repository: not yet sent, in a worker's hands, fetched, or
  failed; and every failure is on its way, in `errc`, or already in `err`.
* `ChunkFilesProofs`: `FinishFileAssert`, `NoLineLost` and `SearchFindsRanges`
  (`RangesUsable`). `ChunkInv` strengthens the disjointness of ranges by saying
  that a range begins where a line of the chunk begins and ends where one ends,
  so that a range never cuts a line. That the search is exact takes four steps:
  the gaps inside a range stay bounded (`GapsBounded`); `FilesInv` and
  `SortedInv` say that the sorted array has exactly the finished ranges; the
  right limit of a node is the maximum over its subtree (`LimitIsMax`); and
  `WalkInv` counts, for a walk in progress, each range with the line as found or
  still below a node on the stack, so that pruning never loses one.
* `BackendProofs`: `QueuedChunksFrozen` (`QueuedIsFrozen`), `EveryLineIsFound`
  (`IndexedWhole`), `BoundsAreExact` (`BoundsExact`) and `ReloadIsHonoured` (the
  part of `IndexFollows` that is a safety property). `BuildInv` is made of
  `QueueInv` (a chunk is current, queued, being sorted or sorted), `LookupInv`
  (what `lines_` remembers lies in the current chunk) and `PieceInv` (the pieces of a
  file give its lines in order). `EveryLineIsFound` has the hypothesis
  `NoByteTail`, that no file ends in an unterminated line of one character: that
  is the case the run `indexer_tail` refutes. `BoundsInv` follows the matches in
  a line as a chain, each beginning at the first place after the one before,
  and shows that this chain is the set of all matches, in a line where no match
  is empty; `BoundsExact` says nothing of other lines. `ServeInv` says that no Reload
  names a file that was not there, and that a file is loaded after the request
  that led to it.
* `SearchPathProofs`: `PageSettles` (`SettledOnQuery`), `TermsAreWhole`
  (`TermsWhole`), `RequestsAreSafe` (`RequestSafe`), `NamesAreFoundUnlessHidden`
  (`NamesFound`) and `RepliesAreExact` (`ReplyExact`). `BoxInv`: results that are not
  those of the query, or of the history entry the box came from, will be replaced
  by an answer in flight. `ParserInv`:
  every token read is in the term at hand, in one stored term, an operator or a
  dropped space (`WholeInv`); the depth `p` is that of one parenthesis that
  opened the group, and all before it are closed (`GroupInv`), so that what is
  enclosed goes where its parenthesis goes (`TogetherInv`). `ServiceInv`: a
  thread is in the pool or with one handler (`PoolInv`), and what remains of the
  limit is what the earlier passes left (`PassInv`). `NamesInv`: after each
  candidate `previous_first` is the start of the name it was found in, the start
  of the next name, or the word behind the vector (`PlaceInv`), which decides
  when a later candidate is skipped (`SkippedIs`). `MergeInv`: the map of files is
  that of the matches merged so far (`FilesOf`: per key the union of the contexts,
  bounds where a match is), and the reply has one rendered result for each key the
  loop has visited (`RenderedAll`); since the keys differ and `ResultLess` is
  total on them, every result of the unstable sort is strictly ordered.
* `CommandsProofs`: `IndexNeverPartial` (`IndexWhole`), `PublishesFreshIndex`
  (`PublishedIsFresh`), `ConfigIsExact` (`ConfigExact`) and
  `CompositeOutputIsExact` (`OutputExact`). `FetchInv` bounds what each clone, the answer of
  ls-remote and the `.tmp` file can be relative to the remote at the start of
  the run (`RemoteInv`, `CheckoutInv`, `FilesInv`), through kills and retries.
  `LoadInv`: a job that was sent is with one worker until everything it lists is
  in `out`, or a failure was seen (`JobsInv`); a page that was answered is in
  `resStream` or in the matrix (`PagesInv`); what a worker sends without an
  error is its job's listing, once (`ResInv`); and nobody ends before that
  (`EndsInv`). `LgiapInv`: each query answers at most once (`CollectInv`), so
  that as many answers as queries are the answers of all (`EveryQueryAnswers`, a
  pigeonhole argument); found and excluded are those of the answers visited
  (`CombineInv`); and the loop that writes into the slice it reads has one result
  per key seen in front of what it has yet to look at (`DedupeInv`). `ArrivalInv`:
  whatever arrived before a result of that part has been passed or is in front of
  it, so that the first of each key is the one that is kept.
* `GitViewsProofs`: `TreeIsExact` (`TreeExact`), `LogIsExact` (`LogExact`),
  `TableIsWhole` (`DoneMeansAll`), `PageIsExact` (`PageExact`), `BlameIsExact`
  (`BlameExact`), `ShowIsExact` (`ShowExact`) and `RowsAreExact` (`RowsExact`). `DirtreeInv`:
  what has been linked is the tree of the entries read. `LogInv`: the commits
  parsed are a prefix of the page asked for (`ParseInv`); the branch only grows,
  and once the first answer is in, the table has every commit of the first page
  and, when the buttons are gone, every commit the branch had then (`TableInv`).
  `ViewInv`: what each git command of a request was asked about is one commit
  (`HeadInv`, `CommitInv`, `HashInv`), whatever changes in between.
  `BlameInv`: the lines read have their own commit, and the ranges of a commit
  are in order and cover exactly its lines up to the end of the chunk whose header
  was read (`OwnerInv`); a commit's data come with its first line (`DataInv`); a
  chunk has one commit and ends where the next begins (`ChunkInv`); the scanner
  has not passed the point where the output ends (`EofInv`). `ShowInv`: line k of
  the diffstat has the number of file k (`StatInv`), and of the patch the files
  before the current one have all their hunks and the current one those read
  (`PatchInv`, `DoneInv`). `DiffInv` follows a line of the file from git to its
  row: the hunks are a header and shown lines without a gap, and nothing shown
  lies between two of them (`HunksInv`); the counters are the numbers of the
  lines of either version before the one to be read (`ScanInv`); the lines put
  aside are the changed lines just before the one visited, and every line before
  those has its row (`RowsInv`). That the pairing is right rests on git showing the
  deleted lines of a change first (`DeletedFirst`).

The provers offer no induction over data, so an argument over all positions,
names or nodes goes through the least counterexample (`LeastElement`, from the
well-foundedness of `<` on `Nat`); a sort is characterised by the number of
smaller elements (`RankIsIndex`) or, where the code's sort is unstable, by any
permutation that puts nothing before a smaller one; and offsets are stated as
cardinalities or by the relation between neighbours. For the same reason git's
output is given by position (the line after a line), and loops are steps with
their index, not folds.

Only model-checked:

* liveness (`MatchReturns`, `DestructorJoins`, `ReturnsOrFull`, `CallsReturn`,
  `Converges`, `ToolsFinish`, `ViewsEnd`, and the part of `IndexFollows` that says
  "eventually"): no backend for fairness; `ReturnsOrFull` also needs `ENABLED`;
* `LinkWidens`: it relates the parse of a query to a later parse of an edited
  copy. That the parser is in the same state at the same token of both is a
  fact about two runs, for which the state would have to be a recursive function
  of the tokens, and an induction over them.

## What is abstracted or left out

* Memory: a use after return is a state in which a thread holds a job that is
  not live; what the read returns is not modelled. The data race on
  `re2_match_cache_`, which the workers of a job share, is not modelled.
* Time: a deadline passes nondeterministically.
* Regular expressions: which lines match, and where, is given.
* RPC, files and git: one step that succeeds or fails.
* `FetchReindex`: one run at a time, although nothing prevents two from sharing
  the `.tmp` file; an empty remote (empty output of ls-remote) and the
  export of metrics are left out. `Converges` rests on git for the clones that
  a killed run leaves: a later `git fetch` repairs one that looks like a bare
  repository.
* `LoadRepos`: `-skip-missing` and the fields of a configuration entry; a
  repository that is listed twice is configured twice, as in the code.
* `ParseQuery`: groups in brackets, the tags and the negated operators, whose
  code is that of the positive ones, and the separate parameters of old links;
  limits near 2^31.
* `SearchV2`: file and tree results and the counts of extensions.
* `FileView`: markdown, languages, the links' text; one change of the
  repository per request.
* Statistics, logging, debug output, metrics and rendering are left out.

## Not modelled

* Suffix search (`search_lines`, `full_search`), the query planner and
  `re_width.cc`: `SearchThread` and `LineBounds` take their result as given.
* `dump_load.cc`: a binary layout; an index file is whole or absent.
* The walk of the git indexer's threads, the fs indexer, tags and scores.
* `doSearch` of the first API, handlers that only render, templates, middleware,
  configuration, logging: no state between requests.
* The C++ and Go start-up code, thin clients and inspection tools; DOM handling
  of the pages; tests, third-party code, deployment.

Dangers met on the way that no model here reaches: a server that accepts the
Info RPC and never answers stops the frontend's poll loop (`backend.go:191`);
`--threads=0` makes `match()` wait for ever (`codesearch.cc:1323`);
`ServeSimpleGitLogJson` goes on after an error (`server.go:218`); with `--reload`
requests reload shared templates without a lock (`server.go:1166`); a limit wraps
at 2^31 (`query.go:206`).

## Plan

Done first, because everything a user sees passes through it: search thread,
name search, bounds, chunk files, indexer, request, reload, checkout, page. Then
the Go programs and the web server: fetch-reindex, github-reindex, lgiap, query
parser, replies, and the file viewer.

Next modules: `GitWalk` (the git indexer's threads, composed with `Indexer`),
`SearchLines` (`search_lines`, `full_search` and `next_range` against a scan),
`DumpLoad` (composed with `IndexReload`), `QueryPlan`.

Next theorems: `LinkWidens` for a query without a limit, with the parser's state
after each token kept as history, and the safety part of the new modules. All
other invariants that the runs check are proved.
