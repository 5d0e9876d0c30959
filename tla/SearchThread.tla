----------------------------- MODULE SearchThread -----------------------------
(***************************************************************************)
(* One code_searcher::search_thread: the thread that calls match(), the    *)
(* FLAGS_threads chunk searchers (search_one), the file and tree name      *)
(* searchers (search_file_one, search_tree_one), the thread_queues between *)
(* them and the search_limiter the chunk searchers share.                  *)
(*                                                                         *)
(* The job lives in match()'s stack frame: its queues, its counter and its *)
(* searchers are gone as soon as match() returns.  The next call of match()*)
(* is a new job, so the state of a job below is that of the current one    *)
(* and a thread that still holds an older job would use freed memory.      *)
(*                                                                         *)
(* A hit is one execution of queue_.push(m) in try_match: one line of one  *)
(* file that matches.  Queues are sets: the properties do not depend on    *)
(* the order in which chunks are searched or hits are delivered.           *)
(*                                                                         *)
(* A definition X_Y next to X is a wrong version of X, with the slip that  *)
(* Y names; replacing X by it must violate a property (see README.md).     *)
(***************************************************************************)
EXTENDS Naturals, FiniteSets

CONSTANTS
    Worker,     \* the FLAGS_threads threads that run search_one
    Chunk,      \* the chunks of the index
    Hit,        \* the matching lines
    NoHit,      \* no hit in hand
    HitsOf,     \* HitsOf[c]: the hits found by searching chunk c
    Weight,     \* Weight[h]: matches found in the line of h (num_matches)
    Dropped,    \* the hits the caller's transform function rejects
    NameHits,   \* NameHits[k]: the names of kind k that match
    Limit,      \* the values of q.max_matches (0: no limit)
    MaxJobs     \* bound: calls of match() on this search_thread

NameKind == {"file", "tree"}
AnyName == UNION {NameHits[k] : k \in NameKind}

ASSUME SearchThreadAssumption ==
    /\ IsFiniteSet(Worker) /\ Worker # {}
    /\ IsFiniteSet(Hit) /\ NoHit \notin Hit
    /\ HitsOf \in [Chunk -> SUBSET Hit]
    /\ \A c, d \in Chunk : c # d => HitsOf[c] \cap HitsOf[d] = {}
    /\ Weight \in [Hit -> Nat \ {0}]
    /\ Dropped \subseteq Hit
    /\ DOMAIN NameHits = NameKind
    /\ Limit \subseteq Nat
    /\ MaxJobs \in Nat

NumThreads == Cardinality(Worker)

VARIABLES
    mpc,        \* where the thread in match() is
    job,        \* the number of the current call of match(); 0 before the first
    kind,       \* what it searches: "code" (and file names), "file" or "tree" only
    max,        \* q.max_matches
    posted,     \* how often match() has pushed the job to queue_
    unpushed,   \* chunks not yet pushed to j.chunks
    pending,    \* j.pending
    chunks,     \* j.chunks
    chunksClosed,
    found,      \* search.queue_
    foundClosed,
    delivered,  \* the hits passed to the callback cb
    got,        \* match()'s local `matches'
    why,        \* stats->why, as returned
    late,       \* the deadline of the searcher's limiter has passed
    matches,    \* matches_ of the searcher's limiter
    exit,       \* exit_reason_ of the searcher's limiter
    queue,      \* queue_[j]: how many entries of job j are queued
    closed,     \* queue_, file_queue_ and tree_queue_ have been closed
    wpc, wjob, wtodo, whit, wcnt,   \* the search_one threads
    nqueue,     \* file_queue_ and tree_queue_, as queue
    npc, njob, ntodo,   \* the search_file_one and search_tree_one threads
    nfound, nfoundClosed, ndelivered,       \* their result queue, and fcb, tcb
    nmatches, nexit                         \* their limiter

match_vars   == <<mpc, kind, max, posted, unpushed, delivered, got, why>>
job_vars     == <<pending, chunks, chunksClosed>>
found_vars   == <<found, foundClosed>>
limiter_vars == <<matches, exit>>
worker_vars  == <<wpc, wjob, wtodo, whit, wcnt>>
name_vars    == <<npc, njob, ntodo, nfound, nfoundClosed, nmatches, nexit>>
vars == <<match_vars, job, job_vars, found_vars, limiter_vars, late, queue, closed,
          worker_vars, nqueue, name_vars, ndelivered>>

Job == 1..MaxJobs

(* The name queue a search uses: tree_queue_ for treename_only.            *)
NameOf == IF kind = "tree" THEN "tree" ELSE "file"

ExitReason == {"none", "timeout", "match_limit"}

(***************************************************************************)
(* match() is running: the job and what it points to exist.                *)
(***************************************************************************)
Live == mpc \notin {"idle", "join", "gone"}

MatchPC == {"idle", "inc", "push", "chunks", "pushname", "drain", "drainname",
            "join", "gone"}
WorkerPC == {"pop", "chunk", "check", "expire", "push", "add", "record", "set",
             "finish", "close", "exited"}
NamePC == {"pop", "check", "close", "exited"}

TypeOfMatch ==
    /\ mpc \in MatchPC
    /\ job \in 0..MaxJobs
    /\ kind \in {"code", "file", "tree"}
    /\ max \in Limit \cup {0}
    /\ posted \in 0..NumThreads
    /\ unpushed \subseteq Chunk
    /\ delivered \subseteq Hit
    /\ got \in Nat
    /\ why \in ExitReason
    /\ late \in BOOLEAN /\ closed \in BOOLEAN

TypeOfJob ==
    /\ pending \in 0..NumThreads
    /\ chunks \subseteq Chunk /\ chunksClosed \in BOOLEAN
    /\ found \subseteq Hit /\ foundClosed \in BOOLEAN
    /\ matches \in Nat
    /\ exit \in ExitReason
    /\ queue \in [Job -> 0..NumThreads]

TypeOfWorkers ==
    /\ wpc \in [Worker -> WorkerPC]
    /\ wjob \in [Worker -> 0..MaxJobs]
    /\ wtodo \in [Worker -> SUBSET Hit]
    /\ whit \in [Worker -> Hit \cup {NoHit}]
    /\ wcnt \in [Worker -> Nat]

TypeOfNames ==
    /\ nqueue \in [NameKind -> [Job -> 0..1]]
    /\ npc \in [NameKind -> NamePC]
    /\ njob \in [NameKind -> 0..MaxJobs]
    /\ ntodo \in [NameKind -> SUBSET AnyName]
    /\ nfound \in [NameKind -> SUBSET AnyName]
    /\ ndelivered \in [NameKind -> SUBSET AnyName]
    /\ nfoundClosed \in [NameKind -> BOOLEAN]
    /\ nmatches \in [NameKind -> Nat]
    /\ nexit \in [NameKind -> ExitReason]

TypeOK == TypeOfMatch /\ TypeOfJob /\ TypeOfWorkers /\ TypeOfNames

Init ==
    /\ mpc = "idle" /\ job = 0 /\ kind = "code" /\ max = 0
    /\ posted = 0 /\ unpushed = {} /\ pending = 0
    /\ chunks = {} /\ chunksClosed = FALSE
    /\ found = {} /\ foundClosed = FALSE
    /\ delivered = {} /\ got = 0 /\ why = "none"
    /\ late = FALSE /\ matches = 0 /\ exit = "none"
    /\ queue = [j \in Job |-> 0] /\ closed = FALSE
    /\ wpc = [w \in Worker |-> "pop"]
    /\ wjob = [w \in Worker |-> 0]
    /\ wtodo = [w \in Worker |-> {}]
    /\ whit = [w \in Worker |-> NoHit]
    /\ wcnt = [w \in Worker |-> 0]
    /\ nqueue = [k \in NameKind |-> [j \in Job |-> 0]]
    /\ npc = [k \in NameKind |-> "pop"]
    /\ njob = [k \in NameKind |-> 0]
    /\ ntodo = [k \in NameKind |-> {}]
    /\ nfound = [k \in NameKind |-> {}]
    /\ nfoundClosed = [k \in NameKind |-> FALSE]
    /\ ndelivered = [k \in NameKind |-> {}]
    /\ nmatches = [k \in NameKind |-> 0]
    /\ nexit = [k \in NameKind |-> "none"]

-----------------------------------------------------------------------------
(* The thread in match().                                                  *)

(***************************************************************************)
(* A call of match(): a fresh job, fresh searchers and limiters.  The      *)
(* grpc server's pool hands a search_thread to one request at a time, so   *)
(* calls do not overlap.                                                   *)
(***************************************************************************)
StartMatch(k, m) ==
    /\ mpc = "idle" /\ job < MaxJobs
    /\ job' = job + 1
    /\ kind' = k /\ max' = m
    /\ mpc' = IF k = "code" THEN "inc" ELSE "pushname"
    /\ posted' = 0 /\ pending' = 0
    /\ unpushed' = Chunk /\ chunks' = {} /\ chunksClosed' = FALSE
    /\ found' = {} /\ foundClosed' = FALSE
    /\ delivered' = {} /\ got' = 0 /\ why' = "none"
    /\ late' = FALSE /\ matches' = 0 /\ exit' = "none"
    /\ nfound' = [n \in NameKind |-> {}]
    /\ nfoundClosed' = [n \in NameKind |-> FALSE]
    /\ ndelivered' = [n \in NameKind |-> {}]
    /\ nmatches' = [n \in NameKind |-> 0]
    /\ nexit' = [n \in NameKind |-> "none"]
    /\ UNCHANGED <<queue, closed, worker_vars, nqueue, npc, njob, ntodo>>

(* for (i < FLAGS_threads) { ++j.pending; queue_.push(&j); }               *)
IncPending ==
    /\ mpc = "inc"
    /\ pending' = pending + 1
    /\ mpc' = "push"
    /\ UNCHANGED <<job, kind, max, posted, unpushed, delivered, got, why, chunks,
                   chunksClosed, found_vars, limiter_vars, late, queue, closed,
                   worker_vars, nqueue, name_vars, ndelivered>>

MoreToPost_OffByOne == posted < NumThreads
MoreToPost == posted + 1 < NumThreads

PushJob ==
    /\ mpc = "push"
    /\ queue' = [queue EXCEPT ![job] = @ + 1]
    /\ posted' = posted + 1
    /\ mpc' = IF MoreToPost THEN "inc" ELSE "chunks"
    /\ UNCHANGED <<job, kind, max, unpushed, delivered, got, why, job_vars,
                   found_vars, limiter_vars, late, closed, worker_vars, nqueue,
                   name_vars, ndelivered>>

(* j.chunks.push, for every chunk of the index.                            *)
PushChunk(c) ==
    /\ mpc = "chunks" /\ c \in unpushed
    /\ unpushed' = unpushed \ {c}
    /\ chunks' = chunks \cup {c}
    /\ UNCHANGED <<mpc, job, kind, max, posted, delivered, got, why, pending,
                   chunksClosed, found_vars, limiter_vars, late, queue, closed,
                   worker_vars, nqueue, name_vars, ndelivered>>

CloseChunks ==
    /\ mpc = "chunks" /\ unpushed = {}
    /\ chunksClosed' = TRUE
    /\ mpc' = "pushname"
    /\ UNCHANGED <<job, kind, max, posted, unpushed, delivered, got, why, pending,
                   chunks, found_vars, limiter_vars, late, queue, closed,
                   worker_vars, nqueue, name_vars, ndelivered>>

PushName ==
    /\ mpc = "pushname"
    /\ nqueue' = [nqueue EXCEPT ![NameOf][job] = @ + 1]
    /\ mpc' = IF kind = "code" THEN "drain" ELSE "drainname"
    /\ UNCHANGED <<job, kind, max, posted, unpushed, delivered, got, why, job_vars,
                   found_vars, limiter_vars, late, queue, closed, worker_vars,
                   name_vars, ndelivered>>

(* while (search.queue_.pop(&m)) { matches += m->num_matches; cb(m); }     *)
Drain(h) ==
    /\ mpc = "drain" /\ h \in found
    /\ found' = found \ {h}
    /\ delivered' = delivered \cup {h}
    /\ got' = got + Weight[h]
    /\ UNCHANGED <<mpc, job, kind, max, posted, unpushed, why, job_vars, foundClosed,
                   limiter_vars, late, queue, closed, worker_vars, nqueue, name_vars,
                   ndelivered>>

DrainDone ==
    /\ mpc = "drain" /\ found = {} /\ foundClosed
    /\ mpc' = "drainname"
    /\ UNCHANGED <<job, kind, max, posted, unpushed, delivered, got, why, job_vars,
                   found_vars, limiter_vars, late, queue, closed, worker_vars,
                   nqueue, name_vars, ndelivered>>

DrainName(f) ==
    /\ mpc = "drainname" /\ f \in nfound[NameOf]
    /\ nfound' = [nfound EXCEPT ![NameOf] = @ \ {f}]
    /\ ndelivered' = [ndelivered EXCEPT ![NameOf] = @ \cup {f}]
    /\ UNCHANGED <<match_vars, job, job_vars, found_vars, limiter_vars, late, queue,
                   closed, worker_vars, nqueue, npc, njob, ntodo, nfoundClosed,
                   nmatches, nexit>>

(* The queues are drained: fill in stats and return.                       *)
Return ==
    /\ mpc = "drainname" /\ nfound[NameOf] = {} /\ nfoundClosed[NameOf]
    /\ why' = IF kind = "code" THEN exit ELSE nexit[NameOf]
    /\ mpc' = "idle"
    /\ UNCHANGED <<job, kind, max, posted, unpushed, delivered, got, job_vars,
                   found_vars, limiter_vars, late, queue, closed, worker_vars,
                   nqueue, name_vars, ndelivered>>

(* ~search_thread: close the three queues, then join every thread.         *)
Destroy_NoClose ==
    /\ mpc = "idle"
    /\ mpc' = "join"
    /\ UNCHANGED <<job, kind, max, posted, unpushed, delivered, got, why, job_vars,
                   found_vars, limiter_vars, late, queue, closed, worker_vars, nqueue,
                   name_vars, ndelivered>>
Destroy ==
    /\ mpc = "idle"
    /\ closed' = TRUE
    /\ mpc' = "join"
    /\ UNCHANGED <<job, kind, max, posted, unpushed, delivered, got, why, job_vars,
                   found_vars, limiter_vars, late, queue, worker_vars, nqueue,
                   name_vars, ndelivered>>

Join ==
    /\ mpc = "join"
    /\ \A w \in Worker : wpc[w] = "exited"
    /\ \A k \in NameKind : npc[k] = "exited"
    /\ mpc' = "gone"
    /\ UNCHANGED <<job, kind, max, posted, unpushed, delivered, got, why, job_vars,
                   found_vars, limiter_vars, late, queue, closed, worker_vars,
                   nqueue, name_vars, ndelivered>>

(* The clock passes the deadline of the limiter (FLAGS_timeout).           *)
Deadline ==
    /\ Live /\ ~late
    /\ late' = TRUE
    /\ UNCHANGED <<match_vars, job, job_vars, found_vars, limiter_vars, queue, closed,
                   worker_vars, nqueue, name_vars, ndelivered>>

-----------------------------------------------------------------------------
(* search_one.                                                             *)

PopJob(w) ==
    /\ wpc[w] = "pop"
    /\ \E j \in Job :
        /\ queue[j] > 0
        /\ queue' = [queue EXCEPT ![j] = @ - 1]
        /\ wjob' = [wjob EXCEPT ![w] = j]
    /\ wpc' = [wpc EXCEPT ![w] = "chunk"]
    /\ UNCHANGED <<match_vars, job, job_vars, found_vars, limiter_vars, late, closed,
                   wtodo, whit, wcnt, nqueue, name_vars, ndelivered>>

ExitWorker(w) ==
    /\ wpc[w] = "pop" /\ closed /\ \A j \in Job : queue[j] = 0
    /\ wpc' = [wpc EXCEPT ![w] = "exited"]
    /\ UNCHANGED <<match_vars, job, job_vars, found_vars, limiter_vars, late, queue,
                   closed, wjob, wtodo, whit, wcnt, nqueue, name_vars,
                   ndelivered>>

(* while (j->chunks.pop(&c)): it blocks until there is a chunk or a close. *)
PopChunk(w, c) ==
    /\ wpc[w] = "chunk" /\ c \in chunks
    /\ chunks' = chunks \ {c}
    /\ wtodo' = [wtodo EXCEPT ![w] = HitsOf[c]]
    /\ wpc' = [wpc EXCEPT ![w] = "check"]
    /\ UNCHANGED <<match_vars, job, pending, chunksClosed, found_vars, limiter_vars,
                   late, queue, closed, wjob, whit, wcnt, nqueue, name_vars,
                   ndelivered>>

ChunksDone_TryPop(w) ==
    /\ wpc[w] = "chunk" /\ chunks = {}
    /\ wpc' = [wpc EXCEPT ![w] = "finish"]
    /\ UNCHANGED <<match_vars, job, job_vars, found_vars, limiter_vars, late, queue,
                   closed, wjob, wtodo, whit, wcnt, nqueue, name_vars, ndelivered>>
ChunksDone(w) ==
    /\ wpc[w] = "chunk" /\ chunks = {} /\ chunksClosed
    /\ wpc' = [wpc EXCEPT ![w] = "finish"]
    /\ UNCHANGED <<match_vars, job, job_vars, found_vars, limiter_vars, late, queue,
                   closed, wjob, wtodo, whit, wcnt, nqueue, name_vars,
                   ndelivered>>

(***************************************************************************)
(* limiter_.exit_early(), before the chunk and again around every hit.  It *)
(* reads exit_reason_ and the clock; setting exit_reason_ to kExitTimeout  *)
(* is a later step (Expire), so another thread may write it in between.    *)
(***************************************************************************)
ExitEarly(w) ==
    /\ wpc[w] = "check" /\ exit # "none"
    /\ wtodo' = [wtodo EXCEPT ![w] = {}]
    /\ wpc' = [wpc EXCEPT ![w] = "chunk"]
    /\ UNCHANGED <<match_vars, job, job_vars, found_vars, limiter_vars, late, queue,
                   closed, wjob, whit, wcnt, nqueue, name_vars, ndelivered>>

SeeLate(w) ==
    /\ wpc[w] = "check" /\ exit = "none" /\ late
    /\ wpc' = [wpc EXCEPT ![w] = "expire"]
    /\ UNCHANGED <<match_vars, job, job_vars, found_vars, limiter_vars, late, queue,
                   closed, wjob, wtodo, whit, wcnt, nqueue, name_vars,
                   ndelivered>>

Expire_NoReason(w) ==
    /\ wpc[w] = "expire"
    /\ wtodo' = [wtodo EXCEPT ![w] = {}]
    /\ wpc' = [wpc EXCEPT ![w] = "chunk"]
    /\ UNCHANGED <<match_vars, job, job_vars, found_vars, limiter_vars, late, queue,
                   closed, wjob, whit, wcnt, nqueue, name_vars, ndelivered>>
Expire(w) ==
    /\ wpc[w] = "expire"
    /\ exit' = "timeout"
    /\ wtodo' = [wtodo EXCEPT ![w] = {}]
    /\ wpc' = [wpc EXCEPT ![w] = "chunk"]
    /\ UNCHANGED <<match_vars, job, job_vars, found_vars, matches, late, queue, closed,
                   wjob, whit, wcnt, nqueue, name_vars, ndelivered>>

(* The next match in the chunk; the transform function may reject it.      *)
NextHit_NoTransform(w, h) ==
    /\ wpc[w] = "check" /\ exit = "none" /\ ~late
    /\ h \in wtodo[w]
    /\ wtodo' = [wtodo EXCEPT ![w] = @ \ {h}]
    /\ whit' = [whit EXCEPT ![w] = h]
    /\ wpc' = [wpc EXCEPT ![w] = "push"]
    /\ UNCHANGED <<match_vars, job, job_vars, found_vars, limiter_vars, late, queue,
                   closed, wjob, wcnt, nqueue, name_vars, ndelivered>>
NextHit_NoExitCheck(w, h) ==
    /\ wpc[w] = "check"
    /\ h \in wtodo[w] \ Dropped
    /\ wtodo' = [wtodo EXCEPT ![w] = @ \ {h}]
    /\ whit' = [whit EXCEPT ![w] = h]
    /\ wpc' = [wpc EXCEPT ![w] = "push"]
    /\ UNCHANGED <<match_vars, job, job_vars, found_vars, limiter_vars, late, queue,
                   closed, wjob, wcnt, nqueue, name_vars, ndelivered>>
NextHit(w, h) ==
    /\ wpc[w] = "check" /\ exit = "none" /\ ~late
    /\ h \in wtodo[w]
    /\ wtodo' = [wtodo EXCEPT ![w] = @ \ {h}]
    /\ IF h \in Dropped
       THEN UNCHANGED <<whit, wpc>>
       ELSE /\ whit' = [whit EXCEPT ![w] = h]
            /\ wpc' = [wpc EXCEPT ![w] = "push"]
    /\ UNCHANGED <<match_vars, job, job_vars, found_vars, limiter_vars, late, queue,
                   closed, wjob, wcnt, nqueue, name_vars, ndelivered>>

ChunkSearched(w) ==
    /\ wpc[w] = "check" /\ exit = "none" /\ ~late /\ wtodo[w] = {}
    /\ wpc' = [wpc EXCEPT ![w] = "chunk"]
    /\ UNCHANGED <<match_vars, job, job_vars, found_vars, limiter_vars, late, queue,
                   closed, wjob, wtodo, whit, wcnt, nqueue, name_vars, ndelivered>>

PushHit(w) ==
    /\ wpc[w] = "push"
    /\ found' = found \cup {whit[w]}
    /\ wpc' = [wpc EXCEPT ![w] = "add"]
    /\ UNCHANGED <<match_vars, job, job_vars, foundClosed, limiter_vars, late, queue,
                   closed, wjob, wtodo, whit, wcnt, nqueue, name_vars,
                   ndelivered>>

(***************************************************************************)
(* limiter_.record_n_matches(n): an atomic add, then a read of the shared  *)
(* exit_reason_, then perhaps a write of it, with no lock around the three.*)
(***************************************************************************)
AddMatches(w) ==
    /\ wpc[w] = "add"
    /\ matches' = matches + Weight[whit[w]]
    /\ wcnt' = [wcnt EXCEPT ![w] = matches']
    /\ whit' = [whit EXCEPT ![w] = NoHit]
    /\ wpc' = [wpc EXCEPT ![w] = "record"]
    /\ UNCHANGED <<match_vars, job, job_vars, found_vars, exit, late, queue, closed,
                   wjob, wtodo, nqueue, name_vars, ndelivered>>

LimitReached(n) == max # 0 /\ n >= max

Record(w) ==
    /\ wpc[w] = "record"
    /\ wpc' = [wpc EXCEPT ![w] = IF exit = "none" /\ LimitReached(wcnt[w])
                                 THEN "set" ELSE "check"]
    /\ wcnt' = [wcnt EXCEPT ![w] = 0]
    /\ UNCHANGED <<match_vars, job, job_vars, found_vars, limiter_vars, late, queue,
                   closed, wjob, wtodo, whit, nqueue, name_vars, ndelivered>>

SetLimit(w) ==
    /\ wpc[w] = "set"
    /\ exit' = "match_limit"
    /\ wpc' = [wpc EXCEPT ![w] = "check"]
    /\ UNCHANGED <<match_vars, job, job_vars, found_vars, matches, late, queue, closed,
                   wjob, wtodo, whit, wcnt, nqueue, name_vars, ndelivered>>

(* if (--j->pending == 0) j->search->queue_.close();                       *)
Finish_AlwaysCloses(w) ==
    /\ wpc[w] = "finish"
    /\ pending' = pending - 1
    /\ wpc' = [wpc EXCEPT ![w] = "close"]
    /\ UNCHANGED <<match_vars, job, chunks, chunksClosed, found_vars, limiter_vars,
                   late, queue, closed, wjob, wtodo, whit, wcnt, nqueue, name_vars,
                   ndelivered>>
Finish_ReadsBefore(w) ==
    /\ wpc[w] = "finish"
    /\ pending' = pending - 1
    /\ wpc' = [wpc EXCEPT ![w] = IF pending = 0 THEN "close" ELSE "pop"]
    /\ UNCHANGED <<match_vars, job, chunks, chunksClosed, found_vars, limiter_vars,
                   late, queue, closed, wjob, wtodo, whit, wcnt, nqueue, name_vars,
                   ndelivered>>
Finish(w) ==
    /\ wpc[w] = "finish"
    /\ pending' = pending - 1
    /\ wpc' = [wpc EXCEPT ![w] = IF pending = 1 THEN "close" ELSE "pop"]
    /\ UNCHANGED <<match_vars, job, chunks, chunksClosed, found_vars, limiter_vars,
                   late, queue, closed, wjob, wtodo, whit, wcnt, nqueue,
                   name_vars, ndelivered>>

CloseFound(w) ==
    /\ wpc[w] = "close"
    /\ foundClosed' = TRUE
    /\ wpc' = [wpc EXCEPT ![w] = "pop"]
    /\ UNCHANGED <<match_vars, job, job_vars, found, limiter_vars, late, queue, closed,
                   wjob, wtodo, whit, wcnt, nqueue, name_vars, ndelivered>>

-----------------------------------------------------------------------------
(***************************************************************************)
(* search_file_one and search_tree_one.  The limiter of a name searcher is *)
(* used by this one thread until its queue is closed, so recording a match *)
(* goes with pushing it.                                                   *)
(***************************************************************************)
PopName(k) ==
    /\ npc[k] = "pop"
    /\ \E j \in Job :
        /\ nqueue[k][j] > 0
        /\ nqueue' = [nqueue EXCEPT ![k][j] = @ - 1]
        /\ njob' = [njob EXCEPT ![k] = j]
    /\ ntodo' = [ntodo EXCEPT ![k] = NameHits[k]]
    /\ npc' = [npc EXCEPT ![k] = "check"]
    /\ UNCHANGED <<match_vars, job, job_vars, found_vars, limiter_vars, late, queue,
                   closed, worker_vars, nfound, nfoundClosed, nmatches, nexit,
                   ndelivered>>

ExitName(k) ==
    /\ npc[k] = "pop" /\ closed /\ \A j \in Job : nqueue[k][j] = 0
    /\ npc' = [npc EXCEPT ![k] = "exited"]
    /\ UNCHANGED <<match_vars, job, job_vars, found_vars, limiter_vars, late, queue,
                   closed, worker_vars, nqueue, njob, ntodo, nfound, nfoundClosed,
                   nmatches, nexit, ndelivered>>

(* match_filename / match_treename: push the result, then record_match().  *)
MatchName(k, f) ==
    /\ npc[k] = "check" /\ nexit[k] = "none" /\ f \in ntodo[k]
    /\ ntodo' = [ntodo EXCEPT ![k] = @ \ {f}]
    /\ nfound' = [nfound EXCEPT ![k] = @ \cup {f}]
    /\ nmatches' = [nmatches EXCEPT ![k] = @ + 1]
    /\ nexit' = [nexit EXCEPT ![k] = IF max # 0 /\ nmatches[k] + 1 >= max
                                     THEN "match_limit" ELSE @]
    /\ UNCHANGED <<match_vars, job, job_vars, found_vars, limiter_vars, late, queue,
                   closed, worker_vars, nqueue, npc, njob, nfoundClosed, ndelivered>>

(* exit_early() finds the deadline of this searcher's own limiter passed.  *)
ExpireName(k) ==
    /\ npc[k] = "check" /\ nexit[k] = "none" /\ ntodo[k] # {}
    /\ nexit' = [nexit EXCEPT ![k] = "timeout"]
    /\ UNCHANGED <<match_vars, job, job_vars, found_vars, limiter_vars, late, queue,
                   closed, worker_vars, nqueue, npc, njob, ntodo, nfound, nfoundClosed,
                   nmatches, ndelivered>>

NamesDone(k) ==
    /\ npc[k] = "check"
    /\ ntodo[k] = {} \/ nexit[k] # "none"
    /\ ntodo' = [ntodo EXCEPT ![k] = {}]
    /\ npc' = [npc EXCEPT ![k] = "close"]
    /\ UNCHANGED <<match_vars, job, job_vars, found_vars, limiter_vars, late, queue,
                   closed, worker_vars, nqueue, njob, nfound, nfoundClosed, nmatches,
                   nexit, ndelivered>>

CloseNames(k) ==
    /\ npc[k] = "close"
    /\ nfoundClosed' = [nfoundClosed EXCEPT ![k] = TRUE]
    /\ npc' = [npc EXCEPT ![k] = "pop"]
    /\ UNCHANGED <<match_vars, job, job_vars, found_vars, limiter_vars, late, queue,
                   closed, worker_vars, nqueue, njob, ntodo, nfound, nmatches, nexit,
                   ndelivered>>

-----------------------------------------------------------------------------
MatchStep ==
    \/ IncPending \/ PushJob \/ CloseChunks \/ PushName \/ DrainDone \/ Return \/ Join
    \/ \E c \in Chunk : PushChunk(c)
    \/ \E h \in Hit : Drain(h)
    \/ \E f \in nfound[NameOf] : DrainName(f)

WorkerStep(w) ==
    \/ PopJob(w) \/ ExitWorker(w) \/ ChunksDone(w)
    \/ \E c \in Chunk : PopChunk(w, c)
    \/ ExitEarly(w) \/ SeeLate(w) \/ Expire(w) \/ ChunkSearched(w)
    \/ \E h \in Hit : NextHit(w, h)
    \/ PushHit(w) \/ AddMatches(w) \/ Record(w) \/ SetLimit(w)
    \/ Finish(w) \/ CloseFound(w)

NameStep(k) ==
    \/ PopName(k) \/ ExitName(k) \/ ExpireName(k) \/ NamesDone(k) \/ CloseNames(k)
    \/ \E f \in ntodo[k] : MatchName(k, f)

Caller ==
    \/ \E k \in {"code", "file", "tree"}, m \in Limit : StartMatch(k, m)
    \/ Destroy

Next ==
    \/ Caller
    \/ MatchStep
    \/ Deadline
    \/ \E w \in Worker : WorkerStep(w)
    \/ \E k \in NameKind : NameStep(k)

Spec == Init /\ [][Next]_vars

(***************************************************************************)
(* Every thread keeps running while it can; nothing makes a caller search  *)
(* again or the clock reach a deadline.                                    *)
(***************************************************************************)
Fairness ==
    /\ WF_vars(MatchStep)
    /\ \A w \in Worker : WF_vars(WorkerStep(w))
    /\ \A k \in NameKind : WF_vars(NameStep(k))

FairSpec == Spec /\ Fairness

-----------------------------------------------------------------------------
(***************************************************************************)
(* search_one, search_file_one and search_tree_one touch a job only while  *)
(* the match() that owns it is running: j->chunks, j->pending and the      *)
(* searchers are on match()'s stack.  The last worker to finish closes     *)
(* search.queue_, which lets match() return, so this is about the order of *)
(* --pending, close and pop.                                               *)
(***************************************************************************)
JobOutlivesUse ==
    /\ \A w \in Worker : wpc[w] \notin {"pop", "exited"} => Live /\ wjob[w] = job
    /\ \A k \in NameKind : npc[k] \notin {"pop", "exited"} => Live /\ njob[k] = job

(***************************************************************************)
(* No thread posts to a result queue that has been closed: match() would   *)
(* never deliver the hit.                                                  *)
(***************************************************************************)
NoPushAfterClose ==
    \A w \in Worker : wpc[w] \in {"check", "push"} => ~foundClosed

(***************************************************************************)
(* When match() has returned with exit reason kExitNone it has delivered   *)
(* every hit of every chunk that the transform accepted, or every name for *)
(* a search of names.                                                      *)
(***************************************************************************)
Returned == mpc = "idle" /\ job > 0

AllHits == (UNION {HitsOf[c] : c \in Chunk}) \ Dropped

CompleteUnlessCut ==
    Returned /\ why = "none" =>
        IF kind = "code" THEN delivered = AllHits
        ELSE ndelivered[NameOf] = NameHits[NameOf]

(***************************************************************************)
(* stats->matches, which match() adds up from the results it pops, is the  *)
(* number the limiter counted: no result is lost between the workers and   *)
(* match() even when the search is cut short.                              *)
(***************************************************************************)
CountsAgree == Returned => got = matches

(***************************************************************************)
(* The limiter is checked and updated without a lock, yet with a limit of  *)
(* m no search delivers more than m - 1 lines plus one for each worker.    *)
(***************************************************************************)
LimitOvershoot ==
    max > 0 => Cardinality(delivered) <= max - 1 + NumThreads

(***************************************************************************)
(* A search that delivered as many matches as the limit says so: whichever *)
(* of the racing workers brought the count to the limit, exit_reason_ is   *)
(* set before match() reads it.                                            *)
(***************************************************************************)
LimitNoticed ==
    Returned /\ kind = "code" /\ max > 0 /\ got >= max => why # "none"

(***************************************************************************)
(* The exit reason match() reports is true, although two workers may race  *)
(* to write different reasons: match_limit only if the limit was reached,  *)
(* timeout only if the deadline had passed.                                *)
(***************************************************************************)
WhyJustified ==
    Returned /\ kind = "code" =>
        /\ why = "match_limit" => max > 0 /\ matches >= max
        /\ why = "timeout" => late

(***************************************************************************)
(* What match() reports is true: kExitNone means that every result was     *)
(* delivered, a reached limit is reported, and so is only what happened.   *)
(***************************************************************************)
ReasonTrue == CompleteUnlessCut /\ LimitNoticed /\ WhyJustified

(***************************************************************************)
(* The workers that race on the limiter lose no count and overshoot the    *)
(* limit by less than one line for each of them.                           *)
(***************************************************************************)
LimitKept == CountsAgree /\ LimitOvershoot

(***************************************************************************)
(* No worker waits for ever: a call of match() returns, and the destructor *)
(* finishes joining its threads.                                           *)
(***************************************************************************)
MatchReturns == Live ~> mpc = "idle"
DestructorJoins == (mpc = "join") ~> (mpc = "gone")

(***************************************************************************)
(* match() as Match describes it.  A search of code also searches file     *)
(* names, with a limiter of their own whose reason match() does not        *)
(* report; the results it promises are the hits.                           *)
(***************************************************************************)
Promise == INSTANCE Match WITH
    Result   <- Hit \cup AnyName,
    Matching <- [k \in {"code", "file", "tree"} |->
                    IF k = "code" THEN AllHits ELSE NameHits[k]],
    running  <- Live,
    wanted   <- kind,
    out      <- IF kind = "code" THEN delivered ELSE ndelivered[NameOf],
    reason   <- why

(***************************************************************************)
(* Every step of the caller, the workers and the name searchers is a step  *)
(* of Match or changes nothing it can see.                                 *)
(***************************************************************************)
KeepsPromise == Promise!Spec
=============================================================================
