-------------------------- MODULE SearchResultProofs --------------------------
(***************************************************************************)
(* Proofs about what match() delivers and reports, for any number of       *)
(* workers, chunks, hits and calls: that SearchThread implements Match,    *)
(* that the reason is true and final, and that the limiter, which the      *)
(* workers use without a lock, loses no match and overshoots by less than  *)
(* one line for each worker.                                               *)
(*                                                                         *)
(* On top of IInv of SearchThreadProofs this needs to know where every hit *)
(* is: in a chunk nobody has popped, in a worker's hands, in search.queue_ *)
(* or delivered (PlaceInv, OnceInv); the same for the names (NamePlaceInv);*)
(* which matches have been counted (CountInv); and which workers still owe *)
(* the limiter a count or an exit reason (LimitInv, OvershootInv).         *)
(***************************************************************************)
EXTENDS SearchThreadProofs

(* The hits of the chunks that no worker has taken yet.                    *)
Left == UNION {HitsOf[c] : c \in unpushed \cup chunks}

(* The hits a worker has taken and neither pushed nor given up.            *)
Held(w) == wtodo[w] \cup (IF wpc[w] = "push" THEN {whit[w]} ELSE {})

(* The hits that have been pushed to search.queue_.                        *)
Pushed == found \cup delivered

SearchingPC == {"check", "expire", "push", "add", "record", "set"}

(***************************************************************************)
(* Every hit that is pushed matches and was accepted by the transform; as  *)
(* long as the search is not cut no hit is lost; and a worker that is      *)
(* finished, or a closed search.queue_, means that no chunk is left.       *)
(***************************************************************************)
PlaceInv ==
    /\ Pushed \subseteq AllHits
    /\ \A w \in Worker : wpc[w] = "push" => whit[w] \in AllHits
    /\ \A w \in Worker : wtodo[w] \subseteq UNION {HitsOf[c] : c \in Chunk}
    /\ \A w \in Worker : wpc[w] \notin SearchingPC => wtodo[w] = {}
    /\ chunksClosed => unpushed = {}
    /\ foundClosed \/ (\E w \in Worker : wpc[w] \in {"finish", "close"}) =>
           chunksClosed /\ chunks = {}
    /\ ~Active => found = {} /\ (kind = "code" /\ job > 0 => foundClosed)
    /\ kind = "code" /\ job > 0 /\ exit = "none" =>
           \A h \in AllHits : h \in Left \/ h \in Pushed \/ \E w \in Worker : h \in Held(w)
    /\ kind # "code" => delivered = {}

(* No hit is in two places.                                                *)
OnceInv ==
    /\ unpushed \cap chunks = {}
    /\ found \cap delivered = {}
    /\ Left \cap Pushed = {}
    /\ \A w \in Worker :
           /\ Held(w) \cap Left = {} /\ Held(w) \cap Pushed = {}
           /\ wpc[w] = "push" => whit[w] \notin wtodo[w]
    /\ \A v, w \in Worker : v # w => Held(v) \cap Held(w) = {}

(* The same for the names.                                                 *)
NamePlaceInv ==
    \A k \in NameKind :
        /\ ntodo[k] \cup nfound[k] \cup ndelivered[k] \subseteq NameHits[k]
        /\ npc[k] # "check" => ntodo[k] = {}
        /\ (npc[k] \in {"check", "close"} \/ nfoundClosed[k]) /\ nexit[k] = "none" =>
               NameHits[k] \subseteq ntodo[k] \cup nfound[k] \cup ndelivered[k]

NamesDrained ==
    mpc \in {"idle", "join", "gone"} /\ job > 0 => nfoundClosed[NameOf] /\ nfound[NameOf] = {}

(* The matches in the lines of S, one by one.                              *)
MatchesIn(S) == UNION {{h} \X (1..Weight[h]) : h \in S}
Tally(S) == Cardinality(MatchesIn(S))

Uncounted == {whit[w] : w \in {v \in Worker : wpc[v] = "add"}}

(* got and matches_ are the matches in the lines delivered and counted.    *)
CountInv ==
    /\ \A w \in Worker : wpc[w] = "add" => whit[w] \in Pushed
    /\ \A v, w \in Worker : wpc[v] = "add" /\ wpc[w] = "add" /\ v # w => whit[v] # whit[w]
    /\ got = Tally(delivered)
    /\ matches = Tally(Pushed \ Uncounted)

(* A worker that is going to set kExitMatchLimit.                          *)
SawLimit(w) == wpc[w] = "set" \/ (wpc[w] = "record" /\ wcnt[w] >= max)

(* exit_reason_ is justified, and a reached limit is or will be noticed.   *)
LimitInv ==
    /\ \A w \in Worker :
           /\ wpc[w] = "record" => wcnt[w] <= matches
           /\ wpc[w] = "set" => max > 0 /\ matches >= max
           /\ wpc[w] = "expire" => late
    /\ exit = "match_limit" => max > 0 /\ matches >= max
    /\ exit = "timeout" => late
    /\ max > 0 /\ matches >= max /\ exit = "none" => \E w \in Worker : SawLimit(w)
    /\ mpc \in {"idle", "join", "gone"} /\ job > 0 =>
           why = IF kind = "code" THEN exit ELSE nexit[NameOf]

(* The workers that pushed a line and are yet to count it or to cut the    *)
(* search, and the ones with a line to push.                               *)
Owing == {w \in Worker : wpc[w] = "add" \/ SawLimit(w)}
Pushing == {w \in Worker : wpc[w] = "push"}

(***************************************************************************)
(* Before the search is cut the lines exceed both the matches counted and  *)
(* max - 1 by at most the workers that owe; after that no line is added    *)
(* but those already in a worker's hand.                                   *)
(***************************************************************************)
OvershootInv ==
    max > 0 =>
        IF exit = "none"
        THEN /\ Cardinality(Pushed) <= matches + Cardinality(Owing)
             /\ Cardinality(Pushed) <= max - 1 + Cardinality(Owing)
        ELSE Cardinality(Pushed) + Cardinality(Pushing) <= max - 1 + NumThreads

-----------------------------------------------------------------------------
(* Frames: each part depends on a few variables only.                      *)

place_vars == <<mpc, kind, job, unpushed, chunks, chunksClosed, found, foundClosed, delivered,
                exit, wpc, wtodo, whit>>

LEMMA PlaceFrame == ASSUME PlaceInv, UNCHANGED place_vars PROVE PlaceInv'
BY DEF PlaceInv, place_vars, Pushed, Left, Held, Active

LEMMA OnceFrame ==
    ASSUME OnceInv, UNCHANGED <<unpushed, chunks, found, delivered, wpc, wtodo, whit>>
    PROVE  OnceInv'
BY DEF OnceInv, Pushed, Left, Held

LEMMA NamePlaceFrame ==
    ASSUME NamePlaceInv, UNCHANGED <<npc, ntodo, nfound, nfoundClosed, ndelivered, nexit>>
    PROVE  NamePlaceInv'
BY DEF NamePlaceInv

LEMMA CountFrame ==
    ASSUME CountInv, UNCHANGED <<found, delivered, got, matches, wpc, whit>>
    PROVE  CountInv'
BY DEF CountInv, Pushed, Uncounted, Tally, MatchesIn

LEMMA LimitFrame ==
    ASSUME LimitInv,
           UNCHANGED <<mpc, kind, job, max, why, late, matches, exit, wpc, wcnt, nexit>>
    PROVE  LimitInv'
BY DEF LimitInv, SawLimit, NameOf

LEMMA OvershootFrame ==
    ASSUME OvershootInv, UNCHANGED <<max, found, delivered, matches, exit, wpc, wcnt>>
    PROVE  OvershootInv'
BY DEF OvershootInv, Pushed, Owing, Pushing, SawLimit

-----------------------------------------------------------------------------
(* PlaceInv, step by step.                                                 *)

LEMMA LeftHits == \A h : h \in Left <=> \E c \in unpushed \cup chunks : h \in HitsOf[c]
BY DEF Left

(* When match() is not waiting for them the workers hold nothing.          *)
LEMMA InactiveIdle ==
    ASSUME IInv, ~Active
    PROVE  \A w \in Worker : wpc[w] \in {"pop", "exited"}
<1>1. pending = 0 /\ \A w \in Worker : wpc[w] # "close"
      BY DEF IInv, WorkerInv, InactiveMeansDone
<1>2. Busy = {}
      BY <1>1, NonePending DEF IInv
<1> QED BY <1>1, <1>2 DEF IInv, TypeOK, TypeOfWorkers, Busy, BusyPC

LEMMA StartMatchPlace ==
    ASSUME IInv, PlaceInv, NEW k \in {"code", "file", "tree"}, NEW m \in Limit, StartMatch(k, m)
    PROVE  PlaceInv'
<1>1. \A w \in Worker : wpc[w] \in {"pop", "exited"}
      BY InactiveIdle DEF StartMatch, Active
<1>2. \A w \in Worker : wtodo[w] = {}
      BY <1>1 DEF PlaceInv, SearchingPC
<1>3. /\ mpc' = (IF k = "code" THEN "inc" ELSE "pushname") /\ kind' = k
      /\ unpushed' = Chunk /\ chunks' = {} /\ chunksClosed' = FALSE
      /\ found' = {} /\ foundClosed' = FALSE /\ delivered' = {}
      /\ wpc' = wpc /\ wtodo' = wtodo /\ whit' = whit
      BY DEF StartMatch, worker_vars
<1>4. Pushed' = {} /\ (kind' = "code" => Active')
      BY <1>3 DEF Pushed, Active
<1>5. \A h \in AllHits : h \in Left'
      BY <1>3 DEF AllHits, Left
<1> QED BY <1>1, <1>2, <1>3, <1>4, <1>5 DEF PlaceInv

LEMMA PushChunkPlace ==
    ASSUME IInv, PlaceInv, NEW c \in Chunk, PushChunk(c)
    PROVE  PlaceInv'
<1>1. /\ mpc = "chunks" /\ c \in unpushed
      /\ unpushed' = unpushed \ {c} /\ chunks' = chunks \cup {c}
      /\ UNCHANGED <<mpc, kind, job, chunksClosed, found, foundClosed, delivered, exit, wpc,
                     wtodo, whit>>
      BY DEF PushChunk, found_vars, limiter_vars, worker_vars
<1>2. unpushed' \cup chunks' = unpushed \cup chunks
      BY <1>1
<1>3. Left' = Left /\ Pushed' = Pushed /\ Active' = Active /\ \A w \in Worker : Held(w)' = Held(w)
      BY <1>1, <1>2 DEF Left, Pushed, Active, Held
<1>4. ~chunksClosed
      BY <1>1 DEF IInv, WorkerInv, FinishAfterClose
<1> QED BY <1>1, <1>3, <1>4 DEF PlaceInv

LEMMA CloseChunksPlace ==
    ASSUME PlaceInv, CloseChunks
    PROVE  PlaceInv'
<1>1. /\ mpc = "chunks" /\ unpushed = {} /\ chunksClosed' = TRUE /\ mpc' = "pushname"
      /\ UNCHANGED <<unpushed, chunks, kind, job, found, foundClosed, delivered, exit, wpc,
                     wtodo, whit>>
      BY DEF CloseChunks, found_vars, limiter_vars, worker_vars
<1>2. Left' = Left /\ Pushed' = Pushed /\ (Active => Active') /\ \A w \in Worker : Held(w)' = Held(w)
      BY <1>1 DEF Left, Pushed, Active, Held
<1> QED BY <1>1, <1>2 DEF PlaceInv

LEMMA MatchMovesPlace ==
    ASSUME IInv, PlaceInv, IncPending \/ PushJob \/ PushName \/ DrainDone \/ Return \/ Destroy \/ Join
    PROVE  PlaceInv'
<1>1. UNCHANGED <<unpushed, chunks, chunksClosed, kind, job, found, foundClosed, delivered, exit,
                  wpc, wtodo, whit>>
      BY DEF IncPending, PushJob, PushName, DrainDone, Return, Destroy, Join, job_vars, found_vars,
             limiter_vars, worker_vars
<1>2. Left' = Left /\ Pushed' = Pushed /\ \A w \in Worker : Held(w)' = Held(w)
      BY <1>1 DEF Left, Pushed, Held
<1>3. Active /\ ~Active' => found = {} /\ foundClosed
      BY <1>1 DEF IncPending, PushJob, PushName, DrainDone, Return, Destroy, Join, Active
<1> QED BY <1>1, <1>2, <1>3 DEF PlaceInv

LEMMA DrainPlace ==
    ASSUME IInv, PlaceInv, NEW h \in Hit, Drain(h)
    PROVE  PlaceInv'
<1>1. /\ mpc = "drain" /\ h \in found
      /\ found' = found \ {h} /\ delivered' = delivered \cup {h}
      /\ UNCHANGED <<mpc, unpushed, chunks, chunksClosed, kind, job, foundClosed, exit, wpc, wtodo,
                     whit>>
      BY DEF Drain, job_vars, limiter_vars, worker_vars
<1>2. Pushed' = Pushed
      BY <1>1 DEF Pushed
<1>3. Left' = Left /\ \A w \in Worker : Held(w)' = Held(w)
      BY <1>1 DEF Left, Held
<1>4. Active /\ Active' /\ kind = "code"
      BY <1>1 DEF IInv, WorkerInv, CodeOnly, Active
<1> QED BY <1>1, <1>2, <1>3, <1>4 DEF PlaceInv

(* A worker moves on without touching a hit.                               *)
LEMMA IdleMovesPlace ==
    ASSUME IInv, PlaceInv, NEW w \in Worker,
           PopJob(w) \/ ExitWorker(w) \/ ChunksDone(w) \/ Finish(w) \/ CloseFound(w)
    PROVE  PlaceInv'
<1>0. wpc \in [Worker -> WorkerPC]
      BY DEF IInv, TypeOK, TypeOfWorkers
<1>1. UNCHANGED <<mpc, kind, job, unpushed, chunks, chunksClosed, found, delivered, exit, wtodo, whit>>
      BY DEF PopJob, ExitWorker, ChunksDone, Finish, CloseFound, match_vars, job_vars, found_vars,
             limiter_vars
<1>2. PICK x \in WorkerPC \ SearchingPC :
          /\ wpc' = [wpc EXCEPT ![w] = x]
          /\ x \in {"finish", "close"} => chunks = {} /\ chunksClosed
      BY <1>0 DEF PopJob, ExitWorker, ChunksDone, Finish, CloseFound, WorkerPC, SearchingPC, PlaceInv
<1>3. wpc[w] \notin SearchingPC
      BY DEF PopJob, ExitWorker, ChunksDone, Finish, CloseFound, SearchingPC
<1>4. foundClosed' = foundClosed \/ (wpc[w] = "close" /\ foundClosed')
      BY DEF PopJob, ExitWorker, ChunksDone, Finish, CloseFound, match_vars, found_vars
<1>5. Left' = Left /\ Pushed' = Pushed /\ Active' = Active
      BY <1>1 DEF Left, Pushed, Active
<1>6. \A v \in Worker : /\ wpc'[v] \in SearchingPC <=> wpc[v] \in SearchingPC
                        /\ wpc'[v] = "push" <=> wpc[v] = "push"
                        /\ wpc'[v] \in {"finish", "close"} =>
                               chunks = {} /\ chunksClosed
      BY <1>0, <1>2, <1>3 DEF SearchingPC, PlaceInv
<1>7. \A v \in Worker : Held(v)' = Held(v)
      BY <1>1, <1>6 DEF Held
<1>8. foundClosed' => chunksClosed /\ chunks = {}
      BY <1>4 DEF PlaceInv
<1>9. foundClosed => foundClosed'
      BY <1>4
<1> QED BY <1>1, <1>5, <1>6, <1>7, <1>8, <1>9 DEF PlaceInv

LEMMA PopChunkPlace ==
    ASSUME IInv, PlaceInv, NEW w \in Worker, NEW c \in Chunk, PopChunk(w, c)
    PROVE  PlaceInv'
<1>0. wpc \in [Worker -> WorkerPC] /\ wtodo \in [Worker -> SUBSET Hit]
      BY DEF IInv, TypeOK, TypeOfWorkers
<1>1. /\ wpc[w] = "chunk" /\ c \in chunks /\ chunks' = chunks \ {c}
      /\ wtodo' = [wtodo EXCEPT ![w] = HitsOf[c]] /\ wpc' = [wpc EXCEPT ![w] = "check"]
      /\ UNCHANGED <<mpc, kind, job, unpushed, chunksClosed, found, foundClosed, delivered, exit, whit>>
      BY DEF PopChunk, match_vars, found_vars, limiter_vars
<1>2. wtodo[w] = {}
      BY <1>1 DEF PlaceInv, SearchingPC
<1>3. Pushed' = Pushed /\ Active' = Active
      BY <1>1 DEF Pushed, Active
<1>4. \A h \in Left : h \in Left' \/ h \in HitsOf[c]
      BY <1>1 DEF Left
<1>5. Held(w)' = HitsOf[c] /\ Held(w) = {}
      BY <1>0, <1>1, <1>2 DEF Held
<1>6. \A v \in Worker : v # w => Held(v)' = Held(v) /\ wpc'[v] = wpc[v] /\ wtodo'[v] = wtodo[v]
      BY <1>0, <1>1 DEF Held
<1>7. wpc'[w] = "check" /\ wtodo'[w] = HitsOf[c]
      BY <1>0, <1>1
<1>8. kind = "code" /\ job > 0 /\ exit = "none" =>
          \A h \in AllHits : h \in Left' \/ h \in Pushed \/ \E v \in Worker : h \in Held(v)'
      BY <1>4, <1>5, <1>6 DEF PlaceInv
<1> QED BY <1>1, <1>3, <1>6, <1>7, <1>8 DEF PlaceInv, SearchingPC

(* Hits are dropped only when the search is cut.                           *)
LEMMA CutPlace ==
    ASSUME IInv, PlaceInv, NEW w \in Worker, ExitEarly(w) \/ Expire(w)
    PROVE  PlaceInv'
<1>0. wpc \in [Worker -> WorkerPC] /\ wtodo \in [Worker -> SUBSET Hit]
      BY DEF IInv, TypeOK, TypeOfWorkers
<1>1. /\ exit' # "none"
      /\ wtodo' = [wtodo EXCEPT ![w] = {}] /\ wpc' = [wpc EXCEPT ![w] = "chunk"]
      /\ UNCHANGED <<mpc, kind, job, unpushed, chunks, chunksClosed, found, foundClosed, delivered, whit>>
      BY DEF ExitEarly, Expire, match_vars, job_vars, found_vars, limiter_vars
<1>2. Pushed' = Pushed /\ Active' = Active
      BY <1>1 DEF Pushed, Active
<1>3. wpc'[w] = "chunk" /\ wtodo'[w] = {}
      BY <1>0, <1>1
<1>4. \A v \in Worker : v # w => wpc'[v] = wpc[v] /\ wtodo'[v] = wtodo[v]
      BY <1>0, <1>1
<1> QED BY <1>1, <1>2, <1>3, <1>4 DEF PlaceInv, SearchingPC

(* A worker goes on searching the same chunk.                              *)
LEMMA SearchMovesPlace ==
    ASSUME IInv, PlaceInv, NEW w \in Worker,
           SeeLate(w) \/ ChunkSearched(w) \/ AddMatches(w) \/ Record(w) \/ SetLimit(w)
    PROVE  PlaceInv'
<1>0. wpc \in [Worker -> WorkerPC] /\ whit \in [Worker -> Hit \cup {NoHit}]
      BY DEF IInv, TypeOK, TypeOfWorkers
<1>1. /\ exit' = "none" => exit = "none"
      /\ UNCHANGED <<mpc, kind, job, unpushed, chunks, chunksClosed, found, foundClosed, delivered, wtodo>>
      BY DEF SeeLate, ChunkSearched, AddMatches, Record, SetLimit, match_vars, job_vars, found_vars,
             limiter_vars
<1>2. PICK x \in {"expire", "chunk", "record", "set", "check"} :
          wpc' = [wpc EXCEPT ![w] = x] /\ (x = "chunk" => wtodo[w] = {})
      BY <1>0 DEF SeeLate, ChunkSearched, AddMatches, Record, SetLimit
<1>3. wpc[w] \in {"check", "add", "record", "set"} /\ wpc'[w] = x
      BY <1>0, <1>2 DEF SeeLate, ChunkSearched, AddMatches, Record, SetLimit
<1>4. \A v \in Worker : v # w => wpc'[v] = wpc[v] /\ whit'[v] = whit[v]
      BY <1>0, <1>2 DEF SeeLate, ChunkSearched, AddMatches, Record, SetLimit
<1>5. Pushed' = Pushed /\ Active' = Active /\ Left' = Left
      BY <1>1 DEF Pushed, Active, Left
<1>6. \A v \in Worker : Held(v)' = Held(v)
      BY <1>1, <1>3, <1>4 DEF Held
<1> QED BY <1>1, <1>2, <1>3, <1>4, <1>5, <1>6 DEF PlaceInv, SearchingPC

LEMMA NextHitPlace ==
    ASSUME IInv, PlaceInv, NEW w \in Worker, NEW h \in Hit, NextHit(w, h)
    PROVE  PlaceInv'
<1>0. /\ wpc \in [Worker -> WorkerPC] /\ wtodo \in [Worker -> SUBSET Hit]
      /\ whit \in [Worker -> Hit \cup {NoHit}]
      BY DEF IInv, TypeOK, TypeOfWorkers
<1>1. /\ wpc[w] = "check" /\ h \in wtodo[w] /\ wtodo' = [wtodo EXCEPT ![w] = @ \ {h}]
      /\ UNCHANGED <<mpc, kind, job, unpushed, chunks, chunksClosed, found, foundClosed, delivered, exit>>
      BY DEF NextHit, match_vars, job_vars, found_vars, limiter_vars
<1>2. Pushed' = Pushed /\ Active' = Active /\ Left' = Left
      BY <1>1 DEF Pushed, Active, Left
<1>3. \A v \in Worker : v # w => wpc'[v] = wpc[v] /\ whit'[v] = whit[v] /\ wtodo'[v] = wtodo[v]
      BY <1>0, <1>1 DEF NextHit
<1>4. \A v \in Worker : v # w => Held(v)' = Held(v)
      BY <1>3 DEF Held
<1>5. wtodo'[w] = wtodo[w] \ {h}
      BY <1>0, <1>1
<1>6. IF h \in Dropped THEN wpc'[w] = "check" ELSE wpc'[w] = "push" /\ whit'[w] = h
      BY <1>0, <1>1 DEF NextHit
<1>7. \A g \in AllHits : g \in Held(w) => g \in Held(w)'
  <2>1. \A g \in AllHits : g \notin Dropped
        BY DEF AllHits
  <2>2. Held(w) = wtodo[w]
        BY <1>1 DEF Held
  <2>3. wtodo'[w] \subseteq Held(w)' /\ (h \notin Dropped => h \in Held(w)')
        BY <1>6 DEF Held
  <2> QED BY <1>5, <2>1, <2>2, <2>3
<1>8. h \notin Dropped => h \in AllHits
  <2>1. h \in UNION {HitsOf[c] : c \in Chunk}
        BY <1>1 DEF PlaceInv
  <2> QED BY <2>1 DEF AllHits
<1> QED BY <1>1, <1>2, <1>3, <1>4, <1>5, <1>6, <1>7, <1>8 DEF PlaceInv, SearchingPC

LEMMA PushHitPlace ==
    ASSUME IInv, PlaceInv, NEW w \in Worker, PushHit(w)
    PROVE  PlaceInv'
<1>0. wpc \in [Worker -> WorkerPC]
      BY DEF IInv, TypeOK, TypeOfWorkers
<1>1. /\ wpc[w] = "push" /\ found' = found \cup {whit[w]} /\ wpc' = [wpc EXCEPT ![w] = "add"]
      /\ UNCHANGED <<mpc, kind, job, unpushed, chunks, chunksClosed, foundClosed, delivered, exit,
                     wtodo, whit>>
      BY DEF PushHit, match_vars, job_vars, limiter_vars
<1>2. Pushed' = Pushed \cup {whit[w]} /\ Active' = Active /\ Left' = Left
      BY <1>1 DEF Pushed, Active, Left
<1>3. wpc'[w] = "add" /\ \A v \in Worker : v # w => wpc'[v] = wpc[v]
      BY <1>0, <1>1
<1>4. Held(w) = wtodo[w] \cup {whit[w]} /\ Held(w)' = wtodo[w]
      BY <1>1, <1>3 DEF Held
<1>5. \A v \in Worker : v # w => Held(v)' = Held(v)
      BY <1>1, <1>3 DEF Held
<1>6. Active
      BY <1>1, HolderMeansActive DEF IInv, BusyPC, WorkerPC
<1> QED BY <1>1, <1>2, <1>3, <1>4, <1>5, <1>6 DEF PlaceInv, SearchingPC

-----------------------------------------------------------------------------
(* OnceInv, step by step.                                                  *)

LEMMA StartMatchOnce ==
    ASSUME IInv, PlaceInv, NEW k \in {"code", "file", "tree"}, NEW m \in Limit, StartMatch(k, m)
    PROVE  OnceInv'
<1>1. \A w \in Worker : wpc[w] \in {"pop", "exited"}
      BY InactiveIdle DEF StartMatch, Active
<1>2. \A w \in Worker : wtodo[w] = {}
      BY <1>1 DEF PlaceInv, SearchingPC
<1>3. /\ chunks' = {} /\ found' = {} /\ delivered' = {}
      /\ wpc' = wpc /\ wtodo' = wtodo
      BY DEF StartMatch, worker_vars
<1>4. \A w \in Worker : Held(w)' = {}
      BY <1>1, <1>2, <1>3 DEF Held
<1> QED BY <1>1, <1>3, <1>4 DEF OnceInv, Pushed

LEMMA MatchOnce ==
    ASSUME OnceInv, (\E c \in Chunk : PushChunk(c)) \/ (\E h \in Hit : Drain(h))
    PROVE  OnceInv'
<1>1. UNCHANGED <<wpc, wtodo, whit>>
      BY DEF PushChunk, Drain, worker_vars
<1>2. \A w \in Worker : Held(w)' = Held(w)
      BY <1>1 DEF Held
<1>3. unpushed' \cup chunks' = unpushed \cup chunks /\ unpushed' \cap chunks' = {}
      BY DEF PushChunk, Drain, job_vars, OnceInv
<1>4. Pushed' = Pushed /\ found' \cap delivered' = {}
      BY DEF PushChunk, Drain, found_vars, OnceInv, Pushed
<1>5. Left' = Left
      BY <1>3 DEF Left
<1> QED BY <1>1, <1>2, <1>3, <1>4, <1>5 DEF OnceInv

LEMMA PopChunkOnce ==
    ASSUME IInv, PlaceInv, OnceInv, NEW w \in Worker, NEW c \in Chunk, PopChunk(w, c)
    PROVE  OnceInv'
<1>0. wpc \in [Worker -> WorkerPC] /\ wtodo \in [Worker -> SUBSET Hit]
      BY DEF IInv, TypeOK, TypeOfWorkers
<1>1. /\ wpc[w] = "chunk" /\ c \in chunks /\ chunks' = chunks \ {c}
      /\ wtodo' = [wtodo EXCEPT ![w] = HitsOf[c]] /\ wpc' = [wpc EXCEPT ![w] = "check"]
      /\ UNCHANGED <<unpushed, found, delivered, whit>>
      BY DEF PopChunk, match_vars, found_vars
<1>2. Pushed' = Pushed
      BY <1>1 DEF Pushed
<1>3. Left' \subseteq Left /\ HitsOf[c] \subseteq Left
      BY <1>1 DEF Left
<1>4. HitsOf[c] \cap Left' = {}
  <2>1. unpushed \subseteq Chunk /\ chunks \subseteq Chunk /\ c \notin unpushed' \cup chunks'
        BY <1>1 DEF IInv, TypeOK, TypeOfMatch, TypeOfJob, OnceInv
  <2>2. \A d \in unpushed' \cup chunks' : HitsOf[c] \cap HitsOf[d] = {}
        BY <1>1, <2>1, SearchThreadAssumption
  <2> QED BY <2>2 DEF Left
<1>5. Held(w)' = HitsOf[c] /\ wpc'[w] = "check"
      BY <1>0, <1>1 DEF Held
<1>6. \A v \in Worker : v # w => Held(v)' = Held(v) /\ wpc'[v] = wpc[v] /\ wtodo'[v] = wtodo[v]
      BY <1>0, <1>1 DEF Held
<1>7. unpushed' \cap chunks' = {} /\ found' \cap delivered' = {} /\ Left' \cap Pushed' = {}
      BY <1>1, <1>2, <1>3 DEF OnceInv
<1>8. ASSUME NEW v \in Worker
      PROVE  /\ Held(v)' \cap Left' = {} /\ Held(v)' \cap Pushed' = {}
             /\ wpc'[v] = "push" => whit'[v] \notin wtodo'[v]
             /\ v # w => Held(v)' \cap Held(w)' = {}
      BY <1>1, <1>2, <1>3, <1>4, <1>5, <1>6 DEF OnceInv
<1>9. ASSUME NEW u \in Worker, NEW v \in Worker, u # v
      PROVE  Held(u)' \cap Held(v)' = {}
      BY <1>6, <1>8, <1>9 DEF OnceInv
<1> QED BY <1>7, <1>8, <1>9 DEF OnceInv

(* A worker's share shrinks, or stays the same.                            *)
LEMMA ShrinkOnce ==
    ASSUME OnceInv, UNCHANGED <<unpushed, chunks, found, delivered>>,
           \A v \in Worker : /\ Held(v)' \subseteq Held(v)
                             /\ wpc'[v] = "push" => whit'[v] \notin wtodo'[v]
    PROVE  OnceInv'
<1>1. Left' = Left /\ Pushed' = Pushed
      BY DEF Left, Pushed
<1> QED BY <1>1 DEF OnceInv

LEMMA MovesOnce ==
    ASSUME IInv, PlaceInv, OnceInv, NEW w \in Worker,
           \/ PopJob(w) \/ ExitWorker(w) \/ ChunksDone(w) \/ Finish(w) \/ CloseFound(w)
           \/ ExitEarly(w) \/ SeeLate(w) \/ Expire(w) \/ ChunkSearched(w)
           \/ AddMatches(w) \/ Record(w) \/ SetLimit(w)
    PROVE  OnceInv'
<1>0. /\ wpc \in [Worker -> WorkerPC] /\ wtodo \in [Worker -> SUBSET Hit]
      /\ whit \in [Worker -> Hit \cup {NoHit}]
      BY DEF IInv, TypeOK, TypeOfWorkers
<1>1. UNCHANGED <<unpushed, chunks, found, delivered>>
      BY DEF PopJob, ExitWorker, ChunksDone, Finish, CloseFound, ExitEarly, SeeLate, Expire,
             ChunkSearched, AddMatches, Record, SetLimit, match_vars, job_vars, found_vars
<1>2. wtodo' = wtodo \/ wtodo' = [wtodo EXCEPT ![w] = {}]
      BY DEF PopJob, ExitWorker, ChunksDone, Finish, CloseFound, ExitEarly, SeeLate, Expire,
             ChunkSearched, AddMatches, Record, SetLimit
<1>3. PICK x \in WorkerPC \ {"push"} : wpc' = [wpc EXCEPT ![w] = x]
      BY <1>0 DEF PopJob, ExitWorker, ChunksDone, Finish, CloseFound, ExitEarly, SeeLate, Expire,
             ChunkSearched, AddMatches, Record, SetLimit, WorkerPC
<1>4. \A v \in Worker : v # w => whit'[v] = whit[v]
      BY <1>0 DEF PopJob, ExitWorker, ChunksDone, Finish, CloseFound, ExitEarly, SeeLate, Expire,
             ChunkSearched, AddMatches, Record, SetLimit
<1>5. wpc'[w] # "push" /\ \A v \in Worker : v # w => wpc'[v] = wpc[v]
      BY <1>0, <1>3
<1>6. wtodo'[w] \subseteq wtodo[w] /\ \A v \in Worker : v # w => wtodo'[v] = wtodo[v]
      BY <1>0, <1>2
<1>7. \A v \in Worker : Held(v)' \subseteq Held(v)
      BY <1>4, <1>5, <1>6 DEF Held
<1>8. \A v \in Worker : wpc'[v] = "push" => whit'[v] \notin wtodo'[v]
      BY <1>4, <1>5, <1>6 DEF OnceInv
<1> QED BY <1>1, <1>7, <1>8, ShrinkOnce

LEMMA NextHitOnce ==
    ASSUME IInv, OnceInv, NEW w \in Worker, NEW h \in Hit, NextHit(w, h)
    PROVE  OnceInv'
<1>0. /\ wpc \in [Worker -> WorkerPC] /\ wtodo \in [Worker -> SUBSET Hit]
      /\ whit \in [Worker -> Hit \cup {NoHit}]
      BY DEF IInv, TypeOK, TypeOfWorkers
<1>1. /\ wpc[w] = "check" /\ h \in wtodo[w] /\ wtodo' = [wtodo EXCEPT ![w] = @ \ {h}]
      /\ UNCHANGED <<unpushed, chunks, found, delivered>>
      BY DEF NextHit, match_vars, job_vars, found_vars
<1>2. \A v \in Worker : v # w => wpc'[v] = wpc[v] /\ whit'[v] = whit[v] /\ wtodo'[v] = wtodo[v]
      BY <1>0, <1>1 DEF NextHit
<1>3. wtodo'[w] = wtodo[w] \ {h} /\ (wpc'[w] = "push" => whit'[w] = h)
      BY <1>0, <1>1 DEF NextHit
<1>4. \A v \in Worker : Held(v)' \subseteq Held(v)
      BY <1>1, <1>2, <1>3 DEF Held
<1>5. \A v \in Worker : wpc'[v] = "push" => whit'[v] \notin wtodo'[v]
      BY <1>2, <1>3 DEF OnceInv
<1> QED BY <1>1, <1>4, <1>5, ShrinkOnce

LEMMA PushHitOnce ==
    ASSUME IInv, OnceInv, NEW w \in Worker, PushHit(w)
    PROVE  OnceInv'
<1>0. wpc \in [Worker -> WorkerPC]
      BY DEF IInv, TypeOK, TypeOfWorkers
<1>1. /\ wpc[w] = "push" /\ found' = found \cup {whit[w]} /\ wpc' = [wpc EXCEPT ![w] = "add"]
      /\ UNCHANGED <<unpushed, chunks, delivered, wtodo, whit>>
      BY DEF PushHit, match_vars, job_vars
<1>2. Pushed' = Pushed \cup {whit[w]} /\ Left' = Left
      BY <1>1 DEF Pushed, Left
<1>3. wpc'[w] = "add" /\ \A v \in Worker : v # w => wpc'[v] = wpc[v]
      BY <1>0, <1>1
<1>4. Held(w) = wtodo[w] \cup {whit[w]} /\ Held(w)' = wtodo[w] /\ whit[w] \notin wtodo[w]
      BY <1>1, <1>3 DEF Held, OnceInv
<1>5. \A v \in Worker : v # w => Held(v)' = Held(v)
      BY <1>1, <1>3 DEF Held
<1>6. whit[w] \notin Pushed /\ whit[w] \notin Left
      BY <1>4 DEF OnceInv
<1>7. \A v \in Worker : whit[w] \notin Held(v)'
      BY <1>4, <1>5 DEF OnceInv
<1>8. found' \cap delivered' = {} /\ Left' \cap Pushed' = {}
      BY <1>1, <1>2, <1>6 DEF OnceInv, Pushed
<1>9. \A v \in Worker : /\ Held(v)' \cap Left' = {} /\ Held(v)' \cap Pushed' = {}
                        /\ wpc'[v] = "push" => whit'[v] \notin wtodo'[v]
      BY <1>1, <1>2, <1>3, <1>4, <1>5, <1>7 DEF OnceInv
<1>10. \A u, v \in Worker : u # v => Held(u)' \cap Held(v)' = {}
      BY <1>4, <1>5 DEF OnceInv
<1> QED BY <1>1, <1>8, <1>9, <1>10 DEF OnceInv

-----------------------------------------------------------------------------
(* NamePlaceInv, step by step.                                             *)

LEMMA StartMatchNamePlace ==
    ASSUME IInv, NamePlaceInv, NEW k \in {"code", "file", "tree"}, NEW m \in Limit, StartMatch(k, m)
    PROVE  NamePlaceInv'
<1>1. \A n \in NameKind : npc[n] \notin {"check", "close"}
      BY NamesIdle DEF IInv, StartMatch, Draining
<1>2. /\ nfound' = [n \in NameKind |-> {}] /\ ndelivered' = [n \in NameKind |-> {}]
      /\ nfoundClosed' = [n \in NameKind |-> FALSE] /\ UNCHANGED <<npc, ntodo>>
      BY DEF StartMatch
<1> QED BY <1>1, <1>2 DEF NamePlaceInv

LEMMA DrainNamePlace ==
    ASSUME IInv, NamePlaceInv, NEW f \in nfound[NameOf], DrainName(f)
    PROVE  NamePlaceInv'
<1>0. nfound \in [NameKind -> SUBSET AnyName] /\ ndelivered \in [NameKind -> SUBSET AnyName]
      BY DEF IInv, TypeOK, TypeOfNames
<1>1. UNCHANGED <<npc, ntodo, nfoundClosed, nexit>>
      BY DEF DrainName
<1>2. \A n \in NameKind : nfound'[n] \cup ndelivered'[n] = nfound[n] \cup ndelivered[n]
      BY <1>0 DEF DrainName
<1>3. \A n \in NameKind : ntodo'[n] \cup nfound'[n] \cup ndelivered'[n]
                              = ntodo[n] \cup nfound[n] \cup ndelivered[n]
      BY <1>1, <1>2
<1> QED BY <1>1, <1>3 DEF NamePlaceInv

LEMMA NameStepPlace ==
    ASSUME IInv, NamePlaceInv, NEW k \in NameKind, NameStep(k)
    PROVE  NamePlaceInv'
<1>0. /\ nfound \in [NameKind -> SUBSET AnyName] /\ ntodo \in [NameKind -> SUBSET AnyName]
      /\ npc \in [NameKind -> NamePC] /\ nfoundClosed \in [NameKind -> BOOLEAN]
      /\ nexit \in [NameKind -> ExitReason]
      BY DEF IInv, TypeOK, TypeOfNames
<1>1. UNCHANGED ndelivered
      BY DEF NameStep, PopName, ExitName, ExpireName, NamesDone, CloseNames, MatchName
<1>2. CASE PopName(k)
  <2>1. /\ ntodo' = [ntodo EXCEPT ![k] = NameHits[k]] /\ npc' = [npc EXCEPT ![k] = "check"]
        /\ UNCHANGED <<nfound, nfoundClosed, nexit>>
        BY <1>2 DEF PopName
  <2> QED BY <1>0, <1>1, <2>1 DEF NamePlaceInv
<1>3. CASE ExitName(k) \/ CloseNames(k) \/ ExpireName(k)
  <2>1. /\ UNCHANGED <<ntodo, nfound>>
        /\ npc' = npc \/ (npc[k] # "check" /\ npc' \in {[npc EXCEPT ![k] = "pop"], [npc EXCEPT ![k] = "exited"]})
        /\ nfoundClosed' = nfoundClosed
           \/ (npc[k] = "close" /\ nfoundClosed' = [nfoundClosed EXCEPT ![k] = TRUE])
        /\ nexit' = nexit \/ nexit' = [nexit EXCEPT ![k] = "timeout"]
        BY <1>3 DEF ExitName, CloseNames, ExpireName
  <2> QED BY <1>0, <1>1, <2>1 DEF NamePlaceInv
<1>4. CASE NamesDone(k)
  <2>1. /\ npc[k] = "check" /\ (ntodo[k] = {} \/ nexit[k] # "none")
        /\ ntodo' = [ntodo EXCEPT ![k] = {}] /\ npc' = [npc EXCEPT ![k] = "close"]
        /\ UNCHANGED <<nfound, nfoundClosed, nexit>>
        BY <1>4 DEF NamesDone
  <2> QED BY <1>0, <1>1, <2>1 DEF NamePlaceInv
<1>5. ASSUME NEW f \in ntodo[k], MatchName(k, f)
      PROVE  NamePlaceInv'
  <2>1. /\ npc[k] = "check" /\ nexit[k] = "none"
        /\ ntodo' = [ntodo EXCEPT ![k] = @ \ {f}] /\ nfound' = [nfound EXCEPT ![k] = @ \cup {f}]
        /\ UNCHANGED <<npc, nfoundClosed>>
        /\ \A n \in NameKind : n # k => nexit'[n] = nexit[n]
        BY <1>0, <1>5 DEF MatchName
  <2>2. ntodo'[k] \cup nfound'[k] = ntodo[k] \cup nfound[k]
        BY <1>0, <2>1
  <2>3. \A n \in NameKind : n # k => ntodo'[n] = ntodo[n] /\ nfound'[n] = nfound[n]
        BY <1>0, <2>1
  <2>4. \A n \in NameKind : ntodo'[n] \cup nfound'[n] \cup ndelivered'[n]
                                = ntodo[n] \cup nfound[n] \cup ndelivered[n]
        BY <1>1, <2>2, <2>3
  <2>5. \A n \in NameKind : nexit'[n] = "none" => nexit[n] = "none"
        BY <2>1
  <2> QED BY <2>1, <2>3, <2>4, <2>5 DEF NamePlaceInv
<1> QED BY <1>2, <1>3, <1>4, <1>5 DEF NameStep

LEMMA NextNamesDrained ==
    ASSUME IInv, NamesDrained, Next
    PROVE  NamesDrained'
<1>1. CASE \E k \in {"code", "file", "tree"}, m \in Limit : StartMatch(k, m)
      BY <1>1 DEF StartMatch, NamesDrained
<1>2. CASE MatchStep \/ Destroy \/ Deadline
  <2>1. /\ UNCHANGED <<kind, job, nfoundClosed>>
        /\ nfound' = nfound \/ mpc' \notin {"idle", "join", "gone"}
        /\ \/ mpc' \notin {"idle", "join", "gone"}
           \/ mpc \in {"idle", "join", "gone"}
           \/ nfoundClosed[NameOf] /\ nfound[NameOf] = {}
        BY <1>2 DEF MatchStep, Destroy, Deadline, IncPending, PushJob, PushChunk, CloseChunks,
                    PushName, Drain, DrainDone, DrainName, Return, Join, match_vars, name_vars
  <2> QED BY <2>1 DEF NamesDrained, NameOf
<1>3. ASSUME NEW w \in Worker, WorkerStep(w) PROVE NamesDrained'
  <2>1. UNCHANGED <<match_vars, job, name_vars>>
        BY <1>3 DEF WorkerStep, PopJob, ExitWorker, ChunksDone, PopChunk, ExitEarly, SeeLate, Expire,
               ChunkSearched, NextHit, PushHit, AddMatches, Record, SetLimit, Finish, CloseFound
  <2> QED BY <2>1 DEF NamesDrained, NameOf, match_vars, name_vars
<1>4. ASSUME NEW k \in NameKind, NameStep(k) PROVE NamesDrained'
  <2>1. UNCHANGED <<match_vars, job>>
        BY <1>4 DEF NameStep, PopName, ExitName, ExpireName, NamesDone, CloseNames, MatchName
  <2>2. UNCHANGED <<nfound, nfoundClosed>> \/ npc[k] \in {"check", "close"}
        BY <1>4 DEF NameStep, PopName, ExitName, ExpireName, NamesDone, CloseNames, MatchName
  <2>3. npc[k] \in {"check", "close"} => mpc \notin {"idle", "join", "gone"}
        BY DEF IInv, NameInv, NameHolders, Draining
  <2> QED BY <2>1, <2>2, <2>3 DEF NamesDrained, NameOf, match_vars
<1> QED BY <1>1, <1>2, <1>3, <1>4 DEF Next, Caller

-----------------------------------------------------------------------------
(* Counting the matches in a set of lines.                                 *)

LEMMA MatchesInElement ==
    ASSUME NEW S, NEW p
    PROVE  p \in MatchesIn(S) <=> \E h \in S : p \in {h} \X (1..Weight[h])
BY DEF MatchesIn

LEMMA LineMatches ==
    ASSUME NEW h \in Hit
    PROVE  IsFiniteSet({h} \X (1..Weight[h])) /\ Cardinality({h} \X (1..Weight[h])) = Weight[h]
<1>1. Weight[h] \in Nat /\ Weight[h] > 0
      BY SearchThreadAssumption
<1>2. IsFiniteSet(1..Weight[h]) /\ Cardinality(1..Weight[h]) = Weight[h]
  <2>1. 1 \in Int /\ Weight[h] \in Int /\ ~(1 > Weight[h]) /\ Weight[h] - 1 + 1 = Weight[h]
        BY <1>1
  <2>2. /\ IsFiniteSet(1..Weight[h])
        /\ Cardinality(1..Weight[h]) = IF 1 > Weight[h] THEN 0 ELSE Weight[h] - 1 + 1
        BY <2>1, FS_Interval
  <2> QED BY <2>1, <2>2
<1>3. IsFiniteSet({h}) /\ Cardinality({h}) = 1
      BY FS_Singleton
<1>4. /\ IsFiniteSet({h} \X (1..Weight[h]))
      /\ Cardinality({h} \X (1..Weight[h])) = Cardinality({h}) * Cardinality(1..Weight[h])
      BY <1>2, <1>3, FS_Product
<1> QED BY <1>1, <1>2, <1>3, <1>4

LEMMA MatchesFinite ==
    ASSUME NEW S \in SUBSET Hit
    PROVE  IsFiniteSet(MatchesIn(S)) /\ Tally(S) \in Nat
<1> DEFINE T == {{h} \X (1..Weight[h]) : h \in S}
           f == [h \in S |-> {h} \X (1..Weight[h])]
<1>1. IsFiniteSet(S)
      BY SearchThreadAssumption, FS_Subset
<1>2. f \in Surjection(S, T)
      BY DEF Surjection
<1>3. IsFiniteSet(T)
      BY <1>1, <1>2, FS_Surjection
<1>4. \A t \in T : IsFiniteSet(t)
      BY LineMatches
<1>5. IsFiniteSet(UNION T)
      BY <1>3, <1>4, FS_UNION
<1> QED BY <1>5, FS_CardinalityType DEF MatchesIn, Tally

LEMMA TallyEmpty == Tally({}) = 0
<1>1. MatchesIn({}) = {}
      BY DEF MatchesIn
<1> QED BY <1>1, FS_EmptySet DEF Tally

LEMMA TallyAdd ==
    ASSUME NEW S \in SUBSET Hit, NEW h \in Hit, h \notin S
    PROVE  Tally(S \cup {h}) = Tally(S) + Weight[h]
<1> DEFINE L == {h} \X (1..Weight[h])
<1>1. IsFiniteSet(L) /\ Cardinality(L) = Weight[h] /\ Weight[h] \in Nat
      BY LineMatches, SearchThreadAssumption
<1>2. IsFiniteSet(MatchesIn(S)) /\ Tally(S) \in Nat
      BY MatchesFinite
<1>3. MatchesIn(S \cup {h}) = MatchesIn(S) \cup L
      BY DEF MatchesIn
<1>4. MatchesIn(S) \cap L = {}
  <2> SUFFICES ASSUME NEW p, p \in MatchesIn(S), p \in L PROVE FALSE
      OBVIOUS
  <2>1. PICK g \in S : p \in {g} \X (1..Weight[g])
        BY DEF MatchesIn
  <2>2. p[1] = g /\ p[1] = h
        BY <2>1
  <2> QED BY <2>2
<1>5. Cardinality(MatchesIn(S) \cup L)
          = Cardinality(MatchesIn(S)) + Cardinality(L) - Cardinality(MatchesIn(S) \cap L)
      BY <1>1, <1>2, FS_Union
<1>6. Cardinality(MatchesIn(S) \cap L) = 0
      BY <1>4, FS_EmptySet
<1>7. Tally(S \cup {h}) = Tally(S) + Cardinality(L) - 0
      BY <1>3, <1>5, <1>6 DEF Tally
<1> QED BY <1>1, <1>2, <1>7

-----------------------------------------------------------------------------
(* CountInv, step by step.                                                 *)

LEMMA StartMatchCount ==
    ASSUME IInv, NEW k \in {"code", "file", "tree"}, NEW m \in Limit, StartMatch(k, m)
    PROVE  CountInv'
<1>1. \A w \in Worker : wpc[w] \in {"pop", "exited"}
      BY InactiveIdle DEF StartMatch, Active
<1>2. wpc' = wpc /\ found' = {} /\ delivered' = {} /\ got' = 0 /\ matches' = 0
      BY DEF StartMatch, worker_vars
<1>3. Pushed' \ Uncounted' = {}
      BY <1>2 DEF Pushed
<1> QED BY <1>1, <1>2, <1>3, TallyEmpty DEF CountInv, Tally, MatchesIn

LEMMA DrainCount ==
    ASSUME IInv, OnceInv, CountInv, NEW h \in Hit, Drain(h)
    PROVE  CountInv'
<1>1. /\ h \in found /\ found' = found \ {h} /\ delivered' = delivered \cup {h}
      /\ got' = got + Weight[h] /\ UNCHANGED <<matches, wpc, whit>>
      BY DEF Drain, limiter_vars, worker_vars
<1>2. Pushed' = Pushed /\ Uncounted' = Uncounted
      BY <1>1 DEF Pushed, Uncounted
<1>3. delivered \in SUBSET Hit /\ h \notin delivered
      BY <1>1 DEF IInv, TypeOK, TypeOfMatch, OnceInv
<1>4. Tally(delivered') = Tally(delivered) + Weight[h]
      BY <1>1, <1>3, TallyAdd
<1>5. got' = Tally(delivered)'
      BY <1>1, <1>4 DEF CountInv, Tally, MatchesIn
<1>6. matches' = Tally(Pushed \ Uncounted)'
      BY <1>1, <1>2 DEF CountInv, Tally, MatchesIn
<1> QED BY <1>1, <1>2, <1>5, <1>6 DEF CountInv

(* The lines that are pushed but not counted yet stay the same.            *)
LEMMA SameCount ==
    ASSUME CountInv, UNCHANGED <<found, delivered, got, matches>>,
           \A v \in Worker : /\ wpc'[v] = "add" <=> wpc[v] = "add"
                             /\ wpc[v] = "add" => whit'[v] = whit[v]
    PROVE  CountInv'
<1>1. Uncounted' = Uncounted /\ Pushed' = Pushed
      BY DEF Uncounted, Pushed
<1>2. matches' = Tally(Pushed \ Uncounted)' /\ got' = Tally(delivered)'
      BY <1>1 DEF CountInv, Tally, MatchesIn
<1> QED BY <1>1, <1>2 DEF CountInv

LEMMA MovesCount ==
    ASSUME IInv, CountInv, NEW w \in Worker,
           \/ PopJob(w) \/ ExitWorker(w) \/ ChunksDone(w) \/ Finish(w) \/ CloseFound(w)
           \/ ExitEarly(w) \/ SeeLate(w) \/ Expire(w) \/ ChunkSearched(w)
           \/ Record(w) \/ SetLimit(w) \/ \E c \in Chunk : PopChunk(w, c)
    PROVE  CountInv'
<1>0. wpc \in [Worker -> WorkerPC]
      BY DEF IInv, TypeOK, TypeOfWorkers
<1>1. UNCHANGED <<found, delivered, got, matches, whit>>
      BY DEF PopJob, ExitWorker, ChunksDone, Finish, CloseFound, ExitEarly, SeeLate, Expire,
             ChunkSearched, Record, SetLimit, PopChunk, match_vars, found_vars, limiter_vars
<1>2. PICK x \in WorkerPC \ {"add"} : wpc' = [wpc EXCEPT ![w] = x]
      BY <1>0 DEF PopJob, ExitWorker, ChunksDone, Finish, CloseFound, ExitEarly, SeeLate, Expire,
             ChunkSearched, Record, SetLimit, PopChunk, WorkerPC
<1>3. wpc[w] # "add"
      BY DEF PopJob, ExitWorker, ChunksDone, Finish, CloseFound, ExitEarly, SeeLate, Expire,
             ChunkSearched, Record, SetLimit, PopChunk
<1>4. \A v \in Worker : wpc'[v] = "add" <=> wpc[v] = "add"
      BY <1>0, <1>2, <1>3
<1> QED BY <1>1, <1>4, SameCount

LEMMA NextHitCount ==
    ASSUME IInv, CountInv, NEW w \in Worker, NEW h \in Hit, NextHit(w, h)
    PROVE  CountInv'
<1>0. wpc \in [Worker -> WorkerPC] /\ whit \in [Worker -> Hit \cup {NoHit}]
      BY DEF IInv, TypeOK, TypeOfWorkers
<1>1. wpc[w] = "check" /\ UNCHANGED <<found, delivered, got, matches>>
      BY DEF NextHit, match_vars, found_vars, limiter_vars
<1>2. \A v \in Worker : v # w => wpc'[v] = wpc[v] /\ whit'[v] = whit[v]
      BY <1>0 DEF NextHit
<1>3. wpc'[w] # "add"
      BY <1>0 DEF NextHit
<1> QED BY <1>1, <1>2, <1>3, SameCount

LEMMA PushHitCount ==
    ASSUME IInv, OnceInv, CountInv, NEW w \in Worker, PushHit(w)
    PROVE  CountInv'
<1>0. wpc \in [Worker -> WorkerPC]
      BY DEF IInv, TypeOK, TypeOfWorkers
<1>1. /\ wpc[w] = "push" /\ found' = found \cup {whit[w]} /\ wpc' = [wpc EXCEPT ![w] = "add"]
      /\ UNCHANGED <<delivered, got, matches, whit>>
      BY DEF PushHit, match_vars, limiter_vars
<1>2. wpc'[w] = "add" /\ \A v \in Worker : v # w => wpc'[v] = wpc[v]
      BY <1>0, <1>1
<1>3. Pushed' = Pushed \cup {whit[w]} /\ Uncounted' = Uncounted \cup {whit[w]}
      BY <1>1, <1>2 DEF Pushed, Uncounted
<1>4. whit[w] \in Held(w)
      BY <1>1 DEF Held
<1>5. whit[w] \notin Pushed
      BY <1>4 DEF OnceInv
<1>6. Pushed' \ Uncounted' = Pushed \ Uncounted
      BY <1>3, <1>5
<1>7. matches' = Tally(Pushed \ Uncounted)' /\ got' = Tally(delivered)'
      BY <1>1, <1>6 DEF CountInv, Tally, MatchesIn
<1>8. \A v \in Worker : wpc'[v] = "add" => whit'[v] \in Pushed'
      BY <1>1, <1>2, <1>3 DEF CountInv
<1>9. \A u, v \in Worker : wpc'[u] = "add" /\ wpc'[v] = "add" /\ u # v => whit'[u] # whit'[v]
      BY <1>1, <1>2, <1>5 DEF CountInv
<1> QED BY <1>7, <1>8, <1>9 DEF CountInv

LEMMA AddMatchesCount ==
    ASSUME IInv, CountInv, NEW w \in Worker, AddMatches(w)
    PROVE  CountInv'
<1>0. wpc \in [Worker -> WorkerPC] /\ whit \in [Worker -> Hit \cup {NoHit}]
      BY DEF IInv, TypeOK, TypeOfWorkers
<1>1. /\ wpc[w] = "add" /\ matches' = matches + Weight[whit[w]]
      /\ whit' = [whit EXCEPT ![w] = NoHit] /\ wpc' = [wpc EXCEPT ![w] = "record"]
      /\ UNCHANGED <<found, delivered, got>>
      BY DEF AddMatches, match_vars, found_vars
<1>2. wpc'[w] # "add" /\ \A v \in Worker : v # w => wpc'[v] = wpc[v] /\ whit'[v] = whit[v]
      BY <1>0, <1>1
<1>3. whit[w] \in Hit /\ whit[w] \in Pushed /\ whit[w] \in Uncounted
      BY <1>1 DEF IInv, HitInHand, CountInv, Uncounted
<1>4. Pushed' = Pushed
      BY <1>1 DEF Pushed
<1>5. Uncounted' = Uncounted \ {whit[w]}
      BY <1>1, <1>2 DEF Uncounted, CountInv
<1>6. Pushed' \ Uncounted' = (Pushed \ Uncounted) \cup {whit[w]}
      BY <1>3, <1>4, <1>5
<1>7. Pushed \ Uncounted \in SUBSET Hit
      BY DEF Pushed, IInv, TypeOK, TypeOfMatch, TypeOfJob
<1>8. Tally((Pushed \ Uncounted) \cup {whit[w]}) = Tally(Pushed \ Uncounted) + Weight[whit[w]]
      BY <1>3, <1>7, TallyAdd
<1>9. matches' = Tally(Pushed \ Uncounted)' /\ got' = Tally(delivered)'
      BY <1>1, <1>6, <1>8 DEF CountInv, Tally, MatchesIn
<1>10. \A v \in Worker : wpc'[v] = "add" => whit'[v] \in Pushed'
      BY <1>2, <1>4 DEF CountInv
<1>11. \A u, v \in Worker : wpc'[u] = "add" /\ wpc'[v] = "add" /\ u # v => whit'[u] # whit'[v]
      BY <1>2 DEF CountInv
<1> QED BY <1>9, <1>10, <1>11 DEF CountInv

-----------------------------------------------------------------------------
(* LimitInv, step by step.                                                 *)

LEMMA StartMatchLimit ==
    ASSUME IInv, NEW k \in {"code", "file", "tree"}, NEW m \in Limit, StartMatch(k, m)
    PROVE  LimitInv'
<1>1. \A w \in Worker : wpc[w] \in {"pop", "exited"}
      BY InactiveIdle DEF StartMatch, Active
<1>2. /\ wpc' = wpc /\ matches' = 0 /\ exit' = "none" /\ max' = m
      /\ mpc' \notin {"idle", "join", "gone"}
      BY DEF StartMatch, worker_vars
<1>3. m \in Nat
      BY SearchThreadAssumption
<1> QED BY <1>1, <1>2, <1>3 DEF LimitInv

(* Only Return leaves match().                                             *)
LEMMA MatchLimit ==
    ASSUME IInv, LimitInv, MatchStep \/ Destroy \/ Deadline
    PROVE  LimitInv'
<1>1. /\ UNCHANGED <<kind, job, max, matches, exit, wpc, wcnt, nexit>>
      /\ late => late'
      BY DEF MatchStep, Destroy, Deadline, IncPending, PushJob, PushChunk, CloseChunks, PushName,
             Drain, DrainDone, DrainName, Return, Join, match_vars, limiter_vars, worker_vars,
             name_vars
<1>2. \/ mpc' \notin {"idle", "join", "gone"}
      \/ mpc \in {"idle", "join", "gone"} /\ why' = why
      \/ why' = IF kind = "code" THEN exit ELSE nexit[NameOf]
      BY DEF MatchStep, Destroy, Deadline, IncPending, PushJob, PushChunk, CloseChunks, PushName,
             Drain, DrainDone, DrainName, Return, Join, match_vars, Live
<1> QED BY <1>1, <1>2 DEF LimitInv, SawLimit, NameOf

LEMMA NameLimit ==
    ASSUME IInv, LimitInv, NEW k \in NameKind, NameStep(k)
    PROVE  LimitInv'
<1>1. UNCHANGED <<mpc, kind, job, max, why, late, matches, exit, wpc, wcnt>>
      BY DEF NameStep, PopName, ExitName, ExpireName, NamesDone, CloseNames, MatchName, match_vars,
             limiter_vars, worker_vars
<1>2. nexit' = nexit \/ npc[k] = "check"
      BY DEF NameStep, PopName, ExitName, ExpireName, NamesDone, CloseNames, MatchName
<1>3. npc[k] = "check" => mpc \notin {"idle", "join", "gone"}
      BY DEF IInv, NameInv, NameHolders, Draining
<1> QED BY <1>1, <1>2, <1>3 DEF LimitInv, SawLimit, NameOf

(* A worker that neither counts nor cuts.                                  *)
LEMMA MovesLimit ==
    ASSUME IInv, LimitInv, NEW w \in Worker,
           \/ PopJob(w) \/ ExitWorker(w) \/ ChunksDone(w) \/ Finish(w) \/ CloseFound(w)
           \/ ExitEarly(w) \/ SeeLate(w) \/ ChunkSearched(w) \/ PushHit(w)
           \/ (\E c \in Chunk : PopChunk(w, c)) \/ \E h \in Hit : NextHit(w, h)
    PROVE  LimitInv'
<1>0. wpc \in [Worker -> WorkerPC]
      BY DEF IInv, TypeOK, TypeOfWorkers
<1>1. UNCHANGED <<mpc, kind, job, max, why, late, matches, exit, wcnt, nexit>>
      BY DEF PopJob, ExitWorker, ChunksDone, Finish, CloseFound, ExitEarly, SeeLate, ChunkSearched,
             PushHit, PopChunk, NextHit, match_vars, limiter_vars, name_vars
<1>2. wpc[w] \notin {"record", "set"}
      BY DEF PopJob, ExitWorker, ChunksDone, Finish, CloseFound, ExitEarly, SeeLate, ChunkSearched,
             PushHit, PopChunk, NextHit
<1>3. PICK x \in WorkerPC \ {"record", "set"} :
          wpc' = [wpc EXCEPT ![w] = x] /\ (x = "expire" => late)
      BY <1>0 DEF PopJob, ExitWorker, ChunksDone, Finish, CloseFound, ExitEarly, SeeLate,
                  ChunkSearched, PushHit, PopChunk, NextHit, WorkerPC
<1>4. wpc'[w] = x /\ \A v \in Worker : v # w => wpc'[v] = wpc[v]
      BY <1>0, <1>3
<1>5. \A v \in Worker : SawLimit(v) => SawLimit(v)'
      BY <1>1, <1>2, <1>4 DEF SawLimit
<1> QED BY <1>1, <1>3, <1>4, <1>5 DEF LimitInv, NameOf

(* The worker that brings the count to the limit has seen it.              *)
LEMMA AddMatchesLimit ==
    ASSUME IInv, LimitInv, NEW w \in Worker, AddMatches(w)
    PROVE  LimitInv'
<1>0. /\ wpc \in [Worker -> WorkerPC] /\ wcnt \in [Worker -> Nat]
      /\ matches \in Nat /\ max \in Nat
      BY SearchThreadAssumption DEF IInv, TypeOK, TypeOfWorkers, TypeOfJob, TypeOfMatch
<1>1. /\ wpc[w] = "add" /\ matches' = matches + Weight[whit[w]]
      /\ wcnt' = [wcnt EXCEPT ![w] = matches'] /\ wpc' = [wpc EXCEPT ![w] = "record"]
      /\ UNCHANGED <<mpc, kind, job, max, why, late, exit, nexit>>
      BY DEF AddMatches, match_vars, name_vars
<1>2. whit[w] \in Hit
      BY <1>1 DEF IInv, HitInHand
<1>3. Weight[whit[w]] \in Nat
      BY <1>2, SearchThreadAssumption
<1>4. matches' >= matches /\ matches' \in Nat
      BY <1>0, <1>1, <1>3
<1>5. wpc'[w] = "record" /\ wcnt'[w] = matches'
      BY <1>0, <1>1
<1>6. \A v \in Worker : v # w => wpc'[v] = wpc[v] /\ wcnt'[v] = wcnt[v]
      BY <1>0, <1>1
<1>7. \A v \in Worker : /\ wpc'[v] = "record" => wcnt'[v] <= matches'
                        /\ wpc'[v] = "set" => max > 0 /\ matches' >= max
                        /\ wpc'[v] = "expire" => late
      BY <1>0, <1>4, <1>5, <1>6 DEF LimitInv
<1>8. matches' >= max' => SawLimit(w)'
      BY <1>1, <1>5 DEF SawLimit
<1> QED BY <1>0, <1>1, <1>4, <1>7, <1>8 DEF LimitInv, NameOf

LEMMA RecordLimit ==
    ASSUME IInv, LimitInv, NEW w \in Worker, Record(w)
    PROVE  LimitInv'
<1>0. /\ wpc \in [Worker -> WorkerPC] /\ wcnt \in [Worker -> Nat]
      /\ matches \in Nat /\ max \in Nat
      BY SearchThreadAssumption DEF IInv, TypeOK, TypeOfWorkers, TypeOfJob, TypeOfMatch
<1>1. /\ wpc[w] = "record" /\ wcnt' = [wcnt EXCEPT ![w] = 0]
      /\ UNCHANGED <<mpc, kind, job, max, why, late, matches, exit, nexit>>
      BY DEF Record, match_vars, limiter_vars, name_vars
<1>2. wpc'[w] = (IF exit = "none" /\ LimitReached(wcnt[w]) THEN "set" ELSE "check")
      BY <1>0 DEF Record
<1>3. \A v \in Worker : v # w => wpc'[v] = wpc[v] /\ wcnt'[v] = wcnt[v]
      BY <1>0, <1>1 DEF Record
<1>4. wpc'[w] = "set" => max > 0 /\ matches >= max
      BY <1>0, <1>1, <1>2 DEF LimitReached, LimitInv
<1>5. \A v \in Worker : exit = "none" /\ max > 0 /\ SawLimit(v) => SawLimit(v)'
      BY <1>0, <1>1, <1>2, <1>3 DEF SawLimit, LimitReached
<1>6. wpc'[w] \in {"set", "check"}
      BY <1>2
<1> QED BY <1>0, <1>1, <1>3, <1>4, <1>5, <1>6 DEF LimitInv, NameOf

LEMMA CutLimit ==
    ASSUME IInv, LimitInv, NEW w \in Worker, SetLimit(w) \/ Expire(w)
    PROVE  LimitInv'
<1>0. wpc \in [Worker -> WorkerPC]
      BY DEF IInv, TypeOK, TypeOfWorkers
<1>1. UNCHANGED <<mpc, kind, job, max, why, late, matches, wcnt, nexit>>
      BY DEF SetLimit, Expire, match_vars, name_vars
<1>2. exit' # "none" /\ (exit' = "match_limit" => max > 0 /\ matches >= max) /\ (exit' = "timeout" => late)
      BY DEF SetLimit, Expire, LimitInv
<1>3. wpc'[w] \in {"check", "chunk"} /\ \A v \in Worker : v # w => wpc'[v] = wpc[v]
      BY <1>0 DEF SetLimit, Expire
<1>4. mpc \notin {"idle", "join", "gone"}
  <2>1. wpc[w] \in BusyPC
        BY DEF SetLimit, Expire, BusyPC, WorkerPC
  <2> QED BY <2>1, HolderMeansActive DEF IInv, Live
<1> QED BY <1>1, <1>2, <1>3, <1>4 DEF LimitInv

-----------------------------------------------------------------------------
(* OvershootInv, step by step.                                             *)

LEMMA CountsFinite ==
    ASSUME IInv
    PROVE  /\ IsFiniteSet(Pushed) /\ Cardinality(Pushed) \in Nat
           /\ IsFiniteSet(Owing) /\ Cardinality(Owing) \in Nat
           /\ IsFiniteSet(Pushing) /\ Cardinality(Pushing) \in Nat
           /\ matches \in Nat /\ max \in Nat /\ NumThreads \in Nat
<1>1. Pushed \in SUBSET Hit /\ Owing \in SUBSET Worker /\ Pushing \in SUBSET Worker
      BY DEF Pushed, Owing, Pushing, IInv, TypeOK, TypeOfMatch, TypeOfJob
<1>2. IsFiniteSet(Pushed) /\ IsFiniteSet(Owing) /\ IsFiniteSet(Pushing)
      BY <1>1, SearchThreadAssumption, FS_Subset
<1>3. matches \in Nat /\ max \in Nat
      BY SearchThreadAssumption DEF IInv, TypeOK, TypeOfMatch, TypeOfJob
<1> QED BY <1>2, <1>3, ThreadsPositive, FS_CardinalityType

(* The owing and the pushing workers are different ones.                   *)
LEMMA OweOrPush ==
    ASSUME IInv
    PROVE  Cardinality(Owing) + Cardinality(Pushing) <= NumThreads
<1>1. Owing \cap Pushing = {}
      BY DEF Owing, Pushing, SawLimit
<1>2. Owing \cup Pushing \in SUBSET Worker
      BY DEF Owing, Pushing
<1>3. Cardinality(Owing \cup Pushing)
          = Cardinality(Owing) + Cardinality(Pushing) - Cardinality(Owing \cap Pushing)
      BY CountsFinite, FS_Union
<1>4. Cardinality(Owing \cap Pushing) = 0
      BY <1>1, FS_EmptySet
<1>5. Cardinality(Owing \cup Pushing) <= NumThreads
      BY <1>2, SearchThreadAssumption, FS_Subset DEF NumThreads
<1> QED BY <1>3, <1>4, <1>5, CountsFinite

LEMMA StartMatchOvershoot ==
    ASSUME IInv, NEW k \in {"code", "file", "tree"}, NEW m \in Limit, StartMatch(k, m)
    PROVE  OvershootInv'
<1>1. \A w \in Worker : wpc[w] \in {"pop", "exited"}
      BY InactiveIdle DEF StartMatch, Active
<1>2. /\ wpc' = wpc /\ found' = {} /\ delivered' = {} /\ matches' = 0 /\ exit' = "none" /\ max' = m
      BY DEF StartMatch, worker_vars
<1>3. Pushed' = {} /\ Owing' = {}
      BY <1>1, <1>2 DEF Pushed, Owing, SawLimit
<1>4. m \in Nat
      BY SearchThreadAssumption
<1>5. Cardinality(Pushed') = 0 /\ Cardinality(Owing') = 0
      BY <1>3, FS_EmptySet
<1> QED BY <1>2, <1>4, <1>5 DEF OvershootInv

LEMMA DrainOvershoot ==
    ASSUME OvershootInv, NEW h \in Hit, Drain(h)
    PROVE  OvershootInv'
<1>1. Pushed' = Pushed
      BY DEF Drain, Pushed
<1>2. UNCHANGED <<max, matches, exit, wpc, wcnt>>
      BY DEF Drain, limiter_vars, worker_vars
<1>3. Owing' = Owing /\ Pushing' = Pushing
      BY <1>2 DEF Owing, Pushing, SawLimit
<1> QED BY <1>1, <1>2, <1>3 DEF OvershootInv

(* Neither the lines nor the workers that owe or push change.              *)
LEMMA SameOvershoot ==
    ASSUME OvershootInv, UNCHANGED <<max, matches, exit, found, delivered>>,
           \A v \in Worker : /\ (wpc[v] = "add" \/ SawLimit(v))' <=> (wpc[v] = "add" \/ SawLimit(v))
                             /\ wpc'[v] = "push" <=> wpc[v] = "push"
    PROVE  OvershootInv'
<1>1. Owing' = Owing /\ Pushing' = Pushing /\ Pushed' = Pushed
      BY DEF Owing, Pushing, Pushed
<1> QED BY <1>1 DEF OvershootInv

LEMMA MovesOvershoot ==
    ASSUME IInv, OvershootInv, NEW w \in Worker,
           \/ PopJob(w) \/ ExitWorker(w) \/ ChunksDone(w) \/ Finish(w) \/ CloseFound(w)
           \/ ExitEarly(w) \/ SeeLate(w) \/ ChunkSearched(w) \/ \E c \in Chunk : PopChunk(w, c)
    PROVE  OvershootInv'
<1>0. wpc \in [Worker -> WorkerPC]
      BY DEF IInv, TypeOK, TypeOfWorkers
<1>1. UNCHANGED <<max, matches, exit, found, delivered, wcnt>>
      BY DEF PopJob, ExitWorker, ChunksDone, Finish, CloseFound, ExitEarly, SeeLate, ChunkSearched,
             PopChunk, match_vars, limiter_vars, found_vars
<1>2. wpc[w] \notin {"add", "record", "set", "push"}
      BY DEF PopJob, ExitWorker, ChunksDone, Finish, CloseFound, ExitEarly, SeeLate, ChunkSearched,
             PopChunk
<1>3. PICK x \in WorkerPC \ {"add", "record", "set", "push"} : wpc' = [wpc EXCEPT ![w] = x]
      BY <1>0 DEF PopJob, ExitWorker, ChunksDone, Finish, CloseFound, ExitEarly, SeeLate,
                  ChunkSearched, PopChunk, WorkerPC
<1>4. wpc'[w] = x /\ \A v \in Worker : v # w => wpc'[v] = wpc[v]
      BY <1>0, <1>3
<1>5. \A v \in Worker : /\ (wpc[v] = "add" \/ SawLimit(v))' <=> (wpc[v] = "add" \/ SawLimit(v))
                        /\ wpc'[v] = "push" <=> wpc[v] = "push"
      BY <1>1, <1>2, <1>3, <1>4 DEF SawLimit
<1> QED BY <1>1, <1>5, SameOvershoot

(* A new line is taken only while the search is not cut.                   *)
LEMMA NextHitOvershoot ==
    ASSUME IInv, OvershootInv, NEW w \in Worker, NEW h \in Hit, NextHit(w, h)
    PROVE  OvershootInv'
<1>0. wpc \in [Worker -> WorkerPC]
      BY DEF IInv, TypeOK, TypeOfWorkers
<1>1. /\ exit = "none" /\ wpc[w] = "check"
      /\ UNCHANGED <<max, matches, exit, found, delivered, wcnt>>
      BY DEF NextHit, match_vars, limiter_vars, found_vars
<1>2. wpc'[w] \in {"check", "push"} /\ \A v \in Worker : v # w => wpc'[v] = wpc[v]
      BY <1>0 DEF NextHit
<1>3. Owing' = Owing /\ Pushed' = Pushed
      BY <1>1, <1>2 DEF Owing, Pushed, SawLimit
<1> QED BY <1>1, <1>3 DEF OvershootInv

LEMMA PushHitOvershoot ==
    ASSUME IInv, OvershootInv, NEW w \in Worker, PushHit(w)
    PROVE  OvershootInv'
<1>0. wpc \in [Worker -> WorkerPC]
      BY DEF IInv, TypeOK, TypeOfWorkers
<1>1. /\ wpc[w] = "push" /\ found' = found \cup {whit[w]} /\ wpc' = [wpc EXCEPT ![w] = "add"]
      /\ UNCHANGED <<max, matches, exit, delivered, wcnt>>
      BY DEF PushHit, match_vars, limiter_vars
<1>2. wpc'[w] = "add" /\ \A v \in Worker : v # w => wpc'[v] = wpc[v]
      BY <1>0, <1>1
<1>3. Pushed' = Pushed \cup {whit[w]}
      BY <1>1 DEF Pushed
<1>4. Cardinality(Pushed') \in Nat /\ Cardinality(Pushed') <= Cardinality(Pushed) + 1
  <2>1. IsFiniteSet(Pushed) /\ Cardinality(Pushed) \in Nat
        BY CountsFinite
  <2>2. Cardinality(Pushed \cup {whit[w]}) =
            IF whit[w] \in Pushed THEN Cardinality(Pushed) ELSE Cardinality(Pushed) + 1
        BY <2>1, FS_AddElement
  <2> QED BY <1>3, <2>1, <2>2
<1>5. Owing' = Owing \cup {w} /\ w \notin Owing
      BY <1>1, <1>2 DEF Owing, SawLimit
<1>6. Cardinality(Owing') = Cardinality(Owing) + 1
      BY <1>5, CountsFinite, FS_AddElement
<1>7. Pushing' = Pushing \ {w} /\ w \in Pushing
      BY <1>1, <1>2 DEF Pushing
<1>8. Cardinality(Pushing') = Cardinality(Pushing) - 1
      BY <1>7, CountsFinite, FS_RemoveElement
<1> QED BY <1>1, <1>4, <1>6, <1>8, CountsFinite DEF OvershootInv

(***************************************************************************)
(* The line is counted; below the limit this pays for the worker's debt,   *)
(* at the limit the worker owes the exit reason instead.                   *)
(***************************************************************************)
LEMMA AddMatchesOvershoot ==
    ASSUME IInv, OvershootInv, NEW w \in Worker, AddMatches(w)
    PROVE  OvershootInv'
<1>0. wpc \in [Worker -> WorkerPC] /\ wcnt \in [Worker -> Nat]
      BY DEF IInv, TypeOK, TypeOfWorkers
<1>1. /\ wpc[w] = "add" /\ matches' = matches + Weight[whit[w]]
      /\ wcnt' = [wcnt EXCEPT ![w] = matches'] /\ wpc' = [wpc EXCEPT ![w] = "record"]
      /\ UNCHANGED <<max, exit, found, delivered>>
      BY DEF AddMatches, match_vars, found_vars
<1>2. /\ wpc'[w] = "record" /\ wcnt'[w] = matches'
      /\ \A v \in Worker : v # w => wpc'[v] = wpc[v] /\ wcnt'[v] = wcnt[v]
      BY <1>0, <1>1
<1>3. Weight[whit[w]] \in Nat /\ Weight[whit[w]] >= 1
      BY <1>1, SearchThreadAssumption DEF IInv, HitInHand
<1>4. Pushed' = Pushed /\ Pushing' = Pushing
      BY <1>1, <1>2 DEF Pushed, Pushing
<1>5. w \in Owing
      BY <1>1 DEF Owing
<1>6. CASE matches' >= max
  <2>1. Owing' = Owing
        BY <1>1, <1>2, <1>6 DEF Owing, SawLimit
  <2> QED BY <1>1, <1>3, <1>4, <2>1, CountsFinite DEF OvershootInv
<1>7. CASE ~(matches' >= max)
  <2>1. Owing' = Owing \ {w}
        BY <1>1, <1>2, <1>7 DEF Owing, SawLimit
  <2>2. Cardinality(Owing') = Cardinality(Owing) - 1
        BY <1>5, <2>1, CountsFinite, FS_RemoveElement
  <2>3. matches' >= matches + 1 /\ matches' <= max - 1 /\ matches' \in Nat
        BY <1>1, <1>3, <1>7, CountsFinite
  <2> QED BY <1>1, <1>4, <2>2, <2>3, CountsFinite DEF OvershootInv
<1> QED BY <1>6, <1>7

LEMMA RecordOvershoot ==
    ASSUME IInv, OvershootInv, NEW w \in Worker, Record(w)
    PROVE  OvershootInv'
<1>0. wpc \in [Worker -> WorkerPC] /\ wcnt \in [Worker -> Nat]
      BY DEF IInv, TypeOK, TypeOfWorkers
<1>1. /\ wpc[w] = "record" /\ wcnt' = [wcnt EXCEPT ![w] = 0]
      /\ UNCHANGED <<max, matches, exit, found, delivered>>
      BY DEF Record, match_vars, limiter_vars, found_vars
<1>2. wpc'[w] = (IF exit = "none" /\ LimitReached(wcnt[w]) THEN "set" ELSE "check")
      BY <1>0 DEF Record
<1>3. \A v \in Worker : v # w => wpc'[v] = wpc[v] /\ wcnt'[v] = wcnt[v]
      BY <1>0, <1>1 DEF Record
<1>4. Pushed' = Pushed /\ Pushing' = Pushing
      BY <1>1, <1>2, <1>3 DEF Pushed, Pushing
<1>5. exit = "none" /\ max > 0 => Owing' = Owing
      BY <1>1, <1>2, <1>3, CountsFinite DEF Owing, SawLimit, LimitReached
<1> QED BY <1>1, <1>4, <1>5 DEF OvershootInv

LEMMA CutOvershoot ==
    ASSUME IInv, OvershootInv, NEW w \in Worker, SetLimit(w) \/ Expire(w)
    PROVE  OvershootInv'
<1>0. wpc \in [Worker -> WorkerPC]
      BY DEF IInv, TypeOK, TypeOfWorkers
<1>1. exit' # "none" /\ UNCHANGED <<max, matches, found, delivered>>
      BY DEF SetLimit, Expire, match_vars, found_vars
<1>2. /\ wpc[w] \in {"set", "expire"} /\ wpc'[w] \in {"check", "chunk"}
      /\ \A v \in Worker : v # w => wpc'[v] = wpc[v]
      BY <1>0 DEF SetLimit, Expire
<1>3. Pushed' = Pushed /\ Pushing' = Pushing
      BY <1>1, <1>2 DEF Pushed, Pushing
<1> QED BY <1>1, <1>3, CountsFinite, OweOrPush DEF OvershootInv

-----------------------------------------------------------------------------
(* The whole invariant.                                                    *)

ResultInv ==
    /\ PlaceInv /\ OnceInv /\ NamePlaceInv
    /\ CountInv /\ LimitInv /\ OvershootInv

FullInv == IInv /\ ResultInv /\ NamesDrained

LEMMA InitResultInv == Init => ResultInv
<1> SUFFICES ASSUME Init PROVE ResultInv
    OBVIOUS
<1>1. /\ mpc = "idle" /\ job = 0 /\ kind = "code" /\ max = 0 /\ unpushed = {} /\ chunks = {}
      /\ chunksClosed = FALSE /\ found = {} /\ foundClosed = FALSE /\ delivered = {} /\ got = 0
      /\ matches = 0 /\ exit = "none"
      BY DEF Init
<1>2. \A w \in Worker : wpc[w] = "pop" /\ wtodo[w] = {}
      BY DEF Init
<1>3. \A k \in NameKind : /\ npc[k] = "pop" /\ ntodo[k] = {} /\ nfound[k] = {} /\ ndelivered[k] = {}
                          /\ ~nfoundClosed[k]
      BY DEF Init
<1>4. Left = {} /\ Pushed = {} /\ \A w \in Worker : Held(w) = {}
      BY <1>1, <1>2 DEF Left, Pushed, Held
<1>5. PlaceInv /\ OnceInv
      BY <1>1, <1>2, <1>4 DEF PlaceInv, OnceInv
<1>6. NamePlaceInv
      BY <1>3 DEF NamePlaceInv
<1>7. CountInv
  <2>1. Pushed \ Uncounted = {}
        BY <1>4
  <2> QED BY <1>1, <1>2, <2>1, TallyEmpty DEF CountInv
<1>8. LimitInv /\ OvershootInv
      BY <1>1, <1>2 DEF LimitInv, OvershootInv
<1> QED BY <1>5, <1>6, <1>7, <1>8 DEF ResultInv

LEMMA MatchKeepsResults ==
    ASSUME IInv, ResultInv, Caller \/ MatchStep \/ Deadline
    PROVE  ResultInv'
<1> USE DEF ResultInv
<1>1. ASSUME NEW k \in {"code", "file", "tree"}, NEW m \in Limit, StartMatch(k, m)
      PROVE  ResultInv'
      BY <1>1, StartMatchPlace, StartMatchOnce, StartMatchNamePlace, StartMatchCount, StartMatchLimit,
         StartMatchOvershoot
<1>2. ASSUME MatchStep \/ Destroy \/ Deadline
      PROVE  ResultInv'
  <2>1. LimitInv'
        BY <1>2, MatchLimit
  <2>2. CASE Deadline \/ \E f \in nfound[NameOf] : DrainName(f)
    <3>1. UNCHANGED <<place_vars, got, matches, max, wcnt>>
          BY <2>2 DEF Deadline, DrainName, place_vars, match_vars, job_vars, found_vars, limiter_vars,
                      worker_vars
    <3>2. PlaceInv' /\ OnceInv' /\ CountInv' /\ OvershootInv'
          BY <3>1, PlaceFrame, OnceFrame, CountFrame, OvershootFrame DEF place_vars
    <3>3. CASE Deadline
      <4>1. UNCHANGED <<npc, ntodo, nfound, nfoundClosed, ndelivered, nexit>>
            BY <3>3 DEF Deadline, name_vars
      <4> QED BY <2>1, <3>2, <4>1, NamePlaceFrame
    <3>4. ASSUME NEW f \in nfound[NameOf], DrainName(f) PROVE ResultInv'
          BY <2>1, <3>2, <3>4, DrainNamePlace
    <3> QED BY <2>2, <3>3, <3>4
  <2>3. CASE \/ IncPending \/ PushJob \/ CloseChunks \/ PushName \/ DrainDone \/ Return \/ Join \/ Destroy
             \/ (\E c \in Chunk : PushChunk(c)) \/ \E h \in Hit : Drain(h)
    <3>1. UNCHANGED <<npc, ntodo, nfound, nfoundClosed, ndelivered, nexit>>
          BY <2>3 DEF IncPending, PushJob, CloseChunks, PushName, DrainDone, Return, Join, Destroy,
                      PushChunk, Drain, name_vars
    <3>2. NamePlaceInv'
          BY <3>1, NamePlaceFrame
    <3>3. ASSUME NEW h \in Hit, Drain(h) PROVE ResultInv'
          BY <2>1, <3>2, <3>3, DrainPlace, MatchOnce, DrainCount, DrainOvershoot
    <3>4. CASE \/ IncPending \/ PushJob \/ CloseChunks \/ PushName \/ DrainDone \/ Return \/ Join
               \/ Destroy \/ \E c \in Chunk : PushChunk(c)
      <4>1. UNCHANGED <<found, delivered, got, matches, max, exit, wpc, wtodo, whit, wcnt>>
            BY <3>4 DEF IncPending, PushJob, CloseChunks, PushName, DrainDone, Return, Join, Destroy,
                        PushChunk, found_vars, limiter_vars, worker_vars
      <4>2. CountInv' /\ OvershootInv'
            BY <4>1, CountFrame, OvershootFrame
      <4>3. PlaceInv'
            BY <3>4, CloseChunksPlace, MatchMovesPlace, PushChunkPlace
      <4>4. OnceInv'
        <5>1. CASE \E c \in Chunk : PushChunk(c)
              BY <5>1, MatchOnce
        <5>2. CASE \/ IncPending \/ PushJob \/ CloseChunks \/ PushName \/ DrainDone \/ Return \/ Join
                   \/ Destroy
          <6>1. UNCHANGED <<unpushed, chunks>>
                BY <5>2 DEF IncPending, PushJob, CloseChunks, PushName, DrainDone, Return, Join,
                            Destroy, job_vars
          <6> QED BY <4>1, <6>1, OnceFrame
        <5> QED BY <3>4, <5>1, <5>2
      <4> QED BY <2>1, <3>2, <4>2, <4>3, <4>4
    <3> QED BY <2>3, <3>3, <3>4
  <2> QED BY <1>2, <2>2, <2>3 DEF MatchStep
<1> QED BY <1>1, <1>2 DEF Caller

LEMMA WorkerKeepsResults ==
    ASSUME IInv, ResultInv, NEW w \in Worker, WorkerStep(w)
    PROVE  ResultInv'
<1> USE DEF ResultInv
<1>1. NamePlaceInv'
  <2>1. UNCHANGED <<name_vars, ndelivered>>
        BY DEF WorkerStep, PopJob, ExitWorker, ChunksDone, PopChunk, ExitEarly, SeeLate, Expire,
               ChunkSearched, NextHit, PushHit, AddMatches, Record, SetLimit, Finish, CloseFound
  <2> QED BY <2>1, NamePlaceFrame DEF name_vars
<1>2. CASE PopJob(w) \/ ExitWorker(w) \/ ChunksDone(w) \/ Finish(w) \/ CloseFound(w)
      BY <1>1, <1>2, IdleMovesPlace, MovesOnce, MovesCount, MovesLimit, MovesOvershoot
<1>3. ASSUME NEW c \in Chunk, PopChunk(w, c) PROVE ResultInv'
      BY <1>1, <1>3, PopChunkPlace, PopChunkOnce, MovesCount, MovesLimit, MovesOvershoot
<1>4. CASE ExitEarly(w)
      BY <1>1, <1>4, CutPlace, MovesOnce, MovesCount, MovesLimit, MovesOvershoot
<1>5. CASE Expire(w)
      BY <1>1, <1>5, CutPlace, MovesOnce, MovesCount, CutLimit, CutOvershoot
<1>6. CASE SeeLate(w) \/ ChunkSearched(w)
      BY <1>1, <1>6, SearchMovesPlace, MovesOnce, MovesCount, MovesLimit, MovesOvershoot
<1>7. ASSUME NEW h \in Hit, NextHit(w, h) PROVE ResultInv'
      BY <1>1, <1>7, NextHitPlace, NextHitOnce, NextHitCount, MovesLimit, NextHitOvershoot
<1>8. CASE PushHit(w)
      BY <1>1, <1>8, PushHitPlace, PushHitOnce, PushHitCount, MovesLimit, PushHitOvershoot
<1>9. CASE AddMatches(w)
      BY <1>1, <1>9, SearchMovesPlace, MovesOnce, AddMatchesCount, AddMatchesLimit, AddMatchesOvershoot
<1>10. CASE Record(w)
      BY <1>1, <1>10, SearchMovesPlace, MovesOnce, MovesCount, RecordLimit, RecordOvershoot
<1>11. CASE SetLimit(w)
      BY <1>1, <1>11, SearchMovesPlace, MovesOnce, MovesCount, CutLimit, CutOvershoot
<1> QED BY <1>2, <1>3, <1>4, <1>5, <1>6, <1>7, <1>8, <1>9, <1>10, <1>11 DEF WorkerStep

LEMMA NameKeepsResults ==
    ASSUME IInv, ResultInv, NEW k \in NameKind, NameStep(k)
    PROVE  ResultInv'
<1>1. UNCHANGED <<match_vars, job, job_vars, found_vars, limiter_vars, worker_vars>>
      BY DEF NameStep, PopName, ExitName, ExpireName, NamesDone, CloseNames, MatchName
<1>2. PlaceInv' /\ OnceInv' /\ CountInv' /\ OvershootInv'
      BY <1>1, PlaceFrame, OnceFrame, CountFrame, OvershootFrame
         DEF ResultInv, place_vars, match_vars, job_vars, found_vars, limiter_vars, worker_vars
<1> QED BY <1>2, NameStepPlace, NameLimit DEF ResultInv

(***************************************************************************)
(* ResultInv is inductive together with IInv.                              *)
(***************************************************************************)
LEMMA NextResultInv == IInv /\ ResultInv /\ [Next]_vars => ResultInv'
<1> SUFFICES ASSUME IInv, ResultInv, [Next]_vars PROVE ResultInv'
    OBVIOUS
<1>1. CASE Next
      BY <1>1, MatchKeepsResults, WorkerKeepsResults, NameKeepsResults DEF Next
<1>2. CASE UNCHANGED vars
  <2>1. UNCHANGED <<match_vars, job, job_vars, found_vars, limiter_vars, late, worker_vars, name_vars,
                    ndelivered>>
        BY <1>2 DEF vars
  <2>2. PlaceInv' /\ OnceInv' /\ CountInv' /\ OvershootInv'
        BY <2>1, PlaceFrame, OnceFrame, CountFrame, OvershootFrame
           DEF ResultInv, place_vars, match_vars, job_vars, found_vars, limiter_vars, worker_vars
  <2>3. NamePlaceInv' /\ LimitInv'
        BY <2>1, NamePlaceFrame, LimitFrame
           DEF ResultInv, match_vars, limiter_vars, worker_vars, name_vars
  <2> QED BY <2>2, <2>3 DEF ResultInv
<1> QED BY <1>1, <1>2

LEMMA SpecFullInv == Spec => []FullInv
<1>1. Init => FullInv
  <2>1. Init => NamesDrained
        BY DEF Init, NamesDrained
  <2> QED BY <2>1, InitIInv, InitResultInv DEF FullInv
<1>2. FullInv /\ [Next]_vars => FullInv'
  <2> SUFFICES ASSUME FullInv, [Next]_vars PROVE FullInv'
      OBVIOUS
  <2>1. IInv' /\ ResultInv'
        BY NextIInv, NextResultInv DEF FullInv
  <2>2. NamesDrained'
    <3>1. CASE Next
          BY <3>1, NextNamesDrained DEF FullInv
    <3>2. CASE UNCHANGED vars
          BY <3>2 DEF FullInv, NamesDrained, NameOf, vars, match_vars, name_vars
    <3> QED BY <3>1, <3>2
  <2> QED BY <2>1, <2>2 DEF FullInv
<1> QED BY <1>1, <1>2, PTL DEF Spec

-----------------------------------------------------------------------------
(* What the invariant says of a search that is over.                       *)

LEMMA CodeDone ==
    ASSUME IInv, ResultInv, kind = "code", job > 0, mpc \in {"drainname", "idle", "join", "gone"}
    PROVE  /\ found = {} /\ \A w \in Worker : wpc[w] \in {"pop", "exited"}
           /\ exit = "none" => delivered = AllHits
<1>1. ~Active
      BY DEF Active
<1>2. \A w \in Worker : wpc[w] \in {"pop", "exited"}
      BY <1>1, InactiveIdle
<1>3. found = {} /\ foundClosed
      BY <1>1 DEF ResultInv, PlaceInv
<1>4. unpushed = {} /\ chunks = {}
      BY <1>3 DEF ResultInv, PlaceInv
<1>5. Left = {} /\ \A w \in Worker : Held(w) = {}
      BY <1>2, <1>4 DEF Left, Held, ResultInv, PlaceInv, SearchingPC
<1>6. Pushed = delivered
      BY <1>3 DEF Pushed
<1> QED BY <1>2, <1>3, <1>5, <1>6 DEF ResultInv, PlaceInv

LEMMA NamesComplete ==
    ASSUME IInv, ResultInv, nfoundClosed[NameOf], nfound[NameOf] = {}, nexit[NameOf] = "none"
    PROVE  ndelivered[NameOf] = NameHits[NameOf]
<1>1. NameOf \in NameKind
      BY DEF NameOf, NameKind
<1>2. npc[NameOf] # "check"
      BY <1>1 DEF IInv, NameInv, NameHolders
<1> QED BY <1>1, <1>2 DEF ResultInv, NamePlaceInv

(* Nothing is pushed that is not counted when the workers have finished.   *)
LEMMA AllCounted ==
    ASSUME IInv, ResultInv, job > 0, mpc \in {"idle", "join", "gone"}
    PROVE  got = matches
<1>1. ~Active
      BY DEF Active
<1>2. \A w \in Worker : wpc[w] \in {"pop", "exited"}
      BY <1>1, InactiveIdle
<1>3. found = {}
      BY <1>1 DEF ResultInv, PlaceInv
<1>4. Pushed \ Uncounted = delivered
      BY <1>2, <1>3 DEF Pushed, Uncounted
<1> QED BY <1>4 DEF ResultInv, CountInv

(***************************************************************************)
(* ReasonTrue for any instance.  kExitNone means that every line, or every *)
(* name, was passed to the callback, whichever worker found it; a search   *)
(* that delivered as many matches as its limit does not report kExitNone;  *)
(* and match_limit and timeout are reported only for a limit that was      *)
(* reached and a deadline that had passed, although the workers write      *)
(* exit_reason_ without a lock.                                            *)
(***************************************************************************)
THEOREM ReasonIsTrue == Spec => []ReasonTrue
<1>1. FullInv => ReasonTrue
  <2> SUFFICES ASSUME FullInv PROVE ReasonTrue
      OBVIOUS
  <2> USE DEF FullInv
  <2>1. Returned => why = IF kind = "code" THEN exit ELSE nexit[NameOf]
        BY DEF Returned, ResultInv, LimitInv
  <2>2. CompleteUnlessCut
    <3> SUFFICES ASSUME Returned, why = "none"
                 PROVE  IF kind = "code" THEN delivered = AllHits
                        ELSE ndelivered[NameOf] = NameHits[NameOf]
        BY DEF CompleteUnlessCut
    <3>1. CASE kind = "code"
          BY <2>1, <3>1, CodeDone DEF Returned
    <3>2. CASE kind # "code"
          BY <2>1, <3>2, NamesComplete DEF Returned, NamesDrained
    <3> QED BY <3>1, <3>2
  <2>3. LimitNoticed
    <3> SUFFICES ASSUME Returned, kind = "code", max > 0, got >= max, why = "none"
                 PROVE  FALSE
        BY DEF LimitNoticed
    <3>1. \A w \in Worker : wpc[w] \in {"pop", "exited"}
          BY CodeDone DEF Returned
    <3>2. matches >= max /\ exit = "none"
          BY <2>1, AllCounted DEF Returned
    <3> QED BY <3>1, <3>2 DEF ResultInv, LimitInv, SawLimit
  <2>4. WhyJustified
        BY <2>1 DEF WhyJustified, ResultInv, LimitInv
  <2> QED BY <2>2, <2>3, <2>4 DEF ReasonTrue
<1> QED BY <1>1, SpecFullInv, PTL

(***************************************************************************)
(* LimitKept for any instance: stats->matches is what the limiter counted, *)
(* and with a limit of m match() delivers at most m - 1 lines and one more *)
(* for each worker.                                                        *)
(***************************************************************************)
THEOREM LimitIsKept == Spec => []LimitKept
<1>1. FullInv => LimitKept
  <2> SUFFICES ASSUME FullInv PROVE LimitKept
      OBVIOUS
  <2> USE DEF FullInv
  <2>1. CountsAgree
        BY AllCounted DEF CountsAgree, Returned
  <2>2. LimitOvershoot
    <3> SUFFICES ASSUME max > 0
                 PROVE  Cardinality(delivered) <= max - 1 + NumThreads
        BY DEF LimitOvershoot
    <3>1. Cardinality(delivered) \in Nat /\ Cardinality(delivered) <= Cardinality(Pushed)
      <4>1. delivered \in SUBSET Pushed
            BY DEF Pushed
      <4>2. IsFiniteSet(delivered) /\ Cardinality(delivered) <= Cardinality(Pushed)
            BY <4>1, CountsFinite, FS_Subset
      <4> QED BY <4>2, FS_CardinalityType
    <3> QED BY <3>1, CountsFinite, OweOrPush DEF ResultInv, OvershootInv
  <2> QED BY <2>1, <2>2 DEF LimitKept
<1> QED BY <1>1, SpecFullInv, PTL

-----------------------------------------------------------------------------
(* SearchThread implements Match.                                          *)

(* What the callback has been given, as Match sees it.                     *)
Out == IF kind = "code" THEN delivered ELSE ndelivered[NameOf]

(* What a search of kind k ought to find.                                  *)
Wanted == [k \in {"code", "file", "tree"} |-> IF k = "code" THEN AllHits ELSE NameHits[k]]

(* A step that changes nothing Match can see.                              *)
LEMMA HiddenStep ==
    ASSUME UNCHANGED <<kind, delivered, ndelivered, why>>, Live' = Live
    PROVE  UNCHANGED Promise!vars
BY DEF Promise!vars, NameOf

LEMMA PromiseCall ==
    ASSUME NEW k \in {"code", "file", "tree"}, NEW m \in Limit, StartMatch(k, m)
    PROVE  Promise!Next
<1>1. ~Live /\ Live' /\ kind' = k /\ why' = "none" /\ Out' = {}
      BY DEF StartMatch, Live, Out, NameOf, NameKind
<1>2. Promise!Call(k)
      BY <1>1 DEF Promise!Call, Out
<1>3. k \in DOMAIN Wanted
      BY DEF Wanted
<1> QED BY <1>2, <1>3 DEF Promise!Next, Wanted

(* A hit popped from search.queue_ is a match not delivered before.        *)
LEMMA PromiseDrain ==
    ASSUME IInv, ResultInv, NEW h \in Hit, Drain(h)
    PROVE  Promise!Next
<1>1. kind = "code" /\ Live /\ Live' /\ UNCHANGED <<kind, why>>
      BY DEF Drain, Live, IInv, WorkerInv, CodeOnly
<1>2. h \in AllHits \ delivered
      BY DEF Drain, ResultInv, PlaceInv, OnceInv, Pushed
<1>3. Wanted[kind] = AllHits /\ Out = delivered /\ Out' = delivered \cup {h}
      BY <1>1 DEF Wanted, Out, Drain
<1>4. Promise!Deliver(h)
      BY <1>1, <1>2, <1>3 DEF Promise!Deliver, Wanted, Out
<1> QED BY <1>4 DEF Promise!Next

(* A name is delivered by a search of names, and hidden by a search of     *)
(* code.                                                                   *)
LEMMA PromiseDrainName ==
    ASSUME IInv, ResultInv, NEW f \in nfound[NameOf], DrainName(f)
    PROVE  [Promise!Next]_(Promise!vars)
<1>1. Live /\ Live' /\ UNCHANGED <<kind, why, delivered>>
      BY DEF DrainName, Live, match_vars
<1>2. NameOf \in NameKind /\ NameOf' = NameOf
      BY <1>1 DEF NameOf, NameKind
<1>3. f \in NameHits[NameOf] /\ f \in AnyName
      BY <1>2 DEF ResultInv, NamePlaceInv, AnyName
<1>4. ndelivered'[NameOf] = ndelivered[NameOf] \cup {f}
      BY <1>2 DEF DrainName, IInv, TypeOK, TypeOfNames
<1>5. CASE kind = "code" \/ f \in ndelivered[NameOf]
      BY <1>1, <1>2, <1>4, <1>5 DEF Promise!vars
<1>6. CASE kind # "code" /\ f \notin ndelivered[NameOf]
  <2>1. Wanted[kind] = NameHits[NameOf] /\ kind \in {"file", "tree"}
        BY <1>6 DEF Wanted, NameOf, IInv, TypeOK, TypeOfMatch
  <2>2. Out = ndelivered[NameOf] /\ Out' = Out \cup {f}
        BY <1>1, <1>2, <1>4, <1>6 DEF Out
  <2>3. Promise!Deliver(f)
        BY <1>1, <1>3, <1>6, <2>1, <2>2 DEF Promise!Deliver, Wanted, Out
  <2> QED BY <1>3, <2>3 DEF Promise!Next
<1> QED BY <1>5, <1>6

(* match() returns with kExitNone only when it has delivered everything.   *)
LEMMA PromiseReturn ==
    ASSUME IInv, ResultInv, Return, job > 0
    PROVE  Promise!Next
<1>1. Live /\ ~Live' /\ UNCHANGED <<kind, delivered, ndelivered>>
      BY DEF Return, Live
<1>2. why' \in ExitReason /\ kind \in {"code", "file", "tree"} /\ NameOf \in NameKind
      BY DEF Return, IInv, TypeOK, TypeOfMatch, TypeOfJob, TypeOfNames, NameOf, NameKind
<1>3. why' = "none" => Out = Wanted[kind]
  <2> SUFFICES ASSUME why' = "none" PROVE Out = Wanted[kind]
      OBVIOUS
  <2>1. CASE kind = "code"
        BY <2>1, CodeDone DEF Return, Out, Wanted
  <2>2. CASE kind # "code"
    <3>1. ndelivered[NameOf] = NameHits[NameOf]
          BY <2>2, NamesComplete DEF Return
    <3> QED BY <1>2, <2>2, <3>1 DEF Out, Wanted, NameOf
  <2> QED BY <2>1, <2>2
<1>4. Out' = Out
      BY <1>1 DEF Out, NameOf
<1>5. Promise!ReturnWith(why')
      BY <1>1, <1>3, <1>4 DEF Promise!ReturnWith, Out, Wanted
<1> QED BY <1>2, <1>5 DEF Promise!Next, ExitReason

(***************************************************************************)
(* search_thread implements Match, for any instance: whatever the workers, *)
(* the name searchers, the limiter and the clock do, the caller of match() *)
(* sees matching results, each once, and then a reason that is kExitNone   *)
(* only when nothing is missing.                                           *)
(***************************************************************************)
THEOREM ImplementsMatch == Spec => KeepsPromise
<1>1. Init => Promise!Init
  <2> SUFFICES ASSUME Init PROVE Promise!Init
      OBVIOUS
  <2>1. Live = FALSE /\ kind \in DOMAIN Wanted /\ Out = {} /\ why = "none"
        BY DEF Init, Live, Wanted, Out
  <2> QED BY <2>1 DEF Promise!Init, Wanted, Out
<1>2. FullInv /\ [Next]_vars => [Promise!Next]_(Promise!vars)
  <2> SUFFICES ASSUME FullInv, [Next]_vars PROVE [Promise!Next]_(Promise!vars)
      OBVIOUS
  <2> USE DEF FullInv
  <2>1. ASSUME NEW k \in {"code", "file", "tree"}, NEW m \in Limit, StartMatch(k, m)
        PROVE  Promise!Next
        BY <2>1, PromiseCall
  <2>2. ASSUME NEW h \in Hit, Drain(h) PROVE Promise!Next
        BY <2>2, PromiseDrain
  <2>3. ASSUME NEW f \in nfound[NameOf], DrainName(f) PROVE [Promise!Next]_(Promise!vars)
        BY <2>3, PromiseDrainName
  <2>4. CASE Return
    <3>1. job > 0
          BY <2>4 DEF Return, IInv, WorkerInv, JobNumbered, Live
    <3> QED BY <2>4, <3>1, PromiseReturn
  <2>5. CASE \/ Destroy \/ IncPending \/ PushJob \/ CloseChunks \/ PushName \/ DrainDone \/ Join
             \/ Deadline \/ \E c \in Chunk : PushChunk(c)
    <3>1. UNCHANGED <<kind, delivered, ndelivered, why>> /\ Live' = Live
          BY <2>5 DEF Destroy, IncPending, PushJob, CloseChunks, PushName, DrainDone, Join, Deadline,
                      PushChunk, match_vars, Live
    <3> QED BY <3>1, HiddenStep
  <2>6. CASE \/ \E w \in Worker : WorkerStep(w)
             \/ \E k \in NameKind : NameStep(k)
             \/ UNCHANGED vars
    <3>1. UNCHANGED <<match_vars, ndelivered>>
          BY <2>6 DEF WorkerStep, PopJob, ExitWorker, ChunksDone, PopChunk, ExitEarly, SeeLate, Expire,
                      ChunkSearched, NextHit, PushHit, AddMatches, Record, SetLimit, Finish, CloseFound,
                      NameStep, PopName, ExitName, ExpireName, NamesDone, CloseNames, MatchName, vars
    <3>2. UNCHANGED <<kind, delivered, ndelivered, why>> /\ Live' = Live
          BY <3>1 DEF match_vars, Live
    <3> QED BY <3>2, HiddenStep
  <2> QED BY <2>1, <2>2, <2>3, <2>4, <2>5, <2>6 DEF Next, Caller, MatchStep
<1>3. Spec => []FullInv
      BY SpecFullInv
<1> QED BY <1>1, <1>2, <1>3, PTL DEF Spec, KeepsPromise, Promise!Spec
=============================================================================
