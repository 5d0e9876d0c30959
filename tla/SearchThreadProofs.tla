-------------------------- MODULE SearchThreadProofs --------------------------
(***************************************************************************)
(* Proofs about SearchThread, for any number of workers, chunks, hits and  *)
(* calls of match().                                                       *)
(*                                                                         *)
(* JobOutlivesUse is not inductive: that no worker holds a job when        *)
(* match() returns follows from a count (PendingCounts: j.pending is the   *)
(* number of workers and queue entries that still hold the job), from who  *)
(* may close search.queue_ (OneCloser, ClosedMeansDone) and from the order *)
(* in which match() posts, closes and drains.                              *)
(***************************************************************************)
EXTENDS SearchThread, TLAPS, FiniteSetTheorems

BusyPC == WorkerPC \ {"pop", "exited", "close"}

(* The workers that hold the job and have not yet decremented j.pending.   *)
Busy == {w \in Worker : wpc[w] \in BusyPC}

(* match() has posted, or is posting, the job to queue_ and may get hits.  *)
Active == kind = "code" /\ mpc \in {"inc", "push", "chunks", "pushname", "drain"}

Posting == IF mpc = "push" THEN 1 ELSE 0

-----------------------------------------------------------------------------
(* The parts of the inductive invariant.                                   *)

HitInHand == \A w \in Worker : wpc[w] \in {"push", "add"} => whit[w] \in Hit

JobNumbered == Live => job > 0

PendingCounts ==
    /\ job > 0 => pending = Cardinality(Busy) + queue[job] + Posting
    /\ job = 0 => pending = 0 /\ Busy = {}
    /\ \A j \in Job : j # job => queue[j] = 0

PostedBounds ==
    /\ pending <= posted + Posting
    /\ mpc \in {"inc", "push"} => posted < NumThreads

HoldersHoldJob == \A w \in Worker : wpc[w] \in BusyPC \cup {"close"} => wjob[w] = job

InactiveMeansDone ==
    ~Active => pending = 0 /\ \A w \in Worker : wpc[w] # "close"

OneCloser ==
    \A w \in Worker : wpc[w] = "close" =>
        /\ pending = 0 /\ ~foundClosed
        /\ \A v \in Worker : wpc[v] = "close" => v = w

ClosedMeansDone ==
    Active /\ foundClosed =>
        chunksClosed /\ pending = 0 /\ \A w \in Worker : wpc[w] # "close"

FinishAfterClose ==
    /\ \A w \in Worker : wpc[w] \in {"finish", "close"} => chunksClosed
    /\ mpc \in {"inc", "push", "chunks"} => ~chunksClosed

CodeOnly == mpc \in {"inc", "push", "chunks", "drain"} => kind = "code"

WorkerInv ==
    /\ JobNumbered
    /\ PendingCounts
    /\ PostedBounds
    /\ HoldersHoldJob
    /\ InactiveMeansDone
    /\ OneCloser
    /\ ClosedMeansDone
    /\ FinishAfterClose
    /\ CodeOnly

Draining == mpc \in {"drain", "drainname"}

NameHolders ==
    \A k \in NameKind : npc[k] \in {"check", "close"} =>
        /\ Draining /\ njob[k] = job /\ k = NameOf
        /\ ~nfoundClosed[k] /\ nqueue[k][job] = 0

NameQueued ==
    \A k \in NameKind : \A j \in Job : nqueue[k][j] > 0 =>
        Draining /\ j = job /\ k = NameOf /\ ~nfoundClosed[k]

NamesOpen == Live /\ ~Draining => \A k \in NameKind : ~nfoundClosed[k]

NameInv == NameHolders /\ NameQueued /\ NamesOpen

IInv == TypeOK /\ HitInHand /\ WorkerInv /\ NameInv

-----------------------------------------------------------------------------
(* Counting the busy workers.                                              *)

LEMMA ThreadsPositive == NumThreads \in Nat /\ NumThreads > 0
BY SearchThreadAssumption, FS_CardinalityType, FS_EmptySet DEF NumThreads

LEMMA BusyFinite == IsFiniteSet(Busy) /\ Cardinality(Busy) \in Nat
<1>1. Busy \subseteq Worker
      BY DEF Busy
<1> QED BY <1>1, SearchThreadAssumption, FS_Subset, FS_CardinalityType

(* pending is 0 exactly when nobody holds the job and nothing is queued.   *)
LEMMA NonePending ==
    ASSUME TypeOK, WorkerInv, pending = 0
    PROVE  Busy = {} /\ mpc # "push" /\ \A j \in Job : queue[j] = 0
<1>1. CASE job = 0
      BY <1>1 DEF WorkerInv, PendingCounts, JobNumbered, Live, Job
<1>2. CASE job > 0
  <2>1. queue[job] \in Nat
        BY <1>2, ThreadsPositive, SearchThreadAssumption DEF TypeOK, TypeOfJob, TypeOfMatch, Job
  <2>2. Cardinality(Busy) = 0 /\ queue[job] = 0 /\ mpc # "push"
        BY <1>2, <2>1, BusyFinite DEF WorkerInv, PendingCounts, Posting
  <2> QED BY <2>2, BusyFinite, FS_EmptySet DEF WorkerInv, PendingCounts
<1> QED BY <1>1, <1>2, SearchThreadAssumption DEF TypeOK, TypeOfMatch

(* A busy worker, or a closing one, means that match() is still waiting.   *)
LEMMA HolderMeansActive ==
    ASSUME TypeOK, WorkerInv, NEW w \in Worker, wpc[w] \in BusyPC \cup {"close"}
    PROVE  Active /\ Live /\ job > 0 /\ job \in Job
<1>1. Active
  <2>1. CASE wpc[w] = "close"
        BY <2>1 DEF WorkerInv, InactiveMeansDone
  <2>2. CASE wpc[w] \in BusyPC
    <3>1. Busy # {}
          BY <2>2 DEF Busy
    <3> QED BY <3>1, NonePending DEF WorkerInv, InactiveMeansDone
  <2> QED BY <2>1, <2>2
<1>2. Live
      BY <1>1 DEF Active, Live
<1> QED BY <1>1, <1>2, SearchThreadAssumption DEF WorkerInv, JobNumbered, TypeOK, TypeOfMatch, Job

-----------------------------------------------------------------------------
(* WorkerInv, step by step.                                                *)

LEMMA WorkerFrame ==
    ASSUME WorkerInv,
           UNCHANGED <<mpc, kind, job, posted, pending, queue, wpc, wjob, chunksClosed,
                       foundClosed>>
    PROVE  WorkerInv'
BY DEF WorkerInv, JobNumbered, PendingCounts, PostedBounds, HoldersHoldJob, Busy,
       InactiveMeansDone, OneCloser, ClosedMeansDone, FinishAfterClose, CodeOnly,
       Active, Live, Posting

(* A worker goes on with its search.                                       *)
LEMMA BusyMove ==
    ASSUME TypeOK, WorkerInv, NEW w \in Worker, wpc[w] \in BusyPC,
           NEW x \in BusyPC, x = "finish" => chunksClosed,
           wpc' = [wpc EXCEPT ![w] = x],
           UNCHANGED <<mpc, kind, job, posted, pending, queue, wjob, chunksClosed,
                       foundClosed>>
    PROVE  WorkerInv'
<1> wpc \in [Worker -> WorkerPC]
    BY DEF TypeOK, TypeOfWorkers
<1>1. Busy' = Busy
      BY DEF Busy
<1>2. \A v \in Worker : (wpc'[v] = "close") <=> (wpc[v] = "close")
      BY DEF BusyPC
<1>3. JobNumbered' /\ PendingCounts' /\ PostedBounds' /\ CodeOnly'
      BY <1>1 DEF WorkerInv, JobNumbered, PendingCounts, PostedBounds, CodeOnly, Live, Posting
<1>4. HoldersHoldJob'
      BY DEF WorkerInv, HoldersHoldJob
<1>5. InactiveMeansDone' /\ OneCloser' /\ ClosedMeansDone'
      BY <1>2 DEF WorkerInv, InactiveMeansDone, OneCloser, ClosedMeansDone, Active
<1>6. FinishAfterClose'
      BY DEF WorkerInv, FinishAfterClose, BusyPC
<1> QED BY <1>3, <1>4, <1>5, <1>6 DEF WorkerInv

LEMMA StartMatchWorker ==
    ASSUME TypeOK, WorkerInv, NEW k \in {"code", "file", "tree"}, NEW m \in Limit,
           StartMatch(k, m)
    PROVE  WorkerInv'
<1>1. pending = 0 /\ \A w \in Worker : wpc[w] # "close"
      BY DEF WorkerInv, InactiveMeansDone, Active, StartMatch
<1>2. Busy = {} /\ \A j \in Job : queue[j] = 0
      BY <1>1, NonePending
<1>3. /\ mpc' \in {"inc", "pushname"} /\ (mpc' = "inc" => kind' = "code")
      /\ job' = job + 1 /\ job' \in Job
      /\ posted' = 0 /\ pending' = 0 /\ queue' = queue /\ wpc' = wpc /\ wjob' = wjob
      /\ chunksClosed' = FALSE /\ foundClosed' = FALSE
      BY SearchThreadAssumption DEF StartMatch, worker_vars, TypeOK, TypeOfMatch, Job
<1>4. Busy' = {} /\ Posting' = 0
      BY <1>2, <1>3 DEF Busy, Posting
<1>5. \A w \in Worker : wpc'[w] \notin BusyPC \cup {"close"}
      BY <1>1, <1>2, <1>3 DEF Busy
<1>6. PendingCounts'
      BY <1>2, <1>3, <1>4, FS_EmptySet DEF PendingCounts, Job
<1>7. PostedBounds' /\ JobNumbered'
      BY <1>3, <1>4, ThreadsPositive DEF PostedBounds, JobNumbered, Job
<1>8. HoldersHoldJob' /\ InactiveMeansDone' /\ OneCloser' /\ ClosedMeansDone'
      BY <1>3, <1>5 DEF HoldersHoldJob, InactiveMeansDone, OneCloser, ClosedMeansDone
<1>9. FinishAfterClose' /\ CodeOnly'
      BY <1>3, <1>5 DEF FinishAfterClose, CodeOnly, BusyPC, WorkerPC
<1> QED BY <1>6, <1>7, <1>8, <1>9 DEF WorkerInv

LEMMA IncPendingWorker ==
    ASSUME TypeOK, WorkerInv, IncPending
    PROVE  WorkerInv'
<1>1. /\ mpc = "inc" /\ mpc' = "push" /\ pending' = pending + 1 /\ kind = "code"
      /\ UNCHANGED <<kind, job, posted, queue, wpc, wjob, chunksClosed, foundClosed>>
      BY DEF IncPending, worker_vars, found_vars, WorkerInv, CodeOnly
<1>2. job > 0 /\ job \in Nat
      BY <1>1 DEF WorkerInv, JobNumbered, Live, TypeOK, TypeOfMatch
<1>3. ~chunksClosed /\ ~foundClosed /\ \A w \in Worker : wpc[w] \notin {"close", "finish"}
      BY <1>1 DEF WorkerInv, FinishAfterClose, ClosedMeansDone, Active
<1>4. Busy' = Busy /\ Posting = 0 /\ Posting' = 1
      BY <1>1 DEF Busy, Posting
<1>5. PendingCounts'
  <2>1. queue[job] \in Nat
        BY <1>2, ThreadsPositive DEF TypeOK, TypeOfMatch, TypeOfJob, Job
  <2> QED BY <1>1, <1>2, <1>4, <2>1, BusyFinite DEF WorkerInv, PendingCounts
<1>6. PostedBounds' /\ JobNumbered' /\ CodeOnly'
      BY <1>1, <1>2, <1>4, ThreadsPositive
         DEF WorkerInv, PostedBounds, JobNumbered, CodeOnly, TypeOK, TypeOfJob, TypeOfMatch
<1>7. HoldersHoldJob' /\ InactiveMeansDone' /\ OneCloser' /\ ClosedMeansDone' /\ FinishAfterClose'
      BY <1>1, <1>3 DEF WorkerInv, HoldersHoldJob, InactiveMeansDone, OneCloser, Active,
                        ClosedMeansDone, FinishAfterClose
<1> QED BY <1>5, <1>6, <1>7 DEF WorkerInv

LEMMA PushJobWorker ==
    ASSUME TypeOK, WorkerInv, PushJob
    PROVE  WorkerInv'
<1>1. /\ mpc = "push" /\ mpc' \in {"inc", "chunks"} /\ kind = "code"
      /\ (mpc' = "inc" => posted + 1 < NumThreads)
      /\ posted' = posted + 1 /\ queue' = [queue EXCEPT ![job] = @ + 1]
      /\ UNCHANGED <<kind, job, pending, wpc, wjob, chunksClosed, foundClosed>>
      BY DEF PushJob, MoreToPost, worker_vars, found_vars, job_vars, WorkerInv, CodeOnly
<1>2. job > 0 /\ job \in Job
      BY <1>1, SearchThreadAssumption DEF WorkerInv, JobNumbered, Live, TypeOK, TypeOfMatch, Job
<1>3. ~chunksClosed /\ ~foundClosed /\ \A w \in Worker : wpc[w] \notin {"close", "finish"}
      BY <1>1 DEF WorkerInv, FinishAfterClose, ClosedMeansDone, Active
<1>4. Busy' = Busy /\ Posting = 1 /\ Posting' = 0
      BY <1>1 DEF Busy, Posting
<1>5. PendingCounts'
  <2>1. queue[job] \in Nat /\ queue'[job] = queue[job] + 1
        BY <1>1, <1>2, ThreadsPositive DEF TypeOK, TypeOfJob
  <2>2. \A j \in Job : j # job => queue'[j] = queue[j]
        BY <1>1 DEF TypeOK, TypeOfJob
  <2> QED BY <1>1, <1>2, <1>4, <2>1, <2>2, BusyFinite DEF WorkerInv, PendingCounts
<1>6. PostedBounds' /\ JobNumbered' /\ CodeOnly'
      BY <1>1, <1>2, <1>4, ThreadsPositive
         DEF WorkerInv, PostedBounds, JobNumbered, CodeOnly, TypeOK, TypeOfJob, TypeOfMatch
<1>7. HoldersHoldJob' /\ InactiveMeansDone' /\ OneCloser' /\ ClosedMeansDone' /\ FinishAfterClose'
      BY <1>1, <1>3 DEF WorkerInv, HoldersHoldJob, InactiveMeansDone, OneCloser, Active,
                        ClosedMeansDone, FinishAfterClose
<1> QED BY <1>5, <1>6, <1>7 DEF WorkerInv

(* match() moves on without touching the workers: the chunks are closed,   *)
(* or the name search is posted.                                           *)
LEMMA MovesOnWorker ==
    ASSUME TypeOK, WorkerInv, CloseChunks \/ PushName
    PROVE  WorkerInv'
<1>1. /\ mpc \in {"chunks", "pushname"}
      /\ mpc = "chunks" => mpc' = "pushname" /\ chunksClosed' = TRUE
      /\ mpc = "pushname" => chunksClosed' = chunksClosed
                            /\ mpc' = (IF kind = "code" THEN "drain" ELSE "drainname")
      /\ UNCHANGED <<kind, job, posted, pending, queue, wpc, wjob, foundClosed>>
      BY DEF CloseChunks, PushName, worker_vars, found_vars, job_vars
<1>2. Busy' = Busy /\ Posting' = Posting /\ mpc' \notin {"inc", "push", "chunks"}
      BY <1>1 DEF Busy, Posting
<1>3. Active' = Active
      BY <1>1 DEF Active, WorkerInv, CodeOnly
<1>4. JobNumbered' /\ PendingCounts' /\ PostedBounds' /\ CodeOnly'
      BY <1>1, <1>2 DEF WorkerInv, JobNumbered, PendingCounts, PostedBounds, CodeOnly, Live
<1>5. HoldersHoldJob' /\ InactiveMeansDone' /\ OneCloser'
      BY <1>1, <1>3 DEF WorkerInv, HoldersHoldJob, InactiveMeansDone, OneCloser
<1>6. ClosedMeansDone' /\ FinishAfterClose'
      BY <1>1, <1>2, <1>3 DEF WorkerInv, ClosedMeansDone, FinishAfterClose
<1> QED BY <1>4, <1>5, <1>6 DEF WorkerInv

(* search.queue_ is drained and closed: nobody holds the job any more.     *)
LEMMA DrainDoneWorker ==
    ASSUME TypeOK, WorkerInv, DrainDone
    PROVE  WorkerInv'
<1>1. /\ mpc = "drain" /\ mpc' = "drainname" /\ foundClosed
      /\ UNCHANGED <<kind, job, posted, pending, queue, wpc, wjob, chunksClosed, foundClosed>>
      BY DEF DrainDone, worker_vars, found_vars, job_vars
<1>2. Active
      BY <1>1 DEF WorkerInv, CodeOnly, Active
<1>3. pending = 0 /\ \A w \in Worker : wpc[w] # "close"
      BY <1>1, <1>2 DEF WorkerInv, ClosedMeansDone
<1>4. Busy' = Busy /\ Posting' = Posting
      BY <1>1 DEF Busy, Posting
<1>5. JobNumbered' /\ PendingCounts' /\ PostedBounds' /\ CodeOnly'
      BY <1>1, <1>4 DEF WorkerInv, JobNumbered, PendingCounts, PostedBounds, CodeOnly, Live
<1>6. HoldersHoldJob' /\ InactiveMeansDone' /\ OneCloser'
      BY <1>1, <1>3 DEF WorkerInv, HoldersHoldJob, InactiveMeansDone, OneCloser
<1>7. ClosedMeansDone' /\ FinishAfterClose'
      BY <1>1 DEF WorkerInv, ClosedMeansDone, FinishAfterClose, Active
<1> QED BY <1>5, <1>6, <1>7 DEF WorkerInv

(* match() returns, or the search_thread is destroyed.                     *)
LEMMA LeavesWorker ==
    ASSUME TypeOK, WorkerInv, Return \/ Destroy \/ Join
    PROVE  WorkerInv'
<1>1. /\ mpc \in {"drainname", "idle", "join"} /\ mpc' \in {"idle", "join", "gone"}
      /\ UNCHANGED <<kind, job, posted, pending, queue, wpc, wjob, chunksClosed, foundClosed>>
      BY DEF Return, Destroy, Join, worker_vars, found_vars, job_vars
<1>2. ~Active /\ ~Active' /\ ~Live'
      BY <1>1 DEF Active, Live
<1>3. Busy' = Busy /\ Posting' = Posting
      BY <1>1 DEF Busy, Posting
<1>4. JobNumbered' /\ PendingCounts' /\ PostedBounds' /\ CodeOnly'
      BY <1>1, <1>2, <1>3 DEF WorkerInv, JobNumbered, PendingCounts, PostedBounds, CodeOnly
<1>5. HoldersHoldJob' /\ InactiveMeansDone' /\ OneCloser' /\ ClosedMeansDone' /\ FinishAfterClose'
      BY <1>1, <1>2 DEF WorkerInv, HoldersHoldJob, InactiveMeansDone, OneCloser,
                        ClosedMeansDone, FinishAfterClose
<1> QED BY <1>4, <1>5 DEF WorkerInv

(* A worker takes an entry of queue_: the count moves from queue to Busy.  *)
LEMMA PopJobWorker ==
    ASSUME TypeOK, WorkerInv, NEW w \in Worker, PopJob(w)
    PROVE  WorkerInv'
<1>1. PICK j \in Job : /\ queue[j] > 0
                       /\ queue' = [queue EXCEPT ![j] = @ - 1]
                       /\ wjob' = [wjob EXCEPT ![w] = j]
      BY DEF PopJob
<1>2. /\ wpc[w] = "pop" /\ wpc' = [wpc EXCEPT ![w] = "chunk"]
      /\ UNCHANGED <<mpc, kind, job, posted, pending, chunksClosed, foundClosed>>
      BY DEF PopJob, match_vars, job_vars, found_vars
<1> wpc \in [Worker -> WorkerPC] /\ wjob \in [Worker -> 0..MaxJobs]
    BY DEF TypeOK, TypeOfWorkers
<1>3. j = job /\ job > 0
      BY <1>1, SearchThreadAssumption DEF WorkerInv, PendingCounts, Job
<1>4. /\ queue[job] \in Nat /\ queue'[job] = queue[job] - 1
      /\ \A i \in Job : i # job => queue'[i] = queue[i]
      BY <1>1, <1>3, ThreadsPositive DEF TypeOK, TypeOfJob
<1>5. Busy' = Busy \cup {w} /\ w \notin Busy
      BY <1>2 DEF Busy, BusyPC, WorkerPC
<1>6. Cardinality(Busy') = Cardinality(Busy) + 1
      BY <1>5, BusyFinite, FS_AddElement
<1>7. PendingCounts'
      BY <1>1, <1>2, <1>3, <1>4, <1>6, BusyFinite DEF WorkerInv, PendingCounts, Posting
<1>8. pending > 0
      BY <1>1, <1>3, <1>4, BusyFinite DEF WorkerInv, PendingCounts, Posting
<1>9. \A v \in Worker : wpc[v] # "close" /\ wpc'[v] # "close"
      BY <1>2, <1>8 DEF WorkerInv, OneCloser
<1>10. JobNumbered' /\ PostedBounds' /\ CodeOnly'
      BY <1>2 DEF WorkerInv, JobNumbered, PostedBounds, CodeOnly, Live, Posting
<1>11. HoldersHoldJob'
      BY <1>1, <1>2, <1>3 DEF WorkerInv, HoldersHoldJob
<1>12. InactiveMeansDone' /\ OneCloser' /\ ClosedMeansDone'
      BY <1>2, <1>9 DEF WorkerInv, InactiveMeansDone, OneCloser, ClosedMeansDone, Active
<1>13. FinishAfterClose'
      BY <1>2 DEF WorkerInv, FinishAfterClose
<1> QED BY <1>7, <1>10, <1>11, <1>12, <1>13 DEF WorkerInv

LEMMA ExitWorkerWorker ==
    ASSUME TypeOK, WorkerInv, NEW w \in Worker, ExitWorker(w)
    PROVE  WorkerInv'
<1>1. /\ wpc[w] = "pop" /\ wpc' = [wpc EXCEPT ![w] = "exited"]
      /\ UNCHANGED <<mpc, kind, job, posted, pending, queue, wjob, chunksClosed, foundClosed>>
      BY DEF ExitWorker, match_vars, job_vars, found_vars
<1> wpc \in [Worker -> WorkerPC]
    BY DEF TypeOK, TypeOfWorkers
<1>2. Busy' = Busy
      BY <1>1 DEF Busy, BusyPC
<1>3. \A v \in Worker : \A x \in BusyPC \cup {"close"} : (wpc'[v] = x) <=> (wpc[v] = x)
      BY <1>1 DEF BusyPC
<1>4. JobNumbered' /\ PendingCounts' /\ PostedBounds' /\ CodeOnly'
      BY <1>1, <1>2 DEF WorkerInv, JobNumbered, PendingCounts, PostedBounds, CodeOnly, Live, Posting
<1>5. HoldersHoldJob' /\ InactiveMeansDone' /\ OneCloser' /\ ClosedMeansDone'
      BY <1>1, <1>3 DEF WorkerInv, HoldersHoldJob, InactiveMeansDone, OneCloser, ClosedMeansDone, Active
<1>6. FinishAfterClose'
      BY <1>1, <1>3 DEF WorkerInv, FinishAfterClose
<1> QED BY <1>4, <1>5, <1>6 DEF WorkerInv

(* --j->pending: the worker leaves Busy; at 0 it is the one closer.        *)
LEMMA FinishWorker ==
    ASSUME TypeOK, WorkerInv, NEW w \in Worker, Finish(w)
    PROVE  WorkerInv'
<1>1. /\ wpc[w] = "finish" /\ pending' = pending - 1
      /\ wpc' = [wpc EXCEPT ![w] = IF pending = 1 THEN "close" ELSE "pop"]
      /\ UNCHANGED <<mpc, kind, job, posted, queue, wjob, chunksClosed, foundClosed>>
      BY DEF Finish, match_vars, found_vars
<1> wpc \in [Worker -> WorkerPC]
    BY DEF TypeOK, TypeOfWorkers
<1>2. wpc[w] \in BusyPC
      BY <1>1 DEF BusyPC, WorkerPC
<1>3. Active /\ job > 0 /\ job \in Job
      BY <1>2, HolderMeansActive
<1>4. Busy' = Busy \ {w} /\ w \in Busy
      BY <1>1, <1>2 DEF Busy, BusyPC
<1>5. Cardinality(Busy') = Cardinality(Busy) - 1
      BY <1>4, BusyFinite, FS_RemoveElement
<1>6. queue[job] \in Nat /\ Posting \in Nat /\ Posting' = Posting
      BY <1>1, <1>3, ThreadsPositive DEF TypeOK, TypeOfJob, Posting
<1>7. Cardinality(Busy) > 0
      BY <1>4, BusyFinite, FS_EmptySet
<1>8. pending > 0 /\ pending \in Nat
      BY <1>3, <1>6, <1>7, BusyFinite DEF WorkerInv, PendingCounts
<1>9. PendingCounts'
      BY <1>1, <1>3, <1>5, <1>6, BusyFinite DEF WorkerInv, PendingCounts
<1>10. JobNumbered' /\ PostedBounds' /\ CodeOnly'
      BY <1>1, <1>6, <1>8, ThreadsPositive
         DEF WorkerInv, JobNumbered, PostedBounds, CodeOnly, Live, TypeOK, TypeOfMatch
<1>11. \A v \in Worker : wpc[v] # "close"
      BY <1>8 DEF WorkerInv, OneCloser
<1>12. ~foundClosed /\ chunksClosed
      BY <1>1, <1>3, <1>8 DEF WorkerInv, ClosedMeansDone, FinishAfterClose
<1>13. HoldersHoldJob'
      BY <1>1, <1>2 DEF WorkerInv, HoldersHoldJob, BusyPC
<1>14. InactiveMeansDone' /\ ClosedMeansDone'
      BY <1>1, <1>3, <1>12 DEF InactiveMeansDone, ClosedMeansDone, Active
<1>15. OneCloser'
      BY <1>1, <1>8, <1>11, <1>12 DEF OneCloser
<1>16. FinishAfterClose'
      BY <1>1, <1>12 DEF WorkerInv, FinishAfterClose
<1> QED BY <1>9, <1>10, <1>13, <1>14, <1>15, <1>16 DEF WorkerInv

LEMMA CloseFoundWorker ==
    ASSUME TypeOK, WorkerInv, NEW w \in Worker, CloseFound(w)
    PROVE  WorkerInv'
<1>1. /\ wpc[w] = "close" /\ foundClosed' = TRUE /\ wpc' = [wpc EXCEPT ![w] = "pop"]
      /\ UNCHANGED <<mpc, kind, job, posted, pending, queue, wjob, chunksClosed>>
      BY DEF CloseFound, match_vars, job_vars
<1> wpc \in [Worker -> WorkerPC]
    BY DEF TypeOK, TypeOfWorkers
<1>2. Busy' = Busy
      BY <1>1 DEF Busy, BusyPC
<1>3. pending = 0 /\ chunksClosed /\ \A v \in Worker : wpc'[v] # "close"
      BY <1>1 DEF WorkerInv, OneCloser, FinishAfterClose
<1>4. JobNumbered' /\ PendingCounts' /\ PostedBounds' /\ CodeOnly'
      BY <1>1, <1>2 DEF WorkerInv, JobNumbered, PendingCounts, PostedBounds, CodeOnly, Live, Posting
<1>5. HoldersHoldJob'
      BY <1>1 DEF WorkerInv, HoldersHoldJob, BusyPC
<1>6. InactiveMeansDone' /\ OneCloser' /\ ClosedMeansDone' /\ FinishAfterClose'
      BY <1>1, <1>3 DEF WorkerInv, InactiveMeansDone, OneCloser, ClosedMeansDone, FinishAfterClose
<1> QED BY <1>4, <1>5, <1>6 DEF WorkerInv

-----------------------------------------------------------------------------
(* NameInv, step by step.                                                  *)

LEMMA NameFrame ==
    ASSUME NameInv, UNCHANGED <<mpc, kind, job, npc, njob, nqueue, nfoundClosed>>
    PROVE  NameInv'
BY DEF NameInv, NameHolders, NameQueued, NamesOpen, Draining, Live, NameOf

(* Until match() drains, no name searcher has been given anything.         *)
LEMMA NamesIdle ==
    ASSUME TypeOK, NameInv, ~Draining
    PROVE  /\ \A k \in NameKind : npc[k] \notin {"check", "close"}
           /\ \A k \in NameKind : \A j \in Job : nqueue[k][j] = 0
<1>1. \A k \in NameKind : \A j \in Job : nqueue[k][j] \in 0..1
      BY DEF TypeOK, TypeOfNames
<1> QED BY <1>1 DEF NameInv, NameHolders, NameQueued

LEMMA BeforeDrainName ==
    ASSUME TypeOK, NameInv, ~Draining, mpc' \notin {"drain", "drainname"},
           UNCHANGED <<npc, nqueue>>,
           mpc' \notin {"idle", "join", "gone"} => \A k \in NameKind : ~nfoundClosed'[k]
    PROVE  NameInv'
BY NamesIdle DEF NameInv, NameHolders, NameQueued, NamesOpen, Draining, Live

LEMMA PushNameName ==
    ASSUME TypeOK, NameInv, WorkerInv, PushName
    PROVE  NameInv'
<1>1. /\ mpc = "pushname" /\ mpc' \in {"drain", "drainname"}
      /\ nqueue' = [nqueue EXCEPT ![NameOf][job] = @ + 1]
      /\ UNCHANGED <<kind, job, npc, njob, nfoundClosed>>
      BY DEF PushName, name_vars
<1>2. /\ \A k \in NameKind : npc[k] \notin {"check", "close"}
      /\ \A k \in NameKind : \A j \in Job : nqueue[k][j] = 0
      BY <1>1, NamesIdle DEF Draining
<1>3. \A k \in NameKind : ~nfoundClosed[k]
      BY <1>1 DEF NameInv, NamesOpen, Live, Draining
<1>4. nqueue \in [NameKind -> [Job -> 0..1]]
      BY DEF TypeOK, TypeOfNames
<1>5. ASSUME NEW k \in NameKind, NEW j \in Job, nqueue'[k][j] > 0
      PROVE  j = job /\ k = NameOf
      BY <1>1, <1>2, <1>4, <1>5
<1>6. NameHolders' /\ NamesOpen'
      BY <1>1, <1>2 DEF NameHolders, NamesOpen, Draining
<1>7. NameQueued'
      BY <1>1, <1>3, <1>5 DEF NameQueued, Draining, NameOf
<1> QED BY <1>6, <1>7 DEF NameInv

(* DrainDone only moves from one drain loop to the next.                   *)
LEMMA DrainDoneName ==
    ASSUME NameInv, DrainDone
    PROVE  NameInv'
<1>1. /\ mpc = "drain" /\ mpc' = "drainname"
      /\ UNCHANGED <<kind, job, npc, njob, nqueue, nfoundClosed>>
      BY DEF DrainDone, name_vars
<1> QED BY <1>1 DEF NameInv, NameHolders, NameQueued, NamesOpen, Draining, Live, NameOf

(* The result queue of the name searcher is closed, so it holds no job.    *)
LEMMA ReturnName ==
    ASSUME TypeOK, NameInv, Return
    PROVE  NameInv'
<1>1. /\ mpc = "drainname" /\ mpc' = "idle" /\ nfoundClosed[NameOf]
      /\ UNCHANGED <<kind, job, npc, njob, nqueue, nfoundClosed>>
      BY DEF Return, name_vars
<1>2. \A k \in NameKind : npc[k] \notin {"check", "close"}
      BY <1>1 DEF NameInv, NameHolders
<1>3. \A k \in NameKind : \A j \in Job : ~(nqueue[k][j] > 0)
      BY <1>1 DEF NameInv, NameQueued
<1> QED BY <1>1, <1>2, <1>3 DEF NameInv, NameHolders, NameQueued, NamesOpen, Draining, Live

LEMMA PopNameName ==
    ASSUME TypeOK, NameInv, NEW k \in NameKind, PopName(k)
    PROVE  NameInv'
<1>1. PICK j \in Job : /\ nqueue[k][j] > 0
                       /\ nqueue' = [nqueue EXCEPT ![k][j] = @ - 1]
                       /\ njob' = [njob EXCEPT ![k] = j]
      BY DEF PopName
<1>2. /\ npc[k] = "pop" /\ npc' = [npc EXCEPT ![k] = "check"]
      /\ UNCHANGED <<mpc, kind, job, nfoundClosed>>
      BY DEF PopName, match_vars
<1>3. /\ nqueue \in [NameKind -> [Job -> 0..1]] /\ npc \in [NameKind -> NamePC]
      /\ njob \in [NameKind -> 0..MaxJobs]
      BY DEF TypeOK, TypeOfNames
<1>4. Draining /\ j = job /\ k = NameOf /\ ~nfoundClosed[k]
      BY <1>1 DEF NameInv, NameQueued
<1>5. nqueue[k][job] = 1 /\ nqueue'[k][job] = 0
      BY <1>1, <1>3, <1>4
<1>6. \A n \in NameKind, i \in Job : nqueue'[n][i] > 0 => nqueue[n][i] > 0
      BY <1>1, <1>3
<1>7. \A n \in NameKind : n # k => nqueue'[n] = nqueue[n] /\ npc'[n] = npc[n] /\ njob'[n] = njob[n]
      BY <1>1, <1>2, <1>3
<1>8. NameHolders'
  <2> SUFFICES ASSUME NEW n \in NameKind, npc'[n] \in {"check", "close"}
               PROVE  /\ Draining /\ njob'[n] = job /\ n = NameOf
                      /\ ~nfoundClosed[n] /\ nqueue'[n][job] = 0
      BY <1>2 DEF NameHolders, Draining, NameOf
  <2>1. CASE n = k
        BY <1>1, <1>3, <1>4, <1>5, <2>1
  <2>2. CASE n # k
        BY <1>7, <2>2 DEF NameInv, NameHolders
  <2> QED BY <2>1, <2>2
<1>9. NameQueued'
      BY <1>2, <1>6 DEF NameInv, NameQueued, Draining, NameOf
<1>10. NamesOpen'
      BY <1>2 DEF NameInv, NamesOpen, Draining, Live
<1> QED BY <1>8, <1>9, <1>10 DEF NameInv

LEMMA ExitNameName ==
    ASSUME TypeOK, NameInv, NEW k \in NameKind, ExitName(k) \/ NamesDone(k)
    PROVE  NameInv'
<1>1. /\ npc' \in {[npc EXCEPT ![k] = "exited"], [npc EXCEPT ![k] = "close"]}
      /\ npc' = [npc EXCEPT ![k] = "close"] => npc[k] = "check"
      /\ UNCHANGED <<mpc, kind, job, njob, nqueue, nfoundClosed>>
  <2>1. npc \in [NameKind -> NamePC]
        BY DEF TypeOK, TypeOfNames
  <2>2. CASE ExitName(k)
        BY <2>1, <2>2 DEF ExitName, match_vars
  <2>3. CASE NamesDone(k)
        BY <2>1, <2>3 DEF NamesDone, match_vars
  <2> QED BY <2>2, <2>3
<1>2. npc \in [NameKind -> NamePC]
      BY DEF TypeOK, TypeOfNames
<1>3. \A n \in NameKind : npc'[n] \in {"check", "close"} => npc[n] \in {"check", "close"}
      BY <1>1, <1>2
<1>4. NameHolders'
      BY <1>1, <1>3 DEF NameInv, NameHolders, Draining, NameOf
<1>5. NameQueued' /\ NamesOpen'
      BY <1>1 DEF NameInv, NameQueued, NamesOpen, Draining, NameOf, Live
<1> QED BY <1>4, <1>5 DEF NameInv

LEMMA CloseNamesName ==
    ASSUME TypeOK, NameInv, NEW k \in NameKind, CloseNames(k)
    PROVE  NameInv'
<1>1. /\ npc[k] = "close" /\ npc' = [npc EXCEPT ![k] = "pop"]
      /\ nfoundClosed' = [nfoundClosed EXCEPT ![k] = TRUE]
      /\ UNCHANGED <<mpc, kind, job, njob, nqueue>>
      BY DEF CloseNames, match_vars
<1>2. npc \in [NameKind -> NamePC] /\ nfoundClosed \in [NameKind -> BOOLEAN]
      BY DEF TypeOK, TypeOfNames
<1>3. Draining /\ k = NameOf /\ nqueue[k][job] = 0
      BY <1>1 DEF NameInv, NameHolders
<1>4. \A n \in NameKind : n # k => npc'[n] = npc[n] /\ nfoundClosed'[n] = nfoundClosed[n]
      BY <1>1, <1>2
<1>5. NameHolders'
      BY <1>1, <1>2, <1>4 DEF NameInv, NameHolders, Draining, NameOf
<1>6. NameQueued'
      BY <1>1, <1>3, <1>4 DEF NameInv, NameQueued, Draining, NameOf
<1>7. NamesOpen'
      BY <1>1, <1>3 DEF NamesOpen, Draining
<1> QED BY <1>5, <1>6, <1>7 DEF NameInv

-----------------------------------------------------------------------------
(* TypeOK, step by step.  The bounds on pending and queue are the ones     *)
(* that need WorkerInv.                                                    *)

LEMMA MatchTypeFrame ==
    ASSUME TypeOfMatch, UNCHANGED <<match_vars, job, late, closed>> PROVE TypeOfMatch'
BY DEF TypeOfMatch, match_vars

LEMMA JobTypeFrame ==
    ASSUME TypeOfJob, UNCHANGED <<job_vars, found_vars, limiter_vars, queue>>
    PROVE  TypeOfJob'
BY DEF TypeOfJob, job_vars, found_vars, limiter_vars

LEMMA WorkersTypeFrame ==
    ASSUME TypeOfWorkers, UNCHANGED worker_vars PROVE TypeOfWorkers'
BY DEF TypeOfWorkers, worker_vars

LEMMA NamesTypeFrame ==
    ASSUME TypeOfNames, UNCHANGED <<name_vars, nqueue, ndelivered>> PROVE TypeOfNames'
BY DEF TypeOfNames, name_vars

LEMMA CallerType ==
    ASSUME IInv, Caller
    PROVE  TypeOK'
<1> USE SearchThreadAssumption, ThreadsPositive
<1>1. ASSUME NEW k \in {"code", "file", "tree"}, NEW m \in Limit, StartMatch(k, m)
      PROVE  TypeOK'
  <2>1. TypeOfMatch'
    <3>1. job' \in 0..MaxJobs
          BY <1>1 DEF StartMatch, IInv, TypeOK, TypeOfMatch
    <3>2. /\ mpc' \in MatchPC /\ kind' \in {"code", "file", "tree"} /\ max' \in Limit
          /\ posted' = 0 /\ unpushed' = Chunk /\ delivered' = {} /\ got' = 0
          /\ why' = "none"
          BY <1>1 DEF StartMatch, MatchPC
    <3>3. late' \in BOOLEAN /\ closed' \in BOOLEAN
          BY <1>1 DEF StartMatch, IInv, TypeOK, TypeOfMatch
    <3> QED BY <3>1, <3>2, <3>3 DEF TypeOfMatch, ExitReason
  <2>2. TypeOfJob'
    <3>1. /\ pending' = 0 /\ chunks' = {} /\ found' = {} /\ matches' = 0
          /\ exit' = "none" /\ queue' = queue
          BY <1>1 DEF StartMatch
    <3>2. queue \in [Job -> 0..NumThreads]
          BY DEF IInv, TypeOK, TypeOfJob
    <3>3. chunksClosed' \in BOOLEAN /\ foundClosed' \in BOOLEAN
          BY <1>1 DEF StartMatch
    <3> QED BY <3>1, <3>2, <3>3 DEF TypeOfJob, ExitReason
  <2>3. TypeOfWorkers'
        BY <1>1, WorkersTypeFrame DEF StartMatch, IInv, TypeOK
  <2>4. TypeOfNames'
        BY <1>1 DEF StartMatch, IInv, TypeOK, TypeOfNames, ExitReason
  <2> QED BY <2>1, <2>2, <2>3, <2>4 DEF TypeOK
<1>2. CASE Destroy
  <2>1. TypeOfMatch'
        BY <1>2 DEF Destroy, IInv, TypeOK, TypeOfMatch, MatchPC
  <2> QED BY <1>2, <2>1, JobTypeFrame, WorkersTypeFrame, NamesTypeFrame
          DEF Destroy, IInv, TypeOK
<1> QED BY <1>1, <1>2 DEF Caller

LEMMA PostingType ==
    ASSUME IInv, IncPending \/ PushJob \/ CloseChunks \/ \E c \in Chunk : PushChunk(c)
    PROVE  TypeOK'
<1> USE SearchThreadAssumption, ThreadsPositive
<1>1. CASE IncPending
  <2>1. TypeOfMatch'
        BY <1>1 DEF IncPending, IInv, TypeOK, TypeOfMatch, MatchPC
  <2>2. TypeOfJob'
    <3>1. pending <= posted /\ posted < NumThreads /\ posted \in Nat /\ pending \in Nat
          BY <1>1 DEF IncPending, IInv, TypeOK, TypeOfMatch, TypeOfJob, WorkerInv,
                      PostedBounds, Posting
    <3> QED BY <1>1, <3>1 DEF IncPending, IInv, TypeOK, TypeOfJob, found_vars, limiter_vars
  <2> QED BY <1>1, <2>1, <2>2, WorkersTypeFrame, NamesTypeFrame DEF IncPending, IInv, TypeOK
<1>2. CASE PushJob
  <2>1. posted < NumThreads /\ posted \in Nat
        BY <1>2 DEF PushJob, IInv, TypeOK, TypeOfMatch, WorkerInv, PostedBounds
  <2>2. TypeOfMatch'
        BY <1>2, <2>1 DEF PushJob, IInv, TypeOK, TypeOfMatch, MatchPC
  <2>3. TypeOfJob'
    <3>1. job \in Job
          BY <1>2 DEF PushJob, IInv, TypeOK, TypeOfMatch, WorkerInv, JobNumbered, Live, Job
    <3>2. queue[job] \in Nat /\ queue[job] + 1 <= NumThreads
          BY <1>2, <3>1, BusyFinite
             DEF PushJob, IInv, TypeOK, TypeOfJob, WorkerInv, PendingCounts, Posting, Job
    <3> QED BY <1>2, <3>1, <3>2
            DEF PushJob, IInv, TypeOK, TypeOfJob, job_vars, found_vars, limiter_vars
  <2> QED BY <1>2, <2>2, <2>3, WorkersTypeFrame, NamesTypeFrame DEF PushJob, IInv, TypeOK
<1>3. CASE CloseChunks
  <2>1. TypeOfMatch'
        BY <1>3 DEF CloseChunks, IInv, TypeOK, TypeOfMatch, MatchPC
  <2>2. TypeOfJob'
        BY <1>3 DEF CloseChunks, IInv, TypeOK, TypeOfJob, found_vars, limiter_vars
  <2> QED BY <1>3, <2>1, <2>2, WorkersTypeFrame, NamesTypeFrame DEF CloseChunks, IInv, TypeOK
<1>4. ASSUME NEW c \in Chunk, PushChunk(c) PROVE TypeOK'
  <2>1. TypeOfMatch'
        BY <1>4 DEF PushChunk, IInv, TypeOK, TypeOfMatch
  <2>2. TypeOfJob'
        BY <1>4 DEF PushChunk, IInv, TypeOK, TypeOfJob, found_vars, limiter_vars
  <2> QED BY <1>4, <2>1, <2>2, WorkersTypeFrame, NamesTypeFrame DEF PushChunk, IInv, TypeOK
<1> QED BY <1>1, <1>2, <1>3, <1>4

LEMMA DrainingType ==
    ASSUME IInv,
           \/ PushName \/ DrainDone \/ Return \/ Join \/ Deadline
           \/ \E h \in Hit : Drain(h)
           \/ \E f \in nfound[NameOf] : DrainName(f)
    PROVE  TypeOK'
<1> USE SearchThreadAssumption, ThreadsPositive
<1>0. NameOf \in NameKind
      BY DEF NameOf, NameKind
<1>1. CASE PushName
  <2>1. TypeOfMatch'
        BY <1>1 DEF PushName, IInv, TypeOK, TypeOfMatch, MatchPC
  <2>2. TypeOfNames'
    <3>1. \A k \in NameKind : \A j \in Job : nqueue[k][j] = 0
          BY <1>1, NamesIdle DEF PushName, IInv, Draining
    <3>2. nqueue' \in [NameKind -> [Job -> 0..1]]
      <4>1. nqueue \in [NameKind -> [Job -> 0..1]]
            BY DEF IInv, TypeOK, TypeOfNames
      <4>2. job \in Job
            BY <1>1 DEF PushName, IInv, TypeOK, TypeOfMatch, WorkerInv, JobNumbered, Live, Job
      <4>3. nqueue[NameOf][job] = 0
            BY <1>0, <3>1, <4>2
      <4>4. [nqueue[NameOf] EXCEPT ![job] = @ + 1] \in [Job -> 0..1]
            BY <1>0, <4>1, <4>2, <4>3
      <4>5. nqueue' = [nqueue EXCEPT ![NameOf] = [nqueue[NameOf] EXCEPT ![job] = @ + 1]]
            BY <1>1, <4>1 DEF PushName
      <4> QED BY <1>0, <4>1, <4>4, <4>5
    <3> QED BY <1>1, <3>2 DEF PushName, IInv, TypeOK, TypeOfNames, name_vars
  <2> QED BY <1>1, <2>1, <2>2, JobTypeFrame, WorkersTypeFrame DEF PushName, IInv, TypeOK
<1>2. CASE DrainDone \/ Join
  <2>1. TypeOfMatch'
        BY <1>2 DEF DrainDone, Join, IInv, TypeOK, TypeOfMatch, MatchPC
  <2> QED BY <1>2, <2>1, JobTypeFrame, WorkersTypeFrame, NamesTypeFrame
          DEF DrainDone, Join, IInv, TypeOK
<1>3. CASE Return
  <2>1. exit \in ExitReason /\ nexit[NameOf] \in ExitReason
        BY <1>0 DEF IInv, TypeOK, TypeOfJob, TypeOfNames
  <2>2. TypeOfMatch'
        BY <1>3, <2>1 DEF Return, IInv, TypeOK, TypeOfMatch, MatchPC
  <2> QED BY <1>3, <2>2, JobTypeFrame, WorkersTypeFrame, NamesTypeFrame DEF Return, IInv, TypeOK
<1>4. CASE Deadline
  <2>1. TypeOfMatch'
        BY <1>4 DEF Deadline, IInv, TypeOK, TypeOfMatch, match_vars
  <2> QED BY <1>4, <2>1, JobTypeFrame, WorkersTypeFrame, NamesTypeFrame DEF Deadline, IInv, TypeOK
<1>5. ASSUME NEW h \in Hit, Drain(h) PROVE TypeOK'
  <2>1. TypeOfMatch'
        BY <1>5 DEF Drain, IInv, TypeOK, TypeOfMatch
  <2>2. TypeOfJob'
        BY <1>5 DEF Drain, IInv, TypeOK, TypeOfJob, job_vars, limiter_vars
  <2> QED BY <1>5, <2>1, <2>2, WorkersTypeFrame, NamesTypeFrame DEF Drain, IInv, TypeOK
<1>6. ASSUME NEW f \in nfound[NameOf], DrainName(f) PROVE TypeOK'
  <2>1. f \in AnyName
        BY <1>0 DEF IInv, TypeOK, TypeOfNames
  <2>2. TypeOfNames'
        BY <1>0, <1>6, <2>1 DEF DrainName, IInv, TypeOK, TypeOfNames
  <2> QED BY <1>6, <2>2, MatchTypeFrame, JobTypeFrame, WorkersTypeFrame DEF DrainName, IInv, TypeOK
<1> QED BY <1>1, <1>2, <1>3, <1>4, <1>5, <1>6

LEMMA WorkerType ==
    ASSUME IInv, NEW w \in Worker, WorkerStep(w)
    PROVE  TypeOK'
<1> USE SearchThreadAssumption, ThreadsPositive
<1>1. TypeOfMatch'
  <2>1. UNCHANGED <<match_vars, job, late, closed>>
        BY DEF WorkerStep, PopJob, ExitWorker, ChunksDone, PopChunk, ExitEarly, SeeLate, Expire,
               ChunkSearched, NextHit, PushHit, AddMatches, Record, SetLimit, Finish, CloseFound
  <2> QED BY <2>1, MatchTypeFrame DEF IInv, TypeOK
<1>2. TypeOfNames'
  <2>1. UNCHANGED <<name_vars, nqueue, ndelivered>>
        BY DEF WorkerStep, PopJob, ExitWorker, ChunksDone, PopChunk, ExitEarly, SeeLate, Expire,
               ChunkSearched, NextHit, PushHit, AddMatches, Record, SetLimit, Finish, CloseFound
  <2> QED BY <2>1, NamesTypeFrame DEF IInv, TypeOK
<1>3. TypeOfWorkers'
  <2>0. TypeOfWorkers
        BY DEF IInv, TypeOK
  <2>1. CASE PopJob(w)
        BY <2>0, <2>1 DEF PopJob, TypeOfWorkers, WorkerPC, Job
  <2>2. CASE ExitWorker(w) \/ ChunksDone(w) \/ SeeLate(w) \/ ChunkSearched(w) \/ PushHit(w)
        BY <2>0, <2>2 DEF ExitWorker, ChunksDone, SeeLate, ChunkSearched, PushHit, TypeOfWorkers,
                          WorkerPC
  <2>3. CASE SetLimit(w) \/ Finish(w) \/ CloseFound(w)
        BY <2>0, <2>3 DEF SetLimit, Finish, CloseFound, TypeOfWorkers, WorkerPC
  <2>4. CASE ExitEarly(w) \/ Expire(w)
        BY <2>0, <2>4 DEF ExitEarly, Expire, TypeOfWorkers, WorkerPC
  <2>5. ASSUME NEW c \in Chunk, PopChunk(w, c) PROVE TypeOfWorkers'
        BY <2>0, <2>5 DEF PopChunk, TypeOfWorkers, WorkerPC
  <2>6. ASSUME NEW h \in Hit, NextHit(w, h) PROVE TypeOfWorkers'
        BY <2>0, <2>6 DEF NextHit, TypeOfWorkers, WorkerPC
  <2>7. CASE AddMatches(w)
    <3>1. matches' \in Nat
          BY <2>7 DEF AddMatches, IInv, HitInHand, TypeOK, TypeOfJob
    <3> QED BY <2>0, <2>7, <3>1 DEF AddMatches, TypeOfWorkers, WorkerPC
  <2>8. CASE Record(w)
        BY <2>0, <2>8 DEF Record, TypeOfWorkers, WorkerPC
  <2> QED BY <2>1, <2>2, <2>3, <2>4, <2>5, <2>6, <2>7, <2>8 DEF WorkerStep
<1>4. TypeOfJob'
  <2>0. TypeOfJob
        BY DEF IInv, TypeOK
  <2>1. CASE PopJob(w)
    <3>1. PICK j \in Job : queue[j] > 0 /\ queue' = [queue EXCEPT ![j] = @ - 1]
          BY <2>1 DEF PopJob
    <3>2. queue' \in [Job -> 0..NumThreads]
          BY <2>0, <3>1 DEF TypeOfJob
    <3> QED BY <2>0, <2>1, <3>2 DEF PopJob, TypeOfJob, job_vars, found_vars, limiter_vars
  <2>2. CASE \/ ExitWorker(w) \/ ChunksDone(w) \/ SeeLate(w) \/ ChunkSearched(w)
             \/ ExitEarly(w) \/ Record(w) \/ \E h \in Hit : NextHit(w, h)
    <3>1. UNCHANGED <<job_vars, found_vars, limiter_vars, queue>>
          BY <2>2 DEF ExitWorker, ChunksDone, SeeLate, ChunkSearched, ExitEarly, Record, NextHit
    <3> QED BY <2>0, <3>1, JobTypeFrame
  <2>3. CASE Expire(w) \/ SetLimit(w)
        BY <2>0, <2>3 DEF Expire, SetLimit, TypeOfJob, ExitReason, job_vars, found_vars
  <2>4. CASE CloseFound(w)
        BY <2>0, <2>4 DEF CloseFound, TypeOfJob, job_vars, limiter_vars
  <2>5. ASSUME NEW c \in Chunk, PopChunk(w, c) PROVE TypeOfJob'
        BY <2>0, <2>5 DEF PopChunk, TypeOfJob, found_vars, limiter_vars
  <2>6. CASE PushHit(w)
    <3>1. whit[w] \in Hit
          BY <2>6 DEF PushHit, IInv, HitInHand
    <3> QED BY <2>0, <2>6, <3>1 DEF PushHit, TypeOfJob, job_vars, limiter_vars
  <2>7. CASE AddMatches(w)
        BY <2>0, <2>7 DEF AddMatches, IInv, HitInHand, TypeOfJob, job_vars, found_vars
  <2>8. CASE Finish(w)
    <3>1. pending > 0
      <4>1. w \in Busy
            BY <2>8 DEF Finish, Busy, BusyPC, WorkerPC
      <4> QED BY <2>0, <4>1, NonePending DEF IInv, TypeOfJob
    <3> QED BY <2>0, <2>8, <3>1 DEF Finish, TypeOfJob, found_vars, limiter_vars
  <2> QED BY <2>1, <2>2, <2>3, <2>4, <2>5, <2>6, <2>7, <2>8 DEF WorkerStep
<1> QED BY <1>1, <1>2, <1>3, <1>4 DEF TypeOK

LEMMA NameType ==
    ASSUME IInv, NEW k \in NameKind, NameStep(k)
    PROVE  TypeOK'
<1>1. UNCHANGED <<match_vars, job, late, closed, job_vars, found_vars, limiter_vars, queue,
                  worker_vars>>
      BY DEF NameStep, PopName, ExitName, ExpireName, NamesDone, CloseNames, MatchName
<1>2. TypeOfMatch' /\ TypeOfJob' /\ TypeOfWorkers'
      BY <1>1, MatchTypeFrame, JobTypeFrame, WorkersTypeFrame DEF IInv, TypeOK
<1>3. TypeOfNames'
  <2>0. TypeOfNames
        BY DEF IInv, TypeOK
  <2>1. CASE PopName(k)
    <3>1. PICK j \in Job : /\ nqueue[k][j] > 0
                           /\ nqueue' = [nqueue EXCEPT ![k][j] = @ - 1]
                           /\ njob' = [njob EXCEPT ![k] = j]
          BY <2>1 DEF PopName
    <3>2. nqueue' \in [NameKind -> [Job -> 0..1]]
          BY <2>0, <3>1 DEF TypeOfNames
    <3>3. njob' \in [NameKind -> 0..MaxJobs]
          BY <2>0, <3>1 DEF TypeOfNames, Job
    <3>4. NameHits[k] \subseteq AnyName
          BY DEF AnyName
    <3> QED BY <2>0, <2>1, <3>2, <3>3, <3>4 DEF PopName, TypeOfNames, NamePC
  <2>2. CASE ExitName(k) \/ NamesDone(k) \/ CloseNames(k)
        BY <2>0, <2>2 DEF ExitName, NamesDone, CloseNames, TypeOfNames, NamePC
  <2>3. CASE ExpireName(k)
        BY <2>0, <2>3 DEF ExpireName, TypeOfNames, ExitReason
  <2>4. ASSUME NEW f \in ntodo[k], MatchName(k, f) PROVE TypeOfNames'
        BY <2>0, <2>4 DEF MatchName, TypeOfNames, ExitReason
  <2> QED BY <2>1, <2>2, <2>3, <2>4 DEF NameStep
<1> QED BY <1>2, <1>3 DEF TypeOK

-----------------------------------------------------------------------------
(* HitInHand, and the whole invariant.                                     *)

LEMMA WorkerHit ==
    ASSUME IInv, NEW w \in Worker, WorkerStep(w)
    PROVE  HitInHand'
<1> USE SearchThreadAssumption DEF IInv
<1>0. wpc \in [Worker -> WorkerPC] /\ whit \in [Worker -> Hit \cup {NoHit}] /\ HitInHand
      BY DEF TypeOK, TypeOfWorkers
<1>1. CASE \/ PopJob(w) \/ ExitWorker(w) \/ ChunksDone(w) \/ SeeLate(w) \/ ChunkSearched(w)
           \/ ExitEarly(w) \/ Expire(w)
      BY <1>0, <1>1 DEF PopJob, ExitWorker, ChunksDone, SeeLate, ChunkSearched, ExitEarly, Expire,
                        HitInHand
<1>2. CASE SetLimit(w) \/ Finish(w) \/ CloseFound(w) \/ Record(w) \/ AddMatches(w)
      BY <1>0, <1>2 DEF SetLimit, Finish, CloseFound, Record, AddMatches, HitInHand
<1>3. ASSUME NEW c \in Chunk, PopChunk(w, c) PROVE HitInHand'
      BY <1>0, <1>3 DEF PopChunk, HitInHand
<1>4. ASSUME NEW h \in Hit, NextHit(w, h) PROVE HitInHand'
      BY <1>0, <1>4 DEF NextHit, HitInHand
<1>5. CASE PushHit(w)
      BY <1>0, <1>5 DEF PushHit, HitInHand
<1> QED BY <1>1, <1>2, <1>3, <1>4, <1>5 DEF WorkerStep

LEMMA InitIInv == Init => IInv
<1> SUFFICES ASSUME Init PROVE IInv
    OBVIOUS
<1> USE SearchThreadAssumption, ThreadsPositive
<1>1. TypeOK
  <2>1. TypeOfMatch
    <3>1. late \in BOOLEAN /\ closed \in BOOLEAN
          BY DEF Init
    <3>2. /\ mpc = "idle" /\ job = 0 /\ kind = "code" /\ max = 0 /\ posted = 0
          /\ unpushed = {} /\ delivered = {} /\ got = 0 /\ why = "none"
          BY DEF Init
    <3> QED BY <3>1, <3>2 DEF TypeOfMatch, MatchPC, ExitReason
  <2>2. TypeOfJob
    <3>1. chunksClosed \in BOOLEAN /\ foundClosed \in BOOLEAN
          BY DEF Init
    <3>2. /\ pending = 0 /\ chunks = {} /\ found = {} /\ matches = 0 /\ exit = "none"
          /\ queue = [j \in Job |-> 0]
          BY DEF Init
    <3> QED BY <3>1, <3>2 DEF TypeOfJob, ExitReason
  <2>3. TypeOfWorkers
        BY DEF Init, TypeOfWorkers, WorkerPC
  <2>4. TypeOfNames
        BY DEF Init, TypeOfNames, NamePC, ExitReason
  <2> QED BY <2>1, <2>2, <2>3, <2>4 DEF TypeOK
<1>2. HitInHand
      BY DEF Init, HitInHand
<1>3. WorkerInv
  <2>1. Busy = {} /\ Posting = 0 /\ ~Live
        BY DEF Init, Busy, BusyPC, Posting, Live
  <2>2. JobNumbered /\ PendingCounts /\ PostedBounds /\ CodeOnly
        BY <2>1 DEF Init, JobNumbered, PendingCounts, PostedBounds, CodeOnly
  <2>3. HoldersHoldJob /\ InactiveMeansDone /\ OneCloser /\ ClosedMeansDone /\ FinishAfterClose
        BY DEF Init, HoldersHoldJob, InactiveMeansDone, OneCloser, ClosedMeansDone,
               FinishAfterClose, BusyPC
  <2> QED BY <2>2, <2>3 DEF WorkerInv
<1>4. NameInv
      BY DEF Init, NameInv, NameHolders, NameQueued, NamesOpen, Live
<1> QED BY <1>1, <1>2, <1>3, <1>4 DEF IInv

(* A worker's step: three actions touch the count, the rest move a worker  *)
(* that stays busy.                                                        *)
LEMMA WorkerKeepsInv ==
    ASSUME IInv, NEW w \in Worker, WorkerStep(w)
    PROVE  IInv'
<1>1. TypeOK' /\ HitInHand'
      BY WorkerType, WorkerHit
<1>2. WorkerInv'
  <2>0. TypeOK /\ WorkerInv
        BY DEF IInv
  <2>1. CASE PopJob(w) \/ ExitWorker(w) \/ Finish(w) \/ CloseFound(w)
        BY <2>0, <2>1, PopJobWorker, ExitWorkerWorker, FinishWorker, CloseFoundWorker
  <2> DEFINE Still == UNCHANGED <<mpc, kind, job, posted, pending, queue, wjob, chunksClosed,
                                  foundClosed>>
             Moves(x) == wpc[w] \in BusyPC /\ wpc' = [wpc EXCEPT ![w] = x] /\ Still
  <2>2. ASSUME NEW x \in BusyPC, x = "finish" => chunksClosed, Moves(x)
        PROVE  WorkerInv'
        BY <2>0, <2>2, BusyMove
  <2>3. CASE ChunksDone(w)
    <3>1. Moves("finish") /\ chunksClosed
          BY <2>3 DEF ChunksDone, BusyPC, WorkerPC, match_vars, job_vars, found_vars
    <3> QED BY <2>2, <3>1 DEF BusyPC, WorkerPC
  <2>4. ASSUME NEW c \in Chunk, PopChunk(w, c) PROVE WorkerInv'
    <3>1. Moves("check")
          BY <2>4 DEF PopChunk, BusyPC, WorkerPC, match_vars, found_vars
    <3> QED BY <2>2, <3>1 DEF BusyPC, WorkerPC
  <2>5. CASE ExitEarly(w) \/ Expire(w) \/ ChunkSearched(w)
    <3>1. Moves("chunk")
          BY <2>5 DEF ExitEarly, Expire, ChunkSearched, BusyPC, WorkerPC, match_vars, job_vars,
                      found_vars
    <3> QED BY <2>2, <3>1 DEF BusyPC, WorkerPC
  <2>6. CASE SeeLate(w)
    <3>1. Moves("expire")
          BY <2>6 DEF SeeLate, BusyPC, WorkerPC, match_vars, job_vars, found_vars
    <3> QED BY <2>2, <3>1 DEF BusyPC, WorkerPC
  <2>7. ASSUME NEW h \in Hit, NextHit(w, h) PROVE WorkerInv'
    <3>1. CASE h \in Dropped
      <4>1. Still /\ wpc' = wpc
            BY <2>7, <3>1 DEF NextHit, match_vars, job_vars, found_vars
      <4> QED BY <2>0, <4>1, WorkerFrame
    <3>2. CASE h \notin Dropped
      <4>1. Moves("push")
            BY <2>7, <3>2 DEF NextHit, BusyPC, WorkerPC, match_vars, job_vars, found_vars
      <4> QED BY <2>2, <4>1 DEF BusyPC, WorkerPC
    <3> QED BY <3>1, <3>2
  <2>8. CASE PushHit(w)
    <3>1. Moves("add")
          BY <2>8 DEF PushHit, BusyPC, WorkerPC, match_vars, job_vars
    <3> QED BY <2>2, <3>1 DEF BusyPC, WorkerPC
  <2>9. CASE AddMatches(w)
    <3>1. Moves("record")
          BY <2>9 DEF AddMatches, BusyPC, WorkerPC, match_vars, job_vars, found_vars
    <3> QED BY <2>2, <3>1 DEF BusyPC, WorkerPC
  <2>10. CASE Record(w)
    <3>1. PICK x \in {"set", "check"} : Moves(x)
          BY <2>10 DEF Record, BusyPC, WorkerPC, match_vars, job_vars, found_vars
    <3> QED BY <2>2, <3>1 DEF BusyPC, WorkerPC
  <2>11. CASE SetLimit(w)
    <3>1. Moves("check")
          BY <2>11 DEF SetLimit, BusyPC, WorkerPC, match_vars, job_vars, found_vars
    <3> QED BY <2>2, <3>1 DEF BusyPC, WorkerPC
  <2> QED BY <2>1, <2>3, <2>4, <2>5, <2>6, <2>7, <2>8, <2>9, <2>10, <2>11 DEF WorkerStep
<1>3. NameInv'
  <2>1. UNCHANGED <<match_vars, job, name_vars, nqueue>>
        BY DEF WorkerStep, PopJob, ExitWorker, ChunksDone, PopChunk, ExitEarly, SeeLate, Expire,
               ChunkSearched, NextHit, PushHit, AddMatches, Record, SetLimit, Finish, CloseFound
  <2> QED BY <2>1, NameFrame DEF match_vars, name_vars, IInv
<1> QED BY <1>1, <1>2, <1>3 DEF IInv

LEMMA NameKeepsInv ==
    ASSUME IInv, NEW k \in NameKind, NameStep(k)
    PROVE  IInv'
<1>1. UNCHANGED <<match_vars, job, job_vars, found_vars, queue, worker_vars>>
      BY DEF NameStep, PopName, ExitName, ExpireName, NamesDone, CloseNames, MatchName
<1>2. WorkerInv'
      BY <1>1, WorkerFrame DEF IInv, match_vars, job_vars, found_vars, worker_vars
<1>3. HitInHand'
      BY <1>1 DEF IInv, HitInHand, worker_vars
<1>4. NameInv'
  <2>0. TypeOK /\ NameInv
        BY DEF IInv
  <2>1. CASE PopName(k) \/ ExitName(k) \/ NamesDone(k) \/ CloseNames(k)
        BY <2>0, <2>1, PopNameName, ExitNameName, CloseNamesName
  <2>2. CASE ExpireName(k) \/ \E f \in ntodo[k] : MatchName(k, f)
    <3>1. UNCHANGED <<mpc, kind, job, npc, njob, nqueue, nfoundClosed>>
          BY <2>2 DEF ExpireName, MatchName, match_vars
    <3> QED BY <2>0, <3>1, NameFrame
  <2> QED BY <2>1, <2>2 DEF NameStep
<1> QED BY <1>2, <1>3, <1>4, NameType DEF IInv

LEMMA MatchKeepsInv ==
    ASSUME IInv, Caller \/ MatchStep \/ Deadline
    PROVE  IInv'
<1>0. TypeOK /\ WorkerInv /\ NameInv
      BY DEF IInv
<1>1. TypeOK'
      BY CallerType, PostingType, DrainingType DEF MatchStep
<1>2. HitInHand'
  <2>1. UNCHANGED worker_vars
        BY DEF Caller, MatchStep, StartMatch, Destroy, IncPending, PushJob, PushChunk, CloseChunks,
               PushName, Drain, DrainDone, DrainName, Return, Join, Deadline
  <2> QED BY <2>1 DEF IInv, HitInHand, worker_vars
<1>3. WorkerInv' /\ NameInv'
  <2>1. ASSUME NEW k \in {"code", "file", "tree"}, NEW m \in Limit, StartMatch(k, m)
        PROVE  WorkerInv' /\ NameInv'
    <3>1. /\ mpc = "idle" /\ mpc' \in {"inc", "pushname"} /\ UNCHANGED <<npc, nqueue>>
          /\ \A n \in NameKind : ~nfoundClosed'[n]
          BY <2>1 DEF StartMatch
    <3> QED BY <1>0, <2>1, <3>1, StartMatchWorker, BeforeDrainName DEF Draining
  <2>2. CASE IncPending \/ PushJob \/ CloseChunks
    <3>1. WorkerInv'
          BY <1>0, <2>2, IncPendingWorker, PushJobWorker, MovesOnWorker
    <3>2. /\ mpc \in {"inc", "push", "chunks"} /\ mpc' \in {"inc", "push", "chunks", "pushname"}
          /\ UNCHANGED <<npc, nqueue, nfoundClosed>>
          BY <2>2 DEF IncPending, PushJob, CloseChunks, name_vars
    <3>3. \A k \in NameKind : ~nfoundClosed[k]
          BY <1>0, <3>2 DEF NameInv, NamesOpen, Live, Draining
    <3> QED BY <1>0, <3>1, <3>2, <3>3, BeforeDrainName DEF Draining
  <2>3. CASE PushName
        BY <1>0, <2>3, MovesOnWorker, PushNameName
  <2>4. CASE DrainDone
        BY <1>0, <2>4, DrainDoneWorker, DrainDoneName
  <2>5. CASE Return
        BY <1>0, <2>5, LeavesWorker, ReturnName
  <2>6. CASE Destroy \/ Join
    <3>1. mpc \in {"idle", "join"} /\ mpc' \in {"join", "gone"} /\ UNCHANGED <<npc, nqueue>>
          BY <2>6 DEF Destroy, Join, name_vars
    <3> QED BY <1>0, <2>6, <3>1, LeavesWorker, BeforeDrainName DEF Draining
  <2>7. CASE \/ Deadline
             \/ \E c \in Chunk : PushChunk(c)
             \/ \E h \in Hit : Drain(h)
             \/ \E f \in nfound[NameOf] : DrainName(f)
    <3>1. UNCHANGED <<mpc, kind, job, posted, pending, queue, wpc, wjob, chunksClosed, foundClosed,
                      npc, njob, nqueue, nfoundClosed>>
          BY <2>7 DEF Deadline, PushChunk, Drain, DrainName, match_vars, job_vars, found_vars,
                      worker_vars, name_vars
    <3> QED BY <1>0, <3>1, WorkerFrame, NameFrame
  <2> QED BY <2>1, <2>2, <2>3, <2>4, <2>5, <2>6, <2>7 DEF Caller, MatchStep
<1> QED BY <1>1, <1>2, <1>3 DEF IInv

(***************************************************************************)
(* IInv is an inductive invariant of search_thread.                        *)
(***************************************************************************)
LEMMA NextIInv == IInv /\ [Next]_vars => IInv'
<1> SUFFICES ASSUME IInv, [Next]_vars PROVE IInv'
    OBVIOUS
<1>1. CASE Next
      BY <1>1, MatchKeepsInv, WorkerKeepsInv, NameKeepsInv DEF Next
<1>2. CASE UNCHANGED vars
  <2>1. UNCHANGED <<match_vars, job, job_vars, found_vars, limiter_vars, late, queue, closed,
                    worker_vars, nqueue, name_vars, ndelivered>>
        BY <1>2 DEF vars
  <2>2. TypeOK'
        BY <2>1, MatchTypeFrame, JobTypeFrame, WorkersTypeFrame, NamesTypeFrame DEF IInv, TypeOK
  <2>3. WorkerInv' /\ NameInv'
        BY <2>1, WorkerFrame, NameFrame
           DEF IInv, match_vars, job_vars, found_vars, worker_vars, name_vars
  <2>4. HitInHand'
        BY <2>1 DEF IInv, HitInHand, worker_vars
  <2> QED BY <2>2, <2>3, <2>4 DEF IInv
<1> QED BY <1>1, <1>2

-----------------------------------------------------------------------------
(***************************************************************************)
(* Every variable keeps its type; in particular j.pending never goes below *)
(* zero and never exceeds the number of threads, whatever the order of     *)
(* posting, popping and finishing.                                         *)
(***************************************************************************)
THEOREM TypeCorrect == Spec => []TypeOK
<1>1. IInv => TypeOK
      BY DEF IInv
<1> QED BY <1>1, InitIInv, NextIInv, PTL DEF Spec

(***************************************************************************)
(* No thread uses a job after the match() that owns it has returned: the   *)
(* job is on match()'s stack, and search_one, search_file_one and          *)
(* search_tree_one dereference pointers to it.                             *)
(***************************************************************************)
THEOREM JobSafe == Spec => []JobOutlivesUse
<1>1. IInv => JobOutlivesUse
  <2> SUFFICES ASSUME IInv PROVE JobOutlivesUse
      OBVIOUS
  <2>1. ASSUME NEW w \in Worker, wpc[w] \notin {"pop", "exited"}
        PROVE  Live /\ wjob[w] = job
    <3>1. wpc[w] \in BusyPC \cup {"close"}
          BY <2>1 DEF IInv, TypeOK, TypeOfWorkers, BusyPC
    <3> QED BY <3>1, HolderMeansActive DEF IInv, WorkerInv, HoldersHoldJob
  <2>2. ASSUME NEW k \in NameKind, npc[k] \notin {"pop", "exited"}
        PROVE  Live /\ njob[k] = job
    <3>1. npc[k] \in {"check", "close"}
          BY <2>2 DEF IInv, TypeOK, TypeOfNames, NamePC
    <3> QED BY <3>1 DEF IInv, NameInv, NameHolders, Draining, Live
  <2> QED BY <2>1, <2>2 DEF JobOutlivesUse
<1> QED BY <1>1, InitIInv, NextIInv, PTL DEF Spec

(***************************************************************************)
(* A worker that may still push a hit finds search.queue_ open: the close  *)
(* by the worker that brought j.pending to zero comes after the last push. *)
(***************************************************************************)
THEOREM PushesAreDelivered == Spec => []NoPushAfterClose
<1>1. IInv => NoPushAfterClose
  <2> SUFFICES ASSUME IInv, NEW w \in Worker, wpc[w] \in {"check", "push"}
               PROVE  ~foundClosed
      BY DEF NoPushAfterClose
  <2>1. wpc[w] \in BusyPC
        BY DEF BusyPC, WorkerPC
  <2>2. w \in Busy /\ pending # 0
        BY <2>1, NonePending DEF Busy, IInv
  <2>3. Active
        BY <2>1, HolderMeansActive DEF IInv
  <2> QED BY <2>2, <2>3 DEF IInv, WorkerInv, ClosedMeansDone
<1> QED BY <1>1, InitIInv, NextIInv, PTL DEF Spec

=============================================================================
