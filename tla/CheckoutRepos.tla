---------------------------- MODULE CheckoutRepos ----------------------------
(***************************************************************************)
(* checkoutRepos and checkoutWorker of livegrep-fetch-reindex: NumWorkers  *)
(* goroutines take repositories from the unbuffered channel repoc, clone   *)
(* or fetch them with checkoutOne, and report failures on errc, a channel  *)
(* with room for NumWorkers errors.  The main goroutine sends the          *)
(* repositories, stops at the first error it receives, and waits for the   *)
(* workers without receiving from errc any more.                           *)
(***************************************************************************)
EXTENDS Naturals, FiniteSets

CONSTANTS
    Worker,     \* the *flagNumWorkers goroutines
    NumRepos    \* len(repos)

ASSUME CheckoutAssumption ==
    IsFiniteSet(Worker) /\ Worker # {} /\ NumRepos \in Nat

VARIABLES
    failing,    \* the repositories whose checkoutOne fails (all its retries)
    mpc,        \* the main goroutine: "send", "wait", "collect", "returned"
    next,       \* the repository it sends next
    repocClosed, stopClosed,
    errc,       \* errors buffered in errc
    err,        \* checkoutRepos returned, or will return, an error
    wpc, wrepo, \* the workers
    fetched     \* repositories whose checkoutOne succeeded

vars == <<failing, mpc, next, repocClosed, stopClosed, errc, err, wpc, wrepo, fetched>>

Repo == 1..NumRepos
Capacity == Cardinality(Worker)

TypeOK ==
    /\ failing \subseteq Repo /\ fetched \subseteq Repo
    /\ mpc \in {"send", "wait", "collect", "returned"}
    /\ next \in 1..(NumRepos + 1)
    /\ repocClosed \in BOOLEAN /\ stopClosed \in BOOLEAN /\ err \in BOOLEAN
    /\ errc \in 0..Capacity
    /\ wpc \in [Worker -> {"select", "checkout", "report", "exited"}]
    /\ wrepo \in [Worker -> 0..NumRepos]

Init ==
    /\ failing \in SUBSET Repo
    /\ mpc = "send" /\ next = 1
    /\ repocClosed = FALSE /\ stopClosed = FALSE
    /\ errc = 0 /\ err = FALSE
    /\ wpc = [w \in Worker |-> "select"]
    /\ wrepo = [w \in Worker |-> 0]
    /\ fetched = {}

-----------------------------------------------------------------------------
(* case repoc <- repos[i]: a rendezvous with a worker in its select.       *)
SendRepo(w) ==
    /\ mpc = "send" /\ next <= NumRepos /\ wpc[w] = "select"
    /\ wpc' = [wpc EXCEPT ![w] = "checkout"]
    /\ wrepo' = [wrepo EXCEPT ![w] = next]
    /\ next' = next + 1
    /\ UNCHANGED <<failing, mpc, repocClosed, stopClosed, errc, err, fetched>>

(* case err = <-errc: close(stop), leave the loop, close(repoc).           *)
ReceiveError ==
    /\ mpc = "send" /\ next <= NumRepos /\ errc > 0
    /\ errc' = errc - 1
    /\ err' = TRUE
    /\ stopClosed' = TRUE /\ repocClosed' = TRUE
    /\ mpc' = "wait"
    /\ UNCHANGED <<failing, next, wpc, wrepo, fetched>>

AllSent ==
    /\ mpc = "send" /\ next > NumRepos
    /\ repocClosed' = TRUE
    /\ mpc' = "wait"
    /\ UNCHANGED <<failing, next, stopClosed, errc, err, wpc, wrepo, fetched>>

(* wg.Wait()                                                               *)
Waited ==
    /\ mpc = "wait" /\ \A w \in Worker : wpc[w] = "exited"
    /\ mpc' = "collect"
    /\ UNCHANGED <<failing, next, repocClosed, stopClosed, errc, err, wpc, wrepo,
                   fetched>>

(* select { case err = <-errc: default: }; return err                      *)
Collect_ForgetsErrc ==
    /\ mpc = "collect"
    /\ mpc' = "returned"
    /\ UNCHANGED <<failing, next, repocClosed, stopClosed, errc, err, wpc, wrepo, fetched>>
Collect ==
    /\ mpc = "collect"
    /\ errc' = IF errc > 0 THEN errc - 1 ELSE 0
    /\ err' = (err \/ errc > 0)
    /\ mpc' = "returned"
    /\ UNCHANGED <<failing, next, repocClosed, stopClosed, wpc, wrepo, fetched>>

-----------------------------------------------------------------------------
(* checkoutOne(r) returns.                                                 *)
Checkout_ReportsAlways(w) ==
    /\ wpc[w] = "checkout"
    /\ wpc' = [wpc EXCEPT ![w] = "report"]
    /\ fetched' = IF wrepo[w] \in failing THEN fetched ELSE fetched \cup {wrepo[w]}
    /\ UNCHANGED <<failing, mpc, next, repocClosed, stopClosed, errc, err, wrepo>>
Checkout(w) ==
    /\ wpc[w] = "checkout"
    /\ IF wrepo[w] \in failing
       THEN wpc' = [wpc EXCEPT ![w] = "report"] /\ UNCHANGED fetched
       ELSE /\ wpc' = [wpc EXCEPT ![w] = "select"]
            /\ fetched' = fetched \cup {wrepo[w]}
    /\ UNCHANGED <<failing, mpc, next, repocClosed, stopClosed, errc, err, wrepo>>

(* errc <- err blocks while the buffer is full.                            *)
Report_SmallBuffer(w) ==
    /\ wpc[w] = "report" /\ errc < Capacity - 1
    /\ errc' = errc + 1
    /\ wpc' = [wpc EXCEPT ![w] = "select"]
    /\ UNCHANGED <<failing, mpc, next, repocClosed, stopClosed, err, wrepo, fetched>>
Report(w) ==
    /\ wpc[w] = "report" /\ errc < Capacity
    /\ errc' = errc + 1
    /\ wpc' = [wpc EXCEPT ![w] = "select"]
    /\ UNCHANGED <<failing, mpc, next, repocClosed, stopClosed, err, wrepo, fetched>>

(* A receive from the closed repoc, or from the closed stop.               *)
Exit(w) ==
    /\ wpc[w] = "select" /\ (repocClosed \/ stopClosed)
    /\ wpc' = [wpc EXCEPT ![w] = "exited"]
    /\ UNCHANGED <<failing, mpc, next, repocClosed, stopClosed, errc, err, wrepo,
                   fetched>>

MainStep == ReceiveError \/ AllSent \/ Waited \/ Collect \/ \E w \in Worker : SendRepo(w)
WorkerStep(w) == Checkout(w) \/ Report(w) \/ Exit(w)

Next == MainStep \/ \E w \in Worker : WorkerStep(w)

(* The Go scheduler runs every goroutine that can run.                     *)
Spec == Init /\ [][Next]_vars /\ WF_vars(MainStep)
             /\ \A w \in Worker : WF_vars(WorkerStep(w))

-----------------------------------------------------------------------------
(***************************************************************************)
(* checkoutRepos returns nil only if every repository was fetched: no      *)
(* failure is lost between the workers, the buffer and the two places that *)
(* receive from it, so fetch-reindex never indexes stale clones silently.  *)
(***************************************************************************)
NilMeansAllFetched == mpc = "returned" /\ ~err => fetched = Repo

(***************************************************************************)
(* Conversely an error is returned only if some repository failed.         *)
(***************************************************************************)
ErrorMeansFailure == mpc = "returned" /\ err => failing # {}

(***************************************************************************)
(* With no more failing repositories than errc has room for, main returns: *)
(* no worker is left blocked on errc while main waits for it.              *)
(***************************************************************************)
FewFailuresReturn == Cardinality(failing) <= Capacity => <>(mpc = "returned")

(***************************************************************************)
(* The only way not to make progress is main in wg.Wait() and every worker *)
(* that has not exited blocked on a full errc, after more failures than    *)
(* errc has room for.                                                      *)
(***************************************************************************)
StuckOnlyOnFullErrc ==
    mpc = "returned" \/ ENABLED Next
    \/ /\ mpc = "wait" /\ errc = Capacity /\ Cardinality(failing) > Capacity
       /\ \A w \in Worker : wpc[w] \in {"report", "exited"}
=============================================================================
