------------------------- MODULE CheckoutReposProofs -------------------------
(***************************************************************************)
(* Proofs about CheckoutRepos, for any number of workers and repositories. *)
(***************************************************************************)
EXTENDS CheckoutRepos, TLAPS, FiniteSetTheorems

(***************************************************************************)
(* A failure that has not been lost: it is on its way to errc, in errc, or *)
(* already in err.                                                         *)
(***************************************************************************)
FailureKept == err \/ errc > 0 \/ \E w \in Worker : wpc[w] = "report"

(***************************************************************************)
(* Every repository sent so far is fetched, in the hands of a worker, or a *)
(* failure is known; once main has left the send loop with no error it has *)
(* sent them all; and when it has received from errc for the last time     *)
(* every worker has exited, so nothing changes any more.                   *)
(***************************************************************************)
SentAccounted ==
    \A r \in Repo : r < next =>
        \/ r \in fetched
        \/ \E w \in Worker : wpc[w] = "checkout" /\ wrepo[w] = r
        \/ FailureKept

LeftTheLoop == mpc # "send" => err \/ next = NumRepos + 1

AllExited == mpc \in {"collect", "returned"} => \A w \in Worker : wpc[w] = "exited"

LastReceive == mpc = "returned" /\ errc > 0 => err

FailureReal == FailureKept => failing # {}

HandIsSent == \A w \in Worker : wpc[w] = "checkout" => wrepo[w] \in Repo

CheckoutInv ==
    /\ TypeOK
    /\ SentAccounted
    /\ LeftTheLoop
    /\ AllExited
    /\ LastReceive
    /\ FailureReal
    /\ HandIsSent

(***************************************************************************)
(* errc has room for at least one error.                                   *)
(***************************************************************************)
LEMMA CapacityPositive == Capacity \in Nat \ {0}
BY CheckoutAssumption, FS_CardinalityType, FS_EmptySet DEF Capacity

LEMMA InitCheckoutInv == Init => CheckoutInv
<1> SUFFICES ASSUME Init PROVE CheckoutInv
    OBVIOUS
<1>1. TypeOK
  <2>1. next \in 1..(NumRepos + 1) /\ errc \in 0..Capacity
        BY CheckoutAssumption, CapacityPositive DEF Init
  <2>2. wrepo \in [Worker -> 0..NumRepos]
        BY CheckoutAssumption DEF Init
  <2> QED BY <2>1, <2>2 DEF Init, TypeOK
<1>2. ~FailureKept
      BY DEF Init, FailureKept
<1>3. SentAccounted /\ LeftTheLoop
      BY CheckoutAssumption DEF Init, SentAccounted, LeftTheLoop, Repo
<1>4. AllExited /\ LastReceive /\ HandIsSent
      BY DEF Init, AllExited, LastReceive, HandIsSent
<1> QED BY <1>1, <1>2, <1>3, <1>4 DEF CheckoutInv, FailureReal

LEMMA NextCheckoutInv == CheckoutInv /\ [Next]_vars => CheckoutInv'
<1> SUFFICES ASSUME CheckoutInv, [Next]_vars
             PROVE  CheckoutInv'
    OBVIOUS
<1> USE CheckoutAssumption, CapacityPositive
<1> USE DEF CheckoutInv, TypeOK, SentAccounted, LeftTheLoop, AllExited, LastReceive,
            FailureReal, FailureKept, HandIsSent, Repo
<1>1. ASSUME NEW w \in Worker, SendRepo(w) PROVE CheckoutInv'
      BY <1>1 DEF SendRepo
<1>2. CASE ReceiveError BY <1>2 DEF ReceiveError
<1>3. CASE AllSent BY <1>3 DEF AllSent
<1>4. CASE Waited BY <1>4 DEF Waited
<1>5. CASE Collect
  <2>1. CASE errc > 0
    <3>1. err' /\ err' \in BOOLEAN
          BY <1>5, <2>1 DEF Collect
    <3>2. FailureKept /\ FailureReal'
          BY <1>5, <2>1 DEF Collect
    <3> QED BY <1>5, <2>1, <3>1, <3>2 DEF Collect
  <2>2. CASE ~(errc > 0)
        BY <1>5, <2>2 DEF Collect
  <2> QED BY <2>1, <2>2
<1>6. ASSUME NEW w \in Worker, Checkout(w) PROVE CheckoutInv'
  <2>1. CASE wrepo[w] \in failing
        BY <1>6, <2>1 DEF Checkout
  <2>2. CASE wrepo[w] \notin failing
    <3>1. TypeOK' /\ LeftTheLoop' /\ AllExited' /\ LastReceive' /\ HandIsSent'
          BY <1>6, <2>2 DEF Checkout
    <3>2. FailureKept' <=> FailureKept
          BY <1>6, <2>2 DEF Checkout
    <3>3. SentAccounted'
          BY <1>6, <2>2, <3>2 DEF Checkout
    <3> QED BY <1>6, <2>2, <3>1, <3>2, <3>3 DEF Checkout
  <2> QED BY <2>1, <2>2
<1>7. ASSUME NEW w \in Worker, Report(w) PROVE CheckoutInv'
      BY <1>7 DEF Report
<1>8. ASSUME NEW w \in Worker, Exit(w) PROVE CheckoutInv'
      BY <1>8 DEF Exit
<1>9. CASE UNCHANGED vars BY <1>9 DEF vars
<1> QED
    BY <1>1, <1>2, <1>3, <1>4, <1>5, <1>6, <1>7, <1>8, <1>9 DEF Next, MainStep, WorkerStep

LEMMA CheckoutInvariant == Spec => []CheckoutInv
BY InitCheckoutInv, NextCheckoutInv, PTL DEF Spec

(***************************************************************************)
(* checkoutRepos returns nil only when every repository was fetched.       *)
(***************************************************************************)
THEOREM NilIsSuccess == Spec => []NilMeansAllFetched
<1>1. CheckoutInv => NilMeansAllFetched
  <2> SUFFICES ASSUME CheckoutInv, mpc = "returned", ~err
               PROVE  fetched = Repo
      BY DEF NilMeansAllFetched
  <2>1. ~FailureKept
        BY DEF CheckoutInv, TypeOK, AllExited, LastReceive, FailureKept
  <2>2. next = NumRepos + 1
        BY DEF CheckoutInv, LeftTheLoop
  <2>3. \A r \in Repo : r < next
        BY <2>2, CheckoutAssumption DEF Repo
  <2>4. \A r \in Repo : r \in fetched
        BY <2>1, <2>3 DEF CheckoutInv, SentAccounted, AllExited
  <2> QED BY <2>4 DEF CheckoutInv, TypeOK
<1> QED BY <1>1, CheckoutInvariant, PTL

(***************************************************************************)
(* checkoutRepos returns an error only when some repository failed.        *)
(***************************************************************************)
THEOREM ErrorIsFailure == Spec => []ErrorMeansFailure
<1>1. CheckoutInv => ErrorMeansFailure
      BY DEF CheckoutInv, ErrorMeansFailure, FailureReal, FailureKept
<1> QED BY <1>1, CheckoutInvariant, PTL
=============================================================================
