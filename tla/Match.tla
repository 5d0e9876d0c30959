-------------------------------- MODULE Match --------------------------------
(***************************************************************************)
(* What code_searcher::search_thread::match() promises its caller, without *)
(* threads, queues or limiters: it passes matching results to the callback *)
(* one at a time, each at most once, then returns with a reason; only when *)
(* the reason is kExitNone are the results all there are.                  *)
(***************************************************************************)
CONSTANTS
    Result,     \* every line or name the query could match
    Matching    \* Matching[k]: the results a search of kind k ought to find

VARIABLES
    running,    \* a call of match() is in progress
    wanted,     \* what the call searches: a member of DOMAIN Matching
    out,        \* the results it has passed to the callback
    reason      \* the exit reason of the last call that returned

vars == <<running, wanted, out, reason>>

Init ==
    /\ running = FALSE
    /\ wanted \in DOMAIN Matching
    /\ out = {}
    /\ reason = "none"

Call(k) ==
    /\ ~running
    /\ running' = TRUE
    /\ wanted' = k
    /\ out' = {}
    /\ reason' = "none"

Deliver(r) ==
    /\ running
    /\ r \in Matching[wanted] \ out
    /\ out' = out \cup {r}
    /\ UNCHANGED <<running, wanted, reason>>

ReturnWith(why) ==
    /\ running
    /\ why = "none" => out = Matching[wanted]
    /\ running' = FALSE
    /\ reason' = why
    /\ UNCHANGED <<wanted, out>>

Next ==
    \/ \E k \in DOMAIN Matching : Call(k)
    \/ \E r \in Result : Deliver(r)
    \/ \E why \in {"none", "timeout", "match_limit"} : ReturnWith(why)

Spec == Init /\ [][Next]_vars
=============================================================================
