---------------------------- MODULE SearchRequest ----------------------------
(***************************************************************************)
(* CodeSearchImpl::Search of the grpc server: requests handled by          *)
(* concurrent handler threads, each of which borrows a search_thread from  *)
(* pool_ for a search of the corpus; a query that might name a tag first   *)
(* searches the tags index twice (TagsFirstSearch_), with search_threads   *)
(* of its own, and the corpus only for what is left of the match limit.    *)
(*                                                                         *)
(* match() is used through what SearchThread shows of it: it delivers some *)
(* of the matching lines, all of them if the reason is "none", and the     *)
(* reason is not "none" if it delivered as many lines as the limit.        *)
(***************************************************************************)
EXTENDS Integers, FiniteSets

CONSTANTS
    Handler,        \* grpc threads that run Search()
    Corpus,         \* the lines of the corpus that match the query
    Exact, Prefix,  \* those found as exact and as prefix matches of tags
    HasTags,        \* tagdata_ is loaded
    RequestLimit,   \* values of the request's max_matches
    FlagMaxMatches, \* --max_matches
    MaxRequests     \* bound: requests handled

SearchRequestAssumption ==
    /\ IsFiniteSet(Handler) /\ IsFiniteSet(Corpus)
    /\ Exact \subseteq Corpus /\ Prefix \subseteq Corpus
    /\ RequestLimit \subseteq Int /\ FlagMaxMatches \in Nat
    /\ HasTags \in BOOLEAN /\ MaxRequests \in Nat

VARIABLES
    hpc,        \* handler: "idle", "exact", "prefix", "tags", "borrow", "corpus"
    limit,      \* q.max_matches when the search begins (original_max_matches)
    lines,      \* the lines in the response (line_set)
    why,        \* stats.why
    status,     \* the status of the last answer: "none", "ok" or "error"
    asked,      \* max_matches of the request, and what kind of search it was
    borrowed,   \* the search_thread of the handler; 0: none
    pool,       \* pool_
    created,    \* search_threads created so far
    peak,       \* most handlers that were in a corpus search at once
    requests

vars == <<hpc, limit, lines, why, status, asked, borrowed, pool, created, peak, requests>>

ExitReason == {"none", "timeout", "match_limit"}
Kinds == {"tagged", "might_match_tags", "plain"}

Init ==
    /\ hpc = [h \in Handler |-> "idle"]
    /\ limit = [h \in Handler |-> 0]
    /\ lines = [h \in Handler |-> {}]
    /\ why = [h \in Handler |-> "none"]
    /\ status = [h \in Handler |-> "none"]
    /\ asked = [h \in Handler |-> [max |-> 0, kind |-> "plain"]]
    /\ borrowed = [h \in Handler |-> 0]
    /\ pool = {} /\ created = 0 /\ peak = 0 /\ requests = 0

(***************************************************************************)
(* A request arrives and its query is parsed.  0 asks for the default      *)
(* limit; a negative value for no limit, which match() knows as 0.         *)
(***************************************************************************)
EffectiveLimit(m) ==
    IF m = 0 /\ FlagMaxMatches # 0 THEN FlagMaxMatches ELSE IF m < 0 THEN 0 ELSE m

(* q.tags_pat given: tags only; else tags first if that could match.       *)
FirstStep(kind) ==
    CASE kind = "tagged" -> "tags"
      [] kind = "might_match_tags" /\ HasTags -> "exact"
      [] OTHER -> "borrow"

Accept(h, m, kind) ==
    /\ hpc[h] = "idle" /\ requests < MaxRequests
    /\ kind = "tagged" => HasTags
    /\ requests' = requests + 1
    /\ asked' = [asked EXCEPT ![h] = [max |-> m, kind |-> kind]]
    /\ limit' = [limit EXCEPT ![h] = EffectiveLimit(m)]
    /\ lines' = [lines EXCEPT ![h] = {}]
    /\ why' = [why EXCEPT ![h] = "none"]
    /\ status' = [status EXCEPT ![h] = "none"]
    /\ hpc' = [hpc EXCEPT ![h] = FirstStep(kind)]
    /\ UNCHANGED <<borrowed, pool, created, peak>>

(* A pattern that does not parse or is too large; tags without a tags file.*)
Reject(h) ==
    /\ hpc[h] = "idle" /\ requests < MaxRequests
    /\ requests' = requests + 1
    /\ lines' = [lines EXCEPT ![h] = {}]
    /\ status' = [status EXCEPT ![h] = "error"]
    /\ UNCHANGED <<hpc, limit, why, asked, borrowed, pool, created, peak>>

(* What search->match(q, cb) may do, with q.max_matches = max.             *)
MatchDelivers(matching, max, S, reason) ==
    /\ S \subseteq matching
    /\ reason = "none" => S = matching
    /\ reason = "match_limit" => max > 0
    /\ max > 0 /\ Cardinality(S) >= max => reason # "none"

(* cb(m): add_match drops a line the response already has.                 *)
AddMatches(h, S) == lines' = [lines EXCEPT ![h] = @ \cup S]

(* q.max_matches of a pass: what the passes before it have left.           *)
Remaining(h) == limit[h] - Cardinality(lines[h])

AnswerWith(h, reason) ==
    /\ why' = [why EXCEPT ![h] = reason]
    /\ status' = [status EXCEPT ![h] = "ok"]
    /\ hpc' = [hpc EXCEPT ![h] = "idle"]

(***************************************************************************)
(* The exact and the prefix pass over the tags; each is followed by        *)
(*   q.max_matches = original_max_matches - cb.match_count();              *)
(*   if (q.max_matches <= 0) return;                                       *)
(***************************************************************************)
Exhausted(h, S) == limit[h] - Cardinality(S) <= 0

TagsPass(h, here, matching, nextpc) ==
    \E S \in SUBSET matching, reason \in ExitReason :
        /\ hpc[h] = here
        /\ MatchDelivers(matching, Remaining(h), S, reason)
        /\ AddMatches(h, S)
        /\ IF Exhausted(h, lines'[h])
           THEN AnswerWith(h, reason)
           ELSE /\ hpc' = [hpc EXCEPT ![h] = nextpc]
                /\ why' = [why EXCEPT ![h] = reason]
                /\ UNCHANGED status
        /\ UNCHANGED <<limit, asked, borrowed, pool, created, peak, requests>>

ExactPass(h)  == TagsPass(h, "exact", Exact, "prefix")
PrefixPass(h) == TagsPass(h, "prefix", Prefix, "borrow")

(* tags: given: one pass over the tags and nothing else.                   *)
TagsOnly(h) ==
    \E S \in SUBSET (Exact \cup Prefix), reason \in ExitReason :
        /\ hpc[h] = "tags"
        /\ MatchDelivers(Exact \cup Prefix, Remaining(h), S, reason)
        /\ AddMatches(h, S)
        /\ AnswerWith(h, reason)
        /\ UNCHANGED <<limit, asked, borrowed, pool, created, peak, requests>>

(* if (!pool_.try_pop(&search)) search = new search_thread(cs_);           *)
Borrow(h) ==
    /\ hpc[h] = "borrow"
    /\ IF pool # {}
       THEN \E t \in pool :
                /\ borrowed' = [borrowed EXCEPT ![h] = t]
                /\ pool' = pool \ {t}
                /\ UNCHANGED created
       ELSE /\ created' = created + 1
            /\ borrowed' = [borrowed EXCEPT ![h] = created + 1]
            /\ UNCHANGED pool
    /\ hpc' = [hpc EXCEPT ![h] = "corpus"]
    /\ LET busy == Cardinality({g \in Handler : borrowed'[g] # 0})
       IN  peak' = IF busy > peak THEN busy ELSE peak
    /\ UNCHANGED <<limit, lines, why, status, asked, requests>>

(* search->match(q, ...); pool_.push(search);                              *)
CorpusPass_NoPush(h) ==
    \E S \in SUBSET Corpus, reason \in ExitReason :
        /\ hpc[h] = "corpus"
        /\ MatchDelivers(Corpus, Remaining(h), S, reason)
        /\ AddMatches(h, S)
        /\ AnswerWith(h, reason)
        /\ borrowed' = [borrowed EXCEPT ![h] = 0]
        /\ UNCHANGED <<limit, asked, pool, created, peak, requests>>
CorpusPass(h) ==
    \E S \in SUBSET Corpus, reason \in ExitReason :
        /\ hpc[h] = "corpus"
        /\ MatchDelivers(Corpus, Remaining(h), S, reason)
        /\ AddMatches(h, S)
        /\ AnswerWith(h, reason)
        /\ pool' = pool \cup {borrowed[h]}
        /\ borrowed' = [borrowed EXCEPT ![h] = 0]
        /\ UNCHANGED <<limit, asked, created, peak, requests>>

Next ==
    \E h \in Handler :
        \/ \E m \in RequestLimit, kind \in Kinds : Accept(h, m, kind)
        \/ Reject(h)
        \/ ExactPass(h) \/ PrefixPass(h) \/ TagsOnly(h)
        \/ Borrow(h) \/ CorpusPass(h)

Spec == Init /\ [][Next]_vars

-----------------------------------------------------------------------------
Answered(h) == hpc[h] = "idle" /\ status[h] = "ok"

(***************************************************************************)
(* An answer with exit reason NONE that had a limit holds every matching   *)
(* line of the corpus, or of the tags for a tags: query, although up to    *)
(* three searches with three limits contribute to it and only the last     *)
(* one's reason is reported.                                               *)
(***************************************************************************)
NoneMeansComplete ==
    \A h \in Handler :
        Answered(h) /\ why[h] = "none" /\ limit[h] > 0 =>
            lines[h] = IF asked[h].kind = "tagged" THEN Exact \cup Prefix ELSE Corpus

(***************************************************************************)
(* "For explicitly negative match limits, disable the match limiter        *)
(* entirely" (grpc_server.cc:326): such a request that is not cut by the   *)
(* timeout is answered with every matching line of the corpus.             *)
(***************************************************************************)
UnlimitedMeansComplete ==
    \A h \in Handler :
        Answered(h) /\ why[h] = "none" /\ asked[h].max < 0 /\ asked[h].kind # "tagged" =>
            lines[h] = Corpus

(***************************************************************************)
(* A search_thread serves one request at a time (its queues are not made   *)
(* for two), and no more of them, with their worker threads, are created   *)
(* than there were requests in a corpus search at once.                    *)
(***************************************************************************)
PoolDiscipline ==
    /\ \A g, h \in Handler : g # h /\ borrowed[g] # 0 => borrowed[g] # borrowed[h]
    /\ \A h \in Handler : borrowed[h] \notin pool
    /\ created <= peak

(***************************************************************************)
(* No search_thread leaks: each one ever created is in the pool, where the *)
(* destructor finds it, or borrowed by a handler that will put it back.    *)
(***************************************************************************)
NoThreadLeaks ==
    pool \cup {borrowed[h] : h \in {g \in Handler : hpc[g] = "corpus"}} = 1..created
=============================================================================
