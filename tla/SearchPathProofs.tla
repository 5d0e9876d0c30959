--------------------------- MODULE SearchPathProofs ---------------------------
(***************************************************************************)
(* Proofs about the parts a search passes through, for any queries, any    *)
(* number of handlers and requests and any limits.  The parts share no     *)
(* state: each has an inductive invariant of its own, and SpecPathInv puts *)
(* them together.                                                          *)
(***************************************************************************)
EXTENDS SearchPath, FiniteSets, FiniteSetTheorems, TLAPS

-----------------------------------------------------------------------------
(* The search box.                                                         *)

(* The url of what the user sees: of the query in the box, or of the       *)
(* history entry that set the box.                                         *)
Current == [q |-> IF popped = Empty THEN q ELSE popped, regex |-> regex]

(***************************************************************************)
(* The box has the decoded text of its history entry.  With a query in it, *)
(* urlFetching is the url of what the user sees; and results on the        *)
(* page that are not its results will be replaced by the answer to a       *)
(* request that is in flight, unless that one was lost.                    *)
(***************************************************************************)
BoxInv ==
    /\ popped # Empty => q = Decode[popped]
    /\ q # Empty =>
        /\ urlFetching = Current
        /\ shown.kind = "results" =>
               \/ shown.url = Current
               \/ Current \in lost
               \/ \E m \in inflight : m.url = Current

LEMMA BoxInit == Box!Init => BoxInv
BY DEF Box!Init, BoxInv

(* doSearch: the help page for an empty query, else a request for its url. *)
LEMMA BoxSearch ==
    ASSUME popped' # Empty => q' = Decode[popped'],
           NEW t, t = IF popped' = Empty THEN q' ELSE popped',
           Box!DoSearch(t, regex')
    PROVE  BoxInv'
<1> SUFFICES ASSUME q' # Empty
             PROVE  urlFetching' = Current' /\ \E m \in inflight' : m.url = Current'
    BY DEF BoxInv
<1>1. t # Empty /\ Current' = [q |-> t, regex |-> regex']
      BY DEF Current
<1>2. urlFetching' = Current' /\ [id |-> fetches + 1, url |-> Current'] \in inflight'
      BY <1>1 DEF Box!DoSearch
<1> QED BY <1>2

(* popstate decodes once more, or throws.                                  *)
LEMMA BoxPops ==
    ASSUME BoxInv, NEW t \in Query \cup {Empty}, NEW r \in BOOLEAN, Box!PopState(t, r)
    PROVE  BoxInv'
<1> DEFINE box == IF t = Empty THEN Empty ELSE Decode[t]
<1>1. CASE box = Malformed
  <2>1. UNCHANGED <<q, regex, urlFetching, inflight, shown, lost, popped>>
        BY <1>1 DEF Box!PopState, Box!vars
  <2> QED BY <2>1 DEF BoxInv, Current
<1>2. CASE box # Malformed
  <2>1. q' = box /\ regex' = r /\ popped' = t /\ Box!DoSearch(t, r)
        BY <1>2 DEF Box!PopState
  <2>2. t = IF popped' = Empty THEN q' ELSE popped'
        BY <2>1
  <2>3. popped' # Empty => q' = Decode[popped']
        BY <2>1
  <2> HIDE DEF box
  <2> QED BY <2>1, <2>2, <2>3, BoxSearch
<1> QED BY <1>1, <1>2

LEMMA BoxNext ==
    ASSUME BoxInv, Box!Next
    PROVE  BoxInv'
<1>1. ASSUME NEW t \in Query \cup {Empty}, Box!UpdateQuery(t)
      PROVE  BoxInv'
      BY <1>1, BoxSearch DEF Box!UpdateQuery
<1>2. CASE Box!ToggleRegex
  <2>1. popped' = Empty /\ q' = q /\ Box!DoSearch(q, regex')
        BY <1>2 DEF Box!ToggleRegex
  <2> QED BY <2>1, BoxSearch
<1>3. ASSUME NEW t \in Query \cup {Empty}, NEW r \in BOOLEAN, Box!PopState(t, r)
      PROVE  BoxInv'
      BY <1>3, BoxPops
<1>4. ASSUME NEW m \in inflight, Box!Results(m) \/ Box!ErrorText(m) \/ Box!NetworkError(m)
      PROVE  BoxInv'
  <2>1. Current' = Current /\ UNCHANGED <<q, urlFetching, popped>> /\ inflight' = inflight \ {m}
        BY <1>4 DEF Current, Box!Results, Box!ErrorText, Box!NetworkError
  <2>2. CASE Box!Results(m)
        BY <2>1, <2>2 DEF BoxInv, Box!Results, Box!Show
  <2>3. CASE Box!ErrorText(m)
        BY <2>1, <2>3 DEF BoxInv, Box!ErrorText, Box!Show
  <2>4. CASE Box!NetworkError(m)
        BY <2>1, <2>4 DEF BoxInv, Box!NetworkError
  <2> QED BY <1>4, <2>2, <2>3, <2>4
<1> QED BY <1>1, <1>2, <1>3, <1>4 DEF Box!Next

LEMMA BoxSettles == BoxInv => Box!SettledOnQuery
<1> SUFFICES ASSUME BoxInv, inflight = {}, q # Empty, shown.kind = "results"
             PROVE  Box!AsksFor(shown.url) \/ \E url \in lost : Box!AsksFor(url)
    BY DEF Box!SettledOnQuery
<1>1. shown.url = Current \/ Current \in lost
      BY DEF BoxInv
<1>2. Box!AsksFor(Current)
      BY DEF Box!AsksFor, Current, BoxInv
<1> QED BY <1>1, <1>2

-----------------------------------------------------------------------------
(* The gRPC service.                                                       *)

HandlerPC == {"idle", "exact", "prefix", "tags", "borrow", "corpus"}

ServiceType ==
    /\ hpc \in [Handler -> HandlerPC]
    /\ limit \in [Handler -> Nat]
    /\ lines \in [Handler -> SUBSET Corpus]
    /\ asked \in [Handler -> [max : Int, kind : Service!Kinds]]
    /\ why \in [Handler -> Service!ExitReason]
    /\ status \in [Handler -> {"none", "ok", "error"}]
    /\ borrowed \in [Handler -> Nat]
    /\ created \in Nat /\ peak \in Nat

(***************************************************************************)
(* What a handler knows at each of its searches: which kind of request it  *)
(* is, that the first pass over the tags starts with no line, and that the *)
(* second one has some of the limit left.                                  *)
(***************************************************************************)
PassInv ==
    \A h \in Handler :
        /\ hpc[h] = "tags" => asked[h].kind = "tagged" /\ lines[h] = {}
        /\ hpc[h] \in {"exact", "prefix", "borrow", "corpus"} => asked[h].kind # "tagged"
        /\ hpc[h] = "exact" => lines[h] = {}
        /\ hpc[h] = "prefix" => limit[h] - Cardinality(lines[h]) > 0

(***************************************************************************)
(* A handler has a search_thread exactly while it searches the corpus, and *)
(* each search_thread is in one place.                                     *)
(***************************************************************************)
InCorpus == {h \in Handler : hpc[h] = "corpus"}

PoolInv ==
    /\ \A h \in Handler : borrowed[h] # 0 <=> h \in InCorpus
    /\ \A g, h \in InCorpus : g # h => borrowed[g] # borrowed[h]
    /\ \A h \in InCorpus : borrowed[h] \notin pool
    /\ pool \cup {borrowed[h] : h \in InCorpus} = 1..created
    /\ created <= peak

ServiceInv == ServiceType /\ Service!NoneMeansComplete /\ PassInv /\ PoolInv

LEMMA ServiceInit == Service!Init => ServiceInv
<1> SUFFICES ASSUME Service!Init PROVE ServiceInv
    OBVIOUS
<1>1. ServiceType
      BY DEF Service!Init, ServiceType, HandlerPC, Service!Kinds, Service!ExitReason
<1>2. Service!NoneMeansComplete
      BY DEF Service!Init, Service!NoneMeansComplete, Service!Answered
<1>3. PassInv
      BY DEF Service!Init, PassInv
<1>4. PoolInv
  <2>1. InCorpus = {}
        BY DEF Service!Init, InCorpus
  <2> QED BY <2>1 DEF Service!Init, PoolInv
<1> QED BY <1>1, <1>2, <1>3, <1>4 DEF ServiceInv

(* SearchRequest's copies of the operators of FiniteSets are the same.     *)
LEMMA ServiceSets ==
    \A S : /\ Service!IsFiniteSet(S) <=> IsFiniteSet(S)
           /\ Service!Cardinality(S) = Cardinality(S)
<1> TAKE S
<1>1. Service!IsFiniteSet(S) <=> IsFiniteSet(S)
      BY DEF Service!IsFiniteSet, IsFiniteSet
<1>2. Service!Cardinality(S) = Cardinality(S)
      BY DEF Service!Cardinality, Cardinality
<1> QED BY <1>1, <1>2

LEMMA ServiceConstants ==
    /\ IsFiniteSet(Handler) /\ IsFiniteSet(Corpus)
    /\ Exact \subseteq Corpus /\ Prefix \subseteq Corpus
    /\ RequestLimit \subseteq Int /\ FlagMaxMatches \in Nat
BY Assumptions, ServiceSets DEF Service!SearchRequestAssumption

LEMMA LinesFinite ==
    ASSUME ServiceType, NEW h \in Handler
    PROVE  IsFiniteSet(lines[h]) /\ Cardinality(lines[h]) \in Nat
<1>1. lines[h] \subseteq Corpus /\ IsFiniteSet(Corpus)
      BY ServiceConstants DEF ServiceType
<1> QED BY <1>1, FS_Subset, FS_CardinalityType

(* Accept and Reject.                                                      *)
LEMMA AcceptService ==
    ASSUME ServiceInv, NEW h \in Handler, NEW m \in RequestLimit, NEW kind \in Service!Kinds,
           Service!Accept(h, m, kind)
    PROVE  ServiceInv'
<1> USE DEF ServiceInv
<1>1. Service!EffectiveLimit(m) \in Nat /\ m \in Int
      BY ServiceConstants DEF Service!EffectiveLimit
<1>2. /\ Service!FirstStep(kind) \in HandlerPC \ {"idle", "prefix", "corpus"}
      /\ Service!FirstStep(kind) = "tags" <=> kind = "tagged"
      BY DEF Service!FirstStep, Service!Kinds, HandlerPC
<1>3. ServiceType'
      BY <1>1, <1>2 DEF ServiceType, Service!Accept, Service!Kinds, Service!ExitReason, HandlerPC
<1>4. Service!NoneMeansComplete'
      BY <1>2 DEF Service!NoneMeansComplete, Service!Answered, Service!Accept, ServiceType
<1>5. PassInv'
      BY <1>2 DEF PassInv, Service!Accept, ServiceType
<1>6. InCorpus' = InCorpus
      BY <1>2 DEF InCorpus, Service!Accept, ServiceType
<1>7. PoolInv'
      BY <1>6 DEF PoolInv, Service!Accept
<1> QED BY <1>3, <1>4, <1>5, <1>7

LEMMA RejectService ==
    ASSUME ServiceInv, NEW h \in Handler, Service!Reject(h)
    PROVE  ServiceInv'
<1> USE DEF ServiceInv
<1>1. ServiceType'
      BY DEF ServiceType, Service!Reject
<1>2. Service!NoneMeansComplete' /\ PassInv'
      BY DEF Service!NoneMeansComplete, Service!Answered, Service!Reject, ServiceType, PassInv
<1>3. PoolInv'
      BY DEF PoolInv, InCorpus, Service!Reject
<1> QED BY <1>1, <1>2, <1>3

(***************************************************************************)
(* A pass that delivered every line it could and still had a limit leaves  *)
(* some of it: the union is smaller than what was there and what came.     *)
(***************************************************************************)
LEMMA NotExhausted ==
    ASSUME ServiceType, NEW h \in Handler, NEW S \in SUBSET Corpus,
           limit[h] - Cardinality(lines[h]) > 0,
           Cardinality(S) < limit[h] - Cardinality(lines[h])
    PROVE  ~Service!Exhausted(h, lines[h] \cup S)
<1>1. IsFiniteSet(S) /\ Cardinality(S) \in Nat
      BY ServiceConstants, FS_Subset, FS_CardinalityType
<1>2. IsFiniteSet(lines[h]) /\ Cardinality(lines[h]) \in Nat
      BY LinesFinite
<1>3. Cardinality(lines[h] \cup S) \in Nat /\ Cardinality(lines[h] \cap S) \in Nat
      BY <1>1, <1>2, FS_Union, FS_Intersection, FS_CardinalityType
<1>4. Cardinality(lines[h] \cup S) =
          Cardinality(lines[h]) + Cardinality(S) - Cardinality(lines[h] \cap S)
      BY <1>1, <1>2, FS_Union
<1>5. limit[h] \in Nat
      BY DEF ServiceType
<1> QED BY <1>1, <1>2, <1>3, <1>4, <1>5, ServiceSets DEF Service!Exhausted

(* A search of the tags that is not the only one.                          *)
LEMMA TagsPassService ==
    ASSUME ServiceInv, NEW h \in Handler, Service!ExactPass(h) \/ Service!PrefixPass(h)
    PROVE  ServiceInv'
<1> USE DEF ServiceInv
<1>1. PICK here \in {"exact", "prefix"}, tags \in SUBSET Corpus, nextpc \in {"prefix", "borrow"},
           S \in SUBSET Corpus, reason \in Service!ExitReason :
        /\ hpc[h] = here /\ (nextpc = "prefix" <=> here = "exact")
        /\ S \subseteq tags
        /\ Service!MatchDelivers(tags, Service!Remaining(h), S, reason)
        /\ Service!AddMatches(h, S)
        /\ IF Service!Exhausted(h, lines'[h])
           THEN Service!AnswerWith(h, reason)
           ELSE /\ hpc' = [hpc EXCEPT ![h] = nextpc]
                /\ why' = [why EXCEPT ![h] = reason]
                /\ UNCHANGED status
        /\ UNCHANGED <<limit, asked, borrowed, pool, created, peak, requests>>
  <2>1. CASE Service!ExactPass(h)
        BY <2>1, ServiceConstants DEF Service!ExactPass, Service!TagsPass
  <2>2. CASE Service!PrefixPass(h)
        BY <2>2, ServiceConstants DEF Service!PrefixPass, Service!TagsPass
  <2> QED BY <2>1, <2>2
<1>2. lines'[h] = lines[h] \cup S /\ \A g \in Handler \ {h} : lines'[g] = lines[g]
      BY <1>1 DEF Service!AddMatches, ServiceType
<1>3. Service!Exhausted(h, lines'[h]) /\ limit[h] > 0 => reason # "none"
  <2> SUFFICES ASSUME Service!Exhausted(h, lines'[h]), limit[h] > 0, reason = "none"
               PROVE  FALSE
      OBVIOUS
  <2>1. Cardinality(lines[h]) \in Nat /\ limit[h] \in Nat
        BY LinesFinite DEF ServiceType
  <2>2. limit[h] - Cardinality(lines[h]) > 0
    <3>1. CASE hpc[h] = "exact"
      <4>1. Cardinality(lines[h]) = 0
            BY <3>1, FS_EmptySet DEF PassInv
      <4> QED BY <2>1, <4>1
    <3>2. CASE hpc[h] = "prefix"
          BY <3>2 DEF PassInv
    <3> QED BY <1>1, <3>1, <3>2
  <2>3. IsFiniteSet(S) /\ Cardinality(S) \in Nat
        BY ServiceConstants, FS_Subset, FS_CardinalityType
  <2>4. Cardinality(S) < limit[h] - Cardinality(lines[h])
        BY <1>1, <2>1, <2>2, <2>3, ServiceSets DEF Service!MatchDelivers, Service!Remaining
  <2> QED BY <1>2, <2>2, <2>4, NotExhausted
<1>4. ServiceType'
  <2>1. lines' \in [Handler -> SUBSET Corpus]
        BY <1>1 DEF Service!AddMatches, ServiceType
  <2> QED BY <1>1, <2>1 DEF ServiceType, Service!AnswerWith, HandlerPC
<1>5. \A g \in Handler \ {h} : hpc'[g] = hpc[g] /\ why'[g] = why[g] /\ status'[g] = status[g]
      BY <1>1 DEF Service!AnswerWith, ServiceType
<1>6. hpc'[h] # "idle" => hpc'[h] = nextpc /\ ~Service!Exhausted(h, lines'[h])
      BY <1>1 DEF Service!AnswerWith, ServiceType
<1>7. hpc'[h] = "idle" => why'[h] = reason /\ Service!Exhausted(h, lines'[h])
      BY <1>1 DEF Service!AnswerWith, ServiceType
<1>8. Service!NoneMeansComplete'
      BY <1>1, <1>2, <1>3, <1>5, <1>7 DEF Service!NoneMeansComplete, Service!Answered, ServiceType
<1>9. PassInv'
  <2>1. Cardinality(lines'[h]) \in Nat /\ limit[h] \in Nat
    <3>1. lines'[h] \subseteq Corpus /\ IsFiniteSet(Corpus)
          BY <1>4, ServiceConstants DEF ServiceType
    <3> QED BY <3>1, FS_Subset, FS_CardinalityType DEF ServiceType
  <2>2. hpc'[h] = "prefix" => limit[h] - Cardinality(lines'[h]) > 0
        BY <1>6, <2>1, ServiceSets DEF Service!Exhausted
  <2>3. hpc'[h] \in {"idle", "prefix", "borrow"} /\ UNCHANGED <<limit, asked>>
        BY <1>1, <1>6
  <2>4. asked[h].kind # "tagged"
        BY <1>1 DEF PassInv
  <2> QED BY <1>2, <1>5, <2>2, <2>3, <2>4 DEF PassInv
<1>10. PoolInv'
  <2>1. InCorpus' = InCorpus
        BY <1>1, <1>5, <1>6 DEF InCorpus
  <2> QED BY <1>1, <2>1 DEF PoolInv
<1> QED BY <1>4, <1>8, <1>9, <1>10

LEMMA TagsOnlyService ==
    ASSUME ServiceInv, NEW h \in Handler, Service!TagsOnly(h)
    PROVE  ServiceInv'
<1> USE DEF ServiceInv
<1>1. PICK S \in SUBSET (Exact \cup Prefix), reason \in Service!ExitReason :
        /\ hpc[h] = "tags"
        /\ reason = "none" => S = Exact \cup Prefix
        /\ Service!AddMatches(h, S)
        /\ Service!AnswerWith(h, reason)
        /\ UNCHANGED <<limit, asked, borrowed, pool, created, peak, requests>>
      BY DEF Service!TagsOnly, Service!MatchDelivers
<1>2. /\ lines' = [lines EXCEPT ![h] = S]
      /\ asked[h].kind = "tagged"
      BY <1>1 DEF Service!AddMatches, ServiceType, PassInv
<1>3. ServiceType'
      BY <1>1, <1>2, ServiceConstants DEF ServiceType, Service!AnswerWith, HandlerPC
<1>4. Service!NoneMeansComplete'
      BY <1>1, <1>2 DEF Service!NoneMeansComplete, Service!Answered, Service!AnswerWith, ServiceType
<1>5. PassInv'
      BY <1>1, <1>2 DEF PassInv, Service!AnswerWith, ServiceType
<1>6. InCorpus' = InCorpus
      BY <1>1 DEF InCorpus, Service!AnswerWith, ServiceType
<1>7. PoolInv'
      BY <1>1, <1>6 DEF PoolInv
<1> QED BY <1>3, <1>4, <1>5, <1>7

(***************************************************************************)
(* A new search_thread is made only when all the others are in use, so     *)
(* there were that many handlers in a corpus search at once.               *)
(***************************************************************************)
LEMMA BorrowService ==
    ASSUME ServiceInv, NEW h \in Handler, Service!Borrow(h)
    PROVE  ServiceInv'
<1> USE DEF ServiceInv
<1>1. PICK t \in Nat \ {0} :
        /\ borrowed' = [borrowed EXCEPT ![h] = t]
        /\ pool' = pool \ {t}
        /\ \/ t \in pool /\ created' = created
           \/ pool = {} /\ t = created + 1 /\ created' = created + 1
  <2>1. CASE pool # {}
    <3>1. pool \subseteq Nat \ {0}
          BY DEF PoolInv, ServiceType
    <3> QED BY <2>1, <3>1 DEF Service!Borrow
  <2>2. CASE pool = {}
        BY <2>2 DEF Service!Borrow, ServiceType
  <2> QED BY <2>1, <2>2
<1>2. /\ hpc[h] = "borrow" /\ hpc' = [hpc EXCEPT ![h] = "corpus"]
      /\ UNCHANGED <<limit, lines, why, status, asked, requests>>
      BY DEF Service!Borrow
<1>3. InCorpus' = InCorpus \cup {h} /\ h \notin InCorpus
      BY <1>2 DEF InCorpus, ServiceType
<1>4. \A g \in InCorpus : borrowed[g] \in 1..created /\ borrowed[g] # t
      BY <1>1 DEF PoolInv, ServiceType
<1>5. /\ borrowed'[h] = t
      /\ \A g \in Handler \ {h} : borrowed'[g] = borrowed[g]
      BY <1>1 DEF ServiceType
<1>6. pool' \cup {borrowed'[g] : g \in InCorpus'} = 1..created'
  <2>1. {borrowed'[g] : g \in InCorpus'} = {borrowed[g] : g \in InCorpus} \cup {t}
        BY <1>3, <1>5 DEF InCorpus
  <2>2. pool \cup {borrowed[g] : g \in InCorpus} = 1..created /\ created \in Nat
        BY DEF PoolInv, ServiceType
  <2> QED BY <1>1, <2>1, <2>2
<1>7. {g \in Handler : borrowed'[g] # 0} = InCorpus'
      BY <1>1, <1>3, <1>5 DEF PoolInv, InCorpus
<1>8. IsFiniteSet(InCorpus') /\ Cardinality(InCorpus') \in Nat
  <2>1. InCorpus' \in SUBSET Handler
        BY DEF InCorpus
  <2> QED BY <2>1, ServiceConstants, FS_Subset, FS_CardinalityType
<1>9. peak' \in Nat /\ peak' >= peak /\ peak' >= Cardinality(InCorpus')
  <2> DEFINE busy == {g \in Handler : borrowed'[g] # 0}
  <2>1. peak' = IF Service!Cardinality(busy) > peak THEN Service!Cardinality(busy) ELSE peak
        BY DEF Service!Borrow
  <2>2. Service!Cardinality(busy) = Cardinality(InCorpus')
        BY <1>7, ServiceSets
  <2> HIDE DEF busy
  <2> QED BY <1>8, <2>1, <2>2 DEF ServiceType
<1>10. created' \in Nat /\ created' <= peak'
  <2>1. CASE created' = created
        BY <1>9, <2>1 DEF PoolInv, ServiceType
  <2>2. CASE pool = {} /\ created' = created + 1
    <3>1. {borrowed'[g] : g \in InCorpus'} = 1..created'
          BY <1>1, <1>6, <2>2
    <3>2. Cardinality({borrowed'[g] : g \in InCorpus'}) <= Cardinality(InCorpus')
      <4> DEFINE f == [g \in InCorpus' |-> borrowed'[g]]
      <4>1. f \in Surjection(InCorpus', {borrowed'[g] : g \in InCorpus'})
            BY DEF Surjection
      <4> QED BY <1>8, <4>1, FS_Surjection
    <3>3. created' \in Nat /\ Cardinality(1..created') = created'
      <4>1. created' \in Nat
            BY <2>2 DEF ServiceType
      <4> QED BY <4>1, FS_Interval
    <3>4. created' <= Cardinality(InCorpus')
          BY <3>1, <3>2, <3>3
    <3> QED BY <1>8, <1>9, <3>3, <3>4
  <2> QED BY <1>1, <2>1, <2>2
<1>11. ServiceType'
  <2>1. hpc' \in [Handler -> HandlerPC] /\ borrowed' \in [Handler -> Nat]
        BY <1>1, <1>2 DEF ServiceType, HandlerPC
  <2> QED BY <1>2, <1>9, <1>10, <2>1 DEF ServiceType
<1>12. Service!NoneMeansComplete' /\ PassInv'
      BY <1>2 DEF Service!NoneMeansComplete, Service!Answered, PassInv, ServiceType
<1>13. PoolInv'
  <2>1. \A g \in Handler : borrowed'[g] # 0 <=> g \in InCorpus'
        BY <1>7
  <2>2. \A f, g \in InCorpus' : f # g => borrowed'[f] # borrowed'[g]
        BY <1>3, <1>4, <1>5 DEF PoolInv, InCorpus
  <2>3. \A g \in InCorpus' : borrowed'[g] \notin pool'
        BY <1>1, <1>3, <1>5 DEF PoolInv, InCorpus
  <2> QED BY <1>6, <1>10, <2>1, <2>2, <2>3 DEF PoolInv
<1> QED BY <1>11, <1>12, <1>13

LEMMA CorpusPassService ==
    ASSUME ServiceInv, NEW h \in Handler, Service!CorpusPass(h)
    PROVE  ServiceInv'
<1> USE DEF ServiceInv
<1>1. PICK S \in SUBSET Corpus, reason \in Service!ExitReason :
        /\ hpc[h] = "corpus"
        /\ reason = "none" => S = Corpus
        /\ lines' = [lines EXCEPT ![h] = @ \cup S]
        /\ why' = [why EXCEPT ![h] = reason]
        /\ status' = [status EXCEPT ![h] = "ok"]
        /\ hpc' = [hpc EXCEPT ![h] = "idle"]
        /\ pool' = pool \cup {borrowed[h]}
        /\ borrowed' = [borrowed EXCEPT ![h] = 0]
        /\ UNCHANGED <<limit, asked, created, peak, requests>>
      BY DEF Service!CorpusPass, Service!MatchDelivers, Service!AddMatches, Service!AnswerWith
<1>2. ServiceType'
      BY <1>1 DEF ServiceType, HandlerPC
<1>3. Service!NoneMeansComplete'
  <2>1. asked[h].kind # "tagged"
        BY <1>1 DEF PassInv
  <2>2. reason = "none" => lines'[h] = Corpus
        BY <1>1 DEF ServiceType
  <2> QED BY <1>1, <2>1, <2>2 DEF Service!NoneMeansComplete, Service!Answered, ServiceType
<1>4. PassInv'
      BY <1>1 DEF PassInv, ServiceType
<1>5. InCorpus' = InCorpus \ {h} /\ h \in InCorpus
      BY <1>1 DEF InCorpus, ServiceType
<1>6. borrowed'[h] = 0 /\ \A g \in Handler \ {h} : borrowed'[g] = borrowed[g]
      BY <1>1 DEF ServiceType
<1>7. PoolInv'
  <2>1. {borrowed[g] : g \in InCorpus} = {borrowed'[g] : g \in InCorpus'} \cup {borrowed[h]}
        BY <1>5, <1>6 DEF InCorpus
  <2>2. pool' \cup {borrowed'[g] : g \in InCorpus'} = 1..created'
        BY <1>1, <2>1 DEF PoolInv
  <2>3. \A g \in InCorpus' : g \in InCorpus /\ borrowed'[g] = borrowed[g] /\ borrowed[g] # borrowed[h]
        BY <1>5, <1>6 DEF PoolInv, InCorpus
  <2>4. \A g \in Handler : borrowed'[g] # 0 <=> g \in InCorpus'
        BY <1>5, <1>6 DEF PoolInv
  <2>5. \A f, g \in InCorpus' : f # g => borrowed'[f] # borrowed'[g]
        BY <2>3 DEF PoolInv
  <2>6. \A g \in InCorpus' : borrowed'[g] \notin pool'
        BY <1>1, <2>3 DEF PoolInv
  <2> QED BY <1>1, <2>2, <2>4, <2>5, <2>6 DEF PoolInv
<1> QED BY <1>2, <1>3, <1>4, <1>7

LEMMA ServiceNext ==
    ASSUME ServiceInv, Service!Next
    PROVE  ServiceInv'
BY AcceptService, RejectService, TagsPassService, TagsOnlyService, BorrowService, CorpusPassService
   DEF Service!Next

LEMMA ServiceSafe ==
    ServiceInv => Service!NoneMeansComplete /\ Service!PoolDiscipline /\ Service!NoThreadLeaks
<1> SUFFICES ASSUME ServiceInv
             PROVE  Service!PoolDiscipline /\ Service!NoThreadLeaks
    BY DEF ServiceInv
<1> USE DEF ServiceInv
<1>1. 0 \notin pool
      BY DEF PoolInv, ServiceType
<1>2. \A g, h \in Handler : g # h /\ borrowed[g] # 0 => borrowed[g] # borrowed[h]
      BY DEF PoolInv
<1>3. \A h \in Handler : borrowed[h] \notin pool
      BY <1>1 DEF PoolInv
<1>4. Service!PoolDiscipline
      BY <1>2, <1>3 DEF Service!PoolDiscipline, PoolInv
<1>5. Service!NoThreadLeaks
      BY DEF Service!NoThreadLeaks, PoolInv, InCorpus
<1> QED BY <1>4, <1>5

-----------------------------------------------------------------------------
(* The parser of queries.                                                  *)

Held == {term[l] : l \in 1 .. Len(term)}
Loose == IF parser_pc = "parse" THEN Held ELSE {}
TermSet(o) == {ops[o][l] : l \in 1 .. Len(ops[o])}
Read == 1 .. parser_i
Grouping == globalRegex /\ \A k \in 1 .. Len(query) : query[k] # "lit:"
Alive == parser_pc \in {"parse", "build", "done"}

ParserType ==
    /\ \E S : query \in Seq(S)
    /\ parser_i \in 0 .. Len(query)
    /\ parser_pc # "parse" => parser_i = Len(query)
    /\ p \in Nat
    /\ term \in Seq(Nat)
    /\ Held \subseteq Read
    /\ \A o \in DOMAIN ops : TermSet(o) \subseteq Read
    /\ operators \subseteq Read

(* No token that was read is lost, and none is in two terms.               *)
WholeInv ==
    /\ \A k \in Read : k \notin operators /\ query[k] # Parser!sp =>
           k \in Loose \/ \E o \in DOMAIN ops : k \in TermSet(o)
    /\ \A o \in DOMAIN ops : \A k \in Loose : k \notin TermSet(o)
    /\ \A o, u \in DOMAIN ops : o # u => \A k \in TermSet(o) : k \notin TermSet(u)

(* The parenthesis at j has been closed at m or before.                    *)
Shut(j, m) == \E l \in j .. m : Parser!Depth(j, l) <= 0

(* g opened the group that is being consumed.                              *)
OpenAt(g) ==
    /\ query[g] = "("
    /\ \A j \in 1 .. g - 1 : query[j] = "(" => Shut(j, g - 1)
    /\ \A l \in g .. parser_i : Parser!Depth(g, l) > 0 /\ l \in Held
    /\ p = Parser!Depth(g, parser_i)

GroupInv ==
    parser_pc = "parse" =>
        /\ inRegex /\ key # "lit:"
        /\ p = 0 => \A j \in Read : query[j] = "(" => Shut(j, parser_i)
        /\ p > 0 => \E g \in Read : OpenAt(g)

(* What is enclosed goes where its parenthesis goes.                       *)
TogetherInv ==
    \A j \in Read : \A k \in j .. parser_i : Parser!Enclosed(j, k) =>
        /\ k \notin operators
        /\ k \in Loose <=> j \in Loose
        /\ \A o \in DOMAIN ops : k \in TermSet(o) <=> j \in TermSet(o)

ParserInv ==
    Alive => ParserType /\ WholeInv /\ (Grouping => GroupInv /\ TogetherInv)

LEMMA TokensDiffer ==
    /\ Parser!sp # "(" /\ Parser!bare # "lit:"
    /\ "(" \notin Parser!Operators /\ "(" \notin Parser!Escaped /\ "(" # ")"
BY Zenon DEF Parser!sp, Parser!bare, Parser!Operators, Parser!knownTags, Parser!Escaped

LEMMA ParserSets == \A S : Parser!Cardinality(S) = Cardinality(S)
BY DEF Parser!Cardinality, Cardinality

LEMMA CountSplit ==
    ASSUME NEW c, NEW j \in Int, NEW m \in Int, NEW k \in Int, j <= m + 1, m <= k
    PROVE  /\ Parser!Count(c, j, k) \in Nat /\ Parser!Count(c, j, m) \in Nat
           /\ Parser!Count(c, m + 1, k) \in Nat
           /\ Parser!Count(c, j, k) = Parser!Count(c, j, m) + Parser!Count(c, m + 1, k)
<1> DEFINE S(a, b) == {l \in a .. b : query[l] = c}
<1>1. ASSUME NEW a \in Int, NEW b \in Int PROVE IsFiniteSet(S(a, b)) /\ Cardinality(S(a, b)) \in Nat
      BY FS_Interval, FS_Subset, FS_CardinalityType
<1>2. S(j, k) = S(j, m) \cup S(m + 1, k) /\ S(j, m) \cap S(m + 1, k) = {}
      OBVIOUS
<1>3. m + 1 \in Int OBVIOUS
<1>4. /\ IsFiniteSet(S(j, m)) /\ IsFiniteSet(S(m + 1, k))
      /\ Cardinality(S(j, m)) \in Nat /\ Cardinality(S(m + 1, k)) \in Nat /\ Cardinality(S(j, k)) \in Nat
      BY <1>1, <1>3
<1>8. /\ Parser!Count(c, j, k) = Cardinality(S(j, k))
      /\ Parser!Count(c, j, m) = Cardinality(S(j, m))
      /\ Parser!Count(c, m + 1, k) = Cardinality(S(m + 1, k))
      BY ParserSets DEF Parser!Count
<1> HIDE DEF S
<1>5. Cardinality(S(j, k)) = Cardinality(S(j, m)) + Cardinality(S(m + 1, k)) - Cardinality(S(j, m) \cap S(m + 1, k))
      BY <1>2, <1>4, FS_Union
<1>6. Cardinality(S(j, m) \cap S(m + 1, k)) = 0
      BY <1>2, FS_EmptySet
<1>7. Cardinality(S(j, k)) = Cardinality(S(j, m)) + Cardinality(S(m + 1, k))
      BY <1>4, <1>5, <1>6
<1> QED BY <1>4, <1>7, <1>8

LEMMA DepthSplit ==
    ASSUME NEW j \in Int, NEW m \in Int, NEW k \in Int, j <= m + 1, m <= k
    PROVE  /\ Parser!Depth(j, k) \in Int /\ Parser!Depth(j, m) \in Int /\ Parser!Depth(m + 1, k) \in Int
           /\ Parser!Depth(j, k) = Parser!Depth(j, m) + Parser!Depth(m + 1, k)
<1>1. \A c : /\ Parser!Count(c, j, k) \in Nat /\ Parser!Count(c, j, m) \in Nat
             /\ Parser!Count(c, m + 1, k) \in Nat
             /\ Parser!Count(c, j, k) = Parser!Count(c, j, m) + Parser!Count(c, m + 1, k)
      BY CountSplit
<1> QED BY <1>1 DEF Parser!Depth

LEMMA DepthOne ==
    ASSUME NEW k \in Int
    PROVE  Parser!Depth(k, k) = IF query[k] = "(" THEN 1 ELSE IF query[k] = ")" THEN -1 ELSE 0
<1>1. ASSUME NEW c PROVE Parser!Count(c, k, k) = IF query[k] = c THEN 1 ELSE 0
  <2> DEFINE S == {l \in k .. k : query[l] = c}
  <2>1. CASE query[k] = c
    <3>1. S = {k} BY <2>1
    <3> QED BY <2>1, <3>1, FS_Singleton, ParserSets DEF Parser!Count
  <2>2. CASE query[k] # c
    <3>1. S = {} BY <2>2
    <3> QED BY <2>2, <3>1, FS_EmptySet, ParserSets DEF Parser!Count
  <2> QED BY <2>1, <2>2
<1> QED BY <1>1, TokensDiffer DEF Parser!Depth

(***************************************************************************)
(* What reading one token does to the terms: it is appended to the term at *)
(* hand; or, at a space or an operator, that term becomes the term of a    *)
(* key that had none; or it held only spaces and an operator drops it.     *)
(***************************************************************************)
Kept ==
    /\ Held' = Held \cup {parser_i + 1}
    /\ UNCHANGED <<ops, operators>>

Stored(o) ==
    /\ o \notin DOMAIN ops /\ DOMAIN ops' = DOMAIN ops \cup {o}
    /\ TermSet(o)' = Held
    /\ \A u \in DOMAIN ops : TermSet(u)' = TermSet(u)

Closes ==
    /\ query[parser_i + 1] = Parser!sp
    /\ Held' = {} /\ operators' = operators
    /\ \E o : Stored(o)

Tags ==
    /\ query[parser_i + 1] \in Parser!Operators
    /\ Held' = {} /\ operators' = operators \cup {parser_i + 1}
    /\ \/ ops' = ops /\ \A k \in Held : query[k] = Parser!sp
       \/ \E o : Stored(o)

LEMMA KeepIs ==
    ASSUME ParserType, Parser!Keep
    PROVE  Held' = Held \cup {parser_i + 1} /\ term' \in Seq(Nat)
<1>1. term \in Seq(Nat) /\ parser_i + 1 \in Nat /\ term' = Append(term, parser_i + 1)
      BY DEF ParserType, Parser!Keep
<1>2. Len(term') = Len(term) + 1 /\ term' \in Seq(Nat) /\ Len(term) \in Nat
      BY <1>1
<1>3. \A l \in 1 .. Len(term') : term'[l] = IF l = Len(term) + 1 THEN parser_i + 1 ELSE term[l]
      BY <1>1
<1> QED BY <1>2, <1>3 DEF Held

LEMMA StoreIs ==
    ASSUME NEW o, o \notin DOMAIN ops, ops' = Parser!WithTerm(o)
    PROVE  Stored(o)
<1>1. DOMAIN ops' = DOMAIN ops \cup {o} /\ ops'[o] = term
      BY DEF Parser!WithTerm
<1>2. \A u \in DOMAIN ops : ops'[u] = ops[u]
      BY DEF Parser!WithTerm
<1>3. TermSet(o)' = Held
      BY <1>1 DEF TermSet, Held
<1>4. \A u \in DOMAIN ops : TermSet(u)' = TermSet(u)
      BY <1>2 DEF TermSet
<1> QED BY <1>1, <1>3, <1>4 DEF Stored

LEMMA EmptyTerm ==
    ASSUME term' = <<>>
    PROVE  Held' = {} /\ term' \in Seq(Nat)
BY DEF Held

(* Every token that is read, as long as the query is not refused.          *)
LEMMA ConsumeIs ==
    ASSUME ParserType, Parser!Consume, parser_pc' # "failed"
    PROVE  /\ parser_pc = "parse" /\ parser_pc' = "parse" /\ parser_i < Len(query)
           /\ parser_i' = parser_i + 1 /\ UNCHANGED <<query, globalRegex>>
           /\ term' \in Seq(Nat)
           /\ Kept \/ (p = 0 /\ p' = 0 /\ (Closes \/ Tags))
<1>1. /\ parser_pc = "parse" /\ parser_i < Len(query)
      /\ parser_i' = parser_i + 1 /\ UNCHANGED <<query, globalRegex>>
      BY DEF Parser!Consume
<1>2. Parser!Keep /\ UNCHANGED <<ops, operators>> => Kept /\ term' \in Seq(Nat)
      BY KeepIs DEF Kept
<1> DEFINE Goal == /\ parser_pc' = "parse" /\ term' \in Seq(Nat)
                   /\ Kept \/ (p = 0 /\ p' = 0 /\ (Closes \/ Tags))
<1>3. CASE Parser!InGroup
      BY <1>1, <1>2, <1>3 DEF Parser!InGroup, Parser!Locals
<1>4. CASE Parser!Text
      BY <1>1, <1>2, <1>4 DEF Parser!Text, Parser!Locals
<1>5. CASE Parser!Open
      BY <1>1, <1>2, <1>5 DEF Parser!Open, Parser!Locals
<1>6. CASE Parser!Escape
      BY <1>1, <1>2, <1>6 DEF Parser!Escape, Parser!Locals
<1>7. CASE p = 0 /\ Parser!Space
  <2>1. CASE key = Parser!bare
        BY <1>1, <1>2, <1>7, <2>1 DEF Parser!Space, Parser!Locals
  <2>2. CASE key # Parser!bare
    <3>1. Parser!SetTerm(key) /\ term' = <<>> /\ UNCHANGED <<p, operators>> /\ query[parser_i + 1] = Parser!sp
          BY <1>7, <2>2 DEF Parser!Space, Parser!tok
    <3>2. key \notin DOMAIN ops /\ ops' = Parser!WithTerm(key) /\ parser_pc' = parser_pc
          BY <3>1 DEF Parser!SetTerm, Parser!Fail
    <3>3. PICK o : o = key
          OBVIOUS
    <3>4. Stored(o)
          BY <3>2, <3>3, StoreIs
    <3> QED BY <1>1, <1>7, <3>1, <3>2, <3>4, EmptyTerm DEF Closes
  <2> QED BY <2>1, <2>2
<1>8. CASE p = 0 /\ Parser!Operator
  <2> DEFINE known == key = Parser!bare /\ at = "start" /\ Parser!tok \in Parser!knownTags
  <2>1. CASE ~known
        BY <1>1, <1>2, <1>8, <2>1 DEF Parser!Operator
  <2>2. CASE known
    <3>1. /\ term' = <<>> /\ operators' = operators \cup {parser_i + 1} /\ p' = p
          /\ query[parser_i + 1] \in Parser!Operators
          BY <1>8, <2>2 DEF Parser!Operator, Parser!tok
    <3>2. CASE Parser!Blank(term)
      <4>1. ops' = ops /\ parser_pc' = parser_pc
            BY <1>8, <2>2, <3>2 DEF Parser!Operator
      <4>2. \A k \in Held : query[k] = Parser!sp
            BY <3>2 DEF Parser!Blank, Held
      <4> QED BY <1>1, <1>8, <3>1, <4>1, <4>2, EmptyTerm DEF Tags
    <3>3. CASE ~Parser!Blank(term)
      <4>1. Parser!SetTerm(Parser!bare)
            BY <1>8, <2>2, <3>3 DEF Parser!Operator
      <4>2. Parser!bare \notin DOMAIN ops /\ ops' = Parser!WithTerm(Parser!bare) /\ parser_pc' = parser_pc
            BY <4>1 DEF Parser!SetTerm, Parser!Fail
      <4>3. Stored(Parser!bare)
            BY <4>2, StoreIs
      <4> QED BY <1>1, <1>8, <3>1, <4>2, <4>3, EmptyTerm DEF Tags
    <3> QED BY <3>2, <3>3
  <2> QED BY <2>1, <2>2
<1>9. Goal
      BY <1>3, <1>4, <1>5, <1>6, <1>7, <1>8 DEF Parser!Consume
<1> QED BY <1>1, <1>9

LEMMA TypeConsume ==
    ASSUME ParserType, Parser!Consume, parser_pc' # "failed"
    PROVE  ParserType'
<1>1. PICK S : query \in Seq(S)
      BY DEF ParserType
<1>2. Len(query) \in Nat
      BY <1>1
<1>3. /\ parser_i' \in 0 .. Len(query)' /\ parser_i \in Nat /\ parser_i' = parser_i + 1
      /\ parser_pc' = "parse" /\ query' = query /\ term' \in Seq(Nat)
      /\ Kept \/ Closes \/ Tags
      BY <1>2, ConsumeIs DEF ParserType
<1>4. Read' = Read \cup {parser_i + 1}
      BY <1>3 DEF Read
<1>5. p' \in Nat
  <2>1. p \in Nat BY DEF ParserType
  <2>2. CASE p > 0 /\ Parser!InGroup
        BY <2>1, <2>2 DEF Parser!InGroup
  <2>3. CASE p = 0 /\ (Parser!Text \/ Parser!Space \/ Parser!Open \/ Parser!Escape \/ Parser!Operator)
        BY <2>1, <2>3 DEF Parser!Text, Parser!Space, Parser!Open, Parser!Escape, Parser!Operator
  <2> QED BY <2>2, <2>3 DEF Parser!Consume, Parser!InGroup
<1>6. /\ Held' \subseteq Read'
      /\ \A o \in DOMAIN ops' : TermSet(o)' \subseteq Read'
      /\ operators' \subseteq Read'
  <2>1. CASE Kept
    <3>1. \A o : TermSet(o)' = TermSet(o)
          BY <2>1 DEF Kept, TermSet
    <3> QED BY <1>4, <2>1, <3>1 DEF Kept, ParserType
  <2>2. CASE \E o : Stored(o)
        BY <1>3, <1>4, <2>2 DEF Stored, Kept, Closes, Tags, ParserType
  <2>3. CASE Tags /\ ops' = ops
    <3>1. \A o : TermSet(o)' = TermSet(o)
          BY <2>3 DEF TermSet
    <3> QED BY <1>4, <2>3, <3>1 DEF Tags, ParserType
  <2> QED BY <1>3, <2>1, <2>2, <2>3 DEF Closes, Tags
<1> QED BY <1>1, <1>3, <1>5, <1>6 DEF ParserType

(* A term that is stored was in no other term before.                      *)
LEMMA WholeConsume ==
    ASSUME ParserType, WholeInv, Parser!Consume, parser_pc' # "failed"
    PROVE  WholeInv'
<1>1. /\ parser_i \in Nat /\ parser_i' = parser_i + 1 /\ query' = query
      /\ Loose = Held /\ Loose' = Held'
      /\ Kept \/ Closes \/ Tags
      BY ConsumeIs DEF ParserType, Loose
<1>2. /\ Read' = Read \cup {parser_i + 1} /\ parser_i + 1 \notin Read
      BY <1>1 DEF Read
<1>3. CASE Kept
  <2>1. \A o : TermSet(o)' = TermSet(o)
        BY <1>3 DEF Kept, TermSet
  <2> QED BY <1>1, <1>2, <1>3, <2>1 DEF Kept, WholeInv, ParserType
<1>4. CASE Closes
  <2>1. PICK o : Stored(o)
        BY <1>4 DEF Closes
  <2> QED BY <1>1, <1>2, <1>4, <2>1 DEF Closes, Stored, WholeInv
<1>5. CASE Tags
  <2>1. CASE ops' = ops /\ \A k \in Held : query[k] = Parser!sp
    <3>1. \A o : TermSet(o)' = TermSet(o)
          BY <2>1 DEF TermSet
    <3> QED BY <1>1, <1>2, <1>5, <2>1, <3>1 DEF Tags, WholeInv
  <2>2. ASSUME NEW o, Stored(o) PROVE WholeInv'
        BY <1>1, <1>2, <1>5, <2>2 DEF Tags, Stored, WholeInv
  <2> QED BY <1>5, <2>1, <2>2 DEF Tags
<1> QED BY <1>1, <1>3, <1>4, <1>5

-----------------------------------------------------------------------------
(* Groups.                                                                 *)

LEMMA SameDepth ==
    ASSUME query' = query
    PROVE  \A j, k : /\ Parser!Depth(j, k)' = Parser!Depth(j, k)
                     /\ Parser!Enclosed(j, k)' = Parser!Enclosed(j, k)
                     /\ Shut(j, k)' = Shut(j, k)
<1>1. \A j, k : Parser!Depth(j, k)' = Parser!Depth(j, k)
      BY DEF Parser!Depth, Parser!Count
<1> QED BY <1>1 DEF Parser!Enclosed, Shut

LEMMA ShutLater ==
    ASSUME NEW j \in Int, NEW m \in Int, NEW n \in Int, m <= n, Shut(j, m)
    PROVE  Shut(j, n)
BY DEF Shut

(* What is shut encloses nothing beyond.                                   *)
LEMMA ShutEnds ==
    ASSUME NEW j \in Int, NEW m \in Int, Shut(j, m), NEW k \in Int, m < k
    PROVE  ~Parser!Enclosed(j, k)
<1>1. PICK l \in j .. m : Parser!Depth(j, l) <= 0
      BY DEF Shut
<1>2. l \in j .. k - 1
      BY <1>1
<1>3. Parser!Depth(j, l) \in Int
      BY <1>1, DepthSplit
<1> QED BY <1>1, <1>2, <1>3 DEF Parser!Enclosed

(* The next token is enclosed only in what the group that is being consumed *)
(* holds, or starts that group itself.                                      *)
LEMMA EnclosesNext ==
    ASSUME ParserType, Grouping, GroupInv, parser_pc = "parse",
           NEW j \in 1 .. parser_i + 1, Parser!Enclosed(j, parser_i + 1)
    PROVE  j = parser_i + 1 \/ (p > 0 /\ j \in Held)
<1> SUFFICES ASSUME j # parser_i + 1 PROVE p > 0 /\ j \in Held
    OBVIOUS
<1>1. parser_i \in Nat /\ p \in Nat /\ j \in Read
      BY DEF ParserType, Read
<1>2. query[j] = "("
      BY DEF Parser!Enclosed
<1>3. ~Shut(j, parser_i)
      BY <1>1, ShutEnds
<1>4. p > 0
      BY <1>1, <1>2, <1>3 DEF GroupInv
<1>5. PICK g \in Read : OpenAt(g)
      BY <1>4 DEF GroupInv
<1>6. j \notin 1 .. g - 1
  <2> SUFFICES ASSUME j \in 1 .. g - 1 PROVE FALSE OBVIOUS
  <2>1. Shut(j, g - 1)
        BY <1>2, <1>5 DEF OpenAt
  <2>2. Shut(j, parser_i)
        BY <1>1, <1>5, <2>1, ShutLater DEF Read
  <2> QED BY <1>3, <2>2
<1>7. j \in g .. parser_i
      BY <1>1, <1>5, <1>6 DEF Read
<1> QED BY <1>4, <1>5, <1>7 DEF OpenAt

(* A token outside groups, other than a parenthesis: nothing opens.        *)
LEMMA NothingOpens ==
    ASSUME ParserType, Grouping, GroupInv, Parser!Consume, parser_pc' # "failed",
           p = 0, Parser!Text \/ Parser!Space \/ Parser!Escape \/ Parser!Operator
    PROVE  p' = 0 /\ query[parser_i + 1] # "(" /\ inRegex' /\ key' # "lit:"
<1>1. /\ parser_pc = "parse" /\ parser_i < Len(query) /\ parser_i \in Nat
      /\ \E S : query \in Seq(S)
      BY DEF Parser!Consume, ParserType
<1>2. inRegex /\ key # "lit:" /\ globalRegex
      BY <1>1 DEF GroupInv, Grouping
<1>3. parser_i + 1 \in 1 .. Len(query)
      BY <1>1
<1>4. query[parser_i + 1] # "lit:"
      BY <1>3 DEF Grouping
<1>5. CASE Parser!Text
      BY <1>2, <1>5 DEF Parser!Text, Parser!Locals, Parser!IsPiece, Parser!tok
<1>6. CASE Parser!Space
  <2>1. p' = 0 /\ query[parser_i + 1] = Parser!sp
        BY <1>6 DEF Parser!Space, Parser!tok
  <2>2. (key' = key /\ inRegex' = inRegex) \/ (key' = Parser!bare /\ inRegex' = globalRegex)
        BY <1>6 DEF Parser!Space, Parser!Locals
  <2> QED BY <1>2, <2>1, <2>2, TokensDiffer
<1>7. CASE Parser!Escape
      BY <1>2, <1>7, TokensDiffer DEF Parser!Escape, Parser!Locals, Parser!tok
<1>8. CASE Parser!Operator
  <2>1. p' = 0 /\ query[parser_i + 1] \in Parser!Operators
        BY <1>8 DEF Parser!Operator, Parser!tok
  <2>2. key' = key \/ key' = query[parser_i + 1]
        BY <1>8 DEF Parser!Operator, Parser!tok
  <2>3. inRegex' = (inRegex /\ key' # "lit:")
        BY <1>8 DEF Parser!Operator
  <2> QED BY <1>2, <1>4, <2>1, <2>2, <2>3, TokensDiffer
<1> QED BY <1>5, <1>6, <1>7, <1>8

LEMMA GroupConsume ==
    ASSUME ParserType, Grouping, GroupInv, Parser!Consume, parser_pc' # "failed"
    PROVE  GroupInv'
<1>1. /\ parser_pc = "parse" /\ parser_i \in Nat /\ p \in Nat /\ query' = query
      /\ parser_i' = parser_i + 1
      /\ Kept \/ (p = 0 /\ p' = 0)
      BY ConsumeIs DEF ParserType
<1>2. inRegex /\ key # "lit:"
      BY <1>1 DEF GroupInv
<1>0. PICK n \in Nat : n = parser_i + 1
      BY <1>1
<1>3. n \in Int /\ 1 <= n /\ n \in Nat /\ Read' = 1 .. n /\ Read = 1 .. n - 1 /\ parser_i = n - 1
      BY <1>0, <1>1 DEF Read
<1>4. \A j, k : /\ Parser!Depth(j, k)' = Parser!Depth(j, k)
                /\ Shut(j, k)' = Shut(j, k)
      BY <1>1, SameDepth
<1>5. CASE p > 0 /\ Parser!InGroup
  <2>1. Kept
        BY <1>1, <1>5
  <2>2. PICK g \in Read : OpenAt(g)
        BY <1>1, <1>5 DEF GroupInv
  <2>3. g \in Int /\ g <= n - 1 /\ 1 <= g
        BY <1>3, <2>2
  <2>4. inRegex' /\ key' # "lit:"
        BY <1>2, <1>5 DEF Parser!InGroup, Parser!Locals
  <2>5. p' = Parser!Depth(g, n)
    <3>1. p' = p + (IF query[n] = "(" THEN 1 ELSE IF query[n] = ")" THEN -1 ELSE 0)
          BY <1>0, <1>5 DEF Parser!InGroup, Parser!tok
    <3>2. p' = p + Parser!Depth(n, n)
          BY <1>3, <3>1, DepthOne
    <3>3. Parser!Depth(g, n) = Parser!Depth(g, n - 1) + Parser!Depth(n - 1 + 1, n)
          BY <1>3, <2>3, DepthSplit
    <3>4. p = Parser!Depth(g, n - 1)
          BY <1>3, <2>2 DEF OpenAt
    <3>5. n - 1 + 1 = n
          BY <1>3
    <3> QED BY <3>2, <3>3, <3>4, <3>5
  <2>6. \A j \in 1 .. g - 1 : query[j] = "(" => Shut(j, g - 1)
        BY <2>2 DEF OpenAt
  <2>7. \A l \in g .. n - 1 : Parser!Depth(g, l) > 0 /\ l \in Held
        BY <1>3, <2>2 DEF OpenAt
  <2>8. ASSUME p' > 0 PROVE OpenAt(g)'
    <3>1. query'[g] = "("
          BY <1>1, <2>2 DEF OpenAt
    <3>2. \A j \in 1 .. g - 1 : query'[j] = "(" => Shut(j, g - 1)'
          BY <1>1, <1>4, <2>6
    <3>3. \A l \in g .. n : Parser!Depth(g, l) > 0 /\ l \in Held'
          BY <1>0, <1>3, <2>1, <2>3, <2>5, <2>7, <2>8 DEF Kept
    <3> QED BY <1>0, <1>1, <1>4, <2>5, <3>1, <3>2, <3>3 DEF OpenAt
  <2>9. ASSUME p' = 0, NEW j \in 1 .. n, query[j] = "("
        PROVE  Shut(j, n)
    <3>0. Parser!Depth(g, n) = 0 /\ n \in g .. n
          BY <1>3, <2>3, <2>5, <2>9
    <3>1. CASE j \in 1 .. g - 1
          BY <1>3, <2>3, <2>6, <2>9, <3>1, ShutLater
    <3>2. CASE j = g
          BY <3>0, <3>2 DEF Shut
    <3>3. CASE j \in g + 1 .. n
      <4>1. j \in Int /\ j - 1 \in Int /\ j - 1 + 1 = j /\ j - 1 \in g .. n - 1
            BY <1>3, <2>3, <3>3
      <4>0. j - 1 <= n /\ g <= j - 1 + 1
            BY <1>3, <2>3, <4>1
      <4>2. /\ Parser!Depth(g, n) = Parser!Depth(g, j - 1) + Parser!Depth(j, n)
            /\ Parser!Depth(g, j - 1) \in Int /\ Parser!Depth(j, n) \in Int
            BY <1>3, <2>3, <4>0, <4>1, DepthSplit
      <4>3. Parser!Depth(g, j - 1) > 0
            BY <2>7, <4>1
      <4>4. Parser!Depth(j, n) <= 0
            BY <3>0, <4>2, <4>3
      <4> QED BY <1>3, <3>3, <4>1, <4>4 DEF Shut
    <3> QED BY <1>3, <2>3, <3>1, <3>2, <3>3
  <2>10. g \in Read'
        BY <1>3, <2>3
  <2> QED BY <1>0, <1>1, <1>3, <1>4, <2>4, <2>8, <2>9, <2>10 DEF GroupInv
<1>6. CASE p = 0 /\ Parser!Open
  <2>1. /\ query[n] = "(" /\ p' = 1 /\ inRegex' = inRegex /\ key' = key /\ Kept
        BY <1>0, <1>2, <1>6, ConsumeIs, KeepIs DEF Parser!Open, Parser!tok, Parser!GroupStarts, Parser!Locals, Kept
  <2>2. Parser!Depth(n, n) = 1
        BY <1>3, <2>1, DepthOne
  <2>3. \A j \in 1 .. n - 1 : query[j] = "(" => Shut(j, n - 1)
        BY <1>1, <1>3, <1>6 DEF GroupInv
  <2>4. OpenAt(n)'
    <3>1. query'[n] = "(" /\ n \in Held'
          BY <1>0, <1>1, <2>1 DEF Kept
    <3>2. \A l \in n .. n : Parser!Depth(n, l) > 0 /\ l \in Held'
          BY <1>3, <2>2, <3>1
    <3> QED BY <1>0, <1>1, <1>3, <1>4, <2>1, <2>2, <2>3, <3>1, <3>2 DEF OpenAt
  <2>5. n \in Read'
        BY <1>3
  <2> QED BY <1>2, <2>1, <2>4, <2>5 DEF GroupInv
<1>7. CASE p = 0 /\ (Parser!Text \/ Parser!Space \/ Parser!Escape \/ Parser!Operator)
  <2>1. p' = 0 /\ query[n] # "(" /\ inRegex' /\ key' # "lit:"
        BY <1>0, <1>7, NothingOpens
  <2>2. ASSUME NEW j \in 1 .. n, query[j] = "("
        PROVE  Shut(j, n)
    <3>1. j \in 1 .. n - 1
          BY <1>3, <2>1, <2>2
    <3>2. Shut(j, n - 1)
          BY <1>1, <1>3, <1>7, <2>2, <3>1 DEF GroupInv
    <3> QED BY <1>3, <3>1, <3>2, ShutLater
  <2> QED BY <1>0, <1>1, <1>3, <1>4, <2>1, <2>2 DEF GroupInv
<1>8. (p > 0 /\ Parser!InGroup) \/ (p = 0 /\ (Parser!Text \/ Parser!Space \/ Parser!Open \/ Parser!Escape \/ Parser!Operator))
      BY DEF Parser!Consume, Parser!InGroup
<1> QED BY <1>5, <1>6, <1>7, <1>8

(***************************************************************************)
(* A token that is enclosed is appended to the term that holds its         *)
(* parenthesis; and a term moves as a whole, for the one that is dropped   *)
(* holds no parenthesis.                                                   *)
(***************************************************************************)
LEMMA TogetherConsume ==
    ASSUME ParserType, Grouping, WholeInv, GroupInv, TogetherInv, Parser!Consume, parser_pc' # "failed"
    PROVE  TogetherInv'
<1>1. /\ parser_pc = "parse" /\ parser_pc' = "parse" /\ parser_i \in Nat /\ query' = query
      /\ parser_i' = parser_i + 1
      /\ Kept \/ (p = 0 /\ (Closes \/ Tags))
      BY ConsumeIs DEF ParserType
<1>0. PICK n \in Nat : n = parser_i + 1
      BY <1>1
<1>2. n \in Nat /\ Read' = 1 .. n /\ Read = 1 .. n - 1 /\ n \notin Read /\ parser_i = n - 1 /\ parser_i' = n
      BY <1>0, <1>1 DEF Read
<1>3. Loose = Held /\ Loose' = Held'
      BY <1>1 DEF Loose
<1> SUFFICES ASSUME NEW j \in 1 .. n, NEW k \in j .. n, Parser!Enclosed(j, k)
             PROVE  /\ k \notin operators'
                    /\ k \in Held' <=> j \in Held'
                    /\ \A o \in DOMAIN ops' : k \in TermSet(o)' <=> j \in TermSet(o)'
    BY <1>1, <1>2, <1>3, SameDepth DEF TogetherInv
<1>4. query[j] = "("
      BY DEF Parser!Enclosed
<1>5. k = n => j = n \/ (p > 0 /\ j \in Held)
      BY <1>0, <1>1, EnclosesNext
<1>6. k # n => /\ k \notin operators
               /\ k \in Held <=> j \in Held
               /\ \A o \in DOMAIN ops : k \in TermSet(o) <=> j \in TermSet(o)
  <2>1. k # n => j \in Read /\ k \in j .. parser_i
        BY <1>2
  <2> QED BY <1>3, <2>1 DEF TogetherInv
<1>7. n \notin operators /\ n \notin Held /\ \A o \in DOMAIN ops : n \notin TermSet(o)
      BY <1>2 DEF ParserType
<1>8. CASE Kept
  <2>1. \A o : TermSet(o)' = TermSet(o)
        BY <1>8 DEF Kept, TermSet
  <2>2. Held' = Held \cup {n} /\ UNCHANGED <<ops, operators>>
        BY <1>0, <1>8 DEF Kept
  <2>3. CASE k # n
    <3>1. j # n BY <1>2, <2>3
    <3> QED BY <1>6, <2>1, <2>2, <2>3, <3>1
  <2>4. CASE k = n /\ j # n
    <3>1. j \in Held BY <1>5, <2>4
    <3>2. \A o \in DOMAIN ops : j \notin TermSet(o)
          BY <1>3, <3>1 DEF WholeInv
    <3> QED BY <1>7, <2>1, <2>2, <2>4, <3>1, <3>2
  <2>5. CASE k = n /\ j = n
        BY <1>7, <2>1, <2>2, <2>5
  <2> QED BY <2>3, <2>4, <2>5
<1>9. CASE p = 0 /\ (Closes \/ Tags)
  <2>1. query[n] # "("
        BY <1>0, <1>9, TokensDiffer DEF Closes, Tags
  <2>2. j # n /\ k # n
        BY <1>2, <1>4, <1>5, <1>9, <2>1
  <2>3. k \notin operators'
        BY <1>0, <1>6, <1>9, <2>2 DEF Closes, Tags
  <2>4. Held' = {}
        BY <1>9 DEF Closes, Tags
  <2>5. ASSUME NEW u, Stored(u)
        PROVE  \A o \in DOMAIN ops' : k \in TermSet(o)' <=> j \in TermSet(o)'
        BY <1>6, <2>2, <2>5 DEF Stored
  <2>6. ASSUME ops' = ops
        PROVE  \A o \in DOMAIN ops' : k \in TermSet(o)' <=> j \in TermSet(o)'
    <3>1. \A o : TermSet(o)' = TermSet(o)
          BY <2>6 DEF TermSet
    <3> QED BY <1>6, <2>2, <2>6, <3>1
  <2> QED BY <1>9, <2>3, <2>4, <2>5, <2>6 DEF Closes, Tags
<1> QED BY <1>1, <1>8, <1>9

(* Before the first token, and again when a link is followed.              *)
Fresh ==
    /\ \E S : query \in Seq(S)
    /\ parser_i = 0 /\ ops = <<>> /\ key = Parser!bare /\ term = <<>>
    /\ inRegex = globalRegex /\ p = 0 /\ operators = {} /\ parser_pc = "parse"

LEMMA FreshInv == Fresh => ParserInv
<1> SUFFICES ASSUME Fresh PROVE ParserInv
    OBVIOUS
<1>1. \E S : query \in Seq(S)
      BY DEF Fresh
<1>2. Len(query) \in Nat
      BY <1>1
<1>3. Read = {} /\ Held = {} /\ Loose = {} /\ DOMAIN ops = {} /\ operators = {} /\ term \in Seq(Nat)
      BY DEF Read, Held, Loose, Fresh
<1>4. ParserType
      BY <1>1, <1>2, <1>3 DEF ParserType, Fresh
<1>5. WholeInv
      BY <1>3 DEF WholeInv
<1>6. ASSUME Grouping PROVE GroupInv /\ TogetherInv
  <2>1. inRegex /\ key # "lit:" /\ p = 0
        BY <1>6, TokensDiffer DEF Fresh, Grouping
  <2> QED BY <1>3, <2>1 DEF GroupInv, TogetherInv
<1> QED BY <1>4, <1>5, <1>6 DEF ParserInv

LEMMA ParserInit == Parser!Init => ParserInv
<1> SUFFICES ASSUME Parser!Init PROVE Fresh
    BY FreshInv
<1>1. PICK s \in Parser!Queries : Parser!Start(s)
      BY DEF Parser!Init
<1>2. PICK n \in 1 .. MaxTokens : s \in [1 .. n -> Tokens]
      BY DEF Parser!Queries
<1>3. n \in Nat
      BY <1>2
<1>4. s \in Seq(Tokens)
      BY <1>2, <1>3
<1> QED BY <1>1, <1>4 DEF Parser!Start, Fresh

LEMMA NextQueryType ==
    ASSUME NEW S, query \in Seq(S)
    PROVE  \E T : Parser!NextQuery \in Seq(T)
<1> DEFINE m == Parser!NextMaxMatches
           T == S \cup {Parser!sp, "max_matches:", m}
<1>1. query \in Seq(T) /\ Parser!Limit \in Seq(T) /\ <<m>> \in Seq(T)
      BY DEF Parser!Limit
<1>2. query \o Parser!Limit \o <<m>> \in Seq(T)
      BY <1>1
<1>3. ASSUME NEW k PROVE [query EXCEPT ![k] = m] \in Seq(T)
  <2>1. PICK n \in Nat : query \in [1 .. n -> T]
        BY <1>1
  <2>2. [query EXCEPT ![k] = m] \in [1 .. n -> T]
        BY <2>1
  <2> QED BY <2>2
<1> HIDE DEF T
<1>4. Parser!NextQuery = query \o Parser!Limit \o <<m>> \/ Parser!NextQuery = query
      \/ \E k : Parser!NextQuery = [query EXCEPT ![k] = m]
      BY DEF Parser!NextQuery
<1> HIDE DEF m
<1> QED BY <1>1, <1>2, <1>3, <1>4

LEMMA ParserNext ==
    ASSUME ParserInv, Parser!Next
    PROVE  ParserInv'
<1> SUFFICES ASSUME Alive' PROVE ParserInv'
    BY DEF ParserInv
<1>0. parser_pc' # "failed" /\ parser_pc' \in {"parse", "build", "done"}
      BY DEF Alive
<1>1. CASE Parser!Consume
  <2>1. Alive /\ ParserType /\ WholeInv
        BY <1>1 DEF ParserInv, Alive, Parser!Consume
  <2>2. ParserType' /\ WholeInv'
        BY <1>0, <1>1, <2>1, TypeConsume, WholeConsume
  <2>3. ASSUME Grouping' PROVE GroupInv' /\ TogetherInv'
    <3>1. Grouping
          BY <1>1, <2>3 DEF Grouping, Parser!Consume
    <3>2. GroupInv /\ TogetherInv
          BY <2>1, <3>1 DEF ParserInv
    <3> QED BY <1>0, <1>1, <2>1, <3>1, <3>2, GroupConsume, TogetherConsume
  <2> QED BY <2>2, <2>3 DEF ParserInv
<1>2. CASE Parser!LastTerm
  <2>1. /\ parser_pc = "parse" /\ parser_i = Len(query) /\ parser_pc' = "build"
        /\ key \notin DOMAIN ops /\ ops' = Parser!WithTerm(key)
        /\ UNCHANGED <<query, globalRegex, parser_i, key, term, inRegex, p, operators>>
        BY <1>0, <1>2 DEF Parser!LastTerm, Parser!Fail
  <2>2. Alive /\ ParserType /\ WholeInv /\ (Grouping => TogetherInv)
        BY <2>1 DEF ParserInv, Alive
  <2>0. PICK u : u = key
        OBVIOUS
  <2>3. /\ Stored(u) /\ Loose = Held /\ Loose' = {} /\ Held' = Held /\ Read' = Read /\ Grouping' = Grouping
        BY <2>0, <2>1, StoreIs DEF Loose, Held, Read, Grouping
  <2>4. ParserType'
        BY <2>1, <2>2, <2>3 DEF ParserType, Stored
  <2>5. WholeInv'
        BY <2>1, <2>2, <2>3 DEF WholeInv, Stored
  <2>6. GroupInv'
        BY <2>1 DEF GroupInv
  <2>7. ASSUME Grouping PROVE TogetherInv'
    <3> SUFFICES ASSUME NEW j \in Read, NEW k \in j .. parser_i, Parser!Enclosed(j, k)
                 PROVE  /\ k \notin operators
                        /\ \A o \in DOMAIN ops' : k \in TermSet(o)' <=> j \in TermSet(o)'
        BY <2>1, <2>3, SameDepth DEF TogetherInv
    <3>1. /\ k \notin operators
          /\ k \in Held <=> j \in Held
          /\ \A o \in DOMAIN ops : k \in TermSet(o) <=> j \in TermSet(o)
          BY <2>2, <2>3, <2>7 DEF TogetherInv
    <3> QED BY <2>3, <3>1 DEF Stored
  <2> QED BY <2>3, <2>4, <2>5, <2>6, <2>7 DEF ParserInv
<1>3. CASE Parser!Build
  <2>1. /\ parser_pc = "build" /\ parser_pc' = "done"
        /\ UNCHANGED <<query, globalRegex, parser_i, ops, key, term, inRegex, p, operators>>
        BY <1>0, <1>3 DEF Parser!Build, Parser!Fail
  <2>2. Alive /\ ParserType /\ WholeInv /\ (Grouping => TogetherInv)
        BY <2>1 DEF ParserInv, Alive
  <2>3. Loose = {} /\ Loose' = {} /\ Held' = Held /\ Read' = Read /\ Grouping' = Grouping
        BY <2>1 DEF Loose, Held, Read, Grouping
  <2>4. \A o : TermSet(o)' = TermSet(o)
        BY <2>1 DEF TermSet
  <2>5. ParserType' /\ WholeInv'
        BY <2>1, <2>2, <2>3, <2>4 DEF ParserType, WholeInv
  <2>6. GroupInv'
        BY <2>1 DEF GroupInv
  <2>7. Grouping => TogetherInv'
        BY <2>1, <2>2, <2>3, <2>4, SameDepth DEF TogetherInv
  <2> QED BY <2>3, <2>5, <2>6, <2>7 DEF ParserInv
<1>4. CASE Parser!FollowLink
  <2>1. PICK S : query \in Seq(S)
        BY <1>4 DEF ParserInv, ParserType, Alive, Parser!FollowLink
  <2>2. \E T : query' \in Seq(T)
        BY <1>4, <2>1, NextQueryType DEF Parser!FollowLink
  <2>3. Fresh'
        BY <1>4, <2>2 DEF Parser!FollowLink, Fresh
  <2>4. Fresh' => ParserInv'
        BY FreshInv, PTL
  <2> QED BY <2>3, <2>4
<1> QED BY <1>1, <1>2, <1>3, <1>4 DEF Parser!Next

LEMMA ParserWhole == ParserInv => Parser!TermsWhole
<1> SUFFICES ASSUME ParserInv, parser_pc = "done" PROVE
          /\ \A k \in 1 .. Len(query) \ operators :
               query[k] # Parser!sp => Parser!Cardinality(Parser!TermsOf(k)) = 1
          /\ Grouping =>
               \A j \in 1 .. Len(query) : \A k \in j .. Len(query) :
                 Parser!Enclosed(j, k) => k \notin operators /\ Parser!TermsOf(k) = Parser!TermsOf(j)
    BY DEF Parser!TermsWhole, Grouping
<1>1. ParserType /\ WholeInv /\ (Grouping => TogetherInv) /\ Loose = {} /\ parser_i = Len(query)
      BY DEF ParserInv, Alive, ParserType, Loose
<1>2. ASSUME NEW k PROVE Parser!TermsOf(k) = {o \in DOMAIN ops : k \in TermSet(o)}
      BY DEF Parser!TermsOf, TermSet
<1>3. ASSUME NEW k \in 1 .. Len(query), k \notin operators, query[k] # Parser!sp
      PROVE  Parser!Cardinality(Parser!TermsOf(k)) = 1
  <2>1. PICK o \in DOMAIN ops : k \in TermSet(o)
        BY <1>1, <1>3 DEF WholeInv, Read
  <2>2. Parser!TermsOf(k) = {o}
        BY <1>1, <1>2, <2>1 DEF WholeInv
  <2> QED BY <2>2, FS_Singleton, ParserSets
<1>4. ASSUME Grouping, NEW j \in 1 .. Len(query), NEW k \in j .. Len(query), Parser!Enclosed(j, k)
      PROVE  k \notin operators /\ Parser!TermsOf(k) = Parser!TermsOf(j)
      BY <1>1, <1>2, <1>4 DEF TogetherInv, Read
<1> QED BY <1>3, <1>4

-----------------------------------------------------------------------------
(* The searchers of names.                                                 *)

Last == Len(lens)
Within(x, k) == start[k] <= x /\ x < start[k] + lens[k]
Cands == {indexes[a] : a \in 1 .. Len(indexes)}
Seen == {indexes[a] : a \in 1 .. names_i}
Found == {reported[a] : a \in 1 .. Len(reported)}

(* The names lie one behind the other, and every candidate in one of them. *)
Table ==
    /\ lens \in Seq(Nat \ {0}) /\ Last >= 1
    /\ start \in [1 .. Last -> Nat] /\ start[1] = 0
    /\ \A k, m \in 1 .. Last : k < m => start[k] + lens[k] < start[m]
    /\ indexes \in Seq(Nat)
    /\ \A a, b \in 1 .. Len(indexes) : a < b => indexes[a] < indexes[b]
    /\ \A a \in 1 .. Len(indexes) : \E k \in 1 .. Last : Within(indexes[a], k)
    /\ garbage \in Int
    /\ \A k \in matching : k \in 1 .. Last /\ \E x \in Cands : Within(x, k)

LEMMA NamesSets ==
    /\ \A S : Names!Cardinality(S) = Cardinality(S)
    /\ \A s : Names!ToSet(s) = {s[a] : a \in DOMAIN s}
<1>1. \A S : Names!Cardinality(S) = Cardinality(S)
      BY DEF Names!Cardinality, Cardinality
<1>2. \A s : Names!ToSet(s) = {s[a] : a \in DOMAIN s}
      BY DEF Names!ToSet
<1> QED BY <1>1, <1>2

LEMMA LeastElement ==
    ASSUME NEW T \in SUBSET Nat, T # {}
    PROVE  \E x \in T : \A y \in T : x <= y
<1> DEFINE R == OpToRel(<, Nat)
<1>1. \E x \in T : \A y \in T : ~(<<y, x>> \in R)
      BY WFMin, NatLessThanWellFounded, Zenon
<1>2. \A x, y \in Nat : y < x => <<y, x>> \in R
      BY DEF OpToRel
<1> HIDE DEF R
<1>3. PICK x \in T : \A y \in T : ~(<<y, x>> \in R)
      BY <1>1
<1>4. \A y \in T : x <= y
  <2> TAKE y \in T
  <2>1. x \in Nat /\ y \in Nat /\ ~(y < x)
        BY <1>2, <1>3
  <2> QED BY <2>1
<1> QED BY <1>4

(* Each name starts behind all the names before it: by the least name that *)
(* does not.                                                               *)
LEMMA NamesApart ==
    ASSUME NEW n \in Nat, NEW ls \in [1 .. n -> Nat], NEW st \in [1 .. n -> Nat],
           \A k \in 2 .. n : st[k] = st[k - 1] + ls[k - 1] + 1
    PROVE  \A k, m \in 1 .. n : k < m => st[k] + ls[k] < st[m]
<1> DEFINE T == {m \in 1 .. n : \E k \in 1 .. n : k < m /\ ~(st[k] + ls[k] < st[m])}
<1> SUFFICES ASSUME T # {} PROVE FALSE
    OBVIOUS
<1>1. T \in SUBSET Nat
      OBVIOUS
<1> HIDE DEF T
<1>2. PICK m \in T : \A y \in T : m <= y
      BY <1>1, LeastElement
<1>3. m \in 1 .. n
      BY <1>2 DEF T
<1>4. PICK k \in 1 .. n : k < m /\ ~(st[k] + ls[k] < st[m])
      BY <1>2 DEF T
<1>5. m \in 2 .. n /\ m - 1 \in 1 .. n
      BY <1>3, <1>4
<1>6. st[m] = st[m - 1] + ls[m - 1] + 1
      BY <1>5
<1>7. m - 1 \notin T
      BY <1>2, <1>3, <1>5
<1>8. CASE k = m - 1
      BY <1>4, <1>5, <1>6, <1>8
<1>9. CASE k < m - 1
  <2>1. st[k] + ls[k] < st[m - 1]
        BY <1>4, <1>5, <1>7, <1>9 DEF T
  <2>2. /\ st[k] \in Nat /\ ls[k] \in Nat /\ st[m - 1] \in Nat /\ ls[m - 1] \in Nat /\ st[m] \in Nat
        BY <1>3, <1>4, <1>5
  <2> QED BY <1>4, <1>6, <2>1, <2>2
<1> QED BY <1>3, <1>4, <1>8, <1>9

(* lsd_radix_sort: the position at n has n - 1 smaller ones.               *)
Smaller(S, g) == {h \in S : h < g}
Rank(S, g) == Cardinality(Smaller(S, g))

LEMMA RankIsIndex ==
    ASSUME NEW S \in SUBSET Nat, IsFiniteSet(S)
    PROVE  /\ \A g \in S : Rank(S, g) \in Nat /\ Rank(S, g) < Cardinality(S)
           /\ \A g, h \in S : g < h => Rank(S, g) < Rank(S, h)
           /\ \A n \in 1 .. Cardinality(S) : \E g \in S : Rank(S, g) = n - 1
<1> DEFINE N == Cardinality(S)
<1>0. N \in Nat
      BY FS_CardinalityType
<1>1. \A g \in S : Smaller(S, g) \in SUBSET S /\ IsFiniteSet(Smaller(S, g)) /\ Rank(S, g) \in Nat
      BY FS_Subset, FS_CardinalityType DEF Smaller, Rank
<1>2. ASSUME NEW g \in S, NEW T, IsFiniteSet(T), Smaller(S, g) \in SUBSET T, g \in T
      PROVE  Rank(S, g) < Cardinality(T)
  <2>1. g \notin Smaller(S, g)
        BY DEF Smaller
  <2>2. Rank(S, g) <= Cardinality(T) /\ (Cardinality(T) = Rank(S, g) => T = Smaller(S, g))
        BY <1>2, FS_Subset DEF Rank
  <2>3. Cardinality(T) \in Nat
        BY <1>2, FS_CardinalityType
  <2> QED BY <1>1, <1>2, <2>1, <2>2, <2>3
<1>3. \A g \in S : Rank(S, g) < N
      BY <1>1, <1>2
<1>4. \A g, h \in S : g < h => Rank(S, g) < Rank(S, h)
  <2> TAKE g \in S, h \in S
  <2> HAVE g < h
  <2>1. g \in Smaller(S, h)
        BY DEF Smaller
  <2>2. Smaller(S, g) \in SUBSET Smaller(S, h)
    <3>1. \A x \in S : x < g => x < h
      <4> TAKE x \in S
      <4>1. x \in Nat /\ g \in Nat /\ h \in Nat
            OBVIOUS
      <4> QED BY <4>1
    <3> QED BY <3>1 DEF Smaller
  <2> QED BY <1>1, <1>2, <2>1, <2>2 DEF Rank
<1>5. \A n \in 1 .. N : \E g \in S : Rank(S, g) = n - 1
  <2> DEFINE T == 0 .. (N - 1)
             f == [g \in S |-> Rank(S, g)]
  <2>1. IsFiniteSet(T) /\ Cardinality(T) = N
    <3> HIDE DEF N
    <3>1. 0 \in Int /\ N - 1 \in Int /\ N - 1 - 0 + 1 = N /\ (0 > N - 1 <=> N = 0)
          BY <1>0
    <3>2. IsFiniteSet(0 .. (N - 1)) /\ Cardinality(0 .. (N - 1)) = IF 0 > N - 1 THEN 0 ELSE N - 1 - 0 + 1
          BY <3>1, FS_Interval
    <3> QED BY <3>1, <3>2
  <2>2. f \in Injection(S, T)
    <3>1. f \in [S -> T]
          BY <1>0, <1>1, <1>3
    <3>2. ASSUME NEW g \in S, NEW h \in S, g # h PROVE Rank(S, g) # Rank(S, h)
      <4>1. g < h \/ h < g
            BY <3>2
      <4>2. Rank(S, g) < Rank(S, h) \/ Rank(S, h) < Rank(S, g)
            BY <1>4, <4>1
      <4> QED BY <1>1, <4>2
    <3> QED BY <3>1, <3>2 DEF Injection, IsInjective
  <2>3. f \in Surjection(S, T)
    <3> HIDE DEF f, T
    <3> QED BY <2>1, <2>2, FS_Injection
  <2> TAKE n \in 1 .. N
  <2>4. n - 1 \in T
        BY <1>0
  <2>5. PICK g \in S : f[g] = n - 1
        BY <2>3, <2>4 DEF Surjection
  <2> QED BY <2>5
<1> QED BY <1>1, <1>3, <1>4, <1>5

LEMMA SortedIs ==
    ASSUME NEW S \in SUBSET Nat, IsFiniteSet(S)
    PROVE  /\ Names!Sorted(S) \in Seq(Nat)
           /\ \A a, b \in 1 .. Len(Names!Sorted(S)) : a < b => Names!Sorted(S)[a] < Names!Sorted(S)[b]
           /\ \A a \in 1 .. Len(Names!Sorted(S)) : Names!Sorted(S)[a] \in S
           /\ \A g \in S : \E a \in 1 .. Len(Names!Sorted(S)) : Names!Sorted(S)[a] = g
<1> DEFINE N == Cardinality(S)
           s == Names!Sorted(S)
<1>0. N \in Nat
      BY FS_CardinalityType
<1>1. s = [n \in 1 .. N |-> CHOOSE g \in S : Names!Cardinality({h \in S : h < g}) = n - 1]
      BY NamesSets DEF Names!Sorted
<1>2. \A n \in 1 .. N : s[n] \in S /\ Rank(S, s[n]) = n - 1
  <2> TAKE n \in 1 .. N
  <2>1. \A g \in S : Names!Cardinality({h \in S : h < g}) = Rank(S, g)
        BY NamesSets DEF Rank, Smaller
  <2>2. \E g \in S : Names!Cardinality({h \in S : h < g}) = n - 1
        BY <2>1, RankIsIndex
  <2> HIDE DEF s
  <2>3. s[n] = CHOOSE g \in S : Names!Cardinality({h \in S : h < g}) = n - 1
        BY <1>1
  <2>4. s[n] \in S /\ Names!Cardinality({h \in S : h < s[n]}) = n - 1
        BY <2>2, <2>3
  <2> QED BY <2>1, <2>4
<1>7. \A g, h \in S : (Rank(S, g) < Rank(S, h) => g < h) /\ (Rank(S, g) = Rank(S, h) => g = h)
  <2> TAKE g \in S, h \in S
  <2>1. Rank(S, g) \in Nat /\ Rank(S, h) \in Nat
        BY RankIsIndex
  <2>2. (g < h => Rank(S, g) < Rank(S, h)) /\ (h < g => Rank(S, h) < Rank(S, g))
        BY RankIsIndex
  <2>3. g \in Nat /\ h \in Nat
        OBVIOUS
  <2> QED BY <2>1, <2>2, <2>3
<1> HIDE DEF s, N
<1>3. s \in [1 .. N -> Nat]
  <2>1. \A n \in 1 .. N : s[n] \in Nat
        BY <1>2
  <2> QED BY <1>1, <2>1
<1>4. s \in Seq(Nat) /\ Len(s) = N
      BY <1>0, <1>3
<1>5. \A a, b \in 1 .. N : a < b => s[a] < s[b]
  <2> TAKE a \in 1 .. N, b \in 1 .. N
  <2> HAVE a < b
  <2>1. Rank(S, s[a]) < Rank(S, s[b]) /\ s[a] \in S /\ s[b] \in S
        BY <1>0, <1>2
  <2> QED BY <1>7, <2>1
<1>6. ASSUME NEW g \in S PROVE \E a \in 1 .. N : s[a] = g
  <2>1. Rank(S, g) \in Nat /\ Rank(S, g) < N
        BY RankIsIndex DEF N
  <2>2. PICK a \in 1 .. N : a - 1 = Rank(S, g)
    <3>1. Rank(S, g) + 1 \in 1 .. N
          BY <1>0, <2>1
    <3> QED BY <2>1, <3>1
  <2>3. s[a] \in S /\ Rank(S, s[a]) = Rank(S, g)
        BY <1>2, <2>2
  <2> QED BY <1>7, <2>2, <2>3
<1> QED BY <1>2, <1>4, <1>5, <1>6 DEF s

LEMMA TableInit == ASSUME Names!NameSearchAssumption, Names!Init PROVE Table
<1>1. PICK n \in 1 .. MaxNames : lens \in [1 .. n -> 1 .. MaxLen]
      BY DEF Names!Init
<1>2. n \in Nat /\ n >= 1 /\ Len(lens) = n /\ lens \in Seq(Nat \ {0}) /\ lens \in [1 .. n -> Nat]
      /\ \A k \in 1 .. n : lens[k] \in Nat /\ lens[k] >= 1
      BY <1>1 DEF Names!NameSearchAssumption
<1>3. /\ start \in [1 .. n -> Nat] /\ start[1] = 0
      /\ \A k \in 2 .. n : start[k] = start[k - 1] + lens[k - 1] + 1
      BY <1>2 DEF Names!Init, Names!Name, Names!StartsAt, Names!NameSearchAssumption
<1>4. \A k, m \in 1 .. n : k < m => start[k] + lens[k] < start[m]
      BY <1>2, <1>3, NamesApart
<1>5. \A k \in 1 .. n : \A x : x \in Names!InName(k) <=> x \in Nat /\ Within(x, k)
      BY <1>2, <1>3 DEF Names!InName, Within
<1>6. PICK S \in SUBSET Names!Positions : indexes = Names!Sorted(S)
      BY DEF Names!Init
<1>7. \A x \in S : x \in Nat /\ \E k \in 1 .. n : Within(x, k)
      BY <1>2, <1>5, <1>6 DEF Names!Positions, Names!Name
<1>8. IsFiniteSet(S)
  <2>1. start[n] \in Nat /\ lens[n] \in Nat
        BY <1>2, <1>3
  <2>2. \A x \in S : x \in 0 .. (start[n] + lens[n])
    <3> TAKE x \in S
    <3>1. PICK k \in 1 .. n : Within(x, k)
          BY <1>7
    <3>2. x \in Nat /\ x < start[k] + lens[k]
          BY <1>7, <3>1 DEF Within
    <3>3. start[k] \in Nat /\ lens[k] \in Nat
          BY <1>2, <1>3
    <3>4. k = n \/ start[k] + lens[k] < start[n]
          BY <1>2, <1>4
    <3> QED BY <2>1, <3>2, <3>3, <3>4
  <2>3. S \subseteq 0 .. (start[n] + lens[n])
        BY <2>2
  <2>4. 0 \in Int /\ start[n] + lens[n] \in Int
        BY <2>1
  <2>5. IsFiniteSet(0 .. (start[n] + lens[n]))
        BY <2>4, FS_Interval
  <2> QED BY <2>3, <2>5, FS_Subset
<1>9. S \in SUBSET Nat
      BY <1>7
<1>10. /\ indexes \in Seq(Nat)
       /\ \A a, b \in 1 .. Len(indexes) : a < b => indexes[a] < indexes[b]
       /\ \A a \in 1 .. Len(indexes) : indexes[a] \in S
       BY <1>6, <1>8, <1>9, SortedIs
<1>11. garbage \in Int
       BY DEF Names!Init, Names!NameSearchAssumption
<1>12. ASSUME NEW k \in matching PROVE k \in 1 .. n /\ \E x \in Cands : Within(x, k)
  <2>1. k \in 1 .. n /\ Names!Candidate(k)
        BY <1>2 DEF Names!Init, Names!Name
  <2>2. PICK x \in Names!InName(k) : x \in Names!ToSet(indexes)
        BY <2>1 DEF Names!Candidate
  <2>3. x \in Cands
        BY <1>10, <2>2, NamesSets DEF Cands
  <2> QED BY <1>5, <2>1, <2>2, <2>3
<1> QED BY <1>2, <1>3, <1>4, <1>7, <1>10, <1>11, <1>12 DEF Table, Last

LEMMA TableTypes ==
    ASSUME Table
    PROVE  /\ Last \in Nat /\ Last >= 1 /\ Last = Len(lens)
           /\ \A j \in 1 .. Last : start[j] \in Nat /\ lens[j] \in Nat /\ lens[j] >= 1
<1>1. /\ Last \in Nat /\ Last >= 1 /\ Last = Len(lens)
      BY DEF Table, Last
<1> SUFFICES ASSUME NEW j \in 1 .. Last PROVE start[j] \in Nat /\ lens[j] \in Nat /\ lens[j] >= 1
    BY <1>1
<1>2. start[j] \in Nat
      BY DEF Table
<1>3. lens \in Seq(Nat \ {0}) /\ j \in 1 .. Len(lens)
      BY <1>1 DEF Table
<1>4. lens[j] \in Nat \ {0}
      BY <1>3
<1> QED BY <1>2, <1>4

-----------------------------------------------------------------------------
(* A position lies in one name, and its lower_bound is that name if it is  *)
(* its start, else the next one.                                           *)
LEMMA OneName ==
    ASSUME Table, NEW k \in 1 .. Last, NEW m \in 1 .. Last, NEW x \in Nat, Within(x, k), Within(x, m)
    PROVE  k = m
<1>1. /\ start[k] \in Nat /\ start[m] \in Nat /\ lens[k] \in Nat /\ lens[m] \in Nat
      BY TableTypes
<1>2. Last \in Nat
      BY TableTypes
<1>3. (k < m => start[k] + lens[k] < start[m]) /\ (m < k => start[m] + lens[m] < start[k])
      BY DEF Table
<1> QED BY <1>1, <1>2, <1>3 DEF Within

LEMMA LowerBoundIs ==
    ASSUME Table, NEW l \in 1 .. Last, NEW k \in 1 .. Last, NEW x \in Nat,
           Within(x, k), start[l] <= x
    PROVE  /\ l <= k
           /\ Names!LowerBound(l, x) = IF x = start[k] THEN k ELSE k + 1
<1>0. Last \in Nat /\ l \in Nat /\ k \in Nat /\ Last = Len(lens)
      BY TableTypes
<1>1. \A j \in 1 .. Last : start[j] \in Nat /\ lens[j] \in Nat /\ lens[j] >= 1
      BY TableTypes
<1>2. \A j, m \in 1 .. Last : j < m => start[j] + lens[j] < start[m]
      BY DEF Table
<1>3. start[k] <= x /\ x < start[k] + lens[k]
      BY DEF Within
<1>4. l <= k
  <2> SUFFICES ASSUME k < l PROVE FALSE
      BY <1>0
  <2>1. start[k] + lens[k] < start[l]
        BY <1>2
  <2> QED BY <1>1, <1>3, <2>1
<1> DEFINE P(j) == start[j] >= x /\ \A m \in l .. (j - 1) : start[m] < x
<1>5. \A i, j \in l .. Last : P(i) /\ P(j) => i = j
  <2> SUFFICES ASSUME NEW i \in l .. Last, NEW j \in l .. Last, P(i), P(j), i < j PROVE FALSE
      BY <1>0
  <2>1. i \in l .. (j - 1) /\ i \in 1 .. Last
        BY <1>0
  <2> QED BY <1>1, <2>1
<1>6. CASE x = start[k]
  <2>1. k \in l .. Last
        BY <1>0, <1>4
  <2>2. P(k)
    <3>1. \A m \in l .. (k - 1) : start[m] < x
      <4> TAKE m \in l .. (k - 1)
      <4>1. m \in 1 .. Last /\ m < k
            BY <1>0
      <4> QED BY <1>1, <1>2, <1>6, <4>1
    <3> QED BY <1>1, <1>6, <3>1
  <2>3. Names!LowerBound(l, x) = CHOOSE j \in l .. Last : P(j)
        BY <1>0, <2>1, <2>2 DEF Names!LowerBound
  <2> HIDE DEF P
  <2>4. (CHOOSE j \in l .. Last : P(j)) = k
        BY <1>5, <2>1, <2>2
  <2> QED BY <1>4, <1>6, <2>3, <2>4
<1>7. CASE x # start[k] /\ k < Last
  <2>1. k + 1 \in l .. Last /\ k + 1 \in 1 .. Last
        BY <1>0, <1>4, <1>7
  <2>2. P(k + 1)
    <3>1. start[k + 1] >= x
          BY <1>0, <1>1, <1>2, <1>3, <2>1
    <3>2. \A m \in l .. (k + 1 - 1) : start[m] < x
      <4> TAKE m \in l .. (k + 1 - 1)
      <4>1. m \in 1 .. Last /\ (m = k \/ m < k)
            BY <1>0
      <4>2. start[k] < x
            BY <1>1, <1>3, <1>7
      <4> QED BY <1>1, <1>2, <4>1, <4>2
    <3> QED BY <3>1, <3>2
  <2>3. Names!LowerBound(l, x) = CHOOSE j \in l .. Last : P(j)
        BY <1>0, <2>1, <2>2 DEF Names!LowerBound
  <2> HIDE DEF P
  <2>4. (CHOOSE j \in l .. Last : P(j)) = k + 1
        BY <1>5, <2>1, <2>2
  <2> QED BY <1>4, <1>7, <2>3, <2>4
<1>8. CASE x # start[k] /\ k = Last
  <2>1. \A j \in l .. Last : ~(start[j] >= x)
    <3> TAKE j \in l .. Last
    <3>1. j \in 1 .. Last /\ (j = k \/ j < k)
          BY <1>0, <1>8
    <3> QED BY <1>1, <1>2, <1>3, <1>8, <3>1
  <2> QED BY <1>0, <1>4, <1>8, <2>1 DEF Names!LowerBound
<1> QED BY <1>0, <1>6, <1>7, <1>8

-----------------------------------------------------------------------------
(***************************************************************************)
(* Where the loop is.  After a candidate at the start of name k,           *)
(* previous_first is that start; after one behind the start, it is the     *)
(* start of the next name, or what is read at end(); left_bound is k in    *)
(* both cases.  When the word at end() is the candidate itself, the loop   *)
(* takes end() for a name and an assert fails.                             *)
(***************************************************************************)
After(k) == IF k = Last THEN garbage ELSE start[k + 1]

Untried == left_bound = 1 /\ previous_first = -1 /\ reported = <<>>
AtStart(k) == left_bound = k /\ previous_first = start[k] /\ start[k] \in Seen
Inside(k) ==
    /\ left_bound = k /\ previous_first = After(k)
    /\ \E x \in Seen : Within(x, k) /\ x # start[k]
AtEnd == left_bound = Last + 1 /\ previous_first = garbage /\ ~asserted

PlaceInv == Untried \/ (\E k \in 1 .. Last : AtStart(k) \/ Inside(k)) \/ AtEnd

LoopEnd == IF brute THEN Last ELSE Len(indexes)

NamesType ==
    /\ names_i \in 0 .. LoopEnd
    /\ reported \in Seq(Nat)
    /\ done /\ ~cut => names_i = LoopEnd

(* What has been reported, in the loop over the candidates ...             *)
OrderInv ==
    /\ \A a \in 1 .. Len(reported) : reported[a] \in matching /\ reported[a] <= left_bound
    /\ \A a, b \in 1 .. Len(reported) : a < b => reported[a] <= reported[b]
    /\ \A a \in 1 .. Len(reported) : a + 2 <= Len(reported) => reported[a + 2] # reported[a]
    /\ \A a \in 1 .. Len(reported) :
           a + 1 <= Len(reported) /\ reported[a] = left_bound /\ reported[a + 1] = left_bound
               => previous_first = After(left_bound)

Shaded(k) == k > 1 /\ \E x \in Cands : Within(x, k - 1) /\ x # start[k - 1]

Alias == garbage = -1 \/ \E m \in 1 .. Last : garbage = start[m]

(* ... what has been missed ...                                            *)
MissInv ==
    asserted =>
        /\ Untried \/ (left_bound \in matching => left_bound \in Found)
        /\ \A k \in matching : k \notin Found =>
               /\ start[k] \in Seen => Shaded(k)
               /\ \A x \in Seen : Within(x, k) => x = start[k] \/ (k = Last /\ Alias)

LoopInv ==
    /\ PlaceInv
    /\ OrderInv
    /\ MissInv
    /\ asserted \/ garbage \in Cands

(* ... and in the loop over all names.                                     *)
BruteInv ==
    /\ asserted
    /\ \A a \in 1 .. Len(reported) : reported[a] \in matching /\ reported[a] <= names_i
    /\ \A a, b \in 1 .. Len(reported) : a < b => reported[a] < reported[b]
    /\ \A k \in matching : k <= names_i => k \in Found

NamesInv == Table /\ NamesType /\ (brute => BruteInv) /\ (~brute => LoopInv)

LEMMA NamesInit == ASSUME Names!NameSearchAssumption, Names!Init PROVE NamesInv
<1>1. Table
      BY TableInit
<1>2. /\ names_i = 0 /\ left_bound = 1 /\ previous_first = -1 /\ reported = <<>>
      /\ done = FALSE /\ asserted = TRUE
      BY DEF Names!Init
<1>3. Len(reported) = 0 /\ reported \in Seq(Nat) /\ Seen = {} /\ LoopEnd \in Nat
      BY <1>1, <1>2 DEF Seen, LoopEnd, Table, Last
<1>4. NamesType
      BY <1>2, <1>3 DEF NamesType
<1>5. BruteInv
      BY <1>1, <1>2, <1>3 DEF BruteInv, Table
<1>6. LoopInv
      BY <1>2, <1>3 DEF LoopInv, PlaceInv, Untried, OrderInv, MissInv
<1> QED BY <1>1, <1>4, <1>5, <1>6 DEF NamesInv

(* match_filename.                                                         *)
LEMMA MatchNameIs ==
    ASSUME reported \in Seq(Nat), NEW h \in Nat, Names!MatchName(h)
    PROVE  /\ reported' \in Seq(Nat)
           /\ h \notin matching => reported' = reported
           /\ h \in matching =>
                  /\ Len(reported') = Len(reported) + 1
                  /\ reported'[Len(reported) + 1] = h
                  /\ \A a \in 1 .. Len(reported) : reported'[a] = reported[a]
           /\ Found' = IF h \in matching THEN Found \cup {h} ELSE Found
<1>1. CASE h \notin matching
      BY <1>1 DEF Names!MatchName, Found
<1>2. CASE h \in matching
  <2>1. reported' = Append(reported, h)
        BY <1>2 DEF Names!MatchName
  <2>2. /\ reported' \in Seq(Nat) /\ Len(reported) \in Nat
        /\ Len(reported') = Len(reported) + 1
        /\ reported'[Len(reported) + 1] = h
        /\ \A a \in 1 .. Len(reported) : reported'[a] = reported[a]
        BY <2>1
  <2>3. Found' = Found \cup {h}
    <3>1. 1 .. Len(reported') = (1 .. Len(reported)) \cup {Len(reported) + 1}
          BY <2>2
    <3> QED BY <2>2, <3>1 DEF Found
  <2> QED BY <1>2, <2>2, <2>3
<1> QED BY <1>1, <1>2

(* The candidate that is looked at next is larger than all before it.      *)
LEMMA NextCandidate ==
    ASSUME Table, NamesType, ~brute, names_i < Len(indexes), names_i' = names_i + 1, indexes' = indexes
    PROVE  /\ indexes[names_i + 1] \in Nat /\ indexes[names_i + 1] \in Cands
           /\ \A x \in Seen : x \in Nat /\ x < indexes[names_i + 1]
           /\ Seen' = Seen \cup {indexes[names_i + 1]}
           /\ \E k \in 1 .. Last : Within(indexes[names_i + 1], k)
<1>1. names_i \in Nat /\ Len(indexes) \in Nat /\ indexes \in Seq(Nat)
      BY DEF NamesType, LoopEnd, Table
<1>2. names_i + 1 \in 1 .. Len(indexes)
      BY <1>1
<1>3. indexes[names_i + 1] \in Nat /\ indexes[names_i + 1] \in Cands
      BY <1>1, <1>2 DEF Cands
<1>4. \A a \in 1 .. names_i : a \in 1 .. Len(indexes) /\ indexes[a] \in Nat /\ indexes[a] < indexes[names_i + 1]
  <2> TAKE a \in 1 .. names_i
  <2>1. a \in 1 .. Len(indexes) /\ a < names_i + 1
        BY <1>1
  <2>2. indexes[a] < indexes[names_i + 1]
        BY <1>2, <2>1 DEF Table
  <2> QED BY <1>1, <2>1, <2>2
<1>5. Seen' = Seen \cup {indexes[names_i + 1]}
  <2>1. 1 .. (names_i + 1) = (1 .. names_i) \cup {names_i + 1}
        BY <1>1
  <2> QED BY <2>1 DEF Seen
<1>6. \E k \in 1 .. Last : Within(indexes[names_i + 1], k)
      BY <1>2 DEF Table
<1> QED BY <1>3, <1>4, <1>5, <1>6 DEF Seen

(* The look-up of a candidate x that lies in name k.                       *)
LEMMA LookupIs ==
    ASSUME Table, PlaceInv, ~AtEnd, NEW x \in Nat, \A y \in Seen : y \in Nat /\ y < x,
           NEW k \in 1 .. Last, Within(x, k)
    PROVE  /\ left_bound \in 1 .. Last /\ left_bound <= k
           /\ Untried \/ start[left_bound] < x
           /\ Names!LowerBound(left_bound, x) = IF x = start[k] THEN k ELSE k + 1
           /\ Names!First(Names!LowerBound(left_bound, x)) = IF x = start[k] THEN start[k] ELSE After(k)
           /\ k < Last => After(k) \in Nat /\ x < After(k)
<1>0. Last \in Nat /\ Last >= 1 /\ Last = Len(lens)
      BY TableTypes
<1>1. \A j \in 1 .. Last : start[j] \in Nat
      BY DEF Table
<1>2. left_bound \in 1 .. Last /\ (Untried \/ start[left_bound] < x) /\ start[left_bound] <= x
  <2>1. CASE Untried
        BY <1>0, <2>1 DEF Untried, Table
  <2>2. ASSUME NEW j \in 1 .. Last, AtStart(j) \/ Inside(j)
        PROVE  left_bound = j /\ start[j] < x
    <3>1. left_bound = j /\ \E y \in Seen : start[j] <= y
          BY <1>1, <2>2 DEF AtStart, Inside, Within
    <3>2. PICK y \in Seen : start[j] <= y
          BY <3>1
    <3> QED BY <1>1, <3>1, <3>2
  <2> QED BY <1>1, <2>1, <2>2 DEF PlaceInv
<1>3. PICK l \in 1 .. Last : l = left_bound
      BY <1>2
<1>4. /\ l <= k
      /\ Names!LowerBound(l, x) = IF x = start[k] THEN k ELSE k + 1
      BY <1>2, <1>3, LowerBoundIs
<1>5. Names!First(Names!LowerBound(l, x)) = IF x = start[k] THEN start[k] ELSE After(k)
      BY <1>0, <1>4 DEF Names!First, After
<1>6. ASSUME k < Last PROVE After(k) \in Nat /\ x < After(k)
  <2>1. k + 1 \in 1 .. Last /\ k < k + 1 /\ k # Last
        BY <1>0, <1>6
  <2>2. start[k] + lens[k] < start[k + 1]
        BY <2>1 DEF Table
  <2>3. start[k] \in Nat /\ lens[k] \in Nat /\ start[k + 1] \in Nat
        BY <1>0, <1>1, <2>1, TableTypes
  <2> QED BY <2>1, <2>2, <2>3 DEF Within, After
<1> QED BY <1>2, <1>3, <1>4, <1>5, <1>6

(* What a candidate that is not skipped does.                              *)
LEMMA CandidateIs ==
    ASSUME Table, NamesType, PlaceInv, Names!Candidates,
           NEW x \in Nat, x = indexes[names_i + 1], \A y \in Seen : y \in Nat /\ y < x,
           NEW k \in 1 .. Last, Within(x, k)
    PROVE  \/ /\ Names!MatchName(k) /\ left_bound' = k /\ left_bound <= k /\ (asserted' <=> asserted)
              /\ previous_first' = IF x = start[k] THEN start[k] ELSE After(k)
              /\ left_bound = k => Untried \/ (x # start[k] /\ previous_first # After(k))
           \/ /\ left_bound' = Last + 1 /\ left_bound <= Last /\ previous_first' = garbage /\ ~asserted'
              /\ garbage = x /\ UNCHANGED <<reported, cut>>
<1>0. Last \in Nat /\ Last >= 1 /\ Last = Len(lens) /\ k \in Nat
      BY TableTypes
<1> DEFINE lb == Names!LowerBound(left_bound, x)
           fi == Names!First(lb)
           hit == IF fi # x THEN lb - 1 ELSE lb
<1>1. /\ fi # previous_first /\ previous_first' = fi
      /\ asserted' = (asserted /\ (fi # x => lb # left_bound)
                               /\ hit \in Names!Name /\ x \in Names!InName(hit))
      /\ Names!MatchName(hit)
      /\ left_bound' = hit
      BY DEF Names!Candidates
<1> HIDE DEF hit, fi, lb
<1>2. ~AtEnd
  <2> SUFFICES ASSUME AtEnd PROVE FALSE
      OBVIOUS
  <2>1. lb = Len(lens) + 1
        BY <1>0 DEF AtEnd, lb, Names!LowerBound
  <2>2. fi = garbage
        BY <2>1 DEF fi, Names!First
  <2> QED BY <1>1, <2>2 DEF AtEnd
<1>3. /\ left_bound \in 1 .. Last /\ left_bound <= k
      /\ Untried \/ start[left_bound] < x
      /\ lb = IF x = start[k] THEN k ELSE k + 1
      /\ fi = IF x = start[k] THEN start[k] ELSE After(k)
      /\ k < Last => After(k) \in Nat /\ x < After(k)
      BY <1>2, LookupIs DEF lb, fi
<1>4. k \in Names!Name /\ x \in Names!InName(k)
  <2>1. start[k] \in Nat /\ lens[k] \in Nat
        BY <1>0, TableTypes
  <2> QED BY <1>0, <2>1 DEF Names!Name, Names!InName, Within
<1>5. CASE fi = x /\ x # start[k]
  <2>1. k = Last /\ garbage = x /\ hit = Last + 1 /\ fi = garbage
        BY <1>0, <1>3, <1>5 DEF After, hit
  <2>2. hit \notin Names!Name
        BY <1>0, <2>1 DEF Names!Name
  <2>3. UNCHANGED <<reported, cut>>
    <3>1. hit \notin matching
          BY <1>0, <2>1 DEF Table
    <3> QED BY <1>1, <3>1 DEF Names!MatchName
  <2> QED BY <1>1, <1>3, <2>1, <2>2, <2>3
<1>6. CASE ~(fi = x /\ x # start[k])
  <2>1. hit = k /\ (fi # x => lb # left_bound)
        BY <1>0, <1>3, <1>6 DEF hit
  <2>2. asserted' <=> asserted
        BY <1>1, <1>4, <2>1
  <2>3. left_bound = k => Untried \/ (x # start[k] /\ previous_first # After(k))
    <3>1. start[k] \in Nat
          BY DEF Table
    <3> QED BY <1>1, <1>3, <3>1
  <2> QED BY <1>1, <1>3, <2>1, <2>2, <2>3
<1> QED BY <1>5, <1>6

LEMMA SameTable ==
    ASSUME Table, UNCHANGED Names!input
    PROVE  /\ Table' /\ Last' = Last /\ Cands' = Cands /\ Alias' = Alias /\ LoopEnd' = LoopEnd
           /\ UNCHANGED <<lens, start, indexes, matching, garbage, brute>>
           /\ \A k : After(k)' = After(k) /\ Shaded(k)' = Shaded(k)
           /\ \A x, k : Within(x, k)' = Within(x, k)
<1>1. UNCHANGED <<lens, start, indexes, matching, garbage, brute>>
      BY DEF Names!input
<1>2. Last' = Last /\ Cands' = Cands /\ \A x, k : Within(x, k)' = Within(x, k)
      BY <1>1 DEF Last, Cands, Within
<1>3. Alias' = Alias /\ LoopEnd' = LoopEnd /\ \A k : After(k)' = After(k) /\ Shaded(k)' = Shaded(k)
      BY <1>1, <1>2 DEF Alias, LoopEnd, After, Shaded
<1>4. Table'
      BY <1>1, <1>2 DEF Table
<1> QED BY <1>1, <1>2, <1>3, <1>4

(* Name k is matched next: in order, and not for the third time.           *)
LEMMA OrderStep ==
    ASSUME Table, NamesType, OrderInv, UNCHANGED Names!input, NEW k \in 1 .. Last, Names!MatchName(k),
           left_bound \in Nat, left_bound' = k, left_bound <= k, NEW same \in BOOLEAN,
           same => previous_first' = After(k),
           left_bound = k => Untried \/ (same /\ previous_first # After(k))
    PROVE  OrderInv'
<1>0. k \in Nat /\ Last \in Nat /\ reported \in Seq(Nat) /\ Len(reported) \in Nat
      /\ \A a \in 1 .. Len(reported) : reported[a] \in Nat
      BY DEF Table, Last, NamesType
<1>1. matching' = matching /\ After(k)' = After(k)
      BY SameTable
<1>2. /\ reported' \in Seq(Nat)
      /\ k \notin matching => reported' = reported
      /\ k \in matching =>
             /\ Len(reported') = Len(reported) + 1
             /\ reported'[Len(reported) + 1] = k
             /\ \A a \in 1 .. Len(reported) : reported'[a] = reported[a]
      BY <1>0, MatchNameIs
<1>3. \A a \in 1 .. Len(reported) : reported[a] \in matching /\ reported[a] <= left_bound
      BY DEF OrderInv
<1>4. \A a, b \in 1 .. Len(reported) : a < b => reported[a] <= reported[b]
      BY DEF OrderInv
<1>5. \A a \in 1 .. Len(reported) : a + 2 <= Len(reported) => reported[a + 2] # reported[a]
      BY DEF OrderInv
<1>6. ASSUME NEW a \in 1 .. Len(reported), a + 1 <= Len(reported), reported[a] = k, reported[a + 1] = k
      PROVE  FALSE
  <2>1. left_bound = k
        BY <1>0, <1>3, <1>6
  <2>2. previous_first = After(k)
        BY <1>6, <2>1 DEF OrderInv
  <2>3. Untried
        BY <2>1, <2>2
  <2>4. Len(reported) = 0
        BY <2>3 DEF Untried
  <2> QED BY <1>6, <2>4
<1>7. ASSUME k \in matching, NEW a \in 1 .. Len(reported), reported[a] = k
      PROVE  same
  <2>1. left_bound = k /\ Len(reported) # 0
        BY <1>0, <1>3, <1>7
  <2>2. ~Untried
        BY <2>1 DEF Untried
  <2> QED BY <2>1, <2>2
<1>8. CASE k \notin matching
  <2>1. reported' = reported
        BY <1>2, <1>8
  <2>2. \A a \in 1 .. Len(reported) : reported[a] # k /\ reported[a] <= k
        BY <1>0, <1>3, <1>8
  <2> QED BY <1>1, <1>3, <1>4, <1>5, <2>1, <2>2 DEF OrderInv
<1>9. CASE k \in matching
  <2> DEFINE n == Len(reported)
  <2>0. /\ n \in Nat /\ Len(reported)' = n + 1 /\ reported'[n + 1] = k
        /\ \A a \in 1 .. n : reported'[a] = reported[a]
        /\ \A a \in 1 .. (n + 1) : a \in 1 .. n \/ a = n + 1
        BY <1>0, <1>2, <1>9
  <2> HIDE DEF n
  <2>1. \A a \in 1 .. (n + 1) : reported'[a] \in matching /\ reported'[a] <= k /\ reported'[a] \in Nat
    <3> TAKE a \in 1 .. (n + 1)
    <3>1. CASE a = n + 1
          BY <1>0, <1>9, <2>0, <3>1
    <3>2. CASE a \in 1 .. n
          BY <1>0, <1>3, <2>0, <3>2 DEF n
    <3> QED BY <2>0, <3>1, <3>2
  <2>2. \A a, b \in 1 .. (n + 1) : a < b => reported'[a] <= reported'[b]
    <3> TAKE a \in 1 .. (n + 1), b \in 1 .. (n + 1)
    <3> HAVE a < b
    <3>1. a \in 1 .. n
          BY <2>0
    <3>2. CASE b = n + 1
          BY <2>0, <2>1, <3>2
    <3>3. CASE b \in 1 .. n
          BY <1>4, <2>0, <3>1, <3>3 DEF n
    <3> QED BY <2>0, <3>2, <3>3
  <2>3. \A a \in 1 .. (n + 1) : a + 2 <= n + 1 => reported'[a + 2] # reported'[a]
    <3> TAKE a \in 1 .. (n + 1)
    <3> HAVE a + 2 <= n + 1
    <3>1. a \in 1 .. n /\ a + 1 \in 1 .. n /\ a + 1 <= n /\ a < a + 1
          BY <2>0
    <3>2. CASE a + 2 = n + 1
      <4>1. reported[a] # k
        <5> SUFFICES ASSUME reported[a] = k PROVE FALSE
            OBVIOUS
        <5>1. reported[a + 1] = k
              BY <1>0, <1>3, <1>4, <3>1 DEF n
        <5> QED BY <1>6, <3>1, <5>1 DEF n
      <4> QED BY <2>0, <3>1, <3>2, <4>1
    <3>3. CASE a + 2 # n + 1
      <4>1. a + 2 \in 1 .. n /\ a + 2 <= n
            BY <2>0, <3>1, <3>3
      <4> QED BY <1>5, <2>0, <3>1, <4>1 DEF n
    <3> QED BY <3>2, <3>3
  <2>4. ASSUME NEW a \in 1 .. (n + 1), a + 1 <= n + 1, reported'[a] = k, reported'[a + 1] = k
        PROVE  same
    <3>1. a \in 1 .. n
          BY <2>0, <2>4
    <3>2. reported[a] = k
          BY <2>0, <2>4, <3>1
    <3> QED BY <1>7, <1>9, <3>1, <3>2 DEF n
  <2> QED BY <1>1, <2>0, <2>1, <2>2, <2>3, <2>4 DEF OrderInv
<1> QED BY <1>8, <1>9

LEMMA CandidateStep ==
    ASSUME NamesInv, ~brute, Names!Candidates
    PROVE  NamesInv'
<1>1. /\ names_i < Len(indexes) /\ names_i' = names_i + 1 /\ UNCHANGED Names!input /\ ~done /\ done' = done
      BY DEF Names!Candidates
<1>2. Table /\ NamesType /\ PlaceInv /\ OrderInv /\ MissInv /\ (asserted \/ garbage \in Cands)
      BY DEF NamesInv, LoopInv
<1>3. /\ Table' /\ Last' = Last /\ Cands' = Cands /\ Alias' = Alias /\ LoopEnd' = LoopEnd
      /\ UNCHANGED <<lens, start, indexes, matching, garbage, brute>>
      /\ \A k : After(k)' = After(k) /\ Shaded(k)' = Shaded(k)
      /\ \A x, k : Within(x, k)' = Within(x, k)
      BY <1>1, <1>2, SameTable
<1>4. PICK x \in Nat : x = indexes[names_i + 1]
      BY <1>1, <1>2, <1>3, NextCandidate
<1>5. /\ x \in Cands /\ Seen' = Seen \cup {x}
      /\ \A y \in Seen : y \in Nat /\ y < x
      /\ \E k \in 1 .. Last : Within(x, k)
      BY <1>1, <1>2, <1>3, <1>4, NextCandidate
<1>6. PICK k \in 1 .. Last : Within(x, k)
      BY <1>5
<1>0. /\ Last \in Nat /\ k \in Nat /\ names_i \in Nat /\ Len(indexes) \in Nat /\ start[k] \in Nat
      /\ left_bound \in Nat
      /\ reported \in Seq(Nat) /\ names_i' \in 0 .. LoopEnd
  <2>1. Last \in Nat /\ k \in Nat /\ Len(indexes) \in Nat /\ start[k] \in Nat
        BY <1>2, TableTypes DEF Table
  <2>2. LoopEnd = Len(indexes) /\ names_i \in Nat /\ reported \in Seq(Nat)
        BY <1>2, <2>1 DEF NamesType, LoopEnd
  <2>3. left_bound \in Nat
        BY <1>2, <2>1 DEF PlaceInv, Untried, AtStart, Inside, AtEnd
  <2> QED BY <1>1, <2>1, <2>2, <2>3
<1>7. CASE /\ Names!MatchName(k) /\ left_bound' = k /\ left_bound <= k /\ (asserted' <=> asserted)
           /\ previous_first' = IF x = start[k] THEN start[k] ELSE After(k)
           /\ left_bound = k => Untried \/ (x # start[k] /\ previous_first # After(k))
  <2>1. /\ reported' \in Seq(Nat)
        /\ Found' = IF k \in matching THEN Found \cup {k} ELSE Found
        BY <1>0, <1>7, MatchNameIs
  <2>2. OrderInv'
    <3>1. PICK same \in BOOLEAN : same <=> x # start[k]
          OBVIOUS
    <3> QED BY <1>0, <1>1, <1>2, <1>7, <3>1, OrderStep
  <2>3. PlaceInv'
    <3>1. AtStart(k)' \/ Inside(k)'
          BY <1>3, <1>5, <1>6, <1>7 DEF AtStart, Inside
    <3> QED BY <1>3, <3>1 DEF PlaceInv
  <2>4. MissInv'
    <3> SUFFICES ASSUME asserted
                 PROVE  /\ left_bound' \in matching => left_bound' \in Found'
                        /\ \A j \in matching : j \notin Found' =>
                             /\ start[j] \in Seen' => Shaded(j)
                             /\ \A y \in Seen' : Within(y, j) => y = start[j] \/ (j = Last /\ Alias)
        BY <1>3, <1>7 DEF MissInv
    <3>1. left_bound' \in matching => left_bound' \in Found'
          BY <1>7, <2>1
    <3>2. ASSUME NEW j \in matching, j \notin Found'
          PROVE  /\ start[j] \in Seen' => Shaded(j)
                 /\ \A y \in Seen' : Within(y, j) => y = start[j] \/ (j = Last /\ Alias)
      <4>1. j \in 1 .. Last /\ j \notin Found /\ j # k
            BY <1>2, <2>1, <3>2 DEF Table
      <4>2. ~Within(x, j)
            BY <1>2, <1>6, <4>1, OneName
      <4>3. start[j] # x
        <5>1. start[j] \in Nat /\ lens[j] \in Nat \ {0}
              BY <1>2, <4>1, TableTypes
        <5> QED BY <4>2, <5>1 DEF Within
      <4>4. /\ start[j] \in Seen => Shaded(j)
            /\ \A y \in Seen : Within(y, j) => y = start[j] \/ (j = Last /\ Alias)
            BY <1>2, <3>2, <4>1 DEF MissInv
      <4> QED BY <1>5, <4>2, <4>3, <4>4
    <3> QED BY <3>1, <3>2
  <2>5. NamesType'
        BY <1>0, <1>1, <1>3, <2>1 DEF NamesType
  <2> QED BY <1>2, <1>3, <1>7, <2>2, <2>3, <2>4, <2>5 DEF NamesInv, LoopInv
<1>8. CASE /\ left_bound' = Last + 1 /\ left_bound <= Last /\ previous_first' = garbage /\ ~asserted'
           /\ garbage = x /\ UNCHANGED <<reported, cut>>
  <2>1. PlaceInv' /\ MissInv'
        BY <1>3, <1>8 DEF PlaceInv, AtEnd, MissInv
  <2>2. OrderInv'
    <3>1. \A a \in 1 .. Len(reported) : reported[a] \in 1 .. Last /\ reported[a] <= Last + 1 /\ reported[a] # Last + 1
      <4> TAKE a \in 1 .. Len(reported)
      <4>1. reported[a] \in matching
            BY <1>2 DEF OrderInv
      <4>2. reported[a] \in 1 .. Last
            BY <1>2, <4>1 DEF Table
      <4> QED BY <1>0, <4>2
    <3> QED BY <1>2, <1>3, <1>8, <3>1 DEF OrderInv
  <2>3. NamesType'
        BY <1>0, <1>1, <1>3, <1>8 DEF NamesType
  <2> QED BY <1>2, <1>3, <1>5, <1>8, <2>1, <2>2, <2>3 DEF NamesInv, LoopInv
<1>9. \/ /\ Names!MatchName(k) /\ left_bound' = k /\ left_bound <= k /\ (asserted' <=> asserted)
         /\ previous_first' = IF x = start[k] THEN start[k] ELSE After(k)
         /\ left_bound = k => Untried \/ (x # start[k] /\ previous_first # After(k))
      \/ /\ left_bound' = Last + 1 /\ left_bound <= Last /\ previous_first' = garbage /\ ~asserted'
         /\ garbage = x /\ UNCHANGED <<reported, cut>>
      BY <1>2, <1>4, <1>5, <1>6, CandidateIs
<1> QED BY <1>7, <1>8, <1>9

(* A candidate that is skipped lies in a name that was reported, or the    *)
(* name is missed for one of the two reasons.                              *)
LEMMA SkippedIs ==
    ASSUME Table, PlaceInv, MissInv, ~AtEnd, Seen \subseteq Cands,
           NEW x \in Nat, \A y \in Seen : y \in Nat /\ y < x,
           NEW k \in 1 .. Last, Within(x, k), asserted, k \in matching, k \notin Found,
           Names!First(Names!LowerBound(left_bound, x)) = previous_first
    PROVE  IF x = start[k] THEN Shaded(k) ELSE k = Last /\ Alias
<1>0. /\ Last \in Nat /\ Last >= 1 /\ k \in Nat
      /\ \A j \in 1 .. Last : start[j] \in Nat /\ lens[j] \in Nat
      BY TableTypes
<1>1. \A j, m \in 1 .. Last : j < m => start[j] + lens[j] < start[m]
      BY DEF Table
<1>2. start[k] <= x
      BY DEF Within
<1>3. /\ left_bound \in 1 .. Last /\ left_bound <= k
      /\ Untried \/ start[left_bound] < x
      /\ previous_first = IF x = start[k] THEN start[k] ELSE After(k)
      /\ k < Last => After(k) \in Nat /\ x < After(k)
      BY LookupIs
<1>4. CASE Untried
  <2>1. previous_first = -1
        BY <1>4 DEF Untried
  <2>2. x # start[k] /\ k = Last
        BY <1>0, <1>3, <2>1
  <2> QED BY <1>3, <2>1, <2>2 DEF After, Alias
<1>5. ASSUME NEW l \in 1 .. Last, AtStart(l), ~Untried
      PROVE  IF x = start[k] THEN Shaded(k) ELSE k = Last /\ Alias
  <2>1. previous_first = start[l] /\ start[l] < x
        BY <1>3, <1>5 DEF AtStart
  <2>2. x # start[k] /\ k = Last
        BY <1>0, <1>3, <2>1
  <2> QED BY <1>3, <2>1, <2>2 DEF After, Alias
<1>6. ASSUME NEW l \in 1 .. Last, Inside(l), ~Untried
      PROVE  IF x = start[k] THEN Shaded(k) ELSE k = Last /\ Alias
  <2>1. /\ left_bound = l /\ l <= k /\ start[l] < x /\ previous_first = After(l)
        /\ \E y \in Seen : Within(y, l) /\ y # start[l]
        BY <1>3, <1>6 DEF Inside
  <2>2. l # k
    <3>1. l \in matching => l \in Found
          BY <1>6, <2>1 DEF MissInv
    <3> QED BY <3>1
  <2>3. l < k /\ l < Last /\ l + 1 \in 1 .. Last /\ After(l) = start[l + 1]
        BY <1>0, <2>1, <2>2 DEF After
  <2>4. CASE x = start[k]
    <3>1. start[l + 1] = start[k]
          BY <1>3, <2>1, <2>3, <2>4
    <3>2. l + 1 = k
      <4> SUFFICES ASSUME l + 1 < k PROVE FALSE
          BY <1>0, <2>3
      <4>1. start[l + 1] + lens[l + 1] < start[k]
            BY <1>1, <2>3
      <4> QED BY <1>0, <2>3, <3>1, <4>1
    <3>3. k - 1 = l /\ k > 1
          BY <1>0, <3>2
    <3> QED BY <2>1, <2>4, <3>3 DEF Shaded
  <2>5. CASE x # start[k]
    <3>1. start[l + 1] <= start[k]
      <4>1. CASE l + 1 = k
            BY <1>0, <2>3, <4>1
      <4>2. CASE l + 1 < k
        <5>1. start[l + 1] + lens[l + 1] < start[k]
              BY <1>1, <2>3, <4>2
        <5> QED BY <1>0, <2>3, <5>1
      <4> QED BY <1>0, <2>3, <4>1, <4>2
    <3>2. start[l + 1] <= x
          BY <1>0, <1>2, <2>3, <3>1
    <3>3. k = Last
          BY <1>0, <1>3, <2>1, <2>3, <2>5, <3>2
    <3> QED BY <1>3, <2>1, <2>3, <2>5, <3>3 DEF After, Alias
  <2> QED BY <2>4, <2>5
<1> QED BY <1>4, <1>5, <1>6 DEF PlaceInv

LEMMA DuplicateStep ==
    ASSUME NamesInv, ~brute, Names!Duplicate
    PROVE  NamesInv'
<1>1. /\ names_i < Len(indexes) /\ names_i' = names_i + 1 /\ UNCHANGED Names!input /\ ~done
      /\ UNCHANGED <<left_bound, previous_first, reported, cut, done, asserted>>
      /\ Names!First(Names!LowerBound(left_bound, indexes[names_i + 1])) = previous_first
      BY DEF Names!Duplicate
<1>2. Table /\ NamesType /\ PlaceInv /\ OrderInv /\ MissInv /\ (asserted \/ garbage \in Cands)
      BY DEF NamesInv, LoopInv
<1>3. /\ Table' /\ Last' = Last /\ Cands' = Cands /\ Alias' = Alias /\ LoopEnd' = LoopEnd
      /\ UNCHANGED <<lens, start, indexes, matching, garbage, brute>>
      /\ \A k : After(k)' = After(k) /\ Shaded(k)' = Shaded(k)
      /\ \A x, k : Within(x, k)' = Within(x, k)
      BY <1>1, <1>2, SameTable
<1>4. PICK x \in Nat : x = indexes[names_i + 1]
      BY <1>1, <1>2, <1>3, NextCandidate
<1>5. /\ x \in Cands /\ Seen' = Seen \cup {x}
      /\ \A y \in Seen : y \in Nat /\ y < x
      /\ \E k \in 1 .. Last : Within(x, k)
      BY <1>1, <1>2, <1>3, <1>4, NextCandidate
<1>6. PICK k \in 1 .. Last : Within(x, k)
      BY <1>5
<1>7. NamesType'
  <2>1. LoopEnd = Len(indexes) /\ Len(indexes) \in Nat /\ names_i \in Nat
        BY <1>2 DEF LoopEnd, NamesType, Table
  <2> QED BY <1>1, <1>2, <1>3, <2>1 DEF NamesType
<1>8. Seen \subseteq Cands
  <2>1. LoopEnd = Len(indexes) /\ Len(indexes) \in Nat /\ names_i \in 0 .. Len(indexes)
        BY <1>2 DEF LoopEnd, NamesType, Table
  <2>2. \A a \in 1 .. names_i : a \in 1 .. Len(indexes)
        BY <2>1
  <2> QED BY <2>2 DEF Seen, Cands
<1>9. PlaceInv'
  <2>1. Untried => Untried'
        BY <1>1 DEF Untried
  <2>2. AtEnd => AtEnd'
        BY <1>1, <1>3 DEF AtEnd
  <2>3. \A j \in 1 .. Last : (AtStart(j) => AtStart(j)') /\ (Inside(j) => Inside(j)')
        BY <1>1, <1>3, <1>5 DEF AtStart, Inside
  <2> QED BY <1>2, <1>3, <2>1, <2>2, <2>3 DEF PlaceInv
<1>10. OrderInv'
       BY <1>1, <1>2, <1>3 DEF OrderInv, After
<1>11. MissInv'
  <2> SUFFICES ASSUME asserted, NEW j \in matching, j \notin Found
               PROVE  /\ start[j] \in Seen' => Shaded(j)
                      /\ \A y \in Seen' : Within(y, j) => y = start[j] \/ (j = Last /\ Alias)
    <3>1. Found' = Found /\ Untried' = Untried /\ left_bound' = left_bound /\ asserted' = asserted
          BY <1>1 DEF Found, Untried
    <3> QED BY <1>2, <1>3, <3>1 DEF MissInv
  <2>1. j \in 1 .. Last
        BY <1>2 DEF Table
  <2>2. /\ start[j] \in Seen => Shaded(j)
        /\ \A y \in Seen : Within(y, j) => y = start[j] \/ (j = Last /\ Alias)
        BY <1>2 DEF MissInv
  <2>3. start[j] \in Nat /\ lens[j] \in Nat \ {0}
        BY <1>2, <2>1, TableTypes
  <2>4. CASE ~Within(x, j)
    <3>1. start[j] # x
          BY <2>3, <2>4 DEF Within
    <3> QED BY <1>5, <2>2, <2>4, <3>1
  <2>5. CASE Within(x, j)
    <3>1. ~AtEnd
          BY DEF AtEnd
    <3>2. IF x = start[j] THEN Shaded(j) ELSE j = Last /\ Alias
          BY <1>1, <1>2, <1>4, <1>5, <1>8, <2>1, <2>5, <3>1, SkippedIs
    <3> QED BY <1>5, <2>2, <3>2
  <2> QED BY <2>4, <2>5
<1> QED BY <1>1, <1>2, <1>3, <1>7, <1>9, <1>10, <1>11 DEF NamesInv, LoopInv

LEMMA BruteStep ==
    ASSUME NamesInv, Names!BruteForce
    PROVE  NamesInv'
<1>1. /\ names_i < Len(lens) /\ names_i' = names_i + 1 /\ UNCHANGED Names!input /\ ~done /\ brute
      /\ UNCHANGED <<done, asserted>> /\ Names!MatchName(names_i + 1)
      BY DEF Names!BruteForce
<1>2. Table /\ NamesType /\ BruteInv
      BY <1>1 DEF NamesInv
<1>3. /\ Table' /\ Last' = Last /\ LoopEnd' = LoopEnd
      /\ UNCHANGED <<matching, brute>>
      BY <1>1, <1>2, SameTable
<1>4. /\ LoopEnd = Last /\ Last \in Nat /\ Last = Len(lens) /\ names_i \in Nat
      /\ reported \in Seq(Nat) /\ Len(reported) \in Nat
  <2>1. Last \in Nat /\ Last = Len(lens) /\ LoopEnd = Last
        BY <1>1, <1>2 DEF Table, Last, LoopEnd
  <2> QED BY <1>2, <2>1 DEF NamesType
<1>5. PICK h \in Nat : h = names_i + 1
      BY <1>4
<1>6. /\ reported' \in Seq(Nat)
      /\ h \notin matching => reported' = reported
      /\ h \in matching =>
             /\ Len(reported') = Len(reported) + 1
             /\ reported'[Len(reported) + 1] = h
             /\ \A a \in 1 .. Len(reported) : reported'[a] = reported[a]
      /\ Found' = IF h \in matching THEN Found \cup {h} ELSE Found
      BY <1>1, <1>4, <1>5, MatchNameIs
<1>7. NamesType'
      BY <1>1, <1>3, <1>4, <1>6 DEF NamesType
<1>8. \A a \in 1 .. Len(reported) : reported[a] \in Nat /\ reported[a] \in matching /\ reported[a] < h
  <2> TAKE a \in 1 .. Len(reported)
  <2>1. reported[a] \in matching /\ reported[a] <= names_i
        BY <1>2 DEF BruteInv
  <2>2. reported[a] \in Nat
        BY <1>4
  <2> QED BY <1>4, <1>5, <2>1, <2>2
<1>9. \A a, b \in 1 .. Len(reported) : a < b => reported[a] < reported[b]
      BY <1>2 DEF BruteInv
<1>10. \A k \in matching : k <= names_i + 1 => k \in Found'
  <2> TAKE k \in matching
  <2>1. k \in Nat
        BY <1>2, <1>4 DEF Table
  <2>2. k <= names_i => k \in Found
        BY <1>2 DEF BruteInv
  <2>3. k <= names_i + 1 => k <= names_i \/ k = h
        BY <1>4, <1>5, <2>1
  <2> QED BY <1>6, <2>2, <2>3
<1>11. CASE h \notin matching
  <2>1. reported' = reported
        BY <1>6, <1>11
  <2>2. \A a \in 1 .. Len(reported) : reported[a] <= names_i + 1
        BY <1>5, <1>8
  <2> QED BY <1>1, <1>2, <1>3, <1>7, <1>8, <1>9, <1>10, <2>1, <2>2 DEF NamesInv, BruteInv
<1>12. CASE h \in matching
  <2>1. \A a \in 1 .. (Len(reported) + 1) : a \in 1 .. Len(reported) \/ a = Len(reported) + 1
        BY <1>4
  <2>2. \A a \in 1 .. (Len(reported) + 1) : reported'[a] \in matching /\ reported'[a] <= names_i + 1
        BY <1>5, <1>6, <1>8, <1>12, <2>1
  <2>3. \A a, b \in 1 .. (Len(reported) + 1) : a < b => reported'[a] < reported'[b]
    <3> TAKE a \in 1 .. (Len(reported) + 1), b \in 1 .. (Len(reported) + 1)
    <3> HAVE a < b
    <3>1. a \in 1 .. Len(reported)
          BY <1>4
    <3> QED BY <1>6, <1>8, <1>9, <1>12, <2>1, <3>1
  <2>4. BruteInv'
        BY <1>1, <1>2, <1>3, <1>6, <1>10, <1>12, <2>2, <2>3 DEF BruteInv
  <2> QED BY <1>1, <1>3, <1>7, <2>4 DEF NamesInv
<1> QED BY <1>11, <1>12

(* Steps that only end the loop.                                           *)
LEMMA NamesEnd ==
    ASSUME NamesInv,
           UNCHANGED <<Names!input, names_i, left_bound, previous_first, reported, asserted>>,
           done' /\ ~cut' => names_i = LoopEnd
    PROVE  NamesInv'
<1>1. /\ UNCHANGED Names!input
      /\ UNCHANGED <<names_i, left_bound, previous_first, reported, asserted>>
      OBVIOUS
<1>2. /\ Table' /\ Last' = Last /\ Cands' = Cands /\ Alias' = Alias /\ LoopEnd' = LoopEnd
      /\ UNCHANGED <<lens, start, indexes, matching, garbage, brute>>
      /\ \A k : After(k)' = After(k) /\ Shaded(k)' = Shaded(k)
      /\ \A x, k : Within(x, k)' = Within(x, k)
      BY <1>1, SameTable DEF NamesInv
<1>3. Seen' = Seen /\ Found' = Found /\ Untried' = Untried /\ AtEnd' = AtEnd
      BY <1>1, <1>2 DEF Seen, Found, Untried, AtEnd
<1>4. \A k : AtStart(k)' = AtStart(k) /\ Inside(k)' = Inside(k)
      BY <1>1, <1>2, <1>3 DEF AtStart, Inside
<1>5. PlaceInv' = PlaceInv
      BY <1>2, <1>3, <1>4 DEF PlaceInv
<1>6. OrderInv' = OrderInv
      BY <1>1, <1>2 DEF OrderInv, After
<1>7. MissInv' = MissInv
      BY <1>1, <1>2, <1>3 DEF MissInv
<1>8. BruteInv' = BruteInv
      BY <1>1, <1>2, <1>3 DEF BruteInv
<1>9. NamesType'
      BY <1>1, <1>2 DEF NamesType, NamesInv
<1> QED BY <1>1, <1>2, <1>5, <1>6, <1>7, <1>8, <1>9 DEF NamesInv, LoopInv

LEMMA NamesNext ==
    ASSUME NamesInv, Names!Next
    PROVE  NamesInv'
<1>1. CASE Names!BruteForce
      BY <1>1, BruteStep
<1>2. CASE Names!Duplicate
      BY <1>2, DuplicateStep DEF Names!Duplicate
<1>3. CASE Names!Candidates
      BY <1>3, CandidateStep DEF Names!Candidates
<1>4. CASE Names!Expire
      BY <1>4, NamesEnd DEF Names!Expire
<1>5. CASE Names!Stop
  <2>1. cut \/ names_i = LoopEnd
        BY <1>5 DEF Names!Stop, LoopEnd, Last
  <2> QED BY <1>5, <2>1, NamesEnd DEF Names!Stop
<1> QED BY <1>1, <1>2, <1>3, <1>4, <1>5 DEF Names!Next

LEMMA NamesAreFound ==
    ASSUME NamesInv
    PROVE  Names!MissedOnlyInShadow /\ Names!AssertsHold /\ Names!InOrderAtMostTwice
<1>0. Table /\ NamesType /\ reported \in Seq(Nat) /\ indexes \in Seq(Nat) /\ Last = Len(lens) /\ Last \in Nat
      BY DEF NamesInv, NamesType, Table, Last
<1>1. Names!ToSet(indexes) = Cands /\ Names!ToSet(reported) = Found
  <2>1. DOMAIN indexes = 1 .. Len(indexes) /\ DOMAIN reported = 1 .. Len(reported)
        BY <1>0
  <2>2. Names!ToSet(indexes) = {indexes[a] : a \in DOMAIN indexes}
        BY NamesSets
  <2>3. Names!ToSet(reported) = {reported[a] : a \in DOMAIN reported}
        BY NamesSets
  <2>4. Names!ToSet(indexes) = Cands
        BY <2>1, <2>2 DEF Cands
  <2>5. Names!ToSet(reported) = Found
        BY <2>1, <2>3 DEF Found
  <2> QED BY <2>4, <2>5
<1>2. Names!AssertsHold
      BY <1>1 DEF Names!AssertsHold, NamesInv, LoopInv, BruteInv
<1>3. Names!InOrderAtMostTwice
  <2>0. DOMAIN reported = 1 .. Len(reported) /\ Len(reported) \in Nat
        /\ \A a \in 1 .. Len(reported) : reported[a] \in Nat
        BY <1>0
  <2>1. CASE brute
    <3>1. BruteInv
          BY <2>1 DEF NamesInv
    <3>2. \A a, b \in 1 .. Len(reported) : a < b => reported[a] <= reported[b] /\ reported[b] # reported[a]
          BY <2>0, <3>1 DEF BruteInv
    <3>3. \A a \in 1 .. Len(reported) : a < a + 2
          BY <2>0
    <3> QED BY <2>0, <3>1, <3>2, <3>3 DEF Names!InOrderAtMostTwice, BruteInv
  <2>2. CASE ~brute
    <3>1. OrderInv
          BY <2>2 DEF NamesInv, LoopInv
    <3> QED BY <2>0, <3>1 DEF Names!InOrderAtMostTwice, OrderInv
  <2> QED BY <2>1, <2>2
<1>4. Names!MissedOnlyInShadow
  <2> SUFFICES ASSUME done, ~cut, asserted, NEW k \in matching, k \notin Found
               PROVE  /\ ~brute
                      /\ start[k] \in Cands => Names!Shadowed(k)
                      /\ \/ Names!InName(k) \cap Cands = {start[k]}
                         \/ k = Len(lens) /\ garbage \in {-1} \cup {start[m] : m \in Names!Name}
      BY <1>1 DEF Names!MissedOnlyInShadow
  <2>1. k \in 1 .. Last /\ \E x \in Cands : Within(x, k)
        BY <1>0 DEF Table
  <2>2. names_i = LoopEnd
        BY <1>0 DEF NamesType
  <2>3. ~brute
    <3> SUFFICES ASSUME brute PROVE FALSE
        OBVIOUS
    <3>1. k <= names_i
          BY <1>0, <2>1, <2>2 DEF LoopEnd
    <3> QED BY <3>1 DEF NamesInv, BruteInv
  <2>4. Seen = Cands
        BY <2>2, <2>3 DEF Seen, Cands, LoopEnd
  <2>5. /\ start[k] \in Cands => Shaded(k)
        /\ \A x \in Cands : Within(x, k) => x = start[k] \/ (k = Last /\ Alias)
        BY <2>3, <2>4 DEF NamesInv, LoopInv, MissInv
  <2>6. \A j \in 1 .. Last : start[j] \in Nat
        BY <1>0 DEF Table
  <2>7. \A j \in 1 .. Last : lens[j] \in Nat
        BY <1>0, TableTypes
  <2>8. \A x \in Cands : x \in Nat
        BY <1>0 DEF Cands
  <2>9. \A j \in 1 .. Last : \A x \in Cands : x \in Names!InName(j) <=> Within(x, j)
        BY <2>6, <2>7, <2>8 DEF Names!InName, Within
  <2>10. Shaded(k) => Names!Shadowed(k)
    <3> SUFFICES ASSUME Shaded(k) PROVE Names!Shadowed(k)
        OBVIOUS
    <3>1. PICK x \in Cands : k > 1 /\ Within(x, k - 1) /\ x # start[k - 1]
          BY DEF Shaded
    <3>2. k - 1 \in 1 .. Last
          BY <1>0, <2>1, <3>1
    <3>3. x \in Names!InName(k - 1) /\ x > start[k - 1]
          BY <2>6, <2>8, <2>9, <3>1, <3>2 DEF Within
    <3> QED BY <1>1, <3>1, <3>3 DEF Names!Shadowed
  <2>11. ASSUME ~(k = Last /\ Alias) PROVE Names!InName(k) \cap Cands = {start[k]}
        BY <2>1, <2>5, <2>9, <2>11
  <2>12. Alias => garbage \in {-1} \cup {start[m] : m \in Names!Name}
        BY <1>0 DEF Alias, Names!Name
  <2> QED BY <1>0, <2>3, <2>5, <2>10, <2>11, <2>12
<1> QED BY <1>2, <1>3, <1>4

-----------------------------------------------------------------------------
(* doSearchV2.                                                             *)

LineNos == 1 .. FileLines
Texts == Trees \X Paths \X LineNos
LineRecs == [bounds : Nat, text : Texts]
FileRecs == [tree : Trees, path : Paths, numMatches : Nat, lines : UNION {[D -> LineRecs] : D \in SUBSET LineNos}]
Results == [tree : Trees, path : Paths, numMatches : Nat, lines : Seq([lno : LineNos, bounds : Nat, text : Texts])]

(* An answer: matches of different lines.                                  *)
IsAnswer(u) ==
    /\ u \in Seq(Merge!Match)
    /\ \A x, y \in 1 .. Len(u) : u[x].tree = u[y].tree /\ u[x].path = u[y].path /\ u[x].line = u[y].line => x = y

(* The matches of key k among the first n of the answer u.                 *)
MergedOf(u, n, k) == {u[x] : x \in {y \in 1 .. n : Merge!Key(u[y]) = k}}

(* All the matches with key k are of the file of r.                        *)
Pure(u, r, k) == \A x \in 1 .. Len(u) : Merge!Key(u[x]) = k => u[x].tree = r.tree /\ u[x].path = r.path

(* ls are the lines of the contexts of the matches ms, all of the file of  *)
(* r, with the bounds of the matches.                                      *)
LinesOf(ls, r, ms) ==
    /\ DOMAIN ls = UNION {Merge!Window(m) : m \in ms}
    /\ \A l \in DOMAIN ls : ls[l].text = <<r.tree, r.path, l>>
    /\ \A m \in ms : ls[m.line].bounds = m.bounds
    /\ \A l \in DOMAIN ls : (\A m \in ms : m.line # l) => ls[l].bounds = 0

(* fs is what the first n matches of u give.                               *)
FilesOf(fs, u, n) ==
    /\ fs \in [DOMAIN fs -> FileRecs]
    /\ \A k \in DOMAIN fs : \E x \in 1 .. n : Merge!Key(u[x]) = k /\ fs[k].tree = u[x].tree /\ fs[k].path = u[x].path
    /\ \A x \in 1 .. n : Merge!Key(u[x]) \in DOMAIN fs
    /\ \A k \in DOMAIN fs : Pure(u, fs[k], k) =>
         fs[k].numMatches = Cardinality(MergedOf(u, n, k)) /\ LinesOf(fs[k].lines, fs[k], MergedOf(u, n, k))

(* ls2 is ls with the context of the match m.                              *)
LinesInto(ls, ls2, m) ==
    /\ DOMAIN ls2 = DOMAIN ls \cup Merge!Window(m)
    /\ \A l \in DOMAIN ls2 :
         IF l \in Merge!Window(m)
         THEN ls2[l].text = <<m.tree, m.path, l>> /\ ls2[l].bounds = Merge!Bounds(m, ls, l)
         ELSE ls2[l] = ls[l]

LEMMA MergeSets == \A S : Merge!Cardinality(S) = Cardinality(S)
BY DEF Merge!Cardinality, Cardinality

LEMMA MergeTypes ==
    /\ Trees \subseteq Seq(Nat) /\ Paths \subseteq Seq(Nat) /\ FileLines \in Nat /\ Context \in Nat
    /\ \A m \in Merge!Match : /\ m.tree \in Trees /\ m.path \in Paths /\ m.line \in LineNos /\ m.line \in Nat
                              /\ m.bounds \in 1 .. 2 /\ m.line \in Merge!Window(m) /\ Merge!Window(m) \subseteq LineNos
<1>1. Trees \subseteq Seq(Nat) /\ Paths \subseteq Seq(Nat) /\ FileLines \in Nat /\ Context \in Nat
      BY Assumptions DEF Merge!SearchV2Assumption
<1>2. ASSUME NEW m \in Merge!Match
      PROVE  m.tree \in Trees /\ m.path \in Paths /\ m.line \in 1 .. FileLines /\ m.bounds \in 1 .. 2
      BY DEF Merge!Match
<1>3. ASSUME NEW m \in Merge!Match
      PROVE  m.line \in Nat /\ m.line \in Merge!Window(m) /\ Merge!Window(m) \subseteq LineNos
      BY <1>1, <1>2, <1>3 DEF Merge!Window, LineNos
<1> QED BY <1>1, <1>2, <1>3 DEF LineNos

LEMMA LinesOneMore ==
    ASSUME NEW ls, NEW ls2, NEW r, NEW ms \in SUBSET Merge!Match, NEW m \in Merge!Match,
           LinesOf(ls, r, ms), LinesInto(ls, ls2, m), m.tree = r.tree, m.path = r.path, \A x \in ms : x.line # m.line
    PROVE  LinesOf(ls2, r, ms \cup {m})
<1>1. \A x \in ms \cup {m} : x.line \in Merge!Window(x) /\ x.line \in Nat /\ x.bounds \in 1 .. 2
      BY MergeTypes
<1>2. DOMAIN ls2 = UNION {Merge!Window(x) : x \in ms \cup {m}}
      BY DEF LinesOf, LinesInto
<1>3. \A l \in DOMAIN ls2 : ls2[l].text = <<r.tree, r.path, l>>
      BY DEF LinesOf, LinesInto
<1>4. ASSUME NEW x \in ms PROVE ls2[x.line].bounds = x.bounds
  <2>1. x.line \in DOMAIN ls /\ ls[x.line].bounds = x.bounds /\ x.line \in DOMAIN ls2 /\ x.line # m.line
        BY <1>1, <1>2 DEF LinesOf
  <2>2. x.bounds > 0
        BY <1>1
  <2> QED BY <2>1, <2>2 DEF LinesInto, Merge!Bounds
<1>5. ls2[m.line].bounds = m.bounds
  <2>1. m.line \in DOMAIN ls2 /\ m.line \in Merge!Window(m)
        BY <1>1, <1>2
  <2>2. m.line \in DOMAIN ls => ls[m.line].bounds = 0
        BY DEF LinesOf
  <2>3. ~(0 > m.bounds)
        BY <1>1
  <2> QED BY <2>1, <2>2, <2>3 DEF LinesInto, Merge!Bounds
<1>6. ASSUME NEW l \in DOMAIN ls2, \A x \in ms \cup {m} : x.line # l PROVE ls2[l].bounds = 0
  <2>1. l \in DOMAIN ls => ls[l].bounds = 0
        BY <1>6 DEF LinesOf
  <2>2. l # m.line
        BY <1>6
  <2> QED BY <2>1, <2>2 DEF LinesInto, Merge!Bounds
<1> QED BY <1>2, <1>3, <1>4, <1>5, <1>6 DEF LinesOf

(* A match merged into files: only the file of its key changes.            *)
MergedInto(fs, fs2, m) ==
    LET k == Merge!Key(m)
    IN  /\ DOMAIN fs2 = DOMAIN fs \cup {k} /\ fs2 \in [DOMAIN fs2 -> FileRecs]
        /\ \A x \in DOMAIN fs : x # k => fs2[x] = fs[x]
        /\ IF k \in DOMAIN fs
           THEN /\ fs2[k].tree = fs[k].tree /\ fs2[k].path = fs[k].path /\ fs2[k].numMatches = fs[k].numMatches + 1
                /\ LinesInto(fs[k].lines, fs2[k].lines, m)
           ELSE /\ fs2[k].tree = m.tree /\ fs2[k].path = m.path /\ fs2[k].numMatches = 1
                /\ LinesInto(<<>>, fs2[k].lines, m)

LEMMA FilesOneMore ==
    ASSUME NEW fs, NEW fs2, NEW u, NEW n \in Nat, n < Len(u), IsAnswer(u), FilesOf(fs, u, n), MergedInto(fs, fs2, u[n + 1])
    PROVE  FilesOf(fs2, u, n + 1)
<1> DEFINE m == u[n + 1]
           K == Merge!Key(m)
<1>1. n + 1 \in 1 .. Len(u) /\ \A x \in 1 .. n : x \in 1 .. Len(u) /\ x \in 1 .. (n + 1) /\ x # n + 1
      BY DEF IsAnswer
<1>2. \A x \in 1 .. Len(u) : u[x] \in Merge!Match
      BY DEF IsAnswer
<1>3. \A x \in 1 .. (n + 1) : x = n + 1 \/ x \in 1 .. n
      OBVIOUS
<1>4. \A x \in DOMAIN fs : x # K => fs2[x] = fs[x] /\ x \in DOMAIN fs2
      BY DEF MergedInto
<1>5. \A k \in DOMAIN fs2 : k = K \/ (k # K /\ k \in DOMAIN fs)
      BY DEF MergedInto
<1>6. ASSUME NEW k \in DOMAIN fs2
      PROVE  \E x \in 1 .. (n + 1) : Merge!Key(u[x]) = k /\ fs2[k].tree = u[x].tree /\ fs2[k].path = u[x].path
  <2>1. CASE k \in DOMAIN fs
    <3>1. fs2[k].tree = fs[k].tree /\ fs2[k].path = fs[k].path
          BY <1>4, <2>1 DEF MergedInto
    <3>2. PICK x \in 1 .. n : Merge!Key(u[x]) = k /\ fs[k].tree = u[x].tree /\ fs[k].path = u[x].path
          BY <2>1 DEF FilesOf
    <3> QED BY <1>1, <3>1, <3>2
  <2>2. CASE k \notin DOMAIN fs
    <3>1. k = K /\ fs2[K].tree = m.tree /\ fs2[K].path = m.path
          BY <1>5, <2>2 DEF MergedInto
    <3> QED BY <3>1
  <2> QED BY <2>1, <2>2
<1>7. ASSUME NEW x \in 1 .. (n + 1) PROVE Merge!Key(u[x]) \in DOMAIN fs2
  <2>1. DOMAIN fs2 = DOMAIN fs \cup {K}
        BY DEF MergedInto
  <2>2. CASE x = n + 1
        BY <2>1, <2>2
  <2>3. CASE x \in 1 .. n
        BY <2>1, <2>3 DEF FilesOf
  <2> QED BY <1>3, <2>2, <2>3
<1>8. ASSUME NEW k \in DOMAIN fs2, Pure(u, fs2[k], k)
      PROVE  /\ fs2[k].numMatches = Cardinality(MergedOf(u, n + 1, k))
             /\ LinesOf(fs2[k].lines, fs2[k], MergedOf(u, n + 1, k))
  <2>1. CASE k # K
    <3>1. k \in DOMAIN fs /\ fs2[k] = fs[k]
          BY <1>4, <1>5, <2>1
    <3>2. MergedOf(u, n + 1, k) = MergedOf(u, n, k)
          BY <1>1, <1>3, <2>1 DEF MergedOf
    <3> QED BY <1>8, <3>1, <3>2 DEF FilesOf
  <2>2. CASE k = K
    <3> DEFINE ms == MergedOf(u, n, K)
               ls == IF K \in DOMAIN fs THEN fs[K].lines ELSE <<>>
               c == IF K \in DOMAIN fs THEN fs[K].numMatches ELSE 0
    <3>1. MergedOf(u, n + 1, K) = ms \cup {m}
          BY <1>1, <1>3 DEF MergedOf
    <3>2. ms \in SUBSET Merge!Match /\ m \in Merge!Match
          BY <1>1, <1>2 DEF MergedOf
    <3>3. m.tree = fs2[K].tree /\ m.path = fs2[K].path
          BY <1>1, <1>8, <2>2 DEF Pure
    <3>4. ASSUME NEW x \in ms PROVE x.line # m.line
      <4>1. PICK y \in 1 .. n : x = u[y] /\ Merge!Key(u[y]) = K
            BY DEF MergedOf
      <4>2. u[y].tree = fs2[K].tree /\ u[y].path = fs2[K].path
            BY <1>1, <1>8, <2>2, <4>1 DEF Pure
      <4>3. y # n + 1 /\ y \in 1 .. Len(u)
            BY <1>1
      <4> QED BY <1>1, <3>3, <4>1, <4>2, <4>3 DEF IsAnswer
    <3>5. c = Cardinality(ms) /\ LinesOf(ls, fs2[K], ms) /\ fs2[K].numMatches = c + 1 /\ LinesInto(ls, fs2[K].lines, m)
      <4>1. CASE K \in DOMAIN fs
        <5>1. fs2[K].tree = fs[K].tree /\ fs2[K].path = fs[K].path /\ fs2[K].numMatches = fs[K].numMatches + 1
              /\ LinesInto(fs[K].lines, fs2[K].lines, m)
              BY <4>1 DEF MergedInto
        <5>2. Pure(u, fs[K], K)
              BY <1>8, <2>2, <5>1 DEF Pure
        <5>3. fs[K].numMatches = Cardinality(ms) /\ LinesOf(fs[K].lines, fs[K], ms)
              BY <4>1, <5>2 DEF FilesOf
        <5>4. LinesOf(fs[K].lines, fs2[K], ms)
              BY <5>1, <5>3 DEF LinesOf
        <5> QED BY <4>1, <5>1, <5>3, <5>4
      <4>2. CASE K \notin DOMAIN fs
        <5>1. ms = {}
              BY <4>2 DEF MergedOf, FilesOf
        <5>2. fs2[K].numMatches = 1 /\ LinesInto(<<>>, fs2[K].lines, m)
              BY <4>2 DEF MergedInto
        <5>3. LinesOf(<<>>, fs2[K], {})
              BY DEF LinesOf
        <5> QED BY <4>2, <5>1, <5>2, <5>3, FS_EmptySet
      <4> QED BY <4>1, <4>2
    <3>6. LinesOf(fs2[K].lines, fs2[K], ms \cup {m})
      <4> HIDE DEF ms, ls, m, K
      <4> QED BY <3>2, <3>3, <3>4, <3>5, LinesOneMore
    <3>7. IsFiniteSet(ms) /\ m \notin ms
      <4>1. IsFiniteSet({y \in 1 .. n : Merge!Key(u[y]) = K})
        <5>1. IsFiniteSet(1 .. n)
              BY FS_Interval
        <5> QED BY <5>1, FS_Subset
      <4>2. IsFiniteSet(ms)
        <5> DEFINE Y == {y \in 1 .. n : Merge!Key(u[y]) = K}
                   g == [y \in Y |-> u[y]]
        <5>1. g \in Surjection(Y, ms)
              BY DEF Surjection, MergedOf
        <5> QED BY <4>1, <5>1, FS_Surjection
      <4> QED BY <3>4, <4>2
    <3>8. Cardinality(ms \cup {m}) = c + 1
      <4> HIDE DEF ms, m, c
      <4> QED BY <3>5, <3>7, FS_AddElement
    <3> HIDE DEF ms, c, ls
    <3> QED BY <2>2, <3>1, <3>5, <3>6, <3>8
  <2> QED BY <2>1, <2>2
<1>9. fs2 \in [DOMAIN fs2 -> FileRecs]
      BY DEF MergedInto
<1> QED BY <1>6, <1>7, <1>8, <1>9 DEF FilesOf

(* What is merged are the lines of the window, each with its text.         *)
LEMMA ContextTexts ==
    ASSUME NEW m \in Merge!Match
    PROVE  LET texts == Merge!ContextLinesInit(m)
               begin == m.line - Len(Merge!ContextBefore(m))
           IN  /\ begin .. begin + Len(texts) - 1 = Merge!Window(m)
               /\ \A l \in Merge!Window(m) : texts[l - begin + 1] = <<m.tree, m.path, l>>
<1> DEFINE texts == Merge!ContextLinesInit(m)
           B == IF m.line <= Context THEN m.line - 1 ELSE Context
           A == IF m.line + Context > FileLines THEN FileLines - m.line ELSE Context
           T(l) == <<m.tree, m.path, l>>
           S == {T(l) : l \in Int}
           before == Merge!ContextBefore(m)
           after == Merge!ContextAfter(m)
           back == Merge!Reverse(before)
<1>1. m.line \in Nat /\ m.line >= 1 /\ m.line <= FileLines /\ FileLines \in Nat /\ Context \in Nat
      BY MergeTypes DEF LineNos
<1>2. B \in Nat /\ A \in Nat
      BY <1>1
<1>3. /\ before \in Seq(S) /\ Len(before) = B /\ \A k \in 1 .. B : before[k] = T(m.line - k)
      /\ after \in Seq(S) /\ Len(after) = A /\ \A k \in 1 .. A : after[k] = T(m.line + k)
  <2>1. before = [k \in 1 .. B |-> T(m.line - k)]
        BY DEF Merge!ContextBefore, Merge!TextOf
  <2>2. after = [k \in 1 .. A |-> T(m.line + k)]
        BY DEF Merge!ContextAfter, Merge!TextOf
  <2>3. \A k \in Nat : m.line - k \in Int /\ m.line + k \in Int
        BY <1>1
  <2> HIDE DEF T, B, A, before, after
  <2>4. before \in [1 .. B -> S] /\ after \in [1 .. A -> S]
        BY <1>2, <2>1, <2>2, <2>3
  <2> HIDE DEF S
  <2> QED BY <1>2, <2>1, <2>2, <2>4
<1> HIDE DEF before, after, B, A
<1>4. back \in Seq(S) /\ Len(back) = B /\ \A k \in 1 .. B : back[k] = T(m.line - (B - k + 1))
  <2>1. back = [k \in 1 .. B |-> before[(B - k) + 1]]
        BY <1>3 DEF Merge!Reverse
  <2>2. \A k \in 1 .. B : (B - k) + 1 \in 1 .. B
        BY <1>2
  <2> HIDE DEF back, T, S
  <2>3. \A k \in 1 .. B : before[(B - k) + 1] \in S /\ before[(B - k) + 1] = T(m.line - (B - k + 1))
        BY <1>2, <1>3, <2>2
  <2> QED BY <1>2, <2>1, <2>3
<1> HIDE DEF back
<1>5. texts = back \o <<T(m.line)>> \o after
      BY DEF Merge!ContextLinesInit, Merge!TextOf, back, before, after
<1>6. T(m.line) \in S
      BY <1>1
<1> HIDE DEF S, texts, T
<1>7. /\ Len(texts) = B + 1 + A
      /\ \A k \in 1 .. B : texts[k] = back[k]
      /\ texts[B + 1] = T(m.line)
      /\ \A k \in 1 .. A : texts[B + 1 + k] = after[k]
  <2> DEFINE front == back \o <<T(m.line)>>
  <2>1. front \in Seq(S) /\ Len(front) = B + 1 /\ front[B + 1] = T(m.line) /\ \A k \in 1 .. B : front[k] = back[k]
        BY <1>2, <1>4, <1>6
  <2> HIDE DEF front
  <2>2. texts = front \o after
        BY <1>5 DEF front
  <2>3. /\ Len(texts) = Len(front) + Len(after)
        /\ \A k \in 1 .. (B + 1) : texts[k] = front[k]
        /\ \A k \in 1 .. A : texts[B + 1 + k] = after[k]
    <3>0. front \in Seq(S) /\ after \in Seq(S)
          BY <1>3, <2>1
    <3>1. Len(texts) = Len(front) + Len(after)
          BY <2>2, <3>0
    <3>2. ASSUME NEW k \in 1 .. (B + 1) PROVE texts[k] = front[k]
      <4>1. k \in 1 .. Len(front) /\ k \in 1 .. (Len(front) + Len(after))
            BY <1>2, <1>3, <2>1
      <4> QED BY <4>1, <1>3, <2>1, <2>2
    <3>3. ASSUME NEW k \in 1 .. A PROVE texts[B + 1 + k] = after[k]
      <4>1. B + 1 + k \in 1 .. (Len(front) + Len(after)) /\ ~(B + 1 + k <= Len(front)) /\ (B + 1 + k) - Len(front) = k
            BY <1>2, <1>3, <2>1
      <4> DEFINE y == B + 1 + k
      <4>2. y \in 1 .. (Len(front) + Len(after)) /\ ~(y <= Len(front)) /\ y - Len(front) = k
            BY <4>1
      <4> HIDE DEF y
      <4>3. texts[y] = after[y - Len(front)]
            BY <2>2, <3>0, <4>2
      <4> QED BY <4>2, <4>3 DEF y
    <3> QED BY <3>1, <3>2, <3>3
  <2> QED BY <1>2, <1>3, <2>1, <2>3
<1>8. m.line - B .. (m.line - B) + (B + 1 + A) - 1 = Merge!Window(m)
  <2> SUFFICES ASSUME NEW l \in Int
               PROVE  (l >= m.line - B /\ l <= m.line + A) <=> (l \in 1 .. FileLines /\ l + Context >= m.line /\ l <= m.line + Context)
      BY <1>1, <1>2 DEF Merge!Window
  <2> QED BY <1>1 DEF B, A
<1>9. ASSUME NEW l \in Merge!Window(m) PROVE texts[l - (m.line - B) + 1] = T(l)
  <2>1. l \in Int /\ l >= m.line - B /\ l <= m.line + A
        BY <1>1, <1>2, <1>8
  <2>2. CASE l < m.line
    <3>1. PICK k \in 1 .. B : k = l - (m.line - B) + 1
          BY <1>1, <1>2, <2>1, <2>2
    <3>2. m.line - (B - k + 1) = l
          BY <1>1, <1>2, <2>1, <3>1
    <3> QED BY <1>4, <1>7, <3>1, <3>2
  <2>3. CASE l = m.line
    <3>1. l - (m.line - B) + 1 = B + 1
          BY <1>1, <1>2, <2>3
    <3> QED BY <1>7, <2>3, <3>1
  <2>4. CASE l > m.line
    <3>1. PICK k \in 1 .. A : k = l - m.line
          BY <1>1, <1>2, <2>1, <2>4
    <3>2. m.line + k = l /\ l - (m.line - B) + 1 = B + 1 + k
          BY <1>1, <1>2, <2>1, <3>1
    <3> QED BY <1>3, <1>7, <3>1, <3>2
  <2> QED BY <1>1, <2>1, <2>2, <2>3, <2>4
<1> QED BY <1>3, <1>7, <1>8, <1>9 DEF T, texts, before

LEMMA MergeIsInto ==
    ASSUME files \in [DOMAIN files -> FileRecs], NEW m \in Merge!Match
    PROVE  MergedInto(files, Merge!Merge(m), m)
<1> DEFINE K == Merge!Key(m)
           W == Merge!Window(m)
           old == IF K \in DOMAIN files THEN files[K].lines ELSE <<>>
           begin == m.line - Len(Merge!ContextBefore(m))
           fresh == [l \in W |-> [bounds |-> Merge!Bounds(m, old, l), text |-> <<m.tree, m.path, l>>]]
           ls == [l \in DOMAIN old \cup W |-> IF l \in W THEN fresh[l] ELSE old[l]]
           fs2 == Merge!Merge(m)
<1>1. fs2 = IF K \in DOMAIN files
            THEN [files EXCEPT ![K].lines = ls, ![K].numMatches = @ + 1]
            ELSE [k \in DOMAIN files \cup {K} |->
                    IF k \in DOMAIN files THEN files[k]
                    ELSE [tree |-> m.tree, path |-> m.path, lines |-> ls, numMatches |-> 1]]
  <2> DEFINE texts == Merge!ContextLinesInit(m)
             f2 == [l \in begin .. begin + Len(texts) - 1 |->
                      [bounds |-> Merge!Bounds(m, old, l), text |-> texts[l - begin + 1]]]
  <2>1. f2 = fresh
    <3>1. begin .. begin + Len(texts) - 1 = W /\ \A l \in W : texts[l - begin + 1] = <<m.tree, m.path, l>>
          BY ContextTexts
    <3> HIDE DEF begin, texts, W, old
    <3> QED BY <3>1
  <2>2. DOMAIN fresh = W
        OBVIOUS
  <2>3. fs2 = LET lines2 == [l \in DOMAIN old \cup DOMAIN f2 |-> IF l \in DOMAIN f2 THEN f2[l] ELSE old[l]]
              IN  IF K \in DOMAIN files
                  THEN [files EXCEPT ![K].lines = lines2, ![K].numMatches = @ + 1]
                  ELSE [k \in DOMAIN files \cup {K} |->
                          IF k \in DOMAIN files THEN files[k]
                          ELSE [tree |-> m.tree, path |-> m.path, lines |-> lines2, numMatches |-> 1]]
        BY DEF Merge!Merge
  <2> HIDE DEF f2, fresh, old, W, K, fs2
  <2> QED BY <2>1, <2>2, <2>3
<1>2. /\ DOMAIN old \subseteq LineNos /\ \A l \in DOMAIN old : old[l] \in LineRecs
      /\ K \in DOMAIN files => files[K] \in FileRecs
  <2>1. CASE K \in DOMAIN files
    <3>1. files[K] \in FileRecs
          BY <2>1
    <3>2. PICK D \in SUBSET LineNos : files[K].lines \in [D -> LineRecs]
          BY <3>1 DEF FileRecs
    <3> QED BY <2>1, <3>1, <3>2
  <2>2. CASE K \notin DOMAIN files
        BY <2>2
  <2> QED BY <2>1, <2>2
<1>3. W \subseteq LineNos /\ m.tree \in Trees /\ m.path \in Paths /\ m.bounds \in Nat
      BY MergeTypes
<1>4. ASSUME NEW l \in W PROVE fresh[l] \in LineRecs /\ fresh[l].text = <<m.tree, m.path, l>> /\ fresh[l].bounds = Merge!Bounds(m, old, l)
  <2>1. Merge!Bounds(m, old, l) \in Nat
    <3>1. l \in DOMAIN old => old[l].bounds \in Nat
          BY <1>2 DEF LineRecs
    <3> HIDE DEF old
    <3> QED BY <1>3, <3>1 DEF Merge!Bounds
  <2>2. <<m.tree, m.path, l>> \in Texts
        BY <1>3 DEF Texts
  <2> HIDE DEF old, W
  <2> QED BY <2>1, <2>2 DEF LineRecs
<1> HIDE DEF old, W, fresh
<1>5. ls \in UNION {[D -> LineRecs] : D \in SUBSET LineNos}
  <2>1. DOMAIN old \cup W \in SUBSET LineNos
        BY <1>2, <1>3
  <2>2. ls \in [DOMAIN old \cup W -> LineRecs]
        BY <1>2, <1>4
  <2> HIDE DEF ls
  <2> QED BY <2>1, <2>2
<1>6. LinesInto(old, ls, m)
      BY <1>4 DEF LinesInto, W
<1> HIDE DEF ls, fs2
<1>7. CASE K \in DOMAIN files
  <2>1. fs2 = [files EXCEPT ![K] = [files[K] EXCEPT !.lines = ls, !.numMatches = files[K].numMatches + 1]]
    <3>1. fs2 = [files EXCEPT ![K].lines = ls, ![K].numMatches = @ + 1]
          BY <1>1, <1>7
    <3> HIDE DEF K
    <3> QED BY <3>1, <1>7, <1>2 DEF FileRecs
  <2>2. files[K].numMatches + 1 \in Nat
        BY <1>2, <1>7 DEF FileRecs
  <2>3. /\ fs2[K] \in FileRecs /\ fs2[K].tree = files[K].tree /\ fs2[K].path = files[K].path
        /\ fs2[K].numMatches = files[K].numMatches + 1 /\ fs2[K].lines = ls
        BY <1>2, <1>5, <1>7, <2>1, <2>2 DEF FileRecs
  <2>4. DOMAIN fs2 = DOMAIN files /\ fs2 \in [DOMAIN files -> FileRecs] /\ \A x \in DOMAIN files : x # K => fs2[x] = files[x]
    <3> HIDE DEF K
    <3> QED BY <1>7, <2>1, <2>3
  <2>5. old = files[K].lines
        BY <1>7 DEF old
  <2>6. DOMAIN files = DOMAIN files \cup {K}
        BY <1>7
  <2> HIDE DEF K
  <2> QED BY <1>6, <1>7, <2>3, <2>4, <2>5, <2>6 DEF MergedInto, fs2, K
<1>8. CASE K \notin DOMAIN files
  <2>1. fs2 = [k \in DOMAIN files \cup {K} |->
                 IF k \in DOMAIN files THEN files[k]
                 ELSE [tree |-> m.tree, path |-> m.path, lines |-> ls, numMatches |-> 1]]
        BY <1>1, <1>8
  <2>2. [tree |-> m.tree, path |-> m.path, lines |-> ls, numMatches |-> 1] \in FileRecs
        BY <1>3, <1>5 DEF FileRecs
  <2>3. DOMAIN fs2 = DOMAIN files \cup {K} /\ fs2 \in [DOMAIN fs2 -> FileRecs] /\ \A x \in DOMAIN files : x # K => fs2[x] = files[x]
        BY <1>8, <2>1, <2>2
  <2>4. fs2[K] = [tree |-> m.tree, path |-> m.path, lines |-> ls, numMatches |-> 1]
        BY <1>8, <2>1
  <2>5. old = <<>>
        BY <1>8 DEF old
  <2> QED BY <1>6, <1>8, <2>3, <2>4, <2>5 DEF MergedInto, fs2
<1> QED BY <1>7, <1>8

Used == Merge!Used
Merged == Len(Used) - Len(search)

(* r is the result made of the entry f of dedupedResults.                  *)
Rendered(r, f) ==
    /\ r.tree = f.tree /\ r.path = f.path /\ r.numMatches = f.numMatches
    /\ {r.lines[n].lno : n \in 1 .. Len(r.lines)} = DOMAIN f.lines
    /\ \A n \in 1 .. Len(r.lines) :
         /\ n > 1 => r.lines[n - 1].lno < r.lines[n].lno
         /\ r.lines[n].text = f.lines[r.lines[n].lno].text
         /\ r.lines[n].bounds = f.lines[r.lines[n].lno].bounds

(* rs has one result for each of the keys ks of fs.                        *)
RenderedAll(rs, fs, ks) ==
    /\ rs \in Seq(Results)
    /\ \A x \in 1 .. Len(rs) : Merge!Key(rs[x]) \in ks /\ Rendered(rs[x], fs[Merge!Key(rs[x])])
    /\ \A x, y \in 1 .. Len(rs) : Merge!Key(rs[x]) = Merge!Key(rs[y]) => x = y
    /\ \A k \in ks : \E x \in 1 .. Len(rs) : Merge!Key(rs[x]) = k

NothingYet == search = <<>> /\ files = <<>> /\ ranged = {} /\ reply = <<>>

MergingInv ==
    /\ search \in Seq(Merge!Match) /\ Len(search) <= Len(Used)
    /\ \A x \in 1 .. Len(search) : search[x] = Used[Merged + x]
    /\ FilesOf(files, Used, Merged)
    /\ ranged \subseteq DOMAIN files /\ (ranged # {} => search = <<>>)
    /\ RenderedAll(reply, files, ranged)

MergeInv ==
    /\ merge_pc \in {"primary", "backup", "merge", "failed", "replied"} /\ backendIdxUsed \in BOOLEAN
    /\ IsAnswer(answers.primary) /\ IsAnswer(answers.backup)
    /\ merge_pc \in {"primary", "backup"} => NothingYet /\ ~backendIdxUsed
    /\ merge_pc \in {"merge", "replied"} => MergingInv
    /\ merge_pc = "replied" =>
         /\ search = <<>> /\ ranged = DOMAIN files
         /\ \A j, k \in 1 .. Len(reply) : j < k => ~Merge!ResultLess(reply[k], reply[j])

LEMMA AnswerTail ==
    ASSUME NEW u, IsAnswer(u)
    PROVE  IsAnswer(SubSeq(u, 2, Len(u)))
<1> DEFINE t == SubSeq(u, 2, Len(u))
<1>1. u \in Seq(Merge!Match) /\ Len(u) \in Nat
      BY DEF IsAnswer
<1>2. t \in Seq(Merge!Match) /\ Len(t) = (IF 2 <= Len(u) THEN Len(u) - 1 ELSE 0) /\ \A x \in 1 .. Len(t) : t[x] = u[x + 1]
      BY <1>1
<1>3. \A x \in 1 .. Len(t) : x + 1 \in 1 .. Len(u)
      BY <1>1, <1>2
<1> HIDE DEF t
<1>4. ASSUME NEW x \in 1 .. Len(t), NEW y \in 1 .. Len(t), t[x].tree = t[y].tree, t[x].path = t[y].path, t[x].line = t[y].line
      PROVE  x = y
  <2>1. x + 1 = y + 1
        BY <1>2, <1>3, <1>4 DEF IsAnswer
  <2> QED BY <2>1, <1>2
<1>5. IsAnswer(t)
      BY <1>2, <1>4 DEF IsAnswer
<1> QED BY <1>5 DEF t

LEMMA MergeInitially == Merge!Init => MergeInv
<1> SUFFICES ASSUME Merge!Init PROVE MergeInv
    OBVIOUS
<1>1. PICK a \in Merge!Answers : answers = [primary |-> a, backup |-> SubSeq(a, 2, Len(a))]
      BY DEF Merge!Init
<1>2. IsAnswer(a)
  <2>1. PICK n \in 0 .. MaxResults : a \in [1 .. n -> Merge!Match]
        BY DEF Merge!Answers
  <2>2. CASE n \in Nat
    <3>1. a \in Seq(Merge!Match)
          BY <2>1, <2>2
    <3>2. \A x, y \in 1 .. Len(a) : x # y =>
            <<a[x].tree, a[x].path, a[x].line>> # <<a[y].tree, a[y].path, a[y].line>>
          BY DEF Merge!Answers
    <3> QED BY <3>1, <3>2 DEF IsAnswer
  <2> QED BY <2>2
<1>3. answers.primary = a /\ answers.backup = SubSeq(a, 2, Len(a))
      BY <1>1
<1>4. IsAnswer(answers.primary) /\ IsAnswer(answers.backup)
      BY <1>2, <1>3, AnswerTail
<1> QED BY <1>4 DEF Merge!Init, MergeInv, NothingYet

(* A backend that answers starts the merging.                              *)
LEMMA MergingStarts ==
    ASSUME NothingYet, NEW u, IsAnswer(u), Used' = u, search' = u, UNCHANGED <<files, ranged, reply>>
    PROVE  MergingInv'
<1>1. u \in Seq(Merge!Match) /\ Len(u) \in Nat /\ Merged' = 0
      BY DEF IsAnswer, Merged
<1>2. files' = <<>> /\ ranged' = {} /\ reply' = <<>>
      BY DEF NothingYet
<1>3. FilesOf(<<>>, u, 0)
      BY DEF FilesOf
<1>4. RenderedAll(<<>>, <<>>, {})
      BY DEF RenderedAll
<1>5. \A x \in 1 .. Len(u) : u[x] = u[0 + x]
      BY <1>1
<1> QED BY <1>1, <1>2, <1>3, <1>4, <1>5 DEF MergingInv

LEMMA MergeTries ==
    ASSUME MergeInv, Merge!TryPrimary \/ Merge!TryBackup
    PROVE  MergeInv'
<1>1. CASE Merge!TryPrimary
  <2>1. /\ NothingYet /\ UNCHANGED <<up, answers, backendIdxUsed, files, ranged, reply>>
        /\ merge_pc' \in {"merge", "backup", "failed"}
        /\ search' = IF merge_pc' = "merge" THEN answers.primary ELSE <<>>
        BY <1>1 DEF Merge!TryPrimary, MergeInv
  <2>2. ASSUME merge_pc' = "merge" PROVE MergingInv'
    <3>1. IsAnswer(answers.primary) /\ ~backendIdxUsed
          BY <1>1 DEF Merge!TryPrimary, MergeInv
    <3>2. Used' = answers.primary /\ search' = answers.primary
          BY <2>1, <2>2, <3>1 DEF Used, Merge!Used
    <3> QED BY <2>1, <3>1, <3>2, MergingStarts
  <2>3. merge_pc' = "backup" => ~backendIdxUsed'
        BY <1>1, <2>1 DEF Merge!TryPrimary, MergeInv
  <2> QED BY <2>1, <2>2, <2>3 DEF MergeInv, NothingYet
<1>2. CASE Merge!TryBackup
  <2>1. /\ NothingYet /\ backendIdxUsed' = TRUE /\ UNCHANGED <<up, answers, files, ranged, reply>>
        /\ merge_pc' \in {"merge", "failed"}
        /\ search' = IF merge_pc' = "merge" THEN answers.backup ELSE <<>>
        BY <1>2 DEF Merge!TryBackup, MergeInv
  <2>2. ASSUME merge_pc' = "merge" PROVE MergingInv'
    <3>1. IsAnswer(answers.backup)
          BY DEF MergeInv
    <3>2. Used' = answers.backup /\ search' = answers.backup
          BY <2>1, <2>2 DEF Used, Merge!Used
    <3> QED BY <2>1, <3>1, <3>2, MergingStarts
  <2> QED BY <2>1, <2>2 DEF MergeInv, NothingYet
<1> QED BY <1>1, <1>2

LEMMA MergeMerges ==
    ASSUME MergeInv, Merge!MergeResult
    PROVE  MergeInv'
<1>1. /\ merge_pc = "merge" /\ search # <<>> /\ files' = Merge!Merge(Head(search)) /\ search' = Tail(search)
      /\ UNCHANGED <<up, answers, backendIdxUsed, ranged, reply, merge_pc>>
      BY DEF Merge!MergeResult
<1>2. MergingInv /\ Used' = Used
      BY <1>1 DEF MergeInv, Used, Merge!Used
<1>3. IsAnswer(Used)
      BY DEF MergeInv, Used, Merge!Used
<1> DEFINE m == Head(search)
           n == Merged
<1>4. /\ search \in Seq(Merge!Match) /\ Len(search) \in Nat /\ Len(search) >= 1 /\ Len(Used) \in Nat /\ Len(search) <= Len(Used)
      /\ search' \in Seq(Merge!Match) /\ Len(search') = Len(search) - 1 /\ \A x \in 1 .. Len(search') : search'[x] = search[x + 1]
      /\ m = search[1] /\ m \in Merge!Match
      BY <1>1, <1>2, <1>3 DEF MergingInv, IsAnswer
<1>5. n \in Nat /\ n < Len(Used) /\ Merged' = n + 1
      BY <1>2, <1>4 DEF Merged
<1>6. m = Used[n + 1]
      BY <1>2, <1>4 DEF MergingInv
<1>7. FilesOf(files, Used, n) /\ files \in [DOMAIN files -> FileRecs]
      BY <1>2 DEF MergingInv, FilesOf
<1>8. MergedInto(files, files', m)
      BY <1>1, <1>4, <1>7, MergeIsInto
<1>9. FilesOf(files', Used, n + 1)
  <2> HIDE DEF n, m
  <2> QED BY <1>3, <1>5, <1>6, <1>7, <1>8, FilesOneMore
<1>10. ranged = {} /\ reply' = reply /\ ranged' = {}
      BY <1>1, <1>2 DEF MergingInv
<1>11. RenderedAll(reply', files', ranged')
      BY <1>2, <1>10 DEF MergingInv, RenderedAll
<1>12. \A x \in 1 .. Len(search') : search'[x] = Used[(n + 1) + x]
  <2> TAKE x \in 1 .. Len(search')
  <2>0. x \in 1 .. (Len(search) - 1) /\ Len(search) \in Nat /\ n \in Nat
        BY <1>4, <1>5
  <2>1. x + 1 \in 1 .. Len(search) /\ n + (x + 1) = (n + 1) + x
    <3> HIDE DEF n
    <3> QED BY <2>0
  <2> HIDE DEF n
  <2> QED BY <1>2, <1>4, <2>1 DEF MergingInv, n
<1>13. MergingInv'
  <2> HIDE DEF n
  <2> QED BY <1>2, <1>4, <1>5, <1>9, <1>10, <1>11, <1>12 DEF MergingInv
<1> QED BY <1>1, <1>13 DEF MergeInv

LEMMA MergeRenders ==
    ASSUME MergeInv, Merge!RenderFile
    PROVE  MergeInv'
<1>1. /\ merge_pc = "merge" /\ search = <<>> /\ UNCHANGED <<up, answers, search, backendIdxUsed, files, merge_pc>>
      BY DEF Merge!RenderFile
<1>2. MergingInv /\ Used' = Used /\ Merged' = Merged
      BY <1>1 DEF MergeInv, Used, Merge!Used, Merged
<1>3. PICK k \in DOMAIN files \ ranged :
        \E order \in [1 .. Cardinality(DOMAIN files[k].lines) -> DOMAIN files[k].lines] :
          /\ Merge!ToSet(order) = DOMAIN files[k].lines
          /\ \A n \in 2 .. Len(order) : order[n - 1] < order[n]
          /\ reply' = Append(reply,
               [tree |-> files[k].tree, path |-> files[k].path, numMatches |-> files[k].numMatches,
                lines |-> [n \in 1 .. Len(order) |->
                             [lno |-> order[n], bounds |-> files[k].lines[order[n]].bounds,
                              text |-> files[k].lines[order[n]].text]]])
          /\ ranged' = ranged \cup {k}
  <2> DEFINE Q(k, order, ls) ==
               /\ Merge!ToSet(order) = DOMAIN ls
               /\ \A n \in 2 .. Len(order) : order[n - 1] < order[n]
               /\ reply' = Append(reply,
                    [tree |-> files[k].tree, path |-> files[k].path, numMatches |-> files[k].numMatches,
                     lines |-> [n \in 1 .. Len(order) |->
                                  [lno |-> order[n], bounds |-> ls[order[n]].bounds, text |-> ls[order[n]].text]]])
               /\ ranged' = ranged \cup {k}
  <2>1. \E k \in DOMAIN files \ ranged : LET ls == files[k].lines
          IN  \E order \in [1 .. Merge!Cardinality(DOMAIN ls) -> DOMAIN ls] : Q(k, order, ls)
        BY Zenon DEF Merge!RenderFile
  <2>2. \E k \in DOMAIN files \ ranged :
          \E order \in [1 .. Cardinality(DOMAIN files[k].lines) -> DOMAIN files[k].lines] : Q(k, order, files[k].lines)
    <3> HIDE DEF Q
    <3> QED BY <2>1, MergeSets
  <2> QED BY <2>2, Zenon
<1> DEFINE f == files[k]
           D == DOMAIN f.lines
<1>4. PICK order \in [1 .. Cardinality(D) -> D] :
          /\ Merge!ToSet(order) = D
          /\ \A n \in 2 .. Len(order) : order[n - 1] < order[n]
          /\ reply' = Append(reply,
               [tree |-> f.tree, path |-> f.path, numMatches |-> f.numMatches,
                lines |-> [n \in 1 .. Len(order) |->
                             [lno |-> order[n], bounds |-> f.lines[order[n]].bounds, text |-> f.lines[order[n]].text]]])
          /\ ranged' = ranged \cup {k}
      BY <1>3
<1> DEFINE ls == [n \in 1 .. Len(order) |->
                    [lno |-> order[n], bounds |-> f.lines[order[n]].bounds, text |-> f.lines[order[n]].text]]
           r == [tree |-> f.tree, path |-> f.path, numMatches |-> f.numMatches, lines |-> ls]
<1>5. f \in FileRecs
      BY <1>2 DEF MergingInv, FilesOf
<1>6. PICK E \in SUBSET LineNos : f.lines \in [E -> LineRecs]
      BY <1>5 DEF FileRecs
<1>7. D \in SUBSET LineNos /\ \A l \in D : f.lines[l].bounds \in Nat /\ f.lines[l].text \in Texts
      BY <1>6 DEF LineRecs
<1>8. Cardinality(D) \in Nat
  <2>1. IsFiniteSet(LineNos)
        BY MergeTypes, FS_Interval DEF LineNos
  <2>2. IsFiniteSet(D)
        BY <1>7, <2>1, FS_Subset
  <2> QED BY <2>2, FS_CardinalityType
<1> HIDE DEF f, D
<1> DEFINE c == Len(order)
<1>9. c \in Nat /\ DOMAIN order = 1 .. c /\ \A n \in 1 .. c : order[n] \in D
      BY <1>8
<1> HIDE DEF c
<1>10. /\ ls \in Seq([lno : LineNos, bounds : Nat, text : Texts]) /\ Len(ls) = c
       /\ \A n \in 1 .. c : /\ ls[n].lno = order[n] /\ ls[n].bounds = f.lines[order[n]].bounds
                            /\ ls[n].text = f.lines[order[n]].text
  <2>1. ls = [n \in 1 .. c |->
                [lno |-> order[n], bounds |-> f.lines[order[n]].bounds, text |-> f.lines[order[n]].text]]
        BY DEF c
  <2>2. \A n \in 1 .. c : order[n] \in LineNos /\ f.lines[order[n]].bounds \in Nat /\ f.lines[order[n]].text \in Texts
        BY <1>7, <1>9
  <2> HIDE DEF ls
  <2>3. \A n \in 1 .. c : ls[n] = [lno |-> order[n], bounds |-> f.lines[order[n]].bounds, text |-> f.lines[order[n]].text]
        BY <2>1
  <2> DEFINE R == [lno : LineNos, bounds : Nat, text : Texts]
  <2>4. ASSUME NEW n \in 1 .. c PROVE ls[n] \in R
    <3>1. PICK a \in LineNos, b \in Nat, t \in Texts : ls[n] = [lno |-> a, bounds |-> b, text |-> t]
          BY <2>2, <2>3
    <3> QED BY <3>1
  <2>5. ls \in Seq(R) /\ Len(ls) = c
    <3> HIDE DEF R
    <3>1. ls \in [1 .. c -> R]
          BY <2>1, <2>4
    <3> QED BY <1>9, <3>1
  <2> QED BY <2>3, <2>5
<1>11. reply' = Append(reply, r) /\ ranged' = ranged \cup {k}
      BY <1>4
<1> HIDE DEF ls
<1>12. r \in Results /\ r.tree = f.tree /\ r.path = f.path /\ r.numMatches = f.numMatches /\ r.lines = ls
  <2>1. f.tree \in Trees /\ f.path \in Paths /\ f.numMatches \in Nat
        BY <1>5 DEF FileRecs
  <2> QED BY <1>10, <2>1 DEF Results
<1> HIDE DEF r
<1>13. Rendered(r, f)
  <2>1. {r.lines[n].lno : n \in 1 .. Len(r.lines)} = D
    <3>1. Merge!ToSet(order) = {order[n] : n \in 1 .. c}
          BY <1>9 DEF Merge!ToSet
    <3>2. {r.lines[n].lno : n \in 1 .. Len(r.lines)} = {order[n] : n \in 1 .. c}
          BY <1>10, <1>12
    <3> QED BY <1>4, <3>1, <3>2
  <2>2. ASSUME NEW n \in 1 .. Len(r.lines)
        PROVE  /\ n > 1 => r.lines[n - 1].lno < r.lines[n].lno
               /\ r.lines[n].text = f.lines[r.lines[n].lno].text
               /\ r.lines[n].bounds = f.lines[r.lines[n].lno].bounds
    <3>1. n \in 1 .. c /\ r.lines[n].lno = order[n]
          BY <1>10, <1>12
    <3>2. ASSUME n > 1 PROVE r.lines[n - 1].lno < r.lines[n].lno
      <4>1. n \in 2 .. c /\ n - 1 \in 1 .. c
            BY <1>9, <3>1, <3>2
      <4>2. order[n - 1] < order[n]
            BY <1>4, <4>1 DEF c
      <4> QED BY <1>10, <1>12, <3>1, <4>1, <4>2
    <3> QED BY <1>10, <1>12, <3>1, <3>2
  <2> QED BY <1>12, <2>1, <2>2 DEF Rendered, D
<1>14. Merge!Key(r) = k
  <2>1. PICK x \in 1 .. Merged : Merge!Key(Used[x]) = k /\ f.tree = Used[x].tree /\ f.path = Used[x].path
        BY <1>2 DEF MergingInv, FilesOf, f
  <2> QED BY <1>12, <2>1 DEF Merge!Key
<1>15. RenderedAll(reply', files, ranged')
  <2> DEFINE w == Len(reply)
  <2>0. RenderedAll(reply, files, ranged) /\ reply \in Seq(Results) /\ w \in Nat
        BY <1>2 DEF MergingInv, RenderedAll
  <2>1. reply' \in Seq(Results) /\ Len(reply') = w + 1 /\ reply'[w + 1] = r /\ \A x \in 1 .. w : reply'[x] = reply[x]
        BY <1>11, <1>12, <2>0
  <2>2. \A x \in 1 .. (w + 1) : x = w + 1 \/ x \in 1 .. w
        BY <2>0
  <2>3. \A x \in 1 .. w : Merge!Key(reply[x]) \in ranged /\ Rendered(reply[x], files[Merge!Key(reply[x])]) /\ x \in 1 .. (w + 1)
        BY <2>0 DEF RenderedAll
  <2>4. \A x, y \in 1 .. w : Merge!Key(reply[x]) = Merge!Key(reply[y]) => x = y
        BY <2>0 DEF RenderedAll
  <2>5. \A q2 \in ranged : \E x \in 1 .. w : Merge!Key(reply[x]) = q2
        BY <2>0 DEF RenderedAll
  <2>6. k \notin ranged /\ k \in ranged' /\ w + 1 \in 1 .. (w + 1)
        BY <1>11, <2>0
  <2> HIDE DEF w
  <2>7. \A x \in 1 .. (w + 1) : Merge!Key(reply'[x]) \in ranged' /\ Rendered(reply'[x], files[Merge!Key(reply'[x])])
    <3> TAKE x \in 1 .. (w + 1)
    <3>1. CASE x = w + 1
          BY <1>13, <1>14, <2>1, <2>6, <3>1 DEF f
    <3>2. CASE x \in 1 .. w
          BY <1>11, <2>1, <2>3, <3>2
    <3> QED BY <2>2, <3>1, <3>2
  <2>8. \A x, y \in 1 .. (w + 1) : Merge!Key(reply'[x]) = Merge!Key(reply'[y]) => x = y
        BY <1>14, <2>1, <2>2, <2>3, <2>4, <2>6
  <2>9. \A q2 \in ranged' : \E x \in 1 .. (w + 1) : Merge!Key(reply'[x]) = q2
        BY <1>11, <1>14, <2>1, <2>3, <2>5, <2>6
  <2> QED BY <2>1, <2>7, <2>8, <2>9 DEF RenderedAll
<1>16. ranged' \subseteq DOMAIN files
      BY <1>2, <1>11 DEF MergingInv
<1>17. MergingInv'
      BY <1>1, <1>2, <1>15, <1>16 DEF MergingInv
<1> QED BY <1>1, <1>17 DEF MergeInv

LEMMA MergeSorts ==
    ASSUME MergeInv, Merge!SortResults
    PROVE  MergeInv'
<1>1. /\ merge_pc = "merge" /\ search = <<>> /\ ranged = DOMAIN files /\ merge_pc' = "replied"
      /\ UNCHANGED <<up, answers, search, backendIdxUsed, files, ranged>>
      BY DEF Merge!SortResults
<1>2. MergingInv /\ Used' = Used /\ Merged' = Merged
      BY <1>1 DEF MergeInv, Used, Merge!Used, Merged
<1> DEFINE w == Len(reply)
<1>3. PICK g \in Merge!Bijection(1 .. w, 1 .. w) :
        /\ reply' = [n \in 1 .. w |-> reply[g[n]]]
        /\ \A j, k \in 1 .. w : j < k => ~Merge!ResultLess(reply'[k], reply'[j])
      BY DEF Merge!SortResults
<1>4. RenderedAll(reply, files, ranged) /\ reply \in Seq(Results) /\ w \in Nat
      BY <1>2 DEF MergingInv, RenderedAll
<1>5. /\ g \in [1 .. w -> 1 .. w] /\ \A x, y \in 1 .. w : g[x] = g[y] => x = y
      /\ \A y \in 1 .. w : \E x \in 1 .. w : g[x] = y
      BY DEF Merge!Bijection, Merge!Injection, Merge!Surjection, Merge!IsInjective
<1>6. reply' \in Seq(Results) /\ Len(reply') = w /\ \A x \in 1 .. w : g[x] \in 1 .. w /\ reply'[x] = reply[g[x]]
  <2>1. \A x \in 1 .. w : g[x] \in 1 .. w /\ reply'[x] = reply[g[x]]
        BY <1>3, <1>5
  <2>2. \A x \in 1 .. w : reply'[x] \in Results
        BY <1>4, <2>1
  <2>3. reply' \in [1 .. w -> Results]
        BY <1>3, <2>2
  <2> HIDE DEF w
  <2> QED BY <1>4, <2>1, <2>3
<1>7. RenderedAll(reply', files, ranged)
  <2> HIDE DEF w
  <2>1. \A x \in 1 .. w : Merge!Key(reply'[x]) \in ranged /\ Rendered(reply'[x], files[Merge!Key(reply'[x])])
        BY <1>4, <1>6 DEF RenderedAll, w
  <2>2. \A x, y \in 1 .. w : Merge!Key(reply'[x]) = Merge!Key(reply'[y]) => x = y
        BY <1>4, <1>5, <1>6 DEF RenderedAll, w
  <2>3. ASSUME NEW k \in ranged PROVE \E x \in 1 .. w : Merge!Key(reply'[x]) = k
    <3>1. PICK y \in 1 .. w : Merge!Key(reply[y]) = k
          BY <1>4 DEF RenderedAll, w
    <3> QED BY <1>5, <1>6, <3>1
  <2> QED BY <1>6, <2>1, <2>2, <2>3 DEF RenderedAll
<1>8. MergingInv'
      BY <1>1, <1>2, <1>7 DEF MergingInv
<1>9. \A j, k \in 1 .. Len(reply') : j < k => ~Merge!ResultLess(reply'[k], reply'[j])
      BY <1>3, <1>6
<1> QED BY <1>1, <1>8, <1>9 DEF MergeInv

LEMMA MergeNext ==
    ASSUME MergeInv, Merge!Next
    PROVE  MergeInv'
BY MergeTries, MergeMerges, MergeRenders, MergeSorts DEF Merge!Next

LEMMA MergeStutters ==
    ASSUME MergeInv, UNCHANGED mergeVars
    PROVE  MergeInv'
<1>1. UNCHANGED <<up, answers, search, backendIdxUsed, files, ranged, reply, merge_pc>>
      BY DEF mergeVars
<1>2. Used' = Used /\ Merged' = Merged
      BY <1>1 DEF Used, Merge!Used, Merged
<1> QED BY <1>1, <1>2 DEF MergeInv, MergingInv, NothingYet

(* Of two different words one is less.                                     *)
LEMMA LessTotal ==
    ASSUME NEW a \in Seq(Nat), NEW b \in Seq(Nat), a # b
    PROVE  Merge!Less(a, b) \/ Merge!Less(b, a)
<1> DEFINE Differ(k) == k > Len(a) \/ k > Len(b) \/ a[k] # b[k]
           T == {k \in Nat \ {0} : (k <= Len(a) \/ k <= Len(b)) /\ Differ(k)}
<1>0. Len(a) \in Nat /\ Len(b) \in Nat
      OBVIOUS
<1>1. T # {}
  <2> SUFFICES ASSUME T = {} PROVE FALSE
      OBVIOUS
  <2>1. \A k \in Nat \ {0} : k <= Len(a) \/ k <= Len(b) => k <= Len(a) /\ k <= Len(b) /\ a[k] = b[k]
    <3> TAKE k \in Nat \ {0}
    <3>1. ~((k <= Len(a) \/ k <= Len(b)) /\ Differ(k))
          OBVIOUS
    <3> QED BY <1>0, <3>1
  <2>2. Len(a) = Len(b)
    <3>1. Len(a) > Len(b) => Len(a) \in Nat \ {0} /\ ~(Len(a) <= Len(b))
          BY <1>0
    <3>2. Len(b) > Len(a) => Len(b) \in Nat \ {0} /\ ~(Len(b) <= Len(a))
          BY <1>0
    <3>3. Len(a) <= Len(a) /\ Len(b) <= Len(b)
          BY <1>0
    <3>4. ~(Len(a) > Len(b)) /\ ~(Len(b) > Len(a))
          BY <2>1, <3>1, <3>2, <3>3
    <3> QED BY <1>0, <3>4
  <2>3. \A k \in 1 .. Len(a) : a[k] = b[k]
        BY <1>0, <2>1
  <2> QED BY <2>2, <2>3
<1>2. PICK k \in T : \A j \in T : k <= j
  <2>1. T \in SUBSET Nat
        OBVIOUS
  <2> HIDE DEF T
  <2> QED BY <1>1, <2>1, LeastElement
<1>3. k \in Nat \ {0} /\ (k <= Len(a) \/ k <= Len(b)) /\ Differ(k)
      OBVIOUS
<1>4. \A j \in 1 .. k - 1 : j <= Len(a) /\ j <= Len(b) /\ a[j] = b[j]
  <2> TAKE j \in 1 .. k - 1
  <2>1. j \in Nat \ {0} /\ ~(k <= j)
        BY <1>3
  <2>2. j \notin T
        BY <1>2, <2>1
  <2>3. j <= Len(a) \/ j <= Len(b)
        BY <1>0, <1>3, <2>1
  <2> QED BY <1>0, <2>1, <2>2, <2>3
<1>5. CASE k <= Len(b) /\ (Len(a) < k \/ a[k] < b[k])
      BY <1>0, <1>3, <1>4, <1>5 DEF Merge!Less
<1>6. CASE k <= Len(a) /\ (Len(b) < k \/ b[k] < a[k])
      BY <1>0, <1>3, <1>4, <1>6 DEF Merge!Less
<1>7. k <= Len(a) /\ k <= Len(b) => a[k] \in Nat /\ b[k] \in Nat
      BY <1>0, <1>3
<1> QED BY <1>0, <1>3, <1>5, <1>6, <1>7

LEMMA MergeInvImplies == MergeInv => Merge!ReplyExact
<1> SUFFICES ASSUME MergeInv, merge_pc = "replied" PROVE Merge!ReplyExact
    BY DEF Merge!ReplyExact
<1>1. /\ MergingInv /\ search = <<>> /\ ranged = DOMAIN files
      /\ \A j, k \in 1 .. Len(reply) : j < k => ~Merge!ResultLess(reply[k], reply[j])
      BY DEF MergeInv
<1>2. IsAnswer(Used)
      BY DEF MergeInv, Used, Merge!Used
<1> DEFINE c == Len(Used)
<1>3. Used \in Seq(Merge!Match) /\ c \in Nat /\ Merged = c
      BY <1>1, <1>2 DEF IsAnswer, Merged
<1>4. Merge!ToSet(Merge!Used) = {Used[x] : x \in 1 .. c} /\ Merge!Used = Used
      BY <1>3 DEF Merge!ToSet, Used
<1>5. FilesOf(files, Used, c) /\ RenderedAll(reply, files, DOMAIN files) /\ reply \in Seq(Results) /\ Len(reply) \in Nat
      BY <1>1, <1>3 DEF MergingInv, RenderedAll
<1>6. Merge!ToSet(reply) = {reply[x] : x \in 1 .. Len(reply)}
      BY <1>5 DEF Merge!ToSet
<1>7. \A m \in Merge!ToSet(Merge!Used) : \E r \in Merge!ToSet(reply) : Merge!Key(r) = Merge!Key(m)
  <2> SUFFICES ASSUME NEW x \in 1 .. c PROVE \E r \in Merge!ToSet(reply) : Merge!Key(r) = Merge!Key(Used[x])
      BY <1>4
  <2>1. Merge!Key(Used[x]) \in DOMAIN files
        BY <1>5 DEF FilesOf
  <2> QED BY <1>5, <1>6, <2>1 DEF RenderedAll
<1>8. ASSUME NEW y \in 1 .. Len(reply)
      PROVE  LET k == Merge!Key(reply[y])
             IN  /\ k \in DOMAIN files /\ Rendered(reply[y], files[k])
                 /\ \E x \in 1 .. c : Used[x].tree = reply[y].tree /\ Used[x].path = reply[y].path
  <2> DEFINE k == Merge!Key(reply[y])
  <2>1. k \in DOMAIN files /\ Rendered(reply[y], files[k])
        BY <1>5 DEF RenderedAll
  <2>2. PICK x \in 1 .. c : Merge!Key(Used[x]) = k /\ files[k].tree = Used[x].tree /\ files[k].path = Used[x].path
        BY <1>5, <2>1 DEF FilesOf
  <2>3. files[k].tree = reply[y].tree /\ files[k].path = reply[y].path
        BY <2>1 DEF Rendered
  <2> QED BY <2>1, <2>2, <2>3
<1>9. \A r \in Merge!ToSet(reply) : \E m \in Merge!ToSet(Merge!Used) : m.tree = r.tree /\ m.path = r.path
      BY <1>4, <1>6, <1>8
<1>10. ASSUME NEW j \in 1 .. Len(reply), NEW k \in 1 .. Len(reply), j < k
       PROVE  Merge!ResultLess(reply[j], reply[k]) /\ Merge!Key(reply[j]) # Merge!Key(reply[k])
  <2> DEFINE r == reply[j]
             t == reply[k]
  <2>1. Merge!Key(r) # Merge!Key(t)
    <3>1. j # k
          BY <1>5, <1>10
    <3> QED BY <1>5, <3>1 DEF RenderedAll
  <2>2. r.tree # t.tree \/ r.path # t.path
        BY <2>1 DEF Merge!Key
  <2>3. r \in Results /\ t \in Results
        BY <1>5
  <2>4. r.tree \in Seq(Nat) /\ t.tree \in Seq(Nat) /\ r.path \in Seq(Nat) /\ t.path \in Seq(Nat)
        BY <2>3, MergeTypes DEF Results
  <2>5. ~Merge!ResultLess(t, r)
        BY <1>1, <1>10
  <2> HIDE DEF r, t
  <2>6. Merge!ResultLess(r, t)
    <3>1. CASE r.tree # t.tree
          BY <2>4, <2>5, <3>1, LessTotal DEF Merge!ResultLess
    <3>2. CASE r.tree = t.tree
          BY <2>2, <2>4, <2>5, <3>2, LessTotal DEF Merge!ResultLess
    <3> QED BY <3>1, <3>2
  <2> QED BY <2>1, <2>6 DEF r, t
<1>11. ASSUME NEW r \in Merge!ToSet(reply), Merge!OneFile(r)
       PROVE  /\ r.numMatches = Merge!Cardinality(Merge!Matches(r))
              /\ {r.lines[n].lno : n \in 1 .. Len(r.lines)} = UNION {Merge!Window(m) : m \in Merge!Matches(r)}
              /\ \A n \in 1 .. Len(r.lines) :
                   /\ n > 1 => r.lines[n - 1].lno < r.lines[n].lno
                   /\ r.lines[n].text = <<r.tree, r.path, r.lines[n].lno>>
                   /\ IF \E m \in Merge!Matches(r) : m.line = r.lines[n].lno
                      THEN \E m \in Merge!Matches(r) : m.line = r.lines[n].lno /\ r.lines[n].bounds = m.bounds
                      ELSE r.lines[n].bounds = 0
  <2> DEFINE K == Merge!Key(r)
             f == files[K]
             ms == Merge!Matches(r)
  <2>1. K \in DOMAIN files /\ Rendered(r, f)
    <3>1. PICK y \in 1 .. Len(reply) : r = reply[y]
          BY <1>6
    <3> QED BY <1>8, <3>1
  <2>2. f.tree = r.tree /\ f.path = r.path
        BY <2>1 DEF Rendered
  <2>3. Pure(Used, f, K)
        BY <1>4, <1>11, <2>2 DEF Merge!OneFile, Pure
  <2>4. ms = MergedOf(Used, c, K)
    <3>1. \A x \in 1 .. c : Used[x].tree = r.tree /\ Used[x].path = r.path <=> Merge!Key(Used[x]) = K
      <4>1. \A x \in 1 .. c : Used[x].tree = r.tree /\ Used[x].path = r.path => Merge!Key(Used[x]) = K
            BY DEF Merge!Key
      <4> QED BY <2>2, <2>3, <4>1 DEF Pure
    <3> QED BY <1>4, <3>1 DEF Merge!Matches, MergedOf
  <2> HIDE DEF ms, f, K
  <2>5. f.numMatches = Cardinality(ms) /\ LinesOf(f.lines, f, ms)
        BY <1>5, <2>1, <2>3, <2>4 DEF FilesOf, f
  <2>6. r.numMatches = Merge!Cardinality(ms)
        BY <2>1, <2>5, MergeSets DEF Rendered
  <2>7. {r.lines[n].lno : n \in 1 .. Len(r.lines)} = UNION {Merge!Window(m) : m \in ms}
        BY <2>1, <2>5 DEF Rendered, LinesOf
  <2>8. ASSUME NEW n \in 1 .. Len(r.lines)
        PROVE  /\ n > 1 => r.lines[n - 1].lno < r.lines[n].lno
               /\ r.lines[n].text = <<r.tree, r.path, r.lines[n].lno>>
               /\ IF \E m \in ms : m.line = r.lines[n].lno
                  THEN \E m \in ms : m.line = r.lines[n].lno /\ r.lines[n].bounds = m.bounds
                  ELSE r.lines[n].bounds = 0
    <3> DEFINE l == r.lines[n].lno
    <3>1. /\ n > 1 => r.lines[n - 1].lno < r.lines[n].lno
          /\ r.lines[n].text = f.lines[l].text /\ r.lines[n].bounds = f.lines[l].bounds
          BY <2>1 DEF Rendered
    <3>2. l \in DOMAIN f.lines
          BY <2>1 DEF Rendered
    <3>3. r.lines[n].text = <<r.tree, r.path, l>>
          BY <2>2, <2>5, <3>1, <3>2 DEF LinesOf
    <3>4. CASE \E m \in ms : m.line = l
      <4>1. PICK m \in ms : m.line = l
            BY <3>4
      <4>2. f.lines[l].bounds = m.bounds
            BY <2>5, <4>1 DEF LinesOf
      <4> QED BY <3>1, <3>3, <4>1, <4>2
    <3>5. CASE ~\E m \in ms : m.line = l
      <4>1. f.lines[l].bounds = 0
            BY <2>5, <3>2, <3>5 DEF LinesOf
      <4> QED BY <3>1, <3>3, <3>5, <4>1
    <3> QED BY <3>4, <3>5
  <2> QED BY <2>6, <2>7, <2>8 DEF ms
<1> HIDE DEF c
<1> QED BY <1>7, <1>9, <1>10, <1>11 DEF Merge!ReplyExact

-----------------------------------------------------------------------------
(* The parts together.                                                     *)

PathInv ==
    /\ part = "Box" => BoxInv
    /\ part = "Service" => ServiceInv
    /\ part = "Parser" => ParserInv
    /\ part = "Names" => NamesInv
    /\ part = "Merge" => MergeInv

LEMMA SpecPathInv == Spec => []PathInv
<1>1. Init => PathInv
      BY BoxInit, ServiceInit, ParserInit, NamesInit, MergeInitially, Assumptions DEF Init, PathInv
<1>2. PathInv /\ [Next]_all => PathInv'
  <2> SUFFICES ASSUME PathInv, [Next]_all PROVE PathInv'
      OBVIOUS
  <2>1. CASE BoxStep(Box!Next)
        BY <2>1, BoxNext DEF BoxStep, PathInv
  <2>2. CASE ServiceStep(Service!Next)
        BY <2>2, ServiceNext DEF ServiceStep, PathInv
  <2>5. CASE ParserStep(Parser!Next)
        BY <2>5, ParserNext DEF ParserStep, PathInv
  <2>3. CASE NamesStep(Names!Next)
        BY <2>3, NamesNext DEF NamesStep, PathInv
  <2>6. CASE MergeStep(Merge!Next)
        BY <2>6, MergeNext DEF MergeStep, PathInv
  <2>4. CASE UNCHANGED all
    <3>1. UNCHANGED <<part, boxVars, serviceVars, parserVars, namesVars, mergeVars>>
          BY <2>4 DEF all
    <3>2. BoxInv => BoxInv'
          BY <3>1 DEF boxVars, BoxInv, Current
    <3>3. ServiceInv => ServiceInv'
          BY <3>1 DEF serviceVars, ServiceInv, ServiceType, Service!NoneMeansComplete, Service!Answered,
                      PassInv, PoolInv, InCorpus
    <3>4. ParserInv => ParserInv'
      <4>1. UNCHANGED <<query, globalRegex, parser_i, ops, key, term, inRegex, p, operators, parser_pc>>
            BY <3>1 DEF parserVars
      <4>2. /\ Alive' = Alive /\ Grouping' = Grouping /\ Held' = Held /\ Loose' = Loose /\ Read' = Read
            /\ \A o : TermSet(o)' = TermSet(o) /\ OpenAt(o)' = OpenAt(o)
            BY <4>1, SameDepth DEF Alive, Grouping, Held, Loose, Read, TermSet, OpenAt
      <4>3. ParserType' = ParserType /\ WholeInv' = WholeInv
            BY <4>1, <4>2 DEF ParserType, WholeInv
      <4>4. GroupInv' = GroupInv /\ TogetherInv' = TogetherInv
            BY <4>1, <4>2, SameDepth DEF GroupInv, TogetherInv
      <4> QED BY <4>2, <4>3, <4>4 DEF ParserInv
    <3>5. NamesInv => NamesInv'
      <4>1. UNCHANGED <<Names!input, names_i, left_bound, previous_first, reported, asserted>> /\ UNCHANGED <<cut, done>>
            BY <3>1 DEF namesVars, Names!input
      <4> QED BY <4>1, NamesEnd DEF NamesInv, NamesType
    <3> QED BY <3>1, <3>2, <3>3, <3>4, <3>5, MergeStutters DEF PathInv
  <2> QED BY <2>1, <2>2, <2>3, <2>4, <2>5, <2>6 DEF Next
<1> QED BY <1>1, <1>2, PTL DEF Spec

(***************************************************************************)
(* SettledOnQuery for any queries, any decoding and any number of          *)
(* requests: results on the page, once no request is in flight, are those  *)
(* of the query and the options the user sees, or of the history entry the *)
(* box was set from, unless the request for them was lost.                 *)
(***************************************************************************)
THEOREM PageSettles == Spec => []SettledOnQuery
<1>1. PathInv => SettledOnQuery
      BY BoxSettles DEF PathInv, SettledOnQuery
<1> QED BY <1>1, SpecPathInv, PTL

(***************************************************************************)
(* RequestSafe for any number of handlers and any limits: an answer with   *)
(* exit reason NONE and a limit is complete, although up to three searches *)
(* share the limit; no search_thread serves two requests or leaks; and no  *)
(* more are made than handlers searched at once.                           *)
(***************************************************************************)
THEOREM RequestsAreSafe == Spec => []RequestSafe
<1>1. PathInv => RequestSafe
      BY ServiceSafe DEF PathInv, RequestSafe
<1> QED BY <1>1, SpecPathInv, PTL

(***************************************************************************)
(* TermsWhole for queries of any tokens and any length, typed or built by  *)
(* getNextPageUrl: every word of an accepted query is in one term, and     *)
(* what parentheses enclose is in the term of its parenthesis.             *)
(***************************************************************************)
THEOREM TermsAreWhole == Spec => []TermsWhole
<1>1. PathInv => TermsWhole
      BY ParserWhole DEF PathInv, TermsWhole
<1> QED BY <1>1, SpecPathInv, PTL

(***************************************************************************)
(* NamesFound for any names, any candidates and whatever is read behind    *)
(* the vector: the asserts of the loop hold unless the word at end() is a  *)
(* candidate, results come in order and at most twice, and a matching name *)
(* is missed only when the name before it hides it or that word misleads.  *)
(***************************************************************************)
THEOREM NamesAreFoundUnlessHidden == Spec => []NamesFound
<1>1. PathInv => NamesFound
      BY NamesAreFound DEF PathInv, NamesFound
<1> QED BY <1>1, SpecPathInv, PTL

(***************************************************************************)
(* ReplyExact for any trees, paths, files and answers: the reply has one   *)
(* result for each key, in order; and a result whose key is that of one    *)
(* file has the lines of the contexts of that file's matches, each once    *)
(* with its text, and with bounds exactly where it is a match, however the *)
(* contexts overlap and in whatever order the matches come.                *)
(***************************************************************************)
THEOREM RepliesAreExact == Spec => []ReplyExact
<1>1. PathInv => ReplyExact
      BY MergeInvImplies DEF PathInv, ReplyExact
<1> QED BY <1>1, SpecPathInv, PTL
=============================================================================
