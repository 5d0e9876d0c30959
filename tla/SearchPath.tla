----------------------------- MODULE SearchPath -----------------------------
(***************************************************************************)
(* The parts a search passes through, checked in one run: the search box   *)
(* of the page, the parser of the query, the gRPC service, the searchers   *)
(* of file and tag names, and the handler that merges the backend's        *)
(* answer. The parts do not share state: an initial state picks the one    *)
(* that runs.                                                              *)
(***************************************************************************)
EXTENDS Integers, Sequences

CONSTANTS
  Query, Empty, Bad, Decode, Malformed, MaxFetches, Tokens, MaxTokens, Default,
  Handler, Corpus, Exact, Prefix, HasTags, RequestLimit, FlagMaxMatches, MaxRequests,
  MaxNames, MaxLen, Garbage, Limits, Trees, Paths, FileLines, Context,
  MaxResults

VARIABLES
  part,   \* the part that runs
  q, regex, urlFetching, inflight, fetches, shown, lost, popped,
  query, globalRegex, parser_i, ops, key, term, inRegex, justGotSpace, at,
  p, operators, res, prev, parser_pc,
  hpc, limit, lines, why, status, asked, borrowed, pool, created, peak,
  requests,
  lens, start, indexes, matching, garbage, brute, max, names_i, left_bound,
  previous_first, reported, cut, done, asserted,
  up, answers, search, backendIdxUsed, files, ranged, reply, merge_pc

Box == INSTANCE SearchBox
Parser == INSTANCE ParseQuery WITH i <- parser_i, pc <- parser_pc
Service == INSTANCE SearchRequest
Names == INSTANCE NameSearch WITH i <- names_i
Merge == INSTANCE SearchV2 WITH pc <- merge_pc

ASSUME Assumptions == Box!SearchBoxAssumption /\ Parser!DefaultAssumption /\ Service!SearchRequestAssumption
                    /\ Names!NameSearchAssumption /\ Merge!SearchV2Assumption

boxVars == <<q, regex, urlFetching, inflight, fetches, shown, lost, popped>>
parserVars == <<query, globalRegex, parser_i, ops, key, term, inRegex,
                justGotSpace, at, p, operators, res, prev, parser_pc>>
serviceVars == <<hpc, limit, lines, why, status, asked, borrowed, pool,
                 created, peak, requests>>
namesVars == <<lens, start, indexes, matching, garbage, brute, max, names_i,
               left_bound, previous_first, reported, cut, done, asserted>>
mergeVars == <<up, answers, search, backendIdxUsed, files, ranged, reply, merge_pc>>
all == <<part, boxVars, parserVars, serviceVars, namesVars, mergeVars>>

\* the parts that do not run keep still
off == "off"
OffBox == q = off /\ regex = off /\ urlFetching = off /\ inflight = off /\
          fetches = off /\ shown = off /\ lost = off /\ popped = off
OffParser == query = off /\ globalRegex = off /\ parser_i = off /\ ops = off
             /\ key = off /\ term = off /\ inRegex = off /\
             justGotSpace = off /\ at = off /\ p = off /\ operators = off /\
             res = off /\ prev = off /\ parser_pc = off
OffService == hpc = off /\ limit = off /\ lines = off /\ why = off /\
              status = off /\ asked = off /\ borrowed = off /\ pool = off /\
              created = off /\ peak = off /\ requests = off
OffNames == lens = off /\ start = off /\ indexes = off /\ matching = off /\
            garbage = off /\ brute = off /\ max = off /\ names_i = off /\
            left_bound = off /\ previous_first = off /\ reported = off /\
            cut = off /\ done = off /\ asserted = off
OffMerge == up = off /\ answers = off /\ search = off /\
            backendIdxUsed = off /\ files = off /\ ranged = off /\
            reply = off /\ merge_pc = off

Init ==
  \/ part = "Box" /\ Box!Init /\ OffParser /\ OffService /\ OffNames /\ OffMerge
  \/ part = "Parser" /\ Parser!Init /\ OffBox /\ OffService /\ OffNames /\ OffMerge
  \/ part = "Service" /\ Service!Init /\ OffBox /\ OffParser /\ OffNames /\ OffMerge
  \/ part = "Names" /\ Names!Init /\ OffBox /\ OffParser /\ OffService /\ OffMerge
  \/ part = "Merge" /\ Merge!Init /\ OffBox /\ OffParser /\ OffService /\ OffNames

BoxStep(A) ==
  /\ part = "Box" /\ A
  /\ UNCHANGED <<part, parserVars, serviceVars, namesVars, mergeVars>>
ParserStep(A) ==
  /\ part = "Parser" /\ A
  /\ UNCHANGED <<part, boxVars, serviceVars, namesVars, mergeVars>>
ServiceStep(A) ==
  /\ part = "Service" /\ A
  /\ UNCHANGED <<part, boxVars, parserVars, namesVars, mergeVars>>
NamesStep(A) ==
  /\ part = "Names" /\ A
  /\ UNCHANGED <<part, boxVars, parserVars, serviceVars, mergeVars>>
MergeStep(A) ==
  /\ part = "Merge" /\ A
  /\ UNCHANGED <<part, boxVars, parserVars, serviceVars, namesVars>>

Next ==
  \/ BoxStep(Box!Next)
  \/ ParserStep(Parser!Next)
  \/ ServiceStep(Service!Next)
  \/ NamesStep(Names!Next)
  \/ MergeStep(Merge!Next)

Spec == Init /\ [][Next]_all

-----------------------------------------------------------------------------
\* SearchBox.SettledOnQuery: the page settles on the answer to the query in the
\* box, or in the history entry the box was set from.
SettledOnQuery == part = "Box" => Box!SettledOnQuery

\* ParseQuery.TermsWhole: every token of a query is in its term or its operator.
TermsWhole == part = "Parser" => Parser!TermsWhole

\* ParseQuery.LinkWidens: the link to more matches is the same query with a
\* higher limit.
LinkWidens == part = "Parser" => Parser!LinkWidens

\* SearchRequest: what an answer without exit reason contains, and no search
\* thread of the pool is lost or used twice.
RequestSafe ==
  part = "Service" =>
    Service!NoneMeansComplete /\ Service!PoolDiscipline /\ Service!NoThreadLeaks

\* NameSearch: names are found, in order, and the asserts hold.
NamesFound ==
  part = "Names" =>
    Names!MissedOnlyInShadow /\ Names!AssertsHold /\ Names!InOrderAtMostTwice

\* SearchV2.ReplyExact: the reply has the lines and bounds of the answer.
ReplyExact == part = "Merge" => Merge!ReplyExact
=============================================================================
