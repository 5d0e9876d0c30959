------------------------------ MODULE ParseQuery ------------------------------
(***************************************************************************)
(* The query language of the search box: ParseQuery of server/query.go,    *)
(* the checks the search handlers make on its result, and the "show more"  *)
(* link, getNextPageUrl, whose query is parsed again when it is followed.  *)
(*                                                                         *)
(* A query is a sequence of tokens: an operator with its colon, a space, a *)
(* parenthesis, an escaped character, a number, a word.                    *)
(***************************************************************************)
EXTENDS Integers, Sequences, FiniteSets, TLC

CONSTANTS
  Tokens,       \* the tokens of the queries
  MaxTokens,    \* bound: length of a query
  Default       \* config.DefaultMaxMatches

DefaultAssumption == Default \in Nat \ {0}

VARIABLES
  query, globalRegex,
  i,             \* tokens of the query consumed
  ops, key, term, inRegex, justGotSpace,   \* locals of ParseQuery; terms are token positions
  at,            \* where the rest q of the query starts: at a token pieceRE may
                 \* match with ^, in the word that starts there, or past it
  p,             \* depth of the parenthesis being consumed, 0 outside
  operators,     \* ghost: positions consumed as operators
  res,           \* the result, when done
  prev,          \* ghost: the query whose link was followed, its parse and result
  pc

vars == <<query, globalRegex, i, ops, key, term, inRegex, justGotSpace, at, p,
          operators, res, prev, pc>>

sp == " "      \* a space
bare == ""     \* the key of the text outside all operators

knownTags == {"file:", "path:", "repo:", "case:", "lit:", "max_matches:"}
Operators == knownTags \cup {"http:"}
Upper == {"W"}
Numbers == {"0", "1", "3", "9", "27"}
Words == {"w", "W"} \cup Numbers
Escaped == {"\\("}

Value(s) == CHOOSE n \in 0 .. 27 : ToString(n) = s

None == [err |-> TRUE]

Start(q) ==
  /\ query = q
  /\ i = 0 /\ ops = <<>> /\ key = bare /\ term = <<>>
  /\ inRegex = globalRegex /\ justGotSpace = TRUE /\ at = "start" /\ p = 0
  /\ operators = {} /\ res = None /\ pc = "parse"

\* strings.TrimSpace(query)
Trimmed(q) == q # <<>> => q[1] # sp /\ q[Len(q)] # sp

Queries == {q \in UNION {[1 .. n -> Tokens] : n \in 1 .. MaxTokens} : Trimmed(q)}

Init ==
  /\ globalRegex \in BOOLEAN
  /\ \E q \in Queries : Start(q)
  /\ prev = None

-----------------------------------------------------------------------------
(* the loop of ParseQuery, one token at a time *)

tok == query[i + 1]

Fail == pc' = "failed" /\ res' = None

Keep == term' = Append(term, i + 1)

Locals == <<ops, key, inRegex>>

\* the text before the next match of pieceRE
IsPiece == \/ tok \in {sp, "("} \cup Escaped
           \/ tok \in Operators /\ at # "mid"

Text ==
  /\ ~IsPiece
  /\ Keep
  /\ at' = IF at # "mid" /\ tok \in Words THEN "word" ELSE "mid"
  /\ justGotSpace' = FALSE
  /\ UNCHANGED <<Locals, p, operators, res, pc>>

WithTerm(k) == [o \in DOMAIN ops \cup {k} |-> IF o = k THEN term ELSE ops[o]]

\* "got term twice"
SetTerm(k) ==
  IF k \in DOMAIN ops THEN Fail /\ UNCHANGED ops
  ELSE ops' = WithTerm(k) /\ UNCHANGED <<res, pc>>

Space ==
  /\ tok = sp
  /\ IF key = bare THEN Keep /\ UNCHANGED <<Locals, res, pc>>
     ELSE /\ SetTerm(key)
          /\ key' = bare
          /\ term' = <<>>
          /\ inRegex' = globalRegex
  /\ at' = "start"
  /\ justGotSpace' = TRUE
  /\ UNCHANGED <<p, operators>>

\* Parentheses are never consumed as a group.
GroupStarts_Never == FALSE

GroupStarts == inRegex \/ justGotSpace

Open ==
  /\ tok = "("
  /\ Keep
  /\ p' = IF GroupStarts THEN 1 ELSE 0
  /\ at' = "start"
  /\ justGotSpace' = FALSE
  /\ UNCHANGED <<Locals, operators, res, pc>>

Escape ==
  /\ tok \in Escaped
  /\ Keep
  /\ at' = "start"
  /\ justGotSpace' = FALSE
  /\ UNCHANGED <<Locals, p, operators, res, pc>>

Blank(t) == \A k \in 1 .. Len(t) : query[t[k]] = sp

\* with a word before it, the key is that longer word, and unknown
Operator ==
  /\ tok \in Operators
  /\ at # "mid"
  /\ IF key = bare /\ at = "start" /\ tok \in knownTags
     THEN /\ key' = tok
          /\ term' = <<>>
          /\ operators' = operators \cup {i + 1}
          /\ IF Blank(term) THEN UNCHANGED <<ops, res, pc>> ELSE SetTerm(bare)
     ELSE Keep /\ UNCHANGED <<ops, key, operators, res, pc>>
  /\ inRegex' = (inRegex /\ key' # "lit:")
  /\ at' = "start"
  /\ justGotSpace' = FALSE
  /\ UNCHANGED p

\* the loop that consumes "until the end of a balanced set"
InGroup ==
  /\ p > 0
  /\ Keep
  /\ p' = p + (IF tok = "(" THEN 1 ELSE IF tok = ")" THEN -1 ELSE 0)
  /\ UNCHANGED <<Locals, justGotSpace, at, operators, res, pc>>

Consume ==
  /\ pc = "parse"
  /\ i < Len(query)
  /\ i' = i + 1
  /\ InGroup \/ (p = 0 /\ (Text \/ Space \/ Open \/ Escape \/ Operator))
  /\ UNCHANGED <<query, globalRegex, prev>>

\* no more matches of pieceRE: the last term
LastTerm ==
  /\ pc = "parse"
  /\ i = Len(query)
  /\ IF key \in DOMAIN ops THEN Fail /\ UNCHANGED ops
     ELSE ops' = WithTerm(key) /\ pc' = "build" /\ UNCHANGED res
  /\ UNCHANGED <<query, globalRegex, i, key, term, inRegex, justGotSpace, at, p, operators, prev>>

-----------------------------------------------------------------------------
(* the pb.Query *)

Op(k) == IF k \in DOMAIN ops THEN ops[k] ELSE <<>>

Tokenised(t) == [k \in 1 .. Len(t) |-> query[t[k]]]

Bits == {k \in {bare, "case:", "lit:"} : ~Blank(Op(k))}

\* onlyOneSynonym, more than one of case:, lit: and a bare regex, a limit that
\* is no number; and, in the handlers, nothing to match
BadQuery ==
  \/ Op("file:") # <<>> /\ Op("path:") # <<>>
  \/ Cardinality(Bits) > 1
  \/ Op("max_matches:") # <<>> /\ ~(Len(Op("max_matches:")) = 1 /\ query[Op("max_matches:")[1]] \in Numbers)
  \/ Bits = {} /\ Op("file:") = <<>> /\ Op("path:") = <<>> /\ Op("repo:") = <<>>

File == Tokenised(IF Op("file:") # <<>> THEN Op("file:") ELSE Op("path:"))
Repo == Tokenised(Op("repo:"))

\* a query for a file or a repository alone searches names
Line == IF Bits # {} THEN Tokenised(Op(CHOOSE k \in Bits : TRUE))
        ELSE IF File # <<>> THEN File ELSE Repo

MaxMatches ==
  LET n == IF Op("max_matches:") = <<>> THEN 0 ELSE Value(query[Op("max_matches:")[1]])
  IN  IF n = 0 THEN Default ELSE n   \* ServeAPISearch, ServerSideAPISearchV2

Words_(t) == SelectSeq(t, LAMBDA s : s # sp)

Build ==
  /\ pc = "build"
  /\ IF BadQuery THEN Fail
     ELSE /\ pc' = "done"
          /\ res' = [err |-> FALSE,
                     line |-> Words_(Line),
                     file |-> IF Bits = {} THEN <<>> ELSE File,
                     repo |-> IF Bits = {} /\ File = <<>> THEN <<>> ELSE Repo,
                     filenameOnly |-> Bits = {} /\ File # <<>>,
                     treenameOnly |-> Bits = {} /\ File = <<>>,
                     foldCase |-> /\ {"case:", "lit:"} \cap DOMAIN ops = {}
                                  /\ \A k \in 1 .. Len(Line) : Line[k] \notin Upper,
                     maxMatches |-> MaxMatches]
  /\ UNCHANGED <<query, globalRegex, i, ops, key, term, inRegex, justGotSpace, at, p, operators, prev>>

-----------------------------------------------------------------------------
(* getNextPageUrl *)

Limit == <<sp, "max_matches:">>

Occurs(q, s) == {k \in 1 .. Len(q) : k + Len(s) - 1 <= Len(q) /\ SubSeq(q, k, k + Len(s) - 1) = s}

First(S) == CHOOSE k \in S : \A l \in S : k <= l

NextMaxMatches == ToString(res.maxMatches * 3)

\* The limit is appended without the space that makes it an operator.
NextQuery_NoSpace ==
  IF Occurs(query, Limit) = {} THEN query \o Tail(Limit) \o <<NextMaxMatches>>
  ELSE query

NextQuery ==
  IF Occurs(query, Limit) = {} THEN query \o Limit \o <<NextMaxMatches>>
  ELSE LET old == Occurs(query, Limit \o <<ToString(res.maxMatches)>>)
       IN  IF old = {} THEN query
           ELSE [query EXCEPT ![First(old) + 2] = NextMaxMatches]

\* the reply had another exit reason than NONE and the user wants more
FollowLink ==
  /\ pc = "done"
  /\ prev = None
  /\ prev' = [query |-> query, operators |-> operators, open |-> p > 0, res |-> res]
  /\ query' = NextQuery
  /\ i' = 0 /\ ops' = <<>> /\ key' = bare /\ term' = <<>>
  /\ inRegex' = globalRegex /\ justGotSpace' = TRUE /\ at' = "start" /\ p' = 0
  /\ operators' = {} /\ res' = None /\ pc' = "parse"
  /\ UNCHANGED globalRegex

Next == Consume \/ LastTerm \/ Build \/ FollowLink

Spec == Init /\ [][Next]_vars

-----------------------------------------------------------------------------
Count(t, j, k) == Cardinality({l \in j .. k : query[l] = t})

Depth(j, k) == Count("(", j, k) - Count(")", j, k)

\* positions j .. k lie in parentheses that j opens
Enclosed(j, k) == query[j] = "(" /\ \A l \in j .. k - 1 : Depth(j, l) > 0

TermsOf(k) == {o \in DOMAIN ops : \E l \in 1 .. Len(ops[o]) : ops[o][l] = k}

\* Every word of an accepted query is in exactly one term, and what
\* parentheses enclose is in one term with them, operators and spaces
\* included ("Escape one of the above terms by wrapping it in parentheses",
\* with regex enabled and outside lit:).
TermsWhole ==
  pc = "done" =>
    /\ \A k \in 1 .. Len(query) \ operators :
         query[k] # sp => Cardinality(TermsOf(k)) = 1
    /\ (globalRegex /\ \A k \in 1 .. Len(query) : query[k] # "lit:") =>
         \A j \in 1 .. Len(query) : \A k \in j .. Len(query) :
           Enclosed(j, k) => k \notin operators /\ TermsOf(k) = TermsOf(j)

\* the link's query is accepted and differs in its limit only, which is thrice
\* that of the query it widens
Widened ==
  /\ ~res.err
  /\ res.maxMatches = 3 * prev.res.maxMatches
  /\ [res EXCEPT !.maxMatches = 0] = [prev.res EXCEPT !.maxMatches = 0]

\* the limit of prev.query can be replaced, or one can be appended, where
\* ParseQuery reads it as the limit
LimitInReach ==
  LET value == Limit \o <<ToString(prev.res.maxMatches)>>
  IN  IF Occurs(prev.query, Limit) = {}
      THEN ~prev.open /\ \A k \in prev.operators : prev.query[k] # "max_matches:"
      ELSE /\ Occurs(prev.query, value) # {}
           /\ First(Occurs(prev.query, value)) + 1 \in prev.operators

\* Following the link widens the search and changes nothing else, exactly when
\* the query it was made from has no limit and no parenthesis left open, or a
\* positive limit after a space that is the first text of its kind, escaped
\* ones included (getNextPageUrl, and ParseQuery of its result).
LinkWidens ==
  (prev # None /\ pc \in {"done", "failed"}) => (Widened <=> LimitInReach)

\* "we provide users a 'show more' link that just multiples the current
\* max_matches value by 3": for every query.
LinkAlwaysWidens == (prev # None /\ pc \in {"done", "failed"}) => Widened
=============================================================================
