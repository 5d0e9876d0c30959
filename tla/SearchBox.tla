------------------------------ MODULE SearchBox ------------------------------
(***************************************************************************)
(* The search page (web/src/codesearch/codesearch.js): every change of the *)
(* query or of an option fetches rendered results, answers arrive in any   *)
(* order, and urlFetching tells an answer to the latest query from an old  *)
(* one.                                                                    *)
(***************************************************************************)
EXTENDS Naturals, FiniteSets

CONSTANTS
    Query,      \* nonempty query texts
    Empty,      \* the empty query
    Bad,        \* queries the server answers with an error
    Decode,     \* decodeURIComponent of a text that is not encoded any more
    Malformed,  \* ... which it may reject with an error
    MaxFetches  \* bound: fetches made

SearchBoxAssumption ==
    /\ Empty \notin Query /\ Bad \subseteq Query /\ MaxFetches \in Nat
    /\ Malformed \notin Query \cup {Empty} /\ Decode \in [Query -> Query \cup {Malformed}]

VARIABLES
    q, regex,       \* searchOptions
    urlFetching,    \* the url last fetched
    inflight,       \* requests not yet answered: [id, url]
    fetches,        \* requests made so far
    shown,          \* what the page shows: [kind, url]
    lost,           \* urls of requests that failed without an answer
    popped          \* ghost: the query of the history entry that set the box,
                    \* Empty again when the user has changed something since

vars == <<q, regex, urlFetching, inflight, fetches, shown, lost, popped>>

NoUrl == [q |-> Empty, regex |-> FALSE]
Show(kind, url) == [kind |-> kind, url |-> url]

Init ==
    /\ q = Empty /\ regex \in BOOLEAN
    /\ urlFetching = NoUrl /\ inflight = {} /\ fetches = 0
    /\ shown = Show("help", NoUrl) /\ lost = {} /\ popped = Empty

(* doSearch(searchParams), for the query text t and the regex option r.    *)
DoSearch(t, r) ==
    LET url == [q |-> t, regex |-> r] IN
    IF t = Empty
    THEN /\ shown' = Show("help", NoUrl)
         /\ UNCHANGED <<urlFetching, inflight, fetches>>
    ELSE /\ fetches < MaxFetches
         /\ fetches' = fetches + 1
         /\ urlFetching' = url
         /\ inflight' = inflight \cup {[id |-> fetches + 1, url |-> url]}
         /\ UNCHANGED shown

(* updateQuery: an input event of the search box.                          *)
UpdateQuery(t) ==
    /\ q' = t /\ popped' = Empty
    /\ DoSearch(t, regex)
    /\ UNCHANGED <<regex, lost>>

(* toggleControlButton: a click on the regex toggle; the case menu does    *)
(* the same to its option.                                                 *)
ToggleRegex ==
    /\ regex' = ~regex /\ popped' = Empty
    /\ DoSearch(q, ~regex)
    /\ UNCHANGED <<q, lost>>

(* popstate, and the load of a page with a query: initStateFromQueryParams *)
(* decodes the query of the url, which URLSearchParams has decoded, once   *)
(* more for the box, but fetches the url itself.  When that decoding       *)
(* throws, only the address bar has changed.                               *)
PopState(t, r) ==
    LET box == IF t = Empty THEN Empty ELSE Decode[t] IN
    IF box = Malformed
    THEN UNCHANGED vars
    ELSE /\ q' = box /\ regex' = r /\ popped' = t
         /\ DoSearch(t, r)
         /\ UNCHANGED lost

(* An answer with results; it is dropped unless it is for urlFetching.     *)
Results_NoUrlCheck(m) ==
    /\ m \in inflight /\ m.url.q \notin Bad
    /\ inflight' = inflight \ {m}
    /\ shown' = Show("results", m.url)
    /\ UNCHANGED <<q, regex, urlFetching, fetches, lost, popped>>
Results(m) ==
    /\ m \in inflight /\ m.url.q \notin Bad
    /\ inflight' = inflight \ {m}
    /\ shown' = IF m.url = urlFetching THEN Show("results", m.url) ELSE shown
    /\ UNCHANGED <<q, regex, urlFetching, fetches, lost, popped>>

(* An answer that is not ok: .catch shows its text, whatever it is for.    *)
ErrorText(m) ==
    /\ m \in inflight /\ m.url.q \in Bad
    /\ inflight' = inflight \ {m}
    /\ shown' = Show("error", m.url)
    /\ UNCHANGED <<q, regex, urlFetching, fetches, lost, popped>>

(* No answer: .catch gets a TypeError, whose .then does not exist.         *)
NetworkError(m) ==
    /\ m \in inflight
    /\ inflight' = inflight \ {m}
    /\ lost' = lost \cup {m.url}
    /\ UNCHANGED <<q, regex, urlFetching, fetches, shown, popped>>

Next ==
    \/ \E t \in Query \cup {Empty} : UpdateQuery(t)
    \/ ToggleRegex
    \/ \E t \in Query \cup {Empty}, r \in BOOLEAN : PopState(t, r)
    \/ \E m \in inflight : Results(m) \/ ErrorText(m) \/ NetworkError(m)

Spec == Init /\ [][Next]_vars

-----------------------------------------------------------------------------
(* What the user sees asks for url: the query in the box, or the query of  *)
(* the history entry whose decoding the box shows.                         *)
AsksFor(url) ==
    /\ url.regex = regex
    /\ IF popped = Empty THEN url.q = q ELSE url.q = popped /\ Decode[popped] = q

(***************************************************************************)
(* Whatever order the answers arrive in, when the last one is in and the   *)
(* page shows results, they are the results for the query and the options  *)
(* the user sees (unless the request for those failed without an answer).  *)
(* The box may show the text of a history entry decoded once too often:    *)
(* then they are the results for the entry, until the user changes it.     *)
(***************************************************************************)
SettledOnQuery ==
    inflight = {} /\ q # Empty /\ shown.kind = "results"
        => AsksFor(shown.url) \/ \E url \in lost : AsksFor(url)
=============================================================================
