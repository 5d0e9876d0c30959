------------------------------ MODULE LineBounds ------------------------------
(***************************************************************************)
(* searcher::try_match and find_matches_in_line: the bounds and the number *)
(* of the matches in a line, starting from the first match, which          *)
(* full_search has found.  Two try_match calls for one line (two files     *)
(* that contain it) share re2_match_cache_.                                *)
(*                                                                         *)
(* A line is the sequence of the byte widths of its characters.  The       *)
(* regular expression is abstracted to len: len[c] is the length in        *)
(* characters of its match starting before character c + 1, -1 for none.   *)
(***************************************************************************)
EXTENDS Integers, Sequences, FiniteSets, SequencesExt

CONSTANTS
    MaxChars,   \* bound: characters in the line
    Widths,     \* byte widths of a character in UTF-8
    MatchLens,  \* lengths a match may have
    MaxCalls    \* bound: files that contain the line

LineBoundsAssumption ==
    /\ MaxChars \in Nat /\ MaxCalls \in Nat
    /\ Widths \subseteq 1..4 /\ MatchLens \subseteq Nat

VARIABLES
    width, len,         \* the line and the regular expression
    calls,              \* try_match calls for this line so far
    startPos, bounds, num,  \* locals of find_matches_in_line
    cut,                \* limiter_.exit_early() has returned true
    pc,
    cache,              \* re2_match_cache_[line]: <<>> or <<its entry>>
    results             \* what each try_match posted: [bounds, num, cut]

vars == <<width, len, calls, startPos, bounds, num, cut, pc, cache, results>>

Chars == 0..Len(width)

(* The byte offset of the character after the first c: how many bytes the  *)
(* first c characters have.                                                *)
BytesOf(c) == UNION {{k} \X (1..width[k]) : k \in 1..c}
Off(c) == Cardinality(BytesOf(c))
LineLen == Off(Len(width))

Bound(l, r) == [left |-> l, right |-> r]

(* line_pat->Match(line, pos, line_len): the leftmost match at or after pos.*)
MatchesFrom(pos) == {c \in Chars : len[c] # -1 /\ Off(c) >= pos}
Leftmost(cs) == CHOOSE c \in cs : \A d \in cs : c <= d

(* The search stands before an empty match and will find it again: its end *)
(* is where it began.                                                      *)
AtEmptyMatch ==
    /\ startPos < LineLen /\ MatchesFrom(startPos) # {}
    /\ LET c == Leftmost(MatchesFrom(startPos)) IN Off(c) = startPos /\ len[c] = 0

(* Bound: no line has more nonempty matches; a search that does not end    *)
(* stops counting here.                                                    *)
MaxNum == MaxChars + 1

Init ==
    /\ \E n \in 1..MaxChars :
        /\ width \in [1..n -> Widths]
        /\ len \in [0..n -> MatchLens \cup {-1}]
    /\ \A c \in Chars : c + len[c] <= Len(width)
    /\ MatchesFrom(0) # {}
    /\ calls = 0 /\ startPos = 0 /\ bounds = <<>> /\ num = 0
    /\ cut = FALSE /\ pc = "idle" /\ cache = <<>> /\ results = <<>>

(***************************************************************************)
(* try_match: first_bound counts characters (utf8::distance); its right    *)
(* end is passed on as startPos, which counts bytes.                       *)
(***************************************************************************)
TryMatch ==
    LET c == Leftmost(MatchesFrom(0))
        first == Bound(c, c + len[c])
    IN  /\ pc = "idle" /\ calls < MaxCalls /\ ~cut
        /\ calls' = calls + 1
        /\ IF cache # <<>>
           THEN /\ bounds' = cache[1].bounds /\ num' = cache[1].num
                /\ pc' = "post"
                /\ UNCHANGED startPos
           ELSE /\ bounds' = <<first>> /\ num' = 1
                /\ startPos' = first.right
                /\ pc' = "find"
        /\ UNCHANGED <<width, len, cut, cache, results>>

(* The loop body; a match that touches the bound before it extends that.   *)
FindNext_NoMerge ==
    /\ pc = "find" /\ ~cut /\ startPos < LineLen /\ MatchesFrom(startPos) # {}
    /\ num < MaxNum
    /\ LET c == Leftmost(MatchesFrom(startPos))
           b == Bound(Off(c), Off(c + len[c]))
       IN  /\ bounds' = Append(bounds, b)
           /\ startPos' = b.right
    /\ num' = num + 1
    /\ UNCHANGED <<width, len, calls, cut, pc, cache, results>>
FindNext ==
    /\ pc = "find" /\ ~cut /\ startPos < LineLen /\ MatchesFrom(startPos) # {}
    /\ num < MaxNum
    /\ LET c == Leftmost(MatchesFrom(startPos))
           b == Bound(Off(c), Off(c + len[c]))
       IN  /\ bounds' = IF Last(bounds).right = b.left
                        THEN [bounds EXCEPT ![Len(bounds)].right = b.right]
                        ELSE Append(bounds, b)
           /\ startPos' = b.right
    /\ num' = num + 1
    /\ UNCHANGED <<width, len, calls, cut, pc, cache, results>>

(* limiter_.exit_early() returns true.                                     *)
ExitEarly ==
    /\ pc = "find" /\ ~cut
    /\ cut' = TRUE
    /\ UNCHANGED <<width, len, calls, startPos, bounds, num, pc, cache, results>>

FillCache ==
    /\ pc = "find"
    /\ cut \/ startPos >= LineLen \/ MatchesFrom(startPos) = {}
    /\ cache' = <<[bounds |-> bounds, num |-> num]>>
    /\ pc' = "post"
    /\ UNCHANGED <<width, len, calls, startPos, bounds, num, cut, results>>

Post ==
    /\ pc = "post"
    /\ results' = Append(results, [bounds |-> bounds, num |-> num, cut |-> cut])
    /\ pc' = "idle"
    /\ UNCHANGED <<width, len, calls, startPos, bounds, num, cut, cache>>

Next == TryMatch \/ FindNext \/ ExitEarly \/ FillCache \/ Post

Spec == Init /\ [][Next]_vars

(* The thread that runs try_match keeps running; ExitEarly may never come. *)
FairSpec == Spec /\ WF_vars(TryMatch \/ FindNext \/ FillCache \/ Post)

-----------------------------------------------------------------------------
(***************************************************************************)
(* The reference: the matches of the line, each starting at or after the   *)
(* end of the one before it, as sets of character positions.               *)
(***************************************************************************)
IsMatchSet(S) ==
    /\ Leftmost(MatchesFrom(0)) \in S
    /\ \A c \in S : len[c] # -1
    /\ \A c \in S : LET after == {d \in S : d > c}
                        rest  == {d \in Chars : len[d] # -1 /\ d >= c + len[c] /\ d > c}
                        next  == Leftmost(rest)
                    IN  IF rest = {} THEN after = {}
                        ELSE after # {} /\ Leftmost(after) = next
AllMatches == CHOOSE S \in SUBSET Chars : IsMatchSet(S)
Covered == UNION {c..(c + len[c] - 1) : c \in AllMatches}

(***************************************************************************)
(* try_match reports every match of the line, and for the second file from *)
(* the cache: the number is right, and the bounds are disjoint, ordered,   *)
(* do not touch and cover exactly the characters that belong to a match.   *)
(* The comment at codesearch.cc:305 promises this of any line ("find all   *)
(* matches and return their bounds"), but startPos begins as a number of   *)
(* characters and the later bounds are in bytes: the number needs one-byte *)
(* characters up to the end of the first match, the bounds all along.      *)
(* Only lines where the expression has no empty match are compared.        *)
(***************************************************************************)
OneByteTo(c) == Off(c) = c
NoEmptyMatch == \A c \in Chars : len[c] # 0

BoundsExact ==
    NoEmptyMatch => \A i \in DOMAIN results : ~results[i].cut =>
        LET r == results[i]
            first == Leftmost(MatchesFrom(0))
        IN
        /\ OneByteTo(first + len[first]) => r.num = Cardinality(AllMatches)
        /\ OneByteTo(Len(width)) =>
            /\ \A j \in DOMAIN r.bounds :
                j > 1 => r.bounds[j - 1].right < r.bounds[j].left
            /\ UNION {r.bounds[j].left..(r.bounds[j].right - 1) : j \in DOMAIN r.bounds}
                 = Covered

(***************************************************************************)
(* find_matches_in_line returns and the search goes on with the next line, *)
(* unless it comes to an empty match before the end of the line: there     *)
(* startPos = mb.matchright does not move, and only the limiter, whose     *)
(* deadline may be far away, ends the loop.                                *)
(***************************************************************************)
EveryCallPosts == (pc = "find") ~> (pc = "post" \/ AtEmptyMatch)
=============================================================================
