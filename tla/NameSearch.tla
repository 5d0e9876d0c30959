------------------------------ MODULE NameSearch ------------------------------
(***************************************************************************)
(* filename_searcher::operator() (and treename_searcher::operator(), which *)
(* is the same code over tree names).  The names lie one after the other in*)
(* filename_data_, each followed by a NUL; suffix_search() returns the     *)
(* positions at which the query's index key occurs, and the searcher maps  *)
(* every position back to the name it lies in and calls match_filename().  *)
(*                                                                         *)
(* A position that is not the start of a name has the start of the NEXT    *)
(* name as its lower_bound, and end() in the last name; the code looks at  *)
(* lb->first before it steps back, and at end() that is a read past the    *)
(* vector, whose outcome is any integer (Garbage).                         *)
(*                                                                         *)
(* indexes_out holds one position per 500 bytes of names; the few short    *)
(* names here stand for the neighbourhood of the candidates in a large     *)
(* table, so whether the vector was too small is an input (brute).         *)
(***************************************************************************)
EXTENDS Integers, Sequences, FiniteSets, SequencesExt

CONSTANTS
    MaxNames,   \* bound: how many names are indexed
    MaxLen,     \* bound: how long a name is
    Garbage,    \* outcomes of reading lb->first at end()
    Limits      \* values of q.max_matches

NameSearchAssumption ==
    /\ MaxNames \in Nat \ {0} /\ MaxLen \in Nat \ {0}
    /\ Garbage \subseteq Int /\ Limits \subseteq Nat

VARIABLES
    lens,       \* the lengths of the names, in index order
    start,      \* filename_positions_: where each name starts in filename_data_
    indexes,    \* the candidate positions, sorted
    matching,   \* the names the query really matches
    garbage,    \* what lies after filename_positions_
    brute,      \* there were more candidates than indexes_out holds
    max,        \* q.max_matches
    i,          \* loop index: candidates (or names, when brute) already handled
    left_bound, previous_first,
    reported,   \* the names pushed to queue_, in order
    cut,        \* exit_reason_ is set
    done,
    asserted    \* every assert() reached so far held

vars == <<lens, start, indexes, matching, garbage, brute, max, i, left_bound,
          previous_first, reported, cut, done, asserted>>

input == <<lens, start, indexes, matching, garbage, brute, max>>

Name == 1..Len(lens)

(* index_filenames(): offset += path.size() + 1.  end() is index n + 1.    *)
StartsAt(st) ==
    st[1] = 0 /\ \A k \in 2..Len(lens) : st[k] = st[k - 1] + lens[k - 1] + 1

InName(k) == start[k]..(start[k] + lens[k] - 1)
Positions == UNION {InName(k) : k \in Name}
Candidate(k) == \E p \in InName(k) : p \in ToSet(indexes)

(* lsd_radix_sort of the positions.                                        *)
Sorted(ps) ==
    [n \in 1..Cardinality(ps) |->
        CHOOSE p \in ps : Cardinality({q \in ps : q < p}) = n - 1]

(***************************************************************************)
(* Any names; any candidate positions inside names; the query matches only *)
(* names with a candidate, for the index key is a necessary condition.     *)
(***************************************************************************)
Init ==
    /\ \E n \in 1..MaxNames : lens \in [1..n -> 1..MaxLen]
    /\ start \in [Name -> 0..(MaxNames * (MaxLen + 1))] /\ StartsAt(start)
    /\ \E ps \in SUBSET Positions : indexes = Sorted(ps)
    /\ matching \in SUBSET {k \in Name : Candidate(k)}
    /\ garbage \in Garbage
    /\ brute \in BOOLEAN
    /\ max \in Limits
    /\ i = 0 /\ left_bound = 1 /\ previous_first = -1
    /\ reported = <<>> /\ cut = FALSE /\ done = FALSE /\ asserted = TRUE

(***************************************************************************)
(* match_filename(): run the regular expression on the name, push the      *)
(* result and record_match().                                              *)
(***************************************************************************)
MatchName(k) ==
    IF k \in matching
    THEN /\ reported' = Append(reported, k)
         /\ cut' = (max # 0 /\ Len(reported) + 1 >= max)
    ELSE UNCHANGED <<reported, cut>>

LowerBound(from, p) ==
    IF \E k \in from..Len(lens) : start[k] >= p
    THEN CHOOSE k \in from..Len(lens) :
            start[k] >= p /\ \A m \in from..(k - 1) : start[m] < p
    ELSE Len(lens) + 1

First(lb) == IF lb = Len(lens) + 1 THEN garbage ELSE start[lb]

(* More candidates than room for them: try every name.                     *)
BruteForce ==
    /\ ~done /\ brute /\ ~cut /\ i < Len(lens)
    /\ MatchName(i + 1)
    /\ i' = i + 1
    /\ UNCHANGED <<input, left_bound, previous_first, done, asserted>>

Duplicate ==
    /\ ~done /\ ~brute /\ ~cut /\ i < Len(indexes)
    /\ First(LowerBound(left_bound, indexes[i + 1])) = previous_first
    /\ i' = i + 1
    /\ UNCHANGED <<input, left_bound, previous_first, reported, cut, done, asserted>>

Candidates_NoStepBack ==
    LET p  == indexes[i + 1]
        lb == LowerBound(left_bound, p)
    IN  /\ ~done /\ ~brute /\ ~cut /\ i < Len(indexes)
        /\ First(lb) # previous_first
        /\ previous_first' = First(lb)
        /\ asserted' = (asserted /\ lb \in Name /\ p \in InName(lb))
        /\ MatchName(lb)
        /\ left_bound' = lb
        /\ i' = i + 1
        /\ UNCHANGED <<input, done>>
Candidates ==
    LET p  == indexes[i + 1]
        lb == LowerBound(left_bound, p)
        stepBack == First(lb) # p
        hit == IF stepBack THEN lb - 1 ELSE lb
    IN  /\ ~done /\ ~brute /\ ~cut /\ i < Len(indexes)
        /\ First(lb) # previous_first
        /\ previous_first' = First(lb)
        /\ asserted' = (asserted /\ (stepBack => lb # left_bound)
                                 /\ hit \in Name /\ p \in InName(hit))
        /\ MatchName(hit)
        /\ left_bound' = hit
        /\ i' = i + 1
        /\ UNCHANGED <<input, done>>

(* exit_early() finds the deadline passed.                                 *)
Expire ==
    /\ ~done /\ ~cut
    /\ i < IF brute THEN Len(lens) ELSE Len(indexes)
    /\ cut' = TRUE
    /\ UNCHANGED <<input, i, left_bound, previous_first, reported, done, asserted>>

(* The loop ends, or exit_early() has seen the limit or the deadline.      *)
Stop ==
    /\ ~done
    /\ cut \/ i = IF brute THEN Len(lens) ELSE Len(indexes)
    /\ done' = TRUE
    /\ UNCHANGED <<input, i, left_bound, previous_first, reported, cut, asserted>>

Next == BruteForce \/ Duplicate \/ Candidates \/ Expire \/ Stop

Spec == Init /\ [][Next]_vars

-----------------------------------------------------------------------------
(***************************************************************************)
(* The comment at codesearch.cc:530 says a candidate is skipped because    *)
(* "We have already returned this filename because of a match earlier in   *)
(* its text"; the name skipped may be another one, and never reported.     *)
(* What the loop does guarantee: a name is missed only if nothing makes    *)
(* the loop look at it: a candidate at its very start does, unless the     *)
(* name before it had a candidate after its start (whose lower_bound is    *)
(* this name); a candidate after its start does, unless it is the last     *)
(* name and the word past the vector happens to equal previous_first.      *)
(***************************************************************************)
Shadowed(k) ==
    k > 1 /\ \E p \in ToSet(indexes) : p \in InName(k - 1) /\ p > start[k - 1]

MissedOnlyInShadow ==
    done /\ ~cut /\ asserted =>
        \A k \in matching \ ToSet(reported) :
            /\ ~brute
            /\ start[k] \in ToSet(indexes) => Shadowed(k)
            /\ \/ InName(k) \cap ToSet(indexes) = {start[k]}
               \/ k = Len(lens) /\ garbage \in {-1} \cup {start[m] : m \in Name}

(***************************************************************************)
(* The loop's asserts hold for every input: the iterator is never moved    *)
(* before left_bound and the name found is the one the position lies in,   *)
(* unless the word read at end() happens to be that very position.         *)
(***************************************************************************)
AssertsHold == garbage \notin ToSet(indexes) => asserted

(***************************************************************************)
(* Results come out in index order, only for names that match, and no name *)
(* more than twice: once for a candidate at its start and once for the     *)
(* first one after it.                                                     *)
(***************************************************************************)
InOrderAtMostTwice ==
    /\ \A a, b \in DOMAIN reported : a < b => reported[a] <= reported[b]
    /\ \A a \in DOMAIN reported :
        /\ reported[a] \in matching
        /\ a + 2 \in DOMAIN reported => reported[a + 2] # reported[a]
=============================================================================
