----------------------------- MODULE MCCommands -----------------------------
EXTENDS Commands

\* a repository that the organization lists too, an organization of three
\* pages and a user of two
MCListing == << <<<<2>>>>, <<<<4, 3>>, <<2>>, <<6>>>>, <<<<5>>, <<1>>>> >>

\* Two include queries and one of either exclusion.  The answers hold the
\* same line in two versions of a file, a line of another file in the same
\* tree and one in another tree, in orders that are not sorted.
R(t, v, p) == [tree |-> t, version |-> v, path |-> p, line |-> 1]
Answers == {<<>>, <<R(1, 1, 1)>>, <<R(1, 1, 1), R(1, 2, 1)>>, <<R(1, 2, 2), R(1, 1, 1)>>,
            <<R(2, 1, 1), R(1, 2, 1)>>, <<R(1, 2, 2), R(2, 1, 1)>>}
File(aware) == [tree |-> 1, version |-> IF aware THEN 2 ELSE "", path |-> 1]
Q(op, reply) == [op |-> op, json |-> TRUE, reply |-> reply]
NotJson == [op |-> "include", json |-> FALSE, reply |-> <<>>]
MCCompositions ==
  {[queries |-> <<NotJson, Q("", a), NotJson>>, excludeFiles |-> {}, aware |-> FALSE] :
      a \in Answers}
  \cup
  {[queries |-> <<Q("", a), Q("include", b), Q(op, c)>>,
    excludeFiles |-> {File(aware) : x \in ex}, aware |-> aware] :
      op \in {"exclude_by_file", "exclude_by_repo"},
      a \in Answers, b \in Answers, c \in {<<>>, <<R(1, 2, 1)>>, <<R(1, 1, 1), R(2, 1, 1)>>},
      ex \in {{}, {1}}, aware \in BOOLEAN}
=============================================================================
