------------------------------ MODULE MCBTree ------------------------------
EXTENDS BTree

\* Leaves of given lengths holding 2, 4, 6 ..., so that there is room between
\* any two keys.
RECURSIVE RunsOf(_, _)
RunsOf(lens, used) ==
  IF lens = <<>> THEN <<>>
  ELSE << [i \in 1 .. Head(lens) |-> 2 * (used + i)] >>
         \o RunsOf(Tail(lens), used + Head(lens))

MCRuns == { << <<>> >>,
            RunsOf(<<5>>, 0), RunsOf(<<3, 5, 3>>, 0), RunsOf(<<3, 5, 3, 5, 3, 3>>, 0),
            RunsOf(<<3, 3, 3, 3, 3, 3, 3, 3>>, 0) }
MCThinRuns == { RunsOf(<<3, 3, 3, 3, 3, 3, 3, 3>>, 0) }
MCKeys == 1 .. 49
MCCallKeys == {2, 3, 24, 25, 26, 48}

KeyRange(from, to, lower, upper) ==
  [from |-> from, to |-> to, excludeLower |-> lower, excludeUpper |-> upper]
Query(ranges, reverse, limit, skip) ==
  [ranges |-> ranges, reverse |-> reverse, limit |-> limit, skip |-> skip]

\* Whole, half open and bounded ranges, ends on and between stored keys, several
\* ranges, each with and without limit, skip and reverse.
Queries == {
  Query(<<>>, FALSE, 100, 2), Query(<<>>, TRUE, 3, 1),
  Query(<<KeyRange(unbound, 24, FALSE, TRUE)>>, FALSE, 4, 3),
  Query(<<KeyRange(24, unbound, TRUE, FALSE)>>, TRUE, 100, 0),
  Query(<<KeyRange(3, 26, TRUE, FALSE)>>, FALSE, 100, 0),
  Query(<<KeyRange(3, 26, TRUE, FALSE)>>, TRUE, 4, 2),
  Query(<<KeyRange(24, 24, FALSE, FALSE)>>, FALSE, 100, 0),
  Query(<<KeyRange(2, 3, FALSE, FALSE), KeyRange(20, 25, FALSE, TRUE)>>, FALSE, 5, 1),
  Query(<<KeyRange(5, 5, FALSE, FALSE), KeyRange(24, unbound, TRUE, FALSE)>>, TRUE, 100, 1)}

\* getRange() returns the rows of the ranges in order, whatever leaves they are
\* spread over and wherever the limit and the skip count fall: neither the two
\* strikes that end the walk nor the limit end it early.
RangesAgree == \A query \in Queries : GetRange(query) = Answer(query)
=============================================================================
