------------------------------- MODULE BTree -------------------------------
(***************************************************************************)
(* The in-memory B+ tree behind every index (index/btree.ts) over a single *)
(* ascending key.  Nodes live in a heap and point at each other as the     *)
(* objects of the code do, so that a parent, a child or a sibling link can *)
(* go wrong; after each call the heap is renumbered level by level, from   *)
(* the root at 1, and nodes no longer reachable are dropped, because no    *)
(* caller can see them.  Positions count from 1 (the code's from 0), a row *)
(* list is the set of its row ids, which binaryInsert keeps in order.      *)
(***************************************************************************)
EXTENDS Integers, Sequences, FiniteSets

LOCAL INSTANCE SequencesExt

CONSTANTS
  MAX_COUNT,    \* the order of the tree, 512 in the code
  Keys,         \* every key that may be stored, 1 to some number
  RowIds,       \* row ids
  CallKeys,     \* the keys the calls are made with
  InitialRuns,  \* the leaves of the trees to start from: sequences of key runs
  MaxCalls      \* bound on the number of calls

ASSUME OrderAssumption == MAX_COUNT \in Nat /\ MAX_COUNT >= 4
ASSUME KeysAssumption  == Keys = 1 .. Cardinality(Keys) /\ CallKeys \subseteq Keys
ASSUME RowsAssumption  == RowIds \subseteq Nat \ {0}

VARIABLES
  nodes,      \* the heap, the root first
  unique,     \* uniqueKeyOnly
  totalRows,  \* stats().totalRows
  call,       \* the last call made: what was called, the key, the row id or AnyRow
  refused,    \* it threw
  calls       \* the number of calls made, up to MaxCalls

vars == <<nodes, unique, totalRows, call, refused, calls>>

null  == 0
stale == -1  \* a link to a node that left the tree
AnyRow == 0  \* remove() without a row id

MAX_KEY_LEN == MAX_COUNT - 1
MIN_KEY_LEN == MAX_COUNT \div 2

-----------------------------------------------------------------------------
\* Sequences and nodes.

Take(s, n) == SubSeq(s, 1, n)
Drop(s, n) == SubSeq(s, n + 1, Len(s))
Splice(s, i, ins) == Take(s, i - 1) \o ins \o Drop(s, i)
Cut(s, i) == IF i \in DOMAIN s THEN RemoveAt(s, i) ELSE s

IsLeaf(node) == node.height = 0

\* A leaf is persisted under its id; ids grow with the age of the node.
Leaf(id, keys, values) ==
  [id |-> id, height |-> 0, parent |-> null, prev |-> null, next |-> null,
   keys |-> keys, values |-> values, children |-> <<>>]

Internal(height, keys, children) ==
  [id |-> 0, height |-> height, parent |-> null, prev |-> null, next |-> null,
   keys |-> keys, values |-> <<>>, children |-> children]

NewId(h) == 1 + Cardinality({n \in DOMAIN h : IsLeaf(h[n])})

Associate(h, left, right) ==
  LET back == IF right = null THEN h ELSE [h EXCEPT ![right].prev = left]
  IN  IF left = null THEN back ELSE [back EXCEPT ![left].next = right]

Adopt(h, parent, children) ==
  FoldLeft(LAMBDA acc, child : [acc EXCEPT ![child].parent = parent], h, children)

RECURSIVE LeftMostNode(_, _), RightMostNode(_, _)
LeftMostNode(h, n) ==
  IF IsLeaf(h[n]) THEN n ELSE LeftMostNode(h, Head(h[n].children))
RightMostNode(h, n) ==
  IF IsLeaf(h[n]) THEN n ELSE RightMostNode(h, Last(h[n].children))

LeftMostKey(h, n) == Head(h[LeftMostNode(h, n)].keys)

\* Faulty variant: fix() that looks no further than the children.
FixFromChildKeys(h, n) ==
  [h EXCEPT ![n].keys =
     [i \in 1 .. Len(h[n].children) - 1 |-> Head(h[h[n].children[i + 1]].keys)]]

\* fix(): the keys of an internal node are the left most keys of its children.
Fix(h, n) ==
  [h EXCEPT ![n].keys =
     [i \in 1 .. Len(h[n].children) - 1 |-> LeftMostKey(h, h[n].children[i + 1])]]

SearchKey(node, key) ==
  1 + Cardinality({i \in DOMAIN node.keys : node.keys[i] < key})

Holds(node, pos, key) == pos \in DOMAIN node.keys /\ node.keys[pos] = key

\* Faulty variant: a key equal to a separator is looked for on its left.
ChildPosLeft(node, key) == SearchKey(node, key)

\* The child a key belongs under.
ChildPos(node, key) ==
  LET pos == SearchKey(node, key)
  IN  IF Holds(node, pos, key) THEN pos + 1 ELSE pos

RECURSIVE ContainingLeaf(_, _, _)
ContainingLeaf(h, n, key) ==
  IF IsLeaf(h[n]) THEN n
  ELSE ContainingLeaf(h, h[n].children[ChildPos(h[n], key)], key)

-----------------------------------------------------------------------------
\* Renumbering the heap below root r.

RECURSIVE LevelOrder(_, _)
LevelOrder(h, level) ==
  IF level = <<>> THEN <<>>
  ELSE level \o LevelOrder(h, FlattenSeq([i \in DOMAIN level |-> h[level[i]].children]))

Renumber(h, r) ==
  LET order == LevelOrder(h, <<r>>)
      name  == [n \in DOMAIN h |->
                  IF n \in ToSet(order) THEN CHOOSE i \in DOMAIN order : order[i] = n
                                        ELSE stale]
      link(n) == IF n = null THEN null ELSE name[n]
      age(n) == IF IsLeaf(h[n])
                THEN Cardinality({m \in ToSet(order) : IsLeaf(h[m]) /\ h[m].id <= h[n].id})
                ELSE 0
  IN  [i \in DOMAIN order |->
         LET n == order[i]
         IN  [h[n] EXCEPT !.id = age(n), !.parent = link(@), !.prev = link(@),
                          !.next = link(@),
                          !.children = [c \in DOMAIN @ |-> link(@[c])]]]

-----------------------------------------------------------------------------
\* Insertion.  A result is the new heap, the node that replaces the one called,
\* and by how much the number of rows grew.

\* splitLeaf() and splitInternal(): node n keeps the first half, a new right
\* sibling takes the rest, and both go under a new node with one key.
Split(h, n) ==
  LET node  == h[n]
      half  == MIN_KEY_LEN
      right == Len(h) + 1
      root  == Len(h) + 2
      upper == IF IsLeaf(node)
               THEN Leaf(NewId(h), Drop(node.keys, half), Drop(node.values, half))
               ELSE Internal(node.height, Drop(node.keys, half + 1),
                             Drop(node.children, half + 1))
      lower == IF IsLeaf(node)
               THEN [node EXCEPT !.keys = Take(@, half), !.values = Take(@, half)]
               ELSE [node EXCEPT !.keys = Take(@, half), !.children = Take(@, half + 1)]
      top   == [Internal(node.height + 1, <<node.keys[half + 1]>>, <<n, right>>)
                  EXCEPT !.parent = node.parent]
      grown == [h EXCEPT ![n] = [lower EXCEPT !.parent = root]]
                 \o <<[upper EXCEPT !.parent = root], top>>
      owned == Adopt(grown, right, upper.children)
  IN  [h |-> Associate(Associate(owned, right, node.next), n, right), node |-> root]

SplitIfFull(h, n) ==
  IF Len(h[n].keys) = MAX_COUNT THEN Split(h, n) ELSE [h |-> h, node |-> n]

Done(res, added) == [h |-> res.h, node |-> res.node, added |-> added, refused |-> FALSE]

\* The key is in leaf n at pos: replace its rows, add one more, or refuse.
InsertAtKey(h, n, pos, row, replace) ==
  LET old == h[n].values[pos]
      put(rows) == Done([h |-> [h EXCEPT ![n].values[pos] = rows], node |-> n],
                        Cardinality(rows) - Cardinality(old))
  IN  CASE replace -> put({row})
        [] ~replace /\ (unique \/ row \in old) ->
             [h |-> h, node |-> n, added |-> 0, refused |-> TRUE]
        [] OTHER -> put(old \union {row})

InsertIntoLeaf(h, n, key, row, replace) ==
  LET pos == SearchKey(h[n], key)
  IN  IF Holds(h[n], pos, key)
      THEN InsertAtKey(h, n, pos, row, replace)
      ELSE Done(SplitIfFull([h EXCEPT ![n].keys   = InsertAt(@, pos, key),
                                      ![n].values = InsertAt(@, pos, {row})], n), 1)

\* An internal node that comes back with one key is a child that split: its
\* key and its two children take the place of the child.
AbsorbSplit(h, n, pos, child) ==
  IF ~IsLeaf(h[child]) /\ Len(h[child].keys) = 1
  THEN Adopt([h EXCEPT ![n].keys = InsertAt(@, pos, h[child].keys[1]),
                       ![n].children = Splice(@, pos, h[child].children)],
             n, h[child].children)
  ELSE h

RECURSIVE Insert(_, _, _, _, _)
Insert(h, n, key, row, replace) ==
  IF IsLeaf(h[n]) THEN InsertIntoLeaf(h, n, key, row, replace)
  ELSE LET pos == ChildPos(h[n], key)
           sub == Insert(h, h[n].children[pos], key, row, replace)
       IN  IF sub.refused THEN sub
           ELSE Done(SplitIfFull(AbsorbSplit(sub.h, n, pos, sub.node), n), sub.added)

-----------------------------------------------------------------------------
\* Removal.  A result is the new heap, whether the node above must rebuild its
\* keys, and how many rows were dropped.

\* steal(): an entry moves over from the next node, or else from the previous
\* one, if that has more than the minimum.
CanSpare(h, m) == m # null /\ Len(h[m].keys) > MIN_KEY_LEN

StealFirst(h, n, from) ==
  IF IsLeaf(h[n])
  THEN [h EXCEPT ![n].keys   = Append(@, Head(h[from].keys)),
                 ![n].values = Append(@, Head(h[from].values)),
                 ![from].keys = Tail(@), ![from].values = Tail(@)]
  ELSE LET child == Head(h[from].children)
       IN  Fix(Fix([h EXCEPT ![n].children = Append(@, child),
                             ![from].children = Tail(@),
                             ![child].parent = n], from), n)

StealLast(h, n, from) ==
  IF IsLeaf(h[n])
  THEN [h EXCEPT ![n].keys   = <<Last(h[from].keys)>> \o @,
                 ![n].values = <<Last(h[from].values)>> \o @,
                 ![from].keys = Front(@), ![from].values = Front(@)]
  ELSE LET child == Last(h[from].children)
       IN  Fix(Fix([h EXCEPT ![n].children = <<child>> \o @,
                             ![from].children = Front(@),
                             ![child].parent = n], from), n)

\* merge(): everything moves to the front of the next node if that has room,
\* to the end of the previous one otherwise, and the node leaves its parent.
Merge(h, n, parentPos) ==
  LET node  == h[n]
      right == node.next # null /\ Len(h[node.next].keys) < MAX_KEY_LEN
      to    == IF right THEN node.next ELSE node.prev
      join(theirs, mine) == IF right THEN mine \o theirs ELSE theirs \o mine
      moved == [h EXCEPT ![to].keys     = join(@, node.keys),
                         ![to].values   = join(@, node.values),
                         ![to].children = join(@, node.children)]
      owned == Associate(Adopt(moved, to, node.children), node.prev, node.next)
      fixed == IF IsLeaf(node) THEN owned ELSE Fix(owned, to)
  IN  [fixed EXCEPT ![node.parent].keys     = Cut(@, parentPos),
                    ![node.parent].children = Cut(@, parentPos)]

\* The end of delete(): node n may have become too small.
Rebalance(h, n, parentPos) ==
  CASE Len(h[n].keys) >= MIN_KEY_LEN \/ h[n].parent = null -> h
    [] CanSpare(h, h[n].next) -> StealFirst(h, n, h[n].next)
    [] ~CanSpare(h, h[n].next) /\ CanSpare(h, h[n].prev) -> StealLast(h, n, h[n].prev)
    [] OTHER -> Merge(h, n, parentPos)

Kept(h) == [h |-> h, fix |-> FALSE, dropped |-> 0]

\* Faulty variant: a unique index heeds the row id.
RowsLeftOthers(rows, row) == IF row = AnyRow THEN {} ELSE rows \ {row}

\* The rows that stay under a key: a unique index ignores the row id given.
RowsLeft(rows, row) == IF unique \/ row = AnyRow THEN {} ELSE rows \ {row}

DeleteFromLeaf(h, n, key, row, parentPos) ==
  LET pos  == SearchKey(h[n], key)
      rows == h[n].values[pos]
      left == RowsLeft(rows, row)
  IN  CASE ~Holds(h[n], pos, key) -> Kept(h)
        [] Holds(h[n], pos, key) /\ left # {} ->
             [h |-> [h EXCEPT ![n].values[pos] = left], fix |-> FALSE,
              dropped |-> Cardinality(rows \ left)]
        [] OTHER ->
             [h |-> Rebalance([h EXCEPT ![n].keys = RemoveAt(@, pos),
                                        ![n].values = RemoveAt(@, pos)], n, parentPos),
              fix |-> TRUE, dropped |-> Cardinality(rows)]

RECURSIVE Delete(_, _, _, _, _)
Delete(h, n, key, row, parentPos) ==
  IF IsLeaf(h[n]) THEN DeleteFromLeaf(h, n, key, row, parentPos)
  ELSE LET at  == SearchKey(h[n], key)
           pos == ChildPos(h[n], key)
           sub == Delete(h, h[n].children[pos], key, row, pos)
           fixed == Fix(sub.h, n)
           cut == IF Holds(fixed[n], at, key)
                  THEN [fixed EXCEPT ![n].keys = RemoveAt(@, at)] ELSE fixed
       IN  IF sub.fix THEN [sub EXCEPT !.h = Rebalance(cut, n, parentPos)]
                      ELSE sub

\* remove(): a root with a single child gives way to it.
Collapse(h, n) ==
  IF Len(h[n].children) = 1
  THEN LET child == h[n].children[1]
       IN  Renumber([h EXCEPT ![child].parent = null], child)
  ELSE Renumber(h, n)

-----------------------------------------------------------------------------
\* Building a tree over a chain of leaves: deserialize() and createInternals().

\* The length of the next internal node when so many children remain.
CalcNodeLen(remaining) ==
  LET minLen == MIN_KEY_LEN + 1
  IN  CASE remaining >= MAX_KEY_LEN + minLen -> MAX_KEY_LEN
        [] remaining \in minLen .. MAX_KEY_LEN -> remaining
        [] OTHER -> minLen

RECURSIVE Groups(_)
Groups(children) ==
  IF children = <<>> THEN <<>>
  ELSE LET len == CalcNodeLen(Len(children))
           n   == IF len < Len(children) THEN len ELSE Len(children)
       IN  <<Take(children, n)>> \o Groups(Drop(children, n))

Chain(h, ns) ==
  FoldLeft(LAMBDA acc, i : Associate(acc, ns[i], ns[i + 1]), h,
           [i \in 1 .. Len(ns) - 1 |-> i])

\* createParent(), one node above some children.
AddParent(h, children) ==
  LET parent == Len(h) + 1
      node   == Internal(h[Head(children)].height + 1,
                         [i \in 1 .. Len(children) - 1 |-> Head(h[children[i + 1]].keys)],
                         children)
  IN  Adopt(Append(h, node), parent, children)

\* Up to MAX_COUNT leaves go under one root, more under two levels of nodes.
CreateInternals(h) ==
  LET leaves == [i \in DOMAIN h |-> i]
      groups == Groups(leaves)
      mids   == [g \in DOMAIN groups |-> Len(h) + g]
      level  == FoldLeft(AddParent, h, groups)
      top    == Internal(h[1].height + 2,
                         [g \in 1 .. Len(groups) - 1 |-> Head(h[Head(groups[g + 1])].keys)],
                         mids)
  IN  IF Len(h) <= MAX_KEY_LEN + 1
      THEN Renumber(AddParent(h, leaves), Len(h) + 1)
      ELSE Renumber(Chain(Adopt(Append(level, top), Len(level) + 1, mids), mids),
                    Len(level) + 1)

\* The tree over these leaves, in the order they are given.
Deserialize(leaves) ==
  LET chained == Chain(leaves, [i \in DOMAIN leaves |-> i])
  IN  IF Len(leaves) > 1 THEN CreateInternals(chained) ELSE Renumber(chained, 1)

RowCount(leaf) == FoldLeft(LAMBDA acc, rows : acc + Cardinality(rows), 0, leaf.values)

CountRows(leaves) == FoldLeft(LAMBDA acc, leaf : acc + RowCount(leaf), 0, leaves)

\* serialize(): the leaves from the left most one, along their next links.
RECURSIVE LeafChain(_, _)
LeafChain(h, n) ==
  IF n = null THEN <<>> ELSE <<h[n]>> \o LeafChain(h, h[n].next)

Serialize(h) == LeafChain(h, LeftMostNode(h, 1))

-----------------------------------------------------------------------------
\* The calls.

Init ==
  \E runs \in InitialRuns :
    LET row    == CHOOSE r \in RowIds : \A other \in RowIds : r <= other
        leaves == [i \in DOMAIN runs |->
                     Leaf(i, runs[i], [k \in DOMAIN runs[i] |-> {row}])]
    IN  /\ nodes = Deserialize(leaves)
        /\ totalRows = CountRows(leaves)
        /\ unique \in BOOLEAN
        /\ call = <<"none", 0, AnyRow>>
        /\ refused = FALSE
        /\ calls = 0

Called(what, key, row) ==
  /\ calls < MaxCalls
  /\ calls' = calls + 1
  /\ call' = <<what, key, row>>
  /\ UNCHANGED unique

Inserted(res) ==
  /\ nodes' = IF res.refused THEN nodes ELSE Renumber(res.h, res.node)
  /\ totalRows' = totalRows + res.added
  /\ refused' = res.refused

Add(key, row) ==
  Called("add", key, row) /\ Inserted(Insert(nodes, 1, key, row, FALSE))

Set(key, row) ==
  Called("set", key, row) /\ Inserted(Insert(nodes, 1, key, row, TRUE))

RemoveKey(key, row) ==
  /\ Called("remove", key, row)
  /\ LET res == Delete(nodes, 1, key, row, -1)
     IN  /\ nodes' = Collapse(res.h, 1)
         /\ totalRows' = totalRows - res.dropped
  /\ refused' = FALSE

Clear ==
  /\ Called("clear", 0, AnyRow)
  /\ nodes' = <<Leaf(1, <<>>, <<>>)>>
  /\ totalRows' = 0
  /\ refused' = FALSE

Next ==
  \/ \E key \in CallKeys, row \in RowIds : Add(key, row) \/ Set(key, row)
  \/ \E key \in CallKeys, row \in RowIds \union {AnyRow} : RemoveKey(key, row)
  \/ Clear

Spec == Init /\ [][Next]_vars

-----------------------------------------------------------------------------
\* The queries.  A row id list is in key order, and ascending under one key.

Ascending(rows) ==
  [i \in 1 .. Cardinality(rows) |->
     CHOOSE r \in rows : Cardinality({other \in rows : other < r}) = i - 1]

RECURSIVE Get(_, _)
Get(n, key) ==
  LET pos == SearchKey(nodes[n], key)
  IN  CASE ~IsLeaf(nodes[n]) -> Get(nodes[n].children[ChildPos(nodes[n], key)], key)
        [] IsLeaf(nodes[n]) /\ Holds(nodes[n], pos, key) -> nodes[n].values[pos]
        [] OTHER -> {}

\* containsKey() believes the keys of internal nodes too.
RECURSIVE ContainsKey(_, _)
ContainsKey(n, key) ==
  LET pos == SearchKey(nodes[n], key)
  IN  \/ Holds(nodes[n], pos, key)
      \/ ~IsLeaf(nodes[n]) /\ ContainsKey(nodes[n].children[pos], key)

\* min() and max(): the outermost entries, none when the tree is empty.
Outermost ==
  LET left  == nodes[LeftMostNode(nodes, 1)]
      right == nodes[RightMostNode(nodes, 1)]
  IN  IF left.keys = <<>> THEN <<>>
      ELSE <<[key |-> Head(left.keys), rows |-> Head(left.values)],
             [key |-> Last(right.keys), rows |-> Last(right.values)]>>

-----------------------------------------------------------------------------
\* getRange().  A range has two ends, either of which may be unbound or open.

unbound == -1

\* compareRange() and isInRange() of SimpleComparator, ascending.
CoversLeft(key, range) ==
  range.from = unbound \/ key > range.from \/ (key = range.from /\ ~range.excludeLower)
CoversRight(key, range) ==
  range.to = unbound \/ key < range.to \/ (key = range.to /\ ~range.excludeUpper)

InRange(key, range) == CoversLeft(key, range) /\ CoversRight(key, range)

\* Where a range is, seen from a key.
Favor(key, range) ==
  CASE InRange(key, range) -> "TIE"
    [] CoversLeft(key, range) /\ ~CoversRight(key, range) -> "LHS"
    [] OTHER -> "RHS"

GetMidPoint(l, r) == LET mid == (l + r) \div 2 IN IF mid = l THEN mid + 1 ELSE mid

\* The binary searches of a leaf for the ends of a range, over what its keys
\* favor; 0 when there is none.
RECURSIVE FindFirstKey(_, _, _), FindLastKey(_, _, _)
FindFirstKey(favors, l, r) ==
  LET mid == GetMidPoint(l, r)
  IN  CASE l >= r -> IF favors[r] = "TIE" THEN r ELSE 0
        [] l < r /\ favors[l] = "TIE" -> l
        [] l < r /\ favors[l] = "LHS" -> 0
        [] l < r /\ favors[l] = "RHS" /\ mid = r -> IF favors[r] = "TIE" THEN r ELSE 0
        [] OTHER -> CASE favors[mid] = "TIE" -> FindFirstKey(favors, l, mid)
                      [] favors[mid] = "RHS" -> FindFirstKey(favors, mid + 1, r)
                      [] favors[mid] = "LHS" -> FindFirstKey(favors, l + 1, mid)
FindLastKey(favors, l, r) ==
  LET mid == GetMidPoint(l, r)
  IN  CASE l >= r -> l
        [] l < r /\ favors[r] = "TIE" -> r
        [] l < r /\ favors[r] = "RHS" -> l
        [] l < r /\ favors[r] = "LHS" /\ mid = r -> l
        [] OTHER -> CASE favors[mid] = "TIE" -> FindLastKey(favors, mid, r)
                      [] favors[mid] = "LHS" -> FindLastKey(favors, l, mid - 1)
                      [] favors[mid] = "RHS" -> 0

\* The positions of a leaf whose keys are in range.
PositionsInRange(keys, range) ==
  LET favors == [i \in DOMAIN keys |-> Favor(keys[i], range)]
      n      == Len(keys)
      first  == IF favors[1] = "TIE" THEN 1 ELSE FindFirstKey(favors, 2, n)
      last   == FindLastKey(favors, first, n)
  IN  IF \/ favors[1] = "LHS"
         \/ favors[1] = "RHS" /\ favors[n] = "RHS"
         \/ first = 0
      THEN {} ELSE first .. last

\* appendResults(): rows are skipped, then kept up to the limit; a reversed
\* query keeps them all, to be cut when it has been turned around.
AppendResults(acc, rows, reverse, limit) ==
  LET skipped == IF reverse THEN 0 ELSE IF acc.skip < Len(rows) THEN acc.skip ELSE Len(rows)
      all     == acc.rows \o Drop(rows, skipped)
  IN  [rows |-> IF Len(all) > limit THEN Take(all, limit) ELSE all,
       skip |-> acc.skip - skipped]

RowsAt(leaf, positions) ==
  FlattenSeq([i \in DOMAIN leaf.values |->
                IF i \in positions THEN Ascending(leaf.values[i]) ELSE <<>>])

\* Faulty variant: a walk ends at the first leaf that starts out of range.
OneStrike == 1

\* Say the leaves are [12, 15] and [16, 18]: a walk for keys over 15 finds none
\* in the first, and must not end there.
Strikes == 2

\* The walk along the leaves for one range: it stops at the limit, and at the
\* second leaf in a row whose first key is out of range.
RECURSIVE Walk(_, _, _, _, _)
Walk(n, range, query, acc, strikes) ==
  IF n = null \/ Len(acc.rows) >= query.limit \/ strikes = Strikes THEN acc
  ELSE LET leaf == nodes[n]
           next == AppendResults(acc, RowsAt(leaf, PositionsInRange(leaf.keys, range)),
                                 query.reverse, query.limit)
       IN  Walk(leaf.next, range, query, next,
                IF next.skip = 0 /\ ~InRange(Head(leaf.keys), range)
                THEN strikes + 1 ELSE 0)

FirstLeaf(range) ==
  IF range.from = unbound THEN LeftMostNode(nodes, 1)
                          ELSE ContainingLeaf(nodes, 1, range.from)

Least(a, b) == IF a < b THEN a ELSE b

\* fill(): the rows under a node in the order of the tree.
RECURSIVE RowsUnder(_)
RowsUnder(n) ==
  IF IsLeaf(nodes[n]) THEN RowsAt(nodes[n], DOMAIN nodes[n].keys)
  ELSE FlattenSeq([c \in DOMAIN nodes[n].children |-> RowsUnder(nodes[n].children[c])])

\* getAll(): the special case of no ranges.
GetAll(query, maxCount) ==
  LET off  == IF query.reverse THEN totalRows - maxCount - query.skip ELSE query.skip
      rows == SubSeq(RowsUnder(1), off + 1, off + maxCount)
  IN  IF query.reverse THEN Reverse(rows) ELSE rows

\* A query has ranges in order (none: everything), a limit and a skip count.
GetRange(query) ==
  LET limit    == Least(query.limit, totalRows)
      left     == IF totalRows > query.skip THEN totalRows - query.skip ELSE 0
      maxCount == Least(left, limit)
      room     == [query EXCEPT !.limit = IF query.reverse THEN totalRows ELSE maxCount]
      found    == FoldLeft(LAMBDA acc, range : Walk(FirstLeaf(range), range, room, acc, 0),
                           [rows |-> <<>>, skip |-> query.skip], query.ranges).rows
  IN  CASE nodes[LeftMostNode(nodes, 1)].keys = <<>> \/ maxCount = 0 -> <<>>
        [] maxCount > 0 /\ query.ranges = <<>> -> GetAll(query, maxCount)
        [] maxCount > 0 /\ query.ranges # <<>> /\ query.reverse ->
             SubSeq(Reverse(found), query.skip + 1, Least(query.skip + limit, Len(found)))
        [] OTHER -> found

-----------------------------------------------------------------------------
\* Properties.

\* What the leaves of the tree hold.
Contents ==
  [key \in Keys |->
     UNION {UNION {nodes[n].values[i] : i \in {j \in DOMAIN nodes[n].keys : nodes[n].keys[j] = key}}
            : n \in {m \in DOMAIN nodes : IsLeaf(nodes[m])}}]

Index == INSTANCE SortedIndex WITH rows <- Contents

\* Whatever splits, steals and merges a call sets off, the tree does what an
\* index promises: a call changes the rows of its own key and no other, and is
\* refused exactly when the key, or the row, is already there.
ImplementsIndex == Index!Spec

\* The siblings of a node are its neighbours on its level, wherever their
\* parents are; a node's parent is the node that lists it; leaves are all at
\* the bottom.
LinksMatchTree ==
  /\ nodes[1].parent = null
  /\ \A n \in DOMAIN nodes :
       LET beside(m) == IF m \in DOMAIN nodes /\ nodes[m].height = nodes[n].height
                        THEN m ELSE null
       IN  /\ nodes[n].prev = beside(n - 1)
           /\ nodes[n].next = beside(n + 1)
           /\ IF IsLeaf(nodes[n])
              THEN Len(nodes[n].values) = Len(nodes[n].keys)
              ELSE /\ Len(nodes[n].children) = Len(nodes[n].keys) + 1
                   /\ \A c \in ToSet(nodes[n].children) :
                        nodes[c].parent = n /\ nodes[c].height = nodes[n].height - 1

\* Each key of an internal node is the least key below the child on its right,
\* and the keys grow along the leaves, each with at least one row, so that
\* every key is found where it is looked for.
SeparatorsRoute ==
  LET leaves == Serialize(nodes)
      keys   == FlattenSeq([i \in DOMAIN leaves |-> leaves[i].keys])
  IN  /\ \A n \in {m \in DOMAIN nodes : ~IsLeaf(nodes[m])} :
           \A i \in DOMAIN nodes[n].keys :
             nodes[n].keys[i] = LeftMostKey(nodes, nodes[n].children[i + 1])
      /\ \A i \in 1 .. Len(keys) - 1 : keys[i] < keys[i + 1]
      /\ \A i \in DOMAIN leaves : {} \notin ToSet(leaves[i].values)

\* The tree stays a search tree with its leaves and levels linked (the comments
\* of delete(), steal(), merge() and fix()), through any sequence of calls.
WellFormed == LinksMatchTree /\ SeparatorsRoute

\* get(), containsKey(), min(), max() and the row count kept in stats() answer
\* from the same contents; a key that was removed is not found in an internal
\* node either.
LookupsAgree ==
  LET rows == Contents
      held == {key \in Keys : rows[key] # {}}
      end(below(_, _)) == CHOOSE key \in held : \A other \in held : ~below(other, key)
  IN  /\ \A key \in Keys : Get(1, key) = rows[key] /\ (ContainsKey(1, key) <=> key \in held)
      /\ totalRows = CountRows(Serialize(nodes))
      /\ IF held = {} THEN Outermost = <<>>
         ELSE LET first == end(LAMBDA a, b : a < b)
                  last  == end(LAMBDA a, b : a > b)
              IN  Outermost = << [key |-> first, rows |-> rows[first]],
                                 [key |-> last, rows |-> rows[last]] >>

\* The answer to a query, by definition: the rows of the keys in some range, in
\* key order or its reverse, less those skipped, up to the limit.
Answer(query) ==
  LET rows   == Contents
      wanted == {key \in Keys : \/ query.ranges = <<>>
                                \/ \E r \in ToSet(query.ranges) : InRange(key, r)}
      all    == FlattenSeq([key \in 1 .. Cardinality(Keys) |->
                              IF key \in wanted THEN Ascending(rows[key]) ELSE <<>>])
      sorted == IF query.reverse THEN Reverse(all) ELSE all
  IN  SubSeq(sorted, query.skip + 1, Least(query.skip + query.limit, Len(sorted)))

=============================================================================
