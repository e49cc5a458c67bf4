----------------------------- MODULE IndexScans -----------------------------
(***************************************************************************)
(* What a plan can ask of the indices of a table: the entries in the order *)
(* of the index, those in a sequence of key ranges (index/*_comparator*.ts, *)
(* nullable_index.ts, the results of btree.ts), which index answers a set  *)
(* of predicates at the least cost (pp/index_cost_estimator.ts,            *)
(* index_range_candidate.ts), and with which ranges                        *)
(* (pp/bounded_key_range_calculator.ts).                                   *)
(***************************************************************************)
EXTENDS LogicalPlans

CONSTANTS NameOf,        \* the table that each table of a query (its alias) stands for
          Indices,       \* its indices: [name, cols: sequence of [name, order]]
          Threshold      \* INDEX_QUERY_THRESHOLD_PERCENT, in percent

\* A database maps the name of every table to its rows, by row id.
RowIds(db, name) == SortSeq(SetToSeq(DOMAIN db[name]), <)
TotalRows(db, name) == Cardinality(DOMAIN db[name])

IndexKey(row, index) == Mapped(index.cols, LAMBDA c : row[c.name])
IsSingle(index) == Len(index.cols) = 1
\* NullableIndex: rows whose key is null are kept apart, in indices of one column.
Kept(row, index) == ~(IsSingle(index) /\ row[index.cols[1].name] = Null)

\* The row ids of an index in its order: by key, and by row id for the same key.
IndexOrder(db, name, index) ==
  LET ids == SelectSeq(RowIds(db, name), LAMBDA id : Kept(db[name][id], index)) IN
  SortedBy(ids, index.cols, LAMBDA id : IndexKey(db[name][id], index))

\* get(): the rows of one key.
Lookup(db, name, index, key) ==
  SelectSeq(RowIds(db, name), LAMBDA id : db[name][id][index.cols[1].name] = key)

\* isInRange(): a null key is only in the range of all keys.
InRange(key, range) == IF key = Null THEN IsAll(range) ELSE Covers(range, key)
InRanges(key, ranges) == \A i \in 1..Len(ranges) : InRange(key[i], ranges[i])

\* orderKeyRange(), and sortKeyRanges(): a comparator of several columns sorts the
\* ranges of each column on their own, and puts those of the same place together.
InOrderOf(order, l, r) == Compare(IF order = "ASC" THEN l ELSE r, IF order = "ASC" THEN r ELSE l) = "RHS"
SortKeyRanges(index, combinations) ==
  LET n == Len(combinations)
      Dimension(d) == SortRanges([i \in 1..n |-> combinations[i][d]],
                                 LAMBDA l, r : InOrderOf(index.cols[d].order, l, r))
      perDimension == [d \in 1..Len(index.cols) |-> Dimension(d)]
      FirstDifference(l, r, d) ==
        /\ \A e \in 1..(d - 1) : ~InOrderOf(index.cols[e].order, l[e], r[e]) /\ ~InOrderOf(index.cols[e].order, r[e], l[e])
        /\ InOrderOf(index.cols[d].order, l[d], r[d])
  IN  SortRanges([i \in 1..n |-> [d \in 1..Len(index.cols) |-> perDimension[d][i]]],
                 LAMBDA l, r : \E d \in 1..Len(index.cols) : FirstDifference(l, r, d))

\* IndexHelper.slice(), and the limit and skip of getRange().
SkipOf(skip) == IF skip = Undefined THEN 0 ELSE skip
Slice(s, limit, skip) ==
  LET last == IF limit = Undefined THEN Len(s) ELSE SkipOf(skip) + limit IN
  SubSeq(s, 1 + SkipOf(skip), IF last < Len(s) THEN last ELSE Len(s))

\* getRange(), of combinations of one range for each column.
RangeRows(db, name, index, combinations) ==
  LET order == IndexOrder(db, name, index)
      In(combination) == SelectSeq(order, LAMBDA id : InRanges(IndexKey(db[name][id], index), combination))
  IN  FlattenSeq(Mapped(SortKeyRanges(index, combinations), In))
GetRange(db, name, index, combinations, reverse, limit, skip) ==
  LET rows == RangeRows(db, name, index, combinations) IN
  Slice(IF reverse THEN Reverse(rows) ELSE rows, limit, skip)

-----------------------------------------------------------------------------
\* BoundedKeyRangeCalculator

IndexNamed(name, indexName) ==
  CHOOSE index \in ToSet(Indices[name]) : index.name = indexName

PredicateOf(q, id) == CHOOSE p \in Nodes(q.where[1]) : p.id = id

\* calculateKeyRangeMap(), for one column: the predicates about it, intersected.
\* fillMissingKeyRanges(): all keys where there are none.
KeyRangesOf(q, ids, column) ==
  LET about == SelectSeq(Mapped(ids, LAMBDA id : PredicateOf(q, id)),
                         LAMBDA p : \E c \in ColumnsOf(p) : c.name = column)
  IN  FoldLeft(LAMBDA set, p : Intersect(set, ToKeyRange(p)), << All >>, about)

\* calculateCartesianProduct()
Product(sets) ==
  FoldLeft(LAMBDA acc, set : FlattenSeq(Mapped(acc, LAMBDA c : Mapped(set, LAMBDA r : Append(c, r)))),
           << <<>> >>, sets)
KeyRangeCombinations(q, index, ids) ==
  Product(Mapped(index.cols, LAMBDA c : KeyRangesOf(q, ids, c.name)))

-----------------------------------------------------------------------------
\* IndexCostEstimator, IndexRangeCandidate

IndexQueryThreshold(db, name) == (TotalRows(db, name) * Threshold) \div 100

\* isCandidate(): about this table, and with few enough alternatives.
IsCandidate(db, table, p) ==
  /\ IsKeyRangeCompatible(p) = "yes"
  /\ TablesOf(p) = {table}
  /\ p.kind = "value" /\ p.op = "IN" => Len(p.value) <= IndexQueryThreshold(db, NameOf[table])
  /\ p.kind = "combined" => Len(p.children) <= IndexQueryThreshold(db, NameOf[table])

ColumnName(p) == (CHOOSE c \in ColumnsOf(p) : TRUE).name

\* isUsable(): the columns that are bound are the first ones of the index.
IsUsable(index, bound) ==
  \E n \in 1..Len(index.cols) :
    \A i \in 1..Len(index.cols) : (index.cols[i].name \in bound) <=> (i <= n)

\* calculateCost(); BTree.cost() of one combination.
Cost(db, name, index, combinations) ==
  FoldLeft(LAMBDA sum, c : sum + Len(RangeRows(db, name, index, << c >>)), 0, combinations)

\* chooseIndexFor(): the cheapest of the usable indices, the first of those that
\* tie.  To know the cost, the ranges have been calculated for this context.
Consumed(candidates, index) ==
  SelectSeq(candidates, LAMBDA p : \E i \in 1..Len(index.cols) : index.cols[i].name = ColumnName(p))
UsableIndices(name, candidates) ==
  SelectSeq(Indices[name], LAMBDA index : IsUsable(index, {ColumnName(p) : p \in ToSet(Consumed(candidates, index))}))
IdsFor(candidates, index) == Mapped(Consumed(candidates, index), LAMBDA p : p.id)
FirstOfLeast(costs) ==
  CHOOSE i \in 1..Len(costs) : \A j \in 1..Len(costs) : costs[i] < costs[j] \/ (costs[i] = costs[j] /\ i <= j)

NoChoice == [index |-> "", ids |-> <<>>, costed |-> FALSE]
Choice(candidates, index, costed) ==
  [index |-> index.name, ids |-> IdsFor(candidates, index), costed |-> costed]
Cheapest(db, q, name, candidates, usable) ==
  LET CostOf(index) == Cost(db, name, index, KeyRangeCombinations(q, index, IdsFor(candidates, index))) IN
  CASE usable = <<>>   -> NoChoice
    [] Len(usable) = 1 -> Choice(candidates, usable[1], FALSE)
    [] OTHER           -> Choice(candidates, usable[FirstOfLeast(Mapped(usable, CostOf))], TRUE)
ChooseIndexFor(db, q, table, predicates) ==
  LET candidates == SelectSeq(predicates, LAMBDA p : IsCandidate(db, table, p)) IN
  Cheapest(db, q, NameOf[table], candidates, UsableIndices(NameOf[table], candidates))
=============================================================================
