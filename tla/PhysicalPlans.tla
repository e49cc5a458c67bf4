--------------------------- MODULE PhysicalPlans ---------------------------
(***************************************************************************)
(* From the logical plan of a query to its physical one (proc/pp/, the     *)
(* passes): the steps that are executed, rewritten so that indices do the  *)
(* work of selections, joins, sorting, and limits.  The plan is kept by    *)
(* the query and executed again and again: nothing in it may depend on the *)
(* values bound, or on the rows there were, when it was made.              *)
(***************************************************************************)
EXTENDS IndexScans

StepsOf(t, type) == Find(t, t.root, LAMBDA n : IsType(t, n, type))

\* mapFn(): a step knows the predicate of a selection by its id, that of a join
\* as a copy of its own.
StepOf(op) ==
  CASE op.type = "select" -> [type |-> "select", id |-> op.pred.id]
    [] op.type = "join"   -> [type |-> "join", pred |-> op.pred, outer |-> op.outer,
                              algorithm |-> IF op.pred.op = "EQ" THEN "hash" ELSE "nested_loop",
                              indexed |-> op.pred.right, other |-> op.pred.left]
    [] OTHER -> op
ToPhysical(t) == MapTree(t, StepOf)

ByRowId(table) == [type |-> "by_row_id", table |-> table]
\* "ids" are the predicates an index range scan stands for, in UnboundedKeyRange-
\* Calculator none; "memo" the ranges calculated last, if for the query itself.
IndexScan(table, index, ids, memo, reverse) ==
  [type |-> "index", name |-> NameOf[table], index |-> index, ids |-> ids, memo |-> memo,
   reverse |-> reverse, useLimit |-> FALSE, useSkip |-> FALSE]
Memo(q, table, choice) ==
  IF choice.costed
  THEN << KeyRangeCombinations(q, IndexNamed(NameOf[table], choice.index), choice.ids) >>
  ELSE <<>>
ScanFor(q, table, choice) ==
  IndexScan(table, choice.index, choice.ids, Memo(q, table, choice), FALSE)

-----------------------------------------------------------------------------
\* IndexJoinPass: one side of an inner join is looked up in its index instead.

ColumnForTable(join, table) == IF table = join.pred.right.table THEN join.pred.right ELSE join.pred.left
SingleIndices(column) ==
  SelectSeq(Indices[NameOf[column.table]], LAMBDA i : IsSingle(i) /\ i.cols[1].name = column.name)

Candidate(t, join, n) ==
  IsType(t, n, "table") /\ SingleIndices(ColumnForTable(join, t.op[n].table)) # <<>>

ProcessJoinStep(t, n) ==
  LET join == t.op[n]
      side == IF Candidate(t, join, t.kids[n][2]) THEN 2 ELSE 1
      chosen == ColumnForTable(join, t.op[t.kids[n][side]].table)
      other == IF chosen = join.pred.left THEN join.pred.right ELSE join.pred.left
      t1 == AddNode(t, [type |-> "no_op", table |-> chosen.table], <<>>)
      marked == [join EXCEPT !.algorithm = "index_nested_loop", !.indexed = chosen, !.other = other]
  IN  IF join.pred.op # "EQ" \/ join.outer \/ ~\E i \in 1..2 : Candidate(t, join, t.kids[n][i]) THEN t
      ELSE Prune([t1 EXCEPT !.op = (n :> marked) @@ @,
                            !.kids = (n :> ReplaceAt(t.kids[n], side, t.next)) @@ @])

IndexJoinPass(t, q) ==
  IF Len(q.from) > 1 THEN FoldLeft(ProcessJoinStep, t, StepsOf(t, "join")) ELSE t

-----------------------------------------------------------------------------
\* IndexRangeScanPass

\* findSelectSteps(): above a table, up to the next join.
SelectStepsAbove(t, n) ==
  LET above == Ancestors(t, n)
      joins == {i \in 1..Len(above) : IsType(t, above[i], "join")}
  IN  SelectSeq([i \in 1..Len(above) |-> i],
                LAMBDA i : IsType(t, above[i], "select") /\ \A j \in joins : i < j)
SelectsPastJoins(t, n) ==
  LET above == Ancestors(t, n) IN
  SelectSeq(above, LAMBDA m : IsType(t, m, "select"))
SelectsFor(t, n) ==
  LET above == Ancestors(t, n) IN Mapped(SelectStepsAbove(t, n), LAMBDA i : above[i])

PredicatesFor(t, q, n) == Mapped(SelectsFor(t, n), LAMBDA m : PredicateOf(q, t.op[m].id))

ReplaceWithIndexRangeScan(t, q, n, choice) ==
  LET selects == SelectSeq(SelectsFor(t, n), LAMBDA m : t.op[m].id \in ToSet(choice.ids))
      table == t.op[n].table
  IN  IF choice.ids = <<>> THEN t
      ELSE ReplaceNodeWithChain(FoldLeft(RemoveNode, t, selects), n,
                                << ByRowId(table), ScanFor(q, table, choice) >>)

IndexRangeScanPass(t, q, db) ==
  LET Scanned(acc, n) ==
        ReplaceWithIndexRangeScan(acc, q, n, ChooseIndexFor(db, q, acc.op[n].table, PredicatesFor(acc, q, n)))
  IN  FoldLeft(Scanned, t, StepsOf(t, "table"))

\* A value that is still a Binder makes the pass fail, where it is looked at.
IndexRangeScanFails(t, q) ==
  \E n \in ToSet(StepsOf(t, "table")) :
    \E p \in ToSet(PredicatesFor(t, q, n)) : IsKeyRangeCompatible(p) = "unbound"

-----------------------------------------------------------------------------
\* MultiColumnOrPass: a disjunction, every part of which an index can answer, is
\* replaced by the union of their scans.

OrSteps(t, q) ==
  SelectSeq(StepsOf(t, "select"), LAMBDA n : LET p == PredicateOf(q, t.op[n].id) IN
                                             p.kind = "combined" /\ p.operator = "OR")

\* findIndexRangeCandidates(): of all children, or none.
ScansForAll(q, table, choices) ==
  IF \E i \in 1..Len(choices) : choices[i].ids = <<>> THEN <<>>
  ELSE Mapped(choices, LAMBDA c : ScanFor(q, table, c))
ChoicesForOr(t, q, db, n) ==
  LET p == PredicateOf(q, t.op[n].id)
      table == CHOOSE x \in TablesOf(p) : TRUE
  IN  IF Cardinality(TablesOf(p)) # 1 THEN <<>>
      ELSE ScansForAll(q, table, Mapped(p.children, LAMBDA c : ChooseIndexFor(db, q, table, << c >>)))

MultiColumnOrFails(t, q, db) ==
  LET ors == OrSteps(t, q)
      FailsAt(n) ==
        LET p == PredicateOf(q, t.op[n].id)
            table == CHOOSE x \in TablesOf(p) : TRUE
        IN  /\ Cardinality(TablesOf(p)) = 1
            /\ \E i \in 1..Len(p.children) :
                 /\ IsKeyRangeCompatible(p.children[i]) = "unbound"
                 /\ \A j \in 1..(i - 1) : ChooseIndexFor(db, q, table, << p.children[j] >>).ids # <<>>
  IN  \E i \in 1..Len(ors) :
        FailsAt(ors[i]) /\ \A j \in 1..(i - 1) : ChoicesForOr(t, q, db, ors[j]) = <<>>

\* The first one that works is replaced: at the first full scan of a table of that
\* name.
ReplaceWithMultiScan(t, select, n, scans) ==
  LET table == t.op[n].table
      t1 == ReplaceNodeWithChain(RemoveNode(t, select), n, << ByRowId(table), [type |-> "multi"] >>)
      multi == t1.next - 1
      Under(acc, scan) == LET a == AddNode(acc, scan, <<>>) IN
                          [a EXCEPT !.kids = (multi :> Append(@[multi], acc.next)) @@ @]
  IN  FoldLeft(Under, t1, scans)

ReplaceOr(t, select, scans) ==
  LET tables == SelectSeq(StepsOf(t, "table"), LAMBDA n : NameOf[t.op[n].table] = scans[1].name) IN
  IF tables = <<>> THEN t ELSE ReplaceWithMultiScan(t, select, tables[1], scans)
ReplaceFirst(t, q, db, ors) ==
  IF ors = <<>> THEN t ELSE ReplaceOr(t, ors[1], ChoicesForOr(t, q, db, ors[1]))
MultiColumnOrPass(t, q, db) ==
  ReplaceFirst(t, q, db, SelectSeq(OrSteps(t, q), LAMBDA n : ChoicesForOr(t, q, db, n) # <<>>))

-----------------------------------------------------------------------------
\* OrderByIndexPass: rows that an index lists in the order asked for need no sort.

\* findTableAccessFullStep(), findIndexRangeScanStep(): along a single chain.
DownChain(t, n, type) ==
  LET stop == {m \in NodesOf(t) : Len(t.kids[m]) # 1} IN
  SelectSeq(PreorderUntil(t, n, stop), LAMBDA m : IsType(t, m, type))

\* checkOrder(): natural or reverse.
ColumnsMatch(index, orderBy) ==
  /\ Len(index.cols) = Len(orderBy)
  /\ \A i \in 1..Len(orderBy) : ~IsAggregated(orderBy[i].column) /\ orderBy[i].column.name = index.cols[i].name
IsNatural(index, orderBy) == \A i \in 1..Len(orderBy) : orderBy[i].order = index.cols[i].order
IsReverse(index, orderBy) == \A i \in 1..Len(orderBy) : orderBy[i].order # index.cols[i].order
FitsOrder(index, orderBy) ==
  ColumnsMatch(index, orderBy) /\ (IsNatural(index, orderBy) \/ IsReverse(index, orderBy))

OrderTableByIndex(t, order, n) ==
  LET orderBy == t.op[order].orderBy
      table == t.op[n].table
      fitting == SelectSeq(Indices[NameOf[table]], LAMBDA i : FitsOrder(i, orderBy))
  IN  IF fitting = <<>> THEN t
      ELSE ReplaceNodeWithChain(RemoveNode(t, order), n,
             << ByRowId(table),
                IndexScan(table, fitting[1].name, <<>>, <<>>, IsReverse(fitting[1], orderBy)) >>)
OrderScanByIndex(t, order, n) ==
  LET orderBy == t.op[order].orderBy
      index == IndexNamed(t.op[n].name, t.op[n].index)
  IN  IF ~FitsOrder(index, orderBy) THEN t
      ELSE RemoveNode([t EXCEPT !.op[n].reverse = IsReverse(index, orderBy)], order)

OrderByIndexPass(t, q) ==
  LET order == StepsOf(t, "order")[1]
      tables == DownChain(t, t.kids[order][1], "table")
      scans == DownChain(t, t.kids[order][1], "index")
  IN  CASE q.orderBy = <<>> -> t
        [] q.orderBy # <<>> /\ tables # <<>> -> OrderTableByIndex(t, order, tables[1])
        [] q.orderBy # <<>> /\ tables = <<>> /\ scans # <<>> -> OrderScanByIndex(t, order, scans[1])
        [] OTHER -> t

-----------------------------------------------------------------------------
\* LimitSkipByIndexPass: not past anything that changes how many rows there are.

HasAggregators(op) ==
  op.groupBy # <<>> \/ \E i \in 1..Len(op.columns) : IsAggregated(op.columns[i])
StopsLimit(t, n) ==
  \/ IsType(t, n, "project") /\ HasAggregators(t.op[n])
  \/ t.op[n].type \in {"order", "select"}
  \/ Len(t.kids[n]) # 1

LimitSkipByIndexPass(t, q) ==
  LET stop == {n \in NodesOf(t) : StopsLimit(t, n)}
      scans == SelectSeq(PreorderUntil(t, t.root, stop), LAMBDA n : IsType(t, n, "index"))
      merged == SelectSeq(Preorder(t, t.root), LAMBDA n : t.op[n].type \in {"limit", "skip"})
      Merge(acc, n) ==
        IF IsType(acc, n, "limit") THEN RemoveNode([acc EXCEPT !.op[scans[1]].useLimit = TRUE], n)
        ELSE RemoveNode([acc EXCEPT !.op[scans[1]].useSkip = TRUE], n)
  IN  IF (q.limit = Undefined /\ q.skip = Undefined) \/ scans = <<>> THEN t
      ELSE FoldLeft(Merge, t, merged)

-----------------------------------------------------------------------------
\* GetRowCountPass

CountsRows(q) ==
  /\ q.columns = << CountStar >> /\ Len(q.from) = 1
  /\ q.where = <<>> /\ q.groupBy = <<>> /\ q.limit = Undefined /\ q.skip = Undefined
\* It looks for a full scan, which sorting by an index may have replaced.
GetRowCountFails(t, q) == CountsRows(q) /\ StepsOf(t, "table") = <<>>
GetRowCountPass(t, q) ==
  IF CountsRows(q)
  THEN LET n == StepsOf(t, "table")[1] IN
       ReplaceNodeWithChain(t, n, << [type |-> "count", table |-> t.op[n].table] >>)
  ELSE t
=============================================================================
