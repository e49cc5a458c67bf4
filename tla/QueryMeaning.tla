---------------------------- MODULE QueryMeaning ----------------------------
(***************************************************************************)
(* What a query asks for, said without plans or indices: the rows of its   *)
(* tables joined one after the other in the order of the calls, filtered,  *)
(* grouped, aggregated and projected, in any order that ORDER BY allows,   *)
(* from SKIP on and up to LIMIT.  Nothing here is a translation of code.   *)
(***************************************************************************)
EXTENDS PlanExecution

\* A row of a query maps columns to values; a bag of rows is a sequence of them.
TableRows(db, table) == FromRows(db, table, RowIds(db, NameOf[table])).entries

\* A null is equal to nothing, and not greater or less than anything.
RECURSIVE Satisfies(_, _)
Satisfies(e, p) ==
  CASE p.kind = "value"    -> EvalValue(p, e.row[p.column])
    [] p.kind = "join"     -> e.row[p.left] # Null /\ e.row[p.right] # Null /\ EvalJoin(p, e)
    [] p.operator = "AND"  -> \A i \in 1..Len(p.children) : Satisfies(e, p.children[i])
    [] OTHER               -> \E i \in 1..Len(p.children) : Satisfies(e, p.children[i])

Pairs(es, table, db) ==
  FlattenSeq(Mapped(es, LAMBDA e : Mapped(TableRows(db, table), LAMBDA r : Combine(e, r))))
\* A join is [table, pred, outer].
Joined(es, join, db) ==
  LET Nulls == Entry(DummyId, [c \in {Column(join.table, n) : n \in Columns[join.table]} |-> Null])
      With(e) == SelectSeq(Pairs(<<e>>, join.table, db), LAMBDA f : Satisfies(f, join.pred))
  IN  FlattenSeq(Mapped(es, LAMBDA e : IF join.outer /\ With(e) = <<>> THEN << Combine(e, Nulls) >>
                                       ELSE With(e)))

\* The entries a query is about: its tables, the joins, and the condition.
Selected(asked, db) ==
  LET product == FoldLeft(LAMBDA es, table : Pairs(es, table, db),
                          TableRows(db, asked.from[1]), Tail(asked.from))
      joined == FoldLeft(LAMBDA es, join : Joined(es, join, db), product, asked.joins)
  IN  SelectSeq(joined, LAMBDA e : \A i \in 1..Len(asked.where) :
                                   Satisfies(e, asked.where[i].pred) # asked.where[i].negated)

Groups(es, columns) ==
  LET Key(e) == [c \in ToSet(columns) |-> e.row[c]]
      keys == {Key(es[i]) : i \in 1..Len(es)}
  IN  IF columns = <<>> THEN << es >>
      ELSE Mapped(SetToSeq(keys), LAMBDA k : SelectSeq(es, LAMBDA e : Key(e) = k))

\* The values an aggregator is about: all but the nulls, or each of them once.
Known(values) == SelectSeq(values, LAMBDA v : v # Null)
Total(values) == FoldLeft(LAMBDA a, b : a + b, 0, values)
ValueOf(column, es) ==
  LET leaf == Leaf(column)
      all  == Mapped(es, LAMBDA e : e.row[leaf])
      distinct == SetToSeq(ToSet(all))
      values == Known(IF column.fns[Len(column.fns)] = "DISTINCT" THEN distinct ELSE all)
      known == ToSet(values)
      fn == Head(column.fns)
  IN  CASE column = CountStar -> Len(es)
        [] column # CountStar /\ fn = "COUNT" -> Len(values)
        [] fn = "SUM" -> IF known = {} THEN Null ELSE Total(values)
        [] fn = "MIN" -> IF known = {} THEN Null ELSE CHOOSE v \in known : \A w \in known : v <= w
        [] fn = "MAX" -> IF known = {} THEN Null ELSE CHOOSE v \in known : \A w \in known : v >= w

\* The rows of the answer, in some order.
Projected(asked, es) ==
  LET cols == asked.columns
      groups == Groups(es, asked.groupBy)
      distinct == SetToSeq({e.row[Child(cols[1])] : e \in ToSet(es)})
  IN  IF cols = <<>> THEN Mapped(es, LAMBDA e : e.row)
      ELSE IF asked.groupBy = <<>> /\ \A i \in 1..Len(cols) : ~IsAggregated(cols[i])
      THEN Mapped(es, LAMBDA e : [c \in ToSet(cols) |-> e.row[c]])
      ELSE IF asked.groupBy = <<>> /\ cols[1].fns = << "DISTINCT" >>
      THEN Mapped(distinct, LAMBDA v : (cols[1] :> v))
      ELSE Mapped(groups, LAMBDA g : [c \in ToSet(cols) |-> IF IsAggregated(c) THEN ValueOf(c, g)
                                                            ELSE g[1].row[c]])

Occurrences(row, rows) == Cardinality({i \in 1..Len(rows) : rows[i] = row})
\* The keys by which rows are ordered: those that they show, or show made distinct.
\* (An order by what is not shown is not seen.)
Shown(row, column) ==
  LET distinct == Aggregated("DISTINCT", column) IN
  CASE column \in DOMAIN row -> row[column]
    [] column \notin DOMAIN row /\ distinct \in DOMAIN row -> row[distinct]
    [] OTHER -> Null
OrderKey(asked, row) == Mapped(asked.orderBy, LAMBDA o : Shown(row, o.column))

\* An answer has the rows of the query, as many times as they occur, and in an
\* order that was asked for; or a stretch of such an answer.
Arranged(asked, all) == SortedBy(all, asked.orderBy, LAMBDA r : OrderKey(asked, r))
IsStretchOf(rows, asked, all, expected) ==
  /\ Len(rows) = Len(expected)
  /\ \A i \in 1..Len(rows) : Occurrences(rows[i], rows) <= Occurrences(rows[i], all)
  /\ \A i \in 1..Len(rows) : OrderKey(asked, rows[i]) = OrderKey(asked, expected[i])
IsRightAnswer(rows, asked, db) ==
  LET all == Projected(asked, Selected(asked, db)) IN
  IsStretchOf(rows, asked, all, Slice(Arranged(asked, all), asked.limit, asked.skip))
=============================================================================
