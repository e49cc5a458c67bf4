----------------------------- MODULE Relations -----------------------------
(***************************************************************************)
(* What the steps of a query plan pass on to one another (proc/relation.ts, *)
(* relation_entry.ts, relation_transformer.ts, pp/aggregation_calculator   *)
(* and the sorting of pp/order_by_step): sequences of entries, where an    *)
(* entry maps the columns of the tables it was put together from to values. *)
(* A column is named by the table as the query calls it (its alias), its   *)
(* own name, and the aggregators applied to it, outermost first.  Values   *)
(* are positive integers or Null.                                          *)
(***************************************************************************)
EXTENDS Integers, Sequences, FiniteSets, TLC, SequencesExt

CONSTANT Null

DummyId == -1

Column(table, name) == [table |-> table, name |-> name, fns |-> <<>>]
Aggregated(fn, column) == [column EXCEPT !.fns = <<fn>> \o @]
CountStar == [table |-> "", name |-> "*", fns |-> <<"COUNT">>]
IsAggregated(column) == column.fns # <<>>
Child(column) == [column EXCEPT !.fns = Tail(@)]
Leaf(column)  == [column EXCEPT !.fns = <<>>]

Entry(id, row) == [id |-> id, row |-> row]
\* A relation carries the aggregations computed for it, by column.
Relation(entries, tables) == [entries |-> entries, tables |-> tables, results |-> <<>>]
EmptyRelation == Relation(<<>>, <<>>)

\* combineEntries(): the rows of both, a table may not occur twice.
Combine(e1, e2) == Entry(DummyId, e1.row @@ e2.row)

\* (The concatenation makes TLC evaluate each element once, not at every use.)
Mapped(s, Op(_)) == <<>> \o [i \in 1..Len(s) |-> Op(s[i])]

\* Relation.intersect() and union(), of lists of the places of entries in one
\* relation: a JavaScript Map lists its keys in the order they were first set.
IntersectionOf(lists) ==
  SelectSeq(lists[1], LAMBDA p : \A i \in 1..Len(lists) : p \in ToSet(lists[i]))
UnionOf(lists) ==
  FoldLeft(LAMBDA seen, list : seen \o SelectSeq(list, LAMBDA p : p \notin ToSet(seen)),
           <<>>, lists)

-----------------------------------------------------------------------------
\* AggregationCalculator

\* reduce(), count(), sum(): nulls are left out, except by COUNT(*).
ValuesOf(relation, column) ==
  SelectSeq(Mapped(relation.entries, LAMBDA e : e.row[column]), LAMBDA v : v # Null)
Reduce(values, Choose(_, _)) ==
  IF values = <<>> THEN Null ELSE FoldLeft(Choose, Head(values), Tail(values))
CountOf(relation, column) ==
  IF column.name = "*" THEN Len(relation.entries) ELSE Len(ValuesOf(relation, column))
SumOf(relation, column) == Reduce(ValuesOf(relation, column), LAMBDA a, b : a + b)

\* distinct(): a value keeps the place of its first entry and takes the last one.
DistinctOf(relation, column) ==
  LET es == relation.entries
      Firsts == SelectSeq([i \in 1..Len(es) |-> i],
                          LAMBDA i : \A j \in 1..(i - 1) : es[j].row[column] # es[i].row[column])
      LastLike(i) == CHOOSE j \in 1..Len(es) :
                       /\ es[j].row[column] = es[i].row[column]
                       /\ \A k \in (j + 1)..Len(es) : es[k].row[column] # es[i].row[column]
  IN  Relation(Mapped(Firsts, LAMBDA i : es[LastLike(i)]), relation.tables)

EvalAggregation(fn, relation, column) ==
  LET Values == ValuesOf(relation, column)
      Count  == CountOf(relation, column)
  IN  CASE fn = "MIN"      -> Reduce(Values, LAMBDA a, b : IF b < a THEN b ELSE a)
        [] fn = "MAX"      -> Reduce(Values, LAMBDA a, b : IF b > a THEN b ELSE a)
        [] fn = "DISTINCT" -> DistinctOf(relation, column)
        [] fn = "COUNT"    -> Count
        [] fn = "SUM"      -> SumOf(relation, column)
        [] fn = "AVG"      -> IF Count > 0 THEN <<SumOf(relation, column), Count>> ELSE Null

\* calculate(), for one column: its aggregators from the innermost outwards, up
\* to the first one whose result is there already.
CalculateColumn(relation, column) ==
  LET n == Len(column.fns)
      Next(acc, i) ==
        LET current == [column EXCEPT !.fns = SubSeq(@, n + 1 - i, n)]
            input   == IF i = 1 THEN acc.relation ELSE acc.relation.results[Child(current)]
        IN  IF acc.stopped \/ current \in DOMAIN input.results
            THEN [acc EXCEPT !.stopped = TRUE]
            ELSE [acc EXCEPT !.relation.results =
                    (current :> EvalAggregation(current.fns[1], input, Leaf(column))) @@ @]
  IN  FoldLeft(Next, [relation |-> relation, stopped |-> FALSE], [i \in 1..n |-> i]).relation
Calculate(relation, columns) == FoldLeft(CalculateColumn, relation, columns)

-----------------------------------------------------------------------------
\* RelationTransformer

\* handleAggregatedColumns(): a lone DISTINCT lists its values; otherwise one
\* entry, in which columns that are not aggregated come from the first one.
HandleAggregated(relation, columns) ==
  IF Len(columns) = 1 /\ columns[1].fns[1] = "DISTINCT"
  THEN Relation(Mapped(relation.results[columns[1]].entries,
                       LAMBDA e : Entry(DummyId, columns[1] :> e.row[Child(columns[1])])),
                <<>>)
  ELSE Relation(<< Entry(DummyId,
                         [c \in ToSet(columns) |-> IF IsAggregated(c) THEN relation.results[c]
                                                   ELSE relation.entries[1].row[c]]) >>,
                relation.tables)

HandleNonAggregated(relation, columns) ==
  Relation(Mapped(relation.entries,
                  LAMBDA e : Entry(e.id, [c \in ToSet(columns) |-> e.row[c]])),
           relation.tables)

Transformed(relation, columns) ==
  IF \E i \in 1..Len(columns) : IsAggregated(columns[i])
  THEN HandleAggregated(relation, columns)
  ELSE HandleNonAggregated(relation, columns)

\* transformMany(): one entry for each relation.
TransformMany(relations, columns) ==
  Relation(Mapped(relations, LAMBDA r : Transformed(r, columns).entries[1]),
           relations[1].tables)

-----------------------------------------------------------------------------
\* Sorting (OrderByStep).  An ordering is a sequence of [column, order].

\* JavaScript compares null like 0, below every key.
Rank(v) == IF v = Null THEN 0 ELSE v
Precedes(orderBy, l, r) ==
  \E i \in 1..Len(orderBy) :
    /\ \A j \in 1..(i - 1) : l[j] = r[j]
    /\ IF orderBy[i].order = "ASC" THEN Rank(l[i]) < Rank(r[i]) ELSE Rank(l[i]) > Rank(r[i])

\* Array#sort is stable.
SortedBy(s, orderBy, Keys(_)) ==
  LET k == Mapped(s, Keys)
      order == SortSeq([i \in 1..Len(s) |-> i],
                       LAMBDA i, j : \/ Precedes(orderBy, k[i], k[j])
                                     \/ ~Precedes(orderBy, k[j], k[i]) /\ i < j)
  IN  Mapped(order, LAMBDA i : s[i])

\* (An aggregate is not a field of an entry.)
EntryKeys(orderBy, entry) ==
  Mapped(orderBy, LAMBDA o : IF o.column \in DOMAIN entry.row THEN entry.row[o.column] ELSE Null)

\* relationComparatorFn(): a group is represented by its last entry.
RelationKeys(orderBy, relation) ==
  Mapped(orderBy, LAMBDA o : IF IsAggregated(o.column) THEN relation.results[o.column]
                             ELSE relation.entries[Len(relation.entries)].row[o.column])

SortEntries(entries, orderBy) == SortedBy(entries, orderBy, LAMBDA e : EntryKeys(orderBy, e))

\* execInternal(): a single relation is sorted by its entries, unless one of the
\* columns was made distinct: then those entries are sorted.
OrderRelations(relations, orderBy) ==
  LET r == relations[1]
      distinct == SelectSeq(orderBy, LAMBDA o : Aggregated("DISTINCT", o.column) \in DOMAIN r.results)
      d == Aggregated("DISTINCT", distinct[1].column)
  IN  IF Len(relations) # 1
      THEN SortedBy(relations, orderBy, LAMBDA g : RelationKeys(orderBy, g))
      ELSE IF distinct = <<>>
      THEN << [r EXCEPT !.entries = SortEntries(@, orderBy)] >>
      ELSE << [r EXCEPT !.results[d].entries = SortEntries(@, orderBy)] >>
=============================================================================
