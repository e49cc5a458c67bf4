----------------------------- MODULE MCQueries -----------------------------
(***************************************************************************)
(* A table p with a primary key, an index for each order of ORDER BY, one  *)
(* of two columns and one with nulls; a table c that refers to it, which a *)
(* query may also call d; and recipes that lead to every step and pass.    *)
(***************************************************************************)
EXTENDS Queries

MCColumns == [p |-> {"id", "a", "b", "x"}, c |-> {"id", "pid", "v"}, d |-> {"id", "pid", "v"}]
MCNameOf  == [p |-> "p", c |-> "c", d |-> "c"]

On(name, order) == [name |-> name, order |-> order]
MCIndices ==
  [p |-> << [name |-> "pk",  cols |-> << On("id", "ASC") >>],
            [name |-> "idxA",  cols |-> << On("a", "DESC") >>],
            [name |-> "idxAX", cols |-> << On("a", "ASC"), On("x", "DESC") >>],
            [name |-> "idxB",  cols |-> << On("b", "ASC") >>] >>,
   c |-> << [name |-> "pkC", cols |-> << On("id", "ASC") >>],
            [name |-> "idxPid", cols |-> << On("pid", "ASC") >>] >>]

PRow(id, a, b, x) == [id |-> id, a |-> a, b |-> b, x |-> x]
CRow(id, pid, v)  == [id |-> id, pid |-> pid, v |-> v]
MCDatabases ==
  { [p |-> (2 :> PRow(1, 2, Null, 1)) @@ (4 :> PRow(2, 1, 2, 2)) @@ (5 :> PRow(3, 2, 2, 2)) @@ (7 :> PRow(4, 3, 1, 1)),
     c |-> (1 :> CRow(1, 2, 1)) @@ (3 :> CRow(2, Null, 2)) @@ (6 :> CRow(3, 2, 3)) @@ (8 :> CRow(4, 4, 1))],
    [p |-> (2 :> PRow(3, 2, 1, 2)) @@ (3 :> PRow(1, 2, 2, 1)) @@ (4 :> PRow(2, 2, 2, 2)),
     c |-> (1 :> CRow(1, 3, 2))],
    [p |-> (9 :> PRow(1, 1, 2, 2)), c |-> <<>>] }

P(name) == Column("p", name)
C(name) == Column("c", name)
D(name) == Column("d", name)
Asc(column)  == [column |-> column, order |-> "ASC"]
Desc(column) == [column |-> column, order |-> "DESC"]

Is(id, column, op, value) == ValuePredicate(id, column, op, << value >>, << 0 >>)
BoundTo(id, column, op, places) ==
  ValuePredicate(id, column, op, Mapped(places, LAMBDA i : Unbound), places)
If(pred)    == [pred |-> pred, negated |-> FALSE]
IfNot(pred) == [pred |-> pred, negated |-> TRUE]

Recipe(columns, from) ==
  [kind |-> "select", columns |-> columns, from |-> from, joins |-> <<>>, wheres |-> <<>>,
   orders |-> <<>>, groups |-> <<>>, limits |-> {}, limitBinders |-> {}, skips |-> {}, binds |-> {},
   observable |-> FALSE]
Inner(table, pred) == [table |-> table, pred |-> pred, outer |-> FALSE]
Outer(table, pred) == [table |-> table, pred |-> pred, outer |-> TRUE]

A2 == Is(4, P("a"), "EQ", 2)
\* Conjunctions, disjunctions and negations, over all indices of one table.
Filtered ==
  [Recipe(<<>>, << "p" >>) EXCEPT
     !.wheres = << If(AndOf(10, << A2, Is(2, P("b"), "GT", 1) >>)),
                   If(OrOf(10, << A2, Is(2, P("b"), "EQ", 2), Is(3, P("id"), "GTE", 4) >>)),
                   IfNot(OrOf(10, << Is(1, P("a"), "LT", 2), Is(2, P("x"), "LT", 2) >>)),
                   If(AndOf(10, << OrOf(11, << A2, Is(2, P("a"), "LTE", 1) >>), Is(3, P("x"), "NEQ", 1) >>)),
                   IfNot(A2),
                   If(AndOf(10, << Is(1, P("a"), "GTE", 1), Is(2, P("a"), "LTE", 1), Is(3, P("a"), "LT", 3) >>)),
                   If(AndOf(10, << OrOf(11, << Is(1, P("a"), "LTE", 1), Is(2, P("a"), "EQ", 3) >>),
                                   Not(Is(3, P("a"), "EQ", 1)) >>)),
                   If(ValuePredicate(1, P("id"), "IN", << 3, 1, 2 >>, << 0, 0, 0 >>)) >>,
     !.orders = << Desc(P("a")) >>, !.limits = {1}, !.skips = {1}, !.observable = TRUE]
\* Orders that an index of two columns gives forwards, backwards, or not at all.
Sorted(first, second) ==
  [Recipe(<< P("x"), P("a") >>, << "p" >>) EXCEPT
     !.wheres = << If(Is(1, P("a"), "GTE", 2)), If(Is(1, P("x"), "EQ", 2)) >>,
     !.orders = << first, second >>, !.limits = {2}]
\* Values bound, unbound, and bound anew.
Parameterised ==
  [Recipe(<<>>, << "p" >>) EXCEPT
     !.wheres = << If(AndOf(10, << BoundTo(1, P("a"), "EQ", << 1 >>), BoundTo(2, P("x"), "BETWEEN", << 2, 3 >>) >>)),
                   If(OrOf(10, << BoundTo(1, P("a"), "EQ", << 1 >>), BoundTo(2, P("b"), "GTE", << 2 >>) >>)) >>,
     !.limitBinders = {3}, !.binds = { << 2, 1, 2 >>, << 1, 2, 3 >> }]
\* Aggregates of all rows, of groups, and of those sorted.
Counted == [Recipe(<< CountStar >>, << "p" >>) EXCEPT !.orders = << Desc(CountStar) >>, !.wheres = << If(A2) >>]
Summed ==
  [Recipe(<< Aggregated("SUM", P("b")), Aggregated("COUNT", P("b")), Aggregated("MIN", P("a")),
             Aggregated("SUM", Aggregated("DISTINCT", P("b"))), Aggregated("MAX", P("x")) >>, << "p" >>) EXCEPT
     !.wheres = << If(A2), If(Is(1, P("a"), "GT", 3)) >>, !.limits = {1}]
Grouped ==
  [Recipe(<< P("a"), CountStar, Aggregated("SUM", P("b")) >>, << "p" >>) EXCEPT
     !.wheres = << If(Is(1, P("x"), "LTE", 2)) >>,
     !.groups = << << P("a") >> >>, !.orders = << Asc(P("a")), Desc(CountStar) >>, !.limits = {1}]
MadeDistinct ==
  [Recipe(<< Aggregated("DISTINCT", P("x")) >>, << "p" >>) EXCEPT
     !.wheres = << If(Is(1, P("a"), "LTE", 2)) >>, !.orders = << Desc(P("x")) >>, !.limits = {1}]
\* Sorted by an index, a table that is only counted is not found any more.
CountedInOrder == [Recipe(<< CountStar >>, << "p" >>) EXCEPT !.orders = << Desc(P("a")) >>]

OfParent == JoinPredicate(5, P("id"), "EQ", C("pid"))
JoinedTables ==
  [Recipe(<<>>, << "p" >>) EXCEPT
     !.joins = << Inner("c", OfParent) >>,
     !.wheres = << If(AndOf(10, << Is(1, C("v"), "EQ", 1), A2 >>)), If(Is(1, P("a"), "LTE", 2)),
                   If(OrOf(10, << A2, Is(2, P("b"), "EQ", 2) >>)) >>,
     !.orders = << Desc(P("a")) >>, !.limits = {2}, !.skips = {1}, !.observable = TRUE]
OuterJoined ==
  [Recipe(<<>>, << "p" >>) EXCEPT
     !.joins = << Outer("c", JoinPredicate(5, C("pid"), "EQ", P("id"))), Inner("d", JoinPredicate(6, D("v"), "LT", P("a"))) >>,
     !.wheres = << If(Is(1, C("v"), "LT", 3)), If(AndOf(10, << A2, Is(1, C("id"), "EQ", 1) >>)) >>,
     !.observable = TRUE]
CrossJoined ==
  [Recipe(<<>>, << "p", "c", "d" >>) EXCEPT
     !.wheres = << If(AndOf(10, << OfParent, Is(1, D("id"), "EQ", 1), Is(2, C("v"), "GTE", 1) >>)),
                   If(AndOf(10, << OfParent, JoinPredicate(6, D("v"), "GTE", C("v")) >>)) >>]

Deleted == [Recipe(<<>>, << "p" >>) EXCEPT !.kind = "delete",
              !.wheres = << If(AndOf(10, << A2, Is(2, P("x"), "EQ", 1) >>)), IfNot(A2) >>]
Updated == [Recipe(<<>>, << "p" >>) EXCEPT !.kind = "update",
              !.wheres = << If(A2), If(AndOf(10, << A2, Is(2, P("x"), "EQ", 1) >>)) >>]

MCRecipes ==
  << Filtered, Sorted(Asc(P("a")), Desc(P("x"))), Sorted(Desc(P("a")), Asc(P("x"))),
     Sorted(Asc(P("a")), Asc(P("x"))), Parameterised, Counted, Summed, Grouped, MadeDistinct,
     CountedInOrder, JoinedTables, OuterJoined, CrossJoined, Deleted, Updated >>

-----------------------------------------------------------------------------
\* A disjunction above rows that an index has sorted.
UnsortedRecipes ==
  << [Recipe(<<>>, << "p" >>) EXCEPT
        !.wheres = << If(OrOf(10, << Is(1, P("x"), "EQ", 1), Is(2, P("b"), "EQ", 2) >>)) >>,
        !.orders = << Asc(P("a")) >>] >>
=============================================================================
