---------------------------- MODULE LogicalPlans ----------------------------
(***************************************************************************)
(* From a query to its logical plan (proc/lp/): a chain of nodes in a fixed *)
(* order above the tables, and four passes that break up conjunctions, make *)
(* cross products binary, push selections towards the tables they are about *)
(* and turn selections by a join predicate into joins.                     *)
(***************************************************************************)
EXTENDS Predicates, PlanTrees

Undefined == -1

\* A query context (query/context.ts, select_context.ts): optional parts are
\* sequences of at most one, a limit or skip may be Undefined, and binders are the
\* places of the values that bind() gives them, or 0.
NewQuery(kind, columns) ==
  [kind |-> kind, columns |-> columns, from |-> <<>>, where |-> <<>>, outer |-> {},
   orderBy |-> <<>>, groupBy |-> <<>>, limit |-> Undefined, skip |-> Undefined,
   limitBinder |-> 0, skipBinder |-> 0]

IsType(t, n, type) == t.op[n].type = type

-----------------------------------------------------------------------------
\* Generators

Chain(ops, tables) ==
  LET n == Len(ops)
      m == Len(tables)
      op == [i \in 1..(n + m) |-> IF i <= n THEN ops[i] ELSE [type |-> "table", table |-> tables[i - n]]]
      kids == [i \in 1..(n + m) |->
                 IF i < n THEN << i + 1 >> ELSE IF i = n THEN [j \in 1..m |-> n + j] ELSE <<>>]
  IN  Tree(1, op, kids)

SelectNodes(q) == Mapped(q.where, LAMBDA p : [type |-> "select", pred |-> p])
OptionalNode(present, op) == IF present THEN << op >> ELSE <<>>

AggregatedColumns(q) ==
  SelectSeq(q.columns \o Mapped(q.orderBy, LAMBDA o : o.column), IsAggregated)

\* SelectLogicalPlanGenerator
LimitNodes(q) == OptionalNode(q.limit # Undefined, [type |-> "limit"])
SkipNodes(q)  == OptionalNode(q.skip > 0 \/ q.skipBinder # 0, [type |-> "skip"])
SelectPlan(q) ==
  Chain(LimitNodes(q) \o SkipNodes(q)
        \o << [type |-> "project", columns |-> q.columns, groupBy |-> q.groupBy] >>
        \o OptionalNode(q.orderBy # <<>>, [type |-> "order", orderBy |-> q.orderBy])
        \o OptionalNode(AggregatedColumns(q) # <<>>, [type |-> "aggregate", columns |-> AggregatedColumns(q)])
        \o OptionalNode(q.groupBy # <<>>, [type |-> "group", columns |-> q.groupBy])
        \o SelectNodes(q)
        \o OptionalNode(Len(q.from) > 1, [type |-> "cross"]), q.from)

\* DeleteLogicalPlanGenerator, UpdateLogicalPlanGenerator
ChangePlan(q) == Chain(<< [type |-> q.kind] >> \o SelectNodes(q), q.from)

InitialPlan(q) == IF q.kind = "select" THEN SelectPlan(q) ELSE ChangePlan(q)

-----------------------------------------------------------------------------
\* AndPredicatePass

RECURSIVE Conjuncts(_)
Conjuncts(p) ==
  IF p.kind = "combined" /\ p.operator = "AND"
  THEN FlattenSeq(Mapped(p.children, Conjuncts))
  ELSE << p >>

AndPredicatePass(t, q) ==
  FoldLeft(LAMBDA acc, n : ReplaceNodeWithChain(acc, n,
                             Mapped(Conjuncts(acc.op[n].pred), LAMBDA p : [type |-> "select", pred |-> p])),
           t, Find(t, t.root, LAMBDA n : IsType(t, n, "select")))

-----------------------------------------------------------------------------
\* CrossProductPass: while a product has more than two factors, the first two
\* become one.

RECURSIVE Paired(_, _)
Paired(t, n) ==
  LET kids == t.kids[n] IN
  IF Len(kids) <= 2 THEN t
  ELSE LET t1 == AddNode(t, [type |-> "cross"], SubSeq(kids, 1, 2)) IN
       Paired([t1 EXCEPT !.kids = (n :> (<< t.next >> \o SubSeq(kids, 3, Len(kids)))) @@ @], n)

CrossProductPass(t, q) ==
  IF Len(q.from) < 3 THEN t
  ELSE FoldLeft(Paired, t, Find(t, t.root, LAMBDA n : IsType(t, n, "cross")))

-----------------------------------------------------------------------------
\* PushDownSelectionsPass

\* doesReferToTables()
Covering(t, n, tables) == tables \subseteq {t.op[l].table : l \in ToSet(LeafNodes(t, n))}

ShouldSwapWithChild(t, q, n) ==
  LET child == t.kids[n][1] IN
  /\ IsType(t, child, "select")
  /\ t.op[n].pred.kind = "join" \/ t.op[child].pred.id \notin q.outer

ShouldPushBelowChild(t, n) ==
  LET child == t.kids[n][1] IN IsType(t, child, "cross") \/ IsType(t, child, "join")

\* pushDownNodeRec(): the tree, and what is now on top.
RECURSIVE PushDownNode(_, _, _, _)
PushDownNode(t, q, n, tables) ==
  IF ShouldSwapWithChild(t, q, n)
  THEN [tree |-> PushDownNode(SwapNodeWithChild(t, n), q, n, tables).tree, top |-> t.kids[n][1]]
  ELSE IF ShouldPushBelowChild(t, n)
  THEN LET child == t.kids[n][1]
           chosen == {g \in ToSet(t.kids[child]) : Covering(t, g, tables)}
           pushed == PushNodeBelowChild(t, n, chosen)
       IN  IF chosen = {} THEN [tree |-> t, top |-> n]
           ELSE [tree |-> FoldLeft(LAMBDA acc, c : PushDownNode(acc, q, c, tables).tree,
                                   pushed.tree, pushed.copies),
                 top |-> child]
  ELSE [tree |-> t, top |-> n]

\* processNodeRec() and processChildren(): a node that was moved is looked at again
\* from its new place, one that was cut off has no children any more.
RECURSIVE ProcessNode(_, _, _), ProcessChildren(_, _, _, _)
ProcessChildren(acc, q, n, i) ==
  IF n \notin NodesOf(acc.tree) \/ i > Len(acc.tree.kids[n]) THEN acc
  ELSE ProcessChildren(ProcessNode(acc, q, acc.tree.kids[n][i]), q, n, i + 1)
ProcessNode(acc, q, n) ==
  IF n \in acc.pushed THEN acc
  ELSE IF ~IsType(acc.tree, n, "select") THEN ProcessChildren(acc, q, n, 1)
  ELSE LET r == PushDownNode(acc.tree, q, n, TablesOf(acc.tree.op[n].pred))
           acc1 == [tree |-> r.tree, pushed |-> acc.pushed \union {n}]
           acc2 == IF r.top = n THEN acc1 ELSE ProcessNode(acc1, q, r.top)
       IN  ProcessChildren(acc2, q, n, 1)

PushDownSelectionsPass(t, q) ==
  IF q.where = <<>> THEN t ELSE ProcessNode([tree |-> t, pushed |-> {}], q, t.root).tree

-----------------------------------------------------------------------------
\* ImplicitJoinsPass: a join predicate right above a product makes it a join.

ToJoin(q, acc, n) ==
  LET p == acc.op[n].pred
      child == acc.kids[n][1]
  IN  IF ~IsType(acc, child, "cross") THEN acc
      ELSE ReplaceChain(acc, n, child, << [type |-> "join", pred |-> p, outer |-> p.id \in q.outer] >>)

ImplicitJoinsPass(t, q) ==
  IF Len(q.from) < 2 THEN t
  ELSE FoldLeft(LAMBDA acc, n : ToJoin(q, acc, n), t,
                Find(t, t.root, LAMBDA n : IsType(t, n, "select") /\ t.op[n].pred.kind = "join"))
=============================================================================
