------------------------------ MODULE Queries ------------------------------
(***************************************************************************)
(* A query from its builder to its answers (query/, proc/lp/, proc/pp/):   *)
(* the builder collects what is asked for in a context; the first time the *)
(* query is executed or observed a plan is generated from it, pass by pass, *)
(* and kept; the plan is then executed any number of times, while rows are *)
(* changed by others and values are bound anew.  Each execution must answer *)
(* what was asked, of the rows there are at that time.                     *)
(***************************************************************************)
EXTENDS QueryMeaning

CONSTANTS Databases,    \* what the rows may be
          Recipes,      \* a sequence of what a user may ask for, see Init
          MaxChanges,   \* bound on the commits of others
          RebindsObserved  \* whether a query may be bound anew after it is observed

VARIABLES db,        \* the committed rows
          recipe,    \* what this query's user may ask for
          query,     \* SelectBuilder.query: its context
          asked,     \* the calls made, as their meaning is defined on
          plan,      \* BaseBuilder.plan: nothing, or a tree and the passes it went through
          answer,    \* what the last step returned, if it was an execution
          observed,  \* whether the query is executed with its own context
          changes    \* commits of others so far
vars == <<db, recipe, query, asked, plan, answer, observed, changes>>

-----------------------------------------------------------------------------
\* Passes

SelectPasses == << "and", "cross", "push_down", "implicit_joins", "physical", "index_join",
                   "index_range_scan", "multi_column_or", "order_by_index", "limit_skip", "row_count" >>
DeletePasses == << "and", "physical", "index_range_scan" >>
UpdatePasses == << "physical", "index_range_scan" >>
PassesOf(q) == CASE q.kind = "select" -> SelectPasses
                 [] q.kind = "delete" -> DeletePasses
                 [] q.kind = "update" -> UpdatePasses

Rewritten(pass, t, q, rows) ==
  CASE pass = "and"              -> AndPredicatePass(t, q)
    [] pass = "cross"            -> CrossProductPass(t, q)
    [] pass = "push_down"        -> PushDownSelectionsPass(t, q)
    [] pass = "implicit_joins"   -> ImplicitJoinsPass(t, q)
    [] pass = "physical"         -> ToPhysical(t)
    [] pass = "index_join"       -> IndexJoinPass(t, q)
    [] pass = "index_range_scan" -> IndexRangeScanPass(t, q, rows)
    [] pass = "multi_column_or"  -> MultiColumnOrPass(t, q, rows)
    [] pass = "order_by_index"   -> OrderByIndexPass(t, q)
    [] pass = "limit_skip"       -> LimitSkipByIndexPass(t, q)
    [] pass = "row_count"        -> GetRowCountPass(t, q)
Fails(pass, t, q, rows) ==
  CASE pass = "index_range_scan" -> IndexRangeScanFails(t, q)
    [] pass = "multi_column_or"  -> MultiColumnOrFails(t, q, rows)
    [] pass = "row_count"        -> GetRowCountFails(t, q)
    [] OTHER                     -> FALSE

Planning == plan # <<>> /\ plan[1].done < Len(PassesOf(query))
Planned  == plan # <<>> /\ plan[1].done = Len(PassesOf(query))
IsPhysical == \E i \in 1..Len(PassesOf(query)) : PassesOf(query)[i] = "physical" /\ plan[1].done >= i

-----------------------------------------------------------------------------
\* A recipe: the kind of query, the columns selected and the tables of from(); the
\* joins that may follow in order; conditions [pred, negated] for where(), columns for orderBy()
\* and groupBy(), limits and skips, values for bind(), and whether it
\* may be observed.

Init ==
  /\ db \in Databases
  /\ \E i \in 1..Len(Recipes) : recipe = Recipes[i]
  /\ query = [NewQuery(recipe.kind, recipe.columns) EXCEPT !.from = recipe.from]
  /\ asked = [from |-> recipe.from, joins |-> <<>>, where |-> <<>>, columns |-> recipe.columns,
              groupBy |-> <<>>, orderBy |-> <<>>, limit |-> Undefined, skip |-> Undefined]
  /\ plan = <<>> /\ answer = <<>> /\ observed = FALSE /\ changes = 0

\* Once there is a plan, the builder still takes calls but does not heed them: the
\* user of this specification makes them before.
Building == plan = <<>> /\ ~observed
Called == answer' = <<>> /\ UNCHANGED <<db, recipe, plan, observed, changes>>

\* augmentWhereClause()
Augmented(q, p) ==
  IF q.where = <<>> THEN << p >>
  ELSE << AndOf(1000 + Len(q.from), << p, q.where[1] >>) >>

\* innerJoin()
InnerJoin(join) ==
  /\ Building /\ ~join.outer /\ asked.where = <<>>
  /\ query' = [query EXCEPT !.from = Append(@, join.table), !.where = Augmented([query EXCEPT !.from = Append(@, join.table)], join.pred)]
  /\ asked' = [asked EXCEPT !.joins = Append(@, join)]
  /\ Called

\* leftOuterJoin(): the table that is joined is on the right of the predicate.
Normalized(table, p) == IF table = p.right.table THEN p ELSE ReversePredicate(p, p.id + 100)
LeftOuterJoin(join) ==
  LET p == Normalized(join.table, join.pred) IN
  /\ Building /\ join.outer /\ asked.where = <<>>
  /\ query' = [query EXCEPT !.from = Append(@, join.table),
                            !.outer = @ \union {p.id},
                            !.where = Augmented([query EXCEPT !.from = Append(@, join.table)], p)]
  /\ asked' = [asked EXCEPT !.joins = Append(@, join)]
  /\ Called

\* The joins of a recipe are called in order, each at most once.
MayJoin(join) ==
  \E i \in 1..Len(recipe.joins) :
    /\ recipe.joins[i] = join
    /\ Len(asked.joins) < i
    /\ asked.joins = SubSeq(recipe.joins, 1, Len(asked.joins))
    /\ i = Len(asked.joins) + 1

\* where(), of a condition or of op.not() of it.
Where(condition) ==
  LET p == IF condition.negated THEN Not(condition.pred) ELSE condition.pred IN
  /\ Building /\ asked.where = <<>>
  /\ query' = [query EXCEPT !.where = Augmented(query, p)]
  /\ asked' = [asked EXCEPT !.where = << condition >>]
  /\ Called

OrderBy(o) ==
  /\ Building /\ o \notin ToSet(asked.orderBy)
  /\ query' = [query EXCEPT !.orderBy = Append(@, o)]
  /\ asked' = [asked EXCEPT !.orderBy = Append(@, o)]
  /\ Called

GroupByColumns(columns) ==
  /\ Building /\ asked.groupBy = <<>>
  /\ query' = [query EXCEPT !.groupBy = columns]
  /\ asked' = [asked EXCEPT !.groupBy = columns]
  /\ Called

\* limit(), skip(): a number, or a Binder for the value at a place of those of bind().
Limit(n) ==
  /\ Building /\ query.limit = Undefined /\ query.limitBinder = 0
  /\ query' = [query EXCEPT !.limit = n] /\ asked' = [asked EXCEPT !.limit = n]
  /\ Called
LimitBinder(place) ==
  /\ Building /\ query.limit = Undefined /\ query.limitBinder = 0
  /\ query' = [query EXCEPT !.limitBinder = place]
  /\ Called /\ UNCHANGED asked
Skip(n) ==
  /\ Building /\ query.skip = Undefined /\ query.skipBinder = 0
  /\ query' = [query EXCEPT !.skip = n] /\ asked' = [asked EXCEPT !.skip = n]
  /\ Called

\* bind(): of the predicates of the query, not of those in its plan.
BindPredicates(q, values) == Mapped(q.where, LAMBDA p : Bind(p, values))
BindValues(values) ==
  LET limit == IF query.limitBinder # 0 THEN values[query.limitBinder] ELSE query.limit IN
  /\ ~Planning
  /\ ~observed \/ RebindsObserved
  /\ query' = [query EXCEPT !.where = BindPredicates(query, values), !.limit = limit]
  /\ asked' = [asked EXCEPT !.limit = limit,
                            !.where = Mapped(@, LAMBDA c : [c EXCEPT !.pred = Bind(@, values)])]
  /\ answer' = <<>>
  /\ UNCHANGED <<db, recipe, plan, observed, changes>>

-----------------------------------------------------------------------------
\* assertExecPreconditions()
MixesAggregates(q) ==
  /\ \E i \in 1..Len(q.columns) : IsAggregated(q.columns[i])
  /\ \E i \in 1..Len(q.columns) : ~IsAggregated(q.columns[i])
ExecPreconditions(q) ==
  /\ q.limitBinder # 0 => q.limit # Undefined
  /\ q.groupBy = <<>> => ~MixesAggregates(q)

\* The query becomes one that is observed; a query of Binders is not, unless it may
\* be bound anew.
Observe ==
  /\ plan = <<>> /\ ~observed /\ query.kind = "select"
  /\ ExecPreconditions(query)
  /\ recipe.observable /\ (recipe.binds = {} \/ RebindsObserved)
  /\ observed' = TRUE
  /\ answer' = <<>>
  /\ UNCHANGED <<db, recipe, query, asked, plan, changes>>

\* getPlan(), the first time.
GeneratePlan ==
  /\ plan = <<>> /\ ExecPreconditions(query)
  /\ plan' = << [tree |-> InitialPlan(query), done |-> 0] >>
  /\ answer' = <<>>
  /\ UNCHANGED <<db, recipe, query, asked, observed, changes>>

\* One pass.  Planning is synchronous: nothing else happens between two of them.
Rewrite ==
  LET pass == PassesOf(query)[plan[1].done + 1] IN
  /\ Planning
  /\ ~Fails(pass, plan[1].tree, query, db)
  /\ plan' = << [tree |-> Rewritten(pass, plan[1].tree, query, db), done |-> plan[1].done + 1] >>
  /\ UNCHANGED <<db, recipe, query, asked, answer, observed, changes>>
\* An exception is thrown to the caller, and no plan is kept.
RewriteFails ==
  /\ Planning
  /\ Fails(PassesOf(query)[plan[1].done + 1], plan[1].tree, query, db)
  /\ plan' = <<>>
  /\ UNCHANGED <<db, recipe, query, asked, answer, observed, changes>>

\* An index scan cannot make ranges of a predicate that no longer allows it, and no
\* predicate is evaluated before its value is bound.
Executable(t) ==
  /\ \A p \in UNION {Nodes(query.where[i]) : i \in 1..Len(query.where)} : p.kind = "value" => IsBound(p)
  /\ \A n \in NodesOf(t) : IsType(t, n, "index") =>
       \A id \in ToSet(t.op[n].ids) : IsKeyRangeCompatible(PredicateOf(query, id)) = "yes"

\* exec(): with a copy of the context.
Exec ==
  /\ Planned /\ ~observed /\ ExecPreconditions(query) /\ Executable(plan[1].tree)
  /\ answer' = << Answer(plan[1].tree, db, query, FALSE) >>
  /\ plan' = << [plan[1] EXCEPT !.tree = Remembering(@, query, FALSE)] >>
  /\ UNCHANGED <<db, recipe, query, asked, observed, changes>>
\* An ObserverQueryTask: with the context of the query itself.
RunObserved ==
  /\ Planned /\ observed /\ Executable(plan[1].tree)
  /\ answer' = << Answer(plan[1].tree, db, query, TRUE) >>
  /\ plan' = << [plan[1] EXCEPT !.tree = Remembering(@, query, TRUE)] >>
  /\ UNCHANGED <<db, recipe, query, asked, observed, changes>>

\* Another transaction commits.  (Before there is a plan the rows are not looked at:
\* that is only another beginning.)
Commit(rows) ==
  /\ Planned /\ changes < MaxChanges /\ rows # db
  /\ db' = rows /\ changes' = changes + 1 /\ answer' = <<>>
  /\ UNCHANGED <<recipe, query, asked, plan, observed>>

Next ==
  \/ \E i \in 1..Len(recipe.joins) : MayJoin(recipe.joins[i]) /\ InnerJoin(recipe.joins[i])
  \/ \E i \in 1..Len(recipe.joins) : MayJoin(recipe.joins[i]) /\ LeftOuterJoin(recipe.joins[i])
  \/ \E i \in 1..Len(recipe.wheres) :
       TablesOf(recipe.wheres[i].pred) \subseteq ToSet(query.from) /\ Where(recipe.wheres[i])
  \/ \E i \in 1..Len(recipe.orders) : OrderBy(recipe.orders[i])
  \/ \E i \in 1..Len(recipe.groups) : GroupByColumns(recipe.groups[i])
  \/ \E n \in recipe.limits : Limit(n)
  \/ \E place \in recipe.limitBinders : LimitBinder(place)
  \/ \E n \in recipe.skips : Skip(n)
  \/ \E values \in recipe.binds : BindValues(values)
  \/ Observe
  \/ GeneratePlan
  \/ Rewrite
  \/ RewriteFails
  \/ Exec
  \/ RunObserved
  \/ \E rows \in Databases : Commit(rows)

Spec == Init /\ [][Next]_vars

-----------------------------------------------------------------------------
\* Every answer is one that the calls made and the values bound last mean, for the
\* rows there are when the plan, whenever it was made, is executed.
AnswersAreRight == answer # <<>> => IsRightAnswer(answer[1], asked, db)

\* Each physical pass leaves a plan with the same answers: had the plan been left
\* as it is after any of them, it could be executed.  (Each pass is only to make it
\* faster: "an equivalent tree", as the passes' comments have it.)
PassesKeepTheAnswer ==
  Planning /\ IsPhysical /\ Executable(plan[1].tree) =>
    IsRightAnswer(Answer(plan[1].tree, db, query, FALSE), asked, db)

=============================================================================
