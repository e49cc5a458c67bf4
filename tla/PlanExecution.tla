--------------------------- MODULE PlanExecution ---------------------------
(***************************************************************************)
(* The execution of a physical plan (proc/pp/*_step.ts, index_helper.ts):  *)
(* every step takes the relations of its children and returns its own.     *)
(* Predicates, limit and skip are those of the context it is executed with, *)
(* which are the ones bound last; the plan itself may be older.            *)
(***************************************************************************)
EXTENDS PhysicalPlans

RowEntry(db, table, id) ==
  Entry(id, [c \in {Column(table, n) : n \in Columns[table]} |-> db[NameOf[table]][id][c.name]])
FromRows(db, table, ids) == Relation(Mapped(ids, LAMBDA id : RowEntry(db, table, id)), << table >>)

\* GetRowCountStep
RowCount(db, table) ==
  [Relation(<<>>, << NameOf[table] >>) EXCEPT !.results = (CountStar :> TotalRows(db, NameOf[table]))]

\* IndexRangeScanStep.  A plan run with the context of the query itself, as an
\* observed query is, reuses the ranges it calculated for that context before.
RangesOf(op, q, index, own) ==
  IF op.ids = <<>> THEN << [i \in 1..Len(index.cols) |-> All] >>
  ELSE IF own /\ op.memo # <<>> THEN op.memo[1]
  ELSE KeyRangeCombinations(q, index, op.ids)
ScannedIds(db, op, index, ranges, limit, skip) ==
  IF IsSingle(index) /\ Len(ranges) = 1 /\ IsOnly(ranges[1][1])
  THEN Slice(Lookup(db, op.name, index, ranges[1][1].from), limit, skip)
  ELSE GetRange(db, op.name, index, ranges, op.reverse, limit, skip)
ScanIndex(db, q, op, own) ==
  LET index == IndexNamed(op.name, op.index)
      limit == IF op.useLimit THEN q.limit ELSE Undefined
      skip  == IF op.useSkip THEN q.skip ELSE Undefined
  IN  Relation(Mapped(ScannedIds(db, op, index, RangesOf(op, q, index, own), limit, skip),
                      LAMBDA id : Entry(id, <<>>)),
               << op.name >>)

\* MultiIndexRangeScanStep
UnionById(relations) ==
  Relation(Mapped(UnionOf(Mapped(relations, LAMBDA r : Mapped(r.entries, LAMBDA e : e.id))),
                  LAMBDA id : Entry(id, <<>>)), relations[1].tables)

\* evalRelationsIndexNestedLoopJoin(): the other side looks its values up.
IndexNestedLoopJoin(db, op, left, right) ==
  LET table == op.indexed.table
      outer == IF table \in ToSet(left.tables) THEN right ELSE left
      index == SingleIndices(op.indexed)[1]
      Found(e) == Lookup(db, NameOf[table], index, e.row[op.other])
      Emitted(e) == Mapped(Found(e), LAMBDA id : Combine(e, RowEntry(db, table, id)))
  IN  Relation(FlattenSeq(Mapped(outer.entries, Emitted)), outer.tables \o << table >>)

Join(db, op, left, right) ==
  CASE op.algorithm = "hash"        -> HashJoin(op.pred, left, right, op.outer)
    [] op.algorithm = "nested_loop" -> NestedLoopJoin(op.pred, left, right, op.outer)
    [] OTHER                        -> IndexNestedLoopJoin(db, op, left, right)

\* CrossProductStep
CrossProduct(left, right) ==
  Relation(FlattenSeq(Mapped(left.entries, LAMBDA l : Mapped(right.entries, LAMBDA r : Combine(l, r)))),
           left.tables \o right.tables)

\* GroupByStep: groups in the order of their first entries.
GroupBy(relation, columns) ==
  LET Key(e) == Mapped(columns, LAMBDA c : e.row[c])
      keys == Mapped(relation.entries, Key)
      firsts == SelectSeq([i \in 1..Len(keys) |-> i], LAMBDA i : \A j \in 1..(i - 1) : keys[j] # keys[i])
  IN  Mapped(firsts, LAMBDA i : Relation(SelectSeq(relation.entries, LAMBDA e : Key(e) = keys[i]),
                                         relation.tables))

\* ProjectStep
Project(op, relations) ==
  CASE relations = <<>>     -> EmptyRelation
    [] Len(relations) > 1   -> TransformMany(relations, op.columns)
    [] Len(relations) = 1 /\ op.columns = <<>> -> relations[1]
    [] OTHER                -> Transformed(relations[1], op.columns)

\* LimitStep, SkipStep
LimitTo(relations, q) == << [relations[1] EXCEPT !.entries = Slice(@, q.limit, Undefined)] >>
SkipSome(relations, q) == << Relation(Slice(relations[1].entries, Undefined, q.skip), relations[1].tables) >>

\* execInternal() of each step.
ExecInternal(op, inputs, db, q, own) ==
  LET first == inputs[1] IN
  CASE op.type = "table"     -> << FromRows(db, op.table, RowIds(db, NameOf[op.table])) >>
    [] op.type = "index"     -> << ScanIndex(db, q, op, own) >>
    [] op.type = "count"     -> << RowCount(db, op.table) >>
    [] op.type = "no_op"     -> << Relation(<<>>, << op.table >>) >>
    [] op.type = "by_row_id" -> << FromRows(db, op.table, Mapped(first.entries, LAMBDA e : e.id)) >>
    [] op.type = "multi"     -> << UnionById(inputs) >>
    [] op.type = "select"    -> << Eval(PredicateOf(q, op.id), first) >>
    [] op.type = "join"      -> << Join(db, op, first, inputs[2]) >>
    [] op.type = "cross"     -> << CrossProduct(first, inputs[2]) >>
    [] op.type = "group"     -> GroupBy(first, op.columns)
    [] op.type = "aggregate" -> Mapped(inputs, LAMBDA r : Calculate(r, op.columns))
    [] op.type = "order"     -> OrderRelations(inputs, op.orderBy)
    [] op.type = "project"   -> << Project(op, inputs) >>
    [] op.type = "limit"     -> LimitTo(inputs, q)
    [] op.type = "skip"      -> SkipSome(inputs, q)
    [] OTHER                 -> inputs     \* delete, update: the rows changed

\* exec(): a step after its children.
RECURSIVE Run(_, _, _, _, _)
Run(t, n, db, q, own) ==
  ExecInternal(t.op[n], FlattenSeq(Mapped(t.kids[n], LAMBDA k : Run(t, k, db, q, own))), db, q, own)

\* What the user gets: the payloads of the first relation.
Answer(t, db, q, own) == Mapped(Run(t, t.root, db, q, own)[1].entries, LAMBDA e : e.row)

\* The ranges that the scans of a plan keep after it was executed.
Remembering(t, q, own) ==
  MapTree(t, LAMBDA op :
    IF op.type # "index" \/ (op.type = "index" /\ op.ids = <<>>) THEN op
    ELSE [op EXCEPT !.memo = IF ~own THEN <<>>
                             ELSE IF @ # <<>> THEN @
                             ELSE << KeyRangeCombinations(q, IndexNamed(op.name, op.index), op.ids) >>])
=============================================================================
