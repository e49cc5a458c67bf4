----------------------------- MODULE Predicates -----------------------------
(***************************************************************************)
(* The conditions of a query (pred/, base/eval.ts, fn/op.ts): comparisons  *)
(* of a column with values or Binders, comparisons of two columns, and     *)
(* combinations of them.  A predicate is evaluated on a relation, or turned *)
(* into key ranges for an index; a join predicate also joins two relations. *)
(* Each carries the id by which a plan refers to it: a copy keeps the id,  *)
(* and is otherwise the same value.                                        *)
(***************************************************************************)
EXTENDS Relations, KeyRanges

CONSTANTS Columns,      \* for each table, as a query calls it, its columns
          BlockSize     \* rows in a block of the nested loop (256)

\* The value of a predicate is a sequence: one key, the two ends of BETWEEN, or
\* the keys of IN; a Binder that is not bound yet is Unbound.  "binder" has the
\* place, in the values of bind(), that each comes from, or 0.
ValuePredicate(id, column, op, value, binder) ==
  [kind |-> "value", id |-> id, column |-> column, op |-> op, value |-> value,
   binder |-> binder, complement |-> FALSE]
JoinPredicate(id, left, op, right) ==
  [kind |-> "join", id |-> id, left |-> left, op |-> op, right |-> right]
CombinedPredicate(id, operator, children) ==
  [kind |-> "combined", id |-> id, operator |-> operator, children |-> children,
   complement |-> FALSE]

-----------------------------------------------------------------------------
\* Evaluation

EvalFn(op, l, r) ==
  LET Known == l # Null /\ \A i \in 1..Len(r) : r[i] # Null IN
  CASE op = "EQ"      -> l = r[1]
    [] op = "NEQ"     -> l # r[1]
    [] op = "GT"      -> Known /\ l > r[1]
    [] op = "GTE"     -> Known /\ l >= r[1]
    [] op = "LT"      -> Known /\ l < r[1]
    [] op = "LTE"     -> Known /\ l <= r[1]
    [] op = "BETWEEN" -> Known /\ l >= r[1] /\ l <= r[2]

\* evalAsIn()
EvalIn(p, v) == v # Null /\ ((v \in ToSet(p.value)) # p.complement)

EvalValue(p, v) == IF p.op = "IN" THEN EvalIn(p, v) ELSE EvalFn(p.op, v, p.value) # p.complement

EvalJoin(p, entry) == EvalFn(p.op, entry.row[p.left], << entry.row[p.right] >>)

\* The places of the entries that satisfy a predicate, in the order of the result.
RECURSIVE Places(_, _)
Places(p, relation) ==
  LET All1 == [i \in 1..Len(relation.entries) |-> i] IN
  CASE p.kind = "value" -> SelectSeq(All1, LAMBDA i : EvalValue(p, relation.entries[i].row[p.column]))
    [] p.kind = "join"  -> SelectSeq(All1, LAMBDA i : EvalJoin(p, relation.entries[i]))
    [] OTHER -> LET lists == [i \in 1..Len(p.children) |-> Places(p.children[i], relation)]
                IN  IF p.operator = "AND" THEN IntersectionOf(lists) ELSE UnionOf(lists)
Eval(p, relation) ==
  Relation(Mapped(Places(p, relation), LAMBDA i : relation.entries[i]), relation.tables)

-----------------------------------------------------------------------------
\* Building, negating and binding

\* setComplement(): the operator of a combination is toggled, by De Morgan.
RECURSIVE SetComplement(_, _)
SetComplementFlat(p, complement) == [p EXCEPT !.complement = complement]
SetComplement(p, complement) ==
  CASE p.kind = "value" -> [p EXCEPT !.complement = complement]
    [] p.kind = "combined" /\ p.complement = complement -> p
    [] OTHER -> [p EXCEPT !.complement = complement,
                          !.operator = IF @ = "AND" THEN "OR" ELSE "AND",
                          !.children = Mapped(@, LAMBDA c : SetComplement(c, complement))]
Not(p) == SetComplement(p, TRUE)
AndOf(id, children) == CombinedPredicate(id, "AND", children)
OrOf(id, children)  == CombinedPredicate(id, "OR", children)

RECURSIVE Nodes(_)
Nodes(p) == {p} \union (IF p.kind = "combined" THEN UNION {Nodes(p.children[i]) : i \in 1..Len(p.children)}
                        ELSE {})
PredicateIds(p) == {n.id : n \in Nodes(p)}

BindValue(p, values) ==
  [p EXCEPT !.value = [i \in 1..Len(@) |-> IF p.binder[i] = 0 THEN @[i] ELSE values[p.binder[i]]]]
RECURSIVE Bind(_, _)
Bind(p, values) ==
  CASE p.kind = "value"    -> BindValue(p, values)
    [] p.kind = "combined" -> [p EXCEPT !.children = Mapped(@, LAMBDA c : Bind(c, values))]
    [] OTHER -> p
IsBound(p) == Unbound \notin ToSet(p.value)

\* getColumns(), getTables()
ColumnsOf(p) ==
  UNION {IF n.kind = "value" THEN {n.column} ELSE IF n.kind = "join" THEN {n.left, n.right} ELSE {}
         : n \in Nodes(p)}
TablesOf(p) == {c.table : c \in ColumnsOf(p)}

-----------------------------------------------------------------------------
\* Key ranges

\* isKeyRangeCompatible(): "yes", "no", or an exception for an unbound value.
Compatible(p) ==
  IF ~IsBound(p) THEN "unbound" ELSE IF p.op # "NEQ" /\ p.value # <<Null>> THEN "yes" ELSE "no"

\* isKeyRangeCompatibleOr(): the first child that is not about the same column,
\* or not compatible itself, decides.
CompatibleOr(p) ==
  LET Fits(c) == c.kind = "value" /\ Compatible(c) = "yes" /\ c.column = p.children[1].column
      misfits == SelectSeq(p.children, LAMBDA c : ~Fits(c))
  IN  IF misfits = <<>> THEN "yes"
      ELSE IF misfits[1].kind = "value" /\ ~IsBound(misfits[1]) THEN "unbound"
      ELSE "no"

IsKeyRangeCompatible(p) ==
  CASE p.kind = "value" -> Compatible(p)
    [] p.kind = "combined" /\ p.operator = "OR" -> CompatibleOr(p)
    [] OTHER -> "no"

ValueRanges(p) ==
  LET range == CASE p.op = "BETWEEN" -> NewRange(p.value[1], p.value[2], FALSE, FALSE)
                 [] p.op = "EQ"  -> Only(p.value[1])
                 [] p.op = "GTE" -> LowerBound(p.value[1], FALSE)
                 [] p.op = "GT"  -> LowerBound(p.value[1], TRUE)
                 [] p.op = "LTE" -> UpperBound(p.value[1], FALSE)
                 [] p.op = "LT"  -> UpperBound(p.value[1], TRUE)
      onlys == Mapped(p.value, Only)
  IN  IF p.op = "IN" THEN RangeSet(IF p.complement THEN ComplementOf(onlys) ELSE onlys)
      ELSE RangeSet(IF p.complement THEN Complement(range) ELSE <<range>>)

\* toKeyRange()
ToKeyRange(p) ==
  IF p.kind = "value" THEN ValueRanges(p)
  ELSE FoldLeft(LAMBDA set, c : AddRanges(set, ValueRanges(c)), <<>>, p.children)

-----------------------------------------------------------------------------
\* Joins

Mirrored(op) ==
  CASE op = "GT" -> "LT" [] op = "LT" -> "GT" [] op = "GTE" -> "LTE" [] op = "LTE" -> "GTE"
    [] OTHER -> op
Swapped(p) == [p EXCEPT !.left = p.right, !.right = p.left, !.op = Mirrored(p.op)]
\* reverse(): a new predicate, with an id of its own.
ReversePredicate(p, id) == [Swapped(p) EXCEPT !.id = id]

\* detectLeftRight(): the relation of the left column, swapped if it is larger.
DetectLeftRight(p, r1, r2) ==
  LET ordered == p.left.table \in ToSet(r1.tables)
      left  == IF ordered THEN r1 ELSE r2
      right == IF ordered THEN r2 ELSE r1
  IN  IF Len(left.entries) > Len(right.entries)
      THEN [left |-> right, right |-> left, pred |-> Swapped(p)]
      ELSE [left |-> left, right |-> right, pred |-> p]
Operands(p, r1, r2, isOuter) ==
  IF isOuter THEN [left |-> r1, right |-> r2, pred |-> p] ELSE DetectLeftRight(p, r1, r2)

\* createCombinedEntryForUnmatched()
Unmatched(p, entry) ==
  Combine(entry, Entry(DummyId, [c \in {Column(p.right.table, n) : n \in Columns[p.right.table]} |-> Null]))

NestedLoopJoin(p0, r1, r2, isOuter) ==
  LET o == Operands(p0, r1, r2, isOuter)
      p == o.pred
      n == Len(o.right.entries)
      Matches(block, e) ==
        IF e.row[p.left] = Null THEN <<>>
        ELSE SelectSeq([k \in 1..BlockSize |-> (block - 1) * BlockSize + k],
                       LAMBDA j : /\ j <= n
                                  /\ EvalFn(p.op, e.row[p.left], << o.right.entries[j].row[p.right] >>))
      Emitted(block, e) ==
        LET m == Matches(block, e) IN
        IF isOuter /\ m = <<>> THEN << Unmatched(p, e) >>
        ELSE Mapped(m, LAMBDA j : Combine(e, o.right.entries[j]))
      Block(block) == FlattenSeq(Mapped(o.left.entries, LAMBDA e : Emitted(block, e)))
      blocks == (n + BlockSize - 1) \div BlockSize
  IN  Relation(FlattenSeq([b \in 1..blocks |-> Block(b)]), o.left.tables \o o.right.tables)

\* The smaller relation is hashed, or the right one of an outer join.  A key that
\* is null is hashed, but never looked up.
HashJoin(p0, r1, r2, isOuter) ==
  LET o == Operands(p0, r1, r2, isOuter)
      p == o.pred
      hashed == IF isOuter THEN o.right ELSE o.left
      probed == IF isOuter THEN o.left ELSE o.right
      hashedColumn == IF isOuter THEN p.right ELSE p.left
      probedColumn == IF isOuter THEN p.left ELSE p.right
      Matches(e) ==
        IF e.row[probedColumn] = Null THEN <<>>
        ELSE SelectSeq(hashed.entries, LAMBDA h : h.row[hashedColumn] = e.row[probedColumn])
      Emitted(e) ==
        LET m == Matches(e) IN
        IF isOuter /\ m = <<>> THEN << Unmatched(p, e) >> ELSE Mapped(m, LAMBDA h : Combine(e, h))
  IN  Relation(FlattenSeq(Mapped(probed.entries, Emitted)), o.left.tables \o o.right.tables)
=============================================================================
