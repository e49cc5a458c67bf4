---------------------------- MODULE MCForeignKeys ----------------------------
(* Up to three tables; the foreign keys are declared in any order. *)
EXTENDS ForeignKeys, TLC

Column(t, c) == [op |-> "addColumn", table |-> t, column |-> c, type |-> "integer"]
Fk(t, name, c, pt, pc, action, timing) ==
    [op |-> "addForeignKey", table |-> t, name |-> name, column |-> c,
     parentTable |-> pt, parentColumn |-> pc, action |-> action, timing |-> timing]
Nullable(t, c) == [op |-> "addNullable", table |-> t, columns |-> <<c>>]
Table(t) ==
    <<[op |-> "createTable", table |-> t], Column(t, "id"),
      [op |-> "addPrimaryKey", table |-> t, columns |-> <<"id">>]>>

ThreeTables == Table("P") \o Table("M") \o Table("C") \o
    <<Column("M", "p"), Nullable("M", "p"), Column("C", "p"), Nullable("C", "p")>>

U == <<Column("P", "u"), Nullable("P", "u")>>
M == <<Column("C", "m"), Nullable("C", "m")>>

ChildOfParent == Fk("M", "fkP", "p", "P", "id", "cascade", "immediate")
ChildOfItself == Fk("M", "fkP", "p", "M", "id", "restrict", "deferrable")
ChildOfChild == Fk("C", "fkM", "m", "M", "id", "cascade", "immediate")
Shortcut == Fk("C", "fkP", "p", "P", "id", "cascade", "immediate")
Restricted == Fk("C", "fkP", "p", "P", "id", "restrict", "deferrable")
OfUnique == Fk("C", "fkP", "p", "P", "u", "restrict", "immediate")
Back == Fk("P", "fkC", "u", "C", "id", "restrict", "immediate")

UniqueU == [op |-> "addUnique", table |-> "P", name |-> "uqU", columns |-> <<"u">>]
UniqueM == [op |-> "addUnique", table |-> "C", name |-> "uqM", columns |-> <<"m">>]

Declarations ==
    ToSet(U \o M) \cup
    {ChildOfParent, ChildOfItself, ChildOfChild, Shortcut, Restricted, OfUnique, Back, UniqueU, UniqueM,
     [op |-> "createTable", table |-> "X"],
     [op |-> "addIndex", table |-> "M", name |-> "ixId", columns |-> <<"id">>, unique |-> FALSE]}

SchemaOf(calls) == FoldLeft(After, NoBuilders, ThreeTables \o calls)

\* A diamond of cascades, on a unique column; a chain of cascades; deferrable keys, on
\* which two statements make a transaction; a key that refers to a unique column.
SomeSchemas ==
    SchemaOf(M \o <<UniqueM, ChildOfParent, ChildOfChild, Shortcut>>) :> 1 @@
    SchemaOf(M \o <<ChildOfParent, ChildOfChild>>) :> 1 @@
    SchemaOf(<<ChildOfItself, Restricted>>) :> 2 @@
    SchemaOf(U \o <<UniqueU, ChildOfParent, OfUnique>>) :> 1

ASSUME SchemasAreRegular == \A s \in DOMAIN SomeSchemas : Regular(s)

\* A cascade to a column that is not the primary key.
Cascading == Fk("C", "fkP", "p", "P", "u", "cascade", "immediate")
CascadeDeclarations == ToSet(U) \cup {UniqueU, Cascading}
CascadeSchema == SchemaOf(U \o <<UniqueU, Cascading>>) :> 1

Symmetry == Permutations(RowIds) \cup Permutations(Keys)
=============================================================================
