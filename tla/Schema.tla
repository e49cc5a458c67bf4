------------------------------- MODULE Schema -------------------------------
(***************************************************************************)
(* lib/schema: an application declares tables, columns, keys and foreign   *)
(* keys with a Builder and its TableBuilders, in any order, then connects. *)
(* The first connect finalizes the schema: it checks the foreign keys and  *)
(* freezes the tables.                                                     *)
(*                                                                         *)
(* A call that throws before it has changed anything is no step.  Names    *)
(* are valid (checkNamingRules); auto-increment is not modelled.           *)
(***************************************************************************)
EXTENDS Naturals, FiniteSets, Sequences, SequencesExt, FiniteSetsExt

CONSTANTS
    TableNames,  \* the names of tables
    Prelude,     \* the calls the application makes first, a sequence
    Calls,       \* the calls it may make then, in any order, before it connects
    None         \* "undefined", "null"

\* The calls of a Builder and its TableBuilders.
Call ==
    [op : {"createTable"}, table : TableNames] \cup
    [op : {"addColumn"}, table : TableNames, column : STRING, type : STRING] \cup
    [op : {"addPrimaryKey", "addNullable"}, table : TableNames, columns : Seq(STRING)] \cup
    [op : {"addForeignKey"}, table : TableNames, name : STRING, column : STRING,
     parentTable : TableNames, parentColumn : STRING,
     action : {"cascade", "restrict"}, timing : {"immediate", "deferrable"}] \cup
    [op : {"addUnique"}, table : TableNames, name : STRING, columns : Seq(STRING)] \cup
    [op : {"addIndex"}, table : TableNames, name : STRING, columns : Seq(STRING), unique : BOOLEAN]

ASSUME SchemaAssumption ==
    /\ IsFiniteSet(TableNames)
    /\ Prelude \in Seq(Call) /\ Calls \subseteq Call
    /\ None \notin {"init", "open", "closed"}

\* ForeignKeySpec: the foreign key "name" of a child column.
ForeignKey(call) ==
    [name         |-> call.name,
     childTable   |-> call.table,
     childColumn  |-> call.column,
     parentTable  |-> call.parentTable,
     parentColumn |-> call.parentColumn,
     action       |-> call.action,
     timing       |-> call.timing]

VARIABLES
    builders,    \* the TableBuilders of the Builder, by table name
    created,     \* the order in which the tables were created
    schema,      \* the tables of the finalized schema, or None
    connecting,  \* Builder.connectInProgress
    db           \* the RuntimeDatabase of the Builder: None, "init", "open" or "closed"

schemaVars == <<builders, created, schema, connecting, db>>

-----------------------------------------------------------------------------
(* TableBuilder *)

NewTable ==
    [columns |-> <<>>, uniqueColumns |-> {}, uniqueIndices |-> {}, nullable |-> {},
     pkName |-> None, indices |-> <<>>, fkSpecs |-> <<>>]

PkName(table) == "pk" \o table

\* A map with a key that may be new.
With(f, key, value) == [k \in DOMAIN f \cup {key} |-> IF k = key THEN value ELSE f[k]]

\* checkNameConflicts lets the name pass.
NameFree(b, table, name) ==
    name # table /\ name \notin DOMAIN b.columns \cup DOMAIN b.indices \cup b.uniqueIndices

\* normalizeColumns with checkIndexable: a column of type object is not indexable.
Indexable(b, columns) ==
    \A i \in DOMAIN columns : columns[i] \in DOMAIN b.columns /\ b.columns[columns[i]] # "object"

AddColumn(b, call) ==
    IF ~NameFree(b, call.table, call.column) THEN b
    ELSE [b EXCEPT !.columns = With(@, call.column, call.type),
                   !.nullable = IF call.type = "object" THEN @ \cup {call.column} ELSE @]

AddIndex(b, call) ==
    IF ~NameFree(b, call.table, call.name) \/ ~Indexable(b, call.columns) THEN b
    ELSE [b EXCEPT !.indices = With(@, call.name, call.columns),
                   !.uniqueIndices = IF call.unique THEN @ \cup {call.name} ELSE @]

\* The name of the key is set before the columns are checked.
AddPrimaryKey(b, call) ==
    LET name == PkName(call.table)
        named == [b EXCEPT !.pkName = name]
    IN IF ~NameFree(b, call.table, name) \/ ~Indexable(b, call.columns) THEN named
       ELSE [named EXCEPT
               !.uniqueColumns = IF Len(call.columns) = 1 THEN @ \cup {call.columns[1]} ELSE @,
               !.uniqueIndices = @ \cup {name},
               !.indices = With(@, name, call.columns)]

\* The foreign key is kept even if its index is then refused.
AddForeignKey(b, call) ==
    IF \/ ~NameFree(b, call.table, call.name)
       \/ call.action = "cascade" /\ call.timing = "deferrable"
       \/ call.column \notin DOMAIN b.columns
    THEN b
    ELSE AddIndex([b EXCEPT !.fkSpecs = Append(@, ForeignKey(call))],
                  [table |-> call.table, name |-> call.name, columns |-> <<call.column>>,
                   unique |-> call.column \in b.uniqueColumns])

\* With markFkIndexForColumnUnique.
AddUnique(b, call) ==
    IF ~NameFree(b, call.table, call.name) \/ ~Indexable(b, call.columns) THEN b
    ELSE LET single == IF Len(call.columns) = 1 THEN {call.columns[1]} ELSE {}
             marked == {b.fkSpecs[i].name :
                          i \in {j \in DOMAIN b.fkSpecs : b.fkSpecs[j].childColumn \in single}}
         IN [b EXCEPT !.uniqueColumns = @ \cup single,
                      !.uniqueIndices = @ \cup marked \cup {call.name},
                      !.indices = With(@, call.name, call.columns)]

AddNullable(b, call) ==
    IF \E i \in DOMAIN call.columns : call.columns[i] \notin DOMAIN b.columns THEN b
    ELSE [b EXCEPT !.nullable = @ \cup {call.columns[i] : i \in DOMAIN call.columns}]

\* The TableBuilder after a call.
Called(b, call) ==
    CASE call.op = "addColumn"     -> AddColumn(b, call)
      [] call.op = "addPrimaryKey" -> AddPrimaryKey(b, call)
      [] call.op = "addForeignKey" -> AddForeignKey(b, call)
      [] call.op = "addUnique"     -> AddUnique(b, call)
      [] call.op = "addNullable"   -> AddNullable(b, call)
      [] call.op = "addIndex"      -> AddIndex(b, call)

-----------------------------------------------------------------------------
(* Builder.finalize *)

Tables(bs) == {t \in TableNames : bs[t] # None}
ForeignKeys(bs) == UNION {ToSet(bs[t].fkSpecs) : t \in Tables(bs)}

\* checkForeignKeyValidity: the parent column exists, has the type of the child
\* column and is unique.
ForeignKeyValid(bs, fk) ==
    /\ bs[fk.parentTable] # None
    /\ fk.parentColumn \in DOMAIN bs[fk.parentTable].columns
    /\ bs[fk.parentTable].columns[fk.parentColumn] = bs[fk.childTable].columns[fk.childColumn]
    /\ fk.parentColumn \in bs[fk.parentTable].uniqueColumns

\* TableBuilder.getSchema: the primary key is no foreign key, has no other index
\* on its columns and is not nullable.
PrimaryKeyValid(b) ==
    b.pkName \in DOMAIN b.indices =>
        LET columns == b.indices[b.pkName]
        IN /\ \A i \in DOMAIN b.fkSpecs : b.fkSpecs[i].childColumn \notin ToSet(columns)
           /\ \A name \in DOMAIN b.indices \ {b.pkName} : b.indices[name] # columns
           /\ ToSet(columns) \cap b.nullable = {}

\* checkForiengKeyChain: no column is child and parent.
NoChain(bs) ==
    \A fk, up \in ForeignKeys(bs) :
        up.childTable = fk.parentTable => up.childColumn # fk.parentColumn

Edges(bs, t) == {fk.childTable : fk \in {f \in ForeignKeys(bs) : f.parentTable = t}}

\* The nodes visited, those whose visit goes on, and whether a loop was found.
Searching == [visited : SUBSET TableNames, onStack : SUBSET TableNames, loop : BOOLEAN]

Enter(s, t) == [s EXCEPT !.visited = @ \cup {t}, !.onStack = @ \cup {t}]

\* An edge of t is followed: to a child not yet visited, whose visit is "deeper",
\* or to one met before; self loops are ignored.
Follow(deeper, t, child, s) ==
    IF child \notin s.visited THEN deeper[child][s]
    ELSE IF child \in s.onStack /\ child # t THEN [s EXCEPT !.loop = TRUE]
    ELSE s

FollowAll(bs, deeper, t, s) ==
    FoldSet(LAMBDA child, acc : Follow(deeper, t, child, acc), s, Edges(bs, t))

\* Faulty variant: a node stays on the stack after its visit.
CheckCycleForgetting(bs, deeper, t, s) ==
    IF t \in s.visited THEN s ELSE FollowAll(bs, deeper, t, Enter(s, t))

\* The visit of a node.
CheckCycleUtil(bs, deeper, t, s) ==
    LET left == IF t \in s.visited THEN s ELSE FollowAll(bs, deeper, t, Enter(s, t))
    IN [left EXCEPT !.onStack = @ \ {t}]

\* The depth-first search: no visit is deeper than there are tables.
DepthFirst(bs) ==
    LET visit[depth \in Nat] ==
            IF depth = 0 THEN [t \in TableNames |-> [s \in Searching |-> s]]
            ELSE [t \in TableNames |-> [s \in Searching |-> CheckCycleUtil(bs, visit[depth - 1], t, s)]]
    IN visit[Cardinality(TableNames)]

NotSearched == [visited |-> {}, onStack |-> {}, loop |-> FALSE]

\* checkFkCycle: the search from every table.
FindsLoop(bs) ==
    LET search == DepthFirst(bs)
    IN FoldSet(LAMBDA t, s : search[t][s], NotSearched, Tables(bs)).loop

\* None of the checks of finalize throws.
Accepted(bs) ==
    /\ \A fk \in ForeignKeys(bs) : ForeignKeyValid(bs, fk)
    /\ \A t \in Tables(bs) : PrimaryKeyValid(bs[t])
    /\ NoChain(bs)
    /\ ~FindsLoop(bs)

-----------------------------------------------------------------------------
(* Builder *)

NoBuilders == [t \in TableNames |-> None]

\* The builders after a call, of the Builder or of one of its TableBuilders.
After(bs, call) ==
    IF call.op = "createTable"
    THEN IF bs[call.table] = None THEN [bs EXCEPT ![call.table] = NewTable] ELSE bs
    ELSE IF bs[call.table] = None THEN bs
    ELSE [bs EXCEPT ![call.table] = Called(@, call)]

InOrder(order, call) == IF call.op = "createTable" THEN Append(order, call.table) ELSE order

SchemaInit ==
    /\ builders = FoldLeft(After, NoBuilders, Prelude)
    /\ created = FoldLeft(InOrder, <<>>, Prelude)
    /\ schema = None
    /\ connecting = FALSE
    /\ db = None

\* Builder.createTable: the schema is not finalized, the name is new.
CreateTable ==
    /\ schema = None
    /\ \E call \in Calls :
        /\ call.op = "createTable" /\ builders[call.table] = None
        /\ builders' = After(builders, call)
        /\ created' = Append(created, call.table)
    /\ UNCHANGED <<schema, connecting, db>>

\* A call on a TableBuilder; on a finalized schema it has no effect.
CallTableBuilder ==
    /\ schema = None
    /\ \E call \in Calls :
        /\ call.op # "createTable"
        /\ builders' = After(builders, call)
        /\ builders' # builders
    /\ UNCHANGED <<created, schema, connecting, db>>

\* Builder.getSchema: finalize throws, and may be tried again, or clears the builders.
Finalize ==
    IF schema = None /\ Accepted(builders)
    THEN schema' = builders /\ builders' = NoBuilders
    ELSE UNCHANGED <<schema, builders>>

GetSchema ==
    /\ schema = None /\ Accepted(builders)
    /\ Finalize
    /\ UNCHANGED <<created, connecting, db>>

\* Builder.connect: connectInProgress is set before the schema is checked.
Connect ==
    /\ ~connecting /\ db # "open"
    /\ connecting' = TRUE
    /\ IF db = None THEN Finalize ELSE UNCHANGED <<schema, builders>>
    /\ db' = IF db = None /\ schema' = None THEN None ELSE "init"
    /\ UNCHANGED created

\* The promise of RuntimeDatabase.init is settled.
InitSucceeds ==
    /\ db = "init"
    /\ db' = "open" /\ connecting' = FALSE
    /\ UNCHANGED <<builders, created, schema>>

InitFails ==
    /\ db = "init"
    /\ db' = "closed" /\ connecting' = FALSE
    /\ UNCHANGED <<builders, created, schema>>

Close ==
    /\ db = "open"
    /\ db' = "closed"
    /\ UNCHANGED <<builders, created, schema, connecting>>

SchemaNext ==
    CreateTable \/ CallTableBuilder \/ GetSchema \/ Connect \/ InitSucceeds \/ InitFails \/ Close

-----------------------------------------------------------------------------
(* Properties *)

\* Some tables refer to each other, or round a longer loop; a table may refer to itself.
Looping(bs) ==
    \E S \in SUBSET Tables(bs) :
        /\ S # {}
        /\ \A t \in S : \E fk \in ForeignKeys(bs) :
            fk.childTable = t /\ fk.parentTable \in S \ {t}

\* A column that a foreign key refers to and its primary key can be looked up:
\* what ConstraintChecker expects of a schema (findParentIndex, one level of
\* cascading updates, a cascading deletion that ends).
Sound(bs) ==
    /\ ~Looping(bs)
    /\ \A fk \in ForeignKeys(bs) :
        /\ fk.parentTable \in Tables(bs)
        /\ LET parent == bs[fk.parentTable]
           IN \E name \in DOMAIN parent.indices :
                name \in parent.uniqueIndices /\ parent.indices[name] = <<fk.parentColumn>>
        /\ ~\E up \in ForeignKeys(bs) :
              <<up.childTable, up.childColumn>> = <<fk.parentTable, fk.parentColumn>>
        /\ fk.name \in DOMAIN bs[fk.childTable].indices
        /\ fk.name \in bs[fk.childTable].uniqueIndices
              <=> fk.childColumn \in bs[fk.childTable].uniqueColumns
        /\ fk.name \in bs[fk.childTable].uniqueIndices
              => \E name \in bs[fk.childTable].uniqueIndices \ {fk.name} :
                    bs[fk.childTable].indices[name] = <<fk.childColumn>>

\* Whatever calls were made in whatever order, failed ones included, a schema that
\* is accepted is one the constraint checker can work with; and the search for loops,
\* in whatever order it meets the tables, reports a loop exactly when there is one.
LoopsFoundExactly == FindsLoop(builders) <=> Looping(builders)
AcceptedSchemasAreSound ==
    /\ db = "init" => Sound(schema)
    /\ LoopsFoundExactly
=============================================================================
