----------------------------- MODULE ForeignKeys -----------------------------
(***************************************************************************)
(* Transactions on tables with foreign keys: Journal executes statements   *)
(* with their cascades (lib/cache/journal.ts) on the checks and detections *)
(* of ConstraintChecker, the contexts of lib/query say which tables a      *)
(* statement locks, and BaseTx checks the deferrable constraints before it *)
(* stores the changes.  The schema is one that Schema accepts.             *)
(*                                                                         *)
(* Indices are read off the cache and the net changes off the store: that  *)
(* they agree is what Journal shows.  A row is its table and its values.   *)
(* The columns of an index on several columns are not nullable, and a      *)
(* column that a key refers to is only if the column of the key is: the    *)
(* comparator of an index without nulls takes null for 0 and any string.   *)
(***************************************************************************)
EXTENDS Schema

CONSTANTS
    RowIds,        \* the ids of rows
    Keys,          \* the values of columns, Null not among them
    Null,          \* the value "null"
    Studied        \* bound: the schemas on which statements are run, each
                   \* with the number of statements of a transaction

ASSUME DataAssumption ==
    /\ IsFiniteSet(RowIds)
    /\ \A s \in DOMAIN Studied, t \in TableNames : s[t] # None =>
        LET values == [DOMAIN s[t].columns -> Keys \cup {Null}]
        IN None \notin values \cup [table : {t}, values : values]

VARIABLES
    cache,       \* the rows in memory
    store,       \* the rows committed
    phase,       \* "idle", "active", "failed" or "storing"
    statements,  \* how many statements the transaction has executed
    scope,       \* the tables its statements lock
    touched      \* the tables it has changed or looked a key up in

dataVars == <<cache, store, phase, statements, scope, touched>>
vars == <<schemaVars, dataVars>>

NoRows == [id \in RowIds |-> None]

Columns(t) == DOMAIN schema[t].columns

Values(t) == {v \in [Columns(t) -> Keys \cup {Null}] :
                \A c \in Columns(t) : v[c] = Null => c \in schema[t].nullable}

IdsOf(rows, t) == {id \in RowIds : rows[id] # None /\ rows[id].table = t}

\* The ids a row index has under a key, the null key included.
IdsAt(rows, t, column, key) == {id \in IdsOf(rows, t) : rows[id].values[column] = key}
HasKey(rows, t, column, key) == IdsAt(rows, t, column, key) # {}

\* The values of a row that may be missing.
ValuesOf(row) == IF row = None THEN None ELSE row.values

-----------------------------------------------------------------------------
(* Info *)

ReferencingForeignKeys(t, actions) ==
    {fk \in ForeignKeys(schema) : fk.parentTable = t /\ fk.action \in actions}

AnyAction == {"cascade", "restrict"}

ParentTables(t) == {fk.parentTable : fk \in ToSet(schema[t].fkSpecs)}

ChildTables(t, actions) == {fk.childTable : fk \in ReferencingForeignKeys(t, actions)}

\* colParent has one parent for a column: that of its last foreign key.
ParentTablesByColumns(t, columns) ==
    LET specs == schema[t].fkSpecs
    IN {specs[i].parentTable : i \in {j \in DOMAIN specs :
            /\ specs[j].childColumn \in columns
            /\ \A k \in DOMAIN specs : specs[k].childColumn = specs[j].childColumn => k <= j}}

ChildTablesByColumns(t, columns) ==
    {fk.childTable : fk \in {f \in ForeignKeys(schema) : f.parentTable = t /\ f.parentColumn \in columns}}

-----------------------------------------------------------------------------
(* The scope of a statement *)

InsertScope(t, replaces) ==
    {t} \cup ParentTables(t) \cup (IF replaces THEN ChildTables(t, AnyAction) ELSE {})

UpdateScope(t, columns) ==
    {t} \cup ParentTablesByColumns(t, columns) \cup ChildTablesByColumns(t, columns)

\* Faulty variant: the scope is expanded by one level.
ExpandOnce(t, soFar) == soFar \cup ChildTables(t, AnyAction)

\* The tables that a deletion from a table cascades to, that table among them.
CascadeReach(t) ==
    {u \in TableNames : \A S \in SUBSET TableNames :
        t \in S /\ (\A v \in S : ChildTables(v, {"cascade"}) \subseteq S) => u \in S}

\* Adds the children of a table, and those of the tables a deletion cascades to.
ExpandTableScope(t, soFar) ==
    soFar \cup UNION {ChildTables(u, AnyAction) : u \in CascadeReach(t)}

DeleteScope(t) == ExpandTableScope(t, {t})

\* The expansion never ends: the deletion reaches a table that cascades to itself.
ScopeOverflows(t) == \E u \in CascadeReach(t) : u \in ChildTables(u, {"cascade"})

-----------------------------------------------------------------------------
(* Execution: the rows in memory, whether nothing was thrown, the tables    *)
(* touched.  A modification has a row before and a row now, None for none.  *)

Touch(j, tables) == [j EXCEPT !.touched = @ \cup tables]

\* didColumnValueChange
Changed(mod, column) ==
    IF mod.before = None \/ mod.now = None THEN mod.before # mod.now
    ELSE mod.before[column] # mod.now[column]

\* A unique index has the new key.
Taken(rows, t, mod) ==
    /\ mod.now # None
    /\ \E name \in schema[t].uniqueIndices :
        LET columns == schema[t].indices[name]
            Key(values) == [i \in DOMAIN columns |-> values[columns[i]]]
        IN /\ Key(mod.now) # <<Null>>
           /\ mod.before = None \/ Key(mod.before) # Key(mod.now)
           /\ \E id \in IdsOf(rows, t) : Key(rows[id].values) = Key(mod.now)

\* Journal.modifyRow: nothing if the row is missing before and now.
ModifyRow(j, t, mod) ==
    IF ~j.ok THEN j
    ELSE IF Taken(j.rows, t, mod) THEN [Touch(j, {t}) EXCEPT !.ok = FALSE]
    ELSE [Touch(j, {t}) EXCEPT
            !.rows[mod.id] = IF mod.now # None THEN [table |-> t, values |-> mod.now]
                             ELSE IF mod.before # None THEN None
                             ELSE @]

ModifyRows(j, t, mods) == FoldSet(LAMBDA mod, acc : ModifyRow(acc, t, mod), j, mods)

CheckNotNullable(j, t, mods) ==
    [j EXCEPT !.ok = @ /\ \A mod \in mods : mod.now \in Values(t)]

\* checkReferredKeys: the parents of the rows now.
CheckReferredKeys(j, t, mods, timing) ==
    LET lookups == {l \in ToSet(schema[t].fkSpecs) \X mods :
                      /\ l[1].timing = timing /\ Changed(l[2], l[1].childColumn)
                      /\ l[2].now[l[1].childColumn] # Null}
    IN [Touch(j, {l[1].parentTable : l \in lookups}) EXCEPT
          !.ok = @ /\ \A l \in lookups :
              HasKey(j.rows, l[1].parentTable, l[1].parentColumn, l[2].now[l[1].childColumn])]

\* checkReferringKeys: no row refers to the rows before.  A row that is missing
\* before and now is dereferenced.
CheckReferringKeys(j, t, mods, timing, actions) ==
    LET specs == {fk \in ReferencingForeignKeys(t, actions) : fk.timing = timing}
        missing == {mod \in mods : mod.before = None /\ mod.now = None}
        lookups == {l \in specs \X (mods \ missing) : Changed(l[2], l[1].parentColumn)}
    IN [Touch(j, {l[1].childTable : l \in lookups}) EXCEPT
          !.ok = @ /\ (specs = {} \/ missing = {})
                   /\ \A l \in lookups :
                        ~HasKey(j.rows, l[1].childTable, l[1].childColumn, l[2].before[l[1].parentColumn])]

CheckForInsert(j, t, mods, timing) == CheckReferredKeys(j, t, mods, timing)

CheckForUpdate(j, t, mods, timing) ==
    CheckReferringKeys(CheckReferredKeys(j, t, mods, timing), t, mods, timing, {"restrict"})

CheckForDelete(j, t, mods, timing) == CheckReferringKeys(j, t, mods, timing, AnyAction)

-----------------------------------------------------------------------------
(* The statements *)

Insert(j, t, mods) ==
    ModifyRows(CheckForInsert(CheckNotNullable(j, t, mods), t, mods, "immediate"), t, mods)

\* detectCascadeUpdates and updateByCascade: one level, the rows found before any
\* is changed, each changed from what it has become.
UpdateByCascade(j, t, mods) ==
    LET specs == ReferencingForeignKeys(t, {"cascade"})
        found == {l \in specs \X mods : Changed(l[2], l[1].parentColumn)}
        updates == UNION {{[id |-> id, fk |-> l[1], value |-> l[2].now[l[1].parentColumn]] :
                             id \in IdsAt(j.rows, l[1].childTable, l[1].childColumn,
                                          l[2].before[l[1].parentColumn])} : l \in found}
        Apply(u, acc) ==
            IF ~acc.ok THEN acc
            ELSE LET before == acc.rows[u.id].values
                 IN ModifyRow(acc, u.fk.childTable,
                              [id |-> u.id, before |-> before,
                               now |-> [before EXCEPT ![u.fk.childColumn] = u.value]])
    IN FoldSet(Apply, Touch(j, {l[1].childTable : l \in found}), updates)

Update(j, t, mods) ==
    LET checked == CheckNotNullable(j, t, mods)
    IN IF ~checked.ok THEN checked
       ELSE ModifyRows(CheckForUpdate(UpdateByCascade(checked, t, mods), t, mods, "immediate"), t, mods)

\* The row with the primary key of the values: findExistingRowIdInPkIndex.
Existing(rows, t, values) ==
    IF schema[t].pkName \notin DOMAIN schema[t].indices THEN {}
    ELSE LET columns == ToSet(schema[t].indices[schema[t].pkName])
         IN {id \in IdsOf(rows, t) : \A c \in columns : rows[id].values[c] = values[c]}

\* Journal.insertOrReplace of a row: nothing cascades.
InsertOrReplace(j, t, mod) ==
    LET checked == CheckNotNullable(j, t, {mod})
        existing == Existing(j.rows, t, mod.now)
    IN IF existing = {}
       THEN ModifyRow(CheckForInsert(checked, t, {mod}, "immediate"), t, mod)
       ELSE \* primary keys are unique: there is one
            LET id == CHOOSE i \in existing : TRUE
                replacing == [id |-> id, before |-> j.rows[id].values, now |-> mod.now]
            IN ModifyRow(CheckForUpdate(checked, t, {replacing}, "immediate"), t, replacing)

\* The keys of a MapSet in the order in which they were added.
WithKeys(order, keys) ==
    FoldLeft(LAMBDA s, k : IF k \in ToSet(s) THEN s ELSE Append(s, k), order, keys)

\* findReferringRowIds: the rows that a deletion cascades to, and their tables, in
\* the order in which Info collects the foreign keys.
ReferringRows(rows, t, ids) ==
    LET Refer(fk) == UNION {IdsAt(rows, fk.childTable, fk.childColumn,
                                  rows[id].values[fk.parentColumn]) : id \in ids}
        specs == {fk \in ReferencingForeignKeys(t, {"cascade"}) : Refer(fk) # {}}
        Refers(order, u) == IF \E fk \in specs : fk.childTable = u THEN Append(order, u) ELSE order
    IN [tables |-> FoldLeft(Refers, <<>>, created), ids |-> UNION {Refer(fk) : fk \in specs}]

\* A detection of cascading deletions: the tables and the rows of the last level, the
\* order in which tables are to lose rows, and the rows found.
NoLevel(t, ids) == [tables |-> <<t>>, ids |-> ids, order |-> <<>>, found |-> {}]

\* Faulty variant: the tables found later come later.
LevelParentsFirst(rows, last) ==
    LET Search(acc, t) ==
            LET referring == ReferringRows(rows, t, last.ids \cap IdsOf(rows, t))
            IN [tables |-> WithKeys(acc.tables, referring.tables),
                ids |-> acc.ids \cup referring.ids,
                order |-> acc.order \o referring.tables,
                found |-> acc.found \cup referring.ids]
    IN FoldLeft(Search, [last EXCEPT !.tables = <<>>, !.ids = {}], last.tables)

\* The tables of a level go before those of the levels above.
Level(rows, last) ==
    LET Search(acc, t) ==
            LET referring == ReferringRows(rows, t, last.ids \cap IdsOf(rows, t))
            IN [tables |-> WithKeys(acc.tables, referring.tables),
                ids |-> acc.ids \cup referring.ids,
                order |-> referring.tables \o acc.order,
                found |-> acc.found \cup referring.ids]
    IN FoldLeft(Search, [last EXCEPT !.tables = <<>>, !.ids = {}], last.tables)

\* Level by level until one has no rows: no deletion cascades through more levels than
\* there are tables.
DetectCascadeDeletion(rows, t, ids) ==
    LET level[n \in Nat] == IF n = 0 THEN NoLevel(t, ids) ELSE Level(rows, level[n - 1])
    IN level[Cardinality(TableNames)]

Deletions(rows, ids) == {[id |-> id, before |-> ValuesOf(rows[id]), now |-> None] : id \in ids}

\* removeByCascade: table by table; a table listed twice has lost its rows by then.
RemoveByCascade(j, t, ids) ==
    LET cascade == DetectCascadeDeletion(j.rows, t, ids)
        RemoveFrom(acc, u) ==
            LET mods == Deletions(acc.rows, cascade.found \cap IdsOf(j.rows, u))
            IN ModifyRows(CheckForDelete(acc, u, mods, "immediate"), u, mods)
    IN IF ReferencingForeignKeys(t, {"cascade"}) = {} THEN j
       ELSE FoldLeft(RemoveFrom, Touch(j, ChildTables(t, {"cascade"})), cascade.order)

RemoveRows(j, t, ids) ==
    LET mods == Deletions(j.rows, ids)
    IN ModifyRows(CheckForDelete(RemoveByCascade(j, t, ids), t, mods, "immediate"), t, mods)

-----------------------------------------------------------------------------
(* Transactions *)

\* The net changes of a table in a transaction: TableDiff.
NetChanges(t) ==
    {[id |-> id, before |-> ValuesOf(store[id]), now |-> ValuesOf(cache[id])] :
        id \in {i \in IdsOf(store, t) \cup IdsOf(cache, t) : store[i] # cache[i]}}

Added(t) == {mod \in NetChanges(t) : mod.before = None}
Deleted(t) == {mod \in NetChanges(t) : mod.now = None}
Modified(t) == NetChanges(t) \ (Added(t) \cup Deleted(t))

\* Faulty variant: rows that were modified are not looked at again.
CheckDeferredUnlessModified(j, t) ==
    CheckForDelete(CheckForInsert(j, t, Added(t), "deferrable"), t, Deleted(t), "deferrable")

\* The checks of a table that has changed.
CheckDeferredOf(j, t) ==
    CheckForUpdate(
        CheckForDelete(CheckForInsert(j, t, Added(t), "deferrable"), t, Deleted(t), "deferrable"),
        t, Modified(t), "deferrable")

\* Journal.checkDeferredConstraints: the checks change no rows.
CheckDeferredConstraints(j) ==
    [j EXCEPT !.ok = \A t \in Tables(schema) : CheckDeferredOf(j, t).ok,
              !.touched = @ \cup UNION {CheckDeferredOf(j, t).touched : t \in Tables(schema)}]

Current == [rows |-> cache, ok |-> TRUE, touched |-> touched]

\* A statement that throws leaves the transaction to be rolled back.
Executes(result, tables) ==
    /\ phase \in {"idle", "active"}
    /\ cache' = result.rows
    /\ touched' = result.touched
    /\ scope' = scope \cup tables
    /\ statements' = statements + 1
    /\ phase' = IF result.ok THEN "active" ELSE "failed"
    /\ UNCHANGED <<schemaVars, store>>

FreshIds == {id \in RowIds : cache[id] = None /\ store[id] = None}
Insertion(id, values) == [id |-> id, before |-> None, now |-> values]

\* The values are those of the columns, NOT NULL columns included.
AnyValues(t) == [Columns(t) -> Keys \cup {Null}]

InsertRow(t) ==
    \E id \in FreshIds, values \in AnyValues(t) :
        Executes(Insert(Current, t, {Insertion(id, values)}), InsertScope(t, FALSE))

ReplaceRow(t) ==
    \E id \in FreshIds, values \in AnyValues(t) :
        Executes(InsertOrReplace(Current, t, Insertion(id, values)), InsertScope(t, TRUE))

\* update(t).set(column, value)..., on some of the rows.
UpdateRows(t) ==
    \E ids \in SUBSET IdsOf(cache, t) \ {{}}, columns \in SUBSET Columns(t) \ {{}} :
        \E set \in [columns -> Keys \cup {Null}] :
            LET Now(values) == [c \in Columns(t) |-> IF c \in columns THEN set[c] ELSE values[c]]
                mods == {[id |-> id, before |-> cache[id].values, now |-> Now(cache[id].values)] :
                            id \in ids}
            IN Executes(Update(Current, t, mods), UpdateScope(t, columns))

DeleteRows(t) ==
    /\ ~ScopeOverflows(t)
    /\ \E ids \in SUBSET IdsOf(cache, t) \ {{}} :
        Executes(RemoveRows(Current, t, ids), DeleteScope(t))

\* BaseTx.commitReadWrite checks, then stores.
CheckDeferred ==
    /\ phase = "active"
    /\ \E result \in {CheckDeferredConstraints(Current)} :
        /\ touched' = result.touched
        /\ phase' = IF result.ok THEN "storing" ELSE "failed"
    /\ UNCHANGED <<schemaVars, cache, store, statements, scope>>

End(rows) ==
    /\ cache' = rows /\ store' = rows
    /\ phase' = "idle" /\ statements' = 0 /\ scope' = {} /\ touched' = {}
    /\ UNCHANGED schemaVars

Stored == phase = "storing" /\ End(cache)
RollBack == phase \in {"active", "failed"} /\ End(store)

Init ==
    /\ SchemaInit
    /\ cache = NoRows /\ store = NoRows
    /\ phase = "idle" /\ statements = 0 /\ scope = {} /\ touched = {}

Statement ==
    /\ db = "open" /\ schema \in DOMAIN Studied /\ statements < Studied[schema]
    /\ \E t \in Tables(schema) : InsertRow(t) \/ ReplaceRow(t) \/ UpdateRows(t) \/ DeleteRows(t)

Next ==
    \/ phase = "idle" /\ store = NoRows /\ SchemaNext /\ UNCHANGED dataVars
    \/ Statement \/ CheckDeferred \/ Stored \/ RollBack

Spec == Init /\ [][Next]_vars

-----------------------------------------------------------------------------
(* Properties *)

Dangling(rows, fk) ==
    \E id \in IdsOf(rows, fk.childTable) :
        LET key == rows[id].values[fk.childColumn]
        IN key # Null /\ ~HasKey(rows, fk.parentTable, fk.parentColumn, key)

\* Schemas on which the Journal is right for any rows: a key cascades from the primary
\* key only (insertOrReplace changes other columns without cascading), no table
\* refers to itself by an immediate key (which is checked before the row is changed),
\* and a column has one foreign key (of two, a cascade would break the other).
Regular(s) ==
    \A fk \in ForeignKeys(s) :
        /\ fk.action = "cascade" =>
             LET parent == s[fk.parentTable]
             IN /\ parent.pkName \in DOMAIN parent.indices
                /\ fk.parentColumn \in ToSet(parent.indices[parent.pkName])
        /\ fk.timing = "immediate" => fk.childTable # fk.parentTable
        /\ \A other \in ForeignKeys(s) :
             <<other.childTable, other.childColumn>> = <<fk.childTable, fk.childColumn>> => other = fk

\* Every reference is to a row that exists: after each statement, or in what is
\* committed for a deferrable foreign key.
ReferencesExist ==
    db = "open" => \A fk \in ForeignKeys(schema) :
        /\ ~Dangling(store, fk)
        /\ fk.timing = "immediate" /\ phase \in {"active", "storing"} => ~Dangling(cache, fk)

\* A transaction changes, and looks keys up in, only the tables its statements lock:
\* what another task does to the rest cannot disturb it.
TouchesOnlyItsScope == touched \subseteq scope

\* The rows that refer to a row: a row with a null in its key refers to none.
RefersTo(rows, fk, p) ==
    {id \in IdsAt(rows, fk.childTable, fk.childColumn, rows[p].values[fk.parentColumn]) :
        rows[id].values[fk.childColumn] # Null}

\* What the code takes for a reference as well: null, where the key refers to, and null
\* in a key (checkReferringKeys looks null up like any other value).
NullMeetsNull(rows, fk, p) ==
    /\ rows[p].values[fk.parentColumn] = Null
    /\ HasKey(rows, fk.childTable, fk.childColumn, Null)

\* The rows that have to go with some rows of a table.
Closure(rows, ids) ==
    CHOOSE S \in SUBSET {id \in RowIds : rows[id] # None} :
        LET Closed(R) == ids \subseteq R /\ \A fk \in ForeignKeys(schema), p \in R :
                fk.action = "cascade" /\ rows[p].table = fk.parentTable => RefersTo(rows, fk, p) \subseteq R
        IN Closed(S) /\ \A R \in SUBSET S : Closed(R) => R = S

\* A deletion removes the rows it has to and no other, and is refused only if a row
\* refers to one of them by a key that is not to cascade, or null meets null there: the
\* one refusal without a reference, against constraint_checker.ts:232, which has a null
\* in a key ignored.
DeletionsAreClosed ==
    db = "open" /\ phase = "idle" =>
        \A t \in Tables(schema) : \A ids \in SUBSET IdsOf(cache, t) :
            ~ScopeOverflows(t) =>
                LET result == RemoveRows(Current, t, ids)
                    closure == Closure(cache, ids)
                IN IF result.ok
                   THEN result.rows = [id \in RowIds |-> IF id \in closure THEN None ELSE cache[id]]
                   ELSE \E fk \in ForeignKeys(schema), p \in closure :
                          /\ fk.action = "restrict" /\ fk.timing = "immediate"
                          /\ fk.parentTable = cache[p].table
                          /\ RefersTo(cache, fk, p) # {} \/ NullMeetsNull(cache, fk, p)
=============================================================================
