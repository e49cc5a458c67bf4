------------------------------ MODULE Journal ------------------------------
(***************************************************************************)
(* A read-write transaction on one table of lib/cache: the Journal records *)
(* row modifications in a TableDiff and applies each at once to the        *)
(* indices (InMemoryUpdater) and to the cache (DefaultCache); a commit     *)
(* stores the diff (BaseTx), a rollback applies its reverse to indices and *)
(* cache.  The lock on the table is held throughout, so one journal is     *)
(* active at a time.  Rows of one statement are taken one by one.          *)
(*                                                                         *)
(* A Map from row ids to rows is a function that is None outside its keys. *)
(* An index is the set of its <<key, row id>> entries.  The RowId index is *)
(* the set of ids in the cache: it refuses nothing and is left out.        *)
(***************************************************************************)
EXTENDS Naturals, FiniteSets

CONSTANTS
    RowIds,     \* the ids of row objects
    Keys,       \* the keys of columns, Null not among them
    Null,       \* the key of a nullable column without a value
    Indices,    \* the indices of the table, numbered in the order of getTableIndices
    Unique,     \* those that are unique
    Pk,         \* the primary key, unique and not nullable
    None,       \* "undefined": no row under this id
    MaxRows     \* bound: how many rows a statement changes

ASSUME RowIdsAssumption == IsFiniteSet(RowIds)
ASSUME NullAssumption == Null \notin Keys
ASSUME IndicesAssumption == Indices \subseteq Nat /\ Unique \subseteq Indices /\ Pk \in Unique

Row == {r \in [Indices -> Keys \cup {Null}] : r[Pk] # Null}
Change == [before : Row, now : Row]

ASSUME NoneAssumption == None \notin Row /\ None \notin Change

Table == [RowIds -> Row \cup {None}]
Present(t) == {id \in RowIds : t[id] # None}

\* The modification of one row, before or now being None: Modification.
Modification == [id : RowIds, before : Row \cup {None}, now : Row \cup {None}]
Reversed(mod) == [id |-> mod.id, before |-> mod.now, now |-> mod.before]

VARIABLES
    cache,   \* the rows of the table in DefaultCache
    index,   \* the entries of each index in the MemoryIndexStore
    store,   \* the rows of the table in the back store
    diff,    \* the TableDiff of the active journal
    todo,    \* the row operations the running statement has left
    undo,    \* the ids whose reversal the running rollback has left
    phase    \* where the transaction is

vars == <<cache, index, store, diff, todo, undo, phase>>

-----------------------------------------------------------------------------
(* TableDiff *)

TableDiff ==
    [added : Table, modified : [RowIds -> Change \cup {None}], deleted : Table]

NoRows == [id \in RowIds |-> None]
EmptyDiff == [added |-> NoRows, modified |-> NoRows, deleted |-> NoRows]
Ids(d) == Present(d.added) \cup Present(d.modified) \cup Present(d.deleted)

Add(d, id, row) ==
    IF d.deleted[id] # None
    THEN [d EXCEPT !.modified[id] = [before |-> d.deleted[id], now |-> row],
                   !.deleted[id] = None]
    ELSE [d EXCEPT !.added[id] = row]

Modify(d, id, change) ==
    IF d.added[id] # None THEN [d EXCEPT !.added[id] = change.now]
    ELSE IF d.modified[id] # None THEN [d EXCEPT !.modified[id].now = change.now]
    ELSE [d EXCEPT !.modified[id] = change]

\* Faulty variant: the row as last modified is kept, not the original.
DeleteLastValue(d, id, row) ==
    IF d.added[id] # None THEN [d EXCEPT !.added[id] = None]
    ELSE IF d.modified[id] # None
    THEN [d EXCEPT !.deleted[id] = row, !.modified[id] = None]
    ELSE [d EXCEPT !.deleted[id] = row]

Delete(d, id, row) ==
    IF d.added[id] # None THEN [d EXCEPT !.added[id] = None]
    ELSE IF d.modified[id] # None
    THEN [d EXCEPT !.deleted[id] = d.modified[id].before, !.modified[id] = None]
    ELSE [d EXCEPT !.deleted[id] = row]

\* The three cases at the end of Journal.modifyRow.
Record(d, mod) ==
    IF mod.before = None THEN Add(d, mod.id, mod.now)
    ELSE IF mod.now = None THEN Delete(d, mod.id, mod.before)
    ELSE Modify(d, mod.id, [before |-> mod.before, now |-> mod.now])

Reverse(d) ==
    [added    |-> d.deleted,
     deleted  |-> d.added,
     modified |-> [id \in RowIds |->
                     IF d.modified[id] = None THEN None
                     ELSE [before |-> d.modified[id].now, now |-> d.modified[id].before]]]

\* The modification of one id in getAsModifications.
ModificationOf(d, id) ==
    [id     |-> id,
     before |-> IF d.modified[id] # None THEN d.modified[id].before ELSE d.deleted[id],
     now    |-> IF d.modified[id] # None THEN d.modified[id].now ELSE d.added[id]]

\* getAsModifications lists additions, then modifications, then deletions.
ComesFirst(d, id, ids) ==
    /\ id \in Present(d.modified) => ids \cap Present(d.added) = {}
    /\ id \in Present(d.deleted) => ids \subseteq Present(d.deleted)

\* InMemoryUpdater.updateCacheForDiff: the removals, then the rows set.
Patch(t, d) ==
    [id \in RowIds |->
        IF d.modified[id] # None THEN d.modified[id].now
        ELSE IF d.added[id] # None THEN d.added[id]
        ELSE IF d.deleted[id] # None THEN None
        ELSE t[id]]

-----------------------------------------------------------------------------
(* InMemoryUpdater *)

\* The index has nothing to do: the row keeps its key.
KeepsKey(mod, i) ==
    /\ mod.before # None /\ mod.now # None
    /\ mod.before[i] = mod.now[i]

\* Faulty variant: only the keys of rows inserted are checked.
RefusesInsertions(entries, mod, i) ==
    /\ mod.before = None /\ mod.now # None /\ mod.now[i] # Null
    /\ \E e \in RowIds : <<mod.now[i], e>> \in entries

\* Index.add throws: the key is taken.  A NullableIndex takes any number of nulls.
Refuses(entries, mod, i) ==
    /\ mod.now # None /\ mod.now[i] # Null /\ ~KeepsKey(mod, i)
    /\ IF i \in Unique THEN \E e \in RowIds : <<mod.now[i], e>> \in entries
                       ELSE <<mod.now[i], mod.id>> \in entries

WithEntry(entries, key, id) == entries \cup {<<key, id>>}

\* A unique tree removes the key whatever the row id.
WithoutEntry(entries, key, id, i) ==
    {e \in entries : IF i \in Unique /\ key # Null THEN e[1] # key ELSE e # <<key, id>>}

UpdateIndexForRow(entries, mod, i) ==
    IF KeepsKey(mod, i) THEN entries
    ELSE LET added == IF mod.now = None THEN entries
                      ELSE WithEntry(entries, mod.now[i], mod.id)
         IN IF mod.before = None THEN added
            ELSE WithoutEntry(added, mod.before[i], mod.id, i)

Refused(ix, mod) == \E i \in Indices : Refuses(ix[i], mod, i)

\* Faulty variant: the indices that were updated before one refused stay updated.
UpdateIndicesWithoutReversal(ix, mod) ==
    [i \in Indices |->
        IF \A j \in Indices : j <= i => ~Refuses(ix[j], mod, j)
        THEN UpdateIndexForRow(ix[i], mod, i)
        ELSE ix[i]]

\* The indices are updated in order up to the first that refuses; then those
\* before it are updated with the reversed modification.
UpdateIndices(ix, mod) ==
    [i \in Indices |->
        IF \A j \in Indices : j <= i => ~Refuses(ix[j], mod, j)
        THEN LET updated == UpdateIndexForRow(ix[i], mod, i)
             IN IF Refused(ix, mod) THEN UpdateIndexForRow(updated, Reversed(mod), i)
                                    ELSE updated
        ELSE ix[i]]

-----------------------------------------------------------------------------
(* The back store *)

\* Faulty variant: the table is cleared for an empty list of ids, too.
RemoveRowsClearing(t, ids) ==
    IF ids = {} \/ Cardinality(ids) = Cardinality(Present(t)) THEN NoRows
    ELSE [id \in RowIds |-> IF id \in ids THEN None ELSE t[id]]

\* Table.remove clears the table when it is given as many ids as there are rows;
\* BaseTx does not call it without ids.
RemoveRows(t, ids) ==
    IF ids = {} THEN t
    ELSE IF Cardinality(ids) = Cardinality(Present(t)) THEN NoRows
    ELSE [id \in RowIds |-> IF id \in ids THEN None ELSE t[id]]

\* Removals, then the modified and the added rows are put.
Merge(t, d) ==
    LET rest == RemoveRows(t, Present(d.deleted))
    IN [id \in RowIds |->
          IF d.added[id] # None THEN d.added[id]
          ELSE IF d.modified[id] # None THEN d.modified[id].now
          ELSE rest[id]]

\* The entries of an index over the rows of a table.
Entries(t, i) == {<<t[id][i], id>> : id \in Present(t)}
IndexOf(t) == [i \in Indices |-> Entries(t, i)]

-----------------------------------------------------------------------------
(* Statements: what the insert, update, delete and insert-or-replace steps *)
(* hand to the journal, row by row.                                        *)

UniqueKeys(t) ==
    \A i \in Unique, a, b \in RowIds :
        /\ t[a] # None /\ t[b] # None
        /\ t[a][i] = t[b][i] /\ t[a][i] # Null
        => a = b

RowSets(ids) == {S \in SUBSET ids : S # {} /\ Cardinality(S) <= MaxRows}

\* The rows inserted are objects whose id is not in the table; an object that
\* was deleted may be inserted again.
Insertions(kind) ==
    UNION {{{[kind |-> kind, id |-> id, row |-> rows[id]] : id \in S}
               : rows \in [S -> Row]} : S \in RowSets(RowIds \ Present(cache))}

\* Journal.checkNotNullable refuses a null primary key.
Updates ==
    {{[kind |-> "update", id |-> id, row |-> [cache[id] EXCEPT ![a[1]] = a[2]]] : id \in S}
        : S \in RowSets(Present(cache)),
          a \in {b \in Indices \X (Keys \cup {Null}) : b # <<Pk, Null>>}}

Deletions ==
    {{[kind |-> "delete", id |-> id, row |-> None] : id \in S} : S \in RowSets(Present(cache))}

Statements == Insertions("insert") \cup Insertions("insertOrReplace") \cup Updates \cup Deletions

Operation ==
    [kind : {"insert", "insertOrReplace", "update", "delete"}, id : RowIds,
     row : Row \cup {None}]

\* The row id a row of insertOrReplace goes by: that of the row with its primary
\* key, if there is one.
ReplacedId(op) ==
    IF op.kind = "insertOrReplace" /\ \E id \in RowIds : <<op.row[Pk], id>> \in index[Pk]
    THEN CHOOSE id \in RowIds : <<op.row[Pk], id>> \in index[Pk]
    ELSE op.id

ModificationBy(op) ==
    [id |-> ReplacedId(op), before |-> cache[ReplacedId(op)], now |-> op.row]

-----------------------------------------------------------------------------
(* Actions *)

Init ==
    /\ store \in {t \in Table : UniqueKeys(t)}
    /\ cache = store
    /\ index = IndexOf(store)
    /\ diff = EmptyDiff
    /\ todo = {}
    /\ undo = {}
    /\ phase = "idle"

\* The task executes: a new journal.
Begin ==
    /\ phase = "idle"
    /\ phase' = "open"
    /\ diff' = EmptyDiff
    /\ UNCHANGED <<cache, index, store, todo, undo>>

\* A statement passes the checks that come before its first change.
Execute(ops) ==
    /\ phase = "open" /\ todo = {}
    /\ todo' = ops
    /\ UNCHANGED <<cache, index, store, diff, undo, phase>>

\* A null in a column that is not nullable, or a foreign key, refuses the
\* statement; insertOrReplace checks foreign keys again before every row.
RefuseStatement ==
    /\ phase = "open"
    /\ \A op \in todo : op.kind = "insertOrReplace"
    /\ phase' = "failed"
    /\ todo' = {}
    /\ UNCHANGED <<cache, index, store, diff, undo>>

\* Journal.modifyRow, when every index takes the row.
ModifyRow(op) ==
    LET mod == ModificationBy(op) IN
    /\ phase = "open"
    /\ ~Refused(index, mod)
    /\ todo' = todo \ {op}
    /\ index' = UpdateIndices(index, mod)
    /\ cache' = [cache EXCEPT ![mod.id] = mod.now]
    /\ diff' = Record(diff, mod)
    /\ UNCHANGED <<store, undo, phase>>

\* Journal.modifyRow, when an index throws: pendingRollback.
ModifyRowThrows(op) ==
    LET mod == ModificationBy(op) IN
    /\ phase = "open"
    /\ Refused(index, mod)
    /\ todo' = {}
    /\ index' = UpdateIndices(index, mod)
    /\ phase' = "failed"
    /\ UNCHANGED <<cache, store, diff, undo>>

\* BaseTx.commit passes the deferred constraints and sends the changes.
Commit ==
    /\ phase = "open" /\ todo = {}
    /\ phase' = "committing"
    /\ UNCHANGED <<cache, index, store, diff, todo, undo>>

\* A deferred constraint refuses the commit, or the back store fails.
CommitFails ==
    /\ phase \in {"open", "committing"} /\ todo = {}
    /\ phase' = "failed"
    /\ UNCHANGED <<cache, index, store, diff, todo, undo>>

\* The transaction of the back store takes effect, all of it at once.
StoreCommits ==
    /\ phase = "committing"
    /\ store' = Merge(store, diff)
    /\ phase' = "stored"
    /\ UNCHANGED <<cache, index, diff, todo, undo>>

\* Its promise is handled: Journal.commit.
Acknowledge ==
    /\ phase = "stored"
    /\ phase' = "idle"
    /\ diff' = EmptyDiff
    /\ UNCHANGED <<cache, index, store, todo, undo>>

\* Journal.rollback, asked for by the user or called by a failure's handler.
Rollback ==
    /\ phase \in {"open", "failed"} /\ todo = {}
    /\ phase' = "rollingBack"
    /\ undo' = Ids(diff)
    /\ UNCHANGED <<cache, index, store, diff, todo>>

\* updateIndicesForDiff, one modification of the reversed diff.
UndoRow(id) ==
    /\ phase = "rollingBack"
    /\ id \in undo
    /\ ComesFirst(Reverse(diff), id, undo)
    /\ ~Refused(index, ModificationOf(Reverse(diff), id))
    /\ index' = UpdateIndices(index, ModificationOf(Reverse(diff), id))
    /\ undo' = undo \ {id}
    /\ UNCHANGED <<cache, store, diff, todo, phase>>

\* An index refuses to take a row back.  The exception leaves rollback with some
\* indices restored, the cache as it was and nothing that would try again.
UndoRowThrows(id) ==
    /\ phase = "rollingBack"
    /\ id \in undo
    /\ ComesFirst(Reverse(diff), id, undo)
    /\ Refused(index, ModificationOf(Reverse(diff), id))
    /\ index' = UpdateIndices(index, ModificationOf(Reverse(diff), id))
    /\ phase' = "broken"
    /\ UNCHANGED <<cache, store, diff, todo, undo>>

\* Every index is restored: updateCacheForDiff, and the journal is terminated.
RollbackEnds ==
    /\ phase = "rollingBack"
    /\ undo = {}
    /\ cache' = Patch(cache, Reverse(diff))
    /\ phase' = "idle"
    /\ diff' = EmptyDiff
    /\ UNCHANGED <<index, store, todo, undo>>

\* Faulty variant: the rows are fetched and the indices are not rebuilt.
ReopenKeepingIndices ==
    /\ phase' = "idle"
    /\ cache' = store
    /\ diff' = EmptyDiff
    /\ todo' = {}
    /\ undo' = {}
    /\ UNCHANGED <<index, store>>

\* The page goes away, in any phase, and the database is opened again:
\* Prefetcher fills cache and indices from the back store.
Reopen ==
    /\ phase' = "idle"
    /\ cache' = store
    /\ index' = IndexOf(store)
    /\ diff' = EmptyDiff
    /\ todo' = {}
    /\ undo' = {}
    /\ UNCHANGED store

Next ==
    \/ Begin
    \/ \E ops \in Statements : Execute(ops)
    \/ RefuseStatement
    \/ \E op \in todo : ModifyRow(op) \/ ModifyRowThrows(op)
    \/ Commit \/ CommitFails \/ StoreCommits \/ Acknowledge
    \/ Rollback
    \/ \E id \in RowIds : UndoRow(id) \/ UndoRowThrows(id)
    \/ RollbackEnds
    \/ Reopen

Spec == Init /\ [][Next]_vars

-----------------------------------------------------------------------------
(* Properties *)

Phase == {"idle", "open", "failed", "committing", "stored", "rollingBack", "broken"}

\* Every variable stays in its type.
TypeOK ==
    /\ cache \in Table
    /\ index \in [Indices -> SUBSET ((Keys \cup {Null}) \X RowIds)]
    /\ store \in Table
    /\ diff \in TableDiff
    /\ todo \subseteq Operation
    /\ undo \subseteq RowIds
    /\ phase \in Phase

\* The rows the indices describe: those of the cache, but for the ids a rollback
\* has already restored in the indices and not yet in the cache.
IndexedRows ==
    IF phase = "rollingBack"
    THEN [id \in RowIds |-> IF id \in undo THEN cache[id] ELSE store[id]]
    ELSE cache

\* Indices and cache agree at all times, although an update may fail at any
\* index and statements fail with some of their rows changed.
IndicesMatchCache == phase # "broken" => index = IndexOf(IndexedRows)

\* No two rows of the cache share a key of a unique index.
CacheKeysUnique == UniqueKeys(cache)

IsNet(d, from, to) ==
    \A id \in RowIds :
        /\ d.added[id] = IF from[id] = None THEN to[id] ELSE None
        /\ d.deleted[id] = IF to[id] = None THEN from[id] ELSE None
        /\ d.modified[id] = None /\ from[id] # None /\ to[id] # None => to[id] = from[id]
        /\ d.modified[id] # None =>
              /\ from[id] # None /\ to[id] # None
              /\ d.modified[id] = [before |-> from[id], now |-> to[id]]

\* However often a row is added, changed, deleted and added again, the diff is
\* the net difference between what is stored and what is cached: each row in at
\* most one of its maps, with its stored value as the one before.
DiffIsNet ==
    phase \in {"open", "failed", "committing", "rollingBack"} => IsNet(diff, store, cache)

\* Between transactions memory and back store hold the same rows.
MemoryMatchesStore == phase = "idle" => cache = store /\ index = IndexOf(store)

\* A rollback is refused only when a key moved from one row to another within
\* the transaction: a row gets a key back that another row of the table still has.
RollbackRefusedOnlyForMovedKeys ==
    [][phase = "rollingBack" /\ phase' = "broken" =>
          \E i \in Unique, a, b \in RowIds :
              /\ a # b /\ store[a] # None /\ cache[b] # None
              /\ store[a][i] = cache[b][i] /\ store[a][i] # Null]_vars

Transactions == INSTANCE TransactionalTable
    WITH Consistent <- UniqueKeys, data <- store, view <- cache, active <- phase # "idle"

\* Diff, indices, rollback, commit and reopening together make transactions atomic.
TransactionsAtomic == Transactions!Spec
=============================================================================
