------------------------------- MODULE Stores -------------------------------
(***************************************************************************)
(* The back stores of lib/backstore under one table with one index, over   *)
(* any number of sessions: Memory, IndexedDB with one record per row or    *)
(* with pages (bundled mode), WebSQL and LocalStorage.  A commit issues    *)
(* requests; they are executed one by one, and an answer may issue more.   *)
(* The page may go away between any two of them.  Journal has what a       *)
(* transaction does to memory; here it is the difference of base and cache.*)
(*                                                                         *)
(* The native databases are external: IndexedDB runs requests in order and *)
(* stores a transaction whole or not at all; WebSQL goes on with a         *)
(* transaction when the error callback of a statement returns false, and   *)
(* commits after the last callback; localStorage.setItem may throw.        *)
(*                                                                         *)
(* A stored table is a function from record keys to records: a row, or the *)
(* page that holds rows by their ids.  The index table has the one record  *)
(* of a B-tree of one leaf, the entries of the index.                      *)
(***************************************************************************)
EXTENDS Integers, Sequences, FiniteSets, SequencesExt

CONSTANTS
    Kinds,       \* the back stores to look at
    Values,      \* what a row may hold under the index
    PageSize,    \* rows per page, 2^BUNDLE_EXPONENT
    MaxId,       \* bound: the ids of rows are below it
    MaxVersion,  \* bound: versions of the schema
    MaxChanges   \* bound: rows a transaction changes

ASSUME KindsAssumption ==
    Kinds \subseteq {"memory", "indexedDb", "bundled", "webSql", "localStorage"}
ASSUME PageSizeAssumption == PageSize \in Nat \ {0}
ASSUME StoresBoundsAssumption ==
    MaxId \in Nat /\ MaxVersion \in Nat \ {0} /\ MaxChanges \in Nat

Ids == 0 .. MaxId - 1
Row == [value : Values, format : 1 .. MaxVersion]

VARIABLES
    kind,        \* the back store
    persistent,  \* pragma persistentIndex of the table
    durable,     \* the tables that exist outside the page, with their records
    version,     \* the version stored beside them
    schema,      \* the version of the schema this session has
    view,        \* the tables as the native transaction has them, or MemoryTable, LocalStorageTable
    requests,    \* requests issued and not executed
    cache,       \* the rows in memory
    base,        \* the rows in memory when the transaction began
    index,       \* the entries of the index in memory
    nextId,      \* Row.nextId
    phase,       \* where the session is
    rejected,    \* ghost: an upgrade callback was rejected
    torn,        \* ghost: how a store broke a transaction in two, if one did
    unindexed    \* ghost: ids of imported rows that no index was written for

vars == <<kind, persistent, durable, version, schema, view, requests, cache,
          base, index, nextId, phase, rejected, torn, unindexed>>

storeVars == <<kind, persistent, durable, version, schema>>
memoryVars == <<cache, base, index, nextId>>

NoRows == [k \in {} |-> 0]   \* the function without elements
Without(f, keys) == [k \in DOMAIN f \ keys |-> f[k]]
With(f, key, x) == [k \in DOMAIN f \cup {key} |-> IF k = key THEN x ELSE f[k]]
Over(f, g) == [k \in DOMAIN f \cup DOMAIN g |-> IF k \in DOMAIN f THEN f[k] ELSE g[k]]
Pairs(rows) == {<<rows[id].value, id>> : id \in DOMAIN rows}

-----------------------------------------------------------------------------
(* Page *)

Bundled == kind = "bundled"

ToPageId(id) == id \div PageSize
PageRange(page) == page * PageSize .. (page + 1) * PageSize - 1

OnPage(rows, page) == [id \in DOMAIN rows \cap PageRange(page) |-> rows[id]]

\* BundledObjectStore.getDataTablePage: the page as the cache has it.
DataPage(page) == OnPage(cache, page)

\* The rows of all pages.
UnpackPages(records) ==
    [id \in UNION {DOMAIN records[page] : page \in DOMAIN records} |->
        records[CHOOSE page \in DOMAIN records : id \in DOMAIN records[page]][id]]

\* The rows that the records of the data table hold: get([]).
Unpack(records) == IF Bundled THEN UnpackPages(records) ELSE records

StoredRows == IF "rows" \in DOMAIN durable THEN Unpack(durable["rows"]) ELSE NoRows

-----------------------------------------------------------------------------
(* The requests of a commit *)

Put(table, key, record) == [op |-> "put", table |-> table, key |-> key, record |-> record]
Delete(table, keys) == [op |-> "delete", table |-> table, keys |-> keys]
Clear(table) == [op |-> "clear", table |-> table]
Count(table, keys) == [op |-> "count", table |-> table, keys |-> keys]
Flush(table) == [op |-> "flush", table |-> table]

\* Requests issued together are executed one after another; no two of a set touch
\* the same record.
InTurn(set) == SetToSeq(set)
DeleteEach(table, keys) == InTurn({Delete(table, {key}) : key \in keys})

\* Faulty variant: the clear is not disabled when rows are put as well.
RemoveFromObjectStoreCounting(table, keys, disableClear) == <<Count(table, keys)>>

\* ObjectStore.remove: a clear waits for the count unless that is disabled.
RemoveFromObjectStore(table, keys, disableClear) ==
    IF disableClear THEN DeleteEach(table, keys)
    ELSE <<Count(table, keys)>>

\* BundledObjectStore.remove: pages are read from the cache and rewritten.
RemoveFromPages(table, keys) ==
    IF keys = {} THEN <<Clear(table)>>
    ELSE LET left(page) == Without(DataPage(page), keys)
         IN  InTurn({IF left(page) = NoRows THEN Delete(table, {page})
                     ELSE Put(table, page, left(page)) : page \in {ToPageId(id) : id \in keys}})

\* Faulty variant: the pages are not read, and lose the rows that stay.
PutInEmptyPages(rows) ==
    InTurn({Put("rows", page, OnPage(rows, page)) : page \in {ToPageId(id) : id \in DOMAIN rows}})

\* BundledObjectStore.put
PutInPages(rows) ==
    InTurn({Put("rows", page, Over(OnPage(rows, page), DataPage(page))) :
               page \in {ToPageId(id) : id \in DOMAIN rows}})

\* WebSqlTable.remove: DELETE, with or without WHERE.
RemoveBySql(table, keys) ==
    IF keys = {} THEN <<Clear(table)>> ELSE <<Delete(table, keys)>>

\* LocalStorageTable.remove and MemoryTable.remove take as many ids as there are
\* rows for all of them.
RemoveFromMap(table, keys) ==
    IF keys = {} \/ Cardinality(keys) = Cardinality(DOMAIN view[table])
    THEN <<Clear(table)>> ELSE <<Delete(table, keys)>>

\* RuntimeTable.remove of each store; the keys {} stand for all.
RemoveRecords(table, keys, disableClear) ==
    CASE kind = "indexedDb" -> RemoveFromObjectStore(table, keys, disableClear)
      [] kind = "bundled"   -> RemoveFromPages(table, keys)
      [] kind = "webSql"    -> RemoveBySql(table, keys)
      [] OTHER              -> RemoveFromMap(table, keys)

\* One request for each row: ObjectStore.put, WebSqlTable.put, LocalStorageTable.put.
PutOneByOne(rows) == InTurn({Put("rows", id, rows[id]) : id \in DOMAIN rows})

PutRows(rows) == IF Bundled THEN PutInPages(rows) ELSE PutOneByOne(rows)

Deleted == DOMAIN base \ DOMAIN cache
Changed == {id \in DOMAIN cache : id \notin DOMAIN base \/ base[id] # cache[id]}

MergeTableChanges ==
    LET toPut == [id \in Changed |-> cache[id]]
    IN  (IF Deleted = {} THEN << >> ELSE RemoveRecords("rows", Deleted, Changed # {})) \o PutRows(toPut)

\* Faulty variant: only a transaction that inserts or updates writes the index.
MergeIndexOfPuts ==
    IF persistent /\ Changed # {}
    THEN RemoveRecords("leaves", {}, FALSE) \o <<Put("leaves", 0, index)>>
    ELSE << >>

\* The whole index overwrites its table.
MergeIndexChanges ==
    IF persistent
    THEN RemoveRecords("leaves", {}, FALSE) \o <<Put("leaves", 0, index)>>
    ELSE << >>

\* LocalStorage.commit writes every table.
Flushes == IF kind = "localStorage" THEN InTurn({Flush(table) : table \in DOMAIN view}) ELSE << >>

-----------------------------------------------------------------------------
(* Opening *)

\* The tables a schema needs: its own, and those of persistent indices.
\* WebSql.preUpgrade asks for the method persistentIndex without calling it.
TablesNeeded == IF persistent \/ kind = "webSql" THEN {"rows", "leaves"} ELSE {"rows"}

\* Index tables are dropped; tables that do not exist are created.
Recreated(existing) ==
    [t \in TablesNeeded |-> IF t = "rows" /\ t \in DOMAIN existing THEN existing[t] ELSE NoRows]

InFormat(row) == [row EXCEPT !.format = schema]

\* Faulty variant: one record is rewritten, row or page.
TransformedOnce(records) ==
    [key \in DOMAIN records |->
        IF key # Max(DOMAIN records) THEN records[key]
        ELSE IF Bundled THEN [id \in DOMAIN records[key] |-> InFormat(records[key][id])]
        ELSE InFormat(records[key])]

\* IndexedDBRawBackStore.transformRows, transformColumn: onUpgrade rewrites each row.
Transformed(records) ==
    [key \in DOMAIN records |->
        IF Bundled THEN [id \in DOMAIN records[key] |-> InFormat(records[key][id])]
        ELSE InFormat(records[key])]

Init ==
    /\ kind \in Kinds /\ persistent \in BOOLEAN
    /\ kind = "localStorage" => ~persistent
    /\ durable = NoRows /\ version = 0 /\ schema = 1
    /\ view = NoRows /\ requests = << >>
    /\ cache = NoRows /\ base = NoRows /\ index = {} /\ nextId = 0
    /\ phase = "closed" /\ rejected = FALSE /\ torn = "no" /\ unindexed = {}

\* LocalStorage.initSync and Memory.init: tables that were never written are empty.
LoadedTables == IF DOMAIN durable = {} THEN [t \in TablesNeeded |-> NoRows] ELSE durable

\* RuntimeDatabase.init: a session with the same schema or a newer one; WebSql
\* reads the version first.  LocalStorage does not upgrade.
Open ==
    /\ phase = "closed"
    /\ schema' \in version .. MaxVersion \ {0}
    /\ kind = "localStorage" /\ version # 0 => schema' = version
    /\ phase' = IF kind \in {"memory", "localStorage"} \/ schema' = version
                THEN "prefetching" ELSE "upgrading"
    /\ IF kind \in {"memory", "localStorage"}
       THEN version' = schema' /\ durable' = LoadedTables
       ELSE UNCHANGED <<version, durable>>
    /\ view' = IF kind \in {"memory", "localStorage"} THEN durable' ELSE NoRows
    /\ UNCHANGED <<kind, persistent, requests, memoryVars, rejected, torn, unindexed>>

\* IndexedDB.onUpgradeNeeded: one transaction of the database, which a rejected
\* callback does not abort.
UpgradeIndexedDb ==
    /\ kind \in {"indexedDb", "bundled"} /\ phase = "upgrading"
    /\ version' = schema
    /\ \/ /\ durable' = [Recreated(durable) EXCEPT !["rows"] = Transformed(@)]
          /\ phase' = "prefetching"
          /\ UNCHANGED rejected
       \/ /\ durable' = Recreated(durable)
          /\ phase' = "closed"
          /\ rejected' = TRUE
    /\ UNCHANGED <<kind, persistent, schema, view, requests, memoryVars, torn, unindexed>>

\* WebSql.preUpgrade, first transaction: the new version is stored.
StoreVersion ==
    /\ kind = "webSql" /\ phase = "upgrading"
    /\ version' = schema
    /\ phase' = "recreating"
    /\ UNCHANGED <<kind, persistent, durable, schema, view, requests, memoryVars, rejected, torn, unindexed>>

\* Its second transaction: index tables dropped, tables created.
RecreateTables ==
    /\ phase = "recreating"
    /\ durable' = Recreated(durable)
    /\ phase' = "transforming"
    /\ UNCHANGED <<kind, persistent, version, schema, view, requests, memoryVars, rejected, torn, unindexed>>

\* WebSqlRawBackStore.transformColumn, in a transaction of its own.  When the
\* callback is rejected the promise of the session stays pending.
TransformRows ==
    /\ phase = "transforming"
    /\ \/ /\ durable' = [durable EXCEPT !["rows"] = Transformed(@)]
          /\ phase' = "prefetching"
          /\ UNCHANGED rejected
       \/ /\ phase' = "closed"
          /\ rejected' = TRUE
          /\ UNCHANGED durable
    /\ UNCHANGED <<kind, persistent, version, schema, view, requests, memoryVars, torn, unindexed>>

\* Faulty variant: the first page is looked at.
MaxRowIdOfFirstPage ==
    LET records == durable["rows"]
    IN  IF records = NoRows THEN 0
        ELSE IF Bundled THEN Max(DOMAIN records[Min(DOMAIN records)] \cup {0})
        ELSE Min(DOMAIN records)

\* The greatest row id: of the last record, of the last page, or by MAX(id).
MaxRowId ==
    LET records == durable["rows"]
    IN  IF records = NoRows THEN 0
        ELSE IF Bundled THEN Max(DOMAIN records[Max(DOMAIN records)] \cup {0})
        ELSE Max(DOMAIN records)

Greater(a, b) == IF a > b THEN a ELSE b

\* setNextIdIfGreater, by the stores that scan for row ids.
ScannedNextId ==
    IF kind \in {"indexedDb", "bundled", "webSql"} THEN Greater(nextId, MaxRowId + 1) ELSE nextId

\* Prefetcher: an index read back is used unless its table is empty.
PrefetchedIndex(rows) ==
    IF ~persistent THEN Pairs(rows)
    ELSE IF durable["leaves"] = NoRows THEN {}
    ELSE durable["leaves"][0]

\* scanRowId and Prefetcher.init
Prefetch ==
    /\ phase = "prefetching" /\ "rows" \in DOMAIN durable
    /\ nextId' = ScannedNextId
    /\ cache' = StoredRows
    /\ base' = StoredRows
    /\ index' = PrefetchedIndex(StoredRows)
    /\ phase' = "idle"
    /\ UNCHANGED <<storeVars, view, requests, rejected, torn, unindexed>>

\* The scan meets a table that was never created: init is rejected.
ScanFails ==
    /\ phase = "prefetching" /\ "rows" \notin DOMAIN durable
    /\ phase' = "closed"
    /\ UNCHANGED <<storeVars, view, requests, memoryVars, rejected, torn, unindexed>>

-----------------------------------------------------------------------------
(* A transaction *)

NewRow(value) == [value |-> value, format |-> schema]
MayChange == phase \in {"idle", "active"} /\ Cardinality(Deleted \cup Changed) < MaxChanges

\* Rows are found through the index of row ids, which is stored, read back and lost
\* together with the others.
Found == {id \in DOMAIN cache : <<cache[id].value, id>> \in index}

SetRow(id, row) ==
    /\ cache' = With(cache, id, row)
    /\ index' = (IF id \in DOMAIN cache THEN index \ {<<cache[id].value, id>>} ELSE index)
                \cup {<<row.value, id>>}

Insert ==
    /\ MayChange /\ nextId < MaxId
    /\ \E value \in Values : SetRow(nextId, NewRow(value))
    /\ nextId' = nextId + 1
    /\ phase' = "active"
    /\ UNCHANGED <<storeVars, view, requests, base, rejected, torn, unindexed>>

Update ==
    /\ MayChange
    /\ \E id \in Found, value \in Values : SetRow(id, NewRow(value))
    /\ phase' = "active"
    /\ UNCHANGED <<storeVars, view, requests, base, nextId, rejected, torn, unindexed>>

DeleteRow ==
    /\ MayChange
    /\ \E id \in Found :
         /\ cache' = Without(cache, {id})
         /\ index' = index \ {<<cache[id].value, id>>}
    /\ phase' = "active"
    /\ UNCHANGED <<storeVars, view, requests, base, nextId, rejected, torn, unindexed>>

\* BaseTx.commitReadWrite: the requests are issued, in one go.
Commit ==
    /\ phase = "active"
    /\ view' = IF kind = "localStorage" THEN view ELSE durable
    /\ requests' = MergeTableChanges \o MergeIndexChanges \o Flushes
    /\ phase' = "committing"
    /\ UNCHANGED <<storeVars, memoryVars, rejected, torn, unindexed>>

\* ImportTask: rows go to cache and index at once, and past the journal.  The database
\* is taken for empty when its indices of row ids are.
Import ==
    /\ phase = "idle" /\ index = {} /\ kind # "localStorage" /\ nextId < MaxId
    /\ \E value \in Values : SetRow(nextId, NewRow(value))
    /\ nextId' = nextId + 1
    /\ view' = durable
    /\ phase' = "import"
    /\ UNCHANGED <<storeVars, requests, base, rejected, torn, unindexed>>

\* The journal has no diff of an import, so its commit writes no index.
IssueImport ==
    /\ phase = "import"
    /\ requests' = PutRows([id \in Changed |-> cache[id]])
    /\ phase' = "importing"
    /\ UNCHANGED <<storeVars, view, memoryVars, rejected, torn, unindexed>>

Running == phase \in {"committing", "importing"}

\* The answer to a count: the table is cleared, or the rows are deleted.
Counted(r) ==
    IF r.keys = {} \/ Cardinality(r.keys) = Cardinality(DOMAIN view[r.table])
    THEN <<Clear(r.table)>>
    ELSE DeleteEach(r.table, r.keys)

ViewAfter(r) ==
    CASE r.op = "put"    -> [view EXCEPT ![r.table] = With(@, r.key, r.record)]
      [] r.op = "delete" -> [view EXCEPT ![r.table] = Without(@, r.keys)]
      [] r.op = "clear"  -> [view EXCEPT ![r.table] = NoRows]
      [] OTHER           -> view

ExecuteRequest ==
    /\ Running /\ requests # << >>
    /\ LET r == Head(requests) IN
         /\ view' = ViewAfter(r)
         /\ requests' = Tail(requests) \o (IF r.op = "count" THEN Counted(r) ELSE << >>)
         /\ durable' = IF r.op = "flush" THEN [durable EXCEPT ![r.table] = view[r.table]] ELSE durable
    /\ UNCHANGED <<kind, persistent, version, schema, memoryVars, phase, rejected, torn, unindexed>>

\* Journal.commit, on the last answer.  WebSqlTx answers before the database
\* has committed, which may still fail.
Complete ==
    /\ Running /\ requests = << >>
    /\ \/ durable' = (IF kind = "localStorage" THEN durable ELSE view) /\ UNCHANGED torn
       \/ kind = "webSql" /\ UNCHANGED durable /\ torn' = "acknowledged too early"
    /\ base' = cache
    /\ unindexed' = IF ~persistent THEN {}
                    ELSE IF phase = "importing" THEN unindexed \cup Changed
                    ELSE unindexed \cap (DOMAIN cache \ Found)
    /\ phase' = "idle"
    /\ UNCHANGED <<kind, persistent, version, schema, view, requests, cache, index, nextId, rejected>>

\* Journal.rollback undoes the diff; an import has none.
RollbackMemory ==
    IF phase = "importing" THEN UNCHANGED <<cache, index>> /\ base' = cache
    ELSE LET ids == Deleted \cup Changed
             there == ids \cap DOMAIN base
         IN  /\ cache' = base
             /\ index' = {p \in index : p[2] \notin ids}
                         \cup {<<base[id].value, id>> : id \in there}
             /\ UNCHANGED base

\* The store refuses.  IndexedDB aborts the transaction; WebSQL commits the
\* statements before the refused one, or none; localStorage has written the
\* tables before the one it refuses, and LocalStorageTable keeps the changes.
Refuse ==
    /\ Running
    /\ CASE kind \in {"indexedDb", "bundled"} ->
              UNCHANGED <<durable, view>> /\ torn' = (IF phase = "importing" THEN "import" ELSE torn)
         [] kind = "webSql" ->
              /\ requests # << >>
              /\ durable' \in {durable, view}
              /\ torn' = IF phase = "importing" THEN "import"
                         ELSE IF durable' # durable THEN "statements kept" ELSE torn
              /\ UNCHANGED view
         [] kind = "localStorage" ->
              /\ requests # << >> /\ Head(requests).op = "flush"
              /\ torn' = "changes kept"
              /\ UNCHANGED <<durable, view>>
         [] OTHER -> FALSE
    /\ RollbackMemory
    /\ requests' = << >>
    /\ phase' = "idle"
    /\ UNCHANGED <<kind, persistent, version, schema, nextId, rejected, unindexed>>

\* RuntimeTransaction.rollback, or a statement of the transaction failed.
Abandon ==
    /\ phase = "active"
    /\ RollbackMemory
    /\ phase' = "idle"
    /\ UNCHANGED <<storeVars, view, requests, nextId, rejected, torn, unindexed>>

\* The page goes away, at any moment.
Crash ==
    /\ phase # "closed"
    /\ durable' = IF kind = "memory" THEN NoRows ELSE durable
    /\ version' = IF kind = "memory" THEN 0 ELSE version
    /\ view' = NoRows /\ requests' = << >>
    /\ cache' = NoRows /\ base' = NoRows /\ index' = {} /\ nextId' = 0
    /\ phase' = "closed"
    /\ unindexed' = IF kind = "memory" THEN {} ELSE unindexed
    /\ UNCHANGED <<kind, persistent, schema, rejected, torn>>

Next ==
    \/ Open \/ UpgradeIndexedDb \/ StoreVersion \/ RecreateTables \/ TransformRows
    \/ Prefetch \/ ScanFails
    \/ Insert \/ Update \/ DeleteRow \/ Commit \/ Import \/ IssueImport
    \/ ExecuteRequest \/ Complete \/ Refuse \/ Abandon \/ Crash

Spec == Init /\ [][Next]_vars

-----------------------------------------------------------------------------
(* Properties *)

TypeOK ==
    /\ kind \in Kinds /\ persistent \in BOOLEAN /\ rejected \in BOOLEAN
    /\ version \in 0 .. MaxVersion /\ schema \in 1 .. MaxVersion /\ nextId \in 0 .. MaxId
    /\ DOMAIN durable \subseteq {"rows", "leaves"} /\ DOMAIN view \subseteq {"rows", "leaves"}
    /\ \A rows \in {cache, base, StoredRows} :
         DOMAIN rows \subseteq Ids /\ \A id \in DOMAIN rows : rows[id] \in Row
    /\ index \subseteq Values \X Ids
    /\ phase \in {"closed", "upgrading", "recreating", "transforming", "prefetching",
                  "idle", "active", "committing", "import", "importing"}

\* Between transactions memory holds the stored rows, after commits, refusals,
\* rollbacks, crashes and upgrades alike.  Only three things ever break this: an
\* import that is refused, the statements WebSQL keeps or acknowledges too early,
\* and the changes LocalStorageTable keeps.
MemoryMatchesStore ==
    /\ phase = "idle" /\ torn = "no" => cache = StoredRows
    /\ torn = "changes kept" => kind = "localStorage"
    /\ torn \in {"statements kept", "acknowledged too early"} => kind = "webSql"
    /\ torn = "import" => kind \notin {"memory", "localStorage"}

\* The index leads to no row that is gone or changed, in any session.  It finds every
\* row when it is rebuilt from the rows.  One that is read back, from a table neither
\* lost to a clear that came late nor dropped by an upgrade, finds every row but those
\* that were imported and that no transaction has written the index for since.
IndexMatchesRows ==
    phase \in {"idle", "active"} /\ torn = "no" =>
        /\ index \subseteq Pairs(cache)
        /\ ~persistent \/ kind = "memory" => index = Pairs(cache)
        /\ kind # "indexedDb" /\ schema = 1 =>
             \A p \in Pairs(cache) \ index : p[2] \in unindexed

\* No id is given to a row while a stored row has it, in any later session
\* (Row.setNextIdIfGreater).  LocalStorage never scans its rows.
FreshIds ==
    phase \in {"idle", "active"} /\ kind # "localStorage" =>
        \A id \in DOMAIN cache \cup DOMAIN StoredRows : id < nextId

\* What is stored changes from the rows before a transaction to the rows after it
\* and to nothing between, at whatever request the page goes away; or by an
\* upgrade, all rows at once.
StoreAtomic ==
    [][\/ StoredRows' = StoredRows
       \/ phase \in {"committing", "importing"} /\ StoredRows' = cache
       \/ phase \in {"upgrading", "transforming"}
          /\ StoredRows' = [id \in DOMAIN StoredRows |-> InFormat(StoredRows[id])]
       \/ kind = "memory" /\ phase' = "closed"
       \/ torn' # "no"]_vars

\* A session works on rows of its own schema: whatever an upgrade was cut off by, the
\* next session goes through it.  WebSQL stores the version before it upgrades
\* (web_sql.ts:182), and a rejected callback does not take the version back.
UpgradeComplete ==
    phase = "idle" /\ kind # "webSql" /\ ~rejected =>
        \A id \in DOMAIN cache : cache[id].format = schema
=============================================================================
