# Lovefield: a verification development

Lovefield (`src/lib`) is a relational query engine for web applications. It
keeps every row in memory, indexes it with B-trees, runs queries as tasks under
table locks, and writes committed changes to a back store (IndexedDB, WebSQL,
local storage, or none). This directory holds TLA+ models of it, the TLC
configurations that check them and TLAPS proofs about them.

- [How the system works](#how-the-system-works)
- [Inventory](#inventory)
- [Modules](#modules)
- [What each run checks](#what-each-run-checks)
- [Bounds](#bounds)
- [Fairness](#fairness)
- [What is proved](#what-is-proved)
- [What is only model-checked](#what-is-only-model-checked)
- [Where the code departs from what it says](#where-the-code-departs-from-what-it-says)
- [What is not modelled](#what-is-not-modelled)
- [Plan](#plan)

## How the system works

JavaScript runs one callback to completion, so nothing here is preemptive. All
concurrency comes from promises: between the call of a task's `exec` and the
handler of its promise any other callback may run. There is one exception, and
it is where the deepest trouble is: `Runner.consumePending` calls `exec`
synchronously, and the `exec` of an external change schedules a task, which
calls `consumePending` again *inside* the outer loop.

    client ── exec/begin/attach/commit/rollback ──> RuntimeTransaction
       RuntimeTransaction ── scheduleTask ──> Runner ── locks ──> LockManager
       Runner ── exec ──> UserQueryTask | TransactionTask | ImportTask | ...
       task ── rows ──> Journal ──> indices (IndexStore), rows (Cache)
       task ── createTx/commit ──> back store, Journal.commit | rollback
       task ── scheduleTask ──> ObserverQueryTask ──> ObserverRegistry ──> client
       back store ── notify ──> ExternalChangeTask ──> Runner

## Inventory

| component | state | operations | what is hard | what makes it correct |
|---|---|---|---|---|
| Runner, queue, locks (`proc/runner.ts`, `task_queue.ts`, `lock_manager.ts`, `lock_table_entry.ts`) | queue, lock table, promises | `scheduleTask`, `consumePending`, `onTaskSuccess`, `onTaskError`, request/grant/release/clear of four lock kinds | loops inside loops, half-made reservations, cleared reservations, throwing `exec` | isolation, no lock without an owner, no lost wakeup, every task settles, readers of high priority not overtaken |
| Tasks (`proc/*_task.ts`) | type, scope, priority, resolver | `exec`, `onSuccess` | commit handlers that schedule observers under locks | each task runs once, under locks |
| Explicit transactions (`proc/runtime_transaction.ts`, `transaction_task.ts`, `transaction_state.ts`) | state, task, three resolvers | `begin`, `attach`, `commit`, `rollback`, `exec` | client calls between promise callbacks, failures at each step | callbacks always legal, locks released when it ends, uncommitted changes unseen |
| Journal and cache (`cache/journal.ts`, `table_diff.ts`, `in_memory_updater.ts`, `default_cache.ts`, `backstore/base_tx.ts`) | rows, indices, diff | insert, update, replace, remove, commit, rollback | half-done index updates, rollback order, restart in any phase | atomic transactions, indices = cache, diff = net change |
| Foreign keys (`cache/constraint_checker.ts`, `cascade.ts`) | none | immediate and deferred checks, cascades | diamonds, cycles, order of statements | no dangling reference after commit |
| Observed queries (`base/observer_registry*.ts`, `diff_calculator.ts`) | registry, last results, observed array | `observe`, `unobserve`, update | results of older queries arriving late, lists that differ everywhere | observers hear of every commit, never of rows taken back, and the change list reproduces the array |
| Connection (`proc/runtime_database.ts`, `base/global.ts`, `cache/prefetcher.ts`) | active flag, services | `init`, `close`, prefetch | close with tasks in flight | nothing runs on cleared services |
| Back stores (`backstore/*`) | tables, pages, version | put, remove, commit, upgrade, scan | asynchronous clear against put, pages read and written back, crashes between requests | a commit is all or nothing, ids stay fresh, upgrades are complete |
| External changes (`external_change_observer.ts`, `external_change_task.ts`) | snapshot | diff, update memory | nested loops | memory follows the store |
| Indices (`index/btree.ts`, `nullable_index.ts`, `row_id.ts`) | tree | add, set, remove, get, getRange | splits, steals and merges across parents | a sorted multimap |
| Key ranges, comparators (`index/*range*`, `*comparator*`) | none | union, intersection, complement, order | excluded bounds, nulls | agree with sets of keys |
| Predicates (`pred/*`, `base/eval.ts`) | predicate tree | eval, negate, toKeyRange | negation, null | agree with their meaning |
| Query builders (`query/*`) | context | building, preconditions, binding | legal orders of calls | refuse every illegal query |
| Logical and physical plans (`proc/lp`, `proc/pp`, `structs/tree_*`) | the plan a builder keeps | rewrite passes, steps | passes that change the result, plans older than rows and values | every execution answers what was asked |
| Relations (`proc/relation*.ts`) | entries | joins, set operations, transformation | prefixes, outer joins | relational algebra |
| Schema builder (`schema/*`) | table definitions | `createTable`, the calls of a table builder, `connect` | declarations in any order, loops and chains of foreign keys | accept only schemas on which statements are sound |
| SQL text and explanation (`query/to_sql.ts`) | none | `toSql`, `explain` | none | formatting only |
| Utilities (`structs/*`, `base/*`) | none | containers | none | used as their mathematical meaning |

The hazards of each, with the line where each bites, are in `PROJECT.json`.

## Modules

**LockManager** is `lock_manager.ts` and `lock_table_entry.ts`: a record of four
fields per table, and what granting, releasing and clearing do to it, as
operators. `EntryCanAcquire` is `canAcquireLock` branch for branch.

**Runner** extends it with the queue and the tasks. `stack` holds the active
`consumePending` loops, innermost last; one step (`PassOver`, `StartAsync`,
`StartSync`, `StartExternalChange`, `ExecThrows`) visits one task of the innermost
loop with both its lock requests, as the body of the loop does, and other
callbacks run only when the stack is empty. The queue is the set of waiting
tasks with the order `Precedes`, since `TaskQueue` keeps its array sorted and
without duplicates. Executions are pairs of task and call, so that a task that
is executed twice is two executions. A descriptor says what a task's `exec`
does to the runner; what it does to data is in Journal.

**IsolatedTasks** is what the runner promises: a task waits, runs once beside
no task it conflicts with, and is settled.

**Transactions** is the state machine of `RuntimeTransaction` with the task it
schedules and the callbacks between them, *over* IsolatedTasks: submitting,
starting and finishing are steps of an instance of that module, which Runner is
proved to implement. Each client call is one action that moves `state` as
`updateState` does; each `then` of the code is an action on the variable
`callback` or on `phase`. Changes to rows are kept per table as `changed`.

**Journal** is one read-write transaction after another on one table: the diff,
the cache, the indices (each the set of its entries), the stored rows. One step
applies one row of a statement, with the index updates and, when a later index
refuses, their reversal (`UpdateIndices`, `Refused`); `UndoRow` is one row of a
rollback; `Reopen` is a restart in any phase, `StoreCommits` and `Acknowledge`
the two halves of a commit. Rows of one statement, and of one group of a
rollback, are taken in any order, where the code takes the order of a Map: the
properties hold for every order.

**TransactionalTable** is what the journal promises: the durable rows change
only by a commit, all at once, and every transaction begins with them.

**BTree** is `index/btree.ts` over one ascending key. The nodes are a heap of
records with parent, child and sibling links, changed link by link as the code
does; each call is one action. After a call the heap is renumbered in level
order, so that equal trees are equal states. `Split`, `StealFirst`, `StealLast`, `Merge`
and `Rebalance` are the restructuring; `Deserialize` and `CreateInternals` build the
initial trees as the code builds one from stored leaves; `GetRange` has the walk along
the leaves and the two binary searches of a leaf. Sorted lists of row ids are
sets. The module is recursive and stays with TLC.

**SortedIndex** is what an index promises to its callers (`runtime_index.ts`).
BTree implements it with `rows <- Contents`.

**PersistentIndex** adds to BTree the index table that a commit overwrites and a new
session reads back.

**Stores** is `backstore/*` with the opening of a database: five stores under one
table with one index. A commit issues the `requests` that `BaseTx` and the table
objects issue; `ExecuteRequest` does one, and an answer may issue more (the count
before a clear). `view` is what the native transaction, or `LocalStorageTable`, has of
the tables, `durable` what is stored. `Open` to `Prefetch` are the phases of
`RuntimeDatabase.init`: version, upgrade, scan for the greatest row id, prefetching.
`Refuse` and `Crash` may come between any two requests. Statements reach the rows that the
index leads to (`Found`), since the index of row ids is stored and lost with the others;
`unindexed` is a ghost, the ids of imported rows that no index was written for. The native databases are external:
how they treat requests, refusals and crashes is stated in the module's header.

**Schema** is `schema/builder.ts` and `table_builder.ts`: declarations in any order,
what each refuses, and the checks when the database is connected for the first time.

**ForeignKeys** extends it with transactions on the accepted schema. A statement is a
step that goes through its rows in the order of the code, with the checks of
`ConstraintChecker`, the cascades, the rollback of `modifyRow`, and the scope its
context asks locks for; `CheckDeferred` and `Stored` are the two halves of a commit.

**KeyRanges**, **Relations** and **Predicates** are the pure parts a query is made
of: ranges of keys and their algebra, entries with joins, aggregation and sorting,
conditions with their complement, binding and key ranges. **PlanTrees** is
the tree surgery of `structs/tree_helper.ts`, **LogicalPlans** the generator and the
four logical passes, **IndexScans** the choice of an index and what it returns,
**PhysicalPlans** the six physical passes, **PlanExecution** the steps.
Each extends the one before.

**Queries** is the life of one query: the calls of its builder, one step per pass
(`Rewrite`), executions with a copy of the context (`Exec`) or, observed, with the
context itself (`RunObserved`), values bound in between, and commits of others that change
the rows under a plan already made. **QueryMeaning** says what a query asks for,
in terms of its calls and without plans or indices; it is the one module that
translates no code.

**Observers** is the registry, the list difference, and the tasks that feed them, *over*
IsolatedTasks like Transactions: writes, reads, imports and observer tasks wait and end
as that module lets them. The difference of two lists is computed by the loops of the code
(`Backtrack`, `Deletions`, `Insertions`), and `view` is a client that repeats on a copy, record
by record (`Repeat`), what it is told.

`MC*` modules fix the small instances. `RunnerProofs`, `TransactionsProofs`,
`JournalProofs`, `StoresProofs`, `SchemaProofs`, `ForeignKeysProofs`, `KeyRangesProofs` and
`ObserversProofs` hold the theorems. Recursion in the modules they extend is by recursive
functions. Definitions whose
comment says "Faulty variant" are not part of any specification: each is the
code with one plausible bug, and shows that a property would notice it.

## What each run checks

| run | question | result |
|---|---|---|
| `runner` | user queries, imports and exports on two tables, one observed | locks isolate tasks, are released, wake the next; readers not overtaken; every task settles; IsolatedTasks implemented |
| `runner_external` | external changes that nest loops and throw | lock entries stay consistent, writers exclude writers, every task settles unless an exception unwound a loop |
| `journal` | transactions of any length on three rows, two unique indices, one of them nullable | indices = cache, keys unique, diff net, memory = store between transactions, TransactionalTable implemented |
| `transactions` | two clients, all scopes and queries over two tables, failures everywhere | usable means locked, uncommitted changes covered and unseen in scope, callbacks legal, commits answered, ended journals release |
| `btree` | any three calls on five trees of order 6, with and without duplicates | links, levels and separators intact, look-ups, counts and range queries right, SortedIndex implemented |
| `btree_reloaded` | are the keys of a stored tree found in the next session? | no, unless its leaves split in key order |
| `stores` | transactions, imports, upgrades, refusals and crashes on five stores | what is stored changes by whole transactions, memory follows, indices lead to no wrong row and are read back but for imported rows, ids stay fresh, upgrades are gone through |
| `foreign_keys` | schemas declared in any order, and statements with cascades on those with chains, diamonds, deferrable and unique-column keys | accepted schemas have no loop, no reference dangles, scopes cover what is touched, deletions remove their closure |
| `foreign_keys_replaced` | the same for CASCADE keys to a unique column | no: insertOrReplace leaves the children behind |
| `queries` | fifteen kinds of query, built, planned, executed, bound and executed again while rows change | every answer is right, and would be after each physical pass |
| `queries_unsorted` | the same for an ORDER BY with a disjunction, over an index | no: the order is lost |
| `observers` | reads, writes and imports beside observe, unobserve and bind, with failing commits | clients that repeat what they are told have the results; these are current when delivered, never uncommitted, and every commit is told |

`RollbackRefusedOnlyForMovedKeys`, `AnswersAreRight` and others name exactly what the
code does not keep; what lies outside of them is listed under
[departures](#where-the-code-departs-from-what-it-says). The type invariants
of Runner, Journal and Transactions are proved, and no run repeats them.

## Bounds

`runner`: three client tasks on two tables, plus the observer tasks their commits
schedule (five ids). Three is the least that lets a writer reserve part of a
scope, a second reserve the rest and a high-priority reader clear both; two
tables are the least on which scopes overlap without being equal.

`journal`: three row ids and two keys make a key move, collide and come back;
statements change up to two rows, so a statement can fail half-way; the number
of statements is not bounded. Two unique indices, one nullable, are the least
on which an update fails after an index was already changed.

`transactions`: two transactions are the least that conflict; two tables give
queries inside and outside a scope. Transactions are used once, as in the code,
and may attach any number of queries.

`btree`: order 6 stands for 512: like it, it is even, and no bulk-loaded node is
left with a single key, which needs at least 11 leaves at this order and cannot
happen at 512. The five trees are empty, one full leaf, three leaves under a root,
a root one split away from splitting, and two levels of thin internal nodes on
which one removal merges on both levels. The calls use six keys: on both sides
of a boundary between leaves of different parents, present and absent, and at both ends.
Three calls are enough to underflow, merge, overflow and split again; they are a
bound on the depth, not on what a call may do.

`stores`: row ids 1 to 3 lie on two pages of two rows, so that a page is shared, left,
and emptied; two values let an index entry move; two versions of the schema give one upgrade;
transactions change up to two rows, which are two requests, two pages, or one page twice.
Sessions are not bounded. A behaviour in which a store broke a transaction
in two (`torn`) is not followed further, since nothing is claimed after that; the
properties say which store can do that, and how.

`foreign_keys`: declarations on three tables come in any order and any number (a fourth
table may be created without ever being used). Statements are run on four schemas,
chosen for what they make possible: a diamond of cascades with a unique column, a chain
of cascades, a deferrable chain with a table that refers to itself and two statements per
transaction (one that breaks, one that repairs), and a key to a unique column. Four rows make a
diamond with all its corners; two keys and null let a key move, collide and vanish.
Row ids and keys are symmetric: nothing orders them.

`queries`: one table with four indices (ascending, descending, of two columns, nullable)
and one table that may be joined twice; three databases with nulls, duplicates, a table
with one row and one without rows; blocks of two rows, so that joins
cross a boundary of blocks; a threshold of 100%, so that small tables use their
indices at all. Recipes bound what one query may combine, so that every pass
and every step is reached by some of them; two commits let a plan grow
stale twice. `GeneratePlan`, each pass and each execution are separate steps.

`observers`: a query of one table and one of both are the least with a commit that concerns
one and not the other. Two client tasks and the observer tasks their commits schedule (four ids)
let a read overlap a commit; contents with equal rows make differences that can be aligned
in several ways. Two calls of `observe`, `unobserve` and `bind` are enough to
leave and come back, or to bind between an execution and its delivery.

## Fairness

`Runner` assumes that a loop that is under way goes on (it is one synchronous
call), that a pending promise of an `exec` settles (a query plan ends, and the
back stores settle every transaction: IndexedDB transactions complete or abort)
and that handlers of settled promises run (the microtask queue). Nothing is
assumed of clients. `Transactions` assumes the same of its runner, its queries
and its callbacks, and nothing of clients: one that begins a transaction and
never ends it keeps the locks, which is what the code does. `Journal`,
`Stores`, `ForeignKeys` and `Queries` have no liveness property. `Observers` assumes that a
task that is scheduled gets its locks and is settled, which is what `EveryTaskSettles`
shows of Runner, and that its commit succeeds or fails; nothing of clients.

## What is proved

Everything is proved for arbitrary constants, from the `ASSUME`s stated in the
modules: sentinel values are no other values; `RowIds` of Journal and ForeignKeys and
`TableNames` of Schema are finite; `Prelude` and `Calls` of Schema are calls of its builders;
queries, rows and bounds of Observers are sets, and rows are told apart by integers; Stores has
the five kinds of store and a page size that is not zero; `Unbound` is no key. The theorems on
ForeignKeys have one hypothesis more, `RegularSchemas`, explained there.

*Locks* (`RunnerProofs`). `LocksConsistent`, with external changes and throwing
tasks: on each table an exclusive lock excludes shared ones and so on. It is
inductive by itself, step by step over the calls of the lock table.
`WritersExclude` adds the bookkeeping of executions.

*Isolation* (`RunnerProofs`). `UnderLock`, `TasksIsolated` and
`ImplementsIsolatedTasks` assume that no external change is scheduled, which is
what a database opened without an observed remote store does
(`proc/runtime_database.ts:68`), and the last also that no `exec` throws. Departures
1 and 2 below show that the assumptions are needed. `ExecutesUnderLock` alone is not inductive: the invariant `IsolationInv`
adds that at most one loop is active, that a task in the queue has not been
executed and that lock entries are consistent.

*Transactions* (`TransactionsProofs`). `TransactionsInv` says for each state of the
state machine where the runner, the journal and the promises are (`Lifecycle`), that
every changed table is covered (`Coverage`), and that running tasks do not
conflict (`Exclusion`). It has one lemma per action; the five theorems on usability,
coverage, isolation and callbacks follow from it. `ScopeIsolated` is the sum: a
reader inside its scope is disjoint from any running writer.

*Journal* (`JournalProofs`). `JournalInv` has the run's invariants and two more, on the
operations a statement has left and the reversals a rollback has left
(`TodoFits`, `UndoFits`). `ImplementsTransactions` maps every step to a step of
TransactionalTable or a stutter: this is the proof that diff, reversed index
updates, rollback, both halves of a commit and a restart amount to atomicity.
`RollbackRefusals` shows that moved keys are the *only* way a rollback can fail.

*Waiting* (`RunnerProofs`), under the assumptions of *Isolation*. `LockOwnersLive` needs that
entries of the lock table name only tasks that hold them (`OwnersInv`). `WakeupsNotLost` says
that a task is never left in the queue with nobody to wake it: it is not inductive,
since between two visits of a loop tasks wait in vain. The invariant follows the loop: a
task that was passed over waits for a lock that some other task holds or has reserved, and
a circle of writers waiting for each other's reservations cannot be, since the last one to
reserve found its scope free. `ReadersNotOvertaken` adds that an urgent reader clears the
reservations before it and that nothing less urgent is visited before it.

*Observers* (`ObserversProofs`). `DeliveredCurrent`: what a client is told is what the committed
rows give for the query as it was bound when it ran. The invariant `DeliveryInv` ties each
result on its way to the contents under which it was computed: the task that carries it holds a
shared lock until the result is delivered, so no writer can finish in between
(this is where isolation, proved of IsolatedTasks, is used). `ClientsFollowResults`: a client that
repeats on its copy what it is told has the same array as the entry of the registry, and both
are the last result delivered. `FollowInv` adds that the observed array always has the rows of the last
result, and that only observers of the query have been told anything; the rest is about `DiffCalculator`, for any two lists. Of the common
subsequence only this is needed: it is ascending in both lists and pairs equal rows (it
need not be longest). Then the array after `i` deletions, and after `j` insertions, is known
exactly, a copy that repeats the records goes through the same arrays, the last
of them is the new result, and without records both lists were equal.

*Stores* (`StoresProofs`), for every page size, number of rows, of versions and of changes. The
five properties of the run are theorems, on each of the five stores. The argument has two
halves. What holds of any store, broken or not: tables hold rows, pages hold the rows of
their range, every request is one that the rows in memory call for (`Form`); all ids lie below the next
one (`IdsBelow`, hence `IdsAreFresh`, where the scan finds the greatest id because a lower
page has lower ids); rows have the format of the version (`Formats`, hence `UpgradesComplete`).
What holds until a store breaks a transaction in two: the requests not yet executed are
exactly what the tables of the native transaction still miss of the rows in memory
(`Missing`): what is missing is asked for, nothing that is asked for undoes what is there, and a
count stands alone, since its answer may clear the table. So the last answer
leaves the rows in memory and nothing else (`MemoryMatches`, `CommitsAreAtomic`). For
the index (`Indexed`): its put is the last thing that happens to it, or, in plain IndexedDB, the
late clear leaves it empty, which leads nowhere; an import leaves the stored index alone
(`IndexLeftAlone`) while it only adds rows (`BaseKept`), so that what the index then lacks are rows of
imports, and a transaction that writes it stores those that are in memory's (`IndexLeadsToRows`). Each part of the
invariant was checked with TLC on every store before it was proved.

*Schema* (`SchemaProofs`). `SchemaInv` says what any order of calls leaves in the builders
(`IsBuilder`: each foreign key has an index of its child column, and where that column is unique, this
index is or the one of the primary key is of the same column) and what `finalize` has checked when a database
is open. The hard part is the search for loops, a recursion over paths with a set of
visited tables: a visit that reports no loop has followed every reference of the tables it has
completed (`Visited`), and one that reports a loop has come back to its own path. The induction is over
the number of tables not yet visited (`Visits`). `AcceptedSchemas` states the result: in whatever
order the search meets the tables it reports a loop exactly when there is one, and in a schema that
is accepted no tables refer to each other in a circle, the keys refer to columns that are there and
have a unique index, and none refers to a column that is itself a child column.

*Foreign keys* (`ForeignKeysProofs`). The invariant has two parts. One is about data: no key dangles
in what is committed, no immediate key dangles after a statement, and no key at all when the deferred
checks are through. The other is about locks (`Covers`): whatever the deferred checks are going to
look at, for each changed row, lies in the scope of a statement that was executed, which ties
`DiffOf` at the end to the scopes of statements long before. `Outcome` says what a statement does, also
one that fails half-way: it touches tables of its scope only, and each row it changed is covered by
that scope; unless it fails, no immediate key dangles afterwards. Cascades of an update keep references because parent and child change at
once; cascades of a deletion because what is removed is, level by level, what refers to what was
removed (`ReferringRows`, `RemoveByCascade`). `ReferencesKept` and `ScopeCovers` hold of schemas whose keys
are `Regular`, which leaves out three things the code gets wrong: CASCADE keys to a column
outside of the primary key (departure 16), IMMEDIATE keys of a table to itself (17), and two keys on one
child column (18). TLC runs them on regular schemas too, with the counterexample of 16 in a
run of its own.

*Key ranges* (`KeyRangesProofs`), for all integer keys and all ranges, empty and reversed ones included.
`AndIsIntersection`, `ComplementIsComplement` and `GapsAreComplement` compare the operations with those
of sets of keys. `RangeSetsAreExact` is about `SingleKeyRangeSet.add`, which sorts the ranges and merges
neighbours in one pass: it loses and gains no key because ranges that overlap leave no gap
(`BoundingRangeIsUnion`), and it leaves ranges that end before the next begins because a merged
range begins where its first did; so an index that is asked one range after the other returns no row twice
and keeps their order. That a sort returns its elements in order is proved from the
strict order `Compare` gives (`InOrderOrders`). `IntersectionsAreExact` combines these. Null is no key
here: a set of ranges that grows to all keys also takes rows with null (departure 27).

## What is only model-checked

Liveness (`EveryTaskSettles`, `EveryTaskSettlesUnlessThrown`, `CommitsAreAnswered`,
`TerminatedReleases`, `ChangesAreTold`) and anything about ENABLED is out of the proof system's reach.

What a recursive definition computes needs induction over data, and the induction theorems
of the library take operators, which no prover here instantiates. The proofs above do their
inductions by hand, from a least counterexample, over recursive functions. For trees of nodes, plans
and predicates this has not been done: BTree, PlanTrees, Predicates and what extends them declare
RECURSIVE operators, and modules that do cannot hold theorems. So the properties of BTree
(`WellFormed`, `LookupsAgree`, `RangesAgree`, `ImplementsIndex`) and of Queries (`AnswersAreRight`,
`PassesKeepTheAnswer`) stay with TLC.

`DeletionsAreClosed` holds on the schemas of the run and is no theorem: its proof fails for
the reason given as departure 19.

## Where the code departs from what it says

Those with a run are counterexamples TLC finds. The others were met while the code was
translated; the passing runs leave them out by a condition in the property or by
the choice of inputs, as said here.

*Tasks, transactions, journal, indices*

1. A task can be executed twice, the second time without its lock
   (`proc/runner.ts:53`): the loop walks a copy of the queue, and a loop inside it has
   already executed and released the task. Needs external changes.
2. An import that is refused throws out of the loop and keeps exclusive locks on
   all tables (`proc/runner.ts:98`).
3. `Journal.rollback` re-adds deleted rows before it removes added ones within a
   table, so a unique key that moved between rows makes it throw half-way
   (`cache/journal.ts:208`). `RollbackRefusedOnlyForMovedKeys` says that nothing else does.
4. `attach` finalizes a transaction whose query is refused up front without ending
   its task (`proc/runtime_transaction.ts:85`).
5. A transaction reads any table, in scope or not (`cache/journal.ts:223`).
6. A stored B-tree of several leaves is read back in the order of node ids, not of
   keys (`index/btree.ts:336`), so that its keys are lost to look-ups. Run
   `btree_reloaded`.
7. With an even order, as in production, two internal nodes merge into one with more
   children than the order, which the exact comparison in `insert` may then never
   split (`index/btree.ts:659`). Look-ups stay right.
8. Row id 0 is taken for "no row id" by `NullableIndex.remove`
   (`index/nullable_index.ts:90`).

*Stores*

9. The clear of a persistent index waits for a count and may be done after the
   leaves were put (`backstore/base_tx.ts:148`, `object_store.ts:85`): the index table is
   then empty. `IndexMatchesRows` claims no more than that no wrong row is found then.
10. The tables of persistent indices are dropped by an upgrade and not rebuilt
    (`backstore/indexed_db.ts:170`, `cache/prefetcher.ts:125`).
11. An import that the store refuses stays in memory (`proc/import_task.ts:125`).
12. An import writes no index: its rows go past the journal (`proc/import_task.ts:125-133`), which
    therefore has no diff of indices to store (`cache/journal.ts:87`, `backstore/base_tx.ts:142`).
    With persistent indices, unless a later transaction of the same session stores them, the
    next session reads back the imported rows and an empty index of row ids: queries find
    none of these rows, and a second import is not refused, since `isEmptyDB`
    (`import_task.ts:101`) asks the indices. `IndexMatchesRows` says that no other rows are
    lost to an index that is read back (TLC refutes it without `unindexed`).
13. WebSQL goes on with a transaction after a refused statement, and resolves it before the
    last one was done (`backstore/web_sql_tx.ts:92`, `:111`); it stores the version before the
    upgrade runs (`web_sql.ts:182`), and takes `persistentIndex`, a method, for a value
    (`web_sql.ts:201`).
14. `LocalStorageTable` keeps changes that could not be written (quota), row ids are not
    scanned in local storage (`backstore/local_storage.ts:139`), and its difference for
    observers deletes the rows still there (`local_storage_table.ts:103`).
15. Index leaves take ids from the counter of the rows but are not scanned
    (`backstore/indexed_db.ts:242`).

*Foreign keys and schemas*

16. `insertOrReplace` changes a referenced column without cascading
    (`cache/journal.ts:153`). Run `foreign_keys_replaced`.
17. An IMMEDIATE key of a table to itself refuses rows that refer to each other in one
    statement (`cache/constraint_checker.ts:132`); a CASCADE key of a table to itself makes
    the expansion of a deletion's scope endless (`query/delete_context.ts:52`, `ScopeOverflows`).
18. Of two foreign keys on one child column only one is found by column
    (`schema/info.ts:75`, `cache/journal.ts:264`).
19. A deletion's cascade removes tables in the reverse of the order in which they were found, not
    children first (`cache/constraint_checker.ts:183`). One that is reached by two paths is listed twice,
    and one that is found on a short path goes before one that refers to it and was found
    by way of another table: with IMMEDIATE keys `N` to `P`, `U` to `P`, `U` to `N` and `C` to
    `U`, all CASCADE, the deletion of a row of `P` can be refused because its row of `C` is
    still there (`journal.ts:306`). `DeletionsAreClosed` is checked on schemas without this shape.
20. Null meets null: "A null value in the child column implies to ignore it"
    (`cache/constraint_checker.ts:232`), but the other way round a null is looked up in the index
    of the child column like any value (`:299`, `:322`, `:348`). Where a key refers to a nullable
    unique column, a row with null there cannot be deleted or changed while a child has null, and with CASCADE
    the children with null are deleted or changed with it. TLC finds the refusal on the
    fourth schema of `foreign_keys` if `NullMeetsNull` is taken out of `DeletionsAreClosed`, whose
    references (`RefersTo`) leave null out.
21. The scope of an explicit transaction is what the client names: parents and children of
    its tables are looked at without locks (`proc/transaction_task.ts:60`,
    `cache/journal.ts:180`). `TouchesOnlyItsScope` is about queries outside of one.
22. An index that `addIndex` declares unique does not make its column one that foreign keys may refer
    to, as `addUnique` does (`schema/table_builder.ts:160`). A failed `connect` leaves the builder connecting for ever (`schema/builder.ts:77`), `close`
    does not wait for tasks (`proc/runtime_database.ts:161`), and NOT NULL is not enforced
    on a table without indices (`schema/table_impl.ts:138`).

*Queries*

23. ORDER BY that an index took over is lost when a disjunction above the scan
    joins its parts (`proc/pp/order_by_index_pass.ts:38`). Run `queries_unsorted`.
24. ORDER BY on a nullable column with an index drops the rows with null
    (`proc/pp/unbounded_key_range_calculator.ts:25`, `index/nullable_index.ts:126`).
25. An observed query that is bound anew keeps the key ranges of the old values
    (`proc/pp/bounded_key_range_calculator.ts:50`). `RebindsObserved` turns it on.
26. `MultiKeyComparator.sortKeyRanges` loses or repeats combinations of ranges of
    several columns (`index/multi_key_comparator.ts:83`).
27. Negated predicates on nullable columns take rows with null or not, depending on whether
    an index answers them; `NOT (col IN [])` finds nothing by an index.
28. Joins disagree about null: the index join matches null with null
    (`pred/join_predicate.ts:283`), so does a join predicate left as a
    selection, and NEQ joins by nested loops are not symmetric.
29. An outer join by nested loops repeats unmatched rows for every block of the right table,
    or loses them if that is empty (`pred/join_predicate.ts:148`).
30. `COUNT(*)` with an ORDER BY that an index gives throws when it is planned
    (`proc/pp/get_row_count_pass.ts:42`; `RewriteFails`), and ORDER BY of an
    aggregate over a single joined relation when it is executed (`proc/relation_entry.ts:84`).
31. `MultiColumnOrPass` finds the table by its name, also when the query uses an alias
    (`proc/pp/multi_column_or_pass.ts:104`), and takes an OR on the right table
    of an outer join down to its scan (`:74`).
32. Calls of the builder after the plan is made are not heeded (`query/base_builder.ts:101`),
    and a null bound later to a predicate that an index answers fails an assertion.
33. Groups are told apart by their keys joined with commas (`proc/pp/group_by_step.ts:48`), hash
    joins by `String(value)`; a sort takes null for 0; an aggregation with an empty relation
    among its groups stops early (`proc/pp/aggregation_calculator.ts:42`).

*Observers*

34. Imports tell no observers; a callback that throws keeps the others from being told
    (`base/observer_registry_entry.ts:69`).

## What is not modelled

Row payloads, SQL text, `explain`, error messages and statistics are data no property is
about. Closing a database with tasks in flight, storage events from a second tab, and what an
export returns are not modelled; of the raw back stores, only the transformation of rows
that an upgrade asks for, not adding, renaming or dropping columns and tables. Journal has
one table and leaves the RowId index out: it is the set of ids in the
cache; several tables with foreign keys are in ForeignKeys, which reads indices off the cache
since Journal shows that they agree. Transactions does not model observer tasks (Observers
does) nor `stats`. BTree leaves out `fromData` (used by tests only), keys of several
columns, descending order (the mirror image) and `maxKeyEncountered`; IndexScans says what
indices of several or nullable columns return. Queries leaves out values that are not
integers, MATCH, average, deviation and geometric mean, aliases of
columns and prefixes of tables in results, and calls that the builder refuses. Schema leaves out
types of columns, auto-increment, and generated row classes. Observers leaves out callbacks that
throw.

## Plan

Each module is written to be proved about where it has no recursion.

1. *Done*: LockManager, Runner, IsolatedTasks, Journal, TransactionalTable,
   Transactions, with their proofs; BTree, SortedIndex and PersistentIndex.
2. *Done*: Stores; Schema and ForeignKeys; KeyRanges to Queries; Observers.
3. *Done*: the proofs of waiting tasks, of observers' results and of what their clients are told,
   of Stores, Schema, ForeignKeys and KeyRanges. Proofs that remain: BTree and the passes of
   Queries, once their recursions are functions; `DeletionsAreClosed` of schemas whose tables
   are found children first.
4. Models that remain: closing with tasks in flight, storage events from a second
   tab into external changes, NullableIndex and RowId as refinements of SortedIndex,
   transactions with a declared scope over ForeignKeys.
