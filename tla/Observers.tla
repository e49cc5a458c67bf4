----------------------------- MODULE Observers -----------------------------
(***************************************************************************)
(* Observed queries (base/observer_registry*.ts, diff_calculator.ts, and   *)
(* the tasks that feed them).  A client registers callbacks for a query;   *)
(* whenever a task has committed changes to a table of it, a task that     *)
(* executes the query again is scheduled, and the difference to the last   *)
(* results is applied to an array and told to the callbacks.  A read of    *)
(* the query by its user is such an update, too.                           *)
(*                                                                         *)
(* Tasks wait for and hold their locks as IsolatedTasks promises, which    *)
(* the Runner implements.                                                  *)
(***************************************************************************)
EXTENDS Integers, Sequences, FiniteSets, SequencesExt

CONSTANTS
    Tables,
    Queries,      \* the ids of the query contexts that may be observed
    From,         \* the tables of each, in order
    Callbacks,
    Bounds,       \* the values that may be bound to the parameter of a query
    Contents,     \* what the rows of a table may be changed to, by row id
    Stored,       \* what they are when the database is opened
    TaskIds,
    MaxClientTasks,  \* bound on the tasks of clients
    MaxCalls         \* bound on the calls of observe, unobserve and bind

ASSUME TaskIdsAreNumbers == TaskIds \subseteq Nat
ASSUME QueriesAssumption == IsFiniteSet(Queries) /\ From \in [Queries -> Seq(Tables)]
ASSUME BoundsAssumption == Bounds # {}
\* A row is told from others by its value, and a table holds them in an order.
ASSUME RowsAssumption == Contents \cup Stored \subseteq Seq(Int)

VARIABLES
    task, phase,  \* of IsolatedTasks: what each task is, and where it is in its life
    results,      \* QueryTask.exec: the results of the queries executed so far
    changed,      \* the rows a writing task replaced in the cache; nothing before it did
    done,         \* the tasks whose onSuccess or rollback is over, locks still held
    rows,         \* the cache
    binding,      \* the value bound to the context of each query
    entry,        \* ObserverRegistry.entries: nothing, or one entry
    view,         \* what each callback's owner has made of what it was told
    unheard,      \* queries that a failure kept, or an import keeps, from being told
    calls         \* bound: of observe, unobserve and bind
vars == <<task, phase, results, changed, done, rows, binding, entry, view, unheard, calls>>

\* A task: its type and scope, the queries it executes, each with the value bound to
\* the clone of its context (nothing: the context itself is used), and what it writes.
Unscheduled == [kind |-> "none", type |-> "none", scope |-> {}, queries |-> <<>>, writes |-> <<>>]
Tasks == INSTANCE IsolatedTasks WITH Descriptor <- {}
NextTaskId(t) == phase[t] = "unscheduled" /\ \A u \in TaskIds : phase[u] = "unscheduled" => t <= u

TablesOf(q) == ToSet(From[q])
\* The results of a query: of the rows of its tables, those that its parameter allows.
Allowed(table, bound) ==
    LET found[i \in 0..Len(table)] ==
            IF i = 0 THEN <<>>
            ELSE IF table[i] >= bound THEN Append(found[i - 1], table[i]) ELSE found[i - 1]
    IN  found[Len(table)]
Result(q, data, bound) ==
    FlattenSeq([i \in DOMAIN From[q] |-> Allowed(data[From[q][i]], bound)])

NoEntry == <<>>
NewEntry == [observers |-> {}, observable |-> <<>>, last |-> <<>>]
Observed(q) == entry[q] # NoEntry
NotTold == <<>>

-----------------------------------------------------------------------------
\* MathHelper.longestCommonSubsequence: a table of lengths, row by row (both from 0),
\* and the pairs of places found on the way back through it.
Larger(m, n) == IF m > n THEN m ELSE n
Lengths(old, new) ==
    LET Cell(above, row, i, j) ==
            IF old[i] = new[j] THEN above[j] + 1 ELSE Larger(above[j + 1], row[j])
        Row(above, i) == FoldLeft(LAMBDA row, j : Append(row, Cell(above, row, i, j)),
                                  << 0 >>, <<>> \o [j \in 1..Len(new) |-> j])
    IN  FoldLeft(LAMBDA table, i : Append(table, Row(table[i], i)),
                 << <<>> \o [j \in 1..(Len(new) + 1) |-> 0] >>, <<>> \o [i \in 1..Len(old) |-> i])
\* One turn of the loop on the way back.
Backtrack(old, new, lengths, at) ==
    IF at.i = 0 \/ at.j = 0 THEN at
    ELSE IF old[at.i] = new[at.j]
         THEN [i |-> at.i - 1, j |-> at.j - 1, pairs |-> << <<at.i, at.j>> >> \o at.pairs]
    ELSE IF lengths[at.i][at.j + 1] > lengths[at.i + 1][at.j]
         THEN [at EXCEPT !.i = @ - 1] ELSE [at EXCEPT !.j = @ - 1]
CommonSubsequence(old, new) ==
    LET lengths == Lengths(old, new)
        back[n \in 0..(Len(old) + Len(new))] ==
            IF n = 0 THEN [i |-> Len(old), j |-> Len(new), pairs |-> <<>>]
            ELSE Backtrack(old, new, lengths, back[n - 1])
    IN  back[Len(old) + Len(new)].pairs

\* DiffCalculator.applyDiff: deletions, whose records name the place in the old
\* results, and then insertions, whose records name the place in the new ones.
Apply(observable) == [array |-> observable, records |-> <<>>, common |-> 0]
IsCommon(common, state, side, i) ==
    state.common < Len(common) /\ common[state.common + 1][side] = i
\* Faulty variant: a row is cut out at its old place, whatever was cut out before.
DeleteInPlace(common, state, i) ==
    IF IsCommon(common, state, 1, i) THEN [state EXCEPT !.common = @ + 1]
    ELSE [state EXCEPT !.array = IF i > Len(@) THEN @ ELSE RemoveAt(@, i),
                       !.records = Append(@, [index |-> i, added |-> <<>>])]
Delete(common, state, i) ==
    LET at == state.common + 1 IN
    IF IsCommon(common, state, 1, i) THEN [state EXCEPT !.common = @ + 1]
    ELSE [state EXCEPT !.array = IF at > Len(@) THEN @ ELSE RemoveAt(@, at),
                       !.records = Append(@, [index |-> i, added |-> <<>>])]
Insert(new, common, state, j) ==
    IF IsCommon(common, state, 2, j) THEN [state EXCEPT !.common = @ + 1]
    ELSE [state EXCEPT !.array = InsertAt(@, j, new[j]),
                       !.records = Append(@, [index |-> j, added |-> << new[j] >>])]
Deletions(old, common, state) ==
    LET after[i \in 0..Len(old)] ==
            IF i = 0 THEN state ELSE Delete(common, after[i - 1], i)
    IN  after[Len(old)]
Insertions(new, common, state) ==
    LET after[j \in 0..Len(new)] ==
            IF j = 0 THEN [state EXCEPT !.common = 0] ELSE Insert(new, common, after[j - 1], j)
    IN  after[Len(new)]
ApplyDiff(observable, old, new) ==
    LET common == CommonSubsequence(old, new) IN
    Insertions(new, common, Deletions(old, common, Apply(observable)))

\* What the owner of a callback does: it copies the array that the first records come
\* with, and repeats on its copy what later records say, one after the other.  Places of
\* deletions are those of the old results, before the deletions that it has repeated.
Repeat(state, record) ==
    IF record.added = <<>>
    THEN [array |-> RemoveAt(state.array, record.index - state.deleted), deleted |-> state.deleted + 1]
    ELSE [state EXCEPT !.array = InsertAt(@, record.index, record.added[1])]
Repeated(copy, records) ==
    LET after[n \in 0..Len(records)] ==
            IF n = 0 THEN [array |-> copy, deleted |-> 0] ELSE Repeat(after[n - 1], records[n])
    IN  after[Len(records)].array
Told(v, diff) == IF v = NotTold THEN << diff.array >> ELSE << Repeated(v[1], diff.records) >>

\* ObserverRegistryEntry.updateResults
LastOf(e) == IF e.last = <<>> THEN <<>> ELSE e.last[1]
DiffOf(e, new) == ApplyDiff(e.observable, LastOf(e), new)
Updated(e, diff, new) == [e EXCEPT !.observable = diff.array, !.last = << new >>]

-----------------------------------------------------------------------------
Init ==
    /\ Tasks!Init
    /\ results = [t \in TaskIds |-> <<>>]
    /\ changed = [t \in TaskIds |-> <<>>]
    /\ done = {}
    /\ \E stored \in Stored : rows = [d \in Tables |-> stored]
    /\ binding = [q \in Queries |-> CHOOSE bound \in Bounds : TRUE]
    /\ entry = [q \in Queries |-> NoEntry]
    /\ view = [q \in Queries |-> [c \in Callbacks |-> NotTold]]
    /\ unheard = {}
    /\ calls = 0

Call == calls < MaxCalls /\ calls' = calls + 1
\* ObserverRegistry.addObserver; a callback is registered once.
Observe(q, c) ==
    LET e == IF Observed(q) THEN entry[q][1] ELSE NewEntry IN
    /\ Call
    /\ c \notin e.observers
    /\ entry' = [entry EXCEPT ![q] = << [e EXCEPT !.observers = @ \cup {c}] >>]
    /\ UNCHANGED <<task, phase, results, changed, done, rows, binding, view, unheard>>

\* ObserverRegistry.removeObserver: the last one takes the entry along.
Unobserve(q, c) ==
    /\ Call
    /\ Observed(q) /\ c \in entry[q][1].observers
    /\ LET left == entry[q][1].observers \ {c} IN
       /\ entry' = [entry EXCEPT ![q] = IF left = {} THEN NoEntry
                                        ELSE << [@[1] EXCEPT !.observers = left] >>]
       /\ unheard' = IF left = {} THEN unheard \ {q} ELSE unheard
    /\ view' = [view EXCEPT ![q][c] = NotTold]
    /\ UNCHANGED <<task, phase, results, changed, done, rows, binding>>

\* BaseBuilder.bind, of the query that may be observed.
Bind(q, bound) ==
    /\ Call
    /\ binding' = [binding EXCEPT ![q] = bound]
    /\ UNCHANGED <<task, phase, results, changed, done, rows, entry, view, unheard>>

-----------------------------------------------------------------------------
\* UserQueryTask, ImportTask.  One of selects takes clones of their contexts.
ClientTasks == Cardinality({t \in TaskIds : task[t].kind \in {"read", "write", "import"}})
Schedule(kind, type, scope, queries, writes) ==
    /\ ClientTasks < MaxClientTasks
    /\ \E t \in TaskIds :
         /\ NextTaskId(t)
         /\ task' = [task EXCEPT ![t] = [kind |-> kind, type |-> type, scope |-> scope,
                                         queries |-> queries, writes |-> writes]]
         /\ phase' = [phase EXCEPT ![t] = "waiting"]
    /\ UNCHANGED <<results, changed, done, rows, binding, entry, view, unheard, calls>>

Clone(q) == [query |-> q, bound |-> << binding[q] >>]
ExecSelect(q) == Schedule("read", "READ_ONLY", TablesOf(q), << Clone(q) >>, <<>>)
ExecWrite(d, new) == Schedule("write", "READ_WRITE", {d}, <<>>, << [table |-> d, rows |-> new] >>)
Import(d, new) == Schedule("import", "READ_WRITE", Tables, <<>>, << [table |-> d, rows |-> new] >>)

\* The locks are granted.
Start(t) ==
    /\ Tasks!Start(t)
    /\ UNCHANGED <<results, changed, done, rows, binding, entry, view, unheard, calls>>

Executing(t) == phase[t] = "running" /\ t \notin done

\* QueryTask.exec: the plans of the queries, one after the other.
ExecPlan(t) ==
    LET next == task[t].queries[Len(results[t]) + 1]
        bound == IF next.bound = <<>> THEN binding[next.query] ELSE next.bound[1]
    IN  /\ Executing(t) /\ Len(results[t]) < Len(task[t].queries)
        /\ results' = [results EXCEPT ![t] = Append(@, Result(next.query, rows, bound))]
        /\ UNCHANGED <<task, phase, changed, done, rows, binding, entry, view, unheard, calls>>
\* A writing task changes the cache at once.  An import is refused unless all tables
\* are empty.
ChangeRows(t) ==
    LET write == task[t].writes[1] IN
    /\ Executing(t) /\ task[t].writes # <<>> /\ changed[t] = <<>>
    /\ task[t].kind = "import" => \A d \in Tables : rows[d] = <<>>
    /\ changed' = [changed EXCEPT ![t] = << rows[write.table] >>]
    /\ rows' = [rows EXCEPT ![write.table] = write.rows]
    /\ UNCHANGED <<task, phase, results, done, binding, entry, view, unheard, calls>>
ImportRefused(t) ==
    /\ Executing(t) /\ task[t].kind = "import" /\ changed[t] = <<>>
    /\ \E d \in Tables : rows[d] # <<>>
    /\ done' = done \cup {t}
    /\ UNCHANGED <<task, phase, results, changed, rows, binding, entry, view, unheard, calls>>

\* ObserverRegistry.getTaskItemsForTables: the contexts themselves, not clones.
QueriesInAll(tables) == {q \in Queries : Observed(q) /\ TablesOf(q) \subseteq tables}
QueriesForTables(tables) == {q \in Queries : Observed(q) /\ TablesOf(q) \cap tables # {}}
ObserverTask(queries) ==
    [kind |-> "observer", type |-> "READ_ONLY", scope |-> UNION {TablesOf(q) : q \in queries},
     queries |-> SetToSeq({[query |-> q, bound |-> <<>>] : q \in queries}), writes |-> <<>>]

Executed(t) == /\ Executing(t) /\ Len(results[t]) = Len(task[t].queries)
               /\ task[t].writes # <<>> => changed[t] # <<>>

\* The commit of the writer succeeds: scheduleObserverTask, while it holds its locks.
\* (A TransactionTask does the same.)
WriteCommitted(t) ==
    LET queries == QueriesForTables(task[t].scope) IN
    /\ Executed(t) /\ task[t].kind = "write"
    /\ IF queries = {} THEN UNCHANGED <<task, phase>>
       ELSE \E u \in TaskIds :
              /\ NextTaskId(u)
              /\ task' = [task EXCEPT ![u] = ObserverTask(queries)]
              /\ phase' = [phase EXCEPT ![u] = "waiting"]
    /\ done' = done \cup {t}
    /\ UNCHANGED <<results, changed, rows, binding, entry, view, unheard, calls>>
WriteFailed(t) ==
    /\ Executed(t) /\ task[t].kind = "write"
    /\ rows' = [rows EXCEPT ![task[t].writes[1].table] = changed[t][1]]
    /\ done' = done \cup {t}
    /\ UNCHANGED <<task, phase, results, changed, binding, entry, view, unheard, calls>>
\* An import tells nobody, and undoes nothing if it fails.
ImportEnds(t) ==
    /\ Executed(t) /\ task[t].kind = "import"
    /\ unheard' = unheard \cup {q \in Queries : Observed(q)}
    /\ done' = done \cup {t}
    /\ UNCHANGED <<task, phase, results, changed, rows, binding, entry, view, calls>>

\* ObserverRegistry.updateResultsForQuery, of each query of the task: by the id of its
\* context or of the one it was cloned from, if it is observed by now.
QueriesOf(t) == {item.query : item \in ToSet(task[t].queries)}
ResultOf(t, q) == results[t][CHOOSE i \in DOMAIN task[t].queries : task[t].queries[i].query = q]
ReadCommitted(t) ==
    LET updated == {q \in QueriesOf(t) : Observed(q)} IN
    /\ Executed(t) /\ task[t].kind \in {"read", "observer"}
    /\ \E diff \in {[q \in updated |-> DiffOf(entry[q][1], ResultOf(t, q))]} :
         /\ entry' = [q \in Queries |-> IF q \in updated THEN << Updated(entry[q][1], diff[q], ResultOf(t, q)) >>
                                        ELSE entry[q]]
         /\ view' = [q \in Queries |-> [c \in Callbacks |->
               IF q \in updated /\ c \in entry[q][1].observers /\ diff[q].records # <<>>
               THEN Told(view[q][c], diff[q]) ELSE view[q][c]]]
    /\ unheard' = unheard \ updated
    /\ done' = done \cup {t}
    /\ UNCHANGED <<task, phase, results, changed, rows, binding, calls>>
\* The back store fails, and no one is told.
ReadFailed(t) ==
    /\ Executed(t) /\ task[t].kind \in {"read", "observer"}
    /\ unheard' = IF task[t].kind = "observer" THEN unheard \cup QueriesOf(t) ELSE unheard
    /\ done' = done \cup {t}
    /\ UNCHANGED <<task, phase, results, changed, rows, binding, entry, view, calls>>

\* Runner.onTaskSuccess, onTaskError: the locks are given back, and the task is gone.
Finish(t) ==
    /\ t \in done /\ Tasks!Finish(t)
    /\ results' = [results EXCEPT ![t] = <<>>]
    /\ changed' = [changed EXCEPT ![t] = <<>>]
    /\ done' = done \ {t}
    /\ UNCHANGED <<rows, binding, entry, view, unheard, calls>>

Step(t) ==
    \/ Start(t) \/ ExecPlan(t) \/ ChangeRows(t) \/ ImportRefused(t) \/ ImportEnds(t)
    \/ WriteFailed(t) \/ WriteCommitted(t)
    \/ ReadFailed(t) \/ ReadCommitted(t) \/ Finish(t)

Next ==
    \/ \E q \in Queries, c \in Callbacks : Observe(q, c) \/ Unobserve(q, c)
    \/ \E q \in Queries, bound \in Bounds : Bind(q, bound)
    \/ \E q \in Queries : ExecSelect(q)
    \/ \E d \in Tables, new \in Contents : ExecWrite(d, new) \/ Import(d, new)
    \/ \E t \in TaskIds : Step(t)

\* A task that is scheduled gets its locks and is settled, as the Runner guarantees.
Fairness == \A t \in TaskIds : WF_vars(Step(t))
Spec == Init /\ [][Next]_vars /\ Fairness

-----------------------------------------------------------------------------
\* The array that is observed has the last results, however they differ from those
\* before, and a client that repeats what it is told, from the first time on, has
\* the same: the records of DiffCalculator say exactly what was done to the array.
ClientsFollow ==
    \A q \in Queries : Observed(q) =>
        /\ entry[q][1].observable = LastOf(entry[q][1])
        /\ \A c \in entry[q][1].observers :
             view[q][c] # NotTold => view[q][c][1] = LastOf(entry[q][1])

\* No result is ever delivered late: what an observer is given is what its query
\* returns, for some value bound to it, of the rows at the very time it is given,
\* rows which no transaction may still take back.
Fresh(q, result) == \E bound \in Bounds : result = Result(q, rows, bound)
DeliveredAreCurrent ==
    [][\A q \in Queries :
         (entry'[q] # NoEntry /\ (entry[q] = NoEntry \/ entry'[q][1].last # entry[q][1].last) /\ entry'[q][1].last # <<>>)
           => /\ Fresh(q, entry'[q][1].last[1])
              /\ \A t \in TaskIds : phase[t] = "running" /\ changed[t] # <<>> /\ t \notin done =>
                   task[t].scope \cap TablesOf(q) = {}]_vars

\* An observer that was told once is told of every commit after it, however commits,
\* reads and registrations interleave: results that are not those of the rows do not
\* stay, unless a failure of the back store or an import keeps them.
Stale(q) == Observed(q) /\ entry[q][1].last # <<>> /\ ~Fresh(q, entry[q][1].last[1])
ChangesAreTold ==
    \A q \in Queries : Stale(q) ~> (~Stale(q) \/ q \in unheard)
=============================================================================
