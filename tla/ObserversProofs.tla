--------------------------- MODULE ObserversProofs ---------------------------
(***************************************************************************)
(* Proofs about Observers.  No result is ever delivered late: a task that  *)
(* executes queries holds its locks from the first of them until their     *)
(* results are delivered, so that what it has found so far is what the     *)
(* queries would find now.  And whoever repeats the change records has the *)
(* results: what DiffCalculator cuts out and puts in is followed row by    *)
(* row, beside a copy on which the records are repeated.                   *)
(***************************************************************************)
EXTENDS Observers, FiniteSetTheorems, SequenceTheorems, WellFoundedInduction, TLAPS

-----------------------------------------------------------------------------
(* The inductive invariant *)

Rows == Contents \cup Stored
Item == [query : Queries, bound : {<<>>} \cup {<< b >> : b \in Bounds}]
Write == [table : Tables, rows : Rows]
Results == {Result(q, data, bound) : q \in Queries, data \in [Tables -> Rows], bound \in Bounds}
Kind == {"none", "read", "write", "import", "observer"}
Descriptor == [kind : Kind, type : {"none", "READ_ONLY", "READ_WRITE"}, scope : SUBSET Tables,
               queries : Seq(Item), writes : {<<>>} \cup {<< w >> : w \in Write}]

Types ==
    /\ task \in [TaskIds -> Descriptor]
    /\ phase \in [TaskIds -> {"unscheduled", "waiting", "running", "settled"}]
    /\ results \in [TaskIds -> Seq(Results)]
    /\ changed \in [TaskIds -> {<<>>} \cup {<< r >> : r \in Rows}]
    /\ done \subseteq TaskIds
    /\ rows \in [Tables -> Rows]
    /\ binding \in [Queries -> Bounds]

\* An entry of the registry has its three fields.
Entries ==
    /\ entry = [q \in Queries |-> entry[q]]
    /\ \A q \in Queries : Observed(q) =>
         /\ entry[q] = << entry[q][1] >>
         /\ DOMAIN entry[q][1] = {"observers", "observable", "last"}

\* A task that executes queries locks their tables, and a task that writes locks
\* what it writes for itself alone.
LocksFit(d) ==
    /\ \A i \in DOMAIN d.queries : TablesOf(d.queries[i].query) \subseteq d.scope
    /\ d.writes # <<>> => d.type = "READ_WRITE" /\ d.queries = <<>> /\ d.writes[1].table \in d.scope
    /\ d.kind \in {"read", "observer"} => d.writes = <<>>
    /\ d.kind \in {"write", "import"} => d.writes # <<>>
Descriptors == \A t \in TaskIds : LocksFit(task[t])

\* Only a running task has results, or changes that may be taken back.
Running ==
    \A t \in TaskIds :
        /\ results[t] # <<>> \/ changed[t] # <<>> \/ t \in done => phase[t] = "running"
        /\ changed[t] # <<>> => task[t].writes # <<>>

NoConflicts ==
    \A t, u \in TaskIds :
        t # u /\ phase[t] = "running" /\ phase[u] = "running" => ~Tasks!Conflict(t, u)

\* What a task has found so far is what the rows are now.
ResultsAreFresh ==
    \A t \in TaskIds :
        /\ Len(results[t]) <= Len(task[t].queries)
        /\ \A i \in 1 .. Len(results[t]) : Fresh(task[t].queries[i].query, results[t][i])

DeliveryInv == Types /\ Entries /\ Descriptors /\ Running /\ NoConflicts /\ ResultsAreFresh

-----------------------------------------------------------------------------
(* Queries, their results and their tables *)

\* The results of a query depend on its own tables and nothing else.
LEMMA ResultLocal ==
    ASSUME NEW q \in Queries, NEW data, NEW other, NEW bound,
           \A d \in TablesOf(q) : data[d] = other[d]
    PROVE  Result(q, data, bound) = Result(q, other, bound)
<1> DEFINE f == [i \in DOMAIN From[q] |-> Allowed(data[From[q][i]], bound)]
           g == [i \in DOMAIN From[q] |-> Allowed(other[From[q][i]], bound)]
<1>1. \A i \in DOMAIN From[q] : data[From[q][i]] = other[From[q][i]]
  BY DEF TablesOf, ToSet
<1>2. f = g
  BY <1>1
<1>3. Result(q, data, bound) = FlattenSeq(f)
  BY DEF Result
<1>4. Result(q, other, bound) = FlattenSeq(g)
  BY DEF Result
<1> HIDE DEF f, g
<1> QED BY <1>2, <1>3, <1>4

LEMMA FreshResult ==
    ASSUME rows \in [Tables -> Rows], NEW q \in Queries, NEW bound \in Bounds
    PROVE  Result(q, rows, bound) \in Results /\ Fresh(q, Result(q, rows, bound))
BY DEF Results, Fresh

LEMMA SeqOfSet ==
    ASSUME NEW S, IsFiniteSet(S)
    PROVE  SetToSeq(S) \in Seq(S)
<1>1. Cardinality(S) \in Nat /\ ExistsBijection(1..Cardinality(S), S)
  BY FS_CardinalityType
<1>2. PICK f \in [1..Cardinality(S) -> S] : IsInjective(f)
  BY <1>1 DEF ExistsBijection, Bijection, Injection, IsInjective
<1>3. SetToSeq(S) \in [1..Cardinality(S) -> S]
  BY <1>2 DEF SetToSeq
<1> QED BY <1>1, <1>3

\* The task that tells observers locks the tables of all its queries.
LEMMA ObserverTaskFacts ==
    ASSUME NEW queries \in SUBSET Queries
    PROVE  ObserverTask(queries) \in Descriptor /\ LocksFit(ObserverTask(queries))
<1> DEFINE items == {[query |-> q, bound |-> <<>>] : q \in queries}
<1>1. IsFiniteSet(items)
  <2>1. IsFiniteSet(queries)
    BY QueriesAssumption, FS_Subset
  <2> DEFINE f == [q \in queries |-> [query |-> q, bound |-> <<>>]]
  <2>2. f \in Bijection(queries, items)
    BY DEF Bijection, Injection, Surjection, IsInjective
  <2> QED BY <2>1, <2>2, FS_Bijection DEF ExistsBijection
<1>2. items \subseteq Item
  BY DEF Item
<1>3. SetToSeq(items) \in Seq(items)
  BY <1>1, SeqOfSet
<1>4. \A q \in queries : TablesOf(q) \subseteq Tables
  BY QueriesAssumption DEF TablesOf, ToSet
<1>5. SetToSeq(items) \in Seq(Item)
  BY <1>2, <1>3
<1>6. \A i \in DOMAIN SetToSeq(items) : SetToSeq(items)[i].query \in queries
  BY <1>3
<1> HIDE DEF items
<1> DEFINE d == ObserverTask(queries)
<1>7. /\ d.kind = "observer" /\ d.type = "READ_ONLY" /\ d.queries = SetToSeq(items) /\ d.writes = <<>>
      /\ d.scope = UNION {TablesOf(q) : q \in queries}
  BY DEF ObserverTask, items
<1>8. d \in Descriptor
  BY <1>4, <1>5 DEF ObserverTask, Descriptor, Kind, items
<1>9. LocksFit(d)
  BY <1>6, <1>7 DEF LocksFit
<1> QED BY <1>8, <1>9

-----------------------------------------------------------------------------
(* Steps, but for what they do to the registry *)

\* Whatever a step does, it may count a running task among those done.
MayEnd == done' \subseteq TaskIds /\ \A t \in done' \ done : phase[t] = "running"

\* A task is scheduled,
Submits(t, d) ==
    /\ phase[t] = "unscheduled" /\ d \in Descriptor /\ LocksFit(d) /\ MayEnd
    /\ task' = [task EXCEPT ![t] = d]
    /\ phase' = [phase EXCEPT ![t] = "waiting"]
    /\ UNCHANGED <<results, changed, rows, binding>>

\* or the task t writes, or takes back what it wrote,
Writes(t, r) ==
    /\ phase[t] = "running" /\ task[t].writes # <<>> /\ r \in Rows /\ MayEnd
    /\ rows' = [rows EXCEPT ![task[t].writes[1].table] = r]
    /\ changed' \in {changed, [changed EXCEPT ![t] = << rows[task[t].writes[1].table] >>]}
    /\ UNCHANGED <<task, phase, results, binding>>

\* or nothing happens to tasks and rows.
Rests ==
    /\ MayEnd /\ binding' \in [Queries -> Bounds]
    /\ UNCHANGED <<task, phase, results, changed, rows>>

LEMMA NewTaskFacts ==
    ASSUME Types,
           NEW kind \in {"read", "write", "import"}, NEW type \in {"READ_ONLY", "READ_WRITE"},
           NEW scope \in SUBSET Tables, NEW queries \in Seq(Item),
           NEW writes \in {<<>>} \cup {<< w >> : w \in Write},
           Schedule(kind, type, scope, queries, writes),
           LocksFit([kind |-> kind, type |-> type, scope |-> scope, queries |-> queries, writes |-> writes])
    PROVE  \E t \in TaskIds, d \in Descriptor : Submits(t, d)
<1> DEFINE d == [kind |-> kind, type |-> type, scope |-> scope, queries |-> queries, writes |-> writes]
<1>1. PICK t \in TaskIds : /\ NextTaskId(t)
                           /\ task' = [task EXCEPT ![t] = d]
                           /\ phase' = [phase EXCEPT ![t] = "waiting"]
  BY DEF Schedule
<1>2. d \in Descriptor
  BY DEF Descriptor, Kind
<1>3. MayEnd
  BY DEF Schedule, MayEnd, Types
<1>4. Submits(t, d)
  BY <1>1, <1>2, <1>3 DEF Submits, Schedule, NextTaskId
<1> QED BY <1>2, <1>4

LEMMA Steps ==
    ASSUME DeliveryInv, [Next]_vars
    PROVE  \/ \E t \in TaskIds, d \in Descriptor : Submits(t, d)
           \/ \E t \in TaskIds, r \in Rows : Writes(t, r)
           \/ \E t \in TaskIds : Start(t) \/ ExecPlan(t) \/ Finish(t)
           \/ Rests
<1> DEFINE Kinds == \/ \E t \in TaskIds, d \in Descriptor : Submits(t, d)
                    \/ \E t \in TaskIds, r \in Rows : Writes(t, r)
                    \/ \E t \in TaskIds : Start(t) \/ ExecPlan(t) \/ Finish(t)
                    \/ Rests
<1>0. Types /\ Descriptors /\ Running
  BY DEF DeliveryInv
<1>1. ASSUME NEW q \in Queries, NEW c \in Callbacks, Observe(q, c) \/ Unobserve(q, c) PROVE Kinds
  BY <1>0, <1>1 DEF Observe, Unobserve, Rests, MayEnd, Types
<1>2. ASSUME NEW q \in Queries, NEW bound \in Bounds, Bind(q, bound) PROVE Kinds
  BY <1>0, <1>2 DEF Bind, Rests, MayEnd, Types
<1>3. ASSUME NEW q \in Queries, ExecSelect(q) PROVE Kinds
  <2>1. << Clone(q) >> \in Seq(Item) /\ Clone(q).query = q
    BY <1>0 DEF Clone, Item, Types
  <2>2. TablesOf(q) \subseteq Tables
    BY QueriesAssumption DEF TablesOf, ToSet
  <2>3. LocksFit([kind |-> "read", type |-> "READ_ONLY", scope |-> TablesOf(q),
                  queries |-> << Clone(q) >>, writes |-> <<>>])
    BY <2>1 DEF LocksFit
  <2>4. \E t \in TaskIds, d \in Descriptor : Submits(t, d)
    BY <1>0, <1>3, <2>1, <2>2, <2>3, NewTaskFacts DEF ExecSelect
  <2> QED BY <2>4
<1>4. ASSUME NEW d \in Tables, NEW new \in Contents, ExecWrite(d, new) \/ Import(d, new) PROVE Kinds
  <2> DEFINE w == [table |-> d, rows |-> new]
  <2>1. w \in Write /\ << w >>[1].table = d /\ << w >> # <<>> /\ <<>> \in Seq(Item)
    BY DEF Write, Rows
  <2>2. ASSUME NEW kind \in {"write", "import"}, NEW scope, d \in scope
        PROVE  LocksFit([kind |-> kind, type |-> "READ_WRITE", scope |-> scope,
                         queries |-> <<>>, writes |-> << w >>])
    BY <2>1, <2>2 DEF LocksFit
  <2> HIDE DEF w
  <2>3. CASE ExecWrite(d, new)
    <3>1. Schedule("write", "READ_WRITE", {d}, <<>>, << w >>)
      BY <2>3 DEF ExecWrite, w
    <3>2. \E t \in TaskIds, e \in Descriptor : Submits(t, e)
      BY <1>0, <2>1, <2>2, <3>1, NewTaskFacts
    <3> QED BY <3>2
  <2>4. CASE Import(d, new)
    <3>1. Schedule("import", "READ_WRITE", Tables, <<>>, << w >>)
      BY <2>4 DEF Import, w
    <3>2. \E t \in TaskIds, e \in Descriptor : Submits(t, e)
      BY <1>0, <2>1, <2>2, <3>1, NewTaskFacts
    <3> QED BY <3>2
  <2> QED BY <1>4, <2>3, <2>4
<1>5. ASSUME NEW t \in TaskIds, ChangeRows(t) PROVE Kinds
  <2> DEFINE w == task[t].writes[1]
  <2>1. w \in Write /\ task[t].writes # <<>>
    BY <1>0, <1>5 DEF ChangeRows, Types, Descriptor
  <2>2. Writes(t, w.rows)
    BY <1>0, <1>5, <2>1 DEF ChangeRows, Executing, Writes, MayEnd, Types, Write
  <2> QED BY <2>1, <2>2 DEF Write
<1>6. ASSUME NEW t \in TaskIds, WriteFailed(t) PROVE Kinds
  <2>1. task[t].writes # <<>> /\ changed[t] # <<>> /\ phase[t] = "running"
    BY <1>0, <1>6 DEF WriteFailed, Executed, Executing, Descriptors, LocksFit
  <2>2. changed[t][1] \in Rows
    BY <1>0, <2>1 DEF Types
  <2>3. Writes(t, changed[t][1])
    BY <1>0, <1>6, <2>1, <2>2 DEF WriteFailed, Writes, MayEnd, Types
  <2> QED BY <2>2, <2>3
<1>7. ASSUME NEW t \in TaskIds, WriteCommitted(t) PROVE Kinds
  <2> DEFINE queries == QueriesForTables(task[t].scope)
  <2>1. MayEnd
    BY <1>0, <1>7 DEF WriteCommitted, Executed, Executing, MayEnd, Types
  <2>2. CASE queries = {}
    BY <1>0, <1>7, <2>1, <2>2 DEF WriteCommitted, Rests, Types
  <2>3. CASE queries # {}
    <3>1. PICK u \in TaskIds :
             /\ NextTaskId(u)
             /\ task' = [task EXCEPT ![u] = ObserverTask(queries)]
             /\ phase' = [phase EXCEPT ![u] = "waiting"]
      BY <1>7, <2>3 DEF WriteCommitted
    <3>2. queries \in SUBSET Queries
      BY DEF QueriesForTables
    <3> HIDE DEF queries
    <3>3. ObserverTask(queries) \in Descriptor /\ LocksFit(ObserverTask(queries))
      BY <3>2, ObserverTaskFacts
    <3>4. Submits(u, ObserverTask(queries))
      BY <1>7, <2>1, <3>1, <3>3 DEF Submits, WriteCommitted, NextTaskId
    <3> QED BY <3>3, <3>4
  <2> QED BY <2>2, <2>3
<1>8. ASSUME NEW t \in TaskIds,
             ImportRefused(t) \/ ImportEnds(t) \/ ReadCommitted(t) \/ ReadFailed(t)
      PROVE  Kinds
  <2>1. phase[t] = "running" /\ done' = done \cup {t}
        /\ UNCHANGED <<task, phase, results, changed, rows, binding>>
    BY <1>8 DEF ImportRefused, ImportEnds, ReadCommitted, ReadFailed, Executed, Executing
  <2> QED BY <1>0, <2>1 DEF Rests, MayEnd, Types
<1>9. CASE UNCHANGED vars
  BY <1>0, <1>9 DEF vars, Rests, MayEnd, Types
<1> QED BY <1>1, <1>2, <1>3, <1>4, <1>5, <1>6, <1>7, <1>8, <1>9 DEF Next, Step

-----------------------------------------------------------------------------
(* The invariant is inductive *)

LEMMA PlanFacts ==
    ASSUME DeliveryInv, NEW t \in TaskIds, ExecPlan(t)
    PROVE  \E q \in Queries, bound \in Bounds :
              /\ phase[t] = "running" /\ Len(results[t]) < Len(task[t].queries)
              /\ q = task[t].queries[Len(results[t]) + 1].query
              /\ results' = [results EXCEPT ![t] = Append(@, Result(q, rows, bound))]
              /\ UNCHANGED <<task, phase, changed, done, rows, binding>>
<1> DEFINE next == task[t].queries[Len(results[t]) + 1]
           bound == IF next.bound = <<>> THEN binding[next.query] ELSE next.bound[1]
<1>1. task[t].queries \in Seq(Item) /\ results[t] \in Seq(Results) /\ binding \in [Queries -> Bounds]
  BY DEF DeliveryInv, Types, Descriptor
<1>2. Len(results[t]) < Len(task[t].queries)
  BY DEF ExecPlan
<1>3. next \in Item
  BY <1>1, <1>2
<1>4. next.query \in Queries /\ bound \in Bounds
  BY <1>1, <1>3 DEF Item
<1>5. results' = [results EXCEPT ![t] = Append(@, Result(next.query, rows, bound))]
  BY DEF ExecPlan
<1> HIDE DEF next, bound
<1>6. next = task[t].queries[Len(results[t]) + 1]
  BY DEF next
<1> QED BY <1>2, <1>4, <1>5, <1>6 DEF ExecPlan, Executing

LEMMA TypesStep == DeliveryInv /\ [Next]_vars => Types'
<1> SUFFICES ASSUME DeliveryInv, [Next]_vars PROVE Types'
  OBVIOUS
<1>0. Types
  BY DEF DeliveryInv
<1>1. ASSUME NEW t \in TaskIds, NEW d \in Descriptor, Submits(t, d) PROVE Types'
  BY <1>0, <1>1 DEF Submits, MayEnd, Types
<1>2. ASSUME NEW t \in TaskIds, NEW r \in Rows, Writes(t, r) PROVE Types'
  <2>1. task[t].writes[1].table \in Tables
    BY <1>0, <1>2 DEF Writes, Types, Descriptor, Write
  <2>2. rows' \in [Tables -> Rows]
    BY <1>0, <1>2 DEF Writes, Types
  <2>3. changed' \in [TaskIds -> {<<>>} \cup {<< s >> : s \in Rows}]
    BY <1>0, <1>2, <2>1 DEF Writes, Types
  <2> QED BY <1>0, <1>2, <2>2, <2>3 DEF Writes, MayEnd, Types
<1>3. ASSUME NEW t \in TaskIds, Start(t) PROVE Types'
  BY <1>0, <1>3 DEF Start, Tasks!Start, Types
<1>4. ASSUME NEW t \in TaskIds, ExecPlan(t) PROVE Types'
  <2>1. PICK q \in Queries, bound \in Bounds :
           /\ results' = [results EXCEPT ![t] = Append(@, Result(q, rows, bound))]
           /\ UNCHANGED <<task, phase, changed, done, rows, binding>>
    BY <1>4, PlanFacts
  <2>2. Result(q, rows, bound) \in Results
    BY <1>0, FreshResult DEF Types
  <2>3. results' \in [TaskIds -> Seq(Results)]
    BY <1>0, <2>1, <2>2 DEF Types
  <2> QED BY <1>0, <2>1, <2>3 DEF Types
<1>5. ASSUME NEW t \in TaskIds, Finish(t) PROVE Types'
  BY <1>0, <1>5 DEF Finish, Tasks!Finish, Types
<1>6. CASE Rests
  BY <1>0, <1>6 DEF Rests, MayEnd, Types
<1> QED BY <1>1, <1>2, <1>3, <1>4, <1>5, <1>6, Steps

\* The registry changes by observe, unobserve and the delivery of results.
LEMMA EntriesStep == DeliveryInv /\ [Next]_vars => Entries'
<1> SUFFICES ASSUME DeliveryInv, [Next]_vars PROVE Entries'
  OBVIOUS
<1>0. Entries
  BY DEF DeliveryInv
<1>1. ASSUME UNCHANGED entry PROVE Entries'
  BY <1>0, <1>1 DEF Entries, Observed
<1>2. ASSUME NEW q \in Queries, NEW c \in Callbacks, Observe(q, c) PROVE Entries'
  <2> DEFINE e == IF Observed(q) THEN entry[q][1] ELSE NewEntry
             f == [e EXCEPT !.observers = @ \cup {c}]
  <2>1. DOMAIN e = {"observers", "observable", "last"}
    BY <1>0 DEF Entries, NewEntry
  <2>2. DOMAIN f = {"observers", "observable", "last"}
    BY <2>1
  <2>3. entry' = [entry EXCEPT ![q] = << f >>]
    BY <1>2 DEF Observe
  <2> HIDE DEF e, f
  <2> QED BY <1>0, <2>2, <2>3 DEF Entries, Observed, NoEntry
<1>3. ASSUME NEW q \in Queries, NEW c \in Callbacks, Unobserve(q, c) PROVE Entries'
  <2> DEFINE left == entry[q][1].observers \ {c}
             f == [entry[q][1] EXCEPT !.observers = left]
  <2>1. Observed(q) /\ entry' = [entry EXCEPT ![q] = IF left = {} THEN NoEntry ELSE << f >>]
    BY <1>3 DEF Unobserve
  <2>2. DOMAIN f = {"observers", "observable", "last"}
    BY <1>0, <2>1 DEF Entries
  <2> HIDE DEF left, f
  <2> QED BY <1>0, <2>1, <2>2 DEF Entries, Observed, NoEntry
<1>4. ASSUME NEW t \in TaskIds, ReadCommitted(t) PROVE Entries'
  <2> DEFINE updated == {q \in QueriesOf(t) : Observed(q)}
  <2>1. PICK diff : entry' = [q \in Queries |-> IF q \in updated
                                THEN << Updated(entry[q][1], diff[q], ResultOf(t, q)) >> ELSE entry[q]]
    BY <1>4 DEF ReadCommitted
  <2>2. \A q \in Queries : q \in updated =>
           DOMAIN Updated(entry[q][1], diff[q], ResultOf(t, q)) = {"observers", "observable", "last"}
    BY <1>0 DEF Entries, Updated
  <2> HIDE DEF updated
  <2> QED BY <1>0, <2>1, <2>2 DEF Entries, Observed, NoEntry
<1> QED BY <1>1, <1>2, <1>3, <1>4
     DEF Next, Step, vars, Bind, ExecSelect, ExecWrite, Import, Schedule, Start, ExecPlan, ChangeRows,
         ImportRefused, ImportEnds, WriteFailed, WriteCommitted, ReadFailed, Finish

LEMMA LocksStep == DeliveryInv /\ [Next]_vars => Descriptors' /\ Running' /\ NoConflicts'
<1> SUFFICES ASSUME DeliveryInv, [Next]_vars PROVE Descriptors' /\ Running' /\ NoConflicts'
  OBVIOUS
<1>0. Types /\ Descriptors /\ Running /\ NoConflicts
  BY DEF DeliveryInv
<1>1. ASSUME NEW t \in TaskIds, NEW d \in Descriptor, Submits(t, d)
      PROVE  Descriptors' /\ Running' /\ NoConflicts'
  <2>1. /\ \A u \in TaskIds : u # t => task'[u] = task[u] /\ phase'[u] = phase[u]
        /\ task'[t] = d /\ phase'[t] = "waiting" /\ phase[t] = "unscheduled"
        /\ UNCHANGED <<results, changed>>
    BY <1>0, <1>1 DEF Submits, Types
  <2>2. \A u \in TaskIds : u \in done' \ done => phase[u] = "running"
    BY <1>1 DEF Submits, MayEnd
  <2>3. Descriptors'
    BY <1>0, <1>1, <2>1 DEF Descriptors, Submits
  <2>4. results[t] = <<>> /\ changed[t] = <<>> /\ t \notin done /\ t \notin done'
    BY <1>0, <2>1, <2>2 DEF Running
  <2>5. Running'
    BY <1>0, <2>1, <2>2, <2>4 DEF Running
  <2>6. NoConflicts'
    BY <1>0, <2>1 DEF NoConflicts, Tasks!Conflict
  <2> QED BY <2>3, <2>5, <2>6
<1>2. ASSUME NEW t \in TaskIds, NEW r \in Rows, Writes(t, r)
      PROVE  Descriptors' /\ Running' /\ NoConflicts'
  <2>1. /\ UNCHANGED <<task, phase, results>> /\ phase[t] = "running" /\ task[t].writes # <<>>
        /\ \A u \in TaskIds : u # t => changed'[u] = changed[u]
        /\ \A u \in TaskIds : u \in done' \ done => phase[u] = "running"
    BY <1>0, <1>2 DEF Writes, MayEnd, Types
  <2>2. Running'
    BY <1>0, <2>1 DEF Running
  <2> QED BY <1>0, <2>1, <2>2 DEF Descriptors, NoConflicts, Tasks!Conflict
<1>3. ASSUME NEW t \in TaskIds, Start(t) PROVE Descriptors' /\ Running' /\ NoConflicts'
  <2>1. /\ UNCHANGED <<task, results, changed, done>> /\ phase[t] = "waiting" /\ phase'[t] = "running"
        /\ \A u \in TaskIds : u # t => phase'[u] = phase[u]
        /\ \A u \in TaskIds \ {t} : phase[u] = "running" => ~Tasks!Conflict(t, u)
    BY <1>0, <1>3 DEF Start, Tasks!Start, Types
  <2>2. \A u, v \in TaskIds : Tasks!Conflict(u, v) <=> Tasks!Conflict(v, u)
    BY DEF Tasks!Conflict
  <2>3. \A u, v \in TaskIds : (Tasks!Conflict(u, v))' <=> Tasks!Conflict(u, v)
    BY <2>1 DEF Tasks!Conflict
  <2>4. NoConflicts'
    BY <1>0, <2>1, <2>2, <2>3 DEF NoConflicts
  <2> QED BY <1>0, <2>1, <2>4 DEF Descriptors, Running
<1>4. ASSUME NEW t \in TaskIds, ExecPlan(t) PROVE Descriptors' /\ Running' /\ NoConflicts'
  <2>1. /\ UNCHANGED <<task, phase, changed, done>> /\ phase[t] = "running"
        /\ \A u \in TaskIds : u # t => results'[u] = results[u]
    BY <1>0, <1>4 DEF ExecPlan, Executing, Types
  <2> QED BY <1>0, <2>1 DEF Descriptors, Running, NoConflicts, Tasks!Conflict
<1>5. ASSUME NEW t \in TaskIds, Finish(t) PROVE Descriptors' /\ Running' /\ NoConflicts'
  <2>1. /\ UNCHANGED task /\ phase'[t] = "settled"
        /\ results'[t] = <<>> /\ changed'[t] = <<>> /\ done' = done \ {t}
        /\ \A u \in TaskIds : u # t => /\ phase'[u] = phase[u]
                                       /\ results'[u] = results[u] /\ changed'[u] = changed[u]
    BY <1>0, <1>5 DEF Finish, Tasks!Finish, Types
  <2>2. NoConflicts'
    BY <1>0, <2>1 DEF NoConflicts, Tasks!Conflict
  <2> QED BY <1>0, <2>1, <2>2 DEF Descriptors, Running
<1>6. CASE Rests
  BY <1>0, <1>6 DEF Rests, MayEnd, Descriptors, Running, NoConflicts, Tasks!Conflict
<1> QED BY <1>1, <1>2, <1>3, <1>4, <1>5, <1>6, Steps

\* While a task executes queries no other task that runs writes to their tables.
LEMMA ReadersUndisturbed ==
    ASSUME DeliveryInv, NEW t \in TaskIds, phase[t] = "running",
           NEW u \in TaskIds, phase[u] = "running", task[u].writes # <<>>,
           NEW i \in DOMAIN task[t].queries
    PROVE  /\ task[u].scope \cap TablesOf(task[t].queries[i].query) = {}
           /\ task[u].writes[1].table \notin TablesOf(task[t].queries[i].query)
<1>1. LocksFit(task[t]) /\ LocksFit(task[u])
  BY DEF DeliveryInv, Descriptors
<1>2. t # u
  BY <1>1 DEF LocksFit
<1>3. ~Tasks!Conflict(t, u)
  BY <1>2 DEF DeliveryInv, NoConflicts
<1> QED BY <1>1, <1>3 DEF LocksFit, Tasks!Conflict

LEMMA FreshStep == DeliveryInv /\ [Next]_vars => ResultsAreFresh'
<1> SUFFICES ASSUME DeliveryInv, [Next]_vars PROVE ResultsAreFresh'
  OBVIOUS
<1>0. Types /\ Running /\ ResultsAreFresh
  BY DEF DeliveryInv
<1>1. \A t \in TaskIds : results[t] \in Seq(Results) /\ task[t].queries \in Seq(Item)
  BY <1>0 DEF Types, Descriptor
<1>2. ASSUME NEW t \in TaskIds, NEW d \in Descriptor, Submits(t, d) PROVE ResultsAreFresh'
  <2>1. results[t] = <<>>
    BY <1>0, <1>2 DEF Submits, Running
  <2>2. \A u \in TaskIds : u # t => task'[u] = task[u]
    BY <1>0, <1>2 DEF Submits, Types
  <2>3. task'[t].queries \in Seq(Item)
    BY <1>0, <1>2 DEF Submits, Types, Descriptor
  <2>4. UNCHANGED <<results, rows>>
    BY <1>2 DEF Submits
  <2>5. ASSUME NEW u \in TaskIds
        PROVE  /\ Len(results[u]) <= Len(task'[u].queries)
               /\ \A i \in 1 .. Len(results[u]) : Fresh(task'[u].queries[i].query, results[u][i])
    <3>1. CASE u = t
      BY <2>1, <2>3, <3>1
    <3>2. CASE u # t
      BY <1>0, <2>2, <3>2 DEF ResultsAreFresh
    <3> QED BY <3>1, <3>2
  <2> QED BY <2>4, <2>5 DEF ResultsAreFresh, Fresh
<1>3. ASSUME NEW t \in TaskIds, NEW r \in Rows, Writes(t, r) PROVE ResultsAreFresh'
  <2>1. /\ UNCHANGED <<task, results>> /\ phase[t] = "running" /\ task[t].writes # <<>>
        /\ rows' = [rows EXCEPT ![task[t].writes[1].table] = r]
    BY <1>3 DEF Writes
  <2>2. ASSUME NEW u \in TaskIds, NEW i \in 1 .. Len(results[u])
        PROVE  \E bound \in Bounds : results[u][i] = Result(task[u].queries[i].query, rows', bound)
    <3> DEFINE q == task[u].queries[i].query
    <3>1. i \in DOMAIN task[u].queries /\ phase[u] = "running"
      BY <1>0, <1>1, <2>2 DEF ResultsAreFresh, Running
    <3>2. q \in Queries
      <4>1. task[u].queries[i] \in Item
        BY <1>1, <3>1
      <4> QED BY <4>1 DEF Item
    <3>3. \A d \in TablesOf(q) : rows[d] = rows'[d]
      <4>1. task[t].writes[1].table \notin TablesOf(q)
        BY <2>1, <3>1, ReadersUndisturbed
      <4>2. TablesOf(q) \subseteq Tables
        BY <3>2, QueriesAssumption DEF TablesOf, ToSet
      <4> QED BY <1>0, <2>1, <4>1, <4>2 DEF Types
    <3>4. PICK bound \in Bounds : results[u][i] = Result(q, rows, bound)
      BY <1>0 DEF ResultsAreFresh, Fresh
    <3>5. Result(q, rows, bound) = Result(q, rows', bound)
      BY <3>2, <3>3, ResultLocal
    <3> QED BY <3>4, <3>5
  <2>3. \A u \in TaskIds : Len(results[u]) <= Len(task[u].queries)
    BY <1>0 DEF ResultsAreFresh
  <2> QED BY <2>1, <2>2, <2>3 DEF ResultsAreFresh, Fresh
<1>4. ASSUME NEW t \in TaskIds, ExecPlan(t) PROVE ResultsAreFresh'
  <2>1. PICK q \in Queries, bound \in Bounds :
           /\ Len(results[t]) < Len(task[t].queries)
           /\ q = task[t].queries[Len(results[t]) + 1].query
           /\ results' = [results EXCEPT ![t] = Append(@, Result(q, rows, bound))]
           /\ UNCHANGED <<task, rows>>
    BY <1>4, PlanFacts
  <2>2. Result(q, rows, bound) \in Results /\ Fresh(q, Result(q, rows, bound))
    BY <1>0, FreshResult DEF Types
  <2>3. results'[t] = Append(results[t], Result(q, rows, bound))
        /\ \A u \in TaskIds : u # t => results'[u] = results[u]
    BY <1>0, <2>1 DEF Types
  <2> DEFINE result == Result(q, rows, bound)
  <2> HIDE DEF result
  <2>4. /\ Len(results'[t]) = Len(results[t]) + 1
        /\ \A i \in 1 .. Len(results[t]) : results'[t][i] = results[t][i]
        /\ results'[t][Len(results[t]) + 1] = result
    BY <1>1, <2>2, <2>3 DEF result
  <2>5. ASSUME NEW u \in TaskIds
        PROVE  /\ Len(results'[u]) <= Len(task[u].queries)
               /\ \A i \in 1 .. Len(results'[u]) : Fresh(task[u].queries[i].query, results'[u][i])
    <3>1. CASE u = t
      <4>1. Len(results'[t]) <= Len(task[t].queries)
        BY <1>1, <2>1, <2>4
      <4>2. ASSUME NEW i \in 1 .. Len(results'[t])
            PROVE  Fresh(task[t].queries[i].query, results'[t][i])
        <5>1. CASE i \in 1 .. Len(results[t])
          BY <1>0, <2>4, <5>1 DEF ResultsAreFresh
        <5>2. CASE i = Len(results[t]) + 1
          BY <2>1, <2>2, <2>4, <5>2 DEF result
        <5> QED BY <1>1, <2>4, <5>1, <5>2
      <4> QED BY <3>1, <4>1, <4>2
    <3>2. CASE u # t
      BY <1>0, <2>3, <3>2 DEF ResultsAreFresh
    <3> QED BY <3>1, <3>2
  <2> QED BY <2>1, <2>5 DEF ResultsAreFresh, Fresh
<1>5. ASSUME NEW t \in TaskIds, Finish(t) PROVE ResultsAreFresh'
  <2>1. /\ UNCHANGED <<task, rows>> /\ results'[t] = <<>>
        /\ \A u \in TaskIds : u # t => results'[u] = results[u]
    BY <1>0, <1>5 DEF Finish, Tasks!Finish, Types
  <2>2. ASSUME NEW u \in TaskIds
        PROVE  /\ Len(results'[u]) <= Len(task[u].queries)
               /\ \A i \in 1 .. Len(results'[u]) : Fresh(task[u].queries[i].query, results'[u][i])
    <3>1. CASE u = t
      BY <1>1, <2>1, <3>1
    <3>2. CASE u # t
      BY <1>0, <2>1, <3>2 DEF ResultsAreFresh
    <3> QED BY <3>1, <3>2
  <2> QED BY <2>1, <2>2 DEF ResultsAreFresh, Fresh
<1>6. ASSUME UNCHANGED <<task, results, rows>> PROVE ResultsAreFresh'
  BY <1>0, <1>6 DEF ResultsAreFresh, Fresh
<1> QED BY <1>2, <1>3, <1>4, <1>5, <1>6, Steps DEF Start, Tasks!Start, Rests

LEMMA DeliveryInit == Init => DeliveryInv
<1> SUFFICES ASSUME Init PROVE DeliveryInv
  OBVIOUS
<1>1. /\ task = [t \in TaskIds |-> Unscheduled] /\ phase = [t \in TaskIds |-> "unscheduled"]
      /\ results = [t \in TaskIds |-> <<>>] /\ changed = [t \in TaskIds |-> <<>>] /\ done = {}
      /\ entry = [q \in Queries |-> NoEntry]
      /\ binding = [q \in Queries |-> CHOOSE bound \in Bounds : TRUE]
  BY DEF Init, Tasks!Init
<1>2. PICK stored \in Stored : rows = [d \in Tables |-> stored]
  BY DEF Init
<1>3. Unscheduled \in Descriptor /\ LocksFit(Unscheduled)
  BY DEF Unscheduled, Descriptor, Kind, LocksFit
<1>4. (CHOOSE bound \in Bounds : TRUE) \in Bounds
  BY BoundsAssumption
<1>5. Types
  BY <1>1, <1>2, <1>3, <1>4 DEF Types, Rows
<1>6. Entries /\ NoConflicts
  BY <1>1 DEF Entries, Observed, NoConflicts
<1>7. Descriptors /\ Running /\ ResultsAreFresh
  BY <1>1, <1>3 DEF Descriptors, Running, ResultsAreFresh, Unscheduled
<1> QED BY <1>5, <1>6, <1>7 DEF DeliveryInv

-----------------------------------------------------------------------------
(* No result is delivered late *)

\* What a delivery gives to the observers of q.
LEMMA Delivery ==
    ASSUME DeliveryInv, [Next]_vars, NEW q \in Queries, entry'[q] # NoEntry,
           entry[q] = NoEntry \/ entry'[q][1].last # entry[q][1].last,
           entry'[q][1].last # <<>>
    PROVE  \E t \in TaskIds : /\ Executed(t) /\ task[t].kind \in {"read", "observer"}
                              /\ q \in QueriesOf(t) /\ entry'[q][1].last = << ResultOf(t, q) >>
<1>0. Entries
  BY DEF DeliveryInv
<1>1. ASSUME UNCHANGED entry PROVE FALSE
  BY <1>1
<1>2. ASSUME NEW p \in Queries, NEW c \in Callbacks, Observe(p, c) PROVE FALSE
  <2> DEFINE e == IF Observed(p) THEN entry[p][1] ELSE NewEntry
             f == [e EXCEPT !.observers = @ \cup {c}]
  <2>1. DOMAIN e = {"observers", "observable", "last"}
    BY <1>0 DEF Entries, NewEntry
  <2>2. f.last = e.last
    BY <2>1
  <2>3. entry' = [entry EXCEPT ![p] = << f >>]
    BY <1>2 DEF Observe
  <2>4. e.last = IF Observed(p) THEN entry[p][1].last ELSE <<>>
    BY DEF NewEntry
  <2> HIDE DEF e, f
  <2>5. CASE p = q
    <3>1. entry'[q][1].last = IF Observed(q) THEN entry[q][1].last ELSE <<>>
      BY <1>0, <2>2, <2>3, <2>4, <2>5 DEF Entries
    <3> QED BY <3>1 DEF Observed
  <2>6. CASE p # q
    BY <1>0, <2>3, <2>6 DEF Entries
  <2> QED BY <2>5, <2>6
<1>3. ASSUME NEW p \in Queries, NEW c \in Callbacks, Unobserve(p, c) PROVE FALSE
  <2> DEFINE left == entry[p][1].observers \ {c}
             f == [entry[p][1] EXCEPT !.observers = left]
  <2>1. Observed(p) /\ entry' = [entry EXCEPT ![p] = IF left = {} THEN NoEntry ELSE << f >>]
    BY <1>3 DEF Unobserve
  <2>2. f.last = entry[p][1].last
    BY <1>0, <2>1 DEF Entries
  <2> HIDE DEF left, f
  <2> QED BY <1>0, <2>1, <2>2 DEF Entries, Observed
<1>4. ASSUME NEW t \in TaskIds, ReadCommitted(t)
      PROVE  /\ Executed(t) /\ task[t].kind \in {"read", "observer"}
             /\ q \in QueriesOf(t) /\ entry'[q][1].last = << ResultOf(t, q) >>
  <2> DEFINE updated == {p \in QueriesOf(t) : Observed(p)}
  <2>1. PICK diff : entry' = [p \in Queries |-> IF p \in updated
                                THEN << Updated(entry[p][1], diff[p], ResultOf(t, p)) >> ELSE entry[p]]
    BY <1>4 DEF ReadCommitted
  <2>2. q \in updated
    BY <1>0, <2>1
  <2>3. Updated(entry[q][1], diff[q], ResultOf(t, q)).last = << ResultOf(t, q) >>
    BY <1>0, <2>2 DEF Entries, Updated
  <2> HIDE DEF updated
  <2>4. entry'[q][1].last = << ResultOf(t, q) >>
    BY <2>1, <2>2, <2>3
  <2> QED BY <1>4, <2>2, <2>4 DEF ReadCommitted, updated
<1> QED BY <1>1, <1>2, <1>3, <1>4
     DEF Next, Step, vars, Bind, ExecSelect, ExecWrite, Import, Schedule, Start, ExecPlan, ChangeRows,
         ImportRefused, ImportEnds, WriteFailed, WriteCommitted, ReadFailed, Finish

LEMMA DeliveredInTime ==
    ASSUME DeliveryInv, NEW t \in TaskIds, Executed(t), NEW q \in QueriesOf(t)
    PROVE  /\ Fresh(q, ResultOf(t, q))
           /\ \A u \in TaskIds : phase[u] = "running" /\ changed[u] # <<>> /\ u \notin done =>
                task[u].scope \cap TablesOf(q) = {}
<1>0. Types /\ Running /\ ResultsAreFresh
  BY DEF DeliveryInv
<1>1. task[t].queries \in Seq(Item) /\ results[t] \in Seq(Results)
  BY <1>0 DEF Types, Descriptor
<1>2. phase[t] = "running" /\ Len(results[t]) = Len(task[t].queries)
  BY DEF Executed, Executing
<1> DEFINE i == CHOOSE i \in DOMAIN task[t].queries : task[t].queries[i].query = q
<1>3. i \in DOMAIN task[t].queries /\ task[t].queries[i].query = q
  BY DEF QueriesOf, ToSet
<1>4. ResultOf(t, q) = results[t][i]
  BY DEF ResultOf
<1> HIDE DEF i
<1>5. i \in 1 .. Len(results[t])
  BY <1>1, <1>2, <1>3
<1>6. Fresh(q, ResultOf(t, q))
  BY <1>0, <1>3, <1>4, <1>5 DEF ResultsAreFresh
<1>7. ASSUME NEW u \in TaskIds, phase[u] = "running", changed[u] # <<>>
      PROVE  task[u].scope \cap TablesOf(q) = {}
  BY <1>0, <1>2, <1>3, <1>7, ReadersUndisturbed DEF Running
<1> QED BY <1>6, <1>7

\* What an observer is given is what its query returns of the rows at that very time,
\* and none of those rows may still be taken back.
THEOREM DeliveredCurrent == Spec => DeliveredAreCurrent
<1> DEFINE Current ==
      \A q \in Queries :
         (entry'[q] # NoEntry /\ (entry[q] = NoEntry \/ entry'[q][1].last # entry[q][1].last) /\ entry'[q][1].last # <<>>)
           => /\ Fresh(q, entry'[q][1].last[1])
              /\ \A t \in TaskIds : phase[t] = "running" /\ changed[t] # <<>> /\ t \notin done =>
                   task[t].scope \cap TablesOf(q) = {}
<1>1. DeliveryInv /\ [Next]_vars => DeliveryInv'
  BY TypesStep, EntriesStep, LocksStep, FreshStep DEF DeliveryInv
<1>2. DeliveryInv /\ [Next]_vars => [Current]_vars
  <2> SUFFICES ASSUME DeliveryInv, [Next]_vars, NEW q \in Queries, entry'[q] # NoEntry,
                      entry[q] = NoEntry \/ entry'[q][1].last # entry[q][1].last,
                      entry'[q][1].last # <<>>
               PROVE  /\ Fresh(q, entry'[q][1].last[1])
                      /\ \A t \in TaskIds : phase[t] = "running" /\ changed[t] # <<>> /\ t \notin done =>
                           task[t].scope \cap TablesOf(q) = {}
    OBVIOUS
  <2>1. PICK t \in TaskIds : Executed(t) /\ q \in QueriesOf(t) /\ entry'[q][1].last = << ResultOf(t, q) >>
    BY Delivery
  <2>2. entry'[q][1].last[1] = ResultOf(t, q)
    BY <2>1
  <2> QED BY <2>1, <2>2, DeliveredInTime
<1> QED BY <1>1, <1>2, DeliveryInit, PTL DEF Spec, DeliveredAreCurrent

-----------------------------------------------------------------------------
(* Induction, and lists *)

\* A set of naturals with 0 in it, and with every number the next one, has them all.
LEMMA Induction ==
    ASSUME NEW G, 0 \in G, \A n \in Nat : n \in G => n + 1 \in G
    PROVE  Nat \subseteq G
<1> DEFINE S == {n \in Nat : n \notin G}
<1>1. SUFFICES ASSUME S # {} PROVE FALSE
  OBVIOUS
<1>2. PICK n \in S : \A m \in S : ~(<<m, n>> \in OpToRel(<, Nat))
  BY <1>1, NatLessThanWellFounded, WFMin
<1>3. n \in Nat /\ n # 0 /\ n - 1 \in Nat /\ (n - 1) + 1 = n
  OBVIOUS
<1>4. <<n - 1, n>> \in OpToRel(<, Nat)
  BY <1>3 DEF OpToRel
<1>5. n - 1 \notin S
  BY <1>2, <1>4
<1> QED
  BY <1>3, <1>5

\* Cutting a row out of a list, and putting one in.
LEMMA RemoveAtFacts ==
    ASSUME NEW s \in Seq(Int), NEW i \in 1 .. Len(s)
    PROVE  RemoveAt(s, i) = [m \in 1 .. Len(s) - 1 |-> IF m < i THEN s[m] ELSE s[m + 1]]
<1> DEFINE a == SubSeq(s, 1, i - 1)
           b == SubSeq(s, i + 1, Len(s))
           c == [m \in 1 .. Len(s) - 1 |-> IF m < i THEN s[m] ELSE s[m + 1]]
<1>1. a \in Seq(Int) /\ Len(a) = i - 1 /\ \A m \in 1 .. i - 1 : a[m] = s[m]
  OBVIOUS
<1>2. b \in Seq(Int) /\ Len(b) = Len(s) - i /\ \A m \in 1 .. Len(s) - i : b[m] = s[m + i]
  OBVIOUS
<1>3. RemoveAt(s, i) = a \o b
  BY DEF RemoveAt
<1>4. c \in Seq(Int) /\ Len(c) = Len(s) - 1
  OBVIOUS
<1>5. \A m \in 1 .. Len(c) : c[m] = IF m < i THEN s[m] ELSE s[m + 1]
  BY <1>4
<1> HIDE DEF a, b, c
<1>6. /\ a \o b \in Seq(Int) /\ Len(a \o b) = Len(a) + Len(b)
      /\ \A m \in 1 .. Len(a) + Len(b) : (a \o b)[m] = IF m <= Len(a) THEN a[m] ELSE b[m - Len(a)]
  BY <1>1, <1>2, ConcatProperties
<1>7. \A m \in 1 .. Len(a \o b) : (a \o b)[m] = c[m]
  <2> SUFFICES ASSUME NEW m \in 1 .. Len(a \o b) PROVE (a \o b)[m] = c[m]
    OBVIOUS
  <2>0. Len(s) \in Nat /\ Len(a \o b) = Len(s) - 1 /\ Len(c) = Len(s) - 1
    BY <1>1, <1>2, <1>4, <1>6
  <2>1. m \in Int /\ 1 <= m /\ m <= Len(s) - 1 /\ m \in 1 .. Len(c) /\ m \in 1 .. Len(a) + Len(b)
    BY <1>1, <1>2, <2>0
  <2>2. CASE m <= i - 1
    <3>0. m \in 1 .. i - 1 /\ m <= Len(a) /\ m < i
      BY <1>1, <2>1, <2>2
    <3>1. (a \o b)[m] = a[m] /\ a[m] = s[m] /\ m < i
      BY <1>1, <1>6, <2>1, <3>0
    <3> QED
      BY <1>5, <2>1, <3>1
  <2>3. CASE ~(m <= i - 1)
    <3>1. m - (i - 1) \in 1 .. Len(s) - i /\ (m - (i - 1)) + i = m + 1 /\ ~(m < i)
      BY <2>0, <2>1, <2>3
    <3>2. (a \o b)[m] = b[m - (i - 1)] /\ b[m - (i - 1)] = s[m + 1]
      BY <1>1, <1>2, <1>6, <2>1, <2>3, <3>1
    <3> QED
      BY <1>5, <2>1, <3>1, <3>2
  <2> QED
    BY <2>2, <2>3
<1>8. a \o b = c
  <2>1. Len(a \o b) = Len(c)
    BY <1>1, <1>2, <1>4, <1>6
  <2> QED
    BY <1>4, <1>6, <1>7, <2>1, SeqEqual
<1> QED
  BY <1>3, <1>8 DEF c

LEMMA InsertAtFacts ==
    ASSUME NEW s \in Seq(Int), NEW i \in 1 .. Len(s) + 1, NEW e \in Int
    PROVE  InsertAt(s, i, e)
             = [m \in 1 .. Len(s) + 1 |-> IF m < i THEN s[m] ELSE IF m = i THEN e ELSE s[m - 1]]
<1> DEFINE a == SubSeq(s, 1, i - 1)
           b == SubSeq(s, i, Len(s))
           c == [m \in 1 .. Len(s) + 1 |-> IF m < i THEN s[m] ELSE IF m = i THEN e ELSE s[m - 1]]
           d == a \o << e >>
<1>1. a \in Seq(Int) /\ Len(a) = i - 1 /\ \A m \in 1 .. i - 1 : a[m] = s[m]
  OBVIOUS
<1>2. b \in Seq(Int) /\ Len(b) = Len(s) + 1 - i /\ \A m \in 1 .. Len(s) + 1 - i : b[m] = s[m + i - 1]
  OBVIOUS
<1>3. InsertAt(s, i, e) = d \o b
  BY DEF InsertAt
<1>4. c \in Seq(Int) /\ Len(c) = Len(s) + 1
  OBVIOUS
<1>5. \A m \in 1 .. Len(c) : c[m] = IF m < i THEN s[m] ELSE IF m = i THEN e ELSE s[m - 1]
  BY <1>4
<1> HIDE DEF a, b, c
<1>6. d \in Seq(Int) /\ Len(d) = i /\ \A m \in 1 .. i : d[m] = IF m < i THEN s[m] ELSE e
  <2>1. << e >> \in Seq(Int) /\ Len(<< e >>) = 1 /\ << e >>[1] = e
    OBVIOUS
  <2>2. /\ d \in Seq(Int) /\ Len(d) = Len(a) + 1
        /\ \A m \in 1 .. Len(a) + 1 : d[m] = IF m <= Len(a) THEN a[m] ELSE << e >>[m - Len(a)]
    BY <1>1, <2>1, ConcatProperties
  <2> QED
    BY <1>1, <2>1, <2>2
<1> HIDE DEF d
<1>7. /\ d \o b \in Seq(Int) /\ Len(d \o b) = Len(d) + Len(b)
      /\ \A m \in 1 .. Len(d) + Len(b) : (d \o b)[m] = IF m <= Len(d) THEN d[m] ELSE b[m - Len(d)]
  BY <1>2, <1>6, ConcatProperties
<1>8. \A m \in 1 .. Len(d \o b) : (d \o b)[m] = c[m]
  <2> SUFFICES ASSUME NEW m \in 1 .. Len(d \o b) PROVE (d \o b)[m] = c[m]
    OBVIOUS
  <2>0. Len(s) \in Nat /\ Len(d \o b) = Len(s) + 1 /\ Len(c) = Len(s) + 1
    BY <1>2, <1>4, <1>6, <1>7
  <2>1. m \in Int /\ 1 <= m /\ m <= Len(s) + 1 /\ m \in 1 .. Len(c) /\ m \in 1 .. Len(d) + Len(b)
    BY <1>2, <1>6, <2>0
  <2>2. CASE m <= i
    <3>1. (d \o b)[m] = d[m] /\ m \in 1 .. i
      BY <1>6, <1>7, <2>1, <2>2
    <3>2. d[m] = IF m < i THEN s[m] ELSE e
      BY <1>6, <3>1
    <3>3. c[m] = IF m < i THEN s[m] ELSE IF m = i THEN e ELSE s[m - 1]
      BY <1>5, <2>1
    <3> QED
      BY <2>1, <2>2, <3>1, <3>2, <3>3
  <2>3. CASE ~(m <= i)
    <3>1. m - i \in 1 .. Len(s) + 1 - i /\ (m - i) + i - 1 = m - 1 /\ ~(m < i) /\ m # i
      BY <2>0, <2>1, <2>3
    <3>2. (d \o b)[m] = b[m - i] /\ b[m - i] = s[m - 1]
      BY <1>2, <1>6, <1>7, <2>1, <2>3, <3>1
    <3> QED
      BY <1>5, <2>1, <3>1, <3>2
  <2> QED
    BY <2>2, <2>3
<1>9. d \o b = c
  <2>1. Len(d \o b) = Len(c)
    BY <1>2, <1>4, <1>6, <1>7
  <2> QED
    BY <1>4, <1>7, <1>8, <2>1, SeqEqual
<1> QED
  BY <1>3, <1>9 DEF c

-----------------------------------------------------------------------------
(* Results *)

LEMMA AllowedType ==
    ASSUME NEW table \in Seq(Int), NEW bound
    PROVE  Allowed(table, bound) \in Seq(Int)
<1> DEFINE Fits(f, n) == f = [i \in 0 .. n |-> IF i = 0 THEN <<>> ELSE IF table[i] >= bound THEN Append(f[i - 1], table[i]) ELSE f[i - 1]]
           it == CHOOSE f : Fits(f, Len(table))
<1>1. Allowed(table, bound) = it[Len(table)]
  BY DEF Allowed
<1>2. Fits(it, Len(table))
  <2> DEFINE G == {n \in Nat : \E f : Fits(f, n)}
  <2>1. 0 \in G
    <3> DEFINE f == [i \in 0 .. 0 |-> <<>>]
    <3>1. \A i \in 0 .. 0 : i = 0
      OBVIOUS
    <3>2. Fits(f, 0)
      BY <3>1
    <3> HIDE DEF f, Fits
    <3> QED
      BY <3>2
  <2>2. ASSUME NEW n \in Nat, n \in G PROVE n + 1 \in G
    <3>1. PICK f : Fits(f, n)
      BY <2>2
    <3> DEFINE g == [i \in 0 .. n + 1 |-> IF i = n + 1 THEN IF table[n + 1] >= bound THEN Append(f[n], table[n + 1]) ELSE f[n] ELSE f[i]]
    <3>2. ASSUME NEW i \in 0 .. n + 1
          PROVE  g[i] = IF i = 0 THEN <<>> ELSE IF table[i] >= bound THEN Append(g[i - 1], table[i]) ELSE g[i - 1]
      <4>1. CASE i = n + 1
        <5>1. i # 0 /\ i - 1 = n /\ n \in 0 .. n + 1 /\ n # n + 1
          BY <4>1
        <5>2. g[i - 1] = f[n]
          BY <5>1
        <5>3. g[i] = IF table[n + 1] >= bound THEN Append(f[n], table[n + 1]) ELSE f[n]
          BY <4>1
        <5> HIDE DEF g
        <5> QED
          BY <4>1, <5>1, <5>2, <5>3
      <4>2. CASE i # n + 1
        <5>1. i \in 0 .. n /\ (i # 0 => i - 1 \in 0 .. n + 1 /\ i - 1 # n + 1)
          BY <4>2
        <5>2. g[i] = f[i] /\ (i # 0 => g[i - 1] = f[i - 1])
          BY <4>2, <5>1
        <5>3. f[i] = IF i = 0 THEN <<>> ELSE IF table[i] >= bound THEN Append(f[i - 1], table[i]) ELSE f[i - 1]
          BY <3>1, <5>1
        <5> HIDE DEF g
        <5> QED
          BY <5>2, <5>3
      <4> QED
        BY <4>1, <4>2
    <3>3. g = [i \in 0 .. n + 1 |-> g[i]]
      OBVIOUS
    <3> HIDE DEF g
    <3>4. Fits(g, n + 1)
      BY <3>2, <3>3
    <3> HIDE DEF Fits
    <3> QED
      BY <3>4
  <2>3. Len(table) \in Nat
    OBVIOUS
  <2>4. Len(table) \in G
    <3> HIDE DEF G
    <3> QED
      BY <2>1, <2>2, <2>3, Induction
  <2> HIDE DEF Fits
  <2> QED
    BY <2>4
<1>3. it[0] = <<>> /\ \A i \in 1 .. Len(table) : it[i] = IF table[i] >= bound THEN Append(it[i - 1], table[i]) ELSE it[i - 1]
  <2> HIDE DEF it
  <2>1. 0 \in 0 .. Len(table) /\ \A i \in 1 .. Len(table) : i \in 0 .. Len(table) /\ i # 0
    OBVIOUS
  <2> QED
    BY <1>2, <2>1
<1> HIDE DEF it, Fits
<1> DEFINE H == {n \in Nat : n <= Len(table) => it[n] \in Seq(Int)}
<1>4. 0 \in H
  <2>1. it[0] \in Seq(Int)
    BY <1>3
  <2> QED
    BY <2>1
<1>5. ASSUME NEW n \in Nat, n \in H PROVE n + 1 \in H
  <2> SUFFICES ASSUME n + 1 <= Len(table) PROVE it[n + 1] \in Seq(Int)
    OBVIOUS
  <2>1. n + 1 \in 1 .. Len(table) /\ (n + 1) - 1 = n /\ it[n] \in Seq(Int) /\ table[n + 1] \in Int
    BY <1>5
  <2>2. it[n + 1] = IF table[n + 1] >= bound THEN Append(it[n], table[n + 1]) ELSE it[n]
    BY <1>3, <2>1
  <2> QED
    BY <2>1, <2>2
<1>6. Len(table) \in H
  <2> HIDE DEF H
  <2> QED
    BY <1>4, <1>5, Induction
<1> QED
  BY <1>1, <1>6
LEMMA FlattenType ==
    ASSUME NEW seqs \in Seq(Seq(Int))
    PROVE  FlattenSeq(seqs) \in Seq(Int)
<1>0. CASE Len(seqs) = 0
  <2>1. seqs = <<>>
    BY <1>0
  <2>2. FlattenSeq(seqs) = seqs
    BY <1>0 DEF FlattenSeq
  <2>3. <<>> \in Seq(Int)
    OBVIOUS
  <2>4. FlattenSeq(seqs) = <<>>
    BY <2>1, <2>2
  <2> QED
    BY <2>3, <2>4, Zenon
<1> SUFFICES ASSUME Len(seqs) # 0 PROVE FlattenSeq(seqs) \in Seq(Int)
  BY <1>0
<1> DEFINE Fits(f, n) == f = [i \in 1 .. n |-> IF i = 1 THEN seqs[i] ELSE f[i - 1] \o seqs[i]]
           it == CHOOSE f : Fits(f, Len(seqs))
<1>1. FlattenSeq(seqs) = it[Len(seqs)]
  BY DEF FlattenSeq
<1>2. Fits(it, Len(seqs))
  <2> DEFINE G == {n \in Nat : \E f : Fits(f, n)}
  <2>1. 0 \in G
    <3> DEFINE f == [i \in 1 .. 0 |-> 0]
    <3>1. 1 .. 0 = {}
      OBVIOUS
    <3>2. Fits(f, 0)
      BY <3>1
    <3> HIDE DEF f, Fits
    <3> QED
      BY <3>2
  <2>2. ASSUME NEW n \in Nat, n \in G PROVE n + 1 \in G
    <3>1. PICK f : Fits(f, n)
      BY <2>2
    <3> DEFINE g == [i \in 1 .. n + 1 |-> IF i = n + 1 THEN IF n + 1 = 1 THEN seqs[n + 1] ELSE f[n] \o seqs[n + 1] ELSE f[i]]
    <3>2. ASSUME NEW i \in 1 .. n + 1
          PROVE  g[i] = IF i = 1 THEN seqs[i] ELSE g[i - 1] \o seqs[i]
      <4>1. CASE i = n + 1
        <5>1. i - 1 = n /\ n # n + 1 /\ (i # 1 => n \in 1 .. n + 1)
          BY <4>1
        <5>2. i # 1 => g[i - 1] = f[n]
          BY <5>1
        <5>3. g[i] = IF n + 1 = 1 THEN seqs[n + 1] ELSE f[n] \o seqs[n + 1]
          BY <4>1
        <5> HIDE DEF g
        <5> QED
          BY <4>1, <5>1, <5>2, <5>3
      <4>2. CASE i # n + 1
        <5>1. i \in 1 .. n /\ (i # 1 => i - 1 \in 1 .. n + 1 /\ i - 1 # n + 1)
          BY <4>2
        <5>2. g[i] = f[i] /\ (i # 1 => g[i - 1] = f[i - 1])
          BY <4>2, <5>1
        <5>3. f[i] = IF i = 1 THEN seqs[i] ELSE f[i - 1] \o seqs[i]
          BY <3>1, <5>1
        <5> HIDE DEF g
        <5> QED
          BY <5>2, <5>3
      <4> QED
        BY <4>1, <4>2
    <3>3. g = [i \in 1 .. n + 1 |-> g[i]]
      OBVIOUS
    <3> HIDE DEF g
    <3>4. Fits(g, n + 1)
      BY <3>2, <3>3
    <3> HIDE DEF Fits
    <3> QED
      BY <3>4
  <2>3. Len(seqs) \in Nat
    OBVIOUS
  <2>4. Len(seqs) \in G
    <3> HIDE DEF G
    <3> QED
      BY <2>1, <2>2, <2>3, Induction
  <2> HIDE DEF Fits
  <2> QED
    BY <2>4
<1>3. \A i \in 1 .. Len(seqs) : it[i] = IF i = 1 THEN seqs[i] ELSE it[i - 1] \o seqs[i]
  <2> HIDE DEF it
  <2> QED
    BY <1>2
<1> HIDE DEF it, Fits
<1> DEFINE H == {n \in Nat : n # 0 /\ n <= Len(seqs) => it[n] \in Seq(Int)}
<1>4. 0 \in H
  OBVIOUS
<1>5. ASSUME NEW n \in Nat, n \in H PROVE n + 1 \in H
  <2> SUFFICES ASSUME n + 1 <= Len(seqs) PROVE it[n + 1] \in Seq(Int)
    OBVIOUS
  <2>1. n + 1 \in 1 .. Len(seqs) /\ (n + 1) - 1 = n /\ seqs[n + 1] \in Seq(Int)
    OBVIOUS
  <2>2. it[n + 1] = IF n + 1 = 1 THEN seqs[n + 1] ELSE it[n] \o seqs[n + 1]
    BY <1>3, <2>1
  <2>3. n # 0 => it[n] \in Seq(Int)
    BY <1>5, <2>1
  <2> QED
    BY <2>1, <2>2, <2>3
<1>6. Len(seqs) \in H
  <2>1. Len(seqs) \in Nat
    OBVIOUS
  <2> HIDE DEF H
  <2> QED
    BY <1>4, <1>5, <2>1, Induction
<1> QED
  BY <1>1, <1>6

LEMMA ResultType ==
    ASSUME NEW q \in Queries, NEW data \in [Tables -> Rows], NEW bound
    PROVE  Result(q, data, bound) \in Seq(Int)
<1> DEFINE f == [i \in DOMAIN From[q] |-> Allowed(data[From[q][i]], bound)]
<1>1. From[q] \in Seq(Tables)
  BY QueriesAssumption
<1>2. ASSUME NEW i \in 1 .. Len(From[q]) PROVE Allowed(data[From[q][i]], bound) \in Seq(Int)
  <2>1. data[From[q][i]] \in Seq(Int)
    BY <1>1, RowsAssumption DEF Rows
  <2> QED
    BY <2>1, AllowedType
<1>3. DOMAIN From[q] = 1 .. Len(From[q]) /\ Len(From[q]) \in Nat
  BY <1>1
<1>4. f \in [1 .. Len(From[q]) -> Seq(Int)]
  BY <1>2, <1>3
<1>5. f \in Seq(Seq(Int))
  <2> HIDE DEF f
  <2> QED
    BY <1>3, <1>4
<1>6. Result(q, data, bound) = FlattenSeq(f)
  BY DEF Result
<1> HIDE DEF f
<1> QED
  BY <1>5, <1>6, FlattenType

-----------------------------------------------------------------------------
(* Places of common rows *)

\* Pairs of places of equal rows, ascending on both sides.
Matches(common, old, new) ==
    /\ common \in Seq(Nat \X Nat)
    /\ \A m \in 1 .. Len(common) :
         common[m][1] \in 1 .. Len(old) /\ common[m][2] \in 1 .. Len(new)
           /\ old[common[m][1]] = new[common[m][2]]
    /\ \A l, m \in 1 .. Len(common) :
         l < m => common[l][1] < common[m][1] /\ common[l][2] < common[m][2]

\* On the way back, the pairs found so far lie behind.
OnTheWay(at, old, new) ==
    /\ at.i \in 0 .. Len(old) /\ at.j \in 0 .. Len(new)
    /\ Matches(at.pairs, old, new)
    /\ at = [i |-> at.i, j |-> at.j, pairs |-> at.pairs]
    /\ \A m \in 1 .. Len(at.pairs) : at.i < at.pairs[m][1] /\ at.j < at.pairs[m][2]

\* One step towards the beginning of a list.
LEMMA OneBefore ==
    ASSUME NEW n \in Nat, NEW i \in 0 .. n, i # 0
    PROVE  i \in 1 .. n /\ i - 1 \in 0 .. n /\ i - 1 < i
OBVIOUS

\* What is below a number is below what is greater.
LEMMA BelowGreater ==
    ASSUME NEW i \in Int, NEW x \in Int, i < x
    PROVE  i - 1 < x
OBVIOUS

LEMMA BacktrackFacts ==
    ASSUME NEW old \in Seq(Int), NEW new \in Seq(Int), NEW lengths, NEW at, OnTheWay(at, old, new)
    PROVE  OnTheWay(Backtrack(old, new, lengths, at), old, new)
<1> DEFINE b == Backtrack(old, new, lengths, at)
<1>0. at.i \in 0 .. Len(old) /\ at.j \in 0 .. Len(new) /\ Len(old) \in Nat /\ Len(new) \in Nat
  BY DEF OnTheWay
<1>1. CASE at.i = 0 \/ at.j = 0
  BY <1>1 DEF Backtrack
<1>2. CASE ~(at.i = 0 \/ at.j = 0) /\ old[at.i] = new[at.j]
  <2> DEFINE p == << <<at.i, at.j>> >>
             c == p \o at.pairs
  <2>1. b = [i |-> at.i - 1, j |-> at.j - 1, pairs |-> c]
    BY <1>2 DEF Backtrack
  <2>2. at.pairs \in Seq(Nat \X Nat)
    BY DEF OnTheWay, Matches
  <2>3. <<at.i, at.j>> \in Nat \X Nat
    BY <1>0
  <2>4. p \in Seq(Nat \X Nat) /\ Len(p) = 1 /\ p[1] = <<at.i, at.j>>
    BY <2>3
  <2> HIDE DEF p
  <2>5. /\ c \in Seq(Nat \X Nat) /\ Len(c) = 1 + Len(at.pairs)
        /\ \A m \in 1 .. 1 + Len(at.pairs) : c[m] = IF m <= 1 THEN p[m] ELSE at.pairs[m - 1]
    <3> DEFINE S == Nat \X Nat
    <3>1. p \in Seq(S) /\ at.pairs \in Seq(S)
      BY <2>2, <2>4
    <3> HIDE DEF S
    <3>2. /\ c \in Seq(S) /\ Len(c) = Len(p) + Len(at.pairs)
          /\ \A m \in 1 .. Len(p) + Len(at.pairs) :
               c[m] = IF m <= Len(p) THEN p[m] ELSE at.pairs[m - Len(p)]
      BY <3>1, ConcatProperties
    <3> HIDE DEF c
    <3> QED
      BY <2>4, <3>2 DEF S
  <2> HIDE DEF c
  <2>6. c[1][1] = at.i /\ c[1][2] = at.j
    <3>1. 1 \in 1 .. 1 + Len(at.pairs)
      BY <2>2, LenProperties
    <3>2. c[1] = IF 1 <= 1 THEN p[1] ELSE at.pairs[1 - 1]
      BY <2>5, <3>1
    <3>3. c[1] = <<at.i, at.j>>
      BY <2>4, <3>2
    <3> QED
      BY <3>3
  <2>7. ASSUME NEW m \in 1 .. Len(c), m # 1
        PROVE  m - 1 \in 1 .. Len(at.pairs) /\ c[m] = at.pairs[m - 1]
    BY <2>2, <2>5, <2>7
  <2>8. ASSUME NEW m \in 1 .. Len(c)
        PROVE  /\ c[m][1] \in 1 .. Len(old) /\ c[m][2] \in 1 .. Len(new)
               /\ old[c[m][1]] = new[c[m][2]]
               /\ at.i - 1 < c[m][1] /\ at.j - 1 < c[m][2]
               /\ m # 1 => at.i < c[m][1] /\ at.j < c[m][2]
    <3>1. CASE m = 1
      <4>1. c[m][1] = at.i /\ c[m][2] = at.j
        BY <2>6, <3>1
      <4>2. at.i # 0 /\ at.j # 0
        BY <1>2
      <4>3. at.i \in 1 .. Len(old) /\ at.i - 1 < at.i
        BY <1>0, <4>2, OneBefore
      <4>4. at.j \in 1 .. Len(new) /\ at.j - 1 < at.j
        BY <1>0, <4>2, OneBefore
      <4> QED
        BY <1>2, <3>1, <4>1, <4>3, <4>4
    <3>2. CASE m # 1
      <4>1. m - 1 \in 1 .. Len(at.pairs) /\ c[m] = at.pairs[m - 1]
        BY <2>7, <3>2
      <4> DEFINE k == m - 1
      <4>2. /\ at.pairs[k][1] \in 1 .. Len(old) /\ at.pairs[k][2] \in 1 .. Len(new)
            /\ old[at.pairs[k][1]] = new[at.pairs[k][2]]
            /\ at.i < at.pairs[k][1] /\ at.j < at.pairs[k][2]
        BY <4>1 DEF OnTheWay, Matches
      <4>3. /\ c[m][1] \in 1 .. Len(old) /\ c[m][2] \in 1 .. Len(new)
            /\ old[c[m][1]] = new[c[m][2]]
            /\ at.i < c[m][1] /\ at.j < c[m][2]
        BY <4>1, <4>2
      <4> HIDE DEF k
      <4>4. at.i - 1 < c[m][1] /\ at.j - 1 < c[m][2]
        <5> DEFINE x == c[m][1]
                   y == c[m][2]
        <5>1. x \in 1 .. Len(old) /\ y \in 1 .. Len(new) /\ at.i < x /\ at.j < y
          BY <4>3
        <5> HIDE DEF x, y
        <5>2. x \in Int /\ y \in Int
          BY <5>1
        <5>3. at.i \in Int /\ at.j \in Int
          BY <1>0
        <5>4. at.i - 1 < x /\ at.j - 1 < y
          BY <5>1, <5>2, <5>3, BelowGreater
        <5> QED
          BY <5>4 DEF x, y
      <4> QED
        BY <4>3, <4>4
    <3> QED
      BY <3>1, <3>2
  <2>9. ASSUME NEW l \in 1 .. Len(c), NEW m \in 1 .. Len(c), l < m
        PROVE  c[l][1] < c[m][1] /\ c[l][2] < c[m][2]
    <3>1. m # 1
      BY <2>9
    <3>2. CASE l = 1
      BY <2>6, <2>8, <3>1, <3>2
    <3>3. CASE l # 1
      <4>1. l - 1 \in 1 .. Len(at.pairs) /\ c[l] = at.pairs[l - 1]
        BY <2>7, <3>3
      <4>2. m - 1 \in 1 .. Len(at.pairs) /\ c[m] = at.pairs[m - 1]
        BY <2>7, <3>1
      <4>3. l - 1 < m - 1
        BY <2>9
      <4> QED
        BY <4>1, <4>2, <4>3 DEF OnTheWay, Matches
    <3> QED
      BY <3>2, <3>3
  <2>10. Matches(c, old, new)
    BY <2>5, <2>8, <2>9 DEF Matches
  <2>11. at.i - 1 \in 0 .. Len(old) /\ at.j - 1 \in 0 .. Len(new)
    <3>1. at.i # 0 /\ at.j # 0
      BY <1>2
    <3> QED
      BY <1>0, <3>1, OneBefore
  <2>12. b.i = at.i - 1 /\ b.j = at.j - 1 /\ b.pairs = c /\ b = [i |-> b.i, j |-> b.j, pairs |-> b.pairs]
    BY <2>1
  <2> HIDE DEF b
  <2>13. OnTheWay(b, old, new)
    BY <2>8, <2>10, <2>11, <2>12 DEF OnTheWay
  <2> QED
    BY <2>13 DEF b
<1>3. CASE ~(at.i = 0 \/ at.j = 0) /\ old[at.i] # new[at.j]
  <2> DEFINE up == [at EXCEPT !.i = @ - 1]
             left == [at EXCEPT !.j = @ - 1]
  <2>1. b = up \/ b = left
    BY <1>3 DEF Backtrack
  <2>2. at.i - 1 \in 0 .. Len(old) /\ at.j - 1 \in 0 .. Len(new)
    <3>1. at.i # 0 /\ at.j # 0
      BY <1>3
    <3> QED
      BY <1>0, <3>1, OneBefore
  <2>3. at = [i |-> at.i, j |-> at.j, pairs |-> at.pairs] /\ Matches(at.pairs, old, new)
    BY DEF OnTheWay
  <2>4. /\ up.i = at.i - 1 /\ up.j = at.j /\ up.pairs = at.pairs
        /\ up = [i |-> up.i, j |-> up.j, pairs |-> up.pairs]
    BY <2>3
  <2>5. /\ left.i = at.i /\ left.j = at.j - 1 /\ left.pairs = at.pairs
        /\ left = [i |-> left.i, j |-> left.j, pairs |-> left.pairs]
    BY <2>3
  <2>6. ASSUME NEW m \in 1 .. Len(at.pairs)
        PROVE  /\ at.i < at.pairs[m][1] /\ at.j < at.pairs[m][2]
               /\ at.i - 1 < at.pairs[m][1] /\ at.j - 1 < at.pairs[m][2]
    <3>1. at.i < at.pairs[m][1] /\ at.j < at.pairs[m][2] /\ at.pairs[m][1] \in Int /\ at.pairs[m][2] \in Int
      BY DEF OnTheWay, Matches
    <3> QED
      BY <1>0, <3>1
  <2> HIDE DEF up, left
  <2>7. OnTheWay(up, old, new)
    BY <1>0, <2>2, <2>3, <2>4, <2>6 DEF OnTheWay
  <2>8. OnTheWay(left, old, new)
    BY <1>0, <2>2, <2>3, <2>5, <2>6 DEF OnTheWay
  <2> QED
    BY <2>1, <2>7, <2>8
<1> QED
  BY <1>1, <1>2, <1>3

LEMMA CommonFacts ==
    ASSUME NEW old \in Seq(Int), NEW new \in Seq(Int)
    PROVE  Matches(CommonSubsequence(old, new), old, new)
<1> DEFINE lengths == Lengths(old, new)
<1> HIDE DEF lengths
<1> DEFINE Fits(f, n) == f = [i \in 0 .. n |-> IF i = 0 THEN [i |-> Len(old), j |-> Len(new), pairs |-> <<>>] ELSE Backtrack(old, new, lengths, f[i - 1])]
           it == CHOOSE f : Fits(f, (Len(old) + Len(new)))
<1>1. CommonSubsequence(old, new) = it[(Len(old) + Len(new))].pairs
  BY DEF CommonSubsequence, lengths
<1>2. Fits(it, (Len(old) + Len(new)))
  <2> DEFINE G == {n \in Nat : \E f : Fits(f, n)}
  <2>1. 0 \in G
    <3> DEFINE f == [i \in 0 .. 0 |-> [i |-> Len(old), j |-> Len(new), pairs |-> <<>>]]
    <3>1. \A i \in 0 .. 0 : i = 0
      OBVIOUS
    <3>2. Fits(f, 0)
      BY <3>1
    <3> HIDE DEF f, Fits
    <3> QED
      BY <3>2
  <2>2. ASSUME NEW n \in Nat, n \in G PROVE n + 1 \in G
    <3>1. PICK f : Fits(f, n)
      BY <2>2
    <3> DEFINE g == [i \in 0 .. n + 1 |-> IF i = n + 1 THEN Backtrack(old, new, lengths, f[n]) ELSE f[i]]
    <3>2. ASSUME NEW i \in 0 .. n + 1
          PROVE  g[i] = IF i = 0 THEN [i |-> Len(old), j |-> Len(new), pairs |-> <<>>] ELSE Backtrack(old, new, lengths, g[i - 1])
      <4>1. CASE i = n + 1
        <5>1. i # 0 /\ i - 1 = n /\ n \in 0 .. n + 1 /\ n # n + 1
          BY <4>1
        <5>2. g[i - 1] = f[n]
          BY <5>1
        <5>3. g[i] = Backtrack(old, new, lengths, f[n])
          BY <4>1
        <5> HIDE DEF g
        <5> QED
          BY <4>1, <5>1, <5>2, <5>3
      <4>2. CASE i # n + 1
        <5>1. i \in 0 .. n /\ (i # 0 => i - 1 \in 0 .. n + 1 /\ i - 1 # n + 1)
          BY <4>2
        <5>2. g[i] = f[i] /\ (i # 0 => g[i - 1] = f[i - 1])
          BY <4>2, <5>1
        <5>3. f[i] = IF i = 0 THEN [i |-> Len(old), j |-> Len(new), pairs |-> <<>>] ELSE Backtrack(old, new, lengths, f[i - 1])
          BY <3>1, <5>1
        <5> HIDE DEF g
        <5> QED
          BY <5>2, <5>3
      <4> QED
        BY <4>1, <4>2
    <3>3. g = [i \in 0 .. n + 1 |-> g[i]]
      OBVIOUS
    <3> HIDE DEF g
    <3>4. Fits(g, n + 1)
      BY <3>2, <3>3
    <3> HIDE DEF Fits
    <3> QED
      BY <3>4
  <2>3. (Len(old) + Len(new)) \in Nat
    OBVIOUS
  <2>4. (Len(old) + Len(new)) \in G
    <3> HIDE DEF G
    <3> QED
      BY <2>1, <2>2, <2>3, Induction
  <2> HIDE DEF Fits
  <2> QED
    BY <2>4
<1>3. it[0] = [i |-> Len(old), j |-> Len(new), pairs |-> <<>>] /\ \A i \in 1 .. (Len(old) + Len(new)) : it[i] = Backtrack(old, new, lengths, it[i - 1])
  <2> HIDE DEF it
  <2>1. 0 \in 0 .. (Len(old) + Len(new)) /\ \A i \in 1 .. (Len(old) + Len(new)) : i \in 0 .. (Len(old) + Len(new)) /\ i # 0
    OBVIOUS
  <2> QED
    BY <1>2, <2>1
<1> HIDE DEF it, Fits
<1> DEFINE H == {n \in Nat : n <= Len(old) + Len(new) => OnTheWay(it[n], old, new)}
<1>4. 0 \in H
  <2>1. it[0] = [i |-> Len(old), j |-> Len(new), pairs |-> <<>>]
    BY <1>3
  <2>2. it[0].i = Len(old) /\ it[0].j = Len(new) /\ it[0].pairs = <<>>
    BY <2>1
  <2>3. Matches(<<>>, old, new)
    BY DEF Matches
  <2>4. OnTheWay(it[0], old, new)
    BY <2>1, <2>2, <2>3 DEF OnTheWay
  <2> QED
    BY <2>4
<1>5. ASSUME NEW n \in Nat, n \in H PROVE n + 1 \in H
  <2> SUFFICES ASSUME n + 1 <= Len(old) + Len(new) PROVE OnTheWay(it[n + 1], old, new)
    OBVIOUS
  <2>1. n + 1 \in 1 .. (Len(old) + Len(new)) /\ (n + 1) - 1 = n
    OBVIOUS
  <2>2. it[n + 1] = Backtrack(old, new, lengths, it[n])
    BY <1>3, <2>1
  <2>3. OnTheWay(it[n], old, new)
    BY <1>5, <2>1
  <2> QED
    BY <2>2, <2>3, BacktrackFacts
<1>6. Len(old) + Len(new) \in H
  <2>1. Len(old) + Len(new) \in Nat
    OBVIOUS
  <2> HIDE DEF H
  <2> QED
    BY <1>4, <1>5, <2>1, Induction
<1>7. OnTheWay(it[(Len(old) + Len(new))], old, new)
  BY <1>6
<1> QED
  BY <1>1, <1>7 DEF OnTheWay

-----------------------------------------------------------------------------
(* Repeating the records *)

Record == [index : Nat, added : {<<>>} \cup {<< v >> : v \in Int}]

\* What has become of a copy after some records, and how many of them were deletions.
Replay(copy, records) ==
    LET after[n \in 0..Len(records)] ==
            IF n = 0 THEN [array |-> copy, deleted |-> 0] ELSE Repeat(after[n - 1], records[n])
    IN  after[Len(records)]

\* Records are repeated one after the other.
LEMMA ReplayStart ==
    ASSUME NEW copy
    PROVE  Replay(copy, <<>>) = [array |-> copy, deleted |-> 0]
<1> DEFINE records == <<>>
<1>0. Len(records) = 0
  OBVIOUS
<1> HIDE DEF records
<1> DEFINE Fits(f, n) == f = [i \in 0 .. n |-> IF i = 0 THEN [array |-> copy, deleted |-> 0] ELSE Repeat(f[i - 1], records[i])]
           it == CHOOSE f : Fits(f, Len(records))
<1>1. Replay(copy, records) = it[Len(records)]
  BY DEF Replay
<1>2. Fits(it, Len(records))
  <2> DEFINE G == {n \in Nat : \E f : Fits(f, n)}
  <2>1. 0 \in G
    <3> DEFINE f == [i \in 0 .. 0 |-> [array |-> copy, deleted |-> 0]]
    <3>1. \A i \in 0 .. 0 : i = 0
      OBVIOUS
    <3>2. Fits(f, 0)
      BY <3>1
    <3> HIDE DEF f, Fits
    <3> QED
      BY <3>2
  <2>2. ASSUME NEW n \in Nat, n \in G PROVE n + 1 \in G
    <3>1. PICK f : Fits(f, n)
      BY <2>2
    <3> DEFINE g == [i \in 0 .. n + 1 |-> IF i = n + 1 THEN Repeat(f[n], records[n + 1]) ELSE f[i]]
    <3>2. ASSUME NEW i \in 0 .. n + 1
          PROVE  g[i] = IF i = 0 THEN [array |-> copy, deleted |-> 0] ELSE Repeat(g[i - 1], records[i])
      <4>1. CASE i = n + 1
        <5>1. i # 0 /\ i - 1 = n /\ n \in 0 .. n + 1 /\ n # n + 1
          BY <4>1
        <5>2. g[i - 1] = f[n]
          BY <5>1
        <5>3. g[i] = Repeat(f[n], records[n + 1])
          BY <4>1
        <5> HIDE DEF g
        <5> QED
          BY <4>1, <5>1, <5>2, <5>3
      <4>2. CASE i # n + 1
        <5>1. i \in 0 .. n /\ (i # 0 => i - 1 \in 0 .. n + 1 /\ i - 1 # n + 1)
          BY <4>2
        <5>2. g[i] = f[i] /\ (i # 0 => g[i - 1] = f[i - 1])
          BY <4>2, <5>1
        <5>3. f[i] = IF i = 0 THEN [array |-> copy, deleted |-> 0] ELSE Repeat(f[i - 1], records[i])
          BY <3>1, <5>1
        <5> HIDE DEF g
        <5> QED
          BY <5>2, <5>3
      <4> QED
        BY <4>1, <4>2
    <3>3. g = [i \in 0 .. n + 1 |-> g[i]]
      OBVIOUS
    <3> HIDE DEF g
    <3>4. Fits(g, n + 1)
      BY <3>2, <3>3
    <3> HIDE DEF Fits
    <3> QED
      BY <3>4
  <2>3. Len(records) \in Nat
    BY <1>0
  <2>4. Len(records) \in G
    <3> HIDE DEF G
    <3> QED
      BY <2>1, <2>2, <2>3, Induction
  <2> HIDE DEF Fits
  <2> QED
    BY <2>4
<1>3. it[0] = [array |-> copy, deleted |-> 0] /\ \A i \in 1 .. Len(records) : it[i] = Repeat(it[i - 1], records[i])
  <2> HIDE DEF it
  <2>1. 0 \in 0 .. Len(records) /\ \A i \in 1 .. Len(records) : i \in 0 .. Len(records) /\ i # 0
    OBVIOUS
  <2> QED
    BY <1>2, <2>1
<1> HIDE DEF it, Fits
<1> QED
  BY <1>0, <1>1, <1>3 DEF records

ReplayOf(it, copy, records) ==
    /\ Replay(copy, records) = it[Len(records)]
    /\ it[0] = [array |-> copy, deleted |-> 0]
    /\ \A n \in 1 .. Len(records) : it[n] = Repeat(it[n - 1], records[n])

LEMMA ReplaySteps ==
    ASSUME NEW copy, NEW records \in Seq(Record)
    PROVE  \E it : ReplayOf(it, copy, records)
<1> DEFINE Fits(f, n) == f = [i \in 0 .. n |-> IF i = 0 THEN [array |-> copy, deleted |-> 0] ELSE Repeat(f[i - 1], records[i])]
           it == CHOOSE f : Fits(f, Len(records))
<1>1. Replay(copy, records) = it[Len(records)]
  BY DEF Replay
<1>2. Fits(it, Len(records))
  <2> DEFINE G == {n \in Nat : \E f : Fits(f, n)}
  <2>1. 0 \in G
    <3> DEFINE f == [i \in 0 .. 0 |-> [array |-> copy, deleted |-> 0]]
    <3>1. \A i \in 0 .. 0 : i = 0
      OBVIOUS
    <3>2. Fits(f, 0)
      BY <3>1
    <3> HIDE DEF f, Fits
    <3> QED
      BY <3>2
  <2>2. ASSUME NEW n \in Nat, n \in G PROVE n + 1 \in G
    <3>1. PICK f : Fits(f, n)
      BY <2>2
    <3> DEFINE g == [i \in 0 .. n + 1 |-> IF i = n + 1 THEN Repeat(f[n], records[n + 1]) ELSE f[i]]
    <3>2. ASSUME NEW i \in 0 .. n + 1
          PROVE  g[i] = IF i = 0 THEN [array |-> copy, deleted |-> 0] ELSE Repeat(g[i - 1], records[i])
      <4>1. CASE i = n + 1
        <5>1. i # 0 /\ i - 1 = n /\ n \in 0 .. n + 1 /\ n # n + 1
          BY <4>1
        <5>2. g[i - 1] = f[n]
          BY <5>1
        <5>3. g[i] = Repeat(f[n], records[n + 1])
          BY <4>1
        <5> HIDE DEF g
        <5> QED
          BY <4>1, <5>1, <5>2, <5>3
      <4>2. CASE i # n + 1
        <5>1. i \in 0 .. n /\ (i # 0 => i - 1 \in 0 .. n + 1 /\ i - 1 # n + 1)
          BY <4>2
        <5>2. g[i] = f[i] /\ (i # 0 => g[i - 1] = f[i - 1])
          BY <4>2, <5>1
        <5>3. f[i] = IF i = 0 THEN [array |-> copy, deleted |-> 0] ELSE Repeat(f[i - 1], records[i])
          BY <3>1, <5>1
        <5> HIDE DEF g
        <5> QED
          BY <5>2, <5>3
      <4> QED
        BY <4>1, <4>2
    <3>3. g = [i \in 0 .. n + 1 |-> g[i]]
      OBVIOUS
    <3> HIDE DEF g
    <3>4. Fits(g, n + 1)
      BY <3>2, <3>3
    <3> HIDE DEF Fits
    <3> QED
      BY <3>4
  <2>3. Len(records) \in Nat
    OBVIOUS
  <2>4. Len(records) \in G
    <3> HIDE DEF G
    <3> QED
      BY <2>1, <2>2, <2>3, Induction
  <2> HIDE DEF Fits
  <2> QED
    BY <2>4
<1>3. it[0] = [array |-> copy, deleted |-> 0] /\ \A i \in 1 .. Len(records) : it[i] = Repeat(it[i - 1], records[i])
  <2> HIDE DEF it
  <2>1. 0 \in 0 .. Len(records) /\ \A i \in 1 .. Len(records) : i \in 0 .. Len(records) /\ i # 0
    OBVIOUS
  <2> QED
    BY <1>2, <2>1
<1> HIDE DEF it, Fits
<1>4. ReplayOf(it, copy, records)
  BY <1>1, <1>3 DEF ReplayOf
<1> QED
  BY <1>4

LEMMA ReplayNext ==
    ASSUME NEW copy, NEW records \in Seq(Record), NEW r \in Record
    PROVE  Replay(copy, Append(records, r)) = Repeat(Replay(copy, records), r)
<1> DEFINE more == Append(records, r)
           N == Len(records)
<1>1. N \in Nat /\ more \in Seq(Record) /\ Len(more) = N + 1 /\ more[N + 1] = r
        /\ \A n \in 1 .. N : more[n] = records[n]
  OBVIOUS
<1> HIDE DEF more
<1>2. PICK short : ReplayOf(short, copy, records)
  BY ReplaySteps
<1>3. PICK long : ReplayOf(long, copy, more)
  BY <1>1, ReplaySteps
<1> DEFINE H == {n \in Nat : n <= N => long[n] = short[n]}
<1>4. 0 \in H
  BY <1>2, <1>3 DEF ReplayOf
<1>5. ASSUME NEW n \in Nat, n \in H PROVE n + 1 \in H
  <2> SUFFICES ASSUME n + 1 <= N PROVE long[n + 1] = short[n + 1]
    OBVIOUS
  <2>1. n + 1 \in 1 .. N /\ n + 1 \in 1 .. Len(more) /\ (n + 1) - 1 = n /\ long[n] = short[n]
    BY <1>1, <1>5
  <2>2. long[n + 1] = Repeat(long[n], more[n + 1]) /\ short[n + 1] = Repeat(short[n], records[n + 1])
    BY <1>2, <1>3, <2>1 DEF ReplayOf
  <2>3. more[n + 1] = records[n + 1]
    BY <1>1, <2>1
  <2> QED
    BY <2>1, <2>2, <2>3
<1>6. long[N] = short[N]
  <2>1. N \in H
    <3> HIDE DEF H
    <3> QED
      BY <1>1, <1>4, <1>5, Induction
  <2> QED
    BY <2>1
<1>7. long[N + 1] = Repeat(long[N], r)
  <2>1. N + 1 \in 1 .. Len(more) /\ (N + 1) - 1 = N
    BY <1>1
  <2>2. long[N + 1] = Repeat(long[N], more[N + 1])
    BY <1>3, <2>1 DEF ReplayOf
  <2> QED
    BY <1>1, <2>2
<1>8. Replay(copy, records) = short[N] /\ Replay(copy, more) = long[N + 1]
  BY <1>1, <1>2, <1>3 DEF ReplayOf
<1> QED
  BY <1>6, <1>7, <1>8 DEF more

-----------------------------------------------------------------------------
(* Deletions *)

\* After the first i rows of the old results, the array has the common ones of them
\* and the rows that follow, and whoever repeats the records has the same.
DeletedUpTo(state, old, common, i) ==
    /\ state.common \in 0 .. Len(common)
    /\ \A m \in 1 .. Len(common) : common[m][1] <= i <=> m <= state.common
    /\ state.common <= i
    /\ state.array = [m \in 1 .. (state.common + Len(old) - i) |->
                        IF m <= state.common THEN old[common[m][1]] ELSE old[m - state.common + i]]
    /\ state.records \in Seq(Record)
    /\ Replay(old, state.records) = [array |-> state.array, deleted |-> i - state.common]
    /\ state = [array |-> state.array, records |-> state.records, common |-> state.common]

\* Where a place behind the first k is found when i places count instead of k.
LEMMA PlaceBehind ==
    ASSUME NEW k \in Nat, NEW n \in Nat, NEW i \in Nat, NEW m \in 1 .. (k + n - i), ~(m <= k)
    PROVE  m - k + i \in 1 .. n
OBVIOUS

LEMMA DeleteFacts ==
    ASSUME NEW old \in Seq(Int), NEW new \in Seq(Int), NEW common, Matches(common, old, new),
           NEW i \in Nat, i + 1 <= Len(old), NEW state, DeletedUpTo(state, old, common, i)
    PROVE  DeletedUpTo(Delete(common, state, i + 1), old, common, i + 1)
<1> DEFINE k == state.common
           d == Delete(common, state, i + 1)
           n == Len(old)
<1>0. k \in Nat /\ k <= Len(common) /\ n \in Nat /\ Len(common) \in Nat /\ k <= i
  <2>1. Len(common) \in Nat
    BY DEF Matches
  <2> QED
    BY <2>1 DEF DeletedUpTo
<1>1. \A m \in 1 .. Len(common) : common[m][1] \in 1 .. n /\ (common[m][1] <= i <=> m <= k)
  BY DEF Matches, DeletedUpTo
<1>2. \A l, m \in 1 .. Len(common) : l < m => common[l][1] < common[m][1]
  BY DEF Matches
<1>3. state.array = [m \in 1 .. (k + n - i) |-> IF m <= k THEN old[common[m][1]] ELSE old[m - k + i]]
  BY DEF DeletedUpTo
<1>4. Replay(old, state.records) = [array |-> state.array, deleted |-> i - k] /\ state.records \in Seq(Record)
  BY DEF DeletedUpTo
<1>5. state = [array |-> state.array, records |-> state.records, common |-> k]
  BY DEF DeletedUpTo
<1>6. ASSUME NEW m \in 1 .. (k + n - i)
      PROVE  (IF m <= k THEN old[common[m][1]] ELSE old[m - k + i]) \in Int
  <2>1. CASE m <= k
    <3>1. m \in 1 .. Len(common)
      BY <1>0, <2>1
    <3>2. common[m][1] \in 1 .. n
      BY <1>1, <3>1
    <3> QED
      BY <2>1, <3>2
  <2>2. CASE ~(m <= k)
    <3>1. m - k + i \in 1 .. n
      <4> HIDE DEF k, n
      <4> QED
        BY <1>0, <2>2, PlaceBehind
    <3> QED
      BY <2>2, <3>1
  <2> QED
    BY <2>1, <2>2
<1>7. k + n - i \in Nat
  BY <1>0
<1>8. state.array \in Seq(Int) /\ Len(state.array) = k + n - i
  <2> DEFINE N == k + n - i
  <2>1. N \in Nat /\ state.array \in [1 .. N -> Int]
    BY <1>3, <1>6, <1>7
  <2> HIDE DEF N
  <2>2. state.array \in Seq(Int) /\ Len(state.array) = N
    BY <2>1
  <2> QED
    BY <2>2 DEF N
<1> HIDE DEF k
<1>9. CASE IsCommon(common, state, 1, i + 1)
  <2>1. k < Len(common) /\ common[k + 1][1] = i + 1
    BY <1>9 DEF IsCommon, k
  <2>2. d = [state EXCEPT !.common = @ + 1]
    BY <1>9 DEF Delete
  <2>3. d.common = k + 1 /\ d.array = state.array /\ d.records = state.records
          /\ d = [array |-> d.array, records |-> d.records, common |-> d.common]
    BY <1>5, <2>2 DEF k
  <2> HIDE DEF d
  <2>4. ASSUME NEW m \in 1 .. Len(common) PROVE common[m][1] <= i + 1 <=> m <= k + 1
    <3>1. k + 1 \in 1 .. Len(common)
      BY <1>0, <2>1
    <3>2. CASE m <= k
      <4>1. common[m][1] <= i /\ common[m][1] \in Int
        BY <1>1, <3>2
      <4> QED
        BY <1>0, <3>2, <4>1
    <3>3. CASE m = k + 1
      BY <1>0, <2>1, <3>3
    <3>4. CASE m > k + 1
      <4>1. common[k + 1][1] < common[m][1] /\ common[m][1] \in Int
        BY <1>1, <1>2, <3>1, <3>4
      <4> QED
        BY <1>0, <2>1, <3>4, <4>1
    <3> QED
      BY <1>0, <3>2, <3>3, <3>4
  <2>5. d.array = [m \in 1 .. ((k + 1) + n - (i + 1)) |->
                     IF m <= k + 1 THEN old[common[m][1]] ELSE old[m - (k + 1) + (i + 1)]]
    <3>1. k + n - i = (k + 1) + n - (i + 1)
      BY <1>0
    <3>2. ASSUME NEW m \in 1 .. (k + n - i)
          PROVE  (IF m <= k THEN old[common[m][1]] ELSE old[m - k + i])
                   = (IF m <= k + 1 THEN old[common[m][1]] ELSE old[m - (k + 1) + (i + 1)])
      <4>1. CASE m <= k
        BY <1>0, <4>1
      <4>2. CASE m = k + 1
        <5>1. m - k + i = i + 1 /\ ~(m <= k) /\ m <= k + 1
          BY <1>0, <4>2
        <5> QED
          BY <2>1, <4>2, <5>1
      <4>3. CASE m > k + 1
        <5>1. m - k + i = m - (k + 1) + (i + 1) /\ ~(m <= k) /\ ~(m <= k + 1)
          BY <1>0, <4>3
        <5> QED
          BY <5>1
      <4>4. m <= k \/ m = k + 1 \/ m > k + 1
        BY <1>0
      <4> QED
        BY <4>1, <4>2, <4>3, <4>4
    <3> QED
      BY <1>3, <2>3, <3>1, <3>2
  <2>6. (i + 1) - (k + 1) = i - k /\ k + 1 \in 0 .. Len(common) /\ k + 1 <= i + 1
    BY <1>0, <2>1
  <2>7. Replay(old, d.records) = [array |-> d.array, deleted |-> (i + 1) - d.common]
    BY <1>4, <2>3, <2>6
  <2>8. DeletedUpTo(d, old, common, i + 1)
    <3>1. d.array = [m \in 1 .. (d.common + n - (i + 1)) |->
                       IF m <= d.common THEN old[common[m][1]] ELSE old[m - d.common + (i + 1)]]
      BY <2>3, <2>5
    <3>2. \A m \in 1 .. Len(common) : common[m][1] <= i + 1 <=> m <= d.common
      BY <2>3, <2>4
    <3>3. d.common \in 0 .. Len(common) /\ d.common <= i + 1 /\ d.records \in Seq(Record)
      BY <1>4, <2>3, <2>6
    <3> QED
      BY <2>3, <2>7, <3>1, <3>2, <3>3 DEF DeletedUpTo
  <2> QED
    BY <2>8 DEF d
<1>10. CASE ~IsCommon(common, state, 1, i + 1)
  <2> DEFINE r == [index |-> i + 1, added |-> <<>>]
  <2>1. k < Len(common) => common[k + 1][1] # i + 1
    BY <1>10 DEF IsCommon, k
  <2>2. k + 1 \in 1 .. Len(state.array) /\ ~(k + 1 > Len(state.array))
    BY <1>0, <1>8
  <2>3. d = [state EXCEPT !.array = RemoveAt(@, k + 1), !.records = Append(@, r)]
    BY <1>10, <2>2 DEF Delete, k
  <2>4. d.common = k /\ d.array = RemoveAt(state.array, k + 1) /\ d.records = Append(state.records, r)
          /\ d = [array |-> d.array, records |-> d.records, common |-> d.common]
    BY <1>5, <2>3 DEF k
  <2>5. r \in Record /\ r.added = <<>> /\ r.index = i + 1
    BY DEF Record
  <2> HIDE DEF d, r
  <2>6. ASSUME NEW m \in 1 .. Len(common) PROVE common[m][1] <= i + 1 <=> m <= k
    <3>1. CASE m <= k
      <4>1. common[m][1] <= i /\ common[m][1] \in Int
        BY <1>1, <3>1
      <4> QED
        BY <1>0, <3>1, <4>1
    <3>2. CASE m = k + 1
      <4>1. ~(common[m][1] <= i) /\ common[m][1] \in Int /\ common[m][1] # i + 1
        BY <1>0, <1>1, <2>1, <3>2
      <4> QED
        BY <1>0, <3>2, <4>1
    <3>3. CASE m > k + 1
      <4>1. k + 1 \in 1 .. Len(common)
        BY <1>0, <3>3
      <4>2. ~(common[k + 1][1] <= i) /\ common[k + 1][1] \in Int /\ common[m][1] \in Int
              /\ common[k + 1][1] < common[m][1]
        BY <1>0, <1>1, <1>2, <3>3, <4>1
      <4> QED
        BY <1>0, <3>3, <4>2
    <3> QED
      BY <1>0, <3>1, <3>2, <3>3
  <2>7. d.array = [m \in 1 .. (k + n - (i + 1)) |->
                     IF m <= k THEN old[common[m][1]] ELSE old[m - k + (i + 1)]]
    <3>1. RemoveAt(state.array, k + 1)
            = [m \in 1 .. (k + n - i) - 1 |-> IF m < k + 1 THEN state.array[m] ELSE state.array[m + 1]]
      BY <1>8, <2>2, RemoveAtFacts
    <3>2. (k + n - i) - 1 = k + n - (i + 1)
      BY <1>0
    <3>3. ASSUME NEW m \in 1 .. (k + n - (i + 1))
          PROVE  (IF m < k + 1 THEN state.array[m] ELSE state.array[m + 1])
                   = (IF m <= k THEN old[common[m][1]] ELSE old[m - k + (i + 1)])
      <4>1. m \in 1 .. (k + n - i) /\ m + 1 \in 1 .. (k + n - i)
        BY <1>0
      <4>2. CASE m <= k
        <5>1. state.array[m] = old[common[m][1]] /\ m < k + 1
          BY <1>0, <1>3, <4>1, <4>2
        <5> QED
          BY <4>2, <5>1
      <4>3. CASE ~(m <= k)
        <5>1. ~(m < k + 1) /\ ~(m + 1 <= k) /\ (m + 1) - k + i = m - k + (i + 1)
          BY <1>0, <4>3
        <5>2. state.array[m + 1] = old[(m + 1) - k + i]
          BY <1>3, <4>1, <5>1
        <5> QED
          BY <4>3, <5>1, <5>2
      <4> QED
        BY <4>2, <4>3
    <3> QED
      BY <2>4, <3>1, <3>2, <3>3
  <2>8. Replay(old, d.records) = [array |-> d.array, deleted |-> (i + 1) - k]
    <3>1. Replay(old, d.records) = Repeat([array |-> state.array, deleted |-> i - k], r)
      BY <1>4, <2>4, <2>5, ReplayNext
    <3>2. Repeat([array |-> state.array, deleted |-> i - k], r)
            = [array |-> RemoveAt(state.array, (i + 1) - (i - k)), deleted |-> (i - k) + 1]
      BY <2>5 DEF Repeat
    <3>3. (i + 1) - (i - k) = k + 1 /\ (i - k) + 1 = (i + 1) - k
      BY <1>0
    <3> QED
      BY <2>4, <3>1, <3>2, <3>3
  <2>9. d.records \in Seq(Record) /\ k \in 0 .. Len(common) /\ k <= i + 1
    BY <1>0, <1>4, <2>4, <2>5
  <2>10. DeletedUpTo(d, old, common, i + 1)
    BY <2>4, <2>6, <2>7, <2>8, <2>9 DEF DeletedUpTo
  <2> QED
    BY <2>10 DEF d
<1> QED
  BY <1>9, <1>10
LEMMA DeletionsFacts ==
    ASSUME NEW old \in Seq(Int), NEW new \in Seq(Int), NEW common, Matches(common, old, new)
    PROVE  DeletedUpTo(Deletions(old, common, Apply(old)), old, common, Len(old))
<1> DEFINE Fits(f, n) == f = [i \in 0 .. n |-> IF i = 0 THEN Apply(old) ELSE Delete(common, f[i - 1], i)]
           it == CHOOSE f : Fits(f, Len(old))
<1>1. Deletions(old, common, Apply(old)) = it[Len(old)]
  BY DEF Deletions
<1>2. Fits(it, Len(old))
  <2> DEFINE G == {n \in Nat : \E f : Fits(f, n)}
  <2>1. 0 \in G
    <3> DEFINE f == [i \in 0 .. 0 |-> Apply(old)]
    <3>1. \A i \in 0 .. 0 : i = 0
      OBVIOUS
    <3>2. Fits(f, 0)
      BY <3>1
    <3> HIDE DEF f, Fits
    <3> QED
      BY <3>2
  <2>2. ASSUME NEW n \in Nat, n \in G PROVE n + 1 \in G
    <3>1. PICK f : Fits(f, n)
      BY <2>2
    <3> DEFINE g == [i \in 0 .. n + 1 |-> IF i = n + 1 THEN Delete(common, f[n], n + 1) ELSE f[i]]
    <3>2. ASSUME NEW i \in 0 .. n + 1
          PROVE  g[i] = IF i = 0 THEN Apply(old) ELSE Delete(common, g[i - 1], i)
      <4>1. CASE i = n + 1
        <5>1. i # 0 /\ i - 1 = n /\ n \in 0 .. n + 1 /\ n # n + 1
          BY <4>1
        <5>2. g[i - 1] = f[n]
          BY <5>1
        <5>3. g[i] = Delete(common, f[n], n + 1)
          BY <4>1
        <5> HIDE DEF g
        <5> QED
          BY <4>1, <5>1, <5>2, <5>3
      <4>2. CASE i # n + 1
        <5>1. i \in 0 .. n /\ (i # 0 => i - 1 \in 0 .. n + 1 /\ i - 1 # n + 1)
          BY <4>2
        <5>2. g[i] = f[i] /\ (i # 0 => g[i - 1] = f[i - 1])
          BY <4>2, <5>1
        <5>3. f[i] = IF i = 0 THEN Apply(old) ELSE Delete(common, f[i - 1], i)
          BY <3>1, <5>1
        <5> HIDE DEF g
        <5> QED
          BY <5>2, <5>3
      <4> QED
        BY <4>1, <4>2
    <3>3. g = [i \in 0 .. n + 1 |-> g[i]]
      OBVIOUS
    <3> HIDE DEF g
    <3>4. Fits(g, n + 1)
      BY <3>2, <3>3
    <3> HIDE DEF Fits
    <3> QED
      BY <3>4
  <2>3. Len(old) \in Nat
    OBVIOUS
  <2>4. Len(old) \in G
    <3> HIDE DEF G
    <3> QED
      BY <2>1, <2>2, <2>3, Induction
  <2> HIDE DEF Fits
  <2> QED
    BY <2>4
<1>3. it[0] = Apply(old) /\ \A i \in 1 .. Len(old) : it[i] = Delete(common, it[i - 1], i)
  <2> HIDE DEF it
  <2>1. 0 \in 0 .. Len(old) /\ \A i \in 1 .. Len(old) : i \in 0 .. Len(old) /\ i # 0
    OBVIOUS
  <2> QED
    BY <1>2, <2>1
<1> HIDE DEF it, Fits
<1> DEFINE H == {n \in Nat : n <= Len(old) => DeletedUpTo(it[n], old, common, n)}
<1>4. 0 \in H
  <2> DEFINE s == Apply(old)
  <2>1. s.array = old /\ s.records = <<>> /\ s.common = 0
          /\ s = [array |-> s.array, records |-> s.records, common |-> s.common]
    BY DEF Apply
  <2> HIDE DEF s
  <2>2. ASSUME NEW m \in 1 .. Len(common) PROVE common[m][1] <= 0 <=> m <= 0
    <3>1. common[m][1] \in 1 .. Len(old)
      BY DEF Matches
    <3>2. m \in 1 .. Len(common) /\ Len(common) \in Nat
      BY DEF Matches
    <3> QED
      BY <3>1, <3>2
  <2>3. old = [m \in 1 .. (0 + Len(old) - 0) |-> IF m <= 0 THEN old[common[m][1]] ELSE old[m - 0 + 0]]
    <3>1. 0 + Len(old) - 0 = Len(old) /\ \A m \in 1 .. Len(old) : ~(m <= 0) /\ m - 0 + 0 = m
      OBVIOUS
    <3>2. old = [m \in 1 .. Len(old) |-> old[m]]
      OBVIOUS
    <3> QED
      BY <3>1, <3>2
  <2>4. <<>> \in Seq(Record) /\ 0 \in 0 .. Len(common) /\ 0 - 0 = 0
    BY DEF Matches
  <2>5. DeletedUpTo(s, old, common, 0)
    BY <2>1, <2>2, <2>3, <2>4, ReplayStart DEF DeletedUpTo
  <2>6. DeletedUpTo(it[0], old, common, 0)
    BY <1>3, <2>5 DEF s
  <2> QED
    BY <2>6
<1>5. ASSUME NEW n \in Nat, n \in H PROVE n + 1 \in H
  <2> SUFFICES ASSUME n + 1 <= Len(old) PROVE DeletedUpTo(it[n + 1], old, common, n + 1)
    OBVIOUS
  <2>1. n + 1 \in 1 .. Len(old) /\ (n + 1) - 1 = n
    OBVIOUS
  <2>2. it[n + 1] = Delete(common, it[n], n + 1)
    BY <1>3, <2>1
  <2>3. DeletedUpTo(it[n], old, common, n)
    BY <1>5, <2>1
  <2> QED
    BY <2>2, <2>3, DeleteFacts
<1>6. Len(old) \in H
  <2>1. Len(old) \in Nat
    OBVIOUS
  <2> HIDE DEF H
  <2> QED
    BY <1>4, <1>5, <2>1, Induction
<1> QED
  BY <1>1, <1>6

-----------------------------------------------------------------------------
(* Insertions *)

\* After the first j rows of the new results, the array begins with them, and the
\* common rows that are not among them follow.
InsertedUpTo(state, old, new, common, j) ==
    /\ state.common \in 0 .. Len(common)
    /\ \A m \in 1 .. Len(common) : common[m][2] <= j <=> m <= state.common
    /\ state.array = [m \in 1 .. (j + Len(common) - state.common) |->
                        IF m <= j THEN new[m] ELSE old[common[m - j + state.common][1]]]
    /\ state.records \in Seq(Record)
    /\ Replay(old, state.records) = [array |-> state.array, deleted |-> Len(old) - Len(common)]
    /\ state = [array |-> state.array, records |-> state.records, common |-> state.common]

LEMMA InsertFacts ==
    ASSUME NEW old \in Seq(Int), NEW new \in Seq(Int), NEW common, Matches(common, old, new),
           NEW j \in Nat, j + 1 <= Len(new), NEW state, InsertedUpTo(state, old, new, common, j)
    PROVE  InsertedUpTo(Insert(new, common, state, j + 1), old, new, common, j + 1)
<1> DEFINE k == state.common
           d == Insert(new, common, state, j + 1)
           K == Len(common)
<1>0. k \in Nat /\ k <= K /\ K \in Nat
  <2>1. Len(common) \in Nat
    BY DEF Matches
  <2> QED
    BY <2>1 DEF InsertedUpTo
<1>1. \A m \in 1 .. K : /\ common[m][1] \in 1 .. Len(old) /\ common[m][2] \in 1 .. Len(new)
                       /\ old[common[m][1]] = new[common[m][2]]
                       /\ (common[m][2] <= j <=> m <= k)
  BY DEF Matches, InsertedUpTo
<1>2. \A l, m \in 1 .. K : l < m => common[l][2] < common[m][2]
  BY DEF Matches
<1>3. state.array = [m \in 1 .. (j + K - k) |-> IF m <= j THEN new[m] ELSE old[common[m - j + k][1]]]
  BY DEF InsertedUpTo
<1>4. Replay(old, state.records) = [array |-> state.array, deleted |-> Len(old) - K]
        /\ state.records \in Seq(Record)
  BY DEF InsertedUpTo
<1>5. state = [array |-> state.array, records |-> state.records, common |-> k]
  BY DEF InsertedUpTo
<1>6. ASSUME NEW m \in 1 .. (j + K - k)
      PROVE  (IF m <= j THEN new[m] ELSE old[common[m - j + k][1]]) \in Int
  <2>1. CASE m <= j
    <3>1. m \in 1 .. Len(new)
      BY <2>1
    <3> QED
      BY <2>1, <3>1
  <2>2. CASE ~(m <= j)
    <3>1. m - j + k \in 1 .. K
      <4> HIDE DEF k, K
      <4> QED
        BY <1>0, <2>2, PlaceBehind
    <3>2. common[m - j + k][1] \in 1 .. Len(old)
      BY <1>1, <3>1
    <3> QED
      BY <2>2, <3>2
  <2> QED
    BY <2>1, <2>2
<1>7. state.array \in Seq(Int) /\ Len(state.array) = j + K - k
  <2> DEFINE N == j + K - k
  <2>0. N \in Nat
    BY <1>0
  <2>1. N \in Nat /\ state.array \in [1 .. N -> Int]
    BY <1>3, <1>6, <2>0
  <2> HIDE DEF N
  <2>2. state.array \in Seq(Int) /\ Len(state.array) = N
    BY <2>1
  <2> QED
    BY <2>2 DEF N
<1>8. j + 1 \in 1 .. Len(new) /\ new[j + 1] \in Int
  OBVIOUS
<1> HIDE DEF k
<1>9. CASE IsCommon(common, state, 2, j + 1)
  <2>1. k < K /\ common[k + 1][2] = j + 1
    BY <1>9 DEF IsCommon, k
  <2>2. d = [state EXCEPT !.common = @ + 1]
    BY <1>9 DEF Insert
  <2>3. d.common = k + 1 /\ d.array = state.array /\ d.records = state.records
          /\ d = [array |-> d.array, records |-> d.records, common |-> d.common]
    BY <1>5, <2>2 DEF k
  <2> HIDE DEF d
  <2>4. ASSUME NEW m \in 1 .. K PROVE common[m][2] <= j + 1 <=> m <= k + 1
    <3>1. k + 1 \in 1 .. K
      BY <1>0, <2>1
    <3>2. CASE m <= k
      <4>1. common[m][2] <= j /\ common[m][2] \in Int
        BY <1>1, <3>2
      <4> QED
        BY <1>0, <3>2, <4>1
    <3>3. CASE m = k + 1
      BY <1>0, <2>1, <3>3
    <3>4. CASE m > k + 1
      <4>1. common[k + 1][2] < common[m][2] /\ common[m][2] \in Int
        BY <1>1, <1>2, <3>1, <3>4
      <4> QED
        BY <1>0, <2>1, <3>4, <4>1
    <3> QED
      BY <1>0, <3>2, <3>3, <3>4
  <2>5. d.array = [m \in 1 .. ((j + 1) + K - d.common) |->
                     IF m <= j + 1 THEN new[m] ELSE old[common[m - (j + 1) + d.common][1]]]
    <3>1. j + K - k = (j + 1) + K - (k + 1)
      BY <1>0
    <3>2. ASSUME NEW m \in 1 .. (j + K - k)
          PROVE  (IF m <= j THEN new[m] ELSE old[common[m - j + k][1]])
                   = (IF m <= j + 1 THEN new[m] ELSE old[common[m - (j + 1) + (k + 1)][1]])
      <4>1. CASE m <= j
        BY <4>1
      <4>2. CASE m = j + 1
        <5>1. m - j + k = k + 1 /\ ~(m <= j) /\ m <= j + 1 /\ k + 1 \in 1 .. K
          BY <1>0, <2>1, <4>2
        <5>2. old[common[k + 1][1]] = new[j + 1]
          BY <1>1, <2>1, <5>1
        <5> QED
          BY <4>2, <5>1, <5>2
      <4>3. CASE m > j + 1
        <5>1. m - j + k = m - (j + 1) + (k + 1) /\ ~(m <= j) /\ ~(m <= j + 1)
          BY <1>0, <4>3
        <5> QED
          BY <5>1
      <4>4. m <= j \/ m = j + 1 \/ m > j + 1
        BY <1>0
      <4> QED
        BY <4>1, <4>2, <4>3, <4>4
    <3> QED
      BY <1>3, <2>3, <3>1, <3>2
  <2>6. k + 1 \in 0 .. K
    BY <1>0, <2>1
  <2>7. \A m \in 1 .. K : common[m][2] <= j + 1 <=> m <= d.common
    BY <2>3, <2>4
  <2>8. d.common \in 0 .. K /\ d.records \in Seq(Record)
          /\ Replay(old, d.records) = [array |-> d.array, deleted |-> Len(old) - K]
    BY <1>4, <2>3, <2>6
  <2>9. InsertedUpTo(d, old, new, common, j + 1)
    BY <2>3, <2>5, <2>7, <2>8 DEF InsertedUpTo
  <2> QED
    BY <2>9 DEF d
<1>10. CASE ~IsCommon(common, state, 2, j + 1)
  <2> DEFINE r == [index |-> j + 1, added |-> << new[j + 1] >>]
  <2>1. k < K => common[k + 1][2] # j + 1
    BY <1>10 DEF IsCommon, k
  <2>2. j + 1 \in 1 .. Len(state.array) + 1
    BY <1>0, <1>7
  <2>3. d = [state EXCEPT !.array = InsertAt(@, j + 1, new[j + 1]), !.records = Append(@, r)]
    BY <1>10 DEF Insert
  <2>4. d.common = k /\ d.array = InsertAt(state.array, j + 1, new[j + 1])
          /\ d.records = Append(state.records, r)
          /\ d = [array |-> d.array, records |-> d.records, common |-> d.common]
    BY <1>5, <2>3 DEF k
  <2>5. r \in Record /\ r.added # <<>> /\ r.added[1] = new[j + 1] /\ r.index = j + 1
    <3>1. << new[j + 1] >> \in {<< v >> : v \in Int} /\ << new[j + 1] >> # <<>>
      BY <1>8
    <3> QED
      BY <3>1 DEF Record
  <2> HIDE DEF d, r
  <2>6. ASSUME NEW m \in 1 .. K PROVE common[m][2] <= j + 1 <=> m <= d.common
    <3>1. CASE m <= k
      <4>1. common[m][2] <= j /\ common[m][2] \in Int
        BY <1>1, <3>1
      <4> QED
        BY <1>0, <2>4, <3>1, <4>1
    <3>2. CASE m = k + 1
      <4>1. ~(common[m][2] <= j) /\ common[m][2] \in Int /\ common[m][2] # j + 1
        BY <1>0, <1>1, <2>1, <3>2
      <4> QED
        BY <1>0, <2>4, <3>2, <4>1
    <3>3. CASE m > k + 1
      <4>1. k + 1 \in 1 .. K
        BY <1>0, <3>3
      <4> DEFINE x == common[k + 1][2]
                 y == common[m][2]
      <4>2. ~(k + 1 <= k) /\ k + 1 < m /\ ~(m <= k)
        BY <1>0, <3>3
      <4>3. x \in 1 .. Len(new) /\ ~(x <= j) /\ y \in 1 .. Len(new)
        BY <1>1, <4>1, <4>2
      <4>4. x < y
        BY <1>2, <4>1, <4>2
      <4> HIDE DEF x, y
      <4>5. ~(y <= j + 1)
        BY <4>3, <4>4
      <4> QED
        BY <2>4, <4>2, <4>5 DEF y
    <3> QED
      BY <1>0, <3>1, <3>2, <3>3
  <2>7. d.array = [m \in 1 .. ((j + 1) + K - d.common) |->
                     IF m <= j + 1 THEN new[m] ELSE old[common[m - (j + 1) + d.common][1]]]
    <3>1. InsertAt(state.array, j + 1, new[j + 1])
            = [m \in 1 .. (j + K - k) + 1 |->
                 IF m < j + 1 THEN state.array[m]
                 ELSE IF m = j + 1 THEN new[j + 1] ELSE state.array[m - 1]]
      <4>1. InsertAt(state.array, j + 1, new[j + 1])
              = [m \in 1 .. Len(state.array) + 1 |->
                   IF m < j + 1 THEN state.array[m]
                   ELSE IF m = j + 1 THEN new[j + 1] ELSE state.array[m - 1]]
        BY <1>7, <1>8, <2>2, InsertAtFacts
      <4> QED
        BY <1>7, <4>1
    <3>2. (j + K - k) + 1 = (j + 1) + K - k
      BY <1>0
    <3>3. ASSUME NEW m \in 1 .. ((j + 1) + K - k)
          PROVE  (IF m < j + 1 THEN state.array[m]
                  ELSE IF m = j + 1 THEN new[j + 1] ELSE state.array[m - 1])
                   = (IF m <= j + 1 THEN new[m] ELSE old[common[m - (j + 1) + k][1]])
      <4>1. CASE m < j + 1
        <5>1. m \in 1 .. (j + K - k) /\ m <= j /\ m <= j + 1
          BY <1>0, <4>1
        <5>2. state.array[m] = new[m]
          BY <1>3, <5>1
        <5> QED
          BY <4>1, <5>1, <5>2
      <4>2. CASE m = j + 1
        BY <4>2
      <4>3. CASE m > j + 1
        <5>1. m - 1 \in 1 .. (j + K - k) /\ ~(m - 1 <= j) /\ ~(m < j + 1) /\ ~(m <= j + 1) /\ m # j + 1
          BY <1>0, <4>3
        <5>2. state.array[m - 1] = old[common[(m - 1) - j + k][1]]
          BY <1>3, <5>1
        <5>3. (m - 1) - j + k = m - (j + 1) + k
          BY <1>0
        <5> QED
          BY <5>1, <5>2, <5>3
      <4>4. m < j + 1 \/ m = j + 1 \/ m > j + 1
        BY <1>0
      <4> QED
        BY <4>1, <4>2, <4>3, <4>4
    <3> QED
      BY <2>4, <3>1, <3>2, <3>3
  <2>8. Replay(old, d.records) = [array |-> d.array, deleted |-> Len(old) - K]
    <3>1. Replay(old, d.records) = Repeat([array |-> state.array, deleted |-> Len(old) - K], r)
      BY <1>4, <2>4, <2>5, ReplayNext
    <3>2. Repeat([array |-> state.array, deleted |-> Len(old) - K], r)
            = [array |-> InsertAt(state.array, j + 1, new[j + 1]), deleted |-> Len(old) - K]
      BY <2>5 DEF Repeat
    <3> QED
      BY <2>4, <3>1, <3>2
  <2>9. d.records \in Seq(Record) /\ d.common \in 0 .. K
    BY <1>0, <1>4, <2>4, <2>5
  <2>10. InsertedUpTo(d, old, new, common, j + 1)
    BY <2>4, <2>6, <2>7, <2>8, <2>9 DEF InsertedUpTo
  <2> QED
    BY <2>10 DEF d
<1> QED
  BY <1>9, <1>10

LEMMA InsertionsFacts ==
    ASSUME NEW old \in Seq(Int), NEW new \in Seq(Int), NEW common, Matches(common, old, new),
           NEW state, DeletedUpTo(state, old, common, Len(old))
    PROVE  InsertedUpTo(Insertions(new, common, state), old, new, common, Len(new))
<1> DEFINE Fits(f, n) == f = [i \in 0 .. n |-> IF i = 0 THEN [state EXCEPT !.common = 0] ELSE Insert(new, common, f[i - 1], i)]
           it == CHOOSE f : Fits(f, Len(new))
<1>1. Insertions(new, common, state) = it[Len(new)]
  BY DEF Insertions
<1>2. Fits(it, Len(new))
  <2> DEFINE G == {n \in Nat : \E f : Fits(f, n)}
  <2>1. 0 \in G
    <3> DEFINE f == [i \in 0 .. 0 |-> [state EXCEPT !.common = 0]]
    <3>1. \A i \in 0 .. 0 : i = 0
      OBVIOUS
    <3>2. Fits(f, 0)
      BY <3>1
    <3> HIDE DEF f, Fits
    <3> QED
      BY <3>2
  <2>2. ASSUME NEW n \in Nat, n \in G PROVE n + 1 \in G
    <3>1. PICK f : Fits(f, n)
      BY <2>2
    <3> DEFINE g == [i \in 0 .. n + 1 |-> IF i = n + 1 THEN Insert(new, common, f[n], n + 1) ELSE f[i]]
    <3>2. ASSUME NEW i \in 0 .. n + 1
          PROVE  g[i] = IF i = 0 THEN [state EXCEPT !.common = 0] ELSE Insert(new, common, g[i - 1], i)
      <4>1. CASE i = n + 1
        <5>1. i # 0 /\ i - 1 = n /\ n \in 0 .. n + 1 /\ n # n + 1
          BY <4>1
        <5>2. g[i - 1] = f[n]
          BY <5>1
        <5>3. g[i] = Insert(new, common, f[n], n + 1)
          BY <4>1
        <5> HIDE DEF g
        <5> QED
          BY <4>1, <5>1, <5>2, <5>3
      <4>2. CASE i # n + 1
        <5>1. i \in 0 .. n /\ (i # 0 => i - 1 \in 0 .. n + 1 /\ i - 1 # n + 1)
          BY <4>2
        <5>2. g[i] = f[i] /\ (i # 0 => g[i - 1] = f[i - 1])
          BY <4>2, <5>1
        <5>3. f[i] = IF i = 0 THEN [state EXCEPT !.common = 0] ELSE Insert(new, common, f[i - 1], i)
          BY <3>1, <5>1
        <5> HIDE DEF g
        <5> QED
          BY <5>2, <5>3
      <4> QED
        BY <4>1, <4>2
    <3>3. g = [i \in 0 .. n + 1 |-> g[i]]
      OBVIOUS
    <3> HIDE DEF g
    <3>4. Fits(g, n + 1)
      BY <3>2, <3>3
    <3> HIDE DEF Fits
    <3> QED
      BY <3>4
  <2>3. Len(new) \in Nat
    OBVIOUS
  <2>4. Len(new) \in G
    <3> HIDE DEF G
    <3> QED
      BY <2>1, <2>2, <2>3, Induction
  <2> HIDE DEF Fits
  <2> QED
    BY <2>4
<1>3. it[0] = [state EXCEPT !.common = 0] /\ \A i \in 1 .. Len(new) : it[i] = Insert(new, common, it[i - 1], i)
  <2> HIDE DEF it
  <2>1. 0 \in 0 .. Len(new) /\ \A i \in 1 .. Len(new) : i \in 0 .. Len(new) /\ i # 0
    OBVIOUS
  <2> QED
    BY <1>2, <2>1
<1> HIDE DEF it, Fits
<1> DEFINE H == {n \in Nat : n <= Len(new) => InsertedUpTo(it[n], old, new, common, n)}
           K == Len(common)
<1>4. 0 \in H
  <2> DEFINE s == [state EXCEPT !.common = 0]
  <2>0. K \in Nat /\ Len(old) \in Nat /\ state.common \in 0 .. K
    BY DEF Matches, DeletedUpTo
  <2>1. s.array = state.array /\ s.records = state.records /\ s.common = 0
          /\ s = [array |-> s.array, records |-> s.records, common |-> s.common]
    <3> DEFINE A == state.array
               R == state.records
               C == state.common
    <3>1. state = [array |-> A, records |-> R, common |-> C]
      BY DEF DeletedUpTo
    <3> HIDE DEF A, R, C
    <3>2. s = [array |-> A, records |-> R, common |-> 0]
      BY <3>1
    <3> HIDE DEF s
    <3>3. s.array = A /\ s.records = R /\ s.common = 0
            /\ s = [array |-> s.array, records |-> s.records, common |-> s.common]
      BY <3>2
    <3> QED
      BY <3>3 DEF A, R
  <2> HIDE DEF s
  <2>2. state.common = K
    <3>1. CASE K = 0
      BY <2>0, <3>1
    <3>2. CASE K # 0
      <4>1. K \in 1 .. K
        BY <2>0, <3>2
      <4>2. common[K][1] <= Len(old)
        BY <2>0, <4>1 DEF Matches
      <4>3. K <= state.common
        BY <4>1, <4>2 DEF DeletedUpTo
      <4> QED
        BY <2>0, <4>3
    <3> QED
      BY <3>1, <3>2
  <2>3. ASSUME NEW m \in 1 .. K PROVE common[m][2] <= 0 <=> m <= 0
    <3>1. common[m][2] \in 1 .. Len(new)
      BY DEF Matches
    <3> QED
      BY <2>0, <3>1
  <2>4. s.array = [m \in 1 .. (0 + K - 0) |-> IF m <= 0 THEN new[m] ELSE old[common[m - 0 + 0][1]]]
    <3>1. 0 + K - 0 = K /\ K + Len(old) - Len(old) = K
      BY <2>0
    <3>2. \A m \in 1 .. K : m <= K /\ ~(m <= 0) /\ m - 0 + 0 = m
      BY <2>0
    <3>3. state.array = [m \in 1 .. (K + Len(old) - Len(old)) |->
                           IF m <= K THEN old[common[m][1]] ELSE old[m - K + Len(old)]]
      BY <2>2 DEF DeletedUpTo
    <3> QED
      BY <2>1, <3>1, <3>2, <3>3
  <2>5. s.records \in Seq(Record) /\ 0 \in 0 .. K
          /\ Replay(old, s.records) = [array |-> s.array, deleted |-> Len(old) - K]
    BY <2>0, <2>1, <2>2 DEF DeletedUpTo
  <2>6. InsertedUpTo(s, old, new, common, 0)
    BY <2>1, <2>3, <2>4, <2>5 DEF InsertedUpTo
  <2>7. InsertedUpTo(it[0], old, new, common, 0)
    BY <1>3, <2>6 DEF s
  <2> QED
    BY <2>7
<1>5. ASSUME NEW n \in Nat, n \in H PROVE n + 1 \in H
  <2> SUFFICES ASSUME n + 1 <= Len(new) PROVE InsertedUpTo(it[n + 1], old, new, common, n + 1)
    OBVIOUS
  <2>1. n + 1 \in 1 .. Len(new) /\ (n + 1) - 1 = n
    OBVIOUS
  <2>2. it[n + 1] = Insert(new, common, it[n], n + 1)
    BY <1>3, <2>1
  <2>3. InsertedUpTo(it[n], old, new, common, n)
    BY <1>5, <2>1
  <2> QED
    BY <2>2, <2>3, InsertFacts
<1>6. Len(new) \in H
  <2>1. Len(new) \in Nat
    OBVIOUS
  <2> HIDE DEF H
  <2> QED
    BY <1>4, <1>5, <2>1, Induction
<1> QED
  BY <1>1, <1>6

-----------------------------------------------------------------------------
(* What the difference does *)

\* The array has the new results, and so has a copy of the old ones on which the
\* records are repeated; if there are none, nothing was different.
LEMMA DifferenceFacts ==
    ASSUME NEW old \in Seq(Int), NEW new \in Seq(Int)
    PROVE  LET diff == ApplyDiff(old, old, new)
           IN  /\ diff.array = new
               /\ Repeated(old, diff.records) = new
               /\ diff.records = <<>> => old = new
<1> DEFINE common == CommonSubsequence(old, new)
           diff == ApplyDiff(old, old, new)
           K == Len(common)
<1>1. Matches(common, old, new)
  BY CommonFacts
<1>2. diff = Insertions(new, common, Deletions(old, common, Apply(old)))
  BY DEF ApplyDiff
<1> HIDE DEF common, diff
<1>3. InsertedUpTo(diff, old, new, common, Len(new))
  BY <1>1, <1>2, DeletionsFacts, InsertionsFacts
<1>4. K \in Nat /\ diff.common \in 0 .. K /\ Len(new) \in Nat
  BY <1>1, <1>3 DEF Matches, InsertedUpTo
<1>5. diff.common = K
  <2>1. CASE K = 0
    BY <1>4, <2>1
  <2>2. CASE K # 0
    <3>1. K \in 1 .. K
      BY <1>4, <2>2
    <3>2. common[K][2] <= Len(new)
      BY <1>1, <1>4, <3>1 DEF Matches
    <3>3. K <= diff.common
      BY <1>3, <3>1, <3>2 DEF InsertedUpTo
    <3> QED
      BY <1>4, <3>3
  <2> QED
    BY <2>1, <2>2
<1>6. diff.array = new
  <2>1. diff.array = [m \in 1 .. (Len(new) + K - K) |->
                        IF m <= Len(new) THEN new[m] ELSE old[common[m - Len(new) + K][1]]]
    BY <1>3, <1>5 DEF InsertedUpTo
  <2>2. Len(new) + K - K = Len(new) /\ \A m \in 1 .. Len(new) : m <= Len(new)
    BY <1>4
  <2>3. new = [m \in 1 .. Len(new) |-> new[m]]
    OBVIOUS
  <2> QED
    BY <2>1, <2>2, <2>3
<1>7. Repeated(old, diff.records) = Replay(old, diff.records).array
  BY DEF Repeated, Replay
<1>8. Replay(old, diff.records).array = diff.array
  BY <1>3 DEF InsertedUpTo
<1>9. diff.records = <<>> => old = new
  <2>1. Replay(old, <<>>).array = old
    BY ReplayStart
  <2> QED
    BY <1>6, <1>8, <2>1
<1> QED
  BY <1>6, <1>7, <1>8, <1>9 DEF diff

-----------------------------------------------------------------------------
(* Clients follow *)

\* The array has the last results, only observers are told anything, and what one
\* has been told amounts to the last results.
FollowInv ==
    /\ view = [q \in Queries |-> [c \in Callbacks |-> view[q][c]]]
    /\ \A q \in Queries : Observed(q) =>
         /\ LastOf(entry[q][1]) \in Seq(Int)
         /\ entry[q][1].observable = LastOf(entry[q][1])
         /\ entry[q][1].observers \subseteq Callbacks
    /\ \A q \in Queries, c \in Callbacks : view[q][c] # NotTold =>
         Observed(q) /\ c \in entry[q][1].observers /\ view[q][c] = << LastOf(entry[q][1]) >>

LEMMA ResultOfType ==
    ASSUME DeliveryInv, NEW t \in TaskIds, Executed(t), NEW q \in QueriesOf(t)
    PROVE  ResultOf(t, q) \in Seq(Int)
<1>1. task[t].queries \in Seq(Item) /\ results[t] \in Seq(Results)
  BY DEF DeliveryInv, Types, Descriptor
<1>2. Len(results[t]) = Len(task[t].queries)
  BY DEF Executed
<1> DEFINE i == CHOOSE i \in DOMAIN task[t].queries : task[t].queries[i].query = q
<1>3. i \in DOMAIN task[t].queries
  BY DEF QueriesOf, ToSet
<1>4. ResultOf(t, q) = results[t][i]
  BY DEF ResultOf
<1> HIDE DEF i
<1>5. i \in 1 .. Len(results[t])
  BY <1>1, <1>2, <1>3
<1>6. results[t][i] \in Results
  BY <1>1, <1>5
<1>7. Results \subseteq Seq(Int)
  BY ResultType DEF Results
<1> QED
  BY <1>4, <1>6, <1>7

LEMMA FollowStep == DeliveryInv /\ FollowInv /\ [Next]_vars => FollowInv'
<1> SUFFICES ASSUME DeliveryInv, FollowInv, [Next]_vars PROVE FollowInv'
  OBVIOUS
<1>0. Entries
  BY DEF DeliveryInv
<1>1. ASSUME UNCHANGED <<entry, view>> PROVE FollowInv'
  BY <1>1 DEF FollowInv, Observed
<1>2. ASSUME NEW q \in Queries, NEW c \in Callbacks, Observe(q, c) PROVE FollowInv'
  <2> DEFINE e == IF Observed(q) THEN entry[q][1] ELSE NewEntry
             f == [e EXCEPT !.observers = @ \cup {c}]
  <2>1. DOMAIN e = {"observers", "observable", "last"}
    BY <1>0 DEF Entries, NewEntry
  <2>2. f.observers = e.observers \cup {c} /\ f.observable = e.observable /\ f.last = e.last
    BY <2>1
  <2>3. entry' = [entry EXCEPT ![q] = << f >>] /\ UNCHANGED view
    BY <1>2 DEF Observe
  <2>4. Observed(q) => e = entry[q][1]
    OBVIOUS
  <2>5. ~Observed(q) => e.observers = {} /\ e.observable = <<>> /\ e.last = <<>>
    BY DEF NewEntry
  <2>6. LastOf(f) = LastOf(e) /\ (~Observed(q) => LastOf(f) = <<>>) /\ <<>> \in Seq(Int)
    BY <2>2, <2>5 DEF LastOf
  <2> HIDE DEF e, f
  <2>7. /\ LastOf(f) \in Seq(Int) /\ f.observable = LastOf(f) /\ f.observers \subseteq Callbacks
        /\ Observed(q) => LastOf(f) = LastOf(entry[q][1]) /\ entry[q][1].observers \subseteq f.observers
    BY <2>2, <2>4, <2>5, <2>6 DEF FollowInv
  <2>8. \A p \in Queries : entry'[p] = IF p = q THEN << f >> ELSE entry[p]
    BY <1>0, <2>3 DEF Entries
  <2>9. << f >> # NoEntry /\ << f >>[1] = f
    BY DEF NoEntry
  <2> QED
    BY <2>3, <2>7, <2>8, <2>9 DEF FollowInv, Observed, LastOf
<1>3. ASSUME NEW q \in Queries, NEW c \in Callbacks, Unobserve(q, c) PROVE FollowInv'
  <2> DEFINE left == entry[q][1].observers \ {c}
             f == [entry[q][1] EXCEPT !.observers = left]
  <2>1. /\ Observed(q) /\ entry' = [entry EXCEPT ![q] = IF left = {} THEN NoEntry ELSE << f >>]
        /\ view' = [view EXCEPT ![q][c] = NotTold]
    BY <1>3 DEF Unobserve
  <2>2. f.observers = left /\ f.observable = entry[q][1].observable /\ f.last = entry[q][1].last
    BY <1>0, <2>1 DEF Entries
  <2>3. LastOf(f) = LastOf(entry[q][1])
    BY <2>2 DEF LastOf
  <2>4. left \subseteq Callbacks /\ \A d \in entry[q][1].observers : d # c => d \in left
    BY <2>1 DEF FollowInv
  <2> HIDE DEF left, f
  <2>5. \A p \in Queries : entry'[p] = IF p = q THEN IF left = {} THEN NoEntry ELSE << f >> ELSE entry[p]
    BY <1>0, <2>1 DEF Entries
  <2>6. \A p \in Queries, d \in Callbacks :
           view'[p][d] = IF p = q /\ d = c THEN NotTold ELSE view[p][d]
    BY <2>1 DEF FollowInv
  <2>7. view' = [p \in Queries |-> [d \in Callbacks |-> view'[p][d]]]
    BY <2>1 DEF FollowInv
  <2>8. << f >> # NoEntry /\ << f >>[1] = f
    BY DEF NoEntry
  <2>9. ASSUME NEW p \in Queries, NEW d \in Callbacks, view'[p][d] # NotTold
        PROVE  /\ entry'[p] # NoEntry /\ d \in entry'[p][1].observers
               /\ view'[p][d] = << LastOf(entry'[p][1]) >>
    <3>1. view'[p][d] = view[p][d] /\ ~(p = q /\ d = c)
      BY <2>6, <2>9
    <3>2. entry[p] # NoEntry /\ d \in entry[p][1].observers /\ view[p][d] = << LastOf(entry[p][1]) >>
      BY <2>9, <3>1 DEF FollowInv, Observed
    <3>3. CASE p = q
      <4>1. d \in left /\ left # {}
        BY <2>4, <3>1, <3>2, <3>3
      <4>2. entry'[p] = << f >>
        BY <2>5, <3>3, <4>1
      <4> QED
        BY <2>2, <2>3, <2>8, <3>1, <3>2, <3>3, <4>1, <4>2
    <3>4. CASE p # q
      BY <2>5, <3>1, <3>2, <3>4
    <3> QED
      BY <3>3, <3>4
  <2>10. ASSUME NEW p \in Queries, entry'[p] # NoEntry
         PROVE  /\ LastOf(entry'[p][1]) \in Seq(Int)
                /\ entry'[p][1].observable = LastOf(entry'[p][1])
                /\ entry'[p][1].observers \subseteq Callbacks
    <3>1. CASE p = q
      <4>1. entry'[p] = << f >>
        BY <2>5, <2>10, <3>1
      <4>2. LastOf(entry[q][1]) \in Seq(Int) /\ entry[q][1].observable = LastOf(entry[q][1])
        BY <2>1 DEF FollowInv
      <4> QED
        BY <2>2, <2>3, <2>4, <2>8, <4>1, <4>2
    <3>2. CASE p # q
      <4>1. entry'[p] = entry[p]
        BY <2>5, <3>2
      <4> QED
        BY <2>10, <4>1 DEF FollowInv, Observed
    <3> QED
      BY <3>1, <3>2
  <2> QED
    BY <2>7, <2>9, <2>10 DEF FollowInv, Observed, LastOf
<1>4. ASSUME NEW t \in TaskIds, ReadCommitted(t) PROVE FollowInv'
  <2> DEFINE updated == {q \in QueriesOf(t) : Observed(q)}
             new(q) == ResultOf(t, q)
  <2>1. PICK diff \in {[q \in updated |-> DiffOf(entry[q][1], ResultOf(t, q))]} :
           /\ entry' = [q \in Queries |-> IF q \in updated
                            THEN << Updated(entry[q][1], diff[q], ResultOf(t, q)) >> ELSE entry[q]]
           /\ view' = [q \in Queries |-> [c \in Callbacks |->
                 IF q \in updated /\ c \in entry[q][1].observers /\ diff[q].records # <<>>
                 THEN Told(view[q][c], diff[q]) ELSE view[q][c]]]
    BY <1>4 DEF ReadCommitted
  <2>2. Executed(t)
    BY <1>4 DEF ReadCommitted
  <2>3. ASSUME NEW q \in Queries, q \notin updated
        PROVE  entry'[q] = entry[q] /\ \A c \in Callbacks : view'[q][c] = view[q][c]
    BY <2>1, <2>3
  <2>4. ASSUME NEW q \in Queries, q \in updated
        PROVE  \E e : /\ entry'[q] = << e >> /\ e.observers = entry[q][1].observers
                      /\ e.observable = new(q) /\ e.last = << new(q) >> /\ new(q) \in Seq(Int)
                      /\ \A c \in Callbacks : view[q][c] # NotTold \/ view'[q][c] # NotTold =>
                           c \in e.observers /\ view'[q][c] = << new(q) >>
    <3> DEFINE old == LastOf(entry[q][1])
               D == diff[q]
               e == Updated(entry[q][1], D, new(q))
    <3>1. Observed(q) /\ q \in QueriesOf(t)
      BY <2>4
    <3>2. old \in Seq(Int) /\ entry[q][1].observable = old
      BY <3>1 DEF FollowInv
    <3>3. new(q) \in Seq(Int)
      BY <2>2, <3>1, ResultOfType
    <3>4. D = ApplyDiff(old, old, new(q))
      <4>1. D = DiffOf(entry[q][1], ResultOf(t, q))
        BY <2>1, <2>4
      <4> QED
        BY <3>2, <4>1 DEF DiffOf
    <3>5. entry'[q] = << e >>
      BY <2>1, <2>4
    <3>6. \A c \in Callbacks :
             view'[q][c] = IF c \in entry[q][1].observers /\ D.records # <<>>
                           THEN Told(view[q][c], D) ELSE view[q][c]
      BY <2>1, <2>4
    <3>7. DOMAIN entry[q][1] = {"observers", "observable", "last"}
      BY <1>0, <3>1 DEF Entries
    <3>8. e.observers = entry[q][1].observers /\ e.observable = D.array /\ e.last = << new(q) >>
      BY <3>7 DEF Updated
    <3> HIDE DEF D, e, old, new, updated
    <3>9. D.array = new(q) /\ Repeated(old, D.records) = new(q) /\ (D.records = <<>> => old = new(q))
      BY <3>2, <3>3, <3>4, DifferenceFacts
    <3>10. ASSUME NEW c \in Callbacks, view[q][c] # NotTold \/ view'[q][c] # NotTold
           PROVE  c \in entry[q][1].observers /\ view'[q][c] = << new(q) >>
      <4>1. view[q][c] # NotTold => c \in entry[q][1].observers /\ view[q][c] = << old >>
        BY DEF FollowInv, old
      <4>2. CASE c \in entry[q][1].observers /\ D.records # <<>>
        <5>1. view'[q][c] = Told(view[q][c], D)
          BY <3>6, <4>2
        <5>2. CASE view[q][c] = NotTold
          <6>1. view'[q][c] = << D.array >>
            BY <5>1, <5>2 DEF Told
          <6> QED
            BY <3>9, <4>2, <6>1
        <5>3. CASE view[q][c] # NotTold
          <6>1. view'[q][c] = << Repeated(view[q][c][1], D.records) >>
            BY <5>1, <5>3 DEF Told
          <6>2. view[q][c][1] = old
            BY <4>1, <5>3
          <6> QED
            BY <3>9, <4>2, <6>1, <6>2
        <5> QED
          BY <5>2, <5>3
      <4>3. CASE ~(c \in entry[q][1].observers /\ D.records # <<>>)
        <5>1. view'[q][c] = view[q][c]
          BY <3>6, <4>3
        <5> QED
          BY <3>9, <3>10, <4>1, <4>3, <5>1
      <4> QED
        BY <4>2, <4>3
    <3> QED
      BY <3>3, <3>5, <3>8, <3>9, <3>10
  <2>5. view' = [q \in Queries |-> [c \in Callbacks |-> view'[q][c]]]
    BY <2>1
  <2> HIDE DEF updated, new
  <2>6. ASSUME NEW q \in Queries, entry'[q] # NoEntry
        PROVE  /\ LastOf(entry'[q][1]) \in Seq(Int)
               /\ entry'[q][1].observable = LastOf(entry'[q][1])
               /\ entry'[q][1].observers \subseteq Callbacks
    <3>1. CASE q \notin updated
      BY <2>3, <2>6, <3>1 DEF FollowInv, Observed
    <3>2. CASE q \in updated
      <4>1. PICK e : /\ entry'[q] = << e >> /\ e.observers = entry[q][1].observers
                     /\ e.observable = new(q) /\ e.last = << new(q) >> /\ new(q) \in Seq(Int)
        BY <2>4, <3>2
      <4>2. entry'[q][1] = e /\ LastOf(e) = new(q)
        BY <4>1 DEF LastOf
      <4>3. entry[q][1].observers \subseteq Callbacks
        BY <3>2 DEF FollowInv, updated
      <4> QED
        BY <4>1, <4>2, <4>3
    <3> QED
      BY <3>1, <3>2
  <2>7. ASSUME NEW q \in Queries, NEW c \in Callbacks, view'[q][c] # NotTold
        PROVE  /\ entry'[q] # NoEntry /\ c \in entry'[q][1].observers
               /\ view'[q][c] = << LastOf(entry'[q][1]) >>
    <3>1. CASE q \notin updated
      BY <2>3, <2>7, <3>1 DEF FollowInv, Observed
    <3>2. CASE q \in updated
      <4>1. PICK e : /\ entry'[q] = << e >> /\ e.last = << new(q) >>
                     /\ \A d \in Callbacks : view[q][d] # NotTold \/ view'[q][d] # NotTold =>
                           d \in e.observers /\ view'[q][d] = << new(q) >>
        BY <2>4, <3>2
      <4>2. entry'[q][1] = e /\ LastOf(e) = new(q) /\ entry'[q] # NoEntry
        BY <4>1 DEF LastOf, NoEntry
      <4> QED
        BY <2>7, <4>1, <4>2
    <3> QED
      BY <3>1, <3>2
  <2> QED
    BY <2>5, <2>6, <2>7 DEF FollowInv, Observed, LastOf
<1> QED BY <1>1, <1>2, <1>3, <1>4
     DEF Next, Step, vars, Bind, ExecSelect, ExecWrite, Import, Schedule, Start, ExecPlan, ChangeRows,
         ImportRefused, ImportEnds, WriteFailed, WriteCommitted, ReadFailed, Finish

\* The observed array has the last results, and whoever repeats what the callbacks are
\* told has them, too, for all tables, contents, queries and interleavings.
THEOREM ClientsFollowResults == Spec => []ClientsFollow
<1>1. Init => FollowInv
  <2> SUFFICES ASSUME Init PROVE FollowInv
    OBVIOUS
  <2>1. entry = [q \in Queries |-> NoEntry] /\ view = [q \in Queries |-> [c \in Callbacks |-> NotTold]]
    BY DEF Init
  <2> QED
    BY <2>1 DEF FollowInv, Observed
<1>2. DeliveryInv /\ [Next]_vars => DeliveryInv'
  BY TypesStep, EntriesStep, LocksStep, FreshStep DEF DeliveryInv
<1>3. FollowInv => ClientsFollow
  BY DEF FollowInv, ClientsFollow
<1> QED BY <1>1, <1>2, <1>3, DeliveryInit, FollowStep, PTL DEF Spec
=============================================================================
