---------------------------- MODULE Transactions ----------------------------
(***************************************************************************)
(* The transactions clients drive: the states of RuntimeTransaction        *)
(* (lib/proc/runtime_transaction.ts, transaction_state.ts) together with   *)
(* the task each of them schedules, a TransactionTask for begin or a       *)
(* UserQueryTask for exec, and the callbacks between the two.  The Runner  *)
(* is taken by its abstract specification IsolatedTasks, which module      *)
(* Runner implements.  Of a journal only its life is kept; module Journal  *)
(* says what it does to the rows.                                          *)
(***************************************************************************)
EXTENDS FiniteSets

CONSTANTS
    Tx,            \* the RuntimeTransaction objects
    Tables,        \* the tables of the schema
    Unscheduled,   \* the task of a transaction that has none
    NoTx           \* no transaction has changed the table

ASSUME NoTxAssumption == NoTx \notin Tx

Descriptor == [type : {"READ_ONLY", "READ_WRITE"}, scope : SUBSET Tables]
ASSUME UnscheduledAssumption == Unscheduled \notin Descriptor

TransactionState ==
    {"CREATED", "ACQUIRING_SCOPE", "ACQUIRED_SCOPE", "EXECUTING_QUERY",
     "EXECUTING_AND_COMMITTING", "COMMITTING", "ROLLING_BACK", "FINALIZED"}

\* The tables a query reads and those it writes.
Query == {q \in [reads : SUBSET Tables, writes : SUBSET Tables] : q.reads \cup q.writes # {}}
NoQuery == [reads |-> {}, writes |-> {}]

VARIABLES
    state,      \* RuntimeTransaction.state
    task,       \* the descriptor of the task given to the runner
    phase,      \* where the runner is with it
    query,      \* the query being executed
    journal,    \* the journal of the task
    exec,       \* the promise the task's exec returned
    callback,   \* the callback of a promise of the task that is due
    changed     \* for each table, who changed it and has neither stored nor undone it

vars == <<state, task, phase, query, journal, exec, callback, changed>>

Tasks == INSTANCE IsolatedTasks WITH TaskIds <- Tx

ChangedBy(tx) == {t \in Tables : changed[t] = tx}

-----------------------------------------------------------------------------
(* States and journals *)

\* Faulty variant: a transaction may commit while a query is executing.
NextStatesCommitEarly(s) ==
    CASE s = "CREATED" -> {"ACQUIRING_SCOPE", "EXECUTING_AND_COMMITTING"}
      [] s = "ACQUIRING_SCOPE" -> {"ACQUIRED_SCOPE"}
      [] s = "ACQUIRED_SCOPE" -> {"EXECUTING_QUERY", "COMMITTING", "ROLLING_BACK"}
      [] s = "EXECUTING_QUERY" -> {"ACQUIRED_SCOPE", "COMMITTING", "ROLLING_BACK", "FINALIZED"}
      [] OTHER -> {"FINALIZED"}

\* StateTransition.
NextStates(s) ==
    CASE s = "CREATED" -> {"ACQUIRING_SCOPE", "EXECUTING_AND_COMMITTING"}
      [] s = "ACQUIRING_SCOPE" -> {"ACQUIRED_SCOPE"}
      [] s = "ACQUIRED_SCOPE" -> {"EXECUTING_QUERY", "COMMITTING", "ROLLING_BACK"}
      [] s = "EXECUTING_QUERY" -> {"ACQUIRED_SCOPE", "FINALIZED"}
      [] s \in {"EXECUTING_AND_COMMITTING", "COMMITTING", "ROLLING_BACK"} -> {"FINALIZED"}
      [] s = "FINALIZED" -> {}

\* updateState throws, and the call changes nothing, when the step is not legal.
MoveTo(tx, s) ==
    /\ s \in NextStates(state[tx])
    /\ state' = [state EXCEPT ![tx] = s]

Settle(tx, outcome) == exec' = [exec EXCEPT ![tx] = outcome]
Due(tx, name) == callback' = [callback EXCEPT ![tx] = name]
Executing(tx, q) == query' = [query EXCEPT ![tx] = q]

\* The journal of a read-only task does not exist and need not end.
End(tx, how) == journal' = [journal EXCEPT ![tx] = IF @ = "none" THEN "none" ELSE how]
Unchange(tx, tables) == changed' = [t \in Tables |-> IF t \in tables THEN NoTx ELSE changed[t]]

\* Journal.rollback undoes the changes of the transaction.
JournalRollback(tx) == End(tx, "terminated") /\ Unchange(tx, ChangedBy(tx))

\* Journal.rollback throws with some tables not restored: see UndoRowThrows in
\* module Journal.
JournalRollbackThrows(tx) ==
    /\ End(tx, "broken")
    /\ \E restored \in SUBSET ChangedBy(tx) :
           restored # ChangedBy(tx) /\ Unchange(tx, restored)

Init ==
    /\ state = [tx \in Tx |-> "CREATED"]
    /\ Tasks!Init
    /\ query = [tx \in Tx |-> NoQuery]
    /\ journal = [tx \in Tx |-> "none"]
    /\ exec = [tx \in Tx |-> "pending"]
    /\ callback = [tx \in Tx |-> "none"]
    /\ changed = [t \in Tables |-> NoTx]

-----------------------------------------------------------------------------
(* What clients call *)

\* begin: a TransactionTask with its journal is scheduled.
BeginTx(tx, scope) ==
    /\ MoveTo(tx, "ACQUIRING_SCOPE")
    /\ Tasks!Submit(tx, [type |-> "READ_WRITE", scope |-> scope])
    /\ journal' = [journal EXCEPT ![tx] = "open"]
    /\ UNCHANGED <<query, exec, callback, changed>>

\* attach: the query is handed to the task.
Attach(tx, q) ==
    /\ MoveTo(tx, "EXECUTING_QUERY")
    /\ Executing(tx, q)
    /\ UNCHANGED <<task, phase, journal, exec, callback, changed>>

\* attach with a query that is not complete: assertExecPreconditions throws.
AttachInvalid(tx) ==
    /\ "EXECUTING_QUERY" \in NextStates(state[tx])
    /\ state' = [state EXCEPT ![tx] = "FINALIZED"]
    /\ UNCHANGED <<task, phase, query, journal, exec, callback, changed>>

\* commit: the back store is asked to store the journal's changes.
CommitTx(tx) ==
    /\ MoveTo(tx, "COMMITTING")
    /\ UNCHANGED <<task, phase, query, journal, exec, callback, changed>>

RollbackTx(tx) ==
    /\ MoveTo(tx, "ROLLING_BACK")
    /\ JournalRollback(tx)
    /\ Settle(tx, "resolved")
    /\ UNCHANGED <<task, phase, query, callback>>

\* The exception leaves rollback before execResolver is settled.
RollbackTxThrows(tx) ==
    /\ MoveTo(tx, "ROLLING_BACK")
    /\ JournalRollbackThrows(tx)
    /\ UNCHANGED <<task, phase, query, exec, callback>>

\* exec: a UserQueryTask over the queries is scheduled.
ExecTx(tx, q) ==
    /\ MoveTo(tx, "EXECUTING_AND_COMMITTING")
    /\ Tasks!Submit(tx, [type  |-> IF q.writes = {} THEN "READ_ONLY" ELSE "READ_WRITE",
                         scope |-> q.reads \cup q.writes])
    /\ Executing(tx, q)
    /\ UNCHANGED <<journal, exec, callback, changed>>

ExecInvalid(tx) ==
    /\ "EXECUTING_AND_COMMITTING" \in NextStates(state[tx])
    /\ state' = [state EXCEPT ![tx] = "FINALIZED"]
    /\ UNCHANGED <<task, phase, query, journal, exec, callback, changed>>

-----------------------------------------------------------------------------
(* The task *)

\* The runner has the locks and calls exec: a TransactionTask resolves
\* acquireScopeResolver, a UserQueryTask makes its journal if it writes.
TaskStarts(tx) ==
    /\ Tasks!Start(tx)
    /\ IF state[tx] = "ACQUIRING_SCOPE"
       THEN Due(tx, "acquired") /\ UNCHANGED journal
       ELSE /\ journal' = [journal EXCEPT ![tx] =
                             IF task[tx].type = "READ_ONLY" THEN "none" ELSE "open"]
            /\ UNCHANGED callback
    /\ UNCHANGED <<state, query, exec, changed>>

QueryRuns(tx) ==
    /\ state[tx] \in {"EXECUTING_QUERY", "EXECUTING_AND_COMMITTING"}
    /\ phase[tx] = "running" /\ exec[tx] = "pending" /\ callback[tx] = "none"

\* A statement has written a table: the journal admits the tables in scope only,
\* reads are not checked.
QueryWrites(tx, t) ==
    /\ QueryRuns(tx)
    /\ t \in query[tx].writes \cap task[tx].scope
    /\ changed[t] # tx
    /\ changed' = [changed EXCEPT ![t] = tx]
    /\ UNCHANGED <<state, task, phase, query, journal, exec, callback>>

\* The last statement has ended.
QuerySucceeds(tx) ==
    /\ QueryRuns(tx)
    /\ query[tx].writes \subseteq ChangedBy(tx)
    /\ Due(tx, "ran")
    /\ Executing(tx, NoQuery)
    /\ UNCHANGED <<state, task, phase, journal, exec, changed>>

\* Faulty variant: attachQuery does not settle execResolver after a failure.
AttachedQueryFailsPending(tx) ==
    /\ state[tx] = "EXECUTING_QUERY" /\ QueryRuns(tx)
    /\ JournalRollback(tx)
    /\ Due(tx, "failed")
    /\ Executing(tx, NoQuery)
    /\ UNCHANGED <<state, task, phase, exec>>

\* A constraint or the scope refuses the attached query.
AttachedQueryFails(tx) ==
    /\ state[tx] = "EXECUTING_QUERY" /\ QueryRuns(tx)
    /\ JournalRollback(tx)
    /\ Settle(tx, "resolved")
    /\ Due(tx, "failed")
    /\ Executing(tx, NoQuery)
    /\ UNCHANGED <<state, task, phase>>

\* The handler throws before execResolver is settled; attach rejects all the same.
AttachedQueryFailsBreaking(tx) ==
    /\ state[tx] = "EXECUTING_QUERY" /\ QueryRuns(tx)
    /\ JournalRollbackThrows(tx)
    /\ Due(tx, "failed")
    /\ Executing(tx, NoQuery)
    /\ UNCHANGED <<state, task, phase, exec>>

StoreIsAsked(tx) ==
    /\ phase[tx] = "running" /\ exec[tx] = "pending" /\ journal[tx] \in {"none", "open"}
    /\ \/ state[tx] = "COMMITTING"
       \/ state[tx] = "EXECUTING_AND_COMMITTING" /\ callback[tx] = "ran"

\* Faulty variant: the promise of exec resolves before the changes are stored.
StoreSucceedsLate(tx) ==
    /\ StoreIsAsked(tx)
    /\ Settle(tx, "resolved") /\ Due(tx, "none")
    /\ UNCHANGED <<state, task, phase, query, journal, changed>>

\* The back store has stored the changes; the journal is terminated.
StoreSucceeds(tx) ==
    /\ StoreIsAsked(tx)
    /\ End(tx, "terminated") /\ Unchange(tx, ChangedBy(tx))
    /\ Settle(tx, "resolved") /\ Due(tx, "none")
    /\ UNCHANGED <<state, task, phase, query>>

\* The back store or a deferred constraint refuses, or a query of exec fails.
ExecFailing(tx) ==
    \/ StoreIsAsked(tx)
    \/ state[tx] = "EXECUTING_AND_COMMITTING" /\ QueryRuns(tx)

\* Faulty variant: the error handler of commit rolls back and settles nothing.
ExecFailsPending(tx) ==
    /\ ExecFailing(tx)
    /\ JournalRollback(tx)
    /\ Due(tx, "none")
    /\ IF state[tx] = "COMMITTING" THEN UNCHANGED exec ELSE Settle(tx, "rejected")
    /\ Executing(tx, NoQuery)
    /\ UNCHANGED <<state, task, phase>>

ExecFails(tx) ==
    /\ ExecFailing(tx)
    /\ JournalRollback(tx)
    /\ Settle(tx, "rejected") /\ Due(tx, "none")
    /\ Executing(tx, NoQuery)
    /\ UNCHANGED <<state, task, phase>>

\* The same with a rollback that throws: the promise of a UserQueryTask rejects,
\* that of a TransactionTask stays pending.
ExecFailsBreaking(tx) ==
    /\ ExecFailing(tx)
    /\ JournalRollbackThrows(tx)
    /\ IF state[tx] = "COMMITTING" THEN UNCHANGED exec ELSE Settle(tx, "rejected")
    /\ Due(tx, "none")
    /\ Executing(tx, NoQuery)
    /\ UNCHANGED <<state, task, phase>>

\* The runner's handler releases the locks and settles the task's resolver.
TaskEnds(tx) ==
    /\ exec[tx] # "pending"
    /\ Tasks!Finish(tx)
    /\ UNCHANGED <<state, query, journal, exec, callback, changed>>

-----------------------------------------------------------------------------
(* The callbacks of RuntimeTransaction *)

OnScopeAcquired(tx) ==
    /\ callback[tx] = "acquired"
    /\ MoveTo(tx, "ACQUIRED_SCOPE")
    /\ Due(tx, "none")
    /\ UNCHANGED <<task, phase, query, journal, exec, changed>>

OnQueryRan(tx) ==
    /\ state[tx] = "EXECUTING_QUERY" /\ callback[tx] = "ran"
    /\ MoveTo(tx, "ACQUIRED_SCOPE")
    /\ Due(tx, "none")
    /\ UNCHANGED <<task, phase, query, journal, exec, changed>>

\* Faulty variant: one handler for both outcomes of attachQuery.
OnQueryFailedGoesOn(tx) ==
    /\ callback[tx] = "failed"
    /\ MoveTo(tx, "ACQUIRED_SCOPE")
    /\ Due(tx, "none")
    /\ UNCHANGED <<task, phase, query, journal, exec, changed>>

OnQueryFailed(tx) ==
    /\ callback[tx] = "failed"
    /\ MoveTo(tx, "FINALIZED")
    /\ Due(tx, "none")
    /\ UNCHANGED <<task, phase, query, journal, exec, changed>>

\* commit and rollback have a handler for success only, exec for both.
OnTaskSettled(tx) ==
    /\ phase[tx] = "settled"
    /\ \/ state[tx] \in {"COMMITTING", "ROLLING_BACK"} /\ exec[tx] = "resolved"
       \/ state[tx] = "EXECUTING_AND_COMMITTING"
    /\ MoveTo(tx, "FINALIZED")
    /\ UNCHANGED <<task, phase, query, journal, exec, callback, changed>>

-----------------------------------------------------------------------------
(* Specification *)

Client(tx) ==
    \/ \E scope \in SUBSET Tables \ {{}} : BeginTx(tx, scope)
    \/ \E q \in Query : Attach(tx, q) \/ ExecTx(tx, q)
    \/ AttachInvalid(tx) \/ ExecInvalid(tx)
    \/ CommitTx(tx) \/ RollbackTx(tx) \/ RollbackTxThrows(tx)

Running(tx) ==
    \/ \E t \in Tables : QueryWrites(tx, t)
    \/ QuerySucceeds(tx) \/ AttachedQueryFails(tx) \/ AttachedQueryFailsBreaking(tx)
    \/ StoreSucceeds(tx) \/ ExecFails(tx) \/ ExecFailsBreaking(tx)
    \/ TaskEnds(tx)

Callback(tx) ==
    OnScopeAcquired(tx) \/ OnQueryRan(tx) \/ OnQueryFailed(tx) \/ OnTaskSettled(tx)

Next == \E tx \in Tx : Client(tx) \/ TaskStarts(tx) \/ Running(tx) \/ Callback(tx)

\* Queries and the back store answer, the runner starts the tasks it can and its
\* handlers run, callbacks are called.  Clients may stop at any point.
Fairness ==
    \A tx \in Tx : WF_vars(TaskStarts(tx)) /\ WF_vars(Running(tx)) /\ WF_vars(Callback(tx))

Spec == Init /\ [][Next]_vars /\ Fairness

-----------------------------------------------------------------------------
(* Properties *)

\* Every variable stays in its type, and a transaction whose task the runner does
\* not have has no journal.
TypeOK ==
    /\ state \in [Tx -> TransactionState]
    /\ task \in [Tx -> Descriptor \cup {Unscheduled}]
    /\ phase \in [Tx -> {"unscheduled", "waiting", "running", "settled"}]
    /\ query \in [Tx -> Query \cup {NoQuery}]
    /\ journal \in [Tx -> {"none", "open", "terminated", "broken"}]
    /\ exec \in [Tx -> {"pending", "resolved", "rejected"}]
    /\ callback \in [Tx -> {"none", "acquired", "ran", "failed"}]
    /\ changed \in [Tables -> Tx \cup {NoTx}]
    /\ \A tx \in Tx : phase[tx] = "unscheduled" => task[tx] = Unscheduled /\ journal[tx] = "none"

\* While a client may go on with its transaction, the task runs under its locks
\* and the journal is open: no query, commit or rollback meets a terminated
\* journal, which journal.ts asserts.
UsableUnderLock ==
    \A tx \in Tx :
        (state[tx] = "ACQUIRED_SCOPE" \/ (state[tx] = "EXECUTING_QUERY" /\ callback[tx] # "failed"))
            => phase[tx] = "running" /\ journal[tx] = "open" /\ exec[tx] = "pending"

\* Changes in memory that are not stored yet are covered by the exclusive lock of
\* the transaction that made them, until they are stored or undone.  A rollback
\* that threw has given up on them.
Unfinished(t) == changed[t] # NoTx /\ journal[changed[t]] # "broken"
ChangesUnderLock ==
    \A t \in Tables : Unfinished(t) =>
        /\ phase[changed[t]] = "running"
        /\ t \in task[changed[t]].scope
        /\ exec[changed[t]] = "pending"

\* A query sees of the tables in its transaction's scope what is stored and what
\* the transaction changed itself.
ScopeSeesOnlyCommitted ==
    \A tx \in Tx : QueryRuns(tx) =>
        \A t \in query[tx].reads \cap task[tx].scope : Unfinished(t) => changed[t] = tx

\* No callback of a transaction finds it in a state it cannot leave as the
\* callback wants: updateState throws for the calls of a client only.
CallbacksAreLegal ==
    \A tx \in Tx :
        /\ callback[tx] = "acquired" => "ACQUIRED_SCOPE" \in NextStates(state[tx])
        /\ callback[tx] = "ran" =>
               state[tx] = "EXECUTING_AND_COMMITTING" \/ "ACQUIRED_SCOPE" \in NextStates(state[tx])
        /\ callback[tx] = "failed" => "FINALIZED" \in NextStates(state[tx])
        /\ phase[tx] = "settled" => state[tx] = "FINALIZED" \/ "FINALIZED" \in NextStates(state[tx])

\* commit answers, unless a rollback threw: the transaction is finalized or its
\* task has failed.
CommitsAreAnswered ==
    \A tx \in Tx :
        state[tx] = "COMMITTING"
            ~> \/ state[tx] = "FINALIZED"
               \/ phase[tx] = "settled" /\ exec[tx] = "rejected"
               \/ journal[tx] = "broken"

\* A journal that was stored or rolled back takes the locks of its task with it.
TerminatedReleases ==
    \A tx \in Tx : journal[tx] = "terminated" ~> phase[tx] = "settled"

=============================================================================
