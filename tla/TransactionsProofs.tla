------------------------- MODULE TransactionsProofs -------------------------
(***************************************************************************)
(* Proofs about Transactions for every set of transactions and tables: the *)
(* state a client sees, the task the runner has and the journal stay in    *)
(* step, and uncommitted changes stay under their locks.                   *)
(***************************************************************************)
EXTENDS Transactions, TLAPS

-----------------------------------------------------------------------------
(* The inductive invariant *)

\* The task of tx may change the tables in its scope.
IsWriter(tx) == task[tx] \in Descriptor /\ task[tx].type = "READ_WRITE"
InHand(tx) == phase[tx] = "running" /\ exec[tx] = "pending" /\ journal[tx] = "open"

\* What the state of a transaction says of its task.
Lifecycle ==
    \A tx \in Tx :
        /\ state[tx] = "CREATED" => exec[tx] = "pending" /\ callback[tx] = "none"
        /\ state[tx] = "ACQUIRING_SCOPE" =>
              /\ IsWriter(tx) /\ exec[tx] = "pending" /\ journal[tx] = "open"
              /\ \/ callback[tx] = "none" /\ phase[tx] = "waiting"
                 \/ callback[tx] = "acquired" /\ phase[tx] = "running"
        /\ state[tx] = "ACQUIRED_SCOPE" => IsWriter(tx) /\ InHand(tx) /\ callback[tx] = "none"
        /\ state[tx] = "EXECUTING_QUERY" =>
              /\ IsWriter(tx)
              /\ callback[tx] = "failed" \/ (callback[tx] \in {"none", "ran"} /\ InHand(tx))
        /\ state[tx] = "EXECUTING_AND_COMMITTING" =>
              /\ task[tx] \in Descriptor
              /\ callback[tx] = "none"
                    \/ (callback[tx] = "ran" /\ phase[tx] = "running" /\ exec[tx] = "pending")
              /\ phase[tx] = "waiting" =>
                    exec[tx] = "pending" /\ callback[tx] = "none" /\ journal[tx] = "none"
              /\ phase[tx] = "running" /\ exec[tx] = "pending" /\ IsWriter(tx) => journal[tx] = "open"
        /\ state[tx] \in {"COMMITTING", "ROLLING_BACK", "FINALIZED"} => callback[tx] = "none"
        /\ phase[tx] = "waiting" => state[tx] \in {"ACQUIRING_SCOPE", "EXECUTING_AND_COMMITTING"}
        /\ phase[tx] = "settled" => exec[tx] # "pending"
        /\ query[tx].writes # {} => IsWriter(tx)

\* Who has changed a table holds its exclusive lock, unless a rollback threw.
Coverage ==
    \A tx \in Tx : \A t \in Tables : changed[t] = tx =>
        journal[tx] = "broken" \/ (IsWriter(tx) /\ InHand(tx) /\ t \in task[tx].scope)

\* Running tasks do not conflict.
Exclusion ==
    \A tx, u \in Tx :
        tx # u /\ phase[tx] = "running" /\ phase[u] = "running" /\ IsWriter(tx)
            => task[tx].scope \cap task[u].scope = {}

TransactionsInv == TypeOK /\ Lifecycle /\ Coverage /\ Exclusion

-----------------------------------------------------------------------------
(* Steps of the state machine *)

\* What updateState admits.
LEMMA Transitions ==
    ASSUME NEW s \in TransactionState
    PROVE  /\ NextStates(s) \subseteq TransactionState
           /\ "ACQUIRING_SCOPE" \in NextStates(s) => s = "CREATED"
           /\ "EXECUTING_AND_COMMITTING" \in NextStates(s) => s = "CREATED"
           /\ "EXECUTING_QUERY" \in NextStates(s) => s = "ACQUIRED_SCOPE"
           /\ "COMMITTING" \in NextStates(s) => s = "ACQUIRED_SCOPE"
           /\ "ROLLING_BACK" \in NextStates(s) => s = "ACQUIRED_SCOPE"
           /\ "ACQUIRED_SCOPE" \in NextStates(s) <=> s \in {"ACQUIRING_SCOPE", "EXECUTING_QUERY"}
           /\ "FINALIZED" \in NextStates(s) <=>
                 s \in {"EXECUTING_QUERY", "EXECUTING_AND_COMMITTING", "COMMITTING", "ROLLING_BACK"}
BY DEF NextStates, TransactionState

\* Nothing is scheduled, and nothing changed, at the beginning.
LEMMA InitEstablishes == Init => TransactionsInv
<1> SUFFICES ASSUME Init PROVE TransactionsInv
  OBVIOUS
<1> USE NoTxAssumption, UnscheduledAssumption
<1>1. TypeOK
  BY DEF Init, Tasks!Init, TypeOK, TransactionState, NoQuery
<1>2. Lifecycle
  BY DEF Init, Tasks!Init, Lifecycle, NoQuery
<1>3. Coverage
  BY DEF Init, Coverage
<1>4. Exclusion
  BY DEF Init, Tasks!Init, Exclusion
<1> QED BY <1>1, <1>2, <1>3, <1>4 DEF TransactionsInv

-----------------------------------------------------------------------------
(* One lemma for each action *)

\* begin hands a writer with an open journal to the runner.
LEMMA BeginTxPreserves ==
    ASSUME TransactionsInv, NEW x \in Tx, NEW scope \in SUBSET Tables, BeginTx(x, scope)
    PROVE  TransactionsInv'
<1> USE NoTxAssumption, UnscheduledAssumption, Transitions DEF TransactionsInv, BeginTx,
         MoveTo, Tasks!Submit
<1>1. TypeOK'
  BY DEF TypeOK, TransactionState, Descriptor, Query, NoQuery
<1>2. Lifecycle'
  BY DEF TypeOK, Lifecycle, IsWriter, InHand, Descriptor, Query, NoQuery
<1>3. Coverage'
  BY DEF TypeOK, Lifecycle, Coverage, IsWriter, InHand, Descriptor
<1>4. Exclusion'
  BY DEF TypeOK, Lifecycle, Exclusion, IsWriter, Descriptor
<1> QED BY <1>1, <1>2, <1>3, <1>4

\* attach goes from a transaction that has its scope to one that executes.
LEMMA AttachPreserves ==
    ASSUME TransactionsInv, NEW x \in Tx, NEW q \in Query, Attach(x, q)
    PROVE  TransactionsInv'
<1> USE NoTxAssumption, Transitions DEF TransactionsInv, Attach, MoveTo, Executing
<1>1. TypeOK'
  BY DEF TypeOK, TransactionState, Descriptor, Query, NoQuery
<1>2. Lifecycle'
  BY DEF TypeOK, Lifecycle, IsWriter, InHand, Descriptor, Query, NoQuery
<1>3. Coverage'
  BY DEF TypeOK, Lifecycle, Coverage, IsWriter, InHand, Descriptor
<1>4. Exclusion'
  BY DEF TypeOK, Lifecycle, Exclusion, IsWriter, Descriptor
<1> QED BY <1>1, <1>2, <1>3, <1>4

\* A refused attach gives up on the transaction, not on its locks.
LEMMA AttachInvalidPreserves ==
    ASSUME TransactionsInv, NEW x \in Tx, AttachInvalid(x)
    PROVE  TransactionsInv'
<1> USE NoTxAssumption, Transitions DEF TransactionsInv, AttachInvalid
<1>1. TypeOK'
  BY DEF TypeOK, TransactionState, Descriptor, Query, NoQuery
<1>2. Lifecycle'
  BY DEF TypeOK, Lifecycle, IsWriter, InHand, Descriptor, Query, NoQuery
<1>3. Coverage'
  BY DEF TypeOK, Lifecycle, Coverage, IsWriter, InHand, Descriptor
<1>4. Exclusion'
  BY DEF TypeOK, Lifecycle, Exclusion, IsWriter, Descriptor
<1> QED BY <1>1, <1>2, <1>3, <1>4

\* commit needs no change of the task.
LEMMA CommitTxPreserves ==
    ASSUME TransactionsInv, NEW x \in Tx, CommitTx(x)
    PROVE  TransactionsInv'
<1> USE NoTxAssumption, Transitions DEF TransactionsInv, CommitTx, MoveTo
<1>1. TypeOK'
  BY DEF TypeOK, TransactionState, Descriptor, Query, NoQuery
<1>2. Lifecycle'
  BY DEF TypeOK, Lifecycle, IsWriter, InHand, Descriptor, Query, NoQuery
<1>3. Coverage'
  BY DEF TypeOK, Lifecycle, Coverage, IsWriter, InHand, Descriptor
<1>4. Exclusion'
  BY DEF TypeOK, Lifecycle, Exclusion, IsWriter, Descriptor
<1> QED BY <1>1, <1>2, <1>3, <1>4

\* rollback leaves no change behind and the task about to end.
LEMMA RollbackTxPreserves ==
    ASSUME TransactionsInv, NEW x \in Tx, RollbackTx(x)
    PROVE  TransactionsInv'
<1> USE NoTxAssumption, Transitions DEF TransactionsInv, RollbackTx, MoveTo, Settle,
         JournalRollback, End, Unchange, ChangedBy
<1>1. TypeOK'
  BY DEF TypeOK, TransactionState, Descriptor, Query, NoQuery
<1>2. Lifecycle'
  BY DEF TypeOK, Lifecycle, IsWriter, InHand, Descriptor, Query, NoQuery
<1>3. Coverage'
  BY DEF TypeOK, Lifecycle, Coverage, IsWriter, InHand, Descriptor
<1>4. Exclusion'
  BY DEF TypeOK, Lifecycle, Exclusion, IsWriter, Descriptor
<1> QED BY <1>1, <1>2, <1>3, <1>4

\* A rollback that throws breaks the journal and ends nothing.
LEMMA RollbackTxThrowsPreserves ==
    ASSUME TransactionsInv, NEW x \in Tx, RollbackTxThrows(x)
    PROVE  TransactionsInv'
<1> USE NoTxAssumption, Transitions DEF TransactionsInv, RollbackTxThrows, MoveTo,
         JournalRollbackThrows, End, Unchange, ChangedBy
<1>1. TypeOK'
  BY DEF TypeOK, TransactionState, Descriptor, Query, NoQuery
<1>2. Lifecycle'
  BY DEF TypeOK, Lifecycle, IsWriter, InHand, Descriptor, Query, NoQuery
<1>3. Coverage'
  BY DEF TypeOK, Lifecycle, Coverage, IsWriter, InHand, Descriptor
<1>4. Exclusion'
  BY DEF TypeOK, Lifecycle, Exclusion, IsWriter, Descriptor
<1> QED BY <1>1, <1>2, <1>3, <1>4

\* exec hands a task to the runner that writes if its query does.
LEMMA ExecTxPreserves ==
    ASSUME TransactionsInv, NEW x \in Tx, NEW q \in Query, ExecTx(x, q)
    PROVE  TransactionsInv'
<1> USE NoTxAssumption, UnscheduledAssumption, Transitions DEF TransactionsInv, ExecTx,
         MoveTo, Executing, Tasks!Submit
<1>1. TypeOK'
  BY DEF TypeOK, TransactionState, Descriptor, Query, NoQuery
<1>2. Lifecycle'
  BY DEF TypeOK, Lifecycle, IsWriter, InHand, Descriptor, Query, NoQuery
<1>3. Coverage'
  BY DEF TypeOK, Lifecycle, Coverage, IsWriter, InHand, Descriptor
<1>4. Exclusion'
  BY DEF TypeOK, Lifecycle, Exclusion, IsWriter, Descriptor
<1> QED BY <1>1, <1>2, <1>3, <1>4

\* A refused exec has no task.
LEMMA ExecInvalidPreserves ==
    ASSUME TransactionsInv, NEW x \in Tx, ExecInvalid(x)
    PROVE  TransactionsInv'
<1> USE NoTxAssumption, Transitions DEF TransactionsInv, ExecInvalid
<1>1. TypeOK'
  BY DEF TypeOK, TransactionState, Descriptor, Query, NoQuery
<1>2. Lifecycle'
  BY DEF TypeOK, Lifecycle, IsWriter, InHand, Descriptor, Query, NoQuery
<1>3. Coverage'
  BY DEF TypeOK, Lifecycle, Coverage, IsWriter, InHand, Descriptor
<1>4. Exclusion'
  BY DEF TypeOK, Lifecycle, Exclusion, IsWriter, Descriptor
<1> QED BY <1>1, <1>2, <1>3, <1>4

\* A task starts only next to running tasks it does not conflict with.
LEMMA TaskStartsPreserves ==
    ASSUME TransactionsInv, NEW x \in Tx, TaskStarts(x)
    PROVE  TransactionsInv'
<1> USE NoTxAssumption, UnscheduledAssumption DEF TransactionsInv, TaskStarts, Due,
         Tasks!Start, Tasks!Conflict
<1>1. TypeOK'
  BY DEF TypeOK, TransactionState, Descriptor, Query, NoQuery
<1>2. Lifecycle'
  BY DEF TypeOK, Lifecycle, IsWriter, InHand, Descriptor, Query, NoQuery
<1>3. Coverage'
  BY DEF TypeOK, Lifecycle, Coverage, IsWriter, InHand, Descriptor
<1>4. Exclusion'
  BY DEF TypeOK, Lifecycle, Exclusion, IsWriter, Descriptor
<1> QED BY <1>1, <1>2, <1>3, <1>4

\* A table is changed by a transaction that runs with the table in its scope.
LEMMA QueryWritesPreserves ==
    ASSUME TransactionsInv, NEW x \in Tx, NEW written \in Tables, QueryWrites(x, written)
    PROVE  TransactionsInv'
<1> USE NoTxAssumption DEF TransactionsInv, QueryWrites, QueryRuns
<1>1. TypeOK'
  BY DEF TypeOK, TransactionState, Descriptor, Query, NoQuery
<1>2. Lifecycle'
  BY DEF TypeOK, Lifecycle, IsWriter, InHand, Descriptor, Query, NoQuery
<1>3. Coverage'
  BY DEF TypeOK, Lifecycle, Coverage, IsWriter, InHand, Descriptor
<1>4. Exclusion'
  BY DEF TypeOK, Lifecycle, Exclusion, IsWriter, Descriptor
<1> QED BY <1>1, <1>2, <1>3, <1>4

\* A query that ends leaves its changes under the locks.
LEMMA QuerySucceedsPreserves ==
    ASSUME TransactionsInv, NEW x \in Tx, QuerySucceeds(x)
    PROVE  TransactionsInv'
<1> USE NoTxAssumption DEF TransactionsInv, QuerySucceeds, Due, Executing, ChangedBy,
         QueryRuns
<1>1. TypeOK'
  BY DEF TypeOK, TransactionState, Descriptor, Query, NoQuery
<1>2. Lifecycle'
  BY DEF TypeOK, Lifecycle, IsWriter, InHand, Descriptor, Query, NoQuery
<1>3. Coverage'
  BY DEF TypeOK, Lifecycle, Coverage, IsWriter, InHand, Descriptor
<1>4. Exclusion'
  BY DEF TypeOK, Lifecycle, Exclusion, IsWriter, Descriptor
<1> QED BY <1>1, <1>2, <1>3, <1>4

\* A failing query takes the changes of the whole transaction back.
LEMMA AttachedQueryFailsPreserves ==
    ASSUME TransactionsInv, NEW x \in Tx, AttachedQueryFails(x)
    PROVE  TransactionsInv'
<1> USE NoTxAssumption DEF TransactionsInv, AttachedQueryFails, Settle, Due, Executing,
         JournalRollback, End, Unchange, ChangedBy, QueryRuns
<1>1. TypeOK'
  BY DEF TypeOK, TransactionState, Descriptor, Query, NoQuery
<1>2. Lifecycle'
  BY DEF TypeOK, Lifecycle, IsWriter, InHand, Descriptor, Query, NoQuery
<1>3. Coverage'
  BY DEF TypeOK, Lifecycle, Coverage, IsWriter, InHand, Descriptor
<1>4. Exclusion'
  BY DEF TypeOK, Lifecycle, Exclusion, IsWriter, Descriptor
<1> QED BY <1>1, <1>2, <1>3, <1>4

\* The same with a rollback that throws.
LEMMA AttachedQueryFailsBreakingPreserves ==
    ASSUME TransactionsInv, NEW x \in Tx, AttachedQueryFailsBreaking(x)
    PROVE  TransactionsInv'
<1> USE NoTxAssumption DEF TransactionsInv, AttachedQueryFailsBreaking, Due, Executing,
         JournalRollbackThrows, End, Unchange, ChangedBy, QueryRuns
<1>1. TypeOK'
  BY DEF TypeOK, TransactionState, Descriptor, Query, NoQuery
<1>2. Lifecycle'
  BY DEF TypeOK, Lifecycle, IsWriter, InHand, Descriptor, Query, NoQuery
<1>3. Coverage'
  BY DEF TypeOK, Lifecycle, Coverage, IsWriter, InHand, Descriptor
<1>4. Exclusion'
  BY DEF TypeOK, Lifecycle, Exclusion, IsWriter, Descriptor
<1> QED BY <1>1, <1>2, <1>3, <1>4

\* What is stored needs no cover any more.
LEMMA StoreSucceedsPreserves ==
    ASSUME TransactionsInv, NEW x \in Tx, StoreSucceeds(x)
    PROVE  TransactionsInv'
<1> USE NoTxAssumption DEF TransactionsInv, StoreSucceeds, Settle, Due, End, Unchange,
         ChangedBy, StoreIsAsked
<1>1. TypeOK'
  BY DEF TypeOK, TransactionState, Descriptor, Query, NoQuery
<1>2. Lifecycle'
  BY DEF TypeOK, Lifecycle, IsWriter, InHand, Descriptor, Query, NoQuery
<1>3. Coverage'
  BY DEF TypeOK, Lifecycle, Coverage, IsWriter, InHand, Descriptor
<1>4. Exclusion'
  BY DEF TypeOK, Lifecycle, Exclusion, IsWriter, Descriptor
<1> QED BY <1>1, <1>2, <1>3, <1>4

\* A failing commit takes all changes back before the task ends.
LEMMA ExecFailsPreserves ==
    ASSUME TransactionsInv, NEW x \in Tx, ExecFails(x)
    PROVE  TransactionsInv'
<1> USE NoTxAssumption DEF TransactionsInv, ExecFails, Settle, Due, Executing,
         JournalRollback, End, Unchange, ChangedBy, ExecFailing, QueryRuns, StoreIsAsked
<1>1. TypeOK'
  BY DEF TypeOK, TransactionState, Descriptor, Query, NoQuery
<1>2. Lifecycle'
  BY DEF TypeOK, Lifecycle, IsWriter, InHand, Descriptor, Query, NoQuery
<1>3. Coverage'
  BY DEF TypeOK, Lifecycle, Coverage, IsWriter, InHand, Descriptor
<1>4. Exclusion'
  BY DEF TypeOK, Lifecycle, Exclusion, IsWriter, Descriptor
<1> QED BY <1>1, <1>2, <1>3, <1>4

\* The same with a rollback that throws.
LEMMA ExecFailsBreakingPreserves ==
    ASSUME TransactionsInv, NEW x \in Tx, ExecFailsBreaking(x)
    PROVE  TransactionsInv'
<1> USE NoTxAssumption DEF TransactionsInv, ExecFailsBreaking, Settle, Due, Executing,
         JournalRollbackThrows, End, Unchange, ChangedBy, ExecFailing, QueryRuns,
         StoreIsAsked
<1>1. TypeOK'
  BY DEF TypeOK, TransactionState, Descriptor, Query, NoQuery
<1>2. Lifecycle'
  BY DEF TypeOK, Lifecycle, IsWriter, InHand, Descriptor, Query, NoQuery
<1>3. Coverage'
  BY DEF TypeOK, Lifecycle, Coverage, IsWriter, InHand, Descriptor
<1>4. Exclusion'
  BY DEF TypeOK, Lifecycle, Exclusion, IsWriter, Descriptor
<1> QED BY <1>1, <1>2, <1>3, <1>4

\* A task gives its locks back only when its changes are stored or undone.
LEMMA TaskEndsPreserves ==
    ASSUME TransactionsInv, NEW x \in Tx, TaskEnds(x)
    PROVE  TransactionsInv'
<1> USE NoTxAssumption, UnscheduledAssumption DEF TransactionsInv, TaskEnds, Tasks!Finish
<1>1. TypeOK'
  BY DEF TypeOK, TransactionState, Descriptor, Query, NoQuery
<1>2. Lifecycle'
  BY DEF TypeOK, Lifecycle, IsWriter, InHand, Descriptor, Query, NoQuery
<1>3. Coverage'
  BY DEF TypeOK, Lifecycle, Coverage, IsWriter, InHand, Descriptor
<1>4. Exclusion'
  BY DEF TypeOK, Lifecycle, Exclusion, IsWriter, Descriptor
<1> QED BY <1>1, <1>2, <1>3, <1>4

\* The client may use its transaction once the task runs.
LEMMA OnScopeAcquiredPreserves ==
    ASSUME TransactionsInv, NEW x \in Tx, OnScopeAcquired(x)
    PROVE  TransactionsInv'
<1> USE NoTxAssumption, Transitions DEF TransactionsInv, OnScopeAcquired, MoveTo, Due
<1>1. TypeOK'
  BY DEF TypeOK, TransactionState, Descriptor, Query, NoQuery
<1>2. Lifecycle'
  BY DEF TypeOK, Lifecycle, IsWriter, InHand, Descriptor, Query, NoQuery
<1>3. Coverage'
  BY DEF TypeOK, Lifecycle, Coverage, IsWriter, InHand, Descriptor
<1>4. Exclusion'
  BY DEF TypeOK, Lifecycle, Exclusion, IsWriter, Descriptor
<1> QED BY <1>1, <1>2, <1>3, <1>4

\* The client may go on after a query that succeeded.
LEMMA OnQueryRanPreserves ==
    ASSUME TransactionsInv, NEW x \in Tx, OnQueryRan(x)
    PROVE  TransactionsInv'
<1> USE NoTxAssumption, Transitions DEF TransactionsInv, OnQueryRan, MoveTo, Due
<1>1. TypeOK'
  BY DEF TypeOK, TransactionState, Descriptor, Query, NoQuery
<1>2. Lifecycle'
  BY DEF TypeOK, Lifecycle, IsWriter, InHand, Descriptor, Query, NoQuery
<1>3. Coverage'
  BY DEF TypeOK, Lifecycle, Coverage, IsWriter, InHand, Descriptor
<1>4. Exclusion'
  BY DEF TypeOK, Lifecycle, Exclusion, IsWriter, Descriptor
<1> QED BY <1>1, <1>2, <1>3, <1>4

\* The client may not go on after a query that failed.
LEMMA OnQueryFailedPreserves ==
    ASSUME TransactionsInv, NEW x \in Tx, OnQueryFailed(x)
    PROVE  TransactionsInv'
<1> USE NoTxAssumption, Transitions DEF TransactionsInv, OnQueryFailed, MoveTo, Due
<1>1. TypeOK'
  BY DEF TypeOK, TransactionState, Descriptor, Query, NoQuery
<1>2. Lifecycle'
  BY DEF TypeOK, Lifecycle, IsWriter, InHand, Descriptor, Query, NoQuery
<1>3. Coverage'
  BY DEF TypeOK, Lifecycle, Coverage, IsWriter, InHand, Descriptor
<1>4. Exclusion'
  BY DEF TypeOK, Lifecycle, Exclusion, IsWriter, Descriptor
<1> QED BY <1>1, <1>2, <1>3, <1>4

\* The transaction ends after its task.
LEMMA OnTaskSettledPreserves ==
    ASSUME TransactionsInv, NEW x \in Tx, OnTaskSettled(x)
    PROVE  TransactionsInv'
<1> USE NoTxAssumption, Transitions DEF TransactionsInv, OnTaskSettled, MoveTo
<1>1. TypeOK'
  BY DEF TypeOK, TransactionState, Descriptor, Query, NoQuery
<1>2. Lifecycle'
  BY DEF TypeOK, Lifecycle, IsWriter, InHand, Descriptor, Query, NoQuery
<1>3. Coverage'
  BY DEF TypeOK, Lifecycle, Coverage, IsWriter, InHand, Descriptor
<1>4. Exclusion'
  BY DEF TypeOK, Lifecycle, Exclusion, IsWriter, Descriptor
<1> QED BY <1>1, <1>2, <1>3, <1>4

-----------------------------------------------------------------------------
(* Theorems *)

\* Every step keeps the invariant.
LEMMA StepPreserves == TransactionsInv /\ [Next]_vars => TransactionsInv'
<1> SUFFICES ASSUME TransactionsInv, [Next]_vars PROVE TransactionsInv'
  OBVIOUS
<1>1. ASSUME NEW x \in Tx, Client(x) PROVE TransactionsInv'
  BY <1>1, BeginTxPreserves, AttachPreserves, ExecTxPreserves, AttachInvalidPreserves,
     ExecInvalidPreserves, CommitTxPreserves, RollbackTxPreserves, RollbackTxThrowsPreserves
     DEF Client
<1>2. ASSUME NEW x \in Tx, Running(x) PROVE TransactionsInv'
  BY <1>2, QueryWritesPreserves, QuerySucceedsPreserves, AttachedQueryFailsPreserves,
     AttachedQueryFailsBreakingPreserves, StoreSucceedsPreserves, ExecFailsPreserves,
     ExecFailsBreakingPreserves, TaskEndsPreserves DEF Running
<1>3. ASSUME NEW x \in Tx, Callback(x) PROVE TransactionsInv'
  BY <1>3, OnScopeAcquiredPreserves, OnQueryRanPreserves, OnQueryFailedPreserves,
     OnTaskSettledPreserves DEF Callback
<1>4. CASE UNCHANGED vars
  BY <1>4 DEF vars, TransactionsInv, TypeOK, Lifecycle, Coverage, Exclusion, IsWriter, InHand
<1> QED BY <1>1, <1>2, <1>3, <1>4, TaskStartsPreserves DEF Next

\* The state of each transaction, its task, its journal and the tables it changed
\* stay in step.
THEOREM TransactionsInvariant == Spec => []TransactionsInv
<1>1. Init => TransactionsInv
  BY InitEstablishes
<1>2. TransactionsInv /\ [Next]_vars => TransactionsInv'
  BY StepPreserves
<1> QED BY <1>1, <1>2, PTL DEF Spec

\* Every variable stays in its type.
THEOREM TransactionsTypeCorrect == Spec => []TypeOK
<1>1. TransactionsInv => TypeOK
  BY DEF TransactionsInv
<1> QED BY <1>1, TransactionsInvariant, PTL

\* A client that may go on with its transaction does so under its locks and with
\* an open journal.
THEOREM UsableTransactions == Spec => []UsableUnderLock
<1>1. TransactionsInv => UsableUnderLock
  BY DEF TransactionsInv, Lifecycle, UsableUnderLock, InHand
<1> QED BY <1>1, TransactionsInvariant, PTL

\* The invariant covers every change.
LEMMA ChangesCovered == TransactionsInv => ChangesUnderLock
BY NoTxAssumption DEF TransactionsInv, TypeOK, Coverage, ChangesUnderLock, Unfinished, InHand

\* Changes that are neither stored nor undone are covered by the exclusive lock of
\* the transaction that made them.
THEOREM UncommittedCovered == Spec => []ChangesUnderLock
<1> QED BY ChangesCovered, TransactionsInvariant, PTL

\* Within its scope no query sees what another transaction has not committed.
THEOREM ScopeIsolated == Spec => []ScopeSeesOnlyCommitted
<1>1. TransactionsInv => ScopeSeesOnlyCommitted
  <2> SUFFICES ASSUME TransactionsInv, NEW x \in Tx, QueryRuns(x),
                      NEW t \in query[x].reads \cap task[x].scope, Unfinished(t)
               PROVE  changed[t] = x
    BY DEF ScopeSeesOnlyCommitted
  <2>1. task[x] \in Descriptor /\ phase[x] = "running"
    BY DEF TransactionsInv, Lifecycle, IsWriter, QueryRuns
  <2>2. t \in Tables
    BY <2>1 DEF Descriptor
  <2>3. changed[t] \in Tx /\ journal[changed[t]] # "broken"
    BY <2>2, NoTxAssumption DEF TransactionsInv, TypeOK, Unfinished
  <2>4. /\ IsWriter(changed[t]) /\ phase[changed[t]] = "running"
        /\ t \in task[changed[t]].scope
    BY <2>2, <2>3 DEF TransactionsInv, Coverage, InHand
  <2>5. ASSUME changed[t] # x PROVE FALSE
    BY <2>1, <2>3, <2>4, <2>5 DEF TransactionsInv, Exclusion
  <2> QED BY <2>5
<1> QED BY <1>1, TransactionsInvariant, PTL

\* Whatever a client calls, each callback finds the transaction in a state that
\* admits its step.
THEOREM CallbacksLegal == Spec => []CallbacksAreLegal
<1>1. TransactionsInv => CallbacksAreLegal
  <2> SUFFICES ASSUME TransactionsInv, NEW x \in Tx
               PROVE  /\ callback[x] = "acquired" => "ACQUIRED_SCOPE" \in NextStates(state[x])
                      /\ callback[x] = "ran" =>
                            \/ state[x] = "EXECUTING_AND_COMMITTING"
                            \/ "ACQUIRED_SCOPE" \in NextStates(state[x])
                      /\ callback[x] = "failed" => "FINALIZED" \in NextStates(state[x])
                      /\ phase[x] = "settled" =>
                            state[x] = "FINALIZED" \/ "FINALIZED" \in NextStates(state[x])
    BY DEF CallbacksAreLegal
  <2>1. state[x] \in TransactionState
    BY DEF TransactionsInv, TypeOK
  <2>2. /\ callback[x] = "acquired" => state[x] = "ACQUIRING_SCOPE"
        /\ callback[x] = "ran" => state[x] \in {"EXECUTING_QUERY", "EXECUTING_AND_COMMITTING"}
        /\ callback[x] = "failed" => state[x] = "EXECUTING_QUERY"
        /\ phase[x] = "settled" =>
              state[x] \notin {"CREATED", "ACQUIRING_SCOPE", "ACQUIRED_SCOPE"}
    BY <2>1 DEF TransactionsInv, Lifecycle, InHand, TransactionState
  <2> QED BY <2>1, <2>2, Transitions DEF TransactionState
<1> QED BY <1>1, TransactionsInvariant, PTL
=============================================================================
