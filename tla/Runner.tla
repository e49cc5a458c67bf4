------------------------------- MODULE Runner -------------------------------
(***************************************************************************)
(* lib/proc/runner.ts and the tasks it runs.  JavaScript runs one callback *)
(* to completion, so scheduleTask, onTaskSuccess and onTaskError happen    *)
(* only when no other callback is on the stack; but consumePending calls   *)
(* exec, and the exec of an ExternalChangeTask calls scheduleTask, hence   *)
(* consumePending, again.  `stack' holds the active consumePending loops,  *)
(* the innermost last, and one step visits one task of the innermost loop. *)
(*                                                                         *)
(* TaskQueue keeps its array sorted by (priority, id) and without          *)
(* duplicates, so an array of tasks is modelled as the set of its members  *)
(* together with the order Precedes.                                       *)
(***************************************************************************)
EXTENDS LockManager, Sequences, FiniteSets

CONSTANTS
    ClientKinds,     \* the kinds of task the clients schedule
    ThrowingKinds,   \* the kinds whose exec may throw before it returns a promise
    Scopes,          \* the scopes of the tasks clients schedule, but for import and export
    Observed,        \* the from-clauses (sets of tables) of the observed queries
    MaxClientTasks   \* bound: how many tasks clients schedule

TaskKind == {"EXPORT", "IMPORT", "OBSERVER_QUERY", "EXTERNAL_CHANGE",
             "USER_QUERY", "TRANSACTION"}

ASSUME KindsAssumption ==
    /\ ClientKinds \subseteq TaskKind \ {"OBSERVER_QUERY"}
    /\ ThrowingKinds \subseteq {"IMPORT", "EXTERNAL_CHANGE"}
ASSUME ScopesAssumption == Scopes \subseteq SUBSET Tables
ASSUME ObservedAssumption == Observed \subseteq SUBSET Tables

VARIABLES
    task,       \* the descriptor of each task id
    queue,      \* the tasks in Runner.queue
    lockTable,  \* LockManager.lockTable
    stack,      \* the active consumePending loops
    calls,      \* how many times exec of the task was called
    running,    \* executions whose promise is pending
    resolved,   \* executions whose promise is resolved, onTaskSuccess due
    rejected,   \* executions whose promise is rejected, onTaskError due
    aborted,    \* tasks left behind by an exception that unwound the stack
    resolver    \* the state of each task's Resolver

vars == <<task, queue, lockTable, stack, calls, running, resolved, rejected,
          aborted, resolver>>

-----------------------------------------------------------------------------
(* Tasks *)

Priority(kind) ==
    CASE kind \in {"EXPORT", "IMPORT", "OBSERVER_QUERY"} -> 0
      [] kind = "EXTERNAL_CHANGE" -> 1
      [] OTHER -> 2

\* A UserQueryTask is READ_ONLY when all its queries are selects; every other
\* kind of task has one transaction type.
TypesOf(kind) ==
    CASE kind \in {"EXPORT", "OBSERVER_QUERY"} -> {"READ_ONLY"}
      [] kind = "USER_QUERY" -> {"READ_ONLY", "READ_WRITE"}
      [] OTHER -> {"READ_WRITE"}

ScopesOf(kind) == IF kind \in {"EXPORT", "IMPORT"} THEN {Tables} ELSE Scopes

Task == [kind : TaskKind, type : {"READ_ONLY", "READ_WRITE"}, scope : SUBSET Tables]

Unscheduled == [kind |-> "NONE", type |-> "READ_ONLY", scope |-> {}]

ClientTask ==
    {d \in Task : /\ d.kind \in ClientKinds
                  /\ d.type \in TypesOf(d.kind)
                  /\ d.scope \in ScopesOf(d.kind)}

Scheduled == {t \in TaskIds : task[t] # Unscheduled}

\* UniqueId.getUniqueNumber counts up.
NextTaskId(t) == t \in TaskIds \ Scheduled /\ \A u \in TaskIds \ Scheduled : t <= u

Precedes(t, u) ==
    \/ Priority(task[t].kind) < Priority(task[u].kind)
    \/ Priority(task[t].kind) = Priority(task[u].kind) /\ t < u

\* getTaskItemsForTables, and the combined scope of the plans it returns.
TaskItemsForTables(tables) == {from \in Observed : from \cap tables # {}}

ObserverTask(tables) ==
    [kind |-> "OBSERVER_QUERY", type |-> "READ_ONLY",
     scope |-> UNION TaskItemsForTables(tables)]

\* An execution is one call of a task's exec.
Execution == TaskIds \X Nat
Executing == running \cup resolved \cup rejected
NoExecution == <<NoTask, 0>>

FirstLock(t) == IF task[t].type = "READ_ONLY" THEN "RESERVED_READ_ONLY"
                                              ELSE "RESERVED_READ_WRITE"
SecondLock(t) == IF task[t].type = "READ_ONLY" THEN "SHARED" ELSE "EXCLUSIVE"

-----------------------------------------------------------------------------
(* consumePending *)

Frame == [rest : SUBSET TaskIds, caller : Execution \cup {NoExecution}]

Idle == stack = <<>>
Innermost == stack[Len(stack)]
Callers == {stack[i].caller : i \in DOMAIN stack} \ {NoExecution}

\* A consumePending loop over a copy of the queue, on behalf of `caller'.
Loop(tasks, caller) == [rest |-> tasks, caller |-> caller]

\* The stack with the innermost loop moved past t.
Advance(t) == [stack EXCEPT ![Len(stack)].rest = @ \ {t}]

Init ==
    /\ task = [t \in TaskIds |-> Unscheduled]
    /\ queue = {}
    /\ lockTable = [d \in Tables |-> NewEntry]
    /\ stack = <<>>
    /\ calls = [t \in TaskIds |-> 0]
    /\ running = {} /\ resolved = {} /\ rejected = {}
    /\ aborted = {}
    /\ resolver = [t \in TaskIds |-> "none"]

\* scheduleTask up to the start of its loop; the queue and the lock table are as
\* `waiting' and `locks', the stack as `below'.
Schedule(t, descriptor, waiting, locks, below, caller) ==
    /\ task' = [task EXCEPT ![t] = descriptor]
    /\ lockTable' = IF Priority(descriptor.kind) < 2
                    THEN ClearReservedLocks(locks, descriptor.scope)
                    ELSE locks
    /\ queue' = waiting \cup {t}
    /\ resolver' = [resolver EXCEPT ![t] = "pending"]
    /\ stack' = Append(below, Loop(waiting \cup {t}, caller))

ClientSchedules(t, descriptor) ==
    /\ Idle
    /\ NextTaskId(t)
    /\ Cardinality({u \in Scheduled : task[u].kind # "OBSERVER_QUERY"}) < MaxClientTasks
    /\ Schedule(t, descriptor, queue, lockTable, <<>>, NoExecution)
    /\ UNCHANGED <<calls, running, resolved, rejected, aborted>>

\* The innermost loop is about to look at task t.
Visiting(t) ==
    /\ ~Idle
    /\ t \in Innermost.rest
    /\ \A u \in Innermost.rest \ {t} : Precedes(t, u)

\* requestTwoPhaseLock: the second lock is requested when the first is granted.
WithFirstLock(t) == RequestLock(lockTable, t, task[t].scope, FirstLock(t))
AcquiresLock(t) ==
    /\ CanAcquireLock(lockTable, t, task[t].scope, FirstLock(t))
    /\ CanAcquireLock(WithFirstLock(t), t, task[t].scope, SecondLock(t))
WithBothLocks(t) == GrantLock(WithFirstLock(t), t, task[t].scope, SecondLock(t))

\* The task stays in the queue, perhaps with its reserved lock.
PassOver(t) ==
    /\ Visiting(t)
    /\ ~AcquiresLock(t)
    /\ lockTable' = WithFirstLock(t)
    /\ stack' = Advance(t)
    /\ UNCHANGED <<task, queue, calls, running, resolved, rejected, aborted, resolver>>

\* Faulty variant: the task stays in the queue.
DispatchKeepsQueued(t) ==
    /\ Visiting(t)
    /\ AcquiresLock(t)
    /\ queue' = queue
    /\ calls' = [calls EXCEPT ![t] = @ + 1]

\* The task leaves the queue and its exec is called.
Dispatch(t) ==
    /\ Visiting(t)
    /\ AcquiresLock(t)
    /\ queue' = queue \ {t}
    /\ calls' = [calls EXCEPT ![t] = @ + 1]

NewExecution(t) == <<t, calls[t] + 1>>

\* exec returns a pending promise.
StartAsync(t) ==
    /\ task[t].kind \in {"USER_QUERY", "TRANSACTION", "OBSERVER_QUERY", "IMPORT"}
    /\ Dispatch(t)
    /\ lockTable' = WithBothLocks(t)
    /\ stack' = Advance(t)
    /\ running' = running \cup {NewExecution(t)}
    /\ UNCHANGED <<task, resolved, rejected, aborted, resolver>>

\* exec does its work at once and returns a resolved promise: an export, or an
\* external change that no observed query refers to.
StartSync(t) ==
    /\ \/ task[t].kind = "EXPORT"
       \/ task[t].kind = "EXTERNAL_CHANGE" /\ TaskItemsForTables(task[t].scope) = {}
    /\ Dispatch(t)
    /\ lockTable' = WithBothLocks(t)
    /\ stack' = Advance(t)
    /\ resolved' = resolved \cup {NewExecution(t)}
    /\ UNCHANGED <<task, running, rejected, aborted, resolver>>

\* The exec of an external change schedules the observer task o before it
\* returns: scheduleTask runs a loop of its own inside the current one.
StartExternalChange(t, o) ==
    /\ task[t].kind = "EXTERNAL_CHANGE"
    /\ TaskItemsForTables(task[t].scope) # {}
    /\ NextTaskId(o)
    /\ Visiting(t)
    /\ AcquiresLock(t)
    /\ calls' = [calls EXCEPT ![t] = @ + 1]
    /\ running' = running \cup {NewExecution(t)}
    /\ Schedule(o, ObserverTask(task[t].scope), queue \ {t}, WithBothLocks(t),
                Advance(t), NewExecution(t))
    /\ UNCHANGED <<resolved, rejected, aborted>>

\* exec throws.  Nothing catches the exception in the Runner: every loop on the
\* stack ends and no promise exists for the task, nor for the external changes
\* whose exec is on the stack.  A transaction whose commit callback is on the
\* stack never settles its execResolver; a UserQueryTask in the same place is
\* inside a then-callback, which turns the exception into a rejection.
ExecThrows(t) ==
    /\ task[t].kind \in ThrowingKinds
    /\ Dispatch(t)
    /\ lockTable' = WithBothLocks(t)
    /\ stack' = <<>>
    /\ LET caught == {e \in Callers : task[e[1]].kind = "USER_QUERY"}
       IN /\ running' = running \ Callers
          /\ rejected' = rejected \cup caught
          /\ aborted' = aborted \cup {t} \cup {e[1] : e \in Callers \ caught}
    /\ UNCHANGED <<task, resolved, resolver>>

\* The innermost loop is over; the callback or exec that started it returns.
LoopEnds ==
    /\ ~Idle
    /\ Innermost.rest = {}
    /\ running' = running \ {Innermost.caller}
    /\ resolved' = resolved \cup ({Innermost.caller} \ {NoExecution})
    /\ stack' = SubSeq(stack, 1, Len(stack) - 1)
    /\ UNCHANGED <<task, queue, lockTable, calls, rejected, aborted, resolver>>

-----------------------------------------------------------------------------
(* Promises of executions and their handlers *)

\* A read-write query task or a transaction has committed, and observed queries
\* refer to its scope: onSuccess schedules the observer task o while the task
\* still holds its locks.
CommitSucceeds(e, o) ==
    /\ Idle
    /\ e \in running
    /\ task[e[1]].kind \in {"USER_QUERY", "TRANSACTION"}
    /\ task[e[1]].type = "READ_WRITE"
    /\ TaskItemsForTables(task[e[1]].scope) # {}
    /\ NextTaskId(o)
    /\ Schedule(o, ObserverTask(task[e[1]].scope), queue, lockTable, <<>>, e)
    /\ UNCHANGED <<calls, running, resolved, rejected, aborted>>

\* The promise resolves and no task is scheduled: reads, imports, transactions
\* rolled back, commits that no observed query refers to.
ExecResolves(e) ==
    /\ Idle
    /\ e \in running
    /\ \/ task[e[1]].type = "READ_ONLY"
       \/ task[e[1]].kind \in {"IMPORT", "TRANSACTION"}
       \/ TaskItemsForTables(task[e[1]].scope) = {}
    /\ running' = running \ {e}
    /\ resolved' = resolved \cup {e}
    /\ UNCHANGED <<task, queue, lockTable, stack, calls, rejected, aborted, resolver>>

ExecRejects(e) ==
    /\ Idle
    /\ e \in running
    /\ running' = running \ {e}
    /\ rejected' = rejected \cup {e}
    /\ UNCHANGED <<task, queue, lockTable, stack, calls, resolved, aborted, resolver>>

\* A Resolver settles once.
Settle(t, outcome) ==
    resolver' = [resolver EXCEPT ![t] = IF @ = "pending" THEN outcome ELSE @]

OnTaskSuccess(e) ==
    /\ Idle
    /\ e \in resolved
    /\ resolved' = resolved \ {e}
    /\ lockTable' = ReleaseLock(lockTable, e[1], task[e[1]].scope)
    /\ Settle(e[1], "resolved")
    /\ stack' = <<Loop(queue, NoExecution)>>
    /\ UNCHANGED <<task, queue, calls, running, rejected, aborted>>

\* Faulty variant: the queue is not looked at after an error.
OnTaskErrorStops(e) ==
    /\ Idle
    /\ e \in rejected
    /\ rejected' = rejected \ {e}
    /\ lockTable' = ReleaseLock(lockTable, e[1], task[e[1]].scope)
    /\ Settle(e[1], "rejected")
    /\ UNCHANGED <<task, queue, stack, calls, running, resolved, aborted>>

\* Faulty variant: the locks of a failed task are not released.
OnTaskErrorKeepsLocks(e) ==
    /\ Idle
    /\ e \in rejected
    /\ rejected' = rejected \ {e}
    /\ Settle(e[1], "rejected")
    /\ stack' = <<Loop(queue, NoExecution)>>
    /\ UNCHANGED <<task, queue, lockTable, calls, running, resolved, aborted>>

OnTaskError(e) ==
    /\ Idle
    /\ e \in rejected
    /\ rejected' = rejected \ {e}
    /\ lockTable' = ReleaseLock(lockTable, e[1], task[e[1]].scope)
    /\ Settle(e[1], "rejected")
    /\ stack' = <<Loop(queue, NoExecution)>>
    /\ UNCHANGED <<task, queue, calls, running, resolved, aborted>>

-----------------------------------------------------------------------------
(* Specification *)

Consume(t) ==
    \/ PassOver(t)
    \/ StartAsync(t)
    \/ StartSync(t)
    \/ \E o \in TaskIds : StartExternalChange(t, o)
    \/ ExecThrows(t)

Finish(e) ==
    \/ \E o \in TaskIds : CommitSucceeds(e, o)
    \/ ExecResolves(e)
    \/ ExecRejects(e)

Handle(e) == OnTaskSuccess(e) \/ OnTaskError(e)

Next ==
    \/ \E t \in TaskIds, d \in ClientTask : ClientSchedules(t, d)
    \/ \E t \in TaskIds : Consume(t)
    \/ LoopEnds
    \/ \E e \in running : Finish(e)
    \/ \E e \in resolved \cup rejected : Handle(e)

\* A loop runs to its end, a settled promise calls its handler, and the promise
\* of every execution settles: back stores answer, and the user of an explicit
\* transaction commits it or rolls it back.
Fairness ==
    /\ WF_vars(LoopEnds \/ \E t \in TaskIds : Consume(t))
    /\ \A t \in TaskIds : WF_vars(\E e \in running : e[1] = t /\ Finish(e))
    /\ \A t \in TaskIds : WF_vars(\E e \in resolved \cup rejected : e[1] = t /\ Handle(e))

Spec == Init /\ [][Next]_vars /\ Fairness

-----------------------------------------------------------------------------
(* Properties *)

\* Every variable stays in its type.
TypeOK ==
    /\ task \in [TaskIds -> Task \cup {Unscheduled}]
    /\ queue \subseteq TaskIds
    /\ lockTable \in [Tables -> LockTableEntry]
    /\ stack \in Seq(Frame)
    /\ calls \in [TaskIds -> Nat]
    /\ running \subseteq Execution
    /\ resolved \subseteq Execution
    /\ rejected \subseteq Execution
    /\ aborted \subseteq TaskIds
    /\ resolver \in [TaskIds -> {"none", "pending", "resolved", "rejected"}]

Overlap(t, u) == task[t].scope \cap task[u].scope # {}
Writes(t) == task[t].type = "READ_WRITE"

HoldsLock(t) ==
    \A d \in task[t].scope : IF Writes(t) THEN lockTable[d].exclusive = t
                                          ELSE t \in lockTable[d].shared

\* The locks of every table are consistent at all times, whatever priorities,
\* cleared reservations, failures and loops inside loops did.
LockTableConsistent == \A d \in Tables : EntryConsistent(lockTable[d])

\* A task executes under the lock its type asks for, on its whole scope, from
\* the call of exec until its promise is handled.
ExecutesUnderLock == \A e \in Executing : HoldsLock(e[1])

\* The isolation that locks are for: of two executions that share a table,
\* neither writes.
Isolation ==
    \A e, f \in Executing :
        e # f /\ Overlap(e[1], f[1]) => ~Writes(e[1]) /\ ~Writes(f[1])

\* Two writers never execute together on one table, even with external changes
\* and tasks that throw.
WritersExcludeWriters ==
    \A e, f \in Executing :
        e # f /\ Overlap(e[1], f[1]) => ~(Writes(e[1]) /\ Writes(f[1]))

\* A lock never outlives its use: whoever holds a lock on a table executes, and
\* whoever holds a reservation waits in the queue and has the table in scope.
LockOwnersAreLive ==
    \A d \in Tables, t \in TaskIds :
        /\ (lockTable[d].exclusive = t \/ t \in lockTable[d].shared)
               => t \in {e[1] : e \in Executing}
        /\ (lockTable[d].reservedRW = t \/ t \in lockTable[d].reservedRO)
               => t \in queue /\ d \in task[t].scope

\* No wakeup is lost: when no callback runs and tasks wait, some task executes,
\* so a handler will run that looks at the queue again.  Reservations that
\* clearReservedLocks takes away in part never leave writers waiting on each
\* other.
NoLostWakeup == Idle /\ queue # {} => Executing # {}

\* A waiting high-priority reader (an observer query or an export) is never
\* overtaken on its tables by a writer of lower priority: clearing the
\* reservations lets it reserve its whole scope before any of them can escalate.
ReaderNotOvertaken ==
    [][\A o \in queue, w \in TaskIds :
          /\ task[o].kind \in {"EXPORT", "OBSERVER_QUERY"}
          /\ Writes(w) /\ Overlap(o, w)
          /\ Priority(task[w].kind) > Priority(task[o].kind)
          => calls'[w] = calls[w]]_vars

\* The promise scheduleTask returns settles.
EveryTaskSettles ==
    \A t \in TaskIds : resolver[t] = "pending" ~> resolver[t] \in {"resolved", "rejected"}

\* External changes, whose execs run loops inside loops, do not make a task wait
\* for ever: unless an exception unwound a loop, every task settles.
EveryTaskSettlesUnlessThrown ==
    \A t \in TaskIds :
        resolver[t] = "pending"
            ~> (resolver[t] \in {"resolved", "rejected"} \/ aborted # {})

-----------------------------------------------------------------------------
(* The abstract specification *)

\* A task runs from the call of its exec until its promise is handled.
Phase(t) ==
    CASE task[t] = Unscheduled -> "unscheduled"
      [] t \in {e[1] : e \in Executing} -> "running"
      [] OTHER -> IF resolver[t] = "pending" THEN "waiting" ELSE "settled"

Isolated == INSTANCE IsolatedTasks
                WITH Descriptor <- Task, phase <- [t \in TaskIds |-> Phase(t)]

\* Locks, priorities, the queue and its loops amount to this: each task runs
\* once, never beside a task it conflicts with, and settles after it ran.
RunsTasksIsolated == Isolated!Spec
=============================================================================
