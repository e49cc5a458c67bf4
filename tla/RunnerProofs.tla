---------------------------- MODULE RunnerProofs -----------------------------
(***************************************************************************)
(* Proofs about Runner for every set of tables, tasks, scopes and observed *)
(* queries.  TypeOK and what holds of the lock table hold whatever kinds   *)
(* of task there are: it is always consistent, and writers exclude writers.*)
(* That every execution is isolated under its locks needs that no external *)
(* change runs a loop inside a loop.  The last part is about the tasks     *)
(* that wait: no lock or reservation outlives the task it is for,          *)
(* no task waits for a wakeup that never comes, and no writer overtakes a  *)
(* reader of high priority.  There execs that throw are left out as well:  *)
(* the loop they leave behind is not run to its end.                       *)
(***************************************************************************)
EXTENDS Runner, TLAPS

-----------------------------------------------------------------------------
(* The lock table *)

\* What granting and releasing a lock does to one entry.
LEMMA EntryFacts ==
    ASSUME NEW e \in LockTableEntry, NEW t \in TaskIds
    PROVE  /\ \A type \in LockType : EntryGrant(e, t, type) \in LockTableEntry
           /\ LET g == EntryGrant(e, t, "EXCLUSIVE")
              IN  g.exclusive = t /\ g.shared = e.shared
                    /\ g.reservedRW = NoTask /\ g.reservedRO = e.reservedRO
           /\ LET g == EntryGrant(e, t, "SHARED")
              IN  g.exclusive = e.exclusive /\ g.shared = e.shared \cup {t}
                    /\ g.reservedRW = e.reservedRW /\ g.reservedRO = e.reservedRO \ {t}
           /\ LET g == EntryGrant(e, t, "RESERVED_READ_ONLY")
              IN  g.exclusive = e.exclusive /\ g.shared = e.shared
                    /\ g.reservedRW = e.reservedRW /\ g.reservedRO = e.reservedRO \cup {t}
           /\ LET g == EntryGrant(e, t, "RESERVED_READ_WRITE")
              IN  g.exclusive = e.exclusive /\ g.shared = e.shared
                    /\ g.reservedRW = t /\ g.reservedRO = e.reservedRO
           /\ EntryRelease(e, t) \in LockTableEntry
<1>1. /\ EntryGrant(e, t, "EXCLUSIVE") = [e EXCEPT !.reservedRW = NoTask, !.exclusive = t]
      /\ EntryGrant(e, t, "SHARED")
            = [e EXCEPT !.shared = @ \cup {t}, !.reservedRO = @ \ {t}]
      /\ EntryGrant(e, t, "RESERVED_READ_ONLY") = [e EXCEPT !.reservedRO = @ \cup {t}]
      /\ EntryGrant(e, t, "RESERVED_READ_WRITE") = [e EXCEPT !.reservedRW = t]
  BY DEF EntryGrant
<1>2. EntryRelease(e, t) \in LockTableEntry
  BY DEF EntryRelease, LockTableEntry
<1>3. \A type \in LockType : EntryGrant(e, t, type) \in LockTableEntry
  <2>1. [e EXCEPT !.reservedRW = NoTask, !.exclusive = t] \in LockTableEntry
    BY DEF LockTableEntry
  <2>2. [e EXCEPT !.shared = @ \cup {t}, !.reservedRO = @ \ {t}] \in LockTableEntry
    BY DEF LockTableEntry
  <2>3. [e EXCEPT !.reservedRO = @ \cup {t}] \in LockTableEntry
    BY DEF LockTableEntry
  <2>4. [e EXCEPT !.reservedRW = t] \in LockTableEntry
    BY DEF LockTableEntry
  <2> QED BY <1>1, <2>1, <2>2, <2>3, <2>4 DEF LockType
<1>4. LET g == EntryGrant(e, t, "EXCLUSIVE")
      IN  g.exclusive = t /\ g.shared = e.shared
            /\ g.reservedRW = NoTask /\ g.reservedRO = e.reservedRO
  BY <1>1 DEF LockTableEntry
<1>5. LET g == EntryGrant(e, t, "SHARED")
      IN  g.exclusive = e.exclusive /\ g.shared = e.shared \cup {t}
            /\ g.reservedRW = e.reservedRW /\ g.reservedRO = e.reservedRO \ {t}
  BY <1>1 DEF LockTableEntry
<1>6. LET g == EntryGrant(e, t, "RESERVED_READ_ONLY")
      IN  g.exclusive = e.exclusive /\ g.shared = e.shared
            /\ g.reservedRW = e.reservedRW /\ g.reservedRO = e.reservedRO \cup {t}
  BY <1>1 DEF LockTableEntry
<1>7. LET g == EntryGrant(e, t, "RESERVED_READ_WRITE")
      IN  g.exclusive = e.exclusive /\ g.shared = e.shared
            /\ g.reservedRW = t /\ g.reservedRO = e.reservedRO
  BY <1>1 DEF LockTableEntry
<1> QED BY <1>2, <1>3, <1>4, <1>5, <1>6, <1>7

\* The first lock changes reservations only.
LEMMA FirstLockFacts ==
    ASSUME TypeOK, NEW t \in TaskIds
    PROVE  /\ WithFirstLock(t) \in [Tables -> LockTableEntry]
           /\ \A d \in Tables :
                /\ WithFirstLock(t)[d].exclusive = lockTable[d].exclusive
                /\ WithFirstLock(t)[d].shared = lockTable[d].shared
                /\ d \notin task[t].scope => WithFirstLock(t)[d] = lockTable[d]
<1>1. CASE CanAcquireLock(lockTable, t, task[t].scope, FirstLock(t))
  <2>1. WithFirstLock(t) = GrantLock(lockTable, t, task[t].scope, FirstLock(t))
    BY <1>1 DEF WithFirstLock, RequestLock
  <2>2. \A d \in Tables : LET e == EntryGrant(lockTable[d], t, FirstLock(t))
                          IN  /\ e \in LockTableEntry
                              /\ e.exclusive = lockTable[d].exclusive
                              /\ e.shared = lockTable[d].shared
    <3>1. \/ FirstLock(t) = "RESERVED_READ_ONLY"
          \/ FirstLock(t) = "RESERVED_READ_WRITE"
      BY DEF FirstLock
    <3>2. "RESERVED_READ_ONLY" \in LockType /\ "RESERVED_READ_WRITE" \in LockType
      BY DEF LockType
    <3> SUFFICES ASSUME NEW d \in Tables
                 PROVE  LET e == EntryGrant(lockTable[d], t, FirstLock(t))
                        IN  /\ e \in LockTableEntry
                            /\ e.exclusive = lockTable[d].exclusive
                            /\ e.shared = lockTable[d].shared
      OBVIOUS
    <3>3. lockTable[d] \in LockTableEntry
      BY DEF TypeOK
    <3>4. EntryGrant(lockTable[d], t, "RESERVED_READ_ONLY") \in LockTableEntry
            /\ EntryGrant(lockTable[d], t, "RESERVED_READ_WRITE") \in LockTableEntry
      BY <3>2, <3>3, EntryFacts
    <3>5. LET g == EntryGrant(lockTable[d], t, "RESERVED_READ_ONLY")
          IN  g.exclusive = lockTable[d].exclusive /\ g.shared = lockTable[d].shared
      BY <3>3, EntryFacts
    <3>6. LET g == EntryGrant(lockTable[d], t, "RESERVED_READ_WRITE")
          IN  g.exclusive = lockTable[d].exclusive /\ g.shared = lockTable[d].shared
      BY <3>3, EntryFacts
    <3>7. CASE FirstLock(t) = "RESERVED_READ_ONLY"
      BY <3>4, <3>5, <3>7
    <3>8. CASE FirstLock(t) = "RESERVED_READ_WRITE"
      BY <3>4, <3>6, <3>8
    <3> QED BY <3>1, <3>7, <3>8
  <2> QED BY <2>1, <2>2 DEF GrantLock, TypeOK
<1>2. CASE ~CanAcquireLock(lockTable, t, task[t].scope, FirstLock(t))
  BY <1>2 DEF WithFirstLock, RequestLock, TypeOK
<1> QED BY <1>1, <1>2

\* Both locks are granted only on tables nobody writes, and for a writer nobody
\* reads; the task then holds the lock of its type on its whole scope.
LEMMA BothLocksFacts ==
    ASSUME TypeOK, NEW t \in TaskIds, AcquiresLock(t)
    PROVE  /\ WithBothLocks(t) \in [Tables -> LockTableEntry]
           /\ \A d \in Tables \ task[t].scope : WithBothLocks(t)[d] = lockTable[d]
           /\ \A d \in task[t].scope :
                /\ d \in Tables
                /\ lockTable[d].exclusive = NoTask
                /\ WithBothLocks(t)[d].reservedRW = NoTask
                /\ Writes(t) => /\ lockTable[d].shared = {}
                                /\ WithBothLocks(t)[d].exclusive = t
                                /\ WithBothLocks(t)[d].shared = {}
                /\ ~Writes(t) => /\ WithBothLocks(t)[d].exclusive = NoTask
                                 /\ WithBothLocks(t)[d].shared
                                        = lockTable[d].shared \cup {t}
<1> DEFINE L == WithFirstLock(t)
<1>1. /\ L \in [Tables -> LockTableEntry]
      /\ \A d \in Tables :
            /\ L[d].exclusive = lockTable[d].exclusive
            /\ L[d].shared = lockTable[d].shared
            /\ d \notin task[t].scope => L[d] = lockTable[d]
  BY FirstLockFacts
<1>2. task[t].scope \subseteq Tables
  BY DEF TypeOK, Task, Unscheduled
<1>3. \A d \in task[t].scope : EntryCanAcquire(L[d], t, SecondLock(t))
  BY DEF AcquiresLock, CanAcquireLock
<1>4. WithBothLocks(t) = [d \in Tables |-> IF d \in task[t].scope
                                           THEN EntryGrant(L[d], t, SecondLock(t))
                                           ELSE L[d]]
  BY DEF WithBothLocks, GrantLock
<1>5. SecondLock(t) = IF Writes(t) THEN "EXCLUSIVE" ELSE "SHARED"
  BY DEF SecondLock, Writes, TypeOK, Task, Unscheduled
<1> HIDE DEF L
<1>6. \A d \in task[t].scope : L[d] \in LockTableEntry
  BY <1>1, <1>2
<1>7. \A d \in task[t].scope : EntryGrant(L[d], t, SecondLock(t)) \in LockTableEntry
  BY <1>5, <1>6, EntryFacts DEF LockType
<1>8. WithBothLocks(t) \in [Tables -> LockTableEntry]
  <2>1. \A d \in Tables : (IF d \in task[t].scope THEN EntryGrant(L[d], t, SecondLock(t))
                                                  ELSE L[d]) \in LockTableEntry
    BY <1>1, <1>7
  <2> QED BY <1>4, <2>1
<1>9. \A d \in Tables \ task[t].scope : WithBothLocks(t)[d] = lockTable[d]
  BY <1>1, <1>4
<1>10. ASSUME NEW d \in task[t].scope
       PROVE  /\ lockTable[d].exclusive = NoTask
              /\ WithBothLocks(t)[d].reservedRW = NoTask
              /\ Writes(t) => /\ lockTable[d].shared = {}
                              /\ WithBothLocks(t)[d].exclusive = t
                              /\ WithBothLocks(t)[d].shared = {}
              /\ ~Writes(t) => /\ WithBothLocks(t)[d].exclusive = NoTask
                               /\ WithBothLocks(t)[d].shared = lockTable[d].shared \cup {t}
  <2>1. /\ d \in Tables
        /\ L[d].exclusive = lockTable[d].exclusive
        /\ L[d].shared = lockTable[d].shared
        /\ WithBothLocks(t)[d] = EntryGrant(L[d], t, SecondLock(t))
    BY <1>1, <1>2, <1>4
  <2>2. CASE Writes(t)
    <3>1. L[d].exclusive = NoTask /\ L[d].shared = {}
      BY <1>3, <1>5, <2>2 DEF EntryCanAcquire
    <3> QED BY <1>5, <1>6, <2>1, <2>2, <3>1, EntryFacts
  <2>3. CASE ~Writes(t)
    <3>1. L[d].exclusive = NoTask /\ L[d].reservedRW = NoTask
      BY <1>3, <1>5, <2>3 DEF EntryCanAcquire
    <3> QED BY <1>5, <1>6, <2>1, <2>3, <3>1, EntryFacts
  <2> QED BY <2>2, <2>3
<1> QED BY <1>2, <1>8, <1>9, <1>10

-----------------------------------------------------------------------------
(* Types *)

\* The stack below and above the innermost loop.
LEMMA StackFacts ==
    ASSUME TypeOK, ~Idle
    PROVE  /\ Len(stack) \in Nat \ {0}
           /\ Innermost \in Frame
           /\ SubSeq(stack, 1, Len(stack) - 1) \in Seq(Frame)
           /\ \A t \in TaskIds : /\ Advance(t) \in Seq(Frame)
                                 /\ Len(Advance(t)) = Len(stack)
                                 /\ Advance(t)[Len(stack)]
                                      = [rest |-> Innermost.rest \ {t},
                                         caller |-> Innermost.caller]
                                 /\ \A i \in 1 .. Len(stack) - 1 : Advance(t)[i] = stack[i]
<1>1. stack \in Seq(Frame) /\ stack # <<>>
  BY DEF TypeOK, Idle
<1>2. Len(stack) \in Nat \ {0}
  BY <1>1
<1>3. Innermost \in Frame
  BY <1>1, <1>2 DEF Innermost
<1>4. SubSeq(stack, 1, Len(stack) - 1) \in Seq(Frame)
  BY <1>1, <1>2
<1>5. ASSUME NEW t \in TaskIds
      PROVE  /\ Advance(t) \in Seq(Frame)
             /\ Len(Advance(t)) = Len(stack)
             /\ Advance(t)[Len(stack)] = [rest |-> Innermost.rest \ {t},
                                          caller |-> Innermost.caller]
             /\ \A i \in 1 .. Len(stack) - 1 : Advance(t)[i] = stack[i]
  <2> DEFINE f == [rest |-> Innermost.rest \ {t}, caller |-> Innermost.caller]
  <2>1. f \in Frame
    BY <1>3 DEF Frame
  <2>2. [stack[Len(stack)] EXCEPT !.rest = @ \ {t}] = f
    <3>1. ASSUME NEW x \in Frame
          PROVE  [x EXCEPT !.rest = @ \ {t}] = [rest |-> x.rest \ {t}, caller |-> x.caller]
      BY DEF Frame
    <3> QED BY <1>3, <3>1 DEF Innermost
  <2>3. Advance(t) = [stack EXCEPT ![Len(stack)] = f]
    BY <2>2 DEF Advance
  <2> HIDE DEF f
  <2>4. /\ Advance(t) \in Seq(Frame)
        /\ Len(Advance(t)) = Len(stack)
        /\ Advance(t)[Len(stack)] = f
        /\ \A i \in 1 .. Len(stack) - 1 : Advance(t)[i] = stack[i]
    BY <1>1, <1>2, <2>1, <2>3
  <2> QED BY <2>4 DEF f
<1> QED BY <1>2, <1>3, <1>4, <1>5

\* scheduleTask keeps the types.
LEMMA ScheduleTypes ==
    ASSUME TypeOK, NEW t \in TaskIds, NEW descriptor \in Task,
           NEW waiting \in SUBSET TaskIds, NEW locks \in [Tables -> LockTableEntry],
           NEW below \in Seq(Frame), NEW caller \in Execution \cup {NoExecution},
           Schedule(t, descriptor, waiting, locks, below, caller)
    PROVE  /\ task' \in [TaskIds -> Task \cup {Unscheduled}]
           /\ queue' \subseteq TaskIds
           /\ lockTable' \in [Tables -> LockTableEntry]
           /\ stack' \in Seq(Frame)
           /\ resolver' \in [TaskIds -> {"none", "pending", "resolved", "rejected"}]
<1>1. ClearReservedLocks(locks, descriptor.scope) \in [Tables -> LockTableEntry]
  <2>1. \A d \in Tables : [locks[d] EXCEPT !.reservedRW = NoTask] \in LockTableEntry
    BY DEF LockTableEntry
  <2> QED BY <2>1 DEF ClearReservedLocks
<1>2. lockTable' \in [Tables -> LockTableEntry]
  BY <1>1 DEF Schedule
<1>3. Loop(waiting \cup {t}, caller) \in Frame
  BY DEF Loop, Frame
<1>4. stack' \in Seq(Frame)
  BY <1>3 DEF Schedule
<1> QED BY <1>2, <1>4 DEF Schedule, TypeOK

LEMMA ObserverTaskType == \A tables : ObserverTask(tables) \in Task
BY ObservedAssumption DEF ObserverTask, Task, TaskKind, TaskItemsForTables

LEMMA ReleaseType ==
    ASSUME TypeOK, NEW t \in TaskIds
    PROVE  ReleaseLock(lockTable, t, task[t].scope) \in [Tables -> LockTableEntry]
BY EntryFacts DEF ReleaseLock, TypeOK

\* Every variable stays in its type in one step.
LEMMA TypeStep == TypeOK /\ [Next]_vars => TypeOK'
<1> SUFFICES ASSUME TypeOK, [Next]_vars PROVE TypeOK'
  OBVIOUS
<1>1. ASSUME NEW t \in TaskIds, NEW d \in ClientTask, ClientSchedules(t, d)
      PROVE  TypeOK'
  <2>1. d \in Task /\ NoExecution \in Execution \cup {NoExecution} /\ <<>> \in Seq(Frame)
    BY DEF ClientTask
  <2>2. Schedule(t, d, queue, lockTable, <<>>, NoExecution)
    BY <1>1 DEF ClientSchedules
  <2>3. queue \in SUBSET TaskIds /\ lockTable \in [Tables -> LockTableEntry]
    BY DEF TypeOK
  <2> QED BY <1>1, <2>1, <2>2, <2>3, ScheduleTypes DEF ClientSchedules, TypeOK
<1>2. ASSUME NEW t \in TaskIds, PassOver(t) PROVE TypeOK'
  <2>1. WithFirstLock(t) \in [Tables -> LockTableEntry] /\ Advance(t) \in Seq(Frame)
    BY <1>2, FirstLockFacts, StackFacts DEF PassOver, Visiting
  <2> QED BY <1>2, <2>1 DEF PassOver, TypeOK
<1>3. ASSUME NEW t \in TaskIds, AcquiresLock(t)
      PROVE  /\ NewExecution(t) \in Execution
             /\ [calls EXCEPT ![t] = @ + 1] \in [TaskIds -> Nat]
             /\ WithBothLocks(t) \in [Tables -> LockTableEntry]
  BY <1>3, BothLocksFacts DEF NewExecution, Execution, TypeOK
<1>4. ASSUME NEW t \in TaskIds, StartAsync(t) PROVE TypeOK'
  <2>1. Advance(t) \in Seq(Frame)
    BY <1>4, StackFacts DEF StartAsync, Dispatch, Visiting
  <2> QED BY <1>3, <1>4, <2>1 DEF StartAsync, Dispatch, TypeOK
<1>5. ASSUME NEW t \in TaskIds, StartSync(t) PROVE TypeOK'
  <2>1. Advance(t) \in Seq(Frame)
    BY <1>5, StackFacts DEF StartSync, Dispatch, Visiting
  <2> QED BY <1>3, <1>5, <2>1 DEF StartSync, Dispatch, TypeOK
<1>6. ASSUME NEW t \in TaskIds, NEW o \in TaskIds, StartExternalChange(t, o)
      PROVE  TypeOK'
  <2>1. /\ Advance(t) \in Seq(Frame)
        /\ NewExecution(t) \in Execution
        /\ WithBothLocks(t) \in [Tables -> LockTableEntry]
        /\ queue \ {t} \in SUBSET TaskIds
    BY <1>3, <1>6, StackFacts DEF StartExternalChange, Visiting, TypeOK
  <2>2. Schedule(o, ObserverTask(task[t].scope), queue \ {t}, WithBothLocks(t),
                 Advance(t), NewExecution(t))
    BY <1>6 DEF StartExternalChange
  <2>3. /\ task' \in [TaskIds -> Task \cup {Unscheduled}]
        /\ queue' \subseteq TaskIds
        /\ lockTable' \in [Tables -> LockTableEntry]
        /\ stack' \in Seq(Frame)
        /\ resolver' \in [TaskIds -> {"none", "pending", "resolved", "rejected"}]
    BY <2>1, <2>2, ObserverTaskType, ScheduleTypes
  <2> QED BY <1>3, <1>6, <2>3 DEF StartExternalChange, TypeOK
<1>7. ASSUME NEW t \in TaskIds, ExecThrows(t) PROVE TypeOK'
  <2>1. Callers \subseteq Execution
    <3>1. \A i \in DOMAIN stack : stack[i] \in Frame
      BY DEF TypeOK
    <3>2. \A i \in DOMAIN stack : stack[i].caller \in Execution \cup {NoExecution}
      BY <3>1 DEF Frame
    <3> QED BY <3>2 DEF Callers
  <2>2. {e[1] : e \in Callers \ {e \in Callers : task[e[1]].kind = "USER_QUERY"}}
            \subseteq TaskIds
    BY <2>1 DEF Execution
  <2>3. <<>> \in Seq(Frame)
    OBVIOUS
  <2> QED BY <1>3, <1>7, <2>1, <2>2, <2>3 DEF ExecThrows, Dispatch, TypeOK
<1>8. CASE LoopEnds
  <2>1. /\ SubSeq(stack, 1, Len(stack) - 1) \in Seq(Frame)
        /\ Innermost.caller \in Execution \cup {NoExecution}
    BY <1>8, StackFacts DEF LoopEnds, Frame
  <2> QED BY <1>8, <2>1 DEF LoopEnds, TypeOK
<1>9. ASSUME NEW e \in running, NEW o \in TaskIds, CommitSucceeds(e, o) PROVE TypeOK'
  <2>1. /\ e \in Execution \cup {NoExecution} /\ <<>> \in Seq(Frame)
        /\ queue \in SUBSET TaskIds /\ lockTable \in [Tables -> LockTableEntry]
    BY DEF TypeOK
  <2>2. Schedule(o, ObserverTask(task[e[1]].scope), queue, lockTable, <<>>, e)
    BY <1>9 DEF CommitSucceeds
  <2> QED BY <1>9, <2>1, <2>2, ObserverTaskType, ScheduleTypes DEF CommitSucceeds, TypeOK
<1>10. ASSUME NEW e \in running, ExecResolves(e) \/ ExecRejects(e) PROVE TypeOK'
  BY <1>10 DEF ExecResolves, ExecRejects, TypeOK
<1>11. ASSUME NEW e \in resolved \cup rejected, Handle(e) PROVE TypeOK'
  <2>1. e[1] \in TaskIds
    BY DEF TypeOK, Execution
  <2>2. ReleaseLock(lockTable, e[1], task[e[1]].scope) \in [Tables -> LockTableEntry]
    BY <2>1, ReleaseType
  <2>3. <<Loop(queue, NoExecution)>> \in Seq(Frame)
    BY DEF Loop, Frame, TypeOK
  <2> QED BY <1>11, <2>1, <2>2, <2>3 DEF Handle, OnTaskSuccess, OnTaskError, Settle, TypeOK
<1>12. CASE UNCHANGED vars
  BY <1>12 DEF vars, TypeOK
<1> QED
  BY <1>1, <1>2, <1>4, <1>5, <1>6, <1>7, <1>8, <1>9, <1>10, <1>11, <1>12
     DEF Next, Consume, Finish

\* The queue, the lock table, the loops and the executions keep their types for
\* every choice of the constants.
THEOREM TypeCorrect == Spec => []TypeOK
<1>1. Init => TypeOK
  <2>1. NewEntry \in LockTableEntry
    BY DEF NewEntry, LockTableEntry
  <2> QED BY <2>1 DEF Init, TypeOK
<1> QED BY <1>1, TypeStep, PTL DEF Spec

-----------------------------------------------------------------------------
(* Bookkeeping of tasks, loops and executions *)

\* Only scheduled tasks are in the queue or ahead of a loop.
QueueScheduled ==
    /\ queue \subseteq Scheduled
    /\ \A i \in DOMAIN stack : stack[i].rest \subseteq Scheduled

\* Executions are numbered by the calls of exec.
ExecutionsCounted ==
    \A e \in Executing : e[1] \in Scheduled /\ e[2] <= calls[e[1]]

\* The promise of an execution has one state.
PromiseStates ==
    /\ running \cap resolved = {}
    /\ running \cap rejected = {}
    /\ resolved \cap rejected = {}

\* A loop acts for an execution whose promise is pending, and no two loops act
\* for the same one.
CallersRun ==
    /\ \A i \in DOMAIN stack : stack[i].caller \in running \cup {NoExecution}
    /\ \A i, j \in DOMAIN stack :
          i # j /\ stack[i].caller # NoExecution => stack[i].caller # stack[j].caller

Bookkeeping == TypeOK /\ QueueScheduled /\ ExecutionsCounted /\ PromiseStates /\ CallersRun

\* A task that is scheduled keeps its descriptor, and stays scheduled.
Keeps == \A u \in Scheduled : u \in Scheduled' /\ task'[u] = task[u]

\* EntryConsistent through a grant and through the operations of the manager.
LEMMA ConsistentGrant ==
    ASSUME NEW e \in LockTableEntry, NEW t \in TaskIds, NEW type \in LockType,
           EntryConsistent(e), EntryCanAcquire(e, t, type)
    PROVE  EntryConsistent(EntryGrant(e, t, type))
<1>1. CASE type = "EXCLUSIVE"
  BY <1>1, EntryFacts DEF EntryConsistent, EntryCanAcquire
<1>2. CASE type = "SHARED"
  BY <1>2, EntryFacts DEF EntryConsistent, EntryCanAcquire
<1>3. CASE type = "RESERVED_READ_ONLY"
  BY <1>3, EntryFacts DEF EntryConsistent, EntryCanAcquire
<1>4. CASE type = "RESERVED_READ_WRITE"
  BY <1>4, EntryFacts DEF EntryConsistent, EntryCanAcquire
<1> QED BY <1>1, <1>2, <1>3, <1>4 DEF LockType

\* scheduleTask gives an unused id a descriptor and starts a loop over the queue.
LEMMA ScheduleKeeps ==
    ASSUME TypeOK, QueueScheduled, NEW t \in TaskIds, t \notin Scheduled,
           NEW descriptor \in Task,
           NEW waiting \in SUBSET TaskIds, waiting \subseteq Scheduled,
           NEW locks \in [Tables -> LockTableEntry],
           NEW below \in Seq(Frame), NEW caller \in Execution \cup {NoExecution},
           Schedule(t, descriptor, waiting, locks, below, caller)
    PROVE  /\ Keeps
           /\ Scheduled \subseteq Scheduled'
           /\ queue' = waiting \cup {t}
           /\ queue' \subseteq Scheduled'
<1>1. task' = [task EXCEPT ![t] = descriptor] /\ descriptor # Unscheduled
  BY DEF Schedule, Task, Unscheduled, TaskKind
<1>2. t \in Scheduled' /\ \A u \in Scheduled : u # t /\ task'[u] = task[u]
  BY <1>1 DEF Scheduled, TypeOK
<1> QED BY <1>1, <1>2 DEF Keeps, Schedule, Scheduled

LEMMA BookkeepingInit == Init => Bookkeeping
<1> SUFFICES ASSUME Init PROVE Bookkeeping
  OBVIOUS
<1>1. NewEntry \in LockTableEntry
  BY DEF NewEntry, LockTableEntry
<1>2. TypeOK
  BY <1>1 DEF Init, TypeOK
<1>3. QueueScheduled /\ ExecutionsCounted /\ PromiseStates /\ CallersRun
  BY DEF Init, QueueScheduled, ExecutionsCounted, PromiseStates, CallersRun, Executing
<1> QED BY <1>2, <1>3 DEF Bookkeeping

\* A new loop on the empty stack.
LEMMA SingleLoop ==
    ASSUME NEW f, stack' = Append(<<>>, f) \/ stack' = <<f>>
    PROVE  DOMAIN stack' = {1} /\ stack'[1] = f
OBVIOUS

\* The stack after the visit of a task, loop by loop.
LEMMA AdvanceFacts ==
    ASSUME TypeOK, ~Idle, NEW t \in TaskIds
    PROVE  /\ DOMAIN Advance(t) = DOMAIN stack
           /\ \A i \in DOMAIN stack : /\ Advance(t)[i].caller = stack[i].caller
                                      /\ Advance(t)[i].rest \subseteq stack[i].rest
<1>1. /\ stack \in Seq(Frame) /\ Advance(t) \in Seq(Frame)
      /\ Len(Advance(t)) = Len(stack)
      /\ Advance(t)[Len(stack)] = [rest |-> Innermost.rest \ {t}, caller |-> Innermost.caller]
      /\ \A i \in 1 .. Len(stack) - 1 : Advance(t)[i] = stack[i]
  BY StackFacts DEF TypeOK
<1>2. DOMAIN stack = 1 .. Len(stack) /\ DOMAIN Advance(t) = 1 .. Len(stack)
  BY <1>1
<1>3. ASSUME NEW i \in 1 .. Len(stack)
      PROVE  Advance(t)[i].caller = stack[i].caller /\ Advance(t)[i].rest \subseteq stack[i].rest
  BY <1>1 DEF Innermost
<1> QED BY <1>2, <1>3

\* Ids, loops and executions stay in step with each other.
LEMMA BookkeepingStep == Bookkeeping /\ [Next]_vars => Bookkeeping' /\ Keeps
<1> SUFFICES ASSUME Bookkeeping, [Next]_vars PROVE Bookkeeping' /\ Keeps
  OBVIOUS
<1> USE DEF Bookkeeping
<1>0. TypeOK'
  BY TypeStep
<1>1. ASSUME NEW t \in TaskIds, NEW d \in ClientTask, ClientSchedules(t, d)
      PROVE  Bookkeeping' /\ Keeps
  <2>1. /\ d \in Task /\ t \notin Scheduled
        /\ queue \in SUBSET TaskIds /\ queue \subseteq Scheduled
        /\ NoExecution \in Execution \cup {NoExecution}
        /\ Schedule(t, d, queue, lockTable, <<>>, NoExecution)
        /\ lockTable \in [Tables -> LockTableEntry] /\ <<>> \in Seq(Frame)
    BY <1>1 DEF ClientSchedules, ClientTask, NextTaskId, QueueScheduled, TypeOK
  <2>2. /\ Keeps /\ Scheduled \subseteq Scheduled' /\ queue' \subseteq Scheduled'
        /\ stack' = Append(<<>>, Loop(queue', NoExecution))
    <3>1. Keeps /\ Scheduled \subseteq Scheduled' /\ queue' \subseteq Scheduled'
      BY <2>1, ScheduleKeeps
    <3> QED BY <2>1, <3>1 DEF Schedule
  <2>3. DOMAIN stack' = {1} /\ stack'[1] = Loop(queue', NoExecution)
    BY <2>2, SingleLoop
  <2>4. UNCHANGED <<calls, running, resolved, rejected>>
    BY <1>1 DEF ClientSchedules
  <2> QED BY <1>0, <2>2, <2>3, <2>4
          DEF QueueScheduled, ExecutionsCounted, PromiseStates, CallersRun, Executing, Loop
<1>2. ASSUME NEW t \in TaskIds, PassOver(t) PROVE Bookkeeping' /\ Keeps
  <2>1. /\ ~Idle /\ stack' = Advance(t)
        /\ UNCHANGED <<task, queue, calls, running, resolved, rejected>>
    BY <1>2 DEF PassOver, Visiting
  <2> QED BY <1>0, <2>1, AdvanceFacts
          DEF QueueScheduled, ExecutionsCounted, PromiseStates, CallersRun, Executing,
              Scheduled, Keeps
<1>3. ASSUME NEW t \in TaskIds, Visiting(t)
      PROVE  /\ t \in Scheduled
             /\ NewExecution(t) \notin Executing
             /\ NewExecution(t)[1] = t /\ NewExecution(t)[2] = calls[t] + 1
             /\ calls[t] \in Nat
  <2>1. t \in Scheduled
    BY <1>3, StackFacts DEF Visiting, QueueScheduled, Innermost, TypeOK
  <2>2. calls[t] \in Nat
    BY DEF TypeOK
  <2> QED BY <2>1, <2>2 DEF NewExecution, ExecutionsCounted
<1>4. ASSUME NEW t \in TaskIds, StartAsync(t) \/ StartSync(t) PROVE Bookkeeping' /\ Keeps
  <2>1. /\ Visiting(t) /\ ~Idle
        /\ stack' = Advance(t) /\ queue' = queue \ {t}
        /\ calls' = [calls EXCEPT ![t] = @ + 1]
        /\ \/ running' = running \cup {NewExecution(t)} /\ resolved' = resolved
           \/ running' = running /\ resolved' = resolved \cup {NewExecution(t)}
        /\ UNCHANGED <<task, rejected>>
    BY <1>4 DEF StartAsync, StartSync, Dispatch, Visiting
  <2>2. QueueScheduled' /\ Keeps
    BY <2>1, AdvanceFacts DEF QueueScheduled, Scheduled, Keeps
  <2>3. ExecutionsCounted'
    <3>1. calls' \in [TaskIds -> Nat] /\ calls \in [TaskIds -> Nat]
      BY <1>0 DEF TypeOK
    <3>2. \A u \in TaskIds : calls[u] <= calls'[u]
      BY <2>1, <3>1
    <3>3. Executing \subseteq Execution
      BY DEF Executing, TypeOK
    <3>4. \A e \in Executing : e[2] <= calls'[e[1]]
      BY <3>1, <3>2, <3>3 DEF ExecutionsCounted, Execution
    <3>5. Executing' = Executing \cup {NewExecution(t)} /\ calls'[t] = calls[t] + 1
      BY <2>1, <3>1 DEF Executing
    <3> QED BY <1>3, <2>1, <3>4, <3>5 DEF ExecutionsCounted, Scheduled
  <2>4. PromiseStates'
    BY <1>3, <2>1 DEF PromiseStates, Executing
  <2>5. CallersRun'
    BY <2>1, AdvanceFacts DEF CallersRun
  <2> QED BY <1>0, <2>2, <2>3, <2>4, <2>5
<1>5. ASSUME NEW t \in TaskIds, NEW o \in TaskIds, StartExternalChange(t, o)
      PROVE  Bookkeeping' /\ Keeps
  <2>1. /\ Visiting(t) /\ ~Idle /\ o \notin Scheduled
        /\ calls' = [calls EXCEPT ![t] = @ + 1]
        /\ running' = running \cup {NewExecution(t)}
        /\ Schedule(o, ObserverTask(task[t].scope), queue \ {t}, WithBothLocks(t),
                    Advance(t), NewExecution(t))
        /\ UNCHANGED <<resolved, rejected>>
    BY <1>5 DEF StartExternalChange, Visiting, NextTaskId
  <2>3. /\ Advance(t) \in Seq(Frame) /\ stack \in Seq(Frame)
        /\ DOMAIN stack = 1 .. Len(stack) /\ Len(Advance(t)) = Len(stack)
    <3>1. Advance(t) \in Seq(Frame) /\ Len(Advance(t)) = Len(stack)
      BY <2>1, StackFacts
    <3> QED BY <3>1 DEF TypeOK
  <2>10. /\ WithBothLocks(t) \in [Tables -> LockTableEntry]
         /\ NewExecution(t) \in Execution \cup {NoExecution}
         /\ queue \ {t} \in SUBSET TaskIds /\ queue \ {t} \subseteq Scheduled
    <3>1. AcquiresLock(t)
      BY <1>5 DEF StartExternalChange
    <3> QED BY <3>1, BothLocksFacts DEF NewExecution, Execution, TypeOK, QueueScheduled
  <2>2. /\ Keeps /\ Scheduled \subseteq Scheduled' /\ queue' \subseteq Scheduled'
        /\ stack' = Append(Advance(t), Loop(queue', NewExecution(t)))
    <3>1. Keeps /\ Scheduled \subseteq Scheduled' /\ queue' \subseteq Scheduled'
      BY <2>1, <2>3, <2>10, ObserverTaskType, ScheduleKeeps
    <3> QED BY <2>1, <3>1 DEF Schedule
  <2>4. /\ DOMAIN stack' = DOMAIN stack \cup {Len(stack) + 1}
        /\ Len(stack) + 1 \notin DOMAIN stack
        /\ stack'[Len(stack) + 1] = Loop(queue', NewExecution(t))
        /\ \A i \in DOMAIN stack : stack'[i] = Advance(t)[i]
    BY <2>2, <2>3
  <2>5. \A i \in DOMAIN stack : /\ stack'[i].caller = stack[i].caller
                                /\ stack'[i].rest \subseteq stack[i].rest
    BY <2>1, <2>4, AdvanceFacts
  <2>6. QueueScheduled'
    BY <2>2, <2>4, <2>5 DEF QueueScheduled, Loop
  <2>7. ExecutionsCounted'
    <3>1. calls' \in [TaskIds -> Nat] /\ calls \in [TaskIds -> Nat]
      BY <1>0 DEF TypeOK
    <3>2. \A u \in TaskIds : calls[u] <= calls'[u]
      BY <2>1, <3>1
    <3>3. Executing \subseteq Execution
      BY DEF Executing, TypeOK
    <3>4. \A e \in Executing : e[2] <= calls'[e[1]]
      BY <3>1, <3>2, <3>3 DEF ExecutionsCounted, Execution
    <3>5. Executing' = Executing \cup {NewExecution(t)} /\ calls'[t] = calls[t] + 1
      BY <2>1, <3>1 DEF Executing
    <3> QED BY <1>3, <2>1, <2>2, <3>4, <3>5 DEF ExecutionsCounted
  <2>8. PromiseStates'
    BY <1>3, <2>1 DEF PromiseStates, Executing
  <2>9. CallersRun'
    <3>1. \A i \in DOMAIN stack : stack[i].caller \in running \cup {NoExecution}
      BY DEF CallersRun
    <3>2. NewExecution(t) \notin running /\ NewExecution(t) # NoExecution
      BY <1>3, <2>1, NoTaskAssumption DEF Executing, NoExecution
    <3> QED BY <2>1, <2>4, <2>5, <3>1, <3>2 DEF CallersRun, Loop
  <2> QED BY <1>0, <2>2, <2>6, <2>7, <2>8, <2>9
<1>6. ASSUME NEW t \in TaskIds, ExecThrows(t) PROVE Bookkeeping' /\ Keeps
  <2>1. /\ stack' = <<>> /\ queue' = queue \ {t} /\ UNCHANGED <<task, resolved>>
        /\ calls' = [calls EXCEPT ![t] = @ + 1]
        /\ running' = running \ Callers
        /\ rejected' = rejected \cup {e \in Callers : task[e[1]].kind = "USER_QUERY"}
    BY <1>6 DEF ExecThrows, Dispatch
  <2>2. Callers \subseteq running
    BY DEF Callers, CallersRun
  <2>3. QueueScheduled' /\ CallersRun' /\ Keeps
    BY <2>1 DEF QueueScheduled, CallersRun, Scheduled, Keeps
  <2>4. PromiseStates' /\ Executing' \subseteq Executing
    BY <2>1, <2>2 DEF PromiseStates, Executing
  <2>5. ExecutionsCounted'
    <3>1. calls' \in [TaskIds -> Nat] /\ calls \in [TaskIds -> Nat]
      BY <1>0 DEF TypeOK
    <3>2. \A u \in TaskIds : calls[u] <= calls'[u]
      BY <2>1, <3>1
    <3>3. Executing \subseteq Execution
      BY DEF Executing, TypeOK
    <3>4. \A e \in Executing : e[2] <= calls'[e[1]]
      BY <3>1, <3>2, <3>3 DEF ExecutionsCounted, Execution
    <3> QED BY <2>1, <2>4, <3>4 DEF ExecutionsCounted, Scheduled
  <2> QED BY <1>0, <2>3, <2>4, <2>5
<1>7. CASE LoopEnds
  <2>1. /\ ~Idle
        /\ running' = running \ {Innermost.caller}
        /\ resolved' = resolved \cup ({Innermost.caller} \ {NoExecution})
        /\ stack' = SubSeq(stack, 1, Len(stack) - 1)
        /\ UNCHANGED <<task, queue, calls, rejected>>
    BY <1>7 DEF LoopEnds
  <2>2. stack \in Seq(Frame) /\ Len(stack) \in Nat \ {0} /\ DOMAIN stack = 1 .. Len(stack)
    BY <2>1, StackFacts DEF TypeOK
  <2>3. /\ DOMAIN stack' = 1 .. Len(stack) - 1
        /\ \A i \in DOMAIN stack' : stack'[i] = stack[i] /\ i \in DOMAIN stack /\ i # Len(stack)
    BY <2>1, <2>2
  <2>4. Innermost.caller \in running \cup {NoExecution}
    BY <2>2 DEF Innermost, CallersRun
  <2>5. QueueScheduled' /\ Keeps
    BY <2>1, <2>3 DEF QueueScheduled, Scheduled, Keeps
  <2>6. PromiseStates' /\ Executing' \subseteq Executing
    BY <2>1, <2>4 DEF PromiseStates, Executing
  <2>7. ExecutionsCounted'
    BY <2>1, <2>6 DEF ExecutionsCounted, Scheduled
  <2>8. CallersRun'
    BY <2>1, <2>2, <2>3 DEF CallersRun, Innermost
  <2> QED BY <1>0, <2>5, <2>6, <2>7, <2>8
<1>8. ASSUME NEW e \in running, NEW o \in TaskIds, CommitSucceeds(e, o)
      PROVE  Bookkeeping' /\ Keeps
  <2>1. /\ o \notin Scheduled /\ queue \in SUBSET TaskIds /\ queue \subseteq Scheduled
        /\ Schedule(o, ObserverTask(task[e[1]].scope), queue, lockTable, <<>>, e)
        /\ UNCHANGED <<calls, running, resolved, rejected>>
        /\ lockTable \in [Tables -> LockTableEntry] /\ <<>> \in Seq(Frame)
        /\ e \in Execution \cup {NoExecution}
    BY <1>8 DEF CommitSucceeds, NextTaskId, QueueScheduled, TypeOK
  <2>2. /\ Keeps /\ Scheduled \subseteq Scheduled' /\ queue' \subseteq Scheduled'
        /\ stack' = Append(<<>>, Loop(queue', e))
    <3>1. Keeps /\ Scheduled \subseteq Scheduled' /\ queue' \subseteq Scheduled'
      BY <2>1, ObserverTaskType, ScheduleKeeps
    <3> QED BY <2>1, <3>1 DEF Schedule
  <2>3. DOMAIN stack' = {1} /\ stack'[1] = Loop(queue', e)
    BY <2>2, SingleLoop
  <2> QED BY <1>0, <2>1, <2>2, <2>3
          DEF QueueScheduled, ExecutionsCounted, PromiseStates, CallersRun, Executing, Loop
<1>9. ASSUME NEW e \in running, ExecResolves(e) \/ ExecRejects(e)
      PROVE  Bookkeeping' /\ Keeps
  <2>1. /\ Idle /\ running' = running \ {e}
        /\ \/ resolved' = resolved \cup {e} /\ rejected' = rejected
           \/ rejected' = rejected \cup {e} /\ resolved' = resolved
        /\ UNCHANGED <<task, queue, stack, calls>>
    BY <1>9 DEF ExecResolves, ExecRejects
  <2> QED BY <1>0, <2>1 DEF Idle, QueueScheduled, ExecutionsCounted, PromiseStates,
                            CallersRun, Executing, Scheduled, Keeps
<1>10. ASSUME NEW e \in resolved \cup rejected, Handle(e) PROVE Bookkeeping' /\ Keeps
  <2>1. /\ \/ resolved' = resolved \ {e} /\ rejected' = rejected
           \/ rejected' = rejected \ {e} /\ resolved' = resolved
        /\ stack' = <<Loop(queue, NoExecution)>>
        /\ UNCHANGED <<task, queue, calls, running>>
    BY <1>10 DEF Handle, OnTaskSuccess, OnTaskError
  <2>2. DOMAIN stack' = {1} /\ stack'[1] = Loop(queue, NoExecution)
    BY <2>1, SingleLoop
  <2> QED BY <1>0, <2>1, <2>2 DEF QueueScheduled, ExecutionsCounted, PromiseStates,
                                  CallersRun, Executing, Scheduled, Keeps, Loop
<1>11. CASE UNCHANGED vars
  BY <1>0, <1>11 DEF vars, QueueScheduled, ExecutionsCounted, PromiseStates,
                     CallersRun, Executing, Scheduled, Keeps
<1> QED
  BY <1>1, <1>2, <1>4, <1>5, <1>6, <1>7, <1>8, <1>9, <1>10, <1>11 DEF Next, Consume, Finish

-----------------------------------------------------------------------------
(* The lock table is consistent *)

Consistent(locks) == \A d \in Tables : EntryConsistent(locks[d])

LEMMA RequestKeepsConsistent ==
    ASSUME TypeOK, LockTableConsistent, NEW t \in TaskIds
    PROVE  /\ Consistent(WithFirstLock(t))
           /\ AcquiresLock(t) => Consistent(WithBothLocks(t))
<1> USE DEF Consistent
<1>1. FirstLock(t) \in LockType /\ SecondLock(t) \in LockType
  BY DEF FirstLock, SecondLock, LockType
<1>2. Consistent(WithFirstLock(t))
  <2>1. CASE CanAcquireLock(lockTable, t, task[t].scope, FirstLock(t))
    <3>1. \A d \in Tables :
             WithFirstLock(t)[d] = IF d \in task[t].scope
                                   THEN EntryGrant(lockTable[d], t, FirstLock(t))
                                   ELSE lockTable[d]
      BY <2>1 DEF WithFirstLock, RequestLock, GrantLock
    <3>2. \A d \in Tables : lockTable[d] \in LockTableEntry
      BY DEF TypeOK
    <3>3. \A d \in task[t].scope : EntryCanAcquire(lockTable[d], t, FirstLock(t))
      BY <2>1 DEF CanAcquireLock
    <3> QED BY <1>1, <3>1, <3>2, <3>3, ConsistentGrant DEF LockTableConsistent
  <2>2. CASE ~CanAcquireLock(lockTable, t, task[t].scope, FirstLock(t))
    BY <2>2 DEF WithFirstLock, RequestLock, LockTableConsistent
  <2> QED BY <2>1, <2>2
<1>3. ASSUME AcquiresLock(t) PROVE Consistent(WithBothLocks(t))
  <2> DEFINE L == WithFirstLock(t)
  <2>1. L \in [Tables -> LockTableEntry]
    BY FirstLockFacts
  <2>2. \A d \in Tables : WithBothLocks(t)[d] = IF d \in task[t].scope
                                                THEN EntryGrant(L[d], t, SecondLock(t))
                                                ELSE L[d]
    BY DEF WithBothLocks, GrantLock
  <2>3. \A d \in task[t].scope : EntryCanAcquire(L[d], t, SecondLock(t))
    BY <1>3 DEF AcquiresLock, CanAcquireLock
  <2> HIDE DEF L
  <2>4. \A d \in Tables : L[d] \in LockTableEntry /\ EntryConsistent(L[d])
    BY <1>2, <2>1 DEF L
  <2> QED BY <1>1, <2>2, <2>3, <2>4, ConsistentGrant
<1> QED BY <1>2, <1>3

\* Releasing and clearing only give locks up.
LEMMA GivingUpKeepsConsistent ==
    ASSUME NEW locks \in [Tables -> LockTableEntry], Consistent(locks),
           NEW t \in TaskIds, NEW scope
    PROVE  /\ Consistent(ReleaseLock(locks, t, scope))
           /\ Consistent(ClearReservedLocks(locks, scope))
<1>1. ASSUME NEW e \in LockTableEntry, EntryConsistent(e)
      PROVE  EntryConsistent(EntryRelease(e, t))
  BY <1>1, NoTaskAssumption DEF EntryConsistent, EntryRelease, LockTableEntry
<1>2. ASSUME NEW e \in LockTableEntry, EntryConsistent(e)
      PROVE  EntryConsistent([e EXCEPT !.reservedRW = NoTask])
  BY <1>2 DEF EntryConsistent, LockTableEntry
<1>3. \A d \in Tables : locks[d] \in LockTableEntry /\ EntryConsistent(locks[d])
  BY DEF Consistent
<1>4. \A d \in Tables : /\ EntryConsistent(EntryRelease(locks[d], t))
                        /\ EntryConsistent([locks[d] EXCEPT !.reservedRW = NoTask])
  BY <1>1, <1>2, <1>3
<1>5. Consistent(ReleaseLock(locks, t, scope))
  BY <1>3, <1>4 DEF Consistent, ReleaseLock
<1>6. Consistent(ClearReservedLocks(locks, scope))
  BY <1>3, <1>4 DEF Consistent, ClearReservedLocks
<1> QED BY <1>5, <1>6

\* scheduleTask clears reservations or leaves the locks as they are.
LEMMA ScheduleLocks ==
    ASSUME NEW t, NEW descriptor, NEW waiting, NEW locks, NEW below, NEW caller,
           Schedule(t, descriptor, waiting, locks, below, caller)
    PROVE  \/ lockTable' = locks
           \/ lockTable' = ClearReservedLocks(locks, descriptor.scope)
BY DEF Schedule

LEMMA ConsistentStep ==
    TypeOK /\ LockTableConsistent /\ [Next]_vars => LockTableConsistent'
<1> SUFFICES ASSUME TypeOK, LockTableConsistent, [Next]_vars PROVE Consistent(lockTable')
  BY DEF LockTableConsistent, Consistent
<1>0. Consistent(lockTable) /\ lockTable \in [Tables -> LockTableEntry]
  BY DEF LockTableConsistent, Consistent, TypeOK
<1>1. ASSUME NEW t \in TaskIds, NEW d \in ClientTask, ClientSchedules(t, d)
      PROVE  Consistent(lockTable')
  <2>1. Schedule(t, d, queue, lockTable, <<>>, NoExecution)
    BY <1>1 DEF ClientSchedules
  <2>2. \/ lockTable' = lockTable
        \/ lockTable' = ClearReservedLocks(lockTable, d.scope)
    BY <2>1, ScheduleLocks
  <2> QED BY <1>0, <2>2, GivingUpKeepsConsistent
<1>2. ASSUME NEW t \in TaskIds, PassOver(t) PROVE Consistent(lockTable')
  BY <1>2, RequestKeepsConsistent DEF PassOver
<1>3. ASSUME NEW t \in TaskIds, StartAsync(t) \/ StartSync(t) \/ ExecThrows(t)
      PROVE  Consistent(lockTable')
  BY <1>3, RequestKeepsConsistent DEF StartAsync, StartSync, ExecThrows, Dispatch
<1>4. ASSUME NEW t \in TaskIds, NEW o \in TaskIds, StartExternalChange(t, o)
      PROVE  Consistent(lockTable')
  <2>1. /\ AcquiresLock(t)
        /\ Schedule(o, ObserverTask(task[t].scope), queue \ {t}, WithBothLocks(t),
                    Advance(t), NewExecution(t))
    BY <1>4 DEF StartExternalChange
  <2>2. Consistent(WithBothLocks(t)) /\ WithBothLocks(t) \in [Tables -> LockTableEntry]
    BY <2>1, RequestKeepsConsistent, BothLocksFacts
  <2>3. \/ lockTable' = WithBothLocks(t)
        \/ lockTable' = ClearReservedLocks(WithBothLocks(t), ObserverTask(task[t].scope).scope)
    BY <2>1, ScheduleLocks
  <2> QED BY <2>2, <2>3, GivingUpKeepsConsistent
<1>5. ASSUME NEW e \in running, NEW o \in TaskIds, CommitSucceeds(e, o)
      PROVE  Consistent(lockTable')
  <2>1. Schedule(o, ObserverTask(task[e[1]].scope), queue, lockTable, <<>>, e)
    BY <1>5 DEF CommitSucceeds
  <2>2. \/ lockTable' = lockTable
        \/ lockTable' = ClearReservedLocks(lockTable, ObserverTask(task[e[1]].scope).scope)
    BY <2>1, ScheduleLocks
  <2> QED BY <1>0, <2>2, GivingUpKeepsConsistent DEF TypeOK, Execution
<1>6. ASSUME NEW e \in resolved \cup rejected, Handle(e) PROVE Consistent(lockTable')
  <2>1. e[1] \in TaskIds
    BY DEF TypeOK, Execution
  <2> QED BY <1>0, <1>6, <2>1, GivingUpKeepsConsistent DEF Handle, OnTaskSuccess, OnTaskError
<1>7. ASSUME \/ LoopEnds \/ UNCHANGED vars
             \/ \E e \in running : ExecResolves(e) \/ ExecRejects(e)
      PROVE  Consistent(lockTable')
  BY <1>0, <1>7 DEF LoopEnds, ExecResolves, ExecRejects, vars
<1> QED
  BY <1>1, <1>2, <1>3, <1>4, <1>5, <1>6, <1>7 DEF Next, Consume, Finish

\* An EXCLUSIVE lock excludes SHARED ones and a writer's reservation readers'
\* reservations, on every table and at all times.
THEOREM LocksConsistent == Spec => []LockTableConsistent
<1>1. Init => LockTableConsistent
  <2>1. EntryConsistent(NewEntry)
    BY DEF EntryConsistent, NewEntry
  <2> QED BY <2>1 DEF Init, LockTableConsistent
<1> QED BY <1>1, ConsistentStep, TypeCorrect, PTL DEF Spec

-----------------------------------------------------------------------------
(* What a step does to locks held and to executions *)

\* The locks held, without the reservations.
SameHeld(locks, others) ==
    \A d \in Tables : /\ locks[d].exclusive = others[d].exclusive
                      /\ locks[d].shared = others[d].shared

\* A step takes no lock and starts no execution,
QuietStep == SameHeld(lockTable', lockTable) /\ Executing' \subseteq Executing

\* or takes the locks of t and starts at most one execution of t,
GrantStep(t) ==
    /\ t \in Scheduled
    /\ AcquiresLock(t)
    /\ SameHeld(lockTable', WithBothLocks(t))
    /\ Executing' \subseteq Executing \cup {NewExecution(t)}

\* or ends an execution and releases the locks of its task.
ReleaseStep(e) ==
    /\ lockTable' = ReleaseLock(lockTable, e[1], task[e[1]].scope)
    /\ Executing' = Executing \ {e}

LEMMA VisitedScheduled ==
    ASSUME TypeOK, QueueScheduled, NEW t \in TaskIds, Visiting(t)
    PROVE  t \in Scheduled
BY StackFacts DEF Visiting, QueueScheduled, Innermost, TypeOK

LEMMA ClearingKeepsHeld ==
    ASSUME NEW locks \in [Tables -> LockTableEntry], NEW scope
    PROVE  SameHeld(ClearReservedLocks(locks, scope), locks)
<1>1. ASSUME NEW e \in LockTableEntry
      PROVE  /\ [e EXCEPT !.reservedRW = NoTask].exclusive = e.exclusive
             /\ [e EXCEPT !.reservedRW = NoTask].shared = e.shared
  BY DEF LockTableEntry
<1>2. \A d \in Tables :
         /\ [locks[d] EXCEPT !.reservedRW = NoTask].exclusive = locks[d].exclusive
         /\ [locks[d] EXCEPT !.reservedRW = NoTask].shared = locks[d].shared
  BY <1>1
<1> QED BY <1>2 DEF SameHeld, ClearReservedLocks

LEMMA StepEffect ==
    ASSUME Bookkeeping, [Next]_vars
    PROVE  \/ QuietStep
           \/ \E t \in TaskIds : GrantStep(t)
           \/ \E e \in Executing : ReleaseStep(e)
<1> USE DEF Bookkeeping
<1> DEFINE Effect == \/ QuietStep
                     \/ \E t \in TaskIds : GrantStep(t)
                     \/ \E e \in Executing : ReleaseStep(e)
<1>0. lockTable \in [Tables -> LockTableEntry]
  BY DEF TypeOK
<1>1. ASSUME NEW t \in TaskIds, NEW d \in ClientTask, ClientSchedules(t, d)
      PROVE  Effect
  <2>1. Schedule(t, d, queue, lockTable, <<>>, NoExecution)
    BY <1>1 DEF ClientSchedules
  <2>2. lockTable' = lockTable \/ lockTable' = ClearReservedLocks(lockTable, d.scope)
    BY <2>1, ScheduleLocks
  <2>3. SameHeld(lockTable', lockTable)
    BY <1>0, <2>2, ClearingKeepsHeld DEF SameHeld
  <2> QED BY <1>1, <2>3 DEF ClientSchedules, Executing, QuietStep
<1>2. ASSUME NEW t \in TaskIds, PassOver(t) PROVE Effect
  <2>1. SameHeld(lockTable', lockTable)
    BY <1>2, FirstLockFacts DEF PassOver, SameHeld
  <2> QED BY <1>2, <2>1 DEF PassOver, Executing, QuietStep
<1>3. ASSUME NEW t \in TaskIds, StartAsync(t) \/ StartSync(t) \/ ExecThrows(t)
      PROVE  Effect
  <2>1. AcquiresLock(t) /\ lockTable' = WithBothLocks(t) /\ t \in Scheduled
    BY <1>3, VisitedScheduled DEF StartAsync, StartSync, ExecThrows, Dispatch
  <2>2. CASE StartAsync(t) \/ StartSync(t)
    <3>1. Executing' \subseteq Executing \cup {NewExecution(t)}
      BY <2>2 DEF StartAsync, StartSync, Executing
    <3> QED BY <2>1, <3>1 DEF GrantStep, SameHeld
  <2>3. CASE ExecThrows(t)
    <3>1. Callers \subseteq running
      BY DEF Callers, CallersRun
    <3>2. Executing' \subseteq Executing \cup {NewExecution(t)}
      BY <2>3, <3>1 DEF ExecThrows, Executing
    <3> QED BY <2>1, <3>2 DEF GrantStep, SameHeld
  <2> QED BY <1>3, <2>2, <2>3
<1>4. ASSUME NEW t \in TaskIds, NEW o \in TaskIds, StartExternalChange(t, o)
      PROVE  Effect
  <2>1. /\ AcquiresLock(t) /\ t \in Scheduled
        /\ Schedule(o, ObserverTask(task[t].scope), queue \ {t}, WithBothLocks(t),
                    Advance(t), NewExecution(t))
        /\ running' = running \cup {NewExecution(t)}
        /\ UNCHANGED <<resolved, rejected>>
    BY <1>4, VisitedScheduled DEF StartExternalChange
  <2>2. WithBothLocks(t) \in [Tables -> LockTableEntry]
    BY <2>1, BothLocksFacts
  <2>3. \/ lockTable' = WithBothLocks(t)
        \/ lockTable' = ClearReservedLocks(WithBothLocks(t), ObserverTask(task[t].scope).scope)
    BY <2>1, ScheduleLocks
  <2>4. SameHeld(lockTable', WithBothLocks(t))
    BY <2>2, <2>3, ClearingKeepsHeld DEF SameHeld
  <2> QED BY <2>1, <2>4 DEF GrantStep, Executing
<1>5. ASSUME NEW e \in running, NEW o \in TaskIds, CommitSucceeds(e, o) PROVE Effect
  <2>1. /\ Schedule(o, ObserverTask(task[e[1]].scope), queue, lockTable, <<>>, e)
        /\ UNCHANGED <<running, resolved, rejected>>
    BY <1>5 DEF CommitSucceeds
  <2>2. \/ lockTable' = lockTable
        \/ lockTable' = ClearReservedLocks(lockTable, ObserverTask(task[e[1]].scope).scope)
    BY <2>1, ScheduleLocks
  <2>3. SameHeld(lockTable', lockTable)
    BY <1>0, <2>2, ClearingKeepsHeld DEF SameHeld
  <2> QED BY <2>1, <2>3 DEF Executing, QuietStep
<1>6. ASSUME NEW e \in resolved \cup rejected, Handle(e) PROVE Effect
  <2>1. e \in Executing /\ Executing' = Executing \ {e}
    BY <1>6 DEF Executing, Handle, OnTaskSuccess, OnTaskError, PromiseStates
  <2>2. ReleaseStep(e)
    BY <1>6, <2>1 DEF ReleaseStep, Handle, OnTaskSuccess, OnTaskError
  <2> QED BY <2>1, <2>2
<1>7. CASE LoopEnds
  <2>1. ~Idle /\ running' = running \ {Innermost.caller} /\ lockTable' = lockTable
        /\ resolved' = resolved \cup ({Innermost.caller} \ {NoExecution})
        /\ rejected' = rejected
    BY <1>7 DEF LoopEnds
  <2>2. Innermost.caller \in running \cup {NoExecution}
    BY <2>1, StackFacts DEF Innermost, CallersRun, TypeOK
  <2> QED BY <2>1, <2>2 DEF Executing, QuietStep, SameHeld
<1>8. ASSUME NEW e \in running, ExecResolves(e) \/ ExecRejects(e) PROVE Effect
  BY <1>8 DEF ExecResolves, ExecRejects, Executing, QuietStep, SameHeld
<1>9. CASE UNCHANGED vars
  BY <1>9 DEF vars, Executing, QuietStep, SameHeld
<1> QED
  BY <1>1, <1>2, <1>3, <1>4, <1>5, <1>6, <1>7, <1>8, <1>9 DEF Next, Consume, Finish

\* A task has one descriptor from its scheduling on.
LEMMA KeepsFacts ==
    ASSUME Keeps, NEW t \in Scheduled
    PROVE  task'[t] = task[t] /\ (Writes(t))' = Writes(t)
BY DEF Keeps, Writes

\* What a release does to the locks of another task.
LEMMA ReleaseFacts ==
    ASSUME TypeOK, NEW t \in TaskIds, NEW u \in TaskIds, u # t,
           lockTable' = ReleaseLock(lockTable, t, task[t].scope), NEW d \in Tables
    PROVE  /\ lockTable[d].exclusive = u => lockTable'[d].exclusive = u
           /\ u \in lockTable[d].shared => u \in lockTable'[d].shared
<1>1. ASSUME NEW e \in LockTableEntry
      PROVE  /\ e.exclusive = u => EntryRelease(e, t).exclusive = u
             /\ u \in e.shared => u \in EntryRelease(e, t).shared
  BY DEF EntryRelease, LockTableEntry
<1>2. lockTable[d] \in LockTableEntry
  BY DEF TypeOK
<1> QED BY <1>1, <1>2 DEF ReleaseLock

-----------------------------------------------------------------------------
(* Writers exclude writers, whatever the tasks do *)

\* A writer executes under EXCLUSIVE locks, and as long as it holds them it is
\* not executed again.
WritersLocked ==
    \A e \in Executing :
        Writes(e[1]) =>
            /\ \A d \in task[e[1]].scope : lockTable[d].exclusive = e[1]
            /\ task[e[1]].scope # {} => \A f \in Executing : f[1] = e[1] => f = e

LEMMA ExecutingFacts ==
    ASSUME Bookkeeping
    PROVE  \A e \in Executing : /\ e \in Execution /\ e[1] \in TaskIds /\ e[1] # NoTask
                                /\ e[1] \in Scheduled /\ task[e[1]].scope \subseteq Tables
BY NoTaskAssumption
   DEF Bookkeeping, Executing, TypeOK, Execution, ExecutionsCounted, Task, Unscheduled

LEMMA WritersLockedStep ==
    Bookkeeping /\ WritersLocked /\ [Next]_vars => WritersLocked'
<1> SUFFICES ASSUME Bookkeeping, WritersLocked, [Next]_vars PROVE WritersLocked'
  OBVIOUS
<1>0. Bookkeeping' /\ Keeps /\ TypeOK
  BY BookkeepingStep DEF Bookkeeping
<1>1. \A e \in Executing : /\ e[1] \in TaskIds /\ e[1] # NoTask /\ e[1] \in Scheduled
                           /\ task[e[1]].scope \subseteq Tables
                           /\ task'[e[1]] = task[e[1]]
                           /\ (Writes(e[1]))' = Writes(e[1])
  BY <1>0, ExecutingFacts, KeepsFacts
<1>2. CASE QuietStep
  BY <1>1, <1>2 DEF QuietStep, SameHeld, WritersLocked, Writes
<1>3. ASSUME NEW t \in TaskIds, GrantStep(t) PROVE WritersLocked'
  <2>1. /\ \A d \in Tables \ task[t].scope : WithBothLocks(t)[d] = lockTable[d]
        /\ \A d \in task[t].scope :
              /\ d \in Tables
              /\ lockTable[d].exclusive = NoTask
              /\ Writes(t) => WithBothLocks(t)[d].exclusive = t
    BY <1>0, <1>3, BothLocksFacts DEF GrantStep
  <2>2. \A d \in Tables : lockTable'[d].exclusive = WithBothLocks(t)[d].exclusive
    BY <1>3 DEF GrantStep, SameHeld
  <2>3. ASSUME NEW e \in Executing, Writes(e[1])
        PROVE  \A d \in task[e[1]].scope : d \notin task[t].scope
    BY <1>1, <2>1, <2>3 DEF WritersLocked
  <2>4. ASSUME NEW e \in Executing, Writes(e[1])
        PROVE  \A d \in task[e[1]].scope : lockTable'[d].exclusive = e[1]
    BY <1>1, <2>1, <2>2, <2>3, <2>4 DEF WritersLocked
  <2>5. ASSUME NEW e \in Executing, Writes(e[1]), task[e[1]].scope # {}
        PROVE  e[1] # t
    BY <2>3, <2>5
  <2>6. NewExecution(t)[1] = t
    BY DEF NewExecution
  <2>7. Executing' \subseteq Executing \cup {NewExecution(t)}
    BY <1>3 DEF GrantStep
  <2>8. task'[t] = task[t] /\ (Writes(t))' = Writes(t)
    BY <1>0, <1>3, KeepsFacts DEF GrantStep
  <2>9. Writes(t) => \A d \in task[t].scope : lockTable'[d].exclusive = t
    BY <2>1, <2>2
  <2>10. ASSUME NEW e \in Executing', (Writes(e[1]))'
         PROVE  /\ \A d \in task'[e[1]].scope : lockTable'[d].exclusive = e[1]
                /\ task'[e[1]].scope # {} => \A f \in Executing' : f[1] = e[1] => f = e
    <3>1. CASE e \in Executing
      <4>1. Writes(e[1]) /\ task'[e[1]] = task[e[1]]
        BY <1>1, <2>10, <3>1
      <4>2. \A d \in task'[e[1]].scope : lockTable'[d].exclusive = e[1]
        BY <2>4, <3>1, <4>1
      <4>3. ASSUME task'[e[1]].scope # {}, NEW f \in Executing', f[1] = e[1] PROVE f = e
        BY <2>5, <2>6, <2>7, <3>1, <4>1, <4>3 DEF WritersLocked
      <4> QED BY <4>2, <4>3
    <3>2. CASE e \notin Executing
      <4>1. e = NewExecution(t) /\ e[1] = t
        BY <2>6, <2>7, <3>2
      <4>2. Writes(t)
        BY <2>8, <2>10, <4>1
      <4>3. \A d \in task'[t].scope : lockTable'[d].exclusive = t
        BY <2>8, <2>9, <4>2
      <4>4. ASSUME task[t].scope # {}, NEW f \in Executing', f[1] = t PROVE f = e
        BY <2>5, <2>7, <4>1, <4>2, <4>4
      <4> QED BY <2>8, <4>1, <4>3, <4>4
    <3> QED BY <3>1, <3>2
  <2> QED BY <2>10 DEF WritersLocked
<1>4. ASSUME NEW e \in Executing, ReleaseStep(e) PROVE WritersLocked'
  <2>1. /\ Executing' = Executing \ {e}
        /\ lockTable' = ReleaseLock(lockTable, e[1], task[e[1]].scope)
    BY <1>4 DEF ReleaseStep
  <2>2. ASSUME NEW f \in Executing, f # e, Writes(f[1]), NEW d \in task[f[1]].scope
        PROVE  lockTable'[d].exclusive = f[1]
    <3>1. f[1] # e[1]
      BY <2>2 DEF WritersLocked
    <3>2. lockTable[d].exclusive = f[1] /\ d \in Tables
      BY <1>1, <2>2 DEF WritersLocked
    <3> QED BY <1>0, <1>1, <2>1, <3>1, <3>2, ReleaseFacts
  <2> QED BY <1>1, <2>1, <2>2 DEF WritersLocked, Writes
<1> QED BY <1>2, <1>3, <1>4, StepEffect

\* Two executions that share a table never both write, with external changes,
\* tasks that throw and cleared reservations alike.
THEOREM WritersExclude == Spec => []WritersExcludeWriters
<1>1. Bookkeeping /\ WritersLocked => WritersExcludeWriters
  <2> SUFFICES ASSUME Bookkeeping, WritersLocked,
                      NEW e \in Executing, NEW f \in Executing,
                      e # f, Overlap(e[1], f[1]), Writes(e[1]), Writes(f[1])
               PROVE  FALSE
    BY DEF WritersExcludeWriters
  <2>1. PICK d \in task[e[1]].scope : d \in task[f[1]].scope
    BY DEF Overlap
  <2> QED BY <2>1 DEF WritersLocked
<1>2. Init => Bookkeeping /\ WritersLocked
  BY BookkeepingInit DEF Init, Executing, WritersLocked
<1>3. Bookkeeping /\ WritersLocked /\ [Next]_vars => (Bookkeeping /\ WritersLocked)'
  BY BookkeepingStep, WritersLockedStep
<1> QED BY <1>1, <1>2, <1>3, PTL DEF Spec

-----------------------------------------------------------------------------
(* Isolation, where no loop runs inside a loop *)

NoExternalChanges == "EXTERNAL_CHANGE" \notin ClientKinds

\* Without external changes there is at most one loop, it visits tasks that are
\* still in the queue, and so no task is executed twice.
OneLoop ==
    /\ \A t \in TaskIds : task[t].kind # "EXTERNAL_CHANGE"
    /\ Len(stack) <= 1
    /\ \A i \in DOMAIN stack : stack[i].rest \subseteq queue
    /\ \A e \in Executing : e[1] \notin queue
    /\ \A e, f \in Executing : e[1] = f[1] => e = f

LEMMA OnlyOne == \A n \in Nat \ {0} : n <= 1 => n = 1
OBVIOUS

LEMMA OneLoopStep ==
    ASSUME NoExternalChanges, Bookkeeping, OneLoop, [Next]_vars
    PROVE  OneLoop'
<1>0. TypeOK /\ QueueScheduled /\ CallersRun /\ ExecutionsCounted
  BY DEF Bookkeeping
<1>1. \A e \in Executing : e[1] \in Scheduled
  BY <1>0 DEF ExecutionsCounted
<1>2. ASSUME NEW t, t \in TaskIds, t \notin Scheduled, NEW d \in Task, d.kind # "EXTERNAL_CHANGE",
             NEW caller,
             Schedule(t, d, queue, lockTable, <<>>, caller),
             UNCHANGED <<running, resolved, rejected>>
      PROVE  OneLoop'
  <2>1. /\ task' = [task EXCEPT ![t] = d] /\ queue' = queue \cup {t}
        /\ stack' = Append(<<>>, Loop(queue', caller))
    BY <1>2 DEF Schedule
  <2>2. DOMAIN stack' = {1} /\ stack'[1] = Loop(queue', caller)
    BY <2>1, SingleLoop
  <2>3. Len(stack') <= 1
    BY <2>1
  <2>4. \A u \in TaskIds : task'[u].kind # "EXTERNAL_CHANGE"
    BY <1>0, <1>2, <2>1 DEF OneLoop, TypeOK
  <2> QED BY <1>1, <1>2, <2>1, <2>2, <2>3, <2>4 DEF OneLoop, Loop, Executing
<1>3. ASSUME NEW t \in TaskIds, NEW d \in ClientTask, ClientSchedules(t, d)
      PROVE  OneLoop'
  <2>1. d \in Task /\ d.kind # "EXTERNAL_CHANGE"
    BY DEF ClientTask, NoExternalChanges
  <2> QED BY <1>2, <1>3, <2>1 DEF ClientSchedules, NextTaskId
<1>4. ASSUME NEW e \in running, NEW o \in TaskIds, CommitSucceeds(e, o) PROVE OneLoop'
  <2>1. /\ ObserverTask(task[e[1]].scope) \in Task
        /\ ObserverTask(task[e[1]].scope).kind # "EXTERNAL_CHANGE"
    BY ObserverTaskType DEF ObserverTask
  <2> QED BY <1>2, <1>4, <2>1 DEF CommitSucceeds, NextTaskId
<1>5. ASSUME NEW t \in TaskIds, Visiting(t)
      PROVE  /\ Len(Advance(t)) <= 1 /\ DOMAIN Advance(t) = DOMAIN stack
             /\ \A i \in DOMAIN stack : /\ Advance(t)[i].rest = stack[i].rest \ {t}
                                        /\ t \in stack[i].rest
             /\ t \in queue
  <2>1. ~Idle /\ Len(stack) = 1 /\ stack \in Seq(Frame)
    <3>1. ~Idle /\ stack \in Seq(Frame) /\ Len(stack) <= 1
      BY <1>0, <1>5 DEF Visiting, OneLoop, TypeOK
    <3>2. Len(stack) \in Nat \ {0}
      BY <1>0, <3>1, StackFacts
    <3>3. Len(stack) = 1
      BY <3>1, <3>2, OnlyOne
    <3> QED BY <3>1, <3>3
  <2>2. /\ Len(Advance(t)) = 1 /\ Advance(t) \in Seq(Frame)
        /\ Advance(t)[1].rest = Innermost.rest \ {t}
    <3>1. /\ Len(Advance(t)) = Len(stack) /\ Advance(t) \in Seq(Frame)
          /\ Advance(t)[Len(stack)] = [rest |-> Innermost.rest \ {t},
                                       caller |-> Innermost.caller]
      BY <1>0, <2>1, StackFacts
    <3> QED BY <2>1, <3>1
  <2>3. DOMAIN stack = {1} /\ DOMAIN Advance(t) = {1}
    BY <2>1, <2>2
  <2>4. Innermost = stack[1]
    BY <2>1 DEF Innermost
  <2> QED BY <1>5, <2>1, <2>2, <2>3, <2>4 DEF Visiting, OneLoop
<1>6. ASSUME NEW t \in TaskIds, PassOver(t) PROVE OneLoop'
  <2>1. /\ Visiting(t) /\ stack' = Advance(t)
        /\ UNCHANGED <<task, queue, running, resolved, rejected>>
    BY <1>6 DEF PassOver
  <2> QED BY <1>5, <2>1 DEF OneLoop, Executing
<1>7. ASSUME NEW t \in TaskIds, StartAsync(t) \/ StartSync(t) PROVE OneLoop'
  <2>1. /\ Visiting(t) /\ stack' = Advance(t) /\ queue' = queue \ {t}
        /\ Executing' = Executing \cup {NewExecution(t)} /\ UNCHANGED task
    BY <1>7 DEF StartAsync, StartSync, Dispatch, Executing
  <2>2. NewExecution(t)[1] = t
    BY DEF NewExecution
  <2>3. \A i \in DOMAIN stack' : stack'[i].rest \subseteq queue'
    BY <1>5, <2>1 DEF OneLoop
  <2> QED BY <1>5, <2>1, <2>2, <2>3 DEF OneLoop
<1>8. ASSUME NEW t \in TaskIds, NEW o \in TaskIds, StartExternalChange(t, o) PROVE OneLoop'
  BY <1>8 DEF StartExternalChange, OneLoop
<1>9. ASSUME NEW t \in TaskIds, ExecThrows(t) PROVE OneLoop'
  <2>1. /\ stack' = <<>> /\ queue' = queue \ {t} /\ UNCHANGED <<task, resolved>>
        /\ running' = running \ Callers
        /\ rejected' = rejected \cup {e \in Callers : task[e[1]].kind = "USER_QUERY"}
    BY <1>9 DEF ExecThrows, Dispatch
  <2>2. Callers \subseteq running
    BY <1>0 DEF Callers, CallersRun
  <2>3. Executing' \subseteq Executing
    BY <2>1, <2>2 DEF Executing
  <2>4. Len(stack') = 0 /\ DOMAIN stack' = {}
    BY <2>1
  <2> QED BY <2>1, <2>3, <2>4 DEF OneLoop
<1>10. CASE LoopEnds
  <2>1. /\ ~Idle
        /\ running' = running \ {Innermost.caller}
        /\ resolved' = resolved \cup ({Innermost.caller} \ {NoExecution})
        /\ stack' = SubSeq(stack, 1, Len(stack) - 1)
        /\ UNCHANGED <<task, queue, rejected>>
    BY <1>10 DEF LoopEnds
  <2>2. Len(stack) = 1 /\ stack \in Seq(Frame)
    <3>1. stack \in Seq(Frame) /\ Len(stack) <= 1
      BY <1>0 DEF OneLoop, TypeOK
    <3>2. Len(stack) \in Nat \ {0}
      BY <1>0, <2>1, StackFacts
    <3>3. Len(stack) = 1
      BY <3>1, <3>2, OnlyOne
    <3> QED BY <3>1, <3>3
  <2>3. Len(stack') = 0 /\ DOMAIN stack' = {}
    BY <2>1, <2>2
  <2>4. Innermost.caller \in running \cup {NoExecution}
    BY <1>0, <2>2 DEF Innermost, CallersRun
  <2>5. Executing' \subseteq Executing
    BY <2>1, <2>4 DEF Executing
  <2> QED BY <2>1, <2>3, <2>5 DEF OneLoop
<1>11. ASSUME NEW e \in running, ExecResolves(e) \/ ExecRejects(e) PROVE OneLoop'
  <2>1. Executing' = Executing /\ UNCHANGED <<task, queue, stack>>
    BY <1>11 DEF ExecResolves, ExecRejects, Executing
  <2> QED BY <2>1 DEF OneLoop
<1>12. ASSUME NEW e \in resolved \cup rejected, Handle(e) PROVE OneLoop'
  <2>1. /\ Executing' \subseteq Executing /\ UNCHANGED <<task, queue>>
        /\ stack' = <<Loop(queue, NoExecution)>>
    BY <1>12 DEF Handle, OnTaskSuccess, OnTaskError, Executing
  <2>2. Len(stack') = 1 /\ DOMAIN stack' = {1} /\ stack'[1] = Loop(queue, NoExecution)
    BY <2>1
  <2> QED BY <2>1, <2>2 DEF OneLoop, Loop
<1>13. CASE UNCHANGED vars
  BY <1>13 DEF vars, OneLoop, Executing
<1> QED
  BY <1>3, <1>4, <1>6, <1>7, <1>8, <1>9, <1>10, <1>11, <1>12, <1>13 DEF Next, Consume, Finish

LEMMA UnderLockStep ==
    ASSUME Bookkeeping, OneLoop, ExecutesUnderLock, [Next]_vars
    PROVE  ExecutesUnderLock'
<1>0. Keeps /\ TypeOK
  BY BookkeepingStep DEF Bookkeeping
<1>1. \A e \in Executing : /\ e[1] \in TaskIds /\ e[1] # NoTask /\ e[1] \in Scheduled
                           /\ task[e[1]].scope \subseteq Tables
                           /\ task'[e[1]] = task[e[1]]
                           /\ (Writes(e[1]))' = Writes(e[1])
  BY <1>0, ExecutingFacts, KeepsFacts
<1>2. ASSUME NEW e \in Executing,
             \A d \in task[e[1]].scope :
                /\ Writes(e[1]) => lockTable'[d].exclusive = e[1]
                /\ ~Writes(e[1]) => e[1] \in lockTable'[d].shared
      PROVE  (HoldsLock(e[1]))'
  BY <1>1, <1>2 DEF HoldsLock, Writes
<1>3. \A e \in Executing, d \in Tables :
         d \in task[e[1]].scope => /\ Writes(e[1]) => lockTable[d].exclusive = e[1]
                                   /\ ~Writes(e[1]) => e[1] \in lockTable[d].shared
  BY DEF ExecutesUnderLock, HoldsLock
<1>4. CASE QuietStep
  BY <1>1, <1>2, <1>3, <1>4 DEF QuietStep, SameHeld, ExecutesUnderLock
<1>5. ASSUME NEW t \in TaskIds, GrantStep(t) PROVE ExecutesUnderLock'
  <2>1. /\ \A d \in Tables \ task[t].scope : WithBothLocks(t)[d] = lockTable[d]
        /\ \A d \in task[t].scope :
              /\ d \in Tables
              /\ lockTable[d].exclusive = NoTask
              /\ Writes(t) => /\ lockTable[d].shared = {}
                              /\ WithBothLocks(t)[d].exclusive = t
              /\ ~Writes(t) => WithBothLocks(t)[d].shared = lockTable[d].shared \cup {t}
    BY <1>0, <1>5, BothLocksFacts DEF GrantStep
  <2>2. \A d \in Tables : /\ lockTable'[d].exclusive = WithBothLocks(t)[d].exclusive
                          /\ lockTable'[d].shared = WithBothLocks(t)[d].shared
    BY <1>5 DEF GrantStep, SameHeld
  <2>3. ASSUME NEW e \in Executing, NEW d \in task[e[1]].scope
        PROVE  /\ Writes(e[1]) => lockTable'[d].exclusive = e[1]
               /\ ~Writes(e[1]) => e[1] \in lockTable'[d].shared
    BY <1>1, <1>3, <2>1, <2>2
  <2>4. \A e \in Executing : (HoldsLock(e[1]))'
    BY <1>2, <2>3
  <2>5. (HoldsLock(t))'
    <3>1. task'[t] = task[t] /\ (Writes(t))' = Writes(t)
      BY <1>0, <1>5, KeepsFacts DEF GrantStep
    <3>2. \A d \in task[t].scope : /\ Writes(t) => lockTable'[d].exclusive = t
                                   /\ ~Writes(t) => t \in lockTable'[d].shared
      BY <2>1, <2>2
    <3> QED BY <3>1, <3>2 DEF HoldsLock, Writes
  <2>6. Executing' \subseteq Executing \cup {NewExecution(t)} /\ NewExecution(t)[1] = t
    BY <1>5 DEF GrantStep, NewExecution
  <2> QED BY <2>4, <2>5, <2>6 DEF ExecutesUnderLock, HoldsLock, Writes
<1>6. ASSUME NEW e \in Executing, ReleaseStep(e) PROVE ExecutesUnderLock'
  <2>1. /\ Executing' = Executing \ {e}
        /\ lockTable' = ReleaseLock(lockTable, e[1], task[e[1]].scope)
    BY <1>6 DEF ReleaseStep
  <2>2. ASSUME NEW f \in Executing, f # e, NEW d \in task[f[1]].scope
        PROVE  /\ Writes(f[1]) => lockTable'[d].exclusive = f[1]
               /\ ~Writes(f[1]) => f[1] \in lockTable'[d].shared
    <3>1. f[1] # e[1] /\ d \in Tables
      BY <1>1, <2>2 DEF OneLoop
    <3>2. /\ lockTable[d].exclusive = f[1] => lockTable'[d].exclusive = f[1]
          /\ f[1] \in lockTable[d].shared => f[1] \in lockTable'[d].shared
      BY <1>0, <1>1, <2>1, <3>1, ReleaseFacts
    <3> QED BY <1>3, <3>1, <3>2
  <2> QED BY <1>2, <2>1, <2>2 DEF ExecutesUnderLock
<1> QED BY <1>4, <1>5, <1>6, StepEffect

\* The inductive invariant behind isolation.
IsolationInv ==
    Bookkeeping /\ LockTableConsistent /\ OneLoop /\ ExecutesUnderLock

LEMMA IsolationInvInductive ==
    ASSUME NoExternalChanges
    PROVE  /\ Init => IsolationInv
           /\ IsolationInv /\ [Next]_vars => IsolationInv'
<1>1. Init => IsolationInv
  <2> SUFFICES ASSUME Init PROVE IsolationInv
    OBVIOUS
  <2>1. LockTableConsistent
    BY DEF Init, LockTableConsistent, EntryConsistent, NewEntry
  <2>2. OneLoop
    BY DEF Init, OneLoop, Executing, Unscheduled
  <2>3. ExecutesUnderLock
    BY DEF Init, ExecutesUnderLock, Executing
  <2> QED BY <2>1, <2>2, <2>3, BookkeepingInit DEF IsolationInv
<1>2. IsolationInv /\ [Next]_vars => IsolationInv'
  BY BookkeepingStep, ConsistentStep, OneLoopStep, UnderLockStep DEF IsolationInv, Bookkeeping
<1> QED BY <1>1, <1>2

\* Without external changes a task executes under the locks its type asks for.
THEOREM UnderLock ==
    ASSUME NoExternalChanges PROVE Spec => []ExecutesUnderLock
<1>1. IsolationInv => ExecutesUnderLock
  BY DEF IsolationInv
<1> QED BY <1>1, IsolationInvInductive, PTL DEF Spec

LEMMA IsolationFollows == IsolationInv => Isolation
<1> SUFFICES ASSUME IsolationInv, NEW e \in Executing, NEW f \in Executing,
                    e # f, Overlap(e[1], f[1]), Writes(e[1]) \/ Writes(f[1])
             PROVE  FALSE
  BY DEF Isolation
<1>1. PICK d \in task[e[1]].scope : d \in task[f[1]].scope
  BY DEF Overlap
<1>2. d \in Tables /\ e[1] # NoTask /\ f[1] # NoTask /\ e[1] # f[1]
  BY <1>1, ExecutingFacts DEF IsolationInv, OneLoop
<1>3. EntryConsistent(lockTable[d])
  BY <1>2 DEF IsolationInv, LockTableConsistent
<1>4. /\ IF Writes(e[1]) THEN lockTable[d].exclusive = e[1] ELSE e[1] \in lockTable[d].shared
      /\ IF Writes(f[1]) THEN lockTable[d].exclusive = f[1] ELSE f[1] \in lockTable[d].shared
  BY <1>1 DEF IsolationInv, ExecutesUnderLock, HoldsLock
<1> QED BY <1>2, <1>3, <1>4 DEF EntryConsistent

\* Without external changes, of two executions that share a table neither writes.
THEOREM TasksIsolated ==
    ASSUME NoExternalChanges PROVE Spec => []Isolation
BY IsolationInvInductive, IsolationFollows, PTL DEF Spec

-----------------------------------------------------------------------------
(* Runner implements IsolatedTasks *)

Active == {e[1] : e \in Executing}

\* The promise of a task is pending while it waits and while it executes.
PendingUntilSettled ==
    \A t \in TaskIds : t \in queue \cup Active => resolver[t] = "pending"

LEMMA NewExecutionOf == \A t : NewExecution(t)[1] = t
BY DEF NewExecution

LEMMA PendingStep ==
    ASSUME Bookkeeping, OneLoop, PendingUntilSettled, ThrowingKinds = {}, [Next]_vars
    PROVE  PendingUntilSettled'
<1>0. TypeOK /\ QueueScheduled /\ CallersRun
  BY DEF Bookkeeping
<1>1. resolver \in [TaskIds -> {"none", "pending", "resolved", "rejected"}]
  BY <1>0 DEF TypeOK
<1>2. ASSUME NEW t, NEW d, NEW waiting \in SUBSET queue, NEW locks, NEW below, NEW caller,
             Schedule(t, d, waiting, locks, below, caller), Active' = Active, t \in TaskIds
      PROVE  PendingUntilSettled'
  <2>1. resolver' = [resolver EXCEPT ![t] = "pending"] /\ queue' = waiting \cup {t}
    BY <1>2 DEF Schedule
  <2> QED BY <1>1, <1>2, <2>1 DEF PendingUntilSettled
<1>3. ASSUME NEW t \in TaskIds, NEW d \in ClientTask, ClientSchedules(t, d)
      PROVE  PendingUntilSettled'
  BY <1>2, <1>3 DEF ClientSchedules, Active, Executing
<1>4. ASSUME NEW e \in running, NEW o \in TaskIds, CommitSucceeds(e, o)
      PROVE  PendingUntilSettled'
  BY <1>2, <1>4 DEF CommitSucceeds, Active, Executing
<1>5. ASSUME NEW t \in TaskIds, StartAsync(t) \/ StartSync(t)
      PROVE  PendingUntilSettled'
  <2>1. t \in queue
    <3>1. Visiting(t) /\ ~Idle
      BY <1>5 DEF StartAsync, StartSync, Dispatch, Visiting
    <3>2. Len(stack) \in DOMAIN stack
      BY <1>0, <3>1, StackFacts DEF TypeOK
    <3> QED BY <3>1, <3>2 DEF Visiting, Innermost, OneLoop
  <2>2. /\ UNCHANGED resolver /\ queue' = queue \ {t}
        /\ Executing' = Executing \cup {NewExecution(t)}
    BY <1>5 DEF StartAsync, StartSync, Dispatch, Executing
  <2>3. Active' = Active \cup {t}
    BY <2>2, NewExecutionOf DEF Active
  <2> QED BY <2>1, <2>2, <2>3 DEF PendingUntilSettled
<1>6. ASSUME NEW t \in TaskIds,
             \/ ExecThrows(t)
             \/ \E o \in TaskIds : StartExternalChange(t, o)
      PROVE  PendingUntilSettled'
  BY <1>6 DEF ExecThrows, StartExternalChange, OneLoop
<1>7. ASSUME \/ \E t \in TaskIds : PassOver(t)
             \/ \E e \in running : ExecResolves(e) \/ ExecRejects(e)
             \/ UNCHANGED vars
      PROVE  PendingUntilSettled'
  <2>1. Executing' = Executing /\ UNCHANGED <<queue, resolver>>
    BY <1>7 DEF PassOver, ExecResolves, ExecRejects, vars, Executing
  <2> QED BY <2>1 DEF PendingUntilSettled, Active
<1>8. CASE LoopEnds
  <2>1. ~Idle /\ UNCHANGED <<queue, resolver, rejected>>
        /\ running' = running \ {Innermost.caller}
        /\ resolved' = resolved \cup ({Innermost.caller} \ {NoExecution})
    BY <1>8 DEF LoopEnds
  <2>2. Innermost.caller \in running \cup {NoExecution}
    BY <1>0, <2>1, StackFacts DEF Innermost, CallersRun, TypeOK
  <2>3. Executing' \subseteq Executing
    BY <2>1, <2>2 DEF Executing
  <2> QED BY <2>1, <2>3 DEF PendingUntilSettled, Active
<1>9. ASSUME NEW e \in resolved \cup rejected, Handle(e) PROVE PendingUntilSettled'
  <2>1. /\ e \in Executing /\ Executing' = Executing \ {e} /\ UNCHANGED queue
        /\ \/ Settle(e[1], "resolved") \/ Settle(e[1], "rejected")
    BY <1>9 DEF Handle, OnTaskSuccess, OnTaskError, Executing, PromiseStates, Bookkeeping
  <2>2. e[1] \notin queue \cup Active'
    BY <2>1 DEF OneLoop, Active
  <2>3. \A t \in TaskIds : t # e[1] => resolver'[t] = resolver[t]
    BY <1>1, <2>1 DEF Settle
  <2> QED BY <2>1, <2>2, <2>3 DEF PendingUntilSettled, Active
<1> QED BY <1>3, <1>4, <1>5, <1>6, <1>7, <1>8, <1>9 DEF Next, Consume, Finish

phaseBar == [t \in TaskIds |-> Phase(t)]

LEMMA UnscheduledPhase ==
    ASSUME NEW t, task[t] = Unscheduled, t \notin Active PROVE Phase(t) = "unscheduled"
BY DEF Phase, Active

\* scheduleTask submits a task.
LEMMA ScheduleSubmits ==
    ASSUME Bookkeeping, NEW t \in TaskIds, t \notin Scheduled, NEW d \in Task,
           NEW waiting, NEW locks, NEW below, NEW caller,
           Schedule(t, d, waiting, locks, below, caller), Executing' = Executing
    PROVE  Isolated!Submit(t, d)
<1>1. /\ task' = [task EXCEPT ![t] = d]
      /\ resolver' = [resolver EXCEPT ![t] = "pending"]
      /\ task \in [TaskIds -> Task \cup {Unscheduled}]
      /\ resolver \in [TaskIds -> {"none", "pending", "resolved", "rejected"}]
  BY DEF Schedule, Bookkeeping, TypeOK
<1>2. d # Unscheduled /\ task[t] = Unscheduled
  BY DEF Task, Unscheduled, TaskKind, Scheduled
<1>3. t \notin Active /\ Active' = Active
  BY ExecutingFacts DEF Active
<1>4. Phase(t) = "unscheduled" /\ (Phase(t))' = "waiting"
  BY <1>1, <1>2, <1>3 DEF Phase, Active
<1>5. \A u \in TaskIds : u # t => (Phase(u))' = Phase(u)
  BY <1>1, <1>3 DEF Phase, Active
<1>6. phaseBar' = [phaseBar EXCEPT ![t] = "waiting"]
  BY <1>4, <1>5 DEF phaseBar
<1> QED BY <1>1, <1>4, <1>6 DEF Isolated!Submit, phaseBar

\* A task starts only beside tasks it does not conflict with.
LEMMA DispatchStarts ==
    ASSUME IsolationInv, PendingUntilSettled, NEW t \in TaskIds,
           StartAsync(t) \/ StartSync(t)
    PROVE  Isolated!Start(t)
<1>0. TypeOK /\ QueueScheduled /\ OneLoop /\ ExecutesUnderLock
  BY DEF IsolationInv, Bookkeeping
<1>1. /\ Visiting(t) /\ ~Idle /\ AcquiresLock(t)
      /\ UNCHANGED <<task, resolver>>
      /\ Executing' = Executing \cup {NewExecution(t)}
  BY DEF StartAsync, StartSync, Dispatch, Visiting, Executing
<1>2. t \in queue /\ t \in Scheduled /\ t \notin Active
  <2>1. Len(stack) \in DOMAIN stack
    BY <1>0, <1>1, StackFacts DEF TypeOK
  <2> QED BY <1>0, <1>1, <2>1 DEF Visiting, Innermost, OneLoop, QueueScheduled, Active
<1>3. Active' = Active \cup {t}
  BY <1>1, NewExecutionOf DEF Active
<1>4. Phase(t) = "waiting" /\ (Phase(t))' = "running"
  BY <1>1, <1>2, <1>3 DEF Phase, PendingUntilSettled, Active, Scheduled
<1>5. \A u \in TaskIds : u # t => (Phase(u))' = Phase(u)
  BY <1>1, <1>3 DEF Phase, Active
<1>6. phaseBar' = [phaseBar EXCEPT ![t] = "running"]
  BY <1>4, <1>5 DEF phaseBar
<1>7. ASSUME NEW u \in TaskIds, u # t, Phase(u) = "running"
      PROVE  ~Isolated!Conflict(t, u)
  <2>1. u \in Active
    BY <1>7 DEF Phase, Active
  <2>2. HoldsLock(u) /\ u # NoTask
    BY <1>0, <2>1, NoTaskAssumption DEF ExecutesUnderLock, Active
  <2>3. \A d \in task[t].scope : /\ lockTable[d].exclusive = NoTask
                                 /\ Writes(t) => lockTable[d].shared = {}
    BY <1>0, <1>1, BothLocksFacts
  <2>4. task[t].type = "READ_WRITE" \/ task[u].type = "READ_WRITE"
            => task[t].scope \cap task[u].scope = {}
    BY <2>2, <2>3 DEF HoldsLock, Writes
  <2> QED BY <2>4 DEF Isolated!Conflict
<1> QED BY <1>1, <1>4, <1>6, <1>7 DEF Isolated!Start, phaseBar

\* The handler of a promise finishes the task.
LEMMA HandleFinishes ==
    ASSUME IsolationInv, PendingUntilSettled, NEW e \in resolved \cup rejected, Handle(e)
    PROVE  Isolated!Finish(e[1])
<1> DEFINE t == e[1]
<1>0. Bookkeeping /\ TypeOK /\ OneLoop
  BY DEF IsolationInv, Bookkeeping
<1>1. /\ e \in Executing /\ Executing' = Executing \ {e} /\ UNCHANGED task
      /\ Settle(t, "resolved") \/ Settle(t, "rejected")
  BY <1>0 DEF Handle, OnTaskSuccess, OnTaskError, Executing, PromiseStates, Bookkeeping
<1>2. t \in TaskIds /\ t \in Scheduled /\ t \in Active
  BY <1>0, <1>1, ExecutingFacts DEF Active
<1>3. Active' = Active \ {t}
  BY <1>0, <1>1 DEF Active, OneLoop
<1>4. /\ resolver'[t] # "pending"
      /\ \A u \in TaskIds : u # t => resolver'[u] = resolver[u]
  BY <1>0, <1>1, <1>2 DEF Settle, PendingUntilSettled, TypeOK
<1> HIDE DEF t
<1>5. Phase(t) = "running" /\ (Phase(t))' = "settled"
  BY <1>1, <1>2, <1>3, <1>4 DEF Phase, Active, Scheduled
<1>6. \A u \in TaskIds : u # t => (Phase(u))' = Phase(u)
  BY <1>1, <1>3, <1>4 DEF Phase, Active
<1>7. phaseBar' = [phaseBar EXCEPT ![t] = "settled"]
  BY <1>5, <1>6 DEF phaseBar
<1> QED BY <1>1, <1>2, <1>5, <1>7 DEF Isolated!Finish, phaseBar, t

LEMMA StepImplements ==
    ASSUME ThrowingKinds = {}, IsolationInv, PendingUntilSettled, [Next]_vars
    PROVE  [Isolated!Next]_<<task, phaseBar>>
<1>0. Bookkeeping /\ TypeOK /\ OneLoop /\ CallersRun
  BY DEF IsolationInv, Bookkeeping
<1>1. ASSUME NEW t \in TaskIds, NEW d \in ClientTask, ClientSchedules(t, d)
      PROVE  Isolated!Next
  <2>1. Isolated!Submit(t, d) /\ d \in Task
    BY <1>0, <1>1, ScheduleSubmits DEF ClientSchedules, NextTaskId, Executing, ClientTask
  <2> QED BY <2>1 DEF Isolated!Next
<1>2. ASSUME NEW e \in running, NEW o \in TaskIds, CommitSucceeds(e, o)
      PROVE  Isolated!Next
  <2>1. Isolated!Submit(o, ObserverTask(task[e[1]].scope))
    BY <1>0, <1>2, ScheduleSubmits, ObserverTaskType
       DEF CommitSucceeds, NextTaskId, Executing
  <2> QED BY <2>1, ObserverTaskType DEF Isolated!Next
<1>3. ASSUME NEW t \in TaskIds, StartAsync(t) \/ StartSync(t) PROVE Isolated!Next
  BY <1>3, DispatchStarts DEF Isolated!Next
<1>4. ASSUME NEW e \in resolved \cup rejected, Handle(e) PROVE Isolated!Next
  BY <1>0, <1>4, HandleFinishes DEF Isolated!Next, TypeOK, Execution
<1>5. ASSUME NEW t \in TaskIds,
             \/ ExecThrows(t)
             \/ \E o \in TaskIds : StartExternalChange(t, o)
      PROVE  FALSE
  BY <1>0, <1>5 DEF ExecThrows, StartExternalChange, OneLoop
<1>6. ASSUME Executing' = Executing, UNCHANGED <<task, resolver>>
      PROVE  UNCHANGED <<task, phaseBar>>
  <2>1. \A t \in TaskIds : (Phase(t))' = Phase(t)
    BY <1>6 DEF Phase
  <2> QED BY <1>6, <2>1 DEF phaseBar
<1>7. ASSUME \/ \E t \in TaskIds : PassOver(t)
             \/ \E e \in running : ExecResolves(e) \/ ExecRejects(e)
             \/ UNCHANGED vars
      PROVE  UNCHANGED <<task, phaseBar>>
  BY <1>6, <1>7 DEF PassOver, ExecResolves, ExecRejects, vars, Executing
<1>8. CASE LoopEnds
  <2>1. ~Idle /\ UNCHANGED <<task, resolver, rejected>>
        /\ running' = running \ {Innermost.caller}
        /\ resolved' = resolved \cup ({Innermost.caller} \ {NoExecution})
    BY <1>8 DEF LoopEnds
  <2>2. Innermost.caller \in running \cup {NoExecution}
    BY <1>0, <2>1, StackFacts DEF Innermost, CallersRun, TypeOK
  <2>3. NoExecution \notin running
    BY <1>0, NoTaskAssumption DEF TypeOK, Execution, NoExecution
  <2>4. Executing' = Executing
    BY <2>1, <2>2, <2>3 DEF Executing
  <2> QED BY <1>6, <2>1, <2>4
<1> QED
  BY <1>1, <1>2, <1>3, <1>4, <1>5, <1>7, <1>8 DEF Next, Consume, Finish

\* Without external changes and tasks that throw, the Runner with its locks,
\* queue, priorities and loops implements IsolatedTasks: each task runs once,
\* never beside a task it conflicts with, and settles after it ran.
THEOREM ImplementsIsolatedTasks ==
    ASSUME NoExternalChanges, ThrowingKinds = {}
    PROVE  Spec => RunsTasksIsolated
<1> DEFINE Inv == IsolationInv /\ PendingUntilSettled
<1>1. Init => Inv /\ Isolated!Init
  <2> SUFFICES ASSUME Init PROVE Inv /\ Isolated!Init
    OBVIOUS
  <2>1. PendingUntilSettled
    BY DEF Init, PendingUntilSettled, Active, Executing
  <2>2. ASSUME NEW t \in TaskIds PROVE Phase(t) = "unscheduled"
    <3>1. task[t] = Unscheduled /\ t \notin Active
      BY DEF Init, Active, Executing
    <3> QED BY <3>1, UnscheduledPhase
  <2> QED BY <2>1, <2>2, IsolationInvInductive DEF Init, Isolated!Init
<1>2. Inv /\ [Next]_vars => Inv'
  BY IsolationInvInductive, PendingStep DEF IsolationInv
<1>3. Inv /\ [Next]_vars => [Isolated!Next]_<<task, [t \in TaskIds |-> Phase(t)]>>
  BY StepImplements DEF phaseBar
<1> QED BY <1>1, <1>2, <1>3, PTL DEF Spec, RunsTasksIsolated, Isolated!Spec

-----------------------------------------------------------------------------
(* Waiting tasks: the steps *)

\* The tasks the loop has not come to.
Ahead == UNION {stack[i].rest : i \in DOMAIN stack}

\* What clients schedule, and what commits schedule for observed queries.
Proper(d) == d \in ClientTask \/ \E tables : d = ObserverTask(tables)

\* A step schedules a task,
Submits(t, d) ==
    /\ NextTaskId(t) /\ d \in Task /\ Proper(d)
    /\ task' = [task EXCEPT ![t] = d]
    /\ queue' = queue \cup {t}
    /\ lockTable' = IF Priority(d.kind) < 2 THEN ClearReservedLocks(lockTable, d.scope) ELSE lockTable
    /\ Ahead' = queue'
    /\ UNCHANGED calls /\ Executing' = Executing

\* or looks at a task, the first of those ahead,
Visits(t) ==
    /\ t \in Ahead /\ t \in queue
    /\ \A u \in Ahead \ {t} : Precedes(t, u)
    /\ Ahead' = Ahead \ {t}
    /\ UNCHANGED task

\* which is passed over
Refuses(t) ==
    /\ Visits(t)
    /\ ~AcquiresLock(t)
    /\ lockTable' = WithFirstLock(t)
    /\ UNCHANGED <<queue, calls>> /\ Executing' = Executing

\* or starts to execute;
Starts(t) ==
    /\ Visits(t)
    /\ AcquiresLock(t)
    /\ lockTable' = WithBothLocks(t)
    /\ queue' = queue \ {t}
    /\ calls' = [calls EXCEPT ![t] = @ + 1]
    /\ Executing' = Executing \cup {NewExecution(t)}

\* or it handles the end of an execution,
Ends(e) ==
    /\ lockTable' = ReleaseLock(lockTable, e[1], task[e[1]].scope)
    /\ Ahead' = queue
    /\ UNCHANGED <<task, queue, calls>> /\ Executing' = Executing \ {e}

\* or nothing that matters to those who wait.
Rests ==
    /\ UNCHANGED <<task, queue, calls, lockTable>>
    /\ Ahead' = Ahead /\ Executing' = Executing

\* A stack that has become one loop, or none.
LEMMA AheadOfOne ==
    /\ \A f : stack' = Append(<<>>, f) \/ stack' = <<f>> => Ahead' = f.rest
    /\ stack' = <<>> => Ahead' = {}
    /\ Idle => Ahead = {}
<1>1. ASSUME NEW f, stack' = Append(<<>>, f) \/ stack' = <<f>> PROVE Ahead' = f.rest
  <2>1. DOMAIN stack' = {1} /\ stack'[1] = f
    BY <1>1, SingleLoop
  <2> QED BY <2>1 DEF Ahead
<1>2. ASSUME stack' = <<>> PROVE Ahead' = {}
  BY <1>2 DEF Ahead
<1>3. ASSUME Idle PROVE Ahead = {}
  BY <1>3 DEF Ahead, Idle
<1> QED BY <1>1, <1>2, <1>3

\* The one loop, while it runs.
LEMMA AheadOfLoop ==
    ASSUME TypeOK, OneLoop, ~Idle
    PROVE  /\ Len(stack) = 1 /\ stack \in Seq(Frame) /\ DOMAIN stack = {1}
           /\ Innermost = stack[1] /\ Ahead = Innermost.rest
<1>1. stack \in Seq(Frame) /\ Len(stack) <= 1
  BY DEF OneLoop, TypeOK
<1>2. Len(stack) \in Nat \ {0}
  BY StackFacts
<1>3. Len(stack) = 1
  BY <1>1, <1>2, OnlyOne
<1>4. DOMAIN stack = {1}
  BY <1>1, <1>3
<1>5. Innermost = stack[1]
  BY <1>3 DEF Innermost
<1> QED BY <1>1, <1>3, <1>4, <1>5 DEF Ahead

\* A visit takes the task it looks at from those ahead.
LEMMA VisitFacts ==
    ASSUME TypeOK, OneLoop, NEW t \in TaskIds, Visiting(t), stack' = Advance(t), UNCHANGED task
    PROVE  Visits(t)
<1>1. ~Idle
  BY DEF Visiting
<1>2. Len(stack) = 1 /\ stack \in Seq(Frame) /\ DOMAIN stack = {1}
      /\ Innermost = stack[1] /\ Ahead = Innermost.rest
  BY <1>1, AheadOfLoop
<1>3. Advance(t) \in Seq(Frame) /\ Len(Advance(t)) = 1 /\ Advance(t)[1].rest = Innermost.rest \ {t}
  <2>1. /\ Advance(t) \in Seq(Frame) /\ Len(Advance(t)) = Len(stack)
        /\ Advance(t)[Len(stack)] = [rest |-> Innermost.rest \ {t}, caller |-> Innermost.caller]
    BY <1>1, StackFacts
  <2> QED BY <1>2, <2>1
<1>4. DOMAIN stack' = {1}
  BY <1>3
<1>5. Ahead' = Ahead \ {t}
  BY <1>2, <1>3, <1>4 DEF Ahead
<1>6. t \in queue
  BY <1>2 DEF Visiting, OneLoop
<1> QED BY <1>2, <1>5, <1>6 DEF Visiting, Visits

LEMMA Steps ==
    ASSUME ThrowingKinds = {}, IsolationInv, [Next]_vars
    PROVE  \/ \E t \in TaskIds, d \in Task : Submits(t, d)
           \/ \E t \in TaskIds : Refuses(t) \/ Starts(t)
           \/ \E e \in Executing : Ends(e)
           \/ Rests
<1> DEFINE Step == \/ \E t \in TaskIds, d \in Task : Submits(t, d)
                   \/ \E t \in TaskIds : Refuses(t) \/ Starts(t)
                   \/ \E e \in Executing : Ends(e)
                   \/ Rests
<1>0. TypeOK /\ OneLoop /\ CallersRun /\ PromiseStates
  BY DEF IsolationInv, Bookkeeping
<1>1. ASSUME NEW t \in TaskIds, NEW d \in Task, NEW caller, Proper(d), NextTaskId(t),
             Schedule(t, d, queue, lockTable, <<>>, caller),
             UNCHANGED <<calls, running, resolved, rejected>>
      PROVE  Submits(t, d)
  <2>1. Ahead' = queue'
    BY <1>1, AheadOfOne DEF Schedule, Loop
  <2> QED BY <1>1, <2>1 DEF Submits, Schedule, Executing
<1>2. ASSUME NEW t \in TaskIds, NEW d \in ClientTask, ClientSchedules(t, d) PROVE Step
  <2>1. d \in Task /\ Proper(d)
    BY DEF ClientTask, Proper
  <2>2. Submits(t, d)
    BY <1>1, <1>2, <2>1 DEF ClientSchedules
  <2> QED BY <2>1, <2>2
<1>3. ASSUME NEW e \in running, NEW o \in TaskIds, CommitSucceeds(e, o) PROVE Step
  <2> DEFINE d == ObserverTask(task[e[1]].scope)
  <2>1. d \in Task /\ Proper(d)
    BY ObserverTaskType DEF Proper
  <2>2. Schedule(o, d, queue, lockTable, <<>>, e) /\ NextTaskId(o)
        /\ UNCHANGED <<calls, running, resolved, rejected>>
    BY <1>3 DEF CommitSucceeds
  <2> HIDE DEF d
  <2>3. Submits(o, d)
    BY <1>1, <2>1, <2>2
  <2> QED BY <2>1, <2>3
<1>4. ASSUME NEW t \in TaskIds, PassOver(t) PROVE Step
  <2>1. Visits(t)
    BY <1>0, <1>4, VisitFacts DEF PassOver
  <2>2. Refuses(t)
    BY <1>4, <2>1 DEF PassOver, Refuses, Executing
  <2> QED BY <2>2
<1>5. ASSUME NEW t \in TaskIds, StartAsync(t) \/ StartSync(t) PROVE Step
  <2>1. /\ Visiting(t) /\ AcquiresLock(t) /\ stack' = Advance(t) /\ UNCHANGED task
        /\ lockTable' = WithBothLocks(t) /\ queue' = queue \ {t}
        /\ calls' = [calls EXCEPT ![t] = @ + 1]
        /\ Executing' = Executing \cup {NewExecution(t)}
    BY <1>5 DEF StartAsync, StartSync, Dispatch, Executing
  <2>2. Visits(t)
    BY <1>0, <2>1, VisitFacts
  <2>3. Starts(t)
    BY <2>1, <2>2 DEF Starts
  <2> QED BY <2>3
<1>6. ASSUME NEW t \in TaskIds, ExecThrows(t) \/ \E o \in TaskIds : StartExternalChange(t, o)
      PROVE  Step
  BY <1>0, <1>6 DEF ExecThrows, StartExternalChange, OneLoop
<1>7. ASSUME NEW e \in resolved \cup rejected, Handle(e) PROVE Step
  <2>1. /\ e \in Executing /\ Executing' = Executing \ {e}
        /\ lockTable' = ReleaseLock(lockTable, e[1], task[e[1]].scope)
        /\ UNCHANGED <<task, queue, calls>>
        /\ stack' = <<Loop(queue, NoExecution)>>
    BY <1>0, <1>7 DEF Handle, OnTaskSuccess, OnTaskError, Executing, PromiseStates
  <2>2. Ahead' = queue
    BY <2>1, AheadOfOne DEF Loop
  <2>3. Ends(e)
    BY <2>1, <2>2 DEF Ends
  <2> QED BY <2>1, <2>3
<1>8. CASE LoopEnds
  <2>1. /\ ~Idle /\ Innermost.rest = {}
        /\ UNCHANGED <<task, queue, calls, lockTable, rejected>>
        /\ running' = running \ {Innermost.caller}
        /\ resolved' = resolved \cup ({Innermost.caller} \ {NoExecution})
        /\ stack' = SubSeq(stack, 1, Len(stack) - 1)
    BY <1>8 DEF LoopEnds
  <2>2. Len(stack) = 1 /\ stack \in Seq(Frame) /\ DOMAIN stack = {1}
        /\ Innermost = stack[1] /\ Ahead = {}
    BY <1>0, <2>1, AheadOfLoop
  <2>3. stack' = <<>>
    BY <2>1, <2>2
  <2>4. Innermost.caller \in running \cup {NoExecution} /\ NoExecution \notin running
    BY <1>0, <2>2, NoTaskAssumption DEF CallersRun, TypeOK, Execution, NoExecution
  <2>5. Executing' = Executing
    BY <2>1, <2>4 DEF Executing
  <2>6. Ahead' = Ahead
    BY <2>2, <2>3, AheadOfOne
  <2> QED BY <2>1, <2>5, <2>6 DEF Rests
<1>9. ASSUME NEW e \in running, ExecResolves(e) \/ ExecRejects(e) PROVE Step
  <2>1. Executing' = Executing /\ UNCHANGED <<task, queue, calls, lockTable, stack>>
    BY <1>9 DEF ExecResolves, ExecRejects, Executing
  <2> QED BY <2>1 DEF Rests, Ahead
<1>10. CASE UNCHANGED vars
  BY <1>10 DEF vars, Rests, Ahead, Executing
<1> QED
  BY <1>2, <1>3, <1>4, <1>5, <1>6, <1>7, <1>8, <1>9, <1>10 DEF Next, Consume, Finish

-----------------------------------------------------------------------------
(* What the steps do to the locks and reservations on a table *)

CanReserve(t) == CanAcquireLock(lockTable, t, task[t].scope, FirstLock(t))

LEMMA TaskFacts ==
    ASSUME TypeOK, NEW t \in TaskIds
    PROVE  /\ task[t].scope \subseteq Tables
           /\ FirstLock(t) = IF Writes(t) THEN "RESERVED_READ_WRITE" ELSE "RESERVED_READ_ONLY"
           /\ SecondLock(t) = IF Writes(t) THEN "EXCLUSIVE" ELSE "SHARED"
           /\ \A d \in Tables : lockTable[d] \in LockTableEntry
BY DEF TypeOK, Task, Unscheduled, FirstLock, SecondLock, Writes

\* When the first lock is to be had: a writer where no reader and no other writer
\* has a reservation, a reader where no writer has one.
LEMMA CanReserveIff ==
    ASSUME TypeOK, NEW t \in TaskIds
    PROVE  CanReserve(t) <=>
             \A d \in task[t].scope :
                /\ Writes(t) => lockTable[d].reservedRO = {} /\ lockTable[d].reservedRW \in {NoTask, t}
                /\ ~Writes(t) => lockTable[d].reservedRW = NoTask
BY TaskFacts DEF CanReserve, CanAcquireLock, EntryCanAcquire

\* What the first lock, asked for, leaves of an entry.
LEMMA FirstLockEntry ==
    ASSUME TypeOK, NEW t \in TaskIds, NEW d \in Tables
    PROVE  LET e == WithFirstLock(t)[d]
               granted == CanReserve(t) /\ d \in task[t].scope
           IN  /\ e \in LockTableEntry
               /\ e.exclusive = lockTable[d].exclusive /\ e.shared = lockTable[d].shared
               /\ ~granted => e = lockTable[d]
               /\ granted /\ Writes(t) => e.reservedRW = t /\ e.reservedRO = lockTable[d].reservedRO
               /\ granted /\ ~Writes(t) => /\ e.reservedRW = lockTable[d].reservedRW
                                           /\ e.reservedRO = lockTable[d].reservedRO \cup {t}
<1> DEFINE granted == CanReserve(t) /\ d \in task[t].scope
<1>1. WithFirstLock(t)[d] = IF granted THEN EntryGrant(lockTable[d], t, FirstLock(t)) ELSE lockTable[d]
  BY DEF WithFirstLock, RequestLock, GrantLock, CanReserve
<1>2. lockTable[d] \in LockTableEntry
  BY TaskFacts
<1> HIDE DEF granted
<1>3. CASE ~granted
  BY <1>1, <1>2, <1>3 DEF granted
<1>4. CASE granted /\ Writes(t)
  <2>1. WithFirstLock(t)[d] = EntryGrant(lockTable[d], t, "RESERVED_READ_WRITE")
    BY <1>1, <1>4, TaskFacts
  <2>2. WithFirstLock(t)[d] \in LockTableEntry
    BY <1>2, <2>1, EntryFacts DEF LockType
  <2> QED BY <1>2, <1>4, <2>1, <2>2, EntryFacts DEF granted
<1>5. CASE granted /\ ~Writes(t)
  <2>1. WithFirstLock(t)[d] = EntryGrant(lockTable[d], t, "RESERVED_READ_ONLY")
    BY <1>1, <1>5, TaskFacts
  <2>2. WithFirstLock(t)[d] \in LockTableEntry
    BY <1>2, <2>1, EntryFacts DEF LockType
  <2> QED BY <1>2, <1>5, <2>1, <2>2, EntryFacts DEF granted
<1> QED BY <1>3, <1>4, <1>5

\* Nothing but a lock that is held keeps a task that has its first lock from the
\* second.
LEMMA AcquiresFacts ==
    ASSUME TypeOK, LockTableConsistent, NEW t \in TaskIds
    PROVE  /\ AcquiresLock(t) => CanReserve(t)
           /\ CanReserve(t) /\ (\A d \in task[t].scope : lockTable[d].exclusive = NoTask
                                                         /\ lockTable[d].shared = {})
                => AcquiresLock(t)
<1>1. AcquiresLock(t) => CanReserve(t)
  BY DEF AcquiresLock, CanReserve
<1>2. ASSUME CanReserve(t), NEW d \in task[t].scope,
             lockTable[d].exclusive = NoTask, lockTable[d].shared = {}
      PROVE  EntryCanAcquire(WithFirstLock(t)[d], t, SecondLock(t))
  <2>1. d \in Tables
    BY TaskFacts
  <2>2. CASE Writes(t)
    <3>1. lockTable[d].reservedRO = {} /\ SecondLock(t) = "EXCLUSIVE"
      BY <1>2, <2>2, CanReserveIff, TaskFacts
    <3> QED BY <1>2, <2>1, <2>2, <3>1, FirstLockEntry DEF EntryCanAcquire
  <2>3. CASE ~Writes(t)
    <3>1. lockTable[d].reservedRW = NoTask /\ SecondLock(t) = "SHARED"
      BY <1>2, <2>3, CanReserveIff, TaskFacts
    <3>2. t \in WithFirstLock(t)[d].reservedRO
      BY <1>2, <2>1, <2>3, FirstLockEntry
    <3> QED BY <1>2, <2>1, <2>3, <3>1, <3>2, FirstLockEntry DEF EntryCanAcquire
  <2> QED BY <2>2, <2>3
<1> QED BY <1>1, <1>2 DEF AcquiresLock, CanReserve, CanAcquireLock

\* A task that starts has its locks and no reservation.
LEMMA BothLocksEntry ==
    ASSUME TypeOK, NEW t \in TaskIds, AcquiresLock(t), NEW d \in Tables
    PROVE  LET e == WithBothLocks(t)[d]
           IN  /\ e \in LockTableEntry
               /\ d \notin task[t].scope => e = lockTable[d]
               /\ d \in task[t].scope =>
                    /\ e.exclusive \in {t, lockTable[d].exclusive}
                    /\ e.shared \subseteq lockTable[d].shared \cup {t}
                    /\ e.reservedRW = NoTask
                    /\ lockTable[d].reservedRW \in {NoTask, t}
                    /\ e.reservedRO = lockTable[d].reservedRO \ {t}
<1>1. /\ WithBothLocks(t)[d] \in LockTableEntry
      /\ d \notin task[t].scope => WithBothLocks(t)[d] = lockTable[d]
  BY BothLocksFacts
<1>2. ASSUME d \in task[t].scope
      PROVE  /\ WithBothLocks(t)[d].exclusive \in {t, lockTable[d].exclusive}
             /\ WithBothLocks(t)[d].shared \subseteq lockTable[d].shared \cup {t}
             /\ WithBothLocks(t)[d].reservedRW = NoTask
  BY <1>2, BothLocksFacts
<1>3. ASSUME d \in task[t].scope
      PROVE  /\ lockTable[d].reservedRW \in {NoTask, t}
             /\ WithBothLocks(t)[d].reservedRO = lockTable[d].reservedRO \ {t}
  <2>1. CanReserve(t)
    BY DEF AcquiresLock, CanReserve
  <2>2. WithBothLocks(t)[d] = EntryGrant(WithFirstLock(t)[d], t, SecondLock(t))
    BY <1>3 DEF WithBothLocks, GrantLock
  <2>3. WithFirstLock(t)[d] \in LockTableEntry
    BY FirstLockEntry
  <2>4. CASE Writes(t)
    <3>1. lockTable[d].reservedRO = {} /\ lockTable[d].reservedRW \in {NoTask, t}
      BY <1>3, <2>1, <2>4, CanReserveIff
    <3>2. WithBothLocks(t)[d].reservedRO = WithFirstLock(t)[d].reservedRO
      BY <2>2, <2>3, <2>4, TaskFacts, EntryFacts
    <3> QED BY <1>3, <2>1, <2>4, <3>1, <3>2, FirstLockEntry
  <2>5. CASE ~Writes(t)
    <3>1. lockTable[d].reservedRW = NoTask
      BY <1>3, <2>1, <2>5, CanReserveIff
    <3>2. WithBothLocks(t)[d].reservedRO = WithFirstLock(t)[d].reservedRO \ {t}
      BY <2>2, <2>3, <2>5, TaskFacts, EntryFacts
    <3>3. WithFirstLock(t)[d].reservedRO = lockTable[d].reservedRO \cup {t}
      BY <1>3, <2>1, <2>5, FirstLockEntry
    <3> QED BY <3>1, <3>2, <3>3
  <2> QED BY <2>4, <2>5
<1> QED BY <1>1, <1>2, <1>3

\* Scheduling a task clears writers' reservations, if any, and nothing else.
LEMMA SubmitEntry ==
    ASSUME TypeOK, NEW t, NEW u, Submits(t, u), NEW d \in Tables
    PROVE  /\ lockTable'[d].exclusive = lockTable[d].exclusive
           /\ lockTable'[d].shared = lockTable[d].shared
           /\ lockTable'[d].reservedRO = lockTable[d].reservedRO
           /\ lockTable'[d].reservedRW \in {NoTask, lockTable[d].reservedRW}
           /\ Priority(u.kind) < 2 /\ d \in u.scope => lockTable'[d].reservedRW = NoTask
<1>1. LET cleared == [lockTable[d] EXCEPT !.reservedRW = NoTask]
      IN  /\ cleared.exclusive = lockTable[d].exclusive /\ cleared.shared = lockTable[d].shared
          /\ cleared.reservedRO = lockTable[d].reservedRO /\ cleared.reservedRW = NoTask
  <2>1. lockTable[d] \in LockTableEntry
    BY DEF TypeOK
  <2> QED BY <2>1 DEF LockTableEntry
<1>2. CASE Priority(u.kind) < 2 /\ d \in u.scope
  BY <1>1, <1>2 DEF Submits, ClearReservedLocks
<1>3. CASE ~(Priority(u.kind) < 2 /\ d \in u.scope)
  BY <1>3 DEF Submits, ClearReservedLocks
<1> QED BY <1>2, <1>3

\* The end of an execution gives up what its task has.
LEMMA EndEntry ==
    ASSUME TypeOK, NEW t \in TaskIds, NEW e, e[1] = t, Ends(e), NEW d \in Tables
    PROVE  LET old == lockTable[d]
               new == lockTable'[d]
           IN  /\ d \notin task[t].scope => new = old
               /\ d \in task[t].scope =>
                    /\ new.exclusive = IF old.exclusive = t THEN NoTask ELSE old.exclusive
                    /\ new.shared = old.shared \ {t}
                    /\ new.reservedRW = IF old.reservedRW = t THEN NoTask ELSE old.reservedRW
                    /\ new.reservedRO = old.reservedRO \ {t}
BY DEF Ends, ReleaseLock, EntryRelease

-----------------------------------------------------------------------------
(* No lock outlives its use *)

\* Whoever holds a lock on a table executes, and has the table in scope.
HeldByActive ==
    \A d \in Tables, t \in TaskIds :
        lockTable[d].exclusive = t \/ t \in lockTable[d].shared
            => t \in Active /\ d \in task[t].scope

\* Whoever has a reservation waits in the queue, has the table in scope, and reads
\* or writes as the reservation says.
ReservedByWaiting ==
    \A d \in Tables, t \in TaskIds :
        /\ lockTable[d].reservedRW = t => t \in queue /\ d \in task[t].scope /\ Writes(t)
        /\ t \in lockTable[d].reservedRO => t \in queue /\ d \in task[t].scope /\ ~Writes(t)

OwnersInv == HeldByActive /\ ReservedByWaiting

\* Tasks that wait or execute keep their descriptors in every step.
LEMMA LiveTasksKept ==
    ASSUME IsolationInv, [Next]_vars, NEW t \in TaskIds, t \in queue \cup Active
    PROVE  task'[t] = task[t] /\ (Writes(t))' = Writes(t) /\ t \in Scheduled
<1>1. t \in Scheduled
  BY ExecutingFacts DEF IsolationInv, Bookkeeping, QueueScheduled, Active
<1>2. Keeps
  BY BookkeepingStep DEF IsolationInv
<1> QED BY <1>1, <1>2, KeepsFacts

LEMMA OwnersStep ==
    ASSUME ThrowingKinds = {}, IsolationInv, OwnersInv, [Next]_vars
    PROVE  OwnersInv'
<1>0. TypeOK /\ OneLoop /\ LockTableConsistent
  BY DEF IsolationInv, Bookkeeping
<1>1. \A t \in TaskIds : t \in queue \cup Active => task'[t] = task[t] /\ (Writes(t))' = Writes(t)
  BY LiveTasksKept
<1>2. ASSUME queue \subseteq queue', Active' = Active,
             \A d \in Tables :
                /\ lockTable'[d].exclusive = lockTable[d].exclusive
                /\ lockTable'[d].shared = lockTable[d].shared
                /\ lockTable'[d].reservedRO = lockTable[d].reservedRO
                /\ lockTable'[d].reservedRW \in {NoTask, lockTable[d].reservedRW}
      PROVE  OwnersInv'
  <2>1. HeldByActive'
    BY <1>1, <1>2 DEF HeldByActive, OwnersInv
  <2>2. ReservedByWaiting'
    BY <1>1, <1>2, NoTaskAssumption DEF ReservedByWaiting, OwnersInv
  <2> QED BY <2>1, <2>2 DEF OwnersInv
<1>3. ASSUME NEW t \in TaskIds, NEW d \in Task, Submits(t, d) PROVE OwnersInv'
  <2>1. queue \subseteq queue' /\ Active' = Active
    BY <1>3 DEF Submits, Active
  <2> QED BY <1>0, <1>2, <1>3, <2>1, SubmitEntry
<1>4. CASE Rests
  BY <1>2, <1>4 DEF Rests, Active
<1>5. ASSUME NEW t \in TaskIds, Refuses(t) PROVE OwnersInv'
  <2>1. /\ t \in queue /\ queue' = queue /\ Active' = Active /\ UNCHANGED task
        /\ lockTable' = WithFirstLock(t)
    BY <1>5 DEF Refuses, Visits, Active
  <2>2. \A u \in TaskIds : (Writes(u))' = Writes(u)
    BY <2>1 DEF Writes
  <2>3. HeldByActive'
    BY <1>0, <2>1, FirstLockEntry DEF HeldByActive, OwnersInv
  <2>4. ASSUME NEW d \in Tables, NEW u \in TaskIds
        PROVE  /\ lockTable'[d].reservedRW = u => u \in queue /\ d \in task[u].scope /\ Writes(u)
               /\ u \in lockTable'[d].reservedRO => u \in queue /\ d \in task[u].scope /\ ~Writes(u)
    BY <1>0, <2>1, FirstLockEntry DEF ReservedByWaiting, OwnersInv
  <2> QED BY <2>1, <2>2, <2>3, <2>4 DEF OwnersInv, ReservedByWaiting
<1>6. ASSUME NEW t \in TaskIds, Starts(t) PROVE OwnersInv'
  <2>1. /\ AcquiresLock(t) /\ queue' = queue \ {t} /\ UNCHANGED task
        /\ Active' = Active \cup {t} /\ lockTable' = WithBothLocks(t)
    BY <1>6, NewExecutionOf DEF Starts, Visits, Active
  <2>2. \A u \in TaskIds : (Writes(u))' = Writes(u)
    BY <2>1 DEF Writes
  <2>3. ASSUME NEW d \in Tables, NEW u \in TaskIds
        PROVE  /\ lockTable'[d].exclusive = u => u \in Active' /\ d \in task[u].scope
               /\ u \in lockTable'[d].shared => u \in Active' /\ d \in task[u].scope
    BY <1>0, <2>1, BothLocksEntry DEF HeldByActive, OwnersInv
  <2>4. ASSUME NEW d \in Tables, NEW u \in TaskIds
        PROVE  /\ lockTable'[d].reservedRW = u => u \in queue' /\ d \in task[u].scope /\ Writes(u)
               /\ u \in lockTable'[d].reservedRO => u \in queue' /\ d \in task[u].scope /\ ~Writes(u)
    BY <1>0, <2>1, BothLocksEntry, NoTaskAssumption DEF ReservedByWaiting, OwnersInv
  <2>5. HeldByActive'
    BY <2>1, <2>3 DEF HeldByActive
  <2> QED BY <2>1, <2>2, <2>4, <2>5 DEF OwnersInv, ReservedByWaiting
<1>7. ASSUME NEW e \in Executing, Ends(e) PROVE OwnersInv'
  <2>0. PICK t \in TaskIds : t = e[1]
    BY <1>0, ExecutingFacts DEF IsolationInv
  <2>1. /\ UNCHANGED <<task, queue>> /\ Active' = Active \ {t} /\ t \notin queue
    BY <1>0, <1>7, <2>0 DEF Ends, Active, OneLoop
  <2>2. \A u \in TaskIds : (Writes(u))' = Writes(u)
    BY <2>1 DEF Writes
  <2>3. ASSUME NEW d \in Tables, NEW u \in TaskIds
        PROVE  /\ lockTable'[d].exclusive = u => u \in Active' /\ d \in task[u].scope
               /\ u \in lockTable'[d].shared => u \in Active' /\ d \in task[u].scope
    BY <1>0, <1>7, <2>0, <2>1, EndEntry, NoTaskAssumption DEF HeldByActive, OwnersInv
  <2>4. ASSUME NEW d \in Tables, NEW u \in TaskIds
        PROVE  /\ lockTable'[d].reservedRW = u => u \in queue' /\ d \in task[u].scope /\ Writes(u)
               /\ u \in lockTable'[d].reservedRO => u \in queue' /\ d \in task[u].scope /\ ~Writes(u)
    BY <1>0, <1>7, <2>0, <2>1, EndEntry, NoTaskAssumption DEF ReservedByWaiting, OwnersInv
  <2>5. HeldByActive'
    BY <2>1, <2>3 DEF HeldByActive
  <2> QED BY <2>1, <2>2, <2>4, <2>5 DEF OwnersInv, ReservedByWaiting
<1> QED BY <1>3, <1>4, <1>5, <1>6, <1>7, Steps

LEMMA OwnersInit == Init => OwnersInv
BY NoTaskAssumption DEF Init, NewEntry, OwnersInv, HeldByActive, ReservedByWaiting

\* Without external changes and execs that throw, a lock on a table is held by a
\* task that executes and a reservation by one that waits.
THEOREM LockOwnersLive ==
    ASSUME NoExternalChanges, ThrowingKinds = {} PROVE Spec => []LockOwnersAreLive
<1>1. Init => IsolationInv /\ OwnersInv
  BY IsolationInvInductive, OwnersInit
<1>2. IsolationInv /\ OwnersInv /\ [Next]_vars => (IsolationInv /\ OwnersInv)'
  BY IsolationInvInductive, OwnersStep
<1>3. OwnersInv => LockOwnersAreLive
  BY DEF OwnersInv, HeldByActive, ReservedByWaiting, LockOwnersAreLive, Active
<1> QED BY <1>1, <1>2, <1>3, PTL DEF Spec

-----------------------------------------------------------------------------
(* No wakeup is lost *)

\* A reader has its reservation on its whole scope or nowhere.
ReadersReserveAll ==
    \A d \in Tables, t \in TaskIds :
        t \in lockTable[d].reservedRO => \A c \in task[t].scope : t \in lockTable[c].reservedRO

\* The writers that have a reservation, though perhaps not on their whole scope: a
\* task of high priority may have cleared part of it.
Reserving == {t \in TaskIds : \E d \in Tables : lockTable[d].reservedRW = t}

\* A writer of S other than w has reserved a table that w needs.
KeptFrom(w, S) == \E d \in task[w].scope : lockTable[d].reservedRW \in S \ {w}

\* Of any writers that have reservations one is not kept waiting by the others: the
\* last to reserve, for it found the tables of its scope free.
NoCircleOfWriters ==
    \A S \in SUBSET Reserving : S # {} => \E w \in S : ~KeptFrom(w, S)

\* While no task executes, those the loop has passed over cannot get their first
\* lock from the lock table as it is.
PassedOverInVain == Executing = {} => \A t \in queue \ Ahead : ~CanReserve(t)

WakeupInv == ReadersReserveAll /\ NoCircleOfWriters /\ PassedOverInVain

\* A step that only clears writers' reservations closes no circle.
LEMMA ClearingOpensCircles ==
    ASSUME TypeOK, NoCircleOfWriters,
           \A t \in Reserving : task'[t].scope = task[t].scope,
           \A d \in Tables : lockTable'[d].reservedRW \in {NoTask, lockTable[d].reservedRW}
    PROVE  NoCircleOfWriters'
<1> SUFFICES ASSUME NEW S \in SUBSET Reserving', S # {} PROVE \E w \in S : ~(KeptFrom(w, S))'
  BY DEF NoCircleOfWriters
<1>1. S \in SUBSET Reserving
  BY NoTaskAssumption DEF Reserving
<1>2. PICK w \in S : ~KeptFrom(w, S)
  BY <1>1 DEF NoCircleOfWriters
<1>3. task[w].scope \subseteq Tables /\ w \in TaskIds /\ NoTask \notin S
  BY <1>1, TaskFacts, NoTaskAssumption DEF Reserving
<1>4. ~(KeptFrom(w, S))'
  BY <1>1, <1>2, <1>3 DEF KeptFrom
<1> QED BY <1>4

\* Nor does a writer that reserves its whole scope.
LEMMA ReservingOpensCircles ==
    ASSUME TypeOK, NoCircleOfWriters, NEW t \in TaskIds, Refuses(t), CanReserve(t), Writes(t)
    PROVE  NoCircleOfWriters'
<1> SUFFICES ASSUME NEW S \in SUBSET Reserving', S # {} PROVE \E w \in S : ~(KeptFrom(w, S))'
  BY DEF NoCircleOfWriters
<1>1. /\ UNCHANGED task /\ task[t].scope \subseteq Tables
      /\ \A d \in Tables : lockTable'[d].reservedRW = IF d \in task[t].scope THEN t
                                                      ELSE lockTable[d].reservedRW
  BY FirstLockEntry, TaskFacts DEF Refuses, Visits
<1>2. \A d \in task[t].scope : lockTable[d].reservedRW \in {NoTask, t}
  BY CanReserveIff
<1>3. CASE t \in S
  <2>1. ~(KeptFrom(t, S))'
    BY <1>1 DEF KeptFrom
  <2> QED BY <1>3, <2>1
<1>4. CASE t \notin S
  <2>1. S \in SUBSET Reserving /\ NoTask \notin S
    BY <1>1, <1>4, NoTaskAssumption DEF Reserving
  <2>2. PICK w \in S : ~KeptFrom(w, S)
    BY <2>1 DEF NoCircleOfWriters
  <2>3. task[w].scope \subseteq Tables
    BY <2>1, TaskFacts DEF Reserving
  <2>4. ~(KeptFrom(w, S))'
    BY <1>1, <1>4, <2>2, <2>3 DEF KeptFrom
  <2> QED BY <2>4
<1> QED BY <1>3, <1>4

LEMMA NothingHeld ==
    ASSUME TypeOK, HeldByActive, Executing = {}, NEW d \in Tables
    PROVE  lockTable[d].exclusive = NoTask /\ lockTable[d].shared = {}
<1>1. lockTable[d] \in LockTableEntry
  BY DEF TypeOK
<1>2. Active = {}
  BY DEF Active
<1> QED BY <1>1, <1>2 DEF HeldByActive, LockTableEntry

LEMMA WakeupStep ==
    ASSUME ThrowingKinds = {}, IsolationInv, OwnersInv, WakeupInv, [Next]_vars
    PROVE  WakeupInv'
<1>0. TypeOK /\ OneLoop /\ LockTableConsistent /\ HeldByActive /\ ReservedByWaiting
  BY DEF IsolationInv, Bookkeeping, OwnersInv
<1>1. \A t \in TaskIds : t \in queue => task'[t] = task[t] /\ task[t].scope \subseteq Tables
  BY <1>0, LiveTasksKept, TaskFacts
<1>2. \A t \in Reserving : t \in queue /\ task'[t].scope = task[t].scope
  BY <1>0, <1>1 DEF Reserving, ReservedByWaiting
<1>3. ASSUME \A d \in Tables : /\ lockTable'[d].reservedRO = lockTable[d].reservedRO
                               /\ lockTable'[d].reservedRW \in {NoTask, lockTable[d].reservedRW}
      PROVE  ReadersReserveAll' /\ NoCircleOfWriters'
  <2>1. ReadersReserveAll'
    BY <1>0, <1>1, <1>3 DEF ReadersReserveAll, WakeupInv, ReservedByWaiting
  <2>2. NoCircleOfWriters'
    BY <1>0, <1>2, <1>3, ClearingOpensCircles DEF WakeupInv
  <2> QED BY <2>1, <2>2
<1>4. ASSUME NEW t \in TaskIds, NEW d \in Task, Submits(t, d) PROVE WakeupInv'
  <2>1. PassedOverInVain'
    BY <1>4 DEF Submits, PassedOverInVain
  <2> QED BY <1>0, <1>3, <1>4, <2>1, SubmitEntry DEF WakeupInv
<1>5. CASE Rests
  <2>1. \A t : CanReserve(t)' = CanReserve(t)
    BY <1>5 DEF Rests, CanReserve, FirstLock
  <2>2. PassedOverInVain'
    BY <1>5, <2>1 DEF Rests, PassedOverInVain, WakeupInv
  <2>3. lockTable' = lockTable
    BY <1>5 DEF Rests
  <2> QED BY <1>3, <2>2, <2>3 DEF WakeupInv
<1>6. ASSUME NEW t \in TaskIds, Refuses(t) PROVE WakeupInv'
  <2>1. /\ UNCHANGED <<task, queue>> /\ lockTable' = WithFirstLock(t) /\ ~AcquiresLock(t)
        /\ Ahead' = Ahead \ {t} /\ Executing' = Executing
    BY <1>6 DEF Refuses, Visits
  <2>2. CASE ~CanReserve(t)
    <3>1. lockTable' = lockTable
      BY <2>1, <2>2 DEF WithFirstLock, RequestLock, CanReserve
    <3>2. \A u : CanReserve(u)' = CanReserve(u)
      BY <2>1, <3>1 DEF CanReserve, FirstLock
    <3>3. PassedOverInVain'
      BY <2>1, <2>2, <3>2 DEF PassedOverInVain, WakeupInv
    <3> QED BY <1>3, <3>1, <3>3 DEF WakeupInv
  <2>3. CASE CanReserve(t)
    <3>1. Executing # {}
      BY <1>0, <2>1, <2>3, NothingHeld, AcquiresFacts, TaskFacts
    <3>2. PassedOverInVain'
      BY <2>1, <3>1 DEF PassedOverInVain
    <3>3. ReadersReserveAll'
      <4> SUFFICES ASSUME NEW d \in Tables, NEW u \in TaskIds, u \in lockTable'[d].reservedRO,
                          NEW c \in task[u].scope
                   PROVE  u \in lockTable'[c].reservedRO
        BY <2>1 DEF ReadersReserveAll
      <4>1. c \in Tables
        BY <1>0, TaskFacts
      <4>2. CASE u \in lockTable[d].reservedRO
        BY <1>0, <2>1, <4>1, <4>2, FirstLockEntry DEF ReadersReserveAll, WakeupInv
      <4>3. CASE u \notin lockTable[d].reservedRO
        BY <1>0, <2>1, <2>3, <4>1, <4>3, FirstLockEntry
      <4> QED BY <4>2, <4>3
    <3>4. NoCircleOfWriters'
      <4>1. CASE Writes(t)
        BY <1>0, <1>6, <2>3, <4>1, ReservingOpensCircles DEF WakeupInv
      <4>2. CASE ~Writes(t)
        BY <1>0, <1>2, <2>1, <4>2, FirstLockEntry, ClearingOpensCircles DEF WakeupInv
      <4> QED BY <4>1, <4>2
    <3> QED BY <3>2, <3>3, <3>4 DEF WakeupInv
  <2> QED BY <2>2, <2>3
<1>7. ASSUME NEW t \in TaskIds, Starts(t) PROVE WakeupInv'
  <2>1. /\ UNCHANGED task /\ lockTable' = WithBothLocks(t) /\ AcquiresLock(t)
        /\ Executing' # {}
    BY <1>7 DEF Starts, Visits
  <2>2. PassedOverInVain'
    BY <2>1 DEF PassedOverInVain
  <2>3. \A d \in Tables : lockTable'[d].reservedRW \in {NoTask, lockTable[d].reservedRW}
    BY <1>0, <2>1, BothLocksEntry
  <2>4. NoCircleOfWriters'
    BY <1>0, <1>2, <2>3, ClearingOpensCircles DEF WakeupInv
  <2>5. ReadersReserveAll'
    <3> SUFFICES ASSUME NEW d \in Tables, NEW u \in TaskIds, u \in lockTable'[d].reservedRO,
                        NEW c \in task[u].scope
                 PROVE  u \in lockTable'[c].reservedRO
      BY <2>1 DEF ReadersReserveAll
    <3>1. c \in Tables
      BY <1>0, TaskFacts
    <3>2. u \in lockTable[d].reservedRO
      BY <1>0, <2>1, BothLocksEntry
    <3>3. u # t
      BY <1>0, <2>1, <3>2, BothLocksEntry DEF ReservedByWaiting
    <3> QED BY <1>0, <2>1, <3>1, <3>2, <3>3, BothLocksEntry DEF ReadersReserveAll, WakeupInv
  <2> QED BY <2>2, <2>4, <2>5 DEF WakeupInv
<1>8. ASSUME NEW e \in Executing, Ends(e) PROVE WakeupInv'
  <2>1. PICK t \in TaskIds : t = e[1]
    BY ExecutingFacts DEF IsolationInv
  <2>2. Ahead' = queue' /\ t \notin queue
    BY <1>0, <1>8, <2>1 DEF Ends, OneLoop
  <2>3. PassedOverInVain'
    BY <2>2 DEF PassedOverInVain
  <2>4. \A d \in Tables : /\ lockTable'[d].reservedRO = lockTable[d].reservedRO
                          /\ lockTable'[d].reservedRW \in {NoTask, lockTable[d].reservedRW}
    <3> SUFFICES ASSUME NEW d \in Tables
                 PROVE  /\ lockTable'[d].reservedRO = lockTable[d].reservedRO
                        /\ lockTable'[d].reservedRW \in {NoTask, lockTable[d].reservedRW}
      OBVIOUS
    <3>1. t \notin lockTable[d].reservedRO
      BY <1>0, <2>2 DEF ReservedByWaiting
    <3>2. CASE d \in task[t].scope
      <4>1. /\ lockTable'[d].reservedRO = lockTable[d].reservedRO \ {t}
            /\ lockTable'[d].reservedRW = IF lockTable[d].reservedRW = t THEN NoTask
                                          ELSE lockTable[d].reservedRW
        BY <1>0, <1>8, <2>1, <3>2, EndEntry
      <4> QED BY <3>1, <4>1
    <3>3. CASE d \notin task[t].scope
      BY <1>0, <1>8, <2>1, <3>3, EndEntry
    <3> QED BY <3>2, <3>3
  <2> QED BY <1>3, <2>3, <2>4 DEF WakeupInv
<1> QED BY <1>4, <1>5, <1>6, <1>7, <1>8, Steps

LEMMA WakeupInit == Init => WakeupInv
<1> SUFFICES ASSUME Init PROVE WakeupInv
  OBVIOUS
<1>1. queue = {} /\ \A d \in Tables : lockTable[d].reservedRW = NoTask /\ lockTable[d].reservedRO = {}
  BY DEF Init, NewEntry
<1>2. Reserving = {}
  BY <1>1, NoTaskAssumption DEF Reserving
<1> QED BY <1>1, <1>2 DEF WakeupInv, ReadersReserveAll, NoCircleOfWriters, PassedOverInVain

\* Were all that wait passed over in vain, the last of the writers to reserve, or
\* any reader with a reservation, or else any task, could have got its first lock.
LEMMA NoneWaitsInVain ==
    ASSUME IsolationInv, OwnersInv, WakeupInv PROVE NoLostWakeup
<1> SUFFICES ASSUME Idle, queue # {}, Executing = {} PROVE FALSE
  BY DEF NoLostWakeup
<1>0. TypeOK /\ LockTableConsistent /\ ReservedByWaiting /\ queue \subseteq TaskIds
  BY DEF IsolationInv, Bookkeeping, OwnersInv, TypeOK
<1>1. \A t \in queue : ~CanReserve(t)
  BY AheadOfOne DEF WakeupInv, PassedOverInVain
<1>2. ASSUME NEW d \in Tables PROVE lockTable[d].reservedRO = {}
  <2> SUFFICES ASSUME NEW r \in lockTable[d].reservedRO PROVE FALSE
    OBVIOUS
  <2>1. r \in TaskIds /\ r \in queue /\ ~Writes(r)
    BY <1>0, TaskFacts DEF ReservedByWaiting, LockTableEntry
  <2>2. \A c \in task[r].scope : c \in Tables /\ lockTable[c].reservedRO # {}
    BY <1>0, <2>1, TaskFacts DEF WakeupInv, ReadersReserveAll
  <2>3. \A c \in task[r].scope : lockTable[c].reservedRW = NoTask
    BY <1>0, <2>2 DEF LockTableConsistent, EntryConsistent
  <2> QED BY <1>0, <1>1, <2>1, <2>3, CanReserveIff
<1>3. CASE Reserving = {}
  <2>1. PICK t \in queue : TRUE
    OBVIOUS
  <2>2. \A d \in Tables : lockTable[d].reservedRW = NoTask
    BY <1>0, <1>3, TaskFacts DEF Reserving, LockTableEntry
  <2> QED BY <1>0, <1>1, <1>2, <2>2, CanReserveIff, TaskFacts
<1>4. CASE Reserving # {}
  <2>1. PICK w \in Reserving : ~KeptFrom(w, Reserving)
    BY <1>4 DEF WakeupInv, NoCircleOfWriters
  <2>2. w \in TaskIds /\ w \in queue /\ Writes(w) /\ task[w].scope \subseteq Tables
    BY <1>0, TaskFacts DEF Reserving, ReservedByWaiting
  <2>3. \A d \in task[w].scope : lockTable[d].reservedRW \in {NoTask, w}
    BY <1>0, <2>1, <2>2, TaskFacts DEF KeptFrom, Reserving, LockTableEntry
  <2> QED BY <1>0, <1>1, <1>2, <2>2, <2>3, CanReserveIff
<1> QED BY <1>3, <1>4

\* Without external changes and execs that throw, tasks wait only while a task
\* executes whose end will have the queue looked at again.
THEOREM WakeupsNotLost ==
    ASSUME NoExternalChanges, ThrowingKinds = {} PROVE Spec => []NoLostWakeup
<1> DEFINE Inv == IsolationInv /\ OwnersInv /\ WakeupInv
<1>1. Init => Inv
  BY IsolationInvInductive, OwnersInit, WakeupInit
<1>2. Inv /\ [Next]_vars => Inv'
  BY IsolationInvInductive, OwnersStep, WakeupStep
<1>3. Inv => NoLostWakeup
  BY NoneWaitsInVain
<1> QED BY <1>1, <1>2, <1>3, PTL DEF Spec

-----------------------------------------------------------------------------
(* Readers of high priority are not overtaken *)

UrgentReader(o) == task[o].kind \in {"EXPORT", "OBSERVER_QUERY"}

\* Ids are given in order.
IdsInOrder == \A t \in Scheduled, u \in TaskIds \ Scheduled : t < u

\* An import writes all tables; exports and observer queries read.
KindsFixTypes ==
    \A t \in TaskIds : /\ task[t].kind = "IMPORT" => Writes(t) /\ task[t].scope = Tables
                       /\ UrgentReader(t) => ~Writes(t)

\* Of the tables an urgent reader waits for, only imports have reservations as writers.
OthersYield ==
    \A o \in queue : UrgentReader(o) =>
        \A d \in task[o].scope, w \in TaskIds :
            lockTable[d].reservedRW = w => task[w].kind = "IMPORT"

\* An import that has a reservation is the only task that has one.  It may be
\* without those that an urgent reader had cleared, but only until the loop comes
\* to it, and no urgent reader comes before it in the queue.
ImportReservesAlone(u) ==
    (\E d \in Tables : lockTable[d].reservedRW = u) =>
        /\ \A d \in Tables : lockTable[d].reservedRO = {} /\ lockTable[d].reservedRW \in {NoTask, u}
        /\ u \notin Ahead => \A d \in Tables : lockTable[d].reservedRW = u
        /\ \A o \in queue : UrgentReader(o) /\ task[o].scope # {} => u < o
ImportsReserveAlone == \A u \in TaskIds : task[u].kind = "IMPORT" => ImportReservesAlone(u)

\* An import that the loop has passed has all tables reserved.
ImportFirst(u) ==
    /\ u \in queue \ Ahead /\ task[u].kind = "IMPORT"
    /\ \A d \in Tables : lockTable[d].reservedRW = u

\* An urgent reader that the loop has passed over has its reservations, or an import
\* has them all.
UrgentReserve ==
    \A o \in queue \ Ahead : UrgentReader(o) =>
        \/ \A d \in task[o].scope : o \in lockTable[d].reservedRO
        \/ \E u \in TaskIds : ImportFirst(u)

PriorityInv == IdsInOrder /\ KindsFixTypes /\ OthersYield /\ ImportsReserveAlone /\ UrgentReserve

\* Priorities, as far as they matter here.
LEMMA PriorityFacts ==
    ASSUME NEW t
    PROVE  /\ Priority(task[t].kind) \in {0, 1, 2}
           /\ Priority(task[t].kind) = 0 <=> task[t].kind = "IMPORT" \/ UrgentReader(t)
BY DEF Priority, UrgentReader

\* Before a task of the highest priority come only tasks of that priority and of
\* smaller ids.
LEMMA PrecedesFacts ==
    ASSUME NEW t, NEW o, task[o].kind = "IMPORT" \/ UrgentReader(o), Precedes(t, o)
    PROVE  (task[t].kind = "IMPORT" \/ UrgentReader(t)) /\ t < o
BY PriorityFacts DEF Precedes

LEMMA ProperDescriptors ==
    ASSUME NEW d \in Task, Proper(d)
    PROVE  /\ d.kind = "IMPORT" => d.type = "READ_WRITE" /\ d.scope = Tables
           /\ d.kind \in {"EXPORT", "OBSERVER_QUERY"} => d.type # "READ_WRITE"
<1>1. CASE d \in ClientTask
  BY <1>1, KindsAssumption DEF ClientTask, TypesOf, ScopesOf
<1>2. CASE \E tables : d = ObserverTask(tables)
  BY <1>2 DEF ObserverTask
<1> QED BY <1>1, <1>2 DEF Proper

\* A new id and descriptor keep the order of ids and what kinds say of types.
LEMMA DescriptorsStep ==
    ASSUME ThrowingKinds = {}, IsolationInv, IdsInOrder, KindsFixTypes, [Next]_vars
    PROVE  IdsInOrder' /\ KindsFixTypes'
<1>0. TypeOK /\ TaskIds \subseteq Nat
  BY TaskIdsAssumption DEF IsolationInv, Bookkeeping
<1>1. ASSUME UNCHANGED task PROVE IdsInOrder' /\ KindsFixTypes'
  BY <1>1 DEF IdsInOrder, KindsFixTypes, Scheduled, Writes, UrgentReader
<1>2. ASSUME NEW t \in TaskIds, NEW d \in Task, Submits(t, d) PROVE IdsInOrder' /\ KindsFixTypes'
  <2>1. /\ task' = [task EXCEPT ![t] = d] /\ task \in [TaskIds -> Task \cup {Unscheduled}]
        /\ t \notin Scheduled /\ \A u \in TaskIds \ Scheduled : t <= u
        /\ d # Unscheduled
    BY <1>0, <1>2 DEF Submits, NextTaskId, TypeOK, Task, TaskKind, Unscheduled
  <2>2. Scheduled' = Scheduled \cup {t}
    BY <2>1 DEF Scheduled
  <2>3. ASSUME NEW s \in Scheduled', NEW u \in TaskIds \ Scheduled' PROVE s < u
    <3>1. u \in TaskIds \ Scheduled /\ u # t /\ t \in Nat /\ u \in Nat
      BY <1>0, <2>2
    <3>2. CASE s \in Scheduled
      BY <3>1, <3>2 DEF IdsInOrder
    <3>3. CASE s = t
      BY <2>1, <3>1, <3>3
    <3> QED BY <2>2, <3>2, <3>3
  <2>4. \A u \in TaskIds : u # t => task'[u] = task[u]
    BY <2>1
  <2>5. task'[t] = d
    BY <2>1
  <2>6. ASSUME NEW u \in TaskIds
        PROVE  /\ task'[u].kind = "IMPORT" => task'[u].type = "READ_WRITE" /\ task'[u].scope = Tables
               /\ task'[u].kind \in {"EXPORT", "OBSERVER_QUERY"} => task'[u].type # "READ_WRITE"
    <3>1. CASE u = t
      BY <1>2, <2>5, <3>1, ProperDescriptors DEF Submits
    <3>2. CASE u # t
      BY <2>4, <3>2 DEF KindsFixTypes, Writes, UrgentReader
    <3> QED BY <3>1, <3>2
  <2> QED BY <2>3, <2>6 DEF IdsInOrder, KindsFixTypes, Writes, UrgentReader
<1> QED BY <1>1, <1>2, Steps DEF Refuses, Starts, Visits, Ends, Rests

\* The parts of the invariant that a step may disturb by what it does to reservations.
ReservationsByPriority == OthersYield /\ ImportsReserveAlone /\ UrgentReserve

\* A loop that starts comes to every task: nothing is promised of those passed over.
LEMMA PriorityNewLoop ==
    ASSUME IsolationInv, OwnersInv, PriorityInv, [Next]_vars, Ahead' = queue', queue \subseteq queue',
           \A t \in queue' \ queue : t \in TaskIds \ Scheduled
               /\ ((UrgentReader(t))' => \A d \in (task[t].scope)' \cap Tables : lockTable'[d].reservedRW = NoTask),
           \A d \in Tables : /\ lockTable'[d].reservedRO = lockTable[d].reservedRO
                             /\ lockTable'[d].reservedRW \in {NoTask, lockTable[d].reservedRW}
    PROVE  ReservationsByPriority'
<1>0. Bookkeeping' /\ TypeOK /\ ReservedByWaiting
  BY BookkeepingStep DEF IsolationInv, Bookkeeping, OwnersInv
<1>1. \A t \in TaskIds : t \in queue => task'[t] = task[t] /\ t \in Scheduled
  BY LiveTasksKept
<1>2. \A t \in TaskIds : task'[t].scope \subseteq Tables
  <2>1. task' \in [TaskIds -> Task \cup {Unscheduled}]
    BY <1>0 DEF Bookkeeping, TypeOK
  <2> QED BY <2>1 DEF Task, Unscheduled
<1>3. queue' \subseteq TaskIds
  BY <1>0 DEF Bookkeeping, TypeOK
<1>4. \A d \in Tables, w \in TaskIds :
         lockTable'[d].reservedRW = w => lockTable[d].reservedRW = w /\ w \in queue /\ task'[w] = task[w]
  BY <1>0, <1>1, NoTaskAssumption DEF ReservedByWaiting
<1>5. OthersYield'
  <2> SUFFICES ASSUME NEW o \in queue', (UrgentReader(o))', NEW d \in task'[o].scope,
                      NEW w \in TaskIds, lockTable'[d].reservedRW = w
               PROVE  task'[w].kind = "IMPORT"
    BY DEF OthersYield
  <2>1. d \in Tables /\ o \in TaskIds /\ w # NoTask
    BY <1>2, <1>3, NoTaskAssumption
  <2>2. o \in queue
    BY <2>1
  <2>3. task'[o] = task[o] /\ lockTable[d].reservedRW = w /\ task'[w] = task[w]
    BY <1>1, <1>4, <2>1, <2>2
  <2> QED BY <2>2, <2>3 DEF OthersYield, PriorityInv, UrgentReader
<1>6. ImportsReserveAlone'
  <2> SUFFICES ASSUME NEW u \in TaskIds, task'[u].kind = "IMPORT",
                      NEW c \in Tables, lockTable'[c].reservedRW = u
               PROVE  /\ \A d \in Tables : /\ lockTable'[d].reservedRO = {}
                                           /\ lockTable'[d].reservedRW \in {NoTask, u}
                      /\ u \notin Ahead' => \A d \in Tables : lockTable'[d].reservedRW = u
                      /\ \A o \in queue' : (UrgentReader(o))' /\ task'[o].scope # {} => u < o
    BY DEF ImportsReserveAlone, ImportReservesAlone
  <2>1. lockTable[c].reservedRW = u /\ u \in queue /\ task[u].kind = "IMPORT" /\ u \in Scheduled
    BY <1>1, <1>4
  <2>2. ImportReservesAlone(u)
    BY <2>1 DEF PriorityInv, ImportsReserveAlone
  <2>3. \A d \in Tables : lockTable[d].reservedRO = {} /\ lockTable[d].reservedRW \in {NoTask, u}
    BY <2>1, <2>2 DEF ImportReservesAlone
  <2>4. u \in Ahead'
    BY <2>1
  <2>5. ASSUME NEW o \in queue', (UrgentReader(o))', task'[o].scope # {} PROVE u < o
    <3>1. CASE o \in queue
      BY <1>1, <1>3, <2>1, <2>2, <2>5, <3>1 DEF ImportReservesAlone, UrgentReader
    <3>2. CASE o \notin queue
      BY <2>1, <2>5, <3>2 DEF PriorityInv, IdsInOrder
    <3> QED BY <3>1, <3>2
  <2> QED BY <2>3, <2>4, <2>5
<1>7. UrgentReserve'
  BY DEF UrgentReserve
<1> QED BY <1>5, <1>6, <1>7 DEF ReservationsByPriority

\* The task a visit looks at comes before all that are still ahead.
LEMMA VisitOrder ==
    ASSUME TypeOK, NEW t \in TaskIds, Visits(t), NEW o \in TaskIds,
           task[o].kind = "IMPORT" \/ UrgentReader(o), o # t, o \in Ahead
    PROVE  (task[t].kind = "IMPORT" \/ UrgentReader(t)) /\ t < o
BY PrecedesFacts DEF Visits

\* A task passed over without its first lock.
LEMMA PriorityRefusedOutright ==
    ASSUME IsolationInv, OwnersInv, PriorityInv, NEW t \in TaskIds, Refuses(t), ~CanReserve(t)
    PROVE  ReservationsByPriority'
<1>0. TypeOK /\ ReservedByWaiting /\ queue \subseteq TaskIds
  BY DEF IsolationInv, Bookkeeping, OwnersInv, TypeOK
<1>1. /\ UNCHANGED <<task, queue, lockTable>> /\ Ahead' = Ahead \ {t} /\ t \in Ahead /\ Visits(t)
  BY DEF Refuses, Visits, WithFirstLock, RequestLock, CanReserve
<1>2. OthersYield'
  BY <1>1 DEF OthersYield, UrgentReader, PriorityInv
<1>3. ImportsReserveAlone'
  <2> SUFFICES ASSUME NEW u \in TaskIds, task[u].kind = "IMPORT",
                      NEW c \in Tables, lockTable[c].reservedRW = u
               PROVE  /\ \A d \in Tables : /\ lockTable[d].reservedRO = {}
                                           /\ lockTable[d].reservedRW \in {NoTask, u}
                      /\ u \notin Ahead' => \A d \in Tables : lockTable[d].reservedRW = u
                      /\ \A o \in queue : UrgentReader(o) /\ task[o].scope # {} => u < o
    BY <1>1 DEF ImportsReserveAlone, ImportReservesAlone, UrgentReader
  <2>1. ImportReservesAlone(u)
    BY DEF PriorityInv, ImportsReserveAlone
  <2>2. u # t
    BY <1>0, <2>1, CanReserveIff DEF PriorityInv, KindsFixTypes, ImportReservesAlone
  <2> QED BY <1>1, <2>1, <2>2 DEF ImportReservesAlone
<1>4. UrgentReserve'
  <2>1. ASSUME NEW u \in TaskIds, ImportFirst(u) PROVE (ImportFirst(u))'
    BY <1>1, <2>1 DEF ImportFirst
  <2>2. ASSUME NEW o \in queue, o \notin Ahead', UrgentReader(o)
        PROVE  \/ \A d \in task[o].scope : o \in lockTable[d].reservedRO
               \/ \E u \in TaskIds : (ImportFirst(u))'
    <3>1. CASE o # t
      BY <1>1, <2>1, <2>2, <3>1 DEF PriorityInv, UrgentReserve
    <3>2. CASE o = t
      <4>1. PICK d \in task[t].scope : lockTable[d].reservedRW # NoTask
        BY <1>0, <2>2, <3>2, CanReserveIff DEF PriorityInv, KindsFixTypes
      <4>2. PICK u \in TaskIds : lockTable[d].reservedRW = u /\ d \in Tables
        BY <1>0, <4>1, TaskFacts DEF LockTableEntry
      <4>3. task[u].kind = "IMPORT" /\ u \in queue
        BY <1>0, <2>2, <3>2, <4>2 DEF PriorityInv, OthersYield, ReservedByWaiting
      <4>4. ImportReservesAlone(u) /\ u < t
        BY <2>2, <3>2, <4>2, <4>3 DEF PriorityInv, ImportsReserveAlone, ImportReservesAlone
      <4>5. u # t
        BY <2>2, <3>2, <4>3 DEF UrgentReader
      <4>6. u \notin Ahead
        <5>1. u \in Nat /\ t \in Nat
          BY TaskIdsAssumption
        <5> QED BY <1>0, <1>1, <4>3, <4>4, <4>5, <5>1, VisitOrder
      <4>7. ImportFirst(u)
        BY <4>2, <4>3, <4>4, <4>6 DEF ImportFirst, ImportReservesAlone
      <4> QED BY <2>1, <4>7
    <3> QED BY <3>1, <3>2
  <2> QED BY <1>1, <2>2 DEF UrgentReserve, UrgentReader
<1> QED BY <1>2, <1>3, <1>4 DEF ReservationsByPriority

\* A writer that gets its reservations though it cannot start.
LEMMA PriorityWriterReserves ==
    ASSUME IsolationInv, OwnersInv, PriorityInv,
           NEW t \in TaskIds, Refuses(t), CanReserve(t), Writes(t)
    PROVE  ReservationsByPriority'
<1>0. TypeOK /\ queue \subseteq TaskIds /\ t # NoTask /\ task[t].scope \subseteq Tables
  BY TaskFacts, NoTaskAssumption DEF IsolationInv, Bookkeeping, TypeOK
<1>1. /\ UNCHANGED <<task, queue>> /\ lockTable' = WithFirstLock(t)
      /\ Ahead' = Ahead \ {t} /\ t \in Ahead /\ t \in queue /\ Visits(t)
  BY DEF Refuses, Visits
<1>2. ASSUME NEW d \in Tables
      PROVE  /\ lockTable'[d].reservedRO = lockTable[d].reservedRO
             /\ lockTable'[d].reservedRW = IF d \in task[t].scope THEN t ELSE lockTable[d].reservedRW
             /\ d \in task[t].scope => /\ lockTable[d].reservedRO = {}
                                       /\ lockTable[d].reservedRW \in {NoTask, t}
  BY <1>0, <1>1, FirstLockEntry, CanReserveIff
<1>3. ASSUME NEW u \in TaskIds, u # t, NEW c \in Tables, lockTable[c].reservedRW = u,
             task[u].kind = "IMPORT", c \notin task[t].scope
      PROVE  task[t].scope = {}
  <2>1. ImportReservesAlone(u)
    BY <1>3 DEF PriorityInv, ImportsReserveAlone
  <2>2. CASE u \in Ahead
    <3>1. task[t].kind = "IMPORT"
      BY <1>0, <1>1, <1>3, <2>2, VisitOrder DEF PriorityInv, KindsFixTypes
    <3> QED BY <1>3, <3>1 DEF PriorityInv, KindsFixTypes
  <2>3. CASE u \notin Ahead
    BY <1>0, <1>2, <1>3, <2>1, <2>3, NoTaskAssumption DEF ImportReservesAlone
  <2> QED BY <2>2, <2>3
<1>4. ASSUME NEW u \in TaskIds, ImportFirst(u) PROVE u # t /\ task[t].scope = {} /\ (ImportFirst(u))'
  <2>1. u # t /\ \A d \in Tables : lockTable[d].reservedRW = u
    BY <1>1, <1>4 DEF ImportFirst
  <2>2. task[t].scope = {}
    BY <1>0, <1>2, <2>1, NoTaskAssumption
  <2> QED BY <1>1, <1>2, <1>4, <2>1, <2>2 DEF ImportFirst
<1>5. ASSUME NEW o \in queue, UrgentReader(o), NEW d \in task[o].scope, d \in task[t].scope
      PROVE  task[t].kind = "IMPORT" /\ t < o
  <2>1. o # t
    BY <1>5 DEF PriorityInv, KindsFixTypes
  <2>2. o \in Ahead
    BY <1>0, <1>2, <1>4, <1>5 DEF PriorityInv, UrgentReserve
  <2> QED BY <1>0, <1>1, <1>5, <2>1, <2>2, VisitOrder DEF PriorityInv, KindsFixTypes
<1>6. OthersYield'
  <2> SUFFICES ASSUME NEW o \in queue, UrgentReader(o), NEW d \in task[o].scope,
                      NEW w \in TaskIds, lockTable'[d].reservedRW = w
               PROVE  task[w].kind = "IMPORT"
    BY <1>1 DEF OthersYield, UrgentReader
  <2>1. d \in Tables
    BY <1>0, TaskFacts
  <2>2. CASE d \in task[t].scope
    BY <1>2, <1>5, <2>1, <2>2
  <2>3. CASE d \notin task[t].scope
    BY <1>2, <2>1, <2>3 DEF PriorityInv, OthersYield
  <2> QED BY <2>2, <2>3
<1>7. ImportsReserveAlone'
  <2> SUFFICES ASSUME NEW u \in TaskIds, task[u].kind = "IMPORT",
                      NEW c \in Tables, lockTable'[c].reservedRW = u
               PROVE  /\ \A d \in Tables : /\ lockTable'[d].reservedRO = {}
                                           /\ lockTable'[d].reservedRW \in {NoTask, u}
                      /\ u \notin Ahead' => \A d \in Tables : lockTable'[d].reservedRW = u
                      /\ \A o \in queue : UrgentReader(o) /\ task[o].scope # {} => u < o
    BY <1>1 DEF ImportsReserveAlone, ImportReservesAlone, UrgentReader
  <2>1. CASE u = t
    <3>1. task[t].scope = Tables
      BY <2>1 DEF PriorityInv, KindsFixTypes
    <3>2. \A o \in queue : UrgentReader(o) /\ task[o].scope # {} => t < o
      BY <1>0, <1>5, <3>1, TaskFacts
    <3> QED BY <1>2, <2>1, <3>1, <3>2
  <2>2. CASE u # t
    <3>1. c \notin task[t].scope /\ lockTable[c].reservedRW = u
      BY <1>2, <2>2
    <3>2. task[t].scope = {}
      BY <1>3, <2>2, <3>1
    <3>3. ImportReservesAlone(u)
      BY DEF PriorityInv, ImportsReserveAlone
    <3> QED BY <1>1, <1>2, <2>2, <3>1, <3>2, <3>3 DEF ImportReservesAlone
  <2> QED BY <2>1, <2>2
<1>8. UrgentReserve'
  <2> SUFFICES ASSUME NEW o \in queue, o \notin Ahead', UrgentReader(o)
               PROVE  \/ \A d \in task[o].scope : o \in lockTable'[d].reservedRO
                      \/ \E u \in TaskIds : (ImportFirst(u))'
    BY <1>1 DEF UrgentReserve, UrgentReader
  <2>1. o \notin Ahead
    BY <1>1 DEF PriorityInv, KindsFixTypes
  <2>2. task[o].scope \subseteq Tables
    BY <1>0, TaskFacts
  <2> QED BY <1>2, <1>4, <2>1, <2>2 DEF PriorityInv, UrgentReserve
<1> QED BY <1>6, <1>7, <1>8 DEF ReservationsByPriority

\* A reader that gets its reservations though it cannot start.
LEMMA PriorityReaderReserves ==
    ASSUME IsolationInv, OwnersInv, PriorityInv,
           NEW t \in TaskIds, Refuses(t), CanReserve(t), ~Writes(t)
    PROVE  ReservationsByPriority'
<1>0. TypeOK /\ queue \subseteq TaskIds /\ t # NoTask /\ task[t].scope \subseteq Tables
  BY TaskFacts, NoTaskAssumption DEF IsolationInv, Bookkeeping, TypeOK
<1>1. /\ UNCHANGED <<task, queue>> /\ lockTable' = WithFirstLock(t)
      /\ Ahead' = Ahead \ {t} /\ t \in Ahead /\ t \in queue /\ Visits(t)
  BY DEF Refuses, Visits
<1>2. ASSUME NEW d \in Tables
      PROVE  /\ lockTable'[d].reservedRW = lockTable[d].reservedRW
             /\ lockTable'[d].reservedRO = IF d \in task[t].scope THEN lockTable[d].reservedRO \cup {t}
                                                                  ELSE lockTable[d].reservedRO
             /\ d \in task[t].scope => lockTable[d].reservedRW = NoTask
  <2>1. CASE d \in task[t].scope
    <3>1. lockTable[d].reservedRW = NoTask
      BY <1>0, <2>1, CanReserveIff
    <3> QED BY <1>0, <1>1, <2>1, <3>1, FirstLockEntry
  <2>2. CASE d \notin task[t].scope
    BY <1>0, <1>1, <2>2, FirstLockEntry
  <2> QED BY <2>1, <2>2
<1>3. OthersYield'
  <2> SUFFICES ASSUME NEW o \in queue, UrgentReader(o), NEW d \in task[o].scope,
                      NEW w \in TaskIds, lockTable'[d].reservedRW = w
               PROVE  task[w].kind = "IMPORT"
    BY <1>1 DEF OthersYield, UrgentReader
  <2>1. d \in Tables
    BY <1>0, TaskFacts
  <2> QED BY <1>2, <2>1 DEF PriorityInv, OthersYield
<1>4. ImportsReserveAlone'
  <2> SUFFICES ASSUME NEW u \in TaskIds, task[u].kind = "IMPORT",
                      NEW c \in Tables, lockTable'[c].reservedRW = u
               PROVE  /\ \A d \in Tables : /\ lockTable'[d].reservedRO = {}
                                           /\ lockTable'[d].reservedRW \in {NoTask, u}
                      /\ u \notin Ahead' => \A d \in Tables : lockTable'[d].reservedRW = u
                      /\ \A o \in queue : UrgentReader(o) /\ task[o].scope # {} => u < o
    BY <1>1 DEF ImportsReserveAlone, ImportReservesAlone, UrgentReader
  <2>0. lockTable[c].reservedRW = u
    BY <1>2
  <2>1. ImportReservesAlone(u) /\ u # t /\ u # NoTask
    BY NoTaskAssumption DEF PriorityInv, ImportsReserveAlone, KindsFixTypes
  <2>2. task[t].scope = {}
    <3>1. CASE u \in Ahead
      <4>1. UrgentReader(t) /\ t < u
        BY <1>0, <1>1, <2>1, <3>1, VisitOrder DEF PriorityInv, KindsFixTypes
      <4>2. task[t].scope # {} => u < t
        BY <1>1, <2>0, <2>1, <4>1 DEF ImportReservesAlone
      <4>3. u \in Nat /\ t \in Nat
        BY TaskIdsAssumption
      <4>4. ~(t < u /\ u < t)
        BY <4>3
      <4> QED BY <4>1, <4>2, <4>4
    <3>2. CASE u \notin Ahead
      BY <1>0, <1>2, <2>0, <2>1, <3>2 DEF ImportReservesAlone
    <3> QED BY <3>1, <3>2
  <2> QED BY <1>1, <1>2, <2>0, <2>1, <2>2 DEF ImportReservesAlone
<1>5. UrgentReserve'
  <2> SUFFICES ASSUME NEW o \in queue, o \notin Ahead', UrgentReader(o)
               PROVE  \/ \A d \in task[o].scope : o \in lockTable'[d].reservedRO
                      \/ \E u \in TaskIds : (ImportFirst(u))'
    BY <1>1 DEF UrgentReserve, UrgentReader
  <2>1. task[o].scope \subseteq Tables
    BY <1>0, TaskFacts
  <2>2. CASE o = t
    BY <1>2, <2>1, <2>2
  <2>3. CASE o # t
    <3>1. o \notin Ahead
      BY <1>1, <2>3
    <3>2. ASSUME NEW u \in TaskIds, ImportFirst(u) PROVE (ImportFirst(u))'
      BY <1>1, <1>2, <3>2 DEF ImportFirst
    <3> QED BY <1>2, <2>1, <3>1, <3>2 DEF PriorityInv, UrgentReserve
  <2> QED BY <2>2, <2>3
<1> QED BY <1>3, <1>4, <1>5 DEF ReservationsByPriority

\* A task that starts gives its reservations up for locks.
LEMMA PriorityStarts ==
    ASSUME IsolationInv, OwnersInv, PriorityInv, NEW t \in TaskIds, Starts(t)
    PROVE  ReservationsByPriority'
<1>0. TypeOK /\ queue \subseteq TaskIds /\ task[t].scope \subseteq Tables
  BY TaskFacts DEF IsolationInv, Bookkeeping, TypeOK
<1>1. /\ UNCHANGED task /\ queue' = queue \ {t} /\ lockTable' = WithBothLocks(t) /\ AcquiresLock(t)
      /\ Ahead' = Ahead \ {t} /\ t \in Ahead
  BY DEF Starts, Visits
<1>2. ASSUME NEW d \in Tables
      PROVE  /\ d \notin task[t].scope => lockTable'[d] = lockTable[d]
             /\ d \in task[t].scope => /\ lockTable'[d].reservedRW = NoTask
                                       /\ lockTable'[d].reservedRO = lockTable[d].reservedRO \ {t}
                                       /\ lockTable[d].reservedRW \in {NoTask, t}
  BY <1>0, <1>1, BothLocksEntry
<1>3. OthersYield'
  <2> SUFFICES ASSUME NEW o \in queue, UrgentReader(o), NEW d \in task[o].scope,
                      NEW w \in TaskIds, lockTable'[d].reservedRW = w
               PROVE  task[w].kind = "IMPORT"
    BY <1>1 DEF OthersYield, UrgentReader
  <2>1. d \in Tables /\ w # NoTask
    BY <1>0, TaskFacts, NoTaskAssumption
  <2>2. lockTable[d].reservedRW = w
    BY <1>2, <2>1
  <2> QED BY <2>2 DEF PriorityInv, OthersYield
<1>4. ImportsReserveAlone'
  <2> SUFFICES ASSUME NEW u \in TaskIds, task[u].kind = "IMPORT",
                      NEW c \in Tables, lockTable'[c].reservedRW = u
               PROVE  /\ \A d \in Tables : /\ lockTable'[d].reservedRO = {}
                                           /\ lockTable'[d].reservedRW \in {NoTask, u}
                      /\ u \notin Ahead' => \A d \in Tables : lockTable'[d].reservedRW = u
                      /\ \A o \in queue : UrgentReader(o) /\ task[o].scope # {} => u < o
    BY <1>1 DEF ImportsReserveAlone, ImportReservesAlone, UrgentReader
  <2>1. u # NoTask /\ c \notin task[t].scope /\ lockTable[c].reservedRW = u
    BY <1>2, NoTaskAssumption
  <2>2. u # t /\ ImportReservesAlone(u)
    BY <2>1 DEF PriorityInv, ImportsReserveAlone, KindsFixTypes
  <2>3. \A d \in Tables : /\ lockTable[d].reservedRO = {}
                          /\ lockTable[d].reservedRW \in {NoTask, u}
    BY <2>1, <2>2 DEF ImportReservesAlone
  <2>4. \A d \in Tables : /\ lockTable'[d].reservedRO = {}
                          /\ lockTable'[d].reservedRW \in {NoTask, u}
    BY <1>2, <2>3
  <2>5. u \notin Ahead' => \A d \in Tables : lockTable'[d].reservedRW = u
    <3> SUFFICES ASSUME u \notin Ahead' PROVE \A d \in Tables : lockTable'[d].reservedRW = u
      OBVIOUS
    <3>1. \A d \in Tables : lockTable[d].reservedRW = u
      BY <1>1, <2>1, <2>2 DEF ImportReservesAlone
    <3> QED BY <1>0, <1>2, <2>1, <2>2, <3>1
  <2> QED BY <2>1, <2>2, <2>4, <2>5 DEF ImportReservesAlone
<1>5. UrgentReserve'
  <2> SUFFICES ASSUME NEW o \in queue \ {t}, o \notin Ahead', UrgentReader(o)
               PROVE  \/ \A d \in task[o].scope : o \in lockTable'[d].reservedRO
                      \/ \E u \in TaskIds : (ImportFirst(u))'
    BY <1>1 DEF UrgentReserve, UrgentReader
  <2>1. o \in queue \ Ahead /\ task[o].scope \subseteq Tables
    BY <1>0, <1>1, TaskFacts
  <2>2. CASE \A d \in task[o].scope : o \in lockTable[d].reservedRO
    BY <1>2, <2>1, <2>2
  <2>3. ASSUME NEW u \in TaskIds, ImportFirst(u) PROVE (ImportFirst(u))'
    <3>1. u # t /\ u # NoTask /\ u \in queue \ Ahead /\ task[u].kind = "IMPORT"
          /\ \A d \in Tables : lockTable[d].reservedRW = u
      BY <1>1, <2>3, NoTaskAssumption DEF ImportFirst
    <3>2. \A d \in Tables : lockTable'[d].reservedRW = u
      BY <1>0, <1>2, <3>1
    <3> QED BY <1>1, <3>1, <3>2 DEF ImportFirst
  <2> QED BY <2>1, <2>2, <2>3 DEF PriorityInv, UrgentReserve
<1> QED BY <1>3, <1>4, <1>5 DEF ReservationsByPriority

LEMMA PriorityStep ==
    ASSUME ThrowingKinds = {}, IsolationInv, OwnersInv, PriorityInv, [Next]_vars
    PROVE  PriorityInv'
<1>0. TypeOK /\ OneLoop /\ ReservedByWaiting /\ IdsInOrder /\ KindsFixTypes
  BY DEF IsolationInv, Bookkeeping, OwnersInv, PriorityInv
<1>1. ASSUME NEW t \in TaskIds, NEW d \in Task, Submits(t, d) PROVE ReservationsByPriority'
  <2>1. Ahead' = queue' /\ queue' = queue \cup {t} /\ t \in TaskIds \ Scheduled
        /\ task' = [task EXCEPT ![t] = d]
    BY <1>1 DEF Submits, NextTaskId
  <2>2. task'[t] = d
    BY <1>0, <2>1 DEF TypeOK
  <2>3. \A c \in Tables : /\ lockTable'[c].reservedRO = lockTable[c].reservedRO
                          /\ lockTable'[c].reservedRW \in {NoTask, lockTable[c].reservedRW}
                          /\ Priority(d.kind) < 2 /\ c \in d.scope => lockTable'[c].reservedRW = NoTask
    BY <1>0, <1>1, SubmitEntry
  <2>4. d.kind \in {"EXPORT", "OBSERVER_QUERY"} => Priority(d.kind) < 2
    BY DEF Priority
  <2>5. (UrgentReader(t))' => d.kind \in {"EXPORT", "OBSERVER_QUERY"}
    BY <2>2 DEF UrgentReader
  <2>6. (UrgentReader(t))' => \A c \in (task[t].scope)' \cap Tables : lockTable'[c].reservedRW = NoTask
    BY <2>2, <2>3, <2>4, <2>5
  <2> QED BY <2>1, <2>3, <2>6, PriorityNewLoop
<1>2. ASSUME NEW e \in Executing, Ends(e) PROVE ReservationsByPriority'
  <2>1. PICK t \in TaskIds : t = e[1]
    BY ExecutingFacts DEF IsolationInv
  <2>2. Ahead' = queue' /\ queue' = queue /\ t \notin queue
    BY <1>0, <1>2, <2>1 DEF Ends, OneLoop
  <2>3. ASSUME NEW d \in Tables
        PROVE  /\ lockTable'[d].reservedRO = lockTable[d].reservedRO
               /\ lockTable'[d].reservedRW \in {NoTask, lockTable[d].reservedRW}
    <3>1. t \notin lockTable[d].reservedRO
      BY <1>0, <2>2 DEF ReservedByWaiting
    <3>2. CASE d \in task[t].scope
      <4>1. /\ lockTable'[d].reservedRO = lockTable[d].reservedRO \ {t}
            /\ lockTable'[d].reservedRW = IF lockTable[d].reservedRW = t THEN NoTask
                                          ELSE lockTable[d].reservedRW
        BY <1>0, <1>2, <2>1, <3>2, EndEntry
      <4> QED BY <3>1, <4>1
    <3>3. CASE d \notin task[t].scope
      BY <1>0, <1>2, <2>1, <3>3, EndEntry
    <3> QED BY <3>2, <3>3
  <2> QED BY <2>2, <2>3, PriorityNewLoop
<1>3. ASSUME Rests PROVE ReservationsByPriority'
  BY <1>3 DEF Rests, ReservationsByPriority, PriorityInv, OthersYield, ImportsReserveAlone,
     ImportReservesAlone, UrgentReserve, ImportFirst, UrgentReader
<1>4. ASSUME NEW t \in TaskIds, Refuses(t) PROVE ReservationsByPriority'
  BY <1>4, PriorityRefusedOutright, PriorityWriterReserves, PriorityReaderReserves
<1>5. ASSUME NEW t \in TaskIds, Starts(t) PROVE ReservationsByPriority'
  BY <1>5, PriorityStarts
<1>6. ReservationsByPriority'
  BY <1>1, <1>2, <1>3, <1>4, <1>5, Steps
<1>7. IdsInOrder' /\ KindsFixTypes'
  BY <1>0, DescriptorsStep
<1> QED BY <1>6, <1>7 DEF PriorityInv, ReservationsByPriority

LEMMA PriorityInit == Init => PriorityInv
<1> SUFFICES ASSUME Init PROVE PriorityInv
  OBVIOUS
<1>1. /\ queue = {} /\ \A t \in TaskIds : task[t] = Unscheduled
      /\ \A d \in Tables : lockTable[d].reservedRW = NoTask
  BY DEF Init, NewEntry
<1>2. Scheduled = {}
  BY <1>1 DEF Scheduled
<1>3. IdsInOrder /\ KindsFixTypes
  BY <1>1, <1>2 DEF IdsInOrder, KindsFixTypes, UrgentReader, Writes, Unscheduled
<1>4. OthersYield /\ UrgentReserve /\ ImportsReserveAlone
  BY <1>1, NoTaskAssumption DEF OthersYield, UrgentReserve, ImportsReserveAlone, ImportReservesAlone
<1> QED BY <1>3, <1>4 DEF PriorityInv

\* A task that starts overtakes no urgent reader that waits for a table of its own.
LEMMA NoReaderOvertaken ==
    ASSUME ThrowingKinds = {}, IsolationInv, OwnersInv, PriorityInv, [Next]_vars,
           NEW o \in queue, NEW w \in TaskIds,
           UrgentReader(o), Writes(w), Overlap(o, w),
           Priority(task[w].kind) > Priority(task[o].kind)
    PROVE  calls'[w] = calls[w]
<1>0. TypeOK /\ queue \subseteq TaskIds
  BY DEF IsolationInv, Bookkeeping, TypeOK
<1>1. ASSUME NEW t \in TaskIds, Starts(t) PROVE t # w
  <2> SUFFICES ASSUME t = w PROVE FALSE
    OBVIOUS
  <2>1. PICK d \in task[w].scope : d \in task[o].scope /\ d \in Tables
    BY <1>0, TaskFacts DEF Overlap
  <2>2. o # w
    BY DEF PriorityInv, KindsFixTypes
  <2>3. task[w].kind # "IMPORT"
    BY PriorityFacts
  <2>4. o \notin Ahead
    BY <1>0, <1>1, <2>2, <2>3, VisitOrder DEF PriorityInv, KindsFixTypes, Starts
  <2>5. lockTable[d].reservedRO = {} /\ lockTable[d].reservedRW \in {NoTask, w}
    BY <1>0, <1>1, <2>1, AcquiresFacts, CanReserveIff DEF Starts, IsolationInv
  <2>6. PICK u \in TaskIds : ImportFirst(u)
    BY <2>1, <2>4, <2>5 DEF PriorityInv, UrgentReserve
  <2>7. u = w
    BY <2>1, <2>5, <2>6, NoTaskAssumption DEF ImportFirst
  <2> QED BY <2>3, <2>6, <2>7 DEF ImportFirst
<1>2. ASSUME NEW t \in TaskIds, Starts(t) PROVE calls'[w] = calls[w]
  BY <1>0, <1>1, <1>2 DEF Starts, TypeOK
<1> QED BY <1>2, Steps DEF Submits, Refuses, Ends, Rests

\* Without external changes and execs that throw, no writer of lower priority starts
\* while an export or an observer query waits for one of its tables.
THEOREM ReadersNotOvertaken ==
    ASSUME NoExternalChanges, ThrowingKinds = {} PROVE Spec => ReaderNotOvertaken
<1> DEFINE Inv == IsolationInv /\ OwnersInv /\ PriorityInv
           NoneOvertaken ==
              \A o \in queue, w \in TaskIds :
                 /\ task[o].kind \in {"EXPORT", "OBSERVER_QUERY"}
                 /\ Writes(w) /\ Overlap(o, w)
                 /\ Priority(task[w].kind) > Priority(task[o].kind)
                 => calls'[w] = calls[w]
<1>1. Init => Inv
  BY IsolationInvInductive, OwnersInit, PriorityInit
<1>2. Inv /\ [Next]_vars => Inv'
  BY IsolationInvInductive, OwnersStep, PriorityStep
<1>3. Inv /\ [Next]_vars => [NoneOvertaken]_vars
  BY NoReaderOvertaken DEF UrgentReader
<1> QED BY <1>1, <1>2, <1>3, PTL DEF Spec, ReaderNotOvertaken
==============================================================================
