--------------------------- MODULE IsolatedTasks ---------------------------
(***************************************************************************)
(* What the Runner promises its clients, with no queue, no lock and no     *)
(* promise: a scheduled task waits, then runs once, then is settled, and   *)
(* it starts only while no running task conflicts with it.                 *)
(***************************************************************************)
CONSTANTS
    TaskIds,      \* the tasks there may ever be
    Descriptor,   \* what may be scheduled: records with a type and a scope
    Unscheduled   \* the descriptor of a task id not used yet

VARIABLES
    task,     \* the descriptor of each task id
    phase     \* where each task is in its life

\* Faulty variant: a reader shares a table with a writer.
ConflictOfWriters(t, u) ==
    /\ task[t].scope \cap task[u].scope # {}
    /\ {"READ_WRITE"} = {task[t].type, task[u].type}

Conflict(t, u) ==
    /\ task[t].scope \cap task[u].scope # {}
    /\ "READ_WRITE" \in {task[t].type, task[u].type}

Init ==
    /\ task = [t \in TaskIds |-> Unscheduled]
    /\ phase = [t \in TaskIds |-> "unscheduled"]

Submit(t, d) ==
    /\ phase[t] = "unscheduled"
    /\ task' = [task EXCEPT ![t] = d]
    /\ phase' = [phase EXCEPT ![t] = "waiting"]

Start(t) ==
    /\ phase[t] = "waiting"
    /\ \A u \in TaskIds \ {t} : phase[u] = "running" => ~Conflict(t, u)
    /\ phase' = [phase EXCEPT ![t] = "running"]
    /\ UNCHANGED task

Finish(t) ==
    /\ phase[t] = "running"
    /\ phase' = [phase EXCEPT ![t] = "settled"]
    /\ UNCHANGED task

Next ==
    \E t \in TaskIds : \/ \E d \in Descriptor : Submit(t, d)
                       \/ Start(t)
                       \/ Finish(t)

Spec == Init /\ [][Next]_<<task, phase>>
=============================================================================
