---------------------------- MODULE LockManager ----------------------------
(***************************************************************************)
(* The lock table of lib/proc/lock_manager.ts: one LockTableEntry per      *)
(* database table, four kinds of lock.  Pure operators on the value of the *)
(* table, which the Runner module keeps in a variable.  Both two-phase     *)
(* orders (RESERVED_READ_ONLY then SHARED, RESERVED_READ_WRITE then        *)
(* EXCLUSIVE) are requests on a whole scope: every table or none.          *)
(***************************************************************************)
EXTENDS Naturals

CONSTANTS
    Tables,     \* the tables of the schema, the data items of the lock table
    TaskIds,    \* the unique numbers tasks get, in order of scheduling
    NoTask      \* "null" in an entry's exclusive or reserved read-write lock

ASSUME TaskIdsAssumption == TaskIds \subseteq Nat
ASSUME NoTaskAssumption == NoTask \notin TaskIds

LockType == {"EXCLUSIVE", "RESERVED_READ_ONLY", "RESERVED_READ_WRITE", "SHARED"}

LockTableEntry ==
    [exclusive  : TaskIds \cup {NoTask},
     reservedRW : TaskIds \cup {NoTask},
     reservedRO : SUBSET TaskIds,
     shared     : SUBSET TaskIds]

\* What lock_manager.ts says of the four locks: an EXCLUSIVE lock excludes SHARED
\* ones, and a writer's reservation excludes readers' reservations.
EntryConsistent(e) ==
    /\ e.exclusive # NoTask => e.shared = {}
    /\ e.reservedRW # NoTask => e.reservedRO = {}

\* getEntry creates the entry of a table on its first use.
NewEntry ==
    [exclusive |-> NoTask, reservedRW |-> NoTask, reservedRO |-> {}, shared |-> {}]

-----------------------------------------------------------------------------
(* LockTableEntry: one table. *)

\* Faulty variant: an EXCLUSIVE lock is granted over SHARED ones.
EntryCanAcquireOverShared(e, t, type) ==
    \/ /\ type = "EXCLUSIVE"
       /\ e.reservedRO = {} /\ e.exclusive = NoTask /\ e.reservedRW = t
    \/ /\ type = "SHARED"
       /\ e.exclusive = NoTask /\ e.reservedRW = NoTask /\ t \in e.reservedRO
    \/ type = "RESERVED_READ_ONLY" /\ e.reservedRW = NoTask
    \/ /\ type = "RESERVED_READ_WRITE"
       /\ e.reservedRO = {} /\ e.reservedRW \in {NoTask, t}

\* Faulty variant: an EXCLUSIVE lock is granted over another one.
EntryCanAcquireOverExclusive(e, t, type) ==
    \/ /\ type = "EXCLUSIVE"
       /\ e.shared = {} /\ e.reservedRO = {} /\ e.reservedRW = t
    \/ /\ type = "SHARED"
       /\ e.exclusive = NoTask /\ e.reservedRW = NoTask /\ t \in e.reservedRO
    \/ type = "RESERVED_READ_ONLY" /\ e.reservedRW = NoTask
    \/ /\ type = "RESERVED_READ_WRITE"
       /\ e.reservedRO = {} /\ e.reservedRW \in {NoTask, t}

EntryCanAcquire(e, t, type) ==
    \/ /\ type = "EXCLUSIVE"
       /\ e.shared = {} /\ e.reservedRO = {}
       /\ e.exclusive = NoTask /\ e.reservedRW = t
    \/ /\ type = "SHARED"
       /\ e.exclusive = NoTask /\ e.reservedRW = NoTask
       /\ t \in e.reservedRO
    \/ /\ type = "RESERVED_READ_ONLY"
       /\ e.reservedRW = NoTask
    \/ /\ type = "RESERVED_READ_WRITE"
       /\ e.reservedRO = {} /\ e.reservedRW \in {NoTask, t}

EntryGrant(e, t, type) ==
    CASE type = "EXCLUSIVE" -> [e EXCEPT !.reservedRW = NoTask, !.exclusive = t]
      [] type = "SHARED" -> [e EXCEPT !.shared = @ \cup {t}, !.reservedRO = @ \ {t}]
      [] type = "RESERVED_READ_ONLY" -> [e EXCEPT !.reservedRO = @ \cup {t}]
      [] type = "RESERVED_READ_WRITE" -> [e EXCEPT !.reservedRW = t]

\* Faulty variant: SHARED locks are not released.
EntryReleaseKeepsShared(e, t) ==
    [exclusive  |-> IF e.exclusive = t THEN NoTask ELSE e.exclusive,
     reservedRW |-> IF e.reservedRW = t THEN NoTask ELSE e.reservedRW,
     reservedRO |-> e.reservedRO \ {t},
     shared     |-> e.shared]

EntryRelease(e, t) ==
    [exclusive  |-> IF e.exclusive = t THEN NoTask ELSE e.exclusive,
     reservedRW |-> IF e.reservedRW = t THEN NoTask ELSE e.reservedRW,
     reservedRO |-> e.reservedRO \ {t},
     shared     |-> e.shared \ {t}]

-----------------------------------------------------------------------------
(* LockManager: the entries of a scope together. *)

CanAcquireLock(locks, t, scope, type) ==
    \A d \in scope : EntryCanAcquire(locks[d], t, type)

GrantLock(locks, t, scope, type) ==
    [d \in Tables |-> IF d \in scope THEN EntryGrant(locks[d], t, type) ELSE locks[d]]

RequestLock(locks, t, scope, type) ==
    IF CanAcquireLock(locks, t, scope, type)
    THEN GrantLock(locks, t, scope, type)
    ELSE locks

ReleaseLock(locks, t, scope) ==
    [d \in Tables |-> IF d \in scope THEN EntryRelease(locks[d], t) ELSE locks[d]]

\* Faulty variant: high-priority tasks clear nothing.
ClearNoLocks(locks, scope) == locks

ClearReservedLocks(locks, scope) ==
    [d \in Tables |-> IF d \in scope THEN [locks[d] EXCEPT !.reservedRW = NoTask]
                                     ELSE locks[d]]
=============================================================================
