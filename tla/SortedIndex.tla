---------------------------- MODULE SortedIndex ----------------------------
(***************************************************************************)
(* What an index promises (RuntimeIndex, runtime_index.ts): a table from   *)
(* keys to the row ids stored under them, where a unique index holds at    *)
(* most one row under a key and refuses a second, and an index with        *)
(* duplicates refuses only a row it already holds.  Nothing is said of how *)
(* the rows are laid out: BTree implements this module.                    *)
(***************************************************************************)
EXTENDS Integers, FiniteSets

CONSTANTS Keys, RowIds

VARIABLES rows,    \* key |-> the row ids stored under it
          unique,  \* uniqueKeyOnly
          call,    \* the last call: what was called, the key, the row id or 0
          refused  \* it threw DUPLICATE_KEYS or ROW_ID_EXISTED

Init ==
  /\ rows \in [Keys -> SUBSET RowIds]
  /\ unique \in BOOLEAN
  /\ unique => \A k \in Keys : Cardinality(rows[k]) <= 1
  /\ call = <<"none", 0, 0>>
  /\ refused = FALSE

\* The call leaves the rows s under key k, and no other key's rows change.
Leaves(k, s) == rows' = [rows EXCEPT ![k] = s] /\ ~refused'

CanAdd(k, r) == IF unique THEN rows[k] = {} ELSE r \notin rows[k]

Add(k, r) ==
  /\ call' = <<"add", k, r>>
  /\ \/ CanAdd(k, r) /\ Leaves(k, rows[k] \union {r})
     \/ ~CanAdd(k, r) /\ rows' = rows /\ refused'

Set(k, r) ==
  /\ call' = <<"set", k, r>>
  /\ Leaves(k, {r})

\* A unique index ignores the row id it is given.
Remove(k, r) ==
  /\ call' = <<"remove", k, r>>
  /\ Leaves(k, IF unique THEN {} ELSE rows[k] \ {r})

RemoveAll(k) ==
  /\ call' = <<"remove", k, 0>>
  /\ Leaves(k, {})

Clear ==
  /\ call' = <<"clear", 0, 0>>
  /\ rows' = [k \in Keys |-> {}]
  /\ ~refused'

Next ==
  /\ \/ \E k \in Keys, r \in RowIds : Add(k, r) \/ Set(k, r) \/ Remove(k, r)
     \/ \E k \in Keys : RemoveAll(k)
     \/ Clear
  /\ UNCHANGED unique

Spec == Init /\ [][Next]_<<rows, unique, call, refused>>
=============================================================================
