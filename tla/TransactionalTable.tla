------------------------- MODULE TransactionalTable -------------------------
(***************************************************************************)
(* What transactions promise of one table: the durable rows change only    *)
(* when a transaction commits, and then all its changes at once; a         *)
(* transaction begins with the durable rows in view, and so does the one   *)
(* after it, whether it was committed, rolled back or cut off.  In no view *)
(* do two rows share a key of a unique index.                              *)
(***************************************************************************)
EXTENDS Naturals

CONSTANTS Table, Consistent(_)   \* the values of a table, and those indices admit

VARIABLES data, view, active

vars == <<data, view, active>>

Init == data \in Table /\ Consistent(data) /\ view = data /\ ~active

Begin == ~active /\ active' /\ UNCHANGED <<data, view>>

Change ==
    /\ active /\ UNCHANGED <<data, active>>
    /\ view' \in Table /\ Consistent(view')

Commit == active /\ data' = view /\ UNCHANGED <<view, active>>

\* The end of a transaction that was committed, and of one that was not.
End == active /\ ~active' /\ view' = data /\ UNCHANGED data

Next == Begin \/ Change \/ Commit \/ End

Spec == Init /\ [][Next]_vars
=============================================================================
