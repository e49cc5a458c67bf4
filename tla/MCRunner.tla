------------------------------ MODULE MCRunner ------------------------------
(***************************************************************************)
(* Runner on two tables and a few tasks.                                   *)
(***************************************************************************)
EXTENDS Runner

CONSTANTS a, b

MCTables == {a, b}
MCScopes == {{a}, {b}, {a, b}}
MCObserved == {{a}}
=============================================================================
