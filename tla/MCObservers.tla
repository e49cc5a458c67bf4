---------------------------- MODULE MCObservers ----------------------------
(***************************************************************************)
(* Two tables, a query about one and a query about both, and contents with *)
(* duplicates, whose differences are not aligned.                          *)
(***************************************************************************)
EXTENDS Observers, TLC

MCFrom == (1 :> << "a" >>) @@ (2 :> << "a", "b" >>)
MCStored == { <<>>, << 1, 1, 2 >> }
MCContents == { << 1, 2 >>, << 2, 1, 1, 2 >> }
=============================================================================
