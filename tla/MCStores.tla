------------------------------ MODULE MCStores ------------------------------
(* A small instance of Stores: ids 1 to 3 on two pages (0 is never given,  *)
(* the scan returns it for an empty table), two versions of the schema.    *)
EXTENDS Stores

\* The properties speak of a store up to the transaction that it breaks in two.
NotTorn == torn = "no"
=============================================================================
