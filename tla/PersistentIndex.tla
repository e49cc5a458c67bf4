-------------------------- MODULE PersistentIndex --------------------------
(***************************************************************************)
(* A B-tree index that outlives the session.  A commit overwrites the      *)
(* index table with one row per leaf, stored under the id of the node      *)
(* (base_tx.ts, BTreeNode.serialize); the next session reads the table     *)
(* back and builds a tree over the rows in the order they come             *)
(* (prefetcher.ts, BTree.deserialize).  The store returns rows by id.      *)
(***************************************************************************)
EXTENDS BTree

LOCAL INSTANCE SequencesExt

VARIABLE indexTable  \* the rows of the index table, as the store returns them

pvars == <<vars, indexTable>>

\* get([]) of an object store: every row, in the order of its id.
ById(leaves) ==
  [i \in DOMAIN leaves |->
     CHOOSE leaf \in ToSet(leaves) :
       Cardinality({other \in ToSet(leaves) : other.id < leaf.id}) = i - 1]

PInit == Init /\ indexTable = ById(Serialize(nodes))

Call == Next /\ UNCHANGED indexTable

\* mergeIndexChanges(): the whole index overwrites its table.
Commit ==
  /\ indexTable' = ById(Serialize(nodes))
  /\ UNCHANGED vars

\* A new session: reconstructPersistentIndex().
Reload ==
  /\ nodes' = Deserialize([i \in DOMAIN indexTable |->
                             Leaf(indexTable[i].id, indexTable[i].keys,
                                  indexTable[i].values)])
  /\ totalRows' = CountRows(indexTable)
  /\ refused' = FALSE
  /\ UNCHANGED <<unique, call, calls, indexTable>>

PNext == Call \/ Commit \/ Reload

PSpec == PInit /\ [][PNext]_pvars

\* Every row the tree holds is found by its key, in the sessions to come too:
\* "Serialize and deserialize should have no problem" (btree_test.ts).
KeysFound == \A key \in Keys : Get(1, key) = Contents[key]
=============================================================================
