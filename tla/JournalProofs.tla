--------------------------- MODULE JournalProofs ---------------------------
(***************************************************************************)
(* Proofs about Journal for every set of rows and keys and every choice of *)
(* indices: the diff is net, the indices describe the cache, memory equals *)
(* the back store between transactions, and a rollback is refused only for *)
(* a key that moved between rows.                                          *)
(***************************************************************************)
EXTENDS Journal, FiniteSetTheorems, TLAPS

-----------------------------------------------------------------------------
(* TableDiff *)

LEMMA EmptyDiffIsNet ==
    ASSUME NEW t \in Table
    PROVE  EmptyDiff \in TableDiff /\ IsNet(EmptyDiff, t, t)
<1>1. NoRows \in Table /\ NoRows \in [RowIds -> Change \cup {None}]
  BY DEF NoRows, Table
<1>2. EmptyDiff \in TableDiff
  BY <1>1 DEF EmptyDiff, TableDiff
<1>3. \A id \in RowIds : NoRows[id] = None
  BY DEF NoRows
<1> QED BY <1>2, <1>3 DEF EmptyDiff, IsNet

\* One modification, recorded in a net diff, leaves it net.
LEMMA RecordIsNet ==
    ASSUME NEW d \in TableDiff, NEW s \in Table, NEW c \in Table, IsNet(d, s, c),
           NEW mod \in Modification, mod.before = c[mod.id],
           mod.before # None \/ mod.now # None
    PROVE  /\ Record(d, mod) \in TableDiff
           /\ IsNet(Record(d, mod), s, [c EXCEPT ![mod.id] = mod.now])
<1> DEFINE id == mod.id
           t == [c EXCEPT ![id] = mod.now]
<1>1. /\ id \in RowIds
      /\ mod.before \in Row \cup {None}
      /\ mod.now \in Row \cup {None}
  BY DEF Modification
<1>2. /\ d.added \in Table /\ d.deleted \in Table
      /\ d.modified \in [RowIds -> Change \cup {None}]
      /\ d = [added |-> d.added, modified |-> d.modified, deleted |-> d.deleted]
  BY DEF TableDiff
<1>3. ASSUME NEW a \in Table, NEW m \in [RowIds -> Change \cup {None}], NEW x \in Table
      PROVE  [added |-> a, modified |-> m, deleted |-> x] \in TableDiff
  BY <1>3 DEF TableDiff
<1>4. None \notin Row /\ None \notin Change
  BY NoneAssumption
<1>5. /\ d.added[id] = IF s[id] = None THEN c[id] ELSE None
      /\ d.deleted[id] = IF c[id] = None THEN s[id] ELSE None
      /\ d.modified[id] = None /\ s[id] # None /\ c[id] # None => c[id] = s[id]
      /\ d.modified[id] # None =>
            /\ s[id] # None /\ c[id] # None
            /\ d.modified[id] = [before |-> s[id], now |-> c[id]]
  BY <1>1 DEF IsNet
<1>6. s[id] \in Row \cup {None} /\ c[id] \in Row \cup {None}
  BY <1>1 DEF Table
<1>7. /\ t[id] = mod.now
      /\ \A j \in RowIds \ {id} : t[j] = c[j]
  BY <1>1 DEF Table
\* The shape of the new diff: it differs at id only.
<1>8. ASSUME NEW e, NEW a \in Row \cup {None}, NEW m \in Change \cup {None},
             NEW x \in Row \cup {None},
             e = [added    |-> [d.added EXCEPT ![id] = a],
                  modified |-> [d.modified EXCEPT ![id] = m],
                  deleted  |-> [d.deleted EXCEPT ![id] = x]],
             a = IF s[id] = None THEN mod.now ELSE None,
             x = IF mod.now = None THEN s[id] ELSE None,
             m = None /\ s[id] # None /\ mod.now # None => mod.now = s[id],
             m # None => /\ s[id] # None /\ mod.now # None
                         /\ m = [before |-> s[id], now |-> mod.now]
      PROVE  e \in TableDiff /\ IsNet(e, s, t)
  <2>1. e \in TableDiff
    BY <1>1, <1>2, <1>3, <1>8 DEF Table
  <2>2. e.added[id] = a /\ e.modified[id] = m /\ e.deleted[id] = x
    BY <1>1, <1>2, <1>8 DEF Table
  <2>3. \A j \in RowIds \ {id} : /\ e.added[j] = d.added[j]
                                 /\ e.modified[j] = d.modified[j]
                                 /\ e.deleted[j] = d.deleted[j]
    BY <1>2, <1>8 DEF Table
  <2>4. ASSUME NEW j \in RowIds \ {id}
        PROVE  /\ e.added[j] = IF s[j] = None THEN t[j] ELSE None
               /\ e.deleted[j] = IF t[j] = None THEN s[j] ELSE None
               /\ e.modified[j] = None /\ s[j] # None /\ t[j] # None => t[j] = s[j]
               /\ e.modified[j] # None =>
                     /\ s[j] # None /\ t[j] # None
                     /\ e.modified[j] = [before |-> s[j], now |-> t[j]]
    BY <1>7, <2>3 DEF IsNet
  <2>5. /\ e.added[id] = IF s[id] = None THEN t[id] ELSE None
        /\ e.deleted[id] = IF t[id] = None THEN s[id] ELSE None
        /\ e.modified[id] = None /\ s[id] # None /\ t[id] # None => t[id] = s[id]
        /\ e.modified[id] # None =>
              /\ s[id] # None /\ t[id] # None
              /\ e.modified[id] = [before |-> s[id], now |-> t[id]]
    BY <1>7, <1>8, <2>2
  <2>6. IsNet(e, s, t)
    BY <2>4, <2>5 DEF IsNet
  <2> QED BY <2>1, <2>6
<1>9. CASE mod.before = None
  <2>1. mod.now \in Row /\ Record(d, mod) = Add(d, id, mod.now)
    BY <1>1, <1>9 DEF Record
  <2>2. CASE d.deleted[id] # None
    <3> DEFINE change == [before |-> d.deleted[id], now |-> mod.now]
    <3>1. change \in Change /\ d.added[id] = None
      BY <1>1, <1>4, <1>5, <1>6, <1>9, <2>1, <2>2 DEF Change
    <3>2. Add(d, id, mod.now) = [added    |-> [d.added EXCEPT ![id] = None],
                                 modified |-> [d.modified EXCEPT ![id] = change],
                                 deleted  |-> [d.deleted EXCEPT ![id] = None]]
      BY <1>1, <1>2, <2>2, <3>1 DEF Add, Table
    <3> HIDE DEF change
    <3>3. change = [before |-> s[id], now |-> mod.now] /\ s[id] # None
      BY <1>4, <1>5, <1>9, <2>2 DEF change
    <3> QED BY <1>4, <1>8, <1>9, <2>1, <3>1, <3>2, <3>3
  <2>3. CASE d.deleted[id] = None
    <3>1. s[id] = None /\ d.modified[id] = None
      BY <1>5, <1>9, <2>3
    <3>2. Add(d, id, mod.now) = [added    |-> [d.added EXCEPT ![id] = mod.now],
                                 modified |-> [d.modified EXCEPT ![id] = None],
                                 deleted  |-> [d.deleted EXCEPT ![id] = None]]
      BY <1>1, <1>2, <2>3, <3>1 DEF Add, Table
    <3> QED BY <1>4, <1>8, <1>9, <2>1, <3>1, <3>2
  <2> QED BY <2>2, <2>3
<1>10. CASE mod.before # None /\ mod.now = None
  <2>1. mod.before \in Row /\ Record(d, mod) = Delete(d, id, mod.before)
    BY <1>1, <1>10 DEF Record
  <2>2. CASE d.added[id] # None
    <3>1. s[id] = None /\ d.modified[id] = None /\ d.deleted[id] = None
      BY <1>5, <1>10, <2>2
    <3>2. Delete(d, id, mod.before) = [added    |-> [d.added EXCEPT ![id] = None],
                                       modified |-> [d.modified EXCEPT ![id] = None],
                                       deleted  |-> [d.deleted EXCEPT ![id] = None]]
      BY <1>1, <1>2, <2>2, <3>1 DEF Delete, Table
    <3> QED BY <1>4, <1>8, <1>10, <2>1, <3>1, <3>2
  <2>3. CASE d.added[id] = None /\ d.modified[id] # None
    <3>1. s[id] # None /\ d.modified[id].before = s[id]
      BY <1>5, <2>3
    <3>2. Delete(d, id, mod.before) = [added    |-> [d.added EXCEPT ![id] = None],
                                       modified |-> [d.modified EXCEPT ![id] = None],
                                       deleted  |-> [d.deleted EXCEPT ![id] = s[id]]]
      BY <1>1, <1>2, <2>3, <3>1 DEF Delete, Table
    <3> QED BY <1>4, <1>6, <1>8, <1>10, <2>1, <3>1, <3>2
  <2>4. CASE d.added[id] = None /\ d.modified[id] = None
    <3>1. s[id] # None /\ s[id] = mod.before
      BY <1>5, <1>10, <2>4
    <3>2. Delete(d, id, mod.before) = [added    |-> [d.added EXCEPT ![id] = None],
                                       modified |-> [d.modified EXCEPT ![id] = None],
                                       deleted  |-> [d.deleted EXCEPT ![id] = s[id]]]
      BY <1>1, <1>2, <2>4, <3>1 DEF Delete, Table
    <3> QED BY <1>4, <1>6, <1>8, <1>10, <2>1, <3>1, <3>2
  <2> QED BY <2>2, <2>3, <2>4
<1>11. CASE mod.before # None /\ mod.now # None
  <2> DEFINE change == [before |-> mod.before, now |-> mod.now]
  <2>1. change \in Change /\ Record(d, mod) = Modify(d, id, change)
    BY <1>1, <1>11 DEF Record, Change
  <2>2. CASE d.added[id] # None
    <3>1. s[id] = None /\ d.modified[id] = None /\ d.deleted[id] = None
      BY <1>5, <1>11, <2>2
    <3>2. Modify(d, id, change) = [added    |-> [d.added EXCEPT ![id] = mod.now],
                                   modified |-> [d.modified EXCEPT ![id] = None],
                                   deleted  |-> [d.deleted EXCEPT ![id] = None]]
      BY <1>1, <1>2, <2>2, <3>1 DEF Modify, Table
    <3> QED BY <1>1, <1>4, <1>8, <1>11, <2>1, <3>1, <3>2
  <2>3. CASE d.added[id] = None /\ d.modified[id] # None
    <3> DEFINE both == [before |-> s[id], now |-> mod.now]
    <3>1. s[id] # None /\ d.modified[id] = [before |-> s[id], now |-> c[id]] /\ d.deleted[id] = None
      BY <1>5, <1>11, <2>3
    <3>2. both \in Change /\ [d.modified[id] EXCEPT !.now = change.now] = both
      BY <1>1, <1>6, <1>11, <3>1 DEF Change
    <3>3. Modify(d, id, change) = [d EXCEPT !.modified[id] = both]
      BY <1>1, <1>2, <2>3, <3>2 DEF Modify
    <3>4. Modify(d, id, change) = [added    |-> [d.added EXCEPT ![id] = None],
                                   modified |-> [d.modified EXCEPT ![id] = both],
                                   deleted  |-> [d.deleted EXCEPT ![id] = None]]
      BY <1>1, <1>2, <2>3, <3>1, <3>3 DEF Table
    <3>5. both = [before |-> s[id], now |-> mod.now]
      OBVIOUS
    <3> HIDE DEF both
    <3>6. both # None
      BY <1>4, <3>2
    <3>7. Record(d, mod) = [added    |-> [d.added EXCEPT ![id] = None],
                            modified |-> [d.modified EXCEPT ![id] = both],
                            deleted  |-> [d.deleted EXCEPT ![id] = None]]
      BY <2>1, <3>4
    <3> DEFINE e == Record(d, mod)
    <3>8. /\ None = IF s[id] = None THEN mod.now ELSE None
          /\ None = IF mod.now = None THEN s[id] ELSE None
          /\ s[id] # None /\ mod.now # None
      BY <1>11, <3>1
    <3>9. both \in Change \cup {None}
      BY <3>2
    <3>10. e = [added    |-> [d.added EXCEPT ![id] = None],
                modified |-> [d.modified EXCEPT ![id] = both],
                deleted  |-> [d.deleted EXCEPT ![id] = None]]
      BY <3>7
    <3> HIDE DEF e
    <3>11. e \in TableDiff /\ IsNet(e, s, t)
      BY <1>8, <3>5, <3>6, <3>8, <3>9, <3>10
    <3> QED BY <3>11 DEF e
  <2>4. CASE d.added[id] = None /\ d.modified[id] = None
    <3>1. s[id] # None /\ s[id] = mod.before /\ d.deleted[id] = None
      BY <1>5, <1>11, <2>4
    <3>2. Modify(d, id, change) = [added    |-> [d.added EXCEPT ![id] = None],
                                   modified |-> [d.modified EXCEPT ![id] = change],
                                   deleted  |-> [d.deleted EXCEPT ![id] = None]]
      BY <1>1, <1>2, <2>4, <3>1 DEF Modify, Table
    <3>3. change = [before |-> s[id], now |-> mod.now]
      BY <3>1
    <3>4. Record(d, mod) = [added    |-> [d.added EXCEPT ![id] = None],
                            modified |-> [d.modified EXCEPT ![id] = change],
                            deleted  |-> [d.deleted EXCEPT ![id] = None]]
      BY <2>1, <3>2
    <3>5. change \in Change /\ change # None
      BY <1>4, <2>1
    <3> HIDE DEF change
    <3> QED BY <1>8, <1>11, <3>1, <3>3, <3>4, <3>5
  <2> QED BY <2>2, <2>3, <2>4
<1> QED BY <1>9, <1>10, <1>11

\* The reverse of a net diff takes the cache back to the stored rows, and each
\* of its modifications takes one row back.
LEMMA ReverseRestores ==
    ASSUME NEW d \in TableDiff, NEW s \in Table, NEW c \in Table, IsNet(d, s, c)
    PROVE  /\ Patch(c, Reverse(d)) = s
           /\ \A id \in Ids(d) :
                 ModificationOf(Reverse(d), id) = [id |-> id, before |-> c[id], now |-> s[id]]
           /\ \A id \in RowIds \ Ids(d) : s[id] = c[id]
<1> DEFINE r == Reverse(d)
<1>1. ASSUME NEW id \in RowIds
      PROVE  /\ r.added[id] = d.deleted[id] /\ r.deleted[id] = d.added[id]
             /\ d.modified[id] = None => r.modified[id] = None
             /\ d.modified[id] # None =>
                   /\ r.modified[id] # None
                   /\ r.modified[id].before = c[id] /\ r.modified[id].now = s[id]
             /\ s[id] \in Row \cup {None} /\ c[id] \in Row \cup {None}
  <2>1. r.added[id] = d.deleted[id] /\ r.deleted[id] = d.added[id]
    BY DEF Reverse
  <2>2. d.modified[id] = None => r.modified[id] = None
    BY DEF Reverse
  <2>3. s[id] \in Row \cup {None} /\ c[id] \in Row \cup {None}
    BY DEF Table
  <2>4. CASE d.modified[id] # None
    <3>1. /\ d.modified[id] = [before |-> s[id], now |-> c[id]]
          /\ s[id] # None /\ c[id] # None
      BY <2>4 DEF IsNet
    <3>2. r.modified[id] = [before |-> c[id], now |-> s[id]]
      BY <2>4, <3>1 DEF Reverse
    <3>3. [before |-> c[id], now |-> s[id]] \in Change
      BY <2>3, <3>1 DEF Change
    <3> QED BY <2>1, <2>3, <2>4, <3>2, <3>3, NoneAssumption
  <2> QED BY <2>1, <2>2, <2>3, <2>4
<1> HIDE DEF r
<1>2. Patch(c, r) = s
  <2>1. ASSUME NEW id \in RowIds
        PROVE  Patch(c, r)[id] = s[id]
    <3>1. Patch(c, r)[id] = IF r.modified[id] # None THEN r.modified[id].now
                            ELSE IF r.added[id] # None THEN r.added[id]
                            ELSE IF r.deleted[id] # None THEN None
                            ELSE c[id]
      BY DEF Patch
    <3>2. CASE d.modified[id] # None
      BY <1>1, <3>1, <3>2
    <3>3. CASE d.modified[id] = None
      BY <1>1, <3>1, <3>3 DEF IsNet
    <3> QED BY <3>2, <3>3
  <2>2. Patch(c, r) = [id \in RowIds |-> Patch(c, r)[id]]
    BY DEF Patch
  <2>3. s = [id \in RowIds |-> s[id]]
    BY DEF Table
  <2> QED BY <2>1, <2>2, <2>3
<1>3. ASSUME NEW id \in Ids(d)
      PROVE  ModificationOf(r, id) = [id |-> id, before |-> c[id], now |-> s[id]]
  <2>1. /\ id \in RowIds
        /\ d.added[id] # None \/ d.modified[id] # None \/ d.deleted[id] # None
    BY DEF Ids, Present
  <2>2. CASE d.modified[id] # None
    BY <1>1, <2>1, <2>2 DEF ModificationOf
  <2>3. CASE d.modified[id] = None
    <3>1. r.deleted[id] = c[id] /\ r.added[id] = s[id] /\ r.modified[id] = None
      BY <1>1, <2>1, <2>3 DEF IsNet
    <3> QED BY <3>1 DEF ModificationOf
  <2> QED BY <2>2, <2>3
<1>4. ASSUME NEW id \in RowIds \ Ids(d)
      PROVE  s[id] = c[id]
  <2>1. d.added[id] = None /\ d.modified[id] = None /\ d.deleted[id] = None
    BY DEF Ids, Present
  <2> QED BY <2>1 DEF IsNet
<1> QED BY <1>2, <1>3, <1>4 DEF r

\* What a commit stores is the cache, also when the back store clears the table
\* because as many rows are removed as it holds.
LEMMA MergeStoresCache ==
    ASSUME NEW d \in TableDiff, NEW s \in Table, NEW c \in Table, IsNet(d, s, c)
    PROVE  Merge(s, d) = c
<1> DEFINE gone == Present(d.deleted)
           rest == RemoveRows(s, gone)
<1>1. gone \subseteq Present(s)
  BY DEF Present, IsNet
<1>2. \A id \in RowIds : rest[id] = IF id \in gone THEN None ELSE s[id]
  <2>1. CASE gone # {} /\ Cardinality(gone) = Cardinality(Present(s))
    <3>1. IsFiniteSet(Present(s))
      BY RowIdsAssumption, FS_Subset DEF Present
    <3>2. gone = Present(s)
      BY <1>1, <2>1, <3>1, FS_Subset
    <3>3. rest = NoRows
      BY <2>1 DEF RemoveRows
    <3> QED BY <3>2, <3>3 DEF NoRows, Present
  <2>2. CASE gone = {} \/ Cardinality(gone) # Cardinality(Present(s))
    BY <2>2 DEF RemoveRows
  <2> QED BY <2>1, <2>2
<1>3. ASSUME NEW id \in RowIds
      PROVE  Merge(s, d)[id] = c[id]
  <2>1. Merge(s, d)[id] = IF d.added[id] # None THEN d.added[id]
                          ELSE IF d.modified[id] # None THEN d.modified[id].now
                          ELSE rest[id]
    BY DEF Merge
  <2>2. /\ d.added[id] = IF s[id] = None THEN c[id] ELSE None
        /\ d.deleted[id] = IF c[id] = None THEN s[id] ELSE None
        /\ d.modified[id] = None /\ s[id] # None /\ c[id] # None => c[id] = s[id]
        /\ d.modified[id] # None => d.modified[id] = [before |-> s[id], now |-> c[id]]
    BY DEF IsNet
  <2>3. id \in gone <=> d.deleted[id] # None
    BY DEF Present
  <2> HIDE DEF rest, gone
  <2>4. CASE d.modified[id] # None
    <3>1. s[id] # None
      BY <2>4 DEF IsNet
    <3> QED BY <2>1, <2>2, <2>4, <3>1
  <2>5. CASE d.modified[id] = None
    BY <1>2, <2>1, <2>2, <2>3, <2>5
  <2> QED BY <2>4, <2>5
<1>4. Merge(s, d) = [id \in RowIds |-> Merge(s, d)[id]] /\ c = [id \in RowIds |-> c[id]]
  BY DEF Merge, Table
<1> QED BY <1>3, <1>4

-----------------------------------------------------------------------------
(* InMemoryUpdater *)

Entry == (Keys \cup {Null}) \X RowIds

\* An index over a table has the entry of each of its rows.
LEMMA EntriesFact ==
    ASSUME NEW t \in Table, NEW i \in Indices
    PROVE  /\ Entries(t, i) \subseteq Entry
           /\ \A k \in Keys \cup {Null}, id \in RowIds :
                 <<k, id>> \in Entries(t, i) <=> t[id] # None /\ t[id][i] = k
<1>1. ASSUME NEW id \in Present(t)
      PROVE  id \in RowIds /\ t[id] \in Row /\ t[id][i] \in Keys \cup {Null}
  BY DEF Present, Table, Row
<1>2. Entries(t, i) \subseteq Entry
  BY <1>1 DEF Entries, Entry
<1>3. ASSUME NEW k \in Keys \cup {Null}, NEW id \in RowIds
      PROVE  <<k, id>> \in Entries(t, i) <=> t[id] # None /\ t[id][i] = k
  BY DEF Entries, Present
<1> QED BY <1>2, <1>3

LEMMA SameEntries ==
    ASSUME NEW A \in SUBSET Entry, NEW B \in SUBSET Entry,
           \A k \in Keys \cup {Null}, id \in RowIds : <<k, id>> \in A <=> <<k, id>> \in B
    PROVE  A = B
<1>1. ASSUME NEW e \in Entry
      PROVE  e \in A <=> e \in B
  <2>1. PICK k \in Keys \cup {Null}, id \in RowIds : e = <<k, id>>
    BY DEF Entry
  <2> QED BY <2>1
<1> QED BY <1>1

\* No two rows share a key other than Null of this index.
UniqueAt(t, i) ==
    \A a, b \in RowIds :
        t[a] # None /\ t[b] # None /\ t[a][i] = t[b][i] /\ t[a][i] # Null => a = b

\* One index, updated with the modification of a row, describes the table with
\* the row modified.
LEMMA UpdateDescribes ==
    ASSUME NEW t \in Table, NEW i \in Indices, i \in Unique => UniqueAt(t, i),
           NEW mod \in Modification, mod.before = t[mod.id],
           NEW u \in Table, u[mod.id] = mod.now, \A j \in RowIds \ {mod.id} : u[j] = t[j]
    PROVE  UpdateIndexForRow(Entries(t, i), mod, i) = Entries(u, i)
<1> DEFINE id == mod.id
           ix == Entries(t, i)
           updated == UpdateIndexForRow(ix, mod, i)
<1>1. /\ id \in RowIds /\ mod.now \in Row \cup {None} /\ mod.before \in Row \cup {None}
  BY DEF Modification
<1>2. /\ mod.now # None => mod.now[i] \in Keys \cup {Null}
      /\ mod.before # None => mod.before[i] \in Keys \cup {Null}
  BY <1>1 DEF Row
<1>3. ix \subseteq Entry /\ Entries(u, i) \subseteq Entry
  BY <1>1, EntriesFact
<1>4. ASSUME NEW k \in Keys \cup {Null}, NEW j \in RowIds
      PROVE  /\ <<k, j>> \in ix <=> t[j] # None /\ t[j][i] = k
             /\ <<k, j>> \in Entries(u, i) <=> u[j] # None /\ u[j][i] = k
  BY <1>1, EntriesFact
<1>5. CASE KeepsKey(mod, i)
  <2>1. updated = ix
    BY <1>5 DEF UpdateIndexForRow
  <2>2. t[id] # None /\ u[id] # None /\ t[id][i] = u[id][i]
    BY <1>1, <1>5 DEF KeepsKey
  <2>3. ASSUME NEW k \in Keys \cup {Null}, NEW j \in RowIds
        PROVE  <<k, j>> \in ix <=> <<k, j>> \in Entries(u, i)
    BY <1>1, <1>4, <2>2
  <2>4. ix = Entries(u, i)
    BY <1>3, <2>3, SameEntries
  <2> QED BY <2>1, <2>4
<1>6. CASE ~KeepsKey(mod, i)
  <2> DEFINE added == IF mod.now = None THEN ix ELSE WithEntry(ix, mod.now[i], id)
  <2>1. updated = IF mod.before = None THEN added ELSE WithoutEntry(added, mod.before[i], id, i)
    BY <1>6 DEF UpdateIndexForRow
  <2>2. ASSUME NEW k \in Keys \cup {Null}, NEW j \in RowIds
        PROVE  <<k, j>> \in added <=>
                  \/ t[j] # None /\ t[j][i] = k
                  \/ mod.now # None /\ k = mod.now[i] /\ j = id
    BY <1>4 DEF WithEntry
  <2>3. added \subseteq Entry
    BY <1>1, <1>2, <1>3 DEF WithEntry, Entry
  <2> HIDE DEF added
  <2>4. CASE mod.before = None
    <3>1. ASSUME NEW k \in Keys \cup {Null}, NEW j \in RowIds
          PROVE  <<k, j>> \in added <=> <<k, j>> \in Entries(u, i)
      <4>1. CASE j = id
        <5>1. t[j] = None /\ u[j] = mod.now
          BY <2>4, <4>1
        <5>2. <<k, j>> \in added <=> mod.now # None /\ k = mod.now[i]
          BY <2>2, <4>1, <5>1
        <5> QED BY <1>4, <5>1, <5>2
      <4>2. CASE j # id
        BY <1>1, <1>4, <2>2, <4>2
      <4> QED BY <4>1, <4>2
    <3>2. added = Entries(u, i)
      <4>1. added \in SUBSET Entry /\ Entries(u, i) \in SUBSET Entry
        BY <1>3, <2>3
      <4>2. \A k \in Keys \cup {Null}, j \in RowIds :
               <<k, j>> \in added <=> <<k, j>> \in Entries(u, i)
        BY <3>1
      <4> QED BY <4>1, <4>2, SameEntries
    <3> QED BY <2>1, <2>4, <3>2
  <2>5. CASE mod.before # None
    <3>1. ASSUME NEW k \in Keys \cup {Null}, NEW j \in RowIds
          PROVE  <<k, j>> \in WithoutEntry(added, mod.before[i], id, i) <=>
                    <<k, j>> \in Entries(u, i)
      <4>1. <<k, j>> \in WithoutEntry(added, mod.before[i], id, i) <=>
              /\ <<k, j>> \in added
              /\ IF i \in Unique /\ mod.before[i] # Null THEN k # mod.before[i]
                 ELSE k # mod.before[i] \/ j # id
        BY DEF WithoutEntry
      <4>2. CASE j = id
        BY <1>1, <1>4, <1>6, <2>2, <2>5, <4>1, <4>2 DEF KeepsKey
      <4>3. CASE j # id
        <5>1. i \in Unique /\ mod.before[i] # Null /\ t[j] # None /\ t[j][i] = k
                 => k # mod.before[i]
          BY <1>1, <2>5, <4>3 DEF UniqueAt
        <5>2. <<k, j>> \in added <=> t[j] # None /\ t[j][i] = k
          BY <2>2, <4>3
        <5>3. <<k, j>> \in Entries(u, i) <=> t[j] # None /\ t[j][i] = k
          BY <1>1, <1>4, <4>3
        <5> QED BY <4>1, <4>3, <5>1, <5>2, <5>3
      <4> QED BY <4>2, <4>3
    <3>2. WithoutEntry(added, mod.before[i], id, i) \subseteq Entry
      BY <2>3 DEF WithoutEntry
    <3>3. WithoutEntry(added, mod.before[i], id, i) = Entries(u, i)
      <4> DEFINE rest == WithoutEntry(added, mod.before[i], id, i)
      <4>1. rest \in SUBSET Entry /\ Entries(u, i) \in SUBSET Entry
        BY <1>3, <3>2
      <4>2. \A k \in Keys \cup {Null}, j \in RowIds :
               <<k, j>> \in rest <=> <<k, j>> \in Entries(u, i)
        BY <3>1
      <4> HIDE DEF rest
      <4>3. rest = Entries(u, i)
        BY <4>1, <4>2, SameEntries
      <4> QED BY <4>3 DEF rest
    <3> QED BY <2>1, <2>5, <3>3
  <2> QED BY <2>4, <2>5
<1> QED BY <1>5, <1>6

\* An index that does not refuse the row keeps its keys unique.
LEMMA UpdateKeepsUnique ==
    ASSUME NEW t \in Table, NEW i \in Unique, UniqueAt(t, i),
           NEW mod \in Modification, mod.before = t[mod.id],
           ~Refuses(Entries(t, i), mod, i),
           NEW u \in Table, u[mod.id] = mod.now, \A j \in RowIds \ {mod.id} : u[j] = t[j]
    PROVE  UniqueAt(u, i)
<1> DEFINE id == mod.id
<1>1. id \in RowIds /\ mod.now \in Row \cup {None}
  BY DEF Modification
<1>2. i \in Indices
  BY IndicesAssumption
<1>3. ASSUME NEW j \in RowIds \ {id}, mod.now # None, t[j] # None,
             mod.now[i] = t[j][i], mod.now[i] # Null
      PROVE  FALSE
  <2>1. mod.now[i] \in Keys \cup {Null}
    BY <1>1, <1>2, <1>3 DEF Row
  <2>2. <<mod.now[i], j>> \in Entries(t, i)
    BY <1>2, <1>3, <2>1, EntriesFact
  <2>3. KeepsKey(mod, i)
    BY <1>3, <2>2 DEF Refuses
  <2>4. t[id] # None /\ t[id][i] = t[j][i] /\ t[id][i] # Null
    BY <1>3, <2>3 DEF KeepsKey
  <2> QED BY <1>1, <1>3, <2>4 DEF UniqueAt
<1>4. ASSUME NEW a \in RowIds, NEW b \in RowIds, u[a] # None, u[b] # None,
             u[a][i] = u[b][i], u[a][i] # Null
      PROVE  a = b
  <2>1. CASE a = id /\ b # id
    BY <1>1, <1>3, <1>4, <2>1
  <2>2. CASE a # id /\ b = id
    BY <1>1, <1>3, <1>4, <2>2
  <2>3. CASE a # id /\ b # id
    BY <1>1, <1>4, <2>3 DEF UniqueAt
  <2> QED BY <2>1, <2>2, <2>3
<1> QED BY <1>4 DEF UniqueAt

IndexType == [Indices -> SUBSET Entry]

\* Whatever state the indices are in, an update leaves sets of entries.
LEMMA UpdateTyped ==
    ASSUME NEW ix \in IndexType, NEW mod \in Modification
    PROVE  UpdateIndices(ix, mod) \in IndexType
<1>1. ASSUME NEW i \in Indices, NEW entries \in SUBSET Entry, NEW m \in Modification
      PROVE  UpdateIndexForRow(entries, m, i) \in SUBSET Entry
  <2>1. m.now # None => <<m.now[i], m.id>> \in Entry
    BY DEF Modification, Row, Entry
  <2> QED BY <2>1 DEF UpdateIndexForRow, WithEntry, WithoutEntry
<1>2. Reversed(mod) \in Modification
  BY DEF Reversed, Modification
<1>3. ASSUME NEW i \in Indices
      PROVE  UpdateIndices(ix, mod)[i] \in SUBSET Entry
  <2> DEFINE updated == UpdateIndexForRow(ix[i], mod, i)
  <2>1. ix[i] \in SUBSET Entry
    BY DEF IndexType
  <2>2. updated \in SUBSET Entry
    BY <1>1, <2>1
  <2> HIDE DEF updated
  <2>3. UpdateIndexForRow(updated, Reversed(mod), i) \in SUBSET Entry
    BY <1>1, <1>2, <2>2
  <2> QED BY <2>1, <2>2, <2>3 DEF UpdateIndices, updated
<1>4. UpdateIndices(ix, mod) = [i \in Indices |-> UpdateIndices(ix, mod)[i]]
  BY DEF UpdateIndices
<1> QED BY <1>3, <1>4 DEF IndexType

LEMMA UniqueKeysFact ==
    ASSUME NEW t
    PROVE  UniqueKeys(t) <=> \A i \in Unique : UniqueAt(t, i)
BY DEF UniqueKeys, UniqueAt

\* When no index refuses, all of them describe the table with the row modified.
LEMMA UpdateAccepted ==
    ASSUME NEW t \in Table, UniqueKeys(t), NEW mod \in Modification, mod.before = t[mod.id],
           NEW u \in Table, u[mod.id] = mod.now, \A j \in RowIds \ {mod.id} : u[j] = t[j],
           ~Refused(IndexOf(t), mod)
    PROVE  UpdateIndices(IndexOf(t), mod) = IndexOf(u) /\ UniqueKeys(u)
<1>1. \A i \in Indices : IndexOf(t)[i] = Entries(t, i) /\ IndexOf(u)[i] = Entries(u, i)
  BY DEF IndexOf
<1>2. \A i \in Indices : ~Refuses(Entries(t, i), mod, i)
  BY <1>1 DEF Refused
<1>3. \A i \in Unique : i \in Indices /\ UniqueAt(t, i)
  BY UniqueKeysFact, IndicesAssumption
<1>4. ASSUME NEW i \in Indices
      PROVE  UpdateIndices(IndexOf(t), mod)[i] = Entries(u, i)
  <2>1. UpdateIndices(IndexOf(t), mod)[i] = UpdateIndexForRow(Entries(t, i), mod, i)
    BY <1>1, <1>2 DEF UpdateIndices, Refused
  <2>2. i \in Unique => UniqueAt(t, i)
    BY <1>3
  <2>3. UpdateIndexForRow(Entries(t, i), mod, i) = Entries(u, i)
    BY <2>2, UpdateDescribes
  <2> QED BY <2>1, <2>3
<1>5. ASSUME NEW i \in Unique
      PROVE  UniqueAt(u, i)
  BY <1>2, <1>3, UpdateKeepsUnique
<1>6. UpdateIndices(IndexOf(t), mod) = [i \in Indices |-> UpdateIndices(IndexOf(t), mod)[i]]
  BY DEF UpdateIndices
<1>7. UpdateIndices(IndexOf(t), mod) = IndexOf(u)
  BY <1>4, <1>6 DEF IndexOf
<1> QED BY <1>5, <1>7, UniqueKeysFact

\* When one refuses, those before it are taken back: no index has changed.
LEMMA UpdateRefused ==
    ASSUME NEW t \in Table, UniqueKeys(t), NEW mod \in Modification, mod.before = t[mod.id],
           Refused(IndexOf(t), mod)
    PROVE  UpdateIndices(IndexOf(t), mod) = IndexOf(t)
<1> DEFINE u == [t EXCEPT ![mod.id] = mod.now]
<1>1. /\ u \in Table /\ u[mod.id] = mod.now
      /\ \A j \in RowIds \ {mod.id} : u[j] = t[j]
  BY DEF Modification, Table
<1>2. /\ Reversed(mod) \in Modification /\ Reversed(mod).id = mod.id
      /\ Reversed(mod).before = mod.now /\ Reversed(mod).now = mod.before
  BY DEF Reversed, Modification
<1> HIDE DEF u
<1>3. ASSUME NEW i \in Indices
      PROVE  UpdateIndices(IndexOf(t), mod)[i] = Entries(t, i)
  <2>1. IndexOf(t)[i] = Entries(t, i)
    BY DEF IndexOf
  <2>2. i \in Unique => UniqueAt(t, i)
    BY UniqueKeysFact
  <2>3. CASE ~(\A j \in Indices : j <= i => ~Refuses(IndexOf(t)[j], mod, j))
    BY <2>1, <2>3 DEF UpdateIndices
  <2>4. CASE \A j \in Indices : j <= i => ~Refuses(IndexOf(t)[j], mod, j)
    <3>1. UpdateIndices(IndexOf(t), mod)[i] =
             UpdateIndexForRow(UpdateIndexForRow(Entries(t, i), mod, i), Reversed(mod), i)
      BY <2>1, <2>4 DEF UpdateIndices
    <3>2. UpdateIndexForRow(Entries(t, i), mod, i) = Entries(u, i)
      BY <1>1, <2>2, UpdateDescribes
    <3>3. i <= i
      BY IndicesAssumption
    <3>4. ~Refuses(Entries(t, i), mod, i)
      BY <2>1, <2>4, <3>3
    <3>5. i \in Unique => UniqueAt(u, i)
      BY <1>1, <2>2, <3>4, UpdateKeepsUnique
    <3>6. /\ Reversed(mod).before = u[Reversed(mod).id]
          /\ t[Reversed(mod).id] = Reversed(mod).now
          /\ \A j \in RowIds \ {Reversed(mod).id} : t[j] = u[j]
      BY <1>1, <1>2
    <3>7. UpdateIndexForRow(Entries(u, i), Reversed(mod), i) = Entries(t, i)
      BY <1>1, <1>2, <3>5, <3>6, UpdateDescribes
    <3> QED BY <3>1, <3>2, <3>7
  <2> QED BY <2>3, <2>4
<1>4. UpdateIndices(IndexOf(t), mod) = [i \in Indices |-> UpdateIndices(IndexOf(t), mod)[i]]
  BY DEF UpdateIndices
<1> QED BY <1>3, <1>4 DEF IndexOf

-----------------------------------------------------------------------------
(* The inductive invariant *)

Journaling == {"open", "failed", "committing", "rollingBack"}

\* Keys are unique in the rows the indices describe, and what is stored is what
\* was cached.
KeysUnique ==
    /\ phase # "broken" => UniqueKeys(IndexedRows)
    /\ UniqueKeys(cache) /\ UniqueKeys(store)
    /\ phase = "stored" => cache = store

\* A statement deletes rows that are there, each of them once; it is over when
\* the transaction ends.
TodoFits ==
    /\ phase # "open" => todo = {}
    /\ \A op \in todo : op.row = None =>
          /\ op.kind = "delete" /\ cache[op.id] # None
          /\ \A other \in todo : other.id = op.id => other = op

UndoFits == phase = "rollingBack" => undo \subseteq Ids(diff)

JournalInv ==
    /\ TypeOK /\ IndicesMatchCache /\ DiffIsNet /\ MemoryMatchesStore
    /\ KeysUnique /\ TodoFits /\ UndoFits

LEMMA IndexOfTyped ==
    ASSUME NEW t \in Table
    PROVE  IndexOf(t) \in IndexType
BY EntriesFact DEF IndexOf, IndexType

LEMMA NoRowsTyped == NoRows \in Table /\ EmptyDiff \in TableDiff
<1>1. NoRows \in Table
  BY DEF NoRows, Table
<1> QED BY <1>1, EmptyDiffIsNet

LEMMA InitInv == Init => JournalInv
<1> SUFFICES ASSUME Init PROVE JournalInv
  OBVIOUS
<1>1. /\ store \in Table /\ UniqueKeys(store) /\ cache = store /\ index = IndexOf(store)
      /\ diff = EmptyDiff /\ todo = {} /\ undo = {} /\ phase = "idle"
  BY DEF Init
<1>2. TypeOK
  BY <1>1, IndexOfTyped, NoRowsTyped DEF TypeOK, IndexType, Entry, Phase
<1>3. IndexedRows = cache
  BY <1>1 DEF IndexedRows
<1> QED BY <1>1, <1>2, <1>3
        DEF JournalInv, IndicesMatchCache, DiffIsNet, MemoryMatchesStore, KeysUnique, TodoFits, UndoFits

\* The operations of the statements there can be.
LEMMA StatementsTyped ==
    ASSUME TypeOK, NEW ops \in Statements
    PROVE  /\ ops \subseteq Operation
           /\ \A op \in ops : op.row = None =>
                 /\ op.kind = "delete" /\ cache[op.id] # None
                 /\ \A other \in ops : other.id = op.id => other = op
<1>1. None \notin Row
  BY NoneAssumption
<1>2. ASSUME NEW kind \in {"insert", "insertOrReplace"}, ops \in Insertions(kind)
      PROVE  ops \subseteq Operation /\ \A op \in ops : op.row # None
  <2>1. PICK S \in RowSets(RowIds \ Present(cache)) :
           \E rows \in [S -> Row] :
              ops = {[kind |-> kind, id |-> id, row |-> rows[id]] : id \in S}
    BY <1>2 DEF Insertions
  <2>2. PICK rows \in [S -> Row] : ops = {[kind |-> kind, id |-> id, row |-> rows[id]] : id \in S}
    BY <2>1
  <2>3. S \subseteq RowIds
    BY DEF RowSets
  <2>4. ASSUME NEW id \in S
        PROVE  rows[id] \in Row /\ [kind |-> kind, id |-> id, row |-> rows[id]] \in Operation
    BY <2>3 DEF Operation
  <2> QED BY <1>1, <2>2, <2>4
<1>3. ASSUME ops \in Updates
      PROVE  ops \subseteq Operation /\ \A op \in ops : op.row # None
  <2>1. PICK S \in RowSets(Present(cache)), a \in Indices \X (Keys \cup {Null}) :
           /\ a # <<Pk, Null>>
           /\ ops = {[kind |-> "update", id |-> id, row |-> [cache[id] EXCEPT ![a[1]] = a[2]]]
                        : id \in S}
    BY <1>3 DEF Updates
  <2>2. S \subseteq Present(cache)
    BY DEF RowSets
  <2>3. PICK i \in Indices, k \in Keys \cup {Null} : a = <<i, k>>
    OBVIOUS
  <2>4. a[1] = i /\ a[2] = k /\ (i = Pk => k # Null)
    BY <2>1, <2>3
  <2>5. ASSUME NEW id \in S
        PROVE  id \in RowIds /\ [cache[id] EXCEPT ![a[1]] = a[2]] \in Row
    <3>1. id \in RowIds /\ cache[id] \in Row
      BY <2>2 DEF Present, TypeOK, Table
    <3>2. [cache[id] EXCEPT ![i] = k] \in Row
      <4>1. cache[id] \in [Indices -> Keys \cup {Null}] /\ cache[id][Pk] # Null
        BY <3>1 DEF Row
      <4>2. [cache[id] EXCEPT ![i] = k] \in [Indices -> Keys \cup {Null}]
        BY <4>1
      <4>3. [cache[id] EXCEPT ![i] = k][Pk] # Null
        BY <2>4, <4>1, IndicesAssumption
      <4> QED BY <4>2, <4>3 DEF Row
    <3> QED BY <2>4, <3>1, <3>2
  <2>6. ASSUME NEW id \in S
        PROVE  [kind |-> "update", id |-> id, row |-> [cache[id] EXCEPT ![a[1]] = a[2]]]
                  \in Operation
    BY <2>5 DEF Operation
  <2> QED BY <1>1, <2>1, <2>5, <2>6
<1>4. ASSUME ops \in Deletions
      PROVE  /\ ops \subseteq Operation
             /\ \A op \in ops : op.kind = "delete" /\ cache[op.id] # None
             /\ \A op, other \in ops : other.id = op.id => other = op
  <2>1. PICK S \in RowSets(Present(cache)) :
           ops = {[kind |-> "delete", id |-> id, row |-> None] : id \in S}
    BY <1>4 DEF Deletions
  <2>2. \A id \in S : id \in RowIds /\ cache[id] # None
    BY DEF RowSets, Present
  <2>3. ops \subseteq Operation
    BY <2>1, <2>2 DEF Operation
  <2> QED BY <2>1, <2>2, <2>3
<1> QED BY <1>2, <1>3, <1>4 DEF Statements

\* What the next row of a statement changes.
LEMMA NextModification ==
    ASSUME TypeOK, TodoFits, NEW op \in todo
    PROVE  LET mod == ModificationBy(op) IN
           /\ mod \in Modification
           /\ mod.before = cache[mod.id] /\ mod.now = op.row
           /\ mod.before # None \/ mod.now # None
           /\ op.kind # "insertOrReplace" => mod.id = op.id
<1>1. op \in Operation /\ op.id \in RowIds /\ op.row \in Row \cup {None}
  BY DEF TypeOK, Operation
<1>2. ReplacedId(op) \in RowIds
  BY <1>1 DEF ReplacedId
<1>3. op.kind # "insertOrReplace" => ReplacedId(op) = op.id
  BY DEF ReplacedId
<1>4. cache[ReplacedId(op)] \in Row \cup {None}
  BY <1>2 DEF TypeOK, Table
<1>5. op.row = None => cache[ReplacedId(op)] # None
  BY <1>3 DEF TodoFits
<1> QED BY <1>1, <1>2, <1>3, <1>4, <1>5 DEF ModificationBy, Modification

\* Steps that leave rows, indices and diff as they are and stay in a phase in
\* which the same is said of them.
LEMMA QuietStep ==
    ASSUME JournalInv, UNCHANGED <<cache, index, store, diff>>,
           phase' \in Phase, undo' \subseteq RowIds, todo' \subseteq Operation, TodoFits',
           phase \notin {"rollingBack", "broken"}, phase' \notin {"idle", "stored", "broken"},
           phase' = "rollingBack" => undo' = Ids(diff),
           phase \in Journaling
    PROVE  JournalInv'
<1>1. TypeOK'
  BY DEF JournalInv, TypeOK
<1>2. IndexedRows = cache /\ IndexedRows' = cache
  <2>1. CASE phase' = "rollingBack"
    <3>1. IsNet(diff, store, cache)
      BY DEF JournalInv, DiffIsNet, Journaling
    <3>2. \A id \in RowIds \ Ids(diff) : store[id] = cache[id]
      BY <3>1, ReverseRestores DEF JournalInv, TypeOK
    <3>3. IndexedRows' = [id \in RowIds |-> IF id \in Ids(diff) THEN cache[id] ELSE store[id]]
      BY <2>1 DEF IndexedRows
    <3>4. cache = [id \in RowIds |-> cache[id]]
      BY DEF JournalInv, TypeOK, Table
    <3>5. IndexedRows' = cache
      BY <3>2, <3>3, <3>4
    <3> QED BY <3>5 DEF IndexedRows
  <2>2. CASE phase' # "rollingBack"
    BY <2>2 DEF IndexedRows
  <2> QED BY <2>1, <2>2
<1>3. IndicesMatchCache'
  BY <1>2 DEF JournalInv, IndicesMatchCache
<1>4. DiffIsNet' /\ MemoryMatchesStore'
  BY DEF JournalInv, DiffIsNet, MemoryMatchesStore, Journaling
<1>5. KeysUnique'
  BY <1>2 DEF JournalInv, KeysUnique
<1>6. UndoFits'
  BY DEF UndoFits
<1> QED BY <1>1, <1>3, <1>4, <1>5, <1>6 DEF JournalInv

\* Steps after which memory and back store are equal and no journal is active.
LEMMA RestingStep ==
    ASSUME JournalInv, phase' = "idle", UNCHANGED store, cache' = store,
           index' = IndexOf(store), diff' = EmptyDiff, todo' = {}, undo' \subseteq RowIds
    PROVE  JournalInv'
<1>1. TypeOK'
  BY IndexOfTyped, NoRowsTyped DEF JournalInv, TypeOK, IndexType, Entry, Phase
<1>2. IndexedRows' = store
  BY DEF IndexedRows
<1> QED BY <1>1, <1>2
        DEF JournalInv, IndicesMatchCache, DiffIsNet, MemoryMatchesStore, KeysUnique, TodoFits, UndoFits

LEMMA ModifyRowStep ==
    ASSUME JournalInv, NEW op \in todo, ModifyRow(op)
    PROVE  JournalInv'
<1> DEFINE mod == ModificationBy(op)
<1>1. /\ phase = "open" /\ ~Refused(index, mod) /\ todo' = todo \ {op}
      /\ index' = UpdateIndices(index, mod)
      /\ cache' = [cache EXCEPT ![mod.id] = mod.now]
      /\ diff' = Record(diff, mod)
      /\ store' = store /\ undo' = undo /\ phase' = phase
  BY DEF ModifyRow
<1>2. /\ mod \in Modification
      /\ mod.before = cache[mod.id] /\ mod.now = op.row
      /\ mod.before # None \/ mod.now # None
      /\ op.kind # "insertOrReplace" => mod.id = op.id
  BY NextModification DEF JournalInv
<1> HIDE DEF mod
<1>3. /\ cache \in Table /\ store \in Table /\ diff \in TableDiff /\ todo \subseteq Operation
      /\ undo \subseteq RowIds /\ IsNet(diff, store, cache) /\ UniqueKeys(cache)
      /\ UniqueKeys(store) /\ index = IndexOf(cache)
  BY <1>1 DEF JournalInv, TypeOK, DiffIsNet, KeysUnique, IndicesMatchCache, IndexedRows
<1>4. /\ mod.id \in RowIds /\ cache' \in Table /\ cache'[mod.id] = mod.now
      /\ \A j \in RowIds \ {mod.id} : cache'[j] = cache[j]
  BY <1>1, <1>2, <1>3 DEF Modification, Table
<1>5. diff' \in TableDiff /\ IsNet(diff', store, cache')
  BY <1>1, <1>2, <1>3, RecordIsNet
<1>6. index' = IndexOf(cache') /\ UniqueKeys(cache')
  BY <1>1, <1>2, <1>3, <1>4, UpdateAccepted
<1>7. TypeOK'
  BY <1>1, <1>3, <1>4, <1>5, <1>6, IndexOfTyped DEF TypeOK, IndexType, Entry, Phase
<1>8. IndexedRows' = cache'
  BY <1>1 DEF IndexedRows
<1>9. TodoFits'
  <2>1. ASSUME NEW o \in todo', o.row = None
        PROVE  /\ o.kind = "delete" /\ cache'[o.id] # None
               /\ \A other \in todo' : other.id = o.id => other = o
    <3>1. /\ o \in todo /\ o # op /\ o.id \in RowIds
      BY <1>1, <1>3 DEF Operation
    <3>2. /\ o.kind = "delete" /\ cache[o.id] # None
          /\ \A other \in todo : other.id = o.id => other = o
      BY <2>1, <3>1 DEF JournalInv, TodoFits
    <3>3. op.row = None => op.kind = "delete"
      BY DEF JournalInv, TodoFits
    <3>4. CASE mod.id = o.id
      <4>1. op.row # None
        BY <1>2, <3>1, <3>2, <3>3, <3>4
      <4> QED BY <1>1, <1>2, <1>4, <3>2, <3>4, <4>1
    <3>5. CASE mod.id # o.id
      BY <1>1, <1>4, <3>1, <3>2, <3>5
    <3> QED BY <3>4, <3>5
  <2> QED BY <1>1, <2>1 DEF TodoFits
<1> QED BY <1>1, <1>3, <1>5, <1>6, <1>7, <1>8, <1>9
        DEF JournalInv, IndicesMatchCache, DiffIsNet, MemoryMatchesStore, KeysUnique, UndoFits

\* What a rollback does next: it takes one row of the cache back to the store.
LEMMA UndoneModification ==
    ASSUME JournalInv, phase = "rollingBack", NEW id \in undo
    PROVE  LET mod == ModificationOf(Reverse(diff), id) IN
           /\ mod \in Modification
           /\ mod.id = id /\ mod.before = cache[id] /\ mod.now = store[id]
           /\ IndexedRows \in Table /\ IndexedRows[id] = cache[id]
           /\ UniqueKeys(IndexedRows) /\ index = IndexOf(IndexedRows)
<1>1. id \in Ids(diff) /\ id \in RowIds
  BY DEF JournalInv, UndoFits, TypeOK
<1>2. /\ cache \in Table /\ store \in Table /\ diff \in TableDiff
      /\ IsNet(diff, store, cache)
  BY DEF JournalInv, TypeOK, DiffIsNet
<1>3. ModificationOf(Reverse(diff), id) = [id |-> id, before |-> cache[id], now |-> store[id]]
  BY <1>1, <1>2, ReverseRestores
<1>4. cache[id] \in Row \cup {None} /\ store[id] \in Row \cup {None}
  BY <1>1, <1>2 DEF Table
<1>5. IndexedRows \in Table /\ IndexedRows[id] = cache[id]
  BY <1>1, <1>2 DEF IndexedRows, Table
<1>6. UniqueKeys(IndexedRows) /\ index = IndexOf(IndexedRows)
  BY DEF JournalInv, KeysUnique, IndicesMatchCache
<1> QED BY <1>1, <1>3, <1>4, <1>5, <1>6 DEF Modification

LEMMA UndoRowStep ==
    ASSUME JournalInv, NEW id \in RowIds, UndoRow(id)
    PROVE  JournalInv'
<1> DEFINE mod == ModificationOf(Reverse(diff), id)
<1>1. /\ phase = "rollingBack" /\ id \in undo /\ ~Refused(index, mod)
      /\ index' = UpdateIndices(index, mod) /\ undo' = undo \ {id}
      /\ cache' = cache /\ store' = store /\ diff' = diff /\ todo' = todo /\ phase' = phase
  BY DEF UndoRow
<1>2. /\ mod \in Modification
      /\ mod.id = id /\ mod.before = cache[id] /\ mod.now = store[id]
      /\ IndexedRows \in Table /\ IndexedRows[id] = cache[id]
      /\ UniqueKeys(IndexedRows) /\ index = IndexOf(IndexedRows)
  BY <1>1, UndoneModification
<1> HIDE DEF mod
<1>3. cache \in Table /\ store \in Table
  BY DEF JournalInv, TypeOK
<1>4. /\ IndexedRows' \in Table /\ IndexedRows'[id] = store[id]
      /\ \A j \in RowIds \ {id} : IndexedRows'[j] = IndexedRows[j]
  BY <1>1, <1>3 DEF IndexedRows, Table
<1>5. index' = IndexOf(IndexedRows') /\ UniqueKeys(IndexedRows')
  BY <1>1, <1>2, <1>4, UpdateAccepted
<1>6. index' \in IndexType
  BY <1>4, <1>5, IndexOfTyped
<1>7. TypeOK'
  BY <1>1, <1>6 DEF JournalInv, TypeOK, IndexType, Entry
<1>8. IndicesMatchCache' /\ KeysUnique'
  BY <1>1, <1>5 DEF JournalInv, IndicesMatchCache, KeysUnique
<1>9. DiffIsNet' /\ MemoryMatchesStore' /\ TodoFits' /\ UndoFits'
  BY <1>1 DEF JournalInv, DiffIsNet, MemoryMatchesStore, TodoFits, UndoFits
<1> QED BY <1>7, <1>8, <1>9 DEF JournalInv

LEMMA NextInv == JournalInv /\ [Next]_vars => JournalInv'
<1> SUFFICES ASSUME JournalInv, [Next]_vars PROVE JournalInv'
  OBVIOUS
<1> USE DEF JournalInv
<1>1. CASE UNCHANGED vars
  BY <1>1 DEF vars, TypeOK, IndicesMatchCache, DiffIsNet, MemoryMatchesStore, KeysUnique,
     TodoFits, UndoFits, IndexedRows
<1>2. CASE Begin
  <2>1. TypeOK'
    BY <1>2, NoRowsTyped DEF Begin, TypeOK, Phase
  <2>2. IndexedRows = cache /\ IndexedRows' = cache /\ cache = store
    BY <1>2 DEF Begin, IndexedRows, MemoryMatchesStore
  <2>3. IsNet(EmptyDiff, store, cache)
    BY <2>2, EmptyDiffIsNet DEF TypeOK
  <2> QED BY <1>2, <2>1, <2>2, <2>3
          DEF Begin, IndicesMatchCache, DiffIsNet, MemoryMatchesStore, KeysUnique, TodoFits, UndoFits
<1>3. ASSUME NEW ops \in Statements, Execute(ops)
      PROVE  JournalInv'
  <2>1. TodoFits' /\ todo' \subseteq Operation
    BY <1>3, StatementsTyped DEF Execute, TodoFits
  <2> QED BY <1>3, <2>1, QuietStep DEF Execute, TypeOK, Phase, Journaling
<1>4. CASE RefuseStatement
  BY <1>4, QuietStep DEF RefuseStatement, TodoFits, TypeOK, Phase, Journaling
<1>5. ASSUME NEW op \in todo, ModifyRow(op)
      PROVE  JournalInv'
  BY <1>5, ModifyRowStep
<1>6. ASSUME NEW op \in todo, ModifyRowThrows(op)
      PROVE  JournalInv'
  <2> DEFINE mod == ModificationBy(op)
  <2>1. /\ phase = "open" /\ Refused(index, mod) /\ todo' = {} /\ phase' = "failed"
        /\ index' = UpdateIndices(index, mod)
        /\ cache' = cache /\ store' = store /\ diff' = diff /\ undo' = undo
    BY <1>6 DEF ModifyRowThrows
  <2>2. mod \in Modification /\ mod.before = cache[mod.id]
    BY NextModification
  <2>3. index = IndexOf(cache) /\ cache \in Table /\ UniqueKeys(cache)
    BY <2>1 DEF IndicesMatchCache, IndexedRows, TypeOK, KeysUnique
  <2> HIDE DEF mod
  <2>4. index' = index
    BY <2>1, <2>2, <2>3, UpdateRefused
  <2> QED BY <2>1, <2>4, QuietStep DEF TodoFits, TypeOK, Phase, Journaling
<1>7. CASE Commit
  BY <1>7, QuietStep DEF Commit, TodoFits, TypeOK, Phase, Journaling
<1>8. CASE CommitFails
  BY <1>8, QuietStep DEF CommitFails, TodoFits, TypeOK, Phase, Journaling
<1>9. CASE StoreCommits
  <2>1. Merge(store, diff) = cache
    BY <1>9, MergeStoresCache DEF StoreCommits, TypeOK, DiffIsNet
  <2>2. TypeOK'
    BY <1>9, <2>1 DEF StoreCommits, TypeOK, Phase
  <2>3. IndexedRows = cache /\ IndexedRows' = cache
    BY <1>9 DEF StoreCommits, IndexedRows
  <2> QED BY <1>9, <2>1, <2>2, <2>3
          DEF StoreCommits, IndicesMatchCache, DiffIsNet, MemoryMatchesStore, KeysUnique,
              TodoFits, UndoFits
<1>10. CASE Acknowledge
  <2>1. cache = store /\ index = IndexOf(store)
    BY <1>10 DEF Acknowledge, KeysUnique, IndicesMatchCache, IndexedRows
  <2>2. TypeOK'
    BY <1>10, NoRowsTyped DEF Acknowledge, TypeOK, Phase
  <2>3. IndexedRows = cache /\ IndexedRows' = cache
    BY <1>10 DEF Acknowledge, IndexedRows
  <2> QED BY <1>10, <2>1, <2>2, <2>3
          DEF Acknowledge, IndicesMatchCache, DiffIsNet, MemoryMatchesStore, KeysUnique,
              TodoFits, UndoFits
<1>11. CASE Rollback
  <2>1. Ids(diff) \subseteq RowIds
    BY DEF Ids, Present
  <2> QED BY <1>11, <2>1, QuietStep DEF Rollback, TodoFits, TypeOK, Phase, Journaling
<1>12. ASSUME NEW id \in RowIds, UndoRow(id)
       PROVE  JournalInv'
  BY <1>12, UndoRowStep
<1>13. ASSUME NEW id \in RowIds, UndoRowThrows(id)
       PROVE  JournalInv'
  <2> DEFINE mod == ModificationOf(Reverse(diff), id)
  <2>1. /\ phase = "rollingBack" /\ id \in undo /\ phase' = "broken"
        /\ index' = UpdateIndices(index, mod)
        /\ cache' = cache /\ store' = store /\ diff' = diff /\ todo' = todo /\ undo' = undo
    BY <1>13 DEF UndoRowThrows
  <2>2. mod \in Modification
    BY <2>1, UndoneModification
  <2> HIDE DEF mod
  <2>3. index' \in IndexType
    BY <2>1, <2>2, UpdateTyped DEF TypeOK, IndexType, Entry
  <2>4. TypeOK'
    BY <2>1, <2>3 DEF TypeOK, Phase, IndexType, Entry
  <2> QED BY <2>1, <2>4
          DEF IndicesMatchCache, DiffIsNet, MemoryMatchesStore, KeysUnique, TodoFits, UndoFits
<1>14. CASE RollbackEnds
  <2>1. Patch(cache, Reverse(diff)) = store
    BY <1>14, ReverseRestores DEF RollbackEnds, TypeOK, DiffIsNet
  <2>2. IndexedRows = store
    BY <1>14 DEF RollbackEnds, IndexedRows, TypeOK, Table
  <2>3. index = IndexOf(store)
    BY <1>14, <2>2 DEF RollbackEnds, IndicesMatchCache
  <2> QED BY <1>14, <2>1, <2>3, RestingStep DEF RollbackEnds, TypeOK, TodoFits
<1>15. CASE Reopen
  BY <1>15, RestingStep DEF Reopen
<1> QED BY <1>1, <1>2, <1>3, <1>4, <1>5, <1>6, <1>7, <1>8, <1>9, <1>10, <1>11, <1>12,
           <1>13, <1>14, <1>15 DEF Next

LEMMA InvHolds == Spec => []JournalInv
<1> QED BY InitInv, NextInv, PTL DEF Spec

-----------------------------------------------------------------------------
(* The theorems *)

\* Every variable of the journal, the cache, the indices and the store keeps its
\* type.
THEOREM JournalTypeCorrect == Spec => []TypeOK
<1>1. JournalInv => TypeOK
  BY DEF JournalInv
<1> QED BY <1>1, InvHolds, PTL

\* Indices and cache agree whatever statements do and wherever they fail, for
\* every choice of unique and nullable indices.
THEOREM IndicesFollowCache == Spec => []IndicesMatchCache
<1>1. JournalInv => IndicesMatchCache
  BY DEF JournalInv
<1> QED BY <1>1, InvHolds, PTL

\* No sequence of modifications leaves a key of a unique index with two rows.
THEOREM KeysStayUnique == Spec => []CacheKeysUnique
<1>1. JournalInv => CacheKeysUnique
  BY DEF JournalInv, KeysUnique, CacheKeysUnique
<1> QED BY <1>1, InvHolds, PTL

\* The diff of a journal is the net difference of cache and store.
THEOREM DiffStaysNet == Spec => []DiffIsNet
<1>1. JournalInv => DiffIsNet
  BY DEF JournalInv
<1> QED BY <1>1, InvHolds, PTL

\* After a commit, a rollback that ended and a restart, memory holds what is
\* stored.
THEOREM MemoryFollowsStore == Spec => []MemoryMatchesStore
<1>1. JournalInv => MemoryMatchesStore
  BY DEF JournalInv
<1> QED BY <1>1, InvHolds, PTL

\* An index refuses a row of a rollback only if its key went to another row.
LEMMA RefusedUndo ==
    ASSUME JournalInv, NEW id \in RowIds, UndoRowThrows(id)
    PROVE  \E i \in Unique, a, b \in RowIds :
              /\ a # b /\ store[a] # None /\ cache[b] # None
              /\ store[a][i] = cache[b][i] /\ store[a][i] # Null
<1> DEFINE mod == ModificationOf(Reverse(diff), id)
<1>1. phase = "rollingBack" /\ id \in undo /\ Refused(index, mod)
  BY DEF UndoRowThrows
<1>2. /\ mod \in Modification
      /\ mod.id = id /\ mod.before = cache[id] /\ mod.now = store[id]
      /\ IndexedRows \in Table /\ IndexedRows[id] = cache[id]
      /\ UniqueKeys(IndexedRows) /\ index = IndexOf(IndexedRows)
  BY <1>1, UndoneModification
<1> HIDE DEF mod
<1>3. PICK i \in Indices : Refuses(Entries(IndexedRows, i), mod, i)
  BY <1>1, <1>2 DEF Refused, IndexOf
<1>4. /\ store[id] # None /\ store[id][i] # Null
      /\ ~(cache[id] # None /\ cache[id][i] = store[id][i])
      /\ IF i \in Unique THEN \E e \in RowIds : <<store[id][i], e>> \in Entries(IndexedRows, i)
                         ELSE <<store[id][i], id>> \in Entries(IndexedRows, i)
  BY <1>2, <1>3 DEF Refuses, KeepsKey
<1>5. store[id][i] \in Keys \cup {Null}
  BY <1>4 DEF JournalInv, TypeOK, Table, Row
<1>6. ASSUME NEW e \in RowIds, <<store[id][i], e>> \in Entries(IndexedRows, i)
      PROVE  IndexedRows[e] # None /\ IndexedRows[e][i] = store[id][i] /\ e # id
  <2>1. IndexedRows[e] # None /\ IndexedRows[e][i] = store[id][i]
    BY <1>2, <1>5, <1>6, EntriesFact
  <2> QED BY <1>2, <1>4, <2>1
<1>7. i \in Unique
  BY <1>4, <1>6
<1>8. PICK e \in RowIds : <<store[id][i], e>> \in Entries(IndexedRows, i)
  BY <1>4, <1>7
<1>9. IndexedRows[e] # None /\ IndexedRows[e][i] = store[id][i] /\ e # id
  BY <1>6, <1>8
<1>10. IndexedRows[e] = IF e \in undo THEN cache[e] ELSE store[e]
  BY <1>1 DEF IndexedRows
<1>11. e \in undo
  <2>1. UniqueKeys(store)
    BY DEF JournalInv, KeysUnique
  <2> QED BY <1>4, <1>7, <1>9, <1>10, <2>1 DEF UniqueKeys
<1> QED BY <1>4, <1>7, <1>9, <1>10, <1>11

THEOREM RollbackRefusals == Spec => RollbackRefusedOnlyForMovedKeys
<1> DEFINE Moved == \E i \in Unique, a, b \in RowIds :
                       /\ a # b /\ store[a] # None /\ cache[b] # None
                       /\ store[a][i] = cache[b][i] /\ store[a][i] # Null
<1>1. ASSUME JournalInv, [Next]_vars, phase = "rollingBack", phase' = "broken"
      PROVE  Moved
  <2>1. PICK id \in RowIds : UndoRowThrows(id)
    BY <1>1 DEF Next, vars, Begin, Execute, RefuseStatement, ModifyRow, ModifyRowThrows, Commit,
       CommitFails, StoreCommits, Acknowledge, Rollback, UndoRow, RollbackEnds, Reopen
  <2> QED BY <1>1, <2>1, RefusedUndo
<1>2. JournalInv /\ [Next]_vars => [phase = "rollingBack" /\ phase' = "broken" => Moved]_vars
  BY <1>1
<1> QED BY <1>2, InvHolds, PTL DEF Spec, RollbackRefusedOnlyForMovedKeys

-----------------------------------------------------------------------------
(* Refinement *)

LEMMA InitRefines == Init => Transactions!Init
BY DEF Init, Transactions!Init

LEMMA StepRefines ==
    JournalInv /\ JournalInv' /\ [Next]_vars => [Transactions!Next]_Transactions!vars
<1> SUFFICES ASSUME JournalInv, JournalInv', [Next]_vars
             PROVE  [Transactions!Next]_Transactions!vars
  OBVIOUS
<1>1. TypeOK /\ TypeOK' /\ KeysUnique /\ KeysUnique' /\ DiffIsNet /\ MemoryMatchesStore
  BY DEF JournalInv
<1>2. ASSUME UNCHANGED <<store, cache>>, (phase # "idle") <=> (phase' # "idle")
      PROVE  UNCHANGED Transactions!vars
  BY <1>2 DEF Transactions!vars
<1>3. CASE UNCHANGED vars
  BY <1>2, <1>3 DEF vars
<1>4. CASE Begin
  BY <1>4 DEF Begin, Transactions!Next, Transactions!Begin
<1>5. ASSUME NEW ops \in Statements, Execute(ops)
      PROVE  UNCHANGED Transactions!vars
  BY <1>2, <1>5 DEF Execute
<1>6. CASE RefuseStatement
  BY <1>2, <1>6 DEF RefuseStatement
<1>7. ASSUME NEW op \in todo, ModifyRow(op)
      PROVE  Transactions!Change
  BY <1>1, <1>7 DEF ModifyRow, Transactions!Change, TypeOK, KeysUnique
<1>8. ASSUME NEW op \in todo, ModifyRowThrows(op)
      PROVE  UNCHANGED Transactions!vars
  BY <1>2, <1>8 DEF ModifyRowThrows
<1>9. CASE Commit
  BY <1>2, <1>9 DEF Commit
<1>10. CASE CommitFails
  BY <1>2, <1>10 DEF CommitFails
<1>11. CASE StoreCommits
  <2>1. store' = cache
    BY <1>1, <1>11, MergeStoresCache DEF StoreCommits, TypeOK, DiffIsNet
  <2> QED BY <1>11, <2>1 DEF StoreCommits, Transactions!Next, Transactions!Commit
<1>12. CASE Acknowledge
  BY <1>1, <1>12 DEF Acknowledge, KeysUnique, Transactions!Next, Transactions!End
<1>13. CASE Rollback
  BY <1>2, <1>13 DEF Rollback
<1>14. ASSUME NEW id \in RowIds, UndoRow(id) \/ UndoRowThrows(id)
       PROVE  UNCHANGED Transactions!vars
  BY <1>2, <1>14 DEF UndoRow, UndoRowThrows
<1>15. CASE RollbackEnds
  <2>1. cache' = store
    BY <1>1, <1>15, ReverseRestores DEF RollbackEnds, TypeOK, DiffIsNet
  <2> QED BY <1>15, <2>1 DEF RollbackEnds, Transactions!Next, Transactions!End
<1>16. CASE Reopen
  <2>1. CASE phase = "idle"
    BY <1>1, <1>2, <1>16, <2>1 DEF Reopen, MemoryMatchesStore
  <2>2. CASE phase # "idle"
    BY <1>16, <2>2 DEF Reopen, Transactions!Next, Transactions!End
  <2> QED BY <2>1, <2>2
<1> QED BY <1>3, <1>4, <1>5, <1>6, <1>7, <1>8, <1>9, <1>10, <1>11, <1>12, <1>13, <1>14,
           <1>15, <1>16 DEF Next, Transactions!Next

\* Diffs, indices, rollback and commit make the transactions on a table atomic.
THEOREM ImplementsTransactions == Spec => TransactionsAtomic
<1> QED BY InitRefines, StepRefines, InvHolds, PTL
        DEF Spec, TransactionsAtomic, Transactions!Spec
=============================================================================
