-------------------------- MODULE ForeignKeysProofs --------------------------
(***************************************************************************)
(* The theorems of ForeignKeys: a schema that is accepted is sound; in a   *)
(* schema of regular keys every reference is to a row that exists, and a   *)
(* transaction touches only the tables its statements lock.                *)
(***************************************************************************)
EXTENDS ForeignKeys, SchemaProofs

-----------------------------------------------------------------------------
(* The schema *)

\* Statements leave the schema alone.
LEMMA StepsOfSchema ==
    ASSUME Next PROVE SchemaNext \/ UNCHANGED schemaVars
<1>1. ASSUME Statement PROVE UNCHANGED schemaVars
  <2>1. PICK t \in Tables(schema) : InsertRow(t) \/ ReplaceRow(t) \/ UpdateRows(t) \/ DeleteRows(t)
    BY <1>1 DEF Statement
  <2>2. CASE InsertRow(t)
    BY <2>2 DEF InsertRow, Executes
  <2>3. CASE ReplaceRow(t)
    BY <2>3 DEF ReplaceRow, Executes
  <2>4. CASE UpdateRows(t)
    BY <2>4 DEF UpdateRows, Executes
  <2>5. CASE DeleteRows(t)
    BY <2>5 DEF DeleteRows, Executes
  <2> QED
    BY <2>1, <2>2, <2>3, <2>4, <2>5
<1>2. ASSUME CheckDeferred \/ Stored \/ RollBack PROVE UNCHANGED schemaVars
  BY <1>2 DEF CheckDeferred, Stored, RollBack, End
<1> QED
  BY <1>1, <1>2 DEF Next

LEMMA SchemaInvKept ==
    ASSUME SchemaInv, [Next]_vars PROVE SchemaInv'
<1>1. SchemaNext \/ UNCHANGED schemaVars
  BY StepsOfSchema DEF vars
<1>2. ASSUME UNCHANGED schemaVars PROVE SchemaInv'
  BY <1>2 DEF schemaVars, SchemaInv
<1> QED
  BY <1>1, <1>2, SchemaStepInv

\* A schema that finalize accepts is sound, and its search for loops is exact, whatever
\* calls the application made, in whatever order, and whichever of them failed.
THEOREM AcceptedSchemas == Spec => []AcceptedSchemasAreSound
<1>1. Init => SchemaInv
  BY SchemaInitInv DEF Init
<1>2. SchemaInv /\ [Next]_vars => SchemaInv'
  BY SchemaInvKept
<1>3. SchemaInv => AcceptedSchemasAreSound
  BY SchemaInvSound
<1> QED
  BY <1>1, <1>2, <1>3, PTL DEF Spec

-----------------------------------------------------------------------------
(* Rows and their modifications *)

\* The schema of statements: accepted, studied, and of regular keys.
Usable ==
    /\ schema \in Builders /\ Accepted(schema)
    /\ schema \in DOMAIN Studied /\ Regular(schema)

Row(t) == [table : {t}, values : AnyValues(t)]
RowsType == [RowIds -> {None} \cup UNION {Row(t) : t \in Tables(schema)}]

Executing == [rows : RowsType, ok : BOOLEAN, touched : SUBSET TableNames]

\* The modifications of rows of a table, at most one of each row.
Mods(t) == [id : RowIds, before : {None} \cup AnyValues(t), now : {None} \cup AnyValues(t)]
Distinct(mods) == \A m, n \in mods : m.id = n.id => m = n

\* What a modification makes of a row.
RowAfter(t, mod, row) ==
    IF mod.now # None THEN [table |-> t, values |-> mod.now]
    ELSE IF mod.before # None THEN None
    ELSE row

LEMMA NoneIsNoRow ==
    ASSUME Usable, NEW t \in Tables(schema)
    PROVE  None \notin AnyValues(t) /\ None \notin Row(t)
<1>1. schema \in DOMAIN Studied /\ t \in TableNames /\ schema[t] # None
  BY DEF Usable, Tables
<1> QED
  BY <1>1, DataAssumption DEF AnyValues, Columns, Row

\* A row of a table.
LEMMA RowsOf ==
    ASSUME Usable, NEW rows \in RowsType, NEW id \in RowIds, rows[id] # None
    PROVE  /\ rows[id].table \in Tables(schema) /\ rows[id].table \in TableNames
           /\ rows[id] \in Row(rows[id].table)
           /\ rows[id].values \in AnyValues(rows[id].table)
           /\ rows[id] = [table |-> rows[id].table, values |-> rows[id].values]
<1>1. PICK t \in Tables(schema) : rows[id] \in Row(t)
  BY DEF RowsType
<1> QED
  BY <1>1 DEF Row, Tables

LEMMA RowAfterType ==
    ASSUME Usable, NEW t \in Tables(schema), NEW mod \in Mods(t),
           NEW row \in {None} \cup UNION {Row(u) : u \in Tables(schema)}
    PROVE  RowAfter(t, mod, row) \in {None} \cup UNION {Row(u) : u \in Tables(schema)}
<1>1. CASE mod.now # None
  <2>1. mod.now \in AnyValues(t)
    BY <1>1 DEF Mods
  <2>2. [table |-> t, values |-> mod.now] \in Row(t)
    BY <2>1 DEF Row
  <2> QED
    BY <1>1, <2>2 DEF RowAfter
<1> QED
  BY <1>1 DEF RowAfter

\* A modification is done, or nothing is.
DoneOne(j, t, mod, r) ==
    /\ r.touched \subseteq j.touched \cup {t}
    /\ \A id \in RowIds : id # mod.id => r.rows[id] = j.rows[id]
    /\ r.rows[mod.id] \in {j.rows[mod.id], RowAfter(t, mod, j.rows[mod.id])}
    /\ r.ok => j.ok /\ r.rows[mod.id] = RowAfter(t, mod, j.rows[mod.id])

LEMMA ModifyRowDoes ==
    ASSUME Usable, NEW t \in Tables(schema), NEW j \in Executing, NEW mod \in Mods(t)
    PROVE  ModifyRow(j, t, mod) \in Executing /\ DoneOne(j, t, mod, ModifyRow(j, t, mod))
<1> DEFINE r == ModifyRow(j, t, mod)
           looked == j.touched \cup {t}
<1>1. mod.id \in RowIds /\ j.rows \in RowsType /\ t \in TableNames /\ looked \in SUBSET TableNames
  BY DEF Mods, Executing, Tables
<1>2. CASE ~j.ok
  BY <1>1, <1>2 DEF ModifyRow, DoneOne
<1>3. CASE j.ok /\ Taken(j.rows, t, mod)
  <2>1. r = [j EXCEPT !.touched = looked, !.ok = FALSE]
    BY <1>3 DEF ModifyRow, Touch, Executing
  <2> QED
    BY <1>1, <2>1 DEF Executing, DoneOne
<1>4. CASE j.ok /\ ~Taken(j.rows, t, mod)
  <2> DEFINE rows == [j.rows EXCEPT ![mod.id] = RowAfter(t, mod, j.rows[mod.id])]
  <2>1. r = [j EXCEPT !.touched = looked, !.rows = rows]
    BY <1>4 DEF ModifyRow, Touch, Executing, RowAfter
  <2>2. rows \in RowsType /\ rows[mod.id] = RowAfter(t, mod, j.rows[mod.id])
    BY <1>1, RowAfterType DEF RowsType
  <2>3. \A id \in RowIds : id # mod.id => rows[id] = j.rows[id]
    BY <1>1 DEF RowsType
  <2> HIDE DEF rows
  <2>4. r \in Executing /\ r.touched = looked /\ r.rows = rows /\ r.ok = j.ok
    BY <1>1, <2>1, <2>2 DEF Executing
  <2> QED
    BY <2>2, <2>3, <2>4 DEF DoneOne
<1> QED
  BY <1>2, <1>3, <1>4

\* Some modifications of a table's rows are done, or as many as could be.
Done(j, t, mods, r) ==
    /\ r.touched \subseteq j.touched \cup {t}
    /\ \A id \in RowIds :
        \/ r.rows[id] = j.rows[id]
        \/ \E m \in mods : m.id = id /\ r.rows[id] = RowAfter(t, m, j.rows[id])
    /\ r.ok => j.ok /\ \A m \in mods : r.rows[m.id] = RowAfter(t, m, j.rows[m.id])

LEMMA ModifyRowDone ==
    ASSUME Usable, NEW t \in Tables(schema), NEW j \in Executing, NEW r \in Executing,
           NEW mods \in SUBSET Mods(t), Distinct(mods), NEW T \in SUBSET mods, Done(j, t, T, r),
           NEW m \in mods, m \notin T
    PROVE  Done(j, t, T \cup {m}, ModifyRow(r, t, m))
<1> DEFINE q == ModifyRow(r, t, m)
<1>1. m \in Mods(t) /\ m.id \in RowIds
  BY DEF Mods
<1>2. \A n \in T : n.id # m.id /\ n.id \in RowIds
  BY DEF Distinct, Mods
<1>3. r.rows[m.id] = j.rows[m.id]
  BY <1>1, <1>2 DEF Done
<1>4. /\ q.touched \subseteq r.touched \cup {t}
      /\ \A id \in RowIds : id # m.id => q.rows[id] = r.rows[id]
      /\ q.rows[m.id] \in {r.rows[m.id], RowAfter(t, m, r.rows[m.id])}
      /\ q.ok => r.ok /\ q.rows[m.id] = RowAfter(t, m, r.rows[m.id])
  <2>1. DoneOne(r, t, m, q)
    BY <1>1, ModifyRowDoes
  <2> HIDE DEF q
  <2> QED
    BY <2>1 DEF DoneOne
<1> HIDE DEF q
<1>5. q.touched \subseteq j.touched \cup {t}
  BY <1>4 DEF Done
<1>6. ASSUME NEW id \in RowIds
      PROVE  \/ q.rows[id] = j.rows[id]
             \/ \E n \in T \cup {m} : n.id = id /\ q.rows[id] = RowAfter(t, n, j.rows[id])
  <2>1. CASE id = m.id
    BY <1>3, <1>4, <2>1
  <2>2. CASE id # m.id
    <3>1. q.rows[id] = r.rows[id]
      BY <1>4, <2>2
    <3> QED
      BY <3>1 DEF Done
  <2> QED
    BY <2>1, <2>2
<1>7. ASSUME q.ok
      PROVE  j.ok /\ \A n \in T \cup {m} : q.rows[n.id] = RowAfter(t, n, j.rows[n.id])
  <2>1. r.ok /\ q.rows[m.id] = RowAfter(t, m, j.rows[m.id])
    BY <1>3, <1>4, <1>7
  <2>2. \A n \in T : q.rows[n.id] = r.rows[n.id]
    BY <1>2, <1>4
  <2> QED
    BY <2>1, <2>2 DEF Done
<1>8. Done(j, t, T \cup {m}, q)
  BY <1>5, <1>6, <1>7 DEF Done
<1> QED
  BY <1>8 DEF q

LEMMA ModifyRowsDone ==
    ASSUME Usable, NEW t \in Tables(schema), NEW j \in Executing,
           NEW mods \in SUBSET Mods(t), Distinct(mods), IsFiniteSet(mods)
    PROVE  ModifyRows(j, t, mods) \in Executing /\ Done(j, t, mods, ModifyRows(j, t, mods))
<1> DEFINE pick == [T \in SUBSET mods |-> (CHOOSE x \in T : TRUE)]
           next == [v \in mods \X Executing |-> ModifyRow(v[2], t, v[1])]
           P(iter) == iter = [T \in SUBSET mods |->
                         IF T = {} THEN j
                         ELSE ModifyRow(iter[T \ {(CHOOSE x \in T : TRUE)}], t, (CHOOSE x \in T : TRUE))]
           it == CHOOSE iter : P(iter)
<1>1. ModifyRows(j, t, mods) = it[mods]
  BY DEF ModifyRows, FoldSet, MapThenFoldSet
<1>2. IsFiniteSet(mods)
  OBVIOUS
<1>3. \A T \in SUBSET mods : pick[T] = (CHOOSE x \in T : TRUE) /\ (T # {} => pick[T] \in T)
  OBVIOUS
<1>4. \A x \in mods, a \in Executing : ModifyRow(a, t, x) \in Executing
  BY ModifyRowDoes
<1>5. \A x \in mods, a \in Executing : next[<<x, a>>] = ModifyRow(a, t, x)
  OBVIOUS
<1>6. j \in Executing /\ Done(j, t, {}, j)
  BY DEF Done, Executing
<1>7. PICK f : IsLoop(f, mods, Executing, j, pick, next)
  <2> HIDE DEF pick, pick, next
  <2>1. Steps(mods, Executing, j, pick, next)
    BY <1>2, <1>3, <1>4, <1>5, <1>6 DEF Steps
  <2> QED
    BY <2>1, SetLoop
<1>8. P(f)
  <2>1. ASSUME NEW T \in SUBSET mods
        PROVE  f[T] = IF T = {} THEN j
                      ELSE ModifyRow(f[T \ {(CHOOSE x \in T : TRUE)}], t, (CHOOSE x \in T : TRUE))
    <3> HIDE DEF pick, next
    <3>1. CASE T = {}
      BY <1>7, <3>1 DEF IsLoop
    <3>2. CASE T # {}
      <4>1. pick[T] \in mods /\ T \ {pick[T]} \in SUBSET mods /\ f[T \ {pick[T]}] \in Executing
        BY <1>3, <1>7, <3>2 DEF IsLoop
      <4>2. f[T] = next[<<pick[T], f[T \ {pick[T]}]>>]
        BY <1>7, <3>2 DEF IsLoop
      <4>3. f[T] = ModifyRow(f[T \ {pick[T]}], t, pick[T])
        BY <1>5, <4>1, <4>2
      <4> QED
        BY <1>3, <3>2, <4>3
    <3> QED
      BY <3>1, <3>2
  <2>2. f = [T \in SUBSET mods |-> f[T]]
    BY <1>7 DEF IsLoop
  <2> QED
    BY <2>1, <2>2
<1>9. P(it)
  <2> HIDE DEF P
  <2> QED
    BY <1>8
<1>10. \A T \in SUBSET mods : it[T] = IF T = {} THEN j ELSE ModifyRow(it[T \ {pick[T]}], t, pick[T])
  <2>1. it = [T \in SUBSET mods |->
                IF T = {} THEN j
                ELSE ModifyRow(it[T \ {(CHOOSE x \in T : TRUE)}], t, (CHOOSE x \in T : TRUE))]
    BY <1>9
  <2> HIDE DEF it, P
  <2> QED
    BY <2>1
<1> DEFINE G == {T \in SUBSET mods : it[T] \in Executing /\ Done(j, t, T, it[T])}
<1> HIDE DEF pick, next, P, it
<1>11. SUBSET mods \subseteq G
  <2>1. {} \in G
    <3>1. {} \in SUBSET mods /\ it[{}] = j
      BY <1>10
    <3> QED
      BY <1>6, <3>1
  <2>2. ASSUME NEW T \in SUBSET mods, T # {}, T \ {pick[T]} \in G PROVE T \in G
    <3> DEFINE Rest == T \ {pick[T]}
    <3>1. pick[T] \in T /\ pick[T] \in mods /\ Rest \in SUBSET mods /\ it[Rest] \in Executing /\ Done(j, t, Rest, it[Rest])
      BY <1>3, <2>2
    <3>2. it[T] = ModifyRow(it[Rest], t, pick[T])
      BY <1>10, <2>2
    <3>3. T = Rest \cup {pick[T]} /\ pick[T] \notin Rest
      BY <3>1
    <3>4. it[T] \in Executing
      BY <1>4, <3>1, <3>2
    <3> HIDE DEF Rest
    <3>5. Done(j, t, T, it[T])
      BY <3>1, <3>2, <3>3, ModifyRowDone
    <3> QED
      BY <3>4, <3>5
  <2>3. Inductive(mods, pick, G)
    <3> HIDE DEF G
    <3>1. \A T \in SUBSET mods : T # {} /\ T \ {pick[T]} \in G => T \in G
      BY <2>2
    <3> QED
      BY <1>2, <1>3, <2>1, <3>1 DEF Inductive
  <2> HIDE DEF G
  <2> QED
    BY <2>3, SubsetInduction
<1>12. ModifyRows(j, t, mods) \in Executing /\ Done(j, t, mods, ModifyRows(j, t, mods))
  BY <1>1, <1>11
<1> QED
  BY <1>12

-----------------------------------------------------------------------------
(* The checks *)

\* A check changes no row.
Checks(j, tables, r) ==
    /\ r \in Executing /\ r.rows = j.rows /\ (r.ok => j.ok)
    /\ r.touched \subseteq j.touched \cup tables

\* The foreign keys a check of the rows now, or of the rows before, is about.
ReferredKeys(t, mods, timing) ==
    {fk \in ToSet(schema[t].fkSpecs) :
        fk.timing = timing /\ \E mod \in mods : Changed(mod, fk.childColumn)}

ReferringKeys(t, mods, timing, actions) ==
    {fk \in ReferencingForeignKeys(t, actions) :
        fk.timing = timing /\ \E mod \in mods : Changed(mod, fk.parentColumn)}

ParentsOf(fks) == {fk.parentTable : fk \in fks}
ChildrenOf(fks) == {fk.childTable : fk \in fks}

\* The parents of the rows now are there.
ParentsFound(rows, t, mods, timing) ==
    \A fk \in ToSet(schema[t].fkSpecs), mod \in mods :
        fk.timing = timing /\ Changed(mod, fk.childColumn) /\ mod.now[fk.childColumn] # Null =>
            HasKey(rows, fk.parentTable, fk.parentColumn, mod.now[fk.childColumn])

\* No row refers to the rows before.
NoneRefers(rows, t, mods, timing, actions) ==
    \A fk \in ReferencingForeignKeys(t, actions), mod \in mods :
        fk.timing = timing /\ Changed(mod, fk.parentColumn) =>
            ~HasKey(rows, fk.childTable, fk.childColumn, mod.before[fk.parentColumn])

LEMMA KeysOfSchema ==
    ASSUME Usable, NEW t \in Tables(schema)
    PROVE  /\ \A fk \in ToSet(schema[t].fkSpecs) :
                fk \in ForeignKeys(schema) /\ fk.childTable = t /\ fk.parentTable \in Tables(schema)
           /\ \A fk \in ForeignKeys(schema) :
                /\ fk.childTable \in Tables(schema) /\ fk.parentTable \in Tables(schema)
                /\ fk \in ToSet(schema[fk.childTable].fkSpecs)
           /\ Tables(schema) \subseteq TableNames
<1>1. \A fk \in ForeignKeys(schema) :
         /\ fk.childTable \in Tables(schema) /\ fk.parentTable \in Tables(schema)
         /\ fk \in ToSet(schema[fk.childTable].fkSpecs)
  BY KeysOfBuilders, KeysOfAccepted DEF Usable
<1>2. ASSUME NEW fk \in ToSet(schema[t].fkSpecs)
      PROVE  fk \in ForeignKeys(schema) /\ fk.childTable = t
  <2>1. schema[t].fkSpecs \in Seq(FkSpecs(t))
    BY DEF Usable, Builders, IsBuilder, Shape
  <2>2. fk \in FkSpecs(t)
    BY <2>1, ToSetFinite
  <2> QED
    BY <2>2 DEF ForeignKeys, FkSpecs
<1> QED
  BY <1>1, <1>2 DEF Tables

LEMMA NotNullableChecked ==
    ASSUME Usable, NEW j \in Executing, NEW t, NEW mods
    PROVE  Checks(j, {}, CheckNotNullable(j, t, mods))
<1> DEFINE ok == j.ok /\ \A mod \in mods : mod.now \in Values(t)
<1>1. CheckNotNullable(j, t, mods) = [j EXCEPT !.ok = ok]
  BY DEF CheckNotNullable, Executing
<1>2. ok \in BOOLEAN /\ (ok => j.ok)
  OBVIOUS
<1> HIDE DEF ok
<1> QED
  BY <1>1, <1>2 DEF Checks, Executing

LEMMA ReferredKeysChecked ==
    ASSUME Usable, NEW j \in Executing, NEW t \in Tables(schema), NEW mods, NEW timing
    PROVE  /\ Checks(j, ParentsOf(ReferredKeys(t, mods, timing)), CheckReferredKeys(j, t, mods, timing))
           /\ CheckReferredKeys(j, t, mods, timing).ok => ParentsFound(j.rows, t, mods, timing)
<1> DEFINE lookups == {l \in ToSet(schema[t].fkSpecs) \X mods :
                         /\ l[1].timing = timing /\ Changed(l[2], l[1].childColumn)
                         /\ l[2].now[l[1].childColumn] # Null}
           tables == {l[1].parentTable : l \in lookups}
           ok == j.ok /\ \A l \in lookups :
                    HasKey(j.rows, l[1].parentTable, l[1].parentColumn, l[2].now[l[1].childColumn])
<1>1. tables \subseteq ParentsOf(ReferredKeys(t, mods, timing)) /\ tables \subseteq TableNames
  <2>1. ASSUME NEW l \in lookups
        PROVE  l[1].parentTable \in ParentsOf(ReferredKeys(t, mods, timing)) /\ l[1].parentTable \in TableNames
    <3>1. l[1] \in ToSet(schema[t].fkSpecs) /\ l[2] \in mods
      OBVIOUS
    <3>2. l[1] \in ReferredKeys(t, mods, timing)
      BY <3>1 DEF ReferredKeys
    <3>3. l[1].parentTable \in TableNames
      BY <3>1, KeysOfSchema
    <3> QED
      BY <3>2, <3>3 DEF ParentsOf
  <2> HIDE DEF lookups
  <2> QED
    BY <2>1
<1>2. CheckReferredKeys(j, t, mods, timing) = [Touch(j, tables) EXCEPT !.ok = ok]
  <2>1. Touch(j, tables).ok = j.ok /\ Touch(j, tables) \in Executing
    BY <1>1 DEF Touch, Executing
  <2>2. CheckReferredKeys(j, t, mods, timing) = [Touch(j, tables) EXCEPT !.ok = Touch(j, tables).ok
          /\ \A l \in lookups : HasKey(j.rows, l[1].parentTable, l[1].parentColumn, l[2].now[l[1].childColumn])]
    BY DEF CheckReferredKeys
  <2> QED
    BY <2>1, <2>2
<1>3. ok \in BOOLEAN /\ (ok => j.ok)
  OBVIOUS
<1>4. ASSUME ok PROVE ParentsFound(j.rows, t, mods, timing)
  <2>1. ASSUME NEW fk \in ToSet(schema[t].fkSpecs), NEW mod \in mods,
               fk.timing = timing, Changed(mod, fk.childColumn), mod.now[fk.childColumn] # Null
        PROVE  HasKey(j.rows, fk.parentTable, fk.parentColumn, mod.now[fk.childColumn])
    <3>1. <<fk, mod>> \in lookups
      BY <2>1
    <3> QED
      BY <1>4, <3>1
  <2> QED
    BY <2>1 DEF ParentsFound
<1> HIDE DEF ok, tables
<1>5. Checks(j, ParentsOf(ReferredKeys(t, mods, timing)), [Touch(j, tables) EXCEPT !.ok = ok])
  BY <1>1, <1>3 DEF Checks, Executing, Touch
<1>6. [Touch(j, tables) EXCEPT !.ok = ok].ok = ok
  BY <1>1 DEF Executing, Touch
<1> QED
  BY <1>2, <1>4, <1>5, <1>6

LEMMA ReferringKeysChecked ==
    ASSUME Usable, NEW j \in Executing, NEW t \in Tables(schema), NEW mods, NEW timing, NEW actions
    PROVE  /\ Checks(j, ChildrenOf(ReferringKeys(t, mods, timing, actions)),
                     CheckReferringKeys(j, t, mods, timing, actions))
           /\ CheckReferringKeys(j, t, mods, timing, actions).ok =>
                NoneRefers(j.rows, t, mods, timing, actions)
<1> DEFINE specs == {fk \in ReferencingForeignKeys(t, actions) : fk.timing = timing}
           missing == {mod \in mods : mod.before = None /\ mod.now = None}
           lookups == {l \in specs \X (mods \ missing) : Changed(l[2], l[1].parentColumn)}
           tables == {l[1].childTable : l \in lookups}
           ok == /\ j.ok
                 /\ specs = {} \/ missing = {}
                 /\ \A l \in lookups :
                      ~HasKey(j.rows, l[1].childTable, l[1].childColumn, l[2].before[l[1].parentColumn])
<1>1. tables \subseteq ChildrenOf(ReferringKeys(t, mods, timing, actions)) /\ tables \subseteq TableNames
  <2>1. ASSUME NEW l \in lookups
        PROVE  /\ l[1].childTable \in ChildrenOf(ReferringKeys(t, mods, timing, actions))
               /\ l[1].childTable \in TableNames
    <3>1. l[1] \in specs /\ l[2] \in mods
      OBVIOUS
    <3>2. l[1] \in ReferringKeys(t, mods, timing, actions)
      BY <3>1 DEF ReferringKeys
    <3>3. l[1].childTable \in TableNames
      BY <3>1, KeysOfSchema DEF ReferencingForeignKeys
    <3> QED
      BY <3>2, <3>3 DEF ChildrenOf
  <2> HIDE DEF lookups
  <2> QED
    BY <2>1
<1>2. CheckReferringKeys(j, t, mods, timing, actions) = [Touch(j, tables) EXCEPT !.ok = ok]
  <2>1. Touch(j, tables).ok = j.ok /\ Touch(j, tables) \in Executing
    BY <1>1 DEF Touch, Executing
  <2>2. CheckReferringKeys(j, t, mods, timing, actions) = [Touch(j, tables) EXCEPT !.ok = Touch(j, tables).ok
          /\ (specs = {} \/ missing = {})
          /\ \A l \in lookups :
               ~HasKey(j.rows, l[1].childTable, l[1].childColumn, l[2].before[l[1].parentColumn])]
    BY DEF CheckReferringKeys
  <2> QED
    BY <2>1, <2>2
<1>3. ok \in BOOLEAN /\ (ok => j.ok)
  OBVIOUS
<1>4. ASSUME ok PROVE NoneRefers(j.rows, t, mods, timing, actions)
  <2>1. ASSUME NEW fk \in ReferencingForeignKeys(t, actions), NEW mod \in mods,
               fk.timing = timing, Changed(mod, fk.parentColumn)
        PROVE  ~HasKey(j.rows, fk.childTable, fk.childColumn, mod.before[fk.parentColumn])
    <3>1. fk \in specs
      BY <2>1
    <3>2. mod \notin missing
      BY <1>4, <3>1
    <3>3. <<fk, mod>> \in lookups
      BY <2>1, <3>1, <3>2
    <3> QED
      BY <1>4, <3>3
  <2> QED
    BY <2>1 DEF NoneRefers
<1> HIDE DEF ok, tables
<1>5. Checks(j, ChildrenOf(ReferringKeys(t, mods, timing, actions)),
             [Touch(j, tables) EXCEPT !.ok = ok])
  BY <1>1, <1>3 DEF Checks, Executing, Touch
<1>6. [Touch(j, tables) EXCEPT !.ok = ok].ok = ok
  BY <1>1 DEF Executing, Touch
<1> QED
  BY <1>2, <1>4, <1>5, <1>6

LEMMA ChecksCompose ==
    ASSUME NEW j, NEW r, NEW q, NEW A, NEW B, Checks(j, A, r), Checks(r, B, q)
    PROVE  Checks(j, A \cup B, q)
BY DEF Checks

LEMMA CheckForUpdateChecks ==
    ASSUME Usable, NEW j \in Executing, NEW t \in Tables(schema), NEW mods, NEW timing
    PROVE  /\ Checks(j, ParentsOf(ReferredKeys(t, mods, timing))
                          \cup ChildrenOf(ReferringKeys(t, mods, timing, {"restrict"})),
                     CheckForUpdate(j, t, mods, timing))
           /\ CheckForUpdate(j, t, mods, timing).ok =>
                /\ ParentsFound(j.rows, t, mods, timing)
                /\ NoneRefers(j.rows, t, mods, timing, {"restrict"})
<1> DEFINE r == CheckReferredKeys(j, t, mods, timing)
           q == CheckReferringKeys(r, t, mods, timing, {"restrict"})
           parents == ParentsOf(ReferredKeys(t, mods, timing))
           children == ChildrenOf(ReferringKeys(t, mods, timing, {"restrict"}))
<1>1. Checks(j, parents, r) /\ (r.ok => ParentsFound(j.rows, t, mods, timing))
  BY ReferredKeysChecked
<1>2. r \in Executing /\ r.rows = j.rows
  BY <1>1 DEF Checks
<1>3. Checks(r, children, q) /\ (q.ok => NoneRefers(r.rows, t, mods, timing, {"restrict"}))
  BY <1>2, ReferringKeysChecked
<1>4. q = CheckForUpdate(j, t, mods, timing)
  BY DEF CheckForUpdate
<1> HIDE DEF r, q, parents, children
<1>5. Checks(j, parents \cup children, q)
  BY <1>1, <1>3, ChecksCompose
<1>6. q.ok => r.ok
  BY <1>3 DEF Checks
<1>7. q.ok => ParentsFound(j.rows, t, mods, timing) /\ NoneRefers(j.rows, t, mods, timing, {"restrict"})
  BY <1>1, <1>2, <1>3, <1>6
<1> QED
  BY <1>4, <1>5, <1>7 DEF parents, children

LEMMA CheckForDeleteChecks ==
    ASSUME Usable, NEW j \in Executing, NEW t \in Tables(schema), NEW mods, NEW timing
    PROVE  /\ Checks(j, ChildrenOf(ReferringKeys(t, mods, timing, AnyAction)), CheckForDelete(j, t, mods, timing))
           /\ CheckForDelete(j, t, mods, timing).ok => NoneRefers(j.rows, t, mods, timing, AnyAction)
BY ReferringKeysChecked DEF CheckForDelete

LEMMA CheckForInsertChecks ==
    ASSUME Usable, NEW j \in Executing, NEW t \in Tables(schema), NEW mods, NEW timing
    PROVE  /\ Checks(j, ParentsOf(ReferredKeys(t, mods, timing)), CheckForInsert(j, t, mods, timing))
           /\ CheckForInsert(j, t, mods, timing).ok => ParentsFound(j.rows, t, mods, timing)
BY ReferredKeysChecked DEF CheckForInsert

-----------------------------------------------------------------------------
(* References *)

\* A row refers by a foreign key to the row it should.
Refers(rows, fk, id) ==
    \E p \in RowIds :
        /\ rows[p] # None /\ rows[p].table = fk.parentTable
        /\ rows[p].values[fk.parentColumn] = rows[id].values[fk.childColumn]

References(rows, fk, id) ==
    rows[id] # None /\ rows[id].table = fk.childTable /\ rows[id].values[fk.childColumn] # Null

LEMMA DanglingIs ==
    ASSUME NEW rows, NEW fk
    PROVE  ~Dangling(rows, fk) <=> \A id \in RowIds : References(rows, fk, id) => Refers(rows, fk, id)
BY DEF Dangling, HasKey, IdsAt, IdsOf, Refers, References

NoneDangling(rows) ==
    \A fk \in ForeignKeys(schema) : fk.timing = "immediate" => ~Dangling(rows, fk)

LEMMA ColumnsOfKeys ==
    ASSUME Usable, NEW fk \in ForeignKeys(schema)
    PROVE  /\ fk.childColumn \in Columns(fk.childTable) /\ fk.parentColumn \in Columns(fk.parentTable)
           /\ fk.childTable \in Tables(schema) /\ fk.parentTable \in Tables(schema)
           /\ fk \in ToSet(schema[fk.childTable].fkSpecs)
           /\ fk.action \in AnyAction /\ fk.timing \in {"immediate", "deferrable"}
           /\ fk.action = "cascade" => fk.timing = "immediate"
<1>1. fk.childColumn \in Columns(fk.childTable) /\ fk.childTable \in Tables(schema) /\ fk.parentTable \in Tables(schema)
  BY KeysOfAccepted DEF Usable, Columns
<1>2. fk.parentColumn \in Columns(fk.parentTable)
  BY DEF Usable, Accepted, ForeignKeyValid, Columns
<1>3. fk \in ToSet(schema[fk.childTable].fkSpecs) /\ fk \in FkSpecs(fk.childTable)
  BY KeysOfBuilders DEF Usable
<1>4. IsBuilder(fk.childTable, schema[fk.childTable])
  BY <1>1 DEF Usable, Builders
<1>5. fk.action = "cascade" => fk.timing = "immediate"
  BY <1>3, <1>4 DEF IsBuilder, KeyColumnsExist
<1> QED
  BY <1>1, <1>2, <1>3, <1>5 DEF FkSpecs, AnyAction

\* The modification that adds a row to a table, and the rows then.
Adds(rows, t, mod, new) ==
    /\ mod.id \in RowIds /\ mod.before = None /\ mod.now # None /\ rows[mod.id] = None
    /\ new[mod.id] = [table |-> t, values |-> mod.now]
    /\ \A id \in RowIds : id # mod.id => new[id] = rows[id]

LEMMA InsertionKeeps ==
    ASSUME Usable, NEW rows \in RowsType, NEW new \in RowsType, NEW t \in Tables(schema),
           NEW mod, Adds(rows, t, mod, new),
           NoneDangling(rows), ParentsFound(rows, t, {mod}, "immediate")
    PROVE  NoneDangling(new)
<1> SUFFICES ASSUME NEW fk \in ForeignKeys(schema), fk.timing = "immediate",
                    NEW id \in RowIds, References(new, fk, id)
             PROVE  Refers(new, fk, id)
  BY DanglingIs DEF NoneDangling
<1>1. ~Dangling(rows, fk)
  BY DEF NoneDangling
<1>2. ASSUME NEW p \in RowIds, rows[p] # None PROVE new[p] = rows[p]
  BY <1>2 DEF Adds
<1>3. PICK p \in RowIds : /\ rows[p] # None /\ rows[p].table = fk.parentTable
                          /\ rows[p].values[fk.parentColumn] = new[id].values[fk.childColumn]
  <2>1. CASE id = mod.id
    <3>1. t = fk.childTable /\ mod.now[fk.childColumn] # Null
      BY <2>1 DEF References, Adds
    <3>2. fk \in ToSet(schema[t].fkSpecs)
      BY <3>1, ColumnsOfKeys
    <3>3. Changed(mod, fk.childColumn)
      BY DEF Changed, Adds
    <3>4. HasKey(rows, fk.parentTable, fk.parentColumn, mod.now[fk.childColumn])
      BY <3>1, <3>2, <3>3 DEF ParentsFound
    <3> QED
      BY <2>1, <3>4 DEF HasKey, IdsAt, IdsOf, Adds
  <2>2. CASE id # mod.id
    <3>1. new[id] = rows[id]
      BY <2>2 DEF Adds
    <3>2. Refers(rows, fk, id)
      BY <1>1, <3>1, DanglingIs DEF References
    <3> QED
      BY <3>1, <3>2 DEF Refers
  <2> QED
    BY <2>1, <2>2
<1> QED
  BY <1>2, <1>3 DEF Refers

\* The modification that removes a row of a table.
Removes(rows, t, m) ==
    /\ rows[m.id] # None /\ rows[m.id].table = t
    /\ m.before = rows[m.id].values /\ m.now = None

LEMMA RemovalKeeps ==
    ASSUME Usable, NEW rows \in RowsType, NEW new \in RowsType, NEW t \in Tables(schema), NEW mods,
           \A id \in RowIds : \/ new[id] = rows[id]
                              \/ new[id] = None /\ \E m \in mods : m.id = id /\ Removes(rows, t, m),
           NoneDangling(rows), NoneRefers(rows, t, mods, "immediate", AnyAction)
    PROVE  NoneDangling(new)
<1> SUFFICES ASSUME NEW fk \in ForeignKeys(schema), fk.timing = "immediate",
                    NEW id \in RowIds, References(new, fk, id)
             PROVE  Refers(new, fk, id)
  BY DanglingIs DEF NoneDangling
<1>1. ~Dangling(rows, fk)
  BY DEF NoneDangling
<1>2. new[id] = rows[id] /\ References(rows, fk, id)
  BY DEF References
<1>3. PICK p \in RowIds : /\ rows[p] # None /\ rows[p].table = fk.parentTable
                          /\ rows[p].values[fk.parentColumn] = rows[id].values[fk.childColumn]
  BY <1>1, <1>2, DanglingIs DEF Refers
<1>4. new[p] = rows[p]
  <2>1. SUFFICES ASSUME NEW m \in mods, m.id = p, Removes(rows, t, m) PROVE FALSE
    OBVIOUS
  <2>2. fk \in ReferencingForeignKeys(t, AnyAction)
    BY <1>3, <2>1, ColumnsOfKeys DEF Removes, ReferencingForeignKeys
  <2>3. m.before = rows[p].values /\ m.now = None /\ m.before # None
    <3>1. rows[p].values \in AnyValues(rows[p].table) /\ rows[p].table \in Tables(schema)
      BY <1>3, RowsOf
    <3> QED
      BY <2>1, <3>1, NoneIsNoRow DEF Removes
  <2>4. Changed(m, fk.parentColumn)
    BY <2>3 DEF Changed
  <2>5. ~HasKey(rows, fk.childTable, fk.childColumn, m.before[fk.parentColumn])
    BY <2>2, <2>4 DEF NoneRefers
  <2>6. HasKey(rows, fk.childTable, fk.childColumn, rows[p].values[fk.parentColumn])
    BY <1>2, <1>3 DEF References, HasKey, IdsAt, IdsOf
  <2> QED
    BY <2>3, <2>5, <2>6
<1> QED
  BY <1>2, <1>3, <1>4 DEF Refers

\* The modifications that change rows of a table.
Changing(rows, t, mods) ==
    \A m \in mods : /\ m.id \in RowIds /\ rows[m.id] # None /\ rows[m.id].table = t
                    /\ m.before = rows[m.id].values /\ m.now \in AnyValues(t)

\* A value that cascades to a column of a row, and a column with a value that has to go.
Receives(rows, t, mods, id, c, value) ==
    \E fk \in ReferencingForeignKeys(t, {"cascade"}), m \in mods :
        /\ fk.childTable = rows[id].table /\ fk.childColumn = c
        /\ value = m.now[fk.parentColumn]

Due(rows, t, mods, id, c) ==
    \E fk \in ReferencingForeignKeys(t, {"cascade"}), m \in mods :
        /\ fk.childTable = rows[id].table /\ fk.childColumn = c
        /\ Changed(m, fk.parentColumn) /\ m.before[fk.parentColumn] = rows[id].values[c]

\* The rows once the changes have cascaded.
SameRows(rows, new) ==
    \A id \in RowIds :
        /\ rows[id] = None <=> new[id] = None
        /\ rows[id] # None => new[id].table = rows[id].table

Cascaded(rows, mid, t, mods) ==
    /\ SameRows(rows, mid)
    /\ \A id \in RowIds : rows[id] # None /\ rows[id].table = t => mid[id] = rows[id]
    /\ \A id \in RowIds : rows[id] # None => \A c \in Columns(rows[id].table) :
          \/ mid[id].values[c] = rows[id].values[c] /\ ~Due(rows, t, mods, id, c)
          \/ Receives(rows, t, mods, id, c, mid[id].values[c])

\* The rows once the changes are made.
MadeTo(mid, new, t, mods) ==
    /\ \A m \in mods : new[m.id] = [table |-> t, values |-> m.now]
    /\ \A id \in RowIds : (\A m \in mods : m.id # id) => new[id] = mid[id]

LEMMA ChangeKeeps ==
    ASSUME Usable, NEW rows \in RowsType, NEW mid \in RowsType, NEW new \in RowsType,
           NEW t \in Tables(schema), NEW mods, Changing(rows, t, mods),
           Cascaded(rows, mid, t, mods), MadeTo(mid, new, t, mods), NoneDangling(rows),
           ParentsFound(mid, t, mods, "immediate"), NoneRefers(mid, t, mods, "immediate", {"restrict"})
    PROVE  NoneDangling(new)
<1> SUFFICES ASSUME NEW fk \in ForeignKeys(schema), fk.timing = "immediate",
                    NEW id \in RowIds, References(new, fk, id)
             PROVE  Refers(new, fk, id)
  BY DanglingIs DEF NoneDangling
<1> DEFINE ct == fk.childTable
           cc == fk.childColumn
           pt == fk.parentTable
           pc == fk.parentColumn
           key == new[id].values[cc]
<1>1. /\ cc \in Columns(ct) /\ pc \in Columns(pt) /\ ct \in Tables(schema) /\ pt \in Tables(schema)
      /\ fk \in ToSet(schema[ct].fkSpecs) /\ fk.action \in AnyAction
  BY ColumnsOfKeys
<1>2. ct # pt
  BY DEF Usable, Regular
<1>3. ~Dangling(rows, fk)
  BY DEF NoneDangling
<1>4. \A m \in mods : m.before # None /\ m.now # None /\ m.id \in RowIds /\ rows[m.id] # None
                      /\ rows[m.id].table = t /\ m.before = rows[m.id].values
  <2>1. ASSUME NEW m \in mods PROVE m.before \in AnyValues(t) /\ m.now \in AnyValues(t)
    BY RowsOf DEF Changing
  <2> QED
    BY <2>1, NoneIsNoRow DEF Changing
<1>5. \A m \in mods : \A c : Changed(m, c) <=> m.before[c] # m.now[c]
  BY <1>4 DEF Changed
<1>6. ASSUME NEW p \in RowIds
      PROVE  /\ rows[p] = None <=> new[p] = None
             /\ rows[p] # None => new[p].table = rows[p].table
             /\ rows[p] # None /\ rows[p].table # t => new[p] = mid[p]
  <2>1. CASE \A m \in mods : m.id # p
    BY <2>1 DEF MadeTo, Cascaded, SameRows
  <2>2. ASSUME NEW m \in mods, m.id = p PROVE rows[p] # None /\ rows[p].table = t /\ new[p].table = t /\ new[p] # None
    <3>1. new[p] = [table |-> t, values |-> m.now] /\ m.now \in AnyValues(t)
      BY <2>2 DEF MadeTo, Changing
    <3>2. new[p] \in Row(t)
      BY <3>1 DEF Row
    <3> QED
      BY <1>4, <2>2, <3>1, <3>2, NoneIsNoRow
  <2> QED
    BY <2>1, <2>2
\* The columns that keys refer to are not those that changes cascade to.
<1>7. ASSUME NEW p \in RowIds, rows[p] # None, rows[p].table = pt, pt # t
      PROVE  new[p] = mid[p] /\ mid[p].values[pc] = rows[p].values[pc]
  <2>1. ~Receives(rows, t, mods, p, pc, mid[p].values[pc])
    <3>1. ASSUME NEW up \in ForeignKeys(schema) PROVE up.childTable = pt => up.childColumn # pc
      BY DEF Usable, Accepted, NoChain
    <3> QED
      BY <1>7, <3>1 DEF Receives, ReferencingForeignKeys
  <2> QED
    BY <1>1, <1>6, <1>7, <2>1 DEF Cascaded
<1>8. rows[id] # None /\ rows[id].table = ct /\ key # Null
  BY <1>6 DEF References
<1>9. ASSUME NEW p \in RowIds, rows[p] # None, rows[p].table = pt, pt # t, mid[p].values[pc] = key
      PROVE  Refers(new, fk, id)
  <2>1. new[p] = mid[p] /\ new[p] # None /\ new[p].table = pt
    BY <1>6, <1>7, <1>9
  <2> QED
    BY <1>9, <2>1 DEF Refers
<1>10. ASSUME rows[id].values[cc] = key
       PROVE  \E p \in RowIds : rows[p] # None /\ rows[p].table = pt /\ rows[p].values[pc] = key
  <2>1. References(rows, fk, id)
    BY <1>8, <1>10 DEF References
  <2> QED
    BY <1>3, <1>10, <2>1, DanglingIs DEF Refers
<1>11. CASE ct = t
  <2>1. pt # t
    BY <1>2, <1>11
  <2>2. ASSUME rows[id].values[cc] = key PROVE Refers(new, fk, id)
    <3>1. PICK p \in RowIds : rows[p] # None /\ rows[p].table = pt /\ rows[p].values[pc] = key
      BY <1>10, <2>2
    <3> QED
      BY <1>7, <1>9, <2>1, <3>1
  <2>3. ASSUME NEW m \in mods, m.id = id PROVE Refers(new, fk, id)
    <3>1. key = m.now[cc] /\ m.before[cc] = rows[id].values[cc]
      <4>1. new[id] = [table |-> t, values |-> m.now]
        BY <2>3 DEF MadeTo
      <4>2. m.before = rows[id].values
        BY <1>4, <2>3
      <4> QED
        BY <4>1, <4>2
    <3>2. CASE m.before[cc] = m.now[cc]
      BY <2>2, <3>1, <3>2
    <3>3. CASE m.before[cc] # m.now[cc]
      <4>1. Changed(m, cc)
        BY <1>5, <3>3
      <4>2. HasKey(mid, pt, pc, key)
        BY <1>1, <1>8, <1>11, <3>1, <4>1 DEF ParentsFound
      <4>3. PICK p \in RowIds : mid[p] # None /\ mid[p].table = pt /\ mid[p].values[pc] = key
        BY <4>2 DEF HasKey, IdsAt, IdsOf
      <4>4. rows[p] # None /\ rows[p].table = pt
        BY <4>3 DEF Cascaded, SameRows
      <4> QED
        BY <1>9, <2>1, <4>3, <4>4
    <3> QED
      BY <3>2, <3>3
  <2>4. CASE \A m \in mods : m.id # id
    <3>1. new[id] = mid[id] /\ mid[id] = rows[id]
      BY <1>8, <1>11, <2>4 DEF MadeTo, Cascaded
    <3> QED
      BY <2>2, <3>1
  <2> QED
    BY <2>3, <2>4
<1>12. CASE ct # t
  <2>1. new[id] = mid[id]
    BY <1>6, <1>8, <1>12
  <2>2. CASE Receives(rows, t, mods, id, cc, key)
    <3>1. PICK up \in ReferencingForeignKeys(t, {"cascade"}), m \in mods :
             up.childTable = ct /\ up.childColumn = cc /\ key = m.now[up.parentColumn]
      BY <1>8, <2>2 DEF Receives
    <3>2. up = fk
      BY <3>1 DEF Usable, Regular, ReferencingForeignKeys
    <3>3. pt = t /\ key = m.now[pc]
      BY <3>1, <3>2 DEF ReferencingForeignKeys
    <3>4. new[m.id] = [table |-> t, values |-> m.now] /\ m.id \in RowIds /\ new[m.id] # None
      BY <1>4, <1>6 DEF MadeTo
    <3> QED
      BY <3>3, <3>4 DEF Refers
  <2>3. CASE rows[id].values[cc] = key /\ ~Due(rows, t, mods, id, cc)
    <3>1. PICK p \in RowIds : rows[p] # None /\ rows[p].table = pt /\ rows[p].values[pc] = key
      BY <1>10, <2>3
    <3>2. CASE pt # t
      BY <1>7, <1>9, <3>1, <3>2
    <3>3. CASE pt = t
      <4>1. ASSUME NEW m \in mods, m.id = p PROVE Refers(new, fk, id)
        <5>1. m.before[pc] = key /\ new[p] = [table |-> t, values |-> m.now] /\ new[p] # None
          BY <1>4, <1>6, <3>1, <4>1 DEF MadeTo
        <5>2. CASE m.now[pc] = key
          BY <3>3, <5>1, <5>2 DEF Refers
        <5>3. CASE m.now[pc] # key
          <6>1. Changed(m, pc)
            BY <1>5, <5>1, <5>3
          <6>2. fk.action # "cascade"
            BY <1>8, <2>3, <3>3, <5>1, <6>1 DEF Due, ReferencingForeignKeys
          <6>3. fk \in ReferencingForeignKeys(t, {"restrict"})
            BY <1>1, <3>3, <6>2 DEF ReferencingForeignKeys, AnyAction
          <6>4. ~HasKey(mid, ct, cc, key)
            BY <5>1, <6>1, <6>3 DEF NoneRefers
          <6>5. HasKey(mid, ct, cc, key)
            BY <2>1 DEF References, HasKey, IdsAt, IdsOf
          <6> QED
            BY <6>4, <6>5
        <5> QED
          BY <5>2, <5>3
      <4>2. CASE \A m \in mods : m.id # p
        <5>1. new[p] = mid[p] /\ mid[p] = rows[p]
          BY <3>1, <3>3, <4>2 DEF MadeTo, Cascaded
        <5> QED
          BY <3>1, <5>1 DEF Refers
      <4> QED
        BY <4>1, <4>2
    <3> QED
      BY <3>2, <3>3
  <2>4. \/ Receives(rows, t, mods, id, cc, key)
        \/ rows[id].values[cc] = key /\ ~Due(rows, t, mods, id, cc)
    BY <1>1, <1>8, <2>1 DEF Cascaded
  <2> QED
    BY <2>2, <2>3, <2>4
<1> QED
  BY <1>11, <1>12

-----------------------------------------------------------------------------
(* The outcome of a statement *)

\* The tables looked at when a column of a row is found to have another value.
ColumnCovered(t, c, tables) ==
    \A fk \in ForeignKeys(schema) : fk.timing = "deferrable" =>
        /\ fk.childTable = t /\ fk.childColumn = c => fk.parentTable \in tables
        /\ fk.parentTable = t /\ fk.parentColumn = c => fk.childTable \in tables

\* The tables looked at for what has become of a row are among some tables.
RowCovered(row, new, tables) ==
    \/ new = row
    \/ row = None /\ new # None /\ ParentTables(new.table) \subseteq tables
    \/ row # None /\ new = None /\ ChildTables(row.table, AnyAction) \subseteq tables
    \/ /\ row # None /\ new # None /\ new.table = row.table
       /\ \A c \in Columns(row.table) :
            new.values[c] # row.values[c] => ColumnCovered(row.table, c, tables)

Covers(rows, new, tables) == \A id \in RowIds : RowCovered(rows[id], new[id], tables)

\* What a statement comes to: a statement that has not failed leaves no reference without
\* its row, the rows it adds are new ones, and it looks only at some tables.
Outcome(j, r, fresh, tables) ==
    /\ r \in Executing
    /\ r.touched \subseteq j.touched \cup tables
    /\ NoneDangling(j.rows) /\ r.ok => NoneDangling(r.rows)
    /\ \A id \in RowIds : j.rows[id] = None /\ r.rows[id] # None => id \in fresh
    /\ Covers(j.rows, r.rows, tables)

LEMMA KeysLookedAt ==
    ASSUME NEW t, NEW mods, NEW timing, NEW actions
    PROVE  /\ ParentsOf(ReferredKeys(t, mods, timing)) \subseteq ParentTables(t)
           /\ ChildrenOf(ReferringKeys(t, mods, timing, actions)) \subseteq ChildTables(t, actions)
           /\ actions \subseteq AnyAction => ChildTables(t, actions) \subseteq ChildTables(t, AnyAction)
<1>1. ParentsOf(ReferredKeys(t, mods, timing)) \subseteq ParentTables(t)
  BY DEF ParentsOf, ReferredKeys, ParentTables
<1>2. ChildrenOf(ReferringKeys(t, mods, timing, actions)) \subseteq ChildTables(t, actions)
  BY DEF ChildrenOf, ReferringKeys, ChildTables
<1>3. actions \subseteq AnyAction => ChildTables(t, actions) \subseteq ChildTables(t, AnyAction)
  BY DEF ChildTables, ReferencingForeignKeys
<1> QED
  BY <1>1, <1>2, <1>3

LEMMA DoneOfOne ==
    ASSUME NEW j, NEW t, NEW m, m.id \in RowIds, NEW r, Done(j, t, {m}, r)
    PROVE  DoneOne(j, t, m, r)
<1>1. \A id \in RowIds : id # m.id => r.rows[id] = j.rows[id]
  BY DEF Done
<1>2. r.rows[m.id] \in {j.rows[m.id], RowAfter(t, m, j.rows[m.id])}
  BY DEF Done
<1>3. r.ok => j.ok /\ r.rows[m.id] = RowAfter(t, m, j.rows[m.id])
  BY DEF Done
<1> QED
  BY <1>1, <1>2, <1>3 DEF Done, DoneOne

\* A row is added once its parents are found.
LEMMA AdditionOutcome ==
    ASSUME Usable, NEW t \in Tables(schema), NEW j \in Executing, NEW c, NEW r \in Executing,
           NEW m \in Mods(t), m.before = None, m.now # None, j.rows[m.id] = None,
           NEW tables, ParentTables(t) \subseteq tables, t \in tables, Checks(j, tables, c),
           c.ok => ParentsFound(j.rows, t, {m}, "immediate"), DoneOne(c, t, m, r)
    PROVE  Outcome(j, r, {m.id}, tables)
<1> DEFINE row == [table |-> t, values |-> m.now]
<1>1. c.rows = j.rows /\ (c.ok => j.ok) /\ c.touched \subseteq j.touched \cup tables
  BY DEF Checks
<1>2. m.id \in RowIds /\ m.now \in AnyValues(t)
  BY DEF Mods
<1>3. row \in Row(t) /\ row # None /\ row.table = t
  BY <1>2, NoneIsNoRow DEF Row
<1>4. /\ \A id \in RowIds : id # m.id => r.rows[id] = j.rows[id]
      /\ r.rows[m.id] \in {None, row}
      /\ r.ok => r.rows[m.id] = row /\ c.ok
  BY <1>1 DEF DoneOne, RowAfter
<1> HIDE DEF row
<1>5. r.touched \subseteq j.touched \cup tables
  BY <1>1 DEF DoneOne
<1>6. \A id \in RowIds : j.rows[id] = None /\ r.rows[id] # None => id \in {m.id}
  BY <1>4
<1>7. Covers(j.rows, r.rows, tables)
  <2>1. ASSUME NEW id \in RowIds PROVE RowCovered(j.rows[id], r.rows[id], tables)
    <3>1. CASE r.rows[id] = j.rows[id]
      BY <3>1 DEF RowCovered
    <3>2. CASE r.rows[id] # j.rows[id]
      <4>1. j.rows[id] = None /\ r.rows[id] = row
        BY <1>4, <3>2
      <4> QED
        BY <1>3, <4>1 DEF RowCovered
    <3> QED
      BY <3>1, <3>2
  <2> QED
    BY <2>1 DEF Covers
<1>8. ASSUME NoneDangling(j.rows), r.ok PROVE NoneDangling(r.rows)
  <2>1. r.rows[m.id] = [table |-> t, values |-> m.now]
    BY <1>4, <1>8 DEF row
  <2>2. ParentsFound(j.rows, t, {m}, "immediate")
    BY <1>4, <1>8
  <2>3. j.rows \in RowsType /\ r.rows \in RowsType
    BY DEF Executing
  <2>4. Adds(j.rows, t, m, r.rows)
    BY <1>2, <1>4, <2>1 DEF Adds
  <2> QED
    BY <1>8, <2>2, <2>3, <2>4, InsertionKeeps
<1> QED
  BY <1>5, <1>6, <1>7, <1>8 DEF Outcome

LEMMA InsertionIsMod ==
    ASSUME Usable, NEW t \in Tables(schema), NEW id \in RowIds, NEW values \in AnyValues(t)
    PROVE  /\ Insertion(id, values) \in Mods(t) /\ Insertion(id, values).id = id
           /\ Insertion(id, values).before = None
           /\ Insertion(id, values).now = values /\ Insertion(id, values).now # None
BY NoneIsNoRow DEF Insertion, Mods

LEMMA InsertOutcome ==
    ASSUME Usable, NEW t \in Tables(schema), NEW j \in Executing, NEW id \in RowIds,
           j.rows[id] = None, NEW values \in AnyValues(t)
    PROVE  Outcome(j, Insert(j, t, {Insertion(id, values)}), {id}, InsertScope(t, FALSE))
<1> DEFINE m == Insertion(id, values)
           n == CheckNotNullable(j, t, {m})
           c == CheckForInsert(n, t, {m}, "immediate")
           r == ModifyRows(c, t, {m})
           tables == InsertScope(t, FALSE)
<1>1. m \in Mods(t) /\ m.id = id /\ m.before = None /\ m.now # None
  BY InsertionIsMod
<1>2. r = Insert(j, t, {m})
  BY DEF Insert
<1>3. Checks(j, {}, n)
  BY NotNullableChecked
<1>4. n \in Executing /\ n.rows = j.rows
  BY <1>3 DEF Checks
<1>5. /\ Checks(n, ParentsOf(ReferredKeys(t, {m}, "immediate")), c)
      /\ c.ok => ParentsFound(n.rows, t, {m}, "immediate")
  BY <1>4, CheckForInsertChecks
<1> HIDE DEF n, c, m
<1>6. Checks(j, {} \cup ParentsOf(ReferredKeys(t, {m}, "immediate")), c)
  BY <1>3, <1>5, ChecksCompose
<1>7. ParentTables(t) \subseteq tables /\ t \in tables
  BY DEF InsertScope
<1>8. Checks(j, tables, c)
  BY <1>6, <1>7, KeysLookedAt DEF Checks
<1>9. c \in Executing
  BY <1>8 DEF Checks
<1>10. r \in Executing /\ Done(c, t, {m}, r)
  <2>1. Distinct({m}) /\ IsFiniteSet({m}) /\ {m} \in SUBSET Mods(t)
    BY <1>1, FS_Singleton DEF Distinct
  <2> QED
    BY <1>9, <2>1, ModifyRowsDone
<1> HIDE DEF r, tables
<1>11. DoneOne(c, t, m, r)
  BY <1>1, <1>10, DoneOfOne
<1>12. Outcome(j, r, {m.id}, tables)
  BY <1>1, <1>4, <1>5, <1>7, <1>8, <1>10, <1>11, AdditionOutcome
<1> QED
  BY <1>1, <1>2, <1>12 DEF m, tables

\* Changes cascade only to the columns of the foreign keys that cascade.
CascadesOnly(rows, mid, t) ==
    /\ SameRows(rows, mid)
    /\ \A id \in RowIds : rows[id] # None /\ rows[id].table = t => mid[id] = rows[id]
    /\ \A id \in RowIds : rows[id] # None => \A c \in Columns(rows[id].table) :
          mid[id].values[c] # rows[id].values[c] =>
              \E fk \in ReferencingForeignKeys(t, {"cascade"}) :
                  fk.childTable = rows[id].table /\ fk.childColumn = c

\* The columns of a regular foreign key that cascades have no other.
LEMMA CascadeCovered ==
    ASSUME Usable, NEW t, NEW fk \in ReferencingForeignKeys(t, {"cascade"}), NEW tables
    PROVE  ColumnCovered(fk.childTable, fk.childColumn, tables)
<1>1. fk \in ForeignKeys(schema) /\ fk.timing = "immediate"
  BY ColumnsOfKeys DEF ReferencingForeignKeys
<1>2. ASSUME NEW other \in ForeignKeys(schema), other.timing = "deferrable",
             other.childTable = fk.childTable, other.childColumn = fk.childColumn
      PROVE  FALSE
  BY <1>1, <1>2 DEF Usable, Regular
<1>3. ASSUME NEW other \in ForeignKeys(schema),
             other.parentTable = fk.childTable, other.parentColumn = fk.childColumn
      PROVE  FALSE
  BY <1>1, <1>3 DEF Usable, Accepted, NoChain
<1> QED
  BY <1>2, <1>3 DEF ColumnCovered

\* The columns that modifications change are covered.
ChangesCovered(t, mods, tables) ==
    \A m \in mods, c \in Columns(t) : m.now[c] # m.before[c] => ColumnCovered(t, c, tables)

LEMMA ChangeOutcome ==
    ASSUME Usable, NEW t \in Tables(schema), NEW j \in Executing, NEW u \in Executing, NEW c,
           NEW r \in Executing, NEW tables, t \in tables,
           NEW mods \in SUBSET Mods(t), Changing(j.rows, t, mods),
           u.touched \subseteq j.touched \cup tables, CascadesOnly(j.rows, u.rows, t),
           u.ok => Cascaded(j.rows, u.rows, t, mods),
           Checks(u, tables, c),
           c.ok => /\ ParentsFound(u.rows, t, mods, "immediate")
                   /\ NoneRefers(u.rows, t, mods, "immediate", {"restrict"}),
           Done(c, t, mods, r), ChangesCovered(t, mods, tables)
    PROVE  Outcome(j, r, {}, tables)
<1>1. c.rows = u.rows /\ (c.ok => u.ok) /\ c.touched \subseteq j.touched \cup tables
  BY DEF Checks
<1>2. r.touched \subseteq j.touched \cup tables
  BY <1>1 DEF Done
<1>3. j.rows \in RowsType /\ u.rows \in RowsType /\ r.rows \in RowsType
  BY DEF Executing
<1>4. ASSUME NEW m \in mods
      PROVE  /\ m.id \in RowIds /\ j.rows[m.id] # None /\ j.rows[m.id].table = t
             /\ m.before = j.rows[m.id].values /\ m.now # None /\ u.rows[m.id] = j.rows[m.id]
             /\ \A row : RowAfter(t, m, row) = [table |-> t, values |-> m.now]
             /\ [table |-> t, values |-> m.now] # None
  <2>1. m.now \in AnyValues(t) /\ m.now # None
    BY NoneIsNoRow DEF Changing
  <2>2. [table |-> t, values |-> m.now] \in Row(t)
    BY <2>1 DEF Row
  <2> QED
    BY <2>1, <2>2, NoneIsNoRow DEF Changing, CascadesOnly, RowAfter
<1>5. ASSUME NEW id \in RowIds
      PROVE  RowCovered(j.rows[id], r.rows[id], tables) /\ (j.rows[id] = None => r.rows[id] = None)
  <2>1. CASE \E m \in mods : m.id = id /\ r.rows[id] # u.rows[id]
    <3>1. PICK m \in mods : m.id = id /\ r.rows[id] = [table |-> t, values |-> m.now]
      <4>1. PICK m \in mods : m.id = id /\ r.rows[id] = RowAfter(t, m, c.rows[id])
        BY <1>1, <2>1 DEF Done
      <4>2. RowAfter(t, m, c.rows[id]) = [table |-> t, values |-> m.now]
        BY <1>4
      <4> QED
        BY <4>1, <4>2
    <3>2. r.rows[id] # None /\ r.rows[id].table = t /\ r.rows[id].values = m.now
      BY <1>4, <3>1
    <3>3. j.rows[id] # None /\ j.rows[id].table = t /\ j.rows[id].values = m.before
      BY <1>4, <3>1
    <3> QED
      BY <3>2, <3>3 DEF RowCovered, ChangesCovered
  <2>2. CASE r.rows[id] = u.rows[id]
    <3>1. CASE j.rows[id] = None
      BY <2>2, <3>1 DEF CascadesOnly, SameRows, RowCovered
    <3>2. CASE j.rows[id] # None
      <4>1. r.rows[id] # None /\ r.rows[id].table = j.rows[id].table
        BY <2>2, <3>2 DEF CascadesOnly, SameRows
      <4>2. ASSUME NEW col \in Columns(j.rows[id].table), r.rows[id].values[col] # j.rows[id].values[col]
            PROVE  ColumnCovered(j.rows[id].table, col, tables)
        <5>1. PICK fk \in ReferencingForeignKeys(t, {"cascade"}) :
                 fk.childTable = j.rows[id].table /\ fk.childColumn = col
          BY <2>2, <3>2, <4>2 DEF CascadesOnly
        <5> QED
          BY <5>1, CascadeCovered
      <4> QED
        BY <3>2, <4>1, <4>2 DEF RowCovered
    <3> QED
      BY <3>1, <3>2
  <2>3. r.rows[id] = u.rows[id] \/ \E m \in mods : m.id = id
    BY <1>1 DEF Done
  <2> QED
    BY <2>1, <2>2, <2>3
<1>6. ASSUME NoneDangling(j.rows), r.ok PROVE NoneDangling(r.rows)
  <2>1. c.ok /\ \A m \in mods : r.rows[m.id] = [table |-> t, values |-> m.now]
    BY <1>4, <1>6 DEF Done
  <2>2. MadeTo(u.rows, r.rows, t, mods)
    BY <1>1, <2>1 DEF MadeTo, Done
  <2>3. Cascaded(j.rows, u.rows, t, mods)
    BY <1>1, <2>1
  <2> QED
    BY <1>3, <1>6, <2>1, <2>2, <2>3, ChangeKeeps
<1> QED
  BY <1>2, <1>5, <1>6 DEF Outcome, Covers

LEMMA OutcomeOfFewer ==
    ASSUME NEW j, NEW r, NEW fresh, NEW tables, Outcome(j, r, {}, tables)
    PROVE  Outcome(j, r, fresh, tables)
BY DEF Outcome

\* All tables next to a table cover whatever happens to its columns.
LEMMA AllCovered ==
    ASSUME Usable, NEW t, NEW c, NEW tables,
           ParentTables(t) \subseteq tables, ChildTables(t, AnyAction) \subseteq tables
    PROVE  ColumnCovered(t, c, tables)
<1>1. ASSUME NEW fk \in ForeignKeys(schema), fk.childTable = t PROVE fk.parentTable \in tables
  <2>1. fk \in ToSet(schema[t].fkSpecs)
    BY <1>1, ColumnsOfKeys
  <2> QED
    BY <2>1 DEF ParentTables
<1>2. ASSUME NEW fk \in ForeignKeys(schema), fk.parentTable = t PROVE fk.childTable \in tables
  <2>1. fk \in ReferencingForeignKeys(t, AnyAction)
    BY <1>2, ColumnsOfKeys DEF ReferencingForeignKeys
  <2> QED
    BY <2>1 DEF ChildTables
<1> QED
  BY <1>1, <1>2 DEF ColumnCovered

\* A replacement keeps the primary key, from which alone keys cascade.
LEMMA ReplacementCascades ==
    ASSUME Usable, NEW t \in Tables(schema), NEW rows \in RowsType, NEW m,
           m.id \in RowIds, rows[m.id] # None, m.before = rows[m.id].values,
           m.before # None, m.now # None, m.id \in Existing(rows, t, m.now)
    PROVE  CascadesOnly(rows, rows, t) /\ Cascaded(rows, rows, t, {m})
<1>1. SameRows(rows, rows)
  BY DEF SameRows
<1>2. ASSUME NEW id \in RowIds, rows[id] # None, NEW c PROVE ~Due(rows, t, {m}, id, c)
  <2>1. SUFFICES ASSUME NEW fk \in ReferencingForeignKeys(t, {"cascade"}), Changed(m, fk.parentColumn)
                 PROVE  FALSE
    BY DEF Due
  <2>2. fk \in ForeignKeys(schema) /\ fk.action = "cascade" /\ fk.parentTable = t
    BY DEF ReferencingForeignKeys
  <2>3. schema[t].pkName \in DOMAIN schema[t].indices
          /\ fk.parentColumn \in ToSet(schema[t].indices[schema[t].pkName])
    BY <2>2 DEF Usable, Regular
  <2>4. rows[m.id].values[fk.parentColumn] = m.now[fk.parentColumn]
    BY <2>3 DEF Existing
  <2> QED
    BY <2>1, <2>4 DEF Changed
<1> QED
  BY <1>1, <1>2 DEF CascadesOnly, Cascaded

LEMMA ReplaceOutcome ==
    ASSUME Usable, NEW t \in Tables(schema), NEW j \in Executing, NEW id \in RowIds,
           j.rows[id] = None, NEW values \in AnyValues(t)
    PROVE  Outcome(j, InsertOrReplace(j, t, Insertion(id, values)), {id}, InsertScope(t, TRUE))
<1> DEFINE m == Insertion(id, values)
           n == CheckNotNullable(j, t, {m})
           existing == Existing(j.rows, t, m.now)
           old == CHOOSE i \in existing : TRUE
           p == [id |-> old, before |-> j.rows[old].values, now |-> m.now]
           tables == InsertScope(t, TRUE)
<1>1. m \in Mods(t) /\ m.id = id /\ m.before = None /\ m.now # None /\ m.now = values
  BY InsertionIsMod
<1>2. Checks(j, {}, n)
  BY NotNullableChecked
<1>3. n \in Executing /\ n.rows = j.rows /\ (n.ok => j.ok) /\ n.touched \subseteq j.touched
  BY <1>2 DEF Checks
<1>4. ParentTables(t) \subseteq tables /\ ChildTables(t, AnyAction) \subseteq tables /\ t \in tables
  BY DEF InsertScope
<1>5. CASE existing = {}
  <2> DEFINE c == CheckForInsert(n, t, {m}, "immediate")
             r == ModifyRow(c, t, m)
  <2>1. r = InsertOrReplace(j, t, m)
    BY <1>5 DEF InsertOrReplace
  <2>2. /\ Checks(n, ParentsOf(ReferredKeys(t, {m}, "immediate")), c)
        /\ c.ok => ParentsFound(n.rows, t, {m}, "immediate")
    BY <1>3, CheckForInsertChecks
  <2> HIDE DEF c, n, m, tables
  <2>3. Checks(j, {} \cup ParentsOf(ReferredKeys(t, {m}, "immediate")), c)
    BY <1>2, <2>2, ChecksCompose
  <2>4. Checks(j, tables, c)
    BY <1>4, <2>3, KeysLookedAt DEF Checks
  <2>5. c \in Executing
    BY <2>4 DEF Checks
  <2>6. r \in Executing /\ DoneOne(c, t, m, r)
    BY <1>1, <2>5, ModifyRowDoes
  <2> HIDE DEF r
  <2>7. Outcome(j, r, {m.id}, tables)
    BY <1>1, <1>3, <1>4, <2>2, <2>4, <2>6, AdditionOutcome
  <2> QED
    BY <1>1, <2>1, <2>7 DEF m, tables
<1>6. CASE existing # {}
  <2> DEFINE c == CheckForUpdate(n, t, {p}, "immediate")
             r == ModifyRow(c, t, p)
  <2>1. r = InsertOrReplace(j, t, m)
    BY <1>6 DEF InsertOrReplace
  <2>2. old \in existing /\ old \in RowIds /\ j.rows[old] # None /\ j.rows[old].table = t
    BY <1>6 DEF Existing, IdsOf
  <2>3. j.rows \in RowsType
    BY DEF Executing
  <2>4. j.rows[old].values \in AnyValues(t) /\ j.rows[old].values # None
    BY <2>2, <2>3, RowsOf, NoneIsNoRow
  <2>5. p \in Mods(t) /\ p.id = old /\ p.before = j.rows[old].values /\ p.now = m.now
    BY <1>1, <2>2, <2>4 DEF Mods
  <2>6. p.id \in Existing(j.rows, t, p.now)
    BY <2>2, <2>5
  <2>7. /\ Checks(n, ParentsOf(ReferredKeys(t, {p}, "immediate"))
                       \cup ChildrenOf(ReferringKeys(t, {p}, "immediate", {"restrict"})), c)
        /\ c.ok => /\ ParentsFound(n.rows, t, {p}, "immediate")
                   /\ NoneRefers(n.rows, t, {p}, "immediate", {"restrict"})
    BY <1>3, CheckForUpdateChecks
  <2> HIDE DEF c, n, m, tables, p, old, existing
  <2>8. Checks(n, tables, c)
    <3>1. {"restrict"} \subseteq AnyAction
      BY DEF AnyAction
    <3> QED
      BY <1>4, <2>7, <3>1, KeysLookedAt DEF Checks
  <2>9. c \in Executing
    BY <2>8 DEF Checks
  <2>10. r \in Executing /\ DoneOne(c, t, p, r)
    BY <2>5, <2>9, ModifyRowDoes
  <2> HIDE DEF r
  <2>11. Done(c, t, {p}, r)
    BY <2>10 DEF DoneOne, Done
  <2>12. {p} \in SUBSET Mods(t) /\ Changing(j.rows, t, {p})
    BY <1>1, <2>2, <2>5 DEF Changing
  <2>13. CascadesOnly(j.rows, j.rows, t) /\ Cascaded(j.rows, j.rows, t, {p})
    BY <1>1, <2>2, <2>3, <2>4, <2>5, <2>6, ReplacementCascades
  <2>14. ChangesCovered(t, {p}, tables)
    BY <1>4, AllCovered DEF ChangesCovered
  <2>15. Outcome(j, r, {}, tables)
    BY <1>3, <1>4, <2>7, <2>8, <2>10, <2>11, <2>12, <2>13, <2>14, ChangeOutcome
  <2>16. Outcome(j, r, {m.id}, tables)
    BY <2>15, OutcomeOfFewer
  <2> QED
    BY <1>1, <2>1, <2>16 DEF m, tables
<1> QED
  BY <1>5, <1>6

-----------------------------------------------------------------------------
(* Updates that cascade *)

\* The keys that cascade, with the changes that they follow.
FoundKeys(t, mods) ==
    {l \in ReferencingForeignKeys(t, {"cascade"}) \X mods : Changed(l[2], l[1].parentColumn)}

\* A row whose key has to follow a change, and the key it is to have.
IsUpdate(rows, t, mods, u) ==
    /\ u.id \in RowIds /\ u.fk \in ReferencingForeignKeys(t, {"cascade"})
    /\ rows[u.id] # None /\ rows[u.id].table = u.fk.childTable
    /\ \E l \in FoundKeys(t, mods) : u.fk = l[1] /\ u.value = l[2].now[l[1].parentColumn]

Updates(rows, t, mods) ==
    UNION {{[id |-> id, fk |-> l[1], value |-> l[2].now[l[1].parentColumn]] :
              id \in IdsAt(rows, l[1].childTable, l[1].childColumn, l[2].before[l[1].parentColumn])} :
           l \in FoundKeys(t, mods)}

UpdateOne(u, acc) ==
    IF ~acc.ok THEN acc
    ELSE LET before == acc.rows[u.id].values
         IN ModifyRow(acc, u.fk.childTable,
                      [id |-> u.id, before |-> before, now |-> [before EXCEPT ![u.fk.childColumn] = u.value]])

LEMMA ForeignKeysFinite ==
    ASSUME Usable PROVE IsFiniteSet(ForeignKeys(schema))
<1> DEFINE Keyed == {ToSet(schema[t].fkSpecs) : t \in Tables(schema)}
           f == [t \in Tables(schema) |-> ToSet(schema[t].fkSpecs)]
<1>1. IsFiniteSet(Tables(schema))
  BY EdgesFacts DEF Usable
<1>2. Keyed = {f[t] : t \in Tables(schema)}
  OBVIOUS
<1> HIDE DEF f
<1>3. IsFiniteSet(Keyed)
  BY <1>1, <1>2, ImageFinite
<1>4. \A S \in Keyed : IsFiniteSet(S)
  BY ToSetFinite DEF Usable, Builders, IsBuilder, Shape
<1> QED
  BY <1>3, <1>4, FS_UNION DEF ForeignKeys

LEMMA UpdatesFacts ==
    ASSUME Usable, NEW t, NEW rows, NEW mods, IsFiniteSet(mods)
    PROVE  /\ \A u \in Updates(rows, t, mods) : IsUpdate(rows, t, mods, u)
           /\ IsFiniteSet(Updates(rows, t, mods))
<1> DEFINE specs == ReferencingForeignKeys(t, {"cascade"})
           Of(l, id) == [id |-> id, fk |-> l[1], value |-> l[2].now[l[1].parentColumn]]
           g == [x \in FoundKeys(t, mods) \X RowIds |-> Of(x[1], x[2])]
<1>1. ASSUME NEW u \in Updates(rows, t, mods)
      PROVE  \E l \in FoundKeys(t, mods), id \in RowIds :
                /\ u = Of(l, id)
                /\ id \in IdsAt(rows, l[1].childTable, l[1].childColumn, l[2].before[l[1].parentColumn])
  BY DEF Updates, IdsAt, IdsOf
<1>2. ASSUME NEW u \in Updates(rows, t, mods) PROVE IsUpdate(rows, t, mods, u)
  <2>1. PICK l \in FoundKeys(t, mods), id \in RowIds :
           /\ u = Of(l, id)
           /\ id \in IdsAt(rows, l[1].childTable, l[1].childColumn, l[2].before[l[1].parentColumn])
    BY <1>1
  <2>2. l[1] \in specs /\ l[2] \in mods
    BY DEF FoundKeys
  <2>3. u.id = id /\ u.fk = l[1] /\ u.value = l[2].now[l[1].parentColumn]
    BY <2>1
  <2> QED
    BY <2>1, <2>2, <2>3 DEF IsUpdate, IdsAt, IdsOf
<1>3. IsFiniteSet(FoundKeys(t, mods) \X RowIds)
  <2>1. IsFiniteSet(specs)
    BY ForeignKeysFinite, FS_Subset DEF ReferencingForeignKeys
  <2>2. IsFiniteSet(specs \X mods)
    BY <2>1, FS_Product
  <2>3. IsFiniteSet(FoundKeys(t, mods))
    BY <2>2, FS_Subset DEF FoundKeys
  <2> QED
    BY <2>3, DataAssumption, FS_Product
<1>4. Updates(rows, t, mods) \subseteq {g[x] : x \in FoundKeys(t, mods) \X RowIds}
  <2>1. ASSUME NEW u \in Updates(rows, t, mods)
        PROVE  u \in {g[x] : x \in FoundKeys(t, mods) \X RowIds}
    <3>1. PICK l \in FoundKeys(t, mods), id \in RowIds : u = Of(l, id)
      BY <1>1
    <3>2. <<l, id>> \in FoundKeys(t, mods) \X RowIds /\ g[<<l, id>>] = u
      BY <3>1
    <3> QED
      BY <3>2
  <2> QED
    BY <2>1
<1> HIDE DEF g
<1>5. IsFiniteSet({g[x] : x \in FoundKeys(t, mods) \X RowIds})
  BY <1>3, ImageFinite
<1> QED
  BY <1>2, <1>4, <1>5, FS_Subset

\* Every row whose key has to go has an update.
LEMMA DueIsUpdated ==
    ASSUME Usable, NEW t, NEW rows, NEW mods, NEW id \in RowIds, rows[id] # None, NEW c,
           Due(rows, t, mods, id, c)
    PROVE  \E u \in Updates(rows, t, mods) : u.id = id /\ u.fk.childColumn = c
<1>1. PICK fk \in ReferencingForeignKeys(t, {"cascade"}), m \in mods :
         /\ fk.childTable = rows[id].table /\ fk.childColumn = c
         /\ Changed(m, fk.parentColumn) /\ m.before[fk.parentColumn] = rows[id].values[c]
  BY DEF Due
<1> DEFINE l == <<fk, m>>
           u == [id |-> id, fk |-> l[1], value |-> l[2].now[l[1].parentColumn]]
<1>2. l \in FoundKeys(t, mods)
  BY <1>1 DEF FoundKeys
<1>3. id \in IdsAt(rows, l[1].childTable, l[1].childColumn, l[2].before[l[1].parentColumn])
  BY <1>1 DEF IdsAt, IdsOf
<1>4. u \in Updates(rows, t, mods)
  BY <1>2, <1>3 DEF Updates
<1>5. u.id = id /\ u.fk.childColumn = c
  BY <1>1
<1> QED
  BY <1>4, <1>5

\* The rows once some of the updates are done.
UpdatedBy(rows, T, new) ==
    \A id \in RowIds : rows[id] # None => \A c \in Columns(rows[id].table) :
        \/ /\ new[id].values[c] = rows[id].values[c]
           /\ \A u \in T : ~(u.id = id /\ u.fk.childColumn = c)
        \/ \E u \in T : u.id = id /\ u.fk.childColumn = c /\ new[id].values[c] = u.value

CascadeDone(j, t, mods, T, acc) ==
    /\ acc.touched \subseteq j.touched \cup {l[1].childTable : l \in FoundKeys(t, mods)}
    /\ CascadesOnly(j.rows, acc.rows, t)
    /\ acc.ok => j.ok /\ UpdatedBy(j.rows, T, acc.rows)

\* An update of a row that has been updated, perhaps.
LEMMA UpdateOneDoes ==
    ASSUME Usable, NEW t \in Tables(schema), NEW rows \in RowsType, NEW mods \in SUBSET Mods(t),
           Changing(rows, t, mods), NEW u, IsUpdate(rows, t, mods, u),
           NEW acc \in Executing, acc.rows[u.id] # None, acc.rows[u.id].table = u.fk.childTable, acc.ok
    PROVE  /\ UpdateOne(u, acc) \in Executing /\ u.fk.childTable # t
           /\ UpdateOne(u, acc).touched \subseteq acc.touched \cup {u.fk.childTable}
           /\ \A id \in RowIds : id # u.id => UpdateOne(u, acc).rows[id] = acc.rows[id]
           /\ UpdateOne(u, acc).rows[u.id] # None
           /\ UpdateOne(u, acc).rows[u.id].table = u.fk.childTable
           /\ \A c \in Columns(u.fk.childTable) : c # u.fk.childColumn =>
                 UpdateOne(u, acc).rows[u.id].values[c] = acc.rows[u.id].values[c]
           /\ UpdateOne(u, acc).ok => UpdateOne(u, acc).rows[u.id].values[u.fk.childColumn] = u.value
<1> DEFINE ct == u.fk.childTable
           cc == u.fk.childColumn
           before == acc.rows[u.id].values
           now == [before EXCEPT ![cc] = u.value]
           m == [id |-> u.id, before |-> before, now |-> now]
           r == UpdateOne(u, acc)
<1>1. /\ u.fk \in ForeignKeys(schema) /\ u.fk.action = "cascade" /\ u.fk.parentTable = t /\ u.id \in RowIds
  BY DEF IsUpdate, ReferencingForeignKeys
<1>2. /\ ct \in Tables(schema) /\ cc \in Columns(ct) /\ u.fk.parentColumn \in Columns(t)
      /\ u.fk.timing = "immediate"
  BY <1>1, ColumnsOfKeys
<1>3. ct # t
  BY <1>1, <1>2 DEF Usable, Regular
<1>4. before \in AnyValues(ct)
  BY <1>1, RowsOf DEF Executing
<1>5. u.value \in Keys \cup {Null}
  <2>1. PICK n \in mods : u.value = n.now[u.fk.parentColumn]
    BY DEF IsUpdate, FoundKeys
  <2>2. n.now \in AnyValues(t)
    BY DEF Changing
  <2> QED
    BY <1>2, <2>1, <2>2 DEF AnyValues
<1>6. /\ now \in AnyValues(ct) /\ now[cc] = u.value
      /\ \A c \in Columns(ct) : c # cc => now[c] = before[c]
  BY <1>2, <1>4, <1>5 DEF AnyValues
<1>7. r = ModifyRow(acc, ct, m)
  BY DEF UpdateOne
<1>8. m.id = u.id /\ m.now = now
  OBVIOUS
<1> HIDE DEF now, r
<1>9. m \in Mods(ct)
  BY <1>1, <1>4, <1>6 DEF Mods
<1>10. now # None /\ [table |-> ct, values |-> now] # None
  <2>1. [table |-> ct, values |-> now] \in Row(ct)
    BY <1>6 DEF Row
  <2> QED
    BY <1>2, <1>6, <2>1, NoneIsNoRow
<1>11. RowAfter(ct, m, acc.rows[m.id]) = [table |-> ct, values |-> now]
  BY <1>8, <1>10 DEF RowAfter
<1> HIDE DEF m
<1>12. r \in Executing /\ DoneOne(acc, ct, m, r)
  BY <1>2, <1>7, <1>9, ModifyRowDoes
<1>13. r.rows[u.id] \in {acc.rows[u.id], [table |-> ct, values |-> now]}
  BY <1>8, <1>11, <1>12 DEF DoneOne
<1>14. r.ok => r.rows[u.id] = [table |-> ct, values |-> now]
  BY <1>8, <1>11, <1>12 DEF DoneOne
<1>15. r.touched \subseteq acc.touched \cup {ct} /\ \A id \in RowIds : id # u.id => r.rows[id] = acc.rows[id]
  BY <1>8, <1>12 DEF DoneOne
<1>16. r.rows[u.id] # None /\ r.rows[u.id].table = ct
  BY <1>10, <1>13
<1>17. \A c \in Columns(ct) : c # cc => r.rows[u.id].values[c] = acc.rows[u.id].values[c]
  BY <1>6, <1>13
<1>18. r.ok => r.rows[u.id].values[cc] = u.value
  BY <1>6, <1>14
<1> QED
  BY <1>3, <1>12, <1>15, <1>16, <1>17, <1>18 DEF r

\* The rows while changes cascade.
Cascading(j, t) == {acc \in Executing : CascadesOnly(j.rows, acc.rows, t)}

LEMMA UpdateOneKeeps ==
    ASSUME Usable, NEW t \in Tables(schema), NEW j \in Executing, NEW mods \in SUBSET Mods(t),
           Changing(j.rows, t, mods), NEW u, IsUpdate(j.rows, t, mods, u), NEW acc \in Cascading(j, t)
    PROVE  /\ UpdateOne(u, acc) \in Cascading(j, t)
           /\ \A T : CascadeDone(j, t, mods, T, acc) => CascadeDone(j, t, mods, T \cup {u}, UpdateOne(u, acc))
<1> DEFINE r == UpdateOne(u, acc)
           ct == u.fk.childTable
           cc == u.fk.childColumn
<1>1. /\ u.id \in RowIds /\ u.fk \in ReferencingForeignKeys(t, {"cascade"})
      /\ j.rows[u.id] # None /\ j.rows[u.id].table = ct
  BY DEF IsUpdate
<1>2. /\ acc \in Executing /\ j.rows \in RowsType /\ CascadesOnly(j.rows, acc.rows, t)
      /\ acc.rows[u.id] # None /\ acc.rows[u.id].table = ct
  BY <1>1 DEF Cascading, CascadesOnly, SameRows, Executing
<1>3. CASE ~acc.ok
  <2>1. r = acc
    BY <1>3 DEF UpdateOne
  <2> QED
    BY <1>3, <2>1 DEF CascadeDone
<1>4. CASE acc.ok
  <2>1. /\ r \in Executing /\ ct # t
        /\ r.touched \subseteq acc.touched \cup {ct}
        /\ \A id \in RowIds : id # u.id => r.rows[id] = acc.rows[id]
        /\ r.rows[u.id] # None /\ r.rows[u.id].table = ct
        /\ \A c \in Columns(ct) : c # cc => r.rows[u.id].values[c] = acc.rows[u.id].values[c]
        /\ r.ok => r.rows[u.id].values[cc] = u.value
    BY <1>2, <1>4, UpdateOneDoes
  <2> HIDE DEF r
  <2>2. SameRows(j.rows, r.rows)
    BY <1>1, <1>2, <2>1 DEF CascadesOnly, SameRows
  <2>3. ASSUME NEW id \in RowIds, j.rows[id] # None, j.rows[id].table = t PROVE r.rows[id] = j.rows[id]
    BY <1>1, <1>2, <2>1, <2>3 DEF CascadesOnly
  <2>4. ASSUME NEW id \in RowIds, j.rows[id] # None, NEW c \in Columns(j.rows[id].table),
               r.rows[id].values[c] # j.rows[id].values[c]
        PROVE  \E fk \in ReferencingForeignKeys(t, {"cascade"}) :
                   fk.childTable = j.rows[id].table /\ fk.childColumn = c
    <3>1. CASE id = u.id /\ c = cc
      BY <1>1, <3>1
    <3>2. CASE ~(id = u.id /\ c = cc)
      <4>1. r.rows[id].values[c] = acc.rows[id].values[c]
        BY <1>1, <2>1, <3>2
      <4> QED
        BY <1>2, <2>4, <4>1 DEF CascadesOnly
    <3> QED
      BY <3>1, <3>2
  <2>5. CascadesOnly(j.rows, r.rows, t)
    BY <2>2, <2>3, <2>4 DEF CascadesOnly
  <2>6. ASSUME NEW T, CascadeDone(j, t, mods, T, acc) PROVE CascadeDone(j, t, mods, T \cup {u}, r)
    <3>1. r.touched \subseteq j.touched \cup {l[1].childTable : l \in FoundKeys(t, mods)}
      BY <2>1, <2>6 DEF CascadeDone, IsUpdate
    <3>2. j.ok /\ UpdatedBy(j.rows, T, acc.rows)
      BY <1>4, <2>6 DEF CascadeDone
    <3>3. ASSUME r.ok PROVE UpdatedBy(j.rows, T \cup {u}, r.rows)
      <4>1. ASSUME NEW id \in RowIds, j.rows[id] # None, NEW c \in Columns(j.rows[id].table)
            PROVE  \/ /\ r.rows[id].values[c] = j.rows[id].values[c]
                      /\ \A v \in T \cup {u} : ~(v.id = id /\ v.fk.childColumn = c)
                   \/ \E v \in T \cup {u} :
                        v.id = id /\ v.fk.childColumn = c /\ r.rows[id].values[c] = v.value
        <5>1. CASE id = u.id /\ c = cc
          BY <2>1, <3>3, <5>1
        <5>2. CASE ~(id = u.id /\ c = cc)
          <6>1. r.rows[id].values[c] = acc.rows[id].values[c]
            BY <1>1, <2>1, <4>1, <5>2
          <6>2. \/ /\ acc.rows[id].values[c] = j.rows[id].values[c]
                   /\ \A v \in T : ~(v.id = id /\ v.fk.childColumn = c)
                \/ \E v \in T : v.id = id /\ v.fk.childColumn = c /\ acc.rows[id].values[c] = v.value
            BY <3>2, <4>1 DEF UpdatedBy
          <6> QED
            BY <5>2, <6>1, <6>2
        <5> QED
          BY <5>1, <5>2
      <4> QED
        BY <4>1 DEF UpdatedBy
    <3> QED
      BY <2>5, <3>1, <3>2, <3>3 DEF CascadeDone
  <2>7. r \in Cascading(j, t)
    BY <2>1, <2>5 DEF Cascading
  <2> QED
    BY <2>6, <2>7 DEF r
<1> QED
  BY <1>3, <1>4

LEMMA UpdatesDone ==
    ASSUME Usable, NEW t \in Tables(schema), NEW j \in Executing, NEW mods \in SUBSET Mods(t),
           IsFiniteSet(mods), Changing(j.rows, t, mods)
    PROVE  /\ UpdateByCascade(j, t, mods) \in Cascading(j, t)
           /\ CascadeDone(j, t, mods, Updates(j.rows, t, mods), UpdateByCascade(j, t, mods))
<1> DEFINE S == Updates(j.rows, t, mods)
           start == Touch(j, {l[1].childTable : l \in FoundKeys(t, mods)})
<1> DEFINE pick == [T \in SUBSET S |-> (CHOOSE x \in T : TRUE)]
           next == [v \in S \X Cascading(j, t) |-> UpdateOne(v[1], v[2])]
           P(iter) == iter = [T \in SUBSET S |->
                         IF T = {} THEN start
                         ELSE UpdateOne((CHOOSE x \in T : TRUE), iter[T \ {(CHOOSE x \in T : TRUE)}])]
           it == CHOOSE iter : P(iter)
<1>1. UpdateByCascade(j, t, mods) = it[S]
  BY DEF UpdateByCascade, FoldSet, MapThenFoldSet, UpdateOne, Updates, FoundKeys
<1>2. IsFiniteSet(S)
  BY UpdatesFacts
<1>3. \A T \in SUBSET S : pick[T] = (CHOOSE x \in T : TRUE) /\ (T # {} => pick[T] \in T)
  OBVIOUS
<1>4. \A x \in S, a \in Cascading(j, t) : UpdateOne(x, a) \in Cascading(j, t)
  BY UpdatesFacts, UpdateOneKeeps
<1>5. \A x \in S, a \in Cascading(j, t) : next[<<x, a>>] = UpdateOne(x, a)
  OBVIOUS
<1>6. start \in Cascading(j, t) /\ CascadeDone(j, t, mods, {}, start)
  <2>1. {l[1].childTable : l \in FoundKeys(t, mods)} \subseteq TableNames
    BY KeysOfSchema DEF FoundKeys, ReferencingForeignKeys
  <2>2. /\ start \in Executing /\ start.rows = j.rows /\ start.ok = j.ok
        /\ start.touched = j.touched \cup {l[1].childTable : l \in FoundKeys(t, mods)}
    BY <2>1 DEF Touch, Executing
  <2> HIDE DEF start
  <2>3. CascadesOnly(j.rows, j.rows, t) /\ UpdatedBy(j.rows, {}, j.rows)
    BY DEF CascadesOnly, SameRows, UpdatedBy
  <2> QED
    BY <2>2, <2>3 DEF Cascading, CascadeDone
<1>7. PICK f : IsLoop(f, S, Cascading(j, t), start, pick, next)
  <2> HIDE DEF S, pick, next
  <2>1. Steps(S, Cascading(j, t), start, pick, next)
    BY <1>2, <1>3, <1>4, <1>5, <1>6 DEF Steps
  <2> QED
    BY <2>1, SetLoop
<1>8. P(f)
  <2>1. ASSUME NEW T \in SUBSET S
        PROVE  f[T] = IF T = {} THEN start
                      ELSE UpdateOne((CHOOSE x \in T : TRUE), f[T \ {(CHOOSE x \in T : TRUE)}])
    <3> HIDE DEF pick, next
    <3>1. CASE T = {}
      BY <1>7, <3>1 DEF IsLoop
    <3>2. CASE T # {}
      <4>1. pick[T] \in S /\ T \ {pick[T]} \in SUBSET S /\ f[T \ {pick[T]}] \in Cascading(j, t)
        BY <1>3, <1>7, <3>2 DEF IsLoop
      <4>2. f[T] = next[<<pick[T], f[T \ {pick[T]}]>>]
        BY <1>7, <3>2 DEF IsLoop
      <4>3. f[T] = UpdateOne(pick[T], f[T \ {pick[T]}])
        BY <1>5, <4>1, <4>2
      <4> QED
        BY <1>3, <3>2, <4>3
    <3> QED
      BY <3>1, <3>2
  <2>2. f = [T \in SUBSET S |-> f[T]]
    BY <1>7 DEF IsLoop
  <2> QED
    BY <2>1, <2>2
<1>9. P(it)
  <2> HIDE DEF P
  <2> QED
    BY <1>8
<1>10. \A T \in SUBSET S : it[T] = IF T = {} THEN start ELSE UpdateOne(pick[T], it[T \ {pick[T]}])
  <2>1. it = [T \in SUBSET S |->
                IF T = {} THEN start
                ELSE UpdateOne((CHOOSE x \in T : TRUE), it[T \ {(CHOOSE x \in T : TRUE)}])]
    BY <1>9
  <2> HIDE DEF it, P
  <2> QED
    BY <2>1
<1> DEFINE G == {T \in SUBSET S : it[T] \in Cascading(j, t) /\ CascadeDone(j, t, mods, T, it[T])}
<1> HIDE DEF pick, next, P, it
<1>11. SUBSET S \subseteq G
  <2>1. {} \in G
    <3>1. {} \in SUBSET S /\ it[{}] = start
      BY <1>10
    <3> QED
      BY <1>6, <3>1
  <2>2. ASSUME NEW T \in SUBSET S, T # {}, T \ {pick[T]} \in G PROVE T \in G
    <3> DEFINE Rest == T \ {pick[T]}
    <3>1. pick[T] \in T /\ pick[T] \in S /\ Rest \in SUBSET S /\ it[Rest] \in Cascading(j, t) /\ CascadeDone(j, t, mods, Rest, it[Rest])
      BY <1>3, <2>2
    <3>2. it[T] = UpdateOne(pick[T], it[Rest])
      BY <1>10, <2>2
    <3>3. T = Rest \cup {pick[T]} /\ pick[T] \notin Rest
      BY <3>1
    <3>4. it[T] \in Cascading(j, t)
      BY <1>4, <3>1, <3>2
    <3> HIDE DEF Rest
    <3>5. CascadeDone(j, t, mods, T, it[T])
      <4>1. IsUpdate(j.rows, t, mods, pick[T])
        BY <3>1, UpdatesFacts
      <4> QED
        BY <3>1, <3>2, <3>3, <4>1, UpdateOneKeeps
    <3> QED
      BY <3>4, <3>5
  <2>3. Inductive(S, pick, G)
    <3> HIDE DEF G
    <3>1. \A T \in SUBSET S : T # {} /\ T \ {pick[T]} \in G => T \in G
      BY <2>2
    <3> QED
      BY <1>2, <1>3, <2>1, <3>1 DEF Inductive
  <2> HIDE DEF G
  <2> QED
    BY <2>3, SubsetInduction
<1>12. UpdateByCascade(j, t, mods) \in Cascading(j, t) /\ CascadeDone(j, t, mods, S, UpdateByCascade(j, t, mods))
  BY <1>1, <1>11
<1> QED
  BY <1>12

LEMMA UpdatesCascade ==
    ASSUME Usable, NEW t \in Tables(schema), NEW rows \in RowsType, NEW mods, IsFiniteSet(mods),
           NEW new, CascadesOnly(rows, new, t), UpdatedBy(rows, Updates(rows, t, mods), new)
    PROVE  Cascaded(rows, new, t, mods)
<1>1. ASSUME NEW id \in RowIds, rows[id] # None, NEW c \in Columns(rows[id].table)
      PROVE  \/ new[id].values[c] = rows[id].values[c] /\ ~Due(rows, t, mods, id, c)
             \/ Receives(rows, t, mods, id, c, new[id].values[c])
  <2>1. CASE /\ new[id].values[c] = rows[id].values[c]
             /\ \A u \in Updates(rows, t, mods) : ~(u.id = id /\ u.fk.childColumn = c)
    BY <1>1, <2>1, DueIsUpdated
  <2>2. ASSUME NEW u \in Updates(rows, t, mods), u.id = id, u.fk.childColumn = c,
               new[id].values[c] = u.value
        PROVE  Receives(rows, t, mods, id, c, new[id].values[c])
    <3>1. IsUpdate(rows, t, mods, u)
      BY UpdatesFacts
    <3>2. u.fk \in ReferencingForeignKeys(t, {"cascade"}) /\ rows[id].table = u.fk.childTable
      BY <2>2, <3>1 DEF IsUpdate
    <3>3. PICK m \in mods : u.value = m.now[u.fk.parentColumn]
      BY <3>1 DEF IsUpdate, FoundKeys
    <3> QED
      BY <2>2, <3>2, <3>3 DEF Receives
  <2> QED
    BY <1>1, <2>1, <2>2 DEF UpdatedBy
<1> QED
  BY <1>1 DEF Cascaded, CascadesOnly

\* Modifications of some columns only.
OfColumns(t, mods, columns) ==
    \A m \in mods, c \in Columns(t) : c \notin columns => m.now[c] = m.before[c]

\* Of regular keys, each is the last on its column.
LEMMA ParentsByColumn ==
    ASSUME Usable, NEW t \in Tables(schema), NEW fk \in ToSet(schema[t].fkSpecs), NEW columns,
           fk.childColumn \in columns
    PROVE  fk.parentTable \in ParentTablesByColumns(t, columns)
<1> DEFINE specs == schema[t].fkSpecs
           T == {i \in DOMAIN specs : specs[i] = fk}
           last == Max(T)
<1>1. specs \in Seq(FkSpecs(t))
  BY DEF Usable, Builders, IsBuilder, Shape
<1>2. T # {}
  BY DEF ToSet
<1> HIDE DEF specs
<1>3. DOMAIN specs = 1 .. Len(specs) /\ Len(specs) \in Nat
  BY <1>1
<1>4. last \in T /\ \A i \in T : i <= last
  <2>1. T \in SUBSET (1 .. Len(specs))
    BY <1>3
  <2> HIDE DEF T
  <2> QED
    BY <1>2, <1>3, <2>1, LastPlace
<1>5. ASSUME NEW k \in DOMAIN specs, specs[k].childColumn = fk.childColumn PROVE k <= last
  <2>1. specs[k] \in ToSet(specs)
    BY DEF ToSet
  <2>2. specs[k] \in ForeignKeys(schema) /\ specs[k].childTable = t /\ fk \in ForeignKeys(schema)
          /\ fk.childTable = t
    BY <2>1, KeysOfSchema DEF specs
  <2>3. specs[k] = fk
    BY <1>5, <2>2 DEF Usable, Regular
  <2> QED
    BY <1>4, <2>3
<1>6. last \in DOMAIN specs /\ specs[last] = fk
  BY <1>4
<1> HIDE DEF T, last
<1> QED
  BY <1>5, <1>6 DEF ParentTablesByColumns, specs

LEMMA ColumnsLookedAt ==
    ASSUME Usable, NEW t \in Tables(schema), NEW rows \in RowsType, NEW mods,
           Changing(rows, t, mods), NEW columns, OfColumns(t, mods, columns), NEW timing
    PROVE  /\ {l[1].childTable : l \in FoundKeys(t, mods)} \subseteq ChildTablesByColumns(t, columns)
           /\ ParentsOf(ReferredKeys(t, mods, timing)) \subseteq ParentTablesByColumns(t, columns)
           /\ ChildrenOf(ReferringKeys(t, mods, timing, {"restrict"})) \subseteq ChildTablesByColumns(t, columns)
           /\ ChangesCovered(t, mods, UpdateScope(t, columns))
<1>1. ASSUME NEW m \in mods, NEW c \in Columns(t), Changed(m, c) PROVE c \in columns
  <2>1. m.now \in AnyValues(t) /\ m.before \in AnyValues(t)
    BY RowsOf DEF Changing
  <2>2. m.now[c] # m.before[c]
    BY <1>1, <2>1, NoneIsNoRow DEF Changed
  <2> QED
    BY <2>2 DEF OfColumns
<1>2. ASSUME NEW fk \in ForeignKeys(schema), fk.parentTable = t, fk.parentColumn \in columns
      PROVE  fk.childTable \in ChildTablesByColumns(t, columns)
  BY <1>2 DEF ChildTablesByColumns
<1>3. {l[1].childTable : l \in FoundKeys(t, mods)} \subseteq ChildTablesByColumns(t, columns)
  <2>1. ASSUME NEW l \in FoundKeys(t, mods) PROVE l[1].childTable \in ChildTablesByColumns(t, columns)
    <3>1. l[1] \in ForeignKeys(schema) /\ l[1].parentTable = t /\ l[2] \in mods
            /\ Changed(l[2], l[1].parentColumn)
      BY DEF FoundKeys, ReferencingForeignKeys
    <3>2. l[1].parentColumn \in Columns(t)
      BY <3>1, ColumnsOfKeys
    <3> QED
      BY <1>1, <1>2, <3>1, <3>2
  <2> QED
    BY <2>1
<1>4. ParentsOf(ReferredKeys(t, mods, timing)) \subseteq ParentTablesByColumns(t, columns)
  <2>1. ASSUME NEW fk \in ReferredKeys(t, mods, timing)
        PROVE  fk.parentTable \in ParentTablesByColumns(t, columns)
    <3>1. fk \in ToSet(schema[t].fkSpecs) /\ fk.childColumn \in Columns(t)
      BY KeysOfSchema, ColumnsOfKeys DEF ReferredKeys
    <3>2. fk.childColumn \in columns
      BY <1>1, <3>1 DEF ReferredKeys
    <3> QED
      BY <3>1, <3>2, ParentsByColumn
  <2> QED
    BY <2>1 DEF ParentsOf
<1>5. ChildrenOf(ReferringKeys(t, mods, timing, {"restrict"})) \subseteq ChildTablesByColumns(t, columns)
  <2>1. ASSUME NEW fk \in ReferringKeys(t, mods, timing, {"restrict"})
        PROVE  fk.childTable \in ChildTablesByColumns(t, columns)
    <3>1. fk \in ForeignKeys(schema) /\ fk.parentTable = t
      BY DEF ReferringKeys, ReferencingForeignKeys
    <3>2. fk.parentColumn \in Columns(t)
      BY <3>1, ColumnsOfKeys
    <3>3. fk.parentColumn \in columns
      BY <1>1, <3>2 DEF ReferringKeys
    <3> QED
      BY <1>2, <3>1, <3>3
  <2> QED
    BY <2>1 DEF ChildrenOf
<1>6. ChangesCovered(t, mods, UpdateScope(t, columns))
  <2>1. ASSUME NEW c \in Columns(t), c \in columns, NEW fk \in ForeignKeys(schema)
        PROVE  /\ fk.childTable = t /\ fk.childColumn = c => fk.parentTable \in UpdateScope(t, columns)
               /\ fk.parentTable = t /\ fk.parentColumn = c => fk.childTable \in UpdateScope(t, columns)
    BY <1>2, <2>1, ParentsByColumn, ColumnsOfKeys DEF UpdateScope
  <2> QED
    BY <2>1 DEF ChangesCovered, ColumnCovered, OfColumns
<1> QED
  BY <1>3, <1>4, <1>5, <1>6

LEMMA OutcomeOfNothing ==
    ASSUME NEW j, NEW r, Checks(j, {}, r), ~r.ok, NEW tables PROVE Outcome(j, r, {}, tables)
BY DEF Checks, Outcome, Covers, RowCovered

LEMMA UpdateOutcome ==
    ASSUME Usable, NEW t \in Tables(schema), NEW j \in Executing, NEW mods \in SUBSET Mods(t),
           Distinct(mods), IsFiniteSet(mods), Changing(j.rows, t, mods),
           NEW columns, OfColumns(t, mods, columns)
    PROVE  Outcome(j, Update(j, t, mods), {}, UpdateScope(t, columns))
<1> DEFINE n == CheckNotNullable(j, t, mods)
           u == UpdateByCascade(n, t, mods)
           c == CheckForUpdate(u, t, mods, "immediate")
           r == ModifyRows(c, t, mods)
           tables == UpdateScope(t, columns)
<1>1. Checks(j, {}, n)
  BY NotNullableChecked
<1>2. n \in Executing /\ n.rows = j.rows /\ (n.ok => j.ok) /\ n.touched \subseteq j.touched
  BY <1>1 DEF Checks
<1>3. Update(j, t, mods) = IF ~n.ok THEN n ELSE r
  BY DEF Update
<1> HIDE DEF n
<1>4. Outcome(j, n, {}, tables) \/ n.ok
  BY <1>1, OutcomeOfNothing
<1>5. u \in Cascading(n, t) /\ CascadeDone(n, t, mods, Updates(n.rows, t, mods), u)
  BY <1>2, UpdatesDone
<1> HIDE DEF u
<1>6. u \in Executing /\ CascadesOnly(j.rows, u.rows, t)
  BY <1>2, <1>5 DEF Cascading
<1>7. u.ok => Cascaded(j.rows, u.rows, t, mods)
  <2>1. j.rows \in RowsType
    BY DEF Executing
  <2>2. u.ok => UpdatedBy(j.rows, Updates(j.rows, t, mods), u.rows)
    BY <1>2, <1>5 DEF CascadeDone
  <2> QED
    BY <1>6, <2>1, <2>2, UpdatesCascade
<1>8. /\ {l[1].childTable : l \in FoundKeys(t, mods)} \subseteq ChildTablesByColumns(t, columns)
      /\ ParentsOf(ReferredKeys(t, mods, "immediate")) \subseteq ParentTablesByColumns(t, columns)
      /\ ChildrenOf(ReferringKeys(t, mods, "immediate", {"restrict"})) \subseteq ChildTablesByColumns(t, columns)
      /\ ChangesCovered(t, mods, tables)
  BY ColumnsLookedAt DEF Executing
<1>9. u.touched \subseteq j.touched \cup tables /\ t \in tables
  BY <1>2, <1>5, <1>8 DEF CascadeDone, UpdateScope
<1>10. /\ Checks(u, ParentsOf(ReferredKeys(t, mods, "immediate"))
                      \cup ChildrenOf(ReferringKeys(t, mods, "immediate", {"restrict"})), c)
       /\ c.ok => /\ ParentsFound(u.rows, t, mods, "immediate")
                  /\ NoneRefers(u.rows, t, mods, "immediate", {"restrict"})
  BY <1>6, CheckForUpdateChecks
<1> HIDE DEF c
<1>11. Checks(u, tables, c)
  BY <1>8, <1>10 DEF Checks, UpdateScope
<1>12. c \in Executing
  BY <1>11 DEF Checks
<1>13. r \in Executing /\ Done(c, t, mods, r)
  BY <1>12, ModifyRowsDone
<1> HIDE DEF r, tables
<1>14. Outcome(j, r, {}, tables)
  BY <1>6, <1>7, <1>8, <1>9, <1>10, <1>11, <1>13, ChangeOutcome
<1> QED
  BY <1>3, <1>4, <1>14 DEF tables

-----------------------------------------------------------------------------
(* Deletions *)

\* Rows may be removed, none is added or changed.
Losing(j, tables, r) ==
    Outcome(j, r, {}, tables) /\ \A id \in RowIds : r.rows[id] \in {j.rows[id], None}

\* Modifications that remove rows of a table, some of which are gone already.
Removing(rows, t, mods) ==
    \A m \in mods : /\ m.now = None
                    /\ rows[m.id] # None => rows[m.id].table = t /\ m.before = rows[m.id].values

LEMMA RemovalOutcome ==
    ASSUME Usable, NEW t \in Tables(schema), NEW j \in Executing, NEW tables,
           t \in tables, ChildTables(t, AnyAction) \subseteq tables,
           NEW acc, Losing(j, tables, acc), NEW mods \in SUBSET Mods(t),
           Distinct(mods), IsFiniteSet(mods), Removing(acc.rows, t, mods)
    PROVE  Losing(j, tables, ModifyRows(CheckForDelete(acc, t, mods, "immediate"), t, mods))
<1> DEFINE c == CheckForDelete(acc, t, mods, "immediate")
           r == ModifyRows(c, t, mods)
<1>1. acc \in Executing /\ acc.touched \subseteq j.touched \cup tables
  BY DEF Losing, Outcome
<1>2. /\ Checks(acc, ChildrenOf(ReferringKeys(t, mods, "immediate", AnyAction)), c)
      /\ c.ok => NoneRefers(acc.rows, t, mods, "immediate", AnyAction)
  BY <1>1, CheckForDeleteChecks
<1> HIDE DEF c
<1>3. c \in Executing /\ c.rows = acc.rows /\ (c.ok => acc.ok) /\ c.touched \subseteq acc.touched \cup tables
  BY <1>2, KeysLookedAt DEF Checks
<1>4. r \in Executing /\ Done(c, t, mods, r)
  BY <1>3, ModifyRowsDone
<1> HIDE DEF r
<1>5. r.touched \subseteq j.touched \cup tables
  BY <1>1, <1>3, <1>4 DEF Done
<1>6. acc.rows \in RowsType /\ r.rows \in RowsType
  BY <1>1, <1>4 DEF Executing
<1>7. ASSUME NEW id \in RowIds
      PROVE  \/ r.rows[id] = acc.rows[id]
             \/ r.rows[id] = None /\ \E m \in mods : m.id = id /\ Removes(acc.rows, t, m)
  <2>1. CASE r.rows[id] # acc.rows[id]
    <3>1. PICK m \in mods : m.id = id /\ r.rows[id] = RowAfter(t, m, acc.rows[id])
      BY <1>3, <1>4, <2>1 DEF Done
    <3>2. r.rows[id] = None /\ acc.rows[id] # None
      BY <2>1, <3>1 DEF Removing, RowAfter
    <3>3. Removes(acc.rows, t, m)
      BY <3>1, <3>2 DEF Removing, Removes
    <3> QED
      BY <3>1, <3>2, <3>3
  <2> QED
    BY <2>1
<1>8. \A id \in RowIds : r.rows[id] \in {j.rows[id], None}
  BY <1>7 DEF Losing
<1>9. ASSUME NEW id \in RowIds PROVE RowCovered(j.rows[id], r.rows[id], tables)
  <2>1. CASE r.rows[id] = acc.rows[id]
    BY <2>1 DEF Losing, Outcome, Covers
  <2>2. CASE r.rows[id] # acc.rows[id]
    <3>1. r.rows[id] = None /\ acc.rows[id] # None /\ acc.rows[id].table = t
      BY <1>7, <2>2 DEF Removes
    <3>2. j.rows[id] = acc.rows[id]
      BY <3>1 DEF Losing
    <3> QED
      BY <3>1, <3>2 DEF RowCovered
  <2> QED
    BY <2>1, <2>2
<1>10. ASSUME NoneDangling(j.rows), r.ok PROVE NoneDangling(r.rows)
  <2>1. c.ok
    BY <1>4, <1>10 DEF Done
  <2>2. NoneDangling(acc.rows)
    BY <1>3, <1>10, <2>1 DEF Losing, Outcome
  <2>3. NoneRefers(acc.rows, t, mods, "immediate", AnyAction)
    BY <1>2, <2>1
  <2> QED
    BY <1>6, <1>7, <2>2, <2>3, RemovalKeeps
<1>11. \A id \in RowIds : j.rows[id] = None => r.rows[id] = None
  BY <1>8
<1>12. Losing(j, tables, r)
  BY <1>4, <1>5, <1>8, <1>9, <1>10, <1>11 DEF Losing, Outcome, Covers
<1> QED
  BY <1>12 DEF r, c

LEMMA DeletionsFacts ==
    ASSUME Usable, NEW t \in Tables(schema), NEW rows \in RowsType, NEW ids \in SUBSET RowIds,
           \A id \in ids : rows[id] # None => rows[id].table = t
    PROVE  /\ Deletions(rows, ids) \in SUBSET Mods(t) /\ Distinct(Deletions(rows, ids))
           /\ IsFiniteSet(Deletions(rows, ids))
           /\ \A m \in Deletions(rows, ids) :
                m.id \in ids /\ m.now = None /\ (rows[m.id] # None => m.before = rows[m.id].values)
<1> DEFINE f == [id \in ids |-> [id |-> id, before |-> ValuesOf(rows[id]), now |-> None]]
<1>1. Deletions(rows, ids) = {f[id] : id \in ids}
  BY DEF Deletions
<1>2. \A m \in Deletions(rows, ids) :
         m.id \in ids /\ m = [id |-> m.id, before |-> ValuesOf(rows[m.id]), now |-> None]
  BY DEF Deletions
<1> HIDE DEF f
<1>3. IsFiniteSet(Deletions(rows, ids))
  <2>1. IsFiniteSet(ids)
    BY DataAssumption, FS_Subset
  <2> QED
    BY <1>1, <2>1, ImageFinite
<1>4. ASSUME NEW m \in Deletions(rows, ids) PROVE m \in Mods(t)
  <2>1. m.id \in ids /\ m = [id |-> m.id, before |-> ValuesOf(rows[m.id]), now |-> None]
    BY <1>2
  <2>2. ValuesOf(rows[m.id]) \in {None} \cup AnyValues(t)
    BY <2>1, RowsOf DEF ValuesOf
  <2> QED
    BY <2>1, <2>2 DEF Mods
<1>5. Distinct(Deletions(rows, ids))
  BY <1>2 DEF Distinct
<1>6. \A m \in Deletions(rows, ids) : rows[m.id] # None => m.before = rows[m.id].values
  BY <1>2 DEF ValuesOf
<1> QED
  BY <1>2, <1>3, <1>4, <1>5, <1>6

\* The tables that a deletion reaches.
LEMMA ReachFacts ==
    ASSUME Usable, NEW t \in Tables(schema)
    PROVE  /\ t \in CascadeReach(t) /\ CascadeReach(t) \subseteq Tables(schema)
           /\ \A v \in CascadeReach(t) :
                /\ ChildTables(v, {"cascade"}) \subseteq CascadeReach(t)
                /\ ChildTables(v, AnyAction) \subseteq DeleteScope(t)
                /\ v \in DeleteScope(t)
<1> DEFINE Closed(S) == t \in S /\ \A v \in S : ChildTables(v, {"cascade"}) \subseteq S
           Reach == CascadeReach(t)
<1>1. Reach = {u \in TableNames : \A S \in SUBSET TableNames : Closed(S) => u \in S}
  BY DEF CascadeReach
<1>2. \A v, actions : ChildTables(v, actions) \subseteq Tables(schema)
  BY KeysOfSchema DEF ChildTables, ReferencingForeignKeys
<1>3. Tables(schema) \subseteq TableNames
  BY DEF Tables
<1>4. Closed(Tables(schema))
  BY <1>2
<1>5. t \in Reach /\ Reach \subseteq Tables(schema)
  BY <1>1, <1>3, <1>4
<1>6. ASSUME NEW v \in Reach, NEW u \in ChildTables(v, {"cascade"}) PROVE u \in Reach
  <2>1. u \in TableNames
    BY <1>2, <1>3
  <2>2. ASSUME NEW S \in SUBSET TableNames, Closed(S) PROVE u \in S
    BY <1>1, <2>2
  <2> HIDE DEF Closed
  <2> QED
    BY <1>1, <2>1, <2>2
<1>7. \A v \in Reach : ChildTables(v, AnyAction) \subseteq DeleteScope(t)
  BY DEF DeleteScope, ExpandTableScope
<1>8. \A v \in Reach : v \in DeleteScope(t)
  <2> DEFINE S == {t} \cup UNION {ChildTables(v, {"cascade"}) : v \in Reach}
  <2>1. S \subseteq Reach
    BY <1>5, <1>6
  <2>2. Closed(S)
    BY <2>1
  <2>3. S \in SUBSET TableNames
    BY <1>3, <1>5, <2>1
  <2>4. S \subseteq DeleteScope(t)
    <3>1. \A v \in Reach : ChildTables(v, {"cascade"}) \subseteq ChildTables(v, AnyAction)
      BY DEF ChildTables, ReferencingForeignKeys, AnyAction
    <3> QED
      BY <1>7, <3>1 DEF DeleteScope, ExpandTableScope
  <2> HIDE DEF S, Closed
  <2> QED
    BY <1>1, <2>2, <2>3, <2>4
<1> QED
  BY <1>5, <1>6, <1>7, <1>8

-----------------------------------------------------------------------------
(* The detection of cascading deletions *)

\* A table is listed if a foreign key of it refers to a row.
ListOne(specs, order, u) == IF \E fk \in specs : fk.childTable = u THEN Append(order, u) ELSE order

ReferringKeysOf(rows, t, ids) ==
    {fk \in ReferencingForeignKeys(t, {"cascade"}) :
        UNION {IdsAt(rows, fk.childTable, fk.childColumn, rows[id].values[fk.parentColumn]) : id \in ids} # {}}

LEMMA ReferringTables ==
    ASSUME NEW rows, NEW t, NEW ids, NEW B, ChildTables(t, {"cascade"}) \subseteq B,
           created \in Seq(TableNames)
    PROVE  /\ ReferringRows(rows, t, ids).tables \in Seq(B)
           /\ ReferringRows(rows, t, ids).ids \subseteq RowIds
<1> DEFINE specs == ReferringKeysOf(rows, t, ids)
           n == Len(created)
           S == 1 .. n
<1>1. n \in Nat /\ DOMAIN created = S
  OBVIOUS
<1>2. ReferringRows(rows, t, ids).ids \subseteq RowIds
  <2>1. \A u, column, key : IdsAt(rows, u, column, key) \subseteq RowIds
    BY DEF IdsAt, IdsOf
  <2>2. ReferringRows(rows, t, ids).ids =
           UNION {UNION {IdsAt(rows, fk.childTable, fk.childColumn, rows[id].values[fk.parentColumn]) : id \in ids} :
                  fk \in specs}
    BY DEF ReferringRows, ReferringKeysOf
  <2> QED
    BY <2>1, <2>2
<1> DEFINE pick == [T \in SUBSET S |-> Max(T)]
           next == [v \in S \X Seq(B) |-> ListOne(specs, v[2], created[v[1]])]
           P(iter) == iter = [T \in SUBSET S |->
                         IF T = {} THEN <<>>
                         ELSE ListOne(specs, iter[T \ {Max(T)}], created[Max(T)])]
           it == CHOOSE iter : P(iter)
<1>3. ReferringRows(rows, t, ids).tables = it[S]
  BY <1>1 DEF ReferringRows, FoldLeft, MapThenFoldSet, ListOne, ReferringKeysOf
<1>4. IsFiniteSet(S)
  BY <1>1, FS_Interval
<1>5. \A T \in SUBSET S : pick[T] = Max(T) /\ (T # {} => pick[T] \in T)
  BY LastPlace, <1>1
<1>6. \A x \in S, a \in Seq(B) : ListOne(specs, a, created[x]) \in Seq(B)
  <2>1. \A fk \in specs : fk.childTable \in B
    BY DEF ReferringKeysOf, ChildTables
  <2> HIDE DEF specs
  <2> QED
    BY <2>1 DEF ListOne
<1>7. \A x \in S, a \in Seq(B) : next[<<x, a>>] = ListOne(specs, a, created[x])
  OBVIOUS
<1>8. <<>> \in Seq(B)
  OBVIOUS
<1>9. PICK f : IsLoop(f, S, Seq(B), <<>>, pick, next)
  <2> HIDE DEF S, pick, next
  <2>1. Steps(S, Seq(B), <<>>, pick, next)
    BY <1>4, <1>5, <1>6, <1>7, <1>8 DEF Steps
  <2> QED
    BY <2>1, SetLoop
<1>10. P(f)
  <2>1. ASSUME NEW T \in SUBSET S
        PROVE  f[T] = IF T = {} THEN <<>>
                      ELSE ListOne(specs, f[T \ {Max(T)}], created[Max(T)])
    <3> HIDE DEF pick, next
    <3>1. CASE T = {}
      BY <1>9, <3>1 DEF IsLoop
    <3>2. CASE T # {}
      <4>1. pick[T] \in S /\ T \ {pick[T]} \in SUBSET S /\ f[T \ {pick[T]}] \in Seq(B)
        BY <1>5, <1>9, <3>2 DEF IsLoop
      <4>2. f[T] = next[<<pick[T], f[T \ {pick[T]}]>>]
        BY <1>9, <3>2 DEF IsLoop
      <4>3. f[T] = ListOne(specs, f[T \ {pick[T]}], created[pick[T]])
        BY <1>7, <4>1, <4>2
      <4> QED
        BY <1>5, <3>2, <4>3
    <3> QED
      BY <3>1, <3>2
  <2>2. f = [T \in SUBSET S |-> f[T]]
    BY <1>9 DEF IsLoop
  <2> QED
    BY <2>1, <2>2
<1>11. P(it)
  <2> HIDE DEF P
  <2> QED
    BY <1>10
<1>12. \A T \in SUBSET S : it[T] = IF T = {} THEN <<>> ELSE ListOne(specs, it[T \ {pick[T]}], created[pick[T]])
  <2>1. it = [T \in SUBSET S |->
                IF T = {} THEN <<>>
                ELSE ListOne(specs, it[T \ {Max(T)}], created[Max(T)])]
    BY <1>11
  <2> HIDE DEF it, P
  <2> QED
    BY <2>1
<1> DEFINE G == {T \in SUBSET S : it[T] \in Seq(B)}
<1> HIDE DEF pick, next, P, it
<1>13. SUBSET S \subseteq G
  <2>1. {} \in G
    <3>1. {} \in SUBSET S /\ it[{}] = <<>>
      BY <1>12
    <3> QED
      BY <1>8, <3>1
  <2>2. ASSUME NEW T \in SUBSET S, T # {}, T \ {pick[T]} \in G PROVE T \in G
    <3> DEFINE Rest == T \ {pick[T]}
    <3>1. pick[T] \in T /\ pick[T] \in S /\ Rest \in SUBSET S /\ it[Rest] \in Seq(B)
      BY <1>5, <2>2
    <3>2. it[T] = ListOne(specs, it[Rest], created[pick[T]])
      BY <1>12, <2>2
    <3>3. T = Rest \cup {pick[T]} /\ pick[T] \notin Rest
      BY <3>1
    <3>4. it[T] \in Seq(B)
      BY <1>6, <3>1, <3>2
    <3> QED
      BY <3>4
  <2>3. Inductive(S, pick, G)
    <3> HIDE DEF G
    <3>1. \A T \in SUBSET S : T # {} /\ T \ {pick[T]} \in G => T \in G
      BY <2>2
    <3> QED
      BY <1>4, <1>5, <2>1, <3>1 DEF Inductive
  <2> HIDE DEF G
  <2> QED
    BY <2>3, SubsetInduction
<1>14. ReferringRows(rows, t, ids).tables \in Seq(B)
  BY <1>3, <1>13
<1> QED
  BY <1>2, <1>14

\* A key is added to those of a MapSet.
WithKey(order, k) == IF k \in ToSet(order) THEN order ELSE Append(order, k)

LEMMA KeysAdded ==
    ASSUME NEW B, NEW order \in Seq(B), NEW keys \in Seq(B)
    PROVE  WithKeys(order, keys) \in Seq(B)
<1> DEFINE n == Len(keys)
           S == 1 .. n
<1>1. n \in Nat /\ DOMAIN keys = S /\ \A i \in S : keys[i] \in B
  OBVIOUS
<1> DEFINE pick == [T \in SUBSET S |-> Max(T)]
           next == [v \in S \X Seq(B) |-> WithKey(v[2], keys[v[1]])]
           P(iter) == iter = [T \in SUBSET S |->
                         IF T = {} THEN order
                         ELSE WithKey(iter[T \ {Max(T)}], keys[Max(T)])]
           it == CHOOSE iter : P(iter)
<1>2. WithKeys(order, keys) = it[S]
  BY <1>1 DEF WithKeys, FoldLeft, MapThenFoldSet, WithKey
<1>3. IsFiniteSet(S)
  BY <1>1, FS_Interval
<1>4. \A T \in SUBSET S : pick[T] = Max(T) /\ (T # {} => pick[T] \in T)
  BY LastPlace, <1>1
<1>5. \A x \in S, a \in Seq(B) : WithKey(a, keys[x]) \in Seq(B)
  BY <1>1 DEF WithKey
<1>6. \A x \in S, a \in Seq(B) : next[<<x, a>>] = WithKey(a, keys[x])
  OBVIOUS
<1>7. order \in Seq(B)
  OBVIOUS
<1>8. PICK f : IsLoop(f, S, Seq(B), order, pick, next)
  <2> HIDE DEF S, pick, next
  <2>1. Steps(S, Seq(B), order, pick, next)
    BY <1>3, <1>4, <1>5, <1>6, <1>7 DEF Steps
  <2> QED
    BY <2>1, SetLoop
<1>9. P(f)
  <2>1. ASSUME NEW T \in SUBSET S
        PROVE  f[T] = IF T = {} THEN order
                      ELSE WithKey(f[T \ {Max(T)}], keys[Max(T)])
    <3> HIDE DEF pick, next
    <3>1. CASE T = {}
      BY <1>8, <3>1 DEF IsLoop
    <3>2. CASE T # {}
      <4>1. pick[T] \in S /\ T \ {pick[T]} \in SUBSET S /\ f[T \ {pick[T]}] \in Seq(B)
        BY <1>4, <1>8, <3>2 DEF IsLoop
      <4>2. f[T] = next[<<pick[T], f[T \ {pick[T]}]>>]
        BY <1>8, <3>2 DEF IsLoop
      <4>3. f[T] = WithKey(f[T \ {pick[T]}], keys[pick[T]])
        BY <1>6, <4>1, <4>2
      <4> QED
        BY <1>4, <3>2, <4>3
    <3> QED
      BY <3>1, <3>2
  <2>2. f = [T \in SUBSET S |-> f[T]]
    BY <1>8 DEF IsLoop
  <2> QED
    BY <2>1, <2>2
<1>10. P(it)
  <2> HIDE DEF P
  <2> QED
    BY <1>9
<1>11. \A T \in SUBSET S : it[T] = IF T = {} THEN order ELSE WithKey(it[T \ {pick[T]}], keys[pick[T]])
  <2>1. it = [T \in SUBSET S |->
                IF T = {} THEN order
                ELSE WithKey(it[T \ {Max(T)}], keys[Max(T)])]
    BY <1>10
  <2> HIDE DEF it, P
  <2> QED
    BY <2>1
<1> DEFINE G == {T \in SUBSET S : it[T] \in Seq(B)}
<1> HIDE DEF pick, next, P, it
<1>12. SUBSET S \subseteq G
  <2>1. {} \in G
    <3>1. {} \in SUBSET S /\ it[{}] = order
      BY <1>11
    <3> QED
      BY <1>7, <3>1
  <2>2. ASSUME NEW T \in SUBSET S, T # {}, T \ {pick[T]} \in G PROVE T \in G
    <3> DEFINE Rest == T \ {pick[T]}
    <3>1. pick[T] \in T /\ pick[T] \in S /\ Rest \in SUBSET S /\ it[Rest] \in Seq(B)
      BY <1>4, <2>2
    <3>2. it[T] = WithKey(it[Rest], keys[pick[T]])
      BY <1>11, <2>2
    <3>3. T = Rest \cup {pick[T]} /\ pick[T] \notin Rest
      BY <3>1
    <3>4. it[T] \in Seq(B)
      BY <1>5, <3>1, <3>2
    <3> QED
      BY <3>4
  <2>3. Inductive(S, pick, G)
    <3> HIDE DEF G
    <3>1. \A T \in SUBSET S : T # {} /\ T \ {pick[T]} \in G => T \in G
      BY <2>2
    <3> QED
      BY <1>3, <1>4, <2>1, <3>1 DEF Inductive
  <2> HIDE DEF G
  <2> QED
    BY <2>3, SubsetInduction
<1>13. WithKeys(order, keys) \in Seq(B)
  BY <1>2, <1>12
<1> QED
  BY <1>13

\* What a level of the search holds: the tables are among some.
Levels(B) == [tables : Seq(B), ids : SUBSET RowIds, order : Seq(B), found : SUBSET RowIds]

\* The rows that refer to those of a table are added to a level.
SearchOne(rows, last, acc, t) ==
    LET referring == ReferringRows(rows, t, last.ids \cap IdsOf(rows, t))
    IN [tables |-> WithKeys(acc.tables, referring.tables),
        ids |-> acc.ids \cup referring.ids,
        order |-> referring.tables \o acc.order,
        found |-> acc.found \cup referring.ids]

LEMMA SearchOneType ==
    ASSUME NEW B, \A t \in B : ChildTables(t, {"cascade"}) \subseteq B, created \in Seq(TableNames),
           NEW rows, NEW last, NEW acc \in Levels(B), NEW t \in B
    PROVE  SearchOne(rows, last, acc, t) \in Levels(B)
<1> DEFINE referring == ReferringRows(rows, t, last.ids \cap IdsOf(rows, t))
<1>1. referring.tables \in Seq(B) /\ referring.ids \subseteq RowIds
  BY ReferringTables
<1>2. SearchOne(rows, last, acc, t) =
         [tables |-> WithKeys(acc.tables, referring.tables), ids |-> acc.ids \cup referring.ids,
          order |-> referring.tables \o acc.order, found |-> acc.found \cup referring.ids]
  BY DEF SearchOne
<1> HIDE DEF referring
<1>3. /\ acc.tables \in Seq(B) /\ acc.order \in Seq(B)
      /\ acc.ids \subseteq RowIds /\ acc.found \subseteq RowIds
  BY DEF Levels
<1>4. WithKeys(acc.tables, referring.tables) \in Seq(B)
  BY <1>1, <1>3, KeysAdded
<1>5. referring.tables \o acc.order \in Seq(B)
  BY <1>1, <1>3
<1> QED
  BY <1>1, <1>2, <1>3, <1>4, <1>5 DEF Levels

LEMMA LevelType ==
    ASSUME NEW B, \A t \in B : ChildTables(t, {"cascade"}) \subseteq B, created \in Seq(TableNames),
           NEW rows, NEW last \in Levels(B)
    PROVE  Level(rows, last) \in Levels(B)
<1> DEFINE n == Len(last.tables)
           S == 1 .. n
           start == [last EXCEPT !.tables = <<>>, !.ids = {}]
<1>1. n \in Nat /\ DOMAIN last.tables = S /\ \A i \in S : last.tables[i] \in B
  BY DEF Levels
<1> DEFINE pick == [T \in SUBSET S |-> Max(T)]
           next == [v \in S \X Levels(B) |-> SearchOne(rows, last, v[2], last.tables[v[1]])]
           P(iter) == iter = [T \in SUBSET S |->
                         IF T = {} THEN start
                         ELSE SearchOne(rows, last, iter[T \ {Max(T)}], last.tables[Max(T)])]
           it == CHOOSE iter : P(iter)
<1>2. Level(rows, last) = it[S]
  BY <1>1 DEF Level, FoldLeft, MapThenFoldSet, SearchOne
<1>3. IsFiniteSet(S)
  BY <1>1, FS_Interval
<1>4. \A T \in SUBSET S : pick[T] = Max(T) /\ (T # {} => pick[T] \in T)
  BY LastPlace, <1>1
<1>5. \A x \in S, a \in Levels(B) : SearchOne(rows, last, a, last.tables[x]) \in Levels(B)
  BY <1>1, SearchOneType
<1>6. \A x \in S, a \in Levels(B) : next[<<x, a>>] = SearchOne(rows, last, a, last.tables[x])
  OBVIOUS
<1>7. start \in Levels(B)
  <2>1. <<>> \in Seq(B) /\ {} \in SUBSET RowIds
    OBVIOUS
  <2> QED
    BY <2>1 DEF Levels
<1>8. PICK f : IsLoop(f, S, Levels(B), start, pick, next)
  <2> HIDE DEF S, pick, next
  <2>1. Steps(S, Levels(B), start, pick, next)
    BY <1>3, <1>4, <1>5, <1>6, <1>7 DEF Steps
  <2> QED
    BY <2>1, SetLoop
<1>9. P(f)
  <2>1. ASSUME NEW T \in SUBSET S
        PROVE  f[T] = IF T = {} THEN start
                      ELSE SearchOne(rows, last, f[T \ {Max(T)}], last.tables[Max(T)])
    <3> HIDE DEF pick, next
    <3>1. CASE T = {}
      BY <1>8, <3>1 DEF IsLoop
    <3>2. CASE T # {}
      <4>1. pick[T] \in S /\ T \ {pick[T]} \in SUBSET S /\ f[T \ {pick[T]}] \in Levels(B)
        BY <1>4, <1>8, <3>2 DEF IsLoop
      <4>2. f[T] = next[<<pick[T], f[T \ {pick[T]}]>>]
        BY <1>8, <3>2 DEF IsLoop
      <4>3. f[T] = SearchOne(rows, last, f[T \ {pick[T]}], last.tables[pick[T]])
        BY <1>6, <4>1, <4>2
      <4> QED
        BY <1>4, <3>2, <4>3
    <3> QED
      BY <3>1, <3>2
  <2>2. f = [T \in SUBSET S |-> f[T]]
    BY <1>8 DEF IsLoop
  <2> QED
    BY <2>1, <2>2
<1>10. P(it)
  <2> HIDE DEF P
  <2> QED
    BY <1>9
<1>11. \A T \in SUBSET S : it[T] = IF T = {} THEN start ELSE SearchOne(rows, last, it[T \ {pick[T]}], last.tables[pick[T]])
  <2>1. it = [T \in SUBSET S |->
                IF T = {} THEN start
                ELSE SearchOne(rows, last, it[T \ {Max(T)}], last.tables[Max(T)])]
    BY <1>10
  <2> HIDE DEF it, P
  <2> QED
    BY <2>1
<1> DEFINE G == {T \in SUBSET S : it[T] \in Levels(B)}
<1> HIDE DEF pick, next, P, it
<1>12. SUBSET S \subseteq G
  <2>1. {} \in G
    <3>1. {} \in SUBSET S /\ it[{}] = start
      BY <1>11
    <3> QED
      BY <1>7, <3>1
  <2>2. ASSUME NEW T \in SUBSET S, T # {}, T \ {pick[T]} \in G PROVE T \in G
    <3> DEFINE Rest == T \ {pick[T]}
    <3>1. pick[T] \in T /\ pick[T] \in S /\ Rest \in SUBSET S /\ it[Rest] \in Levels(B)
      BY <1>4, <2>2
    <3>2. it[T] = SearchOne(rows, last, it[Rest], last.tables[pick[T]])
      BY <1>11, <2>2
    <3>3. T = Rest \cup {pick[T]} /\ pick[T] \notin Rest
      BY <3>1
    <3>4. it[T] \in Levels(B)
      BY <1>5, <3>1, <3>2
    <3> QED
      BY <3>4
  <2>3. Inductive(S, pick, G)
    <3> HIDE DEF G
    <3>1. \A T \in SUBSET S : T # {} /\ T \ {pick[T]} \in G => T \in G
      BY <2>2
    <3> QED
      BY <1>3, <1>4, <2>1, <3>1 DEF Inductive
  <2> HIDE DEF G
  <2> QED
    BY <2>3, SubsetInduction
<1>13. Level(rows, last) \in Levels(B)
  BY <1>2, <1>12
<1> QED
  BY <1>13

LEMMA DetectionType ==
    ASSUME NEW B, \A v \in B : ChildTables(v, {"cascade"}) \subseteq B, created \in Seq(TableNames),
           NEW rows, NEW t \in B, NEW ids \in SUBSET RowIds
    PROVE  DetectCascadeDeletion(rows, t, ids) \in Levels(B)
<1> DEFINE start == NoLevel(t, ids)
           next == [last \in Levels(B) |-> Level(rows, last)]
           P(level) == level = [n \in Nat |-> IF n = 0 THEN start ELSE Level(rows, level[n - 1])]
           it == CHOOSE level : P(level)
<1>1. start \in Levels(B)
  BY DEF NoLevel, Levels
<1>2. \A last \in Levels(B) : Level(rows, last) \in Levels(B)
  BY LevelType
<1>3. \A last \in Levels(B) : next[last] = Level(rows, last) /\ next[last] \in Levels(B)
  BY <1>2
<1>4. PICK f : Repeats(f, Levels(B), start, next)
  <2>1. \A last \in Levels(B) : next[last] \in Levels(B)
    BY <1>3
  <2> HIDE DEF start, next
  <2> QED
    BY <1>1, <2>1, Repetition
<1>5. P(f)
  <2>1. ASSUME NEW n \in Nat PROVE f[n] = IF n = 0 THEN start ELSE Level(rows, f[n - 1])
    <3>1. CASE n = 0
      BY <1>4, <3>1 DEF Repeats
    <3>2. CASE n # 0
      <4>1. n - 1 \in Nat /\ (n - 1) + 1 = n
        BY <3>2
      <4>2. f[n] = next[f[n - 1]] /\ f[n - 1] \in Levels(B)
        <5> HIDE DEF next
        <5> QED
          BY <1>4, <4>1 DEF Repeats
      <4>3. f[n] = Level(rows, f[n - 1])
        <5> HIDE DEF next
        <5> QED
          BY <1>3, <4>2
      <4> QED
        BY <3>2, <4>3
    <3> QED
      BY <3>1, <3>2
  <2> HIDE DEF start
  <2>2. f = [n \in Nat |-> f[n]]
    BY <1>4 DEF Repeats
  <2> QED
    BY <2>1, <2>2
<1>6. P(it)
  <2> HIDE DEF P
  <2> QED
    BY <1>5
<1>7. \A n \in Nat : it[n] = IF n = 0 THEN start ELSE Level(rows, it[n - 1])
  <2>1. it = [n \in Nat |-> IF n = 0 THEN start ELSE Level(rows, it[n - 1])]
    BY <1>6
  <2> HIDE DEF it, P, start
  <2> QED
    BY <2>1
<1>8. DetectCascadeDeletion(rows, t, ids) = it[Cardinality(TableNames)]
  BY DEF DetectCascadeDeletion
<1> HIDE DEF it, start
<1> DEFINE G == {n \in Nat : it[n] \in Levels(B)}
<1>9. 0 \in G
  <2>1. it[0] = start
    BY <1>7
  <2> QED
    BY <1>1, <2>1
<1>10. ASSUME NEW n \in Nat, n \in G PROVE n + 1 \in G
  <2>1. n + 1 \in Nat /\ n + 1 # 0 /\ (n + 1) - 1 = n
    OBVIOUS
  <2>2. it[n + 1] = Level(rows, it[n])
    BY <1>7, <2>1
  <2> QED
    BY <1>2, <1>10, <2>1, <2>2
<1>11. Nat \subseteq G
  <2> HIDE DEF G
  <2> QED
    BY <1>9, <1>10, Induction
<1>12. Cardinality(TableNames) \in Nat
  BY SchemaAssumption, FS_CardinalityType
<1> QED
  BY <1>8, <1>11, <1>12

-----------------------------------------------------------------------------
(* Deletions that cascade *)

Losers(j, tables) == {r \in Executing : Losing(j, tables, r)}

\* The rows found in a table are removed.
RemoveOne(j, found, acc, u) ==
    LET mods == Deletions(acc.rows, found \cap IdsOf(j.rows, u))
    IN ModifyRows(CheckForDelete(acc, u, mods, "immediate"), u, mods)

LEMMA RemoveOneKeeps ==
    ASSUME Usable, NEW j \in Executing, NEW u \in Tables(schema), NEW tables,
           u \in tables, ChildTables(u, AnyAction) \subseteq tables,
           NEW found, NEW acc \in Losers(j, tables)
    PROVE  RemoveOne(j, found, acc, u) \in Losers(j, tables)
<1> DEFINE ids == found \cap IdsOf(j.rows, u)
           mods == Deletions(acc.rows, ids)
<1>1. acc.rows \in RowsType /\ Losing(j, tables, acc)
  BY DEF Losers, Executing
<1>2. ids \in SUBSET RowIds /\ \A id \in ids : acc.rows[id] # None => acc.rows[id].table = u
  BY <1>1 DEF IdsOf, Losing
<1> HIDE DEF ids
<1>3. /\ mods \in SUBSET Mods(u) /\ Distinct(mods) /\ IsFiniteSet(mods)
      /\ \A m \in mods : m.id \in ids /\ m.now = None /\ (acc.rows[m.id] # None => m.before = acc.rows[m.id].values)
  BY <1>1, <1>2, DeletionsFacts
<1> HIDE DEF mods
<1>4. Removing(acc.rows, u, mods)
  BY <1>2, <1>3 DEF Removing
<1>5. Losing(j, tables, ModifyRows(CheckForDelete(acc, u, mods, "immediate"), u, mods))
  BY <1>1, <1>3, <1>4, RemovalOutcome
<1>6. RemoveOne(j, found, acc, u) = ModifyRows(CheckForDelete(acc, u, mods, "immediate"), u, mods)
  BY DEF RemoveOne, mods, ids
<1> QED
  BY <1>5, <1>6 DEF Losers, Losing, Outcome

LEMMA NothingLost ==
    ASSUME NEW j \in Executing, NEW tables, NEW r \in Executing,
           r.rows = j.rows, r.ok = j.ok, r.touched \subseteq j.touched \cup tables
    PROVE  Losing(j, tables, r)
BY DEF Losing, Outcome, Covers, RowCovered

LEMMA CascadeRemoves ==
    ASSUME Usable, created \in Seq(TableNames), NEW t \in Tables(schema), NEW j \in Executing,
           NEW ids \in SUBSET RowIds, ReferencingForeignKeys(t, {"cascade"}) # {}
    PROVE  RemoveByCascade(j, t, ids) \in Losers(j, DeleteScope(t))
<1> DEFINE cascade == DetectCascadeDeletion(j.rows, t, ids)
           start == Touch(j, ChildTables(t, {"cascade"}))
           n == Len(cascade.order)
           S == 1 .. n
           A == Losers(j, DeleteScope(t))
<1>1. /\ t \in CascadeReach(t) /\ CascadeReach(t) \subseteq Tables(schema)
      /\ \A v \in CascadeReach(t) :
           /\ ChildTables(v, {"cascade"}) \subseteq CascadeReach(t)
           /\ ChildTables(v, AnyAction) \subseteq DeleteScope(t)
           /\ v \in DeleteScope(t)
  BY ReachFacts
<1>2. cascade \in Levels(CascadeReach(t))
  BY <1>1, DetectionType
<1>3. n \in Nat /\ DOMAIN cascade.order = S /\ \A i \in S : cascade.order[i] \in CascadeReach(t)
  <2> HIDE DEF cascade
  <2> QED
    BY <1>2 DEF Levels
<1>4. start \in A
  <2>1. ChildTables(t, {"cascade"}) \subseteq DeleteScope(t)
    BY <1>1
  <2>2. ChildTables(t, {"cascade"}) \subseteq TableNames
    BY <1>1 DEF Tables
  <2>3. /\ start \in Executing /\ start.rows = j.rows /\ start.ok = j.ok
        /\ start.touched = j.touched \cup ChildTables(t, {"cascade"})
    BY <2>2 DEF Touch, Executing
  <2> HIDE DEF start
  <2>4. Losing(j, DeleteScope(t), start)
    BY <2>1, <2>3, NothingLost
  <2> QED
    BY <2>3, <2>4 DEF Losers
<1> DEFINE pick == [T \in SUBSET S |-> Max(T)]
           next == [v \in S \X A |-> RemoveOne(j, cascade.found, v[2], cascade.order[v[1]])]
           P(iter) == iter = [T \in SUBSET S |->
                         IF T = {} THEN start
                         ELSE RemoveOne(j, cascade.found, iter[T \ {Max(T)}], cascade.order[Max(T)])]
           it == CHOOSE iter : P(iter)
<1>5. RemoveByCascade(j, t, ids) = it[S]
  BY <1>3 DEF RemoveByCascade, FoldLeft, MapThenFoldSet, RemoveOne
<1>6. IsFiniteSet(S)
  <2> HIDE DEF cascade
  <2>1. n \in Nat
    BY <1>3
  <2> QED
    BY <2>1, FS_Interval
<1>7. \A T \in SUBSET S : pick[T] = Max(T) /\ (T # {} => pick[T] \in T)
  BY LastPlace, <1>3
<1>8. \A x \in S, a \in A : RemoveOne(j, cascade.found, a, cascade.order[x]) \in A
  <2> HIDE DEF cascade
  <2> QED
    BY <1>1, <1>3, RemoveOneKeeps
<1>9. \A x \in S, a \in A : next[<<x, a>>] = RemoveOne(j, cascade.found, a, cascade.order[x])
  OBVIOUS
<1>10. start \in A
  BY <1>4
<1>11. PICK f : IsLoop(f, S, A, start, pick, next)
  <2> HIDE DEF S, pick, next
  <2>1. Steps(S, A, start, pick, next)
    BY <1>6, <1>7, <1>8, <1>9, <1>10 DEF Steps
  <2> QED
    BY <2>1, SetLoop
<1>12. P(f)
  <2>1. ASSUME NEW T \in SUBSET S
        PROVE  f[T] = IF T = {} THEN start
                      ELSE RemoveOne(j, cascade.found, f[T \ {Max(T)}], cascade.order[Max(T)])
    <3> HIDE DEF pick, next
    <3>1. CASE T = {}
      BY <1>11, <3>1 DEF IsLoop
    <3>2. CASE T # {}
      <4>1. pick[T] \in S /\ T \ {pick[T]} \in SUBSET S /\ f[T \ {pick[T]}] \in A
        BY <1>7, <1>11, <3>2 DEF IsLoop
      <4>2. f[T] = next[<<pick[T], f[T \ {pick[T]}]>>]
        BY <1>11, <3>2 DEF IsLoop
      <4>3. f[T] = RemoveOne(j, cascade.found, f[T \ {pick[T]}], cascade.order[pick[T]])
        BY <1>9, <4>1, <4>2
      <4> QED
        BY <1>7, <3>2, <4>3
    <3> QED
      BY <3>1, <3>2
  <2>2. f = [T \in SUBSET S |-> f[T]]
    BY <1>11 DEF IsLoop
  <2> QED
    BY <2>1, <2>2
<1>13. P(it)
  <2> HIDE DEF P
  <2> QED
    BY <1>12
<1>14. \A T \in SUBSET S : it[T] = IF T = {} THEN start ELSE RemoveOne(j, cascade.found, it[T \ {pick[T]}], cascade.order[pick[T]])
  <2>1. it = [T \in SUBSET S |->
                IF T = {} THEN start
                ELSE RemoveOne(j, cascade.found, it[T \ {Max(T)}], cascade.order[Max(T)])]
    BY <1>13
  <2> HIDE DEF it, P
  <2> QED
    BY <2>1
<1> DEFINE G == {T \in SUBSET S : it[T] \in A}
<1> HIDE DEF pick, next, P, it
<1>15. SUBSET S \subseteq G
  <2>1. {} \in G
    <3>1. {} \in SUBSET S /\ it[{}] = start
      BY <1>14
    <3> QED
      BY <1>10, <3>1
  <2>2. ASSUME NEW T \in SUBSET S, T # {}, T \ {pick[T]} \in G PROVE T \in G
    <3> DEFINE Rest == T \ {pick[T]}
    <3>1. pick[T] \in T /\ pick[T] \in S /\ Rest \in SUBSET S /\ it[Rest] \in A
      BY <1>7, <2>2
    <3>2. it[T] = RemoveOne(j, cascade.found, it[Rest], cascade.order[pick[T]])
      BY <1>14, <2>2
    <3>3. T = Rest \cup {pick[T]} /\ pick[T] \notin Rest
      BY <3>1
    <3>4. it[T] \in A
      BY <1>8, <3>1, <3>2
    <3> QED
      BY <3>4
  <2>3. Inductive(S, pick, G)
    <3> HIDE DEF G
    <3>1. \A T \in SUBSET S : T # {} /\ T \ {pick[T]} \in G => T \in G
      BY <2>2
    <3> QED
      BY <1>6, <1>7, <2>1, <3>1 DEF Inductive
  <2> HIDE DEF G
  <2> QED
    BY <2>3, SubsetInduction
<1>16. RemoveByCascade(j, t, ids) \in A
  BY <1>5, <1>15
<1> QED
  BY <1>16

LEMMA DeleteOutcome ==
    ASSUME Usable, created \in Seq(TableNames), NEW t \in Tables(schema), NEW j \in Executing,
           NEW ids \in SUBSET IdsOf(j.rows, t)
    PROVE  Outcome(j, RemoveRows(j, t, ids), {}, DeleteScope(t))
<1> DEFINE tables == DeleteScope(t)
           mods == Deletions(j.rows, ids)
           acc == RemoveByCascade(j, t, ids)
<1>1. ids \in SUBSET RowIds /\ (\A id \in ids : j.rows[id] # None /\ j.rows[id].table = t) /\ j.rows \in RowsType
  BY DEF IdsOf, Executing
<1>2. t \in tables /\ ChildTables(t, AnyAction) \subseteq tables
  BY ReachFacts
<1>3. acc \in Losers(j, tables)
  <2>1. CASE ReferencingForeignKeys(t, {"cascade"}) # {}
    BY <1>1, <2>1, CascadeRemoves
  <2>2. CASE ReferencingForeignKeys(t, {"cascade"}) = {}
    <3>1. acc = j
      BY <2>2 DEF RemoveByCascade
    <3> QED
      BY <3>1, NothingLost DEF Losers
  <2> QED
    BY <2>1, <2>2
<1>4. RemoveRows(j, t, ids) = ModifyRows(CheckForDelete(acc, t, mods, "immediate"), t, mods)
  BY DEF RemoveRows
<1>5. /\ mods \in SUBSET Mods(t) /\ Distinct(mods) /\ IsFiniteSet(mods)
      /\ \A m \in mods : m.id \in ids /\ m.now = None /\ (j.rows[m.id] # None => m.before = j.rows[m.id].values)
  BY <1>1, DeletionsFacts
<1> HIDE DEF mods, acc, tables
<1>6. Losing(j, tables, acc)
  BY <1>3 DEF Losers
<1>7. Removing(acc.rows, t, mods)
  BY <1>1, <1>5, <1>6 DEF Removing, Losing
<1>8. Losing(j, tables, ModifyRows(CheckForDelete(acc, t, mods, "immediate"), t, mods))
  BY <1>2, <1>5, <1>6, <1>7, RemovalOutcome
<1> QED
  BY <1>4, <1>8 DEF Losing, tables

-----------------------------------------------------------------------------
(* The checks before a commit *)

\* The net changes of a transaction.
LEMMA NetChangesAre ==
    ASSUME Usable, cache \in RowsType, store \in RowsType, NEW tables, Covers(store, cache, tables),
           NEW t \in Tables(schema)
    PROVE  \A m \in NetChanges(t) :
                /\ m.id \in RowIds
                /\ m.before = ValuesOf(store[m.id]) /\ m.now = ValuesOf(cache[m.id])
                /\ m.before = None <=> store[m.id] = None
                /\ m.now = None <=> cache[m.id] = None
                /\ store[m.id] # None => store[m.id].table = t
                /\ cache[m.id] # None => cache[m.id].table = t
                /\ store[m.id] # cache[m.id]
<1>1. ASSUME NEW id \in RowIds
      PROVE  /\ ValuesOf(store[id]) = None <=> store[id] = None
             /\ ValuesOf(cache[id]) = None <=> cache[id] = None
             /\ store[id] # None /\ cache[id] # None => cache[id].table = store[id].table
  <2>1. ASSUME store[id] # None PROVE store[id].values # None
    <3>1. store[id].values \in AnyValues(store[id].table) /\ store[id].table \in Tables(schema)
      BY <2>1, RowsOf
    <3> QED
      BY <3>1, NoneIsNoRow
  <2>2. ASSUME cache[id] # None PROVE cache[id].values # None
    <3>1. cache[id].values \in AnyValues(cache[id].table) /\ cache[id].table \in Tables(schema)
      BY <2>2, RowsOf
    <3> QED
      BY <3>1, NoneIsNoRow
  <2>3. store[id] # None /\ cache[id] # None => cache[id].table = store[id].table
    BY DEF Covers, RowCovered
  <2> QED
    BY <2>1, <2>2, <2>3 DEF ValuesOf
<1>2. ASSUME NEW m \in NetChanges(t)
      PROVE  /\ m.id \in RowIds
             /\ m.before = ValuesOf(store[m.id]) /\ m.now = ValuesOf(cache[m.id])
             /\ store[m.id] # cache[m.id]
             /\ (store[m.id] # None /\ store[m.id].table = t) \/ (cache[m.id] # None /\ cache[m.id].table = t)
  <2>1. PICK id \in {i \in IdsOf(store, t) \cup IdsOf(cache, t) : store[i] # cache[i]} :
            m = [id |-> id, before |-> ValuesOf(store[id]), now |-> ValuesOf(cache[id])]
    BY DEF NetChanges
  <2>2. /\ id \in RowIds /\ store[id] # cache[id]
        /\ (store[id] # None /\ store[id].table = t) \/ (cache[id] # None /\ cache[id].table = t)
    <3>1. id \in IdsOf(store, t) \/ id \in IdsOf(cache, t)
      OBVIOUS
    <3> QED
      BY <3>1 DEF IdsOf
  <2>3. m.id = id /\ m.before = ValuesOf(store[id]) /\ m.now = ValuesOf(cache[id])
    BY <2>1
  <2> QED
    BY <2>2, <2>3
<1>3. ASSUME NEW m \in NetChanges(t)
      PROVE  /\ m.before = None <=> store[m.id] = None
             /\ m.now = None <=> cache[m.id] = None
             /\ store[m.id] # None => store[m.id].table = t
             /\ cache[m.id] # None => cache[m.id].table = t
  BY <1>1, <1>2
<1> QED
  BY <1>2, <1>3

LEMMA DeferredChecks ==
    ASSUME Usable, NEW j \in Executing, NEW t \in Tables(schema), NEW tables,
           ParentsOf(ReferredKeys(t, Added(t), "deferrable")) \subseteq tables,
           ChildrenOf(ReferringKeys(t, Deleted(t), "deferrable", AnyAction)) \subseteq tables,
           ParentsOf(ReferredKeys(t, Modified(t), "deferrable")) \subseteq tables,
           ChildrenOf(ReferringKeys(t, Modified(t), "deferrable", {"restrict"})) \subseteq tables
    PROVE  /\ Checks(j, tables, CheckDeferredOf(j, t))
           /\ CheckDeferredOf(j, t).ok =>
                /\ ParentsFound(j.rows, t, Added(t), "deferrable")
                /\ NoneRefers(j.rows, t, Deleted(t), "deferrable", AnyAction)
                /\ ParentsFound(j.rows, t, Modified(t), "deferrable")
                /\ NoneRefers(j.rows, t, Modified(t), "deferrable", {"restrict"})
<1> DEFINE a == CheckForInsert(j, t, Added(t), "deferrable")
           b == CheckForDelete(a, t, Deleted(t), "deferrable")
           c == CheckForUpdate(b, t, Modified(t), "deferrable")
<1>1. Checks(j, tables, a) /\ (a.ok => ParentsFound(j.rows, t, Added(t), "deferrable"))
  BY CheckForInsertChecks DEF Checks
<1>2. a \in Executing /\ a.rows = j.rows
  BY <1>1 DEF Checks
<1>3. c = CheckDeferredOf(j, t)
  BY DEF CheckDeferredOf
<1> HIDE DEF a
<1>4. Checks(a, tables, b) /\ (b.ok => NoneRefers(j.rows, t, Deleted(t), "deferrable", AnyAction))
  BY <1>2, CheckForDeleteChecks DEF Checks
<1>5. b \in Executing /\ b.rows = j.rows /\ (b.ok => a.ok)
  BY <1>2, <1>4 DEF Checks
<1> HIDE DEF b
<1>6. /\ Checks(b, ParentsOf(ReferredKeys(t, Modified(t), "deferrable"))
                     \cup ChildrenOf(ReferringKeys(t, Modified(t), "deferrable", {"restrict"})), c)
      /\ c.ok => /\ ParentsFound(b.rows, t, Modified(t), "deferrable")
                 /\ NoneRefers(b.rows, t, Modified(t), "deferrable", {"restrict"})
  BY <1>5, CheckForUpdateChecks
<1> HIDE DEF c
<1>7. Checks(b, tables, c) /\ (c.ok => b.ok)
  BY <1>6 DEF Checks
<1>8. Checks(j, tables, c)
  BY <1>1, <1>4, <1>7 DEF Checks
<1> QED
  BY <1>1, <1>3, <1>4, <1>5, <1>6, <1>7, <1>8

\* What the checks look at, the statements have locked.
LEMMA DeferredCovered ==
    ASSUME Usable, cache \in RowsType, store \in RowsType, NEW tables, Covers(store, cache, tables),
           NEW t \in Tables(schema)
    PROVE  /\ ParentsOf(ReferredKeys(t, Added(t), "deferrable")) \subseteq tables
           /\ ChildrenOf(ReferringKeys(t, Deleted(t), "deferrable", AnyAction)) \subseteq tables
           /\ ParentsOf(ReferredKeys(t, Modified(t), "deferrable")) \subseteq tables
           /\ ChildrenOf(ReferringKeys(t, Modified(t), "deferrable", {"restrict"})) \subseteq tables
<1>1. ASSUME NEW m \in NetChanges(t)
      PROVE  /\ m.id \in RowIds /\ RowCovered(store[m.id], cache[m.id], tables)
             /\ m.before = ValuesOf(store[m.id]) /\ m.now = ValuesOf(cache[m.id])
             /\ m.before = None <=> store[m.id] = None
             /\ m.now = None <=> cache[m.id] = None
             /\ store[m.id] # None => store[m.id].table = t
             /\ cache[m.id] # None => cache[m.id].table = t
             /\ store[m.id] # cache[m.id]
  BY NetChangesAre DEF Covers
<1>2. ASSUME NEW m \in Added(t) PROVE ParentTables(t) \subseteq tables
  BY <1>1 DEF Added, RowCovered
<1>3. ASSUME NEW m \in Deleted(t) PROVE ChildTables(t, AnyAction) \subseteq tables
  BY <1>1 DEF Deleted, RowCovered
<1>4. ASSUME NEW m \in Modified(t), NEW c \in Columns(t), Changed(m, c) PROVE ColumnCovered(t, c, tables)
  <2>1. m.before # None /\ m.now # None /\ m \in NetChanges(t)
    BY DEF Modified, Added, Deleted
  <2>2. store[m.id] # None /\ cache[m.id] # None /\ store[m.id].table = t
    BY <1>1, <2>1
  <2>3. m.before = store[m.id].values /\ m.now = cache[m.id].values
    BY <1>1, <2>1, <2>2 DEF ValuesOf
  <2>4. cache[m.id].values[c] # store[m.id].values[c]
    BY <1>4, <2>1, <2>3 DEF Changed
  <2> QED
    BY <1>1, <2>1, <2>2, <2>4 DEF RowCovered
<1>5. ParentsOf(ReferredKeys(t, Added(t), "deferrable")) \subseteq tables
  <2>1. ASSUME NEW fk \in ReferredKeys(t, Added(t), "deferrable") PROVE fk.parentTable \in tables
    <3>1. ParentTables(t) \subseteq tables
      BY <1>2 DEF ReferredKeys
    <3>2. fk.parentTable \in ParentTables(t)
      BY DEF ReferredKeys, ParentTables
    <3> QED
      BY <3>1, <3>2
  <2> QED
    BY <2>1 DEF ParentsOf
<1>6. ChildrenOf(ReferringKeys(t, Deleted(t), "deferrable", AnyAction)) \subseteq tables
  <2>1. ASSUME NEW fk \in ReferringKeys(t, Deleted(t), "deferrable", AnyAction) PROVE fk.childTable \in tables
    <3>1. ChildTables(t, AnyAction) \subseteq tables
      BY <1>3 DEF ReferringKeys
    <3>2. fk.childTable \in ChildTables(t, AnyAction)
      BY DEF ReferringKeys, ChildTables
    <3> QED
      BY <3>1, <3>2
  <2> QED
    BY <2>1 DEF ChildrenOf
<1>7. ASSUME NEW fk \in ReferredKeys(t, Modified(t), "deferrable") PROVE fk.parentTable \in tables
  <2>1. fk \in ForeignKeys(schema) /\ fk.childTable = t /\ fk.timing = "deferrable"
    BY KeysOfSchema DEF ReferredKeys
  <2>2. fk.childColumn \in Columns(t)
    BY <2>1, ColumnsOfKeys
  <2>3. ColumnCovered(t, fk.childColumn, tables)
    BY <1>4, <2>2 DEF ReferredKeys
  <2> QED
    BY <2>1, <2>3 DEF ColumnCovered
<1>8. ASSUME NEW fk \in ReferringKeys(t, Modified(t), "deferrable", {"restrict"}) PROVE fk.childTable \in tables
  <2>1. fk \in ForeignKeys(schema) /\ fk.parentTable = t /\ fk.timing = "deferrable"
    BY DEF ReferringKeys, ReferencingForeignKeys
  <2>2. fk.parentColumn \in Columns(t)
    BY <2>1, ColumnsOfKeys
  <2>3. ColumnCovered(t, fk.parentColumn, tables)
    BY <1>4, <2>2 DEF ReferringKeys
  <2> QED
    BY <2>1, <2>3 DEF ColumnCovered
<1> QED
  BY <1>5, <1>6, <1>7, <1>8 DEF ParentsOf, ChildrenOf

\* The checks find every reference without its row.
LEMMA DeferredKeep ==
    ASSUME Usable, cache \in RowsType, store \in RowsType, NEW tables, Covers(store, cache, tables),
           NEW fk \in ForeignKeys(schema), fk.timing = "deferrable", ~Dangling(store, fk),
           \A t \in Tables(schema) :
               /\ ParentsFound(cache, t, Added(t), "deferrable")
               /\ NoneRefers(cache, t, Deleted(t), "deferrable", AnyAction)
               /\ ParentsFound(cache, t, Modified(t), "deferrable")
               /\ NoneRefers(cache, t, Modified(t), "deferrable", {"restrict"})
    PROVE  ~Dangling(cache, fk)
<1> SUFFICES ASSUME NEW id \in RowIds, References(cache, fk, id) PROVE Refers(cache, fk, id)
  BY DanglingIs
<1> DEFINE ct == fk.childTable
           cc == fk.childColumn
           pt == fk.parentTable
           pc == fk.parentColumn
           key == cache[id].values[cc]
<1>1. /\ cc \in Columns(ct) /\ pc \in Columns(pt) /\ ct \in Tables(schema) /\ pt \in Tables(schema)
      /\ fk \in ToSet(schema[ct].fkSpecs) /\ fk.action \in AnyAction /\ fk.action = "restrict"
  BY ColumnsOfKeys DEF AnyAction
<1>2. cache[id] # None /\ cache[id].table = ct /\ key # Null
  BY DEF References
<1>3. HasKey(cache, ct, cc, key)
  BY <1>2 DEF HasKey, IdsAt, IdsOf
<1>4. ASSUME HasKey(cache, pt, pc, key) PROVE Refers(cache, fk, id)
  BY <1>4 DEF HasKey, IdsAt, IdsOf, Refers
\* A row that has another key than it had is looked at itself.
<1>5. ASSUME store[id] = None \/ store[id].values[cc] # key PROVE HasKey(cache, pt, pc, key)
  <2>1. store[id] # cache[id]
    BY <1>2, <1>5
  <2> DEFINE m == [id |-> id, before |-> ValuesOf(store[id]), now |-> ValuesOf(cache[id])]
  <2>2. m \in NetChanges(ct) /\ m.id = id /\ m.before = ValuesOf(store[id]) /\ m.now = ValuesOf(cache[id])
    BY <1>1, <1>2, <2>1 DEF NetChanges, IdsOf
  <2> HIDE DEF m
  <2>3. m.now = cache[id].values /\ m.now # None
    BY <1>1, <1>2, <2>2, NetChangesAre DEF ValuesOf
  <2>4. CASE store[id] = None
    <3>1. m.before = None
      BY <2>2, <2>4 DEF ValuesOf
    <3>2. m \in Added(ct) /\ Changed(m, cc)
      BY <2>2, <2>3, <3>1 DEF Added, Changed
    <3> QED
      BY <1>1, <1>2, <2>3, <3>2 DEF ParentsFound
  <2>5. CASE store[id] # None
    <3>1. m.before = store[id].values /\ m.before # None
      BY <1>1, <2>2, <2>5, NetChangesAre DEF ValuesOf
    <3>2. m \in Modified(ct) /\ Changed(m, cc)
      BY <1>5, <2>2, <2>3, <2>5, <3>1 DEF Modified, Added, Deleted, Changed
    <3> QED
      BY <1>1, <1>2, <2>3, <3>2 DEF ParentsFound
  <2> QED
    BY <2>4, <2>5
\* A row that has the key it had referred to a row, which is looked at if it has gone or changed.
<1>6. ASSUME store[id] # None, store[id].values[cc] = key PROVE HasKey(cache, pt, pc, key)
  <2>1. store[id].table = ct
    BY <1>2, <1>6 DEF Covers, RowCovered
  <2>2. References(store, fk, id)
    BY <1>2, <1>6, <2>1 DEF References
  <2>3. PICK p \in RowIds : store[p] # None /\ store[p].table = pt /\ store[p].values[pc] = key
    BY <1>6, <2>2, DanglingIs DEF Refers
  <2>4. CASE cache[p] = store[p]
    BY <2>3, <2>4 DEF HasKey, IdsAt, IdsOf
  <2>5. CASE cache[p] # store[p]
    <3>0. pt \in Tables(schema) /\ p \in RowIds /\ store[p] # cache[p] /\ store[p] # None /\ store[p].table = pt
      BY <1>1, <2>3, <2>5
    <3> DEFINE m == [id |-> p, before |-> ValuesOf(store[p]), now |-> ValuesOf(cache[p])]
    <3>1. m \in NetChanges(pt) /\ m.id = p /\ m.before = ValuesOf(store[p]) /\ m.now = ValuesOf(cache[p])
      BY <3>0 DEF NetChanges, IdsOf
    <3> HIDE DEF m
    <3>2. m.before = store[p].values /\ m.before # None /\ m.before[pc] = key
      BY <1>1, <2>3, <3>1, NetChangesAre DEF ValuesOf
    <3>3. CASE cache[p] = None
      <4>1. m.now = None
        BY <3>1, <3>3 DEF ValuesOf
      <4>2. m \in Deleted(pt) /\ Changed(m, pc)
        BY <3>1, <3>2, <4>1 DEF Deleted, Changed
      <4>3. fk \in ReferencingForeignKeys(pt, AnyAction)
        BY <1>1 DEF ReferencingForeignKeys
      <4> QED
        BY <1>1, <1>3, <3>2, <4>2, <4>3 DEF NoneRefers
    <3>4. CASE cache[p] # None
      <4>1. cache[p].table = pt
        BY <2>3, <3>4 DEF Covers, RowCovered
      <4>2. m.now = cache[p].values /\ m.now # None
        BY <1>1, <3>1, <3>4, NetChangesAre DEF ValuesOf
      <4>3. CASE m.now[pc] = key
        BY <3>4, <4>1, <4>2, <4>3 DEF HasKey, IdsAt, IdsOf
      <4>4. CASE m.now[pc] # key
        <5>1. m \in Modified(pt) /\ Changed(m, pc)
          BY <3>1, <3>2, <4>2, <4>4 DEF Modified, Added, Deleted, Changed
        <5>2. fk \in ReferencingForeignKeys(pt, {"restrict"})
          BY <1>1 DEF ReferencingForeignKeys
        <5> QED
          BY <1>1, <1>3, <3>2, <5>1, <5>2 DEF NoneRefers
      <4> QED
        BY <4>3, <4>4
    <3> QED
      BY <3>3, <3>4
  <2> QED
    BY <2>4, <2>5
<1> QED
  BY <1>4, <1>5, <1>6

-----------------------------------------------------------------------------
(* Transactions *)

\* The keys of the schemas on which statements are run are regular.
RegularSchemas == \A s \in DOMAIN Studied : Regular(s)

\* There are no data until a statement is executed.
Nothing ==
    /\ phase = "idle" /\ store = NoRows /\ cache = NoRows
    /\ touched = {} /\ scope = {}

\* The data of an open database: what is committed has no reference without its row, nor
\* has what is in memory, by an immediate key after a statement, by any key when the checks
\* before the commit are through; and the tables that these look at are locked.
Data ==
    /\ db = "open" /\ schema \in DOMAIN Studied
    /\ phase \in {"idle", "active", "failed", "storing"}
    /\ cache \in RowsType /\ store \in RowsType
    /\ touched \in SUBSET TableNames /\ touched \subseteq scope
    /\ \A fk \in ForeignKeys(schema) : ~Dangling(store, fk)
    /\ phase = "idle" => cache = store /\ touched = {} /\ scope = {}
    /\ phase \in {"active", "storing"} => NoneDangling(cache)
    /\ phase = "storing" => \A fk \in ForeignKeys(schema) : ~Dangling(cache, fk)
    /\ Covers(store, cache, scope)

Inv == SchemaInv /\ (Nothing \/ Data)

LEMMA NothingDangles ==
    ASSUME NEW fk PROVE ~Dangling(NoRows, fk)
BY DEF Dangling, IdsOf, NoRows

LEMMA NothingIsData ==
    ASSUME Nothing, db = "open", schema \in DOMAIN Studied PROVE Data
<1>1. cache = NoRows /\ store = NoRows /\ phase = "idle" /\ touched = {} /\ scope = {}
  BY DEF Nothing
<1>2. NoRows \in RowsType
  BY DEF NoRows, RowsType
<1>3. Covers(NoRows, NoRows, {})
  BY DEF Covers, RowCovered
<1>4. \A fk \in ForeignKeys(schema) : ~Dangling(NoRows, fk)
  BY NothingDangles
<1> QED
  BY <1>1, <1>2, <1>3, <1>4 DEF Data

LEMMA IsUsable ==
    ASSUME RegularSchemas, SchemaInv, db = "open", schema \in DOMAIN Studied
    PROVE  Usable /\ created \in Seq(TableNames)
<1>1. db # None
  BY SchemaAssumption
<1> QED
  BY <1>1 DEF RegularSchemas, SchemaInv, Usable

LEMMA CoversMore ==
    ASSUME NEW row, NEW new, NEW few, NEW many, few \subseteq many, RowCovered(row, new, few)
    PROVE  RowCovered(row, new, many)
<1>1. \A t, c : ColumnCovered(t, c, few) => ColumnCovered(t, c, many)
  BY DEF ColumnCovered
<1> QED
  BY <1>1 DEF RowCovered

LEMMA RowsCompose ==
    ASSUME NEW a, NEW b, NEW c, NEW tables, RowCovered(a, b, tables), RowCovered(b, c, tables),
           b = None /\ c # None => a = None
    PROVE  RowCovered(a, c, tables)
<1>1. CASE a = b \/ b = c \/ a = c
  BY <1>1 DEF RowCovered
<1>2. CASE a # b /\ b # c /\ a # c
  <2>1. CASE a = None
    <3>1. b # None /\ ParentTables(b.table) \subseteq tables /\ c # None
      BY <1>2, <2>1 DEF RowCovered
    <3>2. c.table = b.table
      BY <1>2, <3>1 DEF RowCovered
    <3> QED
      BY <2>1, <3>1, <3>2 DEF RowCovered
  <2>2. CASE a # None
    <3>1. b # None
      BY <1>2, <2>2
    <3>2. /\ b.table = a.table
          /\ \A k \in Columns(a.table) : b.values[k] # a.values[k] => ColumnCovered(a.table, k, tables)
      BY <1>2, <2>2, <3>1 DEF RowCovered
    <3>3. CASE c = None
      BY <1>2, <2>2, <3>1, <3>2, <3>3 DEF RowCovered
    <3>4. CASE c # None
      <4>1. /\ c.table = b.table
            /\ \A k \in Columns(b.table) : c.values[k] # b.values[k] => ColumnCovered(b.table, k, tables)
        BY <1>2, <3>1, <3>4 DEF RowCovered
      <4> QED
        BY <2>2, <3>2, <3>4, <4>1 DEF RowCovered
    <3> QED
      BY <3>3, <3>4
  <2> QED
    BY <2>1, <2>2
<1> QED
  BY <1>1, <1>2

\* A statement adds to what a transaction covers.
LEMMA CoversCompose ==
    ASSUME NEW old, NEW mid, NEW new, NEW before, NEW tables,
           Covers(old, mid, before), Covers(mid, new, tables),
           \A id \in RowIds : mid[id] = None /\ new[id] # None => old[id] = None
    PROVE  Covers(old, new, before \cup tables)
<1> DEFINE all == before \cup tables
<1>1. before \subseteq all /\ tables \subseteq all
  OBVIOUS
<1> HIDE DEF all
<1>2. ASSUME NEW id \in RowIds PROVE RowCovered(old[id], new[id], all)
  <2>1. RowCovered(old[id], mid[id], all)
    <3>1. RowCovered(old[id], mid[id], before)
      BY DEF Covers
    <3> QED
      BY <1>1, <3>1, CoversMore
  <2>2. RowCovered(mid[id], new[id], all)
    <3>1. RowCovered(mid[id], new[id], tables)
      BY DEF Covers
    <3> QED
      BY <1>1, <3>1, CoversMore
  <2> QED
    BY <2>1, <2>2, RowsCompose
<1>3. Covers(old, new, all)
  BY <1>2 DEF Covers
<1> QED
  BY <1>3 DEF all

\* After a statement the data are as they should be.
LEMMA ExecutesKeeps ==
    ASSUME Data, NEW r, NEW tables, NEW fresh, Outcome(Current, r, fresh, tables), Executes(r, tables),
           \A id \in fresh : store[id] = None
    PROVE  Data'
<1>1. /\ phase \in {"idle", "active"} /\ cache' = r.rows /\ touched' = r.touched
      /\ scope' = scope \cup tables /\ phase' = (IF r.ok THEN "active" ELSE "failed")
      /\ schema' = schema /\ db' = db /\ store' = store
  BY DEF Executes, schemaVars
<1>2. /\ r.rows \in RowsType /\ r.touched \in SUBSET TableNames
      /\ r.touched \subseteq touched \cup tables
      /\ NoneDangling(cache) /\ r.ok => NoneDangling(r.rows)
      /\ \A id \in RowIds : cache[id] = None /\ r.rows[id] # None => id \in fresh
      /\ Covers(cache, r.rows, tables)
  BY DEF Outcome, Executing, Current
<1>3. NoneDangling(cache)
  BY <1>1 DEF Data, NoneDangling
<1>4. Covers(store, r.rows, scope \cup tables)
  BY <1>2, CoversCompose DEF Data
<1>5. Covers(store, r.rows, scope \cup tables)'
  BY <1>1, <1>4 DEF Covers, RowCovered, ColumnCovered, ParentTables, ChildTables, ReferencingForeignKeys, Columns
<1>6. RowsType' = RowsType
  BY <1>1 DEF RowsType, Row, AnyValues, Columns
<1>7. r.ok => NoneDangling(cache)'
  BY <1>1, <1>2, <1>3 DEF NoneDangling, Dangling, IdsOf, HasKey, IdsAt
<1>8. (\A fk \in ForeignKeys(schema) : ~Dangling(store, fk))'
  BY <1>1 DEF Data, Dangling, IdsOf, HasKey, IdsAt
<1>9. /\ db' = "open" /\ schema' \in DOMAIN Studied /\ phase' \in {"active", "failed"}
      /\ cache' \in RowsType' /\ store' \in RowsType'
      /\ touched' \in SUBSET TableNames /\ touched' \subseteq scope'
      /\ phase' = "active" => NoneDangling(cache)'
  BY <1>1, <1>2, <1>6, <1>7 DEF Data
<1>10. Covers(store, cache, scope)'
  BY <1>1, <1>5 DEF Covers
<1> QED
  BY <1>8, <1>9, <1>10 DEF Data

LEMMA CurrentExecutes ==
    ASSUME Data PROVE Current \in Executing /\ Current.rows = cache
BY DEF Data, Current, Executing

LEMMA InsertRowKeeps ==
    ASSUME Usable, Data, NEW t \in Tables(schema), InsertRow(t) PROVE Data'
<1>1. PICK id \in FreshIds, values \in AnyValues(t) :
          Executes(Insert(Current, t, {Insertion(id, values)}), InsertScope(t, FALSE))
  BY DEF InsertRow
<1>2. id \in RowIds /\ cache[id] = None /\ store[id] = None
  BY DEF FreshIds
<1>3. Outcome(Current, Insert(Current, t, {Insertion(id, values)}), {id}, InsertScope(t, FALSE))
  BY <1>2, CurrentExecutes, InsertOutcome
<1> DEFINE fresh == {id}
           r == Insert(Current, t, {Insertion(id, values)})
<1>4. Outcome(Current, r, fresh, InsertScope(t, FALSE)) /\ Executes(r, InsertScope(t, FALSE)) /\ \A i \in fresh : store[i] = None
  BY <1>1, <1>2, <1>3
<1> HIDE DEF fresh, r
<1> QED
  BY <1>4, ExecutesKeeps

LEMMA ReplaceRowKeeps ==
    ASSUME Usable, Data, NEW t \in Tables(schema), ReplaceRow(t) PROVE Data'
<1>1. PICK id \in FreshIds, values \in AnyValues(t) :
          Executes(InsertOrReplace(Current, t, Insertion(id, values)), InsertScope(t, TRUE))
  BY DEF ReplaceRow
<1>2. id \in RowIds /\ cache[id] = None /\ store[id] = None
  BY DEF FreshIds
<1>3. Outcome(Current, InsertOrReplace(Current, t, Insertion(id, values)), {id}, InsertScope(t, TRUE))
  BY <1>2, CurrentExecutes, ReplaceOutcome
<1> DEFINE fresh == {id}
           r == InsertOrReplace(Current, t, Insertion(id, values))
<1>4. Outcome(Current, r, fresh, InsertScope(t, TRUE)) /\ Executes(r, InsertScope(t, TRUE)) /\ \A i \in fresh : store[i] = None
  BY <1>1, <1>2, <1>3
<1> HIDE DEF fresh, r
<1> QED
  BY <1>4, ExecutesKeeps

LEMMA UpdateRowsKeeps ==
    ASSUME Usable, Data, NEW t \in Tables(schema), UpdateRows(t) PROVE Data'
<1> DEFINE Now(values, columns, set) == [c \in Columns(t) |-> IF c \in columns THEN set[c] ELSE values[c]]
           Of(ids, columns, set) ==
               {[id |-> id, before |-> cache[id].values, now |-> Now(cache[id].values, columns, set)] : id \in ids}
<1>1. PICK ids \in SUBSET IdsOf(cache, t), columns \in SUBSET Columns(t) :
          \E set \in [columns -> Keys \cup {Null}] :
              Executes(Update(Current, t, Of(ids, columns, set)), UpdateScope(t, columns))
  BY DEF UpdateRows
<1>2. PICK set \in [columns -> Keys \cup {Null}] :
          Executes(Update(Current, t, Of(ids, columns, set)), UpdateScope(t, columns))
  BY <1>1
<1> DEFINE mods == Of(ids, columns, set)
<1>3. Current \in Executing /\ Current.rows = cache /\ cache \in RowsType
  BY CurrentExecutes DEF Data
<1>4. ids \in SUBSET RowIds /\ \A id \in ids : cache[id] # None /\ cache[id].table = t
  BY DEF IdsOf
<1>5. ASSUME NEW id \in ids
      PROVE  cache[id].values \in AnyValues(t) /\ Now(cache[id].values, columns, set) \in AnyValues(t)
  <2>1. cache[id].values \in AnyValues(t)
    BY <1>3, <1>4, RowsOf
  <2>2. \A c \in Columns(t) : (IF c \in columns THEN set[c] ELSE cache[id].values[c]) \in Keys \cup {Null}
    BY <2>1 DEF AnyValues
  <2> QED
    BY <2>1, <2>2 DEF AnyValues
<1>6. mods \in SUBSET Mods(t) /\ Distinct(mods)
  <2>1. ASSUME NEW m \in mods PROVE m \in Mods(t)
    <3>1. PICK id \in ids : m = [id |-> id, before |-> cache[id].values, now |-> Now(cache[id].values, columns, set)]
      OBVIOUS
    <3> HIDE DEF Now
    <3> QED
      BY <1>4, <1>5, <3>1 DEF Mods
  <2>2. Distinct(mods)
    <3> HIDE DEF Now
    <3> QED
      BY DEF Distinct
  <2> HIDE DEF mods
  <2> QED
    BY <2>1, <2>2
<1>7. IsFiniteSet(mods)
  <2>1. IsFiniteSet(ids)
    BY <1>4, DataAssumption, FS_Subset
  <2> DEFINE of == [id \in ids |-> [id |-> id, before |-> cache[id].values, now |-> Now(cache[id].values, columns, set)]]
  <2>2. mods = {of[id] : id \in ids}
    OBVIOUS
  <2> HIDE DEF of, mods
  <2> QED
    BY <2>1, <2>2, ImageFinite
<1>8. Changing(cache, t, mods)
  <2>1. ASSUME NEW m \in mods
        PROVE  /\ m.id \in RowIds /\ cache[m.id] # None /\ cache[m.id].table = t
               /\ m.before = cache[m.id].values /\ m.now \in AnyValues(t)
    <3>1. PICK id \in ids : m = [id |-> id, before |-> cache[id].values, now |-> Now(cache[id].values, columns, set)]
      OBVIOUS
    <3> HIDE DEF Now
    <3> QED
      BY <1>4, <1>5, <3>1
  <2> HIDE DEF mods
  <2> QED
    BY <2>1 DEF Changing
<1>9. OfColumns(t, mods, columns)
  <2>1. ASSUME NEW m \in mods, NEW c \in Columns(t), c \notin columns PROVE m.now[c] = m.before[c]
    <3>1. PICK id \in ids : m = [id |-> id, before |-> cache[id].values, now |-> Now(cache[id].values, columns, set)]
      OBVIOUS
    <3>2. Now(cache[id].values, columns, set)[c] = cache[id].values[c]
      BY <2>1
    <3> HIDE DEF Now
    <3> QED
      BY <3>1, <3>2
  <2> HIDE DEF mods
  <2> QED
    BY <2>1 DEF OfColumns
<1>10. Executes(Update(Current, t, mods), UpdateScope(t, columns))
  BY <1>2
<1> HIDE DEF mods
<1>11. Outcome(Current, Update(Current, t, mods), {}, UpdateScope(t, columns))
  BY <1>3, <1>6, <1>7, <1>8, <1>9, UpdateOutcome
<1> QED
  BY <1>10, <1>11, ExecutesKeeps

LEMMA DeleteRowsKeeps ==
    ASSUME Usable, created \in Seq(TableNames), Data, NEW t \in Tables(schema), DeleteRows(t) PROVE Data'
<1>1. PICK ids \in SUBSET IdsOf(cache, t) : Executes(RemoveRows(Current, t, ids), DeleteScope(t))
  BY DEF DeleteRows
<1>2. Outcome(Current, RemoveRows(Current, t, ids), {}, DeleteScope(t))
  BY CurrentExecutes, DeleteOutcome
<1> QED
  BY <1>1, <1>2, ExecutesKeeps

\* The commit checks what the statements have left to it.
LEMMA CheckDeferredKeeps ==
    ASSUME Usable, Data, CheckDeferred PROVE Data'
<1> DEFINE r == CheckDeferredConstraints(Current)
           Of(t) == CheckDeferredOf(Current, t)
<1>1. /\ phase = "active" /\ touched' = r.touched /\ phase' = (IF r.ok THEN "storing" ELSE "failed")
      /\ UNCHANGED <<schemaVars, cache, store, scope>>
  BY DEF CheckDeferred
<1>2. /\ r.ok <=> \A t \in Tables(schema) : Of(t).ok
      /\ r.touched = touched \cup UNION {Of(t).touched : t \in Tables(schema)}
  BY DEF CheckDeferredConstraints, Current
<1>3. /\ cache \in RowsType /\ store \in RowsType /\ Covers(store, cache, scope)
      /\ \A fk \in ForeignKeys(schema) : ~Dangling(store, fk)
      /\ Current \in Executing /\ Current.rows = cache /\ Current.touched = touched
  BY CurrentExecutes DEF Data, Current
<1>4. ASSUME NEW t \in Tables(schema)
      PROVE  /\ Of(t).touched \subseteq touched \cup scope /\ Of(t).touched \subseteq TableNames
             /\ Of(t).ok =>
                  /\ ParentsFound(cache, t, Added(t), "deferrable")
                  /\ NoneRefers(cache, t, Deleted(t), "deferrable", AnyAction)
                  /\ ParentsFound(cache, t, Modified(t), "deferrable")
                  /\ NoneRefers(cache, t, Modified(t), "deferrable", {"restrict"})
  <2>1. /\ ParentsOf(ReferredKeys(t, Added(t), "deferrable")) \subseteq scope
        /\ ChildrenOf(ReferringKeys(t, Deleted(t), "deferrable", AnyAction)) \subseteq scope
        /\ ParentsOf(ReferredKeys(t, Modified(t), "deferrable")) \subseteq scope
        /\ ChildrenOf(ReferringKeys(t, Modified(t), "deferrable", {"restrict"})) \subseteq scope
    BY <1>3, DeferredCovered
  <2>2. /\ Checks(Current, scope, Of(t))
        /\ Of(t).ok =>
             /\ ParentsFound(Current.rows, t, Added(t), "deferrable")
             /\ NoneRefers(Current.rows, t, Deleted(t), "deferrable", AnyAction)
             /\ ParentsFound(Current.rows, t, Modified(t), "deferrable")
             /\ NoneRefers(Current.rows, t, Modified(t), "deferrable", {"restrict"})
    BY <1>3, <2>1, DeferredChecks
  <2> HIDE DEF Of
  <2> QED
    BY <1>3, <2>2 DEF Checks, Executing
<1> HIDE DEF r, Of
<1>5. r.touched \in SUBSET TableNames /\ r.touched \subseteq scope
  BY <1>2, <1>4 DEF Data
<1>6. NoneDangling(cache)
  BY <1>1 DEF Data
<1>7. ASSUME r.ok, NEW fk \in ForeignKeys(schema) PROVE ~Dangling(cache, fk)
  <2>1. CASE fk.timing = "immediate"
    BY <1>6, <2>1 DEF NoneDangling
  <2>2. CASE fk.timing = "deferrable"
    BY <1>2, <1>3, <1>4, <1>7, <2>2, DeferredKeep
  <2> QED
    BY <2>1, <2>2, ColumnsOfKeys
<1>8. /\ db' = db /\ schema' = schema /\ cache' = cache /\ store' = store /\ scope' = scope
      /\ RowsType' = RowsType
  BY <1>1 DEF schemaVars, RowsType, Row, AnyValues, Columns
<1>9. (\A fk \in ForeignKeys(schema) : ~Dangling(store, fk))'
  BY <1>3, <1>8 DEF Dangling, IdsOf, HasKey, IdsAt
<1>10. phase' = "storing" => (\A fk \in ForeignKeys(schema) : ~Dangling(cache, fk))'
  BY <1>1, <1>7, <1>8 DEF Dangling, IdsOf, HasKey, IdsAt
<1>11. NoneDangling(cache)'
  BY <1>6, <1>8 DEF NoneDangling, Dangling, IdsOf, HasKey, IdsAt
<1>12. Covers(store, cache, scope)'
  BY <1>3, <1>8
     DEF Covers, RowCovered, ColumnCovered, ParentTables, ChildTables, ReferencingForeignKeys, Columns
<1>13. /\ db' = "open" /\ schema' \in DOMAIN Studied /\ phase' \in {"storing", "failed"}
       /\ cache' \in RowsType' /\ store' \in RowsType'
       /\ touched' \in SUBSET TableNames /\ touched' \subseteq scope'
  BY <1>1, <1>3, <1>5, <1>8 DEF Data
<1> QED
  BY <1>9, <1>10, <1>11, <1>12, <1>13 DEF Data

\* A transaction ends in what it has checked, or in what there was before.
LEMMA EndKeeps ==
    ASSUME Data, NEW rows, rows \in RowsType, \A fk \in ForeignKeys(schema) : ~Dangling(rows, fk), End(rows)
    PROVE  Data'
<1>1. /\ cache' = rows /\ store' = rows /\ phase' = "idle" /\ scope' = {} /\ touched' = {}
      /\ db' = db /\ schema' = schema
  BY DEF End, schemaVars
<1>2. RowsType' = RowsType
  BY <1>1 DEF RowsType, Row, AnyValues, Columns
<1>3. (\A fk \in ForeignKeys(schema) : ~Dangling(store, fk))'
  BY <1>1 DEF Dangling, IdsOf, HasKey, IdsAt
<1>4. Covers(store, cache, scope)'
  BY <1>1 DEF Covers, RowCovered
<1> QED
  BY <1>1, <1>2, <1>3, <1>4 DEF Data

\* As long as there are no data the schema may change.
LEMMA SchemaKeepsNothing ==
    ASSUME Inv, phase = "idle", store = NoRows, UNCHANGED dataVars PROVE Nothing'
<1>1. Nothing
  BY DEF Inv, Data, Nothing
<1> QED
  BY <1>1 DEF Nothing, dataVars, NoRows

LEMMA StepInv ==
    ASSUME RegularSchemas, Inv, [Next]_vars PROVE Inv'
<1>1. SchemaInv'
  BY SchemaInvKept DEF Inv
<1>2. CASE Statement
  <2>1. db = "open" /\ schema \in DOMAIN Studied
    BY <1>2 DEF Statement
  <2>2. Data /\ Usable /\ created \in Seq(TableNames)
    BY <2>1, NothingIsData, IsUsable DEF Inv
  <2>3. PICK t \in Tables(schema) : InsertRow(t) \/ ReplaceRow(t) \/ UpdateRows(t) \/ DeleteRows(t)
    BY <1>2 DEF Statement
  <2> QED
    BY <1>1, <2>2, <2>3, InsertRowKeeps, ReplaceRowKeeps, UpdateRowsKeeps, DeleteRowsKeeps DEF Inv
<1>3. ASSUME Data
      PROVE  Usable
  BY <1>3, IsUsable DEF Data, Inv
<1>4. CASE CheckDeferred
  <2>1. Data
    BY <1>4 DEF CheckDeferred, Inv, Nothing
  <2> QED
    BY <1>1, <1>3, <1>4, <2>1, CheckDeferredKeeps DEF Inv
<1>5. CASE Stored
  <2>1. Data /\ phase = "storing" /\ End(cache)
    BY <1>5 DEF Stored, Inv, Nothing
  <2>2. cache \in RowsType /\ \A fk \in ForeignKeys(schema) : ~Dangling(cache, fk)
    BY <2>1 DEF Data
  <2> QED
    BY <1>1, <2>1, <2>2, EndKeeps DEF Inv
<1>6. CASE RollBack
  <2>1. Data /\ End(store)
    BY <1>6 DEF RollBack, Inv, Nothing
  <2>2. store \in RowsType /\ \A fk \in ForeignKeys(schema) : ~Dangling(store, fk)
    BY <2>1 DEF Data
  <2> QED
    BY <1>1, <2>1, <2>2, EndKeeps DEF Inv
<1>7. CASE phase = "idle" /\ store = NoRows /\ SchemaNext /\ UNCHANGED dataVars
  BY <1>1, <1>7, SchemaKeepsNothing DEF Inv
<1>8. CASE UNCHANGED vars
  <2>1. UNCHANGED schemaVars /\ UNCHANGED dataVars
    BY <1>8 DEF vars
  <2>2. Nothing => Nothing'
    BY <2>1 DEF Nothing, dataVars, NoRows
  <2>3. Data => Data'
    BY <2>1 DEF Data, dataVars, schemaVars, RowsType, Row, AnyValues, Columns, Dangling, IdsOf, HasKey, IdsAt,
                NoneDangling, Covers, RowCovered, ColumnCovered, ParentTables, ChildTables, ReferencingForeignKeys
  <2> QED
    BY <1>1, <2>2, <2>3 DEF Inv
<1> QED
  BY <1>2, <1>4, <1>5, <1>6, <1>7, <1>8 DEF Next

LEMMA InitInv ==
    ASSUME Init PROVE Inv
<1>1. SchemaInv
  BY SchemaInitInv DEF Init
<1>2. Nothing
  BY DEF Init, Nothing
<1> QED
  BY <1>1, <1>2 DEF Inv

\* Inv holds in every state.
LEMMA Invariant ==
    ASSUME RegularSchemas PROVE Spec => []Inv
<1>1. Init => Inv
  BY InitInv
<1>2. Inv /\ [Next]_vars => Inv'
  BY StepInv
<1> QED
  BY <1>1, <1>2, PTL DEF Spec

-----------------------------------------------------------------------------
(* The theorems *)

\* In a schema of regular keys every reference is to a row that exists: of an immediate
\* key after each statement that has not failed, of any key in what is committed; whatever
\* cascades, is replaced, updated or deleted on the way.
THEOREM ReferencesKept ==
    ASSUME RegularSchemas PROVE Spec => []ReferencesExist
<1>1. Inv => ReferencesExist
  <2>1. ASSUME Nothing PROVE ReferencesExist
    <3>1. \A fk \in ForeignKeys(schema) : ~Dangling(store, fk)
      BY <2>1, NothingDangles DEF Nothing
    <3> QED
      BY <2>1, <3>1 DEF ReferencesExist, Nothing
  <2>2. ASSUME Data PROVE ReferencesExist
    BY <2>2 DEF Data, NoneDangling, ReferencesExist
  <2> QED
    BY <2>1, <2>2 DEF Inv
<1> QED
  BY <1>1, Invariant, PTL

\* In a schema of regular keys a transaction changes, and looks keys up in, only tables
\* that its statements lock, in their cascades and in the checks before its commit.
THEOREM ScopeCovers ==
    ASSUME RegularSchemas PROVE Spec => []TouchesOnlyItsScope
<1>1. Inv => TouchesOnlyItsScope
  BY DEF Inv, Nothing, Data, TouchesOnlyItsScope
<1> QED
  BY <1>1, Invariant, PTL
=============================================================================
