---------------------------- MODULE SchemaProofs -----------------------------
(***************************************************************************)
(* What holds of the builders of Schema after any calls, and of a schema   *)
(* that is accepted: it is sound, and the depth-first search reports a     *)
(* loop exactly when there is one.                                         *)
(*                                                                         *)
(* First, loops: what a recursive function over the subsets of a finite    *)
(* set, over the places of a sequence or over the naturals computes.  The  *)
(* step of a loop is a function here, not an operator, and what holds      *)
(* throughout it is a set, so that the lemmas can be cited for the folds   *)
(* of the modules.                                                         *)
(***************************************************************************)
EXTENDS Schema, FiniteSetTheorems, WellFoundedInduction, TLAPS

-----------------------------------------------------------------------------
(* Induction *)

\* A set of naturals with 0 in it, and with every number the next one, has them all.
LEMMA Induction ==
    ASSUME NEW G, 0 \in G, \A n \in Nat : n \in G => n + 1 \in G
    PROVE  Nat \subseteq G
<1> DEFINE S == {n \in Nat : n \notin G}
<1>1. SUFFICES ASSUME S # {} PROVE FALSE
  OBVIOUS
<1>2. PICK n \in S : \A m \in S : ~(<<m, n>> \in OpToRel(<, Nat))
  BY <1>1, NatLessThanWellFounded, WFMin
<1>3. n \in Nat /\ n # 0 /\ n - 1 \in Nat /\ (n - 1) + 1 = n
  OBVIOUS
<1>4. <<n - 1, n>> \in OpToRel(<, Nat)
  BY <1>3 DEF OpToRel
<1>5. n - 1 \notin S
  BY <1>2, <1>4
<1> QED
  BY <1>3, <1>5

\* The same for the subsets of a finite set, however they are taken apart.
Inductive(S, pick, G) ==
    /\ IsFiniteSet(S) /\ {} \in G
    /\ \A T \in SUBSET S : T # {} => pick[T] \in T
    /\ \A T \in SUBSET S : T # {} /\ T \ {pick[T]} \in G => T \in G

LEMMA SubsetInduction ==
    ASSUME NEW S, NEW pick, NEW G, Inductive(S, pick, G)
    PROVE  SUBSET S \subseteq G
<1> USE DEF Inductive
<1> DEFINE H == {n \in Nat : \A T \in SUBSET S : Cardinality(T) = n => T \in G}
<1>1. 0 \in H
  <2> SUFFICES ASSUME NEW T \in SUBSET S, Cardinality(T) = 0 PROVE T \in G
    OBVIOUS
  <2>1. T = {}
    BY FS_Subset, FS_EmptySet
  <2> QED
    BY <2>1
<1>2. ASSUME NEW n \in Nat, n \in H PROVE n + 1 \in H
  <2> SUFFICES ASSUME NEW T \in SUBSET S, Cardinality(T) = n + 1 PROVE T \in G
    OBVIOUS
  <2>1. IsFiniteSet(T) /\ T # {}
    BY FS_Subset, FS_EmptySet
  <2>2. pick[T] \in T /\ (n + 1) - 1 = n
    BY <2>1
  <2>3. Cardinality(T \ {pick[T]}) = n
    <3>1. ASSUME NEW x \in T PROVE Cardinality(T \ {x}) = Cardinality(T) - 1
      BY <2>1, FS_RemoveElement
    <3> QED
      BY <2>2, <3>1
  <2> QED
    BY <1>2, <2>1, <2>2, <2>3
<1>3. Nat \subseteq H
  <2> HIDE DEF H
  <2> QED
    BY <1>1, <1>2, Induction
<1>4. ASSUME NEW T \in SUBSET S PROVE T \in G
  <2>1. Cardinality(T) \in Nat
    BY FS_Subset, FS_CardinalityType
  <2> QED
    BY <1>3, <2>1
<1> QED
  BY <1>4

\* The last place of some places of a sequence is one of them.
LEMMA LastPlace ==
    ASSUME NEW n \in Nat, NEW T \in SUBSET (1 .. n), T # {}
    PROVE  Max(T) \in T /\ \A i \in T : i <= Max(T)
<1> DEFINE G == {k \in Nat : \A S \in SUBSET (1 .. k) :
                   S # {} => \E m \in S : \A i \in S : m >= i}
<1>1. 0 \in G
  <2>1. 1 .. 0 = {}
    OBVIOUS
  <2> QED
    BY <2>1
<1>2. ASSUME NEW k \in Nat, k \in G PROVE k + 1 \in G
  <2> SUFFICES ASSUME NEW S \in SUBSET (1 .. k + 1), S # {} PROVE \E m \in S : \A i \in S : m >= i
    OBVIOUS
  <2>1. CASE k + 1 \in S
    <3>1. \A i \in S : k + 1 >= i
      OBVIOUS
    <3> QED
      BY <2>1, <3>1
  <2>2. CASE k + 1 \notin S
    <3>1. S \in SUBSET (1 .. k)
      BY <2>2
    <3> QED
      BY <1>2, <3>1
  <2> QED
    BY <2>1, <2>2
<1>3. Nat \subseteq G
  <2> HIDE DEF G
  <2> QED
    BY <1>1, <1>2, Induction
<1>4. \E m \in T : \A i \in T : m >= i
  BY <1>3
<1>5. Max(T) \in T /\ \A i \in T : Max(T) >= i
  BY <1>4 DEF Max
<1>6. T \subseteq Int
  OBVIOUS
<1> QED
  BY <1>5, <1>6

-----------------------------------------------------------------------------
(* Recursive functions *)

\* There is a function that repeats a step.
Repeats(f, A, start, next) ==
    f \in [Nat -> A] /\ f[0] = start /\ \A n \in Nat : f[n + 1] = next[f[n]]

LEMMA Repetition ==
    ASSUME NEW A, NEW start \in A, NEW next, \A a \in A : next[a] \in A
    PROVE  \E f : Repeats(f, A, start, next)
<1> DEFINE Fits(f, n) == f[0] = start /\ \A k \in 1 .. n : f[k] = next[f[k - 1]]
           G == {n \in Nat : \E f \in [Nat -> A] : Fits(f, n)}
<1>1. 0 \in G
  <2>1. Fits([n \in Nat |-> start], 0)
    OBVIOUS
  <2> QED
    BY <2>1
<1>2. ASSUME NEW n \in Nat, n \in G PROVE n + 1 \in G
  <2>1. PICK f \in [Nat -> A] : Fits(f, n)
    BY <1>2
  <2> DEFINE g == [k \in Nat |-> IF k = n + 1 THEN next[f[n]] ELSE f[k]]
  <2>2. g \in [Nat -> A]
    OBVIOUS
  <2>3. Fits(g, n + 1)
    <3>1. g[0] = start
      BY <2>1
    <3>2. ASSUME NEW k \in 1 .. n + 1 PROVE g[k] = next[g[k - 1]]
      <4>1. k \in Nat /\ k - 1 \in Nat /\ k - 1 # n + 1
        OBVIOUS
      <4>2. g[k - 1] = f[k - 1]
        BY <4>1
      <4>3. CASE k = n + 1
        BY <4>2, <4>3
      <4>4. CASE k # n + 1
        <5>1. k \in 1 .. n
          BY <4>4
        <5> QED
          BY <2>1, <4>1, <4>2, <4>4, <5>1
      <4> QED
        BY <4>3, <4>4
    <3> QED
      BY <3>1, <3>2
  <2>4. n + 1 \in Nat /\ \E e \in [Nat -> A] : Fits(e, n + 1)
    <3> HIDE DEF g, Fits
    <3> QED
      BY <2>2, <2>3
  <2> QED
    BY <2>4
<1>3. Nat \subseteq G
  <2> HIDE DEF G
  <2> QED
    BY <1>1, <1>2, Induction
<1> DEFINE F(n) == CHOOSE f \in [Nat -> A] : Fits(f, n)
<1>4. \A n \in Nat : F(n) \in [Nat -> A] /\ Fits(F(n), n)
  BY <1>3
<1> DEFINE h == [n \in Nat |-> F(n)[n]]
<1> HIDE DEF F
<1>5. h \in [Nat -> A]
  BY <1>4
<1>6. h[0] = start
  BY <1>4
<1>7. ASSUME NEW n \in Nat PROVE \A k \in Nat : k <= n => F(n)[k] = F(k)[k]
  <2> DEFINE K == {k \in Nat : \A m \in Nat : k <= m => F(m)[k] = F(k)[k]}
  <2>1. 0 \in K
    BY <1>4
  <2>2. ASSUME NEW k \in Nat, k \in K PROVE k + 1 \in K
    <3>1. ASSUME NEW m \in Nat, k + 1 <= m PROVE F(m)[k + 1] = F(k + 1)[k + 1]
      <4>1. k + 1 \in 1 .. m /\ k + 1 \in 1 .. (k + 1) /\ (k + 1) - 1 = k /\ k <= m /\ k <= k + 1 /\ k + 1 \in Nat
        BY <3>1
      <4>2. F(m)[k + 1] = next[F(m)[k]] /\ F(k + 1)[k + 1] = next[F(k + 1)[k]]
        BY <1>4, <4>1
      <4> QED
        BY <2>2, <4>1, <4>2
    <3> QED
      BY <3>1
  <2>3. Nat \subseteq K
    <3> HIDE DEF K
    <3> QED
      BY <2>1, <2>2, Induction
  <2> QED
    BY <2>3
<1>8. ASSUME NEW n \in Nat PROVE h[n + 1] = next[h[n]]
  <2>1. n + 1 \in Nat /\ n + 1 \in 1 .. (n + 1) /\ (n + 1) - 1 = n /\ n <= n + 1
    OBVIOUS
  <2>2. F(n + 1)[n + 1] = next[F(n + 1)[n]]
    BY <1>4, <2>1
  <2> QED
    BY <1>7, <2>1, <2>2
<1> QED
  BY <1>5, <1>6, <1>8 DEF Repeats

\* A loop on a set S: where it starts, the element it takes off first, its step, and
\* a set that it does not leave.
Steps(S, A, base, pick, next) ==
    /\ IsFiniteSet(S) /\ base \in A
    /\ \A T \in SUBSET S : T # {} => pick[T] \in T
    /\ \A x \in S, a \in A : next[<<x, a>>] \in A

IsLoop(f, S, A, base, pick, next) ==
    /\ f \in [SUBSET S -> A]
    /\ \A T \in SUBSET S : f[T] = IF T = {} THEN base ELSE next[<<pick[T], f[T \ {pick[T]}]>>]

\* There is a function that takes a finite set apart and does a step for each element.
LEMMA SetLoop ==
    ASSUME NEW S, NEW A, NEW base, NEW pick, NEW next, Steps(S, A, base, pick, next)
    PROVE  \E f : IsLoop(f, S, A, base, pick, next)
<1> USE DEF Steps
<1> DEFINE Fits(f, T) == f[T] = IF T = {} THEN base ELSE next[<<pick[T], f[T \ {pick[T]}]>>]
           G == {n \in Nat : \E f \in [SUBSET S -> A] :
                   \A T \in SUBSET S : Cardinality(T) <= n => Fits(f, T)}
<1>0. \A T \in SUBSET S : IsFiniteSet(T) /\ Cardinality(T) \in Nat /\ (Cardinality(T) = 0 <=> T = {})
  BY FS_Subset, FS_CardinalityType, FS_EmptySet
<1>1. 0 \in G
  <2> DEFINE f == [T \in SUBSET S |-> base]
  <2>1. f \in [SUBSET S -> A]
    OBVIOUS
  <2>2. ASSUME NEW T \in SUBSET S, Cardinality(T) <= 0 PROVE Fits(f, T)
    <3>1. T = {}
      BY <1>0, <2>2
    <3> QED
      BY <3>1
  <2> QED
    BY <2>1, <2>2
<1>2. ASSUME NEW n \in Nat, n \in G PROVE n + 1 \in G
  <2>1. PICK f \in [SUBSET S -> A] : \A T \in SUBSET S : Cardinality(T) <= n => Fits(f, T)
    BY <1>2
  <2> DEFINE Rest(T) == T \ {pick[T]}
             g == [T \in SUBSET S |-> IF Cardinality(T) <= n THEN f[T] ELSE next[<<pick[T], f[Rest(T)]>>]]
  <2>2. \A T \in SUBSET S : T # {} => pick[T] \in S /\ Rest(T) \in SUBSET S
                                        /\ Cardinality(Rest(T)) = Cardinality(T) - 1
    BY <1>0, FS_RemoveElement
  <2>3. g \in [SUBSET S -> A]
    <3>1. ASSUME NEW T \in SUBSET S, ~(Cardinality(T) <= n) PROVE next[<<pick[T], f[Rest(T)]>>] \in A
      <4>1. T # {}
        BY <1>0, <3>1
      <4> QED
        BY <2>2, <4>1
    <3> QED
      BY <3>1
  <2>4. ASSUME NEW T \in SUBSET S, Cardinality(T) <= n + 1 PROVE Fits(g, T)
    <3>1. CASE T = {}
      <4>1. Cardinality(T) <= n
        BY <1>0, <3>1
      <4> QED
        BY <2>1, <3>1, <4>1
    <3>2. CASE T # {}
      <4>1. Rest(T) \in SUBSET S /\ Cardinality(Rest(T)) <= n
        BY <1>0, <2>2, <2>4, <3>2
      <4>2. g[Rest(T)] = f[Rest(T)]
        BY <4>1
      <4>3. CASE Cardinality(T) <= n
        <5>1. g[T] = f[T] /\ Fits(f, T)
          BY <2>1, <4>3
        <5> QED
          BY <3>2, <4>2, <5>1
      <4>4. CASE ~(Cardinality(T) <= n)
        <5>1. g[T] = next[<<pick[T], f[Rest(T)]>>]
          BY <4>4
        <5> QED
          BY <3>2, <4>2, <5>1
      <4> QED
        BY <4>3, <4>4
    <3> QED
      BY <3>1, <3>2
  <2>5. n + 1 \in Nat /\ \E e \in [SUBSET S -> A] :
              \A T \in SUBSET S : Cardinality(T) <= n + 1 => Fits(e, T)
    <3> HIDE DEF g, Fits
    <3> QED
      BY <2>3, <2>4
  <2> QED
    BY <2>5
<1>3. Nat \subseteq G
  <2> HIDE DEF G
  <2> QED
    BY <1>1, <1>2, Induction
<1>4. Cardinality(S) \in Nat /\ \A T \in SUBSET S : Cardinality(T) <= Cardinality(S)
  BY <1>0, FS_Subset
<1>5. PICK f \in [SUBSET S -> A] : \A T \in SUBSET S : Cardinality(T) <= Cardinality(S) => Fits(f, T)
  BY <1>3, <1>4
<1> QED
  BY <1>4, <1>5 DEF IsLoop

\* A loop over the places of a sequence, the last one taken off first.
LEMMA SequenceLoop ==
    ASSUME NEW n \in Nat, NEW A, NEW base \in A,
           NEW next, \A i \in 1 .. n, a \in A : next[<<i, a>>] \in A
    PROVE  \E f \in [SUBSET (1 .. n) -> A] : \A T \in SUBSET (1 .. n) :
               f[T] = IF T = {} THEN base ELSE next[<<Max(T), f[T \ {Max(T)}]>>]
<1> DEFINE S == 1 .. n
           pick == [T \in SUBSET S |-> Max(T)]
<1>1. \A T \in SUBSET S : pick[T] = Max(T)
  OBVIOUS
<1>2. Steps(S, A, base, pick, next)
  <2>1. IsFiniteSet(S)
    BY FS_Interval
  <2>2. \A T \in SUBSET S : T # {} => pick[T] \in T
    BY LastPlace
  <2>3. \A i \in S, a \in A : next[<<i, a>>] \in A
    OBVIOUS
  <2> HIDE DEF S, pick
  <2> QED
    BY <2>1, <2>2, <2>3 DEF Steps
<1> HIDE DEF S, pick
<1>3. PICK f : IsLoop(f, S, A, base, pick, next)
  BY <1>2, SetLoop
<1>4. f \in [SUBSET S -> A] /\ \A T \in SUBSET S :
         f[T] = IF T = {} THEN base ELSE next[<<Max(T), f[T \ {Max(T)}]>>]
  BY <1>1, <1>3 DEF IsLoop
<1> QED
  BY <1>4 DEF S

-----------------------------------------------------------------------------
(* What a TableBuilder keeps *)

Names == STRING \cup {PkName(t) : t \in TableNames}

Maps(K, V) == UNION {[D -> V] : D \in SUBSET K}

FkSpecs(t) ==
    [name : STRING, childTable : {t}, childColumn : STRING,
     parentTable : TableNames, parentColumn : STRING,
     action : {"cascade", "restrict"}, timing : {"immediate", "deferrable"}]

Shape(t) ==
    [columns : Maps(STRING, STRING), uniqueColumns : SUBSET STRING, uniqueIndices : SUBSET Names,
     nullable : SUBSET STRING, pkName : {None, PkName(t)}, indices : Maps(Names, Seq(STRING)),
     fkSpecs : Seq(FkSpecs(t))]

\* The foreign keys whose columns can have an index.
Kept(b) == {fk \in ToSet(b.fkSpecs) : b.columns[fk.childColumn] # "object"}

\* A unique column has a unique index, which is not that of a foreign key.
UniqueColumnsIndexed(b) ==
    \A c \in b.uniqueColumns :
        /\ c \in DOMAIN b.columns /\ b.columns[c] # "object"
        /\ \E name \in b.uniqueIndices \cap DOMAIN b.indices :
             b.indices[name] = <<c>> /\ \A fk \in Kept(b) : fk.name # name

KeyColumnsExist(b) ==
    \A fk \in ToSet(b.fkSpecs) :
        fk.childColumn \in DOMAIN b.columns /\ (fk.action = "cascade" => fk.timing = "immediate")

\* The index of a foreign key is unique if its column is; a primary key declared
\* later on the column leaves it as it is.
KeysIndexed(t, b) ==
    \A fk \in Kept(b) :
        /\ fk.name \in DOMAIN b.indices /\ b.indices[fk.name] = <<fk.childColumn>>
        /\ fk.name \in b.uniqueIndices => fk.childColumn \in b.uniqueColumns
        /\ fk.childColumn \in b.uniqueColumns =>
             \/ fk.name \in b.uniqueIndices
             \/ /\ b.pkName = PkName(t) /\ PkName(t) \in DOMAIN b.indices
                /\ b.indices[PkName(t)] = <<fk.childColumn>>

IsBuilder(t, b) ==
    b \in Shape(t) /\ UniqueColumnsIndexed(b) /\ KeyColumnsExist(b) /\ KeysIndexed(t, b)

-----------------------------------------------------------------------------
(* The calls *)

LEMMA ToSetAppend ==
    ASSUME NEW S, NEW s \in Seq(S), NEW x
    PROVE  ToSet(Append(s, x)) = ToSet(s) \cup {x}
<1>1. DOMAIN s = 1 .. Len(s) /\ DOMAIN Append(s, x) = 1 .. Len(s) + 1 /\ Len(s) \in Nat
  OBVIOUS
<1>2. \A i \in 1 .. Len(s) : Append(s, x)[i] = s[i]
  OBVIOUS
<1>3. Append(s, x)[Len(s) + 1] = x
  OBVIOUS
<1>4. 1 .. Len(s) + 1 = 1 .. Len(s) \cup {Len(s) + 1}
  BY <1>1
<1> QED
  BY <1>1, <1>2, <1>3, <1>4 DEF ToSet

LEMMA WithMaps ==
    ASSUME NEW K, NEW V, NEW f \in Maps(K, V), NEW key \in K, NEW value \in V
    PROVE  /\ With(f, key, value) \in Maps(K, V)
           /\ DOMAIN With(f, key, value) = DOMAIN f \cup {key}
           /\ With(f, key, value)[key] = value
           /\ \A k \in DOMAIN f : k # key => With(f, key, value)[k] = f[k]
<1>1. PICK D \in SUBSET K : f \in [D -> V]
  BY DEF Maps
<1>2. With(f, key, value) \in [D \cup {key} -> V] /\ D \cup {key} \in SUBSET K
  BY <1>1 DEF With
<1> QED
  BY <1>1, <1>2 DEF With, Maps

LEMMA IndexWith ==
    ASSUME NEW f \in Maps(Names, Seq(STRING)), NEW key \in Names, NEW value \in Seq(STRING)
    PROVE  /\ With(f, key, value) \in Maps(Names, Seq(STRING))
           /\ DOMAIN With(f, key, value) = DOMAIN f \cup {key}
           /\ With(f, key, value)[key] = value
           /\ \A k \in DOMAIN f : k # key => With(f, key, value)[k] = f[k]
<1>1. PICK D \in SUBSET Names : f \in [D -> Seq(STRING)]
  BY DEF Maps
<1>2. With(f, key, value) \in [D \cup {key} -> Seq(STRING)] /\ D \cup {key} \in SUBSET Names
  BY <1>1 DEF With
<1> QED
  BY <1>1, <1>2 DEF With, Maps

LEMMA NewTableIsBuilder ==
    ASSUME NEW t PROVE IsBuilder(t, NewTable)
<1>1. <<>> \in Maps(STRING, STRING) /\ <<>> \in Maps(Names, Seq(STRING))
  <2>1. <<>> \in [{} -> STRING] /\ <<>> \in [{} -> Seq(STRING)]
    OBVIOUS
  <2> QED
    BY <2>1 DEF Maps
<1>2. <<>> \in Seq(FkSpecs(t)) /\ ToSet(<<>>) = {}
  BY DEF ToSet
<1>3. NewTable \in Shape(t)
  BY <1>1, <1>2 DEF NewTable, Shape
<1> QED
  BY <1>2, <1>3 DEF NewTable, IsBuilder, UniqueColumnsIndexed, KeyColumnsExist, KeysIndexed, Kept

LEMMA SameIndices ==
    ASSUME NEW b, UniqueColumnsIndexed(b), NEW r,
           r.columns = b.columns, r.uniqueColumns = b.uniqueColumns,
           r.uniqueIndices = b.uniqueIndices, r.indices = b.indices, Kept(r) = Kept(b)
    PROVE  UniqueColumnsIndexed(r)
BY DEF UniqueColumnsIndexed

\* What is kept depends neither on the nullable columns nor on the name of the key.
LEMMA SameKeys ==
    ASSUME NEW t, NEW b, IsBuilder(t, b), NEW r \in Shape(t),
           r.columns = b.columns, r.uniqueColumns = b.uniqueColumns,
           r.uniqueIndices = b.uniqueIndices, r.indices = b.indices, r.fkSpecs = b.fkSpecs,
           r.pkName \in {b.pkName, PkName(t)}
    PROVE  IsBuilder(t, r)
<1>1. Kept(r) = Kept(b)
  BY DEF Kept
<1>2. UniqueColumnsIndexed(r)
  BY <1>1 DEF IsBuilder, UniqueColumnsIndexed
<1>3. KeyColumnsExist(r)
  BY DEF IsBuilder, KeyColumnsExist
<1>4. KeysIndexed(t, r)
  BY <1>1 DEF IsBuilder, KeysIndexed
<1> QED
  BY <1>2, <1>3, <1>4 DEF IsBuilder

LEMMA AddColumnKeeps ==
    ASSUME NEW t \in TableNames, NEW b, IsBuilder(t, b), NEW call,
           call.column \in STRING, call.type \in STRING, call.table = t
    PROVE  IsBuilder(t, AddColumn(b, call))
<1> DEFINE r == AddColumn(b, call)
<1>1. CASE ~NameFree(b, call.table, call.column)
  BY <1>1 DEF AddColumn
<1>2. CASE NameFree(b, call.table, call.column)
  <2>1. b \in Shape(t)
    BY DEF IsBuilder
  <2>2. r.columns = With(b.columns, call.column, call.type) /\ r.uniqueColumns = b.uniqueColumns
          /\ r.uniqueIndices = b.uniqueIndices /\ r.pkName = b.pkName /\ r.indices = b.indices
          /\ r.fkSpecs = b.fkSpecs /\ r.nullable \in SUBSET STRING
    BY <1>2, <2>1 DEF AddColumn, Shape
  <2>3. b.columns \in Maps(STRING, STRING)
    BY <2>1 DEF Shape
  <2>4. /\ r.columns \in Maps(STRING, STRING)
        /\ DOMAIN r.columns = DOMAIN b.columns \cup {call.column}
        /\ \A c \in DOMAIN b.columns : r.columns[c] = b.columns[c]
    BY <1>2, <2>2, <2>3, WithMaps DEF NameFree
  <2>5. r \in Shape(t)
    BY <1>2, <2>1, <2>2, <2>4 DEF AddColumn, Shape
  <2>6. Kept(r) = Kept(b)
    BY <2>2, <2>4 DEF Kept, IsBuilder, KeyColumnsExist
  <2>7. UniqueColumnsIndexed(r)
    BY <2>2, <2>4, <2>6 DEF IsBuilder, UniqueColumnsIndexed
  <2>8. KeyColumnsExist(r)
    BY <2>2, <2>4 DEF IsBuilder, KeyColumnsExist
  <2>9. KeysIndexed(t, r)
    BY <2>2, <2>6 DEF IsBuilder, KeysIndexed
  <2> QED
    BY <2>5, <2>7, <2>8, <2>9 DEF IsBuilder
<1> QED
  BY <1>1, <1>2

\* The index that a call adds: a new name, indexable columns.
LEMMA AddIndexKeeps ==
    ASSUME NEW t \in TableNames, NEW b, IsBuilder(t, b), NEW call,
           call.name \in STRING, call.columns \in Seq(STRING), call.unique \in BOOLEAN, call.table = t
    PROVE  IsBuilder(t, AddIndex(b, call))
<1> DEFINE r == AddIndex(b, call)
<1>1. CASE ~NameFree(b, call.table, call.name) \/ ~Indexable(b, call.columns)
  BY <1>1 DEF AddIndex
<1>2. CASE NameFree(b, call.table, call.name) /\ Indexable(b, call.columns)
  <2>1. b \in Shape(t) /\ b.indices \in Maps(Names, Seq(STRING)) /\ call.name \in Names
    BY DEF IsBuilder, Shape, Names
  <2>2. r.columns = b.columns /\ r.uniqueColumns = b.uniqueColumns
          /\ r.uniqueIndices \in {b.uniqueIndices, b.uniqueIndices \cup {call.name}}
          /\ r.pkName = b.pkName /\ r.indices = With(b.indices, call.name, call.columns)
          /\ r.fkSpecs = b.fkSpecs /\ r.nullable = b.nullable
    BY <1>2, <2>1 DEF AddIndex, Shape
  <2>3. /\ r.indices \in Maps(Names, Seq(STRING))
        /\ DOMAIN r.indices = DOMAIN b.indices \cup {call.name}
        /\ \A n \in DOMAIN b.indices : n # call.name /\ r.indices[n] = b.indices[n]
    <3>1. call.name \notin DOMAIN b.indices
      BY <1>2 DEF NameFree
    <3> HIDE DEF r
    <3>2. /\ r.indices \in Maps(Names, Seq(STRING))
          /\ DOMAIN r.indices = DOMAIN b.indices \cup {call.name}
          /\ \A n \in DOMAIN b.indices : n # call.name => r.indices[n] = b.indices[n]
      <4> DEFINE ix == b.indices
                 cols == call.columns
                 n0 == call.name
      <4>1. ix \in Maps(Names, Seq(STRING)) /\ cols \in Seq(STRING) /\ n0 \in Names
        BY <2>1
      <4>2. r.indices = With(ix, n0, cols)
        BY <2>2
      <4> HIDE DEF ix, cols, n0
      <4>3. /\ With(ix, n0, cols) \in Maps(Names, Seq(STRING))
            /\ DOMAIN With(ix, n0, cols) = DOMAIN ix \cup {n0}
            /\ With(ix, n0, cols)[n0] = cols
            /\ \A n \in DOMAIN ix : n # n0 => With(ix, n0, cols)[n] = ix[n]
        BY <4>1, IndexWith
      <4> QED
        BY <4>2, <4>3 DEF ix, n0
    <3> QED
      BY <3>1, <3>2
  <2>4. r \in Shape(t)
    BY <1>2, <2>1, <2>2, <2>3 DEF AddIndex, Shape
  <2>5. Kept(r) = Kept(b)
    BY <2>2 DEF Kept
  <2>6. UniqueColumnsIndexed(r)
    <3> HIDE DEF r
    <3> SUFFICES ASSUME NEW c \in r.uniqueColumns
                 PROVE  /\ c \in DOMAIN r.columns /\ r.columns[c] # "object"
                        /\ \E name \in r.uniqueIndices \cap DOMAIN r.indices :
                             r.indices[name] = <<c>> /\ \A fk \in Kept(r) : fk.name # name
      BY DEF UniqueColumnsIndexed
    <3>1. PICK name \in b.uniqueIndices \cap DOMAIN b.indices :
             b.indices[name] = <<c>> /\ \A fk \in Kept(b) : fk.name # name
      BY <2>2 DEF IsBuilder, UniqueColumnsIndexed
    <3>2. name \in r.uniqueIndices \cap DOMAIN r.indices /\ r.indices[name] = <<c>>
      BY <2>2, <2>3, <3>1
    <3>3. c \in DOMAIN r.columns /\ r.columns[c] # "object"
      BY <2>2 DEF IsBuilder, UniqueColumnsIndexed
    <3> QED
      BY <2>5, <3>1, <3>2, <3>3
  <2>7. KeyColumnsExist(r)
    BY <2>2 DEF IsBuilder, KeyColumnsExist
  <2>8. \A fk \in Kept(b) : fk.name # call.name
    BY <2>3 DEF IsBuilder, KeysIndexed
  <2>9. KeysIndexed(t, r)
    BY <2>2, <2>3, <2>5, <2>8 DEF IsBuilder, KeysIndexed
  <2> QED
    BY <2>4, <2>6, <2>7, <2>9 DEF IsBuilder
<1> QED
  BY <1>1, <1>2

LEMMA AddNullableKeeps ==
    ASSUME NEW t \in TableNames, NEW b, IsBuilder(t, b), NEW call, call.columns \in Seq(STRING)
    PROVE  IsBuilder(t, AddNullable(b, call))
<1> DEFINE r == AddNullable(b, call)
           more == {call.columns[i] : i \in DOMAIN call.columns}
<1>1. b \in Shape(t) /\ more \in SUBSET STRING
  BY DEF IsBuilder
<1>2. r = b \/ r = [b EXCEPT !.nullable = @ \cup more]
  BY DEF AddNullable
<1> HIDE DEF r, more
<1>3. r \in Shape(t)
  BY <1>1, <1>2 DEF Shape
<1>4. r.columns = b.columns /\ r.uniqueColumns = b.uniqueColumns /\ r.uniqueIndices = b.uniqueIndices
        /\ r.pkName = b.pkName /\ r.indices = b.indices /\ r.fkSpecs = b.fkSpecs
  BY <1>1, <1>2 DEF Shape
<1>5. IsBuilder(t, r)
  BY <1>3, <1>4, SameKeys
<1> QED
  BY <1>5 DEF r

LEMMA IndexableColumn ==
    ASSUME NEW b, NEW c, Indexable(b, <<c>>)
    PROVE  c \in DOMAIN b.columns /\ b.columns[c] # "object"
<1>1. 1 \in DOMAIN <<c>> /\ <<c>>[1] = c
  OBVIOUS
<1> QED
  BY <1>1 DEF Indexable

LEMMA AddPrimaryKeyKeeps ==
    ASSUME NEW t \in TableNames, NEW b, IsBuilder(t, b), NEW call,
           call.columns \in Seq(STRING), call.table = t
    PROVE  IsBuilder(t, AddPrimaryKey(b, call))
<1> DEFINE r == AddPrimaryKey(b, call)
           name == PkName(t)
           named == [b EXCEPT !.pkName = name]
           single == IF Len(call.columns) = 1 THEN {call.columns[1]} ELSE {}
<1>1. b \in Shape(t) /\ b.indices \in Maps(Names, Seq(STRING)) /\ name \in Names
  BY DEF IsBuilder, Shape, Names
<1>2. named \in Shape(t) /\ named.columns = b.columns /\ named.uniqueColumns = b.uniqueColumns
        /\ named.uniqueIndices = b.uniqueIndices /\ named.indices = b.indices
        /\ named.fkSpecs = b.fkSpecs /\ named.nullable = b.nullable /\ named.pkName = name
  BY <1>1 DEF Shape
<1>3. IsBuilder(t, named)
  <2> HIDE DEF named
  <2> QED
    BY <1>2, SameKeys
<1>4. CASE ~NameFree(b, t, name) \/ ~Indexable(b, call.columns)
  BY <1>3, <1>4 DEF AddPrimaryKey
<1>5. CASE NameFree(b, t, name) /\ Indexable(b, call.columns)
  <2>1. r.columns = b.columns /\ r.uniqueColumns = b.uniqueColumns \cup single
          /\ r.uniqueIndices = b.uniqueIndices \cup {name}
          /\ r.pkName = name /\ r.indices = With(b.indices, name, call.columns)
          /\ r.fkSpecs = b.fkSpecs /\ r.nullable = b.nullable
    BY <1>1, <1>5 DEF AddPrimaryKey, Shape
  <2>2. name \notin DOMAIN b.indices
    BY <1>5 DEF NameFree
  <2> HIDE DEF r
  <2>3. /\ r.indices \in Maps(Names, Seq(STRING))
        /\ DOMAIN r.indices = DOMAIN b.indices \cup {name}
        /\ r.indices[name] = call.columns
        /\ \A n \in DOMAIN b.indices : n # name => r.indices[n] = b.indices[n]
    <3> DEFINE w == With(b.indices, name, call.columns)
    <3>1. /\ w \in Maps(Names, Seq(STRING))
          /\ DOMAIN w = DOMAIN b.indices \cup {name}
          /\ w[name] = call.columns
          /\ \A n \in DOMAIN b.indices : n # name => w[n] = b.indices[n]
      BY <1>1, IndexWith
    <3> QED
      BY <2>1, <3>1
  <2>4. single \in SUBSET STRING /\ \A c \in single : call.columns = <<c>>
    OBVIOUS
  <2>5. r \in Shape(t)
    <3>1. r.uniqueColumns \in SUBSET STRING /\ r.uniqueIndices \in SUBSET Names
      BY <1>1, <2>1, <2>4 DEF Shape
    <3>2. r = [b EXCEPT !.uniqueColumns = r.uniqueColumns, !.uniqueIndices = r.uniqueIndices,
                        !.pkName = r.pkName, !.indices = r.indices]
      BY <1>1, <1>5 DEF r, AddPrimaryKey, Shape
    <3> QED
      BY <1>1, <2>1, <2>3, <3>1, <3>2 DEF Shape
  <2>6. Kept(r) = Kept(b)
    BY <2>1 DEF Kept
  <2>7. \A fk \in Kept(b) : fk.name \in DOMAIN b.indices /\ fk.name # name
    BY <2>2 DEF IsBuilder, KeysIndexed
  <2>8. UniqueColumnsIndexed(r)
    <3> SUFFICES ASSUME NEW c \in r.uniqueColumns
                 PROVE  /\ c \in DOMAIN r.columns /\ r.columns[c] # "object"
                        /\ \E n \in r.uniqueIndices \cap DOMAIN r.indices :
                             r.indices[n] = <<c>> /\ \A fk \in Kept(r) : fk.name # n
      BY DEF UniqueColumnsIndexed
    <3>1. CASE c \in b.uniqueColumns
      <4>1. PICK n \in b.uniqueIndices \cap DOMAIN b.indices :
               b.indices[n] = <<c>> /\ \A fk \in Kept(b) : fk.name # n
        BY <3>1 DEF IsBuilder, UniqueColumnsIndexed
      <4>2. n \in r.uniqueIndices \cap DOMAIN r.indices /\ r.indices[n] = <<c>>
        BY <2>1, <2>2, <2>3, <4>1
      <4>3. c \in DOMAIN r.columns /\ r.columns[c] # "object"
        BY <2>1, <3>1 DEF IsBuilder, UniqueColumnsIndexed
      <4> QED
        BY <2>6, <4>1, <4>2, <4>3
    <3>2. CASE c \in single
      <4>1. c \in DOMAIN r.columns /\ r.columns[c] # "object"
        BY <1>5, <2>1, <2>4, <3>2, IndexableColumn
      <4> QED
        BY <2>1, <2>3, <2>4, <2>6, <2>7, <3>2, <4>1
    <3> QED
      BY <2>1, <3>1, <3>2
  <2>9. KeyColumnsExist(r)
    BY <2>1 DEF IsBuilder, KeyColumnsExist
  <2>10. KeysIndexed(t, r)
    <3> SUFFICES ASSUME NEW fk \in Kept(b)
                 PROVE  /\ fk.name \in DOMAIN r.indices /\ r.indices[fk.name] = <<fk.childColumn>>
                        /\ fk.name \in r.uniqueIndices => fk.childColumn \in r.uniqueColumns
                        /\ fk.childColumn \in r.uniqueColumns =>
                             \/ fk.name \in r.uniqueIndices
                             \/ /\ r.pkName = PkName(t) /\ PkName(t) \in DOMAIN r.indices
                                /\ r.indices[PkName(t)] = <<fk.childColumn>>
      BY <2>6 DEF KeysIndexed
    <3>1. fk.name \in DOMAIN b.indices /\ fk.name # name /\ r.indices[fk.name] = <<fk.childColumn>>
      BY <2>3, <2>7 DEF IsBuilder, KeysIndexed
    <3>2. fk.name \in r.uniqueIndices => fk.childColumn \in r.uniqueColumns
      BY <2>1, <3>1 DEF IsBuilder, KeysIndexed
    <3>3. CASE fk.childColumn \in single
      BY <2>1, <2>3, <2>4, <3>1, <3>2, <3>3
    <3>4. CASE fk.childColumn \in b.uniqueColumns
      <4>1. fk.name \in b.uniqueIndices
        BY <2>2, <3>4 DEF IsBuilder, KeysIndexed
      <4> QED
        BY <2>1, <2>3, <3>1, <3>2, <4>1
    <3> HIDE DEF single
    <3>5. fk.childColumn \in r.uniqueColumns => fk.childColumn \in single \/ fk.childColumn \in b.uniqueColumns
      BY <2>1
    <3> QED
      BY <2>3, <3>1, <3>2, <3>3, <3>4, <3>5
  <2> QED
    BY <2>5, <2>8, <2>9, <2>10 DEF IsBuilder, r
<1> QED
  BY <1>4, <1>5

LEMMA AddUniqueKeeps ==
    ASSUME NEW t \in TableNames, NEW b, IsBuilder(t, b), NEW call,
           call.name \in STRING, call.columns \in Seq(STRING), call.table = t
    PROVE  IsBuilder(t, AddUnique(b, call))
<1> DEFINE r == AddUnique(b, call)
           single == IF Len(call.columns) = 1 THEN {call.columns[1]} ELSE {}
           marked == {b.fkSpecs[i].name :
                        i \in {j \in DOMAIN b.fkSpecs : b.fkSpecs[j].childColumn \in single}}
<1>1. b \in Shape(t) /\ b.indices \in Maps(Names, Seq(STRING)) /\ call.name \in Names
  BY DEF IsBuilder, Shape, Names
<1>2. CASE ~NameFree(b, call.table, call.name) \/ ~Indexable(b, call.columns)
  BY <1>2 DEF AddUnique
<1>3. CASE NameFree(b, call.table, call.name) /\ Indexable(b, call.columns)
  <2>1. r.columns = b.columns /\ r.uniqueColumns = b.uniqueColumns \cup single
          /\ r.uniqueIndices = b.uniqueIndices \cup marked \cup {call.name}
          /\ r.pkName = b.pkName /\ r.indices = With(b.indices, call.name, call.columns)
          /\ r.fkSpecs = b.fkSpecs /\ r.nullable = b.nullable
    BY <1>1, <1>3 DEF AddUnique, Shape
  <2>2. call.name \notin DOMAIN b.indices /\ call.name \notin b.uniqueIndices
    BY <1>3 DEF NameFree
  <2>3. marked \in SUBSET STRING /\ \A n \in marked : \E fk \in ToSet(b.fkSpecs) :
             fk.name = n /\ fk.childColumn \in single
    <3>1. ASSUME NEW i \in DOMAIN b.fkSpecs
          PROVE  b.fkSpecs[i].name \in STRING /\ b.fkSpecs[i] \in ToSet(b.fkSpecs)
      <4>1. b.fkSpecs \in Seq(FkSpecs(t))
        BY <1>1 DEF Shape
      <4>2. b.fkSpecs[i] \in FkSpecs(t)
        BY <4>1
      <4> QED
        BY <4>2 DEF FkSpecs, ToSet
    <3> QED
      BY <3>1
  <2>4. \A fk \in ToSet(b.fkSpecs) : fk.childColumn \in single => fk.name \in marked
    BY DEF ToSet
  <2>5. single \in SUBSET STRING /\ \A c \in single : call.columns = <<c>>
    OBVIOUS
  <2> HIDE DEF r, marked
  <2>6. /\ r.indices \in Maps(Names, Seq(STRING))
        /\ DOMAIN r.indices = DOMAIN b.indices \cup {call.name}
        /\ r.indices[call.name] = call.columns
        /\ \A n \in DOMAIN b.indices : n # call.name => r.indices[n] = b.indices[n]
    <3> DEFINE w == With(b.indices, call.name, call.columns)
    <3>1. /\ w \in Maps(Names, Seq(STRING))
          /\ DOMAIN w = DOMAIN b.indices \cup {call.name}
          /\ w[call.name] = call.columns
          /\ \A n \in DOMAIN b.indices : n # call.name => w[n] = b.indices[n]
      BY <1>1, IndexWith
    <3> QED
      BY <2>1, <3>1
  <2>7. r \in Shape(t)
    <3>1. r.uniqueColumns \in SUBSET STRING /\ r.uniqueIndices \in SUBSET Names
      BY <1>1, <2>1, <2>3, <2>5 DEF Shape, Names
    <3>2. r = [b EXCEPT !.uniqueColumns = r.uniqueColumns, !.uniqueIndices = r.uniqueIndices,
                        !.indices = r.indices]
      BY <1>1, <1>3 DEF r, AddUnique, Shape
    <3> QED
      BY <1>1, <2>1, <2>6, <3>1, <3>2 DEF Shape
  <2>8. Kept(r) = Kept(b)
    BY <2>1 DEF Kept
  <2>9. \A fk \in Kept(b) : fk.name \in DOMAIN b.indices /\ fk.name # call.name
    BY <2>2 DEF IsBuilder, KeysIndexed
  <2>10. UniqueColumnsIndexed(r)
    <3> SUFFICES ASSUME NEW c \in r.uniqueColumns
                 PROVE  /\ c \in DOMAIN r.columns /\ r.columns[c] # "object"
                        /\ \E n \in r.uniqueIndices \cap DOMAIN r.indices :
                             r.indices[n] = <<c>> /\ \A fk \in Kept(r) : fk.name # n
      BY DEF UniqueColumnsIndexed
    <3>1. CASE c \in b.uniqueColumns
      <4>1. PICK n \in b.uniqueIndices \cap DOMAIN b.indices :
               b.indices[n] = <<c>> /\ \A fk \in Kept(b) : fk.name # n
        BY <3>1 DEF IsBuilder, UniqueColumnsIndexed
      <4>2. n \in r.uniqueIndices \cap DOMAIN r.indices /\ r.indices[n] = <<c>>
        BY <2>1, <2>2, <2>6, <4>1
      <4>3. c \in DOMAIN r.columns /\ r.columns[c] # "object"
        BY <2>1, <3>1 DEF IsBuilder, UniqueColumnsIndexed
      <4> QED
        BY <2>8, <4>1, <4>2, <4>3
    <3>2. CASE c \in single
      <4>1. c \in DOMAIN r.columns /\ r.columns[c] # "object"
        BY <1>3, <2>1, <2>5, <3>2, IndexableColumn
      <4> QED
        BY <2>1, <2>5, <2>6, <2>8, <2>9, <3>2, <4>1
    <3> QED
      BY <2>1, <3>1, <3>2
  <2>11. KeyColumnsExist(r)
    BY <2>1 DEF IsBuilder, KeyColumnsExist
  <2>12. KeysIndexed(t, r)
    <3> SUFFICES ASSUME NEW fk \in Kept(b)
                 PROVE  /\ fk.name \in DOMAIN r.indices /\ r.indices[fk.name] = <<fk.childColumn>>
                        /\ fk.name \in r.uniqueIndices => fk.childColumn \in r.uniqueColumns
                        /\ fk.childColumn \in r.uniqueColumns =>
                             \/ fk.name \in r.uniqueIndices
                             \/ /\ r.pkName = PkName(t) /\ PkName(t) \in DOMAIN r.indices
                                /\ r.indices[PkName(t)] = <<fk.childColumn>>
      BY <2>8 DEF KeysIndexed
    <3>1. fk \in ToSet(b.fkSpecs) /\ fk.name \in DOMAIN b.indices /\ fk.name # call.name
      BY <2>9 DEF Kept
    <3>2. ASSUME fk.name \in r.uniqueIndices PROVE fk.childColumn \in r.uniqueColumns
      <4>1. CASE fk.name \in b.uniqueIndices
        BY <2>1, <4>1 DEF IsBuilder, KeysIndexed
      <4>2. CASE fk.name \in marked
        \* Another key with that name has the index too, on its own column: it is this one.
        <5>1. PICK other \in ToSet(b.fkSpecs) : other.name = fk.name /\ other.childColumn \in single
          BY <2>3, <4>2
        <5>2. other.childColumn \in DOMAIN b.columns /\ b.columns[other.childColumn] # "object"
          BY <1>3, <2>5, <5>1, IndexableColumn
        <5>3. other \in Kept(b)
          BY <5>1, <5>2 DEF Kept
        <5>4. <<other.childColumn>> = <<fk.childColumn>>
          BY <5>1, <5>3 DEF IsBuilder, KeysIndexed
        <5>5. other.childColumn = fk.childColumn
          BY <5>4
        <5> QED
          BY <2>1, <5>1, <5>5
      <4> QED
        BY <2>1, <3>1, <3>2, <4>1, <4>2
    <3>3. fk.name \in DOMAIN r.indices /\ r.indices[fk.name] = <<fk.childColumn>>
      BY <2>6, <3>1 DEF IsBuilder, KeysIndexed
    <3>4. CASE fk.childColumn \in single
      BY <2>1, <2>4, <3>1, <3>2, <3>3, <3>4
    <3>5. CASE fk.childColumn \in b.uniqueColumns
      <4>1. CASE fk.name \in b.uniqueIndices
        BY <2>1, <3>2, <3>3, <4>1
      <4>2. CASE /\ b.pkName = PkName(t) /\ PkName(t) \in DOMAIN b.indices
                 /\ b.indices[PkName(t)] = <<fk.childColumn>>
        <5>1. PkName(t) # call.name
          BY <2>2, <4>2
        <5> QED
          BY <2>1, <2>6, <3>2, <3>3, <4>2, <5>1
      <4> QED
        BY <3>5, <4>1, <4>2 DEF IsBuilder, KeysIndexed
    <3> HIDE DEF single
    <3>6. fk.childColumn \in r.uniqueColumns => fk.childColumn \in single \/ fk.childColumn \in b.uniqueColumns
      BY <2>1
    <3> QED
      BY <3>2, <3>3, <3>4, <3>5, <3>6
  <2> QED
    BY <2>7, <2>10, <2>11, <2>12 DEF IsBuilder, r
<1> QED
  BY <1>2, <1>3

\* The foreign key is added first, as if to a column without indices.
LEMMA AddForeignKeyKeeps ==
    ASSUME NEW t \in TableNames, NEW b, IsBuilder(t, b), NEW call,
           ForeignKey(call) \in FkSpecs(t), call.table = t
    PROVE  IsBuilder(t, AddForeignKey(b, call))
<1> DEFINE fk == ForeignKey(call)
           unique == fk.childColumn \in b.uniqueColumns
           keyed == [b EXCEPT !.fkSpecs = Append(@, fk)]
           r == AddForeignKey(b, call)
           columns == <<fk.childColumn>>
           ix == [table |-> t, name |-> fk.name, columns |-> columns, unique |-> unique]
<1>1. /\ b \in Shape(t) /\ b.indices \in Maps(Names, Seq(STRING)) /\ b.fkSpecs \in Seq(FkSpecs(t))
      /\ fk.name \in STRING /\ fk.childColumn \in STRING /\ fk.name \in Names /\ columns \in Seq(STRING)
      /\ fk.name = call.name /\ fk.childColumn = call.column /\ fk.action = call.action /\ fk.timing = call.timing
  BY DEF IsBuilder, Shape, Names, FkSpecs, ForeignKey
<1>2. CASE \/ ~NameFree(b, call.table, call.name)
           \/ call.action = "cascade" /\ call.timing = "deferrable"
           \/ call.column \notin DOMAIN b.columns
  BY <1>2 DEF AddForeignKey
<1>3. CASE /\ NameFree(b, t, fk.name)
           /\ ~(fk.action = "cascade" /\ fk.timing = "deferrable")
           /\ fk.childColumn \in DOMAIN b.columns
  <2>1. r = AddIndex(keyed, ix)
    BY <1>1, <1>3 DEF AddForeignKey
  <2>2. keyed.columns = b.columns /\ keyed.uniqueColumns = b.uniqueColumns
          /\ keyed.uniqueIndices = b.uniqueIndices /\ keyed.pkName = b.pkName
          /\ keyed.indices = b.indices /\ keyed.nullable = b.nullable
          /\ keyed.fkSpecs = Append(b.fkSpecs, fk)
    BY <1>1 DEF Shape
  <2>3. keyed \in Shape(t)
    <3>1. Append(b.fkSpecs, fk) \in Seq(FkSpecs(t))
      BY <1>1
    <3> HIDE DEF fk
    <3> QED
      BY <1>1, <3>1 DEF Shape
  <2>4. ToSet(keyed.fkSpecs) = ToSet(b.fkSpecs) \cup {fk}
    BY <1>1, <2>2, ToSetAppend
  <2>5. fk.name \notin DOMAIN b.indices /\ fk.name \notin b.uniqueIndices
    BY <1>3 DEF NameFree
  <2>6. \A k \in Kept(b) : k.name # fk.name
    BY <2>5 DEF IsBuilder, KeysIndexed
  <2>7. NameFree(keyed, t, fk.name)
    BY <1>3, <2>2 DEF NameFree
  <2>8. ix.table = t /\ ix.name = fk.name /\ ix.columns = columns /\ ix.unique = unique
    OBVIOUS
  <2> HIDE DEF keyed, fk, ix, r
  <2>9. Indexable(keyed, columns) <=> b.columns[fk.childColumn] # "object"
    BY <1>3, <2>2 DEF Indexable
  <2> HIDE DEF columns, unique
  <2>10. CASE b.columns[fk.childColumn] = "object"
    <3>1. r = keyed
      BY <2>1, <2>8, <2>9, <2>10 DEF AddIndex
    <3>2. Kept(keyed) = Kept(b)
      BY <2>2, <2>4, <2>10 DEF Kept
    <3>3. UniqueColumnsIndexed(keyed)
      <4>1. UniqueColumnsIndexed(b)
        BY DEF IsBuilder
      <4> QED
        BY <2>2, <3>2, <4>1, SameIndices
    <3>4. KeyColumnsExist(keyed)
      BY <1>1, <1>3, <2>2, <2>4 DEF IsBuilder, KeyColumnsExist, FkSpecs, fk
    <3>5. KeysIndexed(t, keyed)
      BY <2>2, <3>2 DEF IsBuilder, KeysIndexed
    <3> QED
      BY <2>3, <3>1, <3>3, <3>4, <3>5 DEF IsBuilder, r
  <2>11. CASE b.columns[fk.childColumn] # "object"
    <3>1. /\ r.columns = b.columns /\ r.uniqueColumns = b.uniqueColumns
          /\ r.uniqueIndices = IF unique THEN b.uniqueIndices \cup {fk.name} ELSE b.uniqueIndices
          /\ r.pkName = b.pkName /\ r.indices = With(b.indices, fk.name, columns)
          /\ r.fkSpecs = keyed.fkSpecs /\ r.nullable = b.nullable
      BY <2>1, <2>2, <2>3, <2>7, <2>8, <2>9, <2>11 DEF AddIndex, Shape
    <3>2. /\ r.indices \in Maps(Names, Seq(STRING))
          /\ DOMAIN r.indices = DOMAIN b.indices \cup {fk.name}
          /\ r.indices[fk.name] = columns
          /\ \A n \in DOMAIN b.indices : n # fk.name => r.indices[n] = b.indices[n]
      <4> DEFINE i0 == b.indices
                 n0 == fk.name
      <4>1. i0 \in Maps(Names, Seq(STRING)) /\ columns \in Seq(STRING) /\ n0 \in Names
        BY <1>1
      <4>2. r.indices = With(i0, n0, columns)
        BY <3>1
      <4> HIDE DEF i0, n0
      <4>3. /\ With(i0, n0, columns) \in Maps(Names, Seq(STRING))
            /\ DOMAIN With(i0, n0, columns) = DOMAIN i0 \cup {n0}
            /\ With(i0, n0, columns)[n0] = columns
            /\ \A n \in DOMAIN i0 : n # n0 => With(i0, n0, columns)[n] = i0[n]
        BY <4>1, IndexWith
      <4> QED
        BY <4>2, <4>3 DEF i0, n0
    <3>3. r \in Shape(t)
      <4>1. r.uniqueIndices \in SUBSET Names
        BY <1>1, <3>1 DEF Shape
      <4>2. r = [keyed EXCEPT !.indices = r.indices, !.uniqueIndices = r.uniqueIndices]
        BY <2>1, <2>3, <2>7, <2>8, <2>9, <2>11 DEF AddIndex, Shape
      <4> QED
        BY <2>3, <3>2, <4>1, <4>2 DEF Shape
    <3>4. Kept(r) = Kept(b) \cup {fk}
      BY <2>4, <2>11, <3>1 DEF Kept
    <3>5. UniqueColumnsIndexed(r)
      <4> SUFFICES ASSUME NEW c \in r.uniqueColumns
                   PROVE  /\ c \in DOMAIN r.columns /\ r.columns[c] # "object"
                          /\ \E n \in r.uniqueIndices \cap DOMAIN r.indices :
                               r.indices[n] = <<c>> /\ \A k \in Kept(r) : k.name # n
        BY DEF UniqueColumnsIndexed
      <4>1. PICK n \in b.uniqueIndices \cap DOMAIN b.indices :
               b.indices[n] = <<c>> /\ \A k \in Kept(b) : k.name # n
        BY <3>1 DEF IsBuilder, UniqueColumnsIndexed
      <4>2. n \in r.uniqueIndices \cap DOMAIN r.indices /\ r.indices[n] = <<c>> /\ fk.name # n
        BY <2>5, <3>1, <3>2, <4>1
      <4>3. c \in DOMAIN r.columns /\ r.columns[c] # "object"
        BY <3>1 DEF IsBuilder, UniqueColumnsIndexed
      <4> QED
        BY <3>4, <4>1, <4>2, <4>3
    <3>6. KeyColumnsExist(r)
      BY <1>1, <1>3, <2>2, <2>4, <3>1 DEF IsBuilder, KeyColumnsExist, FkSpecs, fk
    <3>7. KeysIndexed(t, r)
      <4> SUFFICES ASSUME NEW k \in Kept(r)
                   PROVE  /\ k.name \in DOMAIN r.indices /\ r.indices[k.name] = <<k.childColumn>>
                          /\ k.name \in r.uniqueIndices => k.childColumn \in r.uniqueColumns
                          /\ k.childColumn \in r.uniqueColumns =>
                               \/ k.name \in r.uniqueIndices
                               \/ /\ r.pkName = PkName(t) /\ PkName(t) \in DOMAIN r.indices
                                  /\ r.indices[PkName(t)] = <<k.childColumn>>
        BY DEF KeysIndexed
      <4>1. CASE k = fk
        BY <2>5, <3>1, <3>2, <4>1 DEF columns, unique
      <4>2. CASE k \in Kept(b)
        <5>1. k.name # fk.name /\ k.name \in DOMAIN r.indices /\ r.indices[k.name] = <<k.childColumn>>
          BY <2>6, <3>2, <4>2 DEF IsBuilder, KeysIndexed
        <5>2. k.name \in r.uniqueIndices <=> k.name \in b.uniqueIndices
          BY <3>1, <5>1
        <5>3. PkName(t) \in DOMAIN b.indices =>
                 PkName(t) \in DOMAIN r.indices /\ r.indices[PkName(t)] = b.indices[PkName(t)]
          BY <2>5, <3>2
        <5> QED
          BY <3>1, <4>2, <5>1, <5>2, <5>3 DEF IsBuilder, KeysIndexed
      <4> QED
        BY <3>4, <4>1, <4>2
    <3> QED
      BY <3>3, <3>5, <3>6, <3>7 DEF IsBuilder, r
  <2> QED
    BY <2>10, <2>11
<1> QED
  BY <1>1, <1>2, <1>3

-----------------------------------------------------------------------------
(* The builders *)

Builders ==
    {bs \in [TableNames -> {None} \cup UNION {Shape(t) : t \in TableNames}] :
        \A t \in Tables(bs) : IsBuilder(t, bs[t])}

LEMMA CalledKeeps ==
    ASSUME NEW call \in Call, call.op # "createTable", NEW b, IsBuilder(call.table, b)
    PROVE  call.table \in TableNames /\ IsBuilder(call.table, Called(b, call))
<1>1. CASE call \in [op : {"addColumn"}, table : TableNames, column : STRING, type : STRING]
  BY <1>1, AddColumnKeeps DEF Called
<1>2. CASE call \in [op : {"addPrimaryKey", "addNullable"}, table : TableNames, columns : Seq(STRING)]
  BY <1>2, AddPrimaryKeyKeeps, AddNullableKeeps DEF Called
<1>3. CASE call \in [op : {"addForeignKey"}, table : TableNames, name : STRING, column : STRING,
                     parentTable : TableNames, parentColumn : STRING,
                     action : {"cascade", "restrict"}, timing : {"immediate", "deferrable"}]
  <2>1. ForeignKey(call) \in FkSpecs(call.table) /\ call.table \in TableNames
    BY <1>3 DEF ForeignKey, FkSpecs
  <2> QED
    BY <1>3, <2>1, AddForeignKeyKeeps DEF Called
<1>4. CASE call \in [op : {"addUnique"}, table : TableNames, name : STRING, columns : Seq(STRING)]
  BY <1>4, AddUniqueKeeps DEF Called
<1>5. CASE call \in [op : {"addIndex"}, table : TableNames, name : STRING, columns : Seq(STRING),
                     unique : BOOLEAN]
  BY <1>5, AddIndexKeeps DEF Called
<1> QED
  BY <1>1, <1>2, <1>3, <1>4, <1>5 DEF Call

LEMMA AfterKeeps ==
    ASSUME NEW bs \in Builders, NEW call \in Call
    PROVE  After(bs, call) \in Builders /\ call.table \in TableNames
<1>1. call.table \in TableNames
  BY DEF Call
<1>2. ASSUME NEW b, IsBuilder(call.table, b)
      PROVE  [bs EXCEPT ![call.table] = b] \in Builders
  <2> DEFINE new == [bs EXCEPT ![call.table] = b]
  <2>1. b \in Shape(call.table)
    BY <1>2 DEF IsBuilder
  <2>2. new \in [TableNames -> {None} \cup UNION {Shape(t) : t \in TableNames}]
    BY <1>1, <2>1 DEF Builders
  <2>3. ASSUME NEW t \in Tables(new) PROVE IsBuilder(t, new[t])
    BY <1>1, <1>2, <2>3 DEF Builders, Tables
  <2> QED
    BY <2>2, <2>3 DEF Builders
<1>3. CASE call.op = "createTable"
  <2>1. [bs EXCEPT ![call.table] = NewTable] \in Builders
    BY <1>2, NewTableIsBuilder
  <2>2. After(bs, call) = IF bs[call.table] = None THEN [bs EXCEPT ![call.table] = NewTable] ELSE bs
    BY <1>3, Zenon DEF After
  <2> HIDE DEF Builders
  <2> QED
    BY <1>1, <2>1, <2>2
<1>4. CASE call.op # "createTable" /\ bs[call.table] # None
  <2> DEFINE b == Called(bs[call.table], call)
  <2>1. IsBuilder(call.table, bs[call.table])
    BY <1>1, <1>4 DEF Builders, Tables
  <2>2. IsBuilder(call.table, b)
    BY <1>4, <2>1, CalledKeeps
  <2>3. After(bs, call) = [bs EXCEPT ![call.table] = b]
    BY <1>4 DEF After
  <2> HIDE DEF b, Builders
  <2>4. [bs EXCEPT ![call.table] = b] \in Builders
    BY <1>2, <2>2
  <2> QED
    BY <1>1, <2>3, <2>4
<1>5. CASE call.op # "createTable" /\ bs[call.table] = None
  BY <1>1, <1>5 DEF After
<1> QED
  BY <1>1, <1>3, <1>4, <1>5

LEMMA NoBuildersIsBuilders == NoBuilders \in Builders /\ Tables(NoBuilders) = {}
  BY DEF NoBuilders, Builders, Tables


-----------------------------------------------------------------------------
(* The tables and their foreign keys *)

LEMMA ImageFinite ==
    ASSUME NEW S, IsFiniteSet(S), NEW f
    PROVE  IsFiniteSet({f[x] : x \in S})
<1> DEFINE R == {f[x] : x \in S}
           g == [x \in S |-> f[x]]
<1>1. g \in Surjection(S, R)
  BY DEF Surjection
<1> HIDE DEF g
<1> QED
  BY <1>1, FS_Surjection

LEMMA ToSetFinite ==
    ASSUME NEW S, NEW s \in Seq(S)
    PROVE  IsFiniteSet(ToSet(s)) /\ ToSet(s) \subseteq S
<1>1. IsFiniteSet(DOMAIN s)
  BY FS_Interval
<1> QED
  BY <1>1, ImageFinite DEF ToSet

LEMMA KeysOfBuilders ==
    ASSUME NEW bs \in Builders, NEW fk \in ForeignKeys(bs)
    PROVE  /\ fk.childTable \in Tables(bs) /\ fk.parentTable \in TableNames
           /\ fk \in ToSet(bs[fk.childTable].fkSpecs)
           /\ fk \in FkSpecs(fk.childTable)
<1>1. PICK t \in Tables(bs) : fk \in ToSet(bs[t].fkSpecs)
  BY DEF ForeignKeys
<1>2. bs[t].fkSpecs \in Seq(FkSpecs(t))
  BY DEF Builders, IsBuilder, Shape
<1>3. fk \in FkSpecs(t)
  BY <1>1, <1>2, ToSetFinite
<1>4. fk.childTable = t /\ fk.parentTable \in TableNames
  BY <1>3 DEF FkSpecs
<1> QED
  BY <1>1, <1>3, <1>4

LEMMA EdgesFacts ==
    ASSUME NEW bs \in Builders, NEW t
    PROVE  /\ Edges(bs, t) \subseteq Tables(bs) /\ Tables(bs) \subseteq TableNames
           /\ IsFiniteSet(Edges(bs, t)) /\ IsFiniteSet(Tables(bs))
<1>1. Edges(bs, t) \subseteq Tables(bs)
  BY KeysOfBuilders DEF Edges
<1>2. Tables(bs) \subseteq TableNames
  BY DEF Tables
<1> QED
  BY <1>1, <1>2, SchemaAssumption, FS_Subset

-----------------------------------------------------------------------------
(* The edges that a visit follows *)

Deeper == [TableNames -> [Searching -> Searching]]

LEMMA FollowType ==
    ASSUME NEW deeper \in Deeper, NEW t, NEW child \in TableNames, NEW s \in Searching
    PROVE  Follow(deeper, t, child, s) \in Searching
<1>1. deeper[child][s] \in Searching
  BY DEF Deeper
<1>2. [s EXCEPT !.loop = TRUE] \in Searching
  BY DEF Searching
<1> QED
  BY <1>1, <1>2 DEF Follow

\* The edges are followed in some order: f has where the search is after some of them.
IsFollowing(f, pick, bs, deeper, t, s) ==
    /\ f \in [SUBSET Edges(bs, t) -> Searching] /\ f[{}] = s
    /\ \A T \in SUBSET Edges(bs, t) : T # {} =>
         pick[T] \in T /\ f[T] = Follow(deeper, t, pick[T], f[T \ {pick[T]}])
    /\ FollowAll(bs, deeper, t, s) = f[Edges(bs, t)]

LEMMA FollowLoop ==
    ASSUME NEW bs \in Builders, NEW deeper \in Deeper, NEW t, NEW s \in Searching
    PROVE  \E f, pick : IsFollowing(f, pick, bs, deeper, t, s)
<1> DEFINE S == Edges(bs, t)
           pick == [T \in SUBSET S |-> CHOOSE x \in T : TRUE]
           next == [v \in S \X Searching |-> Follow(deeper, t, v[1], v[2])]
           P(iter) == iter = [T \in SUBSET S |->
                         IF T = {} THEN s
                         ELSE Follow(deeper, t, CHOOSE x \in T : TRUE, iter[T \ {CHOOSE x \in T : TRUE}])]
           it == CHOOSE iter : P(iter)
<1>1. IsFiniteSet(S) /\ S \subseteq TableNames
  BY EdgesFacts
<1>2. \A T \in SUBSET S : T # {} => pick[T] \in T
  OBVIOUS
<1>3. \A x \in S, a \in Searching : next[<<x, a>>] = Follow(deeper, t, x, a)
  OBVIOUS
<1>4. \A x \in S, a \in Searching : next[<<x, a>>] \in Searching
  BY <1>1, <1>3, FollowType
<1>5. Steps(S, Searching, s, pick, next)
  BY <1>1, <1>2, <1>4 DEF Steps
<1>6. PICK f : IsLoop(f, S, Searching, s, pick, next)
  <2> HIDE DEF S, pick, next
  <2> QED
    BY <1>5, SetLoop
<1>7. P(f)
  <2>1. ASSUME NEW T \in SUBSET S
        PROVE  f[T] = IF T = {} THEN s
                      ELSE Follow(deeper, t, CHOOSE x \in T : TRUE, f[T \ {CHOOSE x \in T : TRUE}])
    <3>1. CASE T = {}
      BY <1>6, <3>1 DEF IsLoop
    <3>2. CASE T # {}
      <4>1. pick[T] \in S /\ T \ {pick[T]} \in SUBSET S /\ f[T \ {pick[T]}] \in Searching
        BY <1>2, <1>6, <3>2 DEF IsLoop
      <4>2. f[T] = next[<<pick[T], f[T \ {pick[T]}]>>]
        <5> HIDE DEF S, pick, next
        <5> QED
          BY <1>6, <3>2 DEF IsLoop
      <4>3. f[T] = Follow(deeper, t, pick[T], f[T \ {pick[T]}])
        <5> HIDE DEF S, pick, next
        <5> QED
          BY <1>3, <4>1, <4>2
      <4>4. pick[T] = CHOOSE x \in T : TRUE
        OBVIOUS
      <4> QED
        BY <3>2, <4>3, <4>4
    <3> QED
      BY <3>1, <3>2
  <2>2. f = [T \in SUBSET S |-> f[T]]
    BY <1>6 DEF IsLoop
  <2> QED
    BY <2>1, <2>2
<1>8. P(it)
  <2> HIDE DEF P
  <2> QED
    BY <1>7
<1>9. \A T \in SUBSET S : it[T] = IF T = {} THEN s ELSE Follow(deeper, t, pick[T], it[T \ {pick[T]}])
  <2>1. it = [T \in SUBSET S |->
                IF T = {} THEN s
                ELSE Follow(deeper, t, CHOOSE x \in T : TRUE, it[T \ {CHOOSE x \in T : TRUE}])]
    BY <1>8
  <2> HIDE DEF it, P
  <2> QED
    BY <2>1
<1>10. it = [T \in SUBSET S |-> it[T]]
  <2>1. it = [T \in SUBSET S |->
                IF T = {} THEN s
                ELSE Follow(deeper, t, CHOOSE x \in T : TRUE, it[T \ {CHOOSE x \in T : TRUE}])]
    BY <1>8
  <2> HIDE DEF it, P
  <2> QED
    BY <2>1
<1>11. FollowAll(bs, deeper, t, s) = it[S]
  BY DEF FollowAll, FoldSet, MapThenFoldSet
<1> HIDE DEF S, pick, it
<1>12. \A T \in SUBSET S : it[T] \in Searching
  <2> DEFINE G == {T \in SUBSET S : it[T] \in Searching}
  <2>1. {} \in G
    BY <1>9
  <2>2. ASSUME NEW T \in SUBSET S, T # {}, T \ {pick[T]} \in G PROVE T \in G
    <3>1. pick[T] \in TableNames /\ it[T \ {pick[T]}] \in Searching
      BY <1>1, <1>2, <2>2
    <3>2. it[T] = Follow(deeper, t, pick[T], it[T \ {pick[T]}])
      BY <1>9, <2>2
    <3>3. it[T] \in Searching
      BY <3>1, <3>2, FollowType
    <3> QED
      BY <3>3
  <2>3. Inductive(S, pick, G)
    <3> HIDE DEF G
    <3> QED
      BY <1>1, <1>2, <2>1, <2>2 DEF Inductive
  <2>4. SUBSET S \subseteq G
    <3> HIDE DEF G
    <3> QED
      BY <2>3, SubsetInduction
  <2> QED
    BY <2>4
<1>13. it \in [SUBSET S -> Searching] /\ it[{}] = s
  BY <1>9, <1>10, <1>12
<1>14. IsFollowing(it, pick, bs, deeper, t, s)
  BY <1>2, <1>9, <1>11, <1>13 DEF S, IsFollowing
<1> QED
  BY <1>14

LEMMA VisitType ==
    ASSUME NEW bs \in Builders, NEW deeper \in Deeper, NEW t \in TableNames, NEW s \in Searching
    PROVE  CheckCycleUtil(bs, deeper, t, s) \in Searching
<1>1. Enter(s, t) \in Searching
  BY DEF Enter, Searching
<1>2. FollowAll(bs, deeper, t, Enter(s, t)) \in Searching
  <2>1. PICK f, pick : IsFollowing(f, pick, bs, deeper, t, Enter(s, t))
    BY <1>1, FollowLoop
  <2> QED
    BY <2>1 DEF IsFollowing
<1>3. ASSUME NEW left \in Searching PROVE [left EXCEPT !.onStack = @ \ {t}] \in Searching
  BY DEF Searching
<1> QED
  BY <1>2, <1>3 DEF CheckCycleUtil

-----------------------------------------------------------------------------
(* What a visit does *)

HasParentIn(bs, x, S) == \E p \in S \ {x} : x \in Edges(bs, p)

LoopIn(bs, S) == S # {} /\ \A x \in S : HasParentIn(bs, x, S)

LEMMA LoopingIsLoopIn ==
    ASSUME NEW bs \in Builders
    PROVE  /\ Looping(bs) <=> \E S \in SUBSET Tables(bs) : LoopIn(bs, S)
           /\ \A S : LoopIn(bs, S) => S \subseteq Tables(bs)
<1>1. ASSUME NEW S, NEW x
      PROVE  HasParentIn(bs, x, S) <=>
               \E fk \in ForeignKeys(bs) : fk.childTable = x /\ fk.parentTable \in S \ {x}
  BY DEF HasParentIn, Edges
<1>2. Looping(bs) <=> \E S \in SUBSET Tables(bs) : LoopIn(bs, S)
  BY <1>1 DEF Looping, LoopIn
<1>3. \A S : LoopIn(bs, S) => S \subseteq Tables(bs)
  BY EdgesFacts DEF LoopIn, HasParentIn
<1> QED
  BY <1>2, <1>3

Finished(s) == s.visited \ s.onStack

\* What is finished has its children finished, and no loop.
Clean(bs, s) ==
    /\ \A x \in Finished(s) : Edges(bs, x) \ {x} \subseteq Finished(s)
    /\ \A S \in SUBSET Finished(s) : ~LoopIn(bs, S)

\* The nodes K on the stack lead from each of them to t.
OnPath(bs, K, t) ==
    \A u \in K : \E S \in SUBSET K :
        u \in S /\ t \in S /\ \A x \in S \ {u} : HasParentIn(bs, x, S)

Ready(s, t) ==
    s \in Searching /\ t \in TableNames /\ s.onStack \subseteq s.visited /\ t \notin s.visited

\* r is where a search is when it has visited t, coming from s.
Visited(bs, s, t, r) ==
    /\ r \in Searching /\ r.onStack = s.onStack /\ s.visited \cup {t} \subseteq r.visited
    /\ s.loop => r.loop
    /\ Clean(bs, s) /\ ~r.loop => Clean(bs, r)
    /\ OnPath(bs, s.onStack \cup {t}, t) /\ r.loop => s.loop \/ Looping(bs)

\* The visits that have n tables left to visit, or fewer.
Visits(bs, deeper, n) ==
    /\ deeper \in Deeper
    /\ \A s \in Searching, t \in TableNames :
         /\ Ready(s, t) /\ Cardinality(TableNames \ s.visited) <= n => Visited(bs, s, t, deeper[t][s])
         /\ t \in s.visited /\ s.onStack = {} => deeper[t][s] = s

LEMMA PathGrows ==
    ASSUME NEW bs \in Builders, NEW K, NEW t \in K, OnPath(bs, K, t),
           NEW c \in Edges(bs, t), c \notin K
    PROVE  OnPath(bs, K \cup {c}, c)
<1> SUFFICES ASSUME NEW u \in K \cup {c}
             PROVE  \E S \in SUBSET (K \cup {c}) :
                      u \in S /\ c \in S /\ \A x \in S \ {u} : HasParentIn(bs, x, S)
  BY DEF OnPath
<1>1. CASE u = c
  <2>1. {c} \in SUBSET (K \cup {c}) /\ {c} \ {u} = {}
    BY <1>1
  <2> QED
    BY <1>1, <2>1
<1>2. CASE u \in K
  <2>1. PICK S \in SUBSET K : u \in S /\ t \in S /\ \A x \in S \ {u} : HasParentIn(bs, x, S)
    BY <1>2 DEF OnPath
  <2>2. ASSUME NEW x \in (S \cup {c}) \ {u} PROVE HasParentIn(bs, x, S \cup {c})
    <3>1. CASE x = c
      BY <2>1, <3>1 DEF HasParentIn
    <3>2. CASE x # c
      BY <2>1, <3>2 DEF HasParentIn
    <3> QED
      BY <3>1, <3>2
  <2>3. S \cup {c} \in SUBSET (K \cup {c}) /\ u \in S \cup {c} /\ c \in S \cup {c}
    BY <2>1
  <2> QED
    BY <2>2, <2>3
<1> QED
  BY <1>1, <1>2

LEMMA PathCloses ==
    ASSUME NEW bs \in Builders, NEW K, NEW t, OnPath(bs, K, t),
           NEW c \in Edges(bs, t), c \in K, c # t
    PROVE  Looping(bs)
<1>1. PICK S \in SUBSET K : c \in S /\ t \in S /\ \A x \in S \ {c} : HasParentIn(bs, x, S)
  BY DEF OnPath
<1>2. HasParentIn(bs, c, S)
  BY <1>1 DEF HasParentIn
<1>3. LoopIn(bs, S)
  BY <1>1, <1>2 DEF LoopIn
<1> QED
  BY <1>3, LoopingIsLoopIn

\* Where a visit of t from s is when it has followed the edges T.
Following(bs, s, t, T, a) ==
    /\ a \in Searching /\ a.onStack = s.onStack \cup {t} /\ s.visited \cup {t} \subseteq a.visited
    /\ s.loop => a.loop
    /\ Clean(bs, s) /\ ~a.loop => Clean(bs, a) /\ T \ {t} \subseteq Finished(a)
    /\ OnPath(bs, s.onStack \cup {t}, t) /\ a.loop => s.loop \/ Looping(bs)

LEMMA FollowStep ==
    ASSUME NEW bs \in Builders, NEW deeper, NEW n \in Nat, Visits(bs, deeper, n),
           NEW s, NEW t, Ready(s, t), Cardinality(TableNames \ s.visited) <= n + 1,
           NEW T, NEW a, Following(bs, s, t, T, a), NEW c \in Edges(bs, t)
    PROVE  Following(bs, s, t, T \cup {c}, Follow(deeper, t, c, a))
<1> DEFINE K == s.onStack \cup {t}
           r == Follow(deeper, t, c, a)
<1>1. /\ a \in Searching /\ a.onStack = K /\ s.visited \cup {t} \subseteq a.visited
      /\ s \in Searching /\ t \in TableNames /\ s.onStack \subseteq s.visited /\ t \notin s.visited
  BY DEF Following, Ready
<1>2. c \in TableNames
  BY EdgesFacts
<1>3. CASE c \notin a.visited
  <2>1. r = deeper[c][a]
    BY <1>3 DEF Follow
  <2>2. Ready(a, c) /\ c \notin K /\ c # t
    BY <1>1, <1>2, <1>3 DEF Ready, Searching
  <2>3. Cardinality(TableNames \ a.visited) <= n
    <3>1. IsFiniteSet(TableNames \ s.visited) /\ t \in TableNames \ s.visited
      BY <1>1, SchemaAssumption, FS_Subset
    <3>2. /\ IsFiniteSet((TableNames \ s.visited) \ {t})
          /\ Cardinality((TableNames \ s.visited) \ {t}) = Cardinality(TableNames \ s.visited) - 1
      BY <3>1, FS_RemoveElement
    <3>3. TableNames \ a.visited \in SUBSET ((TableNames \ s.visited) \ {t})
      BY <1>1
    <3>4. Cardinality(TableNames \ a.visited) <= Cardinality((TableNames \ s.visited) \ {t})
      BY <3>2, <3>3, FS_Subset
    <3>5. Cardinality(TableNames \ a.visited) \in Nat /\ Cardinality(TableNames \ s.visited) \in Nat
      BY SchemaAssumption, FS_Subset, FS_CardinalityType
    <3> QED
      BY <3>2, <3>4, <3>5
  <2>4. Visited(bs, a, c, r)
    BY <1>1, <1>2, <2>1, <2>2, <2>3 DEF Visits
  <2> HIDE DEF r
  <2>5. r \in Searching /\ r.onStack = K /\ s.visited \cup {t} \subseteq r.visited
          /\ a.visited \cup {c} \subseteq r.visited /\ (s.loop => r.loop) /\ (a.loop => r.loop)
    BY <1>1, <2>4 DEF Visited, Following
  <2>6. ASSUME Clean(bs, s), ~r.loop PROVE Clean(bs, r) /\ (T \cup {c}) \ {t} \subseteq Finished(r)
    <3>1. Clean(bs, a) /\ T \ {t} \subseteq Finished(a) /\ Clean(bs, r)
      BY <2>4, <2>5, <2>6 DEF Visited, Following
    <3> QED
      BY <1>1, <2>2, <2>5, <3>1 DEF Finished
  <2>7. ASSUME OnPath(bs, K, t), r.loop PROVE s.loop \/ Looping(bs)
    <3>1. OnPath(bs, K \cup {c}, c)
      BY <2>2, <2>7, PathGrows
    <3>2. a.loop \/ Looping(bs)
      BY <1>1, <2>4, <2>7, <3>1 DEF Visited
    <3> QED
      BY <2>7, <3>2 DEF Following
  <2> QED
    BY <2>5, <2>6, <2>7 DEF Following, r
<1>4. CASE c \in a.visited /\ c \in a.onStack /\ c # t
  <2>1. r = [a EXCEPT !.loop = TRUE]
    BY <1>4 DEF Follow
  <2>2. r \in Searching /\ r.loop /\ r.onStack = a.onStack /\ r.visited = a.visited
    BY <1>1, <2>1 DEF Searching
  <2> HIDE DEF r
  <2>3. OnPath(bs, K, t) => Looping(bs)
    BY <1>1, <1>4, PathCloses
  <2> QED
    BY <1>1, <2>2, <2>3 DEF Following, r
<1>5. CASE c \in a.visited /\ ~(c \in a.onStack /\ c # t)
  <2>1. r = a
    BY <1>5 DEF Follow
  <2>2. c # t => c \in Finished(a)
    BY <1>5 DEF Finished
  <2> QED
    BY <2>1, <2>2 DEF Following
<1> QED
  BY <1>3, <1>4, <1>5

LEMMA VisitStep ==
    ASSUME NEW bs \in Builders, NEW deeper, NEW n \in Nat, Visits(bs, deeper, n),
           NEW s, NEW t, Ready(s, t), Cardinality(TableNames \ s.visited) <= n + 1
    PROVE  Visited(bs, s, t, CheckCycleUtil(bs, deeper, t, s))
<1> DEFINE E == Edges(bs, t)
           e == Enter(s, t)
           left == FollowAll(bs, deeper, t, e)
           r == [left EXCEPT !.onStack = @ \ {t}]
<1>1. /\ s \in Searching /\ t \in TableNames /\ s.onStack \subseteq s.visited /\ t \notin s.visited
      /\ deeper \in Deeper
  BY DEF Ready, Visits
<1>2. /\ e \in Searching /\ e.onStack = s.onStack \cup {t} /\ e.visited = s.visited \cup {t}
      /\ e.loop = s.loop
  BY <1>1 DEF Enter, Searching
<1>3. CheckCycleUtil(bs, deeper, t, s) = r
  BY <1>1 DEF CheckCycleUtil
<1>4. Following(bs, s, t, {}, e)
  <2> HIDE DEF e
  <2>1. Finished(e) = Finished(s)
    BY <1>1, <1>2 DEF Finished
  <2>2. Clean(bs, s) => Clean(bs, e)
    BY <2>1 DEF Clean
  <2> QED
    BY <1>2, <2>2 DEF Following
<1>5. Following(bs, s, t, E, left)
  <2>0. PICK f, pick : IsFollowing(f, pick, bs, deeper, t, e)
    <3> HIDE DEF e
    <3> QED
      BY <1>1, <1>2, FollowLoop
  <2>1. /\ f \in [SUBSET E -> Searching] /\ f[{}] = e
        /\ \A T \in SUBSET E : T # {} =>
             pick[T] \in T /\ f[T] = Follow(deeper, t, pick[T], f[T \ {pick[T]}])
        /\ left = f[E]
    BY <2>0 DEF IsFollowing
  <2> DEFINE G == {T \in SUBSET E : Following(bs, s, t, T, f[T])}
  <2> HIDE DEF E, e, left
  <2>2. IsFiniteSet(E)
    BY EdgesFacts DEF E
  <2>3. {} \in G
    BY <1>4, <2>1
  <2>4. ASSUME NEW T \in SUBSET E, T # {}, T \ {pick[T]} \in G PROVE T \in G
    <3>1. pick[T] \in E /\ f[T] = Follow(deeper, t, pick[T], f[T \ {pick[T]}])
            /\ (T \ {pick[T]}) \cup {pick[T]} = T
      BY <2>1, <2>4
    <3>2. Following(bs, s, t, T \ {pick[T]}, f[T \ {pick[T]}])
      BY <2>4
    <3>3. Following(bs, s, t, (T \ {pick[T]}) \cup {pick[T]}, Follow(deeper, t, pick[T], f[T \ {pick[T]}]))
      BY <3>1, <3>2, FollowStep DEF E
    <3>4. Following(bs, s, t, T, f[T])
      BY <3>1, <3>3
    <3> QED
      BY <3>4
  <2>5. Inductive(E, pick, G)
    <3>1. \A T \in SUBSET E : T # {} => pick[T] \in T
      BY <2>1
    <3> HIDE DEF G
    <3> QED
      BY <2>2, <2>3, <2>4, <3>1 DEF Inductive
  <2>6. SUBSET E \subseteq G
    <3> HIDE DEF G
    <3> QED
      BY <2>5, SubsetInduction
  <2> QED
    BY <2>1, <2>6
<1> HIDE DEF left
<1>6. /\ r \in Searching /\ r.onStack = s.onStack /\ r.visited = left.visited /\ r.loop = left.loop
      /\ s.visited \cup {t} \subseteq r.visited
  BY <1>1, <1>5 DEF Following, Searching
<1> HIDE DEF r
<1>7. ASSUME Clean(bs, s), ~r.loop PROVE Clean(bs, r)
  <2>1. Clean(bs, left) /\ E \ {t} \subseteq Finished(left)
    BY <1>5, <1>6, <1>7 DEF Following
  <2>2. Finished(r) = Finished(left) \cup {t} /\ t \notin Finished(left)
    BY <1>1, <1>5, <1>6 DEF Following, Finished
  <2>3. ASSUME NEW x \in Finished(r) PROVE Edges(bs, x) \ {x} \subseteq Finished(r)
    BY <2>1, <2>2 DEF Clean
  <2>4. ASSUME NEW S \in SUBSET Finished(r), LoopIn(bs, S) PROVE FALSE
    <3>1. CASE t \in S
      <4>1. PICK p \in S \ {t} : t \in Edges(bs, p)
        BY <2>4, <3>1 DEF LoopIn, HasParentIn
      <4>2. p \in Finished(left)
        BY <2>2, <4>1
      <4> QED
        BY <2>1, <2>2, <4>1, <4>2 DEF Clean
    <3>2. CASE t \notin S
      <4>1. S \in SUBSET Finished(left)
        BY <2>2, <3>2
      <4> QED
        BY <2>1, <2>4, <4>1 DEF Clean
    <3> QED
      BY <3>1, <3>2
  <2> QED
    BY <2>3, <2>4 DEF Clean
<1>8. ASSUME OnPath(bs, s.onStack \cup {t}, t), r.loop PROVE s.loop \/ Looping(bs)
  BY <1>5, <1>6, <1>8 DEF Following
<1>9. s.loop => r.loop
  BY <1>5, <1>6 DEF Following
<1> QED
  BY <1>3, <1>6, <1>7, <1>8, <1>9 DEF Visited

-----------------------------------------------------------------------------
(* The search *)

\* A visit for each depth: as many tables may be left to visit.
LEMMA DepthFirstVisits ==
    ASSUME NEW bs \in Builders
    PROVE  Visits(bs, DepthFirst(bs), Cardinality(TableNames))
<1> DEFINE start == [t \in TableNames |-> [s \in Searching |-> s]]
           Deepen(d) == [t \in TableNames |-> [s \in Searching |-> CheckCycleUtil(bs, d, t, s)]]
           next == [d \in Deeper |-> Deepen(d)]
           P(visit) == visit = [depth \in Nat |->
                          IF depth = 0 THEN start ELSE Deepen(visit[depth - 1])]
           it == CHOOSE visit : P(visit)
<1>1. start \in Deeper
  BY DEF Deeper
<1>2. \A d \in Deeper : Deepen(d) \in Deeper
  BY VisitType DEF Deeper
<1>3. \A d \in Deeper : next[d] = Deepen(d) /\ next[d] \in Deeper
  BY <1>2
<1>4. PICK f : Repeats(f, Deeper, start, next)
  <2>1. \A d \in Deeper : next[d] \in Deeper
    BY <1>3
  <2> HIDE DEF start, next
  <2> QED
    BY <1>1, <2>1, Repetition
<1>5. P(f)
  <2>1. ASSUME NEW n \in Nat PROVE f[n] = IF n = 0 THEN start ELSE Deepen(f[n - 1])
    <3>1. CASE n = 0
      BY <1>4, <3>1 DEF Repeats
    <3>2. CASE n # 0
      <4>1. n - 1 \in Nat /\ (n - 1) + 1 = n
        BY <3>2
      <4>2. f[n] = next[f[n - 1]] /\ f[n - 1] \in Deeper
        <5> HIDE DEF next
        <5> QED
          BY <1>4, <4>1 DEF Repeats
      <4>3. f[n] = Deepen(f[n - 1])
        <5> HIDE DEF next, Deepen
        <5> QED
          BY <1>3, <4>2
      <4> QED
        BY <3>2, <4>3
    <3> QED
      BY <3>1, <3>2
  <2> HIDE DEF start, Deepen
  <2>2. f = [n \in Nat |-> f[n]]
    BY <1>4 DEF Repeats
  <2> QED
    BY <2>1, <2>2
<1>6. P(it)
  <2> HIDE DEF P
  <2> QED
    BY <1>5
<1>7. \A n \in Nat : it[n] = IF n = 0 THEN start ELSE Deepen(it[n - 1])
  <2>1. it = [depth \in Nat |-> IF depth = 0 THEN start ELSE Deepen(it[depth - 1])]
    BY <1>6
  <2> HIDE DEF it, P, start, Deepen
  <2> QED
    BY <2>1
<1>8. DepthFirst(bs) = it[Cardinality(TableNames)]
  BY DEF DepthFirst
<1> HIDE DEF it
<1> DEFINE G == {n \in Nat : Visits(bs, it[n], n)}
<1>9. 0 \in G
  <2>1. it[0] \in Deeper
    BY <1>1, <1>7
  <2>2. ASSUME NEW s \in Searching, NEW t \in TableNames, Ready(s, t), Cardinality(TableNames \ s.visited) <= 0
        PROVE  FALSE
    <3>1. IsFiniteSet(TableNames \ s.visited)
      BY SchemaAssumption, FS_Subset
    <3>2. Cardinality(TableNames \ s.visited) = 0
      BY <2>2, <3>1, FS_CardinalityType
    <3>3. TableNames \ s.visited = {}
      BY <3>1, <3>2, FS_EmptySet
    <3> QED
      BY <2>2, <3>3 DEF Ready
  <2>3. \A s \in Searching, t \in TableNames : it[0][t][s] = s
    <3>1. it[0] = start
      BY <1>7
    <3> QED
      BY <3>1
  <2> QED
    BY <2>1, <2>2, <2>3 DEF Visits
<1>10. ASSUME NEW n \in Nat, n \in G PROVE n + 1 \in G
  <2>1. it[n] \in Deeper /\ Visits(bs, it[n], n)
    BY <1>10 DEF Visits
  <2>2. n + 1 \in Nat /\ n + 1 # 0 /\ (n + 1) - 1 = n
    OBVIOUS
  <2>3. it[n + 1] = Deepen(it[n])
    <3> HIDE DEF Deepen, start
    <3> QED
      BY <1>7, <2>2
  <2>4. it[n + 1] \in Deeper
    BY <1>2, <2>1, <2>3
  <2>5. ASSUME NEW s \in Searching, NEW t \in TableNames, Ready(s, t),
               Cardinality(TableNames \ s.visited) <= n + 1
        PROVE  Visited(bs, s, t, it[n + 1][t][s])
    <3>1. it[n + 1][t][s] = CheckCycleUtil(bs, it[n], t, s)
      BY <2>3
    <3> QED
      BY <2>1, <2>5, <3>1, VisitStep
  <2>6. ASSUME NEW s \in Searching, NEW t \in TableNames, t \in s.visited, s.onStack = {}
        PROVE  it[n + 1][t][s] = s
    <3>1. it[n + 1][t][s] = CheckCycleUtil(bs, it[n], t, s)
      BY <2>3
    <3>2. [s EXCEPT !.onStack = @ \ {t}] = s
      BY <2>6 DEF Searching
    <3> QED
      BY <2>6, <3>1, <3>2 DEF CheckCycleUtil
  <2>7. Visits(bs, it[n + 1], n + 1)
    BY <2>4, <2>5, <2>6 DEF Visits
  <2> QED
    BY <2>2, <2>7
<1>11. Nat \subseteq G
  <2> HIDE DEF G
  <2> QED
    BY <1>9, <1>10, Induction
<1>12. Cardinality(TableNames) \in Nat
  BY SchemaAssumption, FS_CardinalityType
<1> QED
  BY <1>8, <1>11, <1>12

\* The search from some of the tables.
Searched(bs, T, a) ==
    /\ a \in Searching /\ a.onStack = {} /\ T \subseteq a.visited
    /\ ~a.loop => Clean(bs, a)
    /\ a.loop => Looping(bs)

LEMMA SearchStep ==
    ASSUME NEW bs \in Builders, NEW search, Visits(bs, search, Cardinality(TableNames)),
           NEW T, NEW a, Searched(bs, T, a), NEW t \in TableNames
    PROVE  Searched(bs, T \cup {t}, search[t][a])
<1> DEFINE r == search[t][a]
<1>1. a \in Searching /\ a.onStack = {} /\ T \subseteq a.visited /\ a.visited \subseteq TableNames
  BY DEF Searched, Searching
<1>2. CASE t \in a.visited
  <2>1. r = a
    BY <1>1, <1>2 DEF Visits
  <2> QED
    BY <1>1, <1>2, <2>1 DEF Searched
<1>3. CASE t \notin a.visited
  <2>1. Ready(a, t)
    BY <1>1, <1>3 DEF Ready
  <2>2. Cardinality(TableNames \ a.visited) <= Cardinality(TableNames)
    BY SchemaAssumption, FS_Subset
  <2>3. Visited(bs, a, t, r)
    BY <1>1, <2>1, <2>2 DEF Visits
  <2>4. OnPath(bs, a.onStack \cup {t}, t)
    <3>1. a.onStack \cup {t} = {t}
      BY <1>1
    <3>2. {t} \in SUBSET {t} /\ {t} \ {t} = {}
      OBVIOUS
    <3> QED
      BY <3>1, <3>2 DEF OnPath
  <2> HIDE DEF r
  <2> QED
    BY <1>1, <2>3, <2>4 DEF Searched, Visited, r
<1> QED
  BY <1>2, <1>3

LEMMA SearchStarts ==
    ASSUME NEW bs PROVE NotSearched \in Searching /\ Searched(bs, {}, NotSearched)
<1>1. /\ NotSearched \in Searching /\ NotSearched.onStack = {} /\ NotSearched.visited = {}
      /\ ~NotSearched.loop
  BY DEF NotSearched, Searching
<1>2. Finished(NotSearched) = {}
  BY <1>1 DEF Finished
<1>3. Clean(bs, NotSearched)
  BY <1>2 DEF Clean, LoopIn
<1> QED
  BY <1>1, <1>3 DEF Searched

\* The depth-first search from every table finds a loop exactly when there is one.
LEMMA LoopsFound ==
    ASSUME NEW bs \in Builders
    PROVE  FindsLoop(bs) <=> Looping(bs)
<1> DEFINE search == DepthFirst(bs)
           S == Tables(bs)
           pick == [T \in SUBSET S |-> CHOOSE x \in T : TRUE]
           next == [v \in S \X Searching |-> search[v[1]][v[2]]]
           P(iter) == iter = [T \in SUBSET S |->
                         IF T = {} THEN NotSearched
                         ELSE search[CHOOSE x \in T : TRUE][iter[T \ {CHOOSE x \in T : TRUE}]]]
           it == CHOOSE iter : P(iter)
<1>1. FindsLoop(bs) = it[S].loop
  BY DEF FindsLoop, FoldSet, MapThenFoldSet
<1>2. IsFiniteSet(S) /\ S \subseteq TableNames
  BY EdgesFacts
<1>3. Visits(bs, search, Cardinality(TableNames)) /\ search \in Deeper
  BY DepthFirstVisits DEF Visits
<1> HIDE DEF search
<1>4. \A T \in SUBSET S : pick[T] = (CHOOSE x \in T : TRUE) /\ (T # {} => pick[T] \in T)
  OBVIOUS
<1>5. \A x \in S, a \in Searching : next[<<x, a>>] = search[x][a] /\ next[<<x, a>>] \in Searching
  BY <1>2, <1>3 DEF Deeper
<1>6. PICK f : IsLoop(f, S, Searching, NotSearched, pick, next)
  <2> HIDE DEF S, pick, next
  <2>1. Steps(S, Searching, NotSearched, pick, next)
    BY <1>2, <1>4, <1>5, SearchStarts DEF Steps
  <2> QED
    BY <2>1, SetLoop
<1>7. P(f)
  <2>1. ASSUME NEW T \in SUBSET S
        PROVE  f[T] = IF T = {} THEN NotSearched
                      ELSE search[CHOOSE x \in T : TRUE][f[T \ {CHOOSE x \in T : TRUE}]]
    <3> HIDE DEF S, pick, next
    <3>1. CASE T = {}
      BY <1>6, <3>1 DEF IsLoop
    <3>2. CASE T # {}
      <4>1. pick[T] \in S /\ T \ {pick[T]} \in SUBSET S /\ f[T \ {pick[T]}] \in Searching
        BY <1>4, <1>6, <3>2 DEF IsLoop
      <4>2. f[T] = next[<<pick[T], f[T \ {pick[T]}]>>]
        BY <1>6, <3>2 DEF IsLoop
      <4>3. f[T] = search[pick[T]][f[T \ {pick[T]}]]
        BY <1>5, <4>1, <4>2
      <4> QED
        BY <1>4, <3>2, <4>3
    <3> QED
      BY <3>1, <3>2
  <2>2. f = [T \in SUBSET S |-> f[T]]
    BY <1>6 DEF IsLoop
  <2> QED
    BY <2>1, <2>2
<1>8. P(it)
  <2> HIDE DEF P
  <2> QED
    BY <1>7
<1>9. \A T \in SUBSET S : it[T] = IF T = {} THEN NotSearched ELSE search[pick[T]][it[T \ {pick[T]}]]
  <2>1. it = [T \in SUBSET S |->
                IF T = {} THEN NotSearched
                ELSE search[CHOOSE x \in T : TRUE][it[T \ {CHOOSE x \in T : TRUE}]]]
    BY <1>8
  <2> HIDE DEF it, P
  <2> QED
    BY <2>1
<1> DEFINE G == {T \in SUBSET S : Searched(bs, T, it[T])}
<1>10. SUBSET S \subseteq G
  <2> HIDE DEF S, pick, it
  <2>1. {} \in G
    BY <1>9, SearchStarts
  <2>2. ASSUME NEW T \in SUBSET S, T # {}, T \ {pick[T]} \in G PROVE T \in G
    <3>1. pick[T] \in TableNames /\ (T \ {pick[T]}) \cup {pick[T]} = T
      BY <1>2, <1>4, <2>2
    <3>2. Searched(bs, T \ {pick[T]}, it[T \ {pick[T]}])
      BY <2>2
    <3>3. Searched(bs, (T \ {pick[T]}) \cup {pick[T]}, search[pick[T]][it[T \ {pick[T]}]])
      BY <1>3, <3>1, <3>2, SearchStep
    <3>4. Searched(bs, T, it[T])
      BY <1>9, <2>2, <3>1, <3>3
    <3> QED
      BY <3>4
  <2>3. Inductive(S, pick, G)
    <3> HIDE DEF G
    <3> QED
      BY <1>2, <1>4, <2>1, <2>2 DEF Inductive
  <2> HIDE DEF G
  <2> QED
    BY <2>3, SubsetInduction
<1>11. Searched(bs, S, it[S])
  BY <1>10
<1> HIDE DEF it
<1>12. ASSUME ~it[S].loop PROVE ~Looping(bs)
  <2>1. Clean(bs, it[S]) /\ S \subseteq Finished(it[S])
    BY <1>11, <1>12 DEF Searched, Finished
  <2> QED
    BY <2>1, LoopingIsLoopIn DEF Clean
<1>13. it[S].loop => Looping(bs)
  BY <1>11 DEF Searched
<1> QED
  BY <1>1, <1>12, <1>13

-----------------------------------------------------------------------------
(* A schema that is accepted *)

LEMMA ToSetSingle ==
    ASSUME NEW x PROVE ToSet(<<x>>) = {x}
<1>1. DOMAIN <<x>> = {1} /\ <<x>>[1] = x
  OBVIOUS
<1> QED
  BY <1>1 DEF ToSet

\* What the constraint checker reads of a foreign key and its tables.
LEMMA KeysOfAccepted ==
    ASSUME NEW bs \in Builders, Accepted(bs), NEW fk \in ForeignKeys(bs)
    PROVE  /\ fk.parentTable \in Tables(bs) /\ fk.childTable \in Tables(bs)
           /\ IsBuilder(fk.parentTable, bs[fk.parentTable])
           /\ IsBuilder(fk.childTable, bs[fk.childTable])
           /\ fk \in Kept(bs[fk.childTable])
           /\ fk.parentColumn \in bs[fk.parentTable].uniqueColumns
           /\ fk.childColumn \in DOMAIN bs[fk.childTable].columns
<1> DEFINE parent == bs[fk.parentTable]
           child == bs[fk.childTable]
<1>1. ForeignKeyValid(bs, fk)
  BY DEF Accepted
<1>2. fk.parentTable \in Tables(bs) /\ fk.childTable \in Tables(bs) /\ fk \in ToSet(child.fkSpecs)
  BY <1>1, KeysOfBuilders DEF ForeignKeyValid, Tables
<1>3. IsBuilder(fk.parentTable, parent) /\ IsBuilder(fk.childTable, child)
  BY <1>2 DEF Builders
<1>4. fk.parentColumn \in parent.uniqueColumns
        /\ parent.columns[fk.parentColumn] = child.columns[fk.childColumn]
  BY <1>1 DEF ForeignKeyValid
<1> HIDE DEF parent, child
<1>5. fk \in Kept(child)
  BY <1>2, <1>3, <1>4 DEF Kept, IsBuilder, UniqueColumnsIndexed
<1>6. fk.childColumn \in DOMAIN child.columns
  BY <1>2, <1>3 DEF IsBuilder, KeyColumnsExist
<1> QED
  BY <1>2, <1>3, <1>4, <1>5, <1>6 DEF parent, child

LEMMA AcceptedIsSound ==
    ASSUME NEW bs \in Builders, Accepted(bs) PROVE Sound(bs)
<1>1. ~Looping(bs)
  BY LoopsFound DEF Accepted
<1>2. ASSUME NEW fk \in ForeignKeys(bs)
      PROVE  /\ fk.parentTable \in Tables(bs)
             /\ LET parent == bs[fk.parentTable]
                IN \E name \in DOMAIN parent.indices :
                     name \in parent.uniqueIndices /\ parent.indices[name] = <<fk.parentColumn>>
             /\ ~\E up \in ForeignKeys(bs) :
                   <<up.childTable, up.childColumn>> = <<fk.parentTable, fk.parentColumn>>
             /\ fk.name \in DOMAIN bs[fk.childTable].indices
             /\ fk.name \in bs[fk.childTable].uniqueIndices
                   <=> fk.childColumn \in bs[fk.childTable].uniqueColumns
             /\ fk.name \in bs[fk.childTable].uniqueIndices
                   => \E name \in bs[fk.childTable].uniqueIndices \ {fk.name} :
                         bs[fk.childTable].indices[name] = <<fk.childColumn>>
  <2> DEFINE parent == bs[fk.parentTable]
             b == bs[fk.childTable]
  <2>1. /\ fk.parentTable \in Tables(bs) /\ fk.childTable \in Tables(bs)
        /\ IsBuilder(fk.parentTable, parent) /\ IsBuilder(fk.childTable, b) /\ fk \in Kept(b)
        /\ fk.parentColumn \in parent.uniqueColumns
    BY KeysOfAccepted
  <2>2. PrimaryKeyValid(b)
    BY <2>1 DEF Accepted
  <2>3. ~\E up \in ForeignKeys(bs) :
           <<up.childTable, up.childColumn>> = <<fk.parentTable, fk.parentColumn>>
    BY DEF Accepted, NoChain
  <2> HIDE DEF parent, b
  <2>4. \E name \in DOMAIN parent.indices :
           name \in parent.uniqueIndices /\ parent.indices[name] = <<fk.parentColumn>>
    BY <2>1 DEF IsBuilder, UniqueColumnsIndexed
  <2>5. fk.name \in DOMAIN b.indices /\ (fk.name \in b.uniqueIndices => fk.childColumn \in b.uniqueColumns)
    BY <2>1 DEF IsBuilder, KeysIndexed
  <2>6. ASSUME fk.childColumn \in b.uniqueColumns PROVE fk.name \in b.uniqueIndices
    <3>1. ASSUME b.pkName \in DOMAIN b.indices, b.indices[b.pkName] = <<fk.childColumn>> PROVE FALSE
      <4>1. PICK i \in DOMAIN b.fkSpecs : fk = b.fkSpecs[i]
        BY <2>1 DEF Kept, ToSet
      <4>2. b.fkSpecs[i].childColumn \notin ToSet(<<fk.childColumn>>)
        BY <2>2, <3>1 DEF PrimaryKeyValid
      <4> QED
        BY <4>1, <4>2, ToSetSingle
    <3> QED
      BY <2>1, <2>6, <3>1 DEF IsBuilder, KeysIndexed
  <2>7. fk.childColumn \in b.uniqueColumns =>
           \E name \in b.uniqueIndices \ {fk.name} : b.indices[name] = <<fk.childColumn>>
    BY <2>1 DEF IsBuilder, UniqueColumnsIndexed
  <2> QED
    BY <2>1, <2>3, <2>4, <2>5, <2>6, <2>7 DEF parent, b
<1> QED
  BY <1>1, <1>2 DEF Sound

-----------------------------------------------------------------------------
(* The calls the application makes first *)

LEMMA PreludeBuilders == FoldLeft(After, NoBuilders, Prelude) \in Builders
<1> DEFINE n == Len(Prelude)
           S == 1 .. n
           pick == [T \in SUBSET S |-> Max(T)]
           next == [v \in S \X Builders |-> After(v[2], Prelude[v[1]])]
           P(iter) == iter = [T \in SUBSET S |->
                         IF T = {} THEN NoBuilders ELSE After(iter[T \ {Max(T)}], Prelude[Max(T)])]
           it == CHOOSE iter : P(iter)
<1>1. n \in Nat /\ DOMAIN Prelude = S /\ \A i \in S : Prelude[i] \in Call
  BY SchemaAssumption
<1>2. FoldLeft(After, NoBuilders, Prelude) = it[S]
  BY <1>1 DEF FoldLeft, MapThenFoldSet
<1>3. IsFiniteSet(S)
  BY <1>1, FS_Interval
<1>4. \A T \in SUBSET S : pick[T] = Max(T) /\ (T # {} => pick[T] \in T)
  BY <1>1, LastPlace
<1>5. NoBuilders \in Builders
  BY NoBuildersIsBuilders
<1>6. \A i \in S, a \in Builders : After(a, Prelude[i]) \in Builders
  BY <1>1, AfterKeeps
<1>7. \A i \in S, a \in Builders : next[<<i, a>>] = After(a, Prelude[i])
  OBVIOUS
<1>8. PICK f : IsLoop(f, S, Builders, NoBuilders, pick, next)
  <2> HIDE DEF S, pick, next
  <2>1. Steps(S, Builders, NoBuilders, pick, next)
    BY <1>3, <1>4, <1>5, <1>6, <1>7 DEF Steps
  <2> QED
    BY <2>1, SetLoop
<1>9. P(f)
  <2>1. ASSUME NEW T \in SUBSET S
        PROVE  f[T] = IF T = {} THEN NoBuilders ELSE After(f[T \ {Max(T)}], Prelude[Max(T)])
    <3> HIDE DEF S, pick, next
    <3>1. CASE T = {}
      BY <1>8, <3>1 DEF IsLoop
    <3>2. CASE T # {}
      <4>1. pick[T] \in S /\ T \ {pick[T]} \in SUBSET S /\ f[T \ {pick[T]}] \in Builders
        BY <1>4, <1>8, <3>2 DEF IsLoop
      <4>2. f[T] = next[<<pick[T], f[T \ {pick[T]}]>>]
        BY <1>8, <3>2 DEF IsLoop
      <4>3. f[T] = After(f[T \ {pick[T]}], Prelude[pick[T]])
        BY <1>7, <4>1, <4>2
      <4> QED
        BY <1>4, <3>2, <4>3
    <3> QED
      BY <3>1, <3>2
  <2>2. f = [T \in SUBSET S |-> f[T]]
    BY <1>8 DEF IsLoop
  <2> QED
    BY <2>1, <2>2
<1>10. P(it)
  <2> HIDE DEF P
  <2> QED
    BY <1>9
<1>11. \A T \in SUBSET S :
          it[T] = IF T = {} THEN NoBuilders ELSE After(it[T \ {pick[T]}], Prelude[pick[T]])
  <2>1. it = [T \in SUBSET S |->
                IF T = {} THEN NoBuilders ELSE After(it[T \ {Max(T)}], Prelude[Max(T)])]
    BY <1>10
  <2> HIDE DEF it, P
  <2> QED
    BY <2>1
<1> DEFINE G == {T \in SUBSET S : it[T] \in Builders}
<1>12. SUBSET S \subseteq G
  <2> HIDE DEF S, pick, it
  <2>1. {} \in G
    <3>1. {} \in SUBSET S /\ it[{}] = NoBuilders
      BY <1>11
    <3> QED
      BY <1>5, <3>1
  <2>2. ASSUME NEW T \in SUBSET S, T # {}, T \ {pick[T]} \in G PROVE T \in G
    <3>1. pick[T] \in S /\ it[T \ {pick[T]}] \in Builders
      BY <1>4, <2>2
    <3>2. it[T] = After(it[T \ {pick[T]}], Prelude[pick[T]])
      BY <1>11, <2>2
    <3>3. After(it[T \ {pick[T]}], Prelude[pick[T]]) \in Builders
      BY <1>6, <3>1
    <3> QED
      BY <3>2, <3>3
  <2>3. Inductive(S, pick, G)
    <3> HIDE DEF G
    <3> QED
      BY <1>3, <1>4, <2>1, <2>2 DEF Inductive
  <2> HIDE DEF G
  <2> QED
    BY <2>3, SubsetInduction
<1> QED
  BY <1>2, <1>12

LEMMA PreludeOrder == FoldLeft(InOrder, <<>>, Prelude) \in Seq(TableNames)
<1> DEFINE n == Len(Prelude)
           S == 1 .. n
           pick == [T \in SUBSET S |-> Max(T)]
           next == [v \in S \X Seq(TableNames) |-> InOrder(v[2], Prelude[v[1]])]
           P(iter) == iter = [T \in SUBSET S |->
                         IF T = {} THEN <<>> ELSE InOrder(iter[T \ {Max(T)}], Prelude[Max(T)])]
           it == CHOOSE iter : P(iter)
<1>1. n \in Nat /\ DOMAIN Prelude = S /\ \A i \in S : Prelude[i] \in Call
  BY SchemaAssumption
<1>2. FoldLeft(InOrder, <<>>, Prelude) = it[S]
  BY <1>1 DEF FoldLeft, MapThenFoldSet
<1>3. IsFiniteSet(S)
  BY <1>1, FS_Interval
<1>4. \A T \in SUBSET S : pick[T] = Max(T) /\ (T # {} => pick[T] \in T)
  BY <1>1, LastPlace
<1>5. <<>> \in Seq(TableNames)
  OBVIOUS
<1>6. \A i \in S, a \in Seq(TableNames) : InOrder(a, Prelude[i]) \in Seq(TableNames)
  BY <1>1 DEF InOrder, Call
<1>7. \A i \in S, a \in Seq(TableNames) : next[<<i, a>>] = InOrder(a, Prelude[i])
  OBVIOUS
<1>8. PICK f : IsLoop(f, S, Seq(TableNames), <<>>, pick, next)
  <2> HIDE DEF S, pick, next
  <2>1. Steps(S, Seq(TableNames), <<>>, pick, next)
    BY <1>3, <1>4, <1>5, <1>6, <1>7 DEF Steps
  <2> QED
    BY <2>1, SetLoop
<1>9. P(f)
  <2>1. ASSUME NEW T \in SUBSET S
        PROVE  f[T] = IF T = {} THEN <<>> ELSE InOrder(f[T \ {Max(T)}], Prelude[Max(T)])
    <3> HIDE DEF S, pick, next
    <3>1. CASE T = {}
      BY <1>8, <3>1 DEF IsLoop
    <3>2. CASE T # {}
      <4>1. pick[T] \in S /\ T \ {pick[T]} \in SUBSET S /\ f[T \ {pick[T]}] \in Seq(TableNames)
        BY <1>4, <1>8, <3>2 DEF IsLoop
      <4>2. f[T] = next[<<pick[T], f[T \ {pick[T]}]>>]
        BY <1>8, <3>2 DEF IsLoop
      <4>3. f[T] = InOrder(f[T \ {pick[T]}], Prelude[pick[T]])
        BY <1>7, <4>1, <4>2
      <4> QED
        BY <1>4, <3>2, <4>3
    <3> QED
      BY <3>1, <3>2
  <2>2. f = [T \in SUBSET S |-> f[T]]
    BY <1>8 DEF IsLoop
  <2> QED
    BY <2>1, <2>2
<1>10. P(it)
  <2> HIDE DEF P
  <2> QED
    BY <1>9
<1>11. \A T \in SUBSET S :
          it[T] = IF T = {} THEN <<>> ELSE InOrder(it[T \ {pick[T]}], Prelude[pick[T]])
  <2>1. it = [T \in SUBSET S |->
                IF T = {} THEN <<>> ELSE InOrder(it[T \ {Max(T)}], Prelude[Max(T)])]
    BY <1>10
  <2> HIDE DEF it, P
  <2> QED
    BY <2>1
<1> DEFINE G == {T \in SUBSET S : it[T] \in Seq(TableNames)}
<1>12. SUBSET S \subseteq G
  <2> HIDE DEF S, pick, it
  <2>1. {} \in G
    <3>1. {} \in SUBSET S /\ it[{}] = <<>>
      BY <1>11
    <3> QED
      BY <1>5, <3>1
  <2>2. ASSUME NEW T \in SUBSET S, T # {}, T \ {pick[T]} \in G PROVE T \in G
    <3>1. pick[T] \in S /\ it[T \ {pick[T]}] \in Seq(TableNames)
      BY <1>4, <2>2
    <3>2. it[T] = InOrder(it[T \ {pick[T]}], Prelude[pick[T]])
      BY <1>11, <2>2
    <3>3. InOrder(it[T \ {pick[T]}], Prelude[pick[T]]) \in Seq(TableNames)
      BY <1>6, <3>1
    <3> QED
      BY <3>2, <3>3
  <2>3. Inductive(S, pick, G)
    <3> HIDE DEF G
    <3> QED
      BY <1>3, <1>4, <2>1, <2>2 DEF Inductive
  <2> HIDE DEF G
  <2> QED
    BY <2>3, SubsetInduction
<1> QED
  BY <1>2, <1>12

-----------------------------------------------------------------------------
(* The Builder *)

\* The builders are what calls make of them; a database has a schema, and the schema
\* was accepted.
SchemaInv ==
    /\ builders \in Builders
    /\ created \in Seq(TableNames)
    /\ db # None => schema # None
    /\ schema # None => schema \in Builders /\ Accepted(schema)

LEMMA SchemaInitInv == SchemaInit => SchemaInv
  BY PreludeBuilders, PreludeOrder DEF SchemaInit, SchemaInv

LEMMA FinalizeKeeps ==
    ASSUME SchemaInv, Finalize
    PROVE  /\ builders' \in Builders
           /\ schema # None => schema' = schema
           /\ schema' # None => schema' \in Builders /\ Accepted(schema')
<1>1. CASE schema = None /\ Accepted(builders)
  BY <1>1, NoBuildersIsBuilders DEF Finalize, SchemaInv
<1>2. CASE ~(schema = None /\ Accepted(builders))
  BY <1>2 DEF Finalize, SchemaInv
<1> QED
  BY <1>1, <1>2

LEMMA SchemaStepInv ==
    ASSUME SchemaInv, SchemaNext PROVE SchemaInv'
<1>1. CASE CreateTable
  <2>1. PICK call \in Calls : builders' = After(builders, call) /\ created' = Append(created, call.table)
    BY <1>1 DEF CreateTable
  <2>2. builders' \in Builders /\ call.table \in TableNames
    BY <2>1, AfterKeeps, SchemaAssumption DEF SchemaInv
  <2>3. created' \in Seq(TableNames)
    BY <2>1, <2>2 DEF SchemaInv
  <2> QED
    BY <1>1, <2>2, <2>3 DEF CreateTable, SchemaInv
<1>2. CASE CallTableBuilder
  <2>1. PICK call \in Calls : builders' = After(builders, call)
    BY <1>2 DEF CallTableBuilder
  <2>2. builders' \in Builders
    BY <2>1, AfterKeeps, SchemaAssumption DEF SchemaInv
  <2> QED
    BY <1>2, <2>2 DEF CallTableBuilder, SchemaInv
<1>3. CASE GetSchema
  <2>1. Finalize /\ UNCHANGED <<created, connecting, db>>
    BY <1>3 DEF GetSchema
  <2> QED
    BY <2>1, FinalizeKeeps DEF SchemaInv
<1>4. CASE Connect
  <2>1. created' = created
    BY <1>4 DEF Connect
  <2>2. CASE db = None
    <3>1. Finalize /\ (db' # None => schema' # None)
      BY <1>4, <2>2 DEF Connect
    <3> QED
      BY <2>1, <3>1, FinalizeKeeps DEF SchemaInv
  <2>3. CASE db # None
    <3>1. UNCHANGED <<schema, builders>>
      BY <1>4, <2>3 DEF Connect
    <3> QED
      BY <2>1, <2>3, <3>1 DEF SchemaInv
  <2> QED
    BY <2>2, <2>3
<1>5. CASE InitSucceeds \/ InitFails \/ Close
  <2>1. UNCHANGED <<builders, created, schema>> /\ db # None
    BY <1>5, SchemaAssumption DEF InitSucceeds, InitFails, Close
  <2> QED
    BY <2>1 DEF SchemaInv
<1> QED
  BY <1>1, <1>2, <1>3, <1>4, <1>5 DEF SchemaNext

LEMMA SchemaInvSound ==
    ASSUME SchemaInv PROVE AcceptedSchemasAreSound
<1>1. LoopsFoundExactly
  BY LoopsFound DEF SchemaInv, LoopsFoundExactly
<1>2. db = "init" => Sound(schema)
  BY AcceptedIsSound, SchemaAssumption DEF SchemaInv
<1> QED
  BY <1>1, <1>2 DEF AcceptedSchemasAreSound
==============================================================================
