---------------------------- MODULE StoresProofs ----------------------------
(***************************************************************************)
(* Proofs about Stores: ids stay fresh, upgrades are complete, commits are *)
(* stored whole or not at all, memory follows, the index leads to rows.    *)
(*                                                                         *)
(* The argument has two halves.  What holds of any store, broken or not,   *)
(* is about the form of tables and requests (Sessions, Disk, Memory,       *)
(* Requests), the ids below the next one (IdsBelow) and the formats of     *)
(* rows (Formats).  What holds until a store breaks a transaction in two   *)
(* is that the requests not yet executed are what the tables of a          *)
(* transaction still miss (Missing, IndexMissing), so that the last one    *)
(* leaves the rows in memory and nothing else.                             *)
(***************************************************************************)
EXTENDS Stores, FiniteSetTheorems, WellFoundedInduction, TLAPS

-----------------------------------------------------------------------------
(* Tables and records, without the variables *)

Maps == {"memory", "localStorage"}

Table(rows) == DOMAIN rows \subseteq Ids /\ rows \in [DOMAIN rows -> Row]

\* Pages hold rows, and none of another page.
PagesOf(records) ==
    /\ records = [page \in DOMAIN records |-> records[page]]
    /\ DOMAIN records \subseteq Nat
    /\ \A page \in DOMAIN records :
         /\ Table(records[page])
         /\ DOMAIN records[page] # {}
         /\ DOMAIN records[page] \subseteq PageRange(page)

Paged(rows) == [page \in {ToPageId(id) : id \in DOMAIN rows} |-> OnPage(rows, page)]

\* The records of back store k, the rows they hold, the records that hold rows.
Valid(k, records) == IF k = "bundled" THEN PagesOf(records) ELSE Table(records)
RowsOf(k, records) == IF k = "bundled" THEN UnpackPages(records) ELSE records
Packed(k, rows) == IF k = "bundled" THEN Paged(rows) ELSE rows

Leaves == {NoRows} \cup [{0} -> SUBSET (Values \X Ids)]
Entries(leaves) == IF leaves = NoRows THEN {} ELSE leaves[0]

\* All tables or none.
Fit(k, needed, tables) ==
    \/ tables = NoRows
    \/ /\ tables = [t \in needed |-> tables[t]]
       /\ Valid(k, tables["rows"])
       /\ "leaves" \in needed => tables["leaves"] \in Leaves

-----------------------------------------------------------------------------
(* The inductive invariant: any store *)

InSession == phase \in {"idle", "active", "committing", "import", "importing"}

Sessions ==
    /\ kind \in Kinds /\ persistent \in BOOLEAN /\ (kind = "localStorage" => ~persistent)
    /\ version \in 0 .. MaxVersion /\ schema \in 1 .. MaxVersion /\ nextId \in Nat
    /\ phase \in {"closed", "upgrading", "recreating", "transforming", "prefetching",
                  "idle", "active", "committing", "import", "importing"}
    /\ phase = "upgrading" => kind \in {"indexedDb", "bundled", "webSql"} /\ version < schema
    /\ phase \in {"recreating", "transforming"} => kind = "webSql"
    /\ phase \in {"import", "importing"} => kind # "localStorage"
    /\ phase \in {"recreating", "transforming", "prefetching"} \/ InSession => version = schema

Disk ==
    /\ Fit(kind, TablesNeeded, durable) /\ Fit(kind, TablesNeeded, view)
    /\ InSession \/ phase = "transforming" => DOMAIN durable = TablesNeeded
    /\ Running \/ phase = "import" => DOMAIN view = TablesNeeded
    /\ kind \in Maps /\ phase # "closed" => DOMAIN durable = TablesNeeded /\ DOMAIN view = TablesNeeded
    /\ phase = "closed" \/ (~InSession /\ kind \notin Maps) => view = NoRows

Memory ==
    /\ Table(cache) /\ Table(base) /\ index \subseteq Values \X Ids
    /\ ~InSession => cache = NoRows /\ base = NoRows /\ index = {} /\ nextId = 0

\* The requests that there may be: what is put is what memory holds.
RowsAsked(target, k) ==
    {Put("rows", key, target[key]) : key \in DOMAIN target}
    \cup {Delete("rows", keys) : keys \in SUBSET Nat}
    \cup {Clear("rows")}
    \cup (IF k = "indexedDb" THEN {Count("rows", keys) : keys \in SUBSET Ids} ELSE {})

LeavesAsked(entries, k) ==
    {Put("leaves", 0, entries), Clear("leaves")}
    \cup (IF k = "indexedDb" THEN {Count("leaves", {})} ELSE {})

Asked(target, entries, k, p) ==
    RowsAsked(target, k)
    \cup (IF p THEN LeavesAsked(entries, k) ELSE {})
    \cup (IF k = "localStorage" THEN {Flush("rows")} ELSE {})

Target == Packed(kind, cache)

Requests ==
    /\ requests \in Seq(Asked(Target, index, kind, persistent))
    /\ ~Running => requests = << >>

ViewRows == IF "rows" \in DOMAIN view THEN RowsOf(kind, view["rows"]) ELSE NoRows

Below(rows, n) == \A id \in DOMAIN rows : id < n
IdsBelow ==
    /\ kind # "localStorage" /\ InSession =>
         /\ Below(cache, nextId) /\ Below(base, nextId)
         /\ Below(StoredRows, nextId) /\ Below(ViewRows, nextId)
    /\ kind = "memory" /\ ~InSession => StoredRows = NoRows /\ ViewRows = NoRows

Of(rows, v) == \A id \in DOMAIN rows : rows[id].format = v
Formats ==
    kind # "webSql" /\ ~rejected =>
        /\ Of(StoredRows, version)
        /\ Of(cache, schema) /\ Of(base, schema) /\ Of(ViewRows, schema)

-----------------------------------------------------------------------------
(* The inductive invariant: until a transaction is broken in two *)

\* What the records miss of the target is requested by rs, and nothing that is
\* requested undoes it.
Missing(rs, records, target) ==
    /\ \A key \in DOMAIN target :
         \/ key \in DOMAIN records /\ records[key] = target[key]
         \/ \E i \in DOMAIN rs : rs[i] = Put("rows", key, target[key])
    /\ \A key \in DOMAIN records \ DOMAIN target :
         \E i \in DOMAIN rs :
            /\ rs[i].table = "rows"
            /\ rs[i].op = "clear" \/ (rs[i].op \in {"delete", "count"} /\ key \in rs[i].keys)
    /\ \A i \in DOMAIN rs : rs[i].table = "rows" =>
         /\ rs[i].op = "delete" => rs[i].keys \cap DOMAIN target = {}
         /\ rs[i].op = "clear" =>
              \A key \in DOMAIN target :
                 \E j \in DOMAIN rs : j > i /\ rs[j] = Put("rows", key, target[key])
         /\ rs[i].op = "count" =>
              /\ rs[i].keys # {} /\ rs[i].keys \subseteq DOMAIN records \ DOMAIN target
              /\ DOMAIN target \subseteq DOMAIN records
              /\ \A j \in DOMAIN rs : rs[j].table = "rows" /\ rs[j].op # "flush" => j = i

\* The flush is the last request, and stores the rows.
FlushIsLast ==
    kind = "localStorage" =>
        /\ \A i \in DOMAIN requests : requests[i].op = "flush" <=> i = Len(requests)
        /\ durable["rows"] = IF requests = << >> THEN view["rows"] ELSE base

\* An import adds rows to those there.
BaseKept == \A id \in DOMAIN base : id \in DOMAIN cache /\ cache[id] = base[id]

Whole ==
    torn = "no" =>
        /\ InSession /\ ~(kind = "localStorage" /\ phase = "committing") =>
             durable["rows"] = Packed(kind, base)
        /\ phase = "idle" => cache = base
        /\ phase \in {"import", "importing"} => BaseKept
        /\ phase = "import" \/ (kind \in Maps /\ ~Running /\ phase # "closed") => view = durable
        /\ Running => Missing(requests, view["rows"], Target)
        /\ Running => FlushIsLast

\* Where an index leads to every row but those lost, and not only to rows.
LeadsTo(entries, rows, lost) == \A p \in Pairs(rows) \ entries : p[2] \in lost

Exact == ~persistent \/ kind = "memory" \/ (kind # "indexedDb" /\ schema = 1)
StoredExactly == persistent /\ (kind = "memory" \/ (kind # "indexedDb" /\ version \in {0, 1}))

\* What memory may lack: nothing, when its index was never read back.
Lost == IF ~persistent \/ kind = "memory" THEN {} ELSE unindexed

\* The same of the index: it is put after its table was cleared, except by
\* ObjectStore, which clears when the count has been answered.
IndexMissing(k, rs, leaves, entries) ==
    /\ \/ \E i \in DOMAIN rs : rs[i] = Put("leaves", 0, entries)
       \/ Entries(leaves) = entries
       \/ k = "indexedDb" /\ leaves = NoRows
    /\ k # "indexedDb" =>
         \A i \in DOMAIN rs : rs[i] = Clear("leaves") =>
            \E j \in DOMAIN rs : j > i /\ rs[j] = Put("leaves", 0, entries)

IndexInMemory == InSession => index \subseteq Pairs(cache) /\ (Exact => LeadsTo(index, cache, Lost))

LeavesLead(leaves, rows, exact, lost, p) ==
    /\ Entries(leaves) \subseteq Pairs(rows)
    /\ exact => LeadsTo(Entries(leaves), rows, lost)
    /\ ~p => leaves = NoRows

IndexOnDisk ==
    "leaves" \in DOMAIN durable =>
        LeavesLead(durable["leaves"], StoredRows, StoredExactly, unindexed, persistent)

IndexInView == "leaves" \in DOMAIN view /\ ~persistent => view["leaves"] = NoRows

IndexRequested == persistent /\ phase = "committing" => IndexMissing(kind, requests, view["leaves"], index)

\* An import asks for rows and nothing else.
IndexLeftAlone ==
    persistent /\ phase \in {"import", "importing"} =>
        /\ view["leaves"] = durable["leaves"]
        /\ \A i \in DOMAIN requests : requests[i].table = "rows"

\* What makes the first upgrade harmless: it finds no rows.
NoRowsYet == version = 0 \/ (phase = "recreating" /\ version = 1) => StoredRows = NoRows

Indexed ==
    torn = "no" => /\ IndexInMemory /\ IndexOnDisk /\ IndexInView
                   /\ IndexRequested /\ IndexLeftAlone /\ NoRowsYet

TornBy ==
    /\ torn \in {"no", "changes kept", "statements kept", "acknowledged too early", "import"}
    /\ torn = "changes kept" => kind = "localStorage"
    /\ torn \in {"statements kept", "acknowledged too early"} => kind = "webSql"
    /\ torn = "import" => kind \notin Maps

-----------------------------------------------------------------------------
(* Lemmas: pages *)

LEMMA OnOnePage ==
    ASSUME NEW id \in Nat, NEW size \in Nat \ {0},
           NEW p \in Nat, p * size <= id, id <= (p + 1) * size - 1,
           NEW q \in Nat, q * size <= id, id <= (q + 1) * size - 1
    PROVE  p = q
OBVIOUS

USE PageSizeAssumption

\* An id is on the page of its number and on no other.
LEMMA PageOfId ==
    ASSUME NEW id \in Nat
    PROVE  /\ ToPageId(id) \in Nat
           /\ id \in PageRange(ToPageId(id))
           /\ \A page \in Nat : id \in PageRange(page) => page = ToPageId(id)
<1>1. /\ (id \div PageSize) \in Nat
      /\ (id \div PageSize) * PageSize <= id
      /\ id <= ((id \div PageSize) + 1) * PageSize - 1
  OBVIOUS
<1>2. ASSUME NEW page \in Nat, id \in PageRange(page) PROVE page = ToPageId(id)
  <2>1. page * PageSize <= id /\ id <= (page + 1) * PageSize - 1
    BY <1>2 DEF PageRange
  <2> QED
    BY <1>1, <2>1, OnOnePage DEF ToPageId
<1> QED
  BY <1>1, <1>2 DEF ToPageId, PageRange

\* A lower page has lower ids.
LEMMA PagesAreOrdered ==
    ASSUME NEW p \in Nat, NEW q \in Nat, p < q, NEW a \in PageRange(p), NEW b \in PageRange(q)
    PROVE  a < b
<1>1. (p + 1) * PageSize <= q * PageSize
  OBVIOUS
<1>2. a \in Int /\ b \in Int /\ a <= (p + 1) * PageSize - 1 /\ b >= q * PageSize
  BY DEF PageRange
<1>3. (p + 1) * PageSize \in Int /\ q * PageSize \in Int
  OBVIOUS
<1> QED
  BY <1>1, <1>2, <1>3

LEMMA IdsAreNat == Ids \subseteq Nat
BY StoresBoundsAssumption DEF Ids

\* Where the rows of pages are found.
LEMMA Unpacked ==
    ASSUME NEW records, PagesOf(records)
    PROVE  /\ Table(UnpackPages(records))
           /\ \A id \in DOMAIN UnpackPages(records) :
                /\ id \in Nat /\ ToPageId(id) \in DOMAIN records
                /\ id \in DOMAIN records[ToPageId(id)]
                /\ UnpackPages(records)[id] = records[ToPageId(id)][id]
           /\ \A page \in DOMAIN records : \A id \in DOMAIN records[page] :
                /\ id \in DOMAIN UnpackPages(records)
                /\ page = ToPageId(id)
<1> DEFINE S == UNION {DOMAIN records[page] : page \in DOMAIN records}
<1>1. DOMAIN UnpackPages(records) = S
  BY DEF UnpackPages
<1>2. ASSUME NEW page \in DOMAIN records, NEW id \in DOMAIN records[page]
      PROVE  id \in S /\ id \in Nat /\ id \in Ids /\ page = ToPageId(id)
  <2>1. page \in Nat /\ id \in PageRange(page) /\ id \in Ids
    BY DEF PagesOf, Table
  <2> QED
    BY <2>1, IdsAreNat, PageOfId
<1>3. ASSUME NEW id \in S
      PROVE  /\ id \in Nat /\ id \in Ids /\ ToPageId(id) \in DOMAIN records
             /\ id \in DOMAIN records[ToPageId(id)]
             /\ UnpackPages(records)[id] = records[ToPageId(id)][id]
  <2>1. PICK page \in DOMAIN records : id \in DOMAIN records[page]
    OBVIOUS
  <2>2. \A p \in DOMAIN records : id \in DOMAIN records[p] => p = ToPageId(id)
    BY <1>2
  <2>3. (CHOOSE p \in DOMAIN records : id \in DOMAIN records[p]) = ToPageId(id)
    BY <2>1, <2>2
  <2>4. UnpackPages(records)[id]
          = records[CHOOSE p \in DOMAIN records : id \in DOMAIN records[p]][id]
    BY DEF UnpackPages
  <2> QED
    BY <1>2, <2>1, <2>2, <2>3, <2>4
<1>4. Table(UnpackPages(records))
  <2>1. DOMAIN UnpackPages(records) \subseteq Ids
    BY <1>1, <1>3
  <2>2. \A id \in S : UnpackPages(records)[id] \in Row
    BY <1>3 DEF PagesOf, Table
  <2>3. UnpackPages(records) = [id \in S |-> UnpackPages(records)[id]]
    BY DEF UnpackPages
  <2> QED
    BY <1>1, <2>1, <2>2, <2>3 DEF Table
<1> QED
  BY <1>1, <1>2, <1>3, <1>4

\* Rows put on pages are found there again, and nothing else.
LEMMA PagedThere ==
    ASSUME NEW rows, Table(rows)
    PROVE  PagesOf(Paged(rows)) /\ UnpackPages(Paged(rows)) = rows
<1>1. \A id \in DOMAIN rows : id \in Nat /\ id \in Ids /\ rows[id] \in Row
  BY IdsAreNat DEF Table
<1>2. ASSUME NEW page \in DOMAIN Paged(rows)
      PROVE  /\ page \in Nat
             /\ Paged(rows)[page] = OnPage(rows, page)
             /\ DOMAIN OnPage(rows, page) # {}
  <2>1. PICK id \in DOMAIN rows : page = ToPageId(id)
    BY DEF Paged
  <2>2. id \in PageRange(page) /\ page \in Nat
    BY <1>1, <2>1, PageOfId
  <2> QED
    BY <2>2 DEF Paged, OnPage
<1>3. ASSUME NEW page PROVE Table(OnPage(rows, page)) /\ DOMAIN OnPage(rows, page) \subseteq PageRange(page)
  BY <1>1 DEF OnPage, Table
<1>4. PagesOf(Paged(rows))
  <2>1. Paged(rows) = [page \in DOMAIN Paged(rows) |-> Paged(rows)[page]]
    BY DEF Paged
  <2> QED
    BY <1>2, <1>3, <2>1 DEF PagesOf
<1>5. DOMAIN UnpackPages(Paged(rows)) = DOMAIN rows
  <2>1. ASSUME NEW id \in DOMAIN rows PROVE id \in DOMAIN UnpackPages(Paged(rows))
    <3>1. ToPageId(id) \in DOMAIN Paged(rows) /\ id \in DOMAIN Paged(rows)[ToPageId(id)]
      BY <1>1, PageOfId DEF Paged, OnPage
    <3> QED
      BY <1>4, <3>1, Unpacked
  <2>2. ASSUME NEW id \in DOMAIN UnpackPages(Paged(rows)) PROVE id \in DOMAIN rows
    <3>1. ToPageId(id) \in DOMAIN Paged(rows) /\ id \in DOMAIN Paged(rows)[ToPageId(id)]
      BY <1>4, Unpacked
    <3> QED
      BY <3>1, <1>2 DEF OnPage
  <2> QED
    BY <2>1, <2>2
<1>6. ASSUME NEW id \in DOMAIN rows PROVE UnpackPages(Paged(rows))[id] = rows[id]
  <2>1. /\ ToPageId(id) \in DOMAIN Paged(rows) /\ id \in DOMAIN Paged(rows)[ToPageId(id)]
        /\ UnpackPages(Paged(rows))[id] = Paged(rows)[ToPageId(id)][id]
    BY <1>4, <1>5, Unpacked
  <2> QED
    BY <2>1, <1>2 DEF OnPage
<1>7. Table(UnpackPages(Paged(rows)))
  BY <1>4, Unpacked
<1> QED
  BY <1>4, <1>5, <1>6, <1>7 DEF Table

\* Pages are what their rows make them.
LEMMA PagedAgain ==
    ASSUME NEW records, PagesOf(records)
    PROVE  Paged(UnpackPages(records)) = records
<1> DEFINE rows == UnpackPages(records)
<1>1. Table(rows) /\ rows \in [DOMAIN rows -> Row]
  BY Unpacked DEF Table
<1>2. \A id \in DOMAIN rows : /\ id \in Nat /\ ToPageId(id) \in DOMAIN records
                              /\ id \in DOMAIN records[ToPageId(id)]
                              /\ rows[id] = records[ToPageId(id)][id]
  BY Unpacked
<1>3. \A page \in DOMAIN records : \A id \in DOMAIN records[page] :
        id \in DOMAIN rows /\ page = ToPageId(id)
  BY Unpacked
<1> HIDE DEF rows
<1>4. DOMAIN Paged(rows) = DOMAIN records
  <2>1. ASSUME NEW page \in DOMAIN records PROVE page \in DOMAIN Paged(rows)
    <3>1. PICK id \in DOMAIN records[page] : TRUE
      BY DEF PagesOf
    <3> QED
      BY <1>3, <3>1 DEF Paged
  <2>2. ASSUME NEW page \in DOMAIN Paged(rows) PROVE page \in DOMAIN records
    BY <1>2 DEF Paged
  <2> QED
    BY <2>1, <2>2
<1>5. ASSUME NEW page \in DOMAIN records PROVE Paged(rows)[page] = records[page]
  <2>1. Paged(rows)[page] = OnPage(rows, page) /\ page \in Nat
    BY <1>4 DEF Paged, PagesOf
  <2>2. DOMAIN records[page] = DOMAIN rows \cap PageRange(page)
    <3>1. ASSUME NEW id \in DOMAIN records[page] PROVE id \in DOMAIN rows \cap PageRange(page)
      BY <1>3 DEF PagesOf
    <3>2. ASSUME NEW id \in DOMAIN rows \cap PageRange(page) PROVE id \in DOMAIN records[page]
      <4>1. page = ToPageId(id)
        BY <1>2, <2>1, PageOfId
      <4> QED
        BY <1>2, <4>1
    <3> QED
      BY <3>1, <3>2
  <2>3. records[page] = [id \in DOMAIN records[page] |-> records[page][id]]
    BY DEF PagesOf, Table
  <2>4. \A id \in DOMAIN records[page] : rows[id] = records[page][id]
    BY <1>2, <1>3
  <2> QED
    BY <2>1, <2>2, <2>3, <2>4 DEF OnPage
<1>6. records = [page \in DOMAIN records |-> records[page]]
  BY DEF PagesOf
<1>7. Paged(rows) = [page \in DOMAIN Paged(rows) |-> Paged(rows)[page]]
  BY DEF Paged
<1> QED
  BY <1>4, <1>5, <1>6, <1>7 DEF rows

\* Records and rows of any store are two views of the same.
LEMMA PackedThere ==
    ASSUME NEW k, NEW rows, Table(rows)
    PROVE  Valid(k, Packed(k, rows)) /\ RowsOf(k, Packed(k, rows)) = rows
BY PagedThere DEF Valid, Packed, RowsOf

LEMMA PackedAgain ==
    ASSUME NEW k, NEW records, Valid(k, records)
    PROVE  Packed(k, RowsOf(k, records)) = records /\ Table(RowsOf(k, records))
BY PagedAgain, Unpacked DEF Valid, Packed, RowsOf

-----------------------------------------------------------------------------
(* Lemmas: sets and sequences *)

\* Any set of naturals with an element has a least one.
LEMMA HasLeast ==
    ASSUME NEW S, S \subseteq Nat, S # {}
    PROVE  \E n \in S : \A m \in S : n <= m
<1>1. PICK n \in S : \A m \in S : ~(<<m, n>> \in OpToRel(<, Nat))
  BY NatLessThanWellFounded, WFMin
<1>2. ASSUME NEW m \in S PROVE n <= m
  <2>1. n \in Nat /\ m \in Nat
    OBVIOUS
  <2>2. ~(<<m, n>> \in OpToRel(<, Nat))
    BY <1>1
  <2>3. ~(m < n)
    BY <2>1, <2>2 DEF OpToRel
  <2> QED
    BY <2>1, <2>3
<1> QED
  BY <1>2

\* A bounded one has a greatest.
LEMMA MaxIsGreatest ==
    ASSUME NEW S, S \subseteq Nat, S # {}, NEW n \in Nat, \A x \in S : x <= n
    PROVE  Max(S) \in S /\ \A x \in S : x <= Max(S)
<1> DEFINE T == {d \in Nat : \E x \in S : d = n - x}
<1>1. T # {}
  <2>1. PICK x \in S : TRUE
    OBVIOUS
  <2>2. x \in Nat /\ x <= n /\ n - x \in Nat
    OBVIOUS
  <2> QED
    BY <2>2
<1>2. PICK d \in T : \A e \in T : d <= e
  BY <1>1, HasLeast
<1>3. PICK x \in S : d = n - x
  OBVIOUS
<1>4. ASSUME NEW y \in S PROVE x >= y
  <2>1. y \in Nat /\ x \in Nat /\ y <= n /\ x <= n /\ n - y \in Nat
    OBVIOUS
  <2>2. d <= n - y
    BY <1>2, <2>1
  <2> QED
    BY <1>3, <2>1, <2>2
<1>5. \E z \in S : \A y \in S : z >= y
  BY <1>4
<1>6. Max(S) \in S /\ \A y \in S : Max(S) >= y
  BY <1>5 DEF Max
<1>7. \A y \in S : Max(S) >= y => y <= Max(S)
  BY <1>6
<1> QED
  BY <1>6, <1>7

LEMMA IdsAreFinite == ASSUME NEW S, S \subseteq Ids PROVE IsFiniteSet(S)
<1>1. IsFiniteSet(Ids)
  BY FS_Interval, StoresBoundsAssumption DEF Ids
<1> QED
  BY <1>1, FS_Subset

\* What is made of each element of a finite set.
LEMMA ImageIsFinite ==
    ASSUME NEW S, IsFiniteSet(S), NEW f
    PROVE  IsFiniteSet({f[x] : x \in S})
<1> DEFINE T == {f[x] : x \in S}
           g == [x \in S |-> f[x]]
<1>1. g \in Surjection(S, T)
  BY DEF Surjection
<1> HIDE DEF g
<1> QED
  BY <1>1, FS_Surjection

\* Requests issued together come in some order, each of them.
LEMMA Turns ==
    ASSUME NEW S, IsFiniteSet(S)
    PROVE  /\ InTurn(S) \in Seq(S)
           /\ \A x \in S : \E i \in DOMAIN InTurn(S) : InTurn(S)[i] = x
<1> DEFINE n == Cardinality(S)
           f == InTurn(S)
<1>1. n \in Nat /\ ExistsBijection(1 .. n, S)
  BY FS_CardinalityType
<1>2. PICK g : g \in Bijection(1 .. n, S)
  BY <1>1 DEF ExistsBijection
<1>3. g \in [1 .. n -> S] /\ IsInjective(g)
  BY <1>2 DEF Bijection, Injection, Surjection, IsInjective
<1>4. f \in [1 .. n -> S] /\ IsInjective(f)
  BY <1>3 DEF InTurn, SetToSeq
<1> HIDE DEF f
<1>5. f \in Seq(S)
  BY <1>1, <1>4
<1>6. f \in Injection(1 .. n, S)
  BY <1>4 DEF Injection, IsInjective
<1>7. IsFiniteSet(1 .. n) /\ Cardinality(1 .. n) = n
  BY <1>1, FS_Interval
<1>8. f \in Surjection(1 .. n, S)
  BY <1>6, <1>7, FS_Injection
<1>9. \A x \in S : \E i \in DOMAIN f : f[i] = x
  BY <1>4, <1>8 DEF Surjection
<1> QED
  BY <1>5, <1>9 DEF f

-----------------------------------------------------------------------------
(* Lemmas: what requests do to records *)

\* Each row of one table is a row of one of two others.
RowsFrom(rows, a, b) ==
    \A id \in DOMAIN rows : \/ id \in DOMAIN a /\ rows[id] = a[id]
                            \/ id \in DOMAIN b /\ rows[id] = b[id]

LEMMA Empty ==
    /\ DOMAIN NoRows = {} /\ Table(NoRows)
    /\ \A f, S : f \in [{} -> S] => f = NoRows
    /\ \A k : Valid(k, NoRows) /\ RowsOf(k, NoRows) = NoRows /\ Packed(k, NoRows) = NoRows
<1>1. DOMAIN NoRows = {} /\ Table(NoRows)
  BY DEF NoRows, Table
<1>2. ASSUME NEW f, NEW S, f \in [{} -> S] PROVE f = NoRows
  BY <1>2 DEF NoRows
<1>3. PagesOf(NoRows)
  BY DEF NoRows, PagesOf
<1>4. Paged(NoRows) = NoRows
  BY DEF NoRows, Paged
<1>5. UnpackPages(NoRows) = NoRows
  BY DEF NoRows, UnpackPages
<1> QED
  BY <1>1, <1>2, <1>3, <1>4, <1>5 DEF Valid, RowsOf, Packed

LEMMA AfterPut ==
    ASSUME NEW k, NEW records, Valid(k, records), NEW rows, Table(rows),
           NEW key \in DOMAIN Packed(k, rows)
    PROVE  LET after == With(records, key, Packed(k, rows)[key])
           IN  Valid(k, after) /\ RowsFrom(RowsOf(k, after), RowsOf(k, records), rows)
<1> DEFINE after == With(records, key, Packed(k, rows)[key])
<1>1. CASE k # "bundled"
  <2>1. Table(records) /\ after = With(records, key, rows[key]) /\ key \in DOMAIN rows
    BY <1>1 DEF Valid, Packed
  <2>2. rows[key] \in Row /\ key \in Ids
    BY <2>1 DEF Table
  <2> QED
    BY <1>1, <2>1, <2>2 DEF Valid, RowsOf, RowsFrom, Table, With
<1>2. CASE k = "bundled"
  <2>1. PagesOf(records) /\ after = With(records, key, Paged(rows)[key]) /\ key \in DOMAIN Paged(rows)
    BY <1>2 DEF Valid, Packed
  <2>2. PagesOf(Paged(rows)) /\ UnpackPages(Paged(rows)) = rows
    BY PagedThere
  <2>3. PagesOf(after)
    BY <2>1, <2>2 DEF PagesOf, With
  <2>4. ASSUME NEW id \in DOMAIN UnpackPages(after)
        PROVE  \/ id \in DOMAIN UnpackPages(records) /\ UnpackPages(after)[id] = UnpackPages(records)[id]
               \/ id \in DOMAIN rows /\ UnpackPages(after)[id] = rows[id]
    <3>1. /\ ToPageId(id) \in DOMAIN after /\ id \in DOMAIN after[ToPageId(id)]
          /\ UnpackPages(after)[id] = after[ToPageId(id)][id]
      BY <2>3, Unpacked
    <3>2. CASE ToPageId(id) = key
      <4>1. after[key] = Paged(rows)[key]
        BY <2>1 DEF With
      <4>2. id \in DOMAIN UnpackPages(Paged(rows))
            /\ UnpackPages(Paged(rows))[id] = Paged(rows)[ToPageId(id)][id]
        BY <2>1, <2>2, <3>1, <3>2, <4>1, Unpacked
      <4> QED
        BY <2>2, <3>1, <3>2, <4>1, <4>2
    <3>3. CASE ToPageId(id) # key
      <4>1. ToPageId(id) \in DOMAIN records /\ after[ToPageId(id)] = records[ToPageId(id)]
        BY <2>1, <3>1, <3>3 DEF With
      <4>2. id \in DOMAIN UnpackPages(records)
            /\ UnpackPages(records)[id] = records[ToPageId(id)][id]
        BY <2>1, <3>1, <4>1, Unpacked
      <4> QED
        BY <3>1, <4>1, <4>2
    <3> QED
      BY <3>2, <3>3
  <2> QED
    BY <1>2, <2>3, <2>4 DEF Valid, RowsOf, RowsFrom
<1> QED
  BY <1>1, <1>2

LEMMA AfterDelete ==
    ASSUME NEW k, NEW records, Valid(k, records), NEW keys, NEW rows
    PROVE  /\ Valid(k, Without(records, keys))
           /\ RowsFrom(RowsOf(k, Without(records, keys)), RowsOf(k, records), rows)
<1> DEFINE after == Without(records, keys)
<1>1. CASE k # "bundled"
  BY <1>1 DEF Valid, RowsOf, RowsFrom, Table, Without
<1>2. CASE k = "bundled"
  <2>1. PagesOf(records)
    BY <1>2 DEF Valid
  <2>2. PagesOf(after)
    BY <2>1 DEF PagesOf, Without
  <2>3. ASSUME NEW id \in DOMAIN UnpackPages(after)
        PROVE  id \in DOMAIN UnpackPages(records) /\ UnpackPages(after)[id] = UnpackPages(records)[id]
    <3>1. /\ ToPageId(id) \in DOMAIN after /\ id \in DOMAIN after[ToPageId(id)]
          /\ UnpackPages(after)[id] = after[ToPageId(id)][id]
      BY <2>2, Unpacked
    <3>2. ToPageId(id) \in DOMAIN records /\ after[ToPageId(id)] = records[ToPageId(id)]
      BY <3>1 DEF Without
    <3>3. id \in DOMAIN UnpackPages(records)
          /\ UnpackPages(records)[id] = records[ToPageId(id)][id]
      BY <2>1, <3>1, <3>2, Unpacked
    <3> QED
      BY <3>1, <3>2, <3>3
  <2> QED
    BY <1>2, <2>2, <2>3 DEF Valid, RowsOf, RowsFrom
<1> QED
  BY <1>1, <1>2

\* An upgrade rewrites every row and moves none.
LEMMA AfterUpgrade ==
    ASSUME NEW records, Valid(kind, records), schema \in 1 .. MaxVersion
    PROVE  /\ Valid(kind, Transformed(records))
           /\ RowsOf(kind, Transformed(records))
                = [id \in DOMAIN RowsOf(kind, records) |-> InFormat(RowsOf(kind, records)[id])]
<1>1. \A row \in Row : InFormat(row) \in Row
  BY DEF InFormat, Row
<1>2. CASE kind # "bundled"
  <2>1. Table(records) /\ Transformed(records) = [key \in DOMAIN records |-> InFormat(records[key])]
    BY <1>2 DEF Valid, Transformed, Bundled
  <2> QED
    BY <1>1, <1>2, <2>1 DEF Valid, RowsOf, Table
<1>3. CASE kind = "bundled"
  <2> DEFINE after == Transformed(records)
             rows == UnpackPages(records)
             rowsAfter == UnpackPages(after)
  <2>1. PagesOf(records)
    BY <1>3 DEF Valid
  <2>2. after = [key \in DOMAIN records |-> [id \in DOMAIN records[key] |-> InFormat(records[key][id])]]
    BY <1>3 DEF Transformed, Bundled
  <2> HIDE DEF after
  <2>3. PagesOf(after)
    <3>1. ASSUME NEW page \in DOMAIN records
          PROVE  Table(after[page]) /\ DOMAIN after[page] = DOMAIN records[page]
      BY <1>1, <2>1, <2>2 DEF PagesOf, Table
    <3> QED
      BY <2>1, <2>2, <3>1 DEF PagesOf
  <2>4. Table(rows) /\ Table(rowsAfter)
    BY <2>1, <2>3, Unpacked
  <2>5. ASSUME NEW id \in DOMAIN rowsAfter
        PROVE  id \in DOMAIN rows /\ rowsAfter[id] = InFormat(rows[id])
    <3>1. /\ ToPageId(id) \in DOMAIN after /\ id \in DOMAIN after[ToPageId(id)]
          /\ rowsAfter[id] = after[ToPageId(id)][id]
      BY <2>3, Unpacked
    <3>2. /\ ToPageId(id) \in DOMAIN records /\ id \in DOMAIN records[ToPageId(id)]
          /\ after[ToPageId(id)][id] = InFormat(records[ToPageId(id)][id])
      BY <2>2, <3>1
    <3>3. id \in DOMAIN rows /\ rows[id] = records[ToPageId(id)][id]
      BY <2>1, <3>2, Unpacked
    <3> QED
      BY <3>1, <3>2, <3>3
  <2>6. ASSUME NEW id \in DOMAIN rows PROVE id \in DOMAIN rowsAfter
    <3>1. ToPageId(id) \in DOMAIN records /\ id \in DOMAIN records[ToPageId(id)]
      BY <2>1, Unpacked
    <3>2. ToPageId(id) \in DOMAIN after /\ id \in DOMAIN after[ToPageId(id)]
      BY <2>2, <3>1
    <3> QED
      BY <2>3, <3>2, Unpacked
  <2>7. rowsAfter = [id \in DOMAIN rows |-> InFormat(rows[id])]
    BY <2>4, <2>5, <2>6 DEF Table
  <2> QED
    BY <1>3, <2>3, <2>7 DEF Valid, RowsOf, after
<1> QED
  BY <1>2, <1>3

\* The scan finds the greatest id.
LEMMA ScannedIds ==
    ASSUME Valid(kind, durable["rows"])
    PROVE  MaxRowId \in Nat /\ \A id \in DOMAIN RowsOf(kind, durable["rows"]) : id <= MaxRowId
<1> DEFINE records == durable["rows"]
<1> HIDE DEF records
<1>0. Valid(kind, records)
  BY DEF records
<1>1. CASE DOMAIN records = {}
  <2>1. records = NoRows
    BY <1>0, <1>1, Empty DEF Valid, Table, PagesOf, NoRows
  <2>2. MaxRowId = 0
    BY <2>1 DEF MaxRowId, records
  <2> QED
    BY <2>1, <2>2, Empty DEF records
<1>2. CASE DOMAIN records # {} /\ kind # "bundled"
  <2>1. records # NoRows
    BY <1>2, Empty
  <2>2. DOMAIN records \subseteq Ids
    BY <1>0, <1>2 DEF Valid, Table
  <2>3. MaxId \in Nat /\ DOMAIN records \subseteq Nat /\ \A x \in DOMAIN records : x <= MaxId
    BY <2>2, StoresBoundsAssumption DEF Ids
  <2>4. MaxRowId = Max(DOMAIN records)
    BY <1>2, <2>1 DEF MaxRowId, records, Bundled
  <2> QED
    BY <1>2, <2>3, <2>4, MaxIsGreatest DEF RowsOf, records
<1>3. CASE DOMAIN records # {} /\ kind = "bundled"
  <2> DEFINE last == Max(DOMAIN records)
             greatest == Max(DOMAIN records[last] \cup {0})
  <2>1. records # NoRows /\ PagesOf(records)
    BY <1>0, <1>3, Empty DEF Valid
  <2>2. MaxId \in Nat /\ Ids \subseteq Nat /\ \A id \in Ids : id <= MaxId
    BY StoresBoundsAssumption DEF Ids
  <2>3. ASSUME NEW page \in DOMAIN records PROVE page \in Nat /\ page <= MaxId
    <3>1. PICK id \in DOMAIN records[page] : TRUE
      BY <2>1 DEF PagesOf
    <3>2. page \in Nat /\ id \in Ids /\ id \in PageRange(page)
      BY <2>1 DEF PagesOf, Table
    <3>3. page * PageSize <= id /\ page * PageSize >= page
      BY <2>2, <3>2 DEF PageRange
    <3> QED
      BY <2>2, <3>2, <3>3
  <2>4. last \in DOMAIN records /\ \A page \in DOMAIN records : page <= last
    BY <1>3, <2>2, <2>3, MaxIsGreatest
  <2> HIDE DEF last
  <2>5. DOMAIN records[last] \cup {0} \subseteq Nat /\ \A id \in DOMAIN records[last] \cup {0} : id <= MaxId
    BY <2>1, <2>2, <2>4 DEF PagesOf, Table
  <2>6. greatest \in Nat /\ \A id \in DOMAIN records[last] \cup {0} : id <= greatest
    BY <2>2, <2>5, MaxIsGreatest
  <2> HIDE DEF greatest
  <2>7. MaxRowId = greatest
    BY <1>3, <2>1 DEF MaxRowId, records, Bundled, last, greatest
  <2>8. ASSUME NEW id \in DOMAIN UnpackPages(records) PROVE id <= greatest
    <3>1. id \in Nat /\ ToPageId(id) \in DOMAIN records /\ id \in DOMAIN records[ToPageId(id)]
      BY <2>1, Unpacked
    <3>2. CASE ToPageId(id) = last
      BY <2>6, <3>1, <3>2
    <3>3. CASE ToPageId(id) # last
      <4>1. PICK other \in DOMAIN records[last] : TRUE
        BY <2>1, <2>4 DEF PagesOf
      <4>2. other \in PageRange(last) /\ id \in PageRange(ToPageId(id)) /\ ToPageId(id) < last
        BY <2>1, <2>3, <2>4, <3>1, <3>3 DEF PagesOf
      <4>3. id < other
        BY <2>3, <2>4, <3>1, <4>2, PagesAreOrdered
      <4> QED
        BY <2>5, <2>6, <3>1, <4>3
    <3> QED
      BY <3>2, <3>3
  <2> QED
    BY <1>3, <2>6, <2>7, <2>8 DEF RowsOf, records
<1> QED
  BY <1>1, <1>2, <1>3

-----------------------------------------------------------------------------
(* Lemmas: what is missing, before and after a request *)

LEMMA Tails ==
    ASSUME NEW S, NEW rs \in Seq(S), rs # << >>
    PROVE  /\ rs[1] \in S /\ Head(rs) = rs[1] /\ 1 \in DOMAIN rs
           /\ Tail(rs) \in Seq(S)
           /\ \A i \in DOMAIN Tail(rs) : /\ i \in Nat /\ i + 1 \in DOMAIN rs /\ i + 1 # 1
                                         /\ Tail(rs)[i] = rs[i + 1]
           /\ \A i \in DOMAIN rs : /\ i \in Nat
                                   /\ i # 1 => i - 1 \in DOMAIN Tail(rs) /\ Tail(rs)[i - 1] = rs[i]
OBVIOUS

\* An element that is not the first is in the tail, where its place is one less.
LEMMA StillInTail ==
    ASSUME NEW S, NEW rs \in Seq(S), rs # << >>, NEW i \in DOMAIN rs, i # 1
    PROVE  \E j \in DOMAIN Tail(rs) : j = i - 1 /\ Tail(rs)[j] = rs[i]
<1> DEFINE t == Tail(rs)
<1>1. i - 1 \in DOMAIN t /\ t[i - 1] = rs[i]
  BY Tails
<1> HIDE DEF t
<1>2. \E j \in DOMAIN t : j = i - 1 /\ t[j] = rs[i]
  BY <1>1
<1> QED
  BY <1>2 DEF t

LEMMA Appended ==
    ASSUME NEW S, NEW rs \in Seq(S), NEW ext \in Seq(S)
    PROVE  /\ rs \o ext \in Seq(S)
           /\ \A i \in DOMAIN rs : i \in DOMAIN (rs \o ext) /\ (rs \o ext)[i] = rs[i]
           /\ \A i \in DOMAIN ext : /\ i \in Nat /\ Len(rs) + i \in DOMAIN (rs \o ext)
                                    /\ (rs \o ext)[Len(rs) + i] = ext[i]
           /\ \A i \in DOMAIN (rs \o ext) : /\ i \in Nat
                                            /\ \/ i \in DOMAIN rs
                                               \/ /\ i > Len(rs) /\ i - Len(rs) \in DOMAIN ext
                                                  /\ (rs \o ext)[i] = ext[i - Len(rs)]
OBVIOUS

LEMMA Fields ==
    /\ \A t, key, record : /\ Put(t, key, record).op = "put" /\ Put(t, key, record).table = t
                           /\ Put(t, key, record).key = key /\ Put(t, key, record).record = record
    /\ \A t, keys : /\ Delete(t, keys).op = "delete" /\ Delete(t, keys).table = t
                    /\ Delete(t, keys).keys = keys
    /\ \A t : Clear(t).op = "clear" /\ Clear(t).table = t
    /\ \A t, keys : /\ Count(t, keys).op = "count" /\ Count(t, keys).table = t
                    /\ Count(t, keys).keys = keys
    /\ \A t : Flush(t).op = "flush" /\ Flush(t).table = t
BY DEF Put, Delete, Clear, Count, Flush

\* Requests of other tables, and flushes, change nothing of it.
LEMMA MissingAppended ==
    ASSUME NEW S, NEW rs \in Seq(S), NEW ext \in Seq(S), NEW records, NEW target,
           Missing(rs, records, target),
           \A i \in DOMAIN ext : ext[i].table = "rows" => ext[i].op = "flush"
    PROVE  Missing(rs \o ext, records, target)
<1> DEFINE all == rs \o ext
<1>1. \A i \in DOMAIN rs : i \in DOMAIN all /\ all[i] = rs[i]
  BY Appended
<1>2. ASSUME NEW i \in DOMAIN all, i \notin DOMAIN rs, all[i].table = "rows"
      PROVE  all[i].op = "flush"
  <2>1. i - Len(rs) \in DOMAIN ext /\ all[i] = ext[i - Len(rs)]
    BY <1>2, Appended
  <2> HIDE DEF all
  <2> QED
    BY <1>2, <2>1
<1> HIDE DEF all
<1>3. Missing(all, records, target)
  BY <1>1, <1>2 DEF Missing
<1> QED
  BY <1>3 DEF all

\* A request does what it was issued for, and harms nothing that others did.
LEMMA MissingLess ==
    ASSUME NEW S, NEW rs \in Seq(S), rs # << >>, NEW records, NEW target, NEW after,
           Missing(rs, records, target),
           \A key \in DOMAIN target :
              \/ rs[1] = Put("rows", key, target[key])
              \/ key \in DOMAIN records /\ records[key] = target[key]
              => \/ key \in DOMAIN after /\ after[key] = target[key]
                 \/ \E i \in DOMAIN Tail(rs) : Tail(rs)[i] = Put("rows", key, target[key]),
           \A key \in DOMAIN after \ DOMAIN target :
              /\ key \in DOMAIN records
              /\ rs[1].table = "rows" =>
                   rs[1].op # "clear" /\ ~(rs[1].op \in {"delete", "count"} /\ key \in rs[1].keys),
           after = records \/ (rs[1].table = "rows" /\ rs[1].op # "flush")
    PROVE  Missing(Tail(rs), after, target)
<1>1. /\ \A i \in DOMAIN Tail(rs) : i \in Nat /\ i + 1 \in DOMAIN rs /\ Tail(rs)[i] = rs[i + 1]
      /\ \A i \in DOMAIN rs : i \in Nat /\ (i # 1 => i - 1 \in DOMAIN Tail(rs) /\ Tail(rs)[i - 1] = rs[i])
      /\ 1 \in DOMAIN rs
  BY Tails
<1>2. ASSUME NEW key \in DOMAIN target
      PROVE  \/ key \in DOMAIN after /\ after[key] = target[key]
             \/ \E i \in DOMAIN Tail(rs) : Tail(rs)[i] = Put("rows", key, target[key])
  <2>1. \/ key \in DOMAIN records /\ records[key] = target[key]
        \/ \E i \in DOMAIN rs : rs[i] = Put("rows", key, target[key])
    BY DEF Missing
  <2>2. ASSUME NEW i \in DOMAIN rs, rs[i] = Put("rows", key, target[key]), i # 1
        PROVE  \E j \in DOMAIN Tail(rs) : Tail(rs)[j] = Put("rows", key, target[key])
    <3>1. \E j \in DOMAIN Tail(rs) : j = i - 1 /\ Tail(rs)[j] = rs[i]
      BY <2>2, StillInTail
    <3> QED
      BY <2>2, <3>1
  <2> QED
    BY <2>1, <2>2
<1>3. ASSUME NEW key \in DOMAIN after \ DOMAIN target
      PROVE  \E i \in DOMAIN Tail(rs) :
                /\ Tail(rs)[i].table = "rows"
                /\ Tail(rs)[i].op = "clear" \/ (Tail(rs)[i].op \in {"delete", "count"} /\ key \in Tail(rs)[i].keys)
  <2>1. PICK i \in DOMAIN rs :
            /\ rs[i].table = "rows"
            /\ rs[i].op = "clear" \/ (rs[i].op \in {"delete", "count"} /\ key \in rs[i].keys)
    BY <1>3 DEF Missing
  <2> QED
    BY <1>1, <2>1
<1>4. ASSUME NEW i \in DOMAIN Tail(rs), Tail(rs)[i].table = "rows"
      PROVE  /\ Tail(rs)[i].op = "delete" => Tail(rs)[i].keys \cap DOMAIN target = {}
             /\ Tail(rs)[i].op = "clear" =>
                  \A key \in DOMAIN target :
                     \E j \in DOMAIN Tail(rs) : j > i /\ Tail(rs)[j] = Put("rows", key, target[key])
             /\ Tail(rs)[i].op = "count" =>
                  /\ Tail(rs)[i].keys # {} /\ Tail(rs)[i].keys \subseteq DOMAIN after \ DOMAIN target
                  /\ DOMAIN target \subseteq DOMAIN after
                  /\ \A j \in DOMAIN Tail(rs) : Tail(rs)[j].table = "rows" /\ Tail(rs)[j].op # "flush" => j = i
  <2>1. i \in Nat /\ i + 1 \in DOMAIN rs /\ Tail(rs)[i] = rs[i + 1]
    BY <1>1
  <2>2. ASSUME Tail(rs)[i].op = "clear", NEW key \in DOMAIN target
        PROVE  \E j \in DOMAIN Tail(rs) : j > i /\ Tail(rs)[j] = Put("rows", key, target[key])
    <3>1. PICK j \in DOMAIN rs : j > i + 1 /\ rs[j] = Put("rows", key, target[key])
      BY <1>4, <2>1, <2>2 DEF Missing
    <3>2. j \in Nat /\ j # 1 /\ j - 1 > i
      BY <1>1, <2>1, <3>1
    <3> QED
      BY <3>1, <3>2, StillInTail
  <2>3. ASSUME Tail(rs)[i].op = "count"
        PROVE  /\ \A j \in DOMAIN Tail(rs) : Tail(rs)[j].table = "rows" /\ Tail(rs)[j].op # "flush" => j = i
               /\ after = records
    <3>1. \A j \in DOMAIN rs : rs[j].table = "rows" /\ rs[j].op # "flush" => j = i + 1
      BY <1>4, <2>1, <2>3 DEF Missing
    <3> QED
      BY <1>1, <2>1, <3>1
  <2> QED
    BY <1>4, <2>1, <2>2, <2>3 DEF Missing
<1> QED
  BY <1>2, <1>3, <1>4 DEF Missing

LEMMA MissingSkipped ==
    ASSUME NEW S, NEW rs \in Seq(S), rs # << >>, NEW records, NEW target,
           Missing(rs, records, target),
           rs[1].table = "rows" => rs[1].op = "flush"
    PROVE  Missing(Tail(rs), records, target)
<1>1. \A key \in DOMAIN target : rs[1] # Put("rows", key, target[key])
  BY Fields
<1> QED
  BY <1>1, MissingLess

LEMMA MissingPut ==
    ASSUME NEW S, NEW rs \in Seq(S), rs # << >>, NEW records, NEW target,
           Missing(rs, records, target),
           NEW key \in DOMAIN target, rs[1] = Put("rows", key, target[key])
    PROVE  Missing(Tail(rs), With(records, key, target[key]), target)
<1> DEFINE after == With(records, key, target[key])
<1>1. rs[1].table = "rows" /\ rs[1].op = "put" /\ rs[1].key = key
  BY Fields
<1>2. \A other \in DOMAIN target :
         \/ rs[1] = Put("rows", other, target[other])
         \/ other \in DOMAIN records /\ records[other] = target[other]
         => other \in DOMAIN after /\ after[other] = target[other]
  BY Fields DEF With
<1>3. \A other \in DOMAIN after \ DOMAIN target : other \in DOMAIN records
  BY DEF With
<1> HIDE DEF after
<1>4. Missing(Tail(rs), after, target)
  BY <1>1, <1>2, <1>3, MissingLess
<1> QED
  BY <1>4 DEF after

LEMMA MissingDelete ==
    ASSUME NEW S, NEW rs \in Seq(S), rs # << >>, NEW records, NEW target,
           Missing(rs, records, target),
           NEW keys, rs[1] = Delete("rows", keys)
    PROVE  Missing(Tail(rs), Without(records, keys), target)
<1> DEFINE after == Without(records, keys)
<1>1. rs[1].table = "rows" /\ rs[1].op = "delete" /\ rs[1].keys = keys
  BY Fields
<1>2. keys \cap DOMAIN target = {}
  BY <1>1, Tails DEF Missing
<1>3. \A key \in DOMAIN target :
         \/ rs[1] = Put("rows", key, target[key])
         \/ key \in DOMAIN records /\ records[key] = target[key]
         => key \in DOMAIN after /\ after[key] = target[key]
  BY <1>1, <1>2, Fields DEF Without
<1>4. \A key \in DOMAIN after \ DOMAIN target : key \in DOMAIN records /\ key \notin keys
  BY DEF Without
<1> HIDE DEF after
<1>5. Missing(Tail(rs), after, target)
  BY <1>1, <1>3, <1>4, MissingLess
<1> QED
  BY <1>5 DEF after

LEMMA MissingClear ==
    ASSUME NEW S, NEW rs \in Seq(S), rs # << >>, NEW records, NEW target,
           Missing(rs, records, target), rs[1] = Clear("rows")
    PROVE  Missing(Tail(rs), NoRows, target)
<1>1. rs[1].table = "rows" /\ rs[1].op = "clear" /\ 1 \in DOMAIN rs
  BY Fields, Tails
<1>2. ASSUME NEW key \in DOMAIN target
      PROVE  \E i \in DOMAIN Tail(rs) : Tail(rs)[i] = Put("rows", key, target[key])
  <2>1. PICK j \in DOMAIN rs : j > 1 /\ rs[j] = Put("rows", key, target[key])
    BY <1>1 DEF Missing
  <2>2. \E i \in DOMAIN Tail(rs) : i = j - 1 /\ Tail(rs)[i] = rs[j]
    <3>1. j # 1
      BY <2>1
    <3> QED
      BY <3>1, StillInTail
  <2> QED
    BY <2>1, <2>2
<1> QED
  BY <1>1, <1>2, Empty, MissingLess

\* All that is missing when a count is asked for is what it names.
LEMMA MissingCount ==
    ASSUME NEW S, NEW rs \in Seq(S), rs # << >>, NEW records, NEW target,
           Missing(rs, records, target),
           NEW keys, rs[1] = Count("rows", keys)
    PROVE  /\ keys # {} /\ DOMAIN target \subseteq DOMAIN records
           /\ keys = DOMAIN records \ DOMAIN target
           /\ \A key \in DOMAIN target : records[key] = target[key]
           /\ \A i \in DOMAIN Tail(rs) : Tail(rs)[i].table = "rows" => Tail(rs)[i].op = "flush"
<1>1. rs[1].table = "rows" /\ rs[1].op = "count" /\ rs[1].keys = keys /\ 1 \in DOMAIN rs
  BY Fields, Tails
<1>2. /\ keys # {} /\ keys \subseteq DOMAIN records \ DOMAIN target
      /\ DOMAIN target \subseteq DOMAIN records
      /\ \A j \in DOMAIN rs : rs[j].table = "rows" /\ rs[j].op # "flush" => j = 1
  BY <1>1 DEF Missing
<1>3. ASSUME NEW key \in DOMAIN target PROVE records[key] = target[key]
  <2>1. \A i \in DOMAIN rs : rs[i] # Put("rows", key, target[key])
    BY <1>1, <1>2, Fields
  <2> QED
    BY <2>1 DEF Missing
<1>4. ASSUME NEW key \in DOMAIN records \ DOMAIN target PROVE key \in keys
  <2>1. PICK i \in DOMAIN rs :
            /\ rs[i].table = "rows"
            /\ rs[i].op = "clear" \/ (rs[i].op \in {"delete", "count"} /\ key \in rs[i].keys)
    BY <1>4 DEF Missing
  <2> QED
    BY <1>1, <1>2, <2>1
<1>5. \A i \in DOMAIN Tail(rs) : Tail(rs)[i].table = "rows" => Tail(rs)[i].op = "flush"
  BY <1>2, Tails
<1> QED
  BY <1>2, <1>3, <1>4, <1>5

\* With nothing left to execute nothing is missing.
LEMMA MissingNothing ==
    ASSUME NEW k, NEW records, NEW target, Valid(k, records), Valid(k, target),
           Missing(<< >>, records, target)
    PROVE  records = target
<1>1. DOMAIN target = DOMAIN records /\ \A key \in DOMAIN target : records[key] = target[key]
  BY DEF Missing
<1>2. /\ records = [key \in DOMAIN records |-> records[key]]
      /\ target = [key \in DOMAIN target |-> target[key]]
  BY DEF Valid, PagesOf, Table
<1> QED
  BY <1>1, <1>2

-----------------------------------------------------------------------------
(* Lemmas: the requests of a commit *)

LEMMA SeqWider == ASSUME NEW S, NEW T, S \subseteq T, NEW rs \in Seq(S) PROVE rs \in Seq(T)
OBVIOUS

LEMMA SeqElements ==
    ASSUME NEW S, NEW rs \in Seq(S)
    PROVE  /\ \A i \in DOMAIN rs : rs[i] \in S
           /\ \A T : (\A i \in DOMAIN rs : rs[i] \in T) => rs \in Seq(T)
OBVIOUS

LEMMA SeqOfOne == ASSUME NEW S, NEW x \in S
                  PROVE  /\ << x >> \in Seq(S) /\ Len(<< x >>) = 1
                         /\ DOMAIN << x >> = {1} /\ << x >>[1] = x
OBVIOUS

LEMMA AskedThere ==
    ASSUME NEW target, NEW k
    PROVE  LET asked == RowsAsked(target, k) IN
           /\ \A key \in DOMAIN target : Put("rows", key, target[key]) \in asked
           /\ \A keys : keys \subseteq Nat => Delete("rows", keys) \in asked
           /\ Clear("rows") \in asked
           /\ k = "indexedDb" => \A keys : keys \subseteq Ids => Count("rows", keys) \in asked
BY DEF RowsAsked

\* What of the target is not among puts, and what it no longer has, is dealt with
\* by rs; the rest will be put.
Removes(rs, records, target, puts) ==
    /\ \A key \in DOMAIN target \ puts :
         \/ key \in DOMAIN records /\ records[key] = target[key]
         \/ \E i \in DOMAIN rs : rs[i] = Put("rows", key, target[key])
    /\ \A key \in DOMAIN records \ DOMAIN target :
         \E i \in DOMAIN rs :
            /\ rs[i].table = "rows"
            /\ rs[i].op = "clear" \/ (rs[i].op \in {"delete", "count"} /\ key \in rs[i].keys)
    /\ \A i \in DOMAIN rs :
         /\ rs[i].op = "delete" => rs[i].keys \cap DOMAIN target = {}
         /\ rs[i].op = "clear" => DOMAIN target \subseteq puts
         /\ rs[i].op = "count" =>
              /\ rs[i].keys # {} /\ rs[i].keys \subseteq DOMAIN records \ DOMAIN target
              /\ DOMAIN target \subseteq DOMAIN records
              /\ puts = {} /\ \A j \in DOMAIN rs : j = i

LEMMA Combined ==
    ASSUME NEW S, NEW rs \in Seq(S), NEW records, NEW target,
           NEW puts, puts \subseteq DOMAIN target, IsFiniteSet(puts),
           \A key \in puts : Put("rows", key, target[key]) \in S,
           Removes(rs, records, target, puts)
    PROVE  LET ps == InTurn({Put("rows", key, target[key]) : key \in puts})
           IN  ps \in Seq(S) /\ Missing(rs \o ps, records, target)
<1> DEFINE P == {Put("rows", key, target[key]) : key \in puts}
           ps == InTurn(P)
           all == rs \o ps
<1>1. IsFiniteSet(P)
  <2> DEFINE f == [key \in puts |-> Put("rows", key, target[key])]
  <2>1. P = {f[key] : key \in puts}
    OBVIOUS
  <2> HIDE DEF f, P
  <2>2. IsFiniteSet({f[key] : key \in puts})
    BY ImageIsFinite
  <2> QED
    BY <2>1, <2>2
<1>2. ps \in Seq(P) /\ \A x \in P : \E i \in DOMAIN ps : ps[i] = x
  BY <1>1, Turns
<1>3. P \subseteq S
  OBVIOUS
<1>4. ps \in Seq(S)
  BY <1>2, <1>3, SeqWider
<1> HIDE DEF ps
<1>5. /\ \A i \in DOMAIN rs : i \in Nat /\ i \in DOMAIN all /\ all[i] = rs[i] /\ i <= Len(rs)
      /\ \A i \in DOMAIN ps : /\ Len(rs) + i \in DOMAIN all /\ all[Len(rs) + i] = ps[i]
                              /\ Len(rs) + i \in Nat /\ Len(rs) + i > Len(rs)
      /\ \A i \in DOMAIN all : i \in DOMAIN rs \/ \E j \in DOMAIN ps : all[i] = ps[j]
  <2>1. \A i \in DOMAIN rs : i \in Nat /\ i \in DOMAIN all /\ all[i] = rs[i] /\ i <= Len(rs)
    BY <1>4, Appended
  <2>2. \A i \in DOMAIN ps : /\ Len(rs) + i \in DOMAIN all /\ all[Len(rs) + i] = ps[i]
                              /\ Len(rs) + i \in Nat /\ Len(rs) + i > Len(rs)
    BY <1>4, Appended
  <2>3. ASSUME NEW i \in DOMAIN all, i \notin DOMAIN rs PROVE \E j \in DOMAIN ps : all[i] = ps[j]
    BY <1>4, <2>3, Appended
  <2> QED
    BY <2>1, <2>2, <2>3
<1>6. ASSUME NEW key \in puts
      PROVE  \E i \in DOMAIN all : i \in Nat /\ i > Len(rs) /\ all[i] = Put("rows", key, target[key])
  <2>1. PICK i \in DOMAIN ps : ps[i] = Put("rows", key, target[key])
    BY <1>2
  <2> QED
    BY <1>5, <2>1
<1>7. \A i \in DOMAIN all : i \notin DOMAIN rs => all[i].op = "put"
  <2>1. \A j \in DOMAIN ps : ps[j] \in P
    BY <1>2
  <2>2. \A x \in P : x.op = "put"
    BY Fields
  <2> QED
    BY <1>5, <2>1, <2>2
<1>8. Len(rs) \in Nat
  OBVIOUS
<1> HIDE DEF all
<1>9. ASSUME NEW key \in DOMAIN target
      PROVE  \/ key \in DOMAIN records /\ records[key] = target[key]
             \/ \E i \in DOMAIN all : all[i] = Put("rows", key, target[key])
  BY <1>5, <1>6 DEF Removes
<1>10. ASSUME NEW key \in DOMAIN records \ DOMAIN target
       PROVE  \E i \in DOMAIN all :
                /\ all[i].table = "rows"
                /\ all[i].op = "clear" \/ (all[i].op \in {"delete", "count"} /\ key \in all[i].keys)
  BY <1>5, <1>10 DEF Removes
<1>11. ASSUME NEW i \in DOMAIN all, all[i].table = "rows"
       PROVE  /\ all[i].op = "delete" => all[i].keys \cap DOMAIN target = {}
              /\ all[i].op = "clear" =>
                   \A key \in DOMAIN target :
                      \E j \in DOMAIN all : j > i /\ all[j] = Put("rows", key, target[key])
              /\ all[i].op = "count" =>
                   /\ all[i].keys # {} /\ all[i].keys \subseteq DOMAIN records \ DOMAIN target
                   /\ DOMAIN target \subseteq DOMAIN records
                   /\ \A j \in DOMAIN all : all[j].table = "rows" /\ all[j].op # "flush" => j = i
  <2>1. CASE i \notin DOMAIN rs
    BY <1>7, <2>1
  <2>2. CASE i \in DOMAIN rs
    <3>1. all[i] = rs[i] /\ i \in Nat /\ i <= Len(rs)
      BY <1>5, <2>2
    <3>2. all[i].op = "delete" => all[i].keys \cap DOMAIN target = {}
      BY <2>2, <3>1 DEF Removes
    <3>3. ASSUME all[i].op = "clear", NEW key \in DOMAIN target
          PROVE  \E j \in DOMAIN all : j > i /\ all[j] = Put("rows", key, target[key])
      <4>1. key \in puts
        BY <2>2, <3>1, <3>3 DEF Removes
      <4>2. PICK j \in DOMAIN all : j \in Nat /\ j > Len(rs) /\ all[j] = Put("rows", key, target[key])
        BY <1>6, <4>1
      <4> QED
        BY <1>8, <3>1, <4>2
    <3>4. ASSUME all[i].op = "count"
          PROVE  /\ all[i].keys # {} /\ all[i].keys \subseteq DOMAIN records \ DOMAIN target
                 /\ DOMAIN target \subseteq DOMAIN records
                 /\ \A j \in DOMAIN all : all[j].table = "rows" /\ all[j].op # "flush" => j = i
      <4>1. /\ rs[i].keys # {} /\ rs[i].keys \subseteq DOMAIN records \ DOMAIN target
            /\ DOMAIN target \subseteq DOMAIN records
            /\ puts = {} /\ \A j \in DOMAIN rs : j = i
        BY <2>2, <3>1, <3>4 DEF Removes
      <4>2. DOMAIN ps = {}
        BY <1>2, <4>1
      <4> QED
        BY <1>5, <3>1, <4>1, <4>2
    <3> QED
      BY <3>2, <3>3, <3>4
  <2> QED
    BY <2>1, <2>2
<1>12. Missing(all, records, target)
  BY <1>9, <1>10, <1>11 DEF Missing
<1> QED
  BY <1>4, <1>12 DEF all, ps

\* The page of deleted rows, once they are gone.
LEMMA LeftOnPage ==
    ASSUME Memory, NEW page \in Nat
    PROVE  /\ Without(DataPage(page), Deleted) = OnPage(cache, page)
           /\ OnPage(cache, page) = NoRows => page \notin DOMAIN Paged(cache)
           /\ OnPage(cache, page) # NoRows =>
                page \in DOMAIN Paged(cache) /\ Paged(cache)[page] = OnPage(cache, page)
<1>1. Without(DataPage(page), Deleted) = OnPage(cache, page)
  BY DEF Without, DataPage, Deleted, OnPage
<1>2. \A id \in DOMAIN cache : id \in Nat
  BY IdsAreNat DEF Memory, Table
<1>3. ASSUME page \in DOMAIN Paged(cache) PROVE OnPage(cache, page) # NoRows
  <2>1. PICK id \in DOMAIN cache : page = ToPageId(id)
    BY <1>3 DEF Paged
  <2>2. id \in DOMAIN OnPage(cache, page)
    BY <1>2, <2>1, PageOfId DEF OnPage
  <2> QED
    BY <2>2, Empty
<1>4. ASSUME OnPage(cache, page) # NoRows
      PROVE  page \in DOMAIN Paged(cache) /\ Paged(cache)[page] = OnPage(cache, page)
  <2>1. DOMAIN OnPage(cache, page) # {}
    BY <1>4 DEF OnPage, NoRows
  <2>2. PICK id \in DOMAIN cache : id \in PageRange(page)
    BY <2>1 DEF OnPage
  <2>3. page = ToPageId(id)
    BY <1>2, <2>2, PageOfId
  <2> QED
    BY <2>3 DEF Paged
<1> QED
  BY <1>1, <1>3, <1>4

\* Rows of the cache are put as they are, or with the rest of their pages.
PutKeys(ids) == IF Bundled THEN {ToPageId(id) : id \in ids} ELSE ids

LEMMA PutRowsAre ==
    ASSUME Memory, NEW ids, ids \subseteq DOMAIN cache
    PROVE  /\ PutKeys(ids) \subseteq DOMAIN Target /\ IsFiniteSet(PutKeys(ids))
           /\ PutRows([id \in ids |-> cache[id]])
                = InTurn({Put("rows", key, Target[key]) : key \in PutKeys(ids)})
<1> DEFINE rows == [id \in ids |-> cache[id]]
<1>1. IsFiniteSet(ids)
  BY IdsAreFinite DEF Memory, Table
<1>2. CASE kind # "bundled"
  <2>1. Target = cache /\ PutKeys(ids) = ids /\ ~Bundled
    BY <1>2 DEF Target, Packed, PutKeys, Bundled
  <2>2. {Put("rows", id, rows[id]) : id \in DOMAIN rows} = {Put("rows", id, cache[id]) : id \in ids}
    OBVIOUS
  <2> QED
    BY <1>1, <2>1, <2>2 DEF PutRows, PutOneByOne
<1>3. CASE kind = "bundled"
  <2> DEFINE pages == {ToPageId(id) : id \in ids}
  <2>1. Target = Paged(cache) /\ PutKeys(ids) = pages /\ Bundled
    BY <1>3 DEF Target, Packed, PutKeys, Bundled
  <2>2. pages \subseteq DOMAIN Paged(cache)
    BY DEF Paged
  <2>3. IsFiniteSet(pages)
    <3> DEFINE f == [id \in ids |-> ToPageId(id)]
    <3>1. pages = {f[id] : id \in ids}
      OBVIOUS
    <3> HIDE DEF f
    <3> QED
      BY <1>1, <3>1, ImageIsFinite
  <2>4. ASSUME NEW page \in pages
        PROVE  Over(OnPage(rows, page), DataPage(page)) = Paged(cache)[page]
    <3>1. Paged(cache)[page] = OnPage(cache, page)
      BY <2>2 DEF Paged
    <3>2. Over(OnPage(rows, page), DataPage(page)) = OnPage(cache, page)
      BY DEF Over, OnPage, DataPage
    <3> QED
      BY <3>1, <3>2
  <2>5. {Put("rows", page, Over(OnPage(rows, page), DataPage(page))) :
             page \in {ToPageId(id) : id \in DOMAIN rows}}
          = {Put("rows", page, Paged(cache)[page]) : page \in pages}
    BY <2>4
  <2> QED
    BY <2>1, <2>2, <2>3, <2>5 DEF PutRows, PutInPages
<1> QED
  BY <1>2, <1>3

Removal == IF Deleted = {} THEN << >> ELSE RemoveRecords("rows", Deleted, Changed # {})

LEMMA DeletedIds ==
    ASSUME Memory
    PROVE  /\ Deleted \subseteq Ids /\ Deleted \subseteq Nat /\ IsFiniteSet(Deleted)
           /\ Changed \subseteq DOMAIN cache /\ Deleted \cap DOMAIN cache = {}
           /\ \A id \in DOMAIN base : id \in Deleted \/ id \in Changed \/ (id \in DOMAIN cache /\ base[id] = cache[id])
           /\ \A id \in DOMAIN cache : id \in Changed \/ (id \in DOMAIN base /\ base[id] = cache[id])
BY IdsAreNat, IdsAreFinite DEF Memory, Table, Deleted, Changed

\* One deletion for each key, in some order.
Deletes(rs, table, keys) ==
    /\ \A key \in keys : \E i \in DOMAIN rs : rs[i] = Delete(table, {key})
    /\ \A i \in DOMAIN rs : \E key \in keys : rs[i] = Delete(table, {key})
    /\ \A S : (\A key \in keys : Delete(table, {key}) \in S) => rs \in Seq(S)

LEMMA DeleteEachIs ==
    ASSUME NEW table, NEW all, IsFiniteSet(all)
    PROVE  Deletes(DeleteEach(table, all), table, all)
<1> DEFINE D == {Delete(table, {key}) : key \in all}
           f == [key \in all |-> Delete(table, {key})]
<1>1. D = {f[key] : key \in all}
  OBVIOUS
<1> HIDE DEF f
<1>2. IsFiniteSet(D)
  BY <1>1, ImageIsFinite
<1>3. DeleteEach(table, all) = InTurn(D)
  BY DEF DeleteEach
<1>4. InTurn(D) \in Seq(D) /\ \A x \in D : \E i \in DOMAIN InTurn(D) : InTurn(D)[i] = x
  BY <1>2, Turns
<1> DEFINE rs == InTurn(D)
<1>5. \A x \in D : \E key \in all : x = Delete(table, {key})
  OBVIOUS
<1>6. \A key \in all : Delete(table, {key}) \in D
  OBVIOUS
<1> HIDE DEF rs, D
<1>7. \A i \in DOMAIN rs : rs[i] \in D
  BY <1>4, SeqElements DEF rs
<1>8. \A i \in DOMAIN rs : \E key \in all : rs[i] = Delete(table, {key})
  BY <1>5, <1>7
<1>9. \A key \in all : \E i \in DOMAIN rs : rs[i] = Delete(table, {key})
  BY <1>4, <1>6 DEF rs
<1>10. ASSUME NEW S, \A key \in all : Delete(table, {key}) \in S PROVE rs \in Seq(S)
  <2>1. \A i \in DOMAIN rs : rs[i] \in S
    BY <1>8, <1>10
  <2>2. rs \in Seq(D)
    BY <1>4 DEF rs
  <2> QED
    BY <2>1, <2>2, SeqElements
<1> QED
  BY <1>3, <1>8, <1>9, <1>10 DEF rs, D, Deletes

\* ObjectStore
LEMMA RemovalFromObjectStore ==
    ASSUME Memory, kind = "indexedDb", Deleted # {}
    PROVE  /\ Removal \in Seq(RowsAsked(Target, kind))
           /\ Removes(Removal, base, Target, PutKeys(Changed))
<1>1. Target = cache /\ PutKeys(Changed) = Changed
  BY DEF Target, Packed, PutKeys, Bundled
<1>2. Removal = IF Changed # {} THEN DeleteEach("rows", Deleted) ELSE << Count("rows", Deleted) >>
  BY DEF Removal, RemoveRecords, RemoveFromObjectStore
<1>3. CASE Changed # {}
  <2> DEFINE rs == DeleteEach("rows", Deleted)
  <2>1. Removal = rs
    BY <1>2, <1>3
  <2>2. /\ \A S : (\A key \in Deleted : Delete("rows", {key}) \in S) => rs \in Seq(S)
        /\ \A key \in Deleted : \E i \in DOMAIN rs : rs[i] = Delete("rows", {key})
        /\ \A i \in DOMAIN rs : \E key \in Deleted : rs[i] = Delete("rows", {key})
    <3>1. Deletes(rs, "rows", Deleted)
      BY DeletedIds, DeleteEachIs
    <3> HIDE DEF rs
    <3> QED
      BY <3>1 DEF Deletes
  <2> HIDE DEF rs
  <2>3. \A key \in Deleted : Delete("rows", {key}) \in RowsAsked(Target, kind)
    BY DeletedIds, AskedThere
  <2>4. rs \in Seq(RowsAsked(Target, kind))
    BY <2>2, <2>3
  <2>5. \A key \in Deleted : /\ Delete("rows", {key}).op = "delete" /\ Delete("rows", {key}).table = "rows"
                             /\ Delete("rows", {key}).keys = {key}
    BY Fields
  <2>6. ASSUME NEW i \in DOMAIN rs
        PROVE  rs[i].op = "delete" /\ rs[i].keys \cap DOMAIN cache = {}
    <3>1. PICK key \in Deleted : rs[i] = Delete("rows", {key})
      BY <2>2
    <3>2. rs[i].op = "delete" /\ rs[i].keys = {key}
      BY <2>5, <3>1
    <3> QED
      BY <3>2 DEF Deleted
  <2>8. ASSUME NEW key \in DOMAIN base \ DOMAIN cache
        PROVE  \E i \in DOMAIN rs : rs[i].table = "rows" /\ rs[i].op = "delete" /\ key \in rs[i].keys
    <3>1. key \in Deleted
      BY <2>8 DEF Deleted
    <3>2. PICK i \in DOMAIN rs : rs[i] = Delete("rows", {key})
      BY <2>2, <3>1
    <3> QED
      BY <2>5, <3>1, <3>2
  <2>7. Removes(rs, base, cache, Changed)
    BY <2>6, <2>8, DeletedIds DEF Removes
  <2> QED
    BY <1>1, <2>1, <2>4, <2>7
<1>4. CASE Changed = {}
  <2> DEFINE rs == << Count("rows", Deleted) >>
  <2>1. Removal = rs
    BY <1>2, <1>4
  <2>2. Count("rows", Deleted) \in RowsAsked(Target, kind)
    BY DeletedIds, AskedThere
  <2>3. /\ rs \in Seq(RowsAsked(Target, kind))
        /\ DOMAIN rs = {1} /\ rs[1] = Count("rows", Deleted)
    BY <2>2, SeqOfOne
  <2> HIDE DEF rs
  <2>4. rs[1].table = "rows" /\ rs[1].op = "count" /\ rs[1].keys = Deleted
    BY <2>3, Fields
  <2>5. Removes(rs, base, cache, Changed)
    BY <1>4, <2>3, <2>4, DeletedIds DEF Removes, Deleted
  <2> QED
    BY <1>1, <2>1, <2>3, <2>5
<1> QED
  BY <1>3, <1>4

\* BundledObjectStore
LEMMA RemovalFromPages ==
    ASSUME Memory, kind = "bundled", Deleted # {}
    PROVE  /\ Removal \in Seq(RowsAsked(Target, kind))
           /\ Removes(Removal, Paged(base), Target, PutKeys(Changed))
<1> DEFINE pages == {ToPageId(id) : id \in Deleted}
           changed == {ToPageId(id) : id \in Changed}
           left(page) == Without(DataPage(page), Deleted)
           request(page) == IF left(page) = NoRows THEN Delete("rows", {page}) ELSE Put("rows", page, left(page))
           R == {request(page) : page \in pages}
           rs == InTurn(R)
<1>1. Target = Paged(cache) /\ PutKeys(Changed) = changed
  BY DEF Target, Packed, PutKeys, Bundled
<1>2. Removal = rs
  BY DEF Removal, RemoveRecords, RemoveFromPages
<1>3. IsFiniteSet(R)
  <2> DEFINE f == [id \in Deleted |-> request(ToPageId(id))]
  <2>1. R = {f[id] : id \in Deleted}
    OBVIOUS
  <2>2. IsFiniteSet(Deleted)
    BY DeletedIds
  <2> HIDE DEF f, R
  <2> QED
    BY <2>1, <2>2, ImageIsFinite
<1>4. \A page \in pages : page \in Nat
  BY DeletedIds, PageOfId
<1>5. ASSUME NEW page \in pages
      PROVE  \/ page \notin DOMAIN Paged(cache) /\ request(page) = Delete("rows", {page})
             \/ page \in DOMAIN Paged(cache) /\ request(page) = Put("rows", page, Paged(cache)[page])
  BY <1>4, LeftOnPage
<1> HIDE DEF request, pages
<1>6. rs \in Seq(R) /\ \A x \in R : \E i \in DOMAIN rs : rs[i] = x
  BY <1>3, Turns
<1>7. \A page \in pages : request(page) \in RowsAsked(Target, kind)
  <2> DEFINE asked == RowsAsked(Target, kind)
  <2>1. \A page \in pages : Delete("rows", {page}) \in asked
    <3>1. \A page \in pages : {page} \subseteq Nat
      BY <1>4
    <3> QED
      BY <3>1, AskedThere
  <2>2. \A page \in DOMAIN Paged(cache) : Put("rows", page, Paged(cache)[page]) \in asked
    BY <1>1, AskedThere
  <2> HIDE DEF asked
  <2>3. \A page \in pages : request(page) \in asked
    BY <1>5, <2>1, <2>2
  <2> QED
    BY <2>3 DEF asked
<1>8. \A x \in R : \E page \in pages : x = request(page)
  OBVIOUS
<1>15. \A page \in pages : request(page) \in R
  OBVIOUS
<1> HIDE DEF rs, R
<1>16. \A i \in DOMAIN rs : rs[i] \in R
  BY <1>6, SeqElements
<1>9. \A i \in DOMAIN rs : \E page \in pages : rs[i] = request(page)
  BY <1>8, <1>16
<1>17. rs \in Seq(RowsAsked(Target, kind))
  BY <1>6, <1>7, <1>9, SeqElements
<1>10. \A page \in pages : \E i \in DOMAIN rs : rs[i] = request(page)
  BY <1>6, <1>15
<1>11. ASSUME NEW page \in DOMAIN Paged(cache) \ changed
       PROVE  \/ page \in DOMAIN Paged(base) /\ Paged(base)[page] = Paged(cache)[page]
              \/ \E i \in DOMAIN rs : rs[i] = Put("rows", page, Paged(cache)[page])
  <2>1. CASE page \in pages
    BY <1>5, <1>10, <2>1
  <2>2. CASE page \notin pages
    <3>1. PICK id \in DOMAIN cache : page = ToPageId(id)
      BY DEF Paged
    <3>2. id \in DOMAIN base
      BY <3>1, DeletedIds
    <3>3. page \in DOMAIN Paged(base) /\ Paged(base)[page] = OnPage(base, page)
           /\ Paged(cache)[page] = OnPage(cache, page)
      BY <3>1, <3>2 DEF Paged
    <3>4. /\ DOMAIN cache \subseteq Nat /\ DOMAIN base \subseteq Nat
          /\ page \in Nat
      BY <3>1, IdsAreNat, PageOfId DEF Memory, Table
    <3>5. \A other \in Nat : other \in PageRange(page) => page = ToPageId(other)
      BY <3>4, PageOfId
    <3>6. \A other \in DOMAIN base \cap PageRange(page) : other \in DOMAIN cache /\ base[other] = cache[other]
      BY <2>2, <3>4, <3>5, DeletedIds DEF pages
    <3>7. \A other \in DOMAIN cache \cap PageRange(page) : other \in DOMAIN base /\ base[other] = cache[other]
      BY <3>4, <3>5, DeletedIds
    <3>8. OnPage(base, page) = OnPage(cache, page)
      BY <3>6, <3>7 DEF OnPage
    <3> QED
      BY <3>3, <3>8
  <2> QED
    BY <2>1, <2>2
<1>12. ASSUME NEW page \in DOMAIN Paged(base) \ DOMAIN Paged(cache)
       PROVE  \E i \in DOMAIN rs : rs[i].table = "rows" /\ rs[i].op = "delete" /\ page \in rs[i].keys
  <2>1. PICK id \in DOMAIN base : page = ToPageId(id)
    BY DEF Paged
  <2>2. id \notin DOMAIN cache
    BY <1>12, <2>1 DEF Paged
  <2>3. page \in pages
    BY <2>1, <2>2 DEF Deleted, pages
  <2>4. PICK i \in DOMAIN rs : rs[i] = Delete("rows", {page})
    BY <1>5, <1>10, <1>12, <2>3
  <2> QED
    BY <2>4, Fields
<1>13. \A i \in DOMAIN rs : /\ rs[i].op \in {"delete", "put"}
                            /\ rs[i].op = "delete" => rs[i].keys \cap DOMAIN Paged(cache) = {}
  <2>1. ASSUME NEW page \in pages
        PROVE  \/ /\ request(page).op = "delete"
                  /\ request(page).keys = {page} /\ page \notin DOMAIN Paged(cache)
               \/ request(page).op = "put"
    <3>1. Delete("rows", {page}).op = "delete" /\ Delete("rows", {page}).keys = {page}
      BY Fields
    <3>2. Put("rows", page, Paged(cache)[page]).op = "put"
      BY Fields
    <3> QED
      BY <1>5, <3>1, <3>2
  <2> QED
    BY <1>9, <2>1
<1>14. Removes(rs, Paged(base), Paged(cache), changed)
  BY <1>11, <1>12, <1>13 DEF Removes
<1> QED
  BY <1>1, <1>2, <1>14, <1>17

\* WebSqlTable
LEMMA RemovalBySql ==
    ASSUME Memory, kind = "webSql", Deleted # {}
    PROVE  /\ Removal \in Seq(RowsAsked(Target, kind))
           /\ Removes(Removal, base, Target, PutKeys(Changed))
<1> DEFINE rs == << Delete("rows", Deleted) >>
<1>1. Target = cache /\ PutKeys(Changed) = Changed
  BY DEF Target, Packed, PutKeys, Bundled
<1>2. Removal = rs
  BY DEF Removal, RemoveRecords, RemoveBySql
<1>3. Delete("rows", Deleted) \in RowsAsked(Target, kind)
  BY DeletedIds, AskedThere
<1>4. /\ rs \in Seq(RowsAsked(Target, kind))
      /\ DOMAIN rs = {1} /\ rs[1] = Delete("rows", Deleted)
  BY <1>3, SeqOfOne
<1> HIDE DEF rs
<1>5. rs[1].table = "rows" /\ rs[1].op = "delete" /\ rs[1].keys = Deleted
  BY <1>4, Fields
<1>6. Removes(rs, base, cache, Changed)
  BY <1>4, <1>5, DeletedIds DEF Removes, Deleted
<1> QED
  BY <1>1, <1>2, <1>4, <1>6

\* MemoryTable and LocalStorageTable: as many ids as rows are all ids.
LEMMA RemovalFromMap ==
    ASSUME Memory, kind \in Maps, Deleted # {}
    PROVE  /\ Removal \in Seq(RowsAsked(Target, kind))
           /\ view["rows"] = base => Removes(Removal, base, Target, PutKeys(Changed))
<1> DEFINE all == Cardinality(Deleted) = Cardinality(DOMAIN view["rows"])
           r == IF all THEN Clear("rows") ELSE Delete("rows", Deleted)
           rs == << r >>
<1>1. Target = cache /\ PutKeys(Changed) = Changed
  BY DEF Target, Packed, PutKeys, Bundled, Maps
<1>2. Removal = rs
  <2>1. RemoveRecords("rows", Deleted, Changed # {}) = RemoveFromMap("rows", Deleted)
    BY DEF RemoveRecords, Maps
  <2> QED
    BY <2>1 DEF Removal, RemoveFromMap
<1>3. r \in RowsAsked(Target, kind)
  BY DeletedIds, AskedThere
<1>4. rs \in Seq(RowsAsked(Target, kind)) /\ DOMAIN rs = {1} /\ rs[1] = r
  BY <1>3, SeqOfOne
<1> HIDE DEF rs
<1>5. ASSUME view["rows"] = base PROVE Removes(rs, base, cache, Changed)
  <2>1. CASE all
    <3>1. IsFiniteSet(DOMAIN base) /\ Deleted \subseteq DOMAIN base
      BY IdsAreFinite DEF Memory, Table, Deleted
    <3>2. Deleted = DOMAIN base
      BY <1>5, <2>1, <3>1, FS_Subset
    <3>3. DOMAIN cache \subseteq Changed
      BY <3>2, DeletedIds
    <3>4. rs[1].table = "rows" /\ rs[1].op = "clear"
      BY <1>4, <2>1, Fields
    <3> QED
      BY <1>4, <3>3, <3>4 DEF Removes
  <2>2. CASE ~all
    <3>1. rs[1].table = "rows" /\ rs[1].op = "delete" /\ rs[1].keys = Deleted
      BY <1>4, <2>2, Fields
    <3> QED
      BY <1>4, <3>1, DeletedIds DEF Removes, Deleted
  <2> QED
    BY <2>1, <2>2
<1> QED
  BY <1>1, <1>2, <1>4, <1>5

LEMMA MergeTableChangesAre ==
    ASSUME Sessions, Memory
    PROVE  /\ MergeTableChanges \in Seq(RowsAsked(Target, kind))
           /\ (kind \in Maps => view["rows"] = base) =>
                Missing(MergeTableChanges, Packed(kind, base), Target)
<1> DEFINE puts == PutKeys(Changed)
           ps == InTurn({Put("rows", key, Target[key]) : key \in puts})
           S == RowsAsked(Target, kind)
<1>1. MergeTableChanges = Removal \o ps /\ puts \subseteq DOMAIN Target /\ IsFiniteSet(puts)
  BY DeletedIds, PutRowsAre DEF MergeTableChanges, Removal
<1>2. \A key \in puts : Put("rows", key, Target[key]) \in S
  BY <1>1, AskedThere
<1>3. /\ Removal \in Seq(S)
      /\ (kind \in Maps => view["rows"] = base) => Removes(Removal, Packed(kind, base), Target, puts)
  <2>1. CASE Deleted # {} /\ kind = "indexedDb"
    BY <2>1, RemovalFromObjectStore DEF Packed
  <2>2. CASE Deleted # {} /\ kind = "bundled"
    BY <2>2, RemovalFromPages DEF Packed
  <2>3. CASE Deleted # {} /\ kind = "webSql"
    BY <2>3, RemovalBySql DEF Packed
  <2>4. CASE Deleted # {} /\ kind \in Maps
    BY <2>4, RemovalFromMap DEF Packed, Maps
  <2>5. CASE Deleted = {}
    <3>1. Removal = << >>
      BY <2>5 DEF Removal
    <3>2. Removal \in Seq(S)
      BY <3>1
    <3>3. CASE kind # "bundled"
      <4>1. Packed(kind, base) = base /\ Target = cache /\ puts = Changed
        BY <3>3 DEF Packed, Target, PutKeys, Bundled
      <4>2. Removes(<< >>, base, cache, Changed)
        BY <2>5, DeletedIds DEF Removes
      <4> QED
        BY <3>1, <3>2, <4>1, <4>2
    <3>4. CASE kind = "bundled"
      <4> DEFINE changed == {ToPageId(id) : id \in Changed}
      <4>1. Packed(kind, base) = Paged(base) /\ Target = Paged(cache) /\ puts = changed
        BY <3>4 DEF Packed, Target, PutKeys, Bundled
      <4>2. /\ DOMAIN cache \subseteq Nat /\ DOMAIN base \subseteq Nat
            /\ \A id \in DOMAIN base : id \in DOMAIN cache
        BY <2>5, IdsAreNat DEF Memory, Table, Deleted
      <4>3. ASSUME NEW page \in DOMAIN Paged(cache) \ changed
            PROVE  page \in DOMAIN Paged(base) /\ Paged(base)[page] = Paged(cache)[page]
        <5>1. PICK id \in DOMAIN cache : page = ToPageId(id)
          BY DEF Paged
        <5>2. id \in DOMAIN base
          BY <5>1, DeletedIds
        <5>3. /\ page \in DOMAIN Paged(base) /\ Paged(base)[page] = OnPage(base, page)
              /\ Paged(cache)[page] = OnPage(cache, page)
          BY <5>1, <5>2 DEF Paged
        <5>4. \A other \in Nat : other \in PageRange(page) => page = ToPageId(other)
          BY <4>2, <5>1, PageOfId
        <5>5. \A other \in DOMAIN base \cap PageRange(page) : base[other] = cache[other]
          BY <4>2, <5>4, DeletedIds
        <5>6. \A other \in DOMAIN cache \cap PageRange(page) : other \in DOMAIN base
          BY <4>2, <5>4, DeletedIds
        <5>7. OnPage(base, page) = OnPage(cache, page)
          BY <4>2, <5>5, <5>6 DEF OnPage
        <5> QED
          BY <5>3, <5>7
      <4>4. DOMAIN Paged(base) \subseteq DOMAIN Paged(cache)
        BY <4>2 DEF Paged
      <4>5. Removes(<< >>, Paged(base), Paged(cache), changed)
        BY <4>3, <4>4 DEF Removes
      <4> QED
        BY <3>1, <3>2, <4>1, <4>5
    <3> QED
      BY <3>3, <3>4
  <2>6. kind \in {"memory", "indexedDb", "bundled", "webSql", "localStorage"}
    BY KindsAssumption DEF Sessions
  <2> QED
    BY <2>1, <2>2, <2>3, <2>4, <2>5, <2>6 DEF Maps
<1> HIDE DEF puts, S
<1>4. ps \in Seq(S)
  <2> DEFINE P == {Put("rows", key, Target[key]) : key \in puts}
  <2>2. IsFiniteSet(P)
    <3> DEFINE f == [key \in puts |-> Put("rows", key, Target[key])]
    <3>1. P = {f[key] : key \in puts}
      OBVIOUS
    <3> HIDE DEF f
    <3> QED
      BY <1>1, <3>1, ImageIsFinite
  <2>3. P \subseteq S
    BY <1>2
  <2> HIDE DEF P
  <2>4. InTurn(P) \in Seq(P)
    BY <2>2, Turns
  <2> QED
    BY <2>3, <2>4, SeqWider DEF P
<1>5. (kind \in Maps => view["rows"] = base) => Missing(Removal \o ps, Packed(kind, base), Target)
  BY <1>1, <1>2, <1>3, Combined
<1> HIDE DEF ps
<1>6. Removal \o ps \in Seq(S)
  BY <1>3, <1>4
<1> QED
  BY <1>1, <1>5, <1>6 DEF S

Imported == PutRows([id \in Changed |-> cache[id]])

\* An import puts the rows it brings, and deletes none.
LEMMA ImportPuts ==
    ASSUME Sessions, Memory
    PROVE  /\ Imported \in Seq(RowsAsked(Target, kind))
           /\ Deleted = {} /\ (kind \in Maps => view["rows"] = base) =>
                Missing(Imported, Packed(kind, base), Target)
<1> DEFINE S == RowsAsked(Target, kind)
           P == {Put("rows", key, Target[key]) : key \in PutKeys(Changed)}
<1>1. /\ Imported = InTurn(P)
      /\ PutKeys(Changed) \subseteq DOMAIN Target /\ IsFiniteSet(PutKeys(Changed))
  BY DeletedIds, PutRowsAre DEF Imported
<1>2. P \subseteq S
  BY <1>1, AskedThere
<1>3. IsFiniteSet(P)
  <2> DEFINE keys == PutKeys(Changed)
             f == [key \in keys |-> Put("rows", key, Target[key])]
  <2>1. P = {f[key] : key \in keys} /\ IsFiniteSet(keys)
    BY <1>1
  <2> HIDE DEF f, keys, P
  <2> QED
    BY <2>1, ImageIsFinite
<1> HIDE DEF P, S
<1>4. Imported \in Seq(S)
  <2>1. InTurn(P) \in Seq(P)
    BY <1>3, Turns
  <2> QED
    BY <1>1, <1>2, <2>1, SeqWider
<1>5. ASSUME Deleted = {} PROVE MergeTableChanges = Imported
  <2>1. MergeTableChanges = << >> \o Imported
    BY <1>5 DEF MergeTableChanges, Imported
  <2> QED
    BY <1>4, <2>1
<1> QED
  BY <1>4, <1>5, MergeTableChangesAre DEF S

\* The index is put after everything else that is asked of its table.
LEMMA MergeIndexChangesAre ==
    ASSUME Sessions
    PROVE  /\ MergeIndexChanges \in Seq(IF persistent THEN LeavesAsked(index, kind) ELSE {})
           /\ persistent =>
                /\ Len(MergeIndexChanges) = 2
                /\ MergeIndexChanges[2] = Put("leaves", 0, index)
<1> DEFINE first == IF kind = "indexedDb" THEN Count("leaves", {}) ELSE Clear("leaves")
           rs == << first, Put("leaves", 0, index) >>
<1>1. CASE ~persistent
  BY <1>1 DEF MergeIndexChanges
<1>2. CASE persistent
  <2>1. RemoveRecords("leaves", {}, FALSE) = << first >>
    <3>1. kind \in {"memory", "indexedDb", "bundled", "webSql", "localStorage"}
      BY KindsAssumption DEF Sessions
    <3>2. CASE kind = "indexedDb"
      <4>1. RemoveRecords("leaves", {}, FALSE) = RemoveFromObjectStore("leaves", {}, FALSE)
        BY <3>2 DEF RemoveRecords
      <4> QED
        BY <3>2, <4>1 DEF RemoveFromObjectStore
    <3>3. CASE kind = "bundled"
      <4>1. RemoveRecords("leaves", {}, FALSE) = RemoveFromPages("leaves", {})
        BY <3>3 DEF RemoveRecords
      <4> QED
        BY <3>3, <4>1 DEF RemoveFromPages
    <3>4. CASE kind = "webSql"
      <4>1. RemoveRecords("leaves", {}, FALSE) = RemoveBySql("leaves", {})
        BY <3>4 DEF RemoveRecords
      <4> QED
        BY <3>4, <4>1 DEF RemoveBySql
    <3>5. CASE kind \in Maps
      <4>1. RemoveRecords("leaves", {}, FALSE) = RemoveFromMap("leaves", {})
        BY <3>5 DEF RemoveRecords, Maps
      <4> QED
        BY <3>5, <4>1 DEF RemoveFromMap, Maps
    <3> QED
      BY <3>1, <3>2, <3>3, <3>4, <3>5 DEF Maps
  <2>2. MergeIndexChanges = << first >> \o << Put("leaves", 0, index) >>
    BY <1>2, <2>1 DEF MergeIndexChanges
  <2>3. first \in LeavesAsked(index, kind) /\ Put("leaves", 0, index) \in LeavesAsked(index, kind)
    BY DEF LeavesAsked
  <2> HIDE DEF first
  <2> QED
    BY <1>2, <2>2, <2>3
<1> QED
  BY <1>1, <1>2

LEMMA FlushesAre ==
    ASSUME Sessions, kind = "localStorage" => DOMAIN view = TablesNeeded
    PROVE  Flushes = IF kind = "localStorage" THEN << Flush("rows") >> ELSE << >>
<1>1. CASE kind = "localStorage"
  <2> DEFINE F == {Flush("rows")}
             rs == InTurn(F)
  <2>1. DOMAIN view = {"rows"}
    BY <1>1 DEF TablesNeeded, Sessions
  <2>2. Flushes = rs
    BY <1>1, <2>1 DEF Flushes
  <2>3. IsFiniteSet(F) /\ Cardinality(F) = 1
    BY FS_Singleton
  <2>4. \E f \in [1 .. 1 -> F] : IsInjective(f)
    <3> DEFINE f == [i \in 1 .. 1 |-> Flush("rows")]
    <3>1. f \in [1 .. 1 -> F] /\ IsInjective(f)
      BY DEF IsInjective
    <3> QED
      BY <3>1
  <2>5. rs \in [1 .. 1 -> F]
    BY <2>3, <2>4 DEF InTurn, SetToSeq
  <2> HIDE DEF rs
  <2>6. rs = << Flush("rows") >>
    BY <2>5
  <2> QED
    BY <1>1, <2>2, <2>6
<1>2. CASE kind # "localStorage"
  BY <1>2 DEF Flushes
<1> QED
  BY <1>1, <1>2

-----------------------------------------------------------------------------
(* Any store: the form of tables, memory and requests *)

Form == Sessions /\ Disk /\ Memory /\ Requests

LEMMA Needed ==
    ASSUME Sessions
    PROVE  /\ "rows" \in TablesNeeded /\ TablesNeeded \subseteq {"rows", "leaves"}
           /\ persistent => "leaves" \in TablesNeeded
           /\ kind = "localStorage" => TablesNeeded = {"rows"}
BY DEF TablesNeeded, Sessions

LEMMA NewRowIsRow == ASSUME Sessions, NEW v \in Values PROVE NewRow(v) \in Row
BY DEF Sessions, NewRow, Row

\* The tables after one of them changes.
LEMMA FitExcept ==
    ASSUME NEW k, NEW needed, NEW tables, Fit(k, needed, tables), DOMAIN tables = needed,
           "rows" \in needed, NEW records
    PROVE  LET after(t) == [tables EXCEPT ![t] = records] IN
           /\ \A t : DOMAIN after(t) = needed
           /\ Valid(k, records) => Fit(k, needed, after("rows"))
           /\ "leaves" \in needed /\ records \in Leaves => Fit(k, needed, after("leaves"))
           /\ Valid(k, tables["rows"])
           /\ "leaves" \in needed => tables["leaves"] \in Leaves
           /\ after("rows")["rows"] = records
           /\ "leaves" \in needed => /\ after("rows")["leaves"] = tables["leaves"]
                                     /\ after("leaves")["leaves"] = records
                                     /\ after("leaves")["rows"] = tables["rows"]
<1>1. tables = [t \in needed |-> tables[t]] /\ Valid(k, tables["rows"])
      /\ ("leaves" \in needed => tables["leaves"] \in Leaves)
  BY Empty DEF Fit
<1>2. ASSUME Valid(k, records)
      PROVE  LET after == [tables EXCEPT !["rows"] = records]
             IN  after = [t \in needed |-> after[t]] /\ Fit(k, needed, after)
  BY <1>1, <1>2 DEF Fit
<1>3. ASSUME "leaves" \in needed, records \in Leaves
      PROVE  LET after == [tables EXCEPT !["leaves"] = records]
             IN  after = [t \in needed |-> after[t]] /\ Fit(k, needed, after)
  BY <1>1, <1>3 DEF Fit
<1> QED
  BY <1>1, <1>2, <1>3

LEMMA LeavesThere ==
    /\ NoRows \in Leaves /\ Entries(NoRows) = {}
    /\ \A entries : entries \subseteq Values \X Ids =>
         \A leaves \in Leaves :
            With(leaves, 0, entries) \in Leaves /\ Entries(With(leaves, 0, entries)) = entries
<1>1. NoRows \in Leaves /\ Entries(NoRows) = {}
  BY DEF Leaves, Entries
<1>2. ASSUME NEW entries, entries \subseteq Values \X Ids, NEW leaves \in Leaves
      PROVE  With(leaves, 0, entries) \in Leaves /\ Entries(With(leaves, 0, entries)) = entries
  <2>1. DOMAIN leaves \subseteq {0}
    BY Empty DEF Leaves
  <2>2. With(leaves, 0, entries) = [k \in {0} |-> entries]
    BY <2>1 DEF With
  <2>3. 0 \in DOMAIN With(leaves, 0, entries)
    BY <2>2
  <2>4. With(leaves, 0, entries) # NoRows
    BY <2>3, Empty
  <2> QED
    BY <1>2, <2>2, <2>4 DEF Leaves, Entries
<1> QED
  BY <1>1, <1>2

\* What one request does, request by request.
LEMMA Executed ==
    ASSUME Form, ExecuteRequest
    PROVE  LET r == requests[1] rest == Tail(requests) IN
           /\ requests # << >> /\ rest \in Seq(Asked(Target, index, kind, persistent))
           /\ UNCHANGED <<kind, persistent, version, schema, memoryVars, phase, rejected, torn>>
           /\ \/ \E key \in DOMAIN Target :
                   /\ r = Put("rows", key, Target[key])
                   /\ view' = [view EXCEPT !["rows"] = With(view["rows"], key, Target[key])]
                   /\ requests' = rest /\ durable' = durable
              \/ /\ persistent /\ r = Put("leaves", 0, index)
                 /\ view' = [view EXCEPT !["leaves"] = With(view["leaves"], 0, index)]
                 /\ requests' = rest /\ durable' = durable
              \/ \E keys \in SUBSET Nat :
                   /\ r = Delete("rows", keys)
                   /\ view' = [view EXCEPT !["rows"] = Without(view["rows"], keys)]
                   /\ requests' = rest /\ durable' = durable
              \/ /\ r = Clear("rows")
                 /\ view' = [view EXCEPT !["rows"] = NoRows]
                 /\ requests' = rest /\ durable' = durable
              \/ /\ persistent /\ r = Clear("leaves")
                 /\ view' = [view EXCEPT !["leaves"] = NoRows]
                 /\ requests' = rest /\ durable' = durable
              \/ \E keys \in SUBSET Ids :
                   /\ kind = "indexedDb" /\ r = Count("rows", keys)
                   /\ view' = view /\ durable' = durable
                   /\ requests' = rest \o
                        (IF keys = {} \/ Cardinality(keys) = Cardinality(DOMAIN view["rows"])
                         THEN << Clear("rows") >> ELSE DeleteEach("rows", keys))
              \/ /\ kind = "indexedDb" /\ persistent /\ r = Count("leaves", {})
                 /\ view' = view /\ durable' = durable
                 /\ requests' = rest \o << Clear("leaves") >>
              \/ /\ kind = "localStorage" /\ r = Flush("rows")
                 /\ view' = view /\ requests' = rest
                 /\ durable' = [durable EXCEPT !["rows"] = view["rows"]]
<1> DEFINE A == Asked(Target, index, kind, persistent)
           r == requests[1]
           rest == Tail(requests)
<1>1. requests # << >> /\ requests \in Seq(A)
  BY DEF Form, Requests, ExecuteRequest
<1>2. r \in A /\ rest \in Seq(A) /\ Head(requests) = r
  BY <1>1, Tails
<1> HIDE DEF A
<1>3. /\ view' = ViewAfter(r)
      /\ requests' = rest \o (IF r.op = "count" THEN Counted(r) ELSE << >>)
      /\ durable' = IF r.op = "flush" THEN [durable EXCEPT ![r.table] = view[r.table]] ELSE durable
      /\ UNCHANGED <<kind, persistent, version, schema, memoryVars, phase, rejected, torn>>
  BY <1>2 DEF ExecuteRequest
<1> HIDE DEF r, rest
<1>4. rest \o << >> = rest
  BY <1>2
<1>5. CASE \E key \in DOMAIN Target : r = Put("rows", key, Target[key])
  <2>1. PICK key \in DOMAIN Target : r = Put("rows", key, Target[key])
    BY <1>5
  <2>2. r.op = "put" /\ r.table = "rows" /\ r.key = key /\ r.record = Target[key]
    BY <2>1, Fields
  <2>3. ViewAfter(r) = [view EXCEPT !["rows"] = With(view["rows"], key, Target[key])]
    BY <2>2 DEF ViewAfter
  <2> QED
    BY <1>1, <1>2, <1>3, <1>4, <2>1, <2>2, <2>3 DEF r, rest, A
<1>6. CASE persistent /\ r = Put("leaves", 0, index)
  <2>1. r.op = "put" /\ r.table = "leaves" /\ r.key = 0 /\ r.record = index
    BY <1>6, Fields
  <2>2. ViewAfter(r) = [view EXCEPT !["leaves"] = With(view["leaves"], 0, index)]
    BY <2>1 DEF ViewAfter
  <2> QED
    BY <1>1, <1>2, <1>3, <1>4, <1>6, <2>1, <2>2 DEF r, rest, A
<1>7. CASE \E keys \in SUBSET Nat : r = Delete("rows", keys)
  <2>1. PICK keys \in SUBSET Nat : r = Delete("rows", keys)
    BY <1>7
  <2>2. r.op = "delete" /\ r.table = "rows" /\ r.keys = keys
    BY <2>1, Fields
  <2>3. ViewAfter(r) = [view EXCEPT !["rows"] = Without(view["rows"], keys)]
    BY <2>2 DEF ViewAfter
  <2> QED
    BY <1>1, <1>2, <1>3, <1>4, <2>1, <2>2, <2>3 DEF r, rest, A
<1>8. CASE r = Clear("rows")
  <2>1. r.op = "clear" /\ r.table = "rows"
    BY <1>8, Fields
  <2>2. ViewAfter(r) = [view EXCEPT !["rows"] = NoRows]
    BY <2>1 DEF ViewAfter
  <2> QED
    BY <1>1, <1>2, <1>3, <1>4, <1>8, <2>1, <2>2 DEF r, rest, A
<1>9. CASE persistent /\ r = Clear("leaves")
  <2>1. r.op = "clear" /\ r.table = "leaves"
    BY <1>9, Fields
  <2>2. ViewAfter(r) = [view EXCEPT !["leaves"] = NoRows]
    BY <2>1 DEF ViewAfter
  <2> QED
    BY <1>1, <1>2, <1>3, <1>4, <1>9, <2>1, <2>2 DEF r, rest, A
<1>10. CASE kind = "indexedDb" /\ \E keys \in SUBSET Ids : r = Count("rows", keys)
  <2>1. PICK keys \in SUBSET Ids : r = Count("rows", keys)
    BY <1>10
  <2>2. r.op = "count" /\ r.table = "rows" /\ r.keys = keys
    BY <2>1, Fields
  <2>3. ViewAfter(r) = view
    BY <2>2 DEF ViewAfter
  <2>4. Counted(r) = IF keys = {} \/ Cardinality(keys) = Cardinality(DOMAIN view["rows"])
                     THEN << Clear("rows") >> ELSE DeleteEach("rows", keys)
    BY <2>2 DEF Counted
  <2> QED
    BY <1>1, <1>2, <1>3, <1>10, <2>1, <2>2, <2>3, <2>4 DEF r, rest, A
<1>11. CASE kind = "indexedDb" /\ persistent /\ r = Count("leaves", {})
  <2>1. r.op = "count" /\ r.table = "leaves" /\ r.keys = {}
    BY <1>11, Fields
  <2>2. ViewAfter(r) = view
    BY <2>1 DEF ViewAfter
  <2>3. Counted(r) = << Clear("leaves") >>
    BY <2>1 DEF Counted
  <2> QED
    BY <1>1, <1>2, <1>3, <1>11, <2>1, <2>2, <2>3 DEF r, rest, A
<1>12. CASE kind = "localStorage" /\ r = Flush("rows")
  <2>1. r.op = "flush" /\ r.table = "rows"
    BY <1>12, Fields
  <2>2. ViewAfter(r) = view
    BY <2>1 DEF ViewAfter
  <2> QED
    BY <1>1, <1>2, <1>3, <1>4, <1>12, <2>1, <2>2 DEF r, rest, A
<1>13. \/ \E key \in DOMAIN Target : r = Put("rows", key, Target[key])
       \/ persistent /\ r = Put("leaves", 0, index)
       \/ \E keys \in SUBSET Nat : r = Delete("rows", keys)
       \/ r = Clear("rows")
       \/ persistent /\ r = Clear("leaves")
       \/ kind = "indexedDb" /\ \E keys \in SUBSET Ids : r = Count("rows", keys)
       \/ kind = "indexedDb" /\ persistent /\ r = Count("leaves", {})
       \/ kind = "localStorage" /\ r = Flush("rows")
  BY <1>2 DEF A, Asked, RowsAsked, LeavesAsked
<1> QED
  BY <1>5, <1>6, <1>7, <1>8, <1>9, <1>10, <1>11, <1>12, <1>13

LEMMA FormInit == Init => Form
<1> SUFFICES ASSUME Init PROVE Form
  OBVIOUS
<1>1. Sessions
  BY KindsAssumption, StoresBoundsAssumption DEF Init, Sessions, InSession
<1>2. Disk
  BY DEF Init, Disk, Fit, InSession, Running
<1>3. Memory
  BY Empty DEF Init, Memory, InSession
<1>4. Requests
  BY DEF Init, Requests, Running
<1> QED
  BY <1>1, <1>2, <1>3, <1>4 DEF Form

\* Outside of a transaction nothing is requested.
LEMMA NothingAsked ==
    ASSUME requests' = << >>
    PROVE  Requests'
BY DEF Requests

LEMMA TablesAreEmpty ==
    ASSUME Sessions
    PROVE  LET tables == [t \in TablesNeeded |-> NoRows] IN
           /\ Fit(kind, TablesNeeded, tables) /\ DOMAIN tables = TablesNeeded
           /\ tables["rows"] = NoRows /\ ("leaves" \in TablesNeeded => tables["leaves"] = NoRows)
BY Needed, Empty, LeavesThere DEF Fit

LEMMA FormOpen == ASSUME Form, Open PROVE Form'
<1> USE DEF Form
<1>1. phase = "closed" /\ ~Running /\ ~InSession /\ requests = << >> /\ ~InSession' /\ ~Running'
  BY DEF Open, Running, InSession, Requests
<1>2. schema' \in version .. MaxVersion \ {0} /\ kind' = kind /\ persistent' = persistent
  BY DEF Open
<1>3. TablesNeeded' = TablesNeeded
  BY <1>2 DEF TablesNeeded
<1>4. Sessions'
  <2>1. version \in 0 .. MaxVersion /\ schema' \in 1 .. MaxVersion
    BY <1>2, StoresBoundsAssumption DEF Sessions
  <2>2. version \in Int /\ schema' \in Int /\ schema' >= version
    BY <1>2, StoresBoundsAssumption DEF Sessions
  <2>3. version' = IF kind \in Maps THEN schema' ELSE version
    BY DEF Open, Maps
  <2>4. phase' = IF kind \in Maps \/ schema' = version THEN "prefetching" ELSE "upgrading"
    BY DEF Open, Maps
  <2>5. kind \in {"memory", "indexedDb", "bundled", "webSql", "localStorage"}
    BY KindsAssumption DEF Sessions
  <2>6. nextId' = nextId
    BY DEF Open, memoryVars
  <2> QED
    BY <1>1, <1>2, <2>1, <2>2, <2>3, <2>4, <2>5, <2>6 DEF Sessions, InSession, Maps
<1>5. Disk'
  <2>1. CASE kind \in Maps
    <3>1. durable' = LoadedTables /\ view' = durable' /\ phase' = "prefetching"
      BY <2>1 DEF Open, Maps
    <3>2. Fit(kind, TablesNeeded, durable') /\ DOMAIN durable' = TablesNeeded
      <4>1. CASE DOMAIN durable = {}
        BY <3>1, <4>1, TablesAreEmpty DEF LoadedTables
      <4>2. CASE DOMAIN durable # {}
        <5>1. durable # NoRows /\ durable' = durable
          BY <3>1, <4>2, Empty DEF LoadedTables
        <5> QED
          BY <5>1 DEF Disk, Fit
      <4> QED
        BY <4>1, <4>2
    <3> QED
      BY <1>1, <1>2, <1>3, <2>1, <3>1, <3>2 DEF Disk
  <2>2. CASE kind \notin Maps
    <3>1. durable' = durable /\ view' = NoRows /\ phase' \in {"prefetching", "upgrading"}
      BY <2>2 DEF Open, Maps
    <3> QED
      BY <1>1, <1>2, <1>3, <2>2, <3>1 DEF Disk, Fit
  <2> QED
    BY <2>1, <2>2
<1>6. Memory'
  BY <1>1 DEF Open, Memory, memoryVars
<1>7. Requests'
  BY <1>1, NothingAsked DEF Open
<1> QED
  BY <1>4, <1>5, <1>6, <1>7

\* Dropping index tables and creating what is not there.
LEMMA RecreatedFits ==
    ASSUME Sessions, Disk
    PROVE  /\ Fit(kind, TablesNeeded, Recreated(durable)) /\ DOMAIN Recreated(durable) = TablesNeeded
           /\ Recreated(durable)["rows"] = IF "rows" \in DOMAIN durable THEN durable["rows"] ELSE NoRows
           /\ Valid(kind, Recreated(durable)["rows"])
           /\ "leaves" \in TablesNeeded => Recreated(durable)["leaves"] = NoRows
<1> DEFINE tables == Recreated(durable)
<1>1. DOMAIN tables = TablesNeeded /\ tables = [t \in TablesNeeded |-> tables[t]]
  BY DEF Recreated
<1>2. tables["rows"] = IF "rows" \in DOMAIN durable THEN durable["rows"] ELSE NoRows
  BY Needed DEF Recreated
<1>3. "leaves" \in TablesNeeded => tables["leaves"] = NoRows
  BY DEF Recreated
<1>4. Valid(kind, tables["rows"])
  <2>1. "rows" \in DOMAIN durable => durable # NoRows
    BY Empty
  <2>2. "rows" \in DOMAIN durable => Valid(kind, durable["rows"])
    BY <2>1 DEF Disk, Fit
  <2> QED
    BY <1>2, <2>2, Empty
<1> HIDE DEF tables
<1>5. Fit(kind, TablesNeeded, tables)
  BY <1>1, <1>3, <1>4, LeavesThere DEF Fit
<1> QED
  BY <1>1, <1>2, <1>3, <1>4, <1>5 DEF tables

LEMMA FormUpgradeIndexedDb == ASSUME Form, UpgradeIndexedDb PROVE Form'
<1> USE DEF Form
<1>1. /\ phase = "upgrading" /\ ~Running /\ ~InSession /\ requests = << >> /\ ~InSession' /\ ~Running'
      /\ kind \in {"indexedDb", "bundled"} /\ kind \notin Maps
      /\ phase' \in {"prefetching", "closed"} /\ version' = schema
      /\ UNCHANGED <<kind, persistent, schema, view, requests, memoryVars>>
  BY DEF UpgradeIndexedDb, Running, InSession, Requests, Maps
<1>2. TablesNeeded' = TablesNeeded
  BY <1>1 DEF TablesNeeded
<1>3. Sessions'
  BY <1>1 DEF Sessions, InSession, memoryVars
<1>4. Disk'
  <2>1. Fit(kind, TablesNeeded, durable')
    <3>1. Fit(kind, TablesNeeded, [Recreated(durable) EXCEPT !["rows"] = Transformed(Recreated(durable)["rows"])])
      BY RecreatedFits, AfterUpgrade, FitExcept, Needed DEF Sessions
    <3> QED
      BY <3>1, RecreatedFits DEF UpgradeIndexedDb
  <2> QED
    BY <1>1, <1>2, <2>1 DEF Disk
<1>5. Memory'
  BY <1>1 DEF Memory, memoryVars
<1> QED
  BY <1>1, <1>3, <1>4, <1>5, NothingAsked

LEMMA FormStoreVersion == ASSUME Form, StoreVersion PROVE Form'
<1> USE DEF Form
<1>1. /\ phase = "upgrading" /\ ~Running /\ ~InSession /\ requests = << >> /\ ~InSession' /\ ~Running'
      /\ kind = "webSql" /\ kind \notin Maps /\ phase' = "recreating" /\ version' = schema
      /\ UNCHANGED <<kind, persistent, durable, schema, view, requests, memoryVars>>
  BY DEF StoreVersion, Running, InSession, Requests, Maps
<1>2. TablesNeeded' = TablesNeeded
  BY <1>1 DEF TablesNeeded
<1>3. Sessions'
  BY <1>1 DEF Sessions, InSession, memoryVars
<1>4. Disk'
  BY <1>1, <1>2 DEF Disk
<1>5. Memory'
  BY <1>1 DEF Memory, memoryVars
<1> QED
  BY <1>1, <1>3, <1>4, <1>5, NothingAsked

LEMMA FormRecreateTables == ASSUME Form, RecreateTables PROVE Form'
<1> USE DEF Form
<1>1. /\ phase = "recreating" /\ ~Running /\ ~InSession /\ requests = << >> /\ ~InSession' /\ ~Running'
      /\ kind = "webSql" /\ kind \notin Maps /\ phase' = "transforming" /\ durable' = Recreated(durable)
      /\ UNCHANGED <<kind, persistent, version, schema, view, requests, memoryVars>>
  BY DEF RecreateTables, Running, InSession, Requests, Maps, Sessions
<1>2. TablesNeeded' = TablesNeeded
  BY <1>1 DEF TablesNeeded
<1>3. Sessions'
  BY <1>1 DEF Sessions, InSession, memoryVars
<1>4. Disk'
  BY <1>1, <1>2, RecreatedFits DEF Disk
<1>5. Memory'
  BY <1>1 DEF Memory, memoryVars
<1> QED
  BY <1>1, <1>3, <1>4, <1>5, NothingAsked

LEMMA FormTransformRows == ASSUME Form, TransformRows PROVE Form'
<1> USE DEF Form
<1>1. /\ phase = "transforming" /\ ~Running /\ ~InSession /\ requests = << >> /\ ~InSession' /\ ~Running'
      /\ kind = "webSql" /\ kind \notin Maps /\ phase' \in {"prefetching", "closed"}
      /\ UNCHANGED <<kind, persistent, version, schema, view, requests, memoryVars>>
  BY DEF TransformRows, Running, InSession, Requests, Maps, Sessions
<1>2. TablesNeeded' = TablesNeeded
  BY <1>1 DEF TablesNeeded
<1>3. Sessions'
  BY <1>1 DEF Sessions, InSession, memoryVars
<1>4. Disk'
  <2>1. DOMAIN durable = TablesNeeded /\ Fit(kind, TablesNeeded, durable)
    BY <1>1 DEF Disk
  <2>2. Valid(kind, durable["rows"])
    BY <2>1, FitExcept, Needed
  <2>3. Fit(kind, TablesNeeded, [durable EXCEPT !["rows"] = Transformed(durable["rows"])])
    BY <2>1, <2>2, AfterUpgrade, FitExcept, Needed DEF Sessions
  <2>4. Fit(kind, TablesNeeded, durable')
    BY <2>1, <2>3 DEF TransformRows
  <2> QED
    BY <1>1, <1>2, <2>4 DEF Disk
<1>5. Memory'
  BY <1>1 DEF Memory, memoryVars
<1> QED
  BY <1>1, <1>3, <1>4, <1>5, NothingAsked

\* The rows that are stored, by the records that hold them.
LEMMA StoredRowsAre ==
    /\ StoredRows = IF "rows" \in DOMAIN durable THEN RowsOf(kind, durable["rows"]) ELSE NoRows
    /\ StoredRows' = IF "rows" \in DOMAIN durable' THEN RowsOf(kind', durable'["rows"]) ELSE NoRows
BY DEF StoredRows, Unpack, Bundled, RowsOf

LEMMA StoredTable ==
    ASSUME Sessions, Disk
    PROVE  /\ Table(StoredRows) /\ Table(ViewRows)
           /\ "rows" \in DOMAIN durable => Valid(kind, durable["rows"]) /\ DOMAIN durable = TablesNeeded
           /\ "rows" \in DOMAIN view => Valid(kind, view["rows"]) /\ DOMAIN view = TablesNeeded
<1>1. /\ "rows" \in DOMAIN durable => durable # NoRows
      /\ "rows" \in DOMAIN view => view # NoRows
  BY Empty
<1>2. /\ "rows" \in DOMAIN durable => Valid(kind, durable["rows"]) /\ DOMAIN durable = TablesNeeded
      /\ "rows" \in DOMAIN view => Valid(kind, view["rows"]) /\ DOMAIN view = TablesNeeded
  BY <1>1 DEF Disk, Fit
<1> QED
  BY <1>2, StoredRowsAre, PackedAgain, Empty DEF ViewRows

LEMMA ScannedNextIdIs ==
    ASSUME Sessions, Disk, "rows" \in DOMAIN durable
    PROVE  /\ ScannedNextId \in Nat /\ ScannedNextId >= nextId
           /\ kind \in {"indexedDb", "bundled", "webSql"} => \A id \in DOMAIN StoredRows : id < ScannedNextId
<1>1. Valid(kind, durable["rows"]) /\ StoredRows = RowsOf(kind, durable["rows"])
  BY StoredTable, StoredRowsAre
<1>2. MaxRowId \in Nat /\ \A id \in DOMAIN StoredRows : id <= MaxRowId
  BY <1>1, ScannedIds
<1>3. DOMAIN StoredRows \subseteq Nat
  BY StoredTable, IdsAreNat DEF Table
<1>4. nextId \in Nat
  BY DEF Sessions
<1> HIDE DEF MaxRowId
<1> QED
  BY <1>2, <1>3, <1>4 DEF ScannedNextId, Greater

LEMMA PrefetchedIndexIs ==
    ASSUME Sessions, Disk, "rows" \in DOMAIN durable
    PROVE  /\ PrefetchedIndex(StoredRows) = IF persistent THEN Entries(durable["leaves"]) ELSE Pairs(StoredRows)
           /\ PrefetchedIndex(StoredRows) \subseteq Values \X Ids
<1>1. PrefetchedIndex(StoredRows) = IF persistent THEN Entries(durable["leaves"]) ELSE Pairs(StoredRows)
  BY DEF PrefetchedIndex, Entries
<1>2. Pairs(StoredRows) \subseteq Values \X Ids
  BY StoredTable DEF Pairs, Table, Row
<1>3. persistent => durable["leaves"] \in Leaves
  BY StoredTable, FitExcept, Needed DEF Disk
<1>4. \A leaves \in Leaves : Entries(leaves) \subseteq Values \X Ids
  BY Empty DEF Leaves, Entries
<1> QED
  BY <1>1, <1>2, <1>3, <1>4

LEMMA FormPrefetch == ASSUME Form, Prefetch PROVE Form'
<1> USE DEF Form
<1>1. /\ phase = "prefetching" /\ ~Running /\ ~InSession /\ requests = << >> /\ InSession' /\ ~Running'
      /\ phase' = "idle" /\ "rows" \in DOMAIN durable
      /\ UNCHANGED <<kind, persistent, durable, version, schema, view, requests>>
  BY DEF Prefetch, Running, InSession, Requests, storeVars
<1>2. TablesNeeded' = TablesNeeded
  BY <1>1 DEF TablesNeeded
<1>3. Sessions'
  BY <1>1, ScannedNextIdIs DEF Sessions, InSession, Prefetch
<1>4. Disk'
  BY <1>1, <1>2, StoredTable DEF Disk
<1>5. Memory'
  BY <1>1, StoredTable, PrefetchedIndexIs DEF Memory, Prefetch
<1> QED
  BY <1>1, <1>3, <1>4, <1>5, NothingAsked

LEMMA FormScanFails == ASSUME Form, ScanFails PROVE Form'
<1> USE DEF Form
<1>1. /\ phase = "prefetching" /\ ~Running /\ ~InSession /\ requests = << >> /\ ~InSession' /\ ~Running'
      /\ phase' = "closed" /\ "rows" \notin DOMAIN durable
      /\ UNCHANGED <<kind, persistent, durable, version, schema, view, requests, memoryVars>>
  BY DEF ScanFails, Running, InSession, Requests, storeVars
<1>2. TablesNeeded' = TablesNeeded
  BY <1>1 DEF TablesNeeded
<1>3. Sessions'
  BY <1>1 DEF Sessions, InSession, memoryVars
<1>4. Disk'
  BY <1>1, <1>2, Needed DEF Disk
<1>5. Memory'
  BY <1>1 DEF Memory, memoryVars
<1> QED
  BY <1>1, <1>3, <1>4, <1>5, NothingAsked

LEMMA FormCrash == ASSUME Form, Crash PROVE Form'
<1> USE DEF Form
<1>1. /\ ~InSession' /\ ~Running' /\ phase' = "closed" /\ requests' = << >> /\ view' = NoRows
      /\ cache' = NoRows /\ base' = NoRows /\ index' = {} /\ nextId' = 0
      /\ durable' = (IF kind = "memory" THEN NoRows ELSE durable)
      /\ version' = (IF kind = "memory" THEN 0 ELSE version)
      /\ UNCHANGED <<kind, persistent, schema>>
  BY DEF Crash, Running, InSession
<1>2. TablesNeeded' = TablesNeeded
  BY <1>1 DEF TablesNeeded
<1>3. Sessions'
  BY <1>1, StoresBoundsAssumption DEF Sessions, InSession
<1>4. Disk'
  BY <1>1, <1>2 DEF Disk, Fit
<1>5. Memory'
  BY <1>1, Empty DEF Memory
<1> QED
  BY <1>1, <1>3, <1>4, <1>5, NothingAsked

-----------------------------------------------------------------------------
(* Any store: transactions keep the form *)

LEMMA SetRowKeeps ==
    ASSUME Memory, NEW id \in Ids, NEW row \in Row, SetRow(id, row)
    PROVE  Table(cache') /\ index' \subseteq Values \X Ids
<1>1. Table(cache')
  BY DEF SetRow, Memory, Table, With
<1>2. <<row.value, id>> \in Values \X Ids
  BY DEF Row
<1>3. index' \subseteq Values \X Ids
  BY <1>2 DEF SetRow, Memory
<1> QED
  BY <1>1, <1>3

\* A statement of a transaction.
LEMMA FormStatement ==
    ASSUME Form, phase \in {"idle", "active"}, phase' = "active",
           UNCHANGED <<storeVars, view, requests, base>>,
           Table(cache'), index' \subseteq Values \X Ids, nextId' \in Nat
    PROVE  Form'
<1> USE DEF Form
<1>1. /\ ~Running /\ InSession /\ requests = << >> /\ InSession' /\ ~Running'
      /\ UNCHANGED <<kind, persistent, durable, version, schema, view, requests, base>>
  BY DEF Running, InSession, Requests, storeVars
<1>2. TablesNeeded' = TablesNeeded
  BY <1>1 DEF TablesNeeded
<1>3. Sessions'
  BY <1>1 DEF Sessions, InSession
<1>4. Disk'
  BY <1>1, <1>2 DEF Disk
<1>5. Memory'
  BY <1>1 DEF Memory
<1> QED
  BY <1>1, <1>3, <1>4, <1>5, NothingAsked

LEMMA FormInsert == ASSUME Form, Insert PROVE Form'
<1>1. phase \in {"idle", "active"} /\ nextId < MaxId /\ nextId \in Nat
  BY DEF Insert, MayChange, Form, Sessions
<1>2. nextId \in Ids
  BY <1>1, StoresBoundsAssumption DEF Ids
<1>3. PICK value \in Values : SetRow(nextId, NewRow(value))
  BY DEF Insert
<1>4. Table(cache') /\ index' \subseteq Values \X Ids
  BY <1>2, <1>3, SetRowKeeps, NewRowIsRow DEF Form
<1>5. phase' = "active" /\ nextId' = nextId + 1 /\ UNCHANGED <<storeVars, view, requests, base>>
  BY DEF Insert
<1> QED
  BY <1>1, <1>4, <1>5, FormStatement

LEMMA FormUpdate == ASSUME Form, Update PROVE Form'
<1>1. phase \in {"idle", "active"} /\ nextId \in Nat
  BY DEF Update, MayChange, Form, Sessions
<1>2. PICK id \in DOMAIN cache, value \in Values : SetRow(id, NewRow(value))
  BY DEF Update, Found
<1>3. id \in Ids
  BY DEF Form, Memory, Table
<1>4. Table(cache') /\ index' \subseteq Values \X Ids
  BY <1>2, <1>3, SetRowKeeps, NewRowIsRow DEF Form
<1>5. phase' = "active" /\ nextId' = nextId /\ UNCHANGED <<storeVars, view, requests, base>>
  BY DEF Update
<1> QED
  BY <1>1, <1>4, <1>5, FormStatement

LEMMA FormDeleteRow == ASSUME Form, DeleteRow PROVE Form'
<1>1. phase \in {"idle", "active"} /\ nextId \in Nat
  BY DEF DeleteRow, MayChange, Form, Sessions
<1>2. Table(cache') /\ index' \subseteq Values \X Ids
  BY DEF DeleteRow, Form, Memory, Table, Without
<1>3. phase' = "active" /\ nextId' = nextId /\ UNCHANGED <<storeVars, view, requests, base>>
  BY DEF DeleteRow
<1> QED
  BY <1>1, <1>2, <1>3, FormStatement

LEMMA AskedParts ==
    LET A == Asked(Target, index, kind, persistent) IN
    /\ RowsAsked(Target, kind) \subseteq A
    /\ (IF persistent THEN LeavesAsked(index, kind) ELSE {}) \subseteq A
    /\ kind = "localStorage" => Flush("rows") \in A
BY DEF Asked

LEMMA FormCommit == ASSUME Form, Commit PROVE Form'
<1> USE DEF Form
<1>1. /\ phase = "active" /\ ~Running /\ InSession /\ InSession' /\ Running' /\ phase' = "committing"
      /\ view' = (IF kind = "localStorage" THEN view ELSE durable)
      /\ requests' = MergeTableChanges \o MergeIndexChanges \o Flushes
      /\ UNCHANGED <<kind, persistent, durable, version, schema, cache, base, index, nextId>>
  BY DEF Commit, Running, InSession, storeVars, memoryVars
<1>2. TablesNeeded' = TablesNeeded /\ Target' = Target
  BY <1>1 DEF TablesNeeded, Target
<1>3. Sessions'
  BY <1>1 DEF Sessions, InSession
<1>4. kind = "localStorage" => DOMAIN view = TablesNeeded
  BY <1>1 DEF Disk, Maps
<1>5. Disk'
  BY <1>1, <1>2, <1>4 DEF Disk
<1>6. Memory'
  BY <1>1 DEF Memory
<1>7. requests' \in Seq(Asked(Target, index, kind, persistent))
  <2> DEFINE A == Asked(Target, index, kind, persistent)
  <2>1. MergeTableChanges \in Seq(A)
    BY MergeTableChangesAre, AskedParts, SeqWider
  <2>2. MergeIndexChanges \in Seq(A)
    BY MergeIndexChangesAre, AskedParts, SeqWider
  <2>3. Flushes \in Seq(A)
    <3>1. << >> \in Seq(A) /\ (kind = "localStorage" => << Flush("rows") >> \in Seq(A))
      BY AskedParts, SeqOfOne
    <3> HIDE DEF A
    <3> QED
      BY <1>4, <3>1, FlushesAre
  <2> HIDE DEF A
  <2>4. requests' \in Seq(A)
    BY <1>1, <2>1, <2>2, <2>3
  <2> QED
    BY <2>4 DEF A
<1>8. Requests'
  BY <1>1, <1>2, <1>7 DEF Requests
<1> QED
  BY <1>3, <1>5, <1>6, <1>8

LEMMA FormImport == ASSUME Form, Import PROVE Form'
<1> USE DEF Form
<1>1. /\ phase = "idle" /\ ~Running /\ InSession /\ InSession' /\ ~Running' /\ phase' = "import"
      /\ kind # "localStorage" /\ nextId < MaxId /\ nextId' = nextId + 1 /\ nextId \in Nat
      /\ view' = durable /\ requests = << >>
      /\ UNCHANGED <<kind, persistent, durable, version, schema, requests, base>>
  BY DEF Import, Running, InSession, storeVars, Sessions, Requests
<1>2. TablesNeeded' = TablesNeeded
  BY <1>1 DEF TablesNeeded
<1>3. Sessions'
  BY <1>1 DEF Sessions, InSession
<1>4. Disk'
  BY <1>1, <1>2 DEF Disk
<1>5. PICK value \in Values : SetRow(nextId, NewRow(value))
  BY DEF Import
<1>6. nextId \in Ids
  BY <1>1, StoresBoundsAssumption DEF Ids
<1>7. Table(cache') /\ index' \subseteq Values \X Ids
  BY <1>5, <1>6, SetRowKeeps, NewRowIsRow
<1>8. Memory'
  BY <1>1, <1>7 DEF Memory
<1> QED
  BY <1>1, <1>3, <1>4, <1>8, NothingAsked

LEMMA FormIssueImport == ASSUME Form, IssueImport PROVE Form'
<1> USE DEF Form
<1>1. /\ phase = "import" /\ ~Running /\ InSession /\ InSession' /\ Running' /\ phase' = "importing"
      /\ requests' = Imported
      /\ UNCHANGED <<kind, persistent, durable, version, schema, view, cache, base, index, nextId>>
  BY DEF IssueImport, Imported, Running, InSession, storeVars, memoryVars
<1>2. TablesNeeded' = TablesNeeded /\ Target' = Target
  BY <1>1 DEF TablesNeeded, Target
<1>3. Sessions'
  BY <1>1 DEF Sessions, InSession
<1>4. Disk'
  BY <1>1, <1>2 DEF Disk
<1>5. Memory'
  BY <1>1 DEF Memory
<1>6. requests' \in Seq(Asked(Target, index, kind, persistent))
  BY <1>1, ImportPuts, AskedParts, SeqWider
<1>7. Requests'
  BY <1>1, <1>2, <1>6 DEF Requests
<1> QED
  BY <1>3, <1>4, <1>5, <1>7

LEMMA FormExecuteRequest == ASSUME Form, ExecuteRequest PROVE Form'
<1> USE DEF Form
<1> DEFINE A == Asked(Target, index, kind, persistent)
           rest == Tail(requests)
<1>1. /\ Running /\ InSession /\ Running' /\ InSession'
      /\ UNCHANGED <<kind, persistent, version, schema, cache, base, index, nextId, phase>>
  BY Executed DEF ExecuteRequest, Running, InSession, memoryVars
<1>2. TablesNeeded' = TablesNeeded /\ Target' = Target
  BY <1>1 DEF TablesNeeded, Target
<1>3. Sessions'
  BY <1>1 DEF Sessions, InSession
<1>4. Memory'
  BY <1>1 DEF Memory
<1>5. /\ Fit(kind, TablesNeeded, view) /\ DOMAIN view = TablesNeeded
      /\ Fit(kind, TablesNeeded, durable) /\ DOMAIN durable = TablesNeeded
      /\ Valid(kind, view["rows"]) /\ "rows" \in TablesNeeded
      /\ persistent => "leaves" \in TablesNeeded /\ view["leaves"] \in Leaves
  BY <1>1, Needed, FitExcept DEF Disk
<1>6. rest \in Seq(A)
  BY Executed
<1>7. Table(cache) /\ index \subseteq Values \X Ids
  BY DEF Memory
<1>8. /\ Fit(kind, TablesNeeded, view') /\ DOMAIN view' = TablesNeeded
      /\ Fit(kind, TablesNeeded, durable') /\ DOMAIN durable' = TablesNeeded
      /\ requests' \in Seq(A)
  <2> DEFINE F(t, records) == /\ Fit(kind, TablesNeeded, [view EXCEPT ![t] = records])
                              /\ DOMAIN [view EXCEPT ![t] = records] = TablesNeeded
  <2>1. \A records : Valid(kind, records) => F("rows", records)
    BY <1>5, FitExcept
  <2>2. persistent => \A records \in Leaves : F("leaves", records)
    BY <1>5, FitExcept
  <2>3. \A key \in DOMAIN Target : Valid(kind, With(view["rows"], key, Target[key]))
    BY <1>5, <1>7, AfterPut DEF Target
  <2>4. \A keys : Valid(kind, Without(view["rows"], keys))
    BY <1>5, AfterDelete
  <2>5. Valid(kind, NoRows) /\ NoRows \in Leaves
    BY Empty, LeavesThere
  <2>6. persistent => With(view["leaves"], 0, index) \in Leaves
    BY <1>5, <1>7, LeavesThere
  <2>7. << Clear("rows") >> \in Seq(A)
    BY AskedThere, AskedParts, SeqOfOne
  <2>8. persistent => << Clear("leaves") >> \in Seq(A)
    <3>1. persistent => Clear("leaves") \in A
      BY DEF Asked, LeavesAsked
    <3> QED
      BY <3>1, SeqOfOne
  <2>9. ASSUME NEW keys \in SUBSET Ids PROVE DeleteEach("rows", keys) \in Seq(A)
    <3>1. \A key \in keys : {key} \subseteq Nat
      BY IdsAreNat
    <3>2. \A key \in keys : Delete("rows", {key}) \in A
      BY <3>1, AskedThere, AskedParts
    <3> HIDE DEF A
    <3> QED
      BY <3>2, DeleteEachIs, IdsAreFinite DEF Deletes
  <2>10. Fit(kind, TablesNeeded, [durable EXCEPT !["rows"] = view["rows"]])
         /\ DOMAIN [durable EXCEPT !["rows"] = view["rows"]] = TablesNeeded
    BY <1>5, FitExcept
  <2> HIDE DEF A, rest
  <2>11. CASE \E key \in DOMAIN Target :
                /\ view' = [view EXCEPT !["rows"] = With(view["rows"], key, Target[key])]
                /\ requests' = rest /\ durable' = durable
    BY <1>5, <1>6, <2>1, <2>3, <2>11
  <2>12. CASE /\ persistent /\ view' = [view EXCEPT !["leaves"] = With(view["leaves"], 0, index)]
              /\ requests' = rest /\ durable' = durable
    BY <1>5, <1>6, <2>2, <2>6, <2>12
  <2>13. CASE \E keys \in SUBSET Nat :
                /\ view' = [view EXCEPT !["rows"] = Without(view["rows"], keys)]
                /\ requests' = rest /\ durable' = durable
    BY <1>5, <1>6, <2>1, <2>4, <2>13
  <2>14. CASE view' = [view EXCEPT !["rows"] = NoRows] /\ requests' = rest /\ durable' = durable
    BY <1>5, <1>6, <2>1, <2>5, <2>14
  <2>15. CASE /\ persistent /\ view' = [view EXCEPT !["leaves"] = NoRows]
              /\ requests' = rest /\ durable' = durable
    BY <1>5, <1>6, <2>2, <2>5, <2>15
  <2>16. CASE \E keys \in SUBSET Ids :
                /\ view' = view /\ durable' = durable
                /\ \/ requests' = rest \o << Clear("rows") >>
                   \/ requests' = rest \o DeleteEach("rows", keys)
    <3>1. PICK keys \in SUBSET Ids :
                /\ view' = view /\ durable' = durable
                /\ \/ requests' = rest \o << Clear("rows") >>
                   \/ requests' = rest \o DeleteEach("rows", keys)
      BY <2>16
    <3>2. DeleteEach("rows", keys) \in Seq(A)
      BY <2>9
    <3>3. \A more \in Seq(A) : rest \o more \in Seq(A)
      BY <1>6
    <3>4. requests' \in Seq(A)
      BY <2>7, <3>1, <3>2, <3>3, Zenon
    <3> QED
      BY <1>5, <3>1, <3>4
  <2>17. CASE /\ persistent /\ view' = view /\ durable' = durable
              /\ requests' = rest \o << Clear("leaves") >>
    BY <1>5, <1>6, <2>8, <2>17
  <2>18. CASE /\ view' = view /\ requests' = rest
              /\ durable' = [durable EXCEPT !["rows"] = view["rows"]]
    BY <1>5, <1>6, <2>10, <2>18
  <2>19. \/ \E key \in DOMAIN Target :
                /\ view' = [view EXCEPT !["rows"] = With(view["rows"], key, Target[key])]
                /\ requests' = rest /\ durable' = durable
         \/ /\ persistent /\ view' = [view EXCEPT !["leaves"] = With(view["leaves"], 0, index)]
            /\ requests' = rest /\ durable' = durable
         \/ \E keys \in SUBSET Nat :
                /\ view' = [view EXCEPT !["rows"] = Without(view["rows"], keys)]
                /\ requests' = rest /\ durable' = durable
         \/ view' = [view EXCEPT !["rows"] = NoRows] /\ requests' = rest /\ durable' = durable
         \/ /\ persistent /\ view' = [view EXCEPT !["leaves"] = NoRows]
            /\ requests' = rest /\ durable' = durable
         \/ \E keys \in SUBSET Ids :
                /\ view' = view /\ durable' = durable
                /\ \/ requests' = rest \o << Clear("rows") >>
                   \/ requests' = rest \o DeleteEach("rows", keys)
         \/ /\ persistent /\ view' = view /\ durable' = durable
            /\ requests' = rest \o << Clear("leaves") >>
         \/ /\ view' = view /\ requests' = rest
            /\ durable' = [durable EXCEPT !["rows"] = view["rows"]]
    BY Executed, Zenon DEF rest
  <2> QED
    BY <2>11, <2>12, <2>13, <2>14, <2>15, <2>16, <2>17, <2>18, <2>19, Zenon
<1>9. Disk'
  <2>1. kind' = kind /\ InSession' /\ Running'
    BY <1>1
  <2> QED
    BY <1>2, <1>8, <2>1 DEF Disk, InSession, Running
<1>10. Requests'
  BY <1>1, <1>2, <1>8 DEF Requests
<1> QED
  BY <1>3, <1>4, <1>9, <1>10

LEMMA FormComplete == ASSUME Form, Complete PROVE Form'
<1> USE DEF Form
<1>1. /\ Running /\ InSession /\ InSession' /\ ~Running' /\ phase' = "idle" /\ requests' = << >>
      /\ durable' \in {durable, view} /\ base' = cache
      /\ UNCHANGED <<kind, persistent, version, schema, view, cache, index, nextId>>
  BY DEF Complete, Running, InSession
<1>2. TablesNeeded' = TablesNeeded
  BY <1>1 DEF TablesNeeded
<1>3. Sessions'
  BY <1>1 DEF Sessions, InSession
<1>4. Disk'
  <2>1. /\ Fit(kind, TablesNeeded, durable) /\ DOMAIN durable = TablesNeeded
        /\ Fit(kind, TablesNeeded, view) /\ DOMAIN view = TablesNeeded
    BY <1>1 DEF Disk
  <2>2. Fit(kind, TablesNeeded, durable') /\ DOMAIN durable' = TablesNeeded
    <3>1. CASE durable' = durable
      BY <2>1, <3>1
    <3>2. CASE durable' = view
      BY <2>1, <3>2
    <3> QED
      BY <1>1, <3>1, <3>2
  <2>3. /\ Fit(kind, TablesNeeded, view') /\ DOMAIN view' = TablesNeeded
    BY <1>1, <2>1
  <2> QED
    BY <1>1, <1>2, <2>2, <2>3 DEF Disk
<1>5. Memory'
  BY <1>1 DEF Memory
<1> QED
  BY <1>1, <1>3, <1>4, <1>5, NothingAsked

LEMMA RollbackKeeps ==
    ASSUME Memory, InSession, RollbackMemory
    PROVE  Table(cache') /\ Table(base') /\ index' \subseteq Values \X Ids
<1>1. CASE phase = "importing"
  BY <1>1 DEF RollbackMemory, Memory
<1>2. CASE phase # "importing"
  <2>1. \A id \in DOMAIN base : <<base[id].value, id>> \in Values \X Ids
    BY DEF Memory, Table, Row
  <2> QED
    BY <1>2, <2>1 DEF RollbackMemory, Memory
<1> QED
  BY <1>1, <1>2

LEMMA FormRollback ==
    ASSUME Form, InSession, RollbackMemory, phase' = "idle", requests' = << >>,
           UNCHANGED <<kind, persistent, version, schema, nextId, view>>,
           durable' = durable \/ (Running /\ durable' = view)
    PROVE  Form'
<1> USE DEF Form
<1>1. InSession' /\ ~Running'
  BY DEF Running, InSession
<1>2. TablesNeeded' = TablesNeeded
  BY DEF TablesNeeded
<1>3. Sessions'
  BY <1>1 DEF Sessions, InSession
<1>4. Disk'
  <2>1. Fit(kind, TablesNeeded, durable) /\ DOMAIN durable = TablesNeeded /\ Fit(kind, TablesNeeded, view)
    BY DEF Disk
  <2>2. Running => DOMAIN view = TablesNeeded
    BY DEF Disk
  <2>3. Fit(kind, TablesNeeded, durable') /\ DOMAIN durable' = TablesNeeded
    <3>1. CASE durable' = durable
      BY <2>1, <3>1
    <3>2. CASE Running /\ durable' = view
      BY <2>1, <2>2, <3>2
    <3> QED
      BY <3>1, <3>2
  <2>4. kind \in Maps => DOMAIN view = TablesNeeded
    BY DEF Disk, InSession
  <2> QED
    BY <1>1, <1>2, <2>1, <2>3, <2>4 DEF Disk
<1>5. Memory'
  BY <1>1, RollbackKeeps DEF Memory
<1> QED
  BY <1>1, <1>3, <1>4, <1>5, NothingAsked

\* What a refusal may do.
LEMMA Refused ==
    ASSUME Sessions, Refuse
    PROVE  /\ Running /\ InSession /\ RollbackMemory /\ phase' = "idle" /\ requests' = << >>
           /\ UNCHANGED <<kind, persistent, version, schema, nextId, rejected, view>>
           /\ \/ /\ kind \in {"indexedDb", "bundled"} /\ durable' = durable
                 /\ torn' = IF phase = "importing" THEN "import" ELSE torn
              \/ /\ kind = "webSql" /\ durable' \in {durable, view}
                 /\ torn' = IF phase = "importing" THEN "import"
                            ELSE IF durable' # durable THEN "statements kept" ELSE torn
              \/ /\ kind = "localStorage" /\ durable' = durable /\ torn' = "changes kept"
                 /\ phase # "importing"
<1> DEFINE Outcome ==
      CASE kind \in {"indexedDb", "bundled"} ->
              UNCHANGED <<durable, view>> /\ torn' = (IF phase = "importing" THEN "import" ELSE torn)
         [] kind = "webSql" ->
              /\ requests # << >>
              /\ durable' \in {durable, view}
              /\ torn' = IF phase = "importing" THEN "import"
                         ELSE IF durable' # durable THEN "statements kept" ELSE torn
              /\ UNCHANGED view
         [] kind = "localStorage" ->
              /\ requests # << >> /\ Head(requests).op = "flush"
              /\ torn' = "changes kept"
              /\ UNCHANGED <<durable, view>>
         [] OTHER -> FALSE
<1>1. Outcome
  BY DEF Refuse
<1>2. /\ Running /\ RollbackMemory /\ phase' = "idle" /\ requests' = << >>
      /\ UNCHANGED <<kind, persistent, version, schema, nextId, rejected>>
  BY DEF Refuse
<1>3. InSession
  BY <1>2 DEF Running, InSession
<1>4. kind \in {"memory", "indexedDb", "bundled", "webSql", "localStorage"}
  BY KindsAssumption DEF Sessions
<1>5. CASE kind \in {"indexedDb", "bundled"}
  <2>1. UNCHANGED <<durable, view>> /\ torn' = (IF phase = "importing" THEN "import" ELSE torn)
    BY <1>1, <1>5
  <2> QED
    BY <1>2, <1>3, <1>5, <2>1
<1>6. CASE kind = "webSql"
  <2>1. /\ durable' \in {durable, view}
        /\ torn' = IF phase = "importing" THEN "import"
                   ELSE IF durable' # durable THEN "statements kept" ELSE torn
        /\ UNCHANGED view
    BY <1>1, <1>6
  <2> QED
    BY <1>2, <1>3, <1>6, <2>1
<1>7. CASE kind = "localStorage"
  <2>1. torn' = "changes kept" /\ UNCHANGED <<durable, view>>
    BY <1>1, <1>7
  <2> QED
    BY <1>2, <1>3, <1>7, <2>1 DEF Sessions
<1>8. CASE kind = "memory"
  BY <1>1, <1>8
<1> QED
  BY <1>4, <1>5, <1>6, <1>7, <1>8

LEMMA FormRefuse == ASSUME Form, Refuse PROVE Form'
BY Refused, FormRollback DEF Form

LEMMA FormAbandon == ASSUME Form, Abandon PROVE Form'
<1>1. /\ InSession /\ RollbackMemory /\ phase' = "idle" /\ requests' = requests /\ ~Running
      /\ UNCHANGED <<kind, persistent, version, schema, nextId, view, durable>>
  BY DEF Abandon, InSession, Running, storeVars
<1>2. requests' = << >>
  BY <1>1 DEF Form, Requests
<1> QED
  BY <1>1, <1>2, FormRollback

LEMMA FormStep == Form /\ [Next]_vars => Form'
<1> SUFFICES ASSUME Form, [Next]_vars PROVE Form'
  OBVIOUS
<1>1. CASE UNCHANGED vars
  <2>1. TablesNeeded' = TablesNeeded /\ Target' = Target /\ InSession' = InSession /\ Running' = Running
    BY <1>1 DEF vars, TablesNeeded, Target, InSession, Running
  <2> QED
    BY <1>1, <2>1 DEF vars, Form, Sessions, Disk, Memory, Requests, InSession
<1> QED
  BY <1>1, FormOpen, FormUpgradeIndexedDb, FormStoreVersion, FormRecreateTables, FormTransformRows,
     FormPrefetch, FormScanFails, FormInsert, FormUpdate, FormDeleteRow, FormCommit, FormImport,
     FormIssueImport, FormExecuteRequest, FormComplete, FormRefuse, FormAbandon, FormCrash DEF Next

-----------------------------------------------------------------------------
(* Any store: where rows come from *)

LEMMA ViewRowsAre ==
    /\ ViewRows = IF "rows" \in DOMAIN view THEN RowsOf(kind, view["rows"]) ELSE NoRows
    /\ ViewRows' = IF "rows" \in DOMAIN view' THEN RowsOf(kind', view'["rows"]) ELSE NoRows
BY DEF ViewRows

\* A request adds rows of the cache, or none.
LEMMA ExecutedRows ==
    ASSUME Form, ExecuteRequest
    PROVE  /\ RowsFrom(ViewRows', ViewRows, cache)
           /\ StoredRows' \in {StoredRows, ViewRows}
<1> USE DEF Form
<1>1. /\ Running /\ InSession /\ kind' = kind
  BY Executed DEF ExecuteRequest, Running, InSession
<1>2. /\ Fit(kind, TablesNeeded, view) /\ DOMAIN view = TablesNeeded
      /\ Fit(kind, TablesNeeded, durable) /\ DOMAIN durable = TablesNeeded
      /\ Valid(kind, view["rows"]) /\ "rows" \in TablesNeeded
      /\ persistent => "leaves" \in TablesNeeded
  BY <1>1, Needed, FitExcept DEF Disk
<1>3. ViewRows = RowsOf(kind, view["rows"]) /\ StoredRows = RowsOf(kind, durable["rows"])
  BY <1>2, ViewRowsAre, StoredRowsAre
<1>4. ASSUME NEW records, view' = [view EXCEPT !["rows"] = records]
      PROVE  ViewRows' = RowsOf(kind, records)
  <2>1. "rows" \in DOMAIN view' /\ view'["rows"] = records
    BY <1>2, <1>4
  <2> QED
    BY <1>1, <2>1, ViewRowsAre
<1>5. ASSUME view' = view \/ (persistent /\ \E records : view' = [view EXCEPT !["leaves"] = records])
      PROVE  ViewRows' = ViewRows
  <2>1. "rows" \in DOMAIN view' /\ view'["rows"] = view["rows"]
    BY <1>2, <1>5
  <2> QED
    BY <1>1, <1>3, <2>1, ViewRowsAre
<1>6. durable' = durable => StoredRows' = StoredRows
  BY <1>1, StoredRowsAre
<1>7. RowsFrom(ViewRows, ViewRows, cache) /\ RowsFrom(NoRows, ViewRows, cache)
  BY Empty DEF RowsFrom
<1>8. Table(cache)
  BY DEF Memory
<1>9. CASE \E key \in DOMAIN Target :
             /\ view' = [view EXCEPT !["rows"] = With(view["rows"], key, Target[key])]
             /\ durable' = durable
  <2>1. PICK key \in DOMAIN Target : view' = [view EXCEPT !["rows"] = With(view["rows"], key, Target[key])]
    BY <1>9
  <2>2. RowsFrom(RowsOf(kind, With(view["rows"], key, Target[key])), ViewRows, cache)
    BY <1>2, <1>3, <1>8, AfterPut DEF Target
  <2>3. ViewRows' = RowsOf(kind, With(view["rows"], key, Target[key]))
    BY <1>4, <2>1
  <2> QED
    BY <1>6, <1>9, <2>2, <2>3
<1>10. CASE \E keys \in SUBSET Nat :
             /\ view' = [view EXCEPT !["rows"] = Without(view["rows"], keys)]
             /\ durable' = durable
  <2>1. PICK keys \in SUBSET Nat : view' = [view EXCEPT !["rows"] = Without(view["rows"], keys)]
    BY <1>10
  <2>2. RowsFrom(RowsOf(kind, Without(view["rows"], keys)), ViewRows, cache)
    BY <1>2, <1>3, AfterDelete
  <2>3. ViewRows' = RowsOf(kind, Without(view["rows"], keys))
    BY <1>4, <2>1
  <2> QED
    BY <1>6, <1>10, <2>2, <2>3
<1>11. CASE view' = [view EXCEPT !["rows"] = NoRows] /\ durable' = durable
  <2>1. ViewRows' = NoRows
    BY <1>4, <1>11, Empty
  <2> QED
    BY <1>6, <1>7, <1>11, <2>1
<1>12. CASE /\ durable' = durable
            /\ view' = view \/ (persistent /\ \E records : view' = [view EXCEPT !["leaves"] = records])
  BY <1>5, <1>6, <1>7, <1>12
<1>13. CASE view' = view /\ durable' = [durable EXCEPT !["rows"] = view["rows"]]
  <2>1. "rows" \in DOMAIN durable' /\ durable'["rows"] = view["rows"]
    BY <1>2, <1>13
  <2>2. StoredRows' = ViewRows
    BY <1>1, <1>3, <2>1, StoredRowsAre
  <2> QED
    BY <1>5, <1>7, <1>13, <2>2
<1>14. \/ \E key \in DOMAIN Target :
             /\ view' = [view EXCEPT !["rows"] = With(view["rows"], key, Target[key])]
             /\ durable' = durable
       \/ \E keys \in SUBSET Nat :
             /\ view' = [view EXCEPT !["rows"] = Without(view["rows"], keys)]
             /\ durable' = durable
       \/ view' = [view EXCEPT !["rows"] = NoRows] /\ durable' = durable
       \/ /\ durable' = durable
          /\ view' = view \/ (persistent /\ \E records : view' = [view EXCEPT !["leaves"] = records])
       \/ view' = view /\ durable' = [durable EXCEPT !["rows"] = view["rows"]]
  BY Executed, Zenon
<1> QED
  BY <1>9, <1>10, <1>11, <1>12, <1>13, <1>14, Zenon

\* The steps of a session that neither open it nor change a row.
LEMMA SessionSources ==
    ASSUME Form, Commit \/ IssueImport \/ ExecuteRequest \/ Complete \/ Refuse \/ Abandon
    PROVE  /\ InSession /\ InSession' /\ UNCHANGED <<kind, persistent, version, schema, nextId, rejected>>
           /\ cache' \in {cache, base} /\ base' \in {cache, base}
           /\ StoredRows' \in {StoredRows, ViewRows}
           /\ RowsFrom(ViewRows', ViewRows, cache) \/ ViewRows' = StoredRows
<1> USE DEF Form
<1>1. RowsFrom(ViewRows, ViewRows, cache)
  BY DEF RowsFrom
<1>2. /\ kind' = kind /\ durable' = durable => StoredRows' = StoredRows
      /\ kind' = kind /\ durable' = view => StoredRows' = ViewRows
      /\ kind' = kind /\ view' = view => ViewRows' = ViewRows
      /\ kind' = kind /\ view' = durable => ViewRows' = StoredRows
  BY StoredRowsAre, ViewRowsAre
<1>3. CASE Commit
  <2>1. /\ InSession /\ InSession' /\ UNCHANGED <<kind, persistent, version, schema, nextId, rejected>>
        /\ cache' = cache /\ base' = base /\ durable' = durable /\ view' \in {view, durable}
    BY <1>3 DEF Commit, InSession, storeVars, memoryVars
  <2> QED
    BY <1>1, <1>2, <2>1
<1>4. CASE IssueImport
  <2>1. /\ InSession /\ InSession' /\ UNCHANGED <<kind, persistent, version, schema, nextId, rejected>>
        /\ cache' = cache /\ base' = base /\ durable' = durable /\ view' = view
    BY <1>4 DEF IssueImport, InSession, storeVars, memoryVars
  <2> QED
    BY <1>1, <1>2, <2>1
<1>5. CASE ExecuteRequest
  <2>1. /\ InSession /\ InSession' /\ UNCHANGED <<kind, persistent, version, schema, nextId, rejected>>
        /\ cache' = cache /\ base' = base
    BY <1>5 DEF ExecuteRequest, InSession, Running, memoryVars
  <2> QED
    BY <1>5, <2>1, ExecutedRows
<1>6. CASE Complete
  <2>1. /\ InSession /\ InSession' /\ UNCHANGED <<kind, persistent, version, schema, nextId, rejected>>
        /\ cache' = cache /\ base' = cache /\ durable' \in {view, durable} /\ view' = view
    BY <1>6 DEF Complete, InSession, Running
  <2> QED
    BY <1>1, <1>2, <2>1
<1>7. ASSUME RollbackMemory PROVE cache' \in {cache, base} /\ base' \in {cache, base}
  BY <1>7 DEF RollbackMemory
<1>8. CASE Refuse
  <2>1. /\ InSession /\ phase' = "idle" /\ UNCHANGED <<kind, persistent, version, schema, nextId, rejected>>
        /\ RollbackMemory /\ durable' \in {view, durable} /\ view' = view
    BY <1>8, Refused
  <2>2. InSession'
    BY <2>1 DEF InSession
  <2> QED
    BY <1>1, <1>2, <1>7, <2>1, <2>2
<1>9. CASE Abandon
  <2>1. /\ InSession /\ InSession' /\ UNCHANGED <<kind, persistent, version, schema, nextId, rejected>>
        /\ RollbackMemory /\ durable' = durable /\ view' = view
    BY <1>9 DEF Abandon, InSession, storeVars
  <2> QED
    BY <1>1, <1>2, <1>7, <2>1
<1> QED
  BY <1>3, <1>4, <1>5, <1>6, <1>8, <1>9

\* The statements of a transaction, and an import, before anything is asked of the store.
LEMMA StatementSources ==
    ASSUME Form, Insert \/ Update \/ DeleteRow \/ Import
    PROVE  /\ InSession /\ InSession' /\ UNCHANGED <<kind, persistent, durable, version, schema, rejected, torn, unindexed, requests>>
           /\ base' = base /\ StoredRows' = StoredRows /\ ViewRows' \in {ViewRows, StoredRows}
           /\ nextId \in Nat /\ nextId' \in {nextId, nextId + 1}
           /\ \A id \in DOMAIN cache' :
                \/ id \in DOMAIN cache /\ cache'[id] = cache[id]
                \/ id \in DOMAIN cache /\ cache'[id].format = schema
                \/ id = nextId /\ nextId' = nextId + 1 /\ cache'[id].format = schema
<1> USE DEF Form
<1>1. /\ kind' = kind /\ durable' = durable => StoredRows' = StoredRows
      /\ kind' = kind /\ view' = view => ViewRows' = ViewRows
      /\ kind' = kind /\ view' = durable => ViewRows' = StoredRows
  BY StoredRowsAre, ViewRowsAre
<1>2. /\ InSession /\ InSession' /\ UNCHANGED <<kind, persistent, durable, version, schema, rejected, torn, unindexed, requests>>
      /\ base' = base /\ view' \in {view, durable} /\ nextId \in Nat
  BY DEF Insert, Update, DeleteRow, Import, MayChange, InSession, storeVars, Sessions
<1>3. ASSUME NEW id, NEW value, SetRow(id, NewRow(value)), NEW other \in DOMAIN cache'
      PROVE  \/ other \in DOMAIN cache /\ cache'[other] = cache[other]
             \/ other = id /\ cache'[other].format = schema
  <2>1. cache' = With(cache, id, NewRow(value)) /\ NewRow(value).format = schema
    BY <1>3 DEF SetRow, NewRow
  <2> QED
    BY <1>3, <2>1 DEF With
<1>4. CASE Insert \/ Import
  <2>1. nextId' = nextId + 1 /\ \E value \in Values : SetRow(nextId, NewRow(value))
    BY <1>4 DEF Insert, Import
  <2> QED
    BY <1>1, <1>2, <1>3, <2>1
<1>5. CASE Update
  <2>1. nextId' = nextId /\ \E id \in DOMAIN cache, value \in Values : SetRow(id, NewRow(value))
    BY <1>5 DEF Update, Found
  <2> QED
    BY <1>1, <1>2, <1>3, <2>1
<1>6. CASE DeleteRow
  <2>1. nextId' = nextId /\ \E id \in DOMAIN cache : cache' = Without(cache, {id})
    BY <1>6 DEF DeleteRow, Found
  <2>2. \A id \in DOMAIN cache' : id \in DOMAIN cache /\ cache'[id] = cache[id]
    BY <2>1 DEF Without
  <2> QED
    BY <1>1, <1>2, <2>1, <2>2
<1> QED
  BY <1>4, <1>5, <1>6

\* Opening, closing and everything between: no row is in memory, before or after.
Outside == Open \/ UpgradeIndexedDb \/ StoreVersion \/ RecreateTables \/ TransformRows \/ ScanFails

LEMMA NextIs ==
    ASSUME [Next]_vars
    PROVE  \/ Outside \/ Prefetch \/ Crash
           \/ Insert \/ Update \/ DeleteRow \/ Import
           \/ Commit \/ IssueImport \/ ExecuteRequest \/ Complete \/ Refuse \/ Abandon
           \/ UNCHANGED vars
BY DEF Next, Outside

LEMMA OutsideIs ==
    ASSUME Form, Outside
    PROVE  /\ ~InSession /\ ~InSession' /\ UNCHANGED <<kind, persistent, torn, unindexed, requests, memoryVars>>
           /\ kind \in Maps => Open \/ ScanFails
<1>1. ~InSession /\ ~InSession' /\ UNCHANGED <<kind, persistent, torn, unindexed, requests, memoryVars>>
  BY DEF Outside, Open, UpgradeIndexedDb, StoreVersion, RecreateTables, TransformRows, ScanFails,
         InSession, storeVars
<1>2. kind \in Maps => Open \/ ScanFails
  BY DEF Outside, UpgradeIndexedDb, StoreVersion, RecreateTables, TransformRows, Maps, Form, Sessions
<1> QED
  BY <1>1, <1>2

\* LocalStorage and Memory load what is there; the others leave it where it is.
LEMMA OpenIs ==
    ASSUME Form, Open
    PROVE  /\ StoredRows' = StoredRows
           /\ kind \notin Maps => view' = NoRows /\ durable' = durable /\ version' = version
           /\ kind \in Maps => view' = durable' /\ version' = schema' /\ DOMAIN durable' = TablesNeeded
           /\ durable' # durable =>
                durable = NoRows /\ durable' = [t \in TablesNeeded |-> NoRows] /\ kind \in Maps
<1> USE DEF Form
<1>1. kind' = kind
  BY DEF Open
<1>2. CASE kind \in Maps
  <2>1. durable' = LoadedTables /\ view' = durable' /\ version' = schema'
    BY <1>2 DEF Open, Maps
  <2>2. CASE DOMAIN durable = {}
    <3>1. durable = NoRows
      BY <2>2, Needed DEF Disk, Fit
    <3>2. durable' = [t \in TablesNeeded |-> NoRows]
      BY <2>1, <2>2 DEF LoadedTables
    <3>3. StoredRows = NoRows /\ StoredRows' = NoRows /\ DOMAIN durable' = TablesNeeded
      <4>1. "rows" \in DOMAIN durable' /\ durable'["rows"] = NoRows
        BY <3>2, Needed
      <4>2. "rows" \notin DOMAIN durable
        BY <3>1, Empty
      <4> QED
        BY <1>1, <3>2, <4>1, <4>2, StoredRowsAre, Empty
    <3> QED
      BY <1>2, <2>1, <3>1, <3>2, <3>3
  <2>3. CASE DOMAIN durable # {}
    <3>1. durable' = durable /\ durable # NoRows
      BY <2>1, <2>3, Empty DEF LoadedTables
    <3>2. DOMAIN durable = TablesNeeded
      BY <3>1 DEF Disk, Fit
    <3> QED
      BY <1>1, <1>2, <2>1, <3>1, <3>2, StoredRowsAre
  <2> QED
    BY <2>2, <2>3
<1>3. CASE kind \notin Maps
  <2>1. view' = NoRows /\ durable' = durable /\ version' = version
    BY <1>3 DEF Open, Maps
  <2> QED
    BY <1>1, <1>3, <2>1, StoredRowsAre
<1> QED
  BY <1>2, <1>3

LEMMA CrashIs ==
    ASSUME Form, Crash
    PROVE  /\ ~InSession' /\ UNCHANGED <<kind, persistent, schema, rejected, torn>>
           /\ view' = NoRows /\ ViewRows' = NoRows /\ cache' = NoRows /\ base' = NoRows
           /\ kind = "memory" => durable' = NoRows /\ StoredRows' = NoRows /\ version' = 0
           /\ kind # "memory" => durable' = durable /\ StoredRows' = StoredRows /\ version' = version
                                /\ unindexed' = unindexed
<1>1. /\ ~InSession' /\ UNCHANGED <<kind, persistent, schema, rejected, torn>>
      /\ view' = NoRows /\ cache' = NoRows /\ base' = NoRows
      /\ kind = "memory" => durable' = NoRows /\ version' = 0
      /\ kind # "memory" => durable' = durable /\ version' = version /\ unindexed' = unindexed
  BY DEF Crash, InSession
<1>2. ViewRows' = NoRows
  BY <1>1, ViewRowsAre, Empty
<1>3. kind = "memory" => StoredRows' = NoRows
  BY <1>1, StoredRowsAre, Empty
<1>4. kind # "memory" => StoredRows' = StoredRows
  BY <1>1, StoredRowsAre
<1> QED
  BY <1>1, <1>2, <1>3, <1>4

LEMMA PrefetchIs ==
    ASSUME Form, Prefetch
    PROVE  /\ ~InSession /\ InSession' /\ phase' = "idle" /\ version = schema /\ "rows" \in DOMAIN durable
           /\ UNCHANGED <<kind, persistent, durable, version, schema, view, requests, rejected, torn, unindexed>>
           /\ cache' = StoredRows /\ base' = StoredRows
           /\ StoredRows' = StoredRows /\ ViewRows' = ViewRows
           /\ kind \notin Maps => ViewRows = NoRows
<1>1. /\ ~InSession /\ InSession' /\ phase' = "idle" /\ version = schema /\ "rows" \in DOMAIN durable
      /\ UNCHANGED <<kind, persistent, durable, version, schema, view, requests, rejected, torn, unindexed>>
      /\ cache' = StoredRows /\ base' = StoredRows
  BY DEF Prefetch, InSession, storeVars, Form, Sessions
<1>2. kind \notin Maps => ViewRows = NoRows
  BY <1>1, ViewRowsAre, Empty DEF Form, Disk
<1> QED
  BY <1>1, <1>2, StoredRowsAre, ViewRowsAre

LEMMA Unmoved ==
    ASSUME UNCHANGED vars
    PROVE  /\ UNCHANGED <<kind, persistent, durable, version, schema, view, requests, cache, base, index,
                          nextId, phase, rejected, torn, unindexed>>
           /\ InSession' = InSession /\ Running' = Running /\ Target' = Target
           /\ StoredRows' = StoredRows /\ ViewRows' = ViewRows
<1>1. UNCHANGED <<kind, persistent, durable, version, schema, view, requests, cache, base, index,
                  nextId, phase, rejected, torn, unindexed>>
  BY DEF vars
<1> QED
  BY <1>1, StoredRowsAre, ViewRowsAre DEF InSession, Running, Target

-----------------------------------------------------------------------------
(* Any store: ids are below the next one *)

LEMMA IdsBelowInit == Init => IdsBelow
<1> SUFFICES ASSUME Init PROVE IdsBelow
  OBVIOUS
<1>1. ~InSession /\ durable = NoRows /\ view = NoRows
  BY DEF Init, InSession
<1> QED
  BY <1>1, StoredRowsAre, ViewRowsAre, Empty DEF IdsBelow

LEMMA BelowNothing == \A n : Below(NoRows, n)
BY Empty DEF Below

LEMMA BelowFrom ==
    ASSUME NEW rows, NEW a, NEW b, NEW n, RowsFrom(rows, a, b), Below(a, n), Below(b, n)
    PROVE  Below(rows, n)
BY DEF RowsFrom, Below

LEMMA IdsBelowStep == Form /\ Form' /\ IdsBelow /\ [Next]_vars => IdsBelow'
<1> SUFFICES ASSUME Form, Form', IdsBelow, [Next]_vars PROVE IdsBelow'
  OBVIOUS
<1>1. CASE Outside
  <2>1. ~InSession /\ ~InSession' /\ kind' = kind
    BY <1>1, OutsideIs
  <2>2. ASSUME kind = "memory" PROVE StoredRows' = NoRows /\ ViewRows' = NoRows
    <3>1. StoredRows = NoRows /\ ViewRows = NoRows
      BY <2>1, <2>2 DEF IdsBelow
    <3>2. CASE Open
      <4>1. view' = durable' /\ StoredRows' = StoredRows
        BY <2>2, <3>2, OpenIs DEF Maps
      <4>2. ViewRows' = StoredRows'
        BY <2>1, <4>1, StoredRowsAre, ViewRowsAre
      <4> QED
        BY <3>1, <4>1, <4>2
    <3>3. CASE ScanFails
      <4>1. durable' = durable /\ view' = view
        BY <3>3 DEF ScanFails, storeVars
      <4> QED
        BY <2>1, <3>1, <4>1, StoredRowsAre, ViewRowsAre
    <3> QED
      BY <1>1, <2>2, <3>2, <3>3, OutsideIs DEF Maps
  <2> QED
    BY <2>1, <2>2 DEF IdsBelow
<1>2. CASE Prefetch
  <2>1. ASSUME kind # "localStorage"
        PROVE  Below(StoredRows, nextId') /\ Below(ViewRows, nextId')
    <3>1. CASE kind = "memory"
      BY <1>2, <3>1, PrefetchIs, BelowNothing DEF IdsBelow
    <3>2. CASE kind # "memory"
      <4>1. kind \in {"indexedDb", "bundled", "webSql"} /\ kind \notin Maps
        BY <2>1, <3>2, KindsAssumption DEF Form, Sessions, Maps
      <4>2. nextId' = ScannedNextId
        BY <1>2 DEF Prefetch
      <4>3. \A id \in DOMAIN StoredRows : id < nextId'
        BY <1>2, <4>1, <4>2, PrefetchIs, ScannedNextIdIs DEF Form
      <4> QED
        BY <1>2, <4>1, <4>3, PrefetchIs, BelowNothing DEF Below
    <3> QED
      BY <3>1, <3>2
  <2> QED
    BY <1>2, <2>1, PrefetchIs DEF IdsBelow
<1>3. CASE Crash
  BY <1>3, CrashIs DEF IdsBelow
<1>4. CASE Insert \/ Update \/ DeleteRow \/ Import
  <2>1. /\ InSession /\ InSession' /\ kind' = kind
        /\ base' = base /\ StoredRows' = StoredRows /\ ViewRows' \in {ViewRows, StoredRows}
        /\ nextId \in Nat /\ nextId' \in {nextId, nextId + 1}
        /\ \A id \in DOMAIN cache' : id \in DOMAIN cache \/ (id = nextId /\ nextId' = nextId + 1)
    BY <1>4, StatementSources
  <2>2. ASSUME kind # "localStorage"
        PROVE  Below(cache', nextId') /\ Below(base', nextId') /\ Below(StoredRows', nextId') /\ Below(ViewRows', nextId')
    <3>1. Below(cache, nextId) /\ Below(base, nextId) /\ Below(StoredRows, nextId) /\ Below(ViewRows, nextId)
      BY <2>1, <2>2 DEF IdsBelow
    <3>2. ASSUME NEW rows, Table(rows), Below(rows, nextId) PROVE Below(rows, nextId')
      <4>1. \A id \in DOMAIN rows : id \in Nat
        BY <3>2, IdsAreNat DEF Table
      <4> QED
        BY <2>1, <3>2, <4>1 DEF Below
    <3>3. Table(cache) /\ Table(base) /\ Table(StoredRows) /\ Table(ViewRows)
      BY StoredTable DEF Form, Memory
    <3>4. Below(cache, nextId') /\ Below(base, nextId') /\ Below(StoredRows, nextId') /\ Below(ViewRows, nextId')
      BY <3>1, <3>2, <3>3
    <3>5. Below(cache', nextId')
      BY <2>1, <3>4 DEF Below
    <3> QED
      BY <2>1, <3>4, <3>5
  <2> QED
    BY <2>1, <2>2 DEF IdsBelow
<1>5. CASE Commit \/ IssueImport \/ ExecuteRequest \/ Complete \/ Refuse \/ Abandon
  <2>1. /\ InSession /\ InSession' /\ kind' = kind /\ nextId' = nextId
        /\ cache' \in {cache, base} /\ base' \in {cache, base}
        /\ StoredRows' \in {StoredRows, ViewRows}
        /\ RowsFrom(ViewRows', ViewRows, cache) \/ ViewRows' = StoredRows
    BY <1>5, SessionSources
  <2> QED
    BY <2>1, BelowFrom DEF IdsBelow
<1>6. CASE UNCHANGED vars
  BY <1>6, Unmoved DEF IdsBelow
<1> QED
  BY <1>1, <1>2, <1>3, <1>4, <1>5, <1>6, NextIs

\* Form is an invariant, whatever becomes of a transaction.
LEMMA FormHolds == Spec => []Form
<1>1. Init => Form
  BY FormInit
<1>2. Form /\ [Next]_vars => Form'
  BY FormStep
<1> QED
  BY <1>1, <1>2, PTL DEF Spec

LEMMA IdsBelowHolds == Spec => []IdsBelow
<1>1. Init => IdsBelow
  BY IdsBelowInit
<1>2. Form /\ Form' /\ IdsBelow /\ [Next]_vars => IdsBelow'
  BY IdsBelowStep
<1> QED
  BY <1>1, <1>2, FormHolds, PTL DEF Spec

\* No id is given to a row while a stored row has it, in this session or a later one,
\* whatever was refused, torn or cut off before: Row.setNextIdIfGreater is told of
\* every id, and what is stored comes from rows that had one below it.
THEOREM IdsAreFresh == Spec => []FreshIds
<1>1. IdsBelow => FreshIds
  BY DEF IdsBelow, FreshIds, Below, InSession
<1> QED
  BY <1>1, IdsBelowHolds, PTL

-----------------------------------------------------------------------------
(* Any store: rows have the format of the schema they are stored under *)

LEMMA OfNothing == \A v : Of(NoRows, v)
BY Empty DEF Of

LEMMA OfFrom ==
    ASSUME NEW rows, NEW a, NEW b, NEW v, RowsFrom(rows, a, b), Of(a, v), Of(b, v)
    PROVE  Of(rows, v)
BY DEF RowsFrom, Of

LEMMA FormatsInit == Init => Formats
<1> SUFFICES ASSUME Init PROVE Formats
  OBVIOUS
<1>1. durable = NoRows /\ view = NoRows /\ cache = NoRows /\ base = NoRows
  BY DEF Init
<1> QED
  BY <1>1, StoredRowsAre, ViewRowsAre, Empty, OfNothing DEF Formats

\* No row has a format of before the first schema.
LEMMA NothingBefore ==
    ASSUME NEW rows, Table(rows), Of(rows, 0)
    PROVE  rows = NoRows
<1>1. \A id \in DOMAIN rows : rows[id].format \in 1 .. MaxVersion
  BY DEF Table, Row
<1>2. \A format \in 1 .. MaxVersion : format # 0
  BY StoresBoundsAssumption
<1>3. DOMAIN rows = {}
  BY <1>1, <1>2 DEF Of
<1> QED
  BY <1>3, Empty DEF Table

LEMMA FormatsOpen == ASSUME Form, IdsBelow, Formats, Open, kind # "webSql", ~rejected PROVE Formats'
<1>1. /\ ~InSession /\ UNCHANGED <<kind, rejected, memoryVars>>
      /\ phase = "closed" /\ schema' \in version .. MaxVersion \ {0}
      /\ kind = "localStorage" /\ version # 0 => schema' = version
  BY DEF Open, InSession
<1>2. Of(StoredRows, version) /\ cache = NoRows /\ base = NoRows
  BY <1>1 DEF Formats, Form, Memory
<1>3. /\ StoredRows' = StoredRows
      /\ kind \notin Maps => view' = NoRows /\ version' = version
      /\ kind \in Maps => view' = durable' /\ version' = schema'
  BY OpenIs
<1>4. Of(StoredRows', version')
  <2>1. CASE kind \notin Maps
    BY <1>2, <1>3, <2>1
  <2>2. CASE kind = "localStorage"
    <3>1. CASE version = 0
      BY <1>2, <1>3, <3>1, NothingBefore, StoredTable, OfNothing DEF Form
    <3>2. CASE version # 0
      BY <1>1, <1>2, <1>3, <2>2, <3>2 DEF Maps
    <3> QED
      BY <3>1, <3>2
  <2>3. CASE kind = "memory"
    BY <1>1, <1>3, <2>3, OfNothing DEF IdsBelow
  <2> QED
    BY <2>1, <2>2, <2>3 DEF Maps
<1>5. Of(ViewRows', schema')
  <2>1. CASE kind \notin Maps
    BY <1>3, <2>1, ViewRowsAre, Empty, OfNothing
  <2>2. CASE kind \in Maps
    <3>1. ViewRows' = StoredRows'
      BY <1>3, <2>2, ViewRowsAre, StoredRowsAre
    <3> QED
      BY <1>3, <1>4, <2>2, <3>1
  <2> QED
    BY <2>1, <2>2
<1>6. cache' = NoRows /\ base' = NoRows
  BY <1>1, <1>2 DEF memoryVars
<1> QED
  BY <1>4, <1>5, <1>6, OfNothing DEF Formats

LEMMA FormatsUpgradeIndexedDb ==
    ASSUME Form, Formats, UpgradeIndexedDb, ~rejected'
    PROVE  Formats'
<1>1. /\ ~InSession /\ kind \in {"indexedDb", "bundled"} /\ kind \notin Maps
      /\ UNCHANGED <<kind, schema, view, cache, base>> /\ version' = schema
      /\ durable' = [Recreated(durable) EXCEPT !["rows"] = Transformed(Recreated(durable)["rows"])]
  BY DEF UpgradeIndexedDb, InSession, memoryVars, Maps
<1>2. cache = NoRows /\ base = NoRows /\ view = NoRows
  BY <1>1 DEF Form, Memory, Disk
<1>3. "rows" \in DOMAIN Recreated(durable) /\ Valid(kind, Recreated(durable)["rows"])
  BY RecreatedFits, Needed DEF Form
<1>4. "rows" \in DOMAIN durable' /\ durable'["rows"] = Transformed(Recreated(durable)["rows"])
  BY <1>1, <1>3
<1>5. StoredRows' = RowsOf(kind, Transformed(Recreated(durable)["rows"]))
  BY <1>1, <1>4, StoredRowsAre
<1>6. /\ schema \in 1 .. MaxVersion
      /\ Table(RowsOf(kind, Recreated(durable)["rows"]))
  BY <1>3, PackedAgain DEF Form, Sessions
<1>7. \A row \in Row : InFormat(row).format = schema
  BY DEF InFormat, Row
<1>8. Of(StoredRows', schema)
  <2>1. StoredRows' = [id \in DOMAIN RowsOf(kind, Recreated(durable)["rows"]) |->
                          InFormat(RowsOf(kind, Recreated(durable)["rows"])[id])]
    BY <1>3, <1>5, <1>6, AfterUpgrade
  <2> QED
    BY <1>6, <1>7, <2>1 DEF Of, Table
<1>9. ViewRows' = NoRows
  BY <1>1, <1>2, ViewRowsAre, Empty
<1> QED
  BY <1>1, <1>2, <1>8, <1>9, OfNothing DEF Formats

LEMMA FormatsStep == Form /\ Form' /\ IdsBelow /\ Formats /\ [Next]_vars => Formats'
<1> SUFFICES ASSUME Form, Form', IdsBelow, Formats, [Next]_vars, kind' # "webSql", ~rejected' PROVE Formats'
  BY DEF Formats
<1>1. CASE Outside
  <2>1. kind' = kind /\ kind # "webSql"
    BY <1>1, OutsideIs
  <2>2. CASE Open
    <3>1. ~rejected
      BY <2>2 DEF Open
    <3> QED
      BY <2>1, <2>2, <3>1, FormatsOpen
  <2>3. CASE UpgradeIndexedDb
    BY <2>3, FormatsUpgradeIndexedDb
  <2>4. CASE ScanFails
    <3>1. UNCHANGED <<durable, version, schema, view, cache, base, rejected>>
      BY <2>4 DEF ScanFails, storeVars, memoryVars
    <3> QED
      BY <2>1, <3>1, StoredRowsAre, ViewRowsAre DEF Formats
  <2>5. ~StoreVersion /\ ~RecreateTables /\ ~TransformRows
    BY <2>1 DEF StoreVersion, RecreateTables, TransformRows, Form, Sessions
  <2> QED
    BY <1>1, <2>2, <2>3, <2>4, <2>5 DEF Outside
<1>2. CASE Prefetch
  BY <1>2, PrefetchIs DEF Formats
<1>3. CASE Crash
  BY <1>3, CrashIs, OfNothing DEF Formats
<1>4. CASE Insert \/ Update \/ DeleteRow \/ Import
  <2>1. /\ InSession /\ UNCHANGED <<kind, version, schema, rejected>>
        /\ base' = base /\ StoredRows' = StoredRows /\ ViewRows' \in {ViewRows, StoredRows}
        /\ \A id \in DOMAIN cache' : \/ id \in DOMAIN cache /\ cache'[id] = cache[id]
                                     \/ cache'[id].format = schema
    BY <1>4, StatementSources
  <2>2. version = schema
    BY <2>1 DEF Form, Sessions
  <2>3. Of(cache', schema)
    BY <2>1 DEF Formats, Of
  <2> QED
    BY <2>1, <2>2, <2>3 DEF Formats
<1>5. CASE Commit \/ IssueImport \/ ExecuteRequest \/ Complete \/ Refuse \/ Abandon
  <2>1. /\ InSession /\ UNCHANGED <<kind, version, schema, rejected>>
        /\ cache' \in {cache, base} /\ base' \in {cache, base}
        /\ StoredRows' \in {StoredRows, ViewRows}
        /\ RowsFrom(ViewRows', ViewRows, cache) \/ ViewRows' = StoredRows
    BY <1>5, SessionSources
  <2>2. version = schema
    BY <2>1 DEF Form, Sessions
  <2> QED
    BY <2>1, <2>2, OfFrom DEF Formats
<1>6. CASE UNCHANGED vars
  BY <1>6, Unmoved DEF Formats
<1> QED
  BY <1>1, <1>2, <1>3, <1>4, <1>5, <1>6, NextIs

LEMMA FormatsHolds == Spec => []Formats
<1>1. Init => Formats
  BY FormatsInit
<1>2. Form /\ Form' /\ IdsBelow /\ Formats /\ [Next]_vars => Formats'
  BY FormatsStep
<1> QED
  BY <1>1, <1>2, FormHolds, IdsBelowHolds, PTL DEF Spec

\* A session works on rows of its own schema: the version is stored with the rows of
\* the upgrade or not at all, so a session cut off in it is followed by another one.
THEOREM UpgradesComplete == Spec => []UpgradeComplete
<1>1. Formats => UpgradeComplete
  BY DEF Formats, UpgradeComplete, Of
<1> QED
  BY <1>1, FormatsHolds, PTL

-----------------------------------------------------------------------------
(* Until a transaction is broken in two: what is requested is what is missing *)

\* What follows the answer to a count.
LEMMA MissingCounted ==
    ASSUME NEW S, NEW rest \in Seq(S), NEW ext \in Seq(S), NEW records, NEW target,
           \A i \in DOMAIN rest : rest[i].table = "rows" => rest[i].op = "flush",
           DOMAIN target \subseteq DOMAIN records,
           \A key \in DOMAIN target : records[key] = target[key],
           \A i \in DOMAIN ext :
              \/ ext[i].op = "delete" /\ ext[i].keys \cap DOMAIN target = {}
              \/ ext[i].op = "clear" /\ DOMAIN target = {},
           \A key \in DOMAIN records \ DOMAIN target :
              \E i \in DOMAIN ext :
                 /\ ext[i].table = "rows"
                 /\ ext[i].op = "clear" \/ (ext[i].op = "delete" /\ key \in ext[i].keys)
    PROVE  Missing(rest \o ext, records, target)
<1> DEFINE all == rest \o ext
<1>1. /\ \A i \in DOMAIN all :
            \/ all[i].table = "rows" => all[i].op = "flush"
            \/ all[i].op = "delete" /\ all[i].keys \cap DOMAIN target = {}
            \/ all[i].op = "clear" /\ DOMAIN target = {}
  <2>1. ASSUME NEW i \in DOMAIN all
        PROVE  (i \in DOMAIN rest /\ all[i] = rest[i]) \/ \E j \in DOMAIN ext : all[i] = ext[j]
    <3>1. CASE i \in DOMAIN rest
      BY <3>1, Appended
    <3>2. CASE i \notin DOMAIN rest
      <4>1. i - Len(rest) \in DOMAIN ext /\ all[i] = ext[i - Len(rest)]
        BY <3>2, Appended
      <4> HIDE DEF all
      <4> QED
        BY <4>1
    <3> QED
      BY <3>1, <3>2
  <2> HIDE DEF all
  <2> QED
    BY <2>1
<1>2. ASSUME NEW i \in DOMAIN ext PROVE \E j \in DOMAIN all : all[j] = ext[i]
  <2>1. Len(rest) + i \in DOMAIN all /\ all[Len(rest) + i] = ext[i]
    BY Appended
  <2> HIDE DEF all
  <2> QED
    BY <2>1
<1> HIDE DEF all
<1>3. ASSUME NEW key \in DOMAIN records \ DOMAIN target
      PROVE  \E j \in DOMAIN all :
                /\ all[j].table = "rows"
                /\ all[j].op = "clear" \/ (all[j].op \in {"delete", "count"} /\ key \in all[j].keys)
  <2>1. PICK i \in DOMAIN ext :
             /\ ext[i].table = "rows"
             /\ ext[i].op = "clear" \/ (ext[i].op = "delete" /\ key \in ext[i].keys)
    OBVIOUS
  <2> QED
    BY <1>2, <2>1
<1>4. \A i \in DOMAIN all : all[i].table = "rows" =>
         /\ all[i].op = "delete" => all[i].keys \cap DOMAIN target = {}
         /\ all[i].op = "clear" => DOMAIN target = {}
         /\ all[i].op # "count"
  BY <1>1
<1>5. Missing(all, records, target)
  BY <1>3, <1>4 DEF Missing
<1> QED
  BY <1>5 DEF all

LEMMA MissingDeletes ==
    ASSUME NEW S, NEW rest \in Seq(S), NEW records, NEW target, NEW keys, IsFiniteSet(keys),
           \A key \in keys : Delete("rows", {key}) \in S,
           \A i \in DOMAIN rest : rest[i].table = "rows" => rest[i].op = "flush",
           DOMAIN target \subseteq DOMAIN records,
           \A key \in DOMAIN target : records[key] = target[key],
           keys = DOMAIN records \ DOMAIN target
    PROVE  Missing(rest \o DeleteEach("rows", keys), records, target)
<1> DEFINE ext == DeleteEach("rows", keys)
<1>1. /\ \A key \in keys : \E i \in DOMAIN ext : ext[i] = Delete("rows", {key})
      /\ \A i \in DOMAIN ext : \E key \in keys : ext[i] = Delete("rows", {key})
      /\ ext \in Seq(S)
  <2>1. Deletes(ext, "rows", keys)
    BY DeleteEachIs
  <2> HIDE DEF ext
  <2> QED
    BY <2>1 DEF Deletes
<1> HIDE DEF ext
<1>2. \A key \in keys : /\ Delete("rows", {key}).op = "delete" /\ Delete("rows", {key}).table = "rows"
                        /\ Delete("rows", {key}).keys = {key}
  BY Fields
<1>3. ASSUME NEW i \in DOMAIN ext
      PROVE  ext[i].op = "delete" /\ ext[i].keys \cap DOMAIN target = {}
  <2>1. PICK key \in keys : ext[i] = Delete("rows", {key})
    BY <1>1
  <2>2. ext[i].op = "delete" /\ ext[i].keys = {key} /\ key \notin DOMAIN target
    BY <1>2, <2>1
  <2> QED
    BY <2>2
<1>4. ASSUME NEW key \in DOMAIN records \ DOMAIN target
      PROVE  \E i \in DOMAIN ext : ext[i].table = "rows" /\ ext[i].op = "delete" /\ key \in ext[i].keys
  <2>1. key \in keys
    OBVIOUS
  <2>2. PICK i \in DOMAIN ext : ext[i] = Delete("rows", {key})
    BY <1>1, <2>1
  <2> QED
    BY <1>2, <2>1, <2>2
<1>5. Missing(rest \o ext, records, target)
  BY <1>1, <1>3, <1>4, MissingCounted
<1> QED
  BY <1>5 DEF ext

\* When nothing but a flush is left to be executed, the table holds the rows in memory.
LEMMA NothingIsMissing ==
    ASSUME Form, Running, Missing(requests, view["rows"], Target),
           requests = << >> \/ (requests[1] = Flush("rows") /\ Tail(requests) = << >>)
    PROVE  view["rows"] = Target /\ ViewRows = cache
<1> USE DEF Form
<1>1. Missing(<< >>, view["rows"], Target)
  <2>1. CASE requests = << >>
    BY <2>1
  <2>2. CASE requests # << >> /\ requests[1] = Flush("rows") /\ Tail(requests) = << >>
    <3>1. requests \in Seq(Asked(Target, index, kind, persistent))
      BY DEF Requests
    <3>2. requests[1].op = "flush"
      BY <2>2, Fields
    <3>3. Missing(Tail(requests), view["rows"], Target)
      BY <2>2, <3>1, <3>2, MissingSkipped
    <3> QED
      BY <2>2, <3>3
  <2> QED
    BY <2>1, <2>2
<1>2. "rows" \in DOMAIN view /\ Valid(kind, view["rows"])
  BY Needed, StoredTable DEF Disk
<1>3. Table(cache) /\ Valid(kind, Target) /\ RowsOf(kind, Target) = cache
  BY PackedThere DEF Memory, Target
<1>4. view["rows"] = Target
  BY <1>1, <1>2, <1>3, MissingNothing
<1> QED
  BY <1>2, <1>3, <1>4, ViewRowsAre

LEMMA TornStep ==
    ASSUME Form, TornBy, [Next]_vars
    PROVE  TornBy' /\ (torn' = "no" => torn = "no")
<1>1. CASE torn' = torn /\ kind' = kind
  BY <1>1 DEF TornBy
<1>2. CASE Complete
  <2>1. kind' = kind /\ (torn' = torn \/ (kind = "webSql" /\ torn' = "acknowledged too early"))
    BY <1>2 DEF Complete
  <2> QED
    BY <2>1 DEF TornBy
<1>3. CASE Refuse
  <2>1. /\ kind' = kind
        /\ \/ /\ kind \in {"indexedDb", "bundled"}
              /\ torn' = IF phase = "importing" THEN "import" ELSE torn
           \/ /\ kind = "webSql"
              /\ torn' \in {"import", "statements kept", torn}
           \/ /\ kind = "localStorage" /\ torn' = "changes kept"
    BY <1>3, Refused DEF Form
  <2> QED
    BY <2>1 DEF TornBy, Maps
<1>4. ASSUME Outside \/ Prefetch \/ Crash \/ Insert \/ Update \/ DeleteRow \/ Import \/ Commit
             \/ IssueImport \/ ExecuteRequest \/ Abandon \/ UNCHANGED vars
      PROVE  torn' = torn /\ kind' = kind
  <2>1. CASE Outside
    BY <2>1, OutsideIs
  <2>2. CASE UNCHANGED vars
    BY <2>2, Unmoved
  <2> QED
    BY <1>4, <2>1, <2>2 DEF Prefetch, Crash, Insert, Update, DeleteRow, Import, Commit, IssueImport,
       ExecuteRequest, Abandon, storeVars
<1> QED
  BY <1>1, <1>2, <1>3, <1>4, NextIs

LEMMA WholeInit == Init => Whole /\ TornBy
BY DEF Init, Whole, TornBy, InSession, Running

LEMMA WholeOutside == ASSUME Form, Form', Whole, torn = "no", Outside PROVE Whole'
<1>1. ~InSession /\ ~InSession' /\ kind' = kind /\ (kind \in Maps => Open \/ ScanFails)
  BY OutsideIs
<1>2. ~Running' /\ phase' # "import" /\ phase' # "importing" /\ phase' # "idle"
  BY <1>1 DEF InSession, Running
<1>3. kind \in Maps /\ phase' # "closed" => view' = durable'
  <2>1. ScanFails => phase' = "closed"
    BY DEF ScanFails
  <2> QED
    BY <1>1, <2>1, OpenIs
<1> QED
  BY <1>1, <1>2, <1>3 DEF Whole

LEMMA WholePrefetch == ASSUME Form, Whole, torn = "no", Prefetch PROVE Whole'
<1>1. /\ phase' = "idle" /\ "rows" \in DOMAIN durable /\ UNCHANGED <<kind, durable, view, torn>>
      /\ cache' = StoredRows /\ base' = StoredRows
  BY PrefetchIs
<1>2. phase = "prefetching" /\ ~Running
  BY DEF Prefetch, Running
<1>3. durable["rows"] = Packed(kind, StoredRows)
  BY <1>1, StoredTable, StoredRowsAre, PackedAgain DEF Form
<1>4. kind \in Maps => view = durable
  BY <1>2 DEF Whole
<1>5. ~Running' /\ InSession'
  BY <1>1 DEF Running, InSession
<1> QED
  BY <1>1, <1>3, <1>4, <1>5 DEF Whole

LEMMA WholeStatement ==
    ASSUME Form, Whole, torn = "no", Insert \/ Update \/ DeleteRow
    PROVE  Whole'
<1>1. /\ phase \in {"idle", "active"} /\ phase' = "active"
      /\ UNCHANGED <<kind, durable, view, base, torn>>
  BY DEF Insert, Update, DeleteRow, MayChange, storeVars
<1>2. InSession /\ ~Running /\ InSession' /\ ~Running'
  BY <1>1 DEF InSession, Running
<1> QED
  BY <1>1, <1>2 DEF Whole

LEMMA WholeImport == ASSUME Form, IdsBelow, Whole, torn = "no", Import PROVE Whole'
<1>1. /\ phase = "idle" /\ phase' = "import" /\ view' = durable /\ kind # "localStorage"
      /\ UNCHANGED <<kind, durable, base, torn>>
  BY DEF Import, storeVars
<1>2. InSession /\ ~Running /\ InSession' /\ ~Running'
  BY <1>1 DEF InSession, Running
<1>3. cache = base
  BY <1>1 DEF Whole
<1>4. nextId \notin DOMAIN cache
  <2>1. nextId \in Nat /\ Below(cache, nextId)
    BY <1>1, <1>2 DEF IdsBelow, Form, Sessions
  <2> QED
    BY <2>1 DEF Below
<1>5. BaseKept'
  <2>1. PICK value \in Values : cache' = With(cache, nextId, NewRow(value))
    BY DEF Import, SetRow
  <2>2. \A id \in DOMAIN cache : id \in DOMAIN cache' /\ cache'[id] = cache[id]
    BY <1>4, <2>1 DEF With
  <2> QED
    BY <1>1, <1>3, <2>2 DEF BaseKept
<1> QED
  BY <1>1, <1>2, <1>5 DEF Whole

LEMMA LeavesAreNotRows ==
    ASSUME NEW entries, NEW k, NEW p
    PROVE  \A r \in IF p THEN LeavesAsked(entries, k) ELSE {} : r.table = "leaves"
BY Fields DEF LeavesAsked

LEMMA WholeCommit == ASSUME Form, Whole, torn = "no", Commit PROVE Whole'
<1> DEFINE A == Asked(Target, index, kind, persistent)
<1>1. /\ phase = "active" /\ ~Running /\ InSession /\ InSession' /\ Running' /\ phase' = "committing"
      /\ view' = (IF kind = "localStorage" THEN view ELSE durable)
      /\ requests' = MergeTableChanges \o MergeIndexChanges \o Flushes
      /\ UNCHANGED <<kind, persistent, durable, cache, base, index, torn>>
  BY DEF Commit, Running, InSession, storeVars, memoryVars
<1>2. Target' = Target
  BY <1>1 DEF Target
<1>3. /\ durable["rows"] = Packed(kind, base)
      /\ kind \in Maps => view = durable
  BY <1>1 DEF Whole
<1>4. view'["rows"] = Packed(kind, base)
  BY <1>1, <1>3 DEF Maps
<1>5. kind \in Maps => view["rows"] = base
  BY <1>3 DEF Packed, Maps
<1>6. /\ MergeTableChanges \in Seq(A) /\ MergeTableChanges \in Seq(RowsAsked(Target, kind))
      /\ Missing(MergeTableChanges, Packed(kind, base), Target)
  BY <1>5, MergeTableChangesAre, AskedParts, SeqWider DEF Form
<1>7. /\ MergeIndexChanges \in Seq(A)
      /\ \A i \in DOMAIN MergeIndexChanges : MergeIndexChanges[i].table = "leaves"
  <2> DEFINE L == IF persistent THEN LeavesAsked(index, kind) ELSE {}
  <2>1. MergeIndexChanges \in Seq(L)
    BY MergeIndexChangesAre DEF Form
  <2>2. \A r \in L : r.table = "leaves"
    BY LeavesAreNotRows
  <2>3. L \subseteq A
    BY AskedParts
  <2> HIDE DEF L, A
  <2> QED
    BY <2>1, <2>2, <2>3, SeqWider, SeqElements
<1>8. Flushes = IF kind = "localStorage" THEN << Flush("rows") >> ELSE << >>
  BY FlushesAre, <1>1 DEF Form, Disk, Maps
<1>9. Flushes \in Seq(A) /\ \A i \in DOMAIN Flushes : Flushes[i].op = "flush"
  <2>1. kind = "localStorage" => Flush("rows") \in A
    BY AskedParts
  <2> HIDE DEF A
  <2>2. /\ << >> \in Seq(A) /\ DOMAIN << >> = {}
        /\ kind = "localStorage" => << Flush("rows") >> \in Seq(A)
                                    /\ DOMAIN << Flush("rows") >> = {1} /\ << Flush("rows") >>[1] = Flush("rows")
    BY <2>1, SeqOfOne
  <2>3. Flush("rows").op = "flush"
    BY Fields
  <2> QED
    BY <1>8, <2>2, <2>3
<1> HIDE DEF A
<1>10. /\ MergeTableChanges \o MergeIndexChanges \in Seq(A)
       /\ Missing(MergeTableChanges \o MergeIndexChanges, Packed(kind, base), Target)
  BY <1>6, <1>7, MissingAppended
<1>11. Missing(requests', Packed(kind, base), Target)
  BY <1>1, <1>9, <1>10, MissingAppended
<1>12. ASSUME kind = "localStorage"
       PROVE  /\ requests' # << >>
              /\ \A i \in DOMAIN requests' : requests'[i].op = "flush" <=> i = Len(requests')
  <2> DEFINE rs == MergeTableChanges
  <2>1. MergeIndexChanges = << >>
    BY <1>12 DEF MergeIndexChanges, Form, Sessions
  <2>2. \A i \in DOMAIN rs : rs[i].op # "flush"
    <3>1. \A r \in RowsAsked(Target, kind) : r.op # "flush"
      BY Fields DEF RowsAsked
    <3> QED
      BY <1>6, <3>1, SeqElements
  <2>3. requests' = rs \o << >> \o << Flush("rows") >>
    BY <1>1, <1>8, <1>12, <2>1
  <2>4. Flush("rows").op = "flush"
    BY Fields
  <2> HIDE DEF rs
  <2>5. rs \in Seq(A)
    BY <1>6 DEF rs
  <2>6. requests' = Append(rs, Flush("rows"))
    BY <2>3, <2>5
  <2> QED
    BY <2>2, <2>4, <2>5, <2>6
<1>13. FlushIsLast'
  <2>1. kind = "localStorage" => durable["rows"] = base
    BY <1>3 DEF Packed
  <2> QED
    BY <1>1, <1>12, <2>1 DEF FlushIsLast
<1>14. Missing(requests', view'["rows"], Target')
  BY <1>2, <1>4, <1>11
<1> QED
  BY <1>1, <1>3, <1>13, <1>14 DEF Whole

LEMMA WholeIssueImport == ASSUME Form, Whole, torn = "no", IssueImport PROVE Whole'
<1>1. /\ phase = "import" /\ ~Running /\ InSession /\ InSession' /\ Running' /\ phase' = "importing"
      /\ requests' = Imported /\ kind # "localStorage"
      /\ UNCHANGED <<kind, persistent, durable, view, cache, base, index, torn>>
  BY DEF IssueImport, Imported, Running, InSession, storeVars, memoryVars, Form, Sessions
<1>2. Target' = Target
  BY <1>1 DEF Target
<1>3. durable["rows"] = Packed(kind, base) /\ view = durable /\ BaseKept
  BY <1>1 DEF Whole
<1>4. Deleted = {} /\ (kind \in Maps => view["rows"] = base)
  BY <1>3 DEF BaseKept, Deleted, Packed, Maps
<1>5. Missing(Imported, Packed(kind, base), Target)
  BY <1>4, ImportPuts DEF Form
<1>6. FlushIsLast'
  BY <1>1 DEF FlushIsLast
<1>7. Missing(requests', view'["rows"], Target')
  BY <1>1, <1>2, <1>3, <1>5
<1>8. BaseKept'
  BY <1>1, <1>3 DEF BaseKept
<1> QED
  BY <1>1, <1>3, <1>6, <1>7, <1>8 DEF Whole

LEMMA TailLength ==
    ASSUME NEW S, NEW rs \in Seq(S), rs # << >>
    PROVE  /\ Len(Tail(rs)) = Len(rs) - 1 /\ Len(rs) \in Nat
           /\ Tail(rs) = << >> <=> Len(rs) = 1
<1>1. Len(Tail(rs)) = Len(rs) - 1 /\ Len(rs) \in Nat /\ Tail(rs) \in Seq(S)
  OBVIOUS
<1>2. \A q \in Seq(S) : q = << >> <=> Len(q) = 0
  OBVIOUS
<1>3. Tail(rs) = << >> <=> Len(Tail(rs)) = 0
  BY <1>1, <1>2
<1> QED
  BY <1>1, <1>3

LEMMA WholeExecute == ASSUME Form, Whole, torn = "no", ExecuteRequest PROVE Whole'
<1> DEFINE A == Asked(Target, index, kind, persistent)
           r == requests[1]
           rest == Tail(requests)
           records == view["rows"]
<1>1. /\ Running /\ Running' /\ InSession /\ InSession' /\ phase' = phase /\ requests # << >>
      /\ phase \in {"committing", "importing"}
      /\ UNCHANGED <<kind, persistent, cache, base, index, torn>>
  BY DEF ExecuteRequest, Running, InSession, memoryVars
<1>2. Target' = Target
  BY <1>1 DEF Target
<1>3. Missing(requests, records, Target) /\ FlushIsLast /\ (phase = "importing" => BaseKept)
  BY <1>1 DEF Whole
<1>4. /\ requests \in Seq(A) /\ rest \in Seq(A)
  BY Executed DEF Form, Requests
<1>5. /\ DOMAIN view = TablesNeeded /\ DOMAIN durable = TablesNeeded /\ "rows" \in TablesNeeded
      /\ Valid(kind, records) /\ DOMAIN records \in SUBSET Nat
      /\ persistent => "leaves" \in TablesNeeded
  <2>1. DOMAIN view = TablesNeeded /\ DOMAIN durable = TablesNeeded /\ "rows" \in TablesNeeded
        /\ (persistent => "leaves" \in TablesNeeded)
    BY <1>1, Needed DEF Form, Disk
  <2>2. Valid(kind, records)
    BY <2>1, StoredTable DEF Form
  <2> QED
    BY <2>1, <2>2, IdsAreNat DEF Valid, PagesOf, Table
<1>6. ASSUME NEW after, view' = [view EXCEPT !["rows"] = after]
      PROVE  view'["rows"] = after
  BY <1>5, <1>6
<1>7. ASSUME view' = view \/ (persistent /\ \E after : view' = [view EXCEPT !["leaves"] = after])
      PROVE  view'["rows"] = records
  BY <1>5, <1>7
<1>8. \A rs \in Seq(A) : rs \o << >> = rs
  OBVIOUS
<1> HIDE DEF A, r, rest, records
<1>9. Missing(requests', view'["rows"], Target)
  <2>1. CASE \E key \in DOMAIN Target :
                /\ r = Put("rows", key, Target[key])
                /\ view' = [view EXCEPT !["rows"] = With(records, key, Target[key])]
                /\ requests' = rest
    <3>1. PICK key \in DOMAIN Target :
                /\ r = Put("rows", key, Target[key])
                /\ view' = [view EXCEPT !["rows"] = With(records, key, Target[key])]
      BY <2>1
    <3>2. Missing(rest, With(records, key, Target[key]), Target)
      BY <1>1, <1>3, <1>4, <3>1, MissingPut DEF r, rest
    <3> QED
      BY <1>6, <2>1, <3>1, <3>2
  <2>2. CASE \E keys \in SUBSET Nat :
                /\ r = Delete("rows", keys)
                /\ view' = [view EXCEPT !["rows"] = Without(records, keys)]
                /\ requests' = rest
    <3>1. PICK keys \in SUBSET Nat :
                /\ r = Delete("rows", keys)
                /\ view' = [view EXCEPT !["rows"] = Without(records, keys)]
      BY <2>2
    <3>2. Missing(rest, Without(records, keys), Target)
      BY <1>1, <1>3, <1>4, <3>1, MissingDelete DEF r, rest
    <3> QED
      BY <1>6, <2>2, <3>1, <3>2
  <2>3. CASE r = Clear("rows") /\ view' = [view EXCEPT !["rows"] = NoRows] /\ requests' = rest
    <3>1. Missing(rest, NoRows, Target)
      BY <1>1, <1>3, <1>4, <2>3, MissingClear DEF r, rest
    <3> QED
      BY <1>6, <2>3, <3>1
  <2>4. CASE /\ (r.table = "rows" => r.op = "flush")
             /\ view' = view \/ (persistent /\ \E after : view' = [view EXCEPT !["leaves"] = after])
             /\ requests' = rest \/ (requests' = rest \o << Clear("leaves") >> /\ Clear("leaves") \in A)
    <3>1. Missing(rest, records, Target)
      BY <1>1, <1>3, <1>4, <2>4, MissingSkipped DEF r, rest
    <3>2. view'["rows"] = records
      BY <1>7, <2>4
    <3>3. CASE requests' = rest
      BY <3>1, <3>2, <3>3
    <3>4. CASE requests' = rest \o << Clear("leaves") >> /\ Clear("leaves") \in A
      <4> DEFINE ext == << Clear("leaves") >>
      <4>1. ext \in Seq(A) /\ DOMAIN ext = {1} /\ ext[1] = Clear("leaves") /\ Clear("leaves").table = "leaves"
        BY <3>4, SeqOfOne, Fields
      <4> HIDE DEF ext
      <4>2. Missing(rest \o ext, records, Target)
        BY <1>4, <3>1, <4>1, MissingAppended
      <4> QED
        BY <3>2, <3>4, <4>2 DEF ext
    <3> QED
      BY <2>4, <3>3, <3>4
  <2>5. CASE \E keys \in SUBSET Ids :
                /\ r = Count("rows", keys) /\ view' = view
                /\ requests' = rest \o
                     (IF keys = {} \/ Cardinality(keys) = Cardinality(DOMAIN records)
                      THEN << Clear("rows") >> ELSE DeleteEach("rows", keys))
    <3>1. PICK keys \in SUBSET Ids :
                /\ r = Count("rows", keys) /\ view' = view
                /\ requests' = rest \o
                     (IF keys = {} \/ Cardinality(keys) = Cardinality(DOMAIN records)
                      THEN << Clear("rows") >> ELSE DeleteEach("rows", keys))
      BY <2>5
    <3>2. /\ keys # {} /\ DOMAIN Target \subseteq DOMAIN records
          /\ keys = DOMAIN records \ DOMAIN Target
          /\ \A key \in DOMAIN Target : records[key] = Target[key]
          /\ \A i \in DOMAIN rest : rest[i].table = "rows" => rest[i].op = "flush"
      BY <1>1, <1>3, <1>4, <3>1, MissingCount DEF r, rest
    <3>3. view'["rows"] = records
      BY <1>7, <3>1
    <3>4. CASE Cardinality(keys) = Cardinality(DOMAIN records)
      <4> DEFINE ext == << Clear("rows") >>
      <4>1. requests' = rest \o ext
        BY <3>1, <3>4
      <4>2. Clear("rows") \in A
        BY AskedThere, AskedParts DEF A
      <4>3. ext \in Seq(A) /\ DOMAIN ext = {1} /\ ext[1] = Clear("rows")
            /\ Clear("rows").table = "rows" /\ Clear("rows").op = "clear"
        BY <4>2, SeqOfOne, Fields
      <4>4. DOMAIN Target = {}
        <5>1. kind = "indexedDb"
          <6>1. r.op = "count" /\ r.table = "rows"
            BY <3>1, Fields
          <6>2. r \in A
            BY <1>1, <1>4, Tails DEF r
          <6> QED
            BY <6>1, <6>2, Fields DEF A, Asked, RowsAsked, LeavesAsked
        <5>2. IsFiniteSet(DOMAIN records)
          BY <1>5, <5>1, IdsAreFinite DEF Valid, Table
        <5>3. keys = DOMAIN records
          BY <3>2, <3>4, <5>2, FS_Subset
        <5> QED
          BY <3>2, <5>3
      <4> HIDE DEF ext
      <4>5. Missing(rest \o ext, records, Target)
        BY <1>4, <3>2, <4>3, <4>4, MissingCounted
      <4> QED
        BY <3>3, <4>1, <4>5
    <3>5. CASE Cardinality(keys) # Cardinality(DOMAIN records)
      <4>1. requests' = rest \o DeleteEach("rows", keys)
        BY <3>1, <3>2, <3>5
      <4>2. \A key \in keys : {key} \subseteq Nat
        BY IdsAreNat
      <4>3. \A key \in keys : Delete("rows", {key}) \in A
        BY <4>2, AskedThere, AskedParts DEF A
      <4>4. IsFiniteSet(keys)
        BY IdsAreFinite
      <4>5. Missing(rest \o DeleteEach("rows", keys), records, Target)
        BY <1>4, <3>2, <4>3, <4>4, MissingDeletes
      <4> QED
        BY <3>3, <4>1, <4>5
    <3> QED
      BY <3>4, <3>5
  <2>6. \/ \E key \in DOMAIN Target :
                /\ r = Put("rows", key, Target[key])
                /\ view' = [view EXCEPT !["rows"] = With(records, key, Target[key])]
                /\ requests' = rest
        \/ /\ persistent /\ r = Put("leaves", 0, index)
           /\ \E after : view' = [view EXCEPT !["leaves"] = after]
           /\ requests' = rest
        \/ \E keys \in SUBSET Nat :
                /\ r = Delete("rows", keys)
                /\ view' = [view EXCEPT !["rows"] = Without(records, keys)]
                /\ requests' = rest
        \/ r = Clear("rows") /\ view' = [view EXCEPT !["rows"] = NoRows] /\ requests' = rest
        \/ /\ persistent /\ r = Clear("leaves")
           /\ \E after : view' = [view EXCEPT !["leaves"] = after]
           /\ requests' = rest
        \/ \E keys \in SUBSET Ids :
                /\ r = Count("rows", keys) /\ view' = view
                /\ requests' = rest \o
                     (IF keys = {} \/ Cardinality(keys) = Cardinality(DOMAIN records)
                      THEN << Clear("rows") >> ELSE DeleteEach("rows", keys))
        \/ /\ persistent /\ r = Count("leaves", {}) /\ view' = view
           /\ requests' = rest \o << Clear("leaves") >>
        \/ r = Flush("rows") /\ view' = view /\ requests' = rest
    BY Executed, Zenon DEF r, rest, records
  <2>7. /\ Put("leaves", 0, index).table = "leaves" /\ Clear("leaves").table = "leaves"
        /\ Count("leaves", {}).table = "leaves" /\ Flush("rows").op = "flush"
        /\ persistent => Clear("leaves") \in A
    BY Fields DEF A, Asked, LeavesAsked
  <2> QED
    BY <2>1, <2>2, <2>3, <2>4, <2>5, <2>6, <2>7, Zenon
<1>10. ASSUME kind # "localStorage" PROVE durable' = durable
  BY <1>10, Executed
<1>11. ASSUME kind = "localStorage"
       PROVE  /\ \A i \in DOMAIN requests' : requests'[i].op = "flush" <=> i = Len(requests')
              /\ durable'["rows"] = IF requests' = << >> THEN view'["rows"] ELSE base
  <2>1. /\ \A i \in DOMAIN requests : requests[i].op = "flush" <=> i = Len(requests)
        /\ durable["rows"] = base
    BY <1>1, <1>3, <1>11 DEF FlushIsLast
  <2>2. /\ requests' = rest
        /\ \/ durable' = durable /\ r # Flush("rows")
           \/ /\ r = Flush("rows") /\ view' = view
              /\ durable' = [durable EXCEPT !["rows"] = records]
    <3>1. ~persistent
      BY <1>11 DEF Form, Sessions
    <3>2. /\ \A key, record : Put("rows", key, record) # Flush("rows")
          /\ \A keys : Delete("rows", keys) # Flush("rows")
          /\ Clear("rows") # Flush("rows")
      BY Fields
    <3>3. \/ (\E key \in DOMAIN Target : r = Put("rows", key, Target[key])) /\ requests' = rest /\ durable' = durable
          \/ (\E keys \in SUBSET Nat : r = Delete("rows", keys)) /\ requests' = rest /\ durable' = durable
          \/ r = Clear("rows") /\ requests' = rest /\ durable' = durable
          \/ /\ r = Flush("rows") /\ view' = view /\ requests' = rest
             /\ durable' = [durable EXCEPT !["rows"] = records]
      BY <1>11, <3>1, Executed DEF r, rest, records
    <3> QED
      BY <3>2, <3>3
  <2>3. r.op = "flush" <=> r = Flush("rows")
    <3>1. r \in A /\ ~persistent
      BY <1>1, <1>4, <1>11, Tails DEF r, Form, Sessions
    <3> QED
      BY <3>1, Fields DEF A, Asked, RowsAsked
  <2>4. 1 \in DOMAIN requests /\ Len(rest) = Len(requests) - 1 /\ Len(requests) \in Nat
        /\ (\A i \in DOMAIN rest : i + 1 \in DOMAIN requests /\ rest[i] = requests[i + 1] /\ i \in Nat)
        /\ (rest = << >> <=> Len(requests) = 1)
    BY <1>1, <1>4, Tails, TailLength DEF rest
  <2>5. \A i \in DOMAIN requests' : requests'[i].op = "flush" <=> i = Len(requests')
    BY <2>1, <2>2, <2>4
  <2>6. CASE r = Flush("rows")
    <3>1. rest = << >>
      BY <2>1, <2>3, <2>4, <2>6 DEF r
    <3>2. durable'["rows"] = records /\ view'["rows"] = records
      BY <1>5, <2>2, <2>6 DEF records
    <3> QED
      BY <2>2, <2>5, <3>1, <3>2
  <2>7. CASE r # Flush("rows")
    <3>1. rest # << >>
      BY <2>1, <2>3, <2>4, <2>7 DEF r
    <3> QED
      BY <2>1, <2>2, <2>5, <2>7, <3>1
  <2> QED
    BY <2>6, <2>7
<1>12. FlushIsLast'
  BY <1>1, <1>11 DEF FlushIsLast
<1>13. ASSUME ~(kind = "localStorage" /\ phase = "committing")
       PROVE  durable'["rows"] = Packed(kind, base)
  <2>1. kind # "localStorage"
    BY <1>1, <1>13 DEF Form, Sessions
  <2> QED
    BY <1>1, <1>10, <2>1 DEF Whole
<1>14. Missing(requests', view'["rows"], Target')
  BY <1>2, <1>9
<1>15. phase = "importing" => BaseKept'
  BY <1>1, <1>3 DEF BaseKept
<1> QED
  BY <1>1, <1>3, <1>12, <1>13, <1>14, <1>15 DEF Whole

LEMMA WholeComplete == ASSUME Form, Whole, torn' = "no", torn = "no", Complete PROVE Whole'
<1>1. /\ Running /\ InSession /\ InSession' /\ ~Running' /\ phase' = "idle" /\ requests = << >>
      /\ durable' = (IF kind = "localStorage" THEN durable ELSE view)
      /\ base' = cache /\ cache' = cache /\ UNCHANGED <<kind, persistent, view>>
  BY DEF Complete, Running, InSession
<1>2. view["rows"] = Target
  BY <1>1, NothingIsMissing DEF Whole
<1>3. kind = "localStorage" => durable["rows"] = view["rows"]
  BY <1>1 DEF Whole, FlushIsLast
<1>4. durable'["rows"] = Packed(kind, base')
  BY <1>1, <1>2, <1>3 DEF Target
<1>5. ASSUME kind \in Maps PROVE view' = durable'
  <2>1. CASE kind = "memory"
    BY <1>1, <2>1
  <2>2. CASE kind = "localStorage"
    <3>1. TablesNeeded = {"rows"} /\ DOMAIN view = {"rows"} /\ DOMAIN durable = {"rows"}
      BY <1>1, <2>2, Needed DEF Form, Disk
    <3>2. view # NoRows /\ durable # NoRows
      BY <3>1, Empty
    <3>3. view = [t \in {"rows"} |-> view[t]] /\ durable = [t \in {"rows"} |-> durable[t]]
      BY <3>1, <3>2 DEF Form, Disk, Fit
    <3>4. view = durable
      BY <1>3, <2>2, <3>3
    <3> QED
      BY <1>1, <2>2, <3>4
  <2> QED
    BY <1>5, <2>1, <2>2 DEF Maps
<1> QED
  BY <1>1, <1>4, <1>5 DEF Whole

LEMMA WholeRefuse == ASSUME Form, Whole, torn' = "no", torn = "no", Refuse PROVE Whole'
<1>1. /\ Running /\ InSession /\ RollbackMemory /\ phase' = "idle"
      /\ UNCHANGED <<kind, persistent, view>>
      /\ kind \in {"indexedDb", "bundled", "webSql"} /\ phase # "importing" /\ durable' = durable
  BY Refused DEF Form
<1>2. cache' = base /\ base' = base
  BY <1>1 DEF RollbackMemory
<1>3. InSession' /\ ~Running' /\ kind \notin Maps /\ kind # "localStorage"
  BY <1>1 DEF InSession, Running, Maps
<1> QED
  BY <1>1, <1>2, <1>3 DEF Whole

LEMMA WholeAbandon == ASSUME Form, Whole, torn = "no", Abandon PROVE Whole'
<1>1. /\ phase = "active" /\ phase' = "idle" /\ RollbackMemory
      /\ UNCHANGED <<kind, persistent, view, durable, torn>>
  BY DEF Abandon, storeVars
<1>2. cache' = base /\ base' = base
  BY <1>1 DEF RollbackMemory
<1>3. InSession /\ ~Running /\ InSession' /\ ~Running'
  BY <1>1 DEF InSession, Running
<1> QED
  BY <1>1, <1>2, <1>3 DEF Whole

LEMMA WholeStep == Form /\ Form' /\ IdsBelow /\ TornBy /\ Whole /\ [Next]_vars => Whole'
<1> SUFFICES ASSUME Form, Form', IdsBelow, TornBy, Whole, [Next]_vars, torn' = "no" PROVE Whole'
  BY DEF Whole
<1>1. torn = "no"
  BY TornStep
<1>2. CASE Crash
  <2>1. ~InSession' /\ phase' = "closed"
    BY <1>2 DEF Crash, InSession
  <2> QED
    BY <2>1 DEF Whole, InSession, Running
<1>3. CASE UNCHANGED vars
  <2>1. FlushIsLast' = FlushIsLast
    BY <1>3 DEF vars, FlushIsLast
  <2> QED
    BY <1>3, <2>1, Unmoved DEF Whole, BaseKept
<1> QED
  BY <1>1, <1>2, <1>3, NextIs, WholeOutside, WholePrefetch, WholeStatement, WholeImport, WholeCommit,
     WholeIssueImport, WholeExecute, WholeComplete, WholeRefuse, WholeAbandon

LEMMA TornByHolds == Spec => []TornBy
<1>1. Init => TornBy
  BY WholeInit
<1>2. Form /\ TornBy /\ [Next]_vars => TornBy'
  BY TornStep
<1> QED
  BY <1>1, <1>2, FormHolds, PTL DEF Spec

LEMMA WholeHolds == Spec => []Whole
<1>1. Init => Whole
  BY WholeInit
<1>2. Form /\ Form' /\ IdsBelow /\ TornBy /\ Whole /\ [Next]_vars => Whole'
  BY WholeStep
<1> QED
  BY <1>1, <1>2, FormHolds, IdsBelowHolds, TornByHolds, PTL DEF Spec

\* Between transactions memory holds the stored rows, unless a store broke one in two,
\* and the ways to do that are those of the store: requests of a commit are what the
\* stored table misses of the rows in memory, so that after the last answer nothing is.
THEOREM MemoryMatches == Spec => []MemoryMatchesStore
<1>1. Form /\ Whole /\ TornBy => MemoryMatchesStore
  <2> SUFFICES ASSUME Form, Whole, TornBy PROVE MemoryMatchesStore
    OBVIOUS
  <2>1. ASSUME phase = "idle", torn = "no" PROVE cache = StoredRows
    <3>1. InSession /\ phase # "committing"
      BY <2>1 DEF InSession
    <3>2. cache = base /\ durable["rows"] = Packed(kind, base)
      BY <2>1, <3>1 DEF Whole
    <3>3. "rows" \in DOMAIN durable
      BY <3>1, Needed DEF Form, Disk
    <3>4. RowsOf(kind, Packed(kind, base)) = base
      BY PackedThere DEF Form, Memory
    <3> QED
      BY <3>2, <3>3, <3>4, StoredRowsAre
  <2> QED
    BY <2>1 DEF MemoryMatchesStore, TornBy, Maps
<1> QED
  BY <1>1, FormHolds, WholeHolds, TornByHolds, PTL

-----------------------------------------------------------------------------
(* Until a transaction is broken in two: all of it is stored, or nothing *)

Atomically ==
    \/ StoredRows' = StoredRows
    \/ phase \in {"committing", "importing"} /\ StoredRows' = cache
    \/ phase \in {"upgrading", "transforming"}
       /\ StoredRows' = [id \in DOMAIN StoredRows |-> InFormat(StoredRows[id])]
    \/ kind = "memory" /\ phase' = "closed"
    \/ torn' # "no"

\* An upgrade stores all rows again, or none.
LEMMA AtomicUpgrade ==
    ASSUME Form, UpgradeIndexedDb \/ RecreateTables \/ TransformRows
    PROVE  Atomically
<1> DEFINE recreated == Recreated(durable)
<1>1. kind' = kind /\ (phase = "transforming" => DOMAIN durable = TablesNeeded)
  BY DEF UpgradeIndexedDb, RecreateTables, TransformRows, Form, Disk
<1>2. ASSUME NEW tables, "rows" \in DOMAIN tables, Valid(kind, tables["rows"]),
             RowsOf(kind, tables["rows"]) = StoredRows,
             durable' = [tables EXCEPT !["rows"] = Transformed(tables["rows"])]
      PROVE  StoredRows' = [id \in DOMAIN StoredRows |-> InFormat(StoredRows[id])]
  <2>1. "rows" \in DOMAIN durable' /\ durable'["rows"] = Transformed(tables["rows"])
    BY <1>2
  <2>2. StoredRows' = RowsOf(kind, Transformed(tables["rows"]))
    BY <1>1, <2>1, StoredRowsAre
  <2>3. schema \in 1 .. MaxVersion
    BY DEF Form, Sessions
  <2>4. RowsOf(kind, Transformed(tables["rows"]))
          = [id \in DOMAIN RowsOf(kind, tables["rows"]) |-> InFormat(RowsOf(kind, tables["rows"])[id])]
    BY <1>2, <2>3, AfterUpgrade
  <2> QED
    BY <1>2, <2>2, <2>4
<1>3. /\ "rows" \in DOMAIN recreated /\ Valid(kind, recreated["rows"])
      /\ RowsOf(kind, recreated["rows"]) = StoredRows
  <2>1. /\ "rows" \in DOMAIN recreated /\ Valid(kind, recreated["rows"])
        /\ recreated["rows"] = IF "rows" \in DOMAIN durable THEN durable["rows"] ELSE NoRows
    BY RecreatedFits, Needed DEF Form
  <2> QED
    BY <2>1, StoredRowsAre, Empty
<1>4. durable' = recreated => StoredRows' = StoredRows
  BY <1>1, <1>3, StoredRowsAre
<1>5. CASE UpgradeIndexedDb
  <2>1. /\ phase = "upgrading"
        /\ \/ durable' = [recreated EXCEPT !["rows"] = Transformed(recreated["rows"])]
           \/ durable' = recreated
    BY <1>5 DEF UpgradeIndexedDb
  <2> HIDE DEF recreated
  <2> QED
    BY <1>2, <1>3, <1>4, <2>1 DEF Atomically
<1>6. CASE RecreateTables
  <2>1. durable' = recreated
    BY <1>6 DEF RecreateTables
  <2> QED
    BY <1>4, <2>1 DEF Atomically
<1>7. CASE TransformRows
  <2>1. /\ phase = "transforming"
        /\ \/ durable' = [durable EXCEPT !["rows"] = Transformed(durable["rows"])]
           \/ durable' = durable
    BY <1>7 DEF TransformRows
  <2>2. "rows" \in DOMAIN durable /\ Valid(kind, durable["rows"]) /\ RowsOf(kind, durable["rows"]) = StoredRows
    BY <1>1, <2>1, Needed, StoredTable, StoredRowsAre DEF Form
  <2>3. durable' = durable => StoredRows' = StoredRows
    BY <1>1, StoredRowsAre
  <2> QED
    BY <1>2, <2>1, <2>2, <2>3 DEF Atomically
<1> QED
  BY <1>5, <1>6, <1>7

LEMMA AtomicStep == ASSUME Form, Whole, TornBy, [Next]_vars PROVE Atomically
<1>1. ASSUME durable' = durable, kind' = kind PROVE Atomically
  BY <1>1, StoredRowsAre DEF Atomically
<1>2. CASE Outside
  <2>1. CASE Open
    BY <2>1, OpenIs DEF Atomically
  <2>2. CASE StoreVersion \/ ScanFails
    BY <1>1, <2>2 DEF StoreVersion, ScanFails, storeVars
  <2> QED
    BY <1>2, <2>1, <2>2, AtomicUpgrade DEF Outside
<1>3. CASE Prefetch \/ Insert \/ Update \/ DeleteRow \/ Import \/ Commit \/ IssueImport \/ Abandon
  BY <1>1, <1>3 DEF Prefetch, Insert, Update, DeleteRow, Import, Commit, IssueImport, Abandon, storeVars
<1>4. CASE UNCHANGED vars
  BY <1>4, Unmoved DEF Atomically
<1>5. CASE Crash
  <2>1. phase' = "closed"
    BY <1>5 DEF Crash
  <2> QED
    BY <1>5, <2>1, CrashIs DEF Atomically
<1>6. CASE ExecuteRequest /\ torn' = "no"
  <2>1. Running /\ torn = "no" /\ kind' = kind
    BY <1>6 DEF ExecuteRequest
  <2>2. Missing(requests, view["rows"], Target) /\ FlushIsLast
    BY <2>1 DEF Whole
  <2>3. CASE durable' = durable
    BY <1>1, <2>1, <2>3
  <2>4. CASE durable' # durable
    <3>1. /\ kind = "localStorage" /\ requests[1] = Flush("rows") /\ requests # << >>
          /\ durable' = [durable EXCEPT !["rows"] = view["rows"]]
      BY <1>6, <2>4, Executed
    <3>2. requests[1].op = "flush"
      BY <3>1, Fields
    <3>3. requests \in Seq(Asked(Target, index, kind, persistent))
      BY DEF Form, Requests
    <3>4. 1 = Len(requests)
      BY <2>2, <3>1, <3>2, <3>3, Tails DEF FlushIsLast
    <3>5. Tail(requests) = << >>
      BY <3>1, <3>3, <3>4, TailLength
    <3>6. view["rows"] = Target /\ ViewRows = cache
      BY <2>1, <2>2, <3>1, <3>5, NothingIsMissing
    <3>7. "rows" \in DOMAIN durable
      BY <2>1, Needed DEF Form, Disk, Running, InSession
    <3>8. "rows" \in DOMAIN view
      BY <2>1, Needed DEF Form, Disk
    <3>9. "rows" \in DOMAIN durable' /\ durable'["rows"] = view["rows"]
      BY <3>1, <3>7
    <3>10. StoredRows' = cache
      BY <2>1, <3>6, <3>8, <3>9, StoredRowsAre, ViewRowsAre
    <3> QED
      BY <2>1, <3>10 DEF Atomically, Running
  <2> QED
    BY <2>3, <2>4
<1>7. CASE Complete /\ torn' = "no"
  <2>1. Running /\ torn = "no" /\ kind' = kind /\ durable' \in {durable, view} /\ requests = << >>
    BY <1>7 DEF Complete
  <2>2. ViewRows = cache
    BY <2>1, NothingIsMissing DEF Whole
  <2>3. durable' = view => StoredRows' = ViewRows
    BY <2>1, StoredRowsAre, ViewRowsAre
  <2> QED
    BY <1>1, <2>1, <2>2, <2>3 DEF Atomically, Running
<1>8. CASE Refuse /\ torn' = "no"
  <2>1. durable' = durable /\ kind' = kind
    BY <1>8, Refused DEF Form
  <2> QED
    BY <1>1, <2>1
<1>9. torn' # "no" => Atomically
  BY DEF Atomically
<1> QED
  BY <1>2, <1>3, <1>4, <1>5, <1>6, <1>7, <1>8, <1>9, NextIs

\* What is stored changes from the rows before a transaction to the rows after it, or
\* by an upgrade, and to nothing between, at whatever request the page goes away.
THEOREM CommitsAreAtomic == Spec => StoreAtomic
<1>1. Form /\ Whole /\ TornBy /\ [Next]_vars
        => [\/ StoredRows' = StoredRows
            \/ phase \in {"committing", "importing"} /\ StoredRows' = cache
            \/ phase \in {"upgrading", "transforming"}
               /\ StoredRows' = [id \in DOMAIN StoredRows |-> InFormat(StoredRows[id])]
            \/ kind = "memory" /\ phase' = "closed"
            \/ torn' # "no"]_vars
  BY AtomicStep DEF Atomically
<1> QED
  BY <1>1, FormHolds, WholeHolds, TornByHolds, PTL DEF Spec, StoreAtomic

-----------------------------------------------------------------------------
(* Until a transaction is broken in two: the index leads to rows *)

LEMMA PairsAre ==
    ASSUME NEW rows
    PROVE  \A p : p \in Pairs(rows) <=> \E id \in DOMAIN rows : p = <<rows[id].value, id>>
BY DEF Pairs

LEMMA PairsOfNothing == Pairs(NoRows) = {} /\ \A entries, lost : LeadsTo(entries, NoRows, lost)
BY Empty DEF Pairs, LeadsTo

\* An entry is taken away with its row, and put with it.
LEMMA SetRowPairs ==
    ASSUME NEW id, NEW row, SetRow(id, row), index \subseteq Pairs(cache)
    PROVE  index' \subseteq Pairs(cache') /\ \A lost : LeadsTo(index, cache, lost) => LeadsTo(index', cache', lost)
<1>1. /\ cache' = With(cache, id, row)
      /\ index' = (IF id \in DOMAIN cache THEN index \ {<<cache[id].value, id>>} ELSE index)
                  \cup {<<row.value, id>>}
  BY DEF SetRow
<1>2. /\ DOMAIN cache' = DOMAIN cache \cup {id} /\ cache'[id] = row
      /\ \A other \in DOMAIN cache : other # id => cache'[other] = cache[other]
  BY <1>1 DEF With
<1>3. ASSUME NEW p \in index' PROVE p \in Pairs(cache')
  <2>1. CASE p = <<row.value, id>>
    BY <1>2, <2>1, PairsAre
  <2>2. CASE p # <<row.value, id>>
    <3>1. p \in index /\ (id \in DOMAIN cache => p # <<cache[id].value, id>>)
      BY <1>1, <1>3, <2>2
    <3>2. PICK other \in DOMAIN cache : p = <<cache[other].value, other>>
      BY <3>1, PairsAre
    <3>3. other # id
      BY <3>1, <3>2
    <3> QED
      BY <1>2, <3>2, <3>3, PairsAre
  <2> QED
    BY <2>1, <2>2
<1>4. ASSUME NEW p \in Pairs(cache') \ index' PROVE p \in Pairs(cache) \ index
  <2>1. PICK other \in DOMAIN cache' : p = <<cache'[other].value, other>>
    BY PairsAre
  <2>2. other # id
    BY <1>1, <1>2, <2>1
  <2>3. other \in DOMAIN cache /\ p = <<cache[other].value, other>>
    BY <1>2, <2>1, <2>2
  <2>4. \A value : p # <<value, id>>
    BY <2>2, <2>3
  <2>5. p \notin index
    BY <1>1, <2>4
  <2> QED
    BY <2>3, <2>5, PairsAre
<1> QED
  BY <1>3, <1>4 DEF LeadsTo

LEMMA DeleteRowPairs ==
    ASSUME DeleteRow, index \subseteq Pairs(cache)
    PROVE  index' \subseteq Pairs(cache') /\ \A lost : LeadsTo(index, cache, lost) => LeadsTo(index', cache', lost)
<1>1. PICK id \in DOMAIN cache : /\ cache' = Without(cache, {id})
                                 /\ index' = index \ {<<cache[id].value, id>>}
  BY DEF DeleteRow, Found
<1>2. /\ DOMAIN cache' = DOMAIN cache \ {id}
      /\ \A other \in DOMAIN cache' : cache'[other] = cache[other]
  BY <1>1 DEF Without
<1>3. ASSUME NEW p \in index' PROVE p \in Pairs(cache')
  <2>1. p \in index /\ p # <<cache[id].value, id>>
    BY <1>1, <1>3
  <2>2. PICK other \in DOMAIN cache : p = <<cache[other].value, other>>
    BY <2>1, PairsAre
  <2>3. other \in DOMAIN cache' /\ p = <<cache'[other].value, other>>
    BY <1>2, <2>1, <2>2
  <2> QED
    BY <2>3, PairsAre
<1>4. ASSUME NEW p \in Pairs(cache') \ index' PROVE p \in Pairs(cache) \ index
  <2>1. PICK other \in DOMAIN cache' : p = <<cache'[other].value, other>>
    BY PairsAre
  <2>2. other \in DOMAIN cache /\ other # id /\ p = <<cache[other].value, other>>
    BY <1>2, <2>1
  <2>3. p # <<cache[id].value, id>>
    BY <2>2
  <2> QED
    BY <1>1, <2>2, <2>3, PairsAre
<1> QED
  BY <1>3, <1>4 DEF LeadsTo

\* The entries of rows that were changed are taken away, those of the rows before come back.
LEMMA RollbackPairs ==
    ASSUME Memory, RollbackMemory, phase # "importing", index \subseteq Pairs(cache)
    PROVE  index' \subseteq Pairs(cache') /\ \A lost : LeadsTo(index, cache, lost) => LeadsTo(index', cache', lost)
<1> DEFINE ids == Deleted \cup Changed
           old == {<<base[id].value, id>> : id \in ids \cap DOMAIN base}
<1>1. cache' = base /\ index' = {p \in index : p[2] \notin ids} \cup old
  BY DEF RollbackMemory
<1>2. \A id : id \notin ids => (id \in DOMAIN cache <=> id \in DOMAIN base)
  BY DeletedIds
<1>3. \A id : id \notin ids /\ id \in DOMAIN cache => base[id] = cache[id]
  BY DeletedIds
<1>4. \A p : p \in old <=> \E id \in ids \cap DOMAIN base : p = <<base[id].value, id>>
  OBVIOUS
<1> HIDE DEF ids, old
<1>5. ASSUME NEW p \in index' PROVE p \in Pairs(base)
  <2>1. CASE p \in old
    BY <1>4, <2>1, PairsAre
  <2>2. CASE p \notin old
    <3>1. p \in index /\ p[2] \notin ids
      BY <1>1, <1>5, <2>2
    <3>2. PICK id \in DOMAIN cache : p = <<cache[id].value, id>>
      BY <3>1, PairsAre
    <3>3. id \notin ids
      BY <3>1, <3>2
    <3>4. id \in DOMAIN base /\ p = <<base[id].value, id>>
      BY <1>2, <1>3, <3>2, <3>3
    <3> QED
      BY <3>4, PairsAre
  <2> QED
    BY <2>1, <2>2
<1>6. ASSUME NEW p \in Pairs(base) \ index' PROVE p \in Pairs(cache) \ index
  <2>1. PICK id \in DOMAIN base : p = <<base[id].value, id>>
    BY PairsAre
  <2>2. id \notin ids
    BY <1>1, <1>4, <2>1
  <2>3. id \in DOMAIN cache /\ p = <<cache[id].value, id>> /\ p[2] = id
    BY <1>2, <1>3, <2>1, <2>2
  <2>4. p \notin index
    BY <1>1, <2>2, <2>3
  <2> QED
    BY <2>3, <2>4, PairsAre
<1> QED
  BY <1>1, <1>5, <1>6 DEF LeadsTo

\* An upgrade leaves the values of rows alone.
LEMMA UpgradedPairs ==
    ASSUME NEW rows, NEW after, Table(rows), after = [id \in DOMAIN rows |-> InFormat(rows[id])]
    PROVE  Pairs(after) = Pairs(rows)
<1>1. \A row \in Row : InFormat(row).value = row.value
  BY DEF InFormat, Row
<1>2. DOMAIN after = DOMAIN rows /\ \A id \in DOMAIN rows : after[id].value = rows[id].value
  BY <1>1 DEF Table
<1> QED
  BY <1>2 DEF Pairs

LEMMA Second ==
    ASSUME NEW S, NEW rs \in Seq(S), NEW mid \in Seq(S), Len(mid) = 2
    PROVE  Len(rs) + 2 \in DOMAIN (rs \o mid) /\ (rs \o mid)[Len(rs) + 2] = mid[2]
<1>1. 2 \in DOMAIN mid
  OBVIOUS
<1> QED
  BY <1>1, Appended

\* The put of the index follows the clear, wherever the two are.
LEMMA IndexAsked ==
    ASSUME NEW S, NEW rs \in Seq(S), NEW mid \in Seq(S), NEW ext \in Seq(S), NEW k, NEW leaves, NEW entries,
           \A i \in DOMAIN rs : rs[i].table = "rows", \A i \in DOMAIN ext : ext[i].table = "rows",
           Len(mid) = 2, mid[2] = Put("leaves", 0, entries)
    PROVE  IndexMissing(k, rs \o mid \o ext, leaves, entries)
<1> DEFINE front == rs \o mid
           all == front \o ext
           put == Put("leaves", 0, entries)
           last == Len(rs) + 2
<1>1. Len(rs) \in Nat /\ DOMAIN mid = {1, 2} /\ front \in Seq(S)
  BY Appended
<1>2. Clear("leaves").table = "leaves" /\ Clear("leaves") # put
  BY Fields
<1>3. /\ last \in DOMAIN front /\ front[last] = put
      /\ \A i \in DOMAIN front : i \in Nat
      /\ \A i \in DOMAIN rs : i \in DOMAIN front => front[i] = rs[i]
      /\ \A i \in DOMAIN front : i \in DOMAIN rs \/ i = last \/ i = last - 1
  <2>1. \A i \in DOMAIN rs : i \in DOMAIN front /\ front[i] = rs[i]
    BY Appended
  <2>2. last \in DOMAIN front /\ front[last] = mid[2]
    BY Second
  <2>4. \A i \in DOMAIN front :
           i \in Nat /\ (i \in DOMAIN rs \/ i - Len(rs) \in DOMAIN mid)
    BY Appended
  <2> HIDE DEF front
  <2>5. \A i \in DOMAIN front : i \in DOMAIN rs \/ i = last \/ i = last - 1
    BY <1>1, <2>4
  <2> QED
    BY <2>1, <2>2, <2>4, <2>5 DEF put
<1>4. /\ \A i \in DOMAIN front : i \in DOMAIN all /\ all[i] = front[i]
      /\ \A i \in DOMAIN all : i \in DOMAIN front \/ all[i].table = "rows"
  <2> HIDE DEF front
  <2>1. \A i \in DOMAIN front : i \in DOMAIN all /\ all[i] = front[i]
    BY <1>1, Appended
  <2>2. ASSUME NEW i \in DOMAIN all, i \notin DOMAIN front PROVE all[i].table = "rows"
    <3>1. i - Len(front) \in DOMAIN ext /\ all[i] = ext[i - Len(front)]
      BY <1>1, <2>2, Appended
    <3> QED
      BY <3>1
  <2> QED
    BY <2>1, <2>2
<1>5. ASSUME NEW i \in DOMAIN all, all[i] = Clear("leaves")
      PROVE  \E j \in DOMAIN all : j > i /\ all[j] = put
  <2> HIDE DEF all, front, put
  <2>1. i \in DOMAIN front /\ front[i] = Clear("leaves")
    BY <1>2, <1>4, <1>5, Zenon
  <2>2. i \notin DOMAIN rs
    BY <1>2, <1>3, <2>1, Zenon
  <2>3. i # last
    BY <1>2, <1>3, <2>1, Zenon
  <2>4. i = last - 1
    BY <1>3, <2>1, <2>2, <2>3, Zenon
  <2>5. last > i
    BY <1>1, <2>4
  <2>6. last \in DOMAIN all /\ all[last] = put
    BY <1>3, <1>4, Zenon
  <2> QED
    BY <2>5, <2>6
<1>6. \E i \in DOMAIN all : all[i] = put
  BY <1>3, <1>4
<1> HIDE DEF all
<1>7. IndexMissing(k, all, leaves, entries)
  BY <1>5, <1>6 DEF IndexMissing, put
<1> QED
  BY <1>7 DEF all, front

LEMMA IndexAskedMore ==
    ASSUME NEW S, NEW rs \in Seq(S), NEW ext \in Seq(S), NEW leaves, NEW entries,
           IndexMissing("indexedDb", rs, leaves, entries)
    PROVE  IndexMissing("indexedDb", rs \o ext, leaves, entries)
<1> DEFINE all == rs \o ext
<1>1. \A i \in DOMAIN rs : i \in DOMAIN all /\ all[i] = rs[i]
  BY Appended
<1> HIDE DEF all
<1>2. IndexMissing("indexedDb", all, leaves, entries)
  BY <1>1 DEF IndexMissing
<1> QED
  BY <1>2 DEF all

\* A request of the index does its part, another one none.
LEMMA IndexMissingLess ==
    ASSUME NEW S, NEW rs \in Seq(S), rs # << >>, NEW k, NEW leaves, NEW after, NEW entries,
           IndexMissing(k, rs, leaves, entries),
           \/ rs[1] = Put("leaves", 0, entries) /\ Entries(after) = entries
           \/ rs[1] = Clear("leaves") /\ after = NoRows
           \/ rs[1] # Put("leaves", 0, entries) /\ rs[1] # Clear("leaves") /\ after = leaves
    PROVE  IndexMissing(k, Tail(rs), after, entries)
<1> DEFINE t == Tail(rs)
           put == Put("leaves", 0, entries)
<1>1. /\ \A i \in DOMAIN t : i \in Nat /\ i + 1 \in DOMAIN rs /\ t[i] = rs[i + 1]
      /\ 1 \in DOMAIN rs
  BY Tails
<1>2. ASSUME NEW i \in DOMAIN rs, i # 1
      PROVE  \E j \in DOMAIN t : j = i - 1 /\ t[j] = rs[i]
  BY <1>2, StillInTail
<1>3. put # Clear("leaves")
  BY Fields
<1> HIDE DEF t, put
<1>4. ASSUME k # "indexedDb", NEW i \in DOMAIN t, t[i] = Clear("leaves")
      PROVE  \E j \in DOMAIN t : j > i /\ t[j] = put
  <2>1. i \in Nat /\ i + 1 \in DOMAIN rs /\ rs[i + 1] = Clear("leaves")
    BY <1>1, <1>4
  <2>2. PICK j \in DOMAIN rs : j > i + 1 /\ rs[j] = put
    BY <1>4, <2>1 DEF IndexMissing, put
  <2>3. j \in Nat
    OBVIOUS
  <2>4. j # 1 /\ j - 1 > i
    BY <2>1, <2>2, <2>3
  <2> QED
    BY <1>2, <2>2, <2>4
<1>5. \/ \E i \in DOMAIN t : t[i] = put
      \/ Entries(after) = entries
      \/ k = "indexedDb" /\ after = NoRows
  <2>1. CASE rs[1] = put /\ Entries(after) = entries
    BY <2>1
  <2>2. CASE rs[1] = Clear("leaves") /\ after = NoRows
    <3>1. CASE k = "indexedDb"
      BY <2>2, <3>1
    <3>2. CASE k # "indexedDb"
      <4>1. PICK j \in DOMAIN rs : j > 1 /\ rs[j] = put
        BY <1>1, <2>2, <3>2 DEF IndexMissing, put
      <4>2. j # 1
        BY <4>1
      <4> QED
        BY <1>2, <4>1, <4>2
    <3> QED
      BY <3>1, <3>2
  <2>3. CASE rs[1] # put /\ rs[1] # Clear("leaves") /\ after = leaves
    <3>1. CASE \E i \in DOMAIN rs : rs[i] = put
      <4>1. PICK i \in DOMAIN rs : rs[i] = put
        BY <3>1
      <4> QED
        BY <1>2, <2>3, <4>1
    <3>2. CASE ~\E i \in DOMAIN rs : rs[i] = put
      BY <2>3, <3>2 DEF IndexMissing, put
    <3> QED
      BY <3>1, <3>2
  <2> QED
    BY <2>1, <2>2, <2>3 DEF put
<1>6. IndexMissing(k, t, after, entries)
  BY <1>4, <1>5 DEF IndexMissing, put
<1> QED
  BY <1>6 DEF t

LEMMA IndexedInit == Init => Indexed
<1> SUFFICES ASSUME Init PROVE Indexed
  OBVIOUS
<1>1. durable = NoRows /\ view = NoRows /\ phase = "closed"
  BY DEF Init
<1>2. StoredRows = NoRows /\ "leaves" \notin DOMAIN durable /\ "leaves" \notin DOMAIN view
  BY <1>1, Empty, StoredRowsAre
<1>3. ~InSession /\ ~Running
  BY <1>1 DEF InSession, Running
<1> QED
  BY <1>1, <1>2, <1>3 DEF Indexed, IndexInMemory, IndexOnDisk, IndexInView, IndexRequested, IndexLeftAlone,
     NoRowsYet

\* Rows of no version become no rows of another.
LEMMA NothingUpgraded ==
    ASSUME NEW rows, NEW after, rows = NoRows, after = [id \in DOMAIN rows |-> InFormat(rows[id])]
    PROVE  after = NoRows
<1>1. DOMAIN rows = {}
  BY Empty
<1>2. after \in [{} -> {}]
  BY <1>1
<1> QED
  BY <1>2, Empty

\* Outside a session nothing is said of memory and of requests.
LEMMA NotInSession ==
    ASSUME ~InSession'
    PROVE  IndexInMemory' /\ IndexRequested' /\ IndexLeftAlone'
BY DEF InSession, IndexInMemory, IndexRequested, IndexLeftAlone

LEMMA IndexedOpen == ASSUME Form, Form', Indexed, torn = "no", Open PROVE Indexed'
<1>1. ~InSession' /\ UNCHANGED <<kind, persistent, torn, unindexed>>
  BY OutsideIs DEF Outside
<1>2. IndexOnDisk /\ NoRowsYet
  BY DEF Indexed
<1>3. StoredRows' = StoredRows
  BY OpenIs
<1>4. StoredExactly' => StoredExactly
  <2>1. kind \notin Maps => version' = version
    BY OpenIs
  <2>2. kind = "localStorage" => ~persistent
    BY DEF Form, Sessions
  <2> QED
    BY <1>1, <2>1, <2>2 DEF StoredExactly, Maps
<1>5. IndexOnDisk'
  <2>1. CASE durable' = durable
    BY <1>1, <1>2, <1>3, <1>4, <2>1 DEF IndexOnDisk, LeavesLead
  <2>2. CASE durable' # durable
    <3>1. durable = NoRows /\ durable' = [t \in TablesNeeded |-> NoRows]
      BY <2>2, OpenIs
    <3>2. "leaves" \in DOMAIN durable' => durable'["leaves"] = NoRows
      BY <3>1
    <3>3. StoredRows' = NoRows
      BY <1>3, <3>1, StoredRowsAre, Empty
    <3>4. Entries(NoRows) = {} /\ Pairs(NoRows) = {} /\ LeadsTo({}, NoRows, unindexed')
      BY LeavesThere, PairsOfNothing
    <3> QED
      BY <3>2, <3>3, <3>4 DEF IndexOnDisk, LeavesLead
  <2> QED
    BY <2>1, <2>2
<1>6. IndexInView'
  <2>1. CASE kind \in Maps
    <3>1. view' = durable'
      BY <2>1, OpenIs
    <3> QED
      BY <1>5, <3>1 DEF IndexInView, IndexOnDisk, LeavesLead
  <2>2. CASE kind \notin Maps
    <3>1. view' = NoRows
      BY <2>2, OpenIs
    <3> QED
      BY <3>1, Empty DEF IndexInView
  <2> QED
    BY <2>1, <2>2
<1>7. NoRowsYet'
  <2>1. phase' # "recreating" /\ schema' \in version .. MaxVersion \ {0}
    BY DEF Open
  <2>2. kind \in Maps => version' # 0
    BY <2>1, OpenIs
  <2>3. kind \notin Maps => version' = version
    BY OpenIs
  <2> QED
    BY <1>2, <1>3, <2>1, <2>2, <2>3 DEF NoRowsYet
<1> QED
  BY <1>1, <1>5, <1>6, <1>7, NotInSession DEF Indexed

\* Dropped when its table is created again, the index lost nothing if there was no row.
LEMMA IndexedUpgrade ==
    ASSUME Form, Form', Indexed, torn = "no", UpgradeIndexedDb \/ RecreateTables
    PROVE  Indexed'
<1>1. ~InSession' /\ UNCHANGED <<kind, persistent, torn, schema, view>>
  <2>1. Outside
    BY DEF Outside
  <2> QED
    BY <2>1, OutsideIs DEF UpgradeIndexedDb, RecreateTables
<1>2. IndexInView /\ NoRowsYet /\ schema \in 1 .. MaxVersion /\ MaxVersion \in Nat
  BY StoresBoundsAssumption DEF Indexed, Form, Sessions
<1>3. "leaves" \in DOMAIN durable' => durable'["leaves"] = NoRows
  <2> DEFINE recreated == Recreated(durable)
  <2>1. DOMAIN recreated = TablesNeeded /\ ("leaves" \in TablesNeeded => recreated["leaves"] = NoRows)
    BY RecreatedFits DEF Form
  <2>2. \/ durable' = [recreated EXCEPT !["rows"] = Transformed(recreated["rows"])]
        \/ durable' = recreated
    BY DEF UpgradeIndexedDb, RecreateTables
  <2> HIDE DEF recreated
  <2> QED
    BY <2>1, <2>2
<1>4. version' = schema /\ version' # 0 /\ phase' # "recreating"
  BY <1>2 DEF UpgradeIndexedDb, RecreateTables, Form, Sessions
<1>5. StoredExactly' => StoredRows' = NoRows
  <2> SUFFICES ASSUME StoredExactly' PROVE StoredRows' = NoRows
    OBVIOUS
  <2>1. kind \notin Maps
    BY DEF UpgradeIndexedDb, RecreateTables, Form, Sessions, Maps
  <2>2. version' = 1 /\ schema = 1
    BY <1>1, <1>4, <2>1 DEF StoredExactly, Maps
  <2>3. version = 0 \/ (phase = "recreating" /\ version = 1)
    BY <1>2, <2>2 DEF UpgradeIndexedDb, RecreateTables, Form, Sessions
  <2>4. StoredRows = NoRows
    BY <1>2, <2>3 DEF NoRowsYet
  <2>5. \/ StoredRows' = StoredRows
        \/ StoredRows' = [id \in DOMAIN StoredRows |-> InFormat(StoredRows[id])]
    <3>1. Atomically /\ ~Running /\ torn' = "no" /\ kind # "memory"
      BY <1>1, <2>1, AtomicUpgrade DEF Running, UpgradeIndexedDb, RecreateTables, Maps
    <3> QED
      BY <3>1 DEF Atomically, Running
  <2> QED
    BY <2>4, <2>5, NothingUpgraded
<1>6. IndexOnDisk'
  <2>1. Entries(NoRows) = {} /\ Pairs(NoRows) = {} /\ LeadsTo({}, NoRows, unindexed')
    BY LeavesThere, PairsOfNothing
  <2> QED
    BY <1>3, <1>5, <2>1 DEF IndexOnDisk, LeavesLead
<1> QED
  BY <1>1, <1>2, <1>4, <1>6, NotInSession DEF Indexed, IndexInView, NoRowsYet

LEMMA IndexedStoreVersion == ASSUME Form, Form', Indexed, torn = "no", StoreVersion PROVE Indexed'
<1>1. /\ ~InSession' /\ UNCHANGED <<kind, persistent, torn, unindexed, durable, view>>
      /\ kind = "webSql" /\ phase = "upgrading" /\ version' = schema
  BY DEF StoreVersion, InSession
<1>2. IndexOnDisk /\ IndexInView /\ NoRowsYet
  BY DEF Indexed
<1>3. version < schema /\ version \in Nat /\ schema \in Nat
  BY <1>1, StoresBoundsAssumption DEF Form, Sessions
<1>4. version' \in {0, 1} => version = 0
  BY <1>1, <1>3
<1>5. StoredRows' = StoredRows
  BY <1>1, StoredRowsAre
<1>6. StoredExactly' => StoredExactly
  BY <1>1, <1>4 DEF StoredExactly
<1>7. IndexOnDisk'
  BY <1>1, <1>2, <1>5, <1>6 DEF IndexOnDisk, LeavesLead
<1> QED
  BY <1>1, <1>2, <1>4, <1>5, <1>7, NotInSession DEF Indexed, IndexInView, NoRowsYet

LEMMA IndexedTransform == ASSUME Form, Form', Indexed, torn = "no", TransformRows PROVE Indexed'
<1>1. /\ ~InSession' /\ UNCHANGED <<kind, persistent, torn, unindexed, version, view>>
      /\ phase = "transforming" /\ phase' # "recreating" /\ kind = "webSql"
      /\ \/ durable' = [durable EXCEPT !["rows"] = Transformed(durable["rows"])]
         \/ durable' = durable
  BY DEF TransformRows, InSession, Form, Sessions
<1>2. IndexOnDisk /\ IndexInView
  BY DEF Indexed
<1>3. version # 0
  BY <1>1, StoresBoundsAssumption DEF Form, Sessions
<1>4. "leaves" \in DOMAIN durable' => "leaves" \in DOMAIN durable /\ durable'["leaves"] = durable["leaves"]
  BY <1>1
<1>5. Pairs(StoredRows') = Pairs(StoredRows)
  <2>1. Atomically /\ ~Running /\ torn' = "no" /\ kind # "memory"
    BY <1>1, AtomicUpgrade DEF Running
  <2>2. \/ StoredRows' = StoredRows
        \/ StoredRows' = [id \in DOMAIN StoredRows |-> InFormat(StoredRows[id])]
    BY <2>1 DEF Atomically, Running
  <2>3. Table(StoredRows)
    BY StoredTable DEF Form
  <2> QED
    BY <2>2, <2>3, UpgradedPairs
<1>6. StoredExactly' = StoredExactly
  BY <1>1 DEF StoredExactly
<1>7. IndexOnDisk'
  BY <1>1, <1>2, <1>4, <1>5, <1>6 DEF IndexOnDisk, LeavesLead, LeadsTo
<1> QED
  BY <1>1, <1>2, <1>3, <1>7, NotInSession DEF Indexed, IndexInView, NoRowsYet

LEMMA IndexedPrefetch == ASSUME Form, Form', IdsBelow, Indexed, torn = "no", Prefetch PROVE Indexed'
<1>1. /\ ~InSession /\ InSession' /\ phase' = "idle" /\ version = schema /\ "rows" \in DOMAIN durable
      /\ UNCHANGED <<kind, persistent, durable, version, schema, view, torn, unindexed>>
      /\ cache' = StoredRows /\ StoredRows' = StoredRows
  BY PrefetchIs
<1>2. IndexOnDisk /\ IndexInView /\ NoRowsYet
  BY DEF Indexed
<1>3. index' = IF persistent THEN Entries(durable["leaves"]) ELSE Pairs(StoredRows)
  BY <1>1, PrefetchedIndexIs DEF Prefetch, Form
<1>4. persistent => "leaves" \in DOMAIN durable
  BY <1>1, StoredTable, Needed DEF Form
<1>5. persistent /\ Exact' => StoredExactly
  BY <1>1 DEF Exact, StoredExactly
<1>6. index' \subseteq Pairs(cache')
  BY <1>1, <1>2, <1>3, <1>4 DEF IndexOnDisk, LeavesLead
<1>7. ASSUME Exact' PROVE LeadsTo(index', cache', Lost')
  <2>1. CASE ~persistent
    BY <1>1, <1>3, <2>1 DEF LeadsTo
  <2>2. CASE persistent /\ kind = "memory"
    <3>1. cache' = NoRows
      BY <1>1, <2>2 DEF IdsBelow
    <3> QED
      BY <3>1, PairsOfNothing
  <2>3. CASE persistent /\ kind # "memory"
    <3>1. Lost' = unindexed
      BY <1>1, <2>3 DEF Lost
    <3> QED
      BY <1>1, <1>2, <1>3, <1>4, <1>5, <1>7, <2>3, <3>1 DEF IndexOnDisk, LeavesLead
  <2> QED
    BY <2>1, <2>2, <2>3
<1>8. StoredExactly' = StoredExactly
  BY <1>1 DEF StoredExactly
<1> QED
  BY <1>1, <1>2, <1>6, <1>7, <1>8 DEF Indexed, IndexInMemory, IndexOnDisk, IndexInView, IndexRequested,
     IndexLeftAlone, NoRowsYet

\* Within a session: nothing happens to the tables outside the page.
LEMMA IndexedInSession ==
    ASSUME Form, Indexed, torn = "no", InSession, InSession',
           UNCHANGED <<kind, persistent, version, schema, durable, unindexed>>
    PROVE  /\ IndexOnDisk' /\ NoRowsYet' /\ Exact' = Exact /\ Lost' = Lost
           /\ view' \in {view, durable} => IndexInView'
<1>1. IndexOnDisk /\ IndexInView /\ NoRowsYet
  BY DEF Indexed
<1>2. StoredRows' = StoredRows /\ StoredExactly' = StoredExactly /\ Exact' = Exact /\ Lost' = Lost
  BY StoredRowsAre DEF StoredExactly, Exact, Lost
<1>3. version # 0 /\ phase' # "recreating"
  BY StoresBoundsAssumption DEF Form, Sessions, InSession
<1> QED
  BY <1>1, <1>2, <1>3 DEF IndexOnDisk, IndexInView, LeavesLead, NoRowsYet

LEMMA IndexedStatement ==
    ASSUME Form, Indexed, torn = "no", Insert \/ Update \/ DeleteRow \/ Import
    PROVE  Indexed'
<1>1. /\ InSession /\ InSession' /\ phase' # "committing"
      /\ UNCHANGED <<kind, persistent, version, schema, durable, torn, unindexed>> /\ view' \in {view, durable}
  <2>1. InSession /\ InSession' /\ UNCHANGED <<kind, persistent, version, schema, durable, torn, unindexed>>
    BY StatementSources
  <2> QED
    BY <2>1 DEF Insert, Update, DeleteRow, Import
<1>2. IndexInMemory
  BY DEF Indexed
<1>3. IndexOnDisk' /\ NoRowsYet' /\ IndexInView' /\ Exact' = Exact /\ Lost' = Lost
  BY <1>1, IndexedInSession
<1>4. index' \subseteq Pairs(cache') /\ \A lost : LeadsTo(index, cache, lost) => LeadsTo(index', cache', lost)
  <2>1. index \subseteq Pairs(cache)
    BY <1>1, <1>2 DEF IndexInMemory
  <2>2. CASE DeleteRow
    BY <2>1, <2>2, DeleteRowPairs
  <2>3. CASE Insert \/ Import
    <3>1. PICK value \in Values : SetRow(nextId, NewRow(value))
      BY <2>3 DEF Insert, Import
    <3> QED
      BY <2>1, <3>1, SetRowPairs
  <2>4. CASE Update
    <3>1. PICK id \in DOMAIN cache, value \in Values : SetRow(id, NewRow(value))
      BY <2>4 DEF Update, Found
    <3> QED
      BY <2>1, <3>1, SetRowPairs
  <2> QED
    BY <2>2, <2>3, <2>4
<1>5. IndexLeftAlone'
  <2>1. CASE Import
    <3>1. view' = durable /\ requests' = << >>
      BY <2>1 DEF Import, Form, Requests, Running
    <3> QED
      BY <1>1, <3>1 DEF IndexLeftAlone
  <2>2. CASE Insert \/ Update \/ DeleteRow
    BY <2>2 DEF IndexLeftAlone, Insert, Update, DeleteRow
  <2> QED
    BY <2>1, <2>2
<1> QED
  BY <1>1, <1>2, <1>3, <1>4, <1>5 DEF Indexed, IndexInMemory, IndexRequested

LEMMA IndexedCommit == ASSUME Form, Indexed, torn = "no", Commit PROVE Indexed'
<1>1. /\ InSession /\ InSession'
      /\ view' = (IF kind = "localStorage" THEN view ELSE durable)
      /\ requests' = MergeTableChanges \o MergeIndexChanges \o Flushes /\ phase' = "committing"
      /\ UNCHANGED <<kind, persistent, durable, version, schema, cache, base, index, torn, unindexed>>
  BY DEF Commit, InSession, storeVars, memoryVars
<1>2. IndexInMemory
  BY DEF Indexed
<1>3. IndexOnDisk' /\ NoRowsYet' /\ IndexInView' /\ Exact' = Exact /\ Lost' = Lost
  BY <1>1, IndexedInSession
<1>4. IndexInMemory'
  BY <1>1, <1>2, <1>3 DEF IndexInMemory
<1>5. IndexRequested'
  <2> SUFFICES ASSUME persistent PROVE IndexMissing(kind, requests', view'["leaves"], index)
    BY <1>1 DEF IndexRequested
  <2> DEFINE A == Asked(Target, index, kind, persistent)
             rs == MergeTableChanges
             mid == MergeIndexChanges
  <2>1. rs \in Seq(A) /\ \A i \in DOMAIN rs : rs[i].table = "rows"
    <3>1. rs \in Seq(RowsAsked(Target, kind))
      BY MergeTableChangesAre DEF Form
    <3>2. \A r \in RowsAsked(Target, kind) : r.table = "rows"
      BY Fields DEF RowsAsked
    <3>3. RowsAsked(Target, kind) \subseteq A
      BY AskedParts
    <3> QED
      BY <3>1, <3>2, <3>3, SeqWider, SeqElements
  <2>2. mid \in Seq(A) /\ Len(mid) = 2 /\ mid[2] = Put("leaves", 0, index)
    <3>1. /\ mid \in Seq(IF persistent THEN LeavesAsked(index, kind) ELSE {})
          /\ Len(mid) = 2 /\ mid[2] = Put("leaves", 0, index)
      BY MergeIndexChangesAre DEF Form
    <3>2. (IF persistent THEN LeavesAsked(index, kind) ELSE {}) \subseteq A
      BY AskedParts
    <3> QED
      BY <3>1, <3>2, SeqWider
  <2>3. Flushes = << >>
    BY <1>1 DEF Flushes, Form, Sessions
  <2>4. << >> \in Seq(A) /\ DOMAIN << >> = {}
    OBVIOUS
  <2> HIDE DEF A, rs, mid
  <2>5. IndexMissing(kind, rs \o mid \o << >>, view'["leaves"], index)
    BY <2>1, <2>2, <2>4, IndexAsked
  <2> QED
    BY <1>1, <2>3, <2>5 DEF rs, mid
<1> QED
  BY <1>1, <1>3, <1>4, <1>5 DEF Indexed, IndexLeftAlone

LEMMA IndexedIssueImport == ASSUME Form, Indexed, torn = "no", IssueImport PROVE Indexed'
<1>1. /\ InSession /\ InSession' /\ phase = "import" /\ phase' = "importing" /\ requests' = Imported
      /\ UNCHANGED <<kind, persistent, durable, version, schema, view, cache, base, index, torn, unindexed>>
  BY DEF IssueImport, Imported, InSession, storeVars, memoryVars
<1>2. IndexInMemory /\ IndexLeftAlone
  BY DEF Indexed
<1>3. IndexOnDisk' /\ NoRowsYet' /\ IndexInView' /\ Exact' = Exact /\ Lost' = Lost
  BY <1>1, IndexedInSession
<1>4. IndexInMemory' /\ IndexRequested'
  BY <1>1, <1>2, <1>3 DEF IndexInMemory, IndexRequested
<1>5. IndexLeftAlone'
  <2>1. Imported \in Seq(RowsAsked(Target, kind))
    BY ImportPuts DEF Form
  <2>2. \A r \in RowsAsked(Target, kind) : r.table = "rows"
    BY Fields DEF RowsAsked
  <2>3. \A i \in DOMAIN Imported : Imported[i].table = "rows"
    BY <2>1, <2>2, SeqElements
  <2> QED
    BY <1>1, <1>2, <2>3 DEF IndexLeftAlone
<1> QED
  BY <1>1, <1>3, <1>4, <1>5 DEF Indexed

LEMMA IndexedComplete ==
    ASSUME Form, Form', Whole, Indexed, torn = "no", torn' = "no", Complete
    PROVE  Indexed'
<1>1. /\ Running /\ InSession /\ InSession' /\ phase' = "idle" /\ requests = << >>
      /\ durable' = (IF kind = "localStorage" THEN durable ELSE view)
      /\ UNCHANGED <<kind, persistent, version, schema, view, cache, index>>
      /\ unindexed' = IF ~persistent THEN {}
                      ELSE IF phase = "importing" THEN unindexed \cup Changed
                      ELSE unindexed \cap (DOMAIN cache \ Found)
  BY DEF Complete, Running, InSession
<1>2. IndexInMemory /\ IndexInView /\ IndexRequested /\ IndexLeftAlone /\ IndexOnDisk
  BY DEF Indexed
<1>3. Exact' = Exact /\ (StoredExactly' => Exact /\ kind # "indexedDb")
  BY <1>1 DEF Exact, StoredExactly, Form, Sessions, InSession
<1>4. ASSUME NEW p \in Pairs(cache) \ index PROVE \A lost : p[2] \in lost => p[2] \in lost \cap (DOMAIN cache \ Found)
  <2>1. PICK id \in DOMAIN cache : p = <<cache[id].value, id>>
    BY PairsAre
  <2>2. p[2] = id /\ id \notin Found
    BY <2>1 DEF Found
  <2> QED
    BY <2>2
<1>5. Exact => LeadsTo(index, cache, Lost')
  <2>1. Exact => LeadsTo(index, cache, Lost)
    BY <1>1, <1>2 DEF IndexInMemory
  <2> QED
    BY <1>1, <1>4, <2>1 DEF Lost, LeadsTo
<1>6. IndexInMemory' /\ IndexInView'
  BY <1>1, <1>2, <1>3, <1>5 DEF IndexInMemory, IndexInView
<1>7. NoRowsYet'
  BY <1>1, StoresBoundsAssumption DEF NoRowsYet, Form, Sessions, InSession
<1>8. IndexOnDisk'
  <2>1. CASE kind = "localStorage"
    <3>1. DOMAIN durable = {"rows"}
      BY <1>1, <2>1, Needed DEF Form, Disk
    <3> QED
      BY <1>1, <2>1, <3>1 DEF IndexOnDisk
  <2>2. CASE kind # "localStorage"
    <3>1. durable' = view /\ ViewRows = cache
      BY <1>1, <2>2, NothingIsMissing DEF Whole
    <3>2. StoredRows' = cache
      BY <1>1, <3>1, StoredRowsAre, ViewRowsAre
    <3>3. CASE persistent /\ phase = "committing"
      <4>1. Entries(view["leaves"]) = index \/ (kind = "indexedDb" /\ view["leaves"] = NoRows)
        BY <1>1, <1>2, <3>3 DEF IndexRequested, IndexMissing
      <4>2. Entries(NoRows) = {}
        BY LeavesThere
      <4>3. index \subseteq Pairs(cache) /\ (Exact => LeadsTo(index, cache, unindexed'))
        BY <1>1, <1>2, <1>5 DEF IndexInMemory, Lost, LeadsTo
      <4> QED
        BY <1>1, <1>3, <3>1, <3>2, <3>3, <4>1, <4>2, <4>3 DEF IndexOnDisk, LeavesLead
    <3>4. CASE persistent /\ phase = "importing"
      <4>1. view["leaves"] = durable["leaves"] /\ "leaves" \in DOMAIN durable
        BY <1>1, <1>2, <3>4, Needed DEF IndexLeftAlone, Form, Disk
      <4>2. StoredRows = base /\ BaseKept
        <5>1. durable["rows"] = Packed(kind, base) /\ BaseKept
          BY <1>1, <3>4 DEF Whole
        <5>2. RowsOf(kind, Packed(kind, base)) = base
          BY PackedThere DEF Form, Memory
        <5>3. "rows" \in DOMAIN durable
          BY <1>1, Needed DEF Form, Disk
        <5> QED
          BY <5>1, <5>2, <5>3, StoredRowsAre
      <4>3. Pairs(base) \subseteq Pairs(cache)
        <5>1. ASSUME NEW p \in Pairs(base) PROVE p \in Pairs(cache)
          <6>1. PICK id \in DOMAIN base : p = <<base[id].value, id>>
            BY PairsAre
          <6> QED
            BY <4>2, <6>1, PairsAre DEF BaseKept
        <5> QED
          BY <5>1
      <4>4. ASSUME StoredExactly' PROVE LeadsTo(Entries(durable["leaves"]), cache, unindexed')
        <5>1. LeadsTo(Entries(durable["leaves"]), base, unindexed)
          BY <1>1, <1>2, <4>1, <4>2, <4>4 DEF IndexOnDisk, LeavesLead, StoredExactly
        <5>2. ASSUME NEW p \in Pairs(cache) \ Entries(durable["leaves"]) PROVE p[2] \in unindexed'
          <6>1. PICK id \in DOMAIN cache : p = <<cache[id].value, id>>
            BY PairsAre
          <6>2. CASE id \in Changed
            BY <1>1, <3>4, <6>1, <6>2
          <6>3. CASE id \notin Changed
            <7>1. id \in DOMAIN base /\ base[id] = cache[id]
              BY <6>3 DEF Changed
            <7>2. p \in Pairs(base)
              BY <6>1, <7>1, PairsAre
            <7> QED
              BY <1>1, <3>4, <5>1, <5>2, <7>2 DEF LeadsTo
          <6> QED
            BY <6>2, <6>3
        <5> QED
          BY <5>2 DEF LeadsTo
      <4>5. Entries(durable["leaves"]) \subseteq Pairs(cache)
        BY <1>2, <4>1, <4>2, <4>3 DEF IndexOnDisk, LeavesLead
      <4> QED
        BY <1>1, <3>1, <3>2, <3>4, <4>1, <4>4, <4>5 DEF IndexOnDisk, LeavesLead
    <3>5. CASE ~persistent
      <4>1. Entries(NoRows) = {} /\ ~StoredExactly'
        BY <1>1, <3>5, LeavesThere DEF StoredExactly
      <4>2. "leaves" \in DOMAIN view => view["leaves"] = NoRows
        BY <1>2, <3>5 DEF IndexInView
      <4> QED
        BY <1>1, <3>1, <4>1, <4>2 DEF IndexOnDisk, LeavesLead
    <3>6. phase = "committing" \/ phase = "importing"
      BY <1>1 DEF Running
    <3> QED
      BY <3>3, <3>4, <3>5, <3>6
  <2> QED
    BY <2>1, <2>2
<1> QED
  BY <1>1, <1>6, <1>7, <1>8 DEF Indexed, IndexRequested, IndexLeftAlone

LEMMA IndexedRollback ==
    ASSUME Form, Indexed, torn = "no", torn' = "no", Refuse \/ Abandon
    PROVE  Indexed'
<1>1. /\ InSession /\ InSession' /\ phase' = "idle" /\ RollbackMemory /\ phase # "importing"
      /\ UNCHANGED <<kind, persistent, version, schema, view, durable, unindexed>>
  <2>1. CASE Refuse
    <3>1. unindexed' = unindexed
      BY <2>1 DEF Refuse
    <3> QED
      BY <2>1, <3>1, Refused DEF Form, InSession
  <2>2. CASE Abandon
    BY <2>2 DEF Abandon, InSession, storeVars
  <2> QED
    BY <2>1, <2>2
<1>2. IndexInMemory
  BY DEF Indexed
<1>3. IndexOnDisk' /\ NoRowsYet' /\ IndexInView' /\ Exact' = Exact /\ Lost' = Lost
  BY <1>1, IndexedInSession
<1>4. index' \subseteq Pairs(cache') /\ \A lost : LeadsTo(index, cache, lost) => LeadsTo(index', cache', lost)
  BY <1>1, <1>2, RollbackPairs DEF IndexInMemory, Form
<1> QED
  BY <1>1, <1>2, <1>3, <1>4 DEF Indexed, IndexInMemory, IndexRequested, IndexLeftAlone

LEMMA IndexedCrash == ASSUME Form, Indexed, torn = "no", Crash PROVE Indexed'
<1>1. ~InSession' /\ phase' = "closed" /\ view' = NoRows /\ UNCHANGED <<kind, persistent>>
  BY CrashIs DEF Crash
<1>2. IndexOnDisk /\ NoRowsYet
  BY DEF Indexed
<1>3. "leaves" \notin DOMAIN view' /\ DOMAIN NoRows = {}
  BY <1>1, Empty
<1>4. IndexOnDisk' /\ NoRowsYet'
  <2>1. CASE kind = "memory"
    BY <1>3, <2>1, CrashIs DEF IndexOnDisk, NoRowsYet
  <2>2. CASE kind # "memory"
    <3>1. durable' = durable /\ StoredRows' = StoredRows /\ version' = version /\ unindexed' = unindexed
      BY <2>2, CrashIs
    <3>2. StoredExactly' = StoredExactly
      BY <1>1, <3>1 DEF StoredExactly
    <3> QED
      BY <1>1, <1>2, <3>1, <3>2 DEF IndexOnDisk, NoRowsYet
  <2> QED
    BY <2>1, <2>2
<1> QED
  BY <1>1, <1>3, <1>4, NotInSession DEF Indexed, IndexInView

LEMMA IndexedExecute == ASSUME Form, Form', Indexed, torn = "no", ExecuteRequest PROVE Indexed'
<1> DEFINE A == Asked(Target, index, kind, persistent)
           r == requests[1]
           rest == Tail(requests)
           leaves == view["leaves"]
           put == Put("leaves", 0, index)
<1>1. /\ Running /\ InSession /\ InSession' /\ requests # << >>
      /\ UNCHANGED <<kind, persistent, version, schema, cache, index, phase, torn, unindexed>>
  BY DEF ExecuteRequest, Running, InSession, memoryVars
<1>2. IndexInMemory /\ IndexOnDisk /\ IndexInView /\ IndexRequested /\ IndexLeftAlone
  BY DEF Indexed
<1>3. requests \in Seq(A) /\ rest \in Seq(A)
  BY Executed DEF Form, Requests
<1>4. /\ DOMAIN view = TablesNeeded /\ DOMAIN durable = TablesNeeded /\ DOMAIN durable' = TablesNeeded'
      /\ "rows" \in TablesNeeded /\ (persistent => "leaves" \in TablesNeeded /\ leaves \in Leaves)
      /\ kind = "localStorage" => TablesNeeded' = {"rows"} /\ ~persistent
  <2>1. DOMAIN view = TablesNeeded /\ DOMAIN durable = TablesNeeded /\ DOMAIN durable' = TablesNeeded'
    BY <1>1 DEF Form, Disk
  <2>2. "rows" \in TablesNeeded /\ (persistent => "leaves" \in TablesNeeded)
    BY Needed DEF Form
  <2>3. TablesNeeded' = TablesNeeded
    BY <1>1 DEF TablesNeeded
  <2>4. persistent => leaves \in Leaves
    BY <2>1, <2>2, FitExcept DEF Form, Disk
  <2>5. kind = "localStorage" => TablesNeeded = {"rows"} /\ ~persistent
    BY Needed DEF Form, Sessions
  <2> QED
    BY <2>1, <2>2, <2>3, <2>4, <2>5
<1>5. IndexInMemory'
  BY <1>1, <1>2 DEF IndexInMemory, Exact, Lost
<1>6. NoRowsYet'
  BY <1>1, StoresBoundsAssumption DEF NoRowsYet, Form, Sessions, InSession
<1>7. IndexOnDisk'
  <2>1. CASE durable' = durable
    <3>1. IndexOnDisk'
      BY <1>1, <2>1, IndexedInSession
    <3> QED
      BY <3>1
  <2>2. CASE durable' # durable
    <3>1. kind = "localStorage"
      BY <2>2, Executed
    <3> QED
      BY <1>4, <3>1 DEF IndexOnDisk
  <2> QED
    BY <2>1, <2>2
<1>8. ASSUME NEW after, view' = [view EXCEPT !["rows"] = after]
      PROVE  "leaves" \in DOMAIN view => view'["leaves"] = leaves
  BY <1>4, <1>8
<1>9. ASSUME NEW after, persistent, view' = [view EXCEPT !["leaves"] = after]
      PROVE  view'["leaves"] = after
  BY <1>4, <1>9
<1>10. DOMAIN view' = DOMAIN view /\ (~persistent => view'["leaves"] = leaves \/ "leaves" \notin DOMAIN view)
  <2>1. \/ view' = view
        \/ \E after : view' = [view EXCEPT !["rows"] = after]
        \/ persistent /\ \E after : view' = [view EXCEPT !["leaves"] = after]
    BY Executed
  <2> QED
    BY <1>8, <2>1
<1>11. IndexInView'
  BY <1>1, <1>2, <1>10 DEF IndexInView
<1>12. \/ /\ \/ \E key \in DOMAIN Target : r = Put("rows", key, Target[key])
             \/ \E keys \in SUBSET Nat : r = Delete("rows", keys)
             \/ r = Clear("rows")
          /\ \E after : view' = [view EXCEPT !["rows"] = after]
          /\ requests' = rest
       \/ /\ r = put /\ view' = [view EXCEPT !["leaves"] = With(leaves, 0, index)]
          /\ requests' = rest
       \/ /\ r = Clear("leaves") /\ view' = [view EXCEPT !["leaves"] = NoRows]
          /\ requests' = rest
       \/ \E keys \in SUBSET Ids :
              /\ kind = "indexedDb" /\ r = Count("rows", keys) /\ view' = view
              /\ requests' = rest \o
                   (IF keys = {} \/ Cardinality(keys) = Cardinality(DOMAIN view["rows"])
                    THEN << Clear("rows") >> ELSE DeleteEach("rows", keys))
       \/ /\ kind = "indexedDb" /\ r = Count("leaves", {}) /\ view' = view
          /\ requests' = rest \o << Clear("leaves") >>
       \/ kind = "localStorage"
  BY Executed, Zenon
<1>13. IndexRequested'
  <2> SUFFICES ASSUME persistent, phase = "committing"
               PROVE  IndexMissing(kind, requests', view'["leaves"], index)
    BY <1>1 DEF IndexRequested
  <2>1. IndexMissing(kind, requests, leaves, index)
    BY <1>1, <1>2 DEF IndexRequested
  <2> HIDE DEF A, r, rest, leaves, put
  <2>2. ASSUME r # put, r # Clear("leaves")
        PROVE  IndexMissing(kind, rest, leaves, index)
    BY <1>1, <1>3, <2>1, <2>2, IndexMissingLess DEF r, rest, put
  <2>3. \A t : t = "rows" => \A key, record, keys :
           /\ Put(t, key, record) # put /\ Put(t, key, record) # Clear("leaves")
           /\ Delete(t, keys) # put /\ Delete(t, keys) # Clear("leaves")
           /\ Clear(t) # put /\ Clear(t) # Clear("leaves")
           /\ Count(t, keys) # put /\ Count(t, keys) # Clear("leaves")
    BY Fields DEF put
  <2>4. Count("leaves", {}) # put /\ Count("leaves", {}) # Clear("leaves")
    BY Fields DEF put
  <2>5. CASE /\ \/ \E key \in DOMAIN Target : r = Put("rows", key, Target[key])
                \/ \E keys \in SUBSET Nat : r = Delete("rows", keys)
                \/ r = Clear("rows")
             /\ \E after : view' = [view EXCEPT !["rows"] = after]
             /\ requests' = rest
    <3>1. r # put /\ r # Clear("leaves")
      BY <2>3, <2>5
    <3>2. view'["leaves"] = leaves
      BY <1>4, <1>8, <2>5
    <3> QED
      BY <2>2, <2>5, <3>1, <3>2
  <2>6. CASE /\ r = put /\ view' = [view EXCEPT !["leaves"] = With(leaves, 0, index)]
             /\ requests' = rest
    <3>1. view'["leaves"] = With(leaves, 0, index)
      BY <1>9, <2>6
    <3>2. Entries(With(leaves, 0, index)) = index
      BY <1>4, LeavesThere DEF Form, Memory
    <3>3. IndexMissing(kind, rest, With(leaves, 0, index), index)
      BY <1>1, <1>3, <2>1, <2>6, <3>2, IndexMissingLess DEF r, rest, put
    <3> QED
      BY <2>6, <3>1, <3>3
  <2>7. CASE /\ r = Clear("leaves") /\ view' = [view EXCEPT !["leaves"] = NoRows]
             /\ requests' = rest
    <3>1. view'["leaves"] = NoRows
      BY <1>9, <2>7
    <3>2. IndexMissing(kind, rest, NoRows, index)
      BY <1>1, <1>3, <2>1, <2>7, IndexMissingLess DEF r, rest
    <3> QED
      BY <2>7, <3>1, <3>2
  <2>8. ASSUME kind = "indexedDb", NEW ext \in Seq(A), requests' = rest \o ext, view' = view,
               r # put, r # Clear("leaves")
        PROVE  IndexMissing(kind, requests', view'["leaves"], index)
    <3>1. IndexMissing("indexedDb", rest, leaves, index)
      BY <2>2, <2>8
    <3>2. IndexMissing("indexedDb", rest \o ext, leaves, index)
      BY <1>3, <3>1, IndexAskedMore
    <3> QED
      BY <2>8, <3>2 DEF leaves
  <2>9. CASE \E keys \in SUBSET Ids :
                /\ kind = "indexedDb" /\ r = Count("rows", keys) /\ view' = view
                /\ requests' = rest \o
                     (IF keys = {} \/ Cardinality(keys) = Cardinality(DOMAIN view["rows"])
                      THEN << Clear("rows") >> ELSE DeleteEach("rows", keys))
    <3>1. PICK keys \in SUBSET Ids :
                /\ kind = "indexedDb" /\ r = Count("rows", keys) /\ view' = view
                /\ requests' = rest \o
                     (IF keys = {} \/ Cardinality(keys) = Cardinality(DOMAIN view["rows"])
                      THEN << Clear("rows") >> ELSE DeleteEach("rows", keys))
      BY <2>9
    <3>2. << Clear("rows") >> \in Seq(A)
      BY AskedThere, AskedParts, SeqOfOne DEF A
    <3>3. DeleteEach("rows", keys) \in Seq(A)
      <4>1. \A key \in keys : {key} \subseteq Nat
        BY IdsAreNat
      <4>2. \A key \in keys : Delete("rows", {key}) \in A
        BY <4>1, AskedThere, AskedParts DEF A
      <4>3. IsFiniteSet(keys)
        BY IdsAreFinite
      <4>4. Deletes(DeleteEach("rows", keys), "rows", keys)
        BY <4>3, DeleteEachIs
      <4> QED
        BY <4>2, <4>4, SeqWider DEF Deletes
    <3>4. r # put /\ r # Clear("leaves")
      BY <2>3, <3>1
    <3>5. CASE keys = {} \/ Cardinality(keys) = Cardinality(DOMAIN view["rows"])
      <4>1. requests' = rest \o << Clear("rows") >>
        BY <3>1, <3>5
      <4> QED
        BY <2>8, <3>1, <3>2, <3>4, <4>1
    <3>6. CASE ~(keys = {} \/ Cardinality(keys) = Cardinality(DOMAIN view["rows"]))
      <4>1. requests' = rest \o DeleteEach("rows", keys)
        BY <3>1, <3>6
      <4> QED
        BY <2>8, <3>1, <3>3, <3>4, <4>1
    <3> QED
      BY <3>5, <3>6
  <2>10. CASE /\ kind = "indexedDb" /\ r = Count("leaves", {}) /\ view' = view
              /\ requests' = rest \o << Clear("leaves") >>
    <3>1. Clear("leaves") \in A
      BY DEF A, Asked, LeavesAsked
    <3>2. << Clear("leaves") >> \in Seq(A)
      BY <3>1, SeqOfOne
    <3> QED
      BY <2>4, <2>8, <2>10, <3>2
  <2> QED
    BY <1>4, <1>12, <2>5, <2>6, <2>7, <2>9, <2>10, Zenon DEF r, rest, leaves, put
<1>14. IndexLeftAlone'
  <2> SUFFICES ASSUME persistent, phase = "importing"
               PROVE  /\ view'["leaves"] = durable'["leaves"]
                      /\ \A i \in DOMAIN requests' : requests'[i].table = "rows"
    BY <1>1 DEF IndexLeftAlone, Running
  <2> HIDE DEF A, r, rest, leaves, put
  <2>1. leaves = durable["leaves"] /\ \A i \in DOMAIN requests : requests[i].table = "rows"
    BY <1>2 DEF IndexLeftAlone, leaves
  <2>2. durable' = durable /\ kind # "localStorage"
    BY <1>4, Executed
  <2>3. r.table = "rows" /\ \A i \in DOMAIN rest : rest[i].table = "rows"
    <3>1. 1 \in DOMAIN requests /\ \A i \in DOMAIN rest : i + 1 \in DOMAIN requests /\ rest[i] = requests[i + 1]
      BY <1>1, <1>3, Tails DEF rest
    <3> QED
      BY <2>1, <3>1 DEF r
  <2>4. \A key, record, keys : /\ Put("leaves", key, record).table # "rows"
                              /\ Clear("leaves").table # "rows" /\ Count("leaves", keys).table # "rows"
    BY Fields
  <2>5. ASSUME NEW ext \in Seq(A), requests' = rest \o ext, view' = view,
               \A i \in DOMAIN ext : ext[i].table = "rows"
        PROVE  view'["leaves"] = durable'["leaves"] /\ \A i \in DOMAIN requests' : requests'[i].table = "rows"
    <3>1. ASSUME NEW i \in DOMAIN (rest \o ext) PROVE (rest \o ext)[i].table = "rows"
      <4>1. \/ i \in DOMAIN rest /\ (rest \o ext)[i] = rest[i]
            \/ i - Len(rest) \in DOMAIN ext /\ (rest \o ext)[i] = ext[i - Len(rest)]
        BY <1>3, <3>1, Appended
      <4> QED
        BY <2>3, <2>5, <4>1
    <3> QED
      BY <2>1, <2>2, <2>5, <3>1 DEF leaves
  <2>6. CASE (\E after : view' = [view EXCEPT !["rows"] = after]) /\ requests' = rest
    <3>1. view'["leaves"] = leaves
      BY <1>4, <1>8, <2>6
    <3> QED
      BY <2>1, <2>2, <2>3, <2>6, <3>1
  <2>7. CASE \E keys \in SUBSET Ids :
                /\ view' = view
                /\ requests' = rest \o
                     (IF keys = {} \/ Cardinality(keys) = Cardinality(DOMAIN view["rows"])
                      THEN << Clear("rows") >> ELSE DeleteEach("rows", keys))
    <3>1. PICK keys \in SUBSET Ids :
                /\ view' = view
                /\ requests' = rest \o
                     (IF keys = {} \/ Cardinality(keys) = Cardinality(DOMAIN view["rows"])
                      THEN << Clear("rows") >> ELSE DeleteEach("rows", keys))
      BY <2>7
    <3>2. << Clear("rows") >> \in Seq(A) /\ \A i \in DOMAIN << Clear("rows") >> : << Clear("rows") >>[i].table = "rows"
      <4>1. << Clear("rows") >> \in Seq(A)
        BY AskedThere, AskedParts, SeqOfOne DEF A
      <4>2. Clear("rows").table = "rows"
        BY Fields
      <4> QED
        BY <4>1, <4>2
    <3>3. DeleteEach("rows", keys) \in Seq(A) /\ \A i \in DOMAIN DeleteEach("rows", keys) : DeleteEach("rows", keys)[i].table = "rows"
      <4> DEFINE D == {Delete("rows", {key}) : key \in keys}
      <4>1. \A key \in keys : {key} \subseteq Nat
        BY IdsAreNat
      <4>2. \A key \in keys : Delete("rows", {key}) \in A
        BY <4>1, AskedThere, AskedParts DEF A
      <4>3. \A d \in D : d \in A /\ d.table = "rows"
        <5>1. \A key : Delete("rows", {key}).table = "rows"
          BY Fields
        <5>2. \A d \in D : \E key \in keys : d = Delete("rows", {key})
          OBVIOUS
        <5> HIDE DEF D
        <5> QED
          BY <4>2, <5>1, <5>2
      <4>4. IsFiniteSet(keys)
        BY IdsAreFinite
      <4>5. Deletes(DeleteEach("rows", keys), "rows", keys)
        BY <4>4, DeleteEachIs
      <4>6. DeleteEach("rows", keys) \in Seq(D)
        BY <4>5 DEF Deletes
      <4> HIDE DEF D
      <4>7. D \subseteq A
        BY <4>3
      <4> QED
        BY <4>3, <4>6, <4>7, SeqWider, SeqElements
    <3>4. CASE keys = {} \/ Cardinality(keys) = Cardinality(DOMAIN view["rows"])
      <4>1. requests' = rest \o << Clear("rows") >>
        BY <3>1, <3>4
      <4> QED
        BY <2>5, <3>1, <3>2, <4>1
    <3>5. CASE ~(keys = {} \/ Cardinality(keys) = Cardinality(DOMAIN view["rows"]))
      <4>1. requests' = rest \o DeleteEach("rows", keys)
        BY <3>1, <3>5
      <4> QED
        BY <2>5, <3>1, <3>3, <4>1
    <3> QED
      BY <3>4, <3>5
  <2>8. r # put /\ r # Clear("leaves") /\ r # Count("leaves", {})
    BY <2>3, <2>4 DEF put
  <2> QED
    BY <1>12, <2>2, <2>6, <2>7, <2>8, Zenon DEF r, rest, leaves, put
<1> QED
  BY <1>1, <1>5, <1>6, <1>7, <1>11, <1>13, <1>14 DEF Indexed

LEMMA IndexedStep == Form /\ Form' /\ IdsBelow /\ Whole /\ TornBy /\ Indexed /\ [Next]_vars => Indexed'
<1> SUFFICES ASSUME Form, Form', IdsBelow, Whole, TornBy, Indexed, [Next]_vars, torn' = "no" PROVE Indexed'
  BY DEF Indexed
<1>1. torn = "no"
  BY TornStep
<1>2. CASE UNCHANGED vars
  <2>1. /\ IndexInMemory' = IndexInMemory /\ IndexOnDisk' = IndexOnDisk /\ IndexInView' = IndexInView
        /\ IndexRequested' = IndexRequested /\ IndexLeftAlone' = IndexLeftAlone /\ NoRowsYet' = NoRowsYet
    BY <1>2, Unmoved DEF IndexInMemory, IndexOnDisk, IndexInView, IndexRequested,
                         IndexLeftAlone, NoRowsYet, Exact, StoredExactly, Lost
  <2> QED
    BY <1>1, <1>2, <2>1, Unmoved DEF Indexed
<1>3. CASE Outside
  <2>1. ScanFails => Indexed'
    <3> SUFFICES ASSUME ScanFails PROVE Indexed'
      OBVIOUS
    <3>1. ~InSession' /\ phase' = "closed" /\ UNCHANGED <<storeVars, view, torn, unindexed>>
      BY DEF ScanFails, InSession
    <3>2. StoredRows' = StoredRows /\ StoredExactly' = StoredExactly
      BY <3>1, StoredRowsAre DEF storeVars, StoredExactly
    <3> QED
      BY <1>1, <3>1, <3>2, NotInSession DEF Indexed, IndexOnDisk, IndexInView, NoRowsYet, storeVars
  <2> QED
    BY <1>1, <1>3, <2>1, IndexedOpen, IndexedUpgrade, IndexedStoreVersion, IndexedTransform DEF Outside
<1> QED
  BY <1>1, <1>2, <1>3, NextIs, IndexedPrefetch, IndexedStatement, IndexedCommit, IndexedIssueImport,
     IndexedExecute, IndexedComplete, IndexedRollback, IndexedCrash

\* The index leads to no row that is gone or changed, in any session: an entry goes with
\* its row, the index is put after its table was cleared, an import leaves the table
\* alone, and an upgrade that drops the table leaves an index without entries.  It leads
\* to every row where it is rebuilt from the rows, and where it is read back whole to
\* every row but those imported since which no transaction has written it for.
THEOREM IndexLeadsToRows == Spec => []IndexMatchesRows
<1>1. Init => Indexed
  BY IndexedInit
<1>2. Form /\ Form' /\ IdsBelow /\ Whole /\ TornBy /\ Indexed /\ [Next]_vars => Indexed'
  BY IndexedStep
<1>3. Indexed => IndexMatchesRows
  <2> SUFFICES ASSUME Indexed, phase \in {"idle", "active"}, torn = "no"
               PROVE  /\ index \subseteq Pairs(cache)
                      /\ ~persistent \/ kind = "memory" => index = Pairs(cache)
                      /\ kind # "indexedDb" /\ schema = 1 =>
                           \A p \in Pairs(cache) \ index : p[2] \in unindexed
    BY DEF IndexMatchesRows
  <2>1. index \subseteq Pairs(cache) /\ (Exact => LeadsTo(index, cache, Lost))
    BY DEF Indexed, IndexInMemory, InSession
  <2>2. ~persistent \/ kind = "memory" => index = Pairs(cache)
    BY <2>1 DEF Exact, Lost, LeadsTo
  <2>3. kind # "indexedDb" /\ schema = 1 => \A p \in Pairs(cache) \ index : p[2] \in unindexed
    BY <2>1, <2>2 DEF Exact, Lost, LeadsTo
  <2> QED
    BY <2>1, <2>2, <2>3
<1> QED
  BY <1>1, <1>2, <1>3, FormHolds, IdsBelowHolds, WholeHolds, TornByHolds, PTL DEF Spec

=============================================================================
