--------------------------- MODULE KeyRangesProofs ---------------------------
(***************************************************************************)
(* Proofs about KeyRanges for all integer keys: intersection, complement   *)
(* and bounding range are those of sets of keys, and a set of ranges keeps *)
(* them in order and apart, whatever was added to it.  An index that is    *)
(* asked one range after the other misses no row then and returns none     *)
(* twice.                                                                  *)
(***************************************************************************)
EXTENDS KeyRanges, FiniteSetTheorems, SequenceTheorems, WellFoundedInduction, TLAPS

-----------------------------------------------------------------------------
(* One and two ranges *)

End == Int \cup {Unbound}

\* What the constructor makes: an end that is unbounded is not excluded.
SingleKeyRange ==
    {r \in [from : End, to : End, exLower : BOOLEAN, exUpper : BOOLEAN] :
       /\ r.from = Unbound => r.exLower = FALSE
       /\ r.to = Unbound => r.exUpper = FALSE}

\* containsKey() of a set of ranges.
ContainsKey(set, key) == \E i \in DOMAIN set : Covers(set[i], key)

LEMMA RangeFields ==
    ASSUME NEW r \in SingleKeyRange
    PROVE  /\ r.from \in End /\ r.to \in End
           /\ r.exLower \in BOOLEAN /\ r.exUpper \in BOOLEAN
           /\ r.from = Unbound => r.exLower = FALSE
           /\ r.to = Unbound => r.exUpper = FALSE
  BY DEF SingleKeyRange

LEMMA NewRangeFacts ==
    ASSUME NEW from \in End, NEW to \in End, NEW exLower \in BOOLEAN, NEW exUpper \in BOOLEAN
    PROVE  /\ NewRange(from, to, exLower, exUpper) \in SingleKeyRange
           /\ NewRange(from, to, exLower, exUpper).from = from
           /\ NewRange(from, to, exLower, exUpper).to = to
           /\ NewRange(from, to, exLower, exUpper).exLower = (from # Unbound /\ exLower)
           /\ NewRange(from, to, exLower, exUpper).exUpper = (to # Unbound /\ exUpper)
  BY DEF NewRange, SingleKeyRange

\* What is above the lower end of a range, and below its upper end.
Above(from, exclude, key) == from = Unbound \/ key > from \/ (key = from /\ ~exclude)
Below(to, exclude, key) == to = Unbound \/ key < to \/ (key = to /\ ~exclude)

LEMMA CoversAboveBelow ==
    ASSUME NEW r, NEW key
    PROVE  Covers(r, key) <=> Above(r.from, r.exLower, key) /\ Below(r.to, r.exUpper, key)
  BY DEF Covers, Above, Below

LEMMA CoversNew ==
    ASSUME NEW from \in End, NEW to \in End, NEW exLower \in BOOLEAN, NEW exUpper \in BOOLEAN,
           NEW key \in Int
    PROVE  Covers(NewRange(from, to, exLower, exUpper), key)
             <=> Above(from, exLower, key) /\ Below(to, exUpper, key)
  BY NewRangeFacts DEF Covers, Above, Below

\* What a comparison of two lower ends says of what is above them.
LowerEnd(l, r, exL, exR, key) ==
    LET favor == CompareKey(l, r, TRUE, exL, exR)
    IN  /\ favor \in {"LHS", "TIE", "RHS"}
        /\ favor = "TIE" <=> l = r /\ exL = exR
        /\ favor = "LHS" => l \in Int
        /\ favor = "RHS" => r \in Int
        /\ favor = "LHS" /\ Above(l, exL, key) => Above(r, exR, key)
        /\ favor = "RHS" /\ Above(r, exR, key) => Above(l, exL, key)

LEMMA LowerEnds ==
    ASSUME NEW l \in End, NEW r \in End, NEW exL \in BOOLEAN, NEW exR \in BOOLEAN,
           l = Unbound => exL = FALSE, r = Unbound => exR = FALSE, NEW key \in Int
    PROVE  LowerEnd(l, r, exL, exR, key)
<1> USE UnboundIsNoKey DEF LowerEnd, CompareKey, Flip, Above, End
<1>1. CASE l = Unbound
  BY <1>1
<1>2. CASE l \in Int /\ r = Unbound
  BY <1>2
<1>3. CASE l \in Int /\ r \in Int
  BY <1>3
<1> QED
  BY <1>1, <1>2, <1>3

UpperEnd(l, r, exL, exR, key) ==
    LET favor == CompareKey(l, r, FALSE, exL, exR)
    IN  /\ favor \in {"LHS", "TIE", "RHS"}
        /\ favor = "TIE" <=> l = r /\ exL = exR
        /\ favor = "RHS" => l \in Int
        /\ favor = "LHS" => r \in Int
        /\ favor = "RHS" /\ Below(l, exL, key) => Below(r, exR, key)
        /\ favor = "LHS" /\ Below(r, exR, key) => Below(l, exL, key)

LEMMA UpperEnds ==
    ASSUME NEW l \in End, NEW r \in End, NEW exL \in BOOLEAN, NEW exR \in BOOLEAN,
           l = Unbound => exL = FALSE, r = Unbound => exR = FALSE, NEW key \in Int
    PROVE  UpperEnd(l, r, exL, exR, key)
<1> USE UnboundIsNoKey DEF UpperEnd, CompareKey, Flip, Below, End
<1>1. CASE l = Unbound
  BY <1>1
<1>2. CASE l \in Int /\ r = Unbound
  BY <1>2
<1>3. CASE l \in Int /\ r \in Int
  BY <1>3
<1> QED
  BY <1>1, <1>2, <1>3

\* All keys of the one are less than all keys of the other.
EndsBefore(l, r) ==
    /\ l.to \in Int /\ r.from \in Int
    /\ l.to < r.from \/ (l.to = r.from /\ (l.exUpper \/ r.exLower))

LEMMA ComparedLowerEnds ==
    ASSUME NEW r1 \in SingleKeyRange, NEW r2 \in SingleKeyRange, NEW key \in Int
    PROVE  LowerEnd(r1.from, r2.from, r1.exLower, r2.exLower, key)
<1>1. /\ r1.from \in End /\ r2.from \in End
      /\ r1.exLower \in BOOLEAN /\ r2.exLower \in BOOLEAN
      /\ r1.from = Unbound => r1.exLower = FALSE
      /\ r2.from = Unbound => r2.exLower = FALSE
  BY RangeFields
<1> QED
  BY <1>1, LowerEnds

\* Ranges that do not overlap lie one before the other,
LEMMA ApartFacts ==
    ASSUME NEW r1 \in SingleKeyRange, NEW r2 \in SingleKeyRange, ~Overlaps(r1, r2)
    PROVE  LET favor == CompareKey(r1.from, r2.from, TRUE, r1.exLower, r2.exLower)
           IN  \/ favor = "RHS" /\ EndsBefore(r1, r2)
               \/ favor = "LHS" /\ EndsBefore(r2, r1)
<1> DEFINE favor == CompareKey(r1.from, r2.from, TRUE, r1.exLower, r2.exLower)
<1>1. favor \in {"LHS", "TIE", "RHS"} /\ (favor = "LHS" => r1.from \in Int) /\ (favor = "RHS" => r2.from \in Int)
  <2>1. 0 \in Int
    OBVIOUS
  <2> QED
    BY <2>1, ComparedLowerEnds DEF LowerEnd
<1>2. /\ favor # "TIE"
      /\ favor = "RHS" => /\ r1.to # Unbound /\ ~(r1.to > r2.from)
                          /\ ~(r1.to = r2.from /\ ~r1.exUpper /\ ~r2.exLower)
      /\ favor = "LHS" => /\ r2.to # Unbound /\ ~(r2.to > r1.from)
                          /\ ~(r2.to = r1.from /\ ~r2.exUpper /\ ~r1.exLower)
  BY DEF Overlaps
<1>3. r1.to \in End /\ r2.to \in End
  BY RangeFields
<1> HIDE DEF favor
<1>4. CASE favor = "RHS"
  <2>1. r1.to \in Int /\ r2.from \in Int /\ r1.to <= r2.from
    BY <1>1, <1>2, <1>3, <1>4 DEF End
  <2>2. r1.to < r2.from \/ r1.to = r2.from
    BY <2>1
  <2> QED
    BY <1>2, <1>4, <2>1, <2>2, Zenon DEF favor, EndsBefore
<1>5. CASE favor = "LHS"
  <2>1. r2.to \in Int /\ r1.from \in Int /\ r2.to <= r1.from
    BY <1>1, <1>2, <1>3, <1>5 DEF End
  <2>2. r2.to < r1.from \/ r2.to = r1.from
    BY <2>1
  <2> QED
    BY <1>2, <1>5, <2>1, <2>2, Zenon DEF favor, EndsBefore
<1> QED
  BY <1>1, <1>2, <1>4, <1>5

\* and then have no key in common;
LEMMA BeforeShareNothing ==
    ASSUME NEW l \in SingleKeyRange, NEW r \in SingleKeyRange, EndsBefore(l, r),
           NEW k1 \in Int, NEW k2 \in Int, Covers(l, k1), Covers(r, k2)
    PROVE  k1 < k2
  BY UnboundIsNoKey DEF Covers, EndsBefore

LEMMA ApartShareNothing ==
    ASSUME NEW r1 \in SingleKeyRange, NEW r2 \in SingleKeyRange, ~Overlaps(r1, r2), NEW key \in Int
    PROVE  ~(Covers(r1, key) /\ Covers(r2, key))
<1>1. EndsBefore(r1, r2) \/ EndsBefore(r2, r1)
  BY ApartFacts
<1>2. ~(key < key)
  OBVIOUS
<1> QED
  BY <1>1, <1>2, BeforeShareNothing

\* ranges that overlap have no gap between them.
LEMMA OverlapFacts ==
    ASSUME NEW r1 \in SingleKeyRange, NEW r2 \in SingleKeyRange, Overlaps(r1, r2), NEW key \in Int,
           Above(r1.from, r1.exLower, key) \/ Above(r2.from, r2.exLower, key),
           Below(r1.to, r1.exUpper, key) \/ Below(r2.to, r2.exUpper, key)
    PROVE  Covers(r1, key) \/ Covers(r2, key)
<1> DEFINE favor == CompareKey(r1.from, r2.from, TRUE, r1.exLower, r2.exLower)
           left  == IF favor = "RHS" THEN r1 ELSE r2
           right == IF favor = "LHS" THEN r1 ELSE r2
<1>1. \/ favor = "TIE"
      \/ left.to = Unbound
      \/ left.to > right.from
      \/ left.to = right.from /\ ~left.exUpper /\ ~right.exLower
  BY DEF Overlaps
<1>2. /\ favor \in {"LHS", "TIE", "RHS"}
      /\ favor = "TIE" <=> r1.from = r2.from /\ r1.exLower = r2.exLower
      /\ favor = "LHS" => r1.from \in Int
      /\ favor = "RHS" => r2.from \in Int
      /\ favor = "LHS" /\ Above(r1.from, r1.exLower, key) => Above(r2.from, r2.exLower, key)
      /\ favor = "RHS" /\ Above(r2.from, r2.exLower, key) => Above(r1.from, r1.exLower, key)
  BY ComparedLowerEnds DEF LowerEnd
<1> HIDE DEF favor
<1>3. CASE favor = "TIE"
  BY <1>2, <1>3, CoversAboveBelow
<1>4. CASE favor # "TIE"
  <2>1. Above(left.from, left.exLower, key)
    BY <1>2, <1>4
  <2>2. left \in SingleKeyRange /\ right \in SingleKeyRange /\ {left, right} = {r1, r2} /\ right.from \in Int
    BY <1>2, <1>4
  <2>3. Below(left.to, left.exUpper, key) \/ Below(right.to, right.exUpper, key)
    BY <1>2, <1>4
  <2>4. left.to \in End /\ left.exUpper \in BOOLEAN /\ right.exLower \in BOOLEAN
    BY <2>2, RangeFields
  <2> HIDE DEF left, right
  <2>5. Below(left.to, left.exUpper, key) \/ Above(right.from, right.exLower, key)
    BY <1>1, <1>4, <2>2, <2>4, UnboundIsNoKey DEF Below, Above, End
  <2> QED
    BY <2>1, <2>2, <2>3, <2>5, CoversAboveBelow
<1> QED
  BY <1>3, <1>4

-----------------------------------------------------------------------------
(* Intersection, bounding range, complement *)

\* and() takes the later of two lower ends and the earlier of two upper ends.
FirstIsLater(l, r, exL) ==
    LET lower == CompareKey(l, r, TRUE, FALSE, FALSE)
    IN  (lower = "TIE" /\ exL) \/ (lower # "TIE" /\ lower # "RHS")
LaterLower(l, r, exL, exR, key) ==
    IF FirstIsLater(l, r, exL) THEN Above(l, exL, key) => Above(r, exR, key)
    ELSE Above(r, exR, key) => Above(l, exL, key)

LEMMA LaterLowerEnd ==
    ASSUME NEW l \in End, NEW r \in End, NEW exL \in BOOLEAN, NEW exR \in BOOLEAN,
           l = Unbound => exL = FALSE, r = Unbound => exR = FALSE, NEW key \in Int
    PROVE  LaterLower(l, r, exL, exR, key)
<1> USE UnboundIsNoKey DEF LaterLower, FirstIsLater, CompareKey, Flip, Above, End
<1>1. CASE l = Unbound
  BY <1>1
<1>2. CASE l \in Int /\ r = Unbound
  BY <1>2
<1>3. CASE l \in Int /\ r \in Int
  BY <1>3
<1> QED
  BY <1>1, <1>2, <1>3

FirstIsEarlier(l, r, exL) ==
    LET upper == CompareKey(l, r, FALSE, FALSE, FALSE)
    IN  IF l = Unbound \/ r = Unbound THEN l # Unbound
        ELSE (upper = "TIE" /\ exL) \/ (upper # "TIE" /\ upper = "RHS")
EarlierUpper(l, r, exL, exR, key) ==
    IF FirstIsEarlier(l, r, exL) THEN Below(l, exL, key) => Below(r, exR, key)
    ELSE Below(r, exR, key) => Below(l, exL, key)

LEMMA EarlierUpperEnd ==
    ASSUME NEW l \in End, NEW r \in End, NEW exL \in BOOLEAN, NEW exR \in BOOLEAN,
           l = Unbound => exL = FALSE, r = Unbound => exR = FALSE, NEW key \in Int
    PROVE  EarlierUpper(l, r, exL, exR, key)
<1> USE UnboundIsNoKey DEF EarlierUpper, FirstIsEarlier, CompareKey, Flip, Below, End
<1>1. CASE l = Unbound
  BY <1>1
<1>2. CASE l \in Int /\ r = Unbound
  BY <1>2
<1>3. CASE l \in Int /\ r \in Int
  BY <1>3
<1> QED
  BY <1>1, <1>2, <1>3

LEMMA OneRange ==
    ASSUME NEW r, NEW key
    PROVE  ContainsKey(<< r >>, key) <=> Covers(r, key)
  BY DEF ContainsKey

LEMMA NoRange ==
    ASSUME NEW key
    PROVE  ~ContainsKey(<<>>, key)
  BY DEF ContainsKey

LEMMA ConcatContains ==
    ASSUME NEW s \in Seq(SingleKeyRange), NEW t \in Seq(SingleKeyRange), NEW key
    PROVE  ContainsKey(s \o t, key) <=> ContainsKey(s, key) \/ ContainsKey(t, key)
<1>1. /\ DOMAIN s = 1 .. Len(s) /\ DOMAIN t = 1 .. Len(t) /\ Len(s) \in Nat /\ Len(t) \in Nat
      /\ DOMAIN (s \o t) = 1 .. (Len(s) + Len(t))
      /\ \A i \in 1 .. (Len(s) + Len(t)) : (s \o t)[i] = IF i <= Len(s) THEN s[i] ELSE t[i - Len(s)]
  BY ConcatProperties, LenProperties
<1>2. ASSUME NEW i \in 1 .. (Len(s) + Len(t)), Covers((s \o t)[i], key)
      PROVE  ContainsKey(s, key) \/ ContainsKey(t, key)
  <2>1. CASE i <= Len(s)
    BY <1>1, <1>2, <2>1 DEF ContainsKey
  <2>2. CASE i > Len(s)
    <3>1. i - Len(s) \in 1 .. Len(t) /\ (s \o t)[i] = t[i - Len(s)]
      BY <1>1, <2>2
    <3> QED
      BY <1>1, <1>2, <3>1 DEF ContainsKey
  <2> QED
    BY <1>1, <2>1, <2>2
<1>3. ASSUME NEW i \in 1 .. Len(s), Covers(s[i], key)
      PROVE  ContainsKey(s \o t, key)
  BY <1>1, <1>3 DEF ContainsKey
<1>4. ASSUME NEW i \in 1 .. Len(t), Covers(t[i], key)
      PROVE  ContainsKey(s \o t, key)
  <2>1. i + Len(s) \in 1 .. (Len(s) + Len(t)) /\ (s \o t)[i + Len(s)] = t[i]
    BY <1>1
  <2> QED
    BY <1>1, <1>4, <2>1 DEF ContainsKey
<1> QED
  BY <1>1, <1>2, <1>3, <1>4 DEF ContainsKey

\* and(): a key is in the intersection of two ranges if it is in both, whatever
\* their ends are, so that conditions joined by AND lose no row and find none
\* that one of them refuses (key_range.ts, and).
THEOREM AndIsIntersection ==
    ASSUME NEW r1 \in SingleKeyRange, NEW r2 \in SingleKeyRange
    PROVE  /\ And(r1, r2) \in Seq(SingleKeyRange)
           /\ \A key \in Int : ContainsKey(And(r1, r2), key) <=> Covers(r1, key) /\ Covers(r2, key)
<1>1. CASE ~Overlaps(r1, r2)
  <2>1. And(r1, r2) = <<>>
    BY <1>1 DEF And
  <2>2. <<>> \in Seq(SingleKeyRange)
    OBVIOUS
  <2> QED
    BY <1>1, <2>1, <2>2, NoRange, ApartShareNothing
<1>2. CASE Overlaps(r1, r2)
  <2> DEFINE lowerIsFirst == FirstIsLater(r1.from, r2.from, r1.exLower)
             upperIsFirst == FirstIsEarlier(r1.to, r2.to, r1.exUpper)
             left  == IF lowerIsFirst THEN r1 ELSE r2
             right == IF upperIsFirst THEN r1 ELSE r2
  <2>1. And(r1, r2) = << NewRange(left.from, right.to, left.exLower, right.exUpper) >>
    BY <1>2 DEF And, FirstIsLater, FirstIsEarlier
  <2>2. left \in SingleKeyRange /\ right \in SingleKeyRange
    OBVIOUS
  <2>3. ASSUME NEW key \in Int
        PROVE  /\ Above(left.from, left.exLower, key)
                    <=> Above(r1.from, r1.exLower, key) /\ Above(r2.from, r2.exLower, key)
               /\ Below(right.to, right.exUpper, key)
                    <=> Below(r1.to, r1.exUpper, key) /\ Below(r2.to, r2.exUpper, key)
    <3>1. /\ r1.from \in End /\ r1.to \in End /\ r1.exLower \in BOOLEAN /\ r1.exUpper \in BOOLEAN
          /\ r1.from = Unbound => r1.exLower = FALSE
          /\ r1.to = Unbound => r1.exUpper = FALSE
          /\ r2.from \in End /\ r2.to \in End /\ r2.exLower \in BOOLEAN /\ r2.exUpper \in BOOLEAN
          /\ r2.from = Unbound => r2.exLower = FALSE
          /\ r2.to = Unbound => r2.exUpper = FALSE
      BY RangeFields
    <3>2. LaterLower(r1.from, r2.from, r1.exLower, r2.exLower, key)
      BY <3>1, LaterLowerEnd
    <3>3. EarlierUpper(r1.to, r2.to, r1.exUpper, r2.exUpper, key)
      BY <3>1, EarlierUpperEnd
    <3> QED
      BY <3>2, <3>3 DEF LaterLower, EarlierUpper
  <2> HIDE DEF left, right
  <2>4. left.from \in End /\ right.to \in End /\ left.exLower \in BOOLEAN /\ right.exUpper \in BOOLEAN
    BY <2>2, RangeFields
  <2>5. And(r1, r2) \in Seq(SingleKeyRange)
    BY <2>1, <2>4, NewRangeFacts
  <2>6. ASSUME NEW key \in Int
        PROVE  ContainsKey(And(r1, r2), key) <=> Covers(r1, key) /\ Covers(r2, key)
    <3>1. ContainsKey(And(r1, r2), key)
            <=> Above(left.from, left.exLower, key) /\ Below(right.to, right.exUpper, key)
      BY <2>1, <2>4, OneRange, CoversNew
    <3> QED
      BY <2>3, <3>1, CoversAboveBelow
  <2> QED
    BY <2>5, <2>6
<1> QED
  BY <1>1, <1>2

\* getBoundingRange() takes the earlier of two lower ends and the later of two
\* upper ends.
BoundLower(l, r, exL, exR) ==
    LET lower == CompareKey(l, r, TRUE, FALSE, FALSE)
        low   == IF lower # "LHS" THEN l ELSE r
        exLow == IF lower # "LHS" THEN exL ELSE exR
    IN  [end |-> IF l = Unbound \/ r = Unbound THEN Unbound ELSE low,
         ex  |-> IF lower = "TIE" THEN exL /\ exR ELSE exLow]
BoundUpper(l, r, exL, exR) ==
    LET upper == CompareKey(l, r, FALSE, FALSE, FALSE)
        high   == IF upper # "RHS" THEN l ELSE r
        exHigh == IF upper # "RHS" THEN exL ELSE exR
    IN  [end |-> IF l = Unbound \/ r = Unbound THEN Unbound ELSE high,
         ex  |-> IF upper = "TIE" THEN exL /\ exR ELSE exHigh]

LowerHull(b, l, r, exL, exR) ==
    /\ b.end \in End /\ b.ex \in BOOLEAN
    /\ \A key \in Int : Above(b.end, b.ex, key) <=> Above(l, exL, key) \/ Above(r, exR, key)

LEMMA BoundLowerEnd ==
    ASSUME NEW l \in End, NEW r \in End, NEW exL \in BOOLEAN, NEW exR \in BOOLEAN
    PROVE  LowerHull(BoundLower(l, r, exL, exR), l, r, exL, exR)
<1> USE UnboundIsNoKey DEF LowerHull, BoundLower, CompareKey, Flip, Above, End
<1>1. CASE l = Unbound \/ r = Unbound
  BY <1>1
<1>2. CASE l \in Int /\ r \in Int
  BY <1>2
<1> QED
  BY <1>1, <1>2

UpperHull(b, l, r, exL, exR) ==
    /\ b.end \in End /\ b.ex \in BOOLEAN
    /\ \A key \in Int : Below(b.end, b.ex, key) <=> Below(l, exL, key) \/ Below(r, exR, key)

LEMMA BoundUpperEnd ==
    ASSUME NEW l \in End, NEW r \in End, NEW exL \in BOOLEAN, NEW exR \in BOOLEAN
    PROVE  UpperHull(BoundUpper(l, r, exL, exR), l, r, exL, exR)
<1> USE UnboundIsNoKey DEF UpperHull, BoundUpper, CompareKey, Flip, Below, End
<1>1. CASE l = Unbound \/ r = Unbound
  BY <1>1
<1>2. CASE l \in Int /\ r \in Int
  BY <1>2
<1> QED
  BY <1>1, <1>2

LEMMA BoundingParts ==
    ASSUME NEW r1 \in SingleKeyRange, NEW r2 \in SingleKeyRange
    PROVE  LET low  == BoundLower(r1.from, r2.from, r1.exLower, r2.exLower)
               high == BoundUpper(r1.to, r2.to, r1.exUpper, r2.exUpper)
           IN  BoundingRange(r1, r2) = NewRange(low.end, high.end, low.ex, high.ex)
<1> DEFINE lower == CompareKey(r1.from, r2.from, TRUE, FALSE, FALSE)
           upper == CompareKey(r1.to, r2.to, FALSE, FALSE, FALSE)
           low   == BoundLower(r1.from, r2.from, r1.exLower, r2.exLower)
           high  == BoundUpper(r1.to, r2.to, r1.exUpper, r2.exUpper)
           first == IF lower # "LHS" THEN r1 ELSE r2
           last  == IF upper # "RHS" THEN r1 ELSE r2
<1>1. BoundingRange(r1, r2)
        = NewRange(IF r1.from = Unbound \/ r2.from = Unbound THEN Unbound ELSE first.from,
                   IF r1.to = Unbound \/ r2.to = Unbound THEN Unbound ELSE last.to,
                   IF lower = "TIE" THEN r1.exLower /\ r2.exLower ELSE first.exLower,
                   IF upper = "TIE" THEN r1.exUpper /\ r2.exUpper ELSE last.exUpper)
  BY DEF BoundingRange
<1>2. /\ low.end = IF r1.from = Unbound \/ r2.from = Unbound THEN Unbound
                   ELSE IF lower # "LHS" THEN r1.from ELSE r2.from
      /\ low.ex = IF lower = "TIE" THEN r1.exLower /\ r2.exLower
                  ELSE IF lower # "LHS" THEN r1.exLower ELSE r2.exLower
      /\ high.end = IF r1.to = Unbound \/ r2.to = Unbound THEN Unbound
                    ELSE IF upper # "RHS" THEN r1.to ELSE r2.to
      /\ high.ex = IF upper = "TIE" THEN r1.exUpper /\ r2.exUpper
                   ELSE IF upper # "RHS" THEN r1.exUpper ELSE r2.exUpper
  BY DEF BoundLower, BoundUpper
<1> HIDE DEF lower, upper, low, high
<1>3. /\ first.from = IF lower # "LHS" THEN r1.from ELSE r2.from
      /\ first.exLower = IF lower # "LHS" THEN r1.exLower ELSE r2.exLower
      /\ last.to = IF upper # "RHS" THEN r1.to ELSE r2.to
      /\ last.exUpper = IF upper # "RHS" THEN r1.exUpper ELSE r2.exUpper
  OBVIOUS
<1> HIDE DEF first, last
<1> QED
  BY <1>1, <1>2, <1>3 DEF low, high

\* getBoundingRange() of ranges that overlap is their union: merging them in a
\* set of ranges adds no key and loses none (single_key_range_set.ts, add).
THEOREM BoundingRangeIsUnion ==
    ASSUME NEW r1 \in SingleKeyRange, NEW r2 \in SingleKeyRange
    PROVE  /\ BoundingRange(r1, r2) \in SingleKeyRange
           /\ Overlaps(r1, r2) =>
                \A key \in Int : Covers(BoundingRange(r1, r2), key) <=> Covers(r1, key) \/ Covers(r2, key)
<1> DEFINE low  == BoundLower(r1.from, r2.from, r1.exLower, r2.exLower)
           high == BoundUpper(r1.to, r2.to, r1.exUpper, r2.exUpper)
<1>1. BoundingRange(r1, r2) = NewRange(low.end, high.end, low.ex, high.ex)
  BY BoundingParts
<1>2. /\ r1.from \in End /\ r1.to \in End /\ r1.exLower \in BOOLEAN /\ r1.exUpper \in BOOLEAN
      /\ r2.from \in End /\ r2.to \in End /\ r2.exLower \in BOOLEAN /\ r2.exUpper \in BOOLEAN
  BY RangeFields
<1>3. /\ low.end \in End /\ low.ex \in BOOLEAN
      /\ \A key \in Int : Above(low.end, low.ex, key)
                            <=> Above(r1.from, r1.exLower, key) \/ Above(r2.from, r2.exLower, key)
  <2>1. LowerHull(low, r1.from, r2.from, r1.exLower, r2.exLower)
    BY <1>2, BoundLowerEnd
  <2> HIDE DEF low
  <2> QED
    BY <2>1 DEF LowerHull
<1>4. /\ high.end \in End /\ high.ex \in BOOLEAN
      /\ \A key \in Int : Below(high.end, high.ex, key)
                            <=> Below(r1.to, r1.exUpper, key) \/ Below(r2.to, r2.exUpper, key)
  <2>1. UpperHull(high, r1.to, r2.to, r1.exUpper, r2.exUpper)
    BY <1>2, BoundUpperEnd
  <2> HIDE DEF high
  <2> QED
    BY <2>1 DEF UpperHull
<1> HIDE DEF low, high
<1>5. BoundingRange(r1, r2) \in SingleKeyRange
  BY <1>1, <1>3, <1>4, NewRangeFacts
<1>6. ASSUME Overlaps(r1, r2), NEW key \in Int
      PROVE  Covers(BoundingRange(r1, r2), key) <=> Covers(r1, key) \/ Covers(r2, key)
  <2>1. Covers(BoundingRange(r1, r2), key) <=> Above(low.end, low.ex, key) /\ Below(high.end, high.ex, key)
    BY <1>1, <1>3, <1>4, CoversNew
  <2> QED
    BY <1>3, <1>4, <1>6, <2>1, CoversAboveBelow, OverlapFacts
<1> QED
  BY <1>5, <1>6

\* complement(): a key is outside of a range if it is in one of the ranges of
\* its complement, so that NOT finds exactly the rows a condition refuses
\* (key_range.ts, complement).
THEOREM ComplementIsComplement ==
    ASSUME NEW r \in SingleKeyRange
    PROVE  /\ Complement(r) \in Seq(SingleKeyRange)
           /\ \A key \in Int : ContainsKey(Complement(r), key) <=> ~Covers(r, key)
<1> DEFINE below == IF r.from = Unbound THEN <<>> ELSE << UpperBound(r.from, ~r.exLower) >>
           above == IF r.to = Unbound THEN <<>> ELSE << LowerBound(r.to, ~r.exUpper) >>
<1>1. r.from \in End /\ r.to \in End /\ r.exLower \in BOOLEAN /\ r.exUpper \in BOOLEAN
  BY RangeFields
<1>2. /\ below \in Seq(SingleKeyRange)
      /\ \A key \in Int : ContainsKey(below, key) <=> ~Above(r.from, r.exLower, key)
  <2>1. CASE r.from = Unbound
    BY <2>1, NoRange DEF Above
  <2>2. CASE r.from # Unbound
    <3>1. r.from \in Int /\ Unbound \in End
      BY <1>1, <2>2 DEF End
    <3>2. UpperBound(r.from, ~r.exLower) \in SingleKeyRange
      BY <1>1, <3>1, NewRangeFacts DEF UpperBound
    <3>3. ASSUME NEW key \in Int
          PROVE  Covers(UpperBound(r.from, ~r.exLower), key) <=> ~Above(r.from, r.exLower, key)
      <4>1. Covers(UpperBound(r.from, ~r.exLower), key)
              <=> Above(Unbound, FALSE, key) /\ Below(r.from, ~r.exLower, key)
        BY <1>1, <3>1, CoversNew DEF UpperBound
      <4> QED
        BY <1>1, <3>1, <4>1, UnboundIsNoKey DEF Above, Below
    <3> QED
      BY <2>2, <3>2, <3>3, OneRange
  <2> QED
    BY <2>1, <2>2
<1>3. /\ above \in Seq(SingleKeyRange)
      /\ \A key \in Int : ContainsKey(above, key) <=> ~Below(r.to, r.exUpper, key)
  <2>1. CASE r.to = Unbound
    BY <2>1, NoRange DEF Below
  <2>2. CASE r.to # Unbound
    <3>1. r.to \in Int /\ Unbound \in End
      BY <1>1, <2>2 DEF End
    <3>2. LowerBound(r.to, ~r.exUpper) \in SingleKeyRange
      BY <1>1, <3>1, NewRangeFacts DEF LowerBound
    <3>3. ASSUME NEW key \in Int
          PROVE  Covers(LowerBound(r.to, ~r.exUpper), key) <=> ~Below(r.to, r.exUpper, key)
      <4>1. Covers(LowerBound(r.to, ~r.exUpper), key)
              <=> Above(r.to, ~r.exUpper, key) /\ Below(Unbound, FALSE, key)
        BY <1>1, <3>1, CoversNew DEF LowerBound
      <4> QED
        BY <1>1, <3>1, <4>1, UnboundIsNoKey DEF Above, Below
    <3> QED
      BY <2>2, <3>2, <3>3, OneRange
  <2> QED
    BY <2>1, <2>2
<1>4. Complement(r) = IF IsAll(r) THEN <<>> ELSE below \o above
  BY DEF Complement
<1> HIDE DEF below, above
<1>5. ASSUME NEW key \in Int
      PROVE  ContainsKey(below \o above, key) <=> ContainsKey(below, key) \/ ContainsKey(above, key)
  BY <1>2, <1>3, ConcatContains
<1>6. CASE IsAll(r)
  <2>1. \A key \in Int : Covers(r, key)
    BY <1>6 DEF IsAll, Covers
  <2>2. <<>> \in Seq(SingleKeyRange)
    OBVIOUS
  <2> QED
    BY <1>4, <1>6, <2>1, <2>2, NoRange
<1>7. CASE ~IsAll(r)
  <2>1. Complement(r) = below \o above
    BY <1>4, <1>7
  <2>2. below \o above \in Seq(SingleKeyRange)
    BY <1>2, <1>3, ConcatProperties
  <2> QED
    BY <1>2, <1>3, <1>5, <2>1, <2>2, CoversAboveBelow
<1> QED
  BY <1>6, <1>7

-----------------------------------------------------------------------------
(* The order of ranges *)

\* Which of two lower ends, and of two upper ends, comes first.
LowerFirst(l, exL, r, exR) ==
    \/ l = Unbound /\ r \in Int
    \/ l \in Int /\ r \in Int /\ (l < r \/ (l = r /\ ~exL /\ exR))
UpperFirst(l, exL, r, exR) ==
    \/ l \in Int /\ r = Unbound
    \/ l \in Int /\ r \in Int /\ (l < r \/ (l = r /\ exL /\ ~exR))
Begins(l, r) == LowerFirst(l.from, l.exLower, r.from, r.exLower)
Ends(l, r) == UpperFirst(l.to, l.exUpper, r.to, r.exUpper)

LowerCompared(l, exL, r, exR) ==
    /\ CompareKey(l, r, TRUE, exL, exR) = "RHS" <=> LowerFirst(l, exL, r, exR)
    /\ CompareKey(l, r, TRUE, exL, exR) = "LHS" <=> LowerFirst(r, exR, l, exL)
    /\ CompareKey(l, r, TRUE, exL, exR) = "TIE" <=> l = r /\ exL = exR

LEMMA LowerFirstFacts ==
    ASSUME NEW l \in End, NEW r \in End, NEW exL \in BOOLEAN, NEW exR \in BOOLEAN,
           l = Unbound => exL = FALSE, r = Unbound => exR = FALSE
    PROVE  LowerCompared(l, exL, r, exR)
<1> USE UnboundIsNoKey DEF LowerCompared, CompareKey, Flip, LowerFirst, End
<1>1. CASE l = Unbound
  BY <1>1
<1>2. CASE l \in Int /\ r = Unbound
  BY <1>2
<1>3. CASE l \in Int /\ r \in Int
  BY <1>3
<1> QED
  BY <1>1, <1>2, <1>3

UpperCompared(l, exL, r, exR) ==
    /\ CompareKey(l, r, FALSE, exL, exR) = "RHS" <=> UpperFirst(l, exL, r, exR)
    /\ CompareKey(l, r, FALSE, exL, exR) = "TIE" <=> l = r /\ exL = exR

LEMMA UpperFirstFacts ==
    ASSUME NEW l \in End, NEW r \in End, NEW exL \in BOOLEAN, NEW exR \in BOOLEAN,
           l = Unbound => exL = FALSE, r = Unbound => exR = FALSE
    PROVE  UpperCompared(l, exL, r, exR)
<1> USE UnboundIsNoKey DEF UpperCompared, CompareKey, Flip, UpperFirst, End
<1>1. CASE l = Unbound
  BY <1>1
<1>2. CASE l \in Int /\ r = Unbound
  BY <1>2
<1>3. CASE l \in Int /\ r \in Int
  BY <1>3
<1> QED
  BY <1>1, <1>2, <1>3

EndsInOrder(a, exA, b, exB, c, exC) ==
    /\ ~LowerFirst(a, exA, a, exA) /\ ~UpperFirst(a, exA, a, exA)
    /\ LowerFirst(a, exA, b, exB) \/ LowerFirst(b, exB, a, exA) \/ (a = b /\ exA = exB)
    /\ UpperFirst(a, exA, b, exB) \/ UpperFirst(b, exB, a, exA) \/ (a = b /\ exA = exB)
    /\ LowerFirst(a, exA, b, exB) /\ LowerFirst(b, exB, c, exC) => LowerFirst(a, exA, c, exC)
    /\ UpperFirst(a, exA, b, exB) /\ UpperFirst(b, exB, c, exC) => UpperFirst(a, exA, c, exC)

ProperEnd(end, exclude) == end \in End /\ exclude \in BOOLEAN /\ (end = Unbound => exclude = FALSE)

LEMMA EndsOrdered ==
    ASSUME NEW a, NEW exA, ProperEnd(a, exA), NEW b, NEW exB, ProperEnd(b, exB),
           NEW c, NEW exC, ProperEnd(c, exC)
    PROVE  EndsInOrder(a, exA, b, exB, c, exC)
<1> USE UnboundIsNoKey DEF EndsInOrder, ProperEnd, LowerFirst, UpperFirst, End
<1>1. ~LowerFirst(a, exA, a, exA) /\ ~UpperFirst(a, exA, a, exA)
  OBVIOUS
<1>2. LowerFirst(a, exA, b, exB) \/ LowerFirst(b, exB, a, exA) \/ (a = b /\ exA = exB)
  OBVIOUS
<1>3. UpperFirst(a, exA, b, exB) \/ UpperFirst(b, exB, a, exA) \/ (a = b /\ exA = exB)
  OBVIOUS
<1>4. LowerFirst(a, exA, b, exB) /\ LowerFirst(b, exB, c, exC) => LowerFirst(a, exA, c, exC)
  OBVIOUS
<1>5. UpperFirst(a, exA, b, exB) /\ UpperFirst(b, exB, c, exC) => UpperFirst(a, exA, c, exC)
  OBVIOUS
<1> QED
  BY <1>1, <1>2, <1>3, <1>4, <1>5

LEMMA InOrderIs ==
    ASSUME NEW l \in SingleKeyRange, NEW r \in SingleKeyRange
    PROVE  InOrder(l, r) <=> \/ Begins(l, r)
                             \/ l.from = r.from /\ l.exLower = r.exLower /\ Ends(l, r)
<1>1. /\ l.from \in End /\ l.to \in End /\ l.exLower \in BOOLEAN /\ l.exUpper \in BOOLEAN
      /\ l.from = Unbound => l.exLower = FALSE
      /\ l.to = Unbound => l.exUpper = FALSE
      /\ r.from \in End /\ r.to \in End /\ r.exLower \in BOOLEAN /\ r.exUpper \in BOOLEAN
      /\ r.from = Unbound => r.exLower = FALSE
      /\ r.to = Unbound => r.exUpper = FALSE
  BY RangeFields
<1> DEFINE lower == CompareKey(l.from, r.from, TRUE, l.exLower, r.exLower)
           upper == CompareKey(l.to, r.to, FALSE, l.exUpper, r.exUpper)
<1>2. /\ lower = "RHS" <=> Begins(l, r)
      /\ lower = "TIE" <=> l.from = r.from /\ l.exLower = r.exLower
  <2>1. LowerCompared(l.from, l.exLower, r.from, r.exLower)
    BY <1>1, LowerFirstFacts
  <2> QED
    BY <2>1 DEF LowerCompared, Begins
<1>3. upper = "RHS" <=> Ends(l, r)
  <2>1. UpperCompared(l.to, l.exUpper, r.to, r.exUpper)
    BY <1>1, UpperFirstFacts
  <2> QED
    BY <2>1 DEF UpperCompared, Ends
<1>4. InOrder(l, r) <=> (IF lower # "TIE" THEN lower ELSE upper) = "RHS"
  BY DEF InOrder, Compare
<1> HIDE DEF lower, upper
<1> QED
  BY <1>2, <1>3, <1>4

\* Compare orders ranges strictly and totally.
LEMMA InOrderOrders ==
    ASSUME NEW a \in SingleKeyRange, NEW b \in SingleKeyRange, NEW c \in SingleKeyRange
    PROVE  /\ ~InOrder(a, a)
           /\ InOrder(a, b) \/ InOrder(b, a) \/ a = b
           /\ InOrder(a, b) /\ InOrder(b, c) => InOrder(a, c)
<1>1. /\ ProperEnd(a.from, a.exLower) /\ ProperEnd(a.to, a.exUpper)
      /\ ProperEnd(b.from, b.exLower) /\ ProperEnd(b.to, b.exUpper)
      /\ ProperEnd(c.from, c.exLower) /\ ProperEnd(c.to, c.exUpper)
  BY RangeFields DEF ProperEnd
<1>2. /\ ~Begins(a, a)
      /\ Begins(a, b) \/ Begins(b, a) \/ (a.from = b.from /\ a.exLower = b.exLower)
      /\ Begins(a, b) /\ Begins(b, c) => Begins(a, c)
  <2>1. EndsInOrder(a.from, a.exLower, b.from, b.exLower, c.from, c.exLower)
    BY <1>1, EndsOrdered
  <2> QED
    BY <2>1 DEF EndsInOrder, Begins
<1>3. /\ ~Ends(a, a)
      /\ Ends(a, b) \/ Ends(b, a) \/ (a.to = b.to /\ a.exUpper = b.exUpper)
      /\ Ends(a, b) /\ Ends(b, c) => Ends(a, c)
  <2>1. EndsInOrder(a.to, a.exUpper, b.to, b.exUpper, c.to, c.exUpper)
    BY <1>1, EndsOrdered
  <2> QED
    BY <2>1 DEF EndsInOrder, Ends
<1>4. a.from = b.from /\ a.exLower = b.exLower /\ a.to = b.to /\ a.exUpper = b.exUpper => a = b
  BY DEF SingleKeyRange
<1>5. /\ a.from = b.from /\ a.exLower = b.exLower => (Begins(a, c) <=> Begins(b, c))
      /\ b.from = c.from /\ b.exLower = c.exLower => (Begins(a, b) <=> Begins(a, c))
  BY DEF Begins
<1> QED
  BY <1>2, <1>3, <1>4, <1>5, InOrderIs

\* A range that is not after another in the order does not begin after it.
LEMMA InOrderBegins ==
    ASSUME NEW l \in SingleKeyRange, NEW r \in SingleKeyRange, ~InOrder(r, l)
    PROVE  ~Begins(r, l)
  BY InOrderIs

\* In a finite order every place is taken: as many elements lie before the k-th
\* as there are places before it.
Rank(n, before, i) == Cardinality({j \in 1 .. n : <<j, i>> \in before})
IsOrder(n, before) ==
    /\ \A i \in 1 .. n : <<i, i>> \notin before
    /\ \A i, j \in 1 .. n : <<i, j>> \in before \/ <<j, i>> \in before \/ i = j
    /\ \A i, j, k \in 1 .. n : <<i, j>> \in before /\ <<j, k>> \in before => <<i, k>> \in before

LEMMA RankFacts ==
    ASSUME NEW n \in Nat, NEW before, IsOrder(n, before)
    PROVE  /\ \A i \in 1 .. n : Rank(n, before, i) \in 0 .. n - 1
           /\ \A i, j \in 1 .. n : <<i, j>> \in before => Rank(n, before, i) < Rank(n, before, j)
           /\ \A k \in 1 .. n : \E i \in 1 .. n : Rank(n, before, i) = k - 1
<1> DEFINE A(i) == {j \in 1 .. n : <<j, i>> \in before}
<1>1. IsFiniteSet(1 .. n) /\ Cardinality(1 .. n) = n
  BY FS_Interval
<1>2. ASSUME NEW i \in 1 .. n
      PROVE  IsFiniteSet(A(i)) /\ Cardinality(A(i)) \in Nat /\ Cardinality(A(i)) < n
  <2>1. A(i) \subseteq 1 .. n /\ i \notin A(i)
    BY DEF IsOrder
  <2> HIDE DEF A
  <2>2. A(i) \in SUBSET (1 .. n) /\ A(i) # 1 .. n
    BY <2>1
  <2>3. IsFiniteSet(A(i)) /\ Cardinality(A(i)) <= Cardinality(1 .. n)
          /\ (Cardinality(1 .. n) = Cardinality(A(i)) => 1 .. n = A(i))
    BY <1>1, <2>2, FS_Subset
  <2>4. Cardinality(A(i)) \in Nat
    BY <2>3, FS_CardinalityType
  <2> QED
    BY <1>1, <2>2, <2>3, <2>4
<1>3. ASSUME NEW i \in 1 .. n, NEW j \in 1 .. n, <<i, j>> \in before
      PROVE  Cardinality(A(i)) < Cardinality(A(j))
  <2>1. A(i) \in SUBSET A(j) /\ i \in A(j) /\ i \notin A(i)
    BY <1>3 DEF IsOrder
  <2>2. IsFiniteSet(A(j)) /\ Cardinality(A(i)) \in Nat /\ Cardinality(A(j)) \in Nat
    BY <1>2
  <2> HIDE DEF A
  <2>3. Cardinality(A(i)) <= Cardinality(A(j)) /\ (Cardinality(A(j)) = Cardinality(A(i)) => A(j) = A(i))
    BY <2>1, <2>2, FS_Subset
  <2>4. A(i) # A(j)
    BY <2>1
  <2> QED
    BY <2>2, <2>3, <2>4
<1> DEFINE rank == [i \in 1 .. n |-> Cardinality(A(i))]
<1>4. \A i \in 1 .. n : Rank(n, before, i) = Cardinality(A(i))
  BY DEF Rank
<1> HIDE DEF A
<1>5. rank \in [1 .. n -> 0 .. n - 1]
  BY <1>2
<1>6. \A i, j \in 1 .. n : rank[i] = rank[j] => i = j
  <2>1. ASSUME NEW i \in 1 .. n, NEW j \in 1 .. n, rank[i] = rank[j], i # j PROVE FALSE
    <3>1. <<i, j>> \in before \/ <<j, i>> \in before
      BY <2>1 DEF IsOrder
    <3>2. Cardinality(A(i)) < Cardinality(A(j)) \/ Cardinality(A(j)) < Cardinality(A(i))
      BY <1>3, <3>1
    <3> QED
      BY <1>2, <2>1, <3>2
  <2> QED
    BY <2>1
<1> HIDE DEF rank
<1>7. rank \in Injection(1 .. n, 0 .. n - 1)
  BY <1>5, <1>6 DEF Injection, IsInjective
<1>8. IsFiniteSet(0 .. n - 1) /\ Cardinality(0 .. n - 1) = n
  BY FS_Interval
<1>9. rank \in Surjection(1 .. n, 0 .. n - 1)
  BY <1>1, <1>7, <1>8, FS_Injection
<1>10. \A k \in 1 .. n : \E i \in 1 .. n : rank[i] = k - 1
  <2>1. \A m \in 0 .. n - 1 : \E i \in 1 .. n : rank[i] = m
    BY <1>9 DEF Surjection
  <2> QED
    BY <2>1
<1> QED
  BY <1>2, <1>3, <1>4, <1>10 DEF rank

\* Array#sort keeps the ranges and puts them in order.
SortsInto(t, s) ==
    /\ t \in Seq(SingleKeyRange) /\ Len(t) = Len(s)
    /\ \A i \in 1 .. Len(s) : \E k \in 1 .. Len(s) : t[k] = s[i]
    /\ \A k \in 1 .. Len(s) : \E i \in 1 .. Len(s) : t[k] = s[i]
    /\ \A k, l \in 1 .. Len(s) : k < l => ~InOrder(t[l], t[k])

LEMMA SortFacts ==
    ASSUME NEW s \in Seq(SingleKeyRange)
    PROVE  SortsInto(SortRanges(s, InOrder), s)
<1> DEFINE n == Len(s)
           before == {p \in (1 .. n) \X (1 .. n) :
                        InOrder(s[p[1]], s[p[2]]) \/ (~InOrder(s[p[2]], s[p[1]]) /\ p[1] < p[2])}
           at(k) == CHOOSE i \in 1 .. n : Rank(n, before, i) = k - 1
           t == SortRanges(s, InOrder)
<1>1. n \in Nat /\ \A i \in 1 .. n : s[i] \in SingleKeyRange
  BY LenProperties
<1>2. \A i, j \in 1 .. n : <<i, j>> \in before <=>
         InOrder(s[i], s[j]) \/ (~InOrder(s[j], s[i]) /\ i < j)
  OBVIOUS
<1>3. t = [k \in 1 .. n |-> s[at(k)]]
  <2>1. \A i \in 1 .. n : {j \in 1 .. n : <<j, i>> \in before} = Ahead(s, InOrder, i)
    BY DEF Ahead
  <2>2. \A i \in 1 .. n : Rank(n, before, i) = Cardinality(Ahead(s, InOrder, i))
    BY <2>1 DEF Rank
  <2>3. t = [k \in 1 .. n |-> s[CHOOSE i \in 1 .. n : Cardinality(Ahead(s, InOrder, i)) = k - 1]]
    BY DEF SortRanges
  <2> HIDE DEF before, t, n
  <2> DEFINE pos(k) == CHOOSE i \in 1 .. n : Cardinality(Ahead(s, InOrder, i)) = k - 1
  <2>4. \A k \in 1 .. n : pos(k) = at(k)
    BY <2>2
  <2>5. t = [k \in 1 .. n |-> s[pos(k)]]
    BY <2>3
  <2> HIDE DEF at, pos
  <2> QED
    BY <2>4, <2>5
<1> HIDE DEF before, t
<1>4. IsOrder(n, before)
  <2>1. \A i \in 1 .. n : <<i, i>> \notin before
    BY <1>1, <1>2, InOrderOrders
  <2>2. \A i, j \in 1 .. n : <<i, j>> \in before \/ <<j, i>> \in before \/ i = j
    <3>1. ASSUME NEW i \in 1 .. n, NEW j \in 1 .. n, i # j
          PROVE  <<i, j>> \in before \/ <<j, i>> \in before
      <4>1. i < j \/ j < i
        BY <3>1
      <4> QED
        BY <1>2, <4>1
    <3> QED
      BY <3>1
  <2>3. ASSUME NEW i \in 1 .. n, NEW j \in 1 .. n, NEW k \in 1 .. n,
               <<i, j>> \in before, <<j, k>> \in before
        PROVE  <<i, k>> \in before
    <3> DEFINE L(x, y) == InOrder(s[x], s[y])
    <3>1. /\ s[i] \in SingleKeyRange /\ s[j] \in SingleKeyRange /\ s[k] \in SingleKeyRange
      BY <1>1
    <3>2. /\ L(i, j) \/ L(j, i) \/ s[i] = s[j]
          /\ L(j, k) \/ L(k, j) \/ s[j] = s[k]
          /\ L(i, j) /\ L(j, k) => L(i, k)
          /\ L(k, i) /\ L(i, j) => L(k, j)
          /\ L(j, k) /\ L(k, i) => L(j, i)
          /\ ~L(i, i) /\ ~L(j, j) /\ ~L(k, k)
      BY <3>1, InOrderOrders
    <3>3. /\ L(i, j) \/ (~L(j, i) /\ i < j)
          /\ L(j, k) \/ (~L(k, j) /\ j < k)
      BY <1>2, <2>3
    <3>4. (s[i] = s[j] => (L(i, k) <=> L(j, k)) /\ (L(k, i) <=> L(k, j)))
          /\ (s[j] = s[k] => (L(i, j) <=> L(i, k)) /\ (L(j, i) <=> L(k, i)))
      OBVIOUS
    <3>5. i < j /\ j < k => i < k
      BY <1>1
    <3> HIDE DEF L
    <3>6. L(i, k) \/ (~L(k, i) /\ i < k)
      BY <3>2, <3>3, <3>4, <3>5
    <3> QED
      BY <1>2, <3>6 DEF L
  <2> QED
    BY <2>1, <2>2, <2>3 DEF IsOrder
<1>5. /\ \A i \in 1 .. n : Rank(n, before, i) \in 0 .. n - 1
      /\ \A i, j \in 1 .. n : <<i, j>> \in before => Rank(n, before, i) < Rank(n, before, j)
      /\ \A k \in 1 .. n : \E i \in 1 .. n : Rank(n, before, i) = k - 1
  BY <1>1, <1>4, RankFacts
<1>6. \A k \in 1 .. n : at(k) \in 1 .. n /\ Rank(n, before, at(k)) = k - 1
  BY <1>5
<1> HIDE DEF at
<1>7. ASSUME NEW i \in 1 .. n
      PROVE  at(Rank(n, before, i) + 1) = i /\ Rank(n, before, i) + 1 \in 1 .. n
  <2> DEFINE k == Rank(n, before, i) + 1
  <2>1. Rank(n, before, i) \in 0 .. n - 1
    BY <1>5
  <2>2. k \in 1 .. n /\ k - 1 = Rank(n, before, i)
    BY <1>1, <2>1
  <2> HIDE DEF k
  <2>3. at(k) \in 1 .. n /\ Rank(n, before, at(k)) = Rank(n, before, i)
    BY <1>6, <2>2
  <2>4. ASSUME at(k) # i PROVE FALSE
    <3>1. <<at(k), i>> \in before \/ <<i, at(k)>> \in before
      BY <1>4, <2>3, <2>4 DEF IsOrder
    <3>2. Rank(n, before, i) < Rank(n, before, i)
      BY <1>5, <2>3, <3>1
    <3> QED
      BY <2>1, <3>2
  <2> QED
    BY <2>2, <2>4 DEF k
<1>8. t \in Seq(SingleKeyRange) /\ Len(t) = n
  BY <1>1, <1>3, <1>6
<1>9. \A k \in 1 .. n : t[k] = s[at(k)]
  BY <1>3
<1>10. \A i \in 1 .. n : \E k \in 1 .. n : t[k] = s[i]
  BY <1>7, <1>9
<1>11. \A k \in 1 .. n : \E i \in 1 .. n : t[k] = s[i]
  BY <1>6, <1>9
<1>12. ASSUME NEW k \in 1 .. n, NEW l \in 1 .. n, k < l
       PROVE  ~InOrder(t[l], t[k])
  <2>1. at(k) \in 1 .. n /\ at(l) \in 1 .. n /\ Rank(n, before, at(k)) = k - 1 /\ Rank(n, before, at(l)) = l - 1
    BY <1>6
  <2>2. ~(l - 1 < k - 1) /\ k - 1 # l - 1
    BY <1>12
  <2>3. <<at(k), at(l)>> \in before
    <3>1. <<at(k), at(l)>> \in before \/ <<at(l), at(k)>> \in before \/ at(k) = at(l)
      BY <1>4, <2>1 DEF IsOrder
    <3>2. at(k) # at(l)
      BY <2>1, <2>2
    <3>3. <<at(l), at(k)>> \in before => l - 1 < k - 1
      BY <1>5, <2>1
    <3> QED
      BY <2>2, <3>1, <3>2, <3>3
  <2>4. InOrder(t[k], t[l]) \/ ~InOrder(t[l], t[k])
    BY <1>2, <1>9, <2>1, <2>3
  <2>5. t[k] \in SingleKeyRange /\ t[l] \in SingleKeyRange
    BY <1>1, <1>9, <2>1
  <2> QED
    BY <2>4, <2>5, InOrderOrders
<1> QED
  BY <1>8, <1>10, <1>11, <1>12 DEF SortsInto, t

-----------------------------------------------------------------------------
(* Sets of ranges *)

\* Induction over the natural numbers.
LEMMA Induction ==
    ASSUME NEW G, 0 \in G, \A n \in Nat : n \in G => n + 1 \in G
    PROVE  Nat \subseteq G
<1> DEFINE S == {n \in Nat : n \notin G}
<1>1. SUFFICES ASSUME S # {} PROVE FALSE
  OBVIOUS
<1>2. PICK n \in S : \A m \in S : ~(<<m, n>> \in OpToRel(<, Nat))
  BY <1>1, NatLessThanWellFounded, WFMin
<1>3. n \in Nat /\ n # 0 /\ n - 1 \in Nat /\ (n - 1) + 1 = n
  OBVIOUS
<1>4. <<n - 1, n>> \in OpToRel(<, Nat)
  BY <1>3 DEF OpToRel
<1>5. n - 1 \notin S
  BY <1>2, <1>4
<1> QED
  BY <1>3, <1>5

\* Ranges in order, each ending before the next begins: asked one after the other
\* they give every key once, from the least to the greatest.
InRow(s) == \A i, j \in DOMAIN s : i < j => EndsBefore(s[i], s[j])

LEMMA InRowKeys ==
    ASSUME NEW s \in Seq(SingleKeyRange), InRow(s), NEW i \in DOMAIN s, NEW j \in DOMAIN s, i < j,
           NEW k1 \in Int, NEW k2 \in Int, Covers(s[i], k1), Covers(s[j], k2)
    PROVE  k1 < k2
<1>1. s[i] \in SingleKeyRange /\ s[j] \in SingleKeyRange /\ EndsBefore(s[i], s[j])
  BY DEF InRow
<1> QED
  BY <1>1, BeforeShareNothing

LEMMA BeginsFacts ==
    ASSUME NEW a \in SingleKeyRange, NEW b \in SingleKeyRange, NEW c \in SingleKeyRange
    PROVE  /\ ~Begins(a, b) /\ ~Begins(b, c) => ~Begins(a, c)
           /\ CompareKey(a.from, b.from, TRUE, a.exLower, b.exLower) = "LHS" <=> Begins(b, a)
           /\ EndsBefore(c, a) /\ ~Begins(b, a) => EndsBefore(c, b)
<1>1. /\ ProperEnd(a.from, a.exLower) /\ ProperEnd(b.from, b.exLower) /\ ProperEnd(c.from, c.exLower)
  BY RangeFields DEF ProperEnd
<1>2. ~Begins(a, b) /\ ~Begins(b, c) => ~Begins(a, c)
  <2>1. EndsInOrder(a.from, a.exLower, c.from, c.exLower, b.from, b.exLower)
    BY <1>1, EndsOrdered
  <2>2. EndsInOrder(b.from, b.exLower, a.from, a.exLower, c.from, c.exLower)
    BY <1>1, EndsOrdered
  <2>3. EndsInOrder(c.from, c.exLower, b.from, b.exLower, a.from, a.exLower)
    BY <1>1, EndsOrdered
  <2>4. EndsInOrder(a.from, a.exLower, b.from, b.exLower, c.from, c.exLower)
    BY <1>1, EndsOrdered
  <2> QED
    BY <2>1, <2>2, <2>3, <2>4 DEF EndsInOrder, Begins
<1>3. CompareKey(a.from, b.from, TRUE, a.exLower, b.exLower) = "LHS" <=> Begins(b, a)
  <2>1. LowerCompared(a.from, a.exLower, b.from, b.exLower)
    BY <1>1, LowerFirstFacts DEF ProperEnd
  <2> QED
    BY <2>1 DEF LowerCompared, Begins
<1>4. EndsBefore(c, a) /\ ~Begins(b, a) => EndsBefore(c, b)
  <2>1. c.to \in End /\ c.exUpper \in BOOLEAN
    BY RangeFields
  <2> QED
    BY <1>1, <2>1, UnboundIsNoKey DEF EndsBefore, Begins, LowerFirst, ProperEnd, End
<1> QED
  BY <1>2, <1>3, <1>4

\* The range that two are merged into begins where the first did.
LEMMA BoundLowerIsFirst ==
    ASSUME NEW l, NEW exL, ProperEnd(l, exL), NEW r, NEW exR, ProperEnd(r, exR),
           ~LowerFirst(r, exR, l, exL)
    PROVE  /\ BoundLower(l, r, exL, exR).end = l
           /\ (l # Unbound /\ BoundLower(l, r, exL, exR).ex) = exL
<1> USE UnboundIsNoKey DEF BoundLower, CompareKey, Flip, LowerFirst, ProperEnd, End
<1>1. CASE l = Unbound
  BY <1>1
<1>2. CASE l \in Int /\ r = Unbound
  BY <1>2
<1>3. CASE l \in Int /\ r \in Int
  BY <1>3
<1> QED
  BY <1>1, <1>2, <1>3

LEMMA BoundingBegins ==
    ASSUME NEW l \in SingleKeyRange, NEW r \in SingleKeyRange, ~Begins(r, l)
    PROVE  BoundingRange(l, r).from = l.from /\ BoundingRange(l, r).exLower = l.exLower
<1> DEFINE low  == BoundLower(l.from, r.from, l.exLower, r.exLower)
           high == BoundUpper(l.to, r.to, l.exUpper, r.exUpper)
<1>1. BoundingRange(l, r) = NewRange(low.end, high.end, low.ex, high.ex)
  BY BoundingParts
<1>2. ProperEnd(l.from, l.exLower) /\ ProperEnd(r.from, r.exLower)
  BY RangeFields DEF ProperEnd
<1>3. low.end = l.from /\ (l.from # Unbound /\ low.ex) = l.exLower
  BY <1>2, BoundLowerIsFirst DEF Begins
<1> HIDE DEF low, high
<1>4. BoundingRange(l, r).from = low.end /\ BoundingRange(l, r).exLower = (low.end # Unbound /\ low.ex)
  BY <1>1 DEF NewRange
<1> QED
  BY <1>3, <1>4

\* One round of the loop of add(): done are the ranges merged so far.
LEMMA MergeStep ==
    ASSUME NEW done \in Seq(SingleKeyRange), Len(done) > 0, InRow(done),
           NEW r \in SingleKeyRange, ~Begins(r, done[Len(done)])
    PROVE  LET next == Merged(done, r)
           IN  /\ next \in Seq(SingleKeyRange) /\ Len(next) > 0 /\ InRow(next)
               /\ \A key \in Int : ContainsKey(next, key) <=> ContainsKey(done, key) \/ Covers(r, key)
               /\ \A x \in SingleKeyRange : ~Begins(x, r) => ~Begins(x, next[Len(next)])
<1> DEFINE n == Len(done)
           last == done[n]
           next == Merged(done, r)
<1>1. n \in Nat /\ n > 0 /\ DOMAIN done = 1 .. n /\ n \in 1 .. n
      /\ \A i \in 1 .. n : done[i] \in SingleKeyRange
  BY LenProperties
<1>2. last \in SingleKeyRange
  BY <1>1
<1>3. CASE Overlaps(last, r)
  <2> DEFINE b == BoundingRange(last, r)
  <2>1. next = [done EXCEPT ![n] = b]
    BY <1>3 DEF Merged
  <2>2. /\ b \in SingleKeyRange
        /\ \A key \in Int : Covers(b, key) <=> Covers(last, key) \/ Covers(r, key)
    BY <1>2, <1>3, BoundingRangeIsUnion
  <2>3. b.from = last.from /\ b.exLower = last.exLower
    BY <1>2, BoundingBegins
  <2> HIDE DEF b
  <2>4. /\ next \in Seq(SingleKeyRange) /\ Len(next) = n /\ DOMAIN next = 1 .. n
        /\ \A i \in 1 .. n : next[i] = IF i = n THEN b ELSE done[i]
    BY <1>1, <2>1, <2>2, ExceptSeq
  <2> HIDE DEF next, last, n
  <2>5. InRow(next)
    <3>1. ASSUME NEW i \in 1 .. n, NEW j \in 1 .. n, i < j PROVE EndsBefore(next[i], next[j])
      <4>1. i # n /\ next[i] = done[i] /\ EndsBefore(done[i], done[j])
        BY <1>1, <2>4, <3>1 DEF InRow
      <4>2. CASE j # n
        BY <2>4, <4>1, <4>2
      <4>3. CASE j = n
        <5>1. next[j] = b /\ EndsBefore(done[i], last)
          BY <2>4, <4>1, <4>3 DEF last
        <5> QED
          BY <2>3, <4>1, <5>1 DEF EndsBefore
      <4> QED
        BY <4>2, <4>3
    <3> QED
      BY <2>4, <3>1 DEF InRow
  <2>6. ASSUME NEW key \in Int
        PROVE  ContainsKey(next, key) <=> ContainsKey(done, key) \/ Covers(r, key)
    <3>1. ContainsKey(next, key) <=> \E i \in 1 .. n : Covers(next[i], key)
      BY <2>4 DEF ContainsKey
    <3>2. ContainsKey(done, key) <=> \E i \in 1 .. n : Covers(done[i], key)
      BY <1>1 DEF ContainsKey
    <3>3. last = done[n] /\ next[n] = b
      BY <1>1, <2>4 DEF last
    <3> QED
      BY <1>1, <2>2, <2>4, <3>1, <3>2, <3>3
  <2>7. ASSUME NEW x \in SingleKeyRange, ~Begins(x, r) PROVE ~Begins(x, next[Len(next)])
    <3>1. ~Begins(x, last)
      BY <1>2, <2>7, BeginsFacts DEF last, n
    <3>2. next[Len(next)] = b
      BY <1>1, <2>4
    <3> QED
      BY <2>3, <3>1, <3>2 DEF Begins
  <2> QED
    BY <1>1, <2>4, <2>5, <2>6, <2>7 DEF next
<1>4. CASE ~Overlaps(last, r)
  <2>1. next = Append(done, r)
    BY <1>4 DEF Merged
  <2>2. EndsBefore(last, r)
    <3>1. CompareKey(last.from, r.from, TRUE, last.exLower, r.exLower) # "LHS"
      BY <1>2, BeginsFacts
    <3> QED
      BY <1>2, <1>4, <3>1, ApartFacts
  <2>3. /\ next \in Seq(SingleKeyRange) /\ Len(next) = n + 1 /\ DOMAIN next = 1 .. (n + 1)
        /\ next[n + 1] = r /\ \A i \in 1 .. n : next[i] = done[i]
    BY <1>1, <2>1, AppendProperties
  <2> HIDE DEF next, last, n
  <2>4. InRow(next)
    <3>1. ASSUME NEW i \in 1 .. (n + 1), NEW j \in 1 .. (n + 1), i < j PROVE EndsBefore(next[i], next[j])
      <4>1. i \in 1 .. n /\ next[i] = done[i]
        BY <1>1, <2>3, <3>1
      <4>2. CASE j \in 1 .. n
        BY <1>1, <2>3, <3>1, <4>1, <4>2 DEF InRow
      <4>3. CASE j \notin 1 .. n
        <5>1. j = n + 1 /\ next[j] = r
          BY <1>1, <2>3, <4>3
        <5>2. CASE i = n
          BY <2>2, <4>1, <5>1, <5>2 DEF last
        <5>3. CASE i # n
          <6>1. EndsBefore(done[i], last)
            BY <1>1, <4>1, <5>3 DEF InRow, last
          <6> QED
            BY <1>1, <1>2, <4>1, <5>1, <6>1, BeginsFacts DEF last, n
        <5> QED
          BY <5>2, <5>3
      <4> QED
        BY <4>2, <4>3
    <3> QED
      BY <2>3, <3>1 DEF InRow
  <2>5. ASSUME NEW key \in Int
        PROVE  ContainsKey(next, key) <=> ContainsKey(done, key) \/ Covers(r, key)
    <3>1. ContainsKey(next, key) <=> \E i \in 1 .. (n + 1) : Covers(next[i], key)
      BY <2>3 DEF ContainsKey
    <3>2. ContainsKey(done, key) <=> \E i \in 1 .. n : Covers(done[i], key)
      BY <1>1 DEF ContainsKey
    <3>3. \A i \in 1 .. (n + 1) : i \in 1 .. n \/ i = n + 1
      BY <1>1
    <3>4. \A i \in 1 .. n : i \in 1 .. (n + 1)
      BY <1>1
    <3>5. n + 1 \in 1 .. (n + 1)
      BY <1>1
    <3> QED
      BY <2>3, <3>1, <3>2, <3>3, <3>4, <3>5
  <2> QED
    BY <1>1, <2>3, <2>4, <2>5 DEF next
<1> QED
  BY <1>3, <1>4

\* add(): whatever ranges are added to a set, in whatever order, the set contains
\* the keys it had and theirs and no other, and its ranges lie in order with no
\* key in two of them (single_key_range_set.ts, add).
THEOREM RangeSetsAreExact ==
    ASSUME NEW set \in Seq(SingleKeyRange), InRow(set), NEW ranges \in Seq(SingleKeyRange)
    PROVE  /\ AddRanges(set, ranges) \in Seq(SingleKeyRange) /\ InRow(AddRanges(set, ranges))
           /\ \A key \in Int : ContainsKey(AddRanges(set, ranges), key)
                                 <=> ContainsKey(set, key) \/ ContainsKey(ranges, key)
<1> SUFFICES ASSUME ranges # <<>>
             PROVE  /\ AddRanges(set, ranges) \in Seq(SingleKeyRange) /\ InRow(AddRanges(set, ranges))
                    /\ \A key \in Int : ContainsKey(AddRanges(set, ranges), key)
                                          <=> ContainsKey(set, key) \/ ContainsKey(ranges, key)
  <2>1. CASE ranges = <<>>
    <3>1. AddRanges(set, ranges) = set
      BY <2>1 DEF AddRanges
    <3> QED
      BY <2>1, <3>1, NoRange
  <2> QED
    BY <2>1
<1> DEFINE all == set \o ranges
           s == SortRanges(all, InOrder)
           size == Len(s)
<1>1. ranges # <<>>
  OBVIOUS
<1>2. all \in Seq(SingleKeyRange) /\ Len(all) > 0 /\ SortsInto(s, all)
  <2>1. all \in Seq(SingleKeyRange) /\ Len(all) = Len(set) + Len(ranges)
    BY ConcatProperties
  <2>2. Len(ranges) \in Nat /\ Len(ranges) # 0 /\ Len(set) \in Nat
    BY LenProperties, EmptySeq
  <2> HIDE DEF all
  <2> QED
    BY <2>1, <2>2, SortFacts
<1> DEFINE Fits(f, n) == f = [i \in 1 .. n |-> IF i = 1 THEN << s[1] >> ELSE Merged(f[i - 1], s[i])]
           it == CHOOSE f : Fits(f, size)
<1>3. AddRanges(set, ranges) = it[size]
  BY <1>1 DEF AddRanges
<1>4. Fits(it, size)
  <2> DEFINE G == {n \in Nat : \E f : Fits(f, n)}
  <2>1. 0 \in G
    <3> DEFINE f == [i \in 1 .. 0 |-> 0]
    <3>1. 1 .. 0 = {}
      OBVIOUS
    <3>2. Fits(f, 0)
      BY <3>1
    <3> HIDE DEF f, Fits
    <3> QED
      BY <3>2
  <2>2. ASSUME NEW n \in Nat, n \in G PROVE n + 1 \in G
    <3>1. PICK f : Fits(f, n)
      BY <2>2
    <3> DEFINE g == [i \in 1 .. n + 1 |-> IF i = n + 1 THEN IF n + 1 = 1 THEN << s[1] >> ELSE Merged(f[n], s[n + 1]) ELSE f[i]]
    <3>2. ASSUME NEW i \in 1 .. n + 1
          PROVE  g[i] = IF i = 1 THEN << s[1] >> ELSE Merged(g[i - 1], s[i])
      <4>1. CASE i = n + 1
        <5>1. i - 1 = n /\ n # n + 1 /\ (i # 1 => n \in 1 .. n + 1)
          BY <4>1
        <5>2. i # 1 => g[i - 1] = f[n]
          BY <5>1
        <5>3. g[i] = IF n + 1 = 1 THEN << s[1] >> ELSE Merged(f[n], s[n + 1])
          BY <4>1
        <5> HIDE DEF g
        <5> QED
          BY <4>1, <5>1, <5>2, <5>3
      <4>2. CASE i # n + 1
        <5>1. i \in 1 .. n /\ (i # 1 => i - 1 \in 1 .. n + 1 /\ i - 1 # n + 1)
          BY <4>2
        <5>2. g[i] = f[i] /\ (i # 1 => g[i - 1] = f[i - 1])
          BY <4>2, <5>1
        <5>3. f[i] = IF i = 1 THEN << s[1] >> ELSE Merged(f[i - 1], s[i])
          BY <3>1, <5>1
        <5> HIDE DEF g
        <5> QED
          BY <5>2, <5>3
      <4> QED
        BY <4>1, <4>2
    <3>3. g = [i \in 1 .. n + 1 |-> g[i]]
      OBVIOUS
    <3> HIDE DEF g
    <3>4. Fits(g, n + 1)
      BY <3>2, <3>3
    <3> HIDE DEF Fits
    <3> QED
      BY <3>4
  <2>3. size \in Nat
    OBVIOUS
  <2>4. size \in G
    <3> HIDE DEF G
    <3> QED
      BY <2>1, <2>2, <2>3, Induction
  <2> HIDE DEF Fits
  <2> QED
    BY <2>4
<1>5. \A i \in 1 .. size : it[i] = IF i = 1 THEN << s[1] >> ELSE Merged(it[i - 1], s[i])
  <2> HIDE DEF it
  <2> QED
    BY <1>4
<1> HIDE DEF it, Fits
<1>6. /\ size \in Nat /\ size > 0 /\ size = Len(all) /\ DOMAIN all = 1 .. size
      /\ \A i \in 1 .. size : s[i] \in SingleKeyRange
      /\ \A i \in 1 .. size : \E k \in 1 .. size : s[k] = all[i]
      /\ \A k \in 1 .. size : \E i \in 1 .. size : s[k] = all[i]
      /\ \A k, l \in 1 .. size : k < l => ~InOrder(s[l], s[k])
  <2> HIDE DEF all, s
  <2>1. Len(all) \in Nat /\ Len(s) = Len(all) /\ s \in Seq(SingleKeyRange) /\ DOMAIN all = 1 .. Len(all)
    BY <1>2, LenProperties DEF SortsInto
  <2>2. \A i \in 1 .. Len(s) : s[i] \in SingleKeyRange
    BY <2>1
  <2> QED
    BY <1>2, <2>1, <2>2 DEF SortsInto
<1>7. ASSUME NEW key \in Int
      PROVE  (\E i \in 1 .. size : Covers(s[i], key)) <=> ContainsKey(set, key) \/ ContainsKey(ranges, key)
  <2>1. ContainsKey(all, key) <=> ContainsKey(set, key) \/ ContainsKey(ranges, key)
    BY ConcatContains
  <2> HIDE DEF all, s, size
  <2>2. ContainsKey(all, key) <=> \E i \in 1 .. size : Covers(all[i], key)
    BY <1>6 DEF ContainsKey
  <2> QED
    BY <1>6, <2>1, <2>2
<1> HIDE DEF all, s, size
<1> DEFINE Good(m, i) ==
             /\ m \in Seq(SingleKeyRange) /\ Len(m) > 0 /\ InRow(m)
             /\ \A key \in Int : ContainsKey(m, key) <=> \E j \in 1 .. i : Covers(s[j], key)
             /\ \A x \in SingleKeyRange : ~Begins(x, s[i]) => ~Begins(x, m[Len(m)])
           G == {i \in Nat : i \in 1 .. size => Good(it[i], i)}
<1>8. 0 \in G
  BY <1>6
<1>9. ASSUME NEW i \in Nat, i \in G PROVE i + 1 \in G
  <2>1. CASE i + 1 \notin 1 .. size
    BY <2>1
  <2>2. CASE i + 1 \in 1 .. size /\ i = 0
    <3>1. it[1] = << s[1] >> /\ s[1] \in SingleKeyRange
      <4>1. 1 \in 1 .. size
        BY <1>6
      <4>2. it[1] = IF 1 = 1 THEN << s[1] >> ELSE Merged(it[1 - 1], s[1])
        BY <1>5, <4>1
      <4> QED
        BY <1>6, <4>1, <4>2
    <3>2. InRow(<< s[1] >>)
      BY DEF InRow
    <3>3. \A key \in Int : ContainsKey(<< s[1] >>, key) <=> \E j \in 1 .. 1 : Covers(s[j], key)
      BY OneRange
    <3>4. << s[1] >> \in Seq(SingleKeyRange) /\ Len(<< s[1] >>) = 1 /\ << s[1] >>[1] = s[1]
      BY <3>1
    <3>5. Good(it[1], 1)
      BY <3>1, <3>2, <3>3, <3>4
    <3> QED
      BY <2>2, <3>5
  <2>3. CASE i + 1 \in 1 .. size /\ i # 0
    <3>1. i \in 1 .. size /\ i < i + 1 /\ i + 1 # 1 /\ (i + 1) - 1 = i
      BY <1>6, <2>3
    <3>2. Good(it[i], i)
      BY <1>9, <3>1
    <3>3. it[i + 1] = Merged(it[i], s[i + 1])
      BY <1>5, <2>3, <3>1
    <3>4. s[i] \in SingleKeyRange /\ s[i + 1] \in SingleKeyRange /\ ~InOrder(s[i + 1], s[i])
      BY <1>6, <2>3, <3>1
    <3>5. ~Begins(s[i + 1], it[i][Len(it[i])])
      BY <3>2, <3>4, InOrderBegins
    <3> DEFINE m == it[i]
               next == Merged(m, s[i + 1])
    <3>6. /\ m \in Seq(SingleKeyRange) /\ Len(m) > 0 /\ InRow(m)
          /\ \A key \in Int : ContainsKey(m, key) <=> \E j \in 1 .. i : Covers(s[j], key)
      BY <3>2
    <3>7. ~Begins(s[i + 1], m[Len(m)])
      BY <3>5
    <3> HIDE DEF m
    <3>8. /\ next \in Seq(SingleKeyRange) /\ Len(next) > 0 /\ InRow(next)
          /\ \A key \in Int : ContainsKey(next, key) <=> ContainsKey(m, key) \/ Covers(s[i + 1], key)
          /\ \A x \in SingleKeyRange : ~Begins(x, s[i + 1]) => ~Begins(x, next[Len(next)])
      BY <3>4, <3>6, <3>7, MergeStep
    <3> HIDE DEF next
    <3>9. \A key \in Int : ContainsKey(next, key) <=> \E j \in 1 .. (i + 1) : Covers(s[j], key)
      <4>1. \A j \in 1 .. (i + 1) : j \in 1 .. i \/ j = i + 1
        OBVIOUS
      <4>2. i + 1 \in 1 .. (i + 1) /\ \A j \in 1 .. i : j \in 1 .. (i + 1)
        OBVIOUS
      <4> QED
        BY <3>6, <3>8, <4>1, <4>2
    <3>10. it[i + 1] = next
      BY <3>3 DEF next, m
    <3>11. Good(next, i + 1)
      BY <3>8, <3>9
    <3> HIDE DEF Good
    <3> QED
      BY <3>10, <3>11
  <2> QED
    BY <2>1, <2>2, <2>3
<1>10. Good(it[size], size)
  <2>1. size \in G
    <3> HIDE DEF G
    <3> QED
      BY <1>6, <1>8, <1>9, Induction
  <2> HIDE DEF Good
  <2> QED
    BY <1>6, <2>1
<1> QED
  BY <1>3, <1>7, <1>10

LEMMA FlattenContains ==
    ASSUME NEW seqs \in Seq(Seq(SingleKeyRange))
    PROVE  /\ FlattenSeq(seqs) \in Seq(SingleKeyRange)
           /\ \A key \in Int : ContainsKey(FlattenSeq(seqs), key)
                                 <=> \E i \in DOMAIN seqs : ContainsKey(seqs[i], key)
<1> SUFFICES ASSUME seqs # <<>>
             PROVE  /\ FlattenSeq(seqs) \in Seq(SingleKeyRange)
                    /\ \A key \in Int : ContainsKey(FlattenSeq(seqs), key)
                                          <=> \E i \in DOMAIN seqs : ContainsKey(seqs[i], key)
  <2>1. CASE seqs = <<>>
    <3>1. FlattenSeq(seqs) = <<>> /\ DOMAIN seqs = {}
      BY <2>1 DEF FlattenSeq
    <3>2. <<>> \in Seq(SingleKeyRange)
      OBVIOUS
    <3> QED
      BY <3>1, <3>2, NoRange
  <2> QED
    BY <2>1
<1> DEFINE size == Len(seqs)
<1>1. /\ size \in Nat /\ size > 0 /\ DOMAIN seqs = 1 .. size
      /\ \A i \in 1 .. size : seqs[i] \in Seq(SingleKeyRange)
  <2>1. Len(seqs) # 0
    BY EmptySeq
  <2> QED
    BY <2>1, LenProperties
<1> DEFINE Fits(f, n) == f = [i \in 1 .. n |-> IF i = 1 THEN seqs[i] ELSE f[i - 1] \o seqs[i]]
           it == CHOOSE f : Fits(f, size)
<1>2. FlattenSeq(seqs) = it[size]
  BY <1>1 DEF FlattenSeq
<1>3. Fits(it, size)
  <2> DEFINE G == {n \in Nat : \E f : Fits(f, n)}
  <2>1. 0 \in G
    <3> DEFINE f == [i \in 1 .. 0 |-> 0]
    <3>1. 1 .. 0 = {}
      OBVIOUS
    <3>2. Fits(f, 0)
      BY <3>1
    <3> HIDE DEF f, Fits
    <3> QED
      BY <3>2
  <2>2. ASSUME NEW n \in Nat, n \in G PROVE n + 1 \in G
    <3>1. PICK f : Fits(f, n)
      BY <2>2
    <3> DEFINE g == [i \in 1 .. n + 1 |-> IF i = n + 1 THEN IF n + 1 = 1 THEN seqs[n + 1] ELSE f[n] \o seqs[n + 1] ELSE f[i]]
    <3>2. ASSUME NEW i \in 1 .. n + 1
          PROVE  g[i] = IF i = 1 THEN seqs[i] ELSE g[i - 1] \o seqs[i]
      <4>1. CASE i = n + 1
        <5>1. i - 1 = n /\ n # n + 1 /\ (i # 1 => n \in 1 .. n + 1)
          BY <4>1
        <5>2. i # 1 => g[i - 1] = f[n]
          BY <5>1
        <5>3. g[i] = IF n + 1 = 1 THEN seqs[n + 1] ELSE f[n] \o seqs[n + 1]
          BY <4>1
        <5> HIDE DEF g
        <5> QED
          BY <4>1, <5>1, <5>2, <5>3
      <4>2. CASE i # n + 1
        <5>1. i \in 1 .. n /\ (i # 1 => i - 1 \in 1 .. n + 1 /\ i - 1 # n + 1)
          BY <4>2
        <5>2. g[i] = f[i] /\ (i # 1 => g[i - 1] = f[i - 1])
          BY <4>2, <5>1
        <5>3. f[i] = IF i = 1 THEN seqs[i] ELSE f[i - 1] \o seqs[i]
          BY <3>1, <5>1
        <5> HIDE DEF g
        <5> QED
          BY <5>2, <5>3
      <4> QED
        BY <4>1, <4>2
    <3>3. g = [i \in 1 .. n + 1 |-> g[i]]
      OBVIOUS
    <3> HIDE DEF g
    <3>4. Fits(g, n + 1)
      BY <3>2, <3>3
    <3> HIDE DEF Fits
    <3> QED
      BY <3>4
  <2>3. size \in Nat
    OBVIOUS
  <2>4. size \in G
    <3> HIDE DEF G
    <3> QED
      BY <2>1, <2>2, <2>3, Induction
  <2> HIDE DEF Fits
  <2> QED
    BY <2>4
<1>4. \A i \in 1 .. size : it[i] = IF i = 1 THEN seqs[i] ELSE it[i - 1] \o seqs[i]
  <2> HIDE DEF it
  <2> QED
    BY <1>3
<1> HIDE DEF it, Fits
<1> HIDE DEF size
<1> DEFINE Good(m, i) ==
             /\ m \in Seq(SingleKeyRange)
             /\ \A key \in Int : ContainsKey(m, key) <=> \E j \in 1 .. i : ContainsKey(seqs[j], key)
           G == {i \in Nat : i \in 1 .. size => Good(it[i], i)}
<1>5. 0 \in G
  BY <1>1
<1>6. ASSUME NEW i \in Nat, i \in G PROVE i + 1 \in G
  <2>1. CASE i + 1 \notin 1 .. size
    BY <2>1
  <2>2. CASE i + 1 \in 1 .. size /\ i = 0
    <3>1. it[1] = seqs[1] /\ seqs[1] \in Seq(SingleKeyRange)
      <4>1. 1 \in 1 .. size
        BY <1>1
      <4>2. it[1] = IF 1 = 1 THEN seqs[1] ELSE it[1 - 1] \o seqs[1]
        BY <1>4, <4>1
      <4> QED
        BY <1>1, <4>1, <4>2
    <3>2. Good(it[1], 1)
      BY <3>1
    <3> QED
      BY <2>2, <3>2
  <2>3. CASE i + 1 \in 1 .. size /\ i # 0
    <3>1. i \in 1 .. size /\ i + 1 # 1 /\ (i + 1) - 1 = i
      BY <1>1, <2>3
    <3>2. Good(it[i], i) /\ seqs[i + 1] \in Seq(SingleKeyRange)
      BY <1>1, <1>6, <2>3, <3>1
    <3>3. it[i + 1] = it[i] \o seqs[i + 1]
      BY <1>4, <2>3, <3>1
    <3> DEFINE m == it[i]
               next == m \o seqs[i + 1]
    <3>4. /\ m \in Seq(SingleKeyRange)
          /\ \A key \in Int : ContainsKey(m, key) <=> \E j \in 1 .. i : ContainsKey(seqs[j], key)
      BY <3>2
    <3>5. it[i + 1] = next
      BY <3>3
    <3> HIDE DEF m
    <3>6. /\ next \in Seq(SingleKeyRange)
          /\ \A key \in Int : ContainsKey(next, key) <=> ContainsKey(m, key) \/ ContainsKey(seqs[i + 1], key)
      BY <3>2, <3>4, ConcatContains, ConcatProperties
    <3> HIDE DEF next
    <3>7. \A key \in Int : ContainsKey(next, key) <=> \E j \in 1 .. (i + 1) : ContainsKey(seqs[j], key)
      <4>1. \A j \in 1 .. (i + 1) : j \in 1 .. i \/ j = i + 1
        OBVIOUS
      <4>2. i + 1 \in 1 .. (i + 1) /\ \A j \in 1 .. i : j \in 1 .. (i + 1)
        OBVIOUS
      <4> QED
        BY <3>4, <3>6, <4>1, <4>2
    <3>8. Good(next, i + 1)
      BY <3>6, <3>7
    <3> HIDE DEF Good
    <3> QED
      BY <3>5, <3>8
  <2> QED
    BY <2>1, <2>2, <2>3
<1>7. Good(it[size], size)
  <2>1. size \in G
    <3> HIDE DEF G
    <3> QED
      BY <1>1, <1>5, <1>6, Induction
  <2> HIDE DEF Good
  <2> QED
    BY <1>1, <2>1
<1> QED
  BY <1>1, <1>2, <1>7

\* intersect(): a key is in the intersection of two sets of ranges if it is in
\* both, and the ranges of the intersection lie in order and apart: conditions
\* on one column that are joined by AND are answered by an index without a row
\* too few, too many or twice (single_key_range_set.ts, intersect).
THEOREM IntersectionsAreExact ==
    ASSUME NEW s0 \in Seq(SingleKeyRange), NEW s1 \in Seq(SingleKeyRange)
    PROVE  /\ Intersect(s0, s1) \in Seq(SingleKeyRange) /\ InRow(Intersect(s0, s1))
           /\ \A key \in Int : ContainsKey(Intersect(s0, s1), key)
                                 <=> ContainsKey(s0, key) /\ ContainsKey(s1, key)
<1> DEFINE dimension(i) == [j \in 1 .. Len(s1) |-> And(s0[i], s1[j])]
           dimensions == [i \in 1 .. Len(s0) |-> FlattenSeq(dimension(i))]
           results == FlattenSeq(dimensions)
<1>1. /\ DOMAIN s0 = 1 .. Len(s0) /\ DOMAIN s1 = 1 .. Len(s1) /\ Len(s0) \in Nat /\ Len(s1) \in Nat
      /\ \A i \in 1 .. Len(s0) : s0[i] \in SingleKeyRange
      /\ \A j \in 1 .. Len(s1) : s1[j] \in SingleKeyRange
  BY LenProperties
<1>2. ASSUME NEW i \in 1 .. Len(s0)
      PROVE  /\ FlattenSeq(dimension(i)) \in Seq(SingleKeyRange)
             /\ \A key \in Int : ContainsKey(FlattenSeq(dimension(i)), key)
                                   <=> Covers(s0[i], key) /\ ContainsKey(s1, key)
  <2>1. /\ DOMAIN dimension(i) = 1 .. Len(s1)
        /\ \A j \in 1 .. Len(s1) : dimension(i)[j] = And(s0[i], s1[j])
    OBVIOUS
  <2>2. \A j \in 1 .. Len(s1) :
          /\ And(s0[i], s1[j]) \in Seq(SingleKeyRange)
          /\ \A key \in Int : ContainsKey(And(s0[i], s1[j]), key) <=> Covers(s0[i], key) /\ Covers(s1[j], key)
    BY <1>1, AndIsIntersection
  <2>3. dimension(i) \in Seq(Seq(SingleKeyRange))
    BY <1>1, <2>2
  <2> HIDE DEF dimension
  <2>4. /\ FlattenSeq(dimension(i)) \in Seq(SingleKeyRange)
        /\ \A key \in Int : ContainsKey(FlattenSeq(dimension(i)), key)
                              <=> \E j \in 1 .. Len(s1) : ContainsKey(dimension(i)[j], key)
    BY <2>1, <2>3, FlattenContains
  <2>5. ASSUME NEW key \in Int
        PROVE  ContainsKey(FlattenSeq(dimension(i)), key) <=> Covers(s0[i], key) /\ ContainsKey(s1, key)
    <3>1. ContainsKey(FlattenSeq(dimension(i)), key)
            <=> \E j \in 1 .. Len(s1) : ContainsKey(And(s0[i], s1[j]), key)
      BY <2>1, <2>4
    <3>2. ContainsKey(s1, key) <=> \E j \in 1 .. Len(s1) : Covers(s1[j], key)
      BY <1>1 DEF ContainsKey
    <3>3. \A j \in 1 .. Len(s1) : ContainsKey(And(s0[i], s1[j]), key) <=> Covers(s0[i], key) /\ Covers(s1[j], key)
      BY <2>2
    <3> QED
      BY <3>1, <3>2, <3>3
  <2> QED
    BY <2>4, <2>5
<1> HIDE DEF dimension
<1>3. dimensions \in Seq(Seq(SingleKeyRange)) /\ DOMAIN dimensions = 1 .. Len(s0)
  BY <1>1, <1>2
<1>4. \A i \in 1 .. Len(s0) : dimensions[i] = FlattenSeq(dimension(i))
  OBVIOUS
<1> HIDE DEF dimensions
<1>5. /\ results \in Seq(SingleKeyRange)
      /\ \A key \in Int : ContainsKey(results, key)
                            <=> \E i \in 1 .. Len(s0) : ContainsKey(dimensions[i], key)
  BY <1>3, FlattenContains
<1> HIDE DEF results
<1>6. ASSUME NEW key \in Int
      PROVE  ContainsKey(results, key) <=> ContainsKey(s0, key) /\ ContainsKey(s1, key)
  <2>1. ContainsKey(s0, key) <=> \E i \in 1 .. Len(s0) : Covers(s0[i], key)
    BY <1>1 DEF ContainsKey
  <2>2. \A i \in 1 .. Len(s0) : ContainsKey(dimensions[i], key) <=> Covers(s0[i], key) /\ ContainsKey(s1, key)
    BY <1>2, <1>4
  <2>3. ContainsKey(results, key) <=> \E i \in 1 .. Len(s0) : ContainsKey(dimensions[i], key)
    BY <1>5
  <2> QED
    BY <2>1, <2>2, <2>3
<1>7. Intersect(s0, s1) = AddRanges(<<>>, results)
  BY DEF Intersect, RangeSet, results, dimensions, dimension
<1>8. <<>> \in Seq(SingleKeyRange) /\ InRow(<<>>)
  BY DEF InRow
<1>9. /\ AddRanges(<<>>, results) \in Seq(SingleKeyRange) /\ InRow(AddRanges(<<>>, results))
      /\ \A key \in Int : ContainsKey(AddRanges(<<>>, results), key)
                            <=> ContainsKey(<<>>, key) \/ ContainsKey(results, key)
  BY <1>5, <1>8, RangeSetsAreExact
<1> QED
  BY <1>6, <1>7, <1>9, NoRange

\* The static complement(): the gaps between single keys, and what lies below and
\* above them, contain all other keys and none of these (key_range.ts, complement,
\* behind NOT IN).  Of no keys at all the code gives no gap, which departs from it.
THEOREM GapsAreComplement ==
    ASSUME NEW onlys \in Seq({Only(k) : k \in Int}), onlys # <<>>
    PROVE  /\ ComplementOf(onlys) \in Seq(SingleKeyRange)
           /\ \A key \in Int : ContainsKey(ComplementOf(onlys), key) <=> ~ContainsKey(onlys, key)
<1> DEFINE s == SortRanges(onlys, InOrder)
           n == Len(s)
           a(i) == s[i].from
           first == << UpperBound(a(1), TRUE) >>
           gaps == [i \in 1 .. (n - 1) |-> NewRange(s[i].to, a(i + 1), TRUE, TRUE)]
           final == << LowerBound(s[n].to, TRUE) >>
<1>1. Unbound \in End /\ \A k \in Int : k \in End
  BY DEF End
<1>2. ASSUME NEW k \in Int
      PROVE  /\ Only(k) \in SingleKeyRange /\ Only(k).from = k /\ Only(k).to = k
             /\ Only(k).exLower = FALSE /\ Only(k).exUpper = FALSE
  <2>1. k \in End
    BY <1>1
  <2>2. Only(k) \in SingleKeyRange
    BY <2>1, NewRangeFacts DEF Only
  <2> QED
    BY <2>2 DEF Only, NewRange
<1>3. onlys \in Seq(SingleKeyRange) /\ SortsInto(s, onlys) /\ Len(onlys) \in Nat /\ Len(onlys) # 0
      /\ DOMAIN onlys = 1 .. Len(onlys) /\ \A i \in 1 .. Len(onlys) : \E k \in Int : onlys[i] = Only(k)
  <2> DEFINE Keys == {Only(k) : k \in Int}
  <2>1. Keys \subseteq SingleKeyRange
    BY <1>2
  <2>2. \A x \in Keys : \E k \in Int : x = Only(k)
    OBVIOUS
  <2>3. onlys \in Seq(Keys)
    OBVIOUS
  <2> HIDE DEF Keys
  <2>4. /\ Len(onlys) \in Nat /\ Len(onlys) # 0 /\ DOMAIN onlys = 1 .. Len(onlys)
        /\ \A i \in 1 .. Len(onlys) : onlys[i] \in Keys
    BY <2>3, LenProperties, EmptySeq
  <2>5. onlys \in Seq(SingleKeyRange)
    BY <2>1, <2>3
  <2> QED
    BY <2>2, <2>4, <2>5, SortFacts
<1> HIDE DEF s
<1>4. /\ n = Len(onlys) /\ n \in Nat /\ n > 0
      /\ \A i \in 1 .. n : \E k \in 1 .. n : s[k] = onlys[i]
      /\ \A i \in 1 .. n : \E k \in 1 .. n : s[i] = onlys[k]
      /\ \A k, l \in 1 .. n : k < l => ~InOrder(s[l], s[k])
  BY <1>3 DEF SortsInto
<1>5. ASSUME NEW i \in 1 .. n
       PROVE  /\ a(i) \in Int /\ s[i].from = a(i) /\ s[i].to = a(i) /\ s[i] \in SingleKeyRange
              /\ \A key \in Int : Covers(s[i], key) <=> key = a(i)
  <2>1. PICK k \in Int : s[i] = Only(k)
    <3>1. PICK m \in 1 .. n : s[i] = onlys[m]
      BY <1>4
    <3>2. \E k \in Int : onlys[m] = Only(k)
      BY <1>3, <1>4
    <3> QED
      BY <3>1, <3>2
  <2> DEFINE only == Only(k)
  <2>2. only.from = k /\ only.to = k /\ only.exLower = FALSE /\ only.exUpper = FALSE /\ k # Unbound
    BY <1>2, UnboundIsNoKey
  <2>3. ASSUME NEW key \in Int PROVE Covers(only, key) <=> key = k
    <3>1. Covers(only, key) <=> Above(k, FALSE, key) /\ Below(k, FALSE, key)
      BY <2>2, CoversAboveBelow
    <3> QED
      BY <2>2, <3>1 DEF Above, Below
  <2> QED
    BY <1>2, <2>1, <2>3
<1> HIDE DEF n, a
<1>6. \A i \in 1 .. n : a(i) \in Int /\ s[i].from = a(i) /\ s[i].to = a(i) /\ s[i] \in SingleKeyRange
  BY <1>5
<1>7. ASSUME NEW i \in 1 .. n, NEW j \in 1 .. n, i <= j PROVE a(i) <= a(j)
  <2>1. CASE i = j
    BY <1>6, <2>1
  <2>2. CASE i < j
    <3>1. ~Begins(s[j], s[i])
      BY <1>4, <1>6, <2>2, InOrderBegins
    <3> QED
      BY <1>6, <3>1 DEF Begins, LowerFirst
  <2>3. i = j \/ i < j
    BY <1>4, <1>7
  <2> QED
    BY <2>1, <2>2, <2>3
<1>8. ASSUME NEW key \in Int
      PROVE  ContainsKey(onlys, key) <=> \E i \in 1 .. n : key = a(i)
  <2>1. ContainsKey(onlys, key) <=> \E i \in 1 .. n : Covers(onlys[i], key)
    BY <1>3, <1>4 DEF ContainsKey
  <2>2. \A i \in 1 .. n : Covers(s[i], key) <=> key = a(i)
    BY <1>5
  <2> QED
    BY <1>4, <2>1, <2>2
<1>9. 1 \in 1 .. n /\ n \in 1 .. n /\ \A i \in 1 .. (n - 1) : i \in 1 .. n /\ i + 1 \in 1 .. n
  BY <1>4
<1>10. /\ first \in Seq(SingleKeyRange)
      /\ \A key \in Int : ContainsKey(first, key) <=> key < a(1)
  <2>1. a(1) \in Int
    BY <1>9, <1>6
  <2>2. UpperBound(a(1), TRUE) \in SingleKeyRange
    BY <1>1, <2>1, NewRangeFacts DEF UpperBound
  <2>3. \A key \in Int : Covers(UpperBound(a(1), TRUE), key) <=> key < a(1)
    <3>1. \A key \in Int : Covers(UpperBound(a(1), TRUE), key) <=> Above(Unbound, FALSE, key) /\ Below(a(1), TRUE, key)
      BY <1>1, <2>1, CoversNew DEF UpperBound
    <3> QED
      BY <2>1, <3>1, UnboundIsNoKey DEF Above, Below
  <2> DEFINE lower == UpperBound(a(1), TRUE)
  <2>4. lower \in SingleKeyRange /\ \A key \in Int : Covers(lower, key) <=> key < a(1)
    BY <2>2, <2>3
  <2>5. first = << lower >>
    OBVIOUS
  <2> HIDE DEF first, lower
  <2> QED
    BY <2>4, <2>5, OneRange
<1>11. /\ final \in Seq(SingleKeyRange)
      /\ \A key \in Int : ContainsKey(final, key) <=> key > a(n)
  <2>1. a(n) \in Int /\ s[n].to = a(n)
    BY <1>9, <1>6
  <2>2. LowerBound(a(n), TRUE) \in SingleKeyRange
    BY <1>1, <2>1, NewRangeFacts DEF LowerBound
  <2>3. \A key \in Int : Covers(LowerBound(a(n), TRUE), key) <=> key > a(n)
    <3>1. \A key \in Int : Covers(LowerBound(a(n), TRUE), key) <=> Above(a(n), TRUE, key) /\ Below(Unbound, FALSE, key)
      BY <1>1, <2>1, CoversNew DEF LowerBound
    <3> QED
      BY <2>1, <3>1, UnboundIsNoKey DEF Above, Below
  <2> DEFINE upper == LowerBound(a(n), TRUE)
  <2>4. upper \in SingleKeyRange /\ \A key \in Int : Covers(upper, key) <=> key > a(n)
    BY <2>2, <2>3
  <2>5. final = << upper >>
    BY <2>1
  <2> HIDE DEF final, upper
  <2> QED
    BY <2>4, <2>5, OneRange
<1>12. /\ gaps \in Seq(SingleKeyRange) /\ DOMAIN gaps = 1 .. (n - 1)
       /\ \A key \in Int : ContainsKey(gaps, key) <=> \E i \in 1 .. (n - 1) : a(i) < key /\ key < a(i + 1)
  <2>1. ASSUME NEW i \in 1 .. (n - 1)
        PROVE  /\ gaps[i] \in SingleKeyRange
               /\ \A key \in Int : Covers(gaps[i], key) <=> a(i) < key /\ key < a(i + 1)
    <3>1. a(i) \in Int /\ a(i + 1) \in Int /\ s[i].to = a(i)
      BY <1>9, <1>6
    <3>2. gaps[i] = NewRange(a(i), a(i + 1), TRUE, TRUE)
      BY <3>1
    <3>3. gaps[i] \in SingleKeyRange
      BY <1>1, <3>1, <3>2, NewRangeFacts
    <3>4. \A key \in Int : Covers(gaps[i], key) <=> Above(a(i), TRUE, key) /\ Below(a(i + 1), TRUE, key)
      BY <1>1, <3>1, <3>2, CoversNew
    <3> QED
      BY <3>1, <3>3, <3>4, UnboundIsNoKey DEF Above, Below
  <2>2. DOMAIN gaps = 1 .. (n - 1) /\ n - 1 \in Nat
    BY <1>4
  <2>3. gaps = [i \in 1 .. (n - 1) |-> gaps[i]]
    OBVIOUS
  <2> HIDE DEF gaps
  <2>4. gaps \in Seq(SingleKeyRange)
    BY <2>1, <2>2, <2>3
  <2> QED
    BY <2>1, <2>2, <2>4 DEF ContainsKey
<1>13. ComplementOf(onlys) = first \o gaps \o final
  BY <1>3, <1>4 DEF ComplementOf, s, n, a
<1> HIDE DEF first, gaps, final
<1>14. /\ first \o gaps \o final \in Seq(SingleKeyRange)
       /\ \A key \in Int : ContainsKey(first \o gaps \o final, key)
            <=> \/ key < a(1) \/ key > a(n)
                \/ \E i \in 1 .. (n - 1) : a(i) < key /\ key < a(i + 1)
  <2>1. first \o gaps \in Seq(SingleKeyRange)
    BY <1>10, <1>12, ConcatProperties
  <2>2. first \o gaps \o final \in Seq(SingleKeyRange)
    BY <1>11, <2>1, ConcatProperties
  <2>3. \A key \in Int : ContainsKey(first \o gaps \o final, key)
          <=> ContainsKey(first, key) \/ ContainsKey(gaps, key) \/ ContainsKey(final, key)
    BY <1>10, <1>11, <1>12, <2>1, ConcatContains
  <2> QED
    BY <1>10, <1>11, <1>12, <2>2, <2>3
<1>15. ASSUME NEW key \in Int, ContainsKey(first \o gaps \o final, key), NEW j \in 1 .. n, key = a(j)
       PROVE  FALSE
  <2>1. a(1) \in Int /\ a(n) \in Int /\ a(j) \in Int /\ a(1) <= a(j) /\ a(j) <= a(n)
    <3>1. 1 <= j /\ j <= n
      BY <1>4
    <3> QED
      BY <1>7, <1>9, <1>6, <3>1
  <2>2. PICK i \in 1 .. (n - 1) : a(i) < key /\ key < a(i + 1)
    <3>1. \/ key < a(1) \/ key > a(n)
          \/ \E i \in 1 .. (n - 1) : a(i) < key /\ key < a(i + 1)
      BY <1>14, <1>15
    <3>2. ~(key < a(1)) /\ ~(key > a(n))
      <4> HIDE DEF a
      <4> QED
        BY <1>15, <2>1
    <3> QED
      BY <3>1, <3>2
  <2>3. a(i) \in Int /\ a(i + 1) \in Int
    BY <1>9, <1>6
  <2>4. j <= i \/ i + 1 <= j
    BY <1>4
  <2>5. a(j) <= a(i) \/ a(i + 1) <= a(j)
    BY <1>7, <1>9, <2>4
  <2> QED
    BY <1>15, <2>1, <2>2, <2>3, <2>5
<1>16. ASSUME NEW key \in Int, \A j \in 1 .. n : key # a(j)
       PROVE  ContainsKey(first \o gaps \o final, key)
  <2> DEFINE Found == key < a(1) \/ \E i \in 1 .. (n - 1) : a(i) < key /\ key < a(i + 1)
             G == {m \in Nat : m \in 1 .. n /\ key < a(m) => Found}
  <2>1. 0 \in G
    BY <1>4
  <2>2. ASSUME NEW m \in Nat, m \in G PROVE m + 1 \in G
    <3> SUFFICES ASSUME m + 1 \in 1 .. n, key < a(m + 1) PROVE Found
      OBVIOUS
    <3>1. CASE m = 0
      BY <3>1
    <3>2. CASE m # 0
      <4>1. m \in 1 .. n /\ m \in 1 .. (n - 1)
        BY <1>4, <3>2
      <4>2. a(m) \in Int /\ a(m) # key
        BY <1>16, <1>6, <4>1
      <4>3. CASE key < a(m)
        BY <2>2, <4>1, <4>3
      <4>4. CASE ~(key < a(m))
        <5>1. a(m) < key
          BY <4>2, <4>4
        <5> QED
          BY <4>1, <5>1
      <4> QED
        BY <4>3, <4>4
    <3> QED
      BY <3>1, <3>2
  <2>3. n \in G
    <3> HIDE DEF G
    <3> QED
      BY <1>4, <2>1, <2>2, Induction
  <2>4. a(n) \in Int /\ a(n) # key
    BY <1>9, <1>16, <1>6
  <2>5. key > a(n) \/ key < a(n)
    BY <2>4
  <2>6. Found \/ key > a(n)
    BY <1>9, <2>3, <2>5
  <2> QED
    BY <1>14, <2>6
<1> QED
  BY <1>8, <1>13, <1>14, <1>15, <1>16

==============================================================================
