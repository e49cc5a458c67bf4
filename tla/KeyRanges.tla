----------------------------- MODULE KeyRanges -----------------------------
(***************************************************************************)
(* Ranges of the keys of one column (index/key_range.ts).  A predicate     *)
(* that an index can answer is turned into such ranges, the ranges of      *)
(* several predicates are intersected, joined or complemented, and what is *)
(* left is what the index is asked for: a key lost here is a row missing   *)
(* from the answer.  Keys are integers; an end may be unbounded.           *)
(***************************************************************************)
EXTENDS Integers, Sequences, SequencesExt

CONSTANT Unbound
ASSUME UnboundIsNoKey == Unbound \notin Int

NewRange(from, to, exLower, exUpper) ==
  [from |-> from, to |-> to,
   exLower |-> from # Unbound /\ exLower, exUpper |-> to # Unbound /\ exUpper]

UpperBound(key, exclude) == NewRange(Unbound, key, FALSE, exclude)
LowerBound(key, exclude) == NewRange(key, Unbound, exclude, FALSE)
Only(key) == NewRange(key, key, FALSE, FALSE)
All == NewRange(Unbound, Unbound, FALSE, FALSE)

IsAll(r)  == r.from = Unbound /\ r.to = Unbound
IsOnly(r) == r.from = r.to /\ r.from # Unbound /\ ~r.exLower /\ ~r.exUpper

Covers(r, key) ==
  /\ r.from = Unbound \/ key > r.from \/ (key = r.from /\ ~r.exLower)
  /\ r.to = Unbound \/ key < r.to \/ (key = r.to /\ ~r.exUpper)

\* Which of two ends favours the left or the right one.  The logic is that of
\* a lower end; for an upper end the unbounded and the tied cases are flipped.
Flip(favor) == IF favor = "LHS" THEN "RHS" ELSE "LHS"
CompareKey(l, r, isLower, exL, exR) ==
  LET Side(favor) == IF isLower THEN favor ELSE Flip(favor)
      tie == IF exL = exR THEN "TIE" ELSE IF exL THEN Side("LHS") ELSE Side("RHS")
  IN  CASE l = Unbound /\ r = Unbound -> tie
        [] l = Unbound /\ r # Unbound -> Side("RHS")
        [] l # Unbound /\ r = Unbound -> Side("LHS")
        [] OTHER -> IF l < r THEN "RHS" ELSE IF l = r THEN tie ELSE "LHS"

Compare(l, r) ==
  LET lower == CompareKey(l.from, r.from, TRUE, l.exLower, r.exLower)
  IN  IF lower # "TIE" THEN lower
      ELSE CompareKey(l.to, r.to, FALSE, l.exUpper, r.exUpper)

Overlaps(r1, r2) ==
  LET favor == CompareKey(r1.from, r2.from, TRUE, r1.exLower, r2.exLower)
      left  == IF favor = "RHS" THEN r1 ELSE r2
      right == IF favor = "LHS" THEN r1 ELSE r2
  IN  \/ favor = "TIE"
      \/ left.to = Unbound
      \/ left.to > right.from
      \/ left.to = right.from /\ ~left.exUpper /\ ~right.exLower

\* getBoundingRange(): the smallest range that covers both.
BoundingRange(r1, r2) ==
  LET lower == CompareKey(r1.from, r2.from, TRUE, FALSE, FALSE)
      upper == CompareKey(r1.to, r2.to, FALSE, FALSE, FALSE)
      openBelow == r1.from = Unbound \/ r2.from = Unbound
      openAbove == r1.to = Unbound \/ r2.to = Unbound
      low  == IF lower # "LHS" THEN r1 ELSE r2
      high == IF upper # "RHS" THEN r1 ELSE r2
  IN  NewRange(IF openBelow THEN Unbound ELSE low.from,
            IF openAbove THEN Unbound ELSE high.to,
            IF lower = "TIE" THEN r1.exLower /\ r2.exLower ELSE low.exLower,
            IF upper = "TIE" THEN r1.exUpper /\ r2.exUpper ELSE high.exUpper)

And(r1, r2) ==
  IF ~Overlaps(r1, r2) THEN <<>>
  ELSE LET lower == CompareKey(r1.from, r2.from, TRUE, FALSE, FALSE)
           upper == CompareKey(r1.to, r2.to, FALSE, FALSE, FALSE)
           left  == IF lower = "TIE" THEN IF r1.exLower THEN r1 ELSE r2
                    ELSE IF lower # "RHS" THEN r1 ELSE r2
           right == IF r1.to = Unbound \/ r2.to = Unbound
                    THEN IF r1.to = Unbound THEN r2 ELSE r1
                    ELSE IF upper = "TIE" THEN IF r1.exUpper THEN r1 ELSE r2
                    ELSE IF upper = "RHS" THEN r1 ELSE r2
       IN  << NewRange(left.from, right.to, left.exLower, right.exUpper) >>

\* complement() of one range: what lies below it and what lies above it.
Complement(r) ==
  IF IsAll(r) THEN <<>>
  ELSE (IF r.from = Unbound THEN <<>> ELSE << UpperBound(r.from, ~r.exLower) >>)
       \o (IF r.to = Unbound THEN <<>> ELSE << LowerBound(r.to, ~r.exUpper) >>)

\* Array#sort with one of the comparisons above, which is stable: the k-th
\* element is the one that k - 1 others go before.
Ahead(s, Before(_, _), i) ==
  {j \in 1..Len(s) : Before(s[j], s[i]) \/ (~Before(s[i], s[j]) /\ j < i)}
SortRanges(s, Before(_, _)) ==
  [k \in 1..Len(s) |->
     s[CHOOSE i \in 1..Len(s) : Cardinality(Ahead(s, Before, i)) = k - 1]]
InOrder(l, r) == Compare(l, r) = "RHS"

\* The static complement() of single-key ranges: the gaps between them.
ComplementOf(onlys) ==
  LET s == SortRanges(onlys, InOrder)
      n == Len(s)
  IN  IF n = 0 THEN <<>>
      ELSE << UpperBound(s[1].from, TRUE) >>
           \o [i \in 1..(n - 1) |-> NewRange(s[i].to, s[i + 1].from, TRUE, TRUE)]
           \o << LowerBound(s[n].to, TRUE) >>

-----------------------------------------------------------------------------
\* SingleKeyRangeSet (single_key_range_set.ts): a sequence of ranges, sorted and
\* with those that overlap merged.

Merged(done, range) ==
  LET last == done[Len(done)] IN
  IF Overlaps(last, range)
  THEN [done EXCEPT ![Len(done)] = BoundingRange(last, range)]
  ELSE Append(done, range)

\* add()
AddRanges(set, ranges) ==
  LET s == SortRanges(set \o ranges, InOrder)
      merged[i \in 1..Len(s)] ==
        IF i = 1 THEN << s[1] >> ELSE Merged(merged[i - 1], s[i])
  IN  IF ranges = <<>> THEN set ELSE merged[Len(s)]
RangeSet(ranges) == AddRanges(<<>>, ranges)

Intersect(s0, s1) ==
  RangeSet(FlattenSeq([i \in 1..Len(s0) |-> FlattenSeq([j \in 1..Len(s1) |-> And(s0[i], s1[j])])]))
=============================================================================
