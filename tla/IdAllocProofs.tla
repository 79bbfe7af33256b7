--------------------------- MODULE IdAllocProofs ---------------------------
(***************************************************************************)
(* Proofs that the free ranges of IdAlloc stay maximal and apart from the  *)
(* reserved blocks, and that IdAlloc implements IdSpace, for every range   *)
(* of numbers and every size of a block.                                   *)
(***************************************************************************)
EXTENDS IdAlloc, FiniteSetTheorems, TLAPS

\* The prover of the steps that name none.
USE ZenonT(30)

-----------------------------------------------------------------------------
(* Blocks *)

\* A number lies in one aligned block, the one that token_base names.
LEMMA OneBlock ==
  ASSUME NEW i \in Int, NEW c \in Int, c % Block = 0, c =< i, i < c + Block
  PROVE  token_base(i) = c
<1>1. Block \in Int /\ Block > 0
  BY BlockAssumption, SMT
<1> DEFINE k == c \div Block
           d == i - c
<1>2. k \in Int /\ c = k * Block
  BY <1>1, SMT
<1>3. d \in Int /\ 0 =< d /\ d < Block /\ i = k * Block + d
  BY <1>1, <1>2, SMT
<1> HIDE DEF k, d
<1>4. i % Block = d
  BY <1>1, <1>2, <1>3, SMT
<1> QED BY <1>2, <1>3, <1>4, SMT DEF token_base

\* token_base is at most a block below.
LEMMA TokenBase ==
  ASSUME NEW i \in Int
  PROVE  token_base(i) \in Int /\ token_base(i) =< i /\ i < token_base(i) + Block
<1>1. Block \in Int /\ Block > 0
  BY BlockAssumption, SMT
<1>2. i % Block \in Int /\ 0 =< i % Block /\ i % Block < Block
  BY <1>1, SMT
<1> QED BY <1>1, <1>2, SMT DEF token_base

\* find_aligned_block's candidate is aligned and not before the range.
LEMMA Aligned ==
  ASSUME NEW r \in Int \X Int
  PROVE  AlignedIn(r) \in Int /\ AlignedIn(r) % Block = 0 /\ r[1] =< AlignedIn(r)
<1>1. Block \in Int /\ Block > 0 /\ r[1] \in Int
  BY BlockAssumption, SMT
<1> DEFINE n == r[1] + Block - 1
           k == n \div Block
<1>2. n \in Int /\ k \in Int /\ n = Block * k + (n % Block) /\ n % Block \in 0 .. (Block - 1)
  BY <1>1, SMT
<1>3. AlignedIn(r) = k * Block
  BY DEF AlignedIn
<1>4. n < k * Block + Block
  BY <1>1, <1>2, SMT
<1>5. r[1] =< k * Block
  <2>1. n = r[1] + Block - 1
    OBVIOUS
  <2> HIDE DEF n, k
  <2> QED BY <1>1, <1>2, <1>4, <2>1, SMT
<1> HIDE DEF n, k
<1>6. (k * Block) % Block = 0
  BY <1>1, <1>2, SMT
<1> QED BY <1>1, <1>2, <1>3, <1>5, <1>6, SMT

-----------------------------------------------------------------------------
(* Sets of ranges *)

Ranges == SUBSET (Int \X Int)

\* Taking s .. e out of the range r that contains it leaves ranges that are
\* apart, and none of the numbers s .. e.
LEMMA CutKeeps ==
  ASSUME NEW lo \in Int, NEW hi \in Int, NEW s \in Int, NEW e \in Int,
         NEW R \in Ranges, Separate(R, lo, hi),
         NEW r \in R, r[1] =< s, s < e, e =< r[2]
  PROVE  /\ Cut(R, r, s, e) \in Ranges
         /\ Separate(Cut(R, r, s, e), lo, hi)
         /\ \A i \in Int : Covered(Cut(R, r, s, e), i) <=> Covered(R, i) /\ ~ (s =< i /\ i < e)
<1> DEFINE C == Cut(R, r, s, e)
<1>1. \A q \in R : q \in Int \X Int /\ q[1] \in Int /\ q[2] \in Int
  BY DEF Ranges
<1>2. \A q \in C : \/ q \in R /\ q # r
                   \/ q = <<r[1], s>> /\ r[1] < s
                   \/ q = <<e, r[2]>> /\ e < r[2]
  BY DEF Cut, NonEmpty
<1>3. \A q \in R : lo =< q[1] /\ q[1] < q[2] /\ q[2] =< hi
  BY DEF Separate
<1>4. \A p, q \in R : p = q \/ p[2] < q[1] \/ q[2] < p[1]
  BY DEF Separate
<1>5. C \in Ranges
  BY <1>1, <1>2, SMT DEF Ranges
<1> HIDE DEF C
<1>6. \A q \in C : lo =< q[1] /\ q[1] < q[2] /\ q[2] =< hi
  BY <1>1, <1>2, <1>3, SMT
<1>7. \A p, q \in C : p = q \/ p[2] < q[1] \/ q[2] < p[1]
  BY <1>1, <1>2, <1>3, <1>4, SMT
<1>8. ASSUME NEW i \in Int, Covered(C, i)
      PROVE  Covered(R, i) /\ ~ (s =< i /\ i < e)
  <2>1. PICK q \in C : q[1] =< i /\ i < q[2]
    BY <1>8 DEF Covered
  <2>2. CASE q \in R /\ q # r
    BY <2>1, <2>2, <1>1, <1>3, <1>4, SMT DEF Covered
  <2>3. CASE q = <<r[1], s>>
    BY <2>1, <2>3, <1>1, SMT DEF Covered
  <2>4. CASE q = <<e, r[2]>>
    BY <2>1, <2>4, <1>1, SMT DEF Covered
  <2> QED BY <1>2, <2>2, <2>3, <2>4
<1>9. ASSUME NEW i \in Int, Covered(R, i), ~ (s =< i /\ i < e)
      PROVE  Covered(C, i)
  <2>1. PICK q \in R : q[1] =< i /\ i < q[2]
    BY <1>9 DEF Covered
  <2>2. CASE q # r
    <3>1. q \in C
      BY <2>2 DEF C, Cut
    <3> QED BY <2>1, <3>1 DEF Covered
  <2>3. CASE q = r /\ i < s
    <3>1. <<r[1], s>> \in C
      BY <1>1, <2>1, <2>3, SMT DEF C, Cut, NonEmpty
    <3> QED BY <2>1, <2>3, <3>1 DEF Covered
  <2>4. CASE q = r /\ e =< i
    <3>1. <<e, r[2]>> \in C
      BY <1>1, <2>1, <2>4, SMT DEF C, Cut, NonEmpty
    <3> QED BY <2>1, <2>4, <3>1 DEF Covered
  <2> QED BY <1>9, <2>2, <2>3, <2>4, SMT
<1> QED BY <1>5, <1>6, <1>7, <1>8, <1>9 DEF C, Separate

\* Giving s .. e back, of which no number is free, leaves ranges that are
\* apart and do not touch: the one that ends at s and the one that begins at e
\* are joined with it.
LEMMA ReturnedKeeps ==
  ASSUME NEW lo \in Int, NEW hi \in Int, NEW s \in Int, NEW e \in Int,
         NEW R \in Ranges, Separate(R, lo, hi), lo =< s, s < e, e =< hi,
         \A i \in Int : s =< i /\ i < e => ~ Covered(R, i)
  PROVE  /\ Returned(R, s, e) \in Ranges
         /\ Separate(Returned(R, s, e), lo, hi)
         /\ \A i \in Int : Covered(Returned(R, s, e), i) <=> Covered(R, i) \/ (s =< i /\ i < e)
<1> DEFINE left == {r \in LastUpTo(R, s - 1) : r[2] = s}
           right == {r \in R : r[1] = e}
           a == IF left = {} THEN s ELSE (CHOOSE r \in left : TRUE)[1]
           b == IF right = {} THEN e ELSE (CHOOSE r \in right : TRUE)[2]
           N == Returned(R, s, e)
<1>1. \A q \in R : q \in Int \X Int /\ q[1] \in Int /\ q[2] \in Int
  BY DEF Ranges
<1>2. \A q \in R : lo =< q[1] /\ q[1] < q[2] /\ q[2] =< hi
  BY DEF Separate
<1>3. \A p, q \in R : p = q \/ p[2] < q[1] \/ q[2] < p[1]
  BY DEF Separate
<1>4. \A q \in R : q[2] =< s \/ e =< q[1]
  <2> SUFFICES ASSUME NEW q \in R, s < q[2], q[1] < e PROVE FALSE
    BY <1>1, SMT
  <2>1. CASE s =< q[1]
    <3>1. Covered(R, q[1])
      BY <1>1, <1>2, SMT DEF Covered
    <3> QED BY <1>1, <2>1, <3>1
  <2>2. CASE q[1] < s
    <3>1. Covered(R, s)
      BY <1>1, <2>2, SMT DEF Covered
    <3> QED BY <3>1, SMT
  <2> QED BY <1>1, <2>1, <2>2, SMT
<1>5. left = {r \in R : r[2] = s}
  <2>1. ASSUME NEW r \in R, r[2] = s PROVE r \in LastUpTo(R, s - 1)
    <3>1. r[1] =< s - 1
      BY <1>1, <1>2, <2>1, SMT
    <3>2. ASSUME NEW q \in R, q[1] =< s - 1 PROVE q[1] =< r[1]
      BY <1>1, <1>2, <1>3, <2>1, <3>2, SMT
    <3> QED BY <3>1, <3>2 DEF LastUpTo
  <2> QED BY <2>1 DEF LastUpTo
<1>6. N = (R \ (left \cup right)) \cup {<<a, b>>}
  BY DEF Returned
<1>7. a \in Int /\ b \in Int /\ (a = s \/ <<a, s>> \in R) /\ (b = e \/ <<e, b>> \in R)
  <2>1. a \in Int /\ (a = s \/ <<a, s>> \in R)
    <3>1. CASE left = {}
      BY <3>1
    <3>2. CASE left # {}
      <4>1. PICK r \in left : r = CHOOSE x \in left : TRUE
        BY <3>2
      <4>2. r \in R /\ r[2] = s /\ a = r[1]
        BY <1>5, <3>2, <4>1
      <4>3. r = <<a, s>> /\ a \in Int
        BY <1>1, <4>2, SMT
      <4> QED BY <4>2, <4>3
    <3> QED BY <3>1, <3>2
  <2>2. b \in Int /\ (b = e \/ <<e, b>> \in R)
    <3>1. CASE right = {}
      BY <3>1
    <3>2. CASE right # {}
      <4>1. PICK r \in right : r = CHOOSE x \in right : TRUE
        BY <3>2
      <4>2. r \in R /\ r[1] = e /\ b = r[2]
        BY <3>2, <4>1
      <4>3. r = <<e, b>> /\ b \in Int
        BY <1>1, <4>2, SMT
      <4> QED BY <4>2, <4>3
    <3> QED BY <3>1, <3>2
  <2> QED BY <2>1, <2>2
<1>8. \A q \in N : \/ q \in R /\ q[2] # s /\ q[1] # e
                   \/ q = <<a, b>>
  BY <1>5, <1>6
<1>15. /\ <<a, b>> \in N
       /\ \A q \in R : q \in N \/ q[2] = s \/ q[1] = e
       /\ \A q \in R : (q[2] = s => a = q[1]) /\ (q[1] = e => b = q[2])
  <2>1. <<a, b>> \in N /\ \A q \in R : q \in N \/ q[2] = s \/ q[1] = e
    BY <1>5, <1>6
  <2>2. ASSUME NEW q \in R, q[2] = s PROVE a = q[1]
    <3>1. q \in left
      BY <1>5, <2>2
    <3>2. \A r \in left : r = q
      BY <1>1, <1>2, <1>3, <1>5, <2>2, SMT
    <3>3. (CHOOSE r \in left : TRUE) \in left
      BY <3>1
    <3> QED BY <3>1, <3>2, <3>3
  <2>3. ASSUME NEW q \in R, q[1] = e PROVE b = q[2]
    <3>1. q \in right
      BY <2>3
    <3>2. \A r \in right : r = q
      BY <1>1, <1>2, <1>3, <2>3, SMT
    <3>3. (CHOOSE r \in right : TRUE) \in right
      BY <3>1
    <3> QED BY <3>1, <3>2, <3>3
  <2> QED BY <2>1, <2>2, <2>3
<1> HIDE DEF left, right, a, b, N
<1>9. a =< s /\ e =< b /\ lo =< a /\ b =< hi
  <2>1. a = s \/ (lo =< a /\ a < s)
    BY <1>2, <1>7
  <2>2. b = e \/ (e < b /\ b =< hi)
    BY <1>2, <1>7
  <2> QED BY <1>7, <2>1, <2>2, SMT
<1>10. \A q \in R : q[2] # s /\ q[1] # e => q[2] < a \/ b < q[1]
  <2> SUFFICES ASSUME NEW q \in R, q[2] # s, q[1] # e PROVE q[2] < a \/ b < q[1]
    OBVIOUS
  <2>1. q[1] \in Int /\ q[2] \in Int /\ q[1] < q[2]
    BY <1>1, <1>2
  <2>2. CASE q[2] < s
    <3>1. CASE a = s
      BY <2>2, <3>1
    <3>2. CASE <<a, s>> \in R
      <4>1. q = <<a, s>> \/ q[2] < a \/ s < q[1]
        BY <1>3, <3>2
      <4> QED BY <1>7, <2>1, <2>2, <4>1, SMT
    <3> QED BY <1>7, <3>1, <3>2
  <2>3. CASE e < q[1]
    <3>1. CASE b = e
      BY <2>3, <3>1
    <3>2. CASE <<e, b>> \in R
      <4>1. q = <<e, b>> \/ q[2] < e \/ b < q[1]
        BY <1>3, <3>2
      <4> QED BY <1>7, <2>1, <2>3, <4>1, SMT
    <3> QED BY <1>7, <3>1, <3>2
  <2> QED BY <1>4, <2>1, <2>2, <2>3, SMT
<1>11. N \in Ranges
  BY <1>1, <1>7, <1>8, SMT DEF Ranges
<1>12. \A q \in N : lo =< q[1] /\ q[1] < q[2] /\ q[2] =< hi
  BY <1>2, <1>7, <1>8, <1>9, SMT
<1>13. \A p, q \in N : p = q \/ p[2] < q[1] \/ q[2] < p[1]
  BY <1>3, <1>7, <1>8, <1>10, SMT
<1>14. ASSUME NEW i \in Int, Covered(N, i)
       PROVE  Covered(R, i) \/ (s =< i /\ i < e)
  <2>1. PICK q \in N : q[1] =< i /\ i < q[2]
    BY <1>14 DEF Covered
  <2>2. CASE q \in R
    BY <2>1, <2>2 DEF Covered
  <2>3. CASE q = <<a, b>>
    <3>1. a =< i /\ i < b
      BY <2>1, <2>3
    <3>2. CASE i < s
      <4>1. <<a, s>> \in R
        BY <1>7, <3>1, <3>2, SMT
      <4> QED BY <3>1, <3>2, <4>1 DEF Covered
    <3>3. CASE e =< i
      <4>1. <<e, b>> \in R
        BY <1>7, <3>1, <3>3, SMT
      <4> QED BY <3>1, <3>3, <4>1 DEF Covered
    <3> QED BY <3>2, <3>3, SMT
  <2> QED BY <1>8, <2>2, <2>3
<1>16. ASSUME NEW i \in Int, Covered(R, i) \/ (s =< i /\ i < e)
       PROVE  Covered(N, i)
  <2>1. CASE s =< i /\ i < e
    BY <1>7, <1>9, <1>15, <2>1, SMT DEF Covered
  <2>2. ASSUME NEW q \in R, q[1] =< i, i < q[2] PROVE Covered(N, i)
    <3>1. CASE q \in N
      BY <2>2, <3>1 DEF Covered
    <3>2. CASE q[2] = s
      BY <1>1, <1>7, <1>9, <1>15, <2>2, <3>2, SMT DEF Covered
    <3>3. CASE q[1] = e
      BY <1>1, <1>7, <1>9, <1>15, <2>2, <3>3, SMT DEF Covered
    <3> QED BY <1>15, <3>1, <3>2, <3>3
  <2> QED BY <1>16, <2>1, <2>2 DEF Covered
<1> QED BY <1>11, <1>12, <1>13, <1>14, <1>16 DEF N, Separate

-----------------------------------------------------------------------------
(* FlatAlloc *)

Flats(lo, hi) == [start : {lo}, end : {hi}, inuse : Int, ranges : Ranges]
Good(a, lo, hi) == a \in Flats(lo, hi) /\ Separate(a.ranges, lo, hi)

\* An allocator stays good when it hands out a number of a free range.
LEMMA TakesGood ==
  ASSUME NEW lo \in Int, NEW hi \in Int, NEW a, Good(a, lo, hi),
         NEW r \in a.ranges, NEW i \in Int, r[1] =< i, i < r[2]
  PROVE  /\ Good(FlatTakes(a, r, i), lo, hi)
         /\ FlatTakes(a, r, i).inuse = a.inuse + 1
         /\ \A j \in Int : Covered(FlatTakes(a, r, i).ranges, j) <=> Covered(a.ranges, j) /\ j # i
<1>1. a.ranges \in Ranges /\ a.inuse \in Int /\ Separate(a.ranges, lo, hi)
  BY DEF Good, Flats
<1>2. r[2] \in Int /\ i + 1 \in Int /\ i < i + 1 /\ i + 1 =< r[2]
  BY <1>1, SMT DEF Ranges
<1>3. /\ Cut(a.ranges, r, i, i + 1) \in Ranges
      /\ Separate(Cut(a.ranges, r, i, i + 1), lo, hi)
      /\ \A j \in Int : Covered(Cut(a.ranges, r, i, i + 1), j) <=> Covered(a.ranges, j) /\ j # i
  <2> DEFINE e == i + 1
             C == Cut(a.ranges, r, i, e)
  <2>1. e \in Int /\ i < e /\ e =< r[2] /\ \A j \in Int : i =< j /\ j < e <=> j = i
    BY <1>2, SMT
  <2> HIDE DEF e
  <2>2. /\ C \in Ranges /\ Separate(C, lo, hi)
        /\ \A j \in Int : Covered(C, j) <=> Covered(a.ranges, j) /\ ~ (i =< j /\ j < e)
    BY <1>1, <2>1, CutKeeps, SMT
  <2> HIDE DEF C
  <2>3. \A j \in Int : Covered(C, j) <=> Covered(a.ranges, j) /\ j # i
    BY <2>1, <2>2
  <2> QED BY <2>2, <2>3 DEF C, e
<1>4. /\ FlatTakes(a, r, i) \in Flats(lo, hi)
      /\ FlatTakes(a, r, i).ranges = Cut(a.ranges, r, i, i + 1)
      /\ FlatTakes(a, r, i).inuse = a.inuse + 1
  <2> DEFINE Q == Cut(a.ranges, r, i, i + 1)
             n == a.inuse + 1
  <2>1. a \in Flats(lo, hi) /\ n \in Int /\ Q \in Ranges
    BY <1>1, <1>3, SMT DEF Good
  <2>2. FlatTakes(a, r, i) = [a EXCEPT !.ranges = Q, !.inuse = n]
    BY DEF FlatTakes
  <2> HIDE DEF Q, n
  <2>3. /\ FlatTakes(a, r, i) \in Flats(lo, hi)
        /\ FlatTakes(a, r, i).ranges = Q /\ FlatTakes(a, r, i).inuse = n
    BY <2>1, <2>2 DEF Flats
  <2> QED BY <2>3 DEF Q, n
<1> QED BY <1>3, <1>4 DEF Good

\* An allocator stays good when it takes back a number that is not free.
LEMMA GivesGood ==
  ASSUME NEW lo \in Int, NEW hi \in Int, NEW a, Good(a, lo, hi),
         NEW i \in Int, lo =< i, i < hi, ~ Covered(a.ranges, i)
  PROVE  /\ Good(FlatGives(a, i), lo, hi)
         /\ FlatGives(a, i).inuse = a.inuse - 1
         /\ \A j \in Int : Covered(FlatGives(a, i).ranges, j) <=> Covered(a.ranges, j) \/ j = i
<1>1. a.ranges \in Ranges /\ a.inuse \in Int /\ Separate(a.ranges, lo, hi)
  BY DEF Good, Flats
<1>2. i + 1 \in Int /\ i < i + 1 /\ i + 1 =< hi /\ \A j \in Int : i =< j /\ j < i + 1 => j = i
  BY SMT
<1>3. /\ Returned(a.ranges, i, i + 1) \in Ranges
      /\ Separate(Returned(a.ranges, i, i + 1), lo, hi)
      /\ \A j \in Int : Covered(Returned(a.ranges, i, i + 1), j) <=> Covered(a.ranges, j) \/ j = i
  <2>1. \A j \in Int : i =< j /\ j < i + 1 => ~ Covered(a.ranges, j)
    BY <1>2
  <2> QED BY <1>1, <1>2, <2>1, ReturnedKeeps, SMT
<1>4. /\ FlatGives(a, i) \in Flats(lo, hi)
      /\ FlatGives(a, i).ranges = Returned(a.ranges, i, i + 1)
      /\ FlatGives(a, i).inuse = a.inuse - 1
  <2> DEFINE Q == Returned(a.ranges, i, i + 1)
             n == a.inuse - 1
  <2>1. a \in Flats(lo, hi) /\ n \in Int /\ Q \in Ranges
    BY <1>1, <1>3, SMT DEF Good
  <2>2. FlatGives(a, i) = [a EXCEPT !.ranges = Q, !.inuse = n]
    BY DEF FlatGives
  <2> HIDE DEF Q, n
  <2>3. /\ FlatGives(a, i) \in Flats(lo, hi)
        /\ FlatGives(a, i).ranges = Q /\ FlatGives(a, i).inuse = n
    BY <2>1, <2>2 DEF Flats
  <2> QED BY <2>3 DEF Q, n
<1> QED BY <1>3, <1>4 DEF Good

\* The range that alloc_at looks up for a number that is free contains it.
LEMMA LastCovers ==
  ASSUME NEW lo \in Int, NEW hi \in Int, NEW R \in Ranges, Separate(R, lo, hi),
         NEW i \in Int, Covered(R, i), NEW r \in LastUpTo(R, i)
  PROVE  r \in R /\ r[1] =< i /\ i < r[2]
<1>1. PICK q \in R : q[1] =< i /\ i < q[2]
  BY DEF Covered
<1>2. r \in R /\ r[1] =< i /\ q[1] =< r[1]
  BY <1>1 DEF LastUpTo
<1>3. r[1] \in Int /\ r[2] \in Int /\ q[1] \in Int /\ q[2] \in Int /\ r[1] < r[2]
  BY <1>1, <1>2 DEF Ranges, Separate
<1>4. r = q \/ r[2] < q[1] \/ q[2] < r[1]
  BY <1>1, <1>2 DEF Separate
<1> QED BY <1>1, <1>2, <1>3, <1>4, SMT

-----------------------------------------------------------------------------
(* The invariant: every allocator is good, and the flat one has no number of *)
(* a block.                                                                 *)

InBlock(b, i) == b =< i /\ i < b + Block

IInv ==
  /\ Good(flat, IdStart, IdEnd)
  /\ majors = [b \in Majors |-> majors[b]]
  /\ \A b \in Majors :
       /\ b \in Int /\ b % Block = 0 /\ IdStart =< b /\ b + Block =< IdEnd
       /\ Good(majors[b], b, b + Block)
       /\ \A i \in Int : InBlock(b, i) => ~ Covered(flat.ranges, i)

\* The constants are integers.
LEMMA Constants == IdStart \in Int /\ IdEnd \in Int /\ Block \in Int /\ Block > 0
BY RangeAssumption, BlockAssumption, SMT

\* It says more than the property.
LEMMA IInvIsEnough == IInv => RangesMaximal
<1> SUFFICES ASSUME IInv PROVE RangesMaximal
  OBVIOUS
<1>1. Separate(flat.ranges, IdStart, IdEnd)
  BY DEF IInv, Good
<1>2. ASSUME NEW b \in Majors
      PROVE  /\ b % Block = 0 /\ IdStart =< b /\ b + Block =< IdEnd
             /\ Separate(majors[b].ranges, b, b + Block)
             /\ \A i \in b .. (b + Block - 1) : ~ Covered(flat.ranges, i)
  <2>1. b \in Int /\ \A i \in b .. (b + Block - 1) : i \in Int /\ InBlock(b, i)
    BY Constants, SMT DEF IInv, InBlock
  <2> QED BY <2>1 DEF IInv, Good
<1> QED BY <1>1, <1>2 DEF RangesMaximal

\* A step that changes the flat allocator: what becomes free is in no block.
LEMMA FlatChanges ==
  ASSUME IInv, majors' = majors, Good(flat', IdStart, IdEnd),
         \A i \in Int : Covered(flat'.ranges, i) =>
            Covered(flat.ranges, i) \/ \A b \in Majors : ~ InBlock(b, i)
  PROVE  IInv'
<1>1. Majors' = Majors
  BY DEF Majors
<1>2. \A b \in Majors : \A i \in Int : InBlock(b, i) => ~ Covered(flat'.ranges, i)
  BY DEF IInv
<1> QED BY <1>1, <1>2 DEF IInv, InBlock

\* A step that changes the allocator of one block.
LEMMA BlockChanges ==
  ASSUME IInv, flat' = flat, NEW b \in Majors, NEW g, Good(g, b, b + Block),
         majors' = [majors EXCEPT ![b] = g]
  PROVE  IInv'
<1>1. Majors' = Majors
  BY DEF Majors
<1>2. majors'[b] = g /\ \A c \in Majors \ {b} : majors'[c] = majors[c]
  BY DEF IInv, Majors
<1>3. majors' = [c \in Majors' |-> majors'[c]]
  BY DEF Majors
<1>4. \A c \in Majors : Good(majors'[c], c, c + Block)
  BY <1>2 DEF IInv
<1> QED BY <1>1, <1>3, <1>4 DEF IInv, InBlock

\* A new allocator is good.
LEMMA NewGood ==
  ASSUME NEW lo \in Int, NEW hi \in Int
  PROVE  Good(FlatNew(lo, hi), lo, hi)
<1> DEFINE R == NonEmpty(lo, hi)
<1>1. R \in Ranges /\ Separate(R, lo, hi)
  BY SMT DEF NonEmpty, Ranges, Separate
<1>2. FlatNew(lo, hi) = [start |-> lo, end |-> hi, inuse |-> 0, ranges |-> R]
  BY DEF FlatNew
<1> HIDE DEF R
<1> QED BY <1>1, <1>2, SMT DEF Good, Flats

\* carve: the block leaves the flat allocator and gets one of its own.
LEMMA CarveKeeps ==
  ASSUME IInv, NEW r \in flat.ranges, NEW b \in Int, b % Block = 0,
         r[1] =< b, b + Block =< r[2], Carve(r, b)
  PROVE  IInv'
<1> DEFINE Q == Cut(flat.ranges, r, b, b + Block)
<1>1. flat \in Flats(IdStart, IdEnd) /\ flat.ranges \in Ranges /\ Separate(flat.ranges, IdStart, IdEnd)
  BY DEF IInv, Good, Flats
<1>2. b + Block \in Int /\ b < b + Block
  BY Constants, SMT
<1>3. /\ Q \in Ranges /\ Separate(Q, IdStart, IdEnd)
      /\ \A i \in Int : Covered(Q, i) => Covered(flat.ranges, i) /\ ~ InBlock(b, i)
  BY <1>1, <1>2, Constants, CutKeeps DEF InBlock
<1>4. flat' = [flat EXCEPT !.ranges = Q]
  BY DEF Carve
<1>5. IdStart =< b /\ b + Block =< IdEnd
  <2>1. r[1] \in Int /\ r[2] \in Int /\ IdStart =< r[1] /\ r[2] =< IdEnd
    BY <1>1 DEF Ranges, Separate
  <2> QED BY <1>2, <2>1, Constants, SMT
<1> HIDE DEF Q
<1>6. Good(flat', IdStart, IdEnd) /\ flat'.ranges = Q
  BY <1>1, <1>3, <1>4 DEF Good, Flats
<1>7. majors' = [c \in Majors \cup {b} |-> IF c = b THEN FlatNew(b, b + Block) ELSE majors[c]]
  BY DEF Carve
<1>8. Majors' = Majors \cup {b} /\ majors' = [c \in Majors' |-> majors'[c]]
  BY <1>7 DEF Majors
<1>9. \A c \in Majors' : majors'[c] = IF c = b THEN FlatNew(b, b + Block) ELSE majors[c]
  BY <1>7, <1>8
<1>10. ASSUME NEW c \in Majors'
       PROVE  /\ c \in Int /\ c % Block = 0 /\ IdStart =< c /\ c + Block =< IdEnd
              /\ Good(majors'[c], c, c + Block)
              /\ \A i \in Int : InBlock(c, i) => ~ Covered(flat'.ranges, i)
  <2>1. CASE c = b
    <3>1. Good(majors'[c], c, c + Block)
      BY <1>2, <1>9, <2>1, NewGood
    <3> QED BY <1>3, <1>5, <1>6, <2>1, <3>1
  <2>2. CASE c # b
    <3>1. c \in Majors /\ majors'[c] = majors[c]
      BY <1>8, <1>9, <2>2
    <3> QED BY <1>3, <1>6, <3>1 DEF IInv
  <2> QED BY <2>1, <2>2
<1> QED BY <1>6, <1>8, <1>10 DEF IInv, InBlock

\* dealloc_major: the whole block goes back, and it is in no other block.
LEMMA DeallocMajorKeeps ==
  ASSUME IInv, NEW b \in Majors,
         majors' = [c \in Majors \ {b} |-> majors[c]],
         flat' = [flat EXCEPT !.ranges = Returned(flat.ranges, b, b + Block)]
  PROVE  IInv'
<1> DEFINE Q == Returned(flat.ranges, b, b + Block)
<1>1. flat \in Flats(IdStart, IdEnd) /\ flat.ranges \in Ranges /\ Separate(flat.ranges, IdStart, IdEnd)
  BY DEF IInv, Good, Flats
<1>2. /\ b \in Int /\ b % Block = 0 /\ b + Block \in Int /\ b < b + Block
      /\ IdStart =< b /\ b + Block =< IdEnd
      /\ \A i \in Int : b =< i /\ i < b + Block => ~ Covered(flat.ranges, i)
  BY Constants, SMT DEF IInv, InBlock
<1>3. /\ Q \in Ranges /\ Separate(Q, IdStart, IdEnd)
      /\ \A i \in Int : Covered(Q, i) => Covered(flat.ranges, i) \/ InBlock(b, i)
  BY <1>1, <1>2, Constants, ReturnedKeeps, SMT DEF InBlock
<1>4. flat' = [flat EXCEPT !.ranges = Q]
  OBVIOUS
<1> HIDE DEF Q
<1>5. Good(flat', IdStart, IdEnd) /\ flat'.ranges = Q
  BY <1>1, <1>3, <1>4 DEF Good, Flats
<1>6. Majors' = Majors \ {b} /\ majors' = [c \in Majors' |-> majors'[c]]
  BY DEF Majors
<1>7. ASSUME NEW c \in Majors'
      PROVE  /\ c \in Int /\ c % Block = 0 /\ IdStart =< c /\ c + Block =< IdEnd
             /\ Good(majors'[c], c, c + Block)
             /\ \A i \in Int : InBlock(c, i) => ~ Covered(flat'.ranges, i)
  <2>1. c \in Majors /\ c # b /\ majors'[c] = majors[c]
    BY <1>6
  <2>2. c \in Int /\ c % Block = 0
    BY <2>1 DEF IInv
  <2>3. ASSUME NEW i \in Int, InBlock(c, i), InBlock(b, i) PROVE FALSE
    <3>1. token_base(i) = c
      BY <2>2, <2>3, OneBlock DEF InBlock
    <3>2. token_base(i) = b
      BY <1>2, <2>3, OneBlock DEF InBlock
    <3> QED BY <2>1, <3>1, <3>2
  <2> QED BY <1>3, <1>5, <2>1, <2>3 DEF IInv
<1> QED BY <1>5, <1>6, <1>7 DEF IInv, InBlock

\* Number i leaves the ranges of the allocator that has it, but for free,
\* which is {i} if it joins them and else empty; the allocator counts it.
Does(i, free) ==
  LET b == token_base(i)
      Now(new, old) == \A j \in Int : Covered(new, j) <=> (Covered(old, j) /\ j # i) \/ j \in free
      Counted(new, old) == new.inuse = IF free = {} THEN old.inuse + 1 ELSE old.inuse - 1
  IN
  /\ free = {} <=> ~ IsAllocated(i)
  /\ \/ /\ b \in Majors /\ flat' = flat
        /\ \E g : /\ majors' = [majors EXCEPT ![b] = g]
                  /\ Good(g, b, b + Block)
                  /\ Now(g.ranges, majors[b].ranges) /\ Counted(g, majors[b])
     \/ /\ b \notin Majors /\ majors' = majors
        /\ Good(flat', IdStart, IdEnd)
        /\ Now(flat'.ranges, flat.ranges) /\ Counted(flat', flat)

\* Such a step keeps the invariant.
LEMMA DoesKeeps ==
  ASSUME IInv, NEW i \in Int, NEW free \in SUBSET {i}, Does(i, free)
  PROVE  IInv'
<1> DEFINE b == token_base(i)
<1>1. CASE b \in Majors
  <2>1. PICK g : flat' = flat /\ majors' = [majors EXCEPT ![b] = g] /\ Good(g, b, b + Block)
    BY <1>1 DEF Does
  <2> QED BY <1>1, <2>1, BlockChanges
<1>2. CASE b \notin Majors
  <2>1. /\ majors' = majors /\ Good(flat', IdStart, IdEnd)
        /\ \A j \in Int : Covered(flat'.ranges, j) => Covered(flat.ranges, j) \/ j = i
    BY <1>2 DEF Does
  <2>2. \A c \in Majors : ~ InBlock(c, i)
    BY <1>2, OneBlock DEF IInv, InBlock
  <2> QED BY <2>1, <2>2, FlatChanges
<1> QED BY <1>1, <1>2

\* The allocator of a block, where there is one.
LEMMA BlockGood ==
  ASSUME IInv, NEW i \in Int, token_base(i) \in Majors
  PROVE  /\ Good(majors[token_base(i)], token_base(i), token_base(i) + Block)
         /\ contains(majors[token_base(i)], i)
<1> DEFINE b == token_base(i)
<1>1. Good(majors[b], b, b + Block)
  BY DEF IInv
<1>2. majors[b].start = b /\ majors[b].end = b + Block
  BY <1>1 DEF Good, Flats
<1>3. b =< i /\ i < b + Block
  BY TokenBase
<1> QED BY <1>1, <1>2, <1>3 DEF contains

\* alloc_at takes a number that is free.
LEMMA AllocAtDoes ==
  ASSUME IInv, NEW i \in Int, alloc_at(i), contains(flat, i), ~ IsAllocated(i)
  PROVE  Does(i, {})
<1> DEFINE b == token_base(i)
<1>1. Good(flat, IdStart, IdEnd)
  BY DEF IInv
<1>2. b \in Int /\ b + Block \in Int
  BY TokenBase, Constants, SMT
<1>3. CASE b \in Majors
  <2>1. PICK r \in LastUpTo(majors[b].ranges, i) :
          majors' = [majors EXCEPT ![b] = FlatTakes(majors[b], r, i)] /\ flat' = flat
    BY <1>3 DEF alloc_at
  <2>2. Good(majors[b], b, b + Block) /\ Covered(majors[b].ranges, i)
    BY <1>3, BlockGood DEF IsAllocated, FlatIsAllocated
  <2> HIDE DEF b
  <2>3. r \in majors[b].ranges /\ r[1] =< i /\ i < r[2]
    BY <1>2, <2>1, <2>2, LastCovers DEF Good, Flats
  <2>4. /\ Good(FlatTakes(majors[b], r, i), b, b + Block)
        /\ FlatTakes(majors[b], r, i).inuse = majors[b].inuse + 1
        /\ \A j \in Int : Covered(FlatTakes(majors[b], r, i).ranges, j)
                            <=> Covered(majors[b].ranges, j) /\ j # i
    BY <1>2, <2>2, <2>3, TakesGood
  <2> QED BY <1>3, <2>1, <2>4 DEF Does, b
<1>4. CASE b \notin Majors
  <2>1. PICK r \in LastUpTo(flat.ranges, i) : flat' = FlatTakes(flat, r, i) /\ majors' = majors
    BY <1>4 DEF alloc_at
  <2>2. Covered(flat.ranges, i)
    BY <1>4 DEF IsAllocated, FlatIsAllocated
  <2>3. r \in flat.ranges /\ r[1] =< i /\ i < r[2]
    BY <1>1, <2>1, <2>2, LastCovers, Constants DEF Good, Flats
  <2>4. /\ Good(flat', IdStart, IdEnd) /\ flat'.inuse = flat.inuse + 1
        /\ \A j \in Int : Covered(flat'.ranges, j) <=> Covered(flat.ranges, j) /\ j # i
    BY <1>1, <2>1, <2>3, TakesGood, Constants, SMT
  <2> QED BY <1>4, <2>1, <2>4 DEF Does
<1> QED BY <1>3, <1>4

\* dealloc gives a number back that is in use.
LEMMA DeallocDoes ==
  ASSUME IInv, NEW i \in Int, dealloc(i), contains(flat, i), IsAllocated(i)
  PROVE  Does(i, {i})
<1> DEFINE b == token_base(i)
<1>1. Good(flat, IdStart, IdEnd) /\ IdStart =< i /\ i < IdEnd
  BY DEF IInv, Good, Flats, contains
<1>2. b \in Int /\ b =< i /\ i < b + Block /\ b + Block \in Int
  BY TokenBase, Constants, SMT
<1>3. CASE b \in Majors
  <2>1. majors' = [majors EXCEPT ![b] = FlatGives(majors[b], i)] /\ flat' = flat
    BY <1>3 DEF dealloc
  <2>2. Good(majors[b], b, b + Block) /\ ~ Covered(majors[b].ranges, i)
    BY <1>3, BlockGood DEF IsAllocated, FlatIsAllocated
  <2> HIDE DEF b
  <2>3. /\ Good(FlatGives(majors[b], i), b, b + Block)
        /\ FlatGives(majors[b], i).inuse = majors[b].inuse - 1
        /\ \A j \in Int : Covered(FlatGives(majors[b], i).ranges, j)
                            <=> Covered(majors[b].ranges, j) \/ j = i
    BY <1>2, <2>2, GivesGood
  <2> QED BY <1>3, <2>1, <2>3 DEF Does, b
<1>4. CASE b \notin Majors
  <2>1. flat' = FlatGives(flat, i) /\ majors' = majors
    BY <1>4 DEF dealloc
  <2>2. ~ Covered(flat.ranges, i)
    BY <1>4 DEF IsAllocated, FlatIsAllocated
  <2>3. /\ Good(flat', IdStart, IdEnd) /\ flat'.inuse = flat.inuse - 1
        /\ \A j \in Int : Covered(flat'.ranges, j) <=> Covered(flat.ranges, j) \/ j = i
    BY <1>1, <2>1, <2>2, GivesGood, Constants
  <2> QED BY <1>4, <2>1, <2>3 DEF Does
<1> QED BY <1>3, <1>4

\* The first number of the first range leaves a good allocator.
LEMMA FirstTaken ==
  ASSUME NEW lo \in Int, NEW hi \in Int, NEW a, Good(a, lo, hi), NEW r \in First(a.ranges)
  PROVE  /\ r[1] \in Int /\ lo =< r[1] /\ r[1] < hi /\ Covered(a.ranges, r[1])
         /\ \A j \in Int : Covered(a.ranges, j) => r[1] =< j
         /\ Good(FlatTakes(a, r, r[1]), lo, hi)
         /\ FlatTakes(a, r, r[1]).inuse = a.inuse + 1
         /\ \A j \in Int : Covered(FlatTakes(a, r, r[1]).ranges, j) <=> Covered(a.ranges, j) /\ j # r[1]
<1>1. r \in a.ranges /\ \A q \in a.ranges : r[1] =< q[1] /\ q[1] \in Int /\ q[2] \in Int
  BY DEF First, Good, Flats, Ranges
<1>2. r[1] \in Int /\ r[2] \in Int /\ lo =< r[1] /\ r[1] < r[2] /\ r[2] =< hi
  BY <1>1 DEF Good, Separate
<1>3. Covered(a.ranges, r[1])
  BY <1>1, <1>2 DEF Covered
<1>4. \A j \in Int : Covered(a.ranges, j) => r[1] =< j
  BY <1>1, <1>2, SMT DEF Covered
<1>5. /\ Good(FlatTakes(a, r, r[1]), lo, hi)
      /\ FlatTakes(a, r, r[1]).inuse = a.inuse + 1
      /\ \A j \in Int : Covered(FlatTakes(a, r, r[1]).ranges, j) <=> Covered(a.ranges, j) /\ j # r[1]
  BY <1>1, <1>2, TakesGood, SMT
<1> QED BY <1>2, <1>3, <1>4, <1>5, SMT

\* alloc takes the first number of the flat allocator.
LEMMA AllocDoes ==
  ASSUME IInv, NEW r \in First(flat.ranges), flat' = FlatTakes(flat, r, r[1]), majors' = majors
  PROVE  r[1] \in Int /\ Does(r[1], {})
<1>1. Good(flat, IdStart, IdEnd)
  BY DEF IInv
<1>2. /\ r[1] \in Int /\ Covered(flat.ranges, r[1]) /\ Good(flat', IdStart, IdEnd)
      /\ flat'.inuse = flat.inuse + 1
      /\ \A j \in Int : Covered(flat'.ranges, j) <=> Covered(flat.ranges, j) /\ j # r[1]
  BY <1>1, FirstTaken, Constants
<1>3. token_base(r[1]) \notin Majors
  BY <1>2, TokenBase DEF IInv, InBlock
<1>4. ~ IsAllocated(r[1])
  BY <1>2, <1>3 DEF IsAllocated, FlatIsAllocated
<1> QED BY <1>2, <1>3, <1>4 DEF Does

\* alloc_minor takes the first number of a block.
LEMMA MinorDoes ==
  ASSUME IInv, NEW b \in Majors, NEW r \in First(majors[b].ranges), flat' = flat,
         majors' = [majors EXCEPT ![b] = FlatTakes(majors[b], r, r[1])]
  PROVE  r[1] \in Int /\ token_base(r[1]) = b /\ Does(r[1], {})
<1>1. b \in Int /\ b % Block = 0 /\ b + Block \in Int /\ Good(majors[b], b, b + Block)
  BY Constants, SMT DEF IInv
<1>2. /\ r[1] \in Int /\ b =< r[1] /\ r[1] < b + Block /\ Covered(majors[b].ranges, r[1])
      /\ Good(FlatTakes(majors[b], r, r[1]), b, b + Block)
      /\ FlatTakes(majors[b], r, r[1]).inuse = majors[b].inuse + 1
      /\ \A j \in Int : Covered(FlatTakes(majors[b], r, r[1]).ranges, j)
                          <=> Covered(majors[b].ranges, j) /\ j # r[1]
  <2> DEFINE a == majors[b]
             hi == b + Block
  <2>1. Good(a, b, hi) /\ r \in First(a.ranges) /\ hi \in Int /\ b \in Int
    BY <1>1
  <2> HIDE DEF a, hi
  <2>2. /\ r[1] \in Int /\ b =< r[1] /\ r[1] < hi /\ Covered(a.ranges, r[1])
        /\ Good(FlatTakes(a, r, r[1]), b, hi)
        /\ FlatTakes(a, r, r[1]).inuse = a.inuse + 1
        /\ \A j \in Int : Covered(FlatTakes(a, r, r[1]).ranges, j)
                            <=> Covered(a.ranges, j) /\ j # r[1]
    BY <2>1, FirstTaken
  <2> QED BY <2>2 DEF a, hi
<1>3. token_base(r[1]) = b
  BY <1>1, <1>2, OneBlock
<1>4. ~ IsAllocated(r[1])
  BY <1>2, <1>3 DEF IsAllocated, FlatIsAllocated
<1> QED BY <1>2, <1>3, <1>4 DEF Does

\* A call that is refused changes nothing.
LEMMA RefuseKeeps ==
  ASSUME IInv, UNCHANGED <<flat, majors>>
  PROVE  IInv'
BY DEF IInv, Majors, InBlock

\* alloc_at and dealloc keep the invariant.
LEMMA NumberKeeps ==
  ASSUME IInv, NEW i \in Int, alloc_at(i) \/ dealloc(i)
  PROVE  IInv'
<1>1. CASE alloc_at(i) /\ contains(flat, i) /\ ~ IsAllocated(i)
  BY <1>1, AllocAtDoes, DoesKeeps
<1>2. CASE dealloc(i) /\ contains(flat, i) /\ IsAllocated(i)
  BY <1>2, DeallocDoes, DoesKeeps
<1>3. CASE UNCHANGED <<flat, majors>>
  BY <1>3, RefuseKeeps
<1> QED BY <1>1, <1>2, <1>3 DEF alloc_at, dealloc, Refuse

\* alloc and alloc_minor keep it.
LEMMA FirstKeeps ==
  ASSUME IInv, alloc \/ \E b \in Int : alloc_minor(b)
  PROVE  IInv'
<1>1. CASE UNCHANGED <<flat, majors>>
  BY <1>1, RefuseKeeps
<1>2. CASE alloc /\ ~ UNCHANGED <<flat, majors>>
  <2>1. PICK r \in First(flat.ranges) : flat' = FlatTakes(flat, r, r[1]) /\ majors' = majors
    BY <1>2 DEF alloc, Refuse
  <2> QED BY <2>1, AllocDoes, DoesKeeps
<1>3. ASSUME NEW b \in Int, alloc_minor(b), ~ UNCHANGED <<flat, majors>>
      PROVE  IInv'
  <2>1. b \in Majors /\ \E r \in First(majors[b].ranges) :
          majors' = [majors EXCEPT ![b] = FlatTakes(majors[b], r, r[1])] /\ flat' = flat
    BY <1>3 DEF alloc_minor, Refuse
  <2> QED BY <2>1, MinorDoes, DoesKeeps
<1> QED BY <1>1, <1>2, <1>3

\* alloc_major and alloc_major_at find a range in which the block lies.
LEMMA MajorKeeps ==
  ASSUME IInv, alloc_major \/ \E b \in Int : alloc_major_at(b)
  PROVE  IInv'
<1>1. CASE UNCHANGED <<flat, majors>>
  BY <1>1, RefuseKeeps
<1>2. flat.ranges \in Ranges
  BY DEF IInv, Good, Flats
<1>3. CASE alloc_major /\ ~ UNCHANGED <<flat, majors>>
  <2>1. PICK r \in First(Roomy(flat.ranges)) : Carve(r, AlignedIn(r))
    BY <1>3 DEF alloc_major, Refuse
  <2>2. r \in flat.ranges /\ AlignedIn(r) + Block =< r[2]
    BY DEF First, Roomy
  <2>3. AlignedIn(r) \in Int /\ AlignedIn(r) % Block = 0 /\ r[1] =< AlignedIn(r)
    BY <1>2, <2>2, Aligned DEF Ranges
  <2> QED BY <2>1, <2>2, <2>3, CarveKeeps
<1>4. ASSUME NEW b \in Int, alloc_major_at(b), ~ UNCHANGED <<flat, majors>>
      PROVE  IInv'
  <2>1. b % Block = 0 /\ \E r \in Carvable(b) : Carve(r, b)
    BY <1>4 DEF alloc_major_at, Refuse
  <2>2. PICK r \in Carvable(b) : Carve(r, b)
    BY <2>1
  <2>3. r \in flat.ranges /\ r[1] =< b /\ b + Block =< r[2]
    BY DEF Carvable, LastUpTo
  <2> QED BY <2>1, <2>2, <2>3, CarveKeeps
<1> QED BY <1>1, <1>3, <1>4

\* A fresh allocator has the invariant.
LEMMA IInvInit == Init => IInv
<1> SUFFICES ASSUME Init PROVE IInv
  OBVIOUS
<1>1. Good(flat, IdStart, IdEnd)
  BY NewGood, Constants DEF Init
<1>2. Majors = {} /\ majors = [b \in Majors |-> majors[b]]
  BY DEF Init, Majors
<1> QED BY <1>1, <1>2 DEF IInv

\* Every operation keeps it.
LEMMA IInvStep ==
  ASSUME IInv, [Next]_vars
  PROVE  IInv'
<1>1. CASE alloc \/ \E b \in 0 .. IdMax : alloc_minor(b)
  <2>1. alloc \/ \E b \in Int : alloc_minor(b)
    BY <1>1, ArgumentAssumption, SMT
  <2> QED BY <2>1, FirstKeeps
<1>2. CASE alloc_major \/ \E b \in 0 .. IdMax : alloc_major_at(b)
  <2>1. alloc_major \/ \E b \in Int : alloc_major_at(b)
    BY <1>2, ArgumentAssumption, SMT
  <2> QED BY <2>1, MajorKeeps
<1>3. ASSUME NEW i \in 0 .. IdMax, alloc_at(i) \/ dealloc(i) PROVE IInv'
  BY <1>3, NumberKeeps, ArgumentAssumption, SMT
<1>4. ASSUME NEW b \in 0 .. IdMax, dealloc_major(b) PROVE IInv'
  <2>1. CASE UNCHANGED <<flat, majors>>
    BY <2>1, RefuseKeeps
  <2>2. CASE ~ UNCHANGED <<flat, majors>>
    <3>1. /\ b \in Majors /\ majors' = [c \in Majors \ {b} |-> majors[c]]
          /\ flat' = [flat EXCEPT !.ranges = Returned(flat.ranges, b, b + Block)]
      BY <1>4, <2>2 DEF dealloc_major, Refuse
    <3> QED BY <3>1, DeallocMajorKeeps
  <2> QED BY <2>1, <2>2
<1>5. CASE reset
  <2>1. flat.start = IdStart /\ flat.end = IdEnd
    BY DEF IInv, Good, Flats
  <2>2. Good(flat', IdStart, IdEnd)
    BY <1>5, <2>1, NewGood, Constants DEF reset
  <2>3. Majors' = {} /\ majors' = [b \in Majors' |-> majors'[b]]
    BY <1>5 DEF reset, Majors
  <2> QED BY <2>2, <2>3 DEF IInv
<1>6. CASE UNCHANGED vars
  BY <1>6, RefuseKeeps DEF vars
<1> QED BY <1>1, <1>2, <1>3, <1>4, <1>5, <1>6 DEF Next

\* Free ranges are maximal and apart, and no number is both free in the flat
\* allocator and in a reserved block, after any sequence of the operations of
\* IdAlloc, whatever the range and the size of a block.
THEOREM MaximalTheorem == Spec => []RangesMaximal
<1>1. Spec => []IInv
  BY IInvInit, IInvStep, PTL DEF Spec
<1> QED BY <1>1, IInvIsEnough, PTL

-----------------------------------------------------------------------------
(* The refinement *)

\* i is on a free range of the allocator that has it.
FreeNow(i) ==
  IF token_base(i) \in Majors THEN Covered(majors[token_base(i)].ranges, i)
  ELSE Covered(flat.ranges, i)

\* The numbers in use are those that no range covers.
LEMMA TakenIs == IInv => Taken = {i \in Numbers : ~ FreeNow(i)}
<1> SUFFICES ASSUME IInv PROVE \A i \in Numbers : IsAllocated(i) <=> ~ FreeNow(i)
  BY DEF Taken
<1> TAKE i \in Numbers
<1>1. i \in Int /\ IdStart =< i /\ i < IdEnd
  BY Constants, SMT DEF Numbers
<1>2. contains(flat, i)
  BY <1>1 DEF IInv, Good, Flats, contains
<1>3. token_base(i) \in Majors => contains(majors[token_base(i)], i)
  BY <1>1, TokenBase DEF IInv, Good, Flats, contains
<1> QED BY <1>2, <1>3 DEF IsAllocated, FlatIsAllocated, FreeNow

\* A number is in the block that token_base names and in no other.
LEMMA BlockIs ==
  IInv => \A b \in Majors, i \in Int : InBlock(b, i) <=> token_base(i) = b
BY OneBlock, TokenBase, SMT DEF IInv, InBlock

\* What the flat allocator has free is what is free and in no block.
LEMMA LooseIs ==
  IInv => \A i \in Int : i \in Space!Loose <=> Covered(flat.ranges, i)
<1> SUFFICES ASSUME IInv, NEW i \in Int PROVE i \in Space!Loose <=> Covered(flat.ranges, i)
  OBVIOUS
<1>1. Space!Loose = {j \in Numbers \ Taken : \A b \in Majors : j \notin b .. (b + Block - 1)}
  BY DEF Space!Loose, Space!Ids, Space!BlockIds, Numbers, Taken
<1>2. (\A b \in Majors : i \notin b .. (b + Block - 1)) <=> token_base(i) \notin Majors
  <2>1. \A b \in Majors : b \in Int /\ (i \in b .. (b + Block - 1) <=> InBlock(b, i))
    BY Constants, SMT DEF IInv, InBlock
  <2> QED BY <2>1, BlockIs
<1>3. Covered(flat.ranges, i) => i \in Numbers /\ token_base(i) \notin Majors
  <2> SUFFICES ASSUME Covered(flat.ranges, i) PROVE i \in Numbers /\ token_base(i) \notin Majors
    OBVIOUS
  <2>1. PICK r \in flat.ranges : r[1] =< i /\ i < r[2]
    BY DEF Covered
  <2>2. r[1] \in Int /\ r[2] \in Int /\ IdStart =< r[1] /\ r[2] =< IdEnd
    BY <2>1 DEF IInv, Good, Flats, Ranges, Separate
  <2>3. i \in Numbers
    BY <2>1, <2>2, Constants, SMT DEF Numbers
  <2>4. token_base(i) \notin Majors
    BY BlockIs DEF IInv
  <2> QED BY <2>3, <2>4
<1>4. i \in Numbers /\ token_base(i) \notin Majors => (i \notin Taken <=> Covered(flat.ranges, i))
  BY TakenIs DEF FreeNow
<1> QED BY <1>1, <1>2, <1>3, <1>4

\* The same after a step.
LEMMA NextTakenIs == IInv' => Taken' = {i \in Numbers : ~ FreeNow(i)'}
<1>1. (IInv => Taken = {i \in Numbers : ~ FreeNow(i)})'
  BY TakenIs, PTL
<1> QED BY <1>1 DEF Numbers

\* What a step that hands out a number or takes one back does to the set of
\* numbers in use.
LEMMA DoesEffect ==
  ASSUME IInv, NEW i \in Numbers, NEW free \in SUBSET {i}, Does(i, free)
  PROVE  Taken' = (Taken \cup {i}) \ free /\ Majors' = Majors
<1> DEFINE b == token_base(i)
<1>1. \A j \in Numbers : j \in Int
  BY Constants, SMT DEF Numbers
<1>2. IInv'
  BY <1>1, DoesKeeps
<1>3. /\ Taken = {j \in Numbers : ~ FreeNow(j)}
      /\ Taken' = {j \in Numbers : ~ FreeNow(j)'}
  BY <1>2, TakenIs, NextTakenIs
<1> SUFFICES /\ Majors' = Majors
             /\ \A j \in Numbers : FreeNow(j)' <=> (FreeNow(j) /\ j # i) \/ j \in free
  BY <1>3
<1>4. CASE b \in Majors
  <2>1. PICK g : /\ flat' = flat /\ majors' = [majors EXCEPT ![b] = g]
                 /\ \A j \in Int : Covered(g.ranges, j) <=> (Covered(majors[b].ranges, j) /\ j # i) \/ j \in free
    BY <1>4 DEF Does
  <2>2. Majors' = Majors /\ majors'[b] = g /\ \A c \in Majors \ {b} : majors'[c] = majors[c]
    BY <1>4, <2>1 DEF Majors
  <2>3. \A j \in Numbers : FreeNow(j)' <=> IF token_base(j) = b THEN Covered(g.ranges, j) ELSE FreeNow(j)
    BY <1>4, <2>1, <2>2 DEF FreeNow, token_base, Covered
  <2>4. \A j \in Numbers : token_base(j) = b => (FreeNow(j) <=> Covered(majors[b].ranges, j))
    BY <1>4 DEF FreeNow
  <2> QED BY <1>1, <2>1, <2>2, <2>3, <2>4
<1>5. CASE b \notin Majors
  <2>1. /\ majors' = majors
        /\ \A j \in Int : Covered(flat'.ranges, j) <=> (Covered(flat.ranges, j) /\ j # i) \/ j \in free
    BY <1>5 DEF Does
  <2>2. Majors' = Majors
    BY <2>1 DEF Majors
  <2>3. \A j \in Numbers : FreeNow(j)' <=>
          IF token_base(j) \in Majors THEN Covered(majors[token_base(j)].ranges, j)
          ELSE Covered(flat'.ranges, j)
    BY <2>1, <2>2 DEF FreeNow, token_base, Covered
  <2> QED BY <1>1, <1>5, <2>1, <2>2, <2>3 DEF FreeNow
<1> QED BY <1>4, <1>5

\* A block that is carved out is all free, before and after.
LEMMA CarveEffect ==
  ASSUME IInv, NEW r \in flat.ranges, NEW b \in Int, b % Block = 0,
         r[1] =< b, b + Block =< r[2], Carve(r, b)
  PROVE  /\ Taken' = Taken /\ Majors' = Majors \cup {b}
         /\ b \notin Majors /\ \A j \in Taken : token_base(j) # b
<1>1. flat.ranges \in Ranges /\ Separate(flat.ranges, IdStart, IdEnd)
  BY DEF IInv, Good, Flats
<1>2. /\ b + Block \in Int /\ b < b + Block /\ r[1] \in Int /\ r[2] \in Int
      /\ \A j \in Numbers : j \in Int
  BY <1>1, Constants, SMT DEF Ranges, Numbers
<1>3. IInv'
  BY CarveKeeps
<1>4. /\ Taken = {j \in Numbers : ~ FreeNow(j)}
      /\ Taken' = {j \in Numbers : ~ FreeNow(j)'}
  BY <1>3, TakenIs, NextTakenIs
<1>5. flat'.ranges = Cut(flat.ranges, r, b, b + Block)
  BY DEF Carve, IInv, Good, Flats
<1>6. \A j \in Int : Covered(flat'.ranges, j) <=> Covered(flat.ranges, j) /\ ~ InBlock(b, j)
  <2>1. \A j \in Int : Covered(Cut(flat.ranges, r, b, b + Block), j)
          <=> Covered(flat.ranges, j) /\ ~ (b =< j /\ j < b + Block)
    BY <1>1, <1>2, Constants, CutKeeps
  <2> QED BY <1>5, <2>1 DEF InBlock
<1>7. /\ Majors' = Majors \cup {b}
      /\ \A c \in Majors' : majors'[c] = IF c = b THEN FlatNew(b, b + Block) ELSE majors[c]
  BY DEF Carve, Majors
<1>8. \A j \in Int : InBlock(b, j) => Covered(flat.ranges, j) /\ token_base(j) = b
  BY <1>2, OneBlock, SMT DEF InBlock, Covered
<1>9. b \notin Majors
  BY <1>2, <1>8, SMT DEF IInv, InBlock
<1>10. \A j \in Int : InBlock(b, j) => Covered(majors'[b].ranges, j)
  <2>1. majors'[b].ranges = {<<b, b + Block>>}
    BY <1>2, <1>7, SMT DEF FlatNew, NonEmpty
  <2> QED BY <1>2, <2>1, SMT DEF Covered, InBlock
<1>11. \A j \in Int : token_base(j) = b => InBlock(b, j)
  BY TokenBase DEF InBlock
<1>12. ASSUME NEW j \in Numbers PROVE FreeNow(j)' <=> FreeNow(j)
  <2>1. FreeNow(j)' <=> IF token_base(j) \in Majors' THEN Covered(majors'[token_base(j)].ranges, j)
                        ELSE Covered(flat'.ranges, j)
    BY DEF FreeNow, token_base, Covered
  <2>2. CASE token_base(j) = b
    <3>1. InBlock(b, j) /\ Covered(flat.ranges, j) /\ Covered(majors'[b].ranges, j)
      BY <1>2, <1>8, <1>10, <1>11, <2>2
    <3> QED BY <1>7, <1>9, <2>1, <2>2, <3>1 DEF FreeNow
  <2>3. CASE token_base(j) # b
    <3>1. ~ InBlock(b, j)
      BY <1>2, <1>8, <2>3
    <3> QED BY <1>2, <1>6, <1>7, <2>1, <2>3, <3>1 DEF FreeNow
  <2> QED BY <2>2, <2>3
<1>13. \A j \in Taken : token_base(j) # b
  <2>1. \A j \in Numbers : token_base(j) = b => FreeNow(j)
    BY <1>2, <1>8, <1>9, <1>11 DEF FreeNow
  <2> QED BY <1>4, <2>1
<1> QED BY <1>4, <1>7, <1>9, <1>12, <1>13

\* A block that is given back is all free afterwards.
LEMMA DeallocMajorEffect ==
  ASSUME IInv, NEW b \in Majors,
         majors' = [c \in Majors \ {b} |-> majors[c]],
         flat' = [flat EXCEPT !.ranges = Returned(flat.ranges, b, b + Block)]
  PROVE  Taken' = Taken \ (b .. (b + Block - 1)) /\ Majors' = Majors \ {b}
<1>1. flat.ranges \in Ranges /\ Separate(flat.ranges, IdStart, IdEnd)
  BY DEF IInv, Good, Flats
<1>2. /\ b \in Int /\ b + Block \in Int /\ b < b + Block
      /\ IdStart =< b /\ b + Block =< IdEnd
      /\ \A i \in Int : b =< i /\ i < b + Block => ~ Covered(flat.ranges, i)
      /\ \A j \in Numbers : j \in Int
  BY Constants, SMT DEF IInv, InBlock, Numbers
<1>3. IInv'
  BY DeallocMajorKeeps
<1>4. /\ Taken = {j \in Numbers : ~ FreeNow(j)}
      /\ Taken' = {j \in Numbers : ~ FreeNow(j)'}
  BY <1>3, TakenIs, NextTakenIs
<1>5. flat'.ranges = Returned(flat.ranges, b, b + Block)
  BY DEF IInv, Good, Flats
<1>6. \A j \in Int : Covered(flat'.ranges, j) <=> Covered(flat.ranges, j) \/ InBlock(b, j)
  BY <1>1, <1>2, <1>5, Constants, ReturnedKeeps, SMT DEF InBlock
<1>7. Majors' = Majors \ {b} /\ \A c \in Majors' : majors'[c] = majors[c]
  BY DEF Majors
<1>8. \A j \in Int : /\ InBlock(b, j) <=> token_base(j) = b
                     /\ InBlock(b, j) <=> j \in b .. (b + Block - 1)
  <2>1. \A j \in Int : InBlock(b, j) <=> token_base(j) = b
    BY BlockIs
  <2>2. \A j \in Int : InBlock(b, j) <=> j \in b .. (b + Block - 1)
    BY <1>2, Constants, SMT DEF InBlock
  <2> QED BY <2>1, <2>2
<1>9. ASSUME NEW j \in Numbers PROVE FreeNow(j)' <=> FreeNow(j) \/ InBlock(b, j)
  <2>1. FreeNow(j)' <=> IF token_base(j) \in Majors' THEN Covered(majors'[token_base(j)].ranges, j)
                        ELSE Covered(flat'.ranges, j)
    BY DEF FreeNow, token_base, Covered
  <2>2. j \in Int /\ (Covered(flat'.ranges, j) <=> Covered(flat.ranges, j) \/ InBlock(b, j))
    BY <1>2, <1>6
  <2>3. CASE token_base(j) = b
    <3>1. InBlock(b, j) /\ token_base(j) \notin Majors'
      BY <1>7, <1>8, <2>2, <2>3
    <3> QED BY <2>1, <2>2, <3>1
  <2>4. CASE token_base(j) # b
    <3>1. ~ InBlock(b, j) /\ (token_base(j) \in Majors' <=> token_base(j) \in Majors)
      BY <1>7, <1>8, <2>2, <2>4
    <3>2. token_base(j) \in Majors => majors'[token_base(j)] = majors[token_base(j)]
      BY <1>7, <3>1
    <3> QED BY <2>1, <2>2, <3>1, <3>2 DEF FreeNow
  <2> QED BY <2>3, <2>4
<1> QED BY <1>2, <1>4, <1>7, <1>8, <1>9

\* A refused call is refused with the same error.
LEMMA RefuseRefines ==
  ASSUME NEW op, NEW arg, NEW kind, Refuse(op, arg, kind)
  PROVE  Space!Refuse(op, arg, kind)
<1>1. flat' = flat /\ majors' = majors /\ res' = Result(op, arg, kind, 0)
  BY DEF Refuse
<1>2. Taken' = Taken /\ Majors' = Majors
  BY <1>1 DEF Taken, IsAllocated, FlatIsAllocated, contains, Covered, Majors, token_base, Numbers
<1> QED BY <1>1, <1>2 DEF Space!Refuse, Space!Result, Result, Taken, Numbers

\* The flat allocator's bounds are the range.
LEMMA ContainsIs == IInv => \A i \in Int : contains(flat, i) <=> i \in Numbers
<1> SUFFICES ASSUME IInv PROVE \A i \in Int : contains(flat, i) <=> i \in Numbers
  OBVIOUS
<1>1. flat.start = IdStart /\ flat.end = IdEnd
  BY DEF IInv, Good, Flats
<1> QED BY <1>1, Constants, SMT DEF contains, Numbers

\* find_aligned_block's candidate is the first aligned number of the range.
LEMMA AlignedLeast ==
  ASSUME NEW r \in Int \X Int, NEW c \in Int, c % Block = 0, r[1] =< c
  PROVE  AlignedIn(r) =< c
<1>1. Block \in Int /\ Block > 0 /\ r[1] \in Int
  BY Constants
<1> DEFINE n == r[1] + Block - 1
           m == n \div Block
           k == c \div Block
<1>2. n \in Int /\ m \in Int /\ n = Block * m + (n % Block) /\ n % Block \in 0 .. (Block - 1)
  BY <1>1, SMT
<1>3. k \in Int /\ c = k * Block
  BY <1>1, SMT
<1>4. AlignedIn(r) = m * Block
  BY DEF AlignedIn
<1>5. n < c + Block
  BY <1>1, SMT
<1> HIDE DEF n, m, k
<1>6. m * Block =< n
  BY <1>1, <1>2, SMT
<1>7. m * Block < (k + 1) * Block
  BY <1>1, <1>2, <1>3, <1>5, <1>6, SMT
<1>8. m =< k
  BY <1>1, <1>2, <1>3, <1>7, SMT
<1>9. m * Block =< k * Block
  BY <1>1, <1>2, <1>3, <1>8, SMT
<1> QED BY <1>3, <1>4, <1>9

\* Because ranges are maximal, a block that is all free lies in one of them,
\* and that is the one that carve looks up.
LEMMA BlockInRange ==
  ASSUME NEW R \in Ranges, Separate(R, IdStart, IdEnd), NEW b \in Int,
         \A i \in Int : InBlock(b, i) => Covered(R, i)
  PROVE  \E r \in LastUpTo(R, b) : b + Block =< r[2]
<1>1. InBlock(b, b) /\ b + Block \in Int
  BY Constants, SMT DEF InBlock
<1>2. PICK r \in R : r[1] =< b /\ b < r[2]
  BY <1>1 DEF Covered
<1>3. \A q \in R : q[1] \in Int /\ q[2] \in Int /\ q[1] < q[2]
  BY DEF Ranges, Separate
<1>4. \A q \in R : q = r \/ q[2] < r[1] \/ r[2] < q[1]
  BY DEF Separate
<1>5. r \in LastUpTo(R, b)
  BY <1>2, <1>3, <1>4, SMT DEF LastUpTo
<1>6. b + Block =< r[2]
  <2> SUFFICES ASSUME r[2] < b + Block PROVE FALSE
    BY <1>1, <1>3, SMT
  <2>1. InBlock(b, r[2])
    BY <1>2, <1>3, SMT DEF InBlock
  <2>2. PICK q \in R : q[1] =< r[2] /\ r[2] < q[2]
    BY <1>3, <2>1 DEF Covered
  <2> QED BY <1>3, <1>4, <2>2, SMT
<1> QED BY <1>5, <1>6

\* What can be reserved: an aligned block that one free range contains.
LEMMA ReservableIs ==
  ASSUME IInv, NEW b \in Int, b % Block = 0
  PROVE  /\ Space!Reservable(b) <=> Carvable(b) # {}
         /\ \A r \in flat.ranges : r[1] =< b /\ b + Block =< r[2] => Space!Reservable(b)
         /\ Space!Reservable(b) => b \in Numbers
<1>1. flat.ranges \in Ranges /\ Separate(flat.ranges, IdStart, IdEnd)
  BY DEF IInv, Good, Flats
<1>2. b + Block \in Int /\ \A i : i \in b .. (b + Block - 1) <=> i \in Int /\ InBlock(b, i)
  BY Constants, SMT DEF InBlock
<1>3. Space!Reservable(b) <=> \A i \in Int : InBlock(b, i) => Covered(flat.ranges, i)
  <2>1. Space!Reservable(b) <=> \A i \in b .. (b + Block - 1) : i \in Space!Loose
    BY DEF Space!Reservable, Space!BlockIds
  <2> QED BY <1>2, <2>1, LooseIs
<1>4. ASSUME NEW r \in flat.ranges, r[1] =< b, b + Block =< r[2] PROVE Space!Reservable(b)
  <2>1. r[1] \in Int /\ r[2] \in Int
    BY <1>1 DEF Ranges
  <2>2. \A i \in Int : InBlock(b, i) => r[1] =< i /\ i < r[2]
    BY <1>2, <1>4, <2>1, SMT DEF InBlock
  <2> QED BY <1>3, <2>2 DEF Covered
<1>5. Space!Reservable(b) => Carvable(b) # {}
  BY <1>1, <1>3, BlockInRange DEF Carvable
<1>6. Carvable(b) # {} => Space!Reservable(b)
  BY <1>4 DEF Carvable, LastUpTo
<1>7. Space!Reservable(b) => b \in Numbers
  <2>1. InBlock(b, b)
    BY Constants, SMT DEF InBlock
  <2>2. Space!Loose \subseteq Numbers
    BY DEF Space!Loose, Space!Ids, Numbers
  <2> QED BY <1>3, <2>1, <2>2, LooseIs
<1> QED BY <1>4, <1>5, <1>6, <1>7

\* The same names for the same sets.
LEMMA Named ==
  /\ Space!Ids = Numbers
  /\ \A i : Taken' = Taken \cup {i} /\ Majors' = Majors => Space!Take(i)
  /\ \A b : Taken' = Taken /\ Majors' = Majors \cup {b} => Space!Reserve(b)
  /\ \A op, arg, id : Returns(op, arg, id) => Space!Returns(op, arg, id)
BY DEF Space!Ids, Space!Take, Space!Reserve, Space!Returns, Space!Result, Returns, Result, Taken, Numbers

\* alloc hands out the lowest number.
LEMMA AllocRefines == ASSUME IInv, alloc PROVE Space!alloc
<1>1. CASE flat.ranges = {} /\ Refuse("alloc", 0, "None")
  <2>1. Space!Loose \subseteq Int
    BY Constants, SMT DEF Space!Loose, Space!Ids
  <2>2. Space!Loose = {}
    BY <1>1, <2>1, LooseIs DEF Covered
  <2> QED BY <1>1, <2>2, RefuseRefines DEF Space!alloc
<1>2. ASSUME NEW r \in First(flat.ranges), flat' = FlatTakes(flat, r, r[1]), majors' = majors,
             Returns("alloc", 0, r[1])
      PROVE  Space!alloc
  <2>1. Good(flat, IdStart, IdEnd)
    BY DEF IInv
  <2>2. /\ r[1] \in Int /\ IdStart =< r[1] /\ r[1] < IdEnd /\ Covered(flat.ranges, r[1])
        /\ \A j \in Int : Covered(flat.ranges, j) => r[1] =< j
    BY <2>1, FirstTaken, Constants
  <2>3. r[1] \in Numbers
    BY <2>2, Constants, SMT DEF Numbers
  <2>4. Taken' = Taken \cup {r[1]} /\ Majors' = Majors
    <3>1. Does(r[1], {})
      BY <1>2, AllocDoes
    <3>2. Taken' = (Taken \cup {r[1]}) \ {} /\ Majors' = Majors
      BY <2>3, <3>1, DoesEffect
    <3> QED BY <3>2
  <2>5. Space!Loose \subseteq Int
    BY Constants, SMT DEF Space!Loose, Space!Ids
  <2>6. Space!Lowest(r[1], Space!Loose)
    BY <2>2, <2>5, LooseIs DEF Space!Lowest
  <2>7. r[1] \in Space!Ids /\ Space!Take(r[1]) /\ Space!Returns("alloc", 0, r[1])
    BY <1>2, <2>3, <2>4, Named
  <2> QED BY <2>6, <2>7 DEF Space!alloc
<1> QED BY <1>1, <1>2 DEF alloc

\* alloc_at hands out the number that is asked for.
LEMMA AllocAtRefines == ASSUME IInv, NEW i \in Int, alloc_at(i) PROVE Space!alloc_at(i)
<1>1. contains(flat, i) <=> i \in Numbers
  BY ContainsIs
<1>2. i \in Numbers => (IsAllocated(i) <=> i \in Taken)
  BY DEF Taken
<1>3. /\ Space!Ids = Numbers
      /\ Space!alloc_at(i) <=>
           \/ i \notin Numbers /\ Space!Refuse("alloc_at", i, "OutOfRange")
           \/ i \in Taken /\ Space!Refuse("alloc_at", i, "AlreadyAllocated")
           \/ i \in Numbers \ Taken /\ Space!Take(i) /\ Space!Returns("alloc_at", i, 0)
  BY DEF Space!alloc_at, Space!Ids, Numbers, Taken
<1>4. CASE ~ contains(flat, i) /\ Refuse("alloc_at", i, "OutOfRange")
  BY <1>1, <1>3, <1>4, RefuseRefines
<1>5. CASE contains(flat, i) /\ IsAllocated(i) /\ Refuse("alloc_at", i, "AlreadyAllocated")
  BY <1>1, <1>2, <1>3, <1>5, RefuseRefines
<1>6. CASE contains(flat, i) /\ ~ IsAllocated(i) /\ Returns("alloc_at", i, 0)
  <2>1. i \in Numbers \ Taken
    BY <1>1, <1>2, <1>6
  <2>2. Does(i, {})
    BY <1>6, AllocAtDoes
  <2>3. Taken' = (Taken \cup {i}) \ {} /\ Majors' = Majors
    BY <2>1, <2>2, DoesEffect
  <2>4. Taken' = Taken \cup {i}
    BY <2>3
  <2>5. Space!Take(i) /\ Space!Returns("alloc_at", i, 0)
    BY <1>6, <2>3, <2>4, Named
  <2> QED BY <1>3, <2>1, <2>5
<1> QED BY <1>4, <1>5, <1>6 DEF alloc_at

\* dealloc frees the number.
LEMMA DeallocRefines == ASSUME IInv, NEW i \in Int, dealloc(i) PROVE Space!dealloc(i)
<1>1. contains(flat, i) <=> i \in Numbers
  BY ContainsIs
<1>2. i \in Numbers => (IsAllocated(i) <=> i \in Taken)
  BY DEF Taken
<1>3. Space!dealloc(i) <=>
        \/ i \notin Numbers /\ Space!Refuse("dealloc", i, "OutOfRange")
        \/ i \in Numbers \ Taken /\ Space!Refuse("dealloc", i, "AlreadyFree")
        \/ i \in Taken /\ Taken' = Taken \ {i} /\ Space!Returns("dealloc", i, 0) /\ Majors' = Majors
  BY DEF Space!dealloc, Space!Ids, Numbers, Taken
<1>4. CASE ~ contains(flat, i) /\ Refuse("dealloc", i, "OutOfRange")
  BY <1>1, <1>3, <1>4, RefuseRefines
<1>5. CASE contains(flat, i) /\ ~ IsAllocated(i) /\ Refuse("dealloc", i, "AlreadyFree")
  BY <1>1, <1>2, <1>3, <1>5, RefuseRefines
<1>6. CASE contains(flat, i) /\ IsAllocated(i) /\ Returns("dealloc", i, 0)
  <2>1. i \in Numbers /\ i \in Taken
    BY <1>1, <1>2, <1>6
  <2>2. Does(i, {i})
    BY <1>6, DeallocDoes
  <2>3. Taken' = (Taken \cup {i}) \ {i} /\ Majors' = Majors
    BY <2>1, <2>2, DoesEffect
  <2>4. Taken' = Taken \ {i}
    BY <2>3
  <2>5. Space!Returns("dealloc", i, 0)
    BY <1>6, Named
  <2> QED BY <1>3, <2>1, <2>3, <2>4, <2>5
<1> QED BY <1>4, <1>5, <1>6 DEF dealloc

\* alloc_minor hands out the lowest number of the block.
LEMMA MinorRefines == ASSUME IInv, NEW b \in Int, alloc_minor(b) PROVE Space!alloc_minor(b)
<1>1. Space!alloc_minor(b) <=>
        \/ (b \notin Majors \/ b .. (b + Block - 1) \subseteq Taken) /\ Space!Refuse("alloc_minor", b, "None")
        \/ /\ b \in Majors
           /\ \E i \in Numbers : /\ Space!Lowest(i, (b .. (b + Block - 1)) \ Taken)
                                  /\ Space!Take(i) /\ Space!Returns("alloc_minor", b, i)
  BY DEF Space!alloc_minor, Space!BlockIds, Space!Ids, Numbers, Taken
<1>2. CASE b \notin Majors /\ Refuse("alloc_minor", b, "None")
  BY <1>1, <1>2, RefuseRefines
<1>3. ASSUME b \in Majors
      PROVE  \A i \in b .. (b + Block - 1) :
               i \in Int /\ i \in Numbers /\ (i \notin Taken <=> Covered(majors[b].ranges, i))
  <2> SUFFICES ASSUME NEW i \in b .. (b + Block - 1)
               PROVE  i \in Int /\ i \in Numbers /\ (i \notin Taken <=> Covered(majors[b].ranges, i))
    OBVIOUS
  <2>1. i \in Int /\ InBlock(b, i)
    BY Constants, SMT DEF InBlock
  <2>2. i \in Numbers
    BY <1>3, <2>1, Constants, SMT DEF IInv, InBlock, Numbers
  <2>3. token_base(i) = b
    BY <1>3, <2>1, BlockIs
  <2> QED BY <1>3, <2>1, <2>2, <2>3, TakenIs DEF FreeNow
<1>4. CASE b \in Majors /\ majors[b].ranges = {} /\ Refuse("alloc_minor", b, "None")
  <2>1. b .. (b + Block - 1) \subseteq Taken
    BY <1>3, <1>4 DEF Covered
  <2> QED BY <1>1, <1>4, <2>1, RefuseRefines
<1>5. ASSUME b \in Majors, NEW r \in First(majors[b].ranges), flat' = flat,
             majors' = [majors EXCEPT ![b] = FlatTakes(majors[b], r, r[1])],
             Returns("alloc_minor", b, r[1])
      PROVE  Space!alloc_minor(b)
  <2>1. Good(majors[b], b, b + Block) /\ b + Block \in Int
    BY <1>5, Constants, SMT DEF IInv
  <2>2. /\ r[1] \in Int /\ b =< r[1] /\ r[1] < b + Block /\ Covered(majors[b].ranges, r[1])
        /\ \A j \in Int : Covered(majors[b].ranges, j) => r[1] =< j
    BY <2>1, FirstTaken
  <2>3. r[1] \in b .. (b + Block - 1)
    BY <2>2, Constants, SMT
  <2>4. r[1] \in Numbers /\ Space!Lowest(r[1], (b .. (b + Block - 1)) \ Taken)
    BY <1>3, <1>5, <2>2, <2>3 DEF Space!Lowest
  <2>5. Does(r[1], {})
    BY <1>5, MinorDoes
  <2>6. Taken' = (Taken \cup {r[1]}) \ {} /\ Majors' = Majors
    BY <2>4, <2>5, DoesEffect
  <2>7. Taken' = Taken \cup {r[1]}
    BY <2>6
  <2>8. Space!Take(r[1]) /\ Space!Returns("alloc_minor", b, r[1])
    BY <1>5, <2>6, <2>7, Named
  <2> QED BY <1>1, <1>5, <2>4, <2>8
<1> QED BY <1>2, <1>4, <1>5 DEF alloc_minor

\* alloc_major reserves the lowest free aligned block.
LEMMA AllocMajorRefines == ASSUME IInv, alloc_major PROVE Space!alloc_major
<1>1. flat.ranges \in Ranges
  BY DEF IInv, Good, Flats
<1>2. Space!alloc_major <=>
        \/ (\A b \in Numbers : ~ Space!Reservable(b)) /\ Space!Refuse("alloc_major", 0, "None")
        \/ \E b \in Numbers : /\ Space!Lowest(b, {c \in Numbers : Space!Reservable(c)})
                              /\ Space!Reserve(b) /\ Space!Returns("alloc_major", 0, b)
  BY DEF Space!alloc_major, Space!Ids, Numbers
<1>3. \A c \in Numbers : c \in Int /\ (Space!Reservable(c) => c % Block = 0)
  BY Constants, SMT DEF Numbers, Space!Reservable
\* The range a reservable block lies in is roomy.
<1>4. ASSUME NEW c \in Numbers, Space!Reservable(c)
      PROVE  \E q \in Roomy(flat.ranges) : q[1] =< c
  <2>1. c \in Int /\ c % Block = 0
    BY <1>3, <1>4
  <2>2. Carvable(c) # {}
    BY <1>4, <2>1, ReservableIs
  <2>3. PICK q \in Carvable(c) : TRUE
    BY <2>2
  <2>4. q \in flat.ranges /\ q[1] =< c /\ c + Block =< q[2]
    BY <2>3 DEF Carvable, LastUpTo
  <2>5. q \in Int \X Int
    BY <1>1, <2>4 DEF Ranges
  <2>6. AlignedIn(q) =< c
    BY <2>1, <2>4, <2>5, AlignedLeast
  <2>7. AlignedIn(q) \in Int
    BY <2>5, Aligned
  <2>8. AlignedIn(q) + Block =< q[2]
    BY <2>1, <2>4, <2>5, <2>6, <2>7, Constants, SMT
  <2> QED BY <2>4, <2>8 DEF Roomy
<1>5. CASE Roomy(flat.ranges) = {} /\ Refuse("alloc_major", 0, "None")
  BY <1>2, <1>4, <1>5, RefuseRefines
<1>6. ASSUME NEW r \in First(Roomy(flat.ranges)), Carve(r, AlignedIn(r)),
             Returns("alloc_major", 0, AlignedIn(r))
      PROVE  Space!alloc_major
  <2> DEFINE b == AlignedIn(r)
  <2>1. /\ r \in flat.ranges /\ b + Block =< r[2]
        /\ \A q \in Roomy(flat.ranges) : r[1] =< q[1]
    BY <1>6 DEF First, Roomy
  <2>2. r \in Int \X Int
    BY <1>1, <2>1 DEF Ranges
  <2>3. b \in Int /\ b % Block = 0 /\ r[1] =< b
    BY <2>2, Aligned
  <2>4. Space!Reservable(b) /\ b \in Numbers
    BY <2>1, <2>3, ReservableIs
  <2>5. ASSUME NEW c \in Numbers, Space!Reservable(c) PROVE b =< c
    <3>1. PICK q \in Roomy(flat.ranges) : q[1] =< c
      BY <1>4, <2>5
    <3>2. q \in Int \X Int
      BY <1>1 DEF Roomy, Ranges
    <3>3. c \in Int /\ c % Block = 0
      BY <1>3, <2>5
    <3>4. r[1] =< c
      BY <2>1, <2>2, <3>1, <3>2, <3>3, SMT
    <3> QED BY <2>2, <3>3, <3>4, AlignedLeast
  <2>6. Taken' = Taken /\ Majors' = Majors \cup {b}
    BY <1>6, <2>1, <2>3, CarveEffect
  <2>7. Space!Reserve(b) /\ Space!Returns("alloc_major", 0, b)
    BY <1>6, <2>6, Named
  <2>8. Space!Lowest(b, {c \in Numbers : Space!Reservable(c)})
    <3> HIDE DEF b
    <3> QED BY <2>4, <2>5 DEF Space!Lowest
  <2> QED BY <1>2, <2>4, <2>7, <2>8
<1> QED BY <1>5, <1>6 DEF alloc_major

\* alloc_major_at reserves the block that is asked for.
LEMMA AllocMajorAtRefines ==
  ASSUME IInv, NEW b \in Int, alloc_major_at(b)
  PROVE  Space!alloc_major_at(b)
<1>1. Space!alloc_major_at(b) <=>
        \/ b % Block # 0 /\ Space!Refuse("alloc_major_at", b, "NotAligned")
        \/ /\ b % Block = 0 /\ ~ (b .. (b + Block - 1)) \subseteq Numbers
           /\ Space!Refuse("alloc_major_at", b, "OutOfRange")
        \/ b \in Majors /\ Space!Refuse("alloc_major_at", b, "AlreadyAllocated")
        \/ /\ b % Block = 0 /\ (b .. (b + Block - 1)) \subseteq Numbers
           /\ b \notin Majors /\ ~ Space!Reservable(b)
           /\ Space!Refuse("alloc_major_at", b, "RangeBusy")
        \/ Space!Reservable(b) /\ Space!Reserve(b) /\ Space!Returns("alloc_major_at", b, b)
  BY DEF Space!alloc_major_at, Space!BlockIds, Space!Ids, Numbers
<1>2. contains(flat, b) /\ b + Block =< flat.end <=> (b .. (b + Block - 1)) \subseteq Numbers
  <2>1. (contains(flat, b) <=> b \in Numbers) /\ flat.end = IdEnd
    BY ContainsIs DEF IInv, Good, Flats
  <2>2. (b .. (b + Block - 1)) \subseteq Numbers <=> b \in Numbers /\ b + Block =< IdEnd
    <3>1. ASSUME (b .. (b + Block - 1)) \subseteq Numbers
          PROVE  b \in Numbers /\ b + Block =< IdEnd
      <4>1. b \in b .. (b + Block - 1) /\ b + Block - 1 \in b .. (b + Block - 1)
        BY Constants, SMT
      <4>2. b \in Numbers /\ b + Block - 1 \in Numbers
        BY <3>1, <4>1
      <4> QED BY <4>2, Constants, SMT DEF Numbers
    <3>2. ASSUME b \in Numbers, b + Block =< IdEnd
          PROVE  (b .. (b + Block - 1)) \subseteq Numbers
      BY <3>2, Constants, SMT DEF Numbers
    <3> QED BY <3>1, <3>2
  <2> QED BY <2>1, <2>2
<1>3. CASE b % Block # 0 /\ Refuse("alloc_major_at", b, "NotAligned")
  BY <1>1, <1>3, RefuseRefines
<1>4. CASE /\ b % Block = 0 /\ ~ (contains(flat, b) /\ b + Block =< flat.end)
           /\ Refuse("alloc_major_at", b, "OutOfRange")
  BY <1>1, <1>2, <1>4, RefuseRefines
<1>5. CASE b \in Majors /\ Refuse("alloc_major_at", b, "AlreadyAllocated")
  BY <1>1, <1>5, RefuseRefines
<1>6. CASE /\ b % Block = 0 /\ contains(flat, b) /\ b + Block =< flat.end /\ b \notin Majors
           /\ Carvable(b) = {} /\ Refuse("alloc_major_at", b, "RangeBusy")
  <2>1. ~ Space!Reservable(b)
    BY <1>6, ReservableIs
  <2> QED BY <1>1, <1>2, <1>6, <2>1, RefuseRefines
<1>7. ASSUME b % Block = 0, NEW r \in Carvable(b), Carve(r, b), Returns("alloc_major_at", b, b)
      PROVE  Space!alloc_major_at(b)
  <2>1. r \in flat.ranges /\ r[1] =< b /\ b + Block =< r[2]
    BY <1>7 DEF Carvable, LastUpTo
  <2>2. Space!Reservable(b)
    BY <1>7, <2>1, ReservableIs
  <2>3. Taken' = Taken /\ Majors' = Majors \cup {b}
    BY <1>7, <2>1, CarveEffect
  <2>4. Space!Reserve(b) /\ Space!Returns("alloc_major_at", b, b)
    BY <1>7, <2>3, Named
  <2> QED BY <1>1, <2>2, <2>4
<1> QED BY <1>3, <1>4, <1>5, <1>6, <1>7 DEF alloc_major_at

\* dealloc_major frees the block with every number of it.
LEMMA DeallocMajorRefines ==
  ASSUME IInv, NEW b \in Int, dealloc_major(b)
  PROVE  Space!dealloc_major(b)
<1>1. Space!dealloc_major(b) <=>
        \/ b \notin Majors /\ Space!Refuse("dealloc_major", b, "MajorNotFound")
        \/ /\ b \in Majors /\ Majors' = Majors \ {b} /\ Taken' = Taken \ (b .. (b + Block - 1))
           /\ Space!Returns("dealloc_major", b, 0)
  BY DEF Space!dealloc_major, Space!BlockIds, Taken, Numbers
<1>2. CASE b \notin Majors /\ Refuse("dealloc_major", b, "MajorNotFound")
  BY <1>1, <1>2, RefuseRefines
<1>3. CASE /\ b \in Majors /\ majors' = [c \in Majors \ {b} |-> majors[c]]
           /\ flat' = [flat EXCEPT !.ranges = Returned(flat.ranges, b, b + Block)]
           /\ Returns("dealloc_major", b, 0)
  <2>1. Taken' = Taken \ (b .. (b + Block - 1)) /\ Majors' = Majors \ {b}
    BY <1>3, DeallocMajorEffect
  <2> QED BY <1>1, <1>3, <2>1, Named
<1> QED BY <1>2, <1>3 DEF dealloc_major

\* In an allocator that is one free range no number is in use.
LEMMA FreshIsFree ==
  /\ flat = FlatNew(IdStart, IdEnd) /\ Majors = {} => Taken = {}
  /\ flat' = FlatNew(IdStart, IdEnd) /\ Majors' = {} => Taken' = {}
<1>1. \A i \in Numbers : Covered(FlatNew(IdStart, IdEnd).ranges, i)
  <2> SUFFICES ASSUME NEW i \in Numbers PROVE Covered(FlatNew(IdStart, IdEnd).ranges, i)
    OBVIOUS
  <2>1. i \in Int /\ IdStart =< i /\ i < IdEnd
    BY Constants, SMT DEF Numbers
  <2>2. <<IdStart, IdEnd>> \in FlatNew(IdStart, IdEnd).ranges
    BY <2>1, Constants, SMT DEF FlatNew, NonEmpty
  <2> QED BY <2>1, <2>2 DEF Covered
<1>2. flat = FlatNew(IdStart, IdEnd) /\ Majors = {} => Taken = {}
  BY <1>1 DEF Taken, IsAllocated, FlatIsAllocated
<1>3. flat' = FlatNew(IdStart, IdEnd) /\ Majors' = {} => Taken' = {}
  BY <1>1 DEF Taken, Numbers, IsAllocated, FlatIsAllocated
<1> QED BY <1>2, <1>3

\* reset frees everything.
LEMMA ResetRefines == ASSUME IInv, reset PROVE Space!reset
<1>1. flat.start = IdStart /\ flat.end = IdEnd
  BY DEF IInv, Good, Flats
<1>2. flat' = FlatNew(IdStart, IdEnd) /\ Majors' = {}
  BY <1>1 DEF reset, Majors
<1>3. Taken' = {} /\ Space!Returns("reset", 0, 0)
  BY <1>2, FreshIsFree, Named DEF reset
<1> QED BY <1>2, <1>3 DEF Space!reset, Taken, Numbers

\* A new allocator has no number in use.
LEMMA InitRefines == Init => Space!Init
<1> SUFFICES ASSUME Init PROVE Space!Init
  OBVIOUS
<1>1. Majors = {}
  BY DEF Init, Majors
<1>2. Taken = {}
  BY <1>1, FreshIsFree DEF Init
<1> QED BY <1>1, <1>2 DEF Init, Space!Init, Space!Result, Result, Taken, Numbers

\* Every call is the abstract call of the same name.
LEMMA StepRefines == ASSUME IInv, [Next]_vars PROVE [Space!Next]_(Space!vars)
<1>1. CASE alloc
  BY <1>1, AllocRefines DEF Space!Next
<1>2. CASE alloc_major
  BY <1>2, AllocMajorRefines DEF Space!Next
<1>3. CASE reset
  BY <1>3, ResetRefines DEF Space!Next
<1>4. ASSUME NEW i \in 0 .. IdMax,
             \/ alloc_at(i) \/ dealloc(i) \/ alloc_major_at(i)
             \/ alloc_minor(i) \/ dealloc_major(i)
      PROVE  Space!Next
  <2>1. i \in Int
    BY SMT
  <2> QED BY <1>4, <2>1, AllocAtRefines, DeallocRefines, AllocMajorAtRefines, MinorRefines,
             DeallocMajorRefines DEF Space!Next
<1>5. CASE UNCHANGED vars
  BY <1>5 DEF vars, Space!vars, Taken, Numbers, IsAllocated, FlatIsAllocated, Majors
<1> QED BY <1>1, <1>2, <1>3, <1>4, <1>5 DEF Next

\* IdAlloc implements IdSpace: every public operation returns what the set of
\* numbers in use promises, whatever the range, the size of a block and the
\* order of the calls (crates/athera-id-alloc).
THEOREM RefinesTheorem == Spec => Refines
<1>1. Spec => []IInv
  BY IInvInit, IInvStep, PTL DEF Spec
<1> QED BY <1>1, InitRefines, StepRefines, PTL DEF Spec, Refines, Space!Spec

-----------------------------------------------------------------------------
(* The counters *)

\* The numbers in use are finitely many.
LEMMA TakenFinite == \A S \in SUBSET Taken : IsFiniteSet(S) /\ Cardinality(S) \in Nat
<1>1. IsFiniteSet(Numbers)
  <2>1. IdStart \in Int /\ IdEnd - 1 \in Int
    BY Constants, SMT
  <2> QED BY <2>1, FS_Interval DEF Numbers
<1> SUFFICES ASSUME NEW S \in SUBSET Taken PROVE IsFiniteSet(S) /\ Cardinality(S) \in Nat
  OBVIOUS
<1>2. S \in SUBSET Numbers
  BY DEF Taken
<1>3. IsFiniteSet(S)
  BY <1>1, <1>2, FS_Subset
<1> QED BY <1>3, FS_CardinalityType

\* The numbers in use that count in the flat allocator, and in a block's.
FlatUse == {i \in Taken : token_base(i) \notin Majors}
BlockUse(b) == {i \in Taken : token_base(i) = b}

\* What the counter of an allocator becomes is the size of what its set of
\* numbers in use becomes.
LEMMA OneMoreOrLess ==
  ASSUME NEW S \in SUBSET Taken, NEW i, NEW free \in SUBSET {i}, free = {} <=> i \notin S
  PROVE  Cardinality((S \cup {i}) \ free) =
           IF free = {} THEN Cardinality(S) + 1 ELSE Cardinality(S) - 1
<1>0. IsFiniteSet(S)
  BY TakenFinite
<1>1. CASE free = {}
  <2>1. (S \cup {i}) \ free = S \cup {i}
    BY <1>1
  <2>2. Cardinality(S \cup {i}) = Cardinality(S) + 1
    BY <1>0, <1>1, FS_AddElement
  <2> QED BY <1>1, <2>1, <2>2
<1>2. CASE free = {i}
  <2>1. (S \cup {i}) \ free = S \ {i} /\ i \in S
    BY <1>2
  <2>2. Cardinality(S \ {i}) = Cardinality(S) - 1
    BY <1>0, <2>1, FS_RemoveElement
  <2> QED BY <1>2, <2>1, <2>2
<1> QED BY <1>1, <1>2

\* A number that is handed out or taken back is counted, by its allocator and
\* by no other.
LEMMA DoesCounts ==
  ASSUME IInv, CountsAgree, NEW i \in Numbers, NEW free \in SUBSET {i}, Does(i, free)
  PROVE  CountsAgree'
<1> DEFINE b == token_base(i)
<1>1. Taken' = (Taken \cup {i}) \ free /\ Majors' = Majors
  BY DoesEffect
<1>2. free = {} <=> i \notin Taken
  BY DEF Does, Taken
<1>3. /\ flat.inuse = Cardinality(FlatUse)
      /\ \A c \in Majors : majors[c].inuse = Cardinality(BlockUse(c))
  BY DEF CountsAgree, FlatUse, BlockUse
<1>4. /\ FlatUse' = IF b \in Majors THEN FlatUse ELSE (FlatUse \cup {i}) \ free
      /\ \A c : BlockUse(c)' = IF c = b THEN (BlockUse(c) \cup {i}) \ free ELSE BlockUse(c)
  <2>1. FlatUse' = {j \in Taken' : token_base(j) \notin Majors}
    BY <1>1 DEF FlatUse, token_base
  <2>2. \A c : BlockUse(c)' = {j \in Taken' : token_base(j) = c}
    BY DEF BlockUse, token_base
  <2> QED BY <1>1, <2>1, <2>2 DEF FlatUse, BlockUse
<1>5. CASE b \in Majors
  <2>1. PICK g : /\ flat' = flat /\ majors' = [majors EXCEPT ![b] = g]
                 /\ g.inuse = IF free = {} THEN majors[b].inuse + 1 ELSE majors[b].inuse - 1
    BY <1>5 DEF Does
  <2>2. majors'[b] = g /\ \A c \in Majors \ {b} : majors'[c] = majors[c]
    BY <1>5, <2>1 DEF IInv, Majors
  <2>3. BlockUse(b) \in SUBSET Taken /\ (free = {} <=> i \notin BlockUse(b))
    BY <1>2 DEF BlockUse
  <2>4. Cardinality((BlockUse(b) \cup {i}) \ free) = g.inuse
    BY <1>3, <1>5, <2>1, <2>3, OneMoreOrLess
  <2>5. \A c \in Majors : majors'[c].inuse = Cardinality(BlockUse(c)')
    BY <1>3, <1>4, <2>2, <2>4
  <2>6. flat'.inuse = Cardinality(FlatUse')
    BY <1>3, <1>4, <1>5, <2>1
  <2> QED BY <1>1, <2>5, <2>6 DEF CountsAgree, FlatUse, BlockUse
<1>6. CASE b \notin Majors
  <2>1. /\ majors' = majors
        /\ flat'.inuse = IF free = {} THEN flat.inuse + 1 ELSE flat.inuse - 1
    BY <1>6 DEF Does
  <2>2. FlatUse \in SUBSET Taken /\ (free = {} <=> i \notin FlatUse)
    BY <1>2, <1>6 DEF FlatUse
  <2>3. Cardinality((FlatUse \cup {i}) \ free) = flat'.inuse
    BY <1>3, <2>1, <2>2, OneMoreOrLess
  <2>4. \A c \in Majors : majors'[c].inuse = Cardinality(BlockUse(c)')
    BY <1>3, <1>4, <1>6, <2>1
  <2>5. flat'.inuse = Cardinality(FlatUse')
    BY <1>4, <1>6, <2>3
  <2> QED BY <1>1, <2>4, <2>5 DEF CountsAgree, FlatUse, BlockUse
<1> QED BY <1>5, <1>6

\* A block that is carved out brings no number in use, and starts at zero.
LEMMA CarveCounts ==
  ASSUME IInv, CountsAgree, NEW r \in flat.ranges, NEW b \in Int, b % Block = 0,
         r[1] =< b, b + Block =< r[2], Carve(r, b)
  PROVE  CountsAgree'
<1>1. /\ Taken' = Taken /\ Majors' = Majors \cup {b}
      /\ b \notin Majors /\ \A j \in Taken : token_base(j) # b
  BY CarveEffect
<1>2. flat'.inuse = flat.inuse
  BY DEF Carve, IInv, Good, Flats
<1>3. \A c \in Majors' : majors'[c] = IF c = b THEN FlatNew(b, b + Block) ELSE majors[c]
  BY <1>1 DEF Carve
<1>4. /\ flat.inuse = Cardinality(FlatUse)
      /\ \A c \in Majors : majors[c].inuse = Cardinality(BlockUse(c))
  BY DEF CountsAgree, FlatUse, BlockUse
<1>5. FlatUse' = FlatUse
  <2>1. FlatUse' = {j \in Taken : token_base(j) \notin Majors \cup {b}}
    BY <1>1 DEF FlatUse, token_base
  <2> QED BY <1>1, <2>1 DEF FlatUse
<1>6. \A c : BlockUse(c)' = BlockUse(c)
  BY <1>1 DEF BlockUse, token_base
<1>7. BlockUse(b) = {} /\ majors'[b].inuse = 0
  <2>1. majors'[b] = FlatNew(b, b + Block)
    BY <1>1, <1>3
  <2>2. FlatNew(b, b + Block).inuse = 0
    BY DEF FlatNew
  <2> QED BY <1>1, <2>1, <2>2 DEF BlockUse
<1>8. \A c \in Majors' : majors'[c].inuse = Cardinality(BlockUse(c)')
  BY <1>1, <1>3, <1>4, <1>6, <1>7, FS_EmptySet
<1> QED BY <1>2, <1>4, <1>5, <1>8 DEF CountsAgree, FlatUse, BlockUse

\* A block that is given back takes its counter and its numbers with it.
LEMMA DeallocMajorCounts ==
  ASSUME IInv, CountsAgree, NEW b \in Majors,
         majors' = [c \in Majors \ {b} |-> majors[c]],
         flat' = [flat EXCEPT !.ranges = Returned(flat.ranges, b, b + Block)]
  PROVE  CountsAgree'
<1>1. Taken' = Taken \ (b .. (b + Block - 1)) /\ Majors' = Majors \ {b}
  BY DeallocMajorEffect
<1>2. \A j \in Taken : j \in b .. (b + Block - 1) <=> token_base(j) = b
  <2>1. b \in Int /\ \A j \in Taken : j \in Int
    BY Constants, SMT DEF IInv, Taken, Numbers
  <2>2. \A j \in Taken : j \in b .. (b + Block - 1) <=> InBlock(b, j)
    BY <2>1, Constants, SMT DEF InBlock
  <2> QED BY <2>1, <2>2, BlockIs
<1>3. flat'.inuse = flat.inuse /\ \A c \in Majors' : majors'[c] = majors[c]
  BY <1>1 DEF IInv, Good, Flats
<1>4. /\ flat.inuse = Cardinality(FlatUse)
      /\ \A c \in Majors : majors[c].inuse = Cardinality(BlockUse(c))
  BY DEF CountsAgree, FlatUse, BlockUse
<1>5. FlatUse' = FlatUse
  <2>1. FlatUse' = {j \in Taken' : token_base(j) \notin Majors \ {b}}
    BY <1>1 DEF FlatUse, token_base
  <2> QED BY <1>1, <1>2, <2>1 DEF FlatUse
<1>6. \A c \in Majors' : BlockUse(c)' = BlockUse(c)
  <2>1. \A c : BlockUse(c)' = {j \in Taken' : token_base(j) = c}
    BY DEF BlockUse, token_base
  <2> QED BY <1>1, <1>2, <2>1 DEF BlockUse
<1>7. \A c \in Majors' : majors'[c].inuse = Cardinality(BlockUse(c)')
  BY <1>1, <1>3, <1>4, <1>6
<1> QED BY <1>3, <1>4, <1>5, <1>7 DEF CountsAgree, FlatUse, BlockUse

\* A call that is refused counts nothing.
LEMMA RefuseCounts == ASSUME CountsAgree, UNCHANGED <<flat, majors>> PROVE CountsAgree'
BY DEF CountsAgree, Taken, Numbers, IsAllocated, FlatIsAllocated, contains, Covered, Majors,
       token_base

\* The number that alloc or alloc_minor finds is one of the range.
LEMMA FirstInRange ==
  IInv => /\ \A r \in First(flat.ranges) : r[1] \in Numbers
          /\ \A b \in Majors : \A r \in First(majors[b].ranges) : r[1] \in Numbers
<1> SUFFICES ASSUME IInv
             PROVE  /\ \A r \in First(flat.ranges) : r[1] \in Numbers
                    /\ \A b \in Majors : \A r \in First(majors[b].ranges) : r[1] \in Numbers
  OBVIOUS
<1>1. ASSUME NEW r \in First(flat.ranges) PROVE r[1] \in Numbers
  <2>1. r[1] \in Int /\ IdStart =< r[1] /\ r[1] < IdEnd
    BY FirstTaken, Constants DEF IInv
  <2> QED BY <2>1, Constants, SMT DEF Numbers
<1>2. ASSUME NEW b \in Majors, NEW r \in First(majors[b].ranges) PROVE r[1] \in Numbers
  <2> DEFINE a == majors[b]
             hi == b + Block
  <2>1. b \in Int /\ hi \in Int /\ Good(a, b, hi) /\ IdStart =< b /\ hi =< IdEnd
    BY Constants, SMT DEF IInv
  <2> HIDE DEF hi
  <2>2. r[1] \in Int /\ b =< r[1] /\ r[1] < hi
    BY <2>1, FirstTaken
  <2> QED BY <2>1, <2>2, Constants, SMT DEF Numbers
<1> QED BY <1>1, <1>2

\* Every operation keeps the counters right.
LEMMA CountsStep ==
  ASSUME IInv, CountsAgree, [Next]_vars
  PROVE  CountsAgree'
<1>0. flat.ranges \in Ranges
  BY DEF IInv, Good, Flats
<1>1. CASE UNCHANGED <<flat, majors>>
  BY <1>1, RefuseCounts
<1>2. CASE alloc /\ ~ UNCHANGED <<flat, majors>>
  <2>1. PICK r \in First(flat.ranges) : flat' = FlatTakes(flat, r, r[1]) /\ majors' = majors
    BY <1>2 DEF alloc, Refuse
  <2> QED BY <2>1, AllocDoes, FirstInRange, DoesCounts
<1>3. ASSUME NEW b \in 0 .. IdMax, alloc_minor(b), ~ UNCHANGED <<flat, majors>>
      PROVE  CountsAgree'
  <2>1. b \in Majors /\ \E r \in First(majors[b].ranges) :
          majors' = [majors EXCEPT ![b] = FlatTakes(majors[b], r, r[1])] /\ flat' = flat
    BY <1>3 DEF alloc_minor, Refuse
  <2> QED BY <2>1, MinorDoes, FirstInRange, DoesCounts
<1>4. ASSUME NEW i \in 0 .. IdMax, alloc_at(i) \/ dealloc(i), ~ UNCHANGED <<flat, majors>>
      PROVE  CountsAgree'
  <2>1. i \in Int
    BY SMT
  <2>2. i \in Numbers
    BY <1>4, <2>1, ContainsIs DEF alloc_at, dealloc, Refuse
  <2>3. Does(i, {}) \/ Does(i, {i})
    BY <1>4, <2>1, AllocAtDoes, DeallocDoes DEF alloc_at, dealloc, Refuse
  <2> QED BY <2>2, <2>3, DoesCounts
<1>5. CASE alloc_major /\ ~ UNCHANGED <<flat, majors>>
  <2>1. PICK r \in First(Roomy(flat.ranges)) : Carve(r, AlignedIn(r))
    BY <1>5 DEF alloc_major, Refuse
  <2>2. r \in flat.ranges /\ AlignedIn(r) + Block =< r[2]
    BY DEF First, Roomy
  <2>3. AlignedIn(r) \in Int /\ AlignedIn(r) % Block = 0 /\ r[1] =< AlignedIn(r)
    BY <1>0, <2>2, Aligned DEF Ranges
  <2> QED BY <2>1, <2>2, <2>3, CarveCounts
<1>6. ASSUME NEW b \in 0 .. IdMax, alloc_major_at(b), ~ UNCHANGED <<flat, majors>>
      PROVE  CountsAgree'
  <2>1. b % Block = 0 /\ \E r \in Carvable(b) : Carve(r, b)
    BY <1>6 DEF alloc_major_at, Refuse
  <2>2. PICK r \in Carvable(b) : Carve(r, b)
    BY <2>1
  <2>3. r \in flat.ranges /\ r[1] =< b /\ b + Block =< r[2]
    BY DEF Carvable, LastUpTo
  <2>4. b \in Int
    BY SMT
  <2> QED BY <2>1, <2>2, <2>3, <2>4, CarveCounts
<1>7. ASSUME NEW b \in 0 .. IdMax, dealloc_major(b), ~ UNCHANGED <<flat, majors>>
      PROVE  CountsAgree'
  <2>1. /\ b \in Majors /\ majors' = [c \in Majors \ {b} |-> majors[c]]
        /\ flat' = [flat EXCEPT !.ranges = Returned(flat.ranges, b, b + Block)]
    BY <1>7 DEF dealloc_major, Refuse
  <2> QED BY <2>1, DeallocMajorCounts
<1>8. CASE reset
  <2>1. flat.start = IdStart /\ flat.end = IdEnd
    BY DEF IInv, Good, Flats
  <2>2. flat' = FlatNew(IdStart, IdEnd) /\ Majors' = {}
    BY <1>8, <2>1 DEF reset, Majors
  <2>3. Taken' = {} /\ flat'.inuse = 0
    BY <2>2, FreshIsFree DEF FlatNew
  <2> QED BY <2>2, <2>3, FS_EmptySet DEF CountsAgree
<1> QED BY <1>1, <1>2, <1>3, <1>4, <1>5, <1>6, <1>7, <1>8 DEF Next, vars

\* Every counter is the number of its allocator's numbers in use, after any
\* sequence of the operations of IdAlloc: used() and is_empty() are exact.
THEOREM CountsTheorem == Spec => []CountsAgree
<1>1. Init => CountsAgree
  <2> SUFFICES ASSUME Init PROVE CountsAgree
    OBVIOUS
  <2>1. Majors = {}
    BY DEF Init, Majors
  <2>2. Taken = {} /\ flat.inuse = 0
    BY <2>1, FreshIsFree DEF Init, FlatNew
  <2> QED BY <2>1, <2>2, FS_EmptySet DEF CountsAgree
<1> QED BY <1>1, IInvInit, IInvStep, CountsStep, PTL DEF Spec

=============================================================================
