----------------------------- MODULE HeapProofs -----------------------------
(***************************************************************************)
(* Proofs about the kernel heap, for every page and header size, all cache *)
(* orders, layouts and numbers of objects, on top of the proofs about the  *)
(* buddy allocator.                                                        *)
(***************************************************************************)
EXTENDS Heap, BuddyProofs

\* The prover of the steps that name none.
USE ZenonT(30)

-----------------------------------------------------------------------------
(* Lists of pages *)

Names == {"partial_slubs", "full_slubs"}
CacheType == [partial_slubs : Seq(Nat), full_slubs : Seq(Nat)]

\* The pages of a list, and that none is on it twice.
Elems(list) == {list[i] : i \in DOMAIN list}
Distinct(list) == \A i, j \in DOMAIN list : list[i] = list[j] => i = j

\* SlubPageList::push puts a page in front.
LEMMA PushList ==
  ASSUME NEW list \in Seq(Nat), NEW p \in Nat
  PROVE  /\ <<p>> \o list \in Seq(Nat)
         /\ Elems(<<p>> \o list) = Elems(list) \cup {p}
         /\ Distinct(list) /\ p \notin Elems(list) => Distinct(<<p>> \o list)
<1> DEFINE new == <<p>> \o list
           n == Len(list)
<1>a. n \in Nat /\ DOMAIN list = 1 .. n
  BY SMT
<1>b. new \in Seq(Nat) /\ Len(new) = 1 + n
  BY SMT
<1>1. new[1] = p /\ \A i \in 1 .. n : new[i + 1] = list[i]
  BY SMT
<1>c. DOMAIN new = 1 .. (1 + n)
  BY <1>a, <1>b, SMT
<1> HIDE DEF new, n
<1>2. /\ 1 \in DOMAIN new
      /\ \A i \in DOMAIN list : i + 1 \in DOMAIN new /\ new[i + 1] = list[i]
      /\ \A i \in DOMAIN new : i = 1 \/ (i - 1 \in DOMAIN list /\ new[i] = list[i - 1])
  <2>1. \A i \in DOMAIN new : i = 1 \/ (i - 1 \in DOMAIN list /\ (i - 1) + 1 = i)
    BY <1>a, <1>c, SMT
  <2>2. 1 \in DOMAIN new /\ \A i \in DOMAIN list : i + 1 \in DOMAIN new
    BY <1>a, <1>c, SMT
  <2>3. \A i \in DOMAIN list : new[i + 1] = list[i]
    BY <1>a, <1>1
  <2> QED BY <2>1, <2>2, <2>3
<1>3. Elems(new) = Elems(list) \cup {p}
  <2>1. ASSUME NEW x \in Elems(new) PROVE x \in Elems(list) \cup {p}
    <3>1. PICK i \in DOMAIN new : x = new[i]
      BY <2>1 DEF Elems
    <3>2. i = 1 \/ (i - 1 \in DOMAIN list /\ new[i] = list[i - 1])
      BY <1>2
    <3> QED BY <1>1, <3>1, <3>2 DEF Elems
  <2>2. ASSUME NEW x \in Elems(list) PROVE x \in Elems(new)
    <3>1. PICK i \in DOMAIN list : x = list[i]
      BY DEF Elems
    <3> QED BY <1>2, <3>1 DEF Elems
  <2>3. p \in Elems(new)
    BY <1>1, <1>2 DEF Elems
  <2> QED BY <2>1, <2>2, <2>3
<1>4. ASSUME Distinct(list), p \notin Elems(list),
             NEW i \in DOMAIN new, NEW j \in DOMAIN new, new[i] = new[j]
      PROVE  i = j
  <2>1. i \in Int /\ j \in Int
    BY <1>a, <1>c, SMT
  <2>2. \A k \in DOMAIN list : list[k] # p
    BY <1>4 DEF Elems
  <2>3. i # 1 /\ j # 1 => i - 1 = j - 1
    <3> SUFFICES ASSUME i # 1, j # 1 PROVE i - 1 = j - 1
      OBVIOUS
    <3>1. i - 1 \in DOMAIN list /\ j - 1 \in DOMAIN list /\ list[i - 1] = list[j - 1]
      BY <1>2, <1>4
    <3> QED BY <1>4, <3>1 DEF Distinct
  <2>4. i = 1 <=> j = 1
    BY <1>1, <1>2, <1>4, <2>2
  <2> QED BY <2>1, <2>3, <2>4, SMT
<1> QED BY <1>b, <1>3, <1>4 DEF new, Distinct

\* SlubPageList::pop takes the first page off.
LEMMA PopList ==
  ASSUME NEW list \in Seq(Nat), list # <<>>
  PROVE  /\ Tail(list) \in Seq(Nat) /\ Head(list) \in Elems(list) /\ Head(list) \in Nat
         /\ Distinct(list) => /\ Elems(Tail(list)) = Elems(list) \ {Head(list)}
                              /\ Distinct(Tail(list))
<1> DEFINE new == Tail(list)
           n == Len(list)
<1>a. n \in Nat /\ n >= 1 /\ DOMAIN list = 1 .. n
  BY SMT
<1>b. new \in Seq(Nat) /\ Len(new) = n - 1
  BY SMT
<1>1. Head(list) = list[1] /\ Head(list) \in Nat
  BY SMT
<1>c. DOMAIN new = 1 .. (n - 1)
  BY <1>a, <1>b, SMT
<1>d. \A i \in 1 .. (n - 1) : new[i] = list[i + 1]
  BY SMT
<1> HIDE DEF new, n
<1>2. /\ 1 \in DOMAIN list
      /\ \A i \in DOMAIN new : i + 1 \in DOMAIN list /\ i + 1 # 1 /\ new[i] = list[i + 1]
      /\ \A i \in DOMAIN list : i = 1 \/ (i - 1 \in DOMAIN new /\ new[i - 1] = list[i])
  <2>1. \A i \in DOMAIN list : i = 1 \/ (i - 1 \in DOMAIN new /\ (i - 1) + 1 = i)
    BY <1>a, <1>c, SMT
  <2>2. 1 \in DOMAIN list /\ \A i \in DOMAIN new : i + 1 \in DOMAIN list /\ i + 1 # 1
    BY <1>a, <1>c, SMT
  <2>3. \A i \in DOMAIN new : new[i] = list[i + 1]
    BY <1>c, <1>d
  <2> QED BY <2>1, <2>2, <2>3
<1>3. Head(list) \in Elems(list)
  BY <1>1, <1>2 DEF Elems
<1>4. ASSUME Distinct(list)
      PROVE  Elems(new) = Elems(list) \ {Head(list)} /\ Distinct(new)
  <2>1. ASSUME NEW x \in Elems(new) PROVE x \in Elems(list) \ {Head(list)}
    <3>1. PICK i \in DOMAIN new : x = new[i]
      BY DEF Elems
    <3> QED BY <1>1, <1>2, <1>4, <3>1 DEF Elems, Distinct
  <2>2. ASSUME NEW x \in Elems(list) \ {Head(list)} PROVE x \in Elems(new)
    <3>1. PICK i \in DOMAIN list : x = list[i]
      BY DEF Elems
    <3>2. i - 1 \in DOMAIN new /\ new[i - 1] = list[i]
      BY <1>1, <1>2, <2>2, <3>1
    <3> QED BY <3>1, <3>2 DEF Elems
  <2>3. ASSUME NEW i \in DOMAIN new, NEW j \in DOMAIN new, new[i] = new[j] PROVE i = j
    <3>0. i + 1 \in DOMAIN list /\ j + 1 \in DOMAIN list /\ list[i + 1] = list[j + 1]
      BY <1>2, <2>3
    <3>1. i + 1 = j + 1
      BY <1>4, <3>0 DEF Distinct
    <3> QED BY <1>a, <1>c, <3>1, SMT
  <2> QED BY <2>1, <2>2, <2>3 DEF Distinct
<1> QED BY <1>b, <1>1, <1>3, <1>4 DEF new

\* The pages behind a place.
LEMMA RestOfList ==
  ASSUME NEW list, NEW k \in Int, NEW q \in Int, NEW n \in Int, q = k + 1, k =< n,
         \A i \in q .. n : list[i] \in Nat
  PROVE  /\ SubSeq(list, q, n) \in Seq(Nat) /\ Len(SubSeq(list, q, n)) = n - k
         /\ \A i \in 1 .. (n - k) : SubSeq(list, q, n)[i] = list[k + i]
<1>1. SubSeq(list, q, n) \in Seq(Nat)
  BY SMT
<1>2. Len(SubSeq(list, q, n)) = n - k
  BY SMT
<1>3. \A i \in 1 .. (n - k) : SubSeq(list, q, n)[i] = list[k + i]
  BY SMT
<1> QED BY <1>1, <1>2, <1>3

\* Two lists, one behind the other.
LEMMA JoinLists ==
  ASSUME NEW low \in Seq(Nat), NEW high \in Seq(Nat)
  PROVE  /\ low \o high \in Seq(Nat) /\ Len(low \o high) = Len(low) + Len(high)
         /\ \A i \in 1 .. Len(low) : (low \o high)[i] = low[i]
         /\ \A i \in 1 .. Len(high) : (low \o high)[Len(low) + i] = high[i]
<1>1. low \o high \in Seq(Nat)
  BY SMT
<1>2. Len(low \o high) = Len(low) + Len(high)
  BY SMT
<1>3. \A i \in 1 .. Len(low) : (low \o high)[i] = low[i]
  BY SMT
<1>4. \A i \in 1 .. Len(high) : (low \o high)[Len(low) + i] = high[i]
  BY SMT
<1> QED BY <1>1, <1>2, <1>3, <1>4

\* SlubPageList::remove takes off the page at a place.
LEMMA RemoveList ==
  ASSUME NEW list \in Seq(Nat), NEW k \in DOMAIN list
  PROVE  /\ remove(list, k) \in Seq(Nat)
         /\ Distinct(list) => /\ Elems(remove(list, k)) = Elems(list) \ {list[k]}
                              /\ Distinct(remove(list, k))
<1> DEFINE n == Len(list)
           low == SubSeq(list, 1, k - 1)
           q == k + 1
           high == SubSeq(list, q, n)
           new == low \o high
           From(i) == IF i < k THEN i ELSE i + 1
<1>1. n \in Nat /\ DOMAIN list = 1 .. n
  BY SMT
<1>a. k \in 1 .. n /\ k \in Nat
  BY <1>1, SMT
<1>2. /\ low \in Seq(Nat) /\ Len(low) = k - 1 /\ \A i \in 1 .. (k - 1) : low[i] = list[i]
  BY <1>1, <1>a, SMT
<1>3. /\ high \in Seq(Nat) /\ Len(high) = n - k
      /\ \A i \in 1 .. (n - k) : high[i] = list[k + i]
  <2>1. q \in Int /\ n \in Int
    BY <1>1, <1>a, SMT
  <2>2. \A i \in q .. n : list[i] \in Nat
    BY <1>1, <1>a, SMT
  <2>3. q = k + 1 /\ k =< n /\ k \in Int
    BY <1>1, <1>a, SMT
  <2> HIDE DEF q, n
  <2> QED BY <2>1, <2>2, <2>3, RestOfList
<1> HIDE DEF low, high
<1>b. /\ new \in Seq(Nat) /\ Len(new) = Len(low) + Len(high)
      /\ \A i \in 1 .. Len(low) : new[i] = low[i]
      /\ \A i \in 1 .. Len(high) : new[Len(low) + i] = high[i]
  BY <1>2, <1>3, JoinLists
<1> HIDE DEF new, n
<1>d. DOMAIN new = 1 .. (n - 1)
  <2>1. new \in Seq(Nat) /\ Len(new) = Len(low) + Len(high) /\ Len(low) = k - 1 /\ Len(high) = n - k
    BY <1>2, <1>3, <1>b
  <2>2. DOMAIN new = 1 .. Len(new)
    BY <2>1, SMT
  <2>3. Len(new) = n - 1
    BY <1>1, <1>a, <2>1, SMT
  <2> QED BY <2>2, <2>3
<1>5. \A i \in DOMAIN new : From(i) \in DOMAIN list /\ From(i) # k /\ new[i] = list[From(i)]
  <2> SUFFICES ASSUME NEW i \in DOMAIN new
               PROVE  From(i) \in DOMAIN list /\ From(i) # k /\ new[i] = list[From(i)]
    OBVIOUS
  <2>1. CASE i < k
    <3>1. i \in 1 .. (k - 1) /\ i \in DOMAIN list /\ i # k
      BY <1>1, <1>a, <1>d, <2>1, SMT
    <3> QED BY <1>2, <1>b, <2>1, <3>1
  <2>2. CASE ~ i < k
    <3> DEFINE j == i - (k - 1)
    <3>1. j \in 1 .. (n - k) /\ (k - 1) + j = i /\ k + j = i + 1
      BY <1>1, <1>a, <1>d, <2>2, SMT
    <3>2. i + 1 \in DOMAIN list /\ i + 1 # k
      BY <1>1, <1>a, <1>d, <2>2, SMT
    <3> HIDE DEF j
    <3>3. new[i] = high[j] /\ high[j] = list[i + 1]
      BY <1>2, <1>3, <1>b, <3>1
    <3> QED BY <2>2, <3>2, <3>3
  <2> QED BY <2>1, <2>2
<1>6. \A j \in DOMAIN list : j # k => \E i \in DOMAIN new : From(i) = j
  <2> SUFFICES ASSUME NEW j \in DOMAIN list, j # k PROVE \E i \in DOMAIN new : From(i) = j
    OBVIOUS
  <2>1. CASE j < k
    <3>1. j \in DOMAIN new
      BY <1>1, <1>a, <1>d, <2>1, SMT
    <3> QED BY <2>1, <3>1
  <2>2. CASE ~ j < k
    <3>1. j - 1 \in DOMAIN new /\ ~ (j - 1 < k) /\ (j - 1) + 1 = j
      BY <1>1, <1>a, <1>d, <2>2, SMT
    <3> QED BY <3>1
  <2> QED BY <2>1, <2>2
<1>7. \A i, j \in DOMAIN new : From(i) = From(j) => i = j
  BY <1>1, <1>a, <1>d, SMT
<1> HIDE DEF From
<1>8. ASSUME Distinct(list)
      PROVE  Elems(new) = Elems(list) \ {list[k]} /\ Distinct(new)
  <2>1. ASSUME NEW x \in Elems(new) PROVE x \in Elems(list) \ {list[k]}
    <3>1. PICK i \in DOMAIN new : x = new[i]
      BY DEF Elems
    <3> QED BY <1>5, <1>8, <3>1 DEF Elems, Distinct
  <2>2. ASSUME NEW x \in Elems(list) \ {list[k]} PROVE x \in Elems(new)
    <3>1. PICK j \in DOMAIN list : x = list[j] /\ j # k
      BY DEF Elems
    <3>2. PICK i \in DOMAIN new : From(i) = j
      BY <1>6, <3>1
    <3> QED BY <1>5, <3>1, <3>2 DEF Elems
  <2>3. ASSUME NEW i \in DOMAIN new, NEW j \in DOMAIN new, new[i] = new[j] PROVE i = j
    BY <1>5, <1>7, <1>8, <2>3 DEF Distinct
  <2> QED BY <2>1, <2>2, <2>3 DEF Distinct
<1>9. new = remove(list, k)
  BY DEF new, low, high, q, n, remove
<1> QED BY <1>b, <1>8, <1>9

-----------------------------------------------------------------------------
(* Sizes *)

\* The numbers of the sizes are natural numbers.
LEMMA Powers ==
  /\ PageUnits \in Nat /\ PageUnits >= 1 /\ HeaderUnits \in Nat
  /\ \A o \in 0 .. MaxPow : Pow2[o] \in Nat /\ Pow2[o] >= 1
  /\ CacheOrders \subseteq 0 .. MaxPow
<1>1. PageUnits \in Nat /\ PageUnits >= 1 /\ HeaderUnits \in Nat
  BY UnitAssumption, SMT
<1>2. \A o \in 0 .. MaxPow : Pow2[o] \in Nat /\ Pow2[o] >= 1
  BY PowerAssumption, SMT
<1>3. CacheOrders \subseteq 0 .. MaxPow
  BY PowerAssumption, UnitAssumption, SMT DEF CacheOrders
<1> QED BY <1>1, <1>2, <1>3

\* layout_order answers with an order, and one below SLUB_MAX_ORDER has caches.
LEMMA LayoutOrder ==
  ASSUME NEW size \in LayoutSizes
  PROVE  LET order == layout_order(size)
         IN  /\ order \in 0 .. MaxPow /\ order \in Int /\ SLUB_MAX_ORDER \in Int
             /\ Pow2[order] \in Nat /\ Pow2[order] >= 1
             /\ order < SLUB_MAX_ORDER => order \in CacheOrders
<1> DEFINE enough == {o \in SLUB_MIN_ORDER .. MaxPow : size =< Pow2[o]}
           order == Min(enough)
<1>1. enough \in SUBSET Nat /\ MaxPow \in enough
  BY PowerAssumption, UnitAssumption, LayoutAssumption, SMT
<1> HIDE DEF enough
<1>2. order \in enough
  BY <1>1, MinIsMember
<1> HIDE DEF order
<1>3. order \in SLUB_MIN_ORDER .. MaxPow
  BY <1>2 DEF enough
<1>4. order \in 0 .. MaxPow /\ order \in Int /\ SLUB_MAX_ORDER \in Int
  BY <1>3, PowerAssumption, UnitAssumption, SMT
<1>5. order < SLUB_MAX_ORDER => order \in CacheOrders
  BY <1>3, PowerAssumption, UnitAssumption, SMT DEF CacheOrders
<1>6. order = layout_order(size)
  BY DEF order, enough, layout_order
<1> QED BY <1>4, <1>5, <1>6, Powers

\* Rounding up to a multiple of a unit.
LEMMA Ceiling ==
  ASSUME NEW n \in Nat, NEW unit \in Nat, unit >= 1
  PROVE  LET q == (n + unit - 1) \div unit
         IN  /\ q \in Nat /\ CeilTo(n, unit) = q * unit /\ CeilTo(n, unit) \in Nat
             /\ n =< CeilTo(n, unit) /\ CeilTo(n, unit) < n + unit
<1> DEFINE m == n + unit - 1
           q == m \div unit
           r == m % unit
<1>1. m \in Nat /\ m = (n + unit) - 1
  BY SMT
<1> HIDE DEF m
<1>2. q \in Nat /\ r \in Nat /\ r < unit /\ m = unit * q + r
  BY <1>1, SMT
<1> HIDE DEF q, r
<1>3. q * unit = unit * q /\ q * unit \in Nat
  BY <1>2, SMT
<1>4. n =< q * unit /\ q * unit < n + unit
  <2> DEFINE c == unit * q
  <2>1. c \in Nat
    BY <1>3
  <2> HIDE DEF c
  <2>2. n =< c /\ c < n + unit
    BY <1>1, <1>2, <2>1, SMT DEF c
  <2> QED BY <1>3, <2>2 DEF c
<1>5. CeilTo(n, unit) = q * unit
  BY DEF CeilTo, q, m
<1> QED BY <1>2, <1>3, <1>4, <1>5 DEF q, m

\* Fewer of a size take no more room.
LEMMA TimesGrows ==
  ASSUME NEW a \in Int, NEW b \in Int, NEW n \in Nat, a =< b
  PROVE  a * n =< b * n /\ a * n \in Int /\ b * n \in Int
BY SMT

\* A slub page has room for its header and two objects, and there are blocks
\* as large as it is (SlubPage::new).
LEMMA PageRoom ==
  ASSUME NEW o \in CacheOrders
  PROVE  LET n == Pow2[o]
         IN  /\ n \in Nat /\ n >= 1
             /\ start_offset(n) \in Nat /\ HeaderUnits =< start_offset(n)
             /\ page_size(n) \in Nat /\ start_offset(n) + 2 * n =< page_size(n)
             /\ page_size(n) >= 1 /\ page_size(n) =< OrderSize[Top] * PageUnits
<1> DEFINE n == Pow2[o]
           s == start_offset(n)
           least == Min(LargeEnough(n))
<1>1. n \in Nat /\ n >= 1
  BY Powers
<1>2. s \in Nat /\ HeaderUnits =< s
  BY <1>1, Powers, Ceiling DEF start_offset
<1>3. LargeEnough(n) \in SUBSET Nat /\ LargeEnough(n) # {}
  <2>1. \A k \in 0 .. MaxPow : PageUnits * Pow2[k] \in Nat
    BY Powers, SMT
  <2> QED BY <2>1, SlubAssumption DEF LargeEnough
<1>4. least \in Nat
  <2> HIDE DEF n
  <2> QED BY <1>3, MinIsMember
<1> HIDE DEF least
<1>5. 2 * least \in Nat
  BY <1>4, SMT
<1>6. page_size(n) \in Nat
  <2>1. page_size(n) = least \/ page_size(n) = 2 * least
    BY DEF page_size, least
  <2> QED BY <1>4, <1>5, <2>1
<1>7. s + 2 * n =< page_size(n) /\ page_size(n) =< OrderSize[Top] * PageUnits
  BY SlubAssumption
<1> HIDE DEF n, s
<1>8. page_size(n) >= 1
  BY <1>1, <1>2, <1>6, <1>7, SMT
<1> QED BY <1>1, <1>2, <1>6, <1>7, <1>8 DEF n, s

\* A request for units is a request for pages, one or more, and what arrives
\* is as large as a block.
LEMMA BlockSize ==
  ASSUME NEW units \in Nat, units >= 1
  PROVE  /\ PagesFor(units) \in Nat \ {0}
         /\ size_to_order(PagesFor(units)) \in Orders
         /\ BlockFor(units) \in Nat /\ BlockFor(units) >= 1
         /\ PagesFor(units) = (units + PageUnits - 1) \div PageUnits
         /\ units =< PagesFor(units) * PageUnits
<1> DEFINE q == (units + PageUnits - 1) \div PageUnits
<1>1. q \in Nat /\ CeilTo(units, PageUnits) = q * PageUnits /\ units =< q * PageUnits
  BY Powers, Ceiling
<1> HIDE DEF q
<1>2. (q * PageUnits) \div PageUnits = q
  BY <1>1, Powers, Quotient
<1>3. PagesFor(units) = q
  BY <1>1, <1>2 DEF PagesFor
<1>4. q # 0
  BY <1>1, Powers, SMT
<1>5. size_to_order(q) \in Orders
  BY <1>1, SizeToOrderType
<1> QED BY <1>1, <1>3, <1>4, <1>5, OrdersAndSizes DEF q, BlockFor

\* A block is as large as the request, unless that is above the largest block.
LEMMA BlockHolds ==
  ASSUME NEW units \in Nat, units >= 1, units =< OrderSize[Top] * PageUnits
  PROVE  units =< BlockFor(units) * PageUnits
<1> DEFINE q == PagesFor(units)
           t == OrderSize[Top]
           enough == {o \in Orders : q =< OrderSize[o]}
<1>1. /\ q \in Nat /\ units =< q * PageUnits
      /\ q = (units + PageUnits - 1) \div PageUnits
      /\ t \in Nat /\ PageUnits \in Nat /\ PageUnits >= 1
  BY BlockSize, Powers, OrdersAndSizes
<1>2. q * PageUnits < units + PageUnits
  BY <1>1, Powers, Ceiling
<1> HIDE DEF q, t
<1>3. q =< t
  <2> SUFFICES ASSUME t + 1 =< q PROVE FALSE
    BY <1>1, SMT
  <2>1. (t + 1) * PageUnits =< q * PageUnits
    BY <1>1, TimesGrows, SMT
  <2>2. (t + 1) * PageUnits = t * PageUnits + PageUnits
    BY <1>1, SMT
  <2>3. t * PageUnits \in Nat /\ q * PageUnits \in Nat /\ units =< t * PageUnits
    BY <1>1, SMT DEF t
  <2> QED BY <1>1, <1>2, <2>1, <2>2, <2>3, SMT
<1>4. enough \in SUBSET Nat /\ Top \in enough
  BY <1>3, OrdersAndSizes DEF t
<1>5. Min(enough) \in enough
  <2> HIDE DEF enough
  <2> QED BY <1>4, MinIsMember
<1>6. q =< BlockFor(units) /\ BlockFor(units) \in Nat
  BY <1>4, <1>5, BlockSize DEF BlockFor, size_to_order, q
<1>7. q * PageUnits =< BlockFor(units) * PageUnits
  BY <1>1, <1>6, TimesGrows, SMT
<1>8. q * PageUnits \in Nat /\ BlockFor(units) * PageUnits \in Nat
  BY <1>1, <1>6, SMT
<1> QED BY <1>1, <1>7, <1>8, SMT

\* The objects of a slub page lie behind its header and in the page, apart from
\* each other, and there are two of them or more (SlubPage::new).
LEMMA CarvedRoom ==
  ASSUME NEW o \in CacheOrders, NEW p \in Nat
  PROVE  LET n == Pow2[o]
             C == Carved(p, n)
         IN  /\ IsFiniteSet(C) /\ C \subseteq Nat
             /\ \A c \in C : /\ p * PageUnits + start_offset(n) =< c
                             /\ c + n =< p * PageUnits + page_size(n)
             /\ \A c, d \in C : c # d => c + n =< d \/ d + n =< c
             /\ \A c : C \ {c} # {}
<1> DEFINE n == Pow2[o]
           s == start_offset(n)
           z == page_size(n)
           b == p * PageUnits + s
           m == (z - s) \div n
           C == Carved(p, n)
<1>1. n \in Nat /\ n >= 1 /\ s \in Nat /\ z \in Nat /\ s + 2 * n =< z /\ z >= 1
  BY PageRoom
<1>2. p * PageUnits \in Nat
  BY Powers, SMT
<1>a. C = {p * PageUnits + s + k * n : k \in 0 .. (m - 1)}
  BY DEF Carved
<1> HIDE DEF n, s, z, C
<1>3. b \in Nat
  BY <1>1, <1>2, SMT
<1>4. m \in Nat /\ m >= 2 /\ m * n =< z - s
  <2> DEFINE r == z - s
  <2>1. r \in Nat /\ 2 * n =< r
    BY <1>1, SMT
  <2> HIDE DEF r
  <2> DEFINE w == r \div n
  <2>2. w \in Nat /\ r % n \in Nat /\ r % n < n /\ r = n * w + (r % n)
    BY <1>1, <2>1, SMT
  <2> HIDE DEF w
  <2>3. w * n = n * w /\ w * n \in Nat
    BY <1>1, <2>2, SMT
  <2>4. w * n =< r /\ r < w * n + n
    <3> DEFINE c == n * w
               d == r % n
    <3>1. c \in Nat /\ d \in Nat /\ d < n /\ r = c + d
      BY <2>2, <2>3
    <3> HIDE DEF c, d
    <3>2. c =< r /\ r < c + n
      BY <1>1, <3>1, SMT
    <3> QED BY <2>3, <3>2 DEF c
  <2>5. w >= 2
    <3> SUFFICES ASSUME w =< 1 PROVE FALSE
      BY <2>2, SMT
    <3>1. w * n =< 1 * n
      BY <1>1, <2>2, TimesGrows, SMT
    <3> QED BY <1>1, <2>1, <2>3, <2>4, <3>1, SMT
  <2> QED BY <2>2, <2>4, <2>5 DEF w, r
<1>5. C = {b + k * n : k \in 0 .. (m - 1)}
  BY <1>a
<1> HIDE DEF b, m
<1>6. \A k \in 0 .. (m - 1) : k \in Nat /\ k * n \in Nat /\ b + k * n \in Nat /\ (k + 1) * n =< m * n /\ (k + 1) * n = k * n + n
  <2> SUFFICES ASSUME NEW k \in 0 .. (m - 1)
               PROVE  k \in Nat /\ k * n \in Nat /\ b + k * n \in Nat /\ (k + 1) * n =< m * n /\ (k + 1) * n = k * n + n
    OBVIOUS
  <2>1. k \in Nat /\ k + 1 \in Int /\ k + 1 =< m /\ m \in Int
    BY <1>4, SMT
  <2>2. (k + 1) * n =< m * n
    BY <1>1, <2>1, TimesGrows
  <2>3. k * n \in Nat /\ (k + 1) * n = k * n + n
    BY <1>1, <2>1, SMT
  <2>4. b + k * n \in Nat
    <3> DEFINE c == k * n
    <3> HIDE DEF c
    <3>1. c \in Nat
      BY <2>3 DEF c
    <3>2. b + c \in Nat
      BY <1>3, <3>1, SMT
    <3> QED BY <3>2 DEF c
  <2> QED BY <2>1, <2>2, <2>3, <2>4
<1>7. ASSUME NEW c \in C
      PROVE  c \in Nat /\ b =< c /\ c + n =< p * PageUnits + z
  <2>1. PICK k \in 0 .. (m - 1) : c = b + k * n
    BY <1>5
  <2> DEFINE e == k * n
             f == m * n
             g == p * PageUnits
  <2>2. e \in Nat /\ e + n =< f /\ f =< z - s /\ b = g + s /\ g \in Nat /\ c = b + e
    BY <1>2, <1>4, <1>6, <2>1 DEF b
  <2>3. f \in Int
    BY <1>1, <1>4, SMT
  <2> HIDE DEF e, f, g
  <2>4. c \in Nat /\ b =< c /\ c + n =< g + z
    BY <1>1, <2>2, <2>3, SMT
  <2> QED BY <2>4 DEF g
<1>8. ASSUME NEW c \in C, NEW d \in C, c # d
      PROVE  c + n =< d \/ d + n =< c
  <2>1. PICK k \in 0 .. (m - 1) : c = b + k * n
    BY <1>5
  <2>2. PICK l \in 0 .. (m - 1) : d = b + l * n
    BY <1>5
  <2>3. k # l /\ k \in Nat /\ l \in Nat
    BY <1>6, <1>8, <2>1, <2>2
  <2>4. k + 1 =< l \/ l + 1 =< k
    BY <2>3, SMT
  <2>5. k + 1 =< l => (k + 1) * n =< l * n
    BY <1>1, <2>3, TimesGrows, SMT
  <2>6. l + 1 =< k => (l + 1) * n =< k * n
    BY <1>1, <2>3, TimesGrows, SMT
  <2> DEFINE e == k * n
             f == l * n
  <2>7. /\ e \in Nat /\ f \in Nat /\ c = b + e /\ d = b + f
        /\ e + n =< f \/ f + n =< e
    BY <1>6, <2>1, <2>2, <2>4, <2>5, <2>6
  <2> HIDE DEF e, f
  <2> QED BY <1>1, <1>3, <2>7, SMT
<1>9. \A c : C \ {c} # {}
  <2>1. 0 \in 0 .. (m - 1) /\ 1 \in 0 .. (m - 1)
    BY <1>4, SMT
  <2>2. b + 0 * n # b + 1 * n
    BY <1>1, <1>3, SMT
  <2>3. b + 0 * n \in C /\ b + 1 * n \in C
    BY <1>5, <2>1
  <2> DEFINE x == b + 0 * n
             y == b + 1 * n
  <2> HIDE DEF x, y
  <2>4. x # y /\ x \in C /\ y \in C
    BY <2>2, <2>3 DEF x, y
  <2>5. ASSUME NEW c PROVE C \ {c} # {}
    <3>1. x # c \/ y # c
      BY <2>4
    <3> QED BY <2>4, <3>1
  <2> QED BY <2>5
<1>10. IsFiniteSet(C)
  <2> DEFINE top == p * PageUnits + z
  <2>1. top \in Nat
    BY <1>1, <1>2, SMT
  <2>2. \A c \in C : c =< top
    BY <1>1, <1>7, <2>1, SMT
  <2> HIDE DEF top
  <2>3. C \in SUBSET Nat
    BY <1>7
  <2> QED BY <2>1, <2>2, <2>3, FS_BoundedSetOfNaturals
<1> QED BY <1>7, <1>8, <1>9, <1>10 DEF n, s, z, b, C

-----------------------------------------------------------------------------
(* The inductive invariant *)

\* The pages of a list of a cache, and all pages of an order.
Nodes(t, o, l) == Elems(caches[t][o][l])
Home(o) == {p \in DOMAIN slub : \E t \in Tiers, l \in Names : p \in Nodes(t, o, l)}

Headers == [page_size : Nat, inuse : Nat, objects : Nat, free_list : SUBSET Nat]

\* The caches, the headers and the objects have their types.
HeapType ==
  /\ caches \in [Tiers -> [CacheOrders -> CacheType]]
  /\ slub \in [DOMAIN slub -> Headers]
  /\ objects \subseteq [ptr : Nat, size : LayoutSizes]

\* The header h of a page p of an order counts and lists its objects.
HeaderOK(p, o, h) ==
  /\ h.page_size = page_size(Pow2[o])
  /\ h.objects = Cardinality(Carved(p, Pow2[o]))
  /\ h.free_list \subseteq Carved(p, Pow2[o]) /\ h.free_list # Carved(p, Pow2[o])
  /\ h.inuse = Cardinality(Carved(p, Pow2[o]) \ h.free_list)

\* No list has a page twice; and every page is on a list of one cache, on the
\* partial one if it has a free object.
ListInv ==
  /\ \A t \in Tiers, o \in CacheOrders, l \in Names : Distinct(caches[t][o][l])
  /\ \A t \in Tiers, o \in CacheOrders, l \in Names : \A p \in Nodes(t, o, l) :
       /\ p \in DOMAIN slub
       /\ HeaderOK(p, o, slub[p])
       /\ l = "partial_slubs" <=> slub[p].free_list # {}
  /\ \A t, u \in Tiers, o, q \in CacheOrders, l, m \in Names :
       \A p \in Nodes(t, o, l) : p \in Nodes(u, q, m) => t = u /\ o = q
  /\ \A p \in DOMAIN slub : \E o \in CacheOrders : p \in Home(o)

\* The Frame that a slub page of a size is made of.
PageFrame(p, units) == [start |-> p, size |-> BlockFor(units)]

\* A slub page is in the block of a frame.
FrameInv == \A p \in DOMAIN slub : PageFrame(p, slub[p].page_size) \in frames

\* An object is in use on a page of its order, or is a block of its own.
InPage(x) ==
  \E p \in Home(layout_order(x.size)) :
    x.ptr \in Carved(p, Pow2[layout_order(x.size)]) \ slub[p].free_list
InBlock(x) ==
  \E f \in frames : /\ x.ptr = f.start * PageUnits /\ f.start \notin DOMAIN slub
                    /\ f.size = BlockFor(Pow2[layout_order(x.size)])
ObjInv ==
  /\ \A x \in objects : /\ layout_order(x.size) < SLUB_MAX_ORDER => InPage(x)
                        /\ layout_order(x.size) >= SLUB_MAX_ORDER => InBlock(x)
  /\ \A x, y \in objects : x.ptr = y.ptr => x = y

\* An operation that waits for a block is the only one that runs, and the
\* block that arrives is of the size it needs and nobody's.
CallInv ==
  call # NoCall =>
    /\ call.tier \in Tiers /\ call.size \in LayoutSizes
    /\ pc \in {"alloc", "split", "idle"} /\ segs = {} /\ need = 0
    /\ pc # "idle" => /\ frames \subseteq call.had
                      /\ want = size_to_order(PagesFor(UnitsFor(layout_order(call.size))))
    /\ \A f \in frames \ call.had : /\ f.size = BlockFor(UnitsFor(layout_order(call.size)))
                                    /\ f \notin HeapBlocks

HInv == CInv /\ SegInv /\ HeapType /\ ListInv /\ FrameInv /\ ObjInv /\ CallInv

-----------------------------------------------------------------------------
(* Blocks, pages and objects *)

\* A block ends where its size says.
LEMMA BlockEnd ==
  ASSUME NEW s \in Nat, NEW n \in Nat
  PROVE  /\ s * PageUnits \in Nat /\ n * PageUnits \in Nat
         /\ (s + n) * PageUnits = s * PageUnits + n * PageUnits
<1>1. PageUnits \in Nat
  BY Powers
<1> QED BY <1>1, SMT

\* A unit is in one block only.
LEMMA OneBlock ==
  ASSUME IInv, NEW f \in frames, NEW g \in frames,
         NEW u \in BlockUnits(f), u \in BlockUnits(g)
  PROVE  f = g
<1> SUFFICES ASSUME f # g PROVE FALSE
  OBVIOUS
<1>1. /\ f.start \in Nat /\ f.size \in Nat /\ g.start \in Nat /\ g.size \in Nat
      /\ PageUnits \in Nat
  BY Powers DEF IInv, TypeOK, FrameValues
<1>2. Apart(f.start, f.size, g.start, g.size)
  BY DEF IInv, NoOverlap, FramesApart
<1> DEFINE fs == f.start * PageUnits
           fe == (f.start + f.size) * PageUnits
           gs == g.start * PageUnits
           ge == (g.start + g.size) * PageUnits
<1>3. fs \in Int /\ fe \in Int /\ gs \in Int /\ ge \in Int
  BY <1>1, SMT
<1>4. f.start + f.size =< g.start => fe =< gs
  BY <1>1, TimesGrows, SMT
<1>5. g.start + g.size =< f.start => ge =< fs
  BY <1>1, TimesGrows, SMT
<1>6. fe =< gs \/ ge =< fs
  BY <1>2, <1>4, <1>5 DEF Apart
<1>7. u \in fs .. (fe - 1) /\ u \in gs .. (ge - 1)
  BY DEF BlockUnits
<1> HIDE DEF fs, fe, gs, ge
<1> QED BY <1>3, <1>6, <1>7, SMT

\* A page lies in the block of its frame.
LEMMA PageInBlock ==
  ASSUME NEW o \in CacheOrders, NEW p \in Nat
  PROVE  LET z == page_size(Pow2[o])
         IN  (p * PageUnits) .. (p * PageUnits + z - 1) \subseteq BlockUnits(PageFrame(p, z))
<1> DEFINE z == page_size(Pow2[o])
           b == BlockFor(z)
           f == PageFrame(p, z)
<1>1. f.start = p /\ f.size = b
  BY DEF PageFrame
<1>2. z \in Nat /\ z >= 1 /\ z =< OrderSize[Top] * PageUnits
  BY PageRoom
<1> HIDE DEF z
<1>3. z =< b * PageUnits /\ b \in Nat
  BY <1>2, BlockHolds, BlockSize
<1> HIDE DEF b, f
<1> DEFINE s == p * PageUnits
           e == (p + b) * PageUnits
           w == b * PageUnits
<1>4. s \in Nat /\ e = s + w /\ w \in Nat /\ z =< w
  BY <1>3, BlockEnd
<1>5. BlockUnits(f) = s .. (e - 1)
  BY <1>1 DEF BlockUnits
<1> HIDE DEF s, e, w
<1>6. s .. (s + z - 1) \subseteq s .. (e - 1)
  BY <1>2, <1>4, SMT
<1> QED BY <1>5, <1>6 DEF f, z, s

\* A page of an order: its header, and the block that it lies in.
LEMMA PageIn ==
  ASSUME IInv, ListInv, FrameInv, NEW o \in CacheOrders, NEW p \in Home(o)
  PROVE  LET z == page_size(Pow2[o])
         IN  /\ p \in Nat /\ p \in DOMAIN slub /\ HeaderOK(p, o, slub[p])
             /\ PageFrame(p, z) \in frames
             /\ (p * PageUnits) .. (p * PageUnits + z - 1) \subseteq BlockUnits(PageFrame(p, z))
<1> DEFINE f == PageFrame(p, page_size(Pow2[o]))
<1>1. p \in DOMAIN slub /\ HeaderOK(p, o, slub[p])
  BY DEF Home, ListInv
<1>2. f \in frames /\ f.start = p
  BY <1>1 DEF HeaderOK, FrameInv, PageFrame
<1>3. p \in Nat
  BY <1>2 DEF IInv, TypeOK, FrameValues
<1> QED BY <1>1, <1>2, <1>3, PageInBlock

\* An object lies in its page.
LEMMA CarvedIn ==
  ASSUME NEW o \in CacheOrders, NEW p \in Nat, NEW c \in Carved(p, Pow2[o])
  PROVE  /\ c \in (p * PageUnits) .. (p * PageUnits + page_size(Pow2[o]) - 1)
         /\ \A u \in c .. (c + Pow2[o] - 1) :
              u \in (p * PageUnits) .. (p * PageUnits + page_size(Pow2[o]) - 1)
<1> DEFINE n == Pow2[o]
           s == start_offset(n)
           z == page_size(n)
           b == p * PageUnits
<1>1. n \in Nat /\ n >= 1 /\ s \in Nat /\ z \in Nat
  BY PageRoom
<1>2. c \in Nat /\ b + s =< c /\ c + n =< b + z
  BY CarvedRoom
<1>3. b \in Nat
  BY Powers, SMT
<1> HIDE DEF n, s, z, b
<1>4. c \in b .. (b + z - 1) /\ \A u \in c .. (c + n - 1) : u \in b .. (b + z - 1)
  BY <1>1, <1>2, <1>3, SMT
<1> QED BY <1>4 DEF n, z, b

\* The page that an object is on is the only one whose range it is in.
LEMMA OnePage ==
  ASSUME IInv, ListInv, FrameInv,
         NEW o \in CacheOrders, NEW p \in Home(o), NEW r \in CacheOrders, NEW q \in Home(r),
         NEW u \in (p * PageUnits) .. (p * PageUnits + page_size(Pow2[o]) - 1),
         u \in (q * PageUnits) .. (q * PageUnits + page_size(Pow2[r]) - 1)
  PROVE  p = q /\ o = r
<1>1. PageFrame(p, page_size(Pow2[o])) = PageFrame(q, page_size(Pow2[r]))
  <2>1. /\ PageFrame(p, page_size(Pow2[o])) \in frames
        /\ u \in BlockUnits(PageFrame(p, page_size(Pow2[o])))
    BY PageIn
  <2>2. /\ PageFrame(q, page_size(Pow2[r])) \in frames
        /\ u \in BlockUnits(PageFrame(q, page_size(Pow2[r])))
    BY PageIn
  <2> QED BY <2>1, <2>2, OneBlock
<1>2. p = q
  BY <1>1 DEF PageFrame
<1>3. PICK t \in Tiers, l \in Names : p \in Nodes(t, o, l)
  BY DEF Home
<1>4. PICK v \in Tiers, m \in Names : q \in Nodes(v, r, m)
  BY DEF Home
<1>5. o = r
  BY <1>2, <1>3, <1>4 DEF ListInv
<1> QED BY <1>2, <1>5

\* A block that is an object of its own holds no object of a page.
LEMMA PageOrBlock ==
  ASSUME IInv, ListInv, FrameInv, NEW o \in CacheOrders, NEW p \in Home(o),
         NEW f \in frames, f.start \notin DOMAIN slub,
         NEW u \in (p * PageUnits) .. (p * PageUnits + page_size(Pow2[o]) - 1)
  PROVE  u \notin BlockUnits(f)
<1> SUFFICES ASSUME u \in BlockUnits(f) PROVE FALSE
  OBVIOUS
<1> DEFINE g == PageFrame(p, page_size(Pow2[o]))
<1>1. g \in frames /\ u \in BlockUnits(g) /\ p \in DOMAIN slub
  BY PageIn
<1>2. g.start = p
  BY DEF PageFrame
<1>3. f = g
  BY <1>1, OneBlock
<1> QED BY <1>1, <1>2, <1>3

\* A block has its first unit.
LEMMA FirstUnit ==
  ASSUME IInv, NEW f \in frames
  PROVE  f.start * PageUnits \in BlockUnits(f) /\ f.start * PageUnits \in Nat
<1>1. /\ f.start \in Nat /\ f.size \in Nat /\ f.size >= 1
      /\ PageUnits \in Nat /\ PageUnits >= 1
  BY Powers, SMT DEF IInv, TypeOK, FrameValues
<1> DEFINE s == f.start * PageUnits
           w == f.size * PageUnits
           e == (f.start + f.size) * PageUnits
<1>2. s \in Nat /\ w \in Nat /\ e = s + w
  BY <1>1, BlockEnd
<1>3. w >= 1
  BY <1>1, SMT
<1>4. BlockUnits(f) = s .. (e - 1)
  BY DEF BlockUnits
<1> HIDE DEF s, w, e
<1>5. s \in s .. (e - 1)
  BY <1>2, <1>3, SMT
<1> QED BY <1>2, <1>4, <1>5 DEF s

-----------------------------------------------------------------------------
(* What follows from the invariant *)

\* The counter of a header.
LEMMA HeaderCounts ==
  ASSUME NEW o \in CacheOrders, NEW p \in Nat, NEW h, HeaderOK(p, o, h)
  PROVE  /\ h.inuse \in Nat /\ h.inuse > 0
         /\ h.inuse = h.objects - Cardinality(h.free_list)
<1> DEFINE C == Carved(p, Pow2[o])
           F == h.free_list
<1>1. IsFiniteSet(C)
  BY CarvedRoom
<1>2. F \subseteq C /\ F # C /\ h.objects = Cardinality(C) /\ h.inuse = Cardinality(C \ F)
  BY DEF HeaderOK
<1> HIDE DEF C, F
<1>3. C \cap F = F /\ C \ F # {}
  BY <1>2
<1>4. IsFiniteSet(C \ F) /\ Cardinality(C \ F) = Cardinality(C) - Cardinality(F)
  BY <1>1, <1>3, FS_Difference
<1>5. Cardinality(C \ F) \in Nat /\ Cardinality(C \ F) # 0
  BY <1>3, <1>4, FS_CardinalityType, FS_EmptySet
<1>6. Cardinality(C \ F) > 0
  BY <1>5, SMT
<1> QED BY <1>2, <1>4, <1>5, <1>6 DEF F

\* PagesListed is a part of the invariant, in other words.
LEMMA InvPagesListed == HInv => PagesListed
<1> SUFFICES ASSUME HInv PROVE PagesListed
  OBVIOUS
<1>0. IInv /\ ListInv /\ FrameInv
  BY DEF HInv, CInv
<1>1. ASSUME NEW x \in ListNames
      PROVE  /\ x[1] \in Tiers /\ x[2] \in CacheOrders /\ x[3] \in Names
             /\ \A i \in DOMAIN SlubList(x) : SlubList(x)[i] \in Nodes(x[1], x[2], x[3])
             /\ x = <<x[1], x[2], x[3]>>
  <2>1. x[1] \in Tiers /\ x[2] \in CacheOrders /\ x[3] \in Names /\ x = <<x[1], x[2], x[3]>>
    BY SMT DEF ListNames, Names
  <2> QED BY <2>1 DEF SlubList, Nodes, Elems
<1>2. ASSUME NEW x \in ListNames, NEW y \in ListNames,
             NEW i \in DOMAIN SlubList(x), NEW j \in DOMAIN SlubList(y),
             SlubList(x)[i] = SlubList(y)[j]
      PROVE  x = y /\ i = j
  <2> DEFINE p == SlubList(x)[i]
             t == x[1]
             o == x[2]
             l == x[3]
             u == y[1]
             q == y[2]
             m == y[3]
  <2>1. /\ p \in Nodes(t, o, l) /\ t \in Tiers /\ o \in CacheOrders /\ l \in Names
        /\ p \in Nodes(u, q, m) /\ u \in Tiers /\ q \in CacheOrders /\ m \in Names
    BY <1>1, <1>2
  <2> HIDE DEF p, t, o, l, u, q, m
  <2>2. t = u /\ o = q
    BY <1>0, <2>1 DEF ListInv
  <2>3. (l = "partial_slubs" <=> slub[p].free_list # {})
    BY <1>0, <2>1 DEF ListInv
  <2>4. (m = "partial_slubs" <=> slub[p].free_list # {})
    BY <1>0, <2>1 DEF ListInv
  <2>5. l = m
    <3>1. l = "partial_slubs" \/ l = "full_slubs"
      BY <2>1 DEF Names
    <3>2. m = "partial_slubs" \/ m = "full_slubs"
      BY <2>1 DEF Names
    <3>3. l = "partial_slubs" <=> m = "partial_slubs"
      BY <2>3, <2>4
    <3> QED BY <3>1, <3>2, <3>3, SMT
  <2>6. x = y
    BY <1>1, <2>2, <2>5 DEF t, o, l, u, q, m
  <2>7. Distinct(SlubList(x))
    BY <1>0, <1>1 DEF ListInv, SlubList
  <2> QED BY <1>2, <2>6, <2>7 DEF Distinct
<1>3. ASSUME NEW x \in ListNames, NEW i \in DOMAIN SlubList(x)
      PROVE  SlubList(x)[i] \in DOMAIN slub
  BY <1>0, <1>1, <1>3 DEF ListInv
<1>4. ASSUME NEW p \in DOMAIN slub
      PROVE  /\ \E x \in ListNames : \E i \in DOMAIN SlubList(x) :
                  SlubList(x)[i] = p /\ (x[3] = "partial_slubs" <=> slub[p].free_list # {})
             /\ slub[p].inuse = slub[p].objects - Cardinality(slub[p].free_list)
             /\ slub[p].inuse > 0
             /\ [start |-> p, size |-> BlockFor(slub[p].page_size)] \in frames
  <2>1. PICK o \in CacheOrders : p \in Home(o)
    BY <1>0 DEF ListInv
  <2>2. PICK t \in Tiers, l \in Names : p \in Nodes(t, o, l)
    BY <2>1 DEF Home
  <2>3. PICK i \in DOMAIN caches[t][o][l] : caches[t][o][l][i] = p
    BY <2>2 DEF Nodes, Elems
  <2>4. l = "partial_slubs" <=> slub[p].free_list # {}
    BY <1>0, <2>2 DEF ListInv
  <2>5. /\ <<t, o, l>> \in ListNames /\ SlubList(<<t, o, l>>) = caches[t][o][l]
        /\ <<t, o, l>>[3] = l
    BY DEF ListNames, SlubList, Names
  <2>6. \E x \in ListNames : \E j \in DOMAIN SlubList(x) :
          SlubList(x)[j] = p /\ (x[3] = "partial_slubs" <=> slub[p].free_list # {})
    BY <2>3, <2>4, <2>5
  <2>7. p \in Nat /\ HeaderOK(p, o, slub[p])
    BY <1>0, <2>1, PageIn
  <2> QED BY <1>0, <2>6, <2>7, HeaderCounts DEF FrameInv, PageFrame
<1> QED BY <1>2, <1>3, <1>4 DEF PagesListed

\* The block that an object lies in, and the page if it is on one.
LEMMA ObjectIn ==
  ASSUME HInv, NEW x \in Fitting
  PROVE  \/ \E p \in Home(layout_order(x.size)) :
              LET o == layout_order(x.size)
                  z == page_size(Pow2[o])
              IN  /\ o \in CacheOrders
                  /\ x.ptr \in Carved(p, Pow2[o]) \ slub[p].free_list
                  /\ Extent(x) \subseteq (p * PageUnits) .. (p * PageUnits + z - 1)
                  /\ PageFrame(p, z) \in HeapBlocks
                  /\ Extent(x) \subseteq BlockUnits(PageFrame(p, z))
         \/ \E f \in HeapBlocks : /\ f.start \notin DOMAIN slub
                                  /\ x.ptr = f.start * PageUnits
                                  /\ Extent(x) \subseteq BlockUnits(f)
<1> DEFINE o == layout_order(x.size)
           n == Pow2[o]
<1>0. IInv /\ ListInv /\ FrameInv /\ ObjInv /\ HeapType
  BY DEF HInv, CInv
<1>1. x \in objects /\ x.size \in LayoutSizes /\ x.ptr \in Nat /\ n =< OrderSize[Top] * PageUnits
  BY <1>0 DEF Fitting, HeapType
<1>2. o \in Int /\ n \in Nat /\ n >= 1 /\ SLUB_MAX_ORDER \in Int /\ (o < SLUB_MAX_ORDER => o \in CacheOrders)
  BY <1>1, LayoutOrder
<1>3. CASE o < SLUB_MAX_ORDER
  <2>1. o \in CacheOrders
    BY <1>2, <1>3
  <2>2. PICK p \in Home(o) : x.ptr \in Carved(p, n) \ slub[p].free_list
    BY <1>0, <1>1, <1>3 DEF ObjInv, InPage
  <2> DEFINE z == page_size(n)
  <2>3. /\ p \in Nat /\ p \in DOMAIN slub /\ PageFrame(p, z) \in frames
        /\ (p * PageUnits) .. (p * PageUnits + z - 1) \subseteq BlockUnits(PageFrame(p, z))
    BY <1>0, <2>1, PageIn
  <2>4. Extent(x) \subseteq (p * PageUnits) .. (p * PageUnits + z - 1)
    BY <2>1, <2>2, <2>3, CarvedIn DEF Extent
  <2>5. PageFrame(p, z) \in HeapBlocks
    BY <2>3 DEF HeapBlocks, PageFrame
  <2> QED BY <2>1, <2>2, <2>3, <2>4, <2>5
<1>4. CASE ~ (o < SLUB_MAX_ORDER)
  <2>0. o >= SLUB_MAX_ORDER
    BY <1>2, <1>4, SMT
  <2>1. PICK f \in frames : /\ x.ptr = f.start * PageUnits /\ f.start \notin DOMAIN slub
                            /\ f.size = BlockFor(n)
    BY <1>0, <1>1, <2>0 DEF ObjInv, InBlock
  <2>2. f \in HeapBlocks
    BY <1>1, <2>0, <2>1 DEF HeapBlocks
  <2>3. f.start \in Nat /\ f.size \in Nat
    BY <1>0 DEF IInv, TypeOK, FrameValues
  <2>4. n =< f.size * PageUnits
    BY <1>1, <1>2, <2>1, BlockHolds
  <2> DEFINE s == f.start * PageUnits
             w == f.size * PageUnits
             e == (f.start + f.size) * PageUnits
  <2>5. s \in Nat /\ w \in Nat /\ e = s + w
    BY <2>3, BlockEnd
  <2>6. Extent(x) = s .. (s + n - 1) /\ BlockUnits(f) = s .. (e - 1)
    BY <2>1 DEF Extent, BlockUnits
  <2> HIDE DEF s, w, e, n
  <2>7. n =< w
    BY <2>4 DEF w
  <2>8. s .. (s + n - 1) \subseteq s .. (e - 1)
    BY <1>2, <2>5, <2>7, SMT
  <2>9. Extent(x) \subseteq BlockUnits(f)
    BY <2>6, <2>8
  <2> QED BY <2>1, <2>2, <2>9
<1> QED BY <1>3, <1>4

\* ObjectsApart follows from the invariant: blocks are apart, and so are the
\* objects of a page.
LEMMA InvObjectsApart == HInv => ObjectsApart
<1> SUFFICES ASSUME HInv, NEW x \in Fitting
             PROVE  /\ \A y \in Fitting \ {x} : Extent(x) \cap Extent(y) = {}
                    /\ \E f \in HeapBlocks : Extent(x) \subseteq BlockUnits(f)
                    /\ \A p \in DOMAIN slub :
                         Extent(x) \cap (HeaderOf(p) \cup slub[p].free_list) = {}
  BY DEF ObjectsApart
<1> DEFINE Page(y, p) ==
             LET o == layout_order(y.size)
                 z == page_size(Pow2[o])
             IN  /\ o \in CacheOrders /\ p \in Home(o)
                 /\ y.ptr \in Carved(p, Pow2[o]) \ slub[p].free_list
                 /\ Extent(y) \subseteq (p * PageUnits) .. (p * PageUnits + z - 1)
           Block(y, f) ==
             /\ f \in HeapBlocks /\ f.start \notin DOMAIN slub
             /\ y.ptr = f.start * PageUnits /\ Extent(y) \subseteq BlockUnits(f)
<1>0. IInv /\ ListInv /\ FrameInv /\ ObjInv /\ HeapType /\ HeapBlocks \subseteq frames
  BY DEF HInv, CInv, HeapBlocks
<1>1. \A y \in Fitting : (\E p : Page(y, p)) \/ (\E f : Block(y, f))
  BY ObjectIn
<1>2. \E f \in HeapBlocks : Extent(x) \subseteq BlockUnits(f)
  BY ObjectIn
<1>3. ASSUME NEW y \in Fitting, NEW p, Page(y, p)
      PROVE  /\ layout_order(y.size) \in CacheOrders /\ p \in Nat
             /\ Extent(y) = y.ptr .. (y.ptr + Pow2[layout_order(y.size)] - 1)
  BY <1>0, <1>3, PageIn DEF Extent
<1>4. ASSUME NEW o \in CacheOrders, NEW p \in Nat, NEW c \in Carved(p, Pow2[o]),
             NEW d \in Carved(p, Pow2[o]), c # d
      PROVE  /\ (c .. (c + Pow2[o] - 1)) \cap (d .. (d + Pow2[o] - 1)) = {}
             /\ d \notin c .. (c + Pow2[o] - 1)
  <2> DEFINE n == Pow2[o]
  <2>1. n \in Nat /\ n >= 1 /\ c \in Nat /\ d \in Nat /\ (c + n =< d \/ d + n =< c)
    BY <1>4, CarvedRoom, PageRoom
  <2> HIDE DEF n
  <2>2. (c .. (c + n - 1)) \cap (d .. (d + n - 1)) = {} /\ d \notin c .. (c + n - 1)
    BY <2>1, SMT
  <2> QED BY <2>2 DEF n
<1> HIDE DEF Page, Block
<1>5. ASSUME NEW y \in Fitting, x # y, NEW u \in Extent(x), u \in Extent(y) PROVE FALSE
  <2>0. x \in objects /\ y \in objects /\ x.ptr # y.ptr
    BY <1>0, <1>5 DEF Fitting, ObjInv
  <2>1. ASSUME NEW p, Page(x, p), NEW q, Page(y, q) PROVE FALSE
    <3>1. p = q /\ layout_order(x.size) = layout_order(y.size)
      BY <1>0, <1>5, <2>1, OnePage DEF Page
    <3> QED BY <1>3, <1>4, <1>5, <2>0, <2>1, <3>1 DEF Page
  <2>2. ASSUME NEW f, Block(x, f), NEW g, Block(y, g) PROVE FALSE
    <3>1. f = g
      BY <1>0, <1>5, <2>2, OneBlock DEF Block
    <3> QED BY <2>0, <2>2, <3>1 DEF Block
  <2>3. ASSUME NEW p, Page(x, p), NEW g, Block(y, g) PROVE FALSE
    BY <1>0, <1>5, <2>3, PageOrBlock DEF Page, Block
  <2>4. ASSUME NEW f, Block(x, f), NEW q, Page(y, q) PROVE FALSE
    BY <1>0, <1>5, <2>4, PageOrBlock DEF Page, Block
  <2> QED BY <1>1, <1>5, <2>1, <2>2, <2>3, <2>4
<1>6. ASSUME NEW p \in DOMAIN slub, NEW u \in Extent(x), u \in HeaderOf(p) \cup slub[p].free_list
      PROVE  FALSE
  <2>1. PICK o \in CacheOrders : p \in Home(o)
    BY <1>0 DEF ListInv
  <2> DEFINE n == Pow2[o]
             z == page_size(n)
             s == start_offset(n)
             b == p * PageUnits
  <2>2. p \in Nat /\ HeaderOK(p, o, slub[p])
    BY <1>0, <2>1, PageIn
  <2>3. n \in Nat /\ n >= 1 /\ s \in Nat /\ z \in Nat /\ HeaderUnits \in Nat /\ HeaderUnits =< s /\ s + 2 * n =< z
    BY PageRoom, Powers
  <2>4. b \in Nat
    BY <2>2, BlockEnd
  <2>5. u \in HeaderOf(p) => u \in b .. (b + HeaderUnits - 1)
    BY DEF HeaderOf
  <2>6. u \in slub[p].free_list => u \in Carved(p, n) /\ u \in b .. (b + z - 1)
    BY <2>2, CarvedIn DEF HeaderOK
  <2>7. u \in b .. (b + z - 1)
    <3>1. u \in b .. (b + HeaderUnits - 1) => u \in b .. (b + z - 1)
      <4> HIDE DEF n, z, s, b
      <4> QED BY <2>3, <2>4, SMT
    <3> QED BY <1>6, <2>5, <2>6, <3>1
  <2>8. ASSUME NEW f, Block(x, f) PROVE FALSE
    <3>1. f \in frames /\ f.start \notin DOMAIN slub /\ u \in BlockUnits(f)
      BY <1>0, <1>6, <2>8 DEF Block
    <3> QED BY <1>0, <2>1, <2>7, <3>1, PageOrBlock
  <2>9. ASSUME NEW q, Page(x, q) PROVE FALSE
    <3>1. p = q /\ o = layout_order(x.size)
      BY <1>0, <1>6, <2>1, <2>7, <2>9, OnePage DEF Page
    <3>2. x.ptr \in Carved(p, n) \ slub[p].free_list /\ Extent(x) = x.ptr .. (x.ptr + n - 1)
      BY <2>9, <3>1 DEF Page, Extent
    <3>3. u \notin slub[p].free_list
      BY <1>4, <1>6, <2>2, <2>6, <3>2
    <3>4. u \in b .. (b + HeaderUnits - 1) /\ u \in x.ptr .. (x.ptr + n - 1)
      BY <1>6, <2>5, <3>2, <3>3
    <3>5. x.ptr \in Nat /\ b + s =< x.ptr
      BY <2>2, <3>2, CarvedRoom
    <3> DEFINE c == x.ptr
    <3> HIDE DEF n, s, z, b, c
    <3>6. u \in c .. (c + n - 1) /\ c \in Nat /\ b + s =< c
      BY <3>4, <3>5 DEF c
    <3> QED BY <2>3, <2>4, <3>4, <3>6, SMT
  <2> QED BY <1>1, <2>8, <2>9
<1> QED BY <1>2, <1>5, <1>6

-----------------------------------------------------------------------------
(* Headers and lists *)

\* What alloc_obj and dealloc_obj make of a header.
HeaderTaken(h, k, ptr) ==
  /\ k.page_size = h.page_size /\ k.objects = h.objects
  /\ k.free_list = h.free_list \ {ptr} /\ k.inuse = h.inuse + 1
HeaderGiven(h, k, ptr) ==
  /\ k.page_size = h.page_size /\ k.objects = h.objects
  /\ k.free_list = h.free_list \cup {ptr} /\ k.inuse = h.inuse - 1

\* alloc_obj on a header: it counts, and the page is full if nothing is free.
LEMMA HeaderTake ==
  ASSUME NEW o \in CacheOrders, NEW p \in Nat, NEW h, HeaderOK(p, o, h), NEW ptr \in h.free_list,
         NEW k, HeaderTaken(h, k, ptr)
  PROVE  HeaderOK(p, o, k) /\ (h.inuse + 1 = h.objects <=> k.free_list = {})
<1> DEFINE C == Carved(p, Pow2[o])
           F == h.free_list
           G == k.free_list
<1>1. /\ F \subseteq C /\ F # C /\ h.objects = Cardinality(C) /\ h.inuse = Cardinality(C \ F)
      /\ h.page_size = page_size(Pow2[o]) /\ G = F \ {ptr} /\ ptr \in F
  BY DEF HeaderOK, HeaderTaken
<1>2. IsFiniteSet(C)
  BY CarvedRoom
<1> HIDE DEF C, F, G
<1>3. C \ G = (C \ F) \cup {ptr} /\ ptr \notin C \ F /\ G \subseteq C /\ G # C /\ C \ F \in SUBSET C /\ C \ G \in SUBSET C
  BY <1>1
<1>4. IsFiniteSet(C \ F)
  BY <1>2, <1>3, FS_Subset
<1>5. Cardinality(C \ G) = Cardinality(C \ F) + 1
  BY <1>3, <1>4, FS_AddElement
<1>6. Cardinality(C \ G) = Cardinality(C) <=> G = {}
  <2>1. Cardinality(C) = Cardinality(C \ G) => C = C \ G
    BY <1>2, <1>3, FS_Subset
  <2>2. C = C \ G <=> G = {}
    BY <1>3
  <2>3. G = {} => Cardinality(C \ G) = Cardinality(C)
    BY <2>2
  <2> QED BY <2>1, <2>2, <2>3
<1>7. HeaderOK(p, o, k)
  BY <1>1, <1>3, <1>5 DEF HeaderOK, HeaderTaken, C, G
<1> QED BY <1>1, <1>5, <1>6, <1>7 DEF G

\* dealloc_obj on a header: it counts, and the page is empty if this was the
\* last object.
LEMMA HeaderGive ==
  ASSUME NEW o \in CacheOrders, NEW p \in Nat, NEW h, HeaderOK(p, o, h),
         NEW ptr \in Carved(p, Pow2[o]) \ h.free_list,
         NEW k, HeaderGiven(h, k, ptr)
  PROVE  /\ h.inuse - 1 # 0 => HeaderOK(p, o, k)
         /\ h.inuse - 1 = 0 => Carved(p, Pow2[o]) \ h.free_list = {ptr}
<1> DEFINE C == Carved(p, Pow2[o])
           F == h.free_list
           G == k.free_list
<1>1. /\ F \subseteq C /\ F # C /\ h.objects = Cardinality(C) /\ h.inuse = Cardinality(C \ F)
      /\ h.page_size = page_size(Pow2[o]) /\ G = F \cup {ptr} /\ ptr \in C /\ ptr \notin F
  BY DEF HeaderOK, HeaderGiven
<1>2. IsFiniteSet(C)
  BY CarvedRoom
<1> HIDE DEF C, F, G
<1>3. C \ G = (C \ F) \ {ptr} /\ ptr \in C \ F /\ G \subseteq C /\ C \ F \in SUBSET C
  BY <1>1
<1>4. IsFiniteSet(C \ F)
  BY <1>2, <1>3, FS_Subset
<1>5. IsFiniteSet(C \ G) /\ Cardinality(C \ G) = Cardinality(C \ F) - 1
  <2> DEFINE D == C \ F
  <2>1. ptr \in D /\ IsFiniteSet(D) /\ C \ G = D \ {ptr}
    BY <1>3, <1>4
  <2> HIDE DEF D
  <2>2. IsFiniteSet(D \ {ptr}) /\ Cardinality(D \ {ptr}) = Cardinality(D) - 1
    BY <2>1, FS_RemoveElement
  <2> QED BY <2>1, <2>2 DEF D
<1>6. Cardinality(C \ G) = 0 <=> C \ G = {}
  BY <1>5, FS_EmptySet
<1>7. h.inuse - 1 # 0 => HeaderOK(p, o, k)
  <2> SUFFICES ASSUME h.inuse - 1 # 0 PROVE HeaderOK(p, o, k)
    OBVIOUS
  <2>1. C \ G # {}
    BY <1>1, <1>5, <1>6
  <2>2. G # C
    BY <2>1
  <2> QED BY <1>1, <1>3, <1>5, <2>2 DEF HeaderOK, HeaderGiven, C, G
<1>8. h.inuse - 1 = 0 => C \ F = {ptr}
  <2> SUFFICES ASSUME h.inuse - 1 = 0 PROVE C \ F = {ptr}
    OBVIOUS
  <2>1. (C \ F) \ {ptr} = {}
    BY <1>1, <1>3, <1>5, <1>6
  <2> QED BY <1>3, <2>1
<1> QED BY <1>7, <1>8 DEF C, F

\* The first object of a new page.
LEMMA HeaderNew ==
  ASSUME NEW o \in CacheOrders, NEW p \in Nat, NEW ptr \in Carved(p, Pow2[o])
  PROVE  LET h == NewHeader(p, Pow2[o], ptr)
         IN  HeaderOK(p, o, h) /\ h.free_list # {} /\ h \in Headers /\ ptr \notin h.free_list
<1> DEFINE C == Carved(p, Pow2[o])
           h == NewHeader(p, Pow2[o], ptr)
<1>1. IsFiniteSet(C) /\ C \subseteq Nat /\ C \ {ptr} # {}
  BY CarvedRoom
<1>2. page_size(Pow2[o]) \in Nat
  BY PageRoom
<1>3. Cardinality(C) \in Nat
  BY <1>1, FS_CardinalityType
<1>4. /\ h.page_size = page_size(Pow2[o]) /\ h.inuse = 1 /\ h.objects = Cardinality(C)
      /\ h.free_list = C \ {ptr}
  BY DEF NewHeader
<1>5. h \in Headers
  <2>1. 1 \in Nat /\ C \ {ptr} \in SUBSET Nat
    BY <1>1, SMT
  <2> QED BY <1>2, <1>3, <2>1 DEF NewHeader, Headers
<1> HIDE DEF C, h
<1>6. C \ h.free_list = {ptr}
  BY <1>4 DEF C
<1>7. Cardinality(C \ h.free_list) = 1
  BY <1>6, FS_Singleton
<1> QED BY <1>1, <1>4, <1>5, <1>7 DEF HeaderOK, C, h

\* The pages of a list after a step.
LEMMA NodesNext == \A t, o, l : Nodes(t, o, l)' = Elems(caches'[t][o][l])
BY DEF Nodes, Elems

\* A step that changes the lists of one cache and the header of one page: the
\* page was nowhere else and is afterwards where its free list says.
CacheChanges(t, o, page, c) ==
  /\ caches' = [caches EXCEPT ![t][o] = c]
  /\ DOMAIN slub' \ {page} = DOMAIN slub \ {page}
  /\ \A p \in DOMAIN slub \ {page} : slub'[p] = slub[p]
  /\ page \in DOMAIN slub => \E l \in Names : page \in Nodes(t, o, l)
  /\ \A l \in Names : Distinct(c[l]) /\ Elems(c[l]) \ {page} = Nodes(t, o, l) \ {page}
  /\ \A l \in Names : page \in Elems(c[l]) <=>
       page \in DOMAIN slub' /\ (l = "partial_slubs" <=> slub'[page].free_list # {})
  /\ page \in DOMAIN slub' => HeaderOK(page, o, slub'[page])

\* Such a step keeps the lists in order.
LEMMA CacheChange ==
  ASSUME HeapType, ListInv,
         NEW t \in Tiers, NEW o \in CacheOrders, NEW page \in Nat, NEW c \in CacheType,
         CacheChanges(t, o, page, c)
  PROVE  /\ caches' \in [Tiers -> [CacheOrders -> CacheType]]
         /\ ListInv'
         /\ \A r \in CacheOrders : Home(r)' \ {page} = Home(r) \ {page}
         /\ page \in DOMAIN slub' => page \in Home(o)'
<1> USE DEF CacheChanges
<1>1. /\ caches' \in [Tiers -> [CacheOrders -> CacheType]]
      /\ caches'[t][o] = c
      /\ \A u \in Tiers, q \in CacheOrders : u # t \/ q # o => caches'[u][q] = caches[u][q]
  BY DEF HeapType
<1>2. \A m \in Names : Nodes(t, o, m)' = Elems(c[m])
  BY <1>1, NodesNext
<1>3. \A u \in Tiers, q \in CacheOrders, m \in Names :
        u # t \/ q # o => Nodes(u, q, m)' = Nodes(u, q, m)
  <2>1. \A u, q, m : Nodes(u, q, m) = Elems(caches[u][q][m])
    BY DEF Nodes
  <2> QED BY <1>1, <2>1, NodesNext
<1>4. ASSUME NEW u \in Tiers, NEW q \in CacheOrders, NEW m \in Names, u # t \/ q # o
      PROVE  page \notin Nodes(u, q, m)
  <2> SUFFICES ASSUME page \in Nodes(u, q, m) PROVE FALSE
    OBVIOUS
  <2>1. page \in DOMAIN slub
    BY DEF ListInv
  <2>2. PICK l \in Names : page \in Nodes(t, o, l)
    BY <2>1
  <2> QED BY <1>4, <2>2 DEF ListInv
<1>5. ASSUME NEW u \in Tiers, NEW q \in CacheOrders, NEW m \in Names
      PROVE  /\ \A p : p # page => (p \in Nodes(u, q, m)' <=> p \in Nodes(u, q, m))
             /\ page \in Nodes(u, q, m)' =>
                  /\ u = t /\ q = o /\ page \in DOMAIN slub'
                  /\ (m = "partial_slubs" <=> slub'[page].free_list # {})
  <2>1. CASE u = t /\ q = o
    <3>1. Nodes(u, q, m)' = Elems(c[m])
      BY <1>1, <2>1, NodesNext
    <3>2. Elems(c[m]) \ {page} = Nodes(u, q, m) \ {page}
      BY <2>1
    <3> QED BY <2>1, <3>1, <3>2
  <2>2. CASE u # t \/ q # o
    <3>1. Nodes(u, q, m)' = Nodes(u, q, m)
      BY <1>3, <2>2
    <3>2. page \notin Nodes(u, q, m)
      BY <1>4, <2>2
    <3> QED BY <3>1, <3>2
  <2> QED BY <2>1, <2>2
<1>6. ASSUME NEW u \in Tiers, NEW q \in CacheOrders, NEW l \in Names
      PROVE  Distinct(caches'[u][q][l])
  BY <1>1 DEF ListInv
<1>7. ASSUME NEW u \in Tiers, NEW q \in CacheOrders, NEW m \in Names, NEW p \in Nodes(u, q, m)'
      PROVE  /\ p \in DOMAIN slub'
             /\ HeaderOK(p, q, slub'[p])
             /\ m = "partial_slubs" <=> slub'[p].free_list # {}
  <2>1. CASE p = page
    BY <1>5, <1>7, <2>1
  <2>2. CASE p # page
    <3>1. p \in Nodes(u, q, m)
      BY <1>5, <1>7, <2>2
    <3>2. /\ p \in DOMAIN slub /\ HeaderOK(p, q, slub[p])
          /\ m = "partial_slubs" <=> slub[p].free_list # {}
      BY <3>1 DEF ListInv
    <3>3. p \in DOMAIN slub' /\ slub'[p] = slub[p]
      BY <2>2, <3>2
    <3> QED BY <3>2, <3>3
  <2> QED BY <2>1, <2>2
<1>8. ASSUME NEW u \in Tiers, NEW v \in Tiers, NEW q \in CacheOrders, NEW r \in CacheOrders,
             NEW l \in Names, NEW m \in Names,
             NEW p \in Nodes(u, q, l)', p \in Nodes(v, r, m)'
      PROVE  u = v /\ q = r
  <2>1. CASE p = page
    <3>1. page \in Nodes(u, q, l)' /\ page \in Nodes(v, r, m)'
      BY <1>8, <2>1
    <3>2. u = t /\ q = o
      BY <1>5, <3>1
    <3>3. v = t /\ r = o
      BY <1>5, <3>1
    <3> QED BY <3>2, <3>3
  <2>2. CASE p # page
    <3>1. p \in Nodes(u, q, l) /\ p \in Nodes(v, r, m)
      BY <1>5, <1>8, <2>2
    <3> QED BY <3>1 DEF ListInv
  <2> QED BY <2>1, <2>2
<1>9. \A r \in CacheOrders : Home(r)' \ {page} = Home(r) \ {page}
  <2> SUFFICES ASSUME NEW r \in CacheOrders, NEW p, p # page
               PROVE  p \in Home(r)' <=> p \in Home(r)
    OBVIOUS
  <2>1. p \in DOMAIN slub' <=> p \in DOMAIN slub
    OBVIOUS
  <2>2. \A u \in Tiers, m \in Names : p \in Nodes(u, r, m)' <=> p \in Nodes(u, r, m)
    BY <1>5
  <2> QED BY <2>1, <2>2 DEF Home
<1>10. page \in DOMAIN slub' => page \in Home(o)'
  <2> SUFFICES ASSUME page \in DOMAIN slub' PROVE page \in Home(o)'
    OBVIOUS
  <2>1. PICK l \in Names : l = "partial_slubs" <=> slub'[page].free_list # {}
    <3>1. "partial_slubs" \in Names /\ "full_slubs" \in Names /\ "full_slubs" # "partial_slubs"
      BY DEF Names
    <3> QED BY <3>1
  <2>2. page \in Nodes(t, o, l)'
    BY <1>2, <2>1
  <2> QED BY <2>2 DEF Home
<1>11. \A p \in DOMAIN slub' : \E q \in CacheOrders : p \in Home(q)'
  <2> SUFFICES ASSUME NEW p \in DOMAIN slub', p # page PROVE \E q \in CacheOrders : p \in Home(q)'
    BY <1>10
  <2>1. p \in DOMAIN slub
    OBVIOUS
  <2>2. PICK q \in CacheOrders : p \in Home(q)
    BY <2>1 DEF ListInv
  <2> QED BY <1>9, <2>2
<1>12. ListInv'
  BY <1>6, <1>7, <1>8, <1>11 DEF ListInv, Distinct, HeaderOK
<1> QED BY <1>1, <1>9, <1>10, <1>12

-----------------------------------------------------------------------------
(* The steps of the buddy allocator *)

\* What is asked of the buddy allocator for a layout is a page or more.
LEMMA UnitsAsked ==
  ASSUME NEW size \in LayoutSizes
  PROVE  LET units == UnitsFor(layout_order(size))
         IN  units \in Nat /\ units >= 1 /\ PagesFor(units) \in Nat \ {0}
<1> DEFINE o == layout_order(size)
           units == UnitsFor(o)
<1>1. /\ o \in Int /\ SLUB_MAX_ORDER \in Int /\ Pow2[o] \in Nat /\ Pow2[o] >= 1
      /\ o < SLUB_MAX_ORDER => o \in CacheOrders
  BY LayoutOrder
<1>2. o >= SLUB_MAX_ORDER \/ o < SLUB_MAX_ORDER
  BY <1>1, SMT
<1>3. ~ (o >= SLUB_MAX_ORDER) => page_size(Pow2[o]) \in Nat /\ page_size(Pow2[o]) >= 1
  BY <1>1, <1>2, PageRoom
<1>4. units \in Nat /\ units >= 1
  BY <1>1, <1>3 DEF UnitsFor
<1> QED BY <1>4, BlockSize

\* An allocation of the caches asks the buddy allocator for a block or leaves
\* it alone.
LEMMA CacheAllocStep ==
  ASSUME NEW t \in Tiers, NEW size \in LayoutSizes, CacheAlloc(t, size)
  PROVE  [Step]_vars
<1>1. PagesFor(UnitsFor(layout_order(size))) \in Nat \ {0}
  BY UnitsAsked
<1>2. UNCHANGED vars \/ alloc_frame(PagesFor(UnitsFor(layout_order(size))))
  BY DEF CacheAlloc
<1> QED BY <1>1, <1>2 DEF Step, AnyCall

\* The names of the tiers.
LEMMA TierNames == "cpu_caches" \in Tiers /\ "slow_caches" \in Tiers
BY DEF Tiers

\* To the buddy allocator a step of the heap is a call or a round of a loop.
LEMMA HeapIsStep == HInv /\ [HeapNext]_allVars => [Step]_vars
<1> SUFFICES ASSUME HInv, [HeapNext]_allVars PROVE [Step]_vars
  OBVIOUS
<1>1. CASE Loop
  BY <1>1 DEF Step
<1>2. CASE Others
  BY <1>2, RequestAssumption DEF Others, Step, AnyCall, Drop
<1>3. CASE BlockArrives
  BY <1>3 DEF BlockArrives
<1>4. CASE NoBlockArrives
  <2>1. call.size \in LayoutSizes
    BY <1>4 DEF NoBlockArrives, HInv, CallInv
  <2>2. UNCHANGED vars \/ CacheAlloc("slow_caches", call.size)
    BY <1>4 DEF NoBlockArrives, vars
  <2> QED BY <2>1, <2>2, CacheAllocStep, TierNames
<1>5. ASSUME NEW size \in LayoutSizes, alloc(size) PROVE [Step]_vars
  BY <1>5, CacheAllocStep, TierNames DEF alloc
<1>6. ASSUME NEW object \in objects, dealloc(object) PROVE [Step]_vars
  <2>1. UNCHANGED vars \/ \E f : Drop(f)
    BY <1>6 DEF dealloc, GivenBack
  <2> QED BY <2>1 DEF Step, AnyCall, Drop
<1>7. CASE UNCHANGED allVars
  BY <1>7 DEF allVars
<1> QED BY <1>1, <1>2, <1>3, <1>4, <1>5, <1>6, <1>7 DEF HeapNext, HeapCall

\* So its invariants hold with the heap on top.
LEMMA BuddyKept == HInv /\ [HeapNext]_allVars => CInv' /\ SegInv'
BY HeapIsStep, TypeStep, LoopStep, OverlapStep, AlignStep, CoalescedStep, SegStep
DEF HInv, CInv, IInv, SInv

\* Caches and pages that no step changes stay in order.
LEMMA ListSame ==
  ASSUME HeapType, ListInv, UNCHANGED <<caches, slub>>
  PROVE  /\ ListInv'
         /\ caches' \in [Tiers -> [CacheOrders -> CacheType]]
         /\ slub' \in [DOMAIN slub' -> Headers]
         /\ \A o : Home(o)' = Home(o)
<1>1. caches' = caches /\ slub' = slub
  OBVIOUS
<1>2. \A o : Home(o)' = Home(o)
  BY <1>1 DEF Home, Nodes, Elems
<1>3. ListInv'
  <2>1. \A t, o, l : Nodes(t, o, l)' = Nodes(t, o, l)
    BY <1>1 DEF Nodes, Elems
  <2>2. \A t \in Tiers, o \in CacheOrders, l \in Names : Distinct(caches'[t][o][l])
    BY <1>1 DEF ListInv
  <2>3. ASSUME NEW t \in Tiers, NEW o \in CacheOrders, NEW l \in Names, NEW p \in Nodes(t, o, l)'
        PROVE  /\ p \in DOMAIN slub'
               /\ HeaderOK(p, o, slub'[p])
               /\ l = "partial_slubs" <=> slub'[p].free_list # {}
    <3>1. p \in Nodes(t, o, l)
      BY <2>1, <2>3
    <3>2. /\ p \in DOMAIN slub /\ HeaderOK(p, o, slub[p])
          /\ l = "partial_slubs" <=> slub[p].free_list # {}
      BY <3>1 DEF ListInv
    <3> QED BY <1>1, <3>2
  <2>4. \A t, u \in Tiers, o, q \in CacheOrders, l, m \in Names :
          \A p \in Nodes(t, o, l)' : p \in Nodes(u, q, m)' => t = u /\ o = q
    BY <2>1 DEF ListInv
  <2>5. \A p \in DOMAIN slub' : \E o \in CacheOrders : p \in Home(o)'
    BY <1>1, <1>2 DEF ListInv
  <2> QED BY <2>2, <2>3, <2>4, <2>5 DEF ListInv, Distinct, HeaderOK
<1> QED BY <1>1, <1>2, <1>3 DEF HeapType

\* Blocks of the heap that stay frames hold its pages and objects as before.
LEMMA BlocksStay ==
  ASSUME HInv, UNCHANGED <<caches, slub, objects>>, HeapBlocks \subseteq frames'
  PROVE  HeapType' /\ ListInv' /\ FrameInv' /\ ObjInv'
<1>0. HeapType /\ ListInv /\ FrameInv /\ ObjInv /\ caches' = caches /\ slub' = slub /\ objects' = objects
  BY DEF HInv
<1>1. /\ ListInv' /\ \A o : Home(o)' = Home(o)
      /\ caches' \in [Tiers -> [CacheOrders -> CacheType]] /\ slub' \in [DOMAIN slub' -> Headers]
  BY <1>0, ListSame
<1>2. HeapType'
  BY <1>0, <1>1 DEF HeapType
<1>3. FrameInv'
  <2>1. \A p \in DOMAIN slub : PageFrame(p, slub[p].page_size) \in HeapBlocks
    BY <1>0 DEF FrameInv, HeapBlocks, PageFrame
  <2> QED BY <1>0, <2>1 DEF FrameInv, PageFrame
<1>4. ASSUME NEW x \in objects, layout_order(x.size) < SLUB_MAX_ORDER PROVE InPage(x)'
  <2>1. InPage(x)
    BY <1>0, <1>4 DEF ObjInv
  <2> QED BY <1>0, <1>1, <2>1 DEF InPage
<1>5. ASSUME NEW x \in objects, layout_order(x.size) >= SLUB_MAX_ORDER PROVE InBlock(x)'
  <2>1. PICK f \in frames : /\ x.ptr = f.start * PageUnits /\ f.start \notin DOMAIN slub
                            /\ f.size = BlockFor(Pow2[layout_order(x.size)])
    BY <1>0, <1>5 DEF ObjInv, InBlock
  <2>2. f \in frames'
    BY <1>5, <2>1 DEF HeapBlocks
  <2> QED BY <1>0, <2>1, <2>2 DEF InBlock
<1>6. ObjInv'
  BY <1>0, <1>4, <1>5 DEF ObjInv
<1> QED BY <1>1, <1>2, <1>3, <1>6

\* A block that the buddy allocator returns is none that the heap has.
LEMMA BlockIsNew ==
  ASSUME HInv, AllocReturns, UNCHANGED <<slub, objects>>,
         NEW f, f.start = cur.start, f.size = OrderSize[want], f \in HeapBlocks'
  PROVE  FALSE
<1>0. IInv /\ HeapType /\ ListInv /\ FrameInv /\ ObjInv /\ pc = "split" /\ cur.order = want
  BY DEF HInv, CInv, AllocReturns
<1>1. cur.start \in Nat /\ OrderSize[want] \in Nat /\ OrderSize[want] >= 1
  BY <1>0, OrdersAndSizes DEF IInv, TypeOK, Blocks
<1>2. ASSUME NEW g \in frames, g.start = cur.start PROVE FALSE
  <2>1. Apart(g.start, g.size, cur.start, OrderSize[want])
    BY <1>0 DEF IInv, NoOverlap, CurApart
  <2>2. g.size \in Nat /\ g.size >= 1
    BY <1>0, SMT DEF IInv, TypeOK, FrameValues
  <2> QED BY <1>1, <1>2, <2>1, <2>2, SMT DEF Apart
<1>3. CASE f.start \in DOMAIN slub
  <2>1. PageFrame(f.start, slub[f.start].page_size) \in frames
    BY <1>0, <1>3 DEF FrameInv
  <2> QED BY <1>2, <2>1 DEF PageFrame
<1>4. ASSUME NEW x \in objects, layout_order(x.size) >= SLUB_MAX_ORDER, x.ptr = f.start * PageUnits
      PROVE  FALSE
  <2>1. PICK g \in frames : x.ptr = g.start * PageUnits
    BY <1>0, <1>4 DEF ObjInv, InBlock
  <2>2. g.start \in Nat /\ PageUnits \in Nat /\ PageUnits >= 1
    BY <1>0, Powers DEF IInv, TypeOK, FrameValues
  <2> DEFINE a == g.start
             b == cur.start
  <2>3. a * PageUnits = b * PageUnits /\ a \in Nat /\ b \in Nat
    BY <1>1, <1>4, <2>1, <2>2
  <2> HIDE DEF a, b
  <2>4. (a * PageUnits) \div PageUnits = a /\ (b * PageUnits) \div PageUnits = b
    BY <2>2, <2>3, Quotient
  <2>5. a = b
    BY <2>3, <2>4
  <2> QED BY <1>2, <2>5 DEF a, b
<1> QED BY <1>3, <1>4 DEF HeapBlocks

\* Rounds of a loop, and what others do with frames, keep the heap's invariant.
LEMMA LoopKeeps ==
  ASSUME HInv, Loop \/ Others, UNCHANGED heapVars
  PROVE  HeapType' /\ ListInv' /\ FrameInv' /\ ObjInv' /\ CallInv'
<1>0. caches' = caches /\ slub' = slub /\ objects' = objects /\ call' = call
  BY DEF heapVars
<1>1. HeapBlocks \subseteq frames'
  <2>0. HeapBlocks \subseteq frames
    BY DEF HeapBlocks
  <2>1. Loop => frames \subseteq frames'
    BY DEF Loop, AddChunk, AddNextOrder, AllocPops, AllocFails, Split, AllocReturns,
           DropSegment, Merge, MergeTop, MergeEnds
  <2>2. CASE Others
    <3>1. \/ frames' = frames
          \/ \E frame \in frames \ HeapBlocks : frames' = frames \ {frame}
      BY <2>2 DEF Others, alloc_frame, alloc_frames, Drop
    <3> QED BY <2>0, <3>1
  <2> QED BY <2>0, <2>1, <2>2
<1>2. HeapType' /\ ListInv' /\ FrameInv' /\ ObjInv'
  BY <1>0, <1>1, BlocksStay
<1>3. ASSUME call # NoCall PROVE CallInv'
  <2> DEFINE order == size_to_order(PagesFor(UnitsFor(layout_order(call.size))))
  <2>1. /\ call.tier \in Tiers /\ call.size \in LayoutSizes
        /\ pc \in {"alloc", "split", "idle"} /\ segs = {} /\ need = 0
        /\ pc # "idle" => frames \subseteq call.had /\ want = order
    BY <1>3 DEF HInv, CallInv
  <2>2. Loop
    BY <1>3 DEF Others
  <2>3. AllocPops \/ AllocFails \/ Split \/ AllocReturns
    BY <2>1, <2>2 DEF Loop, AddChunk, AddNextOrder, DropSegment, Merge, MergeTop, MergeEnds
  <2>4. frames \subseteq call.had /\ want = order
    <3>1. pc # "idle"
      BY <2>3 DEF AllocPops, AllocFails, Split, AllocReturns
    <3> QED BY <2>1, <3>1
  <2>5. CASE AllocPops \/ Split
    <3>1. frames' = frames /\ segs' = segs /\ need' = need /\ want' = want /\ pc' = "split"
      BY <2>5 DEF AllocPops, Split
    <3>2. frames' \ call'.had = {}
      BY <1>0, <2>4, <3>1
    <3> QED BY <1>0, <2>1, <2>4, <3>1, <3>2 DEF CallInv
  <2>6. CASE AllocFails
    <3>1. frames' = frames /\ segs' = segs /\ need' = 0 /\ pc' = "idle"
      BY <2>1, <2>6 DEF AllocFails
    <3>2. frames' \ call'.had = {}
      BY <1>0, <2>4, <3>1
    <3> QED BY <1>0, <2>1, <3>1, <3>2 DEF CallInv
  <2>7. CASE AllocReturns
    <3> DEFINE frame == [start |-> cur.start, size |-> OrderSize[want]]
    <3>1. frame.start = cur.start /\ frame.size = OrderSize[want]
      OBVIOUS
    <3>2. Remaining(frame.size) = 0
      <4>1. OrderSize[want] \in Nat
        BY OrdersAndSizes DEF HInv, CInv, IInv, TypeOK
      <4> QED BY <2>1, <3>1, <4>1, SMT DEF Remaining
    <3>3. frames' = frames \cup segs \cup {frame} /\ segs' = {} /\ need' = 0 /\ pc' = "idle"
      <4>1. ~ (Remaining(frame.size) > 0)
        BY <3>2, SMT
      <4> QED BY <2>7, <3>2, <4>1 DEF AllocReturns
    <3>4. frame \notin HeapBlocks'
      BY <1>0, <2>7, <3>1, BlockIsNew
    <3>5. \A f \in frames' \ call'.had : f = frame
      BY <1>0, <2>1, <2>4, <3>3
    <3>6. frame.size = BlockFor(UnitsFor(layout_order(call.size)))
      BY <2>4, <3>1 DEF BlockFor
    <3> HIDE DEF frame
    <3> QED BY <1>0, <2>1, <3>3, <3>4, <3>5, <3>6 DEF CallInv
  <2> QED BY <2>3, <2>5, <2>6, <2>7
<1>4. call = NoCall => CallInv'
  BY <1>0 DEF CallInv, NoCall
<1> QED BY <1>2, <1>3, <1>4

\* The request for a block starts with nothing arrived.
LEMMA RequestKeeps ==
  ASSUME HInv, NEW t \in Tiers, NEW size \in LayoutSizes,
         alloc_frame(PagesFor(UnitsFor(layout_order(size)))),
         call' = [tier |-> t, size |-> size, had |-> frames],
         UNCHANGED <<caches, slub, objects>>
  PROVE  HeapType' /\ ListInv' /\ FrameInv' /\ ObjInv' /\ CallInv'
<1>1. /\ pc = "idle" /\ pc' = "alloc" /\ frames' = frames /\ segs' = segs /\ need' = need
      /\ want' = size_to_order(PagesFor(UnitsFor(layout_order(size))))
  BY DEF alloc_frame
<1>2. segs = {} /\ need = 0
  BY <1>1 DEF HInv, SegInv
<1>3. HeapType' /\ ListInv' /\ FrameInv' /\ ObjInv'
  BY <1>1, BlocksStay DEF HeapBlocks
<1>4. call'.tier = t /\ call'.size = size /\ call'.had = frames
  OBVIOUS
<1>5. frames' \ call'.had = {}
  BY <1>1, <1>4
<1>6. CallInv'
  BY <1>1, <1>2, <1>4, <1>5 DEF CallInv
<1> QED BY <1>3, <1>6

\* An object of a page that a step does not free is still on a page.
LEMMA PageObjectStays ==
  ASSUME ListInv, NEW o \in CacheOrders, NEW page,
         \A r \in CacheOrders : Home(r)' \ {page} = Home(r) \ {page},
         page \in DOMAIN slub' => page \in Home(o)',
         page \in DOMAIN slub => page \in Home(o),
         \A p \in DOMAIN slub \ {page} : slub'[p] = slub[p],
         NEW x, layout_order(x.size) \in CacheOrders, InPage(x),
         page \in DOMAIN slub /\ x.ptr \in Carved(page, Pow2[o]) \ slub[page].free_list =>
           page \in DOMAIN slub' /\ x.ptr \notin slub'[page].free_list
  PROVE  InPage(x)'
<1> DEFINE r == layout_order(x.size)
<1>1. PICK p \in Home(r) : x.ptr \in Carved(p, Pow2[r]) \ slub[p].free_list
  BY DEF InPage
<1>2. p \in DOMAIN slub
  BY DEF Home
<1>3. p \in Home(r)' /\ x.ptr \notin slub'[p].free_list
  <2>1. CASE p = page
    <3>1. page \in Home(o)
      BY <1>2, <2>1
    <3>2. PICK t \in Tiers, l \in Names : page \in Nodes(t, o, l)
      BY <3>1 DEF Home
    <3>3. PICK u \in Tiers, m \in Names : page \in Nodes(u, r, m)
      BY <1>1, <2>1 DEF Home
    <3>4. o = r
      BY <3>2, <3>3 DEF ListInv
    <3> QED BY <1>1, <1>2, <2>1, <3>4
  <2>2. CASE p # page
    <3>1. slub'[p] = slub[p]
      BY <1>2, <2>2
    <3>2. p \in Home(r)'
      BY <1>1, <2>2
    <3> QED BY <1>1, <3>1, <3>2
  <2> QED BY <2>1, <2>2
<1> QED BY <1>1, <1>3 DEF InPage

\* Every object starts in a block of the heap, and on a page where it is not
\* free or in a block that is no page.
LEMMA ObjectPlace ==
  ASSUME HInv, NEW y \in objects
  PROVE  \/ \E p \in Home(layout_order(y.size)) :
              LET r == layout_order(y.size)
              IN  /\ r \in CacheOrders /\ y.ptr \in Carved(p, Pow2[r]) \ slub[p].free_list
                  /\ y.ptr \in (p * PageUnits) .. (p * PageUnits + page_size(Pow2[r]) - 1)
                  /\ PageFrame(p, page_size(Pow2[r])) \in HeapBlocks
                  /\ y.ptr \in BlockUnits(PageFrame(p, page_size(Pow2[r])))
         \/ \E f \in HeapBlocks : f.start \notin DOMAIN slub /\ y.ptr \in BlockUnits(f)
<1> DEFINE r == layout_order(y.size)
<1>0. IInv /\ ListInv /\ FrameInv /\ ObjInv /\ HeapType
  BY DEF HInv, CInv
<1>1. y.size \in LayoutSizes
  BY <1>0 DEF HeapType
<1>2. r \in Int /\ SLUB_MAX_ORDER \in Int /\ (r < SLUB_MAX_ORDER => r \in CacheOrders)
  BY <1>1, LayoutOrder
<1>3. CASE r < SLUB_MAX_ORDER
  <2>1. PICK p \in Home(r) : y.ptr \in Carved(p, Pow2[r]) \ slub[p].free_list
    BY <1>0, <1>3 DEF ObjInv, InPage
  <2> DEFINE z == page_size(Pow2[r])
  <2>2. /\ r \in CacheOrders /\ p \in Nat /\ p \in DOMAIN slub /\ PageFrame(p, z) \in frames
        /\ (p * PageUnits) .. (p * PageUnits + z - 1) \subseteq BlockUnits(PageFrame(p, z))
    BY <1>0, <1>2, <1>3, PageIn
  <2>3. y.ptr \in (p * PageUnits) .. (p * PageUnits + z - 1)
    BY <2>1, <2>2, CarvedIn
  <2>4. PageFrame(p, z) \in HeapBlocks
    BY <2>2 DEF HeapBlocks, PageFrame
  <2> QED BY <2>1, <2>2, <2>3, <2>4
<1>4. CASE ~ (r < SLUB_MAX_ORDER)
  <2>0. r >= SLUB_MAX_ORDER
    BY <1>2, <1>4, SMT
  <2>1. PICK f \in frames : y.ptr = f.start * PageUnits /\ f.start \notin DOMAIN slub
    BY <1>0, <2>0 DEF ObjInv, InBlock
  <2>2. f \in HeapBlocks
    BY <2>0, <2>1 DEF HeapBlocks
  <2> QED BY <1>0, <2>1, <2>2, FirstUnit
<1> QED BY <1>3, <1>4

\* An object on a free list is nobody's.
LEMMA FreeIsFree ==
  ASSUME HInv, NEW o \in CacheOrders, NEW page \in Home(o), NEW ptr \in slub[page].free_list,
         NEW y \in objects
  PROVE  y.ptr # ptr
<1> SUFFICES ASSUME y.ptr = ptr PROVE FALSE
  OBVIOUS
<1>0. IInv /\ ListInv /\ FrameInv /\ HeapBlocks \subseteq frames
  BY DEF HInv, CInv, HeapBlocks
<1>1. page \in Nat /\ ptr \in Carved(page, Pow2[o])
  BY <1>0, PageIn DEF HeaderOK
<1>2. y.ptr \in (page * PageUnits) .. (page * PageUnits + page_size(Pow2[o]) - 1)
  BY <1>1, CarvedIn
<1>3. ASSUME NEW f \in HeapBlocks, f.start \notin DOMAIN slub, y.ptr \in BlockUnits(f) PROVE FALSE
  BY <1>0, <1>2, <1>3, PageOrBlock
<1>4. ASSUME NEW r \in CacheOrders, NEW p \in Home(r), y.ptr \notin slub[p].free_list,
             y.ptr \in (p * PageUnits) .. (p * PageUnits + page_size(Pow2[r]) - 1)
      PROVE  FALSE
  <2>1. p = page
    BY <1>0, <1>2, <1>4, OnePage
  <2> QED BY <1>4, <2>1
<1> QED BY <1>3, <1>4, ObjectPlace

-----------------------------------------------------------------------------
(* The steps of the heap *)

\* A header with another free list and count.
HeaderWith(h, S, n) == [[h EXCEPT !.free_list = S] EXCEPT !.inuse = n]

\* It is a header, with these fields.
LEMMA HeaderFields ==
  ASSUME NEW h \in Headers, NEW S \in SUBSET Nat, NEW n \in Nat
  PROVE  LET k == HeaderWith(h, S, n)
         IN  /\ k \in Headers /\ k.page_size = h.page_size /\ k.objects = h.objects
             /\ k.free_list = S /\ k.inuse = n
<1> DEFINE g == [h EXCEPT !.free_list = S]
           k == [g EXCEPT !.inuse = n]
<1>1. g \in Headers /\ g.page_size = h.page_size /\ g.objects = h.objects /\ g.free_list = S
  BY SMT DEF Headers
<1> HIDE DEF g
<1>2. /\ k \in Headers /\ k.page_size = g.page_size /\ k.objects = g.objects
      /\ k.free_list = g.free_list /\ k.inuse = n
  BY <1>1, SMT DEF Headers
<1> QED BY <1>1, <1>2 DEF g, HeaderWith

\* The header of a page after alloc_obj, and the other headers.
LEMMA TakeHeader ==
  ASSUME HeapType, NEW page \in DOMAIN slub, NEW ptr, slub' = alloc_obj(page, ptr)
  PROVE  /\ DOMAIN slub' = DOMAIN slub /\ slub' \in [DOMAIN slub' -> Headers]
         /\ \A p \in DOMAIN slub \ {page} : slub'[p] = slub[p]
         /\ slub'[page].page_size = slub[page].page_size
         /\ slub'[page].objects = slub[page].objects
         /\ slub'[page].free_list = slub[page].free_list \ {ptr}
         /\ slub'[page].inuse = slub[page].inuse + 1
<1> DEFINE h == slub[page]
           S == h.free_list \ {ptr}
           n == h.inuse + 1
           k == HeaderWith(h, S, n)
<1>1. h \in Headers
  BY DEF HeapType
<1>2. slub' = [slub EXCEPT ![page] = k]
  BY <1>1 DEF alloc_obj, HeapType, Headers, HeaderWith
<1>s. S \in SUBSET Nat /\ n \in Nat
  <2>1. h.free_list \in SUBSET Nat /\ h.inuse \in Nat
    BY <1>1 DEF Headers
  <2>2. h.inuse + 1 \in Nat
    BY <2>1, SMT
  <2> QED BY <2>1, <2>2
<1> HIDE DEF h, S, n
<1>3. /\ k \in Headers /\ k.page_size = h.page_size /\ k.objects = h.objects
      /\ k.free_list = S /\ k.inuse = n
  BY <1>1, <1>s, HeaderFields
<1> HIDE DEF k
<1>4. DOMAIN slub' = DOMAIN slub /\ slub'[page] = k /\ \A p \in DOMAIN slub \ {page} : slub'[p] = slub[p]
  BY <1>2 DEF HeapType
<1>5. slub' \in [DOMAIN slub' -> Headers]
  BY <1>2, <1>3 DEF HeapType
<1> QED BY <1>3, <1>4, <1>5 DEF h, S, n

\* A list of a cache by its name.
LEMMA CacheLists ==
  ASSUME HeapType, NEW t \in Tiers, NEW o \in CacheOrders
  PROVE  /\ caches[t][o] \in CacheType
         /\ caches[t][o].partial_slubs \in Seq(Nat) /\ caches[t][o].full_slubs \in Seq(Nat)
         /\ Nodes(t, o, "partial_slubs") = Elems(caches[t][o].partial_slubs)
         /\ Nodes(t, o, "full_slubs") = Elems(caches[t][o].full_slubs)
         /\ ListInv => /\ Distinct(caches[t][o].partial_slubs)
                       /\ Distinct(caches[t][o].full_slubs)
<1>1. caches[t][o] \in CacheType
  BY DEF HeapType
<1>2. "partial_slubs" \in Names /\ "full_slubs" \in Names
  BY DEF Names
<1> QED BY <1>1, <1>2 DEF CacheType, Nodes, ListInv

\* Cache::alloc with a partial page keeps the invariant: the page changes lists
\* when its last free object is taken.
LEMMA TakeKeeps ==
  ASSUME HInv, NEW t \in Tiers, NEW size \in LayoutSizes,
         layout_order(size) < SLUB_MAX_ORDER,
         caches[t][layout_order(size)].partial_slubs # <<>>,
         NEW ptr \in slub[Head(caches[t][layout_order(size)].partial_slubs)].free_list,
         slub' = alloc_obj(Head(caches[t][layout_order(size)].partial_slubs), ptr),
         caches' = [caches EXCEPT ![t][layout_order(size)] =
                      FromPartial(@, Head(caches[t][layout_order(size)].partial_slubs))],
         Gains(ptr, size), UNCHANGED vars
  PROVE  HeapType' /\ ListInv' /\ FrameInv' /\ ObjInv'
<1> DEFINE o == layout_order(size)
           cache == caches[t][o]
           part == cache.partial_slubs
           full == cache.full_slubs
           page == Head(part)
           c == FromPartial(cache, page)
           new == [ptr |-> ptr, size |-> size]
<1>0. /\ HeapType /\ ListInv /\ FrameInv /\ ObjInv /\ IInv /\ o \in CacheOrders
      /\ frames' = frames /\ objects' = objects \cup {new}
  BY LayoutOrder DEF HInv, CInv, vars, Gains
<1>1. /\ cache \in CacheType /\ part \in Seq(Nat) /\ full \in Seq(Nat)
      /\ Nodes(t, o, "partial_slubs") = Elems(part) /\ Nodes(t, o, "full_slubs") = Elems(full)
      /\ Distinct(part) /\ Distinct(full)
  BY <1>0, CacheLists
<1>2. /\ page \in Nat /\ page \in Elems(part) /\ Tail(part) \in Seq(Nat)
      /\ Elems(Tail(part)) = Elems(part) \ {page} /\ Distinct(Tail(part))
  BY <1>1, PopList
<1>n. "partial_slubs" \in Names /\ "full_slubs" \in Names /\ "partial_slubs" # "full_slubs"
  BY DEF Names
<1>7. /\ caches' = [caches EXCEPT ![t][o] = c] /\ slub' = alloc_obj(page, ptr)
      /\ ptr \in slub[page].free_list
  OBVIOUS
<1>f. c = IF slub[page].inuse + 1 = slub[page].objects
          THEN [partial_slubs |-> Tail(part), full_slubs |-> <<page>> \o full] ELSE cache
  BY DEF FromPartial
<1>p. part = cache.partial_slubs /\ full = cache.full_slubs
  OBVIOUS
<1> HIDE DEF o, cache, part, full, page, c
<1>3. page \in DOMAIN slub /\ page \in Home(o) /\ page \in Nodes(t, o, "partial_slubs")
  <2>1. page \in Nodes(t, o, "partial_slubs")
    BY <1>1, <1>2
  <2>2. page \in DOMAIN slub
    BY <1>0, <1>n, <2>1 DEF ListInv
  <2> QED BY <1>n, <2>1, <2>2 DEF Home
<1>4. HeaderOK(page, o, slub[page]) /\ slub[page].free_list # {} /\ page \notin Elems(full)
  <2>1. HeaderOK(page, o, slub[page]) /\ slub[page].free_list # {}
    BY <1>0, <1>3, <1>n DEF ListInv
  <2>2. page \in Nodes(t, o, "full_slubs") => slub[page].free_list = {}
    BY <1>0, <1>n DEF ListInv
  <2> QED BY <1>1, <2>1, <2>2
<1>5. /\ DOMAIN slub' = DOMAIN slub /\ slub' \in [DOMAIN slub' -> Headers]
      /\ \A p \in DOMAIN slub \ {page} : slub'[p] = slub[p]
      /\ slub'[page].page_size = slub[page].page_size
      /\ slub'[page].objects = slub[page].objects
      /\ slub'[page].free_list = slub[page].free_list \ {ptr}
      /\ slub'[page].inuse = slub[page].inuse + 1
  BY <1>0, <1>3, <1>7, TakeHeader
<1>6. /\ HeaderOK(page, o, slub'[page])
      /\ slub[page].inuse + 1 = slub[page].objects <=> slub'[page].free_list = {}
  <2>1. HeaderTaken(slub[page], slub'[page], ptr)
    BY <1>5 DEF HeaderTaken
  <2>2. /\ ptr \in slub[page].free_list /\ HeaderOK(page, o, slub[page])
        /\ o \in CacheOrders /\ page \in Nat
    BY <1>0, <1>2, <1>4, <1>7
  <2> QED BY <2>1, <2>2, HeaderTake
<1>8. /\ <<page>> \o full \in Seq(Nat) /\ Elems(<<page>> \o full) = Elems(full) \cup {page}
      /\ Distinct(<<page>> \o full)
  BY <1>1, <1>2, <1>4, PushList
<1>9. /\ c \in CacheType
      /\ \/ /\ slub'[page].free_list = {}
            /\ c.partial_slubs = Tail(part) /\ c.full_slubs = <<page>> \o full
         \/ slub'[page].free_list # {} /\ c.partial_slubs = part /\ c.full_slubs = full
  BY <1>1, <1>2, <1>6, <1>8, <1>f, <1>p DEF CacheType
<1>10. ASSUME NEW l \in Names
       PROVE  /\ Distinct(c[l]) /\ Elems(c[l]) \ {page} = Nodes(t, o, l) \ {page}
              /\ page \in Elems(c[l]) <=> (l = "partial_slubs" <=> slub'[page].free_list # {})
  <2>1. CASE l = "partial_slubs"
    BY <1>1, <1>2, <1>9, <2>1
  <2>2. CASE l = "full_slubs"
    BY <1>1, <1>4, <1>8, <1>9, <1>n, <2>2
  <2> QED BY <2>1, <2>2 DEF Names
<1>11. /\ caches' \in [Tiers -> [CacheOrders -> CacheType]] /\ ListInv' /\ page \in Home(o)'
       /\ \A r \in CacheOrders : Home(r)' \ {page} = Home(r) \ {page}
  <2>1. /\ DOMAIN slub' \ {page} = DOMAIN slub \ {page} /\ page \in DOMAIN slub'
        /\ \A p \in DOMAIN slub \ {page} : slub'[p] = slub[p]
        /\ caches' = [caches EXCEPT ![t][o] = c]
    BY <1>3, <1>5, <1>7
  <2>2. \E l \in Names : page \in Nodes(t, o, l)
    BY <1>3, <1>n
  <2>3. CacheChanges(t, o, page, c)
    BY <1>6, <1>10, <2>1, <2>2 DEF CacheChanges
  <2> QED BY <1>0, <1>2, <1>9, <2>1, <2>3, CacheChange
<1>12. FrameInv'
  <2>1. \A p \in DOMAIN slub : slub'[p].page_size = slub[p].page_size
    BY <1>5
  <2> QED BY <1>0, <1>5, <2>1 DEF FrameInv, PageFrame
<1>13. ptr \in slub[page].free_list /\ ptr \in Carved(page, Pow2[o]) /\ ptr \in Nat
  <2>1. ptr \in slub[page].free_list
    BY DEF page, part, cache, o
  <2> QED BY <1>0, <1>2, <1>4, <2>1, CarvedRoom DEF HeaderOK
<1>14. new.ptr = ptr /\ new.size = size /\ layout_order(new.size) = o /\ new \in [ptr : Nat, size : LayoutSizes]
  BY <1>13 DEF o
<1> HIDE DEF new
<1>15. HeapType'
  BY <1>0, <1>5, <1>11, <1>14 DEF HeapType
<1>16. InPage(new)'
  <2>1. ptr \in Carved(page, Pow2[o]) \ slub'[page].free_list
    BY <1>5, <1>13
  <2> QED BY <1>11, <1>14, <2>1 DEF InPage
<1>17. ASSUME NEW x \in objects, layout_order(x.size) < SLUB_MAX_ORDER PROVE InPage(x)'
  <2>1. InPage(x) /\ layout_order(x.size) \in CacheOrders
    BY <1>0, <1>17, LayoutOrder DEF ObjInv, HeapType
  <2> QED BY <1>0, <1>3, <1>5, <1>11, <2>1, PageObjectStays
<1>18. ASSUME NEW x \in objects, layout_order(x.size) >= SLUB_MAX_ORDER PROVE InBlock(x)'
  <2>1. InBlock(x)
    BY <1>0, <1>18 DEF ObjInv
  <2> QED BY <1>0, <1>5, <2>1 DEF InBlock
<1>19. \A y \in objects : y.ptr # ptr
  BY <1>0, <1>3, <1>13, FreeIsFree
<1>20. ~ (o >= SLUB_MAX_ORDER)
  <2>1. o < SLUB_MAX_ORDER /\ o \in Int /\ SLUB_MAX_ORDER \in Int
    BY LayoutOrder DEF o
  <2> QED BY <2>1, SMT
<1>21. ObjInv'
  BY <1>0, <1>14, <1>16, <1>17, <1>18, <1>19, <1>20 DEF ObjInv
<1> QED BY <1>11, <1>12, <1>15, <1>21

\* A block that the heap has not is no page, and no object is in it.
LEMMA OwnBlock ==
  ASSUME HInv, NEW f \in frames, f \notin HeapBlocks
  PROVE  /\ f.start \in Nat /\ f.start \notin DOMAIN slub
         /\ \A y \in objects : y.ptr \notin BlockUnits(f)
<1>0. IInv /\ HeapBlocks \subseteq frames
  BY DEF HInv, CInv, HeapBlocks
<1>1. f.start \in Nat
  BY <1>0 DEF IInv, TypeOK, FrameValues
<1>2. f.start \notin DOMAIN slub
  BY DEF HeapBlocks
<1>3. ASSUME NEW y \in objects, y.ptr \in BlockUnits(f) PROVE FALSE
  <2>1. ASSUME NEW g \in HeapBlocks, y.ptr \in BlockUnits(g) PROVE FALSE
    <3>1. g \in frames
      BY <1>0
    <3>2. f = g
      BY <1>0, <1>3, <2>1, <3>1, OneBlock
    <3> QED BY <3>2
  <2> QED BY <2>1, ObjectPlace
<1> QED BY <1>1, <1>2, <1>3

\* A block of its own for an object keeps the invariant.
LEMMA BigArrives ==
  ASSUME HInv, NEW size \in LayoutSizes, layout_order(size) >= SLUB_MAX_ORDER,
         NEW frame \in frames, frame \notin HeapBlocks,
         frame.size = BlockFor(UnitsFor(layout_order(size))),
         Gains(frame.start * PageUnits, size), UNCHANGED <<caches, slub, vars>>
  PROVE  HeapType' /\ ListInv' /\ FrameInv' /\ ObjInv'
<1> DEFINE o == layout_order(size)
           ptr == frame.start * PageUnits
           new == [ptr |-> ptr, size |-> size]
<1>0. /\ HeapType /\ ListInv /\ FrameInv /\ ObjInv /\ IInv
      /\ caches' = caches /\ slub' = slub /\ frames' = frames /\ objects' = objects \cup {new}
  BY DEF HInv, CInv, vars, Gains
<1>1. /\ frame.start \notin DOMAIN slub /\ \A y \in objects : y.ptr # ptr
      /\ ptr \in Nat
  <2>1. ptr \in BlockUnits(frame) /\ ptr \in Nat
    BY <1>0, FirstUnit
  <2> QED BY <2>1, OwnBlock
<1>2. /\ ListInv' /\ \A r : Home(r)' = Home(r)
      /\ caches' \in [Tiers -> [CacheOrders -> CacheType]] /\ slub' \in [DOMAIN slub' -> Headers]
  BY <1>0, ListSame
<1>3. FrameInv'
  BY <1>0 DEF FrameInv, PageFrame
<1>4. /\ new.ptr = ptr /\ layout_order(new.size) = o /\ new \in [ptr : Nat, size : LayoutSizes]
      /\ frame.size = BlockFor(Pow2[o])
  BY <1>1 DEF UnitsFor
<1>5. ~ (o < SLUB_MAX_ORDER)
  <2>1. o >= SLUB_MAX_ORDER /\ o \in Int /\ SLUB_MAX_ORDER \in Int
    BY LayoutOrder
  <2> QED BY <2>1, SMT
<1> DEFINE at == frame.start * PageUnits
<1>6. ptr = at
  OBVIOUS
<1> HIDE DEF new, ptr, o
<1>7. HeapType'
  BY <1>0, <1>2, <1>4 DEF HeapType
<1>8. InBlock(new)'
  BY <1>0, <1>1, <1>4, <1>6 DEF InBlock
<1>9. ASSUME NEW x \in objects, layout_order(x.size) < SLUB_MAX_ORDER PROVE InPage(x)'
  <2>1. InPage(x)
    BY <1>0, <1>9 DEF ObjInv
  <2> QED BY <1>0, <1>2, <2>1 DEF InPage
<1>10. ASSUME NEW x \in objects, layout_order(x.size) >= SLUB_MAX_ORDER PROVE InBlock(x)'
  <2>1. InBlock(x)
    BY <1>0, <1>10 DEF ObjInv
  <2> QED BY <1>0, <2>1 DEF InBlock
<1>11. ObjInv'
  BY <1>0, <1>1, <1>4, <1>5, <1>8, <1>9, <1>10 DEF ObjInv
<1> QED BY <1>2, <1>3, <1>7, <1>11

\* A new slub page keeps the invariant: it goes to the partial list of the
\* cache that asked, with its first object taken.
LEMMA SmallArrives ==
  ASSUME HInv, NEW t \in Tiers, NEW size \in LayoutSizes, layout_order(size) < SLUB_MAX_ORDER,
         NEW frame \in frames, frame \notin HeapBlocks,
         frame.size = BlockFor(UnitsFor(layout_order(size))),
         NEW ptr \in Carved(frame.start, Pow2[layout_order(size)]),
         slub' = [p \in DOMAIN slub \cup {frame.start} |->
           IF p = frame.start THEN NewHeader(p, Pow2[layout_order(size)], ptr) ELSE slub[p]],
         caches' = [caches EXCEPT ![t][layout_order(size)].partial_slubs = <<frame.start>> \o @],
         Gains(ptr, size), UNCHANGED vars
  PROVE  HeapType' /\ ListInv' /\ FrameInv' /\ ObjInv'
<1> DEFINE o == layout_order(size)
           page == frame.start
           cache == caches[t][o]
           part == cache.partial_slubs
           c == [cache EXCEPT !.partial_slubs = <<page>> \o part]
           h == NewHeader(page, Pow2[o], ptr)
           z == page_size(Pow2[o])
           new == [ptr |-> ptr, size |-> size]
<1>0. /\ HeapType /\ ListInv /\ FrameInv /\ ObjInv /\ IInv /\ o \in CacheOrders
      /\ frames' = frames /\ objects' = objects \cup {new}
  BY LayoutOrder DEF HInv, CInv, vars, Gains
<1>1. page \in Nat /\ page \notin DOMAIN slub /\ \A y \in objects : y.ptr \notin BlockUnits(frame)
  BY OwnBlock
<1>2. ~ (o >= SLUB_MAX_ORDER)
  <2>1. o < SLUB_MAX_ORDER /\ o \in Int /\ SLUB_MAX_ORDER \in Int
    BY LayoutOrder
  <2> QED BY <2>1, SMT
<1>3. frame = PageFrame(page, z)
  <2>1. frame \in FrameValues /\ frame.size = BlockFor(z)
    BY <1>0, <1>2 DEF IInv, TypeOK, UnitsFor
  <2> QED BY <2>1 DEF FrameValues, PageFrame
<1>4. /\ DOMAIN slub' = DOMAIN slub \cup {page} /\ slub'[page] = h
      /\ \A p \in DOMAIN slub \ {page} : slub'[p] = slub[p]
  OBVIOUS
<1>5. caches' = [caches EXCEPT ![t][o] = c]
  OBVIOUS
<1>6. HeaderOK(page, o, h) /\ h.free_list # {} /\ h \in Headers /\ ptr \notin h.free_list
  BY <1>0, <1>1, HeaderNew
<1>7. h.page_size = z
  BY <1>6 DEF HeaderOK
<1>8. ptr \in Carved(page, Pow2[o]) /\ ptr \in Nat /\ ptr \in BlockUnits(frame)
  <2>1. ptr \in Carved(page, Pow2[o])
    OBVIOUS
  <2>2. ptr \in (page * PageUnits) .. (page * PageUnits + z - 1)
    BY <1>0, <1>1, <2>1, CarvedIn
  <2>3. ptr \in Nat
    BY <1>0, <1>1, <2>1, CarvedRoom
  <2> QED BY <1>0, <1>1, <1>3, <2>1, <2>2, <2>3, PageInBlock
<1>9. /\ cache \in CacheType /\ part \in Seq(Nat) /\ cache.full_slubs \in Seq(Nat)
      /\ Nodes(t, o, "partial_slubs") = Elems(part)
      /\ Nodes(t, o, "full_slubs") = Elems(cache.full_slubs)
      /\ Distinct(part) /\ Distinct(cache.full_slubs)
  BY <1>0, CacheLists
<1>10. new.ptr = ptr /\ layout_order(new.size) = o /\ new \in [ptr : Nat, size : LayoutSizes]
  BY <1>8
<1> HIDE DEF o, page, h, z, new, part, cache
<1>n. "partial_slubs" \in Names /\ "full_slubs" \in Names /\ "partial_slubs" # "full_slubs"
  BY DEF Names
<1>11. page \notin Elems(part) /\ page \notin Elems(cache.full_slubs)
  <2>1. page \notin Nodes(t, o, "partial_slubs")
    BY <1>0, <1>1, <1>n DEF ListInv
  <2>2. page \notin Nodes(t, o, "full_slubs")
    BY <1>0, <1>1, <1>n DEF ListInv
  <2> QED BY <1>9, <2>1, <2>2
<1>12. /\ <<page>> \o part \in Seq(Nat) /\ Elems(<<page>> \o part) = Elems(part) \cup {page}
       /\ Distinct(<<page>> \o part)
  BY <1>1, <1>9, <1>11, PushList
<1>13. c \in CacheType /\ c.partial_slubs = <<page>> \o part /\ c.full_slubs = cache.full_slubs
  BY <1>9, <1>12 DEF CacheType
<1> HIDE DEF c
<1>14. ASSUME NEW l \in Names
       PROVE  /\ Distinct(c[l]) /\ Elems(c[l]) \ {page} = Nodes(t, o, l) \ {page}
              /\ page \in Elems(c[l]) <=> l = "partial_slubs"
  <2>1. CASE l = "partial_slubs"
    BY <1>9, <1>12, <1>13, <2>1
  <2>2. CASE l = "full_slubs"
    BY <1>9, <1>11, <1>13, <1>n, <2>2
  <2> QED BY <2>1, <2>2 DEF Names
<1>15. /\ caches' \in [Tiers -> [CacheOrders -> CacheType]] /\ ListInv' /\ page \in Home(o)'
       /\ \A r \in CacheOrders : Home(r)' \ {page} = Home(r) \ {page}
  <2>1. DOMAIN slub' \ {page} = DOMAIN slub \ {page} /\ page \in DOMAIN slub'
    BY <1>4
  <2>2. CacheChanges(t, o, page, c)
    BY <1>1, <1>4, <1>5, <1>6, <1>14, <2>1 DEF CacheChanges
  <2> QED BY <1>0, <1>1, <1>13, <2>1, <2>2, CacheChange
<1>16. HeapType'
  <2>1. ASSUME NEW p \in DOMAIN slub' PROVE slub'[p] \in Headers
    BY <1>0, <1>4, <1>6, <2>1 DEF HeapType
  <2>2. slub' = [p \in DOMAIN slub' |-> slub'[p]]
    OBVIOUS
  <2>3. slub' \in [DOMAIN slub' -> Headers]
    BY <2>1, <2>2
  <2> QED BY <1>0, <1>10, <1>15, <2>3 DEF HeapType
<1>17. FrameInv'
  <2>1. ASSUME NEW p \in DOMAIN slub' PROVE PageFrame(p, slub'[p].page_size) \in frames
    <3>1. CASE p = page
      BY <1>3, <1>4, <1>7, <3>1
    <3>2. CASE p # page
      BY <1>0, <1>4, <2>1, <3>2 DEF FrameInv
    <3> QED BY <3>1, <3>2
  <2> QED BY <1>0, <2>1 DEF FrameInv, PageFrame
<1>18. InPage(new)'
  <2>1. ptr \in Carved(page, Pow2[o]) \ slub'[page].free_list
    BY <1>4, <1>6, <1>8
  <2> QED BY <1>10, <1>15, <2>1 DEF InPage
<1>19. ASSUME NEW x \in objects, layout_order(x.size) < SLUB_MAX_ORDER PROVE InPage(x)'
  <2>1. InPage(x) /\ layout_order(x.size) \in CacheOrders
    BY <1>0, <1>19, LayoutOrder DEF ObjInv, HeapType
  <2> QED BY <1>0, <1>1, <1>4, <1>15, <2>1, PageObjectStays
<1>20. ASSUME NEW x \in objects, layout_order(x.size) >= SLUB_MAX_ORDER PROVE InBlock(x)'
  <2>1. PICK f \in frames : /\ x.ptr = f.start * PageUnits /\ f.start \notin DOMAIN slub
                            /\ f.size = BlockFor(Pow2[layout_order(x.size)])
    BY <1>0, <1>20 DEF ObjInv, InBlock
  <2>2. f.start # page
    <3>1. frame.start * PageUnits \in BlockUnits(frame)
      BY <1>0, FirstUnit
    <3> QED BY <1>1, <2>1, <3>1 DEF page
  <2> QED BY <1>0, <1>4, <2>1, <2>2 DEF InBlock
<1>21. ObjInv'
  <2>1. \A y \in objects : y.ptr # ptr
    BY <1>1, <1>8
  <2> QED BY <1>0, <1>2, <1>10, <1>18, <1>19, <1>20, <2>1 DEF ObjInv
<1> QED BY <1>15, <1>16, <1>17, <1>21

\* BlockArrives keeps the invariant.
LEMMA BlockArrivesKeeps ==
  ASSUME HInv, BlockArrives
  PROVE  HeapType' /\ ListInv' /\ FrameInv' /\ ObjInv' /\ CallInv'
<1> DEFINE o == layout_order(call.size)
<1>1. call.tier \in Tiers /\ call.size \in LayoutSizes
  BY DEF BlockArrives, HInv, CallInv
<1>2. PICK frame \in frames \ call.had :
        \/ /\ o >= SLUB_MAX_ORDER
           /\ Gains(frame.start * PageUnits, call.size)
           /\ UNCHANGED <<caches, slub>>
        \/ /\ o < SLUB_MAX_ORDER
           /\ \E ptr \in Carved(frame.start, Pow2[o]) :
                /\ slub' = [p \in DOMAIN slub \cup {frame.start} |->
                     IF p = frame.start THEN NewHeader(p, Pow2[o], ptr) ELSE slub[p]]
                /\ Gains(ptr, call.size)
           /\ caches' = [caches EXCEPT ![call.tier][o].partial_slubs = <<frame.start>> \o @]
  BY DEF BlockArrives
<1>3. /\ frame \in frames /\ frame \notin HeapBlocks /\ frame.size = BlockFor(UnitsFor(o))
      /\ UNCHANGED vars /\ call' = NoCall
  BY DEF BlockArrives, HInv, CallInv
<1>4. HeapType' /\ ListInv' /\ FrameInv' /\ ObjInv'
  BY <1>1, <1>2, <1>3, BigArrives, SmallArrives
<1> QED BY <1>3, <1>4 DEF CallInv, NoCall

\* An allocation in the caches of a tier keeps it.
LEMMA CacheAllocKeeps ==
  ASSUME HInv, NEW t \in Tiers, NEW size \in LayoutSizes, CacheAlloc(t, size)
  PROVE  HeapType' /\ ListInv' /\ FrameInv' /\ ObjInv' /\ CallInv'
<1> DEFINE o == layout_order(size)
           page == Head(caches[t][o].partial_slubs)
<1>1. ASSUME o < SLUB_MAX_ORDER, caches[t][o].partial_slubs # <<>>,
             NEW ptr \in slub[page].free_list, slub' = alloc_obj(page, ptr),
             caches' = [caches EXCEPT ![t][o] = FromPartial(@, page)],
             Gains(ptr, size), call' = NoCall, UNCHANGED vars
      PROVE  HeapType' /\ ListInv' /\ FrameInv' /\ ObjInv' /\ CallInv'
  <2>1. HeapType' /\ ListInv' /\ FrameInv' /\ ObjInv'
    BY <1>1, TakeKeeps
  <2> QED BY <1>1, <2>1 DEF CallInv, NoCall
<1>2. ASSUME alloc_frame(PagesFor(UnitsFor(o))),
             call' = [tier |-> t, size |-> size, had |-> frames],
             UNCHANGED <<caches, slub, objects>>
      PROVE  HeapType' /\ ListInv' /\ FrameInv' /\ ObjInv' /\ CallInv'
  BY <1>2, RequestKeeps
<1> QED BY <1>1, <1>2 DEF CacheAlloc

\* So does a request that the buddy allocator could not serve.
LEMMA NoBlockArrivesKeeps ==
  ASSUME HInv, NoBlockArrives
  PROVE  HeapType' /\ ListInv' /\ FrameInv' /\ ObjInv' /\ CallInv'
<1>1. call.size \in LayoutSizes
  BY DEF NoBlockArrives, HInv, CallInv
<1>2. CASE CacheAlloc("slow_caches", call.size)
  BY <1>1, <1>2, TierNames, CacheAllocKeeps
<1>3. CASE call' = NoCall /\ UNCHANGED <<vars, caches, slub, objects>>
  <2>1. HeapBlocks \subseteq frames'
    BY <1>3 DEF HeapBlocks, vars
  <2>2. HeapType' /\ ListInv' /\ FrameInv' /\ ObjInv'
    BY <1>3, <2>1, BlocksStay
  <2> QED BY <1>3, <2>2 DEF CallInv, NoCall
<1> QED BY <1>2, <1>3 DEF NoBlockArrives

\* Drop of an object that is a block keeps the invariant.
LEMMA BigGiven ==
  ASSUME HInv, NEW object \in objects, layout_order(object.size) >= SLUB_MAX_ORDER,
         Drop([start |-> object.ptr \div PageUnits, size |-> BlockFor(Pow2[layout_order(object.size)])]),
         UNCHANGED <<caches, slub>>, objects' = objects \ {object}
  PROVE  HeapType' /\ ListInv' /\ FrameInv' /\ ObjInv'
<1>0. /\ HeapType /\ ListInv /\ FrameInv /\ ObjInv /\ IInv /\ caches' = caches /\ slub' = slub
  BY DEF HInv, CInv
<1>1. PICK f \in frames : /\ object.ptr = f.start * PageUnits /\ f.start \notin DOMAIN slub
                          /\ f.size = BlockFor(Pow2[layout_order(object.size)])
  BY <1>0 DEF ObjInv, InBlock
<1>2. frames' = frames \ {f}
  <2>1. f \in FrameValues /\ f.start \in Nat /\ PageUnits \in Nat /\ PageUnits >= 1
    BY <1>0, Powers DEF IInv, TypeOK, FrameValues
  <2>2. object.ptr \div PageUnits = f.start
    BY <1>1, <2>1, Quotient
  <2>3. f = [start |-> object.ptr \div PageUnits, size |-> BlockFor(Pow2[layout_order(object.size)])]
    BY <1>1, <2>1, <2>2 DEF FrameValues
  <2> QED BY <2>3 DEF Drop
<1>3. /\ ListInv' /\ \A r : Home(r)' = Home(r)
      /\ caches' \in [Tiers -> [CacheOrders -> CacheType]] /\ slub' \in [DOMAIN slub' -> Headers]
  BY <1>0, ListSame
<1>4. HeapType'
  BY <1>0, <1>3 DEF HeapType
<1>5. FrameInv'
  <2>1. ASSUME NEW p \in DOMAIN slub PROVE PageFrame(p, slub[p].page_size) \in frames'
    <3>1. PageFrame(p, slub[p].page_size).start = p
      BY DEF PageFrame
    <3> QED BY <1>0, <1>1, <1>2, <3>1 DEF FrameInv
  <2> QED BY <1>0, <2>1 DEF FrameInv, PageFrame
<1>6. ASSUME NEW x \in objects, layout_order(x.size) < SLUB_MAX_ORDER PROVE InPage(x)'
  <2>1. InPage(x)
    BY <1>0, <1>6 DEF ObjInv
  <2> QED BY <1>0, <1>3, <2>1 DEF InPage
<1>7. ASSUME NEW x \in objects, x # object, layout_order(x.size) >= SLUB_MAX_ORDER PROVE InBlock(x)'
  <2>1. PICK g \in frames : /\ x.ptr = g.start * PageUnits /\ g.start \notin DOMAIN slub
                            /\ g.size = BlockFor(Pow2[layout_order(x.size)])
    BY <1>0, <1>7 DEF ObjInv, InBlock
  <2>2. x.ptr # object.ptr
    BY <1>0, <1>7 DEF ObjInv
  <2>3. g # f
    BY <1>1, <2>1, <2>2
  <2> QED BY <1>0, <1>2, <2>1, <2>3 DEF InBlock
<1>8. ObjInv'
  BY <1>0, <1>6, <1>7 DEF ObjInv
<1> QED BY <1>3, <1>4, <1>5, <1>8

\* The search of Cache::dealloc in a list finds this page, or nothing if the
\* page is not on the list.
Finds(list, ptr, page) ==
  /\ Around(list, ptr) # {} <=> page \in Elems(list)
  /\ page \in Elems(list) =>
       PageOf(list, ptr) \in DOMAIN list /\ list[PageOf(list, ptr)] = page

\* It finds the page that the object is on.
LEMMA FoundAt ==
  ASSUME HInv, NEW o \in CacheOrders, NEW page \in Home(o), NEW ptr \in Carved(page, Pow2[o]),
         NEW t \in Tiers, NEW l \in Names
  PROVE  Finds(caches[t][o][l], ptr, page)
<1> DEFINE list == caches[t][o][l]
           z == page_size(Pow2[o])
           A == Around(list, ptr)
<1>0. IInv /\ ListInv /\ FrameInv /\ HeapType /\ Nodes(t, o, l) = Elems(list)
  BY DEF HInv, CInv, Nodes
<1>1. list \in Seq(Nat)
  BY <1>0 DEF HeapType, CacheType, Names
<1>2. DOMAIN list \subseteq Nat
  BY <1>1, SMT
<1> HIDE DEF list
<1>3. page \in Nat /\ ptr \in (page * PageUnits) .. (page * PageUnits + z - 1)
  BY <1>0, PageIn, CarvedIn
<1>4. ASSUME NEW i \in DOMAIN list
      PROVE  list[i] \in Home(o) /\ slub[list[i]].page_size = z
  <2>1. list[i] \in Nodes(t, o, l)
    BY <1>0 DEF Elems
  <2>2. list[i] \in DOMAIN slub /\ HeaderOK(list[i], o, slub[list[i]])
    BY <1>0, <2>1 DEF ListInv
  <2> QED BY <2>1, <2>2 DEF Home, HeaderOK
<1>5. ASSUME NEW i \in A PROVE i \in DOMAIN list /\ list[i] = page
  <2>1. i \in DOMAIN list
    BY <1>5 DEF Around
  <2>2. ptr \in (list[i] * PageUnits) .. (list[i] * PageUnits + slub[list[i]].page_size - 1)
    BY <1>5 DEF Around
  <2>3. list[i] \in Home(o) /\ slub[list[i]].page_size = z
    BY <1>4, <2>1
  <2>4. ptr \in (list[i] * PageUnits) .. (list[i] * PageUnits + z - 1)
    BY <2>2, <2>3
  <2>5. list[i] = page
    BY <1>0, <1>3, <2>3, <2>4, OnePage
  <2> QED BY <2>1, <2>5
<1>6. ASSUME page \in Elems(list) PROVE A # {}
  <2>1. PICK i \in DOMAIN list : page = list[i]
    BY <1>6 DEF Elems
  <2>2. i \in A
    BY <1>3, <1>4, <2>1 DEF Around
  <2> QED BY <2>2
<1>7. A # {} => PageOf(list, ptr) \in A
  <2>1. A \subseteq Nat
    BY <1>2 DEF Around
  <2> HIDE DEF A
  <2>2. A # {} => Min(A) \in A
    BY <2>1, MinIsMember
  <2> QED BY <2>2 DEF PageOf, A
<1> HIDE DEF A
<1>8. page \in Elems(list) <=> A # {}
  BY <1>5, <1>6 DEF Elems
<1>9. page \in Elems(list) => PageOf(list, ptr) \in DOMAIN list /\ list[PageOf(list, ptr)] = page
  BY <1>5, <1>7, <1>8
<1> QED BY <1>8, <1>9 DEF Finds, list, A

\* The page that Cache::dealloc finds, and the lists that it leaves: the page is
\* on the partial one, or on none if the object was its last.
DeallocLeaves(t, o, page, r) ==
  /\ r.page = page /\ r.cache \in CacheType
  /\ r.empty <=> slub[page].inuse - 1 = 0
  /\ \A l \in Names :
       /\ Distinct(r.cache[l]) /\ Elems(r.cache[l]) \ {page} = Nodes(t, o, l) \ {page}
       /\ page \in Elems(r.cache[l]) <=> ~ r.empty /\ l = "partial_slubs"

\* It does so for an object in use.
LEMMA DeallocResult ==
  ASSUME HInv, NEW o \in CacheOrders, NEW page \in Home(o),
         NEW ptr \in Carved(page, Pow2[o]) \ slub[page].free_list,
         NEW t \in Tiers, NEW m \in Names, page \in Nodes(t, o, m)
  PROVE  DeallocLeaves(t, o, page, CacheDealloc(caches[t][o], ptr))
<1> DEFINE cache == caches[t][o]
           part == cache.partial_slubs
           full == cache.full_slubs
           i == PageOf(full, ptr)
           j == PageOf(part, ptr)
           r == CacheDealloc(cache, ptr)
           h == slub[page]
<1>0. IInv /\ ListInv /\ FrameInv /\ HeapType
  BY DEF HInv, CInv
<1>1. /\ cache \in CacheType /\ part \in Seq(Nat) /\ full \in Seq(Nat)
      /\ Nodes(t, o, "partial_slubs") = Elems(part) /\ Nodes(t, o, "full_slubs") = Elems(full)
      /\ Distinct(part) /\ Distinct(full)
  BY <1>0, CacheLists
<1>2. page \in Nat /\ HeaderOK(page, o, h) /\ ptr \in Carved(page, Pow2[o]) /\ ptr \notin h.free_list
  BY <1>0, PageIn
<1>n. "partial_slubs" \in Names /\ "full_slubs" \in Names /\ "partial_slubs" # "full_slubs"
  BY DEF Names
<1>3. /\ page \in Elems(part) => h.free_list # {}
      /\ page \in Elems(full) => h.free_list = {}
      /\ page \in Elems(part) \/ page \in Elems(full)
  <2>1. page \in Nodes(t, o, "partial_slubs") => h.free_list # {}
    BY <1>0, <1>n DEF ListInv
  <2>2. page \in Nodes(t, o, "full_slubs") => h.free_list = {}
    BY <1>0, <1>n DEF ListInv
  <2>3. page \in Nodes(t, o, "partial_slubs") \/ page \in Nodes(t, o, "full_slubs")
    BY DEF Names
  <2> QED BY <1>1, <2>1, <2>2, <2>3
<1>4. /\ Around(full, ptr) # {} <=> page \in Elems(full)
      /\ page \in Elems(full) => i \in DOMAIN full /\ full[i] = page
  <2>1. Finds(cache["full_slubs"], ptr, page)
    BY <1>2, <1>n, FoundAt
  <2> QED BY <2>1 DEF Finds
<1>5. page \in Elems(part) => j \in DOMAIN part /\ part[j] = page
  <2>1. Finds(cache["partial_slubs"], ptr, page)
    BY <1>2, <1>n, FoundAt
  <2> QED BY <2>1 DEF Finds
<1>6. /\ Around(full, ptr) # {} =>
           r = [page |-> full[i], empty |-> FALSE,
                cache |-> [partial_slubs |-> <<full[i]>> \o part, full_slubs |-> remove(full, i)]]
      /\ Around(full, ptr) = {} =>
           r = [page |-> part[j], empty |-> (slub[part[j]].inuse - 1 = 0),
                cache |-> IF slub[part[j]].inuse - 1 = 0
                          THEN [cache EXCEPT !.partial_slubs = remove(part, j)] ELSE cache]
  BY DEF CacheDealloc, FromPartialFreed, LastObject
<1>p. part = cache.partial_slubs /\ full = cache.full_slubs
  OBVIOUS
<1> DEFINE Goal ==
             /\ r.page = page /\ r.cache \in CacheType
             /\ r.empty <=> h.inuse - 1 = 0
             /\ \A l \in Names :
                  /\ Distinct(r.cache[l]) /\ Elems(r.cache[l]) \ {page} = Nodes(t, o, l) \ {page}
                  /\ page \in Elems(r.cache[l]) <=> ~ r.empty /\ l = "partial_slubs"
<1> SUFFICES Goal
  BY DEF DeallocLeaves
<1> HIDE DEF cache, part, full, i, j, r
<1>7. CASE page \in Elems(full)
  <2>0. r = [page |-> page, empty |-> FALSE,
             cache |-> [partial_slubs |-> <<page>> \o part, full_slubs |-> remove(full, i)]]
    BY <1>4, <1>6, <1>7
  <2>1. /\ r.page = page /\ ~ r.empty
        /\ r.cache = [partial_slubs |-> <<page>> \o part, full_slubs |-> remove(full, i)]
    BY <2>0
  <2>2. page \notin Elems(part) /\ h.free_list = {}
    BY <1>3, <1>7
  <2>3. /\ remove(full, i) \in Seq(Nat) /\ Distinct(remove(full, i))
        /\ Elems(remove(full, i)) = Elems(full) \ {page}
    BY <1>1, <1>4, <1>7, RemoveList
  <2>4. /\ <<page>> \o part \in Seq(Nat) /\ Elems(<<page>> \o part) = Elems(part) \cup {page}
        /\ Distinct(<<page>> \o part)
    BY <1>1, <1>2, <2>2, PushList
  <2>5. /\ r.cache \in CacheType
        /\ r.cache.partial_slubs = <<page>> \o part /\ r.cache.full_slubs = remove(full, i)
    <3> DEFINE c == [partial_slubs |-> <<page>> \o part, full_slubs |-> remove(full, i)]
    <3>1. c \in CacheType
      BY <2>3, <2>4 DEF CacheType
    <3>2. c.partial_slubs = <<page>> \o part /\ c.full_slubs = remove(full, i)
      OBVIOUS
    <3>3. r.cache = c
      BY <2>1
    <3> HIDE DEF c
    <3> QED BY <3>1, <3>2, <3>3
  <2>6. ASSUME NEW l \in Names
        PROVE  /\ Distinct(r.cache[l]) /\ Elems(r.cache[l]) \ {page} = Nodes(t, o, l) \ {page}
               /\ page \in Elems(r.cache[l]) <=> l = "partial_slubs"
    <3>1. CASE l = "partial_slubs"
      BY <1>1, <2>4, <2>5, <3>1
    <3>2. CASE l = "full_slubs"
      BY <1>1, <1>n, <2>3, <2>5, <3>2
    <3> QED BY <3>1, <3>2 DEF Names
  <2>7. h.inuse - 1 # 0
    <3> DEFINE k == [page_size |-> h.page_size, objects |-> h.objects,
                     free_list |-> h.free_list \cup {ptr}, inuse |-> h.inuse - 1]
    <3>1. HeaderGiven(h, k, ptr)
      BY DEF HeaderGiven
    <3>2. ptr \in Carved(page, Pow2[o]) \ h.free_list
      BY <1>2
    <3> HIDE DEF k
    <3>3. h.inuse - 1 = 0 => Carved(page, Pow2[o]) \ h.free_list = {ptr}
      BY <1>2, <3>1, <3>2, HeaderGive
    <3>4. Carved(page, Pow2[o]) \ {ptr} # {}
      BY <1>2, CarvedRoom
    <3> QED BY <2>2, <3>3, <3>4
  <2>8. \A l \in Names :
          /\ Distinct(r.cache[l]) /\ Elems(r.cache[l]) \ {page} = Nodes(t, o, l) \ {page}
          /\ page \in Elems(r.cache[l]) <=> ~ r.empty /\ l = "partial_slubs"
    BY <2>1, <2>6
  <2> QED BY <2>1, <2>5, <2>7, <2>8
<1>8. CASE page \notin Elems(full)
  <2>1. page \in Elems(part) /\ Around(full, ptr) = {} /\ part[j] = page /\ j \in DOMAIN part
    BY <1>3, <1>4, <1>5, <1>8
  <2>0. r = [page |-> page, empty |-> (h.inuse - 1 = 0),
             cache |-> IF h.inuse - 1 = 0
                       THEN [cache EXCEPT !.partial_slubs = remove(part, j)] ELSE cache]
    BY <1>6, <2>1
  <2> HIDE DEF h
  <2>2. /\ r.page = page /\ (r.empty <=> h.inuse - 1 = 0)
        /\ h.inuse - 1 = 0 => r.cache = [cache EXCEPT !.partial_slubs = remove(part, j)]
        /\ h.inuse - 1 # 0 => r.cache = cache
    BY <2>0
  <2>3. CASE h.inuse - 1 # 0
    <3>1. r.cache \in CacheType /\ r.cache.partial_slubs = part /\ r.cache.full_slubs = full
      BY <1>1, <1>p, <2>2, <2>3
    <3>2. ASSUME NEW l \in Names
          PROVE  /\ Distinct(r.cache[l]) /\ Elems(r.cache[l]) \ {page} = Nodes(t, o, l) \ {page}
                 /\ page \in Elems(r.cache[l]) <=> l = "partial_slubs"
      <4>1. CASE l = "partial_slubs"
        BY <1>1, <2>1, <3>1, <4>1
      <4>2. CASE l = "full_slubs"
        BY <1>1, <1>8, <1>n, <3>1, <4>2
      <4> QED BY <4>1, <4>2 DEF Names
    <3>3. \A l \in Names :
            /\ Distinct(r.cache[l]) /\ Elems(r.cache[l]) \ {page} = Nodes(t, o, l) \ {page}
            /\ page \in Elems(r.cache[l]) <=> ~ r.empty /\ l = "partial_slubs"
      BY <2>2, <2>3, <3>2
    <3> QED BY <2>2, <3>1, <3>3
  <2>4. CASE h.inuse - 1 = 0
    <3>1. /\ remove(part, j) \in Seq(Nat) /\ Distinct(remove(part, j))
          /\ Elems(remove(part, j)) = Elems(part) \ {page}
      BY <1>1, <2>1, RemoveList
    <3>2. /\ r.cache \in CacheType
          /\ r.cache.partial_slubs = remove(part, j) /\ r.cache.full_slubs = full
      BY <1>1, <1>p, <2>2, <2>4, <3>1 DEF CacheType
    <3>3. ASSUME NEW l \in Names
          PROVE  /\ Distinct(r.cache[l]) /\ Elems(r.cache[l]) \ {page} = Nodes(t, o, l) \ {page}
                 /\ page \notin Elems(r.cache[l])
      <4>1. CASE l = "partial_slubs"
        BY <1>1, <3>1, <3>2, <4>1
      <4>2. CASE l = "full_slubs"
        BY <1>1, <1>8, <3>2, <4>2
      <4> QED BY <4>1, <4>2 DEF Names
    <3>4. \A l \in Names :
            /\ Distinct(r.cache[l]) /\ Elems(r.cache[l]) \ {page} = Nodes(t, o, l) \ {page}
            /\ page \in Elems(r.cache[l]) <=> ~ r.empty /\ l = "partial_slubs"
      BY <2>2, <2>4, <3>3
    <3> QED BY <2>2, <3>2, <3>4
  <2> QED BY <2>3, <2>4
<1> QED BY <1>7, <1>8

\* The header of a page after dealloc_obj, and the other headers.
LEMMA GiveHeader ==
  ASSUME HeapType, NEW page \in DOMAIN slub, slub[page].inuse > 0, NEW ptr \in Nat,
         slub' = dealloc_obj(page, ptr)
  PROVE  /\ DOMAIN slub' = DOMAIN slub /\ slub' \in [DOMAIN slub' -> Headers]
         /\ \A p \in DOMAIN slub \ {page} : slub'[p] = slub[p]
         /\ HeaderGiven(slub[page], slub'[page], ptr)
<1> DEFINE h == slub[page]
           S == h.free_list \cup {ptr}
           n == h.inuse - 1
           k == HeaderWith(h, S, n)
<1>1. h \in Headers
  BY DEF HeapType
<1>2. slub' = [slub EXCEPT ![page] = k]
  BY <1>1 DEF dealloc_obj, HeapType, Headers, HeaderWith
<1>s. S \in SUBSET Nat /\ n \in Nat
  <2>1. h.free_list \in SUBSET Nat /\ h.inuse \in Nat /\ h.inuse > 0
    BY <1>1 DEF Headers
  <2> HIDE DEF h
  <2>2. h.inuse - 1 \in Nat
    BY <2>1, SMT
  <2> QED BY <2>1, <2>2
<1> HIDE DEF h, S, n
<1>3. /\ k \in Headers /\ k.page_size = h.page_size /\ k.objects = h.objects
      /\ k.free_list = S /\ k.inuse = n
  BY <1>1, <1>s, HeaderFields
<1> HIDE DEF k
<1>4. DOMAIN slub' = DOMAIN slub /\ slub'[page] = k /\ \A p \in DOMAIN slub \ {page} : slub'[p] = slub[p]
  BY <1>2 DEF HeapType
<1>5. slub' \in [DOMAIN slub' -> Headers]
  BY <1>2, <1>3 DEF HeapType
<1> QED BY <1>3, <1>4, <1>5 DEF h, S, n, HeaderGiven

\* The release of an object on a page keeps the invariant.
LEMMA SmallGiven ==
  ASSUME HInv, NEW object \in objects, NEW o \in CacheOrders, o = layout_order(object.size),
         NEW page \in Home(o), object.ptr \in Carved(page, Pow2[o]) \ slub[page].free_list,
         NEW t \in Tiers, NEW m \in Names, page \in Nodes(t, o, m),
         GivenBack(CacheDealloc(caches[t][o], object.ptr), object.ptr),
         caches' = [caches EXCEPT ![t][o] = CacheDealloc(caches[t][o], object.ptr).cache],
         objects' = objects \ {object}
  PROVE  HeapType' /\ ListInv' /\ FrameInv' /\ ObjInv'
<1> DEFINE ptr == object.ptr
           r == CacheDealloc(caches[t][o], ptr)
           c == r.cache
           h == slub[page]
<1>0. HeapType /\ ListInv /\ FrameInv /\ ObjInv /\ IInv
  BY DEF HInv, CInv
<1>1. /\ r.page = page /\ c \in CacheType /\ (r.empty <=> h.inuse - 1 = 0)
      /\ \A l \in Names : Distinct(c[l]) /\ Elems(c[l]) \ {page} = Nodes(t, o, l) \ {page}
      /\ \A l \in Names : page \in Elems(c[l]) <=> ~ r.empty /\ l = "partial_slubs"
  <2>1. DeallocLeaves(t, o, page, r)
    BY DeallocResult
  <2> HIDE DEF r
  <2> QED BY <2>1 DEF DeallocLeaves
<1>2. /\ caches' = [caches EXCEPT ![t][o] = c]
      /\ \/ ~ r.empty /\ slub' = dealloc_obj(page, ptr) /\ UNCHANGED vars
         \/ /\ r.empty
            /\ slub' = [p \in DOMAIN slub \ {page} |-> slub[p]]
            /\ Drop(PageFrame(page, h.page_size))
  BY <1>1 DEF GivenBack, PageFrame
<1>3. /\ page \in Nat /\ page \in DOMAIN slub /\ HeaderOK(page, o, h)
      /\ ptr \in Carved(page, Pow2[o]) \ h.free_list
  BY <1>0, PageIn
<1>4. ptr \in Nat /\ h.inuse > 0
  BY <1>3, CarvedRoom, HeaderCounts
<1>5. \E l \in Names : page \in Nodes(t, o, l)
  OBVIOUS
<1>6. ASSUME NEW x \in objects, x # object PROVE x.ptr # ptr
  BY <1>0, <1>6 DEF ObjInv
<1>7. ASSUME NEW x \in objects, layout_order(x.size) < SLUB_MAX_ORDER
      PROVE  InPage(x) /\ layout_order(x.size) \in CacheOrders
  BY <1>0, <1>7, LayoutOrder DEF ObjInv, HeapType
<1> HIDE DEF ptr, r, c
<1>8. CASE ~ r.empty
  <2>1. slub' = dealloc_obj(page, ptr) /\ frames' = frames /\ h.inuse - 1 # 0
    BY <1>1, <1>2, <1>8 DEF vars
  <2>2. /\ DOMAIN slub' = DOMAIN slub /\ slub' \in [DOMAIN slub' -> Headers]
        /\ \A p \in DOMAIN slub \ {page} : slub'[p] = slub[p]
        /\ HeaderGiven(h, slub'[page], ptr)
    BY <1>0, <1>3, <1>4, <2>1, GiveHeader
  <2>3. HeaderOK(page, o, slub'[page])
    BY <1>3, <2>1, <2>2, HeaderGive
  <2>4. slub'[page].free_list = h.free_list \cup {ptr} /\ slub'[page].page_size = h.page_size
    BY <2>2 DEF HeaderGiven
  <2>5. CacheChanges(t, o, page, c)
    <3>1. slub'[page].free_list # {} /\ page \in DOMAIN slub'
      BY <1>3, <2>2, <2>4
    <3>2. \A l \in Names : page \in Elems(c[l]) <=>
            page \in DOMAIN slub' /\ (l = "partial_slubs" <=> slub'[page].free_list # {})
      BY <1>1, <1>8, <3>1
    <3> QED BY <1>1, <1>2, <1>5, <2>2, <2>3, <3>2 DEF CacheChanges
  <2>6. /\ caches' \in [Tiers -> [CacheOrders -> CacheType]] /\ ListInv' /\ page \in Home(o)'
        /\ \A q \in CacheOrders : Home(q)' \ {page} = Home(q) \ {page}
    BY <1>0, <1>1, <1>3, <2>2, <2>5, CacheChange
  <2>7. HeapType'
    BY <1>0, <2>2, <2>6 DEF HeapType
  <2>8. FrameInv'
    <3>1. \A p \in DOMAIN slub : slub'[p].page_size = slub[p].page_size
      BY <2>2, <2>4
    <3> QED BY <1>0, <2>1, <2>2, <3>1 DEF FrameInv, PageFrame
  <2>9. ASSUME NEW x \in objects, x # object, layout_order(x.size) < SLUB_MAX_ORDER PROVE InPage(x)'
    <3>1. InPage(x) /\ layout_order(x.size) \in CacheOrders /\ x.ptr # ptr
      BY <1>6, <1>7, <2>9
    <3>2. x.ptr \in Carved(page, Pow2[o]) \ slub[page].free_list =>
            page \in DOMAIN slub' /\ x.ptr \notin slub'[page].free_list
      BY <1>3, <2>2, <2>4, <3>1
    <3> QED BY <1>0, <2>2, <2>6, <3>1, <3>2, PageObjectStays
  <2>10. ASSUME NEW x \in objects, layout_order(x.size) >= SLUB_MAX_ORDER PROVE InBlock(x)'
    <3>1. InBlock(x)
      BY <1>0, <2>10 DEF ObjInv
    <3> QED BY <2>1, <2>2, <3>1 DEF InBlock
  <2>11. ObjInv'
    BY <1>0, <2>9, <2>10 DEF ObjInv
  <2> QED BY <2>6, <2>7, <2>8, <2>11
<1>9. CASE r.empty
  <2>1. /\ DOMAIN slub' = DOMAIN slub \ {page}
        /\ \A p \in DOMAIN slub \ {page} : slub'[p] = slub[p]
        /\ frames' = frames \ {PageFrame(page, h.page_size)} /\ h.inuse - 1 = 0
    BY <1>1, <1>2, <1>9 DEF Drop
  <2>2. Carved(page, Pow2[o]) \ h.free_list = {ptr}
    <3> DEFINE k == [page_size |-> h.page_size, objects |-> h.objects,
                     free_list |-> h.free_list \cup {ptr}, inuse |-> h.inuse - 1]
    <3>1. HeaderGiven(h, k, ptr)
      BY DEF HeaderGiven
    <3> HIDE DEF k
    <3>2. h.inuse - 1 = 0 => Carved(page, Pow2[o]) \ h.free_list = {ptr}
      BY <1>3, <3>1, HeaderGive
    <3> QED BY <2>1, <3>2
  <2>3. CacheChanges(t, o, page, c)
    BY <1>1, <1>2, <1>5, <1>9, <2>1 DEF CacheChanges
  <2>4. /\ caches' \in [Tiers -> [CacheOrders -> CacheType]] /\ ListInv'
        /\ \A q \in CacheOrders : Home(q)' \ {page} = Home(q) \ {page}
    BY <1>0, <1>1, <1>3, <2>3, CacheChange
  <2>5. HeapType'
    <3>1. slub' = [p \in DOMAIN slub \ {page} |-> slub[p]]
      BY <1>2, <1>9
    <3>2. slub' \in [DOMAIN slub' -> Headers]
      BY <1>0, <2>1, <3>1 DEF HeapType
    <3> QED BY <1>0, <2>4, <3>2 DEF HeapType
  <2>6. FrameInv'
    <3>1. ASSUME NEW p \in DOMAIN slub' PROVE PageFrame(p, slub'[p].page_size) \in frames'
      <4>1. p \in DOMAIN slub /\ p # page /\ slub'[p] = slub[p]
        BY <2>1, <3>1
      <4>2. PageFrame(p, slub[p].page_size) # PageFrame(page, h.page_size)
        BY <4>1 DEF PageFrame
      <4> QED BY <1>0, <2>1, <4>1, <4>2 DEF FrameInv
    <3> QED BY <3>1 DEF FrameInv, PageFrame
  <2>7. ASSUME NEW x \in objects, x # object, layout_order(x.size) < SLUB_MAX_ORDER PROVE InPage(x)'
    <3>1. InPage(x) /\ layout_order(x.size) \in CacheOrders /\ x.ptr # ptr
      BY <1>6, <1>7, <2>7
    <3>2. x.ptr \notin Carved(page, Pow2[o]) \ slub[page].free_list /\ page \notin DOMAIN slub'
      BY <2>1, <2>2, <3>1
    <3> QED BY <1>0, <2>1, <2>4, <3>1, <3>2, PageObjectStays
  <2>8. ASSUME NEW x \in objects, layout_order(x.size) >= SLUB_MAX_ORDER PROVE InBlock(x)'
    <3>1. PICK f \in frames : /\ x.ptr = f.start * PageUnits /\ f.start \notin DOMAIN slub
                              /\ f.size = BlockFor(Pow2[layout_order(x.size)])
      BY <1>0, <2>8 DEF ObjInv, InBlock
    <3>2. f # PageFrame(page, h.page_size)
      <4>1. PageFrame(page, h.page_size).start = page
        BY DEF PageFrame
      <4> QED BY <1>3, <3>1, <4>1
    <3> QED BY <2>1, <3>1, <3>2 DEF InBlock
  <2>9. ObjInv'
    BY <1>0, <2>7, <2>8 DEF ObjInv
  <2> QED BY <2>4, <2>5, <2>6, <2>9
<1> QED BY <1>8, <1>9

\* Caches::dealloc asks the tier that has the page, and keeps the invariant.
LEMMA DeallocKeeps ==
  ASSUME HInv, NEW object \in objects, dealloc(object)
  PROVE  HeapType' /\ ListInv' /\ FrameInv' /\ ObjInv' /\ CallInv'
<1> DEFINE o == layout_order(object.size)
           ptr == object.ptr
           tier == IF Has(caches["cpu_caches"][o], ptr) THEN "cpu_caches" ELSE "slow_caches"
<1>0. HeapType /\ ListInv /\ FrameInv /\ ObjInv /\ IInv
  BY DEF HInv, CInv
<1>1. call' = NoCall /\ objects' = objects \ {object}
  BY DEF dealloc
<1>2. CASE o >= SLUB_MAX_ORDER /\ UNCHANGED <<caches, slub>>
           /\ Drop([start |-> object.ptr \div PageUnits, size |-> BlockFor(Pow2[o])])
  <2>1. HeapType' /\ ListInv' /\ FrameInv' /\ ObjInv'
    BY <1>1, <1>2, BigGiven
  <2> QED BY <1>1, <2>1 DEF CallInv, NoCall
<1>3. CASE /\ o < SLUB_MAX_ORDER
           /\ GivenBack(CacheDealloc(caches[tier][o], ptr), ptr)
           /\ caches' = [caches EXCEPT ![tier][o] = CacheDealloc(caches[tier][o], ptr).cache]
  <2>1. o \in CacheOrders
    BY <1>0, <1>3, LayoutOrder DEF HeapType
  <2>2. PICK page \in Home(o) : ptr \in Carved(page, Pow2[o]) \ slub[page].free_list
    BY <1>0, <1>3 DEF ObjInv, InPage
  <2>3. PICK t \in Tiers, m \in Names : page \in Nodes(t, o, m)
    BY DEF Home
  <2>4. ASSUME NEW l \in Names
        PROVE  Around(caches["cpu_caches"][o][l], ptr) # {} <=> page \in Nodes("cpu_caches", o, l)
    <3>1. Finds(caches["cpu_caches"][o][l], ptr, page)
      BY <2>1, <2>2, TierNames, FoundAt
    <3> QED BY <3>1 DEF Finds, Nodes
  <2>5. Has(caches["cpu_caches"][o], ptr) <=> \E l \in Names : page \in Nodes("cpu_caches", o, l)
    <3>1. "partial_slubs" \in Names /\ "full_slubs" \in Names
      BY DEF Names
    <3>2. Has(caches["cpu_caches"][o], ptr) <=>
            \/ Around(caches["cpu_caches"][o]["full_slubs"], ptr) # {}
            \/ Around(caches["cpu_caches"][o]["partial_slubs"], ptr) # {}
      BY DEF Has
    <3>3. \A l \in Names : l = "partial_slubs" \/ l = "full_slubs"
      BY DEF Names
    <3> QED BY <2>4, <3>1, <3>2, <3>3
  <2>6. (\E l \in Names : page \in Nodes("cpu_caches", o, l)) <=> t = "cpu_caches"
    BY <1>0, <2>1, <2>3, TierNames DEF ListInv
  <2>7. tier = t
    BY <2>5, <2>6 DEF Tiers
  <2> HIDE DEF tier
  <2>8. HeapType' /\ ListInv' /\ FrameInv' /\ ObjInv'
    BY <1>1, <1>3, <2>1, <2>2, <2>3, <2>7, SmallGiven
  <2> QED BY <1>1, <2>8 DEF CallInv, NoCall
<1> QED BY <1>2, <1>3 DEF dealloc

-----------------------------------------------------------------------------
(* Theorems *)

\* The heap starts with no page and no object.
LEMMA InitHInv == HeapInit => HInv
<1> SUFFICES ASSUME HeapInit PROVE HInv
  OBVIOUS
<1>0. /\ Init /\ caches = [tier \in Tiers |-> NewCaches] /\ slub = <<>> /\ call = NoCall /\ objects = {}
  BY DEF HeapInit
<1>1. CInv /\ SegInv
  BY <1>0, InitCInv DEF Init, SegInv
<1>2. DOMAIN slub = {}
  BY <1>0, SMT
<1>3. \A t \in Tiers, o \in CacheOrders, l \in Names : caches[t][o][l] = <<>>
  <2> DEFINE none == [partial_slubs |-> <<>>, full_slubs |-> <<>>]
  <2>1. \A l \in Names : none[l] = <<>>
    BY SMT DEF Names
  <2>2. \A t \in Tiers, o \in CacheOrders : caches[t][o] = none
    BY <1>0 DEF NewCaches
  <2> HIDE DEF none
  <2> QED BY <2>1, <2>2
<1>4. <<>> \in Seq(Nat) /\ DOMAIN <<>> = {}
  BY SMT
<1>5. \A t \in Tiers, o \in CacheOrders, l \in Names :
        Nodes(t, o, l) = {} /\ Distinct(caches[t][o][l])
  BY <1>3, <1>4 DEF Nodes, Elems, Distinct
<1>6. HeapType
  <2>1. NewCaches \in [CacheOrders -> CacheType]
    BY <1>4 DEF NewCaches, CacheType
  <2>2. caches \in [Tiers -> [CacheOrders -> CacheType]]
    BY <1>0, <2>1
  <2>3. slub \in [DOMAIN slub -> Headers]
    BY <1>0, <1>2, SMT
  <2> QED BY <1>0, <2>2, <2>3 DEF HeapType
<1>7. ListInv
  BY <1>2, <1>5 DEF ListInv
<1> QED BY <1>0, <1>1, <1>2, <1>6, <1>7 DEF HInv, FrameInv, ObjInv, CallInv

\* Every step of the heap, the loops of the buddy allocator and the others that
\* use it included, keeps the invariant.
LEMMA HeapStep == HInv /\ [HeapNext]_allVars => HInv'
<1> SUFFICES ASSUME HInv, [HeapNext]_allVars PROVE HInv'
  OBVIOUS
<1>1. CInv' /\ SegInv'
  BY BuddyKept
<1> DEFINE Rest == HeapType' /\ ListInv' /\ FrameInv' /\ ObjInv' /\ CallInv'
<1> SUFFICES Rest
  BY <1>1 DEF HInv
<1>2. CASE (Loop \/ Others) /\ UNCHANGED heapVars
  BY <1>2, LoopKeeps
<1>3. CASE BlockArrives
  BY <1>3, BlockArrivesKeeps
<1>4. CASE NoBlockArrives
  BY <1>4, NoBlockArrivesKeeps
<1>5. ASSUME NEW size \in LayoutSizes, alloc(size) PROVE Rest
  BY <1>5, TierNames, CacheAllocKeeps DEF alloc
<1>6. ASSUME NEW object \in objects, dealloc(object) PROVE Rest
  BY <1>6, DeallocKeeps
<1>7. CASE UNCHANGED allVars
  <2>1. UNCHANGED <<vars, heapVars>>
    BY <1>7 DEF allVars
  <2>2. HeapBlocks \subseteq frames' /\ UNCHANGED <<caches, slub, objects, call>> /\ frames' = frames
        /\ pc' = pc /\ segs' = segs /\ need' = need /\ want' = want
    BY <2>1 DEF HeapBlocks, vars, heapVars
  <2>3. HeapType' /\ ListInv' /\ FrameInv' /\ ObjInv'
    BY <2>2, BlocksStay
  <2>4. HeapBlocks' = HeapBlocks
    BY <2>2 DEF HeapBlocks
  <2>5. CallInv'
    BY <2>2, <2>4 DEF HInv, CallInv
  <2> QED BY <2>3, <2>5
<1> HIDE DEF Rest
<1> QED BY <1>2, <1>3, <1>4, <1>5, <1>6, <1>7 DEF HeapNext, HeapCall

\* HInv is inductive.
THEOREM HeapInductive == HeapSpec => []HInv
BY InitHInv, HeapStep, PTL DEF HeapSpec

\* Objects share no memory with each other, with a header or with a free
\* object, and lie in blocks of the heap, whatever the sizes of pages, headers
\* and objects and the sequence of calls.
THEOREM ObjectsApartTheorem == HeapSpec => []ObjectsApart
BY InvObjectsApart, HeapInductive, PTL

\* Every slub page is on one list, the one that its free objects say; its
\* header counts its objects; and its block goes back with the size it came.
THEOREM PagesListedTheorem == HeapSpec => []PagesListed
BY InvPagesListed, HeapInductive, PTL

\* The buddy allocator keeps its promises with the heap as its caller, which
\* asks for other sizes and drops frames it computes from addresses.
THEOREM HeapNoOverlapTheorem == HeapSpec => []NoOverlap
<1>1. HInv => NoOverlap
  BY DEF HInv, CInv, IInv
<1> QED BY <1>1, HeapInductive, PTL

\* With the heap as a caller, a block is never free together with its buddy.
THEOREM HeapCoalescedTheorem == HeapSpec => []Coalesced
<1>1. HInv => Coalesced
  BY DEF HInv, CInv
<1> QED BY <1>1, HeapInductive, PTL

\* No page gets lost between the heap, the others and the free lists, but by a
\* merge at the largest order.
THEOREM HeapConservedTheorem == HeapSpec => Conserved
<1>1. HInv /\ [HeapNext]_allVars =>
        [~ MergeTop => FreePages' \cup FramePages' \cup LoopPages' =
                         FreePages \cup FramePages \cup LoopPages]_vars
  BY HeapIsStep, KnownStep DEF Known, HInv, CInv
<1> QED BY <1>1, HeapInductive, PTL DEF HeapSpec, Conserved

\* A heap allocation that gets null from the buddy allocator, like a frame
\* that others ask for, fails only if there is no free run for its block.
THEOREM HeapRoomTheorem == HeapSpec => RoomIsFound
<1>1. HInv =>
        [AllocFails => \A s \in AlignedStart .. AvailEnd :
           s % OrderSize[want] = 0 => ~ Pages(s, OrderSize[want]) \subseteq FreePages]_vars
  BY RoomStep DEF HInv
<1> QED BY <1>1, HeapInductive, PTL DEF HeapSpec, RoomIsFound

\* What alloc_frames returns is enough, with the heap between its calls.
THEOREM HeapSegmentsTheorem == HeapSpec => SegmentsSuffice
<1>1. HInv => SInv
  BY DEF HInv, CInv, SInv
<1>2. HInv /\ [HeapNext]_allVars =>
        [pc = "split" /\ pc' = "idle" => Cardinality(PagesOf(frames' \ frames)) >= asked]_vars
  BY <1>1, HeapIsStep, SufficeStep
<1> QED BY <1>2, HeapInductive, PTL DEF HeapSpec, SegmentsSuffice

=============================================================================
