---------------------------- MODULE BuddyProofs ----------------------------
(***************************************************************************)
(* Proofs about the buddy allocator, for every number of orders, every     *)
(* memory range and all request sizes.                                     *)
(***************************************************************************)
EXTENDS Buddy, WellFoundedInduction, FiniteSetTheorems, TLAPS

\* The prover of the steps that name none.
USE ZenonT(30)

-----------------------------------------------------------------------------
(* Orders and sizes *)

\* A non-empty set of natural numbers has a minimum, and Min is it: what
\* BuddyAllocator::alloc chooses is in the set it chooses from.
LEMMA MinIsMember ==
  ASSUME NEW S \in SUBSET Nat, S # {}
  PROVE  Min(S) \in S /\ \A y \in S : Min(S) =< y
<1>1. IsWellFoundedOn(OpToRel(<, Nat), Nat)
  BY NatLessThanWellFounded, Zenon
<1>2. PICK x \in S : \A y \in S : ~ (<<y, x>> \in OpToRel(<, Nat))
  BY <1>1, WFMin, Zenon
<1>3. \A y \in S : x =< y
  <2> SUFFICES ASSUME NEW y \in S PROVE x =< y
    OBVIOUS
  <2>1. ~ (<<y, x>> \in {ss \in Nat \X Nat : ss[1] < ss[2]})
    BY <1>2, Zenon DEF OpToRel
  <2> QED BY <2>1, SMT
<1> QED BY <1>3 DEF Min

\* Orders are natural numbers from 0 to Top, and a block has a page at least.
LEMMA OrdersAndSizes ==
  /\ Top \in Orders /\ 0 \in Orders /\ Orders \subseteq Nat
  /\ \A o \in Orders : /\ o =< Top
                       /\ o # Top => o + 1 \in Orders
                       /\ OrderSize[o] \in Nat /\ OrderSize[o] >= 1
  /\ \A o \in Orders : o # 0 => /\ o - 1 \in Orders
                                /\ OrderSize[o] = 2 * OrderSize[o - 1]
<1>1. /\ Top \in Orders /\ 0 \in Orders /\ Orders \subseteq Nat
      /\ \A o \in Orders : o =< Top /\ (o # Top => o + 1 \in Orders)
      /\ \A o \in Orders : o # 0 => o - 1 \in Orders \ {Top} /\ (o - 1) + 1 = o
  BY OrderAssumption, SMT DEF Orders, Top
<1>2. \A o \in Orders : OrderSize[o] \in Nat /\ OrderSize[o] >= 1
  BY SizeAssumption, SMT
<1>3. \A o \in Orders : o # 0 => OrderSize[o] = 2 * OrderSize[o - 1]
  <2> SUFFICES ASSUME NEW o \in Orders, o # 0 PROVE OrderSize[o] = 2 * OrderSize[o - 1]
    OBVIOUS
  <2>1. OrderSize[(o - 1) + 1] = 2 * OrderSize[o - 1]
    BY <1>1, SizeAssumption
  <2> QED BY <1>1, <2>1
<1> QED BY <1>1, <1>2, <1>3

\* A higher order is a larger block.
LEMMA OrderGrows ==
  \A p \in Orders : \A o \in Orders : o < p => OrderSize[o] < OrderSize[p]
<1> DEFINE bad == {p \in Orders : \E o \in Orders : o < p /\ OrderSize[o] >= OrderSize[p]}
<1>1. SUFFICES ASSUME bad # {} PROVE FALSE
  BY OrdersAndSizes, SMT
<1>2. bad \in SUBSET Nat
  BY OrdersAndSizes
<1> DEFINE p == Min(bad)
<1>3. p \in bad /\ \A q \in bad : p =< q
  <2> HIDE DEF bad
  <2> QED BY <1>1, <1>2, MinIsMember
<1> HIDE DEF p
<1>4. PICK o \in Orders : o < p /\ OrderSize[o] >= OrderSize[p]
  BY <1>3
<1>5. p \in Orders /\ p # 0 /\ p - 1 \in Orders /\ OrderSize[p] = 2 * OrderSize[p - 1]
  BY <1>3, <1>4, OrdersAndSizes, SMT
<1>6. p - 1 \notin bad
  BY <1>3, <1>5, OrdersAndSizes, SMT
<1>7. o = p - 1 \/ OrderSize[o] < OrderSize[p - 1]
  BY <1>4, <1>5, <1>6, OrdersAndSizes, SMT
<1> QED BY <1>4, <1>5, <1>7, OrdersAndSizes, SMT

\* size_to_order answers with an order.
LEMMA SizeToOrderType ==
  ASSUME NEW size \in Nat
  PROVE  size_to_order(size) \in Orders
<1> DEFINE enough == {o \in Orders : size =< OrderSize[o]}
<1>1. enough \in SUBSET Nat
  BY OrdersAndSizes
<1>2. enough # {} => Min(enough) \in enough
  <2> HIDE DEF enough
  <2> QED BY <1>1, MinIsMember
<1>3. enough # {} => Min(enough) \in Orders
  BY <1>2
<1> QED BY <1>3, OrdersAndSizes DEF size_to_order

\* The order that Drop computes from Frame.size is the one that alloc used.
LEMMA SizeToOrderInverse ==
  ASSUME NEW o \in Orders
  PROVE  size_to_order(OrderSize[o]) = o
<1> DEFINE enough == {p \in Orders : OrderSize[o] =< OrderSize[p]}
           m == Min(enough)
<1>0. OrderSize[o] \in Nat /\ o \in Nat
  BY OrdersAndSizes
<1>1. enough \in SUBSET Nat /\ o \in enough
  <2>1. Orders \subseteq Nat
    BY OrdersAndSizes
  <2>2. OrderSize[o] =< OrderSize[o]
    BY <1>0, SMT
  <2> QED BY <2>1, <2>2
<1>2. m \in enough /\ m =< o
  <2> HIDE DEF enough
  <2> QED BY <1>1, MinIsMember
<1>3. m \in Orders /\ OrderSize[o] =< OrderSize[m] /\ m =< o
  BY <1>2
<1>4. size_to_order(OrderSize[o]) = m
  BY <1>1 DEF size_to_order
<1> HIDE DEF m, enough
<1>5. ~ m < o
  <2>1. m < o => OrderSize[m] < OrderSize[o]
    BY <1>3, OrderGrows
  <2> QED BY <2>1, <1>0, <1>3, OrdersAndSizes, SMT
<1> QED BY <1>0, <1>3, <1>4, <1>5, OrdersAndSizes, SMT

\* The buddy of a block lies directly above or directly below it.
LEMMA BuddyAdjacent ==
  ASSUME NEW s \in Nat, NEW o \in Orders
  PROVE  buddy_address(s, o) \in {s + OrderSize[o], s - OrderSize[o]}
BY DEF buddy_address

-----------------------------------------------------------------------------
(* The inductive invariant *)

\* What the loops have done so far: add has only pushed blocks below the one
\* it is at; a split goes down to the wanted order; and a Frame has the size
\* of a block, so that Drop finds the block's order again.
LoopInv ==
  /\ pc = "add" =>
       /\ frames = {} /\ segs = {}
       /\ AlignedStart =< cur.start
       /\ \A o \in Orders : \A s \in free_list[o] : s + OrderSize[o] =< cur.start
  /\ pc = "split" => want =< cur.order
  /\ \A f \in frames \cup segs : \E o \in Orders : f.size = OrderSize[o]

IInv == TypeOK /\ LoopInv /\ NoOverlap

\* The part of NoOverlap that does not depend on the running loop.
Settled == FreeApart /\ FramesApart /\ AllInRange

\* The block of n pages at s is disjoint from all others.
Alone(s, n) ==
  /\ InRange(s, n)
  /\ \A o \in Orders : \A t \in free_list[o] : Apart(t, OrderSize[o], s, n)
  /\ \A f \in frames \cup segs : Apart(f.start, f.size, s, n)

\* The same in the next state.
NewAlone(s, n) ==
  /\ InRange(s, n)
  /\ \A o \in Orders : \A t \in free_list'[o] : Apart(t, OrderSize[o], s, n)
  /\ \A f \in frames' \cup segs' : Apart(f.start, f.size, s, n)

\* push of a block that is disjoint from all others keeps them disjoint.
LEMMA PushSettled ==
  ASSUME TypeOK, Settled, NEW o \in Orders, NEW s \in Nat, Alone(s, OrderSize[o]),
         push(o, s), UNCHANGED <<frames, segs>>
  PROVE  Settled'
<1>1. \A p \in Orders : free_list'[p] = IF p = o THEN free_list[o] \cup {s} ELSE free_list[p]
  BY DEF push, TypeOK
<1>2. \A p \in Orders : \A t \in free_list'[p] : t \in free_list[p] \/ (p = o /\ t = s)
  BY <1>1
<1>3. FreeApart'
  <2> SUFFICES ASSUME NEW p \in Orders, NEW q \in Orders,
                      NEW t \in free_list'[p], NEW u \in free_list'[q]
               PROVE  <<p, t>> = <<q, u>> \/ Apart(t, OrderSize[p], u, OrderSize[q])
    BY DEF FreeApart, Apart
  <2>1. CASE t \in free_list[p] /\ u \in free_list[q]
    BY <2>1 DEF Settled, FreeApart
  <2>2. CASE t \in free_list[p] /\ q = o /\ u = s
    BY <2>2 DEF Alone
  <2>3. CASE u \in free_list[q] /\ p = o /\ t = s
    BY <2>3 DEF Alone, Apart
  <2> QED BY <1>2, <2>1, <2>2, <2>3
<1>4. FramesApart'
  BY <1>2 DEF Settled, FramesApart, Alone, Apart
<1>5. AllInRange'
  BY <1>2 DEF Settled, AllInRange, Alone, InRange
<1> QED BY <1>3, <1>4, <1>5 DEF Settled

\* Taking a block off a list keeps the others disjoint and leaves it alone.
LEMMA PopSettled ==
  ASSUME TypeOK, Settled, NEW o \in Orders, NEW s \in free_list[o],
         free_list' = [free_list EXCEPT ![o] = @ \ {s}], UNCHANGED <<frames, segs>>
  PROVE  Settled' /\ NewAlone(s, OrderSize[o])
<1>1. \A p \in Orders : /\ free_list'[p] \subseteq free_list[p]
                        /\ p = o => s \notin free_list'[p]
  BY DEF TypeOK
<1>2. FreeApart' /\ FramesApart' /\ AllInRange'
  BY <1>1 DEF Settled, FreeApart, FramesApart, AllInRange, InRange, Apart
<1>3. InRange(s, OrderSize[o])
  BY DEF Settled, AllInRange
<1>4. \A p \in Orders : \A t \in free_list'[p] : Apart(t, OrderSize[p], s, OrderSize[o])
  BY <1>1 DEF Settled, FreeApart
<1>5. \A f \in frames \cup segs : Apart(f.start, f.size, s, OrderSize[o])
  BY DEF Settled, FramesApart, Apart
<1> QED BY <1>2, <1>3, <1>4, <1>5 DEF Settled, NewAlone

-----------------------------------------------------------------------------
(* Every step keeps the invariant. *)

\* Calls as any caller can make them, of whatever size: the heap's are not
\* among Sizes.
AnyCall ==
  \/ \E size \in Nat \ {0} : alloc_frame(size) \/ alloc_frames(size)
  \/ \E frame \in frames : Drop(frame)

Step == Loop \/ AnyCall

\* The steps of the specification are steps with the sizes it names.
LEMMA NextIsStep == [Next]_vars => [Step]_vars
BY RequestAssumption DEF Next, Call, Step, AnyCall

\* No step writes an ill-typed value.
LEMMA TypeStep == IInv /\ [Step]_vars => TypeOK'
<1> SUFFICES ASSUME IInv, [Step]_vars PROVE TypeOK'
  OBVIOUS
<1> USE DEF IInv
<1>0. /\ TypeOK /\ LoopInv
      /\ cur.start \in Nat /\ cur.order \in Orders
      /\ OrderSize[cur.order] \in Nat /\ OrderSize[cur.order] >= 1
      /\ 0 \in Orders /\ Orders \subseteq Nat
  BY OrdersAndSizes DEF TypeOK, Blocks
<1>a. NoBlock \in Blocks
  BY <1>0 DEF NoBlock, Blocks
<1>b. ASSUME NEW o \in Orders, NEW s \in Nat, push(o, s)
      PROVE  free_list' \in [Orders -> SUBSET Nat]
  BY <1>0, <1>b DEF push, TypeOK
<1>c. ASSUME NEW o \in Orders, NEW s, free_list' = [free_list EXCEPT ![o] = @ \ {s}]
      PROVE  free_list' \in [Orders -> SUBSET Nat]
  BY <1>0, <1>c DEF TypeOK
<1>d. \A f \in frames \cup segs : BlockOf(f) \in Blocks
  BY <1>0, SizeToOrderType DEF TypeOK, FrameValues, BlockOf, Blocks
<1>1. CASE AddChunk
  <2>1. cur' \in Blocks
    BY <1>0, <1>1, SMT DEF AddChunk, TypeOK, Blocks
  <2>2. free_list' \in [Orders -> SUBSET Nat]
    BY <1>0, <1>1, <1>b DEF AddChunk
  <2> QED BY <1>0, <1>1, <2>1, <2>2 DEF AddChunk, TypeOK
<1>2. CASE AddNextOrder
  <2>1. cur' \in Blocks
    BY <1>0, <1>a, <1>2, OrdersAndSizes, SMT DEF AddNextOrder, TypeOK, Blocks
  <2> QED BY <1>0, <1>2, <2>1 DEF AddNextOrder, TypeOK
<1>3. ASSUME NEW size \in Nat \ {0}, alloc_frame(size) \/ alloc_frames(size) PROVE TypeOK'
  <2>1. size \in Nat /\ size_to_order(size) \in Orders
    BY SizeToOrderType
  <2> QED BY <1>0, <1>3, <2>1 DEF alloc_frame, alloc_frames, TypeOK
<1>4. CASE AllocPops
  <2> DEFINE i == Min(Candidates)
  <2>1. i \in Orders
    <3>1. Candidates \in SUBSET Nat /\ Candidates # {}
      BY <1>0, <1>4 DEF Candidates, AllocPops
    <3>2. i \in Candidates
      BY <3>1, MinIsMember
    <3> QED BY <3>2 DEF Candidates
  <2>2. PICK chunk \in free_list[i] :
          /\ free_list' = [free_list EXCEPT ![i] = @ \ {chunk}]
          /\ cur' = [start |-> chunk, order |-> i]
    BY <1>4 DEF AllocPops
  <2> HIDE DEF i
  <2>3. chunk \in Nat
    BY <1>0, <2>1 DEF TypeOK
  <2>4. cur' \in Blocks /\ free_list' \in [Orders -> SUBSET Nat]
    BY <1>c, <2>1, <2>2, <2>3 DEF Blocks
  <2> QED BY <1>0, <1>4, <2>4 DEF AllocPops, TypeOK
<1>5. CASE AllocFails
  BY <1>0, <1>5 DEF AllocFails, TypeOK
<1>6. CASE Split
  <2>1. cur.order # 0 /\ cur.order - 1 \in Orders /\ OrderSize[cur.order - 1] \in Nat
    BY <1>0, <1>6, OrdersAndSizes, SMT DEF Split, TypeOK
  <2>2. UpperHalf(cur.start, cur.order - 1) \in Nat
    BY <1>0, <2>1, SMT DEF UpperHalf
  <2>3. free_list' \in [Orders -> SUBSET Nat]
    BY <1>6, <1>b, <2>1, <2>2 DEF Split
  <2>4. cur' \in Blocks
    BY <1>0, <1>6, <2>1 DEF Split, TypeOK, Blocks
  <2> QED BY <1>0, <1>6, <2>3, <2>4 DEF Split, TypeOK
<1>7. CASE AllocReturns
  <2> DEFINE frame == [start |-> cur.start, size |-> OrderSize[want]]
             rest == Remaining(frame.size)
  <2>1. want \in Orders /\ frame \in FrameValues /\ frame.size \in Nat
    BY <1>0, OrdersAndSizes, SMT DEF TypeOK, FrameValues
  <2>2. rest \in Nat /\ size_to_order(rest) \in Orders
    <3>1. rest \in Nat
      BY <1>0, <2>1, SMT DEF Remaining, TypeOK
    <3> QED BY <3>1, SizeToOrderType
  <2>3. /\ need' = rest /\ cur' = NoBlock /\ UNCHANGED <<free_list, asked>>
        /\ \/ /\ segs' = segs \cup {frame} /\ want' = size_to_order(rest)
              /\ pc' = "alloc" /\ frames' = frames
           \/ /\ frames' = frames \cup segs \cup {frame} /\ segs' = {}
              /\ pc' = "idle" /\ want' = want
    BY <1>7 DEF AllocReturns
  <2> HIDE DEF frame, rest
  <2> QED BY <1>0, <1>a, <2>1, <2>2, <2>3 DEF TypeOK
<1>8. ASSUME NEW frame \in frames, Drop(frame) PROVE TypeOK'
  BY <1>0, <1>d, <1>8 DEF Drop, TypeOK
<1>9. ASSUME NEW frame \in segs, DropSegment(frame) PROVE TypeOK'
  BY <1>0, <1>d, <1>9 DEF DropSegment, TypeOK
<1>10. CASE Merge
  <2>1. MergedStart \in Nat
    BY <1>0, <1>10 DEF Merge, MergedStart, TypeOK
  <2>2. cur.order + 1 \in Orders
    BY <1>0, <1>10, OrderAssumption, SMT DEF Merge, Orders, Top
  <2>3. cur' \in Blocks /\ free_list' \in [Orders -> SUBSET Nat]
    BY <1>0, <1>c, <1>10, <2>1, <2>2 DEF Merge, Blocks
  <2> QED BY <1>0, <1>10, <2>3 DEF Merge, TypeOK
<1>11. CASE MergeTop
  <2>1. MergedStart \in Nat /\ Top \in Orders
    BY <1>0, <1>11, OrdersAndSizes DEF MergeTop, MergedStart, TypeOK
  <2>2. free_list' \in [Orders -> SUBSET Nat]
    BY <1>0, <1>11, <2>1 DEF MergeTop, TypeOK
  <2> QED BY <1>0, <1>a, <1>11, <2>2 DEF MergeTop, AfterDealloc, TypeOK
<1>12. CASE MergeEnds
  BY <1>0, <1>a, <1>b, <1>12 DEF MergeEnds, AfterDealloc, TypeOK
<1>13. CASE UNCHANGED vars
  BY <1>0, <1>13 DEF vars, TypeOK
<1> QED
  BY <1>1, <1>2, <1>3, <1>4, <1>5, <1>6, <1>7, <1>8, <1>9, <1>10, <1>11, <1>12, <1>13
  DEF Step, Loop, AnyCall

\* AlignedStart is an address.
LEMMA AlignedStartType == AlignedStart \in Int
BY OrdersAndSizes, RangeAssumption, SMT DEF AlignedStart

\* A Frame has the size of a block of the order that Drop computes for it.
LEMMA FrameSize ==
  ASSUME TypeOK, LoopInv, NEW f \in frames \cup segs
  PROVE  /\ BlockOf(f).start = f.start
         /\ BlockOf(f).order \in Orders
         /\ OrderSize[BlockOf(f).order] = f.size
<1>1. PICK o \in Orders : f.size = OrderSize[o]
  BY DEF LoopInv
<1>2. size_to_order(f.size) = o
  BY <1>1, SizeToOrderInverse
<1> QED BY <1>1, <1>2 DEF BlockOf

\* add pushes below the block it is at, a split stops at the wanted order, and
\* every new Frame has the size of a block.
LEMMA LoopStep == IInv /\ [Step]_vars => LoopInv'
<1> SUFFICES ASSUME IInv, [Step]_vars PROVE LoopInv'
  OBVIOUS
<1> USE DEF IInv
<1>0. /\ TypeOK /\ LoopInv
      /\ cur \in Blocks /\ cur.start \in Nat /\ cur.order \in Orders /\ want \in Orders
      /\ OrderSize[cur.order] \in Nat /\ OrderSize[cur.order] >= 1
      /\ Orders \subseteq Nat
  BY OrdersAndSizes DEF TypeOK, Blocks
<1>a. ASSUME pc' # "add", pc' # "split", frames' \cup segs' \subseteq frames \cup segs
      PROVE  LoopInv'
  BY <1>0, <1>a DEF LoopInv
<1>1. CASE AddChunk
  <2>1. cur'.start = cur.start + OrderSize[cur.order]
    BY <1>0, <1>1 DEF AddChunk, Blocks
  <2>2. \A o \in Orders : \A s \in free_list'[o] :
          s \in free_list[o] \/ (o = cur.order /\ s = cur.start)
    BY <1>0, <1>1 DEF AddChunk, push, TypeOK
  <2>3. \A o \in Orders : \A s \in free_list'[o] : s + OrderSize[o] =< cur'.start
    <3> SUFFICES ASSUME NEW o \in Orders, NEW s \in free_list'[o]
                 PROVE  s + OrderSize[o] =< cur'.start
      OBVIOUS
    <3>1. CASE s \in free_list[o]
      <4>1. s + OrderSize[o] =< cur.start /\ s \in Nat /\ OrderSize[o] \in Nat
        BY <1>0, <1>1, <3>1, OrdersAndSizes DEF AddChunk, LoopInv, TypeOK
      <4> QED BY <1>0, <2>1, <4>1, SMT
    <3>2. CASE o = cur.order /\ s = cur.start
      BY <1>0, <2>1, <3>2, SMT
    <3> QED BY <2>2, <3>1, <3>2
  <2>4. AlignedStart =< cur'.start
    BY <1>0, <1>1, <2>1, AlignedStartType, SMT DEF AddChunk, LoopInv
  <2> QED BY <1>0, <1>1, <2>3, <2>4 DEF AddChunk, LoopInv
<1>2. CASE AddNextOrder
  <2>1. CASE cur.order > 0
    <3>1. cur'.start = cur.start
      BY <1>0, <1>2, <2>1, SMT DEF AddNextOrder, Blocks
    <3> QED BY <1>0, <1>2, <2>1, <3>1 DEF AddNextOrder, LoopInv
  <2>2. CASE ~ cur.order > 0
    BY <1>0, <1>2, <2>2, <1>a DEF AddNextOrder
  <2> QED BY <2>1, <2>2
<1>3. ASSUME NEW size \in Nat \ {0}, alloc_frame(size) \/ alloc_frames(size) PROVE LoopInv'
  BY <1>3, <1>a DEF alloc_frame, alloc_frames
<1>4. CASE AllocPops
  <2> DEFINE i == Min(Candidates)
  <2>1. i \in Candidates
    <3>1. Candidates \in SUBSET Nat /\ Candidates # {}
      BY <1>0, <1>4 DEF Candidates, AllocPops
    <3> QED BY <3>1, MinIsMember
  <2>2. want =< i /\ cur'.order = i
    BY <1>4, <2>1, SMT DEF AllocPops, Candidates
  <2> QED BY <1>0, <1>4, <2>2 DEF AllocPops, LoopInv
<1>5. CASE AllocFails
  BY <1>5, <1>a DEF AllocFails
<1>6. CASE Split
  <2>1. want =< cur'.order
    BY <1>0, <1>6, SMT DEF Split, Blocks
  <2> QED BY <1>0, <1>6, <2>1 DEF Split, LoopInv
<1>7. CASE AllocReturns
  <2> DEFINE frame == [start |-> cur.start, size |-> OrderSize[want]]
  <2>1. frames' \cup segs' \subseteq frames \cup segs \cup {frame}
    BY <1>7 DEF AllocReturns
  <2>2. frame.size = OrderSize[want]
    OBVIOUS
  <2>3. pc' \notin {"add", "split"}
    BY <1>7 DEF AllocReturns
  <2> HIDE DEF frame
  <2> QED BY <1>0, <2>1, <2>2, <2>3 DEF LoopInv
<1>8. ASSUME NEW frame \in frames, Drop(frame) PROVE LoopInv'
  BY <1>8, <1>a DEF Drop
<1>9. ASSUME NEW frame \in segs, DropSegment(frame) PROVE LoopInv'
  BY <1>9, <1>a DEF DropSegment
<1>10. CASE Merge \/ MergeTop \/ MergeEnds
  BY <1>10, <1>a DEF Merge, MergeTop, MergeEnds, AfterDealloc
<1>11. CASE UNCHANGED vars
  BY <1>0, <1>11 DEF vars, LoopInv
<1> QED
  BY <1>1, <1>2, <1>3, <1>4, <1>5, <1>6, <1>7, <1>8, <1>9, <1>10, <1>11
  DEF Step, Loop, AnyCall

\* A block that grows by its free buddy is still disjoint from all others.
LEMMA GrowAlone ==
  ASSUME TypeOK', NEW s \in Nat, NEW b \in Nat, NEW n \in Nat, n >= 1,
         b = s + n \/ b = s - n, NewAlone(s, n), NewAlone(b, n)
  PROVE  NewAlone(IF b < s THEN b ELSE s, 2 * n)
<1> DEFINE m == IF b < s THEN b ELSE s
<1>1. \A t \in Nat, k \in Nat : k >= 1 /\ Apart(t, k, s, n) /\ Apart(t, k, b, n)
                                => Apart(t, k, m, 2 * n)
  BY SMT DEF Apart
<1>2. InRange(m, 2 * n)
  BY AlignedStartType, RangeAssumption, SMT DEF NewAlone, InRange
<1>3. \A o \in Orders : \A t \in free_list'[o] :
        t \in Nat /\ OrderSize[o] \in Nat /\ OrderSize[o] >= 1
  BY OrdersAndSizes DEF TypeOK
<1>4. \A f \in frames' \cup segs' : f.start \in Nat /\ f.size \in Nat /\ f.size >= 1
  BY SMT DEF TypeOK, FrameValues
<1> HIDE DEF m
<1>5. NewAlone(m, 2 * n)
  BY <1>1, <1>2, <1>3, <1>4 DEF NewAlone
<1> QED BY <1>5 DEF m

\* No step of add, alloc or dealloc makes two blocks overlap.
LEMMA OverlapStep == IInv /\ [Step]_vars => NoOverlap'
<1> SUFFICES ASSUME IInv, [Step]_vars PROVE Settled' /\ CurApart'
  BY DEF Settled, NoOverlap
<1> USE DEF IInv
<1> DEFINE n == OrderSize[cur.order]
<1>0. /\ TypeOK /\ LoopInv /\ Settled /\ CurApart
      /\ cur \in Blocks /\ cur.start \in Nat /\ cur.order \in Orders /\ want \in Orders
      /\ n \in Nat /\ n >= 1
      /\ Orders \subseteq Nat /\ AlignedStart \in Int /\ AvailEnd \in Nat
  BY OrdersAndSizes, AlignedStartType, RangeAssumption
     DEF TypeOK, Blocks, Settled, NoOverlap
<1>z. pc \in {"split", "merge"} => Alone(cur.start, n)
  BY <1>0 DEF CurApart, Alone
<1>a. ASSUME pc' \notin {"split", "merge"} PROVE CurApart'
  BY <1>a DEF CurApart
<1>b. ASSUME UNCHANGED <<free_list, frames, segs>> PROVE Settled'
  BY <1>0, <1>b DEF Settled, FreeApart, FramesApart, AllInRange, InRange, Apart
<1>c. ASSUME NewAlone(cur'.start, OrderSize[cur'.order]) PROVE CurApart'
  BY <1>c DEF CurApart, NewAlone, InRange, Apart
<1>1. CASE AddChunk
  <2>1. Alone(cur.start, n)
    <3>1. InRange(cur.start, n)
      BY <1>0, <1>1 DEF AddChunk, LoopInv, InRange
    <3>2. frames \cup segs = {}
      BY <1>0, <1>1 DEF AddChunk, LoopInv
    <3>3. \A o \in Orders : \A t \in free_list[o] : Apart(t, OrderSize[o], cur.start, n)
      BY <1>0, <1>1 DEF AddChunk, LoopInv, Apart
    <3> QED BY <3>1, <3>2, <3>3 DEF Alone
  <2>2. Settled'
    BY <1>0, <1>1, <2>1, PushSettled DEF AddChunk
  <2> QED BY <1>1, <1>a, <2>2 DEF AddChunk
<1>2. CASE AddNextOrder
  BY <1>2, <1>a, <1>b DEF AddNextOrder
<1>3. ASSUME NEW size \in Nat \ {0}, alloc_frame(size) \/ alloc_frames(size)
      PROVE  Settled' /\ CurApart'
  BY <1>3, <1>a, <1>b DEF alloc_frame, alloc_frames
<1>4. CASE AllocPops
  <2> DEFINE i == Min(Candidates)
  <2>1. i \in Orders
    <3>1. Candidates \in SUBSET Nat /\ Candidates # {}
      BY <1>0, <1>4 DEF Candidates, AllocPops
    <3>2. i \in Candidates
      BY <3>1, MinIsMember
    <3> QED BY <3>2 DEF Candidates
  <2>2. PICK chunk \in free_list[i] :
          /\ free_list' = [free_list EXCEPT ![i] = @ \ {chunk}]
          /\ cur' = [start |-> chunk, order |-> i]
    BY <1>4 DEF AllocPops
  <2> HIDE DEF i
  <2>3. Settled' /\ NewAlone(chunk, OrderSize[i])
    BY <1>0, <1>4, <2>1, <2>2, PopSettled DEF AllocPops
  <2>4. cur'.start = chunk /\ cur'.order = i
    BY <2>2
  <2> QED BY <2>3, <2>4, <1>c
<1>5. CASE AllocFails
  BY <1>5, <1>a, <1>b DEF AllocFails
<1>6. CASE Split
  <2> DEFINE o == cur.order - 1
             h == OrderSize[o]
             u == UpperHalf(cur.start, o)
  <2>1. o \in Orders /\ n = 2 * h /\ h \in Nat /\ h >= 1
    BY <1>0, <1>6, OrdersAndSizes, SMT DEF Split
  <2>2. u = cur.start + h /\ u \in Nat
    BY <1>0, <2>1, SMT DEF UpperHalf
  <2>3. cur'.start = cur.start /\ cur'.order = o
    BY <1>0, <1>6 DEF Split, Blocks
  <2>4. push(o, u) /\ UNCHANGED <<frames, segs>> /\ pc = "split"
    BY <1>6 DEF Split
  <2> HIDE DEF o, h, u
  <2>5. \A t, k \in Nat : Apart(t, k, cur.start, n) =>
          Apart(t, k, cur.start, h) /\ Apart(t, k, u, h)
    BY <1>0, <2>1, <2>2, SMT DEF Apart
  <2>6. InRange(u, h) /\ InRange(cur.start, h)
    BY <1>0, <1>z, <2>1, <2>2, <2>4, SMT DEF Alone, InRange
  <2>7. \A p \in Orders : \A t \in free_list[p] : t \in Nat /\ OrderSize[p] \in Nat
    BY <1>0, OrdersAndSizes DEF TypeOK
  <2>8. \A f \in frames \cup segs : f.start \in Nat /\ f.size \in Nat
    BY <1>0 DEF TypeOK, FrameValues
  <2>9. Alone(u, h) /\ Alone(cur.start, h)
    BY <1>z, <2>4, <2>5, <2>6, <2>7, <2>8 DEF Alone
  <2>10. Settled'
    BY <1>0, <2>1, <2>2, <2>4, <2>9, PushSettled DEF h
  <2>11. \A p \in Orders : \A t \in free_list'[p] : t \in free_list[p] \/ (p = o /\ t = u)
    BY <1>0, <2>1, <2>4 DEF push, TypeOK
  <2>12. Apart(u, OrderSize[o], cur.start, OrderSize[o])
    BY <1>0, <2>1, <2>2, SMT DEF Apart, h
  <2>13. CurApart'
    BY <2>3, <2>4, <2>9, <2>11, <2>12 DEF CurApart, Alone, InRange, Apart, h
  <2> QED BY <2>10, <2>13
<1>7. CASE AllocReturns
  <2> DEFINE frame == [start |-> cur.start, size |-> OrderSize[want]]
  <2>1. frame.start = cur.start /\ frame.size = n /\ Alone(cur.start, n)
    BY <1>z, <1>7 DEF AllocReturns
  <2>2. /\ free_list' = free_list
        /\ frames' \cup segs' = frames \cup segs \cup {frame}
        /\ frames' \cap segs' = {} \/ (frames' = frames /\ segs' = segs \cup {frame})
    BY <1>7 DEF AllocReturns
  <2> HIDE DEF frame, n
  <2>3. frame \notin frames
    BY <1>0, <2>1, SMT DEF Alone, Apart
  <2>4. FramesApart'
    <3>1. frames' \cap segs' = {}
      BY <1>0, <2>2, <2>3 DEF Settled, FramesApart
    <3>2. \A f, g \in frames' \cup segs' : f = g \/ Apart(f.start, f.size, g.start, g.size)
      BY <1>0, <2>1, <2>2 DEF Settled, FramesApart, Alone, Apart
    <3>3. \A o \in Orders : \A s \in free_list'[o] : \A f \in frames' \cup segs' :
            Apart(s, OrderSize[o], f.start, f.size)
      BY <1>0, <2>1, <2>2 DEF Settled, FramesApart, Alone
    <3> QED BY <3>1, <3>2, <3>3 DEF FramesApart, Apart
  <2>5. FreeApart' /\ AllInRange'
    BY <1>0, <2>1, <2>2 DEF Settled, FreeApart, AllInRange, Alone, InRange, Apart
  <2>6. pc' \notin {"split", "merge"}
    BY <1>7 DEF AllocReturns
  <2> QED BY <1>a, <2>4, <2>5, <2>6 DEF Settled
<1>8. ASSUME NEW f \in frames \cup segs, pc' = "merge", free_list' = free_list,
             frames' \cup segs' = (frames \cup segs) \ {f},
             frames' \subseteq frames, segs' \subseteq segs, cur' = BlockOf(f)
      PROVE  Settled' /\ CurApart'
  <2>1. Settled'
    BY <1>0, <1>8 DEF Settled, FreeApart, FramesApart, AllInRange, InRange, Apart
  <2>2. cur'.start = f.start /\ OrderSize[cur'.order] = f.size
    BY <1>0, <1>8, FrameSize
  <2>3. CurApart'
    BY <1>0, <1>8, <2>2 DEF Settled, FramesApart, AllInRange, CurApart, InRange, Apart
  <2> QED BY <2>1, <2>3
<1>9. ASSUME NEW f \in frames, Drop(f) PROVE Settled' /\ CurApart'
  BY <1>0, <1>8, <1>9 DEF Drop, Settled, FramesApart
<1>10. ASSUME NEW f \in segs, DropSegment(f) PROVE Settled' /\ CurApart'
  BY <1>0, <1>8, <1>10 DEF DropSegment, Settled, FramesApart
<1>11. CASE Merge
  <2>1. /\ BuddyOfCur \in free_list[cur.order] /\ BuddyOfCur \in Nat
        /\ free_list' = [free_list EXCEPT ![cur.order] = @ \ {BuddyOfCur}]
        /\ UNCHANGED <<frames, segs>>
        /\ BuddyOfCur = cur.start + n \/ BuddyOfCur = cur.start - n
    BY <1>0, <1>11, BuddyAdjacent DEF Merge, TypeOK, BuddyOfCur
  <2> DEFINE b == BuddyOfCur
  <2>2. /\ \A o \in Orders : free_list'[o] \subseteq free_list[o]
        /\ cur'.start = IF b < cur.start THEN b ELSE cur.start
        /\ cur'.order = cur.order + 1
    BY <1>0, <1>11 DEF Merge, MergedStart, TypeOK
  <2>3. OrderSize[cur'.order] = 2 * n
    <3>1. cur.order + 1 \in Orders /\ cur.order + 1 # 0 /\ (cur.order + 1) - 1 = cur.order
      BY <1>0, <1>11, OrderAssumption, SMT DEF Merge, Orders, Top
    <3> QED BY <2>2, <3>1, OrdersAndSizes
  <2>4. Alone(cur.start, n)
    BY <1>z, <1>11 DEF Merge
  <2>5. NewAlone(cur.start, n)
    BY <2>1, <2>2, <2>4 DEF Alone, NewAlone
  <2> HIDE DEF b, n
  <2>6. b \in free_list[cur.order] /\ free_list' = [free_list EXCEPT ![cur.order] = @ \ {b}]
    BY <2>1 DEF b
  <2>7. Settled' /\ NewAlone(b, OrderSize[cur.order])
    BY <1>0, <2>1, <2>6, PopSettled
  <2>8. NewAlone(b, n)
    BY <2>7 DEF n
  <2>9. b \in Nat /\ (b = cur.start + n \/ b = cur.start - n)
    BY <2>1 DEF b
  <2>10. TypeOK'
    BY TypeStep
  <2>11. NewAlone(cur'.start, 2 * n)
    BY <1>0, <2>2, <2>5, <2>8, <2>9, <2>10, GrowAlone
  <2> QED BY <1>c, <2>3, <2>7, <2>11
<1>12. CASE MergeTop
  <2>1. /\ BuddyOfCur \in free_list[Top] /\ cur.order = Top
        /\ free_list' = [free_list EXCEPT ![Top] = (@ \ {BuddyOfCur}) \cup {MergedStart}]
        /\ UNCHANGED <<frames, segs>> /\ MergedStart \in {cur.start, BuddyOfCur}
        /\ pc = "merge" /\ pc' \notin {"split", "merge"}
    BY <1>12 DEF MergeTop, MergedStart, AfterDealloc
  <2>2. \A o \in Orders : \A t \in free_list'[o] :
          t \in free_list[o] \/ (o = cur.order /\ t = cur.start)
    BY <1>0, <2>1 DEF TypeOK
  <2>3. Alone(cur.start, n)
    BY <1>z, <2>1
  <2>4. FreeApart'
    <3> SUFFICES ASSUME NEW p \in Orders, NEW q \in Orders,
                        NEW t \in free_list'[p], NEW u \in free_list'[q]
                 PROVE  <<p, t>> = <<q, u>> \/ Apart(t, OrderSize[p], u, OrderSize[q])
      BY DEF FreeApart, Apart
    <3>1. CASE t \in free_list[p] /\ u \in free_list[q]
      BY <1>0, <3>1 DEF Settled, FreeApart
    <3>2. CASE t \in free_list[p] /\ q = cur.order /\ u = cur.start
      BY <2>3, <3>2 DEF Alone
    <3>3. CASE u \in free_list[q] /\ p = cur.order /\ t = cur.start
      BY <2>3, <3>3 DEF Alone, Apart
    <3> QED BY <2>2, <3>1, <3>2, <3>3
  <2>5. FramesApart' /\ AllInRange'
    BY <1>0, <2>1, <2>2, <2>3, SMT DEF Settled, FramesApart, AllInRange, Alone, InRange, Apart
  <2> QED BY <1>a, <2>1, <2>4, <2>5 DEF Settled
<1>13. CASE MergeEnds
  <2>1. Settled'
    BY <1>0, <1>z, <1>13, PushSettled DEF MergeEnds
  <2> QED BY <1>13, <1>a, <2>1 DEF MergeEnds, AfterDealloc
<1>14. CASE UNCHANGED vars
  BY <1>0, <1>14, <1>b DEF vars, CurApart, InRange, Apart
<1> QED
  BY <1>1, <1>2, <1>3, <1>4, <1>5, <1>6, <1>7, <1>9, <1>10, <1>11, <1>12, <1>13, <1>14
  DEF Step, Loop, AnyCall

\* The first block that add looks at has a natural number as its address.
LEMMA AlignedStartNat == AlignedStart \in Nat
<1> DEFINE d == OrderSize[Top]
           x == AvailStart + d - 1
<1>1. d \in Nat /\ d >= 1 /\ x \in Nat
  BY OrdersAndSizes, RangeAssumption, SMT
<1>2. x \div d \in Nat
  BY <1>1, SMT
<1>3. (x \div d) * d \in Nat
  BY <1>1, <1>2, SMT
<1> QED BY <1>3 DEF AlignedStart

\* The empty allocator satisfies the invariant.
LEMMA InitIInv == Init => IInv
<1> SUFFICES ASSUME Init PROVE IInv
  OBVIOUS
<1>1. AlignedStart \in Nat
  BY AlignedStartNat
<1>2. TypeOK
  <2>1. cur \in Blocks
    BY <1>1, OrdersAndSizes DEF Init, Blocks
  <2> QED BY <2>1, OrdersAndSizes DEF Init, TypeOK
<1>3. \A o \in Orders : free_list[o] = {}
  BY DEF Init
<1>4. LoopInv
  BY <1>1, <1>3, SMT DEF Init, LoopInv
<1>5. NoOverlap
  BY <1>3 DEF Init, NoOverlap, FreeApart, FramesApart, CurApart, AllInRange
<1> QED BY <1>2, <1>4, <1>5 DEF IInv

\* IInv is inductive.
THEOREM Inductive == Spec => []IInv
<1>1. IInv /\ [Next]_vars => IInv'
  BY NextIsStep, TypeStep, LoopStep, OverlapStep DEF IInv
<1> QED BY <1>1, InitIInv, PTL DEF Spec

\* The allocator, the frames and the loop variables have their types.
THEOREM TypeCorrect == Spec => []TypeOK
<1>1. IInv => TypeOK
  BY DEF IInv
<1> QED BY <1>1, Inductive, PTL

\* alloc and dealloc never give a page away twice, whatever the number of
\* orders, the memory range and the order of calls.
THEOREM NoOverlapTheorem == Spec => []NoOverlap
<1>1. IInv => NoOverlap
  BY DEF IInv
<1> QED BY <1>1, Inductive, PTL

-----------------------------------------------------------------------------
(* Conservation of pages *)

\* push adds the pages of the block to the free ones.
LEMMA PushPages ==
  ASSUME TypeOK, NEW o \in Orders, NEW s, push(o, s)
  PROVE  FreePages' = FreePages \cup Pages(s, OrderSize[o])
<1>1. \A p \in Orders : free_list'[p] = IF p = o THEN free_list[o] \cup {s} ELSE free_list[p]
  BY DEF push, TypeOK
<1>2. \A x : x \in FreePages' <=>
        \E p \in Orders : \E t \in free_list'[p] : x \in Pages(t, OrderSize[p])
  BY SMT DEF FreePages, Pages
<1>3. \A x : x \in FreePages <=>
        \E p \in Orders : \E t \in free_list[p] : x \in Pages(t, OrderSize[p])
  BY SMT DEF FreePages
<1> QED BY <1>1, <1>2, <1>3

\* What is taken off a list is the block's pages and no others.
LEMMA PopPages ==
  ASSUME TypeOK, NEW o \in Orders, NEW s \in free_list[o],
         free_list' = [free_list EXCEPT ![o] = @ \ {s}]
  PROVE  FreePages = FreePages' \cup Pages(s, OrderSize[o])
<1>1. \A p \in Orders : free_list'[p] = IF p = o THEN free_list[o] \ {s} ELSE free_list[p]
  BY DEF TypeOK
<1>2. \A x : x \in FreePages' <=>
        \E p \in Orders : \E t \in free_list'[p] : x \in Pages(t, OrderSize[p])
  BY SMT DEF FreePages, Pages
<1>3. \A x : x \in FreePages <=>
        \E p \in Orders : \E t \in free_list[p] : x \in Pages(t, OrderSize[p])
  BY SMT DEF FreePages
<1> QED BY <1>1, <1>2, <1>3, SMT

\* Two neighbouring blocks of n pages are one of 2n.
LEMMA TwoHalves ==
  ASSUME NEW s \in Nat, NEW n \in Nat, n >= 1
  PROVE  Pages(s, 2 * n) = Pages(s, n) \cup Pages(s + n, n)
BY SMT DEF Pages

\* The pages the allocator knows of.
Known == FreePages \cup FramePages \cup LoopPages

\* Every step but a merge at the largest order keeps the pages.
LEMMA KnownStep == IInv /\ [Step]_vars /\ ~ MergeTop => Known' = Known
<1> SUFFICES ASSUME IInv, [Step]_vars, ~ MergeTop PROVE Known' = Known
  OBVIOUS
<1> USE DEF IInv
<1> DEFINE n == OrderSize[cur.order]
<1>0. /\ TypeOK /\ LoopInv
      /\ cur \in Blocks /\ cur.start \in Nat /\ cur.order \in Orders /\ want \in Orders
      /\ n \in Nat /\ n >= 1
      /\ Orders \subseteq Nat /\ AvailEnd \in Nat
  BY OrdersAndSizes, RangeAssumption DEF TypeOK, Blocks
<1>a. UNCHANGED free_list => FreePages' = FreePages
  BY SMT DEF FreePages, Pages
<1>b. frames' \cup segs' = frames \cup segs => FramePages' = FramePages
  BY DEF FramePages, PagesOf, Pages
<1>c. pc' \in {"idle", "alloc", "drop"} => LoopPages' = {}
  BY DEF LoopPages
<1>d. pc \in {"idle", "alloc", "drop"} => LoopPages = {}
  BY DEF LoopPages
<1>e. pc \in {"split", "merge"} => LoopPages = Pages(cur.start, n)
  BY DEF LoopPages
<1>f. pc' \in {"split", "merge"} => LoopPages' = Pages(cur'.start, OrderSize[cur'.order])
  BY DEF LoopPages, Pages
<1>1. CASE AddChunk
  <2>1. FreePages' = FreePages \cup Pages(cur.start, n) /\ FramePages' = FramePages
    BY <1>0, <1>1, <1>b, PushPages DEF AddChunk
  <2>2. cur'.start = cur.start + n /\ cur.start + n =< AvailEnd
    BY <1>0, <1>1 DEF AddChunk, Blocks
  <2>3. LoopPages = cur.start .. (AvailEnd - 1) /\ LoopPages' = cur'.start .. (AvailEnd - 1)
    BY <1>1 DEF AddChunk, LoopPages
  <2>4. LoopPages = Pages(cur.start, n) \cup LoopPages'
    BY <1>0, <2>2, <2>3, SMT DEF Pages
  <2> QED BY <2>1, <2>4 DEF Known
<1>2. CASE AddNextOrder
  <2>1. FreePages' = FreePages /\ FramePages' = FramePages
    BY <1>2, <1>a, <1>b DEF AddNextOrder
  <2>2. LoopPages = cur.start .. (AvailEnd - 1)
    BY <1>2 DEF AddNextOrder, LoopPages
  <2>3. CASE cur.order > 0
    <3>1. cur'.start = cur.start /\ pc' = "add"
      BY <1>0, <1>2, <2>3, SMT DEF AddNextOrder, Blocks
    <3>2. LoopPages' = LoopPages
      BY <2>2, <3>1 DEF LoopPages
    <3> QED BY <2>1, <3>2 DEF Known
  <2>4. CASE cur.order = 0
    <3>1. pc' = "idle" /\ cur.start + 1 > AvailEnd
      BY <1>0, <1>2, <2>4, SizeAssumption, SMT DEF AddNextOrder
    <3>2. LoopPages = {}
      BY <1>0, <2>2, <3>1, SMT
    <3> QED BY <2>1, <3>1, <3>2, <1>c DEF Known
  <2> QED BY <1>2, <2>3, <2>4 DEF AddNextOrder
<1>3. ASSUME NEW size \in Nat \ {0}, alloc_frame(size) \/ alloc_frames(size) PROVE Known' = Known
  BY <1>3, <1>a, <1>b, <1>c, <1>d DEF alloc_frame, alloc_frames, Known
<1>4. CASE AllocPops
  <2> DEFINE i == Min(Candidates)
  <2>1. i \in Orders
    <3>1. Candidates \in SUBSET Nat /\ Candidates # {}
      BY <1>0, <1>4 DEF Candidates, AllocPops
    <3>2. i \in Candidates
      BY <3>1, MinIsMember
    <3> QED BY <3>2 DEF Candidates
  <2>2. PICK chunk \in free_list[i] :
          /\ free_list' = [free_list EXCEPT ![i] = @ \ {chunk}]
          /\ cur' = [start |-> chunk, order |-> i]
    BY <1>4 DEF AllocPops
  <2> HIDE DEF i
  <2>3. FreePages = FreePages' \cup Pages(chunk, OrderSize[i])
    BY <1>0, <2>1, <2>2, PopPages
  <2>4. LoopPages = {} /\ LoopPages' = Pages(chunk, OrderSize[i]) /\ FramePages' = FramePages
    BY <1>4, <1>b, <1>d, <1>f, <2>2 DEF AllocPops
  <2> QED BY <2>3, <2>4 DEF Known
<1>5. CASE AllocFails
  BY <1>5, <1>a, <1>b, <1>c, <1>d DEF AllocFails, Known
<1>6. CASE Split
  <2> DEFINE o == cur.order - 1
             h == OrderSize[o]
  <2>1. o \in Orders /\ n = 2 * h /\ h \in Nat /\ h >= 1
    BY <1>0, <1>6, OrdersAndSizes, SMT DEF Split
  <2>2. FreePages' = FreePages \cup Pages(cur.start + h, h)
    BY <1>0, <1>6, <2>1, PushPages DEF Split, UpperHalf
  <2>3. cur'.start = cur.start /\ cur'.order = o
    BY <1>0, <1>6 DEF Split, Blocks
  <2>4. LoopPages = Pages(cur.start, n) /\ LoopPages' = Pages(cur.start, h)
        /\ FramePages' = FramePages
    BY <1>6, <1>b, <1>e, <1>f, <2>3 DEF Split
  <2> HIDE DEF h, o, n
  <2>5. Pages(cur.start, n) = Pages(cur.start, h) \cup Pages(cur.start + h, h)
    BY <1>0, <2>1, TwoHalves
  <2> QED BY <2>2, <2>4, <2>5 DEF Known
<1>7. CASE AllocReturns
  <2> DEFINE frame == [start |-> cur.start, size |-> OrderSize[want]]
  <2>1. frame.start = cur.start /\ frame.size = n
    BY <1>7 DEF AllocReturns
  <2>2. frames' \cup segs' = (frames \cup segs) \cup {frame}
    BY <1>7 DEF AllocReturns
  <2>3. LoopPages = Pages(cur.start, n) /\ LoopPages' = {} /\ FreePages' = FreePages
    BY <1>7, <1>a, <1>c, <1>e DEF AllocReturns
  <2> HIDE DEF frame, n
  <2>4. FramePages' = FramePages \cup Pages(frame.start, frame.size)
    BY <2>2 DEF FramePages, PagesOf, Pages
  <2> QED BY <2>1, <2>3, <2>4 DEF Known
<1>8. ASSUME NEW f \in frames \cup segs, pc \in {"idle", "drop"}, pc' = "merge",
             free_list' = free_list,
             frames' \cup segs' = (frames \cup segs) \ {f}, cur' = BlockOf(f)
      PROVE  Known' = Known
  <2>1. cur'.start = f.start /\ OrderSize[cur'.order] = f.size
    BY <1>0, <1>8, FrameSize
  <2>2. FramePages = FramePages' \cup Pages(f.start, f.size)
    BY <1>8 DEF FramePages, PagesOf, Pages
  <2>3. LoopPages = {} /\ LoopPages' = Pages(f.start, f.size) /\ FreePages' = FreePages
    BY <1>8, <1>a, <1>d, <1>f, <2>1
  <2> QED BY <2>2, <2>3 DEF Known
<1>9. ASSUME NEW f \in frames, Drop(f) PROVE Known' = Known
  BY <1>8, <1>9 DEF Drop, NoOverlap, FramesApart
<1>10. ASSUME NEW f \in segs, DropSegment(f) PROVE Known' = Known
  BY <1>8, <1>10 DEF DropSegment, NoOverlap, FramesApart
<1>11. CASE Merge
  <2> DEFINE b == BuddyOfCur
             m == IF b < cur.start THEN b ELSE cur.start
  <2>1. /\ b \in free_list[cur.order] /\ b \in Nat
        /\ free_list' = [free_list EXCEPT ![cur.order] = @ \ {b}]
        /\ b = cur.start + n \/ b = cur.start - n
    BY <1>0, <1>11, BuddyAdjacent DEF Merge, TypeOK, BuddyOfCur
  <2>2. cur'.start = m /\ cur'.order = cur.order + 1
    BY <1>11 DEF Merge, MergedStart
  <2>3. OrderSize[cur'.order] = 2 * n
    <3>1. cur.order + 1 \in Orders /\ cur.order + 1 # 0 /\ (cur.order + 1) - 1 = cur.order
      BY <1>0, <1>11, OrderAssumption, SMT DEF Merge, Orders, Top
    <3> QED BY <2>2, <3>1, OrdersAndSizes
  <2>4. LoopPages = Pages(cur.start, n) /\ LoopPages' = Pages(m, 2 * n)
        /\ FramePages' = FramePages
    BY <1>11, <1>b, <1>e, <1>f, <2>2, <2>3 DEF Merge
  <2> HIDE DEF b, n
  <2>5. FreePages = FreePages' \cup Pages(b, n)
    BY <1>0, <2>1, PopPages DEF n
  <2>6. Pages(m, 2 * n) = Pages(cur.start, n) \cup Pages(b, n)
    BY <1>0, <2>1, SMT DEF Pages
  <2> QED BY <2>4, <2>5, <2>6 DEF Known
<1>12. CASE MergeEnds
  <2>1. FreePages' = FreePages \cup Pages(cur.start, n)
    BY <1>0, <1>12, PushPages DEF MergeEnds
  <2>2. LoopPages = Pages(cur.start, n) /\ LoopPages' = {} /\ FramePages' = FramePages
    BY <1>12, <1>b, <1>c, <1>e DEF MergeEnds, AfterDealloc
  <2> QED BY <2>1, <2>2 DEF Known
<1>13. CASE UNCHANGED vars
  BY <1>13, SMT DEF vars, Known, FreePages, FramePages, PagesOf, LoopPages, Pages
<1> QED
  BY <1>1, <1>2, <1>3, <1>4, <1>5, <1>6, <1>7, <1>9, <1>10, <1>11, <1>12, <1>13
  DEF Step, Loop, AnyCall

\* No page is lost by any step but a merge at the largest order.
THEOREM ConservedTheorem == Spec => Conserved
<1>1. IInv /\ [Next]_vars =>
        [~ MergeTop => FreePages' \cup FramePages' \cup LoopPages' =
                         FreePages \cup FramePages \cup LoopPages]_vars
  BY NextIsStep, KnownStep DEF Known
<1> QED BY <1>1, Inductive, PTL DEF Spec, Conserved

-----------------------------------------------------------------------------
(* Coalescing *)

\* A block starts at a multiple of its size.
Aligned(s, n) == \E q \in Nat : s = q * n

\* Blocks and frames are aligned; add has pushed nothing below the order it
\* is at, and at most one block of each order but the largest.
AlignInv ==
  /\ \A o \in Orders : \A s \in free_list[o] : Aligned(s, OrderSize[o])
  /\ \A f \in frames \cup segs : Aligned(f.start, f.size)
  /\ pc \in {"add", "split", "merge"} => Aligned(cur.start, OrderSize[cur.order])
  /\ pc = "add" =>
       /\ \A o \in Orders : o < cur.order => free_list[o] = {}
       /\ cur.order # Top =>
            /\ AvailEnd < cur.start + 2 * OrderSize[cur.order]
            /\ free_list[cur.order] # {} => AvailEnd < cur.start + OrderSize[cur.order]

CInv == IInv /\ AlignInv /\ Coalesced

\* Division by the size of a block that starts at a multiple of it.
LEMMA Quotient ==
  ASSUME NEW n \in Nat, n >= 1, NEW q \in Nat
  PROVE  (q * n) \div n = q
BY SMT

\* The address of the buddy of the q-th block: XOR flips the last bit of q.
LEMMA BuddyOfAligned ==
  ASSUME NEW o \in Orders, NEW q \in Nat
  PROVE  LET n == OrderSize[o]
         IN  /\ q % 2 = 1 => buddy_address(q * n, o) = q * n - n
             /\ q % 2 # 1 => buddy_address(q * n, o) = q * n + n
<1> DEFINE n == OrderSize[o]
<1>1. n \in Nat /\ n >= 1
  BY OrdersAndSizes
<1>2. (q * n) \div n = q
  BY <1>1, Quotient
<1> QED BY <1>2 DEF buddy_address

\* Buddies are each other's buddy, and the pair is an aligned block of the
\* next order.
LEMMA BuddyPair ==
  ASSUME NEW o \in Orders, NEW s \in Nat, Aligned(s, OrderSize[o])
  PROVE  LET b == buddy_address(s, o)
         IN  /\ b # s
             /\ b \in Nat
             /\ buddy_address(b, o) = s
             /\ Aligned(IF b < s THEN b ELSE s, 2 * OrderSize[o])
<1> DEFINE n == OrderSize[o]
           b == buddy_address(s, o)
<1>0. n \in Nat /\ n >= 1
  BY OrdersAndSizes
<1>1. PICK q \in Nat : s = q * n
  BY DEF Aligned
<1>2. CASE q % 2 = 1
  <2>1. PICK k \in Nat : q = 2 * k + 1
    BY <1>2, SMT
  <2>2. s - n = (2 * k) * n /\ s - n = k * (2 * n) /\ s - n \in Nat
    BY <1>0, <1>1, <2>1, SMT
  <2>3. b = s - n
    BY <1>1, <1>2, BuddyOfAligned
  <2>4. (2 * k) % 2 # 1 /\ 2 * k \in Nat
    BY SMT
  <2>5. buddy_address((2 * k) * n, o) = (2 * k) * n + n
    BY <2>4, BuddyOfAligned
  <2>6. buddy_address(b, o) = s
    BY <1>0, <2>2, <2>3, <2>5, SMT
  <2>7. b < s
    BY <1>0, <2>3, SMT
  <2> QED BY <1>0, <2>2, <2>3, <2>6, <2>7, SMT DEF Aligned
<1>3. CASE q % 2 # 1
  <2>1. PICK k \in Nat : q = 2 * k
    BY <1>3, SMT
  <2>2. s = k * (2 * n) /\ s + n = (2 * k + 1) * n /\ s + n \in Nat
    BY <1>0, <1>1, <2>1, SMT
  <2>3. b = s + n
    BY <1>1, <1>3, BuddyOfAligned
  <2>4. (2 * k + 1) % 2 = 1 /\ 2 * k + 1 \in Nat
    BY SMT
  <2>5. buddy_address((2 * k + 1) * n, o) = (2 * k + 1) * n - n
    BY <2>4, BuddyOfAligned
  <2>6. buddy_address(b, o) = s
    BY <1>0, <2>2, <2>3, <2>5, SMT
  <2>7. ~ b < s /\ b # s
    BY <1>0, <2>3, SMT
  <2> QED BY <1>0, <2>2, <2>3, <2>6, <2>7 DEF Aligned
<1> QED BY <1>2, <1>3

\* Both halves of an aligned block are aligned, and each is the other's buddy.
LEMMA Halves ==
  ASSUME NEW o \in Orders, NEW s \in Nat, Aligned(s, 2 * OrderSize[o])
  PROVE  LET h == OrderSize[o]
         IN  /\ Aligned(s, h) /\ Aligned(s + h, h)
             /\ buddy_address(s, o) = s + h
             /\ buddy_address(s + h, o) = s
<1> DEFINE h == OrderSize[o]
<1>0. h \in Nat /\ h >= 1
  BY OrdersAndSizes
<1>1. PICK k \in Nat : s = k * (2 * h)
  BY DEF Aligned
<1>2. s = (2 * k) * h /\ s + h = (2 * k + 1) * h /\ 2 * k \in Nat /\ 2 * k + 1 \in Nat
  BY <1>0, <1>1, SMT
<1>3. (2 * k) % 2 # 1 /\ (2 * k + 1) % 2 = 1
  BY SMT
<1>4. buddy_address(s, o) = s + h
  BY <1>2, <1>3, BuddyOfAligned
<1>5. buddy_address(s + h, o) = (s + h) - h
  BY <1>2, <1>3, BuddyOfAligned
<1>6. (s + h) - h = s
  BY <1>0, SMT
<1>7. Aligned(s, h) /\ Aligned(s + h, h)
  BY <1>2 DEF Aligned
<1> QED BY <1>4, <1>5, <1>6, <1>7

\* Splitting and merging keep blocks aligned.
LEMMA AlignStep == CInv /\ [Step]_vars => AlignInv'
<1> SUFFICES ASSUME CInv, [Step]_vars PROVE AlignInv'
  OBVIOUS
<1> USE DEF CInv, IInv
<1> DEFINE n == OrderSize[cur.order]
<1>0. /\ TypeOK /\ LoopInv /\ AlignInv
      /\ cur \in Blocks /\ cur.start \in Nat /\ cur.order \in Orders /\ want \in Orders
      /\ n \in Nat /\ n >= 1
      /\ Orders \subseteq Nat /\ AvailEnd \in Nat
  BY OrdersAndSizes, RangeAssumption DEF TypeOK, Blocks
<1>a. ASSUME pc' \notin {"add", "split", "merge"},
             \A o \in Orders : \A s \in free_list'[o] : Aligned(s, OrderSize[o]),
             \A f \in frames' \cup segs' : Aligned(f.start, f.size)
      PROVE  AlignInv'
  BY <1>a DEF AlignInv, Aligned
<1>b. ASSUME pc' \in {"split", "merge"}, Aligned(cur'.start, OrderSize[cur'.order]),
             \A o \in Orders : \A s \in free_list'[o] : Aligned(s, OrderSize[o]),
             \A f \in frames' \cup segs' : Aligned(f.start, f.size)
      PROVE  AlignInv'
  BY <1>b DEF AlignInv, Aligned
<1>c. /\ \A o \in Orders : \A s \in free_list[o] : Aligned(s, OrderSize[o])
      /\ \A f \in frames \cup segs : Aligned(f.start, f.size)
      /\ pc \in {"add", "split", "merge"} => Aligned(cur.start, n)
  BY <1>0 DEF AlignInv
<1>1. CASE AddChunk
  <2>1. /\ cur'.start = cur.start + n /\ cur'.order = cur.order
        /\ cur.start + n =< AvailEnd /\ pc = "add" /\ UNCHANGED <<pc, frames, segs>>
    BY <1>0, <1>1 DEF AddChunk, Blocks
  <2>2. \A o \in Orders :
          free_list'[o] = IF o = cur.order THEN free_list[o] \cup {cur.start} ELSE free_list[o]
    BY <1>0, <1>1 DEF AddChunk, push, TypeOK
  <2>3. Aligned(cur.start, n) /\ Aligned(cur'.start, n)
    <3>1. PICK q \in Nat : cur.start = q * n
      BY <1>c, <2>1 DEF Aligned
    <3>2. cur.start + n = (q + 1) * n /\ q + 1 \in Nat
      BY <1>0, <3>1, SMT
    <3> QED BY <2>1, <3>1, <3>2 DEF Aligned
  <2>4. \A o \in Orders : \A s \in free_list'[o] : Aligned(s, OrderSize[o])
    BY <1>c, <2>2, <2>3
  <2>5. \A o \in Orders : o < cur'.order => free_list'[o] = {}
    <3>1. \A o \in Orders : o < cur.order => free_list[o] = {}
      BY <1>0, <2>1 DEF AlignInv
    <3>2. \A o \in Orders : o < cur.order => o # cur.order
      BY <1>0, SMT
    <3> QED BY <2>1, <2>2, <3>1, <3>2
  <2>6. cur'.order # Top =>
          /\ AvailEnd < cur'.start + 2 * OrderSize[cur'.order]
          /\ AvailEnd < cur'.start + OrderSize[cur'.order]
    BY <1>0, <2>1, SMT DEF AlignInv
  <2> QED BY <1>c, <2>1, <2>3, <2>4, <2>5, <2>6 DEF AlignInv, Aligned
<1>2. CASE AddNextOrder
  <2>0. pc = "add" /\ UNCHANGED <<free_list, frames, segs>> /\ cur.start + n > AvailEnd
    BY <1>2 DEF AddNextOrder
  <2>1. CASE cur.order > 0
    <3> DEFINE o == cur.order - 1
    <3>0. cur.order \in Nat /\ cur.order # 0
      <4>1. cur.order \in Nat
        BY <1>0
      <4> QED BY <2>1, <4>1, SMT
    <3>1. o \in Orders /\ n = 2 * OrderSize[o] /\ OrderSize[o] \in Nat
      BY <1>0, <3>0, OrdersAndSizes
    <3>2. cur'.start = cur.start /\ cur'.order = o /\ pc' = "add"
      BY <1>0, <1>2, <2>1, SMT DEF AddNextOrder, Blocks
    <3>3. Aligned(cur.start, OrderSize[o])
      BY <1>0, <1>c, <2>0, <3>1, Halves
    <3>4. \A p \in Orders : p =< o => free_list[p] = {}
      <4>1. \A p \in Orders : p < cur.order => free_list[p] = {}
        BY <1>0, <2>0 DEF AlignInv
      <4>2. \A p \in Orders : p =< o => p < cur.order
        BY <1>0, <3>0, SMT
      <4> QED BY <4>1, <4>2
    <3>5. AvailEnd < cur.start + 2 * OrderSize[o]
      BY <1>0, <2>0, <3>1
    <3> HIDE DEF o
    <3>6. o \in Nat
      BY <1>0, <3>1
    <3>7. free_list[o] = {} /\ \A p \in Orders : p < o => free_list[p] = {}
      BY <1>0, <3>1, <3>4, <3>6, SMT
    <3> QED BY <1>c, <2>0, <3>2, <3>3, <3>5, <3>7 DEF AlignInv, Aligned
  <2>2. CASE cur.order = 0
    <3>1. pc' = "idle"
      BY <1>0, <1>2, <2>2, SMT DEF AddNextOrder
    <3> QED BY <1>a, <1>c, <2>0, <3>1
  <2> QED BY <1>2, <2>1, <2>2 DEF AddNextOrder
<1>3. ASSUME NEW size \in Nat \ {0}, alloc_frame(size) \/ alloc_frames(size) PROVE AlignInv'
  BY <1>3, <1>a, <1>c DEF alloc_frame, alloc_frames
<1>4. CASE AllocPops
  <2> DEFINE i == Min(Candidates)
  <2>1. i \in Orders
    <3>1. Candidates \in SUBSET Nat /\ Candidates # {}
      BY <1>0, <1>4 DEF Candidates, AllocPops
    <3>2. i \in Candidates
      BY <3>1, MinIsMember
    <3> QED BY <3>2 DEF Candidates
  <2>2. PICK chunk \in free_list[i] :
          /\ free_list' = [free_list EXCEPT ![i] = @ \ {chunk}]
          /\ cur' = [start |-> chunk, order |-> i]
    BY <1>4 DEF AllocPops
  <2> HIDE DEF i
  <2>3. \A o \in Orders : free_list'[o] \subseteq free_list[o]
    BY <1>0, <2>1, <2>2 DEF TypeOK
  <2>4. cur'.start = chunk /\ cur'.order = i /\ pc' = "split" /\ UNCHANGED <<frames, segs>>
    BY <1>4, <2>2 DEF AllocPops
  <2> QED BY <1>b, <1>c, <2>1, <2>3, <2>4
<1>5. CASE AllocFails
  BY <1>5, <1>a, <1>c DEF AllocFails
<1>6. CASE Split
  <2> DEFINE o == cur.order - 1
             u == UpperHalf(cur.start, o)
  <2>1. o \in Orders /\ n = 2 * OrderSize[o]
    BY <1>0, <1>6, OrdersAndSizes, SMT DEF Split
  <2>2. Aligned(cur.start, OrderSize[o]) /\ Aligned(u, OrderSize[o])
    BY <1>0, <1>6, <1>c, <2>1, Halves DEF Split, UpperHalf
  <2>3. cur'.start = cur.start /\ cur'.order = o /\ pc' = "split" /\ UNCHANGED <<frames, segs>>
    BY <1>0, <1>6 DEF Split, Blocks
  <2>4. push(o, u)
    BY <1>6 DEF Split
  <2> HIDE DEF o, u
  <2>5. \A p \in Orders : \A t \in free_list'[p] : t \in free_list[p] \/ (p = o /\ t = u)
    BY <1>0, <2>1, <2>4 DEF push, TypeOK
  <2>6. \A p \in Orders : \A t \in free_list'[p] : Aligned(t, OrderSize[p])
    BY <1>c, <2>2, <2>5
  <2> QED BY <1>b, <1>c, <2>2, <2>3, <2>6
<1>7. CASE AllocReturns
  <2> DEFINE frame == [start |-> cur.start, size |-> OrderSize[want]]
  <2>1. frame.start = cur.start /\ frame.size = n /\ Aligned(cur.start, n)
    BY <1>7, <1>c DEF AllocReturns
  <2>2. frames' \cup segs' \subseteq (frames \cup segs) \cup {frame}
    BY <1>7 DEF AllocReturns
  <2>3. pc' \notin {"add", "split", "merge"} /\ free_list' = free_list
    BY <1>7 DEF AllocReturns
  <2> HIDE DEF frame, n
  <2>4. \A f \in frames' \cup segs' : Aligned(f.start, f.size)
    BY <1>c, <2>1, <2>2
  <2> QED BY <1>a, <1>c, <2>3, <2>4
<1>8. ASSUME NEW f \in frames \cup segs, pc' = "merge", free_list' = free_list,
             frames' \cup segs' \subseteq frames \cup segs, cur' = BlockOf(f)
      PROVE  AlignInv'
  <2>1. cur'.start = f.start /\ OrderSize[cur'.order] = f.size
    BY <1>0, <1>8, FrameSize
  <2> QED BY <1>8, <1>b, <1>c, <2>1
<1>9. ASSUME NEW f \in frames, Drop(f) PROVE AlignInv'
  BY <1>8, <1>9 DEF Drop
<1>10. ASSUME NEW f \in segs, DropSegment(f) PROVE AlignInv'
  BY <1>8, <1>10 DEF DropSegment
<1>11. CASE Merge
  <2>1. /\ \A o \in Orders : free_list'[o] \subseteq free_list[o]
        /\ cur'.start = MergedStart
        /\ cur'.order = cur.order + 1
        /\ pc = "merge" /\ pc' = "merge" /\ UNCHANGED <<frames, segs>>
    BY <1>0, <1>11 DEF Merge, TypeOK
  <2>2. OrderSize[cur'.order] = 2 * n
    <3>1. cur.order + 1 \in Orders /\ cur.order + 1 # 0 /\ (cur.order + 1) - 1 = cur.order
      BY <1>0, <1>11, OrderAssumption, SMT DEF Merge, Orders, Top
    <3> QED BY <2>1, <3>1, OrdersAndSizes
  <2>3. Aligned(MergedStart, 2 * n)
    BY <1>0, <1>c, <2>1, BuddyPair DEF MergedStart, BuddyOfCur
  <2> QED BY <1>b, <1>c, <2>1, <2>2, <2>3
<1>12. CASE MergeTop \/ MergeEnds
  <2>1. /\ pc = "merge" /\ pc' \notin {"add", "split", "merge"} /\ UNCHANGED <<frames, segs>>
        /\ MergedStart \in {BuddyOfCur, cur.start}
    BY <1>12 DEF MergeTop, MergeEnds, AfterDealloc, MergedStart
  <2>2. \A o \in Orders : \A t \in free_list'[o] :
          t \in free_list[o] \/ (o = cur.order /\ t = cur.start)
    BY <1>0, <1>12, <2>1, SMT DEF MergeTop, MergeEnds, push, TypeOK
  <2> QED BY <1>a, <1>c, <2>1, <2>2
<1>13. CASE UNCHANGED vars
  BY <1>0, <1>13 DEF vars, AlignInv, Aligned
<1> QED
  BY <1>1, <1>2, <1>3, <1>4, <1>5, <1>6, <1>7, <1>9, <1>10, <1>11, <1>12, <1>13
  DEF Step, Loop, AnyCall

\* No step frees a block next to its free buddy without merging them.
LEMMA CoalescedStep == CInv /\ [Step]_vars => Coalesced'
<1> SUFFICES ASSUME CInv, [Step]_vars PROVE Coalesced'
  OBVIOUS
<1> USE DEF CInv, IInv
<1> DEFINE n == OrderSize[cur.order]
<1>0. /\ TypeOK /\ LoopInv /\ AlignInv /\ Coalesced /\ NoOverlap
      /\ cur \in Blocks /\ cur.start \in Nat /\ cur.order \in Orders /\ want \in Orders
      /\ n \in Nat /\ n >= 1
      /\ Orders \subseteq Nat /\ AvailEnd \in Nat
  BY OrdersAndSizes, RangeAssumption DEF TypeOK, Blocks
<1>a. ASSUME \A o \in Orders \ {Top} : free_list'[o] \subseteq free_list[o]
      PROVE  Coalesced'
  BY <1>0, <1>a DEF Coalesced, buddy_address
<1>b. ASSUME NEW o \in Orders, NEW s \in Nat, push(o, s), Aligned(s, OrderSize[o]),
             o # Top => buddy_address(s, o) \notin free_list[o]
      PROVE  Coalesced'
  <2>1. \A p \in Orders : free_list'[p] = IF p = o THEN free_list[o] \cup {s} ELSE free_list[p]
    BY <1>0, <1>b DEF push, TypeOK
  <2>2. \A t \in free_list[o] : t \in Nat /\ Aligned(t, OrderSize[o])
    BY <1>0 DEF TypeOK, AlignInv
  <2>3. \A t \in free_list[o] : buddy_address(t, o) = s => buddy_address(s, o) = t
    BY <2>2, BuddyPair
  <2>4. buddy_address(s, o) # s
    BY <1>b, BuddyPair
  <2> SUFFICES ASSUME NEW p \in Orders \ {Top}, NEW t \in free_list'[p]
               PROVE  buddy_address(t, p) \notin free_list'[p]
    BY DEF Coalesced, buddy_address
  <2>5. CASE p # o
    BY <1>0, <2>1, <2>5 DEF Coalesced
  <2>6. CASE p = o /\ t = s
    BY <1>b, <2>1, <2>4, <2>6
  <2>7. CASE p = o /\ t \in free_list[o]
    <3>1. buddy_address(t, p) \notin free_list[p]
      BY <1>0, <2>7 DEF Coalesced
    <3>2. buddy_address(t, p) # s
      BY <1>b, <2>3, <2>7
    <3> QED BY <2>1, <2>7, <3>1, <3>2
  <2> QED BY <2>1, <2>5, <2>6, <2>7
<1>c. pc \in {"add", "split", "merge"} => Aligned(cur.start, n)
  BY <1>0 DEF AlignInv
<1>1. CASE AddChunk
  <2>1. cur.order # Top => free_list[cur.order] = {}
    BY <1>0, <1>1, SMT DEF AddChunk, AlignInv
  <2> QED BY <1>0, <1>1, <1>b, <1>c, <2>1 DEF AddChunk
<1>2. CASE AllocPops
  <2>1. \A o \in Orders : free_list'[o] \subseteq free_list[o]
    BY <1>0, <1>2 DEF AllocPops, TypeOK
  <2> QED BY <1>a, <2>1
<1>3. CASE Split
  <2> DEFINE o == cur.order - 1
             h == OrderSize[o]
             u == UpperHalf(cur.start, o)
  <2>1. o \in Orders /\ n = 2 * h /\ h \in Nat /\ h >= 1
    BY <1>0, <1>3, OrdersAndSizes, SMT DEF Split
  <2>2. Aligned(u, h) /\ buddy_address(u, o) = cur.start /\ u \in Nat
    BY <1>0, <1>3, <1>c, <2>1, Halves, SMT DEF Split, UpperHalf
  <2>3. push(o, u) /\ pc = "split"
    BY <1>3 DEF Split
  <2> HIDE DEF o, u
  <2>4. cur.start \notin free_list[o]
    <3>1. ~ Apart(cur.start, h, cur.start, n)
      BY <1>0, <2>1, SMT DEF Apart
    <3> HIDE DEF n
    <3>2. \A t \in free_list[o] : Apart(t, h, cur.start, n)
      BY <1>0, <2>1, <2>3 DEF NoOverlap, CurApart, n
    <3> QED BY <3>1, <3>2
  <2> QED BY <1>b, <2>1, <2>2, <2>3, <2>4
<1>4. CASE Merge
  <2>1. \A o \in Orders : free_list'[o] \subseteq free_list[o]
    BY <1>0, <1>4 DEF Merge, TypeOK
  <2> QED BY <1>a, <2>1
<1>5. CASE MergeTop
  <2>1. \A o \in Orders \ {Top} : free_list'[o] \subseteq free_list[o]
    BY <1>0, <1>5 DEF MergeTop, TypeOK
  <2> QED BY <1>a, <2>1
<1>6. CASE MergeEnds
  BY <1>0, <1>6, <1>b, <1>c DEF MergeEnds, BuddyOfCur
<1>7. ASSUME free_list' = free_list PROVE Coalesced'
  BY <1>7, <1>a
<1> QED
  BY <1>1, <1>2, <1>3, <1>4, <1>5, <1>6, <1>7
  DEF Step, Loop, AnyCall, AddNextOrder, alloc_frame, alloc_frames, AllocFails,
      AllocReturns, Drop, DropSegment, vars

\* The first block that add looks at is aligned.
LEMMA InitCInv == Init => CInv
<1> SUFFICES ASSUME Init PROVE CInv
  OBVIOUS
<1> DEFINE d == OrderSize[Top]
           x == AvailStart + d - 1
<1>1. d \in Nat /\ d >= 1 /\ x \in Nat
  BY OrdersAndSizes, RangeAssumption, SMT
<1>2. x \div d \in Nat
  BY <1>1, SMT
<1>3. Aligned(AlignedStart, d)
  BY <1>2 DEF Aligned, AlignedStart
<1>4. \A o \in Orders : free_list[o] = {}
  BY DEF Init
<1>5. cur.start = AlignedStart /\ cur.order = Top /\ frames = {} /\ segs = {}
  BY DEF Init
<1>6. AlignInv
  BY <1>3, <1>4, <1>5 DEF AlignInv
<1>7. Coalesced
  BY <1>4 DEF Coalesced
<1> QED BY <1>6, <1>7, InitIInv DEF CInv

\* CInv is inductive.
THEOREM CInductive == Spec => []CInv
<1>1. CInv /\ [Next]_vars => CInv'
  BY NextIsStep, TypeStep, LoopStep, OverlapStep, AlignStep, CoalescedStep DEF CInv, IInv
<1> QED BY <1>1, InitCInv, PTL DEF Spec

\* Below the largest order a block and its buddy are never both free.
THEOREM CoalescedTheorem == Spec => []Coalesced
<1>1. CInv => Coalesced
  BY DEF CInv
<1> QED BY <1>1, CInductive, PTL

-----------------------------------------------------------------------------
(* Fragmentation *)

\* Blocks of one size that start at multiples of it are the same or apart.
LEMMA AlignedMeet ==
  ASSUME NEW n \in Nat, n >= 1, NEW s, NEW t, Aligned(s, n), Aligned(t, n)
  PROVE  s = t \/ Apart(s, n, t, n)
<1>1. PICK q \in Nat : s = q * n
  BY DEF Aligned
<1>2. PICK k \in Nat : t = k * n
  BY DEF Aligned
<1>3. ASSUME NEW i \in Nat, NEW j \in Nat, i < j PROVE i * n + n =< j * n
  <2>1. PICK d \in Nat : j = (i + 1) + d
    BY <1>3, SMT
  <2>2. j * n = (i * n + n) + d * n /\ d * n \in Nat /\ i * n \in Nat
    BY <2>1, SMT
  <2> QED BY <2>2, SMT
<1>4. q < k \/ k < q \/ q = k
  BY SMT
<1> QED BY <1>1, <1>2, <1>3, <1>4 DEF Apart

\* An aligned run of free pages that no free block of its order or above
\* meets: it is put together from smaller ones.
Patched(s, o) ==
  /\ Aligned(s, OrderSize[o])
  /\ Pages(s, OrderSize[o]) \subseteq FreePages
  /\ \A p \in Orders : \A t \in free_list[p] :
       p >= o => Apart(t, OrderSize[p], s, OrderSize[o])

\* Half of a patched run that holds no smaller patched run is a free block.
LEMMA HalfIsBlock ==
  ASSUME CInv, NEW o \in Orders, NEW p \in Orders, o = p + 1,
         NEW s \in Nat, Patched(s, o),
         NEW t \in Nat, t = s \/ t = s + OrderSize[p],
         ~ Patched(t, p)
  PROVE  t \in free_list[p]
<1> DEFINE h == OrderSize[p]
<1>0. /\ h \in Nat /\ h >= 1 /\ OrderSize[o] = 2 * h /\ Orders \subseteq Nat
  <2>1. p \in Nat /\ o # 0 /\ o - 1 = p
    BY OrdersAndSizes, SMT
  <2> QED BY <2>1, OrdersAndSizes
<1>1. Aligned(s, 2 * h) /\ Pages(s, 2 * h) \subseteq FreePages
  BY <1>0 DEF Patched
<1>2. Aligned(t, h)
  BY <1>1, Halves
<1>3. Pages(t, h) \subseteq FreePages
  BY <1>0, <1>1, TwoHalves
<1>a. PICK r \in Orders : \E u \in free_list[r] : r >= p /\ ~ Apart(u, OrderSize[r], t, h)
  BY <1>2, <1>3 DEF Patched
<1>4. PICK u \in free_list[r] : r >= p /\ ~ Apart(u, OrderSize[r], t, h)
  BY <1>a
<1>5. u \in Nat /\ Aligned(u, OrderSize[r]) /\ OrderSize[r] \in Nat
  BY OrdersAndSizes DEF CInv, IInv, TypeOK, AlignInv
<1>6. ~ Apart(u, OrderSize[r], s, 2 * h)
  BY <1>0, <1>4, <1>5, SMT DEF Apart
<1>7. ~ (r >= o)
  BY <1>0, <1>6 DEF Patched
<1>8. r = p
  BY <1>0, <1>4, <1>7, SMT
<1>9. u = t
  BY <1>0, <1>2, <1>4, <1>5, <1>8, AlignedMeet
<1> QED BY <1>8, <1>9

\* There is no patched run: its smallest one would be a free block and its
\* free buddy, which dealloc has merged.
LEMMA NothingPatched ==
  ASSUME CInv, NEW o \in Orders, NEW s \in Nat
  PROVE  ~ Patched(s, o)
<1> SUFFICES ASSUME Patched(s, o) PROVE FALSE
  OBVIOUS
<1> DEFINE B == {p \in Orders : \E t \in Nat : Patched(t, p)}
           m == Min(B)
<1>1. m \in B /\ \A p \in B : m =< p
  <2>1. B \in SUBSET Nat /\ B # {}
    BY OrdersAndSizes
  <2> QED BY <2>1, MinIsMember
<1>2. PICK t \in Nat : Patched(t, m)
  BY <1>1
<1>3. m \in Orders /\ m \in Nat
  BY <1>1, OrdersAndSizes
<1>4. CASE m = 0
  <2>1. OrderSize[m] = 1
    BY <1>4, SizeAssumption
  <2>2. t \in Pages(t, 1)
    BY SMT DEF Pages
  <2>3. t \in FreePages
    BY <1>2, <2>1, <2>2 DEF Patched
  <2>4. PICK p \in Orders : \E u \in free_list[p] : t \in Pages(u, OrderSize[p])
    BY <2>3, SMT DEF FreePages
  <2>5. PICK u \in free_list[p] : t \in Pages(u, OrderSize[p])
    BY <2>4
  <2>6. p >= m /\ u \in Nat /\ OrderSize[p] \in Nat
    <3>1. u \in Nat /\ OrderSize[p] \in Nat /\ p \in Nat
      BY OrdersAndSizes DEF CInv, IInv, TypeOK
    <3> QED BY <1>4, <3>1, SMT
  <2>7. ~ Apart(u, OrderSize[p], t, 1)
    BY <2>5, <2>6, SMT DEF Apart, Pages
  <2> QED BY <1>2, <2>1, <2>6, <2>7 DEF Patched
<1>5. CASE m # 0
  <2> DEFINE p == m - 1
             h == OrderSize[p]
  <2>1. p \in Orders /\ m = p + 1 /\ h \in Nat /\ OrderSize[m] = 2 * h /\ p # Top
    <3>1. p \in Orders /\ OrderSize[m] = 2 * h
      BY <1>3, <1>5, OrdersAndSizes
    <3>2. h \in Nat /\ m =< Top /\ Top \in Nat
      BY <1>3, <3>1, OrdersAndSizes
    <3>3. m = p + 1 /\ p # Top
      BY <1>3, <3>2, SMT
    <3> QED BY <3>1, <3>2, <3>3
  <2>2. p \notin B
    <3>1. ~ (m =< p)
      BY <1>3, SMT
    <3> QED BY <1>1, <3>1
  <2>3. t + h \in Nat
    BY <2>1, SMT
  <2> HIDE DEF m, p
  <2>4. ~ Patched(t, p) /\ ~ Patched(t + h, p)
    BY <2>1, <2>2, <2>3
  <2>5. t \in free_list[p] /\ t + h \in free_list[p]
    BY <1>2, <1>3, <2>1, <2>3, <2>4, HalfIsBlock
  <2>6. buddy_address(t, p) = t + h
    BY <1>2, <2>1, Halves DEF Patched
  <2> QED BY <2>1, <2>5, <2>6 DEF CInv, Coalesced
<1> QED BY <1>4, <1>5

\* A number with remainder 0 is a multiple.
LEMMA Multiple ==
  ASSUME NEW s \in Nat, NEW n \in Nat, n >= 1, s % n = 0
  PROVE  Aligned(s, n)
<1>1. s = n * (s \div n) + (s % n) /\ s \div n \in Nat
  BY SMT
<1>2. s = (s \div n) * n
  BY <1>1, SMT
<1> QED BY <1>1, <1>2 DEF Aligned

\* What RoomIsFound says of a failing alloc.
LEMMA RoomStep ==
  ASSUME CInv, AllocFails, NEW s \in AlignedStart .. AvailEnd, s % OrderSize[want] = 0
  PROVE  ~ Pages(s, OrderSize[want]) \subseteq FreePages
<1>0. want \in Orders /\ OrderSize[want] \in Nat /\ OrderSize[want] >= 1
  BY OrdersAndSizes DEF CInv, IInv, TypeOK
<1>1. s \in Nat
  BY AlignedStartNat, RangeAssumption, SMT
<1>2. Aligned(s, OrderSize[want])
  BY <1>0, <1>1, Multiple
<1>3. \A p \in Orders : p >= want => free_list[p] = {}
  BY DEF AllocFails, Candidates
<1> QED BY <1>0, <1>1, <1>2, <1>3, NothingPatched DEF Patched

\* Fragmentation never hides a free run that is as large as the block and
\* aligned to it: alloc finds every one.
THEOREM RoomIsFoundTheorem == Spec => RoomIsFound
<1>1. CInv =>
        [AllocFails => \A s \in AlignedStart .. AvailEnd :
           s % OrderSize[want] = 0 => ~ Pages(s, OrderSize[want]) \subseteq FreePages]_vars
  BY RoomStep
<1> QED BY <1>1, CInductive, PTL DEF Spec, RoomIsFound

-----------------------------------------------------------------------------
(* The segments of alloc_frames *)

\* Between operations alloc_frames holds no segment and nothing remains to be
\* allocated; and what it has collected has, with what remains, as many pages
\* as it was asked for.
SegInv ==
  /\ pc \in {"add", "idle"} => segs = {}
  /\ pc \notin {"alloc", "split"} => need = 0
  /\ pc \in {"alloc", "split"} => Cardinality(PagesOf(segs)) + need >= asked

SInv == IInv /\ SegInv

\* The segments lie in AVAIL_RANGE: they are finitely many pages.
LEMMA SegmentsFinite ==
  ASSUME IInv
  PROVE  IsFiniteSet(PagesOf(segs)) /\ Cardinality(PagesOf(segs)) \in Nat
<1>1. AlignedStart \in Int /\ AvailEnd \in Int
  BY AlignedStartType, RangeAssumption, SMT
<1>2. ASSUME NEW f \in segs PROVE Pages(f.start, f.size) \subseteq AlignedStart .. AvailEnd
  <2>1. f.start \in Nat /\ f.size \in Nat
    BY DEF IInv, TypeOK, FrameValues
  <2>2. InRange(f.start, f.size)
    BY DEF IInv, NoOverlap, AllInRange
  <2> QED BY <1>1, <2>1, <2>2, SMT DEF InRange, Pages
<1>3. PagesOf(segs) \in SUBSET (AlignedStart .. AvailEnd)
  BY <1>2 DEF PagesOf
<1>4. IsFiniteSet(AlignedStart .. AvailEnd)
  BY <1>1, FS_Interval
<1>5. IsFiniteSet(PagesOf(segs))
  BY <1>3, <1>4, FS_Subset
<1> QED BY <1>5, FS_CardinalityType

\* A block has as many pages as its size says.
LEMMA PagesCount ==
  ASSUME NEW s \in Nat, NEW n \in Nat, n >= 1
  PROVE  IsFiniteSet(Pages(s, n)) /\ Cardinality(Pages(s, n)) = n
<1>1. s \in Int /\ s + n - 1 \in Int /\ ~ (s > s + n - 1) /\ (s + n - 1) - s + 1 = n
  BY SMT
<1> QED BY <1>1, FS_Interval DEF Pages

\* The block that alloc returns adds all of its pages to the segments, and
\* is no frame that a caller has.
LEMMA SegmentAdds ==
  ASSUME IInv, AllocReturns
  PROVE  LET frame == [start |-> cur.start, size |-> OrderSize[want]]
         IN  /\ Cardinality(PagesOf(segs \cup {frame})) =
                  Cardinality(PagesOf(segs)) + OrderSize[want]
             /\ frame \notin frames
<1> DEFINE n == OrderSize[want]
           frame == [start |-> cur.start, size |-> n]
           P == PagesOf(segs)
           Q == Pages(cur.start, n)
<1>0. n \in Nat /\ n >= 1 /\ cur.start \in Nat /\ cur.order = want
  BY OrdersAndSizes DEF IInv, TypeOK, Blocks, AllocReturns
<1>1. \A f \in frames \cup segs : f.start \in Nat /\ f.size \in Nat
  BY DEF IInv, TypeOK, FrameValues
<1>2. \A f \in frames \cup segs : Apart(f.start, f.size, cur.start, n)
  BY <1>0 DEF IInv, NoOverlap, CurApart, AllocReturns
<1>3. ASSUME NEW f \in segs PROVE Pages(f.start, f.size) \cap Q = {}
  BY <1>0, <1>1, <1>2, SMT DEF Apart, Pages
<1>4. P \cap Q = {}
  BY <1>3 DEF PagesOf
<1>5. frame.start = cur.start /\ frame.size = n
  OBVIOUS
<1>6. frame \notin frames
  <2>1. ~ Apart(cur.start, n, cur.start, n)
    BY <1>0, SMT DEF Apart
  <2> QED BY <1>2, <1>5, <2>1
<1>7. PagesOf(segs \cup {frame}) = P \cup Q
  BY <1>5 DEF PagesOf
<1>8. IsFiniteSet(P) /\ Cardinality(P) \in Nat /\ IsFiniteSet(Q) /\ Cardinality(Q) = n
  BY <1>0, SegmentsFinite, PagesCount
<1> HIDE DEF P, Q, frame
<1>9. Cardinality(P \cup Q) = Cardinality(P) + Cardinality(Q) - Cardinality(P \cap Q)
  BY <1>8, FS_Union
<1>10. Cardinality(P \cap Q) = 0
  BY <1>4, FS_EmptySet
<1>11. Cardinality(P \cup Q) = Cardinality(P) + n
  BY <1>0, <1>8, <1>9, <1>10, SMT
<1> QED BY <1>6, <1>7, <1>11 DEF P, frame

\* No round of the loop of alloc_frames forgets a page.
LEMMA SegStep == SInv /\ [Step]_vars => SegInv'
<1> SUFFICES ASSUME SInv, [Step]_vars PROVE SegInv'
  OBVIOUS
<1> DEFINE P == PagesOf(segs)
<1>0. IInv /\ SegInv /\ TypeOK /\ need \in Nat /\ asked \in Nat /\ Cardinality(P) \in Nat
  BY SegmentsFinite DEF SInv, IInv, TypeOK
<1>a. UNCHANGED segs => PagesOf(segs)' = P
  BY DEF PagesOf, Pages
<1>1. CASE AddChunk \/ AddNextOrder
  BY <1>0, <1>1 DEF AddChunk, AddNextOrder, SegInv
<1>2. ASSUME NEW size \in Nat \ {0}, alloc_frame(size) PROVE SegInv'
  <2>1. pc' = "alloc" /\ asked' = 0 /\ UNCHANGED <<segs, need>>
    BY <1>2 DEF alloc_frame
  <2>2. Cardinality(PagesOf(segs)') + need' >= asked'
    BY <1>0, <1>a, <2>1, SMT
  <2> QED BY <2>1, <2>2 DEF SegInv
<1>3. ASSUME NEW size \in Nat \ {0}, alloc_frames(size) PROVE SegInv'
  <2>1. pc' = "alloc" /\ asked' = size /\ need' = size /\ UNCHANGED segs
    BY <1>3 DEF alloc_frames
  <2>2. Cardinality(PagesOf(segs)') + need' >= asked'
    BY <1>0, <1>a, <2>1, SMT
  <2> QED BY <2>1, <2>2 DEF SegInv
<1>4. CASE AllocPops \/ Split
  <2>1. pc \in {"alloc", "split"} /\ pc' = "split" /\ UNCHANGED <<segs, need, asked>>
    BY <1>4 DEF AllocPops, Split
  <2>2. Cardinality(PagesOf(segs)') + need' >= asked'
    BY <1>0, <1>a, <2>1 DEF SegInv
  <2> QED BY <2>1, <2>2 DEF SegInv
<1>5. CASE AllocFails
  BY <1>0, <1>5 DEF AllocFails, SegInv
<1>6. CASE AllocReturns
  <2> DEFINE frame == [start |-> cur.start, size |-> OrderSize[want]]
             rest == Remaining(frame.size)
  <2>1. /\ need' = rest /\ asked' = asked /\ pc = "split"
        /\ \/ rest > 0 /\ segs' = segs \cup {frame} /\ pc' = "alloc"
           \/ rest = 0 /\ segs' = {} /\ pc' = "idle"
    BY <1>6 DEF AllocReturns
  <2>2. CASE rest > 0 /\ segs' = segs \cup {frame} /\ pc' = "alloc"
    <3>1. Cardinality(PagesOf(segs \cup {frame})) = Cardinality(P) + OrderSize[want]
      BY <1>0, <1>6, SegmentAdds
    <3>2. Cardinality(P) + need >= asked
      BY <1>0, <2>1 DEF SegInv
    <3>3. OrderSize[want] \in Nat
      BY <1>0, OrdersAndSizes DEF TypeOK
    <3>4. need' + OrderSize[want] = need /\ need' \in Int
      BY <1>0, <2>1, <2>2, <3>3, SMT DEF Remaining
    <3>5. PagesOf(segs)' = PagesOf(segs \cup {frame})
      BY <2>2 DEF PagesOf, Pages
    <3> HIDE DEF frame, rest, P
    <3>6. Cardinality(PagesOf(segs)') + need' >= asked'
      BY <1>0, <2>1, <3>1, <3>2, <3>3, <3>4, <3>5, SMT
    <3> QED BY <2>2, <3>6 DEF SegInv
  <2>3. CASE rest = 0 /\ segs' = {} /\ pc' = "idle"
    BY <2>1, <2>3 DEF SegInv
  <2> QED BY <2>1, <2>2, <2>3
<1>7. CASE \E f \in frames : Drop(f)
  BY <1>0, <1>7 DEF Drop, SegInv
<1>8. CASE \E f \in segs : DropSegment(f)
  BY <1>0, <1>8 DEF DropSegment, SegInv
<1>9. CASE Merge
  BY <1>0, <1>9 DEF Merge, SegInv
<1>10. CASE MergeTop \/ MergeEnds
  BY <1>0, <1>10 DEF MergeTop, MergeEnds, AfterDealloc, SegInv
<1>11. CASE UNCHANGED vars
  BY <1>0, <1>a, <1>11 DEF vars, SegInv
<1> QED
  BY <1>1, <1>2, <1>3, <1>4, <1>5, <1>6, <1>7, <1>8, <1>9, <1>10, <1>11
  DEF Step, Loop, AnyCall

\* What SegmentsSuffice says of a returning alloc_frames.
LEMMA SufficeStep ==
  ASSUME SInv, [Step]_vars, pc = "split", pc' = "idle"
  PROVE  Cardinality(PagesOf(frames' \ frames)) >= asked
<1>1. AllocReturns
  BY DEF Step, Loop, AnyCall, AddChunk, AddNextOrder, AllocPops, AllocFails, Split,
         DropSegment, Drop, Merge, MergeTop, MergeEnds, alloc_frame, alloc_frames, vars
<1> DEFINE frame == [start |-> cur.start, size |-> OrderSize[want]]
<1>2. frames' = frames \cup segs \cup {frame} /\ Remaining(OrderSize[want]) = 0
  BY <1>1 DEF AllocReturns
<1>3. frames \cap segs = {}
  BY DEF SInv, IInv, NoOverlap, FramesApart
<1>4. /\ Cardinality(PagesOf(segs \cup {frame})) = Cardinality(PagesOf(segs)) + OrderSize[want]
      /\ frame \notin frames
  BY <1>1, SegmentAdds DEF SInv
<1>5. frames' \ frames = segs \cup {frame}
  BY <1>2, <1>3, <1>4
<1>6. /\ need \in Nat /\ asked \in Nat /\ OrderSize[want] \in Nat
      /\ Cardinality(PagesOf(segs)) \in Nat
      /\ Cardinality(PagesOf(segs)) + need >= asked
  BY OrdersAndSizes, SegmentsFinite DEF SInv, SegInv, IInv, TypeOK
<1>7. need =< OrderSize[want]
  BY <1>2, <1>6, SMT DEF Remaining
<1>8. Cardinality(PagesOf(segs)) + OrderSize[want] >= asked
  BY <1>6, <1>7, SMT
<1> QED BY <1>4, <1>5, <1>8

\* alloc_frames returns at least as many different pages as were asked for,
\* however many blocks that takes.
THEOREM SegmentsSufficeTheorem == Spec => SegmentsSuffice
<1>1. Init => SInv
  BY InitIInv DEF Init, SInv, SegInv
<1>2. SInv /\ [Next]_vars => SInv'
  BY NextIsStep, TypeStep, LoopStep, OverlapStep, SegStep DEF SInv, IInv
<1>3. SInv /\ [Next]_vars =>
        [pc = "split" /\ pc' = "idle" => Cardinality(PagesOf(frames' \ frames)) >= asked]_vars
  BY NextIsStep, SufficeStep
<1> QED BY <1>1, <1>2, <1>3, PTL DEF Spec, SegmentsSuffice

=============================================================================
