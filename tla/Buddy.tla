------------------------------- MODULE Buddy -------------------------------
(***************************************************************************)
(* The buddy allocator of physical page frames (src/mm/allocator/buddy.rs) *)
(* behind alloc_frame, alloc_frames, dealloc_frame and Frame's Drop        *)
(* (src/mm/allocator.rs, src/mm/frame.rs).                                 *)
(*                                                                         *)
(* Memory is counted in pages.  FRAME_ALLOCATOR's lock is held during each *)
(* alloc and dealloc, and nothing preempts the kernel, so one operation    *)
(* runs at a time; each round of its loops is a step.  An IntrusiveList is *)
(* the set of its nodes: which node pop returns is left open, and that no  *)
(* node is pushed twice is part of NoOverlap.                              *)
(***************************************************************************)
EXTENDS Integers, FiniteSetsExt

CONSTANTS BUDDY_MAX_ORDER,  \* orders are 0 .. BUDDY_MAX_ORDER - 1
          OrderSize,        \* order_size in pages, as a function
          AvailStart,       \* AVAIL_RANGE: _end and the address of the
          AvailEnd,         \* device tree
          Sizes             \* the sizes callers ask for

Orders == 0 .. (BUDDY_MAX_ORDER - 1)
Top == BUDDY_MAX_ORDER - 1

ASSUME OrderAssumption == BUDDY_MAX_ORDER \in Nat \ {0}
ASSUME SizeAssumption ==
  /\ OrderSize \in [Orders -> Nat \ {0}]
  /\ OrderSize[0] = 1
  /\ \A o \in Orders \ {Top} : OrderSize[o + 1] = 2 * OrderSize[o]
ASSUME RangeAssumption == AvailStart \in Nat /\ AvailEnd \in Nat
ASSUME RequestAssumption == Sizes \subseteq Nat \ {0}

VARIABLES
  free_list,  \* BuddyAllocator.free_list
  frames,     \* the Frame values that callers own
  segs,       \* alloc_frames's Vec while it is being filled or dropped
  need,       \* alloc_frames's remaining; 0 in alloc_frame
  pc,         \* the loop that runs
  cur,        \* the block the loop works on
  want,       \* the order that alloc looks for
  asked       \* history: the size alloc_frames was called with

vars == <<free_list, frames, segs, need, pc, cur, want, asked>>

Blocks == [start : Nat, order : Orders]
FrameValues == [start : Nat, size : Nat \ {0}]
NoBlock == [start |-> 0, order |-> 0]

-----------------------------------------------------------------------------
(* Sizes and addresses *)

\* Mutant: no limit.
size_to_order_uncapped(size) ==
  LET enough == {o \in Orders : size =< OrderSize[o]}
  IN  IF enough = {} THEN BUDDY_MAX_ORDER ELSE Min(enough)

\* The smallest order that is large enough, at most the largest order.
size_to_order(size) ==
  LET enough == {o \in Orders : size =< OrderSize[o]}
  IN  IF enough = {} THEN Top ELSE Min(enough)

\* Mutant: always the block above.
buddy_address_above(base, order) == base + OrderSize[order]

\* base ^ order_size(order): the bit of the order is flipped.
buddy_address(base, order) ==
  IF (base \div OrderSize[order]) % 2 = 1
  THEN base - OrderSize[order]
  ELSE base + OrderSize[order]

\* align to the size of the largest block
AlignedStart ==
  ((AvailStart + OrderSize[Top] - 1) \div OrderSize[Top]) * OrderSize[Top]

push(order, start) ==
  free_list' = [free_list EXCEPT ![order] = @ \cup {start}]

-----------------------------------------------------------------------------
(* add: the range is cut into blocks, from the largest order down. *)

AddChunk ==
  /\ pc = "add"
  /\ cur.start + OrderSize[cur.order] =< AvailEnd
  /\ push(cur.order, cur.start)
  /\ cur' = [cur EXCEPT !.start = @ + OrderSize[cur.order]]
  /\ UNCHANGED <<frames, segs, need, pc, want, asked>>

AddNextOrder ==
  /\ pc = "add"
  /\ cur.start + OrderSize[cur.order] > AvailEnd
  /\ \/ cur.order > 0 /\ cur' = [cur EXCEPT !.order = @ - 1] /\ UNCHANGED pc
     \/ cur.order = 0 /\ cur' = NoBlock /\ pc' = "idle"
  /\ UNCHANGED <<free_list, frames, segs, need, want, asked>>

-----------------------------------------------------------------------------
(* Allocation *)

\* alloc_frame(Some(size)), also the one in Frame::try_clone
alloc_frame(size) ==
  /\ pc = "idle"
  /\ pc' = "alloc"
  /\ want' = size_to_order(size)
  /\ asked' = 0
  /\ UNCHANGED <<free_list, frames, segs, need, cur>>

\* alloc_frames(size): the first round of its loop
alloc_frames(size) ==
  /\ pc = "idle"
  /\ pc' = "alloc"
  /\ want' = size_to_order(size)
  /\ need' = size
  /\ asked' = size
  /\ UNCHANGED <<free_list, frames, segs, cur>>

\* Mutant: only lists above the order are searched.
CandidatesAbove == {o \in Orders : o > want /\ free_list[o] # {}}

\* The lists that alloc looks at and finds something in.
Candidates == {o \in Orders : o >= want /\ free_list[o] # {}}

AllocPops ==
  /\ pc = "alloc" /\ Candidates # {}
  /\ LET i == Min(Candidates)
     IN  \E chunk \in free_list[i] :
           /\ free_list' = [free_list EXCEPT ![i] = @ \ {chunk}]
           /\ cur' = [start |-> chunk, order |-> i]
  /\ pc' = "split"
  /\ UNCHANGED <<frames, segs, need, want, asked>>

\* Mutant: it tries again.
AllocFailsRetries ==
  /\ pc = "alloc" /\ Candidates = {}
  /\ UNCHANGED vars

\* None: what alloc_frames has collected is dropped.
AllocFails ==
  /\ pc = "alloc" /\ Candidates = {}
  /\ pc' = IF segs = {} THEN "idle" ELSE "drop"
  /\ need' = 0
  /\ asked' = 0
  /\ UNCHANGED <<free_list, frames, segs, cur, want>>

\* Mutant: the lower half is freed and also kept.
UpperHalfWrong(start, order) == start

\* The half that a split frees.
UpperHalf(start, order) == start + OrderSize[order]

\* Mutant: the upper half is not put on a list.
SplitForgets ==
  /\ pc = "split" /\ cur.order > want
  /\ cur' = [cur EXCEPT !.order = @ - 1]
  /\ UNCHANGED <<free_list, frames, segs, need, pc, want, asked>>

Split ==
  /\ pc = "split" /\ cur.order > want
  /\ push(cur.order - 1, UpperHalf(cur.start, cur.order - 1))
  /\ cur' = [cur EXCEPT !.order = @ - 1]
  /\ UNCHANGED <<frames, segs, need, pc, want, asked>>

\* Mutant: the loop takes the request for satisfied by its last block.
RemainingAfterOne(size) == 0

\* remaining.saturating_sub(frame.size)
Remaining(size) == IF need > size THEN need - size ELSE 0

\* The block becomes a Frame whose size is that of the block; alloc_frames
\* goes on while something remains.
AllocReturns ==
  /\ pc = "split" /\ cur.order = want
  /\ LET frame == [start |-> cur.start, size |-> OrderSize[want]]
         rest == Remaining(frame.size)
     IN  /\ need' = rest
         /\ \/ /\ rest > 0
               /\ segs' = segs \cup {frame}
               /\ want' = size_to_order(rest)
               /\ pc' = "alloc"
               /\ UNCHANGED frames
            \/ /\ rest = 0
               /\ frames' = frames \cup segs \cup {frame}
               /\ segs' = {}
               /\ pc' = "idle"
               /\ UNCHANGED want
  /\ cur' = NoBlock
  /\ UNCHANGED <<free_list, asked>>

-----------------------------------------------------------------------------
(* Release *)

BlockOf(frame) == [start |-> frame.start, order |-> size_to_order(frame.size)]

\* Drop of a Frame that a caller owns
Drop(frame) ==
  /\ pc = "idle" /\ frame \in frames
  /\ frames' = frames \ {frame}
  /\ cur' = BlockOf(frame)
  /\ pc' = "merge"
  /\ UNCHANGED <<free_list, segs, need, want, asked>>

\* Drop of a Frame in the Vec of an alloc_frames that has failed
DropSegment(frame) ==
  /\ pc = "drop" /\ frame \in segs
  /\ segs' = segs \ {frame}
  /\ cur' = BlockOf(frame)
  /\ pc' = "merge"
  /\ UNCHANGED <<free_list, frames, need, want, asked>>

BuddyOfCur == buddy_address(cur.start, cur.order)

MergedStart == IF BuddyOfCur < cur.start THEN BuddyOfCur ELSE cur.start

\* The buddy is free: the two become one block of the next order.
Merge ==
  /\ pc = "merge" /\ cur.order < Top
  /\ BuddyOfCur \in free_list[cur.order]
  /\ free_list' = [free_list EXCEPT ![cur.order] = @ \ {BuddyOfCur}]
  /\ cur' = [start |-> MergedStart, order |-> cur.order + 1]
  /\ UNCHANGED <<frames, segs, need, pc, want, asked>>

AfterDealloc == IF segs = {} THEN "idle" ELSE "drop"

\* The buddy of a block of the largest order is free: it is taken off the
\* list as well, but there is no order above to put the pair in.
MergeTop ==
  /\ pc = "merge" /\ cur.order = Top
  /\ BuddyOfCur \in free_list[Top]
  /\ free_list' = [free_list EXCEPT ![Top] = (@ \ {BuddyOfCur}) \cup {MergedStart}]
  /\ cur' = NoBlock
  /\ pc' = AfterDealloc
  /\ UNCHANGED <<frames, segs, need, want, asked>>

MergeEnds ==
  /\ pc = "merge"
  /\ BuddyOfCur \notin free_list[cur.order]
  /\ push(cur.order, cur.start)
  /\ cur' = NoBlock
  /\ pc' = AfterDealloc
  /\ UNCHANGED <<frames, segs, need, want, asked>>

-----------------------------------------------------------------------------
Init ==
  /\ free_list = [o \in Orders |-> {}]
  /\ frames = {}
  /\ segs = {}
  /\ need = 0
  /\ pc = "add"
  /\ cur = [start |-> AlignedStart, order |-> Top]
  /\ want = 0
  /\ asked = 0

\* A round of a loop that a caller is waiting for.
Loop ==
  \/ AddChunk \/ AddNextOrder
  \/ AllocPops \/ AllocFails \/ Split \/ AllocReturns
  \/ \E frame \in segs : DropSegment(frame)
  \/ Merge \/ MergeTop \/ MergeEnds

Call ==
  \/ \E size \in Sizes : alloc_frame(size) \/ alloc_frames(size)
  \/ \E frame \in frames : Drop(frame)

Next == Loop \/ Call

Spec == Init /\ [][Next]_vars

\* A loop that runs goes on: it holds the hart.
FairSpec == Spec /\ WF_vars(Loop)

-----------------------------------------------------------------------------
(* Properties *)

\* The allocator, the frames and the loop variables have their types.
TypeOK ==
  /\ free_list \in [Orders -> SUBSET Nat]
  /\ frames \subseteq FrameValues
  /\ segs \subseteq FrameValues
  /\ need \in Nat
  /\ pc \in {"add", "idle", "alloc", "split", "merge", "drop"}
  /\ cur \in Blocks
  /\ want \in Orders
  /\ asked \in Nat

Apart(s, m, t, n) == s + m =< t \/ t + n =< s

InRange(s, n) == AlignedStart =< s /\ s + n =< AvailEnd

\* Free blocks are disjoint from each other.
FreeApart ==
  \A o, p \in Orders : \A s \in free_list[o], t \in free_list[p] :
    <<o, s>> = <<p, t>> \/ Apart(s, OrderSize[o], t, OrderSize[p])

\* Frames are disjoint from each other and from the free blocks.
FramesApart ==
  /\ frames \cap segs = {}
  /\ \A f, g \in frames \cup segs : f = g \/ Apart(f.start, f.size, g.start, g.size)
  /\ \A o \in Orders : \A s \in free_list[o] : \A f \in frames \cup segs :
       Apart(s, OrderSize[o], f.start, f.size)

\* The block that a split or merge works on is disjoint from all others.
CurApart ==
  pc \in {"split", "merge"} =>
    /\ InRange(cur.start, OrderSize[cur.order])
    /\ \A o \in Orders : \A s \in free_list[o] :
         Apart(s, OrderSize[o], cur.start, OrderSize[cur.order])
    /\ \A f \in frames \cup segs :
         Apart(f.start, f.size, cur.start, OrderSize[cur.order])

AllInRange ==
  /\ \A o \in Orders : \A s \in free_list[o] : InRange(s, OrderSize[o])
  /\ \A f \in frames \cup segs : InRange(f.start, f.size)

\* No page is ever in two free blocks, in two frames or in a free block and a
\* frame, not even half-way through a split or a merge, and none is outside
\* AVAIL_RANGE (BuddyAllocator::alloc and dealloc).
NoOverlap == FreeApart /\ FramesApart /\ CurApart /\ AllInRange

\* Release merges all the way up: below the largest order no block is free
\* together with its buddy (the loop of dealloc, and the blocks that add and
\* split put on the lists).
Coalesced ==
  \A o \in Orders \ {Top} : \A s \in free_list[o] :
    buddy_address(s, o) \notin free_list[o]

Pages(s, n) == s .. (s + n - 1)

FreePages ==
  UNION {UNION {Pages(s, OrderSize[o]) : s \in free_list[o]} : o \in Orders}

PagesOf(F) == UNION {Pages(f.start, f.size) : f \in F}

FramePages == PagesOf(frames \cup segs)

\* The pages of the block that a loop works on, or that add has still to cut.
LoopPages ==
  CASE pc = "add" -> cur.start .. (AvailEnd - 1)
    [] pc \in {"split", "merge"} -> Pages(cur.start, OrderSize[cur.order])
    [] OTHER -> {}

\* Every step but a merge at the largest order keeps every page either free
\* or in a frame (add_frame, alloc, dealloc).
Conserved ==
  [][~ MergeTop =>
       FreePages' \cup FramePages' \cup LoopPages' =
         FreePages \cup FramePages \cup LoopPages]_vars

\* alloc gives up only if there is no free run of pages that is as large as
\* the block and aligned to it: fragmentation never hides one.
RoomIsFound ==
  [][AllocFails =>
       \A s \in AlignedStart .. AvailEnd :
         s % OrderSize[want] = 0 => ~ Pages(s, OrderSize[want]) \subseteq FreePages]_vars

\* What alloc_frames returns has as many different pages as were asked for,
\* also when no single block has (the comment on alloc_frames).
SegmentsSuffice ==
  [][pc = "split" /\ pc' = "idle" =>
       Cardinality(PagesOf(frames' \ frames)) >= asked]_vars

\* Every allocation and release ends, also an alloc_frames that asks for more
\* than there is (alloc_frames's loop, Vec's Drop and dealloc's loop).
OperationEnds == pc # "idle" ~> pc = "idle"

\* What the comment on Frame says of Drop: the frame is given back, so that
\* between operations every page is free or in a frame.
NoLeak ==
  pc = "idle" =>
    FreePages \cup FramePages = AlignedStart .. (AvailEnd - 1)

=============================================================================
