-------------------------------- MODULE Heap --------------------------------
(***************************************************************************)
(* The kernel heap (src/mm/allocator/slub.rs) on top of the buddy          *)
(* allocator.  Addresses and sizes of objects are counted in units, with   *)
(* PageUnits units to a page; a slub page is named by the number of its    *)
(* first page, as in Buddy, and its header lies at its start.              *)
(*                                                                         *)
(* A heap operation ends at once or calls the buddy allocator, whose loops *)
(* then run; call says what for.  The free list of a slub page is the set  *)
(* of its objects, and which of them pop returns is left open.  There is   *)
(* one hart (MAX_CPU is 1).                                                *)
(***************************************************************************)
EXTENDS Buddy, Sequences

CONSTANTS PageUnits,                       \* PAGE_SIZE
          HeaderUnits,                     \* size_of::<SlubPage>()
          SLUB_MIN_ORDER, SLUB_MAX_ORDER,
          SLUB_MIN_OBJECTS, SLUB_MAX_PAGE_SIZE,
          LayoutSizes,                     \* max(size, align) of the layouts
          Pow2, MaxPow,                    \* 1 << n as a function, and its last n
          MaxObjects, MaxFrames            \* bounds

VARIABLES caches,   \* Caches: for each tier and order a Cache
          slub,     \* the slub pages: their headers
          call,     \* the operation that waits for a block
          objects   \* history: the objects that callers have

heapVars == <<caches, slub, call, objects>>
allVars == <<vars, heapVars>>

CacheOrders == SLUB_MIN_ORDER .. (SLUB_MAX_ORDER - 1)
Tiers == {"cpu_caches", "slow_caches"}
NoCall == [tier |-> "none", size |-> 0, had |-> {}]

ASSUME PowerAssumption ==
  /\ MaxPow \in Nat
  /\ Pow2 \in [0 .. MaxPow -> Nat \ {0}]
  /\ Pow2[0] = 1
  /\ \A n \in 0 .. (MaxPow - 1) : Pow2[n + 1] = 2 * Pow2[n]
ASSUME UnitAssumption ==
  /\ PageUnits \in Nat \ {0} /\ HeaderUnits \in Nat
  /\ SLUB_MIN_ORDER \in 0 .. MaxPow /\ SLUB_MAX_ORDER \in 0 .. MaxPow
ASSUME LayoutAssumption == LayoutSizes \subseteq 1 .. Pow2[MaxPow]

-----------------------------------------------------------------------------
(* Sizes *)

\* The next power of two, from the smallest object on.
layout_order(size) == Min({o \in SLUB_MIN_ORDER .. MaxPow : size =< Pow2[o]})

CeilTo(n, unit) == ((n + unit - 1) \div unit) * unit
start_offset(object_size) == CeilTo(HeaderUnits, object_size)

\* The doublings of a page that have room for the header and an object.
LargeEnough(object_size) ==
  {n \in {PageUnits * Pow2[k] : k \in 0 .. MaxPow} : n >= start_offset(object_size) + object_size}

\* The size of a new slub page: the first of them, doubled once more if that
\* makes too few objects.
page_size(object_size) ==
  LET least == Min(LargeEnough(object_size))
  IN  IF least \div object_size < SLUB_MIN_OBJECTS /\ least < SLUB_MAX_PAGE_SIZE
         /\ (2 * least) \div object_size >= 2
      THEN 2 * least ELSE least

\* The objects that SlubPage::new puts on the free list.
Carved(page, object_size) ==
  {page * PageUnits + start_offset(object_size) + k * object_size :
     k \in 0 .. (((page_size(object_size) - start_offset(object_size)) \div object_size) - 1)}

\* As SLUB_MIN_OBJECTS and the orders are, a slub page holds two objects or
\* more, and there are blocks as large as a slub page.
ASSUME SlubAssumption ==
  \A o \in CacheOrders :
    /\ LargeEnough(Pow2[o]) # {}
    /\ start_offset(Pow2[o]) + 2 * Pow2[o] =< page_size(Pow2[o])
    /\ page_size(Pow2[o]) =< OrderSize[Top] * PageUnits

\* size_to_order takes the block for a number of units.
PagesFor(units) == CeilTo(units, PageUnits) \div PageUnits
BlockFor(units) == OrderSize[size_to_order(PagesFor(units))]

\* The units that are asked of the buddy allocator for an order.
UnitsFor(order) == IF order >= SLUB_MAX_ORDER THEN Pow2[order] ELSE page_size(Pow2[order])

-----------------------------------------------------------------------------
(* Allocation *)

\* Another object for the caller.
Gains(ptr, size) == objects' = objects \cup {[ptr |-> ptr, size |-> size]}

\* Cache::alloc with a partial page: a page that is full now changes lists.
FromPartial(cache, page) ==
  IF slub[page].inuse + 1 = slub[page].objects
  THEN [partial_slubs |-> Tail(cache.partial_slubs), full_slubs |-> <<page>> \o cache.full_slubs]
  ELSE cache

alloc_obj(page, ptr) ==
  [slub EXCEPT ![page].free_list = @ \ {ptr}, ![page].inuse = @ + 1]

\* SlowCaches::alloc as far as it gets without the buddy allocator, or up to
\* the call of it.
CacheAlloc(tier, size) ==
  LET order == layout_order(size) IN
  \/ /\ order < SLUB_MAX_ORDER /\ caches[tier][order].partial_slubs # <<>>
     /\ LET page == Head(caches[tier][order].partial_slubs) IN
        \E ptr \in slub[page].free_list :
          /\ slub' = alloc_obj(page, ptr)
          /\ caches' = [caches EXCEPT ![tier][order] = FromPartial(@, page)]
          /\ Gains(ptr, size)
     /\ call' = NoCall /\ UNCHANGED vars
  \/ /\ order < SLUB_MAX_ORDER => caches[tier][order].partial_slubs = <<>>
     /\ alloc_frame(PagesFor(UnitsFor(order)))
     /\ call' = [tier |-> tier, size |-> size, had |-> frames]
     /\ UNCHANGED <<caches, slub, objects>>

\* Caches::alloc
alloc(size) ==
  /\ pc = "idle" /\ call = NoCall
  /\ CacheAlloc("cpu_caches", size)

\* The header of a slub page at its first allocation.
NewHeader(page, object_size, ptr) ==
  [page_size |-> page_size(object_size), inuse |-> 1,
   objects |-> Cardinality(Carved(page, object_size)),
   free_list |-> Carved(page, object_size) \ {ptr}]

\* The buddy allocator has given a block: it is the object, or a new slub
\* page, which goes to the partial list with one object taken.
BlockArrives ==
  LET order == layout_order(call.size) IN
  /\ pc = "idle" /\ call # NoCall
  /\ \E frame \in frames \ call.had :
       \/ /\ order >= SLUB_MAX_ORDER
          /\ Gains(frame.start * PageUnits, call.size)
          /\ UNCHANGED <<caches, slub>>
       \/ /\ order < SLUB_MAX_ORDER
          /\ \E ptr \in Carved(frame.start, Pow2[order]) :
               /\ slub' = [p \in DOMAIN slub \cup {frame.start} |->
                    IF p = frame.start THEN NewHeader(p, Pow2[order], ptr) ELSE slub[p]]
               /\ Gains(ptr, call.size)
          /\ caches' = [caches EXCEPT ![call.tier][order].partial_slubs = <<frame.start>> \o @]
  /\ call' = NoCall
  /\ UNCHANGED vars

\* It has none: the shared caches are asked, and then the result is null.
NoBlockArrives ==
  /\ pc = "idle" /\ call # NoCall /\ frames \subseteq call.had
  /\ \/ call.tier = "cpu_caches" /\ CacheAlloc("slow_caches", call.size)
     \/ /\ call.tier = "slow_caches" /\ call' = NoCall
        /\ UNCHANGED <<vars, caches, slub, objects>>

-----------------------------------------------------------------------------
(* Release *)

\* The places in a list of the pages that ptr lies in, and the first of them.
Around(list, ptr) ==
  {i \in DOMAIN list :
     ptr \in (list[i] * PageUnits) .. (list[i] * PageUnits + slub[list[i]].page_size - 1)}
PageOf(list, ptr) == Min(Around(list, ptr))

\* SlubPageList::remove
remove(list, i) == SubSeq(list, 1, i - 1) \o SubSeq(list, i + 1, Len(list))

dealloc_obj(page, ptr) ==
  [slub EXCEPT ![page].free_list = @ \cup {ptr}, ![page].inuse = @ - 1]

\* Mutant: the test is made before the object is counted off.
LastObjectEarly(page) == slub[page].inuse - 1 =< 1

\* The page is empty once one more object is freed.
LastObject(page) == slub[page].inuse - 1 = 0

\* A partial page with an object freed: off the list if that was the last.
FromPartialFreed(cache, ptr) ==
  LET j == PageOf(cache.partial_slubs, ptr)
      page == cache.partial_slubs[j]
  IN  [page |-> page, empty |-> LastObject(page),
       cache |-> IF LastObject(page)
                 THEN [cache EXCEPT !.partial_slubs = remove(@, j)] ELSE cache]

\* Mutant: a page that was full stays on the full list.
CacheDeallocStays(cache, ptr) ==
  LET i == PageOf(cache.full_slubs, ptr)
  IN  IF Around(cache.full_slubs, ptr) # {}
      THEN [page |-> cache.full_slubs[i], empty |-> FALSE, cache |-> cache]
      ELSE FromPartialFreed(cache, ptr)

\* Cache::dealloc: the page of ptr, whether it is given back, and the cache.
\* A page that was full has a free object now, and is not looked at further.
CacheDealloc(cache, ptr) ==
  LET i == PageOf(cache.full_slubs, ptr)
  IN  IF Around(cache.full_slubs, ptr) # {}
      THEN [page |-> cache.full_slubs[i], empty |-> FALSE,
            cache |-> [partial_slubs |-> <<cache.full_slubs[i]>> \o cache.partial_slubs,
                       full_slubs |-> remove(cache.full_slubs, i)]]
      ELSE FromPartialFreed(cache, ptr)

Has(cache, ptr) == Around(cache.full_slubs, ptr) \cup Around(cache.partial_slubs, ptr) # {}

\* The page with the object freed, or given to the buddy allocator.
GivenBack(r, ptr) ==
  \/ ~ r.empty /\ slub' = dealloc_obj(r.page, ptr) /\ UNCHANGED vars
  \/ /\ r.empty
     /\ slub' = [p \in DOMAIN slub \ {r.page} |-> slub[p]]
     /\ Drop([start |-> r.page, size |-> BlockFor(slub[r.page].page_size)])

\* Caches::dealloc, with the layout that the object was allocated with: the
\* caches of the hart, then the shared ones
dealloc(object) ==
  LET order == layout_order(object.size) IN
  /\ pc = "idle" /\ call = NoCall
  /\ \/ /\ order >= SLUB_MAX_ORDER
        /\ Drop([start |-> object.ptr \div PageUnits, size |-> BlockFor(Pow2[order])])
        /\ UNCHANGED <<caches, slub>>
     \/ /\ order < SLUB_MAX_ORDER
        /\ LET tier == IF Has(caches["cpu_caches"][order], object.ptr)
                       THEN "cpu_caches" ELSE "slow_caches"
               r == CacheDealloc(caches[tier][order], object.ptr)
           IN  GivenBack(r, object.ptr) /\ caches' = [caches EXCEPT ![tier][order] = r.cache]
  /\ objects' = objects \ {object}
  /\ UNCHANGED call

-----------------------------------------------------------------------------
NewCaches == [o \in CacheOrders |-> [partial_slubs |-> <<>>, full_slubs |-> <<>>]]

HeapInit ==
  /\ Init
  /\ caches = [tier \in Tiers |-> NewCaches]
  /\ slub = <<>> /\ call = NoCall /\ objects = {}

\* The blocks that the heap has, as Frame values.
HeapBlocks ==
  {f \in frames : \/ f.start \in DOMAIN slub
                  \/ \E x \in objects : layout_order(x.size) >= SLUB_MAX_ORDER /\ x.ptr = f.start * PageUnits}

\* Frames that others take.  Bound: while the heap is in use they hold at most
\* MaxFrames, which they have from before.
Others ==
  /\ call = NoCall
  /\ \/ objects = {} /\ \E size \in Sizes : alloc_frame(size) \/ alloc_frames(size)
     \/ \E frame \in frames \ HeapBlocks : Drop(frame)

HeapCall ==
  \/ BlockArrives \/ NoBlockArrives
  \/ /\ Cardinality(frames \ HeapBlocks) =< MaxFrames
     /\ \/ \E size \in LayoutSizes : Cardinality(objects) < MaxObjects /\ alloc(size)
        \/ \E object \in objects : dealloc(object)

HeapNext == ((Loop \/ Others) /\ UNCHANGED heapVars) \/ HeapCall

HeapSpec == HeapInit /\ [][HeapNext]_allVars

\* A loop that runs goes on, and so does the operation that called it.
FairHeapSpec ==
  /\ HeapSpec
  /\ WF_allVars(Loop /\ UNCHANGED heapVars)
  /\ WF_allVars(BlockArrives \/ NoBlockArrives)

-----------------------------------------------------------------------------
(* Properties *)

Extent(object) ==
  object.ptr .. (object.ptr + Pow2[layout_order(object.size)] - 1)

HeaderOf(page) == (page * PageUnits) .. (page * PageUnits + HeaderUnits - 1)

BlockUnits(frame) == (frame.start * PageUnits) .. ((frame.start + frame.size) * PageUnits - 1)

\* The objects that a block can be large enough for.
Fitting == {x \in objects : Pow2[layout_order(x.size)] =< OrderSize[Top] * PageUnits}

\* Objects that callers hold share no memory with each other, with the header
\* of a slub page or with an object on a free list, and all of an object lies
\* in a block that the heap has (Caches::alloc and dealloc, SlubPage::new).
\* This is about objects no larger than the largest block: for a larger one
\* alloc_frame returns the largest block all the same.
ObjectsApart ==
  \A x \in Fitting :
    /\ \A y \in Fitting \ {x} : Extent(x) \cap Extent(y) = {}
    /\ \E f \in HeapBlocks : Extent(x) \subseteq BlockUnits(f)
    /\ \A p \in DOMAIN slub : Extent(x) \cap (HeaderOf(p) \cup slub[p].free_list) = {}

\* The lists of slub pages, by tier, order and name.
ListNames == Tiers \X CacheOrders \X {"partial_slubs", "full_slubs"}
SlubList(x) == caches[x[1]][x[2]][x[3]]

\* Every slub page is on one list, once, and on a partial one if it has a
\* free object, so that alloc finds it and alloc_obj does not fail; it has an
\* object in use, so that the memory of an idle heap is all given back; and
\* its header says of what size the block is that it goes back as (Cache::alloc
\* and Cache::dealloc).
PagesListed ==
  /\ \A x, y \in ListNames : \A i \in DOMAIN SlubList(x), j \in DOMAIN SlubList(y) :
       SlubList(x)[i] = SlubList(y)[j] => x = y /\ i = j
  /\ \A x \in ListNames : \A i \in DOMAIN SlubList(x) : SlubList(x)[i] \in DOMAIN slub
  /\ \A p \in DOMAIN slub :
       /\ \E x \in ListNames : \E i \in DOMAIN SlubList(x) :
            SlubList(x)[i] = p /\ (x[3] = "partial_slubs" <=> slub[p].free_list # {})
       /\ slub[p].inuse = slub[p].objects - Cardinality(slub[p].free_list)
       /\ slub[p].inuse > 0
       /\ [start |-> p, size |-> BlockFor(slub[p].page_size)] \in frames

=============================================================================
