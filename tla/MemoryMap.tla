----------------------------- MODULE MemoryMap -----------------------------
(***************************************************************************)
(* The anonymous mappings of one task: mmap, munmap and mremap             *)
(* (src/mm/memory_map.rs) on the task's MemorySet (src/task.rs) and its    *)
(* page table (AddressSpace in src/mm/page_table.rs), with the copy that   *)
(* clone makes of both.                                                    *)
(*                                                                         *)
(* Addresses are counted in pages.  What one alloc_frames returns, possibly*)
(* several blocks, is one frame: an identity that is in use by one owner   *)
(* at a time (the promise of Buddy) and as many pages as its blocks have;  *)
(* an allocation may always fail.  A system call holds the task table's    *)
(* lock from beginning to end; its steps are those between which the code  *)
(* can fail.  Contents are followed for one page that the program writes.  *)
(***************************************************************************)
EXTENDS Integers, FiniteSetsExt

CONSTANTS Frames,                  \* identities of what alloc_frames returns
          NoPage,
          MaxSegment,              \* pages of the largest buddy block
          USER_STACK_LOWER_BOUND,
          StackPages,              \* USER_STACK_SIZE
          LOW_HALF_END,
          LastPage,                \* the last page of the instance
          KernelPages,             \* pages whose level-1 table is the kernel's
          TablePages,              \* pages under one level-0 table
          Addrs, Lens,             \* arguments of the calls
          MaxCalls                 \* bound on the number of calls

Pages == 0 .. LastPage

ASSUME PagesAssumption == LastPage \in Nat
ASSUME FramesAssumption == IsFiniteSet(Frames) /\ NoPage \notin Frames
ASSUME EntryAssumption == NoPage \notin Nat /\ NoPage \notin Frames \X Nat
ASSUME SegmentAssumption == MaxSegment \in Nat \ {0} /\ TablePages \in Nat \ {0}
ASSUME StackAssumption ==
  /\ USER_STACK_LOWER_BOUND \in Nat
  /\ StackPages \in Nat \ {0}
  /\ LOW_HALF_END \in Nat /\ LOW_HALF_END =< LastPage + 1
ASSUME ArgumentAssumption == Addrs \subseteq Nat /\ Lens \subseteq Nat \ {0}

VARIABLES
  maps,     \* MemorySet.mappings, by the frame that backs the mapping
  pos,      \* the place of each in the Vec, 0 for none
  pte,      \* the leaf entry of each page: a page of a frame, or none
  tabled,   \* the level-0 tables that the address space has
  foreign,  \* frames of the parent, once the model follows a child
  pc,       \* the step of the call
  job,      \* the call
  keeps,    \* unmap_range's buffers: what is left of torn mappings
  hand,     \* rebuild's frame
  mem,      \* the physical pages that hold the datum
  datum,    \* history: the page in which the program expects the datum
  odd,      \* history: some mapping or length was odd (see Odd)
  torn,     \* history: a call failed after it had removed a mapping
  calls     \* calls made so far, for the bound

mapVars == <<maps, pos, pte, tabled>>
vars == <<maps, pos, pte, tabled, foreign, pc, job, keeps, hand, mem, datum,
          odd, torn, calls>>

NoMapping == [va |-> 0, size |-> 0, rwx |-> FALSE]
NoJob == [op |-> "none", lo |-> 0, hi |-> 0, then |-> "idle", old |-> 0,
          oldEnd |-> 0, dest |-> 0, size |-> 0, rwx |-> FALSE,
          ragged |-> FALSE, torn |-> FALSE]

-----------------------------------------------------------------------------
(* Frames and mappings *)

\* A block has a power of two of pages.
SegmentPages(n) == 2 ^ Min({i \in 0 .. n : 2 ^ i >= n})

\* The pages of the segments that alloc_frames returns for n pages.
FramePages(n) ==
  LET rest == n % MaxSegment
  IN  (n - rest) + (IF rest = 0 THEN 0 ELSE SegmentPages(rest))

\* A mapping for n pages at va that find_free_region will not respect: its
\* block is larger, or it lies across the lower bound of the stack.
Odd(va, n) ==
  \/ FramePages(n) # n
  \/ va < USER_STACK_LOWER_BOUND /\ USER_STACK_LOWER_BOUND < va + n

Live == {i \in Frames : maps[i] # NoMapping}

\* Mutant: rebuild's frame counts as free.
OwnedButNotInHand == Live \cup foreign \cup {k.frame : k \in keeps}

Owned == Live \cup foreign \cup {k.frame : k \in keeps} \cup {hand}

FreeFrames == Frames \ Owned

PagesOf(va, size) == {p \in Pages : va =< p /\ p < va + size}

mapping_range(i) == PagesOf(maps[i].va, maps[i].size)

EndOf(i) == maps[i].va + maps[i].size

Overlapping(lo, hi) == {i \in Live : maps[i].va < hi /\ lo < EndOf(i)}

range_is_free(lo, hi) == Overlapping(lo, hi) = {}

First(S) == CHOOSE i \in S : \A j \in S : pos[i] =< pos[j]

Last(S) == CHOOSE i \in S : \A j \in S : pos[j] =< pos[i]

\* The first mapping in the Vec that covers the page decides.
page_phys(va) ==
  LET over == Overlapping(va, va + 1)
  IN  IF over = {} THEN NoPage ELSE <<First(over), va - maps[First(over)].va>>

range_fully_mapped(lo, hi) == \A p \in lo .. (hi - 1) : page_phys(p) # NoPage

\* Mutant: a gap that is one page too small will do.
FitsAlmost(top, end, n) == top > end /\ top - end >= n - 1

Fits(top, end, n) == top > end /\ top - end >= n

\* Mutant: the subtraction may wrap.
RegionBelowUnchecked(bottom, n) == bottom - n

\* A build with overflow checks computes the difference, and panics, before
\* then_some looks at the condition; this is a build without them.
RegionBelow(bottom, n) == IF bottom >= n THEN bottom - n ELSE NoPage

\* From the stack downwards: the highest gap of n pages below a mapping's
\* start, or the space below the lowest mapping.
find_free_region(n) ==
  LET below == {i \in Live : EndOf(i) =< USER_STACK_LOWER_BOUND}
      seen == {i \in below : \A j \in below : maps[j].va = maps[i].va => pos[j] =< pos[i]}
      starts == {maps[i].va : i \in seen}
      TopOf(i) == Min({s \in starts : s > maps[i].va} \cup {USER_STACK_LOWER_BOUND})
      gaps == {TopOf(i) : i \in {j \in seen : Fits(TopOf(j), EndOf(j), n)}}
      bottom == Min(starts \cup {USER_STACK_LOWER_BOUND})
  IN  IF gaps # {} THEN Max(gaps) - n
      ELSE RegionBelow(bottom, n)

is_canonical_user_range(hi) == hi =< LOW_HALF_END

-----------------------------------------------------------------------------
(* The page table *)

TableOf(p) == p \div TablePages

Cleared(S) == [p \in Pages |-> IF p \in S THEN NoPage ELSE pte[p]]

\* map_frame succeeds; without any permission no entry is written.
MapFrame(va, i, size, rwx) ==
  /\ rwx => PagesOf(va, size) \cap KernelPages = {}
  /\ maps' = [maps EXCEPT ![i] = [va |-> va, size |-> size, rwx |-> rwx]]
  /\ pos' = [pos EXCEPT ![i] = Cardinality(Live) + 1]
  /\ pte' = [p \in Pages |-> IF rwx /\ p \in PagesOf(va, size)
                             THEN <<i, p - va>> ELSE pte[p]]
  /\ tabled' = tabled \cup (IF rwx THEN {TableOf(p) : p \in PagesOf(va, size)} ELSE {})

\* The entries written before the failing page are cleared.
RolledBack(va, q) == Cleared(PagesOf(va, q - va))

\* map_frame fails at page q, because AddressSpace::map fails in the kernel's
\* part, or because a table is needed and there is no memory for it.
MapFrameFails(va, size, rwx) ==
  /\ rwx
  /\ \E q \in PagesOf(va, size) :
       LET before == PagesOf(va, q - va)
           made == {TableOf(p) : p \in before}
       IN  /\ q \in KernelPages \/ TableOf(q) \notin tabled \cup made
           /\ before \cap KernelPages = {}
           /\ pte' = RolledBack(va, q)
           /\ tabled' = tabled \cup made
  /\ UNCHANGED <<maps, pos>>

-----------------------------------------------------------------------------
(* The calls *)

Fail(torn_now) ==
  /\ pc' = "failed"
  /\ keeps' = {}
  /\ hand' = NoPage
  /\ torn' = (torn \/ torn_now)

\* mmap: a fixed mapping first takes its place.
mmap(addr, n, how, rwx) ==
  LET target == IF how # "hint" \/ (addr # 0 /\ range_is_free(addr, addr + n))
                THEN addr ELSE find_free_region(n)
  IN  /\ pc = "idle"
      /\ target # NoPage /\ is_canonical_user_range(target + n)
      /\ how = "noreplace" => range_is_free(target, target + n)
      /\ job' = [NoJob EXCEPT !.op = "mmap", !.lo = target, !.hi = target + n,
                              !.then = "alloc", !.rwx = rwx]
      /\ pc' = IF how = "fixed" THEN "tear" ELSE "alloc"
      /\ UNCHANGED <<mapVars, foreign, keeps, hand, mem, datum, odd, torn>>

\* munmap: the length need not be a multiple of the page size.
munmap(addr, n, ragged) ==
  /\ pc = "idle"
  /\ job' = [NoJob EXCEPT !.op = "munmap", !.lo = addr, !.hi = addr + n,
                          !.then = "done", !.ragged = ragged]
  /\ pc' = "tear"
  /\ odd' = (odd \/ ragged)
  /\ UNCHANGED <<mapVars, foreign, keeps, hand, mem, datum, torn>>

Mremap(old, n, dest, size, then) ==
  /\ job' = [NoJob EXCEPT !.op = "mremap", !.old = old, !.oldEnd = old + n,
                          !.dest = dest, !.size = size, !.then = "rebuild",
                          !.lo = dest, !.hi = dest + size]
  /\ pc' = then
  /\ UNCHANGED <<mapVars, foreign, keeps, hand, mem, datum, odd, torn>>

Shrinks(old, n, size) == size < n /\ range_fully_mapped(old, old + n)

GrowsInPlace(old, n, size) ==
  /\ size > n /\ range_fully_mapped(old, old + n)
  /\ range_is_free(old + n, old + size)
  /\ is_canonical_user_range(old + size)

mremap_in_place(old, n, size) ==
  /\ pc = "idle"
  /\ Shrinks(old, n, size) \/ GrowsInPlace(old, n, size)
  /\ Mremap(old, n, old, size, "rebuild")

MayMove(old, n, dest, size) ==
  /\ is_canonical_user_range(dest + size)
  /\ ~ (dest < old + n /\ old < dest + size)

Grows(old, n, size) ==
  size > n /\ range_fully_mapped(old, old + n) /\ ~ GrowsInPlace(old, n, size)

\* MREMAP_FIXED: what is at the destination goes first.
mremap_fixed(old, n, size, dest) ==
  /\ pc = "idle"
  /\ (size = n /\ dest # old) \/ Grows(old, n, size)
  /\ MayMove(old, n, dest, size)
  /\ Mremap(old, n, dest, size, "tear")

mremap_maymove(old, n, size) ==
  LET dest == find_free_region(size)
  IN  /\ pc = "idle"
      /\ Grows(old, n, size)
      /\ dest # NoPage /\ MayMove(old, n, dest, size)
      /\ range_is_free(dest, dest + size)
      /\ Mremap(old, n, dest, size, "rebuild")

-----------------------------------------------------------------------------
(* unmap_range of job.lo .. job.hi *)

\* What a torn mapping leaves to the left and to the right; a ragged end
\* leaves the page it is in to the right.
Pieces ==
  LET from == IF job.ragged THEN job.hi - 1 ELSE job.hi
  IN  {[va |-> maps[i].va, size |-> job.lo - maps[i].va, rwx |-> maps[i].rwx,
        rank |-> 2 * pos[i]] : i \in {j \in Overlapping(job.lo, job.hi) : maps[j].va < job.lo}}
      \cup
      {[va |-> from, size |-> EndOf(i) - from, rwx |-> maps[i].rwx,
        rank |-> 2 * pos[i] + 1] : i \in {j \in Overlapping(job.lo, job.hi) : EndOf(j) > from}}

Buffer(k, i) == [va |-> k.va, size |-> FramePages(k.size), rwx |-> k.rwx,
                 rank |-> k.rank, frame |-> i]

\* Mutant: the pieces are copied from the start of the range.
CopiedFromStart(i, va, n) == {<<i, off>> : off \in {o \in 0 .. (n - 1) : page_phys(job.lo + o) \in mem}}

\* The pages of frame i that get the datum when n pages from va are copied.
Copied(i, va, n) == {<<i, off>> : off \in {o \in 0 .. (n - 1) : page_phys(va + o) \in mem}}

\* A page of a new frame that is not copied to keeps what it held; what is
\* copied from an address inside a page is out of place.
AfterCopies(f) ==
  {x \in mem : \A k \in DOMAIN f : x[1] = f[k] => x[2] >= k.size}
  \cup UNION {Copied(f[k], k.va, k.size) :
                k \in {j \in DOMAIN f : ~ (job.ragged /\ j.va >= job.lo)}}

AfterKeeps(ks) == IF ks = {} THEN job.then ELSE "remap"

\* Mutant: the entries of the requested range only are cleared.
TornRequested(S) == {p \in Pages : job.lo =< p /\ p < job.hi}

\* Every page of every mapping that overlaps the range.
TornPages(S) == UNION {mapping_range(i) : i \in S}

\* Mutant: a mapping that begins before the range is left alone.
overlapping_indices_inside == {i \in Overlapping(job.lo, job.hi) : job.lo =< maps[i].va}

overlapping_indices == Overlapping(job.lo, job.hi)

\* The pieces get new frames, and then all overlapping mappings go.
Tear ==
  LET over == overlapping_indices
  IN  /\ pc = "tear"
      /\ \E f \in [Pieces -> FreeFrames] :
           /\ \A k, l \in Pieces : f[k] = f[l] => k = l
           /\ keeps' = {Buffer(k, f[k]) : k \in Pieces}
           /\ mem' = AfterCopies(f)
      /\ maps' = [i \in Frames |-> IF i \in over THEN NoMapping ELSE maps[i]]
      /\ pos' = [i \in Frames |-> IF i \in Live \ over
                                 THEN Cardinality({j \in Live \ over : pos[j] =< pos[i]})
                                 ELSE 0]
      /\ pte' = Cleared(TornPages(over))
      /\ odd' = (odd \/ \E k \in Pieces : Odd(k.va, k.size))
      /\ job' = [job EXCEPT !.torn = @ \/ over # {}]
      /\ pc' = AfterKeeps(Pieces)
      /\ UNCHANGED <<tabled, foreign, hand, datum, torn>>

\* No memory for a piece: nothing has been touched.
TearFails ==
  /\ pc = "tear" /\ Pieces # {}
  /\ Fail(job.torn)
  /\ UNCHANGED <<mapVars, foreign, job, mem, datum, odd>>

NextKeep == CHOOSE k \in keeps : \A l \in keeps : k.rank =< l.rank

Remap ==
  /\ pc = "remap"
  /\ MapFrame(NextKeep.va, NextKeep.frame, NextKeep.size, NextKeep.rwx)
  /\ keeps' = keeps \ {NextKeep}
  /\ pc' = AfterKeeps(keeps \ {NextKeep})
  /\ UNCHANGED <<foreign, job, hand, mem, datum, odd, torn>>

RemapFails ==
  /\ pc = "remap"
  /\ MapFrameFails(NextKeep.va, NextKeep.size, NextKeep.rwx)
  /\ Fail(TRUE)
  /\ UNCHANGED <<foreign, job, mem, datum, odd>>

-----------------------------------------------------------------------------
(* The rest of mmap and mremap *)

AllocFails ==
  /\ pc \in {"alloc", "rebuild"}
  /\ Fail(job.torn)
  /\ UNCHANGED <<mapVars, foreign, job, mem, datum, odd>>

\* Mutant: the new pages are not cleared.
ZeroedNot(i) == mem

\* zero_frames
Zeroed(i) == {x \in mem : x[1] # i}

mmap_maps ==
  /\ pc = "alloc"
  /\ \E i \in FreeFrames :
       /\ mem' = Zeroed(i)
       /\ LET size == FramePages(job.hi - job.lo)
          IN  \/ /\ MapFrame(job.lo, i, size, job.rwx)
                 /\ odd' = (odd \/ Odd(job.lo, job.hi - job.lo))
                 /\ pc' = "done"
                 /\ UNCHANGED <<keeps, hand, torn>>
              \/ /\ MapFrameFails(job.lo, size, job.rwx)
                 /\ odd' = (odd \/ Odd(job.lo, job.hi - job.lo))
                 /\ Fail(job.torn)
  /\ UNCHANGED <<foreign, job, datum>>

CopyLen == IF job.size < job.oldEnd - job.old THEN job.size ELSE job.oldEnd - job.old

\* Part of the old range is not mapped.
RebuildFaults ==
  /\ pc = "rebuild"
  /\ ~ range_fully_mapped(job.old, job.old + CopyLen)
  /\ Fail(job.torn)
  /\ UNCHANGED <<mapVars, foreign, job, mem, datum, odd>>

\* The new frame is filled; the old range goes next.
Rebuild ==
  /\ pc = "rebuild"
  /\ range_fully_mapped(job.old, job.old + CopyLen)
  /\ \E i \in FreeFrames :
       /\ hand' = i
       /\ mem' = Zeroed(i) \cup Copied(i, job.old, CopyLen)
  /\ job' = [job EXCEPT !.lo = job.old, !.hi = job.oldEnd, !.then = "place",
                        !.rwx = maps[First(Overlapping(job.old, job.old + 1))].rwx]
  /\ odd' = (odd \/ Odd(job.dest, job.size))
  /\ pc' = "tear"
  /\ UNCHANGED <<mapVars, foreign, keeps, datum, torn>>

Place ==
  /\ pc = "place"
  /\ MapFrame(job.dest, hand, FramePages(job.size), job.rwx)
  /\ hand' = NoPage
  /\ pc' = "done"
  /\ UNCHANGED <<foreign, job, keeps, mem, datum, odd, torn>>

PlaceFails ==
  /\ pc = "place"
  /\ MapFrameFails(job.dest, FramePages(job.size), job.rwx)
  /\ Fail(job.torn)
  /\ UNCHANGED <<foreign, job, mem, datum, odd>>

\* Where the program looks for its datum after a call that succeeded.
NewDatum ==
  LET off == datum - job.old
  IN  IF datum = NoPage THEN NoPage
      ELSE IF job.op = "mremap" /\ 0 =< off /\ off < CopyLen THEN job.dest + off
      ELSE IF \/ job.lo =< datum /\ datum < job.hi
              \/ job.op = "mremap" /\ job.dest =< datum /\ datum < job.dest + job.size
      THEN NoPage ELSE datum

Return ==
  /\ pc \in {"done", "failed"}
  /\ datum' = IF pc = "done" THEN NewDatum ELSE datum
  /\ pc' = "idle"
  /\ job' = NoJob
  /\ UNCHANGED <<mapVars, foreign, keeps, hand, mem, odd, torn>>

-----------------------------------------------------------------------------
(* The program and its child *)

\* The program writes the datum, once, and only while a property depends on it.
Store(p) ==
  /\ pc = "idle" /\ mem = {} /\ pte[p] # NoPage /\ ~ odd
  /\ mem' = {pte[p]}
  /\ datum' = p
  /\ UNCHANGED <<mapVars, foreign, pc, job, keeps, hand, odd, torn>>

\* The entry of page p in the child: copied with the tables, and written over
\* by each mapping that covers the page, the last one of the Vec last.
ChildEntry(f, p) ==
  LET over == {i \in Live : maps[i].rwx /\ p \in mapping_range(i)}
  IN  IF over = {} THEN pte[p] ELSE <<f[Last(over)], p - maps[Last(over)].va>>

\* MemorySet::try_clone; from here on the model follows the child.
Clone ==
  /\ pc = "idle" /\ foreign = {}
  /\ \E f \in [Live -> FreeFrames] :
       /\ \A i, j \in Live : f[i] = f[j] => i = j
       /\ LET Source(x) == CHOOSE i \in Live : f[i] = x
              copies == {f[i] : i \in Live}
          IN  /\ maps' = [x \in Frames |-> IF x \in copies THEN maps[Source(x)] ELSE NoMapping]
              /\ pos' = [x \in Frames |-> IF x \in copies THEN pos[Source(x)] ELSE 0]
       /\ pte' = [p \in Pages |-> ChildEntry(f, p)]
       /\ mem' = {x \in mem : \A i \in Live : f[i] # x[1]}
                 \cup {<<f[x[1]], x[2]>> : x \in {y \in mem : y[1] \in Live}}
  /\ foreign' = Live
  /\ UNCHANGED <<tabled, pc, job, keeps, hand, datum, odd, torn>>

-----------------------------------------------------------------------------
\* What load_elf leaves: the stack, here without the segments below it.
Init ==
  /\ \E i \in Frames :
       /\ maps = [x \in Frames |-> IF x # i THEN NoMapping
                    ELSE [va |-> USER_STACK_LOWER_BOUND, size |-> FramePages(StackPages),
                          rwx |-> TRUE]]
       /\ pos = [x \in Frames |-> IF x = i THEN 1 ELSE 0]
       /\ pte = [p \in Pages |->
                   IF p \in PagesOf(USER_STACK_LOWER_BOUND, FramePages(StackPages))
                   THEN <<i, p - USER_STACK_LOWER_BOUND>> ELSE NoPage]
  /\ tabled = {TableOf(p) : p \in PagesOf(USER_STACK_LOWER_BOUND, FramePages(StackPages))}
  /\ foreign = {}
  /\ pc = "idle"
  /\ job = NoJob
  /\ keeps = {}
  /\ hand = NoPage
  /\ mem = {}
  /\ datum = NoPage
  /\ odd = FALSE
  /\ torn = FALSE
  /\ calls = 0

Call ==
  \E addr \in Addrs, n \in Lens :
    \/ \E how \in {"hint", "fixed", "noreplace"}, rwx \in BOOLEAN : mmap(addr, n, how, rwx)
    \/ \E ragged \in BOOLEAN : munmap(addr, n, ragged)
    \/ \E size \in Lens :
         \/ mremap_in_place(addr, n, size)
         \/ mremap_maymove(addr, n, size)
         \/ \E dest \in Addrs : mremap_fixed(addr, n, size, dest)

Step ==
  \/ Tear \/ TearFails \/ Remap \/ RemapFails
  \/ AllocFails \/ mmap_maps
  \/ RebuildFaults \/ Rebuild \/ Place \/ PlaceFails
  \/ Return

\* The program goes on without a call.
Rest == pc = "idle" /\ UNCHANGED vars

Next ==
  \/ calls < MaxCalls /\ Call /\ calls' = calls + 1
  \/ Step /\ UNCHANGED calls
  \/ (\E p \in Pages : Store(p)) /\ UNCHANGED calls
  \/ Clone /\ UNCHANGED calls
  \/ Rest

Spec == Init /\ [][Next]_vars

-----------------------------------------------------------------------------
(* Properties *)

Entries == {NoPage} \cup (Frames \X Nat)

\* Mappings, entries and the variables of a call have their types, and the
\* places in the Vec are those of the mappings.
TypeOK ==
  /\ maps \in [Frames -> [va : Nat, size : Nat, rwx : BOOLEAN]]
  /\ pos \in [Frames -> Nat]
  /\ {pos[i] : i \in Live} = 1 .. Cardinality(Live)
  /\ pte \in [Pages -> Entries]
  /\ foreign \subseteq Frames
  /\ pc \in {"idle", "tear", "remap", "alloc", "rebuild", "place", "done", "failed"}
  /\ \A k \in keeps : k.frame \in Frames /\ k.va \in Nat /\ k.size \in Nat \ {0}
  /\ hand \in Frames \cup {NoPage}
  /\ mem \subseteq Frames \X Nat
  /\ datum \in Pages \cup {NoPage}

\* An entry of the page table is the page of a mapping of this task which
\* covers that address, with permissions: no entry points to a frame that
\* has been given back, to a buffer or to the parent's memory, also half-way
\* through a call or after one that failed (the comment on memory_map.rs,
\* "no dangling", and MemorySet::try_clone).
NoDangling ==
  \A p \in Pages : pte[p] # NoPage =>
    LET i == pte[p][1]
    IN  /\ i \in Live /\ maps[i].rwx
        /\ p \in mapping_range(i)
        /\ pte[p][2] = p - maps[i].va

\* A frame has one owner: a mapping, a buffer of unmap_range, rebuild or the
\* parent.
OneOwner ==
  /\ Live \cap foreign = {}
  /\ hand \notin Live \cup foreign
  /\ \A k \in keeps : k.frame \notin Live \cup foreign \cup {hand}
  /\ \A k, l \in keeps : k.frame = l.frame => k = l

Mapped(i) ==
  \A p \in mapping_range(i) :
    pte[p] = IF maps[i].rwx THEN <<i, p - maps[i].va>> ELSE NoPage

\* As long as no mapping is odd and every length a multiple of the page size,
\* the mappings are disjoint and the page table is exactly what they say,
\* whatever fails.
Layout ==
  ~ odd =>
    \A i \in Live :
      /\ Mapped(i)
      /\ \A j \in Live \ {i} : mapping_range(i) \cap mapping_range(j) = {}

\* Partial unmapping, resizing and moving keep what the program wrote, unless
\* a mapping is odd or a call failed after it had removed a mapping.
DatumKept ==
  pc = "idle" /\ datum # NoPage /\ ~ odd /\ ~ torn => page_phys(datum) \in mem

\* A page shows the datum only where the program put it: new pages are zero.
NoGhost ==
  pc = "idle" /\ ~ odd => \A p \in Pages : pte[p] \in mem => p = datum

\* A call that succeeds did what it is for: munmap leaves nothing in the
\* range, mmap maps all of it with the permissions asked for, and mremap maps
\* all of the new range and nothing of the old one outside it.
Effect ==
  pc = "done" /\ ~ odd =>
    CASE job.op = "munmap" -> range_is_free(job.lo, job.hi)
      [] job.op = "mmap" ->
           \E i \in Live : maps[i] = [va |-> job.lo, size |-> job.hi - job.lo, rwx |-> job.rwx]
      [] job.op = "mremap" ->
           /\ range_fully_mapped(job.dest, job.dest + job.size)
           /\ \A p \in job.old .. (job.oldEnd - 1) :
                page_phys(p) # NoPage => job.dest =< p /\ p < job.dest + job.size

\* What the comment on memory_map.rs says of every operation: page k of a
\* mapping with permissions is always mapped to page k of its frames.
AlwaysMapped == pc = "idle" => \A i \in Live : maps[i].rwx => Mapped(i)

\* What the comment on rebuild says of every step that fails: it is rolled
\* back, so that the range to be moved is still there.
RebuildRollsBack ==
  pc = "failed" /\ job.op = "mremap" /\ job.then = "place" /\ ~ odd =>
    range_fully_mapped(job.old, job.oldEnd)

=============================================================================
