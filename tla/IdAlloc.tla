------------------------------ MODULE IdAlloc ------------------------------
(***************************************************************************)
(* IdAlloc of crates/athera-id-alloc: the numbers of tasks, devices and    *)
(* file systems.  A FlatAlloc keeps what is free as maximal ranges; the    *)
(* blocks that alloc_major takes out of the flat one get a FlatAlloc each. *)
(*                                                                         *)
(* A BTreeMap of ranges is the set of its pairs <<start, end>>, end        *)
(* excluded.  Every number is below the end of the range, which is itself  *)
(* a value of the type, so that next, the end of a block and the sums      *)
(* never leave the type and are those of the integers.                     *)
(***************************************************************************)
EXTENDS Integers, FiniteSetsExt

CONSTANTS IdStart, IdEnd,  \* the range, end excluded
          Block,           \* 2^MINOR_BITS
          IdMax            \* bound on the arguments of the callers

ASSUME RangeAssumption == IdStart \in Nat /\ IdEnd \in Nat /\ IdStart =< IdEnd
ASSUME BlockAssumption == Block \in Nat \ {0}
ASSUME AlignAssumption == IdStart % Block = 0   \* validate_range
ASSUME ArgumentAssumption == IdMax \in Nat

VARIABLES
  flat,    \* IdAlloc.flat
  majors,  \* IdAlloc.majors
  res      \* the last call and what it returned

vars == <<flat, majors, res>>

\* A call, and what it returned: Ok with a number, or why there is none.
Result(op, arg, kind, id) == [op |-> op, arg |-> arg, kind |-> kind, id |-> id]

Returns(op, arg, id) == res' = Result(op, arg, "Ok", id)

Refuse(op, arg, kind) == res' = Result(op, arg, kind, 0) /\ UNCHANGED <<flat, majors>>

-----------------------------------------------------------------------------
(* Sets of free ranges *)

NonEmpty(s, e) == IF s < e THEN {<<s, e>>} ELSE {}

Covered(R, i) == \E r \in R : r[1] =< i /\ i < r[2]

\* ranges.range(..=n).next_back(), as a set of at most one range
LastUpTo(R, n) == {r \in R : r[1] =< n /\ \A q \in R : q[1] =< n => q[1] =< r[1]}

\* ranges.pop_first()
First(R) == {r \in R : \A q \in R : r[1] =< q[1]}

\* Range r without s .. e: what is left on its two sides goes back.
Cut(R, r, s, e) == (R \ {r}) \cup NonEmpty(r[1], s) \cup NonEmpty(e, r[2])

\* Mutant: the range that begins at e is not looked for.
ReturnedLeftOnly(R, s, e) ==
  LET left == {r \in LastUpTo(R, s - 1) : r[2] = s}
  IN  (R \ left) \cup {<<IF left = {} THEN s ELSE (CHOOSE r \in left : TRUE)[1], e>>}

\* insert_free_range and return_range: s .. e joins the range that ends at s
\* and the one that begins at e.
Returned(R, s, e) ==
  LET left == {r \in LastUpTo(R, s - 1) : r[2] = s}
      right == {r \in R : r[1] = e}
  IN  (R \ (left \cup right))
        \cup {<<IF left = {} THEN s ELSE (CHOOSE r \in left : TRUE)[1],
                IF right = {} THEN e ELSE (CHOOSE r \in right : TRUE)[2]>>}

-----------------------------------------------------------------------------
(* FlatAlloc *)

FlatNew(s, e) == [start |-> s, end |-> e, inuse |-> 0, ranges |-> NonEmpty(s, e)]

contains(a, i) == a.start =< i /\ i < a.end

FlatIsAllocated(a, i) == contains(a, i) /\ ~ Covered(a.ranges, i)

\* Number i leaves range r.
FlatTakes(a, r, i) ==
  [a EXCEPT !.ranges = Cut(@, r, i, i + 1), !.inuse = @ + 1]

\* Mutant: the counter is left alone.
FlatGivesUncounted(a, i) == [a EXCEPT !.ranges = Returned(@, i, i + 1)]

FlatGives(a, i) ==
  [a EXCEPT !.ranges = Returned(@, i, i + 1), !.inuse = @ - 1]

\* Where an aligned block could begin in range r.
AlignedIn(r) == ((r[1] + Block - 1) \div Block) * Block

\* Mutant: a range that is exactly one block is passed over.
RoomyStrict(R) == {r \in R : AlignedIn(r) + Block < r[2]}

\* find_aligned_block: the first range with room for a block
Roomy(R) == {r \in R : AlignedIn(r) + Block =< r[2]}

-----------------------------------------------------------------------------
(* IdAlloc *)

token_base(i) == i - (i % Block)

Majors == DOMAIN majors

IsAllocated(i) ==
  IF token_base(i) \in Majors
  THEN FlatIsAllocated(majors[token_base(i)], i)
  ELSE FlatIsAllocated(flat, i)

alloc ==
  \/ flat.ranges = {} /\ Refuse("alloc", 0, "None")
  \/ \E r \in First(flat.ranges) :
       /\ flat' = FlatTakes(flat, r, r[1])
       /\ Returns("alloc", 0, r[1])
       /\ UNCHANGED majors

\* FlatAlloc::alloc_at in the block's allocator if i is in one, else in flat
alloc_at(i) ==
  \/ ~ contains(flat, i) /\ Refuse("alloc_at", i, "OutOfRange")
  \/ contains(flat, i) /\ IsAllocated(i) /\ Refuse("alloc_at", i, "AlreadyAllocated")
  \/ /\ contains(flat, i) /\ ~ IsAllocated(i)
     /\ \/ /\ token_base(i) \in Majors
           /\ \E r \in LastUpTo(majors[token_base(i)].ranges, i) :
                majors' = [majors EXCEPT ![token_base(i)] = FlatTakes(@, r, i)]
           /\ UNCHANGED flat
        \/ /\ token_base(i) \notin Majors
           /\ \E r \in LastUpTo(flat.ranges, i) : flat' = FlatTakes(flat, r, i)
           /\ UNCHANGED majors
     /\ Returns("alloc_at", i, 0)

dealloc(i) ==
  \/ ~ contains(flat, i) /\ Refuse("dealloc", i, "OutOfRange")
  \/ contains(flat, i) /\ ~ IsAllocated(i) /\ Refuse("dealloc", i, "AlreadyFree")
  \/ /\ contains(flat, i) /\ IsAllocated(i)
     /\ \/ /\ token_base(i) \in Majors
           /\ majors' = [majors EXCEPT ![token_base(i)] = FlatGives(@, i)]
           /\ UNCHANGED flat
        \/ /\ token_base(i) \notin Majors
           /\ flat' = FlatGives(flat, i)
           /\ UNCHANGED majors
     /\ Returns("dealloc", i, 0)

\* carve, and the new block's allocator
Carve(r, b) ==
  /\ flat' = [flat EXCEPT !.ranges = Cut(@, r, b, b + Block)]
  /\ majors' = [c \in Majors \cup {b} |->
                  IF c = b THEN FlatNew(b, b + Block) ELSE majors[c]]

alloc_major ==
  \/ Roomy(flat.ranges) = {} /\ Refuse("alloc_major", 0, "None")
  \/ \E r \in First(Roomy(flat.ranges)) :
       Carve(r, AlignedIn(r)) /\ Returns("alloc_major", 0, AlignedIn(r))

\* The range that carve finds for a block at b.
Carvable(b) == {r \in LastUpTo(flat.ranges, b) : b + Block =< r[2]}

alloc_major_at(b) ==
  \/ b % Block # 0 /\ Refuse("alloc_major_at", b, "NotAligned")
  \/ /\ b % Block = 0
     /\ ~ (contains(flat, b) /\ b + Block =< flat.end)
     /\ Refuse("alloc_major_at", b, "OutOfRange")
  \/ /\ b % Block = 0 /\ contains(flat, b) /\ b + Block =< flat.end
     /\ \/ b \in Majors /\ Refuse("alloc_major_at", b, "AlreadyAllocated")
        \/ b \notin Majors /\ Carvable(b) = {} /\ Refuse("alloc_major_at", b, "RangeBusy")
        \/ /\ b \notin Majors
           /\ \E r \in Carvable(b) : Carve(r, b)
           /\ Returns("alloc_major_at", b, b)

alloc_minor(b) ==
  \/ b \notin Majors /\ Refuse("alloc_minor", b, "None")
  \/ b \in Majors /\ majors[b].ranges = {} /\ Refuse("alloc_minor", b, "None")
  \/ /\ b \in Majors
     /\ \E r \in First(majors[b].ranges) :
          /\ majors' = [majors EXCEPT ![b] = FlatTakes(@, r, r[1])]
          /\ Returns("alloc_minor", b, r[1])
     /\ UNCHANGED flat

dealloc_major(b) ==
  \/ b \notin Majors /\ Refuse("dealloc_major", b, "MajorNotFound")
  \/ /\ b \in Majors
     /\ majors' = [c \in Majors \ {b} |-> majors[c]]
     /\ flat' = [flat EXCEPT !.ranges = Returned(@, b, b + Block)]
     /\ Returns("dealloc_major", b, 0)

\* reset, and init with the same range
reset ==
  /\ flat' = FlatNew(flat.start, flat.end)
  /\ majors' = [c \in {} |-> flat]
  /\ Returns("reset", 0, 0)

Init ==
  /\ flat = FlatNew(IdStart, IdEnd)
  /\ majors = [c \in {} |-> FlatNew(IdStart, IdEnd)]
  /\ res = Result("new", 0, "Ok", 0)

Next ==
  \/ alloc \/ alloc_major \/ reset
  \/ \E i \in 0 .. IdMax :
       \/ alloc_at(i) \/ dealloc(i) \/ alloc_major_at(i)
       \/ alloc_minor(i) \/ dealloc_major(i)

Spec == Init /\ [][Next]_vars

-----------------------------------------------------------------------------
(* Properties *)

\* The ranges of an allocator lie between lo and hi, none is empty, and no two
\* overlap or touch.
Separate(R, lo, hi) ==
  /\ \A r \in R : lo =< r[1] /\ r[1] < r[2] /\ r[2] =< hi
  /\ \A r, q \in R : r = q \/ r[2] < q[1] \/ q[2] < r[1]

\* Free ranges are maximal, within what their allocator manages, and the flat
\* one has no number of a reserved block: otherwise find_aligned_block would
\* miss a free block or hand out one that is in use.
RangesMaximal ==
  /\ Separate(flat.ranges, IdStart, IdEnd)
  /\ \A b \in Majors :
       /\ b % Block = 0 /\ IdStart =< b /\ b + Block =< IdEnd
       /\ Separate(majors[b].ranges, b, b + Block)
       /\ \A i \in b .. (b + Block - 1) : ~ Covered(flat.ranges, i)

Numbers == IdStart .. (IdEnd - 1)

\* The numbers in use.
Taken == {i \in Numbers : IsAllocated(i)}

\* Every allocator's counter is the number of its numbers in use: those of a
\* block count in the block's allocator and all others in the flat one, so
\* that used() is right after every alloc, dealloc, carve and return_range.
CountsAgree ==
  /\ flat.inuse = Cardinality({i \in Taken : token_base(i) \notin Majors})
  /\ \A b \in Majors : majors[b].inuse = Cardinality({i \in Taken : token_base(i) = b})

Space == INSTANCE IdSpace WITH taken <- Taken, blocks <- Majors

\* The allocator of ranges does what the set of numbers in use promises, with
\* the same numbers and errors returned (every public operation of IdAlloc).
Refines == Space!Spec

=============================================================================
