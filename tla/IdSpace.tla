------------------------------ MODULE IdSpace ------------------------------
(***************************************************************************)
(* What IdAlloc (crates/athera-id-alloc) promises: numbers are handed out  *)
(* lowest first, singly or from blocks (majors) that are reserved as a     *)
(* whole, and none twice.  taken is the set of numbers in use.             *)
(***************************************************************************)
EXTENDS Integers

CONSTANTS IdStart, IdEnd,  \* the range, end excluded
          Block,           \* 2^MINOR_BITS
          IdMax            \* bound on the arguments of the callers

VARIABLES taken, blocks, res

vars == <<taken, blocks, res>>

Ids == IdStart .. (IdEnd - 1)
BlockIds(b) == b .. (b + Block - 1)

\* Free and in no reserved block.
Loose == {i \in Ids \ taken : \A b \in blocks : i \notin BlockIds(b)}

\* A block that can be reserved.
Reservable(b) == b % Block = 0 /\ BlockIds(b) \subseteq Loose

Lowest(i, S) == i \in S /\ \A j \in S : i =< j

\* A call, and what it returned: Ok with a number, or why there is none.
Result(op, arg, kind, id) == [op |-> op, arg |-> arg, kind |-> kind, id |-> id]

Returns(op, arg, id) == res' = Result(op, arg, "Ok", id)

Refuse(op, arg, kind) == res' = Result(op, arg, kind, 0) /\ UNCHANGED <<taken, blocks>>

Take(i) == taken' = taken \cup {i} /\ UNCHANGED blocks

alloc ==
  \/ Loose = {} /\ Refuse("alloc", 0, "None")
  \/ \E i \in Ids : Lowest(i, Loose) /\ Take(i) /\ Returns("alloc", 0, i)

alloc_at(i) ==
  \/ i \notin Ids /\ Refuse("alloc_at", i, "OutOfRange")
  \/ i \in taken /\ Refuse("alloc_at", i, "AlreadyAllocated")
  \/ i \in Ids \ taken /\ Take(i) /\ Returns("alloc_at", i, 0)

dealloc(i) ==
  \/ i \notin Ids /\ Refuse("dealloc", i, "OutOfRange")
  \/ i \in Ids \ taken /\ Refuse("dealloc", i, "AlreadyFree")
  \/ i \in taken /\ taken' = taken \ {i} /\ Returns("dealloc", i, 0) /\ UNCHANGED blocks

Reserve(b) == blocks' = blocks \cup {b} /\ UNCHANGED taken

alloc_major ==
  \/ (\A b \in Ids : ~ Reservable(b)) /\ Refuse("alloc_major", 0, "None")
  \/ \E b \in Ids :
       Lowest(b, {c \in Ids : Reservable(c)}) /\ Reserve(b) /\ Returns("alloc_major", 0, b)

alloc_major_at(b) ==
  \/ b % Block # 0 /\ Refuse("alloc_major_at", b, "NotAligned")
  \/ b % Block = 0 /\ ~ BlockIds(b) \subseteq Ids /\ Refuse("alloc_major_at", b, "OutOfRange")
  \/ b \in blocks /\ Refuse("alloc_major_at", b, "AlreadyAllocated")
  \/ /\ b % Block = 0 /\ BlockIds(b) \subseteq Ids /\ b \notin blocks /\ ~ Reservable(b)
     /\ Refuse("alloc_major_at", b, "RangeBusy")
  \/ Reservable(b) /\ Reserve(b) /\ Returns("alloc_major_at", b, b)

alloc_minor(b) ==
  \/ (b \notin blocks \/ BlockIds(b) \subseteq taken) /\ Refuse("alloc_minor", b, "None")
  \/ /\ b \in blocks
     /\ \E i \in Ids : Lowest(i, BlockIds(b) \ taken) /\ Take(i) /\ Returns("alloc_minor", b, i)

dealloc_major(b) ==
  \/ b \notin blocks /\ Refuse("dealloc_major", b, "MajorNotFound")
  \/ /\ b \in blocks
     /\ blocks' = blocks \ {b} /\ taken' = taken \ BlockIds(b) /\ Returns("dealloc_major", b, 0)

reset == taken' = {} /\ blocks' = {} /\ Returns("reset", 0, 0)

Init == taken = {} /\ blocks = {} /\ res = Result("new", 0, "Ok", 0)

Next ==
  \/ alloc \/ alloc_major \/ reset
  \/ \E i \in 0 .. IdMax :
       \/ alloc_at(i) \/ dealloc(i) \/ alloc_major_at(i)
       \/ alloc_minor(i) \/ dealloc_major(i)

Spec == Init /\ [][Next]_vars
=============================================================================
