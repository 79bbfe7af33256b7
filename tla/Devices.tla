------------------------------ MODULE Devices ------------------------------
(***************************************************************************)
(* The device manager (src/driver/tree.rs) and the ways to a device: the   *)
(* file system's handle, /dev/vda and fill_entropy, on top of the virtio   *)
(* drivers.  Device numbers come from IdAlloc, taken here as the IdSpace   *)
(* that it implements.                                                     *)
(*                                                                         *)
(* A call holds DEVICE_MANAGER's read guard until it returns; register and *)
(* remove need the write guard, so they happen between calls.  Calls of    *)
(* the file system hold its own lock as well: a write excludes the others, *)
(* and is the only way that the block device is written here.  fs::init    *)
(* reads the superblock before any other flow does I/O.                    *)
(***************************************************************************)
EXTENDS Virtio, FiniteSets

CONSTANTS Uart, Late,       \* character devices: one found at boot, one later
          BootFlow,         \* the flow that runs main
          DidEnd, MinorSize, PresetMajors,   \* Did::MAX, 2^20, PRESET_MAJORS
          FsCalls,          \* what the file system does: <<op, offset, length>>
          VdaReads,         \* the reads of /dev/vda: <<offset, length>>
          Removals          \* bound: the devices that are removed, in order

ASSUME BootAssumption == BootFlow \in Flows
ASSUME DidAssumption == DidEnd \in Nat /\ MinorSize \in Nat \ {0}
ASSUME CallsAssumption ==
  /\ FsCalls \subseteq {"read", "write"} \X Nat \X (Nat \ {0})
  /\ VdaReads \subseteq Nat \X (Nat \ {0})
ASSUME NoCallAssumption ==
  /\ NoCall \notin [op : {"read", "write", "fill"}, dev : {Blk, Rng}, via : {"fs", "vda", "rng"},
                    off : Nat, len : Nat, val : {0, 1}]
  /\ NoCall \notin [op : {"read", "write"}, off : Nat, len : Nat, val : {0, 1}]

VARIABLES
  by_id,                    \* DeviceManager.by_id
  taken, blocks, idres,     \* DeviceManager.id_alloc, as an IdSpace
  handle,                   \* the did of the file system's ManagedBlockDevice
  phase                     \* how far main has come; "seed" is a bound

manVars == <<by_id, taken, blocks, idres, handle, phase>>
allVars == <<vars, manVars>>

Ids == INSTANCE IdSpace WITH
  IdStart <- 0, IdEnd <- DidEnd, Block <- MinorSize, IdMax <- DidEnd, res <- idres

Descriptors == <<Uart, Blk, Rng>>
NoDid == DidEnd

KindOf(d) == CASE d = Blk -> "block" [] d = Rng -> "entropy" [] OTHER -> "char"

\* first_block and the search in fill_entropy: the lowest number of that kind
FirstOf(kind) ==
  {did \in DOMAIN by_id :
     /\ KindOf(by_id[did]) = kind
     /\ \A e \in DOMAIN by_id : KindOf(by_id[e]) = kind => did =< e}

-----------------------------------------------------------------------------
(* DeviceManager *)

\* register: a major of its own, and the first minor in it
register(d) ==
  \E major \in 0 .. (DidEnd - 1) :
    /\ Ids!Lowest(major, {b \in 0 .. (DidEnd - 1) : Ids!Reservable(b)})
    /\ blocks' = blocks \cup {major}
    /\ taken' = taken \cup {major}
    /\ by_id' = [e \in DOMAIN by_id \cup {major} |-> IF e = major THEN d ELSE by_id[e]]
    /\ UNCHANGED idres

\* The initialiser of DEVICE_MANAGER registers what the device tree lists.
Probe ==
  /\ phase = "probe"
  /\ LET n == Cardinality(DOMAIN by_id) + 1
     IN  /\ register(Descriptors[n])
         /\ phase' = IF n = Len(Descriptors) THEN "mount" ELSE "probe"
  /\ UNCHANGED <<vars, handle>>

NoCalls == \A f \in Flows : pc[f] = "idle"

\* A device that is registered while the system runs.
RegisterLate ==
  /\ phase = "up" /\ NoCalls
  /\ \A did \in DOMAIN by_id : by_id[did] # Late
  /\ register(Late)
  /\ UNCHANGED <<vars, handle, phase>>

Present == {by_id[e] : e \in DOMAIN by_id}
IsNext(d) ==
  \E k \in DOMAIN Removals :
    Removals[k] = d /\ \A j \in 1 .. (k - 1) : Removals[j] \notin Present

\* Mutant: the number is given back.
removeFrees(did) ==
  /\ phase = "up" /\ NoCalls
  /\ did \in DOMAIN by_id /\ IsNext(by_id[did])
  /\ by_id' = [e \in DOMAIN by_id \ {did} |-> by_id[e]]
  /\ taken' = taken \ Ids!BlockIds(did)
  /\ blocks' = blocks \ {did}
  /\ UNCHANGED <<vars, idres, handle, phase>>

remove(did) ==
  /\ phase = "up" /\ NoCalls
  /\ did \in DOMAIN by_id /\ IsNext(by_id[did])
  /\ by_id' = [e \in DOMAIN by_id \ {did} |-> by_id[e]]
  /\ UNCHANGED <<vars, taken, blocks, idres, handle, phase>>

-----------------------------------------------------------------------------
(* The ways to a device *)

Call(op, dev, via, off, len, val) ==
  [op |-> op, dev |-> dev, via |-> via, off |-> off, len |-> len, val |-> val]

\* Writes write ones over the zeroes that the disk is formatted with.
ValueOf(op) == IF op = "write" THEN 1 ELSE 0

\* An error before the device is reached: nothing happens.
Refused(f) == pc[f] = "idle" /\ UNCHANGED vars

IsBlock(did) == did \in DOMAIN by_id /\ KindOf(by_id[did]) = "block"

\* DeviceManager::read_at and write_at: the device behind a number
At(f, did, c) ==
  \/ ~ IsBlock(did) /\ Refused(f)
  \/ IsBlock(did) /\ Begin(f, c)

\* fs::init: block_handle, then the superblock
FsInit ==
  /\ phase = "mount" /\ handle = NoDid
  /\ \E did \in FirstOf("block") :
       handle' = did /\ At(BootFlow, did, Call("read", Blk, "fs", 0, 1, 0))
  /\ UNCHANGED <<by_id, taken, blocks, idres, phase>>

\* main goes on, or halts if the file system could not be mounted.
Mounted ==
  /\ phase = "mount" /\ handle # NoDid /\ pc[BootFlow] = "idle"
  /\ phase' = IF result = "Ok" THEN "up" ELSE "halt"
  /\ UNCHANGED <<vars, by_id, taken, blocks, idres, handle>>

\* kernel_halt's loop
Halted == phase = "halt" /\ UNCHANGED allVars

InFs(f) == pc[f] # "idle" /\ call[f].via = "fs"
FsWrites(f) == InFs(f) /\ call[f].op = "write"

\* Mutant: writers take the lock as readers do.
FsLockShared(op) == TRUE

\* The lock of MinixFs lets the call in.
FsLock(op) ==
  \A g \in Flows : IF op = "read" THEN ~ FsWrites(g) ELSE ~ InFs(g)

\* A read or write of the file system, through its handle.
FsCall(f) ==
  /\ phase = "up"
  /\ \E c \in FsCalls :
       FsLock(c[1]) /\ At(f, handle, Call(c[1], Blk, "fs", c[2], c[3], ValueOf(c[1])))
  /\ UNCHANGED manVars

\* A read of /dev/vda.
VdaRead(f) ==
  /\ phase = "up"
  /\ \/ FirstOf("block") = {} /\ Refused(f)
     \/ \E did \in FirstOf("block"), t \in VdaReads :
          At(f, did, Call("read", Blk, "vda", t[1], t[2], 0))
  /\ UNCHANGED manVars

\* fill_entropy.  Bound: it is explored with no other call under way, before
\* the disk is written, and nothing but further ones after it; it shares
\* nothing with the disk.
fill_entropy ==
  /\ phase \in {"up", "seed"} /\ NoCalls /\ \A i \in DOMAIN disk : disk[i] = 0
  /\ \/ FirstOf("entropy") = {} /\ Refused(BootFlow) /\ UNCHANGED phase
     \/ /\ FirstOf("entropy") # {}
        /\ Begin(BootFlow, Call("fill", Rng, "rng", 0, 2, 0))
        /\ phase' = "seed"
  /\ UNCHANGED <<by_id, taken, blocks, idres, handle>>

-----------------------------------------------------------------------------
Init ==
  /\ VirtioInit
  /\ by_id = [e \in {} |-> Uart]
  /\ taken = {}
  /\ blocks = {m * MinorSize : m \in PresetMajors}
  /\ idres = 0
  /\ handle = NoDid
  /\ phase = "probe"

Next ==
  \/ Probe \/ FsInit \/ Mounted \/ Halted \/ RegisterLate \/ fill_entropy
  \/ \E did \in DOMAIN by_id : remove(did)
  \/ \E f \in Flows :
       \/ FsCall(f) \/ VdaRead(f)
       \/ Continue(f) /\ UNCHANGED manVars
  \/ \E d \in {Blk, Rng} : Device(d) /\ UNCHANGED manVars

Spec == Init /\ [][Next]_allVars

\* Harts execute, and the devices work on what they are notified of.
FairSpec ==
  /\ Spec
  /\ \A f \in Flows : WF_allVars(Continue(f) /\ UNCHANGED manVars)
  /\ \A d \in {Blk, Rng} : WF_allVars(Device(d) /\ UNCHANGED manVars)

-----------------------------------------------------------------------------
(* Properties *)

\* A chain that the device may still work on belongs to the flow that holds
\* the queue's lock and waits for it: the device never reads or writes the
\* buffers of a call that has returned (submit's comment: one lock covers
\* filling, publishing, notifying and waiting).
DmaOwned ==
  \A d \in {Blk, Rng} :
    q[d].seen # q[d].avail \/ busy[d] \/ q[d].used # q[d].avail =>
      LET f == chain[d].owner
      IN  f \in Flows /\ holder[d] = f /\ pc[f] = "wait" /\ Dev(f) = d

\* The handle that the file system got when it was mounted leads to the same
\* device or to none, whatever is registered or removed later (the comment on
\* ManagedBlockDevice: a stable handle).
HandleStable == handle \in DOMAIN by_id => by_id[handle] = Blk

\* The device has done the last request of the piece that f is working on.
Committed(f) ==
  /\ pc[f] = "wait" /\ st[f] = "OK" /\ Dev(f) = Blk
  /\ chain[Blk].owner = f /\ (busy[Blk] \/ q[Blk].used # last_used[f])
  /\ RequestType(f) = "out" \/ call[f].op = "read"

OfBlk(f) == call[f] # NoCall /\ Dev(f) = Blk

\* The calls on the block device, as BlockStore sees them.
BlkCalls ==
  {[op |-> c[1], off |-> c[2], len |-> c[3], val |-> ValueOf(c[1])] :
     c \in FsCalls \cup {<<"read", 0, 1>>} \cup {<<"read", t[1], t[2]>> : t \in VdaReads}}

CallOf(f) ==
  IF OfBlk(f)
  THEN [op |-> call[f].op, off |-> call[f].off, len |-> call[f].len, val |-> call[f].val]
  ELSE NoCall

DoneOf(f) ==
  IF ~ OfBlk(f) THEN 0 ELSE IF Committed(f) THEN done[f] + Count(f) ELSE done[f]

OutOf(f) ==
  IF ~ OfBlk(f) THEN <<>>
  ELSE IF Committed(f) /\ call[f].op = "read" THEN out[f] \o Bytes(f) ELSE out[f]

Store0 == INSTANCE BlockStore WITH
  Calls <- BlkCalls,
  bytes <- disk,
  call <- [f \in Flows |-> CallOf(f)],
  done <- [f \in Flows |-> DoneOf(f)],
  out <- [f \in Flows |-> OutOf(f)]

\* Reads and writes through the queue are those of a store in which the bytes
\* of a sector are read and written at once (VirtioBlk's read_at and write_at
\* under the file system's lock).
StoreRefined == Store0!Spec

\* Every request that is published is answered, also when the indices wrap
\* (post_avail, notify and wait_used).
RequestAnswered ==
  \A f \in Flows : pc[f] = "wait" ~> pc[f] # "wait"

=============================================================================
