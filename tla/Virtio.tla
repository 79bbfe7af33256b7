------------------------------- MODULE Virtio -------------------------------
(***************************************************************************)
(* The virtio-mmio drivers: the handshake (virtio_mmio/handshake.rs), the  *)
(* split queue (virtio_mmio/queue.rs), VirtioDevice::queue and submit      *)
(* (virtio_mmio.rs), and on top of them read_at and write_at of virtio_blk *)
(* and fill_bytes of virtio_rng.                                           *)
(*                                                                         *)
(* A flow is a hart that executes a call.  The device is external: it      *)
(* works on a chain when it has been notified, puts the data and the       *)
(* status where the descriptors say, and only then publishes the used      *)
(* index.  A byte is one of a few values; a write puts the same value in   *)
(* all of its bytes.                                                       *)
(***************************************************************************)
EXTENDS Integers, Sequences

CONSTANTS Flows, NoFlow, NoCall,
          Blk, Rng,          \* the two devices
          SECTOR_SIZE,
          Sectors,           \* the number of sectors
          RING_SIZE,         \* divides IDX
          IDX                \* the ring indices are u16: 2^16 in the code

ASSUME RingAssumption ==
  RING_SIZE \in Nat \ {0} /\ IDX \in Nat /\ IDX > 1 /\ IDX % RING_SIZE = 0
ASSUME SectorAssumption == SECTOR_SIZE \in Nat \ {0}
ASSUME DeviceAssumption == Blk # Rng
ASSUME FlowAssumption == NoFlow \notin Flows

VARIABLES
  status,   \* the status register of each device, as a set of bits
  queues,   \* VirtioDevice::queues: whether it is Some
  holder,   \* who has the lock of queues
  q,        \* avail.idx, used.idx, the used ring and the device's position
  chain,    \* the descriptors: whose buffers, and for which request
  busy,     \* the device has worked on a chain and not published it
  disk,     \* the bytes on Blk
  pc, call, \* what each flow executes
  done,     \* the local done of read_at, write_at and fill_bytes
  out,      \* the caller's buffer: the bytes that a read has got
  sector_buf, back,  \* write_at's sector_buf, and whether it was read back
  st,       \* the status byte of the request
  last_used,
  result    \* what the last call on Blk returned: Ok, or one of the errors

devVars == <<status, queues, q, chain, busy>>
flowVars == <<call, done, out, sector_buf, back, result>>
vars == <<devVars, flowVars, holder, disk, pc, st, last_used>>

Devices == {Blk, Rng}
NoBytes == [i \in 0 .. (SECTOR_SIZE - 1) |-> 0]
FreshQueue == [avail |-> 0, used |-> 0, seen |-> 0,
               ring |-> [s \in 0 .. (RING_SIZE - 1) |-> [id |-> 0, len |-> 0]]]
NoChain == [owner |-> NoFlow, type |-> "none", sector |-> 0]

Goto(f, l) == pc' = [pc EXCEPT ![f] = l]
Dev(f) == call[f].dev

-----------------------------------------------------------------------------
(* The part of its bytes that a call is working on *)

Pos(f) == call[f].off + done[f]
Sector(f) == Pos(f) \div SECTOR_SIZE
Shift(f) == Pos(f) % SECTOR_SIZE
Rest(f) == call[f].len - done[f]

\* min(SECTOR_SIZE - shift, buf.len() - done)
Count(f) ==
  IF SECTOR_SIZE - Shift(f) < Rest(f) THEN SECTOR_SIZE - Shift(f) ELSE Rest(f)

WholeSector(f) == Shift(f) = 0 /\ Count(f) = SECTOR_SIZE

\* The request that comes next: a write of part of a sector reads it first.
RequestType(f) ==
  CASE call[f].op = "fill" -> "fill"
    [] call[f].op = "read" -> "in"
    [] call[f].op = "write" -> IF WholeSector(f) \/ back[f] THEN "out" ELSE "in"

SectorBytes(s) == [i \in 0 .. (SECTOR_SIZE - 1) |-> disk[s * SECTOR_SIZE + i]]

\* What an "out" request sends.
DataOut(f) == [i \in 0 .. (SECTOR_SIZE - 1) |->
                 IF WholeSector(f) THEN call[f].val ELSE sector_buf[f][i]]

-----------------------------------------------------------------------------
(* Calls *)

Begin(f, c) ==
  /\ pc[f] = "idle"
  /\ call' = [call EXCEPT ![f] = c]
  /\ Goto(f, "check")
  /\ UNCHANGED <<devVars, holder, disk, done, out, sector_buf, back, st, last_used, result>>

\* The call of f returns; the buffers on its stack are gone.
Finish(f, kind) ==
  /\ result' = IF call[f].op = "fill" THEN result ELSE kind
  /\ call' = [call EXCEPT ![f] = NoCall]
  /\ done' = [done EXCEPT ![f] = 0]
  /\ out' = [out EXCEPT ![f] = <<>>]
  /\ sector_buf' = [sector_buf EXCEPT ![f] = NoBytes]
  /\ back' = [back EXCEPT ![f] = FALSE]
  /\ Goto(f, "idle")

\* queue(): is_some() under the lock, which is then released
Check(f) ==
  /\ pc[f] = "check" /\ holder[Dev(f)] = NoFlow
  /\ Goto(f, IF queues[Dev(f)] THEN "lock" ELSE "reset")
  /\ UNCHANGED <<devVars, flowVars, holder, disk, st, last_used>>

\* VirtQueueConfig::handshake: 0 resets the device, then ACK and DRIVER
HandshakeBegin(f) ==
  /\ pc[f] = "reset"
  /\ status' = [status EXCEPT ![Dev(f)] = {"ACKNOWLEDGE", "DRIVER"}]
  /\ q' = [q EXCEPT ![Dev(f)] = FreshQueue]
  /\ busy' = [busy EXCEPT ![Dev(f)] = FALSE]
  /\ Goto(f, "features")
  /\ UNCHANGED <<flowVars, queues, chain, holder, disk, st, last_used>>

\* legacy or modern, and commit_features: the device may not keep FEATURES_OK
Features(f) ==
  /\ pc[f] = "features"
  /\ \/ /\ status' = [status EXCEPT ![Dev(f)] = @ \cup {"FEATURES_OK"}]
        /\ Goto(f, "setup")
        /\ UNCHANGED flowVars
     \/ /\ status' = [status EXCEPT ![Dev(f)] = @ \cup {"FAILED"}]
        /\ Finish(f, "Err")
  /\ UNCHANGED <<queues, q, chain, busy, holder, disk, st, last_used>>

\* setup_queue: queue_num_max may be too small, or there is no memory
Setup(f) ==
  /\ pc[f] = "setup"
  /\ \/ Goto(f, "finish") /\ UNCHANGED flowVars
     \/ Finish(f, "Err")
  /\ UNCHANGED <<devVars, holder, disk, st, last_used>>

DriverOk(f) ==
  /\ pc[f] = "finish"
  /\ status' = [status EXCEPT ![Dev(f)] = @ \cup {"DRIVER_OK"}]
  /\ Goto(f, "store")
  /\ UNCHANGED <<flowVars, queues, q, chain, busy, holder, disk, st, last_used>>

\* *self.queues().lock() = Some(queues)
Store(f) ==
  /\ pc[f] = "store" /\ holder[Dev(f)] = NoFlow
  /\ queues' = [queues EXCEPT ![Dev(f)] = TRUE]
  /\ Goto(f, "lock")
  /\ UNCHANGED <<flowVars, status, q, chain, busy, holder, disk, st, last_used>>

Lock(f) ==
  /\ pc[f] = "lock" /\ holder[Dev(f)] = NoFlow
  /\ holder' = [holder EXCEPT ![Dev(f)] = f]
  /\ Goto(f, "submit")
  /\ UNCHANGED <<devVars, flowVars, disk, st, last_used>>

\* configure(..), post_avail(0) and notify()
Submit(f) ==
  LET d == Dev(f) IN
  /\ pc[f] = "submit"
  /\ chain' = [chain EXCEPT ![d] = [owner |-> f, type |-> RequestType(f), sector |-> Sector(f)]]
  /\ st' = [st EXCEPT ![f] = "unset"]
  /\ last_used' = [last_used EXCEPT ![f] = q[d].used]
  /\ q' = [q EXCEPT ![d].avail = (@ + 1) % IDX]
  /\ Goto(f, "wait")
  /\ UNCHANGED <<flowVars, status, queues, busy, holder, disk>>

\* The slot of the element that was published last.
UsedSlot(d) == ((q[d].used - 1) % IDX) % RING_SIZE

\* Mutant: an index that is larger, not one that differs.
AnsweredAbove(f) == q[Dev(f)].used > last_used[f]

Answered(f) == q[Dev(f)].used # last_used[f]

\* Mutant: the lock is released before the answer is there.
WaitUsedUnlocks(f) ==
  /\ pc[f] = "wait"
  /\ holder' = [holder EXCEPT ![Dev(f)] = NoFlow]
  /\ Finish(f, "Err")
  /\ UNCHANGED <<devVars, disk, st, last_used>>

\* The part of the sector that a read asked for.
Bytes(f) == [i \in 1 .. Count(f) |-> sector_buf[f][Shift(f) + i - 1]]

\* The bytes of entropy that came, at most those asked for.
Written(f, elem) == IF elem.len < Rest(f) THEN elem.len ELSE Rest(f)

\* n bytes are done, and there are more to do.
NextPiece(f, n, got) ==
  /\ done' = [done EXCEPT ![f] = @ + n]
  /\ out' = [out EXCEPT ![f] = @ \o got]
  /\ sector_buf' = [sector_buf EXCEPT ![f] = NoBytes]
  /\ back' = [back EXCEPT ![f] = FALSE]
  /\ Goto(f, "check")
  /\ UNCHANGED <<call, result>>

Advance(f, n, got) ==
  \/ Rest(f) = n /\ Finish(f, "Ok")
  \/ Rest(f) # n /\ NextPiece(f, n, got)

\* The sector was read: the bytes to write go into it, and it is written next.
ReadBack(f) ==
  /\ sector_buf' = [sector_buf EXCEPT ![f] =
       [i \in DOMAIN @ |->
          IF i \in Shift(f) .. (Shift(f) + Count(f) - 1) THEN call[f].val ELSE @[i]]]
  /\ back' = [back EXCEPT ![f] = TRUE]
  /\ Goto(f, "check")
  /\ UNCHANGED <<call, done, out, result>>

\* What f makes of the answer to its request.
Consume(f, elem) ==
  \/ call[f].op = "fill" /\ Written(f, elem) = 0 /\ Finish(f, "Err")
  \/ call[f].op = "fill" /\ Written(f, elem) > 0 /\ Advance(f, Written(f, elem), <<>>)
  \/ call[f].op # "fill" /\ st[f] # "OK" /\ Finish(f, "Err")
  \/ call[f].op = "read" /\ st[f] = "OK" /\ Advance(f, Count(f), Bytes(f))
  \/ /\ call[f].op = "write" /\ st[f] = "OK" /\ RequestType(f) = "out"
     /\ Advance(f, Count(f), <<>>)
  \/ call[f].op = "write" /\ st[f] = "OK" /\ RequestType(f) = "in" /\ ReadBack(f)

\* Another round of wait_used's loop.
Spin(f) == pc[f] = "wait" /\ ~ Answered(f) /\ UNCHANGED vars

\* wait_used, and the release of the lock; elem.id is that of the only chain
WaitUsed(f) ==
  /\ pc[f] = "wait" /\ Answered(f)
  /\ holder' = [holder EXCEPT ![Dev(f)] = NoFlow]
  /\ Consume(f, q[Dev(f)].ring[UsedSlot(Dev(f))])
  /\ st' = [st EXCEPT ![f] = "unset"]
  /\ last_used' = [last_used EXCEPT ![f] = 0]
  /\ UNCHANGED <<devVars, disk>>

-----------------------------------------------------------------------------
(* The device *)

\* It works on the next chain, or refuses it.
Process(d) ==
  LET f == chain[d].owner
      base == chain[d].sector * SECTOR_SIZE
      Elem(n) == [q[d] EXCEPT !.seen = (@ + 1) % IDX,
                              !.ring[q[d].used % RING_SIZE] = [id |-> 0, len |-> n]]
  IN
  /\ "DRIVER_OK" \in status[d] /\ ~ busy[d] /\ q[d].seen # q[d].avail
  /\ busy' = [busy EXCEPT ![d] = TRUE]
  /\ \/ /\ chain[d].type = "in"
        /\ sector_buf' = [sector_buf EXCEPT ![f] = SectorBytes(chain[d].sector)]
        /\ st' = [st EXCEPT ![f] = "OK"]
        /\ q' = [q EXCEPT ![d] = Elem(0)]
        /\ UNCHANGED disk
     \/ /\ chain[d].type = "out"
        /\ disk' = [i \in DOMAIN disk |->
                      IF i \in base .. (base + SECTOR_SIZE - 1) THEN DataOut(f)[i - base] ELSE disk[i]]
        /\ st' = [st EXCEPT ![f] = "OK"]
        /\ q' = [q EXCEPT ![d] = Elem(0)]
        /\ UNCHANGED sector_buf
     \/ /\ chain[d].type \in {"in", "out"}
        /\ st' = [st EXCEPT ![f] = "IOERR"]
        /\ q' = [q EXCEPT ![d] = Elem(0)]
        /\ UNCHANGED <<disk, sector_buf>>
     \/ /\ chain[d].type = "fill"
        /\ \E n \in 0 .. Rest(f) : q' = [q EXCEPT ![d] = Elem(n)]
        /\ UNCHANGED <<disk, sector_buf, st>>
  /\ UNCHANGED <<status, queues, chain, holder, pc, call, done, out, back, last_used, result>>

\* It publishes the used element.
Publish(d) ==
  /\ busy[d]
  /\ busy' = [busy EXCEPT ![d] = FALSE]
  /\ q' = [q EXCEPT ![d].used = (@ + 1) % IDX]
  /\ UNCHANGED <<status, queues, chain, holder, disk, pc, flowVars, st, last_used>>

-----------------------------------------------------------------------------
VirtioInit ==
  /\ status = [d \in Devices |-> {}]
  /\ queues = [d \in Devices |-> FALSE]
  /\ holder = [d \in Devices |-> NoFlow]
  /\ q = [d \in Devices |-> FreshQueue]
  /\ chain = [d \in Devices |-> NoChain]
  /\ busy = [d \in Devices |-> FALSE]
  /\ disk = [i \in 0 .. (Sectors * SECTOR_SIZE - 1) |-> 0]
  /\ pc = [f \in Flows |-> "idle"]
  /\ call = [f \in Flows |-> NoCall]
  /\ done = [f \in Flows |-> 0]
  /\ out = [f \in Flows |-> <<>>]
  /\ sector_buf = [f \in Flows |-> NoBytes]
  /\ back = [f \in Flows |-> FALSE]
  /\ st = [f \in Flows |-> "unset"]
  /\ last_used = [f \in Flows |-> 0]
  /\ result = "none"

Continue(f) ==
  \/ Check(f) \/ HandshakeBegin(f) \/ Features(f) \/ Setup(f) \/ DriverOk(f)
  \/ Store(f) \/ Lock(f) \/ Submit(f) \/ WaitUsed(f) \/ Spin(f)

Device(d) == Process(d) \/ Publish(d)

=============================================================================
