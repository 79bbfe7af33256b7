--------------------------- MODULE DevicesProofs ---------------------------
(***************************************************************************)
(* Proofs about Devices, for any number of flows, any ring and sector size *)
(* and any calls: a device works only on the chain of the flow that waits  *)
(* for it (DmaOwned), the file system's handle never leads to another      *)
(* device (HandleStable), and read_at and write_at of the block device     *)
(* implement BlockStore (StoreRefined).                                    *)
(*                                                                         *)
(* The control invariant IInv says where a queue can be: at rest, or with  *)
(* one chain that is published, worked on or answered and belongs to the   *)
(* flow that has the lock.  RInv adds what the flows know about the data.  *)
(***************************************************************************)
EXTENDS Devices, TLAPS

\* The prover of the steps that name none.
USE ZenonT(30)

\* Where a flow can be, and where it initialises a device or has its lock.
Places == {"idle", "check", "reset", "features", "setup", "finish", "store", "lock",
           "submit", "wait"}
Handshaking == {"reset", "features", "setup", "finish", "store"}
Holding == {"submit", "wait"}
Indices == 0 .. (IDX - 1)

CallSet == [op : {"read", "write", "fill"}, dev : Devices, via : {"fs", "vda", "rng"},
            off : Nat, len : Nat, val : {0, 1}]

QueueSet == [avail : Indices, used : Indices, seen : Indices,
             ring : [0 .. (RING_SIZE - 1) -> [id : {0}, len : Nat]]]
ChainSet == [owner : Flows \cup {NoFlow}, type : {"none", "in", "out", "fill"}, sector : Nat]

\* The registers, queues and locks of the devices, and what the flows have on
\* their stacks, have their types.
DevTypes ==
  /\ queues \in [Devices -> BOOLEAN]
  /\ q \in [Devices -> QueueSet]
  /\ chain \in [Devices -> ChainSet]
  /\ busy \in [Devices -> BOOLEAN]

FlowTypes ==
  /\ pc \in [Flows -> Places]
  /\ call \in [Flows -> CallSet \cup {NoCall}]
  /\ done \in [Flows -> Nat]
  /\ DOMAIN out = Flows
  /\ DOMAIN sector_buf = Flows
  /\ \A f \in Flows : DOMAIN sector_buf[f] = 0 .. (SECTOR_SIZE - 1)
  /\ back \in [Flows -> BOOLEAN]

WaitTypes ==
  /\ holder \in [Devices -> Flows \cup {NoFlow}]
  /\ st \in [Flows -> {"unset", "OK", "IOERR"}]
  /\ last_used \in [Flows -> Indices]

Types == DevTypes /\ FlowTypes /\ WaitTypes

\* A flow that is idle has no call, and one that has a call has bytes to do.
CallOk(f) ==
  /\ pc[f] = "idle" <=> call[f] = NoCall
  /\ pc[f] = "idle" => done[f] = 0 /\ out[f] = <<>> /\ ~ back[f]
  /\ pc[f] # "idle" => done[f] < call[f].len /\ (call[f].op = "fill" <=> Dev(f) = Rng)

CallInv == \A f \in Flows : CallOk(f)

\* The lock of a queue is held by the flow that submits on it or waits.
LockInv ==
  \A d \in Devices, f \in Flows : holder[d] = f <=> pc[f] \in Holding /\ Dev(f) = d

\* A device is not initialised while another flow uses it: the first call on
\* the disk is that of fs::init, alone, and only one flow asks for entropy.
AloneOk(f) ==
  /\ pc[f] # "idle" /\ f # BootFlow => phase = "up" /\ Dev(f) = Blk
  /\ pc[f] \in Handshaking => queues[Dev(f)] = FALSE
  /\ pc[f] \in {"lock", "submit", "wait"} => queues[Dev(f)] = TRUE

AloneInv ==
  /\ \A f \in Flows : AloneOk(f)
  /\ phase \in {"up", "seed"} \/ result = "Ok" => queues[Blk] = TRUE

\* f waits for the answer to its request to d.
Waits(f, d) == pc[f] = "wait" /\ Dev(f) = d

\* Nothing is published, worked on or unread.
Quiet(d) == q[d].seen = q[d].avail /\ q[d].used = q[d].avail /\ busy[d] = FALSE

\* The chain of f is published, or worked on, or answered.
Stage(f, d) ==
  /\ chain[d].owner = f
  /\ q[d].avail = (last_used[f] + 1) % IDX
  /\ \/ q[d].seen = last_used[f] /\ q[d].used = last_used[f] /\ busy[d] = FALSE
     \/ q[d].seen = q[d].avail /\ q[d].used = last_used[f] /\ busy[d] = TRUE
     \/ q[d].seen = q[d].avail /\ q[d].used = q[d].avail /\ busy[d] = FALSE

\* A queue is at rest, or has the one chain of the flow that waits.
QueueOk(d) ==
  /\ (\A f \in Flows : ~ Waits(f, d)) => Quiet(d)
  /\ \A f \in Flows : Waits(f, d) => Stage(f, d)

QueueInv == \A d \in Devices : QueueOk(d)

\* The inductive invariant of the control.
IInv == Types /\ CallInv /\ LockInv /\ AloneInv /\ QueueInv

\* A number that was given to a device is that of a reserved block, and the
\* file system's handle is such a number.
HandleInv ==
  /\ handle = NoDid \/ handle \in blocks
  /\ DOMAIN by_id \subseteq blocks \cap (0 .. (DidEnd - 1))
  /\ HandleStable

-----------------------------------------------------------------------------
(* Numbers *)

\* The index that comes next is another one, also where it wraps.
LEMMA NextIndex ==
  ASSUME NEW x \in Indices
  PROVE  (x + 1) % IDX \in Indices /\ (x + 1) % IDX # x
<1>1. IDX \in Nat /\ IDX > 1 /\ x \in Nat /\ x < IDX
  BY RingAssumption, SMT DEF Indices
<1>2. CASE x + 1 < IDX
  <2>1. (x + 1) % IDX = x + 1
    BY <1>1, <1>2, SMT
  <2> QED BY <1>1, <1>2, <2>1, SMT DEF Indices
<1>3. CASE x + 1 = IDX
  <2>1. (x + 1) % IDX = 0
    BY <1>1, <1>3, SMT
  <2> QED BY <1>1, <1>3, <2>1, SMT DEF Indices
<1> QED BY <1>1, <1>2, <1>3, SMT

\* The call of a flow.
LEMMA CallFacts ==
  ASSUME FlowTypes, CallInv, NEW f \in Flows, pc[f] # "idle"
  PROVE  /\ call[f] \in CallSet /\ call[f] # NoCall /\ Dev(f) \in Devices
         /\ call[f].op \in {"read", "write", "fill"}
         /\ call[f].off \in Nat /\ call[f].len \in Nat /\ call[f].val \in {0, 1}
         /\ done[f] \in Nat /\ done[f] < call[f].len
<1>1. call[f] # NoCall /\ done[f] < call[f].len
  BY DEF CallInv, CallOk
<1>2. call[f] \in CallSet /\ done[f] \in Nat
  BY <1>1 DEF FlowTypes
<1> QED BY <1>1, <1>2 DEF CallSet, Dev

\* What a request is about: part of one sector.
LEMMA PieceFacts ==
  ASSUME FlowTypes, CallInv, NEW f \in Flows, pc[f] # "idle"
  PROVE  /\ Pos(f) \in Nat /\ Sector(f) \in Nat /\ Shift(f) \in 0 .. (SECTOR_SIZE - 1)
         /\ Pos(f) = Sector(f) * SECTOR_SIZE + Shift(f)
         /\ Rest(f) \in Nat \ {0} /\ Count(f) \in Nat \ {0}
         /\ Count(f) =< Rest(f) /\ Shift(f) + Count(f) =< SECTOR_SIZE
<1>1. Pos(f) \in Nat /\ Rest(f) \in Nat \ {0}
  BY CallFacts, SMT DEF Pos, Rest
<1>2. ASSUME NEW n \in Nat
      PROVE  /\ n \div SECTOR_SIZE \in Nat /\ n % SECTOR_SIZE \in 0 .. (SECTOR_SIZE - 1)
             /\ n = (n \div SECTOR_SIZE) * SECTOR_SIZE + (n % SECTOR_SIZE)
  BY SectorAssumption, SMT
<1>3. /\ Sector(f) \in Nat /\ Shift(f) \in 0 .. (SECTOR_SIZE - 1)
      /\ Pos(f) = Sector(f) * SECTOR_SIZE + Shift(f)
  BY <1>1, <1>2 DEF Sector, Shift
<1>4. Count(f) = IF SECTOR_SIZE - Shift(f) < Rest(f) THEN SECTOR_SIZE - Shift(f) ELSE Rest(f)
  BY DEF Count
<1> QED BY <1>1, <1>3, <1>4, SectorAssumption, SMT

\* The request that comes next is one that the device knows.
LEMMA RequestFacts ==
  ASSUME FlowTypes, CallInv, NEW f \in Flows, pc[f] # "idle"
  PROVE  RequestType(f) \in {"in", "out", "fill"}
BY CallFacts DEF RequestType

-----------------------------------------------------------------------------
(* Steps of one flow *)

\* A step leaves the other flows alone.
Others(f) ==
  \A g \in Flows \ {f} :
    /\ pc'[g] = pc[g] /\ call'[g] = call[g] /\ done'[g] = done[g] /\ out'[g] = out[g]
    /\ sector_buf'[g] = sector_buf[g] /\ back'[g] = back[g] /\ st'[g] = st[g]
    /\ last_used'[g] = last_used[g]

\* A step of f keeps the facts about the calls of the other flows.
LEMMA CallFrame ==
  ASSUME CallInv, NEW f \in Flows, Others(f), CallOk(f)'
  PROVE  CallInv'
<1>1. ASSUME NEW g \in Flows \ {f} PROVE CallOk(g)'
  <2>1. /\ pc'[g] = pc[g] /\ call'[g] = call[g] /\ done'[g] = done[g] /\ out'[g] = out[g]
        /\ back'[g] = back[g]
    BY DEF Others
  <2>2. CallOk(g)
    BY DEF CallInv
  <2> QED BY <2>1, <2>2 DEF CallOk, Dev
<1> QED BY <1>1 DEF CallInv

\* A step that neither takes nor releases the lock of a queue keeps who has it.
LEMMA LockFrame ==
  ASSUME LockInv, NEW f \in Flows, Others(f), UNCHANGED holder,
         pc[f] \in Holding <=> pc'[f] \in Holding,
         pc[f] \in Holding => call'[f] = call[f]
  PROVE  LockInv'
<1>1. ASSUME NEW d \in Devices, NEW g \in Flows
      PROVE  holder'[d] = g <=> pc'[g] \in Holding /\ call'[g].dev = d
  <2>1. holder[d] = g <=> pc[g] \in Holding /\ call[g].dev = d
    BY DEF LockInv, Dev
  <2>2. CASE g = f
    BY <2>1, <2>2
  <2>3. CASE g # f
    <3>1. pc'[g] = pc[g] /\ call'[g] = call[g]
      BY <2>3 DEF Others
    <3> QED BY <2>1, <3>1
  <2> QED BY <2>2, <2>3
<1> QED BY <1>1 DEF LockInv, Dev, Devices

\* A step of f on a device that is set up keeps who may be initialising one.
LEMMA AloneFrame ==
  ASSUME AloneInv, NEW f \in Flows, Others(f), UNCHANGED <<queues, phase>>, AloneOk(f)',
         result' = "Ok" => queues[Blk] = TRUE
  PROVE  AloneInv'
<1>1. ASSUME NEW g \in Flows \ {f} PROVE AloneOk(g)'
  <2>1. pc'[g] = pc[g] /\ call'[g] = call[g]
    BY DEF Others
  <2>2. AloneOk(g)
    BY DEF AloneInv
  <2> QED BY <2>1, <2>2 DEF AloneOk, Dev
<1>2. (phase \in {"up", "seed"} \/ result = "Ok" => queues[Blk] = TRUE)'
  BY DEF AloneInv
<1> QED BY <1>1, <1>2 DEF AloneInv

\* A step of a flow that does not wait leaves the queues as they are.
LEMMA QueueFrame ==
  ASSUME QueueInv, NEW f \in Flows, Others(f), UNCHANGED <<q, chain, busy>>,
         pc[f] # "wait", pc'[f] # "wait"
  PROVE  QueueInv'
<1>1. ASSUME NEW d \in Devices, NEW g \in Flows
      PROVE  /\ Waits(g, d)' <=> Waits(g, d)
             /\ Waits(g, d) => last_used'[g] = last_used[g]
  BY DEF Waits, Others, Dev
<1>2. ASSUME NEW d \in Devices PROVE QueueOk(d)'
  <2>1. QueueOk(d)
    BY DEF QueueInv
  <2>2. Quiet(d) => Quiet(d)'
    BY DEF Quiet
  <2>3. ASSUME NEW g \in Flows, Waits(g, d), Stage(g, d) PROVE Stage(g, d)'
    BY <1>1, <2>3 DEF Stage
  <2> QED BY <1>1, <2>1, <2>2, <2>3 DEF QueueOk
<1> QED BY <1>2 DEF QueueInv, Devices

\* A call returns.
LEMMA FinishFacts ==
  ASSUME FlowTypes, NEW f \in Flows, NEW kind, Finish(f, kind)
  PROVE  /\ FlowTypes' /\ CallOk(f)'
         /\ pc'[f] = "idle" /\ call'[f] = NoCall
         /\ \A g \in Flows \ {f} :
              /\ pc'[g] = pc[g] /\ call'[g] = call[g] /\ done'[g] = done[g] /\ out'[g] = out[g]
              /\ sector_buf'[g] = sector_buf[g] /\ back'[g] = back[g]
<1>1. /\ pc' = [pc EXCEPT ![f] = "idle"]
      /\ call' = [call EXCEPT ![f] = NoCall]
      /\ done' = [done EXCEPT ![f] = 0]
      /\ out' = [out EXCEPT ![f] = <<>>]
      /\ sector_buf' = [sector_buf EXCEPT ![f] = NoBytes]
      /\ back' = [back EXCEPT ![f] = FALSE]
  BY DEF Finish, Goto
<1>2. pc' \in [Flows -> Places] /\ call' \in [Flows -> CallSet \cup {NoCall}]
  BY <1>1 DEF FlowTypes, Places
<1>3. done' \in [Flows -> Nat] /\ DOMAIN out' = Flows /\ DOMAIN sector_buf' = Flows
  BY <1>1 DEF FlowTypes
<1>4. \A g \in Flows : DOMAIN sector_buf'[g] = 0 .. (SECTOR_SIZE - 1)
  BY <1>1 DEF FlowTypes, NoBytes
<1>5. back' \in [Flows -> BOOLEAN]
  BY <1>1 DEF FlowTypes
<1>6. /\ pc'[f] = "idle" /\ call'[f] = NoCall /\ done'[f] = 0 /\ out'[f] = <<>>
      /\ back'[f] = FALSE
  BY <1>1 DEF FlowTypes
<1>7. \A g \in Flows \ {f} :
        /\ pc'[g] = pc[g] /\ call'[g] = call[g] /\ done'[g] = done[g] /\ out'[g] = out[g]
        /\ sector_buf'[g] = sector_buf[g] /\ back'[g] = back[g]
  BY <1>1 DEF FlowTypes
<1>8. FlowTypes'
  BY <1>2, <1>3, <1>4, <1>5 DEF FlowTypes
<1> QED BY <1>6, <1>7, <1>8 DEF CallOk

\* A call goes on.
LEMMA GotoFacts ==
  ASSUME FlowTypes, NEW f \in Flows, NEW l \in Places, Goto(f, l),
         UNCHANGED <<call, done, out, sector_buf, back>>
  PROVE  /\ FlowTypes' /\ pc'[f] = l
         /\ \A g \in Flows \ {f} : pc'[g] = pc[g]
         /\ pc[f] # "idle" /\ l # "idle" /\ CallOk(f) => CallOk(f)'
<1>1. pc' \in [Flows -> Places] /\ pc'[f] = l /\ \A g \in Flows \ {f} : pc'[g] = pc[g]
  BY DEF FlowTypes, Goto
<1>2. FlowTypes'
  BY <1>1 DEF FlowTypes
<1>3. ASSUME pc[f] # "idle", l # "idle", CallOk(f) PROVE CallOk(f)'
  BY <1>1, <1>3 DEF CallOk, Dev
<1> QED BY <1>1, <1>2, <1>3

-----------------------------------------------------------------------------
(* Steps of a flow *)

\* A call begins; when it is a new phase, all other flows are idle.
LEMMA BeginStep ==
  ASSUME IInv, NEW f \in Flows, NEW c \in CallSet, Begin(f, c), c.len > 0,
         c.op = "fill" <=> c.dev = Rng,
         f # BootFlow => phase' = "up" /\ c.dev = Blk,
         phase' = phase \/ (NoCalls /\ phase \in {"up", "seed"} /\ phase' = "seed")
  PROVE  IInv'
<1>1. /\ pc[f] = "idle" /\ call' = [call EXCEPT ![f] = c] /\ pc' = [pc EXCEPT ![f] = "check"]
      /\ UNCHANGED <<queues, q, chain, busy, holder, done, out, sector_buf, back, st, last_used,
                     result>>
  BY DEF Begin, Goto, devVars
<1>2. Types /\ CallInv /\ LockInv /\ AloneInv /\ QueueInv /\ FlowTypes
  BY DEF IInv, Types
<1>3. /\ pc' \in [Flows -> Places] /\ call' \in [Flows -> CallSet \cup {NoCall}]
      /\ pc'[f] = "check" /\ call'[f] = c
      /\ \A g \in Flows \ {f} : pc'[g] = pc[g] /\ call'[g] = call[g]
  BY <1>1, <1>2 DEF FlowTypes, Places
<1>4. Types'
  BY <1>1, <1>2, <1>3 DEF Types, DevTypes, FlowTypes, WaitTypes
<1>5. Others(f)
  BY <1>1, <1>3 DEF Others
<1>6. CallOk(f)'
  <2>1. c # NoCall
    BY NoCallAssumption DEF CallSet, Devices
  <2>2. done'[f] = 0
    BY <1>1, <1>2 DEF CallInv, CallOk
  <2> QED BY <1>3, <2>1, <2>2 DEF CallOk, Dev
<1>7. CallInv'
  BY <1>2, <1>5, <1>6, CallFrame
<1>8. LockInv'
  BY <1>1, <1>2, <1>3, <1>5, LockFrame DEF Holding
<1>9. AloneInv'
  <2>1. AloneOk(f)'
    BY <1>3 DEF AloneOk, Handshaking, Dev
  <2>2. result' = "Ok" => queues[Blk] = TRUE
    BY <1>1, <1>2 DEF AloneInv
  <2>3. CASE phase' = phase
    BY <1>1, <1>2, <1>5, <2>1, <2>2, <2>3, AloneFrame
  <2>4. CASE NoCalls /\ phase \in {"up", "seed"} /\ phase' = "seed"
    <3>1. ASSUME NEW g \in Flows \ {f} PROVE AloneOk(g)'
      <4>1. pc'[g] = "idle"
        BY <1>3, <2>4 DEF NoCalls
      <4> QED BY <4>1 DEF AloneOk, Handshaking
    <3>2. (phase \in {"up", "seed"} \/ result = "Ok" => queues[Blk] = TRUE)'
      BY <1>1, <1>2, <2>4 DEF AloneInv
    <3> QED BY <2>1, <3>1, <3>2 DEF AloneInv
  <2> QED BY <2>3, <2>4
<1>10. QueueInv'
  BY <1>1, <1>2, <1>3, <1>5, QueueFrame
<1> QED BY <1>4, <1>7, <1>8, <1>9, <1>10 DEF IInv

\* A step of f that touches no queue, and takes and releases no lock.
LEMMA PlainStep ==
  ASSUME IInv, NEW f \in Flows, pc[f] \notin Holding, pc'[f] \notin Holding,
         UNCHANGED <<queues, q, chain, busy, holder, st, last_used, phase>>,
         FlowTypes', CallOk(f)', AloneOk(f)', result' = "Ok" => result = "Ok",
         \A g \in Flows \ {f} :
           /\ pc'[g] = pc[g] /\ call'[g] = call[g] /\ done'[g] = done[g] /\ out'[g] = out[g]
           /\ sector_buf'[g] = sector_buf[g] /\ back'[g] = back[g]
  PROVE  IInv'
<1>1. Types /\ CallInv /\ LockInv /\ AloneInv /\ QueueInv
  BY DEF IInv
<1>2. Types'
  BY <1>1 DEF Types, DevTypes, WaitTypes
<1>3. Others(f)
  BY DEF Others
<1>4. pc[f] # "wait" /\ pc'[f] # "wait"
  BY DEF Holding
<1>5. CallInv'
  BY <1>1, <1>3, CallFrame
<1>6. LockInv'
  BY <1>1, <1>3, LockFrame
<1>7. AloneInv'
  <2>1. result' = "Ok" => queues[Blk] = TRUE
    BY <1>1 DEF AloneInv
  <2> QED BY <1>1, <1>3, <2>1, AloneFrame
<1>8. QueueInv'
  BY <1>1, <1>3, <1>4, QueueFrame
<1> QED BY <1>2, <1>5, <1>6, <1>7, <1>8 DEF IInv

\* Before the lock is taken: the check, and the handshake but for its
\* beginning and its end.
LEMMA ApproachStep ==
  ASSUME IInv, NEW f \in Flows, Check(f) \/ Features(f) \/ Setup(f) \/ DriverOk(f), UNCHANGED phase
  PROVE  IInv'
<1>1. FlowTypes /\ CallInv /\ CallOk(f) /\ AloneOk(f) /\ DevTypes
  BY DEF IInv, Types, CallInv, AloneInv
<1>2. /\ pc[f] \in {"check", "features", "setup", "finish"}
      /\ UNCHANGED <<queues, q, chain, busy, holder, st, last_used>>
  BY DEF Check, Features, Setup, DriverOk, devVars
<1>3. Dev(f) \in Devices /\ pc[f] \notin Holding /\ pc[f] # "idle"
  BY <1>1, <1>2, CallFacts DEF Holding
<1>4. ASSUME NEW l \in {"lock", "reset", "setup", "finish", "store"}, Goto(f, l), UNCHANGED flowVars,
             queues[Dev(f)] = (l = "lock")
      PROVE  IInv'
  <2>1. l \in Places /\ l # "idle" /\ l \notin Holding
    BY DEF Places, Holding
  <2>2. UNCHANGED <<call, done, out, sector_buf, back, result>>
    BY <1>4 DEF flowVars
  <2>3. FlowTypes' /\ pc'[f] = l /\ (\A g \in Flows \ {f} : pc'[g] = pc[g]) /\ CallOk(f)'
    BY <1>1, <1>3, <1>4, <2>1, <2>2, GotoFacts
  <2>4. AloneOk(f)'
    BY <1>1, <1>2, <1>3, <1>4, <2>2, <2>3 DEF AloneOk, Dev, Handshaking
  <2> QED BY <1>2, <1>3, <2>1, <2>2, <2>3, <2>4, PlainStep
<1>5. ASSUME Finish(f, "Err") PROVE IInv'
  <2>1. /\ FlowTypes' /\ CallOk(f)' /\ pc'[f] = "idle"
        /\ \A g \in Flows \ {f} :
             /\ pc'[g] = pc[g] /\ call'[g] = call[g] /\ done'[g] = done[g] /\ out'[g] = out[g]
             /\ sector_buf'[g] = sector_buf[g] /\ back'[g] = back[g]
    BY <1>1, <1>5, FinishFacts
  <2>2. AloneOk(f)' /\ pc'[f] \notin Holding
    BY <2>1 DEF AloneOk, Handshaking, Holding
  <2>3. result' = "Ok" => result = "Ok"
    BY <1>5 DEF Finish
  <2> QED BY <1>2, <1>3, <2>1, <2>2, <2>3, PlainStep
<1>6. queues[Dev(f)] \in BOOLEAN
  BY <1>1, <1>3 DEF DevTypes
<1>7. CASE Check(f)
  <2>1. Goto(f, IF queues[Dev(f)] THEN "lock" ELSE "reset") /\ UNCHANGED flowVars
    BY <1>7 DEF Check
  <2>2. CASE queues[Dev(f)] = TRUE
    BY <1>4, <2>1, <2>2
  <2>3. CASE queues[Dev(f)] = FALSE
    BY <1>4, <2>1, <2>3
  <2> QED BY <1>6, <2>2, <2>3
<1>8. pc[f] \in Handshaking => queues[Dev(f)] = FALSE
  BY <1>1 DEF AloneOk
<1>9. CASE Features(f)
  <2>1. (Goto(f, "setup") /\ UNCHANGED flowVars) \/ Finish(f, "Err")
    BY <1>9 DEF Features
  <2>2. queues[Dev(f)] = FALSE
    BY <1>8, <1>9 DEF Features, Handshaking
  <2> QED BY <1>4, <1>5, <2>1, <2>2
<1>10. CASE Setup(f)
  <2>1. (Goto(f, "finish") /\ UNCHANGED flowVars) \/ Finish(f, "Err")
    BY <1>10 DEF Setup
  <2>2. queues[Dev(f)] = FALSE
    BY <1>8, <1>10 DEF Setup, Handshaking
  <2> QED BY <1>4, <1>5, <2>1, <2>2
<1>11. CASE DriverOk(f)
  <2>1. Goto(f, "store") /\ UNCHANGED flowVars
    BY <1>11 DEF DriverOk
  <2>2. queues[Dev(f)] = FALSE
    BY <1>8, <1>11 DEF DriverOk, Handshaking
  <2> QED BY <1>4, <2>1, <2>2
<1> QED BY <1>7, <1>9, <1>10, <1>11

\* A flow that initialises a device is the only one on it.
LEMMA HandshakeAlone ==
  ASSUME IInv, NEW f \in Flows, pc[f] \in Handshaking, NEW g \in Flows \ {f}, pc[g] # "idle"
  PROVE  Dev(g) # Dev(f)
<1>1. AloneOk(f) /\ AloneOk(g) /\ AloneInv /\ pc[f] # "idle"
  BY DEF IInv, AloneInv, Handshaking
<1> SUFFICES ASSUME Dev(g) = Dev(f) PROVE FALSE
  OBVIOUS
<1>2. phase = "up" /\ Dev(f) = Blk
  BY <1>1 DEF AloneOk
<1> QED BY <1>1, <1>2 DEF AloneOk, AloneInv

\* handshake resets a device: its queue is empty, and nobody waits on it.
LEMMA HandshakeStep ==
  ASSUME IInv, NEW f \in Flows, HandshakeBegin(f), UNCHANGED phase
  PROVE  IInv'
<1> DEFINE d == Dev(f)
<1>1. /\ pc[f] = "reset" /\ q' = [q EXCEPT ![d] = FreshQueue]
      /\ busy' = [busy EXCEPT ![d] = FALSE] /\ Goto(f, "features")
      /\ UNCHANGED <<call, done, out, sector_buf, back, result, queues, chain, holder, st, last_used>>
  BY DEF HandshakeBegin, flowVars
<1>2. Types /\ CallInv /\ LockInv /\ AloneInv /\ QueueInv /\ FlowTypes /\ DevTypes /\ CallOk(f)
  BY DEF IInv, Types, CallInv
<1>3. d \in Devices
  BY <1>1, <1>2, CallFacts
<1> HIDE DEF d
<1>4. FlowTypes' /\ pc'[f] = "features" /\ (\A g \in Flows \ {f} : pc'[g] = pc[g]) /\ CallOk(f)'
  <2>1. "features" \in Places
    BY DEF Places
  <2> QED BY <1>1, <1>2, <2>1, GotoFacts
<1>5. FreshQueue \in QueueSet
  <2>1. 0 \in Indices
    BY RingAssumption, SMT DEF Indices
  <2>2. [s \in 0 .. (RING_SIZE - 1) |-> [id |-> 0, len |-> 0]]
          \in [0 .. (RING_SIZE - 1) -> [id : {0}, len : Nat]]
    OBVIOUS
  <2> QED BY <2>1, <2>2 DEF FreshQueue, QueueSet
<1>6. DevTypes'
  <2>1. q' \in [Devices -> QueueSet]
    BY <1>1, <1>2, <1>5 DEF DevTypes
  <2>2. busy' \in [Devices -> BOOLEAN]
    BY <1>1, <1>2 DEF DevTypes
  <2> QED BY <1>1, <1>2, <2>1, <2>2 DEF DevTypes
<1>7. Types'
  BY <1>1, <1>2, <1>4, <1>6 DEF Types, WaitTypes
<1>8. Others(f)
  BY <1>1, <1>4 DEF Others
<1>9. CallInv'
  BY <1>2, <1>4, <1>8, CallFrame
<1>10. LockInv'
  BY <1>1, <1>2, <1>4, <1>8, LockFrame DEF Holding
<1>11. AloneInv'
  <2>1. AloneOk(f)'
    BY <1>1, <1>2, <1>4 DEF AloneInv, AloneOk, Dev, Handshaking
  <2> QED BY <1>1, <1>2, <1>8, <2>1, AloneFrame DEF AloneInv
<1>12. ASSUME NEW g \in Flows, NEW e \in Devices
       PROVE  Waits(g, e)' <=> Waits(g, e) /\ e # d
  <2>1. CASE g = f
    BY <1>1, <1>4, <2>1 DEF Waits
  <2>2. CASE g # f
    <3>1. pc'[g] = pc[g] /\ call'[g] = call[g]
      BY <1>1, <1>4, <2>2
    <3>2. pc[g] = "wait" => Dev(g) # d
      BY <1>1, <2>2, HandshakeAlone DEF Handshaking, d
    <3> QED BY <3>1, <3>2 DEF Waits, Dev
  <2> QED BY <2>1, <2>2
<1>13. QueueOk(d)'
  <2>1. q'[d] = FreshQueue /\ busy'[d] = FALSE
    BY <1>1, <1>2, <1>3 DEF DevTypes
  <2>2. q'[d].seen = 0 /\ q'[d].avail = 0 /\ q'[d].used = 0
    BY <2>1, SMT DEF FreshQueue
  <2>3. \A g \in Flows : ~ (pc'[g] = "wait" /\ call'[g].dev = d)
    BY <1>3, <1>12 DEF Waits, Dev
  <2> QED BY <1>1, <2>1, <2>2, <2>3 DEF QueueOk, Quiet, Waits, d, Dev
<1>14. ASSUME NEW e \in Devices \ {d} PROVE QueueOk(e)'
  <2>1. q'[e] = q[e] /\ busy'[e] = busy[e]
    BY <1>1, <1>2 DEF DevTypes
  <2>2. QueueOk(e)
    BY <1>2 DEF QueueInv
  <2>3. Quiet(e) => Quiet(e)'
    BY <2>1 DEF Quiet
  <2>4. ASSUME NEW g \in Flows, Stage(g, e) PROVE Stage(g, e)'
    BY <1>1, <2>1, <2>4 DEF Stage
  <2> QED BY <1>12, <2>2, <2>3, <2>4 DEF QueueOk
<1>15. QueueInv'
  <2>1. ASSUME NEW e \in Devices PROVE QueueOk(e)'
    <3>1. CASE e = d
      <4>1. d' = d
        BY <1>1 DEF d, Dev
      <4> QED BY <1>13, <3>1, <4>1
    <3>2. CASE e # d
      BY <1>14, <3>2
    <3> QED BY <3>1, <3>2
  <2> QED BY <2>1 DEF QueueInv, Devices
<1> QED BY <1>7, <1>9, <1>10, <1>11, <1>15 DEF IInv

\* A step on the queue of one device says nothing about another.
LEMMA QueueElsewhere ==
  ASSUME QueueInv, NEW d \in Devices, NEW f \in Flows, Others(f),
         Waits(f, d) \/ pc[f] # "wait", pc'[f] = "wait" => call'[f].dev = d,
         \A e \in Devices \ {d} : q'[e] = q[e] /\ busy'[e] = busy[e] /\ chain'[e] = chain[e],
         NEW e \in Devices \ {d}
  PROVE  QueueOk(e)'
<1>1. ASSUME NEW g \in Flows
      PROVE  /\ Waits(g, e)' <=> Waits(g, e)
             /\ Waits(g, e) => last_used'[g] = last_used[g]
  <2>1. CASE g = f
    BY <2>1, SMT DEF Waits, Dev
  <2>2. CASE g # f
    <3>1. pc'[g] = pc[g] /\ call'[g] = call[g] /\ last_used'[g] = last_used[g]
      BY <2>2 DEF Others
    <3> QED BY <3>1 DEF Waits, Dev
  <2> QED BY <2>1, <2>2
<1>2. QueueOk(e)
  BY DEF QueueInv
<1>3. Quiet(e) => Quiet(e)'
  BY DEF Quiet
<1>4. ASSUME NEW g \in Flows, Waits(g, e), Stage(g, e) PROVE Stage(g, e)'
  BY <1>1, <1>4 DEF Stage
<1> QED BY <1>1, <1>2, <1>3, <1>4 DEF QueueOk

\* The queue is there before any flow uses it.
LEMMA StoreStep ==
  ASSUME IInv, NEW f \in Flows, Store(f), UNCHANGED phase
  PROVE  IInv'
<1> DEFINE d == Dev(f)
<1>1. /\ pc[f] = "store" /\ queues' = [queues EXCEPT ![d] = TRUE] /\ Goto(f, "lock")
      /\ UNCHANGED <<call, done, out, sector_buf, back, result, q, chain, busy, holder, st, last_used>>
  BY DEF Store, flowVars
<1>2. Types /\ CallInv /\ LockInv /\ AloneInv /\ QueueInv /\ FlowTypes /\ DevTypes /\ CallOk(f)
  BY DEF IInv, Types, CallInv
<1>3. d \in Devices
  BY <1>1, <1>2, CallFacts
<1>4. FlowTypes' /\ pc'[f] = "lock" /\ (\A g \in Flows \ {f} : pc'[g] = pc[g]) /\ CallOk(f)'
  <2>1. "lock" \in Places
    BY DEF Places
  <2> QED BY <1>1, <1>2, <2>1, GotoFacts
<1> HIDE DEF d
<1>5. /\ queues' \in [Devices -> BOOLEAN] /\ queues'[d] = TRUE
      /\ \A e \in Devices \ {d} : queues'[e] = queues[e]
  BY <1>1, <1>2, <1>3 DEF DevTypes
<1>6. Types'
  BY <1>1, <1>2, <1>4, <1>5 DEF Types, DevTypes, WaitTypes
<1>7. Others(f)
  BY <1>1, <1>4 DEF Others
<1>8. CallInv'
  BY <1>2, <1>4, <1>7, CallFrame
<1>9. LockInv'
  BY <1>1, <1>2, <1>4, <1>7, LockFrame DEF Holding
<1>10. ASSUME NEW g \in Flows \ {f} PROVE AloneOk(g)'
  <2>1. pc'[g] = pc[g] /\ call'[g] = call[g]
    BY <1>1, <1>4
  <2>2. AloneOk(g)
    BY <1>2 DEF AloneInv
  <2>3. CASE pc[g] = "idle"
    BY <2>1, <2>3 DEF AloneOk, Handshaking
  <2>4. CASE pc[g] # "idle"
    <3>1. Dev(g) # d /\ Dev(g) \in Devices
      BY <1>1, <1>2, <2>4, HandshakeAlone, CallFacts DEF Handshaking, d
    <3>2. queues'[call[g].dev] = queues[call[g].dev]
      BY <1>5, <3>1 DEF Dev
    <3> QED BY <2>1, <2>2, <3>2 DEF AloneOk, Dev
  <2> QED BY <2>3, <2>4
<1>11. AloneOk(f)'
  <2>1. AloneOk(f)
    BY <1>2 DEF AloneInv
  <2>2. queues'[call'[f].dev] = TRUE
    BY <1>1, <1>5 DEF d, Dev
  <2> QED BY <1>1, <1>4, <2>1, <2>2 DEF AloneOk, Dev, Handshaking
<1>12. AloneInv'
  <2>1. (phase \in {"up", "seed"} \/ result = "Ok" => queues[Blk] = TRUE)'
    BY <1>1, <1>2, <1>5 DEF AloneInv, Devices
  <2> QED BY <1>10, <1>11, <2>1 DEF AloneInv
<1>13. QueueInv'
  BY <1>1, <1>2, <1>4, <1>7, QueueFrame
<1> QED BY <1>6, <1>8, <1>9, <1>12, <1>13 DEF IInv

\* VirtioDevice::queue takes the lock that nobody had.
LEMMA LockStep ==
  ASSUME IInv, NEW f \in Flows, Lock(f), UNCHANGED phase
  PROVE  IInv'
<1> DEFINE d == Dev(f)
<1>1. /\ pc[f] = "lock" /\ holder[d] = NoFlow /\ holder' = [holder EXCEPT ![d] = f]
      /\ Goto(f, "submit")
      /\ UNCHANGED <<call, done, out, sector_buf, back, result, queues, q, chain, busy, st, last_used>>
  BY DEF Lock, flowVars, devVars
<1>2. /\ Types /\ CallInv /\ LockInv /\ AloneInv /\ QueueInv /\ FlowTypes /\ WaitTypes
      /\ CallOk(f) /\ AloneOk(f)
  BY DEF IInv, Types, CallInv, AloneInv
<1>3. d \in Devices
  BY <1>1, <1>2, CallFacts
<1>4. FlowTypes' /\ pc'[f] = "submit" /\ (\A g \in Flows \ {f} : pc'[g] = pc[g]) /\ CallOk(f)'
  <2>1. "submit" \in Places
    BY DEF Places
  <2> QED BY <1>1, <1>2, <2>1, GotoFacts
<1> HIDE DEF d
<1>5. /\ holder' \in [Devices -> Flows \cup {NoFlow}] /\ holder'[d] = f
      /\ \A e \in Devices \ {d} : holder'[e] = holder[e]
  BY <1>1, <1>2, <1>3 DEF WaitTypes
<1>6. Types'
  BY <1>1, <1>2, <1>4, <1>5 DEF Types, DevTypes, WaitTypes
<1>7. Others(f)
  BY <1>1, <1>4 DEF Others
<1>8. CallInv'
  BY <1>2, <1>4, <1>7, CallFrame
<1>9. LockInv'
  <2>1. ASSUME NEW e \in Devices, NEW g \in Flows
        PROVE  holder'[e] = g <=> pc'[g] \in Holding /\ call'[g].dev = e
    <3>1. holder[e] = g <=> pc[g] \in Holding /\ call[g].dev = e
      BY <1>2 DEF LockInv, Dev
    <3>2. CASE g = f
      <4>1. pc'[g] \in Holding /\ call'[g].dev = d
        BY <1>1, <1>4, <3>2 DEF Holding, d, Dev
      <4>2. pc[g] \notin Holding
        BY <1>1, <3>2 DEF Holding
      <4> QED BY <1>5, <3>1, <3>2, <4>1, <4>2
    <3>3. CASE g # f
      <4>1. pc'[g] = pc[g] /\ call'[g] = call[g]
        BY <1>1, <1>4, <3>3
      <4>2. holder[d] # g
        BY <1>1, FlowAssumption
      <4> QED BY <1>5, <3>1, <3>3, <4>1, <4>2
    <3> QED BY <3>2, <3>3
  <2> QED BY <2>1 DEF LockInv, Dev, Devices
<1>10. AloneInv'
  <2>1. AloneOk(f)'
    BY <1>1, <1>2, <1>4 DEF AloneOk, Dev, Handshaking
  <2> QED BY <1>1, <1>2, <1>7, <2>1, AloneFrame DEF AloneInv
<1>11. QueueInv'
  BY <1>1, <1>2, <1>4, <1>7, QueueFrame
<1> QED BY <1>6, <1>8, <1>9, <1>10, <1>11 DEF IInv

\* Under the lock of a queue no other flow waits, and the queue is at rest.
LEMMA HolderAlone ==
  ASSUME IInv, NEW f \in Flows, pc[f] \in Holding, NEW g \in Flows, pc[g] \in Holding,
         Dev(g) = Dev(f)
  PROVE  g = f
<1>1. Dev(f) \in Devices
  BY CallFacts DEF IInv, Types, Holding
<1>2. holder[Dev(f)] = f /\ holder[Dev(f)] = g
  BY <1>1 DEF IInv, LockInv
<1> QED BY <1>2

\* A request is published on a queue at rest.
LEMMA SubmitStep ==
  ASSUME IInv, NEW f \in Flows, Submit(f), UNCHANGED phase
  PROVE  IInv'
<1> DEFINE d == Dev(f)
           next == (q[d].avail + 1) % IDX
           link == [owner |-> f, type |-> RequestType(f), sector |-> Sector(f)]
<1>1. /\ pc[f] = "submit" /\ Goto(f, "wait")
      /\ chain' = [chain EXCEPT ![d] = link]
      /\ st' = [st EXCEPT ![f] = "unset"]
      /\ last_used' = [last_used EXCEPT ![f] = q[d].used]
      /\ q' = [q EXCEPT ![d].avail = next]
      /\ UNCHANGED <<call, done, out, sector_buf, back, result, queues, busy, holder>>
  BY DEF Submit, flowVars
<1>2. /\ Types /\ CallInv /\ LockInv /\ AloneInv /\ QueueInv /\ FlowTypes /\ DevTypes /\ WaitTypes
      /\ CallOk(f) /\ AloneOk(f)
  BY DEF IInv, Types, CallInv, AloneInv
<1>3. d \in Devices /\ link \in ChainSet
  <2>1. RequestType(f) \in {"in", "out", "fill"} /\ Sector(f) \in Nat
    BY <1>1, <1>2, RequestFacts, PieceFacts
  <2> QED BY <1>1, <1>2, <2>1, CallFacts DEF ChainSet
<1>4. q[d] \in QueueSet
  BY <1>2, <1>3 DEF DevTypes
<1>5. q[d].avail \in Indices /\ q[d].used \in Indices /\ q[d].seen \in Indices
  BY <1>4 DEF QueueSet
<1>6. next \in Indices /\ next # q[d].avail
  BY <1>5, NextIndex
<1>7. FlowTypes' /\ pc'[f] = "wait" /\ (\A g \in Flows \ {f} : pc'[g] = pc[g]) /\ CallOk(f)'
  <2>1. "wait" \in Places
    BY DEF Places
  <2> QED BY <1>1, <1>2, <2>1, GotoFacts
<1>8. link.owner = f
  OBVIOUS
<1> HIDE DEF d, next, link
<1>9. /\ q' \in [Devices -> QueueSet] /\ q'[d].avail = next /\ q'[d].used = q[d].used
      /\ q'[d].seen = q[d].seen /\ \A e \in Devices \ {d} : q'[e] = q[e]
  <2>1. q' = [q EXCEPT ![d] = [q[d] EXCEPT !.avail = next]]
    BY <1>1
  <2>2. [q[d] EXCEPT !.avail = next] \in QueueSet
    BY <1>4, <1>6 DEF QueueSet
  <2>3. /\ q' \in [Devices -> QueueSet] /\ q'[d] = [q[d] EXCEPT !.avail = next]
        /\ \A e \in Devices \ {d} : q'[e] = q[e]
    BY <1>2, <1>3, <2>1, <2>2 DEF DevTypes
  <2> QED BY <1>4, <2>3 DEF QueueSet
<1>10. /\ chain' \in [Devices -> ChainSet] /\ chain'[d].owner = f
       /\ \A e \in Devices \ {d} : chain'[e] = chain[e]
  BY <1>1, <1>2, <1>3, <1>8 DEF DevTypes
<1>11. /\ st' \in [Flows -> {"unset", "OK", "IOERR"}] /\ last_used' \in [Flows -> Indices]
       /\ last_used'[f] = q[d].used
       /\ \A g \in Flows \ {f} : st'[g] = st[g] /\ last_used'[g] = last_used[g]
  BY <1>1, <1>2, <1>5 DEF WaitTypes
<1>12. Types'
  BY <1>1, <1>2, <1>7, <1>9, <1>10, <1>11 DEF Types, DevTypes, WaitTypes
<1>13. Others(f)
  BY <1>1, <1>7, <1>11 DEF Others
<1>14. CallInv'
  BY <1>2, <1>7, <1>13, CallFrame
<1>15. LockInv'
  BY <1>1, <1>2, <1>7, <1>13, LockFrame DEF Holding
<1>16. AloneInv'
  <2>1. AloneOk(f)'
    BY <1>1, <1>2, <1>7 DEF AloneOk, Dev, Handshaking
  <2> QED BY <1>1, <1>2, <1>13, <2>1, AloneFrame DEF AloneInv
<1>17. ASSUME NEW g \in Flows, Waits(g, d) PROVE FALSE
  <2>1. g = f
    BY <1>1, <1>17, HolderAlone DEF Waits, Holding, d
  <2> QED BY <1>1, <1>17, <2>1 DEF Waits
<1>18. Quiet(d)
  BY <1>2, <1>3, <1>17 DEF QueueInv, QueueOk
<1>19. ASSUME NEW e \in Devices PROVE QueueOk(e)'
  <2>1. CASE e # d
    BY <1>1, <1>2, <1>3, <1>7, <1>9, <1>10, <1>13, <2>1, QueueElsewhere DEF d, Dev
  <2>2. CASE e = d
    <3>1. ASSUME NEW g \in Flows PROVE Waits(g, e)' <=> g = f
      <4>1. CASE g = f
        BY <1>1, <1>7, <2>2, <4>1 DEF Waits, Dev, d
      <4>2. CASE g # f
        <5>1. pc'[g] = pc[g] /\ call'[g] = call[g] /\ ~ Waits(g, d)
          BY <1>1, <1>7, <1>17, <4>2
        <5> QED BY <2>2, <4>2, <5>1 DEF Waits, Dev
      <4> QED BY <4>1, <4>2
    <3>2. Stage(f, e)'
      <4>1. /\ q'[e].seen = last_used'[f] /\ q'[e].used = last_used'[f] /\ busy'[e] = FALSE
            /\ q'[e].avail = (last_used'[f] + 1) % IDX /\ chain'[e].owner = f
        BY <1>1, <1>9, <1>10, <1>11, <1>18, <2>2 DEF Quiet, next
      <4> QED BY <4>1 DEF Stage
    <3> QED BY <3>1, <3>2 DEF QueueOk
  <2> QED BY <2>1, <2>2
<1>20. QueueInv'
  BY <1>19 DEF QueueInv, Devices
<1> QED BY <1>12, <1>14, <1>15, <1>16, <1>20 DEF IInv

\* The device does not move the flows.
LEMMA DeviceFrame ==
  ASSUME CallInv, LockInv, AloneInv,
         UNCHANGED <<pc, call, done, out, back, holder, queues, phase, result>>
  PROVE  CallInv' /\ LockInv' /\ AloneInv'
<1>1. \A f \in Flows : Dev(f)' = Dev(f)
  BY DEF Dev
<1>2. ASSUME NEW f \in Flows PROVE CallOk(f)' /\ AloneOk(f)'
  <2>1. CallOk(f) /\ AloneOk(f)
    BY DEF CallInv, AloneInv
  <2> QED BY <1>1, <2>1 DEF CallOk, AloneOk
<1>3. CallInv'
  BY <1>2 DEF CallInv
<1>4. AloneInv'
  <2>1. (phase \in {"up", "seed"} \/ result = "Ok" => queues[Blk] = TRUE)'
    BY DEF AloneInv
  <2> QED BY <1>2, <2>1 DEF AloneInv
<1>5. LockInv'
  <2>1. ASSUME NEW d \in Devices, NEW f \in Flows
        PROVE  holder'[d] = f <=> pc'[f] \in Holding /\ Dev(f)' = d
    BY <1>1 DEF LockInv
  <2> QED BY <2>1 DEF LockInv, Devices
<1> QED BY <1>3, <1>4, <1>5

\* The device publishes.
LEMMA PublishStep ==
  ASSUME IInv, NEW d \in Devices, Publish(d), UNCHANGED phase
  PROVE  IInv'
<1> DEFINE next == (q[d].used + 1) % IDX
<1>1. /\ busy[d] /\ busy' = [busy EXCEPT ![d] = FALSE]
      /\ q' = [q EXCEPT ![d].used = next]
      /\ UNCHANGED <<pc, call, done, out, sector_buf, back, result, queues, chain, holder, st, last_used>>
  BY DEF Publish, flowVars
<1>2. Types /\ CallInv /\ LockInv /\ AloneInv /\ QueueInv /\ DevTypes /\ WaitTypes
  BY DEF IInv, Types
<1>3. q[d] \in QueueSet
  BY <1>2 DEF DevTypes
<1>4. next \in Indices
  BY <1>3, NextIndex DEF QueueSet
<1> HIDE DEF next
<1>5. /\ q' \in [Devices -> QueueSet] /\ q'[d].avail = q[d].avail /\ q'[d].used = next
      /\ q'[d].seen = q[d].seen /\ \A e \in Devices \ {d} : q'[e] = q[e]
  <2>1. q' = [q EXCEPT ![d] = [q[d] EXCEPT !.used = next]]
    BY <1>1
  <2>2. [q[d] EXCEPT !.used = next] \in QueueSet
    BY <1>3, <1>4 DEF QueueSet
  <2>3. /\ q' \in [Devices -> QueueSet] /\ q'[d] = [q[d] EXCEPT !.used = next]
        /\ \A e \in Devices \ {d} : q'[e] = q[e]
    BY <1>2, <2>1, <2>2 DEF DevTypes
  <2> QED BY <1>3, <2>3 DEF QueueSet
<1>6. busy' \in [Devices -> BOOLEAN] /\ busy'[d] = FALSE /\ \A e \in Devices \ {d} : busy'[e] = busy[e]
  BY <1>1, <1>2 DEF DevTypes
<1>7. Types'
  BY <1>1, <1>2, <1>5, <1>6 DEF Types, DevTypes, FlowTypes, WaitTypes
<1>8. CallInv' /\ LockInv' /\ AloneInv'
  BY <1>1, <1>2, DeviceFrame
<1>9. \A g \in Flows, e \in Devices : Waits(g, e)' <=> Waits(g, e)
  BY <1>1 DEF Waits, Dev
<1>10. ASSUME NEW e \in Devices PROVE QueueOk(e)'
  <2>1. QueueOk(e)
    BY <1>2 DEF QueueInv
  <2>2. Quiet(e) => e # d /\ Quiet(e)'
    BY <1>1, <1>5, <1>6 DEF Quiet
  <2>3. ASSUME NEW g \in Flows, Stage(g, e) PROVE Stage(g, e)'
    <3>1. CASE e # d
      BY <1>1, <1>5, <1>6, <2>3, <3>1 DEF Stage
    <3>2. CASE e = d
      <4>1. q[d].seen = q[d].avail /\ q[d].used = last_used[g]
        BY <1>1, <2>3, <3>2 DEF Stage
      <4>2. next = q[d].avail
        BY <2>3, <3>2, <4>1 DEF Stage, next
      <4> QED BY <1>1, <1>5, <1>6, <2>3, <3>2, <4>1, <4>2 DEF Stage
    <3> QED BY <3>1, <3>2
  <2> QED BY <1>9, <2>1, <2>2, <2>3 DEF QueueOk
<1>11. QueueInv'
  BY <1>10 DEF QueueInv, Devices
<1> QED BY <1>7, <1>8, <1>11 DEF IInv

\* What a call does with the answer to its request: it returns, goes on to the
\* next piece, or to the write of a sector that it has read.
LEMMA ConsumeCases ==
  ASSUME NEW f \in Flows, NEW elem, Consume(f, elem), call[f].op \in {"read", "write", "fill"}
  PROVE  \/ Finish(f, "Err") /\ (call[f].op = "fill" \/ st[f] # "OK")
         \/ /\ call[f].op = "fill"
            /\ \/ Rest(f) = Written(f, elem) /\ Finish(f, "Ok")
               \/ Rest(f) # Written(f, elem) /\ NextPiece(f, Written(f, elem), <<>>)
         \/ /\ call[f].op # "fill" /\ st[f] = "OK"
            /\ call[f].op = "read" \/ RequestType(f) = "out"
            /\ \/ Rest(f) = Count(f) /\ Finish(f, "Ok")
               \/ Rest(f) # Count(f) /\ call[f].op = "read" /\ NextPiece(f, Count(f), Bytes(f))
               \/ Rest(f) # Count(f) /\ call[f].op = "write" /\ NextPiece(f, Count(f), <<>>)
         \/ /\ call[f].op = "write" /\ st[f] = "OK" /\ RequestType(f) = "in" /\ ReadBack(f)
BY DEF Consume, Advance

\* After a piece that was not the last one there are bytes to do.
LEMMA NextPieceFacts ==
  ASSUME FlowTypes, NEW f \in Flows, CallOk(f), pc[f] # "idle", call[f].len \in Nat,
         NEW n \in Nat, n < Rest(f), NEW got, NextPiece(f, n, got)
  PROVE  /\ FlowTypes' /\ CallOk(f)' /\ pc'[f] = "check"
         /\ call' = call /\ done'[f] = done[f] + n /\ out'[f] = out[f] \o got
         /\ sector_buf'[f] = NoBytes /\ back'[f] = FALSE
         /\ \A g \in Flows \ {f} :
              /\ pc'[g] = pc[g] /\ done'[g] = done[g] /\ out'[g] = out[g]
              /\ sector_buf'[g] = sector_buf[g] /\ back'[g] = back[g]
<1>1. /\ pc' = [pc EXCEPT ![f] = "check"]
      /\ done' = [done EXCEPT ![f] = @ + n]
      /\ out' = [out EXCEPT ![f] = @ \o got]
      /\ sector_buf' = [sector_buf EXCEPT ![f] = NoBytes]
      /\ back' = [back EXCEPT ![f] = FALSE]
      /\ call' = call
  BY DEF NextPiece, Goto
<1>2. pc' \in [Flows -> Places] /\ pc'[f] = "check" /\ \A g \in Flows \ {f} : pc'[g] = pc[g]
  BY <1>1 DEF FlowTypes, Places
<1>3. /\ done' \in [Flows -> Nat] /\ done'[f] = done[f] + n
      /\ \A g \in Flows \ {f} : done'[g] = done[g]
  BY <1>1, SMT DEF FlowTypes
<1>4. DOMAIN out' = Flows /\ out'[f] = out[f] \o got /\ \A g \in Flows \ {f} : out'[g] = out[g]
  BY <1>1 DEF FlowTypes
<1>5. /\ DOMAIN sector_buf' = Flows /\ sector_buf'[f] = NoBytes
      /\ \A g \in Flows \ {f} : sector_buf'[g] = sector_buf[g]
  BY <1>1 DEF FlowTypes
<1>6. /\ back' \in [Flows -> BOOLEAN] /\ back'[f] = FALSE
      /\ \A g \in Flows \ {f} : back'[g] = back[g]
  BY <1>1 DEF FlowTypes
<1>7. DOMAIN NoBytes = 0 .. (SECTOR_SIZE - 1)
  BY DEF NoBytes
<1>8. FlowTypes'
  <2>1. \A g \in Flows : DOMAIN sector_buf'[g] = 0 .. (SECTOR_SIZE - 1)
    BY <1>5, <1>7 DEF FlowTypes
  <2> QED BY <1>1, <1>2, <1>3, <1>4, <1>5, <1>6, <2>1 DEF FlowTypes
<1>9. done'[f] < call[f].len
  BY <1>3, SMT DEF Rest, FlowTypes
<1>10. CallOk(f)'
  BY <1>1, <1>2, <1>9 DEF CallOk, Dev
<1> QED BY <1>1, <1>2, <1>3, <1>4, <1>5, <1>6, <1>8, <1>10

\* A sector that was read back keeps its length.
LEMMA ReadBackFacts ==
  ASSUME FlowTypes, NEW f \in Flows, CallOk(f), pc[f] # "idle", ReadBack(f)
  PROVE  /\ FlowTypes' /\ CallOk(f)' /\ pc'[f] = "check" /\ back'[f] = TRUE
         /\ UNCHANGED <<call, done, out>>
         /\ sector_buf'[f] = [i \in 0 .. (SECTOR_SIZE - 1) |->
              IF i \in Shift(f) .. (Shift(f) + Count(f) - 1) THEN call[f].val ELSE sector_buf[f][i]]
         /\ \A g \in Flows \ {f} :
              pc'[g] = pc[g] /\ sector_buf'[g] = sector_buf[g] /\ back'[g] = back[g]
<1> DEFINE buf == [i \in 0 .. (SECTOR_SIZE - 1) |->
              IF i \in Shift(f) .. (Shift(f) + Count(f) - 1) THEN call[f].val ELSE sector_buf[f][i]]
<1>1. /\ pc' = [pc EXCEPT ![f] = "check"]
      /\ sector_buf' = [sector_buf EXCEPT ![f] = buf]
      /\ back' = [back EXCEPT ![f] = TRUE]
      /\ UNCHANGED <<call, done, out>>
  <2>1. DOMAIN sector_buf[f] = 0 .. (SECTOR_SIZE - 1)
    BY DEF FlowTypes
  <2> QED BY <2>1 DEF ReadBack, Goto
<1>2. DOMAIN buf = 0 .. (SECTOR_SIZE - 1)
  OBVIOUS
<1> HIDE DEF buf
<1>3. pc' \in [Flows -> Places] /\ pc'[f] = "check" /\ \A g \in Flows \ {f} : pc'[g] = pc[g]
  BY <1>1 DEF FlowTypes, Places
<1>4. /\ DOMAIN sector_buf' = Flows /\ sector_buf'[f] = buf
      /\ \A g \in Flows \ {f} : sector_buf'[g] = sector_buf[g]
  BY <1>1 DEF FlowTypes
<1>5. /\ back' \in [Flows -> BOOLEAN] /\ back'[f] = TRUE
      /\ \A g \in Flows \ {f} : back'[g] = back[g]
  BY <1>1 DEF FlowTypes
<1>6. \A g \in Flows : DOMAIN sector_buf'[g] = 0 .. (SECTOR_SIZE - 1)
  BY <1>2, <1>4 DEF FlowTypes
<1>7. FlowTypes'
  BY <1>1, <1>3, <1>4, <1>5, <1>6 DEF FlowTypes
<1>8. CallOk(f)'
  BY <1>1, <1>3 DEF CallOk, Dev
<1> QED BY <1>1, <1>3, <1>4, <1>5, <1>7, <1>8 DEF buf

\* The length that the device returned is a number.
LEMMA UsedElem ==
  ASSUME DevTypes, NEW d \in Devices
  PROVE  q[d].ring[UsedSlot(d)].len \in Nat
<1>1. q[d] \in QueueSet
  BY DEF DevTypes
<1>2. \A x \in Int : (x % IDX) \in Int
  BY RingAssumption, SMT
<1>3. \A x \in Int : x % RING_SIZE \in 0 .. (RING_SIZE - 1)
  BY RingAssumption, SMT
<1>4. UsedSlot(d) \in 0 .. (RING_SIZE - 1)
  <2>1. (q[d].used - 1) \in Int
    BY <1>1, SMT DEF QueueSet, Indices
  <2> QED BY <1>2, <1>3, <2>1 DEF UsedSlot
<1> QED BY <1>1, <1>4 DEF QueueSet

\* What a flow holds after it has read the answer has its types.
LEMMA ConsumeFacts ==
  ASSUME IInv, NEW f \in Flows, pc[f] = "wait", NEW elem, elem.len \in Nat, Consume(f, elem)
  PROVE  /\ FlowTypes' /\ CallOk(f)' /\ pc'[f] \in {"idle", "check"}
         /\ pc'[f] = "check" => call'[f] = call[f]
         /\ result' = "Ok" => result = "Ok" \/ call[f].op # "fill"
         /\ \A g \in Flows \ {f} :
              /\ pc'[g] = pc[g] /\ call'[g] = call[g] /\ done'[g] = done[g] /\ out'[g] = out[g]
              /\ sector_buf'[g] = sector_buf[g] /\ back'[g] = back[g]
<1>1. FlowTypes /\ CallInv /\ CallOk(f)
  BY DEF IInv, Types, CallInv
<1>2. call[f].op \in {"read", "write", "fill"} /\ call[f].len \in Nat
  BY <1>1, CallFacts
<1>3. Rest(f) \in Nat \ {0} /\ Count(f) \in Nat \ {0} /\ Count(f) =< Rest(f)
  BY <1>1, PieceFacts
<1>4. CASE \E kind : Finish(f, kind)
  <2>1. PICK kind : Finish(f, kind)
    BY <1>4
  <2>2. result' = IF call[f].op = "fill" THEN result ELSE kind
    BY <2>1 DEF Finish
  <2>3. /\ FlowTypes' /\ CallOk(f)'
        /\ pc'[f] = "idle" /\ call'[f] = NoCall
        /\ \A g \in Flows \ {f} :
             /\ pc'[g] = pc[g] /\ call'[g] = call[g] /\ done'[g] = done[g] /\ out'[g] = out[g]
             /\ sector_buf'[g] = sector_buf[g] /\ back'[g] = back[g]
    BY <1>1, <2>1, FinishFacts
  <2> QED BY <2>2, <2>3
<1>5. CASE \E n \in Nat : \E got : n < Rest(f) /\ NextPiece(f, n, got)
  <2>0. PICK n \in Nat : \E got : n < Rest(f) /\ NextPiece(f, n, got)
    BY <1>5
  <2>1. PICK got : n < Rest(f) /\ NextPiece(f, n, got)
    BY <2>0
  <2>2. result' = result
    BY <2>1 DEF NextPiece
  <2>3. /\ FlowTypes' /\ CallOk(f)' /\ pc'[f] = "check" /\ call' = call
        /\ \A g \in Flows \ {f} :
              /\ pc'[g] = pc[g] /\ done'[g] = done[g] /\ out'[g] = out[g]
              /\ sector_buf'[g] = sector_buf[g] /\ back'[g] = back[g]
    BY <1>1, <1>2, <2>1, NextPieceFacts
  <2> QED BY <2>2, <2>3
<1>6. CASE ReadBack(f)
  <2>1. result' = result
    BY <1>6 DEF ReadBack
  <2>2. /\ FlowTypes' /\ CallOk(f)' /\ pc'[f] = "check"
        /\ UNCHANGED <<call, done, out>>
        /\ \A g \in Flows \ {f} :
              pc'[g] = pc[g] /\ sector_buf'[g] = sector_buf[g] /\ back'[g] = back[g]
    BY <1>1, <1>6, ReadBackFacts
  <2> QED BY <2>1, <2>2
<1>7. \/ \E kind : Finish(f, kind)
      \/ \E n \in Nat : \E got : n < Rest(f) /\ NextPiece(f, n, got)
      \/ ReadBack(f)
  <2>1. CASE Rest(f) # Written(f, elem) /\ NextPiece(f, Written(f, elem), <<>>)
    <3>1. Written(f, elem) \in Nat /\ Written(f, elem) < Rest(f)
      BY <1>3, <2>1 DEF Written
    <3> QED BY <2>1, <3>1
  <2>2. CASE \E got : Rest(f) # Count(f) /\ NextPiece(f, Count(f), got)
    BY <1>3, <2>2, SMT
  <2> QED BY <1>2, <2>1, <2>2, ConsumeCases
<1> QED BY <1>4, <1>5, <1>6, <1>7

\* wait_used returns, and the lock is released.
LEMMA WaitUsedStep ==
  ASSUME IInv, NEW f \in Flows, WaitUsed(f), UNCHANGED phase
  PROVE  IInv'
<1> DEFINE d == Dev(f)
<1>1. /\ pc[f] = "wait" /\ Answered(f) /\ holder' = [holder EXCEPT ![d] = NoFlow]
      /\ Consume(f, q[d].ring[UsedSlot(d)])
      /\ st' = [st EXCEPT ![f] = "unset"]
      /\ last_used' = [last_used EXCEPT ![f] = 0]
      /\ UNCHANGED <<queues, q, chain, busy>>
  BY DEF WaitUsed, devVars
<1>2. /\ Types /\ CallInv /\ LockInv /\ AloneInv /\ QueueInv /\ FlowTypes /\ DevTypes /\ WaitTypes
      /\ CallOk(f) /\ AloneOk(f)
  BY DEF IInv, Types, CallInv, AloneInv
<1>3. d \in Devices
  BY <1>1, <1>2, CallFacts
<1>4. q[d].ring[UsedSlot(d)].len \in Nat
  BY <1>2, <1>3, UsedElem
<1>5. /\ FlowTypes' /\ CallOk(f)' /\ pc'[f] \in {"idle", "check"}
      /\ pc'[f] = "check" => call'[f] = call[f]
      /\ result' = "Ok" => result = "Ok" \/ call[f].op # "fill"
      /\ \A g \in Flows \ {f} :
            /\ pc'[g] = pc[g] /\ call'[g] = call[g] /\ done'[g] = done[g] /\ out'[g] = out[g]
            /\ sector_buf'[g] = sector_buf[g] /\ back'[g] = back[g]
  BY <1>1, <1>4, ConsumeFacts
<1>6. /\ st' \in [Flows -> {"unset", "OK", "IOERR"}] /\ last_used' \in [Flows -> Indices]
      /\ \A g \in Flows \ {f} : st'[g] = st[g] /\ last_used'[g] = last_used[g]
  <2>1. 0 \in Indices
    BY RingAssumption, SMT DEF Indices
  <2> QED BY <1>1, <1>2, <2>1 DEF WaitTypes
<1>7. /\ holder' \in [Devices -> Flows \cup {NoFlow}] /\ holder'[d] = NoFlow
      /\ \A e \in Devices \ {d} : holder'[e] = holder[e]
  BY <1>1, <1>2, <1>3 DEF WaitTypes
<1>8. Types'
  BY <1>1, <1>2, <1>5, <1>6, <1>7 DEF Types, DevTypes, WaitTypes
<1>9. Others(f)
  BY <1>5, <1>6 DEF Others
<1>10. CallInv'
  BY <1>2, <1>5, <1>9, CallFrame
<1>11. LockInv'
  <2>1. ASSUME NEW e \in Devices, NEW g \in Flows
        PROVE  holder'[e] = g <=> pc'[g] \in Holding /\ Dev(g)' = e
    <3>1. holder[e] = g <=> pc[g] \in Holding /\ Dev(g) = e
      BY <1>2 DEF LockInv
    <3>2. CASE g = f
      <4>1. pc'[g] \notin Holding
        BY <1>5, <3>2 DEF Holding
      <4>2. holder'[e] # f
        BY <1>3, <1>7, <3>1, <3>2, FlowAssumption
      <4> QED BY <3>2, <4>1, <4>2
    <3>3. CASE g # f
      <4>1. pc'[g] = pc[g] /\ Dev(g)' = Dev(g)
        BY <1>5, <3>3 DEF Dev
      <4>2. e = d => holder[e] = f
        BY <1>1, <1>2, <1>3 DEF LockInv, Holding
      <4> QED BY <1>7, <3>1, <3>3, <4>1, <4>2, FlowAssumption
    <3> QED BY <3>2, <3>3
  <2> QED BY <2>1 DEF LockInv, Devices
<1>12. AloneInv'
  <2>1. AloneOk(f)'
    <3>1. Handshaking \cap {"idle", "check", "wait"} = {}
      BY DEF Handshaking
    <3> QED BY <1>1, <1>2, <1>5, <3>1 DEF AloneOk, Dev
  <2>2. result' = "Ok" => queues[Blk] = TRUE
    <3>1. CASE call[f].op # "fill"
      <4>1. d = Blk
        BY <1>1, <1>2, <1>3, <3>1 DEF CallOk, Devices
      <4> QED BY <1>1, <1>2, <4>1 DEF AloneOk
    <3> QED BY <1>2, <1>5, <3>1 DEF AloneInv
  <2> QED BY <1>1, <1>2, <1>9, <2>1, <2>2, AloneFrame
<1>13. Quiet(d)
  <2>1. Stage(f, d)
    BY <1>1, <1>2, <1>3 DEF QueueInv, QueueOk, Waits
  <2> QED BY <1>1, <2>1 DEF Stage, Quiet, Answered
<1>14. ASSUME NEW g \in Flows, NEW e \in Devices PROVE Waits(g, e)' <=> Waits(g, e) /\ g # f
  BY <1>5 DEF Waits, Dev
<1>15. ASSUME NEW g \in Flows, Waits(g, d) PROVE g = f
  BY <1>1, <1>15, HolderAlone DEF Waits, Holding
<1>16. ASSUME NEW e \in Devices PROVE QueueOk(e)'
  <2>1. CASE e # d
    BY <1>1, <1>2, <1>3, <1>5, <1>9, <2>1, QueueElsewhere DEF Waits
  <2>2. CASE e = d
    <3>1. Quiet(e)'
      BY <1>1, <1>13, <2>2 DEF Quiet
    <3>2. \A g \in Flows : ~ Waits(g, e)'
      BY <1>14, <1>15, <2>2
    <3> QED BY <3>1, <3>2 DEF QueueOk
  <2> QED BY <2>1, <2>2
<1>17. QueueInv'
  BY <1>16 DEF QueueInv, Devices
<1> QED BY <1>8, <1>10, <1>11, <1>12, <1>17 DEF IInv

-----------------------------------------------------------------------------
(* Steps of a device *)

\* Whose chain the device works on.
LEMMA OwnerWaits ==
  ASSUME IInv, NEW d \in Devices, q[d].seen # q[d].avail \/ busy[d] \/ q[d].used # q[d].avail
  PROVE  chain[d].owner \in Flows /\ Waits(chain[d].owner, d) /\ Stage(chain[d].owner, d)
<1>1. QueueOk(d)
  BY DEF IInv, QueueInv
<1>2. ~ Quiet(d)
  BY DEF Quiet
<1>3. PICK f \in Flows : Waits(f, d)
  BY <1>1, <1>2 DEF QueueOk
<1>4. Stage(f, d)
  BY <1>1, <1>3 DEF QueueOk
<1>5. chain[d].owner = f
  BY <1>4 DEF Stage
<1> QED BY <1>3, <1>4, <1>5

\* What the used element and the index of the device become.
LEMMA ElemFacts ==
  ASSUME DevTypes, NEW d \in Devices, NEW n \in Nat,
         q' = [q EXCEPT ![d] = [q[d] EXCEPT !.seen = (@ + 1) % IDX,
                                  !.ring[q[d].used % RING_SIZE] = [id |-> 0, len |-> n]]]
  PROVE  /\ q' \in [Devices -> QueueSet]
         /\ q'[d].avail = q[d].avail /\ q'[d].used = q[d].used
         /\ q'[d].seen = (q[d].seen + 1) % IDX
         /\ \A e \in Devices \ {d} : q'[e] = q[e]
<1> DEFINE new == [q[d] EXCEPT !.seen = (@ + 1) % IDX,
                               !.ring[q[d].used % RING_SIZE] = [id |-> 0, len |-> n]]
<1>1. q[d] \in QueueSet
  BY DEF DevTypes
<1>2. (q[d].seen + 1) % IDX \in Indices
  BY <1>1, NextIndex DEF QueueSet
<1>3. [id |-> 0, len |-> n] \in [id : {0}, len : Nat]
  OBVIOUS
<1>4. new \in QueueSet
  BY <1>1, <1>2, <1>3 DEF QueueSet
<1>5. new.avail = q[d].avail /\ new.used = q[d].used /\ new.seen = (q[d].seen + 1) % IDX
  BY <1>1 DEF QueueSet
<1> HIDE DEF new
<1>6. q' = [q EXCEPT ![d] = new]
  BY DEF new
<1>7. /\ q' \in [Devices -> QueueSet] /\ q'[d] = new
      /\ \A e \in Devices \ {d} : q'[e] = q[e]
  BY <1>4, <1>6 DEF DevTypes
<1> QED BY <1>5, <1>7

\* What one step of the device does to the flow whose chain it is.
LEMMA ProcessFacts ==
  ASSUME IInv, NEW d \in Devices, Process(d)
  PROVE  LET f == chain[d].owner IN
         /\ f \in Flows /\ Waits(f, d) /\ Stage(f, d)
         /\ busy[d] = FALSE /\ q[d].seen # q[d].avail
         /\ q[d].seen = last_used[f] /\ q[d].used = last_used[f]
         /\ q'[d].seen = q[d].avail /\ q'[d].avail = q[d].avail /\ q'[d].used = q[d].used
         /\ \A e \in Devices \ {d} : q'[e] = q[e] /\ busy'[e] = busy[e]
         /\ q' \in [Devices -> QueueSet] /\ busy' \in [Devices -> BOOLEAN] /\ busy'[d] = TRUE
         /\ \A g \in Flows \ {f} : st'[g] = st[g] /\ sector_buf'[g] = sector_buf[g]
         /\ st' \in [Flows -> {"unset", "OK", "IOERR"}] /\ DOMAIN sector_buf' = Flows
         /\ \A g \in Flows : DOMAIN sector_buf'[g] = 0 .. (SECTOR_SIZE - 1)
<1> DEFINE f == chain[d].owner
           Elem(n) == [q[d] EXCEPT !.seen = (@ + 1) % IDX,
                              !.ring[q[d].used % RING_SIZE] = [id |-> 0, len |-> n]]
<1>1. ~ busy[d] /\ q[d].seen # q[d].avail /\ busy' = [busy EXCEPT ![d] = TRUE]
  BY DEF Process
<1>2. DevTypes /\ FlowTypes /\ WaitTypes /\ CallInv
  BY DEF IInv, Types
<1>3. f \in Flows /\ Waits(f, d) /\ Stage(f, d)
  BY <1>1, OwnerWaits
<1>4. \E n \in Nat : q' = [q EXCEPT ![d] = Elem(n)]
  <2>1. 0 \in Nat /\ 0 .. Rest(f) \subseteq Nat
    BY SMT
  <2> QED BY <2>1 DEF Process
<1>5. /\ \/ st' = st \/ st' = [st EXCEPT ![f] = "OK"] \/ st' = [st EXCEPT ![f] = "IOERR"]
      /\ \/ sector_buf' = sector_buf
         \/ sector_buf' = [sector_buf EXCEPT ![f] = SectorBytes(chain[d].sector)]
  BY DEF Process
<1>6. DOMAIN SectorBytes(chain[d].sector) = 0 .. (SECTOR_SIZE - 1)
  BY DEF SectorBytes
<1>7. /\ \A g \in Flows \ {f} : st'[g] = st[g] /\ sector_buf'[g] = sector_buf[g]
      /\ st' \in [Flows -> {"unset", "OK", "IOERR"}] /\ DOMAIN sector_buf' = Flows
      /\ \A g \in Flows : DOMAIN sector_buf'[g] = 0 .. (SECTOR_SIZE - 1)
  <2> HIDE DEF f
  <2>1. st' \in [Flows -> {"unset", "OK", "IOERR"}] /\ \A g \in Flows \ {f} : st'[g] = st[g]
    BY <1>2, <1>5 DEF WaitTypes
  <2>2. DOMAIN sector_buf' = Flows
    BY <1>2, <1>5 DEF FlowTypes
  <2>3. \A g \in Flows \ {f} : sector_buf'[g] = sector_buf[g]
    BY <1>2, <1>5 DEF FlowTypes
  <2>4. DOMAIN sector_buf'[f] = 0 .. (SECTOR_SIZE - 1)
    BY <1>2, <1>3, <1>5, <1>6 DEF FlowTypes
  <2> QED BY <1>2, <2>1, <2>2, <2>3, <2>4 DEF FlowTypes
<1>8. PICK n \in Nat : q' = [q EXCEPT ![d] = Elem(n)]
  BY <1>4
<1>9. /\ q' \in [Devices -> QueueSet]
      /\ q'[d].avail = q[d].avail /\ q'[d].used = q[d].used
      /\ q'[d].seen = (q[d].seen + 1) % IDX
      /\ \A e \in Devices \ {d} : q'[e] = q[e]
  BY <1>2, <1>8, ElemFacts
<1>10. q[d].seen = last_used[f] /\ q[d].used = last_used[f] /\ q[d].avail = (last_used[f] + 1) % IDX
  BY <1>1, <1>3 DEF Stage
<1>11. /\ busy' \in [Devices -> BOOLEAN] /\ busy'[d] = TRUE /\ busy[d] = FALSE
       /\ \A e \in Devices \ {d} : busy'[e] = busy[e]
  BY <1>1, <1>2 DEF DevTypes
<1> HIDE DEF f
<1>12. q'[d].seen = q[d].avail
  BY <1>9, <1>10
<1> QED BY <1>1, <1>3, <1>7, <1>9, <1>10, <1>11, <1>12 DEF f

\* The device works on a chain.
LEMMA ProcessStep ==
  ASSUME IInv, NEW d \in Devices, Process(d), UNCHANGED phase
  PROVE  IInv'
<1> DEFINE f == chain[d].owner
<1>1. UNCHANGED <<queues, chain, holder, pc, call, done, out, back, last_used, result>>
  BY DEF Process
<1>2. Types /\ CallInv /\ LockInv /\ AloneInv /\ QueueInv
  BY DEF IInv
<1>3. /\ f \in Flows /\ Waits(f, d) /\ Stage(f, d)
      /\ q[d].seen # q[d].avail /\ q[d].used = last_used[f]
      /\ q'[d].seen = q[d].avail /\ q'[d].avail = q[d].avail /\ q'[d].used = q[d].used
      /\ \A e \in Devices \ {d} : q'[e] = q[e] /\ busy'[e] = busy[e]
      /\ q' \in [Devices -> QueueSet] /\ busy' \in [Devices -> BOOLEAN] /\ busy'[d] = TRUE
      /\ st' \in [Flows -> {"unset", "OK", "IOERR"}] /\ DOMAIN sector_buf' = Flows
      /\ \A g \in Flows : DOMAIN sector_buf'[g] = 0 .. (SECTOR_SIZE - 1)
  BY ProcessFacts
<1> HIDE DEF f
<1>4. Types'
  BY <1>1, <1>2, <1>3 DEF Types, DevTypes, FlowTypes, WaitTypes
<1>5. CallInv' /\ LockInv' /\ AloneInv'
  BY <1>1, <1>2, DeviceFrame
<1>6. \A g \in Flows, e \in Devices : Waits(g, e)' <=> Waits(g, e)
  BY <1>1 DEF Waits, Dev
<1>7. ASSUME NEW e \in Devices PROVE QueueOk(e)'
  <2>1. QueueOk(e)
    BY <1>2 DEF QueueInv
  <2>2. Quiet(e) => e # d /\ Quiet(e)'
    BY <1>1, <1>3 DEF Quiet
  <2>3. ASSUME NEW g \in Flows, Stage(g, e) PROVE Stage(g, e)'
    <3>1. CASE e # d
      BY <1>1, <1>3, <2>3, <3>1 DEF Stage
    <3>2. CASE e = d
      <4>1. g = f
        BY <2>3, <3>2 DEF Stage, f
      <4> QED BY <1>1, <1>3, <2>3, <3>2, <4>1 DEF Stage
    <3> QED BY <3>1, <3>2
  <2> QED BY <1>6, <2>1, <2>2, <2>3 DEF QueueOk
<1>8. QueueInv'
  BY <1>7 DEF QueueInv, Devices
<1> QED BY <1>4, <1>5, <1>8 DEF IInv

-----------------------------------------------------------------------------
(* The control *)

\* Steps of the manager leave the drivers alone; main goes on with no other
\* flow under way.
LEMMA StillStep ==
  ASSUME IInv, UNCHANGED vars,
         phase' # phase => \A f \in Flows \ {BootFlow} : pc[f] = "idle",
         phase' \in {"up", "seed"} => queues[Blk] = TRUE
  PROVE  IInv'
<1>1. UNCHANGED <<queues, q, chain, busy, pc, call, done, out, sector_buf, back, result, holder,
                  st, last_used>>
  BY DEF vars, devVars, flowVars
<1>2. Types /\ CallInv /\ LockInv /\ AloneInv /\ QueueInv
  BY DEF IInv
<1>3. Types'
  BY <1>1, <1>2 DEF Types, DevTypes, FlowTypes, WaitTypes
<1>4. \A f \in Flows : Dev(f)' = Dev(f)
  BY <1>1 DEF Dev
<1>5. ASSUME NEW f \in Flows PROVE CallOk(f)' /\ AloneOk(f)'
  <2>1. CallOk(f) /\ AloneOk(f)
    BY <1>2 DEF CallInv, AloneInv
  <2>2. CallOk(f)'
    BY <1>1, <1>4, <2>1 DEF CallOk
  <2>3. AloneOk(f)'
    BY <1>1, <1>4, <2>1 DEF AloneOk
  <2> QED BY <2>2, <2>3
<1>6. CallInv'
  BY <1>5 DEF CallInv
<1>7. AloneInv'
  <2>1. (phase \in {"up", "seed"} \/ result = "Ok" => queues[Blk] = TRUE)'
    BY <1>1, <1>2 DEF AloneInv
  <2> QED BY <1>5, <2>1 DEF AloneInv
<1>8. LockInv'
  <2>1. ASSUME NEW d \in Devices, NEW f \in Flows
        PROVE  holder'[d] = f <=> pc'[f] \in Holding /\ Dev(f)' = d
    BY <1>1, <1>2, <1>4 DEF LockInv
  <2> QED BY <2>1 DEF LockInv, Devices
<1>9. QueueInv'
  <2>1. ASSUME NEW d \in Devices PROVE QueueOk(d)'
    <3>1. QueueOk(d)
      BY <1>2 DEF QueueInv
    <3>2. ASSUME NEW f \in Flows
          PROVE  (Waits(f, d)' <=> Waits(f, d)) /\ (Stage(f, d) => Stage(f, d)')
      BY <1>1, <1>4 DEF Waits, Stage
    <3>3. Quiet(d) => Quiet(d)'
      BY <1>1 DEF Quiet
    <3> QED BY <3>1, <3>2, <3>3 DEF QueueOk
  <2> QED BY <2>1 DEF QueueInv, Devices
<1> QED BY <1>3, <1>6, <1>7, <1>8, <1>9 DEF IInv

\* Every step of a flow.
LEMMA ContinueStep ==
  ASSUME IInv, NEW f \in Flows, Continue(f), UNCHANGED phase
  PROVE  IInv'
<1>1. CASE Spin(f)
  <2>1. phase' \in {"up", "seed"} => queues[Blk] = TRUE
    BY DEF IInv, AloneInv
  <2>2. UNCHANGED vars
    BY <1>1 DEF Spin
  <2> QED BY <2>1, <2>2, StillStep
<1> QED BY <1>1, ApproachStep, HandshakeStep, StoreStep, LockStep, SubmitStep, WaitUsedStep
        DEF Continue

\* A call that is made has bytes to do, on the device that it names.
LEMMA AtStep ==
  ASSUME IInv, NEW f \in Flows, NEW did, NEW c \in CallSet, At(f, did, c), c.len > 0,
         c.op # "fill", c.dev = Blk, f # BootFlow => phase = "up", UNCHANGED phase
  PROVE  IInv'
<1>1. phase' \in {"up", "seed"} => queues[Blk] = TRUE
  BY DEF IInv, AloneInv
<1>2. CASE Refused(f)
  BY <1>1, <1>2, StillStep DEF Refused
<1>3. CASE Begin(f, c)
  <2>1. c.op = "fill" <=> c.dev = Rng
    BY DeviceAssumption
  <2> QED BY <1>3, <2>1, BeginStep
<1> QED BY <1>2, <1>3 DEF At

\* The calls that the ways to a device make.
LEMMA CallTypes ==
  /\ Call("read", Blk, "fs", 0, 1, 0) \in CallSet /\ Call("fill", Rng, "rng", 0, 2, 0) \in CallSet
  /\ \A c \in FsCalls :
       LET r == Call(c[1], Blk, "fs", c[2], c[3], ValueOf(c[1]))
       IN  r \in CallSet /\ r.len > 0 /\ r.op \in {"read", "write"} /\ r.dev = Blk
  /\ \A t \in VdaReads :
       LET r == Call("read", Blk, "vda", t[1], t[2], 0)
       IN  r \in CallSet /\ r.len > 0 /\ r.op = "read" /\ r.dev = Blk
<1>1. Blk \in Devices /\ Rng \in Devices
  BY DEF Devices
<1>2. ASSUME NEW c \in FsCalls
      PROVE  LET r == Call(c[1], Blk, "fs", c[2], c[3], ValueOf(c[1]))
             IN  r \in CallSet /\ r.len > 0 /\ r.op \in {"read", "write"} /\ r.dev = Blk
  <2>1. c[1] \in {"read", "write"} /\ c[2] \in Nat /\ c[3] \in Nat \ {0}
    BY CallsAssumption
  <2> QED BY <1>1, <2>1, SMT DEF Call, CallSet, ValueOf
<1>3. ASSUME NEW t \in VdaReads
      PROVE  LET r == Call("read", Blk, "vda", t[1], t[2], 0)
             IN  r \in CallSet /\ r.len > 0 /\ r.op = "read" /\ r.dev = Blk
  <2>1. t[1] \in Nat /\ t[2] \in Nat \ {0}
    BY CallsAssumption
  <2> QED BY <1>1, <2>1, SMT DEF Call, CallSet
<1> QED BY <1>1, <1>2, <1>3 DEF Call, CallSet

\* Nothing is under way while main boots, but for main itself.
LEMMA BootAlone ==
  ASSUME IInv, phase # "up", NEW f \in Flows \ {BootFlow}
  PROVE  pc[f] = "idle"
BY DEF IInv, AloneInv, AloneOk

\* The invariant of the drivers' control is inductive: calls, locks, the
\* initialisation of devices and the queues, for every step of every flow, of
\* the devices and of the manager.
THEOREM Inductive == Spec => []IInv
<1>1. Init => IInv
  <2> SUFFICES ASSUME Init PROVE IInv
    OBVIOUS
  <2>1. /\ queues = [d \in Devices |-> FALSE] /\ holder = [d \in Devices |-> NoFlow]
        /\ q = [d \in Devices |-> FreshQueue] /\ chain = [d \in Devices |-> NoChain]
        /\ busy = [d \in Devices |-> FALSE] /\ pc = [f \in Flows |-> "idle"]
        /\ call = [f \in Flows |-> NoCall] /\ done = [f \in Flows |-> 0]
        /\ out = [f \in Flows |-> <<>>] /\ sector_buf = [f \in Flows |-> NoBytes]
        /\ back = [f \in Flows |-> FALSE] /\ st = [f \in Flows |-> "unset"]
        /\ last_used = [f \in Flows |-> 0] /\ result = "none" /\ phase = "probe"
    BY DEF Init, VirtioInit
  <2>2. FreshQueue \in QueueSet /\ NoChain \in ChainSet /\ 0 \in Indices
    <3>1. 0 \in Indices
      BY RingAssumption, SMT DEF Indices
    <3> QED BY <3>1 DEF FreshQueue, QueueSet, NoChain, ChainSet
  <2>3. DOMAIN NoBytes = 0 .. (SECTOR_SIZE - 1)
    BY DEF NoBytes
  <2>4. Types
    BY <2>1, <2>2, <2>3 DEF Types, DevTypes, FlowTypes, WaitTypes, Places
  <2>5. CallInv
    BY <2>1 DEF CallInv, CallOk
  <2>6. LockInv
    BY <2>1, FlowAssumption DEF LockInv, Holding
  <2>7. AloneInv
    BY <2>1 DEF AloneInv, AloneOk, Handshaking
  <2>8. QueueInv
    <3>1. ASSUME NEW d \in Devices PROVE QueueOk(d)
      <4>1. \A f \in Flows : ~ Waits(f, d)
        BY <2>1 DEF Waits
      <4>2. Quiet(d)
        BY <2>1 DEF Quiet, FreshQueue
      <4> QED BY <4>1, <4>2 DEF QueueOk
    <3> QED BY <3>1 DEF QueueInv
  <2> QED BY <2>4, <2>5, <2>6, <2>7, <2>8 DEF IInv
<1>2. IInv /\ [Next]_allVars => IInv'
  <2> SUFFICES ASSUME IInv, [Next]_allVars PROVE IInv'
    OBVIOUS
  <2>1. phase \in {"up", "seed"} \/ result = "Ok" => queues[Blk] = TRUE
    BY DEF IInv, AloneInv
  <2>2. CASE UNCHANGED allVars
    BY <2>1, <2>2, StillStep DEF allVars, manVars
  <2>3. CASE Probe
    <3>1. phase = "probe" /\ phase' \in {"mount", "probe"} /\ UNCHANGED vars
      BY <2>3 DEF Probe
    <3> QED BY <2>1, <3>1, BootAlone, StillStep
  <2>4. CASE FsInit
    <3>1. PICK did : At(BootFlow, did, Call("read", Blk, "fs", 0, 1, 0))
      BY <2>4 DEF FsInit
    <3>2. UNCHANGED phase
      BY <2>4 DEF FsInit
    <3>3. LET c == Call("read", Blk, "fs", 0, 1, 0)
          IN  c \in CallSet /\ c.len > 0 /\ c.op # "fill" /\ c.dev = Blk
      BY CallTypes, SMT DEF Call
    <3> QED BY <3>1, <3>2, <3>3, AtStep, BootAssumption
  <2>5. CASE Mounted
    <3>1. phase = "mount" /\ UNCHANGED vars /\ (phase' = "up" => result = "Ok") /\ phase' \in {"up", "halt"}
      BY <2>5 DEF Mounted
    <3> QED BY <2>1, <3>1, BootAlone, StillStep
  <2>6. CASE Halted
    BY <2>1, <2>6, StillStep DEF Halted, allVars, manVars
  <2>7. CASE RegisterLate
    BY <2>1, <2>7, StillStep DEF RegisterLate
  <2>8. CASE fill_entropy
    <3>1. CASE UNCHANGED vars /\ UNCHANGED phase
      BY <2>1, <3>1, StillStep
    <3>2. CASE Begin(BootFlow, Call("fill", Rng, "rng", 0, 2, 0)) /\ phase' = "seed"
      <4>1. LET c == Call("fill", Rng, "rng", 0, 2, 0)
            IN  c \in CallSet /\ c.len > 0 /\ c.op = "fill" /\ c.dev = Rng
        BY CallTypes, SMT DEF Call
      <4>2. NoCalls /\ phase \in {"up", "seed"}
        BY <2>8 DEF fill_entropy
      <4> QED BY <3>2, <4>1, <4>2, BeginStep, BootAssumption
    <3> QED BY <2>8, <3>1, <3>2 DEF fill_entropy, Refused
  <2>9. CASE \E did \in DOMAIN by_id : remove(did)
    BY <2>1, <2>9, StillStep DEF remove
  <2>10. ASSUME NEW f \in Flows, FsCall(f) PROVE IInv'
    <3>1. phase = "up" /\ UNCHANGED phase
      BY <2>10 DEF FsCall, manVars
    <3>2. PICK c \in FsCalls : At(f, handle, Call(c[1], Blk, "fs", c[2], c[3], ValueOf(c[1])))
      BY <2>10 DEF FsCall
    <3>3. LET r == Call(c[1], Blk, "fs", c[2], c[3], ValueOf(c[1]))
          IN  r \in CallSet /\ r.len > 0 /\ r.op # "fill" /\ r.dev = Blk
      BY CallTypes
    <3> QED BY <3>1, <3>2, <3>3, AtStep
  <2>11. ASSUME NEW f \in Flows, VdaRead(f) PROVE IInv'
    <3>1. phase = "up" /\ UNCHANGED phase
      BY <2>11 DEF VdaRead, manVars
    <3>2. CASE Refused(f)
      BY <2>1, <3>1, <3>2, StillStep DEF Refused
    <3>3. CASE \E did \in FirstOf("block"), t \in VdaReads :
                 At(f, did, Call("read", Blk, "vda", t[1], t[2], 0))
      <4>1. PICK did \in FirstOf("block"), t \in VdaReads :
                 At(f, did, Call("read", Blk, "vda", t[1], t[2], 0))
        BY <3>3
      <4>2. LET r == Call("read", Blk, "vda", t[1], t[2], 0)
            IN  r \in CallSet /\ r.len > 0 /\ r.op # "fill" /\ r.dev = Blk
        BY CallTypes
      <4> QED BY <3>1, <4>1, <4>2, AtStep
    <3> QED BY <2>11, <3>2, <3>3 DEF VdaRead
  <2>12. ASSUME NEW f \in Flows, Continue(f), UNCHANGED manVars PROVE IInv'
    BY <2>12, ContinueStep DEF manVars
  <2>13. ASSUME NEW d \in {Blk, Rng}, Device(d), UNCHANGED manVars PROVE IInv'
    BY <2>13, ProcessStep, PublishStep DEF manVars, Device, Devices
  <2> QED BY <2>2, <2>3, <2>4, <2>5, <2>6, <2>7, <2>8, <2>9, <2>10, <2>11, <2>12, <2>13
          DEF Next
<1> QED BY <1>1, <1>2, PTL DEF Spec

\* DmaOwned: a device only ever works on the chain of the flow that holds the lock of
\* the queue and waits in wait_used.
THEOREM DmaOwnedTheorem == Spec => []DmaOwned
<1>1. IInv => DmaOwned
  <2> SUFFICES ASSUME IInv, NEW d \in Devices,
                      q[d].seen # q[d].avail \/ busy[d] \/ q[d].used # q[d].avail
               PROVE  LET f == chain[d].owner
                      IN  f \in Flows /\ holder[d] = f /\ pc[f] = "wait" /\ Dev(f) = d
    BY DEF DmaOwned, Devices
  <2>1. chain[d].owner \in Flows /\ Waits(chain[d].owner, d)
    BY OwnerWaits
  <2> QED BY <2>1 DEF IInv, LockInv, Waits, Holding
<1> QED BY <1>1, Inductive, PTL

\* register gives a number that no device had before.
LEMMA RegisterFresh ==
  ASSUME HandleInv, NEW d, register(d), UNCHANGED handle
  PROVE  HandleInv'
<1>1. PICK major \in 0 .. (DidEnd - 1) :
        /\ Ids!Reservable(major)
        /\ blocks' = blocks \cup {major}
        /\ by_id' = [e \in DOMAIN by_id \cup {major} |-> IF e = major THEN d ELSE by_id[e]]
  BY DEF register, Ids!Lowest
<1>2. major \notin blocks
  <2>1. major \in Ids!BlockIds(major)
    BY DidAssumption, SMT DEF Ids!BlockIds
  <2> QED BY <1>1, <2>1 DEF Ids!Reservable, Ids!Loose
<1>3. handle # major
  BY <1>1, <1>2, DidAssumption, SMT DEF HandleInv, NoDid
<1>4. DOMAIN by_id' = DOMAIN by_id \cup {major}
  BY <1>1
<1>5. HandleStable'
  BY <1>1, <1>3, <1>4 DEF HandleInv, HandleStable
<1>6. (handle = NoDid \/ handle \in blocks)'
  BY <1>1 DEF HandleInv, NoDid
<1>7. (DOMAIN by_id \subseteq blocks \cap (0 .. (DidEnd - 1)))'
  BY <1>1, <1>4 DEF HandleInv
<1> QED BY <1>5, <1>6, <1>7 DEF HandleInv

\* HandleStable: the file system's handle leads to the device that it was mounted from, or
\* to none, for every sequence of registrations and removals.
THEOREM HandleStableTheorem == Spec => []HandleStable
<1>1. Init => HandleInv
  BY DidAssumption DEF Init, HandleInv, HandleStable, NoDid
<1>2. HandleInv /\ [Next]_allVars => HandleInv'
  <2> SUFFICES ASSUME HandleInv, [Next]_allVars PROVE HandleInv'
    OBVIOUS
  <2>1. CASE UNCHANGED <<by_id, blocks, handle>>
    BY <2>1 DEF HandleInv, HandleStable, NoDid
  <2>2. CASE Probe
    BY <2>2, RegisterFresh DEF Probe
  <2>3. CASE FsInit
    <3>1. PICK did \in FirstOf("block") : handle' = did
      BY <2>3 DEF FsInit
    <3>2. UNCHANGED <<by_id, blocks>>
      BY <2>3 DEF FsInit
    <3>3. did \in DOMAIN by_id /\ by_id[did] = Blk
      BY <3>1 DEF FirstOf, KindOf
    <3> QED BY <3>1, <3>2, <3>3 DEF HandleInv, HandleStable
  <2>4. CASE RegisterLate
    BY <2>4, RegisterFresh DEF RegisterLate
  <2>5. ASSUME NEW did \in DOMAIN by_id, remove(did) PROVE HandleInv'
    <3>1. by_id' = [e \in DOMAIN by_id \ {did} |-> by_id[e]] /\ UNCHANGED <<blocks, handle>>
      BY <2>5 DEF remove
    <3> QED BY <3>1 DEF HandleInv, HandleStable, NoDid
  <2>6. CASE Mounted \/ Halted \/ fill_entropy
    BY <2>1, <2>6 DEF Mounted, Halted, fill_entropy, allVars, manVars
  <2>7. CASE UNCHANGED manVars
    BY <2>1, <2>7 DEF manVars
  <2>8. CASE \E f \in Flows : FsCall(f) \/ VdaRead(f)
    BY <2>7, <2>8 DEF FsCall, VdaRead
  <2> QED BY <2>2, <2>3, <2>4, <2>5, <2>6, <2>7, <2>8 DEF Next, allVars
<1>3. HandleInv => HandleStable
  BY DEF HandleInv
<1> QED BY <1>1, <1>2, <1>3, PTL DEF Spec

-----------------------------------------------------------------------------
(* The data *)

\* f is in a write.
Writes(f) == pc[f] # "idle" /\ call[f].op = "write"

\* One call at a time writes: it has the file system's lock.
WriterInv ==
  /\ \A f \in Flows : Writes(f) => call[f].via = "fs"
  /\ \A f, g \in Flows : Writes(f) /\ Writes(g) => f = g

\* What f has read of a sector is still on the disk, but for the bytes that it
\* is about to write.
Same(f) ==
  \A i \in 0 .. (SECTOR_SIZE - 1) :
    Sector(f) * SECTOR_SIZE + i \in DOMAIN disk =>
      sector_buf[f][i] = IF back[f] = TRUE /\ i \in Shift(f) .. (Shift(f) + Count(f) - 1)
                         THEN call[f].val ELSE disk[Sector(f) * SECTOR_SIZE + i]

\* The device has worked on the request of f.
Worked(f) == busy[Dev(f)] = TRUE \/ q[Dev(f)].used # last_used[f]

\* The request that is published is the one that comes next.
ChainOk(f) ==
  pc[f] = "wait" => chain[Dev(f)].type = RequestType(f) /\ chain[Dev(f)].sector = Sector(f)

\* A sector that was read back is of a write of part of it.
BackOk(f) ==
  pc[f] # "idle" /\ back[f] = TRUE => call[f].op = "write" /\ Same(f) /\ ~ WholeSector(f)

\* So is the one that the device has just read for such a write.
ReadOk(f) ==
  pc[f] = "wait" /\ call[f].op = "write" /\ RequestType(f) = "in" /\ st[f] = "OK" /\ Worked(f)
    => Same(f)

DataOk(f) == ChainOk(f) /\ BackOk(f) /\ ReadOk(f)

\* What the flows know about the data.
DataInv == WriterInv /\ \A f \in Flows : DataOk(f)

\* The piece that a call works on is given by the call, what is done of it and
\* whether the sector was read.
LEMMA PieceSame ==
  ASSUME NEW f \in Flows, call'[f] = call[f], done'[f] = done[f]
  PROVE  /\ Dev(f)' = Dev(f) /\ Pos(f)' = Pos(f) /\ Sector(f)' = Sector(f) /\ Shift(f)' = Shift(f)
         /\ Rest(f)' = Rest(f) /\ Count(f)' = Count(f) /\ (WholeSector(f)' <=> WholeSector(f))
         /\ back'[f] = back[f] => RequestType(f)' = RequestType(f)
<1>1. Pos(f)' = Pos(f) /\ Rest(f)' = Rest(f) /\ Dev(f)' = Dev(f)
  BY DEF Pos, Rest, Dev
<1>2. Sector(f)' = Sector(f) /\ Shift(f)' = Shift(f)
  BY <1>1 DEF Sector, Shift
<1>3. Count(f)' = Count(f)
  BY <1>1, <1>2 DEF Count
<1>4. WholeSector(f)' <=> WholeSector(f)
  BY <1>2, <1>3 DEF WholeSector
<1>5. ASSUME back'[f] = back[f] PROVE RequestType(f)' = RequestType(f)
  BY <1>4, <1>5 DEF RequestType
<1> QED BY <1>1, <1>2, <1>3, <1>4, <1>5

\* A flow that does not move has still read what is on the disk.
LEMMA SameSame ==
  ASSUME NEW f \in Flows, call'[f] = call[f], done'[f] = done[f], back'[f] = back[f],
         sector_buf'[f] = sector_buf[f], disk' = disk, Same(f)
  PROVE  Same(f)'
<1>1. Sector(f)' = Sector(f) /\ Shift(f)' = Shift(f) /\ Count(f)' = Count(f)
  BY PieceSame
<1> QED BY <1>1 DEF Same

\* A flow that does not move keeps what it knows of its data.
LEMMA DataFrame ==
  ASSUME NEW g \in Flows, DataOk(g),
         pc'[g] = pc[g], call'[g] = call[g], done'[g] = done[g], back'[g] = back[g],
         sector_buf'[g] = sector_buf[g], st'[g] = st[g], last_used'[g] = last_used[g],
         disk' = disk \/ ~ Writes(g),
         pc[g] = "wait" => chain'[Dev(g)] = chain[Dev(g)] /\ (Worked(g)' => Worked(g))
  PROVE  DataOk(g)'
<1>1. /\ Dev(g)' = Dev(g) /\ Sector(g)' = Sector(g) /\ (WholeSector(g)' <=> WholeSector(g))
      /\ RequestType(g)' = RequestType(g)
  BY PieceSame
<1>2. ChainOk(g) /\ BackOk(g) /\ ReadOk(g)
  BY DEF DataOk
<1>3. ChainOk(g)'
  BY <1>1, <1>2 DEF ChainOk
<1>4. disk' = disk /\ Same(g) => Same(g)'
  BY SameSame
<1>5. BackOk(g)'
  BY <1>1, <1>2, <1>4 DEF BackOk, Writes
<1>6. ReadOk(g)'
  BY <1>1, <1>2, <1>4 DEF ReadOk, Writes
<1> QED BY <1>3, <1>5, <1>6 DEF DataOk

\* No call becomes a writer but when it is made.
LEMMA WriterFrame ==
  ASSUME WriterInv, \A f \in Flows : pc'[f] # "idle" => pc[f] # "idle" /\ call'[f] = call[f]
  PROVE  WriterInv'
<1>1. \A f \in Flows : Writes(f)' => Writes(f) /\ call'[f] = call[f]
  BY DEF Writes
<1>2. \A f \in Flows : Writes(f)' => call'[f].via = "fs"
  BY <1>1 DEF WriterInv
<1>3. \A f, g \in Flows : Writes(f)' /\ Writes(g)' => f = g
  BY <1>1 DEF WriterInv
<1> QED BY <1>2, <1>3 DEF WriterInv

\* The steps of a flow up to its request and in initialising a device: it
\* goes on with its call, or returns an error.
Approach(f) ==
  Check(f) \/ HandshakeBegin(f) \/ Features(f) \/ Setup(f) \/ DriverOk(f) \/ Store(f) \/ Lock(f)

\* What these steps leave alone: the data, and the queue of every flow that waits.
LEMMA ApproachFacts ==
  ASSUME IInv, NEW f \in Flows, Approach(f)
  PROVE  /\ pc[f] \notin {"idle", "wait"} /\ pc'[f] # "wait"
         /\ \/ Finish(f, "Err")
            \/ UNCHANGED flowVars /\ pc'[f] # "idle"
         /\ \A g \in Flows \ {f} : pc'[g] = pc[g]
         /\ UNCHANGED <<chain, disk, st, last_used>>
         /\ \A g \in Flows : pc[g] = "wait" => q'[Dev(g)] = q[Dev(g)] /\ busy'[Dev(g)] = busy[Dev(g)]
<1>1. FlowTypes /\ DevTypes /\ CallInv
  BY DEF IInv, Types
<1>2. /\ pc[f] \notin {"idle", "wait"}
      /\ UNCHANGED <<chain, disk, st, last_used>>
  BY DEF Approach, Check, HandshakeBegin, Features, Setup, DriverOk, Store, Lock, devVars
<1>3. \/ Finish(f, "Err")
      \/ UNCHANGED flowVars /\ \E l \in Places \ {"idle", "wait"} : pc' = [pc EXCEPT ![f] = l]
  BY DEF Approach, Check, HandshakeBegin, Features, Setup, DriverOk, Store, Lock, Goto, Places
<1>4. \E l \in Places \ {"wait"} : pc' = [pc EXCEPT ![f] = l]
  BY <1>3 DEF Finish, Goto, Places
<1>5. pc'[f] # "wait" /\ \A g \in Flows \ {f} : pc'[g] = pc[g]
  BY <1>1, <1>4 DEF FlowTypes
<1>6. \/ Finish(f, "Err")
      \/ UNCHANGED flowVars /\ pc'[f] # "idle"
  BY <1>1, <1>3 DEF FlowTypes
<1>7. ASSUME NEW g \in Flows, pc[g] = "wait"
      PROVE  q'[Dev(g)] = q[Dev(g)] /\ busy'[Dev(g)] = busy[Dev(g)]
  <2>1. CASE UNCHANGED <<q, busy>>
    BY <2>1
  <2>2. CASE HandshakeBegin(f)
    <3>1. /\ pc[f] = "reset" /\ q' = [q EXCEPT ![Dev(f)] = FreshQueue]
          /\ busy' = [busy EXCEPT ![Dev(f)] = FALSE]
      BY <2>2 DEF HandshakeBegin
    <3>2. g # f /\ pc[f] \in Handshaking
      BY <1>7, <3>1 DEF Handshaking
    <3>3. Dev(g) # Dev(f)
      BY <1>7, <3>2, HandshakeAlone
    <3>4. Dev(g) \in Devices
      BY <1>1, <1>7, CallFacts
    <3> QED BY <1>1, <3>1, <3>3, <3>4 DEF DevTypes
  <2> QED BY <2>1, <2>2 DEF Approach, Check, Features, Setup, DriverOk, Store, Lock, devVars
<1> QED BY <1>2, <1>5, <1>6, <1>7

\* They leave the data alone.
LEMMA ApproachData ==
  ASSUME IInv, DataInv, NEW f \in Flows, Approach(f)
  PROVE  DataInv'
<1>1. WriterInv /\ \A g \in Flows : DataOk(g)
  BY DEF DataInv
<1>2. FlowTypes
  BY DEF IInv, Types
<1>3. /\ pc[f] \notin {"idle", "wait"} /\ pc'[f] # "wait"
      /\ Finish(f, "Err") \/ (UNCHANGED flowVars /\ pc'[f] # "idle")
      /\ \A g \in Flows \ {f} : pc'[g] = pc[g]
      /\ UNCHANGED <<chain, disk, st, last_used>>
      /\ \A g \in Flows : pc[g] = "wait" => q'[Dev(g)] = q[Dev(g)] /\ busy'[Dev(g)] = busy[Dev(g)]
  BY ApproachFacts
<1>4. /\ \A g \in Flows \ {f} : /\ call'[g] = call[g] /\ done'[g] = done[g]
                                /\ sector_buf'[g] = sector_buf[g] /\ back'[g] = back[g]
      /\ pc'[f] # "idle" => UNCHANGED flowVars
  <2>1. CASE Finish(f, "Err")
    BY <1>2, <2>1, FinishFacts
  <2>2. CASE UNCHANGED flowVars
    BY <2>2 DEF flowVars
  <2> QED BY <1>3, <2>1, <2>2
<1>5. WriterInv'
  <2>1. \A g \in Flows : pc'[g] # "idle" => pc[g] # "idle" /\ call'[g] = call[g]
    BY <1>3, <1>4 DEF flowVars
  <2> QED BY <1>1, <2>1, WriterFrame
<1>6. ASSUME NEW g \in Flows \ {f} PROVE DataOk(g)'
  <2>1. pc[g] = "wait" => chain'[Dev(g)] = chain[Dev(g)] /\ (Worked(g)' => Worked(g))
    <3>1. Dev(g)' = Dev(g)
      BY <1>4 DEF Dev
    <3> QED BY <1>3, <3>1 DEF Worked
  <2> QED BY <1>1, <1>3, <1>4, <2>1, DataFrame
<1>7. DataOk(f)'
  <2>1. CASE pc'[f] = "idle"
    BY <2>1 DEF DataOk, ChainOk, BackOk, ReadOk
  <2>2. CASE UNCHANGED flowVars
    <3>1. /\ call'[f] = call[f] /\ done'[f] = done[f] /\ back'[f] = back[f]
          /\ sector_buf'[f] = sector_buf[f]
      BY <2>2 DEF flowVars
    <3>2. BackOk(f)
      BY <1>1 DEF DataOk
    <3>3. (WholeSector(f)' <=> WholeSector(f)) /\ (Same(f) => Same(f)')
      BY <1>3, <3>1, PieceSame, SameSame
    <3>4. BackOk(f)'
      BY <1>3, <3>1, <3>2, <3>3 DEF BackOk
    <3> QED BY <1>3, <3>4 DEF DataOk, ChainOk, ReadOk
  <2> QED BY <1>4, <2>1, <2>2
<1> QED BY <1>5, <1>6, <1>7 DEF DataInv

\* A request is published for the piece that the call has come to.
LEMMA SubmitData ==
  ASSUME IInv, DataInv, NEW f \in Flows, Submit(f)
  PROVE  DataInv'
<1> DEFINE d == Dev(f)
           link == [owner |-> f, type |-> RequestType(f), sector |-> Sector(f)]
<1>1. /\ pc[f] = "submit" /\ pc' = [pc EXCEPT ![f] = "wait"]
      /\ chain' = [chain EXCEPT ![d] = link]
      /\ st' = [st EXCEPT ![f] = "unset"]
      /\ last_used' = [last_used EXCEPT ![f] = q[d].used]
      /\ q' = [q EXCEPT ![d].avail = (@ + 1) % IDX]
      /\ UNCHANGED <<call, done, out, sector_buf, back, busy, disk>>
  BY DEF Submit, flowVars, Goto
<1>2. WriterInv /\ \A g \in Flows : DataOk(g)
  BY DEF DataInv
<1>3. FlowTypes /\ DevTypes /\ WaitTypes /\ CallInv
  BY DEF IInv, Types
<1>4. d \in Devices
  BY <1>1, <1>3, CallFacts
<1>5. link.type = RequestType(f) /\ link.sector = Sector(f)
  OBVIOUS
<1> HIDE DEF link
<1>6. /\ pc'[f] = "wait" /\ st'[f] = "unset" /\ chain'[d] = link
      /\ \A g \in Flows \ {f} : pc'[g] = pc[g] /\ st'[g] = st[g] /\ last_used'[g] = last_used[g]
      /\ \A e \in Devices \ {d} : chain'[e] = chain[e] /\ q'[e] = q[e]
  <2>1. pc'[f] = "wait" /\ \A g \in Flows \ {f} : pc'[g] = pc[g]
    BY <1>1, <1>3 DEF FlowTypes
  <2>2. st'[f] = "unset" /\ \A g \in Flows \ {f} : st'[g] = st[g]
    BY <1>1, <1>3 DEF WaitTypes
  <2>3. \A g \in Flows \ {f} : last_used'[g] = last_used[g]
    BY <1>1, <1>3 DEF WaitTypes
  <2>4. chain'[d] = link /\ \A e \in Devices \ {d} : chain'[e] = chain[e]
    BY <1>1, <1>3, <1>4 DEF DevTypes
  <2>5. \A e \in Devices \ {d} : q'[e] = q[e]
    BY <1>1, <1>3, <1>4 DEF DevTypes
  <2> QED BY <2>1, <2>2, <2>3, <2>4, <2>5
<1>7. WriterInv'
  <2>1. \A g \in Flows : pc'[g] # "idle" => pc[g] # "idle" /\ call'[g] = call[g]
    BY <1>1, <1>6
  <2> QED BY <1>2, <2>1, WriterFrame
<1>8. ASSUME NEW g \in Flows \ {f} PROVE DataOk(g)'
  <2>1. pc[g] = "wait" => chain'[Dev(g)] = chain[Dev(g)] /\ (Worked(g)' => Worked(g))
    <3> SUFFICES ASSUME pc[g] = "wait"
                 PROVE  chain'[Dev(g)] = chain[Dev(g)] /\ (Worked(g)' => Worked(g))
      OBVIOUS
    <3>1. Dev(g) \in Devices
      BY <1>3, CallFacts
    <3>2. Dev(g) # d
      BY <1>1, HolderAlone DEF Holding
    <3>3. Dev(g)' = Dev(g)
      BY <1>1 DEF Dev
    <3> QED BY <1>1, <1>6, <3>1, <3>2, <3>3, SMT DEF Worked
  <2>2. /\ call'[g] = call[g] /\ done'[g] = done[g] /\ back'[g] = back[g]
        /\ sector_buf'[g] = sector_buf[g]
    BY <1>1
  <2> QED BY <1>1, <1>2, <1>6, <2>1, <2>2, DataFrame
<1>9. DataOk(f)'
  <2>1. call'[f] = call[f] /\ done'[f] = done[f] /\ back'[f] = back[f] /\ sector_buf'[f] = sector_buf[f]
    BY <1>1
  <2>2. /\ Dev(f)' = d /\ Sector(f)' = Sector(f) /\ (WholeSector(f)' <=> WholeSector(f))
        /\ RequestType(f)' = RequestType(f)
    BY <2>1, PieceSame
  <2>3. ChainOk(f)'
    BY <1>5, <1>6, <2>2 DEF ChainOk
  <2>4. BackOk(f)'
    <3>1. Same(f) => Same(f)'
      BY <1>1, <2>1, SameSame
    <3>2. BackOk(f)
      BY <1>2 DEF DataOk
    <3> QED BY <1>1, <2>1, <2>2, <3>1, <3>2 DEF BackOk
  <2>5. ReadOk(f)'
    BY <1>6 DEF ReadOk
  <2> QED BY <2>3, <2>4, <2>5 DEF DataOk
<1> QED BY <1>7, <1>8, <1>9 DEF DataInv

\* The answer of the device is used up; a sector that was read for a write is
\* kept, with the new bytes in it.
LEMMA WaitUsedData ==
  ASSUME IInv, DataInv, NEW f \in Flows, WaitUsed(f)
  PROVE  DataInv'
<1> DEFINE d == Dev(f)
           elem == q[d].ring[UsedSlot(d)]
<1>1. /\ pc[f] = "wait" /\ Answered(f) /\ Consume(f, elem)
      /\ st' = [st EXCEPT ![f] = "unset"]
      /\ last_used' = [last_used EXCEPT ![f] = 0]
      /\ UNCHANGED <<q, chain, busy, disk>>
  BY DEF WaitUsed, devVars
<1>2. /\ WriterInv /\ (\A g \in Flows : DataOk(g)) /\ FlowTypes /\ DevTypes /\ WaitTypes /\ CallInv
      /\ CallOk(f)
  BY DEF DataInv, IInv, Types, CallInv
<1>3. elem.len \in Nat
  <2>1. d \in Devices
    BY <1>1, <1>2, CallFacts
  <2> QED BY <1>2, <2>1, UsedElem
<1> HIDE DEF elem
<1>4. /\ pc'[f] \in {"idle", "check"}
      /\ pc'[f] = "check" => call'[f] = call[f]
      /\ \A g \in Flows \ {f} :
            /\ pc'[g] = pc[g] /\ call'[g] = call[g] /\ done'[g] = done[g]
            /\ sector_buf'[g] = sector_buf[g] /\ back'[g] = back[g]
  BY <1>1, <1>3, ConsumeFacts
<1>5. WriterInv'
  <2>1. \A g \in Flows : pc'[g] # "idle" => pc[g] # "idle" /\ call'[g] = call[g]
    BY <1>1, <1>4
  <2> QED BY <1>2, <2>1, WriterFrame
<1>6. ASSUME NEW g \in Flows \ {f} PROVE DataOk(g)'
  <2>1. st'[g] = st[g] /\ last_used'[g] = last_used[g]
    BY <1>1, <1>2 DEF WaitTypes
  <2>2. Worked(g)' => Worked(g)
    BY <1>1, <1>4, <2>1 DEF Worked, Dev
  <2> QED BY <1>1, <1>2, <1>4, <2>1, <2>2, DataFrame
<1>7. DataOk(f)'
  <2>1. CASE pc'[f] = "idle"
    BY <2>1 DEF DataOk, ChainOk, BackOk, ReadOk
  <2>2. CASE pc'[f] = "check" /\ back'[f] = FALSE
    BY <2>2 DEF DataOk, ChainOk, BackOk, ReadOk
  <2>3. CASE call[f].op = "write" /\ st[f] = "OK" /\ RequestType(f) = "in" /\ ReadBack(f)
    <3>1. /\ pc'[f] = "check" /\ back'[f] = TRUE /\ UNCHANGED <<call, done, out>>
          /\ sector_buf'[f] = [i \in 0 .. (SECTOR_SIZE - 1) |->
              IF i \in Shift(f) .. (Shift(f) + Count(f) - 1) THEN call[f].val ELSE sector_buf[f][i]]
      BY <1>1, <1>2, <2>3, ReadBackFacts
    <3>2. /\ Sector(f)' = Sector(f) /\ Shift(f)' = Shift(f) /\ Count(f)' = Count(f)
          /\ (WholeSector(f)' <=> WholeSector(f))
      BY <3>1, PieceSame
    <3>3. ~ WholeSector(f) /\ back[f] = FALSE
      <4>1. ~ WholeSector(f) /\ ~ back[f]
        BY <2>3 DEF RequestType
      <4> QED BY <1>2, <4>1 DEF FlowTypes
    <3>4. Same(f)
      <4>1. Worked(f)
        BY <1>1 DEF Answered, Worked
      <4> QED BY <1>1, <1>2, <2>3, <4>1 DEF DataOk, ReadOk
    <3>5. Same(f)'
      <4>1. ASSUME NEW i \in 0 .. (SECTOR_SIZE - 1), Sector(f) * SECTOR_SIZE + i \in DOMAIN disk
            PROVE  sector_buf'[f][i] = IF i \in Shift(f) .. (Shift(f) + Count(f) - 1)
                       THEN call[f].val ELSE disk[Sector(f) * SECTOR_SIZE + i]
        <5>1. sector_buf[f][i] = disk[Sector(f) * SECTOR_SIZE + i]
          BY <3>3, <3>4, <4>1 DEF Same
        <5> QED BY <3>1, <5>1
      <4> QED BY <1>1, <3>1, <3>2, <4>1 DEF Same
    <3> QED BY <2>3, <3>1, <3>2, <3>3, <3>5 DEF DataOk, ChainOk, BackOk, ReadOk
  <2>4. ASSUME NEW n, NEW got, NextPiece(f, n, got) PROVE back'[f] = FALSE
    BY <1>2, <2>4 DEF NextPiece, FlowTypes
  <2>5. ASSUME NEW kind, Finish(f, kind) PROVE pc'[f] = "idle"
    BY <1>2, <2>5 DEF Finish, Goto, FlowTypes
  <2>6. call[f].op \in {"read", "write", "fill"}
    BY <1>1, <1>2, CallFacts
  <2> QED BY <1>1, <1>4, <2>1, <2>2, <2>3, <2>4, <2>5, <2>6, ConsumeCases
<1> QED BY <1>5, <1>6, <1>7 DEF DataInv

\* Publishing changes nothing that the flows have not been given already.
LEMMA PublishData ==
  ASSUME IInv, DataInv, NEW d \in Devices, Publish(d)
  PROVE  DataInv'
<1>1. /\ busy[d] /\ busy' = [busy EXCEPT ![d] = FALSE]
      /\ q' = [q EXCEPT ![d].used = (@ + 1) % IDX]
      /\ UNCHANGED <<pc, call, done, sector_buf, back, chain, st, last_used, disk>>
  BY DEF Publish, flowVars
<1>2. WriterInv /\ (\A g \in Flows : DataOk(g)) /\ DevTypes /\ FlowTypes /\ CallInv
  BY DEF DataInv, IInv, Types
<1>3. WriterInv'
  BY <1>1, <1>2, WriterFrame
<1>4. ASSUME NEW g \in Flows PROVE DataOk(g)'
  <2>1. ASSUME pc[g] = "wait" PROVE Worked(g)' => Worked(g)
    <3>1. CASE Dev(g) = d
      <4>1. busy[d] = TRUE
        BY <1>1, <1>2 DEF DevTypes
      <4> QED BY <3>1, <4>1 DEF Worked
    <3>2. CASE Dev(g) # d
      <4>1. Dev(g) \in Devices
        BY <1>2, <2>1, CallFacts
      <4>2. busy'[Dev(g)] = busy[Dev(g)] /\ q'[Dev(g)] = q[Dev(g)]
        BY <1>1, <1>2, <3>2, <4>1 DEF DevTypes
      <4>3. Dev(g)' = Dev(g)
        BY <1>1 DEF Dev
      <4> QED BY <1>1, <4>2, <4>3 DEF Worked
    <3> QED BY <3>1, <3>2
  <2> QED BY <1>1, <1>2, <2>1, DataFrame
<1> QED BY <1>3, <1>4 DEF DataInv

\* Where the request of f is to write, the sector that is sent differs from
\* the one on the disk in the bytes of the call only.
LEMMA OutFacts ==
  ASSUME FlowTypes, CallInv, NEW f \in Flows, pc[f] # "idle", BackOk(f), RequestType(f) = "out",
         disk' = [i \in DOMAIN disk |->
                    IF i \in (Sector(f) * SECTOR_SIZE) .. (Sector(f) * SECTOR_SIZE + SECTOR_SIZE - 1)
                    THEN DataOut(f)[i - Sector(f) * SECTOR_SIZE] ELSE disk[i]],
         DOMAIN disk \subseteq Int
  PROVE  /\ call[f].op = "write"
         /\ disk' = [i \in DOMAIN disk |->
                       IF i \in Pos(f) .. (Pos(f) + Count(f) - 1) THEN call[f].val ELSE disk[i]]
<1> DEFINE base == Sector(f) * SECTOR_SIZE
<1>1. call[f].op = "write" /\ (WholeSector(f) \/ back[f])
  <2>1. call[f].op \in {"read", "write", "fill"}
    BY CallFacts
  <2> QED BY <2>1 DEF RequestType
<1>2. /\ Sector(f) \in Nat /\ Shift(f) \in 0 .. (SECTOR_SIZE - 1) /\ Count(f) \in Nat \ {0}
      /\ Pos(f) = base + Shift(f) /\ Shift(f) + Count(f) =< SECTOR_SIZE
  BY PieceFacts
<1>3. base \in Nat
  BY <1>2, SectorAssumption, SMT
<1> HIDE DEF base
<1>4. ASSUME NEW i \in DOMAIN disk
      PROVE  disk'[i] = IF i \in Pos(f) .. (Pos(f) + Count(f) - 1) THEN call[f].val ELSE disk[i]
  <2>1. i \in Int
    OBVIOUS
  <2>2. disk'[i] = IF i \in base .. (base + SECTOR_SIZE - 1) THEN DataOut(f)[i - base] ELSE disk[i]
    BY DEF base
  <2>3. CASE i \notin base .. (base + SECTOR_SIZE - 1)
    <3>1. i \notin Pos(f) .. (Pos(f) + Count(f) - 1)
      BY <1>2, <1>3, <2>1, <2>3, SectorAssumption, SMT
    <3> QED BY <2>2, <2>3, <3>1
  <2>4. CASE i \in base .. (base + SECTOR_SIZE - 1)
    <3>1. (i - base) \in 0 .. (SECTOR_SIZE - 1) /\ base + (i - base) = i
      BY <1>3, <2>1, <2>4, SectorAssumption, SMT
    <3>2. i \in Pos(f) .. (Pos(f) + Count(f) - 1) <=> (i - base) \in Shift(f) .. (Shift(f) + Count(f) - 1)
      BY <1>2, <1>3, <2>1, SMT
    <3>3. CASE WholeSector(f)
      <4>1. DataOut(f)[i - base] = call[f].val
        BY <3>1, <3>3 DEF DataOut
      <4>2. i \in Pos(f) .. (Pos(f) + Count(f) - 1)
        <5>1. Shift(f) = 0 /\ Shift(f) + Count(f) - 1 = SECTOR_SIZE - 1
          BY <3>3, SectorAssumption, SMT DEF WholeSector
        <5> QED BY <3>1, <3>2, <5>1
      <4> QED BY <2>2, <2>4, <4>1, <4>2
    <3>4. CASE ~ WholeSector(f)
      <4>1. back[f] = TRUE
        BY <1>1, <3>4 DEF FlowTypes
      <4>2. DataOut(f)[i - base] = sector_buf[f][i - base]
        BY <3>1, <3>4 DEF DataOut
      <4>3. Same(f)
        BY <4>1 DEF BackOk
      <4>4. sector_buf[f][i - base] = IF (i - base) \in Shift(f) .. (Shift(f) + Count(f) - 1)
                                      THEN call[f].val ELSE disk[i]
        BY <3>1, <4>1, <4>3 DEF Same, base
      <4> QED BY <2>2, <2>4, <3>2, <4>2, <4>4
    <3> QED BY <3>3, <3>4
  <2> QED BY <2>3, <2>4
<1>5. DOMAIN disk' = DOMAIN disk
  OBVIOUS
<1>6. disk' = [i \in DOMAIN disk' |-> disk'[i]]
  OBVIOUS
<1>7. disk' = [i \in DOMAIN disk |->
                 IF i \in Pos(f) .. (Pos(f) + Count(f) - 1) THEN call[f].val ELSE disk[i]]
  BY <1>4, <1>5, <1>6
<1> QED BY <1>1, <1>7

\* A sector of the disk, with what f writes put in, is still what f has read.
LEMMA SameWritten ==
  ASSUME FlowTypes, CallInv, NEW f \in Flows, pc[f] # "idle", back[f] = TRUE, Same(f),
         call'[f] = call[f], done'[f] = done[f], back'[f] = back[f], sector_buf'[f] = sector_buf[f],
         disk' = [i \in DOMAIN disk |->
                    IF i \in Pos(f) .. (Pos(f) + Count(f) - 1) THEN call[f].val ELSE disk[i]]
  PROVE  Same(f)'
<1> DEFINE base == Sector(f) * SECTOR_SIZE
<1>1. /\ Sector(f)' = Sector(f) /\ Shift(f)' = Shift(f) /\ Count(f)' = Count(f)
  BY PieceSame
<1>2. /\ Sector(f) \in Nat /\ Shift(f) \in 0 .. (SECTOR_SIZE - 1) /\ Count(f) \in Nat \ {0}
      /\ Pos(f) = base + Shift(f)
  BY PieceFacts
<1>3. base \in Nat
  BY <1>2, SectorAssumption, SMT
<1>4. ASSUME NEW i \in 0 .. (SECTOR_SIZE - 1), base + i \in DOMAIN disk
      PROVE  sector_buf[f][i] = IF i \in Shift(f) .. (Shift(f) + Count(f) - 1)
                                THEN call[f].val ELSE disk'[base + i]
  <2>1. sector_buf[f][i] = IF i \in Shift(f) .. (Shift(f) + Count(f) - 1)
                           THEN call[f].val ELSE disk[base + i]
    BY <1>4 DEF Same
  <2> HIDE DEF base
  <2>2. base + i \in Pos(f) .. (Pos(f) + Count(f) - 1) <=> i \in Shift(f) .. (Shift(f) + Count(f) - 1)
    BY <1>2, <1>3, SMT
  <2> QED BY <1>4, <2>1, <2>2
<1>5. DOMAIN disk' = DOMAIN disk
  OBVIOUS
<1> QED BY <1>1, <1>4, <1>5 DEF Same

\* The device reads or writes for the one flow whose chain it is; no other
\* flow that writes is under way.
LEMMA ProcessData ==
  ASSUME IInv, DataInv, DOMAIN disk \subseteq Int, NEW d \in Devices, Process(d)
  PROVE  DataInv'
<1>0. PICK f : f = chain[d].owner
  OBVIOUS
<1>1. UNCHANGED <<chain, pc, call, done, out, back, last_used>>
  BY DEF Process
<1>2. WriterInv /\ (\A g \in Flows : DataOk(g)) /\ DevTypes /\ FlowTypes /\ WaitTypes /\ CallInv
  BY DEF DataInv, IInv, Types
<1>3. /\ f \in Flows /\ Waits(f, d) /\ Stage(f, d)
      /\ \A e \in Devices \ {d} : q'[e] = q[e] /\ busy'[e] = busy[e]
      /\ \A g \in Flows \ {f} : st'[g] = st[g] /\ sector_buf'[g] = sector_buf[g]
  BY <1>0, ProcessFacts
<1>4. /\ pc[f] = "wait" /\ Dev(f) = d /\ chain[d].type = RequestType(f) /\ chain[d].sector = Sector(f)
      /\ BackOk(f)
  BY <1>2, <1>3 DEF Waits, DataOk, ChainOk
<1>5. \/ /\ RequestType(f) = "in" /\ disk' = disk
         /\ sector_buf' = [sector_buf EXCEPT ![f] = SectorBytes(Sector(f))]
      \/ /\ RequestType(f) = "out" /\ sector_buf' = sector_buf
         /\ disk' = [i \in DOMAIN disk |->
               IF i \in (Sector(f) * SECTOR_SIZE) .. (Sector(f) * SECTOR_SIZE + SECTOR_SIZE - 1)
               THEN DataOut(f)[i - Sector(f) * SECTOR_SIZE] ELSE disk[i]]
      \/ /\ disk' = disk /\ sector_buf' = sector_buf
         /\ st' = [st EXCEPT ![f] = "IOERR"] \/ RequestType(f) = "fill"
  BY <1>0, <1>4 DEF Process
<1>6. WriterInv'
  BY <1>1, <1>2, WriterFrame
<1>7. \/ disk' = disk
      \/ /\ RequestType(f) = "out" /\ call[f].op = "write"
         /\ disk' = [i \in DOMAIN disk |->
               IF i \in Pos(f) .. (Pos(f) + Count(f) - 1) THEN call[f].val ELSE disk[i]]
  BY <1>2, <1>3, <1>4, <1>5, OutFacts
<1>8. ASSUME NEW g \in Flows \ {f} PROVE DataOk(g)'
  <2>1. disk' = disk \/ ~ Writes(g)
    BY <1>2, <1>3, <1>4, <1>7, <1>8 DEF WriterInv, Writes
  <2>2. ASSUME pc[g] = "wait" PROVE Worked(g)' => Worked(g)
    <3>1. Dev(g) \in Devices
      BY <1>2, <2>2, CallFacts
    <3>2. Dev(g) # d
      BY <1>3, <1>4, <1>8, <2>2, HolderAlone DEF Holding
    <3>3. Dev(g)' = Dev(g)
      BY <1>1 DEF Dev
    <3> QED BY <1>1, <1>3, <3>1, <3>2, <3>3 DEF Worked
  <2> QED BY <1>1, <1>2, <1>3, <2>1, <2>2, DataFrame
<1>9. DataOk(f)'
  <2>1. call'[f] = call[f] /\ done'[f] = done[f] /\ back'[f] = back[f] /\ pc'[f] = "wait"
    BY <1>1, <1>4
  <2>2. /\ Dev(f)' = d /\ Sector(f)' = Sector(f) /\ (WholeSector(f)' <=> WholeSector(f))
        /\ RequestType(f)' = RequestType(f)
    BY <1>3, <1>4, <2>1, PieceSame
  <2>3. ChainOk(f)'
    BY <1>1, <1>4, <2>2 DEF ChainOk
  <2>4. call[f].op \in {"read", "write", "fill"}
    BY <1>2, <1>3, <1>4, CallFacts
  <2>5. CASE RequestType(f) = "in" /\ disk' = disk
             /\ sector_buf' = [sector_buf EXCEPT ![f] = SectorBytes(Sector(f))]
    <3>1. back[f] = FALSE
      <4>1. call[f].op = "write" => ~ back[f]
        BY <2>5 DEF RequestType
      <4>2. call[f].op # "write" => back[f] # TRUE
        BY <1>4 DEF BackOk
      <4> QED BY <1>2, <1>3, <4>1, <4>2 DEF FlowTypes
    <3>2. sector_buf'[f] = SectorBytes(Sector(f))
      BY <1>2, <1>3, <2>5 DEF FlowTypes
    <3>3. Same(f)'
      BY <2>1, <2>2, <2>5, <3>1, <3>2 DEF Same, SectorBytes
    <3> QED BY <2>1, <2>3, <3>1, <3>3 DEF DataOk, BackOk, ReadOk
  <2>6. CASE sector_buf' = sector_buf /\ RequestType(f) = "out" /\ call[f].op = "write"
         /\ disk' = [i \in DOMAIN disk |->
               IF i \in Pos(f) .. (Pos(f) + Count(f) - 1) THEN call[f].val ELSE disk[i]]
    <3>1. BackOk(f)'
      <4>1. back[f] = TRUE /\ Same(f) => Same(f)'
        BY <1>2, <1>3, <1>4, <2>1, <2>6, SameWritten
      <4> QED BY <1>4, <2>1, <2>2, <4>1 DEF BackOk
    <3>2. ReadOk(f)'
      BY <2>2, <2>6 DEF ReadOk
    <3> QED BY <2>3, <3>1, <3>2 DEF DataOk
  <2>7. CASE disk' = disk /\ sector_buf' = sector_buf
             /\ (st' = [st EXCEPT ![f] = "IOERR"] \/ RequestType(f) = "fill")
    <3>1. Same(f) => Same(f)'
      BY <1>3, <2>1, <2>7, SameSame
    <3>2. BackOk(f)'
      BY <1>4, <2>1, <2>2, <3>1 DEF BackOk
    <3>3. st'[f] # "OK" \/ RequestType(f) = "fill"
      BY <1>2, <1>3, <2>7 DEF WaitTypes
    <3>4. ReadOk(f)'
      BY <2>2, <3>3 DEF ReadOk
    <3> QED BY <2>3, <3>2, <3>4 DEF DataOk
  <2> QED BY <1>2, <1>3, <1>4, <1>5, <2>5, <2>6, <2>7, OutFacts
<1> QED BY <1>6, <1>8, <1>9 DEF DataInv

\* A call is made: the file system's lock keeps writers apart.
LEMMA BeginData ==
  ASSUME IInv, DataInv, NEW f \in Flows, NEW c \in CallSet, Begin(f, c),
         c.op = "write" => c.via = "fs" /\ FsLock("write")
  PROVE  DataInv'
<1>1. /\ pc[f] = "idle" /\ pc' = [pc EXCEPT ![f] = "check"] /\ call' = [call EXCEPT ![f] = c]
      /\ UNCHANGED <<q, chain, busy, disk, done, sector_buf, back, st, last_used>>
  BY DEF Begin, Goto, devVars
<1>2. WriterInv /\ (\A g \in Flows : DataOk(g)) /\ FlowTypes /\ CallOk(f)
  BY DEF DataInv, IInv, Types, CallInv
<1>3. /\ pc'[f] = "check" /\ call'[f] = c
      /\ \A g \in Flows \ {f} : pc'[g] = pc[g] /\ call'[g] = call[g]
  BY <1>1, <1>2 DEF FlowTypes
<1>4. WriterInv'
  <2>1. ASSUME NEW g \in Flows \ {f}
        PROVE  (Writes(g)' <=> Writes(g)) /\ (Writes(g) => c.op # "write")
    <3>1. Writes(g)' <=> Writes(g)
      BY <1>3 DEF Writes
    <3>2. Writes(g) => InFs(g)
      BY <1>2 DEF WriterInv, Writes, InFs
    <3>3. c.op = "write" => ~ InFs(g)
      BY DEF FsLock
    <3> QED BY <3>1, <3>2, <3>3
  <2>2. Writes(f)' <=> c.op = "write"
    BY <1>3 DEF Writes
  <2>3. \A g \in Flows : Writes(g)' => call'[g].via = "fs"
    BY <1>2, <1>3, <2>1, <2>2 DEF WriterInv
  <2>4. \A g, h \in Flows : Writes(g)' /\ Writes(h)' => g = h
    BY <1>2, <2>1, <2>2 DEF WriterInv
  <2> QED BY <2>3, <2>4 DEF WriterInv
<1>5. ASSUME NEW g \in Flows \ {f} PROVE DataOk(g)'
  <2>1. Worked(g)' => Worked(g)
    BY <1>1, <1>3 DEF Worked, Dev
  <2> QED BY <1>1, <1>2, <1>3, <2>1, DataFrame
<1>6. DataOk(f)'
  <2>1. back[f] # TRUE
    BY <1>1, <1>2 DEF CallOk
  <2> QED BY <1>1, <1>3, <2>1 DEF DataOk, ChainOk, BackOk, ReadOk
<1> QED BY <1>4, <1>5, <1>6 DEF DataInv

\* The disk is an array of bytes.
DiskNumbers == DOMAIN disk \subseteq Int

\* Only reads put bytes in the buffer of the caller.
OutInv == \A f \in Flows : pc[f] # "idle" /\ call[f].op # "read" => out[f] = <<>>

\* The inductive invariant under which the drivers implement the store.
RInv == IInv /\ DataInv /\ DiskNumbers /\ OutInv

\* Steps that leave the drivers alone.
LEMMA StillData ==
  ASSUME DataInv, UNCHANGED vars
  PROVE  DataInv'
<1>1. UNCHANGED <<q, chain, busy, pc, call, done, sector_buf, back, st, last_used, disk>>
  BY DEF vars, devVars, flowVars
<1>2. WriterInv /\ \A g \in Flows : DataOk(g)
  BY DEF DataInv
<1>3. WriterInv'
  BY <1>1, <1>2, WriterFrame
<1>4. ASSUME NEW g \in Flows PROVE DataOk(g)'
  <2>1. Worked(g)' => Worked(g)
    BY <1>1 DEF Worked, Dev
  <2> QED BY <1>1, <1>2, <2>1, DataFrame
<1> QED BY <1>3, <1>4 DEF DataInv

\* Every step is one of these, as the drivers see it.
LEMMA NextCases ==
  ASSUME [Next]_allVars
  PROVE  \/ UNCHANGED vars
         \/ \E f \in Flows, c \in CallSet :
              /\ Begin(f, c) /\ c.len > 0
              /\ c.op = "write" => c.via = "fs" /\ FsLock("write")
              /\ \/ c.op = "fill" /\ c.dev = Rng
                 \/ c.dev = Blk /\ [op |-> c.op, off |-> c.off, len |-> c.len, val |-> c.val] \in BlkCalls
         \/ \E f \in Flows : Approach(f) \/ Submit(f) \/ WaitUsed(f)
         \/ \E d \in Devices : Process(d) \/ Publish(d)
<1> DEFINE Short(c) == [op |-> c.op, off |-> c.off, len |-> c.len, val |-> c.val]
           Begins == \E f \in Flows, c \in CallSet :
              /\ Begin(f, c) /\ c.len > 0
              /\ c.op = "write" => c.via = "fs" /\ FsLock("write")
              /\ (c.op = "fill" /\ c.dev = Rng) \/ (c.dev = Blk /\ Short(c) \in BlkCalls)
<1>1. CASE UNCHANGED allVars \/ Probe \/ Mounted \/ Halted \/ RegisterLate
           \/ \E did \in DOMAIN by_id : remove(did)
  BY <1>1 DEF allVars, Probe, Mounted, Halted, RegisterLate, remove
<1>2. ASSUME FsInit PROVE UNCHANGED vars \/ Begins
  <2> DEFINE c == Call("read", Blk, "fs", 0, 1, 0)
  <2>1. UNCHANGED vars \/ Begin(BootFlow, c)
    BY <1>2 DEF FsInit, At, Refused
  <2>2. c \in CallSet /\ c.len > 0 /\ c.op = "read" /\ c.dev = Blk
    BY CallTypes, SMT DEF Call
  <2>3. Short(c) \in BlkCalls
    <3>1. Short(c) = [op |-> "read", off |-> 0, len |-> 1, val |-> ValueOf("read")]
      BY DEF Call, ValueOf
    <3>2. LET t == <<"read", 0, 1>>
          IN  Short(c) = [op |-> t[1], off |-> t[2], len |-> t[3], val |-> ValueOf(t[1])]
      BY <3>1
    <3> QED BY <3>2 DEF BlkCalls
  <2> HIDE DEF c, Short
  <2> QED BY <2>1, <2>2, <2>3, BootAssumption
<1>3. CASE fill_entropy
  <2> DEFINE c == Call("fill", Rng, "rng", 0, 2, 0)
  <2>1. UNCHANGED vars \/ Begin(BootFlow, c)
    BY <1>3 DEF fill_entropy, Refused
  <2>2. c \in CallSet /\ c.len > 0 /\ c.op = "fill" /\ c.dev = Rng
    BY CallTypes, SMT DEF Call
  <2> HIDE DEF c, Short
  <2> QED BY <2>1, <2>2, BootAssumption
<1>4. ASSUME NEW f \in Flows, FsCall(f) PROVE UNCHANGED vars \/ Begins
  <2>1. PICK t \in FsCalls :
          FsLock(t[1]) /\ At(f, handle, Call(t[1], Blk, "fs", t[2], t[3], ValueOf(t[1])))
    BY <1>4 DEF FsCall
  <2> DEFINE c == Call(t[1], Blk, "fs", t[2], t[3], ValueOf(t[1]))
  <2>2. UNCHANGED vars \/ Begin(f, c)
    BY <2>1 DEF At, Refused
  <2>3. c \in CallSet /\ c.len > 0 /\ c.dev = Blk
    BY CallTypes
  <2>4. c.op = t[1] /\ c.via = "fs"
    BY DEF Call
  <2>5. Short(c) \in BlkCalls
    <3>1. Short(c) = [op |-> t[1], off |-> t[2], len |-> t[3], val |-> ValueOf(t[1])]
      BY DEF Call
    <3> QED BY <3>1 DEF BlkCalls
  <2> HIDE DEF c, Short
  <2>6. c.op = "write" => FsLock("write")
    BY <2>1, <2>4
  <2> QED BY <2>2, <2>3, <2>4, <2>5, <2>6
<1>5. ASSUME NEW f \in Flows, VdaRead(f) PROVE UNCHANGED vars \/ Begins
  <2>1. CASE UNCHANGED vars
    BY <2>1
  <2>2. CASE \E did \in FirstOf("block"), t \in VdaReads :
               At(f, did, Call("read", Blk, "vda", t[1], t[2], 0))
    <3>1. PICK did \in FirstOf("block"), t \in VdaReads :
               At(f, did, Call("read", Blk, "vda", t[1], t[2], 0))
      BY <2>2
    <3> DEFINE c == Call("read", Blk, "vda", t[1], t[2], 0)
    <3>2. UNCHANGED vars \/ Begin(f, c)
      BY <3>1 DEF At, Refused
    <3>3. c \in CallSet /\ c.len > 0 /\ c.op = "read" /\ c.dev = Blk
      BY CallTypes
    <3>4. Short(c) \in BlkCalls
      <4>1. LET r == <<"read", t[1], t[2]>>
            IN  Short(c) = [op |-> r[1], off |-> r[2], len |-> r[3], val |-> ValueOf(r[1])]
        BY DEF Call, ValueOf
      <4> QED BY <4>1 DEF BlkCalls
    <3> HIDE DEF c, Short
    <3> QED BY <3>2, <3>3, <3>4
  <2> QED BY <1>5, <2>1, <2>2 DEF VdaRead, Refused
<1>6. ASSUME NEW f \in Flows, Continue(f)
      PROVE  UNCHANGED vars \/ Approach(f) \/ Submit(f) \/ WaitUsed(f)
  BY <1>6 DEF Continue, Approach, Spin
<1> QED BY <1>1, <1>2, <1>3, <1>4, <1>5, <1>6 DEF Next, Device, Devices

\* A call that is not a read returns no bytes.
LEMMA OutStep ==
  ASSUME IInv, OutInv, [Next]_allVars
  PROVE  OutInv'
<1>1. FlowTypes /\ CallInv
  BY DEF IInv, Types
<1>2. CASE UNCHANGED <<pc, call, out>>
  BY <1>2 DEF OutInv
<1>3. ASSUME NEW f \in Flows, \A g \in Flows \ {f} : pc'[g] = pc[g] /\ call'[g] = call[g] /\ out'[g] = out[g],
             pc'[f] # "idle" /\ call'[f].op # "read" => out'[f] = <<>>
      PROVE  OutInv'
  BY <1>3 DEF OutInv
<1>4. ASSUME NEW f \in Flows, NEW c \in CallSet, Begin(f, c) PROVE OutInv'
  <2>1. /\ pc[f] = "idle" /\ pc' = [pc EXCEPT ![f] = "check"] /\ call' = [call EXCEPT ![f] = c]
        /\ out' = out
    BY <1>4 DEF Begin, Goto
  <2>2. out[f] = <<>>
    BY <1>1, <2>1 DEF CallInv, CallOk
  <2> QED BY <1>1, <1>3, <2>1, <2>2 DEF FlowTypes
<1>5. ASSUME NEW f \in Flows, Approach(f) PROVE OutInv'
  <2>1. /\ pc[f] # "idle" /\ (Finish(f, "Err") \/ UNCHANGED flowVars)
        /\ \A g \in Flows \ {f} : pc'[g] = pc[g]
    BY <1>5, ApproachFacts
  <2>2. CASE Finish(f, "Err")
    BY <1>1, <1>3, <2>2, FinishFacts
  <2>3. CASE UNCHANGED flowVars
    BY <1>3, <2>1, <2>3 DEF flowVars, OutInv
  <2> QED BY <2>1, <2>2, <2>3
<1>6. ASSUME NEW f \in Flows, Submit(f) PROVE OutInv'
  <2>1. pc[f] = "submit" /\ pc' = [pc EXCEPT ![f] = "wait"] /\ UNCHANGED <<call, out>>
    BY <1>6 DEF Submit, Goto, flowVars
  <2> QED BY <1>1, <2>1 DEF OutInv, FlowTypes
<1>7. ASSUME NEW f \in Flows, WaitUsed(f) PROVE OutInv'
  <2> DEFINE elem == q[Dev(f)].ring[UsedSlot(Dev(f))]
  <2>1. pc[f] = "wait" /\ Consume(f, elem)
    BY <1>7 DEF WaitUsed
  <2>2. call[f].op \in {"read", "write", "fill"}
    BY <1>1, <2>1, CallFacts
  <2>3. elem.len \in Nat
    BY <1>1, <2>1, CallFacts, UsedElem DEF IInv, Types
  <2> HIDE DEF elem
  <2>4. /\ pc'[f] = "check" => call'[f] = call[f]
        /\ pc'[f] \in {"idle", "check"}
        /\ \A g \in Flows \ {f} : pc'[g] = pc[g] /\ call'[g] = call[g] /\ out'[g] = out[g]
    BY <2>1, <2>3, ConsumeFacts
  <2>5. ASSUME NEW kind, Finish(f, kind) PROVE pc'[f] = "idle"
    BY <1>1, <2>5 DEF Finish, Goto, FlowTypes
  <2>6. ASSUME NEW n, NextPiece(f, n, <<>>), call[f].op # "read" PROVE out'[f] = <<>>
    <3>1. out[f] = <<>> /\ out' = [out EXCEPT ![f] = @ \o <<>>]
      BY <2>1, <2>6 DEF OutInv, NextPiece
    <3> QED BY <1>1, <3>1, SMT DEF FlowTypes
  <2>7. ASSUME ReadBack(f), call[f].op # "read" PROVE out'[f] = <<>>
    BY <2>1, <2>7 DEF ReadBack, OutInv
  <2>8. pc'[f] # "idle" /\ call[f].op # "read" => out'[f] = <<>>
    BY <2>1, <2>2, <2>5, <2>6, <2>7, ConsumeCases
  <2> QED BY <1>3, <2>4, <2>8
<1>8. ASSUME NEW d \in Devices, Process(d) \/ Publish(d) PROVE OutInv'
  BY <1>2, <1>8 DEF Process, Publish, flowVars
<1>9. CASE UNCHANGED vars
  BY <1>2, <1>9 DEF vars, flowVars
<1> QED BY <1>4, <1>5, <1>6, <1>7, <1>8, <1>9, NextCases

\* So is the one about the data: one writer at a time, the chain that is
\* published is of the piece that the call has come to, and a sector that was
\* read back for write_at is still what is on the disk.
THEOREM DataInductive == Spec => []RInv
<1>1. Init => DataInv /\ DiskNumbers /\ OutInv
  <2> SUFFICES ASSUME Init PROVE DataInv /\ DiskNumbers /\ OutInv
    OBVIOUS
  <2>1. /\ pc = [f \in Flows |-> "idle"]
        /\ disk = [i \in 0 .. (Sectors * SECTOR_SIZE - 1) |-> 0]
    BY DEF Init, VirtioInit
  <2>2. DiskNumbers
    BY <2>1, SMT DEF DiskNumbers
  <2>3. DataInv
    BY <2>1 DEF DataInv, WriterInv, Writes, DataOk, ChainOk, BackOk, ReadOk
  <2>4. OutInv
    BY <2>1 DEF OutInv
  <2> QED BY <2>2, <2>3, <2>4
<1>2. IInv /\ DataInv /\ DiskNumbers /\ [Next]_allVars => DataInv' /\ DiskNumbers'
  <2> SUFFICES ASSUME IInv, DataInv, DiskNumbers, [Next]_allVars PROVE DataInv' /\ DiskNumbers'
    OBVIOUS
  <2>1. CASE UNCHANGED vars
    BY <2>1, StillData DEF vars, DiskNumbers
  <2>2. ASSUME NEW f \in Flows, NEW c \in CallSet, Begin(f, c),
               c.op = "write" => c.via = "fs" /\ FsLock("write")
        PROVE  DataInv' /\ DiskNumbers'
    BY <2>2, BeginData DEF Begin, DiskNumbers
  <2>3. ASSUME NEW f \in Flows, Approach(f) PROVE DataInv' /\ DiskNumbers'
    BY <2>3, ApproachData, ApproachFacts DEF DiskNumbers
  <2>4. ASSUME NEW f \in Flows, Submit(f) PROVE DataInv' /\ DiskNumbers'
    BY <2>4, SubmitData DEF Submit, DiskNumbers
  <2>5. ASSUME NEW f \in Flows, WaitUsed(f) PROVE DataInv' /\ DiskNumbers'
    BY <2>5, WaitUsedData DEF WaitUsed, DiskNumbers
  <2>6. ASSUME NEW d \in Devices, Process(d) PROVE DataInv' /\ DiskNumbers'
    <3>1. DOMAIN disk' = DOMAIN disk
      BY <2>6 DEF Process
    <3> QED BY <2>6, <3>1, ProcessData DEF DiskNumbers
  <2>7. ASSUME NEW d \in Devices, Publish(d) PROVE DataInv' /\ DiskNumbers'
    BY <2>7, PublishData DEF Publish, DiskNumbers
  <2> QED BY <2>1, <2>2, <2>3, <2>4, <2>5, <2>6, <2>7, NextCases
<1>3. RInv <=> IInv /\ DataInv /\ DiskNumbers /\ OutInv
  BY DEF RInv
<1>4. IInv /\ OutInv /\ [Next]_allVars => OutInv'
  BY OutStep
<1> QED BY <1>1, <1>2, <1>3, <1>4, Inductive, PTL DEF Spec

-----------------------------------------------------------------------------
(* The drivers implement BlockStore *)

\* The refinement mapping, one flow at a time.
Unmoved(f) == CallOf(f)' = CallOf(f) /\ DoneOf(f)' = DoneOf(f) /\ OutOf(f)' = OutOf(f)

\* Where no flow has moved, the store does not step.
LEMMA StoreStutters ==
  ASSUME \A f \in Flows : Unmoved(f), UNCHANGED <<disk, result>>
  PROVE  UNCHANGED Store0!vars
BY DEF Store0!vars, Unmoved

\* Where one has, the others are as they were.
LEMMA OneMoved ==
  ASSUME NEW f \in Flows, \A g \in Flows \ {f} : Unmoved(g)
  PROVE  /\ [g \in Flows |-> CallOf(g)]' = [[g \in Flows |-> CallOf(g)] EXCEPT ![f] = CallOf(f)']
         /\ [g \in Flows |-> DoneOf(g)]' = [[g \in Flows |-> DoneOf(g)] EXCEPT ![f] = DoneOf(f)']
         /\ [g \in Flows |-> OutOf(g)]' = [[g \in Flows |-> OutOf(g)] EXCEPT ![f] = OutOf(f)']
BY DEF Unmoved

\* A call is made.
LEMMA StoreStarts ==
  ASSUME NEW f \in Flows, \A g \in Flows \ {f} : Unmoved(g), UNCHANGED <<disk, result>>,
         CallOf(f) = NoCall, CallOf(f)' \in BlkCalls, DoneOf(f)' = 0, OutOf(f)' = <<>>
  PROVE  Store0!Next
<1>1. PICK c \in BlkCalls : c = CallOf(f)'
  OBVIOUS
<1>2. Store0!Start(f, c)
  BY <1>1, OneMoved DEF Store0!Start
<1> QED BY <1>2 DEF Store0!Next

\* A call returns.
LEMMA StoreEnds ==
  ASSUME NEW f \in Flows, \A g \in Flows \ {f} : Unmoved(g), UNCHANGED disk,
         CallOf(f) # NoCall, CallOf(f)' = NoCall, DoneOf(f)' = 0, OutOf(f)' = <<>>,
         result' \in {"Ok", "Err"}, result' = "Ok" => CallOf(f).len - DoneOf(f) = 0
  PROVE  Store0!Next
<1>1. PICK r \in {"Ok", "Err"} : r = result'
  OBVIOUS
<1>2. Store0!End(f, r)
  BY <1>1, OneMoved DEF Store0!End, Store0!Rest
<1> QED BY <1>2 DEF Store0!Next

\* A call on the disk is one of the store.
LEMMA CallOfFacts ==
  ASSUME FlowTypes, CallInv, NEW f \in Flows, pc[f] # "idle", Dev(f) = Blk
  PROVE  /\ OfBlk(f) /\ CallOf(f) # NoCall /\ call[f].op \in {"read", "write"}
         /\ CallOf(f).op = call[f].op /\ CallOf(f).val = call[f].val
         /\ CallOf(f).len = call[f].len /\ CallOf(f).off = call[f].off
<1>1. call[f] \in CallSet /\ call[f] # NoCall
  BY CallFacts
<1>2. OfBlk(f)
  BY <1>1 DEF OfBlk
<1>3. CallOf(f) = [op |-> call[f].op, off |-> call[f].off, len |-> call[f].len, val |-> call[f].val]
  BY <1>2 DEF CallOf
<1>4. call[f].op \in {"read", "write"}
  BY <1>1, DeviceAssumption DEF CallInv, CallOk, CallSet
<1>5. CallOf(f) \in [op : {"read", "write"}, off : Nat, len : Nat, val : {0, 1}]
  BY <1>1, <1>3, <1>4, SMT DEF CallSet
<1> QED BY <1>2, <1>3, <1>4, <1>5, NoCallAssumption, SMT

\* What the store works on is what the driver works on.
LEMMA StorePiece ==
  ASSUME FlowTypes, CallInv, NEW f \in Flows, pc[f] # "idle", Dev(f) = Blk, ~ Committed(f)
  PROVE  /\ CallOf(f) # NoCall /\ CallOf(f).op = call[f].op /\ CallOf(f).val = call[f].val
         /\ CallOf(f).len = call[f].len
         /\ DoneOf(f) = done[f] /\ OutOf(f) = out[f]
         /\ Store0!Pos(f) = Pos(f) /\ Store0!Rest(f) = Rest(f) /\ Store0!Count(f) = Count(f)
<1>1. /\ OfBlk(f) /\ CallOf(f) # NoCall
      /\ CallOf(f).op = call[f].op /\ CallOf(f).val = call[f].val
      /\ CallOf(f).len = call[f].len /\ CallOf(f).off = call[f].off
  BY CallOfFacts
<1>2. DoneOf(f) = done[f] /\ OutOf(f) = out[f]
  BY <1>1 DEF DoneOf, OutOf
<1>3. Store0!Pos(f) = Pos(f) /\ Store0!Rest(f) = Rest(f)
  BY <1>1, <1>2 DEF Store0!Pos, Store0!Rest, Pos, Rest
<1>4. Store0!Count(f) = Count(f)
  BY <1>3 DEF Store0!Count, Store0!Room, Count, Shift
<1> QED BY <1>1, <1>2, <1>3, <1>4

\* A piece of a call is done.
LEMMA StoreSteps ==
  ASSUME FlowTypes, CallInv, NEW f \in Flows, pc[f] # "idle", Dev(f) = Blk, ~ Committed(f),
         \A g \in Flows \ {f} : Unmoved(g), UNCHANGED result,
         CallOf(f)' = CallOf(f), DoneOf(f)' = done[f] + Count(f),
         \/ /\ call[f].op = "read" /\ disk' = disk
            /\ OutOf(f)' = out[f] \o [i \in 1 .. Count(f) |-> disk[Pos(f) + i - 1]]
         \/ /\ call[f].op = "write" /\ OutOf(f)' = out[f]
            /\ disk' = [i \in DOMAIN disk |->
                 IF i \in Pos(f) .. (Pos(f) + Count(f) - 1) THEN call[f].val ELSE disk[i]]
  PROVE  Store0!Next
<1>1. /\ CallOf(f) # NoCall /\ CallOf(f).op = call[f].op /\ CallOf(f).val = call[f].val
      /\ DoneOf(f) = done[f] /\ OutOf(f) = out[f]
      /\ Store0!Pos(f) = Pos(f) /\ Store0!Rest(f) = Rest(f) /\ Store0!Count(f) = Count(f)
  BY StorePiece
<1>2. Rest(f) > 0
  BY PieceFacts, SMT
<1>3. /\ [g \in Flows |-> CallOf(g)]' = [g \in Flows |-> CallOf(g)]
      /\ [g \in Flows |-> DoneOf(g)]' = [[g \in Flows |-> DoneOf(g)] EXCEPT ![f] = @ + Count(f)]
      /\ [g \in Flows |-> OutOf(g)]' = [[g \in Flows |-> OutOf(g)] EXCEPT ![f] = OutOf(f)']
  BY <1>1, OneMoved
<1>4. Store0!Step(f)
  <2>1. CASE call[f].op = "read"
    <3>1. /\ disk' = disk
          /\ OutOf(f)' = OutOf(f) \o [i \in 1 .. Store0!Count(f) |-> disk[Store0!Pos(f) + i - 1]]
      BY <1>1, <2>1
    <3> QED BY <1>1, <1>2, <1>3, <2>1, <3>1 DEF Store0!Step
  <2>2. CASE call[f].op = "write"
    <3>1. [g \in Flows |-> OutOf(g)]' = [g \in Flows |-> OutOf(g)]
      BY <1>1, <1>3, <2>2
    <3> QED BY <1>1, <1>2, <1>3, <2>2, <3>1 DEF Store0!Step
  <2> QED BY <2>1, <2>2
<1> QED BY <1>4 DEF Store0!Next

\* Whose piece is done, without the owner of the chain.
Finished(f) ==
  /\ pc[f] = "wait" /\ st[f] = "OK" /\ Dev(f) = Blk /\ Worked(f)
  /\ RequestType(f) = "out" \/ call[f].op = "read"

\* The two say the same.
View == \A f \in Flows : Committed(f) <=> Finished(f)

\* The owner of the chain is the flow that waits.
LEMMA ViewHolds == IInv => View
<1> SUFFICES ASSUME IInv, NEW f \in Flows PROVE Committed(f) <=> Finished(f)
  BY DEF View
<1>1. pc[f] = "wait" /\ Dev(f) = Blk => chain[Blk].owner = f
  BY DEF IInv, QueueInv, QueueOk, Waits, Stage, Devices
<1>2. busy[Blk] <=> busy[Blk] = TRUE
  BY DEF IInv, Types, DevTypes, Devices
<1> QED BY <1>1, <1>2 DEF Committed, Finished, Worked

\* What the store sees of a flow that has its piece still to do or done.
LEMMA UnmovedFrame ==
  ASSUME View, View', NEW f \in Flows,
         call'[f] = call[f], done'[f] = done[f], out'[f] = out[f],
         Finished(f)' <=> Finished(f), Finished(f) => sector_buf'[f] = sector_buf[f]
  PROVE  Unmoved(f)
<1>1. Count(f)' = Count(f) /\ Shift(f)' = Shift(f)
  BY PieceSame
<1>2. (Committed(f)' <=> Committed(f)) /\ (Committed(f) => sector_buf'[f] = sector_buf[f])
  BY DEF View
<1>3. Committed(f) => Bytes(f)' = Bytes(f)
  BY <1>1, <1>2 DEF Bytes
<1>4. OfBlk(f)' <=> OfBlk(f)
  BY DEF OfBlk, Dev
<1>5. CallOf(f)' = CallOf(f)
  BY <1>4 DEF CallOf
<1>6. DoneOf(f)' = DoneOf(f)
  BY <1>1, <1>2, <1>4 DEF DoneOf
<1>7. OutOf(f)' = OutOf(f)
  BY <1>2, <1>3, <1>4 DEF OutOf
<1> QED BY <1>5, <1>6, <1>7 DEF Unmoved

\* A flow that takes no part in a step does not move.
LEMMA OthersUnmoved ==
  ASSUME View, View', NEW f \in Flows,
         pc'[f] = pc[f], call'[f] = call[f], done'[f] = done[f], out'[f] = out[f],
         sector_buf'[f] = sector_buf[f], back'[f] = back[f], st'[f] = st[f],
         pc[f] = "wait" => (Worked(f)' <=> Worked(f))
  PROVE  Unmoved(f)
<1>1. Dev(f)' = Dev(f) /\ RequestType(f)' = RequestType(f)
  BY PieceSame
<1>2. Finished(f)' <=> Finished(f)
  BY <1>1 DEF Finished
<1> QED BY <1>2, UnmovedFrame

\* A flow that is not on the disk is nothing to the store.
LEMMA NotOfBlk ==
  ASSUME NEW f \in Flows
  PROVE  /\ ~ OfBlk(f) => CallOf(f) = NoCall /\ DoneOf(f) = 0 /\ OutOf(f) = <<>>
         /\ (~ OfBlk(f))' => CallOf(f)' = NoCall /\ DoneOf(f)' = 0 /\ OutOf(f)' = <<>>
BY DEF CallOf, DoneOf, OutOf

\* A call returns: Ok only where all of it is done.
LEMMA FinishRefines ==
  ASSUME IInv, View, NEW f \in Flows, pc[f] # "idle", NEW kind \in {"Ok", "Err"}, Finish(f, kind),
         kind = "Ok" /\ Dev(f) = Blk => Finished(f) /\ Rest(f) = Count(f),
         \A g \in Flows \ {f} : Unmoved(g), UNCHANGED disk
  PROVE  Store0!Next \/ UNCHANGED Store0!vars
<1>1. FlowTypes /\ CallInv
  BY DEF IInv, Types
<1>2. call'[f] = NoCall /\ result' = IF call[f].op = "fill" THEN result ELSE kind
  BY <1>1 DEF Finish, FlowTypes
<1>3. CallOf(f)' = NoCall /\ DoneOf(f)' = 0 /\ OutOf(f)' = <<>>
  BY <1>2, NotOfBlk DEF OfBlk
<1>4. CASE Dev(f) = Blk
  <2>1. /\ OfBlk(f) /\ CallOf(f) # NoCall /\ CallOf(f).len = call[f].len
        /\ call[f].op \in {"read", "write"}
    BY <1>1, <1>4, CallOfFacts
  <2>2. kind = "Ok" => CallOf(f).len - DoneOf(f) = 0
    <3> SUFFICES ASSUME kind = "Ok" PROVE CallOf(f).len - DoneOf(f) = 0
      OBVIOUS
    <3>1. Committed(f) /\ Rest(f) = Count(f)
      BY <1>4 DEF View
    <3>2. DoneOf(f) = done[f] + Count(f)
      BY <2>1, <3>1 DEF DoneOf
    <3>3. call[f].len \in Nat /\ done[f] \in Nat
      BY <1>1, CallFacts
    <3> QED BY <2>1, <3>1, <3>2, <3>3, SMT DEF Rest
  <2>3. result' = kind
    BY <1>2, <2>1
  <2> QED BY <1>3, <2>1, <2>2, <2>3, StoreEnds
<1>5. CASE Dev(f) # Blk
  <2>1. call[f].op = "fill"
    BY <1>1, <1>5, CallFacts DEF CallInv, CallOk, Devices
  <2>2. result' = result
    BY <1>2, <2>1
  <2>3. Unmoved(f)
    BY <1>3, <1>5, NotOfBlk DEF OfBlk, Unmoved
  <2> QED BY <2>2, <2>3, StoreStutters
<1> QED BY <1>4, <1>5

\* A call is made.
LEMMA BeginRefines ==
  ASSUME IInv, View, View', NEW f \in Flows, NEW c \in CallSet, Begin(f, c),
         \/ c.op = "fill" /\ c.dev = Rng
         \/ c.dev = Blk /\ [op |-> c.op, off |-> c.off, len |-> c.len, val |-> c.val] \in BlkCalls
  PROVE  Store0!Next \/ UNCHANGED Store0!vars
<1>1. /\ pc[f] = "idle" /\ pc' = [pc EXCEPT ![f] = "check"] /\ call' = [call EXCEPT ![f] = c]
      /\ UNCHANGED <<q, busy, disk, done, out, sector_buf, back, st, last_used, result>>
  BY DEF Begin, Goto, devVars
<1>2. FlowTypes /\ CallOk(f)
  BY DEF IInv, Types, CallInv
<1>3. /\ pc'[f] = "check" /\ call'[f] = c
      /\ \A g \in Flows \ {f} : pc'[g] = pc[g] /\ call'[g] = call[g]
  BY <1>1, <1>2 DEF FlowTypes
<1>4. call[f] = NoCall /\ done[f] = 0 /\ out[f] = <<>>
  BY <1>1, <1>2 DEF CallOk
<1>5. CallOf(f) = NoCall /\ DoneOf(f) = 0 /\ OutOf(f) = <<>>
  BY <1>4, NotOfBlk DEF OfBlk
<1>6. ASSUME NEW g \in Flows \ {f} PROVE Unmoved(g)
  <2>1. Worked(g)' <=> Worked(g)
    BY <1>1, <1>3 DEF Worked, Dev
  <2> QED BY <1>1, <1>3, <2>1, OthersUnmoved
<1>7. CASE c.dev = Blk /\ [op |-> c.op, off |-> c.off, len |-> c.len, val |-> c.val] \in BlkCalls
  <2>1. c # NoCall
    BY NoCallAssumption DEF CallSet, Devices
  <2>2. OfBlk(f)'
    BY <1>3, <1>7, <2>1 DEF OfBlk, Dev
  <2>3. ~ Committed(f)'
    BY <1>3 DEF Committed
  <2>4. CallOf(f)' \in BlkCalls
    BY <1>3, <1>7, <2>2 DEF CallOf
  <2>5. DoneOf(f)' = 0 /\ OutOf(f)' = <<>>
    BY <1>1, <1>4, <2>2, <2>3 DEF DoneOf, OutOf
  <2> QED BY <1>1, <1>5, <1>6, <2>4, <2>5, StoreStarts
<1>8. CASE c.dev = Rng
  <2>1. (~ OfBlk(f))'
    BY <1>3, <1>8, DeviceAssumption DEF OfBlk, Dev
  <2>2. Unmoved(f)
    BY <1>5, <2>1, NotOfBlk DEF Unmoved
  <2> QED BY <1>1, <1>6, <2>2, StoreStutters
<1> QED BY <1>7, <1>8

\* On the way to its request a call does nothing that the store sees, unless
\* it fails.
LEMMA ApproachRefines ==
  ASSUME IInv, View, View', NEW f \in Flows, Approach(f)
  PROVE  Store0!Next \/ UNCHANGED Store0!vars
<1>1. FlowTypes
  BY DEF IInv, Types
<1>2. /\ pc[f] \notin {"idle", "wait"} /\ pc'[f] # "wait"
      /\ Finish(f, "Err") \/ UNCHANGED flowVars
      /\ \A g \in Flows \ {f} : pc'[g] = pc[g]
      /\ UNCHANGED <<chain, disk, st, last_used>>
      /\ \A g \in Flows : pc[g] = "wait" => q'[Dev(g)] = q[Dev(g)] /\ busy'[Dev(g)] = busy[Dev(g)]
  BY ApproachFacts
<1>3. \A g \in Flows \ {f} :
        /\ call'[g] = call[g] /\ done'[g] = done[g] /\ out'[g] = out[g]
        /\ sector_buf'[g] = sector_buf[g] /\ back'[g] = back[g]
  <2>1. CASE Finish(f, "Err")
    BY <1>1, <2>1, FinishFacts
  <2>2. CASE UNCHANGED flowVars
    BY <2>2 DEF flowVars
  <2> QED BY <1>2, <2>1, <2>2
<1>4. ASSUME NEW g \in Flows \ {f} PROVE Unmoved(g)
  <2>1. pc[g] = "wait" => (Worked(g)' <=> Worked(g))
    <3>1. Dev(g)' = Dev(g)
      BY <1>3 DEF Dev
    <3> QED BY <1>2, <3>1 DEF Worked
  <2> QED BY <1>2, <1>3, <2>1, OthersUnmoved
<1>5. CASE Finish(f, "Err")
  BY <1>2, <1>4, <1>5, FinishRefines
<1>6. CASE UNCHANGED flowVars
  <2>1. ~ Finished(f) /\ ~ Finished(f)'
    BY <1>2 DEF Finished
  <2>2. Unmoved(f)
    BY <1>6, <2>1, UnmovedFrame DEF flowVars
  <2> QED BY <1>2, <1>4, <1>6, <2>2, StoreStutters DEF flowVars
<1> QED BY <1>2, <1>5, <1>6

\* Publishing a request is nothing that the store sees.
LEMMA SubmitRefines ==
  ASSUME IInv, View, View', NEW f \in Flows, Submit(f)
  PROVE  UNCHANGED Store0!vars
<1> DEFINE d == Dev(f)
<1>1. /\ pc[f] = "submit" /\ pc' = [pc EXCEPT ![f] = "wait"]
      /\ st' = [st EXCEPT ![f] = "unset"]
      /\ last_used' = [last_used EXCEPT ![f] = q[d].used]
      /\ q' = [q EXCEPT ![d].avail = (@ + 1) % IDX]
      /\ UNCHANGED <<call, done, out, sector_buf, back, busy, disk, result>>
  BY DEF Submit, flowVars, Goto
<1>2. FlowTypes /\ DevTypes /\ WaitTypes /\ CallInv
  BY DEF IInv, Types
<1>3. d \in Devices
  BY <1>1, <1>2, CallFacts
<1>4. /\ st'[f] = "unset" /\ \A e \in Devices \ {d} : q'[e] = q[e]
      /\ \A g \in Flows \ {f} : pc'[g] = pc[g] /\ st'[g] = st[g] /\ last_used'[g] = last_used[g]
  <2>1. \A g \in Flows \ {f} : pc'[g] = pc[g]
    BY <1>1, <1>2 DEF FlowTypes
  <2>2. st'[f] = "unset" /\ \A g \in Flows \ {f} : st'[g] = st[g] /\ last_used'[g] = last_used[g]
    BY <1>1, <1>2 DEF WaitTypes
  <2>3. \A e \in Devices \ {d} : q'[e] = q[e]
    BY <1>1, <1>2, <1>3 DEF DevTypes
  <2> QED BY <2>1, <2>2, <2>3
<1>5. ASSUME NEW g \in Flows \ {f} PROVE Unmoved(g)
  <2>1. ASSUME pc[g] = "wait" PROVE Worked(g)' <=> Worked(g)
    <3>1. Dev(g) \in Devices
      BY <1>2, <2>1, CallFacts
    <3>2. Dev(g) # d
      BY <1>1, <1>5, <2>1, HolderAlone DEF Holding
    <3>3. Dev(g)' = Dev(g)
      BY <1>1 DEF Dev
    <3> QED BY <1>1, <1>4, <3>1, <3>2, <3>3, SMT DEF Worked
  <2> QED BY <1>1, <1>4, <2>1, OthersUnmoved
<1>6. Unmoved(f)
  <2>1. ~ Finished(f) /\ ~ Finished(f)'
    BY <1>1, <1>4 DEF Finished
  <2> QED BY <1>1, <2>1, UnmovedFrame
<1> QED BY <1>1, <1>5, <1>6, StoreStutters

\* The answer: the piece was done when the device did it, so that going on to
\* the next one is nothing new, and the call returns Ok after its last piece.
LEMMA WaitUsedRefines ==
  ASSUME RInv, View, View', NEW f \in Flows, WaitUsed(f)
  PROVE  Store0!Next \/ UNCHANGED Store0!vars
<1> DEFINE elem == q[Dev(f)].ring[UsedSlot(Dev(f))]
<1>1. /\ pc[f] = "wait" /\ Answered(f) /\ Consume(f, elem)
      /\ st' = [st EXCEPT ![f] = "unset"]
      /\ last_used' = [last_used EXCEPT ![f] = 0]
      /\ UNCHANGED <<q, busy, disk>>
  BY DEF WaitUsed, devVars
<1>2. /\ IInv /\ OutInv /\ FlowTypes /\ DevTypes /\ WaitTypes /\ CallInv /\ CallOk(f)
  BY DEF RInv, IInv, Types, CallInv
<1>3. elem.len \in Nat
  <2>1. Dev(f) \in Devices
    BY <1>1, <1>2, CallFacts
  <2> QED BY <1>2, <2>1, UsedElem
<1> HIDE DEF elem
<1>4. \A g \in Flows \ {f} :
        /\ pc'[g] = pc[g] /\ call'[g] = call[g] /\ done'[g] = done[g] /\ out'[g] = out[g]
        /\ sector_buf'[g] = sector_buf[g] /\ back'[g] = back[g]
  BY <1>1, <1>2, <1>3, ConsumeFacts
<1>5. ASSUME NEW g \in Flows \ {f} PROVE Unmoved(g)
  <2>1. st'[g] = st[g] /\ last_used'[g] = last_used[g]
    BY <1>1, <1>2 DEF WaitTypes
  <2>2. Worked(g)' <=> Worked(g)
    BY <1>1, <1>4, <2>1 DEF Worked, Dev
  <2> QED BY <1>1, <1>4, <2>1, <2>2, OthersUnmoved
<1>6. /\ call[f].op \in {"read", "write", "fill"} /\ call[f].len \in Nat /\ Dev(f) \in Devices
      /\ call[f].op = "fill" <=> Dev(f) = Rng
      /\ call[f].op # "fill" => Dev(f) = Blk
  <2>1. call[f].op \in {"read", "write", "fill"} /\ call[f].len \in Nat /\ Dev(f) \in Devices
    BY <1>1, <1>2, CallFacts
  <2>2. call[f].op = "fill" <=> Dev(f) = Rng
    BY <1>1, <1>2 DEF CallOk
  <2> QED BY <2>1, <2>2 DEF Devices
<1>7. Rest(f) \in Nat \ {0} /\ Count(f) \in Nat \ {0} /\ Count(f) =< Rest(f)
  BY <1>1, <1>2, PieceFacts
<1>8. Worked(f)
  BY <1>1 DEF Answered, Worked
<1>9. CASE Finish(f, "Err")
  BY <1>1, <1>2, <1>5, <1>9, FinishRefines
<1>10. CASE call[f].op = "fill"
            /\ \/ Rest(f) = Written(f, elem) /\ Finish(f, "Ok")
               \/ Rest(f) # Written(f, elem) /\ NextPiece(f, Written(f, elem), <<>>)
  <2>1. Dev(f) # Blk
    BY <1>6, <1>10, DeviceAssumption
  <2>2. CASE Finish(f, "Ok")
    BY <1>1, <1>2, <1>5, <2>1, <2>2, FinishRefines
  <2>3. CASE NextPiece(f, Written(f, elem), <<>>)
    <3>1. call' = call /\ result' = result
      BY <2>3 DEF NextPiece
    <3>2. ~ OfBlk(f) /\ (~ OfBlk(f))'
      BY <2>1, <3>1 DEF OfBlk, Dev
    <3>3. Unmoved(f)
      BY <3>2, NotOfBlk DEF Unmoved
    <3> QED BY <1>1, <1>5, <3>1, <3>3, StoreStutters
  <2> QED BY <1>10, <2>2, <2>3
<1>11. CASE /\ call[f].op # "fill" /\ st[f] = "OK"
            /\ call[f].op = "read" \/ RequestType(f) = "out"
            /\ \/ Rest(f) = Count(f) /\ Finish(f, "Ok")
               \/ Rest(f) # Count(f) /\ call[f].op = "read" /\ NextPiece(f, Count(f), Bytes(f))
               \/ Rest(f) # Count(f) /\ call[f].op = "write" /\ NextPiece(f, Count(f), <<>>)
  <2>1. Finished(f) /\ Dev(f) = Blk
    BY <1>1, <1>6, <1>8, <1>11 DEF Finished
  <2>2. CASE Rest(f) = Count(f) /\ Finish(f, "Ok")
    BY <1>1, <1>2, <1>5, <2>1, <2>2, FinishRefines
  <2>3. ASSUME NEW got, Rest(f) # Count(f), NextPiece(f, Count(f), got),
               OutOf(f) = out[f] \o got
        PROVE  Store0!Next \/ UNCHANGED Store0!vars
    <3>1. /\ pc'[f] = "check" /\ call' = call /\ done'[f] = done[f] + Count(f)
          /\ out'[f] = out[f] \o got
      <4>1. Count(f) < Rest(f)
        BY <1>7, <2>3, SMT
      <4> QED BY <1>1, <1>2, <1>6, <1>7, <2>3, <4>1, NextPieceFacts
    <3>2. result' = result
      BY <2>3 DEF NextPiece
    <3>3. OfBlk(f) /\ OfBlk(f)' /\ Committed(f) /\ ~ Committed(f)'
      <4>1. OfBlk(f)
        BY <1>1, <1>2, <2>1, CallOfFacts
      <4> QED BY <2>1, <3>1, <4>1 DEF OfBlk, Dev, View, Committed
    <3>4. Unmoved(f)
      <4>1. CallOf(f)' = CallOf(f)
        BY <3>1, <3>3 DEF CallOf
      <4>2. DoneOf(f)' = DoneOf(f)
        BY <3>1, <3>3 DEF DoneOf
      <4>3. OutOf(f)' = OutOf(f)
        BY <2>3, <3>1, <3>3 DEF OutOf
      <4> QED BY <4>1, <4>2, <4>3 DEF Unmoved
    <3> QED BY <1>1, <1>5, <3>2, <3>4, StoreStutters
  <2>4. OfBlk(f) /\ Committed(f)
    BY <1>1, <1>2, <2>1, CallOfFacts DEF View
  <2>5. call[f].op = "read" => OutOf(f) = out[f] \o Bytes(f)
    BY <2>4 DEF OutOf
  <2>6. call[f].op = "write" => OutOf(f) = out[f] \o <<>>
    <3>1. call[f].op = "write" => out[f] = <<>>
      BY <1>1, <1>2 DEF OutInv
    <3> QED BY <2>4, <3>1, SMT DEF OutOf
  <2> QED BY <1>11, <2>2, <2>3, <2>5, <2>6
<1>12. CASE call[f].op = "write" /\ RequestType(f) = "in" /\ ReadBack(f)
  <2>1. pc'[f] = "check" /\ UNCHANGED <<call, done, out>>
    BY <1>1, <1>2, <1>12, ReadBackFacts
  <2>2. result' = result
    BY <1>12 DEF ReadBack
  <2>3. ~ Finished(f) /\ ~ Finished(f)'
    BY <1>12, <2>1 DEF Finished
  <2>4. Unmoved(f)
    BY <2>1, <2>3, UnmovedFrame
  <2> QED BY <1>1, <1>5, <2>2, <2>4, StoreStutters
<1> QED BY <1>1, <1>6, <1>9, <1>10, <1>11, <1>12, ConsumeCases

\* Publishing the answer is nothing that the store sees.
LEMMA PublishRefines ==
  ASSUME IInv, View, View', NEW d \in Devices, Publish(d)
  PROVE  UNCHANGED Store0!vars
<1>1. /\ busy[d] /\ busy' = [busy EXCEPT ![d] = FALSE]
      /\ q' = [q EXCEPT ![d].used = (@ + 1) % IDX]
      /\ UNCHANGED <<pc, call, done, out, sector_buf, back, st, last_used, disk, result>>
  BY DEF Publish, flowVars
<1>2. DevTypes /\ FlowTypes /\ CallInv /\ WaitTypes
  BY DEF IInv, Types
<1>3. ASSUME NEW g \in Flows PROVE Unmoved(g)
  <2>1. ASSUME pc[g] = "wait" PROVE Worked(g)' <=> Worked(g)
    <3>1. Dev(g) \in Devices
      BY <1>2, <2>1, CallFacts
    <3>2. Dev(g)' = Dev(g)
      BY <1>1 DEF Dev
    <3>3. CASE Dev(g) = d
      <4>1. busy[d] = TRUE
        BY <1>1, <1>2 DEF DevTypes
      <4>2. q[d].used = last_used[g]
        BY <2>1, <3>3, <4>1 DEF IInv, QueueInv, QueueOk, Waits, Stage
      <4>3. q[d].used \in Indices /\ q'[d].used = (q[d].used + 1) % IDX
        BY <1>1, <1>2 DEF DevTypes, QueueSet
      <4>4. q'[d].used # last_used[g]
        BY <4>2, <4>3, NextIndex
      <4> QED BY <1>1, <3>2, <3>3, <4>1, <4>4 DEF Worked
    <3>4. CASE Dev(g) # d
      <4>1. busy'[Dev(g)] = busy[Dev(g)] /\ q'[Dev(g)] = q[Dev(g)]
        BY <1>1, <1>2, <3>1, <3>4 DEF DevTypes
      <4> QED BY <1>1, <3>2, <4>1 DEF Worked
    <3> QED BY <3>3, <3>4
  <2> QED BY <1>1, <2>1, OthersUnmoved
<1> QED BY <1>1, <1>3, StoreStutters

\* The device does the piece: this is the step of the store.  A read gets the
\* bytes that are on the disk, and a write changes those of the call.
LEMMA ProcessRefines ==
  ASSUME RInv, View, View', NEW d \in Devices, Process(d)
  PROVE  Store0!Next \/ UNCHANGED Store0!vars
<1>0. PICK f : f = chain[d].owner
  OBVIOUS
<1>1. UNCHANGED <<chain, pc, call, done, out, back, last_used, result>>
  BY DEF Process
<1>2. /\ IInv /\ DataInv /\ DiskNumbers /\ DevTypes /\ FlowTypes /\ WaitTypes /\ CallInv
  BY DEF RInv, IInv, Types
<1>3. /\ f \in Flows /\ Waits(f, d) /\ busy[d] = FALSE /\ q[d].used = last_used[f]
      /\ busy'[d] = TRUE
      /\ \A e \in Devices \ {d} : q'[e] = q[e] /\ busy'[e] = busy[e]
      /\ \A g \in Flows \ {f} : st'[g] = st[g] /\ sector_buf'[g] = sector_buf[g]
  BY <1>0, <1>2, ProcessFacts
<1>4. /\ pc[f] = "wait" /\ Dev(f) = d /\ chain[d].type = RequestType(f) /\ chain[d].sector = Sector(f)
      /\ BackOk(f)
  BY <1>2, <1>3 DEF Waits, DataInv, DataOk, ChainOk
<1>5. \/ /\ RequestType(f) = "in" /\ disk' = disk
         /\ sector_buf' = [sector_buf EXCEPT ![f] = SectorBytes(Sector(f))]
         /\ st' = [st EXCEPT ![f] = "OK"]
      \/ /\ RequestType(f) = "out" /\ st' = [st EXCEPT ![f] = "OK"]
         /\ disk' = [i \in DOMAIN disk |->
               IF i \in (Sector(f) * SECTOR_SIZE) .. (Sector(f) * SECTOR_SIZE + SECTOR_SIZE - 1)
               THEN DataOut(f)[i - Sector(f) * SECTOR_SIZE] ELSE disk[i]]
      \/ /\ disk' = disk
         /\ st' = [st EXCEPT ![f] = "IOERR"] \/ RequestType(f) = "fill"
  BY <1>0, <1>4 DEF Process
<1>6. ASSUME NEW g \in Flows \ {f} PROVE Unmoved(g)
  <2>1. ASSUME pc[g] = "wait" PROVE Worked(g)' <=> Worked(g)
    <3>1. Dev(g) \in Devices
      BY <1>2, <2>1, CallFacts
    <3>2. Dev(g) # d
      BY <1>2, <1>3, <1>4, <1>6, <2>1, HolderAlone DEF Holding
    <3>3. Dev(g)' = Dev(g)
      BY <1>1 DEF Dev
    <3> QED BY <1>1, <1>3, <3>1, <3>2, <3>3 DEF Worked
  <2> QED BY <1>1, <1>3, <2>1, OthersUnmoved
<1>7. /\ call'[f] = call[f] /\ done'[f] = done[f] /\ out'[f] = out[f] /\ back'[f] = back[f]
      /\ pc'[f] = "wait"
  BY <1>1, <1>4
<1>8. /\ Dev(f)' = d /\ Sector(f)' = Sector(f) /\ Shift(f)' = Shift(f) /\ Count(f)' = Count(f)
      /\ RequestType(f)' = RequestType(f)
  BY <1>3, <1>4, <1>7, PieceSame
<1>9. ~ Finished(f) /\ ~ Committed(f)
  BY <1>3, <1>4 DEF Finished, Worked, View
<1>10. ASSUME ~ Finished(f)', disk' = disk PROVE UNCHANGED Store0!vars
  <2>1. Unmoved(f)
    BY <1>3, <1>7, <1>9, <1>10, UnmovedFrame
  <2> QED BY <1>1, <1>6, <1>10, <2>1, StoreStutters
<1>11. /\ call[f].op \in {"read", "write", "fill"}
       /\ call[f].op = "fill" <=> d = Rng
       /\ RequestType(f) = "fill" <=> call[f].op = "fill"
       /\ RequestType(f) = "out" => call[f].op = "write"
  <2>1. call[f].op \in {"read", "write", "fill"}
    BY <1>2, <1>3, <1>4, CallFacts
  <2>2. call[f].op = "fill" <=> d = Rng
    BY <1>2, <1>3, <1>4 DEF CallInv, CallOk
  <2> QED BY <2>1, <2>2 DEF RequestType
<1>12. ASSUME d = Blk, st'[f] = "OK", RequestType(f) = "out" \/ call[f].op = "read"
       PROVE  /\ CallOf(f)' = CallOf(f) /\ DoneOf(f)' = done[f] + Count(f)
              /\ OutOf(f)' = IF call[f].op = "read" THEN out[f] \o Bytes(f)' ELSE out[f]
  <2>1. Finished(f)'
    <3>1. Worked(f)'
      BY <1>3, <1>8 DEF Worked
    <3> QED BY <1>7, <1>8, <1>12, <3>1 DEF Finished
  <2>2. Committed(f)'
    BY <1>3, <2>1 DEF View
  <2>3. OfBlk(f) /\ OfBlk(f)'
    <3>1. OfBlk(f)
      BY <1>2, <1>3, <1>4, <1>12, CallOfFacts
    <3> QED BY <1>7, <3>1 DEF OfBlk, Dev
  <2>4. CallOf(f)' = CallOf(f)
    BY <1>7, <2>3 DEF CallOf
  <2>5. DoneOf(f)' = done[f] + Count(f)
    BY <1>7, <1>8, <2>2, <2>3 DEF DoneOf
  <2>6. OutOf(f)' = IF call[f].op = "read" THEN out[f] \o Bytes(f)' ELSE out[f]
    BY <1>7, <2>2, <2>3 DEF OutOf
  <2> QED BY <2>4, <2>5, <2>6
<1>13. CASE /\ RequestType(f) = "in" /\ disk' = disk /\ st' = [st EXCEPT ![f] = "OK"]
            /\ sector_buf' = [sector_buf EXCEPT ![f] = SectorBytes(Sector(f))]
  <2>1. d = Blk
    BY <1>11, <1>13 DEF Devices
  <2>2. CASE call[f].op = "write"
    <3>1. ~ Finished(f)'
      BY <1>7, <1>8, <1>13, <2>2 DEF Finished
    <3> QED BY <1>10, <1>13, <3>1
  <2>3. CASE call[f].op = "read"
    <3>1. st'[f] = "OK" /\ sector_buf'[f] = SectorBytes(Sector(f))
      BY <1>2, <1>3, <1>13 DEF WaitTypes, FlowTypes
    <3>2. Bytes(f)' = [i \in 1 .. Count(f) |-> disk[Pos(f) + i - 1]]
      <4>1. /\ Sector(f) \in Nat /\ Shift(f) \in 0 .. (SECTOR_SIZE - 1) /\ Count(f) \in Nat \ {0}
            /\ Pos(f) = Sector(f) * SECTOR_SIZE + Shift(f) /\ Shift(f) + Count(f) =< SECTOR_SIZE
        BY <1>2, <1>3, <1>4, PieceFacts
      <4>2. Bytes(f)' = [i \in 1 .. Count(f) |-> SectorBytes(Sector(f))[Shift(f) + i - 1]]
        BY <1>8, <3>1 DEF Bytes
      <4>3. ASSUME NEW i \in 1 .. Count(f)
            PROVE  SectorBytes(Sector(f))[Shift(f) + i - 1] = disk[Pos(f) + i - 1]
        <5> DEFINE base == Sector(f) * SECTOR_SIZE
        <5>1. base \in Nat
          BY <4>1, SectorAssumption, SMT
        <5>2. Shift(f) + i - 1 \in 0 .. (SECTOR_SIZE - 1)
          BY <4>1, SectorAssumption, SMT
        <5>3. SectorBytes(Sector(f))[Shift(f) + i - 1] = disk[base + (Shift(f) + i - 1)]
          BY <5>2 DEF SectorBytes
        <5> HIDE DEF base
        <5>4. Pos(f) = base + Shift(f)
          BY <4>1 DEF base
        <5>5. base + (Shift(f) + i - 1) = Pos(f) + i - 1
          BY <4>1, <5>1, <5>4, SMT
        <5> QED BY <5>3, <5>5
      <4> QED BY <4>2, <4>3
    <3>3. /\ CallOf(f)' = CallOf(f) /\ DoneOf(f)' = done[f] + Count(f)
          /\ OutOf(f)' = out[f] \o [i \in 1 .. Count(f) |-> disk[Pos(f) + i - 1]]
      BY <1>12, <2>1, <2>3, <3>1, <3>2
    <3> QED BY <1>1, <1>2, <1>3, <1>4, <1>6, <1>9, <1>13, <2>1, <2>3, <3>3, StoreSteps
  <2> QED BY <1>11, <1>13, <2>2, <2>3
<1>14. CASE /\ RequestType(f) = "out" /\ st' = [st EXCEPT ![f] = "OK"]
            /\ disk' = [i \in DOMAIN disk |->
               IF i \in (Sector(f) * SECTOR_SIZE) .. (Sector(f) * SECTOR_SIZE + SECTOR_SIZE - 1)
               THEN DataOut(f)[i - Sector(f) * SECTOR_SIZE] ELSE disk[i]]
  <2>1. d = Blk /\ call[f].op = "write"
    BY <1>11, <1>14 DEF Devices
  <2>2. st'[f] = "OK"
    BY <1>2, <1>3, <1>14 DEF WaitTypes
  <2>3. /\ CallOf(f)' = CallOf(f) /\ DoneOf(f)' = done[f] + Count(f) /\ OutOf(f)' = out[f]
    BY <1>12, <1>14, <2>1, <2>2
  <2>4. disk' = [i \in DOMAIN disk |->
                   IF i \in Pos(f) .. (Pos(f) + Count(f) - 1) THEN call[f].val ELSE disk[i]]
    BY <1>2, <1>3, <1>4, <1>14, OutFacts DEF DiskNumbers
  <2> QED BY <1>1, <1>2, <1>3, <1>4, <1>6, <1>9, <2>1, <2>3, <2>4, StoreSteps
<1>15. CASE /\ disk' = disk
            /\ st' = [st EXCEPT ![f] = "IOERR"] \/ RequestType(f) = "fill"
  <2>1. ~ Finished(f)'
    <3>1. CASE st' = [st EXCEPT ![f] = "IOERR"]
      BY <1>2, <1>3, <3>1 DEF WaitTypes, Finished
    <3>2. CASE RequestType(f) = "fill"
      BY <1>8, <1>11, <3>2, DeviceAssumption DEF Finished
    <3> QED BY <1>15, <3>1, <3>2
  <2> QED BY <1>10, <1>15, <2>1
<1> QED BY <1>5, <1>13, <1>14, <1>15

\* StoreRefined: read_at and write_at of the block device implement a store
\* whose sectors are read and written at once: Devices implements BlockStore.
THEOREM StoreTheorem == Spec => StoreRefined
<1>1. Init => Store0!Init
  <2> SUFFICES ASSUME Init PROVE Store0!Init
    OBVIOUS
  <2>1. /\ call = [f \in Flows |-> NoCall] /\ result = "none"
        /\ disk = [i \in 0 .. (Sectors * SECTOR_SIZE - 1) |-> 0]
    BY DEF Init, VirtioInit
  <2>2. ASSUME NEW f \in Flows PROVE CallOf(f) = NoCall /\ DoneOf(f) = 0 /\ OutOf(f) = <<>>
    BY <2>1, NotOfBlk DEF OfBlk
  <2>3. 0 \in {c.val : c \in BlkCalls}
    <3> DEFINE t == <<"read", 0, 1>>
               r == [op |-> t[1], off |-> t[2], len |-> t[3], val |-> ValueOf(t[1])]
    <3>1. r \in BlkCalls
      BY DEF BlkCalls
    <3>2. r.val = 0
      BY DEF ValueOf
    <3> QED BY <3>1, <3>2
  <2>4. \A i \in DOMAIN disk : disk[i] = 0
    BY <2>1
  <2>5. /\ [f \in Flows |-> CallOf(f)] = [f \in Flows |-> NoCall]
        /\ [f \in Flows |-> DoneOf(f)] = [f \in Flows |-> 0]
        /\ [f \in Flows |-> OutOf(f)] = [f \in Flows |-> <<>>]
    BY <2>2
  <2> QED BY <2>1, <2>3, <2>4, <2>5 DEF Store0!Init
<1>2. RInv /\ View /\ View' /\ [Next]_allVars => [Store0!Next]_(Store0!vars)
  <2> SUFFICES ASSUME RInv, View, View', [Next]_allVars
               PROVE  Store0!Next \/ UNCHANGED Store0!vars
    OBVIOUS
  <2>1. IInv
    BY DEF RInv
  <2>2. CASE UNCHANGED vars
    <3>1. UNCHANGED <<q, busy, pc, call, done, out, sector_buf, back, st, last_used, disk, result>>
      BY <2>2 DEF vars, devVars, flowVars
    <3>2. ASSUME NEW f \in Flows PROVE Unmoved(f)
      <4>1. Worked(f)' <=> Worked(f)
        BY <3>1 DEF Worked, Dev
      <4> QED BY <3>1, <4>1, OthersUnmoved
    <3> QED BY <3>1, <3>2, StoreStutters
  <2>3. ASSUME NEW f \in Flows, NEW c \in CallSet, Begin(f, c),
               \/ c.op = "fill" /\ c.dev = Rng
               \/ c.dev = Blk /\ [op |-> c.op, off |-> c.off, len |-> c.len, val |-> c.val] \in BlkCalls
        PROVE  Store0!Next \/ UNCHANGED Store0!vars
    BY <2>1, <2>3, BeginRefines
  <2>4. ASSUME NEW f \in Flows, Approach(f) PROVE Store0!Next \/ UNCHANGED Store0!vars
    BY <2>1, <2>4, ApproachRefines
  <2>5. ASSUME NEW f \in Flows, Submit(f) PROVE UNCHANGED Store0!vars
    BY <2>1, <2>5, SubmitRefines
  <2>6. ASSUME NEW f \in Flows, WaitUsed(f) PROVE Store0!Next \/ UNCHANGED Store0!vars
    BY <2>6, WaitUsedRefines
  <2>7. ASSUME NEW d \in Devices, Process(d) PROVE Store0!Next \/ UNCHANGED Store0!vars
    BY <2>7, ProcessRefines
  <2>8. ASSUME NEW d \in Devices, Publish(d) PROVE UNCHANGED Store0!vars
    BY <2>1, <2>8, PublishRefines
  <2> QED BY <2>2, <2>3, <2>4, <2>5, <2>6, <2>7, <2>8, NextCases
<1>3. RInv => View
  BY ViewHolds DEF RInv
<1> QED BY <1>1, <1>2, <1>3, DataInductive, PTL DEF Spec, StoreRefined, Store0!Spec

=============================================================================
