------------------------------- MODULE Locks -------------------------------
(***************************************************************************)
(* The synchronisation primitives of src/sync: RwLock, SpinLock, OnceLock  *)
(* under LazyLock, and PerCpu, with the interrupt flag (sstatus.SIE) that  *)
(* three of them clear.                                                    *)
(*                                                                         *)
(* A flow is the code that runs on a hart outside a handler ("task") or    *)
(* the interrupt handler of that hart ("irq"); the handler suspends the    *)
(* task until it returns.  Every atomic operation of the code is a step of *)
(* its own.  A flow nests guards of any locks and slots and, as Rust       *)
(* scopes do, drops the innermost first.  Locks are numbered: a flow takes *)
(* them in rising order, since RwLock and SpinLock do nothing against      *)
(* deadlock; a PerCpu slot waits for nobody and may come at any depth, as  *)
(* in slub.rs, which locks the frame allocator under the slot of its hart. *)
(* A round of a spin loop that finds nothing changed is a stuttering step. *)
(***************************************************************************)
EXTENDS Integers, Sequences, FiniteSets

CONSTANTS Harts,
          RwLocks, SpinLocks, PerCpus,   \* the statics of each type, numbers
          MaxNest                        \* how many guards a flow owns at a time
ASSUME HartsAssumption == IsFiniteSet(Harts)
ASSUME LocksAssumption ==
  /\ RwLocks \cup SpinLocks \cup PerCpus \subseteq Int
  /\ RwLocks \cap SpinLocks = {} /\ (RwLocks \cup SpinLocks) \cap PerCpus = {}

VARIABLES
  state,            \* RwLock.state
  waiting_writers,  \* RwLock.waiting_writers
  lock,             \* SpinLock.lock
  status,           \* OnceLock.status
  init,             \* LazyLock.init is Some
  sie,              \* sstatus.SIE of each hart
  irq,              \* the harts that run their handler
  pc,               \* where each flow is
  snap,             \* the local `state` of RwLock::read
  stack             \* the guards of each flow, innermost last; the last one
                    \* is still to be had while its flow is Acquiring

vars == <<state, waiting_writers, lock, status, init, sie, irq, pc, snap, stack>>

Flows == Harts \X {"task", "irq"}

\* A guard: what it gives, of which static, and its sie field.
Guard == [kind : {"read", "write"}, lock : RwLocks, sie : BOOLEAN]
           \cup [kind : {"spin"}, lock : SpinLocks, sie : BOOLEAN]
           \cup [kind : {"cpu"}, lock : PerCpus, sie : BOOLEAN]

WRITER == 1
READER == 2

HartOf(f) == f[1]

\* The flow that has its hart: the handler while it is active.
Runs(f) == (f[2] = "irq") = irq[f[1]]

\* Waiting for a guard, interrupts already disabled.
Acquiring == {"read.check", "read.load", "read.cas", "write.add", "write.cas",
              "write.sub", "spin.cas"}
Locations == Acquiring \cup {"idle", "once.cas", "once.init", "once.store"}

Goto(f, l) == pc' = [pc EXCEPT ![f] = l]

Top(f) == stack[f][Len(stack[f])]

lockVars == <<state, waiting_writers, lock>>
onceVars == <<status, init>>
flowVars == <<sie, irq, snap, stack>>

-----------------------------------------------------------------------------
(* Interrupts and guards *)

\* The hart takes an interrupt and clears SIE.
Interrupt(h) ==
  /\ sie[h] /\ ~ irq[h]
  /\ irq' = [irq EXCEPT ![h] = TRUE]
  /\ sie' = [sie EXCEPT ![h] = FALSE]
  /\ UNCHANGED <<lockVars, onceVars, pc, snap, stack>>

\* sret: SIE gets the value it had before the trap.
Return(h) ==
  /\ irq[h] /\ pc[<<h, "irq">>] = "idle" /\ stack[<<h, "irq">>] = <<>>
  /\ irq' = [irq EXCEPT ![h] = FALSE]
  /\ sie' = [sie EXCEPT ![h] = TRUE]
  /\ UNCHANGED <<lockVars, onceVars, pc, snap, stack>>

\* f starts to take a guard of kind k of l, with disable_interrupt.
Take(f, k, l) ==
  /\ Runs(f) /\ pc[f] = "idle" /\ Len(stack[f]) < MaxNest
  /\ \A i \in DOMAIN stack[f] :
       /\ stack[f][i].lock # l
       /\ k # "cpu" /\ stack[f][i].kind # "cpu" => stack[f][i].lock < l
  /\ stack' = [stack EXCEPT ![f] = Append(@, [kind |-> k, lock |-> l, sie |-> sie[HartOf(f)]])]
  /\ sie' = [sie EXCEPT ![HartOf(f)] = FALSE]

\* Mutant: SIE is set whatever it was.
EnableAlways(f, g) == sie' = [sie EXCEPT ![HartOf(f)] = TRUE]

\* Mutant: the guards of a PerCpu do not restore it.
EnableLocksOnly(f, g) ==
  sie' = [sie EXCEPT ![HartOf(f)] = IF g.sie /\ g.kind # "cpu" THEN TRUE ELSE @]

\* enable_interrupt(self.sie) as the last step of dropping guard g
Enable(f, g) ==
  sie' = [sie EXCEPT ![HartOf(f)] = IF g.sie THEN TRUE ELSE @]

\* f drops its innermost guard, one of kind k.
Drop(f, k) ==
  /\ Runs(f) /\ pc[f] = "idle" /\ stack[f] # <<>> /\ Top(f).kind = k
  /\ stack' = [stack EXCEPT ![f] = SubSeq(@, 1, Len(@) - 1)]
  /\ Enable(f, Top(f))

-----------------------------------------------------------------------------
(* RwLock; snap, a local, is cleared after its last use *)

read(f, l) ==
  /\ Take(f, "read", l)
  /\ Goto(f, "read.check")
  /\ UNCHANGED <<lockVars, onceVars, irq, snap>>

\* Mutant: readers do not look at waiting_writers.
ReadCheckGreedy(f) ==
  /\ Runs(f) /\ pc[f] = "read.check"
  /\ Goto(f, "read.load")
  /\ UNCHANGED <<lockVars, onceVars, flowVars>>

ReadCheck(f) ==
  /\ Runs(f) /\ pc[f] = "read.check" /\ waiting_writers[Top(f).lock] = 0
  /\ Goto(f, "read.load")
  /\ UNCHANGED <<lockVars, onceVars, flowVars>>

ReadLoad(f) ==
  /\ Runs(f) /\ pc[f] = "read.load"
  /\ \/ /\ state[Top(f).lock] % READER = WRITER
        /\ Goto(f, "read.check")
        /\ UNCHANGED snap
     \/ /\ state[Top(f).lock] % READER # WRITER
        /\ snap' = [snap EXCEPT ![f] = state[Top(f).lock]]
        /\ Goto(f, "read.cas")
  /\ UNCHANGED <<lockVars, onceVars, sie, irq, stack>>

\* Mutant: a store in the place of the compare_exchange.
ReadCasStores(f) ==
  /\ Runs(f) /\ pc[f] = "read.cas"
  /\ state' = [state EXCEPT ![Top(f).lock] = snap[f] + READER]
  /\ Goto(f, "idle")
  /\ UNCHANGED <<waiting_writers, lock, onceVars, flowVars>>

ReadCas(f) ==
  /\ Runs(f) /\ pc[f] = "read.cas"
  /\ \/ /\ state[Top(f).lock] = snap[f]
        /\ state' = [state EXCEPT ![Top(f).lock] = @ + READER]
        /\ Goto(f, "idle")
     \/ /\ state[Top(f).lock] # snap[f]
        /\ Goto(f, "read.check")
        /\ UNCHANGED state
  /\ snap' = [snap EXCEPT ![f] = 0]
  /\ UNCHANGED <<waiting_writers, lock, onceVars, sie, irq, stack>>

write(f, l) ==
  /\ Take(f, "write", l)
  /\ Goto(f, "write.add")
  /\ UNCHANGED <<lockVars, onceVars, irq, snap>>

WriteAdd(f) ==
  /\ Runs(f) /\ pc[f] = "write.add"
  /\ waiting_writers' = [waiting_writers EXCEPT ![Top(f).lock] = @ + 1]
  /\ Goto(f, "write.cas")
  /\ UNCHANGED <<state, lock, onceVars, flowVars>>

WriteCas(f) ==
  /\ Runs(f) /\ pc[f] = "write.cas" /\ state[Top(f).lock] = 0
  /\ state' = [state EXCEPT ![Top(f).lock] = WRITER]
  /\ Goto(f, "write.sub")
  /\ UNCHANGED <<waiting_writers, lock, onceVars, flowVars>>

WriteSub(f) ==
  /\ Runs(f) /\ pc[f] = "write.sub"
  /\ waiting_writers' = [waiting_writers EXCEPT ![Top(f).lock] = @ - 1]
  /\ Goto(f, "idle")
  /\ UNCHANGED <<state, lock, onceVars, flowVars>>

DropRead(f) ==
  /\ Drop(f, "read")
  /\ state' = [state EXCEPT ![Top(f).lock] = @ - READER]
  /\ UNCHANGED <<waiting_writers, lock, onceVars, irq, pc, snap>>

DropWrite(f) ==
  /\ Drop(f, "write")
  /\ state' = [state EXCEPT ![Top(f).lock] = 0]
  /\ UNCHANGED <<waiting_writers, lock, onceVars, irq, pc, snap>>

-----------------------------------------------------------------------------
(* SpinLock and PerCpu *)

lock_spin(f, l) ==
  /\ Take(f, "spin", l)
  /\ Goto(f, "spin.cas")
  /\ UNCHANGED <<lockVars, onceVars, irq, snap>>

SpinCas(f) ==
  /\ Runs(f) /\ pc[f] = "spin.cas" /\ ~ lock[Top(f).lock]
  /\ lock' = [lock EXCEPT ![Top(f).lock] = TRUE]
  /\ Goto(f, "idle")
  /\ UNCHANGED <<state, waiting_writers, onceVars, flowVars>>

DropSpin(f) ==
  /\ Drop(f, "spin")
  /\ lock' = [lock EXCEPT ![Top(f).lock] = FALSE]
  /\ UNCHANGED <<state, waiting_writers, onceVars, irq, pc, snap>>

\* PerCpu::current: the slot of the hart, found by tp
current(f, p) ==
  /\ Take(f, "cpu", p)
  /\ UNCHANGED <<lockVars, onceVars, irq, pc, snap>>

DropCpu(f) ==
  /\ Drop(f, "cpu")
  /\ UNCHANGED <<lockVars, onceVars, irq, pc, snap>>

-----------------------------------------------------------------------------
(* OnceLock::get_or_init, called by LazyLock::force with init.take() as its *)
(* closure.  The cells that handlers use are forced before main sets SIE,   *)
(* and no cell is forced for the first time under a lock.                   *)

get_or_init(f) ==
  /\ Runs(f) /\ pc[f] = "idle" /\ status # "INITIALIZED"
  /\ f[2] = "task" /\ \A i \in DOMAIN stack[f] : stack[f][i].kind = "cpu"
  /\ Goto(f, "once.cas")
  /\ UNCHANGED <<lockVars, onceVars, flowVars>>

OnceCas(f) ==
  /\ Runs(f) /\ pc[f] = "once.cas"
  /\ \/ status = "UNINITIALIZED" /\ status' = "INITIALIZING" /\ Goto(f, "once.init")
     \/ status = "INITIALIZED" /\ Goto(f, "idle") /\ UNCHANGED status
  /\ UNCHANGED <<lockVars, init, flowVars>>

\* The closure: init.take().expect(..), then the value is written.
OnceInit(f) ==
  /\ Runs(f) /\ pc[f] = "once.init" /\ init
  /\ init' = FALSE
  /\ Goto(f, "once.store")
  /\ UNCHANGED <<lockVars, status, flowVars>>

OnceStore(f) ==
  /\ Runs(f) /\ pc[f] = "once.store"
  /\ status' = "INITIALIZED"
  /\ Goto(f, "idle")
  /\ UNCHANGED <<lockVars, init, flowVars>>

-----------------------------------------------------------------------------
Init ==
  /\ state = [l \in RwLocks |-> 0] /\ waiting_writers = [l \in RwLocks |-> 0]
  /\ lock = [l \in SpinLocks |-> FALSE]
  /\ status = "UNINITIALIZED" /\ init = TRUE
  /\ sie = [h \in Harts |-> TRUE]
  /\ irq = [h \in Harts |-> FALSE]
  /\ pc = [f \in Flows |-> "idle"]
  /\ snap = [f \in Flows |-> 0]
  /\ stack = [f \in Flows |-> <<>>]

DropInnermost(f) == DropRead(f) \/ DropWrite(f) \/ DropSpin(f) \/ DropCpu(f)

\* What a flow goes on to do once it has started.
Step(f) ==
  \/ ReadCheck(f) \/ ReadLoad(f) \/ ReadCas(f)
  \/ WriteAdd(f) \/ WriteCas(f) \/ WriteSub(f)
  \/ SpinCas(f)
  \/ DropInnermost(f)
  \/ OnceCas(f) \/ OnceInit(f) \/ OnceStore(f)

Begin(f) ==
  \/ \E l \in RwLocks : read(f, l) \/ write(f, l)
  \/ \E l \in SpinLocks : lock_spin(f, l)
  \/ \E p \in PerCpus : current(f, p)
  \/ get_or_init(f)

Next ==
  \/ \E f \in Flows : Step(f) \/ Begin(f)
  \/ \E h \in Harts : Interrupt(h) \/ Return(h)

Spec == Init /\ [][Next]_vars

\* A hart executes the flow that has it, and critical sections end, however
\* many inner guards they take: a hart that is again and again where it can
\* drop the only guard of its flow, or the second one, does so.  (The deepest
\* guard that MaxNest allows has no guards inside it.)
FairSpec ==
  /\ Spec
  /\ \A f \in Flows : WF_vars(Step(f))
  /\ \A h \in Harts, d \in 1..(MaxNest - 1) :
       SF_vars(\E f \in {h} \X {"task", "irq"} : Len(stack[f]) = d /\ DropInnermost(f))

-----------------------------------------------------------------------------
(* Properties *)

\* The atomics, the flags, the guards and the places have their types.
TypeOK ==
  /\ state \in [RwLocks -> Nat] /\ waiting_writers \in [RwLocks -> Nat]
  /\ lock \in [SpinLocks -> BOOLEAN] /\ init \in BOOLEAN
  /\ status \in {"UNINITIALIZED", "INITIALIZING", "INITIALIZED"}
  /\ sie \in [Harts -> BOOLEAN] /\ irq \in [Harts -> BOOLEAN]
  /\ pc \in [Flows -> Locations]
  /\ snap \in [Flows -> Nat]
  /\ stack \in [Flows -> Seq(Guard)]

\* f has a guard of kind k of l, and is not just about to get it.
Owns(f, k, l) ==
  \E i \in DOMAIN stack[f] :
    /\ stack[f][i].kind = k /\ stack[f][i].lock = l
    /\ i = Len(stack[f]) => pc[f] \notin Acquiring

Waits(f, k, l) == pc[f] = k /\ Top(f).lock = l

Readers(l) == {f \in Flows : Owns(f, "read", l)}
Writers(l) == {f \in Flows : Owns(f, "write", l) \/ Waits(f, "write.sub", l)}

\* A writer is alone, a SpinLock and a slot of a hart have one user, and the
\* closure of a LazyLock is run by one flow while it is still there: no value
\* is reached through two guards of which one may write.
MutualExclusion ==
  /\ \A l \in RwLocks : \A f \in Writers(l) : Readers(l) = {} /\ Writers(l) = {f}
  /\ \A l \in SpinLocks, f, g \in Flows : Owns(f, "spin", l) /\ Owns(g, "spin", l) => f = g
  /\ \A p \in PerCpus, h \in Harts :
       ~ (Owns(<<h, "task">>, "cpu", p) /\ Owns(<<h, "irq">>, "cpu", p))
  /\ \A f, g \in Flows :
       /\ pc[f] \in {"once.init", "once.store"} /\ pc[g] \in {"once.init", "once.store"} => f = g
       /\ pc[f] = "once.init" => init

\* The code that a handler has interrupted owns no guard and is not about to
\* get one, so the handler never waits for its own hart (the comments on
\* RwLock and SpinLock::lock: interrupts are off while the lock is held).
HandlerNeverWaitsForItsHart ==
  \A h \in Harts : irq[h] => stack[<<h, "task">>] = <<>>

\* A task that owns no guard and waits for none can be interrupted: whatever
\* order of nested locks and slots it went through, the flag is back where it
\* was (disable_interrupt's result, which every guard's Drop restores).
InterruptsRestored ==
  \A h \in Harts : ~ irq[h] /\ stack[<<h, "task">>] = <<>> => sie[h]

\* An owner of the RwLock waits for another lock: SpinLock promises no order.
OwnerWaits(l) == \E f \in Readers(l) \cup Writers(l) : pc[f] \in Acquiring \ {"write.sub"}

\* While a writer waits, some writer gets the lock, however many readers come
\* (the module comment of rwlock.rs: writers are not starved by readers).
WriterEnters ==
  \A l \in RwLocks :
    (\E f \in Flows : Waits(f, "write.cas", l))
      ~> (OwnerWaits(l) \/ \E f \in Flows : Waits(f, "write.sub", l))

=============================================================================
