---------------------------- MODULE LocksProofs ----------------------------
(***************************************************************************)
(* Proofs about the locks, for every finite set of harts, any locks and    *)
(* slots, and every depth and order of nesting.  The inductive invariant   *)
(* has a part for the stacks of guards, for SpinLock and OnceLock, for the *)
(* counters of RwLock and for the interrupt flag with the values that the  *)
(* guards have saved.                                                      *)
(***************************************************************************)
EXTENDS Locks, FiniteSetTheorems, TLAPS

\* The prover of the steps that name none.
USE ZenonT(30)

-----------------------------------------------------------------------------
(* Types *)

\* TypeOK but for the counters, which are natural numbers only because of
\* what they count.
Types ==
  /\ state \in [RwLocks -> Int] /\ waiting_writers \in [RwLocks -> Int]
  /\ lock \in [SpinLocks -> BOOLEAN] /\ init \in BOOLEAN
  /\ status \in {"UNINITIALIZED", "INITIALIZING", "INITIALIZED"}
  /\ sie \in [Harts -> BOOLEAN] /\ irq \in [Harts -> BOOLEAN]
  /\ pc \in [Flows -> Locations]
  /\ snap \in [Flows -> Int]
  /\ stack \in [Flows -> Seq(Guard)]

\* A flow that waits has the guard it waits for on top of its stack, and no
\* two guards of a stack are of the same lock or slot.
StackedFlow(f) ==
  /\ pc[f] \in Acquiring => stack[f] # <<>>
  /\ pc[f] \in {"read.check", "read.load", "read.cas"} => Top(f).kind = "read"
  /\ pc[f] \in {"write.add", "write.cas", "write.sub"} => Top(f).kind = "write"
  /\ pc[f] = "spin.cas" => Top(f).kind = "spin"
  /\ \A i, j \in DOMAIN stack[f] : stack[f][i].lock = stack[f][j].lock => i = j
Stacked == \A f \in Flows : StackedFlow(f)

\* A flow is a hart and one of its two roles.
LEMMA FlowPairs ==
  /\ \A f \in Flows : f = <<f[1], f[2]>> /\ f[1] \in Harts /\ f[2] \in {"task", "irq"}
  /\ \A h \in Harts : <<h, "task">> \in Flows /\ <<h, "irq">> \in Flows
BY SMT DEF Flows

\* What the kind of a guard says about its lock.
LEMMA GuardKinds ==
  ASSUME NEW g \in Guard
  PROVE  /\ g.sie \in BOOLEAN
         /\ g.kind \in {"read", "write"} => g.lock \in RwLocks
         /\ g.kind = "spin" => g.lock \in SpinLocks
BY SMT DEF Guard

\* The operation for guards of kind k makes guards of l.
Made(k, l) == \A b \in BOOLEAN : [kind |-> k, lock |-> l, sie |-> b] \in Guard

\* The guards that the operations of a kind make.
LEMMA GuardMade ==
  /\ \A l \in RwLocks : Made("read", l) /\ Made("write", l)
  /\ \A l \in SpinLocks : Made("spin", l)
  /\ \A p \in PerCpus : Made("cpu", p)
BY SMT DEF Guard, Made

\* The top of a stack that has one.
LEMMA TopIs ==
  ASSUME Types, NEW f \in Flows, stack[f] # <<>>
  PROVE  /\ Len(stack[f]) \in DOMAIN stack[f] /\ Len(stack[f]) >= 1
         /\ Top(f) \in Guard
<1>1. stack[f] \in Seq(Guard)
  BY DEF Types
<1> QED BY <1>1, SMT DEF Top

\* A sequence without its last element.
LEMMA Popped ==
  ASSUME NEW S, NEW s \in Seq(S), s # <<>>
  PROVE  LET t == SubSeq(s, 1, Len(s) - 1)
         IN  /\ t \in Seq(S) /\ Len(s) \in Nat \ {0} /\ Len(t) = Len(s) - 1
             /\ DOMAIN s = 1..Len(s) /\ DOMAIN t = 1..Len(t)
             /\ \A i \in 1..Len(t) : t[i] = s[i]
             /\ t = <<>> <=> Len(s) = 1
<1> DEFINE t == SubSeq(s, 1, Len(s) - 1)
<1>1. Len(s) \in Nat \ {0} /\ DOMAIN s = 1..Len(s)
  BY SMT
<1>2. t \in Seq(S)
  BY <1>1, SMT
<1>3. Len(t) = Len(s) - 1 /\ DOMAIN t = 1..Len(t)
  BY <1>1, SMT
<1>4. \A i \in 1..Len(t) : t[i] = s[i]
  BY <1>1, <1>3, SMT
<1>5. Len(s) = 1 => t = <<>>
  BY <1>2, <1>3, SMT
<1>6. Len(s) # 1 => t # <<>>
  <2>1. Len(<<>>) = 0
    BY SMT
  <2>2. Len(s) # 1 => Len(t) # 0
    BY <1>1, <1>3, SMT
  <2> QED BY <2>1, <2>2
<1> QED BY <1>1, <1>2, <1>3, <1>4, <1>5, <1>6

\* A stack with one more guard.
LEMMA Pushed ==
  ASSUME NEW s \in Seq(Guard), NEW g \in Guard
  PROVE  LET t == Append(s, g)
         IN  /\ t \in Seq(Guard) /\ t # <<>> /\ Len(t) \in Nat \ {0} /\ Len(s) = Len(t) - 1
             /\ DOMAIN s = 1..Len(s) /\ DOMAIN t = 1..Len(t)
             /\ \A i \in 1..Len(s) : t[i] = s[i]
             /\ t[Len(t)] = g
<1> DEFINE t == Append(s, g)
<1>1. Len(s) \in Nat /\ DOMAIN s = 1..Len(s)
  BY SMT
<1>2. t \in Seq(Guard)
  BY <1>1, SMT
<1>3. Len(t) = Len(s) + 1 /\ DOMAIN t = 1..Len(t)
  BY <1>1, SMT
<1>4. \A i \in 1..Len(s) : t[i] = s[i]
  BY <1>1, SMT
<1>5. t[Len(s) + 1] = g
  BY <1>1, SMT
<1>6. t # <<>>
  <2>1. Len(<<>>) = 0 /\ Len(t) # 0
    BY <1>1, <1>3, SMT
  <2> QED BY <2>1
<1>7. t[Len(t)] = g
  BY <1>3, <1>5
<1>8. Len(t) \in Nat \ {0} /\ Len(s) = Len(t) - 1
  BY <1>1, <1>3, SMT
<1> QED BY <1>1, <1>2, <1>3, <1>4, <1>6, <1>7, <1>8

\* Taking a guard puts it on the stack, with the flag that it clears.
LEMMA TakeStep ==
  ASSUME Types, NEW f \in Flows, NEW k, NEW l, Take(f, k, l), Made(k, l)
  PROVE  /\ sie' \in [Harts -> BOOLEAN] /\ ~ sie'[f[1]]
         /\ \A h \in Harts \ {f[1]} : sie'[h] = sie[h]
         /\ stack' \in [Flows -> Seq(Guard)] /\ \A e \in Flows \ {f} : stack'[e] = stack[e]
         /\ stack'[f] # <<>> /\ Len(stack'[f]) \in Nat \ {0} /\ Len(stack[f]) = Len(stack'[f]) - 1
         /\ DOMAIN stack[f] = 1..Len(stack[f]) /\ DOMAIN stack'[f] = 1..Len(stack'[f])
         /\ \A i \in 1..Len(stack[f]) : stack'[f][i] = stack[f][i]
         /\ stack'[f][Len(stack'[f])].kind = k /\ stack'[f][Len(stack'[f])].lock = l
         /\ stack'[f][Len(stack'[f])].sie = sie[f[1]]
<1>1. f[1] \in Harts /\ sie[f[1]] \in BOOLEAN
  BY FlowPairs DEF Types
<1>2. PICK g \in Guard : g = [kind |-> k, lock |-> l, sie |-> sie[f[1]]]
  BY <1>1 DEF Made
<1>3. sie' = [sie EXCEPT ![f[1]] = FALSE] /\ stack' = [stack EXCEPT ![f] = Append(stack[f], g)]
  BY <1>2 DEF Take, HartOf
<1>4. sie' \in [Harts -> BOOLEAN] /\ ~ sie'[f[1]] /\ \A h \in Harts \ {f[1]} : sie'[h] = sie[h]
  BY <1>1, <1>3 DEF Types
<1>5. stack[f] \in Seq(Guard) /\ stack \in [Flows -> Seq(Guard)]
  BY DEF Types
<1> DEFINE t == Append(stack[f], g)
<1>6. /\ t \in Seq(Guard) /\ t # <<>> /\ Len(t) \in Nat \ {0} /\ Len(stack[f]) = Len(t) - 1
      /\ DOMAIN stack[f] = 1..Len(stack[f]) /\ DOMAIN t = 1..Len(t)
      /\ \A i \in 1..Len(stack[f]) : t[i] = stack[f][i]
      /\ t[Len(t)] = g
  BY <1>5, Pushed
<1>7. stack' = [stack EXCEPT ![f] = t]
  BY <1>3
<1> HIDE DEF t
<1>8. stack'[f] = t /\ stack' \in [Flows -> Seq(Guard)] /\ \A e \in Flows \ {f} : stack'[e] = stack[e]
  BY <1>5, <1>6, <1>7
<1>9. g.kind = k /\ g.lock = l /\ g.sie = sie[f[1]]
  BY <1>2
<1> QED BY <1>4, <1>6, <1>8, <1>9

\* Dropping a guard takes it off the stack and restores the flag from it.
LEMMA DropStep ==
  ASSUME Types, NEW f \in Flows, NEW k, Drop(f, k)
  PROVE  /\ Runs(f) /\ pc[f] = "idle" /\ stack[f] # <<>> /\ Top(f).kind = k /\ Top(f) \in Guard
         /\ sie' \in [Harts -> BOOLEAN] /\ (sie'[f[1]] <=> Top(f).sie \/ sie[f[1]])
         /\ \A h \in Harts \ {f[1]} : sie'[h] = sie[h]
         /\ stack' \in [Flows -> Seq(Guard)] /\ \A e \in Flows \ {f} : stack'[e] = stack[e]
         /\ Len(stack[f]) \in Nat \ {0} /\ Len(stack'[f]) = Len(stack[f]) - 1
         /\ DOMAIN stack[f] = 1..Len(stack[f]) /\ DOMAIN stack'[f] = 1..Len(stack'[f])
         /\ \A i \in 1..Len(stack'[f]) : stack'[f][i] = stack[f][i]
         /\ stack'[f] = <<>> <=> Len(stack[f]) = 1
<1>1. Runs(f) /\ pc[f] = "idle" /\ stack[f] # <<>> /\ Top(f).kind = k
  BY DEF Drop
<1>2. Top(f) \in Guard /\ Top(f).sie \in BOOLEAN
  BY <1>1, TopIs, GuardKinds
<1>3. f[1] \in Harts /\ sie \in [Harts -> BOOLEAN]
  BY FlowPairs DEF Types
<1>4. sie' = [sie EXCEPT ![f[1]] = IF Top(f).sie THEN TRUE ELSE sie[f[1]]]
  BY DEF Drop, Enable, HartOf
<1>5. /\ sie' \in [Harts -> BOOLEAN] /\ (sie'[f[1]] <=> Top(f).sie \/ sie[f[1]])
      /\ \A h \in Harts \ {f[1]} : sie'[h] = sie[h]
  BY <1>2, <1>3, <1>4
<1>6. stack[f] \in Seq(Guard) /\ stack \in [Flows -> Seq(Guard)]
  BY DEF Types
<1> DEFINE s == SubSeq(stack[f], 1, Len(stack[f]) - 1)
<1>7. /\ s \in Seq(Guard) /\ Len(stack[f]) \in Nat \ {0} /\ Len(s) = Len(stack[f]) - 1
      /\ DOMAIN stack[f] = 1..Len(stack[f]) /\ DOMAIN s = 1..Len(s)
      /\ \A i \in 1..Len(s) : s[i] = stack[f][i]
      /\ s = <<>> <=> Len(stack[f]) = 1
  BY <1>1, <1>6, Popped
<1>8. stack' = [stack EXCEPT ![f] = s]
  BY DEF Drop
<1> HIDE DEF s
<1>9. stack'[f] = s /\ stack' \in [Flows -> Seq(Guard)] /\ \A e \in Flows \ {f} : stack'[e] = stack[e]
  BY <1>6, <1>7, <1>8
<1> QED BY <1>1, <1>2, <1>5, <1>7, <1>9

\* Every step keeps the types.
LEMMA TypesStep ==
  ASSUME Types, Stacked, [Next]_vars
  PROVE  Types'
<1> USE DEF lockVars, onceVars, flowVars, READER, WRITER
<1>1. ASSUME NEW f \in Flows, ReadCheck(f) PROVE Types'
  BY <1>1 DEF ReadCheck, Goto, Types, Locations, Acquiring
<1>2. ASSUME NEW f \in Flows, ReadLoad(f) PROVE Types'
  <2>0. Top(f).lock \in RwLocks
    BY <1>2, TopIs, GuardKinds DEF ReadLoad, Stacked, StackedFlow, Acquiring
  <2>1. pc' \in [Flows -> Locations]
    BY <1>2 DEF ReadLoad, Goto, Types, Locations, Acquiring
  <2>2. snap' \in [Flows -> Int]
    BY <1>2, <2>0 DEF ReadLoad, Types
  <2> QED BY <1>2, <2>1, <2>2 DEF ReadLoad, Types
<1>3. ASSUME NEW f \in Flows, ReadCas(f) PROVE Types'
  <2>0. Top(f).lock \in RwLocks
    BY <1>3, TopIs, GuardKinds DEF ReadCas, Stacked, StackedFlow, Acquiring
  <2>1. state' \in [RwLocks -> Int]
    BY <1>3, <2>0, SMT DEF ReadCas, Types
  <2>2. pc' \in [Flows -> Locations]
    BY <1>3 DEF ReadCas, Goto, Types, Locations, Acquiring
  <2>3. snap' \in [Flows -> Int]
    BY <1>3, SMT DEF ReadCas, Types
  <2> QED BY <1>3, <2>1, <2>2, <2>3 DEF ReadCas, Types
<1>4. ASSUME NEW f \in Flows, WriteAdd(f) PROVE Types'
  <2>0. Top(f).lock \in RwLocks
    BY <1>4, TopIs, GuardKinds DEF WriteAdd, Stacked, StackedFlow, Acquiring
  <2>1. waiting_writers' \in [RwLocks -> Int]
    BY <1>4, <2>0, SMT DEF WriteAdd, Types
  <2>2. pc' \in [Flows -> Locations]
    BY <1>4 DEF WriteAdd, Goto, Types, Locations, Acquiring
  <2> QED BY <1>4, <2>1, <2>2 DEF WriteAdd, Types
<1>5. ASSUME NEW f \in Flows, WriteCas(f) PROVE Types'
  <2>0. Top(f).lock \in RwLocks
    BY <1>5, TopIs, GuardKinds DEF WriteCas, Stacked, StackedFlow, Acquiring
  <2>1. state' \in [RwLocks -> Int]
    BY <1>5, <2>0, SMT DEF WriteCas, Types
  <2>2. pc' \in [Flows -> Locations]
    BY <1>5 DEF WriteCas, Goto, Types, Locations, Acquiring
  <2> QED BY <1>5, <2>1, <2>2 DEF WriteCas, Types
<1>6. ASSUME NEW f \in Flows, WriteSub(f) PROVE Types'
  <2>0. Top(f).lock \in RwLocks
    BY <1>6, TopIs, GuardKinds DEF WriteSub, Stacked, StackedFlow, Acquiring
  <2>1. waiting_writers' \in [RwLocks -> Int]
    BY <1>6, <2>0, SMT DEF WriteSub, Types
  <2>2. pc' \in [Flows -> Locations]
    BY <1>6 DEF WriteSub, Goto, Types, Locations, Acquiring
  <2> QED BY <1>6, <2>1, <2>2 DEF WriteSub, Types
<1>7. ASSUME NEW f \in Flows, SpinCas(f) PROVE Types'
  <2>0. Top(f).lock \in SpinLocks
    BY <1>7, TopIs, GuardKinds DEF SpinCas, Stacked, StackedFlow, Acquiring
  <2>1. lock' \in [SpinLocks -> BOOLEAN]
    BY <1>7, <2>0 DEF SpinCas, Types
  <2>2. pc' \in [Flows -> Locations]
    BY <1>7 DEF SpinCas, Goto, Types, Locations, Acquiring
  <2> QED BY <1>7, <2>1, <2>2 DEF SpinCas, Types
<1>8. ASSUME NEW f \in Flows, DropRead(f) PROVE Types'
  <2>1. /\ sie' \in [Harts -> BOOLEAN] /\ stack' \in [Flows -> Seq(Guard)]
        /\ Top(f) \in Guard /\ Top(f).kind = "read"
    BY <1>8, DropStep DEF DropRead
  <2>2. Top(f).lock \in RwLocks
    BY <2>1, GuardKinds
  <2>3. state' \in [RwLocks -> Int]
    BY <1>8, <2>2, SMT DEF DropRead, Types
  <2> QED BY <1>8, <2>1, <2>3 DEF DropRead, Types
<1>9. ASSUME NEW f \in Flows, DropWrite(f) PROVE Types'
  <2>1. /\ sie' \in [Harts -> BOOLEAN] /\ stack' \in [Flows -> Seq(Guard)]
        /\ Top(f) \in Guard /\ Top(f).kind = "write"
    BY <1>9, DropStep DEF DropWrite
  <2>2. Top(f).lock \in RwLocks
    BY <2>1, GuardKinds
  <2>3. state' \in [RwLocks -> Int]
    BY <1>9, <2>2, SMT DEF DropWrite, Types
  <2> QED BY <1>9, <2>1, <2>3 DEF DropWrite, Types
<1>10. ASSUME NEW f \in Flows, DropSpin(f) PROVE Types'
  <2>1. /\ sie' \in [Harts -> BOOLEAN] /\ stack' \in [Flows -> Seq(Guard)]
        /\ Top(f) \in Guard /\ Top(f).kind = "spin"
    BY <1>10, DropStep DEF DropSpin
  <2>2. Top(f).lock \in SpinLocks
    BY <2>1, GuardKinds
  <2>3. lock' \in [SpinLocks -> BOOLEAN]
    BY <1>10, <2>2 DEF DropSpin, Types
  <2> QED BY <1>10, <2>1, <2>3 DEF DropSpin, Types
<1>11. ASSUME NEW f \in Flows, DropCpu(f) PROVE Types'
  <2>1. sie' \in [Harts -> BOOLEAN] /\ stack' \in [Flows -> Seq(Guard)]
    BY <1>11, DropStep DEF DropCpu
  <2> QED BY <1>11, <2>1 DEF DropCpu, Types
<1>12. ASSUME NEW f \in Flows, OnceCas(f) PROVE Types'
  BY <1>12 DEF OnceCas, Goto, Types, Locations, Acquiring
<1>13. ASSUME NEW f \in Flows, OnceInit(f) PROVE Types'
  BY <1>13 DEF OnceInit, Goto, Types, Locations, Acquiring
<1>14. ASSUME NEW f \in Flows, OnceStore(f) PROVE Types'
  BY <1>14 DEF OnceStore, Goto, Types, Locations, Acquiring
<1>15. ASSUME NEW f \in Flows, NEW l \in RwLocks, read(f, l) PROVE Types'
  <2>1. sie' \in [Harts -> BOOLEAN] /\ stack' \in [Flows -> Seq(Guard)]
    BY <1>15, TakeStep, GuardMade DEF read
  <2>2. pc' \in [Flows -> Locations]
    BY <1>15 DEF read, Goto, Types, Locations, Acquiring
  <2> QED BY <1>15, <2>1, <2>2 DEF read, Types
<1>16. ASSUME NEW f \in Flows, NEW l \in RwLocks, write(f, l) PROVE Types'
  <2>1. sie' \in [Harts -> BOOLEAN] /\ stack' \in [Flows -> Seq(Guard)]
    BY <1>16, TakeStep, GuardMade DEF write
  <2>2. pc' \in [Flows -> Locations]
    BY <1>16 DEF write, Goto, Types, Locations, Acquiring
  <2> QED BY <1>16, <2>1, <2>2 DEF write, Types
<1>17. ASSUME NEW f \in Flows, NEW l \in SpinLocks, lock_spin(f, l) PROVE Types'
  <2>1. sie' \in [Harts -> BOOLEAN] /\ stack' \in [Flows -> Seq(Guard)]
    BY <1>17, TakeStep, GuardMade DEF lock_spin
  <2>2. pc' \in [Flows -> Locations]
    BY <1>17 DEF lock_spin, Goto, Types, Locations, Acquiring
  <2> QED BY <1>17, <2>1, <2>2 DEF lock_spin, Types
<1>18. ASSUME NEW f \in Flows, NEW l \in PerCpus, current(f, l) PROVE Types'
  <2>1. sie' \in [Harts -> BOOLEAN] /\ stack' \in [Flows -> Seq(Guard)]
    BY <1>18, TakeStep, GuardMade DEF current
  <2>2. pc' \in [Flows -> Locations]
    BY <1>18 DEF current, Goto, Types, Locations, Acquiring
  <2> QED BY <1>18, <2>1, <2>2 DEF current, Types
<1>19. ASSUME NEW f \in Flows, get_or_init(f) PROVE Types'
  BY <1>19 DEF get_or_init, Goto, Types, Locations, Acquiring
<1>20. ASSUME NEW h \in Harts, Interrupt(h) PROVE Types'
  BY <1>20 DEF Interrupt, Types
<1>21. ASSUME NEW h \in Harts, Return(h) PROVE Types'
  BY <1>21 DEF Return, Types
<1>22. CASE UNCHANGED vars
  BY <1>22 DEF vars, Types
<1> QED BY <1>1, <1>2, <1>3, <1>4, <1>5, <1>6, <1>7, <1>8, <1>9, <1>10, <1>11, <1>12, <1>13, <1>14, <1>15, <1>16, <1>17, <1>18, <1>19, <1>20, <1>21, <1>22 DEF Next, Step, Begin, DropInnermost

-----------------------------------------------------------------------------
(* The stacks of guards *)

\* The stack and the place of another flow.
LEMMA StackedOther ==
  ASSUME Stacked, NEW e \in Flows, stack'[e] = stack[e], pc'[e] = pc[e]
  PROVE  StackedFlow(e)'
BY DEF Stacked, StackedFlow, Top

\* f goes to another place with the guards that it has.
LEMMA StackedMoved ==
  ASSUME Types, Stacked, NEW f \in Flows, NEW p, stack' = stack, pc' = [pc EXCEPT ![f] = p],
         p \in Acquiring => stack[f] # <<>>,
         p \in {"read.check", "read.load", "read.cas"} => Top(f).kind = "read",
         p \in {"write.add", "write.cas", "write.sub"} => Top(f).kind = "write",
         p # "spin.cas"
  PROVE  Stacked'
<1>1. pc'[f] = p /\ \A e \in Flows \ {f} : pc'[e] = pc[e]
  BY DEF Types
<1>2. StackedFlow(f)'
  BY <1>1 DEF Stacked, StackedFlow, Top
<1> QED BY <1>1, <1>2, StackedOther DEF Stacked

\* f starts to take a guard.
LEMMA StackedTaken ==
  ASSUME Types, Stacked, NEW f \in Flows, NEW k, NEW l, NEW p, Take(f, k, l), Made(k, l),
         pc' = [pc EXCEPT ![f] = p],
         p \in {"read.check", "read.load", "read.cas"} => k = "read",
         p \in {"write.add", "write.cas", "write.sub"} => k = "write",
         p = "spin.cas" => k = "spin"
  PROVE  Stacked'
<1>1. pc'[f] = p /\ \A e \in Flows \ {f} : pc'[e] = pc[e]
  BY DEF Types
<1>2. /\ stack'[f] # <<>> /\ Len(stack'[f]) \in Nat \ {0} /\ Len(stack[f]) = Len(stack'[f]) - 1
      /\ DOMAIN stack[f] = 1..Len(stack[f]) /\ DOMAIN stack'[f] = 1..Len(stack'[f])
      /\ \A i \in 1..Len(stack[f]) : stack'[f][i] = stack[f][i]
      /\ stack'[f][Len(stack'[f])].kind = k /\ stack'[f][Len(stack'[f])].lock = l
      /\ \A e \in Flows \ {f} : stack'[e] = stack[e]
  BY TakeStep, SMT
<1>3. Top(f)'.kind = k
  BY <1>2 DEF Top
<1>4. \A i \in 1..Len(stack[f]) : stack[f][i].lock # l
  BY <1>2 DEF Take
<1>5. \A i, j \in 1..Len(stack[f]) : stack[f][i].lock = stack[f][j].lock => i = j
  BY <1>2 DEF Stacked, StackedFlow
<1>6. \A i \in DOMAIN stack'[f] : i \in 1..Len(stack[f]) \/ i = Len(stack'[f])
  BY <1>2, SMT
<1>7. \A i, j \in DOMAIN stack'[f] : stack'[f][i].lock = stack'[f][j].lock => i = j
  BY <1>2, <1>4, <1>5, <1>6
<1>8. StackedFlow(f)'
  BY <1>1, <1>2, <1>3, <1>7 DEF StackedFlow
<1> QED BY <1>1, <1>2, <1>8, StackedOther DEF Stacked

\* f drops a guard.
LEMMA StackedDropped ==
  ASSUME Types, Stacked, NEW f \in Flows, NEW k, Drop(f, k), pc' = pc
  PROVE  Stacked'
<1>1. /\ pc[f] = "idle" /\ Len(stack[f]) \in Nat \ {0} /\ Len(stack'[f]) = Len(stack[f]) - 1
      /\ DOMAIN stack[f] = 1..Len(stack[f]) /\ DOMAIN stack'[f] = 1..Len(stack'[f])
      /\ \A i \in 1..Len(stack'[f]) : stack'[f][i] = stack[f][i]
      /\ \A e \in Flows \ {f} : stack'[e] = stack[e]
  BY DropStep
<1>2. \A i \in 1..Len(stack'[f]) : i \in 1..Len(stack[f])
  BY <1>1, SMT
<1>3. \A i, j \in DOMAIN stack'[f] : stack'[f][i].lock = stack'[f][j].lock => i = j
  BY <1>1, <1>2 DEF Stacked, StackedFlow
<1>4. StackedFlow(f)'
  BY <1>1, <1>3 DEF StackedFlow, Acquiring
<1> QED BY <1>1, <1>4, StackedOther DEF Stacked

\* Every step keeps the stacks in order.
LEMMA StackedStep ==
  ASSUME Types, Stacked, [Next]_vars
  PROVE  Stacked'
<1> USE DEF lockVars, onceVars, flowVars
<1>1. ASSUME NEW f \in Flows, ReadCheck(f) PROVE Stacked'
  BY <1>1, StackedMoved DEF ReadCheck, Goto, Acquiring, Stacked, StackedFlow
<1>2. ASSUME NEW f \in Flows, ReadLoad(f) PROVE Stacked'
  <2>1. pc[f] \in Acquiring /\ stack' = stack
    BY <1>2 DEF ReadLoad, Acquiring
  <2>2. stack[f] # <<>> /\ Top(f).kind = "read"
    BY <1>2, <2>1 DEF ReadLoad, Stacked, StackedFlow
  <2>3. CASE pc' = [pc EXCEPT ![f] = "read.check"]
    BY <2>1, <2>2, <2>3, StackedMoved
  <2>4. CASE pc' = [pc EXCEPT ![f] = "read.cas"]
    BY <2>1, <2>2, <2>4, StackedMoved
  <2> QED BY <1>2, <2>3, <2>4 DEF ReadLoad, Goto
<1>3. ASSUME NEW f \in Flows, ReadCas(f) PROVE Stacked'
  <2>1. pc[f] \in Acquiring /\ stack' = stack
    BY <1>3 DEF ReadCas, Acquiring
  <2>2. stack[f] # <<>> /\ Top(f).kind = "read"
    BY <1>3, <2>1 DEF ReadCas, Stacked, StackedFlow
  <2>3. CASE pc' = [pc EXCEPT ![f] = "idle"]
    BY <2>1, <2>2, <2>3, StackedMoved
  <2>4. CASE pc' = [pc EXCEPT ![f] = "read.check"]
    BY <2>1, <2>2, <2>4, StackedMoved
  <2> QED BY <1>3, <2>3, <2>4 DEF ReadCas, Goto
<1>4. ASSUME NEW f \in Flows, WriteAdd(f) PROVE Stacked'
  BY <1>4, StackedMoved DEF WriteAdd, Goto, Acquiring, Stacked, StackedFlow
<1>5. ASSUME NEW f \in Flows, WriteCas(f) PROVE Stacked'
  BY <1>5, StackedMoved DEF WriteCas, Goto, Acquiring, Stacked, StackedFlow
<1>6. ASSUME NEW f \in Flows, WriteSub(f) PROVE Stacked'
  BY <1>6, StackedMoved DEF WriteSub, Goto, Acquiring, Stacked, StackedFlow
<1>7. ASSUME NEW f \in Flows, SpinCas(f) PROVE Stacked'
  BY <1>7, StackedMoved DEF SpinCas, Goto, Acquiring, Stacked, StackedFlow
<1>8. ASSUME NEW f \in Flows, DropRead(f) PROVE Stacked'
  BY <1>8, StackedDropped DEF DropRead
<1>9. ASSUME NEW f \in Flows, DropWrite(f) PROVE Stacked'
  BY <1>9, StackedDropped DEF DropWrite
<1>10. ASSUME NEW f \in Flows, DropSpin(f) PROVE Stacked'
  BY <1>10, StackedDropped DEF DropSpin
<1>11. ASSUME NEW f \in Flows, DropCpu(f) PROVE Stacked'
  BY <1>11, StackedDropped DEF DropCpu
<1>12. ASSUME NEW f \in Flows, OnceCas(f) PROVE Stacked'
  <2>1. CASE pc' = [pc EXCEPT ![f] = "once.init"]
    BY <1>12, <2>1, StackedMoved DEF OnceCas, Acquiring
  <2>2. CASE pc' = [pc EXCEPT ![f] = "idle"]
    BY <1>12, <2>2, StackedMoved DEF OnceCas, Acquiring
  <2> QED BY <1>12, <2>1, <2>2 DEF OnceCas, Goto
<1>13. ASSUME NEW f \in Flows, OnceInit(f) PROVE Stacked'
  BY <1>13, StackedMoved DEF OnceInit, Goto, Acquiring
<1>14. ASSUME NEW f \in Flows, OnceStore(f) PROVE Stacked'
  BY <1>14, StackedMoved DEF OnceStore, Goto, Acquiring
<1>15. ASSUME NEW f \in Flows, NEW l \in RwLocks, read(f, l) PROVE Stacked'
  BY <1>15, StackedTaken, GuardMade DEF read, Goto
<1>16. ASSUME NEW f \in Flows, NEW l \in RwLocks, write(f, l) PROVE Stacked'
  BY <1>16, StackedTaken, GuardMade DEF write, Goto
<1>17. ASSUME NEW f \in Flows, NEW l \in SpinLocks, lock_spin(f, l) PROVE Stacked'
  BY <1>17, StackedTaken, GuardMade DEF lock_spin, Goto
<1>18. ASSUME NEW f \in Flows, NEW p \in PerCpus, current(f, p) PROVE Stacked'
  <2>1. pc' = [pc EXCEPT ![f] = "idle"]
    BY <1>18 DEF current, Take, Types
  <2> QED BY <1>18, <2>1, StackedTaken, GuardMade DEF current
<1>19. ASSUME NEW f \in Flows, get_or_init(f) PROVE Stacked'
  BY <1>19, StackedMoved DEF get_or_init, Goto, Acquiring
<1>20. ASSUME NEW h \in Harts, Interrupt(h) PROVE Stacked'
  BY <1>20, StackedOther DEF Interrupt, Stacked
<1>21. ASSUME NEW h \in Harts, Return(h) PROVE Stacked'
  BY <1>21, StackedOther DEF Return, Stacked
<1>22. CASE UNCHANGED vars
  BY <1>22, StackedOther DEF vars, Stacked
<1> QED BY <1>1, <1>2, <1>3, <1>4, <1>5, <1>6, <1>7, <1>8, <1>9, <1>10, <1>11, <1>12, <1>13, <1>14, <1>15, <1>16, <1>17, <1>18, <1>19, <1>20, <1>21, <1>22 DEF Next, Step, Begin, DropInnermost

-----------------------------------------------------------------------------
(* What flows own *)

\* Nothing is gained or lost by a step inside an operation.
LEMMA OwnsMoved ==
  ASSUME stack' = stack, \A e \in Flows : pc'[e] \in Acquiring <=> pc[e] \in Acquiring
  PROVE  \A e \in Flows : \A k, l : Owns(e, k, l)' <=> Owns(e, k, l)
BY DEF Owns

\* f starts to take a guard of a lock, and does not have it yet.
LEMMA OwnsTaking ==
  ASSUME Types, NEW f \in Flows, NEW k, NEW l, Take(f, k, l), Made(k, l),
         NEW p \in Acquiring, pc' = [pc EXCEPT ![f] = p]
  PROVE  \A e \in Flows : \A j, m : Owns(e, j, m)' <=> Owns(e, j, m)
<1>1. pc'[f] = p /\ pc[f] = "idle" /\ \A e \in Flows \ {f} : pc'[e] = pc[e]
  BY DEF Types, Take
<1>2. /\ Len(stack'[f]) \in Nat \ {0} /\ Len(stack[f]) = Len(stack'[f]) - 1
      /\ DOMAIN stack[f] = 1..Len(stack[f]) /\ DOMAIN stack'[f] = 1..Len(stack'[f])
      /\ \A i \in 1..Len(stack[f]) : stack'[f][i] = stack[f][i]
      /\ \A e \in Flows \ {f} : stack'[e] = stack[e]
  BY TakeStep, SMT
<1>3. \A i : i \in DOMAIN stack'[f] /\ i # Len(stack'[f]) <=> i \in DOMAIN stack[f]
  BY <1>2, SMT
<1>4. \A j, m : Owns(f, j, m)' <=> Owns(f, j, m)
  BY <1>1, <1>2, <1>3 DEF Owns, Acquiring
<1>5. \A e \in Flows \ {f} : \A j, m : Owns(e, j, m)' <=> Owns(e, j, m)
  BY <1>1, <1>2 DEF Owns
<1> QED BY <1>4, <1>5

\* f has its slot at once, and no other guard changes hands.
LEMMA OwnsSlot ==
  ASSUME Types, NEW f \in Flows, NEW p \in PerCpus, Take(f, "cpu", p), pc' = pc
  PROVE  \A e \in Flows : \A j, m : j # "cpu" => (Owns(e, j, m)' <=> Owns(e, j, m))
<1>1. pc[f] = "idle"
  BY DEF Take
<1>2. /\ Len(stack'[f]) \in Nat \ {0} /\ Len(stack[f]) = Len(stack'[f]) - 1
      /\ DOMAIN stack[f] = 1..Len(stack[f]) /\ DOMAIN stack'[f] = 1..Len(stack'[f])
      /\ \A i \in 1..Len(stack[f]) : stack'[f][i] = stack[f][i]
      /\ stack'[f][Len(stack'[f])].kind = "cpu"
      /\ \A e \in Flows \ {f} : stack'[e] = stack[e]
  BY TakeStep, GuardMade, SMT
<1>3. \A i : i \in DOMAIN stack'[f] /\ i # Len(stack'[f]) <=> i \in DOMAIN stack[f]
  BY <1>2, SMT
<1>4. \A j, m : j # "cpu" => (Owns(f, j, m)' <=> Owns(f, j, m))
  BY <1>1, <1>2, <1>3 DEF Owns, Acquiring
<1>5. \A e \in Flows \ {f} : \A j, m : Owns(e, j, m)' <=> Owns(e, j, m)
  BY <1>2 DEF Owns
<1> QED BY <1>4, <1>5

\* f gets the guard that it was waiting for.
LEMMA OwnsGot ==
  ASSUME Types, Stacked, NEW f \in Flows, pc[f] \in Acquiring,
         stack' = stack, pc' = [pc EXCEPT ![f] = "idle"]
  PROVE  /\ \A e \in Flows : \A k, l :
              Owns(e, k, l)' <=> Owns(e, k, l) \/ (e = f /\ k = Top(f).kind /\ l = Top(f).lock)
         /\ \A k : ~ Owns(f, k, Top(f).lock)
<1>1. pc'[f] = "idle" /\ \A e \in Flows \ {f} : pc'[e] = pc[e]
  BY DEF Types
<1>2. Len(stack[f]) \in DOMAIN stack[f]
  BY TopIs DEF Stacked, StackedFlow
<1>3. \A k, l : Owns(f, k, l)' <=> Owns(f, k, l) \/ (k = Top(f).kind /\ l = Top(f).lock)
  BY <1>1, <1>2 DEF Owns, Top, Acquiring
<1>4. \A k : ~ Owns(f, k, Top(f).lock)
  BY <1>2 DEF Owns, Top, Stacked, StackedFlow
<1>5. \A e \in Flows \ {f} : \A k, l : Owns(e, k, l)' <=> Owns(e, k, l)
  BY <1>1 DEF Owns
<1> QED BY <1>3, <1>4, <1>5

\* f drops a guard.
LEMMA OwnsDropped ==
  ASSUME Types, Stacked, NEW f \in Flows, NEW k, Drop(f, k), pc' = pc
  PROVE  /\ \A e \in Flows : \A j, m :
              Owns(e, j, m)' <=> Owns(e, j, m) /\ ~ (e = f /\ m = Top(f).lock)
         /\ Owns(f, k, Top(f).lock)
         /\ \A j : Owns(f, j, Top(f).lock) => j = k
<1>1. /\ pc[f] = "idle" /\ stack[f] # <<>> /\ Top(f).kind = k
      /\ Len(stack[f]) \in Nat \ {0} /\ Len(stack'[f]) = Len(stack[f]) - 1
      /\ DOMAIN stack[f] = 1..Len(stack[f]) /\ DOMAIN stack'[f] = 1..Len(stack'[f])
      /\ \A i \in 1..Len(stack'[f]) : stack'[f][i] = stack[f][i]
      /\ \A e \in Flows \ {f} : stack'[e] = stack[e]
  BY DropStep
<1>2. /\ \A i : i \in DOMAIN stack[f] /\ i # Len(stack[f]) <=> i \in DOMAIN stack'[f]
      /\ Len(stack[f]) \in DOMAIN stack[f]
  BY <1>1, SMT
<1>3. \A i \in DOMAIN stack[f] : stack[f][i].lock = Top(f).lock <=> i = Len(stack[f])
  BY <1>2 DEF Top, Stacked, StackedFlow
<1>4. \A j, m : Owns(f, j, m)' <=> Owns(f, j, m) /\ m # Top(f).lock
  BY <1>1, <1>2, <1>3 DEF Owns, Acquiring
<1>5. Owns(f, k, Top(f).lock) /\ \A j : Owns(f, j, Top(f).lock) => j = k
  BY <1>1, <1>2, <1>3 DEF Owns, Top, Acquiring
<1>6. \A e \in Flows \ {f} : \A j, m : Owns(e, j, m)' <=> Owns(e, j, m)
  BY <1>1 DEF Owns
<1> QED BY <1>4, <1>5, <1>6

-----------------------------------------------------------------------------
(* SpinLock and OnceLock *)

OncePlaces == {"once.init", "once.store"}

\* lock is set while a guard of the SpinLock exists, and one flow has it;
\* one flow is inside get_or_init's closure, which is still there when it is
\* about to run.
Guarded ==
  /\ \A f \in Flows, l \in SpinLocks : Owns(f, "spin", l) => lock[l]
  /\ \A e, f \in Flows, l \in SpinLocks : Owns(e, "spin", l) /\ Owns(f, "spin", l) => e = f
  /\ \A f \in Flows : /\ pc[f] \in OncePlaces => status = "INITIALIZING"
                      /\ pc[f] = "once.init" => init
  /\ \A e, f \in Flows : pc[e] \in OncePlaces /\ pc[f] \in OncePlaces => e = f
  /\ status = "UNINITIALIZED" => init

\* A step that leaves SpinLock and OnceLock alone.
LEMMA GuardedFrame ==
  ASSUME Guarded, UNCHANGED <<lock, status, init>>,
         \A e \in Flows : /\ \A l : Owns(e, "spin", l)' <=> Owns(e, "spin", l)
                          /\ pc'[e] \in OncePlaces => pc'[e] = pc[e]
  PROVE  Guarded'
BY DEF Guarded, OncePlaces

\* Every step keeps this.
LEMMA GuardedStep ==
  ASSUME Types, Stacked, Guarded, [Next]_vars
  PROVE  Guarded'
<1> USE DEF lockVars, onceVars, flowVars
<1>1. ASSUME NEW f \in Flows, ReadCheck(f) PROVE Guarded'
  <2>1. \A e \in Flows : pc'[e] \in Acquiring <=> pc[e] \in Acquiring
    BY <1>1 DEF ReadCheck, Goto, Types, Acquiring
  <2>2. \A e \in Flows : pc'[e] \in OncePlaces => pc'[e] = pc[e]
    BY <1>1 DEF ReadCheck, Goto, Types, OncePlaces
  <2> QED BY <1>1, <2>1, <2>2, OwnsMoved, GuardedFrame DEF ReadCheck
<1>2. ASSUME NEW f \in Flows, ReadLoad(f) PROVE Guarded'
  <2>1. \A e \in Flows : pc'[e] \in Acquiring <=> pc[e] \in Acquiring
    BY <1>2 DEF ReadLoad, Goto, Types, Acquiring
  <2>2. \A e \in Flows : pc'[e] \in OncePlaces => pc'[e] = pc[e]
    BY <1>2 DEF ReadLoad, Goto, Types, OncePlaces
  <2> QED BY <1>2, <2>1, <2>2, OwnsMoved, GuardedFrame DEF ReadLoad
<1>3. ASSUME NEW f \in Flows, ReadCas(f) PROVE Guarded'
  <2>1. \A e \in Flows : pc'[e] \in OncePlaces => pc'[e] = pc[e]
    BY <1>3 DEF ReadCas, Goto, Types, OncePlaces
  <2>2. CASE state[Top(f).lock] # snap[f]
    <3>1. \A e \in Flows : pc'[e] \in Acquiring <=> pc[e] \in Acquiring
      BY <1>3, <2>2 DEF ReadCas, Goto, Types, Acquiring
    <3> QED BY <1>3, <2>1, <3>1, OwnsMoved, GuardedFrame DEF ReadCas
  <2>3. CASE state[Top(f).lock] = snap[f]
    <3>1. pc[f] \in Acquiring /\ Top(f).kind # "spin"
      BY <1>3 DEF ReadCas, Acquiring, Stacked, StackedFlow
    <3>2. pc' = [pc EXCEPT ![f] = "idle"]
      BY <1>3, <2>3 DEF ReadCas, Goto
    <3>3. \A e \in Flows : \A l : Owns(e, "spin", l)' <=> Owns(e, "spin", l)
      BY <1>3, <3>1, <3>2, OwnsGot DEF ReadCas
    <3> QED BY <1>3, <2>1, <3>3, GuardedFrame DEF ReadCas
  <2> QED BY <2>2, <2>3
<1>4. ASSUME NEW f \in Flows, WriteAdd(f) PROVE Guarded'
  <2>1. \A e \in Flows : pc'[e] \in Acquiring <=> pc[e] \in Acquiring
    BY <1>4 DEF WriteAdd, Goto, Types, Acquiring
  <2>2. \A e \in Flows : pc'[e] \in OncePlaces => pc'[e] = pc[e]
    BY <1>4 DEF WriteAdd, Goto, Types, OncePlaces
  <2> QED BY <1>4, <2>1, <2>2, OwnsMoved, GuardedFrame DEF WriteAdd
<1>5. ASSUME NEW f \in Flows, WriteCas(f) PROVE Guarded'
  <2>1. \A e \in Flows : pc'[e] \in Acquiring <=> pc[e] \in Acquiring
    BY <1>5 DEF WriteCas, Goto, Types, Acquiring
  <2>2. \A e \in Flows : pc'[e] \in OncePlaces => pc'[e] = pc[e]
    BY <1>5 DEF WriteCas, Goto, Types, OncePlaces
  <2> QED BY <1>5, <2>1, <2>2, OwnsMoved, GuardedFrame DEF WriteCas
<1>6. ASSUME NEW f \in Flows, WriteSub(f) PROVE Guarded'
  <2>1. \A e \in Flows : pc'[e] \in OncePlaces => pc'[e] = pc[e]
    BY <1>6 DEF WriteSub, Goto, Types, OncePlaces
  <2>2. pc[f] \in Acquiring /\ Top(f).kind # "spin"
    BY <1>6 DEF WriteSub, Acquiring, Stacked, StackedFlow
  <2>3. \A e \in Flows : \A l : Owns(e, "spin", l)' <=> Owns(e, "spin", l)
    BY <1>6, <2>2, OwnsGot DEF WriteSub, Goto
  <2> QED BY <1>6, <2>1, <2>3, GuardedFrame DEF WriteSub
<1>7. ASSUME NEW f \in Flows, SpinCas(f) PROVE Guarded'
  <2>1. \A e \in Flows : pc'[e] \in OncePlaces => pc'[e] = pc[e]
    BY <1>7 DEF SpinCas, Goto, Types, OncePlaces
  <2>2. pc[f] \in Acquiring /\ Top(f).kind = "spin" /\ stack[f] # <<>>
    BY <1>7 DEF SpinCas, Acquiring, Stacked, StackedFlow
  <2>3. Top(f).lock \in SpinLocks
    BY <2>2, TopIs, GuardKinds
  <2>4. \A e \in Flows : \A l :
          Owns(e, "spin", l)' <=> Owns(e, "spin", l) \/ (e = f /\ l = Top(f).lock)
    BY <1>7, <2>2, OwnsGot DEF SpinCas, Goto
  <2>5. lock'[Top(f).lock] = TRUE /\ \A l \in SpinLocks \ {Top(f).lock} : lock'[l] = lock[l]
    BY <1>7, <2>3 DEF SpinCas, Types
  <2>6. \A e \in Flows : ~ Owns(e, "spin", Top(f).lock)
    BY <1>7, <2>3 DEF SpinCas, Guarded
  <2>7. \A e \in Flows, l \in SpinLocks : Owns(e, "spin", l)' => lock'[l]
    BY <2>4, <2>5 DEF Guarded
  <2>8. ASSUME NEW d \in Flows, NEW e \in Flows, NEW l \in SpinLocks,
               Owns(d, "spin", l)', Owns(e, "spin", l)'
        PROVE  d = e
    <3>1. CASE l = Top(f).lock
      BY <2>4, <2>6, <2>8, <3>1
    <3>2. CASE l # Top(f).lock
      BY <2>4, <2>8, <3>2 DEF Guarded
    <3> QED BY <3>1, <3>2
  <2>9. status' = status /\ init' = init
    BY <1>7 DEF SpinCas
  <2>10. \A e \in Flows : /\ pc'[e] \in OncePlaces => status' = "INITIALIZING"
                          /\ pc'[e] = "once.init" => init'
    BY <2>1, <2>9 DEF Guarded, OncePlaces
  <2>11. \A d, e \in Flows : pc'[d] \in OncePlaces /\ pc'[e] \in OncePlaces => d = e
    BY <2>1 DEF Guarded
  <2> QED BY <2>7, <2>8, <2>9, <2>10, <2>11 DEF Guarded
<1>8. ASSUME NEW f \in Flows, DropRead(f) PROVE Guarded'
  <2>0. /\ \A e \in Flows : \A j, m :
             Owns(e, j, m)' <=> Owns(e, j, m) /\ ~ (e = f /\ m = Top(f).lock)
        /\ \A j : Owns(f, j, Top(f).lock) => j = "read"
    BY <1>8, OwnsDropped DEF DropRead
  <2>1. \A e \in Flows : \A l : Owns(e, "spin", l)' <=> Owns(e, "spin", l)
    BY <2>0
  <2> QED BY <1>8, <2>1, GuardedFrame DEF DropRead
<1>9. ASSUME NEW f \in Flows, DropWrite(f) PROVE Guarded'
  <2>0. /\ \A e \in Flows : \A j, m :
             Owns(e, j, m)' <=> Owns(e, j, m) /\ ~ (e = f /\ m = Top(f).lock)
        /\ \A j : Owns(f, j, Top(f).lock) => j = "write"
    BY <1>9, OwnsDropped DEF DropWrite
  <2>1. \A e \in Flows : \A l : Owns(e, "spin", l)' <=> Owns(e, "spin", l)
    BY <2>0
  <2> QED BY <1>9, <2>1, GuardedFrame DEF DropWrite
<1>10. ASSUME NEW f \in Flows, DropSpin(f) PROVE Guarded'
  <2>1. \A e \in Flows : \A l :
          Owns(e, "spin", l)' <=> Owns(e, "spin", l) /\ ~ (e = f /\ l = Top(f).lock)
    BY <1>10, OwnsDropped DEF DropSpin
  <2>2. Owns(f, "spin", Top(f).lock)
    BY <1>10, OwnsDropped DEF DropSpin
  <2>0. Top(f) \in Guard /\ Top(f).kind = "spin"
    BY <1>10, DropStep DEF DropSpin
  <2>3. Top(f).lock \in SpinLocks
    BY <2>0, GuardKinds
  <2>4. \A l \in SpinLocks \ {Top(f).lock} : lock'[l] = lock[l]
    BY <1>10, <2>3 DEF DropSpin, Types
  <2>5. \A e \in Flows : Owns(e, "spin", Top(f).lock) => e = f
    BY <2>2, <2>3 DEF Guarded
  <2>6. ASSUME NEW e \in Flows, NEW l \in SpinLocks, Owns(e, "spin", l)' PROVE lock'[l]
    <3>1. Owns(e, "spin", l) /\ l # Top(f).lock
      BY <2>1, <2>5, <2>6
    <3> QED BY <2>4, <3>1 DEF Guarded
  <2>7. \A d, e \in Flows, l \in SpinLocks : Owns(d, "spin", l)' /\ Owns(e, "spin", l)' => d = e
    BY <2>1 DEF Guarded
  <2>8. status' = status /\ init' = init /\ pc' = pc
    BY <1>10 DEF DropSpin
  <2> QED BY <2>6, <2>7, <2>8 DEF Guarded
<1>11. ASSUME NEW f \in Flows, DropCpu(f) PROVE Guarded'
  <2>0. /\ \A e \in Flows : \A j, m :
             Owns(e, j, m)' <=> Owns(e, j, m) /\ ~ (e = f /\ m = Top(f).lock)
        /\ \A j : Owns(f, j, Top(f).lock) => j = "cpu"
    BY <1>11, OwnsDropped DEF DropCpu
  <2>1. \A e \in Flows : \A l : Owns(e, "spin", l)' <=> Owns(e, "spin", l)
    BY <2>0
  <2> QED BY <1>11, <2>1, GuardedFrame DEF DropCpu
<1>12. ASSUME NEW f \in Flows, OnceCas(f) PROVE Guarded'
  <2>1. \A e \in Flows : pc'[e] \in Acquiring <=> pc[e] \in Acquiring
    BY <1>12 DEF OnceCas, Goto, Types, Acquiring
  <2>2. \A e \in Flows : \A l : Owns(e, "spin", l)' <=> Owns(e, "spin", l)
    BY <1>12, <2>1, OwnsMoved DEF OnceCas
  <2>3. CASE status = "UNINITIALIZED"
    <3>1. status' = "INITIALIZING" /\ pc' = [pc EXCEPT ![f] = "once.init"] /\ init' = init /\ lock' = lock
      BY <1>12, <2>3 DEF OnceCas, Goto
    <3>2. init /\ \A e \in Flows : pc[e] \notin OncePlaces
      BY <2>3 DEF Guarded
    <3>3. pc'[f] = "once.init" /\ \A e \in Flows \ {f} : pc'[e] = pc[e]
      BY <3>1 DEF Types
    <3> QED BY <2>2, <3>1, <3>2, <3>3 DEF Guarded
  <2>4. CASE status # "UNINITIALIZED"
    <3>1. \A e \in Flows : pc'[e] \in OncePlaces => pc'[e] = pc[e]
      BY <1>12, <2>4 DEF OnceCas, Goto, Types, OncePlaces
    <3>2. UNCHANGED <<lock, status, init>>
      BY <1>12, <2>4 DEF OnceCas
    <3> QED BY <2>2, <3>1, <3>2, GuardedFrame
  <2> QED BY <2>3, <2>4
<1>13. ASSUME NEW f \in Flows, OnceInit(f) PROVE Guarded'
  <2>1. \A e \in Flows : pc'[e] \in Acquiring <=> pc[e] \in Acquiring
    BY <1>13 DEF OnceInit, Goto, Types, Acquiring
  <2>2. \A e \in Flows : \A l : Owns(e, "spin", l)' <=> Owns(e, "spin", l)
    BY <1>13, <2>1, OwnsMoved DEF OnceInit
  <2>3. lock' = lock /\ status' = status /\ pc[f] = "once.init"
    BY <1>13 DEF OnceInit
  <2>4. pc'[f] = "once.store" /\ \A e \in Flows \ {f} : pc'[e] = pc[e]
    BY <1>13 DEF OnceInit, Goto, Types
  <2>5. \A e \in Flows \ {f} : pc'[e] \notin OncePlaces
    BY <2>3, <2>4 DEF Guarded, OncePlaces
  <2>6. status = "INITIALIZING"
    BY <2>3 DEF Guarded, OncePlaces
  <2> QED BY <2>2, <2>3, <2>4, <2>5, <2>6 DEF Guarded, OncePlaces
<1>14. ASSUME NEW f \in Flows, OnceStore(f) PROVE Guarded'
  <2>1. \A e \in Flows : pc'[e] \in Acquiring <=> pc[e] \in Acquiring
    BY <1>14 DEF OnceStore, Goto, Types, Acquiring
  <2>2. \A e \in Flows : \A l : Owns(e, "spin", l)' <=> Owns(e, "spin", l)
    BY <1>14, <2>1, OwnsMoved DEF OnceStore
  <2>3. lock' = lock /\ status' = "INITIALIZED" /\ pc[f] = "once.store"
    BY <1>14 DEF OnceStore
  <2>4. pc'[f] = "idle" /\ \A e \in Flows \ {f} : pc'[e] = pc[e]
    BY <1>14 DEF OnceStore, Goto, Types
  <2>5. \A e \in Flows : pc'[e] \notin OncePlaces
    BY <2>3, <2>4 DEF Guarded, OncePlaces
  <2> QED BY <2>2, <2>3, <2>5 DEF Guarded, OncePlaces
<1>15. ASSUME NEW f \in Flows, NEW l \in RwLocks, read(f, l) PROVE Guarded'
  <2>1. \A e \in Flows : \A m : Owns(e, "spin", m)' <=> Owns(e, "spin", m)
    BY <1>15, OwnsTaking, GuardMade DEF read, Goto, Acquiring
  <2>2. \A e \in Flows : pc'[e] \in OncePlaces => pc'[e] = pc[e]
    BY <1>15 DEF read, Goto, Types, OncePlaces
  <2> QED BY <1>15, <2>1, <2>2, GuardedFrame DEF read
<1>16. ASSUME NEW f \in Flows, NEW l \in RwLocks, write(f, l) PROVE Guarded'
  <2>1. \A e \in Flows : \A m : Owns(e, "spin", m)' <=> Owns(e, "spin", m)
    BY <1>16, OwnsTaking, GuardMade DEF write, Goto, Acquiring
  <2>2. \A e \in Flows : pc'[e] \in OncePlaces => pc'[e] = pc[e]
    BY <1>16 DEF write, Goto, Types, OncePlaces
  <2> QED BY <1>16, <2>1, <2>2, GuardedFrame DEF write
<1>17. ASSUME NEW f \in Flows, NEW l \in SpinLocks, lock_spin(f, l) PROVE Guarded'
  <2>1. \A e \in Flows : \A m : Owns(e, "spin", m)' <=> Owns(e, "spin", m)
    BY <1>17, OwnsTaking, GuardMade DEF lock_spin, Goto, Acquiring
  <2>2. \A e \in Flows : pc'[e] \in OncePlaces => pc'[e] = pc[e]
    BY <1>17 DEF lock_spin, Goto, Types, OncePlaces
  <2> QED BY <1>17, <2>1, <2>2, GuardedFrame DEF lock_spin
<1>18. ASSUME NEW f \in Flows, NEW p \in PerCpus, current(f, p) PROVE Guarded'
  <2>1. \A e \in Flows : \A m : Owns(e, "spin", m)' <=> Owns(e, "spin", m)
    BY <1>18, OwnsSlot DEF current
  <2> QED BY <1>18, <2>1, GuardedFrame DEF current
<1>19. ASSUME NEW f \in Flows, get_or_init(f) PROVE Guarded'
  <2>1. \A e \in Flows : pc'[e] \in Acquiring <=> pc[e] \in Acquiring
    BY <1>19 DEF get_or_init, Goto, Types, Acquiring
  <2>2. \A e \in Flows : pc'[e] \in OncePlaces => pc'[e] = pc[e]
    BY <1>19 DEF get_or_init, Goto, Types, OncePlaces
  <2> QED BY <1>19, <2>1, <2>2, OwnsMoved, GuardedFrame DEF get_or_init
<1>20. ASSUME NEW h \in Harts, Interrupt(h) PROVE Guarded'
  BY <1>20, OwnsMoved, GuardedFrame DEF Interrupt
<1>21. ASSUME NEW h \in Harts, Return(h) PROVE Guarded'
  BY <1>21, OwnsMoved, GuardedFrame DEF Return
<1>22. CASE UNCHANGED vars
  BY <1>22, OwnsMoved, GuardedFrame DEF vars
<1> QED BY <1>1, <1>2, <1>3, <1>4, <1>5, <1>6, <1>7, <1>8, <1>9, <1>10, <1>11, <1>12, <1>13, <1>14, <1>15, <1>16, <1>17, <1>18, <1>19, <1>20, <1>21, <1>22 DEF Next, Step, Begin, DropInnermost

-----------------------------------------------------------------------------
(* The counters of RwLock *)

Waiters(l) == {f \in Flows : Waits(f, "write.cas", l) \/ Waits(f, "write.sub", l)}

\* state counts the readers by two or is WRITER for the one writer, with
\* no readers; waiting_writers counts the writers that wait.
Counted(l) ==
  /\ \/ Writers(l) = {} /\ state[l] = 2 * Cardinality(Readers(l))
     \/ Readers(l) = {} /\ state[l] = 1 /\ \E w \in Flows : Writers(l) = {w}
  /\ waiting_writers[l] = Cardinality(Waiters(l))

\* This holds of every RwLock, and the state that a reader is about to
\* compare with was read when no writer was in.
RwCounts ==
  /\ \A l \in RwLocks : Counted(l)
  /\ \A f \in Flows : snap[f] \in Nat /\ (pc[f] = "read.cas" => snap[f] % 2 = 0)

\* The sets that are counted are finite.
LEMMA FiniteCounts ==
  ASSUME NEW l
  PROVE  /\ IsFiniteSet(Readers(l)) /\ Cardinality(Readers(l)) \in Nat
         /\ IsFiniteSet(Waiters(l)) /\ Cardinality(Waiters(l)) \in Nat
<1>1. IsFiniteSet({"task", "irq"})
  <2>1. IsFiniteSet({"task"}) /\ {"task", "irq"} = {"task"} \cup {"irq"}
    BY FS_Singleton
  <2> QED BY <2>1, FS_AddElement
<1>2. IsFiniteSet(Flows)
  BY <1>1, HartsAssumption, FS_Product DEF Flows
<1>3. Readers(l) \subseteq Flows /\ Waiters(l) \subseteq Flows
  BY DEF Readers, Waiters
<1> QED BY <1>2, <1>3, FS_Subset, FS_CardinalityType

\* A step that leaves the counters of a lock, its guards and the places in
\* its functions alone.
LEMMA CountedFrame ==
  ASSUME NEW l, Counted(l), state'[l] = state[l], waiting_writers'[l] = waiting_writers[l],
         \A e \in Flows : /\ Owns(e, "read", l)' <=> Owns(e, "read", l)
                          /\ Owns(e, "write", l)' <=> Owns(e, "write", l)
                          /\ Waits(e, "write.cas", l)' <=> Waits(e, "write.cas", l)
                          /\ Waits(e, "write.sub", l)' <=> Waits(e, "write.sub", l)
  PROVE  Counted(l)'
<1>1. Readers(l)' = Readers(l) /\ Writers(l)' = Writers(l) /\ Waiters(l)' = Waiters(l)
  BY DEF Readers, Writers, Waiters
<1> QED BY <1>1 DEF Counted

\* A flow waits for a lock as before when its place and its stack are as before.
LEMMA WaitsKept ==
  ASSUME NEW p, \A e \in Flows : /\ pc'[e] = p <=> pc[e] = p
                                 /\ pc[e] = p => stack'[e] = stack[e]
  PROVE  \A e \in Flows : \A l : Waits(e, p, l)' <=> Waits(e, p, l)
BY DEF Waits, Top

\* A step that does so for all locks.
LEMMA RwFrame ==
  ASSUME RwCounts, state' = state, waiting_writers' = waiting_writers, snap' = snap,
         \A e \in Flows : \A l : /\ Owns(e, "read", l)' <=> Owns(e, "read", l)
                                 /\ Owns(e, "write", l)' <=> Owns(e, "write", l),
         \A e \in Flows : /\ pc'[e] = "write.cas" <=> pc[e] = "write.cas"
                          /\ pc'[e] = "write.sub" <=> pc[e] = "write.sub"
                          /\ pc'[e] = "read.cas" => pc[e] = "read.cas"
                          /\ pc[e] \in Acquiring => stack'[e] = stack[e]
  PROVE  RwCounts'
<1>1. \A e \in Flows : \A l : /\ Waits(e, "write.cas", l)' <=> Waits(e, "write.cas", l)
                              /\ Waits(e, "write.sub", l)' <=> Waits(e, "write.sub", l)
  BY WaitsKept DEF Acquiring
<1>2. ASSUME NEW l \in RwLocks PROVE Counted(l)'
  BY <1>1, CountedFrame DEF RwCounts
<1> QED BY <1>2 DEF RwCounts

\* Every step keeps this.
LEMMA RwCountsStep ==
  ASSUME Types, Stacked, RwCounts, [Next]_vars
  PROVE  RwCounts'
<1> USE DEF lockVars, onceVars, flowVars
<1>1. ASSUME NEW f \in Flows, ReadCheck(f) PROVE RwCounts'
  <2>1. \A e \in Flows : pc'[e] \in Acquiring <=> pc[e] \in Acquiring
    BY <1>1 DEF ReadCheck, Goto, Types, Acquiring
  <2>2. \A e \in Flows : \A k, l : Owns(e, k, l)' <=> Owns(e, k, l)
    BY <1>1, <2>1, OwnsMoved DEF ReadCheck
  <2>3. \A e \in Flows : /\ pc'[e] = "write.cas" <=> pc[e] = "write.cas"
                         /\ pc'[e] = "write.sub" <=> pc[e] = "write.sub"
                         /\ pc'[e] = "read.cas" => pc[e] = "read.cas"
    BY <1>1 DEF ReadCheck, Goto, Types
  <2> QED BY <1>1, <2>2, <2>3, RwFrame DEF ReadCheck
<1>2. ASSUME NEW f \in Flows, ReadLoad(f) PROVE RwCounts'
  <2>0. pc[f] = "read.load" /\ stack[f] # <<>> /\ Top(f).kind = "read"
    BY <1>2 DEF ReadLoad, Stacked, StackedFlow, Acquiring
  <2>1. \A e \in Flows : pc'[e] \in Acquiring <=> pc[e] \in Acquiring
    BY <1>2 DEF ReadLoad, Goto, Types, Acquiring
  <2>2. \A e \in Flows : \A k, l : Owns(e, k, l)' <=> Owns(e, k, l)
    BY <1>2, <2>1, OwnsMoved DEF ReadLoad
  <2>3. \A e \in Flows : /\ pc'[e] = "write.cas" <=> pc[e] = "write.cas"
                         /\ pc'[e] = "write.sub" <=> pc[e] = "write.sub"
    BY <1>2 DEF ReadLoad, Goto, Types
  <2>4. \A e \in Flows : \A l : /\ Waits(e, "write.cas", l)' <=> Waits(e, "write.cas", l)
                                /\ Waits(e, "write.sub", l)' <=> Waits(e, "write.sub", l)
    BY <1>2, <2>3, WaitsKept DEF ReadLoad
  <2>5. ASSUME NEW l \in RwLocks PROVE Counted(l)'
    BY <1>2, <2>2, <2>4, CountedFrame DEF ReadLoad, RwCounts
  <2>6. Top(f).lock \in RwLocks
    BY <2>0, TopIs, GuardKinds
  <2>7. state[Top(f).lock] \in Nat
    BY <2>6, FiniteCounts, SMT DEF RwCounts, Counted
  <2>8. CASE state[Top(f).lock] % 2 = 1
    BY <1>2, <2>5, <2>8 DEF ReadLoad, Goto, Types, RwCounts, READER, WRITER
  <2>9. CASE state[Top(f).lock] % 2 # 1
    <3>1. state[Top(f).lock] % 2 = 0
      BY <2>7, <2>9, SMT
    <3>2. snap' = [snap EXCEPT ![f] = state[Top(f).lock]] /\ pc' = [pc EXCEPT ![f] = "read.cas"]
      BY <1>2, <2>9 DEF ReadLoad, Goto, READER, WRITER
    <3> QED BY <2>5, <2>7, <3>1, <3>2 DEF Types, RwCounts
  <2> QED BY <2>8, <2>9
<1>3. ASSUME NEW f \in Flows, ReadCas(f) PROVE RwCounts'
  <2>0. pc[f] \in Acquiring /\ stack[f] # <<>> /\ Top(f).kind = "read" /\ Top(f).lock \in RwLocks
    <3>1. pc[f] \in Acquiring /\ stack[f] # <<>> /\ Top(f).kind = "read"
      BY <1>3 DEF ReadCas, Stacked, StackedFlow, Acquiring
    <3> QED BY <3>1, TopIs, GuardKinds
  <2> PICK m \in RwLocks : m = Top(f).lock
    BY <2>0
  <2>1. \A e \in Flows : snap'[e] \in Nat /\ (pc'[e] = "read.cas" => snap'[e] % 2 = 0)
    BY <1>3 DEF ReadCas, Goto, Types, RwCounts
  <2>2. \A e \in Flows : \A l : /\ Waits(e, "write.cas", l)' <=> Waits(e, "write.cas", l)
                                /\ Waits(e, "write.sub", l)' <=> Waits(e, "write.sub", l)
    <3>1. \A e \in Flows : /\ pc'[e] = "write.cas" <=> pc[e] = "write.cas"
                           /\ pc'[e] = "write.sub" <=> pc[e] = "write.sub"
      BY <1>3 DEF ReadCas, Goto, Types
    <3> QED BY <1>3, <3>1, WaitsKept DEF ReadCas
  <2>3. CASE state[m] # snap[f]
    <3>1. \A e \in Flows : pc'[e] \in Acquiring <=> pc[e] \in Acquiring
      BY <1>3, <2>3 DEF ReadCas, Goto, Types, Acquiring
    <3>2. \A e \in Flows : \A k, l : Owns(e, k, l)' <=> Owns(e, k, l)
      BY <1>3, <3>1, OwnsMoved DEF ReadCas
    <3>3. ASSUME NEW l \in RwLocks PROVE Counted(l)'
      BY <1>3, <2>2, <2>3, <3>2, CountedFrame DEF ReadCas, RwCounts
    <3> QED BY <2>1, <3>3 DEF RwCounts
  <2>4. CASE state[m] = snap[f]
    <3>1. pc' = [pc EXCEPT ![f] = "idle"] /\ stack' = stack
      BY <1>3, <2>4 DEF ReadCas, Goto
    <3>2. /\ \A e \in Flows : \A k, l :
               Owns(e, k, l)' <=> Owns(e, k, l) \/ (e = f /\ k = "read" /\ l = m)
          /\ ~ Owns(f, "read", m)
      <4>1. /\ \A e \in Flows : \A k, l : Owns(e, k, l)' <=>
                 Owns(e, k, l) \/ (e = f /\ k = Top(f).kind /\ l = Top(f).lock)
            /\ \A k : ~ Owns(f, k, Top(f).lock)
        BY <2>0, <3>1, OwnsGot
      <4> QED BY <2>0, <4>1
    <3>3. state'[m] = state[m] + 2 /\ \A l \in RwLocks \ {m} : state'[l] = state[l]
      BY <1>3, <2>0, <2>4 DEF ReadCas, Types, READER
    <3>4. waiting_writers' = waiting_writers
      BY <1>3 DEF ReadCas
    <3>5. ASSUME NEW l \in RwLocks, l # m PROVE Counted(l)'
      BY <2>2, <3>2, <3>3, <3>4, <3>5, CountedFrame DEF RwCounts
    <3>6. Counted(m)'
      <4>1. Readers(m)' = Readers(m) \cup {f} /\ f \notin Readers(m)
        BY <3>2 DEF Readers
      <4>2. Writers(m)' = Writers(m) /\ Waiters(m)' = Waiters(m)
        <5>1. ASSUME NEW e \in Flows PROVE Owns(e, "write", m)' <=> Owns(e, "write", m)
          BY <3>2, SMT
        <5> QED BY <2>2, <5>1 DEF Writers, Waiters
      <4>3. Counted(m) /\ state[m] % 2 = 0
        BY <1>3, <2>0, <2>4 DEF ReadCas, RwCounts
      <4>4. state[m] # 1
        BY <4>3, SMT
      <4>5. Writers(m) = {} /\ state[m] = 2 * Cardinality(Readers(m))
        BY <4>3, <4>4 DEF Counted
      <4>6. Cardinality(Readers(m)') = Cardinality(Readers(m)) + 1
        BY <4>1, FiniteCounts, FS_AddElement
      <4>7. state'[m] = 2 * Cardinality(Readers(m)')
        BY <3>3, <4>5, <4>6, FiniteCounts, SMT
      <4>8. waiting_writers'[m] = Cardinality(Waiters(m)')
        BY <3>4, <4>2, <4>3 DEF Counted
      <4> QED BY <4>2, <4>5, <4>7, <4>8 DEF Counted
    <3> QED BY <2>1, <3>5, <3>6 DEF RwCounts
  <2> QED BY <2>3, <2>4
<1>4. ASSUME NEW f \in Flows, WriteAdd(f) PROVE RwCounts'
  <2>0. pc[f] \in Acquiring /\ stack[f] # <<>> /\ Top(f).kind = "write" /\ Top(f).lock \in RwLocks
    <3>1. pc[f] \in Acquiring /\ stack[f] # <<>> /\ Top(f).kind = "write"
      BY <1>4 DEF WriteAdd, Stacked, StackedFlow, Acquiring
    <3> QED BY <3>1, TopIs, GuardKinds
  <2> PICK m \in RwLocks : m = Top(f).lock
    BY <2>0
  <2>1. \A e \in Flows : pc'[e] \in Acquiring <=> pc[e] \in Acquiring
    BY <1>4 DEF WriteAdd, Goto, Types, Acquiring
  <2>2. \A e \in Flows : \A k, l : Owns(e, k, l)' <=> Owns(e, k, l)
    BY <1>4, <2>1, OwnsMoved DEF WriteAdd
  <2>3. pc[f] = "write.add" /\ pc'[f] = "write.cas" /\ \A e \in Flows \ {f} : pc'[e] = pc[e]
    BY <1>4 DEF WriteAdd, Goto, Types
  <2>4. \A e \in Flows : \A l :
          /\ Waits(e, "write.cas", l)' <=> Waits(e, "write.cas", l) \/ (e = f /\ l = m)
          /\ Waits(e, "write.sub", l)' <=> Waits(e, "write.sub", l)
    BY <1>4, <2>3 DEF WriteAdd, Waits, Top
  <2>5. waiting_writers'[m] = waiting_writers[m] + 1 /\ \A l \in RwLocks \ {m} : waiting_writers'[l] = waiting_writers[l]
    BY <1>4, <2>0 DEF WriteAdd, Types
  <2>6. state' = state
    BY <1>4 DEF WriteAdd
  <2>7. ASSUME NEW l \in RwLocks, l # m PROVE Counted(l)'
    BY <2>2, <2>4, <2>5, <2>6, <2>7, CountedFrame DEF RwCounts
  <2>8. Counted(m)'
    <3>1. Waiters(m)' = Waiters(m) \cup {f} /\ f \notin Waiters(m)
      BY <2>3, <2>4 DEF Waiters, Waits
    <3>2. Readers(m)' = Readers(m) /\ Writers(m)' = Writers(m)
      BY <2>2, <2>4 DEF Readers, Writers
    <3>3. Cardinality(Waiters(m)') = Cardinality(Waiters(m)) + 1
      BY <3>1, FiniteCounts, FS_AddElement
    <3>4. Counted(m)
      BY <2>0 DEF RwCounts
    <3> QED BY <2>5, <2>6, <3>2, <3>3, <3>4 DEF Counted
  <2>9. \A e \in Flows : snap'[e] \in Nat /\ (pc'[e] = "read.cas" => snap'[e] % 2 = 0)
    BY <1>4, <2>3 DEF WriteAdd, RwCounts
  <2> QED BY <2>7, <2>8, <2>9 DEF RwCounts
<1>5. ASSUME NEW f \in Flows, WriteCas(f) PROVE RwCounts'
  <2>0. pc[f] \in Acquiring /\ stack[f] # <<>> /\ Top(f).kind = "write" /\ Top(f).lock \in RwLocks
    <3>1. pc[f] \in Acquiring /\ stack[f] # <<>> /\ Top(f).kind = "write"
      BY <1>5 DEF WriteCas, Stacked, StackedFlow, Acquiring
    <3> QED BY <3>1, TopIs, GuardKinds
  <2> PICK m \in RwLocks : m = Top(f).lock
    BY <2>0
  <2>1. \A e \in Flows : pc'[e] \in Acquiring <=> pc[e] \in Acquiring
    BY <1>5 DEF WriteCas, Goto, Types, Acquiring
  <2>2. \A e \in Flows : \A k, l : Owns(e, k, l)' <=> Owns(e, k, l)
    BY <1>5, <2>1, OwnsMoved DEF WriteCas
  <2>3. pc[f] = "write.cas" /\ pc'[f] = "write.sub" /\ \A e \in Flows \ {f} : pc'[e] = pc[e]
    BY <1>5 DEF WriteCas, Goto, Types
  <2>4. \A e \in Flows : \A l :
          /\ Waits(e, "write.cas", l)' <=> Waits(e, "write.cas", l) /\ e # f
          /\ Waits(e, "write.sub", l)' <=> Waits(e, "write.sub", l) \/ (e = f /\ l = m)
          /\ Waits(f, "write.cas", l) <=> l = m
    BY <1>5, <2>3 DEF WriteCas, Waits, Top
  <2>5. state[m] = 0 /\ state'[m] = 1 /\ \A l \in RwLocks \ {m} : state'[l] = state[l]
    BY <1>5, <2>0 DEF WriteCas, Types, WRITER
  <2>6. waiting_writers' = waiting_writers
    BY <1>5 DEF WriteCas
  <2>7. ASSUME NEW l \in RwLocks, l # m PROVE Counted(l)'
    BY <2>2, <2>4, <2>5, <2>6, <2>7, CountedFrame DEF RwCounts
  <2>8. Counted(m)'
    <3>1. Waiters(m)' = Waiters(m)
      BY <2>4 DEF Waiters
    <3>2. Readers(m)' = Readers(m) /\ Writers(m)' = Writers(m) \cup {f}
      BY <2>2, <2>4 DEF Readers, Writers
    <3>3. Counted(m)
      BY <2>0 DEF RwCounts
    <3>4. Writers(m) = {} /\ Cardinality(Readers(m)) = 0
      BY <2>5, <3>3, FiniteCounts, SMT DEF Counted
    <3>5. Readers(m)' = {} /\ Writers(m)' = {f}
      BY <3>2, <3>4, FiniteCounts, FS_EmptySet
    <3> QED BY <2>5, <2>6, <3>1, <3>3, <3>5 DEF Counted
  <2>9. \A e \in Flows : snap'[e] \in Nat /\ (pc'[e] = "read.cas" => snap'[e] % 2 = 0)
    BY <1>5, <2>3 DEF WriteCas, RwCounts
  <2> QED BY <2>7, <2>8, <2>9 DEF RwCounts
<1>6. ASSUME NEW f \in Flows, WriteSub(f) PROVE RwCounts'
  <2>0. pc[f] \in Acquiring /\ stack[f] # <<>> /\ Top(f).kind = "write" /\ Top(f).lock \in RwLocks
    <3>1. pc[f] \in Acquiring /\ stack[f] # <<>> /\ Top(f).kind = "write"
      BY <1>6 DEF WriteSub, Stacked, StackedFlow, Acquiring
    <3> QED BY <3>1, TopIs, GuardKinds
  <2> PICK m \in RwLocks : m = Top(f).lock
    BY <2>0
  <2>1. pc' = [pc EXCEPT ![f] = "idle"] /\ stack' = stack /\ state' = state
    BY <1>6 DEF WriteSub, Goto
  <2>2. \A e \in Flows : \A k, l :
          Owns(e, k, l)' <=> Owns(e, k, l) \/ (e = f /\ k = "write" /\ l = m)
    <3>1. \A e \in Flows : \A k, l : Owns(e, k, l)' <=>
            Owns(e, k, l) \/ (e = f /\ k = Top(f).kind /\ l = Top(f).lock)
      BY <2>0, <2>1, OwnsGot
    <3> QED BY <2>0, <3>1
  <2>3. pc[f] = "write.sub" /\ pc'[f] = "idle" /\ \A e \in Flows \ {f} : pc'[e] = pc[e]
    BY <1>6 DEF WriteSub, Goto, Types
  <2>4. \A e \in Flows : \A l :
          /\ Waits(e, "write.cas", l)' <=> Waits(e, "write.cas", l)
          /\ Waits(e, "write.sub", l)' <=> Waits(e, "write.sub", l) /\ e # f
          /\ Waits(f, "write.sub", l) <=> l = m
          /\ ~ Waits(f, "write.cas", l)
    BY <2>1, <2>3 DEF Waits, Top
  <2>5. waiting_writers'[m] = waiting_writers[m] - 1 /\ \A l \in RwLocks \ {m} : waiting_writers'[l] = waiting_writers[l]
    BY <1>6, <2>0 DEF WriteSub, Types
  <2>7. ASSUME NEW l \in RwLocks, l # m PROVE Counted(l)'
    BY <2>1, <2>2, <2>4, <2>5, <2>7, CountedFrame DEF RwCounts
  <2>8. Counted(m)'
    <3>1. Waiters(m)' = Waiters(m) \ {f} /\ f \in Waiters(m)
      BY <2>4 DEF Waiters
    <3>2. Readers(m)' = Readers(m) /\ Writers(m)' = Writers(m)
      <4>1. ASSUME NEW e \in Flows PROVE Owns(e, "read", m)' <=> Owns(e, "read", m)
        BY <2>2, SMT
      <4>2. \A e \in Flows : (Owns(e, "write", m)' \/ Waits(e, "write.sub", m)') <=>
              (Owns(e, "write", m) \/ Waits(e, "write.sub", m))
        BY <2>2, <2>4
      <4> QED BY <4>1, <4>2 DEF Readers, Writers
    <3>3. Cardinality(Waiters(m)') = Cardinality(Waiters(m)) - 1
      BY <3>1, FiniteCounts, FS_RemoveElement
    <3>4. Counted(m)
      BY <2>0 DEF RwCounts
    <3> QED BY <2>1, <2>5, <3>2, <3>3, <3>4 DEF Counted
  <2>9. \A e \in Flows : snap'[e] \in Nat /\ (pc'[e] = "read.cas" => snap'[e] % 2 = 0)
    BY <1>6, <2>3 DEF WriteSub, RwCounts
  <2> QED BY <2>7, <2>8, <2>9 DEF RwCounts
<1>7. ASSUME NEW f \in Flows, SpinCas(f) PROVE RwCounts'
  <2>1. pc[f] \in Acquiring /\ Top(f).kind = "spin"
    BY <1>7 DEF SpinCas, Stacked, StackedFlow, Acquiring
  <2>2. pc' = [pc EXCEPT ![f] = "idle"] /\ stack' = stack
    BY <1>7 DEF SpinCas, Goto
  <2>3. \A e \in Flows : \A k, l : k # "spin" => (Owns(e, k, l)' <=> Owns(e, k, l))
    BY <2>1, <2>2, OwnsGot
  <2>4. \A e \in Flows : /\ pc'[e] = "write.cas" <=> pc[e] = "write.cas"
                         /\ pc'[e] = "write.sub" <=> pc[e] = "write.sub"
                         /\ pc'[e] = "read.cas" => pc[e] = "read.cas"
    BY <1>7 DEF SpinCas, Goto, Types
  <2> QED BY <1>7, <2>3, <2>4, RwFrame DEF SpinCas
<1>8. ASSUME NEW f \in Flows, DropRead(f) PROVE RwCounts'
  <2>0. Top(f) \in Guard /\ Top(f).kind = "read" /\ pc[f] = "idle" /\ \A e \in Flows \ {f} : stack'[e] = stack[e]
    BY <1>8, DropStep DEF DropRead
  <2>1. Top(f).lock \in RwLocks
    BY <2>0, GuardKinds
  <2> PICK m \in RwLocks : m = Top(f).lock
    BY <2>1
  <2>2. /\ \A e \in Flows : \A j, l : Owns(e, j, l)' <=> Owns(e, j, l) /\ ~ (e = f /\ l = m)
        /\ Owns(f, "read", m) /\ \A j : Owns(f, j, m) => j = "read"
    BY <1>8, OwnsDropped DEF DropRead
  <2>3. pc' = pc /\ snap' = snap /\ waiting_writers' = waiting_writers
    BY <1>8 DEF DropRead
  <2>4. \A e \in Flows : \A l : /\ Waits(e, "write.cas", l)' <=> Waits(e, "write.cas", l)
                                /\ Waits(e, "write.sub", l)' <=> Waits(e, "write.sub", l)
    BY <2>0, <2>3 DEF Waits, Top
  <2>5. state'[m] = state[m] - 2 /\ \A l \in RwLocks \ {m} : state'[l] = state[l]
    BY <1>8, <2>1 DEF DropRead, Types, READER
  <2>6. ASSUME NEW l \in RwLocks, l # m PROVE Counted(l)'
    BY <2>2, <2>3, <2>4, <2>5, <2>6, CountedFrame DEF RwCounts
  <2>7. Counted(m)'
    <3>1. Readers(m)' = Readers(m) \ {f} /\ f \in Readers(m)
      BY <2>2 DEF Readers
    <3>2. \A e \in Flows : Owns(e, "write", m)' <=> Owns(e, "write", m)
      BY <2>2
    <3>3. Writers(m)' = Writers(m) /\ Waiters(m)' = Waiters(m)
      BY <2>4, <3>2 DEF Writers, Waiters
    <3>4. Counted(m)
      BY <2>1 DEF RwCounts
    <3>5. Writers(m) = {} /\ state[m] = 2 * Cardinality(Readers(m))
      BY <3>1, <3>4 DEF Counted
    <3>6. Cardinality(Readers(m)') = Cardinality(Readers(m)) - 1
      BY <3>1, FiniteCounts, FS_RemoveElement
    <3>7. state'[m] = 2 * Cardinality(Readers(m)')
      BY <2>5, <3>5, <3>6, FiniteCounts, SMT
    <3>8. waiting_writers'[m] = Cardinality(Waiters(m)')
      BY <2>3, <3>3, <3>4 DEF Counted
    <3> QED BY <3>3, <3>5, <3>7, <3>8 DEF Counted
  <2> QED BY <2>3, <2>6, <2>7 DEF RwCounts
<1>9. ASSUME NEW f \in Flows, DropWrite(f) PROVE RwCounts'
  <2>0. Top(f) \in Guard /\ Top(f).kind = "write" /\ pc[f] = "idle" /\ \A e \in Flows \ {f} : stack'[e] = stack[e]
    BY <1>9, DropStep DEF DropWrite
  <2>1. Top(f).lock \in RwLocks
    BY <2>0, GuardKinds
  <2> PICK m \in RwLocks : m = Top(f).lock
    BY <2>1
  <2>2. /\ \A e \in Flows : \A j, l : Owns(e, j, l)' <=> Owns(e, j, l) /\ ~ (e = f /\ l = m)
        /\ Owns(f, "write", m) /\ \A j : Owns(f, j, m) => j = "write"
    BY <1>9, OwnsDropped DEF DropWrite
  <2>3. pc' = pc /\ snap' = snap /\ waiting_writers' = waiting_writers
    BY <1>9 DEF DropWrite
  <2>4. \A e \in Flows : \A l : /\ Waits(e, "write.cas", l)' <=> Waits(e, "write.cas", l)
                                /\ Waits(e, "write.sub", l)' <=> Waits(e, "write.sub", l)
    BY <2>0, <2>3 DEF Waits, Top
  <2>5. state'[m] = 0 /\ \A l \in RwLocks \ {m} : state'[l] = state[l]
    BY <1>9, <2>1 DEF DropWrite, Types
  <2>6. ASSUME NEW l \in RwLocks, l # m PROVE Counted(l)'
    BY <2>2, <2>3, <2>4, <2>5, <2>6, CountedFrame DEF RwCounts
  <2>7. Counted(m)'
    <3>1. Readers(m)' \subseteq Readers(m)
      BY <2>2 DEF Readers
    <3>2. Writers(m)' = Writers(m) \ {f} /\ f \in Writers(m)
      BY <2>0, <2>2, <2>4 DEF Writers, Waits
    <3>3. Waiters(m)' = Waiters(m)
      BY <2>4 DEF Waiters
    <3>4. Counted(m)
      BY <2>1 DEF RwCounts
    <3>5. Readers(m)' = {} /\ Writers(m)' = {}
      BY <3>1, <3>2, <3>4 DEF Counted
    <3>6. 0 = 2 * Cardinality(Readers(m)')
      BY <3>5, FS_EmptySet, SMT
    <3>7. waiting_writers'[m] = Cardinality(Waiters(m)')
      BY <2>3, <3>3, <3>4 DEF Counted
    <3> QED BY <2>5, <3>5, <3>6, <3>7 DEF Counted
  <2> QED BY <2>3, <2>6, <2>7 DEF RwCounts
<1>10. ASSUME NEW f \in Flows, DropSpin(f) PROVE RwCounts'
  <2>1. /\ \A e \in Flows : \A j, l :
             Owns(e, j, l)' <=> Owns(e, j, l) /\ ~ (e = f /\ l = Top(f).lock)
        /\ \A j : Owns(f, j, Top(f).lock) => j = "spin"
    BY <1>10, OwnsDropped DEF DropSpin
  <2>2. \A e \in Flows : \A l : /\ Owns(e, "read", l)' <=> Owns(e, "read", l)
                                /\ Owns(e, "write", l)' <=> Owns(e, "write", l)
    BY <2>1
  <2>3. pc[f] = "idle" /\ \A e \in Flows \ {f} : stack'[e] = stack[e]
    BY <1>10, DropStep DEF DropSpin
  <2>4. \A e \in Flows : pc[e] \in Acquiring => stack'[e] = stack[e]
    BY <2>3 DEF Acquiring
  <2> QED BY <1>10, <2>2, <2>4, RwFrame DEF DropSpin
<1>11. ASSUME NEW f \in Flows, DropCpu(f) PROVE RwCounts'
  <2>1. /\ \A e \in Flows : \A j, l :
             Owns(e, j, l)' <=> Owns(e, j, l) /\ ~ (e = f /\ l = Top(f).lock)
        /\ \A j : Owns(f, j, Top(f).lock) => j = "cpu"
    BY <1>11, OwnsDropped DEF DropCpu
  <2>2. \A e \in Flows : \A l : /\ Owns(e, "read", l)' <=> Owns(e, "read", l)
                                /\ Owns(e, "write", l)' <=> Owns(e, "write", l)
    BY <2>1
  <2>3. pc[f] = "idle" /\ \A e \in Flows \ {f} : stack'[e] = stack[e]
    BY <1>11, DropStep DEF DropCpu
  <2>4. \A e \in Flows : pc[e] \in Acquiring => stack'[e] = stack[e]
    BY <2>3 DEF Acquiring
  <2> QED BY <1>11, <2>2, <2>4, RwFrame DEF DropCpu
<1>12. ASSUME NEW f \in Flows, OnceCas(f) PROVE RwCounts'
  <2>1. \A e \in Flows : pc'[e] \in Acquiring <=> pc[e] \in Acquiring
    BY <1>12 DEF OnceCas, Goto, Types, Acquiring
  <2>2. \A e \in Flows : \A k, l : Owns(e, k, l)' <=> Owns(e, k, l)
    BY <1>12, <2>1, OwnsMoved DEF OnceCas
  <2>3. \A e \in Flows : /\ pc'[e] = "write.cas" <=> pc[e] = "write.cas"
                         /\ pc'[e] = "write.sub" <=> pc[e] = "write.sub"
                         /\ pc'[e] = "read.cas" => pc[e] = "read.cas"
    BY <1>12 DEF OnceCas, Goto, Types
  <2> QED BY <1>12, <2>2, <2>3, RwFrame DEF OnceCas
<1>13. ASSUME NEW f \in Flows, OnceInit(f) PROVE RwCounts'
  <2>1. \A e \in Flows : pc'[e] \in Acquiring <=> pc[e] \in Acquiring
    BY <1>13 DEF OnceInit, Goto, Types, Acquiring
  <2>2. \A e \in Flows : \A k, l : Owns(e, k, l)' <=> Owns(e, k, l)
    BY <1>13, <2>1, OwnsMoved DEF OnceInit
  <2>3. \A e \in Flows : /\ pc'[e] = "write.cas" <=> pc[e] = "write.cas"
                         /\ pc'[e] = "write.sub" <=> pc[e] = "write.sub"
                         /\ pc'[e] = "read.cas" => pc[e] = "read.cas"
    BY <1>13 DEF OnceInit, Goto, Types
  <2> QED BY <1>13, <2>2, <2>3, RwFrame DEF OnceInit
<1>14. ASSUME NEW f \in Flows, OnceStore(f) PROVE RwCounts'
  <2>1. \A e \in Flows : pc'[e] \in Acquiring <=> pc[e] \in Acquiring
    BY <1>14 DEF OnceStore, Goto, Types, Acquiring
  <2>2. \A e \in Flows : \A k, l : Owns(e, k, l)' <=> Owns(e, k, l)
    BY <1>14, <2>1, OwnsMoved DEF OnceStore
  <2>3. \A e \in Flows : /\ pc'[e] = "write.cas" <=> pc[e] = "write.cas"
                         /\ pc'[e] = "write.sub" <=> pc[e] = "write.sub"
                         /\ pc'[e] = "read.cas" => pc[e] = "read.cas"
    BY <1>14 DEF OnceStore, Goto, Types
  <2> QED BY <1>14, <2>2, <2>3, RwFrame DEF OnceStore
<1>15. ASSUME NEW f \in Flows, NEW l \in RwLocks, read(f, l) PROVE RwCounts'
  <2>1. \A e \in Flows : \A k, m : Owns(e, k, m)' <=> Owns(e, k, m)
    BY <1>15, OwnsTaking, GuardMade DEF read, Goto, Acquiring
  <2>2. \A e \in Flows : /\ pc'[e] = "write.cas" <=> pc[e] = "write.cas"
                         /\ pc'[e] = "write.sub" <=> pc[e] = "write.sub"
                         /\ pc'[e] = "read.cas" => pc[e] = "read.cas"
    BY <1>15 DEF read, Take, Goto, Types
  <2>3. \A e \in Flows \ {f} : stack'[e] = stack[e]
    BY <1>15, TakeStep, GuardMade, SMT DEF read
  <2>4. \A e \in Flows : pc[e] \in Acquiring => stack'[e] = stack[e]
    BY <1>15, <2>3 DEF read, Take, Acquiring
  <2> QED BY <1>15, <2>1, <2>2, <2>4, RwFrame DEF read
<1>16. ASSUME NEW f \in Flows, NEW l \in RwLocks, write(f, l) PROVE RwCounts'
  <2>1. \A e \in Flows : \A k, m : Owns(e, k, m)' <=> Owns(e, k, m)
    BY <1>16, OwnsTaking, GuardMade DEF write, Goto, Acquiring
  <2>2. \A e \in Flows : /\ pc'[e] = "write.cas" <=> pc[e] = "write.cas"
                         /\ pc'[e] = "write.sub" <=> pc[e] = "write.sub"
                         /\ pc'[e] = "read.cas" => pc[e] = "read.cas"
    BY <1>16 DEF write, Take, Goto, Types
  <2>3. \A e \in Flows \ {f} : stack'[e] = stack[e]
    BY <1>16, TakeStep, GuardMade, SMT DEF write
  <2>4. \A e \in Flows : pc[e] \in Acquiring => stack'[e] = stack[e]
    BY <1>16, <2>3 DEF write, Take, Acquiring
  <2> QED BY <1>16, <2>1, <2>2, <2>4, RwFrame DEF write
<1>17. ASSUME NEW f \in Flows, NEW l \in SpinLocks, lock_spin(f, l) PROVE RwCounts'
  <2>1. \A e \in Flows : \A k, m : Owns(e, k, m)' <=> Owns(e, k, m)
    BY <1>17, OwnsTaking, GuardMade DEF lock_spin, Goto, Acquiring
  <2>2. \A e \in Flows : /\ pc'[e] = "write.cas" <=> pc[e] = "write.cas"
                         /\ pc'[e] = "write.sub" <=> pc[e] = "write.sub"
                         /\ pc'[e] = "read.cas" => pc[e] = "read.cas"
    BY <1>17 DEF lock_spin, Take, Goto, Types
  <2>3. \A e \in Flows \ {f} : stack'[e] = stack[e]
    BY <1>17, TakeStep, GuardMade, SMT DEF lock_spin
  <2>4. \A e \in Flows : pc[e] \in Acquiring => stack'[e] = stack[e]
    BY <1>17, <2>3 DEF lock_spin, Take, Acquiring
  <2> QED BY <1>17, <2>1, <2>2, <2>4, RwFrame DEF lock_spin
<1>18. ASSUME NEW f \in Flows, NEW p \in PerCpus, current(f, p) PROVE RwCounts'
  <2>1. \A e \in Flows : \A j, m : j # "cpu" => (Owns(e, j, m)' <=> Owns(e, j, m))
    BY <1>18, OwnsSlot DEF current
  <2>2. \A e \in Flows \ {f} : stack'[e] = stack[e]
    BY <1>18, TakeStep, GuardMade, SMT DEF current
  <2>3. \A e \in Flows : pc[e] \in Acquiring => stack'[e] = stack[e]
    BY <1>18, <2>2 DEF current, Take, Acquiring
  <2> QED BY <1>18, <2>1, <2>3, RwFrame DEF current
<1>19. ASSUME NEW f \in Flows, get_or_init(f) PROVE RwCounts'
  <2>1. \A e \in Flows : pc'[e] \in Acquiring <=> pc[e] \in Acquiring
    BY <1>19 DEF get_or_init, Goto, Types, Acquiring
  <2>2. \A e \in Flows : \A k, l : Owns(e, k, l)' <=> Owns(e, k, l)
    BY <1>19, <2>1, OwnsMoved DEF get_or_init
  <2>3. \A e \in Flows : /\ pc'[e] = "write.cas" <=> pc[e] = "write.cas"
                         /\ pc'[e] = "write.sub" <=> pc[e] = "write.sub"
                         /\ pc'[e] = "read.cas" => pc[e] = "read.cas"
    BY <1>19 DEF get_or_init, Goto, Types
  <2> QED BY <1>19, <2>2, <2>3, RwFrame DEF get_or_init
<1>20. ASSUME NEW h \in Harts, Interrupt(h) PROVE RwCounts'
  BY <1>20, OwnsMoved, RwFrame DEF Interrupt
<1>21. ASSUME NEW h \in Harts, Return(h) PROVE RwCounts'
  BY <1>21, OwnsMoved, RwFrame DEF Return
<1>22. CASE UNCHANGED vars
  BY <1>22, OwnsMoved, RwFrame DEF vars
<1> QED BY <1>1, <1>2, <1>3, <1>4, <1>5, <1>6, <1>7, <1>8, <1>9, <1>10, <1>11, <1>12, <1>13, <1>14, <1>15, <1>16, <1>17, <1>18, <1>19, <1>20, <1>21, <1>22 DEF Next, Step, Begin, DropInnermost

-----------------------------------------------------------------------------
(* The interrupt flag *)

\* The suspended flow of a hart has no guards.  Handlers run with the flag
\* clear; a running task has it set exactly while it has no guards; and
\* exactly the outermost guard of a task has saved a set flag.
MaskedFlow(f) ==
  /\ ~ Runs(f) => stack[f] = <<>>
  /\ irq[f[1]] => ~ sie[f[1]]
  /\ f[2] = "task" /\ Runs(f) => (sie[f[1]] <=> stack[f] = <<>>)
  /\ \A i \in DOMAIN stack[f] : stack[f][i].sie <=> f[2] = "task" /\ i = 1
Masked == \A f \in Flows : MaskedFlow(f)

\* The running flow is the handler exactly while the handler is active.
LEMMA RunsIs ==
  ASSUME Types, NEW f \in Flows
  PROVE  Runs(f) <=> (irq[f[1]] <=> f[2] = "irq")
<1>1. irq[f[1]] \in BOOLEAN
  BY FlowPairs DEF Types
<1> QED BY <1>1 DEF Runs

\* One flow of a hart runs.
LEMMA OneRuns ==
  ASSUME Types, NEW e \in Flows, NEW f \in Flows, e # f, Runs(f)
  PROVE  /\ e[1] = f[1] => ~ Runs(e)
         /\ Runs(e) => e[1] # f[1]
<1>1. e[1] = f[1] => e[2] # f[2]
  BY FlowPairs
<1>2. irq[f[1]] \in BOOLEAN
  BY FlowPairs DEF Types
<1> QED BY <1>1, <1>2, FlowPairs DEF Runs

\* A step that changes neither the flag nor guards.
LEMMA MaskedFrame ==
  ASSUME Masked, UNCHANGED <<sie, irq, stack>>
  PROVE  Masked'
BY DEF Masked, MaskedFlow, Runs

\* A step of f that changes the flag of its hart, which is clear in a
\* handler, and its own stack keeps this for the other flows.
LEMMA MaskedOther ==
  ASSUME Types, Masked, NEW f \in Flows, NEW e \in Flows, e # f, Runs(f), irq' = irq,
         stack'[e] = stack[e], \A h \in Harts \ {f[1]} : sie'[h] = sie[h],
         f[2] = "irq" => ~ sie'[f[1]]
  PROVE  MaskedFlow(e)'
<1>1. e[1] \in Harts /\ (Runs(e)' <=> Runs(e))
  BY FlowPairs DEF Runs
<1>2. Runs(e) => sie'[e[1]] = sie[e[1]]
  BY <1>1, OneRuns
<1>3. irq'[e[1]] => ~ sie'[e[1]]
  <2>1. CASE e[1] # f[1]
    BY <1>1, <2>1 DEF Masked, MaskedFlow
  <2>2. CASE e[1] = f[1] /\ f[2] = "irq"
    BY <2>2
  <2>3. CASE e[1] = f[1] /\ f[2] = "task"
    BY <2>3, RunsIs
  <2> QED BY <2>1, <2>2, <2>3, FlowPairs
<1> QED BY <1>1, <1>2, <1>3 DEF Masked, MaskedFlow

\* f starts to take a guard, or has it at once.
LEMMA MaskedTaken ==
  ASSUME Types, Masked, NEW f \in Flows, NEW k, NEW l, Take(f, k, l), Made(k, l), irq' = irq
  PROVE  Masked'
<1>1. /\ ~ sie'[f[1]] /\ \A h \in Harts \ {f[1]} : sie'[h] = sie[h]
      /\ \A e \in Flows \ {f} : stack'[e] = stack[e]
      /\ stack'[f] # <<>> /\ Len(stack'[f]) \in Nat \ {0} /\ Len(stack[f]) = Len(stack'[f]) - 1
      /\ DOMAIN stack[f] = 1..Len(stack[f]) /\ DOMAIN stack'[f] = 1..Len(stack'[f])
      /\ \A i \in 1..Len(stack[f]) : stack'[f][i] = stack[f][i]
      /\ stack'[f][Len(stack'[f])].sie = sie[f[1]]
  BY TakeStep, SMT
<1>2. Runs(f)
  BY DEF Take
<1>3. stack[f] = <<>> <=> Len(stack'[f]) = 1
  <2>1. stack[f] \in Seq(Guard)
    BY DEF Types
  <2>2. stack[f] = <<>> <=> Len(stack[f]) = 0
    BY <2>1, SMT
  <2> QED BY <1>1, <2>2, SMT
<1>4. sie[f[1]] <=> f[2] = "task" /\ Len(stack'[f]) = 1
  <2>1. CASE f[2] = "task"
    BY <1>2, <1>3, <2>1 DEF Masked, MaskedFlow
  <2>2. CASE f[2] = "irq"
    BY <1>2, <2>2, RunsIs DEF Masked, MaskedFlow
  <2> QED BY <2>1, <2>2, FlowPairs
<1>5. \A i \in DOMAIN stack'[f] : i \in 1..Len(stack[f]) \/ i = Len(stack'[f])
  BY <1>1, SMT
<1>6. \A i \in 1..Len(stack[f]) : stack'[f][i].sie <=> f[2] = "task" /\ i = 1
  BY <1>1 DEF Masked, MaskedFlow
<1>7. \A i \in DOMAIN stack'[f] : stack'[f][i].sie <=> f[2] = "task" /\ i = 1
  <2>1. stack'[f][Len(stack'[f])].sie <=> f[2] = "task" /\ Len(stack'[f]) = 1
    BY <1>1, <1>4
  <2>2. ASSUME NEW i \in DOMAIN stack'[f] PROVE stack'[f][i].sie <=> f[2] = "task" /\ i = 1
    <3>1. CASE i \in 1..Len(stack[f])
      BY <1>6, <3>1
    <3>2. CASE i = Len(stack'[f])
      BY <2>1, <3>2
    <3> QED BY <1>5, <3>1, <3>2
  <2> QED BY <2>2
<1>8. MaskedFlow(f)'
  <2>1. Runs(f)'
    BY <1>2 DEF Runs
  <2> QED BY <1>1, <1>7, <2>1 DEF MaskedFlow
<1>9. ASSUME NEW e \in Flows, e # f PROVE MaskedFlow(e)'
  BY <1>1, <1>2, <1>9, MaskedOther
<1> QED BY <1>8, <1>9 DEF Masked

\* f drops its innermost guard.
LEMMA MaskedDropped ==
  ASSUME Types, Masked, NEW f \in Flows, NEW k, Drop(f, k), irq' = irq
  PROVE  Masked'
<1>1. /\ Runs(f) /\ stack[f] # <<>>
      /\ sie'[f[1]] <=> Top(f).sie \/ sie[f[1]]
      /\ \A h \in Harts \ {f[1]} : sie'[h] = sie[h]
      /\ \A e \in Flows \ {f} : stack'[e] = stack[e]
      /\ Len(stack[f]) \in Nat \ {0} /\ Len(stack'[f]) = Len(stack[f]) - 1
      /\ DOMAIN stack[f] = 1..Len(stack[f]) /\ DOMAIN stack'[f] = 1..Len(stack'[f])
      /\ \A i \in 1..Len(stack'[f]) : stack'[f][i] = stack[f][i]
      /\ stack'[f] = <<>> <=> Len(stack[f]) = 1
  BY DropStep
<1>2. Len(stack[f]) \in DOMAIN stack[f] /\ \A i \in 1..Len(stack'[f]) : i \in DOMAIN stack[f]
  BY <1>1, SMT
<1>3. Top(f).sie <=> f[2] = "task" /\ stack'[f] = <<>>
  BY <1>1, <1>2 DEF Top, Masked, MaskedFlow
<1>4. f[2] = "task" => ~ sie[f[1]]
  BY <1>1 DEF Masked, MaskedFlow
<1>5. f[2] = "irq" => ~ sie[f[1]] /\ irq[f[1]]
  BY <1>1, RunsIs DEF Masked, MaskedFlow
<1>6. f[2] = "task" => ~ irq[f[1]]
  BY <1>1, RunsIs
<1>7. f[2] = "irq" => ~ sie'[f[1]]
  BY <1>1, <1>3, <1>5
<1>8. ASSUME NEW i \in DOMAIN stack'[f] PROVE stack'[f][i].sie <=> f[2] = "task" /\ i = 1
  <2>1. stack'[f][i] = stack[f][i] /\ i \in DOMAIN stack[f]
    BY <1>1, <1>2
  <2> QED BY <2>1 DEF Masked, MaskedFlow
<1>9. MaskedFlow(f)'
  <2>1. Runs(f)'
    BY <1>1 DEF Runs
  <2>2. f[2] = "task" => (sie'[f[1]] <=> stack'[f] = <<>>)
    BY <1>1, <1>3, <1>4
  <2>3. irq'[f[1]] => ~ sie'[f[1]]
    BY <1>6, <1>7, FlowPairs
  <2> QED BY <1>8, <2>1, <2>2, <2>3 DEF MaskedFlow
<1>10. ASSUME NEW e \in Flows, e # f PROVE MaskedFlow(e)'
  BY <1>1, <1>7, <1>10, MaskedOther
<1> QED BY <1>9, <1>10 DEF Masked

\* Every step keeps this.
LEMMA MaskedStep ==
  ASSUME Types, Masked, [Next]_vars
  PROVE  Masked'
<1> USE DEF lockVars, onceVars, flowVars
<1>1. ASSUME NEW f \in Flows, ReadCheck(f) PROVE Masked'
  BY <1>1, MaskedFrame DEF ReadCheck
<1>2. ASSUME NEW f \in Flows, ReadLoad(f) PROVE Masked'
  BY <1>2, MaskedFrame DEF ReadLoad
<1>3. ASSUME NEW f \in Flows, ReadCas(f) PROVE Masked'
  BY <1>3, MaskedFrame DEF ReadCas
<1>4. ASSUME NEW f \in Flows, WriteAdd(f) PROVE Masked'
  BY <1>4, MaskedFrame DEF WriteAdd
<1>5. ASSUME NEW f \in Flows, WriteCas(f) PROVE Masked'
  BY <1>5, MaskedFrame DEF WriteCas
<1>6. ASSUME NEW f \in Flows, WriteSub(f) PROVE Masked'
  BY <1>6, MaskedFrame DEF WriteSub
<1>7. ASSUME NEW f \in Flows, SpinCas(f) PROVE Masked'
  BY <1>7, MaskedFrame DEF SpinCas
<1>8. ASSUME NEW f \in Flows, DropRead(f) PROVE Masked'
  BY <1>8, MaskedDropped DEF DropRead
<1>9. ASSUME NEW f \in Flows, DropWrite(f) PROVE Masked'
  BY <1>9, MaskedDropped DEF DropWrite
<1>10. ASSUME NEW f \in Flows, DropSpin(f) PROVE Masked'
  BY <1>10, MaskedDropped DEF DropSpin
<1>11. ASSUME NEW f \in Flows, DropCpu(f) PROVE Masked'
  BY <1>11, MaskedDropped DEF DropCpu
<1>12. ASSUME NEW f \in Flows, OnceCas(f) PROVE Masked'
  BY <1>12, MaskedFrame DEF OnceCas
<1>13. ASSUME NEW f \in Flows, OnceInit(f) PROVE Masked'
  BY <1>13, MaskedFrame DEF OnceInit
<1>14. ASSUME NEW f \in Flows, OnceStore(f) PROVE Masked'
  BY <1>14, MaskedFrame DEF OnceStore
<1>15. ASSUME NEW f \in Flows, NEW l \in RwLocks, read(f, l) PROVE Masked'
  BY <1>15, MaskedTaken, GuardMade DEF read
<1>16. ASSUME NEW f \in Flows, NEW l \in RwLocks, write(f, l) PROVE Masked'
  BY <1>16, MaskedTaken, GuardMade DEF write
<1>17. ASSUME NEW f \in Flows, NEW l \in SpinLocks, lock_spin(f, l) PROVE Masked'
  BY <1>17, MaskedTaken, GuardMade DEF lock_spin
<1>18. ASSUME NEW f \in Flows, NEW p \in PerCpus, current(f, p) PROVE Masked'
  BY <1>18, MaskedTaken, GuardMade DEF current
<1>19. ASSUME NEW f \in Flows, get_or_init(f) PROVE Masked'
  BY <1>19, MaskedFrame DEF get_or_init
<1>20. ASSUME NEW h \in Harts, Interrupt(h) PROVE Masked'
  <2>0. irq'[h] = TRUE /\ ~ sie'[h] /\ ~ irq[h] /\ sie[h] /\ \A i \in Harts \ {h} : irq'[i] = irq[i] /\ sie'[i] = sie[i]
    BY <1>20 DEF Interrupt, Types
  <2>1. stack' = stack
    BY <1>20 DEF Interrupt
  <2>2. SUFFICES ASSUME NEW e \in Flows PROVE MaskedFlow(e)'
    BY DEF Masked
  <2>3. e[1] \in Harts
    BY FlowPairs
  <2>4. CASE e[1] # h
    <3>1. Runs(e)' <=> Runs(e)
      BY <2>0, <2>3, <2>4 DEF Runs
    <3> QED BY <2>0, <2>1, <2>3, <2>4, <3>1 DEF Masked, MaskedFlow
  <2>5. CASE e[1] = h
    <3>1. stack[e] = <<>>
      <4>1. CASE e[2] = "task"
        BY <2>0, <2>5, <4>1, RunsIs DEF Masked, MaskedFlow
      <4>2. CASE e[2] = "irq"
        BY <2>0, <2>5, <4>2, RunsIs DEF Masked, MaskedFlow
      <4> QED BY <4>1, <4>2, FlowPairs
    <3>2. \A i \in DOMAIN stack[e] : stack[e][i].sie <=> e[2] = "task" /\ i = 1
      BY DEF Masked, MaskedFlow
    <3> QED BY <2>0, <2>1, <2>5, <3>1, <3>2 DEF MaskedFlow, Runs
  <2> QED BY <2>4, <2>5
<1>21. ASSUME NEW h \in Harts, Return(h) PROVE Masked'
  <2>0. irq'[h] = FALSE /\ sie'[h] /\ irq[h] /\ \A i \in Harts \ {h} : irq'[i] = irq[i] /\ sie'[i] = sie[i]
    BY <1>21 DEF Return, Types
  <2>1. stack' = stack
    BY <1>21 DEF Return
  <2>2. SUFFICES ASSUME NEW e \in Flows PROVE MaskedFlow(e)'
    BY DEF Masked
  <2>3. e[1] \in Harts
    BY FlowPairs
  <2>4. CASE e[1] # h
    <3>1. Runs(e)' <=> Runs(e)
      BY <2>0, <2>3, <2>4 DEF Runs
    <3> QED BY <2>0, <2>1, <2>3, <2>4, <3>1 DEF Masked, MaskedFlow
  <2>5. CASE e[1] = h
    <3>1. stack[e] = <<>>
      <4>1. CASE e[2] = "task"
        BY <2>0, <2>5, <4>1, RunsIs DEF Masked, MaskedFlow
      <4>2. CASE e[2] = "irq"
        <5>1. e = <<h, "irq">>
          BY <2>5, <4>2, FlowPairs
        <5> QED BY <1>21, <5>1 DEF Return
      <4> QED BY <4>1, <4>2, FlowPairs
    <3>2. \A i \in DOMAIN stack[e] : stack[e][i].sie <=> e[2] = "task" /\ i = 1
      BY DEF Masked, MaskedFlow
    <3> QED BY <2>0, <2>1, <2>5, <3>1, <3>2 DEF MaskedFlow, Runs
  <2> QED BY <2>4, <2>5
<1>22. CASE UNCHANGED vars
  BY <1>22, MaskedFrame DEF vars
<1> QED BY <1>1, <1>2, <1>3, <1>4, <1>5, <1>6, <1>7, <1>8, <1>9, <1>10, <1>11, <1>12, <1>13, <1>14, <1>15, <1>16, <1>17, <1>18, <1>19, <1>20, <1>21, <1>22 DEF Next, Step, Begin, DropInnermost

-----------------------------------------------------------------------------
(* The theorems *)

IInv == Types /\ Stacked /\ Guarded /\ RwCounts /\ Masked

\* The inductive invariant holds before any lock is used.
LEMMA IInvInit == Init => IInv
<1> SUFFICES ASSUME Init PROVE IInv
  OBVIOUS
<1>0. \A f \in Flows : /\ stack[f] = <<>> /\ pc[f] = "idle" /\ snap[f] = 0
                       /\ \A i \in DOMAIN stack[f] : FALSE
  BY SMT DEF Init
<1>1. Types
  <2>1. state \in [RwLocks -> Int] /\ waiting_writers \in [RwLocks -> Int]
    BY SMT DEF Init
  <2>2. pc \in [Flows -> Locations] /\ snap \in [Flows -> Int]
    BY SMT DEF Init, Locations
  <2>3. stack \in [Flows -> Seq(Guard)]
    <3>1. <<>> \in Seq(Guard)
      BY SMT
    <3> QED BY <3>1 DEF Init
  <2>4. sie \in [Harts -> BOOLEAN] /\ irq \in [Harts -> BOOLEAN] /\ lock \in [SpinLocks -> BOOLEAN]
    BY DEF Init
  <2>5. init = TRUE /\ status = "UNINITIALIZED"
    BY DEF Init
  <2> QED BY <2>1, <2>2, <2>3, <2>4, <2>5 DEF Types
<1>2. Stacked
  BY <1>0 DEF Stacked, StackedFlow, Acquiring
<1>3. \A f \in Flows : \A k, l : ~ Owns(f, k, l)
  BY <1>0 DEF Owns
<1>4. Guarded
  BY <1>0, <1>3 DEF Init, Guarded, OncePlaces
<1>5. RwCounts
  <2>1. ASSUME NEW l \in RwLocks PROVE Counted(l)
    <3>1. Readers(l) = {} /\ Writers(l) = {} /\ Waiters(l) = {}
      BY <1>0, <1>3 DEF Readers, Writers, Waiters, Waits
    <3>2. state[l] = 0 /\ waiting_writers[l] = 0
      BY DEF Init
    <3>3. state[l] = 2 * Cardinality(Readers(l)) /\ waiting_writers[l] = Cardinality(Waiters(l))
      BY <3>1, <3>2, FS_EmptySet, SMT
    <3> QED BY <3>1, <3>3 DEF Counted
  <2>2. \A f \in Flows : snap[f] \in Nat /\ pc[f] # "read.cas"
    BY <1>0, SMT
  <2> QED BY <2>1, <2>2 DEF RwCounts
<1>6. Masked
  <2> SUFFICES ASSUME NEW f \in Flows PROVE MaskedFlow(f)
    BY DEF Masked
  <2>1. sie[f[1]] /\ ~ irq[f[1]]
    BY FlowPairs DEF Init
  <2> QED BY <1>0, <2>1 DEF MaskedFlow
<1> QED BY <1>1, <1>2, <1>4, <1>5, <1>6 DEF IInv

\* Every behaviour of the locks keeps the inductive invariant.
LEMMA IInvAlways == Spec => []IInv
<1>1. IInv /\ [Next]_vars => IInv'
  BY TypesStep, StackedStep, GuardedStep, RwCountsStep, MaskedStep DEF IInv
<1> QED BY IInvInit, <1>1, PTL DEF Spec

\* For any harts, locks and slots: the atomics of the locks, their guards and
\* the places of the flows have their types; in particular no subtraction of
\* RwLock::write or of a read guard's drop takes a counter below zero.
THEOREM TypeCorrect == Spec => []TypeOK
<1>1. IInv => TypeOK
  <2> SUFFICES ASSUME IInv PROVE TypeOK
    OBVIOUS
  <2>1. ASSUME NEW l \in RwLocks PROVE state[l] \in Nat /\ waiting_writers[l] \in Nat
    <3>1. Counted(l)
      BY DEF IInv, RwCounts
    <3> QED BY <3>1, FiniteCounts, SMT DEF Counted
  <2>2. state \in [RwLocks -> Nat] /\ waiting_writers \in [RwLocks -> Nat]
    BY <2>1 DEF IInv, Types
  <2>3. snap \in [Flows -> Nat]
    BY DEF IInv, Types, RwCounts
  <2> QED BY <2>2, <2>3 DEF IInv, Types, TypeOK
<1> QED BY <1>1, IInvAlways, PTL

\* For any harts, locks and slots and any interleaving of their atomic
\* operations and interrupts: RwLock, SpinLock, PerCpu and LazyLock give no
\* two flows access of which one may write.
THEOREM Exclusive == Spec => []MutualExclusion
<1>1. IInv => MutualExclusion
  <2> SUFFICES ASSUME IInv PROVE MutualExclusion
    OBVIOUS
  <2>1. \A l \in RwLocks : \A f \in Writers(l) : Readers(l) = {} /\ Writers(l) = {f}
    BY DEF IInv, RwCounts, Counted
  <2>2. \A l \in SpinLocks, f, g \in Flows : Owns(f, "spin", l) /\ Owns(g, "spin", l) => f = g
    BY DEF IInv, Guarded
  <2>3. ASSUME NEW p \in PerCpus, NEW h \in Harts
        PROVE  ~ (Owns(<<h, "task">>, "cpu", p) /\ Owns(<<h, "irq">>, "cpu", p))
    <3>1. <<h, "task">> \in Flows /\ <<h, "irq">> \in Flows
      BY FlowPairs
    <3>2. Runs(<<h, "task">>) => ~ Runs(<<h, "irq">>)
      BY <3>1, OneRuns DEF IInv
    <3>3. stack[<<h, "task">>] = <<>> \/ stack[<<h, "irq">>] = <<>>
      BY <3>1, <3>2 DEF IInv, Masked, MaskedFlow
    <3>4. \A f \in Flows : stack[f] = <<>> => ~ Owns(f, "cpu", p)
      <4>1. \A i \in DOMAIN <<>> : FALSE
        BY SMT
      <4> QED BY <4>1 DEF Owns
    <3> QED BY <3>1, <3>3, <3>4
  <2>4. \A f, g \in Flows :
          /\ pc[f] \in {"once.init", "once.store"} /\ pc[g] \in {"once.init", "once.store"} => f = g
          /\ pc[f] = "once.init" => init
    BY DEF IInv, Guarded, OncePlaces
  <2> QED BY <2>1, <2>2, <2>3, <2>4 DEF MutualExclusion
<1> QED BY <1>1, IInvAlways, PTL

\* For any harts, locks and slots: an interrupt handler finds no guard of the
\* code it interrupted.
THEOREM HandlerIsFree == Spec => []HandlerNeverWaitsForItsHart
<1>1. IInv => HandlerNeverWaitsForItsHart
  <2> SUFFICES ASSUME IInv, NEW h \in Harts, irq[h] PROVE stack[<<h, "task">>] = <<>>
    BY DEF HandlerNeverWaitsForItsHart
  <2>1. <<h, "task">> \in Flows
    BY FlowPairs
  <2>2. ~ Runs(<<h, "task">>)
    BY <2>1, RunsIs DEF IInv
  <2> QED BY <2>1, <2>2 DEF IInv, Masked, MaskedFlow
<1> QED BY <1>1, IInvAlways, PTL

\* For any harts, locks and slots, and every order and depth in which a task
\* nests their guards: when it has dropped them the interrupt flag is set
\* again.
THEOREM FlagRestored == Spec => []InterruptsRestored
<1>1. IInv => InterruptsRestored
  <2> SUFFICES ASSUME IInv, NEW h \in Harts, ~ irq[h], stack[<<h, "task">>] = <<>>
               PROVE  sie[h]
    BY DEF InterruptsRestored
  <2>1. <<h, "task">> \in Flows
    BY FlowPairs
  <2>2. Runs(<<h, "task">>)
    BY <2>1, RunsIs DEF IInv
  <2> QED BY <2>1, <2>2 DEF IInv, Masked, MaskedFlow
<1> QED BY <1>1, IInvAlways, PTL

=============================================================================
