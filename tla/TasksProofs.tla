---------------------------- MODULE TasksProofs ----------------------------
(***************************************************************************)
(* Proofs about the task life cycle, for every number of TIDs, of boot     *)
(* programs, of page-table frames and every set of exit codes: first the   *)
(* inductive invariant and its parts about types, the hart and the TIDs in *)
(* the table, then the process tree, which boot, clone and exit change,    *)
(* then address spaces and the theorems.                                   *)
(***************************************************************************)
EXTENDS Tasks, WellFoundedInduction, TLAPS

\* The prover of the steps that name none.
USE ZenonT(30)

\* A non-empty set of natural numbers has a minimum, and Min is it: what
\* alloc_tid and select_next choose is in the set they choose from.
LEMMA MinIsMember ==
  ASSUME NEW S \in SUBSET Nat, S # {}
  PROVE  Min(S) \in S /\ \A y \in S : Min(S) =< y
<1>1. IsWellFoundedOn(OpToRel(<, Nat), Nat)
  BY NatLessThanWellFounded, Zenon
<1>2. PICK x \in S : \A y \in S : ~ (<<y, x>> \in OpToRel(<, Nat))
  BY <1>1, WFMin, Zenon
<1>3. \A y \in S : x =< y
  <2> SUFFICES ASSUME NEW y \in S PROVE x =< y
    OBVIOUS
  <2>1. ~ (<<y, x>> \in {ss \in Nat \X Nat : ss[1] < ss[2]})
    BY <1>2, Zenon DEF OpToRel
  <2> QED BY <2>1, SMT
<1> QED BY <1>3 DEF Min

\* The TID that a creation takes is a free one.
LEMMA AllocTidIsFree ==
  ASSUME TypeOK, free # {}
  PROVE  alloc_tid \in free /\ alloc_tid \in Tids
<1>1. free \in SUBSET Nat /\ free \subseteq Tids
  BY SMT DEF TypeOK, Tids
<1> QED BY <1>1, MinIsMember DEF alloc_tid

\* The task that select_next chooses is runnable.
LEMMA NextTidIsRunnable ==
  ASSUME Runnable # {}
  PROVE  NextTid \in Runnable /\ NextTid \in Tids
<1> DEFINE later == {t \in Runnable : t > cursor}
<1>1. Runnable \in SUBSET Nat /\ later \in SUBSET Nat
  BY SMT DEF Runnable, Tids
<1>2. later # {} => Min(later) \in later
  BY <1>1, MinIsMember
<1>3. Min(Runnable) \in Runnable
  BY <1>1, MinIsMember
<1> QED BY <1>2, <1>3 DEF NextTid, Runnable

-----------------------------------------------------------------------------
(* The inductive invariant: what the properties rest on besides themselves. *)

\* The task on the hart is runnable, boot runs in the kernel's space and the
\* old space is out of the manager exactly while execve loads the new one.
HartInv ==
  /\ kpc \in {"restore", "user", "exec"} =>
       current \in Tids /\ status[current] = "Running"
  /\ kpc = "boot" => satp = KernelRoot /\ current = NoTid
  /\ (held # NoRoot) <=> (kpc = "exec")

\* TIDs in the table are not free, init's is handed out before all others
\* and never exits, a creator stays in the table, and what is not in the
\* table or a zombie has no children.
TableInv ==
  /\ free \cap Present = {}
  /\ 1 \in free => Present = {}
  /\ status[1] # "Zombie"
  /\ \A t \in Tids : parent[t] # NoTid => status[parent[t]] # "Absent"
  /\ \A t \in Tids : status[t] \in {"Absent", "Zombie"} => children[t] = <<>>

\* Interrupts reach the kernel only in the switch that main calls, when the
\* hart is still in the kernel's space; a task in user mode got there by its
\* user context; execve works in the kernel's space.
TickInv ==
  /\ sie => satp = KernelRoot /\ kpc \notin {"boot", "user", "exec"}
  /\ \A t \in Tids : ctx[t].mode = "S" => ctx[t].satp = KernelRoot
  /\ kpc \in {"user", "exec"} => ctx[current].mode = "U"
  /\ kpc = "exec" => satp = KernelRoot

IInv ==
  /\ TypeOK
  /\ HartInv
  /\ TickInv
  /\ TableInv
  /\ ChildrenAreMine
  /\ ChildrenOnce
  /\ ChildrenListed
  /\ SatpLive
  /\ ContextOwnsSpace
  /\ ResumesWhereItLeft

-----------------------------------------------------------------------------
(* Type correctness *)

\* Tasks::add writes well-typed entries.
LEMMA AddType ==
  ASSUME TypeOK, NEW t \in Tids, NEW p \in Tids \cup {NoTid},
         NEW c \in Contexts, Add(t, p, c)
  PROVE  /\ status' \in [Tids -> Statuses]
         /\ parent' \in [Tids -> Tids \cup {NoTid}]
         /\ children' \in [Tids -> Seq(Tids)]
         /\ exit_code' \in [Tids -> ExitCodes \cup {0}]
         /\ ctx' \in [Tids -> Contexts]
         /\ left' \in [Tids -> Points]
<1> DEFINE q == IF p = NoTid THEN 1 ELSE p
<1>1. q \in Tids
  BY TidMaxAssumption, SMT DEF Tids
<1>2. children' \in [Tids -> Seq(Tids)]
  <2>1. Append(children[q], t) \in Seq(Tids) /\ <<>> \in Seq(Tids)
    BY <1>1, SMT DEF TypeOK
  <2> QED BY <1>1, <2>1 DEF Add, AddedChildren, TypeOK
<1> QED
  BY <1>2 DEF Add, TypeOK, Statuses, Contexts

\* find_zombie_child answers with an entry of the list that is a zombie.
LEMMA ZombieFound ==
  ASSUME NEW p, children[p] \in Seq(Tids), NEW target \in Tids \cup {NoTid}
  PROVE  LET found == find_zombie_child(p, target)
         IN  \/ found = NoTid
             \/ /\ found \in Tids
                /\ \E i \in DOMAIN children[p] : found = children[p][i]
                /\ status[found] = "Zombie"
                /\ target # NoTid => found = target
<1> DEFINE list == children[p]
           hits == {i \in DOMAIN list :
                 /\ status[list[i]] = "Zombie"
                 /\ target # NoTid => list[i] = target
                 /\ target = NoTid =>
                      \A j \in 1 .. (i - 1) : status[list[j]] # "Absent"}
<1>1. hits \in SUBSET Nat
  BY SMT
<1>2. hits # {} => Min(hits) \in hits
  BY <1>1, MinIsMember
<1>3. find_zombie_child(p, target) = IF hits = {} THEN NoTid ELSE list[Min(hits)]
  BY DEF find_zombie_child
<1>4. CASE hits = {}
  BY <1>3, <1>4
<1>5. CASE hits # {}
  <2> DEFINE m == Min(hits)
  <2>1. m \in DOMAIN list /\ status[list[m]] = "Zombie"
        /\ (target # NoTid => list[m] = target)
    BY <1>2, <1>5
  <2>2. find_zombie_child(p, target) = list[m]
    BY <1>3, <1>5
  <2> HIDE DEF m
  <2>3. list[m] \in Tids
    BY <2>1, SMT
  <2> QED BY <2>1, <2>2, <2>3
<1> QED BY <1>4, <1>5

\* No handler writes an ill-typed value; restore_context needs HartInv to find
\* a task to restore.
LEMMA TypeStep == TypeOK /\ HartInv /\ [Next]_vars => TypeOK'
<1> SUFFICES ASSUME TypeOK, HartInv, [Next]_vars PROVE TypeOK'
  OBVIOUS
<1> USE DEF NoTid
<1>0. 1 \in Tids
  BY TidMaxAssumption, SMT DEF Tids
<1>a. ASSUME NEW r \in Roots PROVE EntryContext(r) \in Contexts
  BY DEF EntryContext, Contexts, Points
<1>b. \A r \in FreeRoots : r \in Roots
  BY DEF FreeRoots
<1>c. After(sepc) \in Points
  BY SMT DEF TypeOK, Points, After
<1>d. NoWait \in [tid : Tids \cup {NoTid}, status : Int]
  BY SMT DEF NoWait
<1>1. CASE BootExec
  <2>1. alloc_tid \in Tids
    BY <1>1, AllocTidIsFree DEF BootExec
  <2>2. PICK r \in FreeRoots :
          /\ space' = [space EXCEPT ![alloc_tid] = r]
          /\ Add(alloc_tid, NoTid, EntryContext(r))
    BY <1>1 DEF BootExec
  <2>3. r \in Roots /\ EntryContext(r) \in Contexts
    BY <1>a, <1>b
  <2>4. bootLeft' \in 0 .. BootPrograms
    BY <1>1, BootAssumption, SMT DEF BootExec, TypeOK
  <2> QED BY <1>1, <2>1, <2>2, <2>3, <2>4, AddType DEF BootExec, hartVars, TypeOK
<1>2. CASE BootLoadFails
  <2>1. alloc_tid \in Tids
    BY <1>2, AllocTidIsFree DEF BootLoadFails
  <2>2. bootLeft' \in 0 .. BootPrograms
    BY <1>2, BootAssumption, SMT DEF BootLoadFails, TypeOK
  <2> QED BY <1>2, <1>b, <2>1, <2>2 DEF BootLoadFails, tableVars, hartVars, TypeOK
<1>3. CASE BootSkips
  <2>1. bootLeft' \in 0 .. BootPrograms
    BY <1>3, BootAssumption, SMT DEF BootSkips, TypeOK
  <2> QED BY <1>3, <2>1 DEF BootSkips, tableVars, hartVars, TypeOK
<1>4. CASE BootPanics
  BY <1>4 DEF BootPanics, tableVars, TypeOK, KernelPoints
<1>5. CASE BootDone
  BY <1>5 DEF BootDone, tableVars, TypeOK, KernelPoints
<1>6. CASE SwitchSpins \/ StaysHalted \/ UNCHANGED vars
  BY <1>6 DEF SwitchSpins, StaysHalted, vars, TypeOK
<1>7. CASE SwitchPanics
  BY <1>7 DEF SwitchPanics, tableVars, TypeOK, KernelPoints
<1>8. CASE select_next
  BY <1>8, <1>d, NextTidIsRunnable DEF select_next, tableVars, TypeOK, KernelPoints
<1>9. CASE restore_context
  <2>1. current \in Tids
    BY <1>9 DEF restore_context, HartInv
  <2>2. ctx[current].satp \in Roots \cup {KernelRoot} /\ ctx[current].pc \in Points
    BY <2>1 DEF TypeOK, Contexts
  <2> QED BY <1>9, <2>1, <2>2 DEF restore_context, tableVars, TypeOK, KernelPoints
<1>u. ASSUME kpc = "user"
      PROVE  current \in Tids
  BY <1>u DEF HartInv
<1>10. CASE TimerInterrupt
  <2>1. SavedContext \in Contexts
    BY DEF SavedContext, Contexts, TypeOK
  <2> QED BY <1>10, <1>u, <1>d, <2>1 DEF TimerInterrupt, TypeOK, KernelPoints
<1>11. CASE KernelTimerInterrupt
  <2>1. [mode |-> "S", satp |-> satp, pc |-> 0] \in Contexts
    BY DEF Contexts, TypeOK, Points
  <2> QED BY <1>11, <2>1 DEF KernelTimerInterrupt, TypeOK, KernelPoints
<1>12. CASE OtherSyscall
  BY <1>12, <1>c, <1>d DEF OtherSyscall, ReturnToUser, tableVars, TypeOK
<1>13. ASSUME NEW code \in ExitCodes, exit(code) PROVE TypeOK'
  <2>1. children[current] \in Seq(Tids) /\ children[1] \in Seq(Tids)
    BY <1>13, <1>u, <1>0 DEF exit, TypeOK
  <2>2. children[1] \o children[current] \in Seq(Tids) /\ <<>> \in Seq(Tids)
    BY <2>1, SMT
  <2>3. Orphans \in [Tids -> Seq(Tids)]
    BY <2>1, <2>2 DEF Orphans, TypeOK
  <2>4. CASE current = 1
    BY <1>13, <1>d, <2>4 DEF exit, TypeOK, KernelPoints
  <2>5. CASE current # 1
    <3>1. status' \in [Tids -> Statuses]
      BY <1>13, <2>5 DEF exit, TypeOK, Statuses
    <3>2. exit_code' \in [Tids -> ExitCodes \cup {0}]
      BY <1>13, <2>5 DEF exit, TypeOK
    <3>3. left' \in [Tids -> Points]
      BY <1>13, <2>5 DEF exit, Yield, TypeOK
    <3>4. kpc' \in KernelPoints
      BY <1>13, <2>5 DEF exit, Yield, KernelPoints
    <3> QED BY <1>13, <1>d, <2>3, <2>5, <3>1, <3>2, <3>3, <3>4 DEF exit, Yield, TypeOK
  <2> QED BY <2>4, <2>5
<1>14. ASSUME NEW target \in Tids \cup {NoTid}, wait4_nohang(target) PROVE TypeOK'
  <2> DEFINE found == find_zombie_child(current, target)
  <2>1. children[current] \in Seq(Tids)
    BY <1>14, <1>u DEF wait4_nohang, TypeOK
  <2>2. found \in Tids \cup {NoTid}
    BY <2>1, ZombieFound
  <2>3. waited' \in [tid : Tids \cup {NoTid}, status : Int]
    <3>0. \A c \in Int : WaitStatus(c) \in Int
      BY SMT DEF WaitStatus
    <3>1. found \in Tids => WaitStatus(exit_code[found]) \in Int
      <4>1. \A t \in Tids : exit_code[t] \in Int
        <5>1. \A t \in Tids : exit_code[t] \in ExitCodes \cup {0}
          BY DEF TypeOK
        <5>2. ExitCodes \cup {0} \subseteq Int
          BY CodesAssumption, SMT
        <5> QED BY <5>1, <5>2
      <4>2. \A t \in Tids : WaitStatus(exit_code[t]) \in Int
        BY <4>1, <3>0
      <4> QED BY <4>2
    <3>2. (IF found = NoTid THEN 0 ELSE WaitStatus(exit_code[found])) \in Int
      BY <2>2, <3>1, SMT
    <3>3. waited' = [tid |-> found,
                     status |-> IF found = NoTid THEN 0
                                ELSE WaitStatus(exit_code[found])]
      BY <1>14 DEF wait4_nohang
    <3> HIDE DEF found
    <3> QED BY <2>2, <3>2, <3>3
  <2> QED BY <1>14, <1>c, <2>3 DEF wait4_nohang, ReturnToUser, tableVars, TypeOK
<1>15. CASE wait4_blocking
  BY <1>15, <1>u, <1>d DEF wait4_blocking, Yield, TypeOK, KernelPoints, Statuses
<1>16. CASE clone_task
  <2>1. alloc_tid \in Tids /\ current \in Tids
    BY <1>16, <1>u, AllocTidIsFree DEF clone_task
  <2>2. PICK r \in FreeRoots :
          /\ space' = [space EXCEPT ![alloc_tid] = r]
          /\ Add(alloc_tid, current, clone_child(r))
    BY <1>16 DEF clone_task
  <2>3. r \in Roots /\ clone_child(r) \in Contexts
    BY <1>b, <1>c, <2>1 DEF clone_child, Contexts, TypeOK
  <2> QED
    BY <1>16, <1>c, <1>d, <2>1, <2>2, <2>3, AddType DEF clone_task, ReturnToUser, TypeOK
<1>17. CASE clone_task_fails
  <2>1. alloc_tid \in Tids
    BY <1>17, AllocTidIsFree DEF clone_task_fails
  <2> QED
    BY <1>17, <1>b, <1>c, <1>d, <2>1
    DEF clone_task_fails, TidsAfterFailedClone, ReturnToUser, tableVars, TypeOK
<1>18. CASE execve_start
  BY <1>18, <1>u, <1>d DEF execve_start, ExecveRoot, tableVars, TypeOK, KernelPoints
<1>19. CASE execve_fails
  <2>1. held \in Roots
    BY <1>19 DEF execve_fails, HartInv, TypeOK
  <2> QED BY <1>19, <1>c, <2>1 DEF execve_fails, tableVars, TypeOK, KernelPoints
<1>20. CASE execve_loads
  <2>1. PICK r \in FreeRoots :
          /\ space' = [space EXCEPT ![current] = r]
          /\ ctx' = [ctx EXCEPT ![current] = EntryContext(r)]
    BY <1>20 DEF execve_loads
  <2>2. space' \in [Tids -> Roots \cup {NoRoot}] /\ ctx' \in [Tids -> Contexts]
    BY <1>a, <1>b, <2>1 DEF TypeOK
  <2>3. status' \in [Tids -> Statuses] /\ left' \in [Tids -> Points]
    BY <1>20 DEF execve_loads, TypeOK, Statuses, Points
  <2> QED BY <1>20, <2>2, <2>3 DEF execve_loads, TypeOK, KernelPoints
<1>21. CASE Stops
  BY <1>21 DEF Stops, tableVars, TypeOK, KernelPoints
<1> QED
  BY <1>1, <1>2, <1>3, <1>4, <1>5, <1>6, <1>7, <1>8, <1>9, <1>10, <1>11, <1>12,
     <1>13, <1>14, <1>15, <1>16, <1>17, <1>18, <1>19, <1>20, <1>21
  DEF Next, Boot, Scheduler, Syscall, ExecveEnds

-----------------------------------------------------------------------------
(* The hart *)

\* Only a runnable task is put on the hart, and it stays runnable while its
\* system call runs; execve holds the old space only while it loads.
LEMMA HartStep == IInv /\ [Next]_vars => HartInv'
<1> SUFFICES ASSUME IInv, [Next]_vars PROVE HartInv'
  OBVIOUS
<1> USE DEF IInv, HartInv
<1>1. CASE BootExec
  BY <1>1 DEF BootExec, hartVars
<1>2. CASE BootLoadFails \/ BootSkips
  BY <1>2 DEF BootLoadFails, BootSkips, hartVars
<1>3. CASE BootPanics \/ BootDone \/ SwitchPanics \/ Stops
  BY <1>3 DEF BootPanics, BootDone, SwitchPanics, Stops, tableVars
<1>4. CASE SwitchSpins \/ StaysHalted \/ UNCHANGED vars
  BY <1>4 DEF SwitchSpins, StaysHalted, vars
<1>5. CASE select_next
  BY <1>5, NextTidIsRunnable DEF select_next, tableVars, Runnable
<1>6. CASE restore_context
  BY <1>6 DEF restore_context, tableVars
<1>7. CASE TimerInterrupt \/ KernelTimerInterrupt
  BY <1>7 DEF TimerInterrupt, KernelTimerInterrupt
<1>8. CASE OtherSyscall
  BY <1>8 DEF OtherSyscall, ReturnToUser, tableVars
<1>9. ASSUME NEW code \in ExitCodes, exit(code) PROVE HartInv'
  BY <1>9 DEF exit, Yield
<1>10. ASSUME NEW target \in Tids \cup {NoTid}, wait4_nohang(target) PROVE HartInv'
  BY <1>10 DEF wait4_nohang, ReturnToUser, tableVars
<1>11. CASE wait4_blocking
  BY <1>11 DEF wait4_blocking, Yield
<1>12. CASE clone_task
  <2>1. status' = [status EXCEPT ![alloc_tid] = "Running"]
    BY <1>12 DEF clone_task, Add
  <2>2. current \in Tids /\ status[current] = "Running"
    BY <1>12 DEF clone_task
  <2>3. status'[current] = "Running"
    BY <2>1, <2>2 DEF TypeOK
  <2> QED BY <1>12, <2>2, <2>3 DEF clone_task, ReturnToUser
<1>13. CASE clone_task_fails
  BY <1>13 DEF clone_task_fails, ReturnToUser, tableVars
<1>14. CASE execve_start
  <2>1. space[current] \in Roots
    BY <1>14 DEF execve_start, ContextOwnsSpace, RootOf, Present
  <2> QED BY <1>14, <2>1, RootsAssumption DEF execve_start, tableVars
<1>15. CASE execve_fails
  BY <1>15 DEF execve_fails, tableVars
<1>16. CASE execve_loads
  BY <1>16 DEF execve_loads
<1> QED
  BY <1>1, <1>2, <1>3, <1>4, <1>5, <1>6, <1>7, <1>8, <1>9, <1>10, <1>11, <1>12,
     <1>13, <1>14, <1>15, <1>16
  DEF Next, Boot, Scheduler, Syscall, ExecveEnds

-----------------------------------------------------------------------------
(* The task table *)

\* What creating a task under a free TID does to the table.
LEMMA AddKeepsTable ==
  ASSUME TypeOK, TableInv, NEW t \in free, NEW p \in Runnable \cup {NoTid},
         NEW c, Add(t, p, c), free' = free \ {t},
         p = NoTid \/ p # t,
         1 \in free => t = 1
  PROVE  TableInv'
<1> USE DEF NoTid
<1>0. t \in Tids /\ 1 \in Tids
  BY TidMaxAssumption, SMT DEF TypeOK, Tids
<1> DEFINE q == IF p = NoTid THEN 1 ELSE p
<1>1. q \in Tids
  BY <1>0 DEF Runnable
<1>2. status' = [status EXCEPT ![t] = "Running"] /\ status[t] = "Absent"
  BY <1>0 DEF Add, TableInv, Present
<1>3. Present' = Present \cup {t}
  BY <1>0, <1>2, SMT DEF Present, TypeOK
<1>4. free' \cap Present' = {}
  BY <1>3 DEF TableInv
<1>5. 1 \in free' => Present' = {}
  OBVIOUS
<1>6. status'[1] # "Zombie"
  BY <1>0, <1>2 DEF TableInv, TypeOK
<1>7. \A u \in Tids : parent'[u] # NoTid => status'[parent'[u]] # "Absent"
  <2> SUFFICES ASSUME NEW u \in Tids, parent'[u] # NoTid
               PROVE  status'[parent'[u]] # "Absent"
    OBVIOUS
  <2>1. parent'[u] = IF u = t THEN p ELSE parent[u]
    BY DEF Add, TypeOK
  <2>2. parent'[u] \in Tids /\ status[parent'[u]] # "Absent"
    BY <2>1 DEF TableInv, TypeOK, Runnable
  <2> QED BY <2>2, <1>2 DEF TypeOK
<1>8. \A u \in Tids : status'[u] \in {"Absent", "Zombie"} => children'[u] = <<>>
  <2> SUFFICES ASSUME NEW u \in Tids, status'[u] \in {"Absent", "Zombie"}
               PROVE  children'[u] = <<>>
    OBVIOUS
  <2>1. u # t /\ status'[u] = status[u]
    BY <1>2, <1>0 DEF TypeOK
  <2>2. children[u] = <<>>
    BY <2>1 DEF TableInv
  <2>3. CASE u # q
    BY <2>1, <2>2, <2>3, <1>1, <1>0 DEF Add, AddedChildren, TypeOK
  <2>4. CASE u = q
    <3>1. status[q] = "Absent"
      BY <2>1, <2>4 DEF TableInv, Runnable
    <3> QED BY <3>1, <2>1, <2>2, <2>4, <1>1, <1>0 DEF Add, AddedChildren, TypeOK
  <2> QED BY <2>3, <2>4
<1> QED BY <1>4, <1>5, <1>6, <1>7, <1>8 DEF TableInv

\* What exit, clone and boot do to the table keeps the facts about creators.
LEMMA TableStep == IInv /\ [Next]_vars => TableInv'
<1> SUFFICES ASSUME IInv, [Next]_vars PROVE TableInv'
  OBVIOUS
<1> USE DEF IInv, NoTid
<1>0. 1 \in Tids
  BY TidMaxAssumption, SMT DEF Tids
<1>a. ASSUME UNCHANGED <<free, status, parent, children>> PROVE TableInv'
  BY <1>a DEF TableInv, Present
<1>b. ASSUME free # {}
      PROVE  /\ alloc_tid \in free
             /\ 1 \in free => alloc_tid = 1
  <2>1. free \in SUBSET Nat /\ free \subseteq Tids
    BY SMT DEF TypeOK, Tids
  <2>2. alloc_tid \in free /\ \A y \in free : alloc_tid =< y
    BY <1>b, <2>1, MinIsMember DEF alloc_tid
  <2> QED BY <2>1, <2>2, SMT DEF Tids
<1>1. CASE BootExec
  <2>1. PICK r \in FreeRoots : Add(alloc_tid, NoTid, EntryContext(r))
    BY <1>1 DEF BootExec
  <2> QED BY <1>1, <1>b, <2>1, AddKeepsTable DEF BootExec
<1>2. CASE clone_task
  <2>1. PICK r \in FreeRoots : Add(alloc_tid, current, clone_child(r))
    BY <1>2 DEF clone_task
  <2>2. current \in Runnable /\ current # alloc_tid
    BY <1>2, <1>b DEF clone_task, HartInv, Runnable, Present, TableInv
  <2> QED BY <1>2, <1>b, <2>1, <2>2, AddKeepsTable DEF clone_task
<1>3. CASE BootLoadFails
  BY <1>3, <1>b DEF BootLoadFails, tableVars, TableInv, Present
<1>4. CASE clone_task_fails
  <2>1. free' = free
    BY <1>4, <1>b DEF clone_task_fails, TidsAfterFailedClone
  <2> QED BY <1>4, <1>a, <2>1 DEF clone_task_fails, tableVars
<1>5. ASSUME NEW code \in ExitCodes, exit(code) PROVE TableInv'
  <2>1. CASE current = 1
    BY <1>5, <2>1, <1>a DEF exit
  <2>2. CASE current # 1
    <3>1. /\ current \in Tids /\ status[current] = "Running"
          /\ status' = [status EXCEPT ![current] = "Zombie"]
          /\ children' = Orphans
          /\ UNCHANGED <<free, parent>>
      BY <1>5, <2>2 DEF exit, HartInv
    <3>2. Present' = Present
      BY <3>1 DEF Present, TypeOK
    <3>3. status'[1] # "Zombie"
      BY <3>1, <2>2, <1>0 DEF TableInv, TypeOK
    <3>4. \A t \in Tids : parent'[t] # NoTid => status'[parent'[t]] # "Absent"
      BY <3>1 DEF TableInv, TypeOK
    <3>5. \A t \in Tids : status'[t] \in {"Absent", "Zombie"} => children'[t] = <<>>
      BY <3>1, <2>2, <1>0 DEF TableInv, TypeOK, Orphans
    <3> QED BY <3>1, <3>2, <3>3, <3>4, <3>5 DEF TableInv
  <2> QED BY <2>1, <2>2
<1>6. CASE wait4_blocking \/ execve_loads
  <2>1. PICK new \in {"Waiting", "Running"} :
          /\ current \in Tids /\ status[current] = "Running"
          /\ status' = [status EXCEPT ![current] = new]
          /\ UNCHANGED <<free, parent, children>>
    BY <1>6 DEF wait4_blocking, execve_loads, HartInv
  <2>2. \A t \in Tids : /\ status'[t] = "Absent" <=> status[t] = "Absent"
                        /\ status'[t] = "Zombie" <=> status[t] = "Zombie"
    BY <2>1 DEF TypeOK
  <2>3. Present' = Present
    BY <2>2 DEF Present
  <2>4. \A t \in Tids : parent[t] \in Tids \cup {NoTid}
    BY DEF TypeOK
  <2> QED BY <2>1, <2>2, <2>3, <2>4, <1>0 DEF TableInv
<1>7. CASE BootSkips \/ BootPanics \/ BootDone \/ SwitchPanics \/ select_next
           \/ restore_context \/ OtherSyscall \/ execve_start \/ execve_fails \/ Stops
  BY <1>7, <1>a DEF BootSkips, BootPanics, BootDone, SwitchPanics, select_next,
       restore_context, OtherSyscall, execve_start, execve_fails, Stops, tableVars
<1>8. CASE TimerInterrupt \/ KernelTimerInterrupt
  BY <1>8, <1>a DEF TimerInterrupt, KernelTimerInterrupt
<1>9. CASE SwitchSpins \/ StaysHalted \/ UNCHANGED vars
  BY <1>9, <1>a DEF SwitchSpins, StaysHalted, vars
<1>10. ASSUME NEW target \in Tids \cup {NoTid}, wait4_nohang(target) PROVE TableInv'
  BY <1>10, <1>a DEF wait4_nohang, tableVars
<1> QED
  BY <1>1, <1>2, <1>3, <1>4, <1>5, <1>6, <1>7, <1>8, <1>9, <1>10
  DEF Next, Boot, Scheduler, Syscall, ExecveEnds

-----------------------------------------------------------------------------
(* The process tree *)

TreeInv == ChildrenAreMine /\ ChildrenOnce /\ ChildrenListed

\* ParentOf in the state after the step.
NewParentOf(t) ==
  IF parent'[t] = NoTid THEN 1
  ELSE IF status'[parent'[t]] = "Zombie" THEN 1 ELSE parent'[t]

\* Creating a task appends it to one list and leaves every other task where
\* it is in the tree.
LEMMA AddKeepsTree ==
  ASSUME TypeOK, TableInv, TreeInv,
         NEW t \in free, NEW p \in Runnable \cup {NoTid}, NEW c, Add(t, p, c),
         p = NoTid \/ p # t,
         1 \in free => t = 1
  PROVE  TreeInv'
<1> USE DEF NoTid
<1> DEFINE q == IF p = NoTid THEN 1 ELSE p
<1>0. t \in Tids /\ 1 \in Tids /\ q \in Tids
  BY TidMaxAssumption, SMT DEF TypeOK, Tids, Runnable
<1>1. /\ status' = [status EXCEPT ![t] = "Running"]
      /\ parent' = [parent EXCEPT ![t] = p]
      /\ status[t] = "Absent"
  BY <1>0 DEF Add, TableInv, Present
<1>2. p # NoTid => t # 1
  <2>1. p # NoTid => p \in Present
    BY DEF Runnable, Present
  <2> QED BY <2>1 DEF TableInv
<1>3. \A u \in Tids \ {t} : NewParentOf(u) = ParentOf(u)
  <2> SUFFICES ASSUME NEW u \in Tids \ {t} PROVE NewParentOf(u) = ParentOf(u)
    OBVIOUS
  <2>1. parent'[u] = parent[u] /\ parent[u] # t
    BY <1>0, <1>1, SMT DEF TypeOK, TableInv, Tids
  <2>2. parent[u] # NoTid => status'[parent[u]] = status[parent[u]]
    BY <1>0, <1>1, <2>1 DEF TypeOK
  <2> QED BY <2>1, <2>2 DEF ParentOf, NewParentOf
<1>4. NewParentOf(t) = q
  <2>1. parent'[t] = p
    BY <1>0, <1>1 DEF TypeOK
  <2>2. p # NoTid => status'[p] = "Running"
    BY <1>0, <1>1 DEF TypeOK, Runnable
  <2> QED BY <2>1, <2>2 DEF ParentOf, NewParentOf
<1>5. \A u \in Tids : /\ u # t /\ u # q => children'[u] = children[u]
                      /\ u = t => children'[u] = <<>>
                      /\ u # t /\ u = q /\ status[q] = "Absent" => children'[u] = children[u]
                      /\ u # t /\ u = q /\ status[q] # "Absent" => children'[u] = Append(children[u], t)
  BY <1>0 DEF Add, AddedChildren, TypeOK
<1>6. \A u \in Tids : children[u] \in Seq(Tids)
  BY DEF TypeOK
<1>7. \A u \in Tids : \A i \in DOMAIN children[u] : children[u][i] # t
  BY <1>1 DEF TreeInv, ChildrenAreMine
<1>8. ChildrenAreMine'
  <2> SUFFICES ASSUME NEW u \in Tids, NEW i \in DOMAIN children'[u]
               PROVE  /\ children'[u][i] # 1
                      /\ status'[children'[u][i]] # "Absent"
                      /\ NewParentOf(children'[u][i]) = u
    BY DEF ChildrenAreMine, ParentOf, NewParentOf
  <2>0. u # t
    BY <1>5, SMT
  <2>1. CASE i \in DOMAIN children[u] /\ children'[u][i] = children[u][i]
    <3>1. children[u][i] \in Tids \ {t}
      BY <2>1, <1>6, <1>7, SMT
    <3>2. /\ children[u][i] # 1
          /\ status[children[u][i]] # "Absent"
          /\ ParentOf(children[u][i]) = u
      BY <2>1 DEF TreeInv, ChildrenAreMine
    <3>3. status'[children[u][i]] # "Absent"
      BY <3>1, <3>2, <1>1 DEF TypeOK
    <3> QED BY <2>1, <3>1, <3>2, <3>3, <1>3
  <2>2. CASE u = q /\ status[q] # "Absent" /\ children'[u][i] = t
    <3>1. t # 1
      BY <2>2, <1>1, <1>2
    <3>2. status'[t] = "Running"
      BY <1>0, <1>1 DEF TypeOK
    <3> QED BY <2>2, <3>1, <3>2, <1>4
  <2>3. \/ i \in DOMAIN children[u] /\ children'[u][i] = children[u][i]
        \/ u = q /\ status[q] # "Absent" /\ children'[u][i] = t
    <3>1. CASE children'[u] = children[u]
      BY <3>1
    <3>2. CASE u = q /\ status[q] # "Absent" /\ children'[u] = Append(children[u], t)
      BY <3>2, <1>6, SMT
    <3> QED BY <2>0, <3>1, <3>2, <1>5
  <2> QED BY <2>1, <2>2, <2>3
<1>9. ChildrenOnce'
  <2> SUFFICES ASSUME NEW u \in Tids,
                      NEW i \in DOMAIN children'[u], NEW j \in DOMAIN children'[u],
                      children'[u][i] = children'[u][j]
               PROVE  i = j
    BY DEF ChildrenOnce
  <2>0. \A k, l \in DOMAIN children[u] : children[u][k] = children[u][l] => k = l
    BY DEF TreeInv, ChildrenOnce
  <2>1. CASE children'[u] = children[u]
    BY <2>0, <2>1
  <2>2. CASE children'[u] = Append(children[u], t)
    BY <2>0, <2>2, <1>6, <1>7, SMT
  <2>3. CASE children'[u] = <<>>
    BY <2>3, SMT
  <2> QED BY <2>1, <2>2, <2>3, <1>5
<1>10. ChildrenListed'
  <2> SUFFICES ASSUME NEW u \in Tids, status'[u] # "Absent", u # 1,
                      status'[NewParentOf(u)] # "Absent"
               PROVE  \E i \in DOMAIN children'[NewParentOf(u)] :
                         children'[NewParentOf(u)][i] = u
    BY DEF ChildrenListed, Present, ParentOf, NewParentOf
  <2>1. CASE u = t
    <3>1. NewParentOf(u) = q
      BY <2>1, <1>4
    <3>2. q # t
      BY <2>1
    <3>3. status[q] # "Absent"
      BY <3>1, <3>2, <1>0, <1>1, SMT DEF TypeOK
    <3>4. children'[q] = Append(children[q], t)
      BY <3>2, <3>3, <1>0, <1>5
    <3>5. Len(children[q]) + 1 \in DOMAIN children'[q]
          /\ children'[q][Len(children[q]) + 1] = t
      BY <3>4, <1>0, <1>6, SMT
    <3> QED BY <2>1, <3>1, <3>5
  <2>2. CASE u # t
    <3> DEFINE m == ParentOf(u)
    <3>1. NewParentOf(u) = m
      BY <2>2, <1>3
    <3>2. status[u] # "Absent"
      BY <2>2, <1>1 DEF TypeOK
    <3>3. m \in Tids
      BY <1>0 DEF ParentOf, TypeOK
    <3>4. m # t
      <4>1. parent[u] # t
        BY <1>0, <1>1, SMT DEF TypeOK, TableInv, Tids
      <4>2. t # 1
        BY <3>2 DEF TableInv, Present
      <4> QED BY <4>1, <4>2 DEF ParentOf
    <3>5. status[m] # "Absent"
      BY <3>1, <3>3, <3>4, <1>1 DEF TypeOK
    <3>6. PICK i \in DOMAIN children[m] : children[m][i] = u
      BY <3>2, <3>5 DEF TreeInv, ChildrenListed, Present
    <3> HIDE DEF m
    <3>7. i \in DOMAIN children'[m] /\ children'[m][i] = u
      <4>1. CASE children'[m] = children[m]
        BY <4>1, <3>6
      <4>2. CASE children'[m] = Append(children[m], t)
        BY <4>2, <3>3, <3>6, <1>6, SMT
      <4> QED BY <4>1, <4>2, <3>3, <3>4, <1>5
    <3> QED BY <3>1, <3>7
  <2> QED BY <2>1, <2>2
<1> QED BY <1>8, <1>9, <1>10 DEF TreeInv

\* Where an entry of a concatenation comes from and where one goes.
EntriesOf(both, s, t) ==
  /\ \A i \in DOMAIN both :
       \/ i \in DOMAIN s /\ both[i] = s[i]
       \/ /\ i \notin DOMAIN s /\ i - Len(s) \in DOMAIN t
          /\ both[i] = t[i - Len(s)]
  /\ \A i \in DOMAIN s : i \in DOMAIN both /\ both[i] = s[i]
  /\ \A i \in DOMAIN t : Len(s) + i \in DOMAIN both /\ both[Len(s) + i] = t[i]

\* exit appends the children of the task to init's: nothing is lost.
LEMMA ConcatEntries ==
  ASSUME NEW S, NEW s \in Seq(S), NEW t \in Seq(S)
  PROVE  EntriesOf(s \o t, s, t)
<1>1. /\ DOMAIN (s \o t) = 1 .. (Len(s) + Len(t))
      /\ DOMAIN s = 1 .. Len(s) /\ DOMAIN t = 1 .. Len(t)
      /\ Len(s) \in Nat /\ Len(t) \in Nat
  BY SMT
<1>2. \A i \in 1 .. (Len(s) + Len(t)) :
        (s \o t)[i] = IF i =< Len(s) THEN s[i] ELSE t[i - Len(s)]
  BY SMT
<1> QED BY <1>1, <1>2, SMT DEF EntriesOf

\* exit moves the children of the task to init and nobody else.
LEMMA ExitKeepsTree ==
  ASSUME TypeOK, TableInv, TreeInv,
         current \in Tids \ {1}, status[current] = "Running",
         status' = [status EXCEPT ![current] = "Zombie"],
         parent' = parent, children' = Orphans
  PROVE  TreeInv'
<1> USE DEF NoTid
<1>0. 1 \in Tids
  BY TidMaxAssumption, SMT DEF Tids
<1>1. \A u \in Tids : NewParentOf(u) = IF ParentOf(u) = current THEN 1 ELSE ParentOf(u)
  <2> SUFFICES ASSUME NEW u \in Tids
               PROVE  NewParentOf(u) = IF ParentOf(u) = current THEN 1 ELSE ParentOf(u)
    OBVIOUS
  <2>1. parent[u] \in Tids \cup {NoTid}
    BY DEF TypeOK
  <2>2. parent[u] \in Tids => status'[parent[u]] =
          IF parent[u] = current THEN "Zombie" ELSE status[parent[u]]
    BY DEF TypeOK
  <2>3. NoTid \notin Tids
    BY SMT DEF Tids
  <2> QED BY <2>1, <2>2, <2>3 DEF ParentOf, NewParentOf
<1>2. \A u \in Tids : status'[u] = "Absent" <=> status[u] = "Absent"
  BY DEF TypeOK
<1>3. \A u \in Tids : children[u] \in Seq(Tids)
  BY DEF TypeOK
<1>4. \A u \in Tids : /\ u \notin {1, current} => children'[u] = children[u]
                      /\ u = current => children'[u] = <<>>
                      /\ u = 1 /\ status[1] = "Absent" => children'[u] = <<>>
                      /\ u = 1 /\ status[1] # "Absent" =>
                           children'[u] = children[1] \o children[current]
  BY <1>0 DEF Orphans, TypeOK, TableInv
<1>5. \A u \in Tids : \A i \in DOMAIN children[u] :
        /\ children[u][i] \in Tids /\ children[u][i] # 1
        /\ status[children[u][i]] # "Absent" /\ ParentOf(children[u][i]) = u
  BY <1>3, SMT DEF TreeInv, ChildrenAreMine
<1>c. EntriesOf(children[1] \o children[current], children[1], children[current])
  <2>1. children[1] \in Seq(Tids) /\ children[current] \in Seq(Tids)
    BY <1>0, <1>3
  <2> QED BY <2>1, ConcatEntries
<1>6. \A u \in Tids : \A i \in DOMAIN children'[u] :
        \/ /\ u # current
           /\ i \in DOMAIN children[u]
           /\ children'[u][i] = children[u][i]
        \/ /\ u = 1
           /\ i - Len(children[1]) \in DOMAIN children[current]
           /\ i \notin DOMAIN children[1]
           /\ children'[u][i] = children[current][i - Len(children[1])]
  <2> SUFFICES ASSUME NEW u \in Tids, NEW i \in DOMAIN children'[u]
      PROVE \/ /\ u # current
               /\ i \in DOMAIN children[u]
               /\ children'[u][i] = children[u][i]
            \/ /\ u = 1
               /\ i - Len(children[1]) \in DOMAIN children[current]
               /\ i \notin DOMAIN children[1]
               /\ children'[u][i] = children[current][i - Len(children[1])]
    OBVIOUS
  <2>1. CASE u \notin {1, current}
    BY <2>1, <1>4
  <2>2. CASE u = current \/ (u = 1 /\ status[1] = "Absent")
    <3>1. children'[u] = <<>>
      BY <2>2, <1>4
    <3>2. DOMAIN <<>> = {}
      BY SMT
    <3> QED BY <3>1, <3>2
  <2>3. CASE u = 1 /\ status[1] # "Absent"
    <3>1. children'[u] = children[1] \o children[current]
      BY <2>3, <1>4
    <3> DEFINE both == children[1] \o children[current]
    <3>3. \/ i \in DOMAIN children[1] /\ both[i] = children[1][i]
          \/ /\ i \notin DOMAIN children[1]
             /\ i - Len(children[1]) \in DOMAIN children[current]
             /\ both[i] = children[current][i - Len(children[1])]
      BY <3>1, <1>c DEF EntriesOf
    <3> QED BY <2>3, <3>1, <3>3
  <2> QED BY <2>1, <2>2, <2>3
<1>7. ChildrenAreMine'
  <2> SUFFICES ASSUME NEW u \in Tids, NEW i \in DOMAIN children'[u]
               PROVE  /\ children'[u][i] # 1
                      /\ status'[children'[u][i]] # "Absent"
                      /\ NewParentOf(children'[u][i]) = u
    BY SMT DEF ChildrenAreMine, ParentOf, NewParentOf
  <2>1. CASE u # current /\ i \in DOMAIN children[u] /\ children'[u][i] = children[u][i]
    BY <2>1, <1>1, <1>2, <1>5, SMT
  <2>2. CASE /\ u = 1 /\ i - Len(children[1]) \in DOMAIN children[current]
             /\ children'[u][i] = children[current][i - Len(children[1])]
    <3>1. PICK k \in DOMAIN children[current] : children'[u][i] = children[current][k]
      BY <2>2
    <3>2. /\ children[current][k] \in Tids /\ children[current][k] # 1
          /\ status[children[current][k]] # "Absent"
          /\ ParentOf(children[current][k]) = current
      BY <1>5
    <3> QED BY <3>1, <3>2, <2>2, <1>1, <1>2
  <2> QED BY <2>1, <2>2, <1>6
<1>8. ChildrenOnce'
  <2> SUFFICES ASSUME NEW u \in Tids,
                      NEW i \in DOMAIN children'[u], NEW j \in DOMAIN children'[u],
                      children'[u][i] = children'[u][j]
               PROVE  i = j
    BY DEF ChildrenOnce
  <2>0. \A v \in Tids : \A k, l \in DOMAIN children[v] :
           children[v][k] = children[v][l] => k = l
    BY DEF TreeInv, ChildrenOnce
  <2>1. CASE i \in DOMAIN children[u] /\ children'[u][i] = children[u][i]
             /\ j \in DOMAIN children[u] /\ children'[u][j] = children[u][j]
    BY <2>0, <2>1
  <2>2. CASE u = 1 /\ i \notin DOMAIN children[1] /\ j \notin DOMAIN children[1]
    <3> DEFINE n == Len(children[1])
    <3>1. i - n \in DOMAIN children[current] /\ j - n \in DOMAIN children[current]
          /\ children[current][i - n] = children[current][j - n]
      BY <2>2, <1>6
    <3>2. i - n = j - n
      BY <2>0, <3>1
    <3>3. i \in Nat /\ j \in Nat /\ n \in Nat
      <4>1. children[1] \in Seq(Tids) /\ children'[u] \in Seq(Tids)
        <5>1. children[1] \o children[current] \in Seq(Tids) /\ <<>> \in Seq(Tids)
          BY <1>0, <1>3, SMT
        <5> QED BY <2>2, <1>0, <1>3, <1>4, <5>1
      <4> QED BY <4>1, SMT
    <3> QED BY <3>2, <3>3, SMT
  <2>3. CASE u = 1 /\ (i \in DOMAIN children[1] <=> j \notin DOMAIN children[1])
    <3>1. \E k \in DOMAIN children[1], l \in DOMAIN children[current] :
             children[1][k] = children[current][l]
      BY <2>3, <1>6, SMT
    <3> QED BY <3>1, <1>0, <1>5, SMT
  <2> QED BY <2>1, <2>2, <2>3, <1>6
<1>9. ChildrenListed'
  <2> SUFFICES ASSUME NEW u \in Tids, status'[u] # "Absent", u # 1,
                      status'[NewParentOf(u)] # "Absent"
               PROVE  \E i \in DOMAIN children'[NewParentOf(u)] :
                         children'[NewParentOf(u)][i] = u
    BY DEF ChildrenListed, Present, ParentOf, NewParentOf
  <2> DEFINE m == ParentOf(u)
  <2>1. m \in Tids /\ status[u] # "Absent"
    BY <1>0, <1>2 DEF ParentOf, TypeOK
  <2>2. status[m] # "Absent" =>
          \E i \in DOMAIN children[m] : children[m][i] = u
    BY <2>1 DEF TreeInv, ChildrenListed, Present
  <2>3. NewParentOf(u) = IF m = current THEN 1 ELSE m
    BY <1>1
  <2> HIDE DEF m
  <2>4. CASE m \notin {1, current}
    <3>1. NewParentOf(u) = m /\ children'[m] = children[m] /\ status[m] # "Absent"
      BY <2>1, <2>3, <2>4, <1>2, <1>4
    <3> QED BY <3>1, <2>2
  <2>5. CASE m \in {1, current}
    <3>1. NewParentOf(u) = 1 /\ status[1] # "Absent"
      BY <2>3, <2>5, <1>0, <1>2
    <3>2. children'[1] = children[1] \o children[current]
      BY <3>1, <1>0, <1>4
    <3>4. PICK i \in DOMAIN children[m] : children[m][i] = u
      BY <2>2, <2>5, <3>1
    <3>5. CASE m = 1
      <4>1. i \in DOMAIN children'[1] /\ children'[1][i] = u
        BY <3>2, <3>4, <3>5, <1>c DEF EntriesOf
      <4> QED BY <3>1, <4>1
    <3>6. CASE m = current
      <4>1. Len(children[1]) + i \in DOMAIN children'[1]
            /\ children'[1][Len(children[1]) + i] = u
        BY <3>2, <3>4, <3>6, <1>c DEF EntriesOf
      <4> QED BY <3>1, <4>1
    <3> QED BY <2>5, <3>5, <3>6
  <2> QED BY <2>4, <2>5
<1> QED BY <1>7, <1>8, <1>9 DEF TreeInv

\* The three parts of FamilyTree hold after every step; only boot, clone and
\* exit touch them.
LEMMA TreeStep == IInv /\ [Next]_vars => TreeInv'
<1> SUFFICES ASSUME IInv, [Next]_vars PROVE TreeInv'
  OBVIOUS
<1> USE DEF IInv, NoTid
<1>0. TypeOK /\ TableInv /\ TreeInv /\ 1 \in Tids
  BY TidMaxAssumption, SMT DEF Tids, TreeInv
<1>a. ASSUME UNCHANGED <<parent, children>>,
             \A t \in Tids : /\ status'[t] = "Absent" <=> status[t] = "Absent"
                             /\ status'[t] = "Zombie" <=> status[t] = "Zombie"
      PROVE  TreeInv'
  <2>1. \A t \in Tids : NewParentOf(t) = ParentOf(t) /\ ParentOf(t) \in Tids
    BY <1>a, <1>0 DEF NewParentOf, ParentOf, TypeOK
  <2>2. \A u \in Tids : \A i \in DOMAIN children[u] : children[u][i] \in Tids
    BY SMT DEF TypeOK
  <2>3. ChildrenAreMine'
    <3> SUFFICES ASSUME NEW u \in Tids, NEW i \in DOMAIN children'[u]
                 PROVE  /\ children'[u][i] # 1
                        /\ status'[children'[u][i]] # "Absent"
                        /\ NewParentOf(children'[u][i]) = u
      BY SMT DEF ChildrenAreMine, ParentOf, NewParentOf
    <3> QED BY <1>a, <2>1, <2>2, SMT DEF ChildrenAreMine
  <2>4. ChildrenOnce'
    BY <1>a DEF ChildrenOnce
  <2>5. ChildrenListed'
    <3> SUFFICES ASSUME NEW u \in Tids, status'[u] # "Absent", u # 1,
                        status'[NewParentOf(u)] # "Absent"
                 PROVE  \E i \in DOMAIN children'[NewParentOf(u)] :
                           children'[NewParentOf(u)][i] = u
      BY DEF ChildrenListed, Present, ParentOf, NewParentOf
    <3> QED BY <1>a, <2>1, SMT DEF ChildrenListed, Present
  <2> QED BY <2>3, <2>4, <2>5 DEF TreeInv
<1>b. ASSUME UNCHANGED <<status, parent, children>> PROVE TreeInv'
  BY <1>a, <1>b
<1>c. ASSUME free # {}
      PROVE  alloc_tid \in free /\ (1 \in free => alloc_tid = 1)
  <2>1. free \in SUBSET Nat /\ free \subseteq Tids
    BY SMT DEF TypeOK, Tids
  <2>2. alloc_tid \in free /\ \A y \in free : alloc_tid =< y
    BY <1>c, <2>1, MinIsMember DEF alloc_tid
  <2> QED BY <2>1, <2>2, SMT DEF Tids
<1>1. CASE BootExec
  <2>1. PICK r \in FreeRoots : Add(alloc_tid, NoTid, EntryContext(r))
    BY <1>1 DEF BootExec
  <2> QED BY <1>0, <1>1, <1>c, <2>1, AddKeepsTree DEF BootExec
<1>2. CASE clone_task
  <2>1. PICK r \in FreeRoots : Add(alloc_tid, current, clone_child(r))
    BY <1>2 DEF clone_task
  <2>2. current \in Runnable /\ current # alloc_tid
    BY <1>2, <1>c DEF clone_task, HartInv, Runnable, Present, TableInv
  <2> QED BY <1>0, <1>2, <1>c, <2>1, <2>2, AddKeepsTree DEF clone_task
<1>3. ASSUME NEW code \in ExitCodes, exit(code) PROVE TreeInv'
  <2>1. CASE current = 1
    BY <1>3, <2>1, <1>b DEF exit
  <2>2. CASE current # 1
    BY <1>0, <1>3, <2>2, ExitKeepsTree DEF exit, HartInv
  <2> QED BY <2>1, <2>2
<1>4. CASE wait4_blocking \/ execve_loads
  <2>1. PICK new \in {"Waiting", "Running"} :
          /\ current \in Tids /\ status[current] = "Running"
          /\ status' = [status EXCEPT ![current] = new]
          /\ UNCHANGED <<parent, children>>
    BY <1>4 DEF wait4_blocking, execve_loads, HartInv
  <2>2. \A t \in Tids : /\ status'[t] = "Absent" <=> status[t] = "Absent"
                        /\ status'[t] = "Zombie" <=> status[t] = "Zombie"
    BY <2>1 DEF TypeOK
  <2> QED BY <2>1, <2>2, <1>a
<1>5. CASE \/ BootLoadFails \/ BootSkips \/ BootPanics \/ BootDone
           \/ SwitchPanics \/ select_next \/ restore_context \/ OtherSyscall
           \/ clone_task_fails \/ execve_start \/ execve_fails \/ Stops
  BY <1>5, <1>b DEF BootLoadFails, BootSkips, BootPanics, BootDone, SwitchPanics,
       select_next, restore_context, OtherSyscall, clone_task_fails, execve_start,
       execve_fails, Stops, tableVars
<1>6. CASE TimerInterrupt \/ KernelTimerInterrupt
  BY <1>6, <1>b DEF TimerInterrupt, KernelTimerInterrupt
<1>7. CASE SwitchSpins \/ StaysHalted \/ UNCHANGED vars
  BY <1>7, <1>b DEF SwitchSpins, StaysHalted, vars
<1>8. ASSUME NEW target \in Tids \cup {NoTid}, wait4_nohang(target) PROVE TreeInv'
  BY <1>8, <1>b DEF wait4_nohang, tableVars
<1> QED
  BY <1>1, <1>2, <1>3, <1>4, <1>5, <1>6, <1>7, <1>8
  DEF Next, Boot, Scheduler, Syscall, ExecveEnds

-----------------------------------------------------------------------------
(* Address spaces *)

\* Which code a kernel-mode context can come from, in every step.
LEMMA TickStep == IInv /\ [Next]_vars => TickInv'
<1> SUFFICES ASSUME IInv, [Next]_vars PROVE TickInv'
  OBVIOUS
<1> USE DEF IInv, NoTid
<1>0. TypeOK /\ TickInv /\ HartInv
  OBVIOUS
<1>1. CASE BootExec
  <2>1. PICK r \in FreeRoots : ctx' = [ctx EXCEPT ![alloc_tid] = EntryContext(r)]
    BY <1>1 DEF BootExec, Add
  <2> QED BY <1>0, <1>1, <2>1 DEF BootExec, TickInv, TypeOK, EntryContext, hartVars
<1>2. CASE clone_task
  <2>1. PICK r \in FreeRoots : ctx' = [ctx EXCEPT ![alloc_tid] = clone_child(r)]
    BY <1>2 DEF clone_task, Add
  <2>2. current \in Tids /\ clone_child(r).mode = "U"
    BY <1>0, <1>2 DEF clone_task, clone_child, TickInv, HartInv
  <2>3. \A t \in Tids : ctx'[t] = ctx[t] \/ ctx'[t] = clone_child(r)
    BY <1>0, <2>1 DEF TypeOK
  <2> QED BY <1>0, <1>2, <2>2, <2>3 DEF clone_task, ReturnToUser, TickInv
<1>3. CASE execve_loads
  <2>1. PICK r \in FreeRoots : ctx' = [ctx EXCEPT ![current] = EntryContext(r)]
    BY <1>3 DEF execve_loads
  <2> QED BY <1>0, <1>3, <2>1 DEF execve_loads, TickInv, TypeOK, EntryContext
<1>4. CASE TimerInterrupt
  <2>1. \A t \in Tids : ctx'[t] = ctx[t] \/ ctx'[t].mode = "U"
    BY <1>0, <1>4 DEF TimerInterrupt, SavedContext, TypeOK
  <2> QED BY <1>0, <1>4, <2>1 DEF TimerInterrupt, TickInv
<1>5. CASE KernelTimerInterrupt
  <2>1. \A t \in Tids : ctx'[t] = ctx[t] \/ ctx'[t].satp = satp
    BY <1>0, <1>5 DEF KernelTimerInterrupt, TypeOK
  <2> QED BY <1>0, <1>5, <2>1 DEF KernelTimerInterrupt, TickInv
<1>6. CASE \/ BootLoadFails \/ BootSkips \/ BootPanics \/ BootDone
           \/ SwitchPanics \/ select_next \/ restore_context \/ OtherSyscall
           \/ clone_task_fails \/ execve_start \/ execve_fails \/ Stops
  <2>1. CASE BootLoadFails \/ BootSkips \/ BootPanics \/ BootDone
    BY <1>0, <2>1, SMT DEF TickInv, HartInv, BootLoadFails, BootSkips, BootPanics, BootDone,
         tableVars, hartVars
  <2>2. CASE SwitchPanics \/ select_next \/ restore_context
    BY <1>0, <2>2, SMT DEF TickInv, SwitchPanics, select_next, restore_context, tableVars
  <2>3. CASE OtherSyscall \/ clone_task_fails \/ Stops
    BY <1>0, <2>3, SMT DEF TickInv, OtherSyscall, clone_task_fails, Stops, ReturnToUser,
         tableVars
  <2>4. CASE execve_start \/ execve_fails
    BY <1>0, <2>4, SMT DEF TickInv, execve_start, execve_fails, ExecveRoot, tableVars
  <2> QED BY <1>6, <2>1, <2>2, <2>3, <2>4
<1>7. CASE wait4_blocking
  BY <1>0, <1>7 DEF wait4_blocking, Yield, TickInv
<1>8. ASSUME NEW code \in ExitCodes, exit(code) PROVE TickInv'
  BY <1>0, <1>8, SMT DEF exit, Yield, TickInv
<1>9. ASSUME NEW target \in Tids \cup {NoTid}, wait4_nohang(target) PROVE TickInv'
  BY <1>0, <1>9 DEF wait4_nohang, ReturnToUser, TickInv, tableVars
<1>10. CASE SwitchSpins \/ StaysHalted \/ UNCHANGED vars
  BY <1>0, <1>10, SMT DEF SwitchSpins, StaysHalted, vars, TickInv
<1> QED
  BY <1>1, <1>2, <1>3, <1>4, <1>5, <1>6, <1>7, <1>8, <1>9, <1>10
  DEF Next, Boot, Scheduler, Syscall, ExecveEnds

\* The part of ContextOwnsSpace about the manager alone.
DistinctRoots ==
  /\ \A t, u \in Tids : t # u /\ space[t] # NoRoot => space[t] # space[u]
  /\ held # NoRoot => \A t \in Tids : space[t] # held

\* Registering a fresh root under a TID keeps all roots distinct.
LEMMA FreshRoot ==
  ASSUME TypeOK, DistinctRoots, NEW t \in Tids, NEW r \in FreeRoots,
         space' = [space EXCEPT ![t] = r], held' \in {held, NoRoot}
  PROVE  DistinctRoots'
<1>1. r \in Roots /\ r # held /\ \A u \in Tids : space[u] # r
  BY DEF FreeRoots
<1>2. \A u \in Tids : space'[u] = IF u = t THEN r ELSE space[u]
  BY DEF TypeOK
<1> QED BY <1>1, <1>2, SMT DEF DistinctRoots

\* execve takes the old root out before it registers another one, and puts it
\* back over a new one if that fails; fork and boot take fresh roots.
LEMMA RootsStep == IInv /\ [Next]_vars => DistinctRoots'
<1> SUFFICES ASSUME IInv, [Next]_vars PROVE DistinctRoots'
  OBVIOUS
<1> USE DEF IInv
<1>0. TypeOK /\ HartInv /\ DistinctRoots
  BY DEF ContextOwnsSpace, DistinctRoots
<1>a. free # {} => alloc_tid \in Tids
  BY AllocTidIsFree
<1>b. ASSUME UNCHANGED <<space, held>> PROVE DistinctRoots'
  BY <1>0, <1>b DEF DistinctRoots
<1>1. CASE BootExec \/ clone_task \/ BootLoadFails \/ clone_task_fails
  <2>1. alloc_tid \in Tids /\ held' = held
    BY <1>1, <1>a DEF BootExec, clone_task, BootLoadFails, clone_task_fails
  <2>2. \/ UNCHANGED space
        \/ \E r \in FreeRoots : space' = [space EXCEPT ![alloc_tid] = r]
    BY <1>1 DEF BootExec, clone_task, BootLoadFails, clone_task_fails
  <2>3. CASE UNCHANGED space
    BY <2>1, <2>3, <1>b
  <2>4. CASE \E r \in FreeRoots : space' = [space EXCEPT ![alloc_tid] = r]
    <3>1. PICK r \in FreeRoots : space' = [space EXCEPT ![alloc_tid] = r]
      BY <2>4
    <3> QED BY <1>0, <2>1, <3>1, FreshRoot
  <2> QED BY <2>2, <2>3, <2>4
<1>2. CASE execve_loads
  <2>1. PICK r \in FreeRoots : space' = [space EXCEPT ![current] = r]
    BY <1>2 DEF execve_loads
  <2>2. current \in Tids /\ held' = NoRoot
    BY <1>0, <1>2 DEF execve_loads, HartInv
  <2> QED BY <1>0, <2>1, <2>2, FreshRoot
<1>3. CASE execve_start
  <2>1. current \in Tids /\ held' = space[current]
        /\ \A u \in Tids : space'[u] = IF u = current THEN NoRoot ELSE space[u]
    BY <1>0, <1>3 DEF execve_start, HartInv, TypeOK
  <2> QED BY <1>0, <2>1 DEF DistinctRoots
<1>4. CASE execve_fails
  <2>1. current \in Tids /\ held # NoRoot /\ held' = NoRoot
        /\ \A u \in Tids : space'[u] = IF u = current THEN held ELSE space[u]
    BY <1>0, <1>4 DEF execve_fails, HartInv, TypeOK
  <2> QED BY <1>0, <2>1 DEF DistinctRoots
<1>5. CASE \/ BootSkips \/ BootPanics \/ BootDone \/ SwitchPanics \/ select_next
           \/ restore_context \/ OtherSyscall \/ Stops \/ wait4_blocking
           \/ TimerInterrupt \/ KernelTimerInterrupt
           \/ SwitchSpins \/ StaysHalted \/ UNCHANGED vars
  BY <1>5, <1>b DEF BootSkips, BootPanics, BootDone, SwitchPanics, select_next,
       restore_context, OtherSyscall, Stops, wait4_blocking, TimerInterrupt,
       KernelTimerInterrupt, SwitchSpins, StaysHalted, vars
<1>6. ASSUME NEW code \in ExitCodes, exit(code) PROVE DistinctRoots'
  BY <1>6, <1>b DEF exit
<1>7. ASSUME NEW target \in Tids \cup {NoTid}, wait4_nohang(target)
      PROVE DistinctRoots'
  BY <1>7, <1>b DEF wait4_nohang
<1> QED
  BY <1>1, <1>2, <1>3, <1>4, <1>5, <1>6, <1>7
  DEF Next, Boot, Scheduler, Syscall, ExecveEnds

\* The root that a step leaves in satp is in the manager, or held.
LEMMA SatpStep == IInv /\ [Next]_vars => SatpLive'
<1> SUFFICES ASSUME IInv, [Next]_vars PROVE SatpLive'
  OBVIOUS
<1> USE DEF IInv
<1>0. TypeOK /\ HartInv /\ TickInv /\ SatpLive /\ ContextOwnsSpace
  OBVIOUS
<1>1. CASE BootExec \/ BootLoadFails
  BY <1>0, <1>1 DEF BootExec, BootLoadFails, HartInv, SatpLive, hartVars
<1>2. CASE clone_task \/ clone_task_fails
  <2>1. current \in Tids /\ alloc_tid \in Tids /\ current # alloc_tid
    BY <1>0, <1>2, AllocTidIsFree DEF clone_task, clone_task_fails, HartInv, TableInv, Present
  <2>2. space'[current] = space[current]
    BY <1>0, <1>2, <2>1 DEF clone_task, clone_task_fails, TypeOK
  <2> QED BY <1>0, <1>2, <2>1, <2>2 DEF clone_task, clone_task_fails, ReturnToUser, SatpLive
<1>3. CASE execve_start \/ execve_loads
  BY <1>0, <1>3 DEF execve_start, execve_loads, ExecveRoot, TickInv, SatpLive
<1>4. CASE execve_fails
  <2>1. current \in Tids /\ space'[current] = held /\ satp' = held /\ current' = current
    BY <1>0, <1>4 DEF execve_fails, HartInv, TypeOK
  <2> QED BY <2>1 DEF SatpLive
<1>5. CASE restore_context
  <2>1. current \in Tids /\ current \in Present /\ ctx[current] \in Contexts
    BY <1>0, <1>5 DEF restore_context, HartInv, Present, TypeOK
  <2>2. CASE ctx[current].mode = "U"
    <3>1. ctx[current].satp = space[current]
      BY <1>0, <1>5, <2>1, <2>2 DEF restore_context, ContextOwnsSpace, RootOf
    <3> QED BY <1>5, <2>1, <3>1 DEF restore_context, SatpLive
  <2>3. CASE ctx[current].mode = "S"
    BY <1>0, <1>5, <2>1, <2>3 DEF restore_context, TickInv, SatpLive
  <2> QED BY <2>1, <2>2, <2>3 DEF Contexts
<1>6. CASE \/ BootSkips \/ BootPanics \/ BootDone \/ SwitchPanics \/ select_next
           \/ OtherSyscall \/ Stops \/ wait4_blocking
           \/ TimerInterrupt \/ KernelTimerInterrupt
           \/ SwitchSpins \/ StaysHalted \/ UNCHANGED vars
  BY <1>0, <1>6 DEF SatpLive, BootSkips, BootPanics, BootDone, SwitchPanics,
       select_next, OtherSyscall, ReturnToUser, Stops, wait4_blocking, Yield,
       TimerInterrupt, KernelTimerInterrupt, SwitchSpins, StaysHalted, vars, hartVars
<1>7. ASSUME NEW code \in ExitCodes, exit(code) PROVE SatpLive'
  BY <1>0, <1>7 DEF exit, Yield, SatpLive
<1>8. ASSUME NEW target \in Tids \cup {NoTid}, wait4_nohang(target) PROVE SatpLive'
  BY <1>0, <1>8 DEF wait4_nohang, ReturnToUser, SatpLive
<1> QED
  BY <1>1, <1>2, <1>3, <1>4, <1>5, <1>6, <1>7, <1>8
  DEF Next, Boot, Scheduler, Syscall, ExecveEnds

\* The part of ContextOwnsSpace about the tasks.
OwnContexts ==
  \A t \in Present : /\ RootOf(t) \in Roots
                     /\ ctx[t].mode = "U" => ctx[t].satp = RootOf(t)

\* A new task gets the root that its context names, and the others keep theirs.
LEMMA AddKeepsContexts ==
  ASSUME TypeOK, OwnContexts, NEW t \in Tids \ Present, NEW r \in Roots, NEW p,
         NEW context, context.satp = r, kpc # "exec", kpc' = kpc,
         space' = [space EXCEPT ![t] = r], Add(t, p, context)
  PROVE  OwnContexts'
<1> SUFFICES ASSUME NEW u \in Tids, status'[u] # "Absent"
             PROVE  /\ space'[u] \in Roots
                    /\ ctx'[u].mode = "U" => ctx'[u].satp = space'[u]
  BY DEF OwnContexts, Present, RootOf
<1>1. CASE u = t
  BY <1>1 DEF Add, TypeOK
<1>2. CASE u # t
  <2>1. status'[u] = status[u] /\ ctx'[u] = ctx[u] /\ space'[u] = space[u]
    BY <1>2 DEF Add, TypeOK
  <2> QED BY <2>1 DEF OwnContexts, Present, RootOf
<1> QED BY <1>1, <1>2

\* Every step leaves each task a context that restores its own space.
LEMMA ContextStep == IInv /\ [Next]_vars => OwnContexts'
<1> SUFFICES ASSUME IInv, [Next]_vars PROVE OwnContexts'
  OBVIOUS
<1> USE DEF IInv
<1>0. TypeOK /\ HartInv /\ TickInv /\ SatpLive /\ OwnContexts
  BY DEF ContextOwnsSpace, OwnContexts
<1>a. ASSUME free # {} PROVE alloc_tid \in Tids \ Present
  BY <1>a, AllocTidIsFree DEF TableInv
<1>b. ASSUME UNCHANGED <<ctx, space>>, kpc # "exec", kpc' # "exec",
             \A t \in Tids : status'[t] # "Absent" => status[t] # "Absent"
      PROVE  OwnContexts'
  BY <1>0, <1>b DEF OwnContexts, Present, RootOf
<1>1. CASE BootExec
  <2>1. PICK r \in FreeRoots : /\ space' = [space EXCEPT ![alloc_tid] = r]
                               /\ Add(alloc_tid, NoTid, EntryContext(r))
    BY <1>1 DEF BootExec
  <2>2. r \in Roots /\ EntryContext(r).satp = r /\ alloc_tid \in Tids \ Present
        /\ kpc # "exec" /\ kpc' = kpc
    BY <1>1, <1>a DEF FreeRoots, EntryContext, BootExec, hartVars
  <2> QED BY <1>0, <2>1, <2>2, AddKeepsContexts
<1>2. CASE clone_task
  <2>1. PICK r \in FreeRoots : /\ space' = [space EXCEPT ![alloc_tid] = r]
                               /\ Add(alloc_tid, current, clone_child(r))
    BY <1>2 DEF clone_task
  <2>2. r \in Roots /\ clone_child(r).satp = r /\ alloc_tid \in Tids \ Present
        /\ kpc # "exec" /\ kpc' = kpc
    BY <1>2, <1>a DEF FreeRoots, clone_child, clone_task, ReturnToUser
  <2> QED BY <1>0, <2>1, <2>2, AddKeepsContexts
<1>3. CASE BootLoadFails \/ clone_task_fails
  <2>1. alloc_tid \in Tids \ Present /\ UNCHANGED <<status, ctx, kpc>> /\ kpc # "exec"
    BY <1>3, <1>a DEF BootLoadFails, clone_task_fails, ReturnToUser, tableVars, hartVars
  <2>2. \A u \in Tids \ {alloc_tid} : space'[u] = space[u]
    BY <1>0, <1>3 DEF BootLoadFails, clone_task_fails, TypeOK
  <2> QED BY <1>0, <2>1, <2>2 DEF OwnContexts, Present, RootOf
<1>4. CASE execve_start
  <2>1. \A u \in Tids : space'[u] = IF u = current THEN NoRoot ELSE space[u]
    BY <1>0, <1>4 DEF execve_start, TypeOK
  <2> QED BY <1>0, <1>4, <2>1 DEF execve_start, tableVars, OwnContexts, Present, RootOf
<1>5. CASE execve_fails
  <2>1. \A u \in Tids : space'[u] = IF u = current THEN held ELSE space[u]
    BY <1>0, <1>5 DEF execve_fails, TypeOK
  <2> QED BY <1>0, <1>5, <2>1 DEF execve_fails, tableVars, OwnContexts, Present, RootOf
<1>6. CASE execve_loads
  <2>1. PICK r \in FreeRoots : /\ space' = [space EXCEPT ![current] = r]
                               /\ ctx' = [ctx EXCEPT ![current] = EntryContext(r)]
    BY <1>6 DEF execve_loads
  <2>2. current \in Present /\ r \in Roots
    BY <1>0, <1>6 DEF execve_loads, HartInv, Present, FreeRoots
  <2>3. \A u \in Tids :
          /\ space'[u] = IF u = current THEN r ELSE space[u]
          /\ ctx'[u] = IF u = current THEN EntryContext(r) ELSE ctx[u]
          /\ status'[u] # "Absent" => status[u] # "Absent"
    BY <1>0, <1>6, <2>1, <2>2 DEF execve_loads, TypeOK, Present
  <2> QED BY <1>0, <1>6, <2>2, <2>3, SMT
      DEF execve_loads, EntryContext, OwnContexts, Present, RootOf
<1>7. CASE TimerInterrupt
  <2>1. \A u \in Tids : ctx'[u] = IF u = current THEN SavedContext ELSE ctx[u]
    BY <1>0, <1>7 DEF TimerInterrupt, TypeOK
  <2>2. SavedContext.satp = space[current]
    BY <1>0, <1>7 DEF TimerInterrupt, SavedContext, SatpLive
  <2> QED BY <1>0, <1>7, <2>1, <2>2, SMT DEF TimerInterrupt, OwnContexts, Present, RootOf
<1>8. CASE KernelTimerInterrupt
  <2>1. \A u \in Tids : ctx'[u] = ctx[u] \/ ctx'[u].mode = "S"
    BY <1>0, <1>8 DEF KernelTimerInterrupt, TypeOK
  <2> QED BY <1>0, <1>8, <2>1 DEF KernelTimerInterrupt, OwnContexts, Present, RootOf
<1>9. CASE wait4_blocking
  <2>1. \A t \in Tids : status'[t] # "Absent" => status[t] # "Absent"
    BY <1>0, <1>9 DEF wait4_blocking, HartInv, TypeOK
  <2> QED BY <1>9, <2>1, <1>b DEF wait4_blocking, Yield
<1>10. ASSUME NEW code \in ExitCodes, exit(code) PROVE OwnContexts'
  <2>1. \A t \in Tids : status'[t] # "Absent" => status[t] # "Absent"
    BY <1>0, <1>10 DEF exit, HartInv, TypeOK
  <2> QED BY <1>10, <2>1, <1>b DEF exit, Yield
<1>11. CASE \/ BootSkips \/ BootPanics \/ BootDone \/ SwitchPanics \/ select_next
            \/ restore_context \/ OtherSyscall \/ Stops
  BY <1>11, <1>b DEF BootSkips, BootPanics, BootDone, SwitchPanics, select_next,
       restore_context, OtherSyscall, ReturnToUser, Stops, tableVars, hartVars
<1>12. ASSUME NEW target \in Tids \cup {NoTid}, wait4_nohang(target) PROVE OwnContexts'
  BY <1>12, <1>b DEF wait4_nohang, ReturnToUser, tableVars
<1>13. CASE SwitchSpins \/ StaysHalted \/ UNCHANGED vars
  BY <1>0, <1>13 DEF SwitchSpins, StaysHalted, vars, OwnContexts, Present, RootOf
<1> QED
  BY <1>1, <1>2, <1>3, <1>4, <1>5, <1>6, <1>7, <1>8, <1>9, <1>10, <1>11, <1>12, <1>13
  DEF Next, Boot, Scheduler, Syscall, ExecveEnds

-----------------------------------------------------------------------------
(* Where programs resume *)

\* Every step that takes a runnable task off the hart saves where it was.
LEMMA ResumeStep == IInv /\ [Next]_vars => ResumesWhereItLeft'
<1> SUFFICES ASSUME IInv, [Next]_vars PROVE ResumesWhereItLeft'
  OBVIOUS
<1> USE DEF IInv
<1>0. TypeOK /\ HartInv /\ ResumesWhereItLeft
  OBVIOUS
<1>a. free # {} => alloc_tid \in Tids
  BY AllocTidIsFree
<1>1. ASSUME NEW t \in Tids, NEW p, NEW context,
             Add(t, p, context), UNCHANGED <<kpc, current>>
      PROVE  ResumesWhereItLeft'
  <2> SUFFICES ASSUME NEW u \in Tids, status'[u] = "Running", ctx'[u].mode = "U",
                      u # current \/ kpc \in {"boot", "select", "restore"}
               PROVE  ctx'[u].pc = left'[u]
    BY <1>1 DEF ResumesWhereItLeft, Runnable
  <2>1. CASE u = t
    BY <1>0, <1>1, <2>1 DEF Add, TypeOK
  <2>2. CASE u # t
    <3>1. status'[u] = status[u] /\ ctx'[u] = ctx[u] /\ left'[u] = left[u]
      BY <1>0, <1>1, <2>2 DEF Add, TypeOK
    <3> QED BY <1>0, <3>1 DEF ResumesWhereItLeft, Runnable
  <2> QED BY <2>1, <2>2
<1>2. CASE BootExec
  <2>1. PICK r \in FreeRoots : Add(alloc_tid, NoTid, EntryContext(r))
    BY <1>2 DEF BootExec
  <2> QED BY <1>1, <1>2, <1>a, <2>1 DEF BootExec, hartVars
<1>3. CASE clone_task
  <2>1. PICK r \in FreeRoots : Add(alloc_tid, current, clone_child(r))
    BY <1>3 DEF clone_task
  <2> QED BY <1>1, <1>3, <1>a, <2>1 DEF clone_task, ReturnToUser
<1>4. CASE execve_loads
  <2>1. PICK r \in FreeRoots : ctx' = [ctx EXCEPT ![current] = EntryContext(r)]
    BY <1>4 DEF execve_loads
  <2>2. current \in Tids /\ \A u \in Tids :
          /\ ctx'[u] = IF u = current THEN EntryContext(r) ELSE ctx[u]
          /\ left'[u] = IF u = current THEN 0 ELSE left[u]
          /\ u # current => status'[u] = status[u]
    BY <1>0, <1>4, <2>1 DEF execve_loads, HartInv, TypeOK
  <2> QED BY <1>0, <1>4, <2>2, SMT DEF execve_loads, EntryContext, ResumesWhereItLeft, Runnable
<1>5. CASE TimerInterrupt
  <2>1. \A u \in Tids :
          /\ ctx'[u] = IF u = current THEN SavedContext ELSE ctx[u]
          /\ left'[u] = IF u = current THEN sepc ELSE left[u]
    BY <1>0, <1>5 DEF TimerInterrupt, TypeOK
  <2> QED BY <1>0, <1>5, <2>1, SMT DEF TimerInterrupt, SavedContext, ResumesWhereItLeft, Runnable
<1>6. CASE KernelTimerInterrupt
  <2>1. \A u \in Tids : ctx'[u] = ctx[u] \/ ctx'[u].mode = "S"
    BY <1>0, <1>6 DEF KernelTimerInterrupt, TypeOK
  <2> QED BY <1>0, <1>6, <2>1 DEF KernelTimerInterrupt, ResumesWhereItLeft, Runnable
<1>7. CASE wait4_blocking
  <2>1. current \in Tids /\ status'[current] = "Waiting" /\ UNCHANGED <<ctx, current>>
        /\ \A u \in Tids \ {current} : status'[u] = status[u] /\ left'[u] = left[u]
    BY <1>0, <1>7 DEF wait4_blocking, Yield, HartInv, TypeOK
  <2> QED BY <1>0, <1>7, <2>1 DEF wait4_blocking, ResumesWhereItLeft, Runnable
<1>8. ASSUME NEW code \in ExitCodes, exit(code) PROVE ResumesWhereItLeft'
  <2>1. CASE current = 1
    BY <1>0, <1>8, <2>1 DEF exit, ResumesWhereItLeft, Runnable
  <2>2. CASE current # 1
    <3>1. current \in Tids /\ status'[current] = "Zombie" /\ UNCHANGED <<ctx, current>>
          /\ \A u \in Tids \ {current} : status'[u] = status[u] /\ left'[u] = left[u]
      BY <1>0, <1>8, <2>2 DEF exit, Yield, HartInv, TypeOK
    <3> QED BY <1>0, <1>8, <3>1 DEF exit, ResumesWhereItLeft, Runnable
  <2> QED BY <2>1, <2>2
<1>9. CASE \/ BootLoadFails \/ BootSkips \/ BootPanics \/ BootDone
           \/ SwitchPanics \/ select_next \/ restore_context \/ OtherSyscall
           \/ clone_task_fails \/ execve_start \/ execve_fails \/ Stops
  BY <1>0, <1>9 DEF ResumesWhereItLeft, Runnable, BootLoadFails, BootSkips, BootPanics,
       BootDone, SwitchPanics, select_next, restore_context, OtherSyscall,
       clone_task_fails, execve_start, execve_fails, Stops, ReturnToUser, tableVars, hartVars
<1>10. ASSUME NEW target \in Tids \cup {NoTid}, wait4_nohang(target)
       PROVE ResumesWhereItLeft'
  BY <1>0, <1>10 DEF wait4_nohang, ReturnToUser, tableVars, ResumesWhereItLeft, Runnable
<1>11. CASE SwitchSpins \/ StaysHalted \/ UNCHANGED vars
  BY <1>0, <1>11 DEF SwitchSpins, StaysHalted, vars, ResumesWhereItLeft, Runnable
<1> QED
  BY <1>2, <1>3, <1>4, <1>5, <1>6, <1>7, <1>8, <1>9, <1>10, <1>11
  DEF Next, Boot, Scheduler, Syscall, ExecveEnds

-----------------------------------------------------------------------------
(* The theorems *)

\* The empty table that main boots with satisfies the inductive invariant.
LEMMA InitIInv == Init => IInv
<1> SUFFICES ASSUME Init PROVE IInv
  OBVIOUS
<1> USE DEF Init
<1>0. 1 \in Tids /\ NoTid \notin Tids /\ DOMAIN <<>> = {}
  BY TidMaxAssumption, SMT DEF Tids, NoTid
<1>1. Present = {} /\ Runnable = {}
  BY DEF Present, Runnable
<1>2. TypeOK
  <2>1. ctx \in [Tids -> Contexts]
    BY DEF Contexts, Points
  <2>2. waited \in [tid : Tids \cup {NoTid}, status : Int]
    BY SMT DEF NoWait
  <2>3. children \in [Tids -> Seq(Tids)]
    BY SMT
  <2>4. bootLeft \in 0 .. BootPrograms
    BY BootAssumption, SMT
  <2> QED BY <2>1, <2>2, <2>3, <2>4 DEF TypeOK, Statuses, Points, KernelPoints
<1>3. HartInv /\ TickInv /\ SatpLive
  BY DEF HartInv, TickInv, SatpLive
<1>4. TableInv
  BY <1>0, <1>1 DEF TableInv
<1>5. ChildrenAreMine /\ ChildrenOnce
  BY <1>0 DEF ChildrenAreMine, ChildrenOnce
<1>6. ChildrenListed /\ ResumesWhereItLeft /\ ContextOwnsSpace
  BY <1>1 DEF ChildrenListed, ResumesWhereItLeft, ContextOwnsSpace
<1> QED BY <1>2, <1>3, <1>4, <1>5, <1>6 DEF IInv

\* IInv is inductive: no step of boot, of the scheduler, of a timer tick or
\* of a system call breaks it.
THEOREM Inductive == Spec => []IInv
<1>1. IInv /\ [Next]_vars => IInv'
  <2> SUFFICES ASSUME IInv, [Next]_vars PROVE IInv'
    OBVIOUS
  <2>1. TypeOK'
    BY TypeStep DEF IInv
  <2>2. HartInv' /\ TickInv' /\ TableInv' /\ TreeInv' /\ SatpLive' /\ ResumesWhereItLeft'
    BY HartStep, TickStep, TableStep, TreeStep, SatpStep, ResumeStep
  <2>3. ContextOwnsSpace'
    BY RootsStep, ContextStep DEF DistinctRoots, OwnContexts, ContextOwnsSpace
  <2> QED BY <2>1, <2>2, <2>3 DEF IInv, TreeInv
<1> QED BY <1>1, InitIInv, PTL DEF Spec

\* Every field of the task table, the scheduler and the hart has its type.
THEOREM TypeCorrect == Spec => []TypeOK
<1>1. IInv => TypeOK
  BY DEF IInv
<1> QED BY <1>1, Inductive, PTL

\* The process tree stays a tree through boot, clone and exit's reparenting.
THEOREM TreeTheorem == Spec => []FamilyTree
<1>1. IInv => FamilyTree
  BY DEF IInv, FamilyTree, TableInv
<1> QED BY <1>1, Inductive, PTL

\* execve never leaves the hart on a root page table that has been freed, and
\* the hart is in the current task's space whenever it is in user mode.
THEOREM SatpTheorem == Spec => []SatpLive
<1>1. IInv => SatpLive
  BY DEF IInv
<1> QED BY <1>1, Inductive, PTL

\* fork, execve and preemption give each task a context for its own space.
THEOREM ContextTheorem == Spec => []ContextOwnsSpace
<1>1. IInv => ContextOwnsSpace
  BY DEF IInv
<1> QED BY <1>1, Inductive, PTL

\* A runnable task goes on where its program stopped.
THEOREM ResumeTheorem == Spec => []ResumesWhereItLeft
<1>1. IInv => ResumesWhereItLeft
  BY DEF IInv
<1> QED BY <1>1, Inductive, PTL

\* No TID is lost after boot, whether a clone succeeds or fails.
THEOREM TidsTheorem == Spec => TidsAccounted
<1>1. IInv /\ [Next]_vars => [kpc # "boot" => free' \cup Present' = free \cup Present]_vars
  <2> SUFFICES ASSUME IInv, [Next]_vars, kpc # "boot"
               PROVE  free' \cup Present' = free \cup Present
    OBVIOUS
  <2>0. TypeOK /\ HartInv
    BY DEF IInv
  <2>a. ASSUME UNCHANGED free,
               \A t \in Tids : status'[t] = "Absent" <=> status[t] = "Absent"
        PROVE  free' \cup Present' = free \cup Present
    BY <2>a DEF Present
  <2>1. CASE clone_task
    <3>1. alloc_tid \in free /\ alloc_tid \in Tids
      BY <2>0, <2>1, AllocTidIsFree DEF clone_task
    <3>2. \A u \in Tids : status'[u] = IF u = alloc_tid THEN "Running" ELSE status[u]
      BY <2>0, <2>1 DEF clone_task, Add, TypeOK
    <3>3. free' = free \ {alloc_tid}
      BY <2>1 DEF clone_task
    <3>4. Present' = Present \cup {alloc_tid}
      BY <3>1, <3>2 DEF Present
    <3> QED BY <3>1, <3>3, <3>4
  <2>2. CASE clone_task_fails
    <3>1. alloc_tid \in free
      BY <2>0, <2>2, AllocTidIsFree DEF clone_task_fails
    <3> QED BY <2>2, <2>a, <3>1 DEF clone_task_fails, TidsAfterFailedClone, tableVars
  <2>3. CASE wait4_blocking \/ execve_loads
    <3>1. current \in Tids /\ status[current] = "Running"
      BY <2>0, <2>3 DEF wait4_blocking, execve_loads, HartInv
    <3>2. \A t \in Tids : status'[t] = "Absent" <=> status[t] = "Absent"
      BY <2>0, <2>3, <3>1 DEF wait4_blocking, execve_loads, TypeOK
    <3> QED BY <2>3, <2>a, <3>2 DEF wait4_blocking, execve_loads
  <2>4. ASSUME NEW code \in ExitCodes, exit(code)
        PROVE  free' \cup Present' = free \cup Present
    <3>1. current \in Tids /\ status[current] = "Running"
      BY <2>0, <2>4 DEF exit, HartInv
    <3>2. \A t \in Tids : status'[t] = "Absent" <=> status[t] = "Absent"
      BY <2>0, <2>4, <3>1 DEF exit, TypeOK
    <3> QED BY <2>4, <2>a, <3>2 DEF exit
  <2>5. CASE \/ SwitchPanics \/ select_next \/ restore_context \/ OtherSyscall
             \/ execve_start \/ execve_fails \/ Stops \/ TimerInterrupt
             \/ KernelTimerInterrupt \/ SwitchSpins \/ StaysHalted \/ UNCHANGED vars
    BY <2>5, <2>a DEF SwitchPanics, select_next, restore_context, OtherSyscall,
         execve_start, execve_fails, Stops, TimerInterrupt, KernelTimerInterrupt,
         SwitchSpins, StaysHalted, vars, tableVars
  <2>6. ASSUME NEW target \in Tids \cup {NoTid}, wait4_nohang(target)
        PROVE  free' \cup Present' = free \cup Present
    BY <2>6, <2>a DEF wait4_nohang, tableVars
  <2>7. ~ Boot
    BY DEF Boot, BootExec, BootLoadFails, BootSkips, BootPanics, BootDone
  <2> QED BY <2>1, <2>2, <2>3, <2>4, <2>5, <2>6, <2>7
          DEF Next, Scheduler, Syscall, ExecveEnds
<1> QED BY <1>1, Inductive, PTL DEF Spec, TidsAccounted

\* The children list that wait4 scans holds all there is to report.
LEMMA ScanFindsDead ==
  ASSUME IInv, current \in Tids, status[current] # "Absent",
         NEW target \in Tids \cup {NoTid}
  PROVE  LET found == find_zombie_child(current, target)
             dead == {c \in Present \ {1} : /\ ParentOf(c) = current
                                            /\ status[c] = "Zombie"
                                            /\ target \in {NoTid, c}}
         IN  IF dead = {} THEN found = NoTid ELSE found \in dead
<1> DEFINE list == children[current]
           hits == {i \in DOMAIN list :
                      /\ status[list[i]] = "Zombie"
                      /\ target # NoTid => list[i] = target
                      /\ target = NoTid =>
                           \A j \in 1 .. (i - 1) : status[list[j]] # "Absent"}
           dead == {c \in Present \ {1} : /\ ParentOf(c) = current
                                          /\ status[c] = "Zombie"
                                          /\ target \in {NoTid, c}}
<1>0. TypeOK /\ ChildrenAreMine /\ ChildrenListed
  BY DEF IInv
<1>1. list \in Seq(Tids) /\ DOMAIN list = 1 .. Len(list) /\ Len(list) \in Nat
  BY <1>0, SMT DEF TypeOK
<1>2. \A i \in DOMAIN list : /\ list[i] \in Tids /\ list[i] # 1
                             /\ status[list[i]] # "Absent" /\ ParentOf(list[i]) = current
  BY <1>0, <1>1, SMT DEF ChildrenAreMine
<1>3. \A i \in DOMAIN list : \A j \in 1 .. (i - 1) : j \in DOMAIN list
  BY <1>1, SMT
<1>4. \A c \in dead : \E i \in hits : list[i] = c
  <2> SUFFICES ASSUME NEW c \in dead PROVE \E i \in hits : list[i] = c
    OBVIOUS
  <2>1. PICK i \in DOMAIN list : list[i] = c
    BY <1>0 DEF ChildrenListed
  <2>2. i \in hits
    BY <1>2, <1>3, <2>1
  <2> QED BY <2>1, <2>2
<1>5. \A i \in hits : list[i] \in dead
  BY <1>2 DEF Present
<1>6. hits # {} => Min(hits) \in hits
  <2>1. hits \in SUBSET Nat
    BY <1>1, SMT
  <2> HIDE DEF hits
  <2> QED BY <2>1, MinIsMember
<1>7. find_zombie_child(current, target) = IF hits = {} THEN NoTid ELSE list[Min(hits)]
  BY DEF find_zombie_child
<1> HIDE DEF hits, dead, list
<1>8. IF dead = {} THEN find_zombie_child(current, target) = NoTid
      ELSE find_zombie_child(current, target) \in dead
  BY <1>4, <1>5, <1>6, <1>7
<1> QED BY <1>8 DEF dead

\* wait4 with WNOHANG reports a dead child exactly when the caller has one,
\* and with that child's exit status.
THEOREM WaitTheorem == Spec => WaitReportsChild
<1> DEFINE Reports(target) ==
      LET dead == {c \in Present \ {1} :
                     /\ ParentOf(c) = current
                     /\ status[c] = "Zombie"
                     /\ target \in {NoTid, c}}
      IN  IF dead = {} THEN waited'.tid = NoTid
          ELSE /\ waited'.tid \in dead
               /\ waited'.status = WaitStatus(exit_code[waited'.tid])
<1>1. IInv /\ [Next]_vars =>
        [\A target \in Tids \cup {NoTid} : wait4_nohang(target) => Reports(target)]_vars
  <2> SUFFICES ASSUME IInv, NEW target \in Tids \cup {NoTid}, wait4_nohang(target)
               PROVE  Reports(target)
    OBVIOUS
  <2> DEFINE found == find_zombie_child(current, target)
             dead == {c \in Present \ {1} : /\ ParentOf(c) = current
                                            /\ status[c] = "Zombie"
                                            /\ target \in {NoTid, c}}
  <2>1. current \in Tids /\ status[current] # "Absent"
    BY DEF IInv, HartInv, wait4_nohang
  <2>2. IF dead = {} THEN found = NoTid ELSE found \in dead
    BY <2>1, ScanFindsDead
  <2>3. NoTid \notin dead
    BY SMT DEF Present, Tids, NoTid
  <2>4. waited' = [tid |-> found,
                   status |-> IF found = NoTid THEN 0 ELSE WaitStatus(exit_code[found])]
    BY DEF wait4_nohang
  <2> HIDE DEF found
  <2>5. /\ waited'.tid = found
        /\ found # NoTid => waited'.status = WaitStatus(exit_code[waited'.tid])
    BY <2>4
  <2> HIDE DEF dead
  <2>6. IF dead = {} THEN waited'.tid = NoTid
        ELSE /\ waited'.tid \in dead
             /\ waited'.status = WaitStatus(exit_code[waited'.tid])
    BY <2>2, <2>3, <2>5
  <2> QED BY <2>6 DEF dead
<1> QED BY <1>1, Inductive, PTL DEF Spec, WaitReportsChild

=============================================================================
