------------------------------- MODULE Tasks -------------------------------
(***************************************************************************)
(* The life cycle of tasks on the single hart that athera boots: the task  *)
(* table with its process tree and round-robin cursor (src/task.rs), the   *)
(* scheduler (src/task/scheduler.rs), exit, wait4, clone and execve        *)
(* (src/task/process.rs, src/task.rs, src/task/exec.rs), the trap handler  *)
(* that calls them (src/arch/riscv64/trap.rs), the address-space manager's *)
(* table of root page tables (src/mm/page_table.rs) and the boot sequence  *)
(* (src/main.rs).                                                          *)
(*                                                                         *)
(* Inside a trap the hart runs with interrupts off, so a system call is    *)
(* one action, except that execve and the scheduler are cut where satp or  *)
(* the interrupt state changes.  A program is abstracted to two points     *)
(* between which every returning system call alternates; a root page table *)
(* is an identity.                                                         *)
(***************************************************************************)
EXTENDS Integers, Sequences, FiniteSetsExt

CONSTANTS TID_MAX,       \* src/constants/task.rs: TIDs are 1 .. TID_MAX - 1
          BootPrograms,  \* number of programs main starts
          Roots,         \* the frames a user root page table can be in
          KernelRoot,    \* root of the kernel address space
          NoRoot,
          ExitCodes

ASSUME TidMaxAssumption == TID_MAX \in Nat /\ TID_MAX > 1
ASSUME BootAssumption == BootPrograms \in Nat
ASSUME RootsAssumption == KernelRoot \notin Roots /\ NoRoot \notin Roots \cup {KernelRoot}
ASSUME CodesAssumption == ExitCodes \subseteq Int

Tids == 1 .. (TID_MAX - 1)
NoTid == 0
Points == {0, 1}
After(p) == 1 - p

VARIABLES
  free,       \* TID_ALLOCATOR: the ids that can be handed out
  status,     \* Task.status; "Absent" when the TID is not in Tasks.map
  parent,     \* Task.parent
  children,   \* Task.children
  exit_code,  \* Task.exit_code
  ctx,        \* Task.trap_context
  cursor,     \* Tasks.cursor
  current,    \* CURRENT_TASK of hart 0
  space,      \* AddressSpaceManager.user: the root of each user address space
  held,       \* execve_into's old_space, taken out of the manager
  satp,       \* the root the hart translates through
  sepc,       \* where the task on the hart is in its program
  sie,        \* sstatus.SIE while the kernel runs
  kpc,        \* what the hart executes
  bootLeft,   \* boot programs still to start
  waited,     \* what the wait4 that has just returned reported
  left        \* history: where each task's program stopped

tableVars == <<status, parent, children, exit_code, ctx>>
hartVars == <<satp, sepc, sie, kpc>>
vars == <<free, status, parent, children, exit_code, ctx, cursor, current,
          space, held, satp, sepc, sie, kpc, bootLeft, waited, left>>

NoWait == [tid |-> NoTid, status |-> 0]

Statuses == {"Absent", "Running", "Waiting", "Zombie"}

Contexts == [mode : {"U", "S"}, satp : Roots \cup {KernelRoot}, pc : Points]

KernelPoints == {"boot", "select", "restore", "user", "exec",
                 "panic", "off", "lost"}

-----------------------------------------------------------------------------
(* The task table *)

Present == {t \in Tids : status[t] # "Absent"}
Runnable == {t \in Tids : status[t] = "Running"}
FreeRoots == Roots \ ({space[t] : t \in Tids} \cup {held})

alloc_tid == Min(free)

\* Mutant: load_elf forgets satp.
EntryContextWithoutSatp(r) == [mode |-> "U", satp |-> NoRoot, pc |-> 0]

EntryContext(r) == [mode |-> "U", satp |-> r, pc |-> 0]

\* Tasks::add: the new task goes to the end of its parent's children, init's
\* when it has no parent, and to nobody's when that task is not in the table.
AddedChildren(t, p) ==
  LET q == IF p = NoTid THEN 1 ELSE p
  IN  [children EXCEPT ![q] = IF status[q] = "Absent" THEN @ ELSE Append(@, t),
                       ![t] = <<>>]

Add(t, p, context) ==
  /\ children' = AddedChildren(t, p)
  /\ status' = [status EXCEPT ![t] = "Running"]
  /\ parent' = [parent EXCEPT ![t] = p]
  /\ exit_code' = [exit_code EXCEPT ![t] = 0]
  /\ ctx' = [ctx EXCEPT ![t] = context]
  /\ left' = [left EXCEPT ![t] = context.pc]

\* Mutant: always from the start of the table.
NextTidFromStart == Min(Runnable)

\* The first runnable task after the cursor, or the first one from the start.
NextTid ==
  LET later == {t \in Runnable : t > cursor}
  IN  IF later # {} THEN Min(later) ELSE Min(Runnable)

-----------------------------------------------------------------------------
(* Boot: main starts the programs one after the other, then the timer. *)

\* exec_buffer succeeds.
BootExec ==
  /\ kpc = "boot" /\ bootLeft > 0 /\ free # {}
  /\ \E r \in FreeRoots :
       /\ space' = [space EXCEPT ![alloc_tid] = r]
       /\ Add(alloc_tid, NoTid, EntryContext(r))
  /\ free' = free \ {alloc_tid}
  /\ bootLeft' = bootLeft - 1
  /\ UNCHANGED <<cursor, current, held, hartVars, waited>>

\* load_elf fails after alloc, before or after it registered an address
\* space; kernel_execve logs the error and boot goes on without the task.
BootLoadFails ==
  /\ kpc = "boot" /\ bootLeft > 0 /\ free # {}
  /\ \/ UNCHANGED space
     \/ \E r \in FreeRoots : space' = [space EXCEPT ![alloc_tid] = r]
  /\ free' = free \ {alloc_tid}
  /\ bootLeft' = bootLeft - 1
  /\ UNCHANGED <<tableVars, cursor, current, held, hartVars, waited, left>>

\* read_file fails, or there is no TID left: logged, and nothing is created.
BootSkips ==
  /\ kpc = "boot" /\ bootLeft > 0
  /\ bootLeft' = bootLeft - 1
  /\ UNCHANGED <<free, tableVars, cursor, current, space, held, hartVars,
                 waited, left>>

\* route(...).unwrap() on a program that binfmt refuses.
BootPanics ==
  /\ kpc = "boot" /\ bootLeft > 0
  /\ kpc' = "panic"
  /\ UNCHANGED <<free, tableVars, cursor, current, space, held, satp, sepc,
                 sie, bootLeft, waited, left>>

\* The timer is armed and sstatus.SIE set; main calls switch.
BootDone ==
  /\ kpc = "boot" /\ bootLeft = 0
  /\ kpc' = "select"
  /\ sie' = TRUE
  /\ UNCHANGED <<free, tableVars, cursor, current, space, held, satp, sepc,
                 bootLeft, waited, left>>

-----------------------------------------------------------------------------
(* The scheduler *)

\* An empty task table: switch goes round its loop.
SwitchSpins ==
  /\ kpc = "select" /\ Present = {}
  /\ UNCHANGED vars

\* select_next finds nobody and its result is unwrapped.
SwitchPanics ==
  /\ kpc = "select" /\ Present # {} /\ Runnable = {}
  /\ kpc' = "panic"
  /\ UNCHANGED <<free, tableVars, cursor, current, space, held, satp, sepc,
                 sie, bootLeft, waited, left>>

select_next ==
  /\ kpc = "select" /\ Runnable # {}
  /\ cursor' = NextTid
  /\ current' = NextTid
  /\ kpc' = "restore"
  /\ waited' = NoWait
  /\ UNCHANGED <<free, tableVars, space, held, satp, sepc, sie, bootLeft, left>>

\* sret to where the context says.  A context that was saved in the kernel
\* resumes kernel code on a stack that has been reused since: nothing is
\* known of the hart after that.
restore_context ==
  /\ kpc = "restore"
  /\ satp' = ctx[current].satp
  /\ sie' = FALSE
  /\ IF ctx[current].mode = "U"
     THEN kpc' = "user" /\ sepc' = ctx[current].pc
     ELSE kpc' = "lost" /\ UNCHANGED sepc
  /\ UNCHANGED <<free, tableVars, cursor, current, space, held, bootLeft,
                 waited, left>>

\* Mutant: nothing is saved.
SavedContextStale == ctx[current]

\* save_current: the trap frame and the trap's CSRs.
SavedContext == [mode |-> "U", satp |-> satp, pc |-> sepc]

\* save_current, re-arming the timer and switch, for a tick in user mode.
TimerInterrupt ==
  /\ kpc = "user"
  /\ ctx' = [ctx EXCEPT ![current] = SavedContext]
  /\ left' = [left EXCEPT ![current] = sepc]
  /\ kpc' = "select"
  /\ waited' = NoWait
  /\ UNCHANGED <<free, status, parent, children, exit_code, cursor, current,
                 space, held, satp, sepc, sie, bootLeft>>

\* The same handler for a tick that arrives in the kernel, which only the
\* switch that main calls allows: before its lock is taken and after the lock
\* is dropped, up to restore_context's write of sstatus.
KernelTimerInterrupt ==
  /\ sie /\ kpc \in {"select", "restore"}
  /\ ctx' = IF current = NoTid THEN ctx
            ELSE [ctx EXCEPT ![current] = [mode |-> "S", satp |-> satp, pc |-> 0]]
  /\ kpc' = "select"
  /\ sie' = FALSE
  /\ UNCHANGED <<free, status, parent, children, exit_code, cursor, current,
                 space, held, satp, sepc, bootLeft, waited, left>>

-----------------------------------------------------------------------------
(* System calls of the task on the hart *)

\* The trap frame's sepc moves past the ecall and the task goes on.
ReturnToUser ==
  /\ sepc' = After(sepc)
  /\ UNCHANGED <<satp, sie, kpc>>

\* SyscallResult::Yield: switch without save_current.
Yield ==
  /\ kpc' = "select"
  /\ left' = [left EXCEPT ![current] = sepc]
  /\ UNCHANGED <<satp, sepc, sie>>

\* Every system call that leaves this module's state alone (read, write,
\* mmap, munmap, mremap, a refused reboot, an unknown number, an execve whose
\* arguments or file are bad) and a breakpoint.
OtherSyscall ==
  /\ kpc = "user"
  /\ ReturnToUser
  /\ waited' = NoWait
  /\ UNCHANGED <<free, tableVars, cursor, current, space, held, bootLeft, left>>

\* Mutant: exit copies the children without clearing the list.
OrphansNotCleared ==
  [children EXCEPT ![1] = IF status[1] = "Absent" THEN @
                          ELSE @ \o children[current]]

\* exit hands the children of the task to init, if there is one.
Orphans ==
  [children EXCEPT ![current] = <<>>,
                   ![1] = IF status[1] = "Absent" THEN @
                          ELSE @ \o children[current]]

exit(code) ==
  /\ kpc = "user"
  /\ waited' = NoWait
  /\ UNCHANGED <<free, parent, ctx, cursor, current, space, held, bootLeft>>
  /\ \/ /\ current = 1
        /\ kpc' = "panic"
        /\ UNCHANGED <<status, children, exit_code, satp, sepc, sie, left>>
     \/ /\ current # 1
        /\ status' = [status EXCEPT ![current] = "Zombie"]
        /\ exit_code' = [exit_code EXCEPT ![current] = code]
        /\ children' = Orphans
        /\ Yield

\* Mutant: only the oldest child is looked at.
find_zombie_child_oldest(p, target) ==
  LET list == children[p]
  IN  IF /\ list # <<>>
         /\ status[list[1]] = "Zombie"
         /\ target \in {NoTid, list[1]}
      THEN list[1] ELSE NoTid

\* The first zombie in the list, or the target if it is listed and a zombie;
\* NoTid when there is none.  The scan gives up at an entry that is not in
\* the table.
find_zombie_child(p, target) ==
  LET list == children[p]
      hits == {i \in DOMAIN list :
                 /\ status[list[i]] = "Zombie"
                 /\ target # NoTid => list[i] = target
                 /\ target = NoTid =>
                      \A j \in 1 .. (i - 1) : status[list[j]] # "Absent"}
  IN  IF hits = {} THEN NoTid ELSE list[Min(hits)]

WaitStatus(code) == (code % 256) * 256

wait4_nohang(target) ==
  LET found == find_zombie_child(current, target)
  IN  /\ kpc = "user"
      /\ waited' = [tid |-> found,
                    status |-> IF found = NoTid THEN 0
                               ELSE WaitStatus(exit_code[found])]
      /\ ReturnToUser
      /\ UNCHANGED <<free, tableVars, cursor, current, space, held, bootLeft,
                     left>>

\* Without WNOHANG the caller waits, whether or not a child is a zombie.
wait4_blocking ==
  /\ kpc = "user"
  /\ status' = [status EXCEPT ![current] = "Waiting"]
  /\ Yield
  /\ waited' = NoWait
  /\ UNCHANGED <<free, parent, children, exit_code, ctx, cursor, current,
                 space, held, bootLeft>>

\* Mutant: the child keeps the parent's satp.
clone_child_shared(r) ==
  [mode |-> ctx[current].mode, satp |-> satp, pc |-> After(sepc)]

\* TrapContext::clone_child: the saved sstatus, the child's root, and the
\* instruction after the ecall.
clone_child(r) ==
  [mode |-> ctx[current].mode, satp |-> r, pc |-> After(sepc)]

\* clone: the child resumes after the ecall in its own copy of the space.
clone_task ==
  /\ kpc = "user" /\ free # {}
  /\ \E r \in FreeRoots :
       /\ space' = [space EXCEPT ![alloc_tid] = r]
       /\ Add(alloc_tid, current, clone_child(r))
  /\ free' = free \ {alloc_tid}
  /\ ReturnToUser
  /\ waited' = NoWait
  /\ UNCHANGED <<cursor, current, held, bootLeft>>

\* Mutant: the TID of a failed clone is not given back.
TidsAfterFailedCloneLeak == free \ {alloc_tid}

\* alloc_tid and then dealloc_tid of the same TID.
TidsAfterFailedClone == (free \ {alloc_tid}) \cup {alloc_tid}

\* Out of memory while cloning: the TID is given back, and an address space
\* that was already registered under it stays in the manager.
clone_task_fails ==
  /\ kpc = "user" /\ free # {}
  /\ \/ UNCHANGED space
     \/ \E r \in FreeRoots : space' = [space EXCEPT ![alloc_tid] = r]
  /\ free' = TidsAfterFailedClone
  /\ ReturnToUser
  /\ waited' = NoWait
  /\ UNCHANGED <<tableVars, cursor, current, held, bootLeft, left>>

\* Mutant: the hart stays on the root that execve is about to free.
ExecveRootUnswitched == satp

\* activate(Kernel): what the hart translates through while execve rebuilds.
ExecveRoot == KernelRoot

\* execve_into: the hart goes to the kernel root, then the old space is taken
\* out of the manager and kept.
execve_start ==
  /\ kpc = "user"
  /\ satp' = ExecveRoot
  /\ held' = space[current]
  /\ space' = [space EXCEPT ![current] = NoRoot]
  /\ kpc' = "exec"
  /\ waited' = NoWait
  /\ UNCHANGED <<free, tableVars, cursor, current, sepc, sie, bootLeft, left>>

\* load_elf fails: the old space goes back, over a half-built new one.
execve_fails ==
  /\ kpc = "exec"
  /\ space' = [space EXCEPT ![current] = held]
  /\ satp' = held
  /\ held' = NoRoot
  /\ sepc' = After(sepc)
  /\ kpc' = "user"
  /\ UNCHANGED <<free, tableVars, cursor, current, sie, bootLeft, waited, left>>

\* load_elf succeeds: memory set and context are replaced, the old space is
\* dropped when execve_into returns, and the task yields.
execve_loads ==
  /\ kpc = "exec"
  /\ \E r \in FreeRoots :
       /\ space' = [space EXCEPT ![current] = r]
       /\ ctx' = [ctx EXCEPT ![current] = EntryContext(r)]
  /\ status' = [status EXCEPT ![current] = "Running"]
  /\ left' = [left EXCEPT ![current] = 0]
  /\ held' = NoRoot
  /\ kpc' = "select"
  /\ UNCHANGED <<free, parent, children, exit_code, cursor, current, satp,
                 sepc, sie, bootLeft, waited>>

\* Faults and reboot: a shutdown, or a loop with interrupts off.
Stops ==
  /\ kpc = "user"
  /\ kpc' = "off"
  /\ UNCHANGED <<free, tableVars, cursor, current, space, held, satp, sepc,
                 sie, bootLeft, waited, left>>

\* After a shutdown, a panic or an unhandled trap nothing happens any more.
Halted == kpc \in {"panic", "off", "lost"}

StaysHalted == Halted /\ UNCHANGED vars

-----------------------------------------------------------------------------
Init ==
  /\ free = Tids
  /\ status = [t \in Tids |-> "Absent"]
  /\ parent = [t \in Tids |-> NoTid]
  /\ children = [t \in Tids |-> <<>>]
  /\ exit_code = [t \in Tids |-> 0]
  /\ ctx = [t \in Tids |-> [mode |-> "U", satp |-> KernelRoot, pc |-> 0]]
  /\ cursor = NoTid
  /\ current = NoTid
  /\ space = [t \in Tids |-> NoRoot]
  /\ held = NoRoot
  /\ satp = KernelRoot
  /\ sepc = 0
  /\ sie = FALSE
  /\ kpc = "boot"
  /\ bootLeft = BootPrograms
  /\ waited = NoWait
  /\ left = [t \in Tids |-> 0]

Boot == BootExec \/ BootLoadFails \/ BootSkips \/ BootPanics \/ BootDone

Scheduler == SwitchSpins \/ SwitchPanics \/ select_next \/ restore_context

Syscall ==
  \/ OtherSyscall
  \/ \E code \in ExitCodes : exit(code)
  \/ \E target \in Tids \cup {NoTid} : wait4_nohang(target)
  \/ wait4_blocking
  \/ clone_task
  \/ clone_task_fails
  \/ execve_start

ExecveEnds == execve_fails \/ execve_loads

Next ==
  \/ Boot
  \/ Scheduler
  \/ TimerInterrupt
  \/ KernelTimerInterrupt
  \/ Syscall
  \/ ExecveEnds
  \/ Stops
  \/ StaysHalted

Spec == Init /\ [][Next]_vars

\* The kernel's own code runs on, and a timer tick is taken as soon as the
\* hart is back in user mode, however often the task enters the kernel.
Fairness ==
  /\ WF_vars(Boot)
  /\ WF_vars(Scheduler)
  /\ WF_vars(ExecveEnds)
  /\ SF_vars(TimerInterrupt)

FairSpec == Spec /\ Fairness

-----------------------------------------------------------------------------
(* Properties *)

\* Every field of the task table, the scheduler and the hart has its type.
TypeOK ==
  /\ free \subseteq Tids
  /\ status \in [Tids -> Statuses]
  /\ parent \in [Tids -> Tids \cup {NoTid}]
  /\ children \in [Tids -> Seq(Tids)]
  /\ exit_code \in [Tids -> ExitCodes \cup {0}]
  /\ ctx \in [Tids -> Contexts]
  /\ cursor \in Tids \cup {NoTid}
  /\ current \in Tids \cup {NoTid}
  /\ space \in [Tids -> Roots \cup {NoRoot}]
  /\ held \in Roots \cup {NoRoot}
  /\ satp \in Roots \cup {KernelRoot}
  /\ sepc \in Points
  /\ sie \in BOOLEAN
  /\ kpc \in KernelPoints
  /\ bootLeft \in 0 .. BootPrograms
  /\ waited \in [tid : Tids \cup {NoTid}, status : Int]
  /\ left \in [Tids -> Points]

\* Whose child t is: its creator's while that lives, and then init's.
\* exit leaves Task.parent of the orphans as it was.
ParentOf(t) ==
  IF parent[t] = NoTid THEN 1
  ELSE IF status[parent[t]] = "Zombie" THEN 1 ELSE parent[t]

\* A children list names tasks of the table whose parent the owner is.
ChildrenAreMine ==
  \A p \in Tids : \A i \in DOMAIN children[p] :
    LET c == children[p][i]
    IN  c # 1 /\ status[c] # "Absent" /\ ParentOf(c) = p

\* No list names a task twice.
ChildrenOnce ==
  \A p \in Tids : \A i, j \in DOMAIN children[p] :
    children[p][i] = children[p][j] => i = j

\* A task is in the list of its parent, when that is in the table.
ChildrenListed ==
  \A t \in Present \ {1} :
    status[ParentOf(t)] # "Absent" =>
      \E i \in DOMAIN children[ParentOf(t)] : children[ParentOf(t)][i] = t

\* The process tree stays a tree through clone, exit and boot: every task but
\* init is in exactly one children list, once, namely in that of the task
\* which wait4 must report it to, and a task in the table has no free TID.
\* (Tasks::add, exit's reparenting.)
FamilyTree ==
  /\ ChildrenAreMine
  /\ ChildrenOnce
  /\ ChildrenListed
  /\ free \cap Present = {}

\* The hart never translates through a root page table that has been given
\* back, and in user mode it is in the space of the current task: the order
\* of activate, remove_user, insert_user and drop in execve_into.
SatpLive ==
  /\ satp = KernelRoot \/ satp = held \/ \E t \in Tids : space[t] = satp
  /\ kpc = "user" => satp = space[current]

RootOf(t) == IF kpc = "exec" /\ t = current THEN held ELSE space[t]

\* No two address spaces share a root, and a user context that is waiting in
\* the table restores the space of its own task (fork, execve and preemption
\* all write Task.trap_context.satp).
ContextOwnsSpace ==
  /\ \A t \in Present :
       /\ RootOf(t) \in Roots
       /\ ctx[t].mode = "U" => ctx[t].satp = RootOf(t)
  /\ \A t, u \in Tids : t # u /\ space[t] # NoRoot => space[t] # space[u]
  /\ held # NoRoot => \A t \in Tids : space[t] # held

\* A runnable task that is not on the hart goes on where its program stopped,
\* whatever made it leave the hart (save_current, clone_child, load_elf).
ResumesWhereItLeft ==
  \A t \in Runnable :
    ctx[t].mode = "U" /\ (t # current \/ kpc \in {"boot", "select", "restore"})
      => ctx[t].pc = left[t]

\* Once boot is over a TID is free or names a task for ever: neither a clone
\* that succeeds nor one that fails half-way loses one (clone_task).
TidsAccounted ==
  [][kpc # "boot" => free' \cup Present' = free \cup Present]_vars

\* wait4 with WNOHANG reports a dead child of the caller, the target when one
\* is named, with its exit status; and NoTid only if there is none.
WaitReportsChild ==
  [][\A target \in Tids \cup {NoTid} :
       wait4_nohang(target) =>
         LET dead == {c \in Present \ {1} :
                        /\ ParentOf(c) = current
                        /\ status[c] = "Zombie"
                        /\ target \in {NoTid, c}}
         IN  IF dead = {} THEN waited'.tid = NoTid
             ELSE /\ waited'.tid \in dead
                  /\ waited'.status = WaitStatus(exit_code[waited'.tid])]_vars

\* Round robin starves nobody: a runnable task gets the hart, unless the
\* machine stops first (select_next and the timer).
RunnableRuns ==
  \A t \in Tids :
    status[t] = "Running" ~> (kpc = "user" /\ current = t) \/ Halted

\* What the comment on TrapContext says of Task.trap_context: it is a
\* user-mode trap context.
UserContexts == \A t \in Present : ctx[t].mode = "U"

=============================================================================
