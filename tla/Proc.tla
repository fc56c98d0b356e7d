-------------------------------- MODULE Proc --------------------------------
(***************************************************************************)
(* The life of a process (proc.c): fork, exit, wait and kill on a machine  *)
(* with several CPUs, with ptable.lock held across the context switch.     *)
(*                                                                         *)
(* A critical section of ptable.lock that does not switch is one step.     *)
(* sched() and scheduler() hand the lock over with the CPU, so there the   *)
(* lock is explicit: `lock' is the CPU that holds it and `on' the kernel   *)
(* stack each CPU is executing on.  The timer may preempt a process        *)
(* wherever it holds no lock.  Which RUNNABLE process scheduler() picks is *)
(* left open here; module Mlfq models that choice.                         *)
(***************************************************************************)
EXTENDS Integers

CONSTANTS
    NPROC,    \* slots of ptable
    CPUs,
    MaxPid    \* bound on nextpid

ASSUME NPROCAssumption == NPROC \in Nat \ {0}
ASSUME MaxPidAssumption == MaxPid \in Nat \ {0}

Slots == 1 .. NPROC
NoProc == 0
Free == "free"
ASSUME CPUsAssumption == Free \notin CPUs

InitProc == 1

VARIABLES
    state,    \* p->state
    pid,      \* p->pid
    parent,   \* p->parent
    killed,   \* p->killed
    kstack,   \* is p->kstack allocated?
    pc,       \* where the kernel thread of each slot is
    child,    \* the np of a fork() in progress
    nextpid,
    lock,     \* holder of ptable.lock
    on        \* the kernel stack a CPU runs on, NoProc in scheduler()

vars == <<state, pid, parent, killed, kstack, pc, child, nextpid, lock, on>>

Places == {"user", "alloc", "copy", "publish", "exit", "scan"}

TypeOK ==
    /\ state \in [Slots -> {"UNUSED", "EMBRYO", "SLEEPING", "RUNNABLE",
                            "RUNNING", "ZOMBIE"}]
    /\ pid \in [Slots -> 0 .. MaxPid]
    /\ parent \in [Slots -> Slots \cup {NoProc}]
    /\ killed \in [Slots -> BOOLEAN]
    /\ kstack \in [Slots -> BOOLEAN]
    /\ pc \in [Slots -> Places]
    /\ child \in [Slots -> Slots \cup {NoProc}]
    /\ nextpid \in 1 .. MaxPid + 1
    /\ lock \in CPUs \cup {Free}
    /\ on \in [CPUs -> Slots \cup {NoProc}]

(* After userinit(): every CPU enters scheduler(). *)
Init ==
    /\ state = [s \in Slots |-> IF s = InitProc THEN "RUNNABLE" ELSE "UNUSED"]
    /\ pid = [s \in Slots |-> IF s = InitProc THEN 1 ELSE 0]
    /\ parent = [s \in Slots |-> NoProc]
    /\ killed = [s \in Slots |-> FALSE]
    /\ kstack = [s \in Slots |-> s = InitProc]
    /\ pc = [s \in Slots |-> "user"]
    /\ child = [s \in Slots |-> NoProc]
    /\ nextpid = 2
    /\ lock = Free
    /\ on = [c \in CPUs |-> NoProc]

-----------------------------------------------------------------------------
(* scheduler() takes ptable.lock at the top of its loop ... *)
SchedAcquire(c) ==
    /\ on[c] = NoProc
    /\ lock = Free
    /\ lock' = c
    /\ UNCHANGED <<state, pid, parent, killed, kstack, pc, child, nextpid, on>>

(* ... switches to a RUNNABLE process, which inherits the lock ... *)
SchedPick(c, s) ==
    /\ on[c] = NoProc
    /\ lock = c
    /\ state[s] = "RUNNABLE"
    /\ state' = [state EXCEPT ![s] = "RUNNING"]
    /\ on' = [on EXCEPT ![c] = s]
    /\ UNCHANGED <<pid, parent, killed, kstack, pc, child, nextpid, lock>>

(* ... and releases it before the next round. *)
SchedRelease(c) ==
    /\ on[c] = NoProc
    /\ lock = c
    /\ lock' = Free
    /\ UNCHANGED <<state, pid, parent, killed, kstack, pc, child, nextpid, on>>

(* The process on CPU c executes and does not hold ptable.lock. *)
Runs(c, s) == on[c] = s /\ lock # c

(* The same at the top of a trap from user space: killed processes do      *)
(* nothing but exit().                                                     *)
InUser(c, s) == Runs(c, s) /\ pc[s] = "user" /\ ~killed[s]

(* swtch() into the scheduler, from sched(). *)
SwitchOut(c) ==
    /\ on[c] # NoProc
    /\ lock = c
    /\ state[on[c]] # "RUNNING"
    /\ on' = [on EXCEPT ![c] = NoProc]
    /\ UNCHANGED <<state, pid, parent, killed, kstack, pc, child, nextpid, lock>>

(* The release() after sched() in yield(), and the one in forkret(). *)
Resume(c) ==
    /\ on[c] # NoProc
    /\ lock = c
    /\ state[on[c]] = "RUNNING"
    /\ pc[on[c]] # "scan"
    /\ lock' = Free
    /\ UNCHANGED <<state, pid, parent, killed, kstack, pc, child, nextpid, on>>

(* The timer interrupt calls yield(), in user or kernel mode. *)
Yield(c, s) ==
    /\ Runs(c, s)
    /\ lock = Free
    /\ lock' = c
    /\ state' = [state EXCEPT ![s] = "RUNNABLE"]
    /\ UNCHANGED <<pid, parent, killed, kstack, pc, child, nextpid, on>>

-----------------------------------------------------------------------------
(* fork(): allocproc() claims the first UNUSED slot. *)
AllocProc(c, s) ==
    /\ InUser(c, s)
    /\ lock = Free
    /\ nextpid <= MaxPid
    /\ \E n \in Slots :
         /\ state[n] = "UNUSED"
         /\ \A m \in Slots : state[m] = "UNUSED" => n <= m
         /\ state' = [state EXCEPT ![n] = "EMBRYO"]
         /\ pid' = [pid EXCEPT ![n] = nextpid]
         /\ child' = [child EXCEPT ![s] = n]
    /\ nextpid' = nextpid + 1
    /\ pc' = [pc EXCEPT ![s] = "alloc"]
    /\ UNCHANGED <<parent, killed, kstack, lock, on>>

(* The kernel stack, allocated without the lock. *)
AllocStack(c, s) ==
    /\ Runs(c, s)
    /\ pc[s] = "alloc"
    /\ kstack' = [kstack EXCEPT ![child[s]] = TRUE]
    /\ pc' = [pc EXCEPT ![s] = "copy"]
    /\ UNCHANGED <<state, pid, parent, killed, child, nextpid, lock, on>>

(* kalloc() or copyuvm() fails: the slot is given back, without the lock.  *)
(* Its pid stays behind.                                                   *)
ForkFail(c, s) ==
    /\ Runs(c, s)
    /\ pc[s] \in {"alloc", "copy"}
    /\ kstack' = [kstack EXCEPT ![child[s]] = FALSE]
    /\ state' = [state EXCEPT ![child[s]] = "UNUSED"]
    /\ child' = [child EXCEPT ![s] = NoProc]
    /\ pc' = [pc EXCEPT ![s] = "user"]
    /\ UNCHANGED <<pid, parent, killed, nextpid, lock, on>>

(* copyuvm(), the parent link, the open files. *)
CopyProc(c, s) ==
    /\ Runs(c, s)
    /\ pc[s] = "copy"
    /\ parent' = [parent EXCEPT ![child[s]] = s]
    /\ pc' = [pc EXCEPT ![s] = "publish"]
    /\ UNCHANGED <<state, pid, killed, kstack, child, nextpid, lock, on>>

(* The child becomes RUNNABLE; it starts in forkret(). *)
Publish(c, s) ==
    /\ Runs(c, s)
    /\ pc[s] = "publish"
    /\ lock = Free
    /\ state' = [state EXCEPT ![child[s]] = "RUNNABLE"]
    /\ pc' = [pc EXCEPT ![s] = "user", ![child[s]] = "user"]
    /\ child' = [child EXCEPT ![s] = NoProc]
    /\ UNCHANGED <<pid, parent, killed, kstack, nextpid, lock, on>>

-----------------------------------------------------------------------------
(* exit(): the call, or trap() for a killed process; files are closed. *)
ExitStart(c, s) ==
    /\ Runs(c, s)
    /\ pc[s] = "user"
    /\ s # InitProc
    /\ pc' = [pc EXCEPT ![s] = "exit"]
    /\ UNCHANGED <<state, pid, parent, killed, kstack, child, nextpid, lock, on>>

(* wakeup1() of the processes in W that sleep in wait(). *)
Wakened(f, W) ==
    [q \in Slots |-> IF q \in W /\ f[q] = "SLEEPING" THEN "RUNNABLE" ELSE f[q]]

MutToWakeParent(s) == {parent[s]}

(* Those exit() wakes: its parent, and init if it leaves zombies. *)
ToWake(s) ==
    {parent[s]} \cup
    {q \in {InitProc} : \E z \in Slots : parent[z] = s /\ state[z] = "ZOMBIE"}

MutReparentNone(s) == parent

(* Abandoned children go to init. *)
Reparented(s) == [q \in Slots |-> IF parent[q] = s THEN InitProc ELSE parent[q]]

(* The rest of exit(), up to sched(). *)
ExitZombie(c, s) ==
    /\ Runs(c, s)
    /\ pc[s] = "exit"
    /\ lock = Free
    /\ lock' = c
    /\ state' = [Wakened(state, ToWake(s)) EXCEPT ![s] = "ZOMBIE"]
    /\ parent' = Reparented(s)
    /\ UNCHANGED <<pid, killed, kstack, pc, child, nextpid, on>>

-----------------------------------------------------------------------------
(* wait(): take the lock, then scan the table ... *)
WaitStart(c, s) ==
    /\ InUser(c, s)
    /\ lock = Free
    /\ lock' = c
    /\ pc' = [pc EXCEPT ![s] = "scan"]
    /\ UNCHANGED <<state, pid, parent, killed, kstack, child, nextpid, on>>

Scans(c, s) == on[c] = s /\ lock = c /\ state[s] = "RUNNING" /\ pc[s] = "scan"

Children(s) == {q \in Slots : parent[q] = s}

MutZombies(s) == {q \in Children(s) : state[q] # "EMBRYO"}

Zombies(s) == {q \in Children(s) : state[q] = "ZOMBIE"}

(* ... for the first exited child, which is freed ... *)
Reap(c, s) ==
    /\ Scans(c, s)
    /\ \E z \in Zombies(s) :
         /\ \A y \in Zombies(s) : z <= y
         /\ kstack' = [kstack EXCEPT ![z] = FALSE]
         /\ pid' = [pid EXCEPT ![z] = 0]
         /\ parent' = [parent EXCEPT ![z] = NoProc]
         /\ killed' = [killed EXCEPT ![z] = FALSE]
         /\ state' = [state EXCEPT ![z] = "UNUSED"]
    /\ lock' = Free
    /\ pc' = [pc EXCEPT ![s] = "user"]
    /\ UNCHANGED <<child, nextpid, on>>

(* ... or give up ... *)
WaitFail(c, s) ==
    /\ Scans(c, s)
    /\ Zombies(s) = {}
    /\ Children(s) = {} \/ killed[s]
    /\ lock' = Free
    /\ pc' = [pc EXCEPT ![s] = "user"]
    /\ UNCHANGED <<state, pid, parent, killed, kstack, child, nextpid, on>>

(* ... or sleep(curproc, &ptable.lock). *)
WaitSleep(c, s) ==
    /\ Scans(c, s)
    /\ Zombies(s) = {}
    /\ Children(s) # {} /\ ~killed[s]
    /\ state' = [state EXCEPT ![s] = "SLEEPING"]
    /\ UNCHANGED <<pid, parent, killed, kstack, pc, child, nextpid, lock, on>>

(* kill(k): the first slot with that pid, whatever its state.  A killed    *)
(* init would panic in exit(); no one kills it here.                       *)
Kill(c, s, k) ==
    /\ InUser(c, s)
    /\ lock = Free
    /\ k # pid[InitProc]
    /\ \E t \in Slots :
         /\ pid[t] = k
         /\ \A u \in Slots : pid[u] = k => t <= u
         /\ killed' = [killed EXCEPT ![t] = TRUE]
         /\ state' = Wakened(state, {t})
    /\ UNCHANGED <<pid, parent, kstack, pc, child, nextpid, lock, on>>

-----------------------------------------------------------------------------
Next ==
    \E c \in CPUs :
      \/ SchedAcquire(c) \/ SchedRelease(c) \/ SwitchOut(c) \/ Resume(c)
      \/ \E s \in Slots :
           \/ SchedPick(c, s) \/ Yield(c, s)
           \/ AllocProc(c, s) \/ AllocStack(c, s) \/ ForkFail(c, s)
           \/ CopyProc(c, s) \/ Publish(c, s)
           \/ ExitStart(c, s) \/ ExitZombie(c, s)
           \/ WaitStart(c, s) \/ Reap(c, s) \/ WaitFail(c, s) \/ WaitSleep(c, s)
           \/ \E k \in 0 .. MaxPid : Kill(c, s, k)

Spec == Init /\ [][Next]_vars

-----------------------------------------------------------------------------
(* No two CPUs run on one kernel stack, and none on a stack that is freed: *)
(* a process that leaves the CPU in yield(), sleep() or exit() cannot be   *)
(* picked up, nor reaped, before sched() has switched away from it, since  *)
(* it enters sched() with ptable.lock held, as sched() asserts.            *)
StackSafe ==
    \A c \in CPUs : on[c] # NoProc =>
        /\ kstack[on[c]]
        /\ \A d \in CPUs : d # c => on[d] # on[c]
        /\ state[on[c]] # "RUNNING" => lock = c

(* Every process but init has a parent that can still wait for it: exit()  *)
(* leaves no child behind.                                                 *)
HasParent ==
    \A s \in Slots \ {InitProc} :
        state[s] \in {"SLEEPING", "RUNNABLE", "RUNNING", "ZOMBIE"} =>
            /\ parent[s] # NoProc
            /\ state[parent[s]] \in {"SLEEPING", "RUNNABLE", "RUNNING"}

(* Nobody sleeps in wait() over a zombie child or after kill(), whichever *)
(* came first: exit(), kill() and the tests in wait() are serialised by    *)
(* ptable.lock.                                                            *)
NoBlindSleep ==
    \A s \in Slots : state[s] = "SLEEPING" => Zombies(s) = {} /\ ~killed[s]
=============================================================================
