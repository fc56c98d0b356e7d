------------------------------ MODULE SpinLock ------------------------------
(***************************************************************************)
(* Spin locks (spinlock.c) and what they do to interrupts: acquire() and   *)
(* release() step by step, with pushcli() and popcli(), on CPUs that take  *)
(* interrupts whose handlers use the same locks.                           *)
(*                                                                         *)
(* On a CPU runs a thread or, on top of it, an interrupt handler; the      *)
(* thread's variables are then in saved.  Handlers do not nest: the gates  *)
(* of trap.c turn interrupts off and handlers leave them off.  A thread    *)
(* stays on its CPU: sched(), which carries intena across swtch(), is in   *)
(* module Proc.                                                            *)
(***************************************************************************)
EXTENDS Integers, FiniteSets

CONSTANTS
    Cpus,
    Locks,
    Order,         \* <<k, l>>: the kernel's code acquires l while it holds k
    NoCpu, NoLock

ASSUME SpinAssumption ==
    NoCpu \notin Cpus /\ NoLock \notin Locks /\ IsFiniteSet(Locks)

VARIABLES
    locked, owner,   \* lk->locked and lk->cpu of each lock
    intr,            \* FL_IF of each CPU's eflags
    ncli, intena,    \* struct cpu
    at,              \* where the code on each CPU is in acquire() or release()
    lk,              \* the lock it is acquiring or releasing
    eflags,          \* local variable of pushcli()
    held,            \* locks it has acquired and not released
    handler,         \* it is an interrupt handler
    saved            \* the thread it interrupted

context == <<at, lk, eflags, held>>
spinVars == <<locked, owner, intr, ncli, intena, context, handler, saved>>

LockPlaces == {"run", "push", "check", "spin", "own", "unlock", "pop", "panic"}

SpinInit ==
    /\ locked = [l \in Locks |-> FALSE] /\ owner = [l \in Locks |-> NoCpu]
    /\ intr = [c \in Cpus |-> TRUE]
    /\ ncli = [c \in Cpus |-> 0] /\ intena = [c \in Cpus |-> FALSE]
    /\ at = [c \in Cpus |-> "run"] /\ lk = [c \in Cpus |-> NoLock]
    /\ eflags = [c \in Cpus |-> FALSE] /\ held = [c \in Cpus |-> {}]
    /\ handler = [c \in Cpus |-> FALSE]
    /\ saved = [c \in Cpus |->
                   [at |-> "run", lk |-> NoLock, eflags |-> FALSE, held |-> {}]]

holding(c, l) == locked[l] /\ owner[l] = c

Go(c, place) == at' = [at EXCEPT ![c] = place]

-----------------------------------------------------------------------------
(* acquire(): pushcli() reads eflags, *)
Acquire(c, l) ==
    /\ at[c] = "run"
    /\ l \notin held[c] /\ \A k \in held[c] : <<k, l>> \in Order
    /\ lk' = [lk EXCEPT ![c] = l]
    /\ eflags' = [eflags EXCEPT ![c] = intr[c]]
    /\ Go(c, "push")
    /\ UNCHANGED <<locked, owner, intr, ncli, intena, held, handler, saved>>

MutPushCli(c) ==
    /\ at[c] = "push"
    /\ intr' = [intr EXCEPT ![c] = FALSE]
    /\ intena' = [intena EXCEPT ![c] = eflags[c]]
    /\ ncli' = [ncli EXCEPT ![c] = @ + 1]
    /\ Go(c, "check")
    /\ UNCHANGED <<locked, owner, lk, eflags, held, handler, saved>>

(* turns interrupts off and counts; *)
PushCli(c) ==
    /\ at[c] = "push"
    /\ intr' = [intr EXCEPT ![c] = FALSE]
    /\ intena' = [intena EXCEPT ![c] = IF ncli[c] = 0 THEN eflags[c] ELSE @]
    /\ ncli' = [ncli EXCEPT ![c] = @ + 1]
    /\ Go(c, "check")
    /\ UNCHANGED <<locked, owner, lk, eflags, held, handler, saved>>

(* a CPU that holds the lock panics; *)
CheckFree(c) ==
    /\ at[c] = "check"
    /\ Go(c, IF holding(c, lk[c]) THEN "panic" ELSE "spin")
    /\ UNCHANGED <<locked, owner, intr, ncli, intena, lk, eflags, held, handler, saved>>

(* the xchg that finds the lock free ends the loop; *)
Xchg(c) ==
    /\ at[c] = "spin"
    /\ ~locked[lk[c]]
    /\ locked' = [locked EXCEPT ![lk[c]] = TRUE]
    /\ Go(c, "own")
    /\ UNCHANGED <<owner, intr, ncli, intena, lk, eflags, held, handler, saved>>

(* and the owner is recorded. *)
Own(c) ==
    /\ at[c] = "own"
    /\ owner' = [owner EXCEPT ![lk[c]] = c]
    /\ held' = [held EXCEPT ![c] = @ \cup {lk[c]}]
    /\ Go(c, "run")
    /\ UNCHANGED <<locked, intr, ncli, intena, lk, eflags, handler, saved>>

(* release() of a lock that the code has acquired: panics unless this CPU  *)
(* holds it, forgets the owner, *)
Release(c, l) ==
    /\ at[c] = "run"
    /\ l \in held[c]
    /\ lk' = [lk EXCEPT ![c] = l]
    /\ IF holding(c, l)
       THEN owner' = [owner EXCEPT ![l] = NoCpu] /\ Go(c, "unlock")
       ELSE UNCHANGED owner /\ Go(c, "panic")
    /\ UNCHANGED <<locked, intr, ncli, intena, eflags, held, handler, saved>>

(* frees the lock, *)
Unlock(c) ==
    /\ at[c] = "unlock"
    /\ locked' = [locked EXCEPT ![lk[c]] = FALSE]
    /\ held' = [held EXCEPT ![c] = @ \ {lk[c]}]
    /\ Go(c, "pop")
    /\ UNCHANGED <<owner, intr, ncli, intena, lk, eflags, handler, saved>>

(* and popcli() turns interrupts on again if the first pushcli() found     *)
(* them on.                                                                *)
PopCli(c) ==
    /\ at[c] = "pop"
    /\ IF intr[c] THEN UNCHANGED <<ncli, intr>> /\ Go(c, "panic")
       ELSE /\ ncli' = [ncli EXCEPT ![c] = @ - 1]
            /\ IF ncli[c] - 1 < 0 THEN UNCHANGED intr /\ Go(c, "panic")
               ELSE /\ intr' = [intr EXCEPT ![c] = ncli[c] = 1 /\ intena[c]]
                    /\ Go(c, "run")
    /\ UNCHANGED <<locked, owner, intena, lk, eflags, held, handler, saved>>

(* An interrupt comes in: the gate turns interrupts off, the handler runs  *)
(* on top of the thread. *)
Interrupt(c) ==
    /\ intr[c] /\ ~handler[c]
    /\ intr' = [intr EXCEPT ![c] = FALSE]
    /\ handler' = [handler EXCEPT ![c] = TRUE]
    /\ saved' = [saved EXCEPT ![c] = [at |-> at[c], lk |-> lk[c],
                                      eflags |-> eflags[c], held |-> held[c]]]
    /\ Go(c, "run")
    /\ held' = [held EXCEPT ![c] = {}]
    /\ UNCHANGED <<locked, owner, ncli, intena, lk, eflags>>

(* The handler, which has released its locks, returns with iret: eflags    *)
(* and the thread are restored.                                            *)
Iret(c) ==
    /\ handler[c]
    /\ at[c] = "run" /\ held[c] = {}
    /\ intr' = [intr EXCEPT ![c] = TRUE]
    /\ handler' = [handler EXCEPT ![c] = FALSE]
    /\ at' = [at EXCEPT ![c] = saved[c].at]
    /\ lk' = [lk EXCEPT ![c] = saved[c].lk]
    /\ eflags' = [eflags EXCEPT ![c] = saved[c].eflags]
    /\ held' = [held EXCEPT ![c] = saved[c].held]
    /\ UNCHANGED <<locked, owner, ncli, intena, saved>>

SpinNext ==
    \E c \in Cpus :
        \/ \E l \in Locks : Acquire(c, l) \/ Release(c, l)
        \/ PushCli(c) \/ CheckFree(c) \/ Xchg(c) \/ Own(c)
        \/ Unlock(c) \/ PopCli(c)
        \/ Interrupt(c) \/ Iret(c)

SpinSpec == SpinInit /\ [][SpinNext]_spinVars
-----------------------------------------------------------------------------
(* What acquire() and release() promise.  No two CPUs hold a lock, and none *)
(* panics: in particular no handler asks for a lock that the thread below   *)
(* it holds, because interrupts stay off from before a lock is taken to     *)
(* after it is free, whatever is nested in between and although a handler   *)
(* may run between the reading of eflags and cli().  And a CPU that is done *)
(* with its locks has interrupts as it had them before the first one.       *)
LocksExclude ==
    /\ \A c, d \in Cpus : c # d => held[c] \cap held[d] = {}
    /\ \A c \in Cpus :
        /\ at[c] # "panic"
        /\ held[c] # {} => ~intr[c]
        /\ at[c] = "run" /\ held[c] = {} => intr[c] = ~handler[c]
=============================================================================
