-------------------------------- MODULE Mlfq --------------------------------
(***************************************************************************)
(* The CPU scheduler: scheduler() with its two policies (multi-level       *)
(* feedback queue and round robin), the tick accounting of the timer trap, *)
(* update_wait_ticks(), priority_boost() and sys_setSchedPolicy().         *)
(*                                                                         *)
(* ptable.lock is held from the state change that precedes sched() up to   *)
(* the end of the scheduler's round, or to the release by the next process *)
(* it switches to, so each such hold is one step here; module Proc takes   *)
(* the hold apart.  The timer trap charges its tick before it takes the    *)
(* lock: that is a step of its own.                                        *)
(***************************************************************************)
EXTENDS Integers, FiniteSetsExt

CONSTANTS
    NPROC,       \* slots of ptable
    CPUs,        \* the processors
    Slice,       \* slice[1..3]: ticks a level grants before demotion
    BoostLimit,  \* rounds a process waits in Q0, Q1, Q2 before it is boosted
    CounterMax,  \* counters stick here; above every limit they meet (bound)
    Policies,    \* arguments programs pass to setSchedPolicy
    Calls        \* the ways programs leave user mode in this instance

Slots == 1 .. NPROC
Levels == 0 .. 3
NoProc == 0
CallKinds == {"fork", "yield", "sleep", "exit", "setSchedPolicy"}

ASSUME NPROCAssumption == NPROC \in Nat \ {0}
ASSUME SliceAssumption == Slice \in [1 .. 3 -> Nat \ {0}]
ASSUME BoostAssumption == BoostLimit \in [0 .. 2 -> Nat \ {0}]
ASSUME CounterAssumption ==
    /\ CounterMax \in Nat
    /\ \A q \in 1 .. 3 : Slice[q] <= CounterMax
    /\ \A q \in 0 .. 2 : BoostLimit[q] <= CounterMax
ASSUME CallsAssumption == Policies \subseteq Levels /\ Calls \subseteq CallKinds

UNUSED == "UNUSED"
EMBRYO == "EMBRYO"
SLEEPING == "SLEEPING"
RUNNABLE == "RUNNABLE"
RUNNING == "RUNNING"
ZOMBIE == "ZOMBIE"
States == {UNUSED, EMBRYO, SLEEPING, RUNNABLE, RUNNING, ZOMBIE}

VARIABLES
    pt,        \* the scheduling fields of every slot of ptable
    policy,    \* cpus[c].sched_policy
    proc,      \* cpus[c].proc
    branch,    \* the branch of scheduler() that switched to proc[c]
    at,        \* where CPU c is: scheduler loop, process, charged timer trap
    rrTicked   \* history: slots charged a tick in the round-robin branch
               \* since their allocproc()

vars == <<pt, policy, proc, branch, at, rrTicked>>

Proc == [state : States, priority : Levels,
         ticks : [1 .. 3 -> 0 .. CounterMax],
         wait_ticks : [0 .. 2 -> 0 .. CounterMax]]

(* One type invariant: the table, and CPUs that run a process know which. *)
TypeOK ==
    /\ pt \in [Slots -> Proc]
    /\ policy \in [CPUs -> Levels]
    /\ proc \in [CPUs -> Slots \cup {NoProc}]
    /\ branch \in [CPUs -> {"none", "mlfq", "rr"}]
    /\ at \in [CPUs -> {"loop", "run", "tick"}]
    /\ rrTicked \subseteq Slots
    /\ \A c \in CPUs : /\ at[c] = "loop" <=> proc[c] = NoProc
                       /\ at[c] = "loop" <=> branch[c] = "none"

NoTicks == [q \in 1 .. 3 |-> 0]
NoWait == [q \in 0 .. 2 |-> 0]

(* userinit() made slot 1 runnable; a CPU boots with sched_policy 0. *)
Init ==
    /\ pt = [p \in Slots |->
               [state |-> IF p = 1 THEN RUNNABLE ELSE UNUSED,
                priority |-> IF p = 1 THEN 3 ELSE 0,
                ticks |-> NoTicks, wait_ticks |-> NoWait]]
    /\ policy = [c \in CPUs |-> 0]
    /\ proc = [c \in CPUs |-> NoProc]
    /\ branch = [c \in CPUs |-> "none"]
    /\ at = [c \in CPUs |-> "loop"]
    /\ rrTicked = {}

-----------------------------------------------------------------------------
(* The pieces of the scheduler's round, as functions of the table t.       *)

(* ticks[0] and wait_ticks[3] are counted in the code but read by nothing  *)
(* that schedules: the records leave them out.                             *)
Count(f, q) ==
    [l \in DOMAIN f |-> IF l = q /\ f[l] < CounterMax THEN f[l] + 1 ELSE f[l]]

Runnable(t) == {p \in Slots : t[p].state = RUNNABLE}

(* The MLFQ search: highest level first, lowest slot within the level. *)
Select(t) ==
    Min({p \in Runnable(t) :
           \A q \in Runnable(t) : t[q].priority <= t[p].priority})

MutDemoteLate(t, s) ==
    LET q == t[s].priority
    IN  IF q > 0 /\ t[s].ticks[q] > Slice[q]
        THEN [t EXCEPT ![s].priority = q - 1, ![s].ticks[q] = 0]
        ELSE t

(* A process that used up its slice goes one level down. *)
Demote(t, s) ==
    LET q == t[s].priority
    IN  IF q > 0 /\ t[s].ticks[q] >= Slice[q]
        THEN [t EXCEPT ![s].priority = q - 1, ![s].ticks[q] = 0]
        ELSE t

UpdateWaitTicks(t, running) ==
    [p \in Slots |->
       IF p # running /\ t[p].state = RUNNABLE
       THEN [t[p] EXCEPT !.wait_ticks = Count(@, t[p].priority)]
       ELSE t[p]]

MutBoostTwoLevels(t) ==
    [p \in Slots |->
       LET q == t[p].priority
       IN  IF t[p].state # UNUSED /\ q < 3 /\ t[p].wait_ticks[q] >= BoostLimit[q]
           THEN [t[p] EXCEPT !.priority = IF q = 2 THEN 2 ELSE q + 1,
                             !.wait_ticks[q] = 0]
           ELSE t[p]]

PriorityBoost(t) ==
    [p \in Slots |->
       LET q == t[p].priority
       IN  IF t[p].state # UNUSED /\ q < 3 /\ t[p].wait_ticks[q] >= BoostLimit[q]
           THEN [t[p] EXCEPT !.priority = q + 1, !.wait_ticks[q] = 0]
           ELSE t[p]]

MutBoostFirst(t, s) == UpdateWaitTicks(PriorityBoost(Demote(t, s)), s)

(* What the MLFQ branch does once process s has switched back to it. *)
MlfqEpilogue(t, s) == PriorityBoost(UpdateWaitTicks(Demote(t, s), s))

-----------------------------------------------------------------------------
(* Switch CPU c to process s of table t, found in branch b of scheduler(). *)
SwitchTo(c, t, s, b) ==
    /\ pt' = [t EXCEPT ![s].state = RUNNING]
    /\ proc' = [proc EXCEPT ![c] = s]
    /\ branch' = [branch EXCEPT ![c] = b]
    /\ at' = [at EXCEPT ![c] = "run"]

(* The round is over: the lock is released, the loop starts again. *)
EndRound(c, t) ==
    /\ pt' = t
    /\ proc' = [proc EXCEPT ![c] = NoProc]
    /\ branch' = [branch EXCEPT ![c] = "none"]
    /\ at' = [at EXCEPT ![c] = "loop"]

(* A new iteration of scheduler()'s loop; with nothing runnable it changes *)
(* nothing.                                                                *)
Dispatch(c) ==
    /\ at[c] = "loop"
    /\ Runnable(pt) # {}
    /\ IF policy[c] \in {1, 2}
       THEN SwitchTo(c, pt, Select(pt), "mlfq")
       ELSE SwitchTo(c, pt, Min(Runnable(pt)), "rr")
    /\ UNCHANGED <<policy, rrTicked>>

(* The process on c, its state set to s, switches back to scheduler().     *)
(* The round-robin sweep goes on behind it without reading the policy      *)
(* again.                                                                  *)
SwitchBack(c, s) ==
    LET p == proc[c]
        t == [pt EXCEPT ![p].state = s]
        rest == {q \in Runnable(t) : q > p}
    IN  \/ branch[c] = "mlfq" /\ EndRound(c, MlfqEpilogue(t, p))
        \/ branch[c] = "rr" /\ rest = {} /\ EndRound(c, t)
        \/ branch[c] = "rr" /\ rest # {} /\ SwitchTo(c, t, Min(rest), "rr")

(* Timer interrupt on a CPU that runs a process: the tick is charged to    *)
(* the level the process is in, before yield() takes ptable.lock.          *)
TimerTick(c) ==
    /\ at[c] = "run"
    /\ LET p == proc[c]
       IN  /\ pt' = [pt EXCEPT ![p].ticks = Count(@, pt[p].priority)]
           /\ rrTicked' = IF branch[c] = "rr" THEN rrTicked \cup {p} ELSE rrTicked
    /\ at' = [at EXCEPT ![c] = "tick"]
    /\ UNCHANGED <<policy, proc, branch>>

TimerYield(c) ==
    /\ at[c] = "tick"
    /\ SwitchBack(c, RUNNABLE)
    /\ UNCHANGED <<policy, rrTicked>>

(* The calling process gives up the CPU of its own accord. *)
Leave(c, call, s) ==
    /\ call \in Calls
    /\ at[c] = "run"
    /\ SwitchBack(c, s)
    /\ UNCHANGED <<policy, rrTicked>>

SysYield(c) == Leave(c, "yield", RUNNABLE)
Sleep(c) == Leave(c, "sleep", SLEEPING)
Exit(c) == Leave(c, "exit", ZOMBIE)

(* sys_setSchedPolicy: only the CPU the caller happens to run on. *)
SetSchedPolicy(c, n) ==
    /\ "setSchedPolicy" \in Calls
    /\ at[c] = "run"
    /\ policy' = [policy EXCEPT ![c] = n]
    /\ UNCHANGED <<pt, proc, branch, at, rrTicked>>

(* fork(): allocproc() takes the first unused slot ... *)
AllocProc(c) ==
    /\ "fork" \in Calls
    /\ at[c] = "run"
    /\ \E p \in Slots :
         /\ pt[p].state = UNUSED
         /\ \A q \in Slots : q < p => pt[q].state # UNUSED
         /\ pt' = [pt EXCEPT ![p] = [state |-> EMBRYO, priority |-> 3,
                                     ticks |-> NoTicks, wait_ticks |-> NoWait]]
         /\ rrTicked' = rrTicked \ {p}
    /\ UNCHANGED <<policy, proc, branch, at>>

SetState(p, from, to) ==
    /\ pt[p].state = from
    /\ pt' = [pt EXCEPT ![p].state = to]
    /\ UNCHANGED <<policy, proc, branch, at, rrTicked>>

(* ... and the slot becomes runnable, or unused again when a copy fails. *)
ForkPublish(p) == SetState(p, EMBRYO, RUNNABLE)
ForkFail(p) == SetState(p, EMBRYO, UNUSED)

(* wakeup() or kill() of a sleeper; wait() by the parent of a zombie. *)
Wakeup(p) == SetState(p, SLEEPING, RUNNABLE)
Reap(p) == SetState(p, ZOMBIE, UNUSED)

Next ==
    \/ \E c \in CPUs : \/ Dispatch(c)
                       \/ TimerTick(c)
                       \/ TimerYield(c)
                       \/ SysYield(c)
                       \/ Sleep(c)
                       \/ Exit(c)
                       \/ AllocProc(c)
                       \/ \E n \in Policies : SetSchedPolicy(c, n)
    \/ \E p \in Slots : \/ ForkPublish(p)
                        \/ ForkFail(p)
                        \/ Wakeup(p)
                        \/ Reap(p)

Spec == Init /\ [][Next]_vars

(* The scheduler loop never stops, the local APIC timer fires periodically *)
(* on every CPU, and a charged trap goes on to yield().                    *)
Fairness == \A c \in CPUs : /\ WF_vars(Dispatch(c))
                            /\ WF_vars(TimerTick(c))
                            /\ WF_vars(TimerYield(c))

FairSpec == Spec /\ Fairness

-----------------------------------------------------------------------------
(* No matter how a process sleeps, yields and is woken, it never gets more *)
(* than slice[q] ticks in level q without being demoted, and while it is   *)
(* off the CPU it has always less: scheduler()'s check cannot be dodged.   *)
(* Ticks charged in the round-robin branch, which checks nothing, are the  *)
(* only way around it.                                                     *)
Quota ==
    \A p \in Slots \ rrTicked, q \in 1 .. 3 :
        \/ pt[p].ticks[q] < Slice[q]
        \/ /\ pt[p].ticks[q] = Slice[q]
           /\ q = pt[p].priority
           /\ \E c \in CPUs : proc[c] = p /\ at[c] = "tick" /\ branch[c] = "mlfq"

(* Every wait that reaches its level's limit is answered by a boost in the *)
(* same round, on whichever CPU and under whichever mix of policies: no    *)
(* wait counter below Q3 is ever seen at its limit.                        *)
WaitBound ==
    \A p \in Slots, q \in 0 .. 2 : pt[p].wait_ticks[q] < BoostLimit[q]

(* A RUNNING slot is the current process of exactly one CPU, and a CPU's   *)
(* current process is RUNNING: the MLFQ search and two concurrent round-   *)
(* robin sweeps never pick the same process.                               *)
RunningOnce ==
    /\ \A c, d \in CPUs : proc[c] = proc[d] /\ proc[c] # NoProc => c = d
    /\ \A p \in Slots : pt[p].state = RUNNING <=> \E c \in CPUs : proc[c] = p

(* priority_boost is there to prevent starvation (comment at its head): a  *)
(* process ready to run eventually runs.                                   *)
NoStarvation ==
    \A p \in Slots : pt[p].state = RUNNABLE ~> pt[p].state # RUNNABLE

(* What the boosts do guarantee, even against processes that leave the CPU *)
(* before every tick: a ready process below Q3 runs or climbs to Q3.       *)
ClimbsToTop ==
    \A p \in Slots :
        pt[p].state = RUNNABLE ~> pt[p].state # RUNNABLE \/ pt[p].priority = 3
=============================================================================
