----------------------------- MODULE ProcProofs -----------------------------
(***************************************************************************)
(* The invariants of the process table for any number of slots and CPUs.   *)
(*                                                                         *)
(* What makes them inductive is who may touch a slot: a CPU that runs on a *)
(* stack owns its slot while the slot is RUNNING, and through ptable.lock  *)
(* while it is leaving; a fork() in progress owns the EMBRYO it claimed,   *)
(* which nobody else can reach until it is published.                      *)
(***************************************************************************)
EXTENDS Proc, SpinLock, FiniteSetTheorems, TLAPS

(* Zenon goes first, the solver second and with 30 seconds for a leaf. *)
USE ZenonT(10), SMTT(30)

Alive == {"SLEEPING", "RUNNABLE", "RUNNING"}
Forks(s) == pc[s] \in {"alloc", "copy", "publish"}

(* The CPUs: a slot on a CPU is RUNNING or leaves with the lock, only one  *)
(* CPU is on it, and no one but the holder of the lock is inside wait().   *)
CpuInv ==
    /\ \A c \in CPUs : on[c] # NoProc =>
         /\ state[on[c]] # "RUNNING" =>
              lock = c /\ state[on[c]] \in {"RUNNABLE", "SLEEPING", "ZOMBIE"}
         /\ lock # c => pc[on[c]] # "scan"
    /\ \A c, d \in CPUs : on[c] # NoProc /\ on[c] = on[d] => c = d

(* fork(): the child is an EMBRYO of this fork alone, with a stack and a   *)
(* parent once they are set; an EMBRYO's parent is in that fork.           *)
ForkInv ==
    /\ \A s \in Slots : Forks(s) =>
         /\ state[s] \in {"RUNNABLE", "RUNNING"}
         /\ child[s] \in Slots /\ state[child[s]] = "EMBRYO"
         /\ pc[s] # "alloc" => kstack[child[s]]
         /\ pc[s] = "publish" => parent[child[s]] = s
    /\ \A s, t \in Slots : Forks(s) /\ Forks(t) /\ child[s] = child[t] => s = t
    /\ \A q \in Slots : state[q] = "EMBRYO" /\ parent[q] # NoProc =>
         pc[parent[q]] = "publish" /\ child[parent[q]] = q

(* The states: where a slot can be in each, and that init never leaves. *)
LifeInv ==
    /\ \A s \in Slots :
         /\ state[s] \in Alive \cup {"ZOMBIE"} => kstack[s]
         /\ state[s] = "SLEEPING" => pc[s] = "scan" /\ ~killed[s]
         /\ state[s] = "ZOMBIE" => pc[s] = "exit"
         /\ state[s] = "UNUSED" => parent[s] = NoProc
         /\ parent[s] # s
    /\ state[InitProc] \in Alive /\ pc[InitProc] # "exit" /\ parent[InitProc] = NoProc

(* Nobody sleeps in wait() over a zombie child. *)
NoMissedExit == \A s \in Slots : state[s] = "SLEEPING" => Zombies(s) = {}

ProcInv ==
    /\ TypeOK /\ CpuInv /\ ForkInv /\ LifeInv
    /\ HasParent /\ NoMissedExit
-----------------------------------------------------------------------------
LEMMA SlotFacts == InitProc \in Slots /\ NoProc \notin Slots
  BY NPROCAssumption DEF InitProc, NoProc, Slots

LEMMA ProcInitInv == Init => ProcInv
<1> SUFFICES ASSUME Init PROVE ProcInv
  OBVIOUS
<1> USE SlotFacts DEF Init
<1>1. TypeOK
  BY MaxPidAssumption DEF TypeOK, Places
<1>2. CpuInv /\ ForkInv
  BY DEF CpuInv, ForkInv, Forks
<1>3. LifeInv
  BY Zenon DEF LifeInv, Alive
<1>4. HasParent /\ NoMissedExit
  BY DEF HasParent, NoMissedExit, Zombies, Children
<1> QED
  BY <1>1, <1>2, <1>3, <1>4 DEF ProcInv

(* A process that executes without the lock is RUNNING, not in wait(), and *)
(* on no other CPU.                                                        *)
LEMMA RunsRunning ==
    ASSUME ProcInv, NEW c \in CPUs, NEW s \in Slots, Runs(c, s)
    PROVE  state[s] = "RUNNING" /\ pc[s] # "scan" /\ on[c] # NoProc
  BY SlotFacts DEF ProcInv, CpuInv, Runs

(* A fork() in progress is not its own child, nor is init. *)
LEMMA ForkChild ==
    ASSUME ProcInv, NEW s \in Slots, Forks(s)
    PROVE  /\ child[s] \in Slots /\ child[s] # s /\ child[s] # InitProc
           /\ state[child[s]] = "EMBRYO"
           /\ pc[s] # "publish" => parent[child[s]] = NoProc
           /\ \A c \in CPUs : on[c] # child[s]
           /\ ~Forks(child[s])
  BY SlotFacts DEF ProcInv, TypeOK, CpuInv, ForkInv, LifeInv, Alive, Forks

(* ProcInv is kept by every step. *)
LEMMA ProcStepInv == ProcInv /\ [Next]_vars => ProcInv'
<1> SUFFICES ASSUME ProcInv, [Next]_vars PROVE ProcInv'
  OBVIOUS
<1> USE SlotFacts DEF ProcInv
<1>1. CASE UNCHANGED vars
  BY <1>1 DEF vars, TypeOK, CpuInv, ForkInv, Forks, LifeInv, HasParent, NoMissedExit,
              Zombies, Children
<1>2. ASSUME NEW c \in CPUs, SchedAcquire(c) PROVE ProcInv'
  <2>1. TypeOK'
    BY <1>2 DEF SchedAcquire, TypeOK, Places
  <2>2. CpuInv'
    BY <1>2, CPUsAssumption DEF SchedAcquire, TypeOK, CpuInv
  <2>3. ForkInv' /\ LifeInv' /\ HasParent' /\ NoMissedExit'
    BY <1>2 DEF SchedAcquire, ForkInv, Forks, LifeInv, HasParent, NoMissedExit, Zombies, Children
  <2> QED
    BY <2>1, <2>2, <2>3
<1>3. ASSUME NEW c \in CPUs, SchedRelease(c) PROVE ProcInv'
  <2>1. TypeOK'
    BY <1>3 DEF SchedRelease, TypeOK, Places
  <2>2. CpuInv'
    BY <1>3, CPUsAssumption DEF SchedRelease, TypeOK, CpuInv
  <2>3. ForkInv' /\ LifeInv' /\ HasParent' /\ NoMissedExit'
    BY <1>3 DEF SchedRelease, ForkInv, Forks, LifeInv, HasParent, NoMissedExit, Zombies, Children
  <2> QED
    BY <2>1, <2>2, <2>3
<1>4. ASSUME NEW c \in CPUs, SwitchOut(c) PROVE ProcInv'
  <2>1. TypeOK'
    BY <1>4 DEF SwitchOut, TypeOK, Places
  <2>2. CpuInv'
    BY <1>4, CPUsAssumption DEF SwitchOut, TypeOK, CpuInv
  <2>3. ForkInv' /\ LifeInv' /\ HasParent' /\ NoMissedExit'
    BY <1>4 DEF SwitchOut, ForkInv, Forks, LifeInv, HasParent, NoMissedExit, Zombies, Children
  <2> QED
    BY <2>1, <2>2, <2>3
<1>5. ASSUME NEW c \in CPUs, Resume(c) PROVE ProcInv'
  <2>1. TypeOK'
    BY <1>5 DEF Resume, TypeOK, Places
  <2>2. CpuInv'
    BY <1>5, CPUsAssumption DEF Resume, TypeOK, CpuInv
  <2>3. ForkInv' /\ LifeInv' /\ HasParent' /\ NoMissedExit'
    BY <1>5 DEF Resume, ForkInv, Forks, LifeInv, HasParent, NoMissedExit, Zombies, Children
  <2> QED
    BY <2>1, <2>2, <2>3
<1>6. ASSUME NEW c \in CPUs, NEW s \in Slots, SchedPick(c, s) PROVE ProcInv'
  <2>1. TypeOK'
    BY <1>6 DEF SchedPick, TypeOK, Places
  <2>2. CpuInv'
    BY <1>6, CPUsAssumption DEF SchedPick, TypeOK, CpuInv
  <2>3. ForkInv'
    BY <1>6 DEF SchedPick, TypeOK, ForkInv, Forks, LifeInv, Alive
  <2>4. LifeInv'
    BY <1>6 DEF SchedPick, TypeOK, ForkInv, Forks, LifeInv, Alive
  <2>5. HasParent'
    BY <1>6 DEF SchedPick, TypeOK, ForkInv, Forks, LifeInv, Alive, HasParent
  <2>6. NoMissedExit'
    BY <1>6 DEF SchedPick, TypeOK, LifeInv, Alive, HasParent, NoMissedExit, Zombies, Children
  <2> QED
    BY <2>1, <2>2, <2>3, <2>4, <2>5, <2>6
<1>7. ASSUME NEW c \in CPUs, NEW s \in Slots, Yield(c, s) PROVE ProcInv'
  <2>0. state[s] = "RUNNING" /\ pc[s] # "scan" /\ on[c] = s /\ on[c] # NoProc
    BY <1>7, RunsRunning DEF Yield, Runs
  <2>1. TypeOK'
    BY <1>7, <2>0 DEF Yield, Runs, TypeOK, Places
  <2>2. CpuInv'
    BY <1>7, <2>0, CPUsAssumption DEF Yield, Runs, TypeOK, CpuInv
  <2>3. ForkInv'
    BY <1>7, <2>0 DEF Yield, Runs, TypeOK, ForkInv, Forks, LifeInv, Alive
  <2>4. LifeInv'
    BY <1>7, <2>0 DEF Yield, Runs, TypeOK, ForkInv, Forks, LifeInv, Alive
  <2>5. HasParent'
    BY <1>7, <2>0 DEF Yield, Runs, TypeOK, ForkInv, Forks, LifeInv, Alive, HasParent
  <2>6. NoMissedExit'
    BY <1>7, <2>0 DEF Yield, Runs, TypeOK, LifeInv, Alive, HasParent, NoMissedExit, Zombies, Children
  <2> QED
    BY <2>1, <2>2, <2>3, <2>4, <2>5, <2>6
<1>8. ASSUME NEW c \in CPUs, NEW s \in Slots, AllocProc(c, s) PROVE ProcInv'
  <2>0. state[s] = "RUNNING" /\ pc[s] # "scan" /\ on[c] = s /\ on[c] # NoProc
    BY <1>8, RunsRunning DEF AllocProc, InUser, Runs
  <2>1. TypeOK'
    BY <1>8, <2>0, MaxPidAssumption DEF AllocProc, InUser, Runs, TypeOK, Places
  <2>2. CpuInv'
    BY <1>8, <2>0, CPUsAssumption DEF AllocProc, InUser, Runs, TypeOK, CpuInv
  <2>3. ForkInv'
    BY <1>8, <2>0 DEF AllocProc, InUser, Runs, TypeOK, ForkInv, Forks, LifeInv, Alive
  <2>4. LifeInv'
    BY <1>8, <2>0 DEF AllocProc, InUser, Runs, TypeOK, ForkInv, Forks, LifeInv, Alive
  <2>5. HasParent'
    BY <1>8, <2>0 DEF AllocProc, InUser, Runs, TypeOK, ForkInv, Forks, LifeInv, Alive, HasParent
  <2>6. NoMissedExit'
    BY <1>8, <2>0 DEF AllocProc, InUser, Runs, TypeOK, LifeInv, Alive, HasParent, NoMissedExit, Zombies, Children
  <2> QED
    BY <2>1, <2>2, <2>3, <2>4, <2>5, <2>6
<1>9. ASSUME NEW c \in CPUs, NEW s \in Slots, AllocStack(c, s) PROVE ProcInv'
  <2>0. state[s] = "RUNNING" /\ pc[s] # "scan" /\ on[c] = s /\ on[c] # NoProc
    BY <1>9, RunsRunning DEF AllocStack, Runs
  <2>7. Forks(s)
    BY <1>9 DEF AllocStack, Forks
  <2>8. /\ child[s] \in Slots /\ child[s] # s /\ child[s] # InitProc
        /\ state[child[s]] = "EMBRYO"
        /\ pc[s] # "publish" => parent[child[s]] = NoProc
        /\ \A d \in CPUs : on[d] # child[s]
        /\ ~Forks(child[s])
    BY <2>7, ForkChild, Zenon
  <2>1. TypeOK'
    BY <1>9, <2>0, <2>8 DEF AllocStack, TypeOK, Places
  <2>2. CpuInv'
    BY <1>9, <2>0, <2>8, CPUsAssumption DEF AllocStack, TypeOK, CpuInv
  <2>3. ForkInv'
    BY <1>9, <2>0, <2>8 DEF AllocStack, TypeOK, ForkInv, Forks
  <2>4. LifeInv'
    BY <1>9, <2>0, <2>8 DEF AllocStack, TypeOK, LifeInv, Alive
  <2>5. HasParent'
    BY <1>9, <2>0, <2>8 DEF AllocStack, TypeOK, LifeInv, Alive, HasParent
  <2>6. NoMissedExit'
    BY <1>9, <2>0, <2>8 DEF AllocStack, TypeOK, LifeInv, Alive, HasParent, NoMissedExit, Zombies, Children
  <2> QED
    BY <2>1, <2>2, <2>3, <2>4, <2>5, <2>6
<1>10. ASSUME NEW c \in CPUs, NEW s \in Slots, ForkFail(c, s) PROVE ProcInv'
  <2>0. state[s] = "RUNNING" /\ pc[s] # "scan" /\ on[c] = s /\ on[c] # NoProc
    BY <1>10, RunsRunning DEF ForkFail, Runs
  <2>7. Forks(s)
    BY <1>10 DEF ForkFail, Forks
  <2>8. /\ child[s] \in Slots /\ child[s] # s /\ child[s] # InitProc
        /\ state[child[s]] = "EMBRYO"
        /\ pc[s] # "publish" => parent[child[s]] = NoProc
        /\ \A d \in CPUs : on[d] # child[s]
        /\ ~Forks(child[s])
    BY <2>7, ForkChild, Zenon
  <2>1. TypeOK'
    BY <1>10, <2>0, <2>8 DEF ForkFail, TypeOK, Places
  <2>2. CpuInv'
    BY <1>10, <2>0, <2>8, CPUsAssumption DEF ForkFail, TypeOK, CpuInv
  <2>3. ForkInv'
    BY <1>10, <2>0, <2>8 DEF ForkFail, TypeOK, ForkInv, Forks
  <2>4. LifeInv'
    BY <1>10, <2>0, <2>8 DEF ForkFail, TypeOK, LifeInv, Alive
  <2>5. HasParent'
    BY <1>10, <2>0, <2>8 DEF ForkFail, TypeOK, LifeInv, Alive, HasParent
  <2>6. NoMissedExit'
    BY <1>10, <2>0, <2>8 DEF ForkFail, TypeOK, LifeInv, Alive, HasParent, NoMissedExit, Zombies, Children
  <2> QED
    BY <2>1, <2>2, <2>3, <2>4, <2>5, <2>6
<1>11. ASSUME NEW c \in CPUs, NEW s \in Slots, CopyProc(c, s) PROVE ProcInv'
  <2>0. state[s] = "RUNNING" /\ pc[s] # "scan" /\ on[c] = s /\ on[c] # NoProc
    BY <1>11, RunsRunning DEF CopyProc, Runs
  <2>7. Forks(s)
    BY <1>11 DEF CopyProc, Forks
  <2>8. /\ child[s] \in Slots /\ child[s] # s /\ child[s] # InitProc
        /\ state[child[s]] = "EMBRYO"
        /\ pc[s] # "publish" => parent[child[s]] = NoProc
        /\ \A d \in CPUs : on[d] # child[s]
        /\ ~Forks(child[s])
    BY <2>7, ForkChild, Zenon
  <2>1. TypeOK'
    BY <1>11, <2>0, <2>8 DEF CopyProc, TypeOK, Places
  <2>2. CpuInv'
    BY <1>11, <2>0, <2>8, CPUsAssumption DEF CopyProc, TypeOK, CpuInv
  <2>3. ForkInv'
    BY <1>11, <2>0, <2>8 DEF CopyProc, TypeOK, ForkInv, Forks
  <2>4. LifeInv'
    BY <1>11, <2>0, <2>8 DEF CopyProc, TypeOK, LifeInv, Alive
  <2>5. HasParent'
    BY <1>11, <2>0, <2>8 DEF CopyProc, TypeOK, LifeInv, Alive, HasParent
  <2>6. NoMissedExit'
    BY <1>11, <2>0, <2>8 DEF CopyProc, TypeOK, LifeInv, Alive, HasParent, NoMissedExit, Zombies, Children
  <2> QED
    BY <2>1, <2>2, <2>3, <2>4, <2>5, <2>6
<1>12. ASSUME NEW c \in CPUs, NEW s \in Slots, Publish(c, s) PROVE ProcInv'
  <2>0. state[s] = "RUNNING" /\ pc[s] # "scan" /\ on[c] = s /\ on[c] # NoProc
    BY <1>12, RunsRunning DEF Publish, Runs
  <2>7. Forks(s)
    BY <1>12 DEF Publish, Forks
  <2>8. /\ child[s] \in Slots /\ child[s] # s /\ child[s] # InitProc
        /\ state[child[s]] = "EMBRYO"
        /\ pc[s] # "publish" => parent[child[s]] = NoProc
        /\ \A d \in CPUs : on[d] # child[s]
        /\ ~Forks(child[s])
    BY <2>7, ForkChild, Zenon
  <2>1. TypeOK'
    BY <1>12, <2>0, <2>8 DEF Publish, TypeOK, Places
  <2>2. CpuInv'
    BY <1>12, <2>0, <2>8, CPUsAssumption DEF Publish, TypeOK, CpuInv
  <2>3. ForkInv'
    BY <1>12, <2>0, <2>8 DEF Publish, TypeOK, ForkInv, Forks
  <2>4. LifeInv'
    BY <1>12, <2>0, <2>8 DEF Publish, TypeOK, ForkInv, Forks, LifeInv, Alive
  <2>5. HasParent'
    BY <1>12, <2>0, <2>8 DEF Publish, TypeOK, ForkInv, Forks, LifeInv, Alive, HasParent
  <2>6. NoMissedExit'
    BY <1>12, <2>0, <2>8 DEF Publish, TypeOK, LifeInv, Alive, HasParent, NoMissedExit, Zombies, Children
  <2> QED
    BY <2>1, <2>2, <2>3, <2>4, <2>5, <2>6
<1>13. ASSUME NEW c \in CPUs, NEW s \in Slots, ExitStart(c, s) PROVE ProcInv'
  <2>0. state[s] = "RUNNING" /\ pc[s] # "scan" /\ on[c] = s /\ on[c] # NoProc
    BY <1>13, RunsRunning DEF ExitStart, Runs
  <2>1. TypeOK'
    BY <1>13, <2>0 DEF ExitStart, Runs, TypeOK, Places
  <2>2. CpuInv'
    BY <1>13, <2>0, CPUsAssumption DEF ExitStart, Runs, TypeOK, CpuInv
  <2>3. ForkInv'
    BY <1>13, <2>0 DEF ExitStart, Runs, TypeOK, ForkInv, Forks, LifeInv, Alive
  <2>4. LifeInv'
    BY <1>13, <2>0 DEF ExitStart, Runs, TypeOK, ForkInv, Forks, LifeInv, Alive
  <2>5. HasParent'
    BY <1>13, <2>0 DEF ExitStart, Runs, TypeOK, ForkInv, Forks, LifeInv, Alive, HasParent
  <2>6. NoMissedExit'
    BY <1>13, <2>0 DEF ExitStart, Runs, TypeOK, LifeInv, Alive, HasParent, NoMissedExit, Zombies, Children
  <2> QED
    BY <2>1, <2>2, <2>3, <2>4, <2>5, <2>6
<1>14. ASSUME NEW c \in CPUs, NEW s \in Slots, ExitZombie(c, s) PROVE ProcInv'
  <2>0. state[s] = "RUNNING" /\ pc[s] # "scan" /\ on[c] = s /\ on[c] # NoProc
    BY <1>14, RunsRunning DEF ExitZombie, Runs
  <2>1. TypeOK'
    BY <1>14, <2>0 DEF ExitZombie, Runs, Wakened, ToWake, Reparented, Zombies, Children, TypeOK, Places
  <2>2. CpuInv'
    BY <1>14, <2>0, CPUsAssumption DEF ExitZombie, Runs, Wakened, ToWake, Reparented, Zombies, Children, TypeOK, CpuInv
  <2>3. ForkInv'
    BY <1>14, <2>0 DEF ExitZombie, Runs, Wakened, ToWake, Reparented, Zombies, Children, TypeOK, ForkInv, Forks, LifeInv, Alive
  <2>4. LifeInv'
    BY <1>14, <2>0 DEF ExitZombie, Runs, Wakened, ToWake, Reparented, Zombies, Children, TypeOK, ForkInv, Forks, LifeInv, Alive
  <2>5. HasParent'
    BY <1>14, <2>0 DEF ExitZombie, Runs, Wakened, ToWake, Reparented, Zombies, Children, TypeOK, ForkInv, Forks, LifeInv, Alive, HasParent
  <2>6. NoMissedExit'
    BY <1>14, <2>0 DEF ExitZombie, Runs, Wakened, ToWake, Reparented, Zombies, Children, TypeOK, LifeInv, Alive, HasParent, NoMissedExit
  <2> QED
    BY <2>1, <2>2, <2>3, <2>4, <2>5, <2>6
<1>15. ASSUME NEW c \in CPUs, NEW s \in Slots, WaitStart(c, s) PROVE ProcInv'
  <2>0. state[s] = "RUNNING" /\ pc[s] # "scan" /\ on[c] = s /\ on[c] # NoProc
    BY <1>15, RunsRunning DEF WaitStart, InUser, Runs
  <2>1. TypeOK'
    BY <1>15, <2>0 DEF WaitStart, InUser, Runs, TypeOK, Places
  <2>2. CpuInv'
    BY <1>15, <2>0, CPUsAssumption DEF WaitStart, InUser, Runs, TypeOK, CpuInv
  <2>3. ForkInv'
    BY <1>15, <2>0 DEF WaitStart, InUser, Runs, TypeOK, ForkInv, Forks, LifeInv, Alive
  <2>4. LifeInv'
    BY <1>15, <2>0 DEF WaitStart, InUser, Runs, TypeOK, ForkInv, Forks, LifeInv, Alive
  <2>5. HasParent'
    BY <1>15, <2>0 DEF WaitStart, InUser, Runs, TypeOK, ForkInv, Forks, LifeInv, Alive, HasParent
  <2>6. NoMissedExit'
    BY <1>15, <2>0 DEF WaitStart, InUser, Runs, TypeOK, LifeInv, Alive, HasParent, NoMissedExit, Zombies, Children
  <2> QED
    BY <2>1, <2>2, <2>3, <2>4, <2>5, <2>6
<1>16. ASSUME NEW c \in CPUs, NEW s \in Slots, Reap(c, s) PROVE ProcInv'
  <2>1. TypeOK'
    BY <1>16, MaxPidAssumption DEF Reap, Scans, Zombies, Children, TypeOK, Places
  <2>2. CpuInv'
    BY <1>16, CPUsAssumption DEF Reap, Scans, Zombies, Children, TypeOK, CpuInv
  <2>3. ForkInv'
    BY <1>16 DEF Reap, Scans, Zombies, Children, TypeOK, ForkInv, Forks, LifeInv, Alive
  <2>4. LifeInv'
    BY <1>16 DEF Reap, Scans, Zombies, Children, TypeOK, ForkInv, Forks, LifeInv, Alive
  <2>5. HasParent'
    BY <1>16 DEF Reap, Scans, Zombies, Children, TypeOK, ForkInv, Forks, LifeInv, Alive, HasParent
  <2>6. NoMissedExit'
    BY <1>16 DEF Reap, Scans, Zombies, Children, TypeOK, LifeInv, Alive, HasParent, NoMissedExit
  <2> QED
    BY <2>1, <2>2, <2>3, <2>4, <2>5, <2>6
<1>17. ASSUME NEW c \in CPUs, NEW s \in Slots, WaitFail(c, s) PROVE ProcInv'
  <2>1. TypeOK'
    BY <1>17 DEF WaitFail, Scans, TypeOK, Places
  <2>2. CpuInv'
    BY <1>17, CPUsAssumption DEF WaitFail, Scans, TypeOK, CpuInv
  <2>3. ForkInv'
    BY <1>17 DEF WaitFail, Scans, TypeOK, ForkInv, Forks, LifeInv, Alive
  <2>4. LifeInv'
    BY <1>17 DEF WaitFail, Scans, TypeOK, ForkInv, Forks, LifeInv, Alive
  <2>5. HasParent'
    BY <1>17 DEF WaitFail, Scans, TypeOK, ForkInv, Forks, LifeInv, Alive, HasParent
  <2>6. NoMissedExit'
    BY <1>17 DEF WaitFail, Scans, TypeOK, LifeInv, Alive, HasParent, NoMissedExit, Zombies, Children
  <2> QED
    BY <2>1, <2>2, <2>3, <2>4, <2>5, <2>6
<1>18. ASSUME NEW c \in CPUs, NEW s \in Slots, WaitSleep(c, s) PROVE ProcInv'
  <2>1. TypeOK'
    BY <1>18 DEF WaitSleep, Scans, TypeOK, Places
  <2>2. CpuInv'
    BY <1>18, CPUsAssumption DEF WaitSleep, Scans, TypeOK, CpuInv
  <2>3. ForkInv'
    BY <1>18 DEF WaitSleep, Scans, TypeOK, ForkInv, Forks, LifeInv, Alive
  <2>4. LifeInv'
    BY <1>18 DEF WaitSleep, Scans, TypeOK, ForkInv, Forks, LifeInv, Alive
  <2>5. HasParent'
    BY <1>18 DEF WaitSleep, Scans, TypeOK, ForkInv, Forks, LifeInv, Alive, HasParent
  <2>6. NoMissedExit'
    BY <1>18 DEF WaitSleep, Scans, TypeOK, LifeInv, Alive, HasParent, NoMissedExit, Zombies, Children
  <2> QED
    BY <2>1, <2>2, <2>3, <2>4, <2>5, <2>6
<1>19. ASSUME NEW c \in CPUs, NEW s \in Slots, NEW k \in 0 .. MaxPid,
             Kill(c, s, k) PROVE ProcInv'
  <2>0. state[s] = "RUNNING" /\ pc[s] # "scan" /\ on[c] = s /\ on[c] # NoProc
    BY <1>19, RunsRunning DEF Kill, InUser, Runs
  <2>8. PICK t \in Slots : killed' = [killed EXCEPT ![t] = TRUE] /\ state' = Wakened(state, {t})
    BY <1>19, Zenon DEF Kill
  <2>9. UNCHANGED <<pid, parent, kstack, pc, child, nextpid, lock, on>> /\ lock = Free
    BY <1>19, Zenon DEF Kill
  <2>1. TypeOK'
    BY <2>0, <2>8, <2>9 DEF Wakened, TypeOK, Places
  <2>2. CpuInv'
    BY <2>0, <2>8, <2>9, CPUsAssumption DEF Wakened, TypeOK, CpuInv
  <2>3. ForkInv'
    BY <2>0, <2>8, <2>9 DEF Wakened, TypeOK, ForkInv, Forks, LifeInv, Alive
  <2>4. LifeInv'
    BY <2>0, <2>8, <2>9 DEF Wakened, TypeOK, ForkInv, Forks, LifeInv, Alive
  <2>5. HasParent'
    BY <2>0, <2>8, <2>9 DEF Wakened, TypeOK, ForkInv, Forks, LifeInv, Alive, HasParent
  <2>6. NoMissedExit'
    BY <2>0, <2>8, <2>9 DEF Wakened, TypeOK, LifeInv, Alive, HasParent, NoMissedExit, Zombies, Children
  <2> QED
    BY <2>1, <2>2, <2>3, <2>4, <2>5, <2>6
<1> QED
  BY <1>1, <1>2, <1>3, <1>4, <1>5, <1>6, <1>7, <1>8, <1>9, <1>10,
     <1>11, <1>12, <1>13, <1>14, <1>15, <1>16, <1>17, <1>18, <1>19 DEF Next

LEMMA ProcInvariant == Spec => []ProcInv
  BY ProcInitInv, ProcStepInv, PTL DEF Spec

(* The table stays well formed for any number of slots and CPUs. *)
THEOREM ProcTypeCorrect == Spec => []TypeOK
<1>1. ProcInv => TypeOK
  BY DEF ProcInv
<1> QED
  BY <1>1, ProcInvariant, PTL

(* No kernel stack is shared by two CPUs, or freed under one: sched() is   *)
(* entered with ptable.lock held, on every path into it.                   *)
THEOREM StacksSafe == Spec => []StackSafe
<1>1. ProcInv => StackSafe
  BY SlotFacts DEF ProcInv, TypeOK, CpuInv, LifeInv, Alive, StackSafe
<1> QED
  BY <1>1, ProcInvariant, PTL

(* exit() leaves no orphan: every process but init has a parent that can   *)
(* still call wait().                                                      *)
THEOREM ParentsRemain == Spec => []HasParent
<1>1. ProcInv => HasParent
  BY DEF ProcInv
<1> QED
  BY <1>1, ProcInvariant, PTL

(* No exit is missed by a parent asleep in wait(), init included, and      *)
(* kill() finds a process before or after that sleep, never in it.         *)
THEOREM SleepersSee == Spec => []NoBlindSleep
<1>1. ProcInv => NoBlindSleep
  BY DEF ProcInv, LifeInv, NoMissedExit, NoBlindSleep
<1> QED
  BY <1>1, ProcInvariant, PTL

-----------------------------------------------------------------------------
(***************************************************************************)
(* The spin locks, for any CPUs, any finite set of locks and any order in  *)
(* which they nest.                                                        *)
(*                                                                         *)
(* The inductive invariant counts: ncli is the number of locks that the    *)
(* code on a CPU holds, plus the one it is acquiring or has just freed.    *)
(* While it is positive interrupts are off and intena remembers what to    *)
(* restore, so that no handler starts.  A thread that was interrupted was  *)
(* outside of acquire(), or between reading eflags and cli().              *)
(***************************************************************************)
SpinTypeOK ==
    /\ locked \in [Locks -> BOOLEAN]
    /\ owner \in [Locks -> Cpus \cup {NoCpu}]
    /\ intr \in [Cpus -> BOOLEAN]
    /\ ncli \in [Cpus -> Nat]
    /\ intena \in [Cpus -> BOOLEAN]
    /\ at \in [Cpus -> LockPlaces]
    /\ lk \in [Cpus -> Locks \cup {NoLock}]
    /\ eflags \in [Cpus -> BOOLEAN]
    /\ held \in [Cpus -> SUBSET Locks]
    /\ handler \in [Cpus -> BOOLEAN]
    /\ saved \in [Cpus -> [at : LockPlaces, lk : Locks \cup {NoLock},
                           eflags : BOOLEAN, held : SUBSET Locks]]

(* The pushcli() of a lock that is not, or no longer, held. *)
Pending(c) == IF at[c] \in {"check", "spin", "own", "pop"} THEN 1 ELSE 0

(* acquire() and release() on CPU c are where they can be, and interrupts  *)
(* are on exactly when they should be.                                     *)
CodeInv(c) ==
    /\ at[c] # "panic"
    /\ at[c] # "run" => lk[c] \in Locks
    /\ at[c] \in {"push", "check", "spin", "own"} => lk[c] \notin held[c]
    /\ at[c] = "unlock" => lk[c] \in held[c]
    /\ at[c] = "push" => (eflags[c] <=> intr[c])
    /\ ncli[c] = Cardinality(held[c]) + Pending(c)
    /\ ncli[c] > 0 => ~intr[c] /\ (intena[c] <=> ~handler[c])
    /\ ncli[c] = 0 => (intr[c] <=> ~handler[c])
    /\ handler[c] => /\ saved[c].held = {}
                     /\ \/ saved[c].at = "run"
                        \/ saved[c].at = "push" /\ saved[c].lk \in Locks /\ saved[c].eflags

(* CPU c has the lock, recorded or not yet; it is recorded; it still is. *)
Has(c, l) == l \in held[c] \/ (at[c] = "own" /\ lk[c] = l)
Owns(c, l) == l \in held[c] /\ ~(at[c] = "unlock" /\ lk[c] = l)

LockInv ==
    /\ \A c \in Cpus, l \in Locks : Has(c, l) => locked[l]
    /\ \A c, d \in Cpus, l \in Locks : Has(c, l) /\ Has(d, l) => c = d
    /\ \A c \in Cpus, l \in Locks : owner[l] = c <=> Owns(c, l)

SpinInv == SpinTypeOK /\ (\A c \in Cpus : CodeInv(c)) /\ LockInv
-----------------------------------------------------------------------------
(* What the count needs to know of a set of locks. *)
LEMMA SetCount ==
    ASSUME NEW S \in SUBSET Locks
    PROVE  Cardinality(S) \in Nat /\ (Cardinality(S) = 0 <=> S = {})
  BY SpinAssumption, FS_Subset, FS_CardinalityType, FS_EmptySet

LEMMA LockCount ==
    ASSUME NEW S \in SUBSET Locks, NEW l \in Locks
    PROVE  /\ l \notin S => Cardinality(S \cup {l}) = Cardinality(S) + 1
           /\ l \in S => Cardinality(S \ {l}) = Cardinality(S) - 1
<1>1. IsFiniteSet(S)
  BY SpinAssumption, FS_Subset
<1> QED
  BY <1>1, FS_AddElement, FS_RemoveElement, Zenon

(* ncli is zero exactly outside of every acquire() and every lock. *)
LEMMA NcliZero ==
    ASSUME SpinInv, NEW c \in Cpus
    PROVE  ncli[c] = 0 <=> held[c] = {} /\ Pending(c) = 0
<1>1. held[c] \in SUBSET Locks
  BY DEF SpinInv, SpinTypeOK
<1>2. Cardinality(held[c]) \in Nat /\ (Cardinality(held[c]) = 0 <=> held[c] = {})
  BY <1>1, SetCount
<1>3. ncli[c] = Cardinality(held[c]) + Pending(c) /\ Pending(c) \in {0, 1}
  BY DEF SpinInv, CodeInv, Pending
<1> QED
  BY <1>2, <1>3

LEMMA SpinInitInv == SpinInit => SpinInv
<1> SUFFICES ASSUME SpinInit PROVE SpinInv
  OBVIOUS
<1> USE DEF SpinInit
<1>1. SpinTypeOK
  BY DEF SpinTypeOK, LockPlaces
<1>2. Cardinality({}) = 0
  BY FS_EmptySet
<1>3. ASSUME NEW c \in Cpus PROVE CodeInv(c)
  BY <1>2 DEF CodeInv, Pending
<1>4. LockInv
  BY SpinAssumption DEF LockInv, Has, Owns
<1> QED
  BY <1>1, <1>3, <1>4 DEF SpinInv

(* A step of CPU c leaves what CodeInv says of another CPU alone. *)
LEMMA OtherCpu ==
    ASSUME SpinInv, NEW c \in Cpus, NEW d \in Cpus, c # d,
           \/ \E l \in Locks : Acquire(c, l) \/ Release(c, l)
           \/ PushCli(c) \/ CheckFree(c) \/ Xchg(c) \/ Own(c)
           \/ Unlock(c) \/ PopCli(c) \/ Interrupt(c) \/ Iret(c)
    PROVE  CodeInv(d)'
<1>1. /\ at'[d] = at[d] /\ lk'[d] = lk[d] /\ eflags'[d] = eflags[d]
      /\ held'[d] = held[d] /\ intr'[d] = intr[d] /\ ncli'[d] = ncli[d]
      /\ intena'[d] = intena[d] /\ handler'[d] = handler[d] /\ saved'[d] = saved[d]
  <2>2. CASE \E l \in Locks : Acquire(c, l) \/ Release(c, l)
    BY <2>2 DEF SpinInv, SpinTypeOK, Acquire, Release, Go
  <2>3. CASE PushCli(c) \/ CheckFree(c) \/ Xchg(c)
    BY <2>3 DEF SpinInv, SpinTypeOK, PushCli, CheckFree, Xchg, Go
  <2>4. CASE Own(c) \/ Unlock(c)
    BY <2>4 DEF SpinInv, SpinTypeOK, Own, Unlock, Go
  <2>6. CASE PopCli(c)
    BY <2>6 DEF SpinInv, SpinTypeOK, PopCli, Go
  <2>5. CASE Interrupt(c) \/ Iret(c)
    BY <2>5 DEF SpinInv, SpinTypeOK, Interrupt, Iret, Go
  <2> QED
    BY <2>2, <2>3, <2>4, <2>5, <2>6
<1> QED
  BY <1>1 DEF SpinInv, CodeInv, Pending

(* A step that changes no lock and only moves CPU c between places where it *)
(* has what it had keeps LockInv.                                           *)
LEMMA SameLocks ==
    ASSUME SpinInv,
           UNCHANGED <<locked, owner>>,
           \A d \in Cpus, l \in Locks :
               (Has(d, l)' <=> Has(d, l)) /\ (Owns(d, l)' <=> Owns(d, l))
    PROVE  LockInv'
  BY Zenon DEF SpinInv, LockInv

(* SpinInv is kept by every step of a CPU. *)
LEMMA SpinStepInv == SpinInv /\ [SpinNext]_spinVars => SpinInv'
<1> SUFFICES ASSUME SpinInv, [SpinNext]_spinVars PROVE SpinInv'
  OBVIOUS
<1> USE DEF SpinInv
<1>1. CASE UNCHANGED spinVars
  <2> USE <1>1 DEF spinVars, context
  <2>1. SpinTypeOK'
    BY DEF SpinTypeOK
  <2>2. ASSUME NEW c \in Cpus PROVE CodeInv(c)'
    BY DEF CodeInv, Pending
  <2>3. LockInv'
    BY DEF LockInv, Has, Owns
  <2> QED
    BY <2>1, <2>2, <2>3
<1>2. ASSUME NEW c \in Cpus, NEW l \in Locks, Acquire(c, l) PROVE SpinInv'
  <2>1. SpinTypeOK'
    BY <1>2 DEF Acquire, Go, SpinTypeOK, LockPlaces
  <2>2. CodeInv(c)'
    BY <1>2 DEF Acquire, Go, SpinTypeOK, CodeInv, Pending
  <2>3. LockInv'
    BY <1>2, SameLocks DEF Acquire, Go, SpinTypeOK, Has, Owns
  <2> QED
    BY <1>2, <2>1, <2>2, <2>3, OtherCpu
<1>3. ASSUME NEW c \in Cpus, NEW l \in Locks, Release(c, l) PROVE SpinInv'
  <2>1. holding(c, l)
    BY <1>3 DEF Release, holding, LockInv, Has, Owns
  <2>2. SpinTypeOK'
    BY <1>3, Zenon DEF Release, Go, SpinTypeOK, LockPlaces
  <2>3. CodeInv(c)'
    BY <1>3, <2>1 DEF Release, Go, SpinTypeOK, CodeInv, Pending
  <2>4. LockInv'
    BY <1>3, <2>1, SpinAssumption DEF Release, Go, SpinTypeOK, LockInv, Has, Owns
  <2> QED
    BY <1>3, <2>2, <2>3, <2>4, OtherCpu
<1>4. ASSUME NEW c \in Cpus, PushCli(c) PROVE SpinInv'
  <2>1. SpinTypeOK'
    BY <1>4 DEF PushCli, Go, SpinTypeOK, LockPlaces
  <2>2. CodeInv(c)'
    <3>1. ncli[c] \in Nat /\ ncli'[c] = ncli[c] + 1 /\ ~intr'[c]
      BY <1>4 DEF PushCli, SpinTypeOK
    <3>2. intena'[c] <=> ~handler'[c]
      BY <1>4 DEF PushCli, SpinTypeOK, CodeInv
    <3>3. ncli'[c] = Cardinality(held'[c]) + Pending(c)'
      <4>1. Pending(c) = 0 /\ Pending(c)' = 1 /\ held' = held
        BY <1>4 DEF PushCli, Go, SpinTypeOK, Pending
      <4>2. Cardinality(held[c]) \in Nat
        BY SetCount DEF SpinTypeOK
      <4>3. ncli[c] = Cardinality(held[c]) + Pending(c)
        BY DEF CodeInv
      <4> QED
        BY <3>1, <4>1, <4>2, <4>3
    <3> QED
      BY <1>4, <3>1, <3>2, <3>3 DEF PushCli, Go, SpinTypeOK, CodeInv
  <2>3. LockInv'
    BY <1>4, SameLocks DEF PushCli, Go, SpinTypeOK, Has, Owns
  <2> QED
    BY <1>4, <2>1, <2>2, <2>3, OtherCpu
<1>5. ASSUME NEW c \in Cpus, CheckFree(c) PROVE SpinInv'
  <2>1. lk[c] \in Locks /\ ~holding(c, lk[c])
    BY <1>5 DEF CheckFree, holding, CodeInv, LockInv, Owns
  <2>2. SpinTypeOK'
    BY <1>5 DEF CheckFree, Go, SpinTypeOK, LockPlaces
  <2>3. CodeInv(c)'
    BY <1>5, <2>1 DEF CheckFree, Go, SpinTypeOK, CodeInv, Pending
  <2>4. LockInv'
    BY <1>5, <2>1, SameLocks DEF CheckFree, Go, SpinTypeOK, Has, Owns
  <2> QED
    BY <1>5, <2>2, <2>3, <2>4, OtherCpu
<1>6. ASSUME NEW c \in Cpus, Xchg(c) PROVE SpinInv'
  <2>1. lk[c] \in Locks
    BY <1>6 DEF Xchg, CodeInv
  <2>2. SpinTypeOK'
    BY <1>6, Zenon DEF Xchg, Go, SpinTypeOK, LockPlaces
  <2>3. CodeInv(c)'
    BY <1>6 DEF Xchg, Go, SpinTypeOK, CodeInv, Pending
  <2>4. LockInv'
    BY <1>6, <2>1 DEF Xchg, Go, SpinTypeOK, LockInv, Has, Owns
  <2> QED
    BY <1>6, <2>2, <2>3, <2>4, OtherCpu
<1>7. ASSUME NEW c \in Cpus, Own(c) PROVE SpinInv'
  <2>1. lk[c] \in Locks
    BY <1>7 DEF Own, CodeInv
  <2>2. SpinTypeOK'
    BY <1>7, <2>1 DEF Own, Go, SpinTypeOK, LockPlaces
  <2>3. CodeInv(c)'
    <3>1. /\ held[c] \in SUBSET Locks
          /\ held'[c] = held[c] \cup {lk[c]}
          /\ at'[c] = "run"
      BY <1>7 DEF Own, Go, SpinTypeOK
    <3>2. Cardinality(held'[c]) = Cardinality(held[c]) + 1
      BY <1>7, <2>1, <3>1, LockCount DEF Own, CodeInv
    <3>3. ncli'[c] = Cardinality(held'[c]) + Pending(c)'
      <4>1. ncli[c] = Cardinality(held[c]) + Pending(c)
        BY DEF CodeInv
      <4>2. Pending(c) = 1 /\ Pending(c)' = 0 /\ ncli' = ncli
        BY <1>7, <3>1 DEF Own, Pending
      <4>3. Cardinality(held[c]) \in Nat
        BY <3>1, SetCount
      <4> QED
        BY <3>2, <4>1, <4>2, <4>3
    <3> QED
      BY <1>7, <2>1, <3>1, <3>3 DEF Own, SpinTypeOK, CodeInv
  <2>4. LockInv'
    BY <1>7, <2>1 DEF Own, Go, SpinTypeOK, LockInv, Has, Owns
  <2> QED
    BY <1>7, <2>2, <2>3, <2>4, OtherCpu
<1>8. ASSUME NEW c \in Cpus, Unlock(c) PROVE SpinInv'
  <2>1. lk[c] \in Locks /\ lk[c] \in held[c]
    BY <1>8, Zenon DEF Unlock, CodeInv
  <2>2. SpinTypeOK'
    BY <1>8, Zenon DEF Unlock, Go, SpinTypeOK, LockPlaces
  <2>3. CodeInv(c)'
    <3>1. /\ held[c] \in SUBSET Locks
          /\ held'[c] = held[c] \ {lk[c]}
          /\ at'[c] = "pop"
      BY <1>8 DEF Unlock, Go, SpinTypeOK
    <3>2. Cardinality(held'[c]) = Cardinality(held[c]) - 1
      BY <1>8, <2>1, <3>1, LockCount DEF Unlock, CodeInv
    <3>3. ncli'[c] = Cardinality(held'[c]) + Pending(c)'
      <4>1. ncli[c] = Cardinality(held[c]) + Pending(c)
        BY DEF CodeInv
      <4>2. Pending(c) = 0 /\ Pending(c)' = 1 /\ ncli' = ncli
        BY <1>8, <3>1 DEF Unlock, Pending
      <4>3. Cardinality(held[c]) \in Nat
        BY <3>1, SetCount
      <4> QED
        BY <3>2, <4>1, <4>2, <4>3
    <3> QED
      BY <1>8, <2>1, <3>1, <3>3 DEF Unlock, SpinTypeOK, CodeInv
  <2>4. LockInv'
    BY <1>8, <2>1 DEF Unlock, Go, SpinTypeOK, LockInv, Has, Owns
  <2> QED
    BY <1>8, <2>2, <2>3, <2>4, OtherCpu
<1>9. ASSUME NEW c \in Cpus, PopCli(c) PROVE SpinInv'
  <2>1. /\ ncli[c] = Cardinality(held[c]) + 1
        /\ Cardinality(held[c]) \in Nat
        /\ ~intr[c] /\ (intena[c] <=> ~handler[c])
    BY <1>9, SetCount DEF PopCli, CodeInv, Pending, SpinTypeOK
  <2>2. /\ ncli' = [ncli EXCEPT ![c] = @ - 1]
        /\ intr' = [intr EXCEPT ![c] = ncli[c] = 1 /\ intena[c]]
        /\ Go(c, "run")
    <3>1. ~intr[c]
      BY <2>1
    <3>2. ~(ncli[c] - 1 < 0)
      BY <2>1
    <3> QED
      BY <1>9, <3>1, <3>2, Zenon DEF PopCli
  <2>3. SpinTypeOK'
    BY <1>9, <2>1, <2>2 DEF PopCli, Go, SpinTypeOK, LockPlaces
  <2>4. CodeInv(c)'
    BY <1>9, <2>1, <2>2 DEF PopCli, Go, SpinTypeOK, CodeInv, Pending
  <2>5. LockInv'
    BY <1>9, <2>2, SameLocks DEF PopCli, Go, SpinTypeOK, Has, Owns
  <2> QED
    BY <1>9, <2>3, <2>4, <2>5, OtherCpu
<1>10. ASSUME NEW c \in Cpus, Interrupt(c) PROVE SpinInv'
  <2>1. ncli[c] = 0 /\ held[c] = {} /\ at[c] \in {"run", "push"}
    <3>1. ncli[c] = 0
      BY <1>10 DEF Interrupt, CodeInv, SpinTypeOK
    <3>2. held[c] = {} /\ Pending(c) = 0
      BY <3>1, NcliZero
    <3> QED
      BY <3>1, <3>2 DEF CodeInv, Pending, SpinTypeOK, LockPlaces
  <2>2. SpinTypeOK'
    BY <1>10 DEF Interrupt, Go, SpinTypeOK, LockPlaces
  <2>3. CodeInv(c)'
    BY <1>10, <2>1, Zenon DEF Interrupt, Go, SpinTypeOK, CodeInv, Pending
  <2>4. LockInv'
    BY <1>10, <2>1, SameLocks DEF Interrupt, Go, SpinTypeOK, Has, Owns
  <2> QED
    BY <1>10, <2>2, <2>3, <2>4, OtherCpu
<1>11. ASSUME NEW c \in Cpus, Iret(c) PROVE SpinInv'
  <2>1. ncli[c] = 0 /\ saved[c].held = {} /\ saved[c].at \in {"run", "push"}
    BY <1>11, NcliZero DEF Iret, CodeInv, Pending
  <2>2. SpinTypeOK'
    BY <1>11 DEF Iret, SpinTypeOK, LockPlaces
  <2>3. CodeInv(c)'
    <3>1. ncli'[c] = Cardinality(held'[c]) + Pending(c)'
      <4>1. held'[c] = {} /\ at'[c] = saved[c].at /\ ncli'[c] = 0
        BY <1>11, <2>1 DEF Iret, SpinTypeOK
      <4>2. Pending(c)' = 0
        BY <2>1, <4>1 DEF Pending
      <4> QED
        BY <4>1, <4>2, FS_EmptySet
    <3> QED
      BY <1>11, <2>1, <3>1 DEF Iret, SpinTypeOK, CodeInv
  <2>4. LockInv'
    BY <1>11, <2>1, SameLocks DEF Iret, SpinTypeOK, Has, Owns
  <2> QED
    BY <1>11, <2>2, <2>3, <2>4, OtherCpu
<1> QED
  BY <1>1, <1>2, <1>3, <1>4, <1>5, <1>6, <1>7, <1>8, <1>9, <1>10, <1>11 DEF SpinNext

(* What acquire() and release() promise holds for any number of CPUs, any  *)
(* set of locks and any order in which the kernel nests them: no two CPUs  *)
(* hold a lock, nothing panics, interrupts are off while a lock is held    *)
(* and back as they were afterwards.                                       *)
THEOREM SpinLocksExclude == SpinSpec => []LocksExclude
<1>1. SpinInv => LocksExclude
  <2> SUFFICES ASSUME SpinInv PROVE LocksExclude
    OBVIOUS
  <2>1. \A c, d \in Cpus : c # d => held[c] \cap held[d] = {}
    BY DEF SpinInv, SpinTypeOK, LockInv, Has
  <2>2. ASSUME NEW c \in Cpus
        PROVE  /\ at[c] # "panic"
               /\ held[c] # {} => ~intr[c]
               /\ at[c] = "run" /\ held[c] = {} => intr[c] = ~handler[c]
    <3>1. held[c] # {} => ncli[c] > 0
      BY NcliZero DEF SpinInv, SpinTypeOK
    <3>2. at[c] = "run" /\ held[c] = {} => ncli[c] = 0
      BY NcliZero DEF Pending
    <3> QED
      BY <3>1, <3>2 DEF SpinInv, SpinTypeOK, CodeInv
  <2> QED
    BY <2>1, <2>2, Zenon DEF LocksExclude
<1> QED
  BY <1>1, SpinInitInv, SpinStepInv, PTL DEF SpinSpec
=============================================================================
