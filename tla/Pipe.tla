-------------------------------- MODULE Pipe --------------------------------
(***************************************************************************)
(* One pipe (pipe.c) between processes that read, write, close their end,  *)
(* sleep() in between and may be killed.                                   *)
(*                                                                         *)
(* p->lock is explicit.  sleep(chan, &p->lock) takes ptable.lock before it *)
(* releases p->lock, so falling asleep is one step for everyone who needs  *)
(* p->lock; kill() does not need it, and may come between the test of      *)
(* `killed' and that step.                                                 *)
(***************************************************************************)
EXTENDS Integers, Sequences, FiniteSets

CONSTANTS
    Readers, Writers,  \* the processes that hold each end
    PIPESIZE,
    UintMax,           \* nread and nwrite count modulo UintMax + 1
    MaxCount,          \* bytes a call asks for at most (bound)
    Bytes,
    Nobody

Procs == Readers \cup Writers
Uint == 0 .. UintMax

ASSUME SizeAssumption ==
    /\ PIPESIZE \in Nat \ {0} /\ UintMax \in Nat /\ MaxCount \in Nat \ {0}
    /\ (UintMax + 1) % PIPESIZE = 0
    /\ PIPESIZE <= UintMax
ASSUME ProcsAssumption == Readers \cap Writers = {} /\ Nobody \notin Procs

VARIABLES
    data, nread, nwrite, readopen, writeopen,
    lock,      \* holder of p->lock
    holders,   \* processes with a descriptor of their end open
    pc,        \* where each process is in its call
    n,         \* bytes its call still has to copy
    copied,    \* has it copied any?
    killed

pipeVars == <<data, nread, nwrite, readopen, writeopen>>
vars == <<data, nread, nwrite, readopen, writeopen, lock, holders, pc, n,
          copied, killed>>

TypeOK ==
    /\ data \in [0 .. PIPESIZE - 1 -> Bytes]
    /\ nread \in Uint /\ nwrite \in Uint
    /\ readopen \in BOOLEAN /\ writeopen \in BOOLEAN
    /\ lock \in Procs \cup {Nobody}
    /\ holders \subseteq Procs
    /\ pc \in [Procs -> {"idle", "acquire", "loop", "sleep", "asleep", "copy"}]
    /\ n \in [Procs -> 0 .. MaxCount]
    /\ copied \in [Procs -> BOOLEAN]
    /\ killed \in [Procs -> BOOLEAN]

(* pipealloc(), and the forks that share its two files. *)
Init ==
    /\ data \in [0 .. PIPESIZE - 1 -> Bytes]
    /\ nread = 0 /\ nwrite = 0
    /\ readopen = TRUE /\ writeopen = TRUE
    /\ lock = Nobody
    /\ holders = Procs
    /\ pc = [p \in Procs |-> "idle"]
    /\ n = [p \in Procs |-> 0]
    /\ copied = [p \in Procs |-> FALSE]
    /\ killed = [p \in Procs |-> FALSE]


Inc(x) == (x + 1) % (UintMax + 1)

MutFull == nwrite = (nread + PIPESIZE + 1) % (UintMax + 1)

Full == nwrite = (nread + PIPESIZE) % (UintMax + 1)
Empty == nread = nwrite

(* wakeup(&p->nread) and wakeup(&p->nwrite): f with the sleepers of one    *)
(* end on their way back to p->lock.                                       *)
Wakeup(f, W) == [q \in Procs |-> IF q \in W /\ f[q] = "asleep" THEN "acquire" ELSE f[q]]

-----------------------------------------------------------------------------
(* A call of piperead() or pipewrite() for k bytes. *)
Call(p, k) ==
    /\ pc[p] = "idle"
    /\ p \in holders
    /\ ~killed[p]
    /\ pc' = [pc EXCEPT ![p] = "acquire"]
    /\ n' = [n EXCEPT ![p] = k]
    /\ copied' = [copied EXCEPT ![p] = FALSE]
    /\ UNCHANGED <<pipeVars, lock, holders, killed>>

(* acquire(&p->lock), at the start of the call or at the end of sleep(). *)
Acquire(p) ==
    /\ pc[p] = "acquire"
    /\ lock = Nobody
    /\ lock' = p
    /\ pc' = [pc EXCEPT ![p] = "loop"]
    /\ UNCHANGED <<pipeVars, holders, n, copied, killed>>

(* release(&p->lock) and return, pc being f before. *)
Return(p, f) ==
    /\ lock' = Nobody
    /\ pc' = [f EXCEPT ![p] = "idle"]
    /\ n' = [n EXCEPT ![p] = 0]

(* sleep() on the process's end, with kill() no longer looked at. *)
FallAsleep(p) ==
    /\ pc[p] = "sleep"
    /\ lock' = Nobody
    /\ pc' = [pc EXCEPT ![p] = "asleep"]
    /\ UNCHANGED <<pipeVars, holders, n, copied, killed>>

-----------------------------------------------------------------------------
(* pipewrite() *)
PutByte(p, v) ==
    /\ p \in Writers
    /\ pc[p] = "loop"
    /\ n[p] > 0
    /\ ~Full
    /\ data' = [data EXCEPT ![nwrite % PIPESIZE] = v]
    /\ nwrite' = Inc(nwrite)
    /\ n' = [n EXCEPT ![p] = @ - 1]
    /\ UNCHANGED <<nread, readopen, writeopen, lock, holders, pc, copied, killed>>

WriteFail(p) ==
    /\ p \in Writers
    /\ pc[p] = "loop"
    /\ n[p] > 0
    /\ Full
    /\ ~readopen \/ killed[p]
    /\ Return(p, pc)
    /\ UNCHANGED <<pipeVars, holders, copied, killed>>

WriteWait(p) ==
    /\ p \in Writers
    /\ pc[p] = "loop"
    /\ n[p] > 0
    /\ Full
    /\ readopen /\ ~killed[p]
    /\ pc' = [Wakeup(pc, Readers) EXCEPT ![p] = "sleep"]
    /\ UNCHANGED <<pipeVars, lock, holders, n, copied, killed>>

WriteDone(p) ==
    /\ p \in Writers
    /\ pc[p] = "loop"
    /\ n[p] = 0
    /\ Return(p, Wakeup(pc, Readers))
    /\ UNCHANGED <<pipeVars, holders, copied, killed>>

-----------------------------------------------------------------------------
(* piperead() *)
ReadFail(p) ==
    /\ p \in Readers
    /\ pc[p] = "loop"
    /\ Empty /\ writeopen
    /\ killed[p]
    /\ Return(p, pc)
    /\ UNCHANGED <<pipeVars, holders, copied, killed>>

ReadWait(p) ==
    /\ p \in Readers
    /\ pc[p] = "loop"
    /\ Empty /\ writeopen
    /\ ~killed[p]
    /\ pc' = [pc EXCEPT ![p] = "sleep"]
    /\ UNCHANGED <<pipeVars, lock, holders, n, copied, killed>>

ReadReady(p) ==
    /\ p \in Readers
    /\ pc[p] = "loop"
    /\ ~Empty \/ ~writeopen
    /\ pc' = [pc EXCEPT ![p] = "copy"]
    /\ UNCHANGED <<pipeVars, lock, holders, n, copied, killed>>

GetByte(p) ==
    /\ pc[p] = "copy"
    /\ n[p] > 0
    /\ ~Empty
    /\ nread' = Inc(nread)
    /\ n' = [n EXCEPT ![p] = @ - 1]
    /\ copied' = [copied EXCEPT ![p] = TRUE]
    /\ UNCHANGED <<data, nwrite, readopen, writeopen, lock, holders, pc, killed>>

ReadDone(p) ==
    /\ pc[p] = "copy"
    /\ n[p] = 0 \/ Empty
    /\ Return(p, Wakeup(pc, Writers))
    /\ UNCHANGED <<pipeVars, holders, copied, killed>>

-----------------------------------------------------------------------------
MutLastOf(p, E) == p \in E

(* fileclose(): the last descriptor of an end closes it, by pipeclose(). *)
LastOf(p, E) == p \in E /\ holders \cap E = {p}

MutCloseQuiet(p) ==
    /\ pc[p] = "idle"
    /\ p \in holders
    /\ lock = Nobody
    /\ holders' = holders \ {p}
    /\ readopen' = (readopen /\ ~LastOf(p, Readers))
    /\ writeopen' = (writeopen /\ ~LastOf(p, Writers))
    /\ UNCHANGED <<data, nread, nwrite, lock, pc, n, copied, killed>>

Close(p) ==
    /\ pc[p] = "idle"
    /\ p \in holders
    /\ lock = Nobody
    /\ holders' = holders \ {p}
    /\ readopen' = (readopen /\ ~LastOf(p, Readers))
    /\ writeopen' = (writeopen /\ ~LastOf(p, Writers))
    /\ pc' = CASE LastOf(p, Writers) -> Wakeup(pc, Readers)
               [] LastOf(p, Readers) -> Wakeup(pc, Writers)
               [] OTHER -> pc
    /\ UNCHANGED <<data, nread, nwrite, lock, n, copied, killed>>

(* kill(): wakes a sleeper, and only a sleeper. *)
Kill(p) ==
    /\ ~killed[p]
    /\ killed' = [killed EXCEPT ![p] = TRUE]
    /\ pc' = Wakeup(pc, {p})
    /\ UNCHANGED <<pipeVars, lock, holders, n, copied>>

Step(p) ==
    \/ Acquire(p) \/ FallAsleep(p)
    \/ (\E v \in Bytes : PutByte(p, v)) \/ WriteFail(p) \/ WriteWait(p) \/ WriteDone(p)
    \/ ReadFail(p) \/ ReadWait(p) \/ ReadReady(p) \/ GetByte(p) \/ ReadDone(p)

Next ==
    \E p \in Procs :
      \/ \E k \in 0 .. MaxCount : Call(p, k)
      \/ Step(p)
      \/ Close(p)
      \/ Kill(p)

Spec == Init /\ [][Next]_vars

-----------------------------------------------------------------------------
(* The bytes in the pipe, oldest first. *)
Contents ==
    [i \in 1 .. (nwrite - nread) % (UintMax + 1) |->
        data[(nread + i - 1) % PIPESIZE]]

Queue == INSTANCE Fifo WITH
    Capacity <- PIPESIZE, queue <- Contents, readEnd <- readopen, writeEnd <- writeopen

(* Bytes leave the pipe in the order they entered it, none lost, none      *)
(* twice, never more than PIPESIZE at a time: also when nread and nwrite   *)
(* overflow, with several readers and writers and kills in between.        *)
IsFifo == Queue!Spec

(* No lost wakeup: nobody sleeps over data, over free space or over an end *)
(* that has been closed, unless the process inside the pipe is still to    *)
(* wake them.  The one exception: a writer killed while the pipe was full  *)
(* returned from pipewrite()'s loop without the wakeup at its end, and     *)
(* readers sleep over the bytes it put in until the next write or close.   *)
NoMissedWakeup ==
    lock = Nobody =>
        \A p \in Procs : pc[p] = "asleep" =>
            IF p \in Readers
            THEN writeopen /\ (Empty \/ \E w \in Writers : killed[w])
            ELSE Full /\ readopen

(* Nothing is mistaken about the ends: read() returns 0 only when all the  *)
(* writers have closed and every byte has been taken, and when both ends   *)
(* are closed, which frees the pipe, nobody is in it.                      *)
EndsHonoured ==
    /\ TypeOK
    /\ \A p \in Procs : pc[p] = "copy" /\ Empty /\ ~copied[p] => ~writeopen
    /\ ~readopen /\ ~writeopen => \A p \in Procs : pc[p] = "idle"
=============================================================================
