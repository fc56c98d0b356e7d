-------------------------------- MODULE Log ---------------------------------
(***************************************************************************)
(* The write-ahead log (log.c) over the buffer cache and the disk: begin_op*)
(* and end_op of concurrent file system calls, log_write, the commit as a  *)
(* series of block writes, crashes between any two of them, and recovery   *)
(* at boot.                                                                *)
(*                                                                         *)
(* log.lock makes each critical section of begin_op, end_op and log_write  *)
(* one step; a block write reaches the disk entirely or not at all.  The   *)
(* log's own blocks are written through the cache at once, so only home    *)
(* blocks have a cached copy here.                                         *)
(***************************************************************************)
EXTENDS Integers, Sequences, FiniteSets, Functions

CONSTANTS
    Procs,        \* processes that make file system calls
    Blocks,       \* home blocks of the file system
    Vals,         \* contents of a block
    NoVal,        \* not cached
    MAXOPBLOCKS,  \* blocks begin_op() reserves for a call
    OpBlocks,     \* distinct blocks a call really writes at most
    LOGSIZE,      \* entries of the header's block array
    NLog          \* log.size: blocks of the on-disk log, header included

ASSUME SizeAssumption ==
    /\ MAXOPBLOCKS \in Nat /\ LOGSIZE \in Nat /\ NLog \in Nat
    /\ OpBlocks \in 1 .. MAXOPBLOCKS
    /\ MAXOPBLOCKS <= LOGSIZE
ASSUME ValAssumption == NoVal \notin Vals
ASSUME ProcsAssumption == IsFiniteSet(Procs)

VARIABLES
    disk,         \* home blocks on disk
    dlog,         \* log data blocks on disk
    dhead,        \* log header on disk: the home block of each entry
    cache,        \* cached copy of each home block, or NoVal
    dirty,        \* home blocks with B_DIRTY set
    lh,           \* log.lh, the header in memory
    outstanding,  \* log.outstanding
    committing,   \* log.committing
    pc,           \* where each process is in begin_op .. end_op
    wrote,        \* the blocks the current call of each process has logged
    step,         \* where commit() or recover_from_log() is
    tail,         \* its loop variable
    recovering    \* initlog() has not returned yet

diskVars == <<disk, dlog, dhead>>
opVars == <<outstanding, committing, pc, wrote>>
vars == <<disk, dlog, dhead, cache, dirty, lh, outstanding, committing,
          pc, wrote, step, tail, recovering>>

TypeOK ==
    /\ disk \in [Blocks -> Vals]
    /\ dlog \in [1 .. LOGSIZE -> Vals]
    /\ dhead \in Seq(Blocks)
    /\ cache \in [Blocks -> Vals \cup {NoVal}]
    /\ dirty \subseteq Blocks
    /\ lh \in Seq(Blocks)
    /\ outstanding \in 0 .. Cardinality(Procs)
    /\ committing \in BOOLEAN
    /\ pc \in [Procs -> {"idle", "begin", "sleep", "op", "commit"}]
    /\ wrote \in [Procs -> SUBSET Blocks]
    /\ step \in {"none", "write_log", "write_head", "install", "clear"}
    /\ tail \in Nat
    /\ recovering \in BOOLEAN

(* mkfs wrote a file system and an empty log; boot starts with recovery. *)
Init ==
    /\ disk \in [Blocks -> Vals]
    /\ dlog \in [1 .. LOGSIZE -> Vals]
    /\ \A i, j \in 1 .. LOGSIZE : dlog[i] = dlog[j]
    /\ dhead = <<>>
    /\ cache = [b \in Blocks |-> NoVal]
    /\ dirty = {}
    /\ lh = <<>>
    /\ outstanding = 0
    /\ committing = FALSE
    /\ pc = [p \in Procs |-> "idle"]
    /\ wrote = [p \in Procs |-> {}]
    /\ step = "none"
    /\ tail = 1
    /\ recovering = TRUE

(* bread(): the cached copy, or the block from disk. *)
Read(b) == IF cache[b] # NoVal THEN cache[b] ELSE disk[b]

-----------------------------------------------------------------------------
(* The buffer cache: a bread() by anyone, and bget() recycling a buffer    *)
(* that is not dirty.                                                      *)
Load(b) ==
    /\ ~recovering
    /\ cache[b] = NoVal
    /\ cache' = [cache EXCEPT ![b] = disk[b]]
    /\ UNCHANGED <<disk, dlog, dhead, dirty, lh, opVars, step, tail, recovering>>

Evict(b) ==
    /\ cache[b] # NoVal
    /\ b \notin dirty
    /\ cache' = [cache EXCEPT ![b] = NoVal]
    /\ UNCHANGED <<disk, dlog, dhead, dirty, lh, opVars, step, tail, recovering>>

-----------------------------------------------------------------------------
MutNoReservation == ~committing /\ Len(lh) + MAXOPBLOCKS <= LOGSIZE

(* begin_op()'s test: is there room for one more call? *)
Admits ==
    /\ ~committing
    /\ Len(lh) + (outstanding + 1) * MAXOPBLOCKS <= LOGSIZE

BeginOp(p) ==
    /\ ~recovering
    /\ pc[p] \in {"idle", "begin"}
    /\ Admits
    /\ outstanding' = outstanding + 1
    /\ pc' = [pc EXCEPT ![p] = "op"]
    /\ wrote' = [wrote EXCEPT ![p] = {}]
    /\ UNCHANGED <<diskVars, cache, dirty, lh, committing, step, tail, recovering>>

(* sleep(&log, &log.lock) *)
BeginSleep(p) ==
    /\ ~recovering
    /\ pc[p] \in {"idle", "begin"}
    /\ ~Admits
    /\ pc' = [pc EXCEPT ![p] = "sleep"]
    /\ UNCHANGED <<diskVars, cache, dirty, lh, outstanding, committing, wrote,
                   step, tail, recovering>>

(* wakeup(&log): sleepers go round begin_op()'s loop again. *)
Woken(f) == [q \in Procs |-> IF f[q] = "sleep" THEN "begin" ELSE f[q]]

(* log_write()'s panic test on the number of logged blocks. *)
LogFull == Len(lh) >= LOGSIZE \/ Len(lh) >= NLog - 1

(* Log absorption: a block is entered once. *)
Logged(b) == IF b \in Range(lh) THEN lh ELSE Append(lh, b)

(* A call modifies block b and hands it to log_write(). *)
LogWrite(p, b, v) ==
    /\ pc[p] = "op"
    /\ b \in wrote[p] \/ Cardinality(wrote[p]) < OpBlocks
    /\ ~LogFull
    /\ cache' = [cache EXCEPT ![b] = v]
    /\ dirty' = dirty \cup {b}
    /\ lh' = Logged(b)
    /\ wrote' = [wrote EXCEPT ![p] = @ \cup {b}]
    /\ UNCHANGED <<diskVars, outstanding, committing, pc, step, tail, recovering>>

(* end_op(): the last call out commits, the others wake the waiters. *)
EndOp(p) ==
    /\ pc[p] = "op"
    /\ outstanding' = outstanding - 1
    /\ IF outstanding = 1
       THEN /\ committing' = TRUE
            /\ pc' = [pc EXCEPT ![p] = "commit"]
            /\ step' = IF lh # <<>> THEN "write_log" ELSE "none"
            /\ tail' = 1
       ELSE /\ pc' = Woken([pc EXCEPT ![p] = "idle"])
            /\ UNCHANGED <<committing, step, tail>>
    /\ UNCHANGED <<diskVars, cache, dirty, lh, wrote, recovering>>

-----------------------------------------------------------------------------
(* One iteration of a loop over the header's entries, then `next'. *)
Advance(next) ==
    IF tail < Len(lh) THEN tail' = tail + 1 /\ UNCHANGED step
                      ELSE tail' = 1 /\ step' = next

MutWriteLogNoHead ==
    /\ step = "write_log"
    /\ dlog' = [dlog EXCEPT ![tail] = Read(lh[tail])]
    /\ Advance("install")
    /\ UNCHANGED <<disk, dhead, cache, dirty, lh, opVars, recovering>>

(* write_log(): the next logged block goes to its log block. *)
WriteLog ==
    /\ step = "write_log"
    /\ dlog' = [dlog EXCEPT ![tail] = Read(lh[tail])]
    /\ Advance("write_head")
    /\ UNCHANGED <<disk, dhead, cache, dirty, lh, opVars, recovering>>

MutHeadUnpins ==
    /\ step = "write_head"
    /\ dhead' = lh
    /\ dirty' = {}
    /\ step' = "install"
    /\ UNCHANGED <<disk, dlog, cache, lh, opVars, tail, recovering>>

(* write_head(): the commit point. *)
WriteHead ==
    /\ step = "write_head"
    /\ dhead' = lh
    /\ step' = "install"
    /\ UNCHANGED <<disk, dlog, cache, dirty, lh, opVars, tail, recovering>>

(* install_trans(): the next log block goes to its home block. *)
InstallTrans ==
    /\ step = "install"
    /\ LET b == lh[tail]
       IN  /\ disk' = [disk EXCEPT ![b] = dlog[tail]]
           /\ cache' = [cache EXCEPT ![b] = dlog[tail]]
           /\ dirty' = dirty \ {b}
    /\ Advance("clear")
    /\ UNCHANGED <<dlog, dhead, lh, opVars, recovering>>

(* log.lh.n = 0; write_head(): the end of commit() and of recovery. *)
ClearLog ==
    /\ step = "clear"
    /\ lh' = <<>>
    /\ dhead' = <<>>
    /\ step' = "none"
    /\ recovering' = FALSE
    /\ UNCHANGED <<disk, dlog, cache, dirty, opVars, tail>>

MutCommitNoWakeup(p) ==
    /\ pc[p] = "commit"
    /\ step = "none"
    /\ committing' = FALSE
    /\ pc' = [pc EXCEPT ![p] = "idle"]
    /\ UNCHANGED <<diskVars, cache, dirty, lh, outstanding, wrote, step, tail,
                   recovering>>

(* end_op() after commit() returned. *)
CommitDone(p) ==
    /\ pc[p] = "commit"
    /\ step = "none"
    /\ committing' = FALSE
    /\ pc' = Woken([pc EXCEPT ![p] = "idle"])
    /\ UNCHANGED <<diskVars, cache, dirty, lh, outstanding, wrote, step, tail,
                   recovering>>

-----------------------------------------------------------------------------
(* Power fails: everything but the disk is lost. *)
Crash ==
    /\ cache' = [b \in Blocks |-> NoVal]
    /\ dirty' = {}
    /\ lh' = <<>>
    /\ outstanding' = 0
    /\ committing' = FALSE
    /\ pc' = [p \in Procs |-> "idle"]
    /\ wrote' = [p \in Procs |-> {}]
    /\ step' = "none"
    /\ tail' = 1
    /\ recovering' = TRUE
    /\ UNCHANGED diskVars

(* recover_from_log(): read_head(), then install_trans() and clear. *)
ReadHead ==
    /\ recovering
    /\ step = "none"
    /\ lh' = dhead
    /\ step' = IF dhead # <<>> THEN "install" ELSE "clear"
    /\ UNCHANGED <<diskVars, cache, dirty, opVars, tail, recovering>>

Commit == WriteLog \/ WriteHead \/ InstallTrans \/ ClearLog

Next ==
    \/ \E b \in Blocks : Load(b) \/ Evict(b)
    \/ \E p \in Procs : BeginOp(p) \/ BeginSleep(p) \/ EndOp(p) \/ CommitDone(p)
    \/ \E p \in Procs, b \in Blocks, v \in Vals : LogWrite(p, b, v)
    \/ Commit
    \/ Crash
    \/ ReadHead

Spec == Init /\ [][Next]_vars

(* A call in progress ends, a commit or a recovery goes on: begin_op and   *)
(* end_op never wait for anything else, and the machine does not crash for *)
(* ever.                                                                   *)
Fairness ==
    /\ \A p \in Procs : WF_vars(EndOp(p)) /\ WF_vars(CommitDone(p))
    /\ WF_vars(Commit)
    /\ WF_vars(ReadHead)

FairSpec == Spec /\ Fairness

-----------------------------------------------------------------------------
(* Home blocks d with the log blocks l installed where header h says. *)
Overlay(h, l, d) ==
    [b \in Blocks |-> IF b \in Range(h)
                      THEN l[CHOOSE i \in DOMAIN h : h[i] = b]
                      ELSE d[b]]

(* What a reboot would make of the disk. *)
Durable == Overlay(dhead, dlog, disk)

(* The latest content of every block, as calls see it. *)
Current ==
    [b \in Blocks |-> IF cache[b] # NoVal THEN cache[b] ELSE Durable[b]]

(* The processes between begin_op() and end_op(). *)
Active == {p \in Procs : pc[p] = "op"}

(* Every behaviour of log.c is one of AtomicDisk: a call's writes become   *)
(* durable all together, with those of the calls it overlaps, at the       *)
(* header write; a crash at any other point loses whole calls only.        *)
Abstract == INSTANCE AtomicDisk WITH
    durable <- Durable, current <- Current, active <- Active

Atomic == Abstract!Spec

(* bread() never returns stale data to a call: a block that is not cached  *)
(* has its latest content at its home on disk.                             *)
FreshReads ==
    ~recovering => \A b \in Blocks : cache[b] = NoVal => disk[b] = Durable[b]

(* Once end_op() of the last call has returned, nothing is left to lose.   *)
Quiescent ==
    ~recovering /\ outstanding = 0 /\ ~committing =>
        /\ \A b \in Blocks : disk[b] = Read(b)
        /\ lh = <<>> /\ dhead = <<>> /\ dirty = {}

(* The home blocks are never behind what calls may rely on: bread() does   *)
(* not return stale data (bio.c:82), and when the last end_op() has        *)
(* returned all is at home and the log is empty (log.c:146-170).           *)
HomeHonest == FreshReads /\ Quiescent

(* The panics of log_write() and end_op() are unreachable as long as no    *)
(* call writes more blocks than OpBlocks: a call in progress always finds  *)
(* room to log (also when it logs a block again), is counted, and never    *)
(* overlaps a commit.                                                      *)
NoPanic ==
    Active # {} =>
        ~LogFull /\ outstanding >= 1 /\ ~committing

(* No lost wakeup: whoever sleeps in begin_op() waits for a call or a      *)
(* commit that is still going to wake it.                                  *)
SomeoneWakes ==
    (\E p \in Procs : pc[p] = "sleep") =>
        outstanding > 0 \/ \E q \in Procs : pc[q] = "commit"

(* And it is woken. *)
SleepersWake == \A p \in Procs : pc[p] = "sleep" ~> pc[p] # "sleep"
=============================================================================
