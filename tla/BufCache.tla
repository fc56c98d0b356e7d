------------------------------ MODULE BufCache ------------------------------
(***************************************************************************)
(* The buffer cache (bio.c) with its sleep locks (sleeplock.c) over the    *)
(* disk driver: the request queue of ide.c, or memide.c, which the kernel  *)
(* with the file system in memory is linked with.                          *)
(*                                                                         *)
(* bcache.lock, lk->lk and idelock each make one critical section a step.  *)
(* What happens between them is what matters: bget() counts its reference  *)
(* first and takes the buffer's sleep lock later, brelse() gives them back *)
(* in the same order, and iderw() sleeps until ideintr().                  *)
(*                                                                         *)
(* A process has two hands.  With a buffer in the first it may ask for one *)
(* more, as bmap() and itrunc() do with an indirect block, write_log() and *)
(* install_trans() with a block of the log; nothing in the kernel takes a  *)
(* third.  The second block always comes later in one order of all blocks: *)
(* those of the log, indirect blocks, the others.                          *)
(***************************************************************************)
EXTENDS Integers, Sequences, FiniteSets, Functions

CONSTANTS
    Procs,
    NBUF,       \* buffers of the cache
    Blocks,     \* disk blocks
    Vals,       \* contents of a block
    NoBlock,    \* a buffer that never had a block
    Nobody,     \* nobody holds the lock
    Rank,       \* place of a block in the order in which two are taken
    MaxPinned,  \* blocks the log's header has room for
    Faulty      \* blocks for which the drive may report an error

Hands == Procs \X {1, 2}
Bufs == 1 .. NBUF
NoBuf == 0

ASSUME NBUFAssumption == NBUF \in Nat \ {0} /\ MaxPinned \in Nat
ASSUME NoBlockAssumption == NoBlock \notin Blocks /\ Nobody \notin Hands
ASSUME RankAssumption == Rank \in [Blocks -> Nat]
ASSUME ProcsAssumption == IsFiniteSet(Procs)

VARIABLES
    block,    \* b->blockno
    valid,    \* B_VALID
    dirty,    \* B_DIRTY
    refcnt,   \* b->refcnt
    data,     \* b->data
    locked,   \* holder of b->lock
    lru,      \* the buffers from bcache.head.next on, most recent first
    queue,    \* idequeue
    disk,     \* the blocks on disk
    pc,       \* how far each hand of a process is with its buffer
    buf,      \* the buffer it has a reference to
    lh,       \* log.lh: blocks that log_write() recorded
    failed,   \* blocks whose last request ended in an error (history)
    memfs     \* the kernel is linked with memide.c

bufVars == <<block, valid, dirty, refcnt, data>>
vars == <<block, valid, dirty, refcnt, data, locked, lru, queue, disk, pc, buf,
          lh, failed, memfs>>

TypeOK ==
    /\ block \in [Bufs -> Blocks \cup {NoBlock}]
    /\ valid \in [Bufs -> BOOLEAN] /\ dirty \in [Bufs -> BOOLEAN]
    /\ refcnt \in [Bufs -> 0 .. Cardinality(Hands)]
    /\ data \in [Bufs -> Vals]
    /\ locked \in [Bufs -> Hands \cup {Nobody}]
    /\ lru \in [Bufs -> Bufs] /\ Range(lru) = Bufs
    /\ queue \in Seq(Bufs) /\ IsInjective(queue)
    /\ disk \in [Blocks -> Vals]
    /\ pc \in [Hands -> {"idle", "lock", "asleep", "locked", "read", "hold",
                         "write", "unref"}]
    /\ buf \in [Hands -> Bufs \cup {NoBuf}]
    /\ lh \subseteq Blocks /\ failed \subseteq Blocks
    /\ memfs \in BOOLEAN

(* binit(): every buffer is put at the head of the list. *)
Init ==
    /\ block = [b \in Bufs |-> NoBlock]
    /\ valid = [b \in Bufs |-> FALSE] /\ dirty = [b \in Bufs |-> FALSE]
    /\ refcnt = [b \in Bufs |-> 0]
    /\ \E v \in Vals : data = [b \in Bufs |-> v]
    /\ locked = [b \in Bufs |-> Nobody]
    /\ lru = [i \in Bufs |-> NBUF + 1 - i]
    /\ queue = <<>>
    /\ disk \in [Blocks -> Vals]
    /\ pc = [h \in Hands |-> "idle"]
    /\ buf = [h \in Hands |-> NoBuf]
    /\ lh = {} /\ failed = {}
    /\ memfs \in BOOLEAN

-----------------------------------------------------------------------------
Goto(h, place) == pc' = [pc EXCEPT ![h] = place]

Other(h) == <<h[1], 3 - h[2]>>

(* The process of hand h is ready to ask for block k: it has no buffer, or *)
(* it has one, of a block before k.                                        *)
MayAsk(h, k) ==
    /\ pc[h] = "idle"
    /\ h[2] = 1 => pc[Other(h)] = "idle"
    /\ h[2] = 2 => pc[Other(h)] = "hold" /\ Rank[block[buf[Other(h)]]] < Rank[k]

(* The process is between its calls, with the buffer of h at its disposal. *)
Between(h) == pc[h] = "hold" /\ pc[Other(h)] \in {"idle", "hold"}

MutBgetNoRef(h, k) ==
    /\ MayAsk(h, k)
    /\ \E b \in Bufs : block[b] = k /\ buf' = [buf EXCEPT ![h] = b]
    /\ Goto(h, "lock")
    /\ UNCHANGED <<bufVars, locked, lru, queue, disk, lh, failed, memfs>>

(* bget(), block k is cached. *)
BgetHit(h, k) ==
    /\ MayAsk(h, k)
    /\ \E b \in Bufs :
         /\ block[b] = k
         /\ refcnt' = [refcnt EXCEPT ![b] = @ + 1]
         /\ buf' = [buf EXCEPT ![h] = b]
    /\ Goto(h, "lock")
    /\ UNCHANGED <<block, valid, dirty, data, locked, lru, queue, disk, lh, failed, memfs>>

MutRecyclable(b) == refcnt[b] = 0

(* The buffers bget() may recycle. *)
Recyclable(b) == refcnt[b] = 0 /\ ~dirty[b]

(* bget(), block k is not cached: the least recently used buffer that is   *)
(* free goes to k.                                                         *)
BgetRecycle(h, k) ==
    /\ MayAsk(h, k)
    /\ \A b \in Bufs : block[b] # k
    /\ \E i \in Bufs :
         /\ Recyclable(lru[i])
         /\ \A j \in i + 1 .. NBUF : ~Recyclable(lru[j])
         /\ LET b == lru[i]
            IN  /\ block' = [block EXCEPT ![b] = k]
                /\ valid' = [valid EXCEPT ![b] = FALSE]
                /\ dirty' = [dirty EXCEPT ![b] = FALSE]
                /\ refcnt' = [refcnt EXCEPT ![b] = 1]
                /\ buf' = [buf EXCEPT ![h] = b]
    /\ Goto(h, "lock")
    /\ UNCHANGED <<data, locked, lru, queue, disk, lh, failed, memfs>>

(* acquiresleep() *)
AcquireSleep(h) ==
    /\ pc[h] = "lock"
    /\ locked[buf[h]] = Nobody
    /\ locked' = [locked EXCEPT ![buf[h]] = h]
    /\ Goto(h, "locked")
    /\ UNCHANGED <<bufVars, lru, queue, disk, buf, lh, failed, memfs>>

SleepOnLock(h) ==
    /\ pc[h] = "lock"
    /\ locked[buf[h]] # Nobody
    /\ Goto(h, "asleep")
    /\ UNCHANGED <<bufVars, locked, lru, queue, disk, buf, lh, failed, memfs>>

-----------------------------------------------------------------------------
(* iderw() of ide.c: append the buffer to idequeue and sleep. *)
Iderw(h, place) ==
    /\ ~memfs
    /\ queue' = Append(queue, buf[h])
    /\ Goto(h, place)

(* bread(): the buffer as it is, or read from disk first. *)
BreadValid(h) ==
    /\ pc[h] = "locked"
    /\ valid[buf[h]]
    /\ Goto(h, "hold")
    /\ UNCHANGED <<bufVars, locked, lru, queue, disk, buf, lh, failed, memfs>>

BreadDisk(h) ==
    /\ pc[h] = "locked"
    /\ ~valid[buf[h]]
    /\ Iderw(h, "read")
    /\ UNCHANGED <<bufVars, locked, lru, disk, buf, lh, failed, memfs>>

(* The holder changes the data and calls bwrite() ... *)
Bwrite(h, v) ==
    /\ Between(h)
    /\ data' = [data EXCEPT ![buf[h]] = v]
    /\ dirty' = [dirty EXCEPT ![buf[h]] = TRUE]
    /\ Iderw(h, "write")
    /\ UNCHANGED <<block, valid, refcnt, locked, lru, disk, buf, lh, failed, memfs>>

(* ... or log_write(), which pins it and leaves the write to a later one.  *)
LogWrite(h, v) ==
    /\ Between(h)
    /\ Cardinality(lh \cup {block[buf[h]]}) <= MaxPinned
    /\ lh' = lh \cup {block[buf[h]]}
    /\ data' = [data EXCEPT ![buf[h]] = v]
    /\ dirty' = [dirty EXCEPT ![buf[h]] = TRUE]
    /\ UNCHANGED <<block, valid, refcnt, locked, lru, queue, disk, pc, buf, failed, memfs>>

(* commit(): install_trans() has written the blocks of the log, and the    *)
(* log is emptied.                                                         *)
ClearLog ==
    /\ lh # {} /\ \A b \in Bufs : block[b] \in lh => ~dirty[b]
    /\ lh' = {}
    /\ UNCHANGED <<bufVars, locked, lru, queue, disk, pc, buf, failed, memfs>>

(* The same reading and writing with iderw() of memide.c, at once. *)
BreadMem(h) ==
    /\ memfs
    /\ pc[h] = "locked"
    /\ ~valid[buf[h]]
    /\ data' = [data EXCEPT ![buf[h]] = disk[block[buf[h]]]]
    /\ valid' = [valid EXCEPT ![buf[h]] = TRUE]
    /\ Goto(h, "hold")
    /\ UNCHANGED <<block, dirty, refcnt, locked, lru, queue, disk, buf, lh, failed, memfs>>

BwriteMem(h, v) ==
    /\ memfs
    /\ Between(h)
    /\ data' = [data EXCEPT ![buf[h]] = v]
    /\ disk' = [disk EXCEPT ![block[buf[h]]] = v]
    /\ dirty' = [dirty EXCEPT ![buf[h]] = FALSE]
    /\ valid' = [valid EXCEPT ![buf[h]] = TRUE]
    /\ UNCHANGED <<block, refcnt, locked, lru, queue, pc, buf, lh, failed, memfs>>

(* The processes sleeping on the I/O of buffer b go on. *)
IoDone(f, b) ==
    [q \in Hands |-> IF f[q] \in {"read", "write"} /\ buf[q] = b THEN "hold" ELSE f[q]]

MutIdeintrDirty ==
    /\ queue # <<>>
    /\ LET b == Head(queue)
       IN  /\ IF dirty[b]
              THEN disk' = [disk EXCEPT ![block[b]] = data[b]] /\ UNCHANGED data
              ELSE data' = [data EXCEPT ![b] = disk[block[b]]] /\ UNCHANGED disk
           /\ valid' = [valid EXCEPT ![b] = TRUE]
           /\ pc' = IoDone(pc, b)
           /\ failed' = failed \ {block[b]}
    /\ queue' = Tail(queue)
    /\ UNCHANGED <<block, dirty, refcnt, locked, lru, buf, lh, memfs>>

(* ideintr(): the request at the head is complete ... *)
Ideintr ==
    /\ queue # <<>>
    /\ LET b == Head(queue)
       IN  /\ IF dirty[b]
              THEN disk' = [disk EXCEPT ![block[b]] = data[b]] /\ UNCHANGED data
              ELSE data' = [data EXCEPT ![b] = disk[block[b]]] /\ UNCHANGED disk
           /\ valid' = [valid EXCEPT ![b] = TRUE]
           /\ dirty' = [dirty EXCEPT ![b] = FALSE]
           /\ pc' = IoDone(pc, b)
           /\ failed' = failed \ {block[b]}
    /\ queue' = Tail(queue)
    /\ UNCHANGED <<block, refcnt, locked, lru, buf, lh, memfs>>

(* ... or the drive could not do it.  Nothing is transferred; the status   *)
(* is not looked at after a write, and after a read it only keeps insl()   *)
(* from being called.                                                      *)
IdeintrError ==
    /\ queue # <<>>
    /\ LET b == Head(queue)
       IN  /\ block[b] \in Faulty
           /\ valid' = [valid EXCEPT ![b] = TRUE]
           /\ dirty' = [dirty EXCEPT ![b] = FALSE]
           /\ pc' = IoDone(pc, b)
           /\ failed' = failed \cup {block[b]}
    /\ queue' = Tail(queue)
    /\ UNCHANGED <<block, refcnt, data, locked, lru, disk, buf, lh, memfs>>

-----------------------------------------------------------------------------
(* wakeup(lk) of the processes that wait for the lock of buffer b. *)
Woken(f, b) ==
    [q \in Hands |-> IF f[q] = "asleep" /\ buf[q] = b THEN "lock" ELSE f[q]]

MutUnlockQuiet(h) ==
    /\ Between(h)
    /\ locked' = [locked EXCEPT ![buf[h]] = Nobody]
    /\ pc' = [pc EXCEPT ![h] = "unref"]
    /\ UNCHANGED <<bufVars, lru, queue, disk, buf, lh, failed, memfs>>

(* brelse(): first releasesleep() ... *)
Unlock(h) ==
    /\ Between(h)
    /\ locked' = [locked EXCEPT ![buf[h]] = Nobody]
    /\ pc' = [Woken(pc, buf[h]) EXCEPT ![h] = "unref"]
    /\ UNCHANGED <<bufVars, lru, queue, disk, buf, lh, failed, memfs>>

(* Buffer b leaves its place in the list and goes to the head. *)
ToHead(b) ==
    LET i == CHOOSE j \in Bufs : lru[j] = b
    IN  [j \in Bufs |-> IF j = 1 THEN b ELSE IF j <= i THEN lru[j - 1] ELSE lru[j]]

(* ... then the reference; the last one moves the buffer to the head. *)
Unref(h) ==
    /\ pc[h] = "unref"
    /\ refcnt' = [refcnt EXCEPT ![buf[h]] = @ - 1]
    /\ lru' = IF refcnt[buf[h]] = 1 THEN ToHead(buf[h]) ELSE lru
    /\ Goto(h, "idle")
    /\ buf' = [buf EXCEPT ![h] = NoBuf]
    /\ UNCHANGED <<block, valid, dirty, data, locked, queue, disk, lh, failed, memfs>>

Next ==
    \/ Ideintr \/ IdeintrError \/ ClearLog
    \/ \E h \in Hands :
         \/ \E k \in Blocks : BgetHit(h, k) \/ BgetRecycle(h, k)
         \/ AcquireSleep(h) \/ SleepOnLock(h) \/ BreadValid(h) \/ BreadDisk(h)
         \/ BreadMem(h)
         \/ \E v \in Vals : Bwrite(h, v) \/ BwriteMem(h, v) \/ LogWrite(h, v)
         \/ Unlock(h) \/ Unref(h)

Spec == Init /\ [][Next]_vars

-----------------------------------------------------------------------------
(* A block's latest content: its cached copy, or the disk. *)
Content ==
    [k \in Blocks |-> IF \E b \in Bufs : block[b] = k /\ valid[b]
                      THEN data[CHOOSE b \in Bufs : block[b] = k /\ valid[b]]
                      ELSE disk[k]]

(* Who holds a block: between bread() and brelse(). *)
Holder ==
    [k \in Blocks |->
       IF \E h \in Hands : pc[h] \in {"hold", "write"} /\ block[buf[h]] = k
       THEN CHOOSE h \in Hands : pc[h] \in {"hold", "write"} /\ block[buf[h]] = k
       ELSE Nobody]

Abstract == INSTANCE BlockStore WITH
    Procs <- Hands, content <- Content, holder <- Holder, bad <- failed

(* bread(), writes and brelse() of concurrent processes behave as on one   *)
(* cell per block: recycling, disk requests in flight and references taken *)
(* before the lock never show ("Only one process at a time can use a       *)
(* buffer").  Only a request that the drive failed on shows, as other      *)
(* bytes in that block, until a later request for it succeeds.             *)
OneCopy == Abstract!Spec

(* A reference keeps a buffer on its block: refcnt counts exactly the      *)
(* processes on their way in, inside or on their way out, and two buffers  *)
(* never cache one block.  The LRU list always holds every buffer once.    *)
RefsExact ==
    /\ TypeOK
    /\ \A b \in Bufs : refcnt[b] = Cardinality({h \in Hands : buf[h] = b})
    /\ \A b, c \in Bufs : block[b] = block[c] /\ block[b] # NoBlock => b = c

(* bget() panics under load only: no buffer is withheld from it but those  *)
(* in the hands of processes and those of the blocks in the log's header,  *)
(* through commits and failed requests, so it finds one while these are    *)
(* fewer than NBUF.                                                        *)
NoPanic ==
    Cardinality({h \in Hands : buf[h] # NoBuf}) + Cardinality(lh) < NBUF =>
        \E b \in Bufs : Recyclable(b)

(* No sleeper is forgotten: who waits for a buffer's lock waits for a      *)
(* holder, who waits for the disk has a request in the queue.              *)
NoMissedWakeup ==
    \A h \in Hands : /\ pc[h] = "asleep" => locked[buf[h]] # Nobody
                     /\ pc[h] \in {"read", "write"} => buf[h] \in Range(queue)
=============================================================================
