--------------------------- MODULE BufCacheProofs ---------------------------
(***************************************************************************)
(* The buffer cache for any processes, blocks, contents and number of      *)
(* buffers: references are counted exactly, no sleeper is forgotten, and   *)
(* the cache implements BlockStore.                                        *)
(*                                                                         *)
(* The inductive invariant says who may do what to a buffer.  Its sleep    *)
(* lock belongs to the one process between acquiresleep() and brelse();    *)
(* only that process has a request for it in the disk queue, once; a       *)
(* buffer with a reference stays on its block; and a valid buffer that is  *)
(* not dirty equals the disk, so that it can be recycled.                  *)
(***************************************************************************)
EXTENDS BufCache, FiniteSetTheorems, TLAPS

(* Zenon goes first, the solver second and with 30 seconds for a leaf. *)
USE ZenonT(5), SMTT(30)

Places == {"idle", "lock", "asleep", "locked", "read", "hold", "write", "unref"}
Holding == {"locked", "read", "hold", "write"}
Waiting == {"read", "write"}

(* Who has a reference to buffer b when f says who has one to what. *)
Users(f, b) == {h \in Hands : f[h] = b}

BufType ==
    /\ block \in [Bufs -> Blocks \cup {NoBlock}]
    /\ valid \in [Bufs -> BOOLEAN] /\ dirty \in [Bufs -> BOOLEAN]
    /\ refcnt \in [Bufs -> Nat]
    /\ data \in [Bufs -> Vals]
    /\ locked \in [Bufs -> Hands \cup {Nobody}]
    /\ queue \in Seq(Bufs)
    /\ disk \in [Blocks -> Vals]
    /\ pc \in [Hands -> Places]
    /\ buf \in [Hands -> Bufs \cup {NoBuf}]
    /\ lh \in SUBSET Blocks /\ failed \in SUBSET Blocks
    /\ memfs \in BOOLEAN

(* The list holds every buffer. *)
ListInv == lru \in [Bufs -> Bufs] /\ \A b \in Bufs : \E i \in Bufs : lru[i] = b

CountInv == \A b \in Bufs : refcnt[b] = Cardinality(Users(buf, b))

(* Two buffers never cache one block. *)
BlockInv == \A b, c \in Bufs : block[b] = block[c] /\ block[b] # NoBlock => b = c

(* A process has a buffer unless it is idle, and the buffer has a block. *)
PlaceInv ==
    \A h \in Hands : /\ pc[h] = "idle" <=> buf[h] = NoBuf
                     /\ pc[h] # "idle" => block[buf[h]] # NoBlock

LockInv ==
    /\ \A h \in Hands, b \in Bufs : locked[b] = h <=> buf[h] = b /\ pc[h] \in Holding
    /\ \A h \in Hands : pc[h] = "asleep" => locked[buf[h]] # Nobody

(* The requests are those of the processes that wait, one each. *)
QueueInv ==
    /\ \A i, j \in 1 .. Len(queue) : queue[i] = queue[j] => i = j
    /\ \A h \in Hands : pc[h] \in Waiting => \E i \in 1 .. Len(queue) : queue[i] = buf[h]
    /\ \A i \in 1 .. Len(queue) :
         \E h \in Hands : pc[h] \in Waiting /\ buf[h] = queue[i]

(* What the flags say of the data. *)
DataInv ==
    \A b \in Bufs : /\ dirty[b] => valid[b]
                    /\ valid[b] => block[b] # NoBlock
                    /\ valid[b] /\ ~dirty[b] /\ block[b] \notin failed
                         => data[b] = disk[block[b]]

FlagInv ==
    \A h \in Hands : /\ pc[h] = "read" => ~valid[buf[h]]
                     /\ pc[h] \in {"hold", "write"} => valid[buf[h]]
                     /\ pc[h] = "write" => dirty[buf[h]]

BufInv ==
    /\ BufType /\ ListInv /\ CountInv /\ BlockInv /\ PlaceInv /\ LockInv
    /\ QueueInv /\ DataInv /\ FlagInv
-----------------------------------------------------------------------------
LEMMA BufFacts == NoBuf \notin Bufs /\ Bufs \subseteq Nat /\ 1 \in Bufs
  BY NBUFAssumption DEF NoBuf, Bufs

LEMMA HandsFinite == IsFiniteSet(Hands)
<1>1. IsFiniteSet({1, 2})
  <2>1. \A m, n \in Int : IsFiniteSet(m .. n)
    BY FS_Interval
  <2>2. {1, 2} = 1 .. 2
    OBVIOUS
  <2>3. PICK m, n \in Int : {1, 2} = m .. n
    BY <2>2
  <2> QED
    BY <2>1, <2>3, Zenon
<1> QED
  BY <1>1, ProcsAssumption, FS_Product DEF Hands

(* Counting the users of a buffer. *)
LEMMA UserCount ==
    ASSUME NEW f, NEW b
    PROVE  /\ IsFiniteSet(Users(f, b)) /\ Cardinality(Users(f, b)) \in Nat
           /\ Cardinality(Users(f, b)) <= Cardinality(Hands)
           /\ Cardinality(Users(f, b)) = 0 <=> Users(f, b) = {}
<1>1. Users(f, b) \in SUBSET Hands
  BY DEF Users
<1>2. IsFiniteSet(Users(f, b)) /\ Cardinality(Users(f, b)) <= Cardinality(Hands)
  BY <1>1, HandsFinite, FS_Subset
<1> QED
  BY <1>2, FS_CardinalityType, FS_EmptySet

(* Functions that agree, and functions that agree but at one point. *)
LEMMA SameFunction ==
    ASSUME NEW S, NEW T, NEW f \in [S -> T], NEW g \in [S -> T], \A x \in S : g[x] = f[x]
    PROVE  g = f
  OBVIOUS

LEMMA OneChange ==
    ASSUME NEW S, NEW T, NEW f \in [S -> T], NEW g \in [S -> T], NEW k \in S,
           \A x \in S : x # k => g[x] = f[x]
    PROVE  g = [f EXCEPT ![k] = g[k]]
  OBVIOUS

(* Moving a buffer to the head keeps the list whole. *)
LEMMA ToHeadFacts ==
    ASSUME ListInv, NEW b \in Bufs
    PROVE  /\ ToHead(b) \in [Bufs -> Bufs]
           /\ \A c \in Bufs : \E j \in Bufs : ToHead(b)[j] = c
<1> DEFINE i == CHOOSE j \in Bufs : lru[j] = b
<1>1. i \in Bufs /\ lru[i] = b
  BY DEF ListInv
<1>2. ToHead(b) = [j \in Bufs |-> IF j = 1 THEN b ELSE IF j <= i THEN lru[j - 1] ELSE lru[j]]
  BY DEF ToHead
<1> HIDE DEF i
<1>3. \A j \in Bufs : j # 1 => j - 1 \in Bufs
  BY NBUFAssumption DEF Bufs
<1>4. ToHead(b) \in [Bufs -> Bufs]
  BY <1>2, <1>3 DEF ListInv
<1>5. ASSUME NEW c \in Bufs PROVE \E j \in Bufs : ToHead(b)[j] = c
  <2>1. PICK k \in Bufs : lru[k] = c
    BY DEF ListInv
  <2>2. CASE k = i
    BY <2>1, <2>2, <1>1, <1>2, BufFacts
  <2>3. CASE k < i
    <3>1. k + 1 \in Bufs /\ k + 1 # 1 /\ k + 1 <= i /\ (k + 1) - 1 = k
      BY <2>3, <1>1, NBUFAssumption DEF Bufs
    <3> QED
      BY <2>1, <3>1, <1>2
  <2>4. CASE k > i
    <3>1. k # 1 /\ ~(k <= i)
      BY <2>4, <1>1, NBUFAssumption DEF Bufs
    <3> QED
      BY <2>1, <3>1, <1>2
  <2> QED
    BY <2>2, <2>3, <2>4, <1>1, BufFacts
<1> QED
  BY <1>4, <1>5

(* The queue with a request more, and with one less. *)
LEMMA Appended ==
    ASSUME queue \in Seq(Bufs), NEW b \in Bufs
    PROVE  /\ Append(queue, b) \in Seq(Bufs) /\ Len(queue) \in Nat
           /\ Len(Append(queue, b)) = Len(queue) + 1
           /\ \A i \in 1 .. Len(queue) : Append(queue, b)[i] = queue[i]
           /\ Append(queue, b)[Len(queue) + 1] = b
  OBVIOUS

LEMMA Removed ==
    ASSUME queue \in Seq(Bufs), queue # <<>>
    PROVE  /\ Tail(queue) \in Seq(Bufs) /\ Len(queue) \in Nat \ {0}
           /\ Head(queue) = queue[1] /\ queue[1] \in Bufs
           /\ Len(Tail(queue)) = Len(queue) - 1
           /\ \A i \in 1 .. Len(queue) - 1 : Tail(queue)[i] = queue[i + 1]
<1>1. Len(queue) \in Nat /\ Len(queue) # 0
  OBVIOUS
<1>2. queue[1] \in Bufs
  BY <1>1
<1> QED
  BY <1>1, <1>2

(* Who is not idle has a buffer, and who holds its lock is alone with it. *)
LEMMA HasBuf ==
    ASSUME BufInv, NEW h \in Hands, pc[h] # "idle"
    PROVE  /\ buf[h] \in Bufs /\ block[buf[h]] \in Blocks
           /\ pc[h] \in Holding => \A q \in Hands : buf[q] = buf[h] /\ pc[q] \in Holding => q = h
<1>1. buf[h] \in Bufs
  BY DEF BufInv, BufType, PlaceInv
<1>2. block[buf[h]] \in Blocks
  BY <1>1 DEF BufInv, BufType, PlaceInv
<1>3. ASSUME pc[h] \in Holding, NEW q \in Hands, buf[q] = buf[h], pc[q] \in Holding
      PROVE  q = h
  BY <1>1, <1>3 DEF BufInv, LockInv
<1> QED
  BY <1>1, <1>2, <1>3

(* Steps that change nobody's request. *)
LEMMA QueueSame ==
    ASSUME BufInv, queue' = queue,
           \A q \in Hands : pc'[q] \in Waiting <=> pc[q] \in Waiting,
           \A q \in Hands : pc[q] \in Waiting => buf'[q] = buf[q]
    PROVE  QueueInv'
<1>1. \A i, j \in 1 .. Len(queue') : queue'[i] = queue'[j] => i = j
  BY Zenon DEF BufInv, QueueInv
<1>2. ASSUME NEW q \in Hands, pc'[q] \in Waiting
      PROVE  \E i \in 1 .. Len(queue') : queue'[i] = buf'[q]
  <2>1. pc[q] \in Waiting /\ buf'[q] = buf[q]
    BY <1>2
  <2>2. PICK i \in 1 .. Len(queue) : queue[i] = buf[q]
    BY <2>1 DEF BufInv, QueueInv
  <2> QED
    BY <2>1, <2>2
<1>3. ASSUME NEW i \in 1 .. Len(queue')
      PROVE  \E q \in Hands : pc'[q] \in Waiting /\ buf'[q] = queue'[i]
  <2>1. PICK q \in Hands : pc[q] \in Waiting /\ buf[q] = queue[i]
    BY DEF BufInv, QueueInv
  <2> QED
    BY <2>1
<1> QED
  BY <1>1, <1>2, <1>3, Zenon DEF QueueInv

(* Steps that leave a part of the state alone. *)
LEMMA Frame ==
    ASSUME BufInv
    PROVE  /\ UNCHANGED lru => ListInv'
           /\ UNCHANGED <<refcnt, buf>> => CountInv'
           /\ UNCHANGED block => BlockInv'
           /\ UNCHANGED <<block, valid, dirty, data, disk, failed>> => DataInv'
<1>1. UNCHANGED lru => ListInv'
  BY DEF BufInv, ListInv
<1>2. UNCHANGED <<refcnt, buf>> => CountInv'
  BY DEF BufInv, CountInv, Users
<1>3. UNCHANGED block => BlockInv'
  BY DEF BufInv, BlockInv
<1>4. UNCHANGED <<block, valid, dirty, data, disk, failed>> => DataInv'
  BY DEF BufInv, DataInv
<1> QED
  BY <1>1, <1>2, <1>3, <1>4

(* A new user and one that leaves. *)
LEMMA AddUser ==
    ASSUME BufInv, NEW h \in Hands, NEW b \in Bufs, buf[h] = NoBuf,
           buf'[h] = b, \A q \in Hands : q # h => buf'[q] = buf[q],
           refcnt'[b] = refcnt[b] + 1, \A c \in Bufs : c # b => refcnt'[c] = refcnt[c]
    PROVE  CountInv'
<1>1. Users(buf', b) = Users(buf, b) \cup {h} /\ h \notin Users(buf, b)
  BY BufFacts DEF Users
<1>2. \A c \in Bufs : c # b => Users(buf', c) = Users(buf, c)
  BY BufFacts DEF Users
<1>3. Cardinality(Users(buf, b) \cup {h}) = Cardinality(Users(buf, b)) + 1
  BY <1>1, UserCount, FS_AddElement, Zenon
<1>4. \A c \in Bufs : refcnt[c] = Cardinality(Users(buf, c))
  BY DEF BufInv, CountInv
<1>5. ASSUME NEW c \in Bufs PROVE refcnt'[c] = Cardinality(Users(buf', c))
  <2>1. CASE c = b
    BY <2>1, <1>1, <1>3, <1>4
  <2>2. CASE c # b
    BY <2>2, <1>2, <1>4
  <2> QED
    BY <2>1, <2>2
<1> QED
  BY <1>5 DEF CountInv, Users

LEMMA DropUser ==
    ASSUME BufInv, NEW h \in Hands, NEW b \in Bufs, buf[h] = b,
           buf'[h] = NoBuf, \A q \in Hands : q # h => buf'[q] = buf[q],
           refcnt'[b] = refcnt[b] - 1, \A c \in Bufs : c # b => refcnt'[c] = refcnt[c]
    PROVE  CountInv'
<1>1. Users(buf', b) = Users(buf, b) \ {h} /\ h \in Users(buf, b)
  BY BufFacts DEF Users
<1>2. \A c \in Bufs : c # b => Users(buf', c) = Users(buf, c)
  BY BufFacts DEF Users
<1>3. Cardinality(Users(buf, b) \ {h}) = Cardinality(Users(buf, b)) - 1
  BY <1>1, UserCount, FS_RemoveElement, Zenon
<1>4. \A c \in Bufs : refcnt[c] = Cardinality(Users(buf, c))
  BY DEF BufInv, CountInv
<1>5. ASSUME NEW c \in Bufs PROVE refcnt'[c] = Cardinality(Users(buf', c))
  <2>1. CASE c = b
    BY <2>1, <1>1, <1>3, <1>4
  <2>2. CASE c # b
    BY <2>2, <1>2, <1>4
  <2> QED
    BY <2>1, <2>2
<1> QED
  BY <1>5 DEF CountInv, Users

LEMMA Counted ==
    ASSUME BufInv, NEW h \in Hands, NEW b \in Bufs, buf[h] = b
    PROVE  refcnt[b] - 1 \in Nat
<1>1. Users(buf, b) # {}
  BY DEF Users
<1>2. refcnt[b] = Cardinality(Users(buf, b))
  BY DEF BufInv, CountInv
<1>3. refcnt[b] # 0 /\ refcnt[b] \in Nat
  BY <1>1, <1>2, UserCount
<1> QED
  BY <1>3

(* A buffer without references has no user. *)
LEMMA Unused ==
    ASSUME BufInv, NEW b \in Bufs, refcnt[b] = 0
    PROVE  \A q \in Hands : buf[q] # b
  BY UserCount, Zenon DEF BufInv, CountInv, Users

LEMMA BufInitInv == Init => BufInv
<1> SUFFICES ASSUME Init PROVE BufInv
  OBVIOUS
<1> USE DEF Init
<1>1. BufType
  BY BufFacts DEF BufType, Places
<1>2. ListInv
  <2>1. \A b \in Bufs : NBUF + 1 - b \in Bufs /\ NBUF + 1 - (NBUF + 1 - b) = b
    BY NBUFAssumption DEF Bufs
  <2> QED
    BY <2>1 DEF ListInv
<1>3. CountInv
  <2>1. \A b \in Bufs : Users(buf, b) = {}
    BY BufFacts DEF Users
  <2> QED
    BY <2>1, FS_EmptySet, Zenon DEF CountInv
<1>4. BlockInv /\ PlaceInv /\ DataInv /\ FlagInv
  BY BufFacts DEF BlockInv, PlaceInv, DataInv, FlagInv
<1>5. LockInv
  BY NoBlockAssumption, BufFacts DEF LockInv, Holding
<1>6. QueueInv
  BY DEF QueueInv, Waiting
<1> QED
  BY <1>1, <1>2, <1>3, <1>4, <1>5, <1>6 DEF BufInv

(* What ideintr() does whether the drive did its work or not. *)
Finish ==
    /\ queue # <<>>
    /\ valid' = [valid EXCEPT ![Head(queue)] = TRUE]
    /\ dirty' = [dirty EXCEPT ![Head(queue)] = FALSE]
    /\ pc' = IoDone(pc, Head(queue))
    /\ queue' = Tail(queue)
    /\ UNCHANGED <<block, refcnt, locked, lru, buf, lh, memfs>>

(* The request belongs to one hand, and it is the one that goes on. *)
LEMMA Finisher ==
    ASSUME BufInv, Finish
    PROVE  /\ Head(queue) \in Bufs /\ Head(queue) = queue[1] /\ Len(queue) >= 1
           /\ block[Head(queue)] \in Blocks
           /\ \E h \in Hands :
                /\ pc[h] \in Waiting /\ buf[h] = Head(queue)
                /\ pc' = [pc EXCEPT ![h] = "hold"]
                /\ \A q \in Hands : buf[q] = Head(queue) /\ pc[q] \in Holding => q = h
<1> DEFINE b == Head(queue)
<1>1. b \in Bufs /\ b = queue[1] /\ Len(queue) >= 1
  BY Removed DEF Finish, BufInv, BufType
<1>2. PICK h \in Hands : pc[h] \in Waiting /\ buf[h] = b
  <2>1. 1 \in 1 .. Len(queue)
    BY <1>1 DEF BufInv, BufType
  <2>2. \E h \in Hands : pc[h] \in Waiting /\ buf[h] = queue[1]
    BY <2>1, Zenon DEF BufInv, QueueInv
  <2> QED
    BY <1>1, <2>2
<1>3. block[b] \in Blocks /\ \A q \in Hands : buf[q] = b /\ pc[q] \in Holding => q = h
  BY <1>2, HasBuf DEF Waiting, Holding
<1>4. pc' = [pc EXCEPT ![h] = "hold"]
  BY <1>2, <1>3, Zenon DEF Finish, IoDone, Waiting, Holding, BufInv, BufType
<1> QED
  BY <1>1, <1>2, <1>3, <1>4

LEMMA FinishKeeps ==
    ASSUME BufInv, Finish
    PROVE  ListInv' /\ CountInv' /\ BlockInv' /\ PlaceInv' /\ LockInv' /\ QueueInv' /\ FlagInv'
<1> DEFINE b == Head(queue)
<1>0. /\ valid' = [valid EXCEPT ![b] = TRUE]
      /\ dirty' = [dirty EXCEPT ![b] = FALSE]
      /\ UNCHANGED <<block, refcnt, locked, lru, buf>>
      /\ queue' = Tail(queue) /\ queue # <<>>
  BY DEF Finish
<1>a. b \in Bufs /\ b = queue[1] /\ Len(queue) >= 1 /\ block[b] \in Blocks
  BY Finisher
<1>b. PICK h \in Hands :
        /\ pc[h] \in Waiting /\ buf[h] = b /\ pc' = [pc EXCEPT ![h] = "hold"]
        /\ \A q \in Hands : buf[q] = b /\ pc[q] \in Holding => q = h
  BY Finisher
<1>c. block[b] \in Blocks /\ \A q \in Hands : buf[q] = b /\ pc[q] \in Holding => q = h
  BY <1>a, <1>b
<1>d. /\ pc'[h] = "hold" /\ \A q \in Hands : q # h => pc'[q] = pc[q]
      /\ pc' = [pc EXCEPT ![h] = "hold"]
  BY <1>b DEF BufInv, BufType
<1> HIDE DEF b
<1> USE BufFacts, NoBlockAssumption
<1>1. ListInv' /\ CountInv' /\ BlockInv'
  BY <1>0, Frame
<1>3. PlaceInv'
  BY <1>0, <1>a, <1>b, <1>c, <1>d DEF BufInv, BufType, PlaceInv
<1>4. LockInv'
  <2>1. \A q \in Hands : /\ pc'[q] \in Holding <=> pc[q] \in Holding
                         /\ pc'[q] = "asleep" => pc[q] = "asleep"
    BY <1>b, <1>d DEF Holding, Waiting
  <2> QED
    BY <2>1, <1>0 DEF BufInv, LockInv
<1>5. QueueInv'
  <2>1. /\ Len(queue) \in Nat \ {0} /\ Len(queue') = Len(queue) - 1
        /\ \A i \in 1 .. Len(queue') : queue'[i] = queue[i + 1] /\ i + 1 \in 1 .. Len(queue)
    BY <1>0, Removed DEF BufInv, BufType
  <2>2. \A i \in 1 .. Len(queue') : queue'[i] # b
    <3> SUFFICES ASSUME NEW i \in 1 .. Len(queue'), queue[i + 1] = queue[1] PROVE FALSE
      BY <2>1, <1>a
    <3>1. i + 1 \in 1 .. Len(queue) /\ 1 \in 1 .. Len(queue) /\ i + 1 # 1
      BY <2>1
    <3> QED
      BY <3>1 DEF BufInv, QueueInv
  <2>3. ASSUME NEW q \in Hands, pc'[q] \in Waiting
        PROVE  \E i \in 1 .. Len(queue') : queue'[i] = buf'[q]
    <3>1. q # h /\ pc[q] \in Waiting
      BY <2>3, <1>d DEF Waiting
    <3>2. buf[q] # b
      BY <3>1, <1>c DEF Waiting, Holding
    <3>3. PICK i \in 1 .. Len(queue) : queue[i] = buf[q]
      BY <3>1 DEF BufInv, QueueInv
    <3>4. i - 1 \in 1 .. Len(queue') /\ (i - 1) + 1 = i
      BY <3>2, <3>3, <2>1, <1>a
    <3> QED
      BY <3>3, <3>4, <2>1, <1>0, Zenon
  <2>4. ASSUME NEW i \in 1 .. Len(queue')
        PROVE  \E q \in Hands : pc'[q] \in Waiting /\ buf'[q] = queue'[i]
    <3>1. PICK q \in Hands : pc[q] \in Waiting /\ buf[q] = queue[i + 1]
      BY <2>1 DEF BufInv, QueueInv
    <3>2. q # h
      BY <3>1, <2>1, <2>2, <1>b
    <3> QED
      BY <3>1, <3>2, <2>1, <1>0, <1>d
  <2>5. ASSUME NEW i \in 1 .. Len(queue'), NEW j \in 1 .. Len(queue'), queue'[i] = queue'[j]
        PROVE  i = j
    <3>1. queue[i + 1] = queue[j + 1] /\ i + 1 \in 1 .. Len(queue) /\ j + 1 \in 1 .. Len(queue)
      BY <2>1, <2>5
    <3>2. i + 1 = j + 1
      BY <3>1 DEF BufInv, QueueInv
    <3> QED
      BY <3>2
  <2> QED
    BY <2>3, <2>4, <2>5 DEF QueueInv
<1>7. FlagInv'
  <2>1. FlagInv /\ buf' = buf /\ buf[h] = b /\ pc'[h] = "hold"
    BY <1>0, <1>b, <1>d, Zenon DEF BufInv
  <2>2. valid'[b] /\ \A x \in Bufs : x # b => valid'[x] = valid[x] /\ dirty'[x] = dirty[x]
    BY <1>0, <1>a DEF BufInv, BufType
  <2>3. ASSUME NEW q \in Hands, q # h, pc[q] \in {"read", "hold", "write"}
        PROVE  valid'[buf[q]] = valid[buf[q]] /\ dirty'[buf[q]] = dirty[buf[q]]
    <3>1. buf[q] \in Bufs /\ buf[q] # b
      BY <1>c, <2>3, HasBuf DEF Holding
    <3> QED
      BY <2>2, <3>1, Zenon
  <2> SUFFICES ASSUME NEW q \in Hands
               PROVE  /\ pc'[q] = "read" => ~valid'[buf[q]]
                      /\ pc'[q] \in {"hold", "write"} => valid'[buf[q]]
                      /\ pc'[q] = "write" => dirty'[buf[q]]
    BY <2>1, Zenon DEF FlagInv
  <2>4. CASE q = h
    BY <2>1, <2>2, <2>4, Zenon
  <2>5. CASE q # h
    <3>1. pc'[q] = pc[q]
      BY <1>d, <2>5, Zenon
    <3> QED
      BY <2>1, <2>3, <2>5, <3>1, Zenon DEF FlagInv
  <2> QED
    BY <2>4, <2>5
<1> QED
  BY <1>1, <1>3, <1>4, <1>5, <1>7

(* Which values keep their types then. *)
LEMMA FinishType ==
    ASSUME BufInv, Finish, data' \in [Bufs -> Vals], disk' \in [Blocks -> Vals],
           failed' \in SUBSET Blocks
    PROVE  BufType'
<1>1. queue' \in Seq(Bufs)
  BY Removed DEF Finish, BufInv, BufType
<1>2. pc' \in [Hands -> Places]
  BY Finisher DEF BufInv, BufType, Places
<1>3. valid' \in [Bufs -> BOOLEAN] /\ dirty' \in [Bufs -> BOOLEAN]
  BY Finisher, Zenon DEF Finish, BufInv, BufType
<1> QED
  BY <1>1, <1>2, <1>3 DEF Finish, BufInv, BufType

LEMMA IdeintrKeeps ==
    ASSUME BufInv, Ideintr
    PROVE  BufInv'
<1> DEFINE b == Head(queue)
<1>1. Finish
  BY DEF Ideintr, Finish
<1>2. b \in Bufs /\ block[b] \in Blocks
  BY <1>1, Finisher
<1>3. /\ IF dirty[b]
         THEN disk' = [disk EXCEPT ![block[b]] = data[b]] /\ UNCHANGED data
         ELSE data' = [data EXCEPT ![b] = disk[block[b]]] /\ UNCHANGED disk
      /\ failed' = failed \ {block[b]}
  BY DEF Ideintr
<1>4. /\ valid' = [valid EXCEPT ![b] = TRUE]
      /\ dirty' = [dirty EXCEPT ![b] = FALSE]
      /\ block' = block
  BY <1>1 DEF Finish
<1> HIDE DEF b
<1>5. data' \in [Bufs -> Vals] /\ disk' \in [Blocks -> Vals]
  <2>1. CASE dirty[b]
    BY <2>1, <1>2, <1>3 DEF BufInv, BufType
  <2>2. CASE ~dirty[b]
    BY <2>2, <1>2, <1>3 DEF BufInv, BufType
  <2> QED
    BY <2>1, <2>2
<1>6. BufType'
  <2>1. failed' \in SUBSET Blocks
    BY <1>3 DEF BufInv, BufType
  <2> QED
    BY <1>1, <1>5, <2>1, FinishType
<1>7. DataInv'
  <2> SUFFICES ASSUME NEW c \in Bufs
               PROVE  /\ dirty'[c] => valid'[c]
                      /\ valid'[c] => block'[c] # NoBlock
                      /\ valid'[c] /\ ~dirty'[c] /\ block'[c] \notin failed'
                           => data'[c] = disk'[block'[c]]
    BY DEF DataInv
  <2>1. CASE c = b
    BY <2>1, <1>2, <1>3, <1>4, NoBlockAssumption DEF BufInv, BufType
  <2>2. CASE c # b
    <3>1. block[c] # block[b]
      BY <2>2, <1>2, NoBlockAssumption DEF BufInv, BlockInv
    <3>2. /\ valid'[c] = valid[c] /\ dirty'[c] = dirty[c] /\ data'[c] = data[c]
          /\ block'[c] = block[c] /\ (block[c] \in failed' <=> block[c] \in failed)
      BY <2>2, <3>1, <1>2, <1>3, <1>4 DEF BufInv, BufType
    <3>3. block[c] \in Blocks => disk'[block[c]] = disk[block[c]]
      BY <3>1, <1>3 DEF BufInv, BufType
    <3>4. valid[c] => block[c] \in Blocks
      BY DEF BufInv, BufType, DataInv
    <3> QED
      BY <3>2, <3>3, <3>4, Zenon DEF BufInv, DataInv
  <2> QED
    BY <2>1, <2>2
<1> QED
  BY <1>1, <1>6, <1>7, FinishKeeps DEF BufInv

LEMMA IdeintrErrorKeeps ==
    ASSUME BufInv, IdeintrError
    PROVE  BufInv'
<1> DEFINE b == Head(queue)
<1>1. Finish
  BY DEF IdeintrError, Finish
<1>2. b \in Bufs /\ block[b] \in Blocks
  BY <1>1, Finisher
<1>3. failed' = failed \cup {block[b]} /\ UNCHANGED <<data, disk>>
  BY DEF IdeintrError
<1>4. /\ valid' = [valid EXCEPT ![b] = TRUE]
      /\ dirty' = [dirty EXCEPT ![b] = FALSE]
      /\ block' = block
  BY <1>1 DEF Finish
<1> HIDE DEF b
<1>5. BufType'
  <2>1. failed' \in SUBSET Blocks /\ data' \in [Bufs -> Vals] /\ disk' \in [Blocks -> Vals]
    BY <1>2, <1>3 DEF BufInv, BufType
  <2> QED
    BY <1>1, <2>1, FinishType
<1>6. DataInv'
  BY <1>2, <1>3, <1>4, NoBlockAssumption DEF BufInv, BufType, DataInv
<1> QED
  BY <1>1, <1>5, <1>6, FinishKeeps DEF BufInv

LEMMA ClearLogKeeps ==
    ASSUME BufInv, ClearLog
    PROVE  BufInv'
<1>1. ListInv' /\ CountInv' /\ BlockInv' /\ DataInv'
  BY Frame DEF ClearLog, bufVars
<1>2. BufType'
  BY DEF ClearLog, bufVars, BufInv, BufType
<1>3. PlaceInv' /\ LockInv' /\ QueueInv' /\ FlagInv'
  BY DEF ClearLog, bufVars, BufInv, PlaceInv, LockInv, QueueInv, FlagInv
<1> QED
  BY <1>1, <1>2, <1>3 DEF BufInv

LEMMA BgetHitKeeps ==
    ASSUME BufInv, NEW h \in Hands, NEW k \in Blocks, BgetHit(h, k)
    PROVE  BufInv'
<1>0. PICK b \in Bufs : /\ block[b] = k
                       /\ refcnt' = [refcnt EXCEPT ![b] = @ + 1]
                       /\ buf' = [buf EXCEPT ![h] = b]
  BY Zenon DEF BgetHit
<1>a. pc[h] = "idle" /\ buf[h] = NoBuf
  BY DEF BgetHit, MayAsk, BufInv, PlaceInv
<1> USE BufFacts, NoBlockAssumption DEF BgetHit, Goto
<1>1. ListInv' /\ BlockInv' /\ DataInv'
  BY Frame
<1>2. BufType'
  BY <1>0, <1>a DEF BufInv, BufType, Places
<1>3. CountInv'
  <2>1. /\ b \in Bufs /\ buf[h] = NoBuf /\ buf'[h] = b
        /\ \A q \in Hands : q # h => buf'[q] = buf[q]
        /\ refcnt'[b] = refcnt[b] + 1 /\ \A c \in Bufs : c # b => refcnt'[c] = refcnt[c]
    BY <1>0, <1>a DEF BufInv, BufType
  <2> QED
    BY <2>1, AddUser
<1>4. PlaceInv'
  BY <1>0, <1>a DEF BufInv, BufType, PlaceInv
<1>5. LockInv'
  BY <1>0, <1>a DEF BufInv, BufType, PlaceInv, LockInv, Holding
<1>6. QueueInv'
  <2>1. \A q \in Hands : /\ pc'[q] \in Waiting <=> pc[q] \in Waiting
                         /\ pc[q] \in Waiting => buf'[q] = buf[q]
    BY <1>0, <1>a DEF BufInv, BufType, Waiting
  <2> QED
    BY <2>1, QueueSame
<1>7. FlagInv'
  BY <1>0, <1>a DEF BufInv, BufType, PlaceInv, LockInv, Holding, DataInv, FlagInv
<1> QED
  BY <1>1, <1>2, <1>3, <1>4, <1>5, <1>6, <1>7 DEF BufInv

LEMMA BgetRecycleKeeps ==
    ASSUME BufInv, NEW h \in Hands, NEW k \in Blocks, BgetRecycle(h, k)
    PROVE  BufInv'
<1>0. PICK i \in Bufs :
        /\ Recyclable(lru[i])
        /\ block' = [block EXCEPT ![lru[i]] = k]
        /\ valid' = [valid EXCEPT ![lru[i]] = FALSE]
        /\ dirty' = [dirty EXCEPT ![lru[i]] = FALSE]
        /\ refcnt' = [refcnt EXCEPT ![lru[i]] = 1]
        /\ buf' = [buf EXCEPT ![h] = lru[i]]
  BY Zenon DEF BgetRecycle
<1> DEFINE b == lru[i]
<1>a. pc[h] = "idle" /\ buf[h] = NoBuf
  BY DEF BgetRecycle, MayAsk, BufInv, PlaceInv
<1>b. b \in Bufs /\ refcnt[b] = 0 /\ ~dirty[b]
  BY <1>0 DEF BufInv, ListInv, Recyclable
<1>c. \A q \in Hands : buf[q] # b
  BY <1>b, Unused
<1> HIDE DEF b
<1>d. /\ block' = [block EXCEPT ![b] = k]
      /\ valid' = [valid EXCEPT ![b] = FALSE]
      /\ dirty' = [dirty EXCEPT ![b] = FALSE]
      /\ refcnt' = [refcnt EXCEPT ![b] = 1]
      /\ buf' = [buf EXCEPT ![h] = b]
  BY <1>0 DEF b
<1> USE BufFacts, NoBlockAssumption DEF BgetRecycle, Goto
<1>1. ListInv'
  BY Frame
<1>2. BufType'
  BY <1>a, <1>b, <1>c, <1>d DEF BufInv, BufType, Places
<1>3. CountInv'
  <2>1. /\ b \in Bufs /\ buf[h] = NoBuf /\ buf'[h] = b
        /\ \A q \in Hands : q # h => buf'[q] = buf[q]
        /\ refcnt'[b] = refcnt[b] + 1 /\ \A c \in Bufs : c # b => refcnt'[c] = refcnt[c]
    BY <1>a, <1>b, <1>d DEF BufInv, BufType
  <2> QED
    BY <2>1, AddUser
<1>4. BlockInv'
  BY <1>a, <1>b, <1>c, <1>d DEF BufInv, BufType, BlockInv
<1>5. PlaceInv'
  BY <1>a, <1>b, <1>c, <1>d DEF BufInv, BufType, PlaceInv
<1>6. LockInv'
  BY <1>a, <1>b, <1>c, <1>d DEF BufInv, BufType, PlaceInv, LockInv, Holding
<1>7. QueueInv'
  <2>1. \A q \in Hands : /\ pc'[q] \in Waiting <=> pc[q] \in Waiting
                         /\ pc[q] \in Waiting => buf'[q] = buf[q]
    BY <1>a, <1>d DEF BufInv, BufType, Waiting
  <2> QED
    BY <2>1, QueueSame
<1>8. DataInv'
  BY <1>a, <1>b, <1>c, <1>d DEF BufInv, BufType, BlockInv, DataInv, FlagInv
<1>9. FlagInv'
  BY <1>a, <1>b, <1>c, <1>d DEF BufInv, BufType, PlaceInv, LockInv, Holding, DataInv, FlagInv
<1> QED
  BY <1>1, <1>2, <1>3, <1>4, <1>5, <1>6, <1>7, <1>8, <1>9 DEF BufInv

LEMMA AcquireSleepKeeps ==
    ASSUME BufInv, NEW h \in Hands, AcquireSleep(h)
    PROVE  BufInv'
<1>a. pc[h] # "idle"
  BY DEF AcquireSleep
<1>b. buf[h] \in Bufs /\ block[buf[h]] \in Blocks
  BY <1>a, HasBuf
<1>c. pc[h] \in Holding => \A q \in Hands : buf[q] = buf[h] /\ pc[q] \in Holding => q = h
  BY <1>a, HasBuf
<1> USE BufFacts, NoBlockAssumption DEF AcquireSleep, Goto, Iderw, bufVars
<1>1. ListInv' /\ CountInv' /\ BlockInv' /\ DataInv'
  BY Frame
<1>2. BufType'
  BY <1>a, <1>b, <1>c DEF BufInv, BufType, Places
<1>3. PlaceInv'
  BY <1>a, <1>b, <1>c DEF BufInv, BufType, PlaceInv
<1>4. LockInv'
  BY <1>a, <1>b, <1>c DEF BufInv, BufType, PlaceInv, LockInv, Holding
<1>5. QueueInv'
  <2>1. \A q \in Hands : /\ pc'[q] \in Waiting <=> pc[q] \in Waiting
                         /\ pc[q] \in Waiting => buf'[q] = buf[q]
    BY <1>a DEF BufInv, BufType, Waiting
  <2> QED
    BY <2>1, QueueSame
<1>6. FlagInv'
  BY <1>a, <1>b, <1>c DEF BufInv, BufType, PlaceInv, LockInv, Holding, DataInv, FlagInv
<1> QED
  BY <1>1, <1>2, <1>3, <1>4, <1>5, <1>6 DEF BufInv

LEMMA SleepOnLockKeeps ==
    ASSUME BufInv, NEW h \in Hands, SleepOnLock(h)
    PROVE  BufInv'
<1>a. pc[h] # "idle"
  BY DEF SleepOnLock
<1>b. buf[h] \in Bufs /\ block[buf[h]] \in Blocks
  BY <1>a, HasBuf
<1>c. pc[h] \in Holding => \A q \in Hands : buf[q] = buf[h] /\ pc[q] \in Holding => q = h
  BY <1>a, HasBuf
<1> USE BufFacts, NoBlockAssumption DEF SleepOnLock, Goto, Iderw, bufVars
<1>1. ListInv' /\ CountInv' /\ BlockInv' /\ DataInv'
  BY Frame
<1>2. BufType'
  BY <1>a, <1>b, <1>c DEF BufInv, BufType, Places
<1>3. PlaceInv'
  BY <1>a, <1>b, <1>c DEF BufInv, BufType, PlaceInv
<1>4. LockInv'
  BY <1>a, <1>b, <1>c DEF BufInv, BufType, PlaceInv, LockInv, Holding
<1>5. QueueInv'
  <2>1. \A q \in Hands : /\ pc'[q] \in Waiting <=> pc[q] \in Waiting
                         /\ pc[q] \in Waiting => buf'[q] = buf[q]
    BY <1>a DEF BufInv, BufType, Waiting
  <2> QED
    BY <2>1, QueueSame
<1>6. FlagInv'
  BY <1>a, <1>b, <1>c DEF BufInv, BufType, PlaceInv, LockInv, Holding, DataInv, FlagInv
<1> QED
  BY <1>1, <1>2, <1>3, <1>4, <1>5, <1>6 DEF BufInv

LEMMA BreadValidKeeps ==
    ASSUME BufInv, NEW h \in Hands, BreadValid(h)
    PROVE  BufInv'
<1>a. pc[h] # "idle"
  BY DEF BreadValid
<1>b. buf[h] \in Bufs /\ block[buf[h]] \in Blocks
  BY <1>a, HasBuf
<1>c. pc[h] \in Holding => \A q \in Hands : buf[q] = buf[h] /\ pc[q] \in Holding => q = h
  BY <1>a, HasBuf
<1> USE BufFacts, NoBlockAssumption DEF BreadValid, Goto, Iderw, bufVars
<1>1. ListInv' /\ CountInv' /\ BlockInv' /\ DataInv'
  BY Frame
<1>2. BufType'
  BY <1>a, <1>b, <1>c DEF BufInv, BufType, Places
<1>3. PlaceInv'
  BY <1>a, <1>b, <1>c DEF BufInv, BufType, PlaceInv
<1>4. LockInv'
  BY <1>a, <1>b, <1>c DEF BufInv, BufType, PlaceInv, LockInv, Holding
<1>5. QueueInv'
  <2>1. \A q \in Hands : /\ pc'[q] \in Waiting <=> pc[q] \in Waiting
                         /\ pc[q] \in Waiting => buf'[q] = buf[q]
    BY <1>a DEF BufInv, BufType, Waiting
  <2> QED
    BY <2>1, QueueSame
<1>6. FlagInv'
  BY <1>a, <1>b, <1>c DEF BufInv, BufType, PlaceInv, LockInv, Holding, DataInv, FlagInv
<1> QED
  BY <1>1, <1>2, <1>3, <1>4, <1>5, <1>6 DEF BufInv

LEMMA BreadDiskKeeps ==
    ASSUME BufInv, NEW h \in Hands, BreadDisk(h)
    PROVE  BufInv'
<1>a. pc[h] # "idle"
  BY DEF BreadDisk
<1>b. buf[h] \in Bufs /\ block[buf[h]] \in Blocks
  BY <1>a, HasBuf
<1>c. pc[h] \in Holding => \A q \in Hands : buf[q] = buf[h] /\ pc[q] \in Holding => q = h
  BY <1>a, HasBuf
<1> USE BufFacts, NoBlockAssumption DEF BreadDisk, Goto, Iderw, bufVars
<1>1. ListInv' /\ CountInv' /\ BlockInv' /\ DataInv'
  BY Frame
<1>2. BufType'
  BY <1>a, <1>b, Appended DEF BufInv, BufType, Places
<1>3. PlaceInv'
  BY <1>a, <1>b, <1>c DEF BufInv, BufType, PlaceInv
<1>4. LockInv'
  BY <1>a, <1>b, <1>c DEF BufInv, BufType, PlaceInv, LockInv, Holding
<1>5. QueueInv'
  <2>1. /\ Len(queue) \in Nat /\ Len(queue') = Len(queue) + 1
        /\ \A i \in 1 .. Len(queue) : queue'[i] = queue[i]
        /\ queue'[Len(queue) + 1] = buf[h]
    BY <1>b, Appended DEF BufInv, BufType
  <2>2. \A i \in 1 .. Len(queue) : queue[i] # buf[h]
    BY <1>c DEF BufInv, QueueInv, Waiting, Holding
  <2>3. \A i, j \in 1 .. Len(queue') : queue'[i] = queue'[j] => i = j
    <3> SUFFICES ASSUME NEW i \in 1 .. Len(queue'), NEW j \in 1 .. Len(queue'), queue'[i] = queue'[j]
                 PROVE  i = j
      OBVIOUS
    <3>1. /\ i \in 1 .. Len(queue) \/ i = Len(queue) + 1
          /\ j \in 1 .. Len(queue) \/ j = Len(queue) + 1
      BY <2>1
    <3> HIDE DEF BreadDisk, Goto, Iderw, bufVars
    <3> QED
      BY <3>1, <2>1, <2>2 DEF BufInv, QueueInv
  <2>4. ASSUME NEW q \in Hands, pc'[q] \in Waiting
        PROVE  \E i \in 1 .. Len(queue') : queue'[i] = buf'[q]
    <3>1. CASE q = h
      BY <3>1, <2>1
    <3>2. CASE q # h
      <4>1. pc[q] \in Waiting
        BY <2>4, <3>2 DEF BufInv, BufType
      <4>2. PICK i \in 1 .. Len(queue) : queue[i] = buf[q]
        BY <4>1 DEF BufInv, QueueInv
      <4>3. i \in 1 .. Len(queue')
        BY <2>1
      <4> QED
        BY <4>2, <4>3, <2>1
    <3> QED
      BY <3>1, <3>2
  <2>5. ASSUME NEW i \in 1 .. Len(queue')
        PROVE  \E q \in Hands : pc'[q] \in Waiting /\ buf'[q] = queue'[i]
    <3>1. CASE i = Len(queue) + 1
      BY <3>1, <2>1 DEF Waiting, BufInv, BufType
    <3>2. CASE i \in 1 .. Len(queue)
      <4>1. PICK q \in Hands : pc[q] \in Waiting /\ buf[q] = queue[i]
        BY <3>2 DEF BufInv, QueueInv
      <4>2. q # h
        BY <4>1 DEF Waiting
      <4> QED
        BY <3>2, <4>1, <4>2, <2>1 DEF BufInv, BufType
    <3> QED
      BY <3>1, <3>2, <2>1
  <2> QED
    BY <2>3, <2>4, <2>5 DEF QueueInv
<1>6. FlagInv'
  BY <1>a, <1>b, <1>c DEF BufInv, BufType, PlaceInv, LockInv, Holding, DataInv, FlagInv
<1> QED
  BY <1>1, <1>2, <1>3, <1>4, <1>5, <1>6 DEF BufInv

LEMMA BreadMemKeeps ==
    ASSUME BufInv, NEW h \in Hands, BreadMem(h)
    PROVE  BufInv'
<1>a. pc[h] # "idle"
  BY DEF BreadMem
<1>b. buf[h] \in Bufs /\ block[buf[h]] \in Blocks
  BY <1>a, HasBuf
<1>c. pc[h] \in Holding => \A q \in Hands : buf[q] = buf[h] /\ pc[q] \in Holding => q = h
  BY <1>a, HasBuf
<1> USE BufFacts, NoBlockAssumption DEF BreadMem, Goto, Iderw, bufVars
<1>1. ListInv' /\ CountInv' /\ BlockInv'
  BY Frame, Zenon
<1>2. BufType'
  BY <1>a, <1>b, <1>c DEF BufInv, BufType, Places
<1>3. PlaceInv'
  BY <1>a, <1>b, <1>c DEF BufInv, BufType, PlaceInv
<1>4. LockInv'
  BY <1>a, <1>b, <1>c DEF BufInv, BufType, PlaceInv, LockInv, Holding
<1>5. QueueInv'
  <2>1. \A q \in Hands : /\ pc'[q] \in Waiting <=> pc[q] \in Waiting
                         /\ pc[q] \in Waiting => buf'[q] = buf[q]
    BY <1>a DEF BufInv, BufType, Waiting
  <2> QED
    BY <2>1, QueueSame
<1>6. DataInv'
  BY <1>a, <1>b, <1>c DEF BufInv, BufType, BlockInv, DataInv, FlagInv
<1>7. FlagInv'
  BY <1>a, <1>b, <1>c DEF BufInv, BufType, PlaceInv, LockInv, Holding, DataInv, FlagInv
<1> QED
  BY <1>1, <1>2, <1>3, <1>4, <1>5, <1>6, <1>7 DEF BufInv

LEMMA BwriteKeeps ==
    ASSUME BufInv, NEW h \in Hands, NEW v \in Vals, Bwrite(h, v)
    PROVE  BufInv'
<1>a. pc[h] # "idle"
  BY DEF Bwrite, Between
<1>b. buf[h] \in Bufs /\ block[buf[h]] \in Blocks
  BY <1>a, HasBuf
<1>c. pc[h] \in Holding => \A q \in Hands : buf[q] = buf[h] /\ pc[q] \in Holding => q = h
  BY <1>a, HasBuf
<1> USE BufFacts, NoBlockAssumption DEF Bwrite, Between, Goto, Iderw, bufVars
<1>1. ListInv' /\ CountInv' /\ BlockInv'
  BY Frame, Zenon
<1>2. BufType'
  BY <1>a, <1>b, Appended DEF BufInv, BufType, Places
<1>3. PlaceInv'
  BY <1>a, <1>b, <1>c DEF BufInv, BufType, PlaceInv
<1>4. LockInv'
  BY <1>a, <1>b, <1>c DEF BufInv, BufType, PlaceInv, LockInv, Holding
<1>5. QueueInv'
  <2>1. /\ Len(queue) \in Nat /\ Len(queue') = Len(queue) + 1
        /\ \A i \in 1 .. Len(queue) : queue'[i] = queue[i]
        /\ queue'[Len(queue) + 1] = buf[h]
    BY <1>b, Appended DEF BufInv, BufType
  <2>2. \A i \in 1 .. Len(queue) : queue[i] # buf[h]
    BY <1>c DEF BufInv, QueueInv, Waiting, Holding
  <2>3. \A i, j \in 1 .. Len(queue') : queue'[i] = queue'[j] => i = j
    <3> SUFFICES ASSUME NEW i \in 1 .. Len(queue'), NEW j \in 1 .. Len(queue'), queue'[i] = queue'[j]
                 PROVE  i = j
      OBVIOUS
    <3>1. /\ i \in 1 .. Len(queue) \/ i = Len(queue) + 1
          /\ j \in 1 .. Len(queue) \/ j = Len(queue) + 1
      BY <2>1
    <3> HIDE DEF Bwrite, Between, Goto, Iderw, bufVars
    <3> QED
      BY <3>1, <2>1, <2>2 DEF BufInv, QueueInv
  <2>4. ASSUME NEW q \in Hands, pc'[q] \in Waiting
        PROVE  \E i \in 1 .. Len(queue') : queue'[i] = buf'[q]
    <3>1. CASE q = h
      BY <3>1, <2>1
    <3>2. CASE q # h
      <4>1. pc[q] \in Waiting
        BY <2>4, <3>2 DEF BufInv, BufType
      <4>2. PICK i \in 1 .. Len(queue) : queue[i] = buf[q]
        BY <4>1 DEF BufInv, QueueInv
      <4>3. i \in 1 .. Len(queue')
        BY <2>1
      <4> QED
        BY <4>2, <4>3, <2>1
    <3> QED
      BY <3>1, <3>2
  <2>5. ASSUME NEW i \in 1 .. Len(queue')
        PROVE  \E q \in Hands : pc'[q] \in Waiting /\ buf'[q] = queue'[i]
    <3>1. CASE i = Len(queue) + 1
      BY <3>1, <2>1 DEF Waiting, BufInv, BufType
    <3>2. CASE i \in 1 .. Len(queue)
      <4>1. PICK q \in Hands : pc[q] \in Waiting /\ buf[q] = queue[i]
        BY <3>2 DEF BufInv, QueueInv
      <4>2. q # h
        BY <4>1 DEF Waiting
      <4> QED
        BY <3>2, <4>1, <4>2, <2>1 DEF BufInv, BufType
    <3> QED
      BY <3>1, <3>2, <2>1
  <2> QED
    BY <2>3, <2>4, <2>5, Zenon DEF QueueInv
<1>6. DataInv'
  BY <1>a, <1>b, <1>c DEF BufInv, BufType, BlockInv, DataInv, FlagInv
<1>7. FlagInv'
  BY <1>a, <1>b, <1>c DEF BufInv, BufType, PlaceInv, LockInv, Holding, DataInv, FlagInv
<1> QED
  BY <1>1, <1>2, <1>3, <1>4, <1>5, <1>6, <1>7 DEF BufInv

LEMMA BwriteMemKeeps ==
    ASSUME BufInv, NEW h \in Hands, NEW v \in Vals, BwriteMem(h, v)
    PROVE  BufInv'
<1>a. pc[h] # "idle"
  BY DEF BwriteMem, Between
<1>b. buf[h] \in Bufs /\ block[buf[h]] \in Blocks
  BY <1>a, HasBuf
<1>c. pc[h] \in Holding => \A q \in Hands : buf[q] = buf[h] /\ pc[q] \in Holding => q = h
  BY <1>a, HasBuf
<1> USE BufFacts, NoBlockAssumption DEF BwriteMem, Between, Goto, Iderw, bufVars
<1>1. ListInv' /\ CountInv' /\ BlockInv'
  BY Frame, Zenon
<1>2. BufType'
  BY <1>a, <1>b, <1>c DEF BufInv, BufType, Places
<1>3. PlaceInv'
  BY <1>a, <1>b, <1>c DEF BufInv, BufType, PlaceInv
<1>4. LockInv'
  BY <1>a, <1>b, <1>c DEF BufInv, BufType, PlaceInv, LockInv, Holding
<1>5. QueueInv'
  <2>1. \A q \in Hands : /\ pc'[q] \in Waiting <=> pc[q] \in Waiting
                         /\ pc[q] \in Waiting => buf'[q] = buf[q]
    BY <1>a DEF BufInv, BufType, Waiting
  <2> QED
    BY <2>1, QueueSame, Zenon
<1>6. DataInv'
  <2> SUFFICES ASSUME NEW c \in Bufs
               PROVE  /\ dirty'[c] => valid'[c]
                      /\ valid'[c] => block'[c] # NoBlock
                      /\ valid'[c] /\ ~dirty'[c] /\ block'[c] \notin failed'
                           => data'[c] = disk'[block'[c]]
    BY DEF DataInv
  <2>1. CASE c = buf[h]
    BY <2>1, <1>b DEF BufInv, BufType
  <2>2. CASE c # buf[h]
    <3>1. block[c] # block[buf[h]]
      BY <2>2, <1>b, Zenon DEF BufInv, BlockInv
    <3>2. /\ valid'[c] = valid[c] /\ dirty'[c] = dirty[c] /\ data'[c] = data[c]
          /\ block'[c] = block[c] /\ failed' = failed
      BY <2>2 DEF BufInv, BufType
    <3>3. block[c] \in Blocks => disk'[block[c]] = disk[block[c]]
      BY <3>1, <1>b DEF BufInv, BufType
    <3>4. valid[c] => block[c] \in Blocks
      BY DEF BufInv, BufType, DataInv
    <3> QED
      BY <3>2, <3>3, <3>4, Zenon DEF BufInv, DataInv
  <2> QED
    BY <2>1, <2>2
<1>7. FlagInv'
  BY <1>a, <1>b, <1>c DEF BufInv, BufType, PlaceInv, LockInv, Holding, DataInv, FlagInv
<1> QED
  BY <1>1, <1>2, <1>3, <1>4, <1>5, <1>6, <1>7, Zenon DEF BufInv

LEMMA LogWriteKeeps ==
    ASSUME BufInv, NEW h \in Hands, NEW v \in Vals, LogWrite(h, v)
    PROVE  BufInv'
<1>a. pc[h] # "idle"
  BY DEF LogWrite, Between
<1>b. buf[h] \in Bufs /\ block[buf[h]] \in Blocks
  BY <1>a, HasBuf
<1>c. pc[h] \in Holding => \A q \in Hands : buf[q] = buf[h] /\ pc[q] \in Holding => q = h
  BY <1>a, HasBuf
<1> USE BufFacts, NoBlockAssumption DEF LogWrite, Between, Goto, Iderw, bufVars
<1>1. ListInv' /\ CountInv' /\ BlockInv'
  BY Frame
<1>2. BufType'
  BY <1>a, <1>b, <1>c DEF BufInv, BufType, Places
<1>3. PlaceInv'
  BY <1>a, <1>b, <1>c DEF BufInv, BufType, PlaceInv
<1>4. LockInv'
  BY <1>a, <1>b, <1>c DEF BufInv, BufType, PlaceInv, LockInv, Holding
<1>5. QueueInv'
  <2>1. \A q \in Hands : /\ pc'[q] \in Waiting <=> pc[q] \in Waiting
                         /\ pc[q] \in Waiting => buf'[q] = buf[q]
    BY <1>a DEF BufInv, BufType, Waiting
  <2> QED
    BY <2>1, QueueSame
<1>6. DataInv'
  BY <1>a, <1>b, <1>c DEF BufInv, BufType, BlockInv, DataInv, FlagInv
<1>7. FlagInv'
  BY <1>a, <1>b, <1>c DEF BufInv, BufType, PlaceInv, LockInv, Holding, DataInv, FlagInv
<1> QED
  BY <1>1, <1>2, <1>3, <1>4, <1>5, <1>6, <1>7, Zenon DEF BufInv

LEMMA UnlockKeeps ==
    ASSUME BufInv, NEW h \in Hands, Unlock(h)
    PROVE  BufInv'
<1>a. pc[h] # "idle"
  BY DEF Unlock, Between
<1>b. buf[h] \in Bufs /\ block[buf[h]] \in Blocks
  BY <1>a, HasBuf
<1>c. pc[h] \in Holding => \A q \in Hands : buf[q] = buf[h] /\ pc[q] \in Holding => q = h
  BY <1>a, HasBuf
<1> USE BufFacts, NoBlockAssumption DEF Unlock, Between, Goto, Iderw, bufVars
<1>1. ListInv' /\ CountInv' /\ BlockInv' /\ DataInv'
  BY Frame
<1>2. BufType'
  BY <1>a, <1>b DEF BufInv, BufType, Places, Woken
<1>3. PlaceInv'
  BY <1>a, <1>b, <1>c DEF Woken, BufInv, BufType, PlaceInv
<1>4. LockInv'
  BY <1>a, <1>b, <1>c DEF Woken, BufInv, BufType, PlaceInv, LockInv, Holding
<1>5. QueueInv'
  <2>1. \A q \in Hands : /\ pc'[q] \in Waiting <=> pc[q] \in Waiting
                         /\ pc[q] \in Waiting => buf'[q] = buf[q]
    BY <1>a DEF BufInv, BufType, Waiting, Woken
  <2> QED
    BY <2>1, QueueSame
<1>6. FlagInv'
  BY <1>a, <1>b, <1>c DEF Woken, BufInv, BufType, PlaceInv, LockInv, Holding, DataInv, FlagInv
<1> QED
  BY <1>1, <1>2, <1>3, <1>4, <1>5, <1>6 DEF BufInv

LEMMA UnrefKeeps ==
    ASSUME BufInv, NEW h \in Hands, Unref(h)
    PROVE  BufInv'
<1>a. pc[h] # "idle"
  BY DEF Unref
<1>b. buf[h] \in Bufs /\ block[buf[h]] \in Blocks
  BY <1>a, HasBuf
<1>c. pc[h] \in Holding => \A q \in Hands : buf[q] = buf[h] /\ pc[q] \in Holding => q = h
  BY <1>a, HasBuf
<1> USE BufFacts, NoBlockAssumption DEF Unref, Goto, Iderw, bufVars
<1>1. BlockInv' /\ DataInv'
  BY Frame
<1>2. BufType'
  <2>1. refcnt[buf[h]] - 1 \in Nat
    BY <1>b, Counted, Zenon
  <2>2. refcnt' \in [Bufs -> Nat]
    BY <2>1, <1>b DEF BufInv, BufType
  <2> QED
    BY <2>2 DEF BufInv, BufType, Places
<1>3. ListInv'
  <2>1. /\ ToHead(buf[h]) \in [Bufs -> Bufs]
        /\ \A c \in Bufs : \E j \in Bufs : ToHead(buf[h])[j] = c
    BY <1>b, ToHeadFacts, Zenon DEF BufInv
  <2> QED
    BY <2>1, Zenon DEF BufInv, ListInv
<1>4. CountInv'
  <2>1. /\ buf[h] \in Bufs /\ buf[h] = buf[h] /\ buf'[h] = NoBuf
        /\ \A q \in Hands : q # h => buf'[q] = buf[q]
        /\ refcnt'[buf[h]] = refcnt[buf[h]] - 1 /\ \A c \in Bufs : c # buf[h] => refcnt'[c] = refcnt[c]
    BY <1>b DEF BufInv, BufType
  <2> QED
    BY <2>1, DropUser, Zenon
<1>5. PlaceInv'
  BY <1>a, <1>b, <1>c DEF BufInv, BufType, PlaceInv
<1>6. LockInv'
  BY <1>a, <1>b, <1>c DEF BufInv, BufType, PlaceInv, LockInv, Holding
<1>7. QueueInv'
  <2>1. \A q \in Hands : /\ pc'[q] \in Waiting <=> pc[q] \in Waiting
                         /\ pc[q] \in Waiting => buf'[q] = buf[q]
    BY <1>a DEF BufInv, BufType, Waiting
  <2> QED
    BY <2>1, QueueSame
<1>8. FlagInv'
  BY <1>a, <1>b, <1>c DEF BufInv, BufType, PlaceInv, LockInv, Holding, DataInv, FlagInv
<1> QED
  BY <1>1, <1>2, <1>3, <1>4, <1>5, <1>6, <1>7, <1>8, Zenon DEF BufInv

LEMMA BufStepInv == BufInv /\ [Next]_vars => BufInv'
<1> SUFFICES ASSUME BufInv, [Next]_vars PROVE BufInv'
  OBVIOUS
<1>1. CASE UNCHANGED vars
  BY <1>1 DEF vars, BufInv, BufType, ListInv, CountInv, Users, BlockInv, PlaceInv,
              LockInv, QueueInv, DataInv, FlagInv
<1>2. CASE Ideintr \/ IdeintrError \/ ClearLog
  BY <1>2, IdeintrKeeps, IdeintrErrorKeeps, ClearLogKeeps
<1>3. ASSUME NEW h \in Hands, NEW k \in Blocks, BgetHit(h, k) \/ BgetRecycle(h, k)
      PROVE  BufInv'
  BY <1>3, BgetHitKeeps, BgetRecycleKeeps
<1>4. ASSUME NEW h \in Hands,
             \/ AcquireSleep(h) \/ SleepOnLock(h) \/ BreadValid(h) \/ BreadDisk(h)
             \/ BreadMem(h) \/ Unlock(h) \/ Unref(h)
      PROVE  BufInv'
  BY <1>4, AcquireSleepKeeps, SleepOnLockKeeps, BreadValidKeeps, BreadDiskKeeps,
     BreadMemKeeps, UnlockKeeps, UnrefKeeps
<1>5. ASSUME NEW h \in Hands, NEW v \in Vals,
             Bwrite(h, v) \/ BwriteMem(h, v) \/ LogWrite(h, v)
      PROVE  BufInv'
  BY <1>5, BwriteKeeps, BwriteMemKeeps, LogWriteKeeps
<1> QED
  BY <1>1, <1>2, <1>3, <1>4, <1>5 DEF Next

LEMMA BufInvariant == Spec => []BufInv
  BY BufInitInv, BufStepInv, PTL DEF Spec

(* refcnt counts exactly the processes that use a buffer, from bget()'s    *)
(* critical section to brelse()'s, no block is cached twice, and the list  *)
(* and the queue name each buffer once.                                    *)
THEOREM CountsAreExact == Spec => []RefsExact
<1>1. BufInv => RefsExact
  <2> SUFFICES ASSUME BufInv PROVE RefsExact
    OBVIOUS
  <2>1. \A b \in Bufs : refcnt[b] = Cardinality({h \in Hands : buf[h] = b})
    BY DEF BufInv, CountInv, Users
  <2>2. refcnt \in [Bufs -> 0 .. Cardinality(Hands)]
    <3>1. Cardinality(Hands) \in Nat
      BY HandsFinite, FS_CardinalityType
    <3>2. \A b \in Bufs : refcnt[b] \in Nat /\ refcnt[b] <= Cardinality(Hands)
      BY UserCount DEF BufInv, BufType, CountInv
    <3> QED
      BY <3>1, <3>2 DEF BufInv, BufType
  <2>3. Range(lru) = Bufs
    BY DEF BufInv, ListInv, Range
  <2>4. IsInjective(queue)
    <3>1. DOMAIN queue = 1 .. Len(queue)
      BY DEF BufInv, BufType
    <3> QED
      BY <3>1, Zenon DEF BufInv, QueueInv, IsInjective
  <2> QED
    BY <2>1, <2>2, <2>3, <2>4 DEF RefsExact, TypeOK, BufInv, BufType, ListInv, BlockInv, Places
<1> QED
  BY <1>1, BufInvariant, PTL

(* Whoever sleeps on a buffer's lock has a holder to wake it, and whoever  *)
(* waits for the disk has its request in the queue of ideintr().           *)
THEOREM SleepersServed == Spec => []NoMissedWakeup
<1>1. BufInv => NoMissedWakeup
  BY DEF BufInv, BufType, LockInv, QueueInv, Waiting, NoMissedWakeup, Range
<1> QED
  BY <1>1, BufInvariant, PTL

(* A buffer is dirty because its block is in the log's header, or because  *)
(* it is being written.                                                    *)
Writing(b) == \E h \in Hands : buf[h] = b /\ pc[h] = "write"
DirtyInv == \A b \in Bufs : dirty[b] => block[b] \in lh \/ Writing(b)
PinInv == IsFiniteSet(lh) /\ DirtyInv

LEMMA BufsFinite ==
    ASSUME NEW S \in SUBSET Bufs
    PROVE  IsFiniteSet(S) /\ Cardinality(S) \in Nat /\ Cardinality(Bufs) = NBUF
<1>1. IsFiniteSet(Bufs) /\ Cardinality(Bufs) = NBUF
  BY NBUFAssumption, FS_Interval DEF Bufs
<1>2. IsFiniteSet(S)
  BY <1>1, FS_Subset
<1> QED
  BY <1>1, <1>2, FS_CardinalityType

LEMMA PinInitInv == Init => PinInv
  BY FS_EmptySet DEF Init, PinInv, DirtyInv

(* Steps after which every dirty buffer was dirty before, on its block and *)
(* with its writer.                                                        *)
LEMMA PinSame ==
    ASSUME PinInv, lh' = lh,
           \A b \in Bufs : dirty'[b] => dirty[b] /\ block'[b] = block[b],
           \A b \in Bufs : dirty'[b] /\ Writing(b) => Writing(b)'
    PROVE  PinInv'
  BY Zenon DEF PinInv, DirtyInv

(* log_write() puts the block into the header, bwrite() writes it at once, *)
(* and the header is emptied when none of its blocks is dirty.             *)
LEMMA PinStepInv == BufInv /\ PinInv /\ [Next]_vars => PinInv'
<1> SUFFICES ASSUME BufInv, PinInv, [Next]_vars PROVE PinInv'
  OBVIOUS
<1>2. CASE UNCHANGED vars
  BY <1>2, PinSame DEF vars, Writing
<1>3. CASE Ideintr \/ IdeintrError
  <2>0. Finish
    BY <1>3 DEF Ideintr, IdeintrError, Finish
  <2>1. Head(queue) \in Bufs
    BY <2>0, Finisher
  <2>2. \A b \in Bufs : dirty'[b] => dirty[b] /\ b # Head(queue)
    BY <2>0, <2>1 DEF BufInv, BufType, Finish
  <2>3. \A h \in Hands : buf'[h] = buf[h] /\ (buf[h] # Head(queue) => pc'[h] = pc[h])
    BY <2>0 DEF BufInv, BufType, Finish, IoDone
  <2>4. \A b \in Bufs : dirty'[b] /\ Writing(b) => Writing(b)'
    BY <2>2, <2>3, Zenon DEF Writing
  <2>5. lh' = lh /\ block' = block
    BY <2>0 DEF Finish
  <2> QED
    BY <2>2, <2>4, <2>5, PinSame, Zenon
<1>4. CASE ClearLog
  <2>1. /\ \A b \in Bufs : block[b] \in lh => ~dirty[b]
        /\ lh' = {} /\ UNCHANGED <<block, dirty, buf, pc>>
    BY <1>4, Zenon DEF ClearLog, bufVars
  <2>2. DirtyInv'
    BY <2>1, Zenon DEF PinInv, DirtyInv, Writing
  <2>3. IsFiniteSet(lh')
    BY <2>1, FS_EmptySet
  <2> QED
    BY <2>2, <2>3 DEF PinInv
<1>5. ASSUME NEW h \in Hands, NEW k \in Blocks, BgetHit(h, k) PROVE PinInv'
  <2>1. pc[h] = "idle" /\ UNCHANGED <<dirty, block, lh>>
    BY <1>5, Zenon DEF BgetHit, MayAsk
  <2>2. \A q \in Hands : q # h => buf'[q] = buf[q] /\ pc'[q] = pc[q]
    BY <1>5 DEF BgetHit, Goto, BufInv, BufType
  <2>3. \A b \in Bufs : Writing(b) => Writing(b)'
    BY <2>1, <2>2, Zenon DEF Writing
  <2> QED
    BY <2>1, <2>3, PinSame, Zenon
<1>6. ASSUME NEW h \in Hands, NEW k \in Blocks, BgetRecycle(h, k) PROVE PinInv'
  <2>1. PICK i \in Bufs : /\ dirty' = [dirty EXCEPT ![lru[i]] = FALSE]
                          /\ block' = [block EXCEPT ![lru[i]] = k]
                          /\ buf' = [buf EXCEPT ![h] = lru[i]]
    BY <1>6, Zenon DEF BgetRecycle
  <2>2. lru[i] \in Bufs
    BY DEF BufInv, ListInv
  <2>3. \A b \in Bufs : dirty'[b] => dirty[b] /\ block'[b] = block[b]
    BY <2>1, <2>2 DEF BufInv, BufType
  <2>4. \A q \in Hands : q # h => buf'[q] = buf[q] /\ pc'[q] = pc[q]
    BY <1>6, <2>1 DEF BufInv, BufType, BgetRecycle, Goto
  <2>5. pc[h] = "idle" /\ lh' = lh
    BY <1>6, Zenon DEF BgetRecycle, MayAsk
  <2>6. \A b \in Bufs : Writing(b) => Writing(b)'
    BY <2>4, <2>5, Zenon DEF Writing
  <2> QED
    BY <2>3, <2>5, <2>6, PinSame, Zenon
<1>7. ASSUME NEW h \in Hands,
             \/ AcquireSleep(h) \/ SleepOnLock(h) \/ BreadValid(h) \/ BreadDisk(h)
             \/ BreadMem(h)
      PROVE  PinInv'
  <2>1. UNCHANGED <<dirty, block, buf, lh>> /\ pc[h] # "write"
    BY <1>7, Zenon DEF AcquireSleep, SleepOnLock, BreadValid, BreadDisk, BreadMem, bufVars
  <2>2. \A q \in Hands : q # h => pc'[q] = pc[q]
    BY <1>7 DEF AcquireSleep, SleepOnLock, BreadValid, BreadDisk, BreadMem, Goto, Iderw,
                BufInv, BufType
  <2>3. \A b \in Bufs : Writing(b) => Writing(b)'
    BY <2>1, <2>2, Zenon DEF Writing
  <2> QED
    BY <2>1, <2>3, PinSame, Zenon
<1>8. ASSUME NEW h \in Hands, Unlock(h) PROVE PinInv'
  <2>1. UNCHANGED <<dirty, block, buf, lh>> /\ pc[h] # "write"
    BY <1>8 DEF Unlock, Between, bufVars
  <2>2. \A q \in Hands : pc[q] = "write" => pc'[q] = "write"
    BY <1>8 DEF Unlock, Between, Woken, BufInv, BufType
  <2>3. \A b \in Bufs : Writing(b) => Writing(b)'
    BY <2>1, <2>2, Zenon DEF Writing
  <2> QED
    BY <2>1, <2>3, PinSame, Zenon
<1>9. ASSUME NEW h \in Hands, Unref(h) PROVE PinInv'
  <2>1. UNCHANGED <<dirty, block, lh>> /\ pc[h] # "write"
    BY <1>9 DEF Unref
  <2>2. \A q \in Hands : q # h => buf'[q] = buf[q] /\ pc'[q] = pc[q]
    BY <1>9 DEF Unref, Goto, BufInv, BufType
  <2>3. \A b \in Bufs : Writing(b) => Writing(b)'
    BY <2>1, <2>2, Zenon DEF Writing
  <2> QED
    BY <2>1, <2>3, PinSame, Zenon
<1>10. ASSUME NEW h \in Hands, NEW v \in Vals, Bwrite(h, v) PROVE PinInv'
  <2>1. /\ UNCHANGED <<block, buf, lh>> /\ pc'[h] = "write" /\ pc[h] # "write"
        /\ \A q \in Hands : q # h => pc'[q] = pc[q]
    BY <1>10 DEF Bwrite, Between, Iderw, Goto, BufInv, BufType
  <2>2. \A b \in Bufs : b # buf[h] => dirty'[b] = dirty[b]
    BY <1>10 DEF Bwrite, BufInv, BufType
  <2>3. Writing(buf[h])'
    BY <2>1, Zenon DEF Writing
  <2>4. \A b \in Bufs : Writing(b) => Writing(b)'
    BY <2>1, Zenon DEF Writing
  <2>5. DirtyInv'
    BY <2>1, <2>2, <2>3, <2>4, Zenon DEF PinInv, DirtyInv
  <2> QED
    BY <2>1, <2>5, Zenon DEF PinInv
<1>11. ASSUME NEW h \in Hands, NEW v \in Vals, BwriteMem(h, v) PROVE PinInv'
  <2>1. UNCHANGED <<block, buf, pc, lh>>
    BY <1>11 DEF BwriteMem
  <2>2. \A b \in Bufs : dirty'[b] => dirty[b]
    BY <1>11 DEF BwriteMem, BufInv, BufType
  <2> QED
    BY <2>1, <2>2, PinSame DEF Writing
<1>12. ASSUME NEW h \in Hands, NEW v \in Vals, LogWrite(h, v) PROVE PinInv'
  <2>1. UNCHANGED <<block, buf, pc>> /\ lh' = lh \cup {block[buf[h]]}
    BY <1>12 DEF LogWrite
  <2>2. \A b \in Bufs : b # buf[h] => dirty'[b] = dirty[b]
    BY <1>12 DEF LogWrite, BufInv, BufType
  <2>3. DirtyInv'
    BY <2>1, <2>2, Zenon DEF PinInv, DirtyInv, Writing
  <2>4. IsFiniteSet(lh')
    BY <2>1, FS_AddElement, Zenon DEF PinInv
  <2> QED
    BY <2>3, <2>4 DEF PinInv
<1> QED
  BY <1>2, <1>3, <1>4, <1>5, <1>6, <1>7, <1>8, <1>9, <1>10, <1>11, <1>12 DEF Next

(* bget() finds a buffer to recycle as long as the buffers in the hands of *)
(* processes and the blocks in the log's header are fewer than the         *)
(* buffers, through every commit and every failed request: nothing else    *)
(* keeps a buffer from it.                                                 *)
THEOREM RecyclesAlways == Spec => []NoPanic
<1>1. BufInv /\ PinInv => NoPanic
  <2> DEFINE Busy == {h \in Hands : buf[h] # NoBuf}
             Used == {b \in Bufs : \E h \in Busy : buf[h] = b}
             Logged == {b \in Bufs : block[b] \in lh}
             f == [h \in Busy |-> buf[h]]
             g == [b \in Logged |-> block[b]]
  <2> SUFFICES ASSUME BufInv, PinInv, Cardinality(Busy) + Cardinality(lh) < NBUF,
                      \A b \in Bufs : ~Recyclable(b)
               PROVE  FALSE
    BY DEF NoPanic
  <2>1. IsFiniteSet(Busy) /\ Cardinality(Busy) \in Nat
    <3>1. Busy \in SUBSET Hands
      OBVIOUS
    <3> QED
      BY <3>1, HandsFinite, FS_Subset, FS_CardinalityType
  <2>2. f \in Surjection(Busy, Used)
    BY DEF Surjection, BufInv, BufType
  <2>3. Cardinality(Used) <= Cardinality(Busy)
    BY <2>1, <2>2, FS_Surjection
  <2>4. g \in Injection(Logged, lh)
    BY NoBlockAssumption DEF Injection, IsInjective, BufInv, BufType, BlockInv
  <2>5. Cardinality(Logged) <= Cardinality(lh) /\ Cardinality(lh) \in Nat
    BY <2>4, FS_Injection, FS_CardinalityType DEF PinInv
  <2>6. Used \in SUBSET Bufs /\ Logged \in SUBSET Bufs
    OBVIOUS
  <2>7. Bufs \subseteq Used \cup Logged
    <3> SUFFICES ASSUME NEW b \in Bufs, b \notin Used PROVE b \in Logged
      OBVIOUS
    <3>1. \A q \in Hands : buf[q] # b
      BY BufFacts
    <3>2. Users(buf, b) = {}
      BY <3>1 DEF Users
    <3>3. refcnt[b] = 0
      BY <3>2, FS_EmptySet DEF BufInv, CountInv
    <3>4. dirty[b] /\ ~Writing(b)
      BY <3>1, <3>3 DEF Recyclable, Writing
    <3> QED
      BY <3>4 DEF PinInv, DirtyInv
  <2>8. Used \cup Logged = Bufs
    BY <2>6, <2>7
  <2> HIDE DEF Busy, Used, Logged, f, g
  <2>9. Cardinality(Used \cup Logged) <= Cardinality(Used) + Cardinality(Logged)
    <3>1. IsFiniteSet(Used) /\ IsFiniteSet(Logged) /\ Cardinality(Used \cap Logged) \in Nat
      BY <2>6, BufsFinite
    <3>2. Cardinality(Used) \in Nat /\ Cardinality(Logged) \in Nat
      BY <2>6, BufsFinite
    <3>3. Cardinality(Used \cup Logged)
            = Cardinality(Used) + Cardinality(Logged) - Cardinality(Used \cap Logged)
      BY <3>1, FS_Union
    <3> QED
      BY <3>1, <3>2, <3>3
  <2>10. /\ Cardinality(Bufs) = NBUF /\ Cardinality(Used) \in Nat
         /\ Cardinality(Logged) \in Nat
    BY <2>6, BufsFinite
  <2>11. Cardinality(Used \cup Logged) = NBUF
    BY <2>8, <2>10, Zenon
  <2> QED
    BY <2>1, <2>3, <2>5, <2>9, <2>10, <2>11, NBUFAssumption
<1>2. Spec => []PinInv
  BY BufInvariant, PinInitInv, PinStepInv, PTL DEF Spec
<1> QED
  BY <1>1, <1>2, BufInvariant, PTL
-----------------------------------------------------------------------------
(***************************************************************************)
(* The buffer cache implements BlockStore: by the invariant above a block  *)
(* has one valid copy and one holder at most, so that the refinement       *)
(* mapping is determined, and each step of the cache is a step of the      *)
(* store on that block, or none.                                           *)
(***************************************************************************)

(* The refinement mapping without CHOOSE. *)
Held(h) == pc[h] \in {"hold", "write"}

ContentFacts ==
    /\ Content \in [Blocks -> Vals]
    /\ \A b \in Bufs : valid[b] => Content[block[b]] = data[b]
    /\ \A k \in Blocks : (\A b \in Bufs : block[b] = k => ~valid[b]) => Content[k] = disk[k]

HolderFacts ==
    /\ Holder \in [Blocks -> Hands \cup {Nobody}]
    /\ \A h \in Hands : Held(h) => Holder[block[buf[h]]] = h
    /\ \A k \in Blocks : Holder[k] # Nobody => Held(Holder[k]) /\ block[buf[Holder[k]]] = k

MapFacts == ContentFacts /\ HolderFacts

LEMMA MapIs == BufInv => MapFacts
<1> SUFFICES ASSUME BufInv PROVE MapFacts
  OBVIOUS
<1>1. \A b \in Bufs : valid[b] => block[b] \in Blocks
  BY DEF BufInv, BufType, DataInv
<1>2. ASSUME NEW b \in Bufs, valid[b] PROVE Content[block[b]] = data[b]
  <2>1. (CHOOSE c \in Bufs : block[c] = block[b] /\ valid[c]) = b
    BY <1>1, <1>2, NoBlockAssumption DEF BufInv, BlockInv
  <2> QED
    BY <2>1, <1>1, <1>2 DEF Content
<1>3. ASSUME NEW k \in Blocks, \A b \in Bufs : block[b] = k => ~valid[b]
      PROVE  Content[k] = disk[k]
  BY <1>3 DEF Content
<1>4. Content \in [Blocks -> Vals]
  <2>1. ASSUME NEW k \in Blocks PROVE Content[k] \in Vals
    <3>1. CASE \E b \in Bufs : block[b] = k /\ valid[b]
      <4>1. PICK b \in Bufs : block[b] = k /\ valid[b]
        BY <3>1
      <4>2. Content[k] = data[b]
        BY <4>1, <1>2
      <4> QED
        BY <4>2 DEF BufInv, BufType
    <3>2. CASE ~ \E b \in Bufs : block[b] = k /\ valid[b]
      BY <3>2, <1>3, Zenon DEF BufInv, BufType
    <3> QED
      BY <3>1, <3>2
  <2> QED
    BY <2>1 DEF Content
<1>5. ASSUME NEW h \in Hands, Held(h) PROVE Holder[block[buf[h]]] = h
  <2>1. pc[h] # "idle" /\ pc[h] \in Holding
    BY <1>5 DEF Held, Holding
  <2>2. ASSUME NEW q \in Hands, Held(q), block[buf[q]] = block[buf[h]] PROVE q = h
    <3>1. pc[q] # "idle" /\ pc[q] \in Holding
      BY <2>2 DEF Held, Holding
    <3>2. buf[q] = buf[h]
      BY <2>1, <2>2, <3>1, HasBuf, NoBlockAssumption DEF BufInv, BlockInv
    <3> QED
      BY <2>1, <3>1, <3>2, HasBuf
  <2>3. (CHOOSE q \in Hands : pc[q] \in {"hold", "write"} /\ block[buf[q]] = block[buf[h]]) = h
    BY <1>5, <2>2 DEF Held
  <2> QED
    BY <1>5, <2>1, <2>3, HasBuf DEF Holder, Held
<1>6. ASSUME NEW k \in Blocks
      PROVE  \/ Holder[k] = Nobody
             \/ Holder[k] \in Hands /\ Held(Holder[k]) /\ block[buf[Holder[k]]] = k
  <2>1. CASE \E h \in Hands : pc[h] \in {"hold", "write"} /\ block[buf[h]] = k
    BY <2>1, <1>5 DEF Held
  <2>2. CASE ~ \E h \in Hands : pc[h] \in {"hold", "write"} /\ block[buf[h]] = k
    BY <2>2 DEF Holder
  <2> QED
    BY <2>1, <2>2
<1>7. Holder \in [Blocks -> Hands \cup {Nobody}]
  <2>1. Holder = [k \in Blocks |-> Holder[k]]
    BY DEF Holder
  <2> QED
    BY <2>1, <1>6
<1> QED
  BY <1>2, <1>3, <1>4, <1>5, <1>6, <1>7 DEF MapFacts, ContentFacts, HolderFacts

(* A step that leaves block k's copy alone, and one that leaves its holder. *)
LEMMA SameContent ==
    ASSUME MapFacts, MapFacts', NEW k \in Blocks, disk'[k] = disk[k],
           \A b \in Bufs : block[b] = k /\ valid[b] <=> block'[b] = k /\ valid'[b],
           \A b \in Bufs : block[b] = k /\ valid[b] => data'[b] = data[b]
    PROVE  Content'[k] = Content[k]
<1>1. CASE \E b \in Bufs : block[b] = k /\ valid[b]
  <2>1. PICK b \in Bufs : block[b] = k /\ valid[b]
    BY <1>1
  <2>2. block'[b] = k /\ valid'[b] /\ data'[b] = data[b]
    BY <2>1
  <2>3. Content[block[b]] = data[b]
    BY <2>1, Zenon DEF MapFacts, ContentFacts
  <2>4. Content'[block'[b]] = data'[b]
    BY <2>2 DEF MapFacts, ContentFacts
  <2> QED
    BY <2>1, <2>2, <2>3, <2>4
<1>2. CASE ~ \E b \in Bufs : block[b] = k /\ valid[b]
  BY <1>2, Zenon DEF MapFacts, ContentFacts
<1> QED
  BY <1>1, <1>2

LEMMA NoHolder ==
    ASSUME MapFacts', NEW k \in Blocks,
           \A q \in Hands : ~(Held(q)' /\ block'[buf'[q]] = k)
    PROVE  Holder'[k] = Nobody
<1>1. SUFFICES ASSUME Holder'[k] # Nobody PROVE FALSE
  OBVIOUS
<1>2. PICK q \in Hands : q = Holder'[k] /\ Held(q)' /\ block'[buf'[q]] = k
  BY <1>1 DEF MapFacts, HolderFacts, Held
<1> QED
  BY <1>2

LEMMA SameHolder ==
    ASSUME MapFacts, MapFacts', NEW k \in Blocks,
           \A q \in Hands : Held(q) /\ block[buf[q]] = k <=> Held(q)' /\ block'[buf'[q]] = k
    PROVE  Holder'[k] = Holder[k]
<1>1. CASE Holder[k] # Nobody
  <2>0. HolderFacts
    BY DEF MapFacts
  <2>1. Holder[k] \in Hands /\ Held(Holder[k]) /\ block[buf[Holder[k]]] = k
    <3>1. Holder[k] \in Hands \cup {Nobody}
      BY <2>0, Zenon DEF HolderFacts
    <3>2. Held(Holder[k]) /\ block[buf[Holder[k]]] = k
      BY <1>1, <2>0, Zenon DEF HolderFacts
    <3> QED
      BY <1>1, <3>1, <3>2, Zenon
  <2>2. PICK q \in Hands : q = Holder[k] /\ Held(q) /\ block[buf[q]] = k
    BY <2>1
  <2>3. Held(q)' /\ block'[buf'[q]] = k
    BY <2>2
  <2>4. Holder'[block'[buf'[q]]] = q
    BY <2>3, Zenon DEF MapFacts, HolderFacts
  <2> QED
    BY <2>2, <2>3, <2>4
<1>2. CASE Holder[k] = Nobody
  <2>1. \A q \in Hands : ~(Held(q) /\ block[buf[q]] = k)
    <3>1. \A q \in Hands : Held(q) => Holder[block[buf[q]]] = q
      BY Zenon DEF MapFacts, HolderFacts
    <3> QED
      BY <1>2, <3>1, NoBlockAssumption
  <2> QED
    BY <1>2, <2>1, NoHolder, Zenon
<1> QED
  BY <1>1, <1>2

LEMMA Unchanged ==
    ASSUME MapFacts, MapFacts'
    PROVE  /\ (\A k \in Blocks : Content'[k] = Content[k]) => Content' = Content
           /\ (\A k \in Blocks : Holder'[k] = Holder[k]) => Holder' = Holder
<1>1. Content \in [Blocks -> Vals] /\ Content' \in [Blocks -> Vals]
  BY DEF MapFacts, ContentFacts
<1>2. /\ Holder \in [Blocks -> Hands \cup {Nobody}]
      /\ Holder' \in [Blocks -> Hands \cup {Nobody}]
  BY DEF MapFacts, HolderFacts
<1>3. (\A k \in Blocks : Content'[k] = Content[k]) => Content' = Content
  BY <1>1, SameFunction
<1>4. (\A k \in Blocks : Holder'[k] = Holder[k]) => Holder' = Holder
  BY <1>2, SameFunction
<1> QED
  BY <1>3, <1>4

(* The buffer of the process that has its lock, and everybody else. *)
LEMMA Alone ==
    ASSUME BufInv, NEW h \in Hands, pc[h] \in Holding
    PROVE  /\ buf[h] \in Bufs /\ block[buf[h]] \in Blocks
           /\ \A b \in Bufs : block[b] = block[buf[h]] => b = buf[h]
           /\ \A q \in Hands : Held(q) /\ block[buf[q]] = block[buf[h]] => q = h
<1>1. pc[h] # "idle"
  BY DEF Holding
<1>2. buf[h] \in Bufs /\ block[buf[h]] \in Blocks
  BY <1>1, HasBuf
<1>3. \A b \in Bufs : block[b] = block[buf[h]] => b = buf[h]
  BY <1>2, NoBlockAssumption DEF BufInv, BlockInv
<1>4. ASSUME NEW q \in Hands, Held(q), block[buf[q]] = block[buf[h]] PROVE q = h
  <2>1. pc[q] # "idle" /\ pc[q] \in Holding
    BY <1>4 DEF Held, Holding
  <2> QED
    BY <2>1, <1>1, <1>3, <1>4, HasBuf
<1> QED
  BY <1>2, <1>3, <1>4

(* A process that gets its block takes the abstract lock. *)
LEMMA TakesHolder ==
    ASSUME BufInv, MapFacts, MapFacts', NEW h \in Hands, pc[h] \in Holding, ~Held(h),
           pc' = [pc EXCEPT ![h] = "hold"], UNCHANGED <<block, buf>>
    PROVE  /\ Holder[block[buf[h]]] = Nobody
           /\ Holder' = [Holder EXCEPT ![block[buf[h]]] = h]
<1> DEFINE K == block[buf[h]]
<1>1. K \in Blocks /\ \A q \in Hands : Held(q) /\ block[buf[q]] = K => q = h
  BY Alone, Zenon
<1>2. Holder[K] = Nobody
  BY <1>1 DEF MapFacts, HolderFacts
<1>3. pc'[h] = "hold" /\ \A q \in Hands : q # h => pc'[q] = pc[q]
  BY DEF BufInv, BufType
<1>4. Holder'[K] = h
  BY <1>3 DEF MapFacts, HolderFacts, Held
<1>5. ASSUME NEW k \in Blocks, k # K PROVE Holder'[k] = Holder[k]
  <2>1. \A q \in Hands : Held(q) /\ block[buf[q]] = k <=> Held(q)' /\ block'[buf'[q]] = k
    BY <1>3, <1>5 DEF Held
  <2> QED
    BY <2>1, SameHolder
<1> HIDE DEF K
<1>6. Holder' = [Holder EXCEPT ![K] = h]
  <2>1. /\ Holder \in [Blocks -> Hands \cup {Nobody}]
        /\ Holder' \in [Blocks -> Hands \cup {Nobody}]
    BY DEF MapFacts, HolderFacts
  <2> QED
    BY <1>1, <1>4, <1>5, <2>1, OneChange
<1> QED
  BY <1>2, <1>6 DEF K

(* Its write changes this block and no other. *)
LEMMA ChangesContent ==
    ASSUME BufInv, MapFacts, MapFacts', NEW h \in Hands, pc[h] \in Holding, NEW v \in Vals,
           data' = [data EXCEPT ![buf[h]] = v], UNCHANGED block,
           valid' = [valid EXCEPT ![buf[h]] = TRUE],
           \A k \in Blocks : k # block[buf[h]] => disk'[k] = disk[k]
    PROVE  Content' = [Content EXCEPT ![block[buf[h]]] = v]
<1> DEFINE K == block[buf[h]]
<1>1. /\ buf[h] \in Bufs /\ K \in Blocks
      /\ \A b \in Bufs : block[b] = K => b = buf[h]
  BY Alone, Zenon
<1>2. data'[buf[h]] = v /\ valid'[buf[h]] /\ block'[buf[h]] = K
  BY <1>1 DEF BufInv, BufType
<1>3. Content'[K] = v
  BY <1>1, <1>2, Zenon DEF MapFacts, ContentFacts
<1>4. ASSUME NEW k \in Blocks, k # K PROVE Content'[k] = Content[k]
  <2>1. /\ \A b \in Bufs : block[b] = k /\ valid[b] <=> block'[b] = k /\ valid'[b]
        /\ \A b \in Bufs : block[b] = k /\ valid[b] => data'[b] = data[b]
    BY <1>4 DEF BufInv, BufType
  <2> QED
    BY <2>1, <1>4, SameContent
<1> HIDE DEF K
<1>5. Content' = [Content EXCEPT ![K] = v]
  <2>1. Content \in [Blocks -> Vals] /\ Content' \in [Blocks -> Vals]
    BY Zenon DEF MapFacts, ContentFacts
  <2> QED
    BY <1>1, <1>3, <1>4, <2>1, OneChange, Zenon
<1> QED
  BY <1>5 DEF K

(* Reading a block into its buffer changes no content. *)
LEMMA FillsBuffer ==
    ASSUME BufInv, MapFacts, MapFacts', NEW h \in Hands, pc[h] \in Holding, ~valid[buf[h]],
           data' = [data EXCEPT ![buf[h]] = disk[block[buf[h]]]],
           valid' = [valid EXCEPT ![buf[h]] = TRUE], UNCHANGED <<block, disk>>
    PROVE  Content' = Content
<1> DEFINE K == block[buf[h]]
<1>1. /\ buf[h] \in Bufs /\ K \in Blocks
      /\ \A b \in Bufs : block[b] = K => b = buf[h]
  BY Alone, Zenon
<1>2. data'[buf[h]] = disk[K] /\ valid'[buf[h]] /\ block'[buf[h]] = K
  BY <1>1 DEF BufInv, BufType
<1>3. Content'[K] = Content[K]
  <2>1. Content'[block'[buf[h]]] = data'[buf[h]]
    BY <1>1, <1>2, Zenon DEF MapFacts, ContentFacts
  <2>2. \A b \in Bufs : block[b] = K => ~valid[b]
    BY <1>1
  <2>3. Content[K] = disk[K]
    BY <1>1, <2>2, Zenon DEF MapFacts, ContentFacts
  <2> QED
    BY <1>2, <2>1, <2>3, Zenon
<1>4. ASSUME NEW k \in Blocks, k # K PROVE Content'[k] = Content[k]
  <2>1. /\ \A b \in Bufs : block[b] = k /\ valid[b] <=> block'[b] = k /\ valid'[b]
        /\ \A b \in Bufs : block[b] = k /\ valid[b] => data'[b] = data[b]
    BY <1>4 DEF BufInv, BufType
  <2> QED
    BY <2>1, <1>4, SameContent, Zenon
<1>5. \A k \in Blocks : Content'[k] = Content[k]
  BY <1>3, <1>4, Zenon
<1> QED
  BY <1>5, Unchanged, Zenon

(* Every step of the cache is a step of the store, or none. *)
LEMMA StepRefines ==
    ASSUME BufInv, BufInv', MapFacts, MapFacts', [Next]_vars
    PROVE  [Abstract!Next]_(Abstract!vars)
<1>1. CASE UNCHANGED vars
  BY <1>1 DEF vars, Abstract!vars, Content, Holder
<1>2. CASE Ideintr \/ IdeintrError
  <2> DEFINE b == Head(queue)
  <2>0. Finish
    BY <1>2 DEF Ideintr, IdeintrError, Finish
  <2>1. PICK h \in Hands : /\ pc[h] \in Waiting /\ buf[h] = b
                           /\ pc' = [pc EXCEPT ![h] = "hold"]
    BY <2>0, Finisher
  <2>2. /\ valid' = [valid EXCEPT ![b] = TRUE] /\ UNCHANGED <<block, buf>>
        /\ b \in Bufs /\ block[b] \in Blocks
    BY <2>0, Finisher DEF Finish
  <2>3. pc[h] # "idle" /\ pc[h] \in Holding
    BY <2>1 DEF Waiting, Holding
  <2>4. \/ /\ IF dirty[b]
              THEN disk' = [disk EXCEPT ![block[b]] = data[b]] /\ UNCHANGED data
              ELSE data' = [data EXCEPT ![b] = disk[block[b]]] /\ UNCHANGED disk
           /\ failed' = failed \ {block[b]}
        \/ failed' = failed \cup {block[b]} /\ UNCHANGED <<data, disk>>
    BY <1>2 DEF Ideintr, IdeintrError
  <2> HIDE DEF b
  <2>5. CASE pc[h] = "write"
    <3>1. valid[b] /\ dirty[b]
      BY <2>1, <2>5, Zenon DEF BufInv, FlagInv
    <3>2. valid' = valid /\ data' = data
      BY <2>2, <2>4, <3>1 DEF BufInv, BufType
    <3>3. ASSUME NEW k \in Blocks PROVE Content'[k] = Content[k]
      <4>1. CASE k = block[b]
        <5>1. Content[block[b]] = data[b]
          BY <2>2, <3>1, Zenon DEF MapFacts, ContentFacts
        <5>2. Content'[block'[b]] = data'[b]
          BY <2>2, <3>1, <3>2 DEF MapFacts, ContentFacts
        <5> QED
          BY <4>1, <5>1, <5>2, <2>2, <3>2
      <4>2. CASE k # block[b]
        <5>1. disk'[k] = disk[k]
          BY <4>2, <2>4, <3>1 DEF BufInv, BufType
        <5> QED
          BY <5>1, <2>2, <3>2, SameContent, Zenon
      <4> QED
        BY <4>1, <4>2
    <3>4. ASSUME NEW k \in Blocks PROVE Holder'[k] = Holder[k]
      <4>1. \A q \in Hands : Held(q) /\ block[buf[q]] = k <=> Held(q)' /\ block'[buf'[q]] = k
        BY <2>1, <2>2, <2>5, Zenon DEF Held, BufInv, BufType
      <4> QED
        BY <4>1, SameHolder, Zenon
    <3>5. Content' = Content /\ Holder' = Holder
      BY <3>3, <3>4, Unchanged
    <3>6. Holder[block[b]] = h
      BY <2>1, <2>5 DEF MapFacts, HolderFacts, Held
    <3>7. failed' \in {failed \ {block[b]}, failed \cup {block[b]}}
      BY <2>4
    <3> QED
      BY <2>2, <3>5, <3>6, <3>7, Zenon DEF Abstract!Next, Abstract!Written
  <2>6. CASE pc[h] = "read"
    <3>1. ~valid[buf[h]] /\ ~dirty[b]
      BY <2>1, <2>2, <2>6, ZenonT(30) DEF BufInv, FlagInv, DataInv
    <3>2. /\ Holder[block[b]] = Nobody
          /\ Holder' = [Holder EXCEPT ![block[b]] = h]
      BY <2>1, <2>2, <2>3, <2>6, TakesHolder, Zenon DEF Held
    <3>3. Abstract!Take(h, block[b])
      BY <2>2, <3>2 DEF Abstract!Take, MapFacts, HolderFacts
    <3>4. CASE failed' = failed \ {block[b]} /\ data' = [data EXCEPT ![b] = disk[block[b]]]
               /\ disk' = disk
      <4>1. Content' = Content
        BY <2>1, <2>2, <2>3, <3>1, <3>4, FillsBuffer, Zenon
      <4> QED
        BY <2>2, <3>3, <3>4, <4>1, Zenon DEF Abstract!Next, Abstract!Bread
    <3>5. CASE failed' = failed \cup {block[b]} /\ UNCHANGED <<data, disk>>
      <4>1. data[b] \in Vals /\ data' = [data EXCEPT ![b] = data[b]]
        BY <2>2, <3>5 DEF BufInv, BufType
      <4>2. Content' = [Content EXCEPT ![block[b]] = data[b]]
        BY <2>1, <2>2, <2>3, <3>5, <4>1, ChangesContent, Zenon
      <4> QED
        BY <2>2, <3>3, <3>5, <4>1, <4>2, Zenon DEF Abstract!Next, Abstract!BreadFails
    <3> QED
      BY <2>4, <3>1, <3>4, <3>5, Zenon
  <2> QED
    BY <2>1, <2>5, <2>6 DEF Waiting
<1>a. CASE ClearLog
  BY <1>a, Zenon DEF ClearLog, bufVars, Abstract!vars, Content, Holder
<1>3. ASSUME NEW h \in Hands, NEW k \in Blocks, BgetHit(h, k)
      PROVE  UNCHANGED Abstract!vars
  <2>1. Content' = Content
    BY <1>3, Zenon DEF BgetHit, Content
  <2>2. ASSUME NEW j \in Blocks PROVE Holder'[j] = Holder[j]
    <3>1. \A q \in Hands : Held(q) /\ block[buf[q]] = j <=> Held(q)' /\ block'[buf'[q]] = j
      BY <1>3, ZenonT(30) DEF BgetHit, MayAsk, Goto, Held, BufInv, BufType
    <3> QED
      BY <3>1, SameHolder
  <2>3. failed' = failed
    BY <1>3 DEF BgetHit
  <2> QED
    BY <2>1, <2>2, <2>3, Unchanged DEF Abstract!vars
<1>4. ASSUME NEW h \in Hands, NEW k \in Blocks, BgetRecycle(h, k)
      PROVE  [Abstract!Next]_(Abstract!vars)
  <2>1. PICK b \in Bufs :
          /\ Recyclable(b) /\ \A c \in Bufs : block[c] # k
          /\ block' = [block EXCEPT ![b] = k] /\ valid' = [valid EXCEPT ![b] = FALSE]
          /\ buf' = [buf EXCEPT ![h] = b] /\ pc[h] = "idle"
          /\ pc' = [pc EXCEPT ![h] = "lock"] /\ UNCHANGED <<data, disk, failed>>
    BY <1>4, Zenon DEF BgetRecycle, MayAsk, Goto, BufInv, ListInv
  <2>2. \A q \in Hands : buf[q] # b
    BY <2>1, Unused DEF Recyclable
  <2>3. ASSUME NEW j \in Blocks, ~(j = block[b] /\ valid[b]) PROVE Content'[j] = Content[j]
    <3>1. /\ \A c \in Bufs : block[c] = j /\ valid[c] <=> block'[c] = j /\ valid'[c]
          /\ \A c \in Bufs : block[c] = j /\ valid[c] => data'[c] = data[c]
      BY <2>3, <2>1, Zenon DEF BufInv, BufType
    <3> QED
      BY <3>1, <2>1, SameContent, Zenon
  <2>4. ASSUME NEW j \in Blocks PROVE Holder'[j] = Holder[j]
    <3>1. \A q \in Hands : q # h => buf'[q] = buf[q] /\ pc'[q] = pc[q]
      BY <2>1, Zenon DEF BufInv, BufType
    <3>a. ASSUME NEW q \in Hands, Held(q) PROVE block'[buf[q]] = block[buf[q]]
      <4>1. buf[q] \in Bufs /\ buf[q] # b
        BY <3>a, <2>2, HasBuf DEF Held
      <4> QED
        BY <4>1, <2>1, Zenon DEF BufInv, BufType
    <3>2. ~Held(h) /\ ~Held(h)'
      BY <2>1, Zenon DEF Held, BufInv, BufType
    <3>3. \A q \in Hands : Held(q) /\ block[buf[q]] = j <=> Held(q)' /\ block'[buf'[q]] = j
      <4> SUFFICES ASSUME NEW q \in Hands
                   PROVE  Held(q) /\ block[buf[q]] = j <=> Held(q)' /\ block'[buf'[q]] = j
        OBVIOUS
      <4>1. CASE q = h
        BY <4>1, <3>2
      <4>2. CASE q # h
        <5>1. buf'[q] = buf[q] /\ (Held(q) <=> Held(q)')
          BY <4>2, <3>1 DEF Held
        <5> QED
          BY <5>1, <3>a
      <4> QED
        BY <4>1, <4>2, Zenon
    <3> QED
      BY <3>3, SameHolder, Zenon
  <2>5. Holder' = Holder
    BY <2>4, Unchanged
  <2>6. CASE ~valid[b]
    BY <2>1, <2>3, <2>5, <2>6, Unchanged DEF Abstract!vars
  <2>7. CASE valid[b]
    <3>1. block[b] \in Blocks /\ data[b] = Content[block[b]]
      BY <2>7 DEF BufInv, BufType, DataInv, MapFacts, ContentFacts
    <3>2. Content'[block[b]] = disk[block[b]]
      <4>1. \A c \in Bufs : block'[c] = block[b] => ~valid'[c]
        BY <3>1, <2>1, NoBlockAssumption DEF BufInv, BufType, BlockInv
      <4>2. Content'[block[b]] = disk'[block[b]]
        BY <3>1, <4>1, Zenon DEF MapFacts, ContentFacts
      <4> QED
        BY <4>2, <2>1
    <3>3. CASE block[b] \notin failed
      <4>1. data[b] = disk[block[b]]
        BY <2>1, <2>7, <3>3 DEF BufInv, DataInv, Recyclable
      <4>2. \A j \in Blocks : Content'[j] = Content[j]
        BY <2>3, <3>1, <3>2, <4>1, Zenon
      <4> QED
        BY <2>1, <2>5, <4>2, Unchanged DEF Abstract!vars
    <3>4. CASE block[b] \in failed
      <4>1. Content' = [Content EXCEPT ![block[b]] = disk[block[b]]]
        <5>1. Content \in [Blocks -> Vals] /\ Content' \in [Blocks -> Vals]
          BY Zenon DEF MapFacts, ContentFacts
        <5>2. \A j \in Blocks : j # block[b] => Content'[j] = Content[j]
          BY <2>3
        <5> QED
          BY <3>1, <3>2, <5>1, <5>2, OneChange, Zenon
      <4>2. Holder[block[b]] = Nobody
        <5>1. ASSUME NEW q \in Hands, Held(q) PROVE block[buf[q]] # block[b]
          <6>1. pc[q] # "idle"
            BY <5>1 DEF Held
          <6>2. buf[q] \in Bufs /\ buf[q] # b
            BY <6>1, <2>2, HasBuf
          <6> QED
            BY <6>2, <3>1, NoBlockAssumption DEF BufInv, BlockInv
        <5> QED
          BY <3>1, <5>1 DEF MapFacts, HolderFacts
      <4>3. disk[block[b]] \in Vals
        BY <3>1 DEF BufInv, BufType
      <4> QED
        BY <2>1, <2>5, <3>1, <3>4, <4>1, <4>2, <4>3, Zenon DEF Abstract!Next, Abstract!Lose
    <3> QED
      BY <3>3, <3>4
  <2> QED
    BY <2>6, <2>7
<1>5. ASSUME NEW h \in Hands, AcquireSleep(h) \/ SleepOnLock(h) \/ BreadDisk(h) \/ Unref(h)
      PROVE  UNCHANGED Abstract!vars
  <2>1. UNCHANGED <<block, valid, data, disk, failed>>
    BY <1>5, Zenon DEF AcquireSleep, SleepOnLock, BreadDisk, Unref, bufVars
  <2>2. Content' = Content
    BY <2>1 DEF Content
  <2>3. /\ ~Held(h) /\ ~Held(h)'
        /\ \A q \in Hands : q # h => buf'[q] = buf[q] /\ pc'[q] = pc[q]
    BY <1>5, ZenonT(30) DEF AcquireSleep, SleepOnLock, BreadDisk, Unref, Goto, Iderw, Held, BufInv, BufType
  <2>4. ASSUME NEW j \in Blocks PROVE Holder'[j] = Holder[j]
    <3>1. \A q \in Hands : Held(q) /\ block[buf[q]] = j <=> Held(q)' /\ block'[buf'[q]] = j
      BY <2>1, <2>3 DEF Held
    <3> QED
      BY <3>1, SameHolder, Zenon
  <2> QED
    BY <2>1, <2>2, <2>4, Unchanged DEF Abstract!vars
<1>6. ASSUME NEW h \in Hands, BreadValid(h) \/ BreadMem(h) PROVE Abstract!Next
  <2>1. /\ pc[h] \in Holding /\ pc[h] = "locked" /\ pc' = [pc EXCEPT ![h] = "hold"]
        /\ UNCHANGED <<block, buf, disk, failed>>
    BY <1>6 DEF BreadValid, BreadMem, Goto, Holding, bufVars
  <2>2. block[buf[h]] \in Blocks
    BY <2>1, Alone, Zenon
  <2>3. Content' = Content
    <3>1. CASE BreadValid(h)
      BY <3>1, Zenon DEF BreadValid, bufVars, Content
    <3>2. CASE BreadMem(h)
      BY <3>2, <2>1, FillsBuffer, Zenon DEF BreadMem
    <3> QED
      BY <1>6, <3>1, <3>2
  <2>4. /\ Holder[block[buf[h]]] = Nobody
        /\ Holder' = [Holder EXCEPT ![block[buf[h]]] = h]
    BY <2>1, TakesHolder, Zenon DEF Held
  <2>5. Abstract!Take(h, block[buf[h]])
    BY <2>2, <2>4 DEF Abstract!Take, MapFacts, HolderFacts
  <2> QED
    BY <2>1, <2>2, <2>3, <2>5, Zenon DEF Abstract!Next, Abstract!Bread
<1>7. ASSUME NEW h \in Hands, NEW v \in Vals, Bwrite(h, v) \/ BwriteMem(h, v) \/ LogWrite(h, v)
      PROVE  Abstract!Next
  <2>1. /\ pc[h] = "hold" /\ data' = [data EXCEPT ![buf[h]] = v]
        /\ UNCHANGED <<block, buf, failed>>
    BY <1>7, Zenon DEF Bwrite, BwriteMem, LogWrite, Between
  <2>2. Held(h) /\ pc[h] \in Holding
    BY <2>1 DEF Held, Holding
  <2>3. buf[h] \in Bufs /\ block[buf[h]] \in Blocks /\ valid[buf[h]]
    BY <2>1, <2>2, Alone, Zenon DEF BufInv, FlagInv
  <2>4. valid' = [valid EXCEPT ![buf[h]] = TRUE]
    BY <1>7, <2>3 DEF Bwrite, BwriteMem, LogWrite, BufInv, BufType
  <2>5. \A k \in Blocks : k # block[buf[h]] => disk'[k] = disk[k]
    BY <1>7, <2>3, ZenonT(30) DEF Bwrite, BwriteMem, LogWrite, BufInv, BufType
  <2>6. Content' = [Content EXCEPT ![block[buf[h]]] = v]
    BY <2>1, <2>2, <2>4, <2>5, ChangesContent, Zenon
  <2>7. \A q \in Hands : Held(q) <=> Held(q)'
    BY <1>7, ZenonT(30) DEF Bwrite, BwriteMem, LogWrite, Between, Iderw, Goto, Held,
                             BufInv, BufType
  <2>8. Holder' = Holder
    <3>1. \A k \in Blocks : Holder'[k] = Holder[k]
      BY <2>1, <2>7, SameHolder, Zenon
    <3> QED
      BY <3>1, Unchanged
  <2>9. Holder[block[buf[h]]] = h
    BY <2>2, Zenon DEF MapFacts, HolderFacts
  <2> QED
    BY <2>1, <2>3, <2>6, <2>8, <2>9, Zenon DEF Abstract!Next, Abstract!Write
<1>8. ASSUME NEW h \in Hands, Unlock(h) PROVE Abstract!Next
  <2> DEFINE K == block[buf[h]]
  <2>1. /\ pc[h] = "hold" /\ Held(h) /\ pc[h] \in Holding
        /\ UNCHANGED <<block, valid, data, disk, buf, failed>>
    BY <1>8, Zenon DEF Unlock, Between, Held, Holding, bufVars
  <2>2. K \in Blocks /\ \A q \in Hands : Held(q) /\ block[buf[q]] = K => q = h
    BY <2>1, Alone
  <2>3. ~Held(h)' /\ \A q \in Hands : q # h => (Held(q) <=> Held(q)')
    BY <1>8 DEF Unlock, Between, Woken, Held, BufInv, BufType
  <2>4. Content' = Content
    BY <2>1 DEF Content
  <2>5. Holder'[K] = Nobody
    <3>1. \A q \in Hands : ~(Held(q)' /\ block'[buf'[q]] = K)
      BY <2>1, <2>2, <2>3
    <3> QED
      BY <2>2, <3>1, NoHolder, Zenon
  <2>6. ASSUME NEW k \in Blocks, k # K PROVE Holder'[k] = Holder[k]
    <3>1. \A q \in Hands : Held(q) /\ block[buf[q]] = k <=> Held(q)' /\ block'[buf'[q]] = k
      BY <2>1, <2>3, <2>6
    <3> QED
      BY <3>1, SameHolder, Zenon
  <2>7. Holder[K] = h
    BY <2>1, Zenon DEF MapFacts, HolderFacts
  <2> HIDE DEF K
  <2>8. Holder' = [Holder EXCEPT ![K] = Nobody]
    <3>1. /\ Holder \in [Blocks -> Hands \cup {Nobody}]
          /\ Holder' \in [Blocks -> Hands \cup {Nobody}]
      BY Zenon DEF MapFacts, HolderFacts
    <3> QED
      BY <2>2, <2>5, <2>6, <3>1, OneChange, Zenon
  <2> QED
    BY <2>1, <2>2, <2>4, <2>7, <2>8, Zenon DEF Abstract!Next, Abstract!Brelse
<1> QED
  BY <1>1, <1>2, <1>a, <1>3, <1>4, <1>5, <1>6, <1>7, <1>8 DEF Next

(* bread(), writes and brelse() behave as on one cell per block, whatever  *)
(* is recycled, pinned by the log or on its way to the disk, and what the  *)
(* drive fails on shows in that block only.                                *)
THEOREM CacheIsTransparent == Spec => OneCopy
<1>1. Init => Abstract!Init
  <2> SUFFICES ASSUME Init PROVE Abstract!Init
    OBVIOUS
  <2>1. Content = disk /\ disk \in [Blocks -> Vals]
    BY DEF Init, Content
  <2>2. Holder = [k \in Blocks |-> Nobody] /\ failed = {}
    BY DEF Init, Holder
  <2> QED
    BY <2>1, <2>2 DEF Abstract!Init
<1>2. BufInv /\ BufInv' /\ MapFacts /\ MapFacts' /\ [Next]_vars
        => [Abstract!Next]_(Abstract!vars)
  BY StepRefines
<1> QED
  BY <1>1, <1>2, BufInvariant, MapIs, PTL DEF Spec, OneCopy, Abstract!Spec
=============================================================================
