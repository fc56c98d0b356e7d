------------------------------ MODULE LogProofs -----------------------------
(***************************************************************************)
(* Proofs about Log for every set of processes, blocks and values and      *)
(* every log size: the log implements AtomicDisk, reads are never stale,   *)
(* nothing is pending once the log is idle, and log_write() never panics   *)
(* as long as every call writes fewer blocks than begin_op() reserves.     *)
(***************************************************************************)
EXTENDS Log, TLAPS, FiniteSetTheorems

(* Zenon goes first, the solver second and with 30 seconds for a leaf. *)
USE ZenonT(5), SMTT(30)

(* Control: who may be where while a commit or a recovery is going on. *)
Control ==
    /\ outstanding = Cardinality(Active)
    /\ committing <=> \E p \in Procs : pc[p] = "commit"
    /\ \A p, q \in Procs : pc[p] = "commit" /\ pc[q] = "commit" => p = q
    /\ committing \/ recovering => Active = {}
    /\ committing => ~recovering
    /\ ~committing /\ ~recovering => step = "none"
    /\ recovering => step \in {"none", "install", "clear"}
    /\ step \in {"none", "write_head", "clear"} => tail = 1
    /\ step \in {"write_log", "write_head", "install"} => tail \in 1 .. Len(lh)
    /\ ~recovering /\ step = "none" /\ (committing \/ outstanding = 0) => lh = <<>>

(* Headers name each block once and fit the log. *)
Headers ==
    /\ IsInjective(lh) /\ Len(lh) <= LOGSIZE
    /\ IsInjective(dhead) /\ Len(dhead) <= LOGSIZE

(* What is where between two block writes. *)
Content ==
    /\ \A b \in dirty : cache[b] # NoVal
    /\ \A b \in Blocks \ dirty : cache[b] \in {NoVal, Durable[b]}
    /\ ~recovering => \A b \in Blocks \ dirty : disk[b] = Durable[b]
    /\ recovering => dirty = {}
    /\ recovering /\ step = "none" => \A b \in Blocks : cache[b] = NoVal
    /\ ~recovering /\ step \in {"none", "write_log", "write_head"} =>
           dhead = <<>> /\ dirty = Range(lh)
    /\ step = "write_log" => \A i \in 1 .. tail - 1 : dlog[i] = cache[lh[i]]
    /\ step = "write_head" => \A i \in 1 .. Len(lh) : dlog[i] = cache[lh[i]]
    /\ step \in {"install", "clear"} => lh = dhead
    /\ step = "install" => \A i \in 1 .. tail - 1 : disk[lh[i]] = dlog[i]
    /\ step = "install" => \A b \in Blocks : cache[b] \in {NoVal, Durable[b]}
    /\ step = "install" /\ ~recovering =>
           dirty = {lh[i] : i \in tail .. Len(lh)}
    /\ step = "clear" => \A i \in 1 .. Len(lh) : disk[lh[i]] = dlog[i]
    /\ step = "clear" => dirty = {}

IInv == TypeOK /\ Control /\ Headers /\ Content

-----------------------------------------------------------------------------
(* Contents o of the blocks: those of the log l where the header h names   *)
(* the block, otherwise those of the disk d.                               *)
Overlays(o, h, l, d) ==
    /\ o \in [Blocks -> Vals]
    /\ \A i \in 1 .. Len(h) : o[h[i]] = l[i]
    /\ \A b \in Blocks : b \notin Range(h) => o[b] = d[b]

(* Installing a log: a block the header names gets its log block, any      *)
(* other keeps its home content.                                           *)
LEMMA OverlayFacts ==
    ASSUME NEW h \in Seq(Blocks), NEW l \in [1 .. LOGSIZE -> Vals],
           NEW d \in [Blocks -> Vals], IsInjective(h), Len(h) <= LOGSIZE
    PROVE  Overlays(Overlay(h, l, d), h, l, d)
<1>1. ASSUME NEW i \in 1 .. Len(h)
      PROVE  /\ h[i] \in Range(h) /\ h[i] \in Blocks
             /\ (CHOOSE j \in DOMAIN h : h[j] = h[i]) = i
  BY DEF IsInjective, Range
<1>2. \A i \in 1 .. Len(h) : Overlay(h, l, d)[h[i]] = l[i]
  BY <1>1 DEF Overlay
<1>3. \A b \in Blocks : b \notin Range(h) => Overlay(h, l, d)[b] = d[b]
  BY DEF Overlay
<1>4. ASSUME NEW b \in Blocks PROVE Overlay(h, l, d)[b] \in Vals
  <2>1. CASE b \notin Range(h)
    BY <2>1, <1>3
  <2>2. CASE b \in Range(h)
    <3>1. PICK i \in 1 .. Len(h) : b = h[i]
      BY <2>2 DEF Range
    <3>2. l[i] \in Vals
      BY SizeAssumption
    <3> QED BY <3>1, <3>2, <1>2
  <2> QED BY <2>1, <2>2
<1>5. Overlay(h, l, d) = [b \in Blocks |-> Overlay(h, l, d)[b]]
  BY DEF Overlay
<1> QED BY <1>2, <1>3, <1>4, <1>5 DEF Overlays

(* With an empty header the disk is its home blocks. *)
LEMMA OverlayEmpty ==
    ASSUME NEW l, NEW d \in [Blocks -> Vals]
    PROVE  Overlay(<<>>, l, d) = d
BY DEF Overlay, Range

(* Absorption keeps the header free of duplicates. *)
LEMMA LoggedFacts ==
    ASSUME lh \in Seq(Blocks), IsInjective(lh), NEW b \in Blocks
    PROVE  /\ Logged(b) \in Seq(Blocks)
           /\ IsInjective(Logged(b))
           /\ Range(Logged(b)) = Range(lh) \cup {b}
           /\ Len(Logged(b)) <= Len(lh) + 1
           /\ b \in Range(lh) => Logged(b) = lh
<1>1. CASE b \in Range(lh)
  BY <1>1 DEF Logged
<1>2. CASE b \notin Range(lh)
  <2> DEFINE m == Append(lh, b)
  <2>1. /\ m \in Seq(Blocks) /\ Len(m) = Len(lh) + 1
        /\ DOMAIN m = 1 .. Len(lh) + 1 /\ DOMAIN lh = 1 .. Len(lh)
        /\ m[Len(lh) + 1] = b
        /\ \A i \in 1 .. Len(lh) : m[i] = lh[i]
    OBVIOUS
  <2>2. \A i \in 1 .. Len(lh) : lh[i] # b
    BY <1>2 DEF Range
  <2>3. Logged(b) = m
    BY <1>2 DEF Logged
  <2> HIDE DEF m
  <2>4. IsInjective(m)
    BY <2>1, <2>2 DEF IsInjective
  <2>5. Range(m) = Range(lh) \cup {b}
    BY <2>1 DEF Range
  <2> QED BY <1>2, <2>1, <2>3, <2>4, <2>5
<1> QED BY <1>1, <1>2

(* The processes are finitely many. *)
LEMMA ProcsFacts ==
    ASSUME NEW T \in SUBSET Procs
    PROVE  /\ IsFiniteSet(T)
           /\ Cardinality(T) \in 0 .. Cardinality(Procs)
           /\ Cardinality(T) = 0 <=> T = {}
<1>1. IsFiniteSet(T) /\ Cardinality(T) <= Cardinality(Procs)
  BY ProcsAssumption, FS_Subset
<1>2. Cardinality(T) \in Nat /\ Cardinality(Procs) \in Nat
  BY <1>1, ProcsAssumption, FS_CardinalityType
<1> QED BY <1>1, <1>2, FS_EmptySet

-----------------------------------------------------------------------------
(* The fresh file system satisfies the invariant. *)
LEMMA InitInv == Init => IInv
<1> SUFFICES ASSUME Init PROVE IInv
  OBVIOUS
<1>1. Active = {}
  BY DEF Init, Active
<1>2. Cardinality(Active) = 0 /\ 0 \in 0 .. Cardinality(Procs)
  BY <1>1, ProcsFacts
<1>3. TypeOK
  <2>1. <<>> \in Seq(Blocks)
    OBVIOUS
  <2>2. /\ cache \in [Blocks -> Vals \cup {NoVal}]
        /\ pc \in [Procs -> {"idle", "begin", "sleep", "op", "commit"}]
        /\ wrote \in [Procs -> SUBSET Blocks]
    BY DEF Init
  <2> QED BY <1>2, <2>1, <2>2 DEF Init, TypeOK
<1>4. Control
  BY <1>1, <1>2 DEF Init, Control
<1>5. Headers
  BY SizeAssumption DEF Init, Headers, IsInjective
<1>6. Content
  <2>1. Durable = disk
    BY OverlayEmpty DEF Init, Durable
  <2> QED BY <2>1 DEF Init, Content
<1> QED BY <1>3, <1>4, <1>5, <1>6 DEF IInv

(* The buffer cache: reading a block in keeps the invariant. *)
LEMMA LoadStep ==
    ASSUME IInv, NEW b \in Blocks, Load(b)
    PROVE  IInv'
<1> USE DEF IInv
<1>1. TypeOK'
  BY DEF TypeOK, Load, opVars
<1>2. Control'
  BY DEF Control, Load, opVars, Active
<1>3. Headers'
  BY DEF Headers, Load
<1>4. Durable' = Durable
  BY DEF Durable, Load
<1>5. b \notin dirty /\ disk[b] = Durable[b] /\ cache' = [cache EXCEPT ![b] = disk[b]]
  BY DEF Load, Content
<1>6. Content'
  <2>1. disk[b] # NoVal
    BY ValAssumption DEF TypeOK
  <2>2. /\ UNCHANGED <<disk, dlog, dhead, dirty, lh, step, tail, recovering>>
        /\ ~recovering
    BY DEF Load
  <2>3. \A c \in Blocks : cache'[c] = IF c = b THEN disk[b] ELSE cache[c]
    BY <1>5 DEF TypeOK
  <2>4. step = "write_log" => \A i \in 1 .. tail - 1 : lh[i] # b
    BY <1>5 DEF Content, Control, Range, TypeOK
  <2>5. step = "write_head" => \A i \in 1 .. Len(lh) : lh[i] # b
    BY <1>5 DEF Content, Control, Range, TypeOK
  <2>6. \A i \in 1 .. Len(lh) : lh[i] \in Blocks
    BY DEF TypeOK
  <2>7. (step = "write_log" => \A i \in 1 .. tail - 1 : dlog[i] = cache[lh[i]])'
    BY <2>2, <2>3, <2>4, <2>6 DEF Content, Control
  <2>8. (step = "write_head" => \A i \in 1 .. Len(lh) : dlog[i] = cache[lh[i]])'
    BY <2>2, <2>3, <2>5, <2>6 DEF Content
  <2>9. dirty \subseteq Blocks
    BY DEF TypeOK
  <2> QED BY <1>4, <1>5, <2>1, <2>2, <2>3, <2>7, <2>8, <2>9 DEF Content
<1> QED BY <1>1, <1>2, <1>3, <1>6

(* Recycling a clean buffer keeps the invariant. *)
LEMMA EvictStep ==
    ASSUME IInv, NEW b \in Blocks, Evict(b)
    PROVE  IInv'
<1> USE DEF IInv
<1>1. TypeOK'
  BY DEF TypeOK, Evict, opVars
<1>2. Control'
  BY DEF Control, Evict, opVars, Active
<1>3. Headers'
  BY DEF Headers, Evict
<1>4. Durable' = Durable
  BY DEF Durable, Evict
<1>5. Content'
  <2>2. /\ UNCHANGED <<disk, dlog, dhead, dirty, lh, step, tail, recovering>>
        /\ b \notin dirty
    BY DEF Evict
  <2>3. \A c \in Blocks : cache'[c] = IF c = b THEN NoVal ELSE cache[c]
    BY DEF TypeOK, Evict
  <2>4. step = "write_log" => \A i \in 1 .. tail - 1 : lh[i] # b
    BY <2>2 DEF Content, Control, Range, TypeOK
  <2>5. step = "write_head" => \A i \in 1 .. Len(lh) : lh[i] # b
    BY <2>2 DEF Content, Control, Range, TypeOK
  <2>6. \A i \in 1 .. Len(lh) : lh[i] \in Blocks
    BY DEF TypeOK
  <2>7. (step = "write_log" => \A i \in 1 .. tail - 1 : dlog[i] = cache[lh[i]])'
    BY <2>2, <2>3, <2>4, <2>6 DEF Content, Control
  <2>8. (step = "write_head" => \A i \in 1 .. Len(lh) : dlog[i] = cache[lh[i]])'
    BY <2>2, <2>3, <2>5, <2>6 DEF Content
  <2>9. dirty \subseteq Blocks
    BY DEF TypeOK
  <2> QED BY <1>4, <2>2, <2>3, <2>7, <2>8, <2>9 DEF Content
<1> QED BY <1>1, <1>2, <1>3, <1>5

(* Content and Headers depend only on the variables of the disk, the cache *)
(* and the commit.                                                         *)
LEMMA ContentFrame ==
    ASSUME Content, Headers,
           UNCHANGED <<disk, dlog, dhead, cache, dirty, lh, step, tail, recovering>>
    PROVE  Content' /\ Headers'
BY DEF Content, Headers, Durable

(* begin_op() admitting a call keeps the invariant. *)
LEMMA BeginOpStep ==
    ASSUME IInv, NEW p \in Procs, BeginOp(p)
    PROVE  IInv'
<1> USE DEF IInv
<1>1. Active' = Active \cup {p} /\ p \notin Active
  BY DEF Active, BeginOp, TypeOK
<1>2. Active \in SUBSET Procs /\ Active' \in SUBSET Procs
  BY DEF Active
<1>3. outstanding' = Cardinality(Active')
  BY <1>1, <1>2, ProcsFacts, FS_AddElement DEF BeginOp, Control
<1>4. Cardinality(Active') \in 0 .. Cardinality(Procs)
  BY <1>2, ProcsFacts
<1>5. TypeOK'
  BY <1>3, <1>4 DEF TypeOK, BeginOp, diskVars
<1>6. ~committing /\ ~recovering /\ outstanding' # 0
  <2>1. outstanding \in Nat
    BY <1>2, ProcsFacts DEF Control
  <2> QED BY <2>1 DEF BeginOp, Admits
<1>7. \A q \in Procs : pc'[q] = "commit" <=> pc[q] = "commit"
  BY DEF BeginOp, TypeOK
<1>8. Control'
  BY <1>3, <1>6, <1>7 DEF Control, BeginOp, diskVars
<1>9. Content' /\ Headers'
  BY ContentFrame DEF BeginOp, diskVars
<1> QED BY <1>5, <1>8, <1>9

(* begin_op() going to sleep keeps the invariant. *)
LEMMA BeginSleepStep ==
    ASSUME IInv, NEW p \in Procs, BeginSleep(p)
    PROVE  IInv'
<1> USE DEF IInv
<1>1. Active' = Active
  BY DEF Active, BeginSleep, TypeOK
<1>2. TypeOK'
  BY DEF TypeOK, BeginSleep, diskVars
<1>3. \A q \in Procs : pc'[q] = "commit" <=> pc[q] = "commit"
  BY DEF BeginSleep, TypeOK
<1>4. Control'
  BY <1>1, <1>3 DEF Control, BeginSleep, diskVars
<1>5. Content' /\ Headers'
  BY ContentFrame DEF BeginSleep, diskVars
<1> QED BY <1>2, <1>4, <1>5

(* wakeup(&log) changes sleepers only. *)
LEMMA WokenFacts ==
    ASSUME NEW f \in [Procs -> {"idle", "begin", "sleep", "op", "commit"}]
    PROVE  /\ Woken(f) \in [Procs -> {"idle", "begin", "sleep", "op", "commit"}]
           /\ \A q \in Procs : Woken(f)[q] = "op" <=> f[q] = "op"
           /\ \A q \in Procs : Woken(f)[q] = "commit" <=> f[q] = "commit"
           /\ \A q \in Procs : Woken(f)[q] # "sleep"
BY DEF Woken

(* end_op() of one of several calls, or of the last one, keeps the         *)
(* invariant.                                                              *)
LEMMA EndOpStep ==
    ASSUME IInv, NEW p \in Procs, EndOp(p)
    PROVE  IInv'
<1> USE DEF IInv
<1> DEFINE idle == [pc EXCEPT ![p] = "idle"]
<1>1. p \in Active /\ Active \in SUBSET Procs /\ Active' \in SUBSET Procs
  BY DEF Active, EndOp
<1>2. idle \in [Procs -> {"idle", "begin", "sleep", "op", "commit"}]
  BY DEF TypeOK
<1>a. \A q \in Procs : idle[q] = IF q = p THEN "idle" ELSE pc[q]
  BY DEF TypeOK
<1>b. outstanding # 1 => pc' = Woken(idle)
  BY DEF EndOp
<1> HIDE DEF idle
<1>c. /\ Woken(idle) \in [Procs -> {"idle", "begin", "sleep", "op", "commit"}]
      /\ \A q \in Procs : Woken(idle)[q] = "op" <=> idle[q] = "op"
      /\ \A q \in Procs : Woken(idle)[q] = "commit" <=> idle[q] = "commit"
  BY <1>2, WokenFacts
<1>3. Active' = Active \ {p}
  <2>1. CASE outstanding = 1
    BY <2>1 DEF Active, EndOp, TypeOK
  <2>2. CASE outstanding # 1
    <3>1. \A q \in Procs : pc'[q] = "op" <=> idle[q] = "op"
      BY <2>2, <1>b, <1>c
    <3> QED BY <3>1, <1>a DEF Active
  <2> QED BY <2>1, <2>2
<1>4. outstanding' = Cardinality(Active') /\ Cardinality(Active) \in Nat
  BY <1>1, <1>3, ProcsFacts, FS_RemoveElement DEF EndOp, Control
<1>5. Cardinality(Active') \in 0 .. Cardinality(Procs)
  BY <1>1, ProcsFacts
<1>6. ~committing /\ ~recovering /\ step = "none" /\ tail = 1
  BY <1>1 DEF Control, TypeOK
<1>7. \A q \in Procs : pc[q] # "commit"
  BY <1>6 DEF Control
<1>8. CASE outstanding = 1
  <2>1. /\ committing' = TRUE
        /\ pc' = [pc EXCEPT ![p] = "commit"]
        /\ step' = IF lh # <<>> THEN "write_log" ELSE "none"
        /\ tail' = 1
        /\ UNCHANGED <<disk, dlog, dhead, cache, dirty, lh, wrote, recovering>>
    BY <1>8 DEF EndOp, diskVars
  <2>2. TypeOK'
    BY <1>4, <1>5, <2>1 DEF TypeOK
  <2>3. Active' = {}
    BY <1>4, <1>8, <1>1, ProcsFacts DEF EndOp
  <2>4. \A q \in Procs : pc'[q] = "commit" <=> q = p
    BY <1>7, <2>1 DEF TypeOK
  <2>5. lh # <<>> => 1 \in 1 .. Len(lh)
    BY DEF TypeOK
  <2>6. Control'
    BY <1>4, <1>6, <2>1, <2>3, <2>4, <2>5 DEF Control
  <2>7. Durable' = Durable
    BY <2>1 DEF Durable
  <2>8. Content' /\ Headers'
    BY <1>6, <2>1, <2>7 DEF Content, Headers
  <2> QED BY <2>2, <2>6, <2>8
<1>9. CASE outstanding # 1
  <2>1. /\ pc' = Woken(idle)
        /\ UNCHANGED <<disk, dlog, dhead, cache, dirty, lh, wrote, recovering,
                       committing, step, tail>>
    BY <1>9, <1>b DEF EndOp, diskVars
  <2>2. TypeOK'
    BY <1>c, <1>4, <1>5, <2>1 DEF TypeOK
  <2>3. \A q \in Procs : pc'[q] # "commit"
    BY <1>a, <1>c, <1>7, <2>1
  <2>4. outstanding' # 0
    BY <1>9, <1>4 DEF Control, EndOp
  <2>5. Control'
    BY <1>4, <1>6, <2>1, <2>3, <2>4 DEF Control
  <2>6. Content' /\ Headers'
    BY <2>1, ContentFrame
  <2> QED BY <2>2, <2>5, <2>6
<1> QED BY <1>8, <1>9

(* log_write() keeps the invariant: the block is pinned and entered once.  *)
LEMMA LogWriteStep ==
    ASSUME IInv, NEW p \in Procs, NEW b \in Blocks, NEW v \in Vals,
           LogWrite(p, b, v)
    PROVE  IInv'
<1> USE DEF IInv
<1>1. p \in Active
  BY DEF Active, LogWrite
<1>2. ~committing /\ ~recovering /\ step = "none"
  BY <1>1 DEF Control
<1>3. /\ lh' = Logged(b)
      /\ cache' = [cache EXCEPT ![b] = v]
      /\ dirty' = dirty \cup {b}
      /\ wrote' = [wrote EXCEPT ![p] = @ \cup {b}]
      /\ UNCHANGED <<disk, dlog, dhead, outstanding, committing, pc, step, tail,
                     recovering>>
      /\ Len(lh) < LOGSIZE
  BY SizeAssumption DEF LogWrite, LogFull, diskVars, TypeOK
<1>4. /\ lh' \in Seq(Blocks) /\ IsInjective(lh')
      /\ Range(lh') = Range(lh) \cup {b} /\ Len(lh') <= Len(lh) + 1
  BY <1>3, LoggedFacts DEF TypeOK, Headers
<1>5. TypeOK'
  BY <1>3, <1>4 DEF TypeOK
<1>6. Control'
  <2>1. Active' = Active
    BY <1>3 DEF Active
  <2>2. outstanding # 0
    BY <1>1, ProcsFacts DEF Control, Active
  <2> QED BY <1>2, <1>3, <2>1, <2>2 DEF Control
<1>7. Headers'
  <2>1. Len(lh') <= LOGSIZE
    BY <1>3, <1>4, SizeAssumption DEF TypeOK
  <2> QED BY <1>3, <1>4, <2>1 DEF Headers
<1>8. Content'
  <2>1. Durable' = Durable
    BY <1>3 DEF Durable
  <2>2. v # NoVal
    BY ValAssumption
  <2>3. \A c \in Blocks : cache'[c] = IF c = b THEN v ELSE cache[c]
    BY <1>3 DEF TypeOK
  <2>4. dirty \subseteq Blocks
    BY DEF TypeOK
  <2> QED BY <1>2, <1>3, <1>4, <2>1, <2>2, <2>3, <2>4 DEF Content
<1> QED BY <1>5, <1>6, <1>7, <1>8

(* A write to a log block before the header is written changes nothing     *)
(* that a reboot could see.                                                *)
LEMMA WriteLogStep ==
    ASSUME IInv, WriteLog
    PROVE  IInv' /\ Durable' = Durable
<1> USE DEF IInv
<1>1. /\ step = "write_log" /\ ~recovering /\ committing
      /\ tail \in 1 .. Len(lh) /\ Len(lh) <= LOGSIZE
      /\ dhead = <<>> /\ dirty = Range(lh)
  BY DEF WriteLog, Control, Content, Headers, TypeOK
<1>2. \A i \in 1 .. Len(lh) : lh[i] \in Blocks /\ lh[i] \in dirty /\ cache[lh[i]] # NoVal
  BY <1>1 DEF TypeOK, Range, Content
<1>3. Read(lh[tail]) = cache[lh[tail]] /\ cache[lh[tail]] \in Vals
  BY <1>1, <1>2 DEF Read, TypeOK
<1>4. /\ dlog' = [dlog EXCEPT ![tail] = cache[lh[tail]]]
      /\ UNCHANGED <<disk, dhead, cache, dirty, lh, outstanding, committing, pc,
                     wrote, recovering>>
  BY <1>3 DEF WriteLog, opVars
<1>5. /\ dlog' \in [1 .. LOGSIZE -> Vals]
      /\ \A i \in 1 .. tail : dlog'[i] = cache[lh[i]]
  BY <1>1, <1>3, <1>4, SizeAssumption DEF TypeOK, Content, WriteLog
<1>6. \/ tail < Len(lh) /\ tail' = tail + 1 /\ step' = "write_log"
      \/ tail = Len(lh) /\ tail' = 1 /\ step' = "write_head"
  BY <1>1 DEF WriteLog, Advance, TypeOK
<1>7. TypeOK'
  BY <1>4, <1>5, <1>6 DEF TypeOK
<1>8. Control'
  <2>1. Active' = Active
    BY <1>4 DEF Active
  <2>2. /\ step' # "none" /\ step' # "clear" /\ step' # "install"
        /\ step' = "write_head" => tail' = 1
        /\ tail' \in 1 .. Len(lh)
    BY <1>1, <1>6 DEF TypeOK
  <2> QED BY <1>1, <1>4, <2>1, <2>2 DEF Control
<1>9. Headers'
  BY <1>4 DEF Headers
<1>10. Durable' = Durable
  BY <1>1, <1>4, OverlayEmpty DEF Durable, TypeOK
<1>11. Content'
  <2>1. (step = "write_log" => \A i \in 1 .. tail - 1 : dlog[i] = cache[lh[i]])'
    BY <1>1, <1>4, <1>5, <1>6 DEF TypeOK
  <2>2. (step = "write_head" => \A i \in 1 .. Len(lh) : dlog[i] = cache[lh[i]])'
    BY <1>1, <1>4, <1>5, <1>6 DEF TypeOK
  <2>3. step' \in {"write_log", "write_head"}
    BY <1>6
  <2> QED BY <1>1, <1>4, <1>10, <2>1, <2>2, <2>3 DEF Content
<1> QED BY <1>7, <1>8, <1>9, <1>10, <1>11

(* The header write makes exactly the current content durable. *)
LEMMA WriteHeadStep ==
    ASSUME IInv, WriteHead
    PROVE  IInv' /\ Durable' = Current /\ Active = {}
<1> USE DEF IInv
<1>1. /\ step = "write_head" /\ ~recovering /\ committing /\ tail = 1
      /\ dhead = <<>> /\ dirty = Range(lh) /\ Active = {}
      /\ \A i \in 1 .. Len(lh) : dlog[i] = cache[lh[i]]
  BY DEF WriteHead, Control, Content
<1>2. /\ dhead' = lh /\ step' = "install"
      /\ UNCHANGED <<disk, dlog, cache, dirty, lh, outstanding, committing, pc,
                     wrote, tail, recovering>>
  BY DEF WriteHead, opVars
<1>3. \A i \in 1 .. Len(lh) : lh[i] \in Blocks /\ lh[i] \in dirty /\ cache[lh[i]] # NoVal
  BY <1>1 DEF TypeOK, Range, Content
<1>4. /\ Overlay(lh, dlog, disk) \in [Blocks -> Vals]
      /\ \A i \in 1 .. Len(lh) : Overlay(lh, dlog, disk)[lh[i]] = dlog[i]
      /\ \A b \in Blocks : b \notin Range(lh) => Overlay(lh, dlog, disk)[b] = disk[b]
  <2>1. Overlays(Overlay(lh, dlog, disk), lh, dlog, disk)
    BY OverlayFacts DEF TypeOK, Headers
  <2> QED BY <2>1 DEF Overlays
<1>5. Durable' = Overlay(lh, dlog, disk) /\ Durable = disk
  BY <1>1, <1>2, OverlayEmpty DEF Durable, TypeOK
<1>6. \A b \in Blocks : Durable'[b] = Current[b]
  <2> TAKE b \in Blocks
  <2>1. CASE b \in Range(lh)
    <3>1. PICK i \in 1 .. Len(lh) : lh[i] = b
      BY <2>1 DEF Range, TypeOK
    <3> QED BY <3>1, <1>1, <1>3, <1>4, <1>5 DEF Current
  <2>2. CASE b \notin Range(lh)
    <3>1. cache[b] \in {NoVal, disk[b]}
      BY <1>1, <1>5, <2>2 DEF Content
    <3> QED BY <2>2, <3>1, <1>4, <1>5 DEF Current
  <2> QED BY <2>1, <2>2
<1>7. Durable' = Current
  BY <1>4, <1>5, <1>6 DEF Current
<1>8. TypeOK'
  BY <1>2 DEF TypeOK
<1>9. Control'
  <2>1. Active' = Active
    BY <1>2 DEF Active
  <2>2. tail \in 1 .. Len(lh)
    BY <1>1 DEF Control
  <2> QED BY <1>1, <1>2, <2>1, <2>2 DEF Control
<1>10. Headers'
  BY <1>2 DEF Headers
<1>11. Content'
  <2>1. \A b \in Blocks : cache[b] \in {NoVal, Durable'[b]}
    BY <1>6 DEF Current
  <2>2. \A b \in Blocks \ dirty : disk[b] = Durable'[b]
    BY <1>1, <1>4, <1>5
  <2>3. dirty = {lh[i] : i \in tail .. Len(lh)}
    BY <1>1 DEF Range, TypeOK
  <2> QED BY <1>1, <1>2, <2>1, <2>2, <2>3 DEF Content
<1> QED BY <1>1, <1>7, <1>8, <1>9, <1>10, <1>11

(* Installing a committed block leaves what a reboot would find and what   *)
(* calls read unchanged.                                                   *)
LEMMA InstallStep ==
    ASSUME IInv, InstallTrans
    PROVE  IInv' /\ Durable' = Durable /\ Current' = Current
<1> USE DEF IInv
<1> DEFINE b == lh[tail]
<1>1. /\ step = "install" /\ tail \in 1 .. Len(lh) /\ Len(lh) <= LOGSIZE
      /\ lh = dhead /\ IsInjective(lh)
      /\ \A i \in 1 .. tail - 1 : disk[lh[i]] = dlog[i]
      /\ \A c \in Blocks : cache[c] \in {NoVal, Durable[c]}
      /\ committing \/ recovering
  BY DEF InstallTrans, Control, Content, Headers, TypeOK
<1>2. b \in Blocks /\ dlog[tail] \in Vals /\ dlog[tail] # NoVal /\ b \in Range(lh)
  BY <1>1, SizeAssumption, ValAssumption DEF TypeOK, Range
<1>3. /\ disk' = [disk EXCEPT ![b] = dlog[tail]]
      /\ cache' = [cache EXCEPT ![b] = dlog[tail]]
      /\ dirty' = dirty \ {b}
      /\ UNCHANGED <<dlog, dhead, lh, outstanding, committing, pc, wrote, recovering>>
  BY DEF InstallTrans, opVars
<1>4. \/ tail < Len(lh) /\ tail' = tail + 1 /\ step' = "install"
      \/ tail = Len(lh) /\ tail' = 1 /\ step' = "clear"
  BY <1>1 DEF InstallTrans, Advance, TypeOK
<1>5. \A i \in 1 .. Len(lh) : lh[i] \in Blocks /\ (lh[i] = b <=> i = tail)
  BY <1>1 DEF IsInjective, TypeOK
<1> HIDE DEF b
<1>6. disk' \in [Blocks -> Vals] /\ cache' \in [Blocks -> Vals \cup {NoVal}]
  BY <1>2, <1>3 DEF TypeOK
<1>7. \A c \in Blocks : /\ disk'[c] = IF c = b THEN dlog[tail] ELSE disk[c]
                        /\ cache'[c] = IF c = b THEN dlog[tail] ELSE cache[c]
  BY <1>2, <1>3 DEF TypeOK
<1>8. TypeOK'
  BY <1>1, <1>3, <1>4, <1>6 DEF TypeOK
<1>9. /\ Durable \in [Blocks -> Vals] /\ Durable' \in [Blocks -> Vals]
      /\ \A i \in 1 .. Len(lh) : Durable[lh[i]] = dlog[i] /\ Durable'[lh[i]] = dlog[i]
      /\ \A c \in Blocks : c \notin Range(lh) =>
             Durable[c] = disk[c] /\ Durable'[c] = disk'[c]
  <2>1. disk \in [Blocks -> Vals] /\ dlog \in [1 .. LOGSIZE -> Vals] /\ lh \in Seq(Blocks)
    BY DEF TypeOK
  <2>2. Durable = Overlay(lh, dlog, disk) /\ Durable' = Overlay(lh, dlog, disk')
    BY <1>1, <1>3 DEF Durable
  <2>3. Overlays(Durable, lh, dlog, disk) /\ Overlays(Durable', lh, dlog, disk')
    BY <1>1, <1>6, <2>1, <2>2, OverlayFacts
  <2> QED BY <2>3 DEF Overlays
<1>10. \A c \in Blocks : Durable'[c] = Durable[c]
  <2> TAKE c \in Blocks
  <2>1. CASE c \in Range(lh)
    <3>1. PICK i \in 1 .. Len(lh) : lh[i] = c
      BY <2>1 DEF Range, TypeOK
    <3> QED BY <3>1, <1>9
  <2>2. CASE c \notin Range(lh)
    BY <2>2, <1>2, <1>7, <1>9
  <2> QED BY <2>1, <2>2
<1>11. Durable' = Durable
  BY <1>9, <1>10
<1>12. Durable[b] = dlog[tail]
  BY <1>1, <1>5, <1>9
<1>13. Current' = Current
  BY <1>1, <1>2, <1>7, <1>11, <1>12 DEF Current
<1>14. Control'
  <2>1. Active' = Active
    BY <1>3 DEF Active
  <2>2. /\ step' = "install" => tail' \in 1 .. Len(lh)
        /\ step' = "clear" => tail' = 1
        /\ step' \in {"install", "clear"}
    BY <1>1, <1>4 DEF TypeOK
  <2> QED BY <1>1, <1>3, <2>1, <2>2 DEF Control
<1>15. Headers'
  BY <1>3 DEF Headers
<1>16. Content'
  <2>1. \A i \in 1 .. tail : disk'[lh[i]] = dlog[i]
    BY <1>1, <1>5, <1>7 DEF TypeOK
  <2>2. \A c \in Blocks : cache'[c] \in {NoVal, Durable'[c]}
    BY <1>1, <1>7, <1>11, <1>12
  <2>3. ~recovering => \A c \in Blocks \ dirty' : disk'[c] = Durable'[c]
    BY <1>3, <1>7, <1>11, <1>12 DEF Content
  <2>4. \A c \in dirty' : cache'[c] # NoVal
    BY <1>2, <1>3, <1>7 DEF Content, TypeOK
  <2>5. recovering => dirty' = {}
    BY <1>3 DEF Content
  <2>6. ~recovering => dirty' = {lh[i] : i \in tail + 1 .. Len(lh)}
    <3>1. ~recovering => dirty = {lh[i] : i \in tail .. Len(lh)}
      BY <1>1 DEF Content
    <3> QED BY <1>1, <1>3, <1>5, <3>1 DEF TypeOK
  <2>7. CASE tail < Len(lh) /\ tail' = tail + 1 /\ step' = "install"
    <3>1. tail' - 1 = tail
      BY <1>1, <2>7 DEF TypeOK
    <3> QED BY <1>1, <1>3, <2>1, <2>2, <2>3, <2>4, <2>5, <2>6, <2>7, <3>1 DEF Content
  <2>8. CASE tail = Len(lh) /\ tail' = 1 /\ step' = "clear"
    <3>1. dirty' = {}
      BY <1>1, <2>5, <2>6, <2>8 DEF TypeOK
    <3> QED BY <1>1, <1>3, <2>1, <2>2, <2>3, <2>4, <2>8, <3>1 DEF Content
  <2> QED BY <1>4, <2>7, <2>8
<1> QED BY <1>8, <1>11, <1>13, <1>14, <1>15, <1>16

(* Erasing the header once everything is installed changes nothing that a  *)
(* reboot could see.                                                       *)
LEMMA ClearStep ==
    ASSUME IInv, ClearLog
    PROVE  IInv' /\ Durable' = Durable
<1> USE DEF IInv
<1>1. /\ step = "clear" /\ tail = 1 /\ lh = dhead /\ dirty = {}
      /\ \A i \in 1 .. Len(lh) : disk[lh[i]] = dlog[i]
      /\ committing \/ recovering
      /\ Active = {}
  BY DEF ClearLog, Control, Content, TypeOK
<1>2. /\ lh' = <<>> /\ dhead' = <<>> /\ step' = "none" /\ recovering' = FALSE
      /\ UNCHANGED <<disk, dlog, cache, dirty, outstanding, committing, pc, wrote, tail>>
  BY DEF ClearLog, opVars
<1>3. <<>> \in Seq(Blocks)
  OBVIOUS
<1>4. TypeOK'
  BY <1>2, <1>3 DEF TypeOK
<1>5. Active' = Active /\ outstanding = 0
  BY <1>1, <1>2, ProcsFacts DEF Active, Control
<1>6. Control'
  BY <1>1, <1>2, <1>5 DEF Control
<1>7. Headers'
  BY <1>2, SizeAssumption DEF Headers, IsInjective
<1>8. /\ Durable \in [Blocks -> Vals]
      /\ \A i \in 1 .. Len(lh) : Durable[lh[i]] = dlog[i]
      /\ \A c \in Blocks : c \notin Range(lh) => Durable[c] = disk[c]
  <2>1. /\ lh \in Seq(Blocks) /\ IsInjective(lh) /\ Len(lh) <= LOGSIZE
        /\ disk \in [Blocks -> Vals] /\ dlog \in [1 .. LOGSIZE -> Vals]
    BY DEF TypeOK, Headers
  <2>2. Durable = Overlay(lh, dlog, disk)
    BY <1>1 DEF Durable
  <2>3. Overlays(Durable, lh, dlog, disk)
    BY <2>1, <2>2, OverlayFacts
  <2> QED BY <2>3 DEF Overlays
<1>9. \A c \in Blocks : Durable[c] = disk[c]
  <2> TAKE c \in Blocks
  <2>1. CASE c \in Range(lh)
    <3>1. PICK i \in 1 .. Len(lh) : lh[i] = c
      BY <2>1 DEF Range, TypeOK
    <3> QED BY <3>1, <1>1, <1>8
  <2> QED BY <2>1, <1>8
<1>10. disk \in [Blocks -> Vals]
  BY DEF TypeOK
<1>11. Durable = disk
  BY <1>8, <1>9, <1>10
<1>12. Durable' = disk
  BY <1>2, <1>10, OverlayEmpty DEF Durable
<1>13. Content'
  <2>1. Range(lh') = {}
    BY <1>2 DEF Range
  <2> QED BY <1>1, <1>2, <1>11, <1>12, <2>1 DEF Content
<1> QED BY <1>4, <1>6, <1>7, <1>11, <1>12, <1>13

(* The end of a commit keeps the invariant. *)
LEMMA CommitDoneStep ==
    ASSUME IInv, NEW p \in Procs, CommitDone(p)
    PROVE  IInv' /\ Active' = Active
<1> USE DEF IInv
<1> DEFINE idle == [pc EXCEPT ![p] = "idle"]
<1>1. /\ idle \in [Procs -> {"idle", "begin", "sleep", "op", "commit"}]
      /\ \A q \in Procs : idle[q] = IF q = p THEN "idle" ELSE pc[q]
  BY DEF TypeOK
<1>2. /\ pc' = Woken(idle) /\ pc[p] = "commit" /\ step = "none" /\ committing' = FALSE
      /\ UNCHANGED <<disk, dlog, dhead, cache, dirty, lh, outstanding, wrote, step,
                     tail, recovering>>
  BY DEF CommitDone, diskVars
<1> HIDE DEF idle
<1>3. /\ pc' \in [Procs -> {"idle", "begin", "sleep", "op", "commit"}]
      /\ \A q \in Procs : pc'[q] = "op" <=> idle[q] = "op"
      /\ \A q \in Procs : pc'[q] = "commit" <=> idle[q] = "commit"
  BY <1>1, <1>2, WokenFacts
<1>4. TypeOK'
  BY <1>2, <1>3 DEF TypeOK
<1>5. Active' = Active
  BY <1>1, <1>2, <1>3 DEF Active
<1>6. committing /\ ~recovering /\ lh = <<>>
  BY <1>2 DEF Control
<1>7. \A q \in Procs : pc'[q] # "commit"
  BY <1>1, <1>2, <1>3 DEF Control
<1>8. Control'
  BY <1>2, <1>5, <1>6, <1>7 DEF Control
<1>9. Content' /\ Headers'
  BY <1>2, ContentFrame
<1> QED BY <1>4, <1>5, <1>8, <1>9

(* A crash at any point leaves a state recovery can start from. *)
LEMMA CrashStep ==
    ASSUME IInv, Crash
    PROVE  IInv' /\ Durable' = Durable /\ Current' = Durable /\ Active' = {}
<1> USE DEF IInv
<1>1. Active' = {}
  BY DEF Crash, Active
<1>2. 0 = Cardinality({}) /\ 0 \in 0 .. Cardinality(Procs)
  BY ProcsFacts, FS_EmptySet
<1>3. <<>> \in Seq(Blocks)
  OBVIOUS
<1>4. /\ cache' \in [Blocks -> Vals \cup {NoVal}]
      /\ pc' \in [Procs -> {"idle", "begin", "sleep", "op", "commit"}]
      /\ wrote' \in [Procs -> SUBSET Blocks]
  BY DEF Crash
<1>5. TypeOK'
  BY <1>2, <1>3, <1>4 DEF Crash, TypeOK, diskVars
<1>6. Control'
  BY <1>1, <1>2 DEF Crash, Control
<1>7. Headers'
  BY SizeAssumption DEF Headers, IsInjective, Crash, diskVars
<1>8. Durable' = Durable
  BY DEF Durable, Crash, diskVars
<1>9. Content'
  BY <1>8 DEF Content, Crash
<1>10. Current' = Durable
  <2>1. Durable = [b \in Blocks |-> Durable[b]]
    BY DEF Durable, Overlay
  <2>2. Current' = [b \in Blocks |-> Durable[b]]
    BY <1>8 DEF Current, Crash
  <2> QED BY <2>1, <2>2
<1> QED BY <1>1, <1>5, <1>6, <1>7, <1>8, <1>9, <1>10

(* read_head() at boot keeps the invariant. *)
LEMMA ReadHeadStep ==
    ASSUME IInv, ReadHead
    PROVE  IInv'
<1> USE DEF IInv
<1>1. /\ recovering /\ step = "none" /\ lh' = dhead /\ tail = 1
      /\ step' = IF dhead # <<>> THEN "install" ELSE "clear"
      /\ UNCHANGED <<disk, dlog, dhead, cache, dirty, outstanding, committing, pc,
                     wrote, tail, recovering>>
  BY DEF ReadHead, Control, diskVars, opVars
<1>2. TypeOK'
  BY <1>1 DEF TypeOK
<1>3. Active' = Active
  BY <1>1 DEF Active
<1>4. dhead # <<>> => 1 \in 1 .. Len(dhead)
  BY DEF TypeOK
<1>5. Control'
  BY <1>1, <1>3, <1>4 DEF Control
<1>6. Headers'
  BY <1>1 DEF Headers
<1>7. Durable' = Durable
  BY <1>1 DEF Durable
<1>8. Content'
  BY <1>1, <1>7 DEF Content
<1> QED BY <1>2, <1>5, <1>6, <1>8

(* Doing nothing keeps the invariant. *)
LEMMA StutterStep ==
    ASSUME IInv, UNCHANGED vars
    PROVE  IInv'
<1>1. TypeOK' /\ Control' /\ Active' = Active
  BY DEF IInv, TypeOK, Control, Active, vars
<1>2. Content' /\ Headers'
  BY ContentFrame DEF IInv, vars
<1> QED BY <1>1, <1>2 DEF IInv

(* Every step of the log keeps the invariant. *)
LEMMA NextInv == IInv /\ [Next]_vars => IInv'
BY LoadStep, EvictStep, BeginOpStep, BeginSleepStep, EndOpStep, CommitDoneStep,
   LogWriteStep, WriteLogStep, WriteHeadStep, InstallStep, ClearStep, CrashStep,
   ReadHeadStep, StutterStep DEF Next, Commit

(* The invariant of the log holds throughout. *)
THEOREM Inductive == Spec => []IInv
BY InitInv, NextInv, PTL DEF Spec

-----------------------------------------------------------------------------
(* Type correctness of the log (log.c 34-48). *)
THEOREM TypeCorrect == Spec => []TypeOK
BY Inductive, PTL DEF IInv

(* bread() never returns stale data: an uncached block is up to date on    *)
(* disk, also in the middle of a commit.                                   *)
LEMMA ReadsFresh == Spec => []FreshReads
<1>1. IInv => FreshReads
  BY DEF IInv, Content, FreshReads
<1> QED BY <1>1, Inductive, PTL

(* When the last end_op() has returned, the home blocks hold everything    *)
(* and the log is empty.                                                   *)
LEMMA NothingPending == Spec => []Quiescent
<1>1. ASSUME IInv, ~recovering, outstanding = 0, ~committing
      PROVE  /\ \A b \in Blocks : disk[b] = Read(b)
             /\ lh = <<>> /\ dhead = <<>> /\ dirty = {}
  <2>1. lh = <<>> /\ step = "none"
    BY <1>1 DEF IInv, Control
  <2>2. dhead = <<>> /\ dirty = {}
    BY <1>1, <2>1 DEF IInv, Content, Range
  <2>3. Durable = disk
    BY <1>1, <2>2, OverlayEmpty DEF Durable, IInv, TypeOK
  <2>4. \A b \in Blocks : cache[b] \in {NoVal, disk[b]}
    BY <1>1, <2>2, <2>3 DEF IInv, Content
  <2> QED BY <2>1, <2>2, <2>4 DEF Read
<1>2. IInv => Quiescent
  BY <1>1 DEF Quiescent
<1> QED BY <1>2, Inductive, PTL

(* The home blocks are never behind: no stale read, nothing left pending. *)
THEOREM HomeNeverBehind == Spec => []HomeHonest
BY ReadsFresh, NothingPending, PTL DEF HomeHonest

-----------------------------------------------------------------------------
(* A step that changes neither the cache nor what is durable leaves the    *)
(* content calls see unchanged.                                            *)
LEMMA CurrentFrame ==
    ASSUME UNCHANGED cache, Durable' = Durable
    PROVE  Current' = Current
BY DEF Current

(* Every step of log.c is a step of AtomicDisk or leaves it unchanged. *)
LEMMA StepRefines ==
    ASSUME IInv, [Next]_vars
    PROVE  [Abstract!Next]_(Abstract!vars)
<1> USE DEF IInv
<1>1. ASSUME NEW b \in Blocks, Load(b)
      PROVE  UNCHANGED <<Durable, Current, Active>>
  <2>1. Durable' = Durable /\ Active' = Active
    BY <1>1 DEF Load, Durable, Active, opVars
  <2>2. disk[b] = Durable[b] /\ disk[b] # NoVal
    BY <1>1, ValAssumption DEF Load, Content, TypeOK
  <2>3. \A c \in Blocks : cache'[c] = IF c = b THEN disk[b] ELSE cache[c]
    BY <1>1 DEF Load, TypeOK
  <2>4. cache[b] = NoVal
    BY <1>1 DEF Load
  <2> QED BY <2>1, <2>2, <2>3, <2>4 DEF Current
<1>2. ASSUME NEW b \in Blocks, Evict(b)
      PROVE  UNCHANGED <<Durable, Current, Active>>
  <2>1. Durable' = Durable /\ Active' = Active
    BY <1>2 DEF Evict, Durable, Active, opVars
  <2>2. cache[b] = Durable[b]
    BY <1>2 DEF Evict, Content
  <2>3. \A c \in Blocks : cache'[c] = IF c = b THEN NoVal ELSE cache[c]
    BY <1>2 DEF Evict, TypeOK
  <2> QED BY <2>1, <2>2, <2>3 DEF Current
<1>3. ASSUME NEW p \in Procs, BeginOp(p)
      PROVE  Abstract!Begin(p)
  <2>1. Durable' = Durable /\ Current' = Current
    BY <1>3, CurrentFrame DEF BeginOp, Durable, diskVars
  <2>2. p \notin Active /\ Active' = Active \cup {p}
    BY <1>3 DEF BeginOp, Active, TypeOK
  <2> QED BY <2>1, <2>2 DEF Abstract!Begin
<1>4. ASSUME NEW p \in Procs, BeginSleep(p)
      PROVE  UNCHANGED <<Durable, Current, Active>>
  <2>1. Durable' = Durable /\ Current' = Current
    BY <1>4, CurrentFrame DEF BeginSleep, Durable, diskVars
  <2>2. Active' = Active
    BY <1>4 DEF BeginSleep, Active, TypeOK
  <2> QED BY <2>1, <2>2
<1>5. ASSUME NEW p \in Procs, EndOp(p)
      PROVE  Abstract!End(p)
  <2>1. Durable' = Durable /\ Current' = Current
    BY <1>5, CurrentFrame DEF EndOp, Durable, diskVars
  <2>2. p \in Active
    BY <1>5 DEF EndOp, Active
  <2>3. \A q \in Procs : pc'[q] = "op" <=> pc[q] = "op" /\ q # p
    BY <1>5 DEF EndOp, Woken, TypeOK
  <2>4. Active' = Active \ {p}
    BY <2>3 DEF Active
  <2> QED BY <2>1, <2>2, <2>4 DEF Abstract!End
<1>6. ASSUME NEW p \in Procs, CommitDone(p)
      PROVE  UNCHANGED <<Durable, Current, Active>>
  <2>1. Durable' = Durable /\ Current' = Current
    BY <1>6, CurrentFrame DEF CommitDone, Durable, diskVars
  <2> QED BY <1>6, <2>1, CommitDoneStep
<1>7. ASSUME NEW p \in Procs, NEW b \in Blocks, NEW v \in Vals, LogWrite(p, b, v)
      PROVE  Abstract!Write(p, b, v)
  <2>1. Durable' = Durable /\ Active' = Active /\ p \in Active
    BY <1>7 DEF LogWrite, Durable, Active, diskVars
  <2>2. \A c \in Blocks : cache'[c] = IF c = b THEN v ELSE cache[c]
    BY <1>7 DEF LogWrite, TypeOK
  <2>3. v # NoVal
    BY ValAssumption
  <2>4. Current' = [Current EXCEPT ![b] = v]
    BY <2>1, <2>2, <2>3 DEF Current
  <2> QED BY <2>1, <2>4 DEF Abstract!Write
<1>8. ASSUME WriteLog
      PROVE  UNCHANGED <<Durable, Current, Active>>
  <2>1. Durable' = Durable
    BY <1>8, WriteLogStep
  <2>2. Current' = Current
    BY <1>8, <2>1, CurrentFrame DEF WriteLog
  <2> QED BY <1>8, <2>1, <2>2 DEF WriteLog, Active, opVars
<1>9. ASSUME WriteHead
      PROVE  Abstract!Commit
  <2>1. Durable' = Current /\ Active = {}
    BY <1>9, WriteHeadStep
  <2>2. Active' = Active
    BY <1>9 DEF WriteHead, Active, opVars
  <2>3. Current' = Current
    BY <1>9, <2>1 DEF WriteHead, Current
  <2> QED BY <2>1, <2>2, <2>3 DEF Abstract!Commit
<1>10. ASSUME InstallTrans
       PROVE  UNCHANGED <<Durable, Current, Active>>
  BY <1>10, InstallStep DEF InstallTrans, Active, opVars
<1>11. ASSUME ClearLog
       PROVE  UNCHANGED <<Durable, Current, Active>>
  <2>1. Durable' = Durable
    BY <1>11, ClearStep
  <2>2. Current' = Current
    BY <1>11, <2>1, CurrentFrame DEF ClearLog
  <2> QED BY <1>11, <2>1, <2>2 DEF ClearLog, Active, opVars
<1>12. ASSUME Crash
       PROVE  Abstract!Crash
  BY <1>12, CrashStep DEF Abstract!Crash
<1>13. ASSUME ReadHead
       PROVE  UNCHANGED <<Durable, Current, Active>>
  <2>1. Durable' = Durable /\ Current' = Current
    BY <1>13, CurrentFrame DEF ReadHead, Durable, diskVars
  <2> QED BY <1>13, <2>1 DEF ReadHead, Active, opVars
<1>14. ASSUME UNCHANGED vars
       PROVE  UNCHANGED <<Durable, Current, Active>>
  BY <1>14 DEF vars, Durable, Current, Active
<1>15. UNCHANGED <<Durable, Current, Active>> => UNCHANGED Abstract!vars
  BY DEF Abstract!vars
<1> QED
  BY <1>1, <1>2, <1>3, <1>4, <1>5, <1>6, <1>7, <1>8, <1>9, <1>10, <1>11, <1>12,
     <1>13, <1>14, <1>15 DEF Next, Commit, Abstract!Next

(* The write-ahead log implements AtomicDisk, whatever the number of       *)
(* processes, blocks and log entries and wherever the crashes fall: file   *)
(* system calls are made durable in whole groups by the header write of    *)
(* commit(), and recovery restores exactly the last committed content.     *)
THEOREM CrashAtomic == Spec => Atomic
<1>1. Init => Abstract!Init
  <2> SUFFICES ASSUME Init PROVE Abstract!Init
    OBVIOUS
  <2>1. Durable = disk /\ disk \in [Blocks -> Vals]
    BY OverlayEmpty DEF Init, Durable
  <2>2. Current = disk
    BY <2>1 DEF Init, Current
  <2>3. Active = {}
    BY DEF Init, Active
  <2> QED BY <2>1, <2>2, <2>3 DEF Abstract!Init
<1>2. IInv /\ [Next]_vars => [Abstract!Next]_(Abstract!vars)
  BY StepRefines
<1> QED BY <1>1, <1>2, Inductive, PTL DEF Spec, Atomic, Abstract!Spec

-----------------------------------------------------------------------------
(* Blocks the active calls may still log. *)
Unspent ==
    {t \in Active \X (1 .. OpBlocks) : t[2] > Cardinality(wrote[t[1]])}

(* The log has room for all of them, with two entries to spare. *)
Room ==
    /\ \A p \in Active : /\ IsFiniteSet(wrote[p]) /\ Cardinality(wrote[p]) <= OpBlocks
                         /\ wrote[p] \subseteq Range(lh)
    /\ Active # {} => Len(lh) + Cardinality(Unspent) <= LOGSIZE - 2

(* What begin_op() reserves exceeds what the calls need. *)
LEMMA Reserved ==
    ASSUME NEW n \in Nat, NEW k \in Nat, NEW m \in Nat, k < m
    PROVE  n * k <= n * m - n
<1>1. n * (m - 1 - k) >= 0
  <2>1. m - 1 - k \in Nat
    OBVIOUS
  <2> QED BY <2>1
<1>2. n * (m - 1 - k) = n * m - n - n * k
  OBVIOUS
<1> QED BY <1>1, <1>2

(* The tokens are finitely many, at most OpBlocks for each active call. *)
LEMMA UnspentFacts ==
    ASSUME NEW A \in SUBSET Procs, NEW T \in SUBSET (A \X (1 .. OpBlocks))
    PROVE  /\ IsFiniteSet(T) /\ Cardinality(T) \in Nat
           /\ Cardinality(T) <= Cardinality(A) * OpBlocks
<1>1. OpBlocks \in Nat /\ IsFiniteSet(1 .. OpBlocks) /\ Cardinality(1 .. OpBlocks) = OpBlocks
  BY SizeAssumption, FS_Interval
<1>2. IsFiniteSet(A)
  BY ProcsFacts
<1>3. /\ IsFiniteSet(A \X (1 .. OpBlocks))
      /\ Cardinality(A \X (1 .. OpBlocks)) = Cardinality(A) * OpBlocks
  BY <1>1, <1>2, FS_Product
<1>4. IsFiniteSet(T) /\ Cardinality(T) <= Cardinality(A \X (1 .. OpBlocks))
  BY <1>3, FS_Subset
<1> QED BY <1>3, <1>4, FS_CardinalityType

(* A step of the log keeps the room, provided that every call writes       *)
(* fewer blocks than are reserved for it.                                  *)
LEMMA RoomStep ==
    ASSUME OpBlocks < MAXOPBLOCKS, MAXOPBLOCKS < LOGSIZE,
           IInv, Room, [Next]_vars
    PROVE  Room'
<1> USE DEF IInv
<1>1. \A p \in Procs : p \in Active <=> pc[p] = "op"
  BY DEF Active
<1>2. \A p \in Procs : p \in Active' <=> pc'[p] = "op"
  BY DEF Active
<1>3. Active \in SUBSET Procs /\ Active' \in SUBSET Procs
  BY DEF Active
<1>4. Unspent \in SUBSET (Active \X (1 .. OpBlocks))
  BY DEF Unspent
<1>5. ASSUME Active' = {}
      PROVE  Room'
  BY <1>5 DEF Room
<1>6. ASSUME Active' \subseteq Active, UNCHANGED <<lh, wrote>>
      PROVE  Room'
  <2>1. Unspent' \in SUBSET Unspent
    BY <1>6 DEF Unspent
  <2>2. Cardinality(Unspent') <= Cardinality(Unspent) /\ Cardinality(Unspent') \in Nat
    BY <1>3, <1>4, <2>1, UnspentFacts, FS_Subset, FS_CardinalityType
  <2>3. Cardinality(Unspent) \in Nat
    BY <1>3, <1>4, UnspentFacts
  <2>4. Active' # {} => Len(lh) + Cardinality(Unspent') <= LOGSIZE - 2
    BY <1>6, <2>2, <2>3, SizeAssumption DEF Room, TypeOK
  <2> QED BY <1>6, <2>4 DEF Room
<1>7. ASSUME NEW p \in Procs, BeginOp(p)
      PROVE  Room'
  <2>1. /\ Active' = Active \cup {p} /\ p \notin Active
        /\ wrote' = [wrote EXCEPT ![p] = {}] /\ lh' = lh
        /\ Len(lh) + (outstanding + 1) * MAXOPBLOCKS <= LOGSIZE
        /\ ~committing /\ ~recovering
    BY <1>7 DEF BeginOp, Admits, Active, TypeOK
  <2>2. outstanding = Cardinality(Active) /\ outstanding \in Nat
        /\ Cardinality(Active') = outstanding + 1
    BY <1>3, <2>1, ProcsFacts, FS_AddElement DEF Control
  <2>3. Unspent' \in SUBSET (Active' \X (1 .. OpBlocks))
    BY DEF Unspent
  <2>4. /\ Cardinality(Unspent') \in Nat
        /\ Cardinality(Unspent') <= (outstanding + 1) * OpBlocks
    BY <1>3, <2>2, <2>3, UnspentFacts
  <2>5. (outstanding + 1) * OpBlocks <= (outstanding + 1) * MAXOPBLOCKS - (outstanding + 1)
    BY <2>2, Reserved, SizeAssumption
  <2>6. Len(lh) + Cardinality(Unspent') <= LOGSIZE - 2
    <3>1. CASE outstanding = 0
      <4>1. lh = <<>> /\ Len(lh) = 0
        BY <2>1, <3>1 DEF Control
      <4>2. Cardinality(Unspent') <= OpBlocks
        BY <2>4, <3>1, SizeAssumption
      <4> QED BY <2>4, <4>1, <4>2, SizeAssumption
    <3>2. CASE outstanding # 0
      <4> DEFINE x == (outstanding + 1) * OpBlocks
                 y == (outstanding + 1) * MAXOPBLOCKS
      <4>1. x \in Int /\ y \in Int
        BY <2>2, SizeAssumption
      <4>2. Cardinality(Unspent') <= x /\ x <= y - (outstanding + 1) /\ Len(lh) + y <= LOGSIZE
        BY <2>1, <2>4, <2>5
      <4>3. Len(lh) \in Nat
        BY DEF TypeOK
      <4> HIDE DEF x, y
      <4> QED BY <2>2, <2>4, <3>2, <4>1, <4>2, <4>3, SizeAssumption
    <3> QED BY <3>1, <3>2
  <2>7. wrote'[p] = {} /\ \A q \in Active : wrote'[q] = wrote[q]
    BY <1>3, <2>1 DEF TypeOK
  <2>8. \A q \in Active' : /\ IsFiniteSet(wrote'[q]) /\ Cardinality(wrote'[q]) <= OpBlocks
                           /\ wrote'[q] \subseteq Range(lh')
    <3>1. /\ IsFiniteSet(wrote'[p]) /\ Cardinality(wrote'[p]) <= OpBlocks
          /\ wrote'[p] \subseteq Range(lh')
      <4>1. IsFiniteSet({}) /\ Cardinality({}) = 0
        BY FS_EmptySet
      <4> QED BY <2>7, <4>1, SizeAssumption
    <3>2. \A q \in Active : /\ IsFiniteSet(wrote[q]) /\ Cardinality(wrote[q]) <= OpBlocks
                            /\ wrote[q] \subseteq Range(lh)
      BY DEF Room
    <3> QED BY <2>1, <2>7, <3>1, <3>2
  <2> QED BY <2>1, <2>6, <2>8 DEF Room
<1>8. ASSUME NEW p \in Procs, NEW b \in Blocks, NEW v \in Vals, LogWrite(p, b, v)
      PROVE  Room'
  <2>1. /\ Active' = Active /\ p \in Active
        /\ wrote' = [wrote EXCEPT ![p] = @ \cup {b}] /\ lh' = Logged(b)
        /\ b \in wrote[p] \/ Cardinality(wrote[p]) < OpBlocks
    BY <1>8 DEF LogWrite, Active
  <2>2. /\ Range(lh') = Range(lh) \cup {b} /\ Len(lh') <= Len(lh) + 1
        /\ b \in Range(lh) => lh' = lh
        /\ Len(lh) \in Nat /\ Len(lh') \in Nat
    <3>1. lh \in Seq(Blocks) /\ IsInjective(lh)
      BY DEF TypeOK, Headers
    <3>2. Logged(b) \in Seq(Blocks)
      BY <3>1, LoggedFacts
    <3> QED BY <2>1, <3>1, <3>2, LoggedFacts
  <2>3. CASE b \in wrote[p]
    <3>1. b \in Range(lh)
      BY <2>1, <2>3 DEF Room
    <3>2. wrote' = wrote
      BY <2>1, <2>3 DEF TypeOK
    <3> QED BY <1>6, <2>1, <2>2, <3>1, <3>2
  <2>4. CASE b \notin wrote[p]
    <3> DEFINE n == Cardinality(wrote[p])
    <3>1. IsFiniteSet(wrote[p]) /\ n \in Nat /\ n < OpBlocks
      BY <2>1, <2>4, FS_CardinalityType DEF Room
    <3>2. /\ wrote'[p] = wrote[p] \cup {b}
          /\ \A q \in Active : q # p => wrote'[q] = wrote[q]
      BY <1>3, <2>1 DEF TypeOK
    <3>3. IsFiniteSet(wrote'[p]) /\ Cardinality(wrote'[p]) = n + 1
      <4>1. /\ IsFiniteSet(wrote[p] \cup {b})
            /\ Cardinality(wrote[p] \cup {b}) = Cardinality(wrote[p]) + 1
        BY <2>4, <3>1, FS_AddElement
      <4> QED BY <3>2, <4>1
    <3>4. \A q \in Active' : /\ IsFiniteSet(wrote'[q]) /\ Cardinality(wrote'[q]) <= OpBlocks
                             /\ wrote'[q] \subseteq Range(lh')
      <4>1. \A q \in Active : /\ IsFiniteSet(wrote[q]) /\ Cardinality(wrote[q]) <= OpBlocks
                              /\ wrote[q] \subseteq Range(lh)
        BY DEF Room
      <4>2. Cardinality(wrote'[p]) <= OpBlocks
        BY <3>1, <3>3, SizeAssumption
      <4>3. wrote'[p] \subseteq Range(lh')
        BY <2>1, <2>2, <3>2, <4>1
      <4>4. \A q \in Active : q # p => wrote'[q] \subseteq Range(lh')
        BY <2>2, <3>2, <4>1
      <4> QED BY <2>1, <3>2, <3>3, <4>1, <4>2, <4>3, <4>4
    <3>5. n + 1 \in 1 .. OpBlocks
      BY <3>1, SizeAssumption
    <3>6. <<p, n + 1>> \in Unspent
      BY <2>1, <3>1, <3>5 DEF Unspent
    <3>7. Unspent' \in SUBSET (Unspent \ {<<p, n + 1>>})
      <4> SUFFICES ASSUME NEW t \in Unspent'
                   PROVE  t \in Unspent /\ t # <<p, n + 1>>
        OBVIOUS
      <4>1. PICK q \in Active, i \in 1 .. OpBlocks :
                t = <<q, i>> /\ i > Cardinality(wrote'[q])
        BY <2>1 DEF Unspent
      <4>2. i > Cardinality(wrote[q]) /\ ~(q = p /\ i = n + 1)
        <5>1. CASE q = p
          BY <3>1, <3>3, <4>1, <5>1, SizeAssumption
        <5>2. CASE q # p
          BY <3>2, <4>1, <5>2
        <5> QED BY <5>1, <5>2
      <4>3. t \in Unspent
        BY <4>1, <4>2 DEF Unspent
      <4> QED BY <4>1, <4>2, <4>3
    <3>8. IsFiniteSet(Unspent) /\ Cardinality(Unspent) \in Nat
      BY <1>3, <1>4, UnspentFacts
    <3>9. /\ IsFiniteSet(Unspent \ {<<p, n + 1>>})
          /\ Cardinality(Unspent \ {<<p, n + 1>>}) = Cardinality(Unspent) - 1
      BY <3>6, <3>8, FS_RemoveElement
    <3>10. /\ Cardinality(Unspent') <= Cardinality(Unspent) - 1
           /\ Cardinality(Unspent') \in Nat
      BY <3>7, <3>9, FS_Subset, FS_CardinalityType
    <3>11. Len(lh) + Cardinality(Unspent) <= LOGSIZE - 2
      BY <2>1 DEF Room
    <3>12. Len(lh') + Cardinality(Unspent') <= LOGSIZE - 2
      BY <2>2, <3>8, <3>10, <3>11, SizeAssumption
    <3> QED BY <3>4, <3>12 DEF Room
  <2> QED BY <2>3, <2>4
<1>9. ASSUME NEW p \in Procs, EndOp(p)
      PROVE  Room'
  <2>1. \A q \in Procs : pc'[q] = "op" => pc[q] = "op"
    BY <1>9 DEF EndOp, Woken, TypeOK
  <2> QED BY <1>1, <1>2, <1>3, <1>6, <1>9, <2>1 DEF EndOp
<1>10. ASSUME NEW p \in Procs, BeginSleep(p) \/ CommitDone(p)
       PROVE  Room'
  <2>1. \A q \in Procs : pc'[q] = "op" => pc[q] = "op"
    BY <1>10 DEF BeginSleep, CommitDone, Woken, TypeOK
  <2> QED BY <1>1, <1>2, <1>3, <1>6, <1>10, <2>1 DEF BeginSleep, CommitDone
<1>11. ASSUME NEW b \in Blocks, Load(b) \/ Evict(b)
       PROVE  Room'
  BY <1>6, <1>11 DEF Load, Evict, opVars, Active
<1>12. ASSUME Commit \/ ReadHead
       PROVE  Room'
  <2>1. committing \/ recovering
    BY <1>12 DEF Commit, WriteLog, WriteHead, InstallTrans, ClearLog, ReadHead, Control
  <2>2. Active = {} /\ pc' = pc
    BY <1>12, <2>1 DEF Commit, WriteLog, WriteHead, InstallTrans, ClearLog, ReadHead,
                       opVars, Control
  <2> QED BY <1>5, <2>2 DEF Active
<1>13. ASSUME Crash
       PROVE  Room'
  BY <1>5, <1>13, CrashStep
<1>14. ASSUME UNCHANGED vars
       PROVE  Room'
  BY <1>6, <1>14 DEF vars, Active
<1> QED
  BY <1>7, <1>8, <1>9, <1>10, <1>11, <1>12, <1>13, <1>14 DEF Next

(* The panics of log_write() and end_op() are unreachable, for every       *)
(* number of processes and every log size, if a call writes fewer blocks   *)
(* than begin_op() reserves and the disk holds LOGSIZE log blocks with the *)
(* header among them (mkfs.c 100).                                         *)
THEOREM NeverPanics ==
    ASSUME OpBlocks < MAXOPBLOCKS, MAXOPBLOCKS < LOGSIZE, LOGSIZE <= NLog
    PROVE  Spec => []NoPanic
<1>1. Init => Room
  BY DEF Init, Room, Active
<1>2. IInv /\ Room /\ [Next]_vars => Room'
  BY RoomStep
<1>3. IInv /\ Room => NoPanic
  <2> SUFFICES ASSUME IInv, Room, Active # {} PROVE ~LogFull /\ outstanding >= 1 /\ ~committing
    BY DEF NoPanic
  <2>1. Active \in SUBSET Procs /\ Unspent \in SUBSET (Active \X (1 .. OpBlocks))
    BY DEF Active, Unspent
  <2>2. Cardinality(Unspent) \in Nat /\ Cardinality(Active) \in Nat /\ Cardinality(Active) # 0
    BY <2>1, UnspentFacts, ProcsFacts
  <2>3. Len(lh) <= LOGSIZE - 2
    BY <2>2, SizeAssumption DEF Room, IInv, TypeOK
  <2>4. ~LogFull
    BY <2>3, SizeAssumption DEF LogFull, IInv, TypeOK
  <2> QED BY <2>2, <2>4 DEF IInv, Control
<1> QED BY <1>1, <1>2, <1>3, Inductive, PTL DEF Spec

(* A step of the log loses no wakeup. *)
LEMMA WakeStep ==
    ASSUME IInv, SomeoneWakes, [Next]_vars
    PROVE  SomeoneWakes'
<1> USE DEF IInv
<1>1. ASSUME UNCHANGED <<outstanding, pc>>
      PROVE  SomeoneWakes'
  BY <1>1 DEF SomeoneWakes
<1>2. ASSUME \A q \in Procs : pc'[q] # "sleep"
      PROVE  SomeoneWakes'
  BY <1>2 DEF SomeoneWakes
<1>3. ASSUME NEW p \in Procs, BeginOp(p)
      PROVE  SomeoneWakes'
  <2>1. outstanding' > 0
    BY <1>3, ProcsAssumption, FS_CardinalityType DEF BeginOp, TypeOK
  <2> QED BY <2>1 DEF SomeoneWakes
<1>4. ASSUME NEW p \in Procs, BeginSleep(p)
      PROVE  SomeoneWakes'
  <2>1. CASE committing
    <3>1. PICK q \in Procs : pc[q] = "commit"
      BY <2>1 DEF Control
    <3>2. pc'[q] = "commit"
      BY <1>4, <3>1 DEF BeginSleep, TypeOK
    <3> QED BY <3>2 DEF SomeoneWakes
  <2>2. CASE ~committing
    <3>1. ~recovering /\ step = "none"
      BY <1>4, <2>2 DEF BeginSleep, Control
    <3>2. outstanding \in Nat /\ (outstanding = 0 => Len(lh) = 0)
      BY <3>1, ProcsAssumption, FS_CardinalityType DEF Control, TypeOK
    <3>3. outstanding # 0
      BY <1>4, <2>2, <3>2, SizeAssumption DEF BeginSleep, Admits
    <3> QED BY <1>4, <3>2, <3>3 DEF SomeoneWakes, BeginSleep
  <2> QED BY <2>1, <2>2
<1>5. ASSUME NEW p \in Procs, EndOp(p)
      PROVE  SomeoneWakes'
  <2>1. CASE outstanding = 1
    <3>1. pc'[p] = "commit"
      BY <1>5, <2>1 DEF EndOp, TypeOK
    <3> QED BY <3>1 DEF SomeoneWakes
  <2>2. CASE outstanding # 1
    BY <1>2, <1>5, <2>2 DEF EndOp, Woken
  <2> QED BY <2>1, <2>2
<1>6. ASSUME NEW p \in Procs, CommitDone(p)
      PROVE  SomeoneWakes'
  BY <1>2, <1>6 DEF CommitDone, Woken
<1>7. ASSUME NEW p \in Procs, NEW b \in Blocks, NEW v \in Vals, LogWrite(p, b, v)
      PROVE  SomeoneWakes'
  BY <1>1, <1>7 DEF LogWrite
<1>8. ASSUME NEW b \in Blocks, Load(b) \/ Evict(b)
      PROVE  SomeoneWakes'
  BY <1>1, <1>8 DEF Load, Evict, opVars
<1>9. ASSUME Commit \/ ReadHead \/ UNCHANGED vars
      PROVE  SomeoneWakes'
  BY <1>1, <1>9 DEF Commit, WriteLog, WriteHead, InstallTrans, ClearLog, ReadHead,
                    opVars, vars
<1>10. ASSUME Crash
       PROVE  SomeoneWakes'
  BY <1>2, <1>10 DEF Crash
<1> QED BY <1>3, <1>4, <1>5, <1>6, <1>7, <1>8, <1>9, <1>10 DEF Next

(* No wakeup is lost: whoever sleeps in begin_op() has a call or a commit  *)
(* ahead of it that will wake it, for every number of processes.           *)
THEOREM NoLostWakeup == Spec => []SomeoneWakes
<1>1. Init => SomeoneWakes
  BY DEF Init, SomeoneWakes
<1>2. IInv /\ SomeoneWakes /\ [Next]_vars => SomeoneWakes'
  BY WakeStep
<1> QED BY <1>1, <1>2, Inductive, PTL DEF Spec
=============================================================================
