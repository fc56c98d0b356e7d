--------------------------- MODULE PipeNetProofs ----------------------------
(***************************************************************************)
(* The two byte streams of the kernel.                                     *)
(*                                                                         *)
(* The pipe for any number of readers and writers, any PIPESIZE and any    *)
(* width of its counters that PIPESIZE divides: no lost wakeups, no false  *)
(* end of file, and a FIFO (module Fifo).  nread and nwrite are compared   *)
(* and subtracted modulo UintMax + 1 and index data modulo PIPESIZE.       *)
(* Everything about them is reduced to Cnt, the number of bytes in the     *)
(* pipe, by the first group of lemmas.                                     *)
(*                                                                         *)
(* The network stack for any hosts, any size of the ARP table and any      *)
(* number of datagrams of one peer, delivered in order: replies match the  *)
(* datagrams, while fewer are lost in a row than make the identification   *)
(* come round, and the ARP table keeps what was announced.                 *)
(***************************************************************************)
EXTENDS Pipe, Net, RingLemmas, FiniteSetTheorems

(* Zenon goes first, the solver second and with 30 seconds for a leaf. *)
USE ZenonT(10), SMTT(30)

M == UintMax + 1
Cnt == (nwrite - nread) % M

InPipe(p) == pc[p] \in {"loop", "sleep", "copy"}

(* Who is in the pipe has its lock, and a descriptor that keeps its end open. *)
PlaceInv ==
    /\ \A p \in Procs : InPipe(p) <=> lock = p
    /\ \A p \in Procs : pc[p] # "idle" => p \in holders
    /\ \A p \in Procs : pc[p] = "copy" =>
         p \in Readers /\ (Empty /\ ~copied[p] => ~writeopen)
    /\ \A p \in holders : /\ p \in Readers => readopen
                          /\ p \in Writers => writeopen

(* Who goes to sleep has a reason, and who sleeps keeps it unless somebody *)
(* in the pipe is still to call wakeup().                                  *)
SleepInv ==
    /\ \A p \in Readers :
         /\ pc[p] = "sleep" => Empty /\ writeopen
         /\ pc[p] = "asleep" =>
              /\ writeopen
              /\ Empty \/ \E w \in Writers : killed[w] \/ (lock = w /\ pc[w] = "loop")
    /\ \A p \in Writers :
         /\ pc[p] = "sleep" => Full /\ readopen
         /\ pc[p] = "asleep" =>
              /\ readopen
              /\ Full \/ \E r \in Readers : lock = r /\ pc[r] = "copy"

PipeInv == TypeOK /\ PlaceInv /\ SleepInv /\ Cnt <= PIPESIZE
-----------------------------------------------------------------------------
(* The counters: one turn around 0 .. UintMax. *)
LEMMA ModM ==
    ASSUME NEW x \in Int
    PROVE  /\ x \in 0 .. M - 1 => x % M = x
           /\ x \in M .. 2 * M - 1 => x % M = x - M
           /\ x \in -M .. -1 => x % M = x + M
<1>1. M \in Nat \ {0}
  BY SizeAssumption DEF M
<1> HIDE DEF M
<1> QED
  BY <1>1, OneTurn

(* The tests of the code in terms of Cnt. *)
LEMMA CntValue ==
    ASSUME NEW r \in Uint, NEW w \in Uint
    PROVE  (w - r) % M = IF r <= w THEN w - r ELSE w - r + M
  BY SizeAssumption, ModM DEF Uint, M

LEMMA CntFacts ==
    ASSUME TypeOK
    PROVE  /\ Cnt \in 0 .. UintMax
           /\ Empty <=> Cnt = 0
           /\ Full <=> Cnt = PIPESIZE
<1>1. nread \in 0 .. UintMax /\ nwrite \in 0 .. UintMax /\ M = UintMax + 1
  BY DEF TypeOK, Uint, M
<1>2. Cnt = IF nread <= nwrite THEN nwrite - nread ELSE nwrite - nread + M
  BY CntValue DEF Cnt, TypeOK
<1>3. (nread + PIPESIZE) % M = IF nread + PIPESIZE < M THEN nread + PIPESIZE
                                                      ELSE nread + PIPESIZE - M
  BY <1>1, ModM, SizeAssumption
<1> QED
  BY <1>1, <1>2, <1>3, SizeAssumption DEF Empty, Full, M

LEMMA IncFacts ==
    ASSUME NEW x \in Uint
    PROVE  Inc(x) \in Uint /\ Inc(x) = IF x = UintMax THEN 0 ELSE x + 1
  BY SizeAssumption, ModM DEF Inc, Uint, M

LEMMA PutCnt ==
    ASSUME TypeOK, Cnt <= PIPESIZE, ~Full, nwrite' = Inc(nwrite), nread' = nread
    PROVE  Cnt' = Cnt + 1 /\ Cnt < PIPESIZE
<1>1. Cnt \in 0 .. UintMax /\ Cnt < PIPESIZE
  BY CntFacts, SizeAssumption
<1>2. Cnt = IF nread <= nwrite THEN nwrite - nread ELSE nwrite - nread + M
  BY CntValue DEF Cnt, TypeOK
<1>3. Cnt' = IF nread <= nwrite' THEN nwrite' - nread ELSE nwrite' - nread + M
  BY CntValue, IncFacts DEF Cnt, TypeOK
<1>4. nwrite' = IF nwrite = UintMax THEN 0 ELSE nwrite + 1
  BY IncFacts DEF TypeOK
<1>5. /\ nread \in 0 .. UintMax /\ nwrite \in 0 .. UintMax /\ M = UintMax + 1
      /\ PIPESIZE \in Nat /\ PIPESIZE <= UintMax /\ UintMax \in Nat
  BY SizeAssumption DEF TypeOK, Uint, M
<1> QED
  BY <1>1, <1>2, <1>3, <1>4, <1>5

LEMMA GetCnt ==
    ASSUME TypeOK, ~Empty, nread' = Inc(nread), nwrite' = nwrite
    PROVE  Cnt' = Cnt - 1 /\ Cnt > 0
<1>1. Cnt \in 0 .. UintMax /\ Cnt > 0
  BY CntFacts, SizeAssumption
<1>2. Cnt = IF nread <= nwrite THEN nwrite - nread ELSE nwrite - nread + M
  BY CntValue DEF Cnt, TypeOK
<1>3. Cnt' = IF nread' <= nwrite THEN nwrite - nread' ELSE nwrite - nread' + M
  BY CntValue, IncFacts DEF Cnt, TypeOK
<1>4. nread' = IF nread = UintMax THEN 0 ELSE nread + 1
  BY IncFacts DEF TypeOK
<1>5. /\ nread \in 0 .. UintMax /\ nwrite \in 0 .. UintMax /\ M = UintMax + 1
      /\ UintMax \in Nat
  BY SizeAssumption DEF TypeOK, Uint, M
<1> QED
  BY <1>1, <1>2, <1>3, <1>4, <1>5
-----------------------------------------------------------------------------
LEMMA ModType == ASSUME NEW x \in Nat PROVE x % PIPESIZE \in 0 .. PIPESIZE - 1
  BY SizeAssumption, ModRange

LEMMA PipeInitInv == Init => PipeInv
<1> SUFFICES ASSUME Init PROVE PipeInv
  OBVIOUS
<1>1. TypeOK
  BY SizeAssumption DEF Init, TypeOK, Uint
<1>2. PlaceInv
  BY ProcsAssumption DEF Init, PlaceInv, InPipe
<1>3. SleepInv
  BY DEF Init, SleepInv, Procs
<1>4. Cnt <= PIPESIZE
  <2>1. Empty
    BY DEF Init, Empty
  <2> QED
    BY <1>1, <2>1, CntFacts, SizeAssumption
<1> QED
  BY <1>1, <1>2, <1>3, <1>4 DEF PipeInv

(* PipeInv is kept by every step. *)
LEMMA PipeStepInv == PipeInv /\ [Next]_vars => PipeInv'
<1> SUFFICES ASSUME PipeInv, [Next]_vars PROVE PipeInv'
  OBVIOUS
<1> USE DEF PipeInv
<1>1. CASE UNCHANGED vars
  BY <1>1 DEF vars, TypeOK, PlaceInv, InPipe, SleepInv, Cnt, Empty, Full
<1>2. ASSUME NEW p \in Procs, NEW k \in 0 .. MaxCount, Call(p, k) PROVE PipeInv'
  <2>1. Cnt' = Cnt /\ (Empty' <=> Empty) /\ (Full' <=> Full)
    BY <1>2 DEF Call, pipeVars, Cnt, Empty, Full
  <2>2. TypeOK'
    BY <1>2 DEF Call, pipeVars, TypeOK
  <2>3. PlaceInv'
    BY <1>2, <2>1, ProcsAssumption DEF Call, pipeVars, TypeOK, PlaceInv, InPipe, Procs
  <2>4. SleepInv'
    BY <1>2, <2>1, ProcsAssumption DEF Call, pipeVars, TypeOK, PlaceInv, InPipe, SleepInv, Procs
  <2> QED
    BY <2>1, <2>2, <2>3, <2>4
<1>3. ASSUME NEW p \in Procs, Acquire(p) PROVE PipeInv'
  <2>1. Cnt' = Cnt /\ (Empty' <=> Empty) /\ (Full' <=> Full)
    BY <1>3 DEF Acquire, pipeVars, Cnt, Empty, Full
  <2>2. TypeOK'
    BY <1>3 DEF Acquire, pipeVars, TypeOK
  <2>3. PlaceInv'
    BY <1>3, <2>1, ProcsAssumption DEF Acquire, pipeVars, TypeOK, PlaceInv, InPipe, Procs
  <2>4. SleepInv'
    BY <1>3, <2>1, ProcsAssumption DEF Acquire, pipeVars, TypeOK, PlaceInv, InPipe, SleepInv, Procs
  <2> QED
    BY <2>1, <2>2, <2>3, <2>4
<1>4. ASSUME NEW p \in Procs, FallAsleep(p) PROVE PipeInv'
  <2>1. Cnt' = Cnt /\ (Empty' <=> Empty) /\ (Full' <=> Full)
    BY <1>4 DEF FallAsleep, pipeVars, Cnt, Empty, Full
  <2>2. TypeOK'
    BY <1>4 DEF FallAsleep, pipeVars, TypeOK
  <2>3. PlaceInv'
    BY <1>4, <2>1, ProcsAssumption DEF FallAsleep, pipeVars, TypeOK, PlaceInv, InPipe, Procs
  <2>4. SleepInv'
    BY <1>4, <2>1, ProcsAssumption DEF FallAsleep, pipeVars, TypeOK, PlaceInv, InPipe, SleepInv, Procs
  <2> QED
    BY <2>1, <2>2, <2>3, <2>4
<1>5. ASSUME NEW p \in Procs, NEW v \in Bytes, PutByte(p, v) PROVE PipeInv'
  <2>1. TypeOK'
    <3>1. nwrite' \in Uint
      BY <1>5, IncFacts DEF PutByte, TypeOK
    <3>2. n' \in [Procs -> 0 .. MaxCount]
      BY <1>5, SizeAssumption DEF PutByte, TypeOK
    <3>3. nwrite \in Nat /\ data' \in [0 .. PIPESIZE - 1 -> Bytes]
      BY <1>5, SizeAssumption DEF PutByte, TypeOK, Uint
    <3> QED
      BY <1>5, <3>1, <3>2, <3>3 DEF PutByte, TypeOK
  <2>2. PlaceInv'
    BY <1>5, ProcsAssumption DEF PutByte, TypeOK, PlaceInv, InPipe, Procs
  <2>3. SleepInv'
    BY <1>5, ProcsAssumption DEF PutByte, TypeOK, PlaceInv, InPipe, SleepInv, Procs
  <2>4. Cnt' <= PIPESIZE
    BY <1>5, PutCnt, CntFacts, SizeAssumption DEF PutByte
  <2> QED
    BY <2>1, <2>2, <2>3, <2>4
<1>6. ASSUME NEW p \in Procs, WriteFail(p) PROVE PipeInv'
  <2>1. Cnt' = Cnt /\ (Empty' <=> Empty) /\ (Full' <=> Full)
    BY <1>6 DEF WriteFail, pipeVars, Cnt, Empty, Full
  <2>2. TypeOK'
    BY <1>6, SizeAssumption DEF WriteFail, Return, pipeVars, TypeOK
  <2>3. PlaceInv'
    BY <1>6, <2>1, ProcsAssumption DEF WriteFail, Return, pipeVars, TypeOK, PlaceInv, InPipe, Procs
  <2>4. SleepInv'
    BY <1>6, <2>1, ProcsAssumption DEF WriteFail, Return, pipeVars, TypeOK, PlaceInv, InPipe, SleepInv, Procs
  <2> QED
    BY <2>1, <2>2, <2>3, <2>4
<1>7. ASSUME NEW p \in Procs, WriteWait(p) PROVE PipeInv'
  <2>1. Cnt' = Cnt /\ (Empty' <=> Empty) /\ (Full' <=> Full)
    BY <1>7 DEF WriteWait, pipeVars, Cnt, Empty, Full
  <2>2. TypeOK'
    BY <1>7 DEF WriteWait, Wakeup, pipeVars, TypeOK
  <2>3. PlaceInv'
    BY <1>7, <2>1, ProcsAssumption DEF WriteWait, Wakeup, pipeVars, TypeOK, PlaceInv, InPipe, Procs
  <2>4. SleepInv'
    BY <1>7, <2>1, ProcsAssumption DEF WriteWait, Wakeup, pipeVars, TypeOK, PlaceInv, InPipe, SleepInv, Procs
  <2> QED
    BY <2>1, <2>2, <2>3, <2>4
<1>8. ASSUME NEW p \in Procs, WriteDone(p) PROVE PipeInv'
  <2>1. Cnt' = Cnt /\ (Empty' <=> Empty) /\ (Full' <=> Full)
    BY <1>8 DEF WriteDone, pipeVars, Cnt, Empty, Full
  <2>2. TypeOK'
    BY <1>8, SizeAssumption DEF WriteDone, Return, Wakeup, pipeVars, TypeOK
  <2>3. PlaceInv'
    BY <1>8, <2>1, ProcsAssumption DEF WriteDone, Return, Wakeup, pipeVars, TypeOK, PlaceInv, InPipe, Procs
  <2>4. SleepInv'
    BY <1>8, <2>1, ProcsAssumption DEF WriteDone, Return, Wakeup, pipeVars, TypeOK, PlaceInv, InPipe, SleepInv, Procs
  <2> QED
    BY <2>1, <2>2, <2>3, <2>4
<1>9. ASSUME NEW p \in Procs, ReadFail(p) PROVE PipeInv'
  <2>1. Cnt' = Cnt /\ (Empty' <=> Empty) /\ (Full' <=> Full)
    BY <1>9 DEF ReadFail, pipeVars, Cnt, Empty, Full
  <2>2. TypeOK'
    BY <1>9, SizeAssumption DEF ReadFail, Return, pipeVars, TypeOK
  <2>3. PlaceInv'
    BY <1>9, <2>1, ProcsAssumption DEF ReadFail, Return, pipeVars, TypeOK, PlaceInv, InPipe, Procs
  <2>4. SleepInv'
    BY <1>9, <2>1, ProcsAssumption DEF ReadFail, Return, pipeVars, TypeOK, PlaceInv, InPipe, SleepInv, Procs
  <2> QED
    BY <2>1, <2>2, <2>3, <2>4
<1>10. ASSUME NEW p \in Procs, ReadWait(p) PROVE PipeInv'
  <2>1. Cnt' = Cnt /\ (Empty' <=> Empty) /\ (Full' <=> Full)
    BY <1>10 DEF ReadWait, pipeVars, Cnt, Empty, Full
  <2>2. TypeOK'
    BY <1>10 DEF ReadWait, pipeVars, TypeOK
  <2>3. PlaceInv'
    BY <1>10, <2>1, ProcsAssumption DEF ReadWait, pipeVars, TypeOK, PlaceInv, InPipe, Procs
  <2>4. SleepInv'
    BY <1>10, <2>1, ProcsAssumption DEF ReadWait, pipeVars, TypeOK, PlaceInv, InPipe, SleepInv, Procs
  <2> QED
    BY <2>1, <2>2, <2>3, <2>4
<1>11. ASSUME NEW p \in Procs, ReadReady(p) PROVE PipeInv'
  <2>1. Cnt' = Cnt /\ (Empty' <=> Empty) /\ (Full' <=> Full)
    BY <1>11 DEF ReadReady, pipeVars, Cnt, Empty, Full
  <2>2. TypeOK'
    BY <1>11 DEF ReadReady, pipeVars, TypeOK
  <2>3. PlaceInv'
    BY <1>11, <2>1, ProcsAssumption DEF ReadReady, pipeVars, TypeOK, PlaceInv, InPipe, Procs
  <2>4. SleepInv'
    BY <1>11, <2>1, ProcsAssumption DEF ReadReady, pipeVars, TypeOK, PlaceInv, InPipe, SleepInv, Procs
  <2> QED
    BY <2>1, <2>2, <2>3, <2>4
<1>12. ASSUME NEW p \in Procs, GetByte(p) PROVE PipeInv'
  <2>1. TypeOK'
    <3>1. nread' \in Uint
      BY <1>12, IncFacts DEF GetByte, TypeOK
    <3>2. n' \in [Procs -> 0 .. MaxCount]
      BY <1>12, SizeAssumption DEF GetByte, TypeOK
    <3>3. nwrite \in Nat /\ data' \in [0 .. PIPESIZE - 1 -> Bytes]
      BY <1>12, SizeAssumption DEF GetByte, TypeOK, Uint
    <3> QED
      BY <1>12, <3>1, <3>2, <3>3 DEF GetByte, TypeOK
  <2>2. PlaceInv'
    BY <1>12, ProcsAssumption DEF GetByte, TypeOK, PlaceInv, InPipe, Procs
  <2>3. SleepInv'
    BY <1>12, ProcsAssumption DEF GetByte, TypeOK, PlaceInv, InPipe, SleepInv, Procs
  <2>4. Cnt' <= PIPESIZE
    BY <1>12, GetCnt, CntFacts, SizeAssumption DEF GetByte
  <2> QED
    BY <2>1, <2>2, <2>3, <2>4
<1>13. ASSUME NEW p \in Procs, ReadDone(p) PROVE PipeInv'
  <2>1. Cnt' = Cnt /\ (Empty' <=> Empty) /\ (Full' <=> Full)
    BY <1>13 DEF ReadDone, pipeVars, Cnt, Empty, Full
  <2>2. TypeOK'
    BY <1>13, SizeAssumption DEF ReadDone, Return, Wakeup, pipeVars, TypeOK
  <2>3. PlaceInv'
    BY <1>13, <2>1, ProcsAssumption DEF ReadDone, Return, Wakeup, pipeVars, TypeOK, PlaceInv, InPipe, Procs
  <2>4. SleepInv'
    BY <1>13, <2>1, ProcsAssumption DEF ReadDone, Return, Wakeup, pipeVars, TypeOK, PlaceInv, InPipe, SleepInv, Procs
  <2> QED
    BY <2>1, <2>2, <2>3, <2>4
<1>14. ASSUME NEW p \in Procs, Close(p) PROVE PipeInv'
  <2>1. Cnt' = Cnt /\ (Empty' <=> Empty) /\ (Full' <=> Full)
    BY <1>14 DEF Close, pipeVars, Cnt, Empty, Full
  <2>2. TypeOK'
    BY <1>14 DEF Close, LastOf, Wakeup, pipeVars, TypeOK
  <2>3. PlaceInv'
    BY <1>14, <2>1, ProcsAssumption DEF Close, LastOf, Wakeup, pipeVars, TypeOK, PlaceInv, InPipe, Procs
  <2>4. SleepInv'
    BY <1>14, <2>1, ProcsAssumption DEF Close, LastOf, Wakeup, pipeVars, TypeOK, PlaceInv, InPipe, SleepInv, Procs
  <2> QED
    BY <2>1, <2>2, <2>3, <2>4
<1>15. ASSUME NEW p \in Procs, Kill(p) PROVE PipeInv'
  <2>1. Cnt' = Cnt /\ (Empty' <=> Empty) /\ (Full' <=> Full)
    BY <1>15 DEF Kill, pipeVars, Cnt, Empty, Full
  <2>2. TypeOK'
    BY <1>15 DEF Kill, Wakeup, pipeVars, TypeOK
  <2>3. PlaceInv'
    BY <1>15, <2>1, ProcsAssumption DEF Kill, Wakeup, pipeVars, TypeOK, PlaceInv, InPipe, Procs
  <2>4. SleepInv'
    BY <1>15, <2>1, ProcsAssumption DEF Kill, Wakeup, pipeVars, TypeOK, PlaceInv, InPipe, SleepInv, Procs
  <2> QED
    BY <2>1, <2>2, <2>3, <2>4
<1> QED
  BY <1>1, <1>2, <1>3, <1>4, <1>5, <1>6, <1>7, <1>8, <1>9, <1>10,
     <1>11, <1>12, <1>13, <1>14, <1>15 DEF Next, Step

LEMMA PipeInvariant == Spec => []PipeInv
  BY PipeInitInv, PipeStepInv, PTL DEF Spec

(* Nobody sleeps over data, space or a closed end, but for the readers that *)
(* a killed writer leaves behind, with any number of readers and writers.   *)
THEOREM NoLostWakeup == Spec => []NoMissedWakeup
<1>1. PipeInv => NoMissedWakeup
  BY ProcsAssumption DEF PipeInv, SleepInv, NoMissedWakeup, Procs
<1> QED
  BY <1>1, PipeInvariant, PTL

(* read() returns 0 only after the last writer has closed and the last byte *)
(* has been taken, and nobody is in a pipe that is freed.                   *)
THEOREM EndsAreHonoured == Spec => []EndsHonoured
<1>1. PipeInv => EndsHonoured
  BY DEF PipeInv, PlaceInv, EndsHonoured, TypeOK, Procs
<1> QED
  BY <1>1, PipeInvariant, PTL
-----------------------------------------------------------------------------
(* The contents as part of the ring. *)
LEMMA ContentsRing ==
    ASSUME PipeInv
    PROVE  /\ Contents = RingSeq(data, PIPESIZE, nread, Cnt)
           /\ Contents \in Seq(Bytes) /\ Len(Contents) = Cnt
           /\ IsRing(data, PIPESIZE, Bytes) /\ PIPESIZE \in Nat \ {0}
           /\ nread \in Int /\ nwrite \in Int /\ Cnt \in Nat
           /\ M \in Nat \ {0} /\ SamePlace(M, 0, PIPESIZE)
           /\ SamePlace(nread + Cnt, nwrite, PIPESIZE)
<1>1. Contents = RingSeq(data, PIPESIZE, nread, Cnt)
  BY DEF Contents, RingSeq, Cnt, M
<1>2. IsRing(data, PIPESIZE, Bytes) /\ nread \in Int /\ nwrite \in Int
  BY SizeAssumption DEF PipeInv, TypeOK, Uint, IsRing
<1>3. PIPESIZE \in Nat \ {0} /\ M \in Nat \ {0} /\ SamePlace(M, 0, PIPESIZE)
  <2>1. PIPESIZE \in Nat \ {0} /\ M \in Nat \ {0} /\ M % PIPESIZE = 0
    BY SizeAssumption DEF M
  <2>2. 0 % PIPESIZE = 0
    BY <2>1, OneTurn
  <2> QED
    BY <2>1, <2>2 DEF SamePlace
<1>4. Cnt \in Nat
  BY CntFacts, SizeAssumption DEF PipeInv
<1>5. Contents \in Seq(Bytes) /\ Len(Contents) = Cnt
  BY <1>1, <1>2, <1>3, <1>4, RingIsSeq
<1>6. SamePlace(nread + Cnt, nwrite, PIPESIZE)
  <2>1. PICK k \in Int, z \in Int : k = (nwrite - nread) % M /\ k = Cnt /\ z = nread + k
    BY <1>2, <1>4 DEF Cnt
  <2>2. SamePlace(z, nwrite, PIPESIZE)
    BY <1>2, <1>3, <2>1, PlaceBetween
  <2> QED
    BY <2>1, <2>2
<1> QED
  BY <1>1, <1>2, <1>3, <1>4, <1>5, <1>6

(* pipewrite()'s assignment appends: the place is the one behind the last  *)
(* byte, and no byte's.                                                    *)
LEMMA PutAppends ==
    ASSUME PipeInv, PipeInv', NEW p \in Procs, NEW v \in Bytes, PutByte(p, v)
    PROVE  Contents' = Append(Contents, v) /\ Len(Contents) < PIPESIZE
<1>1. Cnt' = Cnt + 1 /\ Cnt < PIPESIZE
  BY PutCnt, CntFacts, SizeAssumption DEF PipeInv, PutByte
<1>2. data' = [data EXCEPT ![nwrite % PIPESIZE] = v] /\ nread' = nread
  BY DEF PutByte
<1>3. RingSeq(data', PIPESIZE, nread, Cnt + 1) = Append(RingSeq(data, PIPESIZE, nread, Cnt), v)
  <2>1. /\ IsRing(data, PIPESIZE, Bytes) /\ PIPESIZE \in Nat \ {0} /\ nread \in Int
        /\ nwrite \in Int /\ Cnt \in Nat /\ SamePlace(nread + Cnt, nwrite, PIPESIZE)
    BY ContentsRing
  <2>2. PICK z \in Int : z = nread + Cnt
    BY <2>1
  <2>3. SamePlace(nwrite, z, PIPESIZE)
    BY <2>1, <2>2, PlaceSymmetric
  <2>4. PICK d2 : PutAt(data, PIPESIZE, nwrite, v, d2) /\ d2 = data'
    BY <1>2 DEF PutAt
  <2>5. PICK m \in Nat, k \in Nat : m = Cnt + 1 /\ k = Cnt /\ m = k + 1
    BY <2>1
  <2>6. RingSeq(d2, PIPESIZE, nread, m) = Append(RingSeq(data, PIPESIZE, nread, k), v)
    BY <1>1, <2>1, <2>2, <2>3, <2>4, <2>5, RingPut
  <2> QED
    BY <2>4, <2>5, <2>6
<1>4. Contents' = RingSeq(data', PIPESIZE, nread', Cnt')
  BY DEF Contents, RingSeq, Cnt, M
<1> QED
  BY <1>1, <1>2, <1>3, <1>4, ContentsRing

(* piperead()'s increment removes the first byte. *)
LEMMA GetRemoves ==
    ASSUME PipeInv, PipeInv', NEW p \in Procs, GetByte(p)
    PROVE  Contents' = Tail(Contents) /\ Contents # <<>>
<1>1. Cnt' = Cnt - 1 /\ Cnt > 0
  BY GetCnt DEF PipeInv, GetByte
<1>2. nread' \in Int /\ SamePlace(nread', nread + 1, PIPESIZE) /\ data' = data
  <2>1. nread' = (nread + 1) % M /\ data' = data
    BY DEF GetByte, Inc, M
  <2>2. PICK x \in Int : x = nread + 1
    BY ContentsRing
  <2>3. PIPESIZE \in Nat \ {0} /\ M \in Nat \ {0} /\ SamePlace(M, 0, PIPESIZE)
    BY ContentsRing
  <2>4. x % M \in 0 .. M - 1
    BY <2>3, ModRange
  <2>5. PICK w \in Int : w = x % M
    BY <2>3, <2>4
  <2>6. SamePlace(w, x, PIPESIZE)
    BY <2>3, <2>5, PlaceTurn
  <2> QED
    BY <2>1, <2>2, <2>5, <2>6
<1>3. PICK k \in Nat : k = Cnt - 1
  BY <1>1, ContentsRing
<1>4. Contents' = RingSeq(data, PIPESIZE, nread', k)
  BY <1>1, <1>2, <1>3 DEF Contents, RingSeq, Cnt, M
<1>5. RingSeq(data, PIPESIZE, nread', k) = RingSeq(data, PIPESIZE, nread + 1, k)
  <2>1. PICK x \in Int : x = nread + 1
    BY ContentsRing
  <2>2. SamePlace(nread', x, PIPESIZE) /\ PIPESIZE \in Nat \ {0}
    BY <1>2, <2>1, ContentsRing
  <2>3. RingSeq(data, PIPESIZE, nread', k) = RingSeq(data, PIPESIZE, x, k)
    BY <1>2, <2>2, RingSame
  <2> QED
    BY <2>1, <2>3
<1>6. /\ Contents # <<>>
      /\ Tail(Contents) = RingSeq(data, PIPESIZE, nread + 1, k)
  <2>1. /\ IsRing(data, PIPESIZE, Bytes) /\ PIPESIZE \in Nat \ {0} /\ nread \in Int
        /\ Cnt \in Nat /\ Contents = RingSeq(data, PIPESIZE, nread, Cnt)
    BY ContentsRing
  <2>2. PICK q \in Int : q = nread + 1
    BY <2>1
  <2>3. Cnt = k + 1
    BY <1>3, <2>1
  <2>4. /\ RingSeq(data, PIPESIZE, nread, Cnt) # <<>>
        /\ Tail(RingSeq(data, PIPESIZE, nread, Cnt)) = RingSeq(data, PIPESIZE, q, k)
    BY <2>1, <2>2, <2>3, RingTail
  <2> QED
    BY <2>1, <2>2, <2>4
<1> QED
  BY <1>4, <1>5, <1>6

(* A step that leaves the counters and the data alone leaves the queue. *)
LEMMA SameContents ==
    ASSUME UNCHANGED <<data, nread, nwrite>>
    PROVE  Contents' = Contents
  BY DEF Contents

(* A pipe is a FIFO of at most PIPESIZE bytes with two ends that close: of  *)
(* the steps of pipe.c, one appends a byte, one takes the first, one closes *)
(* an end, and the others change nothing that a user of the pipe sees.      *)
THEOREM PipeIsFifo == Spec => IsFifo
<1>1. Init => Queue!Init
  <2> SUFFICES ASSUME Init PROVE Queue!Init
    OBVIOUS
  <2>1. Cnt = 0
    BY PipeInitInv, CntFacts DEF Init, PipeInv, Empty
  <2>2. Contents = <<>>
    BY <2>1 DEF Contents, Cnt, M
  <2> QED
    BY <2>2 DEF Init, Queue!Init
<1>2. PipeInv /\ PipeInv' /\ [Next]_vars => [Queue!Next]_(Queue!vars)
  <2> SUFFICES ASSUME PipeInv, PipeInv', [Next]_vars PROVE [Queue!Next]_(Queue!vars)
    OBVIOUS
  <2>1. CASE UNCHANGED vars
    BY <2>1, SameContents DEF vars, Queue!vars
  <2>2. ASSUME NEW p \in Procs, NEW v \in Bytes, PutByte(p, v) PROVE Queue!Put(v)
    <3>1. Contents' = Append(Contents, v) /\ Len(Contents) < PIPESIZE
      BY <2>2, PutAppends
    <3>2. writeopen
      BY <2>2 DEF PutByte, PipeInv, PlaceInv
    <3> QED
      BY <2>2, <3>1, <3>2 DEF PutByte, Queue!Put
  <2>3. ASSUME NEW p \in Procs, GetByte(p) PROVE Queue!Get
    <3>1. Contents' = Tail(Contents) /\ Contents # <<>>
      BY <2>3, GetRemoves
    <3>2. readopen
      BY <2>3 DEF GetByte, PipeInv, PlaceInv
    <3> QED
      BY <2>3, <3>1, <3>2 DEF GetByte, Queue!Get
  <2>4. ASSUME NEW p \in Procs, Close(p) PROVE Queue!Next \/ UNCHANGED Queue!vars
    <3>1. Contents' = Contents
      BY <2>4, SameContents DEF Close
    <3>2. CASE LastOf(p, Writers)
      <4>1. ~LastOf(p, Readers) /\ writeopen
        BY <2>4, <3>2, ProcsAssumption DEF LastOf, Close, PipeInv, PlaceInv
      <4> QED
        BY <2>4, <3>1, <3>2, <4>1 DEF Close, PipeInv, TypeOK, Queue!Next, Queue!CloseWrite
    <3>3. CASE LastOf(p, Readers) /\ ~LastOf(p, Writers)
      <4>1. readopen
        BY <2>4, <3>3 DEF LastOf, Close, PipeInv, PlaceInv
      <4> QED
        BY <2>4, <3>1, <3>3, <4>1 DEF Close, PipeInv, TypeOK, Queue!Next, Queue!CloseRead
    <3>4. CASE ~LastOf(p, Readers) /\ ~LastOf(p, Writers)
      BY <2>4, <3>1, <3>4 DEF Close, PipeInv, TypeOK, Queue!vars
    <3> QED
      BY <3>2, <3>3, <3>4
  <2>5. ASSUME NEW p \in Procs,
               \/ \E k \in 0 .. MaxCount : Call(p, k)
               \/ Acquire(p) \/ FallAsleep(p) \/ WriteFail(p) \/ WriteWait(p) \/ WriteDone(p)
               \/ ReadFail(p) \/ ReadWait(p) \/ ReadReady(p) \/ ReadDone(p) \/ Kill(p)
        PROVE  UNCHANGED Queue!vars
    <3>1. UNCHANGED pipeVars
      BY <2>5 DEF Call, Acquire, FallAsleep, WriteFail, WriteWait, WriteDone,
                  ReadFail, ReadWait, ReadReady, ReadDone, Kill
    <3> QED
      BY <3>1, SameContents DEF pipeVars, Queue!vars
  <2> QED
    BY <2>1, <2>2, <2>3, <2>4, <2>5 DEF Next, Step, Queue!Next
<1> QED
  BY <1>1, <1>2, PipeInvariant, PTL DEF Spec, IsFifo, Queue!Spec
-----------------------------------------------------------------------------
(* The network stack. *)
Replies == {"synack", "ack", "http", "fin", "echo"}
Entry == [ip : Hosts \cup {NoHost}, mac : Macs \cup {NoMac}, use : BOOLEAN]
Packet == [protocol : {"TCP", "ICMP", "UDP"},
           bits : SUBSET {"SYN", "PSH", "ACK", "FIN"},
           ask : Requests \cup {"none"}, id : Nat, src_ip : {Peer}]

State(table, id, send, seq, fin, out) ==
    [arp_table |-> table, ip_id |-> id, send_id |-> send, seq_num |-> seq,
     fin_flag |-> fin, out |-> out]

NetType ==
    /\ net = State(net.arp_table, net.ip_id, net.send_id, net.seq_num, net.fin_flag, net.out)
    /\ net.arp_table \in [Entries -> Entry] /\ net.ip_id \in Int
    /\ net.seq_num \in Nat /\ net.fin_flag \in BOOLEAN
    /\ channel \in Seq(Packet)
    /\ sent \in Nat /\ again \in BOOLEAN /\ lost \in 0 .. MaxLost
    /\ announced \in [Hosts -> Macs \cup {NoMac}]
    /\ overfull \in BOOLEAN
    /\ first \in [Requests -> Nat] /\ replied \in [Replies -> Nat]

(* The datagrams on their way are the peer's latest, and each asks for      *)
(* what its protocol and flags say.                                         *)
ChannelInv ==
    \A i \in 1 .. Len(channel) :
        /\ channel[i].id = NthId(sent - Len(channel) + i - 1)
        /\ \E d \in Datagrams : /\ channel[i].protocol = d.protocol
                                /\ channel[i].bits = d.bits /\ channel[i].ask = d.ask

(* ip_id is the identification of the oldest datagram once that has been    *)
(* delivered, and before it that of the last one that was not lost.         *)
CopyInv ==
    /\ again => /\ channel # <<>> /\ lost = 0
                /\ net.ip_id = NthId(sent - Len(channel))
    /\ ~again => net.ip_id \in {-1, NthId(sent - Len(channel) - lost - 1)}

(* An entry that is not in use has no host's address. *)
TableInv ==
    \A i \in Entries : IF net.arp_table[i].use THEN net.arp_table[i].ip \in Hosts
                                               ELSE net.arp_table[i].ip = NoHost

NetInv == NetType /\ ChannelInv /\ CopyInv /\ AnsweredOnce /\ TableInv /\ ArpTableRight

-----------------------------------------------------------------------------
(* How often each frame is in what eth_proc() sends. *)
Count(out, f) == Cardinality({i \in DOMAIN out : out[i] = f})

LEMMA CountNone == ASSUME NEW f PROVE Count(<<>>, f) = 0
<1>1. {i \in DOMAIN <<>> : <<>>[i] = f} = {}
  OBVIOUS
<1> QED
  BY <1>1, FS_EmptySet DEF Count

LEMMA CountOne ==
    ASSUME NEW f, NEW a
    PROVE  Count(<<a>>, f) = IF a = f THEN 1 ELSE 0
<1>1. DOMAIN <<a>> = {1} /\ <<a>>[1] = a
  OBVIOUS
<1>2. {i \in DOMAIN <<a>> : <<a>>[i] = f} = IF a = f THEN {1} ELSE {}
  BY <1>1
<1> QED
  BY <1>2, FS_EmptySet, FS_Singleton DEF Count

LEMMA CountTwo ==
    ASSUME NEW f, NEW a, NEW b, a # b
    PROVE  Count(<<a, b>>, f) = IF f \in {a, b} THEN 1 ELSE 0
<1>1. DOMAIN <<a, b>> = {1, 2} /\ <<a, b>>[1] = a /\ <<a, b>>[2] = b
  OBVIOUS
<1>2. {i \in DOMAIN <<a, b>> : <<a, b>>[i] = f}
        = IF a = f THEN {1} ELSE IF b = f THEN {2} ELSE {}
  BY <1>1
<1> QED
  BY <1>2, FS_EmptySet, FS_Singleton, Zenon DEF Count

LEMMA AppendNone == ASSUME NEW a PROVE Append(<<>>, a) = <<a>>
  OBVIOUS

LEMMA AppendOne == ASSUME NEW a, NEW b PROVE Append(<<a>>, b) = <<a, b>>
<1>1. <<a>> \in Seq({a, b}) /\ Len(<<a>>) = 1
  OBVIOUS
<1>2. Append(<<a>>, b) \in Seq({a, b}) /\ Len(Append(<<a>>, b)) = 2
  BY <1>1
<1>3. Append(<<a>>, b)[1] = a /\ Append(<<a>>, b)[2] = b
  BY <1>1
<1>4. <<a, b>> \in Seq({a, b}) /\ Len(<<a, b>>) = 2
  OBVIOUS
<1> QED
  <2>1. <<a, b>>[1] = a /\ <<a, b>>[2] = b
    OBVIOUS
  <2>2. \A i \in 1 .. 2 : Append(<<a>>, b)[i] = <<a, b>>[i]
    BY <1>3, <2>1
  <2> QED
    BY <1>2, <1>4, <2>2, SeqEqual, Zenon

LEMMA StateFields ==
    ASSUME NEW a, NEW b, NEW c, NEW d, NEW e, NEW f
    PROVE  LET s == State(a, b, c, d, e, f) IN
           /\ s.arp_table = a /\ s.ip_id = b /\ s.send_id = c
           /\ s.seq_num = d /\ s.fin_flag = e /\ s.out = f
  BY DEF State

LEMMA StateExcept ==
    ASSUME NEW a, NEW b, NEW c, NEW d, NEW e, NEW f, NEW x
    PROVE  LET s == State(a, b, c, d, e, f) IN
           /\ [s EXCEPT !.arp_table = x] = State(x, b, c, d, e, f)
           /\ [s EXCEPT !.ip_id = x] = State(a, x, c, d, e, f)
           /\ [s EXCEPT !.send_id = x] = State(a, b, x, d, e, f)
           /\ [s EXCEPT !.seq_num = x] = State(a, b, c, x, e, f)
           /\ [s EXCEPT !.fin_flag = x] = State(a, b, c, d, x, f)
           /\ [s EXCEPT !.out = x] = State(a, b, c, d, e, x)
  BY DEF State

(* Identifications are natural numbers, and fewer than IdSpace datagrams    *)
(* in a row have different ones.                                            *)
LEMMA IdFacts ==
    ASSUME NEW y \in Int
    PROVE  NthId(y) \in Nat /\ NthId(y) # -1
<1>1. IdSpace \in Nat \ {0}
  BY DatagramsAssumption
<1>2. y % IdSpace \in 0 .. IdSpace - 1
  BY <1>1, ModRange
<1>3. NthId(y) \in 0 .. IdSpace - 1
  BY <1>2, Zenon DEF NthId
<1> QED
  BY <1>1, <1>3

LEMMA IdsApart ==
    ASSUME NEW x \in Int, NEW y \in Int, x - y \in 1 .. MaxLost + 1
    PROVE  NthId(x) # NthId(y)
<1>1. IdSpace \in Nat \ {0} /\ x - y \in 1 .. IdSpace - 1
  BY DatagramsAssumption
<1>2. ~SamePlace(y, x, IdSpace)
  BY <1>1, PlacesApart
<1> QED
  BY <1>2, Zenon DEF NthId, SamePlace

LEMMA PeerNotMe == Peer # my_ip
<1>1. Peer \in Hosts /\ my_ip \notin Hosts
  BY HostsAssumption
<1> QED
  BY <1>1, Zenon

LEMMA NetInitInv == NetInit => NetInv
<1> SUFFICES ASSUME NetInit PROVE NetInv
  OBVIOUS
<1>0. net = State([i \in Entries |-> NoEntry], -1, 0, 0, FALSE, <<>>)
  BY DEF NetInit, State
<1>1. /\ net.arp_table = [i \in Entries |-> NoEntry] /\ net.ip_id = -1
      /\ net.send_id = 0 /\ net.seq_num = 0 /\ net.fin_flag = FALSE /\ net.out = <<>>
  BY <1>0 DEF State
<1>2. NetType
  <2>1. net.arp_table \in [Entries -> Entry]
    BY <1>1 DEF Entry, NoEntry
  <2>2. channel = <<>> /\ sent = 0 /\ again = FALSE /\ overfull = FALSE /\ lost = 0
    BY DEF NetInit
  <2>3. announced \in [Hosts -> Macs \cup {NoMac}] /\ first \in [Requests -> Nat]
    BY DEF NetInit
  <2>4. replied \in [Replies -> Nat]
    BY DEF NetInit, Replies
  <2> QED
    <3>1. net = State(net.arp_table, net.ip_id, net.send_id, net.seq_num, net.fin_flag, net.out)
      BY <1>0, <1>1, Zenon
    <3>2. channel \in Seq(Packet)
      BY <2>2
    <3>3. net.ip_id \in Int /\ net.seq_num \in Nat
      BY <1>1
    <3>4. net.fin_flag \in BOOLEAN
      BY <1>1, Zenon
    <3>5. lost \in 0 .. MaxLost
      BY <2>2, DatagramsAssumption
    <3> QED
      BY <3>1, <3>2, <3>3, <3>4, <3>5, <2>1, <2>2, <2>3, <2>4, Zenon DEF NetType
<1>3. ChannelInv /\ CopyInv
  BY <1>1 DEF NetInit, ChannelInv, CopyInv
<1>4. AnsweredOnce
  BY <1>1 DEF NetInit, AnsweredOnce, Requests
<1>5. TableInv /\ ArpTableRight
  BY <1>1 DEF NetInit, TableInv, ArpTableRight, NoEntry
<1> QED
  BY <1>2, <1>3, <1>4, <1>5 DEF NetInv

-----------------------------------------------------------------------------
(* What is left of the state when nothing is sent yet. *)
Quiet == [net EXCEPT !.out = <<>>]

(* What a frame may change: the fields of the state t after it. *)
Effect(t, id, seq, fin, out) ==
    \E send : t = State(net.arp_table, id, send, seq, fin, out)

LEMMA EffectFields ==
    ASSUME NEW t, NEW id, NEW seq, NEW fin, NEW out, Effect(t, id, seq, fin, out)
    PROVE  /\ t = State(t.arp_table, t.ip_id, t.send_id, t.seq_num, t.fin_flag, t.out)
           /\ t.arp_table = net.arp_table /\ t.ip_id = id /\ t.seq_num = seq
           /\ t.fin_flag = fin /\ t.out = out
<1>1. PICK send : t = State(net.arp_table, id, send, seq, fin, out)
  BY DEF Effect
<1> QED
  BY <1>1, StateFields

LEMMA EffectChange ==
    ASSUME NEW t, NEW id, NEW seq, NEW fin, NEW out, Effect(t, id, seq, fin, out), NEW x
    PROVE  /\ Effect([t EXCEPT !.ip_id = x], x, seq, fin, out)
           /\ Effect([t EXCEPT !.send_id = x], id, seq, fin, out)
           /\ Effect([t EXCEPT !.seq_num = x], id, x, fin, out)
           /\ Effect([t EXCEPT !.fin_flag = x], id, seq, x, out)
           /\ Effect([t EXCEPT !.out = x], id, seq, fin, x)
<1>1. PICK send : t = State(net.arp_table, id, send, seq, fin, out)
  BY DEF Effect
<1>2. [t EXCEPT !.ip_id = x] = State(net.arp_table, x, send, seq, fin, out)
  BY <1>1 DEF State
<1>3. [t EXCEPT !.send_id = x] = State(net.arp_table, id, x, seq, fin, out)
  BY <1>1 DEF State
<1>4. [t EXCEPT !.seq_num = x] = State(net.arp_table, id, send, x, fin, out)
  BY <1>1 DEF State
<1>5. [t EXCEPT !.fin_flag = x] = State(net.arp_table, id, send, seq, x, out)
  BY <1>1 DEF State
<1>6. [t EXCEPT !.out = x] = State(net.arp_table, id, send, seq, fin, x)
  BY <1>1 DEF State
<1> QED
  BY <1>2, <1>3, <1>4, <1>5, <1>6, Zenon DEF Effect

LEMMA EffectSend ==
    ASSUME NEW t, NEW id, NEW seq, NEW fin, NEW out, Effect(t, id, seq, fin, out), NEW f
    PROVE  /\ Effect(SendFrame(t, f), id, seq, fin, Append(out, f))
           /\ Effect(TcpSend(t, f), id, seq, fin, Append(out, f))
           /\ Effect(SendFrame(icmp_reply_pkt_create(t), f), id, seq, fin, Append(out, f))
<1>1. ASSUME NEW u, Effect(u, id, seq, fin, out)
      PROVE  Effect(SendFrame(u, f), id, seq, fin, Append(out, f))
  BY <1>1, EffectChange, EffectFields, Zenon DEF SendFrame
<1> DEFINE x == (t.send_id + 1) % 65536
<1>2. tcp_pkt_create(t) = [t EXCEPT !.send_id = x]
  BY SMT DEF tcp_pkt_create
<1>3. icmp_reply_pkt_create(t) = [t EXCEPT !.send_id = x]
  BY SMT DEF icmp_reply_pkt_create
<1> HIDE DEF x
<1>4. Effect([t EXCEPT !.send_id = x], id, seq, fin, out)
  BY EffectChange, Zenon
<1> QED
  BY <1>1, <1>2, <1>3, <1>4, Zenon DEF TcpSend

LEMMA QuietEffect ==
    ASSUME NetType
    PROVE  Effect(Quiet, net.ip_id, net.seq_num, net.fin_flag, <<>>)
<1>1. Effect(net, net.ip_id, net.seq_num, net.fin_flag, net.out)
  BY DEF NetType, Effect
<1> QED
  BY <1>1, EffectChange, Zenon DEF Quiet

(* A datagram that is new, by what it asks for. *)
LEMMA FreshDatagram ==
    ASSUME NetType, NEW p \in Packet, net.ip_id # p.id,
           NEW d \in Datagrams, p.protocol = d.protocol, p.bits = d.bits, p.ask = d.ask
    PROVE  LET t == ipv4_proc(Quiet, p)
           IN  \/ p.ask = "syn" /\ Effect(t, p.id, net.seq_num + 1, net.fin_flag, <<"synack">>)
               \/ p.ask = "get" /\ Effect(t, p.id, net.seq_num + 1, TRUE, <<"ack", "http">>)
               \/ p.ask = "echo" /\ Effect(t, p.id, net.seq_num, net.fin_flag, <<"echo">>)
               \/ p.ask = "none" /\ net.fin_flag
                  /\ Effect(t, p.id, net.seq_num, FALSE, <<"fin">>)
               \/ p.ask = "none" /\ Effect(t, p.id, net.seq_num, net.fin_flag, <<>>)
<1> DEFINE s == [Quiet EXCEPT !.ip_id = p.id]
<1>0. Quiet.ip_id # p.id /\ p.src_ip # my_ip
  <2>1. Quiet.ip_id = net.ip_id
    BY QuietEffect, EffectFields, Zenon
  <2>2. p.src_ip = Peer
    BY DEF Packet
  <2>3. Peer # my_ip
    BY PeerNotMe
  <2> QED
    BY <2>1, <2>2, <2>3, Zenon
<1>1. Effect(s, p.id, net.seq_num, net.fin_flag, <<>>)
  BY QuietEffect, EffectChange, Zenon
<1>2. ipv4_proc(Quiet, p) = CASE p.protocol = "ICMP" -> icmp_proc(s, p)
                              [] p.protocol = "TCP" -> tcp_proc(s, p)
                              [] OTHER -> s
  BY <1>0 DEF ipv4_proc
<1> HIDE DEF s
<1>3. ASSUME NEW f
      PROVE  Effect(TcpSend(s, f), p.id, net.seq_num, net.fin_flag, <<f>>)
  BY <1>1, EffectSend, AppendNone, Zenon
<1>4. CASE d = Datagram("TCP", {"SYN"}, "syn")
  <2>1. tcp_proc(s, p) = [TcpSend(s, "synack") EXCEPT !.seq_num = @ + 1]
    BY <1>4 DEF Datagram, tcp_proc
  <2> DEFINE u == TcpSend(s, "synack")
  <2>3. Effect(u, p.id, net.seq_num, net.fin_flag, <<"synack">>)
    BY <1>3
  <2> HIDE DEF u
  <2>4. u.seq_num = net.seq_num
    BY <2>3, EffectFields
  <2>5. Effect([u EXCEPT !.seq_num = u.seq_num + 1], p.id, u.seq_num + 1,
               net.fin_flag, <<"synack">>)
    BY <2>3, EffectChange, Zenon
  <2>2. Effect(tcp_proc(s, p), p.id, net.seq_num + 1, net.fin_flag, <<"synack">>)
    BY <2>1, <2>4, <2>5 DEF u
  <2> QED
    BY <1>2, <1>4, <2>2 DEF Datagram
<1>5. CASE d = Datagram("TCP", {"PSH", "ACK"}, "get")
  <2> DEFINE u == http_proc(TcpSend(s, "ack"))
             v == TcpSend(u, "http")
  <2>1. tcp_proc(s, p) = [v EXCEPT !.seq_num = @ + 1]
    BY <1>5 DEF Datagram, tcp_proc
  <2>2. Effect(u, p.id, net.seq_num, TRUE, <<"ack">>)
    BY <1>3, EffectChange, Zenon DEF http_proc
  <2> HIDE DEF u
  <2>3. Effect(v, p.id, net.seq_num, TRUE, <<"ack", "http">>)
    BY <2>2, EffectSend, AppendOne, Zenon
  <2> HIDE DEF v
  <2>5. v.seq_num = net.seq_num
    <3> DEFINE fin == TRUE
    <3>1. Effect(v, p.id, net.seq_num, fin, <<"ack", "http">>)
      BY <2>3, Zenon
    <3> HIDE DEF fin
    <3> QED
      BY <3>1, EffectFields
  <2>6. Effect([v EXCEPT !.seq_num = v.seq_num + 1], p.id, v.seq_num + 1, TRUE,
               <<"ack", "http">>)
    BY <2>3, EffectChange, Zenon
  <2>4. Effect(tcp_proc(s, p), p.id, net.seq_num + 1, TRUE, <<"ack", "http">>)
    BY <2>1, <2>5, <2>6, Zenon
  <2> QED
    BY <1>2, <1>5, <2>4, Zenon DEF Datagram
<1>6. CASE d = Datagram("TCP", {"ACK"}, "none")
  <2>1. CASE net.fin_flag
    <3>1. s.fin_flag
      BY <1>1, <2>1, EffectFields, Zenon
    <3>2. tcp_proc(s, p) = [TcpSend(s, "fin") EXCEPT !.fin_flag = FALSE]
      BY <1>6, <3>1 DEF Datagram, tcp_proc
    <3>3. Effect(tcp_proc(s, p), p.id, net.seq_num, FALSE, <<"fin">>)
      <4> DEFINE u == TcpSend(s, "fin")
      <4>1. Effect(u, p.id, net.seq_num, net.fin_flag, <<"fin">>)
        BY <1>3
      <4> HIDE DEF u
      <4>2. Effect([u EXCEPT !.fin_flag = FALSE], p.id, net.seq_num, FALSE, <<"fin">>)
        BY <4>1, EffectChange, Zenon
      <4> QED
        BY <3>2, <4>2, Zenon DEF u
    <3> QED
      BY <1>2, <1>6, <2>1, <3>3, Zenon DEF Datagram
  <2>2. CASE ~net.fin_flag
    <3>1. ~s.fin_flag
      BY <1>1, <2>2, EffectFields
    <3>2. tcp_proc(s, p) = s
      BY <1>6, <3>1 DEF Datagram, tcp_proc
    <3> QED
      BY <1>1, <1>2, <1>6, <3>2, Zenon DEF Datagram
  <2> QED
    BY <2>1, <2>2, Zenon
<1>7. CASE d = Datagram("TCP", {"FIN", "ACK"}, "none")
  <2>1. tcp_proc(s, p) = s
    BY <1>7 DEF Datagram, tcp_proc
  <2> QED
    BY <1>1, <1>2, <1>7, <2>1, Zenon DEF Datagram
<1>8. CASE d = Datagram("ICMP", {}, "echo")
  <2>1. icmp_proc(s, p) = SendFrame(icmp_reply_pkt_create(s), "echo")
    BY <1>8 DEF Datagram, icmp_proc
  <2>2. Effect(icmp_proc(s, p), p.id, net.seq_num, net.fin_flag, <<"echo">>)
    BY <1>1, <2>1, EffectSend, AppendNone, Zenon
  <2> QED
    BY <1>2, <1>8, <2>2 DEF Datagram
<1>9. CASE d = Datagram("ICMP", {}, "none")
  <2>1. icmp_proc(s, p) = s
    BY <1>9 DEF Datagram, icmp_proc
  <2> QED
    BY <1>1, <1>2, <1>9, <2>1, Zenon DEF Datagram
<1>10. CASE d = Datagram("UDP", {}, "none")
  BY <1>1, <1>2, <1>10, Zenon DEF Datagram
<1> QED
  BY <1>4, <1>5, <1>6, <1>7, <1>8, <1>9, <1>10, Zenon DEF Datagrams

-----------------------------------------------------------------------------
(* What Handle() counts, when the frames it sends are known. *)
LEMMA Handled ==
    ASSUME NetType, NEW frame, Handle(frame),
           \A f \in Replies : Count(eth_proc(net, frame).out, f) \in Nat
    PROVE  /\ net' = eth_proc(net, frame)
           /\ replied' \in [Replies -> Nat]
           /\ \A f \in Replies : replied'[f] = replied[f] + Count(net'.out, f)
<1> DEFINE t == eth_proc(net, frame)
<1>1. DOMAIN replied = Replies /\ \A f \in Replies : replied[f] \in Nat
  BY DEF NetType
<1>2. net' = t /\ replied' = [f \in Replies |-> replied[f] + Count(t.out, f)]
  BY <1>1 DEF Handle, Count
<1> HIDE DEF t
<1>3. \A f \in Replies : Count(t.out, f) \in Nat
  BY DEF t
<1>4. replied' \in [Replies -> Nat]
  BY <1>1, <1>2, <1>3
<1>5. \A f \in Replies : replied'[f] = replied[f] + Count(net'.out, f)
  BY <1>2
<1> QED
  BY <1>2, <1>4, <1>5 DEF t

(* A step that leaves the ARP table alone. *)
LEMMA TableKeeps ==
    ASSUME TableInv, ArpTableRight, net'.arp_table = net.arp_table,
           announced' = announced, overfull' = overfull
    PROVE  TableInv' /\ ArpTableRight'
  BY DEF TableInv, ArpTableRight

(* A step that answers nothing. *)
LEMMA AnswersKeep ==
    ASSUME AnsweredOnce, net'.seq_num = net.seq_num, net'.fin_flag = net.fin_flag,
           first' = first, \A f \in Replies : replied'[f] = replied[f]
    PROVE  AnsweredOnce'
  BY DEF AnsweredOnce, Replies

LEMMA TailFacts ==
    ASSUME NEW S, NEW s \in Seq(S), s # <<>>
    PROVE  /\ Tail(s) \in Seq(S) /\ Len(s) \in Nat /\ Len(s) >= 1
           /\ Len(Tail(s)) = Len(s) - 1 /\ Head(s) = s[1] /\ s[1] \in S
           /\ \A i \in 1 .. Len(s) - 1 : Tail(s)[i] = s[i + 1]
<1>1. Tail(s) \in Seq(S) /\ Len(s) \in Nat /\ Len(s) >= 1 /\ Len(Tail(s)) = Len(s) - 1
  OBVIOUS
<1>2. Head(s) = s[1] /\ s[1] \in S
  BY <1>1
<1>3. \A i \in 1 .. Len(s) - 1 : Tail(s)[i] = s[i + 1]
  BY <1>1
<1> QED
  BY <1>1, <1>2, <1>3

(* A step that leaves the channel alone or takes the oldest datagram. *)
LEMMA ChannelKeeps ==
    ASSUME NetType, ChannelInv, sent' = sent,
           channel' = channel \/ (channel # <<>> /\ channel' = Tail(channel))
    PROVE  channel' \in Seq(Packet) /\ ChannelInv'
<1>0. sent \in Nat /\ channel \in Seq(Packet)
  BY DEF NetType
<1>1. CASE channel' = channel
  BY <1>0, <1>1 DEF ChannelInv
<1>2. CASE channel # <<>> /\ channel' = Tail(channel)
  <2> DEFINE l == Len(channel)
             m == Len(channel')
  <2>1. /\ channel' \in Seq(Packet) /\ m = l - 1 /\ l \in Nat /\ l >= 1
        /\ \A i \in 1 .. l - 1 : channel'[i] = channel[i + 1]
    BY <1>0, <1>2, TailFacts
  <2>2. \A i \in 1 .. l : /\ channel[i].id = NthId(sent - l + i - 1)
                          /\ \E d \in Datagrams : /\ channel[i].protocol = d.protocol
                                                  /\ channel[i].bits = d.bits
                                                  /\ channel[i].ask = d.ask
    BY DEF ChannelInv
  <2> HIDE DEF l, m
  <2>3. ASSUME NEW i \in 1 .. m
        PROVE  /\ channel'[i].id = NthId(sent' - m + i - 1)
               /\ \E d \in Datagrams : /\ channel'[i].protocol = d.protocol
                                       /\ channel'[i].bits = d.bits
                                       /\ channel'[i].ask = d.ask
    <3>1. i + 1 \in 1 .. l /\ i \in 1 .. l - 1
      BY <2>1
    <3>2. channel'[i] = channel[i + 1]
      BY <2>1, <3>1
    <3>3. sent - l + (i + 1) - 1 = sent' - m + i - 1
      BY <1>0, <2>1
    <3> QED
      BY <2>2, <3>1, <3>2, <3>3
  <2> QED
    BY <2>1, <2>3 DEF ChannelInv, m
<1> QED
  BY <1>1, <1>2

(* A step that only empties or fills the list of frames sent. *)
LEMMA Unmoved ==
    ASSUME NetInv, NEW out, Effect(net', net.ip_id, net.seq_num, net.fin_flag, out),
           replied' \in [Replies -> Nat],
           \A f \in Replies : replied'[f] = replied[f] + 0,
           UNCHANGED <<channel, sent, again, lost, announced, overfull, first>>
    PROVE  NetInv'
<1>1. NetType /\ ChannelInv /\ CopyInv /\ AnsweredOnce /\ TableInv /\ ArpTableRight
  BY DEF NetInv
<1>2. /\ net' = State(net'.arp_table, net'.ip_id, net'.send_id, net'.seq_num,
                      net'.fin_flag, net'.out)
      /\ net'.arp_table = net.arp_table /\ net'.ip_id = net.ip_id
      /\ net'.seq_num = net.seq_num /\ net'.fin_flag = net.fin_flag
  BY EffectFields
<1>3. NetType'
  BY <1>1, <1>2 DEF NetType
<1>4. ChannelInv' /\ CopyInv'
  BY <1>1, <1>2 DEF ChannelInv, CopyInv
<1>5. \A f \in Replies : replied'[f] = replied[f]
  BY <1>1 DEF NetType
<1>6. AnsweredOnce'
  BY <1>1, <1>2, <1>5, AnswersKeep
<1>7. TableInv' /\ ArpTableRight'
  BY <1>1, <1>2, TableKeeps
<1> QED
  BY <1>3, <1>4, <1>6, <1>7 DEF NetInv

-----------------------------------------------------------------------------
LEMMA PeerSendsInv ==
    ASSUME NetInv, NEW d \in Datagrams, PeerSends(d)
    PROVE  NetInv'
<1>1. NetType /\ ChannelInv /\ CopyInv /\ AnsweredOnce /\ TableInv /\ ArpTableRight
  BY DEF NetInv
<1>2. /\ channel' = Append(channel, Sent(d)) /\ sent' = sent + 1
      /\ UNCHANGED <<net, again, lost, announced, overfull, first, replied>>
  BY DEF PeerSends
<1>3. sent \in Nat /\ channel \in Seq(Packet)
  BY <1>1 DEF NetType
<1>4. /\ Sent(d).protocol = d.protocol /\ Sent(d).bits = d.bits /\ Sent(d).ask = d.ask
      /\ Sent(d).id = NthId(sent)
  BY DEF Sent
<1>5. Sent(d) \in Packet
  <2>1. /\ d.protocol \in {"TCP", "ICMP", "UDP"} /\ d.ask \in Requests \cup {"none"}
        /\ d.bits \in SUBSET {"SYN", "PSH", "ACK", "FIN"}
    BY DEF Datagrams, Datagram, Requests
  <2>2. NthId(sent) \in Nat
    BY <1>3, IdFacts
  <2> QED
    BY <2>1, <2>2 DEF Sent, Packet
<1> HIDE DEF Sent
<1>6. /\ channel' \in Seq(Packet) /\ Len(channel') = Len(channel) + 1 /\ Len(channel) \in Nat
      /\ \A i \in 1 .. Len(channel) : channel'[i] = channel[i]
      /\ channel'[Len(channel) + 1] = Sent(d)
  BY <1>2, <1>3, <1>5
<1>7. NetType'
  BY <1>1, <1>2, <1>3, <1>6 DEF NetType
<1>8. ChannelInv'
  <2>1. ASSUME NEW i \in 1 .. Len(channel')
        PROVE  /\ channel'[i].id = NthId(sent' - Len(channel') + i - 1)
               /\ \E e \in Datagrams : /\ channel'[i].protocol = e.protocol
                                       /\ channel'[i].bits = e.bits
                                       /\ channel'[i].ask = e.ask
    <3>1. CASE i \in 1 .. Len(channel)
      <4>1. channel[i].id = NthId(sent - Len(channel) + i - 1)
        BY <1>1, <3>1 DEF ChannelInv
      <4>2. sent - Len(channel) + i - 1 = sent' - Len(channel') + i - 1
        BY <1>2, <1>3, <1>6
      <4>3. \E e \in Datagrams : /\ channel[i].protocol = e.protocol
                                 /\ channel[i].bits = e.bits /\ channel[i].ask = e.ask
        BY <1>1, <3>1 DEF ChannelInv
      <4> QED
        BY <1>6, <3>1, <4>1, <4>2, <4>3
    <3>2. CASE i = Len(channel) + 1
      <4>1. channel'[i] = Sent(d)
        BY <1>6, <3>2
      <4>2. sent = sent' - Len(channel') + i - 1
        BY <1>2, <1>3, <1>6, <3>2
      <4> QED
        BY <1>4, <4>1, <4>2
    <3> QED
      BY <1>6, <3>1, <3>2
  <2> QED
    BY <2>1 DEF ChannelInv
<1>9. CopyInv'
  <2>1. sent' - Len(channel') = sent - Len(channel)
    BY <1>2, <1>3, <1>6
  <2>2. channel' # <<>>
    BY <1>6
  <2> QED
    BY <1>1, <1>2, <2>1, <2>2 DEF CopyInv
<1>10. AnsweredOnce'
  BY <1>1, <1>2, AnswersKeep
<1>11. TableInv' /\ ArpTableRight'
  BY <1>1, <1>2, TableKeeps
<1> QED
  BY <1>7, <1>8, <1>9, <1>10, <1>11 DEF NetInv

LEMMA LoseInv ==
    ASSUME NetInv, Lose
    PROVE  NetInv'
<1>1. NetType /\ ChannelInv /\ CopyInv /\ AnsweredOnce /\ TableInv /\ ArpTableRight
  BY DEF NetInv
<1>2. /\ channel # <<>> /\ channel' = Tail(channel) /\ again' = FALSE
      /\ lost' = (IF again THEN lost ELSE lost + 1) /\ lost' <= MaxLost
      /\ UNCHANGED <<net, sent, announced, overfull, first, replied>>
  BY DEF Lose
<1>3. channel' \in Seq(Packet) /\ ChannelInv'
  BY <1>1, <1>2, ChannelKeeps
<1>4. NetType'
  <2>1. lost' \in 0 .. MaxLost
    BY <1>1, <1>2, DatagramsAssumption DEF NetType
  <2> QED
    BY <1>1, <1>2, <1>3, <2>1, Zenon DEF NetType
<1>5. CopyInv'
  <2>1. Len(channel') = Len(channel) - 1 /\ Len(channel) \in Nat /\ sent \in Nat
        /\ lost \in Nat
    BY <1>1, <1>2 DEF NetType
  <2>2. CASE again
    <3>1. sent' - Len(channel') - lost' - 1 = sent - Len(channel)
      BY <1>1, <1>2, <2>1, <2>2 DEF CopyInv
    <3> QED
      BY <1>1, <1>2, <2>2, <3>1 DEF CopyInv
  <2>3. CASE ~again
    <3>1. sent' - Len(channel') - lost' - 1 = sent - Len(channel) - lost - 1
      BY <1>2, <2>1, <2>3
    <3> QED
      BY <1>1, <1>2, <2>3, <3>1 DEF CopyInv
  <2> QED
    BY <2>2, <2>3
<1>6. AnsweredOnce'
  BY <1>1, <1>2, AnswersKeep
<1>7. TableInv' /\ ArpTableRight'
  BY <1>1, <1>2, TableKeeps
<1> QED
  BY <1>3, <1>4, <1>5, <1>6, <1>7 DEF NetInv

LEMMA ReceiveOtherInv ==
    ASSUME NetInv, ReceiveOther
    PROVE  NetInv'
<1>1. NetType /\ ChannelInv /\ CopyInv /\ AnsweredOnce /\ TableInv /\ ArpTableRight
  BY DEF NetInv
<1>2. /\ Handle([type |-> "other"])
      /\ UNCHANGED <<channel, sent, again, lost, announced, overfull, first>>
  BY DEF ReceiveOther
<1>3. eth_proc(net, [type |-> "other"]) = Quiet
  BY DEF eth_proc, Quiet
<1>4. Quiet.out = <<>>
  BY <1>1, QuietEffect, EffectFields, Zenon
<1>5. /\ net' = Quiet /\ replied' \in [Replies -> Nat]
      /\ \A f \in Replies : replied'[f] = replied[f] + 0
  BY <1>1, <1>2, <1>3, <1>4, CountNone, Handled
<1> QED
  <2>1. Effect(net', net.ip_id, net.seq_num, net.fin_flag, <<>>)
    BY <1>1, <1>5, QuietEffect
  <2> QED
    BY <1>2, <1>5, <2>1, Unmoved

(* The frames of a reply, counted by kind. *)
LEMMA CountReplies ==
    ASSUME NEW f \in Replies
    PROVE  /\ Count(<<>>, f) = 0
           /\ Count(<<"arp">>, f) = 0
           /\ Count(<<"synack">>, f) = IF f = "synack" THEN 1 ELSE 0
           /\ Count(<<"ack", "http">>, f) = IF f \in {"ack", "http"} THEN 1 ELSE 0
           /\ Count(<<"fin">>, f) = IF f = "fin" THEN 1 ELSE 0
           /\ Count(<<"echo">>, f) = IF f = "echo" THEN 1 ELSE 0
<1>1. f # "arp"
  BY DEF Replies
<1> QED
  BY <1>1, CountNone, CountOne, CountTwo

LEMMA ReceiveIpInv ==
    ASSUME NetInv, NEW keep \in BOOLEAN, ReceiveIp(keep)
    PROVE  NetInv'
<1> DEFINE p == Head(channel)
           t == ipv4_proc(Quiet, p)
           l == Len(channel)
<1>1. NetType /\ ChannelInv /\ CopyInv /\ AnsweredOnce /\ TableInv /\ ArpTableRight
  BY DEF NetInv
<1>2. /\ channel # <<>> /\ Handle([type |-> "IP", pkt |-> p])
      /\ channel' = (IF keep THEN channel ELSE Tail(channel)) /\ again' = keep
      /\ lost' = 0 /\ UNCHANGED <<sent, announced, overfull>>
  BY DEF ReceiveIp
<1>3. first' = [a \in Requests |-> IF a = p.ask /\ ~again THEN first[a] + 1 ELSE first[a]]
  BY DEF ReceiveIp
<1>4. /\ channel \in Seq(Packet) /\ sent \in Nat /\ net.ip_id \in Int
      /\ net.seq_num \in Nat /\ net.fin_flag \in BOOLEAN
      /\ lost \in 0 .. MaxLost /\ again \in BOOLEAN /\ first \in [Requests -> Nat] /\ replied \in [Replies -> Nat]
  BY <1>1 DEF NetType
<1>5. l \in Nat /\ l >= 1 /\ p = channel[1] /\ p \in Packet
  BY <1>2, <1>4, TailFacts
<1>6. p.id = NthId(sent - l)
  <2>1. channel[1].id = NthId(sent - l + 1 - 1)
    BY <1>1, <1>5 DEF ChannelInv
  <2>2. sent - l + 1 - 1 = sent - l
    BY <1>4, <1>5
  <2> QED
    BY <1>5, <2>1, <2>2
<1>7. PICK d \in Datagrams : p.protocol = d.protocol /\ p.bits = d.bits /\ p.ask = d.ask
  BY <1>1, <1>5 DEF ChannelInv
<1>8. eth_proc(net, [type |-> "IP", pkt |-> p]) = t
  BY DEF eth_proc, Quiet
<1> HIDE DEF t, p, l
<1>9. first' \in [Requests -> Nat]
  BY <1>3, <1>4
<1>10. channel' \in Seq(Packet) /\ ChannelInv'
  <2>1. sent' = sent /\ (channel' = channel \/ (channel # <<>> /\ channel' = Tail(channel)))
    BY <1>2
  <2> QED
    BY <1>1, <2>1, ChannelKeeps
(* Whatever the frame does, the rest of the invariant follows from these. *)
<1>11. ASSUME NEW seq \in Nat, NEW fin \in BOOLEAN, NEW out,
              Effect(t, p.id, seq, fin, out),
              \A f \in Replies : Count(out, f) \in {0, 1}
       PROVE  /\ NetType' /\ ChannelInv' /\ CopyInv' /\ TableInv' /\ ArpTableRight'
              /\ net'.seq_num = seq /\ net'.fin_flag = fin
              /\ \A f \in Replies : replied'[f] = replied[f] + Count(out, f)
  <2>1. /\ t = State(t.arp_table, t.ip_id, t.send_id, t.seq_num, t.fin_flag, t.out)
        /\ t.arp_table = net.arp_table /\ t.ip_id = p.id /\ t.seq_num = seq
        /\ t.fin_flag = fin /\ t.out = out
    BY <1>11, EffectFields
  <2>2. /\ net' = t /\ replied' \in [Replies -> Nat]
        /\ \A f \in Replies : replied'[f] = replied[f] + Count(out, f)
    <3>1. \A f \in Replies : Count(t.out, f) \in Nat
      BY <1>11, <2>1
    <3> QED
      BY <1>1, <1>2, <1>8, <2>1, <3>1, Handled
  <2>3. NetType'
    <3>1. p.id \in Int
      BY <1>5 DEF Packet
    <3>2. /\ net'.ip_id \in Int /\ net'.seq_num \in Nat /\ net'.fin_flag \in BOOLEAN
          /\ net'.arp_table \in [Entries -> Entry]
          /\ net' = State(net'.arp_table, net'.ip_id, net'.send_id, net'.seq_num,
                          net'.fin_flag, net'.out)
      BY <1>1, <2>1, <2>2, <3>1 DEF NetType
    <3>3. sent' \in Nat /\ again' \in BOOLEAN /\ overfull' \in BOOLEAN
          /\ announced' \in [Hosts -> Macs \cup {NoMac}] /\ lost' \in 0 .. MaxLost
      BY <1>1, <1>2, DatagramsAssumption DEF NetType
    <3> QED
      BY <1>9, <1>10, <2>2, <3>2, <3>3 DEF NetType
  <2>4. CopyInv'
    <3>1. CASE keep
      BY <1>2, <1>6, <2>1, <2>2, <3>1 DEF CopyInv, l
    <3>2. CASE ~keep
      <4>1. Len(channel') = l - 1
        BY <1>2, <1>4, <3>2, TailFacts DEF l
      <4>2. sent' - Len(channel') - lost' - 1 = sent - l
        <5>1. lost' = 0 /\ sent' = sent /\ sent \in Nat /\ l \in Nat
          BY <1>2, <1>4, <1>5, Zenon
        <5> QED
          BY <4>1, <5>1
      <4> QED
        BY <1>2, <1>6, <2>1, <2>2, <3>2, <4>2 DEF CopyInv
    <3> QED
      BY <3>1, <3>2
  <2>5. TableInv' /\ ArpTableRight'
    BY <1>1, <1>2, <2>1, <2>2, TableKeeps
  <2> QED
    BY <1>10, <2>1, <2>2, <2>3, <2>4, <2>5
<1>12. CASE again
  <2>1. net.ip_id = p.id
    BY <1>1, <1>6, <1>12 DEF CopyInv, l
  <2>2. Quiet.ip_id = p.id
    BY <1>1, <2>1, QuietEffect, EffectFields, Zenon
  <2>3. t = Quiet
    BY <2>2 DEF t, ipv4_proc
  <2>4. Effect(t, p.id, net.seq_num, net.fin_flag, <<>>)
    BY <1>1, <2>1, <2>3, QuietEffect
  <2>5. /\ NetType' /\ ChannelInv' /\ CopyInv' /\ TableInv' /\ ArpTableRight'
        /\ net'.seq_num = net.seq_num /\ net'.fin_flag = net.fin_flag
        /\ \A f \in Replies : replied'[f] = replied[f] + Count(<<>>, f)
    BY <1>4, <1>11, <2>4, CountReplies
  <2>6. \A f \in Replies : replied'[f] = replied[f]
    BY <1>4, <2>5, CountReplies
  <2>7. first' = first
    BY <1>3, <1>4, <1>12
  <2>8. AnsweredOnce'
    BY <1>1, <2>5, <2>6, <2>7, AnswersKeep
  <2> QED
    BY <2>5, <2>8 DEF NetInv
<1>13. CASE ~again
  <2>1. net.ip_id # p.id
    <3>1. net.ip_id \in {-1, NthId(sent - l - lost - 1)}
      BY <1>1, <1>13 DEF CopyInv, l
    <3>2. sent - l \in Int /\ sent - l - lost - 1 \in Int
          /\ (sent - l) - (sent - l - lost - 1) \in 1 .. MaxLost + 1
      BY <1>4, <1>5, DatagramsAssumption
    <3>3. NthId(sent - l) # -1 /\ NthId(sent - l) # NthId(sent - l - lost - 1)
      BY <3>2, IdFacts, IdsApart
    <3> QED
      BY <1>6, <3>1, <3>3
  <2>2. \A a \in Requests : first'[a] = IF a = p.ask THEN first[a] + 1 ELSE first[a]
    BY <1>3, <1>13
  <2>3. \/ p.ask = "syn" /\ Effect(t, p.id, net.seq_num + 1, net.fin_flag, <<"synack">>)
        \/ p.ask = "get" /\ Effect(t, p.id, net.seq_num + 1, TRUE, <<"ack", "http">>)
        \/ p.ask = "echo" /\ Effect(t, p.id, net.seq_num, net.fin_flag, <<"echo">>)
        \/ p.ask = "none" /\ net.fin_flag
           /\ Effect(t, p.id, net.seq_num, FALSE, <<"fin">>)
        \/ p.ask = "none" /\ Effect(t, p.id, net.seq_num, net.fin_flag, <<>>)
    BY <1>1, <1>5, <1>7, <2>1, FreshDatagram, Zenon DEF t
  <2>4. net.seq_num + 1 \in Nat /\ TRUE \in BOOLEAN /\ FALSE \in BOOLEAN
    BY <1>4
  <2>5. /\ first["syn"] \in Nat /\ first["get"] \in Nat /\ first["echo"] \in Nat
        /\ replied["synack"] \in Nat /\ replied["http"] \in Nat
        /\ replied["echo"] \in Nat /\ replied["fin"] \in Nat
    BY <1>4 DEF Requests, Replies
  <2>6. /\ first'["syn"] = IF p.ask = "syn" THEN first["syn"] + 1 ELSE first["syn"]
        /\ first'["get"] = IF p.ask = "get" THEN first["get"] + 1 ELSE first["get"]
        /\ first'["echo"] = IF p.ask = "echo" THEN first["echo"] + 1 ELSE first["echo"]
    BY <2>2 DEF Requests
  <2>7. {"synack", "http", "echo", "fin"} \subseteq Replies
    BY DEF Replies
  <2>8. CASE p.ask = "syn" /\ Effect(t, p.id, net.seq_num + 1, net.fin_flag, <<"synack">>)
    <3>1. \A f \in Replies : Count(<<"synack">>, f) \in {0, 1}
      BY CountReplies
    <3>2. /\ NetType' /\ ChannelInv' /\ CopyInv' /\ TableInv' /\ ArpTableRight'
          /\ net'.seq_num = net.seq_num + 1 /\ net'.fin_flag = net.fin_flag
          /\ \A f \in Replies : replied'[f] = replied[f] + Count(<<"synack">>, f)
      BY <1>4, <1>11, <2>4, <2>8, <3>1
    <3>3. /\ replied'["synack"] = replied["synack"] + 1
          /\ replied'["http"] = replied["http"] + 0 /\ replied'["echo"] = replied["echo"] + 0
          /\ replied'["fin"] = replied["fin"] + 0
      BY <2>7, <3>2, CountReplies
    <3>4. AnsweredOnce'
      BY <1>1, <1>4, <2>5, <2>6, <2>8, <3>2, <3>3 DEF AnsweredOnce
    <3> QED
      BY <3>2, <3>4 DEF NetInv
  <2>9. CASE p.ask = "get" /\ Effect(t, p.id, net.seq_num + 1, TRUE, <<"ack", "http">>)
    <3> DEFINE yes == TRUE
    <3>0. yes \in BOOLEAN /\ Effect(t, p.id, net.seq_num + 1, yes, <<"ack", "http">>)
      BY <2>9, Zenon
    <3> HIDE DEF yes
    <3>1. \A f \in Replies : Count(<<"ack", "http">>, f) \in {0, 1}
      BY CountReplies
    <3>2. /\ NetType' /\ ChannelInv' /\ CopyInv' /\ TableInv' /\ ArpTableRight'
          /\ net'.seq_num = net.seq_num + 1 /\ net'.fin_flag = yes
          /\ \A f \in Replies : replied'[f] = replied[f] + Count(<<"ack", "http">>, f)
      BY <1>11, <2>4, <3>0, <3>1
    <3>3. /\ replied'["synack"] = replied["synack"] + 0
          /\ replied'["http"] = replied["http"] + 1 /\ replied'["echo"] = replied["echo"] + 0
          /\ replied'["fin"] = replied["fin"] + 0
      BY <2>7, <3>2, CountReplies
    <3>4. replied["fin"] <= first["get"]
      BY <1>1, <2>5 DEF AnsweredOnce
    <3>5. AnsweredOnce'
      <4>1. /\ replied["synack"] = first["syn"] /\ replied["http"] = first["get"]
            /\ replied["echo"] = first["echo"] /\ net.seq_num = first["syn"] + first["get"]
        BY <1>1 DEF AnsweredOnce
      <4>2. /\ first'["syn"] = first["syn"] /\ first'["get"] = first["get"] + 1
            /\ first'["echo"] = first["echo"]
        BY <2>6, <2>9
      <4>3. net'.seq_num = net.seq_num + 1
        BY <3>2
      <4>4. /\ replied'["synack"] = first'["syn"] /\ replied'["http"] = first'["get"]
            /\ replied'["echo"] = first'["echo"]
        BY <2>5, <3>3, <4>1, <4>2
      <4>5. net'.seq_num = first'["syn"] + first'["get"]
        BY <2>5, <4>1, <4>2, <4>3
      <4>6. replied'["fin"] + (IF net'.fin_flag THEN 1 ELSE 0) <= first'["get"]
        BY <2>5, <3>3, <3>4, <4>2
      <4> QED
        BY <4>4, <4>5, <4>6 DEF AnsweredOnce
    <3> QED
      BY <3>2, <3>5 DEF NetInv
  <2>10. CASE p.ask = "echo" /\ Effect(t, p.id, net.seq_num, net.fin_flag, <<"echo">>)
    <3>1. \A f \in Replies : Count(<<"echo">>, f) \in {0, 1}
      BY CountReplies
    <3>2. /\ NetType' /\ ChannelInv' /\ CopyInv' /\ TableInv' /\ ArpTableRight'
          /\ net'.seq_num = net.seq_num /\ net'.fin_flag = net.fin_flag
          /\ \A f \in Replies : replied'[f] = replied[f] + Count(<<"echo">>, f)
      BY <1>4, <1>11, <2>10, <3>1
    <3>3. /\ replied'["synack"] = replied["synack"] + 0
          /\ replied'["http"] = replied["http"] + 0 /\ replied'["echo"] = replied["echo"] + 1
          /\ replied'["fin"] = replied["fin"] + 0
      BY <2>7, <3>2, CountReplies
    <3>4. AnsweredOnce'
      BY <1>1, <1>4, <2>5, <2>6, <2>10, <3>2, <3>3 DEF AnsweredOnce
    <3> QED
      BY <3>2, <3>4 DEF NetInv
  <2>11. CASE /\ p.ask = "none" /\ net.fin_flag
              /\ Effect(t, p.id, net.seq_num, FALSE, <<"fin">>)
    <3> DEFINE no == FALSE
    <3>0. no \in BOOLEAN /\ Effect(t, p.id, net.seq_num, no, <<"fin">>)
      BY <2>11, Zenon
    <3> HIDE DEF no
    <3>1. \A f \in Replies : Count(<<"fin">>, f) \in {0, 1}
      BY CountReplies
    <3>2. /\ NetType' /\ ChannelInv' /\ CopyInv' /\ TableInv' /\ ArpTableRight'
          /\ net'.seq_num = net.seq_num /\ net'.fin_flag = no
          /\ \A f \in Replies : replied'[f] = replied[f] + Count(<<"fin">>, f)
      BY <1>4, <1>11, <3>0, <3>1
    <3>3. /\ replied'["synack"] = replied["synack"] + 0
          /\ replied'["http"] = replied["http"] + 0 /\ replied'["echo"] = replied["echo"] + 0
          /\ replied'["fin"] = replied["fin"] + 1
      BY <2>7, <3>2, CountReplies
    <3>4. replied["fin"] + 1 <= first["get"]
      BY <1>1, <2>5, <2>11 DEF AnsweredOnce
    <3>5. AnsweredOnce'
      BY <1>1, <1>4, <2>5, <2>6, <2>11, <3>2, <3>3, <3>4 DEF AnsweredOnce, no
    <3> QED
      BY <3>2, <3>5 DEF NetInv
  <2>12. CASE p.ask = "none" /\ Effect(t, p.id, net.seq_num, net.fin_flag, <<>>)
    <3>1. \A f \in Replies : Count(<<>>, f) \in {0, 1}
      BY CountReplies
    <3>2. /\ NetType' /\ ChannelInv' /\ CopyInv' /\ TableInv' /\ ArpTableRight'
          /\ net'.seq_num = net.seq_num /\ net'.fin_flag = net.fin_flag
          /\ \A f \in Replies : replied'[f] = replied[f] + Count(<<>>, f)
      BY <1>4, <1>11, <2>12, <3>1
    <3>3. \A f \in Replies : replied'[f] = replied[f]
      BY <1>4, <3>2, CountReplies
    <3>4. first'["syn"] = first["syn"] /\ first'["get"] = first["get"]
          /\ first'["echo"] = first["echo"]
      BY <2>6, <2>12
    <3>5. AnsweredOnce'
      BY <1>1, <2>7, <3>2, <3>3, <3>4 DEF AnsweredOnce
    <3> QED
      BY <3>2, <3>5 DEF NetInv
  <2> QED
    BY <2>3, <2>8, <2>9, <2>10, <2>11, <2>12, Zenon
<1> QED
  BY <1>4, <1>12, <1>13

-----------------------------------------------------------------------------
LEMMA LeastNatural ==
    ASSUME NEW S \in SUBSET Nat, S # {}
    PROVE  \E x \in S : \A y \in S : x <= y
<1>1. PICK x \in S : \A y \in S : ~(<<y, x>> \in OpToRel(<, Nat))
  BY NatLessThanWellFounded, WFMin, Zenon
<1>2. \A y \in S : ~(y < x)
  BY <1>1, Zenon DEF OpToRel
<1>3. \A y \in S : x <= y
  BY <1>2
<1> QED
  BY <1>3

LEMMA MinIn ==
    ASSUME NEW S \in SUBSET Nat, S # {}
    PROVE  Min(S) \in S /\ \A y \in S : Min(S) <= y
<1>1. PICK x \in S : \A y \in S : x <= y
  BY LeastNatural
<1> QED
  BY <1>1, Zenon DEF Min

(* What arp_table_update() does with an answer: it refreshes the entry of   *)
(* the host, or takes a free entry, or, when the table is full without it,  *)
(* overwrites the address of entry 0.                                       *)
Updated(T, U, h, mac) ==
    /\ U \in [Entries -> Entry]
    /\ \/ \E e \in Entries : /\ T[e].ip = h
                             /\ U[e] = [ip |-> h, mac |-> mac, use |-> T[e].use]
                             /\ \A i \in Entries \ {e} : U[i] = T[i]
       \/ \E e \in Entries : /\ ~T[e].use /\ \A i \in Entries : T[i].ip # h
                             /\ U[e] = [ip |-> h, mac |-> mac, use |-> TRUE]
                             /\ \A i \in Entries \ {e} : U[i] = T[i]
       \/ /\ \A i \in Entries : T[i].use /\ T[i].ip # h
          /\ U[0] = [ip |-> T[0].ip, mac |-> mac, use |-> T[0].use]
          /\ \A i \in Entries \ {0} : U[i] = T[i]

LEMMA TableUpdate ==
    ASSUME NEW table \in [Entries -> Entry], NEW p, p.src_ip \in Hosts, p.src_mac \in Macs
    PROVE  Updated(table, arp_table_update(table, p), p.src_ip, p.src_mac)
<1> DEFINE h == p.src_ip
           mac == p.src_mac
           found == {i \in Entries : table[i].ip = h}
           empty == {i \in Entries : ~table[i].use}
           index == arp_table_search(table, h)
           U == arp_table_update(table, p)
<1>1. Entries \subseteq Nat /\ 0 \in Entries
  BY TableAssumption DEF Entries
<1>2. \A i \in Entries : table[i] \in Entry
  OBVIOUS
<1>3. U = IF index > -1 THEN [table EXCEPT ![index].mac = mac]
          ELSE [table EXCEPT ![-(index + 1)] = [ip |-> h, mac |-> mac, use |-> TRUE]]
  BY DEF arp_table_update
<1>4. index = CASE found # {} -> Min(found)
                [] found = {} /\ empty # {} -> -Min(empty) - 1
                [] OTHER -> 0
  BY DEF arp_table_search
<1>0. h \in Hosts /\ mac \in Macs
  OBVIOUS
<1> HIDE DEF index, U, h, mac
<1>5. ASSUME NEW e \in Entries, index = e
      PROVE  /\ U \in [Entries -> Entry]
             /\ U[e] = [ip |-> table[e].ip, mac |-> mac, use |-> table[e].use]
             /\ \A i \in Entries \ {e} : U[i] = table[i]
  <2>1. U = [table EXCEPT ![e].mac = mac]
    BY <1>1, <1>3, <1>5
  <2>2. U = [table EXCEPT ![e] = [table[e] EXCEPT !.mac = mac]]
    BY <2>1
  <2>3. [table[e] EXCEPT !.mac = mac] = [ip |-> table[e].ip, mac |-> mac, use |-> table[e].use]
    BY <1>0, <1>2 DEF Entry
  <2>4. [table[e] EXCEPT !.mac = mac] \in Entry
    BY <1>0, <1>2 DEF Entry
  <2> QED
    BY <2>2, <2>3, <2>4
<1>6. CASE found # {}
  <2>1. Min(found) \in found
    BY <1>1, <1>6, MinIn
  <2> DEFINE e == Min(found)
  <2>2. e \in Entries /\ table[e].ip = h
    BY <2>1
  <2>3. index = e
    BY <1>4, <1>6
  <2> HIDE DEF e
  <2> QED
    BY <1>5, <2>2, <2>3, Zenon DEF Updated, U, h, mac
<1>7. CASE found = {} /\ empty # {}
  <2>1. Min(empty) \in empty
    BY <1>1, <1>7, MinIn
  <2> DEFINE e == Min(empty)
             new == [ip |-> h, mac |-> mac, use |-> TRUE]
  <2>2. e \in Entries /\ ~table[e].use /\ \A i \in Entries : table[i].ip # h
    BY <1>7, <2>1
  <2>3. index = -e - 1
    BY <1>4, <1>7
  <2> HIDE DEF e
  <2>4. ~(index > -1) /\ -(index + 1) = e
    BY <1>1, <2>2, <2>3
  <2>5. U = [table EXCEPT ![e] = new]
    BY <1>3, <2>4, Zenon
  <2>6. new \in Entry
    BY <1>0 DEF Entry
  <2> HIDE DEF new
  <2>7. U \in [Entries -> Entry] /\ U[e] = new /\ \A i \in Entries \ {e} : U[i] = table[i]
    BY <2>2, <2>5, <2>6
  <2> QED
    BY <2>2, <2>7, Zenon DEF Updated, U, h, mac, new
<1>8. CASE found = {} /\ empty = {}
  <2>1. index = 0
    BY <1>4, <1>8
  <2>2. \A i \in Entries : table[i].use /\ table[i].ip # h
    BY <1>8
  <2> QED
    BY <1>1, <1>5, <2>1, <2>2 DEF Updated, U, h, mac
<1> QED
  BY <1>6, <1>7, <1>8

(* The table after an answer. *)
LEMMA AnswerInv ==
    ASSUME NetInv, NEW h \in Hosts, NEW mac \in Macs, NEW p, p.src_ip = h, p.src_mac = mac,
           net'.arp_table = arp_table_update(net.arp_table, p),
           announced' = [announced EXCEPT ![h] = mac],
           overfull' = (overfull \/ /\ \A i \in Entries : net.arp_table[i].use
                                    /\ \A i \in Entries : net.arp_table[i].ip # h)
    PROVE  net'.arp_table \in [Entries -> Entry] /\ TableInv' /\ ArpTableRight'
<1> DEFINE T == net.arp_table
           U == net'.arp_table
<1>1. /\ T \in [Entries -> Entry] /\ announced \in [Hosts -> Macs \cup {NoMac}]
      /\ overfull \in BOOLEAN
  BY Zenon DEF NetInv, NetType
<1>2. \A i \in Entries : IF T[i].use THEN T[i].ip \in Hosts ELSE T[i].ip = NoHost
  BY Zenon DEF NetInv, TableInv
<1>3. /\ \A i, j \in Entries : T[i].use /\ T[j].use /\ T[i].ip = T[j].ip => i = j
      /\ \A i \in Entries : T[i].use /\ ~(overfull /\ i = 0) => T[i].mac = announced[T[i].ip]
      /\ \A g \in Hosts : announced[g] # NoMac =>
            (\E i \in Entries : T[i].use /\ T[i].ip = g) \/ overfull
  BY DEF NetInv, ArpTableRight
<1>4. /\ announced'[h] = mac
      /\ \A g \in Hosts : g # h => announced'[g] = announced[g]
  BY <1>1
<1>5. h # NoHost
  BY HostsAssumption
<1>6. Updated(T, U, h, mac)
  <2>1. U = arp_table_update(T, p)
    OBVIOUS
  <2> HIDE DEF T, U
  <2> QED
    BY <1>1, <2>1, TableUpdate, Zenon
<1>11. U \in [Entries -> Entry]
  BY <1>6 DEF Updated
<1>7. SUFFICES
        /\ \A i \in Entries : IF U[i].use THEN U[i].ip \in Hosts ELSE U[i].ip = NoHost
        /\ \A i, j \in Entries : U[i].use /\ U[j].use /\ U[i].ip = U[j].ip => i = j
        /\ \A i \in Entries :
              U[i].use /\ ~(overfull' /\ i = 0) => U[i].mac = announced'[U[i].ip]
        /\ \A g \in Hosts : announced'[g] # NoMac =>
              (\E i \in Entries : U[i].use /\ U[i].ip = g) \/ overfull'
  BY <1>11, <1>7, Zenon DEF TableInv, ArpTableRight
<1> HIDE DEF T, U
<1>8. ASSUME NEW e \in Entries, T[e].ip = h,
             U[e] = [ip |-> h, mac |-> mac, use |-> T[e].use],
             \A i \in Entries \ {e} : U[i] = T[i]
      PROVE  <1>7!1
  <2>1. T[e].use /\ U[e].ip = h /\ U[e].mac = mac /\ U[e].use
    BY <1>2, <1>5, <1>8
  <2>2. overfull' = overfull
    BY <1>1, <1>8 DEF T
  <2>3. \A i \in Entries \ {e} : T[i].use => T[i].ip # h
    BY <1>3, <1>8, <2>1
  <2>4. \A i \in Entries : i # e => U[i] = T[i]
    BY <1>8
  <2>5. \A i \in Entries : IF U[i].use THEN U[i].ip \in Hosts ELSE U[i].ip = NoHost
    BY <1>2, <2>1, <2>4
  <2>6. \A i, j \in Entries : U[i].use /\ U[j].use /\ U[i].ip = U[j].ip => i = j
    BY <1>3, <2>1, <2>3, <2>4
  <2>7. \A i \in Entries : U[i].use /\ ~(overfull' /\ i = 0) => U[i].mac = announced'[U[i].ip]
    BY <1>2, <1>3, <1>4, <2>1, <2>2, <2>3, <2>4
  <2>8. ASSUME NEW g \in Hosts, announced'[g] # NoMac
        PROVE  (\E i \in Entries : U[i].use /\ U[i].ip = g) \/ overfull'
    BY <1>2, <1>3, <1>4, <1>8, <2>1, <2>2, <2>4, <2>8
  <2> QED
    BY <2>5, <2>6, <2>7, <2>8
<1>9. ASSUME NEW e \in Entries, ~T[e].use, \A i \in Entries : T[i].ip # h,
              U[e] = [ip |-> h, mac |-> mac, use |-> TRUE],
              \A i \in Entries \ {e} : U[i] = T[i]
       PROVE  <1>7!1
  <2>1. U[e].ip = h /\ U[e].mac = mac /\ U[e].use
    BY <1>9
  <2>2. overfull' = overfull
    BY <1>1, <1>9 DEF T
  <2> QED
    BY <1>2, <1>3, <1>4, <1>9, <2>1, <2>2
<1>10. ASSUME \A i \in Entries : T[i].use /\ T[i].ip # h,
              U[0] = [ip |-> T[0].ip, mac |-> mac, use |-> T[0].use],
              \A i \in Entries \ {0} : U[i] = T[i]
       PROVE  <1>7!1
  <2>0. U[0] = [ip |-> T[0].ip, mac |-> mac, use |-> T[0].use]
    BY <1>10
  <2>1. U[0].ip = T[0].ip /\ U[0].use = T[0].use
    BY <2>0
  <2>2. overfull'
    BY <1>10, Zenon DEF T
  <2> QED
    BY <1>2, <1>3, <1>4, <1>10, <2>1, <2>2
<1> QED
  BY <1>6, <1>8, <1>9, <1>10, Zenon DEF Updated

LEMMA ReceiveArpInv ==
    ASSUME NetInv, NEW h \in Hosts, NEW mac \in Macs, NEW op \in {"REQUEST", "REPLY"},
           NEW dst, NEW ethernet \in BOOLEAN, ReceiveArp(h, mac, op, dst, ethernet)
    PROVE  NetInv'
<1> DEFINE p == [src_ip |-> h, src_mac |-> mac, op |-> op, dst_ip |-> dst,
                 ethernet |-> ethernet]
           update == ethernet /\ dst = my_ip /\ op = "REPLY"
           t == arp_proc(Quiet, p)
<1>1. NetType /\ ChannelInv /\ CopyInv /\ AnsweredOnce /\ TableInv /\ ArpTableRight
  BY DEF NetInv
<1>2. /\ Handle([type |-> "ARP", pkt |-> p])
      /\ UNCHANGED <<channel, sent, again, lost, first>>
  BY DEF ReceiveArp
<1>3. announced' = IF update THEN [announced EXCEPT ![h] = mac] ELSE announced
  BY DEF ReceiveArp
<1>4. overfull' = (overfull \/ /\ update
                               /\ \A i \in Entries : net.arp_table[i].use
                               /\ \A i \in Entries : net.arp_table[i].ip # h)
  BY DEF ReceiveArp
<1>5. eth_proc(net, [type |-> "ARP", pkt |-> p]) = t
  BY DEF eth_proc, Quiet
<1>6. p.src_ip = h /\ p.src_mac = mac /\ p.op = op /\ p.dst_ip = dst /\ p.ethernet = ethernet
  OBVIOUS
<1>7. Effect(Quiet, net.ip_id, net.seq_num, net.fin_flag, <<>>)
  BY <1>1, QuietEffect
<1> HIDE DEF p
<1>8. CASE ~update
  <2>1. announced' = announced /\ overfull' = overfull
    BY <1>1, <1>3, <1>4, <1>8 DEF NetType
  <2>2. CASE t = Quiet
    <3>1. t.out = <<>>
      <4>1. Quiet.out = <<>>
        BY <1>7, EffectFields, Zenon
      <4> QED
        BY <2>2, <4>1, Zenon
    <3>2. /\ net' = Quiet /\ replied' \in [Replies -> Nat]
          /\ \A f \in Replies : replied'[f] = replied[f] + 0
      BY <1>1, <1>2, <1>5, <2>2, <3>1, CountNone, Handled
    <3>3. Effect(net', net.ip_id, net.seq_num, net.fin_flag, <<>>)
      BY <1>7, <3>2
    <3> QED
      BY <1>2, <2>1, <3>2, <3>3, Unmoved
  <2>3. CASE t = SendFrame(Quiet, "arp")
    <3>1. Effect(t, net.ip_id, net.seq_num, net.fin_flag, <<"arp">>)
      BY <1>7, <2>3, EffectSend, AppendNone, Zenon
    <3> HIDE DEF t
    <3>2. t.out = <<"arp">>
      BY <3>1, EffectFields, Zenon
    <3>3. /\ net' = t /\ replied' \in [Replies -> Nat]
          /\ \A f \in Replies : replied'[f] = replied[f] + 0
      BY <1>1, <1>2, <1>5, <3>2, CountReplies, Handled
    <3>4. Effect(net', net.ip_id, net.seq_num, net.fin_flag, <<"arp">>)
      BY <3>1, <3>3
    <3> QED
      BY <1>2, <2>1, <3>3, <3>4, Unmoved
  <2> QED
    BY <1>6, <1>8, <2>2, <2>3 DEF arp_proc
<1>9. CASE update
  <2> DEFINE U == arp_table_update(net.arp_table, p)
  <2>1. t = [Quiet EXCEPT !.arp_table = arp_table_update(@, p)]
    BY <1>6, <1>9 DEF arp_proc
  <2>2. PICK send : Quiet = State(net.arp_table, net.ip_id, send, net.seq_num,
                                  net.fin_flag, <<>>)
    BY <1>7 DEF Effect
  <2>3. t = State(U, net.ip_id, send, net.seq_num, net.fin_flag, <<>>)
    BY <2>1, <2>2 DEF State
  <2> HIDE DEF U, t
  <2>4. /\ t.arp_table = U /\ t.ip_id = net.ip_id /\ t.seq_num = net.seq_num
        /\ t.fin_flag = net.fin_flag /\ t.out = <<>> /\ t.send_id = send
    BY <2>3 DEF State
  <2>5. /\ net' = t /\ replied' \in [Replies -> Nat]
        /\ \A f \in Replies : replied'[f] = replied[f] + 0
    BY <1>1, <1>2, <1>5, <2>4, CountNone, Handled
  <2>6. announced' = [announced EXCEPT ![h] = mac]
    BY <1>3, <1>9
  <2>7. overfull' = (overfull \/ /\ \A i \in Entries : net.arp_table[i].use
                                 /\ \A i \in Entries : net.arp_table[i].ip # h)
    BY <1>4, <1>9
  <2>8. net'.arp_table \in [Entries -> Entry] /\ TableInv' /\ ArpTableRight'
    BY <1>6, <2>4, <2>5, <2>6, <2>7, AnswerInv, Zenon DEF U
  <2>9. NetType'
    <3>1. announced' \in [Hosts -> Macs \cup {NoMac}] /\ overfull' \in BOOLEAN
      BY <1>1, <2>6, <2>7 DEF NetType
    <3>2. net' = State(net'.arp_table, net'.ip_id, net'.send_id, net'.seq_num,
                       net'.fin_flag, net'.out)
      BY <2>3, <2>4, <2>5
    <3> QED
      BY <1>1, <1>2, <2>4, <2>5, <2>8, <3>1, <3>2 DEF NetType
  <2>10. ChannelInv' /\ CopyInv'
    BY <1>1, <1>2, <2>4, <2>5 DEF ChannelInv, CopyInv
  <2>11. AnsweredOnce'
    <3>1. \A f \in Replies : replied'[f] = replied[f]
      BY <1>1, <2>5 DEF NetType
    <3> QED
      BY <1>1, <1>2, <2>4, <2>5, <3>1, AnswersKeep
  <2> QED
    BY <2>8, <2>9, <2>10, <2>11 DEF NetInv
<1> QED
  BY <1>8, <1>9

-----------------------------------------------------------------------------
LEMMA NetStepInv == NetInv /\ [NetNext]_netVars => NetInv'
<1> SUFFICES ASSUME NetInv, [NetNext]_netVars PROVE NetInv'
  OBVIOUS
<1>1. CASE NetNext
  BY <1>1, ReceiveArpInv, PeerSendsInv, ReceiveIpInv, LoseInv, ReceiveOtherInv DEF NetNext
<1>2. CASE UNCHANGED netVars
  <2>1. UNCHANGED <<net, channel, sent, again, lost, announced, overfull, first, replied>>
    BY <1>2 DEF netVars
  <2>2. NetType' /\ ChannelInv' /\ CopyInv'
    BY <2>1 DEF NetInv, NetType, ChannelInv, CopyInv
  <2>3. AnsweredOnce' /\ TableInv'
    BY <2>1 DEF NetInv, AnsweredOnce, TableInv
  <2>4. ArpTableRight'
    BY <2>1 DEF NetInv, ArpTableRight
  <2> QED
    BY <2>2, <2>3, <2>4 DEF NetInv
<1> QED
  BY <1>1, <1>2

(* Whatever one peer sends, however long, and whatever the network repeats  *)
(* or loses, up to MaxLost datagrams in a row, ipv4_proc() and tcp_proc()   *)
(* answer a datagram that arrives once, and seq_num counts the connections  *)
(* and the requests that were answered.                                     *)
THEOREM RepliesMatch == NetSpec => []AnsweredOnce
<1>1. NetInv => AnsweredOnce
  BY DEF NetInv
<1> QED
  BY NetInitInv, NetStepInv, <1>1, PTL DEF NetSpec

(* arp_table_update() keeps one entry for a host, with the address that was *)
(* announced last; only entry 0 may be wrong, and only after an answer came *)
(* while the table was full.                                                *)
THEOREM ArpTableKept == NetSpec => []ArpTableRight
<1>1. NetInv => ArpTableRight
  BY DEF NetInv
<1> QED
  BY NetInitInv, NetStepInv, <1>1, PTL DEF NetSpec
=============================================================================
