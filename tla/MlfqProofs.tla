----------------------------- MODULE MlfqProofs -----------------------------
(* Theorems about Mlfq, for any number of slots, CPUs, slices and limits.  *)
EXTENDS Mlfq, TLAPS, WellFoundedInduction

(* Zenon goes first, the solver second and with 30 seconds for a leaf. *)
USE ZenonT(5), SMTT(30)

(* A non-empty set of slots has a first slot, and Min picks a member. *)
LEMMA MinIn ==
    ASSUME NEW S \in SUBSET Nat, S # {}
    PROVE  Min(S) \in S
<1> DEFINE R == OpToRel(<, Nat)
<1>1. IsWellFoundedOn(R, Nat)
  BY NatLessThanWellFounded
<1>2. \A x, y \in Nat : y < x => <<y, x>> \in R
  BY DEF OpToRel
<1> HIDE DEF R
<1>3. PICK x \in S : \A y \in S : ~(<<y, x>> \in R)
  BY <1>1, WFMin
<1>4. ASSUME NEW y \in S PROVE x =< y
  <2>1. x \in Nat /\ y \in Nat
    OBVIOUS
  <2>2. ~(y < x)
    BY <1>2, <1>3, <2>1, Zenon
  <2> QED
    BY <2>1, <2>2
<1> QED
  BY <1>4 DEF Min

(* The round's pieces keep the table's type and touch only their fields.   *)
LEMMA CountType ==
    ASSUME NEW D, NEW f \in [D -> 0 .. CounterMax], NEW q
    PROVE  /\ Count(f, q) \in [D -> 0 .. CounterMax]
           /\ \A l \in D : /\ l # q => Count(f, q)[l] = f[l]
                           /\ Count(f, q)[l] <= f[l] + 1
  BY CounterAssumption DEF Count

(* Resetting one counter of an array keeps the array well-typed. *)
LEMMA ResetCounter ==
    ASSUME NEW D, NEW f \in [D -> 0 .. CounterMax], NEW q
    PROVE  /\ [f EXCEPT ![q] = 0] \in [D -> 0 .. CounterMax]
           /\ \A l \in D : [f EXCEPT ![q] = 0][l] = IF l = q THEN 0 ELSE f[l]
<1>1. 0 \in 0 .. CounterMax
  BY CounterAssumption
<1> QED
  BY <1>1

(* A table entry with a new priority and new tick or wait counters. *)
WithTicks(x, n, f) == [x EXCEPT !.priority = n, !.ticks = f]
WithWait(x, n, f) == [x EXCEPT !.priority = n, !.wait_ticks = f]

(* Changing priority and one array of counters keeps the rest of an entry. *)
LEMMA EntryUpdate ==
    ASSUME NEW x \in Proc, NEW n \in Levels
    PROVE  /\ \A f \in [1 .. 3 -> 0 .. CounterMax] :
                /\ WithTicks(x, n, f) \in Proc
                /\ WithTicks(x, n, f).state = x.state
                /\ WithTicks(x, n, f).wait_ticks = x.wait_ticks
                /\ WithTicks(x, n, f).ticks = f
           /\ \A f \in [0 .. 2 -> 0 .. CounterMax] :
                /\ WithWait(x, n, f) \in Proc
                /\ WithWait(x, n, f).state = x.state
                /\ WithWait(x, n, f).ticks = x.ticks
                /\ WithWait(x, n, f).wait_ticks = f
  BY DEF Proc, WithTicks, WithWait

(* Demotion in scheduler() leaves the process below its slice in every leve*)
(* or with a fresh counter, and touches nobody else.                       *)
LEMMA DemoteFacts ==
    ASSUME NEW t \in [Slots -> Proc], NEW s \in Slots
    PROVE  /\ Demote(t, s) \in [Slots -> Proc]
           /\ \A p \in Slots : /\ Demote(t, s)[p].state = t[p].state
                               /\ Demote(t, s)[p].wait_ticks = t[p].wait_ticks
                               /\ p # s => Demote(t, s)[p] = t[p]
           /\ \A q \in 1 .. 3 :
                \/ Demote(t, s)[s].ticks[q] = t[s].ticks[q]
                   /\ (q = t[s].priority => t[s].ticks[q] < Slice[q])
                \/ Demote(t, s)[s].ticks[q] = 0
<1> DEFINE q0 == t[s].priority
<1>1. q0 \in 0 .. 3 /\ t[s].ticks \in [1 .. 3 -> 0 .. CounterMax]
  BY DEF Proc, Levels
<1>2. CASE q0 > 0 /\ t[s].ticks[q0] >= Slice[q0]
  <2> DEFINE f == [t[s].ticks EXCEPT ![q0] = 0]
             r == WithTicks(t[s], q0 - 1, f)
  <2>1. Demote(t, s) = [t EXCEPT ![s] = r]
    BY <1>1, <1>2 DEF Demote, Proc, WithTicks
  <2>2. /\ f \in [1 .. 3 -> 0 .. CounterMax]
        /\ \A q \in 1 .. 3 : f[q] = IF q = q0 THEN 0 ELSE t[s].ticks[q]
    BY <1>1, ResetCounter
  <2> HIDE DEF f
  <2>3. /\ r \in Proc
        /\ r.state = t[s].state /\ r.wait_ticks = t[s].wait_ticks /\ r.ticks = f
    <3>1. q0 - 1 \in Levels
      BY <1>1, <1>2 DEF Levels
    <3>2. t[s] \in Proc
      OBVIOUS
    <3> QED
      BY <2>2, <3>1, <3>2, EntryUpdate
  <2> HIDE DEF r
  <2> QED
    BY <1>1, <1>2, <2>1, <2>2, <2>3
<1>3. CASE ~(q0 > 0 /\ t[s].ticks[q0] >= Slice[q0])
  <2>1. Demote(t, s) = t
    BY <1>3 DEF Demote
  <2> QED
    BY <1>1, <1>3, <2>1, SliceAssumption
<1> QED
  BY <1>2, <1>3

(* update_wait_ticks() changes only the wait counter of RUNNABLE processes *)
(* at their own level.                                                     *)
LEMMA UpdateFacts ==
    ASSUME NEW t \in [Slots -> Proc], NEW s \in Slots
    PROVE  LET u == UpdateWaitTicks(t, s)
           IN  /\ u \in [Slots -> Proc]
               /\ \A p \in Slots : /\ u[p].state = t[p].state
                                   /\ u[p].priority = t[p].priority
                                   /\ u[p].ticks = t[p].ticks
                                   /\ t[p].state # RUNNABLE => u[p] = t[p]
                                   /\ \A l \in 0 .. 2 : l # t[p].priority =>
                                        u[p].wait_ticks[l] = t[p].wait_ticks[l]
<1> SUFFICES ASSUME NEW p \in Slots
             PROVE  LET w == UpdateWaitTicks(t, s)[p]
                    IN  /\ w \in Proc
                        /\ w.state = t[p].state
                        /\ w.priority = t[p].priority
                        /\ w.ticks = t[p].ticks
                        /\ t[p].state # RUNNABLE => w = t[p]
                        /\ \A l \in 0 .. 2 : l # t[p].priority =>
                             w.wait_ticks[l] = t[p].wait_ticks[l]
  BY DEF UpdateWaitTicks
<1> DEFINE n == Count(t[p].wait_ticks, t[p].priority)
<1>1. /\ n \in [0 .. 2 -> 0 .. CounterMax]
      /\ \A l \in 0 .. 2 : l # t[p].priority => n[l] = t[p].wait_ticks[l]
  <2>1. t[p].wait_ticks \in [0 .. 2 -> 0 .. CounterMax]
    BY DEF Proc
  <2> QED
    BY <2>1, CountType
<1>2. UpdateWaitTicks(t, s)[p] =
        IF p # s /\ t[p].state = RUNNABLE
        THEN [t[p] EXCEPT !.wait_ticks = n] ELSE t[p]
  BY DEF UpdateWaitTicks, Proc
<1> HIDE DEF n
<1> QED
  BY <1>1, <1>2 DEF Proc

(* priority_boost() leaves no process at a wait limit it had reached. *)
LEMMA BoostFacts ==
    ASSUME NEW t \in [Slots -> Proc]
    PROVE  LET u == PriorityBoost(t)
           IN  /\ u \in [Slots -> Proc]
               /\ \A p \in Slots :
                    /\ u[p].state = t[p].state
                    /\ u[p].ticks = t[p].ticks
                    /\ t[p].state # UNUSED =>
                         \A l \in 0 .. 2 :
                           \/ u[p].wait_ticks[l] = 0
                           \/ /\ u[p].wait_ticks[l] = t[p].wait_ticks[l]
                              /\ l = t[p].priority => t[p].wait_ticks[l] < BoostLimit[l]
                    /\ t[p].state = UNUSED => u[p] = t[p]
                    /\ (\A l \in 0 .. 2 : t[p].wait_ticks[l] < BoostLimit[l])
                         => u[p] = t[p]
<1> SUFFICES ASSUME NEW p \in Slots
             PROVE  LET w == PriorityBoost(t)[p]
                    IN  /\ w \in Proc
                        /\ w.state = t[p].state
                        /\ w.ticks = t[p].ticks
                        /\ t[p].state # UNUSED =>
                             \A l \in 0 .. 2 :
                               \/ w.wait_ticks[l] = 0
                               \/ /\ w.wait_ticks[l] = t[p].wait_ticks[l]
                                  /\ l = t[p].priority => t[p].wait_ticks[l] < BoostLimit[l]
                        /\ t[p].state = UNUSED => w = t[p]
                        /\ (\A l \in 0 .. 2 : t[p].wait_ticks[l] < BoostLimit[l])
                             => w = t[p]
  BY DEF PriorityBoost
<1> DEFINE q == t[p].priority
           b == t[p].state # UNUSED /\ q < 3 /\ t[p].wait_ticks[q] >= BoostLimit[q]
           f == [t[p].wait_ticks EXCEPT ![q] = 0]
           r == WithWait(t[p], q + 1, f)
<1>1. PriorityBoost(t)[p] = IF b THEN r ELSE t[p]
  BY DEF PriorityBoost, WithWait
<1>2. q \in 0 .. 3 /\ t[p].wait_ticks \in [0 .. 2 -> 0 .. CounterMax]
  BY DEF Proc, Levels
<1>3. CASE b
  <2>1. /\ f \in [0 .. 2 -> 0 .. CounterMax]
        /\ \A l \in 0 .. 2 : f[l] = IF l = q THEN 0 ELSE t[p].wait_ticks[l]
    BY <1>2, ResetCounter
  <2> HIDE DEF f
  <2>2. /\ r \in Proc
        /\ r.state = t[p].state /\ r.ticks = t[p].ticks /\ r.wait_ticks = f
    <3>1. q + 1 \in Levels
      BY <1>2, <1>3 DEF Levels
    <3>2. t[p] \in Proc
      OBVIOUS
    <3> QED
      BY <2>1, <3>1, <3>2, EntryUpdate
  <2> HIDE DEF r
  <2> QED
    BY <1>1, <1>2, <1>3, <2>1, <2>2, BoostAssumption
<1>4. CASE ~b
  <2>1. PriorityBoost(t)[p] = t[p]
    BY <1>1, <1>4
  <2>2. t[p].state # UNUSED => \A l \in 0 .. 2 : l = q => t[p].wait_ticks[l] < BoostLimit[l]
    <3>1. ASSUME NEW l \in 0 .. 2, l = q
          PROVE  q < 3 /\ t[p].wait_ticks[l] \in Nat /\ BoostLimit[l] \in Nat
      BY <1>2, <3>1, BoostAssumption
    <3> QED
      BY <1>4, <3>1
  <2> QED
    BY <2>1, <2>2, Zenon
<1> QED
  BY <1>3, <1>4

(* The table with the state of slot p replaced. *)
WithState(t, p, s) == [t EXCEPT ![p].state = s]

(* Setting p->state changes nothing else in the table. *)
LEMMA StateFacts ==
    ASSUME NEW t \in [Slots -> Proc], NEW p \in Slots, NEW s \in States
    PROVE  /\ WithState(t, p, s) \in [Slots -> Proc]
           /\ \A r \in Slots :
                /\ WithState(t, p, s)[r].state = IF r = p THEN s ELSE t[r].state
                /\ WithState(t, p, s)[r].priority = t[r].priority
                /\ WithState(t, p, s)[r].ticks = t[r].ticks
                /\ WithState(t, p, s)[r].wait_ticks = t[r].wait_ticks
  BY DEF WithState, Proc

(* scheduler()'s searches return a runnable slot when there is one. *)
LEMMA FirstRunnable ==
    ASSUME NEW S, S \subseteq Slots, S # {}
    PROVE  Min(S) \in S
<1>1. S \in SUBSET Nat
  BY NPROCAssumption DEF Slots
<1> QED
  BY <1>1, MinIn

(* The MLFQ search of scheduler() finds a RUNNABLE slot if there is one. *)
LEMMA SelectRunnable ==
    ASSUME NEW t \in [Slots -> Proc], Runnable(t) # {}
    PROVE  Select(t) \in Runnable(t)
<1> DEFINE Top == {p \in Runnable(t) :
                     \A q \in Runnable(t) : t[q].priority <= t[p].priority}
<1>1. \A p \in Slots : t[p].priority \in 0 .. 3
  BY DEF Proc, Levels
<1>2. Runnable(t) \subseteq Slots
  BY DEF Runnable
<1> HIDE DEF Runnable
<1>3. Top # {}
  <2>1. PICK a \in Runnable(t) : TRUE
    OBVIOUS
  <2>2. CASE \E p \in Runnable(t) : t[p].priority = 3
    BY <1>1, <1>2, <2>2
  <2>3. CASE /\ ~ \E p \in Runnable(t) : t[p].priority = 3
             /\ \E p \in Runnable(t) : t[p].priority = 2
    BY <1>1, <1>2, <2>3
  <2>4. CASE /\ ~ \E p \in Runnable(t) : t[p].priority \in {2, 3}
             /\ \E p \in Runnable(t) : t[p].priority = 1
    BY <1>1, <1>2, <2>4
  <2>5. CASE ~ \E p \in Runnable(t) : t[p].priority \in {1, 2, 3}
    <3>1. \A p \in Runnable(t) : t[p].priority = 0
      BY <1>1, <1>2, <2>5
    <3>2. a \in Top
      BY <2>1, <3>1
    <3> QED
      BY <3>2
  <2> QED
    BY <2>2, <2>3, <2>4, <2>5
<1>4. Min(Top) \in Top
  BY <1>2, <1>3, FirstRunnable
<1> QED
  BY <1>4 DEF Select

(* One MLFQ round after process s came back: only s can lose a level and   *)
(* have a tick counter reset, and no wait counter is left at its limit.    *)
LEMMA EpilogueFacts ==
    ASSUME NEW t \in [Slots -> Proc], NEW s \in Slots,
           \A p \in Slots, q \in 0 .. 2 : t[p].wait_ticks[q] < BoostLimit[q]
    PROVE  /\ MlfqEpilogue(t, s) \in [Slots -> Proc]
           /\ \A p \in Slots :
                /\ MlfqEpilogue(t, s)[p].state = t[p].state
                /\ \A q \in 0 .. 2 :
                     MlfqEpilogue(t, s)[p].wait_ticks[q] < BoostLimit[q]
                /\ p # s => MlfqEpilogue(t, s)[p].ticks = t[p].ticks
                /\ p # s /\ t[p].state # RUNNABLE =>
                     MlfqEpilogue(t, s)[p] = t[p]
           /\ \A q \in 1 .. 3 :
                \/ /\ MlfqEpilogue(t, s)[s].ticks[q] = t[s].ticks[q]
                   /\ q = t[s].priority => t[s].ticks[q] < Slice[q]
                \/ MlfqEpilogue(t, s)[s].ticks[q] = 0
<1> DEFINE d == Demote(t, s)
           w == UpdateWaitTicks(d, s)
           u == PriorityBoost(w)
<1>1. MlfqEpilogue(t, s) = u
  BY DEF MlfqEpilogue
<1>2. /\ d \in [Slots -> Proc]
      /\ \A p \in Slots : /\ d[p].state = t[p].state
                          /\ d[p].wait_ticks = t[p].wait_ticks
                          /\ p # s => d[p] = t[p]
      /\ \A q \in 1 .. 3 : \/ d[s].ticks[q] = t[s].ticks[q]
                              /\ (q = t[s].priority => t[s].ticks[q] < Slice[q])
                           \/ d[s].ticks[q] = 0
  BY DemoteFacts
<1> HIDE DEF d
<1>3. /\ w \in [Slots -> Proc]
      /\ \A p \in Slots : /\ w[p].state = d[p].state
                          /\ w[p].priority = d[p].priority
                          /\ w[p].ticks = d[p].ticks
                          /\ d[p].state # RUNNABLE => w[p] = d[p]
                          /\ \A l \in 0 .. 2 : l # d[p].priority =>
                               w[p].wait_ticks[l] = d[p].wait_ticks[l]
  BY <1>2, UpdateFacts, ZenonT(60)
<1> HIDE DEF w
<1>4. /\ u \in [Slots -> Proc]
      /\ \A p \in Slots :
           /\ u[p].state = w[p].state
           /\ u[p].ticks = w[p].ticks
           /\ w[p].state # UNUSED =>
                \A l \in 0 .. 2 :
                  \/ u[p].wait_ticks[l] = 0
                  \/ /\ u[p].wait_ticks[l] = w[p].wait_ticks[l]
                     /\ l = w[p].priority => w[p].wait_ticks[l] < BoostLimit[l]
           /\ w[p].state = UNUSED => u[p] = w[p]
           /\ (\A l \in 0 .. 2 : w[p].wait_ticks[l] < BoostLimit[l])
                => u[p] = w[p]
  BY <1>3, BoostFacts
<1> HIDE DEF u
<1>5. ASSUME NEW p \in Slots, NEW q \in 0 .. 2
      PROVE  u[p].wait_ticks[q] < BoostLimit[q]
  <2>1. CASE w[p].state = UNUSED
    <3>1. w[p] = d[p]
      BY <1>3, <2>1 DEF UNUSED, RUNNABLE
    <3> QED
      BY <1>2, <1>4, <2>1, <3>1
  <2>2. CASE w[p].state # UNUSED
    <3>1. 0 < BoostLimit[q]
      BY BoostAssumption
    <3>2. ASSUME q # w[p].priority PROVE w[p].wait_ticks[q] < BoostLimit[q]
      <4>1. w[p].wait_ticks[q] = d[p].wait_ticks[q]
        BY <1>3, <3>2, Zenon
      <4>2. d[p].wait_ticks = t[p].wait_ticks
        BY <1>2, Zenon
      <4> QED
        BY <4>1, <4>2, Zenon
    <3>3. \/ u[p].wait_ticks[q] = 0
          \/ /\ u[p].wait_ticks[q] = w[p].wait_ticks[q]
             /\ q = w[p].priority => w[p].wait_ticks[q] < BoostLimit[q]
      BY <1>4, <2>2, Zenon
    <3> QED
      BY <3>1, <3>2, <3>3, Zenon
  <2> QED
    BY <2>1, <2>2
<1>6. ASSUME NEW p \in Slots, p # s, t[p].state # RUNNABLE
      PROVE  u[p] = t[p]
  <2>1. w[p] = t[p]
    BY <1>2, <1>3, <1>6
  <2> QED
    BY <1>4, <2>1
<1>7. /\ \A p \in Slots : /\ u[p].state = t[p].state
                          /\ p # s => u[p].ticks = t[p].ticks
      /\ u[s].ticks = d[s].ticks
  <2>1. ASSUME NEW p \in Slots
        PROVE  u[p].state = d[p].state /\ u[p].ticks = d[p].ticks
    BY <1>3, <1>4, Zenon
  <2>2. ASSUME NEW p \in Slots
        PROVE  d[p].state = t[p].state /\ (p # s => d[p].ticks = t[p].ticks)
    BY <1>2, Zenon
  <2> QED
    BY <2>1, <2>2, Zenon
<1>8. \A q \in 1 .. 3 : \/ /\ u[s].ticks[q] = t[s].ticks[q]
                           /\ q = t[s].priority => t[s].ticks[q] < Slice[q]
                        \/ u[s].ticks[q] = 0
  BY <1>2, <1>7
<1> QED
  BY <1>1, <1>4, <1>5, <1>6, <1>7, <1>8

-----------------------------------------------------------------------------
(* The four invariants are inductive together: Quota needs WaitBound (a    *)
(* boost never moves a running process), and both need RunningOnce.        *)
IInv == TypeOK /\ RunningOnce /\ WaitBound /\ Quota

(* What a table u must satisfy to replace pt when CPU c leaves its current *)
(* process, if any, behind in state s.                                     *)
LeftBehind(c, s, u) ==
    /\ u \in [Slots -> Proc]
    /\ \A p \in Slots : u[p].state = IF p = proc[c] THEN s ELSE pt[p].state
    /\ \A p \in Slots, q \in 0 .. 2 : u[p].wait_ticks[q] < BoostLimit[q]
    /\ \A p \in Slots \ rrTicked, q \in 1 .. 3 :
         p = proc[c] => u[p].ticks[q] < Slice[q]
    /\ \A p \in Slots : p # proc[c] =>
         /\ u[p].ticks = pt[p].ticks
         /\ pt[p].state = RUNNING => u[p].priority = pt[p].priority

(* The end of a scheduling round keeps the invariant. *)
LEMMA EndRoundStep ==
    ASSUME IInv, NEW c \in CPUs, NEW s \in States \ {RUNNING}, NEW u,
           LeftBehind(c, s, u), EndRound(c, u), UNCHANGED <<policy, rrTicked>>
    PROVE  IInv'
<1> USE DEF IInv
<1>1. TypeOK'
  BY DEF TypeOK, EndRound, LeftBehind, NoProc
<1>2. RunningOnce'
  <2>1. \A d \in CPUs : d # c => proc'[d] = proc[d]
    BY DEF EndRound, TypeOK
  <2>2. proc'[c] = NoProc /\ NoProc \notin Slots
    BY DEF EndRound, TypeOK, NoProc, Slots
  <2>3. \A p \in Slots : pt'[p].state = IF p = proc[c] THEN s ELSE pt[p].state
    BY DEF EndRound, LeftBehind
  <2> QED
    BY <2>1, <2>2, <2>3 DEF RunningOnce
<1>3. WaitBound'
  BY DEF WaitBound, EndRound, LeftBehind
<1>4. Quota'
  <2> SUFFICES ASSUME NEW p \in Slots \ rrTicked, NEW q \in 1 .. 3
               PROVE  \/ u[p].ticks[q] < Slice[q]
                      \/ /\ u[p].ticks[q] = Slice[q]
                         /\ q = u[p].priority
                         /\ \E d \in CPUs : /\ proc'[d] = p
                                            /\ at'[d] = "tick"
                                            /\ branch'[d] = "mlfq"
    BY DEF Quota, EndRound
  <2>1. CASE p = proc[c]
    BY <2>1 DEF LeftBehind
  <2>2. CASE p # proc[c] /\ pt[p].ticks[q] < Slice[q]
    BY <2>2 DEF LeftBehind
  <2>3. CASE p # proc[c] /\ ~(pt[p].ticks[q] < Slice[q])
    <3>1. PICK d \in CPUs : proc[d] = p /\ at[d] = "tick" /\ branch[d] = "mlfq"
      BY <2>3 DEF Quota
    <3>2. pt[p].ticks[q] = Slice[q] /\ q = pt[p].priority
      BY <2>3 DEF Quota
    <3>3. u[p].ticks = pt[p].ticks /\ u[p].priority = pt[p].priority
      BY <2>3, <3>1 DEF LeftBehind, RunningOnce
    <3>4. proc'[d] = p /\ at'[d] = "tick" /\ branch'[d] = "mlfq"
      BY <2>3, <3>1 DEF EndRound, TypeOK
    <3> QED
      BY <3>2, <3>3, <3>4
  <2> QED
    BY <2>1, <2>2, <2>3
<1> QED
  BY <1>1, <1>2, <1>3, <1>4

(* Switching to a RUNNABLE process keeps the invariant. *)
LEMMA SwitchToStep ==
    ASSUME IInv, NEW c \in CPUs, NEW s \in States \ {RUNNING}, NEW u,
           LeftBehind(c, s, u), NEW m \in Runnable(u),
           NEW b \in {"mlfq", "rr"},
           SwitchTo(c, u, m, b), UNCHANGED <<policy, rrTicked>>
    PROVE  IInv'
<1> USE DEF IInv
<1> DEFINE v == WithState(u, m, RUNNING)
<1>1. m \in Slots /\ u[m].state = RUNNABLE /\ m # NoProc
  BY DEF Runnable, NoProc, Slots
<1>2. /\ pt' = v
      /\ proc' = [proc EXCEPT ![c] = m]
      /\ at' = [at EXCEPT ![c] = "run"]
      /\ branch' = [branch EXCEPT ![c] = b]
  BY DEF SwitchTo, WithState
<1>3. /\ v \in [Slots -> Proc]
      /\ \A r \in Slots : /\ v[r].state = IF r = m THEN RUNNING ELSE u[r].state
                          /\ v[r].priority = u[r].priority
                          /\ v[r].ticks = u[r].ticks
                          /\ v[r].wait_ticks = u[r].wait_ticks
  BY <1>1, StateFacts DEF LeftBehind, States
<1> HIDE DEF v
<1>4. \A d \in CPUs : d # c => proc[d] # m
  <2>1. m # proc[c] => pt[m].state = RUNNABLE
    BY <1>1 DEF LeftBehind
  <2> QED
    BY <1>1, <2>1 DEF RunningOnce, RUNNABLE, RUNNING
<1>5. TypeOK'
  BY <1>1, <1>2, <1>3 DEF TypeOK, NoProc
<1>6. RunningOnce'
  <2>1. /\ \A d \in CPUs : d # c => proc'[d] = proc[d]
        /\ proc'[c] = m
    BY <1>2 DEF TypeOK
  <2>2. \A p \in Slots : pt'[p].state = IF p = m THEN RUNNING
                                       ELSE IF p = proc[c] THEN s ELSE pt[p].state
    BY <1>2, <1>3 DEF LeftBehind
  <2>3. NoProc \notin Slots
    BY DEF NoProc, Slots
  <2>4. \A d, e \in CPUs : proc'[d] = proc'[e] /\ proc'[d] # NoProc => d = e
    BY <1>1, <1>4, <2>1 DEF RunningOnce
  <2>5. ASSUME NEW p \in Slots
        PROVE  pt'[p].state = RUNNING <=> \E d \in CPUs : proc'[d] = p
    <3>1. CASE p = m
      BY <2>1, <2>2, <3>1
    <3>2. CASE p # m /\ p = proc[c]
      BY <2>1, <2>2, <2>3, <3>2 DEF RunningOnce
    <3>3. CASE p # m /\ p # proc[c]
      BY <2>1, <2>2, <3>3 DEF RunningOnce
    <3> QED
      BY <3>1, <3>2, <3>3
  <2> QED
    BY <2>4, <2>5 DEF RunningOnce
<1>7. WaitBound'
  BY <1>2, <1>3 DEF WaitBound, LeftBehind
<1>8. Quota'
  <2> SUFFICES ASSUME NEW p \in Slots \ rrTicked, NEW q \in 1 .. 3
               PROVE  \/ u[p].ticks[q] < Slice[q]
                      \/ /\ u[p].ticks[q] = Slice[q]
                         /\ q = u[p].priority
                         /\ \E d \in CPUs : /\ proc'[d] = p
                                            /\ at'[d] = "tick"
                                            /\ branch'[d] = "mlfq"
    BY <1>2, <1>3 DEF Quota
  <2>1. CASE p = proc[c]
    BY <2>1 DEF LeftBehind
  <2>2. CASE p # proc[c] /\ pt[p].ticks[q] < Slice[q]
    BY <2>2 DEF LeftBehind
  <2>3. CASE p # proc[c] /\ ~(pt[p].ticks[q] < Slice[q])
    <3>1. PICK d \in CPUs : proc[d] = p /\ at[d] = "tick" /\ branch[d] = "mlfq"
      BY <2>3 DEF Quota
    <3>2. pt[p].ticks[q] = Slice[q] /\ q = pt[p].priority
      BY <2>3 DEF Quota
    <3>3. u[p].ticks = pt[p].ticks /\ u[p].priority = pt[p].priority
      BY <2>3, <3>1 DEF LeftBehind, RunningOnce
    <3>4. proc'[d] = p /\ at'[d] = "tick" /\ branch'[d] = "mlfq"
      BY <1>2, <2>3, <3>1 DEF TypeOK
    <3> QED
      BY <3>2, <3>3, <3>4
  <2> QED
    BY <2>1, <2>2, <2>3
<1> QED
  BY <1>5, <1>6, <1>7, <1>8

(* scheduler() choosing a process keeps the invariant, under either policy. *)
LEMMA DispatchStep ==
    ASSUME IInv, NEW c \in CPUs, Dispatch(c)
    PROVE  IInv'
<1>1. pt \in [Slots -> Proc] /\ proc[c] \notin Slots
  BY DEF IInv, TypeOK, Dispatch, NoProc, Slots
<1>2. LeftBehind(c, RUNNABLE, pt)
  BY <1>1 DEF IInv, WaitBound, LeftBehind
<1>3. Select(pt) \in Runnable(pt) /\ Min(Runnable(pt)) \in Runnable(pt)
  <2>1. Runnable(pt) # {} /\ Runnable(pt) \subseteq Slots
    BY DEF Dispatch, Runnable
  <2> QED
    BY <1>1, <2>1, SelectRunnable, FirstRunnable
<1>4. UNCHANGED <<policy, rrTicked>>
  BY DEF Dispatch
<1>5. RUNNABLE \in States \ {RUNNING}
  BY DEF States, RUNNABLE, RUNNING
<1>6. CASE policy[c] \in {1, 2}
  <2>1. SwitchTo(c, pt, Select(pt), "mlfq")
    BY <1>6 DEF Dispatch
  <2> QED
    BY <1>2, <1>3, <1>4, <1>5, <2>1, SwitchToStep
<1>7. CASE policy[c] \notin {1, 2}
  <2>1. SwitchTo(c, pt, Min(Runnable(pt)), "rr")
    BY <1>7 DEF Dispatch
  <2> QED
    BY <1>2, <1>3, <1>4, <1>5, <2>1, SwitchToStep
<1> QED
  BY <1>6, <1>7

(* The return to scheduler() with its demotion, wait counting and boost    *)
(* keeps the invariant.                                                    *)
LEMMA SwitchBackStep ==
    ASSUME IInv, NEW c \in CPUs, NEW s \in States \ {RUNNING},
           at[c] # "loop", SwitchBack(c, s), UNCHANGED <<policy, rrTicked>>
    PROVE  IInv'
<1> DEFINE p == proc[c]
           t == WithState(pt, p, s)
           rest == {q \in Runnable(t) : q > p}
<1>1. /\ pt \in [Slots -> Proc]
      /\ p \in Slots
      /\ branch[c] \in {"mlfq", "rr"}
  BY DEF IInv, TypeOK
<1>2. /\ t \in [Slots -> Proc]
      /\ \A r \in Slots : /\ t[r].state = IF r = p THEN s ELSE pt[r].state
                          /\ t[r].priority = pt[r].priority
                          /\ t[r].ticks = pt[r].ticks
                          /\ t[r].wait_ticks = pt[r].wait_ticks
  BY <1>1, StateFacts
<1>3. \/ branch[c] = "mlfq" /\ EndRound(c, MlfqEpilogue(t, p))
      \/ branch[c] = "rr" /\ rest = {} /\ EndRound(c, t)
      \/ branch[c] = "rr" /\ rest # {} /\ SwitchTo(c, t, Min(rest), "rr")
  BY DEF SwitchBack, WithState
<1> HIDE DEF t
(* Only a process charged in the MLFQ branch can stand at its slice. *)
<1>4. ASSUME NEW q \in 1 .. 3, p \notin rrTicked,
             branch[c] = "rr" \/ q # pt[p].priority
      PROVE  pt[p].ticks[q] < Slice[q]
  <2>1. \A d \in CPUs : proc[d] = p => d = c
    BY <1>1 DEF IInv, RunningOnce, NoProc, Slots
  <2> QED
    BY <1>1, <1>4, <2>1 DEF IInv, Quota
<1>5. CASE branch[c] = "mlfq"
  <2> DEFINE u == MlfqEpilogue(t, p)
  <2>1. \A r \in Slots, q \in 0 .. 2 : t[r].wait_ticks[q] < BoostLimit[q]
    BY <1>2 DEF IInv, WaitBound
  <2>2. /\ u \in [Slots -> Proc]
        /\ \A r \in Slots : /\ u[r].state = t[r].state
                            /\ \A q \in 0 .. 2 : u[r].wait_ticks[q] < BoostLimit[q]
                            /\ r # p => u[r].ticks = t[r].ticks
                            /\ r # p /\ t[r].state # RUNNABLE => u[r] = t[r]
        /\ \A q \in 1 .. 3 :
             \/ /\ u[p].ticks[q] = t[p].ticks[q]
                /\ q = t[p].priority => t[p].ticks[q] < Slice[q]
             \/ u[p].ticks[q] = 0
    BY <1>1, <1>2, <2>1, EpilogueFacts, ZenonT(60)
  <2>3. EndRound(c, u)
    BY <1>3, <1>5, Zenon
  <2> HIDE DEF u
  <2>4. \A q \in 1 .. 3 : p \notin rrTicked => u[p].ticks[q] < Slice[q]
    <3>1. \A q \in 1 .. 3 : 0 < Slice[q]
      BY SliceAssumption
    <3>2. ASSUME NEW q \in 1 .. 3, p \notin rrTicked, q # pt[p].priority
          PROVE  pt[p].ticks[q] < Slice[q]
      BY <1>4, <3>2, Zenon
    <3>3. t[p].ticks = pt[p].ticks /\ t[p].priority = pt[p].priority
      BY <1>1, <1>2, Zenon
    <3>4. ASSUME NEW q \in 1 .. 3, p \notin rrTicked
          PROVE  u[p].ticks[q] < Slice[q]
      <4>1. \/ /\ u[p].ticks[q] = pt[p].ticks[q]
               /\ q = pt[p].priority => pt[p].ticks[q] < Slice[q]
            \/ u[p].ticks[q] = 0
        BY <2>2, <3>3, Zenon
      <4> QED
        BY <3>1, <3>2, <3>4, <4>1, Zenon
    <3> QED
      BY <3>4, Zenon
  <2>5. ASSUME NEW r \in Slots, r # p, pt[r].state = RUNNING
        PROVE  u[r].priority = pt[r].priority
    <3>1. t[r].state = RUNNING /\ t[r].priority = pt[r].priority
      BY <1>2, <2>5, Zenon
    <3>2. u[r] = t[r]
      BY <2>2, <2>5, <3>1, Zenon DEF RUNNING, RUNNABLE
    <3> QED
      BY <3>1, <3>2, Zenon
  <2>6. LeftBehind(c, s, u)
    <3>1. ASSUME NEW r \in Slots PROVE u[r].state = IF r = p THEN s ELSE pt[r].state
      <4>1. u[r].state = t[r].state
        BY <2>2, Zenon
      <4>2. t[r].state = IF r = p THEN s ELSE pt[r].state
        BY <1>2, Zenon
      <4> QED
        BY <4>1, <4>2, Zenon
    <3>2. \A r \in Slots, q \in 0 .. 2 : u[r].wait_ticks[q] < BoostLimit[q]
      BY <2>2, Zenon
    <3>3. \A r \in Slots \ rrTicked, q \in 1 .. 3 : r = p => u[r].ticks[q] < Slice[q]
      BY <2>4, Zenon
    <3>4. \A r \in Slots : r # p => u[r].ticks = pt[r].ticks
      BY <1>2, <2>2, Zenon
    <3> QED
      BY <2>2, <2>5, <3>1, <3>2, <3>3, <3>4, Zenon DEF LeftBehind
  <2> QED
    BY <2>3, <2>6, EndRoundStep
<1>6. CASE branch[c] = "rr"
  <2>1. LeftBehind(c, s, t)
    <3>1. \A q \in 1 .. 3 : p \notin rrTicked => t[p].ticks[q] < Slice[q]
      BY <1>1, <1>2, <1>4, <1>6
    <3>2. \A r \in Slots, q \in 0 .. 2 : t[r].wait_ticks[q] < BoostLimit[q]
      BY <1>2 DEF IInv, WaitBound
    <3> QED
      BY <1>2, <3>1, <3>2 DEF LeftBehind
  <2>2. CASE rest = {}
    BY <1>3, <1>6, <2>1, <2>2, EndRoundStep
  <2>3. CASE rest # {}
    <3>1. rest \subseteq Slots /\ rest \subseteq Runnable(t)
      BY DEF Runnable
    <3>2. Min(rest) \in Runnable(t)
      BY <2>3, <3>1, FirstRunnable
    <3>3. SwitchTo(c, t, Min(rest), "rr")
      BY <1>3, <1>6, <2>3
    <3> QED
      BY <2>1, <3>2, <3>3, SwitchToStep
  <2> QED
    BY <2>2, <2>3
<1> QED
  BY <1>1, <1>5, <1>6

(* A timer tick charged to the running process keeps the invariant. *)
LEMMA TimerTickStep ==
    ASSUME IInv, NEW c \in CPUs, TimerTick(c)
    PROVE  IInv'
<1> USE DEF IInv
<1> DEFINE p == proc[c]
           q0 == pt[p].priority
           f == Count(pt[p].ticks, q0)
<1>1. /\ pt \in [Slots -> Proc] /\ p \in Slots
      /\ at[c] = "run" /\ branch[c] \in {"mlfq", "rr"}
  BY DEF TypeOK, TimerTick
<1>2. /\ pt[p].ticks \in [1 .. 3 -> 0 .. CounterMax]
      /\ f \in [1 .. 3 -> 0 .. CounterMax]
      /\ \A q \in 1 .. 3 : /\ q # q0 => f[q] = pt[p].ticks[q]
                           /\ f[q] <= pt[p].ticks[q] + 1
  <2>1. pt[p].ticks \in [1 .. 3 -> 0 .. CounterMax]
    BY <1>1 DEF Proc
  <2> QED
    BY <2>1, CountType
<1>3. pt' = [pt EXCEPT ![p] = [pt[p] EXCEPT !.ticks = f]]
  BY <1>1 DEF TimerTick
<1> HIDE DEF f
<1>4. /\ pt' \in [Slots -> Proc]
      /\ \A r \in Slots : /\ pt'[r].state = pt[r].state
                          /\ pt'[r].priority = pt[r].priority
                          /\ pt'[r].wait_ticks = pt[r].wait_ticks
                          /\ pt'[r].ticks = IF r = p THEN f ELSE pt[r].ticks
  <2> DEFINE w == [pt[p] EXCEPT !.ticks = f]
  <2>1. /\ w \in Proc /\ w.state = pt[p].state /\ w.priority = pt[p].priority
        /\ w.wait_ticks = pt[p].wait_ticks /\ w.ticks = f
    BY <1>1, <1>2 DEF Proc
  <2>2. pt' = [pt EXCEPT ![p] = w]
    BY <1>3
  <2> HIDE DEF w
  <2>3. pt' \in [Slots -> Proc]
    BY <1>1, <2>1, <2>2
  <2>4. \A r \in Slots : pt'[r] = IF r = p THEN w ELSE pt[r]
    BY <1>1, <2>2
  <2> QED
    BY <2>1, <2>3, <2>4, Zenon
<1>5. /\ at' = [at EXCEPT ![c] = "tick"]
      /\ rrTicked' = IF branch[c] = "rr" THEN rrTicked \cup {p} ELSE rrTicked
      /\ UNCHANGED <<policy, proc, branch>>
  BY DEF TimerTick
<1>6. TypeOK'
  BY <1>1, <1>4, <1>5 DEF TypeOK
<1>7. RunningOnce'
  BY <1>4, <1>5 DEF RunningOnce
<1>8. WaitBound'
  BY <1>4 DEF WaitBound
<1>9. Quota'
  <2> SUFFICES ASSUME NEW r \in Slots, r \notin rrTicked', NEW q \in 1 .. 3
               PROVE  \/ pt'[r].ticks[q] < Slice[q]
                      \/ /\ pt'[r].ticks[q] = Slice[q]
                         /\ q = pt'[r].priority
                         /\ \E d \in CPUs : /\ proc'[d] = r
                                            /\ at'[d] = "tick"
                                            /\ branch'[d] = "mlfq"
    BY DEF Quota
  <2>1. r \notin rrTicked
    BY <1>5
  <2>2. CASE r = p
    <3>1. branch[c] = "mlfq"
      BY <1>1, <1>5, <2>2
    <3>2. \A d \in CPUs : proc[d] = p => d = c
      BY <1>1 DEF RunningOnce, NoProc, Slots
    <3>3. pt[p].ticks[q] < Slice[q]
      BY <1>1, <2>1, <2>2, <3>2 DEF Quota
    <3>4. proc'[c] = r /\ at'[c] = "tick" /\ branch'[c] = "mlfq"
      BY <1>5, <2>2, <3>1 DEF TypeOK
    <3>5. /\ f[q] \in Nat /\ pt[p].ticks[q] \in Nat /\ Slice[q] \in Nat
          /\ f[q] <= pt[p].ticks[q] + 1
          /\ q # q0 => f[q] = pt[p].ticks[q]
      <4>0. 0 .. CounterMax \subseteq Nat
        OBVIOUS
      <4>1. f[q] \in Nat /\ pt[p].ticks[q] \in Nat
        BY <1>2, <4>0, Zenon
      <4>2. Slice[q] \in Nat
        BY SliceAssumption
      <4> QED
        BY <1>2, <4>1, <4>2, Zenon
    <3>6. pt'[r].ticks = f /\ pt'[r].priority = q0
      BY <1>4, <2>2
    <3> QED
      BY <3>3, <3>4, <3>5, <3>6
  <2>3. CASE r # p /\ pt[r].ticks[q] < Slice[q]
    BY <1>4, <2>3
  <2>4. CASE r # p /\ ~(pt[r].ticks[q] < Slice[q])
    <3>1. PICK d \in CPUs : proc[d] = r /\ at[d] = "tick" /\ branch[d] = "mlfq"
      BY <2>1, <2>4 DEF Quota
    <3>2. pt[r].ticks[q] = Slice[q] /\ q = pt[r].priority
      BY <2>1, <2>4 DEF Quota
    <3>3. proc'[d] = r /\ at'[d] = "tick" /\ branch'[d] = "mlfq"
      BY <1>5, <2>4, <3>1 DEF TypeOK
    <3>4. pt'[r].ticks = pt[r].ticks /\ pt'[r].priority = pt[r].priority
      BY <1>4, <2>4
    <3> QED
      BY <3>2, <3>3, <3>4
  <2> QED
    BY <2>2, <2>3, <2>4
<1> QED
  BY <1>6, <1>7, <1>8, <1>9

(* allocproc() filling a free slot keeps the invariant. *)
LEMMA AllocProcStep ==
    ASSUME IInv, NEW c \in CPUs, AllocProc(c)
    PROVE  IInv'
<1> USE DEF IInv
<1> DEFINE e == [state |-> EMBRYO, priority |-> 3,
                 ticks |-> NoTicks, wait_ticks |-> NoWait]
<1>1. PICK p \in Slots : /\ pt[p].state = UNUSED
                         /\ pt' = [pt EXCEPT ![p] = e]
                         /\ rrTicked' = rrTicked \ {p}
  BY DEF AllocProc
<1>2. UNCHANGED <<policy, proc, branch, at>>
  BY DEF AllocProc
<1>3. /\ e \in Proc
      /\ e.state = EMBRYO
      /\ \A q \in 1 .. 3 : e.ticks[q] = 0
      /\ \A q \in 0 .. 2 : e.wait_ticks[q] = 0
  <2>1. 0 \in 0 .. CounterMax
    BY CounterAssumption
  <2> QED
    BY <2>1 DEF Proc, NoTicks, NoWait, States, Levels
<1> HIDE DEF e
<1>4. /\ pt' \in [Slots -> Proc]
      /\ \A r \in Slots : pt'[r] = IF r = p THEN e ELSE pt[r]
  BY <1>1, <1>3 DEF TypeOK
<1>5. TypeOK'
  BY <1>1, <1>2, <1>4 DEF TypeOK
<1>6. RunningOnce'
  BY <1>1, <1>2, <1>3, <1>4 DEF RunningOnce, UNUSED, EMBRYO, RUNNING
<1>7. WaitBound'
  BY <1>3, <1>4, BoostAssumption DEF WaitBound
<1>8. Quota'
  BY <1>1, <1>2, <1>3, <1>4, SliceAssumption DEF Quota
<1> QED
  BY <1>5, <1>6, <1>7, <1>8

(* A state change of a process that is not running keeps the invariant. *)
LEMMA SetStateStep ==
    ASSUME IInv, NEW p \in Slots,
           NEW from \in States \ {RUNNING}, NEW to \in States \ {RUNNING},
           SetState(p, from, to)
    PROVE  IInv'
<1> USE DEF IInv
<1>1. pt[p].state = from /\ pt' = WithState(pt, p, to)
  BY DEF SetState, WithState
<1>2. UNCHANGED <<policy, proc, branch, at, rrTicked>>
  BY DEF SetState
<1>3. /\ pt' \in [Slots -> Proc]
      /\ \A r \in Slots : /\ pt'[r].state = IF r = p THEN to ELSE pt[r].state
                          /\ pt'[r].priority = pt[r].priority
                          /\ pt'[r].ticks = pt[r].ticks
                          /\ pt'[r].wait_ticks = pt[r].wait_ticks
  BY <1>1, StateFacts DEF TypeOK
<1>4. TypeOK'
  BY <1>2, <1>3 DEF TypeOK
<1>5. RunningOnce'
  BY <1>1, <1>2, <1>3 DEF RunningOnce
<1>6. WaitBound'
  BY <1>3 DEF WaitBound
<1>7. Quota'
  BY <1>2, <1>3 DEF Quota
<1> QED
  BY <1>4, <1>5, <1>6, <1>7

-----------------------------------------------------------------------------
(* The table userinit() leaves satisfies the invariant. *)
LEMMA InitInv == Init => IInv
<1> SUFFICES ASSUME Init PROVE IInv
  OBVIOUS
<1>1. 0 \in 0 .. CounterMax
  BY CounterAssumption
<1>2. pt \in [Slots -> Proc]
  BY <1>1 DEF Init, Proc, NoTicks, NoWait, States, Levels
<1>3. TypeOK
  BY <1>2 DEF Init, TypeOK, Levels, NoProc
<1>4. RunningOnce
  BY DEF Init, RunningOnce, NoProc, Slots, RUNNABLE, UNUSED, RUNNING
<1>5. WaitBound
  BY BoostAssumption DEF Init, WaitBound, NoWait
<1>6. Quota
  BY SliceAssumption DEF Init, Quota, NoTicks
<1> QED
  BY <1>3, <1>4, <1>5, <1>6 DEF IInv

(* Every step of the scheduler keeps the invariant. *)
LEMMA NextInv == IInv /\ [Next]_vars => IInv'
<1> SUFFICES ASSUME IInv, [Next]_vars PROVE IInv'
  OBVIOUS
<1>1. ASSUME NEW c \in CPUs, Dispatch(c) PROVE IInv'
  BY <1>1, DispatchStep
<1>2. ASSUME NEW c \in CPUs, TimerTick(c) PROVE IInv'
  BY <1>2, TimerTickStep
<1>3. ASSUME NEW c \in CPUs, TimerYield(c) PROVE IInv'
  <2>1. RUNNABLE \in States \ {RUNNING} /\ at[c] # "loop"
    BY <1>3 DEF TimerYield, States, RUNNABLE, RUNNING
  <2> QED
    BY <1>3, <2>1, SwitchBackStep DEF TimerYield
<1>4. ASSUME NEW c \in CPUs, NEW call, NEW s \in States \ {RUNNING}, Leave(c, call, s)
      PROVE  IInv'
  <2>1. at[c] # "loop"
    BY <1>4 DEF Leave
  <2> QED
    BY <1>4, <2>1, SwitchBackStep DEF Leave
<1>5. ASSUME NEW c \in CPUs, SysYield(c) \/ Sleep(c) \/ Exit(c) PROVE IInv'
  <2>1. {RUNNABLE, SLEEPING, ZOMBIE} \subseteq States \ {RUNNING}
    BY DEF States, RUNNABLE, SLEEPING, ZOMBIE, RUNNING
  <2> QED
    BY <1>4, <1>5, <2>1 DEF SysYield, Sleep, Exit
<1>6. ASSUME NEW c \in CPUs, AllocProc(c) PROVE IInv'
  BY <1>6, AllocProcStep
<1>7. ASSUME NEW c \in CPUs, NEW n \in Policies, SetSchedPolicy(c, n) PROVE IInv'
  <2>1. n \in Levels
    BY CallsAssumption
  <2>2. UNCHANGED <<pt, proc, branch, at, rrTicked>>
        /\ policy' = [policy EXCEPT ![c] = n]
    BY <1>7 DEF SetSchedPolicy
  <2>3. TypeOK'
    BY <2>1, <2>2 DEF IInv, TypeOK
  <2>4. RunningOnce' /\ WaitBound' /\ Quota'
    BY <2>2 DEF IInv, RunningOnce, WaitBound, Quota
  <2> QED
    BY <2>3, <2>4 DEF IInv
<1>8. ASSUME NEW p \in Slots,
             ForkPublish(p) \/ ForkFail(p) \/ Wakeup(p) \/ Reap(p)
      PROVE  IInv'
  <2>1. {EMBRYO, RUNNABLE, UNUSED, SLEEPING, ZOMBIE} \subseteq States \ {RUNNING}
    BY DEF States, EMBRYO, RUNNABLE, UNUSED, SLEEPING, ZOMBIE, RUNNING
  <2> QED
    BY <1>8, <2>1, SetStateStep DEF ForkPublish, ForkFail, Wakeup, Reap
<1>9. CASE UNCHANGED vars
  BY <1>9 DEF IInv, vars, TypeOK, RunningOnce, WaitBound, Quota
<1> QED
  BY <1>1, <1>2, <1>3, <1>5, <1>6, <1>7, <1>8, <1>9 DEF Next

(* The inductive invariant holds in every behaviour of the scheduler. *)
THEOREM Inductive == Spec => []IInv
<1> QED
  BY InitInv, NextInv, PTL DEF Spec

(* scheduler() keeps the process table and the CPUs' current processes     *)
(* well-formed for any number of slots and CPUs.                           *)
THEOREM TypeCorrect == Spec => []TypeOK
<1>1. IInv => TypeOK
  BY DEF IInv
<1> QED
  BY <1>1, Inductive, PTL

(* No two CPUs ever run the same process, whatever their policies. *)
THEOREM NoSharedProcess == Spec => []RunningOnce
<1>1. IInv => RunningOnce
  BY DEF IInv
<1> QED
  BY <1>1, Inductive, PTL

(* priority_boost() answers every wait in time: for all slices and limits. *)
THEOREM BoostInTime == Spec => []WaitBound
<1>1. IInv => WaitBound
  BY DEF IInv
<1> QED
  BY <1>1, Inductive, PTL

(* A process cannot dodge demotion by yielding or sleeping, for any slices. *)
THEOREM QuotaKept == Spec => []Quota
<1>1. IInv => Quota
  BY DEF IInv
<1> QED
  BY <1>1, Inductive, PTL
=============================================================================
