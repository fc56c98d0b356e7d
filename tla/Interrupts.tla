----------------------------- MODULE Interrupts -----------------------------
(***************************************************************************)
(* The keyboard and timer interrupts that trap() dispatches, and the two   *)
(* calls that wait for them: read() of the console (console.c) and sleep() *)
(* (sysproc.c).  kill() interrupts both.                                   *)
(***************************************************************************)
EXTENDS Integers, Sequences, FiniteSetsExt

CONSTANTS
    Procs,
    Plain,       \* characters that are not control characters
    INPUT_BUF,
    UintMax,     \* largest value of the unsigned indices and of ticks
    MaxCount,    \* largest count read() is called with
    MaxSleep,    \* longest time sleep() is called with
    Nobody

NL == "\n"
EOT == "^D"
Chars == Plain \cup {NL, EOT}

ASSUME SizeAssumption ==
    /\ INPUT_BUF \in Nat \ {0} /\ UintMax \in Nat /\ MaxCount \in Nat
    /\ (UintMax + 1) % INPUT_BUF = 0 /\ INPUT_BUF <= UintMax
    /\ MaxSleep \in 0 .. UintMax - 1
ASSUME NobodyAssumption == Nobody \notin Procs

VARIABLES
    buf, r, w, e,   \* struct input
    conslock,       \* holder of cons.lock across a step
    ticks,
    tickslock,
    pc,             \* what each process is doing
    n, target,      \* bytes it still wants and bytes it wanted; ticks to sleep
    ticks0,
    elapsed,        \* timer interrupts since its sleep() began, as it happened
    killed

input == <<buf, r, w, e>>
vars == <<buf, r, w, e, conslock, ticks, tickslock, pc, n, target, ticks0, elapsed, killed>>

(* Unsigned arithmetic. *)
Plus(a, b) == (a + b) % (UintMax + 1)
Minus(a, b) == (a - b) % (UintMax + 1)

TypeOK ==
    /\ buf \in [0 .. INPUT_BUF - 1 -> Chars]
    /\ {r, w, e, ticks} \subseteq 0 .. UintMax
    /\ Minus(w, r) <= Minus(e, r) /\ Minus(e, r) <= INPUT_BUF
    /\ {conslock, tickslock} \subseteq Procs \cup {Nobody}
    /\ pc \in [Procs -> {"user", "read", "sleepy", "waiting", "delay", "drowsy", "ticking"}]
    /\ n \in [Procs -> Nat] /\ target \in [Procs -> Nat]
    /\ ticks0 \in [Procs -> 0 .. UintMax] /\ elapsed \in [Procs -> Nat]
    /\ killed \in [Procs -> BOOLEAN]

Init ==
    /\ buf = [i \in 0 .. INPUT_BUF - 1 |-> NL]
    /\ r = 0 /\ w = 0 /\ e = 0 /\ ticks = 0
    /\ conslock = Nobody /\ tickslock = Nobody
    /\ pc = [p \in Procs |-> "user"]
    /\ n = [p \in Procs |-> 0] /\ target = n /\ ticks0 = n /\ elapsed = n
    /\ killed = [p \in Procs |-> FALSE]

Goto(p, place) == pc' = [pc EXCEPT ![p] = place]

(* Every process at `from' goes to `to': what wakeup() does to a channel. *)
Wakeup(from, to) == [p \in Procs |-> IF pc[p] = from THEN to ELSE pc[p]]

(* A call of p returns. *)
Return(p) ==
    /\ Goto(p, "user")
    /\ n' = [n EXCEPT ![p] = 0] /\ target' = [target EXCEPT ![p] = 0]
    /\ ticks0' = [ticks0 EXCEPT ![p] = 0] /\ elapsed' = [elapsed EXCEPT ![p] = 0]

-----------------------------------------------------------------------------
Room == Minus(e, r) < INPUT_BUF

MutWakesReaders(c) == c \in {NL, EOT}

(* Does typing c complete the line and wake the readers? *)
WakesReaders(c) == c \in {NL, EOT} \/ Plus(e, 1) = Plus(r, INPUT_BUF)

(* consoleintr(), default case. *)
KbdChar(c) ==
    /\ conslock = Nobody
    /\ Room
    /\ buf' = [buf EXCEPT ![e % INPUT_BUF] = c]
    /\ e' = Plus(e, 1)
    /\ IF c \in {NL, EOT} \/ Plus(e, 1) = Plus(r, INPUT_BUF)
       THEN w' = Plus(e, 1) ELSE UNCHANGED w
    /\ pc' = IF WakesReaders(c) THEN Wakeup("waiting", "read") ELSE pc
    /\ UNCHANGED <<r, conslock, ticks, tickslock, n, target, ticks0, elapsed, killed>>

MutKbdBackspace ==
    /\ conslock = Nobody
    /\ e # r
    /\ e' = Minus(e, 1)
    /\ w' = IF w = e THEN e' ELSE w
    /\ UNCHANGED <<buf, r, conslock, ticks, tickslock, pc, n, target, ticks0, elapsed, killed>>

(* Backspace edits only the line that is not complete. *)
KbdBackspace ==
    /\ conslock = Nobody
    /\ e # w
    /\ e' = Minus(e, 1)
    /\ UNCHANGED <<buf, r, w, conslock, ticks, tickslock, pc, n, target, ticks0, elapsed, killed>>

(* ^U erases back to the end of the last complete line. *)
KbdKillLine ==
    /\ conslock = Nobody
    /\ e' = Minus(e, Min({k \in 0 .. Minus(e, w) :
                 k = Minus(e, w) \/ buf[Minus(e, k + 1) % INPUT_BUF] = NL}))
    /\ UNCHANGED <<buf, r, w, conslock, ticks, tickslock, pc, n, target, ticks0, elapsed, killed>>

-----------------------------------------------------------------------------
(* read() of m bytes from the console. *)
Read(p, m) ==
    /\ pc[p] = "user" /\ ~killed[p]
    /\ Goto(p, "read")
    /\ n' = [n EXCEPT ![p] = m] /\ target' = [target EXCEPT ![p] = m]
    /\ UNCHANGED <<input, conslock, ticks, tickslock, ticks0, elapsed, killed>>

(* The complete lines, and the part of them that consoleread() goes        *)
(* through: to the first end of line, or as far as it wants.               *)
Lines == [i \in 1 .. Minus(w, r) |-> buf[Plus(r, i - 1) % INPUT_BUF]]
Scan(p) ==
    Min({i \in 0 .. Len(Lines) :
           i = Len(Lines) \/ i = n[p] \/ (i > 0 /\ Lines[i] \in {NL, EOT})})
EndsAt(p, c) == Scan(p) > 0 /\ Lines[Scan(p)] = c

(* ^D is put back when bytes were read before it, so that the next read()  *)
(* returns none.                                                           *)
Consumed(p) ==
    IF EndsAt(p, EOT) /\ (Scan(p) > 1 \/ n[p] < target[p]) THEN Scan(p) - 1 ELSE Scan(p)

(* consoleread() with cons.lock held: take what there is; return at the    *)
(* end of a line, with enough bytes or killed; otherwise go to sleep.      *)
ReadTake(p) ==
    /\ pc[p] = "read"
    /\ conslock = Nobody
    /\ r' = Plus(r, Consumed(p))
    /\ IF Scan(p) = n[p] \/ EndsAt(p, NL) \/ EndsAt(p, EOT) \/ killed[p]
       THEN Return(p) /\ UNCHANGED conslock
       ELSE /\ Goto(p, "sleepy")
            /\ conslock' = p
            /\ n' = [n EXCEPT ![p] = @ - Scan(p)]
            /\ UNCHANGED <<target, ticks0, elapsed>>
    /\ UNCHANGED <<buf, w, e, ticks, tickslock, killed>>

(* sleep(&input.r, &cons.lock) *)
ReadSleep(p) ==
    /\ pc[p] = "sleepy"
    /\ Goto(p, "waiting")
    /\ conslock' = Nobody
    /\ UNCHANGED <<input, ticks, tickslock, n, target, ticks0, elapsed, killed>>

-----------------------------------------------------------------------------
(* The timer interrupt.  A process that is ready to run is not kept from   *)
(* it until ticks has gone round.                                          *)
Timer ==
    /\ tickslock = Nobody
    /\ \A p \in Procs : pc[p] = "delay" => elapsed[p] < UintMax
    /\ ticks' = Plus(ticks, 1)
    /\ pc' = Wakeup("ticking", "delay")
    /\ elapsed' = [p \in Procs |-> elapsed[p] + IF pc[p] \in {"delay", "ticking"} THEN 1 ELSE 0]
    /\ UNCHANGED <<input, conslock, tickslock, n, target, ticks0, killed>>

(* sleep(m): the time it starts is read under tickslock. *)
Sleep(p, m) ==
    /\ pc[p] = "user" /\ ~killed[p]
    /\ tickslock = Nobody
    /\ ticks0' = [ticks0 EXCEPT ![p] = ticks]
    /\ n' = [n EXCEPT ![p] = m]
    /\ Goto(p, "delay")
    /\ UNCHANGED <<input, conslock, ticks, tickslock, target, elapsed, killed>>

MutDue(p) == ticks >= Plus(ticks0[p], n[p])
Due(p) == Minus(ticks, ticks0[p]) >= n[p]

(* The loop of sys_sleep(). *)
SleepCheck(p) ==
    /\ pc[p] = "delay"
    /\ tickslock = Nobody
    /\ IF Due(p) \/ killed[p]
       THEN Return(p) /\ UNCHANGED tickslock
       ELSE Goto(p, "drowsy") /\ tickslock' = p /\ UNCHANGED <<n, target, ticks0, elapsed>>
    /\ UNCHANGED <<input, conslock, ticks, killed>>

(* sleep(&ticks, &tickslock) *)
SleepSleep(p) ==
    /\ pc[p] = "drowsy"
    /\ Goto(p, "ticking")
    /\ tickslock' = Nobody
    /\ UNCHANGED <<input, conslock, ticks, n, target, ticks0, elapsed, killed>>

-----------------------------------------------------------------------------
(* kill() wakes the process wherever it sleeps. *)
Kill(p) ==
    /\ ~killed[p]
    /\ killed' = [killed EXCEPT ![p] = TRUE]
    /\ pc' = [pc EXCEPT ![p] = IF @ = "waiting" THEN "read"
                               ELSE IF @ = "ticking" THEN "delay" ELSE @]
    /\ UNCHANGED <<input, conslock, ticks, tickslock, n, target, ticks0, elapsed>>

(* trap(): a killed process exits on its way to user space; a new one      *)
(* takes its place.                                                        *)
Exit(p) ==
    /\ pc[p] = "user" /\ killed[p]
    /\ killed' = [killed EXCEPT ![p] = FALSE]
    /\ UNCHANGED <<input, conslock, ticks, tickslock, pc, n, target, ticks0, elapsed>>

Next ==
    \/ \E c \in Chars : KbdChar(c)
    \/ KbdBackspace \/ KbdKillLine \/ Timer
    \/ \E p \in Procs :
          \/ \E m \in 0 .. MaxCount : Read(p, m)
          \/ \E m \in 0 .. MaxSleep : Sleep(p, m)
          \/ ReadTake(p) \/ ReadSleep(p) \/ SleepCheck(p) \/ SleepSleep(p)
          \/ Kill(p) \/ Exit(p)

Spec == Init /\ [][Next]_vars

-----------------------------------------------------------------------------
Edited == [i \in 1 .. Minus(e, w) |-> buf[Plus(w, i - 1) % INPUT_BUF]]
Queue == INSTANCE LineQueue
    WITH Ends <- {NL, EOT}, Size <- INPUT_BUF, done <- Lines, edit <- Edited

(* The ring buffer, its three unsigned indices and their wrap-around are a *)
(* line queue: nothing a reader may have is edited away, overwritten or    *)
(* delivered twice or out of order, and no reader goes on past the end of  *)
(* a line.                                                                 *)
IsLineQueue == Queue!Spec

(* No reader sleeps while a complete line waits, and no sleep() goes on    *)
(* past its time: the interrupts' wakeup()s are never missed.  The indices *)
(* stay within a ring's length of each other.                              *)
NoMissedWakeup ==
    /\ TypeOK
    /\ \A p \in Procs : /\ pc[p] = "waiting" => r = w
                        /\ pc[p] = "ticking" => elapsed[p] < n[p]

(* sleep(n) of a process nobody kills takes at least n timer interrupts,   *)
(* also when ticks overflows meanwhile.                                    *)
SleepsEnough ==
    [][\A p \in Procs : pc[p] = "delay" /\ pc'[p] = "user" /\ ~killed[p] =>
          elapsed[p] >= n[p]]_vars
=============================================================================
