----------------------------- MODULE AtomicDisk -----------------------------
(***************************************************************************)
(* What log.c promises to the file system calls: the disk moves from one   *)
(* set of completed calls to the next in one step.  A commit happens only  *)
(* while no call is in progress, and a crash falls back to the last one.   *)
(***************************************************************************)
CONSTANTS Procs, Blocks, Vals

VARIABLES
    durable,   \* the content a reboot finds
    current,   \* the content calls read and write
    active     \* the processes between begin_op() and end_op()

vars == <<durable, current, active>>

Init ==
    /\ durable \in [Blocks -> Vals]
    /\ current = durable
    /\ active = {}

Begin(p) ==
    /\ p \notin active
    /\ active' = active \cup {p}
    /\ UNCHANGED <<durable, current>>

Write(p, b, v) ==
    /\ p \in active
    /\ current' = [current EXCEPT ![b] = v]
    /\ UNCHANGED <<durable, active>>

End(p) ==
    /\ p \in active
    /\ active' = active \ {p}
    /\ UNCHANGED <<durable, current>>

Commit ==
    /\ active = {}
    /\ durable' = current
    /\ UNCHANGED <<current, active>>

Crash ==
    /\ current' = durable
    /\ active' = {}
    /\ UNCHANGED durable

Next ==
    \/ \E p \in Procs : Begin(p) \/ End(p)
    \/ \E p \in Procs, b \in Blocks, v \in Vals : Write(p, b, v)
    \/ Commit
    \/ Crash

Spec == Init /\ [][Next]_vars
=============================================================================
