----------------------------- MODULE BlockStore -----------------------------
(***************************************************************************)
(* What the buffer cache promises: every disk block is one cell that one   *)
(* user at a time holds, reads and writes.  The drive may fail on a block. *)
(* A block is bad from a request that failed to the next that succeeds: a  *)
(* failed read shows any bytes, and what is in a bad block may be lost     *)
(* while nobody holds it.                                                  *)
(***************************************************************************)
CONSTANTS Procs, Blocks, Vals, Nobody

VARIABLES content, holder, bad

vars == <<content, holder, bad>>

Init ==
    /\ content \in [Blocks -> Vals]
    /\ holder = [k \in Blocks |-> Nobody]
    /\ bad = {}

Take(p, k) == holder[k] = Nobody /\ holder' = [holder EXCEPT ![k] = p]

Bread(p, k) ==
    /\ Take(p, k)
    /\ bad' \in {bad, bad \ {k}}
    /\ UNCHANGED content

BreadFails(p, k, v) ==
    /\ Take(p, k)
    /\ bad' = bad \cup {k}
    /\ content' = [content EXCEPT ![k] = v]

Write(p, k, v) ==
    /\ holder[k] = p
    /\ content' = [content EXCEPT ![k] = v]
    /\ UNCHANGED <<holder, bad>>

(* What was written reaches the disk, or does not. *)
Written(p, k) ==
    /\ holder[k] = p
    /\ bad' \in {bad \ {k}, bad \cup {k}}
    /\ UNCHANGED <<content, holder>>

Brelse(p, k) ==
    /\ holder[k] = p
    /\ holder' = [holder EXCEPT ![k] = Nobody]
    /\ UNCHANGED <<content, bad>>

Lose(k, v) ==
    /\ k \in bad /\ holder[k] = Nobody
    /\ content' = [content EXCEPT ![k] = v]
    /\ UNCHANGED <<holder, bad>>

Next ==
    \E k \in Blocks :
        \/ \E p \in Procs : Bread(p, k) \/ Written(p, k) \/ Brelse(p, k)
        \/ \E p \in Procs, v \in Vals : BreadFails(p, k, v) \/ Write(p, k, v)
        \/ \E v \in Vals : Lose(k, v)

Spec == Init /\ [][Next]_vars
=============================================================================
