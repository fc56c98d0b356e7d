-------------------------------- MODULE Fifo --------------------------------
(***************************************************************************)
(* What a pipe promises: a bounded queue of bytes with two ends that can   *)
(* be closed, each once.                                                   *)
(***************************************************************************)
EXTENDS Naturals, Sequences

CONSTANTS Capacity, Bytes

VARIABLES queue, readEnd, writeEnd

vars == <<queue, readEnd, writeEnd>>

Init == queue = <<>> /\ readEnd = TRUE /\ writeEnd = TRUE

Put(v) ==
    /\ writeEnd
    /\ Len(queue) < Capacity
    /\ queue' = Append(queue, v)
    /\ UNCHANGED <<readEnd, writeEnd>>

Get ==
    /\ readEnd
    /\ queue # <<>>
    /\ queue' = Tail(queue)
    /\ UNCHANGED <<readEnd, writeEnd>>

CloseRead == readEnd /\ readEnd' = FALSE /\ UNCHANGED <<queue, writeEnd>>

CloseWrite == writeEnd /\ writeEnd' = FALSE /\ UNCHANGED <<queue, readEnd>>

Next == (\E v \in Bytes : Put(v)) \/ Get \/ CloseRead \/ CloseWrite

Spec == Init /\ [][Next]_vars
=============================================================================
