------------------------------- MODULE MCMlfq -------------------------------
(* Instances of Mlfq for TLC: slices and boost limits scaled down.  In the *)
(* code a boost takes at least 10 times the slice of the level above, and  *)
(* there are up to 64 processes, more than enough for others to use up     *)
(* that time: with ShortLimit two or three processes do.                   *)
EXTENDS Mlfq

UnitSlice == [q \in 1 .. 3 |-> 1]
FallingSlice == [q \in 1 .. 3 |-> IF q = 1 THEN 2 ELSE 1]
ShortLimit == [q \in 0 .. 2 |-> 1]
FallingLimit == [q \in 0 .. 2 |-> IF q = 0 THEN 2 ELSE 1]
=============================================================================
