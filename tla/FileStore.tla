----------------------------- MODULE FileStore ------------------------------
(***************************************************************************)
(* What read() and write() promise: a file is a sequence of bytes, and a   *)
(* transfer takes place at the open file's offset and moves it.            *)
(***************************************************************************)
EXTENDS Integers, Sequences

CONSTANTS
    Bytes,
    Inodes,
    Files,     \* open files; several processes may share one
    InodeOf,   \* the inode each is open on
    MaxCount   \* most bytes moved at once

VARIABLES content, off

vars == <<content, off>>

Init ==
    /\ content = [i \in Inodes |-> <<>>]
    /\ off = [f \in Files |-> 0]

(* Sequence s with the k cells from position o on replaced by b. *)
Splice(s, o, k, b) ==
    [j \in 1 .. (IF o + k > Len(s) THEN o + k ELSE Len(s)) |->
        IF j > o /\ j <= o + k THEN b ELSE s[j]]

Write(f, k, b) ==
    /\ off' = [off EXCEPT ![f] = @ + k]
    /\ content' = [content EXCEPT ![InodeOf[f]] = Splice(@, off[f], k, b)]

Read(f, k) ==
    /\ off' = [off EXCEPT ![f] = @ + k]
    /\ off[f] + k <= Len(content[InodeOf[f]])
    /\ UNCHANGED content

(* The file is removed and a new one takes its place. *)
Renew(i) ==
    /\ off' = [f \in Files |-> IF InodeOf[f] = i THEN 0 ELSE off[f]]
    /\ content' = [content EXCEPT ![i] = <<>>]

Next ==
    \/ \E f \in Files, k \in 1 .. MaxCount : Read(f, k) \/ \E b \in Bytes : Write(f, k, b)
    \/ \E i \in Inodes : Renew(i)

Spec == Init /\ [][Next]_vars
=============================================================================
