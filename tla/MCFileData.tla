----------------------------- MODULE MCFileData -----------------------------
(* Two processes share an open file, as after fork(); the second one has   *)
(* the same inode open once more, at an offset of its own, and another     *)
(* file.  There are blocks for one file of full size, or for parts of two; *)
(* a behaviour in which balloc() finds none ends there, in its panic.      *)
EXTENDS FileData, TLC

CONSTANTS p1, p2, f1, f2, f3

MCInodeOf == (f1 :> 1) @@ (f2 :> 1) @@ (f3 :> 2)
MCFilesOf == (p1 :> {f1}) @@ (p2 :> {f1, f2, f3})
MCCountsOf == (p1 :> {1, 5}) @@ (p2 :> {5})
=============================================================================
