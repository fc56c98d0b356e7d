------------------------------- MODULE MCPipe -------------------------------
(* Instances of Pipe for TLC. *)
EXTENDS Pipe, TLC

EndSymmetry == Permutations(Readers) \cup Permutations(Writers) \cup Permutations(Bytes)
=============================================================================
