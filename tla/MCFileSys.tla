----------------------------- MODULE MCFileSys ------------------------------
(***************************************************************************)
(* Instances of FileSys for TLC.  One process builds directories and       *)
(* removes things in them, the other opens, links and removes the same     *)
(* names; "b" is relative, so it is /a/b to a process that is in /a.       *)
(***************************************************************************)
EXTENDS FileSys, TLC

CONSTANTS p1, p2

MCPaths == {<<"/", "a">>, <<"b">>}
MCOpsOf == (p1 :> {"create", "mkdir", "chdir", "unlink"}) @@ (p2 :> {"open", "link", "unlink"})

(* Two processes that create and remove one file. *)
OnePath == {<<"/", "a">>}
CreateOrUnlink == [p \in Procs |-> {"create", "unlink"}]
=============================================================================
