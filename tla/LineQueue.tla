----------------------------- MODULE LineQueue ------------------------------
(***************************************************************************)
(* What the console promises to its readers: characters are edited until   *)
(* the line is complete, and then delivered in order, each once.  A reader *)
(* takes as much of a line as it wants, and never goes on to the next one. *)
(***************************************************************************)
EXTENDS Integers, Sequences

CONSTANTS Chars, Ends, Size   \* Ends: the characters that complete a line

VARIABLES done, edit

Init == done = <<>> /\ edit = <<>>

Completes(c) == c \in Ends \/ Len(done) + Len(edit) + 1 = Size

Type(c) ==
    /\ Len(done) + Len(edit) < Size
    /\ IF Completes(c)
       THEN done' = done \o Append(edit, c) /\ edit' = <<>>
       ELSE edit' = Append(edit, c) /\ UNCHANGED done

Erase ==
    edit # <<>> /\ edit' = SubSeq(edit, 1, Len(edit) - 1) /\ UNCHANGED done

KillLine == edit' = <<>> /\ UNCHANGED done

Take(k) ==
    /\ \A i \in 1 .. k - 1 : done[i] \notin Ends
    /\ done' = SubSeq(done, k + 1, Len(done))
    /\ UNCHANGED edit

Next ==
    \/ \E c \in Chars : Type(c)
    \/ Erase \/ KillLine
    \/ \E k \in 1 .. Len(done) : Take(k)

Spec == Init /\ [][Next]_<<done, edit>>
=============================================================================
