------------------------------ MODULE MCShell -------------------------------
(***************************************************************************)
(* Model checking of the shell: every line of up to MaxTokens tokens that  *)
(* has no ">>", does not redirect from or to a program, and joins at most  *)
(* two commands when it has more than two tokens, and a few more.          *)
(***************************************************************************)
EXTENDS Shell

CONSTANT MaxTokens

LongLines == {
    <<"(", "echo", "f", ";", "echo", "f", ")", "|", "cat">>,
    <<"echo", "f", "|", "cat", "|", "cat">>,
    <<"echo", "f", ">", "f", ";", "cat", "<", "f">>,
    <<"(", "echo", "f", ";", "echo", "f", ")", ">>", "f">>,
    <<"echo", ">>", "f", "&">>,
    <<"cd", "f">>,
    <<"echo", "f", "|", "(", "cat", ";", "cat", ")", ">", "f">>,
    <<"echo", "f", "|", "cat", "&", ";", "cat", "f">>,
    <<"cat", "f", "|", "echo", "f">> }

MCLines == LongLines \cup
    {l \in UNION {[1 .. n -> Tokens \ {">>"}] : n \in 0 .. MaxTokens} :
        /\ \A i \in 1 .. Len(l) - 1 : l[i] \in {"<", ">"} => l[i + 1] \notin Programs
        /\ Len(l) > 2 => Cardinality({i \in DOMAIN l : l[i] \in {"|", "&"}}) < 2}
=============================================================================
