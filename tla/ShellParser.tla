---------------------------- MODULE ShellParser -----------------------------
(***************************************************************************)
(* The shell's parser (sh.c), from a sequence of tokens to a tree of       *)
(* commands, and the grammar it is meant to recognise.                     *)
(*                                                                         *)
(* A line is the sequence of its tokens: the scanning of characters in     *)
(* gettoken(), with its look at the character after '>', is left out.      *)
(***************************************************************************)
EXTENDS Integers, Sequences, SequencesExt

CONSTANTS
    Words,     \* words that lines contain
    MAXARGS    \* size of argv[]

Redirections == {"<", ">", ">>"}
(* The kinds of token that gettoken() returns. *)
Symbols == Redirections \cup {"|", "&", ";", "(", ")"}
Tokens == Words \cup Symbols

execcmd(argv) == [type |-> "EXEC", argv |-> argv]
redircmd(cmd, file, mode, fd) ==
    [type |-> "REDIR", cmd |-> cmd, file |-> file, mode |-> mode, fd |-> fd]
pipecmd(left, right) == [type |-> "PIPE", left |-> left, right |-> right]
listcmd(left, right) == [type |-> "LIST", left |-> left, right |-> right]
backcmd(cmd) == [type |-> "BACK", cmd |-> cmd]

(* The redirections rd, <<symbol, file>> each, around a command: the first *)
(* one is the innermost.  ">>" opens the file just as ">" does.            *)
Redirect(cmd, rd) ==
    FoldLeft(LAMBDA c, r : IF r[1] = "<" THEN redircmd(c, r[2], "read", 0)
                                         ELSE redircmd(c, r[2], "create", 1), cmd, rd)

(* What parsing a prefix of a line yields: the command and the tokens that *)
(* are left; or a panic(), which ends the process.                         *)
Parsed(cmd, rest) == [ok |-> TRUE, cmd |-> cmd, rest |-> rest]
Panic == [ok |-> FALSE]

(* Go on with what was parsed, unless that was a panic(). *)
Then(r, Go(_, _)) == IF r.ok THEN Go(r.cmd, r.rest) ELSE Panic

peek(s, toks) == s # <<>> /\ Head(s) \in toks

RECURSIVE parseredirs(_, _)
parseredirs(rd, s) ==
    IF ~peek(s, Redirections) THEN Parsed(rd, s)
    ELSE IF peek(Tail(s), Words)
         THEN parseredirs(Append(rd, <<s[1], s[2]>>), Tail(Tail(s)))
         ELSE Panic

MutParseArgs(argv, rd, s) ==
    IF s = <<>> \/ peek(s, {"|", ")", ";"}) THEN Parsed(Redirect(execcmd(argv), rd), s)
    ELSE IF Head(s) \notin Words \/ Len(argv) + 1 >= MAXARGS THEN Panic
    ELSE Parsed(Redirect(execcmd(Append(argv, Head(s))), rd), Tail(s))

(* The loop of parseexec(): words, with redirections anywhere. *)
RECURSIVE ParseArgs(_, _, _)
ParseArgs(argv, rd, s) ==
    IF s = <<>> \/ peek(s, {"|", ")", "&", ";"})
    THEN Parsed(Redirect(execcmd(argv), rd), s)
    ELSE IF Head(s) \notin Words \/ Len(argv) + 1 >= MAXARGS THEN Panic
    ELSE Then(parseredirs(rd, Tail(s)),
              LAMBDA more, rest : ParseArgs(Append(argv, Head(s)), more, rest))

(* The loop of parseline() over "&". *)
RECURSIVE ParseBack(_, _)
ParseBack(cmd, s) ==
    IF peek(s, {"&"}) THEN ParseBack(backcmd(cmd), Tail(s)) ELSE Parsed(cmd, s)

RECURSIVE parseline(_), parsepipe(_), parseblock(_), parseexec(_)

parseexec(s) ==
    IF peek(s, {"("}) THEN parseblock(s)
    ELSE Then(parseredirs(<<>>, s), LAMBDA rd, rest : ParseArgs(<<>>, rd, rest))

parseblock(s) ==
    Then(parseline(Tail(s)), LAMBDA cmd, rest :
           IF ~peek(rest, {")"}) THEN Panic
           ELSE Then(parseredirs(<<>>, Tail(rest)),
                     LAMBDA rd, end : Parsed(Redirect(cmd, rd), end)))

parsepipe(s) ==
    Then(parseexec(s), LAMBDA left, rest :
           IF ~peek(rest, {"|"}) THEN Parsed(left, rest)
           ELSE Then(parsepipe(Tail(rest)),
                     LAMBDA right, end : Parsed(pipecmd(left, right), end)))

parseline(s) ==
    Then(parsepipe(s), LAMBDA cmd, amp :
      Then(ParseBack(cmd, amp), LAMBDA left, rest :
           IF ~peek(rest, {";"}) THEN Parsed(left, rest)
           ELSE Then(parseline(Tail(rest)),
                     LAMBDA right, end : Parsed(listcmd(left, right), end))))

(* The whole line has to be one command. *)
parsecmd(s) ==
    Then(parseline(s), LAMBDA cmd, rest : IF rest = <<>> THEN Parsed(cmd, rest) ELSE Panic)

-----------------------------------------------------------------------------
(* The grammar, by precedence rather than from left to right: ";" binds    *)
(* less than "&", "&" less than "|", and "|" less than what makes up one   *)
(* command.                                                                *)

(* Parentheses open after the first i tokens. *)
Depth(s, i) ==
    FoldLeft(LAMBDA n, t : IF t = "(" THEN n + 1 ELSE IF t = ")" THEN n - 1 ELSE n,
             0, SubSeq(s, 1, i))

(* Where symbol t separates parts of s. *)
Separators(s, t) == {i \in 1 .. Len(s) : s[i] = t /\ Depth(s, i) = 0}
First(S) == CHOOSE i \in S : \A j \in S : i <= j

(* The redirections of s, and its words outside of them. *)
RedirsAt(s) == {i \in 1 .. Len(s) - 1 : s[i] \in Redirections /\ s[i + 1] \in Words}
Redirs(s) == LET at == SetToSortSeq(RedirsAt(s), <)
             IN  [n \in 1 .. Len(at) |-> <<s[at[n]], s[at[n] + 1]>>]
WordsOf(s) == LET at == SetToSortSeq({i \in 1 .. Len(s) : i \notin RedirsAt(s)
                                                   /\ i - 1 \notin RedirsAt(s)}, <)
              IN  [n \in 1 .. Len(at) |-> s[at[n]]]

Tree(cmd) == Parsed(cmd, <<>>)

(* s is one Part, or a Part before the first t and what More makes of the  *)
(* rest.                                                                   *)
Split(s, t, Part(_), More(_), Both(_, _)) ==
    LET at == Separators(s, t)
        i == First(at)
    IN  IF at = {} THEN Part(s)
        ELSE Then(Part(SubSeq(s, 1, i - 1)), LAMBDA l, none :
               Then(More(SubSeq(s, i + 1, Len(s))), LAMBDA r, empty : Tree(Both(l, r))))

RECURSIVE LineTree(_), BackTree(_), PipeTree(_), CommandTree(_)

(* A block whose parenthesis closes at end, with redirections only after it. *)
BlockTree(s, end) ==
    LET tail == SubSeq(s, end + 1, Len(s))
    IN  IF WordsOf(tail) # <<>> THEN Panic
        ELSE Then(LineTree(SubSeq(s, 2, end - 1)),
                  LAMBDA cmd, none : Tree(Redirect(cmd, Redirs(tail))))

CommandTree(s) ==
    IF s # <<>> /\ s[1] = "("
    THEN LET ends == {i \in 1 .. Len(s) : Depth(s, i) = 0}
         IN  IF ends = {} THEN Panic ELSE BlockTree(s, First(ends))
    ELSE IF Range(WordsOf(s)) \subseteq Words /\ Len(WordsOf(s)) < MAXARGS
         THEN Tree(Redirect(execcmd(WordsOf(s)), Redirs(s)))
         ELSE Panic

PipeTree(s) == Split(s, "|", CommandTree, PipeTree, pipecmd)

BackTree(s) ==
    IF s = <<>> \/ Last(s) # "&" THEN PipeTree(s)
    ELSE Then(BackTree(Front(s)), LAMBDA cmd, none : Tree(backcmd(cmd)))

LineTree(s) == Split(s, ";", BackTree, LineTree, listcmd)
=============================================================================
