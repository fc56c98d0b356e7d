------------------------------ MODULE Filters -------------------------------
(***************************************************************************)
(* The user programs that filter a stream of characters, grep.c and wc.c.  *)
(* A program sees its input only through read(), which hands over as many  *)
(* characters as it likes when the input is a pipe or the console, and as  *)
(* many as were asked for when it is a file; what the programs compute     *)
(* must not depend on where the pieces end.                                *)
(*                                                                         *)
(* Characters are strings of one letter, the newline is NL.  grep()'s m is *)
(* the length of line, the part of buf that it keeps between two reads.    *)
(***************************************************************************)
EXTENDS Integers, Sequences, SequencesExt, FiniteSets, FiniteSetsExt

CONSTANTS
    BUFSIZE,      \* sizeof(buf)
    Texts,        \* the inputs
    Patterns      \* the patterns grep is called with

NL == "nl"

VARIABLES
    prog,         \* "grep" or "wc"
    text,         \* the whole input
    file,         \* whether it is a file
    pattern,
    pos,          \* what read() has handed over
    line,         \* grep: buf[0..m-1]
    out,          \* grep: the lines written
    counts,       \* wc: l, w, c and inword
    status        \* "running", "done" or "failed"

filterVars == <<prog, text, file, pattern, pos, line, out, counts, status>>

FilterInit ==
    /\ prog \in {"grep", "wc"}
    /\ text \in Texts
    /\ file \in BOOLEAN
    /\ pattern \in IF prog = "grep" THEN Patterns ELSE {<<>>}
    /\ pos = 0
    /\ line = <<>>
    /\ out = <<>>
    /\ counts = [l |-> 0, w |-> 0, c |-> 0, inword |-> FALSE]
    /\ status = "running"
-----------------------------------------------------------------------------
(* The matcher.  re and text are what the C pointers point at: advancing a *)
(* pointer drops the head, and a string ends where the sequence does.      *)

RECURSIVE matchhere(_, _), matchstar(_, _, _)

matchhere(re, s) ==
    CASE re = <<>> -> TRUE
      [] Len(re) > 1 /\ re[2] = "*" -> matchstar(re[1], Tail(Tail(re)), s)
      [] re = <<"$">> -> s = <<>>
      [] OTHER -> /\ s # <<>>
                  /\ re[1] \in {".", s[1]}
                  /\ matchhere(Tail(re), Tail(s))

matchstar(c, re, s) ==
    \/ matchhere(re, s)
    \/ s # <<>> /\ c \in {".", s[1]} /\ matchstar(c, re, Tail(s))

RECURSIVE matchany(_, _)

matchany(re, s) ==
    matchhere(re, s) \/ (s # <<>> /\ matchany(re, Tail(s)))

match(re, s) ==
    IF re # <<>> /\ re[1] = "^" THEN matchhere(Tail(re), s) ELSE matchany(re, s)
-----------------------------------------------------------------------------
(* grep() *)

\* strchr(s + p, NL) as an index of s, 0 when there is none.
strchr(s, p) ==
    LET ends == {q \in p .. Len(s) : s[q] = NL}
    IN  IF ends = {} THEN 0 ELSE Min(ends)

\* The loop over the lines in buf: where p ends up, and what is written.
RECURSIVE GrepLines(_, _, _)

GrepLines(buf, p, written) ==
    LET q == strchr(buf, p)
        s == SubSeq(buf, p, q - 1)
    IN  IF q = 0
        THEN [p |-> p, out |-> written]
        ELSE GrepLines(buf, q + 1, IF match(pattern, s) THEN Append(written, s)
                                                        ELSE written)

\* A mutant: a buffer without a newline is kept as well.
KeepRestAll(buf, p) == SubSeq(buf, p, Len(buf))

\* What grep keeps of buf when the loop has ended at p: a buffer without a
\* newline is forgotten.
KeepRest(buf, p) == IF p = 1 THEN <<>> ELSE SubSeq(buf, p, Len(buf))

\* What read() may hand over when max characters are asked for.
Pieces(max) ==
    LET most == Min({max, Len(text) - pos})
    IN  IF file THEN {most} \ {0} ELSE 1 .. most

GrepRead ==
    /\ prog = "grep" /\ status = "running"
    /\ \E n \in Pieces(BUFSIZE - Len(line) - 1) :
          LET buf == line \o SubSeq(text, pos + 1, pos + n)
              r == GrepLines(buf, 1, out)
          IN  /\ out' = r.out
              /\ line' = KeepRest(buf, r.p)
              /\ pos' = pos + n
    /\ UNCHANGED <<prog, text, file, pattern, counts, status>>
-----------------------------------------------------------------------------
(* wc() *)

\* One turn of wc()'s loop over the characters of buf.
CountChar(k, ch) ==
    LET blank == ch \in {" ", NL}
    IN  [l |-> IF ch = NL THEN k.l + 1 ELSE k.l,
         w |-> IF ~blank /\ ~k.inword THEN k.w + 1 ELSE k.w,
         c |-> k.c + 1,
         inword |-> ~blank]

WcRead ==
    /\ prog = "wc" /\ status = "running"
    /\ \E n \in Pieces(BUFSIZE) :
          /\ counts' = FoldLeft(CountChar, counts, SubSeq(text, pos + 1, pos + n))
          /\ pos' = pos + n
    /\ UNCHANGED <<prog, text, file, pattern, line, out, status>>
-----------------------------------------------------------------------------
\* read() returns 0 at the end of the input: the loops end.
EndOfInput ==
    /\ status = "running" /\ pos = Len(text)
    /\ status' = "done"
    /\ UNCHANGED <<prog, text, file, pattern, pos, line, out, counts>>

\* read() returns -1: grep stops as at the end, wc reports it and no counts.
ReadFails ==
    /\ status = "running"
    /\ status' = "failed"
    /\ UNCHANGED <<prog, text, file, pattern, pos, line, out, counts>>

FilterNext == GrepRead \/ WcRead \/ EndOfInput \/ ReadFails
-----------------------------------------------------------------------------
(* What the programs promise. *)

\* The lines of s that a newline ends.
LinesOf(s) ==
    LET ends == SetToSortSeq({i \in 1 .. Len(s) : s[i] = NL}, <)
        begin(k) == IF k = 1 THEN 1 ELSE ends[k - 1] + 1
    IN  [k \in 1 .. Len(ends) |-> SubSeq(s, begin(k), ends[k] - 1)]

\* A pattern as what it means: items, each a character that is starred or
\* not, and whether it is bound to the start or the end of a line.
Accepts(c, ch) == c \in {".", ch}

RECURSIVE Items(_)

Items(re) ==
    IF re = <<>> THEN <<>>
    ELSE IF Len(re) > 1 /\ re[2] = "*"
    THEN <<[c |-> re[1], star |-> TRUE]>> \o Items(Tail(Tail(re)))
    ELSE <<[c |-> re[1], star |-> FALSE]>> \o Items(Tail(re))

\* Where a match of one item of a pattern can end in s when it starts at i.
Ends(item, s, i) ==
    {j \in i .. Len(s) :
        /\ item.star \/ j = i + 1
        /\ \A k \in i + 1 .. j : Accepts(item.c, s[k])}

Means(re, s) ==
    LET bound == re # <<>> /\ re[1] = "^"
        items == Items(IF bound THEN Tail(re) ELSE re)
        atEnd == items # <<>> /\ items[Len(items)] = [c |-> "$", star |-> FALSE]
        steps == IF atEnd THEN Front(items) ELSE items
        from == IF bound THEN {0} ELSE 0 .. Len(s)
        ends == FoldLeft(LAMBDA S, item : UNION {Ends(item, s, i) : i \in S}, from, steps)
    IN  IF atEnd THEN Len(s) \in ends ELSE ends # {}

WordCount(s) ==
    Cardinality({i \in 1 .. Len(s) : /\ s[i] \notin {" ", NL}
                                     /\ i = 1 \/ s[i - 1] \in {" ", NL}})

\* Whatever pieces read() hands the input over in, wc counts the lines, the
\* words and the characters of the whole input (wc.c:13-28).  grep writes the
\* lines that match, in their order, when the input is a file whose lines fit
\* its buffer (grep.c:17-35); of any input it writes only ends of lines, and
\* only ones that match, though it may lose the start of a line that read()
\* handed over in two pieces.
FiltersRight ==
    /\ (prog = "wc" /\ status = "done") =>
          /\ counts.l = Len(LinesOf(text))
          /\ counts.w = WordCount(text)
          /\ counts.c = Len(text)
    /\ (prog = "grep" /\ status = "done" /\ file
            /\ \A k \in DOMAIN LinesOf(text) : Len(LinesOf(text)[k]) + 1 < BUFSIZE) =>
          out = SelectSeq(LinesOf(text), LAMBDA s : Means(pattern, s))
    /\ \A k \in DOMAIN out :
          /\ Means(pattern, out[k])
          /\ \E i \in DOMAIN LinesOf(text) : IsSuffix(out[k], LinesOf(text)[i])
    /\ prog = "grep" => Len(line) + 1 < BUFSIZE
=============================================================================
