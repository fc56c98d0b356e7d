------------------------------- MODULE Strings ------------------------------
(***************************************************************************)
(* The functions on memory and strings that the rest of the program rests  *)
(* on: string.c of the kernel, printint() of console.c and atoi() of       *)
(* ulib.c.  Each is the loop of its source, over arrays that are sequences *)
(* or functions from 0; a step calls one of them with some arguments.      *)
(***************************************************************************)
EXTENDS Integers, Sequences, SequencesExt

CONSTANTS
    AREA,          \* bytes of memory that memmove() works on
    DIRSIZ,        \* bytes of a name in a directory
    MaxName,       \* length of the longest name
    INTBITS        \* bits of an int

ASSUME AreaNotEmpty == AREA \in Nat \ {0}

VARIABLES fn, args, result

stringVars == <<fn, args, result>>

StringInit == fn = "none" /\ args = <<>> /\ result = 0
-----------------------------------------------------------------------------
\* Bytes copied one after the other, those at the places in turn.
CopyBytes(mem, dst, src, turn) ==
    FoldLeft(LAMBDA m, i : [m EXCEPT ![dst + i] = m[src + i]], mem, turn)

Upward(n) == [k \in 1 .. n |-> k - 1]

\* A mutant: always upward, as ulib.c's memmove() does it.
memmoveUp(mem, dst, src, n) == CopyBytes(mem, dst, src, Upward(n))

\* memmove() starts at the end when the source runs into the destination.
memmove(mem, dst, src, n) ==
    CopyBytes(mem, dst, src,
              IF src < dst /\ src + n > dst THEN Reverse(Upward(n)) ELSE Upward(n))

\* Strings are sequences that end with their nul; t is what is left of one.
Nul == 0

RECURSIVE strncpy(_, _)

strncpy(t, n) ==
    CASE n = 0 -> <<>>
      [] n > 0 /\ Head(t) = Nul -> [k \in 1 .. n |-> Nul]
      [] OTHER -> <<Head(t)>> \o strncpy(Tail(t), n - 1)

RECURSIVE strncmp(_, _, _)

strncmp(p, q, n) ==
    CASE n = 0 -> 0
      [] n > 0 /\ Head(p) # Nul /\ Head(p) = Head(q) -> strncmp(Tail(p), Tail(q), n - 1)
      [] OTHER -> Head(p) - Head(q)

\* safestrcpy() into s, from place i on with n left.
RECURSIVE SafeCopy(_, _, _, _)

SafeCopy(s, i, t, n) ==
    CASE n - 1 <= 0 -> [s EXCEPT ![i] = Nul]
      [] n - 1 > 0 /\ Head(t) = Nul -> [s EXCEPT ![i] = Nul, ![i + 1] = Nul]
      [] OTHER -> SafeCopy([s EXCEPT ![i] = Head(t)], i + 1, Tail(t), n - 1)

safestrcpy(s, t, n) == IF n <= 0 THEN s ELSE SafeCopy(s, 1, t, n)

\* The digits of x, the last one first, as printint() puts them into buf.
RECURSIVE DigitsUp(_, _)

DigitsUp(x, base) ==
    IF x \div base = 0 THEN <<x % base>> ELSE <<x % base>> \o DigitsUp(x \div base, base)

Minus == -1

printint(xx, base, sign) ==
    LET neg == sign /\ xx < 0
        x == (IF neg THEN -xx ELSE xx) % 2 ^ INTBITS
        buf == DigitsUp(x, base) \o (IF neg THEN <<Minus>> ELSE <<>>)
    IN  Reverse(buf)

\* atoi() with n read so far; what is not a digit ends the number.
RECURSIVE atoiFrom(_, _)

atoiFrom(s, n) ==
    IF s # <<>> /\ Head(s) \in 0 .. 9 THEN atoiFrom(Tail(s), n * 10 + Head(s)) ELSE n

atoi(s) == atoiFrom(s, 0)
-----------------------------------------------------------------------------
Names == {Append(s, Nul) : s \in UNION {[1 .. n -> {1, 2}] : n \in 0 .. MaxName}}
Ints == -(2 ^ (INTBITS - 1)) .. 2 ^ (INTBITS - 1) - 1
Fresh == [a \in 0 .. AREA - 1 |-> a]

Move ==
    /\ fn = "none" /\ fn' = "memmove"
    /\ \E dst, src \in 0 .. AREA - 1, n \in 0 .. AREA :
          /\ dst + n <= AREA /\ src + n <= AREA
          /\ args' = <<dst, src, n>>
          /\ result' = memmove(Fresh, dst, src, n)

\* dirlink() writes a name, dirlookup() compares one with it.
LinkAndLook ==
    /\ fn = "none" /\ fn' = "names"
    /\ \E written, sought \in Names :
          /\ args' = <<written, sought>>
          /\ result' = strncmp(sought, strncpy(written, DIRSIZ), DIRSIZ)

\* exec() and fork() name a process; s is what its name was.
NameProcess ==
    /\ fn = "none" /\ fn' = "safestrcpy"
    /\ \E n \in 0 .. MaxName, t \in Names :
          /\ args' = <<n, t>>
          /\ result' = safestrcpy([k \in 1 .. n |-> 3], t, n)

PrintNumber ==
    /\ fn = "none" /\ fn' = "printint"
    /\ \E xx \in Ints, base \in {10, 16} :
          /\ args' = <<xx, base>>
          /\ result' = printint(xx, base, base = 10)

StringNext == Move \/ LinkAndLook \/ NameProcess \/ PrintNumber
-----------------------------------------------------------------------------
\* The characters of a string before its nul, at most n of them.
Start(s, n) == SubSeq(s, 1, IF n < Len(s) THEN n ELSE Len(s) - 1)

\* What a row of digits stands for.
ValueOf(s, base) == FoldLeft(LAMBDA v, d : v * base + d, 0, s)

\* memmove() copies what was there before, however the areas overlap
\* (string.c:39-46).  A name that was linked is found under exactly the names
\* that agree with it on DIRSIZ characters, terminated or not (fs.c:520, 573).
\* safestrcpy() leaves a terminated start of the string.  printint() writes a
\* number so that it reads back as it was, the smallest one too, without
\* leading zeros, and atoi() reads what was written.
StringsRight ==
    /\ fn = "memmove" =>
          LET dst == args[1]
              src == args[2]
          IN  result = [a \in 0 .. AREA - 1 |->
                           IF a \in dst .. dst + args[3] - 1 THEN src + (a - dst) ELSE a]
    /\ fn = "names" =>
          (result = 0 <=> Start(args[1], DIRSIZ) = Start(args[2], DIRSIZ))
    /\ fn = "safestrcpy" /\ args[1] > 0 =>
          \E k \in 1 .. args[1] :
              /\ result[k] = Nul
              /\ SubSeq(result, 1, k - 1) = Start(args[2], args[1] - 1)
    /\ fn = "printint" =>
          LET neg == result[1] = Minus
              digits == IF neg THEN Tail(result) ELSE result
              value == ValueOf(digits, args[2])
          IN  /\ IF args[2] = 10 THEN args[1] = (IF neg THEN -value ELSE value)
                                 ELSE ~neg /\ value = args[1] % 2 ^ INTBITS
              /\ digits[1] = 0 => Len(digits) = 1
              /\ args[2] = 10 /\ ~neg => atoi(result) = args[1]
=============================================================================
