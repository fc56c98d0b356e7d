------------------------------- MODULE SysArgs ------------------------------
(***************************************************************************)
(* How a system call gets at its arguments (syscall.c, and sys_exec() of   *)
(* sysfile.c).  The arguments are words of the caller's memory, and some   *)
(* of them point into it: the kernel computes with what it finds there, in *)
(* words that overflow, and must not leave the memory of the process.      *)
(*                                                                         *)
(* A word is WORD bytes, a byte one of 0 .. BYTE - 1, and a process has    *)
(* less than half of the addresses, as below KERNBASE.  The memory of a    *)
(* process does not change while it is in the kernel.                      *)
(***************************************************************************)
EXTENDS Integers, Sequences

CONSTANTS
    WORD, BYTE,          \* bytes in a word, values of a byte
    Sizes,               \* what p->sz may be
    Stacks,              \* what tf->esp may be
    Lengths,             \* sizes argptr() is asked for
    MAXARG

Words == BYTE ^ WORD
USERTOP == Words \div 2

ASSUME ProcessBelowKernel == Sizes \subseteq 0 .. USERTOP - 1

VARIABLES
    psz, pmem, esp,      \* the process in the kernel
    call,                \* "none", "exec", "block" or "string"
    want,                \* the size the block must have
    got,                 \* what the kernel has been given so far
    outcome              \* "", "ok" or "refused"

argVars == <<psz, pmem, esp, call, want, got, outcome>>

ArgInit ==
    /\ psz \in Sizes
    /\ pmem \in [0 .. psz - 1 -> 0 .. BYTE - 1]
    /\ esp \in Stacks
    /\ call = "none"
    /\ want = 0
    /\ got = <<>>
    /\ outcome = ""
-----------------------------------------------------------------------------
Refused == [ok |-> FALSE, v |-> 0]
Given(v) == [ok |-> TRUE, v |-> v]

\* The word at addr, its low byte first.
RECURSIVE WordAt(_, _)

WordAt(addr, n) == IF n = 0 THEN 0 ELSE pmem[addr] + BYTE * WordAt(addr + 1, n - 1)

\* A mutant: only the end of the word is compared with p->sz.
fetchintEnd(addr) ==
    IF (addr + WORD) % Words > psz THEN Refused
    ELSE Given(IF addr + WORD <= psz THEN WordAt(addr, WORD) ELSE 0)

fetchint(addr) ==
    IF addr >= psz \/ (addr + WORD) % Words > psz THEN Refused ELSE Given(WordAt(addr, WORD))

\* The length of the string at addr, which must end below p->sz.
fetchstr(addr) ==
    LET ends == {s \in addr .. psz - 1 : pmem[s] = 0}
    IN  IF addr >= psz \/ ends = {} THEN Refused
        ELSE Given((CHOOSE s \in ends : \A e \in ends : s <= e) - addr)

argint(n) == fetchint((esp + WORD + WORD * n) % Words)

\* size is signed and i unsigned when they are added.
argptr(n, size) ==
    LET i == argint(n)
    IN  IF ~i.ok \/ size < 0 \/ i.v >= psz \/ (i.v + size) % Words > psz THEN Refused ELSE i

argstr(n) == IF argint(n).ok THEN fetchstr(argint(n).v) ELSE Refused
-----------------------------------------------------------------------------
Span(p, n) == [ptr |-> p, len |-> n]

\* sys_read(), sys_write(), sys_fstat(), sys_pipe() and sys_getpinfo() ask
\* for a block of memory.
BlockCall ==
    /\ call = "none"
    /\ \E size \in Lengths :
          LET r == argptr(0, size)
          IN  /\ want' = size
              /\ got' = IF r.ok THEN <<Span(r.v, size)>> ELSE <<>>
              /\ outcome' = IF r.ok THEN "ok" ELSE "refused"
    /\ call' = "block"
    /\ UNCHANGED <<psz, pmem, esp>>

\* Calls that take a path ask for a string.
StringCall ==
    /\ call = "none"
    /\ LET r == argstr(0)
       IN  /\ got' = IF r.ok THEN <<Span(argint(0).v, r.v)>> ELSE <<>>
           /\ outcome' = IF r.ok THEN "ok" ELSE "refused"
    /\ call' = "string"
    /\ UNCHANGED <<psz, pmem, esp, want>>

\* sys_exec() asks for a path and the place of argv.
ExecCall ==
    /\ call = "none"
    /\ outcome' = IF argstr(0).ok /\ argint(1).ok THEN "" ELSE "refused"
    /\ call' = "exec"
    /\ UNCHANGED <<psz, pmem, esp, want, got>>

\* One turn of its loop: argv ends with a null pointer, and too many
\* arguments are refused.
ExecArg ==
    /\ call = "exec" /\ outcome = ""
    /\ LET i == Len(got)
           uarg == fetchint((argint(1).v + WORD * i) % Words)
           len == fetchstr(uarg.v)
       IN  \/ /\ i >= MAXARG \/ ~uarg.ok \/ (uarg.v # 0 /\ ~len.ok)
              /\ outcome' = "refused"
              /\ UNCHANGED got
           \/ /\ i < MAXARG /\ uarg.ok /\ uarg.v = 0
              /\ outcome' = "ok"
              /\ UNCHANGED got
           \/ /\ i < MAXARG /\ uarg.ok /\ uarg.v # 0 /\ len.ok
              /\ got' = Append(got, Span(uarg.v, len.v))
              /\ UNCHANGED outcome
    /\ UNCHANGED <<psz, pmem, esp, call, want>>

ArgNext == BlockCall \/ StringCall \/ ExecCall \/ ExecArg
-----------------------------------------------------------------------------
\* Whether the bytes from a to b - 1, as integers that do not overflow, are
\* the process's own.
Inside(a, b) == 0 <= a /\ a <= b /\ b <= psz

\* The value of the word at addr, when it lies in the process.
IsWord(addr, v) == Inside(addr, addr + WORD) /\ v = WordAt(addr, WORD)

\* The nth argument, which may be above a stack pointer that wraps.
IsArg(n, v) == IsWord((esp + WORD * (n + 1)) % Words, v)

\* A string of n bytes and its nul.
IsString(p, n) ==
    /\ Inside(p, p + n + 1) /\ pmem[p + n] = 0
    /\ \A k \in p .. p + n - 1 : pmem[k] # 0

\* What a call is given lies in the memory of its process as long as it says
\* (syscall.c:22, 37-44, 66): no sum that overflows lets a block, a string or
\* an argument of exec() out of it, the strings end where fetchstr() says, and
\* exec() gets the words of argv in their order, at most MAXARG - 1 of them
\* with the null pointer behind them (sysfile.c:406-418).  A block that lies
\* inside is never refused.
ArgsInside ==
    /\ call = "block" =>
          /\ outcome = "ok" => /\ IsArg(0, got[1].ptr)
                               /\ Inside(got[1].ptr, got[1].ptr + want)
          /\ outcome = "refused" =>
                ~ \E p \in 0 .. psz - 1 : want >= 0 /\ IsArg(0, p) /\ Inside(p, p + want)
    /\ call = "string" /\ outcome = "ok" =>
          IsArg(0, got[1].ptr) /\ IsString(got[1].ptr, got[1].len)
    /\ call = "exec" =>
          \A k \in DOMAIN got :
              /\ \E a \in 0 .. Words - 1 :
                    IsArg(1, a) /\ IsWord((a + WORD * (k - 1)) % Words, got[k].ptr)
              /\ IsString(got[k].ptr, got[k].len)
    /\ call = "exec" /\ outcome = "ok" =>
          /\ Len(got) < MAXARG
          /\ \E a \in 0 .. Words - 1 :
                IsArg(1, a) /\ IsWord((a + WORD * Len(got)) % Words, 0)
=============================================================================
