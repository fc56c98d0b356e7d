------------------------------- MODULE Memory -------------------------------
(***************************************************************************)
(* Physical pages and address spaces: kalloc.c, the page tables of vm.c,   *)
(* and the calls that build and tear them down: sbrk(), fork(), exec(), and *)
(* exit() followed by the parent's wait().                                 *)
(*                                                                         *)
(* kalloc() hands out one page at a time to processes that run side by     *)
(* side, so each allocation is a step; what a call frees it frees in one   *)
(* step.  A page is a token: what matters is who holds how many.           *)
(***************************************************************************)
EXTENDS Integers, Sequences, FiniteSets, FiniteSetsExt

CONSTANTS
    NPROC,
    NPAGES,       \* pages on the free list when the first process starts
    PGSIZE,
    NPTENTRIES,   \* pages one page table maps
    KTables,      \* page tables for the kernel's part of an address space
    KERNBASE,     \* first address a process may not have
    Deltas,       \* arguments of sbrk()
    Programs      \* where the segments of each executable end, in order

Slots == 1 .. NPROC
Init1 == 1
VPages == 0 .. KERNBASE \div PGSIZE - 1
PDX(v) == v \div NPTENTRIES
PageUp(a) == (a + PGSIZE - 1) \div PGSIZE   \* PGROUNDUP, in pages

ASSUME SizeAssumption ==
    /\ {NPROC, PGSIZE, NPTENTRIES, KTables} \subseteq Nat \ {0}
    /\ NPAGES \in Nat /\ KERNBASE \in Nat /\ KERNBASE % (PGSIZE * NPTENTRIES) = 0
    /\ NPAGES >= KTables + 4

(* A page directory under construction or complete: the pages it consists  *)
(* of and the user pages it maps.                                          *)
NoSpace == [dir |-> 0, ktabs |-> 0, tabs |-> {}, pages |-> {}]

VARIABLES
    nfree,     \* length of kmem.freelist
    lost,      \* pages nobody has a pointer to any more
    state,     \* p->state, as far as memory goes
    kstack,    \* p->kstack: 1 if there is one
    space,     \* <<p, "img">>: p->pgdir; <<p, "new">>: the one exec() builds
    sz,        \* p->sz
    pc, op,    \* the call each process is in
    tgt,       \* the address space it is adding pages to
    at, end,   \* the next page to add, and the size to reach
    mem,       \* 1 if it holds a page it has not mapped yet
    segs       \* segments exec() has still to load

vars == <<nfree, lost, state, kstack, space, sz, pc, op, tgt, at, end, mem, segs>>
local == <<op, tgt, segs>>

Spaces == Slots \X {"img", "new"}

TypeOK ==
    /\ nfree \in 0 .. NPAGES /\ lost \in 0 .. NPAGES
    /\ state \in [Slots -> {"unused", "embryo", "live"}]
    /\ kstack \in [Slots -> {0, 1}] /\ mem \in [Slots -> {0, 1}]
    /\ space \in [Spaces -> [dir : {0, 1}, ktabs : 0 .. KTables,
                             tabs : SUBSET {PDX(v) : v \in VPages}, pages : SUBSET VPages]]
    /\ sz \in [Slots -> 0 .. KERNBASE - 1]
    /\ pc \in [Slots -> {"idle", "stack", "kvm", "alloc", "map", "fail", "gone"}]
    /\ op \in [Slots -> {"none", "sbrk", "fork", "exec", "argv"}]
    /\ tgt \in [Slots -> Spaces]
    /\ at \in [Slots -> Nat] /\ end \in [Slots -> 0 .. KERNBASE - 1]

(* userinit(): a kernel stack, the kernel's mappings and one user page. *)
Init ==
    /\ nfree = NPAGES - (KTables + 4) /\ lost = 0
    /\ state = [p \in Slots |-> IF p = Init1 THEN "live" ELSE "unused"]
    /\ kstack = [p \in Slots |-> IF p = Init1 THEN 1 ELSE 0]
    /\ space = [s \in Spaces |-> IF s = <<Init1, "img">>
                  THEN [dir |-> 1, ktabs |-> KTables, tabs |-> {0}, pages |-> {0}]
                  ELSE NoSpace]
    /\ sz = [p \in Slots |-> IF p = Init1 THEN PGSIZE ELSE 0]
    /\ pc = [p \in Slots |-> "idle"] /\ op = [p \in Slots |-> "none"]
    /\ tgt = [p \in Slots |-> <<p, "img">>]
    /\ at = [p \in Slots |-> 0] /\ end = at /\ mem = at
    /\ segs = [p \in Slots |-> <<>>]

Goto(p, place) == pc' = [pc EXCEPT ![p] = place]

(* One page from the list of free pages, which is not empty; k pages to it. *)
kalloc == nfree' = nfree - 1
kfree(k) == nfree' = nfree + k

(* The call returns. *)
Return(p) ==
    /\ Goto(p, "idle")
    /\ op' = [op EXCEPT ![p] = "none"]
    /\ tgt' = [tgt EXCEPT ![p] = <<p, "img">>]
    /\ at' = [at EXCEPT ![p] = 0] /\ end' = [end EXCEPT ![p] = 0]
    /\ mem' = [mem EXCEPT ![p] = 0] /\ segs' = [segs EXCEPT ![p] = <<>>]

(* The pages freevm() gives back. *)
PagesOf(s) == space[s].dir + space[s].ktabs + Cardinality(space[s].tabs)
              + Cardinality(space[s].pages)

(* User pages deallocuvm(_, oldsz, newsz) frees in space s. *)
Dealloc(s, oldsz, newsz) ==
    {v \in space[s].pages : PageUp(newsz) <= v /\ v < PageUp(oldsz)}

-----------------------------------------------------------------------------
(* allocuvm(pgdir, oldsz, newsz), entered in space s by a call o: refused, *)
(* or a loop that allocates and maps page after page.                      *)
AllocUvm(p, oldsz, newsz) ==
    /\ Goto(p, "alloc")
    /\ at' = [at EXCEPT ![p] = PageUp(oldsz)]
    /\ end' = [end EXCEPT ![p] = IF newsz < oldsz THEN oldsz ELSE newsz]

(* sbrk(n), n > 0, unless the process would reach KERNBASE. *)
Grow(p, n) ==
    /\ state[p] = "live" /\ pc[p] = "idle"
    /\ n > 0
    /\ sz[p] + n < KERNBASE
    /\ op' = [op EXCEPT ![p] = "sbrk"]
    /\ AllocUvm(p, sz[p], sz[p] + n)
    /\ UNCHANGED <<nfree, lost, state, kstack, space, sz, tgt, mem, segs>>


(* The size sz + n that sbrk(n), n < 0, asks for: one below 0 wraps around *)
(* and deallocuvm() then leaves the process as it is.                      *)
ShrinkTo(p, n) == IF sz[p] + n < 0 THEN sz[p] ELSE sz[p] + n

(* A size of 0 is taken for a failure: the pages are gone, p->sz stays,    *)
(* and the process is left to fault at its next instruction.               *)
Shrink(p, n) ==
    LET freed == Dealloc(<<p, "img">>, sz[p], ShrinkTo(p, n))
    IN  /\ state[p] = "live" /\ pc[p] = "idle"
        /\ n < 0
        /\ space' = [space EXCEPT ![<<p, "img">>].pages = @ \ freed]
        /\ kfree(Cardinality(freed))
        /\ IF ShrinkTo(p, n) = 0
           THEN Goto(p, "gone") /\ UNCHANGED sz
           ELSE sz' = [sz EXCEPT ![p] = ShrinkTo(p, n)] /\ UNCHANGED pc
        /\ UNCHANGED <<lost, state, kstack, local, at, end, mem>>

(* fork(): allocproc() takes a slot, then a kernel stack. *)
Fork(p, c) ==
    /\ state[p] = "live" /\ pc[p] = "idle"
    /\ state[c] = "unused"
    /\ \A d \in Slots : state[d] = "unused" => c <= d
    /\ state' = [state EXCEPT ![c] = "embryo"]
    /\ tgt' = [tgt EXCEPT ![p] = <<c, "img">>]
    /\ op' = [op EXCEPT ![p] = "fork"]
    /\ Goto(p, "stack")
    /\ UNCHANGED <<nfree, lost, kstack, space, sz, at, end, mem, segs>>

ForkStack(p) ==
    LET c == tgt[p][1]
    IN  /\ pc[p] = "stack"
        /\ IF nfree > 0
           THEN /\ kalloc
                /\ kstack' = [kstack EXCEPT ![c] = 1]
                /\ Goto(p, "kvm")
                /\ UNCHANGED <<state, op, tgt, at, end, mem, segs>>
           ELSE /\ state' = [state EXCEPT ![c] = "unused"]
                /\ Return(p)
                /\ UNCHANGED <<nfree, kstack>>
        /\ UNCHANGED <<lost, space, sz>>

(* exec() of a program, its inode read and found well-formed. *)
Exec(p, program) ==
    /\ state[p] = "live" /\ pc[p] = "idle"
    /\ op' = [op EXCEPT ![p] = "exec"]
    /\ tgt' = [tgt EXCEPT ![p] = <<p, "new">>]
    /\ segs' = [segs EXCEPT ![p] = program]
    /\ Goto(p, "kvm")
    /\ UNCHANGED <<nfree, lost, state, kstack, space, sz, at, end, mem>>

(* setupkvm(), page by page: the directory and the kernel's tables. *)
SetupKvm(p) ==
    LET s == tgt[p]
    IN  /\ pc[p] = "kvm"
        /\ space[s].ktabs < KTables
        /\ IF nfree = 0 THEN Goto(p, "fail") /\ UNCHANGED <<nfree, space>>
           ELSE /\ kalloc
                /\ space' = IF space[s].dir = 0 THEN [space EXCEPT ![s].dir = 1]
                                                ELSE [space EXCEPT ![s].ktabs = @ + 1]
                /\ UNCHANGED pc
        /\ UNCHANGED <<lost, state, kstack, sz, local, at, end, mem>>

(* copyuvm() then copies every page below sz; exec() has its first segment. *)
SetupKvmDone(p) ==
    /\ pc[p] = "kvm"
    /\ space[tgt[p]].ktabs = KTables
    /\ AllocUvm(p, 0, IF op[p] = "fork" THEN sz[p] ELSE Head(segs[p]))
    /\ segs' = [segs EXCEPT ![p] = IF op[p] = "fork" THEN @ ELSE Tail(@)]
    /\ UNCHANGED <<nfree, lost, state, kstack, space, sz, op, tgt, mem>>

-----------------------------------------------------------------------------
(* The loop of allocuvm() and of copyuvm(): a page, *)
KallocPage(p) ==
    /\ pc[p] = "alloc"
    /\ at[p] < PageUp(end[p])
    /\ IF nfree = 0 THEN Goto(p, "fail") /\ UNCHANGED <<nfree, mem>>
       ELSE /\ kalloc
            /\ mem' = [mem EXCEPT ![p] = 1]
            /\ Goto(p, "map")
    /\ UNCHANGED <<lost, state, kstack, space, sz, local, at, end>>

(* a page table if there is none for it (walkpgdir() in mappages()), *)
WalkPgdir(p) ==
    /\ pc[p] = "map"
    /\ PDX(at[p]) \notin space[tgt[p]].tabs
    /\ IF nfree = 0 THEN Goto(p, "fail") /\ UNCHANGED <<nfree, space>>
       ELSE /\ kalloc
            /\ space' = [space EXCEPT ![tgt[p]].tabs = @ \cup {PDX(at[p])}]
            /\ UNCHANGED pc
    /\ UNCHANGED <<lost, state, kstack, sz, local, at, end, mem>>

(* and its entry; one that is present already panics. *)
MapPage(p) ==
    /\ pc[p] = "map"
    /\ PDX(at[p]) \in space[tgt[p]].tabs
    /\ at[p] \notin space[tgt[p]].pages
    /\ space' = [space EXCEPT ![tgt[p]].pages = @ \cup {at[p]}]
    /\ mem' = [mem EXCEPT ![p] = 0]
    /\ at' = [at EXCEPT ![p] = @ + 1]
    /\ Goto(p, "alloc")
    /\ UNCHANGED <<nfree, lost, state, kstack, sz, local, end>>

Allocated(p, o) == pc[p] = "alloc" /\ op[p] = o /\ at[p] >= PageUp(end[p])

GrowDone(p) ==
    /\ Allocated(p, "sbrk")
    /\ sz' = [sz EXCEPT ![p] = end[p]]
    /\ Return(p)
    /\ UNCHANGED <<nfree, lost, state, kstack, space>>

ForkDone(p) ==
    LET c == tgt[p][1]
    IN  /\ Allocated(p, "fork")
        /\ sz' = [sz EXCEPT ![c] = sz[p]]
        /\ state' = [state EXCEPT ![c] = "live"]
        /\ Return(p)
        /\ UNCHANGED <<nfree, lost, kstack, space>>

(* exec() goes on to its next segment, *)
ExecSegment(p) ==
    /\ Allocated(p, "exec")
    /\ segs[p] # <<>>
    /\ AllocUvm(p, end[p], Head(segs[p]))
    /\ segs' = [segs EXCEPT ![p] = Tail(@)]
    /\ UNCHANGED <<nfree, lost, state, kstack, space, sz, op, tgt, mem>>

(* then to two pages for the guard page and the stack, *)
ExecStack(p) ==
    LET oldsz == PageUp(end[p]) * PGSIZE
        newsz == oldsz + 2 * PGSIZE
    IN  /\ Allocated(p, "exec")
        /\ segs[p] = <<>>
        /\ op' = [op EXCEPT ![p] = "argv"]
        /\ IF newsz >= KERNBASE THEN Goto(p, "fail") /\ UNCHANGED <<at, end>>
           ELSE AllocUvm(p, oldsz, newsz)
        /\ UNCHANGED <<nfree, lost, state, kstack, space, sz, tgt, mem, segs>>

(* and may fail on the way: a segment that cannot be read or is not        *)
(* aligned, arguments that do not fit.                                     *)
ExecBad(p) ==
    /\ Allocated(p, "exec") \/ Allocated(p, "argv")
    /\ Goto(p, "fail")
    /\ UNCHANGED <<nfree, lost, state, kstack, space, sz, local, at, end, mem>>

(* Commit to the new image and free the old one. *)
ExecDone(p) ==
    /\ Allocated(p, "argv")
    /\ kfree(PagesOf(<<p, "img">>))
    /\ space' = [space EXCEPT ![<<p, "img">>] = space[<<p, "new">>],
                              ![<<p, "new">>] = NoSpace]
    /\ sz' = [sz EXCEPT ![p] = end[p]]
    /\ Return(p)
    /\ UNCHANGED <<lost, state, kstack>>

-----------------------------------------------------------------------------
MutGrowFail(p) ==
    /\ pc[p] = "fail" /\ op[p] = "sbrk"
    /\ kfree(mem[p])
    /\ Return(p)
    /\ UNCHANGED <<lost, state, kstack, sz, space>>

(* allocuvm() out of memory in sbrk(): the pages added are freed again.    *)
GrowFail(p) ==
    LET freed == Dealloc(tgt[p], end[p], sz[p])
    IN  /\ pc[p] = "fail" /\ op[p] = "sbrk"
        /\ space' = [space EXCEPT ![tgt[p]].pages = @ \ freed]
        /\ kfree(Cardinality(freed) + mem[p])
        /\ Return(p)
        /\ UNCHANGED <<lost, state, kstack, sz>>

(* copyuvm() out of memory: freevm() and the kernel stack.  The page that  *)
(* mappages() could not map is not freed.                                  *)
ForkFail(p) ==
    LET c == tgt[p][1]
    IN  /\ pc[p] = "fail" /\ op[p] = "fork"
        /\ kfree(PagesOf(tgt[p]) + kstack[c])
        /\ lost' = lost + mem[p]
        /\ space' = [space EXCEPT ![tgt[p]] = NoSpace]
        /\ kstack' = [kstack EXCEPT ![c] = 0]
        /\ state' = [state EXCEPT ![c] = "unused"]
        /\ Return(p)
        /\ UNCHANGED sz

(* exec() fails: bad. *)
ExecFail(p) ==
    /\ pc[p] = "fail" /\ op[p] \in {"exec", "argv"}
    /\ kfree(PagesOf(tgt[p]) + mem[p])
    /\ space' = [space EXCEPT ![tgt[p]] = NoSpace]
    /\ Return(p)
    /\ UNCHANGED <<lost, state, kstack, sz>>

(* exit(), and wait() in the parent. *)
Reap(c) ==
    /\ c # Init1
    /\ state[c] = "live" /\ pc[c] \in {"idle", "gone"}
    /\ kfree(kstack[c] + PagesOf(<<c, "img">>))
    /\ kstack' = [kstack EXCEPT ![c] = 0]
    /\ space' = [space EXCEPT ![<<c, "img">>] = NoSpace]
    /\ state' = [state EXCEPT ![c] = "unused"]
    /\ sz' = [sz EXCEPT ![c] = 0]
    /\ Return(c)
    /\ UNCHANGED lost

Step(p) ==
    \/ \E n \in Deltas : Grow(p, n) \/ Shrink(p, n)
    \/ \E c \in Slots : Fork(p, c)
    \/ \E program \in Programs : Exec(p, program)
    \/ ForkStack(p) \/ SetupKvm(p) \/ SetupKvmDone(p)
    \/ KallocPage(p) \/ WalkPgdir(p) \/ MapPage(p)
    \/ GrowDone(p) \/ ForkDone(p) \/ ExecSegment(p) \/ ExecStack(p) \/ ExecBad(p)
    \/ ExecDone(p) \/ GrowFail(p) \/ ForkFail(p) \/ ExecFail(p) \/ Reap(p)

Next == \E p \in Slots : Step(p)

Spec == Init /\ [][Next]_vars

-----------------------------------------------------------------------------
Held(p) == kstack[p] + mem[p] + PagesOf(<<p, "img">>) + PagesOf(<<p, "new">>)

(* No page is freed twice and none is forgotten, however sbrk(), fork(),   *)
(* exec() and exit() of several processes run out of memory half-way: the  *)
(* free list and what processes hold add up to all pages, save for the     *)
(* pages a failing copyuvm() loses; and no counter leaves its type.        *)
PagesConserved == TypeOK /\ nfree + lost + MapThenSumSet(Held, Slots) = NPAGES

(* A process that is not in sbrk() has mapped exactly the pages below      *)
(* p->sz, as fork() relies on when it copies them and sbrk() when it adds  *)
(* the next one, after any failed call too; unless sbrk() took all of them. *)
SizeMapped ==
    \A p \in Slots : state[p] = "live" /\ op[p] # "sbrk" =>
        LET s == space[<<p, "img">>]
        IN  /\ s.pages = IF pc[p] = "gone" THEN {} ELSE 0 .. PageUp(sz[p]) - 1
            /\ {PDX(v) : v \in s.pages} \subseteq s.tabs

(* The pages add up and lie where the sizes say: a page that is mapped     *)
(* outside an image's size is one that exit() or exec() would lose.        *)
ImagesWhole == PagesConserved /\ SizeMapped
=============================================================================
