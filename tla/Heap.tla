-------------------------------- MODULE Heap --------------------------------
(***************************************************************************)
(* The user programs' allocator (umalloc.c): a circular list of free       *)
(* blocks in order of address, which malloc() searches first fit from      *)
(* freep, splits and grows with sbrk(), and free() merges with its         *)
(* neighbours.  Addresses and sizes count units of one Header.             *)
(***************************************************************************)
EXTENDS Integers, FiniteSets, FiniteSetsExt

CONSTANTS
    HEADER,     \* sizeof(Header)
    CORE,       \* least number of units morecore() asks for
    Requests,   \* sizes in bytes that programs allocate
    HEAPMAX     \* bound: where the break may not go beyond

ASSUME HeapAssumption ==
    /\ HEADER \in Nat \ {0} /\ CORE \in Nat \ {0} /\ HEAPMAX \in Nat
    /\ Requests \subseteq Nat

base == 0     \* &base: below the heap
NULL == -1
Units == base .. HEAPMAX

VARIABLES
    heap,      \* the headers (ptr and size at each address) and freep
    brk,       \* the process's break
    arena,     \* units that morecore() has got from sbrk()
    asked      \* the blocks programs hold: their addresses, and the bytes they want

heapVars == <<heap, brk, arena, asked>>

HeapInit ==
    /\ heap = [ptr |-> [a \in Units |-> NULL], size |-> [a \in Units |-> 0],
               freep |-> NULL]
    /\ brk = base + 1 /\ arena = {} /\ asked = [a \in {} |-> 0]

(* Headers that are no longer in use read as those of HeapInit. *)
SetPtr(h, a, p) == [h EXCEPT !.ptr[a] = p]
SetSize(h, a, s) == [h EXCEPT !.size[a] = s]
Drop(h, a) == SetSize(SetPtr(h, a, NULL), a, 0)

-----------------------------------------------------------------------------
(* free()'s loop, from p: the free block after which bp belongs. *)
RECURSIVE Place(_, _, _)
Place(h, p, bp) ==
    LET next == h.ptr[p] IN
    IF \/ bp > p /\ bp < next
       \/ p >= next /\ (bp > p \/ bp < next)
    THEN p
    ELSE Place(h, next, bp)

(* bp is joined to the block after it, *)
JoinUpper(h, p, bp) ==
    LET next == h.ptr[p] IN
    IF bp + h.size[bp] = next
    THEN Drop(SetPtr(SetSize(h, bp, h.size[bp] + h.size[next]), bp, h.ptr[next]), next)
    ELSE SetPtr(h, bp, next)

MutJoinLower(h, p, bp) ==
    IF p + h.size[p] = bp
    THEN Drop(SetSize(h, p, h.size[p] + h.size[bp]), bp)
    ELSE SetPtr(h, p, bp)

(* and to the block before it. *)
JoinLower(h, p, bp) ==
    IF p + h.size[p] = bp
    THEN Drop(SetPtr(SetSize(h, p, h.size[p] + h.size[bp]), p, h.ptr[bp]), bp)
    ELSE SetPtr(h, p, bp)

free(h, bp) ==
    LET p == Place(h, h.freep, bp)
    IN  [JoinLower(JoinUpper(h, p, bp), p, bp) EXCEPT !.freep = p]

CoreUnits(nu) == IF nu < CORE THEN CORE ELSE nu

(* malloc()'s loop: takes the first block that is large enough, its upper  *)
(* end if it is larger; after a whole turn asks for more, once if sbrk()   *)
(* answers, and gives up if it does not.  The result is the heap, the      *)
(* block, and the break.                                                   *)
RECURSIVE Search(_, _, _, _, _, _)
Search(h, prevp, p, nunits, top, answers) ==
    IF h.size[p] = nunits
    THEN [heap |-> [SetPtr(SetPtr(h, prevp, h.ptr[p]), p, NULL) EXCEPT !.freep = prevp],
          block |-> p, brk |-> top]
    ELSE IF h.size[p] > nunits
    THEN LET rest == h.size[p] - nunits
         IN  [heap |-> [SetSize(SetSize(h, p, rest), p + rest, nunits) EXCEPT !.freep = prevp],
              block |-> p + rest, brk |-> top]
    ELSE IF p # h.freep
    THEN Search(h, p, h.ptr[p], nunits, top, answers)
    ELSE IF ~answers \/ top + CoreUnits(nunits) > HEAPMAX + 1
    THEN [heap |-> h, block |-> NULL, brk |-> top]
    ELSE LET grown == free(SetSize(h, top, CoreUnits(nunits)), top)
         IN  Search(grown, grown.freep, grown.ptr[grown.freep], nunits,
                    top + CoreUnits(nunits), answers)

UnitsFor(nbytes) == (nbytes + HEADER - 1) \div HEADER + 1

malloc(nbytes) ==
    \E answers \in BOOLEAN :
        LET h == IF heap.freep = NULL
                 THEN [SetPtr(heap, base, base) EXCEPT !.freep = base] ELSE heap
            got == Search(h, h.freep, h.ptr[h.freep], UnitsFor(nbytes), brk, answers)
        IN  /\ heap' = got.heap /\ brk' = got.brk
            /\ arena' = arena \cup brk .. got.brk - 1
            /\ asked' = IF got.block = NULL THEN asked
                        ELSE [a \in DOMAIN asked \cup {got.block} |->
                                 IF a = got.block THEN nbytes ELSE asked[a]]

(* A program frees a block that it holds. *)
Free ==
    \E a \in DOMAIN asked :
        /\ heap' = free(heap, a)
        /\ asked' = [b \in DOMAIN asked \ {a} |-> asked[b]]
        /\ UNCHANGED <<brk, arena>>

(* A program calls sbrk() itself: what morecore() gets next is not adjacent. *)
Sbrk ==
    /\ brk <= HEAPMAX
    /\ brk' = brk + 1
    /\ UNCHANGED <<heap, arena, asked>>

HeapNext == (\E n \in Requests : malloc(n)) \/ Free \/ Sbrk

-----------------------------------------------------------------------------
Block(a) == a .. a + heap.size[a] - 1
FreeBlocks == {a \in Units : heap.size[a] > 0} \ DOMAIN asked

(* After any sequence of calls the blocks that programs hold and the free  *)
(* ones tile what sbrk() gave: none overlap, nothing is lost, each held    *)
(* block has room for its header and the bytes asked for.  The list links  *)
(* exactly the free blocks, in a circle through base in order of address,  *)
(* freep is one of them, and no two free blocks are adjacent.              *)
HeapTiled ==
    LET blocks == FreeBlocks \cup DOMAIN asked
        nodes == FreeBlocks \cup {base}
        Above(a) == {b \in FreeBlocks : b > a}
    IN  /\ \A a, b \in blocks : a # b => Block(a) \cap Block(b) = {}
        /\ UNION {Block(a) : a \in blocks} = arena
        /\ \A a \in DOMAIN asked : (heap.size[a] - 1) * HEADER >= asked[a]
        /\ heap.freep # NULL =>
            /\ heap.freep \in nodes
            /\ \A a \in nodes : heap.ptr[a] = IF Above(a) = {} THEN base ELSE Min(Above(a))
        /\ \A a \in FreeBlocks : a + heap.size[a] \notin FreeBlocks
=============================================================================
