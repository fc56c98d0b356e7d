------------------------------ MODULE FileData ------------------------------
(***************************************************************************)
(* The contents of files: read() and write() of an open file (file.c), the *)
(* blocks of an inode and their allocation (fs.c), down to the blocks each *)
(* transaction logs.                                                       *)
(*                                                                         *)
(* The inode's lock serialises transfers on one file.  Between files the   *)
(* bitmap is shared; its block is locked while balloc() and bfree() look   *)
(* at it, so each of their calls is a step.  Names, links and references   *)
(* are module FileSys's business, crashes module Log's.                    *)
(***************************************************************************)
EXTENDS Integers, Sequences, FiniteSets, FiniteSetsExt

CONSTANTS
    Procs,
    Files, Inodes, InodeOf,   \* open files and the inode each is open on
    FilesOf,                  \* the files each process has a descriptor for
    CountsOf,                 \* the counts it reads and writes with
    MaxCount,                 \* the largest of them
    NBLOCKS,                  \* data blocks
    BSIZE, NDIRECT, NINDIRECT,
    MAXOPBLOCKS,
    Nobody

ASSUME SizeAssumption ==
    /\ {NBLOCKS, BSIZE, NDIRECT, NINDIRECT} \subseteq Nat \ {0}
    /\ NINDIRECT <= BSIZE /\ MAXOPBLOCKS \in Nat /\ MAXOPBLOCKS >= 6
ASSUME FileAssumption ==
    /\ Files # {} /\ InodeOf \in [Files -> Inodes] /\ FilesOf \in [Procs -> SUBSET Files]
    /\ MaxCount \in Nat /\ CountsOf \in [Procs -> SUBSET (1 .. MaxCount)]
    /\ Nobody \notin Procs

Blocks == 1 .. NBLOCKS
MAXFILE == NDIRECT + NINDIRECT
BitmapBlock == 0              \* one block holds the whole bitmap
InodeBlock == NBLOCKS + 1

MutMaxChunk == ((MAXOPBLOCKS - 1 - 1) \div 2) * BSIZE

(* Bytes one transaction of filewrite() writes at most. *)
MaxChunk == ((MAXOPBLOCKS - 1 - 1 - 2) \div 2) * BSIZE

VARIABLES
    bitmap,    \* blocks marked in use
    data,      \* the cells of each block: bytes, or block numbers if it is
               \* an indirect block.  Process p writes the byte p.
    inode,     \* the inodes in memory
    dinode,    \* and on disk
    lock,      \* holder of ip->lock
    off,       \* f->off
    pc, file,  \* the call of each process, and the file it is about
    left,      \* bytes filewrite() has not written yet
    tot,       \* bytes writei() has written; items itrunc() has freed
    logged,    \* blocks logged by the transaction of each process
    saved      \* history: the file's content when the process locked it

vars == <<bitmap, data, inode, dinode, lock, off, pc, file, left, tot, logged, saved>>

NoBlock == 0
Empty == [size |-> 0, addrs |-> [k \in 0 .. NDIRECT |-> NoBlock]]
Zeroes == [k \in 0 .. BSIZE - 1 |-> 0]

(* A free block holds what nobody may rely on. *)
Junk == NBLOCKS + 1
Garbage == [k \in 0 .. BSIZE - 1 |-> Junk]
NoFile == CHOOSE f \in Files : TRUE

TypeOK ==
    /\ bitmap \subseteq Blocks
    /\ data \in [Blocks -> [0 .. BSIZE - 1 -> Procs \cup {NoBlock, Junk} \cup Blocks]]
    /\ {inode, dinode} \subseteq
         [Inodes -> [size : 0 .. MAXFILE * BSIZE,
                     addrs : [0 .. NDIRECT -> Blocks \cup {NoBlock}]]]
    /\ lock \in [Inodes -> Procs \cup {Nobody}]
    /\ off \in [Files -> 0 .. MAXFILE * BSIZE]
    /\ pc \in [Procs -> {"idle", "chunk", "write", "trunc", "unlock"}]
    /\ file \in [Procs -> Files]
    /\ left \in [Procs -> Nat]
    /\ tot \in [Procs -> Nat]
    /\ logged \in [Procs -> SUBSET (Blocks \cup {BitmapBlock, InodeBlock})]

(* A file system on which every file is empty. *)
Init ==
    /\ bitmap = {}
    /\ data = [b \in Blocks |-> Garbage]
    /\ inode = [i \in Inodes |-> Empty] /\ dinode = inode
    /\ lock = [i \in Inodes |-> Nobody]
    /\ off = [f \in Files |-> 0]
    /\ pc = [p \in Procs |-> "idle"]
    /\ file = [p \in Procs |-> NoFile]
    /\ left = [p \in Procs |-> 0] /\ tot = left
    /\ logged = [p \in Procs |-> {}]
    /\ saved = [p \in Procs |-> <<>>]

Ip(p) == InodeOf[file[p]]

(* The block bmap() finds for block bn of a file, or NoBlock. *)
BlockAt(ino, bn) ==
    IF bn < NDIRECT THEN ino.addrs[bn]
    ELSE IF ino.addrs[NDIRECT] = NoBlock THEN NoBlock
    ELSE data[ino.addrs[NDIRECT]][bn - NDIRECT]

(* The bytes readi() returns for a whole file. *)
Content(i) ==
    [k \in 1 .. inode[i].size |->
        data[BlockAt(inode[i], (k - 1) \div BSIZE)][(k - 1) % BSIZE]]

-----------------------------------------------------------------------------
(* read(): under the inode's lock, as much as there is.  fileread() starts *)
(* no transaction.                                                         *)
Read(p, f, n) ==
    /\ pc[p] = "idle"
    /\ lock[InodeOf[f]] = Nobody
    /\ off' = [off EXCEPT ![f] = @ + Min({n, inode[InodeOf[f]].size - @})]
    /\ UNCHANGED <<bitmap, data, inode, dinode, lock, pc, file, left, tot, logged, saved>>

(* write() of n bytes. *)
Write(p, f, n) ==
    /\ pc[p] = "idle"
    /\ pc' = [pc EXCEPT ![p] = "chunk"]
    /\ file' = [file EXCEPT ![p] = f]
    /\ left' = [left EXCEPT ![p] = n]
    /\ UNCHANGED <<bitmap, data, inode, dinode, lock, off, tot, logged, saved>>

Lock(p, place) ==
    /\ lock[Ip(p)] = Nobody
    /\ lock' = [lock EXCEPT ![Ip(p)] = p]
    /\ pc' = [pc EXCEPT ![p] = place]
    /\ saved' = [saved EXCEPT ![p] = Content(Ip(p))]

(* The bytes of this transaction, and where the next of them goes. *)
Chunk(p) == Min({left[p], MaxChunk})
Pos(p) == off[file[p]] + tot[p]
Bn(p) == Pos(p) \div BSIZE

Refuses(p) ==
    off[file[p]] > inode[Ip(p)].size \/ off[file[p]] + Chunk(p) > MAXFILE * BSIZE

(* A transaction of filewrite(): writei() refuses what would pass the end  *)
(* of the largest file, and write() then gives up,                         *)
WriteRefused(p) ==
    /\ pc[p] = "chunk"
    /\ lock[Ip(p)] = Nobody
    /\ Refuses(p)
    /\ pc' = [pc EXCEPT ![p] = "idle"]
    /\ file' = [file EXCEPT ![p] = NoFile] /\ left' = [left EXCEPT ![p] = 0]
    /\ UNCHANGED <<bitmap, data, inode, dinode, lock, off, tot, logged, saved>>

(* or it goes through the blocks one by one. *)
WriteStart(p) ==
    /\ pc[p] = "chunk"
    /\ ~Refuses(p)
    /\ Lock(p, "write")
    /\ UNCHANGED <<bitmap, data, inode, dinode, off, file, left, tot, logged>>

(* The block balloc() takes; there is a panic if there is none. *)
FreeBlock == Min(Blocks \ bitmap)

(* What balloc() makes of the data blocks d: block b is zeroed. *)
Balloc(d, b) == [d EXCEPT ![b] = Zeroes]

(* bmap(): the indirect block first, if there is none; *)
BmapIndirect(p) ==
    /\ pc[p] = "write" /\ tot[p] < Chunk(p)
    /\ Bn(p) >= NDIRECT
    /\ inode[Ip(p)].addrs[NDIRECT] = NoBlock
    /\ bitmap # Blocks
    /\ bitmap' = bitmap \cup {FreeBlock}
    /\ data' = Balloc(data, FreeBlock)
    /\ inode' = [inode EXCEPT ![Ip(p)].addrs[NDIRECT] = FreeBlock]
    /\ logged' = [logged EXCEPT ![p] = @ \cup {BitmapBlock, FreeBlock}]
    /\ UNCHANGED <<dinode, lock, off, pc, file, left, tot, saved>>

(* then the data block; *)
Bmap(p) ==
    LET i == Ip(p)
        ind == inode[i].addrs[NDIRECT]
    IN  /\ pc[p] = "write" /\ tot[p] < Chunk(p)
        /\ Bn(p) >= NDIRECT => ind # NoBlock
        /\ BlockAt(inode[i], Bn(p)) = NoBlock
        /\ bitmap # Blocks
        /\ bitmap' = bitmap \cup {FreeBlock}
        /\ IF Bn(p) < NDIRECT
           THEN /\ inode' = [inode EXCEPT ![i].addrs[Bn(p)] = FreeBlock]
                /\ data' = Balloc(data, FreeBlock)
                /\ logged' = [logged EXCEPT ![p] = @ \cup {BitmapBlock, FreeBlock}]
           ELSE /\ data' = [Balloc(data, FreeBlock) EXCEPT
                              ![ind][Bn(p) - NDIRECT] = FreeBlock]
                /\ logged' = [logged EXCEPT ![p] = @ \cup {BitmapBlock, FreeBlock, ind}]
                /\ UNCHANGED inode
        /\ UNCHANGED <<dinode, lock, off, pc, file, left, tot, saved>>

(* The bytes that go into one block. *)
Part(p) == Min({Chunk(p) - tot[p], BSIZE - (Pos(p) % BSIZE)})

(* and the bytes that go into it. *)
WriteBlock(p) ==
    LET b == BlockAt(inode[Ip(p)], Bn(p))
        o == Pos(p) % BSIZE
    IN  /\ pc[p] = "write" /\ tot[p] < Chunk(p)
        /\ b # NoBlock
        /\ data' = [data EXCEPT ![b] =
                      [k \in 0 .. BSIZE - 1 |-> IF k \in o .. o + Part(p) - 1 THEN p ELSE @[k]]]
        /\ tot' = [tot EXCEPT ![p] = @ + Part(p)]
        /\ logged' = [logged EXCEPT ![p] = @ \cup {b}]
        /\ UNCHANGED <<bitmap, inode, dinode, lock, off, pc, file, left, saved>>

MutGrown(ino, end) == [ino EXCEPT !.size = end]

(* The inode after a write that ends at byte `end'. *)
Grown(ino, end) == IF end > ino.size THEN [ino EXCEPT !.size = end] ELSE ino

(* The end of writei(): a file that grew is written to disk. *)
WriteEnd(p) ==
    LET i == Ip(p)
    IN  /\ pc[p] = "write" /\ tot[p] = Chunk(p)
        /\ inode' = [inode EXCEPT ![i] = Grown(@, Pos(p))]
        /\ IF Pos(p) > inode[i].size
           THEN /\ dinode' = [dinode EXCEPT ![i] = inode'[i]]
                /\ logged' = [logged EXCEPT ![p] = @ \cup {InodeBlock}]
           ELSE UNCHANGED <<dinode, logged>>
        /\ off' = [off EXCEPT ![file[p]] = @ + tot[p]]
        /\ pc' = [pc EXCEPT ![p] = "unlock"]
        /\ UNCHANGED <<bitmap, data, lock, file, left, tot, saved>>

(* iunlock() and end_op(), then the next transaction if there is more. *)
Unlock(p) ==
    /\ pc[p] = "unlock"
    /\ lock' = [lock EXCEPT ![Ip(p)] = Nobody]
    /\ left' = [left EXCEPT ![p] = @ - Chunk(p)]
    /\ IF left'[p] > 0
       THEN pc' = [pc EXCEPT ![p] = "chunk"] /\ UNCHANGED file
       ELSE pc' = [pc EXCEPT ![p] = "idle"] /\ file' = [file EXCEPT ![p] = NoFile]
    /\ tot' = [tot EXCEPT ![p] = 0]
    /\ logged' = [logged EXCEPT ![p] = {}]
    /\ saved' = [saved EXCEPT ![p] = <<>>]
    /\ UNCHANGED <<bitmap, data, inode, dinode, off>>

-----------------------------------------------------------------------------
(* The last close() of a file without a name: iput() calls itrunc(). *)
TruncStart(p, f) ==
    /\ pc[p] = "idle"
    /\ \A q \in Procs : pc[q] # "idle" => Ip(q) # InodeOf[f]
    /\ lock[InodeOf[f]] = Nobody
    /\ lock' = [lock EXCEPT ![InodeOf[f]] = p]
    /\ pc' = [pc EXCEPT ![p] = "trunc"]
    /\ file' = [file EXCEPT ![p] = f]
    /\ saved' = [saved EXCEPT ![p] = Content(InodeOf[f])]
    /\ UNCHANGED <<bitmap, data, inode, dinode, off, left, tot, logged>>

(* What itrunc() frees, in order: direct blocks, the blocks the indirect   *)
(* block lists, the indirect block.                                        *)
ItemAt(ino, k) == IF k < MAXFILE THEN BlockAt(ino, k) ELSE ino.addrs[NDIRECT]
Items(p) == {k \in tot[p] .. MAXFILE : ItemAt(inode[Ip(p)], k) # NoBlock}

MutCleared(ino, k) == IF k < NDIRECT THEN [ino EXCEPT !.addrs[k] = NoBlock] ELSE ino

(* The entries of ip->addrs are reset as their blocks are freed; those of  *)
(* the indirect block are not.                                             *)
Cleared(ino, k) ==
    IF k < NDIRECT THEN [ino EXCEPT !.addrs[k] = NoBlock]
    ELSE IF k = MAXFILE THEN [ino EXCEPT !.addrs[NDIRECT] = NoBlock]
    ELSE ino

(* bfree() of the next of them; a block that is free already panics. *)
TruncBlock(p) ==
    LET k == Min(Items(p))
        b == ItemAt(inode[Ip(p)], k)
    IN  /\ pc[p] = "trunc"
        /\ Items(p) # {}
        /\ b \in bitmap
        /\ bitmap' = bitmap \ {b}
        /\ data' = [data EXCEPT ![b] = Garbage]
        /\ inode' = [inode EXCEPT ![Ip(p)] = Cleared(@, k)]
        /\ tot' = [tot EXCEPT ![p] = k + 1]
        /\ logged' = [logged EXCEPT ![p] = @ \cup {BitmapBlock}]
        /\ UNCHANGED <<dinode, lock, off, pc, file, left, saved>>

(* The empty inode is written to disk.  Whoever is next to use it opened a *)
(* new file.                                                               *)
TruncEnd(p) ==
    /\ pc[p] = "trunc"
    /\ Items(p) = {}
    /\ inode' = [inode EXCEPT ![Ip(p)].size = 0]
    /\ dinode' = [dinode EXCEPT ![Ip(p)] = inode'[Ip(p)]]
    /\ off' = [f \in Files |-> IF InodeOf[f] = Ip(p) THEN 0 ELSE off[f]]
    /\ pc' = [pc EXCEPT ![p] = "unlock"]
    /\ logged' = [logged EXCEPT ![p] = @ \cup {InodeBlock}]
    /\ UNCHANGED <<bitmap, data, lock, file, left, tot, saved>>

Next ==
    \E p \in Procs :
        \/ \E f \in FilesOf[p], n \in CountsOf[p] : Read(p, f, n) \/ Write(p, f, n)
        \/ \E f \in FilesOf[p] : TruncStart(p, f)
        \/ WriteRefused(p) \/ WriteStart(p) \/ BmapIndirect(p) \/ Bmap(p)
        \/ WriteBlock(p) \/ WriteEnd(p) \/ Unlock(p)
        \/ TruncBlock(p) \/ TruncEnd(p)

Spec == Init /\ [][Next]_vars

-----------------------------------------------------------------------------
(* The places that refer to a block.  itrunc() leaves the entries it is    *)
(* through with in the indirect block, which goes last.                    *)
Passed(i) == IF lock[i] # Nobody /\ pc[lock[i]] = "trunc" THEN tot[lock[i]] ELSE 0
Refs == {r \in Inodes \X (0 .. MAXFILE) :
            r[2] >= Passed(r[1]) /\ ItemAt(inode[r[1]], r[2]) # NoBlock}
RefBlock(r) == ItemAt(inode[r[1]], r[2])

(* Every block in use belongs to one place of one file and every other     *)
(* block is free, however allocations of several files interleave.  A file *)
(* has all blocks below its size, so that readi(), which fileread() calls  *)
(* outside of any transaction, never allocates; and an inode nobody has    *)
(* locked is on disk as it is in memory, so that the cache may drop it.    *)
(* (The variables' types with it.)                                         *)
BlocksExact ==
    /\ TypeOK
    /\ bitmap = {RefBlock(r) : r \in Refs}
    /\ \A r, s \in Refs : RefBlock(r) = RefBlock(s) => r = s
    /\ \A i \in Inodes : lock[i] = Nobody =>
         /\ \A k \in 0 .. MAXFILE - 1 : k * BSIZE < inode[i].size => <<i, k>> \in Refs
         /\ dinode[i] = inode[i]

(* No transaction of filewrite() or itrunc() logs as many blocks as        *)
(* begin_op() reserves for it, unaligned writes and new indirect blocks    *)
(* included: what log_write() needs in order not to panic.                 *)
OpFits == \A p \in Procs : Cardinality(logged[p]) < MAXOPBLOCKS

Visible ==
    [i \in Inodes |-> IF lock[i] = Nobody \/ pc[lock[i]] = "unlock"
                      THEN Content(i) ELSE saved[lock[i]]]
Store == INSTANCE FileStore WITH
    Bytes <- Procs, content <- Visible

(* Block by block, through indirect blocks and with transfers of several   *)
(* processes in progress, files behave like sequences of bytes: a transfer *)
(* changes the bytes at its offset, all of them and in this file only.     *)
IsFileStore == Store!Spec
=============================================================================
