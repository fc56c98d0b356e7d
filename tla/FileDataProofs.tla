--------------------------- MODULE FileDataProofs ---------------------------
(***************************************************************************)
(* The blocks of files for any processes, files, inodes, counts and        *)
(* geometry of the disk: writei(), bmap() and itrunc(), interleaved block  *)
(* by block by processes at different files, never share, leak or lose a   *)
(* block.                                                                  *)
(*                                                                         *)
(* The inductive invariant sees all files as one table of places: the      *)
(* direct blocks, the entries of the indirect block and, last, the         *)
(* indirect block itself, the order in which itrunc() frees them.  The     *)
(* allocated blocks are those of the places that no itrunc() has passed,   *)
(* each in one place, and an indirect block is never a data block, so that *)
(* writing data cannot change the table.  Around it: who is at a block of  *)
(* a file holds the inode's lock, and the blocks below the file's size, or *)
(* below the place that writei() has come to, exist.                       *)
(***************************************************************************)
EXTENDS FileData, WellFoundedInduction, TLAPS

(* Zenon goes first, the solver second and with 30 seconds for a leaf. *)
USE ZenonT(10), SMTT(30)

Held == {"write", "trunc", "unlock"}

(* Who is at a block of a file holds its lock. *)
HoldsOK(p) == pc[p] \in Held => lock[Ip(p)] = p

HeldOK(i) == lock[i] # Nobody => Ip(lock[i]) = i /\ pc[lock[i]] \in Held

(* The blocks of all files as one table, given the blocks' cells and the   *)
(* inodes, and where itrunc() is in it.                                    *)
ItemOf(d, ino, k) ==
    IF k < NDIRECT THEN ino.addrs[k]
    ELSE IF k = MAXFILE THEN ino.addrs[NDIRECT]
    ELSE IF ino.addrs[NDIRECT] = NoBlock THEN NoBlock
    ELSE d[ino.addrs[NDIRECT]][k - NDIRECT]

TableOf(d, inos) == [i \in Inodes |-> [k \in 0 .. MAXFILE |-> ItemOf(d, inos[i], k)]]

Table == TableOf(data, inode)

Front == [i \in Inodes |-> Passed(i)]

Uses(t, ps, i, k) == ps[i] <= k /\ t[i][k] # NoBlock

(* Table t refers to the blocks bm, to each once. *)
Layout(bm, t, ps) ==
    /\ \A i \in Inodes, k \in 0 .. MAXFILE : Uses(t, ps, i, k) => t[i][k] \in bm
    /\ \A b \in bm : \E i \in Inodes, k \in 0 .. MAXFILE : Uses(t, ps, i, k) /\ t[i][k] = b
    /\ \A i, j \in Inodes : \A k, l \in 0 .. MAXFILE :
         Uses(t, ps, i, k) /\ Uses(t, ps, j, l) /\ t[i][k] = t[j][l] => i = j /\ k = l

(* The entries of an inode that itrunc() is through with are reset. *)
Reset(inos, ps) ==
    \A i \in Inodes :
        /\ \A k \in 0 .. NDIRECT - 1 : k < ps[i] => inos[i].addrs[k] = NoBlock
        /\ ps[i] > MAXFILE => inos[i].addrs[NDIRECT] = NoBlock

Truncating(i) == lock[i] # Nobody /\ pc[lock[i]] = "trunc"

(* A file has its blocks and is on disk unless a process is at it. *)
SizeOK(i) ==
    /\ \A f \in Files : InodeOf[f] = i => off[f] <= inode[i].size
    /\ ~Truncating(i) =>
         \A k \in 0 .. MAXFILE - 1 : k * BSIZE < inode[i].size => Table[i][k] # NoBlock
    /\ lock[i] = Nobody \/ pc[lock[i]] = "unlock" => dinode[i] = inode[i]

(* A transaction of filewrite() in progress. *)
WriteOK(p, i) ==
    /\ off[file[p]] + Chunk(p) <= MAXFILE * BSIZE
    /\ tot[p] <= Chunk(p)
    /\ \A k \in 0 .. MAXFILE - 1 : k * BSIZE < Pos(p) => Table[i][k] # NoBlock
    /\ dinode[i] = inode[i] \/ off[file[p]] + Chunk(p) > inode[i].size

CallOK(p) ==
    /\ pc[p] \in {"idle", "chunk"} => tot[p] = 0 /\ logged[p] = {}
    /\ left[p] <= MaxCount /\ (pc[p] \in {"chunk", "write"} => left[p] > 0)
    /\ pc[p] = "write" => WriteOK(p, Ip(p))

-----------------------------------------------------------------------------
(* Places in a file and the blocks they are in. *)
LEMMA Sizes ==
    /\ BSIZE \in Nat \ {0} /\ NDIRECT \in Nat \ {0} /\ NINDIRECT \in Nat \ {0}
    /\ NBLOCKS \in Nat \ {0} /\ MAXFILE \in Nat \ {0} /\ MAXFILE = NDIRECT + NINDIRECT
    /\ NINDIRECT <= BSIZE /\ MAXOPBLOCKS \in Nat /\ MAXOPBLOCKS >= 6
    /\ MAXFILE * BSIZE \in Nat
<1>1. /\ BSIZE \in Nat \ {0} /\ NDIRECT \in Nat \ {0} /\ NINDIRECT \in Nat \ {0}
      /\ NBLOCKS \in Nat \ {0}
      /\ NINDIRECT <= BSIZE /\ MAXOPBLOCKS \in Nat /\ MAXOPBLOCKS >= 6
  BY SizeAssumption
<1>2. MAXFILE \in Nat \ {0} /\ MAXFILE = NDIRECT + NINDIRECT
  BY <1>1 DEF MAXFILE
<1>3. MAXFILE * BSIZE \in Nat
  BY <1>1, <1>2
<1> QED
  BY <1>1, <1>2, <1>3

(* Multiplication is monotonic, the step the solver does not make. *)
LEMMA Multiples ==
    ASSUME NEW b \in Nat \ {0}, NEW q \in Int, NEW x \in Int, q < x
    PROVE  b * q + b <= b * x
<1>1. PICK d \in Nat : x = q + 1 + d
  <2>1. x - q - 1 \in Nat /\ x = q + 1 + (x - q - 1)
    OBVIOUS
  <2> QED
    BY <2>1
<1>2. b * x = b * q + b + b * d
  BY <1>1
<1>3. b * d \in Nat /\ b * q \in Int
  OBVIOUS
<1> QED
  BY <1>2, <1>3

(* Quotient and remainder make up the number. *)
LEMMA Divide ==
    ASSUME NEW b \in Nat \ {0}, NEW x \in Nat
    PROVE  /\ x \div b \in Nat /\ x % b \in 0 .. b - 1
           /\ x = b * (x \div b) + (x % b)
<1>0. x % b \in 0 .. b - 1
  OBVIOUS
<1>1. x \div b \in Int /\ x = b * (x \div b) + (x % b)
  OBVIOUS
<1>2. PICK q \in Int, r \in 0 .. b - 1 : q = x \div b /\ r = x % b /\ x = b * q + r
  BY <1>0, <1>1
<1>3. ~(q < 0)
  <2>1. SUFFICES ASSUME q < 0 PROVE FALSE
    OBVIOUS
  <2>2. b * q + b <= b * 0
    BY <2>1, Multiples
  <2>3. b * q \in Int /\ b * 0 = 0
    OBVIOUS
  <2> QED
    BY <1>2, <2>2, <2>3
<1>4. q \in Nat
  BY <1>3
<1>5. q = x \div b
  BY <1>2
<1>6. x \div b \in Nat
  BY <1>4, <1>5, Zenon
<1> QED
  BY <1>0, <1>1, <1>6, Zenon

(* The same for places and blocks, with the product named. *)
LEMMA Quotient ==
    ASSUME NEW x \in Nat
    PROVE  \E q \in Nat, r \in 0 .. BSIZE - 1, m \in Nat :
             q = x \div BSIZE /\ r = x % BSIZE /\ m = BSIZE * q /\ x = m + r
<1>1. PICK q \in Nat, r \in 0 .. BSIZE - 1 : q = x \div BSIZE /\ r = x % BSIZE /\ x = BSIZE * q + r
  BY Sizes, Divide
<1>2. BSIZE * q \in Nat
  BY Sizes
<1> QED
  BY <1>1, <1>2, Zenon

(* A place below the end of the largest file is in one of its blocks. *)
LEMMA BlockOfPlace ==
    ASSUME NEW x \in Nat
    PROVE  /\ x \div BSIZE \in Nat /\ x % BSIZE \in 0 .. BSIZE - 1
           /\ (x \div BSIZE) * BSIZE <= x
           /\ x < MAXFILE * BSIZE => x \div BSIZE \in 0 .. MAXFILE - 1
<1>1. PICK q \in Nat, r \in 0 .. BSIZE - 1, m \in Nat :
             q = x \div BSIZE /\ r = x % BSIZE /\ m = BSIZE * q /\ x = m + r
  BY Quotient
<1>2. x = m + r /\ m = BSIZE * q
  BY <1>1
<1>3. m = q * BSIZE
  BY <1>2, Sizes
<1>4. q * BSIZE <= x
  BY <1>2, <1>3
<1>5. ASSUME x < MAXFILE * BSIZE PROVE q \in 0 .. MAXFILE - 1
  <2>1. SUFFICES ASSUME MAXFILE <= q PROVE FALSE
    BY Sizes
  <2>2. BSIZE * MAXFILE <= BSIZE * q
    <3>1. CASE MAXFILE = q
      BY <3>1, Sizes
    <3>2. CASE MAXFILE < q
      <4>1. BSIZE * MAXFILE + BSIZE <= BSIZE * q
        BY <3>2, Multiples, Sizes
      <4> QED
        BY <4>1, Sizes
    <3> QED
      BY <2>1, <3>1, <3>2, Sizes
  <2>3. BSIZE * MAXFILE = MAXFILE * BSIZE
    BY Sizes
  <2> QED
    BY <1>2, <1>5, <2>2, <2>3, Sizes
<1>6. q = x \div BSIZE /\ r = x % BSIZE
  BY <1>1
<1> QED
  BY <1>4, <1>5, <1>6, Zenon

(* The blocks that start before the end of a part of one block. *)
LEMMA StartsBefore ==
    ASSUME NEW x \in Nat, NEW n \in Nat, n <= BSIZE - (x % BSIZE), NEW k \in Nat,
           k * BSIZE < x + n
    PROVE  k * BSIZE < x \/ k = x \div BSIZE
<1>1. PICK q \in Nat, r \in 0 .. BSIZE - 1 : q = x \div BSIZE /\ r = x % BSIZE /\ x = BSIZE * q + r
  BY Sizes, Divide
<1>2. BSIZE * q \in Nat /\ BSIZE * k \in Nat /\ k * BSIZE = BSIZE * k
  BY Sizes
<1>3. CASE k < q
  <2>1. BSIZE * k + BSIZE <= BSIZE * q
    BY <1>3, Multiples, Sizes
  <2> QED
    BY <2>1, <1>1, <1>2, Sizes
<1>4. ~(q < k)
  <2>1. SUFFICES ASSUME q < k PROVE FALSE
    OBVIOUS
  <2>2. BSIZE * q + BSIZE <= BSIZE * k
    BY <2>1, Multiples, Sizes
  <2> QED
    BY <2>2, <1>1, <1>2, Sizes
<1> QED
  BY <1>1, <1>3, <1>4

(* The places of a file in the order of itrunc(), and the blocks.          *)
LEMMA LastPlace ==
    /\ MAXFILE \in 0 .. MAXFILE /\ ~(MAXFILE < NDIRECT) /\ NDIRECT \in 0 .. NDIRECT
    /\ NoBlock \notin Blocks /\ Blocks \subseteq Nat /\ 0 \in 0 .. MAXFILE * BSIZE
  BY Sizes DEF Blocks, NoBlock

LEMMA AnyPlace ==
    ASSUME NEW k \in 0 .. MAXFILE
    PROVE  /\ k \in Nat /\ 0 <= k /\ k + 1 \in Nat
           /\ k # MAXFILE => k \in 0 .. MAXFILE - 1 /\ k < MAXFILE /\ ~(k + 1 > MAXFILE)
           /\ k < NDIRECT => k \in 0 .. NDIRECT - 1
           /\ ~(k < NDIRECT) /\ k # MAXFILE =>
                k \in NDIRECT .. MAXFILE - 1 /\ k - NDIRECT \in 0 .. BSIZE - 1
  BY Sizes

LEMMA DirectPlace ==
    ASSUME NEW k \in 0 .. NDIRECT - 1
    PROVE  /\ k \in 0 .. NDIRECT /\ k # NDIRECT /\ k < NDIRECT
           /\ k \in 0 .. MAXFILE /\ k # MAXFILE
  BY Sizes

LEMMA DataPlace ==
    ASSUME NEW k \in 0 .. MAXFILE - 1
    PROVE  /\ k \in 0 .. MAXFILE /\ k # MAXFILE /\ k < MAXFILE /\ 0 <= k
           /\ k * BSIZE \in Nat /\ ~(k * BSIZE < 0)
  BY Sizes

LEMMA PlacesFrom ==
    ASSUME NEW a \in Nat, NEW k
    PROVE  k \in a .. MAXFILE <=> k \in 0 .. MAXFILE /\ a <= k
  BY Sizes

-----------------------------------------------------------------------------
(* A table of blocks and the bitmap. *)

(* t2 is t with block x in place k of file i. *)
Replaced(t, t2, i, k, x) ==
    \A j \in Inodes, l \in 0 .. MAXFILE :
        t2[j][l] = IF j = i /\ l = k THEN x ELSE t[j][l]

(* A free block put into an empty place. *)
LEMMA AddRef ==
    ASSUME NEW bm \in SUBSET Blocks, NEW t, NEW t2, NEW ps \in [Inodes -> Nat],
           Layout(bm, t, ps), NEW i \in Inodes, NEW k \in 0 .. MAXFILE,
           ps[i] <= k, t[i][k] = NoBlock, NEW x \in Blocks \ bm, Replaced(t, t2, i, k, x)
    PROVE  Layout(bm \cup {x}, t2, ps)
<1>1. x # NoBlock
  BY LastPlace
<1>2. Uses(t2, ps, i, k) /\ t2[i][k] = x
  BY <1>1 DEF Uses, Replaced
<1>3. ASSUME NEW j \in Inodes, NEW l \in 0 .. MAXFILE, ~(j = i /\ l = k)
      PROVE  t2[j][l] = t[j][l] /\ (Uses(t2, ps, j, l) <=> Uses(t, ps, j, l))
  BY <1>3 DEF Uses, Replaced
<1>4. ASSUME NEW j \in Inodes, NEW l \in 0 .. MAXFILE, Uses(t2, ps, j, l), ~(j = i /\ l = k)
      PROVE  t2[j][l] \in bm
  BY <1>3, <1>4 DEF Layout
<1>5. \A j \in Inodes, l \in 0 .. MAXFILE : Uses(t2, ps, j, l) => t2[j][l] \in bm \cup {x}
  BY <1>2, <1>4
<1>6. ASSUME NEW b \in bm \cup {x}
      PROVE  \E j \in Inodes, l \in 0 .. MAXFILE : Uses(t2, ps, j, l) /\ t2[j][l] = b
  <2>1. CASE b = x
    BY <2>1, <1>2
  <2>2. CASE b \in bm
    <3>1. PICK j \in Inodes, l \in 0 .. MAXFILE : Uses(t, ps, j, l) /\ t[j][l] = b
      BY <2>2 DEF Layout
    <3>2. ~(j = i /\ l = k)
      BY <3>1 DEF Uses
    <3> QED
      BY <3>1, <3>2, <1>3
  <2> QED
    BY <1>6, <2>1, <2>2
<1>7. ASSUME NEW j \in Inodes, NEW l \in 0 .. MAXFILE, NEW g \in Inodes, NEW h \in 0 .. MAXFILE,
             Uses(t2, ps, j, l), Uses(t2, ps, g, h), t2[j][l] = t2[g][h]
      PROVE  j = g /\ l = h
  <2>1. CASE j = i /\ l = k
    BY <2>1, <1>2, <1>4, <1>7
  <2>2. CASE g = i /\ h = k
    BY <2>2, <1>2, <1>4, <1>7
  <2>3. CASE ~(j = i /\ l = k) /\ ~(g = i /\ h = k)
    BY <2>3, <1>3, <1>7 DEF Layout
  <2> QED
    BY <2>1, <2>2, <2>3
<1> QED
  BY <1>5, <1>6, <1>7 DEF Layout

(* The first block that itrunc() meets, freed. *)
LEMMA RemoveRef ==
    ASSUME NEW bm, NEW t, NEW t2, NEW ps \in [Inodes -> Nat], NEW ps2 \in [Inodes -> Nat],
           Layout(bm, t, ps), NEW i \in Inodes, NEW k \in 0 .. MAXFILE, Uses(t, ps, i, k),
           \A l \in 0 .. MAXFILE : ps[i] <= l /\ l < k => t[i][l] = NoBlock,
           \A l \in 0 .. MAXFILE : l > k => t2[i][l] = t[i][l],
           \A j \in Inodes : j # i => ps2[j] = ps[j] /\ \A l \in 0 .. MAXFILE : t2[j][l] = t[j][l],
           ps2[i] = k + 1
    PROVE  Layout(bm \ {t[i][k]}, t2, ps2)
<1>1. ASSUME NEW j \in Inodes, NEW l \in 0 .. MAXFILE
      PROVE  /\ Uses(t2, ps2, j, l) <=> Uses(t, ps, j, l) /\ ~(j = i /\ l = k)
             /\ Uses(t2, ps2, j, l) => t2[j][l] = t[j][l]
  <2>1. CASE j # i
    BY <2>1 DEF Uses
  <2>2. CASE j = i
    <3>1. ps[i] \in Nat /\ ps[i] <= k /\ MAXFILE \in Nat
      BY Sizes DEF Uses
    <3>2. CASE l > k
      BY <2>2, <3>1, <3>2 DEF Uses
    <3>3. CASE l <= k
      BY <2>2, <3>1, <3>3 DEF Uses
    <3> QED
      BY <3>2, <3>3, <3>1
  <2> QED
    BY <2>1, <2>2
<1>2. ASSUME NEW j \in Inodes, NEW l \in 0 .. MAXFILE, Uses(t2, ps2, j, l)
      PROVE  t2[j][l] \in bm \ {t[i][k]}
  BY <1>1, <1>2 DEF Layout
<1>3. ASSUME NEW b \in bm \ {t[i][k]}
      PROVE  \E j \in Inodes, l \in 0 .. MAXFILE : Uses(t2, ps2, j, l) /\ t2[j][l] = b
  <2>1. PICK j \in Inodes, l \in 0 .. MAXFILE : Uses(t, ps, j, l) /\ t[j][l] = b
    BY <1>3 DEF Layout
  <2>2. ~(j = i /\ l = k)
    BY <2>1, <1>3
  <2> QED
    BY <2>1, <2>2, <1>1
<1>4. ASSUME NEW j \in Inodes, NEW l \in 0 .. MAXFILE, NEW g \in Inodes, NEW h \in 0 .. MAXFILE,
             Uses(t2, ps2, j, l), Uses(t2, ps2, g, h), t2[j][l] = t2[g][h]
      PROVE  j = g /\ l = h
  BY <1>1, <1>4 DEF Layout
<1> QED
  BY <1>2, <1>3, <1>4 DEF Layout

-----------------------------------------------------------------------------
(* The table the inodes and the indirect blocks stand for. *)
AnInode == [size : 0 .. MAXFILE * BSIZE, addrs : [0 .. NDIRECT -> Blocks \cup {NoBlock}]]

Cells == [0 .. BSIZE - 1 -> Procs \cup {NoBlock, Junk} \cup Blocks]

LEMMA TableCells ==
    ASSUME NEW d, NEW inos, NEW i \in Inodes, NEW k \in 0 .. MAXFILE
    PROVE  TableOf(d, inos)[i][k] = ItemOf(d, inos[i], k)
  BY DEF TableOf

(* A table is replaced in one place if every item shows it. *)
LEMMA ReplacedItems ==
    ASSUME NEW d, NEW inos, NEW d2, NEW inos2, NEW i, NEW k, NEW x,
           ASSUME NEW j \in Inodes, NEW l \in 0 .. MAXFILE
           PROVE  ItemOf(d2, inos2[j], l) =
                    IF j = i /\ l = k THEN x ELSE ItemOf(d, inos[j], l)
    PROVE  Replaced(TableOf(d, inos), TableOf(d2, inos2), i, k, x)
<1> SUFFICES ASSUME NEW j \in Inodes, NEW l \in 0 .. MAXFILE
             PROVE  TableOf(d2, inos2)[j][l] =
                      IF j = i /\ l = k THEN x ELSE TableOf(d, inos)[j][l]
  BY DEF Replaced
<1>1. /\ TableOf(d, inos)[j][l] = ItemOf(d, inos[j], l)
      /\ TableOf(d2, inos2)[j][l] = ItemOf(d2, inos2[j], l)
  BY DEF TableOf
<1>2. ItemOf(d2, inos2[j], l) = IF j = i /\ l = k THEN x ELSE ItemOf(d, inos[j], l)
  OBVIOUS
<1> QED
  BY <1>1, <1>2

(* An item depends on the cells of the indirect block only. *)
LEMMA SameItem ==
    ASSUME NEW d, NEW d2, NEW ino, NEW k,
           ino.addrs[NDIRECT] # NoBlock => d2[ino.addrs[NDIRECT]] = d[ino.addrs[NDIRECT]]
    PROVE  ItemOf(d2, ino, k) = ItemOf(d, ino, k)
  BY DEF ItemOf

(* The files have their blocks: bm is the bitmap, d the cells of the       *)
(* blocks, inos the inodes and ps says how far each is truncated.          *)
Sound(bm, d, inos, ps) ==
    /\ bm \subseteq Blocks /\ d \in [Blocks -> Cells] /\ inos \in [Inodes -> AnInode]
    /\ ps \in [Inodes -> Nat]
    /\ Layout(bm, TableOf(d, inos), ps) /\ Reset(inos, ps)

(* d2 is d but for block x, and inos2 is inos but for inode i. *)
SameElse(d, d2, x) == \A b \in Blocks : b # x => d2[b] = d[b]

SameOthers(inos, inos2, i) == \A j \in Inodes : j # i => inos2[j] = inos[j]

(* The entries of ino but for entry k, which is x. *)
Readdressed(ino, ino2, k, x) ==
    ino2.addrs[k] = x /\ \A l \in 0 .. NDIRECT : l # k => ino2.addrs[l] = ino.addrs[l]

(* An inode with one address changed. *)
LEMMA AddrsExcept ==
    ASSUME NEW ino \in AnInode, NEW k \in 0 .. NDIRECT, NEW x \in Blocks \cup {NoBlock},
           NEW ino2, ino2 = [ino EXCEPT !.addrs[k] = x]
    PROVE  ino2 \in AnInode /\ ino2.size = ino.size /\ Readdressed(ino, ino2, k, x)
<1>1. ino.addrs \in [0 .. NDIRECT -> Blocks \cup {NoBlock}]
  BY DEF AnInode
<1>2. ino2 = [ino EXCEPT !.addrs = [ino.addrs EXCEPT ![k] = x]]
  OBVIOUS
<1>3. [ino.addrs EXCEPT ![k] = x] \in [0 .. NDIRECT -> Blocks \cup {NoBlock}]
  BY <1>1
<1>4. ino2 \in AnInode /\ ino2.size = ino.size /\ ino2.addrs = [ino.addrs EXCEPT ![k] = x]
  BY <1>2, <1>3 DEF AnInode
<1> QED
  BY <1>1, <1>4 DEF Readdressed

(* An indirect block is in use. *)
LEMMA IndirectUsed ==
    ASSUME NEW bm, NEW d, NEW inos, NEW ps, Sound(bm, d, inos, ps),
           NEW i \in Inodes, inos[i].addrs[NDIRECT] # NoBlock
    PROVE  /\ Uses(TableOf(d, inos), ps, i, MAXFILE)
           /\ TableOf(d, inos)[i][MAXFILE] = inos[i].addrs[NDIRECT]
           /\ inos[i].addrs[NDIRECT] \in bm /\ inos[i].addrs[NDIRECT] \in Blocks
<1> DEFINE ind == inos[i].addrs[NDIRECT]
<1>1. MAXFILE \in 0 .. MAXFILE /\ ~(MAXFILE < NDIRECT)
  BY LastPlace
<1>2. TableOf(d, inos)[i][MAXFILE] = ind
  BY <1>1 DEF ItemOf, TableOf
<1>3. ps[i] \in Nat /\ ~(ps[i] > MAXFILE)
  BY DEF Sound, Reset
<1>4. ps[i] <= MAXFILE
  BY <1>3, Sizes
<1>5. Uses(TableOf(d, inos), ps, i, MAXFILE)
  BY <1>2, <1>4 DEF Uses
<1>6. ind \in bm
  BY <1>1, <1>2, <1>5 DEF Sound, Layout
<1> QED
  BY <1>2, <1>5, <1>6 DEF Sound

(* Two files have different indirect blocks. *)
LEMMA IndirectsDiffer ==
    ASSUME NEW bm, NEW d, NEW inos, NEW ps, Sound(bm, d, inos, ps),
           NEW i \in Inodes, NEW j \in Inodes, i # j, inos[i].addrs[NDIRECT] # NoBlock
    PROVE  inos[i].addrs[NDIRECT] # inos[j].addrs[NDIRECT]
<1> DEFINE ind == inos[i].addrs[NDIRECT]
<1>1. SUFFICES ASSUME ind = inos[j].addrs[NDIRECT] PROVE FALSE
  OBVIOUS
<1>2. Uses(TableOf(d, inos), ps, i, MAXFILE) /\ TableOf(d, inos)[i][MAXFILE] = ind
  BY IndirectUsed
<1>3. Uses(TableOf(d, inos), ps, j, MAXFILE) /\ TableOf(d, inos)[j][MAXFILE] = inos[j].addrs[NDIRECT]
  BY <1>1, IndirectUsed
<1>4. MAXFILE \in 0 .. MAXFILE
  BY LastPlace
<1> QED
  BY <1>1, <1>2, <1>3, <1>4 DEF Sound, Layout

(* The blocks of the files are the same with cells d and d2. *)
SameItems(d, d2, inos) == \A i \in Inodes : \A k : ItemOf(d2, inos[i], k) = ItemOf(d, inos[i], k)

(* Block x is free, or has a place below the indirect block in some file. *)
NotIndirect(bm, t, ps, x) ==
    x \notin bm \/ \E i \in Inodes, k \in 0 .. MAXFILE - 1 : Uses(t, ps, i, k) /\ t[i][k] = x

(* What is written into such a block does not change the table. *)
LEMMA SameTable ==
    ASSUME NEW bm, NEW d, NEW inos, NEW ps, Sound(bm, d, inos, ps),
           NEW x, NotIndirect(bm, TableOf(d, inos), ps, x),
           NEW d2, SameElse(d, d2, x)
    PROVE  SameItems(d, d2, inos)
<1> SUFFICES ASSUME NEW i \in Inodes
             PROVE  \A k : ItemOf(d2, inos[i], k) = ItemOf(d, inos[i], k)
  BY DEF SameItems
<1> DEFINE ind == inos[i].addrs[NDIRECT]
<1>1. ASSUME ind # NoBlock PROVE  ind # x /\ ind \in Blocks
  <2>1. /\ Uses(TableOf(d, inos), ps, i, MAXFILE) /\ TableOf(d, inos)[i][MAXFILE] = ind
        /\ ind \in bm /\ ind \in Blocks
    BY <1>1, IndirectUsed
  <2>2. ASSUME NEW j \in Inodes, NEW k \in 0 .. MAXFILE - 1,
               Uses(TableOf(d, inos), ps, j, k), TableOf(d, inos)[j][k] = x
        PROVE  ind # x
    <3>1. k \in 0 .. MAXFILE /\ MAXFILE \in 0 .. MAXFILE /\ k # MAXFILE
      BY LastPlace, DataPlace
    <3> QED
      BY <3>1, <2>1, <2>2 DEF Sound, Layout
  <2> QED
    BY <2>1, <2>2 DEF NotIndirect
<1>2. ind # NoBlock => d2[ind] = d[ind]
  BY <1>1 DEF SameElse
<1> QED
  BY <1>2, SameItem

(* bmap() with a new indirect block, *)
LEMMA AllocIndirect ==
    ASSUME NEW bm, NEW d, NEW inos, NEW ps, Sound(bm, d, inos, ps),
           NEW x \in Blocks \ bm, NEW i \in Inodes, inos[i].addrs[NDIRECT] = NoBlock,
           NEW d2, SameElse(d, d2, x), d2[x] = Zeroes,
           NEW inos2, SameOthers(inos, inos2, i), Readdressed(inos[i], inos2[i], NDIRECT, x)
    PROVE  Replaced(TableOf(d, inos), TableOf(d2, inos2), i, MAXFILE, x)
<1>1. NotIndirect(bm, TableOf(d, inos), ps, x) /\ x # NoBlock
  BY LastPlace DEF NotIndirect
<1>2. inos2[i].addrs[NDIRECT] = x
  BY DEF Readdressed
<1>3. ASSUME NEW j \in Inodes, NEW l \in 0 .. MAXFILE
      PROVE  ItemOf(d2, inos2[j], l) =
               IF j = i /\ l = MAXFILE THEN x ELSE ItemOf(d, inos[j], l)
  <2>1. CASE j # i
    <3>1. inos2[j] = inos[j]
      BY <2>1 DEF SameOthers
    <3>2. ItemOf(d2, inos[j], l) = ItemOf(d, inos[j], l)
      BY <1>1, SameTable DEF SameItems
    <3> QED
      BY <2>1, <3>1, <3>2
  <2>2. CASE j = i /\ l < NDIRECT
    <3>1. l \in 0 .. NDIRECT /\ l # NDIRECT /\ l # MAXFILE
      BY <2>2, AnyPlace, DirectPlace
    <3>2. inos2[i].addrs[l] = inos[i].addrs[l]
      BY <3>1 DEF Readdressed
    <3> QED
      BY <2>2, <3>1, <3>2 DEF ItemOf
  <2>3. CASE j = i /\ l = MAXFILE
    <3>1. ~(l < NDIRECT)
      BY <2>3, LastPlace
    <3> QED
      BY <2>3, <3>1, <1>2 DEF ItemOf
  <2>4. CASE j = i /\ ~(l < NDIRECT) /\ l # MAXFILE
    <3>1. l - NDIRECT \in 0 .. BSIZE - 1
      BY <2>4, AnyPlace
    <3>2. ItemOf(d2, inos2[j], l) = d2[x][l - NDIRECT]
      BY <2>4, <1>1, <1>2 DEF ItemOf
    <3>3. d2[x][l - NDIRECT] = NoBlock
      BY <3>1 DEF Zeroes, NoBlock
    <3>4. ItemOf(d, inos[j], l) = NoBlock
      BY <2>4 DEF ItemOf
    <3> QED
      BY <2>4, <3>2, <3>3, <3>4
  <2> QED
    BY <2>1, <2>2, <2>3, <2>4
<1> QED
  BY <1>3, ReplacedItems

(* with a new direct block, *)
LEMMA AllocDirect ==
    ASSUME NEW bm, NEW d, NEW inos, NEW ps, Sound(bm, d, inos, ps),
           NEW x \in Blocks \ bm, NEW i \in Inodes, NEW k \in 0 .. NDIRECT - 1,
           NEW d2, SameElse(d, d2, x),
           NEW inos2, SameOthers(inos, inos2, i), Readdressed(inos[i], inos2[i], k, x)
    PROVE  Replaced(TableOf(d, inos), TableOf(d2, inos2), i, k, x)
<1>1. NotIndirect(bm, TableOf(d, inos), ps, x)
  BY DEF NotIndirect
<1>2. /\ inos2[i].addrs[k] = x
      /\ \A l \in 0 .. NDIRECT : l # k => inos2[i].addrs[l] = inos[i].addrs[l]
      /\ NDIRECT \in 0 .. NDIRECT /\ NDIRECT # k
  BY LastPlace, DirectPlace DEF Readdressed
<1>3. ASSUME NEW j \in Inodes, NEW l PROVE ItemOf(d2, inos[j], l) = ItemOf(d, inos[j], l)
  BY <1>1, SameTable DEF SameItems
<1>4. ASSUME NEW l \in 0 .. MAXFILE
      PROVE  ItemOf(d2, inos2[i], l) = IF l = k THEN x ELSE ItemOf(d2, inos[i], l)
  <2>1. CASE l < NDIRECT
    <3>1. l \in 0 .. NDIRECT
      BY <2>1, AnyPlace, DirectPlace
    <3> QED
      BY <2>1, <3>1, <1>2 DEF ItemOf
  <2>2. CASE ~(l < NDIRECT)
    <3>1. l # k
      BY <2>2, DirectPlace
    <3> QED
      BY <2>2, <3>1, <1>2 DEF ItemOf
  <2> QED
    BY <2>1, <2>2
<1>5. ASSUME NEW j \in Inodes, NEW l \in 0 .. MAXFILE
      PROVE  ItemOf(d2, inos2[j], l) =
               IF j = i /\ l = k THEN x ELSE ItemOf(d, inos[j], l)
  <2>1. CASE j # i
    BY <2>1, <1>3 DEF SameOthers
  <2>2. CASE j = i
    BY <2>2, <1>3, <1>4
  <2> QED
    BY <2>1, <2>2
<1> QED
  BY <1>5, ReplacedItems

(* and with a new entry of the indirect block. *)
LEMMA AllocEntry ==
    ASSUME NEW bm, NEW d, NEW inos, NEW ps, Sound(bm, d, inos, ps),
           NEW x \in Blocks \ bm, NEW i \in Inodes, NEW k \in NDIRECT .. MAXFILE - 1,
           NEW ind, ind = inos[i].addrs[NDIRECT], ind # NoBlock,
           NEW d2, \A b \in Blocks : b \notin {x, ind} => d2[b] = d[b],
           \A l \in 0 .. BSIZE - 1 : d2[ind][l] = IF l = k - NDIRECT THEN x ELSE d[ind][l]
    PROVE  Replaced(TableOf(d, inos), TableOf(d2, inos), i, k, x)
<1>1. ASSUME NEW j \in Inodes, j # i, NEW other, other = inos[j].addrs[NDIRECT], other # NoBlock
      PROVE  d2[other] = d[other]
  <2>1. other \in bm /\ other \in Blocks
    BY <1>1, IndirectUsed
  <2>2. other # ind
    BY <1>1, IndirectsDiffer
  <2> QED
    BY <2>1, <2>2
<1>2. ASSUME NEW j \in Inodes, NEW l \in 0 .. MAXFILE
      PROVE  ItemOf(d2, inos[j], l) =
               IF j = i /\ l = k THEN x ELSE ItemOf(d, inos[j], l)
  <2>1. CASE j # i
    <3>1. inos[j].addrs[NDIRECT] # NoBlock =>
            d2[inos[j].addrs[NDIRECT]] = d[inos[j].addrs[NDIRECT]]
      BY <2>1, <1>1
    <3>2. ItemOf(d2, inos[j], l) = ItemOf(d, inos[j], l)
      BY <3>1 DEF ItemOf
    <3> QED
      BY <2>1, <3>2
  <2>2. CASE j = i /\ (l < NDIRECT \/ l = MAXFILE)
    <3>1. l # k
      BY <2>2, Sizes
    <3> QED
      BY <2>2, <3>1 DEF ItemOf
  <2>3. CASE j = i /\ ~(l < NDIRECT) /\ l # MAXFILE
    <3>1. l - NDIRECT \in 0 .. BSIZE - 1 /\ (l - NDIRECT = k - NDIRECT <=> l = k)
      BY <2>3, Sizes
    <3>2. ItemOf(d2, inos[j], l) = d2[ind][l - NDIRECT]
      BY <2>3 DEF ItemOf
    <3>3. ItemOf(d, inos[j], l) = d[ind][l - NDIRECT]
      BY <2>3 DEF ItemOf
    <3> QED
      BY <2>3, <3>1, <3>2, <3>3
  <2> QED
    BY <2>1, <2>2, <2>3
<1> QED
  BY <1>2, ReplacedItems

(* bmap() puts the block that balloc() gave it into one place. *)
LEMMA AllocSound ==
    ASSUME NEW bm, NEW d, NEW inos, NEW ps, Sound(bm, d, inos, ps),
           NEW x \in Blocks \ bm, NEW i \in Inodes, NEW k \in 0 .. MAXFILE,
           ps[i] = 0, TableOf(d, inos)[i][k] = NoBlock,
           NEW d2 \in [Blocks -> Cells], NEW inos2 \in [Inodes -> AnInode],
           SameOthers(inos, inos2, i),
           Replaced(TableOf(d, inos), TableOf(d2, inos2), i, k, x)
    PROVE  Sound(bm \cup {x}, d2, inos2, ps)
<1>1. bm \in SUBSET Blocks /\ ps \in [Inodes -> Nat] /\ Layout(bm, TableOf(d, inos), ps)
  BY DEF Sound
<1>2. ps[i] <= k
  OBVIOUS
<1>3. Layout(bm \cup {x}, TableOf(d2, inos2), ps)
  BY <1>1, <1>2, AddRef
<1>4. Reset(inos2, ps)
  <2> SUFFICES ASSUME NEW j \in Inodes
               PROVE  /\ \A l \in 0 .. NDIRECT - 1 : l < ps[j] => inos2[j].addrs[l] = NoBlock
                      /\ ps[j] > MAXFILE => inos2[j].addrs[NDIRECT] = NoBlock
    BY DEF Reset
  <2>1. CASE j = i
    BY <2>1, Sizes
  <2>2. CASE j # i
    BY <2>2 DEF Sound, Reset, SameOthers
  <2> QED
    BY <2>1, <2>2
<1> QED
  BY <1>1, <1>3, <1>4 DEF Sound

(* bfree() of the next block of a file that itrunc() goes through. *)
LEMMA FreeSound ==
    ASSUME NEW bm, NEW d, NEW inos, NEW ps, Sound(bm, d, inos, ps),
           NEW i \in Inodes, NEW k \in 0 .. MAXFILE, Uses(TableOf(d, inos), ps, i, k),
           \A l \in 0 .. MAXFILE : ps[i] <= l /\ l < k => TableOf(d, inos)[i][l] = NoBlock,
           NEW b, b = TableOf(d, inos)[i][k],
           NEW d2 \in [Blocks -> Cells], SameElse(d, d2, b),
           NEW inos2 \in [Inodes -> AnInode], SameOthers(inos, inos2, i),
           inos2[i] = Cleared(inos[i], k),
           NEW ps2 \in [Inodes -> Nat], SameOthers(ps, ps2, i), ps2[i] = k + 1
    PROVE  Sound(bm \ {b}, d2, inos2, ps2)
<1> DEFINE t == TableOf(d, inos)
           t2 == TableOf(d2, inos2)
<1>0. /\ inos[i] \in AnInode /\ ps \in [Inodes -> Nat] /\ ps[i] \in Nat /\ ps[i] <= k
      /\ Layout(bm, t, ps) /\ MAXFILE \in 0 .. MAXFILE /\ bm \subseteq Blocks
  BY LastPlace DEF Sound, Uses
<1>1. ASSUME k < MAXFILE
      PROVE  /\ \A l \in 0 .. MAXFILE : l > k => t2[i][l] = t[i][l]
             /\ \A j \in Inodes : j # i => \A l \in 0 .. MAXFILE : t2[j][l] = t[j][l]
  <2>1. NotIndirect(bm, t, ps, b)
    BY <1>1, Sizes DEF NotIndirect
  <2>2. ASSUME NEW j \in Inodes, NEW l PROVE ItemOf(d2, inos[j], l) = ItemOf(d, inos[j], l)
    BY <2>1, SameTable DEF SameItems
  <2>3. ASSUME NEW j \in Inodes, j # i, NEW l \in 0 .. MAXFILE PROVE t2[j][l] = t[j][l]
    <3>1. inos2[j] = inos[j]
      BY <2>3 DEF SameOthers
    <3> QED
      BY <3>1, <2>2 DEF TableOf
  <2>4. ASSUME NEW l \in 0 .. MAXFILE, l > k PROVE t2[i][l] = t[i][l]
    <3>1. CASE k < NDIRECT
      <4>1. k \in 0 .. NDIRECT /\ NoBlock \in Blocks \cup {NoBlock}
        BY <3>1, AnyPlace, DirectPlace
      <4>2. inos2[i] = [inos[i] EXCEPT !.addrs[k] = NoBlock]
        BY <3>1 DEF Cleared
      <4>3. Readdressed(inos[i], inos2[i], k, NoBlock)
        BY <1>0, <4>1, <4>2, AddrsExcept
      <4>4. NDIRECT \in 0 .. NDIRECT /\ NDIRECT # k /\ (l < NDIRECT => l \in 0 .. NDIRECT /\ l # k)
        BY <2>4, <3>1, Sizes
      <4>5. /\ inos2[i].addrs[NDIRECT] = inos[i].addrs[NDIRECT]
            /\ l < NDIRECT => inos2[i].addrs[l] = inos[i].addrs[l]
        BY <4>3, <4>4 DEF Readdressed
      <4>6. ItemOf(d2, inos2[i], l) = ItemOf(d2, inos[i], l)
        BY <4>5 DEF ItemOf
      <4> QED
        BY <4>6, <2>2 DEF TableOf
    <3>2. CASE ~(k < NDIRECT)
      <4>1. inos2[i] = inos[i]
        BY <3>2, <1>1, Sizes DEF Cleared
      <4> QED
        BY <4>1, <2>2, TableCells
    <3> QED
      BY <3>1, <3>2
  <2> QED
    BY <2>3, <2>4
<1>2. ASSUME k = MAXFILE
      PROVE  /\ \A l \in 0 .. MAXFILE : l > k => t2[i][l] = t[i][l]
             /\ \A j \in Inodes : j # i => \A l \in 0 .. MAXFILE : t2[j][l] = t[j][l]
  <2>1. b = inos[i].addrs[NDIRECT] /\ b # NoBlock
    BY <1>2, LastPlace DEF ItemOf, Uses, TableOf
  <2>2. ASSUME NEW j \in Inodes, j # i, NEW l \in 0 .. MAXFILE PROVE t2[j][l] = t[j][l]
    <3>1. inos2[j] = inos[j]
      BY <2>2 DEF SameOthers
    <3>2. inos[j].addrs[NDIRECT] # b
      BY <2>1, <2>2, IndirectsDiffer
    <3>3. inos[j].addrs[NDIRECT] # NoBlock => inos[j].addrs[NDIRECT] \in Blocks
      BY IndirectUsed
    <3>4. inos[j].addrs[NDIRECT] # NoBlock =>
             d2[inos[j].addrs[NDIRECT]] = d[inos[j].addrs[NDIRECT]]
      BY <3>2, <3>3 DEF SameElse
    <3>5. ItemOf(d2, inos[j], l) = ItemOf(d, inos[j], l)
      BY <3>4 DEF ItemOf
    <3> QED
      BY <3>1, <3>5 DEF TableOf
  <2>3. ASSUME NEW l \in 0 .. MAXFILE, l > k PROVE t2[i][l] = t[i][l]
    BY <2>3, <1>2, Sizes
  <2> QED
    BY <2>2, <2>3
<1>3. /\ \A l \in 0 .. MAXFILE : l > k => t2[i][l] = t[i][l]
      /\ \A j \in Inodes : j # i => \A l \in 0 .. MAXFILE : t2[j][l] = t[j][l]
  BY <1>1, <1>2, AnyPlace
<1>4. \A j \in Inodes : j # i => ps2[j] = ps[j]
  BY DEF SameOthers
<1>5. Layout(bm \ {b}, t2, ps2)
  <2> HIDE DEF t, t2
  <2>1. /\ Uses(t, ps, i, k) /\ b = t[i][k]
        /\ \A l \in 0 .. MAXFILE : ps[i] <= l /\ l < k => t[i][l] = NoBlock
    BY DEF t
  <2>2. \A j \in Inodes : j # i => ps2[j] = ps[j] /\ \A l \in 0 .. MAXFILE : t2[j][l] = t[j][l]
    BY <1>3, <1>4
  <2>3. \A l \in 0 .. MAXFILE : l > k => t2[i][l] = t[i][l]
    BY <1>3
  <2>4. Layout(bm, t, ps) /\ ps \in [Inodes -> Nat]
    BY <1>0
  <2>5. Layout(bm \ {t[i][k]}, t2, ps2)
    BY <2>1, <2>2, <2>3, <2>4, RemoveRef, Zenon
  <2> QED
    BY <2>1, <2>5
<1>6. Reset(inos2, ps2)
  <2> SUFFICES ASSUME NEW j \in Inodes
               PROVE  /\ \A l \in 0 .. NDIRECT - 1 : l < ps2[j] => inos2[j].addrs[l] = NoBlock
                      /\ ps2[j] > MAXFILE => inos2[j].addrs[NDIRECT] = NoBlock
    BY DEF Reset
  <2>1. CASE j # i
    BY <2>1, <1>4 DEF Sound, Reset, SameOthers
  <2>2. CASE j = i
    <3>1. ASSUME NEW l \in 0 .. NDIRECT - 1, l < k PROVE inos[i].addrs[l] = NoBlock
      <4>1. CASE l < ps[i]
        BY <4>1 DEF Sound, Reset
      <4>2. CASE ps[i] <= l
        <5>1. l \in 0 .. MAXFILE /\ l < NDIRECT
          BY DirectPlace
        <5>2. t[i][l] = inos[i].addrs[l]
          BY <5>1 DEF ItemOf, TableOf
        <5> QED
          BY <3>1, <4>2, <5>1, <5>2
      <4> QED
        BY <1>0, <4>1, <4>2
    <3>2. CASE k < NDIRECT
      <4>1. k \in 0 .. NDIRECT /\ NoBlock \in Blocks \cup {NoBlock}
        BY <3>2, AnyPlace, DirectPlace
      <4>2. inos2[i] = [inos[i] EXCEPT !.addrs[k] = NoBlock]
        BY <3>2 DEF Cleared
      <4>3. Readdressed(inos[i], inos2[i], k, NoBlock)
        BY <1>0, <4>1, <4>2, AddrsExcept
      <4>4. ASSUME NEW l \in 0 .. NDIRECT - 1, l < k + 1 PROVE inos2[i].addrs[l] = NoBlock
        <5>1. l \in 0 .. NDIRECT
          BY DirectPlace
        <5>2. CASE l = k
          BY <5>2, <4>3 DEF Readdressed
        <5>3. CASE l # k
          <6>1. l < k
            BY <4>4, <5>3
          <6> QED
            BY <6>1, <5>1, <5>3, <3>1, <4>3 DEF Readdressed
        <5> QED
          BY <5>2, <5>3
      <4>5. ~(k + 1 > MAXFILE)
        BY <3>2, LastPlace, AnyPlace
      <4> QED
        BY <2>2, <4>4, <4>5
    <3>3. CASE k = MAXFILE
      <4>1. NDIRECT \in 0 .. NDIRECT /\ NoBlock \in Blocks \cup {NoBlock} /\ ~(k < NDIRECT)
        BY <3>3, LastPlace
      <4>2. inos2[i] = [inos[i] EXCEPT !.addrs[NDIRECT] = NoBlock]
        BY <3>3, <4>1 DEF Cleared
      <4>3. Readdressed(inos[i], inos2[i], NDIRECT, NoBlock)
        BY <1>0, <4>1, <4>2, AddrsExcept
      <4>4. ASSUME NEW l \in 0 .. NDIRECT - 1 PROVE inos2[i].addrs[l] = NoBlock
        <5>1. l \in 0 .. NDIRECT /\ l # NDIRECT /\ l < k
          BY <3>3, AnyPlace, DirectPlace
        <5> QED
          BY <5>1, <3>1, <4>3 DEF Readdressed
      <4>5. inos2[i].addrs[NDIRECT] = NoBlock
        BY <4>3 DEF Readdressed
      <4> QED
        BY <2>2, <4>4, <4>5
    <3>4. CASE ~(k < NDIRECT) /\ k # MAXFILE
      <4>1. inos2[i] = inos[i]
        BY <3>4 DEF Cleared
      <4>2. ~(k + 1 > MAXFILE) /\ \A l \in 0 .. NDIRECT - 1 : l < k
        BY <3>4, Sizes
      <4> QED
        BY <2>2, <4>1, <4>2, <3>1
    <3> QED
      BY <3>2, <3>3, <3>4
  <2> QED
    BY <2>1, <2>2
<1> QED
  BY <1>0, <1>5, <1>6 DEF Sound

(* The least number of a set, and of two. *)
LEMMA LeastNatural ==
    ASSUME NEW S \in SUBSET Nat, S # {}
    PROVE  Min(S) \in S /\ \A y \in S : Min(S) <= y
<1>1. PICK x \in S : \A y \in S : ~(<<y, x>> \in OpToRel(<, Nat))
  BY NatLessThanWellFounded, WFMin, Zenon
<1>2. \A y \in S : ~(y < x)
  BY <1>1, Zenon DEF OpToRel
<1>3. \A y \in S : x <= y
  BY <1>2
<1> QED
  BY <1>3, Zenon DEF Min

LEMMA LeastOfTwo ==
    ASSUME NEW x \in Int, NEW y \in Int
    PROVE  Min({x, y}) = IF x <= y THEN x ELSE y
<1>1. PICK z \in {x, y} : \A u \in {x, y} : z <= u
  OBVIOUS
<1>2. Min({x, y}) \in {x, y} /\ \A u \in {x, y} : Min({x, y}) <= u
  BY <1>1, Zenon DEF Min
<1> QED
  BY <1>2

(* What is written into a block that is not an indirect one. *)
LEMMA DataSound ==
    ASSUME NEW bm, NEW d, NEW inos, NEW ps, Sound(bm, d, inos, ps), NEW b,
           NotIndirect(bm, TableOf(d, inos), ps, b),
           NEW d2 \in [Blocks -> Cells], SameElse(d, d2, b)
    PROVE  Sound(bm, d2, inos, ps) /\ TableOf(d2, inos) = TableOf(d, inos)
<1>1. \A j \in Inodes, k \in 0 .. MAXFILE : ItemOf(d2, inos[j], k) = ItemOf(d, inos[j], k)
  BY SameTable DEF SameItems
<1>2. TableOf(d2, inos) = TableOf(d, inos)
  BY <1>1 DEF TableOf
<1> QED
  BY <1>2 DEF Sound

(* The table does not depend on the sizes. *)
Unmoved(inos, inos2) ==
    inos2 \in [Inodes -> AnInode] /\ \A j \in Inodes : inos2[j].addrs = inos[j].addrs

LEMMA SameAddrs ==
    ASSUME NEW d, NEW inos, NEW inos2, Unmoved(inos, inos2)
    PROVE  TableOf(d, inos2) = TableOf(d, inos)
  BY DEF TableOf, ItemOf, Unmoved

LEMMA UnmovedSound ==
    ASSUME NEW bm, NEW d, NEW inos, NEW ps, Sound(bm, d, inos, ps),
           NEW inos2, Unmoved(inos, inos2)
    PROVE  Sound(bm, d, inos2, ps)
<1>1. TableOf(d, inos2) = TableOf(d, inos)
  BY SameAddrs
<1>2. Reset(inos2, ps)
  BY DEF Sound, Reset, Unmoved
<1> QED
  BY <1>1, <1>2 DEF Sound, Unmoved

(* A change to a block of one file and to its inode is none to others. *)
LEMMA OthersKept ==
    ASSUME NEW bm, NEW d, NEW inos, NEW ps, Sound(bm, d, inos, ps),
           NEW i \in Inodes, NEW k \in 0 .. MAXFILE, Uses(TableOf(d, inos), ps, i, k),
           NEW b, b = TableOf(d, inos)[i][k], NEW d2, SameElse(d, d2, b),
           NEW inos2, SameOthers(inos, inos2, i), NEW j \in Inodes, j # i
    PROVE  \A l \in 0 .. MAXFILE : TableOf(d2, inos2)[j][l] = TableOf(d, inos)[j][l]
<1> SUFFICES ASSUME NEW l \in 0 .. MAXFILE
             PROVE  TableOf(d2, inos2)[j][l] = TableOf(d, inos)[j][l]
  OBVIOUS
<1>1. PICK ind : ind = inos[j].addrs[NDIRECT]
  OBVIOUS
<1>2. ASSUME ind # NoBlock PROVE d2[ind] = d[ind]
  <2>1. /\ Uses(TableOf(d, inos), ps, j, MAXFILE) /\ TableOf(d, inos)[j][MAXFILE] = ind
        /\ ind \in Blocks
    BY <1>1, <1>2, IndirectUsed
  <2>2. MAXFILE \in 0 .. MAXFILE
    BY LastPlace
  <2>3. ind # b
    BY <2>1, <2>2 DEF Sound, Layout
  <2> QED
    BY <2>1, <2>3 DEF SameElse
<1>3. ItemOf(d2, inos[j], l) = ItemOf(d, inos[j], l)
  BY <1>1, <1>2, SameItem
<1>4. inos2[j] = inos[j]
  BY DEF SameOthers
<1> QED
  BY <1>3, <1>4 DEF TableOf

(* Item k of inode i is freed: what a turn of itrunc()'s loops does. *)
Freed(d, inos, ps, d2, inos2, ps2, i, k, b) ==
    /\ k \in 0 .. MAXFILE /\ Uses(TableOf(d, inos), ps, i, k) /\ b = TableOf(d, inos)[i][k]
    /\ \A l \in 0 .. MAXFILE : ps[i] <= l /\ l < k => TableOf(d, inos)[i][l] = NoBlock
    /\ d2 \in [Blocks -> Cells] /\ SameElse(d, d2, b)
    /\ inos2 \in [Inodes -> AnInode] /\ SameOthers(inos, inos2, i)
    /\ inos2[i] = Cleared(inos[i], k)
    /\ ps2 \in [Inodes -> Nat] /\ SameOthers(ps, ps2, i) /\ ps2[i] = k + 1

OtherRows(d, inos, d2, inos2, i) ==
    \A j \in Inodes : j # i =>
        \A l \in 0 .. MAXFILE : TableOf(d2, inos2)[j][l] = TableOf(d, inos)[j][l]

(* bfree() keeps the table sound and the other files as they were. *)
LEMMA FreedFacts ==
    ASSUME NEW bm, NEW d, NEW inos, NEW ps, Sound(bm, d, inos, ps), NEW i \in Inodes,
           NEW d2, NEW inos2, NEW ps2, NEW k, NEW b, Freed(d, inos, ps, d2, inos2, ps2, i, k, b)
    PROVE  Sound(bm \ {b}, d2, inos2, ps2) /\ OtherRows(d, inos, d2, inos2, i)
<1>1. Sound(bm \ {b}, d2, inos2, ps2)
  BY FreeSound, Zenon DEF Freed
<1>2. ASSUME NEW j \in Inodes, j # i
      PROVE  \A l \in 0 .. MAXFILE : TableOf(d2, inos2)[j][l] = TableOf(d, inos)[j][l]
  BY <1>2, OthersKept DEF Freed
<1> QED
  BY <1>1, <1>2 DEF OtherRows

(* The end of itrunc(): the table is empty and counts in full again. *)
Ended(d, inos, ps, inos2, ps2, i) ==
    /\ \A l \in 0 .. MAXFILE : ps[i] <= l => TableOf(d, inos)[i][l] = NoBlock
    /\ Unmoved(inos, inos2)
    /\ ps2 \in [Inodes -> Nat] /\ SameOthers(ps, ps2, i) /\ ps2[i] = 0

LEMMA EndSound ==
    ASSUME NEW bm, NEW d, NEW inos, NEW ps, Sound(bm, d, inos, ps), NEW i \in Inodes,
           NEW inos2, NEW ps2, Ended(d, inos, ps, inos2, ps2, i)
    PROVE  Sound(bm, d, inos2, ps2)
<1>0. /\ \A l \in 0 .. MAXFILE : ps[i] <= l => TableOf(d, inos)[i][l] = NoBlock
      /\ inos2 \in [Inodes -> AnInode] /\ \A j \in Inodes : inos2[j].addrs = inos[j].addrs
      /\ ps2 \in [Inodes -> Nat] /\ SameOthers(ps, ps2, i) /\ ps2[i] = 0
  BY DEF Ended, Unmoved
<1>1. TableOf(d, inos2) = TableOf(d, inos)
  BY SameAddrs DEF Ended
<1> DEFINE t == TableOf(d, inos)
<1>2. ps[i] \in Nat /\ Layout(bm, t, ps) /\ Reset(inos, ps) /\ bm \subseteq Blocks /\ d \in [Blocks -> Cells]
  BY DEF Sound
<1>3. inos[i].addrs[NDIRECT] = NoBlock
  <2>1. CASE ps[i] > MAXFILE
    BY <2>1, <1>2 DEF Reset
  <2>2. CASE ps[i] <= MAXFILE
    <3>1. MAXFILE \in 0 .. MAXFILE /\ ~(MAXFILE < NDIRECT)
      BY LastPlace
    <3>2. t[i][MAXFILE] = inos[i].addrs[NDIRECT]
      BY <3>1 DEF ItemOf, TableOf
    <3> QED
      BY <1>0, <2>2, <3>1, <3>2
  <2> QED
    BY <2>1, <2>2, <1>2, Sizes
<1>4. ASSUME NEW l \in 0 .. MAXFILE PROVE t[i][l] = NoBlock
  <2>1. t[i][l] = ItemOf(d, inos[i], l)
    BY DEF TableOf
  <2>2. CASE ps[i] <= l
    BY <1>0, <2>2
  <2>3. CASE l < ps[i] /\ l < NDIRECT
    <3>1. l \in 0 .. NDIRECT - 1
      BY <2>3, AnyPlace
    <3> QED
      BY <3>1, <2>1, <2>3, <1>2 DEF Reset, ItemOf
  <2>4. CASE ~(l < NDIRECT)
    BY <2>1, <2>4, <1>3 DEF ItemOf
  <2> QED
    BY <2>2, <2>3, <2>4, <1>2
<1>5. ASSUME NEW j \in Inodes, NEW l \in 0 .. MAXFILE
      PROVE  Uses(t, ps2, j, l) <=> Uses(t, ps, j, l)
  <2>1. CASE j = i
    BY <2>1, <1>4 DEF Uses
  <2>2. CASE j # i
    BY <1>0, <2>2 DEF Uses, SameOthers
  <2> QED
    BY <2>1, <2>2
<1> HIDE DEF t
<1>6. Layout(bm, t, ps2)
  BY <1>2, <1>5 DEF Layout
<1>7. Reset(inos2, ps2)
  <2> SUFFICES ASSUME NEW j \in Inodes
               PROVE  /\ \A k \in 0 .. NDIRECT - 1 : k < ps2[j] => inos2[j].addrs[k] = NoBlock
                      /\ ps2[j] > MAXFILE => inos2[j].addrs[NDIRECT] = NoBlock
    BY DEF Reset
  <2>1. CASE j = i
    BY <1>0, <2>1, Sizes
  <2>2. CASE j # i
    BY <1>0, <2>2, <1>2 DEF Reset, SameOthers
  <2> QED
    BY <2>1, <2>2
<1> QED
  BY <1>0, <1>1, <1>2, <1>6, <1>7 DEF Sound, t

LEMMA Resized ==
    ASSUME NEW ino \in AnInode, NEW n \in 0 .. MAXFILE * BSIZE, NEW ino2,
           ino2 = [ino EXCEPT !.size = n]
    PROVE  ino2 \in AnInode /\ ino2.size = n /\ ino2.addrs = ino.addrs
  BY DEF AnInode

(* An inode after writei() extended the file. *)
LEMMA GrownFacts ==
    ASSUME NEW ino \in AnInode, NEW n \in 0 .. MAXFILE * BSIZE
    PROVE  /\ Grown(ino, n) \in AnInode /\ Grown(ino, n).addrs = ino.addrs
           /\ Grown(ino, n).size = IF n > ino.size THEN n ELSE ino.size
           /\ ~(n > ino.size) => Grown(ino, n) = ino
<1>1. CASE n > ino.size
  BY <1>1, Resized DEF Grown
<1>2. CASE ~(n > ino.size)
  BY <1>2 DEF Grown
<1> QED
  BY <1>1, <1>2

(* An inode after itrunc() reset a place. *)
LEMMA ClearedFacts ==
    ASSUME NEW ino \in AnInode, NEW k \in 0 .. MAXFILE
    PROVE  Cleared(ino, k) \in AnInode /\ Cleared(ino, k).size = ino.size
<1>1. NDIRECT \in 0 .. NDIRECT /\ NoBlock \in Blocks \cup {NoBlock}
  BY LastPlace
<1>2. CASE k < NDIRECT
  <2>1. k \in 0 .. NDIRECT
    BY <1>2, AnyPlace, DirectPlace
  <2> QED
    BY <1>1, <1>2, <2>1, AddrsExcept DEF Cleared
<1>3. CASE ~(k < NDIRECT) /\ k = MAXFILE
  BY <1>1, <1>3, AddrsExcept DEF Cleared
<1>4. CASE ~(k < NDIRECT) /\ k # MAXFILE
  BY <1>4 DEF Cleared
<1> QED
  BY <1>2, <1>3, <1>4

-----------------------------------------------------------------------------
(* The inductive invariant. *)
IInv ==
    /\ TypeOK
    /\ Sound(bitmap, data, inode, Front)
    /\ \A p \in Procs : HoldsOK(p) /\ CallOK(p)
    /\ \A i \in Inodes : HeldOK(i) /\ SizeOK(i)

(* filewrite()'s chunk is at least a byte and its blocks fit the log. *)
LEMMA ChunkSize ==
    /\ MaxChunk \in Nat \ {0}
    /\ \E m \in Nat : MaxChunk = m * BSIZE /\ m + 5 <= MAXOPBLOCKS
<1>1. PICK m \in Nat \ {0} : m = (MAXOPBLOCKS - 1 - 1 - 2) \div 2 /\ 2 * m + 4 <= MAXOPBLOCKS
  BY Sizes
<1>2. MaxChunk = m * BSIZE
  BY <1>1 DEF MaxChunk
<1>3. m * BSIZE \in Nat \ {0}
  BY Sizes
<1>4. m + 5 <= MAXOPBLOCKS
  BY <1>1, Sizes
<1> QED
  BY <1>2, <1>3, <1>4, Zenon

(* The variables and what is computed from them. *)
LEMMA TypeFacts ==
    ASSUME TypeOK
    PROVE  /\ bitmap \subseteq Blocks /\ data \in [Blocks -> Cells]
           /\ inode \in [Inodes -> AnInode] /\ dinode \in [Inodes -> AnInode]
           /\ lock \in [Inodes -> Procs \cup {Nobody}] /\ off \in [Files -> Nat]
           /\ pc \in [Procs -> {"idle", "chunk", "write", "trunc", "unlock"}]
           /\ file \in [Procs -> Files] /\ left \in [Procs -> Nat] /\ tot \in [Procs -> Nat]
           /\ \A f \in Files : off[f] \in 0 .. MAXFILE * BSIZE
           /\ \A i \in Inodes : inode[i].size \in 0 .. MAXFILE * BSIZE /\ inode[i].size \in Nat
  BY DEF TypeOK, Cells, AnInode

LEMMA CallFacts ==
    ASSUME TypeOK, NEW p \in Procs
    PROVE  /\ file[p] \in Files /\ Ip(p) \in Inodes /\ off[file[p]] \in Nat
           /\ left[p] \in Nat /\ tot[p] \in Nat
           /\ Chunk(p) \in Nat /\ Chunk(p) <= left[p] /\ Chunk(p) <= MaxChunk
           /\ left[p] > 0 => Chunk(p) > 0
           /\ Pos(p) \in Nat /\ Pos(p) = off[file[p]] + tot[p]
<1>1. /\ file[p] \in Files /\ off[file[p]] \in Nat /\ left[p] \in Nat /\ tot[p] \in Nat
  BY TypeFacts
<1>2. Ip(p) \in Inodes
  BY <1>1, FileAssumption DEF Ip
<1>3. Chunk(p) = IF left[p] <= MaxChunk THEN left[p] ELSE MaxChunk
  BY <1>1, ChunkSize, LeastOfTwo DEF Chunk
<1>4. Pos(p) \in Nat /\ Pos(p) = off[file[p]] + tot[p]
  BY <1>1 DEF Pos
<1> QED
  BY <1>1, <1>2, <1>3, <1>4, ChunkSize

(* The model's operators and the table. *)
LEMMA TableLinks ==
    ASSUME NEW i \in Inodes, NEW k \in 0 .. MAXFILE
    PROVE  /\ ItemAt(inode[i], k) = Table[i][k]
           /\ k < MAXFILE => BlockAt(inode[i], k) = Table[i][k]
<1>1. Table[i][k] = ItemOf(data, inode[i], k)
  BY DEF Table, TableOf
<1>2. ~(MAXFILE < NDIRECT)
  BY LastPlace
<1>3. CASE k < MAXFILE
  BY <1>1, <1>3 DEF ItemAt, BlockAt, ItemOf
<1>4. CASE ~(k < MAXFILE)
  <2>1. k = MAXFILE
    BY <1>4, AnyPlace
  <2> QED
    BY <1>1, <1>2, <1>4, <2>1 DEF ItemAt, ItemOf
<1> QED
  BY <1>3, <1>4

(* How far the itrunc() of each file has come. *)
LEMMA FrontFacts ==
    ASSUME TypeOK
    PROVE  /\ Front \in [Inodes -> Nat]
           /\ \A i \in Inodes : Front[i] = IF Truncating(i) THEN tot[lock[i]] ELSE 0
<1>1. \A i \in Inodes : Front[i] = IF Truncating(i) THEN tot[lock[i]] ELSE 0
  BY DEF Front, Passed, Truncating
<1>2. \A i \in Inodes : Truncating(i) => lock[i] \in Procs
  BY TypeFacts DEF Truncating
<1>3. \A i \in Inodes : Front[i] \in Nat
  BY <1>1, <1>2, TypeFacts
<1> QED
  BY <1>1, <1>3 DEF Front

(* At first no file has a block, and no block is allocated. *)
LEMMA InitInv == Init => IInv
<1> SUFFICES ASSUME Init PROVE IInv
  OBVIOUS
<1>1. NoFile \in Files
  BY FileAssumption DEF NoFile
<1>2. Empty \in AnInode /\ Empty.size = 0 /\ \A k \in 0 .. NDIRECT : Empty.addrs[k] = NoBlock
  BY LastPlace DEF Empty, AnInode
<1>3. data \in [Blocks -> Cells]
  BY DEF Init, Garbage, Cells
<1>4. inode = [i \in Inodes |-> Empty] /\ dinode = inode
  BY DEF Init
<1>5. TypeOK
  <2>1. inode \in [Inodes -> AnInode] /\ dinode \in [Inodes -> AnInode]
    BY <1>2, <1>4
  <2>2. off \in [Files -> 0 .. MAXFILE * BSIZE]
    BY LastPlace DEF Init
  <2>3. file \in [Procs -> Files]
    BY <1>1 DEF Init
  <2> QED
    BY <1>3, <2>1, <2>2, <2>3 DEF Init, TypeOK, Cells, AnInode
<1>6. ASSUME NEW i \in Inodes
      PROVE  lock[i] = Nobody /\ Front[i] = 0 /\ ~Truncating(i)
  BY <1>5, FrontFacts DEF Init, Truncating
<1>7. ASSUME NEW i \in Inodes, NEW k \in 0 .. MAXFILE PROVE Table[i][k] = NoBlock
  <2>1. Table[i][k] = ItemOf(data, inode[i], k)
    BY DEF Table, TableOf
  <2>2. NDIRECT \in 0 .. NDIRECT /\ (k < NDIRECT => k \in 0 .. NDIRECT)
    BY LastPlace, AnyPlace, DirectPlace
  <2> QED
    BY <2>1, <2>2, <1>2, <1>4 DEF ItemOf
<1>8. Sound(bitmap, data, inode, Front)
  <2>1. Layout(bitmap, Table, Front)
    BY <1>7 DEF Layout, Uses, Init
  <2>2. Reset(inode, Front)
    BY <1>6, Sizes DEF Reset
  <2> QED
    BY <1>5, <2>1, <2>2, TypeFacts, FrontFacts DEF Sound, Table
<1>9. ASSUME NEW p \in Procs PROVE HoldsOK(p) /\ CallOK(p)
  BY FileAssumption DEF Init, HoldsOK, CallOK, Held
<1>10. ASSUME NEW i \in Inodes PROVE HeldOK(i) /\ SizeOK(i)
  <2>1. HeldOK(i)
    BY <1>6 DEF HeldOK
  <2>2. inode[i].size = 0 /\ dinode[i] = inode[i]
    BY <1>2, <1>4
  <2>3. ASSUME NEW k \in 0 .. MAXFILE - 1 PROVE ~(k * BSIZE < 0)
    BY DataPlace
  <2>4. \A f \in Files : off[f] = 0
    BY DEF Init
  <2> QED
    BY <2>1, <2>2, <2>3, <2>4 DEF SizeOK
<1> QED
  BY <1>5, <1>8, <1>9, <1>10 DEF IInv

-----------------------------------------------------------------------------
(* A step of process p that is about inode i leaves the calls of other     *)
(* processes and the other inodes alone.                                   *)
OnlyOf(p) ==
    \A q \in Procs : q # p =>
        /\ pc'[q] = pc[q] /\ file'[q] = file[q] /\ left'[q] = left[q]
        /\ tot'[q] = tot[q] /\ logged'[q] = logged[q] /\ saved'[q] = saved[q]

Keeps(i) ==
    /\ inode'[i] = inode[i] /\ dinode'[i] = dinode[i] /\ lock'[i] = lock[i]
    /\ \A k \in 0 .. MAXFILE : Table'[i][k] = Table[i][k]
    /\ \A f \in Files : InodeOf[f] = i => off'[f] = off[f]

Alone(p, i) ==
    /\ OnlyOf(p)
    /\ pc[p] \in Held => i = Ip(p)
    /\ \A j \in Inodes :
         Keeps(j) \/ (j = i /\ lock[i] \in {p, Nobody} /\ lock'[i] \in {p, Nobody})

(* A step at one file leaves the other processes' calls alone, *)
LEMMA OtherCalls ==
    ASSUME IInv, NEW p \in Procs, NEW i \in Inodes, Alone(p, i), NEW q \in Procs, q # p
    PROVE  HoldsOK(q)' /\ CallOK(q)'
<1>1. /\ pc'[q] = pc[q] /\ file'[q] = file[q] /\ left'[q] = left[q]
      /\ tot'[q] = tot[q] /\ logged'[q] = logged[q]
  BY DEF Alone, OnlyOf
<1>2. TypeOK /\ HoldsOK(q) /\ CallOK(q)
  BY DEF IInv
<1>3. Ip(q)' = Ip(q) /\ Chunk(q)' = Chunk(q) /\ Ip(q) \in Inodes /\ file[q] \in Files
  BY <1>1, <1>2, CallFacts DEF Ip, Chunk
<1>4. ASSUME pc[q] \in Held PROVE Keeps(Ip(q))
  <2>1. lock[Ip(q)] = q /\ q # Nobody
    BY <1>2, <1>4, FileAssumption DEF HoldsOK
  <2> QED
    BY <2>1, <1>3 DEF Alone
<1>5. HoldsOK(q)'
  BY <1>1, <1>2, <1>3, <1>4 DEF HoldsOK, Keeps
<1>6. ASSUME pc[q] = "write" PROVE WriteOK(q, Ip(q))'
  <2>1. pc[q] \in Held
    BY <1>6 DEF Held
  <2>2. WriteOK(q, Ip(q)) /\ Keeps(Ip(q))
    BY <1>2, <1>4, <1>6, <2>1 DEF CallOK
  <2>3. off'[file[q]] = off[file[q]]
    BY <1>3, <2>2 DEF Keeps, Ip
  <2>4. Pos(q)' = Pos(q)
    BY <1>1, <2>3 DEF Pos
  <2>5. \A k \in 0 .. MAXFILE - 1 : k \in 0 .. MAXFILE
    BY DataPlace
  <2>6. \A k \in 0 .. MAXFILE - 1 : Table'[Ip(q)][k] = Table[Ip(q)][k]
    BY <2>2, <2>5 DEF Keeps
  <2>7. inode'[Ip(q)] = inode[Ip(q)] /\ dinode'[Ip(q)] = dinode[Ip(q)]
    BY <2>2 DEF Keeps
  <2> QED
    BY <1>1, <1>3, <2>2, <2>3, <2>4, <2>6, <2>7 DEF WriteOK
<1>7. CallOK(q)'
  BY <1>1, <1>2, <1>6 DEF CallOK
<1> QED
  BY <1>5, <1>7

(* and the other files. *)
LEMMA OtherInodes ==
    ASSUME IInv, NEW p \in Procs, OnlyOf(p), NEW j \in Inodes, Keeps(j), lock[j] # p
    PROVE  HeldOK(j)' /\ SizeOK(j)' /\ Front'[j] = Front[j]
<1>1. lock'[j] = lock[j] /\ inode'[j] = inode[j] /\ dinode'[j] = dinode[j]
  BY DEF Keeps
<1>2. TypeOK /\ HeldOK(j) /\ SizeOK(j)
  BY DEF IInv
<1>3. ASSUME lock[j] # Nobody
      PROVE  /\ lock[j] \in Procs /\ pc'[lock[j]] = pc[lock[j]] /\ tot'[lock[j]] = tot[lock[j]]
             /\ file'[lock[j]] = file[lock[j]]
  BY <1>2, <1>3, TypeFacts DEF OnlyOf
<1>4. Truncating(j)' <=> Truncating(j)
  BY <1>1, <1>3 DEF Truncating
<1>5. HeldOK(j)'
  BY <1>1, <1>2, <1>3 DEF HeldOK, Ip
<1>6. Front'[j] = Front[j]
  BY <1>1, <1>3 DEF Front, Passed
<1>7. \A k \in 0 .. MAXFILE - 1 : k \in 0 .. MAXFILE
  BY DataPlace
<1>8. \A k \in 0 .. MAXFILE - 1 : Table'[j][k] = Table[j][k]
  BY <1>7 DEF Keeps
<1>9. \A f \in Files : InodeOf[f] = j => off'[f] = off[f]
  BY DEF Keeps
<1>10. SizeOK(j)'
  BY <1>1, <1>2, <1>3, <1>4, <1>8, <1>9 DEF SizeOK
<1> QED
  BY <1>5, <1>6, <1>10

(* What remains to be shown of such a step. *)
LEMMA StepInv ==
    ASSUME IInv, NEW p \in Procs, NEW i \in Inodes, Alone(p, i), TypeOK',
           HoldsOK(p)', CallOK(p)',
           ~Keeps(i) \/ lock[i] = p => HeldOK(i)' /\ SizeOK(i)',
           (\A j \in Inodes : j # i => Front'[j] = Front[j]) =>
               Sound(bitmap', data', inode', Front')
    PROVE  IInv'
<1>1. OnlyOf(p) /\ TypeOK
  BY DEF Alone, IInv
<1>2. ASSUME NEW j \in Inodes, j # i PROVE Keeps(j) /\ lock[j] # p
  <2>1. Keeps(j)
    BY <1>2 DEF Alone
  <2>2. p # Nobody
    BY FileAssumption
  <2>3. lock[j] = p => Ip(p) = j /\ pc[p] \in Held
    BY <2>2 DEF IInv, HeldOK
  <2> QED
    BY <2>1, <2>3, <1>2 DEF Alone
<1>3. ASSUME NEW j \in Inodes, j # i PROVE HeldOK(j)' /\ SizeOK(j)' /\ Front'[j] = Front[j]
  BY <1>1, <1>2, <1>3, OtherInodes
<1>4. HeldOK(i)' /\ SizeOK(i)'
  BY <1>1, OtherInodes
<1>5. \A j \in Inodes : HeldOK(j)' /\ SizeOK(j)'
  BY <1>3, <1>4
<1>6. \A q \in Procs : HoldsOK(q)' /\ CallOK(q)'
  BY OtherCalls
<1>7. Sound(bitmap', data', inode', Front')
  BY <1>3
<1> QED
  BY <1>5, <1>6, <1>7 DEF IInv

-----------------------------------------------------------------------------
(* Steps that change no block and no inode. *)
LEMMA QuietTable ==
    ASSUME UNCHANGED <<data, inode, dinode>>, NEW j \in Inodes, lock'[j] = lock[j],
           \A g \in Files : InodeOf[g] = j => off'[g] = off[g]
    PROVE  Keeps(j)
<1>1. Table' = Table
  BY DEF Table, TableOf, ItemOf
<1> QED
  BY <1>1 DEF Keeps

LEMMA QuietSound ==
    ASSUME IInv, UNCHANGED <<bitmap, data, inode>>,
           \A j \in Inodes : Front'[j] = Front[j]
    PROVE  Sound(bitmap', data', inode', Front')
<1>1. Front' = Front
  BY DEF Front
<1> QED
  BY <1>1 DEF IInv

LEMMA CallArguments ==
    ASSUME NEW p \in Procs, NEW f \in FilesOf[p], NEW n \in CountsOf[p]
    PROVE  f \in Files /\ InodeOf[f] \in Inodes /\ n \in 1 .. MaxCount /\ MaxCount \in Nat
  BY FileAssumption

(* Each action of Next keeps the invariant. *)
LEMMA ReadStep ==
    ASSUME IInv, NEW p \in Procs, NEW f \in FilesOf[p], NEW n \in CountsOf[p], Read(p, f, n)
    PROVE  IInv'
<1> DEFINE i == InodeOf[f]
<1>1. f \in Files /\ i \in Inodes /\ n \in 1 .. MaxCount /\ MaxCount \in Nat
  BY CallArguments
<1>2. TypeOK /\ pc[p] = "idle" /\ lock[i] = Nobody
  BY DEF IInv, Read
<1>3. UNCHANGED <<bitmap, data, inode, dinode, lock, pc, file, left, tot, logged, saved>>
  BY DEF Read
<1>4. PICK m \in Nat : /\ off' = [off EXCEPT ![f] = @ + m]
                       /\ off[f] + m <= inode[i].size
  <2>1. inode[i].size \in Nat /\ off[f] \in Nat /\ off[f] <= inode[i].size
    BY <1>1, <1>2, TypeFacts DEF IInv, SizeOK
  <2>2. Min({n, inode[i].size - off[f]}) =
          IF n <= inode[i].size - off[f] THEN n ELSE inode[i].size - off[f]
    BY <1>1, <2>1, LeastOfTwo
  <2> DEFINE m == Min({n, inode[i].size - off[f]})
  <2>3. m \in Nat /\ off[f] + m <= inode[i].size
    BY <1>1, <2>1, <2>2
  <2>4. off' = [off EXCEPT ![f] = @ + m]
    BY <1>1, <1>2, TypeFacts DEF Read
  <2> HIDE DEF m
  <2> QED
    BY <2>3, <2>4
<1>5. /\ off'[f] = off[f] + m /\ off[f] + m \in 0 .. MAXFILE * BSIZE
      /\ \A g \in Files : g # f => off'[g] = off[g]
  <2>1. off \in [Files -> Nat] /\ inode[i].size \in 0 .. MAXFILE * BSIZE
    BY <1>1, <1>2, TypeFacts
  <2>2. off[f] + m \in 0 .. MAXFILE * BSIZE
    BY <1>1, <1>4, <2>1, Sizes
  <2> QED
    BY <1>1, <1>4, <2>1, <2>2
<1>6. Alone(p, i)
  <2>1. \A j \in Inodes : j # i => Keeps(j)
    BY <1>3, <1>5, QuietTable
  <2> QED
    BY <2>1, <1>2, <1>3 DEF Alone, OnlyOf, Held
<1>7. TypeOK'
  <2>1. off' \in [Files -> 0 .. MAXFILE * BSIZE]
    BY <1>1, <1>2, <1>4, <1>5 DEF TypeOK
  <2> QED
    BY <2>1, <1>2, <1>3 DEF TypeOK
<1>8. HoldsOK(p)' /\ CallOK(p)'
  BY <1>2, <1>3 DEF IInv, HoldsOK, CallOK, Held
<1>9. Table' = Table /\ \A j \in Inodes : Front'[j] = Front[j]
  BY <1>3 DEF Table, TableOf, ItemOf, Front, Passed
<1>10. HeldOK(i)' /\ SizeOK(i)'
  <2>1. HeldOK(i)'
    BY <1>2, <1>3 DEF HeldOK
  <2>2. SizeOK(i) /\ ~Truncating(i) /\ inode[i].size \in Nat
    BY <1>1, <1>2, TypeFacts DEF IInv, Truncating
  <2>3. \A g \in Files : InodeOf[g] = i => off'[g] <= inode[i].size
    BY <1>4, <1>5, <2>2 DEF SizeOK
  <2>4. SizeOK(i)'
    BY <1>2, <1>3, <1>9, <2>2, <2>3 DEF SizeOK, Truncating
  <2> QED
    BY <2>1, <2>4
<1>11. Sound(bitmap', data', inode', Front')
  BY <1>3, <1>9, QuietSound
<1> HIDE DEF i
<1> QED
  BY <1>1, <1>6, <1>7, <1>8, <1>10, <1>11, StepInv

LEMMA WriteStep ==
    ASSUME IInv, NEW p \in Procs, NEW f \in FilesOf[p], NEW n \in CountsOf[p], Write(p, f, n)
    PROVE  IInv'
<1> DEFINE i == InodeOf[f]
<1>1. f \in Files /\ i \in Inodes /\ n \in 1 .. MaxCount /\ MaxCount \in Nat
  BY CallArguments
<1>2. TypeOK /\ pc[p] = "idle" /\ CallOK(p)
  BY DEF IInv, Write
<1>3. UNCHANGED <<bitmap, data, inode, dinode, lock, off, tot, logged, saved>>
  BY DEF Write
<1>4. /\ pc' = [pc EXCEPT ![p] = "chunk"] /\ file' = [file EXCEPT ![p] = f]
      /\ left' = [left EXCEPT ![p] = n]
  BY DEF Write
<1>5. pc'[p] = "chunk" /\ left'[p] = n
  BY <1>2, <1>4, TypeFacts
<1>6. OnlyOf(p)
  BY <1>2, <1>3, <1>4, TypeFacts DEF OnlyOf
<1>7. \A j \in Inodes : Keeps(j)
  BY <1>3, QuietTable
<1>8. TypeOK'
  BY <1>1, <1>2, <1>3, <1>4 DEF TypeOK
<1>9. HoldsOK(p)' /\ CallOK(p)'
  BY <1>1, <1>2, <1>3, <1>5 DEF HoldsOK, CallOK, Held
<1>10. ASSUME NEW j \in Inodes PROVE lock[j] # p
  BY <1>2, FileAssumption DEF IInv, HeldOK, Held
<1>11. \A j \in Inodes : Front'[j] = Front[j]
  BY <1>6, <1>7, <1>10, OtherInodes
<1>12. Sound(bitmap', data', inode', Front')
  BY <1>3, <1>11, QuietSound
<1>13. Alone(p, i)
  BY <1>2, <1>6, <1>7 DEF Alone, Held
<1> HIDE DEF i
<1> QED
  BY <1>1, <1>7, <1>8, <1>9, <1>10, <1>12, <1>13, StepInv

LEMMA WriteRefusedStep ==
    ASSUME IInv, NEW p \in Procs, WriteRefused(p)
    PROVE  IInv'
<1>0. PICK i \in Inodes : i = Ip(p)
  BY CallFacts DEF IInv
<1>1. TypeOK /\ pc[p] = "chunk" /\ CallOK(p) /\ NoFile \in Files
  BY <1>0, FileAssumption DEF IInv, WriteRefused, NoFile
<1>2. UNCHANGED <<bitmap, data, inode, dinode, lock, off, tot, logged, saved>>
  BY DEF WriteRefused
<1>3. /\ pc' = [pc EXCEPT ![p] = "idle"] /\ file' = [file EXCEPT ![p] = NoFile]
      /\ left' = [left EXCEPT ![p] = 0]
  BY DEF WriteRefused
<1>4. pc'[p] = "idle" /\ left'[p] = 0 /\ MaxCount \in Nat
  BY <1>1, <1>3, TypeFacts, FileAssumption
<1>5. OnlyOf(p)
  BY <1>1, <1>2, <1>3, TypeFacts DEF OnlyOf
<1>6. \A j \in Inodes : Keeps(j)
  BY <1>2, QuietTable
<1>7. TypeOK'
  BY <1>1, <1>2, <1>3 DEF TypeOK
<1>8. HoldsOK(p)' /\ CallOK(p)'
  <2>1. tot'[p] = 0 /\ logged'[p] = {} /\ 0 <= MaxCount
    BY <1>1, <1>2, <1>4 DEF CallOK
  <2> QED
    BY <1>4, <2>1, Zenon DEF HoldsOK, CallOK, Held
<1>9. ASSUME NEW j \in Inodes PROVE lock[j] # p
  BY <1>1, FileAssumption DEF IInv, HeldOK, Held
<1>10. \A j \in Inodes : Front'[j] = Front[j]
  BY <1>5, <1>6, <1>9, OtherInodes
<1>11. Sound(bitmap', data', inode', Front')
  BY <1>2, <1>10, QuietSound
<1>12. Alone(p, i)
  BY <1>1, <1>5, <1>6 DEF Alone, Held
<1> QED
  BY <1>1, <1>6, <1>7, <1>8, <1>9, <1>11, <1>12, StepInv

LEMMA WriteStartStep ==
    ASSUME IInv, NEW p \in Procs, WriteStart(p)
    PROVE  IInv'
<1>0. PICK i \in Inodes : i = Ip(p)
  BY CallFacts DEF IInv
<1>1. /\ TypeOK /\ pc[p] = "chunk" /\ CallOK(p) /\ lock[i] = Nobody
      /\ ~Refuses(p) /\ SizeOK(i) /\ p # Nobody
  BY <1>0, FileAssumption DEF IInv, WriteStart, Lock
<1>2. UNCHANGED <<bitmap, data, inode, dinode, off, file, left, tot, logged>>
  BY DEF WriteStart
<1>3. /\ lock' = [lock EXCEPT ![i] = p] /\ pc' = [pc EXCEPT ![p] = "write"]
      /\ saved' = [saved EXCEPT ![p] = Content(i)]
  BY <1>0 DEF WriteStart, Lock
<1>4. /\ pc'[p] = "write" /\ lock'[i] = p /\ \A j \in Inodes : j # i => lock'[j] = lock[j]
      /\ \A q \in Procs : q # p => pc'[q] = pc[q]
  BY <1>1, <1>3, TypeFacts
<1>5. OnlyOf(p)
  <2>1. \A q \in Procs : q # p => saved'[q] = saved[q]
    BY <1>3
  <2> QED
    BY <1>2, <1>4, <2>1 DEF OnlyOf
<1>6. \A j \in Inodes : j # i => Keeps(j)
  BY <1>2, <1>4, QuietTable
<1>7. TypeOK'
  BY <1>1, <1>2, <1>3 DEF TypeOK
<1>8. Ip(p)' = i /\ Chunk(p)' = Chunk(p) /\ Pos(p)' = Pos(p) /\ Table' = Table
  BY <1>0, <1>2 DEF Ip, Chunk, Pos, Table, TableOf, ItemOf
<1>9. HoldsOK(p)'
  BY <1>4, <1>8 DEF HoldsOK
<1>10. WriteOK(p, i)'
  <2>1. ~Truncating(i) /\ dinode[i] = inode[i]
    BY <1>1 DEF Truncating, SizeOK
  <2>2. /\ off[file[p]] \in Nat /\ Chunk(p) \in Nat /\ Pos(p) = off[file[p]] + tot[p]
        /\ tot[p] = 0 /\ inode[i].size \in Nat /\ MAXFILE * BSIZE \in Nat
    <3>1. off[file[p]] \in Nat /\ Chunk(p) \in Nat /\ Pos(p) = off[file[p]] + tot[p]
      BY <1>1, CallFacts
    <3>2. inode[i].size \in Nat
      BY <1>1, TypeFacts
    <3> QED
      BY <1>1, <3>1, <3>2, Sizes DEF CallOK
  <2>3. off[file[p]] <= inode[i].size /\ off[file[p]] + Chunk(p) <= MAXFILE * BSIZE
    BY <1>0, <1>1, <2>2 DEF Refuses
  <2>4. ASSUME NEW k \in 0 .. MAXFILE - 1, k * BSIZE < Pos(p) PROVE Table[i][k] # NoBlock
    <3>1. k * BSIZE \in Nat
      BY DataPlace
    <3>2. k * BSIZE < inode[i].size
      BY <2>2, <2>3, <2>4, <3>1
    <3> QED
      BY <3>2, <1>1, <2>1 DEF SizeOK
  <2> QED
    BY <1>2, <1>8, <2>1, <2>2, <2>3, <2>4 DEF WriteOK
<1>11. CallOK(p)'
  BY <1>1, <1>2, <1>4, <1>8, <1>10 DEF CallOK
<1>12. HeldOK(i)'
  BY <1>4, <1>8 DEF HeldOK, Held
<1>13. SizeOK(i)'
  <2>1. ~Truncating(i) /\ ~Truncating(i)' /\ ~(lock'[i] = Nobody \/ pc'[lock'[i]] = "unlock")
    BY <1>1, <1>4 DEF Truncating
  <2> QED
    BY <1>1, <1>2, <1>8, <2>1 DEF SizeOK
<1>14. Front'[i] = Front[i]
  BY <1>1, <1>4 DEF Front, Passed
<1>15. Alone(p, i)
  BY <1>0, <1>1, <1>4, <1>5, <1>6 DEF Alone, Held
<1>16. (\A j \in Inodes : j # i => Front'[j] = Front[j]) => Sound(bitmap', data', inode', Front')
  BY <1>2, <1>14, QuietSound
<1> QED
  BY <1>1, <1>7, <1>9, <1>11, <1>12, <1>13, <1>15, <1>16, StepInv

LEMMA UnlockStep ==
    ASSUME IInv, NEW p \in Procs, Unlock(p)
    PROVE  IInv'
<1>0. PICK i \in Inodes : i = Ip(p)
  BY CallFacts DEF IInv
<1>1. /\ TypeOK /\ pc[p] = "unlock" /\ CallOK(p) /\ SizeOK(i)
      /\ NoFile \in Files /\ MaxCount \in Nat /\ p # Nobody
  BY <1>0, FileAssumption DEF IInv, Unlock, NoFile
<1>2. lock[i] = p
  BY <1>0, <1>1 DEF IInv, HoldsOK, Held
<1>3. UNCHANGED <<bitmap, data, inode, dinode, off>>
  BY DEF Unlock
<1>4. /\ lock' = [lock EXCEPT ![i] = Nobody] /\ left' = [left EXCEPT ![p] = @ - Chunk(p)]
      /\ tot' = [tot EXCEPT ![p] = 0] /\ logged' = [logged EXCEPT ![p] = {}]
      /\ saved' = [saved EXCEPT ![p] = <<>>]
  BY <1>0 DEF Unlock
<1>5. \/ left'[p] > 0 /\ pc' = [pc EXCEPT ![p] = "chunk"] /\ file' = file
      \/ ~(left'[p] > 0) /\ pc' = [pc EXCEPT ![p] = "idle"] /\ file' = [file EXCEPT ![p] = NoFile]
  BY DEF Unlock
<1>6. /\ left'[p] \in 0 .. MaxCount /\ tot'[p] = 0 /\ logged'[p] = {} /\ lock'[i] = Nobody
      /\ left' \in [Procs -> Nat]
  <2>1. /\ Chunk(p) \in Nat /\ Chunk(p) <= left[p] /\ left[p] \in Nat /\ left[p] <= MaxCount
        /\ left \in [Procs -> Nat]
    BY <1>1, CallFacts, TypeFacts DEF CallOK
  <2>2. left'[p] = left[p] - Chunk(p)
    BY <1>4, <2>1
  <2>3. left[p] - Chunk(p) \in 0 .. MaxCount
    BY <1>1, <2>1
  <2>4. logged \in [Procs -> SUBSET (Blocks \cup {BitmapBlock, InodeBlock})]
    BY <1>1 DEF TypeOK
  <2>5. tot'[p] = 0 /\ logged'[p] = {} /\ lock'[i] = Nobody
    BY <1>1, <1>4, <2>4, TypeFacts
  <2>6. left' \in [Procs -> Nat]
    BY <1>4, <2>1, <2>3
  <2> QED
    BY <2>2, <2>3, <2>5, <2>6
<1>7. pc'[p] \in {"chunk", "idle"} /\ (pc'[p] = "chunk" => left'[p] > 0)
  BY <1>1, <1>5, TypeFacts
<1>8. OnlyOf(p)
  <2>1. \A q \in Procs : q # p => /\ left'[q] = left[q] /\ tot'[q] = tot[q]
                                  /\ logged'[q] = logged[q] /\ saved'[q] = saved[q]
    BY <1>4
  <2>2. \A q \in Procs : q # p => pc'[q] = pc[q]
    BY <1>1, <1>5, TypeFacts
  <2>3. \A q \in Procs : q # p => file'[q] = file[q]
    BY <1>1, <1>5, TypeFacts
  <2> QED
    BY <2>1, <2>2, <2>3 DEF OnlyOf
<1>9. \A j \in Inodes : j # i => Keeps(j)
  <2>1. \A j \in Inodes : j # i => lock'[j] = lock[j]
    BY <1>4
  <2> QED
    BY <1>3, <2>1, QuietTable
<1>10. TypeOK'
  <2>1. pc' \in [Procs -> {"idle", "chunk", "write", "trunc", "unlock"}] /\ file' \in [Procs -> Files]
    BY <1>1, <1>5, TypeFacts
  <2> QED
    BY <1>1, <1>3, <1>4, <1>6, <2>1 DEF TypeOK
<1>11. HoldsOK(p)' /\ CallOK(p)'
  BY <1>6, <1>7 DEF HoldsOK, CallOK, Held
<1>12. HeldOK(i)'
  BY <1>6 DEF HeldOK
<1>13. SizeOK(i)'
  <2>1. ~Truncating(i) /\ ~Truncating(i)' /\ dinode[i] = inode[i]
    BY <1>1, <1>2, <1>6 DEF Truncating, SizeOK
  <2>2. Table' = Table
    BY <1>3 DEF Table, TableOf, ItemOf
  <2> QED
    BY <1>1, <1>3, <2>1, <2>2 DEF SizeOK
<1>14. Front'[i] = Front[i]
  BY <1>1, <1>2, <1>6 DEF Front, Passed
<1>15. Alone(p, i)
  BY <1>0, <1>2, <1>6, <1>8, <1>9 DEF Alone
<1>16. (\A j \in Inodes : j # i => Front'[j] = Front[j]) => Sound(bitmap', data', inode', Front')
  BY <1>3, <1>14, QuietSound
<1> QED
  BY <1>1, <1>10, <1>11, <1>12, <1>13, <1>15, <1>16, StepInv

LEMMA TruncStartStep ==
    ASSUME IInv, NEW p \in Procs, NEW f \in FilesOf[p], TruncStart(p, f)
    PROVE  IInv'
<1> DEFINE i == InodeOf[f]
<1>1. /\ TypeOK /\ pc[p] = "idle" /\ CallOK(p) /\ f \in Files /\ i \in Inodes
      /\ lock[i] = Nobody /\ SizeOK(i) /\ p # Nobody
  BY FileAssumption DEF IInv, TruncStart
<1>2. UNCHANGED <<bitmap, data, inode, dinode, off, left, tot, logged>>
  BY DEF TruncStart
<1>3. /\ lock' = [lock EXCEPT ![i] = p] /\ pc' = [pc EXCEPT ![p] = "trunc"]
      /\ file' = [file EXCEPT ![p] = f] /\ saved' = [saved EXCEPT ![p] = Content(i)]
  BY DEF TruncStart
<1>4. /\ pc'[p] = "trunc" /\ lock'[i] = p /\ file'[p] = f
      /\ \A j \in Inodes : j # i => lock'[j] = lock[j]
  BY <1>1, <1>3, TypeFacts
<1>5. OnlyOf(p)
  <2>1. \A q \in Procs : q # p => saved'[q] = saved[q] /\ pc'[q] = pc[q] /\ file'[q] = file[q]
    BY <1>3
  <2> QED
    BY <1>2, <2>1 DEF OnlyOf
<1>6. \A j \in Inodes : j # i => Keeps(j)
  BY <1>2, <1>4, QuietTable
<1>7. TypeOK'
  BY <1>1, <1>2, <1>3 DEF TypeOK
<1>8. Ip(p)' = i
  BY <1>4 DEF Ip
<1>9. HoldsOK(p)' /\ CallOK(p)' /\ HeldOK(i)'
  BY <1>1, <1>2, <1>4, <1>8 DEF HoldsOK, HeldOK, CallOK, Held
<1>10. SizeOK(i)'
  <2>1. Truncating(i)' /\ ~(lock'[i] = Nobody \/ pc'[lock'[i]] = "unlock")
    BY <1>1, <1>4 DEF Truncating
  <2> QED
    BY <1>1, <1>2, <2>1 DEF SizeOK
<1>11. Front'[i] = Front[i]
  <2>1. tot[p] = 0
    BY <1>1 DEF CallOK
  <2> QED
    BY <1>1, <1>2, <1>4, <2>1 DEF Front, Passed
<1>12. Alone(p, i)
  BY <1>1, <1>4, <1>5, <1>6 DEF Alone, Held
<1> HIDE DEF i
<1>13. (\A j \in Inodes : j # i => Front'[j] = Front[j]) => Sound(bitmap', data', inode', Front')
  BY <1>2, <1>11, QuietSound
<1> QED
  BY <1>1, <1>7, <1>9, <1>10, <1>12, <1>13, StepInv

-----------------------------------------------------------------------------
(* writei() at a block. *)
LEMMA AtBlock ==
    ASSUME IInv, NEW p \in Procs, NEW i \in Inodes, i = Ip(p), pc[p] = "write",
           tot[p] < Chunk(p)
    PROVE  /\ lock[i] = p /\ p # Nobody /\ ~Truncating(i) /\ Front[i] = 0
           /\ WriteOK(p, i) /\ SizeOK(i)
           /\ Pos(p) \in Nat /\ Pos(p) < MAXFILE * BSIZE /\ Pos(p) = off[file[p]] + tot[p]
           /\ Pos(p) < off[file[p]] + Chunk(p)
           /\ Bn(p) \in 0 .. MAXFILE - 1 /\ Bn(p) \in 0 .. MAXFILE
           /\ Pos(p) % BSIZE \in 0 .. BSIZE - 1 /\ Bn(p) * BSIZE <= Pos(p)
<1>1. TypeOK /\ HoldsOK(p) /\ CallOK(p) /\ SizeOK(i) /\ p # Nobody
  BY FileAssumption DEF IInv
<1>2. lock[i] = p /\ ~Truncating(i) /\ Front[i] = 0 /\ WriteOK(p, i)
  <2>1. lock[i] = p /\ WriteOK(p, i)
    BY <1>1 DEF HoldsOK, CallOK, Held
  <2>2. ~Truncating(i)
    BY <2>1 DEF Truncating
  <2> QED
    BY <1>1, <2>1, <2>2, FrontFacts
<1>3. /\ Pos(p) \in Nat /\ Pos(p) = off[file[p]] + tot[p] /\ Chunk(p) \in Nat
      /\ off[file[p]] \in Nat /\ tot[p] \in Nat /\ MAXFILE * BSIZE \in Nat
  BY <1>1, CallFacts, Sizes
<1>4. Pos(p) < off[file[p]] + Chunk(p) /\ off[file[p]] + Chunk(p) <= MAXFILE * BSIZE
  BY <1>2, <1>3 DEF WriteOK
<1>5. Pos(p) < MAXFILE * BSIZE
  BY <1>3, <1>4
<1>6. /\ Bn(p) \in 0 .. MAXFILE - 1 /\ Pos(p) % BSIZE \in 0 .. BSIZE - 1
      /\ Bn(p) * BSIZE <= Pos(p)
  BY <1>3, <1>5, BlockOfPlace DEF Bn
<1>7. Bn(p) \in 0 .. MAXFILE
  BY <1>6, DataPlace
<1> QED
  BY <1>1, <1>2, <1>3, <1>4, <1>5, <1>6, <1>7

(* balloc() finds a free block when there is one. *)
LEMMA FreeBlockFacts ==
    ASSUME TypeOK, bitmap # Blocks
    PROVE  FreeBlock \in Blocks \ bitmap
<1>1. bitmap \subseteq Blocks /\ Blocks \subseteq Nat
  BY TypeFacts, LastPlace
<1>2. Blocks \ bitmap \in SUBSET Nat /\ Blocks \ bitmap # {}
  BY <1>1, Zenon
<1> QED
  BY <1>2, LeastNatural DEF FreeBlock

(* A block is allocated for place k of the file, the current block being   *)
(* missing.                                                                *)
LEMMA AllocStep ==
    ASSUME IInv, NEW p \in Procs, NEW i \in Inodes, i = Ip(p), pc[p] = "write",
           tot[p] < Chunk(p), Table[i][Bn(p)] = NoBlock,
           NEW x \in Blocks \ bitmap, NEW k \in 0 .. MAXFILE, Table[i][k] = NoBlock,
           bitmap' = bitmap \cup {x}, data' \in [Blocks -> Cells],
           inode' \in [Inodes -> AnInode], SameOthers(inode, inode', i),
           inode'[i].size = inode[i].size, Replaced(Table, Table', i, k, x),
           UNCHANGED <<dinode, lock, off, pc, file, left, tot, saved>>,
           NEW L \in SUBSET (Blocks \cup {BitmapBlock, InodeBlock}),
           logged' = [logged EXCEPT ![p] = @ \cup L]
    PROVE  IInv'
<1>1. /\ TypeOK /\ CallOK(p) /\ HoldsOK(p) /\ HeldOK(i) /\ Sound(bitmap, data, inode, Front)
  BY DEF IInv
<1>2. /\ lock[i] = p /\ p # Nobody /\ ~Truncating(i) /\ Front[i] = 0
      /\ WriteOK(p, i) /\ SizeOK(i)
      /\ Pos(p) \in Nat /\ Pos(p) < off[file[p]] + Chunk(p)
      /\ Bn(p) \in 0 .. MAXFILE - 1 /\ Bn(p) * BSIZE <= Pos(p)
  BY AtBlock
<1>3. off[file[p]] + Chunk(p) > inode[i].size
  <2>1. ~(Bn(p) * BSIZE < inode[i].size)
    BY <1>2 DEF SizeOK
  <2>2. inode[i].size \in Nat
    BY <1>1, TypeFacts
  <2>3. Bn(p) * BSIZE \in Nat
    BY <1>2, DataPlace
  <2>4. off[file[p]] \in Nat /\ Chunk(p) \in Nat
    BY <1>1, CallFacts
  <2> QED
    BY <1>2, <2>1, <2>2, <2>3, <2>4
<1>4. x # NoBlock
  BY LastPlace
<1>5. \A j \in Inodes : j # i => \A l \in 0 .. MAXFILE : Table'[j][l] = Table[j][l]
  BY DEF Replaced
<1>6. \A l \in 0 .. MAXFILE - 1 : Table[i][l] # NoBlock => Table'[i][l] # NoBlock
  BY <1>4, DataPlace DEF Replaced
<1>7. OnlyOf(p)
  <2>1. \A q \in Procs : q # p => logged'[q] = logged[q]
    BY <1>1 DEF TypeOK
  <2> QED
    BY <2>1 DEF OnlyOf
<1>8. Alone(p, i)
  <2>1. ASSUME NEW j \in Inodes, j # i PROVE Keeps(j)
    BY <1>5, <2>1 DEF Keeps, SameOthers
  <2> QED
    BY <1>2, <1>7, <2>1 DEF Alone
<1>9. TypeOK'
  <2>1. logged' \in [Procs -> SUBSET (Blocks \cup {BitmapBlock, InodeBlock})]
    BY <1>1 DEF TypeOK
  <2>2. bitmap' \subseteq Blocks
    BY <1>1, TypeFacts
  <2>3. dinode \in [Inodes -> AnInode]
    BY <1>1, TypeFacts
  <2> QED
    BY <1>1, <2>1, <2>2, <2>3 DEF TypeOK, Cells, AnInode
<1>10. Ip(p)' = Ip(p) /\ Chunk(p)' = Chunk(p) /\ Pos(p)' = Pos(p)
  BY DEF Ip, Chunk, Pos
<1>11. HoldsOK(p)' /\ HeldOK(i)'
  BY <1>1, <1>2, <1>10 DEF HoldsOK, HeldOK
<1>12. WriteOK(p, i)'
  BY <1>2, <1>3, <1>6, <1>10 DEF WriteOK
<1>13. CallOK(p)'
  BY <1>1, <1>10, <1>12 DEF CallOK
<1>14. SizeOK(i)'
  <2>1. ~(lock'[i] = Nobody \/ pc'[lock'[i]] = "unlock")
    BY <1>2
  <2> QED
    BY <1>2, <1>6, <2>1 DEF SizeOK, Truncating
<1>15. Front' = Front
  BY DEF Front, Passed
<1>16. Sound(bitmap', data', inode', Front')
  <2>1. Replaced(TableOf(data, inode), TableOf(data', inode'), i, k, x)
    BY DEF Table
  <2>2. TableOf(data, inode)[i][k] = NoBlock
    BY DEF Table
  <2>3. Sound(bitmap \cup {x}, data', inode', Front)
    BY <1>1, <1>2, <2>1, <2>2, AllocSound
  <2> QED
    BY <1>15, <2>3
<1> QED
  BY <1>8, <1>9, <1>11, <1>13, <1>14, <1>16, StepInv

(* bzero() clears that block and no other. *)
LEMMA BallocCells ==
    ASSUME NEW d \in [Blocks -> Cells], NEW x \in Blocks
    PROVE  /\ Balloc(d, x) \in [Blocks -> Cells] /\ SameElse(d, Balloc(d, x), x)
           /\ Balloc(d, x)[x] = Zeroes
<1>1. Zeroes \in Cells
  BY DEF Zeroes, Cells, NoBlock
<1> QED
  BY <1>1 DEF Balloc, SameElse

LEMMA BmapIndirectStep ==
    ASSUME IInv, NEW p \in Procs, BmapIndirect(p)
    PROVE  IInv'
<1>0. PICK i \in Inodes : i = Ip(p)
  BY CallFacts DEF IInv
<1>1. /\ TypeOK /\ pc[p] = "write" /\ tot[p] < Chunk(p) /\ Bn(p) >= NDIRECT
      /\ inode[i].addrs[NDIRECT] = NoBlock /\ bitmap # Blocks
      /\ Sound(bitmap, data, inode, Front)
  BY <1>0 DEF IInv, BmapIndirect
<1>2. PICK x \in Blocks \ bitmap : x = FreeBlock
  BY <1>1, FreeBlockFacts
<1>3. /\ bitmap' = bitmap \cup {x} /\ data' = Balloc(data, x)
      /\ inode' = [inode EXCEPT ![i].addrs[NDIRECT] = x]
      /\ logged' = [logged EXCEPT ![p] = @ \cup {BitmapBlock, x}]
      /\ UNCHANGED <<dinode, lock, off, pc, file, left, tot, saved>>
  BY <1>0, <1>2 DEF BmapIndirect
<1>4. Bn(p) \in 0 .. MAXFILE - 1 /\ Bn(p) \in 0 .. MAXFILE
  BY <1>0, <1>1, AtBlock
<1>5. MAXFILE \in 0 .. MAXFILE /\ ~(MAXFILE < NDIRECT) /\ ~(Bn(p) < NDIRECT) /\ Bn(p) # MAXFILE
  BY <1>1, <1>4, Sizes
<1>6. Table[i][Bn(p)] = NoBlock /\ Table[i][MAXFILE] = NoBlock
  BY <1>1, <1>4, <1>5 DEF Table, ItemOf, TableOf
<1>7. /\ inode \in [Inodes -> AnInode] /\ data \in [Blocks -> Cells]
      /\ NDIRECT \in 0 .. NDIRECT /\ x \in Blocks \cup {NoBlock}
  BY <1>1, TypeFacts, LastPlace
<1>8. inode'[i] = [inode[i] EXCEPT !.addrs[NDIRECT] = x] /\ SameOthers(inode, inode', i)
  BY <1>3, <1>7 DEF SameOthers
<1>9. /\ inode'[i] \in AnInode /\ inode'[i].size = inode[i].size
      /\ Readdressed(inode[i], inode'[i], NDIRECT, x)
  BY <1>7, <1>8, AddrsExcept
<1>10. inode' \in [Inodes -> AnInode]
  BY <1>3, <1>7, <1>8, <1>9
<1>11. data' \in [Blocks -> Cells] /\ SameElse(data, data', x) /\ data'[x] = Zeroes
  BY <1>3, <1>7, BallocCells
<1>12. Replaced(Table, Table', i, MAXFILE, x)
  <2>1. Replaced(TableOf(data, inode), TableOf(data', inode'), i, MAXFILE, x)
    BY <1>1, <1>8, <1>9, <1>11, AllocIndirect
  <2> QED
    BY <2>1 DEF Table
<1>13. {BitmapBlock, x} \in SUBSET (Blocks \cup {BitmapBlock, InodeBlock})
  OBVIOUS
<1> QED
  BY <1>0, <1>1, <1>3, <1>5, <1>6, <1>8, <1>9, <1>10, <1>11, <1>12, <1>13, AllocStep

LEMMA BmapStep ==
    ASSUME IInv, NEW p \in Procs, Bmap(p)
    PROVE  IInv'
<1>0. PICK i \in Inodes : i = Ip(p)
  BY CallFacts DEF IInv
<1>1. /\ TypeOK /\ pc[p] = "write" /\ tot[p] < Chunk(p) /\ bitmap # Blocks
      /\ Sound(bitmap, data, inode, Front)
  BY DEF IInv, Bmap
<1>2. PICK x \in Blocks \ bitmap : x = FreeBlock
  BY <1>1, FreeBlockFacts
<1>3. PICK k \in 0 .. MAXFILE - 1 : k = Bn(p) /\ k \in 0 .. MAXFILE
  BY <1>0, <1>1, AtBlock
<1>4. /\ bitmap' = bitmap \cup {x}
      /\ UNCHANGED <<dinode, lock, off, pc, file, left, tot, saved>>
  BY <1>2 DEF Bmap
<1>5. Table[i][k] = NoBlock /\ Table[i][Bn(p)] = NoBlock
  <2>1. BlockAt(inode[i], k) = NoBlock
    BY <1>0, <1>3 DEF Bmap
  <2>2. k < MAXFILE
    BY DataPlace
  <2> QED
    BY <2>1, <2>2, <1>3, TableLinks
<1>6. inode \in [Inodes -> AnInode] /\ data \in [Blocks -> Cells] /\ x \in Blocks \cup {NoBlock}
  BY <1>1, TypeFacts
<1>7. CASE k < NDIRECT
  <2>1. /\ inode' = [inode EXCEPT ![i].addrs[k] = x] /\ data' = Balloc(data, x)
        /\ logged' = [logged EXCEPT ![p] = @ \cup {BitmapBlock, x}]
    BY <1>0, <1>2, <1>3, <1>7 DEF Bmap
  <2>2. inode'[i] = [inode[i] EXCEPT !.addrs[k] = x] /\ SameOthers(inode, inode', i)
    BY <2>1, <1>6 DEF SameOthers
  <2>3. k \in 0 .. NDIRECT /\ k \in 0 .. NDIRECT - 1
    BY <1>7, Sizes
  <2>4. /\ inode'[i] \in AnInode /\ inode'[i].size = inode[i].size
        /\ Readdressed(inode[i], inode'[i], k, x)
    BY <1>6, <2>2, <2>3, AddrsExcept
  <2>5. inode' \in [Inodes -> AnInode]
    BY <2>1, <1>6, <2>2, <2>4
  <2>6. data' \in [Blocks -> Cells] /\ SameElse(data, data', x)
    BY <2>1, <1>6, BallocCells
  <2>7. Replaced(Table, Table', i, k, x)
    <3>1. Replaced(TableOf(data, inode), TableOf(data', inode'), i, k, x)
      BY <1>1, <2>2, <2>3, <2>4, <2>6, AllocDirect
    <3> QED
      BY <3>1 DEF Table
  <2>8. {BitmapBlock, x} \in SUBSET (Blocks \cup {BitmapBlock, InodeBlock})
    OBVIOUS
  <2> QED
    BY <1>0, <1>1, <1>3, <1>4, <1>5, <2>1, <2>2, <2>4, <2>5, <2>6, <2>7, <2>8, AllocStep
<1>8. CASE ~(k < NDIRECT)
  <2>0. PICK ind : ind = inode[i].addrs[NDIRECT]
    OBVIOUS
  <2>1. /\ inode' = inode /\ data' = [Balloc(data, x) EXCEPT ![ind][k - NDIRECT] = x]
        /\ logged' = [logged EXCEPT ![p] = @ \cup {BitmapBlock, x, ind}]
    BY <1>0, <1>2, <1>3, <1>8, <2>0 DEF Bmap
  <2>2. k >= NDIRECT /\ k \in NDIRECT .. MAXFILE - 1 /\ k - NDIRECT \in 0 .. BSIZE - 1
    BY <1>8, Sizes
  <2>3. ind # NoBlock
    BY <1>0, <1>3, <2>0, <2>2 DEF Bmap
  <2>4. ind \in bitmap /\ ind \in Blocks
    BY <1>1, <2>0, <2>3, IndirectUsed
  <2>5. /\ Balloc(data, x) \in [Blocks -> Cells] /\ SameElse(data, Balloc(data, x), x)
        /\ Balloc(data, x)[ind] = data[ind]
    BY <1>6, <2>4, BallocCells DEF SameElse
  <2> DEFINE z == Balloc(data, x)
  <2>6. /\ data' \in [Blocks -> Cells] /\ data'[ind] = [data[ind] EXCEPT ![k - NDIRECT] = x]
        /\ \A b \in Blocks : b # ind => data'[b] = z[b]
    <3>1. z \in [Blocks -> Cells] /\ z[ind] = data[ind] /\ data' = [z EXCEPT ![ind][k - NDIRECT] = x]
      BY <2>1, <2>5
    <3> HIDE DEF z
    <3>2. [data[ind] EXCEPT ![k - NDIRECT] = x] \in Cells
      BY <1>6, <2>2, <2>4 DEF Cells
    <3>3. data' = [z EXCEPT ![ind] = [data[ind] EXCEPT ![k - NDIRECT] = x]]
      BY <3>1
    <3> QED
      BY <3>1, <3>2, <3>3, <2>4
  <2>7. \A b \in Blocks : b \notin {x, ind} => data'[b] = data[b]
    BY <2>5, <2>6 DEF SameElse
  <2>8. \A l \in 0 .. BSIZE - 1 : data'[ind][l] = IF l = k - NDIRECT THEN x ELSE data[ind][l]
    BY <1>6, <2>2, <2>4, <2>6 DEF Cells
  <2>9. Replaced(Table, Table', i, k, x)
    <3>1. Replaced(TableOf(data, inode), TableOf(data', inode), i, k, x)
      BY <1>1, <2>0, <2>2, <2>3, <2>7, <2>8, AllocEntry
    <3> QED
      BY <3>1, <2>1 DEF Table
  <2>10. {BitmapBlock, x, ind} \in SUBSET (Blocks \cup {BitmapBlock, InodeBlock})
    BY <2>4
  <2>11. SameOthers(inode, inode', i) /\ inode' \in [Inodes -> AnInode] /\ inode'[i].size = inode[i].size
    BY <2>1, <1>6 DEF SameOthers
  <2>12. data' \in [Blocks -> Cells]
    BY <2>6
  <2> QED
    BY <1>0, <1>1, <1>3, <1>4, <1>5, <2>1, <2>9, <2>10, <2>11, <2>12, AllocStep
<1> QED
  BY <1>7, <1>8

-----------------------------------------------------------------------------
(* The part of a chunk that goes into the current block. *)
LEMMA PartFacts ==
    ASSUME IInv, NEW p \in Procs, NEW i \in Inodes, i = Ip(p), pc[p] = "write",
           tot[p] < Chunk(p)
    PROVE  /\ Part(p) \in Nat \ {0} /\ Part(p) <= BSIZE - (Pos(p) % BSIZE)
           /\ tot[p] + Part(p) <= Chunk(p)
<1>1. Pos(p) % BSIZE \in 0 .. BSIZE - 1
  BY AtBlock
<1>2. tot[p] \in Nat /\ Chunk(p) \in Nat
  BY CallFacts DEF IInv
<1>3. PICK x \in Nat \ {0}, y \in Nat \ {0} : x = Chunk(p) - tot[p] /\ y = BSIZE - (Pos(p) % BSIZE)
  BY <1>1, <1>2, Sizes
<1>4. Part(p) = IF x <= y THEN x ELSE y
  BY <1>3, LeastOfTwo DEF Part
<1> QED
  BY <1>2, <1>3, <1>4

(* The block that writei() is at is allocated and holds data. *)
LEMMA CurrentBlock ==
    ASSUME IInv, NEW p \in Procs, NEW i \in Inodes, i = Ip(p), pc[p] = "write",
           tot[p] < Chunk(p), NEW b, b = BlockAt(inode[i], Bn(p)), b # NoBlock
    PROVE  /\ b = Table[i][Bn(p)] /\ Uses(Table, Front, i, Bn(p)) /\ b \in bitmap /\ b \in Blocks
           /\ NotIndirect(bitmap, Table, Front, b)
<1>1. /\ Bn(p) \in 0 .. MAXFILE - 1 /\ Bn(p) \in 0 .. MAXFILE /\ Front[i] = 0 /\ Bn(p) < MAXFILE
      /\ Front[i] <= Bn(p)
  BY AtBlock, DataPlace
<1>2. b = Table[i][Bn(p)]
  BY <1>1, TableLinks
<1>3. Uses(Table, Front, i, Bn(p))
  BY <1>1, <1>2 DEF Uses
<1>4. b \in bitmap /\ b \in Blocks
  <2>1. Layout(bitmap, Table, Front) /\ bitmap \subseteq Blocks
    BY DEF IInv, Sound, Table
  <2>2. b \in bitmap
    BY <2>1, <1>1, <1>2, <1>3 DEF Layout
  <2> QED
    BY <2>1, <2>2
<1>5. NotIndirect(bitmap, Table, Front, b)
  BY <1>1, <1>2, <1>3 DEF NotIndirect
<1> QED
  BY <1>2, <1>3, <1>4, <1>5

LEMMA WriteBlockStep ==
    ASSUME IInv, NEW p \in Procs, WriteBlock(p)
    PROVE  IInv'
<1>0. PICK i \in Inodes : i = Ip(p)
  BY CallFacts DEF IInv
<1>1. /\ TypeOK /\ pc[p] = "write" /\ tot[p] < Chunk(p) /\ CallOK(p) /\ HoldsOK(p) /\ HeldOK(i)
      /\ Sound(bitmap, data, inode, Front)
  BY <1>0 DEF IInv, WriteBlock
<1>2. PICK b : b = BlockAt(inode[i], Bn(p))
  OBVIOUS
<1>3. /\ b # NoBlock
      /\ data' = [data EXCEPT ![b] =
                    [k \in 0 .. BSIZE - 1 |->
                       IF k \in (Pos(p) % BSIZE) .. (Pos(p) % BSIZE) + Part(p) - 1
                       THEN p ELSE @[k]]]
      /\ tot' = [tot EXCEPT ![p] = @ + Part(p)]
      /\ logged' = [logged EXCEPT ![p] = @ \cup {b}]
      /\ UNCHANGED <<bitmap, inode, dinode, lock, off, pc, file, left, saved>>
  BY <1>0, <1>2 DEF WriteBlock
<1>4. /\ b = Table[i][Bn(p)] /\ b \in Blocks /\ NotIndirect(bitmap, Table, Front, b)
  BY <1>0, <1>1, <1>2, <1>3, CurrentBlock
<1>5. /\ Part(p) \in Nat \ {0} /\ Part(p) <= BSIZE - (Pos(p) % BSIZE)
      /\ tot[p] + Part(p) <= Chunk(p)
  BY <1>0, <1>1, PartFacts
<1>6. /\ lock[i] = p /\ p # Nobody /\ ~Truncating(i) /\ Front[i] = 0
      /\ WriteOK(p, i) /\ SizeOK(i) /\ Pos(p) \in Nat /\ Bn(p) \in 0 .. MAXFILE - 1
  BY <1>0, <1>1, AtBlock
<1>7. data' \in [Blocks -> Cells] /\ SameElse(data, data', b)
  <2>1. data \in [Blocks -> Cells]
    BY <1>1, TypeFacts
  <2>2. [k \in 0 .. BSIZE - 1 |->
           IF k \in (Pos(p) % BSIZE) .. (Pos(p) % BSIZE) + Part(p) - 1
           THEN p ELSE data[b][k]] \in Cells
    BY <2>1, <1>4 DEF Cells
  <2> QED
    BY <2>1, <2>2, <1>3, <1>4 DEF SameElse
<1>8. tot'[p] = tot[p] + Part(p) /\ tot' \in [Procs -> Nat] /\ \A q \in Procs : q # p => tot'[q] = tot[q]
  BY <1>1, <1>3, <1>5, TypeFacts
<1>9. Front' = Front
  <2>1. \A j \in Inodes : Passed(j)' = Passed(j)
    <3> SUFFICES ASSUME NEW j \in Inodes PROVE Passed(j)' = Passed(j)
      OBVIOUS
    <3>1. lock[j] # Nobody /\ pc[lock[j]] = "trunc" => lock[j] \in Procs /\ lock[j] # p
      BY <1>1, TypeFacts
    <3> QED
      BY <3>1, <1>3, <1>8 DEF Passed
  <2> QED
    BY <2>1 DEF Front
<1>10. Sound(bitmap', data', inode', Front') /\ Table' = Table
  <2>1. NotIndirect(bitmap, TableOf(data, inode), Front, b)
    BY <1>4 DEF Table
  <2>2. Sound(bitmap, data', inode, Front) /\ TableOf(data', inode) = TableOf(data, inode)
    BY <1>1, <1>7, <2>1, DataSound
  <2> QED
    BY <2>2, <1>3, <1>9 DEF Table
<1>11. OnlyOf(p)
  <2>1. \A q \in Procs : q # p => logged'[q] = logged[q]
    BY <1>3
  <2> QED
    BY <1>3, <1>8, <2>1 DEF OnlyOf
<1>12. Alone(p, i)
  <2>1. \A j \in Inodes : Keeps(j)
    BY <1>3, <1>10 DEF Keeps
  <2> QED
    BY <1>0, <2>1, <1>11 DEF Alone
<1>13. TypeOK'
  <2>1. logged' \in [Procs -> SUBSET (Blocks \cup {BitmapBlock, InodeBlock})]
    BY <1>1, <1>3, <1>4 DEF TypeOK
  <2> QED
    BY <1>1, <1>3, <1>7, <1>8, <2>1 DEF TypeOK, Cells
<1>14. Ip(p)' = i /\ Chunk(p)' = Chunk(p) /\ Pos(p)' = Pos(p) + Part(p)
  <2>1. off[file[p]] \in Nat /\ tot[p] \in Nat
    BY <1>1, CallFacts
  <2>2. off[file[p]] + (tot[p] + Part(p)) = off[file[p]] + tot[p] + Part(p)
    BY <2>1, <1>5
  <2> QED
    BY <1>0, <1>3, <1>8, <2>2 DEF Ip, Chunk, Pos
<1>15. HoldsOK(p)' /\ HeldOK(i)'
  BY <1>1, <1>3, <1>6, <1>14 DEF HoldsOK, HeldOK
<1>16. WriteOK(p, i)'
  <2>1. ASSUME NEW k \in 0 .. MAXFILE - 1, k * BSIZE < Pos(p) + Part(p)
        PROVE  Table[i][k] # NoBlock
    <3>1. k * BSIZE < Pos(p) \/ k = Pos(p) \div BSIZE
      BY <2>1, <1>5, <1>6, StartsBefore
    <3> QED
      BY <3>1, <1>3, <1>4, <1>6 DEF WriteOK, Bn
  <2> QED
    BY <2>1, <1>3, <1>5, <1>6, <1>8, <1>10, <1>14 DEF WriteOK
<1>17. CallOK(p)'
  BY <1>1, <1>3, <1>14, <1>16 DEF CallOK
<1>18. SizeOK(i)'
  BY <1>3, <1>6, <1>10 DEF SizeOK, Truncating
<1> QED
  BY <1>10, <1>12, <1>13, <1>15, <1>17, <1>18, StepInv

LEMMA WriteEndStep ==
    ASSUME IInv, NEW p \in Procs, WriteEnd(p)
    PROVE  IInv'
<1>0. PICK i \in Inodes : i = Ip(p)
  BY CallFacts DEF IInv
<1>1. /\ TypeOK /\ pc[p] = "write" /\ tot[p] = Chunk(p) /\ CallOK(p) /\ HoldsOK(p)
      /\ HeldOK(i) /\ SizeOK(i) /\ Sound(bitmap, data, inode, Front) /\ p # Nobody
  BY <1>0, FileAssumption DEF IInv, WriteEnd
<1>2. lock[i] = p /\ WriteOK(p, i) /\ ~Truncating(i)
  BY <1>0, <1>1 DEF HoldsOK, CallOK, Held, Truncating
<1>3. /\ inode' = [inode EXCEPT ![i] = Grown(@, Pos(p))]
      /\ off' = [off EXCEPT ![file[p]] = @ + tot[p]]
      /\ pc' = [pc EXCEPT ![p] = "unlock"]
      /\ UNCHANGED <<bitmap, data, lock, file, left, tot, saved>>
  BY <1>0 DEF WriteEnd
<1>4. \/ /\ Pos(p) > inode[i].size /\ dinode' = [dinode EXCEPT ![i] = inode'[i]]
         /\ logged' = [logged EXCEPT ![p] = @ \cup {InodeBlock}]
      \/ ~(Pos(p) > inode[i].size) /\ dinode' = dinode /\ logged' = logged
  BY <1>0 DEF WriteEnd
<1>5. /\ Pos(p) \in Nat /\ Pos(p) = off[file[p]] + tot[p] /\ Pos(p) <= MAXFILE * BSIZE
      /\ Pos(p) \in 0 .. MAXFILE * BSIZE /\ file[p] \in Files /\ InodeOf[file[p]] = i
  <2>1. /\ Pos(p) \in Nat /\ Pos(p) = off[file[p]] + tot[p] /\ off[file[p]] \in Nat
        /\ file[p] \in Files /\ tot[p] \in Nat
    BY <1>1, CallFacts
  <2>2. Pos(p) <= MAXFILE * BSIZE
    BY <1>1, <1>2, <2>1 DEF WriteOK
  <2> QED
    BY <1>0, <2>1, <2>2, Sizes DEF Ip
<1>6. inode \in [Inodes -> AnInode] /\ dinode \in [Inodes -> AnInode] /\ inode[i].size \in Nat
  BY <1>1, TypeFacts
<1>7. /\ inode'[i] = Grown(inode[i], Pos(p)) /\ \A j \in Inodes : j # i => inode'[j] = inode[j]
      /\ DOMAIN inode' = Inodes /\ inode' = [j \in Inodes |-> inode'[j]]
  BY <1>3, <1>6
<1>8. /\ inode'[i] \in AnInode /\ inode'[i].addrs = inode[i].addrs
      /\ inode'[i].size = IF Pos(p) > inode[i].size THEN Pos(p) ELSE inode[i].size
      /\ ~(Pos(p) > inode[i].size) => inode'[i] = inode[i]
  BY <1>5, <1>6, <1>7, GrownFacts
<1>9. inode' \in [Inodes -> AnInode] /\ \A j \in Inodes : inode'[j].addrs = inode[j].addrs
  BY <1>6, <1>7, <1>8
<1>10. dinode'[i] = inode'[i] /\ dinode' \in [Inodes -> AnInode] /\ \A j \in Inodes : j # i => dinode'[j] = dinode[j]
  <2>1. CASE Pos(p) > inode[i].size
    <3>1. dinode' = [dinode EXCEPT ![i] = inode'[i]]
      BY <1>4, <2>1
    <3> QED
      BY <3>1, <1>6, <1>8
  <2>2. CASE ~(Pos(p) > inode[i].size)
    <3>1. dinode[i] = inode[i]
      BY <1>1, <1>2, <1>5, <2>2 DEF WriteOK
    <3> QED
      BY <3>1, <1>4, <1>6, <1>8, <2>2
  <2> QED
    BY <2>1, <2>2
<1>11. Front' = Front
  <2>1. \A j \in Inodes : Passed(j)' = Passed(j)
    <3> SUFFICES ASSUME NEW j \in Inodes PROVE Passed(j)' = Passed(j)
      OBVIOUS
    <3>1. lock[j] # Nobody => lock[j] \in Procs
      BY <1>1, TypeFacts
    <3>2. \A q \in Procs : pc'[q] = IF q = p THEN "unlock" ELSE pc[q]
      BY <1>1, <1>3, TypeFacts
    <3>3. lock[j] # Nobody => (pc'[lock[j]] = "trunc" <=> pc[lock[j]] = "trunc")
      BY <3>1, <3>2, <1>1
    <3> QED
      BY <3>3, <1>3 DEF Passed
  <2> QED
    BY <2>1 DEF Front
<1>12. Sound(bitmap', data', inode', Front') /\ Table' = Table
  <2>1. Unmoved(inode, inode')
    BY <1>9 DEF Unmoved
  <2>2. Sound(bitmap, data, inode', Front)
    BY <1>1, <2>1, UnmovedSound
  <2>3. TableOf(data, inode') = TableOf(data, inode)
    BY <2>1, SameAddrs
  <2> QED
    BY <2>2, <2>3, <1>3, <1>11 DEF Table
<1>13. /\ off'[file[p]] = Pos(p) /\ off' \in [Files -> 0 .. MAXFILE * BSIZE]
       /\ \A f \in Files : f # file[p] => off'[f] = off[f]
  <2>1. off \in [Files -> 0 .. MAXFILE * BSIZE]
    BY <1>1 DEF TypeOK
  <2> QED
    BY <2>1, <1>3, <1>5
<1>14. pc'[p] = "unlock" /\ \A q \in Procs : q # p => pc'[q] = pc[q]
  BY <1>1, <1>3, TypeFacts
<1>15. logged' \in [Procs -> SUBSET (Blocks \cup {BitmapBlock, InodeBlock})]
       /\ \A q \in Procs : q # p => logged'[q] = logged[q]
  <2>1. logged \in [Procs -> SUBSET (Blocks \cup {BitmapBlock, InodeBlock})]
    BY <1>1 DEF TypeOK
  <2> QED
    BY <2>1, <1>4
<1>16. TypeOK'
  <2>1. pc' \in [Procs -> {"idle", "chunk", "write", "trunc", "unlock"}]
    BY <1>1, <1>3, TypeFacts
  <2> QED
    BY <2>1, <1>1, <1>3, <1>9, <1>10, <1>13, <1>15, ZenonT(40) DEF TypeOK, AnInode
<1>17. OnlyOf(p)
  BY <1>3, <1>14, <1>15 DEF OnlyOf
<1>18. Alone(p, i)
  <2>1. ASSUME NEW j \in Inodes, j # i PROVE Keeps(j)
    BY <2>1, <1>3, <1>5, <1>7, <1>10, <1>12, <1>13 DEF Keeps
  <2> QED
    BY <1>0, <1>2, <1>3, <1>17, <2>1 DEF Alone
<1>19. Ip(p)' = i
  BY <1>0, <1>3 DEF Ip
<1>20. HoldsOK(p)' /\ CallOK(p)' /\ HeldOK(i)'
  BY <1>1, <1>2, <1>3, <1>14, <1>19 DEF HoldsOK, CallOK, HeldOK, Held
<1>21. SizeOK(i)'
  <2>1. ASSUME NEW f \in Files, InodeOf[f] = i PROVE off'[f] <= inode'[i].size
    <3>1. off[f] <= inode[i].size /\ off[f] \in Nat
      BY <2>1, <1>1, TypeFacts DEF SizeOK
    <3> QED
      BY <3>1, <1>5, <1>6, <1>8, <1>13
  <2>2. ASSUME NEW k \in 0 .. MAXFILE - 1, k * BSIZE < inode'[i].size PROVE Table[i][k] # NoBlock
    <3>1. k * BSIZE < inode[i].size \/ k * BSIZE < Pos(p)
      BY <2>2, <1>8
    <3> QED
      BY <3>1, <1>1, <1>2 DEF SizeOK, WriteOK
  <2> QED
    BY <2>1, <2>2, <1>10, <1>12 DEF SizeOK
<1> QED
  BY <1>12, <1>16, <1>18, <1>20, <1>21, StepInv

-----------------------------------------------------------------------------
(* itrunc(). *)
LEMMA AtItem ==
    ASSUME IInv, NEW p \in Procs, NEW i \in Inodes, i = Ip(p), pc[p] = "trunc"
    PROVE  /\ TypeOK /\ lock[i] = p /\ p # Nobody /\ Truncating(i) /\ Front[i] = tot[p]
           /\ tot[p] \in Nat /\ CallOK(p) /\ HoldsOK(p) /\ HeldOK(i) /\ SizeOK(i)
           /\ Sound(bitmap, data, inode, Front)
<1>1. /\ TypeOK /\ CallOK(p) /\ HoldsOK(p) /\ HeldOK(i) /\ SizeOK(i) /\ p # Nobody
      /\ Sound(bitmap, data, inode, Front)
  BY FileAssumption DEF IInv
<1>2. lock[i] = p
  BY <1>1 DEF HoldsOK, Held
<1>3. Truncating(i)
  BY <1>1, <1>2 DEF Truncating
<1>4. Front[i] = tot[p]
  BY <1>1, <1>2, <1>3, FrontFacts
<1>5. tot[p] \in Nat
  BY <1>1, TypeFacts
<1> QED
  BY <1>1, <1>2, <1>3, <1>4, <1>5

(* What itrunc() has still to free, in the table. *)
LEMMA ItemsFacts ==
    ASSUME NEW p \in Procs, NEW i \in Inodes, i = Ip(p), tot[p] \in Nat
    PROVE  Items(p) = {k \in tot[p] .. MAXFILE : Table[i][k] # NoBlock}
<1>1. \A k \in tot[p] .. MAXFILE : k \in 0 .. MAXFILE
  BY PlacesFrom
<1>2. \A k \in tot[p] .. MAXFILE : ItemAt(inode[i], k) = Table[i][k]
  BY <1>1, TableLinks
<1> QED
  BY <1>2 DEF Items

LEMMA TruncBlockStep ==
    ASSUME IInv, NEW p \in Procs, TruncBlock(p)
    PROVE  IInv'
<1>0. PICK i \in Inodes : i = Ip(p)
  BY CallFacts DEF IInv
<1>1. pc[p] = "trunc" /\ Items(p) # {}
  BY DEF TruncBlock
<1>2. /\ TypeOK /\ lock[i] = p /\ p # Nobody /\ Truncating(i) /\ Front[i] = tot[p]
      /\ tot[p] \in Nat /\ CallOK(p) /\ HoldsOK(p) /\ HeldOK(i) /\ SizeOK(i)
      /\ Sound(bitmap, data, inode, Front)
  BY <1>0, <1>1, AtItem
<1>3. Items(p) = {l \in tot[p] .. MAXFILE : Table[i][l] # NoBlock}
  BY <1>0, <1>2, ItemsFacts
<1>4. Items(p) \in SUBSET Nat
  BY <1>2, <1>3, AnyPlace, PlacesFrom
<1>5. PICK k \in 0 .. MAXFILE :
        /\ k = Min(Items(p)) /\ tot[p] <= k /\ Table[i][k] # NoBlock
        /\ \A l \in Items(p) : k <= l
  <2>1. Min(Items(p)) \in Items(p) /\ \A l \in Items(p) : Min(Items(p)) <= l
    BY <1>1, <1>4, LeastNatural
  <2>2. /\ Min(Items(p)) \in tot[p] .. MAXFILE /\ Table[i][Min(Items(p))] # NoBlock
    BY <1>3, <2>1
  <2>3. Min(Items(p)) \in 0 .. MAXFILE /\ tot[p] <= Min(Items(p))
    BY <1>2, <2>2, PlacesFrom
  <2> QED
    BY <2>1, <2>2, <2>3, Zenon
<1>6. PICK b : b = ItemAt(inode[i], k)
  OBVIOUS
<1>7. b = Table[i][k]
  BY <1>6, TableLinks
<1>8. /\ bitmap' = bitmap \ {b} /\ data' = [data EXCEPT ![b] = Garbage] /\ b \in bitmap
      /\ inode' = [inode EXCEPT ![i] = Cleared(@, k)] /\ tot' = [tot EXCEPT ![p] = k + 1]
      /\ logged' = [logged EXCEPT ![p] = @ \cup {BitmapBlock}]
      /\ UNCHANGED <<dinode, lock, off, pc, file, left, saved>>
  BY <1>0, <1>5, <1>6 DEF TruncBlock
<1>9. Uses(Table, Front, i, k)
  BY <1>2, <1>5 DEF Uses
<1>10. \A l \in 0 .. MAXFILE : Front[i] <= l /\ l < k => Table[i][l] = NoBlock
  <2> SUFFICES ASSUME NEW l \in 0 .. MAXFILE, Front[i] <= l, l < k, Table[i][l] # NoBlock
               PROVE  FALSE
    OBVIOUS
  <2>1. l \in tot[p] .. MAXFILE
    BY <1>2, PlacesFrom
  <2>2. l \in Items(p)
    BY <1>3, <2>1
  <2>3. k <= l
    BY <1>5, <2>2
  <2> QED
    BY <2>3, Sizes
<1>11. inode \in [Inodes -> AnInode] /\ data \in [Blocks -> Cells] /\ bitmap \subseteq Blocks
  BY <1>2, TypeFacts
<1>12. data' \in [Blocks -> Cells] /\ SameElse(data, data', b)
  <2>1. Garbage \in Cells
    BY DEF Garbage, Cells
  <2> QED
    BY <2>1, <1>8, <1>11 DEF SameElse
<1>13. Cleared(inode[i], k) \in AnInode /\ Cleared(inode[i], k).size = inode[i].size
  BY <1>11, ClearedFacts
<1>14. /\ inode'[i] = Cleared(inode[i], k) /\ SameOthers(inode, inode', i)
       /\ inode' \in [Inodes -> AnInode] /\ inode'[i].size = inode[i].size
  BY <1>8, <1>11, <1>13 DEF SameOthers
<1>15. /\ tot'[p] = k + 1 /\ tot' \in [Procs -> Nat]
       /\ \A q \in Procs : q # p => tot'[q] = tot[q]
  <2>1. tot \in [Procs -> Nat] /\ k + 1 \in Nat
    BY <1>2, TypeFacts, AnyPlace
  <2> QED
    BY <2>1, <1>8
<1>16. logged' \in [Procs -> SUBSET (Blocks \cup {BitmapBlock, InodeBlock})]
       /\ \A q \in Procs : q # p => logged'[q] = logged[q]
  <2>1. logged \in [Procs -> SUBSET (Blocks \cup {BitmapBlock, InodeBlock})]
    BY <1>2 DEF TypeOK
  <2> QED
    BY <2>1, <1>8
<1>17. TypeOK'
  BY <1>2, <1>8, <1>12, <1>14, <1>15, <1>16, ZenonT(40) DEF TypeOK, AnInode, Cells
<1>18. OnlyOf(p)
  BY <1>8, <1>15, <1>16 DEF OnlyOf
<1>19. Front'[i] = k + 1 /\ Front' \in [Inodes -> Nat] /\ SameOthers(Front, Front', i)
  <2>1. Truncating(i)'
    BY <1>1, <1>2, <1>8 DEF Truncating
  <2>2. Front'[i] = k + 1 /\ Front' \in [Inodes -> Nat]
    <3>1. Front'[i] = k + 1
      BY <1>2, <1>8, <1>15, <2>1 DEF Front, Passed, Truncating
    <3>2. ASSUME NEW j \in Inodes PROVE Passed(j)' \in Nat
      <4>1. lock[j] # Nobody => lock[j] \in Procs
        BY <1>2, TypeFacts
      <4> QED
        BY <4>1, <1>8, <1>15 DEF Passed
    <3> QED
      BY <3>1, <3>2 DEF Front
  <2>3. ASSUME NEW j \in Inodes, j # i PROVE Front'[j] = Front[j]
    <3>1. lock[j] # p
      <4>1. lock[j] = p => Ip(p) = j
        BY <1>2 DEF IInv, HeldOK
      <4> QED
        BY <4>1, <1>0, <2>3
    <3>2. lock[j] # Nobody => lock[j] \in Procs
      BY <1>2, TypeFacts
    <3> QED
      BY <3>1, <3>2, <1>8, <1>15 DEF Front, Passed
  <2> QED
    BY <2>2, <2>3 DEF SameOthers
<1>20. Freed(data, inode, Front, data', inode', Front', i, k, b)
  <2>1. /\ Uses(TableOf(data, inode), Front, i, k) /\ b = TableOf(data, inode)[i][k]
        /\ \A l \in 0 .. MAXFILE : Front[i] <= l /\ l < k => TableOf(data, inode)[i][l] = NoBlock
    BY <1>7, <1>9, <1>10 DEF Table
  <2> QED
    BY <2>1, <1>12, <1>14, <1>19 DEF Freed
<1>21. /\ Sound(bitmap', data', inode', Front')
       /\ \A j \in Inodes : j # i => Keeps(j)
  <2>1. Sound(bitmap, data, inode, Front)
    BY <1>2
  <2>2. Sound(bitmap \ {b}, data', inode', Front') /\ OtherRows(data, inode, data', inode', i)
    BY <2>1, <1>20, FreedFacts
  <2>3. ASSUME NEW j \in Inodes, j # i PROVE Keeps(j)
    <3>1. \A l \in 0 .. MAXFILE : Table'[j][l] = Table[j][l]
      BY <2>2, <2>3 DEF OtherRows, Table
    <3> QED
      BY <3>1, <2>3, <1>8, <1>14 DEF Keeps, SameOthers
  <2> QED
    BY <2>2, <2>3, <1>8
<1>22. Alone(p, i)
  BY <1>0, <1>2, <1>8, <1>18, <1>21 DEF Alone
<1>23. Ip(p)' = i
  BY <1>0, <1>8 DEF Ip
<1>24. HoldsOK(p)' /\ CallOK(p)' /\ HeldOK(i)'
  BY <1>1, <1>2, <1>8, <1>23 DEF HoldsOK, CallOK, HeldOK, Held
<1>25. SizeOK(i)'
  <2>1. Truncating(i)' /\ ~(lock'[i] = Nobody \/ pc'[lock'[i]] = "unlock")
    BY <1>1, <1>2, <1>8 DEF Truncating
  <2> QED
    BY <2>1, <1>2, <1>8, <1>14 DEF SizeOK
<1> QED
  BY <1>17, <1>21, <1>22, <1>24, <1>25, StepInv

LEMMA TruncEndStep ==
    ASSUME IInv, NEW p \in Procs, TruncEnd(p)
    PROVE  IInv'
<1>0. PICK i \in Inodes : i = Ip(p)
  BY CallFacts DEF IInv
<1>1. pc[p] = "trunc" /\ Items(p) = {}
  BY DEF TruncEnd
<1>2. /\ TypeOK /\ lock[i] = p /\ p # Nobody /\ Truncating(i) /\ Front[i] = tot[p]
      /\ tot[p] \in Nat /\ CallOK(p) /\ HoldsOK(p) /\ HeldOK(i) /\ SizeOK(i)
      /\ Sound(bitmap, data, inode, Front)
  BY <1>0, <1>1, AtItem
<1>3. /\ inode' = [inode EXCEPT ![i].size = 0] /\ dinode' = [dinode EXCEPT ![i] = inode'[i]]
      /\ off' = [f \in Files |-> IF InodeOf[f] = i THEN 0 ELSE off[f]]
      /\ pc' = [pc EXCEPT ![p] = "unlock"]
      /\ logged' = [logged EXCEPT ![p] = @ \cup {InodeBlock}]
      /\ UNCHANGED <<bitmap, data, lock, file, left, tot, saved>>
  BY <1>0 DEF TruncEnd
<1>4. \A l \in 0 .. MAXFILE : Front[i] <= l => TableOf(data, inode)[i][l] = NoBlock
  <2>1. Items(p) = {l \in tot[p] .. MAXFILE : Table[i][l] # NoBlock}
    BY <1>0, <1>2, ItemsFacts
  <2>2. \A l \in 0 .. MAXFILE : tot[p] <= l => l \in tot[p] .. MAXFILE
    BY <1>2, PlacesFrom
  <2> QED
    BY <1>1, <1>2, <2>1, <2>2 DEF Table
<1>5. inode \in [Inodes -> AnInode] /\ dinode \in [Inodes -> AnInode]
  BY <1>2, TypeFacts
<1>6. inode'[i] = [inode[i] EXCEPT !.size = 0] /\ \A j \in Inodes : j # i => inode'[j] = inode[j]
  BY <1>3, <1>5
<1>7. inode'[i] \in AnInode /\ inode'[i].size = 0 /\ inode'[i].addrs = inode[i].addrs
  <2>1. 0 \in 0 .. MAXFILE * BSIZE
    BY LastPlace
  <2> QED
    BY <2>1, <1>5, <1>6, Resized
<1>8. inode' \in [Inodes -> AnInode] /\ \A j \in Inodes : inode'[j].addrs = inode[j].addrs
  <2>1. inode' = [inode EXCEPT ![i] = [inode[i] EXCEPT !.size = 0]]
    BY <1>3
  <2> QED
    BY <2>1, <1>5, <1>6, <1>7
<1>9. /\ dinode'[i] = inode'[i] /\ dinode' \in [Inodes -> AnInode]
      /\ \A j \in Inodes : j # i => dinode'[j] = dinode[j]
  BY <1>3, <1>5, <1>7
<1>10. pc'[p] = "unlock" /\ \A q \in Procs : q # p => pc'[q] = pc[q]
  BY <1>2, <1>3, TypeFacts
<1>11. /\ Front' \in [Inodes -> Nat] /\ SameOthers(Front, Front', i) /\ Front'[i] = 0
  <2>1. Front'[i] = 0
    BY <1>2, <1>3, <1>10 DEF Front, Passed
  <2>2. ASSUME NEW j \in Inodes, j # i PROVE Front'[j] = Front[j]
    <3>1. lock[j] # p
      <4>1. lock[j] = p => Ip(p) = j
        BY <1>2 DEF IInv, HeldOK
      <4> QED
        BY <4>1, <1>0, <2>2
    <3>2. lock[j] # Nobody => lock[j] \in Procs
      BY <1>2, TypeFacts
    <3> QED
      BY <3>1, <3>2, <1>3, <1>10 DEF Front, Passed
  <2>3. \A j \in Inodes : Front'[j] \in Nat
    <3>1. \A j \in Inodes : Front[j] \in Nat
      BY <1>2, FrontFacts
    <3>2. 0 \in Nat
      OBVIOUS
    <3> QED
      BY <2>1, <2>2, <3>1, <3>2
  <2> QED
    BY <2>1, <2>2, <2>3 DEF SameOthers, Front
<1>12. Sound(bitmap', data', inode', Front') /\ Table' = Table
  <2>1. Unmoved(inode, inode')
    BY <1>8 DEF Unmoved
  <2>2. Ended(data, inode, Front, inode', Front', i)
    BY <1>4, <1>11, <2>1 DEF Ended
  <2>3. Sound(bitmap, data, inode', Front')
    BY <1>2, <2>2, EndSound
  <2>4. TableOf(data, inode') = TableOf(data, inode)
    BY <2>1, SameAddrs
  <2> QED
    BY <2>3, <2>4, <1>3 DEF Table
<1>13. /\ off' \in [Files -> 0 .. MAXFILE * BSIZE]
       /\ \A f \in Files : off'[f] = IF InodeOf[f] = i THEN 0 ELSE off[f]
  BY <1>2, <1>3, LastPlace DEF TypeOK
<1>14. logged' \in [Procs -> SUBSET (Blocks \cup {BitmapBlock, InodeBlock})]
       /\ \A q \in Procs : q # p => logged'[q] = logged[q]
  <2>1. logged \in [Procs -> SUBSET (Blocks \cup {BitmapBlock, InodeBlock})]
    BY <1>2 DEF TypeOK
  <2> QED
    BY <2>1, <1>3
<1>15. TypeOK'
  <2>1. pc' \in [Procs -> {"idle", "chunk", "write", "trunc", "unlock"}]
    BY <1>2, <1>3, TypeFacts
  <2> QED
    BY <2>1, <1>2, <1>3, <1>8, <1>9, <1>13, <1>14 DEF TypeOK, AnInode
<1>16. OnlyOf(p)
  BY <1>3, <1>10, <1>14 DEF OnlyOf
<1>17. Alone(p, i)
  <2>1. ASSUME NEW j \in Inodes, j # i PROVE Keeps(j)
    BY <2>1, <1>3, <1>6, <1>9, <1>12, <1>13 DEF Keeps
  <2> QED
    BY <1>0, <1>2, <1>3, <1>16, <2>1 DEF Alone
<1>18. Ip(p)' = i
  BY <1>0, <1>3 DEF Ip
<1>19. HoldsOK(p)' /\ CallOK(p)' /\ HeldOK(i)'
  BY <1>2, <1>3, <1>10, <1>18 DEF HoldsOK, CallOK, HeldOK, Held
<1>20. SizeOK(i)'
  <2>1. \A k \in 0 .. MAXFILE - 1 : ~(k * BSIZE < 0)
    BY DataPlace
  <2> QED
    BY <2>1, <1>7, <1>9, <1>13 DEF SizeOK
<1> QED
  BY <1>12, <1>15, <1>17, <1>19, <1>20, StepInv

-----------------------------------------------------------------------------
(* Every step keeps the invariant. *)
LEMMA NextInv == IInv /\ [Next]_vars => IInv'
<1> SUFFICES ASSUME IInv, [Next]_vars PROVE IInv'
  OBVIOUS
<1>1. CASE UNCHANGED vars
  <2>1. UNCHANGED <<bitmap, data, inode, dinode, lock, off, pc, file, left, tot, logged, saved>>
    BY <1>1 DEF vars
  <2>2. Table' = Table /\ Front' = Front
    BY <2>1 DEF Table, TableOf, ItemOf, Front, Passed
  <2>3. TypeOK' /\ Sound(bitmap', data', inode', Front')
    BY <2>1, <2>2 DEF IInv, TypeOK
  <2>4. \A p \in Procs : HoldsOK(p)' /\ CallOK(p)'
    BY <2>1, <2>2 DEF IInv, HoldsOK, CallOK, WriteOK, Ip, Chunk, Pos
  <2>5. \A i \in Inodes : HeldOK(i)' /\ SizeOK(i)'
    BY <2>1, <2>2 DEF IInv, HeldOK, SizeOK, Truncating, Ip
  <2> QED
    BY <2>3, <2>4, <2>5 DEF IInv
<1>2. CASE Next
  BY <1>2, ReadStep, WriteStep, WriteRefusedStep, WriteStartStep, UnlockStep, TruncStartStep,
     BmapIndirectStep, BmapStep, WriteBlockStep, WriteEndStep, TruncBlockStep, TruncEndStep,
     Zenon DEF Next
<1> QED
  BY <1>1, <1>2

(* The table and the references of the model are the same. *)
LEMMA InvExact == IInv => BlocksExact
<1> SUFFICES ASSUME IInv PROVE BlocksExact
  OBVIOUS
<1>1. TypeOK /\ Layout(bitmap, Table, Front) /\ Front \in [Inodes -> Nat]
  BY DEF IInv, Sound, Table
<1>2. ASSUME NEW i \in Inodes, NEW k \in 0 .. MAXFILE
      PROVE  /\ <<i, k>> \in Refs <=> Uses(Table, Front, i, k)
             /\ RefBlock(<<i, k>>) = Table[i][k]
  <2>1. ItemAt(inode[i], k) = Table[i][k] /\ Passed(i) = Front[i]
    BY TableLinks DEF Front
  <2>2. Front[i] \in Nat /\ (k >= Front[i] <=> Front[i] <= k)
    BY <1>1, Sizes
  <2>3. /\ <<i, k>> \in Refs <=> k >= Passed(i) /\ ItemAt(inode[i], k) # NoBlock
        /\ RefBlock(<<i, k>>) = ItemAt(inode[i], k)
    BY DEF Refs, RefBlock
  <2> QED
    BY <2>1, <2>2, <2>3 DEF Uses
<1>3. ASSUME NEW r \in Refs
      PROVE  \E i \in Inodes, k \in 0 .. MAXFILE :
               r = <<i, k>> /\ Uses(Table, Front, i, k) /\ RefBlock(r) = Table[i][k]
  <2>1. PICK i \in Inodes, k \in 0 .. MAXFILE : r = <<i, k>>
    BY DEF Refs
  <2> QED
    BY <1>2, <1>3, <2>1
<1>4. bitmap = {RefBlock(r) : r \in Refs}
  <2>1. ASSUME NEW b \in bitmap PROVE \E r \in Refs : b = RefBlock(r)
    <3>1. PICK i \in Inodes, k \in 0 .. MAXFILE : Uses(Table, Front, i, k) /\ Table[i][k] = b
      BY <1>1, <2>1 DEF Layout
    <3> QED
      BY <3>1, <1>2
  <2>2. ASSUME NEW r \in Refs PROVE RefBlock(r) \in bitmap
    BY <1>1, <1>3, <2>2 DEF Layout
  <2> QED
    BY <2>1, <2>2
<1>5. \A r, s \in Refs : RefBlock(r) = RefBlock(s) => r = s
  <2> SUFFICES ASSUME NEW r \in Refs, NEW s \in Refs, RefBlock(r) = RefBlock(s) PROVE r = s
    OBVIOUS
  <2>1. PICK i \in Inodes, k \in 0 .. MAXFILE :
          r = <<i, k>> /\ Uses(Table, Front, i, k) /\ RefBlock(r) = Table[i][k]
    BY <1>3
  <2>2. PICK j \in Inodes, l \in 0 .. MAXFILE :
          s = <<j, l>> /\ Uses(Table, Front, j, l) /\ RefBlock(s) = Table[j][l]
    BY <1>3
  <2>3. i = j /\ k = l
    BY <1>1, <2>1, <2>2 DEF Layout
  <2> QED
    BY <2>1, <2>2, <2>3
<1>6. ASSUME NEW i \in Inodes, lock[i] = Nobody
      PROVE  /\ \A k \in 0 .. MAXFILE - 1 : k * BSIZE < inode[i].size => <<i, k>> \in Refs
             /\ dinode[i] = inode[i]
  <2>1. SizeOK(i) /\ ~Truncating(i) /\ Front[i] = 0
    BY <1>1, <1>6, FrontFacts DEF IInv, Truncating
  <2>2. ASSUME NEW k \in 0 .. MAXFILE - 1, k * BSIZE < inode[i].size PROVE <<i, k>> \in Refs
    <3>1. k \in 0 .. MAXFILE /\ 0 <= k
      BY DataPlace
    <3>2. Table[i][k] # NoBlock
      BY <2>1, <2>2 DEF SizeOK
    <3> QED
      BY <1>2, <2>1, <3>1, <3>2 DEF Uses
  <2> QED
    BY <1>6, <2>1, <2>2 DEF SizeOK
<1> QED
  BY <1>1, <1>4, <1>5, <1>6 DEF BlocksExact

(* balloc() and bfree() never disagree with the files: every allocated     *)
(* block is in one place of one file, for any number of processes and      *)
(* files and any geometry of the disk.                                     *)
THEOREM BlocksNeverShared == Spec => []BlocksExact
<1>1. Spec => []IInv
  BY InitInv, NextInv, PTL DEF Spec
<1>2. IInv => BlocksExact
  BY InvExact
<1> QED
  BY <1>1, <1>2, PTL
=============================================================================
