-------------------------------- MODULE Mkfs --------------------------------
(***************************************************************************)
(* mkfs.c, the host program that lays out the disk image the kernel starts *)
(* from.  It never looks for a free block: it takes inodes and blocks in   *)
(* their order, maps them as fs.c will, and writes the bitmap last.        *)
(*                                                                         *)
(* Sizes are counted in directory entries.  A unit of a file is its number *)
(* and its place; a directory entry names a file by its number in argv.    *)
(* A sector that was only zeroed is not in the domain of disk; sectors at  *)
(* or above FSSIZE are not in the image, and reading one fails.  xint()    *)
(* and xshort() change nothing on the build's hosts.                       *)
(***************************************************************************)
EXTENDS Integers, Sequences, FiniteSets, SequencesExt

CONSTANTS
    FSSIZE, LOGSIZE, NINODES,
    BSIZE,               \* units in a block; it has eight bits for each
    IPB,                 \* inodes in a block
    NDIRECT, NINDIRECT,
    Argvs                \* lists of the sizes of the files

VARIABLES
    argv, argi,          \* the sizes, and i in the loop over argv
    copied,              \* units of file argi that are in the image
    image,               \* disk, freeinode, freeblock, and whether all went well
    mkpc                 \* "root", "next", "copy", "done" or "failed"

mkfsVars == <<argv, argi, copied, image, mkpc>>

ninodeblocks == NINODES \div IPB + 1
nbitmap == FSSIZE \div (BSIZE * 8) + 1
nmeta == 2 + LOGSIZE + ninodeblocks + nbitmap
inodestart == 2 + LOGSIZE
bmapstart == inodestart + ninodeblocks
MAXFILE == NDIRECT + NINDIRECT
ROOTINO == 1

IBLOCK(inum) == inum \div IPB + inodestart

NoInode == [type |-> "free", nlink |-> 0, size |-> 0, addrs |-> [i \in 0 .. NDIRECT |-> 0]]
NoUnit == <<0, 0>>

MkfsInit ==
    /\ argv \in Argvs
    /\ argi = 1
    /\ copied = 0
    /\ image = [disk |-> <<>>, freeinode |-> 1, freeblock |-> nmeta, ok |-> TRUE]
    /\ mkpc = "root"
-----------------------------------------------------------------------------
(* Sectors and inodes *)

\* rsect(): what sector sec holds, zero being what a zeroed one holds.
rsect(im, sec, zero) == IF sec \in DOMAIN im.disk THEN im.disk[sec] ELSE zero

wsect(im, sec, block) ==
    [im EXCEPT !.disk = [s \in DOMAIN im.disk \cup {sec} |->
                            IF s = sec THEN block ELSE im.disk[s]]]

\* rsect() exits when the sector lies behind the image.
Readable(im, sec) == [im EXCEPT !.ok = @ /\ sec < FSSIZE]

InodeBlock(im, inum) == rsect(im, IBLOCK(inum), [i \in 0 .. IPB - 1 |-> NoInode])

rinode(im, inum) == InodeBlock(im, inum)[inum % IPB]

winode(im, inum, din) ==
    wsect(im, IBLOCK(inum), [InodeBlock(im, inum) EXCEPT ![inum % IPB] = din])

ialloc(im, type) ==
    winode([im EXCEPT !.freeinode = @ + 1], im.freeinode,
           [NoInode EXCEPT !.type = type, !.nlink = 1])
-----------------------------------------------------------------------------
(* iappend() *)

NoAddrs == [i \in 0 .. NINDIRECT - 1 |-> 0]

\* Block fbn of the inode din, taken from the free blocks when it has none.
MapBlock(im, din, fbn) ==
    IF fbn < NDIRECT
    THEN IF din.addrs[fbn] = 0
         THEN [im |-> [im EXCEPT !.freeblock = @ + 1],
               din |-> [din EXCEPT !.addrs[fbn] = im.freeblock],
               x |-> im.freeblock]
         ELSE [im |-> im, din |-> din, x |-> din.addrs[fbn]]
    ELSE LET fresh == din.addrs[NDIRECT] = 0
             ind == IF fresh THEN im.freeblock ELSE din.addrs[NDIRECT]
             im1 == Readable(IF fresh THEN [im EXCEPT !.freeblock = @ + 1] ELSE im, ind)
             indirect == rsect(im1, ind, NoAddrs)
             k == fbn - NDIRECT
             x == IF indirect[k] = 0 THEN im1.freeblock ELSE indirect[k]
         IN  [im |-> IF indirect[k] = 0
                     THEN wsect([im1 EXCEPT !.freeblock = @ + 1], ind, [indirect EXCEPT ![k] = x])
                     ELSE im1,
              din |-> [din EXCEPT !.addrs[NDIRECT] = ind],
              x |-> x]

NoUnits == [i \in 0 .. BSIZE - 1 |-> NoUnit]

\* The units p copied into block x from place from on.
WriteUnits(im, x, from, p) ==
    LET old == rsect(im, x, NoUnits)
    IN  wsect(im, x, [i \in 0 .. BSIZE - 1 |->
                         IF i \in from .. from + Len(p) - 1 THEN p[i - from + 1] ELSE old[i]])

\* The loop of iappend() with p to go, off and din being what it holds.  It
\* asserts that a block can be mapped and exits when a sector cannot be read.
RECURSIVE AppendFrom(_, _, _, _)

AppendFrom(im, din, off, p) ==
    LET fbn == off \div BSIZE
        m == MapBlock(im, din, fbn)
        n1 == IF Len(p) < (fbn + 1) * BSIZE - off THEN Len(p) ELSE (fbn + 1) * BSIZE - off
        read == Readable(m.im, m.x)
    IN  CASE p = <<>> -> [im |-> im, din |-> [din EXCEPT !.size = off]]
          [] p # <<>> /\ fbn >= MAXFILE -> [im |-> [im EXCEPT !.ok = FALSE], din |-> din]
          [] p # <<>> /\ fbn < MAXFILE /\ ~read.ok -> [im |-> read, din |-> din]
          [] OTHER -> AppendFrom(WriteUnits(read, m.x, off - fbn * BSIZE, SubSeq(p, 1, n1)),
                                 m.din, off + n1, SubSeq(p, n1 + 1, Len(p)))

iappend(im, inum, p) ==
    LET r == AppendFrom(im, rinode(im, inum), rinode(im, inum).size, p)
    IN  IF r.im.ok THEN winode(r.im, inum, r.din) ELSE r.im

\* A mutant: the last block is not marked.
ballocFew(im, used) ==
    IF used < BSIZE * 8 THEN wsect(im, bmapstart, 0 .. used - 2) ELSE [im EXCEPT !.ok = FALSE]

\* balloc(): the bitmap's block marks the first used blocks, if it has that
\* many bits.
balloc(im, used) ==
    IF used < BSIZE * 8 THEN wsect(im, bmapstart, 0 .. used - 1) ELSE [im EXCEPT !.ok = FALSE]
-----------------------------------------------------------------------------
(* main() *)

\* mkfs goes on at pc with the image im, unless it had to exit.
GoOn(im, pc) == image' = im /\ mkpc' = IF im.ok THEN pc ELSE "failed"

\* A directory entry for inode inum; name is a place in argv, 0 for ".", -1
\* for "..".
Dirent(inum, name) == <<inum, name>>

MakeRoot ==
    /\ mkpc = "root"
    /\ LET dot == iappend(ialloc(image, "dir"), ROOTINO, <<Dirent(ROOTINO, 0)>>)
       IN  GoOn(iappend(dot, ROOTINO, <<Dirent(ROOTINO, -1)>>), "next")
    /\ UNCHANGED <<argv, argi, copied>>

\* The next file gets an inode and an entry in the root directory.
AddFile ==
    /\ mkpc = "next" /\ argi <= Len(argv)
    /\ GoOn(iappend(ialloc(image, "file"), ROOTINO, <<Dirent(image.freeinode, argi)>>), "copy")
    /\ copied' = 0
    /\ UNCHANGED <<argv, argi>>

\* A read() of the file returns up to BSIZE units, which are appended.  Its
\* inode is the one that was allocated last.
CopyPiece ==
    /\ mkpc = "copy"
    /\ \E cc \in 1 .. BSIZE :
          /\ copied + cc <= argv[argi]
          /\ GoOn(iappend(image, image.freeinode - 1, [k \in 1 .. cc |-> <<argi, copied + k>>]), "copy")
          /\ copied' = copied + cc
    /\ UNCHANGED <<argv, argi>>

FileCopied ==
    /\ mkpc = "copy" /\ copied = argv[argi]
    /\ argi' = argi + 1
    /\ mkpc' = "next"
    /\ UNCHANGED <<argv, copied, image>>

\* What the size of the root directory is set to in the end.
RootSize(off) == (off \div BSIZE + 1) * BSIZE

Finish ==
    /\ mkpc = "next" /\ argi > Len(argv)
    /\ LET din == rinode(image, ROOTINO)
       IN  GoOn(balloc(winode(image, ROOTINO, [din EXCEPT !.size = RootSize(@)]), image.freeblock),
                "done")
    /\ UNCHANGED <<argv, argi, copied>>

MkfsNext == MakeRoot \/ AddFile \/ CopyPiece \/ FileCopied \/ Finish
-----------------------------------------------------------------------------
(* What the kernel will find in the image. *)

Inums == ROOTINO .. image.freeinode - 1
Din(i) == rinode(image, i)
IndirectOf(i) == rsect(image, Din(i).addrs[NDIRECT], NoAddrs)

\* The sector of block fbn of inode i as bmap() finds it, 0 for none.
Bmap(i, fbn) ==
    CASE fbn < NDIRECT -> Din(i).addrs[fbn]
      [] fbn \in NDIRECT .. MAXFILE - 1 /\ Din(i).addrs[NDIRECT] # 0 ->
            IndirectOf(i)[fbn - NDIRECT]
      [] OTHER -> 0

\* Where inode i keeps its sectors, and the sectors.
Holds(i) == {fbn \in 0 .. MAXFILE - 1 : Bmap(i, fbn) # 0}
Sectors(i) == {Bmap(i, fbn) : fbn \in Holds(i)} \cup ({Din(i).addrs[NDIRECT]} \ {0})

\* What readi() reads from inode i.
Content(i) ==
    [k \in 1 .. Din(i).size |->
        LET x == Bmap(i, (k - 1) \div BSIZE)
        IN  IF x = 0 THEN NoUnit ELSE rsect(image, x, NoUnits)[(k - 1) % BSIZE]]

Entries == <<Dirent(ROOTINO, 0), Dirent(ROOTINO, -1)>>
              \o [k \in 1 .. Len(argv) |-> Dirent(ROOTINO + k, k)]

\* When mkfs ends well the kernel can trust its image (mkfs.c:117-166,
\* 255-297): the root directory lists the files of argv and nothing
\* else, each file reads back as it was, no two inodes share a block and none
\* reaches into the metadata, and the bitmap marks exactly the metadata and
\* what the inodes hold (mkfs.c:237-251), all of it inside the disk.
ImageSound ==
    mkpc = "done" =>
        /\ IsPrefix(Entries, Content(ROOTINO))
        /\ \A k \in Len(Entries) + 1 .. Din(ROOTINO).size : Content(ROOTINO)[k] = NoUnit
        /\ \A k \in DOMAIN argv :
              Content(ROOTINO + k) = [u \in 1 .. argv[k] |-> <<k, u>>]
        /\ \A i, j \in Inums : i # j => Sectors(i) \cap Sectors(j) = {}
        /\ \A i \in Inums :
              Cardinality(Sectors(i)) = Cardinality(Holds(i))
                                           + (IF Din(i).addrs[NDIRECT] = 0 THEN 0 ELSE 1)
        /\ image.disk[bmapstart] = (0 .. nmeta - 1) \cup UNION {Sectors(i) : i \in Inums}
        /\ image.disk[bmapstart] \subseteq 0 .. FSSIZE - 1
        /\ \A i \in Inums : IBLOCK(i) < bmapstart
=============================================================================
