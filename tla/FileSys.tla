------------------------------ MODULE FileSys -------------------------------
(***************************************************************************)
(* Inodes, directories and the system calls on names: the inode cache and  *)
(* the path walk of fs.c, and open, create, mkdir, link, unlink, chdir and *)
(* close of sysfile.c, by processes that interleave wherever a sleep lock  *)
(* is taken.                                                               *)
(*                                                                         *)
(* A section that holds one inode's lock and asks for no other is one      *)
(* step.  iget() searches the cache under icache.lock, so an inode never   *)
(* has two entries in use, and the model names an entry by the inode it    *)
(* caches.  Crashes and durability are module Log's business.  A panic     *)
(* ends the behaviour: the action that would panic is disabled.            *)
(***************************************************************************)
EXTENDS Integers, Sequences, SequencesExt, FiniteSets, FiniteSetsExt

CONSTANTS
    Procs,
    NInodes,   \* inodes on disk
    NINODE,    \* entries of the inode cache
    Names,     \* file names, "." and ".." apart
    Paths,     \* the paths calls are made with; "/" first: from the root
    OpsOf,     \* the calls each process makes
    MaxLink,   \* bound on the links of a file, which the code counts in a short
    Nobody

Inums == 1 .. NInodes
None == 0
ROOTINO == 1
AllNames == Names \cup {".", ".."}

ASSUME SizeAssumption == NInodes \in Nat \ {0} /\ NINODE \in Nat \ {0}
ASSUME NameAssumption == Nobody \notin Procs /\ {".", "..", "/"} \cap Names = {}

VARIABLES
    dinode,   \* the inodes on disk, with the entries of those of directories
    icache,   \* the cache's entry for each inode, in use when ref > 0;
              \* lock is the holder of ip->lock
    pc,       \* where each process is in its call
    call,     \* the call: its arguments and the entries it has referenced
    cwd,      \* its current directory
    open,     \* its open file, one of them
    stray     \* inodes that were given a name in a removed directory (history)

vars == <<dinode, icache, pc, call, cwd, open, stray>>

Types == {"free", "dir", "file"}
NoEnts == [n \in AllNames |-> None]
Free == [type |-> "free", nlink |-> 0, ents |-> NoEnts]
Unused == [ref |-> 0, valid |-> FALSE, type |-> "free", nlink |-> 0,
           lock |-> Nobody]
NoCall == [op |-> "none", path |-> <<>>, new |-> <<>>, cur |-> None, ip |-> None,
           dp |-> None, puts |-> <<>>, after |-> "idle"]

TypeOK ==
    /\ dinode \in [Inums -> [type : Types, nlink : Nat,
                             ents : [AllNames -> Inums \cup {None}]]]
    /\ icache \in [Inums -> [ref : Nat, valid : BOOLEAN, type : Types, nlink : Nat,
                             lock : Procs \cup {Nobody}]]
    /\ Cardinality({i \in Inums : icache[i].ref > 0}) <= NINODE
    /\ \A p \in Procs :
          /\ call[p].op \in OpsOf[p] \cup {"none"}
          /\ {call[p].cur, call[p].ip, call[p].dp} \subseteq Inums \cup {None}
          /\ Range(call[p].puts) \subseteq Inums
          /\ pc[p] \in {"put", "free", "deref"} <=> call[p].puts # <<>>
    /\ cwd \in [Procs -> Inums]
    /\ open \in [Procs -> Inums \cup {None}]
    /\ stray \subseteq Inums

(* mkfs's root directory is everybody's current directory. *)
Init ==
    /\ dinode = [i \in Inums |-> IF i = ROOTINO
                   THEN [type |-> "dir", nlink |-> 1,
                         ents |-> [n \in AllNames |-> IF n \in Names THEN None ELSE i]]
                   ELSE Free]
    /\ icache = [i \in Inums |-> IF i = ROOTINO
                   THEN [Unused EXCEPT !.ref = Cardinality(Procs)]
                   ELSE Unused]
    /\ pc = [p \in Procs |-> "idle"] /\ call = [p \in Procs |-> NoCall]
    /\ cwd = [p \in Procs |-> ROOTINO] /\ open = [p \in Procs |-> None]
    /\ stray = {}

-----------------------------------------------------------------------------
(* iget() shares the entry that caches inode i, or takes a free one, which *)
(* is not valid; it panics when there is none.                             *)
CanGet(ic, i) ==
    ic[i].ref > 0 \/ Cardinality({j \in Inums : ic[j].ref > 0}) < NINODE
Got(ic, i) == [ic EXCEPT ![i].ref = @ + 1]

(* ilock() reads the inode from disk unless the entry is valid, and panics *)
(* if it is free there.                                                    *)
CanLock(i) == icache[i].lock = Nobody /\ (icache[i].valid \/ dinode[i].type # "free")
Loaded(ic, i) ==
    IF ic[i].valid THEN ic
    ELSE [ic EXCEPT ![i] = [@ EXCEPT !.valid = TRUE, !.type = dinode[i].type,
                                     !.nlink = dinode[i].nlink]]
Locked(ic, i, p) == [ic EXCEPT ![i].lock = p]
Unlocked(ic, i) == [ic EXCEPT ![i].lock = Nobody]

(* ip->nlink += n; iupdate(ip), in the cache and on disk. *)
Linked(ic, i, n) == [ic EXCEPT ![i].nlink = @ + n]
DiskLinked(di, ic, i, n) == [di EXCEPT ![i].nlink = ic[i].nlink + n]

(* Directory i's entry for name n, and the directory with it set. *)
dirlookup(i, n) == dinode[i].ents[n]
DirSet(di, i, n, j) == [di EXCEPT ![i].ents[n] = j]

(* What the names reachable from the root name. *)
Children(D) == {dinode[d].ents[n] : d \in D, n \in Names} \ {None}
RECURSIVE Below(_)
Below(D) == IF Children(D) \subseteq D THEN D ELSE Below(D \cup Children(D))
Tree == Below({ROOTINO})

(* Directory d gets a name for inode i. *)
Named(d, i) == stray' = IF d \in Tree THEN stray ELSE stray \cup {i}

Goto(p, place, c) == pc' = [pc EXCEPT ![p] = place] /\ call' = [call EXCEPT ![p] = c]
Return(p) == Goto(p, "idle", NoCall)

(* Process p goes on to iput() the entries ss, then to `next'. *)
Put(p, ss, next, c) == Goto(p, "put", [c EXCEPT !.puts = ss, !.after = next])

(* The last iput() of a call: the references left are those in ss. *)
PutReturn(p, ss) == Put(p, ss, "idle", NoCall)

-----------------------------------------------------------------------------
(* iput(), first half: under the lock, is this the last reference to an    *)
(* inode without links?                                                    *)
PutLock(p) ==
    LET s == Head(call[p].puts)
        last == icache[s].valid /\ icache[s].nlink = 0 /\ icache[s].ref = 1
    IN  /\ pc[p] = "put"
        /\ icache[s].lock = Nobody
        /\ icache' = IF last THEN Locked(icache, s, p) ELSE icache
        /\ Goto(p, IF last THEN "free" ELSE "deref", call[p])
        /\ UNCHANGED <<dinode, cwd, open, stray>>

MutPutFree(p) ==
    LET s == Head(call[p].puts)
    IN  /\ pc[p] = "free"
        /\ dinode' = [dinode EXCEPT ![s] = Free]
        /\ icache' = Unlocked(icache, s)
        /\ Goto(p, "deref", call[p])
        /\ stray' = stray \ {s}
        /\ UNCHANGED <<cwd, open>>

(* itrunc(), type = 0, iupdate(), valid = 0, releasesleep(). *)
PutFree(p) ==
    LET s == Head(call[p].puts)
    IN  /\ pc[p] = "free"
        /\ dinode' = [dinode EXCEPT ![s] = Free]
        /\ icache' = Unlocked([icache EXCEPT ![s].type = "free", ![s].valid = FALSE], s)
        /\ Goto(p, "deref", call[p])
        /\ stray' = stray \ {s}
        /\ UNCHANGED <<cwd, open>>

(* iput(), second half: the reference is given up.  An entry without       *)
(* references is free, whatever it holds.                                  *)
PutDeref(p) ==
    LET rest == Tail(call[p].puts)
    IN  /\ pc[p] = "deref"
        /\ icache' = [icache EXCEPT ![Head(call[p].puts)] =
                        IF @.ref = 1 THEN Unused ELSE [@ EXCEPT !.ref = @ - 1]]
        /\ Goto(p, IF rest = <<>> THEN call[p].after ELSE "put",
                [call[p] EXCEPT !.puts = rest, !.after = IF rest = <<>> THEN "idle" ELSE @])
        /\ UNCHANGED <<dinode, cwd, open, stray>>

-----------------------------------------------------------------------------
(* namex() starts at the root or at the current directory. *)
StartAt(p, path) == IF Head(path) = "/" THEN ROOTINO ELSE cwd[p]
Started(ic, p, path) ==
    IF Head(path) = "/" THEN Got(ic, ROOTINO) ELSE [ic EXCEPT ![cwd[p]].ref = @ + 1]
Elements(path) == IF Head(path) = "/" THEN Tail(path) ELSE path

Begin(p) ==
    /\ pc[p] = "idle"
    /\ \E o \in OpsOf[p], path \in Paths, new \in Paths :
          /\ o # "link" => new = path
          /\ Head(path) = "/" => CanGet(icache, ROOTINO)
          /\ icache' = Started(icache, p, path)
          /\ Goto(p, "walk", [NoCall EXCEPT !.op = o, !.path = Elements(path),
                                !.new = IF o = "link" THEN new ELSE <<>>,
                                !.cur = StartAt(p, path)])
    /\ UNCHANGED <<dinode, cwd, open, stray>>

(* link() looks up its old name first, and then the parent of the new one. *)
WantsParent(c) == c.op \in {"create", "mkdir", "unlink"} \/ (c.op = "link" /\ c.ip # None)

(* A failed walk ends the call, by way of `bad' in link(). *)
Fails(p, c) ==
    IF c.op = "link" /\ c.ip # None
    THEN Put(p, <<c.cur>>, "bad", [c EXCEPT !.cur = None])
    ELSE PutReturn(p, <<c.cur>>)

(* One round of namex()'s loop. *)
Walk(p) ==
    LET c == call[p]
        ic == Loaded(icache, c.cur)
        j == dirlookup(c.cur, Head(c.path))
    IN  /\ pc[p] = "walk"
        /\ c.path # <<>>
        /\ CanLock(c.cur)
        /\ IF ic[c.cur].type # "dir"
           THEN icache' = ic /\ Fails(p, c)
           ELSE IF WantsParent(c) /\ Len(c.path) = 1
           THEN icache' = ic /\ Goto(p, "body", [c EXCEPT !.dp = c.cur, !.cur = None])
           ELSE IF j = None
           THEN icache' = ic /\ Fails(p, c)
           ELSE /\ CanGet(ic, j)
                /\ icache' = Got(ic, j)
                /\ Put(p, <<c.cur>>, "walk",
                       [c EXCEPT !.cur = j, !.path = Tail(@)])
        /\ UNCHANGED <<dinode, cwd, open, stray>>

(* The end of the path: nameiparent() fails there, namei() returns it. *)
WalkEnd(p) ==
    LET c == call[p]
    IN  /\ pc[p] = "walk"
        /\ c.path = <<>>
        /\ IF WantsParent(c) THEN Fails(p, c)
           ELSE Goto(p, "body", [c EXCEPT !.ip = c.cur, !.cur = None])
        /\ UNCHANGED <<dinode, icache, cwd, open, stray>>

-----------------------------------------------------------------------------
(* The tail of sys_open(), ip locked: a descriptor for ip, or iunlockput() *)
(* when there is none.                                                     *)
OpenIt(p, s) ==
    \/ /\ open[p] = None
       /\ open' = [open EXCEPT ![p] = s]
       /\ Return(p)
    \/ /\ PutReturn(p, <<s>>)
       /\ UNCHANGED open

(* open() of an existing name; a directory only for reading. *)
Open(p) ==
    LET s == call[p].ip
    IN  /\ pc[p] = "body" /\ call[p].op = "open"
        /\ CanLock(s)
        /\ icache' = Loaded(icache, s)
        /\ OpenIt(p, s)
        /\ UNCHANGED <<dinode, cwd, stray>>

(* fileclose() of the last reference to the file. *)
Close(p) ==
    /\ pc[p] = "idle"
    /\ open[p] # None
    /\ open' = [open EXCEPT ![p] = None]
    /\ PutReturn(p, <<open[p]>>)
    /\ UNCHANGED <<dinode, icache, cwd, stray>>

(* chdir(): iput() the old directory and keep the new one. *)
Chdir(p) ==
    LET s == call[p].ip
    IN  /\ pc[p] = "body" /\ call[p].op = "chdir"
        /\ CanLock(s)
        /\ icache' = Loaded(icache, s)
        /\ IF icache'[s].type # "dir"
           THEN PutReturn(p, <<s>>) /\ UNCHANGED cwd
           ELSE PutReturn(p, <<cwd[p]>>) /\ cwd' = [cwd EXCEPT ![p] = s]
        /\ UNCHANGED <<dinode, open, stray>>

-----------------------------------------------------------------------------
(* create(), the parent locked: the name is taken, or a new inode is       *)
(* allocated and its entry got, with the parent still locked.              *)
FreeInums == {i \in Inums : dinode[i].type = "free"}

CreateLock(p) ==
    LET c == call[p]
        ic == Loaded(icache, c.dp)
        j == dirlookup(c.dp, c.path[1])
        i == Min(FreeInums)
    IN  /\ pc[p] = "body" /\ c.op \in {"create", "mkdir"}
        /\ CanLock(c.dp)
        /\ IF j # None
           THEN /\ CanGet(ic, j)
                /\ icache' = Got(ic, j)
                /\ Put(p, <<c.dp>>, "exists", [c EXCEPT !.ip = j, !.dp = None])
                /\ UNCHANGED dinode
           ELSE /\ FreeInums # {}
                /\ CanGet(ic, i)
                /\ dinode' = [dinode EXCEPT ![i].type = IF c.op = "mkdir" THEN "dir" ELSE "file"]
                /\ icache' = Got(Locked(ic, c.dp, p), i)
                /\ Goto(p, "create", [c EXCEPT !.ip = i])
        /\ UNCHANGED <<cwd, open, stray>>

(* The name was taken: fine for a file that open() may create. *)
CreateExists(p) ==
    LET c == call[p]
    IN  /\ pc[p] = "exists"
        /\ CanLock(c.ip)
        /\ icache' = Loaded(icache, c.ip)
        /\ IF c.op = "create" /\ icache'[c.ip].type = "file"
           THEN OpenIt(p, c.ip)
           ELSE PutReturn(p, <<c.ip>>) /\ UNCHANGED open
        /\ UNCHANGED <<dinode, cwd, stray>>

(* With the new inode locked too: its link count, a directory's dots, the  *)
(* name in the parent.  The parent is unlocked and put, ip stays locked.   *)
CreateLink(p) ==
    LET c == call[p]
        ic == Loaded(icache, c.ip)
        i == c.ip
        d == c.dp
        up == IF c.op = "mkdir" THEN 1 ELSE 0
        di == [dinode EXCEPT ![i].nlink = 1, ![d].nlink = ic[c.dp].nlink + up,
                             ![d].ents[c.path[1]] = i]
    IN  /\ pc[p] = "create"
        /\ CanLock(c.ip)
        /\ icache' = Unlocked(Linked(Locked([ic EXCEPT ![c.ip].nlink = 1], c.ip, p),
                                     c.dp, up), c.dp)
        /\ dinode' = IF c.op = "mkdir"
                     THEN DirSet(DirSet(di, i, ".", i), i, "..", d)
                     ELSE di
        /\ Put(p, <<c.dp>>, "created", [c EXCEPT !.dp = None])
        /\ Named(c.dp, c.ip)
        /\ UNCHANGED <<cwd, open>>

(* What open() and mkdir() do with the inode create() returns locked. *)
Created(p) ==
    LET c == call[p]
    IN  /\ pc[p] = "created"
        /\ icache' = Unlocked(icache, c.ip)
        /\ IF c.op = "create"
           THEN OpenIt(p, c.ip)
           ELSE PutReturn(p, <<c.ip>>) /\ UNCHANGED open
        /\ UNCHANGED <<dinode, cwd, stray>>

-----------------------------------------------------------------------------
(* link(): count the new link first, then walk to its parent. *)
LinkCount(p) ==
    LET c == call[p]
        ic == Loaded(icache, c.ip)
    IN  /\ pc[p] = "body" /\ c.op = "link" /\ c.dp = None
        /\ CanLock(c.ip)
        /\ IF ic[c.ip].type = "dir"
           THEN icache' = ic /\ PutReturn(p, <<c.ip>>) /\ UNCHANGED dinode
           ELSE /\ ic[c.ip].nlink < MaxLink
                /\ Head(c.new) = "/" => CanGet(icache, ROOTINO)
                /\ icache' = Started(Linked(ic, c.ip, 1), p, c.new)
                /\ dinode' = DiskLinked(dinode, ic, c.ip, 1)
                /\ Goto(p, "walk", [c EXCEPT !.path = Elements(c.new),
                                             !.cur = StartAt(p, c.new)])
        /\ UNCHANGED <<cwd, open, stray>>

(* dirlink(): the entry is written, or the name is there already and its   *)
(* inode is put while the directory is locked.                             *)
LinkName(p) ==
    LET c == call[p]
        ic == Loaded(icache, c.dp)
        j == dirlookup(c.dp, c.path[1])
    IN  /\ pc[p] = "body" /\ c.op = "link" /\ c.dp # None
        /\ CanLock(c.dp)
        /\ IF j = None
           THEN /\ icache' = ic
                /\ dinode' = DirSet(dinode, c.dp, c.path[1], c.ip)
                /\ Named(c.dp, c.ip)
                /\ PutReturn(p, <<c.dp, c.ip>>)
           ELSE /\ CanGet(ic, j)
                /\ icache' = Got(Locked(ic, c.dp, p), j)
                /\ Put(p, <<j>>, "linkdup", c)
                /\ UNCHANGED <<dinode, stray>>
        /\ UNCHANGED <<cwd, open>>

LinkDup(p) ==
    LET c == call[p]
    IN  /\ pc[p] = "linkdup"
        /\ icache' = Unlocked(icache, c.dp)
        /\ Put(p, <<c.dp>>, "bad", [c EXCEPT !.dp = None])
        /\ UNCHANGED <<dinode, cwd, open, stray>>

MutLinkBad(p) ==
    LET s == call[p].ip
    IN  /\ pc[p] = "bad"
        /\ CanLock(s)
        /\ icache' = Loaded(icache, s)
        /\ PutReturn(p, <<s>>)
        /\ UNCHANGED <<dinode, cwd, open, stray>>

(* bad: the link is not made after all. *)
LinkBad(p) ==
    LET s == call[p].ip
    IN  /\ pc[p] = "bad"
        /\ CanLock(s)
        /\ icache' = Linked(icache, s, -1)
        /\ dinode' = DiskLinked(dinode, icache, s, -1)
        /\ PutReturn(p, <<s>>)
        /\ UNCHANGED <<cwd, open, stray>>

-----------------------------------------------------------------------------
(* unlink(): lock the parent and find the name. *)
UnlinkLock(p) ==
    LET c == call[p]
        ic == Loaded(icache, c.dp)
        j == dirlookup(c.dp, c.path[1])
    IN  /\ pc[p] = "body" /\ c.op = "unlink"
        /\ CanLock(c.dp)
        /\ IF c.path[1] \in {".", ".."} \/ j = None
           THEN icache' = ic /\ PutReturn(p, <<c.dp>>)
           ELSE /\ CanGet(ic, j)
                /\ icache' = Got(Locked(ic, c.dp, p), j)
                /\ Goto(p, "unlink", [c EXCEPT !.ip = j])
        /\ UNCHANGED <<dinode, cwd, open, stray>>

isdirempty(i) == \A n \in Names : dinode[i].ents[n] = None

(* With both locked: clear the entry, unlock and put the parent, and keep  *)
(* ip locked; or give up on a directory that is not empty.                 *)
UnlinkName(p) ==
    LET c == call[p]
        ic == Loaded(icache, c.ip)
        down == IF ic[c.ip].type = "dir" THEN -1 ELSE 0
        d == c.dp
    IN  /\ pc[p] = "unlink"
        /\ CanLock(c.ip)
        /\ ic[c.ip].nlink >= 1
        /\ IF ic[c.ip].type = "dir" /\ ~isdirempty(c.ip)
           THEN /\ icache' = ic
                /\ Put(p, <<c.ip>>, "unlinkbad", [c EXCEPT !.ip = None])
                /\ UNCHANGED dinode
           ELSE /\ dinode' = DirSet(DiskLinked(dinode, ic, c.dp, down), d, c.path[1], None)
                /\ icache' = Unlocked(Linked(Locked(ic, c.ip, p), c.dp, down), c.dp)
                /\ Put(p, <<c.dp>>, "unlinked", [c EXCEPT !.dp = None])
        /\ UNCHANGED <<cwd, open, stray>>

UnlinkBad(p) ==
    /\ pc[p] = "unlinkbad"
    /\ icache' = Unlocked(icache, call[p].dp)
    /\ PutReturn(p, <<call[p].dp>>)
    /\ UNCHANGED <<dinode, cwd, open, stray>>

(* The name is gone: count it out and put the inode. *)
Unlinked(p) ==
    LET s == call[p].ip
    IN  /\ pc[p] = "unlinked"
        /\ icache' = Unlocked(Linked(icache, s, -1), s)
        /\ dinode' = DiskLinked(dinode, icache, s, -1)
        /\ PutReturn(p, <<s>>)
        /\ UNCHANGED <<cwd, open, stray>>

Next == \E p \in Procs :
    \/ Begin(p) \/ Walk(p) \/ WalkEnd(p) \/ Open(p) \/ Close(p) \/ Chdir(p)
    \/ CreateLock(p) \/ CreateExists(p) \/ CreateLink(p) \/ Created(p)
    \/ LinkCount(p) \/ LinkName(p) \/ LinkDup(p) \/ LinkBad(p)
    \/ UnlinkLock(p) \/ UnlinkName(p) \/ UnlinkBad(p) \/ Unlinked(p)
    \/ PutLock(p) \/ PutFree(p) \/ PutDeref(p)

Spec == Init /\ [][Next]_vars

-----------------------------------------------------------------------------
(* References to inode i's entry that process p holds. *)
RefsOf(p, i) ==
    Cardinality({f \in {"cur", "ip", "dp"} : call[p][f] = i})
    + (IF cwd[p] = i THEN 1 ELSE 0) + (IF open[p] = i THEN 1 ELSE 0)
    + Cardinality({k \in DOMAIN call[p].puts : call[p].puts[k] = i})

(* ip->ref counts exactly the pointers processes hold to the entry, on     *)
(* every path through the calls, the failing ones included: iput() frees   *)
(* no inode that somebody still uses.  (The variables' types with it.)     *)
RefsExact ==
    /\ TypeOK
    /\ \A i \in Inums : icache[i].ref = MapThenSumSet(LAMBDA p : RefsOf(p, i), Procs)

(* A valid entry agrees with the disk: no call decides on a stale type or  *)
(* link count, not even when ialloc() reuses an inode that an iput() is    *)
(* just letting go of.                                                     *)
CacheCoherent ==
    \A i \in Inums : icache[i].ref > 0 /\ icache[i].valid =>
        icache[i].type = dinode[i].type /\ icache[i].nlink = dinode[i].nlink

(* The inode cache can be trusted: its counts are those of the pointers    *)
(* held, and its valid entries are what is on disk.                        *)
InodesHonest == RefsExact /\ CacheCoherent

Uncounted(p) ==
    \/ "unlinked" \in {pc[p], call[p].after}
    \/ call[p].op = "link" /\ ~(pc[p] = "body" /\ call[p].dp = None)

(* Links to inode i: its names in the tree, the ".." of its subdirectories *)
(* there (the root's names itself), and the links that a link() has        *)
(* counted but not yet written, or will count back, or an unlink() has     *)
(* cleared but not yet counted out.                                        *)
LinksTo(i) ==
    Cardinality({dn \in Tree \X Names : dinode[dn[1]].ents[dn[2]] = i})
    + Cardinality({d \in Tree : dinode[d].ents[".."] = i})
    + Cardinality({p \in Procs : call[p].ip = i /\ Uncounted(p)})

(* The directories below the root are a tree of allocated inodes: every    *)
(* one is named by one entry, its ".." is where that entry is, and every   *)
(* inode has as many links as names: no name is left to a freed inode, and *)
(* no call that fails leaves a link behind.  (Names in a removed directory *)
(* are not counted out when it is freed, so that only a lower bound holds  *)
(* for an inode that ever had one.)                                        *)
TreeSound ==
    \A i \in Tree :
        /\ dinode[i].type # "free"
        /\ dinode[i].nlink >= LinksTo(i)
        /\ i \notin stray => dinode[i].nlink = LinksTo(i)
        /\ dinode[i].type = "dir" /\ i # ROOTINO =>
              {d \in Tree : \E n \in Names : dinode[d].ents[n] = i} = {dinode[i].ents[".."]}

-----------------------------------------------------------------------------
(* The inode whose lock process p takes in its next step, if any. *)
Wanted(p) ==
    LET c == call[p]
    IN  CASE pc[p] = "put" -> Head(c.puts)
          [] pc[p] = "walk" /\ c.path # <<>> -> c.cur
          [] pc[p] = "body" -> IF c.dp # None THEN c.dp ELSE c.ip
          [] pc[p] \in {"exists", "create", "unlink", "bad"} -> c.ip
          [] OTHER -> None

WaitsFor(p, q) == Wanted(p) # None /\ icache[Wanted(p)].lock = q

(* No processes wait for each other's inode locks in a circle, as the      *)
(* order parent before child is to ensure.                                 *)
NoCircularWait ==
    \A Q \in SUBSET Procs \ {{}} : \E p \in Q : \A q \in Q : ~WaitsFor(p, q)
=============================================================================
