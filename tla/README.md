# A TLA+ verification of the kernel

The repository is an xv6 kernel for x86 that boots from UEFI, with additions: an
MLFQ scheduler (`scheduler()` in `proc.c`, `setSchedPolicy`, `yield`, `getpinfo`),
a graphical console, an E1000 network card and a small ARP/IPv4/ICMP/TCP/HTTP
stack, and a user-level thread library. This directory holds TLA+ modules
translated from that code, TLC configurations that check them on small instances,
and TLAPS proofs of the central properties for every value of the constants.

`PROJECT.json` lists the components, the runs, the source lines behind every
definition, the hazards that guided the choice of properties, the mutants that
show each property can fail, and the theorems.

## The system and its modules

User programs (the shell, `cat`, `grep`, `malloc()`) enter the kernel through
`syscall.c`. System calls work on processes (`proc.c`), memory (`vm.c`,
`kalloc.c`, `exec.c`) and files. A file is a pipe, the console or an inode; inodes
are changed inside transactions of the log, the log sits on the buffer cache, and
the cache on the disk driver. Interrupts (timer, keyboard, disk) run between the
steps of all of this. Processes wait for each other with `sleep()` and `wakeup()`;
critical sections are made by spin locks.

| Module | Source | State and steps |
| --- | --- | --- |
| `Mlfq` | `proc.c`, `trap.c`, `sysproc.c` | `ptable` with levels, tick and wait counters, a policy for each CPU. `Dispatch` is one round of `scheduler()` up to `swtch()`; `TimerTick` charges the tick and `TimerYield` gives up the CPU; one action per call. |
| `Proc` | `proc.c`, `trap.c` | states, parents, `killed`, kernel stacks, the CPUs and `ptable.lock`, which `swtch()` hands from one kernel thread to the next. `fork`, `exit`, `wait` and `kill` are cut where the lock is not held. |
| `SpinLock` | `spinlock.c` | `acquire`, `release`, `pushcli`, `popcli` instruction by instruction, with interrupts in between. |
| `Pipe`, `Fifo` | `pipe.c`, `file.c` | the ring with unsigned counters, the ends, `p->lock` which `sleep()` gives up. `Fifo` is what a pipe promises. |
| `Log`, `AtomicDisk` | `log.c` | header and log blocks in memory and on disk, the cache, one step per block write, `Crash` at any of them. `AtomicDisk`: whole calls become durable in groups. |
| `BufCache`, `BlockStore` | `bio.c`, `sleeplock.c`, `ide.c`, `memide.c` | buffers, LRU list, sleep locks, the disk queue, the blocks in the log's header. A process has two hands: `bmap()`, `itrunc()`, `write_log()` and `install_trans()` ask for a second buffer with one in hand. `IdeintrError` is a request that the drive fails on. `BlockStore`: one cell per block, held by one user at a time, which may go bad only by a failed request. |
| `FileSys` | `fs.c`, `sysfile.c` | inode cache and inodes on disk, locks, directories; `open`, `create`, `mkdir`, `link`, `unlink`, `chdir`, `close`, cut at every inode lock. |
| `FileData`, `FileStore` | `fs.c`, `file.c` | block map, bitmap, offsets; `fileread`, `filewrite`, `itrunc` block by block. `FileStore`: files are sequences of bytes. |
| `FileTable` | `file.c`, `pipe.c`, `sysfile.c` | `filealloc`, `filedup`, `fileclose`, `fdalloc`, `pipealloc` and `sys_pipe` with their ways back from a failure, as operators on the tables; used by `Shell`. |
| `Memory` | `kalloc.c`, `vm.c`, `exec.c`, `proc.c` | pages of each process and free pages; `fork`, `sbrk`, `exec`, `exit`, each failing at any allocation. |
| `Interrupts`, `LineQueue` | `console.c`, `trap.c`, `sysproc.c` | the console's input ring, `consoleread`, the tick and `sys_sleep`. `LineQueue`: readers get the edited characters in order, each once, when their line is complete; a reader takes any part of a line, and never goes on to the next. |
| `Nic` | `i8254.c`, `arp.c` | the transmit ring. |
| `Net` | `eth.c`, `arp.c`, `ipv4.c`, `icmp.c`, `tcp.c`, `http.c` | ARP table, duplicate test and answers; one peer, whose datagrams the network loses or repeats one after the other. |
| `ShellParser`, `Shell` | `sh.c`, `init.c`, `cat.c`, `echo.c` | the recursive-descent parser from tokens on, as recursive operators; the processes a line starts, their descriptors and pipes. |
| `Heap` | `umalloc.c` | the circular free list. |
| `Filters` | `grep.c`, `wc.c` | a read of any length at a time. |
| `SysArgs` | `syscall.c`, `sysfile.c` | argument fetching in words that overflow, `sys_exec()`. |
| `Mkfs` | `mkfs.c` | the layout, `ialloc`, `iappend`, `balloc` of the image. |
| `Strings` | `string.c`, `console.c`, `ulib.c` | `memmove`, `strncpy`, `strncmp`, `safestrcpy`, `printint`, `atoi`. |
| `Screen` | `graphic.c` | `graphic_putc()` and scrolling, in character cells. |

`MC*` modules give instances for TLC. The modules rely on each other where the
code does. `SpinLock` shows that a critical section excludes others and
interrupts, and the other modules take one as a step; where a section spans
`swtch()` or `sleep()` the lock is a variable again (`Proc`, `Pipe`). `BufCache`
shows that a block behaves as one cell, and `Log` uses blocks as cells. `Log`
shows that a call is atomic under crashes if it fits the reservation, and
`FileData` shows that `filewrite()` and `itrunc()` do. `FileTable` is part of
`Shell`. `MCMemory` and `MCInterrupts` put components that share no state
into one run: variable `part` selects which of them moves.

Data are abstracted to what the properties distinguish: a block's content is one
of a few values, a path is a tuple of names, a page is counted rather than filled.
Integer widths stay where the code depends on them: the pipe's and the console's
counters, `ticks`, addresses of arguments and `printint()` compute modulo a
small power of two.

## Runs

Every run finishes in less than three minutes on two cores. Bounds are constants
of the configuration files.

| Run | Instance | Shows |
| --- | --- | --- |
| `mlfq` | 2 processes, 1 CPU, slices 2/1/1, limits 2/1/1 | `Quota`: nobody gets more ticks in a level than its slice; `WaitBound`: a wait that reaches its limit is answered by a boost in that round; `ClimbsToTop`: a ready process below Q3 runs or is boosted, against one that yields before every tick. |
| `mlfq_starves` | 3 processes | violation, see Findings. |
| `proc_safety` | 4 slots, 2 CPUs, 5 pids | `StackSafe`: no stack is run on by two CPUs, freed while in use, or left with `ptable.lock` in the wrong hands; `HasParent`: every process has a living parent to wait for it; `NoBlindSleep`: nobody sleeps in `wait()` over a zombie child or after `kill()`. |
| `log_crash` | 2 processes, 3 blocks, a log of 4, crashes anywhere | `HomeHonest`: `bread()` never returns stale data and nothing is left in memory only once the log is idle; `NoPanic`; `Atomic`: refines `AtomicDisk`; `SleepersWake`: who waits in `begin_op()` is woken. |
| `pipe_safety` | 2 readers, 2 writers, 2 bytes, counters modulo 4 | `NoMissedWakeup`, `EndsHonoured` (no false end of file, no use after free), `IsFifo`: refines `Fifo`. |
| `buf_cache` | 2 processes with two hands, 2 buffers, 3 blocks, 1 in the log, 1 on which the drive may fail | `RefsExact`; `NoPanic`: there is a buffer to recycle unless the buffers in hands and the blocks in the log make up all of them; `NoMissedWakeup`; `OneCopy`: refines `BlockStore`. |
| `file_sys` | 2 processes, 3 inodes, 2 names | `InodesHonest`: reference counts equal the users and cached inodes equal the disk's; `TreeSound`: the directories form a tree, no entry names a free inode, and link counts equal the entries, after every failed call too (for an inode that was ever named in a removed directory they are at least that). |
| `file_deadlock` | as above, create against unlink | violation, see Findings. |
| `file_data` | 2 processes, 3 open files, 2 inodes, 4 blocks | `BlocksExact`: every block is in one place or free; `OpFits`: transactions stay below `MAXOPBLOCKS`; `IsFileStore`: refines `FileStore`. |
| `memory` | 3 processes, 15 pages; small heap, streams, image, words | `ImagesWhole`: pages add up and each image is mapped as `sz` says; `HeapTiled`: the heap is tiled by blocks that are in use or on the free list once, in order, joined; `FiltersRight`, `ImageSound`, `ArgsInside`, `StringsRight`, `ShowsOutput`: results equal a definition of what each should compute. |
| `interrupts` | 2 processes, a ring of 2 with indices modulo 4; 2 CPUs and 2 locks; 6 descriptors; 3 hosts; 4 datagrams with identifications modulo 3 | `NoMissedWakeup`, `IsLineQueue`, `SleepsEnough` (no `sleep(n)` returns early, over the overflow of `ticks`), `LocksExclude`, `FramesInOrder`, `ArpTableRight`, `AnsweredOnce`. |
| `shell` | every line of up to 3 tokens (restrictions in `MCShell`) and 9 longer ones, tables that run out | `ParsesByGrammar`, `RefsExact`, `RunsToMeaning` (what a line prints and writes equals its meaning; the sides of its pipelines use no file that the other writes), `PromptReturns`. |

The bounds are chosen so that the critical cases happen: counters and rings
wrap several times; more processes want log space, buffers, slots or pages than
there are; files reach indirect blocks, blocks end within pages, lines are
longer than the filters' buffer. `buf_cache` has as many buffers as one process has
hands, so that recycling fails, and blocks are taken in the order log, indirect,
others, as the code takes them. In `interrupts` two datagrams are on their way at most, and ARP answers and datagrams, which touch different state, are not
mixed in one behaviour. Two processes suffice for the races of the file
system and the cache because each of their steps involves one lock or one pair of
locks; the process table has four slots so that a grandchild is orphaned while
init and its parent both move.

Deadlock is checked except in `Mlfq` (all processes may sleep), `Pipe` (everyone
may have exited), `FileSys` (the deadlock is a finding), `FileData` (`balloc()`
panics on a full disk) and `Memory` (the sequential parts end).

### Fairness

Liveness is checked under weak fairness of steps that the code takes by itself:

* `Mlfq`: the scheduler's loop never stops, the local APIC timer is periodic, and
  a trap that was charged goes on to `yield()`. Nothing is assumed of the
  processes.
* `Log`: a call that began ends, a commit or recovery goes on. Calls need not
  begin, and admission is not fair: `SleepersWake` says that a sleeper is woken,
  not that it gets in (see Observations).
* `Shell`: every process that can go on does, which the initial round-robin
  policy gives. Nobody has to type.

## Proofs

TLAPS checks the following for every value of the constants that satisfies the
modules' named assumptions. Each proof has the same shape: an inductive
invariant, one step per action with one per conjunct it can disturb, and a final
step that combines them with `PTL`.

* **`ProcProofs`** (`StacksSafe`, `ParentsRemain`, `SleepersSee`): any number of
  slots and CPUs. What makes the properties inductive is ownership: a CPU on a
  stack owns the slot while it is RUNNING and through `ptable.lock` while it
  leaves, and a `fork()` in progress owns its EMBRYO. The module also holds the
  spin locks (`SpinLocksExclude`): any CPUs, any finite set of locks, any nesting
  order. `SpinInv` counts: `ncli` is the number of locks the code on a CPU holds
  plus the one it is acquiring or has just freed; while it is positive interrupts
  are off and `intena` remembers what to restore.
* **`MlfqProofs`** (`NoSharedProcess`, `BoostInTime`, `QuotaKept`): any slots, CPUs,
  slices and limits. The invariant says that counters are below their limits
  outside a round and that RUNNING slots are exactly the current ones; the work is
  in lemmas about `Demote`, `Count` and the boost as functions on the table.
* **`LogProofs`** (`HomeNeverBehind`, `CrashAtomic`, `NeverPanics`, `NoLostWakeup`): any
  processes, blocks, contents and log size. `IInv` describes what is where between
  any two block writes of a commit or a recovery (`Control`, `Headers`, `Content`);
  a crash keeps it because it only speaks of the disk once memory is gone.
  `CrashAtomic` maps the block the disk would have after recovery (`Durable`) and
  the latest one (`Current`) to `AtomicDisk`. `NeverPanics` needs more: that the
  blocks the active calls have yet to write (`Unspent`) fit the log with two
  entries to spare. It assumes that calls write fewer than `MAXOPBLOCKS` blocks,
  which `OpFits` checks for `filewrite()` and `itrunc()`.
* **`RingLemmas`**: the remainder, the places x % N of a ring, and the sequence that
  lies between two indices of one (`RingSeq`): what a write behind its end, a read
  from its front and a cut do to it. The next two build on them.
* **`PipeNetProofs`**: the pipe and the network stack. The pipe (`NoLostWakeup`,
  `EndsAreHonoured`, `PipeIsFifo`): any readers and writers, any `PIPESIZE`, any
  counter width that it divides. The bytes in the pipe are the ring between `nread`
  and `nwrite`; the invariant then says why each sleeper sleeps, or who in the pipe
  is about to wake it. The network stack (`RepliesMatch`, `ArpTableKept`): any
  hosts, any table size, any number of datagrams. These come from one peer, which
  numbers them modulo `IdSpace` (2^16), arrive in order with their copies next to
  them, and fewer than `IdSpace - 1` in a row are lost (`DatagramsAssumption`). The
  invariant says that those on their way are the last ones sent, and that `ip_id`
  belongs to the last one delivered, `lost + 1` before them (`CopyInv`), so that it
  equals the next identification only for a copy; and that an entry of the ARP
  table has a host's address exactly if it is in use.
* **`InterruptsProofs`** (`InterruptsWake`, `SleepIsLongEnough`, `ConsoleIsLineQueue`,
  `CardKeepsOrder`): any processes, any `INPUT_BUF` and any counter width that it
  divides. `IntInv` says that the indices of the console's ring are in turn (`w - r`
  is at most `e - r`, at most `INPUT_BUF`, modulo the width), that no line ends
  among the characters still edited, that a reader about to sleep holds
  `cons.lock` and found no line, and that `ticks - ticks0` counts the ticks since
  the call. For the card (any even number of descriptors, any buffers) `NicInv` says
  that the k-th call not yet served has its frame in the buffer of the k-th
  waiting descriptor.
* **`BufCacheProofs`** (`CountsAreExact`, `SleepersServed`, `RecyclesAlways`,
  `CacheIsTransparent`): any finite set of processes with two hands each, any
  blocks, contents, number of buffers and room in the log, and a drive that may fail
  on any of the blocks. The invariant says who may do what to a buffer: its lock
  belongs to the one hand between `acquiresleep()` and `brelse()`, only that one
  has a request for it in the disk queue, a referenced buffer stays on its block,
  and a valid buffer that is not dirty equals the disk unless the last request for
  its block failed. It determines the refinement mapping (`MapFacts`): one valid
  copy and one holder per block at most. `RecyclesAlways` adds `PinInv`: a dirty
  buffer is being written or its block is in the log's header. So buffers are
  withheld from `bget()` by hands and by the log only, and one is left while these
  are fewer than `NBUF`; nothing is assumed of how many there are, and the code does
  not keep them below `NBUF` (see Observations).
* **`FileDataProofs`** (`BlocksNeverShared`): any processes, files, inodes, counts,
  numbers and sizes of blocks, direct and indirect entries (an indirect block has
  room for its entries, and a transaction for a block of data: `MAXOPBLOCKS` is at
  least 6). `BlocksExact` is not inductive, because it says nothing of a file while
  a process is at it. `IInv` sees the files as one table of places, in the order in
  which `itrunc()` frees them: the direct blocks, the entries of the indirect
  block, the indirect block. `Sound` says that the bitmap is exactly the blocks of
  the places no `itrunc()` has passed, each in one place, and that an inode has no
  address left where one has passed. From that follows that an indirect block is
  never a data block, so that writing data cannot change the table (`SameTable`),
  and that allocating adds one place and freeing removes one (`AllocSound`,
  `FreeSound`). The rest of `IInv` is about control: who is at a block of a file
  holds its lock, the blocks below the size exist, and below the place `writei()`
  has come to; the inode on disk is the one in memory unless the write in
  progress is to extend the file.

Each module of proofs begins with a `USE` of two proof methods. Zenon, which these
proofs mostly need, is tried first and the SMT solver second, with 30 seconds for a
leaf; in `RingLemmas`, which is arithmetic, it is the other way round.

What only TLC checks: liveness (`ClimbsToTop`, `SleepersWake`, `PromptReturns`),
which TLAPS does not prove under fairness; the modules built on recursive
definitions or on sums over their state (`Shell`, `Heap`, `FileSys`, `Memory`,
`Filters`, `Mkfs`, `SysArgs`, `Strings`, `Screen`), whose theorems would need
induction over data; and, of `FileData`, `OpFits`, which counts the blocks that one
transaction logs, and `IsFileStore`, which needs the bytes of every block and not
only where it belongs.

## Findings

* `mlfq_starves`: the comment at `proc.c:688` says `priority_boost()` prevents
  starvation. Boosting stops at Q3, and the search takes the lowest slot of the
  highest level, so low slots that return to Q3 in time starve a higher one.
* `file_deadlock`: `create()` puts the parent directory while it holds the child's
  lock (`sysfile.c:281`), and `iput()` locks the inode (`fs.c:335`); `unlink()` locks
  the parent, then the child. The two can wait for each other for ever, which
  `usertests.c:855` looks for.

## Observations

Behaviour met while modelling that the modules contain as it is, and that their
properties are worded around.

* Log: `log_write()` panics at `log.size - 1`, so calls that write all of
  `MAXOPBLOCKS` can meet it. `begin_op()` is not fair, and overlapping calls
  postpone the commit without bound (`log.c:154`).
* Buffer cache: a group commit pins up to 29 of the 30 buffers and 64 processes may
  hold two each, so `bget()` can panic under load (`bio.c:92`): `NoPanic` says when it
  does not. `ideintr()` passes over errors of the drive (`ide.c:120`): after a failed
  read the buffer is marked valid with the bytes it had before, against the meaning
  that `bio.c:17` gives to `B_VALID`, and a failed write is taken for done.
* `kill()` compares pids of free slots too and `allocproc()` never clears `killed`
  (`proc.c:557`): a new process may start killed.
* A `kill()` between the test of `killed` and the sleep in `piperead()`, `pipewrite()`
  and `consoleread()` is noticed at the next wakeup only; a writer killed at a full
  pipe returns without `wakeup()` (`pipe.c:86`).
* `iput()` gives up `icache.lock` between its test and its decrement (`fs.c:337`): two
  last puts of an unlinked inode may both leave it allocated. So does creating
  or linking in a directory that was removed. ".." of a removed working
  directory may name a freed inode (`fs.c:310` panics). `link(x, ".")` waits for
  itself.
* `copyuvm()` loses the page it could not map (`vm.c:343`). `growproc()` takes size 0
  for failure after the pages are gone (`proc.c:194`); shrinking below 0 wraps.
* MLFQ: CPUs with the round-robin policy never demote; the policy belongs to a CPU,
  not a process; policy 3 acts as round-robin.
* `init` exits, and the kernel panics, if the fork for a new shell fails. In `sh.c`
  `>>` overwrites from the start and `>` does not truncate.
* `grep` forgets a buffer without a newline (`grep.c:29`): a line that a pipe delivers
  in two pieces loses its start, and an unterminated last line is not printed.
* `mkfs` rounds the root directory's size up by a block when it is exactly full
  (`mkfs.c:161`); that block is not mapped, and `bmap()` would allocate it in a
  read, outside a transaction. `mkfs` does not check `NINODES`.
* `ulib.c`'s `memmove()` copies upward only, unlike `string.c`'s.
* Network: a full transmit ring is not noticed, and descriptors of its second half
  share one address that is never set; a full ARP table overwrites the address of
  entry 0; duplicates are recognised by the last identification only, over all
  hosts: a copy that comes after the next datagram is answered again, and a new
  datagram is taken for a copy if another host sent the last one with the same
  identification, or after 65535 lost ones in a row; the state of closing is one for all connections; `H2N_uint` does not swap
  bytes, and the checksum uses another address than the header.
* `malloc()` of sizes near 2^32 wraps; `Heap` bounds the requests.

## Not modelled

* User-level threads (`uthread1.c`, `uthread_switch.S`): `thread_switch()` does not save
  the registers that it restores and never assigns `current_thread`, `main()` returns
  without `exit()`, and the timer calls the user's scheduler in kernel mode
  (`trap.c:60`), also after `exec()` and in the slot's next process. What runs
  next is whatever the stacks hold: there is no behaviour to translate.
* Boot, interrupt controllers, PCI, UART, keyboard maps, glyphs: register and
  table programming. Each module's `Init` is the state boot leaves.
* The scanning of characters in `gettoken()`: a line is a sequence of tokens. `pipe()`
  is one step in `Shell`, so that no other process finds the file table full because
  of files that a failing `pipe()` is about to give back.
* The dispatch table of `syscall()`, `getpinfo()`, `filestat()`: they only look up or
  copy. `mknod()`, and checksums and packet layout of the network. `i8254_recv()`:
  its only call, in `main()`, is commented out.
* `sched()` carries `intena` across `swtch()`; `SpinLock` stays on one kernel
  thread per CPU.
* Other user programs are straight-line clients of the calls; `usertests.c` was
  read for what it expects.
