------------------------------- MODULE Shell --------------------------------
(***************************************************************************)
(* The shell (sh.c), the init process above it (init.c) and the programs   *)
(* cat and echo, running over the open files of module FileTable.          *)
(*                                                                         *)
(* A process runs straight-line code between system calls, so what it has  *)
(* left to do is a sequence of calls, proc[s].todo, and one call is one    *)
(* step.  runcmd() never returns: a command is the sequence Script(cmd).   *)
(* Only the loops of sh, init and cat come back, at an empty sequence or   *)
(* at a call that stays in it.                                             *)
(*                                                                         *)
(* Bytes are words: echo writes each argument as one.  A pipe holds        *)
(* PIPESIZE of them.  The console always reads as end-of-file for the      *)
(* programs.  Error messages are left out: the shell's go to descriptor 2, *)
(* cat's to descriptor 1, after a call that failed.                        *)
(***************************************************************************)
EXTENDS ShellParser, FileTable

CONSTANTS
    NPROC,      \* process slots
    PIPESIZE,   \* bytes in a pipe
    Lines       \* the lines that are typed

ASSUME SizesAssumption == NPROC >= 3 /\ NFILE >= 1 /\ NOFILE >= 3 /\ PIPESIZE >= 1

VARIABLES
    proc,       \* the process table
    ofile,      \* descriptors of each process
    kernel,     \* open files and pipes
    disk,       \* contents of the files that exist
    console,    \* what was written to the console since the last prompt
    line,       \* the line being run, and
    before,     \* the disk when it was typed
    failed      \* a call of the line failed

vars == <<proc, ofile, kernel, disk, console, line, before, failed>>

Slots == 1 .. NPROC
INIT == 1                       \* the slot of init
Programs == {"cat", "echo"}

-----------------------------------------------------------------------------
(* System calls with their arguments.  A descriptor is a number, or one of *)
(* the variables p[0], p[1] and fd of the program.                         *)
P0 == -2
P1 == -3
FD == -4

Close(fd) == [op |-> "close", fd |-> fd]
Dup(fd) == [op |-> "dup", fd |-> fd]
Pipe == [op |-> "pipe"]
Open(file, mode) == [op |-> "open", file |-> file, mode |-> mode]
Fork(prog, child) == [op |-> "fork", prog |-> prog, child |-> child]
Wait == [op |-> "wait"]
Exit == [op |-> "exit"]
Exec(argv) == [op |-> "exec", argv |-> argv]
Write(bytes, must) == [op |-> "write", bytes |-> bytes, must |-> must]
Read(fd) == [op |-> "read", fd |-> fd]
Gets == [op |-> "gets"]

(* What the two sides of a pipeline do before they run their command. *)
LeftEnd == <<Close(1), Dup(P1), Close(P0), Close(P1)>>
RightEnd == <<Close(0), Dup(P0), Close(P0), Close(P1)>>

MutPipeWait == <<Close(P0), Close(P1), Wait, Exit>>

(* What the process that made the pipe does after it has forked both. *)
PipeWait == <<Close(P0), Close(P1), Wait, Wait, Exit>>

(* runcmd(cmd), up to the exec() of a program. *)
RECURSIVE Script(_)
Script(cmd) ==
    CASE cmd.type = "EXEC"  -> IF cmd.argv = <<>> THEN <<Exit>>
                               ELSE <<Exec(cmd.argv), Exit>>
      [] cmd.type = "REDIR" -> <<Close(cmd.fd), Open(cmd.file, cmd.mode)>> \o Script(cmd.cmd)
      [] cmd.type = "LIST"  -> <<Fork("cmd", Script(cmd.left)), Wait>> \o Script(cmd.right)
      [] cmd.type = "PIPE"  -> <<Pipe,
                                 Fork("cmd", LeftEnd \o Script(cmd.left)),
                                 Fork("cmd", RightEnd \o Script(cmd.right))>> \o PipeWait
      [] cmd.type = "BACK"  -> <<Fork("cmd", Script(cmd.cmd)), Exit>>

(* The programs: main(argc, argv). *)
echo(argv) == [i \in 1 .. Len(argv) - 1 |-> Write(<<argv[i + 1]>>, FALSE)] \o <<Exit>>
cat(argv) ==
    IF Len(argv) = 1 THEN <<Read(0), Exit>>
    ELSE FlattenSeq([i \in 1 .. Len(argv) - 1 |->
                        <<Open(argv[i + 1], "read"), Read(FD), Close(FD)>>]) \o <<Exit>>
Program(argv) == IF argv[1] = "echo" THEN echo(argv) ELSE cat(argv)

-----------------------------------------------------------------------------
NoProc == [state |-> "UNUSED", parent |-> 0, prog |-> "none", todo |-> <<>>,
           p |-> <<0, 0>>, fd |-> 0]
Process(parent, prog, todo, p) ==
    [state |-> "RUNNABLE", parent |-> parent, prog |-> prog, todo |-> todo, p |-> p,
     fd |-> 0]

(* init has opened the console and duplicated it, and has forked the first *)
(* shell, which waits for a line.                                          *)
Init ==
    LET std == [fd \in Fds |-> IF fd <= 2 THEN 1 ELSE NoFile]
        none == [fd \in Fds |-> NoFile]
    IN  /\ proc = [s \in Slots |-> CASE s = INIT -> Process(0, "init", <<>>, <<0, 0>>)
                                     [] s = 2 -> Process(INIT, "sh", <<>>, <<0, 0>>)
                                     [] OTHER -> NoProc]
        /\ ofile = [s \in Slots |-> IF s <= 2 THEN std ELSE none]
        /\ kernel = [file |-> [f \in Files |->
                                 IF f = 1 THEN [OpenFile("CONSOLE", 0, TRUE, TRUE)
                                                  EXCEPT !.ref = 6]
                                 ELSE Unused],
                     pipe |-> [p \in 1 .. NPIPE |-> ClosedPipe]]
        /\ disk = [f \in Programs |-> <<"elf">>]
        /\ console = <<>>
        /\ line = <<>>
        /\ before = disk
        /\ failed = FALSE

(* Process s is at system call op. *)
At(s, op) == /\ proc[s].state = "RUNNABLE"
             /\ proc[s].todo # <<>>
             /\ Head(proc[s].todo).op = op
Call(s) == Head(proc[s].todo)
Rest(s) == Tail(proc[s].todo)
Does(s, todo) == proc' = [proc EXCEPT ![s].todo = todo]
Ok == UNCHANGED failed
Fails == failed' = TRUE

(* argfd(): the descriptor that s names, and its open file. *)
FdOf(s, fd) == CASE fd = P0 -> proc[s].p[1]
                 [] fd = P1 -> proc[s].p[2]
                 [] fd = FD -> proc[s].fd
                 [] OTHER -> fd
FileOf(s, fd) == ofile[s][FdOf(s, fd)]

sys_close(s) ==
    /\ At(s, "close")
    /\ LET fd == FdOf(s, Call(s).fd)
       IN  IF ofile[s][fd] = NoFile
           THEN UNCHANGED <<kernel, ofile>>
           ELSE /\ kernel' = fileclose(kernel, ofile[s][fd])
                /\ ofile' = [ofile EXCEPT ![s][fd] = NoFile]
    /\ Does(s, Rest(s))
    /\ UNCHANGED <<disk, console, line, before, failed>>

sys_dup(s) ==
    /\ At(s, "dup")
    /\ LET f == FileOf(s, Call(s).fd)
           fd == fdalloc(ofile[s])
       IN  IF f = NoFile \/ fd = NoFd
           THEN UNCHANGED <<kernel, ofile>>
           ELSE /\ kernel' = filedup(kernel, f)
                /\ ofile' = [ofile EXCEPT ![s][fd] = f]
    /\ Does(s, Rest(s))
    /\ UNCHANGED <<disk, console, line, before, failed>>

(* pipe(p), which the shell ends on when it fails. *)
sys_pipe(s) ==
    /\ At(s, "pipe")
    /\ \E a \in {PipeFds(kernel, ofile[s])} :
         /\ kernel' = a.kernel
         /\ ofile' = [ofile EXCEPT ![s] = a.ofile]
         /\ IF a.ok
            THEN proc' = [proc EXCEPT ![s].todo = Rest(s), ![s].p = a.p] /\ Ok
            ELSE Does(s, <<Exit>>) /\ Fails
    /\ UNCHANGED <<disk, console, line, before>>

(* open(file, mode), which the shell and cat end on when it fails.  The    *)
(* file is created before there is an open file and a descriptor for it.   *)
sys_open(s) ==
    /\ At(s, "open")
    /\ LET file == Call(s).file
           write == Call(s).mode = "create"
           exists == file \in DOMAIN disk
           f == filealloc(kernel)
           fd == fdalloc(ofile[s])
       IN  /\ disk' = IF write /\ ~exists THEN disk @@ (file :> <<>>) ELSE disk
           /\ IF (exists \/ write) /\ f # NoFile /\ fd # NoFd
              THEN /\ kernel' = [kernel EXCEPT !.file[f] =
                                    OpenFile("INODE", file, ~write, write)]
                   /\ ofile' = [ofile EXCEPT ![s][fd] = f]
                   /\ proc' = [proc EXCEPT ![s].todo = Rest(s), ![s].fd = fd]
                   /\ Ok
              ELSE /\ Does(s, <<Exit>>)
                   /\ Fails
                   /\ UNCHANGED <<kernel, ofile>>
    /\ UNCHANGED <<console, line, before>>

(* fork1(): the child has the parent's descriptors and variables; without  *)
(* a free slot the caller ends.                                            *)
sys_fork(s) ==
    /\ At(s, "fork")
    /\ LET free == {c \in Slots : proc[c].state = "UNUSED"}
           c == Min(free)
       IN  IF free # {}
           THEN /\ proc' = [proc EXCEPT ![s].todo = Rest(s),
                                        ![c] = Process(s, Call(s).prog, Call(s).child,
                                                       proc[s].p)]
                /\ ofile' = [ofile EXCEPT ![c] = ofile[s]]
                /\ kernel' = DupAll(kernel, ofile[s])
                /\ Ok
           ELSE /\ Does(s, <<Exit>>)
                /\ Fails
                /\ UNCHANGED <<ofile, kernel>>
    /\ UNCHANGED <<disk, console, line, before>>

Children(s) == {c \in Slots : proc[c].state # "UNUSED" /\ proc[c].parent = s}
Zombies(s) == {c \in Children(s) : proc[c].state = "ZOMBIE"}

(* wait(): frees the first zombie child; returns at once without children. *)
sys_wait(s) ==
    /\ At(s, "wait")
    /\ Zombies(s) # {} \/ Children(s) = {}
    /\ proc' = [q \in Slots |-> IF q = s THEN [proc[s] EXCEPT !.todo = Rest(s)]
                                ELSE IF Zombies(s) # {} /\ q = Min(Zombies(s)) THEN NoProc
                                ELSE proc[q]]
    /\ UNCHANGED <<ofile, kernel, disk, console, line, before, failed>>

(* exit(): closes every descriptor and leaves the children to init. *)
sys_exit(s) ==
    /\ At(s, "exit")
    /\ kernel' = CloseAll(kernel, ofile[s])
    /\ ofile' = [ofile EXCEPT ![s] = [fd \in Fds |-> NoFile]]
    /\ proc' = [q \in Slots |->
                  IF q = s THEN [proc[s] EXCEPT !.state = "ZOMBIE", !.todo = <<>>]
                  ELSE IF q \in Children(s) THEN [proc[q] EXCEPT !.parent = INIT]
                  ELSE proc[q]]
    /\ UNCHANGED <<disk, console, line, before, failed>>

(* exec(): keeps the descriptors; returns when there is no such program. *)
sys_exec(s) ==
    /\ At(s, "exec")
    /\ LET argv == Call(s).argv
       IN  IF argv[1] \in Programs
           THEN /\ proc' = [proc EXCEPT ![s].todo = Program(argv), ![s].p = <<0, 0>>,
                                        ![s].fd = 0]
                /\ Ok
           ELSE Does(s, Rest(s)) /\ Fails
    /\ UNCHANGED <<ofile, kernel, disk, console, line, before>>

(* bytes written over content from offset off on. *)
Overwrite(content, off, bytes) ==
    SubSeq(content, 1, off) \o bytes
      \o SubSeq(content, off + Len(bytes) + 1, Len(content))

(* write(1, ...).  A pipe takes one byte at a time and makes the writer    *)
(* wait only while it is full; whether somebody can still read is looked   *)
(* at only then.  cat ends on an error, echo does not look.                *)
sys_write(s) ==
    /\ At(s, "write")
    /\ LET f == FileOf(s, 1)
           file == kernel.file[f]
           pipe == kernel.pipe[file.obj]
           bytes == Call(s).bytes
           error == /\ Does(s, IF Call(s).must THEN <<Exit>> ELSE Rest(s))
                    /\ UNCHANGED <<kernel, disk, console>>
       IN  CASE f = NoFile -> error
             [] f # NoFile /\ ~file.writable -> error
             [] f # NoFile /\ file.writable /\ file.type = "CONSOLE" ->
                   /\ console' = console \o bytes
                   /\ Does(s, Rest(s))
                   /\ UNCHANGED <<kernel, disk>>
             [] f # NoFile /\ file.writable /\ file.type = "INODE" ->
                   /\ disk' = [disk EXCEPT ![file.obj] = Overwrite(@, file.off, bytes)]
                   /\ kernel' = [kernel EXCEPT !.file[f].off = @ + Len(bytes)]
                   /\ Does(s, Rest(s))
                   /\ UNCHANGED console
             [] f # NoFile /\ file.writable /\ file.type = "PIPE" ->
                   IF Len(pipe.data) = PIPESIZE
                   THEN ~pipe.readopen /\ error
                   ELSE /\ kernel' = [kernel EXCEPT !.pipe[file.obj].data =
                                        Append(@, Head(bytes))]
                        /\ Does(s, IF Len(bytes) = 1 THEN Rest(s)
                                   ELSE <<Write(Tail(bytes), Call(s).must)>> \o Rest(s))
                        /\ UNCHANGED <<disk, console>>
    /\ UNCHANGED <<ofile, line, before, failed>>

MutCatLoop(s, bytes) ==
    IF bytes = <<>> THEN proc[s].todo ELSE <<Write(bytes, TRUE)>> \o proc[s].todo

(* The loop of cat(fd): what read() returns is written before the next     *)
(* read(); end-of-file ends the loop, an error ends cat.                   *)
CatLoop(s, bytes) ==
    IF bytes = <<>> THEN Rest(s) ELSE <<Write(bytes, TRUE)>> \o proc[s].todo

sys_read(s) ==
    /\ At(s, "read")
    /\ LET f == FileOf(s, Call(s).fd)
           file == kernel.file[f]
           pipe == kernel.pipe[file.obj]
           rest == SubSeq(disk[file.obj], file.off + 1, Len(disk[file.obj]))
       IN  CASE f = NoFile -> Does(s, <<Exit>>) /\ UNCHANGED kernel
             [] f # NoFile /\ ~file.readable -> Does(s, <<Exit>>) /\ UNCHANGED kernel
             [] f # NoFile /\ file.readable /\ file.type = "CONSOLE" ->
                   Does(s, CatLoop(s, <<>>)) /\ UNCHANGED kernel
             [] f # NoFile /\ file.readable /\ file.type = "INODE" ->
                   /\ Does(s, CatLoop(s, rest))
                   /\ kernel' = [kernel EXCEPT !.file[f].off = @ + Len(rest)]
             [] f # NoFile /\ file.readable /\ file.type = "PIPE" ->
                   /\ pipe.data # <<>> \/ ~pipe.writeopen
                   /\ Does(s, CatLoop(s, pipe.data))
                   /\ kernel' = [kernel EXCEPT !.pipe[file.obj].data = <<>>]
    /\ UNCHANGED <<ofile, disk, console, line, before, failed>>

-----------------------------------------------------------------------------
(* The loop of the shell: it has come round, *)
LoopEnds(s) == /\ proc[s].state = "RUNNABLE"
               /\ proc[s].prog = "sh"
               /\ proc[s].todo = <<>>

(* prints its prompt and clears the buffer, *)
getcmd(s) ==
    /\ LoopEnds(s)
    /\ Does(s, <<Gets>>)
    /\ line' = <<>>
    /\ console' = <<>>
    /\ failed' = FALSE
    /\ before' = disk
    /\ UNCHANGED <<ofile, kernel, disk>>

(* and waits for a line.  Bound: it is given one when no command of the    *)
(* last line is left in the background.                                    *)
AtPrompt(s) == /\ At(s, "gets")
               /\ \A q \in Slots \ {INIT, s} : proc[q].state = "UNUSED"

(* A line is run by a child, which also parses it, so that a syntax error  *)
(* ends the child only.  cd is run by the shell itself; no name is a       *)
(* directory here, and chdir() fails.                                      *)
gets(s) ==
    /\ AtPrompt(s)
    /\ \E l \in Lines :
          /\ line' = l
          /\ LET r == parsecmd(l)
                 cmd == IF r.ok THEN Script(r.cmd) ELSE <<Exit>>
             IN  Does(s, IF Len(l) >= 2 /\ l[1] = "cd" THEN <<>>
                         ELSE <<Fork("cmd", cmd), Wait>>)
    /\ before' = disk
    /\ console' = <<>>
    /\ failed' = FALSE
    /\ UNCHANGED <<ofile, kernel, disk>>

(* End-of-file at the prompt: the shell ends. *)
GetEof(s) ==
    /\ AtPrompt(s)
    /\ Does(s, <<Exit>>)
    /\ before' = disk
    /\ console' = <<>>
    /\ UNCHANGED <<ofile, kernel, disk, line, failed>>

(* The loop of init: wait() for zombies until the shell is one of them,    *)
(* then start another shell.  Its loop over open("console") finds three    *)
(* descriptors open, and closes the fourth.                                *)
InitLoop ==
    /\ proc[INIT].state = "RUNNABLE"
    /\ proc[INIT].todo = <<>>
    /\ Zombies(INIT) # {}
    /\ LET z == Min(Zombies(INIT))
       IN  proc' = [proc EXCEPT ![z] = NoProc,
                                ![INIT].todo = IF proc[z].prog = "sh"
                                               THEN <<Fork("sh", <<>>)>> ELSE <<>>]
    /\ UNCHANGED <<ofile, kernel, disk, console, line, before, failed>>

Step(s) ==
    \/ sys_close(s)
    \/ sys_dup(s)
    \/ sys_pipe(s)
    \/ sys_open(s)
    \/ sys_fork(s)
    \/ sys_wait(s)
    \/ sys_exit(s)
    \/ sys_exec(s)
    \/ sys_write(s)
    \/ sys_read(s)
    \/ getcmd(s)

Next ==
    \/ \E s \in Slots : Step(s)
    \/ \E s \in Slots : gets(s) \/ GetEof(s)
    \/ InitLoop

(* Every process that can go on does: the CPUs start out in the round-robin *)
(* policy.  Nobody has to type.                                            *)
Spec == Init /\ [][Next]_vars
FairSpec == Spec /\ WF_vars(InitLoop) /\ \A s \in Slots : WF_vars(Step(s))

-----------------------------------------------------------------------------
(* What a command without "&" means: how it changes its input, what it     *)
(* writes to its output, and what it leaves on the disk.                   *)
RECURSIVE HasBack(_)
HasBack(c) == CASE c.type = "EXEC" -> FALSE
                [] c.type = "BACK" -> TRUE
                [] c.type = "REDIR" -> HasBack(c.cmd)
                [] c.type \in {"LIST", "PIPE"} -> HasBack(c.left) \/ HasBack(c.right)

ContentOf(d, f) == IF f \in DOMAIN d THEN d[f] ELSE <<>>

ProgramMeaning(argv, in, d) ==
    CASE argv # <<>> /\ argv[1] = "echo" -> [in |-> in, out |-> Tail(argv), disk |-> d]
      [] argv = <<"cat">> -> [in |-> <<>>, out |-> in, disk |-> d]
      [] Len(argv) > 1 /\ argv[1] = "cat" ->
           [in |-> in, disk |-> d,
            out |-> FlattenSeq([i \in 1 .. Len(argv) - 1 |-> ContentOf(d, argv[i + 1])])]
      [] OTHER -> [in |-> in, out |-> <<>>, disk |-> d]

RECURSIVE Meaning(_, _, _)
Meaning(c, in, d) ==
    CASE c.type = "EXEC" -> ProgramMeaning(c.argv, in, d)
      [] c.type = "REDIR" /\ c.fd = 0 ->
           [Meaning(c.cmd, ContentOf(d, c.file), d) EXCEPT !.in = in]
      [] c.type = "REDIR" /\ c.fd = 1 ->
           LET m == Meaning(c.cmd, in, (c.file :> ContentOf(d, c.file)) @@ d)
           IN  [in |-> m.in, out |-> <<>>,
                disk |-> [m.disk EXCEPT ![c.file] = Overwrite(@, 0, m.out)]]
      [] c.type = "LIST" ->
           LET l == Meaning(c.left, in, d)
               r == Meaning(c.right, l.in, l.disk)
           IN  [r EXCEPT !.out = l.out \o r.out]
      [] c.type = "PIPE" ->
           LET l == Meaning(c.left, in, d)
           IN  [Meaning(c.right, l.out, l.disk) EXCEPT !.in = l.in]

-----------------------------------------------------------------------------
(* The recursive descent of parsecmd() builds the tree that the grammar    *)
(* gives a line, and panics exactly on the lines outside the grammar.      *)
ParsesByGrammar ==
    (\E s \in Slots : proc[s].prog = "sh" /\ Len(proc[s].todo) = 2)
        => parsecmd(line) = LineTree(line)

(* The reference count of an open file is the number of descriptors for it *)
(* and an end of a pipe is open as long as one of them is, whatever mix of *)
(* fork(), dup(), close(), pipe() and exit() has run.                      *)
RefsExact == RefCountsExact(kernel, Slots, ofile)

(* When the shell has come round after a line without "&" none of whose    *)
(* calls failed, the console and the files are as if its commands had run  *)
(* one after the other with nothing in between: the processes of a         *)
(* pipeline have all finished, in whatever order they ran.  (The two sides *)
(* of a pipeline in Lines use no file that the other one writes.)          *)
RunsToMeaning ==
    LET r == parsecmd(line)
    IN  (/\ \E s \in Slots : LoopEnds(s)
         /\ ~failed
         /\ r.ok
         /\ ~HasBack(r.cmd))
        => LET m == Meaning(r.cmd, <<>>, before)
           IN  console = m.out /\ disk = m.disk

(* The shell always gets back to its prompt, also when a fork(), pipe() or *)
(* open() of the line fails half-way: no process waits for ever for the    *)
(* end of a pipe that another one still holds open.                        *)
PromptReturns == []<>(\E s \in Slots : AtPrompt(s))
=============================================================================
