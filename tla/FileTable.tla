----------------------------- MODULE FileTable ------------------------------
(***************************************************************************)
(* The table of open files (file.c, ftable), the descriptor table of a     *)
(* process (proc->ofile, sysfile.c) and the pipes that open files lead to  *)
(* (pipe.c), as operators on their values.                                 *)
(*                                                                         *)
(* A kernel value k has the open files k.file and the pipes k.pipe; a      *)
(* descriptor table o maps each descriptor to an open file or to NoFile.   *)
(* The operators stand for whole calls, and module Pipe looks inside those *)
(* on pipes.  pipe() takes ftable.lock several times: the files it holds   *)
(* for a moment, and gives back when it fails, no other process misses.    *)
(***************************************************************************)
EXTENDS Integers, Sequences, FiniteSetsExt

CONSTANTS
    NFILE,      \* open files per system
    NOFILE,     \* open files per process
    NPIPE       \* pages that pipealloc() can get from kalloc()

NoFile == 0
NoFd == -1
Fds == 0 .. NOFILE - 1
Files == 1 .. NFILE

Unused == [ref |-> 0, type |-> "NONE", obj |-> 0,
           readable |-> FALSE, writable |-> FALSE, off |-> 0]
ClosedPipe == [data |-> <<>>, readopen |-> FALSE, writeopen |-> FALSE]

OpenFile(type, obj, readable, writable) ==
    [ref |-> 1, type |-> type, obj |-> obj,
     readable |-> readable, writable |-> writable, off |-> 0]

(* The open files filealloc() can return; it returns the first. *)
FreeFiles(k) == {f \in Files : k.file[f].ref = 0}
filealloc(k) == IF FreeFiles(k) = {} THEN NoFile ELSE Min(FreeFiles(k))

FreeFds(o) == {fd \in Fds : o[fd] = NoFile}
fdalloc(o) == IF FreeFds(o) = {} THEN NoFd ELSE Min(FreeFds(o))

filedup(k, f) == [k EXCEPT !.file[f].ref = @ + 1]

pipeclose(k, p, writable) ==
    LET q == IF writable THEN [k.pipe[p] EXCEPT !.writeopen = FALSE]
                         ELSE [k.pipe[p] EXCEPT !.readopen = FALSE]
    IN  [k EXCEPT !.pipe[p] = IF q.readopen \/ q.writeopen THEN q ELSE ClosedPipe]

MutFileclose(k, f) ==
    LET ff == k.file[f]
        freed == [k EXCEPT !.file[f] = Unused]
    IN  IF ff.type = "PIPE" THEN pipeclose(freed, ff.obj, ff.writable)
        ELSE IF ff.ref > 1 THEN [k EXCEPT !.file[f].ref = @ - 1]
        ELSE freed

fileclose(k, f) ==
    LET ff == k.file[f]
        freed == [k EXCEPT !.file[f] = Unused]
    IN  IF ff.ref > 1 THEN [k EXCEPT !.file[f].ref = @ - 1]
        ELSE IF ff.type = "PIPE" THEN pipeclose(freed, ff.obj, ff.writable)
        ELSE freed

(* The loops over ofile[] of fork() and of exit(). *)
OpenFds(o) == {fd \in Fds : o[fd] # NoFile}
DupAll(k, o) == FoldSet(LAMBDA fd, kk : filedup(kk, o[fd]), k, OpenFds(o))
CloseAll(k, o) == FoldSet(LAMBDA fd, kk : fileclose(kk, o[fd]), k, OpenFds(o))

(* filealloc()'s mark on the file it returns, and a fileclose() of what    *)
(* may not have been returned.                                             *)
Mark(k, f) == IF f = NoFile THEN k ELSE [k EXCEPT !.file[f].ref = 1]
Release(k, f) == IF f = NoFile THEN k ELSE fileclose(k, f)

(* pipealloc(): two files and a page; what it got before one was missing   *)
(* it gives back.                                                          *)
FreePipes(k) == {p \in 1 .. NPIPE : k.pipe[p] = ClosedPipe}

pipealloc(k) ==
    LET f0 == filealloc(k)
        f1 == filealloc(Mark(k, f0))
        marked == Mark(Mark(k, f0), f1)
        p == Min(FreePipes(k))
    IN  IF NoFile \in {f0, f1} \/ FreePipes(k) = {}
        THEN [ok |-> FALSE, rf |-> NoFile, wf |-> NoFile,
              kernel |-> Release(Release(marked, f0), f1)]
        ELSE [ok |-> TRUE, rf |-> f0, wf |-> f1, kernel |->
               [marked EXCEPT !.file[f0] = OpenFile("PIPE", p, TRUE, FALSE),
                              !.file[f1] = OpenFile("PIPE", p, FALSE, TRUE),
                              !.pipe[p] = [data |-> <<>>, readopen |-> TRUE,
                                           writeopen |-> TRUE]]]

Assign(o, fd, f) == IF fd = NoFd THEN o ELSE [o EXCEPT ![fd] = f]

(* The descriptors of the two files, or everything back as it was. *)
PipeFds(k, o) ==
    LET a == pipealloc(k)
        fd0 == fdalloc(o)
        o0 == Assign(o, fd0, a.rf)
        fd1 == fdalloc(o0)
    IN  CASE ~a.ok -> [ok |-> FALSE, kernel |-> a.kernel, ofile |-> o]
          [] a.ok /\ NoFd \in {fd0, fd1} ->
               [ok |-> FALSE, kernel |-> fileclose(fileclose(a.kernel, a.rf), a.wf),
                ofile |-> Assign(o0, fd0, NoFile)]
          [] OTHER -> [ok |-> TRUE, kernel |-> a.kernel, p |-> <<fd0, fd1>>,
                       ofile |-> Assign(o0, fd1, a.wf)]

-----------------------------------------------------------------------------
(* What every table has to be when the descriptor tables are ofile[p] for  *)
(* p in procs: the references of a file are its descriptors, and an end of *)
(* a pipe is open when a file for that end is.                             *)
RefCountsExact(k, procs, ofile) ==
    /\ \A f \in Files :
          k.file[f].ref = Cardinality({d \in procs \X Fds : ofile[d[1]][d[2]] = f})
    /\ \A p \in 1 .. NPIPE :
          LET ends(w) == {f \in Files : /\ k.file[f].type = "PIPE"
                                        /\ k.file[f].obj = p
                                        /\ k.file[f].writable = w}
          IN  /\ k.pipe[p].readopen = (ends(FALSE) # {})
              /\ k.pipe[p].writeopen = (ends(TRUE) # {})
=============================================================================
