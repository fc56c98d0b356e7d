----------------------------- MODULE MCMemory -------------------------------
(***************************************************************************)
(* An instance for TLC of Memory, the kernel's pages, and of the modules   *)
(* of sequential code: the user programs' heap and filters, the arguments  *)
(* of system calls, the disk image, the string functions and the screen.   *)
(* They share no state, so a behaviour runs one of them and leaves the     *)
(* others as they start.                                                   *)
(*                                                                         *)
(* Pages have two units, so that sizes need not be aligned, page tables    *)
(* two pages, so that a process needs more than one, and there are too few *)
(* pages for two processes and an exec().  The heap has room for three     *)
(* turns of morecore(), one of them for a block larger than CORE.          *)
(*                                                                         *)
(* The filters see lines that are longer and shorter than their buffer.    *)
(* There are 16 addresses for a call's arguments, of which a process has   *)
(* fewer than half.  Some of the files for the image are too large for an  *)
(* inode, for the bitmap's block or for the disk.                          *)
(***************************************************************************)
EXTENDS Memory, Heap, Filters, SysArgs, Mkfs, Screen

VARIABLE part

NoFilter ==
    /\ prog = "none" /\ text = <<>> /\ file = FALSE /\ pattern = <<>> /\ pos = 0
    /\ line = <<>> /\ out = <<>> /\ counts = <<>> /\ status = "none"

NoCall ==
    /\ psz = 0 /\ pmem = <<>> /\ esp = 0 /\ call = "idle" /\ want = 0 /\ got = <<>>
    /\ outcome = ""

NoImage == argv = <<>> /\ argi = 1 /\ copied = 0 /\ image = <<>> /\ mkpc = "none"

MCInit ==
    /\ Init /\ HeapInit /\ StringInit /\ ScreenInit
    /\ part \in {"pages", "heap", "filter", "call", "image", "string", "screen"}
    /\ IF part = "filter" THEN FilterInit ELSE NoFilter
    /\ IF part = "call" THEN ArgInit ELSE NoCall
    /\ IF part = "image" THEN MkfsInit ELSE NoImage

MCNext ==
    /\ \/ part = "pages" /\ Next
          /\ UNCHANGED <<heapVars, filterVars, argVars, mkfsVars, stringVars, screenVars>>
       \/ part = "heap" /\ HeapNext
          /\ UNCHANGED <<vars, filterVars, argVars, mkfsVars, stringVars, screenVars>>
       \/ part = "filter" /\ FilterNext
          /\ UNCHANGED <<vars, heapVars, argVars, mkfsVars, stringVars, screenVars>>
       \/ part = "call" /\ ArgNext
          /\ UNCHANGED <<vars, heapVars, filterVars, mkfsVars, stringVars, screenVars>>
       \/ part = "image" /\ MkfsNext
          /\ UNCHANGED <<vars, heapVars, filterVars, argVars, stringVars, screenVars>>
       \/ part = "string" /\ StringNext
          /\ UNCHANGED <<vars, heapVars, filterVars, argVars, mkfsVars, screenVars>>
       \/ part = "screen" /\ ScreenNext
          /\ UNCHANGED <<vars, heapVars, filterVars, argVars, mkfsVars, stringVars>>
    /\ UNCHANGED part

MCSpec ==
    MCInit /\ [][MCNext]_<<vars, heapVars, filterVars, argVars, mkfsVars, stringVars,
                           screenVars, part>>

MCDeltas == {-6, -3, -2, 1, 4}
MCPrograms == {<<2>>, <<1, 4>>}
MCRequests == {3, 8, 16}

MCTexts == {
    <<>>,
    <<"a", NL, "b", "a", NL>>,
    <<"a", "a", "b", NL, "a", "b">>,
    <<" ", "a", " ", NL, NL, "a", "b", "a", NL, "b">>,
    <<"a", "b", "a", "b", "b", NL, "a", NL>>,
    <<NL, "b", "a", NL, "a", "b", "b", NL>> }
MCPatterns == UNION {[1 .. n -> {"a", ".", "*", "^", "$"}] : n \in 0 .. 3}

MCSizes == {0, 1, 4, 5}
MCStacks == {0, 1, 3, 13, 14, 15}
MCLengths == {-1, 0, 1, 3, 7}

MCArgvs == {<<>>, <<0, 3>>, <<6>>, <<2, 2, 1>>, <<5, 1>>, <<6, 6, 1>>, <<7>>}
=============================================================================
