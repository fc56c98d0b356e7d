---------------------------- MODULE MCInterrupts ----------------------------
(***************************************************************************)
(* An instance for TLC of what runs at interrupt level and of the devices  *)
(* behind it: Interrupts, SpinLock, Nic and Net.  They share no state, so  *)
(* a behaviour runs one part and leaves the others as they start.          *)
(*                                                                         *)
(* Two bounds on the network: there are at most MaxInFlight datagrams on   *)
(* their way, and ARP answers and datagrams, which change different parts  *)
(* of the state, are not mixed in one behaviour.                           *)
(***************************************************************************)
EXTENDS Interrupts, SpinLock, Nic, Net, TLC

CONSTANT MaxInFlight

VARIABLE part

NetBound ==
    /\ Len(channel) <= MaxInFlight
    /\ sent = 0 \/ \A h \in Hosts : announced[h] = NoMac

mcVars == <<vars, spinVars, nicVars, netVars, part>>

MCInit ==
    /\ Init /\ SpinInit /\ NicInit /\ NetInit
    /\ part \in {"interrupts", "locks", "nic", "net"}

MCNext ==
    /\ \/ part = "interrupts" /\ Next /\ UNCHANGED <<spinVars, nicVars, netVars>>
       \/ part = "locks" /\ SpinNext /\ UNCHANGED <<vars, nicVars, netVars>>
       \/ part = "nic" /\ NicNext /\ UNCHANGED <<vars, spinVars, netVars>>
       \/ part = "net" /\ NetNext /\ NetBound' /\ UNCHANGED <<vars, spinVars, nicVars>>
    /\ UNCHANGED part

MCSpec == MCInit /\ [][MCNext]_mcVars

ProcSymmetry == Permutations(Procs)
MCOrder == {<<"l1", "l2">>}
=============================================================================
