-------------------------------- MODULE Nic ---------------------------------
(***************************************************************************)
(* The transmit ring of the E1000 (i8254.c): the driver fills descriptors  *)
(* and moves TDT, the card sends what lies between TDH and TDT and moves   *)
(* TDH.  arp_scan() (arp.c) is the sender: at boot it asks for the         *)
(* hardware address of every host, one frame each.                         *)
(***************************************************************************)
EXTENDS Integers, Sequences

CONSTANTS
    SEND_DESC_NUM,   \* descriptors of the ring
    NBuffers,        \* pages kalloc() has for the buffers
    NScan,           \* hosts that arp_scan() asks for
    NoFrame

ASSUME NicAssumption ==
    SEND_DESC_NUM \in Nat \ {0} /\ SEND_DESC_NUM % 2 = 0 /\ NBuffers \in Nat
    /\ NScan \in Nat

VARIABLES
    tdh, tdt,   \* the card's head and tail registers
    frame,      \* contents of the buffers
    scan,       \* loop variable of arp_scan()
    queued,     \* frames handed to i8254_send() that are not on the wire
    onwire,     \* the last frame the card sent
    spoiled     \* a frame was put where one was still waiting

nicVars == <<tdh, tdt, frame, scan, queued, onwire, spoiled>>

Ring == 0 .. SEND_DESC_NUM - 1
Filled == -1     \* 0x01010101, what kfree() fills a page with

(* buf_addr of descriptor i.  Turn i of the loop that allocates the pages  *)
(* writes descriptors i and i + 1, and the next turn writes i + 1 again:   *)
(* it ends half-way through the ring, and the descriptors behind that stay *)
(* as kalloc() left them.                                                  *)
buf_addr(i) ==
    LET pages == IF NBuffers < SEND_DESC_NUM \div 2 THEN NBuffers ELSE SEND_DESC_NUM \div 2
    IN  IF i < pages THEN 2 * i
        ELSE IF i = pages /\ pages > 0 THEN 2 * (pages - 1) + 1
        ELSE Filled

(* After i8254_init_send(). *)
NicInit ==
    /\ tdh = 0 /\ tdt = 0
    /\ frame = [a \in {buf_addr(i) : i \in Ring} |-> NoFrame]
    /\ scan = 0
    /\ queued = <<>> /\ onwire = NoFrame /\ spoiled = FALSE

-----------------------------------------------------------------------------
(* Descriptors the card has still to send. *)
Waiting == {(tdh + k) % SEND_DESC_NUM : k \in 0 .. ((tdt - tdh) % SEND_DESC_NUM) - 1}

tx_available ==
    SEND_DESC_NUM - ((SEND_DESC_NUM - tdh + tdt) % SEND_DESC_NUM)

MutTxIndex == (tdt + 1) % SEND_DESC_NUM

(* The descriptor the next frame goes to. *)
TxIndex == tdt % SEND_DESC_NUM

(* i8254_send(): never finds the ring full, since tx_available is at least *)
(* 1; the caller would try again.                                          *)
i8254_send(f) ==
    /\ tx_available > 0
    /\ frame' = [frame EXCEPT ![buf_addr(TxIndex)] = f]
    /\ spoiled' = \/ spoiled
                  \/ Len(queued) = SEND_DESC_NUM - 1
                  \/ \E j \in Waiting : buf_addr(j) = buf_addr(TxIndex)
    /\ tdt' = (tdt + 1) % SEND_DESC_NUM
    /\ queued' = Append(queued, f)

(* One turn of the loop. *)
arp_scan ==
    /\ scan < NScan
    /\ i8254_send(scan)
    /\ scan' = scan + 1
    /\ UNCHANGED <<tdh, onwire>>

(* The card sends the frame at its head. *)
Transmit ==
    /\ tdh # tdt
    /\ onwire' = frame[buf_addr(tdh)]
    /\ tdh' = (tdh + 1) % SEND_DESC_NUM
    /\ queued' = Tail(queued)
    /\ UNCHANGED <<tdt, frame, scan, spoiled>>

(* The next boot. *)
i8254_init_send ==
    /\ scan = NScan /\ tdh = tdt
    /\ tdh' = 0 /\ tdt' = 0
    /\ frame' = [a \in DOMAIN frame |-> NoFrame]
    /\ scan' = 0
    /\ queued' = <<>> /\ onwire' = NoFrame /\ spoiled' = FALSE

NicNext == arp_scan \/ Transmit \/ i8254_init_send

NicSpec == NicInit /\ [][NicNext]_nicVars

-----------------------------------------------------------------------------
(* The card sends the frames in the order of the calls, each unchanged, as *)
(* long as it keeps up: until a call finds all but one descriptor waiting, *)
(* or a frame waiting in the second half of the ring, whose descriptors    *)
(* share one buffer.                                                       *)
FramesInOrder == [][Transmit /\ ~spoiled => onwire' = Head(queued)]_nicVars
=============================================================================
