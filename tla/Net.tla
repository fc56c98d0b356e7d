-------------------------------- MODULE Net ---------------------------------
(***************************************************************************)
(* What the kernel does with a frame it receives: eth_proc() and below it  *)
(* ARP, IPv4, ICMP and TCP with its one-page HTTP server (eth.c, arp.c,    *)
(* ipv4.c, icmp.c, tcp.c, http.c).  Its caller is i8254_recv(), whose own  *)
(* call in main() is commented out.                                        *)
(*                                                                         *)
(* Nothing runs beside eth_proc(), so a frame is handled in one step, and  *)
(* each function is an operator on the state s of the protocols.  The      *)
(* frames that go to i8254_send() meanwhile are s.out, without the fields  *)
(* that are copied or computed from the frame they answer.                 *)
(*                                                                         *)
(* The network delivers the datagrams of one host in order.  It may repeat *)
(* each of them, the copies one after the other, and lose some, but not so *)
(* many in a row that the identification comes round.  ARP packets come    *)
(* from any host at any time.                                              *)
(***************************************************************************)
EXTENDS Integers, Sequences, FiniteSets, FiniteSetsExt

CONSTANTS
    Hosts,          \* addresses of the hosts on the network; Peer is one
    Macs,           \* hardware addresses they announce
    my_ip, Peer, NoHost, NoMac,
    ARP_TABLE_MAX,
    IdSpace,        \* identifications of a datagram: 2^16
    MaxDatagrams,   \* datagrams the peer sends (bound)
    MaxLost         \* datagrams that are lost in a row (bound)

ASSUME TableAssumption == ARP_TABLE_MAX \in Nat \ {0}
ASSUME HostsAssumption ==
    /\ Peer \in Hosts /\ my_ip \notin Hosts /\ NoHost \notin Hosts \cup {my_ip}
    /\ NoMac \notin Macs
ASSUME DatagramsAssumption ==
    /\ MaxDatagrams \in Nat /\ IdSpace \in Nat \ {0, 1}
    /\ MaxLost \in 0 .. IdSpace - 2

VARIABLES
    net,        \* the state of the protocols
    channel,    \* datagrams on their way, oldest first
    sent,       \* number of datagrams the peer has sent
    again,      \* the oldest one has been delivered already
    lost,       \* datagrams lost since the last one that arrived
    announced,  \* what each host last told us its hardware address was
    overfull,   \* a new host found the ARP table full
    first,      \* datagrams delivered for the first time, by what they ask
    replied     \* frames sent in reply

netVars == <<net, channel, sent, again, lost, announced, overfull, first, replied>>

Entries == 0 .. ARP_TABLE_MAX - 1
NoEntry == [ip |-> NoHost, mac |-> NoMac, use |-> FALSE]

(* The datagrams a peer may send, with what they ask for. *)
Requests == {"syn", "get", "echo"}
Datagram(protocol, bits, ask) == [protocol |-> protocol, bits |-> bits, ask |-> ask]
Datagrams == {
    Datagram("TCP", {"SYN"}, "syn"), Datagram("TCP", {"PSH", "ACK"}, "get"),
    Datagram("TCP", {"ACK"}, "none"), Datagram("TCP", {"FIN", "ACK"}, "none"),
    Datagram("ICMP", {}, "echo"), Datagram("ICMP", {}, "none"), Datagram("UDP", {}, "none")}

NetInit ==
    /\ net = [arp_table |-> [i \in Entries |-> NoEntry], ip_id |-> -1, send_id |-> 0,
              seq_num |-> 0, fin_flag |-> FALSE, out |-> <<>>]
    /\ channel = <<>> /\ sent = 0 /\ again = FALSE /\ lost = 0
    /\ announced = [h \in Hosts |-> NoMac] /\ overfull = FALSE
    /\ first = [a \in Requests |-> 0]
    /\ replied = [f \in {"synack", "ack", "http", "fin", "echo"} |-> 0]

-----------------------------------------------------------------------------
SendFrame(s, frame) == [s EXCEPT !.out = Append(@, frame)]

(* A frame with an IPv4 datagram takes the next identification. *)
tcp_pkt_create(s) == [s EXCEPT !.send_id = (@ + 1) % 65536]
icmp_reply_pkt_create(s) == [s EXCEPT !.send_id = (@ + 1) % 65536]

MutArpTableSearch(table, ip) ==
    LET found == {i \in Entries : table[i].ip = ip}
        empty == {i \in Entries : ~table[i].use}
    IN  CASE found # {} -> Min(found)
          [] found = {} /\ empty # {} -> -Min(empty)
          [] OTHER -> 0

(* The entry of ip; or -i-1 when entry i is the first free one.  A full    *)
(* table without ip yields 0, as if entry 0 were the one.                  *)
arp_table_search(table, ip) ==
    LET found == {i \in Entries : table[i].ip = ip}
        empty == {i \in Entries : ~table[i].use}
    IN  CASE found # {} -> Min(found)
          [] found = {} /\ empty # {} -> -Min(empty) - 1
          [] OTHER -> 0

arp_table_update(table, p) ==
    LET index == arp_table_search(table, p.src_ip)
    IN  IF index > -1
        THEN [table EXCEPT ![index].mac = p.src_mac]
        ELSE [table EXCEPT ![-(index + 1)] =
                [ip |-> p.src_ip, mac |-> p.src_mac, use |-> TRUE]]

arp_proc(s, p) ==
    CASE ~p.ethernet \/ p.dst_ip # my_ip -> s
      [] p.ethernet /\ p.dst_ip = my_ip /\ p.op = "REQUEST" -> SendFrame(s, "arp")
      [] p.ethernet /\ p.dst_ip = my_ip /\ p.op = "REPLY" ->
           [s EXCEPT !.arp_table = arp_table_update(@, p)]

icmp_proc(s, p) ==
    IF p.ask = "echo" THEN SendFrame(icmp_reply_pkt_create(s), "echo") ELSE s

(* http_proc() writes the page and calls tcp_fin(). *)
http_proc(s) == [s EXCEPT !.fin_flag = TRUE]

TcpSend(s, frame) == SendFrame(tcp_pkt_create(s), frame)

tcp_proc(s, p) ==
    CASE "SYN" \in p.bits -> [TcpSend(s, "synack") EXCEPT !.seq_num = @ + 1]
      [] p.bits = {"PSH", "ACK"} ->
           [TcpSend(http_proc(TcpSend(s, "ack")), "http") EXCEPT !.seq_num = @ + 1]
      [] p.bits = {"ACK"} /\ s.fin_flag -> [TcpSend(s, "fin") EXCEPT !.fin_flag = FALSE]
      [] OTHER -> s

MutIpv4Proc(s, p) ==
    IF s.ip_id = p.id \/ p.src_ip = my_ip THEN s
    ELSE CASE p.protocol = "ICMP" -> icmp_proc(s, p)
           [] p.protocol = "TCP" -> tcp_proc([s EXCEPT !.ip_id = p.id], p)
           [] OTHER -> [s EXCEPT !.ip_id = p.id]

(* A datagram with the identification of the last one is taken for a copy. *)
ipv4_proc(s, p) ==
    LET t == [s EXCEPT !.ip_id = p.id]
    IN  IF s.ip_id = p.id \/ p.src_ip = my_ip THEN s
        ELSE CASE p.protocol = "ICMP" -> icmp_proc(t, p)
               [] p.protocol = "TCP" -> tcp_proc(t, p)
               [] OTHER -> t

eth_proc(s, frame) ==
    LET t == [s EXCEPT !.out = <<>>]
    IN  CASE frame.type = "ARP" -> arp_proc(t, frame.pkt)
          [] frame.type = "IP" -> ipv4_proc(t, frame.pkt)
          [] OTHER -> t

(* The kernel handles one frame. *)
Handle(frame) ==
    LET t == eth_proc(net, frame)
    IN  /\ net' = t
        /\ replied' = [f \in DOMAIN replied |->
                          replied[f] + Cardinality({i \in DOMAIN t.out : t.out[i] = f})]

-----------------------------------------------------------------------------
(* An ARP packet arrives, from a host that answers or asks. *)
ReceiveArp(h, mac, op, dst, ethernet) ==
    LET p == [src_ip |-> h, src_mac |-> mac, op |-> op, dst_ip |-> dst,
              ethernet |-> ethernet]
        update == ethernet /\ dst = my_ip /\ op = "REPLY"
    IN  /\ Handle([type |-> "ARP", pkt |-> p])
        /\ announced' = IF update THEN [announced EXCEPT ![h] = mac] ELSE announced
        /\ overfull' = (overfull \/ /\ update
                                    /\ \A i \in Entries : net.arp_table[i].use
                                    /\ \A i \in Entries : net.arp_table[i].ip # h)
        /\ UNCHANGED <<channel, sent, again, lost, first>>

(* The peer sends a datagram, with the next identification. *)
NthId(n) == n % IdSpace

Sent(d) == [protocol |-> d.protocol, bits |-> d.bits, ask |-> d.ask,
            id |-> NthId(sent), src_ip |-> Peer]
PeerSends(d) ==
    /\ sent < MaxDatagrams
    /\ channel' = Append(channel, Sent(d))
    /\ sent' = sent + 1
    /\ UNCHANGED <<net, again, lost, announced, overfull, first, replied>>

(* The oldest datagram arrives; its copy may follow. *)
ReceiveIp(keep) ==
    /\ channel # <<>>
    /\ Handle([type |-> "IP", pkt |-> Head(channel)])
    /\ channel' = IF keep THEN channel ELSE Tail(channel)
    /\ again' = keep /\ lost' = 0
    /\ first' = [a \in Requests |-> IF a = Head(channel).ask /\ ~again
                                    THEN first[a] + 1 ELSE first[a]]
    /\ UNCHANGED <<sent, announced, overfull>>

(* The oldest datagram, or what would be its copy, is lost. *)
Lose ==
    /\ channel # <<>>
    /\ channel' = Tail(channel)
    /\ again' = FALSE
    /\ lost' = IF again THEN lost ELSE lost + 1
    /\ lost' <= MaxLost
    /\ UNCHANGED <<net, sent, announced, overfull, first, replied>>

(* A frame of another type arrives. *)
ReceiveOther ==
    /\ Handle([type |-> "other"])
    /\ UNCHANGED <<channel, sent, again, lost, announced, overfull, first>>

NetNext ==
    \/ \E h \in Hosts, m \in Macs, op \in {"REQUEST", "REPLY"},
          dst \in {my_ip, Peer}, ethernet \in BOOLEAN : ReceiveArp(h, m, op, dst, ethernet)
    \/ \E d \in Datagrams : PeerSends(d)
    \/ \E keep \in BOOLEAN : ReceiveIp(keep)
    \/ Lose
    \/ ReceiveOther

NetSpec == NetInit /\ [][NetNext]_netVars

-----------------------------------------------------------------------------
(* The ARP table has one entry per host that answered, with the address it *)
(* gave last, in whatever order hosts answer and change their addresses.   *)
(* When there are more hosts than entries, arp_table_search() lets the     *)
(* answers of the others overwrite entry 0, and never another one.         *)
ArpTableRight ==
    LET table == net.arp_table
        used == {i \in Entries : table[i].use}
    IN  /\ \A i, j \in used : table[i].ip = table[j].ip => i = j
        /\ \A i \in used : ~(overfull /\ i = 0) => table[i].mac = announced[table[i].ip]
        /\ \A h \in Hosts : announced[h] # NoMac =>
              (\E i \in used : table[i].ip = h) \/ overfull

(* Over a network that loses and repeats the datagrams of one peer, each   *)
(* one that arrives is answered once, also after the identifications have  *)
(* wrapped around: a SYN, a request or an echo request by one reply, the   *)
(* sequence number counts the first two, and there are no more FINs than   *)
(* requests, the last still to be sent while fin_flag is set.              *)
AnsweredOnce ==
    /\ replied["synack"] = first["syn"]
    /\ replied["http"] = first["get"]
    /\ replied["echo"] = first["echo"]
    /\ net.seq_num = first["syn"] + first["get"]
    /\ replied["fin"] + (IF net.fin_flag THEN 1 ELSE 0) <= first["get"]
=============================================================================
