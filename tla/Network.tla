------------------------------ MODULE Network ------------------------------
(***************************************************************************)
(* The network: sockets and the DNS, DHCP and NTP clients                  *)
(* (kernel/net/socket.c, ntp_sync of kernel/time.c), the protocols and the *)
(* transmit ring of the E1000 card (drivers/network.c).                    *)
(*                                                                         *)
(* Packets keep what the addressing and the checksums depend on; payloads, *)
(* host names and the fields that are always the same are left out, and    *)
(* with them the checksum of the IP header.  A checksum is taken over      *)
(* words of 16 bits, as in the code; an address stands for a word.  Calls  *)
(* run to their end.  The card may take its time to transmit, other hosts  *)
(* may answer, or not, and may move to another interface.                  *)
(***************************************************************************)
EXTENDS Integers, Sequences, SequencesExt, TLC

CONSTANTS
  NUM_TX_DESC,    \* length of the transmit ring
  ARP_MAX,        \* entries of arp_table
  NSockets,       \* entries of sockets
  Proc,           \* processes that use sockets, each one socket
  Ip,             \* addresses of other hosts
  Local,          \* those on the local network
  Gateway,        \* net_if.gateway
  DnsServer,      \* 8.8.8.8
  NtpServer,      \* 129.6.15.28, used since dns_resolve knows no address
  Limited,        \* 255.255.255.255
  MyIp,           \* net_if.ip
  Interface,      \* <<ip, mac>>: the interfaces a host on the local network may have
  Port,           \* ports processes bind to
  EchoHost,       \* hosts that ping and are pinged
  EchoId,         \* <<id, sequence>> of echo requests
  MaxFrames,      \* bound: frames given to the card
  NtpEra          \* 2208988800, the seconds from 1900 to 1970 (here, their days)

\* What is summed: 16 bits
WordSize == 65536
Word     == 0 .. WordSize - 1

ASSUME RingAssumption == NUM_TX_DESC \in Nat \ {0}
ASSUME SocketsAssumption == NSockets \in Nat \ {0}
ASSUME ProcessAssumption == 0 \notin Ip /\ Proc \cap {"dns", "dhcp", "ntp"} = {}
ASSUME WordAssumption ==
  /\ MyIp \in Word /\ Ip \subseteq Word /\ Port \subseteq Word
  /\ EchoId \subseteq Word \X Word

BroadcastMac == "ff:ff:ff:ff:ff:ff"
NoFrame      == [kind |-> "none"]
SYN == 2
PSH_ACK == 24
FreshSocket(type) == [type |-> type, state |-> "CLOSED", local_port |-> 0, remote_ip |-> 0]
NoCalls == [fd |-> -1, peer |-> 0, alone |-> FALSE]

VARIABLES
  net_if,         \* "boot" before network_init, then "up", or "absent" with no card
  card,           \* tx_descs and their buffers, tx_cur, the card's TDT and TDH
  arp_table,      \* sequence of [ip, mac]
  sockets,        \* [0 .. NSockets-1 -> socket]
  unix_timestamp, \* seconds, without those since boot
  calls,          \* history: process -> its descriptor, the address it connected to,
                  \*   whether no other process held the descriptor then
  queued,         \* history: how many frames were given to the card, and those not on
                  \*   the wire yet, kept while the ring was never full
  answered        \* history: <<ip, mac>> of the ARP replies that arrived

vars == <<net_if, card, arp_table, sockets, unix_timestamp, calls, queued, answered>>

(***************************************************************************)
(* The one's complement sum of 16-bit words.                               *)
(***************************************************************************)
\* Sums stay below 2^24 here
MaxSum == 16777215

Carried(sum) == (sum % WordSize) + (sum \div WordSize)

\* The carries added back until none is left
Folded[sum \in 0 .. MaxSum] == IF sum < WordSize THEN sum ELSE Folded[Carried(sum)]

Checksum(words) ==
  LET sum[i \in 0 .. Len(words)] == IF i = 0 THEN 0 ELSE sum[i - 1] + words[i]
  IN  65535 - Folded[sum[Len(words)]]

(***************************************************************************)
(* The transmit ring.                                                      *)
(***************************************************************************)
SendPacket_oldTail(c, f) ==                                          \* slip
  [c EXCEPT !.slot[c.tx_cur] = f, !.tdt = c.tx_cur, !.tx_cur = (@ + 1) % NUM_TX_DESC]

SendPacket(c, f) ==
  LET next == (c.tx_cur + 1) % NUM_TX_DESC
  IN  [c EXCEPT !.slot[c.tx_cur] = f, !.tx_cur = next, !.tdt = next]

\* The card after each of the frames was sent in turn
Sent(frames) ==
  LET after[i \in 0 .. Len(frames)] == IF i = 0 THEN card ELSE SendPacket(after[i - 1], frames[i])
  IN  after[Len(frames)]

\* eth_send for each of the frames: nothing without a card
EthSend(frames) ==
  IF net_if = "up"
  THEN /\ queued.n + Len(frames) <= MaxFrames
       /\ card' = Sent(frames)
       /\ queued' = LET q  == queued.q \o frames
                        ok == queued.ok /\ Len(q) < NUM_TX_DESC
                    IN  [n |-> queued.n + Len(frames), ok |-> ok, q |-> IF ok THEN q ELSE <<>>]
  ELSE UNCHANGED <<card, queued>>

(***************************************************************************)
(* Addresses.                                                              *)
(***************************************************************************)
NextHop(ip) == IF ip \in Local THEN ip ELSE Gateway

MacOf_newest(ip) ==                                                  \* slip
  IF arp_table = <<>> THEN BroadcastMac ELSE Last(arp_table).mac

\* The first entry for the address; broadcast when there is none
MacOf(ip) ==
  LET i == SelectInSeq(arp_table, LAMBDA e : e.ip = ip)
  IN  IF i = 0 THEN BroadcastMac ELSE arp_table[i].mac

\* The Ethernet header in front of a packet
Frame(mac, packet) == [mac |-> mac, packet |-> packet]

ArpRequest(ip) == Frame(BroadcastMac, [kind |-> "arp_request", target_ip |-> ip])

ArpReply(mac, ip) == Frame(mac, [kind |-> "arp_reply", target_ip |-> ip])

\* The frames for one packet: a request for the address first when it is unknown
IpFrames(packet) ==
  LET hop == NextHop(packet.dest_ip)
      mac == MacOf(hop)
  IN  IF mac = BroadcastMac THEN <<ArpRequest(hop), Frame(mac, packet)>> ELSE <<Frame(mac, packet)>>

ArpAdd(ip, mac) ==
  IF Len(arp_table) >= ARP_MAX THEN arp_table
  ELSE Append(arp_table, [ip |-> ip, mac |-> mac])

(***************************************************************************)
(* Packets.  The pseudo-header of TCP is summed with the segment.          *)
(***************************************************************************)
IcmpPacket(ip, type, id) ==
  [kind |-> "icmp", dest_ip |-> ip, type |-> type, id |-> id,
   sum |-> Checksum(<<type>> \o id)]

TcpPacket(ip, port, flags, by) ==
  [kind |-> "tcp", dest_ip |-> ip, port |-> port, flags |-> flags, by |-> by,
   sum |-> Checksum(<<MyIp, ip, 6, port, 5 * 4096 + flags, 65535>>)]

UdpPacket(ip, port, by) == [kind |-> "udp", dest_ip |-> ip, port |-> port, by |-> by]

DnsQuery == UdpPacket(DnsServer, 12345, "dns")

(***************************************************************************)
(* Initialisation.                                                         *)
(***************************************************************************)
Init ==
  /\ net_if = "boot"
  /\ card = [slot |-> [i \in 0 .. NUM_TX_DESC - 1 |-> NoFrame], tx_cur |-> 0, tdt |-> 0, tdh |-> 0]
  /\ arp_table = <<>>
  /\ sockets = [i \in 0 .. NSockets - 1 |-> FreshSocket("none")]
  /\ unix_timestamp = 0
  /\ calls = [p \in Proc |-> NoCalls]
  /\ queued = [n |-> 0, ok |-> TRUE, q |-> <<>>]
  /\ answered = {}

NetworkInit ==
  /\ net_if = "boot"
  /\ net_if' \in {"up", "absent"}
  /\ UNCHANGED <<card, arp_table, sockets, unix_timestamp, calls, queued, answered>>

(***************************************************************************)
(* Socket calls.  The slot that socket() takes is marked by nothing.       *)
(***************************************************************************)
FreeSockets_connecting ==                                            \* slip
  {i \in DOMAIN sockets : sockets[i].state # "LISTEN"}

FreeSockets == {i \in DOMAIN sockets : sockets[i].state = "CLOSED"}
FirstFree   == CHOOSE i \in FreeSockets : \A j \in FreeSockets : i <= j

Socket(p, type) ==
  /\ net_if # "boot" /\ calls[p] = NoCalls /\ FreeSockets # {}
  /\ sockets' = [sockets EXCEPT ![FirstFree] = FreshSocket(type)]
  /\ calls' = [calls EXCEPT ![p].fd = FirstFree]
  /\ UNCHANGED <<net_if, card, arp_table, unix_timestamp, queued, answered>>

Bind(p, port) ==
  /\ calls[p].fd # -1 /\ sockets[calls[p].fd].local_port = 0
  /\ sockets' = [sockets EXCEPT ![calls[p].fd].local_port = port]
  /\ UNCHANGED <<net_if, card, arp_table, unix_timestamp, calls, queued, answered>>

Listen(p) ==
  /\ calls[p].fd # -1
  /\ sockets' = [sockets EXCEPT ![calls[p].fd].state = "LISTEN"]
  /\ UNCHANGED <<net_if, card, arp_table, unix_timestamp, calls, queued, answered>>

Connect(p, ip) ==
  LET fd == calls[p].fd
  IN  /\ fd # -1 /\ calls[p].peer = 0
      /\ sockets' = [sockets EXCEPT ![fd].remote_ip = ip, ![fd].state = "SYN_SENT"]
      /\ EthSend(IpFrames(TcpPacket(ip, sockets[fd].local_port, SYN, p)))
      /\ calls' = [calls EXCEPT ![p].peer = ip,
                                ![p].alone = \A o \in Proc \ {p} : calls[o].fd # fd]
      /\ UNCHANGED <<net_if, arp_table, unix_timestamp, answered>>

Send(p) ==
  LET s == sockets[calls[p].fd]
  IN  /\ calls[p].peer # 0
      /\ EthSend(IpFrames(IF s.type = "STREAM"
                          THEN TcpPacket(s.remote_ip, s.local_port, PSH_ACK, p)
                          ELSE UdpPacket(s.remote_ip, s.local_port, p)))
      /\ UNCHANGED <<net_if, arp_table, sockets, unix_timestamp, calls, answered>>

(***************************************************************************)
(* Clients.  dns_resolve and dhcp_discover send and do not wait; ntp_sync  *)
(* takes a socket, sends, and reads the time out of its own zeroed packet. *)
(* With no free socket it has sent the DNS query all the same.             *)
(***************************************************************************)
DnsResolve ==
  /\ net_if # "boot"
  /\ EthSend(IpFrames(DnsQuery))
  /\ UNCHANGED <<net_if, arp_table, sockets, unix_timestamp, calls, answered>>

DhcpDiscover ==
  /\ net_if # "boot"
  /\ EthSend(IpFrames(UdpPacket(Limited, 68, "dhcp")))
  /\ UNCHANGED <<net_if, arp_table, sockets, unix_timestamp, calls, answered>>

NtpSync ==
  /\ net_if # "boot"
  /\ IF FreeSockets = {}
     THEN /\ EthSend(IpFrames(DnsQuery))
          /\ UNCHANGED <<sockets, unix_timestamp>>
     ELSE /\ EthSend(IpFrames(DnsQuery) \o IpFrames(UdpPacket(NtpServer, 12345, "ntp")))
          /\ sockets' = [sockets EXCEPT ![FirstFree] = FreshSocket("DGRAM")]
          /\ unix_timestamp' = -NtpEra
  /\ UNCHANGED <<net_if, arp_table, calls, answered>>

IcmpEcho(ip, id) ==
  /\ net_if # "boot"
  /\ EthSend(IpFrames(IcmpPacket(ip, 8, id)))
  /\ UNCHANGED <<net_if, arp_table, sockets, unix_timestamp, calls, answered>>

(***************************************************************************)
(* network_receive, by the kind of the packet that arrives.                *)
(***************************************************************************)
ReceiveArpReply(ip, mac) ==
  /\ net_if = "up"
  /\ arp_table' = ArpAdd(ip, mac)
  /\ answered' = answered \union {<<ip, mac>>}
  /\ UNCHANGED <<net_if, card, sockets, unix_timestamp, calls, queued>>

ReceiveArpRequest(ip, mac, target) ==
  /\ net_if = "up" /\ target = MyIp
  /\ EthSend(<<ArpReply(mac, ip)>>)
  /\ UNCHANGED <<net_if, arp_table, sockets, unix_timestamp, calls, answered>>

EchoReply_stale(request) ==                                          \* slip
  [request EXCEPT !.type = 0, !.sum = Checksum(<<0, request.sum>> \o request.id)]

\* The request is turned into the reply in place: the checksum is set to zero,
\* then taken again
EchoReply(request) ==
  [request EXCEPT !.type = 0, !.sum = Checksum(<<0>> \o request.id)]

ReceiveIcmp(ip, id, dest) ==
  /\ net_if = "up" /\ dest \in {MyIp, Limited}
  /\ EthSend(IpFrames(EchoReply(IcmpPacket(ip, 8, id))))
  /\ UNCHANGED <<net_if, arp_table, sockets, unix_timestamp, calls, answered>>

(***************************************************************************)
(* The card sends the descriptors from TDH up to TDT.                      *)
(***************************************************************************)
CardTransmits ==
  /\ card.tdh # card.tdt
  /\ card' = [card EXCEPT !.slot[card.tdh] = NoFrame, !.tdh = (@ + 1) % NUM_TX_DESC]
  /\ queued' = [queued EXCEPT !.q = IF queued.ok THEN SubSeq(@, 2, Len(@)) ELSE @]
  /\ UNCHANGED <<net_if, arp_table, sockets, unix_timestamp, calls, answered>>

SocketCall(p) ==
  \/ \E type \in {"STREAM", "DGRAM"} : Socket(p, type)
  \/ \E port \in Port : Bind(p, port)
  \/ Listen(p)
  \/ \E ip \in Ip : Connect(p, ip)
  \/ Send(p)

ClientCall == DnsResolve \/ DhcpDiscover \/ NtpSync \/ \E ip \in EchoHost, id \in EchoId : IcmpEcho(ip, id)

Receive ==
  \E h \in Interface :
    \/ ReceiveArpReply(h[1], h[2])
    \/ ReceiveArpRequest(h[1], h[2], MyIp)

ReceiveEcho == \E ip \in EchoHost, id \in EchoId : ReceiveIcmp(ip, id, MyIp)

Next ==
  \/ NetworkInit
  \/ \E p \in Proc : SocketCall(p)
  \/ ClientCall
  \/ Receive
  \/ ReceiveEcho
  \/ CardTransmits

Spec == Init /\ [][Next]_vars

(***************************************************************************)
(* The frames between TDH and TDT are those sent and not yet on the wire,  *)
(* in the order of the calls, as long as the ring was never full: no frame *)
(* is lost, sent twice or overtaken.  e1000_send_packet does not look at   *)
(* the status of the descriptor it takes.                                  *)
(***************************************************************************)
RingInOrder ==
  queued.ok =>
    queued.q = [i \in 1 .. ((card.tdt - card.tdh) % NUM_TX_DESC)
                  |-> card.slot[(card.tdh + i - 1) % NUM_TX_DESC]]

(***************************************************************************)
(* A frame goes to the interface of its next hop, that is one that         *)
(* answered for the destination or, when that is not on the local network, *)
(* for the gateway; or it is broadcast right behind a request for the next *)
(* hop, or behind what was left of it on the ring.                         *)
(***************************************************************************)
NextHopAnswered ==
  \A i \in DOMAIN queued.q :
    LET f   == queued.q[i].packet
        mac == queued.q[i].mac
        hop == IF f.dest_ip \in Local THEN f.dest_ip ELSE Gateway
    IN  f.kind \in {"icmp", "tcp", "udp"} =>
          \/ <<hop, mac>> \in answered
          \/ /\ mac = BroadcastMac
             /\ i > 1 => queued.q[i - 1] = ArpRequest(hop)

\* A packet whose checksum the receiver finds right
Verifies(f) ==
  /\ f.kind = "icmp" => Folded[f.type + f.id[1] + f.id[2] + f.sum] = 65535
  /\ f.kind = "tcp" => Folded[MyIp + f.dest_ip + 6 + f.port + 5 * 4096 + f.flags
                                + 65535 + f.sum] = 65535

(***************************************************************************)
(* The receiver's sum over a packet and its checksum is 0xFFFF, for what   *)
(* is built here as for the echo request that was turned into a reply.     *)
(***************************************************************************)
SumsVerify == \A i \in DOMAIN queued.q : Verifies(queued.q[i].packet)

(***************************************************************************)
(* What a process sends goes to the address it connected to, whatever      *)
(* other processes and ntp_sync do, provided no other held the same        *)
(* descriptor when it connected: a descriptor is handed out again until it *)
(* is connected or listening.                                              *)
(***************************************************************************)
DataReachesPeer ==
  \A i \in DOMAIN queued.q :
    LET f == queued.q[i].packet
    IN  f.kind \in {"tcp", "udp"} /\ f.by \in Proc =>
          (calls[f.by].alone => f.dest_ip = calls[f.by].peer)
=============================================================================
