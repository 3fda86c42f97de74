---------------------------- MODULE NetworkProofs ----------------------------
(***************************************************************************)
(* Addressing, descriptors, checksums and the order of the frames on the   *)
(* ring, for every ring, table, set of hosts and of processes, and every   *)
(* size of a word.                                                         *)
(***************************************************************************)
EXTENDS Network, WellFoundedInduction, SequenceTheorems, TLAPS

\* A nonempty set of naturals has a least element.
LEMMA LeastNat ==
  ASSUME NEW S \in SUBSET Nat, S # {}
  PROVE  \E m \in S : \A k \in S : m <= k
<1>1. IsWellFoundedOn({ss \in Nat \X Nat : ss[1] < ss[2]}, Nat)
  BY NatLessThanWellFounded, Zenon DEF OpToRel
<1>2. PICK m \in S : \A k \in S : <<k, m>> \notin {ss \in Nat \X Nat : ss[1] < ss[2]}
  BY <1>1, WFMin, Zenon
<1>3. \A k \in S : k \in Nat /\ m \in Nat /\ ~ (k < m)
  BY <1>2, Zenon
<1>4. QED
  BY <1>3

IsList(s) == \E S : s \in Seq(S)

SocketState == {"CLOSED", "LISTEN", "SYN_SENT"}
SocketType  == {"none", "STREAM", "DGRAM"}

Sockets == [type : SocketType, state : SocketState,
            local_port : Port \union {0}, remote_ip : Ip \union {0}]
Calls   == [fd : -1 .. NSockets - 1, peer : Ip \union {0}, alone : BOOLEAN]

TypeOK ==
  /\ IsList(arp_table)
  /\ sockets \in [0 .. NSockets - 1 -> Sockets]
  /\ calls \in [Proc -> Calls]
  /\ queued = [n |-> queued.n, ok |-> queued.ok, q |-> queued.q]
  /\ IsList(queued.q)

\* What stands in the table was answered.
TableAnswered ==
  \A i \in 1 .. Len(arp_table) : <<arp_table[i].ip, arp_table[i].mac>> \in answered

\* Frame j of some has the address of its next hop, or is broadcast behind the
\* request for it; the first of all may have lost the request.
Addressed(fs, j) ==
  LET f   == fs[j].packet
      hop == NextHop(f.dest_ip)
  IN  f.kind \in {"icmp", "tcp", "udp"} =>
        \/ <<hop, fs[j].mac>> \in answered
        \/ fs[j].mac = BroadcastMac /\ (j > 1 => fs[j - 1] = ArpRequest(hop))

AddressedBehind(fs, j) ==
  /\ Addressed(fs, j)
  /\ fs[j].packet.kind \in {"icmp", "tcp", "udp"} =>
       j > 1 \/ <<NextHop(fs[j].packet.dest_ip), fs[j].mac>> \in answered

FramesAddressed == \A i \in 1 .. Len(queued.q) : Addressed(queued.q, i)

\* A process that was alone when it connected shares its descriptor with nobody.
Exclusive ==
  \A p \in Proc : calls[p].alone =>
    /\ calls[p].peer # 0 /\ calls[p].fd # -1
    /\ sockets[calls[p].fd].state # "CLOSED" /\ sockets[calls[p].fd].remote_ip = calls[p].peer
    /\ \A o \in Proc \ {p} : calls[o].fd # calls[p].fd

\* A packet of a process goes to its peer, by what its calls were.
Owned(f, c) ==
  f.kind \in {"tcp", "udp"} /\ f.by \in Proc =>
    /\ c[f.by].peer # 0
    /\ c[f.by].alone => f.dest_ip = c[f.by].peer

FramesOwned == \A i \in 1 .. Len(queued.q) : Owned(queued.q[i].packet, calls)

Inv == TypeOK /\ TableAnswered /\ FramesAddressed /\ Exclusive /\ FramesOwned

(***************************************************************************)
(* Sequences.                                                              *)
(***************************************************************************)
LEMMA ConcatIs ==
  ASSUME NEW s, NEW t, IsList(s), IsList(t)
  PROVE  /\ IsList(s \o t) /\ Len(s) \in Nat /\ Len(t) \in Nat
         /\ Len(s \o t) = Len(s) + Len(t)
         /\ \A i \in 1 .. Len(s) + Len(t) :
              (s \o t)[i] = IF i <= Len(s) THEN s[i] ELSE t[i - Len(s)]
<1>1. PICK S : s \in Seq(S)
  BY DEF IsList
<1>2. PICK T : t \in Seq(T)
  BY DEF IsList
<1>3. s \in Seq(S \union T) /\ t \in Seq(S \union T)
  BY <1>1, <1>2
<1>4. QED
  BY <1>3 DEF IsList

LEMMA RestIs ==
  ASSUME NEW s, IsList(s)
  PROVE  LET r == SubSeq(s, 2, Len(s))
         IN  /\ IsList(r) /\ Len(s) \in Nat /\ Len(r) \in Nat
             /\ \A i \in 1 .. Len(r) : i + 1 \in 1 .. Len(s) /\ r[i] = s[i + 1]
<1>1. PICK S : s \in Seq(S)
  BY DEF IsList
<1>2. CASE s = <<>>
  BY <1>2 DEF IsList
<1>3. CASE s # <<>>
  <2>1. Len(s) \in Nat \ {0}
    BY <1>1, <1>3
  <2>2. 2 \in Int /\ Len(s) \in Int /\ \A i \in 2 .. Len(s) : s[i] \in S
    BY <1>1, <2>1
  <2> DEFINE r == SubSeq(s, 2, Len(s))
  <2>3. /\ r \in Seq(S) /\ Len(r) = IF 2 <= Len(s) THEN Len(s) - 2 + 1 ELSE 0
        /\ \A i \in 1 .. Len(s) - 2 + 1 : r[i] = s[2 + i - 1]
    BY <2>2, SubSeqProperties
  <2>4. IsList(r)
    BY <2>3, Zenon DEF IsList
  <2> HIDE DEF r
  <2>5. Len(r) \in Nat /\ \A i \in 1 .. Len(r) : i + 1 \in 1 .. Len(s) /\ r[i] = s[i + 1]
    BY <2>1, <2>3
  <2>6. QED
    BY <2>1, <2>4, <2>5 DEF r
<1>4. QED
  BY <1>2, <1>3

(***************************************************************************)
(* Addresses.                                                              *)
(***************************************************************************)
LEMMA MacIs ==
  ASSUME Inv, NEW ip
  PROVE  MacOf(ip) = BroadcastMac \/ <<ip, MacOf(ip)>> \in answered
<1> DEFINE I == {i \in 1 .. Len(arp_table) : arp_table[i].ip = ip}
<1>1. CASE I = {}
  BY <1>1 DEF MacOf, SelectInSeq
<1>2. CASE I # {}
  <2>1. I \in SUBSET Nat
    OBVIOUS
  <2>2. Min(I) \in I
    BY <1>2, <2>1, LeastNat DEF Min
  <2>3. MacOf(ip) = arp_table[Min(I)].mac /\ arp_table[Min(I)].ip = ip
    BY <1>2, <2>2 DEF MacOf, SelectInSeq
  <2>4. QED
    BY <2>2, <2>3 DEF Inv, TableAnswered
<1>3. QED
  BY <1>1, <1>2

\* The frames of a packet carry it, to the next hop, or ask for that.
LEMMA IpFramesAre ==
  ASSUME Inv, NEW packet
  PROVE  /\ IsList(IpFrames(packet)) /\ Len(IpFrames(packet)) \in Nat
         /\ \A j \in 1 .. Len(IpFrames(packet)) :
              /\ AddressedBehind(IpFrames(packet), j)
              /\ \/ IpFrames(packet)[j].packet = packet
                 \/ IpFrames(packet)[j].packet.kind = "arp_request"
<1> DEFINE hop == NextHop(packet.dest_ip)
           mac == MacOf(hop)
           req == ArpRequest(hop)
           f   == Frame(mac, packet)
<1>1. /\ req.packet.kind = "arp_request" /\ f.packet = packet /\ f.mac = mac
  BY DEF ArpRequest, Frame
<1>2. mac = BroadcastMac \/ <<hop, mac>> \in answered
  BY MacIs
<1>3. IpFrames(packet) = IF mac = BroadcastMac THEN <<req, f>> ELSE <<f>>
  BY DEF IpFrames
<1> HIDE DEF mac, req, f
<1>4. CASE mac = BroadcastMac
  <2>1. IpFrames(packet) = <<req, f>> /\ <<req, f>> \in Seq({req, f})
    BY <1>3, <1>4
  <2>2. /\ Len(IpFrames(packet)) = 2
        /\ IpFrames(packet)[1] = req /\ IpFrames(packet)[2] = f
    BY <2>1
  <2>3. AddressedBehind(IpFrames(packet), 1) /\ AddressedBehind(IpFrames(packet), 2)
    BY <1>1, <1>4, <2>2 DEF AddressedBehind, Addressed, req
  <2>4. IsList(IpFrames(packet))
    BY <2>1, Zenon DEF IsList
  <2>5. \A j \in 1 .. Len(IpFrames(packet)) : j = 1 \/ j = 2
    BY <2>2
  <2>6. QED
    BY <1>1, <2>2, <2>3, <2>4, <2>5
<1>5. CASE mac # BroadcastMac
  <2>1. IpFrames(packet) = <<f>> /\ <<f>> \in Seq({f})
    BY <1>3, <1>5
  <2>2. Len(IpFrames(packet)) = 1 /\ IpFrames(packet)[1] = f
    BY <2>1
  <2>3. AddressedBehind(IpFrames(packet), 1)
    BY <1>1, <1>2, <1>5, <2>2 DEF AddressedBehind, Addressed
  <2>4. IsList(IpFrames(packet))
    BY <2>1, Zenon DEF IsList
  <2>5. \A j \in 1 .. Len(IpFrames(packet)) : j = 1
    BY <2>2
  <2>6. QED
    BY <1>1, <2>2, <2>3, <2>4, <2>5
<1>6. QED
  BY <1>4, <1>5

(***************************************************************************)
(* Sending.                                                                *)
(***************************************************************************)
LEMMA SendingKeeps ==
  ASSUME Inv, NEW frames, IsList(frames), EthSend(frames),
         \A j \in 1 .. Len(frames) : AddressedBehind(frames, j),
         UNCHANGED <<arp_table, answered>>,
         sockets' \in [0 .. NSockets - 1 -> Sockets], calls' \in [Proc -> Calls],
         \A i \in 1 .. Len(queued.q) : Owned(queued.q[i].packet, calls'),
         \A j \in 1 .. Len(frames) : Owned(frames[j].packet, calls')
  PROVE  TypeOK' /\ TableAnswered' /\ FramesAddressed' /\ FramesOwned'
<1> DEFINE s == queued.q \o frames
<1>1. /\ IsList(s) /\ Len(queued.q) \in Nat /\ Len(frames) \in Nat
      /\ Len(s) = Len(queued.q) + Len(frames)
      /\ \A i \in 1 .. Len(queued.q) + Len(frames) :
           s[i] = IF i <= Len(queued.q) THEN queued.q[i] ELSE frames[i - Len(queued.q)]
  BY ConcatIs DEF Inv, TypeOK
<1>2. TableAnswered'
  BY DEF Inv, TableAnswered
<1>3. IsList(arp_table')
  BY DEF Inv, TypeOK
<1>4. \/ queued' = queued
      \/ queued' = [n |-> queued'.n, ok |-> queued'.ok, q |-> queued'.q] /\ queued'.q = s
      \/ queued' = [n |-> queued'.n, ok |-> queued'.ok, q |-> queued'.q] /\ queued'.q = <<>>
  <2> DEFINE ok == queued.ok /\ Len(s) < NUM_TX_DESC
             n  == queued.n + Len(frames)
  <2>1. queued' = queued \/ queued' = [n |-> n, ok |-> ok, q |-> IF ok THEN s ELSE <<>>]
    BY DEF EthSend
  <2> HIDE DEF s, ok, n
  <2>2. QED
    BY <2>1
<1>5. CASE queued' = queued
  <2>1. TypeOK'
    BY <1>3, <1>5 DEF Inv, TypeOK
  <2>2. FramesAddressed' /\ FramesOwned'
    BY <1>5 DEF Inv, FramesAddressed, Addressed, FramesOwned
  <2>3. QED
    BY <1>2, <2>1, <2>2
<1>6. CASE queued' = [n |-> queued'.n, ok |-> queued'.ok, q |-> queued'.q] /\ queued'.q = s
  <2>1. TypeOK'
    BY <1>1, <1>3, <1>6 DEF TypeOK
  <2> HIDE DEF s
  <2>2. ASSUME NEW i \in 1 .. Len(s)
        PROVE  Addressed(s, i) /\ Owned(s[i].packet, calls')
    <3>1. CASE i <= Len(queued.q)
      <4>1. i \in 1 .. Len(queued.q) /\ s[i] = queued.q[i] /\ (i > 1 => s[i - 1] = queued.q[i - 1])
        BY <1>1, <3>1
      <4>2. Addressed(queued.q, i) /\ Owned(queued.q[i].packet, calls')
        BY <4>1 DEF Inv, FramesAddressed
      <4>3. QED
        BY <4>1, <4>2 DEF Addressed
    <3>2. CASE i > Len(queued.q)
      <4> DEFINE j == i - Len(queued.q)
      <4>1. /\ j \in 1 .. Len(frames) /\ s[i] = frames[j]
            /\ j > 1 => i > 1 /\ s[i - 1] = frames[j - 1]
        <5>1. i \in 1 .. Len(queued.q) + Len(frames)
          BY <1>1
        <5>2. j \in 1 .. Len(frames) /\ s[i] = frames[j]
          BY <1>1, <3>2, <5>1
        <5>3. ASSUME j > 1
              PROVE  i > 1 /\ s[i - 1] = frames[j - 1]
          <6>1. /\ i > 1 /\ i - 1 \in 1 .. Len(queued.q) + Len(frames)
                /\ ~ (i - 1 <= Len(queued.q))
            BY <1>1, <3>2, <5>1, <5>3
          <6>2. (i - 1) - Len(queued.q) = j - 1
            BY <1>1, <5>1
          <6> HIDE DEF j
          <6>3. QED
            BY <1>1, <6>1, <6>2
        <5>4. QED
          BY <5>2, <5>3
      <4>2. AddressedBehind(frames, j) /\ Owned(frames[j].packet, calls')
        BY <4>1
      <4> HIDE DEF j
      <4>3. Addressed(s, i)
        BY <4>1, <4>2 DEF AddressedBehind, Addressed
      <4>4. QED
        BY <4>1, <4>2, <4>3
    <3>3. QED
      BY <1>1, <3>1, <3>2
  <2>3. FramesAddressed'
    BY <1>6, <2>2 DEF FramesAddressed, Addressed
  <2>4. FramesOwned'
    BY <1>6, <2>2 DEF FramesOwned
  <2>5. QED
    BY <1>2, <2>1, <2>3, <2>4
<1>7. CASE queued' = [n |-> queued'.n, ok |-> queued'.ok, q |-> queued'.q] /\ queued'.q = <<>>
  <2>1. IsList(queued'.q) /\ Len(queued'.q) = 0
    BY <1>7 DEF IsList
  <2>2. TypeOK'
    BY <1>3, <1>7, <2>1 DEF TypeOK
  <2>3. FramesAddressed' /\ FramesOwned'
    BY <2>1 DEF FramesAddressed, FramesOwned
  <2>4. QED
    BY <1>2, <2>2, <2>3
<1>8. QED
  BY <1>4, <1>5, <1>6, <1>7

\* One packet, as IpFrames sends it.
LEMMA PacketKeeps ==
  ASSUME Inv, NEW packet, EthSend(IpFrames(packet)), UNCHANGED <<arp_table, answered>>,
         sockets' \in [0 .. NSockets - 1 -> Sockets], calls' \in [Proc -> Calls],
         \A i \in 1 .. Len(queued.q) : Owned(queued.q[i].packet, calls'),
         Owned(packet, calls')
  PROVE  TypeOK' /\ TableAnswered' /\ FramesAddressed' /\ FramesOwned'
<1> DEFINE frames == IpFrames(packet)
<1>1. /\ IsList(frames) /\ Len(frames) \in Nat
      /\ \A j \in 1 .. Len(frames) :
           /\ AddressedBehind(frames, j)
           /\ frames[j].packet = packet \/ frames[j].packet.kind = "arp_request"
  BY IpFramesAre
<1>2. \A j \in 1 .. Len(frames) : Owned(frames[j].packet, calls')
  BY <1>1 DEF Owned
<1> HIDE DEF frames
<1>3. EthSend(frames)
  BY DEF frames
<1>4. QED
  BY <1>1, <1>2, <1>3, SendingKeeps

\* Nothing is sent and nothing learned.
LEMMA QuietKeeps ==
  ASSUME Inv, UNCHANGED <<arp_table, answered, queued>>,
         sockets' \in [0 .. NSockets - 1 -> Sockets], calls' \in [Proc -> Calls],
         \A i \in 1 .. Len(queued.q) : Owned(queued.q[i].packet, calls')
  PROVE  TypeOK' /\ TableAnswered' /\ FramesAddressed' /\ FramesOwned'
<1>1. TypeOK'
  BY DEF Inv, TypeOK
<1>2. TableAnswered' /\ FramesAddressed' /\ FramesOwned'
  BY DEF Inv, TableAnswered, FramesAddressed, Addressed, FramesOwned
<1>3. QED
  BY <1>1, <1>2

\* A packet that belongs to no process.
LEMMA ForeignKeeps ==
  ASSUME Inv, NEW packet, EthSend(IpFrames(packet)),
         UNCHANGED <<arp_table, answered, sockets, calls>>,
         packet.kind \in {"tcp", "udp"} => packet.by \notin Proc
  PROVE  Inv'
<1>1. Owned(packet, calls')
  BY DEF Owned
<1>2. /\ \A i \in 1 .. Len(queued.q) : Owned(queued.q[i].packet, calls')
      /\ sockets' \in [0 .. NSockets - 1 -> Sockets] /\ calls' \in [Proc -> Calls]
  BY DEF Inv, FramesOwned, TypeOK
<1>3. TypeOK' /\ TableAnswered' /\ FramesAddressed' /\ FramesOwned'
  BY <1>1, <1>2, PacketKeeps
<1>4. Exclusive'
  BY DEF Inv, Exclusive
<1>5. QED
  BY <1>3, <1>4 DEF Inv

(***************************************************************************)
(* Descriptors.                                                            *)
(***************************************************************************)
LEMMA FreeIs ==
  ASSUME Inv, FreeSockets # {}
  PROVE  FirstFree \in 0 .. NSockets - 1 /\ sockets[FirstFree].state = "CLOSED"
<1>1. DOMAIN sockets = 0 .. NSockets - 1
  BY DEF Inv, TypeOK
<1>2. FreeSockets \in SUBSET Nat
  BY <1>1, SocketsAssumption DEF FreeSockets
<1>3. FirstFree \in FreeSockets
  BY <1>2, LeastNat DEF FirstFree
<1>4. QED
  BY <1>1, <1>3 DEF FreeSockets

\* What socket() takes was closed, so nobody's connection changes.
LEMMA TakenIs ==
  ASSUME Inv, FreeSockets # {}, NEW type \in SocketType,
         sockets' = [sockets EXCEPT ![FirstFree] = FreshSocket(type)]
  PROVE  /\ sockets' \in [0 .. NSockets - 1 -> Sockets]
         /\ \A i \in 0 .. NSockets - 1 :
              sockets[i].state # "CLOSED" => sockets'[i] = sockets[i]
<1>1. FirstFree \in 0 .. NSockets - 1 /\ sockets[FirstFree].state = "CLOSED"
  BY FreeIs
<1>2. FreshSocket(type) \in Sockets
  BY DEF FreshSocket, Sockets, SocketState
<1>3. sockets \in [0 .. NSockets - 1 -> Sockets]
  BY DEF Inv, TypeOK
<1> HIDE DEF Sockets
<1>4. QED
  BY <1>1, <1>2, <1>3

LEMMA SocketKeeps ==
  ASSUME Inv, NEW p \in Proc, NEW type \in {"STREAM", "DGRAM"}, Socket(p, type)
  PROVE  Inv'
<1> DEFINE fd == FirstFree
<1>1. /\ FreeSockets # {} /\ calls[p] = NoCalls
      /\ sockets' = [sockets EXCEPT ![fd] = FreshSocket(type)]
      /\ calls' = [calls EXCEPT ![p].fd = fd]
      /\ UNCHANGED <<arp_table, answered, queued>>
  BY DEF Socket
<1>2. fd \in 0 .. NSockets - 1 /\ sockets[fd].state = "CLOSED"
  BY <1>1, FreeIs
<1>3. type \in SocketType
  BY DEF SocketType
<1>4. /\ sockets' \in [0 .. NSockets - 1 -> Sockets]
      /\ \A i \in 0 .. NSockets - 1 : sockets[i].state # "CLOSED" => sockets'[i] = sockets[i]
  BY <1>1, <1>3, TakenIs
<1> HIDE DEF fd
<1>5. calls \in [Proc -> Calls]
  BY DEF Inv, TypeOK
<1>6. fd \in -1 .. NSockets - 1
  BY <1>2
<1>7. calls' \in [Proc -> Calls]
  BY <1>1, <1>5, <1>6 DEF Calls
<1>8. /\ \A q \in Proc : calls'[q].peer = calls[q].peer /\ calls'[q].alone = calls[q].alone
      /\ \A q \in Proc \ {p} : calls'[q] = calls[q]
      /\ calls'[p].fd = fd /\ calls[p].alone = FALSE
  <2>1. calls' = [calls EXCEPT ![p] = [calls[p] EXCEPT !.fd = fd]] /\ DOMAIN calls = Proc
    BY <1>1, <1>5
  <2>2. \A q \in Proc \ {p} : calls'[q] = calls[q]
    BY <2>1
  <2>3. calls'[p] = [NoCalls EXCEPT !.fd = fd]
    BY <1>1, <2>1
  <2>4. /\ calls'[p].fd = fd /\ calls'[p].peer = calls[p].peer
        /\ calls'[p].alone = calls[p].alone /\ calls[p].alone = FALSE
    BY <1>1, <2>3 DEF NoCalls
  <2>5. QED
    BY <2>2, <2>4, Zenon
<1>9. \A i \in 1 .. Len(queued.q) : Owned(queued.q[i].packet, calls')
  BY <1>8 DEF Inv, FramesOwned, Owned
<1>10. Exclusive'
  <2>1. ASSUME NEW q \in Proc, calls'[q].alone
        PROVE  /\ calls'[q].peer # 0 /\ calls'[q].fd # -1
               /\ sockets'[calls'[q].fd].state # "CLOSED"
               /\ sockets'[calls'[q].fd].remote_ip = calls'[q].peer
               /\ \A o \in Proc \ {q} : calls'[o].fd # calls'[q].fd
    <3>1. q # p /\ calls'[q] = calls[q] /\ calls[q].alone
      BY <1>8, <2>1
    <3>2. /\ calls[q].peer # 0 /\ calls[q].fd # -1
          /\ sockets[calls[q].fd].state # "CLOSED" /\ sockets[calls[q].fd].remote_ip = calls[q].peer
          /\ \A o \in Proc \ {q} : calls[o].fd # calls[q].fd
      BY <3>1 DEF Inv, Exclusive
    <3>3. calls[q].fd \in 0 .. NSockets - 1
      BY <1>5, <3>2, SocketsAssumption DEF Calls
    <3>4. sockets'[calls[q].fd] = sockets[calls[q].fd] /\ calls[q].fd # fd
      BY <1>2, <1>4, <3>2, <3>3
    <3>5. QED
      BY <1>8, <3>1, <3>2, <3>4
  <2>2. QED
    BY <2>1 DEF Exclusive
<1>11. QED
  BY <1>1, <1>4, <1>7, <1>9, <1>10, QuietKeeps DEF Inv

\* A call of a process on its own descriptor that leaves the peer alone.
LEMMA OwnSocketKeeps ==
  ASSUME Inv, UNCHANGED <<calls, arp_table, answered, queued>>,
         sockets' \in [0 .. NSockets - 1 -> Sockets],
         \A i \in 0 .. NSockets - 1 :
           /\ sockets'[i].remote_ip = sockets[i].remote_ip
           /\ sockets[i].state # "CLOSED" => sockets'[i].state # "CLOSED"
  PROVE  Inv'
<1>1. calls \in [Proc -> Calls] /\ \A i \in 1 .. Len(queued.q) : Owned(queued.q[i].packet, calls')
  BY DEF Inv, TypeOK, FramesOwned
<1>2. \A p \in Proc : calls[p].fd # -1 => calls[p].fd \in 0 .. NSockets - 1
  BY <1>1, SocketsAssumption DEF Calls
<1>3. Exclusive'
  BY <1>2 DEF Inv, Exclusive
<1>4. QED
  BY <1>1, <1>3, QuietKeeps DEF Inv

LEMMA BindKeeps ==
  ASSUME Inv, NEW p \in Proc, NEW port \in Port, Bind(p, port)
  PROVE  Inv'
<1> DEFINE fd == calls[p].fd
<1>1. /\ sockets \in [0 .. NSockets - 1 -> Sockets] /\ fd \in -1 .. NSockets - 1
  BY DEF Inv, TypeOK, Calls
<1>2. /\ fd # -1 /\ sockets' = [sockets EXCEPT ![fd].local_port = port]
      /\ UNCHANGED <<calls, arp_table, answered, queued>>
  BY DEF Bind
<1> HIDE DEF fd
<1>3. /\ sockets' \in [0 .. NSockets - 1 -> Sockets]
      /\ \A i \in 0 .. NSockets - 1 :
           sockets'[i].remote_ip = sockets[i].remote_ip /\ sockets'[i].state = sockets[i].state
  BY <1>1, <1>2, SocketsAssumption DEF Sockets
<1>4. QED
  BY <1>2, <1>3, OwnSocketKeeps

LEMMA ListenKeeps ==
  ASSUME Inv, NEW p \in Proc, Listen(p)
  PROVE  Inv'
<1> DEFINE fd == calls[p].fd
<1>1. /\ sockets \in [0 .. NSockets - 1 -> Sockets] /\ fd \in -1 .. NSockets - 1
  BY DEF Inv, TypeOK, Calls
<1>2. /\ fd # -1 /\ sockets' = [sockets EXCEPT ![fd].state = "LISTEN"]
      /\ UNCHANGED <<calls, arp_table, answered, queued>>
  BY DEF Listen
<1> HIDE DEF fd
<1>3. /\ sockets' \in [0 .. NSockets - 1 -> Sockets]
      /\ \A i \in 0 .. NSockets - 1 :
           /\ sockets'[i].remote_ip = sockets[i].remote_ip
           /\ sockets'[i].state = sockets[i].state \/ sockets'[i].state = "LISTEN"
  BY <1>1, <1>2, SocketsAssumption DEF Sockets, SocketState
<1>4. QED
  BY <1>2, <1>3, OwnSocketKeeps

LEMMA ConnectKeeps ==
  ASSUME Inv, NEW p \in Proc, NEW ip \in Ip, Connect(p, ip)
  PROVE  Inv'
<1> DEFINE fd    == calls[p].fd
           f     == TcpPacket(ip, sockets[fd].local_port, SYN, p)
           alone == \A o \in Proc \ {p} : calls[o].fd # fd
<1>1. /\ sockets \in [0 .. NSockets - 1 -> Sockets] /\ calls \in [Proc -> Calls]
      /\ fd \in -1 .. NSockets - 1
  BY DEF Inv, TypeOK, Calls
<1>2. /\ fd # -1 /\ calls[p].peer = 0 /\ EthSend(IpFrames(f))
      /\ sockets' = [sockets EXCEPT ![fd].remote_ip = ip, ![fd].state = "SYN_SENT"]
      /\ calls' = [calls EXCEPT ![p].peer = ip, ![p].alone = alone]
      /\ UNCHANGED <<arp_table, answered>>
  BY DEF Connect
<1>3. f.by = p /\ f.dest_ip = ip
  BY DEF TcpPacket
<1>4. fd \in 0 .. NSockets - 1 /\ alone \in BOOLEAN /\ ip # 0
  BY <1>1, <1>2, SocketsAssumption, ProcessAssumption
<1>5. alone => \A o \in Proc \ {p} : calls[o].fd # fd
  OBVIOUS
<1>6. \A q \in Proc \ {p} : calls[q].alone => calls[q].fd # fd
  BY DEF Inv, Exclusive
<1> HIDE DEF fd, f, alone
<1>7. /\ sockets' \in [0 .. NSockets - 1 -> Sockets]
      /\ sockets'[fd].remote_ip = ip /\ sockets'[fd].state = "SYN_SENT"
      /\ \A i \in 0 .. NSockets - 1 : i # fd => sockets'[i] = sockets[i]
  <2> DEFINE s == sockets[fd]
             t == [s EXCEPT !.remote_ip = ip, !.state = "SYN_SENT"]
  <2>1. sockets' = [sockets EXCEPT ![fd] = t]
    BY <1>1, <1>2, <1>4
  <2>2. s \in Sockets
    BY <1>1, <1>4
  <2> HIDE DEF s
  <2>3. t \in Sockets /\ t.remote_ip = ip /\ t.state = "SYN_SENT"
    BY <2>2 DEF Sockets, SocketState
  <2> HIDE DEF t, Sockets
  <2>4. QED
    BY <1>1, <1>4, <2>1, <2>3
<1>8. /\ calls'[p] = [calls[p] EXCEPT !.peer = ip, !.alone = alone]
      /\ \A q \in Proc \ {p} : calls'[q] = calls[q]
      /\ calls' \in [Proc -> Calls]
  <2>1. calls' = [calls EXCEPT ![p] = [calls[p] EXCEPT !.peer = ip, !.alone = alone]]
    BY <1>1, <1>2
  <2>2. [calls[p] EXCEPT !.peer = ip, !.alone = alone] \in Calls
    BY <1>1, <1>4 DEF Calls
  <2> HIDE DEF Calls
  <2>3. QED
    BY <1>1, <2>1, <2>2
<1>9. calls'[p].peer = ip /\ calls'[p].alone = alone /\ calls'[p].fd = fd
  <2> DEFINE c == calls[p]
             d == [c EXCEPT !.peer = ip, !.alone = alone]
  <2>1. c \in Calls /\ c.fd = fd /\ calls'[p] = d
    BY <1>1, <1>8 DEF fd
  <2> HIDE DEF c
  <2>2. d.peer = ip /\ d.alone = alone /\ d.fd = c.fd
    BY <2>1 DEF Calls
  <2> HIDE DEF d
  <2>3. QED
    BY <2>1, <2>2, Zenon
<1>10. \A i \in 1 .. Len(queued.q) : Owned(queued.q[i].packet, calls')
  BY <1>2, <1>8 DEF Inv, FramesOwned, Owned
<1>11. Owned(f, calls')
  BY <1>3, <1>4, <1>9 DEF Owned
<1>12. TypeOK' /\ TableAnswered' /\ FramesAddressed' /\ FramesOwned'
  BY <1>2, <1>7, <1>8, <1>10, <1>11, PacketKeeps
<1>13. ASSUME NEW q \in Proc, calls'[q].alone
       PROVE  /\ calls'[q].peer # 0 /\ calls'[q].fd # -1
              /\ sockets'[calls'[q].fd].state # "CLOSED"
              /\ sockets'[calls'[q].fd].remote_ip = calls'[q].peer
              /\ \A o \in Proc \ {q} : calls'[o].fd # calls'[q].fd
  <2>1. CASE q = p
    <3>1. alone
      BY <1>9, <1>13, <2>1, Zenon
    <3>2. QED
      BY <1>2, <1>4, <1>5, <1>7, <1>8, <1>9, <2>1, <3>1
  <2>2. CASE q # p
    <3>1. calls'[q] = calls[q] /\ calls[q].alone
      BY <1>8, <1>13, <2>2
    <3>2. /\ calls[q].peer # 0 /\ calls[q].fd # -1 /\ calls[q].fd # fd
          /\ sockets[calls[q].fd].state # "CLOSED" /\ sockets[calls[q].fd].remote_ip = calls[q].peer
          /\ \A o \in Proc \ {q} : calls[o].fd # calls[q].fd
      BY <1>6, <2>2, <3>1 DEF Inv, Exclusive
    <3>3. calls[q].fd \in 0 .. NSockets - 1
      BY <1>1, <3>2, SocketsAssumption DEF Calls
    <3>4. \A o \in Proc \ {q} : calls'[o].fd # calls[q].fd
      BY <1>8, <1>9, <3>2
    <3>5. QED
      BY <1>7, <3>1, <3>2, <3>3, <3>4
  <2>3. QED
    BY <2>1, <2>2
<1>14. Exclusive'
  BY <1>13 DEF Exclusive
<1>15. QED
  BY <1>12, <1>14 DEF Inv

LEMMA SendKeeps ==
  ASSUME Inv, NEW p \in Proc, Send(p)
  PROVE  Inv'
<1> DEFINE s == sockets[calls[p].fd]
           f == IF s.type = "STREAM"
                THEN TcpPacket(s.remote_ip, s.local_port, PSH_ACK, p)
                ELSE UdpPacket(s.remote_ip, s.local_port, p)
<1>1. /\ calls[p].peer # 0 /\ EthSend(IpFrames(f))
      /\ UNCHANGED <<arp_table, answered, sockets, calls>>
  BY DEF Send
<1>2. f.by = p /\ f.dest_ip = s.remote_ip
  BY DEF TcpPacket, UdpPacket
<1>3. calls[p].alone => s.remote_ip = calls[p].peer
  BY DEF Inv, Exclusive
<1> HIDE DEF s, f
<1>4. Owned(f, calls')
  BY <1>1, <1>2, <1>3 DEF Owned
<1>5. /\ \A i \in 1 .. Len(queued.q) : Owned(queued.q[i].packet, calls')
      /\ sockets' \in [0 .. NSockets - 1 -> Sockets] /\ calls' \in [Proc -> Calls]
  BY <1>1 DEF Inv, FramesOwned, TypeOK
<1>6. TypeOK' /\ TableAnswered' /\ FramesAddressed' /\ FramesOwned'
  BY <1>1, <1>4, <1>5, PacketKeeps
<1>7. Exclusive'
  BY <1>1 DEF Inv, Exclusive
<1>8. QED
  BY <1>6, <1>7 DEF Inv

(***************************************************************************)
(* Clients, what arrives, and the card.                                    *)
(***************************************************************************)
LEMMA NtpSyncKeeps ==
  ASSUME Inv, NtpSync
  PROVE  Inv'
<1> DEFINE d == IpFrames(DnsQuery)
           u == UdpPacket(NtpServer, 12345, "ntp")
           n == IpFrames(u)
<1>1. CASE FreeSockets = {}
  <2>1. /\ EthSend(IpFrames(DnsQuery)) /\ UNCHANGED <<arp_table, answered, sockets, calls>>
    BY <1>1 DEF NtpSync
  <2>2. DnsQuery.by \notin Proc
    BY ProcessAssumption DEF DnsQuery, UdpPacket
  <2>3. QED
    BY <2>1, <2>2, ForeignKeeps
<1>2. CASE FreeSockets # {}
  <2>1. /\ EthSend(d \o n) /\ sockets' = [sockets EXCEPT ![FirstFree] = FreshSocket("DGRAM")]
        /\ UNCHANGED <<arp_table, answered, calls>>
    BY <1>2 DEF NtpSync
  <2>2. /\ sockets' \in [0 .. NSockets - 1 -> Sockets]
        /\ \A i \in 0 .. NSockets - 1 : sockets[i].state # "CLOSED" => sockets'[i] = sockets[i]
    BY <1>2, <2>1, TakenIs DEF SocketType
  <2>3. DnsQuery.by \notin Proc /\ u.by \notin Proc
    BY ProcessAssumption DEF DnsQuery, UdpPacket
  <2>4. /\ IsList(d) /\ Len(d) \in Nat
        /\ \A j \in 1 .. Len(d) : AddressedBehind(d, j) /\ Owned(d[j].packet, calls')
    <3>1. /\ IsList(d) /\ Len(d) \in Nat
          /\ \A j \in 1 .. Len(d) :
               AddressedBehind(d, j) /\ (d[j].packet = DnsQuery \/ d[j].packet.kind = "arp_request")
      BY IpFramesAre
    <3>2. QED
      BY <2>3, <3>1 DEF Owned
  <2>5. /\ IsList(n) /\ Len(n) \in Nat
        /\ \A j \in 1 .. Len(n) : AddressedBehind(n, j) /\ Owned(n[j].packet, calls')
    <3>1. /\ IsList(n) /\ Len(n) \in Nat
          /\ \A j \in 1 .. Len(n) :
               AddressedBehind(n, j) /\ (n[j].packet = u \/ n[j].packet.kind = "arp_request")
      BY IpFramesAre
    <3>2. QED
      BY <2>3, <3>1 DEF Owned
  <2> HIDE DEF d, n
  <2> DEFINE s == d \o n
  <2>6. /\ IsList(s) /\ Len(s) = Len(d) + Len(n)
        /\ \A i \in 1 .. Len(d) + Len(n) : s[i] = IF i <= Len(d) THEN d[i] ELSE n[i - Len(d)]
    BY <2>4, <2>5, ConcatIs
  <2> HIDE DEF s
  <2>7. ASSUME NEW i \in 1 .. Len(s)
        PROVE  AddressedBehind(s, i) /\ Owned(s[i].packet, calls')
    <3>1. i \in 1 .. Len(d) + Len(n)
      BY <2>6
    <3>2. CASE i <= Len(d)
      <4>1. i \in 1 .. Len(d) /\ s[i] = d[i] /\ (i > 1 => s[i - 1] = d[i - 1])
        BY <2>4, <2>5, <2>6, <3>1, <3>2
      <4>2. QED
        BY <2>4, <4>1 DEF AddressedBehind, Addressed
    <3>3. CASE i > Len(d)
      <4> DEFINE j == i - Len(d)
      <4>1. j \in 1 .. Len(n) /\ s[i] = n[j]
        BY <2>4, <2>5, <2>6, <3>1, <3>3
      <4>2. ASSUME j > 1
            PROVE  i > 1 /\ s[i - 1] = n[j - 1]
        <5>1. i > 1 /\ i - 1 \in 1 .. Len(d) + Len(n) /\ ~ (i - 1 <= Len(d))
          BY <2>4, <2>5, <3>1, <3>3, <4>2
        <5>2. (i - 1) - Len(d) = j - 1
          BY <2>4, <3>1
        <5> HIDE DEF j
        <5>3. QED
          BY <2>6, <5>1, <5>2
      <4> HIDE DEF j
      <4>3. AddressedBehind(n, j) /\ Owned(n[j].packet, calls')
        BY <2>5, <4>1
      <4>4. AddressedBehind(s, i)
        BY <4>1, <4>2, <4>3 DEF AddressedBehind, Addressed
      <4>5. QED
        BY <4>1, <4>3, <4>4
    <3>4. QED
      BY <2>4, <3>1, <3>2, <3>3
  <2>8. EthSend(s)
    BY <2>1 DEF s
  <2>9. calls' \in [Proc -> Calls] /\ \A i \in 1 .. Len(queued.q) : Owned(queued.q[i].packet, calls')
    BY <2>1 DEF Inv, TypeOK, FramesOwned
  <2>10. TypeOK' /\ TableAnswered' /\ FramesAddressed' /\ FramesOwned'
    BY <2>1, <2>2, <2>6, <2>7, <2>8, <2>9, SendingKeeps
  <2>11. calls \in [Proc -> Calls] /\ \A p \in Proc : calls[p].fd # -1 => calls[p].fd \in 0 .. NSockets - 1
    <3>1. calls \in [Proc -> Calls]
      BY DEF Inv, TypeOK
    <3>2. QED
      BY <3>1, SocketsAssumption DEF Calls
  <2>12. Exclusive'
    BY <2>1, <2>2, <2>11 DEF Inv, Exclusive
  <2>13. QED
    BY <2>10, <2>12 DEF Inv
<1>3. QED
  BY <1>1, <1>2

LEMMA ClientKeeps ==
  ASSUME Inv, DnsResolve \/ DhcpDiscover \/ \E ip \in EchoHost, id \in EchoId : IcmpEcho(ip, id)
  PROVE  Inv'
<1>1. CASE DnsResolve
  <2>1. DnsQuery.by \notin Proc
    BY ProcessAssumption DEF DnsQuery, UdpPacket
  <2>2. QED
    BY <1>1, <2>1, ForeignKeeps DEF DnsResolve
<1>2. CASE DhcpDiscover
  <2>1. UdpPacket(Limited, 68, "dhcp").by \notin Proc
    BY ProcessAssumption DEF UdpPacket
  <2>2. QED
    BY <1>2, <2>1, ForeignKeeps DEF DhcpDiscover
<1>3. ASSUME NEW ip \in EchoHost, NEW id \in EchoId, IcmpEcho(ip, id)
      PROVE  Inv'
  <2>1. IcmpPacket(ip, 8, id).kind = "icmp"
    BY DEF IcmpPacket
  <2>2. QED
    BY <1>3, <2>1, ForeignKeeps DEF IcmpEcho
<1>4. QED
  BY <1>1, <1>2, <1>3

LEMMA ReceiveIcmpKeeps ==
  ASSUME Inv, NEW ip, NEW id, NEW dest, ReceiveIcmp(ip, id, dest)
  PROVE  Inv'
<1> DEFINE f == EchoReply(IcmpPacket(ip, 8, id))
<1>1. f.kind = "icmp"
  BY DEF EchoReply, IcmpPacket
<1>2. EthSend(IpFrames(f)) /\ UNCHANGED <<arp_table, answered, sockets, calls>>
  BY DEF ReceiveIcmp
<1> HIDE DEF f
<1>3. QED
  BY <1>1, <1>2, ForeignKeeps

\* What was answered stays answered, so nothing sent before is disturbed.
LEMMA ReceiveArpReplyKeeps ==
  ASSUME Inv, NEW ip, NEW mac, ReceiveArpReply(ip, mac)
  PROVE  Inv'
<1> DEFINE e == [ip |-> ip, mac |-> mac]
<1>1. /\ arp_table' = arp_table \/ arp_table' = Append(arp_table, e)
      /\ answered' = answered \union {<<ip, mac>>}
      /\ UNCHANGED <<sockets, calls, queued>>
  BY DEF ReceiveArpReply, ArpAdd
<1>2. e.ip = ip /\ e.mac = mac
  OBVIOUS
<1> HIDE DEF e
<1>3. PICK S : arp_table \in Seq(S)
  BY DEF Inv, TypeOK, IsList
<1>4. ASSUME arp_table' = Append(arp_table, e)
      PROVE  IsList(arp_table') /\ TableAnswered'
  <2>1. /\ arp_table \in Seq(S \union {e}) /\ e \in S \union {e}
    BY <1>3
  <2>2. /\ arp_table' \in Seq(S \union {e}) /\ Len(arp_table) \in Nat
        /\ Len(arp_table') = Len(arp_table) + 1
        /\ \A i \in 1 .. Len(arp_table) : arp_table'[i] = arp_table[i]
        /\ arp_table'[Len(arp_table) + 1] = e
    BY <1>4, <2>1
  <2>3. IsList(arp_table')
    BY <2>2, Zenon DEF IsList
  <2>4. ASSUME NEW i \in 1 .. Len(arp_table')
        PROVE  <<arp_table'[i].ip, arp_table'[i].mac>> \in answered'
    <3>1. i \in 1 .. Len(arp_table) \/ i = Len(arp_table) + 1
      BY <2>2
    <3>2. CASE i \in 1 .. Len(arp_table)
      BY <1>1, <2>2, <3>2 DEF Inv, TableAnswered
    <3>3. CASE i = Len(arp_table) + 1
      BY <1>1, <1>2, <2>2, <3>3
    <3>4. QED
      BY <3>1, <3>2, <3>3
  <2>5. QED
    BY <2>3, <2>4 DEF TableAnswered
<1>5. ASSUME arp_table' = arp_table
      PROVE  IsList(arp_table') /\ TableAnswered'
  BY <1>1, <1>5 DEF Inv, TypeOK, TableAnswered
<1>6. TypeOK'
  BY <1>1, <1>4, <1>5 DEF Inv, TypeOK
<1>7. FramesAddressed' /\ Exclusive' /\ FramesOwned'
  <2>1. FramesAddressed'
    BY <1>1 DEF Inv, FramesAddressed, Addressed
  <2>2. Exclusive' /\ FramesOwned'
    BY <1>1 DEF Inv, Exclusive, FramesOwned
  <2>3. QED
    BY <2>1, <2>2
<1>8. QED
  BY <1>1, <1>4, <1>5, <1>6, <1>7 DEF Inv

LEMMA ReceiveArpRequestKeeps ==
  ASSUME Inv, NEW ip, NEW mac, NEW target, ReceiveArpRequest(ip, mac, target)
  PROVE  Inv'
<1> DEFINE f      == ArpReply(mac, ip)
           frames == <<f>>
<1>1. f.packet.kind = "arp_reply"
  BY DEF ArpReply, Frame
<1>2. EthSend(frames) /\ UNCHANGED <<arp_table, answered, sockets, calls>>
  BY DEF ReceiveArpRequest
<1> HIDE DEF f
<1>3. frames \in Seq({f}) /\ Len(frames) = 1 /\ frames[1] = f
  OBVIOUS
<1> HIDE DEF frames
<1>4. IsList(frames)
  BY <1>3, Zenon DEF IsList
<1>5. \A j \in 1 .. Len(frames) : AddressedBehind(frames, j) /\ Owned(frames[j].packet, calls')
  BY <1>1, <1>3 DEF AddressedBehind, Addressed, Owned
<1>6. /\ \A i \in 1 .. Len(queued.q) : Owned(queued.q[i].packet, calls')
      /\ sockets' \in [0 .. NSockets - 1 -> Sockets] /\ calls' \in [Proc -> Calls]
  BY <1>2 DEF Inv, FramesOwned, TypeOK
<1>7. TypeOK' /\ TableAnswered' /\ FramesAddressed' /\ FramesOwned'
  BY <1>2, <1>4, <1>5, <1>6, SendingKeeps
<1>8. Exclusive'
  BY <1>2 DEF Inv, Exclusive
<1>9. QED
  BY <1>7, <1>8 DEF Inv

\* The frame behind the one that left is the first now.
LEMMA CardTransmitsKeeps ==
  ASSUME Inv, CardTransmits
  PROVE  Inv'
<1> DEFINE q == queued.q
           r == SubSeq(q, 2, Len(q))
<1>1. /\ queued' = [queued EXCEPT !.q = IF queued.ok THEN r ELSE q]
      /\ UNCHANGED <<arp_table, answered, sockets, calls>>
  BY DEF CardTransmits
<1>2. /\ IsList(r) /\ Len(q) \in Nat /\ Len(r) \in Nat
      /\ \A i \in 1 .. Len(r) : i + 1 \in 1 .. Len(q) /\ r[i] = q[i + 1]
  BY RestIs DEF Inv, TypeOK
<1>3. queued = [n |-> queued.n, ok |-> queued.ok, q |-> q]
  BY DEF Inv, TypeOK
<1>4. IsList(q)
  BY DEF Inv, TypeOK
<1> HIDE DEF r
<1>5. queued' = [n |-> queued'.n, ok |-> queued'.ok, q |-> queued'.q] /\ (queued'.q = r \/ queued'.q = q)
  BY <1>1, <1>3
<1>6. TypeOK'
  BY <1>1, <1>2, <1>4, <1>5 DEF Inv, TypeOK
<1>7. TableAnswered' /\ Exclusive'
  BY <1>1 DEF Inv, TableAnswered, Exclusive
<1>8. CASE queued'.q = q
  BY <1>1, <1>6, <1>7, <1>8 DEF Inv, FramesAddressed, Addressed, FramesOwned
<1>9. CASE queued'.q = r
  <2>1. \A i \in 1 .. Len(q) : Addressed(q, i) /\ Owned(q[i].packet, calls)
    BY DEF Inv, FramesAddressed, FramesOwned
  <2> HIDE DEF q
  <2>2. ASSUME NEW i \in 1 .. Len(r)
        PROVE  Addressed(r, i) /\ Owned(r[i].packet, calls)
    <3>1. Addressed(q, i + 1) /\ Owned(q[i + 1].packet, calls) /\ r[i] = q[i + 1]
      BY <1>2, <2>1
    <3>2. i > 1 => i + 1 > 1 /\ r[i - 1] = q[(i + 1) - 1]
      <4>1. (i + 1) - 1 = i
        BY <1>2
      <4>2. ASSUME i > 1
            PROVE  r[i - 1] = q[i]
        <5>1. i - 1 \in 1 .. Len(r) /\ (i - 1) + 1 = i
          BY <1>2, <4>2
        <5>2. QED
          BY <1>2, <5>1
      <4>3. QED
        BY <1>2, <4>1, <4>2
    <3>3. QED
      BY <3>1, <3>2 DEF Addressed
  <2>3. FramesAddressed'
    BY <1>1, <1>9, <2>2 DEF FramesAddressed, Addressed
  <2>4. FramesOwned'
    BY <1>1, <1>9, <2>2 DEF FramesOwned
  <2>5. QED
    BY <1>6, <1>7, <2>3, <2>4 DEF Inv
<1>10. QED
  BY <1>5, <1>8, <1>9

(***************************************************************************)
(* The invariant and what follows from it.                                 *)
(***************************************************************************)
LEMMA InitInv ==
  ASSUME Init
  PROVE  Inv
<1>1. arp_table = <<>> /\ IsList(arp_table) /\ Len(arp_table) = 0
  BY DEF Init, IsList
<1>2. /\ queued = [n |-> queued.n, ok |-> queued.ok, q |-> queued.q]
      /\ IsList(queued.q) /\ Len(queued.q) = 0
  BY DEF Init, IsList
<1>3. /\ sockets \in [0 .. NSockets - 1 -> Sockets]
  BY DEF Init, FreshSocket, Sockets, SocketState, SocketType
<1>4. calls \in [Proc -> Calls] /\ \A p \in Proc : calls[p].alone = FALSE
  BY SocketsAssumption DEF Init, NoCalls, Calls
<1>5. QED
  BY <1>1, <1>2, <1>3, <1>4
     DEF Inv, TypeOK, TableAnswered, FramesAddressed, Exclusive, FramesOwned

LEMMA NextInv ==
  ASSUME Inv, [Next]_vars
  PROVE  Inv'
<1>1. CASE NetworkInit \/ UNCHANGED vars
  <2>1. UNCHANGED <<arp_table, sockets, calls, queued, answered>>
    BY <1>1 DEF NetworkInit, vars
  <2>2. /\ \A i \in 1 .. Len(queued.q) : Owned(queued.q[i].packet, calls')
        /\ sockets' \in [0 .. NSockets - 1 -> Sockets] /\ calls' \in [Proc -> Calls]
    BY <2>1 DEF Inv, FramesOwned, TypeOK
  <2>3. QED
    BY <2>1, <2>2, QuietKeeps DEF Inv, Exclusive
<1>2. ASSUME NEW p \in Proc, SocketCall(p)
      PROVE  Inv'
  BY <1>2, SocketKeeps, BindKeeps, ListenKeeps, ConnectKeeps, SendKeeps DEF SocketCall
<1>3. CASE ClientCall
  BY <1>3, ClientKeeps, NtpSyncKeeps DEF ClientCall
<1>4. CASE Receive
  BY <1>4, ReceiveArpReplyKeeps, ReceiveArpRequestKeeps DEF Receive
<1>5. CASE ReceiveEcho
  BY <1>5, ReceiveIcmpKeeps DEF ReceiveEcho
<1>6. CASE CardTransmits
  BY <1>6, CardTransmitsKeeps
<1>7. QED
  BY <1>1, <1>2, <1>3, <1>4, <1>5, <1>6 DEF Next

LEMMA InvAlways == Spec => []Inv
<1>1. QED
  BY InitInv, NextInv, PTL DEF Spec

\* A unicast frame is for an interface that answered for the next hop, and a
\* broadcast one follows the request for it: arp_lookup, ip_send, arp_add.
THEOREM NetworkNextHopAnswered == Spec => []NextHopAnswered
<1>1. ASSUME Inv
      PROVE  NextHopAnswered
  <2>1. DOMAIN queued.q = 1 .. Len(queued.q)
    BY <1>1 DEF Inv, TypeOK, IsList
  <2>2. QED
    BY <1>1, <2>1 DEF Inv, FramesAddressed, Addressed, NextHop, NextHopAnswered
<1>2. QED
  BY <1>1, InvAlways, PTL

\* What a process that connected on a descriptor of its own sends goes to its
\* peer, whatever other processes and ntp_sync do with the table of sockets.
THEOREM NetworkDataReachesPeer == Spec => []DataReachesPeer
<1>1. ASSUME Inv
      PROVE  DataReachesPeer
  <2>1. DOMAIN queued.q = 1 .. Len(queued.q)
    BY <1>1 DEF Inv, TypeOK, IsList
  <2>2. QED
    BY <1>1, <2>1 DEF Inv, FramesOwned, Owned, DataReachesPeer
<1>2. QED
  BY <1>1, InvAlways, PTL
(***************************************************************************)
(* The transmit ring.                                                      *)
(***************************************************************************)
Slots == 0 .. NUM_TX_DESC - 1

\* A card whose driver and register agree on the tail.
CardOK(c) ==
  /\ c = [slot |-> c.slot, tx_cur |-> c.tx_cur, tdt |-> c.tdt, tdh |-> c.tdh]
  /\ c.slot = [i \in Slots |-> c.slot[i]]
  /\ c.tx_cur \in Slots /\ c.tdh \in Slots /\ c.tdt = c.tx_cur

\* Its ring, from TDH up to TDT, holds the first n elements of s.
Holds(c, s, n) ==
  /\ n = (c.tdt - c.tdh) % NUM_TX_DESC
  /\ \A i \in 1 .. n : c.slot[(c.tdh + i - 1) % NUM_TX_DESC] = s[i]

RingInv == CardOK(card) /\ (queued.ok => Holds(card, queued.q, Len(queued.q)))

\* Positions on the ring without the remainder.
LEMMA Around ==
  /\ \A a \in 0 .. 2 * NUM_TX_DESC - 1 :
       a % NUM_TX_DESC = IF a < NUM_TX_DESC THEN a ELSE a - NUM_TX_DESC
  /\ \A a \in Slots, b \in Slots :
       (a - b) % NUM_TX_DESC = IF a >= b THEN a - b ELSE a - b + NUM_TX_DESC
<1> DEFINE N == NUM_TX_DESC
<1>1. N \in Nat \ {0}
  BY RingAssumption
<1> HIDE DEF N
<1>2. ASSUME NEW a \in 0 .. 2 * N - 1
      PROVE  a % N = IF a < N THEN a ELSE a - N
  <2>1. CASE a < N
    BY <1>1, <2>1
  <2>2. CASE a >= N
    <3>1. a = 1 * N + (a - N) /\ a - N \in 0 .. N - 1
      BY <1>1, <2>2
    <3>2. QED
      BY <1>1, <2>2, <3>1
  <2>3. QED
    BY <1>1, <2>1, <2>2
<1>3. ASSUME NEW a \in 0 .. N - 1, NEW b \in 0 .. N - 1
      PROVE  (a - b) % N = IF a >= b THEN a - b ELSE a - b + N
  <2> DEFINE d == a - b
  <2>1. d \in Int /\ -N < d /\ d < N
    BY <1>1
  <2>2. \A x \in Int : -N < x /\ x < N => x % N = IF x >= 0 THEN x ELSE x + N
    BY <1>1
  <2>3. d % N = IF d >= 0 THEN d ELSE d + N
    BY <2>1, <2>2
  <2>4. QED
    BY <1>1, <2>3
<1>4. QED
  BY <1>2, <1>3 DEF N, Slots

\* The position behind t.
LEMMA Behind ==
  ASSUME NEW t \in Slots
  PROVE  /\ (t + 1) % NUM_TX_DESC \in Slots
         /\ (t + 1) % NUM_TX_DESC = IF t + 1 < NUM_TX_DESC THEN t + 1 ELSE 0
<1>1. NUM_TX_DESC \in Nat \ {0} /\ t + 1 \in 0 .. 2 * NUM_TX_DESC - 1
  BY RingAssumption DEF Slots
<1>2. \A a \in 0 .. 2 * NUM_TX_DESC - 1 :
       a % NUM_TX_DESC = IF a < NUM_TX_DESC THEN a ELSE a - NUM_TX_DESC
  BY Around
<1> DEFINE p == t + 1
           u == p % NUM_TX_DESC
<1> HIDE DEF p
<1>3. u = IF p < NUM_TX_DESC THEN p ELSE p - NUM_TX_DESC
  BY <1>1, <1>2 DEF p
<1> HIDE DEF u
<1>4. u \in Slots /\ u = IF t + 1 < NUM_TX_DESC THEN t + 1 ELSE 0
  BY <1>1, <1>3 DEF Slots, p
<1>5. QED
  BY <1>4 DEF u, p

\* The n positions from h up to t, when t is moved by one.
LEMMA Grow ==
  ASSUME NEW t \in Slots, NEW h \in Slots, NEW n \in Nat,
         n = (t - h) % NUM_TX_DESC, n + 1 < NUM_TX_DESC
  PROVE  /\ n + 1 = (((t + 1) % NUM_TX_DESC) - h) % NUM_TX_DESC
         /\ (h + (n + 1) - 1) % NUM_TX_DESC = t
         /\ \A i \in 1 .. n : (h + i - 1) % NUM_TX_DESC \in Slots \ {t}
<1> DEFINE N == NUM_TX_DESC
           u == (t + 1) % N
<1>1. N \in Nat \ {0} /\ t \in 0 .. N - 1 /\ h \in 0 .. N - 1
  BY RingAssumption DEF Slots
<1>2. n = IF t >= h THEN t - h ELSE t - h + N
  BY Around
<1>3. u \in 0 .. N - 1 /\ u = IF t + 1 < N THEN t + 1 ELSE 0
  BY Behind DEF Slots
<1>4. (u - h) % N = IF u >= h THEN u - h ELSE u - h + N
  BY <1>3, Around DEF Slots
<1>5. \A p \in 0 .. 2 * N - 1 : p % N = IF p < N THEN p ELSE p - N
  BY Around
<1> HIDE DEF u, N
<1>6. n + 1 = (u - h) % N
  BY <1>1, <1>2, <1>3, <1>4 DEF N
<1>7. ASSUME NEW i \in 1 .. n + 1
      PROVE  /\ (h + i - 1) % N \in 0 .. N - 1
             /\ (h + i - 1) % N = t <=> i = n + 1
  <2> DEFINE p == h + i - 1
  <2>1. p \in 0 .. 2 * N - 1
    BY <1>1 DEF N
  <2>2. p % N = IF p < N THEN p ELSE p - N
    BY <1>5, <2>1
  <2>3. (IF p < N THEN p ELSE p - N) \in 0 .. N - 1
    BY <1>1, <2>1
  <2>4. (IF p < N THEN p ELSE p - N) = t <=> i = n + 1
    BY <1>1, <1>2 DEF N
  <2>5. QED
    BY <2>2, <2>3, <2>4
<1>8. n + 1 \in 1 .. n + 1 /\ \A i \in 1 .. n : i \in 1 .. n + 1 /\ i # n + 1
  OBVIOUS
<1>9. QED
  BY <1>6, <1>7, <1>8 DEF u, N, Slots

\* The n positions from h up to t, when h is moved by one.
LEMMA Shrink ==
  ASSUME NEW t \in Slots, NEW h \in Slots \ {t}, NEW n, n = (t - h) % NUM_TX_DESC
  PROVE  /\ n \in Nat \ {0}
         /\ n - 1 = (t - ((h + 1) % NUM_TX_DESC)) % NUM_TX_DESC
         /\ \A i \in 1 .. n - 1 :
              /\ (((h + 1) % NUM_TX_DESC) + i - 1) % NUM_TX_DESC = (h + (i + 1) - 1) % NUM_TX_DESC
              /\ (h + (i + 1) - 1) % NUM_TX_DESC \in Slots \ {h}
<1> DEFINE N == NUM_TX_DESC
           u == (h + 1) % N
<1>1. N \in Nat \ {0} /\ t \in 0 .. N - 1 /\ h \in 0 .. N - 1
  BY RingAssumption DEF Slots
<1>2. n = IF t >= h THEN t - h ELSE t - h + N
  BY Around
<1>3. u \in 0 .. N - 1 /\ u = IF h + 1 < N THEN h + 1 ELSE 0
  BY Behind DEF Slots
<1>4. (t - u) % N = IF t >= u THEN t - u ELSE t - u + N
  BY <1>3, Around DEF Slots
<1>5. \A p \in 0 .. 2 * N - 1 : p % N = IF p < N THEN p ELSE p - N
  BY Around
<1> HIDE DEF u, N
<1>6. n \in Nat \ {0} /\ n < N /\ n - 1 = (t - u) % N
  BY <1>1, <1>2, <1>3, <1>4 DEF N
<1>7. ASSUME NEW i \in 1 .. n - 1
      PROVE  /\ (u + i - 1) % N = (h + (i + 1) - 1) % N
             /\ (h + (i + 1) - 1) % N \in Slots \ {h}
  <2> DEFINE p == u + i - 1
             o == h + (i + 1) - 1
             pn == IF p < N THEN p ELSE p - N
             on == IF o < N THEN o ELSE o - N
  <2>1. p \in 0 .. 2 * N - 1 /\ o \in 0 .. 2 * N - 1
    BY <1>1, <1>3, <1>6
  <2>2. p % N = pn /\ o % N = on
    BY <1>5, <2>1
  <2>3. pn = on /\ on \in 0 .. N - 1 /\ on # h
    BY <1>1, <1>3, <1>6
  <2>4. QED
    BY <2>2, <2>3 DEF N, Slots
<1>8. QED
  BY <1>6, <1>7 DEF u, N

\* e1000_send_packet: the frame behind the others, while they do not fill the ring.
LEMMA SendPacketHolds ==
  ASSUME NEW c, CardOK(c), NEW f
  PROVE  /\ CardOK(SendPacket(c, f)) /\ SendPacket(c, f).tdh = c.tdh
         /\ \A s, n : /\ n \in Nat /\ n + 1 < NUM_TX_DESC /\ Holds(c, s, n) /\ s[n + 1] = f
                      => Holds(SendPacket(c, f), s, n + 1)
<1> DEFINE d    == SendPacket(c, f)
           next == (c.tx_cur + 1) % NUM_TX_DESC
           sl   == [c.slot EXCEPT ![c.tx_cur] = f]
<1>1. c.tx_cur \in Slots /\ c.tdh \in Slots /\ c.tdt = c.tx_cur
  BY DEF CardOK
<1>2. next \in Slots
  BY <1>1, Behind
<1>3. d.slot = sl /\ d.tx_cur = next /\ d.tdt = next /\ d.tdh = c.tdh
  BY DEF SendPacket, CardOK
<1>4. d = [slot |-> d.slot, tx_cur |-> d.tx_cur, tdt |-> d.tdt, tdh |-> d.tdh]
  <2>1. d = [c EXCEPT !.slot = sl, !.tx_cur = next, !.tdt = next]
    BY DEF SendPacket
  <2> HIDE DEF d, sl, next
  <2>2. PICK b, t, e, h : c = [slot |-> b, tx_cur |-> t, tdt |-> e, tdh |-> h]
    BY DEF CardOK
  <2>3. d = [slot |-> sl, tx_cur |-> next, tdt |-> next, tdh |-> h]
    BY <2>1, <2>2
  <2>4. QED
    BY <2>3
<1>5. c.slot = [i \in Slots |-> c.slot[i]]
  BY DEF CardOK
<1> HIDE DEF d
<1>6. /\ d.slot = [i \in Slots |-> d.slot[i]] /\ d.slot[c.tx_cur] = f
      /\ \A i \in Slots \ {c.tx_cur} : d.slot[i] = c.slot[i]
  BY <1>1, <1>3, <1>5
<1> HIDE DEF next
<1>7. CardOK(d)
  BY <1>1, <1>2, <1>3, <1>4, <1>6 DEF CardOK
<1>8. ASSUME NEW s, NEW n \in Nat, n + 1 < NUM_TX_DESC, Holds(c, s, n), s[n + 1] = f
      PROVE  Holds(d, s, n + 1)
  <2>1. n = (c.tx_cur - c.tdh) % NUM_TX_DESC
    BY <1>1, <1>8 DEF Holds
  <2>2. /\ n + 1 = (next - c.tdh) % NUM_TX_DESC
        /\ (c.tdh + (n + 1) - 1) % NUM_TX_DESC = c.tx_cur
        /\ \A i \in 1 .. n : (c.tdh + i - 1) % NUM_TX_DESC \in Slots \ {c.tx_cur}
    BY <1>1, <1>8, <2>1, Grow DEF next
  <2>3. ASSUME NEW i \in 1 .. n + 1
        PROVE  d.slot[(d.tdh + i - 1) % NUM_TX_DESC] = s[i]
    <3>1. CASE i = n + 1
      BY <1>3, <1>6, <1>8, <2>2, <3>1
    <3>2. CASE i \in 1 .. n
      <4>1. c.slot[(c.tdh + i - 1) % NUM_TX_DESC] = s[i]
        BY <1>8, <3>2 DEF Holds
      <4>2. QED
        BY <1>3, <1>6, <2>2, <3>2, <4>1
    <3>3. QED
      BY <1>8, <3>1, <3>2
  <2>4. QED
    BY <1>3, <2>2, <2>3 DEF Holds
<1>9. QED
  BY <1>3, <1>7, <1>8 DEF d

\* The cards after the first n frames were sent, one after the other.
IsAfter(g, fs, n) ==
  g = [i \in 0 .. n |-> IF i = 0 THEN card ELSE SendPacket(g[i - 1], fs[i])]

LEMMA AfterExists ==
  ASSUME NEW fs, NEW n \in Nat
  PROVE  \E g : IsAfter(g, fs, n)
<1> DEFINE S == {k \in Nat : ~ \E g : IsAfter(g, fs, k)}
<1>1. SUFFICES ASSUME S # {} PROVE FALSE
  OBVIOUS
<1>2. PICK m \in S : \A k \in S : m <= k
  BY <1>1, LeastNat
<1>3. m # 0
  <2> DEFINE g == [i \in 0 .. 0 |-> card]
  <2>1. g = [i \in 0 .. 0 |-> IF i = 0 THEN card ELSE SendPacket(g[i - 1], fs[i])]
    OBVIOUS
  <2>2. IsAfter(g, fs, 0)
    BY <2>1 DEF IsAfter
  <2>3. QED
    BY <2>2
<1>4. m \in Nat /\ m - 1 \in Nat /\ m - 1 \notin S
  BY <1>2, <1>3
<1>5. PICK g : IsAfter(g, fs, m - 1)
  BY <1>4
<1> DEFINE h == [i \in 0 .. m |-> IF i = m THEN SendPacket(g[m - 1], fs[m]) ELSE g[i]]
<1>6. ASSUME NEW i \in 0 .. m
      PROVE  h[i] = IF i = 0 THEN card ELSE SendPacket(h[i - 1], fs[i])
  <2>1. CASE i = m
    <3>1. m - 1 \in 0 .. m /\ m - 1 # m
      BY <1>4
    <3>2. h[m - 1] = g[m - 1]
      BY <3>1
    <3>3. h[m] = SendPacket(g[m - 1], fs[m])
      BY <1>4
    <3>4. QED
      BY <1>3, <2>1, <3>2, <3>3
  <2>2. CASE i # m
    <3>1. i \in 0 .. m - 1 /\ (i # 0 => i - 1 \in 0 .. m /\ i - 1 # m)
      BY <1>4, <2>2
    <3>2. h[i] = g[i] /\ (i # 0 => h[i - 1] = g[i - 1])
      BY <2>2, <3>1
    <3>3. g[i] = IF i = 0 THEN card ELSE SendPacket(g[i - 1], fs[i])
      BY <1>5, <3>1 DEF IsAfter
    <3> HIDE DEF h
    <3>4. QED
      BY <3>2, <3>3
  <2>3. QED
    BY <2>1, <2>2
<1>7. h = [i \in 0 .. m |-> h[i]]
  OBVIOUS
<1> HIDE DEF h
<1>8. IsAfter(h, fs, m)
  BY <1>6, <1>7 DEF IsAfter
<1>9. QED
  BY <1>2, <1>8

\* Sent is the last of them.
LEMMA SentIsAfter ==
  ASSUME NEW fs, Len(fs) \in Nat
  PROVE  \E g : IsAfter(g, fs, Len(fs)) /\ Sent(fs) = g[Len(fs)]
<1> DEFINE g == CHOOSE g : IsAfter(g, fs, Len(fs))
<1>1. IsAfter(g, fs, Len(fs))
  BY AfterExists
<1>2. Sent(fs) = g[Len(fs)]
  BY DEF Sent, IsAfter
<1>3. QED
  BY <1>1, <1>2

\* What eth_send was given is behind what the ring held.
LEMMA SentHolds ==
  ASSUME CardOK(card), NEW q, NEW fs, IsList(q), IsList(fs)
  PROVE  /\ CardOK(Sent(fs))
         /\ Holds(card, q, Len(q)) /\ Len(q \o fs) < NUM_TX_DESC =>
              Holds(Sent(fs), q \o fs, Len(q \o fs))
<1> DEFINE s == q \o fs
           n == Len(fs)
           l == Len(q)
<1>1. /\ l \in Nat /\ n \in Nat /\ Len(s) = l + n
      /\ \A i \in 1 .. l + n : s[i] = IF i <= l THEN q[i] ELSE fs[i - l]
  BY ConcatIs
<1>2. PICK g : IsAfter(g, fs, n) /\ Sent(fs) = g[n]
  BY <1>1, SentIsAfter
<1> HIDE DEF s, n, l
<1> DEFINE Good(k) == /\ CardOK(g[k])
                      /\ Holds(card, q, l) /\ l + n < NUM_TX_DESC => Holds(g[k], s, l + k)
           Bad     == {k \in 0 .. n : ~ Good(k)}
<1>3. g[0] = card /\ \A k \in 1 .. n : g[k] = SendPacket(g[k - 1], fs[k])
  BY <1>1, <1>2 DEF IsAfter
<1>4. Good(0)
  <2>1. ASSUME Holds(card, q, l) PROVE Holds(g[0], s, l + 0)
    <3>1. \A i \in 1 .. l : i \in 1 .. l + n /\ i <= l /\ s[i] = q[i]
      BY <1>1
    <3>2. l + 0 = l
      BY <1>1
    <3>3. QED
      BY <1>3, <2>1, <3>1, <3>2 DEF Holds
  <2>2. QED
    BY <1>3, <2>1
<1>5. ASSUME NEW k \in 1 .. n, Good(k - 1) PROVE Good(k)
  <2> DEFINE c == g[k - 1]
  <2>1. g[k] = SendPacket(c, fs[k])
    BY <1>3
  <2>2. CardOK(c)
    BY <1>5
  <2> HIDE DEF c
  <2>3. CardOK(g[k])
    BY <2>1, <2>2, SendPacketHolds
  <2>4. ASSUME Holds(card, q, l), l + n < NUM_TX_DESC
        PROVE  Holds(g[k], s, l + k)
    <3> DEFINE j == l + (k - 1)
    <3>1. /\ j \in Nat /\ j + 1 < NUM_TX_DESC /\ j + 1 = l + k
      BY <1>1, <2>4, RingAssumption
    <3>2. s[l + k] = fs[k]
      <4>1. l + k \in 1 .. l + n /\ ~ (l + k <= l) /\ l + k - l = k
        BY <1>1
      <4>2. QED
        BY <1>1, <4>1
    <3>3. Holds(c, s, j)
      BY <1>5, <2>4 DEF c
    <3> HIDE DEF j
    <3>4. s[j + 1] = fs[k]
      BY <3>1, <3>2
    <3>5. Holds(g[k], s, j + 1)
      BY <2>1, <2>2, <3>1, <3>3, <3>4, SendPacketHolds
    <3>6. QED
      BY <3>1, <3>5
  <2>5. QED
    BY <2>3, <2>4
<1> HIDE DEF Good
<1>6. Bad = {}
  <2>1. SUFFICES ASSUME Bad # {} PROVE FALSE
    OBVIOUS
  <2>2. Bad \in SUBSET Nat
    BY <1>1
  <2>3. PICK k \in Bad : \A i \in Bad : k <= i
    BY <2>1, <2>2, LeastNat
  <2>4. k \in 1 .. n
    BY <1>1, <1>4, <2>3
  <2>5. k - 1 \in 0 .. n /\ ~ (k <= k - 1)
    BY <1>1, <2>4
  <2>6. Good(k - 1)
    BY <2>3, <2>5
  <2>7. QED
    BY <1>5, <2>3, <2>4, <2>6
<1>7. Good(n)
  BY <1>1, <1>6
<1>8. QED
  BY <1>1, <1>2, <1>7 DEF Good, s, l

LEMMA EthSendRing ==
  ASSUME Inv, RingInv, NEW frames, IsList(frames), EthSend(frames)
  PROVE  RingInv'
<1> DEFINE s  == queued.q \o frames
           ok == queued.ok /\ Len(s) < NUM_TX_DESC
           n  == queued.n + Len(frames)
<1>1. \/ UNCHANGED <<card, queued>>
      \/ card' = Sent(frames) /\ queued' = [n |-> n, ok |-> ok, q |-> IF ok THEN s ELSE <<>>]
  BY DEF EthSend
<1>2. CASE UNCHANGED <<card, queued>>
  BY <1>2 DEF RingInv
<1>3. CASE card' = Sent(frames) /\ queued' = [n |-> n, ok |-> ok, q |-> IF ok THEN s ELSE <<>>]
  <2>1. IsList(queued.q)
    BY DEF Inv, TypeOK
  <2>2. /\ CardOK(Sent(frames))
        /\ Holds(card, queued.q, Len(queued.q)) /\ Len(s) < NUM_TX_DESC =>
             Holds(Sent(frames), s, Len(s))
    BY <2>1, SentHolds DEF RingInv
  <2>3. queued'.ok => ok /\ queued'.q = s
    BY <1>3
  <2> HIDE DEF s
  <2>4. QED
    BY <1>3, <2>2, <2>3 DEF RingInv
<1>4. QED
  BY <1>1, <1>2, <1>3

LEMMA CardTransmitsRing ==
  ASSUME Inv, RingInv, CardTransmits
  PROVE  RingInv'
<1> DEFINE q == queued.q
           r == SubSeq(q, 2, Len(q))
           h == (card.tdh + 1) % NUM_TX_DESC
           d == card'
           sl == [card.slot EXCEPT ![card.tdh] = NoFrame]
<1>1. /\ card.tdh # card.tdt
      /\ card' = [card EXCEPT !.slot[card.tdh] = NoFrame, !.tdh = h]
      /\ queued' = [queued EXCEPT !.q = IF queued.ok THEN r ELSE q]
  BY DEF CardTransmits
<1>2. card.tdt \in Slots /\ card.tdh \in Slots \ {card.tdt} /\ card.tx_cur = card.tdt
  BY <1>1 DEF RingInv, CardOK
<1>3. h \in Slots
  BY <1>2, Behind
<1>4. /\ d.slot = sl /\ d.tx_cur = card.tdt /\ d.tdt = card.tdt /\ d.tdh = h
      /\ d = [slot |-> d.slot, tx_cur |-> d.tx_cur, tdt |-> d.tdt, tdh |-> d.tdh]
  BY <1>1, <1>2 DEF RingInv, CardOK
<1>5. card.slot = [i \in Slots |-> card.slot[i]]
  BY DEF RingInv, CardOK
<1> HIDE DEF d, h
<1>6. /\ d.slot = [i \in Slots |-> d.slot[i]]
      /\ \A i \in Slots \ {card.tdh} : d.slot[i] = card.slot[i]
  BY <1>2, <1>4, <1>5
<1>7. CardOK(d)
  BY <1>2, <1>3, <1>4, <1>6 DEF CardOK
<1>8. /\ Len(q) \in Nat /\ Len(r) \in Nat
      /\ \A i \in 1 .. Len(r) : i + 1 \in 1 .. Len(q) /\ r[i] = q[i + 1]
  BY RestIs DEF Inv, TypeOK
<1>9. queued = [n |-> queued.n, ok |-> queued.ok, q |-> q]
  BY DEF Inv, TypeOK
<1>10. ASSUME queued'.ok
       PROVE  Holds(d, queued'.q, Len(queued'.q))
  <2>1. queued.ok /\ queued'.q = r
    BY <1>1, <1>9, <1>10
  <2>2. Holds(card, q, Len(q))
    BY <2>1 DEF RingInv
  <2>3. Len(q) = (card.tdt - card.tdh) % NUM_TX_DESC
    BY <2>2 DEF Holds
  <2>4. /\ Len(q) \in Nat \ {0}
        /\ Len(q) - 1 = (card.tdt - h) % NUM_TX_DESC
        /\ \A i \in 1 .. Len(q) - 1 :
             /\ (h + i - 1) % NUM_TX_DESC = (card.tdh + (i + 1) - 1) % NUM_TX_DESC
             /\ (card.tdh + (i + 1) - 1) % NUM_TX_DESC \in Slots \ {card.tdh}
    BY <1>2, <2>3, Shrink DEF h
  <2>5. Len(r) = Len(q) - 1
    <3>1. PICK S : q \in Seq(S)
      BY DEF Inv, TypeOK, IsList
    <3>2. 2 \in Int /\ Len(q) \in Int /\ \A i \in 2 .. Len(q) : q[i] \in S
      BY <2>4, <3>1
    <3>3. Len(r) = IF 2 <= Len(q) THEN Len(q) - 2 + 1 ELSE 0
      BY <3>2, SubSeqProperties
    <3> HIDE DEF r
    <3>4. QED
      BY <2>4, <3>3
  <2> HIDE DEF q, r
  <2>6. ASSUME NEW i \in 1 .. Len(r)
        PROVE  d.slot[(d.tdh + i - 1) % NUM_TX_DESC] = r[i]
    <3>1. i \in 1 .. Len(q) - 1 /\ i + 1 \in 1 .. Len(q) /\ r[i] = q[i + 1]
      BY <1>8, <2>5
    <3>2. card.slot[(card.tdh + (i + 1) - 1) % NUM_TX_DESC] = q[i + 1]
      BY <2>2, <3>1 DEF Holds
    <3>3. QED
      BY <1>4, <1>6, <2>4, <3>1, <3>2
  <2>7. QED
    BY <1>4, <2>1, <2>4, <2>5, <2>6 DEF Holds
<1>11. QED
  BY <1>7, <1>10 DEF RingInv, d

LEMMA InitRing == ASSUME Init PROVE RingInv
<1>1. queued.q = <<>> /\ Len(queued.q) = 0
  BY DEF Init
<1>2. /\ card = [slot |-> [i \in Slots |-> NoFrame], tx_cur |-> 0, tdt |-> 0, tdh |-> 0]
      /\ 0 \in Slots
  BY RingAssumption DEF Init, Slots
<1>3. CardOK(card)
  BY <1>2 DEF CardOK
<1>4. (0 - 0) % NUM_TX_DESC = 0
  BY <1>2, Around
<1>5. Holds(card, queued.q, 0)
  BY <1>2, <1>4 DEF Holds
<1>6. QED
  BY <1>1, <1>3, <1>5 DEF RingInv

LEMMA NextRing ==
  ASSUME Inv, RingInv, [Next]_vars
  PROVE  RingInv'
<1>1. ASSUME NEW packet, EthSend(IpFrames(packet)) PROVE RingInv'
  BY <1>1, IpFramesAre, EthSendRing
<1>2. ASSUME UNCHANGED <<card, queued>> PROVE RingInv'
  BY <1>2 DEF RingInv
<1>3. ASSUME NEW p \in Proc, SocketCall(p) PROVE RingInv'
  <2>1. UNCHANGED <<card, queued>> \/ \E packet : EthSend(IpFrames(packet))
    BY <1>3, Zenon DEF SocketCall, Socket, Bind, Listen, Connect, Send
  <2>2. QED
    BY <1>1, <1>2, <2>1
<1>4. CASE NtpSync
  <2> DEFINE d == IpFrames(DnsQuery)
             n == IpFrames(UdpPacket(NtpServer, 12345, "ntp"))
  <2>1. EthSend(d) \/ EthSend(d \o n)
    BY <1>4 DEF NtpSync
  <2>2. IsList(d) /\ IsList(n)
    BY IpFramesAre
  <2> HIDE DEF d, n
  <2>3. IsList(d \o n)
    BY <2>2, ConcatIs
  <2>4. QED
    BY <2>1, <2>2, <2>3, EthSendRing
<1>5. CASE ClientCall
  <2>1. NtpSync \/ \E packet : EthSend(IpFrames(packet))
    BY <1>5, Zenon DEF ClientCall, DnsResolve, DhcpDiscover, IcmpEcho
  <2>2. QED
    BY <1>1, <1>4, <2>1
<1>6. ASSUME NEW ip, NEW mac, ReceiveArpRequest(ip, mac, MyIp) PROVE RingInv'
  <2> DEFINE f == ArpReply(mac, ip)
  <2>1. EthSend(<<f>>)
    BY <1>6 DEF ReceiveArpRequest
  <2> HIDE DEF f
  <2>2. <<f>> \in Seq({f})
    OBVIOUS
  <2>3. IsList(<<f>>)
    BY <2>2, Zenon DEF IsList
  <2>4. QED
    BY <2>1, <2>3, EthSendRing
<1>7. CASE Receive
  BY <1>2, <1>6, <1>7 DEF Receive, ReceiveArpReply
<1>8. CASE ReceiveEcho
  BY <1>1, <1>8 DEF ReceiveEcho, ReceiveIcmp
<1>9. CASE CardTransmits
  BY <1>9, CardTransmitsRing
<1>10. CASE NetworkInit \/ UNCHANGED vars
  BY <1>2, <1>10 DEF NetworkInit, vars
<1>11. QED
  BY <1>3, <1>5, <1>7, <1>8, <1>9, <1>10 DEF Next

\* As long as the ring was never full, what is between TDH and TDT are the
\* frames that were sent and are not on the wire yet, in order.
THEOREM NetworkRingInOrder == Spec => []RingInOrder
<1>1. ASSUME Inv, RingInv
      PROVE  RingInOrder
  <2> DEFINE q == queued.q
  <2>1. q = [i \in 1 .. Len(q) |-> q[i]]
    BY <1>1 DEF Inv, TypeOK, IsList
  <2> HIDE DEF q
  <2>2. ASSUME queued.ok
        PROVE  q = [i \in 1 .. ((card.tdt - card.tdh) % NUM_TX_DESC)
                      |-> card.slot[(card.tdh + i - 1) % NUM_TX_DESC]]
    <3>1. Holds(card, q, Len(q))
      BY <1>1, <2>2 DEF RingInv, q
    <3>2. QED
      BY <2>1, <3>1 DEF Holds
  <2>3. QED
    BY <2>2 DEF RingInOrder, q
<1>2. Inv /\ RingInv /\ [Next]_vars => RingInv'
  BY NextRing
<1>3. Init => RingInv
  BY InitRing
<1>4. QED
  BY <1>1, <1>2, <1>3, InvAlways, PTL DEF Spec
(***************************************************************************)
(* Checksums.                                                              *)
(***************************************************************************)
\* As Word, in the form the arithmetic below is fast with.
IsWord(x) == x \in Nat /\ x <= 65535

LEMMA WordSizeIs == WordSize = 65536
  BY SMT DEF WordSize

LEMMA WordIs ==
  ASSUME NEW x \in Word
  PROVE  IsWord(x)
  BY WordSizeIs, SMT DEF Word, IsWord

\* Large literals are beyond Zenon.
LEMMA MaxSumIs == MaxSum \in Nat /\ MaxSum >= 524288
  BY SMT DEF MaxSum

\* The sums up to n, folded.
IsFolded(g, n) ==
  g = [s \in 0 .. n |-> IF s < WordSize THEN s ELSE g[Carried(s)]]

\* Adding the carry makes a sum smaller, leaves it above 0 and keeps its
\* remainder modulo 65535.
LEMMA CarryAdded ==
  ASSUME NEW s \in Nat, s >= WordSize
  PROVE  LET t == Carried(s)
         IN  t \in Nat /\ 1 <= t /\ t <= s - 1 /\ \E k \in Nat : s = t + 65535 * k
<1> DEFINE q == s \div 65536
           r == s % 65536
<1>1. q \in Nat
  BY SMT
<1>2. r \in Nat /\ r <= 65535
  BY SMT
<1>3. s = 65536 * q + r
  BY SMT
<1>4. s >= 65536 /\ Carried(s) = r + q
  BY WordSizeIs DEF Carried
<1> HIDE DEF q, r
<1>5. r + q \in Nat /\ 1 <= r + q /\ r + q <= s - 1 /\ s = (r + q) + 65535 * q
  BY <1>1, <1>2, <1>3, <1>4, SMT
<1>6. QED
  BY <1>1, <1>4, <1>5

LEMMA FoldedExists ==
  ASSUME NEW n \in Nat
  PROVE  \E g : IsFolded(g, n)
<1> DEFINE S == {k \in Nat : ~ \E g : IsFolded(g, k)}
<1>1. SUFFICES ASSUME S # {} PROVE FALSE
  OBVIOUS
<1>2. PICK m \in S : \A k \in S : m <= k
  BY <1>1, LeastNat
<1>3. ASSUME NEW s \in Nat, s >= WordSize
      PROVE  Carried(s) \in Nat /\ 1 <= Carried(s) /\ Carried(s) <= s - 1
  BY <1>3, CarryAdded
<1>4. WordSize \in Nat /\ WordSize > 1
  BY WordSizeIs
<1>5. m # 0
  <2> DEFINE g == [s \in 0 .. 0 |-> s]
  <2>1. \A s \in 0 .. 0 : s < WordSize
    BY <1>4
  <2>2. g = [s \in 0 .. 0 |-> IF s < WordSize THEN s ELSE g[Carried(s)]]
    BY <2>1
  <2> HIDE DEF g
  <2>3. IsFolded(g, 0)
    BY <2>2 DEF IsFolded
  <2>4. QED
    BY <2>3
<1>6. m \in Nat /\ m - 1 \in Nat /\ m - 1 \notin S
  BY <1>2, <1>5
<1>7. PICK g : IsFolded(g, m - 1)
  BY <1>6
<1> DEFINE h == [s \in 0 .. m |->
                   IF s < m THEN g[s] ELSE IF m < WordSize THEN m ELSE g[Carried(m)]]
<1>8. \A s \in 0 .. m - 1 : g[s] = IF s < WordSize THEN s ELSE g[Carried(s)]
  BY <1>7 DEF IsFolded
<1>9. ASSUME NEW s \in 0 .. m
      PROVE  h[s] = IF s < WordSize THEN s ELSE h[Carried(s)]
  <2>1. ~ (s < WordSize) => Carried(s) \in 0 .. m /\ Carried(s) < m /\ h[Carried(s)] = g[Carried(s)]
    <3>1. ASSUME ~ (s < WordSize) PROVE Carried(s) \in 0 .. m /\ Carried(s) < m
      BY <1>3, <1>4, <1>6, <3>1
    <3>2. \A x \in 0 .. m : x < m => h[x] = g[x]
      OBVIOUS
    <3>3. QED
      BY <3>1, <3>2
  <2>2. CASE s = m
    <3>1. h[s] = IF m < WordSize THEN m ELSE g[Carried(m)]
      BY <1>6, <2>2
    <3>2. QED
      BY <2>1, <2>2, <3>1
  <2>3. CASE s < m
    <3>1. h[s] = g[s] /\ s \in 0 .. m - 1
      BY <1>6, <2>3
    <3>2. g[s] = IF s < WordSize THEN s ELSE g[Carried(s)]
      BY <1>8, <3>1
    <3> HIDE DEF h
    <3>3. QED
      BY <2>1, <3>1, <3>2
  <2>4. QED
    BY <1>6, <2>2, <2>3
<1>10. h = [s \in 0 .. m |-> h[s]]
  OBVIOUS
<1> HIDE DEF h
<1>11. h = [s \in 0 .. m |-> IF s < WordSize THEN s ELSE h[Carried(s)]]
  BY <1>9, <1>10
<1>12. IsFolded(h, m)
  BY <1>11 DEF IsFolded
<1>13. QED
  BY <1>2, <1>12

LEMMA FoldedStep ==
  ASSUME NEW x \in 0 .. MaxSum
  PROVE  Folded[x] = IF x < WordSize THEN x ELSE Folded[Carried(x)]
<1>1. \E g : IsFolded(g, MaxSum)
  BY MaxSumIs, FoldedExists
<1>2. Folded = CHOOSE g : IsFolded(g, MaxSum)
  BY Zenon DEF Folded, IsFolded
<1> HIDE DEF Folded
<1>3. IsFolded(Folded, MaxSum)
  BY <1>1, <1>2
<1>4. QED
  BY <1>3 DEF IsFolded

\* What is left of a sum: a word, 0 only for 0, with the remainder of the sum.
FoldedRight(s, v) == IsWord(v) /\ (v = 0 => s = 0) /\ \E k \in Nat : s = v + 65535 * k

LEMMA FoldedIs ==
  ASSUME NEW s \in 0 .. MaxSum
  PROVE  FoldedRight(s, Folded[s])
<1> DEFINE Bad == {x \in 0 .. MaxSum : ~ FoldedRight(x, Folded[x])}
<1>1. ASSUME NEW x \in 0 .. MaxSum, \A y \in 0 .. MaxSum : y < x => FoldedRight(y, Folded[y])
      PROVE  FoldedRight(x, Folded[x])
  <2>1. x \in Nat /\ x <= MaxSum
    BY MaxSumIs
  <2>2. CASE x < WordSize
    <3>1. Folded[x] = x
      BY <2>2, FoldedStep
    <3>2. IsWord(x) /\ x = x + 65535 * 0 /\ 0 \in Nat
      BY <2>1, <2>2, WordSizeIs, SMT DEF IsWord
    <3>3. QED
      BY <3>1, <3>2 DEF FoldedRight
  <2>3. CASE ~ (x < WordSize)
    <3> DEFINE t == Carried(x)
    <3>1. t \in Nat /\ 1 <= t /\ t <= x - 1 /\ \E k \in Nat : x = t + 65535 * k
      BY <2>1, <2>3, WordSizeIs, CarryAdded
    <3>2. Folded[x] = Folded[t]
      BY <2>1, <2>3, FoldedStep
    <3> HIDE DEF t
    <3>3. t \in 0 .. MaxSum /\ t < x
      BY <2>1, <3>1, MaxSumIs
    <3> DEFINE v == Folded[t]
    <3>4. FoldedRight(t, v)
      BY <1>1, <3>3
    <3> HIDE DEF v
    <3>5. PICK j \in Nat : t = v + 65535 * j
      BY <3>4 DEF FoldedRight
    <3>6. PICK k \in Nat : x = t + 65535 * k
      BY <3>1
    <3>7. v \in Nat /\ v <= 65535 /\ (v = 0 => t = 0)
      BY <3>4 DEF FoldedRight, IsWord
    <3> DEFINE n == j + k
    <3>8. n \in Nat /\ x = v + 65535 * n
      BY <2>1, <3>1, <3>5, <3>6, <3>7, SMT
    <3> HIDE DEF n
    <3>9. v # 0
      BY <3>1, <3>7
    <3>10. FoldedRight(x, v)
      BY <3>7, <3>8, <3>9, SMT DEF FoldedRight, IsWord
    <3>11. QED
      BY <3>2, <3>10 DEF v
  <2>4. QED
    BY <2>1, <2>2, <2>3
<1>2. Bad = {}
  <2>1. SUFFICES ASSUME Bad # {} PROVE FALSE
    OBVIOUS
  <2>2. Bad \in SUBSET Nat
    BY MaxSumIs
  <2> HIDE DEF Bad
  <2>3. PICK x \in Bad : \A y \in Bad : x <= y
    BY <2>1, <2>2, LeastNat
  <2>4. x \in 0 .. MaxSum /\ ~ FoldedRight(x, Folded[x])
    BY <2>3 DEF Bad
  <2>5. ASSUME NEW y \in 0 .. MaxSum, y < x
        PROVE  FoldedRight(y, Folded[y])
    <3>1. y \notin Bad
      BY <2>2, <2>3, <2>5, MaxSumIs
    <3>2. QED
      BY <3>1 DEF Bad
  <2>6. QED
    BY <1>1, <2>4, <2>5
<1>3. QED
  BY <1>2

\* A sum and the complement of what is left of it are left with 0xFFFF.
LEMMA SumVerifies ==
  ASSUME NEW s \in Nat, s <= 458752
  PROVE  /\ IsWord(65535 - Folded[s])
         /\ Folded[s + (65535 - Folded[s])] = 65535
<1> DEFINE v == Folded[s]
           y == s + (65535 - v)
<1>1. s \in 0 .. MaxSum
  BY MaxSumIs, SMT
<1>2. FoldedRight(s, v)
  BY <1>1, FoldedIs
<1> HIDE DEF v
<1>3. v \in Nat /\ v <= 65535
  BY <1>2 DEF FoldedRight, IsWord
<1>4. PICK k \in Nat : s = v + 65535 * k
  BY <1>2 DEF FoldedRight
<1>5. y \in Nat /\ y <= 524288 /\ y # 0 /\ y = 65535 * (k + 1)
  BY <1>3, <1>4, SMT
<1> HIDE DEF y
<1> DEFINE w == Folded[y]
<1>6. y \in 0 .. MaxSum
  BY <1>5, MaxSumIs
<1>7. FoldedRight(y, w)
  BY <1>6, FoldedIs
<1> HIDE DEF w
<1>8. w \in Nat /\ w <= 65535 /\ w # 0
  BY <1>5, <1>7 DEF FoldedRight, IsWord
<1>9. PICK j \in Nat : y = w + 65535 * j
  BY <1>7 DEF FoldedRight
<1>10. 65535 * (k + 1) = w + 65535 * j
  BY <1>5, <1>9
<1>11. w = 65535
  BY <1>8, <1>10, SMT
<1>12. IsWord(65535 - v)
  BY <1>3, SMT DEF IsWord
<1>13. QED
  BY <1>11, <1>12 DEF w, y, v

\* The sums of the first words.
IsSum(g, words, n) == g = [i \in 0 .. n |-> IF i = 0 THEN 0 ELSE g[i - 1] + words[i]]

LEMMA SumExists ==
  ASSUME NEW words, NEW n \in Nat
  PROVE  \E g : IsSum(g, words, n)
<1> DEFINE S == {k \in Nat : ~ \E g : IsSum(g, words, k)}
<1>1. SUFFICES ASSUME S # {} PROVE FALSE
  OBVIOUS
<1>2. PICK m \in S : \A k \in S : m <= k
  BY <1>1, LeastNat
<1>3. m # 0
  <2> DEFINE g == [i \in 0 .. 0 |-> 0]
  <2>1. g = [i \in 0 .. 0 |-> IF i = 0 THEN 0 ELSE g[i - 1] + words[i]]
    OBVIOUS
  <2>2. IsSum(g, words, 0)
    BY <2>1 DEF IsSum
  <2>3. QED
    BY <2>2
<1>4. m \in Nat /\ m - 1 \in Nat /\ m - 1 \notin S
  BY <1>2, <1>3
<1>5. PICK g : IsSum(g, words, m - 1)
  BY <1>4
<1> DEFINE h == [i \in 0 .. m |-> IF i = m THEN g[m - 1] + words[m] ELSE g[i]]
<1>6. ASSUME NEW i \in 0 .. m
      PROVE  h[i] = IF i = 0 THEN 0 ELSE h[i - 1] + words[i]
  <2>1. CASE i = m
    <3>1. m - 1 \in 0 .. m /\ m - 1 # m
      BY <1>4
    <3>2. h[m - 1] = g[m - 1]
      BY <3>1
    <3>3. h[m] = g[m - 1] + words[m]
      BY <1>4
    <3>4. QED
      BY <1>3, <2>1, <3>2, <3>3
  <2>2. CASE i # m
    <3>1. i \in 0 .. m - 1 /\ (i # 0 => i - 1 \in 0 .. m /\ i - 1 # m)
      BY <1>4, <2>2
    <3>2. h[i] = g[i] /\ (i # 0 => h[i - 1] = g[i - 1])
      BY <2>2, <3>1
    <3>3. g[i] = IF i = 0 THEN 0 ELSE g[i - 1] + words[i]
      BY <1>5, <3>1 DEF IsSum
    <3> HIDE DEF h
    <3>4. QED
      BY <3>2, <3>3
  <2>3. QED
    BY <2>1, <2>2
<1>7. h = [i \in 0 .. m |-> h[i]]
  OBVIOUS
<1> HIDE DEF h
<1>8. IsSum(h, words, m)
  BY <1>6, <1>7 DEF IsSum
<1>9. QED
  BY <1>2, <1>8

LEMMA ChecksumIs ==
  ASSUME NEW words, Len(words) \in Nat
  PROVE  \E g : /\ Checksum(words) = 65535 - Folded[g[Len(words)]]
                /\ g[0] = 0
                /\ \A i \in 1 .. Len(words) : g[i] = g[i - 1] + words[i]
<1> DEFINE g == CHOOSE g : IsSum(g, words, Len(words))
<1>1. IsSum(g, words, Len(words))
  BY SumExists
<1>2. Checksum(words) = 65535 - Folded[g[Len(words)]]
  BY DEF Checksum, IsSum
<1> HIDE DEF g
<1>3. g[0] = 0 /\ \A i \in 1 .. Len(words) : g[i] = g[i - 1] + words[i]
  BY <1>1 DEF IsSum
<1>4. QED
  BY <1>2, <1>3

\* The checksums of an echo message and of a segment.
LEMMA EchoChecksum ==
  ASSUME NEW type \in Word, NEW id \in Word \X Word
  PROVE  Folded[type + id[1] + id[2] + Checksum(<<type>> \o id)] = 65535
<1> DEFINE w == <<type>> \o id
           s == type + id[1] + id[2]
<1>1. PICK a \in Word, b \in Word : id = <<a, b>>
  OBVIOUS
<1>2. /\ <<type>> \in Seq(Word) /\ Len(<<type>>) = 1 /\ <<type>>[1] = type
      /\ id \in Seq(Word) /\ Len(id) = 2 /\ id[1] \in Word /\ id[2] \in Word
  BY <1>1
<1>3. Len(w) = 3 /\ w[1] = type /\ w[2] = id[1] /\ w[3] = id[2]
  <2> DEFINE u == <<type>>
  <2>1. IsList(u) /\ IsList(id)
    BY <1>2, Zenon DEF IsList
  <2>2. Len(u) = 1 /\ u[1] = type
    BY <1>2
  <2> HIDE DEF u
  <2>3. /\ Len(u \o id) = Len(u) + Len(id)
        /\ \A i \in 1 .. Len(u) + Len(id) : (u \o id)[i] = IF i <= Len(u) THEN u[i] ELSE id[i - Len(u)]
    BY <2>1, ConcatIs
  <2>4. Len(u \o id) = 3 /\ (u \o id)[1] = type /\ (u \o id)[2] = id[1] /\ (u \o id)[3] = id[2]
    BY <1>2, <2>2, <2>3
  <2>5. QED
    BY <2>4 DEF u
<1> HIDE DEF w
<1>4. Len(w) \in Nat
  BY <1>3
<1>5. PICK g : /\ Checksum(w) = 65535 - Folded[g[Len(w)]] /\ g[0] = 0
               /\ \A i \in 1 .. Len(w) : g[i] = g[i - 1] + w[i]
  BY <1>4, ChecksumIs
<1>6. /\ IsWord(type) /\ IsWord(id[1]) /\ IsWord(id[2])
  BY <1>2, WordIs
<1>7. g[1] = 0 + type
  <2>1. 1 \in 1 .. Len(w) /\ 1 - 1 = 0
    BY <1>3
  <2>2. QED
    BY <1>3, <1>5, <2>1
<1>8. g[2] = g[1] + id[1]
  <2>1. 2 \in 1 .. Len(w) /\ 2 - 1 = 1
    BY <1>3
  <2>2. QED
    BY <1>3, <1>5, <2>1
<1>9. g[3] = g[2] + id[2]
  <2>1. 3 \in 1 .. Len(w) /\ 3 - 1 = 2
    BY <1>3
  <2>2. QED
    BY <1>3, <1>5, <2>1
<1>10. g[3] = s /\ s \in Nat /\ s <= 458752
  BY <1>6, <1>7, <1>8, <1>9, SMT DEF IsWord
<1>11. Checksum(w) = 65535 - Folded[s]
  BY <1>3, <1>5, <1>10
<1>12. Folded[s + (65535 - Folded[s])] = 65535
  BY <1>10, SumVerifies
<1> HIDE DEF s
<1>13. Folded[s + Checksum(w)] = 65535
  BY <1>11, <1>12
<1>14. QED
  BY <1>13 DEF s, w

FramesVerify == \A i \in 1 .. Len(queued.q) : Verifies(queued.q[i].packet)

\* Only a process with a descriptor has a peer.
Connected == \A p \in Proc : calls[p].peer # 0 => calls[p].fd # -1

SumInv == FramesVerify /\ Connected

LEMMA IcmpVerifies ==
  ASSUME NEW ip, NEW id \in EchoId
  PROVE  Verifies(IcmpPacket(ip, 8, id)) /\ Verifies(EchoReply(IcmpPacket(ip, 8, id)))
<1>1. id \in Word \X Word
  BY WordAssumption
<1>2. 8 \in Word /\ 0 \in Word
  BY WordSizeIs, SMT DEF Word
<1> DEFINE f == IcmpPacket(ip, 8, id)
           s == Checksum(<<8>> \o id)
           t == Checksum(<<0>> \o id)
<1>3. Folded[8 + id[1] + id[2] + s] = 65535 /\ Folded[0 + id[1] + id[2] + t] = 65535
  BY <1>1, <1>2, EchoChecksum
<1> HIDE DEF s, t
<1>4. f = [kind |-> "icmp", dest_ip |-> ip, type |-> 8, id |-> id, sum |-> s]
  BY DEF IcmpPacket, s
<1> HIDE DEF f
<1>5. f.id = id
  BY <1>4
<1>6. EchoReply(f) = [f EXCEPT !.type = 0, !.sum = t]
  BY <1>5 DEF EchoReply, t
<1>7. f.kind = "icmp" /\ f.type = 8 /\ f.sum = s
  BY <1>4
<1>8. /\ EchoReply(f).kind = "icmp" /\ EchoReply(f).type = 0
      /\ EchoReply(f).id = id /\ EchoReply(f).sum = t
  BY <1>4, <1>6
<1>9. Verifies(f) /\ Verifies(EchoReply(f))
  BY <1>3, <1>5, <1>7, <1>8 DEF Verifies
<1>10. QED
  BY <1>9 DEF f

LEMMA TcpVerifies ==
  ASSUME NEW ip \in Word, NEW port \in Word, NEW flags \in {SYN, PSH_ACK}, NEW by
  PROVE  Verifies(TcpPacket(ip, port, flags, by))
<1> DEFINE w == <<MyIp, ip, 6, port, 5 * 4096 + flags, 65535>>
           s == MyIp + ip + 6 + port + 5 * 4096 + flags + 65535
<1>1. IsWord(MyIp) /\ IsWord(ip) /\ IsWord(port)
  BY WordIs, WordAssumption
<1>2. flags \in Nat /\ flags <= 24
  BY SMT DEF SYN, PSH_ACK
<1>3. /\ Len(w) = 6 /\ w[1] = MyIp /\ w[2] = ip /\ w[3] = 6 /\ w[4] = port
      /\ w[5] = 5 * 4096 + flags /\ w[6] = 65535
  OBVIOUS
<1> HIDE DEF w
<1>4. Len(w) \in Nat
  BY <1>3
<1>5. PICK g : /\ Checksum(w) = 65535 - Folded[g[Len(w)]] /\ g[0] = 0
               /\ \A i \in 1 .. Len(w) : g[i] = g[i - 1] + w[i]
  BY <1>4, ChecksumIs
<1>6. g[1] = 0 + MyIp
  <2>1. 1 \in 1 .. Len(w) /\ 1 - 1 = 0
    BY <1>3
  <2>2. QED
    BY <1>3, <1>5, <2>1
<1>7. g[2] = g[1] + ip
  <2>1. 2 \in 1 .. Len(w) /\ 2 - 1 = 1
    BY <1>3
  <2>2. QED
    BY <1>3, <1>5, <2>1
<1>8. g[3] = g[2] + 6
  <2>1. 3 \in 1 .. Len(w) /\ 3 - 1 = 2
    BY <1>3
  <2>2. QED
    BY <1>3, <1>5, <2>1
<1>9. g[4] = g[3] + port
  <2>1. 4 \in 1 .. Len(w) /\ 4 - 1 = 3
    BY <1>3
  <2>2. QED
    BY <1>3, <1>5, <2>1
<1>10. g[5] = g[4] + (5 * 4096 + flags)
  <2>1. 5 \in 1 .. Len(w) /\ 5 - 1 = 4
    BY <1>3
  <2>2. QED
    BY <1>3, <1>5, <2>1
<1>11. g[6] = g[5] + 65535
  <2>1. 6 \in 1 .. Len(w) /\ 6 - 1 = 5
    BY <1>3
  <2>2. QED
    BY <1>3, <1>5, <2>1
<1>12. g[6] = s /\ s \in Nat /\ s <= 458752
  BY <1>1, <1>2, <1>6, <1>7, <1>8, <1>9, <1>10, <1>11, SMT DEF IsWord
<1>13. Checksum(w) = 65535 - Folded[s]
  BY <1>3, <1>5, <1>12
<1>14. Folded[s + (65535 - Folded[s])] = 65535
  BY <1>12, SumVerifies
<1> HIDE DEF s
<1>15. Folded[s + Checksum(w)] = 65535
  BY <1>13, <1>14
<1> DEFINE f == TcpPacket(ip, port, flags, by)
<1>16. /\ f.kind = "tcp" /\ f.dest_ip = ip /\ f.port = port /\ f.flags = flags
       /\ f.sum = Checksum(w)
  BY DEF TcpPacket, w
<1>17. s = MyIp + ip + 6 + port + 5 * 4096 + flags + 65535
  BY DEF s
<1> HIDE DEF f
<1>18. Verifies(f)
  BY <1>15, <1>16, <1>17 DEF Verifies
<1>19. QED
  BY <1>18 DEF f

LEMMA EthSendVerifies ==
  ASSUME Inv, FramesVerify, NEW frames, IsList(frames), EthSend(frames),
         \A j \in 1 .. Len(frames) : Verifies(frames[j].packet)
  PROVE  FramesVerify'
<1> DEFINE s  == queued.q \o frames
           ok == queued.ok /\ Len(s) < NUM_TX_DESC
           n  == queued.n + Len(frames)
<1>1. queued' = queued \/ queued' = [n |-> n, ok |-> ok, q |-> IF ok THEN s ELSE <<>>]
  BY DEF EthSend
<1>2. /\ Len(queued.q) \in Nat /\ Len(frames) \in Nat
      /\ Len(s) = Len(queued.q) + Len(frames)
      /\ \A i \in 1 .. Len(queued.q) + Len(frames) :
           s[i] = IF i <= Len(queued.q) THEN queued.q[i] ELSE frames[i - Len(queued.q)]
  BY ConcatIs DEF Inv, TypeOK
<1> HIDE DEF s, ok, n
<1>3. ASSUME NEW i \in 1 .. Len(s)
      PROVE  Verifies(s[i].packet)
  <2>1. CASE i <= Len(queued.q)
    BY <1>2, <2>1 DEF FramesVerify
  <2>2. CASE i > Len(queued.q)
    <3>1. i - Len(queued.q) \in 1 .. Len(frames) /\ s[i] = frames[i - Len(queued.q)]
      BY <1>2, <2>2
    <3>2. QED
      BY <3>1
  <2>3. QED
    BY <1>2, <2>1, <2>2
<1>4. queued'.q = queued.q \/ queued'.q = s \/ queued'.q = <<>>
  BY <1>1
<1>5. QED
  BY <1>3, <1>4 DEF FramesVerify

LEMMA PacketVerifies ==
  ASSUME Inv, FramesVerify, NEW packet, Verifies(packet), EthSend(IpFrames(packet))
  PROVE  FramesVerify'
<1> DEFINE frames == IpFrames(packet)
<1>1. /\ IsList(frames)
      /\ \A j \in 1 .. Len(frames) :
           frames[j].packet = packet \/ frames[j].packet.kind = "arp_request"
  BY IpFramesAre
<1>2. \A j \in 1 .. Len(frames) : Verifies(frames[j].packet)
  BY <1>1 DEF Verifies
<1> HIDE DEF frames
<1>3. EthSend(frames)
  BY DEF frames
<1>4. QED
  BY <1>1, <1>2, <1>3, EthSendVerifies

LEMMA NextConnected ==
  ASSUME Inv, Connected, [Next]_vars
  PROVE  Connected'
<1>1. calls \in [Proc -> Calls]
  BY DEF Inv, TypeOK
<1>2. ASSUME calls' = calls PROVE Connected'
  BY <1>2 DEF Connected
<1>3. ASSUME NEW p \in Proc, NEW type, Socket(p, type) PROVE Connected'
  <2>1. calls[p].peer = 0 /\ calls' = [calls EXCEPT ![p].fd = FirstFree]
    BY <1>3 DEF Socket, NoCalls
  <2>2. calls'[p].peer = 0 /\ \A o \in Proc \ {p} : calls'[o] = calls[o]
    BY <1>1, <2>1 DEF Calls
  <2>3. QED
    BY <2>2 DEF Connected
<1>4. ASSUME NEW p \in Proc, NEW ip, Connect(p, ip) PROVE Connected'
  <2> DEFINE alone == \A o \in Proc \ {p} : calls[o].fd # calls[p].fd
  <2>1. calls[p].fd # -1 /\ calls' = [calls EXCEPT ![p].peer = ip, ![p].alone = alone]
    BY <1>4 DEF Connect
  <2> HIDE DEF alone
  <2>2. calls'[p].fd = calls[p].fd /\ \A o \in Proc \ {p} : calls'[o] = calls[o]
    BY <1>1, <2>1 DEF Calls
  <2>3. QED
    BY <2>1, <2>2 DEF Connected
<1>5. ASSUME NEW p \in Proc, SocketCall(p) PROVE Connected'
  BY <1>2, <1>3, <1>4, <1>5 DEF SocketCall, Bind, Listen, Send
<1>6. CASE ClientCall
  BY <1>2, <1>6 DEF ClientCall, DnsResolve, DhcpDiscover, NtpSync, IcmpEcho
<1>7. CASE Receive
  BY <1>2, <1>7 DEF Receive, ReceiveArpReply, ReceiveArpRequest
<1>8. CASE ReceiveEcho
  BY <1>2, <1>8 DEF ReceiveEcho, ReceiveIcmp
<1>9. CASE NetworkInit \/ CardTransmits \/ UNCHANGED vars
  BY <1>2, <1>9 DEF NetworkInit, CardTransmits, vars
<1>10. QED
  BY <1>5, <1>6, <1>7, <1>8, <1>9 DEF Next

LEMMA NextVerifies ==
  ASSUME Inv, SumInv, [Next]_vars
  PROVE  FramesVerify'
<1>1. FramesVerify
  BY DEF SumInv
<1>2. 0 \in Word /\ Port \subseteq Word /\ Ip \subseteq Word
  <2>1. 0 \in Word
    BY WordSizeIs, SMT DEF Word
  <2>2. QED
    BY <2>1, WordAssumption
<1>3. /\ calls \in [Proc -> Calls]
       /\ \A i \in 0 .. NSockets - 1 : sockets[i].local_port \in Word /\ sockets[i].remote_ip \in Word
  <2>1. sockets \in [0 .. NSockets - 1 -> Sockets] /\ calls \in [Proc -> Calls]
    BY DEF Inv, TypeOK
  <2>2. \A s \in Sockets : s.local_port \in Word /\ s.remote_ip \in Word
    BY <1>2 DEF Sockets
  <2>3. QED
    BY <2>1, <2>2
<1>4. ASSUME queued' = queued PROVE FramesVerify'
  BY <1>1, <1>4 DEF FramesVerify
<1>5. Verifies(DnsQuery) /\ \A ip, port, by : Verifies(UdpPacket(ip, port, by))
  BY DEF Verifies, DnsQuery, UdpPacket
<1>6. ASSUME NEW p \in Proc, SocketCall(p) PROVE FramesVerify'
  <2>1. ASSUME NEW ip \in Ip, Connect(p, ip) PROVE FramesVerify'
    <3>1. calls[p].fd \in 0 .. NSockets - 1
      BY <1>3, <2>1, SocketsAssumption DEF Calls, Connect
    <3>2. sockets[calls[p].fd].local_port \in Word /\ ip \in Word
      BY <1>2, <1>3, <3>1
    <3>3. Verifies(TcpPacket(ip, sockets[calls[p].fd].local_port, SYN, p))
      BY <3>2, TcpVerifies
    <3>4. QED
      BY <2>1, <3>3, <1>1, PacketVerifies DEF Connect
  <2>2. ASSUME Send(p) PROVE FramesVerify'
    <3> DEFINE s == sockets[calls[p].fd]
    <3>1. calls[p].fd \in 0 .. NSockets - 1
      BY <1>3, <2>2, SocketsAssumption DEF Calls, Send, SumInv, Connected
    <3>2. s.local_port \in Word /\ s.remote_ip \in Word
      BY <1>3, <3>1
    <3>3. /\ Verifies(TcpPacket(s.remote_ip, s.local_port, PSH_ACK, p))
          /\ Verifies(UdpPacket(s.remote_ip, s.local_port, p))
      BY <1>5, <3>2, TcpVerifies
    <3>4. QED
      BY <2>2, <3>3, <1>1, PacketVerifies DEF Send
  <2>3. QED
    BY <1>4, <1>6, <2>1, <2>2 DEF SocketCall, Socket, Bind, Listen
<1>7. CASE NtpSync
  <2> DEFINE u == UdpPacket(NtpServer, 12345, "ntp")
             d == IpFrames(DnsQuery)
             n == IpFrames(u)
             s == d \o n
  <2>1. EthSend(d) \/ EthSend(s)
    BY <1>7 DEF NtpSync
  <2>2. /\ IsList(d) /\ IsList(n)
        /\ \A j \in 1 .. Len(d) : d[j].packet = DnsQuery \/ d[j].packet.kind = "arp_request"
        /\ \A j \in 1 .. Len(n) : n[j].packet = u \/ n[j].packet.kind = "arp_request"
    BY IpFramesAre
  <2>3. /\ \A j \in 1 .. Len(d) : Verifies(d[j].packet)
        /\ \A j \in 1 .. Len(n) : Verifies(n[j].packet)
    BY <1>5, <2>2 DEF Verifies
  <2> HIDE DEF d, n
  <2>4. /\ IsList(s) /\ Len(d) \in Nat /\ Len(n) \in Nat /\ Len(s) = Len(d) + Len(n)
        /\ \A i \in 1 .. Len(d) + Len(n) : s[i] = IF i <= Len(d) THEN d[i] ELSE n[i - Len(d)]
    BY <2>2, ConcatIs
  <2> HIDE DEF s
  <2>5. ASSUME NEW i \in 1 .. Len(s)
        PROVE  Verifies(s[i].packet)
    <3>1. CASE i <= Len(d)
      BY <2>3, <2>4, <3>1
    <3>2. CASE i > Len(d)
      <4>1. i - Len(d) \in 1 .. Len(n) /\ s[i] = n[i - Len(d)]
        BY <2>4, <3>2
      <4>2. QED
        BY <2>3, <4>1
    <3>3. QED
      BY <2>4, <3>1, <3>2
  <2>6. QED
    BY <2>1, <2>2, <2>3, <2>4, <2>5, <1>1, EthSendVerifies
<1>8. CASE ClientCall
  BY <1>5, <1>7, <1>8, IcmpVerifies, <1>1, PacketVerifies DEF ClientCall, DnsResolve, DhcpDiscover, IcmpEcho
<1>9. ASSUME NEW ip, NEW mac, ReceiveArpRequest(ip, mac, MyIp) PROVE FramesVerify'
  <2> DEFINE f == ArpReply(mac, ip)
  <2>1. EthSend(<<f>>)
    BY <1>9 DEF ReceiveArpRequest
  <2>2. Verifies(f.packet)
    BY DEF ArpReply, Frame, Verifies
  <2> HIDE DEF f
  <2>3. <<f>> \in Seq({f}) /\ Len(<<f>>) = 1 /\ <<f>>[1] = f
    OBVIOUS
  <2>4. IsList(<<f>>)
    BY <2>3, Zenon DEF IsList
  <2>5. \A j \in 1 .. Len(<<f>>) : Verifies(<<f>>[j].packet)
    BY <2>2, <2>3
  <2>6. QED
    BY <2>1, <2>4, <2>5, <1>1, EthSendVerifies
<1>10. CASE Receive
  BY <1>4, <1>9, <1>10 DEF Receive, ReceiveArpReply
<1>11. CASE ReceiveEcho
  BY <1>11, IcmpVerifies, <1>1, PacketVerifies DEF ReceiveEcho, ReceiveIcmp
<1>12. CASE CardTransmits
  <2> DEFINE q == queued.q
             r == SubSeq(q, 2, Len(q))
  <2>1. Len(q) \in Nat /\ \A i \in 1 .. Len(r) : i + 1 \in 1 .. Len(q) /\ r[i] = q[i + 1]
    BY RestIs DEF Inv, TypeOK
  <2>2. queued'.q = r \/ queued'.q = q
    BY <1>12 DEF CardTransmits, Inv, TypeOK
  <2> HIDE DEF r
  <2>3. QED
    BY <1>1, <2>1, <2>2 DEF FramesVerify
<1>13. CASE NetworkInit \/ UNCHANGED vars
  BY <1>4, <1>13 DEF NetworkInit, vars
<1>14. QED
  BY <1>6, <1>8, <1>10, <1>11, <1>12, <1>13 DEF Next

\* The receiver's sum over every packet with its checksum is 0xFFFF, for an
\* echo request that was turned into the reply as for what is built afresh.
THEOREM NetworkSumsVerify == Spec => []SumsVerify
<1>1. ASSUME Inv, SumInv
      PROVE  SumsVerify
  <2>1. DOMAIN queued.q = 1 .. Len(queued.q)
    BY <1>1 DEF Inv, TypeOK, IsList
  <2>2. QED
    BY <1>1, <2>1 DEF SumInv, FramesVerify, SumsVerify
<1>2. Init => SumInv
  BY DEF Init, SumInv, FramesVerify, Connected, NoCalls
<1>3. Inv /\ SumInv /\ [Next]_vars => SumInv'
  BY NextVerifies, NextConnected DEF SumInv
<1>4. QED
  BY <1>1, <1>2, <1>3, InvAlways, PTL DEF Spec
=============================================================================
