--------------------------- MODULE NetworkInterface -------------------------
(***************************************************************************)
(* libsponge/network_interface.{hh,cc}: an Ethernet interface that finds   *)
(* the hardware address of the next hop with ARP.                          *)
(*                                                                         *)
(* The code stores the time at which an entry was made and only compares   *)
(* its distance from _current_time; here an entry has that distance, its   *)
(* age.  A frame carries the ARP message or the datagram itself.           *)
(***************************************************************************)
EXTENDS Integers, Sequences, Lists

CONSTANTS
    ARP_VALID_TIME,         \* age at which a mapping is forgotten
    ARP_REQ_BLOCKING_TIME,  \* age at which a request may be repeated
    ETHERNET_BROADCAST      \* the broadcast address

ASSUME InterfaceAssumption ==
    ARP_VALID_TIME \in Nat \ {0} /\ ARP_REQ_BLOCKING_TIME \in Nat \ {0}

EmptyMap == [ip \in {} |-> 0]

NewNetworkInterface(ethernet_address, ip_address) ==
    [eth |-> ethernet_address, ip |-> ip_address, frames_out |-> <<>>,
     mapping |-> EmptyMap, pending |-> <<>>, blocking |-> EmptyMap]

\* unordered_map::insert: an entry that is there stays.
InsertIfAbsent(map, key, value) ==
    [k \in DOMAIN map \cup {key} |-> IF k \in DOMAIN map THEN map[k] ELSE value]

\* The entries that are younger than limit once ms have passed.
Younger(ages, limit, ms) == {ip \in DOMAIN ages : ages[ip] + ms < limit}

ArpFrame(n, dst, opcode, target_ip) ==
    [type |-> "ARP", src |-> n.eth, dst |-> dst, opcode |-> opcode,
     sender_ip |-> n.ip, sender_eth |-> n.eth, target_ip |-> target_ip]

Ipv4Frame(n, dst, dgram) == [type |-> "IPv4", src |-> n.eth, dst |-> dst, dgram |-> dgram]

push_frame(n, frame) == [n EXCEPT !.frames_out = Append(@, frame)]

\* Mutant: a request goes out for every datagram.
request_allowed_Always(n, ip) == TRUE

\* No request for ip went out lately.
request_allowed(n, ip) == ip \notin DOMAIN n.blocking

send_datagram(n, dgram, next_hop) ==
    LET held == [n EXCEPT !.pending = Append(@, [dgram |-> dgram, next_hop |-> next_hop])]
    IN  IF next_hop \in DOMAIN n.mapping
        THEN push_frame(n, Ipv4Frame(n, n.mapping[next_hop].eth, dgram))
        ELSE IF ~request_allowed(n, next_hop) THEN held
        ELSE push_frame([held EXCEPT !.blocking = InsertIfAbsent(@, next_hop, 0)],
                        ArpFrame(n, ETHERNET_BROADCAST, "REQUEST", next_hop))

\* The sender of any ARP message is learnt, unless it is known already.
learn(n, msg) ==
    [n EXCEPT !.mapping = InsertIfAbsent(@, msg.sender_ip, [eth |-> msg.sender_eth, age |-> 0])]

\* What waits for ip moves from the pending list, now in l.rest, to tmp_list.
take(l, e, ip) ==
    IF e.next_hop = ip THEN [l EXCEPT !.tmp_list = Append(@, e)]
                       ELSE [l EXCEPT !.rest = Append(@, e)]

split(list, ip) ==
    ForEach(LAMBDA l, e : take(l, e, ip), [tmp_list |-> <<>>, rest |-> <<>>], list)

resend(n, e) == send_datagram(n, e.dgram, e.next_hop)

\* Mutant: what was held for the next hop is sent and held on.
flush_Keeps(n, ip) == ForEach(resend, n, split(n.pending, ip).tmp_list)

\* Mutant: only the first datagram that was held is sent.
flush_First(n, ip) ==
    LET k == CHOOSE k \in 0 .. Len(n.pending) :
                 /\ k > 0 => n.pending[k].next_hop = ip
                 /\ \A j \in k + 1 .. Len(n.pending) : k = 0 => n.pending[j].next_hop # ip
    IN  IF k = 0 THEN n
        ELSE send_datagram([n EXCEPT !.pending = Erased(@, k)], n.pending[k].dgram, ip)

\* A reply lets go what was held for its sender, in order.
flush(n, ip) ==
    LET l == split(n.pending, ip)
    IN  ForEach(resend, [n EXCEPT !.pending = l.rest], l.tmp_list)

recv_arp(n, msg) ==
    LET known == learn(n, msg)
    IN  CASE msg.opcode = "REPLY" -> flush(known, msg.sender_ip)
          [] msg.opcode = "REQUEST" /\ msg.target_ip = n.ip ->
                 push_frame(known, ArpFrame(n, msg.sender_eth, "REPLY", msg.sender_ip))
          [] OTHER -> known

for_me(n, frame) == frame.dst \in {n.eth, ETHERNET_BROADCAST}

\* The interface after a frame, and the datagrams (one or none) it passes up.
recv_frame(n, frame) ==
    CASE ~for_me(n, frame) -> [nic |-> n, up |-> <<>>]
      [] for_me(n, frame) /\ frame.type = "ARP" -> [nic |-> recv_arp(n, frame), up |-> <<>>]
      [] for_me(n, frame) /\ frame.type = "IPv4" -> [nic |-> n, up |-> <<frame.dgram>>]
      [] OTHER -> [nic |-> n, up |-> <<>>]

NetworkInterface_tick(n, ms) ==
    LET known == Younger([ip \in DOMAIN n.mapping |-> n.mapping[ip].age], ARP_VALID_TIME, ms)
        asked == Younger(n.blocking, ARP_REQ_BLOCKING_TIME, ms)
    IN  [n EXCEPT !.mapping = [ip \in known |-> [n.mapping[ip] EXCEPT !.age = @ + ms]],
                  !.blocking = [ip \in asked |-> n.blocking[ip] + ms]]
=============================================================================
