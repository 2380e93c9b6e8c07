--------------------------- MODULE EthernetFormat ---------------------------
(***************************************************************************)
(* Frames on the wire: ethernet_header.cc, ethernet_frame.cc and           *)
(* arp_message.cc in libsponge/tcp_helpers/, and between them and the      *)
(* frames of NetworkInterface what network_interface.cc does to put a      *)
(* frame together and to take it apart.  An Ethernet address is a sequence *)
(* of six bytes.                                                           *)
(***************************************************************************)
EXTENDS WireFormat, NetworkInterface

ETHERNET_LENGTH == 14
ARP_LENGTH == 28
TYPE_ETHERNET == 1
TYPE_IPv4 == 2048
TYPE_ARP == 2054
OPCODE_REQUEST == 1
OPCODE_REPLY == 2

ZeroAddress == <<0, 0, 0, 0, 0, 0>>

NewEthernetHeader == [dst |-> ZeroAddress, src |-> ZeroAddress, type |-> 0]

\* A frame that is too short leaves the header and the parser as they are.
EthernetHeader_parse(p) ==
    LET Fields(f) == [header |-> [dst |-> f.values[1], src |-> f.values[2], type |-> f.values[3]],
                      p |-> f.p]
    IN  IF Len(p.buffer) < ETHERNET_LENGTH THEN [header |-> NewEthernetHeader, p |-> p]
        ELSE Fields(ParseInts(p, <<6, 6, 2>>))

EthernetHeader_serialize(h) == h.dst \o h.src \o u16(h.type)

\* The result of the header's parser is not looked at.
EthernetFrame_parse(buffer) ==
    LET Parsed(h) == [header |-> h.header, payload |-> h.p.buffer, result |-> h.p.error]
    IN  Parsed(EthernetHeader_parse(NewNetParser(buffer)))

EthernetFrame_serialize(header, payload) ==
    BufferList_append(<<EthernetHeader_serialize(header)>>, payload)

NewARPMessage ==
    [hardware_type |-> TYPE_ETHERNET, protocol_type |-> TYPE_IPv4, hardware_address_size |-> 6,
     protocol_address_size |-> 4, opcode |-> 0, sender_eth |-> ZeroAddress, sender_ip |-> <<0, 0>>,
     target_eth |-> ZeroAddress, target_ip |-> <<0, 0>>]

supported(m) ==
    /\ m.hardware_type = TYPE_ETHERNET
    /\ m.protocol_type = TYPE_IPv4
    /\ m.hardware_address_size = 6
    /\ m.protocol_address_size = 4
    /\ m.opcode \in {OPCODE_REQUEST, OPCODE_REPLY}

ARPMessage_fields(v) ==
    [hardware_type |-> v[1], protocol_type |-> v[2], hardware_address_size |-> v[3],
     protocol_address_size |-> v[4], opcode |-> v[5], sender_eth |-> v[6], sender_ip |-> v[7],
     target_eth |-> v[8], target_ip |-> v[9]]

ARPMessage_parse(buffer) ==
    LET Checked(m, error) == [msg |-> m, result |-> IF supported(m) THEN error ELSE "Unsupported"]
        Parsed(f) == Checked(ARPMessage_fields(f.values), f.p.error)
    IN  IF Len(buffer) < ARP_LENGTH THEN [msg |-> NewARPMessage, result |-> "PacketTooShort"]
        ELSE Parsed(ParseInts(NewNetParser(buffer), <<2, 2, 1, 1, 2, 6, 4, 6, 4>>))

\* For a supported message; any other makes it throw.
ARPMessage_serialize(m) ==
    u16(m.hardware_type) \o u16(m.protocol_type) \o u8(m.hardware_address_size)
        \o u8(m.protocol_address_size) \o u16(m.opcode)
        \o m.sender_eth \o u32(m.sender_ip) \o m.target_eth \o u32(m.target_ip)

-----------------------------------------------------------------------------
\* The message in an ARP frame of the interface.  Who is asked is not known
\* yet; who is answered is whom the frame is for.
MessageOf(frame) ==
    [NewARPMessage EXCEPT
        !.opcode = IF frame.opcode = "REQUEST" THEN OPCODE_REQUEST ELSE OPCODE_REPLY,
        !.sender_eth = frame.sender_eth, !.sender_ip = frame.sender_ip,
        !.target_eth = IF frame.opcode = "REQUEST" THEN ZeroAddress ELSE frame.dst,
        !.target_ip = frame.target_ip]

\* The bytes of a frame; the datagram it may carry has been serialised.
FrameBytes(frame) ==
    LET header(type) == [dst |-> frame.dst, src |-> frame.src, type |-> type]
    IN  BufferList_concatenate(
            IF frame.type = "ARP"
            THEN EthernetFrame_serialize(header(TYPE_ARP), <<ARPMessage_serialize(MessageOf(frame))>>)
            ELSE EthernetFrame_serialize(header(TYPE_IPv4), <<frame.dgram.bytes>>))

\* The frame as recv_frame takes it apart: "other" if its type is unknown or
\* its payload does not parse.
FrameOf(eth) ==
    LET header(type) == [type |-> type, src |-> eth.header.src, dst |-> eth.header.dst]
        Arp(a) == IF a.result # "NoError" THEN header("other")
                  ELSE header("ARP") @@
                       [opcode |-> IF a.msg.opcode = OPCODE_REPLY THEN "REPLY" ELSE "REQUEST",
                        sender_ip |-> a.msg.sender_ip, sender_eth |-> a.msg.sender_eth,
                        target_ip |-> a.msg.target_ip]
        Ipv4(d) == IF d.result # "NoError" THEN header("other") ELSE header("IPv4") @@ [dgram |-> d]
    IN  CASE eth.header.type = TYPE_ARP  -> Arp(ARPMessage_parse(eth.payload))
          [] eth.header.type = TYPE_IPv4 -> Ipv4(IPv4Datagram_parse(eth.payload))
          [] OTHER                       -> header("other")
=============================================================================
