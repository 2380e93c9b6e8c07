----------------------------- MODULE FdAdapter ------------------------------
(***************************************************************************)
(* The adapters between a TCP connection and its datagrams, in             *)
(* libsponge/tcp_helpers/: FdAdapterBase and TCPOverUDPSocketAdapter of    *)
(* fd_adapter.{hh,cc}, TCPOverIPv4Adapter of tcp_over_ip.cc, and           *)
(* TCPOverIPv4OverTunFdAdapter and TCPOverIPv4OverEthernetAdapter of       *)
(* tuntap_adapter.{hh,cc}.                                                 *)
(*                                                                         *)
(* An address is a record of an IPv4 address and a port.                   *)
(***************************************************************************)
EXTENDS EthernetFormat

NewAdapter(source, destination, listening) ==
    [source |-> source, destination |-> destination, listening |-> listening]

\* An optional segment.
None == <<>>

Refuse(a) == [adapter |-> a, segment |-> None]
Accept(a, parsed) == [adapter |-> a, segment |-> <<[header |-> parsed.header, payload |-> parsed.payload]>>]

\* The segment that a listening adapter locks on to.
opens(header) == header.syn /\ ~header.rst

\* Mutant: a listening adapter keeps on listening.
lock_on_Listens(a, source, destination) ==
    [source |-> source, destination |-> destination, listening |-> TRUE]

\* Mutant: the address that was called is not taken over.
lock_on_KeepsSource(a, source, destination) ==
    [source |-> a.source, destination |-> destination, listening |-> FALSE]

lock_on(a, source, destination) ==
    [source |-> source, destination |-> destination, listening |-> FALSE]

\* What becomes of a segment parsed out of an Internet datagram.
unwrap_parsed(a, header, parsed) ==
    LET related == a.listening \/ (header.dst = a.source.ip /\ header.src = a.destination.ip)
        peer == [ip |-> header.src, port |-> parsed.header.sport]
    IN  IF \/ ~related
           \/ header.proto # PROTO_TCP
           \/ parsed.result # "NoError"
           \/ parsed.header.dport # a.source.port
        THEN Refuse(a)
        ELSE IF a.listening
        THEN IF opens(parsed.header)
             THEN Accept(lock_on(a, [ip |-> header.dst, port |-> a.source.port], peer), parsed)
             ELSE Refuse(a)
        ELSE IF parsed.header.sport # a.destination.port THEN Refuse(a) ELSE Accept(a, parsed)

unwrap_tcp_in_ip(a, header, payload) ==
    unwrap_parsed(a, header, TCPSegment_parse(BufferList_Buffer(payload), pseudo_cksum(header)))

WithPorts(a, header) == [header EXCEPT !.sport = a.source.port, !.dport = a.destination.port]

\* The bytes that TCPOverIPv4OverTunFdAdapter::write puts on the device.
tun_write(a, segment) ==
    LET tcp == WithPorts(a, segment.header)
        ip == [NewIPv4Header EXCEPT !.src = a.source.ip, !.dst = a.destination.ip,
                                    !.len = 4 * NewIPv4Header.hlen + tcp.doff * 4 + Len(segment.payload)]
        Wrapped(header) ==
            IPv4Datagram_serialize(header, TCPSegment_serialize(tcp, segment.payload, pseudo_cksum(header)))
    IN  BufferList_concatenate(Wrapped(ip))

tun_read(a, bytes) ==
    LET Unwrapped(d) == IF d.result # "NoError" THEN Refuse(a) ELSE unwrap_tcp_in_ip(a, d.header, d.payload)
    IN  Unwrapped(IPv4Datagram_parse(bytes))

\* The interface after TCPOverIPv4OverEthernetAdapter::write, up to
\* send_pending; for whom the segment is goes with the datagram.
tap_write(a, n, segment, next_hop) ==
    send_datagram(n, [bytes |-> tun_write(a, segment), segment |-> segment, to |-> a.destination], next_hop)

\* The interface after a frame, up to send_pending, and the segment in it.
tap_read(a, n, bytes) ==
    LET Unwrapped(r) ==
            [nic |-> r.nic,
             result |-> IF r.up = <<>> THEN Refuse(a)
                        ELSE unwrap_tcp_in_ip(a, r.up[1].header, r.up[1].payload)]
        Framed(eth) == IF eth.result # "NoError" THEN [nic |-> n, result |-> Refuse(a)]
                       ELSE Unwrapped(recv_frame(n, FrameOf(eth)))
    IN  Framed(EthernetFrame_parse(bytes))

\* The bytes that TCPOverUDPSocketAdapter::write sends to a.destination.
udp_write(a, segment) ==
    BufferList_concatenate(
        TCPSegment_serialize(WithPorts(a, segment.header), segment.payload, 0))

\* The ports in the TCP header are not looked at.
udp_read(a, source_address, bytes) ==
    LET Filtered(parsed) ==
            IF \/ ~a.listening /\ source_address # a.destination
               \/ parsed.result # "NoError"
               \/ a.listening /\ ~opens(parsed.header)
            THEN Refuse(a)
            ELSE Accept(IF a.listening THEN lock_on(a, a.source, source_address) ELSE a, parsed)
    IN  Filtered(TCPSegment_parse(bytes, 0))
=============================================================================
