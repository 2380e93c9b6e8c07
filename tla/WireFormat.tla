----------------------------- MODULE WireFormat -----------------------------
(***************************************************************************)
(* What is on the wire: libsponge/util/parser.{hh,cc} and buffer.{hh,cc},  *)
(* InternetChecksum of util/util.cc, and in tcp_helpers/ tcp_header.cc,    *)
(* tcp_segment.cc, ipv4_header.cc and ipv4_datagram.cc.                    *)
(*                                                                         *)
(* A Buffer is the sequence of the bytes not yet discarded, a BufferList a *)
(* sequence of Buffers.  A 32-bit number is the pair of its 16-bit halves, *)
(* high half first.                                                        *)
(***************************************************************************)
EXTENDS Integers, Sequences, SequencesExt

BitOf(flag) == IF flag THEN 1 ELSE 0
BitIsSet(x, k) == (x \div 2 ^ k) % 2 = 1

-----------------------------------------------------------------------------
\* Buffer, BufferList
Buffer_remove_prefix(buffer, n) == SubSeq(buffer, n + 1, Len(buffer))

BufferList_append(list, other) == list \o other

BufferList_concatenate(list) == FlattenSeq(list)

BufferList_size(list) == Len(BufferList_concatenate(list))

\* The conversion of a BufferList to a Buffer, which throws on several.
BufferList_Buffer(list) == IF list = <<>> THEN <<>> ELSE list[1]

-----------------------------------------------------------------------------
\* NetParser, NetUnparser
NewNetParser(buffer) == [buffer |-> buffer, error |-> "NoError"]

check_size(p, size) ==
    IF size > Len(p.buffer) THEN [p EXCEPT !.error = "PacketTooShort"] ELSE p

NetParser_remove_prefix(p, n) ==
    LET c == check_size(p, n)
    IN  IF c.error # "NoError" THEN c ELSE [c EXCEPT !.buffer = Buffer_remove_prefix(@, n)]

u16_of(bytes) == bytes[1] * 256 + bytes[2]

\* The value of len bytes in network byte order; six are the bytes of an
\* Ethernet address, parsed one by one.
int_of(bytes, len) ==
    CASE len = 1 -> bytes[1]
      [] len = 2 -> u16_of(bytes)
      [] len = 4 -> <<u16_of(bytes), u16_of(SubSeq(bytes, 3, 4))>>
      [] len = 6 -> SubSeq(bytes, 1, 6)

\* Parses one more integer of len bytes; after an error all are zero.
parse_int(s, len) ==
    LET c == check_size(s.p, len)
    IN  IF c.error # "NoError"
        THEN [p |-> c, values |-> Append(s.values, IF len = 4 THEN <<0, 0>> ELSE 0)]
        ELSE [p |-> [c EXCEPT !.buffer = Buffer_remove_prefix(@, len)],
              values |-> Append(s.values, int_of(c.buffer, len))]

\* Parses one integer after the other, of the given lengths.
ParseInts(p, lengths) == FoldLeft(parse_int, [p |-> p, values |-> <<>>], lengths)

u8(x) == <<x % 256>>
u16(x) == u8(x \div 256) \o u8(x)
u32(x) == u16(x[1]) \o u16(x[2])

\* string::resize to n bytes, zeros being added.
resize(s, n) == SubSeq(s \o [k \in 1 .. n |-> 0], 1, n)

-----------------------------------------------------------------------------
\* InternetChecksum
NewInternetChecksum(initial_sum) == [sum |-> initial_sum, parity |-> FALSE]

add_byte(c, byte) ==
    [sum |-> c.sum + (IF c.parity THEN byte ELSE byte * 256), parity |-> ~c.parity]

InternetChecksum_add(c, data) == FoldLeft(add_byte, c, data)

fold_carry(x) == (x \div 65536) + (x % 65536)

\* Twice is enough for a 32-bit sum: the first leaves less than 2^17.
InternetChecksum_value(c) == 65535 - fold_carry(fold_carry(c.sum))

-----------------------------------------------------------------------------
\* TCPHeader, TCPSegment
NewTCPHeader ==
    [sport |-> 0, dport |-> 0, seqno |-> <<0, 0>>, ackno |-> <<0, 0>>, doff |-> 5,
     urg |-> FALSE, ack |-> FALSE, psh |-> FALSE, rst |-> FALSE, syn |-> FALSE, fin |-> FALSE,
     win |-> 0, cksum |-> 0, uptr |-> 0]

TCPHeader_fields(v) ==
    [sport |-> v[1], dport |-> v[2], seqno |-> v[3], ackno |-> v[4], doff |-> v[5] \div 16,
     urg |-> BitIsSet(v[6], 5), ack |-> BitIsSet(v[6], 4), psh |-> BitIsSet(v[6], 3),
     rst |-> BitIsSet(v[6], 2), syn |-> BitIsSet(v[6], 1), fin |-> BitIsSet(v[6], 0),
     win |-> v[7], cksum |-> v[8], uptr |-> v[9]]

TCPHeader_parse(p) ==
    LET Left(header, rest) == [header |-> header, p |-> rest, result |-> rest.error]
        Skip(header, rest) ==
            IF header.doff < 5
            THEN [header |-> header, p |-> rest, result |-> "HeaderTooShort"]
            ELSE Left(header, NetParser_remove_prefix(rest, header.doff * 4 - 20))
        Parsed(f) == Skip(TCPHeader_fields(f.values), f.p)
    IN  Parsed(ParseInts(p, <<2, 2, 4, 4, 1, 1, 2, 2, 2>>))

\* For doff >= 5, less than which makes it throw.
TCPHeader_serialize(h) ==
    resize(u16(h.sport) \o u16(h.dport) \o u32(h.seqno) \o u32(h.ackno) \o u8(h.doff * 16)
               \o u8(32 * BitOf(h.urg) + 16 * BitOf(h.ack) + 8 * BitOf(h.psh)
                         + 4 * BitOf(h.rst) + 2 * BitOf(h.syn) + BitOf(h.fin))
               \o u16(h.win) \o u16(h.cksum) \o u16(h.uptr),
           4 * h.doff)

\* The result of the header's parser is not looked at.
TCPSegment_parse(buffer, datagram_layer_checksum) ==
    LET check == InternetChecksum_add(NewInternetChecksum(datagram_layer_checksum), buffer)
        Parsed(h) == [result |-> h.p.error, header |-> h.header, payload |-> h.p.buffer]
    IN  IF InternetChecksum_value(check) # 0
        THEN [result |-> "BadChecksum", header |-> NewTCPHeader, payload |-> <<>>]
        ELSE Parsed(TCPHeader_parse(NewNetParser(buffer)))

TCPSegment_serialize(header, payload, datagram_layer_checksum) ==
    LET zeroed == TCPHeader_serialize([header EXCEPT !.cksum = 0])
        check == InternetChecksum_add(
                     InternetChecksum_add(NewInternetChecksum(datagram_layer_checksum), zeroed), payload)
        header_out == [header EXCEPT !.cksum = InternetChecksum_value(check)]
    IN  BufferList_append(<<TCPHeader_serialize(header_out)>>, <<payload>>)

-----------------------------------------------------------------------------
\* IPv4Header, IPv4Datagram
PROTO_TCP == 6

NewIPv4Header ==
    [ver |-> 4, hlen |-> 5, tos |-> 0, len |-> 0, id |-> 0, df |-> TRUE, mf |-> FALSE, offset |-> 0,
     ttl |-> 128, proto |-> PROTO_TCP, cksum |-> 0, src |-> <<0, 0>>, dst |-> <<0, 0>>]

\* uint16_t
payload_length(h) == (h.len - 4 * h.hlen) % 65536

pseudo_cksum(h) ==
    h.src[1] + h.src[2] + h.dst[1] + h.dst[2] + h.proto + payload_length(h)

IPv4Header_fields(v) ==
    [ver |-> v[1] \div 16, hlen |-> v[1] % 16, tos |-> v[2], len |-> v[3], id |-> v[4],
     df |-> BitIsSet(v[5], 14), mf |-> BitIsSet(v[5], 13), offset |-> v[5] % 8192,
     ttl |-> v[6], proto |-> v[7], cksum |-> v[8], src |-> v[9], dst |-> v[10]]

\* What the parser says of header h of a packet: the checks in their order.
IPv4Header_result(h, packet) ==
    CASE Len(packet) < 4 * h.hlen -> "PacketTooShort"
      [] h.ver # 4                -> "WrongIPVersion"
      [] h.hlen < 5               -> "HeaderTooShort"
      [] Len(packet) # h.len      -> "TruncatedPacket"
      [] InternetChecksum_value(InternetChecksum_add(NewInternetChecksum(0), SubSeq(packet, 1, 4 * h.hlen))) # 0
                                  -> "BadChecksum"
      [] OTHER                    -> "NoError"

\* The options are skipped after all checks but that of the checksum.
IPv4Header_parse(p) ==
    IF Len(p.buffer) < 20
    THEN [header |-> NewIPv4Header, p |-> p, result |-> "PacketTooShort"]
    ELSE LET Skip(h, result, rest) ==
                 [header |-> h, result |-> result,
                  p |-> IF result \in {"NoError", "BadChecksum"}
                        THEN NetParser_remove_prefix(rest, h.hlen * 4 - 20) ELSE rest]
             Checked(h, rest) == Skip(h, IPv4Header_result(h, p.buffer), rest)
             Parsed(f) == Checked(IPv4Header_fields(f.values), f.p)
         IN  Parsed(ParseInts(p, <<1, 1, 2, 2, 2, 1, 1, 2, 4, 4>>))

\* For ver = 4 and hlen >= 5; anything else makes it throw.
IPv4Header_serialize(h) ==
    resize(u8(h.ver * 16 + h.hlen) \o u8(h.tos) \o u16(h.len) \o u16(h.id)
               \o u16(16384 * BitOf(h.df) + 8192 * BitOf(h.mf) + (h.offset % 8192))
               \o u8(h.ttl) \o u8(h.proto) \o u16(h.cksum) \o u32(h.src) \o u32(h.dst),
           4 * h.hlen)

\* Mutant: the length of the payload is not compared with the header's.
IPv4Datagram_parse_AnyLength(buffer) ==
    LET Parsed(h) == [header |-> h.header, payload |-> <<h.p.buffer>>, result |-> h.p.error]
    IN  Parsed(IPv4Header_parse(NewNetParser(buffer)))

\* The result of the header's parser is not looked at.
IPv4Datagram_parse(buffer) ==
    LET Parsed(h) ==
            [header |-> h.header, payload |-> <<h.p.buffer>>,
             result |-> IF Len(h.p.buffer) # payload_length(h.header) THEN "PacketTooShort" ELSE h.p.error]
    IN  Parsed(IPv4Header_parse(NewNetParser(buffer)))

\* Throws, and nothing is written, if the payload has not the header's length.
IPv4Datagram_serialize(header, payload) ==
    LET zeroed == IPv4Header_serialize([header EXCEPT !.cksum = 0])
        check == InternetChecksum_add(NewInternetChecksum(0), zeroed)
        header_out == [header EXCEPT !.cksum = InternetChecksum_value(check)]
    IN  IF BufferList_size(payload) # payload_length(header) THEN <<>>
        ELSE BufferList_append(<<IPv4Header_serialize(header_out)>>, payload)
=============================================================================
