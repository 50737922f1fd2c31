---------------------------- MODULE PacketParser ----------------------------
(***************************************************************************)
(* The frame parser of packet_parser.cpp, and the arithmetic by which the  *)
(* single-threaded tool and dpi_mt find the payload a second time. A frame *)
(* is what of its headers the parser looks at: how many bytes were         *)
(* captured, and the lengths the headers state themselves.                 *)
(***************************************************************************)
EXTENDS Naturals

Headers ==
    [ipv4 : BOOLEAN,              \* EtherType 0x0800
     version : 0 .. 15, ihl : 0 .. 15,
     protocol : 0 .. 255,
     dataOffset : 0 .. 15]        \* upper half of byte 12 of the TCP header

Frames == [headers : Headers, size : Nat]

ETH_HEADER_LEN == 14
MIN_IP_HEADER_LEN == 20
MIN_TCP_HEADER_LEN == 20
UDP_HEADER_LEN == 8
TCP == 6
UDP == 17

IPHeaderLen(h) == h.ihl * 4
TransportOffset(h) == ETH_HEADER_LEN + IPHeaderLen(h)
TCPHeaderLen(h) == h.dataOffset * 4

ParseEthernet(h, size) == size >= ETH_HEADER_LEN

ParseIPv4(h, size) ==
    /\ size >= ETH_HEADER_LEN + MIN_IP_HEADER_LEN
    /\ h.version = 4
    /\ IPHeaderLen(h) >= MIN_IP_HEADER_LEN
    /\ size >= TransportOffset(h)

(* Variant: the stated length of the header is taken as it is.             *)
ParseTCPTrusting(h, size) == size >= TransportOffset(h) + MIN_TCP_HEADER_LEN

ParseTCP(h, size) ==
    /\ size >= TransportOffset(h) + MIN_TCP_HEADER_LEN
    /\ TCPHeaderLen(h) >= MIN_TCP_HEADER_LEN
    /\ size >= TransportOffset(h) + TCPHeaderLen(h)

ParseUDP(h, size) == size >= TransportOffset(h) + UDP_HEADER_LEN

(* PacketParser::parse returns true.                                       *)
Parses(h, size) ==
    /\ ParseEthernet(h, size)
    /\ h.ipv4 => ParseIPv4(h, size)
    /\ h.ipv4 /\ h.protocol = TCP => ParseTCP(h, size)
    /\ h.ipv4 /\ h.protocol = UDP => ParseUDP(h, size)

HasTCP(h, size) == Parses(h, size) /\ h.ipv4 /\ h.protocol = TCP
HasUDP(h, size) == Parses(h, size) /\ h.ipv4 /\ h.protocol = UDP

(* What the engines go on with: has_ip and has_tcp or has_udp.             *)
Accepted(h, size) == HasTCP(h, size) \/ HasUDP(h, size)

(* ParsedPacket::payload_data, as an offset into the frame.                *)
ParsedOffset(h, size) ==
    IF HasTCP(h, size) THEN TransportOffset(h) + TCPHeaderLen(h)
    ELSE TransportOffset(h) + UDP_HEADER_LEN

PayloadLength(offset, size) == IF offset < size THEN size - offset ELSE 0
-----------------------------------------------------------------------------
(* dpi_mt's reader, from the raw bytes: 0 is no payload.                   *)
MTOffset(h, size) ==
    IF HasTCP(h, size) /\ TransportOffset(h) + 12 < size
    THEN TransportOffset(h) + TCPHeaderLen(h)
    ELSE IF HasUDP(h, size) THEN TransportOffset(h) + UDP_HEADER_LEN
    ELSE TransportOffset(h)

MTPayloadLength(h, size) == PayloadLength(MTOffset(h, size), size)

(* The single-threaded tool, for TCP only: how many bytes it hands to the  *)
(* extractor, 0 when it does not call it.                                  *)
STPayloadLength(h, size) ==
    IF TransportOffset(h) + 12 < size
    THEN PayloadLength(TransportOffset(h) + TCPHeaderLen(h), size)
    ELSE 0
=============================================================================
