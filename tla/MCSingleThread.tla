--------------------------- MODULE MCSingleThread ---------------------------
(* Small instances of SingleVersusMulti for TLC. *)
EXTENDS SingleVersusMulti

Tuple(src, dst, sport, dport, proto) ==
    [src |-> src, dst |-> dst, sport |-> sport, dport |-> dport, proto |-> proto]

Client == "192.168.1.100"
Other == "192.168.1.50"
Video == Tuple(Client, "142.250.185.110", 50000, 443, TCP)
Second == Tuple(Other, "23.52.167.61", 50001, 443, TCP)
Web == Tuple(Client, "93.184.216.34", 50002, 80, TCP)
Query == Tuple(Client, "8.8.8.8", 50003, 53, UDP)

TCPHeaders(ihl, offset) ==
    [ipv4 |-> TRUE, version |-> 4, ihl |-> ihl, protocol |-> TCP, dataOffset |-> offset]
UDPHeaders == [ipv4 |-> TRUE, version |-> 4, ihl |-> 5, protocol |-> UDP, dataOffset |-> 0]

NoPayload == [kind |-> "none"]

(* A packet of t with so many bytes of payload, after headers with options.*)
Segment(t, length, payload) ==
    [tuple |-> t, headers |-> TCPHeaders(5, 8), size |-> 14 + 20 + 32 + length,
     payload |-> payload]

(* A ClientHello with one other extension before the name, sent in records *)
(* of the given length, of which the segment has `captured` bytes.         *)
Hello(name, record, captured) ==
    [kind |-> "tls", contentType |-> 22, version |-> 769, recordLength |-> record,
     handshakeType |-> 1, sessionId |-> 32, ciphers |-> 4, compression |-> 1,
     extensionsLength |-> 4 + 2 + 4 + 5 + Len(name),
     extensions |-> <<[type |-> 10, length |-> 2],
                      [type |-> 0, length |-> 5 + Len(name), listLength |-> 3 + Len(name),
                       nameType |-> 0, nameLength |-> Len(name), name |-> name]>>,
     captured |-> captured]

HelloLength(name) == 43 + 33 + 6 + 2 + 2 + 6 + 9 + Len(name)
Whole(name) == Hello(name, HelloLength(name) - 5, HelloLength(name))

Request == "GET / HTTP/1.1\r\nHost: WWW.Example.com:80\r\n\r\n"

Shapes ==
    { Segment(Video, 0, NoPayload),
      Segment(Video, 121, Whole("www.youtube.com")),
      Segment(Video, 116, Hello("www.youtube.com", 111, 111)),   \* cut, by the capture
      Segment(Video, 111, Hello("www.youtube.com", 60, 111)),    \* cut, in two records
      Segment(Second, 117, Whole("example.org")),
      Segment(Second, 0, NoPayload),
      Segment(Web, 0, NoPayload),
      Segment(Web, Len(Request), [kind |-> "http", text |-> Request, captured |-> Len(Request)]),
      Segment(Web, 35, [kind |-> "http", text |-> Request, captured |-> 35]),
      [tuple |-> Query, headers |-> UDPHeaders, size |-> 80, payload |-> [kind |-> "dns"]],
      [tuple |-> Web, headers |-> TCPHeaders(5, 15), size |-> 70, payload |-> NoPayload] }

Lines ==
    { [ips |-> {}, apps |-> {"YouTube"}, domains |-> {"example"}],
      [ips |-> {Other}, apps |-> {"DNS"}, domains |-> {}],
      [ips |-> {}, apps |-> {"HTTPS", "Nobody"}, domains |-> {"WWW"}] }
=============================================================================
