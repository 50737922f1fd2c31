---------------------------- MODULE SniExtractor ----------------------------
(***************************************************************************)
(* The payload parsers of sni_extractor.cpp that the engines look for a    *)
(* name with: the server_name extension of a TLS ClientHello, and the Host *)
(* header of an HTTP request. Both see the `captured` first bytes of what  *)
(* the client sent: a segment may end, or the capture cut it, anywhere.    *)
(*                                                                         *)
(* A ClientHello is given by its lengths: the walk over it only adds them  *)
(* up. An HTTP request is its text.                                        *)
(***************************************************************************)
EXTENDS AppTypes, SequencesExt

NoName == [name |-> "", found |-> FALSE]      \* std::nullopt
Name(s) == [name |-> s, found |-> TRUE]

RecordHeader == 5
BodyBegin == RecordHeader + 4 + 2 + 32     \* after handshake header, version, random
ServerNameExtension == 0

IsTLSClientHello(m) ==
    /\ m.captured >= 9
    /\ m.contentType = 22
    /\ m.version \in 768 .. 772
    /\ m.recordLength <= m.captured - RecordHeader
    /\ m.handshakeType = 1

CiphersAt(m) == BodyBegin + 1 + m.sessionId
CompressionAt(m) == CiphersAt(m) + 2 + m.ciphers
ExtensionsAt(m) == CompressionAt(m) + 1 + m.compression

(* Variant: the list is taken to end where it says.                        *)
ExtensionsEndStated(m) == ExtensionsAt(m) + 2 + m.extensionsLength

(* The list of extensions ends where it says or where the capture ends:    *)
(* "Truncated, but try to parse anyway".                                   *)
ExtensionsEnd(m) ==
    LET stated == ExtensionsAt(m) + 2 + m.extensionsLength
    IN  IF stated > m.captured THEN m.captured ELSE stated

(* Where the body of the i-th extension begins.                            *)
ExtensionBody(m, i) ==
    ExtensionsAt(m) + 2 + 4 * i
        + FoldLeft(LAMBDA sum, e : sum + e.length, 0, SubSeq(m.extensions, 1, i - 1))

WellFormedName(e) ==
    /\ e.length >= 5
    /\ e.listLength >= 3
    /\ e.nameType = 0
    /\ e.nameLength <= e.length - 5

(* The bytes of the name that lie inside the capture.                      *)
NameBytes(m, i) ==
    LET last == m.captured - (ExtensionBody(m, i) + 5)
        length == m.extensions[i].nameLength
    IN  SubSeq(m.extensions[i].name, 1, IF last < length THEN last ELSE length)

(* SNIExtractor::extract                                                   *)
ServerName(m) ==
    LET body(i) == ExtensionBody(m, i)
        reached == {i \in DOMAIN m.extensions :
                       body(i) + m.extensions[i].length <= ExtensionsEnd(m)}
        names == {i \in reached : m.extensions[i].type = ServerNameExtension}
        first == CHOOSE i \in names : \A j \in names : i <= j
    IN  IF /\ IsTLSClientHello(m)
           /\ BodyBegin < m.captured
           /\ CiphersAt(m) + 2 <= m.captured
           /\ CompressionAt(m) < m.captured
           /\ ExtensionsAt(m) + 2 <= m.captured
           /\ names # {}
           /\ WellFormedName(m.extensions[first])
        THEN Name(NameBytes(m, first))
        ELSE NoName
-----------------------------------------------------------------------------
Methods == {"GET ", "POST", "PUT ", "HEAD", "DELE", "PATC", "OPTI"}

IsHTTPRequest(text) == Len(text) >= 4 /\ SubSeq(text, 1, 4) \in Methods

(* The first place from i on where the text has none (one) of chars, or    *)
(* its end.                                                                *)
SkipFrom(text, i, chars) ==
    CHOOSE j \in i .. Len(text) + 1 :
        /\ j <= Len(text) => CharAt(text, j) \notin chars
        /\ \A k \in i .. j - 1 : CharAt(text, k) \in chars

UpTo(text, i, chars) ==
    CHOOSE j \in i .. Len(text) + 1 :
        /\ j <= Len(text) => CharAt(text, j) \in chars
        /\ \A k \in i .. j - 1 : CharAt(text, k) \notin chars

(* What stands after a "Host:" at i, and ends before the end of the line.  *)
ValueAt(text, i) ==
    LET begin == SkipFrom(text, i + 5, {" ", "\t"})
    IN  SubSeq(text, begin, UpTo(text, begin, {"\r", "\n"}) - 1)

WithoutPort(host) == SubSeq(host, 1, UpTo(host, 1, {":"}) - 1)

(* HTTPHostExtractor::extract: "host:" counts wherever it stands, also at  *)
(* the end of another header's name, and so does a value the capture cut.  *)
HTTPHost(text) ==
    LET hosts == {i \in 1 .. Len(text) - 6 :
                     /\ Lower(SubSeq(text, i, i + 4)) = "host:"
                     /\ ValueAt(text, i) # ""}
    IN  IF IsHTTPRequest(text) /\ hosts # {}
        THEN Name(WithoutPort(ValueAt(text, CHOOSE i \in hosts : \A j \in hosts : i <= j)))
        ELSE NoName
=============================================================================
