------------------------- MODULE SingleThreadProofs -------------------------
(***************************************************************************)
(* Proofs about the packet parser and the single-threaded tool: where the  *)
(* payload of a frame is found, and that the tool decides like dpi_mt,     *)
(* counts every packet and flow once, alerts once for each blocked flow    *)
(* and knows whole names only, for captures of any length and any rules.   *)
(***************************************************************************)
EXTENDS SingleVersusMulti, SumLemmas, SequenceTheorems

(***************************************************************************)
(* THE PAYLOAD OF A FRAME                                                  *)
(***************************************************************************)
(* A frame the parser accepts is long enough for every header it states:   *)
(* no engine reads past its end when it looks for the payload.             *)
THEOREM HeadersInside ==
    ASSUME NEW h \in Headers, NEW size \in Nat, Accepted(h, size)
    PROVE  /\ ParsedOffset(h, size) \in 34 + UDP_HEADER_LEN .. size
           /\ HasTCP(h, size) => TransportOffset(h) + 12 < size
<1>1. h.ihl \in Nat /\ h.dataOffset \in Nat
  BY DEF Headers
<1>2. CASE HasTCP(h, size)
  BY <1>1, <1>2 DEF HasTCP, Parses, ParseTCP, ParseIPv4, ParsedOffset, TransportOffset,
     IPHeaderLen, TCPHeaderLen, ETH_HEADER_LEN, MIN_IP_HEADER_LEN, MIN_TCP_HEADER_LEN,
     UDP_HEADER_LEN
<1>3. CASE HasUDP(h, size) /\ ~ HasTCP(h, size)
  BY <1>1, <1>3 DEF HasUDP, Parses, ParseUDP, ParseIPv4, ParsedOffset, TransportOffset,
     IPHeaderLen, ETH_HEADER_LEN, MIN_IP_HEADER_LEN, UDP_HEADER_LEN
<1>4. QED
  BY <1>2, <1>3 DEF Accepted

(* dpi_mt and the single-threaded tool compute the payload from the raw    *)
(* bytes, after the parser has computed it: whatever the headers state and *)
(* however short the capture cut the frame, they get what the parser got.  *)
THEOREM SamePayload ==
    ASSUME NEW h \in Headers, NEW size \in Nat, Accepted(h, size)
    PROVE  /\ MTOffset(h, size) = ParsedOffset(h, size)
           /\ HasTCP(h, size) => STPayloadLength(h, size) = MTPayloadLength(h, size)
<1>1. HasTCP(h, size) => MTOffset(h, size) = ParsedOffset(h, size)
  BY HeadersInside DEF MTOffset, ParsedOffset
<1>2. ~ HasTCP(h, size) => MTOffset(h, size) = ParsedOffset(h, size)
  BY DEF MTOffset, ParsedOffset, Accepted
<1>3. HasTCP(h, size) => STPayloadLength(h, size) = MTPayloadLength(h, size)
  BY HeadersInside, <1>1 DEF STPayloadLength, MTPayloadLength, ParsedOffset
<1>4. QED
  BY <1>1, <1>2, <1>3
----------------------------------------------------------------------------
(***************************************************************************)
(* APPLICATIONS                                                            *)
(***************************************************************************)
LEMMA Numbers == \A n \in Nat : IsFiniteSet(1 .. n)
<1> SUFFICES ASSUME NEW n \in Nat PROVE IsFiniteSet(1 .. n)
  OBVIOUS
<1>1. 1 \in Int /\ n \in Int
  OBVIOUS
<1>2. QED
  BY <1>1, FS_Interval

LEMMA AppTypes ==
    /\ {"UNKNOWN", "HTTP", "HTTPS", "DNS"} \subseteq AppType
    /\ IsFiniteSet(AppType)
<1>1. DOMAIN AppNames = 1 .. 23
  BY DEF AppNames
<1>2. /\ AppNames[1].app = "UNKNOWN" /\ AppNames[2].app = "HTTP"
      /\ AppNames[3].app = "HTTPS" /\ AppNames[4].app = "DNS"
  BY DEF AppNames
<1>3. {"UNKNOWN", "HTTP", "HTTPS", "DNS"} \subseteq AppType
  BY <1>1, <1>2 DEF AppType
<1>4. IsFiniteSet({AppNames[i].app : i \in 1 .. 23})
  <2> DEFINE T == {AppNames[i].app : i \in 1 .. 23}
             f == [i \in 1 .. 23 |-> AppNames[i].app]
  <2>1. IsFiniteSet(1 .. 23)
    BY Numbers
  <2>2. f \in Surjection(1 .. 23, T)
    BY DEF Surjection
  <2> HIDE DEF T, f
  <2>3. IsFiniteSet(T)
    BY <2>1, <2>2, FS_Surjection
  <2>4. QED
    BY <2>3 DEF T
<1>5. QED
  BY <1>1, <1>3, <1>4 DEF AppType

(* What the ports alone say is one of four, and DNS before all.            *)
LEMMA PortApps ==
    ASSUME NEW t
    PROVE  /\ PortApp(t) \in {"UNKNOWN", "HTTP", "HTTPS", "DNS"}
           /\ PortApp(t) \in AppType
           /\ t.dport = 443 => PortApp(t) \in {"HTTPS", "DNS"}
           /\ t.dport = 80 => PortApp(t) \in {"HTTP", "DNS"}
<1>1. /\ PortApp(t) \in {"UNKNOWN", "HTTP", "HTTPS", "DNS"}
      /\ t.dport = 443 => PortApp(t) \in {"HTTPS", "DNS"}
      /\ t.dport = 80 => PortApp(t) \in {"HTTP", "DNS"}
  BY DEF PortApp
<1>2. QED
  BY <1>1, AppTypes

(* A name that is not empty always has an application.                     *)
LEMMA NameHasApp ==
    ASSUME NEW n
    PROVE  /\ SniToAppType(n) \in AppType
           /\ n # "" => SniToAppType(n) # "UNKNOWN"
<1> DEFINE rows == {i \in DOMAIN Patterns : \E p \in Patterns[i].find : Finds(Lower(n), p)}
           chosen == CHOOSE i \in rows : \A j \in rows : i <= j
<1>1. DOMAIN Patterns = 1 .. 17
  BY DEF Patterns
<1>2. \A i \in 1 .. 17 : Patterns[i].app \in AppType /\ Patterns[i].app # "UNKNOWN"
  <2>1. /\ DOMAIN AppNames = 1 .. 23
        /\ \A i \in 1 .. 17 : \E j \in 7 .. 23 : Patterns[i].app = AppNames[j].app
    BY DEF AppNames, Patterns
  <2>2. \A i \in 1 .. 17 : Patterns[i].app # "UNKNOWN"
    BY DEF Patterns
  <2>3. \A j \in 1 .. 23 : AppNames[j].app \in AppType
    BY <2>1 DEF AppType
  <2>4. ASSUME NEW i \in 1 .. 17 PROVE Patterns[i].app \in AppType
    <3>1. PICK j \in 7 .. 23 : Patterns[i].app = AppNames[j].app
      BY <2>1
    <3>2. QED
      BY <2>3, <3>1
  <2>5. QED
    BY <2>2, <2>4
<1>3. SniToAppType(n) = IF n = "" THEN "UNKNOWN"
                        ELSE IF rows = {} THEN "HTTPS" ELSE Patterns[chosen].app
  <2>1. SniToAppType(n) = CASE n = "" -> "UNKNOWN"
                            [] n # "" /\ rows = {} -> "HTTPS"
                            [] OTHER -> Patterns[chosen].app
    BY Zenon DEF SniToAppType
  <2> HIDE DEF rows, chosen
  <2>2. QED
    BY <2>1
<1>4. CASE rows = {}
  BY <1>3, <1>4, AppTypes
<1>5. CASE rows # {}
  <2> HIDE DEF rows
  <2>1. rows \subseteq 1 .. 17
    BY <1>1, Zenon DEF rows
  <2>2. \E i \in rows : \A j \in rows : i <= j
    <3>1. IsFiniteSet(1 .. 17)
      BY Numbers
    <3>2. IsFiniteSet(rows)
      BY <2>1, <3>1, FS_Subset
    <3>3. rows \subseteq Nat
      BY <2>1
    <3>4. QED
      BY <1>5, <3>2, <3>3, Extremes
  <2>3. chosen \in rows
    BY <2>2
  <2>4. QED
    BY <1>2, <1>3, <2>1, <2>3, AppTypes
<1>6. QED
  BY <1>4, <1>5
----------------------------------------------------------------------------
(***************************************************************************)
(* ONE PACKET                                                              *)
(***************************************************************************)
Names == {""} \cup {TLSName[pk].name : pk \in PacketShapes}
              \cup {HTTPName[pk].name : pk \in PacketShapes}

Flow == [app : AppType, sni : Names, packets : Nat, bytes : Nat, blocked : BOOLEAN]
Entry == [app : AppType, sni : Names, blocked : BOOLEAN, classified : BOOLEAN]

(* What the tool and an FP know of one flow between two packets of it: the *)
(* FP has stopped looking when the tool would find nothing new.            *)
Alike(t, fl, e) ==
    /\ fl.app = e.app /\ fl.sni = e.sni /\ fl.blocked = e.blocked
    /\ fl.sni = "" => fl.app \in {"UNKNOWN", PortApp(t)}
    /\ fl.sni # "" => fl.app # "UNKNOWN"
    /\ e.classified <=> (fl.sni # "" \/ fl.app = "DNS")

LEMMA FoundNames ==
    ASSUME NEW pk \in PacketShapes
    PROVE  /\ TLSName[pk].name \in Names /\ AppOf[TLSName[pk].name] \in AppType
           /\ TLSName[pk].name # "" => AppOf[TLSName[pk].name] # "UNKNOWN"
           /\ HTTPName[pk].name \in Names /\ AppOf[HTTPName[pk].name] \in AppType
           /\ HTTPName[pk].name # "" => AppOf[HTTPName[pk].name] # "UNKNOWN"
<1>1. TLSName[pk].name \in Names /\ HTTPName[pk].name \in Names
  BY DEF Names
<1>2. /\ AppOf[TLSName[pk].name] = SniToAppType(TLSName[pk].name)
      /\ AppOf[HTTPName[pk].name] = SniToAppType(HTTPName[pk].name)
  BY DEF AppOf
<1>3. QED
  BY <1>1, <1>2, NameHasApp

(* The two conditions under which a name is looked for find the same ones. *)
LEMMA SameName ==
    ASSUME NEW pk \in PacketShapes, Accepted(pk.headers, pk.size)
    PROVE  LET mt == MTPayloadLength(pk.headers, pk.size)
               st == STPayloadLength(pk.headers, pk.size)
           IN  /\ TLSName[pk].found /\ mt > 5 <=>
                     TLSName[pk].found /\ HasTCP(pk.headers, pk.size) /\ st > 5
               /\ HTTPName[pk].found /\ mt > 10 <=>
                     HTTPName[pk].found /\ HasTCP(pk.headers, pk.size) /\ st > 0
<1>1. pk.headers \in Headers /\ pk.size \in Nat
  BY SingleThreadAssumption
<1>2. HasTCP(pk.headers, pk.size) =>
          STPayloadLength(pk.headers, pk.size) = MTPayloadLength(pk.headers, pk.size)
  BY <1>1, SamePayload
<1>3. /\ TLSName[pk].found => HasTCP(pk.headers, pk.size)
      /\ HTTPName[pk].found => HasTCP(pk.headers, pk.size)
                                 /\ STPayloadLength(pk.headers, pk.size) > 10
  BY ComparisonAssumption
<1>4. STPayloadLength(pk.headers, pk.size) \in Nat
  <2>1. pk.headers.ihl \in Nat /\ pk.headers.dataOffset \in Nat
    BY <1>1 DEF Headers
  <2>2. QED
    BY <1>1, <2>1 DEF STPayloadLength, PayloadLength, TransportOffset, TCPHeaderLen, IPHeaderLen,
                      ETH_HEADER_LEN
<1>5. QED
  BY <1>2, <1>3, <1>4

LEMMA CountedFlow ==
    ASSUME NEW pk \in PacketShapes, NEW fl \in Flow
    PROVE  LET cnt == Counted(fl, pk)
           IN  /\ cnt \in Flow /\ cnt.app = fl.app /\ cnt.sni = fl.sni /\ cnt.blocked = fl.blocked
               /\ cnt.packets = fl.packets + 1
<1> DEFINE n == fl.packets + 1
           b == fl.bytes + pk.size
<1>1. n \in Nat /\ b \in Nat
  BY SingleThreadAssumption DEF Flow
<1>2. Counted(fl, pk) = [fl EXCEPT !.packets = n, !.bytes = b]
  BY Zenon DEF Counted
<1> HIDE DEF n, b
<1>3. Counted(fl, pk) = [app |-> fl.app, sni |-> fl.sni, packets |-> n, bytes |-> b,
                         blocked |-> fl.blocked]
  BY <1>2 DEF Flow
<1>4. QED
  BY <1>1, <1>3 DEF Flow, n

(* A packet makes each look at what it knows of the flow.                  *)
Look(fl, pk) == STClassified(Counted(fl, pk), pk)
MTLook(e, pk) == IF e.classified THEN e ELSE MTClassified(e, pk)

(* The tool decides again at every packet what an FP decides once.         *)
LEMMA SameClass ==
    ASSUME NEW pk \in PacketShapes, Accepted(pk.headers, pk.size),
           NEW fl \in Flow, NEW e \in Entry, Alike(pk.tuple, fl, e)
    PROVE  /\ Look(fl, pk) \in Flow /\ MTLook(e, pk) \in Entry
           /\ Alike(pk.tuple, Look(fl, pk), MTLook(e, pk))
           /\ Look(fl, pk).packets = fl.packets + 1
           /\ Look(fl, pk).sni # fl.sni /\ pk.tuple.dport = 443 =>
                 TLSName[pk].found /\ Look(fl, pk).sni = TLSName[pk].name
<1> DEFINE t == pk.tuple
           cnt == Counted(fl, pk)
           named == STNamed(cnt, pk)
           new == STClassified(cnt, pk)
           c == IF e.classified THEN e ELSE MTClassified(e, pk)
           Same == /\ new \in Flow /\ c \in Entry
                   /\ Alike(t, new, c)
                   /\ new.sni = "" => new.app = PortApp(t)
                   /\ new.packets = fl.packets + 1
                   /\ new.sni # fl.sni /\ t.dport = 443 =>
                         TLSName[pk].found /\ new.sni = TLSName[pk].name
           tls == t.dport = 443 /\ TLSName[pk].found /\ MTPayloadLength(pk.headers, pk.size) > 5
           http == t.dport = 80 /\ HTTPName[pk].found /\ MTPayloadLength(pk.headers, pk.size) > 10
<1>1. /\ cnt \in Flow /\ cnt.app = fl.app /\ cnt.sni = fl.sni /\ cnt.blocked = fl.blocked
      /\ cnt.packets = fl.packets + 1
  BY CountedFlow
<1> HIDE DEF cnt
<1>2. /\ PortApp(t) \in {"UNKNOWN", "HTTP", "HTTPS", "DNS"} /\ PortApp(t) \in AppType
      /\ t.dport = 443 => PortApp(t) \in {"HTTPS", "DNS"}
      /\ t.dport = 80 => PortApp(t) \in {"HTTP", "DNS"}
  BY PortApps
<1>3. /\ TLSName[pk].name \in Names /\ AppOf[TLSName[pk].name] \in AppType
      /\ HTTPName[pk].name \in Names /\ AppOf[HTTPName[pk].name] \in AppType
      /\ TLSName[pk].found => TLSName[pk].name # "" /\ AppOf[TLSName[pk].name] # "UNKNOWN"
      /\ HTTPName[pk].found => HTTPName[pk].name # "" /\ AppOf[HTTPName[pk].name] # "UNKNOWN"
  BY FoundNames, ComparisonAssumption
<1>4. named = IF cnt.sni = "" /\ cnt.app \in {"UNKNOWN", "HTTPS"} /\ tls THEN Named(cnt, TLSName[pk])
              ELSE IF cnt.sni = "" /\ cnt.app \in {"UNKNOWN", "HTTP"} /\ http THEN Named(cnt, HTTPName[pk])
              ELSE cnt
  <2>1. named = IF /\ cnt.sni = "" /\ HasTCP(pk.headers, pk.size)
                   /\ cnt.app \in {"UNKNOWN", "HTTPS"} /\ t.dport = 443
                   /\ STPayloadLength(pk.headers, pk.size) > 5 /\ TLSName[pk].found
                THEN Named(cnt, TLSName[pk])
                ELSE IF /\ cnt.sni = "" /\ HasTCP(pk.headers, pk.size)
                        /\ cnt.app \in {"UNKNOWN", "HTTP"} /\ t.dport = 80
                        /\ STPayloadLength(pk.headers, pk.size) > 0 /\ HTTPName[pk].found
                THEN Named(cnt, HTTPName[pk])
                ELSE cnt
    BY DEF STNamed
  <2>2. /\ tls <=> /\ t.dport = 443 /\ TLSName[pk].found /\ HasTCP(pk.headers, pk.size)
                    /\ STPayloadLength(pk.headers, pk.size) > 5
        /\ http <=> /\ t.dport = 80 /\ HTTPName[pk].found /\ HasTCP(pk.headers, pk.size)
                     /\ STPayloadLength(pk.headers, pk.size) > 0
    BY SameName
  <2> HIDE DEF named, tls, http
  <2>3. named = IF cnt.sni = "" /\ cnt.app \in {"UNKNOWN", "HTTPS"} /\ tls
                THEN Named(cnt, TLSName[pk])
                ELSE IF cnt.sni = "" /\ cnt.app \in {"UNKNOWN", "HTTP"} /\ http
                THEN Named(cnt, HTTPName[pk]) ELSE cnt
    <3>1. CASE tls
      BY <2>1, <2>2, <3>1
    <3>2. CASE ~ tls /\ http
      BY <2>1, <2>2, <3>2
    <3>3. CASE ~ tls /\ ~ http
      BY <2>1, <2>2, <3>3
    <3>4. QED
      BY <3>1, <3>2, <3>3
  <2>4. QED
    BY <2>3
<1>5. ~ e.classified => c = IF tls THEN [e EXCEPT !.sni = TLSName[pk].name, !.app = AppOf[TLSName[pk].name],
                                                  !.classified = TRUE]
                            ELSE IF http
                            THEN [e EXCEPT !.sni = HTTPName[pk].name, !.app = AppOf[HTTPName[pk].name],
                                           !.classified = TRUE]
                            ELSE [e EXCEPT !.app = IF PortApp(t) = "UNKNOWN" THEN e.app ELSE PortApp(t),
                                           !.classified = (PortApp(t) = "DNS")]
  BY DEF MTClassified
<1>6. new = IF named.app = "UNKNOWN" THEN [named EXCEPT !.app = PortApp(t)] ELSE named
  BY DEF STClassified
<1> HIDE DEF named, new, c
<1>7. ASSUME fl.sni # "" \/ fl.app = "DNS"
      PROVE  Same
  <2>1. e.classified
    BY <1>7 DEF Alike
  <2>2. c = e
    BY <2>1 DEF c
  <2>3. named = cnt
    BY <1>1, <1>4, <1>7
  <2>4. fl.app # "UNKNOWN"
    BY <1>7 DEF Alike
  <2>5. new = cnt
    BY <1>1, <1>6, <2>3, <2>4
  <2>6. Alike(t, new, c)
    BY <1>1, <2>2, <2>5 DEF Alike
  <2>7. new.sni = "" => new.app = PortApp(t)
    BY <1>1, <2>4, <2>5 DEF Alike
  <2>8. QED
    BY <1>1, <2>2, <2>5, <2>6, <2>7
<1>8. ASSUME fl.sni = "" /\ fl.app # "DNS"
      PROVE  Same
  <2>1. ~ e.classified /\ e.sni = "" /\ e.app = fl.app /\ e.blocked = fl.blocked
    BY <1>8 DEF Alike
  <2>2. fl.app \in {"UNKNOWN", PortApp(t)}
    BY <1>8 DEF Alike
  <2>0. /\ t.dport = 443 => fl.app \in {"UNKNOWN", "HTTPS"}
        /\ t.dport = 80 => fl.app \in {"UNKNOWN", "HTTP"}
    <3>1. /\ t.dport = 443 => PortApp(t) = "HTTPS" \/ PortApp(t) = "DNS"
          /\ t.dport = 80 => PortApp(t) = "HTTP" \/ PortApp(t) = "DNS"
      BY <1>2
    <3>2. fl.app = "UNKNOWN" \/ fl.app = PortApp(t)
      BY <2>2
    <3>3. fl.app # "DNS"
      BY <1>8
    <3>4. QED
      BY <3>1, <3>2, <3>3
  <2>3. CASE tls
    <3>1. named = Named(cnt, TLSName[pk])
      <4>1. t.dport = 443
        BY <2>3
      <4> HIDE DEF tls, http
      <4>2. cnt.sni = "" /\ cnt.app \in {"UNKNOWN", "HTTPS"}
        <5>1. fl.app \in {"UNKNOWN", "HTTPS"}
          BY <2>0, <4>1, Zenon
        <5>2. cnt.sni = fl.sni /\ cnt.app = fl.app /\ fl.sni = ""
          BY <1>1, <1>8
        <5>3. QED
          BY <5>1, <5>2, Zenon
      <4>3. QED
        BY <1>4, <2>3, <4>2
    <3>2. /\ named \in Flow /\ named.sni = TLSName[pk].name /\ named.app = AppOf[TLSName[pk].name]
          /\ named.blocked = fl.blocked /\ named.packets = fl.packets + 1
      BY <1>1, <1>3, <3>1 DEF Named, Flow
    <3>3. new = named
      BY <1>3, <1>6, <2>3, <3>2
    <3>4. /\ c \in Entry /\ c.sni = TLSName[pk].name /\ c.app = AppOf[TLSName[pk].name]
          /\ c.blocked = e.blocked /\ c.classified
      <4>1. c = [e EXCEPT !.sni = TLSName[pk].name, !.app = AppOf[TLSName[pk].name], !.classified = TRUE]
        BY <1>5, <2>1, <2>3
      <4>2. QED
        BY <1>3, <4>1 DEF Entry
    <3>5. Alike(t, new, c)
      <4>1. new.app = c.app /\ new.sni = c.sni /\ new.blocked = c.blocked
        BY <2>1, <3>2, <3>3, <3>4
      <4>2. new.sni # "" /\ new.app # "UNKNOWN"
        BY <1>3, <2>3, <3>2, <3>3
      <4>3. QED
        BY <3>4, <4>1, <4>2 DEF Alike
    <3>6. QED
      BY <1>3, <2>3, <3>2, <3>3, <3>4, <3>5
  <2>4. CASE ~ tls /\ http
    <3>1. named = Named(cnt, HTTPName[pk])
      <4>1. t.dport = 80
        BY <2>4
      <4> HIDE DEF tls, http
      <4>2. cnt.sni = "" /\ cnt.app \in {"UNKNOWN", "HTTP"}
        <5>1. fl.app \in {"UNKNOWN", "HTTP"}
          BY <2>0, <4>1, Zenon
        <5>2. cnt.sni = fl.sni /\ cnt.app = fl.app /\ fl.sni = ""
          BY <1>1, <1>8
        <5>3. QED
          BY <5>1, <5>2, Zenon
      <4>3. QED
        BY <1>4, <2>4, <4>2
    <3>2. /\ named \in Flow /\ named.sni = HTTPName[pk].name /\ named.app = AppOf[HTTPName[pk].name]
          /\ named.blocked = fl.blocked /\ named.packets = fl.packets + 1
      BY <1>1, <1>3, <3>1 DEF Named, Flow
    <3>3. new = named
      BY <1>3, <1>6, <2>4, <3>2
    <3>4. /\ c \in Entry /\ c.sni = HTTPName[pk].name /\ c.app = AppOf[HTTPName[pk].name]
          /\ c.blocked = e.blocked /\ c.classified
      <4>1. c = [e EXCEPT !.sni = HTTPName[pk].name, !.app = AppOf[HTTPName[pk].name], !.classified = TRUE]
        BY <1>5, <2>1, <2>4
      <4>2. QED
        BY <1>3, <4>1 DEF Entry
    <3>5. Alike(t, new, c)
      <4>1. new.app = c.app /\ new.sni = c.sni /\ new.blocked = c.blocked
        BY <2>1, <3>2, <3>3, <3>4
      <4>2. new.sni # "" /\ new.app # "UNKNOWN"
        BY <1>3, <2>4, <3>2, <3>3
      <4>3. QED
        BY <3>4, <4>1, <4>2 DEF Alike
    <3>6. t.dport # 443
      BY <2>4
    <3>7. QED
      <4>1. new \in Flow /\ new.packets = fl.packets + 1
        BY <3>2, <3>3
      <4>2. new.sni # ""
        BY <1>3, <2>4, <3>2, <3>3
      <4>3. QED
        BY <3>4, <3>5, <3>6, <4>1, <4>2
  <2>5. CASE ~ tls /\ ~ http
    <3>1. named = cnt
      BY <1>4, <2>5
    <3>2. /\ new \in Flow /\ new.sni = "" /\ new.app = PortApp(t)
          /\ new.blocked = fl.blocked /\ new.packets = fl.packets + 1
      BY <1>1, <1>2, <1>6, <1>8, <2>2, <3>1 DEF Flow
    <3>3. /\ c \in Entry /\ c.sni = "" /\ c.app = PortApp(t)
          /\ c.blocked = e.blocked /\ (c.classified <=> PortApp(t) = "DNS")
      <4> DEFINE k == PortApp(t) = "DNS"
                 a == IF PortApp(t) = "UNKNOWN" THEN e.app ELSE PortApp(t)
      <4>1. a = PortApp(t) /\ k \in BOOLEAN
        BY <2>1, <2>2
      <4>2. c = [e EXCEPT !.app = a, !.classified = k]
        BY <1>5, <2>1, <2>5
      <4> HIDE DEF a, k
      <4>3. /\ c \in Entry /\ c.sni = e.sni /\ c.app = a /\ c.blocked = e.blocked /\ c.classified = k
        <5>1. e.sni \in Names
          BY DEF Entry
        <5>2. QED
          BY <1>2, <4>1, <4>2, <5>1 DEF Entry
      <4>4. QED
        BY <2>1, <4>1, <4>3 DEF k
    <3>4. Alike(t, new, c)
      BY <2>1, <3>2, <3>3 DEF Alike
    <3>5. QED
      BY <1>8, <3>2, <3>3, <3>4
  <2>6. QED
    BY <2>3, <2>4, <2>5
<1>9. QED
  BY <1>7, <1>8 DEF new, c, cnt, Look, MTLook

(* Why a flow is blocked now, "" if it is not or has been; and the flow    *)
(* when that has been decided.                                             *)
Why(t, fl) == IF fl.blocked THEN "" ELSE IsBlockedReason(t.src, fl)
Verdict(t, fl) == [fl EXCEPT !.blocked = fl.blocked \/ Why(t, fl) # ""]
MTVerdict(t, e) == IF e.blocked THEN e ELSE [e EXCEPT !.blocked = IsBlocked(t.src, e)]

(* And both judge it in the same way.                                      *)
LEMMA SameVerdict ==
    ASSUME NEW t, NEW new \in Flow, NEW c \in Entry, Alike(t, new, c)
    PROVE  /\ Verdict(t, new) \in Flow /\ MTVerdict(t, c) \in Entry
           /\ Alike(t, Verdict(t, new), MTVerdict(t, c))
           /\ Verdict(t, new).app = new.app /\ Verdict(t, new).sni = new.sni
           /\ Verdict(t, new).packets = new.packets
           /\ Verdict(t, new).blocked = (new.blocked \/ Why(t, new) # "")
           /\ Why(t, new) # "" => ~ new.blocked
           /\ Why(t, new) \in {"", "Source IP", "App Policy", "Domain Match"}
<1> DEFINE reason == IF new.blocked THEN "" ELSE IsBlockedReason(t.src, new)
           b == new.blocked \/ reason # ""
           fl == [new EXCEPT !.blocked = b]
           k == IsBlocked(t.src, c)
           e == IF c.blocked THEN c ELSE [c EXCEPT !.blocked = k]
<1>1. /\ reason \in {"", "Source IP", "App Policy", "Domain Match"}
      /\ reason # "" => ~ new.blocked
  BY DEF IsBlockedReason
<1>2. /\ new.app = c.app /\ new.sni = c.sni /\ new.blocked = c.blocked
      /\ new.blocked \in BOOLEAN
  BY DEF Alike, Flow
<1>3. ~ new.blocked => (reason # "" <=> k)
  <2>1. IsBlockedReason(t.src, new) # "" <=> IsBlocked(t.src, c)
    BY <1>2 DEF IsBlockedReason, IsBlocked
  <2>2. QED
    BY <2>1
<1>4. b \in BOOLEAN /\ k \in BOOLEAN
  BY DEF IsBlocked
<1>5. b <=> new.blocked \/ reason # ""
  OBVIOUS
<1> HIDE DEF reason, b, k
<1>6. /\ fl \in Flow /\ fl.app = new.app /\ fl.sni = new.sni /\ fl.packets = new.packets
      /\ fl.blocked = b
  BY <1>4 DEF Flow
<1>7. /\ e \in Entry /\ e.app = c.app /\ e.sni = c.sni /\ e.classified = c.classified
      /\ e.blocked = IF c.blocked THEN c.blocked ELSE k
  BY <1>4 DEF Entry
<1> HIDE DEF fl, e
<1>8. fl.blocked = e.blocked
  <2>1. e.blocked \in BOOLEAN
    BY <1>7 DEF Entry
  <2>2. QED
    BY <1>2, <1>3, <1>4, <1>5, <1>6, <1>7, <2>1
<1>9. Alike(t, fl, e)
  BY <1>2, <1>6, <1>7, <1>8 DEF Alike
<1>10. QED
  BY <1>1, <1>6, <1>7, <1>9 DEF fl, e, b, reason, k, Why, Verdict, MTVerdict

(* One more of one kind is one more in all.                                *)
LEMMA OneMore ==
    ASSUME NEW S, IsFiniteSet(S), NEW f, NEW g, NEW y,
           \A x \in S : f[x] \in Nat,
           \A x \in S \ {y} : g[x] = f[x],
           g[y] = (IF y \in S THEN f[y] ELSE 0) + 1
    PROVE  /\ Total(f, S) \in Nat
           /\ Total(g, S \cup {y}) = Total(f, S) + 1
<1>1. Total(f, S) \in Nat
  BY TotalNat
<1>2. CASE y \in S
  <2>1. S \cup {y} = S
    BY <1>2
  <2>2. f[y] \in Nat /\ g[y] = f[y] + 1
    BY <1>2
  <2>3. \A x \in S : f[x] \in Nat /\ g[x] \in Nat /\ (x # y => f[x] = g[x])
    BY <2>2
  <2>4. PICK z \in S : z = y
    BY <1>2
  <2>5. \A x \in S : f[x] \in Nat /\ g[x] \in Nat /\ (x # z => f[x] = g[x])
    BY <2>3, <2>4
  <2>6. Total(g, S) \in Nat /\ Total(g, S) + f[z] = Total(f, S) + g[z]
    BY <2>5, TotalChange
  <2>7. QED
    BY <1>1, <2>1, <2>2, <2>4, <2>6
<1>3. CASE y \notin S
  <2>1. g[y] = 1 /\ g[y] \in Nat /\ \A x \in S : g[x] = f[x] /\ g[x] \in Nat
    BY <1>3
  <2>2. Total(g, S) = Total(f, S)
    BY <2>1, TotalSame
  <2>3. IsFiniteSet(Units(g, S))
    BY <2>1, TotalNat
  <2>4. Total(g, S \cup {y}) = Total(g, S) + g[y]
    BY <1>3, <2>1, <2>3, TotalWithOne
  <2>5. QED
    BY <1>1, <2>1, <2>2, <2>4
<1>4. QED
  BY <1>2, <1>3
----------------------------------------------------------------------------
(***************************************************************************)
(* THE INDUCTIVE INVARIANT                                                 *)
(***************************************************************************)
Sources == {t.src : t \in Tuples}

AlertRecord == [ip : Sources, reason : {"Source IP", "App Policy", "Domain Match"},
                label : AppType \cup Names]

ToolTyped ==
    /\ capture \in [1 .. MaxPackets -> PacketShapes]
    /\ kafka \in BOOLEAN
    /\ next \in 1 .. MaxPackets + 1
    /\ pc \in {"read", "emit", "publish", "export", "done"}
    /\ IsFiniteSet(DOMAIN flows) /\ flows \in [DOMAIN flows -> Flow]
    /\ mtFlows \in [DOMAIN flows -> Entry]
    /\ alerts \in Seq(AlertRecord)
    /\ output \in Seq(Nat)
    /\ counts \in [total : Nat, forwarded : Nat, dropped : Nat, sent : Nat, fail : Nat]
    /\ mtStats.dropped \in Nat
    /\ appStats \in [AppType -> Nat]
    /\ tried \subseteq DOMAIN flows
    /\ pc = "emit" => /\ next <= MaxPackets
                      /\ Accepted(Packet.headers, Packet.size)
                      /\ Packet.tuple \in DOMAIN flows

(* An FP is ahead of the tool by the packet the tool has still to write.   *)
SameInv ==
    /\ \A t \in DOMAIN flows : Alike(t, flows[t], mtFlows[t])
    /\ pc # "emit" => mtOutput = output /\ mtStats.dropped = counts.dropped
    /\ pc = "emit" => IF flows[Packet.tuple].blocked
                      THEN mtOutput = output /\ mtStats.dropped = counts.dropped + 1
                      ELSE mtOutput = Append(output, next) /\ mtStats.dropped = counts.dropped

AlertsOf(src) == {i \in DOMAIN alerts : alerts[i].ip = src}
BlockedOf(src) == {t \in DOMAIN flows : t.src = src /\ flows[t].blocked}

AlertInv ==
    /\ \A src \in Sources : Cardinality(AlertsOf(src)) = Cardinality(BlockedOf(src))
    /\ \/ exported = NotExported
       \/ pc = "done" /\ exported.alerts = alerts /\ exported.flows = flows

PacketsOf == [t \in DOMAIN flows |-> flows[t].packets]
AcceptedPackets == {p \in 1 .. next - 1 : Accepted(capture[p].headers, capture[p].size)}
Judging == IF pc = "emit" THEN 1 ELSE 0

CountInv ==
    /\ Total(PacketsOf, DOMAIN flows) = counts.forwarded + counts.dropped + Judging
    /\ Total(appStats, AppType) = counts.forwarded + counts.dropped + Judging
    /\ Cardinality(AcceptedPackets) = counts.forwarded + counts.dropped
    /\ counts.total = next - 1 + Judging
    /\ Len(output) = counts.forwarded
    /\ counts.sent + counts.fail = Cardinality(tried)
    /\ pc \in {"read", "emit"} => tried = {}
    /\ pc = "export" /\ kafka => tried = DOMAIN flows

BothInv == ToolTyped /\ SameInv /\ AlertInv /\ CountInv /\ NamesWhole
----------------------------------------------------------------------------
(***************************************************************************)
(* THE ACTIONS                                                             *)
(***************************************************************************)
Counts == [total : Nat, forwarded : Nat, dropped : Nat, sent : Nat, fail : Nat]

(* What one more of one counter leaves of the others.                      *)
LEMMA Count ==
    ASSUME NEW k \in Counts
    PROVE  /\ LET n == [k EXCEPT !.total = @ + 1]
              IN  /\ n \in Counts /\ n.total = k.total + 1 /\ n.forwarded = k.forwarded
                  /\ n.dropped = k.dropped /\ n.sent = k.sent /\ n.fail = k.fail
           /\ LET n == [k EXCEPT !.forwarded = @ + 1]
              IN  /\ n \in Counts /\ n.total = k.total /\ n.forwarded = k.forwarded + 1
                  /\ n.dropped = k.dropped /\ n.sent = k.sent /\ n.fail = k.fail
           /\ LET n == [k EXCEPT !.dropped = @ + 1]
              IN  /\ n \in Counts /\ n.total = k.total /\ n.forwarded = k.forwarded
                  /\ n.dropped = k.dropped + 1 /\ n.sent = k.sent /\ n.fail = k.fail
           /\ LET n == [k EXCEPT !.sent = @ + 1]
              IN  /\ n \in Counts /\ n.total = k.total /\ n.forwarded = k.forwarded
                  /\ n.dropped = k.dropped /\ n.sent + n.fail = k.sent + k.fail + 1
           /\ LET n == [k EXCEPT !.fail = @ + 1]
              IN  /\ n \in Counts /\ n.total = k.total /\ n.forwarded = k.forwarded
                  /\ n.dropped = k.dropped /\ n.sent + n.fail = k.sent + k.fail + 1
<1> DEFINE t == k.total + 1
           f == k.forwarded + 1
           d == k.dropped + 1
           s == k.sent + 1
           x == k.fail + 1
<1>1. /\ k.total \in Nat /\ k.forwarded \in Nat /\ k.dropped \in Nat /\ k.sent \in Nat
      /\ k.fail \in Nat /\ t \in Nat /\ f \in Nat /\ d \in Nat /\ s \in Nat /\ x \in Nat
  BY DEF Counts
<1>2. /\ [k EXCEPT !.total = @ + 1] = [k EXCEPT !.total = t]
      /\ [k EXCEPT !.forwarded = @ + 1] = [k EXCEPT !.forwarded = f]
      /\ [k EXCEPT !.dropped = @ + 1] = [k EXCEPT !.dropped = d]
      /\ [k EXCEPT !.sent = @ + 1] = [k EXCEPT !.sent = s]
      /\ [k EXCEPT !.fail = @ + 1] = [k EXCEPT !.fail = x]
  BY Zenon
<1> HIDE DEF t, f, d, s, x
<1>3. /\ LET n == [k EXCEPT !.total = t]
         IN  /\ n \in Counts /\ n.total = t /\ n.forwarded = k.forwarded
             /\ n.dropped = k.dropped /\ n.sent = k.sent /\ n.fail = k.fail
      /\ LET n == [k EXCEPT !.forwarded = f]
         IN  /\ n \in Counts /\ n.total = k.total /\ n.forwarded = f
             /\ n.dropped = k.dropped /\ n.sent = k.sent /\ n.fail = k.fail
      /\ LET n == [k EXCEPT !.dropped = d]
         IN  /\ n \in Counts /\ n.total = k.total /\ n.forwarded = k.forwarded
             /\ n.dropped = d /\ n.sent = k.sent /\ n.fail = k.fail
      /\ LET n == [k EXCEPT !.sent = s]
         IN  /\ n \in Counts /\ n.total = k.total /\ n.forwarded = k.forwarded
             /\ n.dropped = k.dropped /\ n.sent = s /\ n.fail = k.fail
      /\ LET n == [k EXCEPT !.fail = x]
         IN  /\ n \in Counts /\ n.total = k.total /\ n.forwarded = k.forwarded
             /\ n.dropped = k.dropped /\ n.sent = k.sent /\ n.fail = x
  BY <1>1 DEF Counts
<1>4. s + k.fail = k.sent + k.fail + 1 /\ k.sent + x = k.sent + k.fail + 1
  BY <1>1 DEF s, x
<1>5. t = k.total + 1 /\ f = k.forwarded + 1 /\ d = k.dropped + 1
  BY DEF t, f, d
<1>6. QED
  BY <1>2, <1>3, <1>4, <1>5

LEMMA BothInit_Inv == BothInit => BothInv
<1> SUFFICES ASSUME BothInit PROVE BothInv
  OBVIOUS
<1> USE DEF BothInit, Init, NoFlows
<1>1. DOMAIN flows = {} /\ DOMAIN mtFlows = {} /\ pc = "read" /\ next = 1
  OBVIOUS
<1>2. /\ counts.total = 0 /\ counts.forwarded = 0 /\ counts.dropped = 0
      /\ counts.sent = 0 /\ counts.fail = 0 /\ counts \in Counts
      /\ mtStats.dropped = 0
  BY DEF Counts
<1>3. ToolTyped
  <2>1. flows \in [DOMAIN flows -> Flow] /\ mtFlows \in [DOMAIN flows -> Entry]
    BY <1>1
  <2>2. IsFiniteSet(DOMAIN flows)
    BY <1>1, FS_EmptySet
  <2>3. next \in 1 .. MaxPackets + 1
    BY SingleThreadAssumption
  <2>4. /\ alerts \in Seq(AlertRecord) /\ output \in Seq(Nat)
        /\ appStats \in [AppType -> Nat] /\ tried \subseteq DOMAIN flows
    OBVIOUS
  <2>5. /\ capture \in [1 .. MaxPackets -> PacketShapes] /\ kafka \in BOOLEAN
    OBVIOUS
  <2>6. QED
    BY <1>1, <1>2, <2>1, <2>2, <2>3, <2>4, <2>5 DEF ToolTyped, Counts
<1>4. SameInv
  BY <1>1, <1>2 DEF SameInv
<1>5. AlertInv
  <2>1. ASSUME NEW src \in Sources
        PROVE  AlertsOf(src) = {} /\ BlockedOf(src) = {}
    BY <1>1 DEF AlertsOf, BlockedOf
  <2>2. QED
    <3>1. exported = NotExported
      OBVIOUS
    <3>2. QED
      BY <2>1, <3>1 DEF AlertInv
<1>6. CountInv
  <2>1. Total(PacketsOf, DOMAIN flows) = 0
    BY <1>1, TotalOfNone
  <2>2. Total(appStats, AppType) = 0
    BY TotalOfNone
  <2>3. AcceptedPackets = {}
    BY <1>1 DEF AcceptedPackets
  <2>4. Cardinality(AcceptedPackets) = 0 /\ Cardinality(tried) = 0 /\ Len(output) = 0
    BY <2>3, FS_EmptySet
  <2>5. Judging = 0 /\ pc = "read" /\ tried = {}
    BY DEF Judging
  <2>6. QED
    BY <1>1, <1>2, <2>1, <2>2, <2>4, <2>5 DEF CountInv
<1>7. NamesWhole
  BY <1>1 DEF NamesWhole
<1>8. QED
  BY <1>3, <1>4, <1>5, <1>6, <1>7 DEF BothInv

(* Whoever sent the name of a flow remains among the packets read.         *)
Sent(t, name, n) ==
    \E p \in 1 .. n :
        /\ p <= MaxPackets
        /\ capture[p].tuple = t
        /\ capture[p].payload.kind = "tls"
        /\ \E i \in DOMAIN capture[p].payload.extensions :
              LET e == capture[p].payload.extensions[i]
              IN  e.type = ServerNameExtension /\ e.name = name

LEMMA NamesKept ==
    ASSUME NamesWhole, next \in Nat, next' \in Nat, next <= next', UNCHANGED <<capture, flows>>
    PROVE  NamesWhole'
<1>1. \A t \in DOMAIN flows : t.dport = 443 /\ flows[t].sni # "" => Sent(t, flows[t].sni, next)
  BY DEF NamesWhole, Sent
<1>2. ASSUME NEW t, NEW name, Sent(t, name, next)
      PROVE  Sent(t, name, next')
  <2>1. 1 .. next \subseteq 1 .. next'
    OBVIOUS
  <2>2. QED
    BY <1>2, <2>1, Zenon DEF Sent
<1>3. ASSUME NEW t \in DOMAIN flows, t.dport = 443, flows[t].sni # ""
      PROVE  Sent(t, flows[t].sni, next')
  <2> DEFINE name == flows[t].sni
  <2>1. Sent(t, name, next)
    BY <1>1, <1>3
  <2> HIDE DEF name
  <2>2. Sent(t, name, next')
    BY <1>2, <2>1
  <2>3. QED
    BY <2>2 DEF name
<1>4. capture' = capture /\ flows' = flows
  OBVIOUS
<1>5. SUFFICES ASSUME NEW t \in DOMAIN flows', t.dport = 443, flows'[t].sni # ""
               PROVE  \E p \in 1 .. next' :
                          /\ p <= MaxPackets
                          /\ capture'[p].tuple = t
                          /\ capture'[p].payload.kind = "tls"
                          /\ \E i \in DOMAIN capture'[p].payload.extensions :
                                LET e == capture'[p].payload.extensions[i]
                                IN  e.type = ServerNameExtension /\ e.name = flows'[t].sni
  BY DEF NamesWhole
<1>6. Sent(t, flows[t].sni, next')
  <2>1. DOMAIN flows' = DOMAIN flows /\ flows'[t].sni = flows[t].sni
    BY <1>4, Zenon
  <2>2. t \in DOMAIN flows /\ flows[t].sni # "" /\ t.dport = 443
    BY <1>5, <2>1, Zenon
  <2>3. QED
    BY <1>3, <2>2
<1>7. QED
  BY <1>4, <1>6, Zenon DEF Sent

(* A packet the engines do not go on with changes the counts only.         *)
LEMMA MTSkip_Inv == BothInv /\ MTSkip => BothInv'
<1> SUFFICES ASSUME BothInv, MTSkip PROVE BothInv'
  OBVIOUS
<1>1. /\ pc = "read" /\ next <= MaxPackets /\ ~ Accepted(Packet.headers, Packet.size)
      /\ counts' = [counts EXCEPT !.total = @ + 1]
      /\ next' = next + 1
      /\ UNCHANGED <<capture, rules, kafka, pc, flows, alerts, output, appStats, tried, exported,
                     mtFlows, mtOutput, mtStats>>
  BY DEF MTSkip, ReadSkip
<1>2. next \in Nat /\ next >= 1 /\ counts \in Counts
  BY DEF BothInv, ToolTyped, Counts
<1>3. /\ counts' \in Counts /\ counts'.total = counts.total + 1
      /\ counts'.forwarded = counts.forwarded
      /\ counts'.dropped = counts.dropped /\ counts'.sent = counts.sent /\ counts'.fail = counts.fail
  BY <1>1, <1>2, Count
<1>4. ToolTyped'
  <2>1. next' \in 1 .. MaxPackets + 1
    BY <1>1, <1>2, SingleThreadAssumption
  <2>2. counts' \in [total : Nat, forwarded : Nat, dropped : Nat, sent : Nat, fail : Nat]
    BY <1>3 DEF Counts
  <2>3. QED
    BY <1>1, <2>1, <2>2 DEF BothInv, ToolTyped
<1>5. SameInv'
  BY <1>1, <1>3 DEF BothInv, SameInv
<1>6. AlertInv'
  BY <1>1 DEF BothInv, AlertInv, AlertsOf, BlockedOf
<1>7. CountInv'
  <2>1. AcceptedPackets' = AcceptedPackets
    BY <1>1, <1>2 DEF AcceptedPackets, Packet
  <2>2. PacketsOf' = PacketsOf /\ Judging' = Judging /\ Judging = 0
    BY <1>1 DEF PacketsOf, Judging
  <2>3. counts.total \in Nat
    BY <1>2 DEF Counts
  <2>4. QED
    BY <1>1, <1>2, <1>3, <2>1, <2>2, <2>3 DEF BothInv, CountInv
<1>8. NamesWhole'
  BY <1>1, <1>2, NamesKept DEF BothInv
<1>9. QED
  BY <1>4, <1>5, <1>6, <1>7, <1>8 DEF BothInv

(* The flow of the packet at hand, before it; when it has been looked at;  *)
(* and when it is judged.                                                  *)
Before == FlowOf(flows, Packet.tuple)
Looked == Look(Before, Packet)
Reason == Why(Packet.tuple, Looked)
Judged == Verdict(Packet.tuple, Looked)

(* The same of the entry of an FP.                                         *)
EntryBefore == EntryOf(Packet.tuple)
EntryLooked == MTLook(EntryBefore, Packet)
EntryJudged == MTVerdict(Packet.tuple, EntryLooked)

LEMMA PacketAtHand ==
    ASSUME ToolTyped, next <= MaxPackets
    PROVE  next \in 1 .. MaxPackets /\ Packet \in PacketShapes
<1>1. MaxPackets \in Nat
  BY SingleThreadAssumption
<1>2. next \in 1 .. MaxPackets + 1
  BY DEF ToolTyped
<1>3. next \in 1 .. MaxPackets
  BY <1>1, <1>2
<1>4. capture[next] \in PacketShapes
  BY <1>3 DEF ToolTyped
<1>5. QED
  BY <1>3, <1>4 DEF Packet

LEMMA PacketJudged ==
    ASSUME ToolTyped, SameInv, Packet \in PacketShapes, Accepted(Packet.headers, Packet.size)
    PROVE  /\ Before \in Flow /\ Judged \in Flow /\ EntryJudged \in Entry
           /\ Alike(Packet.tuple, Judged, EntryJudged)
           /\ Judged.packets = Before.packets + 1
           /\ Judged.app = Looked.app /\ Judged.sni = Looked.sni
           /\ Judged.blocked = (Before.blocked \/ Reason # "")
           /\ Reason # "" => ~ Before.blocked
           /\ Reason \in {"", "Source IP", "App Policy", "Domain Match"}
           /\ Judged.sni # Before.sni /\ Packet.tuple.dport = 443 =>
                 TLSName[Packet].found /\ Judged.sni = TLSName[Packet].name
<1>1. Before \in Flow /\ EntryBefore \in Entry /\ Alike(Packet.tuple, Before, EntryBefore)
  <2> DEFINE t == Packet.tuple
  <2>1. CASE t \in DOMAIN flows
    <3>1. Before = flows[t] /\ EntryBefore = mtFlows[t]
      BY <2>1 DEF Before, EntryBefore, FlowOf, EntryOf, ToolTyped
    <3>2. QED
      BY <2>1, <3>1 DEF ToolTyped, SameInv
  <2>2. CASE t \notin DOMAIN flows
    <3>1. Before = NewFlow /\ EntryBefore = NewEntry
      BY <2>2 DEF Before, EntryBefore, FlowOf, EntryOf, ToolTyped
    <3>2. NewFlow \in Flow /\ NewEntry \in Entry
      BY AppTypes DEF NewFlow, NewEntry, Flow, Entry, Names
    <3>3. Alike(t, NewFlow, NewEntry)
      BY DEF Alike, NewFlow, NewEntry
    <3>4. QED
      BY <3>1, <3>2, <3>3
  <2>3. QED
    BY <2>1, <2>2
<1>2. /\ Looked \in Flow /\ EntryLooked \in Entry /\ Alike(Packet.tuple, Looked, EntryLooked)
      /\ Looked.packets = Before.packets + 1
      /\ Looked.sni # Before.sni /\ Packet.tuple.dport = 443 =>
            TLSName[Packet].found /\ Looked.sni = TLSName[Packet].name
  BY <1>1, SameClass DEF Looked, EntryLooked
<1>3. Looked.blocked = Before.blocked
  BY DEF Looked, Look, STClassified, STNamed, Named, Counted
<1>4. /\ Judged \in Flow /\ EntryJudged \in Entry /\ Alike(Packet.tuple, Judged, EntryJudged)
      /\ Judged.app = Looked.app /\ Judged.sni = Looked.sni /\ Judged.packets = Looked.packets
      /\ Judged.blocked = (Looked.blocked \/ Reason # "")
      /\ Reason # "" => ~ Looked.blocked
      /\ Reason \in {"", "Source IP", "App Policy", "Domain Match"}
  BY <1>2, SameVerdict DEF Judged, EntryJudged, Reason
<1>5. /\ Judged.packets = Before.packets + 1
      /\ Judged.sni # Before.sni /\ Packet.tuple.dport = 443 =>
            TLSName[Packet].found /\ Judged.sni = TLSName[Packet].name
  <2>1. Judged.packets = Looked.packets /\ Judged.sni = Looked.sni
    BY <1>4
  <2>2. Looked.packets = Before.packets + 1
    BY <1>2
  <2>3. Looked.sni # Before.sni /\ Packet.tuple.dport = 443 =>
            TLSName[Packet].found /\ Looked.sni = TLSName[Packet].name
    BY <1>2
  <2>4. QED
    BY <2>1, <2>2, <2>3
<1>6. Judged.blocked = (Before.blocked \/ Reason # "") /\ (Reason # "" => ~ Before.blocked)
  BY <1>3, <1>4
<1>7. QED
  BY <1>1, <1>4, <1>5, <1>6

(* What the step does, in these words.                                     *)
LEMMA PacketRead ==
    ASSUME ToolTyped, SameInv, MTProcess
    PROVE  /\ pc = "read" /\ next \in 1 .. MaxPackets
           /\ Packet \in PacketShapes /\ Accepted(Packet.headers, Packet.size)
           /\ flows' = With(flows, Packet.tuple, Judged)
           /\ mtFlows' = With(mtFlows, Packet.tuple, EntryJudged)
           /\ alerts' = IF Reason = "" THEN alerts
                        ELSE Append(alerts, Alert(Packet.tuple, Judged, Reason))
           /\ appStats' = [appStats EXCEPT ![Judged.app] = @ + 1]
           /\ mtOutput' = IF Judged.blocked THEN mtOutput ELSE Append(mtOutput, next)
           /\ mtStats'.dropped = mtStats.dropped + (IF Judged.blocked THEN 1 ELSE 0)
<1>1. /\ pc = "read" /\ next <= MaxPackets /\ Accepted(Packet.headers, Packet.size)
      /\ flows' = With(flows, Packet.tuple, Judged)
      /\ alerts' = IF Reason = "" THEN alerts ELSE Append(alerts, Alert(Packet.tuple, Looked, Reason))
      /\ appStats' = [appStats EXCEPT ![Looked.app] = @ + 1]
  BY Zenon DEF MTProcess, ReadPacket, Judged, Reason, Looked, Before, Look, Why, Verdict
<1>2. MTJudged(EntryOf(Packet.tuple), Packet) = EntryJudged
  BY DEF MTJudged, EntryJudged, EntryLooked, EntryBefore, MTLook, MTVerdict
<1>3. /\ mtFlows' = With(mtFlows, Packet.tuple, EntryJudged)
      /\ mtOutput' = IF EntryJudged.blocked THEN mtOutput ELSE Append(mtOutput, next)
      /\ mtStats'.dropped = mtStats.dropped + (IF EntryJudged.blocked THEN 1 ELSE 0)
  BY <1>2 DEF MTProcess
<1>4. next \in 1 .. MaxPackets /\ Packet \in PacketShapes
  BY <1>1, PacketAtHand
<1>5. /\ Alike(Packet.tuple, Judged, EntryJudged)
      /\ Judged.app = Looked.app /\ Judged.sni = Looked.sni
  BY <1>1, <1>4, PacketJudged
<1>6. EntryJudged.blocked = Judged.blocked
  BY <1>5 DEF Alike
<1>7. Alert(Packet.tuple, Looked, Reason) = Alert(Packet.tuple, Judged, Reason)
  BY <1>5 DEF Alert
<1>8. QED
  BY <1>1, <1>3, <1>4, <1>5, <1>6, <1>7

LEMMA SizesOfHello ==
    ASSUME NEW m, SentHello(m)
    PROVE  /\ ExtensionsAt(m) \in Nat /\ m.captured \in Nat
           /\ ExtensionsAt(m) + 2 + m.extensionsLength \in Nat
<1>1. /\ m.captured \in Nat /\ m.sessionId \in Nat /\ m.ciphers \in Nat /\ m.compression \in Nat
      /\ m.extensionsLength \in Nat
  BY DEF SentHello
<1>2. QED
  BY <1>1 DEF ExtensionsAt, CompressionAt, CiphersAt, BodyBegin, RecordHeader

(* An extension begins after those before it: the fold adds their lengths. *)
LEMMA BodyNat ==
    ASSUME NEW m, SentHello(m), NEW i \in DOMAIN m.extensions
    PROVE  ExtensionBody(m, i) \in Nat
<1> DEFINE s == SubSeq(m.extensions, 1, i - 1)
           S == DOMAIN s
           f == [j \in S |-> s[j].length]
           c == [T \in SUBSET S |-> Max(T)]
           Taken(g) == [T \in SUBSET S |-> IF T = {} THEN 0 ELSE g[T \ {Max(T)}] + s[Max(T)].length]
<1>1. /\ i \in Nat /\ i >= 1 /\ S = 1 .. i - 1
      /\ \A j \in S : s[j] = m.extensions[j] /\ j \in DOMAIN m.extensions
  <2>1. /\ m.extensions \in Seq({m.extensions[j] : j \in DOMAIN m.extensions})
        /\ DOMAIN m.extensions = 1 .. Len(m.extensions) /\ Len(m.extensions) \in Nat
    BY DEF SentHello
  <2>2. i \in 1 .. Len(m.extensions)
    BY <2>1
  <2>3. i \in Nat /\ i >= 1
    BY <2>1, <2>2
  <2>4. \A j \in 1 .. i - 1 : m.extensions[j] \in {m.extensions[k] : k \in DOMAIN m.extensions}
    <3>1. \A j \in 1 .. i - 1 : j \in DOMAIN m.extensions
      BY <2>1, <2>2
    <3>2. QED
      BY <3>1, Zenon
  <2> DEFINE X == {m.extensions[k] : k \in DOMAIN m.extensions}
             x == m.extensions
             k == i - 1
  <2>5. k \in Nat /\ 1 \in Int
    BY <2>3
  <2> HIDE DEF X, x, k
  <2>6. /\ SubSeq(x, 1, k) \in Seq(X)
        /\ Len(SubSeq(x, 1, k)) = IF 1 <= k THEN k - 1 + 1 ELSE 0
        /\ \A j \in 1 .. k - 1 + 1 : SubSeq(x, 1, k)[j] = x[1 + j - 1]
    BY <2>4, <2>5, SubSeqProperties DEF X, x, k
  <2>7. /\ DOMAIN SubSeq(x, 1, k) = 1 .. k
        /\ \A j \in 1 .. k : SubSeq(x, 1, k)[j] = x[j]
    BY <2>5, <2>6
  <2>8. QED
    <3>1. S = 1 .. i - 1 /\ \A j \in S : s[j] = m.extensions[j]
      BY <2>7 DEF x, k
    <3>2. \A j \in 1 .. i - 1 : j \in DOMAIN m.extensions
      BY <2>1, <2>2
    <3>3. QED
      BY <2>3, <3>1, <3>2, Zenon
<1> HIDE DEF s
<1>2. IsFiniteSet(S) /\ S \subseteq Nat
  BY <1>1, Numbers
<1>3. \A j \in S : f[j] \in Nat
  BY <1>1 DEF SentHello
<1>4. \A T \in SUBSET S : T # {} => Max(T) \in T
  <2> SUFFICES ASSUME NEW T \in SUBSET S, T # {} PROVE Max(T) \in T
    OBVIOUS
  <2>1. IsFiniteSet(T) /\ T \subseteq Nat
    BY <1>2, FS_Subset
  <2>2. \E x \in T : \A y \in T : y <= x
    BY <2>1, Extremes
  <2>3. \E x \in T : \A y \in T : x >= y
    BY <2>1, <2>2
  <2>4. QED
    BY <2>3 DEF Max
<1>5. Chooses(c, S)
  BY <1>4 DEF Chooses
<1>6. \A g : FoldsBy(g, f, c, S) <=> g = Taken(g)
  <2>1. ASSUME NEW g, NEW T \in SUBSET S
        PROVE  (IF T = {} THEN 0 ELSE g[T \ {c[T]}] + f[c[T]])
                 = (IF T = {} THEN 0 ELSE g[T \ {Max(T)}] + s[Max(T)].length)
    BY <1>4
  <2>2. ASSUME NEW g
        PROVE  [T \in SUBSET S |-> IF T = {} THEN 0 ELSE g[T \ {c[T]}] + f[c[T]]] = Taken(g)
    BY <2>1, Zenon
  <2>3. QED
    BY <2>2, Zenon DEF FoldsBy
<1>7. (CHOOSE g : FoldsBy(g, f, c, S))[S] = Total(f, S)
  <2> HIDE DEF S, f, c
  <2>1. QED
    BY <1>2, <1>3, <1>5, FoldedTotal
<1>8. Total(f, S) \in Nat
  <2> HIDE DEF S, f
  <2>1. QED
    BY <1>2, <1>3, TotalNat
<1>9. (CHOOSE g : FoldsBy(g, f, c, S)) = (CHOOSE g : g = Taken(g))
  BY <1>6, Zenon
<1>10. FoldLeft(LAMBDA sum, e : sum + e.length, 0, s) = (CHOOSE g : g = Taken(g))[S]
  BY DEF FoldLeft, MapThenFoldSet
<1> DEFINE n == FoldLeft(LAMBDA sum, e : sum + e.length, 0, s)
<1>11. n \in Nat
  BY <1>7, <1>8, <1>9, <1>10
<1>12. ExtensionBody(m, i) = ExtensionsAt(m) + 2 + 4 * i + n
  BY Zenon DEF ExtensionBody, s
<1>13. ExtensionsAt(m) \in Nat
  BY SizesOfHello
<1> HIDE DEF n
<1>14. QED
  BY <1>1, <1>11, <1>12, <1>13

LEMMA FoundIsNotNone ==
    ASSUME NEW r, r.found
    PROVE  r # NoName
<1>1. NoName.found = FALSE
  BY DEF NoName
<1>2. QED
  BY <1>1

(* The name found in a ClientHello is one its sender wrote, to the end.    *)
LEMMA WholeName ==
    ASSUME NEW pk \in PacketShapes, TLSName[pk].found
    PROVE  /\ pk.payload.kind = "tls"
           /\ \E i \in DOMAIN pk.payload.extensions :
                 LET e == pk.payload.extensions[i]
                 IN  e.type = ServerNameExtension /\ e.name = TLSName[pk].name
<1> DEFINE m == pk.payload
           reached == {i \in DOMAIN m.extensions :
                          ExtensionBody(m, i) + m.extensions[i].length <= ExtensionsEnd(m)}
           names == {i \in reached : m.extensions[i].type = ServerNameExtension}
           first == CHOOSE i \in names : \A j \in names : i <= j
<1>1. TLSName[pk] = FoundInTLS(m)
  BY DEF TLSName
<1>2. m.kind = "tls" /\ TLSName[pk] = ServerName(m)
  <2>1. TLSName[pk] = IF m.kind = "tls" THEN ServerName(m) ELSE NoName
    BY <1>1, Zenon DEF FoundInTLS
  <2>2. TLSName[pk] # NoName
    BY FoundIsNotNone
  <2>3. QED
    BY <2>1, <2>2, Zenon
<1>3. SentHello(m)
  BY <1>2, ComparisonAssumption
<1>4. names # {} /\ WellFormedName(m.extensions[first]) /\ TLSName[pk] = Name(NameBytes(m, first))
  <2>1. TLSName[pk] # NoName
    BY FoundIsNotNone
  <2>2. ServerName(m) = IF /\ IsTLSClientHello(m)
                           /\ BodyBegin < m.captured
                           /\ CiphersAt(m) + 2 <= m.captured
                           /\ CompressionAt(m) < m.captured
                           /\ ExtensionsAt(m) + 2 <= m.captured
                           /\ names # {}
                           /\ WellFormedName(m.extensions[first])
                        THEN Name(NameBytes(m, first)) ELSE NoName
    BY Zenon DEF ServerName
  <2>3. QED
    BY <1>2, <2>1, <2>2, Zenon
<1>5. first \in names
  <2>1. names \subseteq Nat
    BY <1>3 DEF SentHello
  <2>2. IsFiniteSet(names)
    <3>1. DOMAIN m.extensions = 1 .. Len(m.extensions) /\ Len(m.extensions) \in Nat
      BY <1>3 DEF SentHello
    <3>2. names \subseteq DOMAIN m.extensions
      OBVIOUS
    <3>3. QED
      BY <3>1, <3>2, Numbers, FS_Subset
  <2>3. \E i \in names : \A j \in names : i <= j
    <3> HIDE DEF names
    <3>1. QED
      BY <1>4, <2>1, <2>2, Extremes
  <2>4. QED
    BY <2>3
<1>6. /\ first \in DOMAIN m.extensions /\ m.extensions[first].type = ServerNameExtension
      /\ ExtensionBody(m, first) + m.extensions[first].length <= ExtensionsEnd(m)
  BY <1>5
<1> HIDE DEF first, m
<1>7. ExtensionBody(m, first) \in Nat
  BY <1>3, <1>6, BodyNat
<1>8. NameBytes(m, first) = m.extensions[first].name
  <2> DEFINE e == m.extensions[first]
             last == m.captured - (ExtensionBody(m, first) + 5)
  <2>1. /\ e.length \in Nat /\ e.nameLength \in Nat /\ m.captured \in Nat
        /\ SubSeq(e.name, 1, e.nameLength) = e.name
    BY <1>3, <1>6 DEF SentHello
  <2>2. e.nameLength <= e.length - 5
    BY <1>4 DEF WellFormedName
  <2>3. ExtensionsEnd(m) <= m.captured
    BY <1>3, SizesOfHello DEF ExtensionsEnd
  <2>4. ExtensionsEnd(m) \in Nat
    BY <1>3, SizesOfHello DEF ExtensionsEnd
  <2>5. ~ last < e.nameLength
    <3> DEFINE b == ExtensionBody(m, first)
               l == e.length
               n == e.nameLength
               k == ExtensionsEnd(m)
               c == m.captured
    <3>1. /\ b \in Nat /\ l \in Nat /\ n \in Nat /\ k \in Nat /\ c \in Nat
          /\ b + l <= k /\ n <= l - 5 /\ k <= c
      BY <1>6, <1>7, <2>1, <2>2, <2>3, <2>4
    <3> HIDE DEF b, l, n, k, c
    <3>2. ~ c - (b + 5) < n
      BY <3>1
    <3>3. QED
      BY <3>2 DEF b, n, c
  <2>6. QED
    BY <2>1, <2>5 DEF NameBytes
<1>9. TLSName[pk].name = m.extensions[first].name
  BY <1>4, <1>8 DEF Name
<1>10. QED
  BY <1>2, <1>6, <1>9 DEF m

(* The table of flows with the packet's flow judged.                       *)
LEMMA Table ==
    ASSUME NEW f, NEW t, NEW v
    PROVE  /\ DOMAIN With(f, t, v) = DOMAIN f \cup {t}
           /\ With(f, t, v)[t] = v
           /\ \A u \in DOMAIN f \ {t} : With(f, t, v)[u] = f[u]
BY DEF With

LEMMA MTProcess_Inv == BothInv /\ MTProcess => BothInv'
<1> SUFFICES ASSUME BothInv, MTProcess PROVE BothInv'
  OBVIOUS
<1> DEFINE t == Packet.tuple
<1>1. ToolTyped /\ SameInv /\ AlertInv /\ CountInv /\ NamesWhole
  BY DEF BothInv
<1>2. /\ pc = "read" /\ next \in 1 .. MaxPackets
      /\ Packet \in PacketShapes /\ Accepted(Packet.headers, Packet.size)
      /\ flows' = With(flows, t, Judged)
      /\ mtFlows' = With(mtFlows, t, EntryJudged)
      /\ alerts' = IF Reason = "" THEN alerts ELSE Append(alerts, Alert(t, Judged, Reason))
      /\ appStats' = [appStats EXCEPT ![Judged.app] = @ + 1]
      /\ mtOutput' = IF Judged.blocked THEN mtOutput ELSE Append(mtOutput, next)
      /\ mtStats'.dropped = mtStats.dropped + (IF Judged.blocked THEN 1 ELSE 0)
  BY <1>1, PacketRead
<1>3. /\ counts' = [counts EXCEPT !.total = @ + 1]
      /\ pc' = "emit"
      /\ UNCHANGED <<capture, rules, kafka, next, output, tried, exported>>
  BY DEF MTProcess, ReadPacket
<1>4. /\ Before \in Flow /\ Judged \in Flow /\ EntryJudged \in Entry
      /\ Alike(t, Judged, EntryJudged)
      /\ Judged.packets = Before.packets + 1
      /\ Judged.blocked = (Before.blocked \/ Reason # "")
      /\ Reason # "" => ~ Before.blocked
      /\ Reason \in {"", "Source IP", "App Policy", "Domain Match"}
      /\ Judged.sni # Before.sni /\ t.dport = 443 =>
            TLSName[Packet].found /\ Judged.sni = TLSName[Packet].name
  BY <1>1, <1>2, PacketJudged
<1>5. /\ t \in DOMAIN flows => Before = flows[t]
      /\ t \notin DOMAIN flows => Before.packets = 0 /\ Before.sni = "" /\ Before.blocked = FALSE
  BY DEF Before, FlowOf, NewFlow
<1>6. /\ counts' \in Counts /\ counts'.total = counts.total + 1
      /\ counts'.forwarded = counts.forwarded
      /\ counts'.dropped = counts.dropped /\ counts'.sent = counts.sent /\ counts'.fail = counts.fail
  <2>1. counts \in Counts
    BY <1>1 DEF ToolTyped, Counts
  <2>2. QED
    BY <1>3, <2>1, Count
<1>7. Packet' = Packet
  BY <1>3 DEF Packet
<1>8. t \in Tuples /\ t.src \in Sources
  BY <1>2 DEF Tuples, Sources
<1>9. DOMAIN mtFlows = DOMAIN flows
  BY <1>1 DEF ToolTyped
<1> HIDE DEF t
<1>a. /\ IsFiniteSet(DOMAIN flows) /\ flows \in [DOMAIN flows -> Flow]
      /\ mtFlows \in [DOMAIN flows -> Entry]
  BY <1>1 DEF ToolTyped
<1>b. /\ alerts \in Seq(AlertRecord) /\ output \in Seq(Nat) /\ appStats \in [AppType -> Nat]
      /\ mtStats.dropped \in Nat
  BY <1>1 DEF ToolTyped
<1>c. flows' = With(flows, t, Judged) /\ mtFlows' = With(mtFlows, t, EntryJudged)
  BY <1>2
<1>d. alerts' = IF Reason = "" THEN alerts ELSE Append(alerts, Alert(t, Judged, Reason))
  BY <1>2
<1>e. appStats' = [appStats EXCEPT ![Judged.app] = @ + 1]
  BY <1>2
<1>f. /\ mtOutput' = IF Judged.blocked THEN mtOutput ELSE Append(mtOutput, next)
      /\ mtStats'.dropped = mtStats.dropped + (IF Judged.blocked THEN 1 ELSE 0)
  BY <1>2
<1>g. Judged.app \in AppType /\ Judged.sni \in Names /\ Judged.packets \in Nat
  BY <1>4 DEF Flow
<1>10. /\ DOMAIN flows' = DOMAIN flows \cup {t} /\ flows'[t] = Judged
       /\ \A u \in DOMAIN flows \ {t} : flows'[u] = flows[u]
  BY <1>c DEF With
<1>11. /\ DOMAIN mtFlows' = DOMAIN flows \cup {t} /\ mtFlows'[t] = EntryJudged
       /\ \A u \in DOMAIN flows \ {t} : mtFlows'[u] = mtFlows[u]
  BY <1>9, <1>c DEF With
<1>12. ToolTyped'
  <2>1. IsFiniteSet(DOMAIN flows')
    BY <1>a, <1>10, FS_AddElement
  <2>2. flows' \in [DOMAIN flows' -> Flow]
    <3>1. \A u \in DOMAIN flows' : flows'[u] \in Flow
      BY <1>a, <1>4, <1>10
    <3>2. flows' = [u \in DOMAIN flows' |-> flows'[u]]
      BY <1>c, <1>10, Zenon DEF With
    <3>3. QED
      BY <3>1, <3>2
  <2>3. mtFlows' \in [DOMAIN flows' -> Entry]
    <3>1. \A u \in DOMAIN flows' : mtFlows'[u] \in Entry
      BY <1>a, <1>4, <1>10, <1>11
    <3>2. mtFlows' = [u \in DOMAIN flows' |-> mtFlows'[u]]
      BY <1>c, <1>9, <1>10, <1>11, Zenon DEF With
    <3>3. QED
      BY <3>1, <3>2
  <2>4. alerts' \in Seq(AlertRecord)
    <3>1. CASE Reason = ""
      BY <1>b, <1>d, <3>1
    <3>2. CASE Reason # ""
      <4>1. Alert(t, Judged, Reason) \in AlertRecord
        BY <1>4, <1>8, <1>g, <3>2 DEF Alert, AlertRecord
      <4>2. QED
        <5>1. alerts' = Append(alerts, Alert(t, Judged, Reason))
          BY <1>d, <3>2
        <5>2. QED
          BY <1>b, <4>1, <5>1
    <3>3. QED
      BY <3>1, <3>2
  <2>5. appStats' \in [AppType -> Nat]
    BY <1>b, <1>e, <1>g
  <2>6. mtStats'.dropped \in Nat
    BY <1>b, <1>f
  <2>7. tried' \subseteq DOMAIN flows'
    BY <1>1, <1>3, <1>10 DEF ToolTyped
  <2>8. (next <= MaxPackets /\ Accepted(Packet.headers, Packet.size) /\ Packet.tuple \in DOMAIN flows)'
    <3>1. next' <= MaxPackets
      <4>1. MaxPackets \in Nat /\ next \in 1 .. MaxPackets /\ next' = next
        BY <1>2, <1>3, SingleThreadAssumption
      <4>2. QED
        BY <4>1
    <3>2. Packet'.tuple \in DOMAIN flows'
      BY <1>7, <1>10 DEF t
    <3>3. Accepted(Packet'.headers, Packet'.size)
      BY <1>2, <1>7
    <3>4. QED
      BY <3>1, <3>2, <3>3
  <2>9. counts' \in [total : Nat, forwarded : Nat, dropped : Nat, sent : Nat, fail : Nat]
    BY <1>6 DEF Counts
  <2>10. QED
    BY <1>1, <1>3, <2>1, <2>2, <2>3, <2>4, <2>5, <2>6, <2>7, <2>8, <2>9 DEF ToolTyped
<1>13. SameInv'
  <2>1. \A u \in DOMAIN flows' : Alike(u, flows'[u], mtFlows'[u])
    BY <1>1, <1>4, <1>10, <1>11 DEF SameInv
  <2>2. /\ mtOutput = output /\ mtStats.dropped = counts.dropped
        /\ mtStats.dropped \in Nat
    BY <1>1, <1>2 DEF SameInv, ToolTyped
  <2>3. flows'[Packet'.tuple] = Judged
    BY <1>7, <1>10 DEF t
  <2>4. IF flows'[Packet'.tuple].blocked
        THEN mtOutput' = output' /\ mtStats'.dropped = counts'.dropped + 1
        ELSE mtOutput' = Append(output', next') /\ mtStats'.dropped = counts'.dropped
    <3>1. output' = output /\ next' = next
      BY <1>3
    <3>2. counts'.dropped = counts.dropped
      BY <1>6
    <3>3. QED
      BY <1>f, <2>2, <2>3, <3>1, <3>2
  <2>5. (\A u \in DOMAIN flows : Alike(u, flows[u], mtFlows[u]))'
    <3>1. SUFFICES ASSUME NEW u \in DOMAIN flows' PROVE Alike(u, flows[u], mtFlows[u])'
      OBVIOUS
    <3>2. Alike(u, flows'[u], mtFlows'[u])
      BY <2>1
    <3>3. QED
      BY <3>2 DEF Alike, PortApp
  <2>6. QED
    BY <1>3, <2>4, <2>5 DEF SameInv
<1>14. AlertInv'
  <2>1. ASSUME NEW src \in Sources
        PROVE  Cardinality(AlertsOf(src))' = Cardinality(BlockedOf(src))'
    <3>1. Cardinality(AlertsOf(src)) = Cardinality(BlockedOf(src))
      BY <1>1, <2>1 DEF AlertInv
    <3>2. AlertsOf(src)' = {i \in DOMAIN alerts' : alerts'[i].ip = src}
      BY DEF AlertsOf
    <3>3. BlockedOf(src)' = {u \in DOMAIN flows' : u.src = src /\ flows'[u].blocked}
      BY DEF BlockedOf
    <3>4. CASE Reason = "" \/ t.src # src
      <4>1. AlertsOf(src)' = AlertsOf(src)
        <5>1. CASE Reason = ""
          BY <1>d, <3>2, <5>1 DEF AlertsOf
        <5>2. CASE Reason # "" /\ t.src # src
          <6>1. alerts' = Append(alerts, Alert(t, Judged, Reason)) /\ Alert(t, Judged, Reason).ip # src
            BY <1>d, <5>2 DEF Alert
          <6>2. /\ DOMAIN alerts = 1 .. Len(alerts) /\ Len(alerts) \in Nat
                /\ DOMAIN alerts' = 1 .. Len(alerts) + 1
                /\ alerts'[Len(alerts) + 1].ip # src
                /\ \A i \in DOMAIN alerts : alerts'[i] = alerts[i]
            BY <1>b, <6>1
          <6>3. QED
            BY <3>2, <6>2 DEF AlertsOf
        <5>3. QED
          BY <3>4, <5>1, <5>2
      <4>2. BlockedOf(src)' = BlockedOf(src)
        <5>1. t.src = src => (Judged.blocked <=> t \in DOMAIN flows /\ flows[t].blocked)
          BY <1>4, <1>5, <1>a, <3>4 DEF Flow
        <5>2. QED
          BY <1>10, <3>3, <5>1 DEF BlockedOf
      <4>3. QED
        BY <3>1, <4>1, <4>2
    <3>5. CASE Reason # "" /\ t.src = src
      <4>1. /\ DOMAIN alerts = 1 .. Len(alerts) /\ Len(alerts) \in Nat
            /\ DOMAIN alerts' = 1 .. Len(alerts) + 1
            /\ alerts'[Len(alerts) + 1].ip = src
            /\ \A i \in DOMAIN alerts : alerts'[i] = alerts[i]
        <5>1. alerts' = Append(alerts, Alert(t, Judged, Reason)) /\ Alert(t, Judged, Reason).ip = src
          BY <1>d, <3>5 DEF Alert
        <5>2. QED
          BY <1>b, <5>1
      <4>2. AlertsOf(src)' = AlertsOf(src) \cup {Len(alerts) + 1} /\ Len(alerts) + 1 \notin AlertsOf(src)
        BY <3>2, <4>1 DEF AlertsOf
      <4>3. BlockedOf(src)' = BlockedOf(src) \cup {t} /\ t \notin BlockedOf(src)
        <5>1. Judged.blocked /\ (t \in DOMAIN flows => ~ flows[t].blocked)
          BY <1>4, <1>5, <3>5
        <5>2. QED
          <6>1. t \notin BlockedOf(src) /\ t \in BlockedOf(src)'
            BY <1>10, <3>3, <3>5, <5>1 DEF BlockedOf
          <6>2. \A u : u # t => (u \in BlockedOf(src)' <=> u \in BlockedOf(src))
            BY <1>10, <3>3 DEF BlockedOf
          <6>3. QED
            BY <6>1, <6>2
      <4>4. IsFiniteSet(AlertsOf(src)) /\ IsFiniteSet(BlockedOf(src))
        <5>1. AlertsOf(src) \subseteq 1 .. Len(alerts) /\ IsFiniteSet(1 .. Len(alerts))
          BY <4>1, Numbers DEF AlertsOf
        <5>2. BlockedOf(src) \subseteq DOMAIN flows
          BY DEF BlockedOf
        <5>3. QED
          BY <1>a, <5>1, <5>2, FS_Subset
      <4>5. /\ Cardinality(AlertsOf(src) \cup {Len(alerts) + 1}) = Cardinality(AlertsOf(src)) + 1
            /\ Cardinality(BlockedOf(src) \cup {t}) = Cardinality(BlockedOf(src)) + 1
        BY <4>2, <4>3, <4>4, FS_AddElement
      <4>6. QED
        BY <3>1, <4>2, <4>3, <4>5
    <3>6. QED
      BY <3>4, <3>5
  <2>2. exported' = NotExported
    BY <1>1, <1>2, <1>3 DEF AlertInv, NotExported, NoFlows
  <2>3. QED
    BY <2>1, <2>2 DEF AlertInv, NotExported, NoFlows
<1>15. CountInv'
  <2>1. /\ Total(PacketsOf, DOMAIN flows) \in Nat
        /\ Total(PacketsOf', DOMAIN flows') = Total(PacketsOf, DOMAIN flows) + 1
    <3>1. \A u \in DOMAIN flows : PacketsOf[u] \in Nat
      BY <1>a DEF PacketsOf, Flow
    <3>2. \A u \in DOMAIN flows \ {t} : PacketsOf'[u] = PacketsOf[u]
      BY <1>10 DEF PacketsOf
    <3>3. PacketsOf'[t] = (IF t \in DOMAIN flows THEN PacketsOf[t] ELSE 0) + 1
      BY <1>4, <1>5, <1>10 DEF PacketsOf
    <3> DEFINE f == PacketsOf
               g == PacketsOf'
               S == DOMAIN flows
    <3>4. IsFiniteSet(S)
      BY <1>a
    <3> HIDE DEF f, g, S
    <3>5. Total(f, S) \in Nat /\ Total(g, S \cup {t}) = Total(f, S) + 1
      BY <3>1, <3>2, <3>3, <3>4, OneMore DEF f, g, S
    <3>6. QED
      BY <1>10, <3>5 DEF f, g, S
  <2>2. /\ Total(appStats, AppType) \in Nat
        /\ Total(appStats', AppType) = Total(appStats, AppType) + 1
    <3>1. \A a \in AppType : appStats[a] \in Nat
      BY <1>b
    <3>2. \A a \in AppType \ {Judged.app} : appStats'[a] = appStats[a]
      BY <1>b, <1>e
    <3>3. appStats'[Judged.app] = (IF Judged.app \in AppType THEN appStats[Judged.app] ELSE 0) + 1
      BY <1>b, <1>e, <1>g
    <3> DEFINE f == appStats
               g == appStats'
               S == AppType
               a == Judged.app
    <3>4. IsFiniteSet(S) /\ S \cup {a} = S
      BY <1>g, AppTypes
    <3> HIDE DEF f, g, S, a
    <3>5. Total(f, S) \in Nat /\ Total(g, S \cup {a}) = Total(f, S) + 1
      BY <3>1, <3>2, <3>3, <3>4, OneMore DEF f, g, S, a
    <3>6. QED
      BY <3>4, <3>5 DEF f, g, S
  <2>3. AcceptedPackets' = AcceptedPackets
    BY <1>3 DEF AcceptedPackets
  <2>4. Judging = 0 /\ Judging' = 1
    BY <1>2, <1>3 DEF Judging
  <2>5. counts \in Counts
    BY <1>1 DEF ToolTyped, Counts
  <2>6. next \in 1 .. MaxPackets
    BY <1>2
  <2>7. counts.forwarded \in Nat /\ counts.dropped \in Nat /\ counts.total \in Nat /\ next \in Nat
    BY <2>5, <2>6 DEF Counts
  <2>8. QED
    <3>1. /\ Total(PacketsOf, DOMAIN flows)' = Total(PacketsOf', DOMAIN flows')
          /\ Total(appStats, AppType)' = Total(appStats', AppType)
          /\ Cardinality(AcceptedPackets)' = Cardinality(AcceptedPackets')
      BY DEF Total, Units
    <3>2. /\ Total(PacketsOf, DOMAIN flows) = counts.forwarded + counts.dropped
          /\ Total(appStats, AppType) = counts.forwarded + counts.dropped
          /\ Cardinality(AcceptedPackets) = counts.forwarded + counts.dropped
          /\ counts.total = next - 1
          /\ Len(output) = counts.forwarded
          /\ counts.sent + counts.fail = Cardinality(tried)
          /\ tried = {}
      <4>1. CountInv
        BY <1>1
      <4>2. pc = "read"
        BY <1>2
      <4>3. QED
        BY <2>4, <2>7, <4>1, <4>2 DEF CountInv
    <3>3. /\ counts'.forwarded = counts.forwarded /\ counts'.dropped = counts.dropped
          /\ counts'.total = counts.total + 1 /\ next' = next /\ output' = output
          /\ counts'.sent = counts.sent /\ counts'.fail = counts.fail /\ tried' = tried
      BY <1>3, <1>6
    <3>5. /\ Total(PacketsOf, DOMAIN flows)' = counts'.forwarded + counts'.dropped + Judging'
          /\ Total(appStats, AppType)' = counts'.forwarded + counts'.dropped + Judging'
      BY <2>1, <2>2, <2>4, <2>7, <3>1, <3>2, <3>3
    <3>6. Cardinality(AcceptedPackets)' = counts'.forwarded + counts'.dropped
      BY <2>3, <3>1, <3>2, <3>3
    <3>7. counts'.total = next' - 1 + Judging'
      BY <2>4, <2>7, <3>2, <3>3
    <3>8. /\ Len(output') = counts'.forwarded /\ tried' = {}
          /\ counts'.sent + counts'.fail = Cardinality(tried')
      BY <3>2, <3>3
    <3>9. pc' # "export"
      BY <1>3
    <3>10. QED
      BY <3>5, <3>6, <3>7, <3>8, <3>9 DEF CountInv
<1>16. NamesWhole'
  <2>1. ASSUME NEW u \in DOMAIN flows', u.dport = 443, flows'[u].sni # ""
        PROVE  Sent(u, flows'[u].sni, next)
    <3>1. CASE u \in DOMAIN flows /\ flows'[u].sni = flows[u].sni
      <4>1. Sent(u, flows[u].sni, next)
        BY <1>1, <2>1, <3>1, Zenon DEF NamesWhole, Sent
      <4>2. QED
        BY <3>1, <4>1
    <3>2. CASE ~ (u \in DOMAIN flows /\ flows'[u].sni = flows[u].sni)
      <4>1. u = t
        BY <1>10, <2>1, <3>2
      <4>2. flows'[u].sni = Judged.sni /\ Judged.sni # Before.sni
        <5>1. flows'[u].sni = Judged.sni
          BY <1>10, <4>1
        <5>2. CASE t \in DOMAIN flows
          <6>1. Before.sni = flows[t].sni
            BY <1>5, <5>2
          <6>2. QED
            BY <3>2, <4>1, <5>1, <5>2, <6>1
        <5>3. CASE t \notin DOMAIN flows
          BY <1>5, <2>1, <5>1, <5>3
        <5>4. QED
          BY <5>1, <5>2, <5>3
      <4>3. TLSName[Packet].found /\ flows'[u].sni = TLSName[Packet].name
        <5>1. t.dport = 443
          BY <2>1, <4>1
        <5>2. QED
          BY <1>4, <4>2, <5>1
      <4>4. /\ Packet.payload.kind = "tls"
            /\ \E i \in DOMAIN Packet.payload.extensions :
                  LET e == Packet.payload.extensions[i]
                  IN  e.type = ServerNameExtension /\ e.name = flows'[u].sni
        <5>1. Packet \in PacketShapes
          BY <1>2
        <5>2. QED
          BY <4>3, <5>1, WholeName
      <4>5. next \in 1 .. next /\ next <= MaxPackets
        <5>1. next \in 1 .. MaxPackets /\ MaxPackets \in Nat
          BY <1>2, SingleThreadAssumption
        <5>2. QED
          BY <5>1
      <4>6. Packet = capture[next] /\ Packet.tuple = u
        BY <4>1 DEF Packet, t
      <4>7. QED
        BY <4>4, <4>5, <4>6, Zenon DEF Sent
    <3>3. QED
      BY <3>1, <3>2
  <2>2. next' = next /\ capture' = capture
    BY <1>3
  <2>3. SUFFICES ASSUME NEW u \in DOMAIN flows', u.dport = 443, flows'[u].sni # ""
                 PROVE  \E p \in 1 .. next' :
                            /\ p <= MaxPackets
                            /\ capture'[p].tuple = u
                            /\ capture'[p].payload.kind = "tls"
                            /\ \E i \in DOMAIN capture'[p].payload.extensions :
                                  LET e == capture'[p].payload.extensions[i]
                                  IN  e.type = ServerNameExtension /\ e.name = flows'[u].sni
    BY DEF NamesWhole
  <2>4. Sent(u, flows'[u].sni, next)
    BY <2>1, <2>3
  <2>5. QED
    BY <2>2, <2>4, Zenon DEF Sent
<1>17. QED
  BY <1>12, <1>13, <1>14, <1>15, <1>16 DEF BothInv

(* The packet judged is written, or dropped.                               *)
LEMMA Emit_Inv == BothInv /\ Emit /\ UNCHANGED <<mtFlows, mtOutput, mtStats>> => BothInv'
<1> SUFFICES ASSUME BothInv, Emit, UNCHANGED <<mtFlows, mtOutput, mtStats>> PROVE BothInv'
  OBVIOUS
<1> DEFINE drop == flows[Packet.tuple].blocked
<1>1. ToolTyped /\ SameInv /\ AlertInv /\ CountInv /\ NamesWhole
  BY DEF BothInv
<1>2. /\ pc = "emit" /\ pc' = "read" /\ next' = next + 1
      /\ UNCHANGED <<capture, rules, kafka, flows, alerts, appStats, tried, exported,
                     mtFlows, mtOutput, mtStats>>
  BY DEF Emit
<1>3. /\ drop => counts' = [counts EXCEPT !.dropped = @ + 1] /\ output' = output
      /\ ~ drop => counts' = [counts EXCEPT !.forwarded = @ + 1] /\ output' = Append(output, next)
  BY DEF Emit
<1>4. counts \in Counts /\ next \in 1 .. MaxPackets + 1 /\ output \in Seq(Nat)
  BY <1>1 DEF ToolTyped, Counts
<1>5. next <= MaxPackets /\ Accepted(Packet.headers, Packet.size)
  BY <1>1, <1>2 DEF ToolTyped
<1>6. next \in 1 .. MaxPackets /\ MaxPackets \in Nat
  <2>1. MaxPackets \in Nat
    BY SingleThreadAssumption
  <2>2. QED
    BY <1>4, <1>5, <2>1
<1> HIDE DEF drop
<1>7. /\ counts' \in Counts /\ counts'.total = counts.total /\ counts'.sent = counts.sent
      /\ counts'.fail = counts.fail
      /\ drop => counts'.dropped = counts.dropped + 1 /\ counts'.forwarded = counts.forwarded
      /\ ~ drop => counts'.dropped = counts.dropped /\ counts'.forwarded = counts.forwarded + 1
  <2>1. CASE drop
    <3>1. counts' = [counts EXCEPT !.dropped = @ + 1]
      BY <1>3, <2>1
    <3>2. /\ counts' \in Counts /\ counts'.total = counts.total
          /\ counts'.dropped = counts.dropped + 1 /\ counts'.forwarded = counts.forwarded
          /\ counts'.sent = counts.sent /\ counts'.fail = counts.fail
      BY <1>4, <3>1, Count
    <3>3. QED
      BY <2>1, <3>2
  <2>2. CASE ~ drop
    <3>1. counts' = [counts EXCEPT !.forwarded = @ + 1]
      BY <1>3, <2>2
    <3>2. /\ counts' \in Counts /\ counts'.total = counts.total
          /\ counts'.forwarded = counts.forwarded + 1 /\ counts'.dropped = counts.dropped
          /\ counts'.sent = counts.sent /\ counts'.fail = counts.fail
      BY <1>4, <3>1, Count
    <3>3. QED
      BY <2>2, <3>2
  <2>3. QED
    BY <2>1, <2>2
<1>8. /\ output' \in Seq(Nat)
      /\ Len(output') = Len(output) + (IF drop THEN 0 ELSE 1)
  <2>1. CASE drop
    BY <1>3, <1>4, <2>1
  <2>2. CASE ~ drop
    <3>1. output' = Append(output, next) /\ next \in Nat
      BY <1>3, <1>6, <2>2
    <3>2. QED
      BY <1>4, <2>2, <3>1
  <2>3. QED
    BY <2>1, <2>2
<1>9. ToolTyped'
  <2>1. next' \in 1 .. MaxPackets + 1
    BY <1>2, <1>6
  <2>2. counts' \in [total : Nat, forwarded : Nat, dropped : Nat, sent : Nat, fail : Nat]
    BY <1>7 DEF Counts
  <2>3. QED
    BY <1>1, <1>2, <1>8, <2>1, <2>2 DEF ToolTyped
<1>10. SameInv'
  <2>1. \A t \in DOMAIN flows : Alike(t, flows[t], mtFlows[t])
    BY <1>1 DEF SameInv
  <2>2. mtOutput = output' /\ mtStats.dropped = counts'.dropped
    <3>1. CASE drop
      BY <1>1, <1>2, <1>3, <1>7, <3>1 DEF SameInv, drop
    <3>2. CASE ~ drop
      BY <1>1, <1>2, <1>3, <1>7, <3>2 DEF SameInv, drop
    <3>3. QED
      BY <3>1, <3>2
  <2>3. QED
    BY <1>2, <2>1, <2>2 DEF SameInv
<1>11. AlertInv'
  BY <1>1, <1>2 DEF AlertInv, AlertsOf, BlockedOf
<1>12. CountInv'
  <2>1. /\ AcceptedPackets' = AcceptedPackets \cup {next} /\ next \notin AcceptedPackets
        /\ IsFiniteSet(AcceptedPackets)
    <3>1. next \in Nat /\ next - 1 \in Nat /\ next' - 1 = next
      BY <1>2, <1>6
    <3>2. /\ 1 .. next' - 1 = 1 .. next
          /\ 1 .. next = (1 .. next - 1) \cup {next}
          /\ next \notin 1 .. next - 1
      BY <1>6, <3>1
    <3>3. AcceptedPackets' = {p \in 1 .. next : Accepted(capture[p].headers, capture[p].size)}
      BY <1>2, <3>2 DEF AcceptedPackets
    <3>4. Accepted(capture[next].headers, capture[next].size)
      BY <1>5 DEF Packet
    <3>5. IsFiniteSet(1 .. next - 1)
      BY <3>1, Numbers
    <3>6. AcceptedPackets \subseteq 1 .. next - 1
      BY DEF AcceptedPackets
    <3>7. IsFiniteSet(AcceptedPackets)
      BY <3>5, <3>6, FS_Subset
    <3>8. QED
      BY <3>2, <3>3, <3>4, <3>7 DEF AcceptedPackets
  <2>2. Cardinality(AcceptedPackets') = Cardinality(AcceptedPackets) + 1
    BY <2>1, FS_AddElement
  <2>3. Judging = 1 /\ Judging' = 0
    BY <1>2 DEF Judging
  <2>4. PacketsOf' = PacketsOf
    BY <1>2 DEF PacketsOf
  <2>5. /\ Total(PacketsOf, DOMAIN flows)' = Total(PacketsOf, DOMAIN flows)
        /\ Total(appStats, AppType)' = Total(appStats, AppType)
        /\ Cardinality(AcceptedPackets)' = Cardinality(AcceptedPackets) + 1
    BY <1>2, <2>2, <2>4
  <2>6. /\ Total(PacketsOf, DOMAIN flows) = counts.forwarded + counts.dropped + 1
        /\ Total(appStats, AppType) = counts.forwarded + counts.dropped + 1
        /\ Cardinality(AcceptedPackets) = counts.forwarded + counts.dropped
        /\ counts.total = next - 1 + 1
        /\ Len(output) = counts.forwarded
        /\ counts.sent + counts.fail = Cardinality(tried)
        /\ tried = {}
    BY <1>1, <1>2, <2>3 DEF CountInv
  <2>7. /\ counts.forwarded \in Nat /\ counts.dropped \in Nat /\ next \in Nat
        /\ counts'.forwarded \in Nat /\ counts'.dropped \in Nat
        /\ counts'.forwarded + counts'.dropped = counts.forwarded + counts.dropped + 1
        /\ counts'.forwarded = counts.forwarded + (IF drop THEN 0 ELSE 1)
    <3>1. /\ counts.forwarded \in Nat /\ counts.dropped \in Nat /\ next \in Nat
          /\ counts'.forwarded \in Nat /\ counts'.dropped \in Nat
      BY <1>4, <1>6, <1>7 DEF Counts
    <3>2. /\ counts'.dropped = counts.dropped + (IF drop THEN 1 ELSE 0)
          /\ counts'.forwarded = counts.forwarded + (IF drop THEN 0 ELSE 1)
      BY <1>7, <3>1
    <3>3. QED
      BY <3>1, <3>2
  <2>8. /\ Total(PacketsOf, DOMAIN flows)' = counts'.forwarded + counts'.dropped + Judging'
        /\ Total(appStats, AppType)' = counts'.forwarded + counts'.dropped + Judging'
        /\ Cardinality(AcceptedPackets)' = counts'.forwarded + counts'.dropped
    BY <2>3, <2>5, <2>6, <2>7
  <2>9. counts'.total = next' - 1 + Judging'
    BY <1>2, <1>7, <2>3, <2>6, <2>7
  <2>10. /\ Len(output') = counts'.forwarded /\ tried' = {}
         /\ counts'.sent + counts'.fail = Cardinality(tried')
    BY <1>2, <1>7, <1>8, <2>6, <2>7
  <2>11. QED
    BY <1>2, <2>8, <2>9, <2>10 DEF CountInv
<1>13. NamesWhole'
  <2>1. next \in Nat /\ next' \in Nat /\ next <= next'
    BY <1>2, <1>6
  <2>2. QED
    BY <1>1, <1>2, <2>1, NamesKept
<1>14. QED
  BY <1>9, <1>10, <1>11, <1>12, <1>13 DEF BothInv

(* What leaves the flows, the output and the counts as they are.           *)
LEMMA Quiet_Inv ==
    ASSUME BothInv,
           UNCHANGED <<capture, kafka, next, flows, alerts, output, counts, appStats, tried,
                       mtFlows, mtOutput, mtStats>>,
           pc # "emit", pc' \in {"publish", "export", "done"},
           pc' = "export" /\ kafka => tried = DOMAIN flows,
           \/ exported' = exported /\ pc # "done"
           \/ pc' = "done" /\ exported'.alerts = alerts /\ exported'.flows = flows
    PROVE  BothInv'
<1>1. ToolTyped /\ SameInv /\ AlertInv /\ CountInv /\ NamesWhole
  BY DEF BothInv
<1>2. ToolTyped'
  BY <1>1 DEF ToolTyped
<1>3. SameInv'
  BY <1>1 DEF SameInv
<1>4. AlertInv'
  BY <1>1 DEF AlertInv, AlertsOf, BlockedOf
<1>5. CountInv'
  <2>1. PacketsOf' = PacketsOf /\ AcceptedPackets' = AcceptedPackets /\ Judging' = Judging
    BY DEF PacketsOf, AcceptedPackets, Judging
  <2>2. pc' \notin {"read", "emit"}
    OBVIOUS
  <2>3. QED
    BY <1>1, <2>1, <2>2 DEF CountInv
<1>6. NamesWhole'
  <2>1. next \in Nat
    BY <1>1, SingleThreadAssumption DEF ToolTyped
  <2>2. QED
    BY <1>1, <2>1, NamesKept
<1>7. QED
  BY <1>2, <1>3, <1>4, <1>5, <1>6 DEF BothInv

(* One flow is produced, and accepted or refused.                          *)
LEMMA Publish_Inv ==
    ASSUME BothInv, NEW t, NEW accepted, Publish(t, accepted),
           UNCHANGED <<mtFlows, mtOutput, mtStats>>
    PROVE  BothInv'
<1>1. ToolTyped /\ SameInv /\ AlertInv /\ CountInv /\ NamesWhole
  BY DEF BothInv
<1>2. /\ pc = "publish" /\ t \in DOMAIN flows \ tried /\ tried' = tried \cup {t}
      /\ UNCHANGED <<capture, rules, kafka, next, pc, flows, alerts, output, appStats, exported,
                     mtFlows, mtOutput, mtStats>>
      /\ counts' = IF accepted THEN [counts EXCEPT !.sent = @ + 1]
                   ELSE [counts EXCEPT !.fail = @ + 1]
  BY DEF Publish
<1>3. counts \in Counts
  BY <1>1 DEF ToolTyped, Counts
<1>4. /\ counts' \in Counts /\ counts'.total = counts.total
      /\ counts'.forwarded = counts.forwarded /\ counts'.dropped = counts.dropped
      /\ counts'.sent + counts'.fail = counts.sent + counts.fail + 1
  <2>1. CASE accepted
    BY <1>2, <1>3, <2>1, Count
  <2>2. CASE ~ accepted
    BY <1>2, <1>3, <2>2, Count
  <2>3. QED
    BY <2>1, <2>2
<1>5. ToolTyped'
  <2>1. counts' \in [total : Nat, forwarded : Nat, dropped : Nat, sent : Nat, fail : Nat]
    BY <1>4 DEF Counts
  <2>2. QED
    BY <1>1, <1>2, <2>1 DEF ToolTyped
<1>6. SameInv'
  BY <1>1, <1>2, <1>4 DEF SameInv
<1>7. AlertInv'
  BY <1>1, <1>2 DEF AlertInv, AlertsOf, BlockedOf
<1>8. CountInv'
  <2>1. PacketsOf' = PacketsOf /\ AcceptedPackets' = AcceptedPackets /\ Judging' = Judging
    BY <1>2 DEF PacketsOf, AcceptedPackets, Judging
  <2>2. Cardinality(tried') = Cardinality(tried) + 1
    <3>1. IsFiniteSet(tried)
      BY <1>1, FS_Subset DEF ToolTyped
    <3>2. QED
      BY <1>2, <3>1, FS_AddElement
  <2>3. counts'.sent + counts'.fail = Cardinality(tried')
    BY <1>1, <1>4, <2>2 DEF CountInv
  <2>4. pc' = "publish"
    BY <1>2
  <2>5. QED
    <3>1. CountInv /\ pc = "publish"
      BY <1>1, <1>2
    <3>2. /\ Total(PacketsOf, DOMAIN flows)' = Total(PacketsOf, DOMAIN flows)
          /\ Total(appStats, AppType)' = Total(appStats, AppType)
          /\ Cardinality(AcceptedPackets)' = Cardinality(AcceptedPackets)
      BY <1>2, <2>1
    <3>3. next' = next /\ output' = output
      BY <1>2
    <3>4. /\ pc' \in {"read", "emit"} => tried' = {}
          /\ pc' = "export" /\ kafka' => tried' = DOMAIN flows'
      BY <2>4
    <3>5. /\ Total(PacketsOf, DOMAIN flows)' = counts'.forwarded + counts'.dropped + Judging'
          /\ Total(appStats, AppType)' = counts'.forwarded + counts'.dropped + Judging'
          /\ Cardinality(AcceptedPackets)' = counts'.forwarded + counts'.dropped
      BY <1>4, <2>1, <3>1, <3>2 DEF CountInv
    <3>6. counts'.total = next' - 1 + Judging' /\ Len(output') = counts'.forwarded
      BY <1>4, <2>1, <3>1, <3>3 DEF CountInv
    <3>7. QED
      BY <2>3, <3>4, <3>5, <3>6 DEF CountInv
<1>9. NamesWhole'
  <2>1. next \in Nat /\ next' = next
    BY <1>1, <1>2, SingleThreadAssumption DEF ToolTyped
  <2>2. QED
    BY <1>1, <1>2, <2>1, NamesKept
<1>10. QED
  BY <1>5, <1>6, <1>7, <1>8, <1>9 DEF BothInv

LEMMA Rest_Inv == BothInv /\ Rest => BothInv'
<1> SUFFICES ASSUME BothInv, Rest PROVE BothInv'
  OBVIOUS
<1>1. UNCHANGED <<mtFlows, mtOutput, mtStats>>
  BY DEF Rest
<1>2. CASE Emit
  BY <1>1, <1>2, Emit_Inv
<1>3. CASE EndOfFile
  <2>1. tried = {} /\ kafka \in BOOLEAN /\ pc = "read"
    BY <1>3 DEF BothInv, CountInv, ToolTyped, EndOfFile
  <2>2. QED
    BY <1>1, <1>3, <2>1, Quiet_Inv DEF EndOfFile
<1>4. CASE \E t \in Tuples, accepted \in BOOLEAN : Publish(t, accepted)
  BY <1>1, <1>4, Publish_Inv
<1>5. CASE Flush
  BY <1>1, <1>5, Quiet_Inv DEF Flush
<1>6. CASE Export
  BY <1>1, <1>6, Quiet_Inv DEF Export
<1>7. QED
  BY <1>2, <1>3, <1>4, <1>5, <1>6 DEF Rest

THEOREM ToolInvariant == BothSpec => []BothInv
<1>1. BothInv /\ [BothNext]_allVars => BothInv'
  <2> SUFFICES ASSUME BothInv, [BothNext]_allVars PROVE BothInv'
    OBVIOUS
  <2>1. CASE MTSkip
    BY <2>1, MTSkip_Inv
  <2>2. CASE MTProcess
    BY <2>2, MTProcess_Inv
  <2>3. CASE Rest
    BY <2>3, Rest_Inv
  <2>4. CASE UNCHANGED allVars
    <3>1. UNCHANGED <<capture, rules, kafka, next, pc, flows, alerts, output, counts, appStats,
                      tried, exported, mtFlows, mtOutput, mtStats>>
      BY <2>4 DEF allVars, vars
    <3>2. ToolTyped'
      BY <3>1 DEF BothInv, ToolTyped, Packet
    <3>3. SameInv'
      BY <3>1 DEF BothInv, SameInv, Packet
    <3>4. AlertInv'
      BY <3>1 DEF BothInv, AlertInv, AlertsOf, BlockedOf
    <3>5. CountInv'
      <4>1. PacketsOf' = PacketsOf /\ AcceptedPackets' = AcceptedPackets /\ Judging' = Judging
        BY <3>1 DEF PacketsOf, AcceptedPackets, Judging
      <4>2. QED
        BY <3>1, <4>1 DEF BothInv, CountInv
    <3>6. NamesWhole'
      <4>1. next \in Nat /\ next' = next
        BY <3>1, SingleThreadAssumption DEF BothInv, ToolTyped
      <4>2. QED
        BY <3>1, <4>1, NamesKept DEF BothInv
    <3>7. QED
      BY <3>2, <3>3, <3>4, <3>5, <3>6 DEF BothInv
  <2>5. QED
    BY <2>1, <2>2, <2>3, <2>4 DEF BothNext
<1>2. QED
  BY <1>1, BothInit_Inv, PTL DEF BothSpec

(* The tool writes what dpi_mt writes, and knows every flow as it does.    *)
THEOREM DecidesLikeMulti == BothSpec => []SameAsMulti
<1>1. BothInv => SameAsMulti
  BY DEF BothInv, SameInv, SameAsMulti, Alike
<1>2. QED
  BY <1>1, ToolInvariant, PTL

(* One alert for each blocked flow, and none for another.                  *)
THEOREM OneAlertPerFlow == BothSpec => []AlertPerBlockedFlow
<1>1. ASSUME BothInv
      PROVE  AlertPerBlockedFlow
  <2>1. ASSUME NEW src \in Sources
        PROVE  Cardinality({i \in DOMAIN alerts : alerts[i].ip = src})
                 = Cardinality({t \in DOMAIN flows : t.src = src /\ flows[t].blocked})
    BY <1>1 DEF BothInv, AlertInv, AlertsOf, BlockedOf
  <2>2. exported = NotExported \/ (exported.alerts = alerts /\ exported.flows = flows)
    BY <1>1 DEF BothInv, AlertInv
  <2>3. DOMAIN NotExported.alerts = {} /\ DOMAIN NotExported.flows = {}
    BY DEF NotExported, NoFlows
  <2>4. ASSUME NEW src \in Sources, exported = NotExported
        PROVE  Cardinality({i \in DOMAIN exported.alerts : exported.alerts[i].ip = src})
                 = Cardinality({t \in DOMAIN exported.flows :
                                   t.src = src /\ exported.flows[t].blocked})
    <3>1. /\ {i \in DOMAIN exported.alerts : exported.alerts[i].ip = src} = {}
          /\ {t \in DOMAIN exported.flows : t.src = src /\ exported.flows[t].blocked} = {}
      BY <2>3, <2>4
    <3>2. QED
      BY <3>1
  <2>5. ASSUME NEW src \in Sources
        PROVE  Cardinality({i \in DOMAIN exported.alerts : exported.alerts[i].ip = src})
                 = Cardinality({t \in DOMAIN exported.flows :
                                   t.src = src /\ exported.flows[t].blocked})
    <3>1. CASE exported = NotExported
      BY <2>4, <3>1
    <3>2. CASE exported.alerts = alerts /\ exported.flows = flows
      BY <2>1, <3>2
    <3>3. QED
      BY <2>2, <3>1, <3>2
  <2>6. QED
    BY <2>1, <2>5 DEF AlertPerBlockedFlow, Sources
<1>2. QED
  BY <1>1, ToolInvariant, PTL

(* No flow has a part of a name for its name.                              *)
THEOREM NamesAreWhole == BothSpec => []NamesWhole
<1>1. BothInv => NamesWhole
  BY DEF BothInv
<1>2. QED
  BY <1>1, ToolInvariant, PTL

(* What the report adds up is what the sums of the invariant say.          *)
LEMMA ReportedSums ==
    ASSUME ToolTyped
    PROVE  /\ FoldSet(LAMBDA t, n : n + flows[t].packets, 0, DOMAIN flows)
                = Total(PacketsOf, DOMAIN flows)
           /\ FoldSet(LAMBDA a, n : n + appStats[a], 0, AppType) = Total(appStats, AppType)
<1>1. ASSUME NEW S, IsFiniteSet(S), NEW f, \A x \in S : f[x] \in Nat
      PROVE  LET Step(g) == [T \in SUBSET S |-> IF T = {} THEN 0 ELSE g[T \ {First(T)}] + f[First(T)]]
             IN  (CHOOSE g : g = Step(g))[S] = Total(f, S)
  <2> DEFINE c == [T \in SUBSET S |-> First(T)]
             Step(g) == [T \in SUBSET S |-> IF T = {} THEN 0 ELSE g[T \ {First(T)}] + f[First(T)]]
  <2>1. Chooses(c, S)
    BY DEF Chooses, First
  <2>2. \A g : FoldsBy(g, f, c, S) <=> g = Step(g)
    BY DEF FoldsBy
  <2>3. (CHOOSE g : FoldsBy(g, f, c, S)) = (CHOOSE g : g = Step(g))
    BY <2>2, Zenon
  <2>4. (CHOOSE g : FoldsBy(g, f, c, S))[S] = Total(f, S)
    BY <1>1, <2>1, FoldedTotal
  <2>5. QED
    BY <2>3, <2>4
<1>2. FoldSet(LAMBDA a, n : n + appStats[a], 0, AppType) = Total(appStats, AppType)
  <2>1. IsFiniteSet(AppType) /\ \A a \in AppType : appStats[a] \in Nat
    BY AppTypes DEF ToolTyped
  <2>2. QED
    BY <1>1, <2>1 DEF FoldSet, MapThenFoldSet, First
<1>3. FoldSet(LAMBDA t, n : n + flows[t].packets, 0, DOMAIN flows) = Total(PacketsOf, DOMAIN flows)
  <2> DEFINE S == DOMAIN flows
             Step(g) == [T \in SUBSET S |-> IF T = {} THEN 0
                                            ELSE g[T \ {First(T)}] + PacketsOf[First(T)]]
             Taken(g) == [T \in SUBSET S |-> IF T = {} THEN 0
                                             ELSE g[T \ {First(T)}] + flows[First(T)].packets]
  <2>1. IsFiniteSet(S) /\ \A t \in S : PacketsOf[t] \in Nat
    BY DEF ToolTyped, PacketsOf, Flow
  <2>2. \A g : Step(g) = Taken(g)
    <3>1. ASSUME NEW g, NEW T \in SUBSET S
          PROVE  (IF T = {} THEN 0 ELSE g[T \ {First(T)}] + PacketsOf[First(T)])
                   = (IF T = {} THEN 0 ELSE g[T \ {First(T)}] + flows[First(T)].packets)
      <4>1. T # {} => First(T) \in S
        BY DEF First
      <4>2. QED
        BY <4>1 DEF PacketsOf
    <3>2. QED
      BY <3>1, Zenon
  <2>3. FoldSet(LAMBDA t, n : n + flows[t].packets, 0, S) = (CHOOSE g : g = Taken(g))[S]
    BY DEF FoldSet, MapThenFoldSet, First
  <2>4. (CHOOSE g : g = Step(g))[S] = Total(PacketsOf, S)
    BY <1>1, <2>1
  <2>5. (CHOOSE g : g = Step(g)) = (CHOOSE g : g = Taken(g))
    BY <2>2, Zenon
  <2>6. QED
    BY <2>3, <2>4, <2>5
<1>4. QED
  BY <1>2, <1>3

(* What was read, written, dropped, counted and published adds up.         *)
THEOREM ReportAddsUp == BothSpec => []CountsAddUp
<1>1. ASSUME BothInv
      PROVE  CountsAddUp
  <2>1. ToolTyped /\ CountInv
    BY <1>1 DEF BothInv
  <2>2. ASSUME pc # "emit"
        PROVE  /\ counts.forwarded + counts.dropped = Total(PacketsOf, DOMAIN flows)
               /\ counts.forwarded + counts.dropped = Total(appStats, AppType)
               /\ counts.forwarded + counts.dropped = Cardinality(AcceptedPackets)
               /\ counts.total = next - 1 /\ Len(output) = counts.forwarded
               /\ pc = "export" /\ kafka =>
                    counts.sent + counts.fail = Cardinality(DOMAIN flows)
    <3>1. counts.forwarded \in Nat /\ counts.dropped \in Nat /\ next \in Nat
      <4>1. next \in 1 .. MaxPackets + 1
        BY <2>1 DEF ToolTyped
      <4>2. QED
        BY <2>1, <4>1 DEF ToolTyped
    <3>2. Judging = 0
      BY <2>2 DEF Judging
    <3>3. QED
      BY <2>1, <3>1, <3>2 DEF CountInv
  <2>3. QED
    BY <2>1, <2>2, ReportedSums DEF CountsAddUp, AcceptedPackets
<1>2. QED
  BY <1>1, ToolInvariant, PTL
============================================================================
