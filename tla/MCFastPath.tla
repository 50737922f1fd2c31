----------------------------- MODULE MCFastPath -----------------------------
(* Small instances of FastPath for TLC: an HTTP connection, a UDP flow to  *)
(* port 443 and a DNS exchange, of one host.                               *)
EXTENDS FastPath, TLC

CONSTANTS web, quic, dns,     \* flows
          host,               \* their source address
          site, star          \* a name, and a pattern that matches it

Sources == (web :> host) @@ (quic :> host) @@ (dns :> host)
Sports == (web :> 5001) @@ (quic :> 5002) @@ (dns :> 5003)
Dports == (web :> 80) @@ (quic :> 443) @@ (dns :> 53)
Names == {<<site, star>>}
SiteApp == (site :> "VIDEO")

AllApps == {"UNKNOWN", "HTTP", "HTTPS", "DNS", "VIDEO"}
RuledApps == {"HTTPS", "VIDEO"}
RuledPorts == {443}

(* The flags of a connection's packets, from its opening to its end.       *)
LiveFlags == {{"SYN"}, {"SYN", "ACK"}, {"FIN", "ACK"}}
=============================================================================
