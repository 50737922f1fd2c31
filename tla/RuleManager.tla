---------------------------- MODULE RuleManager ----------------------------
(***************************************************************************)
(* The blocking rules shared by all fast paths (rule_manager). Each kind   *)
(* of rule has a lock of its own, so one action here is one critical       *)
(* section, and whoever needs several kinds reads them one after another.  *)
(* Modules about users of the rules extend this one.                       *)
(***************************************************************************)
EXTENDS Naturals, Sequences, FiniteSets

CONSTANTS IPs, Ports, Apps,  \* what a rule can name
          Domains,           \* plain domain names
          Patterns,          \* names with a '*'
          Matches,           \* domainMatchesPattern: pairs <<domain, pattern>>
          MaxPatterns        \* bound: length of domain_patterns_

ASSUME RuleAssumption ==
    /\ Domains \cap Patterns = {}
    /\ Matches \subseteq Domains \X Patterns
    /\ MaxPatterns \in Nat

VARIABLES blockedIps, blockedPorts, blockedApps,
          blockedDomains, domainPatterns    \* a set, and a vector

ruleVars == <<blockedIps, blockedPorts, blockedApps, blockedDomains, domainPatterns>>
----------------------------------------------------------------------------
RulesInit ==
    /\ blockedIps = {}
    /\ blockedPorts = {}
    /\ blockedApps = {}
    /\ blockedDomains = {}
    /\ domainPatterns = <<>>

BlockIP(ip) ==
    /\ blockedIps' = blockedIps \cup {ip}
    /\ UNCHANGED <<blockedPorts, blockedApps, blockedDomains, domainPatterns>>

UnblockIP(ip) ==
    /\ blockedIps' = blockedIps \ {ip}
    /\ UNCHANGED <<blockedPorts, blockedApps, blockedDomains, domainPatterns>>

BlockPort(port) ==
    /\ blockedPorts' = blockedPorts \cup {port}
    /\ UNCHANGED <<blockedIps, blockedApps, blockedDomains, domainPatterns>>

UnblockPort(port) ==
    /\ blockedPorts' = blockedPorts \ {port}
    /\ UNCHANGED <<blockedIps, blockedApps, blockedDomains, domainPatterns>>

BlockApp(app) ==
    /\ blockedApps' = blockedApps \cup {app}
    /\ UNCHANGED <<blockedIps, blockedPorts, blockedDomains, domainPatterns>>

UnblockApp(app) ==
    /\ blockedApps' = blockedApps \ {app}
    /\ UNCHANGED <<blockedIps, blockedPorts, blockedDomains, domainPatterns>>

(* Variant: no look for a '*'.                                             *)
BlockDomainPlain(name) ==
    /\ blockedDomains' = blockedDomains \cup {name}
    /\ UNCHANGED <<blockedIps, blockedPorts, blockedApps, domainPatterns>>

(* A name with a '*' goes to the vector, without a look at what is there.  *)
BlockDomain(name) ==
    /\ IF name \in Patterns
       THEN /\ Len(domainPatterns) < MaxPatterns
            /\ domainPatterns' = Append(domainPatterns, name)
            /\ UNCHANGED blockedDomains
       ELSE /\ blockedDomains' = blockedDomains \cup {name}
            /\ UNCHANGED domainPatterns
    /\ UNCHANGED <<blockedIps, blockedPorts, blockedApps>>

(* The sequence without the element at position i.                         *)
Without(s, i) == SubSeq(s, 1, i - 1) \o SubSeq(s, i + 1, Len(s))

(* Where std::find stops: the first position of x in s, if there is one.   *)
FirstAt(s, x) ==
    {i \in 1 .. Len(s) : s[i] = x /\ \A j \in 1 .. i - 1 : s[j] # x}

UnblockDomain(name) ==
    /\ IF name \in Patterns
       THEN /\ domainPatterns' =
                   IF FirstAt(domainPatterns, name) = {} THEN domainPatterns
                   ELSE LET i == CHOOSE i \in FirstAt(domainPatterns, name) : TRUE
                        IN  Without(domainPatterns, i)
            /\ UNCHANGED blockedDomains
       ELSE /\ blockedDomains' = blockedDomains \ {name}
            /\ UNCHANGED domainPatterns
    /\ UNCHANGED <<blockedIps, blockedPorts, blockedApps>>

(* One call of the API that changes one kind of rule.                      *)
RuleCall ==
    \/ \E ip \in IPs : BlockIP(ip) \/ UnblockIP(ip)
    \/ \E port \in Ports : BlockPort(port) \/ UnblockPort(port)
    \/ \E app \in Apps : BlockApp(app) \/ UnblockApp(app)
    \/ \E name \in Domains \cup Patterns : BlockDomain(name) \/ UnblockDomain(name)
----------------------------------------------------------------------------
IsIPBlocked(ip) == ip \in blockedIps
IsPortBlocked(port) == port \in blockedPorts
IsAppBlocked(app) == app \in blockedApps

IsDomainBlocked(d) ==
    \/ d \in blockedDomains
    \/ \E i \in 1 .. Len(domainPatterns) : <<d, domainPatterns[i]>> \in Matches

RulesTypeOK ==
    /\ blockedIps \subseteq IPs
    /\ blockedPorts \subseteq Ports
    /\ blockedApps \subseteq Apps
    /\ blockedDomains \subseteq Domains
    /\ domainPatterns \in Seq(Patterns)
    /\ Len(domainPatterns) <= MaxPatterns
============================================================================
