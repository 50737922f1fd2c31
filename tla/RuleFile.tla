------------------------------ MODULE RuleFile ------------------------------
(***************************************************************************)
(* Saving, loading and clearing the rules (rule_manager) while other       *)
(* threads go on changing them. None of the three holds more than one of   *)
(* the four locks at a time: saveRules copies kind after kind into the     *)
(* file it has already truncated, loadRules adds line after line, clearAll *)
(* empties kind after kind. The process may end at any moment; a new one   *)
(* starts without rules and loads the file (Config::rules_file).           *)
(***************************************************************************)
EXTENDS RuleManager

CONSTANT MaxEdits     \* bound: how often single rules change

ASSUME RuleFileAssumption == MaxEdits \in Nat

VARIABLES
    file,       \* the rules of the file, in the order of its sections
    savePc,     \* saveRules: the section to be written next
    loadPc,     \* loadRules: the section to be read next
    rest,       \* the lines of that section not yet read
    clearPc,    \* clearAll: the kind to be emptied next
    edits,
    always, ever,  \* history: rules in force all through, at some time of a save
    complete,      \* history: the file was written to its end
    untouched      \* history: this process did nothing but load the file

filePcs == <<savePc, loadPc, rest, clearPc>>
saveGhosts == <<always, ever, complete>>
fileVars == <<ruleVars, file, filePcs, edits, saveGhosts, untouched>>

NoRules == [ips |-> {}, apps |-> {}, domains |-> {}, patterns |-> <<>>, ports |-> {}]

Current == [ips |-> blockedIps, apps |-> blockedApps, domains |-> blockedDomains,
            patterns |-> domainPatterns, ports |-> blockedPorts]

(* A record of rules as a set of single rules.                             *)
Listed(r) ==
    ({"IP"} \X r.ips) \cup ({"APP"} \X r.apps) \cup ({"PORT"} \X r.ports)
        \cup ({"DOMAIN"} \X (r.domains \cup {r.patterns[i] : i \in 1 .. Len(r.patterns)}))

(* What every change of the rules does to the history of a save.           *)
Observe ==
    IF savePc = "idle" THEN UNCHANGED saveGhosts
    ELSE /\ always' = always \cap Listed(Current)'
         /\ ever' = ever \cup Listed(Current)'
         /\ UNCHANGED complete
----------------------------------------------------------------------------
EditRules ==
    /\ edits < MaxEdits
    /\ RuleCall
    /\ edits' = edits + 1
    /\ Observe
    /\ untouched' = FALSE
    /\ UNCHANGED <<file, filePcs>>

(* saveRules: opening the file empties it.                                 *)
SaveOpen ==
    /\ savePc = "idle"
    /\ savePc' = "ips"
    /\ file' = NoRules
    /\ complete' = FALSE
    /\ always' = Listed(Current)
    /\ ever' = Listed(Current)
    /\ untouched' = FALSE
    /\ UNCHANGED <<ruleVars, loadPc, rest, clearPc, edits>>

(* Variant: the wildcard patterns are not written.                         *)
SaveDomainsNoPatterns ==
    /\ savePc = "domains"
    /\ savePc' = "ports"
    /\ file' = [file EXCEPT !.domains = blockedDomains]
    /\ UNCHANGED <<ruleVars, loadPc, rest, clearPc, edits, saveGhosts, untouched>>

SaveDomains ==
    /\ savePc = "domains"
    /\ savePc' = "ports"
    /\ file' = [file EXCEPT !.domains = blockedDomains, !.patterns = domainPatterns]
    /\ UNCHANGED <<ruleVars, loadPc, rest, clearPc, edits, saveGhosts, untouched>>

SaveIPs ==
    /\ savePc = "ips"
    /\ savePc' = "apps"
    /\ file' = [file EXCEPT !.ips = blockedIps]
    /\ UNCHANGED <<ruleVars, loadPc, rest, clearPc, edits, saveGhosts, untouched>>

SaveApps ==
    /\ savePc = "apps"
    /\ savePc' = "domains"
    /\ file' = [file EXCEPT !.apps = blockedApps]
    /\ UNCHANGED <<ruleVars, loadPc, rest, clearPc, edits, saveGhosts, untouched>>

SavePorts ==
    /\ savePc = "ports"
    /\ savePc' = "idle"
    /\ file' = [file EXCEPT !.ports = blockedPorts]
    /\ complete' = TRUE
    /\ UNCHANGED <<ruleVars, loadPc, rest, clearPc, edits, always, ever, untouched>>

Save == SaveOpen \/ SaveIPs \/ SaveApps \/ SaveDomains \/ SavePorts
----------------------------------------------------------------------------
(* loadRules: each line is one call of blockIP, blockApp, blockDomain or   *)
(* blockPort. The sections that are sets have no order.                    *)
LoadOpen ==
    /\ loadPc = "idle"
    /\ savePc = "idle"
    /\ loadPc' = "ips"
    /\ rest' = file
    /\ UNCHANGED <<ruleVars, file, savePc, clearPc, edits, saveGhosts, untouched>>

LoadIP ==
    /\ loadPc = "ips"
    /\ \E ip \in rest.ips : BlockIP(ip) /\ rest' = [rest EXCEPT !.ips = @ \ {ip}]
    /\ UNCHANGED loadPc

LoadApp ==
    /\ loadPc = "apps"
    /\ \E app \in rest.apps : BlockApp(app) /\ rest' = [rest EXCEPT !.apps = @ \ {app}]
    /\ UNCHANGED loadPc

LoadDomain ==
    /\ loadPc = "domains"
    /\ \E d \in rest.domains : BlockDomain(d) /\ rest' = [rest EXCEPT !.domains = @ \ {d}]
    /\ UNCHANGED loadPc

(* Variant: the file's patterns are taken from its end.                    *)
LoadPatternLast ==
    /\ loadPc = "domains"
    /\ rest.domains = {} /\ rest.patterns # <<>>
    /\ BlockDomain(rest.patterns[Len(rest.patterns)])
    /\ rest' = [rest EXCEPT !.patterns = SubSeq(@, 1, Len(@) - 1)]
    /\ UNCHANGED loadPc

LoadPattern ==
    /\ loadPc = "domains"
    /\ rest.domains = {} /\ rest.patterns # <<>>
    /\ BlockDomain(Head(rest.patterns))
    /\ rest' = [rest EXCEPT !.patterns = Tail(@)]
    /\ UNCHANGED loadPc

LoadPort ==
    /\ loadPc = "ports"
    /\ \E port \in rest.ports : BlockPort(port) /\ rest' = [rest EXCEPT !.ports = @ \ {port}]
    /\ UNCHANGED loadPc

LoadSection ==
    /\ \/ loadPc = "ips" /\ rest.ips = {} /\ loadPc' = "apps"
       \/ loadPc = "apps" /\ rest.apps = {} /\ loadPc' = "domains"
       \/ /\ loadPc = "domains" /\ rest.domains = {} /\ rest.patterns = <<>>
          /\ loadPc' = "ports"
       \/ loadPc = "ports" /\ rest.ports = {} /\ loadPc' = "loaded"
    /\ UNCHANGED <<ruleVars, rest>>

LoadLine ==
    /\ LoadIP \/ LoadApp \/ LoadDomain \/ LoadPattern \/ LoadPort \/ LoadSection
    /\ Observe
    /\ UNCHANGED <<file, savePc, clearPc, edits, untouched>>
----------------------------------------------------------------------------
(* clearAll *)
Clear ==
    /\ \/ /\ clearPc = "ips" /\ clearPc' = "apps" /\ blockedIps' = {}
          /\ UNCHANGED <<blockedApps, blockedDomains, domainPatterns, blockedPorts>>
       \/ /\ clearPc = "apps" /\ clearPc' = "domains" /\ blockedApps' = {}
          /\ UNCHANGED <<blockedIps, blockedDomains, domainPatterns, blockedPorts>>
       \/ /\ clearPc = "domains" /\ clearPc' = "ports"
          /\ blockedDomains' = {} /\ domainPatterns' = <<>>
          /\ UNCHANGED <<blockedIps, blockedApps, blockedPorts>>
       \/ /\ clearPc = "ports" /\ clearPc' = "cleared" /\ blockedPorts' = {}
          /\ UNCHANGED <<blockedIps, blockedApps, blockedDomains, domainPatterns>>
    /\ Observe
    /\ untouched' = FALSE
    /\ UNCHANGED <<file, savePc, loadPc, rest, edits>>

(* The process ends, maybe in the middle of a save; the file keeps the     *)
(* sections written so far, or nothing if they were still in a buffer.     *)
Restart ==
    /\ file' \in IF savePc = "idle" THEN {file} ELSE {file, NoRules}
    /\ blockedIps' = {} /\ blockedPorts' = {} /\ blockedApps' = {}
    /\ blockedDomains' = {} /\ domainPatterns' = <<>>
    /\ savePc' = "idle" /\ loadPc' = "idle" /\ rest' = NoRules /\ clearPc' = "ips"
    /\ untouched' = TRUE
    /\ UNCHANGED <<edits, saveGhosts>>

FileInit ==
    /\ RulesInit
    /\ file = NoRules
    /\ savePc = "idle" /\ loadPc = "idle" /\ rest = NoRules /\ clearPc = "ips"
    /\ edits = 0
    /\ always = {} /\ ever = {} /\ complete = FALSE
    /\ untouched = TRUE

FileNext == EditRules \/ Save \/ LoadOpen \/ LoadLine \/ Clear \/ Restart

FileSpec == FileInit /\ [][FileNext]_fileVars
----------------------------------------------------------------------------
(* PROPERTIES                                                              *)

FileTypeOK ==
    /\ RulesTypeOK
    /\ savePc \in {"idle", "ips", "apps", "domains", "ports"}
    /\ loadPc \in {"idle", "ips", "apps", "domains", "ports", "loaded"}
    /\ clearPc \in {"ips", "apps", "domains", "ports", "cleared"}
    /\ Listed(file) \cup Listed(rest) \subseteq
          ({"IP"} \X IPs) \cup ({"APP"} \X Apps) \cup ({"PORT"} \X Ports)
              \cup ({"DOMAIN"} \X (Domains \cup Patterns))
    /\ edits \in 0 .. MaxEdits

(* saveRules is no snapshot: the file may hold rules that were never in    *)
(* force together. But a rule in force from the beginning of the save to   *)
(* its end is in the file, and every line was in force at some time of it. *)
SavedFaithfully ==
    complete => always \subseteq Listed(file) /\ Listed(file) \subseteq ever

(* A process that only loads the file is left with exactly the rules of    *)
(* the file: "[...]" headers, '*' names and repeated patterns included.    *)
RestoredExactly ==
    untouched /\ loadPc = "loaded" => Current = file
=============================================================================
