---------------------------- MODULE RuleProofs -----------------------------
(***************************************************************************)
(* Theorems about the rules, for every set of names and rules: what calls  *)
(* of the rule manager do; what its file holds and what a new process has  *)
(* after reading it, for any number of threads that change the rules; and  *)
(* what one fast path makes of them, for any flows and any size of the     *)
(* connection table.                                                       *)
(***************************************************************************)
EXTENDS FastPath, RuleFile, SumLemmas, SequenceTheorems

(* The sequence that is left when one element is erased.                   *)
LEMMA WithoutSeq ==
    ASSUME NEW S, NEW s \in Seq(S), NEW i \in 1 .. Len(s)
    PROVE  /\ Without(s, i) \in Seq(S)
           /\ Len(Without(s, i)) = Len(s) - 1
           /\ \A j \in 1 .. Len(s) - 1 : Without(s, i)[j] = IF j < i THEN s[j] ELSE s[j + 1]
<1> DEFINE left == SubSeq(s, 1, i - 1)
           right == SubSeq(s, i + 1, Len(s))
<1>1. /\ left \in Seq(S) /\ Len(left) = i - 1
      /\ \A j \in 1 .. i - 1 : left[j] = s[j]
  <2>1. \A j \in 1 .. i - 1 : s[j] \in S
    OBVIOUS
  <2>2. QED
    BY <2>1, SubSeqProperties
<1>2. /\ right \in Seq(S) /\ Len(right) = Len(s) - i
      /\ \A j \in 1 .. Len(s) - i : right[j] = s[i + j]
  <2>1. \A j \in i + 1 .. Len(s) : s[j] \in S
    OBVIOUS
  <2>2. /\ right \in Seq(S)
        /\ Len(right) = IF i + 1 <= Len(s) THEN Len(s) - (i + 1) + 1 ELSE 0
        /\ \A j \in 1 .. Len(s) - (i + 1) + 1 : right[j] = s[i + 1 + j - 1]
    BY <2>1, SubSeqProperties
  <2>3. QED
    BY <2>2
<1>3. Without(s, i) = left \o right
  BY DEF Without
<1> HIDE DEF left, right
<1>4. /\ left \o right \in Seq(S)
      /\ Len(left \o right) = Len(left) + Len(right)
      /\ \A j \in 1 .. Len(left) + Len(right) :
            (left \o right)[j] = IF j <= Len(left) THEN left[j] ELSE right[j - Len(left)]
  BY <1>1, <1>2, ConcatProperties
<1>5. QED
  BY <1>1, <1>2, <1>3, <1>4

(* Blocking and unblocking keep the types of the rules.                    *)
THEOREM RuleCallTyped ==
    ASSUME RulesTypeOK, RuleCall
    PROVE  RulesTypeOK'
<1>1. ASSUME NEW ip \in IPs, BlockIP(ip) \/ UnblockIP(ip)
      PROVE  RulesTypeOK'
  BY <1>1 DEF RulesTypeOK, BlockIP, UnblockIP
<1>2. ASSUME NEW port \in Ports, BlockPort(port) \/ UnblockPort(port)
      PROVE  RulesTypeOK'
  BY <1>2 DEF RulesTypeOK, BlockPort, UnblockPort
<1>3. ASSUME NEW app \in Apps, BlockApp(app) \/ UnblockApp(app)
      PROVE  RulesTypeOK'
  BY <1>3 DEF RulesTypeOK, BlockApp, UnblockApp
<1>4. ASSUME NEW name \in Domains \cup Patterns, BlockDomain(name)
      PROVE  RulesTypeOK'
  <2>1. CASE name \in Patterns
    BY <1>4, <2>1, RuleAssumption DEF RulesTypeOK, BlockDomain
  <2>2. CASE name \notin Patterns
    BY <1>4, <2>2 DEF RulesTypeOK, BlockDomain
  <2>3. QED
    BY <2>1, <2>2
<1>5. ASSUME NEW name \in Domains \cup Patterns, UnblockDomain(name)
      PROVE  RulesTypeOK'
  <2>1. CASE name \in Patterns /\ FirstAt(domainPatterns, name) # {}
    <3> DEFINE i == CHOOSE i \in FirstAt(domainPatterns, name) : TRUE
    <3>1. i \in 1 .. Len(domainPatterns)
      BY <2>1 DEF FirstAt
    <3>2. domainPatterns' = Without(domainPatterns, i)
      BY <1>5, <2>1 DEF UnblockDomain
    <3> HIDE DEF i
    <3>3. /\ domainPatterns' \in Seq(Patterns)
          /\ Len(domainPatterns') = Len(domainPatterns) - 1
      BY <3>1, <3>2, WithoutSeq DEF RulesTypeOK
    <3>4. QED
      BY <1>5, <2>1, <3>3, RuleAssumption DEF RulesTypeOK, UnblockDomain
  <2>2. CASE ~ (name \in Patterns /\ FirstAt(domainPatterns, name) # {})
    BY <1>5, <2>2 DEF RulesTypeOK, UnblockDomain
  <2>3. QED
    BY <2>1, <2>2
<1>6. QED
  BY <1>1, <1>2, <1>3, <1>4, <1>5 DEF RuleCall

(* "Unblock a domain" takes away one copy only: a pattern that was blocked *)
(* twice, or loaded from the file into rules that had it, is still in the  *)
(* vector after unblockDomain, and blocks every name that it blocked.      *)
THEOREM UnblockLeavesCopy ==
    ASSUME domainPatterns \in Seq(Patterns),
           NEW m \in 1 .. Len(domainPatterns), NEW n \in 1 .. Len(domainPatterns), m < n,
           domainPatterns[m] = domainPatterns[n],
           UnblockDomain(domainPatterns[m])
    PROVE  \A d \in Domains : <<d, domainPatterns[m]>> \in Matches => IsDomainBlocked(d)'
<1> DEFINE name == domainPatterns[m]
           i == CHOOSE i \in FirstAt(domainPatterns, name) : TRUE
<1>1. name \in Patterns
  OBVIOUS
<1>2. CASE FirstAt(domainPatterns, name) = {}
  <2>1. domainPatterns' = domainPatterns
    BY <1>1, <1>2 DEF UnblockDomain
  <2>2. QED
    BY <2>1 DEF IsDomainBlocked
<1>3. CASE FirstAt(domainPatterns, name) # {}
  <2>1. /\ i \in 1 .. Len(domainPatterns)
        /\ \A j \in 1 .. i - 1 : domainPatterns[j] # name
    BY <1>3 DEF FirstAt
  <2>2. domainPatterns' = Without(domainPatterns, i)
    BY <1>1, <1>3 DEF UnblockDomain
  <2> HIDE DEF i
  <2>3. i <= m
    BY <2>1
  <2>4. /\ Len(domainPatterns') = Len(domainPatterns) - 1
        /\ domainPatterns'[n - 1] = domainPatterns[n]
    <3>1. /\ Len(domainPatterns') = Len(domainPatterns) - 1
          /\ \A j \in 1 .. Len(domainPatterns) - 1 :
                domainPatterns'[j] = IF j < i THEN domainPatterns[j] ELSE domainPatterns[j + 1]
      BY <2>1, <2>2, WithoutSeq
    <3>2. n - 1 \in 1 .. Len(domainPatterns) - 1 /\ ~ n - 1 < i /\ (n - 1) + 1 = n
      BY <2>1, <2>3
    <3>3. domainPatterns'[n - 1] = domainPatterns[(n - 1) + 1]
      BY <3>1, <3>2
    <3>4. QED
      BY <3>1, <3>2, <3>3
  <2>5. n - 1 \in 1 .. Len(domainPatterns')
    BY <2>4
  <2>6. QED
    BY <2>4, <2>5 DEF IsDomainBlocked
<1>4. QED
  BY <1>2, <1>3
-----------------------------------------------------------------------------
(***************************************************************************)
(* THE FILE.                                                               *)
(***************************************************************************)

(* The rules as a record, for the file and for what is still to be read.   *)
RuleRecords ==
    [ips : SUBSET IPs, apps : SUBSET Apps, domains : SUBSET Domains,
     patterns : Seq(Patterns), ports : SUBSET Ports]

FileTyped ==
    /\ RulesTypeOK
    /\ file \in RuleRecords /\ rest \in RuleRecords
    /\ savePc \in {"idle", "ips", "apps", "domains", "ports"}
    /\ loadPc \in {"idle", "ips", "apps", "domains", "ports", "loaded"}
    /\ clearPc \in {"ips", "apps", "domains", "ports", "cleared"}
    /\ edits \in 0 .. MaxEdits

(* The kinds of rule a save has written.                                   *)
Written ==
    CASE savePc = "apps" -> {"IP"}
      [] savePc = "domains" -> {"IP", "APP"}
      [] savePc = "ports" -> {"IP", "APP", "DOMAIN"}
      [] OTHER -> {}

(* During a save: what was in force all through is in force now and, if    *)
(* its kind was written, in the file; what is in the file was in force.    *)
SaveInv ==
    savePc # "idle" =>
        /\ ~ complete
        /\ always \subseteq Listed(Current) /\ Listed(Current) \subseteq ever
        /\ Listed(file) \subseteq ever
        /\ \A x \in always : x[1] \in Written => x \in Listed(file)

(* Nothing is left of a section once the next one is read.                 *)
ReadInv ==
    /\ loadPc \in {"apps", "domains", "ports", "loaded"} => rest.ips = {}
    /\ loadPc \in {"domains", "ports", "loaded"} => rest.apps = {}
    /\ loadPc \in {"ports", "loaded"} => rest.domains = {} /\ rest.patterns = <<>>
    /\ loadPc = "loaded" => rest.ports = {}

(* The rules of a process that only loads, and the lines it has not read,  *)
(* are the file, section by section; the patterns in their order.          *)
RestoreInv ==
    untouched =>
        /\ savePc = "idle"
        /\ loadPc = "idle" => Current = NoRules
        /\ loadPc # "idle" =>
             /\ blockedIps \cup rest.ips = file.ips
             /\ blockedApps \cup rest.apps = file.apps
             /\ blockedDomains \cup rest.domains = file.domains
             /\ domainPatterns \o rest.patterns = file.patterns
             /\ blockedPorts \cup rest.ports = file.ports

FileInv == FileTyped /\ SaveInv /\ SavedFaithfully /\ ReadInv /\ RestoreInv

(* One more pattern leaves the rest of them in the same order.             *)
LEMMA HeadMoves ==
    ASSUME NEW S, NEW s \in Seq(S), NEW r \in Seq(S), r # <<>>
    PROVE  /\ Head(r) \in S /\ Tail(r) \in Seq(S)
           /\ Append(s, Head(r)) \o Tail(r) = s \o r
<1>1. Head(r) \in S /\ Tail(r) \in Seq(S) /\ <<Head(r)>> \in Seq(S)
  BY HeadTailProperties
<1>2. <<Head(r)>> \o Tail(r) = r
  <2>1. Len(r) \in Nat \ {0} /\ Head(r) = r[1]
    OBVIOUS
  <2>2. /\ Len(Tail(r)) = Len(r) - 1
        /\ \A i \in 1 .. Len(r) - 1 : Tail(r)[i] = r[i + 1]
    BY <2>1, HeadTailProperties
  <2>3. /\ <<Head(r)>> \o Tail(r) \in Seq(S)
        /\ Len(<<Head(r)>> \o Tail(r)) = Len(r)
        /\ \A i \in 1 .. Len(r) :
              (<<Head(r)>> \o Tail(r))[i] = IF i <= 1 THEN r[1] ELSE Tail(r)[i - 1]
    BY <1>1, <2>1, <2>2, ConcatProperties
  <2>4. \A i \in 1 .. Len(r) : (<<Head(r)>> \o Tail(r))[i] = r[i]
    BY <2>1, <2>2, <2>3
  <2>5. QED
    BY <2>3, <2>4, SeqEqual
<1>3. Append(s, Head(r)) \o Tail(r) = s \o (<<Head(r)>> \o Tail(r))
  BY <1>1, AppendIsConcat, ConcatAssociative
<1>4. QED
  BY <1>1, <1>2, <1>3

LEMMA FileInit_Inv ==
    ASSUME FileInit
    PROVE  FileInv
<1> USE DEF FileInit, RulesInit
<1>1. FileTyped
  BY RuleAssumption, RuleFileAssumption DEF FileTyped, RulesTypeOK, RuleRecords, NoRules
<1>2. SaveInv /\ SavedFaithfully /\ ReadInv
  BY DEF SaveInv, SavedFaithfully, ReadInv
<1>3. RestoreInv
  BY DEF RestoreInv, Current, NoRules
<1>4. QED
  BY <1>1, <1>2, <1>3 DEF FileInv

(* Whoever changes rules during a save keeps its history true.             *)
LEMMA Observed ==
    ASSUME FileInv, Observe, UNCHANGED <<file, savePc>>
    PROVE  SaveInv' /\ SavedFaithfully'
<1>1. CASE savePc = "idle"
  BY <1>1 DEF FileInv, SaveInv, SavedFaithfully, Observe, saveGhosts, Listed
<1>2. CASE savePc # "idle"
  <2>1. /\ ~ complete /\ complete' = complete /\ Listed(file)' = Listed(file)
        /\ always' = always \cap Listed(Current)' /\ ever' = ever \cup Listed(Current)'
        /\ Written' = Written
    BY <1>2 DEF FileInv, SaveInv, Observe, Listed, Written
  <2>2. /\ Listed(file) \subseteq ever
        /\ \A x \in always : x[1] \in Written => x \in Listed(file)
    BY <1>2 DEF FileInv, SaveInv
  <2>3. QED
    BY <2>1, <2>2 DEF SaveInv, SavedFaithfully
<1>3. QED
  BY <1>1, <1>2

LEMMA EditRules_Inv ==
    ASSUME FileInv, EditRules
    PROVE  FileInv'
<1> USE DEF EditRules, filePcs
<1>1. FileTyped'
  BY RuleCallTyped, RuleFileAssumption DEF FileInv, FileTyped
<1>2. SaveInv' /\ SavedFaithfully'
  BY Observed
<1>3. ReadInv' /\ RestoreInv'
  BY DEF FileInv, ReadInv, RestoreInv
<1>4. QED
  BY <1>1, <1>2, <1>3 DEF FileInv

(* Each step of a save adds one section, of rules now in force.            *)
LEMMA Save_Inv ==
    ASSUME FileInv, Save
    PROVE  FileInv'
<1> USE DEF saveGhosts
<1>1. FileTyped'
  <2>1. RulesTypeOK' /\ rest' = rest /\ loadPc' = loadPc /\ clearPc' = clearPc /\ edits' = edits
    BY DEF FileInv, FileTyped, Save, SaveOpen, SaveIPs, SaveApps, SaveDomains, SavePorts,
       ruleVars, RulesTypeOK
  <2>2. savePc' \in {"idle", "ips", "apps", "domains", "ports"}
    BY DEF Save, SaveOpen, SaveIPs, SaveApps, SaveDomains, SavePorts
  <2>3. file' \in RuleRecords
    <3>1. file \in RuleRecords /\ RulesTypeOK
      BY DEF FileInv, FileTyped
    <3>2. CASE SaveOpen
      BY <3>2 DEF SaveOpen, NoRules, RuleRecords
    <3>3. CASE SaveIPs \/ SaveApps
      BY <3>1, <3>3 DEF SaveIPs, SaveApps, RuleRecords, RulesTypeOK
    <3>4. CASE SaveDomains \/ SavePorts
      BY <3>1, <3>4 DEF SaveDomains, SavePorts, RuleRecords, RulesTypeOK
    <3>5. QED
      BY <3>2, <3>3, <3>4 DEF Save
  <2>4. QED
    BY <2>1, <2>2, <2>3 DEF FileInv, FileTyped
<1>2. ReadInv'
  BY DEF FileInv, ReadInv, Save, SaveOpen, SaveIPs, SaveApps, SaveDomains, SavePorts
<1>3. RestoreInv'
  BY DEF FileInv, RestoreInv, Save, SaveOpen, SaveIPs, SaveApps, SaveDomains, SavePorts
<1>4. SaveInv' /\ SavedFaithfully'
  <2>1. CASE SaveOpen
    <3>1. Listed(NoRules) = {}
      BY DEF Listed, NoRules
    <3>2. Current' = Current
      BY <2>1 DEF SaveOpen, ruleVars, Current
    <3>3. Written' = {}
      BY <2>1 DEF SaveOpen, Written
    <3>4. /\ file' = NoRules /\ complete' = FALSE
          /\ always' = Listed(Current) /\ ever' = Listed(Current)
      BY <2>1 DEF SaveOpen
    <3>5. QED
      BY <3>1, <3>2, <3>3, <3>4, Zenon DEF SaveInv, SavedFaithfully
  <2>2. ASSUME SaveIPs \/ SaveApps \/ SaveDomains \/ SavePorts
        PROVE  /\ savePc # "idle" /\ Current' = Current
               /\ always' = always /\ ever' = ever
               /\ always \subseteq Listed(Current) /\ Listed(Current) \subseteq ever
               /\ Listed(file) \subseteq ever /\ ~ complete
               /\ \A x \in always : x[1] \in Written => x \in Listed(file)
               /\ Listed(file') \subseteq Listed(file) \cup Listed(Current)
    <3>1. savePc # "idle" /\ Current' = Current /\ always' = always /\ ever' = ever
      BY <2>2 DEF SaveIPs, SaveApps, SaveDomains, SavePorts, ruleVars, Current
    <3>2. Listed(file') \subseteq Listed(file) \cup Listed(Current)
      <4>1. file \in RuleRecords
        BY DEF FileInv, FileTyped
      <4>2. CASE SaveIPs
        BY <4>1, <4>2 DEF SaveIPs, Listed, Current, RuleRecords
      <4>3. CASE SaveApps
        BY <4>1, <4>3 DEF SaveApps, Listed, Current, RuleRecords
      <4>4. CASE SaveDomains
        <5>1. /\ file'.domains = Current.domains /\ file'.patterns = Current.patterns
              /\ file'.ips = file.ips /\ file'.apps = file.apps /\ file'.ports = file.ports
          BY <4>1, <4>4 DEF SaveDomains, Current, RuleRecords
        <5>2. QED
          BY <5>1 DEF Listed
      <4>5. CASE SavePorts
        BY <4>1, <4>5 DEF SavePorts, Listed, Current, RuleRecords
      <4>6. QED
        BY <2>2, <4>2, <4>3, <4>4, <4>5
    <3>3. QED
      BY <3>1, <3>2 DEF FileInv, SaveInv
  <2>3. ASSUME SaveIPs \/ SaveApps \/ SaveDomains \/ SavePorts, NEW x \in always,
               savePc = "ports" \/ x[1] \in Written'
        PROVE  x \in Listed(file')
    <3>1. x \in Listed(Current) /\ (x[1] \in Written => x \in Listed(file))
      BY <2>2, <2>3
    <3>2. CASE SaveIPs
      BY <2>3, <3>1, <3>2 DEF SaveIPs, Written, Listed, Current, FileInv, FileTyped, RuleRecords
    <3>3. CASE SaveApps
      BY <2>3, <3>1, <3>3 DEF SaveApps, Written, Listed, Current, FileInv, FileTyped, RuleRecords
    <3>4. CASE SaveDomains
      BY <2>3, <3>1, <3>4 DEF SaveDomains, Written, Listed, Current, FileInv, FileTyped,
         RuleRecords
    <3>5. CASE SavePorts
      BY <2>3, <3>1, <3>5 DEF SavePorts, Written, Listed, Current, FileInv, FileTyped,
         RuleRecords
    <3>6. QED
      BY <2>3, <3>2, <3>3, <3>4, <3>5
  <2>4. CASE SaveIPs \/ SaveApps \/ SaveDomains
    <3>1. complete' = complete
      BY <2>4 DEF SaveIPs, SaveApps, SaveDomains
    <3>2. QED
      BY <2>2, <2>3, <2>4, <3>1 DEF SaveInv, SavedFaithfully
  <2>5. CASE SavePorts
    <3>1. savePc = "ports" /\ savePc' = "idle"
      BY <2>5 DEF SavePorts
    <3>2. always' \subseteq Listed(file') /\ Listed(file') \subseteq ever'
      BY <2>2, <2>3, <2>5, <3>1
    <3>3. QED
      BY <3>1, <3>2 DEF SaveInv, SavedFaithfully
  <2>6. QED
    BY <2>1, <2>4, <2>5 DEF Save
<1>5. QED
  BY <1>1, <1>2, <1>3, <1>4 DEF FileInv

LEMMA LoadOpen_Inv ==
    ASSUME FileInv, LoadOpen
    PROVE  FileInv'
<1> USE DEF LoadOpen, ruleVars, saveGhosts
<1>1. FileTyped'
  BY DEF FileInv, FileTyped, RulesTypeOK
<1>2. SaveInv' /\ SavedFaithfully'
  <2>1. savePc' = "idle" /\ Listed(file)' = Listed(file)
    BY DEF Listed
  <2>2. QED
    BY <2>1 DEF FileInv, SaveInv, SavedFaithfully
<1>3. ReadInv'
  BY DEF ReadInv
<1>4. RestoreInv'
  <2>1. CASE ~ untouched
    BY <2>1 DEF RestoreInv
  <2>2. CASE untouched
    <3>1. /\ blockedIps = {} /\ blockedApps = {} /\ blockedDomains = {} /\ blockedPorts = {}
          /\ domainPatterns = <<>>
      BY <2>2 DEF FileInv, RestoreInv, Current, NoRules
    <3>2. <<>> \o file.patterns = file.patterns
      BY ConcatEmptySeq DEF FileInv, FileTyped, RuleRecords
    <3>3. QED
      BY <3>1, <3>2 DEF RestoreInv
  <2>3. QED
    BY <2>1, <2>2
<1>5. QED
  BY <1>1, <1>2, <1>3, <1>4 DEF FileInv

LEMMA LoadLine_Inv ==
    ASSUME FileInv, LoadLine
    PROVE  FileInv'
<1> USE DEF LoadLine
<1>1. SaveInv' /\ SavedFaithfully'
  BY Observed
<1>2. /\ savePc' = savePc /\ file' = file /\ untouched' = untouched
      /\ RulesTypeOK /\ file \in RuleRecords /\ rest \in RuleRecords
      /\ rest.ips \subseteq IPs /\ rest.apps \subseteq Apps /\ rest.domains \subseteq Domains
      /\ rest.ports \subseteq Ports /\ rest.patterns \in Seq(Patterns)
  BY DEF FileInv, FileTyped, RuleRecords
<1>3. CASE LoadIP \/ LoadApp \/ LoadPort
  <2>1. RulesTypeOK' /\ rest' \in RuleRecords /\ loadPc' = loadPc
    BY <1>2, <1>3 DEF LoadIP, LoadApp, LoadPort, BlockIP, BlockApp, BlockPort,
       RulesTypeOK, RuleRecords
  <2>2. /\ blockedIps' \cup rest'.ips = blockedIps \cup rest.ips
        /\ blockedApps' \cup rest'.apps = blockedApps \cup rest.apps
        /\ blockedPorts' \cup rest'.ports = blockedPorts \cup rest.ports
        /\ rest'.domains = rest.domains /\ rest'.patterns = rest.patterns
        /\ blockedDomains' = blockedDomains /\ domainPatterns' = domainPatterns
        /\ loadPc \in {"ips", "apps", "ports"}
        /\ rest'.ips \subseteq rest.ips /\ rest'.apps \subseteq rest.apps
        /\ rest'.ports \subseteq rest.ports
    BY <1>2, <1>3 DEF LoadIP, LoadApp, LoadPort, BlockIP, BlockApp, BlockPort, RuleRecords
  <2>3. FileTyped'
    BY <1>2, <2>1 DEF FileInv, FileTyped
  <2>4. ReadInv'
    BY <2>1, <2>2 DEF FileInv, ReadInv
  <2>5. RestoreInv'
    BY <1>2, <2>1, <2>2 DEF FileInv, RestoreInv
  <2>6. QED
    BY <1>1, <2>3, <2>4, <2>5 DEF FileInv
<1>4. CASE LoadDomain \/ LoadPattern
  <2>1. /\ loadPc = "domains" /\ loadPc' = loadPc
        /\ blockedIps' = blockedIps /\ blockedApps' = blockedApps
        /\ blockedPorts' = blockedPorts
        /\ rest'.ips = rest.ips /\ rest'.apps = rest.apps /\ rest'.ports = rest.ports
    BY <1>2, <1>4 DEF LoadDomain, LoadPattern, BlockDomain, RuleRecords
  <2>2. /\ RulesTypeOK' /\ rest' \in RuleRecords
        /\ blockedDomains' \cup rest'.domains = blockedDomains \cup rest.domains
        /\ domainPatterns' \o rest'.patterns = domainPatterns \o rest.patterns
    <3>1. CASE LoadDomain
      <4>1. PICK d \in rest.domains : BlockDomain(d) /\ rest' = [rest EXCEPT !.domains = @ \ {d}]
        BY <3>1 DEF LoadDomain
      <4>2. d \notin Patterns
        BY <1>2, RuleAssumption
      <4>3. QED
        BY <1>2, <4>1, <4>2 DEF BlockDomain, RulesTypeOK, RuleRecords
    <3>2. CASE LoadPattern
      <4>1. /\ rest.patterns # <<>> /\ BlockDomain(Head(rest.patterns))
            /\ rest' = [rest EXCEPT !.patterns = Tail(@)]
        BY <3>2 DEF LoadPattern
      <4>2. /\ Head(rest.patterns) \in Patterns /\ Tail(rest.patterns) \in Seq(Patterns)
            /\ Append(domainPatterns, Head(rest.patterns)) \o Tail(rest.patterns)
                 = domainPatterns \o rest.patterns
        BY <1>2, <4>1, HeadMoves DEF RulesTypeOK
      <4>3. /\ Len(domainPatterns) < MaxPatterns /\ blockedDomains' = blockedDomains
            /\ domainPatterns' = Append(domainPatterns, Head(rest.patterns))
        BY <4>1, <4>2 DEF BlockDomain
      <4>4. /\ rest' \in RuleRecords /\ rest'.patterns = Tail(rest.patterns)
            /\ rest'.domains = rest.domains
        BY <1>2, <4>1, <4>2 DEF RuleRecords
      <4>5. domainPatterns' \in Seq(Patterns) /\ Len(domainPatterns') = Len(domainPatterns) + 1
        BY <1>2, <4>2, <4>3, AppendProperties DEF RulesTypeOK
      <4>6. RulesTypeOK'
        BY <1>2, <2>1, <4>3, <4>5, RuleAssumption, LenProperties DEF RulesTypeOK
      <4>7. QED
        BY <4>2, <4>3, <4>4, <4>6
    <3>3. QED
      BY <1>4, <3>1, <3>2
  <2>3. FileTyped'
    BY <1>2, <2>1, <2>2 DEF FileInv, FileTyped
  <2>4. ReadInv'
    BY <2>1 DEF FileInv, ReadInv
  <2>5. RestoreInv'
    BY <1>2, <2>1, <2>2 DEF FileInv, RestoreInv
  <2>6. QED
    BY <1>1, <2>3, <2>4, <2>5 DEF FileInv
<1>5. CASE LoadSection
  <2>1. /\ loadPc' \in {"apps", "domains", "ports", "loaded"} /\ loadPc # "idle"
        /\ UNCHANGED <<ruleVars, rest>>
    BY <1>5 DEF LoadSection
  <2>2. FileTyped'
    BY <1>2, <2>1 DEF FileInv, FileTyped, RulesTypeOK, ruleVars
  <2>3. ReadInv'
    BY <1>5 DEF LoadSection, FileInv, ReadInv
  <2>4. RestoreInv'
    BY <1>2, <2>1 DEF FileInv, RestoreInv, ruleVars
  <2>5. QED
    BY <1>1, <2>2, <2>3, <2>4 DEF FileInv
<1>6. QED
  BY <1>3, <1>4, <1>5

LEMMA Clear_Inv ==
    ASSUME FileInv, Clear
    PROVE  FileInv'
<1> USE DEF Clear
<1>1. SaveInv' /\ SavedFaithfully'
  BY Observed
<1>2. RulesTypeOK'
  <2>1. /\ blockedIps' \subseteq blockedIps /\ blockedApps' \subseteq blockedApps
        /\ blockedDomains' \subseteq blockedDomains /\ blockedPorts' \subseteq blockedPorts
        /\ domainPatterns' = domainPatterns \/ domainPatterns' = <<>>
    OBVIOUS
  <2>2. <<>> \in Seq(Patterns) /\ Len(<<>>) = 0 /\ 0 <= MaxPatterns
    BY RuleAssumption
  <2>3. QED
    BY <2>1, <2>2 DEF FileInv, FileTyped, RulesTypeOK
<1>3. FileTyped'
  BY <1>2 DEF FileInv, FileTyped
<1>4. ReadInv' /\ RestoreInv'
  BY DEF FileInv, ReadInv, RestoreInv
<1>5. QED
  BY <1>1, <1>3, <1>4 DEF FileInv

(* A crash in the middle of a save may lose what was written: complete was *)
(* withdrawn when the file was emptied.                                    *)
LEMMA Restart_Inv ==
    ASSUME FileInv, Restart
    PROVE  FileInv'
<1> USE DEF Restart, saveGhosts
<1>1. file' = file \/ (file' = NoRules /\ savePc # "idle")
  OBVIOUS
<1>2. FileTyped'
  <2>1. NoRules \in RuleRecords
    BY DEF NoRules, RuleRecords
  <2>2. RulesTypeOK'
    BY RuleAssumption DEF RulesTypeOK
  <2>3. QED
    BY <1>1, <2>1, <2>2 DEF FileInv, FileTyped
<1>3. SaveInv' /\ SavedFaithfully'
  <2>1. CASE savePc = "idle"
    <3>1. Listed(file)' = Listed(file)
      BY <1>1, <2>1 DEF Listed
    <3>2. QED
      BY <2>1, <3>1 DEF FileInv, SaveInv, SavedFaithfully
  <2>2. CASE savePc # "idle"
    BY <2>2 DEF FileInv, SaveInv, SavedFaithfully
  <2>3. QED
    BY <2>1, <2>2
<1>4. ReadInv' /\ RestoreInv'
  BY DEF ReadInv, RestoreInv, Current, NoRules
<1>5. QED
  BY <1>2, <1>3, <1>4 DEF FileInv

THEOREM FileInvariant == FileSpec => []FileInv
<1>1. FileInit => FileInv
  BY FileInit_Inv
<1>2. FileInv /\ [FileNext]_fileVars => FileInv'
  <2>1. ASSUME FileInv, FileNext
        PROVE  FileInv'
    BY <2>1, EditRules_Inv, Save_Inv, LoadOpen_Inv, LoadLine_Inv, Clear_Inv, Restart_Inv
       DEF FileNext
  <2>2. ASSUME FileInv, UNCHANGED fileVars
        PROVE  FileInv'
    <3>1. UNCHANGED <<ruleVars, file, filePcs, edits, saveGhosts, untouched>>
      BY <2>2 DEF fileVars
    <3>2. Listed(file)' = Listed(file) /\ Listed(Current)' = Listed(Current) /\ Written' = Written
      BY <3>1 DEF Listed, Current, Written, ruleVars, filePcs
    <3>3. QED
      BY <2>2, <3>1, <3>2 DEF FileInv, FileTyped, RulesTypeOK, SaveInv, SavedFaithfully,
         ReadInv, RestoreInv, Current, ruleVars, filePcs, saveGhosts
  <2>3. QED
    BY <2>1, <2>2
<1>3. QED
  BY <1>1, <1>2, PTL DEF FileSpec
----------------------------------------------------------------------------
(* Every line of the file, and every line still to be read, names a rule   *)
(* of its section.                                                         *)
THEOREM FileTypesCorrect == FileSpec => []FileTypeOK
<1>1. FileInv => FileTypeOK
  <2>1. ASSUME NEW r \in RuleRecords
        PROVE  Listed(r) \subseteq
                 ({"IP"} \X IPs) \cup ({"APP"} \X Apps) \cup ({"PORT"} \X Ports)
                    \cup ({"DOMAIN"} \X (Domains \cup Patterns))
    <3>1. \A i \in 1 .. Len(r.patterns) : r.patterns[i] \in Patterns
      BY DEF RuleRecords
    <3>2. QED
      BY <3>1 DEF Listed, RuleRecords
  <2>2. QED
    BY <2>1 DEF FileInv, FileTyped, FileTypeOK
<1>2. QED
  BY <1>1, FileInvariant, PTL

(* saveRules takes no snapshot, but what it wrote to the end is faithful,  *)
(* however many threads change rules between its sections, and after any   *)
(* number of crashes.                                                      *)
THEOREM SavesAreFaithful == FileSpec => []SavedFaithfully
<1>1. FileInv => SavedFaithfully
  BY DEF FileInv
<1>2. QED
  BY <1>1, FileInvariant, PTL

(* A new process that only loads has the rules of the file, no others, and *)
(* the patterns in the file's order with their repetitions: also of a file *)
(* that another process left unfinished.                                   *)
THEOREM RestoresExactly == FileSpec => []RestoredExactly
<1>1. FileInv => RestoredExactly
  <2>1. SUFFICES ASSUME FileInv, untouched, loadPc = "loaded"
                 PROVE  Current = file
    BY DEF RestoredExactly
  <2>2. /\ blockedIps = file.ips /\ blockedApps = file.apps /\ blockedPorts = file.ports
        /\ blockedDomains = file.domains /\ domainPatterns \o <<>> = file.patterns
    BY <2>1 DEF FileInv, ReadInv, RestoreInv
  <2>3. domainPatterns = file.patterns
    BY <2>1, <2>2, ConcatEmptySeq DEF FileInv, FileTyped, RulesTypeOK
  <2>4. QED
    BY <2>1, <2>2, <2>3 DEF Current, FileInv, FileTyped, RuleRecords
<1>2. QED
  BY <1>1, FileInvariant, PTL
-----------------------------------------------------------------------------
(***************************************************************************)
(* THE FAST PATH.                                                          *)
(***************************************************************************)

USE DEF trackVars, ghostVars

Closes(c, flags) ==
    "RST" \in flags \/ ((c.finSeen \/ "FIN" \in flags) /\ "ACK" \in flags)

Labelled(c) ==
    c.app \in IF c.sni = NoDomain THEN {"UNKNOWN", "HTTP", "HTTPS"} ELSE {AppOf[c.sni], "DNS"}
----------------------------------------------------------------------------
LEMMA EndCloses ==
    ASSUME NEW c \in Connections, NEW flags, Closes(c, flags)
    PROVE  TCPUpdate(c, flags).state = "CLOSED"
BY DEF Closes, TCPUpdate, NextTCPState, Connections

LEMMA UpdateTyped ==
    ASSUME NEW c \in Connections, NEW flags
    PROVE  /\ TCPUpdate(c, flags) \in Connections
           /\ TCPUpdate(c, flags).app = c.app
           /\ TCPUpdate(c, flags).sni = c.sni
           /\ TCPUpdate(c, flags).finSeen = (c.finSeen \/ "FIN" \in flags)
           /\ TCPUpdate(c, flags).state = "BLOCKED" => c.state = "BLOCKED"
           /\ c.state = "BLOCKED" /\ TCPUpdate(c, flags).state # "BLOCKED" => Closes(c, flags)
<1> DEFINE synSeen == c.synSeen \/ ("SYN" \in flags /\ "ACK" \notin flags)
           synAckSeen == c.synAckSeen \/ {"SYN", "ACK"} \subseteq flags
           finSeen == c.finSeen \/ "FIN" \in flags
           opens == synSeen /\ synAckSeen /\ "ACK" \in flags
           state == NextTCPState(c.state, opens, Closes(c, flags))
<1>1. /\ c.state \in {"NEW", "ESTABLISHED", "CLASSIFIED", "BLOCKED", "CLOSED"}
      /\ c.synSeen \in BOOLEAN /\ c.synAckSeen \in BOOLEAN /\ c.finSeen \in BOOLEAN
  BY DEF Connections
<1>2. TCPUpdate(c, flags) =
          [c EXCEPT !.synSeen = synSeen, !.synAckSeen = synAckSeen, !.finSeen = finSeen,
                    !.state = state]
  BY Zenon DEF TCPUpdate, Closes, Connections
<1>3. /\ synSeen \in BOOLEAN /\ synAckSeen \in BOOLEAN /\ finSeen \in BOOLEAN
      /\ opens \in BOOLEAN /\ Closes(c, flags) \in BOOLEAN
  BY <1>1 DEF Closes
<1> HIDE DEF synSeen, synAckSeen, opens
<1>4. /\ state \in {"NEW", "ESTABLISHED", "CLASSIFIED", "BLOCKED", "CLOSED"}
      /\ c.state # "BLOCKED" => state # "BLOCKED"
      /\ c.state = "BLOCKED" /\ ~ Closes(c, flags) => state = "BLOCKED"
  BY <1>1, <1>3 DEF NextTCPState
<1> HIDE DEF finSeen, state
<1>5. /\ TCPUpdate(c, flags) \in Connections
      /\ TCPUpdate(c, flags).state = state /\ TCPUpdate(c, flags).app = c.app
      /\ TCPUpdate(c, flags).sni = c.sni /\ TCPUpdate(c, flags).finSeen = finSeen
  <2>1. state \in {"NEW", "ESTABLISHED", "CLASSIFIED", "BLOCKED", "CLOSED"}
    BY <1>4
  <2>2. QED
    BY <1>2, <1>3, <2>1 DEF Connections
<1>6. QED
  BY <1>4, <1>5 DEF finSeen

LEMMA ClassifiedTyped ==
    ASSUME NEW c \in Connections, c.state # "BLOCKED",
           NEW app \in AppTypes, NEW sni \in Domains \cup {NoDomain},
           app \in IF sni = NoDomain THEN {"UNKNOWN", "HTTP", "HTTPS"} ELSE {AppOf[sni], "DNS"}
    PROVE  /\ Classified(c, app, sni) \in Connections
           /\ Classified(c, app, sni).state # "BLOCKED"
           /\ Classified(c, app, sni).finSeen = c.finSeen
           /\ Labelled(c) => Labelled(Classified(c, app, sni))
BY DEF Classified, Connections, Labelled

LEMMA InspectedTyped ==
    ASSUME NEW c \in Connections, c.state # "BLOCKED", NEW t \in Flows,
           NEW payload \in Payloads, payload.kind # "empty"
    PROVE  /\ Inspected(c, t, payload) \in Connections
           /\ Inspected(c, t, payload).state # "BLOCKED"
           /\ Inspected(c, t, payload).finSeen = c.finSeen
           /\ Labelled(c) => Labelled(Inspected(c, t, payload))
<1> DEFINE d == payload.domain
           named == \/ payload.kind = "tls"
                    \/ payload.kind = "http" /\ DstPort[t] = 80
           query == payload.kind = "dns" /\ 53 \in {DstPort[t], SrcPort[t]}
<1>1. named \/ query => d \in Domains
  BY DEF Payloads
<1>2. NoDomain \notin Domains /\ {"UNKNOWN", "HTTP", "HTTPS", "DNS"} \subseteq AppTypes
  BY FastPathAssumption
<1>3. \A e \in Domains : AppOf[e] \in AppTypes
  BY FastPathAssumption
<1>4. CASE named
  <2>1. Inspected(c, t, payload) = Classified(c, AppOf[d], d)
    BY <1>4 DEF Inspected, Payloads
  <2>2. /\ d \in Domains \cup {NoDomain} /\ AppOf[d] \in AppTypes
        /\ AppOf[d] \in IF d = NoDomain THEN {"UNKNOWN", "HTTP", "HTTPS"} ELSE {AppOf[d], "DNS"}
    BY <1>1, <1>2, <1>3, <1>4
  <2> HIDE DEF d, named, query
  <2>3. QED
    BY <2>1, <2>2, ClassifiedTyped
<1>5. CASE query
  <2>1. Inspected(c, t, payload) = Classified(c, "DNS", d)
    BY <1>5 DEF Inspected, Payloads
  <2>2. /\ d \in Domains \cup {NoDomain} /\ "DNS" \in AppTypes
        /\ "DNS" \in IF d = NoDomain THEN {"UNKNOWN", "HTTP", "HTTPS"} ELSE {AppOf[d], "DNS"}
    BY <1>1, <1>2, <1>5
  <2> HIDE DEF d, named, query
  <2>3. QED
    BY <2>1, <2>2, ClassifiedTyped
<1>6. CASE ~ named /\ ~ query
  <2>1. Inspected(c, t, payload) \in
            {c, Classified(c, "HTTP", NoDomain), Classified(c, "HTTPS", NoDomain)}
    BY <1>6 DEF Inspected
  <2>2. QED
    BY <1>2, <2>1, ClassifiedTyped
<1>7. QED
  BY <1>4, <1>5, <1>6
----------------------------------------------------------------------------
(* The kinds of rule that a check has still to look up.                    *)
ToLookUp(kind) ==
    CASE kind = "IP" -> Kinds
      [] kind = "PORT" -> {"PORT", "APP", "DOMAIN"}
      [] kind = "APP" -> {"APP", "DOMAIN"}
      [] OTHER -> {"DOMAIN"}

(* While a packet is checked: a rule that matched it all the time belongs  *)
(* to a kind that is still to come, and matches now; and a rule that now   *)
(* matches has made the connection a suspect.                              *)
CheckInv ==
    phase # "idle" =>
        /\ verdict = "none"
        /\ standing \subseteq ToLookUp(phase)
        /\ standing \subseteq Hits(job.flow, conns[job.flow])
        /\ Hits(job.flow, conns[job.flow]) # {} => job.flow \in suspects

(* What is BLOCKED was suspected, and stays so as long as its entry.       *)
BlockInv ==
    \A t \in DOMAIN conns : conns[t].state = "BLOCKED" => t \in suspects

IInv ==
    /\ TypeOK
    /\ CheckInv
    /\ BlockInv
    /\ StandingRuleApplies
    /\ DropHasCause
    /\ LabelsAgree
----------------------------------------------------------------------------
LEMMA InitIInv == Init => IInv
<1> SUFFICES ASSUME Init PROVE IInv
  OBVIOUS
<1>1. RulesTypeOK
  BY RuleAssumption DEF Init, RulesInit, RulesTypeOK
<1>2. DOMAIN conns = {}
  BY DEF Init
<1>3. TypeOK
  BY <1>1, <1>2, FastPathAssumption DEF Init, TypeOK
<1>4. QED
  BY <1>2, <1>3 DEF Init, IInv, CheckInv, BlockInv, StandingRuleApplies, DropHasCause, LabelsAgree

LEMMA Kept ==
    ASSUME TypeOK, NEW t \in Flows
    PROVE  /\ KeptFor(t) \subseteq DOMAIN conns
           /\ t \in DOMAIN conns => KeptFor(t) = DOMAIN conns
           /\ Seen(t) \subseteq (KeptFor(t) \cup {t}) \X (KeptFor(t) \cup {t})
BY DEF KeptFor, Oldest, Seen, TypeOK

(* The connection in hand once its flags were followed.                    *)
LEMMA AfterFlagsTyped ==
    ASSUME TypeOK, LabelsAgree, NEW p \in Jobs
    PROVE  /\ p.flow \in Flows
           /\ Found(p.flow) \in Connections
           /\ AfterFlags(p) \in Connections
           /\ Labelled(AfterFlags(p))
           /\ AfterFlags(p).state = "BLOCKED" =>
                 p.flow \in DOMAIN conns /\ conns[p.flow].state = "BLOCKED"
           /\ Found(p.flow).state = "BLOCKED" /\ AfterFlags(p).state # "BLOCKED" =>
                 /\ p.flow \in TCPFlows
                 /\ \/ "RST" \in p.flags
                    \/ AfterFlags(p).finSeen /\ "ACK" \in p.flags
<1>1. p.flow \in Flows
  BY FastPathAssumption DEF Jobs
<1>2. Found(p.flow) \in Connections /\ Labelled(Found(p.flow))
  <2>1. NewConnection \in Connections /\ Labelled(NewConnection)
    BY FastPathAssumption DEF NewConnection, Connections, Labelled
  <2>2. QED
    BY <1>1, <2>1 DEF Found, TypeOK, LabelsAgree, Labelled
<1>3. Found(p.flow).state = "BLOCKED" => p.flow \in DOMAIN conns /\ conns[p.flow].state = "BLOCKED"
  BY DEF Found, NewConnection
<1>4. CASE p.flow \in TCPFlows
  BY <1>1, <1>2, <1>3, <1>4, UpdateTyped DEF AfterFlags, Labelled, Closes
<1>5. CASE p.flow \notin TCPFlows
  BY <1>1, <1>2, <1>3, <1>5 DEF AfterFlags
<1>6. QED
  BY <1>4, <1>5

(* The connection as Receive stores it.                                    *)
LEMMA ReceivedTyped ==
    ASSUME TypeOK, LabelsAgree, NEW p \in Jobs, NEW payload \in Payloads,
           AfterFlags(p).state # "BLOCKED",
           NEW c, c = IF AfterFlags(p).state # "CLASSIFIED" /\ payload.kind # "empty"
                      THEN Inspected(AfterFlags(p), p.flow, payload) ELSE AfterFlags(p)
    PROVE  /\ c \in Connections
           /\ Labelled(c)
           /\ c.state # "BLOCKED"
           /\ c.finSeen = AfterFlags(p).finSeen
BY AfterFlagsTyped, InspectedTyped
----------------------------------------------------------------------------
LEMMA ReceiveBlockedStep ==
    ASSUME IInv, NEW p \in Jobs, ReceiveBlocked(p)
    PROVE  IInv'
<1> DEFINE t == p.flow
           c == AfterFlags(p)
<1>1. /\ t \in Flows /\ t \in DOMAIN conns /\ conns[t].state = "BLOCKED"
      /\ c \in Connections /\ c.state = "BLOCKED" /\ Labelled(c)
  BY AfterFlagsTyped DEF IInv, ReceiveBlocked
<1>2. KeptFor(t) = DOMAIN conns /\ Seen(t) \subseteq (DOMAIN conns) \X (DOMAIN conns)
  BY <1>1, Kept DEF IInv
<1>3. /\ DOMAIN conns' = DOMAIN conns /\ conns'[t] = c
      /\ \A u \in DOMAIN conns : u # t => conns'[u] = conns[u]
  BY <1>1, <1>2 DEF Stored, ReceiveBlocked
<1>4. suspects' = suspects /\ t \in suspects
  BY <1>1, <1>2 DEF IInv, TypeOK, BlockInv, ReceiveBlocked
<1> HIDE DEF c
<1>5. TypeOK'
  BY <1>1, <1>2, <1>3, <1>4 DEF IInv, TypeOK, RulesTypeOK, ruleVars, ReceiveBlocked
<1>6. CheckInv' /\ StandingRuleApplies' /\ DropHasCause'
  BY <1>4 DEF ReceiveBlocked, CheckInv, StandingRuleApplies, DropHasCause
<1>7. BlockInv'
  BY <1>3, <1>4 DEF IInv, BlockInv
<1>8. LabelsAgree'
  BY <1>1, <1>3 DEF IInv, LabelsAgree, Labelled
<1>9. QED
  BY <1>5, <1>6, <1>7, <1>8 DEF IInv

LEMMA ReceiveStep ==
    ASSUME IInv, NEW p \in Jobs, NEW payload \in Payloads, Receive(p, payload)
    PROVE  IInv'
<1> DEFINE t == p.flow
<1>0. PICK c : c = IF AfterFlags(p).state # "CLASSIFIED" /\ payload.kind # "empty"
                   THEN Inspected(AfterFlags(p), p.flow, payload) ELSE AfterFlags(p)
  OBVIOUS
<1>1. t \in Flows
  BY AfterFlagsTyped DEF IInv
<1>2. c \in Connections /\ Labelled(c) /\ c.state # "BLOCKED"
  BY <1>0, ReceivedTyped DEF IInv, Receive
<1>3. /\ conns' = Stored(p, c) /\ older' = Seen(t) /\ job' = p /\ phase' = "IP"
      /\ verdict' = "none" /\ standing' = Hits(t, c)
      /\ suspects' = (suspects \cap KeptFor(t))
                          \cup (IF Hits(t, c) # {} THEN {t} ELSE {})
      /\ UNCHANGED <<ruleVars, ruleCalls>>
  BY <1>0 DEF Receive
<1>4. /\ KeptFor(t) \subseteq DOMAIN conns
      /\ Seen(t) \subseteq (KeptFor(t) \cup {t}) \X (KeptFor(t) \cup {t})
  BY <1>1, Kept DEF IInv
<1>5. /\ DOMAIN conns' = KeptFor(t) \cup {t} /\ conns'[t] = c
      /\ \A u \in KeptFor(t) : u # t => conns'[u] = conns[u]
  BY <1>3 DEF Stored
<1>6. Hits(t, c) = Hits(t, c)' /\ Hits(t, c) \subseteq Kinds
  BY <1>3 DEF Hits, Hit, IsIPBlocked, IsPortBlocked, IsAppBlocked, IsDomainBlocked, ruleVars
<1>7. Hits(job.flow, conns[job.flow])' = Hits(t, c)
  BY <1>3, <1>5, <1>6 DEF Hits, Hit, IsIPBlocked, IsPortBlocked, IsAppBlocked,
     IsDomainBlocked, ruleVars
<1>8. TypeOK'
  <2>1. RulesTypeOK'
    BY <1>3 DEF IInv, TypeOK, RulesTypeOK, ruleVars
  <2>2. \A u \in DOMAIN conns' : conns'[u] \in Connections
    BY <1>2, <1>4, <1>5 DEF IInv, TypeOK
  <2>3. QED
    BY <1>1, <1>3, <1>4, <1>5, <1>6, <2>1, <2>2 DEF IInv, TypeOK, Kinds
<1>9. CheckInv' /\ StandingRuleApplies' /\ DropHasCause'
  BY <1>3, <1>6, <1>7 DEF CheckInv, StandingRuleApplies, DropHasCause, ToLookUp
<1>10. BlockInv'
  BY <1>2, <1>3, <1>4, <1>5 DEF IInv, BlockInv
<1>11. LabelsAgree'
  BY <1>2, <1>4, <1>5 DEF IInv, LabelsAgree, Labelled
<1>12. QED
  BY <1>8, <1>9, <1>10, <1>11 DEF IInv

(* The verdict of a check: the kind at hand matches, or it does not.       *)
LEMMA CheckHitsStep ==
    ASSUME IInv, CheckHits
    PROVE  IInv'
<1> DEFINE t == job.flow
<1>1. t \in DOMAIN conns /\ conns[t] \in Connections
  BY DEF IInv, TypeOK, CheckHits, Kinds
<1>2. t \in suspects
  <2>1. phase # "idle" /\ Hits(t, conns[t]) # {}
    BY DEF CheckHits, Hits, Kinds
  <2>2. QED
    BY <2>1 DEF IInv, CheckInv
<1>3. /\ DOMAIN conns' = DOMAIN conns
      /\ conns'[t] = [conns[t] EXCEPT !.state = "BLOCKED"]
      /\ \A u \in DOMAIN conns : u # t => conns'[u] = conns[u]
  BY <1>1 DEF CheckHits
<1>4. TypeOK'
  <2>1. conns'[t] \in Connections
    BY <1>1, <1>3 DEF Connections
  <2>2. QED
    BY <1>3, <2>1 DEF IInv, TypeOK, RulesTypeOK, ruleVars, CheckHits
<1>5. CheckInv' /\ StandingRuleApplies' /\ DropHasCause'
  BY <1>2 DEF CheckHits, CheckInv, StandingRuleApplies, DropHasCause
<1>6. BlockInv'
  BY <1>2, <1>3 DEF IInv, BlockInv, CheckHits
<1>7. LabelsAgree'
  BY <1>1, <1>3 DEF IInv, LabelsAgree, Connections
<1>8. QED
  BY <1>4, <1>5, <1>6, <1>7 DEF IInv

LEMMA CheckMissesStep ==
    ASSUME IInv, CheckMisses
    PROVE  IInv'
<1>1. phase \notin standing
  BY DEF IInv, CheckInv, CheckMisses, Hits, Kinds
<1>2. Hits(job.flow, conns[job.flow])' = Hits(job.flow, conns[job.flow])
  BY DEF CheckMisses, Hits, Hit, IsIPBlocked, IsPortBlocked, IsAppBlocked, IsDomainBlocked,
     ruleVars
<1>3. TypeOK'
  BY DEF IInv, TypeOK, RulesTypeOK, ruleVars, CheckMisses, PhaseAfter, Kinds
<1>4. /\ standing' = standing /\ suspects' = suspects /\ job' = job
      /\ standing \subseteq ToLookUp(phase)
      /\ standing \subseteq Hits(job.flow, conns[job.flow])
      /\ Hits(job.flow, conns[job.flow]) # {} => job.flow \in suspects
  BY DEF IInv, CheckInv, CheckMisses, Kinds
<1>5. standing \subseteq IF PhaseAfter(phase) = "idle" THEN {} ELSE ToLookUp(PhaseAfter(phase))
  BY <1>1, <1>4 DEF CheckMisses, PhaseAfter, ToLookUp, Kinds
<1>6. CheckInv' /\ StandingRuleApplies' /\ DropHasCause'
  BY <1>2, <1>4, <1>5 DEF CheckMisses, CheckInv, StandingRuleApplies, DropHasCause
<1>7. BlockInv' /\ LabelsAgree'
  BY DEF IInv, CheckMisses, BlockInv, LabelsAgree
<1>8. QED
  BY <1>3, <1>6, <1>7 DEF IInv

LEMMA CleanupStep ==
    ASSUME IInv, NEW stale \in SUBSET Flows, Cleanup(stale)
    PROVE  IInv'
<1>1. /\ DOMAIN conns' \subseteq DOMAIN conns
      /\ \A t \in DOMAIN conns' : conns'[t] = conns[t]
      /\ phase = "idle" /\ phase' = "idle" /\ verdict' = "none"
      /\ UNCHANGED <<ruleVars, job, ruleCalls, standing>>
  BY DEF Cleanup
<1>2. older' \subseteq (DOMAIN conns') \X (DOMAIN conns')
  BY DEF IInv, TypeOK, Cleanup
<1>3. suspects' = suspects \cap DOMAIN conns'
  BY DEF IInv, TypeOK, Cleanup
<1>4. TypeOK'
  BY <1>1, <1>2, <1>3 DEF IInv, TypeOK, RulesTypeOK, ruleVars
<1>5. QED
  BY <1>1, <1>3, <1>4 DEF IInv, CheckInv, BlockInv, StandingRuleApplies, DropHasCause,
     LabelsAgree

LEMMA ChangeRulesStep ==
    ASSUME IInv, ChangeRules
    PROVE  IInv'
<1>1. /\ UNCHANGED <<conns, older, job, phase, verdict>>
      /\ ruleCalls' \in 0 .. MaxRuleCalls
  BY FastPathAssumption DEF IInv, TypeOK, ChangeRules
<1>2. RulesTypeOK'
  BY RuleCallTyped DEF IInv, TypeOK, ChangeRules
<1>3. CASE phase = "idle"
  <2>1. UNCHANGED <<standing, suspects>>
    BY <1>3 DEF ChangeRules
  <2>2. QED
    BY <1>1, <1>2, <1>3, <2>1 DEF IInv, TypeOK, CheckInv, BlockInv, StandingRuleApplies,
       DropHasCause, LabelsAgree
<1>4. CASE phase # "idle"
  <2> DEFINE hits == Hits(job.flow, conns[job.flow])'
  <2>1. /\ standing' = standing \cap hits
        /\ suspects' = suspects \cup (IF hits # {} THEN {job.flow} ELSE {})
    BY <1>4 DEF ChangeRules
  <2>2. /\ verdict = "none" /\ standing \subseteq ToLookUp(phase)
        /\ job.flow \in DOMAIN conns
    BY <1>4 DEF IInv, CheckInv, TypeOK
  <2> HIDE DEF hits
  <2>3. TypeOK'
    BY <1>1, <1>2, <2>1, <2>2 DEF IInv, TypeOK
  <2>4. CheckInv'
    BY <1>1, <1>4, <2>1, <2>2 DEF CheckInv, ToLookUp, hits
  <2>5. BlockInv' /\ LabelsAgree'
    BY <1>1, <2>1 DEF IInv, BlockInv, LabelsAgree
  <2>6. QED
    BY <1>1, <2>2, <2>3, <2>4, <2>5 DEF IInv, StandingRuleApplies, DropHasCause
<1>5. QED
  BY <1>3, <1>4

LEMMA StepIInv == IInv /\ [Next]_vars => IInv'
<1> SUFFICES ASSUME IInv, [Next]_vars PROVE IInv'
  OBVIOUS
<1>1. CASE FastPathStep
  BY <1>1, ReceiveBlockedStep, ReceiveStep, CheckHitsStep, CheckMissesStep, CleanupStep
     DEF FastPathStep
<1>2. CASE ChangeRules
  BY <1>2, ChangeRulesStep
<1>3. CASE UNCHANGED vars
  BY <1>3 DEF vars, ruleVars, IInv, TypeOK, RulesTypeOK, CheckInv, BlockInv,
     StandingRuleApplies, DropHasCause, LabelsAgree, Hits, Hit, IsIPBlocked, IsPortBlocked,
     IsAppBlocked, IsDomainBlocked
<1>4. QED
  BY <1>1, <1>2, <1>3 DEF Next

(* The inductive invariant holds in every reachable state.                 *)
THEOREM Invariance == Spec => []IInv
BY InitIInv, StepIInv, PTL DEF Spec

(* Types: no entry of the table is malformed or dangling, and the packet   *)
(* in hand always has its connection.                                      *)
THEOREM TypeCorrect == Spec => []TypeOK
BY Invariance, PTL DEF IInv

(* A rule that matches throughout a check is not overlooked, however the   *)
(* other rules change between its four lookups.                            *)
THEOREM StandingRule == Spec => []StandingRuleApplies
BY Invariance, PTL DEF IInv

(* No packet is dropped without a rule that matched its connection.        *)
THEOREM DropCause == Spec => []DropHasCause
BY Invariance, PTL DEF IInv

(* Application and name of a connection are of one packet.                 *)
THEOREM Labels == Spec => []LabelsAgree
BY Invariance, PTL DEF IInv

(* Only the packet that ends the TCP connection lifts a block.             *)
THEOREM OnlyCloseLifts == Spec => BlockedUntilClosed
<1> DEFINE Lifted ==
        \A t \in (DOMAIN conns) \cap (DOMAIN conns') :
           conns[t].state = "BLOCKED" /\ conns'[t].state # "BLOCKED" =>
               /\ t = job'.flow /\ t \in TCPFlows
               /\ \/ "RST" \in job'.flags
                  \/ conns'[t].finSeen /\ "ACK" \in job'.flags
<1>1. IInv /\ [Next]_vars => [Lifted]_vars
  <2> SUFFICES ASSUME IInv, Next,
                      NEW t \in (DOMAIN conns) \cap (DOMAIN conns'),
                      conns[t].state = "BLOCKED", conns'[t].state # "BLOCKED"
               PROVE  /\ t = job'.flow /\ t \in TCPFlows
                      /\ \/ "RST" \in job'.flags
                         \/ conns'[t].finSeen /\ "ACK" \in job'.flags
    OBVIOUS
  <2>1. ASSUME NEW p \in Jobs, ReceiveBlocked(p) PROVE FALSE
    BY <2>1 DEF ReceiveBlocked, Stored
  <2>2. ASSUME NEW p \in Jobs, NEW payload \in Payloads, Receive(p, payload)
        PROVE  /\ t = job'.flow /\ t \in TCPFlows
               /\ \/ "RST" \in job'.flags
                  \/ conns'[t].finSeen /\ "ACK" \in job'.flags
    <3>0. PICK c : c = IF AfterFlags(p).state # "CLASSIFIED" /\ payload.kind # "empty"
                       THEN Inspected(AfterFlags(p), p.flow, payload) ELSE AfterFlags(p)
      OBVIOUS
    <3>1. c.finSeen = AfterFlags(p).finSeen
      BY <2>2, <3>0, ReceivedTyped DEF IInv, Receive
    <3>2. job' = p /\ AfterFlags(p).state # "BLOCKED" /\ conns' = Stored(p, c)
      BY <2>2, <3>0 DEF Receive
    <3>3. t = p.flow /\ conns'[t] = c
      BY <3>2 DEF Stored
    <3>4. Found(p.flow).state = "BLOCKED"
      BY <3>3 DEF Found
    <3>5. QED
      BY <3>1, <3>2, <3>3, <3>4, AfterFlagsTyped DEF IInv
  <2>3. CheckHits => FALSE
    BY DEF CheckHits, IInv, TypeOK, Kinds, Connections
  <2>4. CheckMisses => FALSE
    BY DEF CheckMisses
  <2>5. ASSUME NEW stale \in SUBSET Flows, Cleanup(stale) PROVE FALSE
    BY <2>5 DEF Cleanup
  <2>6. ChangeRules => FALSE
    BY DEF ChangeRules
  <2>7. QED
    BY <2>1, <2>2, <2>3, <2>4, <2>5, <2>6 DEF Next, FastPathStep
<1>2. QED
  BY <1>1, Invariance, PTL DEF Spec, BlockedUntilClosed

(* "If connection is already blocked, drop immediately" is not what        *)
(* processPacket does: it follows the flags first, and then looks at the   *)
(* block. A packet that ends its TCP connection is put to the rules        *)
(* whatever was decided before; the block alone never drops it.            *)
EndIsChecked ==
    [][  (/\ job' # job /\ job'.flow \in TCPFlows
          /\ "RST" \in job'.flags \/ (conns'[job'.flow].finSeen /\ "ACK" \in job'.flags))
       => /\ phase' = "IP" /\ verdict' = "none"
          /\ conns'[job'.flow].state \in {"CLOSED", "CLASSIFIED"}]_vars

THEOREM BlockLifted == Spec => EndIsChecked
<1> DEFINE Ends(p) == /\ p.flow \in TCPFlows
                      /\ "RST" \in p.flags \/ (conns'[p.flow].finSeen /\ "ACK" \in p.flags)
           Checked == /\ phase' = "IP" /\ verdict' = "none"
                      /\ conns'[job'.flow].state \in {"CLOSED", "CLASSIFIED"}
<1>1. ASSUME IInv, NEW p \in Jobs, p.flow \in TCPFlows,
             "RST" \in p.flags \/ (AfterFlags(p).finSeen /\ "ACK" \in p.flags)
      PROVE  AfterFlags(p).state = "CLOSED"
  <2>1. Found(p.flow) \in Connections /\ AfterFlags(p) = TCPUpdate(Found(p.flow), p.flags)
    BY <1>1, AfterFlagsTyped DEF IInv, AfterFlags
  <2>2. AfterFlags(p).finSeen = (Found(p.flow).finSeen \/ "FIN" \in p.flags)
    BY <2>1, UpdateTyped
  <2>3. Closes(Found(p.flow), p.flags)
    BY <1>1, <2>2 DEF Closes
  <2>4. QED
    BY <2>1, <2>3, EndCloses
<1>2. ASSUME IInv, NEW p \in Jobs, ReceiveBlocked(p), Ends(p) PROVE FALSE
  <2>1. conns'[p.flow] = AfterFlags(p) /\ AfterFlags(p).state = "BLOCKED"
    BY <1>2 DEF ReceiveBlocked, Stored
  <2>2. QED
    BY <1>1, <1>2, <2>1
<1>3. ASSUME IInv, NEW p \in Jobs, NEW payload \in Payloads, Receive(p, payload), Ends(p)
      PROVE  Checked
  <2>1. PICK c : c = IF AfterFlags(p).state # "CLASSIFIED" /\ payload.kind # "empty"
                     THEN Inspected(AfterFlags(p), p.flow, payload) ELSE AfterFlags(p)
    OBVIOUS
  <2>2. /\ AfterFlags(p).state # "BLOCKED" /\ conns' = Stored(p, c) /\ job' = p
        /\ phase' = "IP" /\ verdict' = "none"
    BY <1>3, <2>1 DEF Receive
  <2>3. conns'[p.flow] = c /\ c.finSeen = AfterFlags(p).finSeen
    <3>1. conns'[p.flow] = c
      BY <2>2 DEF Stored
    <3>2. c.finSeen = AfterFlags(p).finSeen
      BY <1>3, <2>1, <2>2, ReceivedTyped DEF IInv
    <3>3. QED
      BY <3>1, <3>2
  <2>4. AfterFlags(p).state = "CLOSED" /\ AfterFlags(p) \in Connections
    BY <1>1, <1>3, <2>3, AfterFlagsTyped DEF IInv
  <2>5. c.state \in {"CLOSED", "CLASSIFIED"}
    <3>1. ASSUME NEW app, NEW sni
          PROVE  Classified(AfterFlags(p), app, sni).state = "CLASSIFIED"
      BY <2>4 DEF Classified, Connections
    <3>2. c = AfterFlags(p) \/ \E app, sni : c = Classified(AfterFlags(p), app, sni)
      BY <2>1 DEF Inspected
    <3>3. QED
      BY <2>4, <3>1, <3>2
  <2>6. QED
    BY <2>2, <2>3, <2>5
<1>4. IInv /\ [Next]_vars => [job' # job /\ Ends(job') => Checked]_vars
  <2> SUFFICES ASSUME IInv, Next, job' # job, Ends(job') PROVE Checked
    OBVIOUS
  <2>1. \/ \E p \in Jobs : ReceiveBlocked(p) /\ job' = p
        \/ \E p \in Jobs, payload \in Payloads : Receive(p, payload) /\ job' = p
    BY DEF Next, FastPathStep, ReceiveBlocked, Receive, CheckHits, CheckMisses, Cleanup, ChangeRules
  <2>2. ASSUME NEW p \in Jobs, ReceiveBlocked(p), job' = p PROVE Checked
    <3>1. Ends(p)
      BY <2>2
    <3>2. QED
      BY <1>2, <2>2, <3>1
  <2>3. ASSUME NEW p \in Jobs, NEW payload \in Payloads, Receive(p, payload), job' = p
        PROVE  Checked
    <3>1. Ends(p)
      BY <2>3
    <3> HIDE DEF Ends, Checked
    <3>2. QED
      BY <1>3, <2>3, <3>1
  <2> HIDE DEF Ends, Checked
  <2>4. QED
    BY <2>1, <2>2, <2>3
<1>5. QED
  BY <1>4, Invariance, PTL DEF Spec, EndIsChecked
----------------------------------------------------------------------------
(* THE CONNECTION TABLE. last_seen orders it, the connection of the last   *)
(* packet is the latest, and it is within its limit.                       *)
Ordered ==
    /\ \A t \in DOMAIN conns : <<t, t>> \notin older
    /\ \A t, u, v \in DOMAIN conns :
          <<t, u>> \in older /\ <<u, v>> \in older => <<t, v>> \in older
    /\ \A t, u \in DOMAIN conns : t # u => <<t, u>> \in older \/ <<u, t>> \in older

LastIsLatest ==
    job.flow \in DOMAIN conns => \A u \in DOMAIN conns \ {job.flow} : <<u, job.flow>> \in older

Limited == IsFiniteSet(DOMAIN conns) /\ Cardinality(DOMAIN conns) <= MaxConnections

TableInv == Ordered /\ LastIsLatest /\ Limited

(* Of finitely many connections one was last seen before all the others.   *)
LEMMA OldestExists ==
    ASSUME Ordered, Limited, DOMAIN conns # {}
    PROVE  \E t \in DOMAIN conns : \A u \in DOMAIN conns \ {t} : <<t, u>> \in older
<1> DEFINE S == DOMAIN conns
           Has(T) == \E t \in T : \A u \in T \ {t} : <<t, u>> \in older
           Good == {T \in SUBSET S : T # {} => Has(T)}
<1>1. {} \in Good
  OBVIOUS
<1>2. ASSUME NEW T \in SUBSET S, NEW x \in S \ T, T \in Good
      PROVE  T \cup {x} \in Good
  <2>1. CASE T = {}
    BY <2>1
  <2>2. CASE T # {}
    <3>1. PICK t \in T : \A u \in T \ {t} : <<t, u>> \in older
      BY <1>2, <2>2
    <3>2. t # x /\ t \in S /\ x \in S
      BY <1>2, <3>1
    <3>3. CASE <<t, x>> \in older
      <4>1. \A u \in (T \cup {x}) \ {t} : <<t, u>> \in older
        BY <3>1, <3>3
      <4>2. QED
        BY <3>1, <4>1
    <3>4. CASE <<x, t>> \in older
      <4>1. ASSUME NEW u \in (T \cup {x}) \ {x}
            PROVE  <<x, u>> \in older
        <5>1. CASE u = t
          BY <3>4, <5>1
        <5>2. CASE u # t
          <6>1. <<t, u>> \in older /\ u \in S
            BY <3>1, <4>1, <5>2
          <6>2. QED
            BY <3>2, <3>4, <6>1 DEF Ordered
        <5>3. QED
          BY <5>1, <5>2
      <4>2. QED
        BY <3>2, <4>1
    <3>5. QED
      BY <3>2, <3>3, <3>4 DEF Ordered
  <2>3. QED
    BY <2>1, <2>2
<1>3. S \in Good
  <2>1. IsFiniteSet(S)
    BY DEF Limited
  <2> HIDE DEF Good, S
  <2>2. QED
    BY <1>1, <1>2, <2>1, SetInduction
<1>4. QED
  BY <1>3

(* Looking a connection up keeps the table within its limit; only if it    *)
(* holds one connection can the connection of the last packet be evicted.  *)
LEMMA Lookup ==
    ASSUME TypeOK, TableInv, NEW t
    PROVE  /\ KeptFor(t) \subseteq DOMAIN conns
           /\ IsFiniteSet(KeptFor(t) \cup {t})
           /\ Cardinality(KeptFor(t) \cup {t}) <= MaxConnections
           /\ MaxConnections >= 2 /\ job.flow \in DOMAIN conns => job.flow \in KeptFor(t)
<1> DEFINE S == DOMAIN conns
           K == KeptFor(t)
<1>1. /\ IsFiniteSet(S) /\ Cardinality(S) \in Nat /\ MaxConnections \in Nat \ {0}
      /\ Cardinality(S) <= MaxConnections
  BY FS_CardinalityType, FastPathAssumption DEF TableInv, Limited
<1>2. K \subseteq S /\ IsFiniteSet(K) /\ Cardinality(K) \in Nat /\ Cardinality(K) <= Cardinality(S)
  <2>1. K \subseteq S
    BY DEF KeptFor, Oldest
  <2>2. QED
    BY <1>1, <2>1, FS_Subset, FS_CardinalityType
<1>3. /\ IsFiniteSet(K \cup {t})
      /\ Cardinality(K \cup {t}) = IF t \in K THEN Cardinality(K) ELSE Cardinality(K) + 1
  BY <1>2, FS_AddElement
<1>4. CASE t \in S
  <2>1. K = S
    BY <1>4 DEF KeptFor
  <2>2. QED
    BY <1>1, <1>3, <1>4, <2>1
<1>5. CASE t \notin S /\ Cardinality(S) < MaxConnections
  <2>1. K = S
    BY <1>5 DEF KeptFor
  <2>2. QED
    BY <1>1, <1>3, <1>5, <2>1
<1>6. CASE t \notin S /\ ~ Cardinality(S) < MaxConnections
  <2>1. K = S \ Oldest
    BY <1>6 DEF KeptFor
  <2>2. Cardinality(S) = MaxConnections /\ S # {}
    BY <1>1, <1>6, FS_EmptySet
  <2>3. PICK o \in S : \A u \in S \ {o} : <<o, u>> \in older
    BY <2>2, OldestExists DEF TableInv
  <2>4. o \in Oldest
    BY <2>3 DEF Oldest
  <2>5. Cardinality(K) < Cardinality(S)
    <3>1. K \subseteq S \ {o}
      BY <2>1, <2>4
    <3>2. IsFiniteSet(S \ {o}) /\ Cardinality(S \ {o}) = Cardinality(S) - 1
      BY <1>1, <2>3, FS_RemoveElement
    <3>3. Cardinality(K) <= Cardinality(S \ {o})
      BY <3>1, <3>2, FS_Subset
    <3>4. QED
      BY <1>1, <1>2, <3>2, <3>3
  <2>6. Cardinality(K \cup {t}) <= MaxConnections
    BY <1>1, <1>2, <1>3, <2>2, <2>5
  <2>7. ASSUME MaxConnections >= 2, job.flow \in S
        PROVE  job.flow \in K
    <3>1. PICK u \in S : u # job.flow
      <4>1. S # {job.flow}
        BY <1>1, <2>2, <2>7, FS_Singleton
      <4>2. QED
        BY <2>2, <4>1
    <3>2. <<u, job.flow>> \in older
      BY <2>7, <3>1 DEF TableInv, LastIsLatest
    <3>3. <<job.flow, u>> \notin older
      BY <2>7, <3>1, <3>2 DEF TableInv, Ordered
    <3>4. job.flow \notin Oldest
      BY <3>1, <3>3 DEF Oldest
    <3>5. QED
      BY <2>1, <2>7, <3>4
  <2>8. QED
    BY <1>2, <1>3, <2>6, <2>7
<1>7. QED
  BY <1>4, <1>5, <1>6

(* The packet's connection becomes the latest.                             *)
LEMMA LookupKeeps ==
    ASSUME TypeOK, TableInv, NEW t, DOMAIN conns' = KeptFor(t) \cup {t}, older' = Seen(t),
           job'.flow = t
    PROVE  TableInv'
<1> DEFINE K == KeptFor(t)
<1>1. K \subseteq DOMAIN conns /\ IsFiniteSet(K \cup {t}) /\ Cardinality(K \cup {t}) <= MaxConnections
  BY Lookup
<1>2. \A u, v : <<u, v>> \in older' <=> \/ <<u, v>> \in older /\ u \in K \ {t} /\ v \in K \ {t}
                                        \/ v = t /\ u \in K \ {t}
  <2>1. \A pair \in older : pair = <<pair[1], pair[2]>>
    BY DEF TypeOK
  <2>2. QED
    BY <2>1 DEF Seen
<1>3. DOMAIN conns' = K \cup {t}
  OBVIOUS
<1> HIDE DEF K
<1>4. Ordered'
  BY <1>1, <1>2, <1>3 DEF TableInv, Ordered
<1>5. LastIsLatest'
  BY <1>2, <1>3 DEF LastIsLatest
<1>6. Limited'
  BY <1>1, <1>3 DEF Limited
<1>7. QED
  BY <1>4, <1>5, <1>6 DEF TableInv

LEMMA TableStep == TypeOK /\ TableInv /\ [Next]_vars => TableInv'
<1> SUFFICES ASSUME TypeOK, TableInv, [Next]_vars PROVE TableInv'
  OBVIOUS
<1>1. ASSUME UNCHANGED <<DOMAIN conns, older, job>>
      PROVE  TableInv'
  BY <1>1 DEF TableInv, Ordered, LastIsLatest, Limited
<1>2. ASSUME NEW p \in Jobs, ReceiveBlocked(p) PROVE TableInv'
  <2>1. DOMAIN conns' = KeptFor(p.flow) \cup {p.flow} /\ older' = Seen(p.flow) /\ job'.flow = p.flow
    BY <1>2 DEF ReceiveBlocked, Stored
  <2>2. QED
    BY <2>1, LookupKeeps
<1>3. ASSUME NEW p \in Jobs, NEW payload \in Payloads, Receive(p, payload) PROVE TableInv'
  <2>1. DOMAIN conns' = KeptFor(p.flow) \cup {p.flow} /\ older' = Seen(p.flow) /\ job'.flow = p.flow
    BY <1>3 DEF Receive, Stored
  <2>2. QED
    BY <2>1, LookupKeeps
<1>4. CASE CheckHits
  BY <1>1, <1>4 DEF CheckHits
<1>5. CASE CheckMisses
  BY <1>1, <1>5 DEF CheckMisses, trackVars
<1>6. ASSUME NEW stale \in SUBSET Flows, Cleanup(stale) PROVE TableInv'
  <2> DEFINE gone == stale \cup {t \in DOMAIN conns : conns[t].state = "CLOSED"}
  <2>1. /\ DOMAIN conns' = DOMAIN conns \ gone /\ job' = job
        /\ older' = {pair \in older : {pair[1], pair[2]} \cap gone = {}}
    BY <1>6 DEF Cleanup
  <2> HIDE DEF gone
  <2>2. \A u, v \in DOMAIN conns' : <<u, v>> \in older' <=> <<u, v>> \in older
    BY <2>1
  <2>3. DOMAIN conns' \subseteq DOMAIN conns
    BY <2>1
  <2>4. Ordered' /\ LastIsLatest'
    BY <2>1, <2>2, <2>3 DEF TableInv, Ordered, LastIsLatest
  <2>5. Limited'
    <3>1. /\ IsFiniteSet(DOMAIN conns') /\ Cardinality(DOMAIN conns') \in Nat
          /\ Cardinality(DOMAIN conns') <= Cardinality(DOMAIN conns)
          /\ Cardinality(DOMAIN conns) \in Nat
      BY <2>3, FS_Subset, FS_CardinalityType DEF TableInv, Limited
    <3>2. QED
      BY <3>1, FastPathAssumption DEF TableInv, Limited
  <2>6. QED
    BY <2>4, <2>5 DEF TableInv
<1>7. CASE ChangeRules
  BY <1>1, <1>7 DEF ChangeRules, trackVars
<1>8. CASE UNCHANGED vars
  BY <1>1, <1>8 DEF vars, trackVars
<1>9. QED
  BY <1>2, <1>3, <1>4, <1>5, <1>6, <1>7, <1>8 DEF Next, FastPathStep

THEOREM TableInvariant == Spec => []TableInv
<1>1. Init => TableInv
  <2> SUFFICES ASSUME Init PROVE TableInv
    OBVIOUS
  <2>1. DOMAIN conns = {}
    BY DEF Init
  <2>2. Limited
    BY <2>1, FS_EmptySet, FastPathAssumption DEF Limited
  <2>3. QED
    BY <2>1, <2>2 DEF TableInv, Ordered, LastIsLatest
<1>2. QED
  BY <1>1, TableStep, TypeCorrect, PTL DEF Spec

(* The table never outgrows its limit; what makes room is never the        *)
(* connection of the last packet, unless it is the only one, and a cleanup *)
(* takes this connection only if it is CLOSED or all the others go too.    *)
THEOREM RecentConnectionStays == Spec => RecentStays
<1> DEFINE Stays == /\ Cardinality(DOMAIN conns') <= MaxConnections
                    /\ job.flow \in (DOMAIN conns) \ (DOMAIN conns') =>
                          IF job' # job THEN MaxConnections = 1
                          ELSE conns[job.flow].state = "CLOSED" \/ DOMAIN conns' = {}
<1>1. TypeOK /\ TableInv /\ TableInv' /\ [Next]_vars => [Stays]_vars
  <2> SUFFICES ASSUME TypeOK, TableInv, TableInv', Next,
                      job.flow \in (DOMAIN conns) \ (DOMAIN conns')
               PROVE  IF job' # job THEN MaxConnections = 1
                      ELSE conns[job.flow].state = "CLOSED" \/ DOMAIN conns' = {}
    BY DEF TableInv, Limited
  <2>1. ASSUME NEW p \in Jobs, job' = p, DOMAIN conns' = KeptFor(p.flow) \cup {p.flow}
        PROVE  job' # job /\ MaxConnections = 1
    <3>1. job.flow # p.flow /\ job.flow \notin KeptFor(p.flow)
      BY <2>1
    <3>2. ~ MaxConnections >= 2
      BY <3>1, Lookup
    <3>3. QED
      BY <2>1, <3>1, <3>2, FastPathAssumption
  <2>2. ASSUME NEW stale \in SUBSET Flows, Cleanup(stale), conns[job.flow].state # "CLOSED"
        PROVE  job' = job /\ DOMAIN conns' = {}
    <3>1. /\ job' = job /\ stale \subseteq DOMAIN conns /\ job.flow \in stale
          /\ \A t \in stale, u \in DOMAIN conns \ stale : <<t, u>> \in older
          /\ DOMAIN conns' \subseteq DOMAIN conns \ stale
      BY <2>2 DEF Cleanup
    <3>2. ASSUME NEW u \in DOMAIN conns \ stale PROVE FALSE
      <4>1. <<job.flow, u>> \in older /\ <<u, job.flow>> \in older
        BY <3>1, <3>2 DEF TableInv, LastIsLatest
      <4>2. QED
        BY <3>1, <4>1 DEF TableInv, Ordered
    <3>3. QED
      BY <3>1, <3>2
  <2>3. ASSUME NEW stale \in SUBSET Flows, Cleanup(stale) PROVE job' = job
    BY <2>3 DEF Cleanup
  <2>4. CASE \E stale \in SUBSET Flows : Cleanup(stale)
    BY <2>2, <2>3, <2>4
  <2>5. CASE \/ \E p \in Jobs : ReceiveBlocked(p)
             \/ \E p \in Jobs, payload \in Payloads : Receive(p, payload)
    BY <2>1, <2>5 DEF ReceiveBlocked, Receive, Stored
  <2>6. ASSUME CheckHits \/ CheckMisses \/ ChangeRules PROVE FALSE
    BY <2>6 DEF CheckHits, CheckMisses, ChangeRules
  <2>7. QED
    BY <2>4, <2>5, <2>6 DEF Next, FastPathStep
<1>2. QED
  BY <1>1, TypeCorrect, TableInvariant, PTL DEF RecentStays, Spec
============================================================================
