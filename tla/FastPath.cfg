SPECIFICATION Spec
CONSTANTS
    web = web
    quic = quic
    dns = dns
    host = host
    site = site
    star = star
    NoDomain = NoDomain
    Flows = {web, quic, dns}
    TCPFlows = {web}
    IPs = {host}
    Ports <- RuledPorts
    Apps <- RuledApps
    AppTypes <- AllApps
    Domains = {site}
    Patterns = {star}
    Matches <- Names
    MaxPatterns = 1
    SrcIP <- Sources
    SrcPort <- Sports
    DstPort <- Dports
    FlagSets <- LiveFlags
    AppOf <- SiteApp
    MaxConnections = 2
    MaxRuleCalls = 2
INVARIANTS
    TypeOK
    StandingRuleApplies
    DropHasCause
    LabelsAgree
PROPERTIES
    RecentStays
    BlockedUntilClosed
CHECK_DEADLOCK FALSE
