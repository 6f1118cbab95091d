SPECIFICATION FairSpec
CONSTANTS
    AclIds = {a1}
    Addresses = {ip1}
    Entries <- MCEntries
    Workers = {w1, w2}
    Enabled = {"cloudflare", "abuseipdb_report"}
    Tries = 2
    Batch = 1
    MaxRules = 2
    MaxUnbans = 1
    MaxFaults = 1
INVARIANTS
    TypeOK
    MarkerTracksEdge
    OneReportPerBlock
PROPERTIES
    RuleOutlivesBlock
    ExpiredRuleGoes
CHECK_DEADLOCK FALSE
