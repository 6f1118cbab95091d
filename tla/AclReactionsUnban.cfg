SPECIFICATION FairSpec
CONSTANTS
    AclIds = {a1}
    Addresses = {ip1}
    Entries <- MCEntries
    Workers = {w1}
    Enabled = {"cloudflare"}
    Tries = 2
    Batch = 1
    MaxRules = 1
    MaxUnbans = 1
    MaxFaults = 0
PROPERTY
    UnbanRemovesRule
CHECK_DEADLOCK FALSE
