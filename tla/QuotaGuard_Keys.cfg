SPECIFICATION QuotaSpec
CONSTANTS
    q1 = q1  q2 = q2  q3 = q3  alice = alice  home = home  anon = anon
    ToolCalls = {q1, q2}
    Accounts = {alice}
    Addrs = {home}
    Anon = anon
    Caller <- MCCaller
    Addr <- MCAddr
    AnonLimit = 1
    FreeLimit = 1
    MaxDay = 1
    MaxResets = 1
    MaxQuotaFaults = 1
INVARIANT SignedInIsKeyedByAccount
CHECK_DEADLOCK FALSE
