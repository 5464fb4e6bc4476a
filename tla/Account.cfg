SPECIFICATION AllSpec
CONSTANTS
    j1 = j1  j2 = j2  u1 = u1  u2 = u2  r1 = r1  r2 = r2
    Jobs = {j1}
    Users = {u1, u2}
    Owner <- MCOwner
    Reqs = {r1, r2}
    Cleaners = {1, 2}
    Retention = 1
    RowRetention = 2
    MaxTime = 3
    MaxFaults = 1
    name1 = name1  name2 = name2  password1 = password1  password2 = password2
    DisplayNames = {name1, name2}
    Passwords <- MCPasswords
    Nobody = Nobody
    MaxRequests = 2
    q1 = q1  q2 = q2  q3 = q3  alice = alice  home = home  anon = anon
    ToolCalls = {q1, q2, q3}
    Accounts = {alice}
    Addrs = {home}
    Anon = anon
    Caller <- MCCaller
    Addr <- MCAddr
    AnonLimit = 1
    FreeLimit = 2
    MaxDay = 1
    MaxResets = 1
    MaxQuotaFaults = 1
SYMMETRY AccountSymmetry
INVARIANTS OrphansNeedAFault AvailableIsBacked FailedDownloadIsExplained AckedDeleteIsFinal AccountInv
INVARIANTS AtMostLimitAdmitted NobodyIsRefusedEarly CounterIsExact HistoryIsPaidFor
PROPERTIES RemovalIsJustified ImplementsBook
\* A tool request is made once, and the days and the resets are bounded.
CHECK_DEADLOCK FALSE
