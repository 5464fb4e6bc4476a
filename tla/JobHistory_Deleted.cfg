SPECIFICATION JobSpec
CONSTANTS
    j1 = j1  j2 = j2  u1 = u1  u2 = u2  r1 = r1  r2 = r2
    Jobs = {j1}
    Users = {u1}
    Owner <- MCOwner
    Reqs = {r1}
    Cleaners = {1}
    Retention = 1
    RowRetention = 1
    MaxTime = 2
    MaxFaults = 1
INVARIANT DeletedMeansGone
