SPECIFICATION Spec
CONSTANTS
    t1 = t1  t2 = t2  a1 = a1  a2 = a2  p1 = p1  u1 = u1  u2 = u2  None = None
    Tabs = {t1}
    Apis = {a1, a2}
    Patches = {}
    Users = {u1}
    MaxSessions = 1
    MaxGen = 2
    MaxFaults = 1
SYMMETRY MCSymmetry
INVARIANT SessionInv
PROPERTY NobodyIsSignedOutForNothing
