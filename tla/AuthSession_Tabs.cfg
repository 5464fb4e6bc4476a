SPECIFICATION Spec
CONSTANTS
    t1 = t1  t2 = t2  a1 = a1  a2 = a2  p1 = p1  u1 = u1  u2 = u2  None = None
    Tabs = {t1, t2}
    Apis = {}
    Patches = {}
    Users = {u1, u2}
    MaxSessions = 2
    MaxGen = 2
    MaxFaults = 0
SYMMETRY MCSymmetry
CONSTRAINT MCUndisturbed
INVARIANT ShownIsActing
