SPECIFICATION ProgressSpec
CONSTANTS
    Grids <- MCGrids
    TabIndices = {0, 1}
    Texts <- MCTexts
    Trimmed <- MCTrimmed
    LowerCase <- MCLowerCase
    Within <- MCWithin
    Rank <- MCRank
    Inks = {10, 700}
    Shifts <- MCShifts
    Pointers = {1, 2}
    MaxEvents = 4
    w1 = w1
    w2 = w2
    None = None
    Workbooks <- MCWorkbooks
    Sheets = {0, 1}
    Pages <- MCPages
    GuardLimit = 2
    MaxCalls = 2
    Files = {"f", "g"}
    NoFile = "nofile"
    Book <- MCBook
    Kinds <- MCKinds
    Collation <- MCCollation
    MaxSent = 3
    Views = {"history", "users", "activity"}
    Searches = {"", "m"}
    Plan <- MCPlan
    AtFirst = 3
    PageSize = 2
    MaxAsked = 3
    MaxRemoved = 1
    Tabs = {"overview", "users", "activity"}
    NoTab = "notab"
    Periods = {7, 30}
    MaxFetches = 4
    Checks = {c1, c2}
    Kids = {k1}
    NoKid = NoKid
    KeyTTL = 2
    FetchTime = 1
    MaxKeyTime = 4
    j1 = j1  j2 = j2  u1 = u1  u2 = u2  r1 = r1  r2 = r2
    Jobs = {j1, j2}
    Users = {u1}
    Owner <- MCOwner
    Reqs = {r1}
    Cleaners = {1}
    Retention = 1
    RowRetention = 1
    MaxTime = 2
    MaxFaults = 2
\* The bounds on calls, events, lists and time end every behaviour of the pages.
CHECK_DEADLOCK FALSE
INVARIANTS ViewerInv TableViewInv ChoicesInv PageFollowsFile ScreenInv DashInv EverySpinnerIsBacked StoresAgree
PROPERTIES DeletedStaysOff KeysKept LoadAllEnds ChecksEnd ImplementsLifecycle ExpiredIsErased
