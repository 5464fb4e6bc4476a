SPECIFICATION RearrangingSpec
CONSTANTS
    MaxTitle = 4
    AnonMax = 1
    FreeMax = 2
    MaxDetail = 3
    Letters <- MCLetters
    MinWidth = 4
    MaxWidth = 7
    PageWidth = 12
    MinCol = 3
    MaxCol = 9
    t1 = t1
    t2 = t2
    t3 = t3
    t4 = t4
    t5 = t5
    Tokens <- MCTokens
    Size <- MCSize
    MaxStore = 2
    MaxBytes = 3
    TTL = 1
    MaxTime = 4
    AuthCalls = {c1, c2}
    Mails = {m1, m2}
    NoRow = NoRow
    NoName = NoName
    NoMail = NoMail
    GivenName = GivenName
    ChosenName = ChosenName
    MaxEvents = 1
    MaxStarts = 2
    Limit <- MCLimit
    MaxMessages = 2
    MaxWidget = 2
    MaxReached = 2
    Hits <- MCHits
    Plan <- MCPlan
    Accounts = {"u"}
    Nobody = "nobody"
    DayLength = 2
    MaxInstant = 2
\* A request of a tool is answered and that is all.
CHECK_DEADLOCK FALSE
SYMMETRY MCSymmetry
INVARIANT BlanksSortLast
