SPECIFICATION Spec
CONSTANTS
    w1 = w1
    w2 = w2
    None = None
    Workbooks <- MCWorkbooks
    Sheets = {0, 1}
    Pages <- MCPages
    GuardLimit = 2
    MaxCalls = 2
INVARIANT OneSheetAtATime
