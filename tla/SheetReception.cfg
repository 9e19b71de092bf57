\* Two clients; the sheet is edited once.
SPECIFICATION FairSpec
CONSTANTS
    c1 = c1  c2 = c2  d1 = d1  d2 = d2  other = other
    None = None  Nobody = Nobody
    Process = {c1, c2}
    Device = {d1, d2, other}
    Listed <- Rows
    MaxVersion = 1
    Requests <- Scripts
INVARIANTS NeverStale FilledIsComplete
PROPERTIES EveryConnectionEnds
CHECK_DEADLOCK FALSE
