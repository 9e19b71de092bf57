\* Histories of three entries, which fill up and overflow.
SPECIFICATION DeviceSpec
CONSTANTS
    Report <- SparseMessage
    Channel = {c1, c2}
    MaxReading = 1
    MaxError = 1
    Place = {p1}
    HistoryLength = 3
    Nowhere = Nowhere  Zero = Zero  Unknown = Unknown
    Ttg = {}  Address = {}
INVARIANT HistoryFollowsValue
PROPERTIES HistoryShifts NothingForgotten
