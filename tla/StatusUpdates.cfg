\* Two updates that overlap or do not, and everything fails that can.
SPECIFICATION FairSpec
CONSTANTS
    w1 = w1  w2 = w2  g1 = g1  g2 = g2  a1 = a1
    Writer = {w1, w2}
    Message <- GatewayMessage
    Value <- GatewayStatus
    Merge <- GatewayMerge
    Empty <- EmptyGateway
    MaxReads = 2
    GivesUp = {TRUE, FALSE}
    ReadsFail = TRUE  WritesFail = TRUE  OpensFail = TRUE  MayCrash = TRUE
    None = None  Missing = Missing  Truncated = Truncated  Garbled = Garbled
    Channel = {}  MaxReading = 0  MaxError = 0  Place = {}  HistoryLength = 1
    Nowhere = Nowhere  Zero = Zero  Unknown = Unknown
    Ttg = {g1, g2}  Address = {a1}
INVARIANT CorruptionAttended
PROPERTIES MergesOneByOne EveryUpdateEnds
