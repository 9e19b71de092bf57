\* Payloads of two readings and of one in two instances; everything fails that can.
SPECIFICATION FairSpec
CONSTANTS
    i1 = i1  i2 = i2  p1 = p1  p2 = p2
    Payload = {p1, p2}
    Size <- TwoAndOne
    Home <- TwoInstances
    Existing = FALSE
    OpensFail = TRUE  WritesFail = TRUE  MayCrash = TRUE
    Missing = Missing
CHECK_DEADLOCK FALSE
INVARIANTS TypeOK ReadBack
 
