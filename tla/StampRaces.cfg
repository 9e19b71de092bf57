\* Two goroutines of one instance, one device that changes its stamp.
SPECIFICATION FairSpec
CONSTANTS
    i1 = i1  d1 = d1  s1 = s1  s2 = s2  t1 = t1  t2 = t2
    Instance = {i1}
    Device = {d1}
    Stamp = {s1, s2}
    Thread = {t1, t2}
    Home <- OneInstanceHome
    Located = {s1}
    HasAltitude = {s1}
    HasMotion = {s1}
    SaysTest = {s1}
    InTest = {}
    None = None  Own = Own  Now = Now  Unreadable = Unreadable
INVARIANTS OneEntryPerDevice StampedLocation SteadyStampUsed
PROPERTY EveryMessageHandled
