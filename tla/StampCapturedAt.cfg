\* The pointers into the cache are followed after the mutex is released.
SPECIFICATION Spec
CONSTANTS
    i1 = i1  d1 = d1  s1 = s1  s2 = s2  t1 = t1  t2 = t2
    Instance = {i1}
    Device = {d1}
    Stamp = {s1, s2}
    Thread = {t1, t2}
    Home <- OneInstanceHome
    Located = {s1}
    HasAltitude = {}
    HasMotion = {}
    SaysTest = {}
    InTest = {}
    None = None  Own = Own  Now = Now  Unreadable = Unreadable
INVARIANT CapturedAtNamedStamp
