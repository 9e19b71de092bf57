\* A counter that a handler increments and two timers write; the process crashes.
SPECIFICATION StatsSpec
CONSTANTS
    w1 = w1  w2 = w2  h1 = h1
    Writer = {w1, w2}
    Handler = {h1}
    OpensFail = TRUE  MayCrash = TRUE
    MaxEvents = 4
    Missing = Missing  Truncated = Truncated
SYMMETRY Interchangeable
INVARIANT RunningTotal
PROPERTY AdditiveToPrior
