\* Commands that overlap; calls of os.Stat fail and processes crash.
SPECIFICATION FairSpec
CONSTANTS
    monitor = monitor  i1 = i1  t1 = t1  t2 = t2  c1 = c1  c2 = c2
    Instance = {monitor, i1}
    Monitor = monitor
    Timer = {t1, t2}
    Command = {c1, c2}
    All = {c1}
    SlackOpsNone = None
    MaxMishaps = 2
INVARIANTS OnlyOnCommand RepliesToAskers
PROPERTIES CommandsObeyed Settles
CHECK_DEADLOCK FALSE
