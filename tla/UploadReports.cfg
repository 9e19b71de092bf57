\* Three uploads in a ring of two slots, and either errors, reported at any
\* time, or delays.
SPECIFICATION Spec
CONSTANTS
    u1 = u1  u2 = u2  u3 = u3  Nobody = Nobody
    Upload = {u1, u2, u3}
    Recorded = 2
    Patience = 1
    Troubles <- EitherTrouble
INVARIANTS ErrorsAreNotForgotten
PROPERTIES SlowAlarmIsTrue ReportIsTrue
SYMMETRY Symmetry
CHECK_DEADLOCK FALSE
