\* One measurement of each kind: no state is shared between two.
SPECIFICATION Spec
CONSTANTS
    Measurement <- Measurements
    Serial <- Serials
    InFlight = 1
    NoBody = NoBody
INVARIANTS NothingCirculates OneStory RelayedAsItCame UploadsAreLogged
CHECK_DEADLOCK FALSE
