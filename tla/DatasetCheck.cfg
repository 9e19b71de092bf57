\* Measurements on their way together, of a device that reboots and fails.
SPECIFICATION DatasetSpec
CONSTANTS
    Absent = Absent
    Gap = {30, 359, 360}
    Report <- Dust
    Normal <- DustNormal
    Threshold = {0, 5}
    Window = 2
    MaxMeasurements = 3
    MaxBoots = 2
INVARIANTS DatasetTypeOK GapsExact RangesExact ErrorsAccounted BootsNeverInvented
CHECK_DEADLOCK FALSE
