\* Two samples in four days around a change of the clock.
CONSTANTS
    Instants <- InstantsDef
    Offset <- OffsetDef
    Volumes = {1, 2}
    MaxSamples = 2
SPECIFICATION Spec
PROPERTY CurveComplete
CHECK_DEADLOCK FALSE
