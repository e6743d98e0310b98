\* Round trips of 0 ms, which a millisecond clock reports on a fast link.
CONSTANTS
    MAX_RTO = 3000
    Samples = {0}
    MaxPongs = 30
    MaxBackoffs = 1
SPECIFICATION Spec
CONSTRAINT StateConstraint
PROPERTY BackoffGrows
