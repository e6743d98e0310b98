\* Round trips from 1 ms to above MAX_RTO, interleaved with backoffs.
CONSTANTS
    MAX_RTO = 3000
    Samples = {1, 40, 250, 4000}
    MaxPongs = 6
    MaxBackoffs = 4
SPECIFICATION Spec
CONSTRAINT StateConstraint
INVARIANT SrttWithinSamples
