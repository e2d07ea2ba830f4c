SPECIFICATION Spec
CONSTANTS
    k1 = k1
    k2 = k2
    Keys = {k1, k2}
    MaxExact = 8
    MaxUpserts = 2
INVARIANTS
    TypeOK
    RoundTrips
PROPERTY AllOrNothing
