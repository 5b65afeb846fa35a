\* Three requests, which may share ids, against limits of two and one, clocks one tick apart, one lost call or reply.
SPECIFICATION Spec
CONSTANTS
    Request = {r1, r2, r3}
    Id = {d1, d2, d3}
    Tiers <- MCTiers
    Second = 1
    Skew = 1
    MaxLag = 0
    MaxClock = 3
    MaxFaults = 1
SYMMETRY MCSymmetry
INVARIANTS TypeOK LimitHolds
PROPERTIES RetryAfterIsHonest
