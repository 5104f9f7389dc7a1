\* A refill of two thirds of a token per unit of time, bursts of two tokens.
CONSTANTS
    Targets = {t1, t2}
    Cost = 3
    Rate = 2
    Burst = 6
    GateCap = 1
    MaxNow = 6
    MaxGrants = 5
SPECIFICATION Spec
CHECK_DEADLOCK FALSE
SYMMETRY TargetSymmetry
INVARIANTS
    RateBounded
