SPECIFICATION Spec
CONSTANTS
    w1 = w1  w2 = w2
    t1 = t1  t2 = t2
    Worker = {w1, w2}
    Thread = {t1, t2}
    ProcOf <- MCProcOf
    Pages = 2
    Cred = {c1, c2}
    Good = {c2}
    Budget = 3
    Rate = 2
    Perm = 5
    DayLength = 7
    MaxTime = 8
    MaxCrashes = 1
SYMMETRY MCSymmetry
CONSTRAINT MCRotation
INVARIANTS TypeOK ProbedOnce OneStraggler
PROPERTIES CooldownsPreserved ProviderBookSpec
