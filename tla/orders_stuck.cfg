SPECIFICATION SpecDiligent
CONSTANTS
    Id = {a}
    Intent = {x}
    Submitter = {s1}
    Reconciler = {r1}
    Quantity = 2
    MaxCrashes = 1
PROPERTY RestartReconciles
