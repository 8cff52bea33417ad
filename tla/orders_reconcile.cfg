SPECIFICATION SpecFair
CONSTANTS
    Id = {a}
    Intent = {x, y}
    Submitter = {s1, s2}
    Reconciler = {r1}
    Quantity = 2
    MaxCrashes = 1
INVARIANTS TypeOK SubmittedOnce SentAsJournalled ClosedIsTrue
PROPERTIES FillsFollowBroker PassMeansConfirmed OverGetsClosed LifeSpec
