SPECIFICATION Spec
CONSTANTS
    a1 = a1
    a2 = a2
    s1 = s1
    s2 = s2
    s3 = s3
    Accounts = {a1}
    Sessions = {s1, s2, s3}
    AccountOf <- SameAccount
    PureId <- OwnPureId
    MaxConcurrent = 2
    PoolSize = 2
    NoSession = NoSession
    NoRow = NoRow
    Typed = Typed
SYMMETRY Interchangeable
INVARIANTS CancelledNeverPersists SettledMeansStopped
PROPERTIES SettledStaysSettled
