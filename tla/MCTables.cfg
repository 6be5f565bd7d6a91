SPECIFICATION TablesSpec
CONSTANTS
    Ips = {i1, i2}
    Names = {u1, empty}
    AdminName = u1
    NoName = empty
    IpMax = 2
    IpWindow = 1
    IpBlock = 2
    UserMax = 2
    UserWindow = 2
    UserLock = 3
    BlacklistAt = 4
    MaxTime = 6
    s1 = s1
    s2 = s2
    s3 = s3
    default = default
    Searches = {s1, s2, s3}
    Ids = {default}
    IdOf <- MCIdOf
    Calls = {c1, c2}
    NoSearch = NoSearch
    AccountIds = {a1}
    Cookies = {k1, k2}
    NoRecord = NoRecord
    Accounts = {a1, a2}
    Items = {item}
    Priorities = {1, 2}
    NoOwner = NoOwner
    CardLimit = 2
    RuleLimit = 2
    SerialLimit = 3
    ItemIds = {item}
    Patterns = {p1, p2}
    NoItem = NoItem
    KeywordLimit = 2
    user = user
    user_at = user_at
    other = other
    third = third
    UserIds = {user, user_at, other, third}
    Instances = {n1, n2}
    NoInstance = NoInstance
    PureId <- MCPureId
    MaxConcurrent = 2
    MinSamples = 1
    MinWeight = 1500
    MaxWeight = 5500
    Smoothing = 4000
    MaxResults = 4
    SuccessLimit = 3
    FailureLimit = 2
    CheckWindow = 2
    MaxDrags = 6
    Torn = Torn
    Specs = {x1, x2}
    NoSpec = NoSpec
    BadSpec = BadSpec
    MaxAmount = 2
CHECK_DEADLOCK FALSE
INVARIANTS SlidingBounds NoAbandonedSession EntryAgrees RulesFitTheirCards SlotLimits NoStrategyStarves LearnsFromTheLatest
INVARIANTS SpecsAreSound
PROPERTIES BlocksHold LowerRanksAreHidden RestartCosts OwnEditsDecide
