SPECIFICATION RemoteSpec
CONSTANTS
    s1 = s1
    s2 = s2
    s3 = s3
    default = default
    Searches = {s1,s2,s3}
    Ids = {default}
    IdOf <- MCIdOf
    Calls = {c1,c2}
    NoSearch = NoSearch
CHECK_DEADLOCK FALSE
INVARIANTS CompletedMeansSolved
