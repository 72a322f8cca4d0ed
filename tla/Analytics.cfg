SPECIFICATION FairSpec
CONSTANTS
    Calls = {c1}
    MaxRetries = 3
    Response <- RenderResponse
    Statement = {1, 2}
    Prose = {"answer", "other"}
    Chatter = {"chatter"}
    None = None
    Absent = Absent
    EmptySql = EmptySql
    NoFields = NoFields
CHECK_DEADLOCK FALSE
INVARIANTS
    AnalyticsInv
    OnlyProseShown
    SqlShownIsLastOfData
    TableMatchesSqlOfData
    EmptyHidesNothing
PROPERTIES
    ImplementsRetry
    EveryStepCounts
    CallsReturn
