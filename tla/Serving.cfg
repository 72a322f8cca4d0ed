SPECIFICATION FairServing
CONSTANTS
    Requests = {r1, r2}
    Method = {"stream_query", "get_session"}
    StreamOps = {"stream_query"}
    SyncOps = {"get_session"}
    Sessions = {s1}
INVARIANTS
    AdapterInv
    AllOrNothing
    ServingInv
    TasksHaveSessions
PROPERTIES
    ImplementsSharedStore
    RequestsAnswered
