SPECIFICATION Spec
CONSTANTS
    Requests = {r1, r2}
    Method = {"stream_query", "get_session", "set_up"}
    StreamOps = {"stream_query"}
    SyncOps = {"get_session"}
CHECK_DEADLOCK FALSE
INVARIANTS
    RegisteredMethodServed
