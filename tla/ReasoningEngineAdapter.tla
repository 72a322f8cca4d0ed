---------------------- MODULE ReasoningEngineAdapter ----------------------
(***************************************************************************)
(* attach_reasoning_engine_routes: two HTTP routes over one AdkApp that    *)
(* the first request creates.  The handlers are coroutines of one event    *)
(* loop: a handler is interrupted at an await only, so get_runtime() and   *)
(* the choice of the method are one step, and requests interleave around   *)
(* it while they read their bodies and while their methods run.  AdkApp    *)
(* and its register_operations() are external.                             *)
(***************************************************************************)
EXTENDS FiniteSets

CONSTANTS
    Requests,    \* the requests, each sent once to a process
    Method,      \* the names a request may give as class_method
    StreamOps,   \* register_operations()["stream"] and ["async_stream"]
    SyncOps      \* register_operations()[""] and ["async"]

ASSUME AdapterAssumption == StreamOps \cup SyncOps \subseteq Method

VARIABLES
    runtime,             \* the AdkApp: none, assigned but not set up, or ready
    streaming_methods,   \* what the streaming route may dispatch
    sync_methods,        \* what the other route may dispatch
    pc,                  \* where each request stands
    route,               \* the route it was sent to
    method,              \* its class_method
    status               \* the status it was answered with

tables == <<runtime, streaming_methods, sync_methods>>
sent == <<route, method>>
vars == <<runtime, streaming_methods, sync_methods, pc, route, method, status>>

Route == {"stream", "sync"}

\* The methods a route may be asked for, and those it dispatches by now.
Registered(rt) == IF rt = "stream" THEN StreamOps ELSE SyncOps

Allowed(rt) == IF rt = "stream" THEN streaming_methods ELSE sync_methods

TypeOK ==
    /\ runtime \in {"none", "unset", "ready"}
    /\ streaming_methods \in SUBSET Method
    /\ sync_methods \in SUBSET Method
    /\ pc \in [Requests -> {"idle", "reading", "calling", "streaming", "done"}]
    /\ route \in [Requests -> Route]
    /\ method \in [Requests -> Method]
    /\ status \in [Requests -> {"none", "200", "404", "500"}]

\* A request's route and method are there from the start; they count once it
\* is sent.
Init ==
    /\ runtime = "none"
    /\ streaming_methods = {}
    /\ sync_methods = {}
    /\ pc = [r \in Requests |-> "idle"]
    /\ route \in [Requests -> Route]
    /\ method \in [Requests -> Method]
    /\ status = [r \in Requests |-> "none"]

-----------------------------------------------------------------------------
Answer(r, code) ==
    /\ pc' = [pc EXCEPT ![r] = "done"]
    /\ status' = [status EXCEPT ![r] = code]

\* The handler starts and awaits the body.
Arrive(r) ==
    /\ pc[r] = "idle"
    /\ pc' = [pc EXCEPT ![r] = "reading"]
    /\ UNCHANGED <<tables, sent, status>>

\* The body is no JSON object or has no class_method.
BodyFails(r) ==
    /\ pc[r] = "reading"
    /\ Answer(r, "500")
    /\ UNCHANGED <<tables, sent>>

\* Importing the agent or constructing the AdkApp raises: nothing was assigned.
ConstructFails(r) ==
    /\ pc[r] = "reading"
    /\ runtime = "none"
    /\ Answer(r, "500")
    /\ UNCHANGED <<tables, sent>>

\* Mutant of SetUpFails: the sets are filled before the set-up.
SetUpFailsLate(r) ==
    /\ pc[r] = "reading"
    /\ runtime = "none"
    /\ runtime' = "unset"
    /\ streaming_methods' = StreamOps
    /\ sync_methods' = SyncOps
    /\ Answer(r, "500")
    /\ UNCHANGED sent

\* set_up() or register_operations() raises: runtime is assigned already, and
\* the two sets are still empty.
SetUpFails(r) ==
    /\ pc[r] = "reading"
    /\ runtime = "none"
    /\ runtime' = "unset"
    /\ Answer(r, "500")
    /\ UNCHANGED <<streaming_methods, sync_methods, sent>>

\* Mutant of GetRuntime: the operations of one kind are forgotten.
GetRuntimeStreamsOnly ==
    IF runtime = "none"
    THEN runtime' = "ready" /\ streaming_methods' = StreamOps /\ UNCHANGED sync_methods
    ELSE UNCHANGED tables

\* get_runtime() returns: it has made the AdkApp, or there was one.
GetRuntime ==
    IF runtime = "none"
    THEN /\ runtime' = "ready"
         /\ streaming_methods' = StreamOps
         /\ sync_methods' = SyncOps
    ELSE UNCHANGED tables

Dispatch(r) ==
    /\ pc[r] = "reading"
    /\ GetRuntime
    /\ UNCHANGED <<sent, status>>
    /\ method[r] \in Allowed(route[r])'
    /\ pc' = [pc EXCEPT ![r] = "calling"]

Refuse(r) ==
    /\ pc[r] = "reading"
    /\ GetRuntime
    /\ UNCHANGED sent
    /\ method[r] \notin Allowed(route[r])'
    /\ Answer(r, "404")

\* Mutant of CallRaises: the request is tried again.
CallRaisesRetried(r) ==
    /\ pc[r] = "calling"
    /\ pc' = [pc EXCEPT ![r] = "reading"]
    /\ UNCHANGED <<tables, sent, status>>

\* The method raises, before anything of a response was sent.
CallRaises(r) ==
    /\ pc[r] = "calling"
    /\ Answer(r, "500")
    /\ UNCHANGED <<tables, sent>>

CallReturns(r) ==
    /\ pc[r] = "calling" /\ route[r] = "sync"
    /\ Answer(r, "200")
    /\ UNCHANGED <<tables, sent>>

\* The method gave an iterator: the response begins before its first event.
StreamOpens(r) ==
    /\ pc[r] = "calling" /\ route[r] = "stream"
    /\ pc' = [pc EXCEPT ![r] = "streaming"]
    /\ status' = [status EXCEPT ![r] = "200"]
    /\ UNCHANGED <<tables, sent>>

\* The iterator is exhausted, or raises with the status long sent.
StreamEnds(r) ==
    /\ pc[r] = "streaming"
    /\ pc' = [pc EXCEPT ![r] = "done"]
    /\ UNCHANGED <<tables, sent, status>>

Step(r) ==
    \/ BodyFails(r) \/ ConstructFails(r) \/ SetUpFails(r)
    \/ Dispatch(r) \/ Refuse(r)
    \/ CallRaises(r) \/ CallReturns(r) \/ StreamOpens(r) \/ StreamEnds(r)

Serve == \E r \in Requests : Arrive(r) \/ Step(r)

\* The process ends and another one takes its place: the runtime, the sets and
\* every response under way are gone, and a client may send its request again.
Restart ==
    /\ runtime' = "none"
    /\ streaming_methods' = {}
    /\ sync_methods' = {}
    /\ pc' = [r \in Requests |-> "idle"]
    /\ status' = [r \in Requests |-> "none"]
    /\ UNCHANGED sent

Next == Serve \/ Restart

Spec == Init /\ [][Next]_vars

\* The event loop resumes every handler whose await is over; bodies arrive,
\* methods return and their streams end.
FairSpec == Spec /\ \A r \in Requests : WF_vars(Step(r))

-----------------------------------------------------------------------------
\* A request whose method was called.
Called(r) == pc[r] \in {"calling", "streaming"} \/ status[r] = "200"

\* A request turned away although the engine registers its method.
TurnedAway(r) == status[r] = "404" /\ method[r] \in Registered(route[r])

\* Only an AdkApp that was set up completely is called, and only with a method
\* registered for the route: no request that comes while or after set-up fails
\* gets at a half-made runtime, or at a method that is merely an attribute of
\* it (getattr), or at a streaming method through the other route.
CallsOnlyRegistered ==
    \A r \in Requests : Called(r) =>
        runtime = "ready" /\ method[r] \in Registered(route[r])

\* A process serves every registered method or none: one request turned away
\* with 404 for a registered method means that no request, before or after it,
\* was ever served by this process (its set-up failed once and for all; only a
\* restart mends it).
AllOrNothing ==
    \A r, s \in Requests : ~(TurnedAway(r) /\ Called(s))

\* The inductive strengthening: the two sets are filled if and only if the
\* runtime is ready, and only a runtime without its set-up turns away.
AdapterInv ==
    /\ TypeOK
    /\ streaming_methods = (IF runtime = "ready" THEN StreamOps ELSE {})
    /\ sync_methods = (IF runtime = "ready" THEN SyncOps ELSE {})
    /\ CallsOnlyRegistered
    /\ \A r \in Requests : TurnedAway(r) => runtime = "unset"

\* Every request that arrives is answered to its end, or cut off together with
\* the process.
RequestsAnswered ==
    \A r \in Requests : pc[r] = "reading" ~> pc[r] \in {"done", "idle"}

\* reasoning_engine_adapter.py:17-22: the routes "guarantee support" of the
\* Console Playground for "the AdkApp register_operations() methods", and 404
\* says "Unsupported reasoning_engine method": a registered method is not
\* unsupported.
RegisteredMethodServed == \A r \in Requests : ~TurnedAway(r)
=============================================================================
