------------------- MODULE ReasoningEngineAdapterProofs -------------------
(***************************************************************************)
(* Proofs about ReasoningEngineAdapter, for any number of requests and any *)
(* set of operations.  The invariant ties the two method sets to the state *)
(* of the runtime; a request that was turned away for a registered method  *)
(* then testifies to a failed set-up, one that was called to a complete    *)
(* one, and the two exclude each other.                                    *)
(***************************************************************************)
EXTENDS ReasoningEngineAdapter, TLAPS

\* The step of one request that leaves the runtime and its sets alone keeps
\* the invariant if it calls nothing new and turns nothing away.
LEMMA QuietStep ==
    ASSUME NEW r \in Requests, AdapterInv, TypeOK',
           UNCHANGED <<tables, sent>>,
           \A s \in Requests \ {r} : pc'[s] = pc[s] /\ status'[s] = status[s],
           Called(r)' => Called(r),
           TurnedAway(r)' => TurnedAway(r)
    PROVE  AdapterInv'
<1>1. \A s \in Requests : Called(s)' => Called(s)
  BY DEF Called
<1>2. \A s \in Requests : TurnedAway(s)' => TurnedAway(s)
  BY DEF TurnedAway, Registered, sent
<1>3. CallsOnlyRegistered'
  BY <1>1 DEF AdapterInv, CallsOnlyRegistered, Registered, tables, sent
<1> QED
  BY <1>2, <1>3 DEF AdapterInv, tables, sent

\* Every step keeps the invariant.
LEMMA AdapterStep == AdapterInv /\ [Next]_vars => AdapterInv'
<1> SUFFICES ASSUME AdapterInv, [Next]_vars PROVE AdapterInv'
  OBVIOUS
<1> USE AdapterAssumption
<1>1. CASE UNCHANGED vars
  BY <1>1 DEF AdapterInv, TypeOK, CallsOnlyRegistered, Called, TurnedAway,
              Registered, vars
<1>2. ASSUME NEW r \in Requests, Arrive(r) \/ Step(r) PROVE AdapterInv'
  <2>t. TypeOK
    BY DEF AdapterInv
  <2>1. CASE Arrive(r)
    <3>1. TypeOK'
      BY <2>1, <2>t DEF Arrive, TypeOK, tables, sent
    <3> QED
      BY <2>1, <2>t, <3>1, QuietStep
         DEF Arrive, TypeOK, Called, TurnedAway, Registered, sent
  <2>2. CASE BodyFails(r) \/ ConstructFails(r) \/ CallRaises(r)
    <3>1. TypeOK'
      BY <2>2, <2>t DEF BodyFails, ConstructFails, CallRaises, Answer, TypeOK, tables, sent
    <3> QED
      BY <2>2, <2>t, <3>1, QuietStep
         DEF BodyFails, ConstructFails, CallRaises, Answer, TypeOK, Called,
             TurnedAway, Registered, sent
  <2>3. CASE CallReturns(r) \/ StreamOpens(r) \/ StreamEnds(r)
    <3>1. TypeOK'
      BY <2>3, <2>t DEF CallReturns, StreamOpens, StreamEnds, Answer, TypeOK, tables, sent
    <3> QED
      BY <2>3, <2>t, <3>1, QuietStep
         DEF CallReturns, StreamOpens, StreamEnds, Answer, TypeOK, Called,
             TurnedAway, Registered, sent
  <2>4. CASE SetUpFails(r)
    <3>1. TypeOK'
      BY <2>4, <2>t DEF SetUpFails, Answer, TypeOK, sent
    <3>2. \A s \in Requests : ~Called(s)
      BY <2>4 DEF SetUpFails, AdapterInv, CallsOnlyRegistered
    <3>3. \A s \in Requests : ~Called(s)'
      BY <2>4, <3>2, <2>t DEF SetUpFails, Answer, Called, TypeOK
    <3> QED
      BY <2>4, <3>1, <3>3 DEF SetUpFails, AdapterInv, CallsOnlyRegistered
  <2>5. CASE Dispatch(r)
    <3>1. TypeOK'
      BY <2>5, <2>t DEF Dispatch, GetRuntime, TypeOK, tables, sent
    <3>2. /\ streaming_methods' = (IF runtime' = "ready" THEN StreamOps ELSE {})
          /\ sync_methods' = (IF runtime' = "ready" THEN SyncOps ELSE {})
      BY <2>5 DEF Dispatch, GetRuntime, AdapterInv, tables
    <3>3. runtime' = "ready" /\ method[r] \in Registered(route[r])
      BY <2>5, <2>t, <3>2 DEF Dispatch, Allowed, Registered, TypeOK, sent
    <3>4. CallsOnlyRegistered'
      <4> SUFFICES ASSUME NEW s \in Requests, Called(s)'
                   PROVE  method[s] \in Registered(route[s])
        BY <2>5, <3>3 DEF CallsOnlyRegistered, Dispatch, Registered, sent
      <4> QED
        BY <2>5, <2>t, <3>3
           DEF Dispatch, Called, TypeOK, AdapterInv, CallsOnlyRegistered
    <3>5. \A s \in Requests : ~TurnedAway(s)'
      BY <2>5, <3>3, <2>t
         DEF Dispatch, GetRuntime, TurnedAway, Registered, AdapterInv, sent, tables
    <3> QED
      BY <3>1, <3>2, <3>4, <3>5 DEF AdapterInv
  <2>6. CASE Refuse(r)
    <3>1. TypeOK'
      BY <2>6, <2>t DEF Refuse, GetRuntime, Answer, TypeOK, tables, sent
    <3>2. /\ streaming_methods' = (IF runtime' = "ready" THEN StreamOps ELSE {})
          /\ sync_methods' = (IF runtime' = "ready" THEN SyncOps ELSE {})
          /\ runtime' \in {"ready", "unset"}
      BY <2>6, <2>t DEF Refuse, GetRuntime, AdapterInv, TypeOK, tables
    <3>3. runtime' # runtime => runtime = "none" /\ runtime' = "ready"
      BY <2>6 DEF Refuse, GetRuntime, tables
    <3>4. CallsOnlyRegistered'
      <4> SUFFICES ASSUME NEW s \in Requests, Called(s)'
                   PROVE  runtime' = "ready" /\ method[s] \in Registered(route[s])
        BY <2>6 DEF CallsOnlyRegistered, Refuse, Registered, sent
      <4>1. Called(s)
        BY <2>6, <2>t DEF Refuse, Answer, Called, TypeOK
      <4> QED
        BY <4>1, <3>3 DEF AdapterInv, CallsOnlyRegistered
    <3>5. ASSUME NEW s \in Requests, TurnedAway(s)' PROVE runtime' = "unset"
      <4>1. CASE s = r
        <5>1. method[r] \in Registered(route[r]) /\ method[r] \notin Allowed(route[r])'
          BY <2>6, <3>5, <4>1 DEF Refuse, TurnedAway, Registered, sent
        <5> QED
          BY <2>6, <2>t, <3>2, <5>1 DEF Refuse, Allowed, Registered, TypeOK, sent
      <4>2. CASE s # r
        <5>1. TurnedAway(s)
          BY <2>6, <2>t, <3>5, <4>2 DEF Refuse, Answer, TurnedAway, Registered, TypeOK, sent
        <5> QED
          BY <5>1, <3>3 DEF AdapterInv
      <4> QED
        BY <4>1, <4>2
    <3> QED
      BY <3>1, <3>2, <3>4, <3>5 DEF AdapterInv
  <2> QED
    BY <1>2, <2>1, <2>2, <2>3, <2>4, <2>5, <2>6 DEF Step
<1>3. CASE Restart
  BY <1>3 DEF Restart, AdapterInv, TypeOK, CallsOnlyRegistered, Called,
              TurnedAway, sent
<1> QED
  BY <1>1, <1>2, <1>3 DEF Next, Serve

\* The method sets are those of a completely set-up runtime or empty, and what
\* is called is registered for its route (reasoning_engine_adapter.py:46-75).
THEOREM AdapterSafety == Spec => []AdapterInv
<1>1. Init => AdapterInv
  BY AdapterAssumption
     DEF Init, AdapterInv, TypeOK, CallsOnlyRegistered, Called, TurnedAway
<1> QED
  BY <1>1, AdapterStep, PTL DEF Spec

\* A process that turned away one registered method never serves any: the
\* consequence of assigning `runtime` before its set-up has succeeded.
THEOREM ServesAllOrNothing == Spec => []AllOrNothing
<1>1. AdapterInv => AllOrNothing
  BY DEF AdapterInv, CallsOnlyRegistered, AllOrNothing
<1> QED
  BY <1>1, AdapterSafety, PTL
=============================================================================
