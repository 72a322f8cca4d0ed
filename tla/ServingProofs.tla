--------------------------- MODULE ServingProofs ---------------------------
(***************************************************************************)
(* Proofs about Serving, for any requests, operations and sessions.  The   *)
(* composition first: seen through the adapter's variables it is the       *)
(* adapter, so AdapterInv holds in it.  A method runs only on a ready      *)
(* runtime, a ready runtime is connected, and every connected surface      *)
(* works with the cached service; so what a surface finds is what any      *)
(* surface has stored.                                                     *)
(***************************************************************************)
EXTENDS Serving, ReasoningEngineAdapterProofs

\* A step of the composition is a step of the adapter or leaves it alone.
LEMMA StepOfAdapter == [ServingNext]_servingVars => [Next]_vars
BY DEF ServingNext, servingVars, adapterVars, Import, Lifespan, EngineSteps,
       Crash, Receive, Run, Creates, Deletes, Look, Next

\* Whatever the other surfaces do, the adapter behaves as it does alone
\* (fast_api_app.py:78 attaches it beside them).
THEOREM ServingRefinesAdapter == ServingSpec => Spec
<1>1. ServingInit => Init
  BY DEF ServingInit
<1> QED
  BY <1>1, StepOfAdapter, PTL DEF ServingSpec, Spec

\* What is proved of the adapter on its own holds of it inside the process: a
\* method runs only on a complete runtime, and a runtime serves all of the
\* registered methods or none (reasoning_engine_adapter.py:53, :77, :101).
THEOREM ServingDispatches == ServingSpec => [](AdapterInv /\ AllOrNothing)
<1>1. Spec => [](AdapterInv /\ AllOrNothing)
  BY AdapterSafety, ServesAllOrNothing, PTL
<1> QED
  BY <1>1, ServingRefinesAdapter, PTL

\* A request makes the runtime ready only when there was none.
LEMMA ServeRuntime ==
    ASSUME Serve PROVE runtime' = runtime \/ runtime = "none"
BY DEF Serve, Arrive, Step, BodyFails, ConstructFails, SetUpFails, Dispatch,
       Refuse, GetRuntime, CallRaises, CallReturns, StreamOpens, StreamEnds, tables

\* Asking for a service keeps the cache and gives the surface what it holds.
LEMMA ConnectKeeps ==
    ASSUME ServingInv, NEW f \in Surface, Connect(f)
    PROVE  /\ cached' \in [Kind -> Surface \cup {"none", "managed"}]
           /\ service' \in [Surface -> [Kind -> Surface \cup {"none", "managed"}]]
           /\ \A k \in Kind : /\ cached'[k] # "none"
                              /\ cached'[k] = "managed" <=> k \in managed
                              /\ cached[k] # "none" => cached'[k] = cached[k]
                              /\ service'[f][k] = cached'[k]
           /\ \A g \in Surface, k \in Kind :
                 /\ service'[g][k] \in {"none", cached'[k]}
                 /\ service[g][k] # "none" => service'[g][k] = service[g][k]
<1>1. cached' \in [Kind -> Surface \cup {"none", "managed"}]
  BY DEF Connect, GetService, Made, ServingInv
<1>2. \A k \in Kind : /\ cached'[k] # "none"
                      /\ cached'[k] = "managed" <=> k \in managed
                      /\ cached[k] # "none" => cached'[k] = cached[k]
  BY DEF Connect, GetService, Made, ServingInv, Surface
<1>3. service' \in [Surface -> [Kind -> Surface \cup {"none", "managed"}]]
  BY <1>1 DEF Connect, ServingInv
<1>4. \A k \in Kind : service'[f][k] = cached'[k]
  BY DEF Connect, ServingInv
<1>5. ASSUME NEW g \in Surface, NEW k \in Kind
      PROVE  /\ service'[g][k] \in {"none", cached'[k]}
             /\ service[g][k] # "none" => service'[g][k] = service[g][k]
  <2>1. service[g][k] \in {"none", cached[k]}
    BY DEF ServingInv
  <2>2. CASE g = f
    BY <1>2, <1>4, <2>1, <2>2
  <2>3. CASE g # f
    BY <1>2, <2>1, <2>3 DEF Connect, ServingInv
  <2> QED
    BY <2>2, <2>3
<1> QED
  BY <1>1, <1>2, <1>3, <1>4, <1>5

\* What a connected surface stores lands in the service all of them use.
LEMMA StoreKeeps ==
    ASSUME ServingInv, NEW f \in Surface, NEW k \in Kind, NEW s \in Sessions,
           service[f][k] # "none", Store(f, k, s),
           UNCHANGED <<adapterVars, managed, stage, cached, service>>,
           submitted' \subseteq Sessions, ran' \subseteq Sessions
    PROVE  ServingInv'
<1>1. service[f][k] = cached[k] /\ service[f][k] \in Surface \cup {"managed"}
  BY DEF ServingInv
<1>2. cached[k] = "managed" <=> k \in managed
  BY <1>1 DEF ServingInv
<1>3. ASSUME NEW x \in stored'
      PROVE  /\ x \in Kind \X (Surface \cup {"managed"}) \X Sessions
             /\ x[2] = "managed" \/ x[2] = cached[x[1]]
             /\ x[2] = "managed" <=> x[1] \in managed
  <2>1. CASE x \in stored
    BY <2>1 DEF ServingInv
  <2>2. CASE x = <<k, service[f][k], s>>
    BY <1>1, <1>2, <2>2
  <2> QED
    BY <2>1, <2>2 DEF Store
<1>4. deleted' \subseteq Sessions
  BY DEF Store, ServingInv
<1> QED
  BY <1>3, <1>4 DEF ServingInv, adapterVars, vars

\* Asking for services while the process starts or serves keeps the invariant.
LEMMA ConnectStep ==
    ASSUME ServingInv, NEW f \in Surface, Connect(f),
           UNCHANGED <<managed, stored, deleted>>,
           submitted' \subseteq Sessions, ran' \subseteq Sessions,
           stage' \in {"lifespan", "up"},
           stage' = "lifespan" => f = "web",
           stage = "import" => f = "web",
           stage' = "up" /\ stage # "up" => f = "a2a",
           runtime' = "ready" => runtime = "ready" \/ f = "engine"
    PROVE  ServingInv'
<1>1. \A k \in Kind : stage' # "import" => service'["web"][k] # "none"
  BY ConnectKeeps DEF ServingInv, Surface
<1>2. \A k \in Kind : stage' = "up" => service'["a2a"][k] # "none"
  BY ConnectKeeps DEF ServingInv, Surface
<1>3. \A k \in Kind : runtime' = "ready" => service'["engine"][k] # "none"
  BY ConnectKeeps DEF ServingInv, Surface
<1>4. \A x \in stored' : x[2] = "managed" \/ x[2] = cached'[x[1]]
  <2> SUFFICES ASSUME NEW x \in stored, x[2] # "managed" PROVE x[2] = cached'[x[1]]
    OBVIOUS
  <2>1. x[1] \in Kind /\ x[2] \in Surface /\ x[2] = cached[x[1]]
    BY DEF ServingInv
  <2>2. cached[x[1]] # "none"
    BY <2>1 DEF Surface
  <2> QED
    BY <2>1, <2>2, ConnectKeeps
<1> QED
  BY <1>1, <1>2, <1>3, <1>4, ConnectKeeps DEF ServingInv

\* A method runs only on an engine that has its services: every surface that
\* may act is connected.
LEMMA ActiveConnected ==
    ASSUME ServingInv, AdapterInv, NEW f \in Surface, Active(f), NEW k \in Kind
    PROVE  service[f][k] # "none" /\ service[f][k] = cached[k]
<1>1. f = "engine" => runtime = "ready"
  BY DEF Active, Calling, AdapterInv, CallsOnlyRegistered, Called
<1>2. service[f][k] # "none"
  BY <1>1 DEF ServingInv, Active, Surface
<1> QED
  BY <1>2 DEF ServingInv

\* Every step keeps the invariant.
LEMMA ServingStep ==
    ServingInv /\ AdapterInv /\ [ServingNext]_servingVars => ServingInv'
<1> SUFFICES ASSUME ServingInv, AdapterInv, [ServingNext]_servingVars
             PROVE  ServingInv'
  OBVIOUS
<1>1. CASE UNCHANGED servingVars
  BY <1>1 DEF ServingInv, servingVars, adapterVars, vars, held, tasks
<1>2. CASE Import
  <2>1. Connect("web") /\ "web" \in Surface
    BY <1>2 DEF Import, Surface
  <2> QED
    BY <1>2, <2>1, ConnectStep DEF Import, adapterVars, vars, held, tasks, ServingInv
<1>3. CASE Lifespan
  <2>1. Connect("a2a") /\ "a2a" \in Surface
    BY <1>3 DEF Lifespan, Surface
  <2> QED
    BY <1>3, <2>1, ConnectStep DEF Lifespan, adapterVars, vars, ServingInv
<1>4. CASE EngineSteps
  <2>1. CASE runtime = "none" /\ runtime' = "ready"
    <3>1. Connect("engine") /\ "engine" \in Surface
      BY <1>4, <2>1 DEF EngineSteps, Surface
    <3> QED
      BY <1>4, <3>1, ConnectStep DEF EngineSteps, held, tasks, ServingInv
  <2>2. CASE ~(runtime = "none" /\ runtime' = "ready")
    <3>1. runtime' = "ready" => runtime = "ready"
      BY <1>4, <2>2, ServeRuntime DEF EngineSteps
    <3> QED
      BY <1>4, <2>2, <3>1 DEF EngineSteps, held, tasks, ServingInv
  <2> QED
    BY <2>1, <2>2
<1>5. CASE Crash
  BY <1>5 DEF Crash, Restart, NoServices, ServingInv, Surface
<1>6. ASSUME NEW s \in Sessions, Receive(s) PROVE ServingInv'
  BY <1>6 DEF Receive, ServingInv, adapterVars, vars
<1>7. ASSUME NEW s \in Sessions, Run(s) PROVE ServingInv'
  <2>1. "a2a" \in Surface /\ "session" \in Kind
    BY DEF Surface, Kind
  <2> QED
    BY <1>7, <2>1, ActiveConnected, StoreKeeps DEF Run, ServingInv
<1>8. ASSUME NEW s \in Sessions, NEW f \in Surface, NEW k \in Kind,
             Creates(f, k, s) \/ Deletes(f, k, s) \/ Look(f, k, s)
      PROVE  ServingInv'
  <2>1. CASE Creates(f, k, s)
    BY <2>1, ActiveConnected, StoreKeeps DEF Creates, tasks, ServingInv
  <2>2. CASE Deletes(f, k, s)
    BY <2>2 DEF Deletes, tasks, ServingInv, adapterVars, vars
  <2>3. CASE Look(f, k, s)
    BY <2>3 DEF Look, tasks, ServingInv, adapterVars, vars
  <2> QED
    BY <1>8, <2>1, <2>2, <2>3
<1> QED
  BY <1>1, <1>2, <1>3, <1>4, <1>5, <1>6, <1>7, <1>8 DEF ServingNext

\* Every surface that is connected works with the one cached service, and the
\* engine is connected whenever a method of it runs (services.py:37-63).
THEOREM ServingSafety == ServingSpec => []ServingInv
<1>1. ServingInit => ServingInv
  BY DEF ServingInit, ServingInv, NoServices, Init
<1> QED
  BY <1>1, ServingStep, ServingRefinesAdapter, AdapterSafety, PTL DEF ServingSpec

\* What a surface with services finds is what any surface has stored.
LEMMA HeldIsKnown ==
    ASSUME ServingInv, NEW f \in Surface, NEW k \in Kind, service[f][k] # "none"
    PROVE  Held(f, k) = Known(k)
<1>1. service[f][k] = cached[k] /\ (cached[k] = "managed" <=> k \in managed)
  BY DEF ServingInv
<1>2. ASSUME NEW s \in Sessions, NEW x \in stored, x[1] = k, x[3] = s
      PROVE  <<k, service[f][k], s>> \in stored
  <2>1. x = <<x[1], x[2], x[3]>>
    BY DEF ServingInv
  <2>2. x[2] = service[f][k]
    BY <1>1, <1>2 DEF ServingInv
  <2> QED
    BY <1>2, <2>1, <2>2
<1>3. ASSUME NEW s \in Sessions, <<k, service[f][k], s>> \in stored
      PROVE  \E x \in stored : x[1] = k /\ x[3] = s
  BY <1>3
<1> QED
  BY <1>2, <1>3 DEF Held, Known

\* What a store and a removal by a surface with services do to what is known.
LEMMA KnownAfterStore ==
    ASSUME NEW f \in Surface, NEW k \in Kind, NEW s \in Sessions, Store(f, k, s)
    PROVE  \A j \in Kind : Known(j)' = IF j = k THEN Known(j) \cup {s} ELSE Known(j)
<1> DEFINE new == <<k, service[f][k], s>>
<1>1. new[1] = k /\ new[3] = s
  OBVIOUS
<1>2. stored' = stored \cup {new}
  BY DEF Store
<1> HIDE DEF new
<1>3. ASSUME NEW j \in Kind, NEW t \in Sessions
      PROVE  (\E x \in stored' : x[1] = j /\ x[3] = t)
               <=> (\E x \in stored : x[1] = j /\ x[3] = t) \/ (j = k /\ t = s)
  BY <1>1, <1>2
<1> QED
  BY <1>3 DEF Known

LEMMA KnownAfterRemoval ==
    ASSUME ServingInv, NEW f \in Surface, NEW k \in Kind, NEW s \in Sessions,
           service[f][k] # "none", stored' = stored \ {<<k, service[f][k], s>>}
    PROVE  \A j \in Kind : Known(j)' = IF j = k THEN Known(j) \ {s} ELSE Known(j)
<1> DEFINE old == <<k, service[f][k], s>>
<1>1. old[1] = k /\ old[3] = s
  OBVIOUS
<1>2. ASSUME NEW x \in stored, x[1] = k, x[3] = s PROVE x = old
  <2>1. x = <<x[1], x[2], x[3]>>
    BY DEF ServingInv
  <2>2. x[2] = service[f][k]
    <3>1. service[f][k] = cached[k] /\ (cached[k] = "managed" <=> k \in managed)
      BY DEF ServingInv
    <3> QED
      BY <1>2, <3>1 DEF ServingInv
  <2> QED
    BY <1>2, <2>1, <2>2
<1>3. stored' = stored \ {old}
  OBVIOUS
<1> HIDE DEF old
<1>4. ASSUME NEW j \in Kind, NEW t \in Sessions
      PROVE  (\E x \in stored' : x[1] = j /\ x[3] = t)
               <=> (\E x \in stored : x[1] = j /\ x[3] = t) /\ ~(j = k /\ t = s)
  BY <1>1, <1>2, <1>3
<1> QED
  BY <1>4 DEF Known

\* A session in which a task ran is found on every connected surface until it is
\* deleted on one of them, through restarts and whichever surface connects when
\* (fast_api_app.py:46-60, services.py:37-55).
THEOREM TasksSafety == ServingSpec => []TasksHaveSessions
<1> DEFINE Kept == \A s \in ran \ deleted : s \in Known("session")
<1>1. ServingInit => Kept
  BY DEF ServingInit
<1>2. ServingInv /\ AdapterInv /\ Kept /\ [ServingNext]_servingVars => Kept'
  <2> SUFFICES ASSUME ServingInv, AdapterInv, Kept, [ServingNext]_servingVars,
                      NEW s \in ran', s \notin deleted'
               PROVE  s \in Known("session")'
    OBVIOUS
  <2>a. "a2a" \in Surface /\ "session" \in Kind
    BY DEF Surface, Kind
  <2>1. CASE Crash \/ Lifespan
    BY <2>1 DEF Crash, Lifespan
  <2>2. ASSUME UNCHANGED <<stored, ran, deleted>> PROVE s \in Known("session")'
    BY <2>2 DEF Known
  <2>3. CASE Import \/ EngineSteps \/ UNCHANGED servingVars
    BY <2>2, <2>3 DEF Import, EngineSteps, servingVars, held, tasks
  <2>4. ASSUME NEW t \in Sessions, Receive(t) PROVE s \in Known("session")'
    BY <2>2, <2>4 DEF Receive
  <2>5. ASSUME NEW t \in Sessions, Run(t) PROVE s \in Known("session")'
    <3>1. Known("session")' = Known("session") \cup {t}
      BY <2>5, <2>a, KnownAfterStore DEF Run
    <3>2. ran' = ran \cup {t} /\ deleted' = deleted \ {t}
      BY <2>5 DEF Run, Store
    <3> QED
      BY <3>1, <3>2
  <2>6. ASSUME NEW t \in Sessions, NEW f \in Surface, NEW k \in Kind, Creates(f, k, t)
        PROVE  s \in Known("session")'
    <3>1. Known("session")' = IF k = "session" THEN Known("session") \cup {t}
                                                ELSE Known("session")
      BY <2>6, <2>a, KnownAfterStore DEF Creates
    <3>2. /\ ran' = ran
          /\ deleted' = IF k = "session" THEN deleted \ {t} ELSE deleted
      BY <2>6 DEF Creates, Store, tasks
    <3> QED
      BY <3>1, <3>2
  <2>7. ASSUME NEW t \in Sessions, NEW f \in Surface, NEW k \in Kind, Deletes(f, k, t)
        PROVE  s \in Known("session")'
    <3>1. Known("session")' = IF k = "session" THEN Known("session") \ {t}
                                                ELSE Known("session")
      BY <2>7, <2>a, ActiveConnected, KnownAfterRemoval DEF Deletes
    <3>2. /\ ran' = ran
          /\ deleted' = IF k = "session" THEN deleted \cup {t} ELSE deleted
      BY <2>7 DEF Deletes, tasks
    <3> QED
      BY <3>1, <3>2
  <2>8. ASSUME NEW t \in Sessions, NEW f \in Surface, NEW k \in Kind, Look(f, k, t)
        PROVE  s \in Known("session")'
    BY <2>2, <2>8 DEF Look, tasks
  <2> QED
    BY <2>1, <2>3, <2>4, <2>5, <2>6, <2>7, <2>8 DEF ServingNext
<1>3. ServingInv /\ Kept => TasksHaveSessions
  BY HeldIsKnown DEF TasksHaveSessions, Kind
<1> QED
  BY <1>1, <1>2, <1>3, ServingSafety, ServingRefinesAdapter, AdapterSafety, PTL
     DEF ServingSpec

\* The three surfaces with their caches and restarts are one store: what one of
\* them creates, the others see, until one of them deletes it (services.py:17-19).
THEOREM ServingImplementsSharedStore == ServingSpec => ImplementsSharedStore
<1>1. ServingInit => Abstract!Init
  BY DEF ServingInit, Abstract!Init, Abstract!Kind, Known, Kind
<1>2. ASSUME ServingInv, AdapterInv, [ServingNext]_servingVars
      PROVE  [Abstract!Next]_<<managed, [k \in Kind |-> Known(k)], answer>>
  <2> DEFINE store == [k \in Kind |-> Known(k)]
             aVars == <<managed, store, answer>>
  <2>a. Abstract!Kind = Kind
    BY DEF Abstract!Kind, Kind
  <2>1. ASSUME UNCHANGED <<managed, stored, answer>> PROVE UNCHANGED aVars
    BY <2>1 DEF Known
  <2>2. CASE Import \/ Lifespan \/ EngineSteps \/ UNCHANGED servingVars
    BY <2>1, <2>2 DEF Import, Lifespan, EngineSteps, servingVars, held
  <2>3. CASE Crash
    <3>1. ASSUME NEW k \in Kind PROVE Known(k)' = IF k \in managed THEN Known(k) ELSE {}
      BY <1>2, <2>3 DEF Crash, Known, ServingInv
    <3>2. store' = [k \in Kind |-> IF k \in managed THEN store[k] ELSE {}]
      BY <3>1
    <3> QED
      BY <2>3, <2>a, <3>2 DEF Crash, Abstract!Restart, Abstract!Next
  <2>4. ASSUME NEW f \in Surface, NEW k \in Kind, NEW s \in Sessions,
               Store(f, k, s), UNCHANGED <<managed, answer>>
        PROVE  Abstract!Next
    <3>1. store' = [store EXCEPT ![k] = @ \cup {s}]
      BY <2>4, KnownAfterStore
    <3> QED
      BY <2>4, <2>a, <3>1 DEF Abstract!Put, Abstract!Next
  <2>5. CASE \E s \in Sessions : Receive(s) \/ Run(s)
    <3>1. "a2a" \in Surface /\ "session" \in Kind
      BY DEF Surface, Kind
    <3> QED
      BY <2>1, <2>4, <2>5, <3>1 DEF Receive, Run
  <2>6. ASSUME NEW s \in Sessions, NEW f \in Surface, NEW k \in Kind,
               Creates(f, k, s) \/ Deletes(f, k, s)
        PROVE  Abstract!Next
    <3>1. CASE Creates(f, k, s)
      BY <2>4, <3>1 DEF Creates
    <3>2. CASE Deletes(f, k, s)
      <4>1. store' = [store EXCEPT ![k] = @ \ {s}]
        <5>1. /\ service[f][k] # "none"
              /\ stored' = stored \ {<<k, service[f][k], s>>}
          BY <1>2, <3>2, ActiveConnected DEF Deletes
        <5>2. \A j \in Kind : Known(j)' = IF j = k THEN Known(j) \ {s} ELSE Known(j)
          BY <1>2, <5>1, KnownAfterRemoval
        <5> QED
          BY <5>2
      <4> QED
        BY <2>a, <3>2, <4>1 DEF Deletes, Abstract!Remove, Abstract!Next
    <3> QED
      BY <2>6, <3>1, <3>2
  <2>7. ASSUME NEW s \in Sessions, NEW f \in Surface, NEW k \in Kind, Look(f, k, s)
        PROVE  Abstract!Next
    <3>1. Held(f, k) = store[k]
      BY <1>2, <2>7, ActiveConnected, HeldIsKnown DEF Look
    <3>2. answer' = <<k, s, s \in store[k]>>
      BY <2>7, <3>1 DEF Look
    <3>3. store' = store /\ managed' = managed
      BY <2>7 DEF Look, Known
    <3> QED
      BY <2>a, <3>2, <3>3 DEF Abstract!Look, Abstract!Next
  <2> QED
    BY <1>2, <2>2, <2>3, <2>5, <2>6, <2>7 DEF ServingNext
<1> QED
  BY <1>1, <1>2, ServingSafety, ServingRefinesAdapter, AdapterSafety, PTL
     DEF ServingSpec, ImplementsSharedStore, Abstract!Spec
=============================================================================
