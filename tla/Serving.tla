------------------------------ MODULE Serving ------------------------------
(***************************************************************************)
(* The three serving surfaces of one process and the services behind them: *)
(* the ADK web routes, made when fast_api_app is imported; the A2A         *)
(* endpoints, attached by its lifespan before the first request; and the   *)
(* reasoning_engine adapter, whose AdkApp takes its services when the      *)
(* first request sets it up.  Each asks the services module; an in-memory  *)
(* service is named after the surface it was made for.                     *)
(*                                                                         *)
(* A session stands for the whole key (app name, user, id) under which     *)
(* ADK keeps it.  ADK, the A2A SDK and the managed stores are external.    *)
(***************************************************************************)
EXTENDS ReasoningEngineAdapter

CONSTANT Sessions

VARIABLES
    managed,     \* the kinds a variable of the deployment keeps elsewhere
    stage,       \* importing fast_api_app, before the lifespan, or serving
    cached,      \* what functools.cache holds of the two service getters
    service,     \* the services each surface works with
    stored,      \* what the services hold: kind, service, session
    submitted,   \* sessions for which the A2A task store has a message not yet run
    ran,         \* sessions in which a task of that store has run
    deleted,     \* history: sessions deleted and not made again since
    answer       \* what the last look at a service was told

adapterVars == vars
tasks == <<submitted, ran>>
held == <<stored, tasks, deleted, answer>>
servingVars == <<adapterVars, managed, stage, cached, service, held>>

Surface == {"web", "a2a", "engine"}
Kind == {"session", "artifact"}

NoServices == [k \in Kind |-> "none"]

ServingInit ==
    /\ Init
    /\ managed \in SUBSET Kind
    /\ stage = "import"
    /\ cached = NoServices
    /\ service = [f \in Surface |-> NoServices]
    /\ stored = {} /\ submitted = {} /\ ran = {} /\ deleted = {}
    /\ answer = <<>>

-----------------------------------------------------------------------------
Made(k, f) == IF k \in managed THEN "managed" ELSE f

\* Mutant of GetService: without functools.cache.
GetServiceUncached(k, f) == Made(k, f)

\* get_session_service() and get_artifact_service(), asked by the surface f.
GetService(k, f) == IF cached[k] # "none" THEN cached[k] ELSE Made(k, f)

Connect(f) ==
    /\ cached' = [k \in Kind |-> GetService(k, f)]
    /\ service' = [service EXCEPT ![f] = cached']

Held(f, k) == {s \in Sessions : <<k, service[f][k], s>> \in stored}

Store(f, k, s) ==
    /\ stored' = stored \cup {<<k, service[f][k], s>>}
    /\ deleted' = IF k = "session" THEN deleted \ {s} ELSE deleted

\* get_fast_api_app() resolves both shared:// URIs.
Import ==
    /\ stage = "import"
    /\ Connect("web")
    /\ stage' = "lifespan"
    /\ UNCHANGED <<adapterVars, managed, held>>

\* The Runner of the A2A path and its task store.
Lifespan ==
    /\ stage = "lifespan"
    /\ Connect("a2a")
    /\ stage' = "up"
    /\ submitted' = {} /\ ran' = {}
    /\ UNCHANGED <<adapterVars, managed, stored, deleted, answer>>

\* A reasoning_engine request takes a step; set_up() asks for the services.
EngineSteps ==
    /\ stage = "up"
    /\ Serve
    /\ IF runtime = "none" /\ runtime' = "ready" THEN Connect("engine")
       ELSE UNCHANGED <<cached, service>>
    /\ UNCHANGED <<managed, stage, held>>

Calling(r) == pc[r] \in {"calling", "streaming"}

\* Which surface can reach its services now: the engine's does while a method
\* of it runs.
Active(f) == stage = "up" /\ (f = "engine" => \E r \in Requests : Calling(r))

\* A session is created, or a file is kept under its key, on the web routes or
\* by a method of the engine.
Creates(f, k, s) ==
    /\ f # "a2a" /\ Active(f)
    /\ Store(f, k, s)
    /\ UNCHANGED <<adapterVars, managed, stage, cached, service, tasks, answer>>

\* A session or a file is deleted there, whoever else works with it; the files
\* of a session outlive it.
Deletes(f, k, s) ==
    /\ f # "a2a" /\ Active(f)
    /\ s \in Held(f, k)
    /\ stored' = stored \ {<<k, service[f][k], s>>}
    /\ deleted' = IF k = "session" THEN deleted \cup {s} ELSE deleted
    /\ UNCHANGED <<adapterVars, managed, stage, cached, service, tasks, answer>>

\* The request handler stores the task of an A2A message, whose session need
\* not exist, before the executor takes it up.
Receive(s) ==
    /\ Active("a2a")
    /\ submitted' = submitted \cup {s}
    /\ UNCHANGED <<adapterVars, managed, stage, cached, service, stored, ran,
                   deleted, answer>>

\* Mutant of Run: the Runner does not create sessions.
RunUncreated(s) ==
    /\ Active("a2a") /\ s \in submitted
    /\ submitted' = submitted \ {s} /\ ran' = ran \cup {s}
    /\ UNCHANGED <<adapterVars, managed, stage, cached, service, stored, deleted,
                   answer>>

\* The executor hands the message to the Runner: auto_create_session makes the
\* session that is not there, or no longer, and the task runs in it.
Run(s) ==
    /\ Active("a2a") /\ s \in submitted
    /\ Store("a2a", "session", s)
    /\ submitted' = submitted \ {s} /\ ran' = ran \cup {s}
    /\ UNCHANGED <<adapterVars, managed, stage, cached, service, answer>>

Look(f, k, s) ==
    /\ Active(f)
    /\ answer' = <<k, s, s \in Held(f, k)>>
    /\ UNCHANGED <<adapterVars, managed, stage, cached, service, stored, tasks, deleted>>

\* The process ends at any moment, the start included, and is started again:
\* what lives in its memory is gone.
Crash ==
    /\ Restart
    /\ stage' = "import"
    /\ cached' = NoServices
    /\ service' = [f \in Surface |-> NoServices]
    /\ stored' = {x \in stored : x[2] = "managed"}
    /\ submitted' = {} /\ ran' = {} /\ deleted' = {}
    /\ UNCHANGED <<managed, answer>>

ServingNext ==
    \/ Import \/ Lifespan \/ EngineSteps \/ Crash
    \/ \E s \in Sessions :
          \/ Receive(s) \/ Run(s)
          \/ \E f \in Surface, k \in Kind :
                Creates(f, k, s) \/ Deletes(f, k, s) \/ Look(f, k, s)

ServingSpec == ServingInit /\ [][ServingNext]_servingVars

\* As FairSpec: the event loop of a process that serves resumes its handlers.
FairServing ==
    ServingSpec /\ \A r \in Requests : WF_servingVars(EngineSteps /\ Step(r))

-----------------------------------------------------------------------------
\* The inductive strengthening: every surface that is connected works with the
\* cached service, in-memory contents belong to that service, and a method
\* runs only on an engine that is connected.
ServingInv ==
    /\ managed \subseteq Kind
    /\ stage \in {"import", "lifespan", "up"}
    /\ cached \in [Kind -> Surface \cup {"none", "managed"}]
    /\ service \in [Surface -> [Kind -> Surface \cup {"none", "managed"}]]
    /\ stored \subseteq Kind \X (Surface \cup {"managed"}) \X Sessions
    /\ submitted \subseteq Sessions /\ ran \subseteq Sessions /\ deleted \subseteq Sessions
    /\ \A f \in Surface, k \in Kind : service[f][k] \in {"none", cached[k]}
    /\ \A k \in Kind :
          /\ cached[k] # "none" => (cached[k] = "managed" <=> k \in managed)
          /\ stage # "import" => service["web"][k] # "none"
          /\ stage = "up" => service["a2a"][k] # "none"
          /\ runtime = "ready" => service["engine"][k] # "none"
    /\ \A x \in stored : x[2] = "managed" \/ x[2] = cached[x[1]]
    /\ \A x \in stored : x[2] = "managed" <=> x[1] \in managed

\* A session in which a task ran is found on every surface that has its services,
\* in whichever order they asked for them: the Runner creates what is missing or
\* was deleted before, and from then on only a deletion takes it away.  No restart
\* leaves the task without it, whichever stores are managed
\* (fast_api_app.py:46-60).  A message that is only stored may have no session.
TasksHaveSessions ==
    \A s \in ran \ deleted, f \in Surface :
        service[f]["session"] # "none" => s \in Held(f, "session")

\* The sessions for which a thing of this kind is stored anywhere.
Known(k) == {s \in Sessions : \E x \in stored : x[1] = k /\ x[3] = s}

Abstract == INSTANCE SharedStore WITH store <- [k \in Kind |-> Known(k)]

\* services.py:17-19, "a session created on any surface is visible to the
\* others": the surfaces with their caches, lazily connected and restarted at
\* any moment, cannot be told from one store.
ImplementsSharedStore == Abstract!Spec
=============================================================================
