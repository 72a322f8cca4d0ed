------------------------------ MODULE Settings ------------------------------
(***************************************************************************)
(* What the process makes of its environment once it is put together       *)
(* (Boot): the getters of config.py, the stores services.py chooses and    *)
(* the base URL a2a.py advertises.  config.py takes a blank variable for   *)
(* an unset one; the other two test os.environ's string for truth, to      *)
(* which spaces are a value.  A text is opaque, except for what int() and  *)
(* float() make of it.                                                     *)
(***************************************************************************)
EXTENDS Integers, Sequences

CONSTANTS
    Unset, Empty, Spaces,   \* not in os.environ, "", and white space only
    Missing,                \* None
    Text,                   \* what else a variable may say
    IntOf, FloatOf,         \* a value as int() and float() read it, a float in
                            \* units of 1/20, or
    Malformed,              \* ValueError
    Off                     \* the texts that are 0, false, no or off

ASSUME SettingsAssumption ==
    /\ {Unset, Empty, Spaces, Missing} \cap Text = {}
    /\ Missing \notin {Unset, Empty, Spaces}
    /\ IntOf \in [Text \cup {Empty, Spaces} -> Int \cup {Malformed}]
    /\ Malformed \notin Int
    /\ Off \subseteq Text

Variable ==
    {"LOCATION", "GOOGLE_CLOUD_LOCATION", "REGION", "MODEL_NAME", "COORDINATOR_MODEL",
     "PROJECT_ID", "GOOGLE_CLOUD_PROJECT", "GCP_PROJECT", "DATA_AGENT_ID",
     "BIGTABLE_INSTANCE", "RAG_DATASET_ID", "RAG_TABLE_ID", "RAG_EMBEDDING_ENDPOINT",
     "RAG_SIMILARITY_THRESHOLD", "BQ_MAX_BYTES_BILLED", "TOOL_MAX_RETRIES",
     "BQ_TELEMETRY_DATASET", "TELEMETRY_DATASET_ID", "BQ_TELEMETRY_TABLE",
     "BQ_TELEMETRY_LOCATION", "BQ_TELEMETRY_ENABLED", "SESSION_SERVICE_URI",
     "LOGS_BUCKET_NAME", "APP_URL", "GOOGLE_CLOUD_AGENT_ENGINE_ID",
     "GOOGLE_CLOUD_AGENT_ENGINE_LOCATION"}

Environment == [Variable -> Text \cup {Unset, Empty, Spaces}]

-----------------------------------------------------------------------------
\* Mutant of Stated: `if value` without the strip.
StatedUnstripped(v) == v \notin {Unset, Empty}

\* `value and value.strip()`
Stated(v) == v \notin {Unset, Empty, Spaces}

\* _first_env, its names tried in order.
FirstEnv(e, names) ==
    IF \A i \in DOMAIN names : ~Stated(e[names[i]]) THEN Missing
    ELSE LET i == CHOOSE j \in DOMAIN names :
                    Stated(e[names[j]]) /\ \A k \in 1 .. j - 1 : ~Stated(e[names[k]])
         IN  e[names[i]]

OrElse(v, default) == IF v = Missing THEN default ELSE v

\* The names and the default of each text the gateways and the model need.
Setting ==
    [location |-> <<<<"LOCATION", "GOOGLE_CLOUD_LOCATION">>, "global">>,
     region |-> <<<<"REGION">>, "us-central1">>,
     model |-> <<<<"MODEL_NAME", "COORDINATOR_MODEL">>, "gemini-3.6-flash">>,
     agent |-> <<<<"DATA_AGENT_ID">>, "cymbal-retail-analytics-agent">>]

StoreSetting ==
    [instance |-> <<<<"BIGTABLE_INSTANCE">>, "operations-db">>,
     dataset |-> <<<<"RAG_DATASET_ID">>, "cymbal_gold">>,
     table |-> <<<<"RAG_TABLE_ID">>, "pos_manual_chunk_embeddings">>,
     endpoint |-> <<<<"RAG_EMBEDDING_ENDPOINT">>, "text-embedding-005">>]

TelemetrySetting ==
    [dataset |-> <<<<"BQ_TELEMETRY_DATASET", "TELEMETRY_DATASET_ID">>, "agent_telemetry">>,
     table |-> <<<<"BQ_TELEMETRY_TABLE">>, "events">>]

Get(e, s) == OrElse(FirstEnv(e, s[1]), s[2])

\* get_project_id as far as the environment decides it (Boot has the rest).
ProjectOf(e) == FirstEnv(e, <<"PROJECT_ID", "GOOGLE_CLOUD_PROJECT", "GCP_PROJECT">>)

\* get_chat_url and get_data_agent_name, by their varying parts.
ChatUrl(e) == <<ProjectOf(e), Get(e, Setting.location)>>

DataAgentName(e) == <<ProjectOf(e), Get(e, Setting.location), Get(e, Setting.agent)>>

TelemetryLocation(e) ==
    OrElse(FirstEnv(e, <<"BQ_TELEMETRY_LOCATION">>), Get(e, Setting.region))

TelemetryEnabled(e) == FirstEnv(e, <<"BQ_TELEMETRY_ENABLED">>) \notin Off

\* A number that is not stated or malformed is the default.
Number(e, name, read, default) ==
    LET raw == FirstEnv(e, <<name>>)
    IN  IF raw = Missing \/ read[raw] = Malformed THEN default ELSE read[raw]

SimilarityThreshold(e) == Number(e, "RAG_SIMILARITY_THRESHOLD", FloatOf, 14)

MaxBytesBilled(e) == Number(e, "BQ_MAX_BYTES_BILLED", IntOf, 1073741824)

\* Mutant of MaxRetries: not clamped.
MaxRetriesUnclamped(e) == Number(e, "TOOL_MAX_RETRIES", IntOf, 3)

\* Clamped from below only.
MaxRetries(e) ==
    LET n == Number(e, "TOOL_MAX_RETRIES", IntOf, 3) IN IF n < 1 THEN 1 ELSE n

-----------------------------------------------------------------------------
\* `if x := os.environ.get(...)`
Truthy(v) == v \notin {Unset, Empty}

\* Where get_session_service keeps the sessions.
SessionStore(e) ==
    IF Truthy(e["SESSION_SERVICE_URI"])
    THEN [kind |-> "uri", at |-> <<e["SESSION_SERVICE_URI"]>>]
    ELSE IF Truthy(e["GOOGLE_CLOUD_AGENT_ENGINE_ID"])
    THEN [kind |-> "engine",
          at |-> <<e["GOOGLE_CLOUD_PROJECT"],
                   IF Truthy(e["GOOGLE_CLOUD_AGENT_ENGINE_LOCATION"])
                   THEN e["GOOGLE_CLOUD_AGENT_ENGINE_LOCATION"]
                   ELSE e["GOOGLE_CLOUD_LOCATION"],
                   e["GOOGLE_CLOUD_AGENT_ENGINE_ID"]>>]
    ELSE [kind |-> "memory", at |-> <<>>]

ArtifactStore(e) ==
    IF Truthy(e["LOGS_BUCKET_NAME"])
    THEN [kind |-> "gcs", at |-> <<e["LOGS_BUCKET_NAME"]>>]
    ELSE [kind |-> "memory", at |-> <<>>]

\* Mutant of EngineRegion: the region every other client uses.
EngineRegionOfClients(e) == Get(e, Setting.location)

EngineRegion(e) ==
    IF e["GOOGLE_CLOUD_AGENT_ENGINE_LOCATION"] = Unset THEN "us-central1"
    ELSE e["GOOGLE_CLOUD_AGENT_ENGINE_LOCATION"]

\* _resolve_app_url(None), which is how the lifespan calls it: APP_URL, the
\* engine's own /api passthrough, or http://0.0.0.0:8000.
AppUrl(e) ==
    IF Truthy(e["APP_URL"]) THEN [kind |-> "uri", at |-> <<e["APP_URL"]>>]
    ELSE IF /\ Truthy(e["GOOGLE_CLOUD_AGENT_ENGINE_ID"])
            /\ Truthy(e["GOOGLE_CLOUD_PROJECT"])
            /\ Truthy(EngineRegion(e))
    THEN [kind |-> "engine",
          at |-> <<e["GOOGLE_CLOUD_PROJECT"], EngineRegion(e),
                   e["GOOGLE_CLOUD_AGENT_ENGINE_ID"]>>]
    ELSE [kind |-> "local", at |-> <<>>]

-----------------------------------------------------------------------------
\* The card and the session store derive the engine they mean separately, with
\* fallbacks of their own (a2a.py:96, services.py:49-50).  Where neither APP_URL
\* nor SESSION_SERVICE_URI points elsewhere, a client that follows the card
\* reaches the engine that holds its sessions if the platform says which region
\* the engine is in, and otherwise only if GOOGLE_CLOUD_LOCATION happens to be
\* us-central1: unset, or the "global" of a2a.py:94, it sends the two apart.
CardLeadsToSessions(e) ==
    AppUrl(e).kind = "engine" /\ SessionStore(e).kind = "engine" =>
        (AppUrl(e).at = SessionStore(e).at
            <=> \/ e["GOOGLE_CLOUD_AGENT_ENGINE_LOCATION"] # Unset
                \/ e["GOOGLE_CLOUD_LOCATION"] = "us-central1")

\* Everything config.py reads off an environment.
Read(e) ==
    <<[s \in DOMAIN Setting |-> Get(e, Setting[s])],
      [s \in DOMAIN StoreSetting |-> Get(e, StoreSetting[s])],
      [s \in DOMAIN TelemetrySetting |-> Get(e, TelemetrySetting[s])],
      ProjectOf(e), ChatUrl(e), DataAgentName(e), TelemetryLocation(e),
      TelemetryEnabled(e), SimilarityThreshold(e), MaxBytesBilled(e), MaxRetries(e)>>

\* A variable that the copied .env.example leaves blank is as good as left out
\* (config.py:33-38): no getter falls for white space, and no later name or
\* default is cut off by it.
BlankIsUnset(e) ==
    Read(e) = Read([n \in Variable |-> IF e[n] \in {Empty, Spaces} THEN Unset ELSE e[n]])

\* The tools get a retry budget they can count to and a gate to compare with,
\* whatever the environment says (config.py:136-162): the loops over
\* range(1, max_retries + 1) run at least once, and no getter raises in the
\* prologue, outside their try blocks.
BudgetUsable(e) ==
    /\ MaxRetries(e) \in Int /\ MaxRetries(e) >= 1
    /\ MaxBytesBilled(e) \in Int
    /\ SimilarityThreshold(e) # Malformed
=============================================================================
