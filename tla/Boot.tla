-------------------------------- MODULE Boot --------------------------------
(***************************************************************************)
(* The life of one agent process: the environment is put together from the *)
(* variables it was started with and two .env files, app/__init__.py       *)
(* imports app/agent.py, whose module body builds the toolsets and the     *)
(* telemetry plugin, fast_api_app.py builds the serving surfaces, and then *)
(* tools are called until the process is stopped and started again.        *)
(* What a value is does not matter here, only which source it comes from.  *)
(***************************************************************************)
EXTENDS Sequences, Naturals

CONSTANTS
    ProjectNames,   \* the variables that may name the project, in order
    UrlNames,       \* the variables that may give the MCP URL, in order
    AdcProjects,    \* the projects google.auth.default() may report
    Missing         \* no project: not cached yet, or none to be had

Source == {"process", "appFile", "otherFile"}

Elements(names) == {names[i] : i \in DOMAIN names}

Names == Elements(ProjectNames) \cup Elements(UrlNames)

ASSUME BootAssumption ==
    /\ ProjectNames \in Seq(STRING) /\ UrlNames \in Seq(STRING)
    /\ Missing \notin AdcProjects \cup Source
    /\ AdcProjects \cap Source = {}

VARIABLES
    given,       \* what each source says of each name, fixed by the deployment
    pc,          \* how far the process has come
    env,         \* os.environ: for a value, the source it comes from
    project,     \* what lru_cache holds for get_project_id()
    used,        \* history: the projects this process has worked with
    telemetry,   \* is the analytics plugin installed
    token,       \* the identity token in the MCP toolset's fixed headers
    carried      \* history: the token the last MCP call carried

memory == <<project, used, telemetry, token, carried>>
vars == <<given, pc, env, project, used, telemetry, token, carried>>

Early == {"down", "app_env", "other_env", "mcp", "data_agent"}

Stage == Early \cup {"telemetry", "announce", "surfaces", "serving", "failed"}

\* The token is minted or it is "", and it is not looked at again.
Token == {"none", "valid", "expired"}

TypeOK ==
    /\ given \in [Source -> [Names -> {"unset", "blank", "set"}]]
    /\ pc \in Stage
    /\ env \in [Names -> {"unset", "blank"} \cup Source]
    /\ project \in {Missing} \cup Source \cup AdcProjects
    /\ used \subseteq Source \cup AdcProjects
    /\ telemetry \in BOOLEAN
    /\ token \in Token
    /\ carried \in {"no call"} \cup Token

Unset == [n \in Names |-> "unset"]

Init ==
    /\ given \in [Source -> [Names -> {"unset", "blank", "set"}]]
    /\ pc = "down"
    /\ env = Unset
    /\ project = Missing
    /\ used = {}
    /\ telemetry = FALSE
    /\ token = "none"
    /\ carried = "no call"

-----------------------------------------------------------------------------
\* A variable as the source defines it.
Says(s, n) == IF given[s][n] = "set" THEN s ELSE given[s][n]

\* Mutant of Loaded: load_dotenv(override=True).
LoadedOverriding(e, s) ==
    [n \in Names |-> IF Says(s, n) = "unset" THEN e[n] ELSE Says(s, n)]

\* load_dotenv(): a name that is there, be it blank, is left alone.
Loaded(e, s) == [n \in Names |-> IF e[n] = "unset" THEN Says(s, n) ELSE e[n]]

\* _first_env: the value of the first name that has one that is not blank.
FirstEnv(e, names) ==
    {e[names[i]] : i \in {j \in DOMAIN names :
        /\ e[names[j]] \in Source
        /\ \A k \in 1 .. j - 1 : e[names[k]] \notin Source}}

\* Mutant of ProjectOutcomes: get_project_id without lru_cache.
ProjectOutcomesUncached ==
    IF FirstEnv(env, ProjectNames) # {}
    THEN FirstEnv(env, ProjectNames)
    ELSE AdcProjects \cup {Missing}

\* What get_project_id() may return; Missing is the ConfigurationError, which
\* lru_cache does not keep.  The default credentials may give another answer
\* every time they are asked.
ProjectOutcomes ==
    IF project # Missing THEN {project}
    ELSE IF FirstEnv(env, ProjectNames) # {}
    THEN FirstEnv(env, ProjectNames)
    ELSE AdcProjects \cup {Missing}

-----------------------------------------------------------------------------
\* The platform starts the process with its environment variables.
Start ==
    /\ pc = "down"
    /\ pc' = "app_env"
    /\ env' = [n \in Names |-> Says("process", n)]
    /\ UNCHANGED <<given, memory>>

\* load_dotenv(Path(__file__).with_name(".env"))
LoadAppFile ==
    /\ pc = "app_env"
    /\ pc' = "other_env"
    /\ env' = Loaded(env, "appFile")
    /\ UNCHANGED <<given, memory>>

\* load_dotenv(): the file that the default search finds.
LoadOtherFile ==
    /\ pc = "other_env"
    /\ pc' = "mcp"
    /\ env' = Loaded(env, "otherFile")
    /\ UNCHANGED <<given, memory>>

\* Mutant of BindMcp: an endpoint that is not configured is not noticed.
BindMcpUnchecked ==
    /\ pc = "mcp"
    /\ pc' = "data_agent"
    /\ token' \in {"none", "valid"}
    /\ UNCHANGED <<given, env, project, used, telemetry, carried>>

\* get_bigtable_mcp_toolset(): without gcloud, or when it fails, the headers
\* stay empty and the toolset is built all the same.
BindMcp ==
    /\ pc = "mcp"
    /\ FirstEnv(env, UrlNames) # {}
    /\ pc' = "data_agent"
    /\ token' \in {"none", "valid"}
    /\ UNCHANGED <<given, env, project, used, telemetry, carried>>

BindMcpRaises ==
    /\ pc = "mcp"
    /\ FirstEnv(env, UrlNames) = {}
    /\ pc' = "failed"
    /\ UNCHANGED <<given, env, memory>>

\* get_data_agent_toolset(), which no try block surrounds.
BindDataAgent ==
    /\ pc = "data_agent"
    /\ pc' \in {"telemetry", "failed"}
    /\ UNCHANGED <<given, env, memory>>

\* build_telemetry_plugins() returns []: switched off or not importable, in
\* which case no project was asked for; or the project cannot be resolved or
\* the plugin not be constructed, and then the project stays cached.
TelemetryOff ==
    /\ pc = "telemetry"
    /\ project' \in {project} \cup ProjectOutcomes
    /\ pc' = "surfaces"
    /\ UNCHANGED <<given, env, used, telemetry, token, carried>>

TelemetryOn ==
    /\ pc = "telemetry"
    /\ \E p \in ProjectOutcomes \ {Missing} :
        /\ project' = p
        /\ used' = used \cup {p}
    /\ telemetry' = TRUE
    /\ pc' = "announce"
    /\ UNCHANGED <<given, env, token, carried>>

\* The log line after the try block asks for the project once more.
Announce ==
    /\ pc = "announce"
    /\ \E p \in ProjectOutcomes :
        /\ project' = p
        /\ pc' = IF p = Missing THEN "failed" ELSE "surfaces"
    /\ UNCHANGED <<given, env, used, telemetry, token, carried>>

\* fast_api_app.py: its own load_dotenv(), the services and the lifespan.
BuildSurfaces ==
    /\ pc = "surfaces"
    /\ env' = Loaded(env, "otherFile")
    /\ pc' \in {"serving", "failed"}
    /\ UNCHANGED <<given, memory>>

\* A tool's prologue asks for the project and works with it, or raises.
ToolCall ==
    /\ pc = "serving"
    /\ \E p \in ProjectOutcomes \ {Missing} :
        /\ project' = p
        /\ used' = used \cup {p}
    /\ UNCHANGED <<given, pc, env, telemetry, token, carried>>

\* A call of a Bigtable tool goes out with the headers fixed at import.
McpCall ==
    /\ pc = "serving"
    /\ carried' = token
    /\ UNCHANGED <<given, pc, env, project, used, telemetry, token>>

\* External: an identity token is good for an hour.
TokenExpires ==
    /\ token = "valid"
    /\ token' = "expired"
    /\ UNCHANGED <<given, pc, env, project, used, telemetry, carried>>

\* External: the process ends or is killed, at any point, with all it holds.
Stop ==
    /\ pc # "down"
    /\ pc' = "down"
    /\ env' = Unset
    /\ project' = Missing
    /\ used' = {}
    /\ telemetry' = FALSE
    /\ token' = "none"
    /\ carried' = "no call"
    /\ UNCHANGED given

Next ==
    \/ Start \/ LoadAppFile \/ LoadOtherFile
    \/ BindMcp \/ BindMcpRaises \/ BindDataAgent
    \/ TelemetryOff \/ TelemetryOn \/ Announce \/ BuildSurfaces
    \/ ToolCall \/ McpCall \/ TokenExpires \/ Stop

Spec == Init /\ [][Next]_vars

-----------------------------------------------------------------------------
\* What the deployment decides of a name: the first source that defines it, in
\* the order process, app/.env, other file, even if it defines it as blank.
Decided ==
    [n \in Names |->
        IF given["process"][n] # "unset" THEN Says("process", n)
        ELSE IF given["appFile"][n] # "unset" THEN Says("appFile", n)
        ELSE Says("otherFile", n)]

\* However often the process starts, whatever fails on the way and however
\* often .env files are loaded again, a deployment that configures a project
\* in any source works with that one: __init__.py:18-21 and the resolution
\* order of config.py:10-17.
DeploymentFixesProject ==
    FirstEnv(Decided, ProjectNames) # {} =>
        used \subseteq FirstEnv(Decided, ProjectNames)

\* Telemetry and all tools of one process work with one project, also when it
\* has to be asked of default credentials that change their answer.
OneProjectPerProcess == \A p, q \in used : p = q

\* agent.py:329-332: observability never takes the agent down, although the
\* log line that announces it is outside the try block.
TelemetryNeverFatal ==
    [][(pc \in {"telemetry", "announce"}) => pc' # "failed"]_vars

\* The inductive strengthening.  The environment holds what the sources loaded
\* so far say, and nothing more is decided after the import began.
EnvInv ==
    /\ pc = "app_env" => \A n \in Names : env[n] = Says("process", n)
    /\ pc = "other_env" =>
        \A n \in Names : env[n] = IF given["process"][n] # "unset"
                                  THEN Says("process", n) ELSE Says("appFile", n)
    /\ pc \notin {"down", "app_env", "other_env"} => env = Decided

\* The cached project is the environment's, if that has one, and the only one
\* in use; it is there when it is asked for a second time.
ProjectInv ==
    /\ pc \in Early => project = Missing
    /\ pc = "announce" => project # Missing
    /\ used \subseteq {project} \ {Missing}
    /\ telemetry => project \in used
    /\ project # Missing /\ FirstEnv(env, ProjectNames) # {} =>
            project \in FirstEnv(env, ProjectNames)

\* Nothing is served without the MCP endpoint.
UrlInv ==
    pc \in {"data_agent", "telemetry", "announce", "surfaces", "serving"} =>
        FirstEnv(env, UrlNames) # {}

BootInv == TypeOK /\ EnvInv /\ ProjectInv /\ UrlInv

-----------------------------------------------------------------------------
\* What the documentation says and the code does not do.

\* design_blueprint.md:138: the MCP service is "invoked with OIDC identity
\* tokens".
McpCallsAuthenticated == carried \notin {"none", "expired"}
=============================================================================
