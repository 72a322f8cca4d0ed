----------------------------- MODULE BootProofs -----------------------------
(***************************************************************************)
(* The start of the process and its cached project, for any lists of names *)
(* and whatever the default credentials answer.                            *)
(***************************************************************************)
EXTENDS Boot, TLAPS

\* What a source says of a name is a value of the environment.
LEMMA SaysType ==
    ASSUME TypeOK, NEW s \in Source, NEW n \in Names
    PROVE  /\ Says(s, n) \in {"unset", "blank"} \cup Source
           /\ Says(s, n) = "unset" <=> given[s][n] = "unset"
<1>1. given[s][n] \in {"unset", "blank", "set"}
  BY DEF TypeOK
<1> QED BY <1>1 DEF Says, Source

LEMMA LoadedType ==
    ASSUME TypeOK, NEW s \in Source
    PROVE  Loaded(env, s) \in [Names -> {"unset", "blank"} \cup Source]
BY SaysType DEF Loaded, TypeOK

\* Whatever _first_env finds comes from a source.
LEMMA FirstEnvType ==
    ASSUME NEW e, NEW names
    PROVE  FirstEnv(e, names) \subseteq Source
BY DEF FirstEnv

\* An answer of get_project_id() is the cached one, or the environment's, or
\* one of the default credentials, in this order.
LEMMA OutcomesFacts ==
    ASSUME TypeOK, BootAssumption, NEW p \in ProjectOutcomes
    PROVE  /\ p \in {Missing} \cup Source \cup AdcProjects
           /\ project # Missing => p = project
           /\ project = Missing /\ FirstEnv(env, ProjectNames) # {} =>
                /\ p \in FirstEnv(env, ProjectNames)
                /\ p # Missing
BY FirstEnvType DEF ProjectOutcomes, TypeOK, BootAssumption

\* Once both files are loaded, what the environment holds is decided, and
\* loading one of them again changes nothing.
LEMMA SecondLoad ==
    ASSUME TypeOK, env = Decided
    PROVE  Loaded(env, "otherFile") = env
<1> SUFFICES ASSUME NEW n \in Names PROVE Loaded(env, "otherFile")[n] = env[n]
  BY DEF Loaded, TypeOK
<1>1. \A s \in Source : Says(s, n) = "unset" <=> given[s][n] = "unset"
  BY SaysType
<1>2. {"process", "appFile", "otherFile"} = Source
  BY DEF Source
<1> QED BY <1>1, <1>2 DEF Loaded, Decided

\* A step that leaves the environment alone and does not move the process
\* between loading it and using it keeps what is known of it.
LEMMA EnvKept ==
    ASSUME EnvInv, given' = given, env' = env,
           \/ pc' = pc
           \/ {pc, pc'} \cap {"down", "app_env", "other_env"} = {}
    PROVE  EnvInv'
<1>1. Decided' = Decided /\ \A s, n : Says(s, n)' = Says(s, n)
  BY DEF Decided, Says
<1> QED BY <1>1 DEF EnvInv

\* The process's invariant: its types, where the environment comes from, what
\* the project cache holds, and that nothing is served without the endpoint.
THEOREM BootSafety == Spec => []BootInv
<1> USE BootAssumption
<1>1. Init => BootInv
  BY DEF Init, Unset, BootInv, TypeOK, EnvInv, ProjectInv, UrlInv, Stage, Early, Token
<1>2. BootInv /\ [Next]_vars => BootInv'
  <2> SUFFICES ASSUME BootInv, [Next]_vars PROVE BootInv'
    OBVIOUS
  <2> USE DEF Stage, Early, Token
  <2>0. TypeOK /\ EnvInv /\ ProjectInv /\ UrlInv
    BY DEF BootInv
  <2>a. {"process", "appFile", "otherFile"} \subseteq Source
    BY DEF Source
  <2>1. CASE Start
    <3>1. \A n \in Names : env'[n] = Says("process", n)
      BY <2>1 DEF Start
    <3>2. env' \in [Names -> {"unset", "blank"} \cup Source]
      BY <2>0, <2>1, <2>a, SaysType DEF Start
    <3>3. TypeOK'
      BY <2>0, <2>1, <3>2 DEF Start, memory, TypeOK
    <3>4. EnvInv'
      BY <2>1, <3>1 DEF Start, EnvInv, Says
    <3> QED BY <2>0, <2>1, <3>3, <3>4 DEF Start, memory, BootInv, ProjectInv, UrlInv
  <2>2. CASE LoadAppFile
    <3>1. TypeOK'
      BY <2>0, <2>2, <2>a, LoadedType DEF LoadAppFile, memory, TypeOK
    <3>2. ASSUME NEW n \in Names
          PROVE  env'[n] = IF given["process"][n] # "unset"
                           THEN Says("process", n) ELSE Says("appFile", n)
      <4>1. env[n] = Says("process", n)
        BY <2>0, <2>2 DEF LoadAppFile, EnvInv
      <4>2. env'[n] = IF env[n] = "unset" THEN Says("appFile", n) ELSE env[n]
        BY <2>2 DEF LoadAppFile, Loaded
      <4> QED BY <2>0, <2>a, <4>1, <4>2, SaysType
    <3>3. EnvInv'
      BY <2>2, <3>2 DEF LoadAppFile, EnvInv, Says
    <3> QED BY <2>0, <2>2, <3>1, <3>3
              DEF LoadAppFile, memory, BootInv, ProjectInv, UrlInv
  <2>3. CASE LoadOtherFile
    <3>1. TypeOK'
      BY <2>0, <2>3, <2>a, LoadedType DEF LoadOtherFile, memory, TypeOK
    <3>2. ASSUME NEW n \in Names PROVE env'[n] = Decided[n]
      <4>1. env[n] = IF given["process"][n] # "unset"
                     THEN Says("process", n) ELSE Says("appFile", n)
        BY <2>0, <2>3 DEF LoadOtherFile, EnvInv
      <4>2. env'[n] = IF env[n] = "unset" THEN Says("otherFile", n) ELSE env[n]
        BY <2>3 DEF LoadOtherFile, Loaded
      <4> QED BY <2>0, <2>a, <4>1, <4>2, SaysType DEF Decided
    <3>3. env' = Decided
      BY <2>3, <3>2 DEF LoadOtherFile, Loaded, Decided
    <3>4. Decided' = Decided
      BY <2>3 DEF LoadOtherFile, Decided, Says
    <3>5. EnvInv'
      BY <2>3, <3>3, <3>4 DEF LoadOtherFile, EnvInv
    <3> QED BY <2>0, <2>3, <3>1, <3>5
              DEF LoadOtherFile, memory, BootInv, ProjectInv, UrlInv
  <2>4. CASE BindMcp
    <3>1. TypeOK'
      BY <2>0, <2>4 DEF BindMcp, TypeOK
    <3>2. EnvInv'
      BY <2>0, <2>4, EnvKept DEF BindMcp
    <3> QED BY <2>0, <2>4, <3>1, <3>2 DEF BindMcp, BootInv, ProjectInv, UrlInv, FirstEnv
  <2>5. CASE BindMcpRaises \/ BindDataAgent
    <3>1. TypeOK'
      BY <2>0, <2>5 DEF BindMcpRaises, BindDataAgent, memory, TypeOK
    <3>2. EnvInv'
      BY <2>0, <2>5, EnvKept DEF BindMcpRaises, BindDataAgent
    <3> QED BY <2>0, <2>5, <3>1, <3>2
          DEF BindMcpRaises, BindDataAgent, memory, BootInv, ProjectInv, UrlInv, FirstEnv
  <2>6. CASE TelemetryOff
    <3>1. /\ project' \in {Missing} \cup Source \cup AdcProjects
          /\ project # Missing => project' = project
          /\ project' # Missing /\ FirstEnv(env, ProjectNames) # {} =>
                project' \in FirstEnv(env, ProjectNames)
      BY <2>0, <2>6, OutcomesFacts DEF TelemetryOff, TypeOK, ProjectInv
    <3>2. TypeOK'
      BY <2>0, <2>6, <3>1 DEF TelemetryOff, TypeOK
    <3>3. EnvInv'
      BY <2>0, <2>6, EnvKept DEF TelemetryOff
    <3>4. ProjectInv'
      BY <2>0, <2>6, <3>1 DEF TelemetryOff, ProjectInv, FirstEnv
    <3> QED BY <2>0, <2>6, <3>2, <3>3, <3>4 DEF TelemetryOff, BootInv, UrlInv, FirstEnv
  <2>7. CASE TelemetryOn \/ ToolCall
    <3>1. PICK p \in ProjectOutcomes \ {Missing} : project' = p /\ used' = used \cup {p}
      BY <2>7 DEF TelemetryOn, ToolCall
    <3>2. /\ p \in Source \cup AdcProjects
          /\ used \subseteq {p}
          /\ FirstEnv(env, ProjectNames) # {} => p \in FirstEnv(env, ProjectNames)
      BY <2>0, <3>1, OutcomesFacts DEF ProjectInv
    <3>3. TypeOK'
      BY <2>0, <2>7, <3>1, <3>2 DEF TelemetryOn, ToolCall, TypeOK
    <3>4. EnvInv'
      BY <2>0, <2>7, EnvKept DEF TelemetryOn, ToolCall
    <3>5. ProjectInv'
      BY <2>0, <2>7, <3>1, <3>2 DEF TelemetryOn, ToolCall, ProjectInv, FirstEnv
    <3> QED BY <2>0, <2>7, <3>3, <3>4, <3>5
              DEF TelemetryOn, ToolCall, BootInv, UrlInv, FirstEnv
  <2>8. CASE Announce
    <3>1. project' = project /\ pc' = "surfaces"
      BY <2>0, <2>8, OutcomesFacts DEF Announce, ProjectInv
    <3>2. TypeOK'
      BY <2>0, <2>8, <3>1 DEF Announce, TypeOK
    <3>3. EnvInv'
      BY <2>0, <2>8, <3>1, EnvKept DEF Announce
    <3> QED BY <2>0, <2>8, <3>1, <3>2, <3>3 DEF Announce, BootInv, ProjectInv, UrlInv, FirstEnv
  <2>9. CASE BuildSurfaces
    <3>1. env' = env
      BY <2>0, <2>9, SecondLoad DEF BuildSurfaces, EnvInv
    <3>2. TypeOK'
      BY <2>0, <2>9, <3>1 DEF BuildSurfaces, memory, TypeOK
    <3>3. EnvInv'
      BY <2>0, <2>9, <3>1, EnvKept DEF BuildSurfaces
    <3> QED BY <2>0, <2>9, <3>1, <3>2, <3>3
              DEF BuildSurfaces, memory, BootInv, ProjectInv, UrlInv, FirstEnv
  <2>10. CASE McpCall \/ TokenExpires \/ UNCHANGED vars
    <3>1. TypeOK'
      BY <2>0, <2>10 DEF McpCall, TokenExpires, vars, TypeOK
    <3>2. EnvInv'
      BY <2>0, <2>10, EnvKept DEF McpCall, TokenExpires, vars
    <3> QED BY <2>0, <2>10, <3>1, <3>2
          DEF McpCall, TokenExpires, vars, BootInv, ProjectInv, UrlInv, FirstEnv
  <2>11. CASE Stop
    BY <2>0, <2>11 DEF Stop, Unset, BootInv, TypeOK, EnvInv, ProjectInv, UrlInv
  <2> QED BY <2>1, <2>2, <2>3, <2>4, <2>5, <2>6, <2>7, <2>8, <2>9, <2>10, <2>11 DEF Next
<1> QED BY <1>1, <1>2, PTL DEF Spec

\* One project per process: what is in use is what the cache holds.
THEOREM OneProject == Spec => []OneProjectPerProcess
<1>1. BootInv => OneProjectPerProcess
  BY DEF BootInv, ProjectInv, OneProjectPerProcess
<1> QED BY <1>1, BootSafety, PTL

\* A configured project is the one every process of the deployment works with.
THEOREM FixedProject == Spec => []DeploymentFixesProject
<1>1. BootInv => DeploymentFixesProject
  <2> SUFFICES ASSUME BootInv, FirstEnv(Decided, ProjectNames) # {},
                      NEW p \in used
               PROVE  p \in FirstEnv(Decided, ProjectNames)
    BY DEF DeploymentFixesProject
  <2>1. p = project /\ project # Missing
    BY DEF BootInv, ProjectInv
  <2>2. env = Decided
    BY <2>1 DEF BootInv, ProjectInv, EnvInv, Early
  <2> QED BY <2>1, <2>2 DEF BootInv, ProjectInv
<1> QED BY <1>1, BootSafety, PTL

\* Telemetry does not end the start of the process: the project is cached by
\* the time it is asked for outside the try block.
THEOREM TelemetrySafe == Spec => TelemetryNeverFatal
<1> DEFINE A == (pc \in {"telemetry", "announce"}) => pc' # "failed"
<1>1. BootInv /\ [Next]_vars => [A]_vars
  <2> SUFFICES ASSUME BootInv, Next, pc \in {"telemetry", "announce"}
               PROVE  pc' # "failed"
    OBVIOUS
  <2>1. CASE Announce
    <3>1. ProjectOutcomes = {project} /\ project # Missing
      BY <2>1 DEF Announce, BootInv, ProjectInv, ProjectOutcomes
    <3> QED BY <2>1, <3>1 DEF Announce
  <2> QED BY <2>1
        DEF Next, Start, LoadAppFile, LoadOtherFile, BindMcp, BindMcpRaises,
            BindDataAgent, TelemetryOff, TelemetryOn, BuildSurfaces, ToolCall,
            McpCall, TokenExpires, Stop
<1> QED BY <1>1, BootSafety, PTL DEF Spec, TelemetryNeverFatal
=============================================================================
