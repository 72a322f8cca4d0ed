---------------------------- MODULE MCOperators ----------------------------
(***************************************************************************)
(* Operators over every bounded input.  A family are the variables that    *)
(* some getters read together, the others being unset; a table has up to   *)
(* three rows of two documents, three indices and two copies, with every   *)
(* choice of what the search matched.                                      *)
(***************************************************************************)
EXTENDS Operators

\* The families, and the texts a variable of each may say.
MCFamilies ==
    {<<{"GOOGLE_CLOUD_PROJECT", "GOOGLE_CLOUD_AGENT_ENGINE_ID", "APP_URL",
        "GOOGLE_CLOUD_AGENT_ENGINE_LOCATION", "GOOGLE_CLOUD_LOCATION",
        "SESSION_SERVICE_URI"}, {"x", "us-central1"}>>,
     <<{"PROJECT_ID", "GOOGLE_CLOUD_PROJECT", "GCP_PROJECT", "LOCATION",
        "GOOGLE_CLOUD_LOCATION"}, {"x"}>>,
     <<{"MODEL_NAME", "COORDINATOR_MODEL", "REGION", "BQ_TELEMETRY_LOCATION",
        "LOGS_BUCKET_NAME"}, {"x"}>>,
     <<{"BQ_TELEMETRY_DATASET", "TELEMETRY_DATASET_ID", "BQ_TELEMETRY_TABLE",
        "BQ_TELEMETRY_ENABLED"}, {"x", "0", "no"}>>,
     <<{"RAG_SIMILARITY_THRESHOLD", "BQ_MAX_BYTES_BILLED", "TOOL_MAX_RETRIES"},
       {"x", "0", "-1", "3", "0.5", "nan"}>>,
     <<{"DATA_AGENT_ID", "BIGTABLE_INSTANCE", "RAG_DATASET_ID", "RAG_TABLE_ID",
        "RAG_EMBEDDING_ENDPOINT"}, {"x"}>>}

MCText == {"x", "0", "-1", "3", "0.5", "nan", "no", "us-central1"}

MCIntOf ==
    [t \in MCText \cup {Empty, Spaces} |->
        CASE t = "0" -> 0 [] t = "-1" -> -1 [] t = "3" -> 3 [] OTHER -> Malformed]

\* NaN is a number to float(); 1000 stands for it, nothing reaches that gate.
MCFloatOf ==
    [t \in MCText \cup {Empty, Spaces} |->
        CASE t = "0" -> 0 [] t = "-1" -> -20 [] t = "3" -> 60 [] t = "0.5" -> 10
          [] t = "nan" -> 1000 [] OTHER -> Malformed]

MCRow == [doc : {"a", "b"}, index : 1 .. 3, copy : {1, 2}]

MCTables == {{a, b, c} : a, b, c \in MCRow}
=============================================================================
