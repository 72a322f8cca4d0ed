------------------------------- MODULE MCBoot -------------------------------
(***************************************************************************)
(* A small instance of Boot: two of the three project names, one URL name. *)
(***************************************************************************)
EXTENDS Boot

MCProjectNames == <<"PROJECT_ID", "GOOGLE_CLOUD_PROJECT">>
MCUrlNames == <<"BIGTABLE_MCP_URL">>
=============================================================================
