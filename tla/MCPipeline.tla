----------------------------- MODULE MCPipeline -----------------------------
(***************************************************************************)
(* Pipeline with a starting point: three tasks, one row of the query and   *)
(* up to three later messages of two kinds.                                *)
(***************************************************************************)
EXTENDS Pipeline

CONSTANTS a, b

MCHistory == <<a>>
=============================================================================
