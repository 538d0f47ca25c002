-------------------------- MODULE MCServerShutdown --------------------------
(***************************************************************************)
(* Bounds for ServerShutdown: one task that reaches every member and one   *)
(* that reaches the metrics only, either of them scheduled late enough to  *)
(* be still queued, or running, while the server is being destroyed.       *)
(***************************************************************************)
EXTENDS ServerShutdown, TLC

CONSTANTS t1, t2

MCUses == (t1 :> Member) @@ (t2 :> {"metrics_"})
=============================================================================
