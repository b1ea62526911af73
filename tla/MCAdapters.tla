------------------------------ MODULE MCAdapters ------------------------------
(***************************************************************************)
(* Three calls through one adapter of either kind: enough for a ticket to  *)
(* be fetched, to expire between calls and within one, and for a request   *)
(* that was given up to be carried out during a later call.                *)
(***************************************************************************)
EXTENDS Adapters

CONSTANTS r1, r2, r3
=============================================================================
