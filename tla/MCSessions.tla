----------------------------- MODULE MCSessions -----------------------------
(***************************************************************************)
(* A small instance of Sessions: one session of two assignments, the       *)
(* second of them on a SmartZone access point where the configuration says *)
(* so.                                                                     *)
(***************************************************************************)
EXTENDS SessionEvents

CONSTANTS s1,             \* session
          a1, a2,         \* its assignments
          r1, r2          \* requests

MCSessOf == [a \in Assignment |-> s1]
=============================================================================
