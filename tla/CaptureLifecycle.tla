-------------------------- MODULE CaptureLifecycle --------------------------
(***************************************************************************)
(* What the capture engine promises to everything that reads a             *)
(* CaptureStatus: the session sync loop, the SSE stream, the UI.           *)
(* Both back ends (SshEngine, SzEngine) are shown to implement this.       *)
(*                                                                         *)
(*   pending -> configuring -> capturing -> finalizing -> done             *)
(*                                                                         *)
(* with confirming_radio and awaiting_wireshark as optional stops, failed  *)
(* reachable from every started state, and nothing after done or failed    *)
(* except the sidecar, which is written at most once and records the       *)
(* state the capture ended in.                                             *)
(***************************************************************************)

CONSTANT Job            \* capture ids

VARIABLES state,        \* CaptureJob.state, or "absent" before Engine.start
          ended,        \* ended_at is set
          sidecar       \* the state recorded in <id>.json, or "none"

lifecycleVars == <<state, ended, sidecar>>

Terminal == {"done", "failed"}

Active == {"pending", "configuring", "confirming_radio",
           "awaiting_wireshark", "capturing", "finalizing"}

(* The states a capture may move to while it stays active.                 *)
Succ(s) ==
  CASE s = "absent"             -> {"pending"}
    [] s = "pending"            -> {"configuring"}
    [] s = "configuring"        -> {"confirming_radio", "awaiting_wireshark",
                                    "capturing"}
    [] s = "confirming_radio"   -> {"capturing"}
    [] s = "awaiting_wireshark" -> {"capturing", "finalizing"}
    [] s = "capturing"          -> {"finalizing"}
    [] OTHER                    -> {}

(* The states a capture may end in.                                        *)
Endings(s) ==
  CASE s = "finalizing" -> {"done", "failed"}
    [] s \in {"configuring", "confirming_radio", "awaiting_wireshark",
              "capturing"} -> {"failed"}
    [] OTHER -> {}

LifecycleInit ==
  /\ state   = [j \in Job |-> "absent"]
  /\ ended   = [j \in Job |-> FALSE]
  /\ sidecar = [j \in Job |-> "none"]

Progress(j) ==
  /\ \E s \in Succ(state[j]) : state' = [state EXCEPT ![j] = s]
  /\ UNCHANGED <<ended, sidecar>>

(* The last transition; the sidecar is written in the same step or later.  *)
End(j) ==
  /\ \E s \in Endings(state[j]) :
       /\ state' = [state EXCEPT ![j] = s]
       /\ \/ sidecar' = [sidecar EXCEPT ![j] = s]
          \/ UNCHANGED sidecar
  /\ ended' = [ended EXCEPT ![j] = TRUE]

Record(j) ==
  /\ state[j] \in Terminal
  /\ sidecar[j] = "none"
  /\ sidecar' = [sidecar EXCEPT ![j] = state[j]]
  /\ UNCHANGED <<state, ended>>

LifecycleNext == \E j \in Job : Progress(j) \/ End(j) \/ Record(j)

LifecycleSpec == LifecycleInit /\ [][LifecycleNext]_lifecycleVars
=============================================================================
