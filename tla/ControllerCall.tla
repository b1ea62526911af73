---------------------------- MODULE ControllerCall ----------------------------
(***************************************************************************)
(* What one request of a controller adapter promises its caller, whatever  *)
(* tickets and retries are behind it: the request is carried out at most   *)
(* once, an answer is true, and every call comes back. A call that was     *)
(* lost on the way may yet be carried out after its caller has gone on.    *)
(***************************************************************************)
EXTENDS Naturals

CONSTANT Call       \* the requests a session or a capture makes in its life

VARIABLES result,   \* none, asked, or how the call came back
          effects   \* how often the controller carried it out

callVars == <<result, effects>>

Answers == {"ok", "error", "denied", "lost"}

CallInit ==
  /\ result  = [c \in Call |-> "none"]
  /\ effects = [c \in Call |-> 0]

(* One coroutine owns the adapter: a call at a time.                       *)
Ask(c) ==
  /\ result[c] = "none"
  /\ \A d \in Call : result[d] # "asked"
  /\ result' = [result EXCEPT ![c] = "asked"]
  /\ UNCHANGED effects

CarryOut(c) ==
  /\ result[c] \in {"asked", "lost"}
  /\ effects[c] = 0
  /\ effects' = [effects EXCEPT ![c] = 1]
  /\ UNCHANGED result

Answer(c) ==
  /\ result[c] = "asked"
  /\ \E a \in Answers :
       /\ a = "ok"     => effects[c] = 1
       /\ a = "denied" => effects[c] = 0
       /\ result' = [result EXCEPT ![c] = a]
  /\ UNCHANGED effects

CallNext == \E c \in Call : Ask(c) \/ CarryOut(c) \/ Answer(c)

CallSafe == CallInit /\ [][CallNext]_callVars

CallSpec == CallSafe /\ \A c \in Call : WF_callVars(Answer(c))
=============================================================================
