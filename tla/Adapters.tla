------------------------------- MODULE Adapters -------------------------------
(***************************************************************************)
(* The controller adapters: how a request of SmartZoneAdapter or of        *)
(* RuckusOneAdapter finds a ticket (a token, in Ruckus One's words), and   *)
(* what it does when the controller refuses the one it sent.               *)
(*                                                                         *)
(* An adapter lives as long as the capture or the session that made it, so *)
(* tickets expire between its calls and during them. The controller is     *)
(* outside the repository: it carries out a request whose ticket it        *)
(* accepts when the request arrives, refuses the others with 401, and may  *)
(* answer any with another error, having carried it out or not. A request  *)
(* that was given up may still be carried out.                             *)
(***************************************************************************)
EXTENDS Naturals

CONSTANT Call     \* the requests made through one adapter

VARIABLES
  kind,      \* which of the two adapters
  ticket,    \* _ticket, _token: none, or whether the controller accepts it
  expired,   \* time.monotonic() has passed _token_exp - 30
  fresh,     \* the cached ticket was issued during the call under way
  pc,        \* the await the call is suspended at
  retried,   \* the call has forgotten its ticket once
  answer,    \* what the controller has answered the awaited request
  abandoned, \* requests given up before the controller had seen them
  result,    \* how each call came back
  effects    \* how often the controller carried each call out

ticketVars == <<ticket, expired, fresh>>
vars == <<kind, ticketVars, pc, retried, answer, abandoned, result, effects>>

Under(c) == result[c] = "asked"

Init ==
  /\ kind \in {"sz", "r1"}
  /\ ticket = "none" /\ expired = FALSE /\ fresh = FALSE
  /\ pc = "idle" /\ retried = FALSE /\ answer = "none"
  /\ abandoned = {}
  /\ result  = [c \in Call |-> "none"]
  /\ effects = [c \in Call |-> 0]

Return(c, r) ==
  /\ result' = [result EXCEPT ![c] = r]
  /\ pc' = "idle"
  /\ answer' = "none"

Request(c) ==
  /\ pc = "idle" /\ result[c] = "none"
  /\ result' = [result EXCEPT ![c] = "asked"]
  /\ pc' = "ticket"
  /\ retried' = FALSE /\ fresh' = FALSE
  /\ UNCHANGED <<kind, ticket, expired, answer, abandoned, effects>>

-----------------------------------------------------------------------------
(* _ticket_param and _bearer: SmartZone's ticket is used until it is       *)
(* refused, Ruckus One's until it is about to expire by the caller's clock.*)

HasTicket == ticket # "none"
HasBearer == ticket # "none" /\ ~expired

Holds == (kind = "sz" /\ HasTicket) \/ (kind = "r1" /\ HasBearer)

Send(c) ==
  /\ pc = "ticket" /\ Under(c) /\ Holds
  /\ pc' = "sent"
  /\ UNCHANGED <<kind, ticketVars, retried, answer, abandoned, result, effects>>

(* Logging in replaces whatever was cached; a refused, unreadable or lost  *)
(* login raises and leaves it.                                             *)
LoggedIn(c) ==
  /\ pc = "ticket" /\ Under(c) /\ ~Holds
  /\ ticket' = "good" /\ expired' = FALSE /\ fresh' = TRUE
  /\ pc' = "sent"
  /\ UNCHANGED <<kind, retried, answer, abandoned, result, effects>>

LoginFails(c) ==
  /\ pc = "ticket" /\ Under(c) /\ ~Holds
  /\ Return(c, "error")
  /\ UNCHANGED <<kind, ticketVars, retried, abandoned, effects>>

(* Mutants of Refused: the refused ticket stays cached; any error answer   *)
(* is worth a retry.                                                       *)
RefusedKeepsTicket(c) ==
  /\ pc = "sent" /\ Under(c) /\ answer = "401" /\ ~retried
  /\ retried' = TRUE
  /\ pc' = "ticket" /\ answer' = "none"
  /\ UNCHANGED <<kind, ticketVars, abandoned, result, effects>>

RefusedOrFailed(c) ==
  /\ pc = "sent" /\ Under(c) /\ answer \in {"401", "error"} /\ ~retried
  /\ ticket' = "none" /\ fresh' = FALSE
  /\ retried' = TRUE
  /\ pc' = "ticket" /\ answer' = "none"
  /\ UNCHANGED <<kind, expired, abandoned, result, effects>>

(* 401: the ticket is forgotten and the same request made once more.       *)
Refused(c) ==
  /\ pc = "sent" /\ Under(c) /\ answer = "401" /\ ~retried
  /\ ticket' = "none" /\ fresh' = FALSE
  /\ retried' = TRUE
  /\ pc' = "ticket" /\ answer' = "none"
  /\ UNCHANGED <<kind, expired, abandoned, result, effects>>

RefusedAgain(c) ==
  /\ pc = "sent" /\ Under(c) /\ answer = "401" /\ retried
  /\ Return(c, "denied")
  /\ UNCHANGED <<kind, ticketVars, retried, abandoned, effects>>

(* Any other answer of 400 or more raises; so does a body that is no JSON. *)
Answered(c) ==
  /\ pc = "sent" /\ Under(c) /\ answer \in {"ok", "error"}
  /\ \E r \in {answer, "error"} : Return(c, r)
  /\ UNCHANGED <<kind, ticketVars, retried, abandoned, effects>>

(* The request's time limit, or a broken connection: httpx raises, and     *)
(* nothing is tried again.                                                 *)
Lost(c) ==
  /\ pc = "sent" /\ Under(c)
  /\ Return(c, "lost")
  /\ abandoned' = IF answer = "none" /\ ticket = "good"
                    THEN abandoned \cup {c} ELSE abandoned
  /\ UNCHANGED <<kind, ticketVars, retried, effects>>

-----------------------------------------------------------------------------
(* The controller, and time.                                               *)

Handled(c) ==
  /\ pc = "sent" /\ Under(c) /\ answer = "none"
  /\ \/ ticket = "bad"  /\ answer' = "401" /\ UNCHANGED effects
     \/ ticket = "good" /\ answer' \in {"ok", "error"}
                        /\ effects' = [effects EXCEPT ![c] = @ + 1]
     \/ ticket = "good" /\ answer' = "error" /\ UNCHANGED effects
  /\ UNCHANGED <<kind, ticketVars, pc, retried, abandoned, result>>

HandledLate(c) ==
  /\ c \in abandoned
  /\ abandoned' = abandoned \ {c}
  /\ effects' = [effects EXCEPT ![c] = @ + 1]
  /\ UNCHANGED <<kind, ticketVars, pc, retried, answer, result>>

Revoke ==
  /\ ticket = "good"
  /\ ticket' = "bad"
  /\ UNCHANGED <<kind, expired, fresh, pc, retried, answer, abandoned, result, effects>>

Expire ==
  /\ kind = "r1" /\ ticket # "none" /\ ~expired
  /\ expired' = TRUE
  /\ UNCHANGED <<kind, ticket, fresh, pc, retried, answer, abandoned, result, effects>>

Closed ==
  /\ pc = "idle" /\ \A c \in Call : result[c] # "none"
  /\ UNCHANGED vars

CallStep(c) ==
  \/ Send(c) \/ LoggedIn(c) \/ LoginFails(c)
  \/ Refused(c) \/ RefusedAgain(c) \/ Answered(c) \/ Lost(c)

Next ==
  \/ \E c \in Call : Request(c) \/ CallStep(c) \/ Handled(c) \/ HandledLate(c)
  \/ Revoke \/ Expire
  \/ Closed

Spec == Init /\ [][Next]_vars

(* Every request has a time limit (25 s, 20 s), so each await ends.        *)
FairSpec == Spec /\ \A c \in Call : WF_vars(CallStep(c))

-----------------------------------------------------------------------------
(* Every variable ranges over what the code and the controller store in it.*)
TypeOK ==
  /\ kind \in {"sz", "r1"}
  /\ ticket \in {"none", "good", "bad"}
  /\ expired \in BOOLEAN /\ fresh \in BOOLEAN /\ retried \in BOOLEAN
  /\ pc \in {"idle", "ticket", "sent"}
  /\ answer \in {"none", "ok", "error", "401"}
  /\ abandoned \subseteq Call
  /\ result \in [Call -> {"none", "asked", "ok", "error", "denied", "lost"}]
  /\ effects \in [Call -> Nat]

(* A ticket that expired between two calls, or under way, is never the     *)
(* reason for a failure: a call is denied only for a ticket that the       *)
(* controller issued during that very call.                                *)
StaleTicketRenewed ==
  [][\A c \in Call : result'[c] = "denied" => result[c] = "denied" \/ fresh]_vars

(* With all its tickets and retries, a call is what its callers take it    *)
(* for: carried out at most once, truly answered, and answered in the end. *)
Calls == INSTANCE ControllerCall
ImplementsCall == Calls!CallSpec

-----------------------------------------------------------------------------
(* The inductive invariant of AdaptersProofs: what has been carried out    *)
(* follows from where the call is, and a second try has a new ticket.      *)
OneAtATime ==
  /\ \A c, d \in Call : Under(c) /\ Under(d) => c = d
  /\ pc = "idle" => \A c \in Call : ~Under(c)
  /\ pc # "sent" => answer = "none"
  /\ pc = "sent" => ticket # "none"

Carried(c) ==
  /\ effects[c] \in {0, 1}
  /\ effects[c] = 1 =>
       \/ Under(c) /\ answer \in {"ok", "error"}
       \/ result[c] \in {"ok", "error", "lost"}
  /\ Under(c) /\ answer = "ok" => effects[c] = 1
  /\ result[c] = "ok" => effects[c] = 1
  /\ c \in abandoned => result[c] = "lost" /\ effects[c] = 0

SecondTicketNew == retried /\ pc # "idle" => ticket = "none" \/ fresh

CallInv == TypeOK /\ OneAtATime /\ SecondTicketNew /\ \A c \in Call : Carried(c)
=============================================================================
