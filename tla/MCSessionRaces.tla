--------------------------- MODULE MCSessionRaces ---------------------------
(***************************************************************************)
(* An instance of Sessions whose requests overlap: a session of two        *)
(* assignments, and MaxRequests requests in all (a bound), of which as     *)
(* many are in progress at a time as there are names for them. Somebody    *)
(* who follows the session does so once it has been started.               *)
(***************************************************************************)
EXTENDS SessionEvents

CONSTANTS s1,             \* session
          a1, a2,         \* its assignments
          r1, r2,         \* requests
          MaxRequests     \* bound on how many are made

VARIABLE made             \* how many have been

MCSessOf == [a \in Assignment |-> s1]

Received == {r \in Request : req[r] = NoRequest /\ req'[r] # NoRequest}

MCInit == EventInit /\ made = 0

MCNext ==
  /\ EventNext
  /\ made' = made + Cardinality(Received)
  /\ made' <= MaxRequests
  /\ \A s \in Session : watch'[s] # watch[s] => sess[s] # "draft"

MCSpec ==
  /\ MCInit /\ [][MCNext]_<<allVars, made>>
  /\ Fairness
  /\ \A s \in Session : WF_allVars(EventStep(s))
=============================================================================
