---------------------------- MODULE SessionEvents ----------------------------
(***************************************************************************)
(* The event stream of a session (GET /api/sessions/{sid}/events) beside   *)
(* the service: a generator that reads the session, composes an event from *)
(* what it read and what the engine's jobs say by then, sends it, and      *)
(* polls again after a second until the session it has sent has ended.     *)
(* Sessions are not deleted here, so the session is always found.          *)
(***************************************************************************)
EXTENDS Sessions

CONSTANTS Watched,        \* sessions whose events somebody follows
          FollowTo        \* bound: while the process has not ended more often

ASSUME EventsAssumption == Watched \subseteq Session /\ FollowTo \in Nat

VARIABLES
  watch,     \* the generator of each session: "none", "sleep", "compose", "closed"
  read,      \* at "compose", what the database said: status and rows
  last       \* what the last event of a closed stream showed as under way

eventVars == <<watch, read, last>>
allVars   == <<vars, eventVars>>

NothingRead == [status |-> "none", rows |-> {}, act |-> {}]

EventInit ==
  /\ Init
  /\ watch = [s \in Session |-> "none"]
  /\ read  = [s \in Session |-> NothingRead]
  /\ last  = [s \in Session |-> {}]

(* get_session: the row of the session with its assignments; the query for *)
(* its artifacts is still to come.                                         *)
FromDatabase(s) ==
  [status |-> sess[s], rows |-> Rows(s), act |-> {a \in Rows(s) : row[a] \in Active}]

(* _assignment_out: the state of a live job goes before that of its row.   *)
UnderWay(s) ==
  {a \in read[s].rows : IF job[a] = "absent" THEN a \in read[s].act
                                             ELSE job[a] \in Active}

Follow(s) ==
  /\ up = "up" /\ s \in Watched /\ watch[s] = "none" /\ exits <= FollowTo
  /\ watch' = [watch EXCEPT ![s] = "sleep"]
  /\ UNCHANGED <<vars, read, last>>

Poll(s) ==
  /\ watch[s] = "sleep"
  /\ watch' = [watch EXCEPT ![s] = "compose"]
  /\ read'  = [read EXCEPT ![s] = FromDatabase(s)]
  /\ UNCHANGED <<vars, last>>

(* Mutants of Send: the event takes its captures from the rows alone and   *)
(* its end from the session as it is when sent; only done ends the stream. *)
SendRowsOnly(s) ==
  /\ watch[s] = "compose"
  /\ read' = [read EXCEPT ![s] = NothingRead]
  /\ \/ /\ sess[s] \in Terminal
        /\ watch' = [watch EXCEPT ![s] = "closed"]
        /\ last'  = [last EXCEPT ![s] = read[s].act]
     \/ /\ sess[s] \notin Terminal
        /\ watch' = [watch EXCEPT ![s] = "sleep"]
        /\ UNCHANGED last
  /\ UNCHANGED vars

SendUntilDone(s) ==
  /\ watch[s] = "compose"
  /\ read' = [read EXCEPT ![s] = NothingRead]
  /\ \/ /\ read[s].status = "done"
        /\ watch' = [watch EXCEPT ![s] = "closed"]
        /\ last'  = [last EXCEPT ![s] = UnderWay(s)]
     \/ /\ read[s].status # "done"
        /\ watch' = [watch EXCEPT ![s] = "sleep"]
        /\ UNCHANGED last
  /\ UNCHANGED vars

Send(s) ==
  /\ watch[s] = "compose"
  /\ read' = [read EXCEPT ![s] = NothingRead]
  /\ \/ /\ read[s].status \in Terminal
        /\ watch' = [watch EXCEPT ![s] = "closed"]
        /\ last'  = [last EXCEPT ![s] = UnderWay(s)]
     \/ /\ read[s].status \notin Terminal
        /\ watch' = [watch EXCEPT ![s] = "sleep"]
        /\ UNCHANGED last
  /\ UNCHANGED vars

EventStep(s) == Poll(s) \/ Send(s)

(* A step of the service. A process that ends takes the streams with it,   *)
(* and the server, asked to stop, waits for those that are open.           *)
ServiceStep ==
  /\ Next
  /\ up = "up" /\ up' = "closing" =>
       \A s \in Session : watch[s] \in {"none", "closed"}
  /\ \/ up' = "down" /\ up # "down"
        /\ watch' = [s \in Session |-> "none"]
        /\ read'  = [s \in Session |-> NothingRead]
        /\ last'  = [s \in Session |-> {}]
     \/ (up' = "down" => up = "down") /\ UNCHANGED eventVars

EventNext == ServiceStep \/ \E s \in Session : Follow(s) \/ EventStep(s)

EventSpec == EventInit /\ [][EventNext]_allVars

(* The generator runs on: its queries return and its client takes what is  *)
(* sent, as the service itself does under Fairness.                        *)
EventFairSpec ==
  /\ EventSpec
  /\ Fairness
  /\ \A s \in Session : WF_allVars(EventStep(s))

-----------------------------------------------------------------------------
(* While requests do not overlap, the last event of a stream, after which  *)
(* the client hears nothing more, shows no capture under way.              *)
LastEventQuiet ==
  \A s \in Session : watch[s] = "closed" => last[s] = {}

(* Who follows a session that was started hears its end, unless the stream *)
(* breaks with the process, an edit overlapped the start, or a stop        *)
(* overwrote the outcome (see RunningEnds).                                *)
StreamsEnd ==
  \A s \in Session :
    watch[s] = "sleep" /\ sess[s] # "draft" ~>
      watch[s] \in {"none", "closed"} \/ s \in edited \cup reopened
=============================================================================
