------------------------------- MODULE Discovery -------------------------------
(***************************************************************************)
(* How the SmartZone back end finds the monitor tap of the radio it has    *)
(* made stream: the rounds of _sz_stream, each a discover_monitor_iface,   *)
(* which lists the access point's interfaces and opens one after the other *)
(* until one is radiotap. The tap comes up some time after the start       *)
(* request has been answered; any connection may fail.                     *)
(***************************************************************************)
EXTENDS Naturals, SequencesExt, Subsequence

CONSTANTS Name,       \* interface names
          Known,      \* wlan100, wlan101, wlan102
          Skipped,    \* names with a prefix that is never a monitor tap
          MaxListed,  \* bound on the interfaces a reply lists
          Rounds      \* bound on the rounds (8 in the code)

NamesAssumption ==
  /\ Known \in Seq(Name) /\ Skipped \subseteq Name
  /\ MaxListed \in Nat /\ Rounds \in Nat \ {0}

VARIABLES
  round,   \* rounds begun
  phase,   \* "wait", "list", "probe", "found", "nothing"
  left,    \* the names still to be opened in this round
  stop,    \* the stop event
  tap,     \* the name of the streamed radio's tap on this model
  tapUp,   \* the access point offers it
  owed     \* history: the tap has been there all round, and within reach

scanVars == <<round, phase, left>>
vars == <<scanVars, stop, tap, tapUp, owed>>

Init ==
  /\ round = 0 /\ phase = "wait" /\ left = << >>
  /\ stop = FALSE
  /\ tap \in Name \ Skipped /\ tapUp = FALSE /\ owed = FALSE

(* A second's sleep, then the stop flag, then a scan in a thread.          *)
NextRound ==
  /\ phase = "wait" /\ round < Rounds /\ ~stop
  /\ round' = round + 1 /\ phase' = "list"
  /\ owed' = tapUp
  /\ UNCHANGED <<left, stop, tap, tapUp>>

(* Nothing in all rounds, or stopped: _sz_stream raises.                   *)
GivesUp ==
  /\ phase = "wait"
  /\ stop \/ round = Rounds
  /\ phase' = "nothing"
  /\ UNCHANGED <<round, left, stop, tap, tapUp, owed>>

(* The known names first, then those listed, each once; some never.        *)
Candidates(found) ==
  LET all == Known \o found
  IN  AtPositions(all, {i \in DOMAIN all : /\ all[i] \notin Skipped
                                          /\ \A j \in 1..i-1 : all[j] # all[i]})

(* The reply to FINDALLIF: any names, among them the tap if it is there;   *)
(* a reply that fails is an empty one.                                     *)
Lists ==
  /\ phase = "list"
  /\ \E found \in BoundedSeq(Name, MaxListed) :
       /\ left' = Candidates(found)
       /\ owed' = (owed /\ (Contains(found, tap) \/ Contains(Known, tap)))
  /\ phase' = "probe"
  /\ UNCHANGED <<round, stop, tap, tapUp>>

(* Mutant of OpenFails: an interface that cannot be opened ends the round. *)
OpenFailsScan ==
  /\ phase = "probe" /\ left # << >>
  /\ left' = << >>
  /\ owed' = (owed /\ Head(left) # tap)
  /\ UNCHANGED <<round, phase, stop, tap, tapUp>>

OpenFails ==
  /\ phase = "probe" /\ left # << >>
  /\ left' = Tail(left)
  /\ owed' = (owed /\ Head(left) # tap)
  /\ UNCHANGED <<round, phase, stop, tap, tapUp>>

(* The link type of what was opened decides.                               *)
OpensOther ==
  /\ phase = "probe" /\ left # << >> /\ Head(left) # tap
  /\ left' = Tail(left)
  /\ UNCHANGED <<round, phase, stop, tap, tapUp, owed>>

OpensTap ==
  /\ phase = "probe" /\ left # << >> /\ Head(left) = tap /\ tapUp
  /\ phase' = "found" /\ left' = << >> /\ round' = 0 /\ owed' = FALSE
  /\ UNCHANGED <<stop, tap, tapUp>>

RoundOver ==
  /\ phase = "probe" /\ left = << >>
  /\ phase' = "wait"
  /\ UNCHANGED <<round, left, stop, tap, tapUp, owed>>

TapComes ==
  /\ ~tapUp /\ phase \in {"wait", "list", "probe"}
  /\ tapUp' = TRUE
  /\ UNCHANGED <<scanVars, stop, tap, owed>>

TapGoes ==
  /\ tapUp /\ phase \in {"wait", "list", "probe"}
  /\ tapUp' = FALSE /\ owed' = FALSE
  /\ UNCHANGED <<scanVars, stop, tap>>

Stop ==
  /\ ~stop
  /\ stop' = TRUE
  /\ UNCHANGED <<scanVars, tap, tapUp, owed>>

ScanStep == NextRound \/ GivesUp \/ Lists \/ OpenFails \/ OpensOther
            \/ OpensTap \/ RoundOver

Next == ScanStep \/ TapComes \/ TapGoes \/ Stop

Spec == Init /\ [][Next]_vars

-----------------------------------------------------------------------------
(* A tap that is there from the beginning of a round to its end, that the  *)
(* code knows or was told of, and that lets itself be opened, is found in  *)
(* that round, whatever becomes of the listing and the other interfaces.   *)
TapFound == phase \in {"wait", "nothing"} => ~owed
=============================================================================
