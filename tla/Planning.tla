------------------------------- MODULE Planning -------------------------------
(***************************************************************************)
(* What a session launches, and how it came to be planned: the inventory   *)
(* of targets, the draft built from them by add_assignment, the templates  *)
(* saved from sessions and instantiated into drafts, and start_session,    *)
(* which resolves each assignment against the inventory of that moment.    *)
(*                                                                         *)
(* A target stands for the access point it was created for (the SmartZone  *)
(* backend reaches it by MAC, the SSH backend by address); its address and *)
(* its controller may change. An assignment is the target, the address     *)
(* copied when it was added, and the capture mode. The blank address of an *)
(* access point the controller lists without one is a Host like any other. *)
(***************************************************************************)
EXTENDS Naturals, Sequences, Subsequence

CONSTANTS Target, Host, Session, Template,
          Mode,           \* capture modes; "file" is the default
          MaxPlan,        \* bound on the assignments of a session or template
          MaxAdds,        \* bound on the add_assignment calls under way
          ForeignKeys     \* the database enforces ondelete and references

NoTarget == "none"       \* target_id NULL
NoHost   == "empty"      \* ap_host ""

ASSUME PlanningAssumption ==
  /\ NoTarget \notin Target /\ NoHost \notin Host
  /\ "file" \in Mode
  /\ MaxPlan \in Nat \ {0} /\ MaxAdds \in Nat \ {0}
  /\ ForeignKeys \in BOOLEAN

VARIABLES
  target,    \* each target: where it is, and whether a SmartZone manages it
  status,    \* each session: "none", "draft", "running"
  plan,      \* ... its assignments, in order
  adding,    \* add_assignment calls past their checks, in order
  template,  \* each template's entries; << >> when there is none
  asked,     \* history: the assignments each template was made from
  launched,  \* the captures each session gave the engine
  loose      \* history: a target was given another address or controller, or
             \* a template was posted as a list, or two adds overlapped

inventory == <<target>>
sessions  == <<status, plan, adding>>
templates == <<template, asked>>
vars == <<target, status, plan, adding, template, asked, launched, loose>>

Unborn   == [host |-> NoHost, sz |-> FALSE]
Gone     == [host |-> NoHost, sz |-> TRUE]
Known(t) == t \in Target /\ target[t] \notin {Unborn, Gone}

Init ==
  /\ target   = [t \in Target |-> Unborn]
  /\ status   = [s \in Session |-> "none"]
  /\ plan     = [s \in Session |-> << >>]
  /\ adding   = << >>
  /\ template = [m \in Template |-> << >>]
  /\ asked    = [m \in Template |-> << >>]
  /\ launched = [s \in Session |-> << >>]
  /\ loose    = FALSE

-----------------------------------------------------------------------------
(* The inventory. *)

(* create_target, and the import of a serial number not seen before.       *)
CreateTarget ==
  /\ \E t \in Target, h \in Host, z \in BOOLEAN :
       /\ target[t] = Unborn
       /\ target' = [target EXCEPT ![t] = [host |-> h, sz |-> z]]
  /\ UNCHANGED <<sessions, templates, launched, loose>>

(* update_target, and an import that finds the serial number again: the    *)
(* address and the controller are replaced.                                *)
UpdateTarget ==
  /\ loose' = TRUE
  /\ \E t \in Target, h \in Host, z \in BOOLEAN :
       /\ Known(t)
       /\ target' = [target EXCEPT ![t] = [host |-> h, sz |-> z]]
  /\ UNCHANGED <<sessions, templates, launched>>

Orphaned(p, t) ==
  [i \in DOMAIN p |-> IF p[i].target = t THEN [p[i] EXCEPT !.target = NoTarget] ELSE p[i]]

(* The rows that name it are set to NULL when the database sees to it.     *)
DeleteTarget ==
  /\ \E t \in Target :
       /\ Known(t)
       /\ target' = [target EXCEPT ![t] = Gone]
       /\ plan' = IF ForeignKeys THEN [s \in Session |-> Orphaned(plan[s], t)] ELSE plan
  /\ UNCHANGED <<status, adding, templates, launched, loose>>

(* delete_controller leaves its targets unmanaged.                         *)
DeleteController ==
  /\ \E t \in Target :
       /\ Known(t) /\ target[t].sz
       /\ target' = [target EXCEPT ![t].sz = FALSE]
  /\ UNCHANGED <<sessions, templates, launched, loose>>

-----------------------------------------------------------------------------
(* Building a draft. *)

CreateSession ==
  /\ \E s \in Session :
       /\ status[s] = "none"
       /\ status' = [status EXCEPT ![s] = "draft"]
  /\ UNCHANGED <<inventory, plan, adding, templates, launched, loose>>

(* Mutant of Taken: the target is compared, not its address.               *)
TakenTarget(s, t) == \E i \in DOMAIN plan[s] : plan[s][i].target = t
Taken(s, t)       == \E i \in DOMAIN plan[s] : plan[s][i].host = target[t].host

AddRead ==
  /\ loose' = (loose \/ adding # << >>)
  /\ Len(adding) < MaxAdds
  /\ \E s \in Session, t \in Target, m \in Mode :
       /\ status[s] = "draft"
       /\ Known(t)
       /\ ~Taken(s, t)
       /\ Len(plan[s]) + Len(adding) < MaxPlan
       /\ adding' = Append(adding,
            [session |-> s, row |-> [target |-> t, host |-> target[t].host, mode |-> m]])
  /\ UNCHANGED <<inventory, status, plan, templates, launched>>

(* The insert; a database that checks references refuses a deleted target. *)
AddCommit ==
  /\ adding # << >>
  /\ LET a == Head(adding)
     IN  plan' = IF ForeignKeys /\ ~Known(a.row.target) THEN plan
                 ELSE [plan EXCEPT ![a.session] = Append(@, a.row)]
  /\ adding' = Tail(adding)
  /\ UNCHANGED <<inventory, status, templates, launched, loose>>

Without(p, k) ==
  [i \in 1..Len(p) - 1 |-> IF i < k THEN p[i] ELSE p[i+1]]

DeleteAssignment ==
  /\ \E s \in Session : \E i \in DOMAIN plan[s] :
       /\ status[s] = "draft"
       /\ plan' = [plan EXCEPT ![s] = Without(@, i)]
  /\ UNCHANGED <<inventory, status, adding, templates, launched, loose>>

-----------------------------------------------------------------------------
(* Templates. *)

Kept(p) == AtPositions(p, {i \in DOMAIN p : p[i].target # NoTarget})

(* What the saved entry keeps of an assignment: not its capture mode.      *)
(* Mutant of Entries: in the reverse of the order they were added.         *)
EntriesReversed(p) ==
  LET kept == Kept(p)
  IN  [i \in DOMAIN kept |->
         [target |-> kept[Len(kept) + 1 - i].target, mode |-> "file"]]
Entries(p) ==
  [i \in DOMAIN Kept(p) |-> [target |-> Kept(p)[i].target, mode |-> "file"]]

SaveTemplate ==
  /\ \E m \in Template, s \in Session :
       /\ template[m] = << >>
       /\ plan[s] # << >> /\ Entries(plan[s]) # << >>
       /\ template' = [template EXCEPT ![m] = Entries(plan[s])]
       /\ asked'    = [asked EXCEPT ![m] = Kept(plan[s])]
  /\ UNCHANGED <<inventory, sessions, launched, loose>>

(* create_template stores the list as it is: nothing is looked up.         *)
CreateTemplate ==
  /\ loose' = TRUE
  /\ \E m \in Template : \E n \in 1..MaxPlan :
       \E e \in [1..n -> [target : Target, mode : Mode]] :
         /\ template[m] = << >>
         /\ template' = [template EXCEPT ![m] = e]
         /\ asked'    = [asked EXCEPT ![m] = e]
  /\ UNCHANGED <<inventory, sessions, launched>>

DeleteTemplate ==
  /\ \E m \in Template :
       /\ template[m] # << >>
       /\ template' = [template EXCEPT ![m] = << >>]
       /\ asked'    = [asked EXCEPT ![m] = << >>]
  /\ UNCHANGED <<inventory, sessions, launched, loose>>

(* The new row: the target's address of now, "" when it is gone, and the   *)
(* default capture mode, whatever the entry says.                          *)
Row(e) == [target |-> e.target,
           host   |-> IF Known(e.target) THEN target[e.target].host ELSE NoHost,
           mode   |-> "file"]

Instantiate ==
  /\ \E m \in Template, s \in Session :
       /\ template[m] # << >> /\ status[s] = "none"
       /\ ForeignKeys => \A i \in DOMAIN template[m] :
                           template[m][i].target = NoTarget \/ Known(template[m][i].target)
       /\ status' = [status EXCEPT ![s] = "draft"]
       /\ plan'   = [plan EXCEPT ![s] = [i \in DOMAIN template[m] |-> Row(template[m][i])]]
  /\ UNCHANGED <<inventory, adding, templates, launched, loose>>

-----------------------------------------------------------------------------
(* start_session. *)

(* The backend is the one the target has now: a SmartZone capture of its   *)
(* MAC, or an SSH one of the address in the row.                           *)
Spec1(a) == [backend |-> IF Known(a.target) /\ target[a.target].sz THEN "sz_api" ELSE "ssh",
             target  |-> a.target, host |-> a.host, mode |-> a.mode]

StartSession ==
  /\ \E s \in Session :
       /\ status[s] = "draft" /\ plan[s] # << >>
       /\ status'   = [status EXCEPT ![s] = "running"]
       /\ launched' = [launched EXCEPT ![s] = [i \in DOMAIN plan[s] |-> Spec1(plan[s][i])]]
  /\ UNCHANGED <<inventory, plan, adding, templates, loose>>

Next ==
  \/ CreateTarget \/ UpdateTarget \/ DeleteTarget \/ DeleteController
  \/ CreateSession \/ AddRead \/ AddCommit \/ DeleteAssignment
  \/ SaveTemplate \/ CreateTemplate \/ DeleteTemplate \/ Instantiate
  \/ StartSession

Spec == Init /\ [][Next]_vars

-----------------------------------------------------------------------------
(* Two captures meet on one access point: one address, or the same MAC.    *)
SameAp(j, k) ==
  \/ j.host = k.host /\ j.host # NoHost
  \/ j.backend = "sz_api" /\ k.backend = "sz_api" /\ j.target = k.target

(* A session never runs two captures on one access point, the assumption   *)
(* under which a capture on the engine is left alone by the others: what   *)
(* add_assignment is there to ensure, by refusing a second radio. It does  *)
(* as long as targets stay where they are, no template is posted as a list *)
(* and one add is served at a time.                                        *)
OneCapturePerAp ==
  ~loose => \A s \in Session : \A i, k \in DOMAIN launched[s] :
              i # k => ~SameAp(launched[s][i], launched[s][k])

(* A draft made from a template asks for the targets the template was made *)
(* from, in their order. Their modes are not kept: see Entries.            *)
Replays(p, q) ==
  /\ Len(p) = Len(q)
  /\ \A i \in DOMAIN p : p[i].target = q[i].target

TemplateReplays ==
  [][\A s \in Session :
       status[s] = "none" /\ plan'[s] # << >> =>
         \E m \in Template : Replays(plan'[s], asked[m])]_vars
=============================================================================
