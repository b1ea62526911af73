-------------------------------- MODULE Rkscli --------------------------------
(***************************************************************************)
(* The conversation with an access point's command line that configures a  *)
(* direct-SSH capture: Engine._configure over RkscliClient.                *)
(*                                                                         *)
(* Answers come back as pieces, a text and then a prompt. run() sends a    *)
(* command and reads until it sees a prompt, or until its time is over:    *)
(* then it returns what it has read, and the rest of the answer is what    *)
(* the next command will read. The access point, which works the commands  *)
(* off in the order they were sent, is outside the repository.             *)
(***************************************************************************)
EXTENDS Naturals, SequencesExt

CONSTANTS Wants,       \* which of channel and width the capture sets
          MaxPolls,    \* bound on the polls of confirm_channel in its 30 s
          Clocks       \* commands ap_epoch_ms knows (3 in the code)

Setting == {"channel", "width"}

CliAssumption == Wants \subseteq Setting /\ {MaxPolls, Clocks} \subseteq Nat \ {0}

VARIABLES
  at,        \* where _configure is: the step it runs a command for
  reading,   \* the command is sent, and _read_until is reading
  text,      \* its buf
  polls,     \* further tries of confirm_channel, of ap_epoch_ms
  todo,      \* commands the access point has not worked off
  prompting, \* the text of an answer is out, its prompt is not
  out,       \* pieces on their way to the client
  value,     \* the radio's channel and width: as asked for, or another
  ready,     \* the radio is up
  busy,      \* another radio of the access point is streaming
  streaming, \* this radio is
  late       \* history: a command ran out of time

cliVars   == <<at, reading, text, polls>>
radioVars == <<value, streaming>>
apVars    == <<todo, prompting, out, radioVars>>
vars == <<cliVars, apVars, ready, busy, late>>

Steps   == {"login", "tune", "confirm", "widen", "check", "note", "clock",
            "state", "stream"}
Over    == {"done", "raised"}

Command(s) == CASE s = "tune"   -> "set channel"
                [] s \in {"confirm", "note"} -> "get channel"
                [] s = "widen"  -> "set width"
                [] s = "check"  -> "get width"
                [] s = "clock"  -> "get time"
                [] s = "state"  -> "get state"
                [] s = "stream" -> "set capture"

Prompt    == [cmd |-> "none", says |-> "prompt"]
Said(t, c, v) == Contains(t, [cmd |-> c, says |-> v])
Prompted(t)   == Contains(t, Prompt)

(* What re.search finds: the first answer of that kind in what was read.   *)
Reads(t, c, v) ==
  \E k \in DOMAIN t : /\ t[k] = [cmd |-> c, says |-> v]
                      /\ \A i \in 1..(k-1) : t[i].cmd # c

Init ==
  /\ at = "login" /\ reading = FALSE /\ text = << >> /\ polls = 0
  /\ todo = << >> /\ prompting = FALSE /\ out = << >>
  /\ value = [p \in Setting |-> "other"]
  /\ ready \in BOOLEAN /\ busy \in BOOLEAN
  /\ streaming = FALSE /\ late = FALSE

-----------------------------------------------------------------------------
(* connect(), with the nested login inside it.                             *)
LoggedIn ==
  /\ at = "login"
  /\ at' = IF "channel" \in Wants THEN "tune"
           ELSE IF "width" \in Wants THEN "widen" ELSE "note"
  /\ UNCHANGED <<reading, text, polls, apVars, ready, busy, late>>

LoginFails ==
  /\ at = "login"
  /\ at' = "raised"
  /\ UNCHANGED <<reading, text, polls, apVars, ready, busy, late>>

Send ==
  /\ at \in Steps \ {"login"} /\ ~reading
  /\ todo' = Append(todo, Command(at))
  /\ reading' = TRUE /\ text' = << >>
  /\ UNCHANGED <<at, polls, prompting, out, radioVars, ready, busy, late>>

(* A width the access point has no code for is not sent.                   *)
WidthUnsupported ==
  /\ at = "widen" /\ ~reading
  /\ at' = "raised"
  /\ UNCHANGED <<reading, text, polls, apVars, ready, busy, late>>

Recv ==
  /\ reading /\ ~Prompted(text) /\ out # << >>
  /\ text' = text \o out /\ out' = << >>
  /\ UNCHANGED <<at, reading, polls, todo, prompting, radioVars, ready, busy, late>>

(* Mutants of AfterConfirm and AfterStream: a channel that cannot be read  *)
(* is taken for confirmed; the start's answer is not looked at.            *)
AfterConfirmLenient(t) ==
  \/ ~Reads(t, "get channel", "other")
     /\ at' = (IF "width" \in Wants THEN "widen" ELSE "note") /\ polls' = 0
  \/ Reads(t, "get channel", "other") /\ polls < MaxPolls
     /\ polls' = polls + 1 /\ UNCHANGED at
  \/ Reads(t, "get channel", "other") /\ at' = "raised" /\ UNCHANGED polls

(* confirm_channel polls until it reads the channel asked for, or gives up.*)
AfterConfirm(t) ==
  \/ Reads(t, "get channel", "asked")
     /\ at' = (IF "width" \in Wants THEN "widen" ELSE "note") /\ polls' = 0
  \/ ~Reads(t, "get channel", "asked") /\ polls < MaxPolls
     /\ polls' = polls + 1 /\ UNCHANGED at
  \/ ~Reads(t, "get channel", "asked") /\ at' = "raised" /\ UNCHANGED polls

AfterStreamUnread(t) == at' = "done"

AfterStream(t) == at' = IF Said(t, "set capture", "busy") THEN "raised" ELSE "done"

(* What _configure makes of the text a command returned. The channel and   *)
(* the clock are noted, whatever they are; the clock is asked for by one   *)
(* command after the other until one answer holds a time.                  *)
After(t) ==
  \/ at = "tune" /\ at' = "confirm" /\ UNCHANGED polls
  \/ at = "confirm" /\ AfterConfirm(t)
  \/ at = "widen" /\ at' = "check" /\ UNCHANGED polls
  \/ at = "check" /\ UNCHANGED polls
     /\ at' = IF Reads(t, "get width", "asked") THEN "note" ELSE "raised"
  \/ at = "note" /\ at' = "clock" /\ UNCHANGED polls
  \/ at = "clock" /\ at' = "state" /\ polls' = 0
  \/ at = "clock" /\ polls < Clocks - 1 /\ polls' = polls + 1 /\ UNCHANGED at
  \/ at = "state" /\ UNCHANGED polls
     /\ at' = IF Said(t, "get state", "inactive") THEN "raised" ELSE "stream"
  \/ at = "stream" /\ AfterStream(t) /\ UNCHANGED polls

(* Once a prompt is seen, what has come by then is read, too.              *)
Returns ==
  /\ reading /\ Prompted(text)
  /\ After(text \o out)
  /\ reading' = FALSE /\ text' = << >> /\ out' = << >>
  /\ UNCHANGED <<todo, prompting, radioVars, ready, busy, late>>

(* What has not come in time stays in the channel, unless it is closed.    *)

TimesOut ==
  /\ reading /\ ~Prompted(text)
  /\ After(text)
  /\ reading' = FALSE /\ text' = << >> /\ late' = TRUE
  /\ out' = IF at' \in Over THEN << >> ELSE out
  /\ UNCHANGED <<todo, prompting, radioVars, ready, busy>>

-----------------------------------------------------------------------------
(* The access point. A channel takes its time; a width takes or does not.  *)

Writes(x) == out' = IF at \in Over THEN out ELSE Append(out, x)

Works ==
  /\ todo # << >> /\ ~prompting
  /\ LET c == Head(todo)
         answer(v) == Writes([cmd |-> c, says |-> v])
     IN
     \/ c = "set width" /\ answer("ok") /\ UNCHANGED streaming
        /\ \E v \in {"asked", "other"} : value' = [value EXCEPT !["width"] = v]
     \/ c = "get channel" /\ answer(value["channel"]) /\ UNCHANGED radioVars
     \/ c = "get width" /\ answer(value["width"]) /\ UNCHANGED radioVars
     \/ c = "get state" /\ answer(IF ready THEN "active" ELSE "inactive")
        /\ UNCHANGED radioVars
     \/ c = "set capture" /\ UNCHANGED value
        /\ \/ busy /\ answer("busy") /\ UNCHANGED streaming
           \/ ~busy /\ answer("ok") /\ streaming' = ready
     \/ c \in {"set channel", "get time"} /\ answer("ok") /\ UNCHANGED radioVars
  /\ todo' = Tail(todo) /\ prompting' = (at \notin Over)
  /\ UNCHANGED <<cliVars, ready, busy, late>>

Prompts ==
  /\ prompting
  /\ Writes(Prompt) /\ prompting' = FALSE
  /\ UNCHANGED <<cliVars, todo, radioVars, ready, busy, late>>

(* At any time after the command: channel availability, regulation.        *)
Retunes ==
  /\ at \notin {"login", "tune"} \cup Over /\ "channel" \in Wants
  /\ ~Contains(todo, "set channel") /\ value["channel"] = "other"
  /\ value' = [value EXCEPT !["channel"] = "asked"]
  /\ UNCHANGED <<cliVars, todo, prompting, out, streaming, ready, busy, late>>

ClientStep == LoggedIn \/ LoginFails \/ Send \/ WidthUnsupported \/ Recv \/ Returns \/ TimesOut

Next == ClientStep \/ Works \/ Prompts \/ Retunes

Spec == Init /\ [][Next]_vars

-----------------------------------------------------------------------------
(* A capture goes on only if the radio really has the channel and the      *)
(* width it asked for, however late the answers it was told them in.       *)
SettingsTook == at = "done" => \A p \in Wants : value[p] = "asked"

(* As long as every command is answered in time, the conversation stays in *)
(* step: it goes on only with a radio that streams, and it fails only for  *)
(* what the access point refused.                                          *)
AnswersHeard ==
  [][~late' =>
       /\ at' = "done" => streaming'
       /\ at' = "raised" /\ at # "raised" =>
            \/ at \in {"login", "confirm"} \/ (at = "widen" /\ ~reading)
            \/ at = "check"  /\ value["width"] = "other"
            \/ at = "state"  /\ ~ready
            \/ at = "stream" /\ busy]_vars

-----------------------------------------------------------------------------
(* Why SettingsTook holds although answers come late: the tool polls with  *)
(* one command per setting; an answer tells the value that was set when it *)
(* was given; a channel, once taken, stays; and the width is set once,     *)
(* before the first question about it, by an access point that works its   *)
(* commands off in order.                                                  *)
Commands == {"set channel", "get channel", "set width", "get width", "get time",
             "get state", "set capture"}
Pieces   == [cmd : Commands \cup {"none"},
             says : {"asked", "other", "ok", "active", "inactive", "busy", "prompt"}]

TypeOK ==
  /\ at \in Steps \cup Over /\ todo \in Seq(Commands)
  /\ out \in Seq(Pieces) /\ text \in Seq(Pieces)
  /\ value \in [Setting -> {"asked", "other"}]

Heard(c) == [cmd |-> c, says |-> "asked"] \in Range(out) \cup Range(text)

Before(s, x, y) == \A i, k \in DOMAIN s : s[i] = y /\ s[k] = x => k < i
InOrder == Before(todo, "set width", "get width")

ChannelTruth == Heard("get channel") => value["channel"] = "asked"
WidthTruth   == Heard("get width") => value["width"] = "asked" /\ "set width" \notin Range(todo)

Unasked ==
  /\ at \in {"login", "tune", "confirm", "widen"} =>
       "get width" \notin Range(todo) /\ ~Heard("get width")

Confirmed ==
  /\ at \notin {"login", "tune", "confirm", "raised"} /\ "channel" \in Wants =>
       value["channel"] = "asked"
  /\ at \notin {"login", "tune", "confirm", "widen", "check", "raised"} /\ "width" \in Wants =>
       value["width"] = "asked" /\ "set width" \notin Range(todo)

CliInv ==
  TypeOK /\ InOrder /\ ChannelTruth /\ WidthTruth /\ Unasked /\ Confirmed
=============================================================================
