------------------------------ MODULE StreamPull ------------------------------
(***************************************************************************)
(* A capture that the tool itself pulls, from its beginning: the access    *)
(* point is made to stream, over its command line (Rkscli) or by its       *)
(* controller (then Discovery finds what to open), and RpcapReader reads.  *)
(* The reader gets a data connection only from a radio that streams; the   *)
(* stop event is the same throughout.                                      *)
(***************************************************************************)
EXTENDS RpcapReader

CONSTANTS Wants, MaxPolls, Clocks, Name, Known, Skipped, MaxListed, Rounds

VARIABLES
  path,      \* "ssh" or "sz"
  at, reading, text, polls, todo, prompting, out, value, ready, busy,
  streaming, late,
  round, phase, left, tap, tapUp, owed

Cli  == INSTANCE Rkscli
Scan == INSTANCE Discovery

ASSUME PullAssumption == Cli!CliAssumption /\ Scan!NamesAssumption

readerVars == vars
cliVars    == <<at, reading, text, polls, todo, prompting, out, value,
                ready, busy, streaming, late>>
scanVars   == <<round, phase, left, tap, tapUp, owed>>
pullVars   == <<path, readerVars, cliVars, scanVars>>

Attached == (path = "ssh" /\ at = "done") \/ (path = "sz" /\ phase = "found")
Failed   == at = "raised" \/ phase = "nothing"
Streams  == IF path = "ssh" THEN streaming ELSE tapUp

(* What belongs to the other path is fixed.                                *)
PullInit ==
  /\ Init /\ Cli!Init /\ Scan!Init
  /\ \/ path = "ssh" /\ tap = Known[1]
     \/ path = "sz" /\ ready /\ ~busy

(* Engine._configure, then the reader thread; _sz_stream, then the same.   *)
Configures == path = "ssh" /\ Cli!ClientStep /\ UNCHANGED <<path, readerVars, scanVars>>

Discovers == path = "sz" /\ Scan!ScanStep /\ UNCHANGED <<path, readerVars, cliVars>>

Pulls == Attached /\ ReaderStep /\ UNCHANGED <<path, cliVars, scanVars>>

Stops == ~Failed /\ Stop /\ UNCHANGED <<path, cliVars, scanVars>>

(* The access point's command line, its taps, and its rpcapd.              *)
ApStep ==
  \/ /\ path = "ssh"
     /\ Cli!Works \/ Cli!Prompts \/ Cli!Retunes
     /\ UNCHANGED <<path, readerVars, scanVars>>
  \/ /\ path = "sz"
     /\ Scan!TapComes \/ Scan!TapGoes
     /\ UNCHANGED <<path, readerVars, cliVars>>
  \/ /\ Attached
     /\ ApAnswers \/ (Streams /\ ApDials) \/ ApSends \/ ApHangsUp
     /\ UNCHANGED <<path, cliVars, scanVars>>

PullNext == Configures \/ Discovers \/ Pulls \/ Stops \/ ApStep

PullSpec == PullInit /\ [][PullNext]_pullVars

(* Every read of the command line and every socket has a time limit.       *)
PullFairSpec ==
  /\ PullSpec
  /\ WF_pullVars(Configures) /\ WF_pullVars(Discovers) /\ WF_pullVars(Pulls)
  /\ WF_pullVars(Pulls /\ StartcapOver)

-----------------------------------------------------------------------------
(* See Rkscli and Discovery.                                               *)
SettingsTook == Cli!SettingsTook
AnswersHeard == Cli!AnswersHeard
TapFound     == Scan!TapFound

(* A stop request ends the attempt whatever it is at: a conversation that  *)
(* gets no answers, a scan, a handshake, half a message.                   *)
StopEndsPull == stop ~> step = "closed" \/ Failed
=============================================================================
