----------------------------- MODULE RpcapReader -----------------------------
(***************************************************************************)
(* RpcapReader.run against the access point's rpcapd: the control          *)
(* connection, the data connection the access point opens back, and the    *)
(* framing of the data stream.                                             *)
(*                                                                         *)
(* The data stream is cells: a message is Header cells and Body cells, and *)
(* every message of rpcapd is one captured frame. recv takes what is       *)
(* there; socket.timeout, after a second with nothing, unwinds _recvn and  *)
(* _read_msg with whatever of the message they had already taken.          *)
(***************************************************************************)
EXTENDS Naturals, Sequences

CONSTANTS Header, Body,   \* cells of a message header, of a frame
          Frames,         \* bound on the frames the access point sends
          Cap,            \* max_bytes, in frames; 0 is unlimited
          MaxGarbage      \* bound on the length a misread header states

ASSUME ReaderAssumption ==
  /\ Header \in Nat \ {0} /\ Body \in Nat \ {0}
  /\ Frames \in Nat /\ Cap \in Nat /\ MaxGarbage \in Nat

VARIABLES
  step,      \* "connect", "startcap", "pull", "closed"
  answer,    \* rpcapd's answer to STARTCAP: "none", "ok", "error", and
             \* "dropped", an error the reader has read
  replied,   \* got_reply
  dialled,   \* the access point has opened the data connection
  data,      \* ... and the reader has accepted it
  sent,      \* cells put on the data connection
  hungup,    \* the access point closed the data connection
  taken,     \* cells the reader has taken from it
  start,     \* where the message being read began
  msg,       \* what is being read: nothing, a header, or a body
  file,      \* the records: frame numbers, 0 for what is no frame
  opened,    \* <id>.pcap exists
  err,       \* stats.error
  stop,      \* the stop event
  torn       \* history: recv timed out inside a message

apVars     == <<answer, dialled, sent, hungup>>
ctrlVars   == <<replied, data>>
streamVars == <<taken, start, msg>>
fileVars   == <<file, opened, err>>
vars == <<step, apVars, ctrlVars, streamVars, fileVars, stop, torn>>

Message  == Header + Body
NoMsg    == [part |-> "none"]
InSync   == start % Message = 0
FrameNo  == start \div Message + 1

Init ==
  /\ step = "connect" /\ answer = "none" /\ replied = FALSE
  /\ dialled = FALSE /\ data = FALSE
  /\ sent = 0 /\ hungup = FALSE
  /\ taken = 0 /\ start = 0 /\ msg = NoMsg
  /\ file = << >> /\ opened = FALSE /\ err = "none"
  /\ stop = FALSE /\ torn = FALSE

-----------------------------------------------------------------------------
(* The access point, and whoever sets the stop event. *)

Stop ==
  /\ ~stop
  /\ stop' = TRUE
  /\ UNCHANGED <<step, apVars, ctrlVars, streamVars, fileVars, torn>>

(* rpcapd answers STARTCAP and dials back, in either order.                *)
ApAnswers ==
  /\ step = "startcap" /\ answer = "none"
  /\ answer' \in {"ok", "error"}
  /\ UNCHANGED <<step, dialled, sent, hungup, ctrlVars, streamVars, fileVars, stop, torn>>

ApDials ==
  /\ step = "startcap" /\ ~dialled /\ answer \in {"none", "ok"}
  /\ dialled' = TRUE
  /\ UNCHANGED <<step, answer, sent, hungup, ctrlVars, streamVars, fileVars, stop, torn>>

ApSends ==
  /\ dialled /\ ~hungup /\ sent < Frames * Message
  /\ sent' = sent + 1
  /\ UNCHANGED <<step, answer, dialled, hungup, ctrlVars, streamVars, fileVars, stop, torn>>

ApHangsUp ==
  /\ dialled /\ ~hungup
  /\ hungup' = TRUE
  /\ UNCHANGED <<step, answer, dialled, sent, ctrlVars, streamVars, fileVars, stop, torn>>

-----------------------------------------------------------------------------
(* run(): the control connection. *)

Close(why) == step' = "closed" /\ err' = why

(* Authentication and open, each within eight seconds.                     *)
Connects ==
  /\ step = "connect"
  /\ \/ step' = "startcap" /\ UNCHANGED err
     \/ Close("connect")
  /\ UNCHANGED <<apVars, ctrlVars, streamVars, file, opened, stop, torn>>

Accepts ==
  /\ step = "startcap" /\ ~stop /\ dialled /\ ~data
  /\ data' = TRUE
  /\ UNCHANGED <<step, apVars, replied, streamVars, fileVars, stop, torn>>

(* The answer is read; the exception an error raises is dropped, and the   *)
(* error with it.                                                          *)
ReadsAnswer ==
  /\ step = "startcap" /\ ~replied
  /\ \/ answer = "ok" /\ replied' = TRUE /\ UNCHANGED answer
     \/ answer = "error" /\ answer' = "dropped" /\ UNCHANGED replied
  /\ UNCHANGED <<step, dialled, sent, hungup, data, streamVars, fileVars, stop, torn>>

(* Both are there, or the stop flag is seen, or fifteen seconds are over.  *)
(* A data connection is enough to go on.                                   *)
StartcapOver ==
  /\ step = "startcap"
  /\ \/ /\ data
        /\ \/ /\ step' = "pull" /\ opened' = TRUE /\ UNCHANGED err
           \/ /\ Close("file") /\ UNCHANGED opened
     \/ /\ ~data
        /\ Close("nodata") /\ UNCHANGED opened
  /\ UNCHANGED <<apVars, ctrlVars, streamVars, file, stop, torn>>

-----------------------------------------------------------------------------
(* run(): the read loop. *)

LoopTop ==
  /\ step = "pull" /\ msg.part = "none"
  /\ \/ stop /\ step' = "closed" /\ UNCHANGED msg
     \/ ~stop /\ msg' = [part |-> "header"] /\ UNCHANGED step
  /\ UNCHANGED <<apVars, ctrlVars, taken, start, fileVars, stop, torn>>

Wanted == IF msg.part = "header" THEN Header
          ELSE IF msg.part = "body" THEN Header + msg.len ELSE 0

Reading == step = "pull" /\ msg.part # "none" /\ taken - start < Wanted

Takes ==
  /\ Reading /\ taken < sent
  /\ taken' = taken + 1
  /\ UNCHANGED <<step, apVars, ctrlVars, start, msg, fileVars, stop, torn>>

(* Mutant of TimesOut: within a message, recv is tried again.              *)
RetriesRecv ==
  /\ Reading /\ taken = sent /\ ~hungup
  /\ taken = start
  /\ msg' = NoMsg
  /\ UNCHANGED <<step, apVars, ctrlVars, taken, start, fileVars, stop, torn>>

(* socket.timeout: back to the loop's top, for a new message.              *)
TimesOut ==
  /\ Reading /\ taken = sent /\ ~hungup
  /\ torn' = (torn \/ taken # start)
  /\ msg' = NoMsg /\ start' = taken
  /\ UNCHANGED <<step, apVars, ctrlVars, taken, fileVars, stop>>

(* Mutant of PeerClosed: the end of the stream is the end of the capture.  *)
EndOfStream ==
  /\ Reading /\ taken = sent /\ hungup
  /\ step' = "closed"
  /\ UNCHANGED <<apVars, ctrlVars, streamVars, fileVars, stop, torn>>

PeerClosed ==
  /\ Reading /\ taken = sent /\ hungup
  /\ Close("closed")
  /\ UNCHANGED <<apVars, ctrlVars, streamVars, file, opened, stop, torn>>

(* A header that is none states any type and any length.                   *)
HeaderRead ==
  /\ step = "pull" /\ msg.part = "header" /\ taken - start = Header
  /\ IF InSync
       THEN msg' = [part |-> "body", len |-> Body, pkt |-> TRUE]
       ELSE \E n \in 0..MaxGarbage, p \in BOOLEAN :
              msg' = [part |-> "body", len |-> n, pkt |-> p]
  /\ UNCHANGED <<step, apVars, ctrlVars, taken, start, fileVars, stop, torn>>

(* Mutant of CapReached: off by one.                                       *)
CapPassed(n)  == Cap # 0 /\ n > Cap
CapReached(n) == Cap # 0 /\ n >= Cap

(* Mutant of BodyRead: whatever one recv returns is the body.              *)
BodyReadOnce ==
  /\ step = "pull" /\ msg.part = "body" /\ taken - start > Header
  /\ file' = Append(file, IF InSync THEN FrameNo ELSE 0)
  /\ msg' = NoMsg /\ start' = taken
  /\ UNCHANGED <<step, apVars, ctrlVars, taken, opened, err, stop, torn>>

(* A packet becomes a record; a body too short for one raises.             *)
BodyRead ==
  /\ step = "pull" /\ msg.part = "body" /\ taken - start = Header + msg.len
  /\ \/ /\ ~msg.pkt
        /\ UNCHANGED <<step, file, err, torn>>
     \/ /\ msg.pkt
        /\ file' = Append(file, IF InSync THEN FrameNo ELSE 0)
        /\ IF CapReached(Len(file)+1) THEN step' = "closed" ELSE UNCHANGED step
        /\ UNCHANGED err
     \/ /\ msg.pkt /\ ~InSync
        /\ Close("short") /\ UNCHANGED file
  /\ msg' = NoMsg /\ start' = taken
  /\ UNCHANGED <<apVars, ctrlVars, taken, opened, stop, torn>>

-----------------------------------------------------------------------------
ReaderStep ==
  \/ Connects \/ Accepts \/ ReadsAnswer \/ StartcapOver
  \/ LoopTop \/ Takes \/ TimesOut \/ PeerClosed \/ HeaderRead \/ BodyRead

Next == ReaderStep \/ Stop \/ ApAnswers \/ ApDials \/ ApSends \/ ApHangsUp

Spec == Init /\ [][Next]_vars

-----------------------------------------------------------------------------
Capped == CapReached(Len(file))

(* Every variable ranges over what the code can store in it, and the       *)
(* reader never takes what was not sent or writes to a file not opened.    *)
Messages ==
  {NoMsg, [part |-> "header"]}
    \cup [part : {"body"}, len : Nat, pkt : BOOLEAN]

TypeOK ==
  /\ step \in {"connect", "startcap", "pull", "closed"}
  /\ err \in {"none", "connect", "file", "nodata", "closed", "short"}
  /\ start \in Nat /\ taken \in Nat /\ sent \in Nat
  /\ start <= taken /\ taken <= sent
  /\ msg \in Messages /\ file \in Seq(Nat)
  /\ opened \in BOOLEAN /\ stop \in BOOLEAN /\ torn \in BOOLEAN
  /\ step = "pull" \/ file # << >> => opened

(* The file is the frames sent, in order and without a gap, wherever the   *)
(* capture was stopped, cut off or capped, and however the frames came in  *)
(* pieces; unless a message paused for a second on its way.                *)
FileIsPrefix == \A k \in 1..Len(file) : file[k] = k
PrefixUnlessTorn == torn \/ FileIsPrefix

(* A reader that ended without recording an error was stopped or reached   *)
(* its cap, and left a file: what Engine._run takes for success.           *)
CleanEnd == step = "closed" /\ err = "none" => opened /\ (stop \/ Capped)

(* The size cap: at most the frame that reaches it is written.             *)
CapHolds == Cap # 0 => Len(file) <= Cap

-----------------------------------------------------------------------------
(* Why the properties hold. While no pause fell inside a message, each one *)
(* was read in step and became one record, so a message begins where the   *)
(* records so far end, and a body is as long as a frame. Without an error  *)
(* the reader is on its way, or was stopped, or is over its cap.           *)
InStep ==
  ~torn => /\ start = Len(file) * Message /\ FileIsPrefix
           /\ msg.part = "body" => msg.len = Body /\ msg.pkt

Ongoing ==
  /\ step # "closed" => err = "none" /\ (Cap # 0 => Len(file) < Cap)
  /\ step \in {"connect", "startcap"} => file = << >>
  /\ step # "pull" /\ step # "closed" => msg = NoMsg

ReaderInv == TypeOK /\ InStep /\ Ongoing /\ CapHolds /\ CleanEnd
=============================================================================
