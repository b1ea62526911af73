--------------------------- MODULE StreamPullProofs ---------------------------
(***************************************************************************)
(* What the reader writes, for messages of any size, any number of frames, *)
(* any cap, and any timing of the access point and of the stop; and that   *)
(* what the conversation and the reader promise on their own they promise  *)
(* too where a capture composes them: each step of a pull is a step of the *)
(* one, of the other, or leaves it alone.                                  *)
(***************************************************************************)
EXTENDS StreamPull, SequenceTheorems, FiniteSets, FiniteSetTheorems,
        WellFoundedInduction, TLAPS

(***************************************************************************)
(* The reader of the stream.                                               *)
(***************************************************************************)
LEMMA ReaderInit == Init => ReaderInv
<1> SUFFICES ASSUME Init PROVE ReaderInv
  OBVIOUS
<1>1. TypeOK
  <2>1. msg \in Messages
    BY DEF Init, Messages
  <2>2. file \in Seq(Nat)
    BY DEF Init
  <2>3. step \in {"connect", "startcap", "pull", "closed"}
    BY DEF Init
  <2>4. err \in {"none", "connect", "file", "nodata", "closed", "short"}
    BY DEF Init
  <2>5. start \in Nat /\ taken \in Nat /\ sent \in Nat /\ start <= taken /\ taken <= sent
    BY DEF Init
  <2>6. opened \in BOOLEAN /\ stop \in BOOLEAN /\ torn \in BOOLEAN
    BY Zenon DEF Init
  <2>7. ~(step = "pull" \/ file # << >>)
    BY DEF Init
  <2> QED
    BY <2>1, <2>2, <2>3, <2>4, <2>5, <2>6, <2>7 DEF TypeOK
<1>2. InStep
  BY ReaderAssumption DEF Init, InStep, FileIsPrefix, Message, NoMsg
<1>3. Ongoing /\ CapHolds /\ CleanEnd
  BY ReaderAssumption DEF Init, Ongoing, CapHolds, CleanEnd
<1> QED
  BY <1>1, <1>2, <1>3 DEF ReaderInv

(* A message that begins where n records end is frame n + 1.               *)
LEMMA FrameAt ==
  ASSUME NEW n \in Nat
  PROVE  (n * Message) % Message = 0 /\ (n * Message) \div Message = n
  BY ReaderAssumption DEF Message

LEMMA NextMessage ==
  ASSUME NEW n \in Nat
  PROVE  n * Message + Message = (n + 1) * Message
  BY ReaderAssumption DEF Message

(* Steps that move neither the reader nor its file.                        *)
LEMMA ReaderFrame ==
  ASSUME ReaderInv, UNCHANGED <<step, taken, start, msg, file, opened, err, torn>>,
         sent' \in Nat, sent <= sent', stop' = stop \/ stop' = TRUE
  PROVE  ReaderInv'
<1> USE DEF ReaderInv
<1>1. TypeOK'
  <2>1. stop' \in BOOLEAN
    BY Zenon DEF TypeOK
  <2>2. start' <= taken' /\ taken' <= sent'
    BY DEF TypeOK
  <2> QED
    BY <2>1, <2>2 DEF TypeOK
<1>2. InStep' /\ Ongoing' /\ CapHolds'
  BY DEF InStep, FileIsPrefix, Ongoing, CapHolds
<1>3. CleanEnd'
  BY DEF CleanEnd, Capped, CapReached
<1> QED
  BY <1>1, <1>2, <1>3

LEMMA HandshakeKeeps ==
  ASSUME ReaderInv, Connects \/ Accepts \/ ReadsAnswer \/ StartcapOver
  PROVE  ReaderInv'
<1> USE DEF ReaderInv
<1>1. CASE Connects
  <2>1. /\ UNCHANGED <<taken, start, msg, file, opened, sent, stop, torn>>
        /\ \/ step' = "startcap" /\ UNCHANGED err
           \/ step' = "closed" /\ err' = "connect"
        /\ step = "connect"
    BY <1>1 DEF Connects, Close, streamVars, apVars
  <2>2. TypeOK'
    BY <2>1 DEF TypeOK
  <2>3. InStep' /\ Ongoing' /\ CapHolds' /\ CleanEnd'
    BY <2>1 DEF InStep, FileIsPrefix, Ongoing, CapHolds, CleanEnd
  <2> QED
    BY <2>2, <2>3
<1>2. CASE Accepts \/ ReadsAnswer
  <2>1. UNCHANGED <<step, taken, start, msg, file, opened, err, torn, sent, stop>>
    BY <1>2 DEF Accepts, ReadsAnswer, streamVars, apVars, fileVars
  <2>2. sent' \in Nat /\ sent <= sent'
    BY <2>1 DEF TypeOK
  <2> QED
    BY <2>1, <2>2, ReaderFrame
<1>3. CASE StartcapOver
  <2>1. /\ UNCHANGED <<taken, start, msg, file, sent, stop, torn>>
        /\ step = "startcap"
        /\ \/ step' = "pull" /\ opened' = TRUE /\ UNCHANGED err
           \/ step' = "closed" /\ err' \in {"file", "nodata"} /\ UNCHANGED opened
    BY <1>3 DEF StartcapOver, Close, streamVars, apVars
  <2>2. TypeOK'
    <3>1. opened' \in BOOLEAN
      BY <2>1, Zenon DEF TypeOK
    <3>2. step' = "pull" \/ file' # << >> => opened'
      BY <2>1 DEF TypeOK
    <3> QED
      BY <2>1, <3>1, <3>2 DEF TypeOK
  <2>3. InStep' /\ Ongoing' /\ CapHolds' /\ CleanEnd'
    BY <2>1 DEF InStep, FileIsPrefix, Ongoing, CapHolds, CleanEnd
  <2> QED
    BY <2>2, <2>3
<1> QED
  BY <1>1, <1>2, <1>3

LEMMA LoopKeeps ==
  ASSUME ReaderInv, LoopTop \/ Takes \/ TimesOut \/ PeerClosed
  PROVE  ReaderInv'
<1> USE DEF ReaderInv
<1>1. CASE LoopTop
  <2>1. /\ UNCHANGED <<taken, start, file, opened, err, sent, stop, torn>>
        /\ step = "pull"
        /\ \/ stop /\ step' = "closed" /\ UNCHANGED msg
           \/ msg' = [part |-> "header"] /\ UNCHANGED step
    BY <1>1 DEF LoopTop, fileVars, apVars
  <2>2. msg' \in Messages /\ (msg' = msg \/ msg'.part # "body")
    BY <2>1 DEF TypeOK, Messages
  <2>3. TypeOK'
    BY <2>1, <2>2 DEF TypeOK
  <2>4. InStep' /\ Ongoing' /\ CapHolds'
    BY <2>1, <2>2 DEF InStep, FileIsPrefix, Ongoing, CapHolds
  <2>5. CleanEnd'
    BY <2>1 DEF CleanEnd, TypeOK
  <2> QED
    BY <2>3, <2>4, <2>5
<1>2. CASE Takes
  <2>1. /\ UNCHANGED <<step, start, msg, file, opened, err, sent, stop, torn>>
        /\ taken < sent /\ taken' = taken + 1
    BY <1>2 DEF Takes, fileVars, apVars
  <2>2. taken' \in Nat /\ start' <= taken' /\ taken' <= sent'
    BY <2>1 DEF TypeOK
  <2>3. TypeOK'
    BY <2>1, <2>2 DEF TypeOK
  <2>4. InStep' /\ Ongoing' /\ CapHolds'
    BY <2>1 DEF InStep, FileIsPrefix, Ongoing, CapHolds
  <2>5. CleanEnd'
    BY <2>1 DEF CleanEnd, Capped, CapReached
  <2> QED
    BY <2>3, <2>4, <2>5
<1>3. CASE TimesOut
  <2>1. /\ UNCHANGED <<step, taken, file, opened, err, sent, stop>>
        /\ step = "pull" /\ msg' = NoMsg /\ start' = taken
        /\ torn' = (torn \/ taken # start)
    BY <1>3 DEF TimesOut, Reading, fileVars, apVars
  <2>2. TypeOK'
    <3>1. torn' \in BOOLEAN
      BY <2>1, Zenon DEF TypeOK
    <3>2. msg' \in Messages
      BY <2>1 DEF Messages
    <3> QED
      BY <2>1, <3>1, <3>2 DEF TypeOK
  <2>3. InStep'
    BY <2>1 DEF InStep, FileIsPrefix, NoMsg
  <2>4. Ongoing' /\ CapHolds' /\ CleanEnd'
    BY <2>1 DEF Ongoing, CapHolds, CleanEnd
  <2> QED
    BY <2>2, <2>3, <2>4
<1>4. CASE PeerClosed
  <2>1. /\ UNCHANGED <<taken, start, msg, file, opened, sent, stop, torn>>
        /\ step = "pull" /\ step' = "closed" /\ err' = "closed"
    BY <1>4 DEF PeerClosed, Close, Reading, streamVars, apVars
  <2>2. TypeOK'
    BY <2>1 DEF TypeOK
  <2>3. InStep' /\ Ongoing' /\ CapHolds' /\ CleanEnd'
    BY <2>1 DEF InStep, FileIsPrefix, Ongoing, CapHolds, CleanEnd
  <2> QED
    BY <2>2, <2>3
<1> QED
  BY <1>1, <1>2, <1>3, <1>4

(* In step, a header is one of rpcapd's, which states a frame.             *)
LEMMA HeaderKeeps ==
  ASSUME ReaderInv, HeaderRead
  PROVE  ReaderInv'
<1> USE DEF ReaderInv
<1>1. /\ UNCHANGED <<step, taken, start, file, opened, err, sent, stop, torn>>
      /\ step = "pull"
  BY DEF HeaderRead, fileVars, apVars
<1>2. /\ msg' \in [part : {"body"}, len : Nat, pkt : BOOLEAN]
      /\ InSync => msg'.len = Body /\ msg'.pkt
  <2>1. CASE InSync
    <3>1. msg' = [part |-> "body", len |-> Body, pkt |-> TRUE]
      BY <2>1 DEF HeaderRead
    <3>2. TRUE \in BOOLEAN /\ Body \in Nat
      BY ReaderAssumption
    <3>3. msg'.len = Body /\ msg'.pkt = TRUE
      BY <3>1
    <3>4. msg' \in [part : {"body"}, len : Nat, pkt : BOOLEAN]
      BY <3>1, <3>2
    <3> QED
      BY <3>3, <3>4
  <2>2. CASE ~InSync
    <3>1. PICK n \in 0..MaxGarbage, p \in BOOLEAN :
            msg' = [part |-> "body", len |-> n, pkt |-> p]
      BY <2>2 DEF HeaderRead
    <3> QED
      BY <2>2, <3>1, ReaderAssumption
  <2> QED
    BY <2>1, <2>2
<1>3. TypeOK'
  BY <1>1, <1>2 DEF TypeOK, Messages
<1>4. ~torn => InSync
  BY FrameAt DEF InStep, InSync, TypeOK
<1>5. InStep'
  BY <1>1, <1>2, <1>4 DEF InStep, FileIsPrefix
<1>6. Ongoing' /\ CapHolds' /\ CleanEnd'
  BY <1>1 DEF Ongoing, CapHolds, CleanEnd
<1> QED
  BY <1>3, <1>5, <1>6

(* In step, the body becomes the record that is due, and the next message  *)
(* begins where it ends.                                                   *)
LEMMA BodyKeeps ==
  ASSUME ReaderInv, BodyRead
  PROVE  ReaderInv'
<1> USE DEF ReaderInv
<1>1. /\ UNCHANGED <<taken, opened, sent, stop, torn>>
      /\ step = "pull" /\ msg.part = "body" /\ taken - start = Header + msg.len
      /\ msg' = NoMsg /\ start' = taken
  BY DEF BodyRead, apVars
<1>2. \/ ~msg.pkt /\ UNCHANGED <<step, file, err>>
      \/ /\ file' = Append(file, IF InSync THEN FrameNo ELSE 0) /\ UNCHANGED err
         /\ IF CapReached(Len(file) + 1) THEN step' = "closed" ELSE UNCHANGED step
      \/ ~InSync /\ step' = "closed" /\ err' = "short" /\ UNCHANGED file
  BY DEF BodyRead, Close
<1>3. file \in Seq(Nat) /\ opened \in BOOLEAN /\ opened
  BY <1>1 DEF TypeOK
<1>4. (IF InSync THEN FrameNo ELSE 0) \in Nat
  BY ReaderAssumption DEF FrameNo, Message, TypeOK
<1>5. TypeOK'
  <2>1. file' \in Seq(Nat)
    BY <1>2, <1>3, <1>4
  <2>2. step' \in {"pull", "closed"}
        /\ err' \in {"none", "connect", "file", "nodata", "closed", "short"}
    BY <1>1, <1>2 DEF TypeOK
  <2>3. msg' \in Messages
    BY <1>1 DEF Messages
  <2> QED
    BY <1>1, <1>3, <2>1, <2>2, <2>3 DEF TypeOK
<1>6. InStep'
  <2> SUFFICES ASSUME ~torn PROVE start' = Len(file') * Message /\ FileIsPrefix'
    BY <1>1 DEF InStep, NoMsg
  <2>1. start = Len(file) * Message /\ FileIsPrefix /\ msg.len = Body /\ msg.pkt
    BY <1>1 DEF InStep
  <2>2. InSync /\ FrameNo = Len(file) + 1
    BY <1>3, <2>1, FrameAt DEF InSync, FrameNo
  <2>3. file' = Append(file, Len(file) + 1)
    BY <1>2, <2>1, <2>2
  <2>4. start' = (Len(file) + 1) * Message
    BY <1>1, <1>3, <2>1, NextMessage, ReaderAssumption DEF Message, TypeOK
  <2> QED
    BY <1>3, <2>1, <2>3, <2>4 DEF FileIsPrefix
<1>7. Len(file') <= Len(file) + 1 /\ Len(file) \in Nat /\ Len(file') \in Nat
  BY <1>2, <1>3
<1>8. CapHolds'
  BY <1>1, <1>7, ReaderAssumption DEF Ongoing, CapHolds
<1>9. Ongoing'
  BY <1>1, <1>2, <1>3, <1>7, ReaderAssumption DEF Ongoing, CapReached
<1>10. CleanEnd'
  BY <1>1, <1>2, <1>3 DEF CleanEnd, Capped, CapReached
<1> QED
  BY <1>5, <1>6, <1>8, <1>9, <1>10

LEMMA ReaderKeeps == ReaderInv /\ [Next]_vars => ReaderInv'
<1> SUFFICES ASSUME ReaderInv, [Next]_vars PROVE ReaderInv'
  OBVIOUS
<1>1. sent \in Nat
  BY DEF ReaderInv, TypeOK
<1>2. CASE Stop \/ ApAnswers \/ ApDials \/ ApSends \/ ApHangsUp \/ UNCHANGED vars
  <2>1. UNCHANGED <<step, taken, start, msg, file, opened, err, torn>>
    BY <1>2 DEF Stop, ApAnswers, ApDials, ApSends, ApHangsUp, vars, streamVars, fileVars
  <2>2. (sent' = sent \/ sent' = sent + 1) /\ (stop' = stop \/ stop' = TRUE)
    BY <1>2 DEF Stop, ApAnswers, ApDials, ApSends, ApHangsUp, vars, apVars
  <2>3. sent' \in Nat /\ sent <= sent'
    BY <1>1, <2>2
  <2> QED
    BY <2>1, <2>2, <2>3, ReaderFrame
<1> QED
  BY <1>2, HandshakeKeeps, LoopKeeps, HeaderKeeps, BodyKeeps DEF Next, ReaderStep

LEMMA ReaderInvariant == Spec => []ReaderInv
  BY ReaderInit, ReaderKeeps, PTL DEF Spec

(* Every variable of the reader is well typed, whatever arrives and when.  *)
THEOREM TypeCorrect == Spec => []TypeOK
<1>1. ReaderInv => TypeOK
  BY DEF ReaderInv
<1> QED
  BY <1>1, ReaderInvariant, PTL

(* The pcap is a prefix of the frames sent, however they came in pieces,   *)
(* unless recv timed out inside a message.                                 *)
THEOREM WritesPrefix == Spec => []PrefixUnlessTorn
<1>1. ReaderInv => PrefixUnlessTorn
  BY DEF ReaderInv, InStep, PrefixUnlessTorn
<1> QED
  BY <1>1, ReaderInvariant, PTL

(* The pcap never holds more frames than the cap allows, torn or not.      *)
THEOREM KeepsCap == Spec => []CapHolds
<1>1. ReaderInv => CapHolds
  BY DEF ReaderInv
<1> QED
  BY <1>1, ReaderInvariant, PTL

(* An end without an error is one that was asked for, and leaves a pcap.   *)
THEOREM EndsCleanly == Spec => []CleanEnd
<1>1. ReaderInv => CleanEnd
  BY DEF ReaderInv
<1> QED
  BY <1>1, ReaderInvariant, PTL

(***************************************************************************)
(* The conversation that configures a direct-SSH capture: it goes on only  *)
(* with the channel and the width it asked for, for any number of polls,   *)
(* and however late and however many at a time the answers come; and it    *)
(* stays in step as long as no command runs out of time.                   *)
(***************************************************************************)
LEMMA RangeEmpty == Cli!Range(<< >>) = {}
  BY DEF Cli!Range

LEMMA RangeAppend ==
  ASSUME NEW S, NEW s \in Seq(S), NEW x \in S
  PROVE  Cli!Range(Append(s, x)) = Cli!Range(s) \cup {x}
<1>1. DOMAIN Append(s, x) = 1..(Len(s) + 1) /\ Append(s, x)[Len(s) + 1] = x
  OBVIOUS
<1>2. \A i \in DOMAIN s : Append(s, x)[i] = s[i] /\ i \in DOMAIN Append(s, x)
  OBVIOUS
<1>3. \A i \in DOMAIN Append(s, x) : i = Len(s) + 1 \/ i \in DOMAIN s
  BY <1>1
<1> QED
  BY <1>1, <1>2, <1>3 DEF Cli!Range

LEMMA RangeConcat ==
  ASSUME NEW S, NEW s \in Seq(S), NEW t \in Seq(S)
  PROVE  Cli!Range(s \o t) = Cli!Range(s) \cup Cli!Range(t)
<1>1. DOMAIN (s \o t) = 1..(Len(s) + Len(t))
  OBVIOUS
<1>2. ASSUME NEW i \in DOMAIN s PROVE s[i] \in Cli!Range(s \o t)
  BY <1>1 DEF Cli!Range
<1>3. ASSUME NEW i \in DOMAIN t PROVE t[i] \in Cli!Range(s \o t)
  <2>1. (s \o t)[Len(s) + i] = t[i] /\ Len(s) + i \in DOMAIN (s \o t)
    BY <1>1
  <2> QED
    BY <2>1 DEF Cli!Range
<1>4. ASSUME NEW i \in DOMAIN (s \o t) PROVE (s \o t)[i] \in Cli!Range(s) \cup Cli!Range(t)
  <2>1. CASE i <= Len(s)
    BY <1>1, <2>1 DEF Cli!Range
  <2>2. CASE i > Len(s)
    <3>1. (s \o t)[i] = t[i - Len(s)] /\ i - Len(s) \in DOMAIN t
      BY <1>1, <2>2
    <3> QED
      BY <3>1 DEF Cli!Range
  <2> QED
    BY <1>1, <2>1, <2>2
<1> QED
  BY <1>2, <1>3, <1>4 DEF Cli!Range

LEMMA HeadTail ==
  ASSUME NEW S, NEW s \in Seq(S), s # << >>
  PROVE  /\ Head(s) \in S /\ Tail(s) \in Seq(S) /\ Head(s) = s[1] /\ 1 \in DOMAIN s
         /\ \A i \in DOMAIN Tail(s) : i + 1 \in DOMAIN s /\ Tail(s)[i] = s[i + 1]
         /\ Cli!Range(Tail(s)) \subseteq Cli!Range(s) /\ Head(s) \in Cli!Range(s)
  BY DEF Cli!Range

(* What is read is in what was read.                                       *)
LEMMA ReadsIn ==
  ASSUME NEW t, NEW c, NEW v, Cli!Reads(t, c, v)
  PROVE  [cmd |-> c, says |-> v] \in Cli!Range(t)
  BY DEF Cli!Reads, Cli!Range

Later == {"note", "clock", "state", "stream", "done"}

(* Steps that send nothing and after which no new answer is on its way.    *)
LEMMA CliInit == Cli!Init => Cli!CliInv
<1> SUFFICES ASSUME Cli!Init PROVE Cli!CliInv
  OBVIOUS
<1>1. Cli!TypeOK
  BY DEF Cli!Init, Cli!TypeOK, Cli!Steps, Cli!Setting
<1>2. Cli!InOrder
  <2>1. DOMAIN todo = {}
    BY DEF Cli!Init
  <2> QED
    BY <2>1 DEF Cli!InOrder, Cli!Before
<1>3. Cli!Range(todo) = {} /\ Cli!Range(out) = {} /\ Cli!Range(text) = {} /\ at = "login"
  BY RangeEmpty DEF Cli!Init
<1> QED
  BY <1>1, <1>2, <1>3
     DEF Cli!CliInv, Cli!ChannelTruth, Cli!WidthTruth, Cli!Unasked, Cli!Confirmed, Cli!Heard

(* The client goes on to the next step, and hears nothing new.             *)
LEMMA Moves ==
  ASSUME Cli!CliInv, UNCHANGED <<todo, value>>,
         at' \in Cli!Steps \cup Cli!Over, out' \in Seq(Cli!Pieces), text' \in Seq(Cli!Pieces),
         Cli!Range(out') \cup Cli!Range(text') \subseteq Cli!Range(out) \cup Cli!Range(text),
         \/ at' \in {at, "raised"}
         \/ at \in {"login", "tune"} /\ at' \in {"tune", "confirm"}
         \/ at = "login" /\ at' = "widen" /\ "channel" \notin Wants
         \/ at = "login" /\ at' = "note" /\ Wants \cap {"channel", "width"} = {}
         \/ at = "confirm" /\ at' = "widen" /\ Cli!Heard("get channel")
         \/ /\ at = "confirm" /\ at' = "note"
                   /\ Cli!Heard("get channel") /\ "width" \notin Wants
         \/ at = "widen" /\ at' = "check"
         \/ at = "check" /\ at' = "note" /\ Cli!Heard("get width")
         \/ at \in Later /\ at' \in Later
  PROVE  Cli!CliInv'
<1> USE DEF Cli!CliInv
<1>1. Cli!TypeOK'
  BY DEF Cli!TypeOK
<1>2. Cli!InOrder'
  BY DEF Cli!InOrder
<1>3. Cli!ChannelTruth' /\ Cli!WidthTruth'
  BY DEF Cli!ChannelTruth, Cli!WidthTruth, Cli!Heard
<1>4. Cli!Unasked'
  BY DEF Cli!Unasked, Cli!Heard, Later
<1>5. Cli!Confirmed'
  BY DEF Cli!Confirmed, Cli!ChannelTruth, Cli!WidthTruth, Later, Cli!Setting
<1> QED
  BY <1>1, <1>2, <1>3, <1>4, <1>5

(* In a sequence where every x comes before every y, one more element      *)
(* keeps the order, unless it is an x and there are y.                     *)
LEMMA AppendOrder ==
  ASSUME NEW S, NEW s \in Seq(S), NEW c \in S, NEW x, NEW y, x # y,
         Cli!Before(s, x, y), c = x => y \notin Cli!Range(s)
  PROVE  Cli!Before(Append(s, c), x, y)
<1>1. \A i \in DOMAIN Append(s, c) :
        \/ i = Len(s) + 1 /\ Append(s, c)[i] = c
        \/ i \in DOMAIN s /\ Append(s, c)[i] = s[i] /\ i < Len(s) + 1
  OBVIOUS
<1>2. \A i \in DOMAIN s : s[i] = y => c # x
  BY DEF Cli!Range
<1> QED
  BY <1>1, <1>2 DEF Cli!Before

LEMMA TailOrder ==
  ASSUME NEW S, NEW s \in Seq(S), s # << >>, NEW x, NEW y, Cli!Before(s, x, y)
  PROVE  Cli!Before(Tail(s), x, y) /\ (Head(s) = y => x \notin Cli!Range(Tail(s)))
<1>1. /\ \A i \in DOMAIN Tail(s) : i \in Nat /\ i + 1 \in DOMAIN s /\ Tail(s)[i] = s[i + 1]
      /\ Head(s) = s[1] /\ 1 \in DOMAIN s
  OBVIOUS
<1>2. \A i, k \in DOMAIN Tail(s) : k + 1 < i + 1 => k < i
  BY <1>1
<1>3. \A i \in DOMAIN Tail(s) : ~(i + 1 < 1)
  BY <1>1
<1> QED
  BY <1>1, <1>2, <1>3 DEF Cli!Before, Cli!Range

(* A command is sent: a question about the width only after the width.     *)
LEMMA SendKeeps == ASSUME Cli!CliInv, Cli!Send PROVE Cli!CliInv'
<1> USE DEF Cli!CliInv
<1>1. /\ UNCHANGED <<at, out, value>>
      /\ text' = << >> /\ at \in Cli!Steps \ {"login"}
  BY DEF Cli!Send, Cli!radioVars
<1>2. PICK c \in Cli!Commands : todo' = Append(todo, c) /\ c = Cli!Command(at)
  BY DEF Cli!Send, Cli!Command, Cli!Commands, Cli!Steps
<1>3. /\ c = "set width" => at = "widen"
      /\ c = "get width" => at = "check"
  BY <1>1, <1>2 DEF Cli!Command, Cli!Steps
<1>4. todo \in Seq(Cli!Commands)
  BY DEF Cli!TypeOK
<1>5. Cli!Range(todo') = Cli!Range(todo) \cup {c} /\ Cli!Range(text') = {}
  BY <1>1, <1>2, <1>4, RangeAppend, RangeEmpty
<1>6. Cli!Heard("get width")' => Cli!Heard("get width")
  BY <1>1, <1>5 DEF Cli!Heard
<1>7. Cli!Heard("get channel")' => Cli!Heard("get channel")
  BY <1>1, <1>5 DEF Cli!Heard
<1>8. Cli!TypeOK'
  <2>1. text' \in Seq(Cli!Pieces)
    BY <1>1
  <2>2. todo' \in Seq(Cli!Commands)
    BY <1>2, <1>4
  <2> QED
    BY <1>1, <2>1, <2>2 DEF Cli!TypeOK
<1>9. "get width" \notin Cli!Range(todo) \/ c # "set width"
  BY <1>3 DEF Cli!Unasked
<1>10. Cli!InOrder'
  BY <1>2, <1>4, <1>9, AppendOrder DEF Cli!InOrder
<1>11. Cli!ChannelTruth' /\ Cli!WidthTruth'
  BY <1>3, <1>1, <1>5, <1>6, <1>7 DEF Cli!ChannelTruth, Cli!WidthTruth, Cli!Unasked
<1>12. Cli!Unasked' /\ Cli!Confirmed'
  BY <1>3, <1>1, <1>5, <1>6 DEF Cli!Unasked, Cli!Confirmed
<1> QED
  BY <1>8, <1>10, <1>11, <1>12

(* Answers that are read, in time or not, and what is made of them.        *)
LEMMA ClientKeeps ==
  ASSUME Cli!CliInv,
         \/ Cli!LoggedIn \/ Cli!LoginFails \/ Cli!WidthUnsupported
         \/ Cli!Recv \/ Cli!Returns \/ Cli!TimesOut
  PROVE  Cli!CliInv'
<1>1. out \in Seq(Cli!Pieces) /\ text \in Seq(Cli!Pieces)
  BY DEF Cli!CliInv, Cli!TypeOK
<1>2. /\ text \o out \in Seq(Cli!Pieces)
      /\ Cli!Range(text \o out) = Cli!Range(text) \cup Cli!Range(out)
  BY <1>1, RangeConcat
<1>3. << >> \in Seq(Cli!Pieces) /\ Cli!Range(<< >>) = {}
  BY RangeEmpty
<1>4. CASE Cli!LoggedIn \/ Cli!LoginFails \/ Cli!WidthUnsupported
  <2>1. /\ UNCHANGED <<todo, value, out, text>>
        /\ \/ at' = "raised"
           \/ at = "login" /\ at' = "tune"
           \/ at = "login" /\ at' = "widen" /\ "channel" \notin Wants
           \/ at = "login" /\ at' = "note" /\ Wants \cap {"channel", "width"} = {}
    BY <1>4 DEF Cli!LoggedIn, Cli!LoginFails, Cli!WidthUnsupported, Cli!apVars, Cli!radioVars
  <2> QED
    BY <1>1, <2>1, Moves DEF Cli!Steps, Cli!Over
<1>5. CASE Cli!Recv
  <2>1. UNCHANGED <<at, todo, value>> /\ text' = text \o out /\ out' = << >>
    BY <1>5 DEF Cli!Recv, Cli!radioVars
  <2>2. at \in Cli!Steps \cup Cli!Over
    BY DEF Cli!CliInv, Cli!TypeOK
  <2> QED
    BY <1>2, <1>3, <2>1, <2>2, Moves
<1>6. ASSUME NEW t, Cli!Range(t) \subseteq Cli!Range(out) \cup Cli!Range(text), Cli!After(t)
      PROVE  /\ at' \in Cli!Steps \cup Cli!Over
             /\ \/ at' \in {at, "raised"}
                \/ at = "tune" /\ at' = "confirm"
                \/ at = "confirm" /\ at' = "widen" /\ Cli!Heard("get channel")
                \/ /\ at = "confirm" /\ at' = "note"
                   /\ Cli!Heard("get channel") /\ "width" \notin Wants
                \/ at = "widen" /\ at' = "check"
                \/ at = "check" /\ at' = "note" /\ Cli!Heard("get width")
                \/ at \in Later /\ at' \in Later
  <2>1. at = "confirm" /\ Cli!Reads(t, "get channel", "asked") => Cli!Heard("get channel")
    BY <1>6, ReadsIn DEF Cli!Heard
  <2>2. at = "check" /\ Cli!Reads(t, "get width", "asked") => Cli!Heard("get width")
    BY <1>6, ReadsIn DEF Cli!Heard
  <2> QED
    BY <1>6, <2>1, <2>2
       DEF Cli!After, Cli!AfterConfirm, Cli!AfterStream, Cli!Steps, Cli!Over, Later
<1>7. CASE Cli!Returns
  <2>1. UNCHANGED <<todo, value>> /\ text' = << >> /\ out' = << >> /\ Cli!After(text \o out)
    BY <1>7 DEF Cli!Returns, Cli!radioVars
  <2> QED
    BY <1>2, <1>3, <1>6, <2>1, Moves
<1>8. CASE Cli!TimesOut
  <2>1. UNCHANGED <<todo, value>> /\ text' = << >> /\ out' \in {out, << >>} /\ Cli!After(text)
    BY <1>8 DEF Cli!TimesOut, Cli!radioVars
  <2> QED
    BY <1>1, <1>3, <1>6, <2>1, Moves
<1> QED
  BY <1>4, <1>5, <1>7, <1>8

(* Something that is no late confirmation is on its way.                   *)
LEMMA WritesTo ==
  ASSUME out \in Seq(Cli!Pieces), NEW x \in Cli!Pieces, Cli!Writes(x)
  PROVE  out' \in Seq(Cli!Pieces) /\ Cli!Range(out') \subseteq Cli!Range(out) \cup {x}
<1>1. CASE at \in Cli!Over
  BY <1>1 DEF Cli!Writes
<1>2. CASE at \notin Cli!Over
  <2>1. out' = Append(out, x)
    BY <1>2 DEF Cli!Writes
  <2> QED
    BY <2>1, RangeAppend
<1> QED
  BY <1>1, <1>2

(* The access point works off a command: the answer tells what is set.     *)
LEMMA WorksKeeps == ASSUME Cli!CliInv, Cli!Works PROVE Cli!CliInv'
<1> USE DEF Cli!CliInv
<1>1. PICK c \in Cli!Commands, v \in {"asked", "other", "ok", "active", "inactive", "busy"} :
        /\ c = Head(todo) /\ Cli!Writes([cmd |-> c, says |-> v])
        /\ c = "get channel" => v = value["channel"]
        /\ c = "get width" => v = value["width"]
        /\ \/ UNCHANGED value
           \/ /\ c = "set width"
              /\ \E w \in {"asked", "other"} : value' = [value EXCEPT !["width"] = w]
  <2>1. todo \in Seq(Cli!Commands) /\ todo # << >>
    BY DEF Cli!Works, Cli!TypeOK
  <2>2. Head(todo) \in Cli!Commands
    BY <2>1, HeadTail
  <2>3. value["channel"] \in {"asked", "other"} /\ value["width"] \in {"asked", "other"}
    BY DEF Cli!TypeOK, Cli!Setting
  <2> QED
    BY <2>2, <2>3 DEF Cli!Works, Cli!radioVars, Cli!Commands
<1>2. /\ UNCHANGED <<at, text>>
      /\ todo' = Tail(todo) /\ todo # << >> /\ todo \in Seq(Cli!Commands)
  BY DEF Cli!Works, Cli!cliVars, Cli!TypeOK
<1>3. /\ todo' \in Seq(Cli!Commands) /\ Cli!Range(todo') \subseteq Cli!Range(todo)
      /\ Head(todo) \in Cli!Range(todo)
  BY <1>2, HeadTail
<1>4. [cmd |-> c, says |-> v] \in Cli!Pieces
  BY DEF Cli!Pieces
<1>5. /\ out' \in Seq(Cli!Pieces)
      /\ Cli!Range(out') \subseteq Cli!Range(out) \cup {[cmd |-> c, says |-> v]}
  BY <1>1, <1>4, WritesTo DEF Cli!TypeOK
<1>6. Cli!InOrder' /\ (c = "get width" => "set width" \notin Cli!Range(todo'))
  BY <1>1, <1>2, TailOrder DEF Cli!InOrder
<1>7. Cli!TypeOK'
  <2>1. value' \in [Cli!Setting -> {"asked", "other"}]
    BY <1>1 DEF Cli!TypeOK, Cli!Setting
  <2> QED
    BY <1>2, <1>3, <1>5, <2>1 DEF Cli!TypeOK
<1>8. value'["channel"] = value["channel"] /\ (c # "set width" => value' = value)
  BY <1>1 DEF Cli!TypeOK, Cli!Setting
<1>9. Cli!ChannelTruth'
  BY <1>1, <1>2, <1>5, <1>8 DEF Cli!ChannelTruth, Cli!Heard
<1>10. Cli!WidthTruth'
  <2>1. Cli!Heard("get width")' => Cli!Heard("get width") \/ (c = "get width" /\ v = "asked")
    BY <1>2, <1>5 DEF Cli!Heard
  <2>2. c = "set width" => ~Cli!Heard("get width")
    BY <1>1, <1>3 DEF Cli!WidthTruth
  <2> QED
    BY <1>1, <1>3, <1>6, <1>8, <2>1, <2>2 DEF Cli!WidthTruth
<1>11. Cli!Unasked'
  <2>1. Cli!Heard("get width")' => Cli!Heard("get width") \/ "get width" \in Cli!Range(todo)
    BY <1>1, <1>2, <1>3, <1>5 DEF Cli!Heard
  <2> QED
    BY <1>2, <1>3, <2>1 DEF Cli!Unasked
<1>12. Cli!Confirmed'
  BY <1>1, <1>2, <1>3, <1>8 DEF Cli!Confirmed
<1> QED
  BY <1>6, <1>7, <1>9, <1>10, <1>11, <1>12

LEMMA RadioKeeps == ASSUME Cli!CliInv, Cli!Prompts \/ Cli!Retunes PROVE Cli!CliInv'
<1> USE DEF Cli!CliInv
<1>1. CASE Cli!Prompts
  <2>1. UNCHANGED <<at, text, todo, value>> /\ Cli!Writes(Cli!Prompt)
    BY <1>1 DEF Cli!Prompts, Cli!cliVars, Cli!radioVars
  <2>2. Cli!Prompt \in Cli!Pieces
    BY DEF Cli!Prompt, Cli!Pieces
  <2>3. out' \in Seq(Cli!Pieces) /\ Cli!Range(out') \subseteq Cli!Range(out) \cup {Cli!Prompt}
    BY <2>1, <2>2, WritesTo DEF Cli!TypeOK
  <2>4. Cli!Heard("get width")' => Cli!Heard("get width")
    BY <2>1, <2>3 DEF Cli!Heard, Cli!Prompt
  <2>5. Cli!Heard("get channel")' => Cli!Heard("get channel")
    BY <2>1, <2>3 DEF Cli!Heard, Cli!Prompt
  <2>6. Cli!TypeOK' /\ Cli!InOrder'
    BY <2>1, <2>3 DEF Cli!TypeOK, Cli!InOrder, Cli!Before
  <2> QED
    BY <2>1, <2>4, <2>5, <2>6 DEF Cli!ChannelTruth, Cli!WidthTruth, Cli!Unasked, Cli!Confirmed
<1>2. CASE Cli!Retunes
  <2>1. /\ UNCHANGED <<at, text, todo, out>>
        /\ value' = [value EXCEPT !["channel"] = "asked"]
    BY <1>2 DEF Cli!Retunes, Cli!cliVars
  <2>2. /\ value' \in [Cli!Setting -> {"asked", "other"}]
        /\ value'["channel"] = "asked" /\ value'["width"] = value["width"]
    BY <2>1 DEF Cli!TypeOK, Cli!Setting
  <2>3. Cli!TypeOK' /\ Cli!InOrder'
    BY <2>1, <2>2 DEF Cli!TypeOK, Cli!InOrder, Cli!Before
  <2> QED
    BY <2>1, <2>2, <2>3
       DEF Cli!ChannelTruth, Cli!WidthTruth, Cli!Unasked, Cli!Confirmed, Cli!Heard
<1> QED
  BY <1>1, <1>2

LEMMA CliKeeps == Cli!CliInv /\ [Cli!Next]_(Cli!vars) => Cli!CliInv'
<1> SUFFICES ASSUME Cli!CliInv, [Cli!Next]_(Cli!vars) PROVE Cli!CliInv'
  OBVIOUS
<1>1. CASE UNCHANGED Cli!vars
  BY <1>1
     DEF Cli!vars, Cli!cliVars, Cli!apVars, Cli!radioVars, Cli!CliInv, Cli!TypeOK, Cli!InOrder,
         Cli!Before,
              Cli!ChannelTruth, Cli!WidthTruth, Cli!Unasked, Cli!Confirmed, Cli!Heard
<1> QED
  BY <1>1, SendKeeps, ClientKeeps, WorksKeeps, RadioKeeps DEF Cli!Next, Cli!ClientStep

(* A capture goes on only if the radio has the channel and the width it    *)
(* asked for, for any time limits and any number of polls.                 *)
THEOREM SettingsReallyTook ==
  ASSUME Wants \subseteq Cli!Setting
  PROVE  Cli!Spec => []Cli!SettingsTook
<1>1. Cli!CliInv => Cli!SettingsTook
  BY DEF Cli!CliInv, Cli!Confirmed, Cli!SettingsTook, Cli!Setting
<1> QED
  BY <1>1, CliInit, CliKeeps, PTL DEF Cli!Spec
-----------------------------------------------------------------------------
(***************************************************************************)
(* As long as no command ran out of time, the conversation is in step:     *)
(* between commands nothing is on its way, and what is read is the answer  *)
(* to the command that was sent.                                           *)
(***************************************************************************)
Says == {"asked", "other", "ok", "active", "inactive", "busy"}

Truthful(v) ==
  /\ at = "check" => v = value["width"]
  /\ at = "state" => v = (IF ready THEN "active" ELSE "inactive")
  /\ at = "stream" => IF busy THEN v = "busy" ELSE v = "ok" /\ streaming

Answered(v) == [cmd |-> Cli!Command(at), says |-> v]

InTurn ==
  IF reading
  THEN /\ at \in Cli!Steps \ {"login"}
       /\ \/ todo = <<Cli!Command(at)>> /\ ~prompting /\ text \o out = << >>
          \/ /\ todo = << >>
             /\ \E v \in Says : /\ Truthful(v)
                     /\ \/ prompting /\ text \o out = <<Answered(v)>>
                        \/ ~prompting /\ text \o out = <<Answered(v), Cli!Prompt>>
  ELSE todo = << >> /\ ~prompting /\ text = << >> /\ out = << >>

InTime ==
  ~late => InTurn /\ (at = "stream" => ready) /\ (at = "done" => streaming)

LEMMA ConcatFacts ==
  ASSUME NEW S, NEW s \in Seq(S), NEW t \in Seq(S), NEW x \in S
  PROVE  /\ s \o << >> = s
         /\ << >> \o s = s
         /\ s \o Append(t, x) = Append(s \o t, x)
         /\ s \o t \in Seq(S)
         /\ s \o t = << >> => s = << >> /\ t = << >>
  OBVIOUS

(* What is in the text that was read is in all that has come.              *)
LEMMA PromptedLater ==
  ASSUME text \in Seq(Cli!Pieces), out \in Seq(Cli!Pieces), Cli!Prompted(text)
  PROVE  Cli!Prompted(text \o out)
<1>1. PICK i \in 1..Len(text) : text[i] = Cli!Prompt
  BY DEF Cli!Prompted, Cli!Contains
<1>2. i \in 1..Len(text \o out) /\ (text \o out)[i] = text[i]
  OBVIOUS
<1> QED
  BY <1>1, <1>2 DEF Cli!Prompted, Cli!Contains

(* Only a whole answer ends in a prompt, and then all of it has come.      *)
LEMMA PromptEndsAnswer ==
  ASSUME Cli!TypeOK, InTurn, reading, Cli!Prompted(text)
  PROVE  /\ todo = << >> /\ ~prompting
         /\ \E v \in Says : Truthful(v) /\ text \o out = <<Answered(v), Cli!Prompt>>
<1>1. Cli!Prompted(text \o out)
  BY PromptedLater DEF Cli!TypeOK
<1>2. ~Cli!Prompted(<< >>)
  BY DEF Cli!Prompted, Cli!Contains
<1>3. \A v : ~Cli!Prompted(<<Answered(v)>>)
  <2>1. \A v : Answered(v).cmd # "none"
    BY DEF Answered, Cli!Command, InTurn, Cli!Steps
  <2> QED
    BY <2>1 DEF Cli!Prompted, Cli!Contains, Cli!Prompt
<1> QED
  BY <1>1, <1>2, <1>3 DEF InTurn

LEMMA AppendToOne ==
  ASSUME NEW a, NEW b PROVE Append(<<a>>, b) = <<a, b>>
<1>1. <<a>> \in Seq({a, b}) /\ <<a, b>> \in Seq({a, b}) /\ Len(<<a>>) = 1
  OBVIOUS
<1>2. Append(<<a>>, b) \in Seq({a, b}) /\ Len(Append(<<a>>, b)) = 2
  BY <1>1
<1>3. Append(<<a>>, b)[1] = a /\ Append(<<a>>, b)[2] = b
  BY <1>1
<1>4. Len(<<a, b>>) = 2 /\ \A i \in 1..2 : Append(<<a>>, b)[i] = <<a, b>>[i]
  BY <1>3
<1> QED
  BY <1>1, <1>2, <1>4, SeqEqual

LEMMA PairContains ==
  ASSUME NEW a, NEW b, NEW e
  PROVE  Cli!Contains(<<a, b>>, e) <=> e = a \/ e = b
<1>1. Len(<<a, b>>) = 2 /\ <<a, b>>[1] = a /\ <<a, b>>[2] = b
  OBVIOUS
<1>2. 1..2 = {1, 2}
  OBVIOUS
<1> QED
  BY <1>1, <1>2 DEF Cli!Contains

LEMMA ReadsFirst ==
  ASSUME NEW a, NEW b, NEW c, NEW v, a = [cmd |-> c, says |-> v]
  PROVE  Cli!Reads(<<a, b>>, c, v)
<1>1. DOMAIN <<a, b>> = 1..2 /\ <<a, b>>[1] = a
  OBVIOUS
<1>2. 1 \in 1..2 /\ 1..(1-1) = {}
  OBVIOUS
<1> QED
  BY <1>1, <1>2 DEF Cli!Reads

(* What a step makes of a whole answer.                                    *)
LEMMA HeardRight ==
  ASSUME Cli!TypeOK, InTurn, reading, NEW v \in Says, Truthful(v), NEW t,
         t = <<Answered(v), Cli!Prompt>>, Cli!After(t), at = "stream" => ready
  PROVE  /\ at' = "stream" => ready
         /\ at' = "done" => streaming
         /\ at' = "raised" => \/ at = "confirm"
                              \/ at = "check" /\ value["width"] = "other"
                              \/ at = "state" /\ ~ready
                              \/ at = "stream" /\ busy
<1>1. at \in Cli!Steps \ {"login"}
  BY DEF InTurn
<1>2. at = "check" /\ v = "asked" => Cli!Reads(t, "get width", "asked")
  BY ReadsFirst DEF Answered, Cli!Command
<1>3. \A c, w : c # "none" /\ Cli!Command(at) = c =>
        (Cli!Said(t, c, w) <=> v = w)
  <2> SUFFICES ASSUME NEW c, NEW w, c # "none", Cli!Command(at) = c
               PROVE  Cli!Said(t, c, w) <=> v = w
    OBVIOUS
  <2>1. Cli!Said(t, c, w) <=> \/ [cmd |-> c, says |-> w] = Answered(v)
                          \/ [cmd |-> c, says |-> w] = Cli!Prompt
    BY PairContains DEF Cli!Said
  <2> QED
    BY <2>1 DEF Answered, Cli!Prompt
<1>4. /\ at = "state" => (Cli!Said(t, "get state", "inactive") <=> v = "inactive")
      /\ at = "stream" => (Cli!Said(t, "set capture", "busy") <=> v = "busy")
  <2>1. at = "state" => Cli!Command(at) = "get state"
    BY DEF Cli!Command
  <2>2. at = "stream" => Cli!Command(at) = "set capture"
    BY DEF Cli!Command
  <2> QED
    BY <1>3, <2>1, <2>2
<1>5. value["width"] \in {"asked", "other"}
  BY DEF Cli!TypeOK, Cli!Setting
<1>6. CASE at \in {"tune", "confirm", "widen", "note", "clock"}
  BY <1>6 DEF Cli!After, Cli!AfterConfirm
<1>7. CASE at = "check"
  BY <1>2, <1>5, <1>7 DEF Cli!After, Truthful
<1>8. CASE at = "state"
  BY <1>4, <1>8 DEF Cli!After, Truthful
<1>9. CASE at = "stream"
  BY <1>4, <1>9 DEF Cli!After, Cli!AfterStream, Truthful
<1> QED
  BY <1>1, <1>6, <1>7, <1>8, <1>9 DEF Cli!Steps

(* The conversation stays in step, and goes on only as the radio allows.   *)
LEMMA ClientInTime ==
  ASSUME Cli!CliInv, InTime, Cli!ClientStep, ~late'
  PROVE  /\ InTime'
         /\ at' = "done" => streaming'
         /\ at' = "raised" /\ at # "raised" =>
              \/ at \in {"login", "confirm"} \/ (at = "widen" /\ ~reading)
              \/ at = "check"  /\ value["width"] = "other"
              \/ at = "state"  /\ ~ready
              \/ at = "stream" /\ busy
<1>1. Cli!TypeOK /\ text \in Seq(Cli!Pieces) /\ out \in Seq(Cli!Pieces)
  BY DEF Cli!CliInv, Cli!TypeOK
<1>2. InTurn /\ ~late /\ (at = "stream" => ready) /\ (at = "done" => streaming)
  BY
     DEF InTime, Cli!ClientStep, Cli!LoggedIn, Cli!LoginFails, Cli!Send, Cli!WidthUnsupported,
         Cli!Recv, Cli!Returns, Cli!TimesOut
<1>3. CASE Cli!LoggedIn \/ Cli!LoginFails \/ Cli!WidthUnsupported
  <2>1. /\ UNCHANGED <<reading, text, todo, prompting, out, value, ready, busy, streaming>>
        /\ ~reading /\ at' \in {"tune", "widen", "note", "raised"}
        /\ at' = "raised" => at \in {"login", "widen"}
    BY <1>2, <1>3
       DEF Cli!LoggedIn, Cli!LoginFails, Cli!WidthUnsupported, Cli!apVars, Cli!radioVars, InTurn
  <2>2. InTurn'
    BY <1>2, <2>1 DEF InTurn
  <2> QED
    BY <2>1, <2>2 DEF InTime
<1>4. CASE Cli!Send
  <2>1. /\ at \in Cli!Steps \ {"login"} /\ ~reading /\ reading' = TRUE /\ text' = << >>
        /\ todo' = Append(todo, Cli!Command(at))
        /\ UNCHANGED <<at, prompting, out, value, ready, busy, streaming>>
    BY <1>4 DEF Cli!Send, Cli!radioVars
  <2>2. todo' = <<Cli!Command(at)>> /\ ~prompting /\ out = << >>
    BY <1>2, <2>1 DEF InTurn
  <2>3. text' \o out' = << >>
    BY <2>1, <2>2
  <2>4. InTurn'
    BY <2>1, <2>2, <2>3 DEF InTurn, Cli!Command
  <2> QED
    BY <1>2, <2>1, <2>4 DEF InTime, Cli!Steps
<1>5. CASE Cli!Recv
  <2>1. /\ reading /\ text' = text \o out /\ out' = << >>
        /\ UNCHANGED <<at, reading, todo, prompting, value, ready, busy, streaming>>
    BY <1>5 DEF Cli!Recv, Cli!radioVars
  <2>2. text' \o out' = text \o out
    BY <1>1, <2>1, ConcatFacts
  <2>3. InTurn'
    BY <1>2, <2>1, <2>2 DEF InTurn, Cli!Command, Truthful, Answered, Cli!Prompt
  <2> QED
    BY <1>2, <2>1, <2>3 DEF InTime
<1>6. CASE Cli!Returns
  <2>1. /\ reading /\ Cli!Prompted(text) /\ Cli!After(text \o out)
        /\ reading' = FALSE /\ text' = << >> /\ out' = << >>
        /\ UNCHANGED <<todo, prompting, value, ready, busy, streaming>>
    BY <1>6 DEF Cli!Returns, Cli!radioVars
  <2>2. PICK v \in Says : Truthful(v) /\ text \o out = <<Answered(v), Cli!Prompt>>
    BY <1>1, <1>2, <2>1, PromptEndsAnswer
  <2>3. todo = << >> /\ ~prompting
    BY <1>1, <1>2, <2>1, PromptEndsAnswer
  <2>4. InTurn'
    BY <2>1, <2>3 DEF InTurn
  <2>5. /\ at' = "stream" => ready
        /\ at' = "done" => streaming
        /\ at' = "raised" => \/ at = "confirm"
                             \/ at = "check" /\ value["width"] = "other"
                             \/ at = "state" /\ ~ready
                             \/ at = "stream" /\ busy
    BY <1>1, <1>2, <2>1, <2>2, HeardRight
  <2> QED
    BY <2>1, <2>4, <2>5 DEF InTime
<1>7. CASE Cli!TimesOut
  BY <1>7 DEF Cli!TimesOut
<1> QED
  BY <1>3, <1>4, <1>5, <1>6, <1>7 DEF Cli!ClientStep

(* The access point works one command off and then prompts, once each.     *)
LEMMA ApInTime ==
  ASSUME Cli!CliInv, InTime, Cli!Works \/ Cli!Prompts \/ Cli!Retunes
  PROVE  /\ InTime' /\ at' = at
         /\ ~late' /\ at' = "done" => streaming'
<1>1. Cli!TypeOK /\ text \in Seq(Cli!Pieces) /\ out \in Seq(Cli!Pieces)
  BY DEF Cli!CliInv, Cli!TypeOK
<1>2. UNCHANGED <<at, reading, text, ready, busy, late>>
  BY DEF Cli!Works, Cli!Prompts, Cli!Retunes, Cli!cliVars
<1>3. SUFFICES ASSUME ~late
               PROVE InTurn' /\ (at = "done" => streaming')
  BY <1>2 DEF InTime
<1>4. InTurn /\ (at = "done" => streaming)
  BY <1>3 DEF InTime
<1>5. CASE Cli!Works
  <2>1. todo # << >> /\ reading /\ at \in Cli!Steps \ {"login"} /\ at \notin Cli!Over
        /\ todo = <<Cli!Command(at)>> /\ text \o out = << >>
    BY <1>4, <1>5 DEF InTurn, Cli!Works, Cli!Steps, Cli!Over
  <2>2. Head(todo) = Cli!Command(at) /\ Tail(todo) = << >> /\ text = << >> /\ out = << >>
    BY <1>1, <2>1, ConcatFacts
  <2>3. PICK v \in Says : /\ out' = Append(out, Answered(v))
                          /\ todo' = << >> /\ prompting' = TRUE
                          /\ Truthful(v)'
    <3>1. value["width"] \in {"asked", "other"} /\ value["channel"] \in {"asked", "other"}
      BY <1>1 DEF Cli!TypeOK, Cli!Setting
    <3>2. todo' = << >> /\ prompting' = TRUE
      BY <1>5, <2>1, <2>2 DEF Cli!Works
    <3> DEFINE c == Cli!Command(at)
               Writ(v) == out' = Append(out, [cmd |-> c, says |-> v])
    <3>3. \E v \in Says : Writ(v) /\ Truthful(v)'
      <4>1. CASE at \in {"tune", "widen", "clock"}
        <5>1. Writ("ok")
          BY <1>5, <2>1, <2>2, <4>1 DEF Cli!Works, Cli!Writes, Cli!Command
        <5>2. Truthful("ok")'
          BY <1>2, <4>1 DEF Truthful
        <5> QED
          BY <5>1, <5>2 DEF Says
      <4>2. CASE at \in {"confirm", "note"}
        <5>1. Writ(value["channel"])
          BY <1>5, <2>1, <2>2, <4>2 DEF Cli!Works, Cli!Writes, Cli!Command
        <5>2. \A v : Truthful(v)'
          BY <1>2, <4>2 DEF Truthful
        <5> QED
          BY <3>1, <5>1, <5>2 DEF Says
      <4>3. CASE at = "check"
        <5>1. Writ(value["width"]) /\ value' = value
          BY <1>5, <2>1, <2>2, <4>3 DEF Cli!Works, Cli!Writes, Cli!Command, Cli!radioVars
        <5>2. \A v : v = value["width"] => Truthful(v)'
          BY <1>2, <4>3, <5>1 DEF Truthful
        <5> QED
          BY <3>1, <5>1, <5>2 DEF Says
      <4>4. CASE at = "state"
        <5>1. Writ(IF ready THEN "active" ELSE "inactive")
          BY <1>5, <2>1, <2>2, <4>4 DEF Cli!Works, Cli!Writes, Cli!Command
        <5>2. \A v : v = (IF ready THEN "active" ELSE "inactive") => Truthful(v)'
          BY <1>2, <4>4 DEF Truthful
        <5> QED
          BY <5>1, <5>2 DEF Says
      <4>5. CASE at = "stream"
        <5>1. ready
          BY <1>3, <4>5 DEF InTime
        <5>2. \/ busy /\ Writ("busy")
              \/ ~busy /\ Writ("ok") /\ streaming'
          BY <1>5, <2>1, <2>2, <4>5, <5>1 DEF Cli!Works, Cli!Writes, Cli!Command
        <5>3. (busy => Truthful("busy")') /\ (~busy /\ streaming' => Truthful("ok")')
          BY <1>2, <4>5 DEF Truthful
        <5> QED
          BY <5>2, <5>3 DEF Says
      <4> QED
        BY <2>1, <4>1, <4>2, <4>3, <4>4, <4>5 DEF Cli!Steps
    <3> QED
      BY <3>2, <3>3 DEF Answered
  <2>4. text' \o out' = <<Answered(v)>>
    BY <1>2, <2>2, <2>3
  <2>5. Answered(v)' = Answered(v)
    BY <1>2 DEF Answered, Cli!Command
  <2> QED
    BY <1>2, <2>1, <2>3, <2>4, <2>5 DEF InTurn, Cli!Over
<1>6. CASE Cli!Prompts
  <2>1. reading /\ at \in Cli!Steps \ {"login"} /\ at \notin Cli!Over /\ todo = << >>
    BY <1>4, <1>6 DEF InTurn, Cli!Prompts, Cli!Steps, Cli!Over
  <2>2. PICK v \in Says : Truthful(v) /\ text \o out = <<Answered(v)>>
    BY <1>4, <1>6 DEF InTurn, Cli!Prompts
  <2>3. /\ out' = Append(out, Cli!Prompt) /\ ~prompting'
        /\ UNCHANGED <<todo, value, streaming>>
    BY <1>6, <2>1 DEF Cli!Prompts, Cli!Writes, Cli!radioVars
  <2>4. text' \o out' = Append(text \o out, Cli!Prompt)
    <3>1. Cli!Prompt \in Cli!Pieces
      BY DEF Cli!Prompt, Cli!Pieces
    <3> QED
      BY <1>1, <1>2, <2>3, <3>1, ConcatFacts
  <2>5. text' \o out' = <<Answered(v), Cli!Prompt>>
    BY <2>2, <2>4, AppendToOne
  <2>6. Truthful(v)' /\ Answered(v)' = Answered(v) /\ Cli!Prompt' = Cli!Prompt
    BY <1>2, <2>2, <2>3 DEF Truthful, Answered, Cli!Command, Cli!Prompt
  <2> QED
    BY <1>2, <1>4, <2>1, <2>3, <2>5, <2>6 DEF InTurn, Cli!Over
<1>7. CASE Cli!Retunes
  <2>1. /\ UNCHANGED <<todo, prompting, out, streaming>>
        /\ value' = [value EXCEPT !["channel"] = "asked"]
    BY <1>7 DEF Cli!Retunes
  <2>2. value'["width"] = value["width"]
    BY <1>1, <2>1 DEF Cli!TypeOK, Cli!Setting
  <2>3. \A v : (Truthful(v) => Truthful(v)') /\ Answered(v)' = Answered(v)
    BY <1>2, <2>1, <2>2 DEF Truthful, Answered, Cli!Command
  <2> QED
    BY <1>2, <1>4, <2>1, <2>3 DEF InTurn, Cli!Command, Cli!Prompt
<1> QED
  BY <1>5, <1>6, <1>7

LEMMA TimeInit == Cli!Init => InTime
  BY DEF Cli!Init, InTime, InTurn

(* As long as every command is answered in time, a capture goes on only    *)
(* with a radio that streams, and fails only for what was refused.         *)
THEOREM AnswersAreHeard ==
  ASSUME Wants \subseteq Cli!Setting
  PROVE  Cli!Spec => Cli!AnswersHeard
<1> DEFINE Hears ==
      ~late' =>
        /\ at' = "done" => streaming'
        /\ at' = "raised" /\ at # "raised" =>
             \/ at \in {"login", "confirm"} \/ (at = "widen" /\ ~reading)
             \/ at = "check"  /\ value["width"] = "other"
             \/ at = "state"  /\ ~ready
             \/ at = "stream" /\ busy
<1>1. Cli!CliInv /\ InTime /\ [Cli!Next]_(Cli!vars) => InTime'
  <2> SUFFICES ASSUME Cli!CliInv, InTime, [Cli!Next]_(Cli!vars), ~late' PROVE InTime'
    BY DEF InTime
  <2>1. CASE UNCHANGED Cli!vars
    BY <2>1
       DEF Cli!vars, Cli!cliVars, Cli!apVars, Cli!radioVars, InTime, InTurn, Truthful,
           Answered, Cli!Command, Cli!Prompt
  <2> QED
    BY <2>1, ClientInTime, ApInTime DEF Cli!Next
<1>2. Cli!CliInv /\ InTime /\ [Cli!Next]_(Cli!vars) => [Hears]_(Cli!vars)
  BY ClientInTime, ApInTime DEF Cli!Next
<1> QED
  BY <1>1, <1>2, CliInit, CliKeeps, TimeInit, PTL DEF Cli!Spec, Cli!AnswersHeard

(***************************************************************************)
(* How the tap is found. Until a round is over, a tap that was there all   *)
(* round is among the names it still has to open.                          *)
(***************************************************************************)
Elements(s) == {s[i] : i \in DOMAIN s}

ScanInv ==
  /\ tap \in Name \ Skipped
  /\ left \in Seq(Elements(left))
  /\ owed => tapUp /\ phase \in {"list", "probe"}
  /\ owed /\ phase = "probe" => tap \in Elements(left)

(* A set of naturals that is not empty has a least member.                 *)
LEMMA LeastNat ==
  ASSUME NEW T \in SUBSET Nat, T # {}
  PROVE  \E m \in T : \A n \in T : m <= n
<1> DEFINE R == {ss \in Nat \X Nat : ss[1] < ss[2]}
<1>1. R = OpToRel(<, Nat)
  BY DEF OpToRel
<1>2. IsWellFoundedOn(R, Nat)
  BY <1>1, NatLessThanWellFounded
<1>3. \A x, y \in Nat : x < y => <<x, y>> \in R
  OBVIOUS
<1>4. PICK m \in T : \A n \in T : ~(<<n, m>> \in R)
  <2> HIDE DEF R
  <2> QED
    BY <1>2, WFMin
<1>5. \A n \in T : ~(n < m)
  BY <1>3, <1>4
<1>6. m \in Nat /\ \A n \in T : n \in Nat
  OBVIOUS
<1> QED
  BY <1>5, <1>6

(* Subsequence counts with its own instance of FiniteSets.                 *)
LEMMA SameCount == \A S : Scan!Cardinality(S) = Cardinality(S)
  BY DEF Scan!Cardinality, Cardinality

(* No position is passed over when the members of a sequence at some of    *)
(* them are taken: two of them never have as many before them.             *)
LEMMA NoneSkipped ==
  ASSUME NEW n \in Nat, NEW I \in SUBSET (1..n), NEW i \in I
  PROVE  \E k \in 1..Cardinality(I) : Scan!Nth(I, k) = i
<1> DEFINE Upto(j) == {l \in I : l <= j}
           k == Cardinality(Upto(i))
<1>1. IsFiniteSet(I)
  <2>1. IsFiniteSet(1..n)
    BY FS_Interval
  <2> QED
    BY <2>1, FS_Subset
<1>2. ASSUME NEW j \in I
      PROVE  /\ Upto(j) \in SUBSET I /\ j \in Upto(j) /\ IsFiniteSet(Upto(j))
             /\ Cardinality(Upto(j)) \in 1..Cardinality(I)
  <2>1. Upto(j) \in SUBSET I /\ j \in Upto(j)
    OBVIOUS
  <2>2. IsFiniteSet(Upto(j)) /\ Cardinality(Upto(j)) <= Cardinality(I)
    BY <1>1, <2>1, FS_Subset
  <2>3. Cardinality(Upto(j)) \in Nat /\ Cardinality(I) \in Nat
    BY <1>1, <2>2, FS_CardinalityType
  <2>4. Cardinality(Upto(j)) # 0
    BY <2>1, <2>2, FS_EmptySet
  <2> QED
    BY <2>1, <2>2, <2>3, <2>4
<1>3. ASSUME NEW j \in I, NEW l \in I, j < l
      PROVE  Cardinality(Upto(j)) # Cardinality(Upto(l))
  <2>1. Upto(j) \in SUBSET Upto(l) /\ l \notin Upto(j)
    <3>1. j \in Int /\ l \in Int /\ \A x \in I : x \in Int
      OBVIOUS
    <3>2. \A x \in I : x <= j => x <= l
      BY <1>3, <3>1
    <3>3. ~(l <= j)
      BY <1>3, <3>1
    <3> QED
      BY <3>2, <3>3
  <2>2. l \in Upto(l) /\ IsFiniteSet(Upto(l))
    BY <1>2
  <2> HIDE DEF Upto
  <2> QED
    BY <2>1, <2>2, FS_Subset
<1>4. \A j \in I : Cardinality(Upto(j)) = k => j = i
  <2> TAKE j \in I
  <2>1. j < i \/ i < j \/ i = j
    OBVIOUS
  <2> HIDE DEF Upto
  <2> QED
    BY <1>3, <2>1
<1>5. Scan!Nth(I, k) = CHOOSE j \in I : Cardinality(Upto(j)) = k
  BY SameCount DEF Scan!Nth
<1>6. k \in 1..Cardinality(I)
  BY <1>2
<1> HIDE DEF Upto, k
<1>7. Scan!Nth(I, k) = i
  <2>1. Cardinality(Upto(i)) = k
    BY DEF k
  <2> QED
    BY <1>4, <1>5, <2>1
<1> QED
  BY <1>6, <1>7

(* A name that is known or listed, and not one to skip, is a candidate.    *)
LEMMA CandidatesHold ==
  ASSUME NEW found \in Seq(Name), NEW x \in Name \ Skipped,
         Scan!Contains(found, x) \/ Scan!Contains(Known, x)
  PROVE  x \in Elements(Scan!Candidates(found))
<1> DEFINE all == Known \o found
           I == {i \in DOMAIN all : /\ all[i] \notin Skipped
                                    /\ \A j \in 1..i-1 : all[j] # all[i]}
           T == {i \in DOMAIN all : all[i] = x}
<1>1. Known \in Seq(Name) /\ found \in Seq(Name)
  BY PullAssumption DEF Scan!NamesAssumption
<1>2. Len(all) \in Nat /\ DOMAIN all = 1..Len(all)
  BY <1>1
<1>3. T # {}
  <2>1. CASE Scan!Contains(Known, x)
    <3>1. PICK i \in 1..Len(Known) : Known[i] = x
      BY <2>1 DEF Scan!Contains
    <3>2. i \in DOMAIN all /\ all[i] = x
      BY <1>1, <3>1
    <3> QED
      BY <3>2
  <2>2. CASE Scan!Contains(found, x)
    <3>1. PICK i \in 1..Len(found) : found[i] = x
      BY <2>2 DEF Scan!Contains
    <3>2. Len(Known) + i \in DOMAIN all /\ all[Len(Known) + i] = x
      BY <1>1, <3>1
    <3> QED
      BY <3>2
  <2> QED
    BY <2>1, <2>2
<1>4. T \in SUBSET Nat
  BY <1>2
<1> HIDE DEF all
<1>5. PICK p \in T : \A i \in T : p <= i
  BY <1>3, <1>4, LeastNat
<1>6. p \in I
  <2>1. p \in DOMAIN all /\ all[p] = x /\ p \in 1..Len(all)
    BY <1>2, <1>5
  <2>2. ASSUME NEW j \in 1..p-1, all[j] = x PROVE FALSE
    <3>1. j \in DOMAIN all /\ ~(p <= j)
      BY <1>2, <2>1
    <3> QED
      BY <1>5, <2>2, <3>1
  <2> QED
    BY <2>1, <2>2
<1>7. I \in SUBSET (1..Len(all))
  BY <1>2
<1>8. PICK k \in 1..Cardinality(I) : Scan!Nth(I, k) = p
  <2> HIDE DEF I
  <2> QED
    BY <1>2, <1>6, <1>7, NoneSkipped
<1>9. Scan!Candidates(found) = [n \in 1..Cardinality(I) |-> all[Scan!Nth(I, n)]]
  BY SameCount DEF Scan!Candidates, Scan!AtPositions, all
<1> HIDE DEF I
<1>10. Scan!Candidates(found)[k] = x /\ k \in DOMAIN Scan!Candidates(found)
  BY <1>5, <1>8, <1>9
<1> QED
  BY <1>10 DEF Elements

(* What the code goes through is a sequence, whatever was listed.          *)
LEMMA CandidatesSequence ==
  ASSUME NEW found \in Seq(Name)
  PROVE  Scan!Candidates(found) \in Seq(Elements(Scan!Candidates(found)))
<1> DEFINE all == Known \o found
           I == {i \in DOMAIN all : /\ all[i] \notin Skipped
                                    /\ \A j \in 1..i-1 : all[j] # all[i]}
           c == Scan!Candidates(found)
<1>1. Len(all) \in Nat /\ DOMAIN all = 1..Len(all)
  BY PullAssumption DEF Scan!NamesAssumption
<1>2. Cardinality(I) \in Nat
  <2>1. I \in SUBSET (1..Len(all)) /\ IsFiniteSet(1..Len(all))
    BY <1>1, FS_Interval
  <2> HIDE DEF I
  <2> QED
    BY <2>1, FS_Subset, FS_CardinalityType
<1>3. c = [n \in 1..Cardinality(I) |-> all[Scan!Nth(I, n)]]
  BY SameCount DEF Scan!Candidates, Scan!AtPositions
<1> HIDE DEF I, all
<1>4. DOMAIN c = 1..Cardinality(I) /\ c = [n \in 1..Cardinality(I) |-> c[n]]
  BY <1>3
<1> HIDE DEF c
<1> QED
  BY <1>2, <1>4 DEF Elements, c

LEMMA OwnElements ==
  ASSUME NEW S, NEW s \in Seq(S)
  PROVE  s \in Seq(Elements(s))
<1>1. Len(s) \in Nat /\ DOMAIN s = 1..Len(s) /\ s = [i \in 1..Len(s) |-> s[i]]
  OBVIOUS
<1>2. s \in [1..Len(s) -> Elements(s)]
  BY <1>1 DEF Elements
<1> QED
  BY <1>1, <1>2, SeqDef

LEMMA RestOf ==
  ASSUME NEW s, s \in Seq(Elements(s)), s # << >>
  PROVE  /\ Tail(s) \in Seq(Elements(Tail(s)))
         /\ Elements(s) \subseteq {Head(s)} \cup Elements(Tail(s))
<1>1. /\ Len(s) \in Nat \ {0} /\ DOMAIN s = 1..Len(s) /\ Head(s) = s[1]
      /\ Tail(s) \in Seq(Elements(s)) /\ Len(Tail(s)) = Len(s) - 1
      /\ DOMAIN Tail(s) = 1..Len(s)-1
      /\ \A i \in 1..Len(s)-1 : Tail(s)[i] = s[i+1]
  OBVIOUS
<1>2. Tail(s) \in Seq(Elements(Tail(s)))
  BY <1>1, OwnElements
<1>3. ASSUME NEW i \in DOMAIN s PROVE s[i] \in {Head(s)} \cup Elements(Tail(s))
  <2>1. CASE i = 1
    BY <1>1, <2>1
  <2>2. CASE i # 1
    <3>1. i - 1 \in 1..Len(s)-1 /\ (i - 1) + 1 = i
      BY <1>1, <2>2
    <3>2. i - 1 \in DOMAIN Tail(s) /\ Tail(s)[i - 1] = s[i]
      BY <1>1, <3>1
    <3> QED
      BY <3>2 DEF Elements
  <2> QED
    BY <2>1, <2>2
<1> QED
  BY <1>2, <1>3 DEF Elements

LEMMA ScanInit == Scan!Init => ScanInv
  BY DEF Scan!Init, ScanInv, Elements

LEMMA ScanKeeps ==
  ASSUME ScanInv,
         Scan!ScanStep \/ Scan!TapComes \/ Scan!TapGoes \/ UNCHANGED scanVars
  PROVE  ScanInv'
<1> USE DEF ScanInv
<1>1. CASE Scan!NextRound
  BY <1>1 DEF Scan!NextRound, Elements
<1>2. CASE Scan!GivesUp
  BY <1>2 DEF Scan!GivesUp, Elements
<1>3. CASE Scan!Lists
  <2>1. PICK found \in Scan!BoundedSeq(Name, MaxListed) :
          /\ left' = Scan!Candidates(found)
          /\ owed' = (owed /\ (Scan!Contains(found, tap) \/ Scan!Contains(Known, tap)))
    BY <1>3 DEF Scan!Lists
  <2>2. found \in Seq(Name)
    BY <2>1, PullAssumption DEF Scan!BoundedSeq, Scan!SeqOf, Scan!NamesAssumption
  <2>3. owed' => owed /\ tap \in Elements(Scan!Candidates(found))
    BY <2>1, <2>2, CandidatesHold
  <2>4. Scan!Candidates(found) \in Seq(Elements(Scan!Candidates(found)))
    BY <2>2, CandidatesSequence
  <2>5. Elements(left)' = Elements(Scan!Candidates(found))
    BY <2>1 DEF Elements
  <2>6. phase' = "probe" /\ UNCHANGED <<tap, tapUp>>
    BY <1>3 DEF Scan!Lists
  <2> QED
    BY <2>1, <2>3, <2>4, <2>5, <2>6
<1>4. CASE Scan!OpenFails \/ Scan!OpensOther
  <2>1. /\ phase = "probe" /\ left # << >> /\ left' = Tail(left)
        /\ owed' => owed /\ Head(left) # tap
        /\ UNCHANGED <<phase, tap, tapUp>>
    <3>1. CASE Scan!OpenFails
      BY Zenon, <3>1 DEF Scan!OpenFails
    <3>2. CASE Scan!OpensOther
      BY Zenon, <3>2 DEF Scan!OpensOther
    <3> QED
      BY <1>4, <3>1, <3>2
  <2>2. /\ Tail(left) \in Seq(Elements(Tail(left)))
        /\ Elements(left) \subseteq {Head(left)} \cup Elements(Tail(left))
    BY <2>1, RestOf
  <2>3. Elements(left)' = Elements(Tail(left))
    BY <2>1 DEF Elements
  <2> QED
    BY <2>1, <2>2, <2>3
<1>5. CASE Scan!OpensTap
  BY <1>5 DEF Scan!OpensTap, Elements
<1>6. CASE Scan!RoundOver
  <2>1. left = << >> => Elements(left) = {}
    BY DEF Elements
  <2> QED
    BY <1>6, <2>1 DEF Scan!RoundOver, Elements
<1>7. CASE Scan!TapComes
  BY <1>7 DEF Scan!TapComes, Scan!scanVars, Elements
<1>8. CASE Scan!TapGoes
  BY <1>8 DEF Scan!TapGoes, Scan!scanVars, Elements
<1>9. CASE UNCHANGED scanVars
  BY <1>9 DEF scanVars, Elements
<1> QED
  BY <1>1, <1>2, <1>3, <1>4, <1>5, <1>6, <1>7, <1>8, <1>9 DEF Scan!ScanStep

(***************************************************************************)
(* A capture that pulls the stream.                                        *)
(***************************************************************************)
(* The configuring of a pull is the conversation that Rkscli describes, or *)
(* nothing, when a controller makes the access point stream.               *)
THEOREM PullConverses == PullSpec => Cli!Spec
<1>1. PullInit => Cli!Init
  BY DEF PullInit
<1>2. [PullNext]_pullVars => [Cli!Next]_(Cli!vars)
  <2> USE DEF cliVars, Cli!vars, Cli!cliVars, Cli!apVars, Cli!radioVars
  <2>1. Configures => Cli!Next
    BY DEF Configures, Cli!Next
  <2>2. Discovers \/ Pulls \/ Stops => UNCHANGED Cli!vars
    BY DEF Discovers, Pulls, Stops
  <2>3. ApStep => Cli!Next \/ UNCHANGED Cli!vars
    BY DEF ApStep, Cli!Next
  <2>4. UNCHANGED pullVars => UNCHANGED Cli!vars
    BY DEF pullVars
  <2> QED
    BY <2>1, <2>2, <2>3, <2>4 DEF PullNext
<1> QED
  BY <1>1, <1>2, PTL DEF PullSpec, Cli!Spec

(* Its reader is the one RpcapReader describes, so that what is proved of  *)
(* that one's file (WritesPrefix, KeepsCap, EndsCleanly) holds of a pull.  *)
THEOREM PullReads == PullSpec => Spec
<1>1. PullInit => Init
  BY DEF PullInit
<1>2. [PullNext]_pullVars => [Next]_vars
  <2>1. Pulls \/ Stops => Next
    BY DEF Pulls, Stops, Next
  <2>2. Configures \/ Discovers => UNCHANGED vars
    BY DEF Configures, Discovers, readerVars
  <2>3. ApStep => Next \/ UNCHANGED vars
    BY DEF ApStep, Next, readerVars
  <2>4. UNCHANGED pullVars => UNCHANGED vars
    BY DEF pullVars, readerVars
  <2> QED
    BY <2>1, <2>2, <2>3, <2>4 DEF PullNext
<1> QED
  BY <1>1, <1>2, PTL DEF PullSpec, Spec

(* A capture that is pulled over SSH goes on only with the channel and the *)
(* width it asked for, however late the answers it was told them in.       *)
THEOREM PulledSettingsTook == PullSpec => []SettingsTook
<1>1. Wants \subseteq Cli!Setting
  BY PullAssumption DEF Cli!CliAssumption
<1>2. Cli!Spec => []Cli!SettingsTook
  BY <1>1, SettingsReallyTook
<1> QED
  BY <1>2, PullConverses, PTL DEF SettingsTook

(* As long as every command is answered in time, a pull over SSH goes on   *)
(* only with a radio that streams, and its configuration fails only for    *)
(* what the access point refused.                                          *)
THEOREM PulledAnswersHeard == PullSpec => AnswersHeard
<1>1. Wants \subseteq Cli!Setting
  BY PullAssumption DEF Cli!CliAssumption
<1>2. Cli!Spec => Cli!AnswersHeard
  BY <1>1, AnswersAreHeard
<1> QED
  BY <1>2, PullConverses, PTL DEF AnswersHeard

(* A tap that is there all through a round, that the code knows or was     *)
(* told of and that lets itself be opened, is found in that round.         *)
THEOREM TapsAreFound == PullSpec => []TapFound
<1>1. PullInit => ScanInv
  BY ScanInit DEF PullInit
<1>2. ScanInv /\ [PullNext]_pullVars => ScanInv'
  <2>1. Discovers => Scan!ScanStep
    BY DEF Discovers
  <2>2. Configures \/ Pulls \/ Stops => UNCHANGED scanVars
    BY DEF Configures, Pulls, Stops
  <2>3. ApStep => Scan!TapComes \/ Scan!TapGoes \/ UNCHANGED scanVars
    BY DEF ApStep
  <2>4. UNCHANGED pullVars => UNCHANGED scanVars
    BY DEF pullVars
  <2> QED
    BY <2>1, <2>2, <2>3, <2>4, ScanKeeps DEF PullNext
<1>3. ScanInv => TapFound
  BY DEF ScanInv, TapFound, Scan!TapFound
<1> QED
  BY <1>1, <1>2, <1>3, PTL DEF PullSpec
=============================================================================
