---------------------------- MODULE AdaptersProofs ----------------------------
(***************************************************************************)
(* That a call through an adapter is carried out at most once and truly    *)
(* answered (the safety part of ControllerCall), and is denied only for a  *)
(* ticket of its own, for any number of calls.                             *)
(***************************************************************************)
EXTENDS Adapters, TLAPS

LEMMA InitInv == Init => CallInv
<1> SUFFICES ASSUME Init PROVE CallInv
  OBVIOUS
<1>1. TypeOK
  BY DEF Init, TypeOK
<1>2. OneAtATime /\ SecondTicketNew
  BY DEF Init, OneAtATime, SecondTicketNew, Under
<1>3. ASSUME NEW c \in Call PROVE Carried(c)
  BY DEF Init, Carried, Under
<1> QED
  BY <1>1, <1>2, <1>3 DEF CallInv

(* One step per action; the controller's and the ticket's own steps leave  *)
(* the calls' results alone.                                               *)
LEMMA StepInv == CallInv /\ [Next]_vars => CallInv'
<1> SUFFICES ASSUME CallInv, [Next]_vars PROVE CallInv'
  OBVIOUS
<1> USE DEF CallInv, TypeOK, OneAtATime, SecondTicketNew, Carried, Under, ticketVars
<1>1. ASSUME NEW c \in Call, Request(c) PROVE CallInv'
  BY <1>1 DEF Request
<1>2. ASSUME NEW c \in Call, Send(c) PROVE CallInv'
  BY <1>2 DEF Send, Holds, HasTicket, HasBearer
<1>3. ASSUME NEW c \in Call, LoggedIn(c) PROVE CallInv'
  BY <1>3 DEF LoggedIn
<1>4. ASSUME NEW c \in Call, LoginFails(c) PROVE CallInv'
  BY <1>4 DEF LoginFails, Return
<1>5. ASSUME NEW c \in Call, Refused(c) PROVE CallInv'
  BY <1>5 DEF Refused
<1>6. ASSUME NEW c \in Call, RefusedAgain(c) PROVE CallInv'
  BY <1>6 DEF RefusedAgain, Return
<1>7. ASSUME NEW c \in Call, Answered(c) PROVE CallInv'
  BY <1>7 DEF Answered, Return
<1>8. ASSUME NEW c \in Call, Lost(c) PROVE CallInv'
  BY <1>8 DEF Lost, Return
<1>9. ASSUME NEW c \in Call, Handled(c) PROVE CallInv'
  BY <1>9 DEF Handled
<1>10. ASSUME NEW c \in Call, HandledLate(c) PROVE CallInv'
  BY <1>10 DEF HandledLate
<1>11. CASE Revoke
  BY <1>11 DEF Revoke
<1>12. CASE Expire
  BY <1>12 DEF Expire
<1>13. CASE UNCHANGED vars
  BY <1>13 DEF vars
<1> HIDE DEF CallInv
<1> QED
  BY <1>1, <1>2, <1>3, <1>4, <1>5, <1>6, <1>7, <1>8, <1>9, <1>10, <1>11, <1>12,
     <1>13
  DEF Next, CallStep, Closed

(* The inductive invariant holds throughout.                               *)
THEOREM CallInvariant == Spec => []CallInv
  BY InitInv, StepInv, PTL DEF Spec

(* Every variable ranges over what the code and the controller store in it.*)
THEOREM TypesCorrect == Spec => []TypeOK
<1>1. CallInv => TypeOK
  BY DEF CallInv
<1> QED
  BY CallInvariant, <1>1, PTL

(* A call is denied only for a ticket issued while it was under way: the   *)
(* ticket refused first is forgotten, so the second try carries a new one. *)
THEOREM RenewsStaleTickets == Spec => StaleTicketRenewed
<1>1. ASSUME CallInv, [Next]_vars, NEW c \in Call,
             result'[c] = "denied", result[c] # "denied"
      PROVE  fresh
  <2>1. PICK d \in Call : RefusedAgain(d) \/ Request(d) \/ LoginFails(d)
                          \/ Answered(d) \/ Lost(d)
    BY <1>1 DEF Next, CallStep, Send, LoggedIn, Refused, Handled, HandledLate,
                Revoke, Expire, Closed, vars
  <2>2. RefusedAgain(d)
    BY <1>1, <2>1 DEF Request, LoginFails, Answered, Lost, Return, CallInv,
                      TypeOK, OneAtATime, Carried, Under
  <2> QED
    BY <1>1, <2>2 DEF RefusedAgain, CallInv, OneAtATime, SecondTicketNew
<1>2. CallInv /\ [Next]_vars =>
        [\A c \in Call : result'[c] = "denied" => result[c] = "denied" \/ fresh]_vars
  BY <1>1
<1> QED
  BY CallInvariant, <1>2, PTL DEF Spec, StaleTicketRenewed

(* Where a call is carried out, and how it comes back, a ControllerCall    *)
(* does the same; everything about tickets is a stutter to it.             *)
LEMMA StepIsCall == CallInv /\ [Next]_vars => [Calls!CallNext]_(Calls!callVars)
<1> SUFFICES ASSUME CallInv, [Next]_vars
             PROVE  Calls!CallNext \/ UNCHANGED <<result, effects>>
  BY DEF Calls!callVars
<1> USE DEF CallInv, TypeOK, OneAtATime, Carried, Under
<1>1. ASSUME NEW c \in Call, Request(c) PROVE Calls!Ask(c)
  BY <1>1 DEF Request, Calls!Ask
<1>2. ASSUME NEW c \in Call, LoginFails(c) \/ RefusedAgain(c) \/ Answered(c) \/ Lost(c)
      PROVE  Calls!Answer(c)
  BY <1>2 DEF LoginFails, RefusedAgain, Answered, Lost, Return, Calls!Answer, Calls!Answers
<1>3. ASSUME NEW c \in Call, Handled(c) \/ HandledLate(c)
      PROVE  Calls!CarryOut(c) \/ UNCHANGED <<result, effects>>
  BY <1>3 DEF Handled, HandledLate, Calls!CarryOut
<1>4. ASSUME NEW c \in Call, Send(c) \/ LoggedIn(c) \/ Refused(c)
      PROVE  UNCHANGED <<result, effects>>
  BY <1>4 DEF Send, LoggedIn, Refused
<1>5. CASE Revoke \/ Expire \/ UNCHANGED vars
  BY <1>5 DEF Revoke, Expire, vars
<1> QED
  BY <1>1, <1>2, <1>3, <1>4, <1>5 DEF Next, CallStep, Closed, Calls!CallNext

(* Every call is carried out at most once, and its answer is true.         *)
THEOREM ImplementsCallSafely == Spec => Calls!CallSafe
<1>1. Init => Calls!CallInit
  BY DEF Init, Calls!CallInit
<1> QED
  BY <1>1, CallInvariant, StepIsCall, PTL DEF Spec, Calls!CallSafe
=============================================================================
