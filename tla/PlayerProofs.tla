---------------------------- MODULE PlayerProofs ----------------------------
(* Proofs about Player, for any number of sessions and any pages.            *)
EXTENDS Player, TLAPS

(* The part of TypeOK the argument needs.                                    *)
Shape ==
  /\ sdk \in Session \cup {NoSession}
  /\ pc \in [Session -> {"new", "open", "closed"}]
  /\ call \in [Session -> AllCalls]
  /\ outcome \in [Session -> {"pending", "resolved", "rejected"}]
  /\ page \subseteq AllCalls

(* A session that was not started has not failed.                            *)
NewPending == \A s \in Session : pc[s] = "new" => outcome[s] = "pending"

ConnInv == Shape /\ NewPending /\ OneConnection /\ ChannelOfCurrent /\ FailureCloses

LEMMA ConnInit == Init => ConnInv
  BY ConstantsAssumption
  DEF Init, ConnInv, Shape, NewPending, OneConnection, ChannelOfCurrent, FailureCloses, AllCalls

(* Closing sdk leaves no connection open, and nothing in datachannel.        *)
LEMMA ClosedNone ==
  ASSUME ConnInv
  PROVE  /\ Closed(pc) \in [Session -> {"new", "open", "closed"}]
         /\ \A s \in Session : Closed(pc)[s] # "open"
         /\ \A s \in Session : s # sdk => Closed(pc)[s] = pc[s]
         /\ \A s \in Session : pc[s] = "closed" => Closed(pc)[s] = "closed"
         /\ \A s \in Session : Closed(pc)[s] = "new" => pc[s] = "new"
         /\ sdk = NoSession => channel = NoSession
  BY ConstantsAssumption DEF ConnInv, Shape, OneConnection, ChannelOfCurrent, Closed

LEMMA RejectedConn ==
  ASSUME NEW s \in Session, ConnInv, Rejected(s), pc[s] # "new" PROVE ConnInv'
<1>1. Shape' BY ClosedNone DEF Rejected, CloseSdk, ConnInv, Shape
<1>2. NewPending'
  BY ClosedNone DEF Rejected, CloseSdk, ConnInv, Shape, NewPending
<1>3. CASE call[s] \in Caught
  <2>1. pc' = Closed(pc) /\ channel' = NoSession /\ sdk' = sdk
    BY <1>3, ClosedNone DEF Rejected, CloseSdk
  <2>2. OneConnection' /\ ChannelOfCurrent'
    BY <2>1, ClosedNone DEF OneConnection, ChannelOfCurrent
  <2>3. pc'[s] = "closed"
    BY <2>1 DEF ConnInv, Shape, OneConnection, Closed
  <2>4. FailureCloses'
    BY <2>1, <2>3, ClosedNone DEF Rejected, ConnInv, Shape, FailureCloses
  <2> QED BY <1>1, <1>2, <2>2, <2>4 DEF ConnInv
<1>4. CASE call[s] \notin Caught
  <2>1. UNCHANGED <<pc, channel, sdk, call>> BY <1>4 DEF Rejected
  <2>2. OneConnection' /\ ChannelOfCurrent'
    BY <2>1 DEF ConnInv, OneConnection, ChannelOfCurrent
  <2>3. FailureCloses'
    BY <1>4, <2>1 DEF Rejected, ConnInv, Shape, FailureCloses
  <2> QED BY <1>1, <1>2, <2>2, <2>3 DEF ConnInv
<1> QED BY <1>3, <1>4

LEMMA StartConn ==
  ASSUME NEW s \in Session, NEW c \in page, ConnInv, Start(s, c) \/ StartFails(s, c) PROVE ConnInv'
<1>1. c \in AllCalls BY DEF ConnInv, Shape
<1>2. CASE Start(s, c)
  <2>1. /\ sdk' = s /\ pc' = [Closed(pc) EXCEPT ![s] = "open"]
        /\ call' = [call EXCEPT ![s] = c] /\ outcome' = outcome /\ page' = page
        /\ channel' \in {s, NoSession}
    BY <1>2, ClosedNone DEF Start
  <2>2. Shape' BY <1>1, <2>1, ClosedNone DEF ConnInv, Shape
  <2>3. NewPending' BY <2>1, ClosedNone DEF ConnInv, Shape, NewPending
  <2>4. OneConnection' BY <2>1, ClosedNone DEF ConnInv, Shape, OneConnection
  <2>5. ChannelOfCurrent' BY <2>1, ClosedNone DEF ConnInv, Shape, ChannelOfCurrent
  <2>6. outcome[s] = "pending" BY <1>2 DEF Start, ConnInv, NewPending
  <2>7. FailureCloses' BY <2>1, <2>6, ClosedNone DEF ConnInv, Shape, FailureCloses
  <2> QED BY <2>2, <2>3, <2>4, <2>5, <2>7 DEF ConnInv
<1>3. CASE StartFails(s, c)
  <2>1. /\ sdk' = s /\ pc' = [Closed(pc) EXCEPT ![s] = "closed"]
        /\ call' = [call EXCEPT ![s] = c] /\ page' = page
        /\ outcome' = [outcome EXCEPT ![s] = "rejected"] /\ channel' = NoSession
    BY <1>3, ClosedNone DEF StartFails
  <2>2. Shape' BY <1>1, <2>1, ClosedNone DEF ConnInv, Shape
  <2>3. NewPending' BY <2>1, ClosedNone DEF ConnInv, Shape, NewPending
  <2>4. OneConnection' /\ ChannelOfCurrent'
    BY <2>1, ClosedNone DEF ConnInv, Shape, OneConnection, ChannelOfCurrent
  <2>5. FailureCloses' BY <2>1, ClosedNone DEF ConnInv, Shape, FailureCloses
  <2> QED BY <2>2, <2>3, <2>4, <2>5 DEF ConnInv
<1> QED BY <1>2, <1>3

LEMMA CloseConn ==
  ASSUME ConnInv, CloseSdk, UNCHANGED <<page, sdk, call, outcome>> PROVE ConnInv'
<1>1. pc' = Closed(pc) /\ channel' = NoSession BY ClosedNone DEF CloseSdk
<1>2. Shape' /\ NewPending' BY <1>1, ClosedNone DEF ConnInv, Shape, NewPending
<1>3. OneConnection' /\ ChannelOfCurrent' BY <1>1, ClosedNone DEF OneConnection, ChannelOfCurrent
<1>4. FailureCloses' BY <1>1, ClosedNone DEF ConnInv, FailureCloses
<1> QED BY <1>2, <1>3, <1>4 DEF ConnInv

LEMMA ContinueConn ==
  ASSUME NEW s \in Session, ConnInv, Continue(s) PROVE ConnInv'
<1>1. /\ UNCHANGED <<page, sdk, channel, pc, call>>
      /\ outcome' = outcome \/ outcome' = [outcome EXCEPT ![s] = "resolved"]
  BY DEF Continue
<1>2. pc[s] # "new" BY DEF Continue, Running
<1> QED
  BY <1>1, <1>2 DEF ConnInv, Shape, NewPending, OneConnection, ChannelOfCurrent, FailureCloses

LEMMA ConnNext == ConnInv /\ [Next]_vars => ConnInv'
<1> SUFFICES ASSUME ConnInv, [Next]_vars PROVE ConnInv' OBVIOUS
<1>1. CASE \E s \in Session : \E c \in page : Start(s, c) \/ StartFails(s, c)
  BY <1>1, StartConn
<1>2. CASE ConstructorFails BY <1>2, CloseConn DEF ConstructorFails
<1>3. CASE \E s \in Session : Continue(s) BY <1>3, ContinueConn
<1>4. CASE \E s \in Session : ContinueOnClosed(s) \/ Refuse(s)
  BY <1>4, RejectedConn DEF ContinueOnClosed, Refuse, Running
<1>5. CASE ReceiveAnswer
  BY <1>5 DEF ReceiveAnswer, ConnInv, Shape, NewPending, OneConnection, ChannelOfCurrent, FailureCloses
<1>6. CASE Stop BY <1>6, CloseConn DEF Stop
<1>7. CASE UNCHANGED vars
  BY <1>7 DEF vars, ConnInv, Shape, NewPending, OneConnection, ChannelOfCurrent, FailureCloses
<1> QED BY <1>1, <1>2, <1>3, <1>4, <1>5, <1>6, <1>7 DEF Next

LEMMA ConnAlways == Spec => []ConnInv
  BY ConnInit, ConnNext, PTL DEF Spec

(* At most one connection of a page is open, and it is the one in sdk, so    *)
(* that sdk.close() always reaches it.                                       *)
THEOREM OnlyOne == Spec => []OneConnection
<1>1. ConnInv => OneConnection BY DEF ConnInv
<1> QED BY ConnAlways, <1>1, PTL

(* Key and mouse events never go to a connection that was replaced.          *)
THEOREM ChannelCurrent == Spec => []ChannelOfCurrent
<1>1. ConnInv => ChannelOfCurrent BY DEF ConnInv
<1> QED BY ConnAlways, <1>1, PTL

(* Closing whatever is in sdk closes the connection of a call that failed:   *)
(* by OneConnection it is the one in sdk, or closed already.                 *)
THEOREM FailedIsClosed == Spec => []FailureCloses
<1>1. ConnInv => FailureCloses BY DEF ConnInv
<1> QED BY ConnAlways, <1>1, PTL
=============================================================================
