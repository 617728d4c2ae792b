------------------------------- MODULE Player -------------------------------
(* The connections one page makes, one after the other: every call that      *)
(* plays or publishes makes an SDK object (SrsRtcPlayerAsync,                *)
(* SrsRtcPublisherAsync) with a peer connection, puts it into the global sdk *)
(* and runs an asynchronous function. What the function does after an await  *)
(* runs whenever the answer to it comes, also when the user has long started *)
(* another one. PeerSlot and Signaling have the other end of these calls.    *)
EXTENDS Naturals, Sequences

CONSTANTS Session,      \* SDK objects, a bound
          NoSession,
          Pages,        \* what a page may call, of the SDK it loads
          ServerType,   \* yang_mediaServerType: "P2p", "Srs" or "Zlm"
          MaxClicks     \* bound: Stop clicks, and refusals

AllCalls == {"playP2p", "playHd", "playSrs", "playZlm", "play", "playSdk", "publish", "answerPlay"}

ASSUME ConstantsAssumption ==
  /\ NoSession \notin Session /\ Pages \subseteq SUBSET AllCalls
  /\ ServerType \in {"P2p", "Srs", "Zlm"} /\ MaxClicks \in Nat

VARIABLES
  page,      \* what this page may call
  sdk,       \* the global sdk
  channel,   \* the session whose data channel is in the global datachannel
  pc,        \* per session: its connection; self.pc is null when it is closed
  call,      \* per session: the call that made it
  at,        \* per session: the await its function has come to
  outcome,   \* per session: what became of the function's promise
  remote,    \* per session: the session whose answer its connection has
  offers,    \* offers published and not answered
  clicks

vars == <<page, sdk, channel, pc, call, at, outcome, remote, offers, clicks>>

-----------------------------------------------------------------------------
(* The awaits of each function, in order.                                    *)

(* publish and play of srs.sdk.js, play of srs.sdk.p2p.js.                   *)
PublishAwaits == <<"getUserMedia", "createOffer", "setLocalDescription", "ajax", "setRemoteDescription">>
PlayAwaits    == <<"createOffer", "setLocalDescription", "ajax", "setRemoteDescription">>
PlaySdkAwaits == <<"createOffer", "setLocalDescription", "ajax", "setRemoteDescription">>

(* playSrs, playZlm, playP2p and answerPlay of ipc.mqtt.sdk.js, playP2p of   *)
(* ipc_hd.mqtt.sdk.js. The promise that publishes the offer never settles.   *)
PlaySrsAwaits == <<"createOffer", "setLocalDescription", "ajax", "setRemoteDescription">>
PlayZlmAwaits == <<"createOffer", "setLocalDescription", "ajax", "setRemoteDescription">>
PlayP2pAwaits == <<"createOffer", "setLocalDescription", "mqtt">>
PlayHdAwaits  == <<"getUserMedia", "createOffer", "setLocalDescription", "mqtt">>
AnswerAwaits  == <<"createAnswer">>

Awaits(c) ==
  CASE c = "publish" -> PublishAwaits [] c = "play" -> PlayAwaits [] c = "playSdk" -> PlaySdkAwaits
    [] c = "playSrs" -> PlaySrsAwaits [] c = "playZlm" -> PlayZlmAwaits
    [] c = "playP2p" -> PlayP2pAwaits [] c = "playHd" -> PlayHdAwaits [] c = "answerPlay" -> AnswerAwaits

Await(s) == Awaits(call[s])[at[s]]

(* Awaits the connection answers, and only while it is open; the others are  *)
(* answered by the user or by a server.                                      *)
OfConnection == {"createOffer", "createAnswer", "setLocalDescription", "setRemoteDescription"}

(* Awaits after which the function uses self.pc.                             *)
UsesConnection == {"getUserMedia", "createOffer", "createAnswer", "ajax"}

(* Calls whose caller catches a rejection, to close sdk. (The repository has *)
(* no page for srs.sdk.js and srs.sdk.p2p.js: their play and publish are     *)
(* driven as startPlay drives play.)                                         *)
Caught == {"publish", "play", "playSdk", "playSrs", "playZlm"}

(* Calls that make an address of the API first.                              *)
Prepares == Caught

Running(s) == pc[s] # "new" /\ outcome[s] = "pending"

-----------------------------------------------------------------------------

Init ==
  /\ page \in Pages
  /\ sdk = NoSession /\ channel = NoSession
  /\ pc = [s \in Session |-> "new"]
  /\ call = [s \in Session |-> "playP2p"]
  /\ at = [s \in Session |-> 1]
  /\ outcome = [s \in Session |-> "pending"]
  /\ remote = [s \in Session |-> NoSession]
  /\ offers = <<>> /\ clicks = 0

(* sdk.close(): the data channel, whoever has it, then the connection.       *)
Closed(conns) == [s \in Session |-> IF s = sdk THEN "closed" ELSE conns[s]]

CloseSdk_Bug ==
  /\ channel' = channel
  /\ pc' = Closed(pc)

CloseSdk ==
  /\ channel' = IF sdk = NoSession THEN channel ELSE NoSession
  /\ pc' = Closed(pc)

(* yang_hasDatachannel, which ipc_hd.mqtt.sdk.js has not set.                *)
HasChannel == "playP2p" \in page /\ ServerType # "Srs"

(* The constructors: which make a data channel.                              *)
WithChannel(c) ==
  \/ c = "playSdk"
  \/ c \in {"playP2p", "playHd", "playSrs", "playZlm", "answerPlay"} /\ HasChannel

(* yang_startPlayP2p, yang_startPlaySrs, yang_startPlayZlm, startPlay,       *)
(* yang_answerPlay: close what there is, make an object and call it.         *)
Start_Bug(s, c) ==
  /\ pc[s] = "new"
  /\ sdk' = s
  /\ pc' = [pc EXCEPT ![s] = "open"]
  /\ channel' = IF WithChannel(c) THEN s ELSE channel
  /\ call' = [call EXCEPT ![s] = c]
  /\ UNCHANGED <<page, at, outcome, remote, offers, clicks>>

Start(s, c) ==
  /\ pc[s] = "new"
  /\ sdk' = s
  /\ pc' = [Closed(pc) EXCEPT ![s] = "open"]
  /\ channel' = IF WithChannel(c) THEN s ELSE IF sdk = NoSession THEN channel ELSE NoSession
  /\ call' = [call EXCEPT ![s] = c]
  /\ remote' = [remote EXCEPT ![s] = IF c = "answerPlay" THEN s ELSE NoSession]
  /\ UNCHANGED <<page, at, outcome, offers, clicks>>

(* The object is made, and the address cannot be: the promise is rejected    *)
(* before anything is awaited, and the caller closes sdk, which is this one. *)
StartFails(s, c) ==
  /\ pc[s] = "new" /\ c \in Prepares
  /\ sdk' = s
  /\ pc' = [Closed(pc) EXCEPT ![s] = "closed"]
  /\ channel' = IF sdk = NoSession /\ ~WithChannel(c) THEN channel ELSE NoSession
  /\ call' = [call EXCEPT ![s] = c]
  /\ outcome' = [outcome EXCEPT ![s] = "rejected"]
  /\ UNCHANGED <<page, at, remote, offers, clicks>>

(* The servers the user typed are refused by RTCPeerConnection: the old      *)
(* object is closed, and stays in sdk.                                       *)
ConstructorFails ==
  /\ sdk # NoSession /\ pc[sdk] = "open"
  /\ ServerType = "P2p" /\ page \cap {"playP2p", "playHd", "answerPlay"} # {}
  /\ CloseSdk
  /\ UNCHANGED <<page, sdk, call, at, outcome, remote, offers, clicks>>

(* A rejection: the caller that catches it closes sdk, whichever it is.      *)
Rejected_Bug(s) ==
  /\ outcome' = [outcome EXCEPT ![s] = "rejected"]
  /\ UNCHANGED <<page, sdk, channel, pc, call, at, remote, offers, clicks>>

Rejected(s) ==
  /\ outcome' = [outcome EXCEPT ![s] = "rejected"]
  /\ IF call[s] \in Caught THEN CloseSdk ELSE UNCHANGED <<channel, pc>>
  /\ UNCHANGED <<page, sdk, call, at, remote, offers, clicks>>

Continue_Bug(s) ==   \* a reply to the request is not passed on
  /\ Running(s) /\ Await(s) \notin {"mqtt", "ajax"}
  /\ Await(s) \in OfConnection \cup UsesConnection => pc[s] = "open"
  /\ IF at[s] = Len(Awaits(call[s]))
     THEN outcome' = [outcome EXCEPT ![s] = "resolved"] /\ UNCHANGED at
     ELSE at' = [at EXCEPT ![s] = @ + 1] /\ UNCHANGED outcome
  /\ UNCHANGED <<page, sdk, channel, pc, call, remote, offers, clicks>>

(* What is awaited comes, and the function goes on to its next await: it     *)
(* publishes its offer when the local description is set, and ends after the *)
(* last.                                                                     *)
Continue(s) ==
  /\ Running(s) /\ Await(s) # "mqtt"
  /\ Await(s) \in OfConnection \cup UsesConnection => pc[s] = "open"
  /\ IF at[s] = Len(Awaits(call[s]))
     THEN outcome' = [outcome EXCEPT ![s] = "resolved"] /\ UNCHANGED at
     ELSE at' = [at EXCEPT ![s] = @ + 1] /\ UNCHANGED outcome
  /\ remote' = IF Await(s) = "setRemoteDescription" THEN [remote EXCEPT ![s] = s] ELSE remote
  /\ offers' = IF Await(s) = "setLocalDescription" /\ Awaits(call[s])[at[s] + 1] = "mqtt"
               THEN Append(offers, s) ELSE offers
  /\ UNCHANGED <<page, sdk, channel, pc, call, clicks>>

(* The answer comes when the object is closed: self.pc is null.              *)
ContinueOnClosed(s) ==
  /\ Running(s) /\ pc[s] = "closed"
  /\ Await(s) \in UsesConnection \ OfConnection
  /\ Rejected(s)

(* The user says no, the request fails, the server's reply carries a code,   *)
(* or the description is refused. A connection that is closed may refuse     *)
(* what it was asked, or never answer.                                       *)
Refuse(s) ==
  /\ Running(s)
  /\ \/ Await(s) \in {"getUserMedia", "ajax", "setRemoteDescription", "createAnswer"}
     \/ Await(s) \in OfConnection /\ pc[s] = "closed"
  /\ Rejected(s)

-----------------------------------------------------------------------------
(* Messages from the server, and the user's Stop.                            *)

Open(s) == s # NoSession /\ pc[s] = "open"

(* Answer: applied to the connection in sdk, whichever offer it answers, if  *)
(* that has set an offer of its own and no answer yet.                       *)
Applies == Open(sdk) /\ remote[sdk] = NoSession /\ call[sdk] \in {"playP2p", "playHd"}

ReceiveAnswer ==
  /\ offers # <<>>
  /\ offers' = Tail(offers)
  /\ \/ /\ Applies /\ Await(sdk) \in {"setLocalDescription", "mqtt"}
        /\ remote' = [remote EXCEPT ![sdk] = Head(offers)]
     \/ /\ ~(Applies /\ Await(sdk) = "mqtt")
        /\ remote' = remote
  /\ UNCHANGED <<page, sdk, channel, pc, call, at, outcome, clicks>>

(* HasConnected, and Stop.                                                   *)
Stop ==
  /\ clicks < MaxClicks /\ sdk # NoSession
  /\ clicks' = clicks + 1
  /\ CloseSdk
  /\ UNCHANGED <<page, sdk, call, at, outcome, remote, offers>>

Next ==
  \/ \E s \in Session : \E c \in page : Start(s, c) \/ StartFails(s, c)
  \/ ConstructorFails
  \/ \E s \in Session : Continue(s) \/ ContinueOnClosed(s) \/ Refuse(s)
  \/ ReceiveAnswer \/ Stop

(* The browser, the user and the servers answer what they are asked.         *)
Fairness == \A s \in Session : WF_vars(Continue(s) \/ ContinueOnClosed(s))

Spec == Init /\ [][Next]_vars
FairSpec == Spec /\ Fairness

-----------------------------------------------------------------------------

TypeOK ==
  /\ page \in Pages
  /\ sdk \in Session \cup {NoSession} /\ channel \in Session \cup {NoSession}
  /\ pc \in [Session -> {"new", "open", "closed"}]
  /\ call \in [Session -> AllCalls]
  /\ \A s \in Session : at[s] \in DOMAIN Awaits(call[s])
  /\ outcome \in [Session -> {"pending", "resolved", "rejected"}]
  /\ remote \in [Session -> Session \cup {NoSession}]
  /\ offers \in Seq(Session) /\ clicks \in Nat

(* However calls, answers and clicks interleave, a page has at most one open *)
(* connection, and it is the one in sdk: nothing else could close it.        *)
OneConnection == \A s \in Session : pc[s] = "open" => s = sdk

(* The global data channel, over which key and mouse events go, is that of   *)
(* the open connection, never of one that was replaced or closed.            *)
ChannelOfCurrent == channel # NoSession => channel = sdk /\ pc[sdk] = "open"

(* When a call fails that somebody waits for, its own connection is closed,  *)
(* although the handler closes whatever is in sdk by then.                   *)
FailureCloses == \A s \in Session : outcome[s] = "rejected" /\ call[s] \in Caught => pc[s] = "closed"

(* Every call that is made over HTTP ends: it plays, it fails, or its        *)
(* connection was closed.                                                    *)
Settled ==
  \A s \in Session :
    Running(s) /\ call[s] \in Caught ~> outcome[s] # "pending" \/ pc[s] = "closed"

=============================================================================
