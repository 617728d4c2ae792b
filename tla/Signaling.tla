------------------------------- MODULE Signaling -------------------------------
(* Browsers, the message server and the WebRTC session it guards.              *)
(*                                                                             *)
(* A browser page (index_mqtt.html, yangmqtt.js, ipc.mqtt.sdk.js) talks to the *)
(* server (YangIpcMessage.cpp, YangIpcMessageServer.cpp) through an MQTT       *)
(* broker: every page publishes to the server's topic and subscribes to its    *)
(* own. The broker keeps the order of each topic and keeps nothing for a page  *)
(* that is not connected. The session behind the server is PeerSlot, which     *)
(* IpcRtc implements.                                                          *)
EXTENDS Naturals, Integers, Sequences, FiniteSets

CONSTANTS Client,      \* pages, each with its own cid
          NoClient,
          Peer,        \* peer connections the server may create (a bound)
          NoPeer,
          FirstUid,    \* uidSeq of a server just started: 10 in the code
          MaxClicks,   \* bounds: what users click, links that break,
          MaxDrops,    \*   servers that restart,
          MaxRestarts,
          MaxCandidates, \*   candidates the server's peers find in all
          BrokerFails  \* whether the server's own link may be given up

ASSUME NoClientAssumption == NoClient \notin Client
ASSUME NoPeerAssumption == NoPeer \notin Peer
ASSUME BoundsAssumption == /\ MaxClicks \in Nat /\ MaxDrops \in Nat
                           /\ MaxRestarts \in Nat /\ MaxCandidates \in Nat
                           /\ BrokerFails \in BOOLEAN
ASSUME FirstUidAssumption == FirstUid \in Nat

VARIABLES link,        \* page: MQTT connection; yang_connected is link = "up"
          uid,         \* page: yang_uid
          playing,     \* page: yang_isPlaying
          sdk,         \* page: the RTCPeerConnection in sdk, if any
          inbox,       \* messages on their way to each page
          queue,       \* messages on their way to the server, and its message list
          connCids,    \* server: uid of each page that logged in
          uidSeq,      \* server: uidSeq
          isConnected, \* server: its own link to the broker
          slot, pending, live, born, open, reaping,   \* server: PeerSlot
          negotiated,  \* the peer whose answer was sent and still lacks setLocalDescription
          told,        \* peers that were told their local description
          owner,       \* the page and uid each peer was created for
          cand,        \* candidate callback of each peer: where it is
          clicks, drops, restarts

browser == <<link, uid, playing, sdk>>
server == <<connCids, uidSeq, isConnected>>
slots == <<slot, pending, live, born, open, reaping>>
peers == <<negotiated, told, owner, cand>>
bounds == <<clicks, drops, restarts>>
vars == <<browser, inbox, queue, server, slots, peers, bounds>>

Session == INSTANCE PeerSlot

NoUid == -1
Uids == Nat \union {NoUid}
Waiting == "waiting"      \* a candidate callback that has not run
Sent == "sent"

ASSUME CallbackAssumption == {Waiting, Sent} \cap (Client \union {NoClient}) = {}

Request == [type : {"Login", "Close", "ConnectSdp", "Other"}, cid : Client, uid : Uids]
Reply == [type : {"LoginResponse", "NotLogin", "HasConnected"}, uid : Uids]
         \union [type : {"Answer", "Candidate"}, uid : Uids, peer : Peer]

TypeOK == /\ link \in [Client -> {"off", "connecting", "up"}]
          /\ uid \in [Client -> Uids]
          /\ playing \in [Client -> BOOLEAN]
          /\ sdk \in [Client -> {"none", "offering", "crossed", "offered", "answered",
                                 "closed"}]
          /\ inbox \in [Client -> Seq(Reply)]
          /\ queue \in Seq(Request)
          /\ connCids \in [Client -> Uids]
          /\ uidSeq \in Nat /\ isConnected \in BOOLEAN
          /\ slot \in Peer \union {NoPeer} /\ pending \in Peer \union {NoPeer}
          /\ live \subseteq Peer /\ born \subseteq Peer
          /\ open \in BOOLEAN /\ reaping \in BOOLEAN
          /\ negotiated \in Peer \union {NoPeer} /\ told \subseteq Peer
          /\ owner \in [Peer -> [cid : Client \union {NoClient}, uid : Uids]]
          /\ cand \in [Peer -> Client \union {NoClient, Waiting, Sent}]
          /\ clicks \in 0 .. MaxClicks /\ drops \in 0 .. MaxDrops
          /\ restarts \in 0 .. MaxRestarts

(* The page has just been loaded, the server just started. *)
Init == /\ link = [c \in Client |-> "off"] /\ uid = [c \in Client |-> NoUid]
        /\ playing = [c \in Client |-> FALSE] /\ sdk = [c \in Client |-> "none"]
        /\ inbox = [c \in Client |-> <<>>] /\ queue = <<>>
        /\ connCids = [c \in Client |-> NoUid]
        /\ uidSeq = FirstUid /\ isConnected = TRUE
        /\ Session!Init
        /\ negotiated = NoPeer /\ told = {}
        /\ owner = [p \in Peer |-> [cid |-> NoClient, uid |-> NoUid]]
        /\ cand = [p \in Peer |-> Waiting]
        /\ clicks = 0 /\ drops = 0 /\ restarts = 0

-----------------------------------------------------------------------------
(* yang_publish, and the callers that give up when the link is down.           *)
Publish(c, types) ==
  queue' = IF link[c] # "up" THEN queue
           ELSE queue \o [i \in 1 .. Len(types) |->
                            [type |-> types[i], cid |-> c, uid |-> uid[c]]]

(* yang_ipcmessage_sendmsg: to the topic of one page.                          *)
Sending(c, replies) ==
  IF isConnected /\ link[c] = "up" THEN [inbox EXCEPT ![c] = @ \o replies] ELSE inbox

ClosedSdk(s) == IF s = "none" THEN "none" ELSE "closed"

-----------------------------------------------------------------------------
(* The user clicks Play: close what is playing, then log in, now or as soon as *)
(* the link is up.                                                             *)
Play(c) == /\ clicks < MaxClicks
           /\ clicks' = clicks + 1
           /\ playing' = [playing EXCEPT ![c] = TRUE]
           /\ Publish(c, (IF playing[c] THEN <<"Close">> ELSE <<>>) \o <<"Login">>)
           /\ link' = [link EXCEPT ![c] = IF @ = "up" THEN "up" ELSE "connecting"]
           /\ UNCHANGED <<uid, sdk, inbox, server, slots, peers, drops, restarts>>

(* The user clicks Stop. *)
Stop(c) == /\ clicks < MaxClicks
           /\ clicks' = clicks + 1
           /\ Publish(c, <<"Close">>)
           /\ playing' = [playing EXCEPT ![c] = FALSE]
           /\ sdk' = [sdk EXCEPT ![c] = ClosedSdk(@)]
           /\ UNCHANGED <<link, uid, inbox, server, slots, peers, drops, restarts>>

(* A candidate, a ping or a key or mouse event: the server checks who sends it *)
(* and changes nothing of what is modelled here.                               *)
Chatter(c) == /\ clicks < MaxClicks
              /\ clicks' = clicks + 1
              /\ link[c] = "up" /\ sdk[c] \in {"offered", "answered"}
              /\ Publish(c, <<"Other">>)
              /\ UNCHANGED <<browser, inbox, server, slots, peers, drops, restarts>>

(* yang_onConnect, also after Paho reconnected by itself: log in, whether the  *)
(* user is playing or not.                                                     *)
ConnectUp(c) == /\ link[c] = "connecting"
                /\ link' = [link EXCEPT ![c] = "up"]
                /\ queue' = Append(queue, [type |-> "Login", cid |-> c, uid |-> uid[c]])
                /\ UNCHANGED <<uid, playing, sdk, inbox, server, slots, peers, bounds>>

(* What was on its way to the page is lost with the link.                      *)
Disconnected(c) == /\ link' = [link EXCEPT ![c] = "connecting"]
                   /\ inbox' = [inbox EXCEPT ![c] = <<>>]

(* What is left of the messages s without those of page c after the first k.   *)
Without(s, c, k) ==
  LET rest[n \in 0 .. Len(s)] ==
        IF n = 0 THEN <<>>
        ELSE IF n <= k \/ s[n].cid # c THEN Append(rest[n - 1], s[n])
        ELSE rest[n - 1]
  IN rest[Len(s)]

(* So is what the page sent and the broker has not got yet; never the message  *)
(* the server is just handling.                                                *)
Handling == IF pending = NoPeer /\ negotiated = NoPeer THEN 0 ELSE 1

LinkLost(c) ==
  /\ drops < MaxDrops /\ link[c] = "up"
  /\ drops' = drops + 1
  /\ Disconnected(c)
  /\ \E k \in Handling .. Len(queue) :
       queue' = Without(queue, c, k)
  /\ UNCHANGED <<uid, playing, sdk, server, slots, peers, clicks, restarts>>

(* yang_onMessageArrived.                                                      *)
Arrives(c, type) == inbox[c] # <<>> /\ Head(inbox[c]).type = type

Receive(c) == inbox' = [inbox EXCEPT ![c] = Tail(@)]

(* LoginResponse: take the uid, close the old connection, start a new one.     *)
ReceiveLoginResponse(c) ==
  /\ Arrives(c, "LoginResponse")
  /\ uid' = [uid EXCEPT ![c] = Head(inbox[c]).uid]
  /\ sdk' = [sdk EXCEPT ![c] = "offering"]
  /\ Receive(c)
  /\ UNCHANGED <<link, playing, queue, server, slots, peers, bounds>>

(* setLocalDescription has returned: publish the offer.                        *)
Offer(c) == /\ sdk[c] \in {"offering", "crossed"}
            /\ sdk' = [sdk EXCEPT ![c] = IF @ = "crossed" THEN "answered" ELSE "offered"]
            /\ Publish(c, <<"ConnectSdp">>)
            /\ UNCHANGED <<link, uid, playing, inbox, server, slots, peers, bounds>>

(* sdk.pc is null after sdk.close(): the handler throws, and Paho drops the    *)
(* link and reconnects.                                                        *)
ReceiveOnClosed(c) ==
  /\ Arrives(c, "Answer") \/ Arrives(c, "Candidate")
  /\ sdk[c] = "closed"
  /\ Disconnected(c)
  /\ UNCHANGED <<uid, playing, sdk, queue, server, slots, peers, bounds>>

ReceiveAnswer_Bug(c) ==   \* yang_uid taken from every message
  /\ Arrives(c, "Answer") /\ sdk[c] \notin {"none", "closed"}
  /\ uid' = [uid EXCEPT ![c] = Head(inbox[c]).uid]
  /\ sdk' = [sdk EXCEPT ![c] = IF @ = "offered" THEN "answered" ELSE @]
  /\ Receive(c)
  /\ UNCHANGED <<link, playing, queue, server, slots, peers, bounds>>

(* Answer: applied to the connection there is, in the state it accepts one. A  *)
(* connection still making its offer may just have set it, or not yet.         *)
ReceiveAnswer(c) ==
  /\ Arrives(c, "Answer") /\ sdk[c] \notin {"none", "closed"}
  /\ \E s \in CASE sdk[c] = "offered"  -> {"answered"}
                [] sdk[c] = "offering" -> {"offering", "crossed"}
                [] OTHER               -> {sdk[c]} : sdk' = [sdk EXCEPT ![c] = s]
  /\ Receive(c)
  /\ UNCHANGED <<link, uid, playing, queue, server, slots, peers, bounds>>

ReceiveCandidate(c) == /\ Arrives(c, "Candidate") /\ sdk[c] \notin {"none", "closed"}
                       /\ Receive(c)
                       /\ UNCHANGED <<browser, queue, server, slots, peers, bounds>>

(* HasConnected: close and tell the user.                                      *)
ReceiveRefusal(c) == /\ Arrives(c, "HasConnected")
                     /\ sdk' = [sdk EXCEPT ![c] = ClosedSdk(@)]
                     /\ Receive(c)
                     /\ UNCHANGED <<link, uid, playing, queue, server, slots, peers, bounds>>

ReceiveNotLogin(c) == /\ Arrives(c, "NotLogin")
                      /\ Receive(c)
                      /\ UNCHANGED <<browser, queue, server, slots, peers, bounds>>

-----------------------------------------------------------------------------
(* The server's message thread: the head of the list is taken out when its     *)
(* handling is over.                                                           *)
HandlerAt(type) == /\ queue # <<>> /\ Head(queue).type = type
                   /\ pending = NoPeer /\ negotiated = NoPeer
Done == queue' = Tail(queue)

(* yang_ipcmessage_handleMessage_verify: an unknown page is told so, and its   *)
(* message handled all the same; it is dropped only if telling it failed.      *)
Known(c) == connCids[c] # NoUid
Verified(c) == Known(c) \/ isConnected
NotLogin(m) == IF Known(m.cid) THEN <<>> ELSE <<[type |-> "NotLogin", uid |-> m.uid]>>

HandleLogin_Bug ==   \* uidSeq for uidSeq++
  LET m == Head(queue)
  IN /\ HandlerAt("Login")
     /\ Session!Close
     /\ connCids' = [connCids EXCEPT ![m.cid] = uidSeq]
     /\ inbox' = Sending(m.cid, <<[type |-> "LoginResponse", uid |-> uidSeq]>>)
     /\ Done
     /\ UNCHANGED <<browser, uidSeq, isConnected, peers, bounds>>

HandleLogin_NoResponse ==   \* answers only pages it did not know
  LET m == Head(queue)
  IN /\ HandlerAt("Login")
     /\ Session!Close
     /\ uidSeq' = uidSeq + 1
     /\ connCids' = [connCids EXCEPT ![m.cid] = uidSeq]
     /\ inbox' = IF Known(m.cid) THEN inbox
                 ELSE Sending(m.cid, <<[type |-> "LoginResponse", uid |-> uidSeq]>>)
     /\ Done
     /\ UNCHANGED <<browser, isConnected, peers, bounds>>

(* Login: whoever has the session loses it, the page gets the next uid.        *)
HandleLogin ==
  LET m == Head(queue)
  IN /\ HandlerAt("Login")
     /\ Session!Close
     /\ uidSeq' = uidSeq + 1
     /\ connCids' = [connCids EXCEPT ![m.cid] = uidSeq]
     /\ inbox' = Sending(m.cid, <<[type |-> "LoginResponse", uid |-> uidSeq]>>)
     /\ Done
     /\ UNCHANGED <<browser, isConnected, peers, bounds>>

(* Close: closes the session, whoever has it.                                  *)
HandleClose ==
  LET m == Head(queue)
  IN /\ HandlerAt("Close")
     /\ inbox' = Sending(m.cid, NotLogin(m))
     /\ IF Verified(m.cid) THEN Session!Close ELSE UNCHANGED slots
     /\ Done
     /\ UNCHANGED <<browser, server, peers, bounds>>

HandleOther ==
  LET m == Head(queue)
  IN /\ HandlerAt("Other")
     /\ inbox' = Sending(m.cid, NotLogin(m))
     /\ Done
     /\ UNCHANGED <<browser, server, slots, peers, bounds>>

DropUnverified ==
  LET m == Head(queue)
  IN /\ HandlerAt("ConnectSdp") /\ ~Verified(m.cid)
     /\ Done
     /\ UNCHANGED <<browser, inbox, server, slots, peers, bounds>>

HasConnected(m) == <<[type |-> "HasConnected", uid |-> m.uid]>>

(* addPeer finds a peer that says it is connected: "return 2". Only a peer     *)
(* that was told its local description can be.                                 *)
Refuse ==
  LET m == Head(queue)
  IN /\ HandlerAt("ConnectSdp") /\ Verified(m.cid)
     /\ slot \in told
     /\ inbox' = Sending(m.cid, NotLogin(m) \o HasConnected(m))
     /\ Done
     /\ UNCHANGED <<browser, server, slots, peers, bounds>>

Accept_Bug ==   \* the uid of the login before: m_uid kept by the session
  LET m == Head(queue)
      p == CHOOSE q \in Peer : q \notin born
  IN /\ HandlerAt("ConnectSdp") /\ Verified(m.cid)
     /\ born # Peer
     /\ Session!Begin(p)
     /\ owner' = [owner EXCEPT ![p] = [cid |-> m.cid, uid |-> uidSeq - 1]]
     /\ inbox' = Sending(m.cid, NotLogin(m))
     /\ UNCHANGED <<browser, queue, server, negotiated, told, cand, bounds>>

(* connect() fails: the peer it made is gone again, no session is open, and the *)
(* page is told that somebody else is connected.                               *)
ConnectFails ==
  LET m == Head(queue)
  IN /\ HandlerAt("ConnectSdp") /\ Verified(m.cid)
     /\ Session!Close
     /\ inbox' = Sending(m.cid, NotLogin(m) \o HasConnected(m))
     /\ Done
     /\ UNCHANGED <<browser, server, peers, bounds>>

(* connect(): a new peer for the uid the message carries.                      *)
Accept ==
  LET m == Head(queue)
      p == CHOOSE q \in Peer : q \notin born
  IN /\ HandlerAt("ConnectSdp") /\ Verified(m.cid)
     /\ born # Peer
     /\ Session!Begin(p)
     /\ owner' = [owner EXCEPT ![p] = [cid |-> m.cid, uid |-> m.uid]]
     /\ inbox' = Sending(m.cid, NotLogin(m))
     /\ UNCHANGED <<browser, queue, server, negotiated, told, cand, bounds>>

AnswerMessage(m) == <<[type |-> "Answer", uid |-> m.uid, peer |-> pending]>>

SendAnswer_Bug ==   \* no answer to a page that was answered before
  LET m == Head(queue)
  IN /\ Session!Install
     /\ inbox' = IF \E p \in born \ {pending} : owner[p].cid = m.cid THEN inbox
                 ELSE Sending(m.cid, AnswerMessage(m))
     /\ negotiated' = pending
     /\ UNCHANGED <<browser, queue, server, told, owner, cand, bounds>>

SendAnswer_Late ==   \* setLocalDescription before the answer is sent
  LET m == Head(queue)
  IN /\ pending # NoPeer
     /\ \/ told' = told \union {pending} /\ UNCHANGED <<slots, inbox, negotiated>>
        \/ /\ pending \in told
           /\ Session!Install
           /\ inbox' = Sending(m.cid, AnswerMessage(m))
           /\ negotiated' = pending
           /\ UNCHANGED told
     /\ UNCHANGED <<browser, queue, server, owner, cand, bounds>>

(* connect() succeeded: the answer goes out before anything else.              *)
SendAnswer ==
  LET m == Head(queue)
  IN /\ isConnected
     /\ Session!Install
     /\ inbox' = Sending(m.cid, AnswerMessage(m))
     /\ negotiated' = pending
     /\ UNCHANGED <<browser, queue, server, told, owner, cand, bounds>>

(* The answer cannot be sent: the peer stays in the slot and waits.            *)
AnswerNotSent == /\ ~isConnected
                 /\ Session!Install
                 /\ Done
                 /\ UNCHANGED <<browser, inbox, server, peers, bounds>>

(* setLocalDescription goes to whatever the slot holds by now, if anything.    *)
SetLocalDescription == /\ negotiated # NoPeer
                       /\ told' = told \union (live \intersect {slot})
                       /\ negotiated' = NoPeer
                       /\ Done
                       /\ UNCHANGED <<browser, inbox, server, slots, owner, cand, bounds>>

(* A peer has found a candidate. Its thread looks for the page by uid, without *)
(* msgLock, ...                                                                *)
FindCandidate(p) ==
  /\ p \in told \intersect live /\ cand[p] = Waiting
  /\ Cardinality({q \in Peer : cand[q] # Waiting}) < MaxCandidates
  /\ cand' = [cand EXCEPT ![p] =
       IF \E c \in Client : connCids[c] = owner[p].uid
         THEN CHOOSE c \in Client : connCids[c] = owner[p].uid
         ELSE NoClient]
  /\ UNCHANGED <<browser, inbox, queue, server, slots, negotiated, told, owner, bounds>>

(* ... and publishes; with no such uid, to a topic no page subscribes to.      *)
SendCandidate(p) ==
  /\ cand[p] \in Client \union {NoClient}
  /\ cand' = [cand EXCEPT ![p] = Sent]
  /\ inbox' = IF cand[p] = NoClient THEN inbox
              ELSE Sending(cand[p], <<[type |-> "Candidate", uid |-> owner[p].uid, peer |-> p]>>)
  /\ UNCHANGED <<browser, queue, server, slots, negotiated, told, owner, bounds>>

(* The session closes by itself, and closed sessions are cleaned up.           *)
SessionStep == /\ \/ open /\ Session!Close
                  \/ Session!Decide
                  \/ Session!Reap
               /\ UNCHANGED <<browser, inbox, queue, server, peers, bounds>>

(* mqtt_connect_error: nothing ever sets isConnected again.                    *)
ConnectError == /\ BrokerFails /\ isConnected
                /\ isConnected' = FALSE
                /\ UNCHANGED <<browser, inbox, queue, connCids, uidSeq, slots, peers, bounds>>

(* The server process dies and is started again; pages do not notice.          *)
Restart == /\ restarts < MaxRestarts
           /\ restarts' = restarts + 1
           /\ queue' = <<>>
           /\ connCids' = [c \in Client |-> NoUid]
           /\ uidSeq' = FirstUid /\ isConnected' = TRUE
           /\ slot' = NoPeer /\ pending' = NoPeer /\ live' = {}
           /\ open' = FALSE /\ reaping' = FALSE
           /\ negotiated' = NoPeer
           /\ cand' = [p \in Peer |-> IF p \in born THEN Sent ELSE Waiting]
           /\ UNCHANGED <<browser, inbox, born, told, owner, clicks, drops>>

-----------------------------------------------------------------------------
User(c) == Play(c) \/ Stop(c) \/ Chatter(c)

Page(c) == \/ ConnectUp(c) \/ Offer(c)
           \/ ReceiveLoginResponse(c) \/ ReceiveAnswer(c) \/ ReceiveCandidate(c)
           \/ ReceiveOnClosed(c) \/ ReceiveRefusal(c) \/ ReceiveNotLogin(c)

MessageThread == \/ HandleLogin \/ HandleClose \/ HandleOther \/ DropUnverified
                 \/ Refuse \/ ConnectFails \/ Accept
                 \/ SendAnswer \/ AnswerNotSent \/ SetLocalDescription

CandidateThread(p) == FindCandidate(p) \/ SendCandidate(p)

Next == \/ \E c \in Client : User(c) \/ Page(c) \/ LinkLost(c)
        \/ MessageThread \/ SessionStep \/ ConnectError \/ Restart
        \/ \E p \in Peer : CandidateThread(p)

Spec == Init /\ [][Next]_vars

(* Pages handle what arrives and reconnect by themselves, the message thread   *)
(* works through its list. Nothing is assumed of users, links or restarts.     *)
FairSpec == /\ Spec
            /\ WF_vars(MessageThread)
            /\ \A c \in Client : /\ WF_vars(ConnectUp(c)) /\ WF_vars(Offer(c))
                                 /\ WF_vars(Page(c))

-----------------------------------------------------------------------------
(* In one life of the server no two pages ever hold the same uid, and none has *)
(* one that is still to be given out: candidates are routed by uid alone.      *)
UidsUnique == \A c, d \in Client :
                Known(c) => connCids[c] < uidSeq /\ (connCids[d] = connCids[c] => c = d)

(* A page gets answers and candidates of its own peer connections only, though *)
(* the server finds the page of a candidate by the uid alone and later. (With  *)
(* restarts it does not hold: uids start again and pages keep the old ones.)   *)
OwnRepliesOnly ==
  restarts = 0 =>
    \A c \in Client : \A i \in DOMAIN inbox[c] :
      inbox[c][i].type \in {"Answer", "Candidate"} => owner[inbox[c][i].peer].cid = c

(* What the server keeps of pages is consistent, and so what they are sent.    *)
RoutedByUid == TypeOK /\ UidsUnique /\ OwnRepliesOnly

(* A page could not use a candidate before the answer it belongs to: nothing   *)
(* of a peer connection overtakes its answer on the way.                       *)
AnswerBeforeCandidate ==
  \A c \in Client : \A i, j \in DOMAIN inbox[c] :
    /\ inbox[c][i].type = "Candidate" /\ inbox[c][j].type = "Answer"
    /\ inbox[c][i].peer = inbox[c][j].peer
    => j < i

(* A page's uid only grows while the server lives: an old login response never *)
(* arrives after a newer one.                                                  *)
UidsGrow == [][restarts' = 0 => \A c \in Client : uid'[c] >= uid[c]]_vars

(* Whoever asks to play gets as far as making an offer, through lost links and *)
(* other pages' logins.                                                        *)
PlayMakesOffer == \A c \in Client : playing[c] /\ sdk[c] = "none" ~> sdk[c] # "none"

(* An offer does not stay unanswered: it is answered or refused, or given up   *)
(* for a new one after a lost link.                                            *)
OfferSettled == \A c \in Client : sdk[c] = "offered" ~> sdk[c] # "offered"

(* "connect fail! please close other peer connect!", says the page on          *)
(* HasConnected: then there is another session to close.                       *)
RefusedOnlyWhenBusy ==
  [][\A c \in Client :
       (Len(inbox'[c]) > Len(inbox[c]) /\ inbox'[c][Len(inbox'[c])].type = "HasConnected")
       => open /\ slot # NoPeer]_vars
=============================================================================
