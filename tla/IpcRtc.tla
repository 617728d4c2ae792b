-------------------------------- MODULE IpcRtc --------------------------------
(* The WebRTC session of the screen server, YangIpcRtc.cpp, with the threads   *)
(* that work on its unprotected fields:                                        *)
(*   handler   the signalling thread: addPeer/connect, setLocalDescription and *)
(*             disconnectPeer (login and close messages)                       *)
(*   pacers    yang_ipc_rtcrecv_start_thread, created by start()               *)
(*   encoder   onVideoData, called with every encoded frame                    *)
(*   timer     checkAlive, every 5 seconds                                     *)
(*   peers     each peer connection calls back from threads of its own         *)
(* m_mutex protects only the two places that replace m_peer; everybody else    *)
(* reads and writes without it. A step of the model is a stretch of code that  *)
(* touches shared fields once.                                                 *)
EXTENDS Naturals, FiniteSets

CONSTANTS Peer,         \* peer connection objects that connect() may create (a bound)
          NoPeer,       \* NULL
          Pacer,        \* pacer threads that start() may create (a bound)
          Handler,      \* the handler thread, as owner of m_mutex
          Free          \* nobody owns m_mutex

ASSUME NoPeerAssumption == NoPeer \notin Peer
ASSUME OwnersAssumption == Handler \notin Pacer /\ Free \notin Pacer \union {Handler}

VARIABLES enablePacer,  \* m_enablePacer: frames go through a pacer with a thread of its own
          peer,         \* m_peer
          pacer,        \* the connection m_pacer is attached to; NoPeer: m_pacer is NULL
          isConnected,  \* m_isConnected
          connState,    \* m_connState
          inited,       \* m_inited
          isStart,      \* m_isStart
          mutex,        \* owner of m_mutex
          live,         \* peer connections created and not deleted
          born,         \* peer connections ever created
          started,      \* those told their local description: ICE and DTLS may run
          up,           \* those whose isConnected() holds
          hpc, hpeer,   \* handler: where it is, and connect()'s local variable peer
          wpc,          \* where each pacer thread is
          epc,          \* where the encoder thread is
          closing       \* threads between the two writes of disconnectPeer

session == <<enablePacer, peer, pacer, isConnected, connState, inited, isStart, mutex>>
objects == <<live, born, started, up>>
threads == <<hpc, hpeer, wpc, epc, closing>>
vars == <<session, objects, threads>>

ConnState == {"new", "connected", "disconnected", "closed"}
Closers == Peer \union {"handler", "timer"}

TypeOK == /\ enablePacer \in BOOLEAN
          /\ peer \in Peer \union {NoPeer}
          /\ pacer \in Peer \union {NoPeer}
          /\ isConnected \in BOOLEAN
          /\ connState \in ConnState
          /\ inited \in BOOLEAN /\ isStart \in BOOLEAN
          /\ mutex \in Pacer \union {Handler, Free}
          /\ live \subseteq Peer /\ born \subseteq Peer
          /\ started \subseteq Peer /\ up \subseteq Peer
          /\ hpc \in {"idle", "start", "connect", "negotiate", "install", "pacer", "answer"}
          /\ hpeer \in Peer \union {NoPeer}
          /\ wpc \in [Pacer -> {"none", "created", "loop", "lock", "clear"}]
          /\ epc \in {"idle", "frame", "send", "delete", "clear"}
          /\ closing \subseteq Closers

Init == /\ enablePacer \in BOOLEAN   \* avinfo->rtc.enablePacer
        /\ peer = NoPeer /\ pacer = NoPeer
        /\ isConnected = FALSE /\ connState = "new"
        /\ inited = FALSE /\ isStart = FALSE /\ mutex = Free
        /\ live = {} /\ born = {} /\ started = {} /\ up = {}
        /\ hpc = "idle" /\ hpeer = NoPeer
        /\ wpc = [w \in Pacer |-> "none"]
        /\ epc = "idle" /\ closing = {}

-----------------------------------------------------------------------------
(* disconnectPeer(): two writes, no lock, and m_peer is left alone.            *)
DisconnectFirst(t) == /\ t \notin closing
                      /\ isConnected' = FALSE
                      /\ closing' = closing \union {t}
                      /\ UNCHANGED <<enablePacer, peer, pacer, connState, inited, isStart,
                                     mutex, hpc, hpeer, wpc, epc>>

DisconnectSecond(t) == /\ t \in closing
                       /\ connState' = "new"
                       /\ closing' = closing \ {t}
                       /\ UNCHANGED <<enablePacer, peer, pacer, isConnected, inited, isStart,
                                      mutex, objects, hpc, hpeer, wpc, epc>>

-----------------------------------------------------------------------------
(* The handler. A login or a close message: YangIpc's close handle.            *)
HandlerIdle == hpc = "idle" /\ "handler" \notin closing

Close == HandlerIdle /\ DisconnectFirst("handler") /\ UNCHANGED objects

(* Asking a peer whether it is connected. Asking one that a pacer is deleting  *)
(* right now is a use after free: it may answer anything.                      *)
MaySayConnected(p) == p \in up \/ p \notin live
MaySayNotConnected(p) == p \notin up \/ p \notin live

(* addPeer, "return 2": the caller answers HasConnected.                       *)
AddPeerReject == /\ HandlerIdle
                 /\ peer # NoPeer /\ MaySayConnected(peer)
                 /\ UNCHANGED vars

AddPeer == /\ HandlerIdle
           /\ peer = NoPeer \/ MaySayNotConnected(peer)
           /\ hpc' = "start"
           /\ UNCHANGED <<session, objects, hpeer, wpc, epc, closing>>

(* start(): m_isStart is set by the new thread itself, so a second call before *)
(* that creates a second thread.                                               *)
Start == /\ hpc = "start"
         /\ hpc' = "connect"
         /\ IF enablePacer /\ ~isStart
              THEN \E w \in Pacer : /\ wpc[w] = "none"
                                    /\ wpc' = [wpc EXCEPT ![w] = "created"]
              ELSE UNCHANGED wpc
         /\ UNCHANGED <<session, objects, hpeer, epc, closing>>

(* connect(): the flag first, then the object.                                 *)
ConnectBegin == /\ hpc = "connect"
                /\ \E p \in Peer \ born : /\ hpeer' = p
                                          /\ live' = live \union {p}
                                          /\ born' = born \union {p}
                /\ isConnected' = TRUE
                /\ hpc' = "negotiate"
                /\ UNCHANGED <<enablePacer, peer, pacer, connState, inited, isStart, mutex,
                               started, up, wpc, epc, closing>>

(* cleanup deletes m_pacer with the peer that failed. *)
ConnectFail_DropsPacer == /\ hpc = "negotiate"
                          /\ live' = live \ {hpeer}
                          /\ isConnected' = FALSE /\ pacer' = NoPeer
                          /\ hpc' = "idle" /\ hpeer' = NoPeer
                          /\ UNCHANGED <<enablePacer, peer, connState, inited, isStart,
                                         mutex, born, started, up, wpc, epc, closing>>

(* cleanup deletes m_peer, not the local peer. *)
ConnectFail_DropsPeer == /\ hpc = "negotiate"
                         /\ live' = live \ {peer}
                         /\ isConnected' = FALSE /\ peer' = NoPeer
                         /\ hpc' = "idle" /\ hpeer' = NoPeer
                         /\ UNCHANGED <<enablePacer, pacer, connState, inited, isStart,
                                        mutex, born, started, up, wpc, epc, closing>>

(* setRemoteDescription or createAnswer failed.                                *)
ConnectFail == /\ hpc = "negotiate"
               /\ live' = live \ {hpeer}
               /\ isConnected' = FALSE
               /\ hpc' = "idle" /\ hpeer' = NoPeer
               /\ UNCHANGED <<enablePacer, peer, pacer, connState, inited, isStart, mutex,
                              born, started, up, wpc, epc, closing>>

(* createAnswer has succeeded; the handler waits for m_mutex.                  *)
Negotiated == /\ hpc = "negotiate"
              /\ hpc' = "install"
              /\ UNCHANGED <<session, objects, hpeer, wpc, epc, closing>>

(* Under m_mutex: the new peer goes in, the old m_pacer goes; then the new     *)
(* pacer is attached and the lock released.                                    *)
InstallPeer == /\ hpc = "install" /\ mutex = Free
               /\ mutex' = Handler
               /\ peer' = hpeer
               /\ pacer' = NoPeer
               /\ hpc' = "pacer"
               /\ UNCHANGED <<enablePacer, isConnected, connState, inited, isStart, objects,
                              hpeer, wpc, epc, closing>>

InstallPacer_Bug == /\ hpc = "pacer"   \* attachConnection forgotten
                    /\ mutex' = Free
                    /\ hpc' = "answer" /\ hpeer' = NoPeer
                    /\ UNCHANGED <<enablePacer, peer, pacer, isConnected, connState, inited,
                                   isStart, objects, wpc, epc, closing>>

InstallPacer == /\ hpc = "pacer"
                /\ pacer' = hpeer
                /\ mutex' = Free
                /\ hpc' = "answer" /\ hpeer' = NoPeer
                /\ UNCHANGED <<enablePacer, peer, isConnected, connState, inited, isStart,
                               objects, wpc, epc, closing>>

(* The answer has been sent: setLocalDescription on whatever m_peer is now.    *)
SetLocalDescription == /\ hpc = "answer"
                       /\ started' = started \union (live \intersect {peer})
                       /\ hpc' = "idle"
                       /\ UNCHANGED <<session, live, born, up, hpeer, wpc, epc, closing>>

(* The answer could not be sent: yang_ipcmessage_answer leaves it at that.     *)
AnswerNotSent == /\ hpc = "answer"
                 /\ hpc' = "idle"
                 /\ UNCHANGED <<session, objects, hpeer, wpc, epc, closing>>

-----------------------------------------------------------------------------
(* A pacer thread.                                                             *)
PacerBegin(w) == /\ wpc[w] = "created"
                 /\ isStart' = TRUE
                 /\ wpc' = [wpc EXCEPT ![w] = "loop"]
                 /\ UNCHANGED <<enablePacer, peer, pacer, isConnected, connState, inited,
                                mutex, objects, hpc, hpeer, epc, closing>>

PacerNoPeer(w) == /\ wpc[w] = "loop" /\ peer = NoPeer
                  /\ inited' = FALSE
                  /\ UNCHANGED <<enablePacer, peer, pacer, isConnected, connState, isStart,
                                 mutex, objects, threads>>

(* It has seen a closed session with a peer, and goes for the lock.            *)
PacerSeesClosed_Bug(w) == /\ wpc[w] = "loop"   \* the two tests of the loop swapped
                          /\ connState = "connected" /\ peer # NoPeer /\ ~isConnected
                          /\ wpc' = [wpc EXCEPT ![w] = "lock"]
                          /\ UNCHANGED <<session, objects, hpc, hpeer, epc, closing>>

PacerSeesClosed(w) == /\ wpc[w] = "loop" /\ peer # NoPeer /\ ~isConnected
                      /\ wpc' = [wpc EXCEPT ![w] = "lock"]
                      /\ UNCHANGED <<session, objects, hpc, hpeer, epc, closing>>

PacerDelete_Unlocked(w) == /\ wpc[w] = "lock" /\ peer # NoPeer   \* without m_mutex
                           /\ live' = live \ {peer}
                           /\ up' = up \ {peer}
                           /\ wpc' = [wpc EXCEPT ![w] = "clear"]
                           /\ UNCHANGED <<session, born, started, hpc, hpeer, epc, closing>>

(* yang_delete(m_peer) under the lock: reads m_peer again, deletes, ...        *)
PacerDelete(w) == /\ wpc[w] = "lock" /\ mutex = Free /\ peer # NoPeer
                  /\ mutex' = w
                  /\ live' = live \ {peer}
                  /\ up' = up \ {peer}
                  /\ wpc' = [wpc EXCEPT ![w] = "clear"]
                  /\ UNCHANGED <<enablePacer, peer, pacer, isConnected, connState, inited,
                                 isStart, born, started, hpc, hpeer, epc, closing>>

PacerClear_Dangling(w) == /\ wpc[w] = "clear"   \* delete, for yang_delete
                          /\ mutex' = Free
                          /\ inited' = FALSE
                          /\ wpc' = [wpc EXCEPT ![w] = "loop"]
                          /\ UNCHANGED <<enablePacer, peer, pacer, isConnected, connState,
                                         isStart, objects, hpc, hpeer, epc, closing>>

PacerClear_KeepsLock(w) == /\ wpc[w] = "clear"   \* continue before the unlock
                           /\ peer' = NoPeer
                           /\ inited' = FALSE
                           /\ wpc' = [wpc EXCEPT ![w] = "loop"]
                           /\ UNCHANGED <<enablePacer, pacer, isConnected, connState, isStart,
                                          mutex, objects, hpc, hpeer, epc, closing>>

(* ... and sets it to NULL.                                                    *)
PacerClear(w) == /\ wpc[w] = "clear"
                 /\ peer' = NoPeer
                 /\ mutex' = Free
                 /\ inited' = FALSE
                 /\ wpc' = [wpc EXCEPT ![w] = "loop"]
                 /\ UNCHANGED <<enablePacer, pacer, isConnected, connState, isStart,
                                objects, hpc, hpeer, epc, closing>>

(* It lost the race to another pacer: yang_delete(NULL) does nothing.          *)
PacerNothingLeft(w) == /\ wpc[w] = "lock" /\ mutex = Free /\ peer = NoPeer
                       /\ inited' = FALSE
                       /\ wpc' = [wpc EXCEPT ![w] = "loop"]
                       /\ UNCHANGED <<enablePacer, peer, pacer, isConnected, connState, isStart,
                                      mutex, objects, hpc, hpeer, epc, closing>>

PacerReset(w) == /\ wpc[w] = "loop"
                 /\ peer # NoPeer /\ isConnected /\ connState = "connected"
                 /\ ~inited /\ pacer # NoPeer
                 /\ inited' = TRUE
                 /\ UNCHANGED <<enablePacer, peer, pacer, isConnected, connState, isStart,
                                mutex, objects, threads>>

-----------------------------------------------------------------------------
(* The encoder thread: yang_ipc_rtc_enable lets a frame through to be encoded, *)
(* and onVideoData looks at the state again afterwards.                        *)
EncodeFrame == /\ epc = "idle" /\ connState = "connected"
               /\ epc' = "frame"
               /\ UNCHANGED <<session, objects, hpc, hpeer, wpc, closing>>

FrameTooLate == /\ epc = "frame" /\ connState # "connected"
                /\ inited' = FALSE
                /\ epc' = "idle"
                /\ UNCHANGED <<enablePacer, peer, pacer, isConnected, connState, isStart,
                               mutex, objects, hpc, hpeer, wpc, closing>>

FrameInTime == /\ epc = "frame" /\ connState = "connected"
               /\ epc' = "send"
               /\ UNCHANGED <<session, objects, hpc, hpeer, wpc, closing>>

(* m_pacer->bufferVideoFrame, or m_pacer->writeVideoFrame.                     *)
SendFrame == /\ epc = "send"
             /\ enablePacer \/ isConnected
             /\ epc' = "idle"
             /\ UNCHANGED <<session, objects, hpc, hpeer, wpc, closing>>

(* Without a pacer thread the encoder deletes the peer of a closed session, and*)
(* takes no lock: by the time it does there may be another peer.               *)
EncoderSeesClosed == /\ epc = "send"
                     /\ ~enablePacer /\ ~isConnected
                     /\ epc' = "delete"
                     /\ UNCHANGED <<session, objects, hpc, hpeer, wpc, closing>>

EncoderDelete == /\ epc = "delete" /\ peer # NoPeer
                 /\ live' = live \ {peer}
                 /\ up' = up \ {peer}
                 /\ epc' = "clear"
                 /\ UNCHANGED <<session, born, started, hpc, hpeer, wpc, closing>>

EncoderNothingLeft == /\ epc = "delete" /\ peer = NoPeer
                      /\ epc' = "idle"
                      /\ UNCHANGED <<session, objects, hpc, hpeer, wpc, closing>>

EncoderClear_Bug == /\ epc = "clear"   \* delete, for yang_delete
                    /\ epc' = "idle"
                    /\ UNCHANGED <<session, objects, hpc, hpeer, wpc, closing>>

EncoderClear == /\ epc = "clear"
                /\ peer' = NoPeer
                /\ epc' = "idle"
                /\ UNCHANGED <<enablePacer, pacer, isConnected, connState, inited, isStart,
                               mutex, objects, hpc, hpeer, wpc, closing>>

-----------------------------------------------------------------------------
(* checkAlive: the peer says it is connected but has not been heard of lately. *)
CheckAlive == /\ isConnected /\ connState = "connected"
              /\ peer # NoPeer /\ MaySayConnected(peer)
              /\ DisconnectFirst("timer") /\ UNCHANGED objects

(* Callbacks of a peer connection; none of them looks at which one is calling. *)
PeerConnected(p) == /\ p \in live \intersect started
                    /\ up' = up \union {p}
                    /\ connState' = "connected"
                    /\ UNCHANGED <<enablePacer, peer, pacer, isConnected, inited, isStart,
                                   mutex, live, born, started, threads>>

PeerDisconnected(p) == /\ p \in up
                       /\ up' = up \ {p}
                       /\ connState' = "disconnected"
                       /\ UNCHANGED <<enablePacer, peer, pacer, isConnected, inited, isStart,
                                      mutex, live, born, started, threads>>

(* Connection state Failed, or ICE state Fail.                                 *)
PeerFailed(p) == /\ p \in live \intersect started
                 /\ up' = up \ {p}
                 /\ DisconnectFirst(p)
                 /\ UNCHANGED <<live, born, started>>

(* sslCloseAlert; the connection itself may or may not have noticed yet.       *)
PeerCloseAlert(p) == /\ p \in up
                     /\ up' \in {up, up \ {p}}
                     /\ connState' = "closed"
                     /\ UNCHANGED <<enablePacer, peer, pacer, isConnected, inited, isStart,
                                    mutex, live, born, started, threads>>

-----------------------------------------------------------------------------
HandlerStep == \/ Start \/ ConnectBegin \/ ConnectFail \/ Negotiated \/ InstallPeer
               \/ InstallPacer \/ SetLocalDescription \/ AnswerNotSent

PacerStep(w) == \/ PacerBegin(w) \/ PacerNoPeer(w) \/ PacerSeesClosed(w)
                \/ PacerDelete(w) \/ PacerClear(w) \/ PacerNothingLeft(w) \/ PacerReset(w)

EncoderStep == \/ EncodeFrame \/ FrameTooLate \/ FrameInTime \/ SendFrame
               \/ EncoderSeesClosed \/ EncoderDelete \/ EncoderNothingLeft \/ EncoderClear

PeerStep(p) == \/ PeerConnected(p) \/ PeerDisconnected(p)
               \/ PeerFailed(p) \/ PeerCloseAlert(p)

(* Requests stop when connect() has no object left to create (bound Peer).     *)
Requests == Close \/ AddPeerReject \/ (AddPeer /\ born # Peer)

Next == \/ Requests \/ HandlerStep \/ EncoderStep \/ CheckAlive
        \/ \E w \in Pacer : PacerStep(w)
        \/ \E p \in Peer : PeerStep(p)
        \/ \E t \in Closers : DisconnectSecond(t)

(* Every thread keeps running once it has been given something to do: the      *)
(* operating system schedules it, and none of the loops waits for an event.    *)
Fairness == /\ WF_vars(HandlerStep)
            /\ \A w \in Pacer : WF_vars(PacerStep(w))
            /\ \A t \in Closers : WF_vars(DisconnectSecond(t))

Spec == Init /\ [][Next]_vars
FairSpec == Spec /\ Fairness

-----------------------------------------------------------------------------
(* Outside the critical sections that replace m_peer, the pointer is NULL or   *)
(* names an object that has not been deleted, whichever thread deletes. So     *)
(* nothing is ever deleted through m_peer twice, although start() can create   *)
(* two pacer threads that both decide to delete the same peer. With pacer      *)
(* threads, which take the lock, connect() also attaches m_pacer to an object  *)
(* that exists; the encoder thread may delete it from under connect().         *)
PeerPointerValid == /\ mutex = Free /\ epc # "clear" => peer \in live \union {NoPeer}
                    /\ enablePacer /\ hpc = "pacer" => hpeer \in live

(* Frames go to the peer of the session, never to an earlier one: outside      *)
(* connect's critical section m_pacer is attached to m_peer if there is one.   *)
PacerFollowsPeer == mutex = Free /\ peer # NoPeer => pacer = peer

(* onVideoData uses m_pacer without a NULL test once it has seen the state     *)
(* Connected; a callback of a peer long gone can have set that state, and the  *)
(* session can have been closed since. Still there is a pacer then, unless     *)
(* connect is just replacing it.                                               *)
EncoderHasPacer == (connState = "connected" \/ epc = "send") /\ mutex = Free
                     => pacer # NoPeer

(* What the encoder relies on when it sends: a pacer, and that of the session. *)
PacerUsable == PacerFollowsPeer /\ EncoderHasPacer

(* With pacer threads the session is what signalling relies on: objects are    *)
(* deleted once, out of the slot or before they get there, and whoever empties *)
(* the slot deletes what it held at that moment.                               *)
Slot == INSTANCE PeerSlot
          WITH slot    <- IF mutex \in Pacer THEN NoPeer ELSE peer,
               pending <- IF hpc \in {"negotiate", "install"} THEN hpeer ELSE NoPeer,
               open    <- isConnected,
               reaping <- \E w \in Pacer : wpc[w] = "lock"
ImplementsPeerSlot == /\ enablePacer => Slot!Init
                      /\ [][enablePacer => Slot!Next]_(Slot!vars)

(* A closed session does not keep its peer: the pacer thread deletes it, unless*)
(* the next session opens first. (Without pacer threads nobody deletes the peer*)
(* of a session closed by disconnectPeer.)                                     *)
ClosedPeerReaped ==
  (enablePacer /\ ~isConnected /\ peer # NoPeer) ~> (isConnected \/ peer = NoPeer)

(* The signalling thread always comes back for its next message: neither       *)
(* connect nor the wait for m_mutex keeps it for ever.                         *)
HandlerReturns == hpc # "idle" ~> hpc = "idle"

(* Whatever ends a session, the session is taken down in time and the          *)
(* signalling thread is free for the next one.                                 *)
SessionFinishes == ClosedPeerReaped /\ HandlerReturns
=============================================================================
