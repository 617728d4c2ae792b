----------------------------- MODULE IpcRtcProofs -----------------------------
(* Proofs about the WebRTC session for any number of peer connections and      *)
(* pacer threads, with and without pacer.                                      *)
EXTENDS IpcRtc, TLAPS

USE NoPeerAssumption, OwnersAssumption

(* Next, by who moves.                                                         *)
LEMMA NextCases ==
  ASSUME Next
  PROVE \/ Close \/ AddPeerReject \/ AddPeer \/ HandlerStep \/ EncoderStep \/ CheckAlive
        \/ \E w \in Pacer : PacerStep(w)
        \/ \E p \in Peer : PeerStep(p)
        \/ \E t \in Closers : DisconnectSecond(t)
BY DEF Next, Requests

-----------------------------------------------------------------------------
(* Every field keeps its type, in every interleaving of the threads.           *)
THEOREM TypeCorrect == Spec => []TypeOK
<1>1. Init => TypeOK
  BY DEF Init, TypeOK, ConnState, Closers
<1>2. TypeOK /\ [Next]_vars => TypeOK'
  <2> SUFFICES ASSUME TypeOK, [Next]_vars PROVE TypeOK'
    OBVIOUS
  <2> USE DEF TypeOK, session, objects, threads
  <2>1. ASSUME NEW t \in Closers, DisconnectFirst(t), UNCHANGED <<live, born, started>>,
               up' \subseteq Peer
        PROVE  TypeOK'
    BY <2>1 DEF DisconnectFirst
  <2>2. CASE Close
    BY <2>2, <2>1 DEF Close, Closers
  <2>3. CASE AddPeerReject
    BY <2>3 DEF AddPeerReject, vars
  <2>4. CASE AddPeer
    BY <2>4 DEF AddPeer
  <2>5. CASE HandlerStep
    <3>1. CASE Start
      BY <2>5, <3>1 DEF Start
    <3>2. CASE ConnectBegin
      BY <3>2 DEF ConnectBegin
    <3>3. CASE ConnectFail
      BY <3>3 DEF ConnectFail
    <3>4. CASE InstallPeer
      BY <3>4 DEF InstallPeer
    <3>5. CASE InstallPacer
      BY <3>5 DEF InstallPacer
    <3>6. CASE SetLocalDescription
      BY <3>6 DEF SetLocalDescription
    <3>7. CASE AnswerNotSent
      BY <3>7 DEF AnswerNotSent
    <3>8. CASE Negotiated
      BY <3>8 DEF Negotiated
    <3>9. QED
      BY <2>5, <3>1, <3>2, <3>3, <3>4, <3>5, <3>6, <3>7, <3>8 DEF HandlerStep
  <2>6. CASE EncoderStep
    BY <2>6 DEF EncoderStep, EncodeFrame, FrameTooLate, FrameInTime, SendFrame,
        EncoderSeesClosed, EncoderDelete, EncoderNothingLeft, EncoderClear
  <2>7. CASE CheckAlive
    BY <2>7, <2>1 DEF CheckAlive, Closers
  <2>8. ASSUME NEW w \in Pacer, PacerStep(w) PROVE TypeOK'
    <3>1. CASE PacerBegin(w)
      BY <3>1 DEF PacerBegin
    <3>2. CASE PacerNoPeer(w) \/ PacerReset(w)
      BY <3>2 DEF PacerNoPeer, PacerReset
    <3>3. CASE PacerSeesClosed(w)
      BY <3>3 DEF PacerSeesClosed
    <3>4. CASE PacerDelete(w)
      BY <3>4 DEF PacerDelete
    <3>5. CASE PacerClear(w)
      BY <3>5 DEF PacerClear
    <3>6. CASE PacerNothingLeft(w)
      BY <3>6 DEF PacerNothingLeft
    <3>7. QED
      BY <2>8, <3>1, <3>2, <3>3, <3>4, <3>5, <3>6 DEF PacerStep
  <2>9. ASSUME NEW p \in Peer, PeerStep(p) PROVE TypeOK'
    <3>1. CASE PeerFailed(p)
      BY <3>1, <2>1 DEF PeerFailed, Closers
    <3>2. CASE PeerConnected(p) \/ PeerDisconnected(p) \/ PeerCloseAlert(p)
      BY <3>2 DEF PeerConnected, PeerDisconnected, PeerCloseAlert, ConnState
    <3>3. QED
      BY <2>9, <3>1, <3>2 DEF PeerStep
  <2>10. ASSUME NEW t \in Closers, DisconnectSecond(t) PROVE TypeOK'
    BY <2>10 DEF DisconnectSecond, ConnState
  <2>11. CASE UNCHANGED vars
    BY <2>11 DEF vars
  <2>12. QED
    BY <2>2, <2>3, <2>4, <2>5, <2>6, <2>7, <2>8, <2>9, <2>10, <2>11, NextCases
<1>3. QED
  BY <1>1, <1>2, PTL DEF Spec

-----------------------------------------------------------------------------
(* Who is inside which critical section.                                       *)
LockInv == /\ mutex = Handler <=> hpc = "pacer"
           /\ \A w \in Pacer : wpc[w] = "clear" <=> mutex = w

(* The object connect() works on is its own until it installs it.              *)
ConnectInv == /\ live \subseteq born
              /\ peer \in born \union {NoPeer}
              /\ hpc \in {"negotiate", "install"} => hpeer \in live /\ hpeer # peer
              /\ hpc = "pacer" => peer \in {hpeer, NoPeer} /\ hpeer # NoPeer

(* The pointer is good except inside the two places that delete through it. The*)
(* encoder's is there only without pacer threads; with them every deletion is  *)
(* under the lock, so connect() finds its object while it attaches the pacer.  *)
PointerInv == /\ mutex \notin Pacer /\ epc # "clear" => peer \in live \union {NoPeer}
              /\ enablePacer => epc \notin {"delete", "clear"}
              /\ enablePacer /\ hpc = "pacer" => hpeer \in live

(* m_pacer goes with m_peer except while connect() is replacing both, and once *)
(* a session has been started there is one.                                    *)
PacerInv == /\ mutex # Handler /\ peer # NoPeer => pacer = peer
            /\ started # {} \/ connState = "connected" \/ epc = "send" => pacer # NoPeer \/ hpc = "pacer"

SessionInv == TypeOK /\ LockInv /\ ConnectInv /\ PointerInv /\ PacerInv

(* No step of any thread breaks the session's invariant.                       *)
LEMMA SessionInvStep == TypeOK' /\ SessionInv /\ [Next]_vars => SessionInv'
<1> SUFFICES ASSUME TypeOK', SessionInv, [Next]_vars
             PROVE LockInv' /\ ConnectInv' /\ PointerInv' /\ PacerInv'
  BY DEF SessionInv
<1> USE DEF SessionInv, TypeOK, LockInv, ConnectInv, PointerInv, PacerInv,
            session, objects, threads
<1>1. ASSUME NEW t \in Closers, DisconnectFirst(t), UNCHANGED <<live, born, started>>
      PROVE  LockInv' /\ ConnectInv' /\ PointerInv' /\ PacerInv'
  BY <1>1 DEF DisconnectFirst
<1>2. CASE Close
  BY <1>2, <1>1 DEF Close, Closers
<1>3. CASE AddPeerReject
  BY <1>3 DEF AddPeerReject, vars
<1>4. CASE AddPeer
  BY <1>4 DEF AddPeer, HandlerIdle
<1>5. CASE HandlerStep
  <2>1. CASE Start
    <3>1. \A w \in Pacer : wpc'[w] = wpc[w] \/ (wpc[w] = "none" /\ wpc'[w] = "created")
      BY <2>1 DEF Start
    <3>2. QED
      BY <2>1, <3>1 DEF Start
  <2>2. CASE ConnectBegin
    BY <2>2 DEF ConnectBegin
  <2>3. CASE ConnectFail
    BY <2>3 DEF ConnectFail
  <2>4. CASE InstallPeer
    BY <2>4 DEF InstallPeer
  <2>5. CASE InstallPacer
    BY <2>5 DEF InstallPacer
  <2>6. CASE SetLocalDescription
    BY <2>6 DEF SetLocalDescription
  <2>7. CASE AnswerNotSent
    BY <2>7 DEF AnswerNotSent
  <2>8. CASE Negotiated
    BY <2>8 DEF Negotiated
  <2>9. QED
    BY <1>5, <2>1, <2>2, <2>3, <2>4, <2>5, <2>6, <2>7, <2>8 DEF HandlerStep
<1>6. CASE EncoderStep
  <2>1. CASE EncodeFrame \/ FrameTooLate \/ FrameInTime \/ SendFrame
    BY <2>1 DEF EncodeFrame, FrameTooLate, FrameInTime, SendFrame
  <2>2. CASE EncoderSeesClosed \/ EncoderDelete \/ EncoderNothingLeft
    BY <2>2 DEF EncoderSeesClosed, EncoderDelete, EncoderNothingLeft
  <2>3. CASE EncoderClear
    BY <2>3 DEF EncoderClear
  <2>4. QED
    BY <1>6, <2>1, <2>2, <2>3 DEF EncoderStep
<1>7. CASE CheckAlive
  BY <1>7, <1>1 DEF CheckAlive, Closers
<1>8. ASSUME NEW w \in Pacer, PacerStep(w)
      PROVE  LockInv' /\ ConnectInv' /\ PointerInv' /\ PacerInv'
  <2>1. CASE PacerBegin(w)
    BY <2>1 DEF PacerBegin
  <2>2. CASE PacerNoPeer(w) \/ PacerReset(w)
    BY <2>2 DEF PacerNoPeer, PacerReset
  <2>3. CASE PacerSeesClosed(w)
    BY <2>3 DEF PacerSeesClosed
  <2>4. CASE PacerDelete(w)
    BY <2>4 DEF PacerDelete
  <2>5. CASE PacerClear(w)
    BY <2>5 DEF PacerClear
  <2>6. CASE PacerNothingLeft(w)
    BY <2>6 DEF PacerNothingLeft
  <2>7. QED
    BY <1>8, <2>1, <2>2, <2>3, <2>4, <2>5, <2>6 DEF PacerStep
<1>9. ASSUME NEW p \in Peer, PeerStep(p)
      PROVE  LockInv' /\ ConnectInv' /\ PointerInv' /\ PacerInv'
  <2>1. CASE PeerFailed(p)
    BY <2>1, <1>1 DEF PeerFailed, Closers
  <2>2. CASE PeerConnected(p)
    BY <2>2 DEF PeerConnected
  <2>3. CASE PeerDisconnected(p) \/ PeerCloseAlert(p)
    BY <2>3 DEF PeerDisconnected, PeerCloseAlert
  <2>4. QED
    BY <1>9, <2>1, <2>2, <2>3 DEF PeerStep
<1>10. ASSUME NEW t \in Closers, DisconnectSecond(t)
       PROVE  LockInv' /\ ConnectInv' /\ PointerInv' /\ PacerInv'
  BY <1>10 DEF DisconnectSecond
<1>11. CASE UNCHANGED vars
  BY <1>11 DEF vars
<1>12. QED
  BY <1>2, <1>3, <1>4, <1>5, <1>6, <1>7, <1>8, <1>9, <1>10, <1>11, NextCases

(* The session's invariant holds in every reachable state.                     *)
THEOREM SessionSafe == Spec => []SessionInv
<1>1. TypeOK /\ Init => SessionInv
  BY DEF Init, SessionInv, TypeOK, LockInv, ConnectInv, PointerInv, PacerInv
<1>2. QED
  BY <1>1, SessionInvStep, TypeCorrect, PTL DEF Spec

(* m_peer never dangles outside the code that deletes through it, so no thread *)
(* deletes a peer connection twice.                                            *)
THEOREM PeerPointerSafe == Spec => []PeerPointerValid
<1>1. SessionInv => PeerPointerValid
  BY DEF SessionInv, TypeOK, PointerInv, PeerPointerValid
<1>2. QED
  BY <1>1, SessionSafe, PTL

(* Frames are paced to the current peer.                                       *)
THEOREM PacerFollows == Spec => []PacerFollowsPeer
<1>1. SessionInv => PacerFollowsPeer
  BY DEF SessionInv, PacerInv, PacerFollowsPeer
<1>2. QED
  BY <1>1, SessionSafe, PTL

(* The encoder finds a pacer whenever the state says Connected.                *)
THEOREM EncoderSafe == Spec => []EncoderHasPacer
<1>1. SessionInv => EncoderHasPacer
  BY DEF SessionInv, TypeOK, LockInv, PacerInv, EncoderHasPacer
<1>2. QED
  BY <1>1, SessionSafe, PTL

(* What the encoder sends goes to the peer of the session, and it has what to *)
(* send it with.                                                              *)
THEOREM PacerIsUsable == Spec => []PacerUsable
  BY PacerFollows, EncoderSafe, PTL DEF PacerUsable

-----------------------------------------------------------------------------
(* The concrete step of one actor is at most one step of the contract.         *)
AbstractStep == [Slot!Next]_(Slot!vars)

LEMMA DisconnectClosesSlot ==
  ASSUME NEW t \in Closers, DisconnectFirst(t), UNCHANGED <<live, born>>
  PROVE  AbstractStep
<1>1. Slot!Close
  BY DEF DisconnectFirst, Slot!Close
<1>2. QED
  BY <1>1 DEF AbstractStep, Slot!Next

(* What happens to the contract's variables when no field they depend on moves.*)
LEMMA SlotStutters ==
  ASSUME UNCHANGED <<peer, live, born, isConnected>>,
         (mutex' \in Pacer) = (mutex \in Pacer),
         (hpc' \in {"negotiate", "install"}) = (hpc \in {"negotiate", "install"}),
         hpc \in {"negotiate", "install"} => hpeer' = hpeer,
         (\E w \in Pacer : wpc'[w] = "lock") = (\E w \in Pacer : wpc[w] = "lock")
  PROVE  AbstractStep
BY DEF AbstractStep, Slot!vars

(* With pacer threads, every step of every thread is a step of the contract    *)
(* the signalling side relies on, or none of its business.                     *)
THEOREM SessionImplementsSlot == Spec => ImplementsPeerSlot
<1>1. Init => (enablePacer => Slot!Init)
  BY DEF Init, Slot!Init
<1>2. SessionInv /\ SessionInv' /\ [Next]_vars => [enablePacer => Slot!Next]_(Slot!vars)
  <2> SUFFICES ASSUME SessionInv, SessionInv', [Next]_vars, enablePacer PROVE AbstractStep
    BY DEF AbstractStep
  <2> USE DEF SessionInv, TypeOK, LockInv, ConnectInv, PointerInv, session, objects, threads
  <2>1. CASE Close
    BY <2>1, DisconnectClosesSlot DEF Close, Closers
  <2>2. CASE AddPeerReject
    BY <2>2, SlotStutters DEF AddPeerReject, vars
  <2>3. CASE AddPeer
    BY <2>3, SlotStutters DEF AddPeer, HandlerIdle
  <2>4. CASE HandlerStep
    <3>1. CASE Start
      <4>1. \A w \in Pacer : (wpc'[w] = "lock") = (wpc[w] = "lock")
        BY <3>1 DEF Start
      <4>2. QED
        BY <3>1, <4>1, SlotStutters DEF Start
    <3>2. CASE ConnectBegin
      <4>1. PICK p \in Peer \ born : hpeer' = p /\ live' = live \union {p}
                                     /\ born' = born \union {p}
        BY <3>2 DEF ConnectBegin
      <4>2. Slot!Begin(p)
        BY <3>2, <4>1 DEF ConnectBegin, Slot!Begin
      <4>3. QED
        BY <4>2 DEF AbstractStep, Slot!Next
    <3>3. CASE ConnectFail
      <4>1. Slot!Abort
        BY <3>3 DEF ConnectFail, Slot!Abort
      <4>2. QED
        BY <4>1 DEF AbstractStep, Slot!Next
    <3>4. CASE InstallPeer
      <4>1. Slot!Install
        BY <3>4 DEF InstallPeer, Slot!Install
      <4>2. QED
        BY <4>1 DEF AbstractStep, Slot!Next
    <3>5. CASE InstallPacer
      BY <3>5, SlotStutters DEF InstallPacer
    <3>6. CASE SetLocalDescription
      BY <3>6, SlotStutters DEF SetLocalDescription
    <3>7. CASE AnswerNotSent
      BY <3>7, SlotStutters DEF AnswerNotSent
    <3>8. CASE Negotiated
      BY <3>8, SlotStutters DEF Negotiated
    <3>9. QED
      BY <2>4, <3>1, <3>2, <3>3, <3>4, <3>5, <3>6, <3>7, <3>8 DEF HandlerStep
  <2>5. CASE EncoderStep
    BY <2>5, SlotStutters
    DEF EncoderStep, EncodeFrame, FrameTooLate, FrameInTime, SendFrame,
        EncoderSeesClosed, EncoderDelete, EncoderNothingLeft, EncoderClear
  <2>6. CASE CheckAlive
    BY <2>6, DisconnectClosesSlot DEF CheckAlive, Closers
  <2>7. ASSUME NEW w \in Pacer, PacerStep(w) PROVE AbstractStep
    <3>1. CASE PacerBegin(w)
      BY <3>1, SlotStutters DEF PacerBegin
    <3>2. CASE PacerNoPeer(w) \/ PacerReset(w)
      BY <3>2, SlotStutters DEF PacerNoPeer, PacerReset
    <3>3. CASE PacerSeesClosed(w)
      <4>1. \E v \in Pacer : wpc'[v] = "lock"
        BY <3>3 DEF PacerSeesClosed
      <4>2. Slot!Decide
        BY <3>3, <4>1 DEF PacerSeesClosed, Slot!Decide
      <4>3. QED
        BY <4>2 DEF AbstractStep, Slot!Next
    <3>4. CASE PacerDelete(w)
      <4>1. Slot!Reap
        BY <3>4 DEF PacerDelete, Slot!Reap
      <4>2. QED
        BY <4>1 DEF AbstractStep, Slot!Next
    <3>5. CASE PacerClear(w)
      <4>1. mutex \in Pacer /\ mutex' \notin Pacer /\ peer' = NoPeer
        BY <3>5 DEF PacerClear
      <4>2. \A v \in Pacer : (wpc'[v] = "lock") = (wpc[v] = "lock")
        BY <3>5 DEF PacerClear
      <4>3. QED
        BY <3>5, <4>1, <4>2 DEF PacerClear, AbstractStep, Slot!vars
    <3>6. CASE PacerNothingLeft(w)
      <4>1. Slot!Reap
        BY <3>6 DEF PacerNothingLeft, Slot!Reap
      <4>2. QED
        BY <4>1 DEF AbstractStep, Slot!Next
    <3>7. QED
      BY <2>7, <3>1, <3>2, <3>3, <3>4, <3>5, <3>6 DEF PacerStep
  <2>8. ASSUME NEW p \in Peer, PeerStep(p) PROVE AbstractStep
    <3>1. CASE PeerFailed(p)
      BY <3>1, DisconnectClosesSlot DEF PeerFailed, Closers
    <3>2. CASE PeerConnected(p) \/ PeerDisconnected(p) \/ PeerCloseAlert(p)
      BY <3>2, SlotStutters DEF PeerConnected, PeerDisconnected, PeerCloseAlert
    <3>3. QED
      BY <2>8, <3>1, <3>2 DEF PeerStep
  <2>9. ASSUME NEW t \in Closers, DisconnectSecond(t) PROVE AbstractStep
    BY <2>9, SlotStutters DEF DisconnectSecond
  <2>10. CASE UNCHANGED vars
    BY <2>10, SlotStutters DEF vars
  <2>11. QED
    BY <2>1, <2>2, <2>3, <2>4, <2>5, <2>6, <2>7, <2>8, <2>9, <2>10, NextCases
<1>3. QED
  BY <1>1, <1>2, SessionSafe, PTL DEF Spec, ImplementsPeerSlot
=============================================================================
