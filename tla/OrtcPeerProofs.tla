--------------------------- MODULE OrtcPeerProofs ---------------------------
(* Proofs about OrtcPeer, for every set of tracks, streams, candidates and   *)
(* remote choices and every bound.                                           *)
EXTENDS OrtcPeer, FiniteSetTheorems, SequenceTheorems, WellFoundedInduction, TLAPS

(* The closed flag and the signalling state agree: this is what makes the    *)
(* guards of set*Description refuse every call after close.                  *)
ClosedInv ==
  /\ isClosed \in BOOLEAN
  /\ signalingState \in {"stable", "have-local-offer", "have-remote-offer", "closed"}
  /\ isClosed <=> signalingState = "closed"

(* A step that leaves the signalling variables alone.                        *)
Quiet == UNCHANGED <<signalingState, isClosed>>

(* What a step may do to the signalling variables: nothing, move from one    *)
(* open state to another that isActionAllowedInSignalingState admits, or     *)
(* close.                                                                    *)
Signal ==
  \/ Quiet
  \/ /\ ~isClosed /\ isClosed' = FALSE /\ signalingState' = "have-local-offer"
     /\ signalingState \in {"stable", "have-local-offer"}
  \/ /\ ~isClosed /\ isClosed' = FALSE /\ signalingState' = "have-remote-offer"
     /\ signalingState \in {"stable", "have-remote-offer"}
  \/ /\ ~isClosed /\ isClosed' = FALSE /\ signalingState' = "stable"
     /\ signalingState \in {"have-local-offer", "have-remote-offer"}
  \/ signalingState' = "closed" /\ isClosed' = TRUE

(* Every action is such a step.                                              *)
LEMMA NextSignals == ClosedInv /\ [Next]_vars => Signal
  <1> SUFFICES ASSUME ClosedInv, [Next]_vars PROVE Signal
    OBVIOUS
  <1> USE DEF Quiet, Signal, svars, evars, cvars, mvars
  <1>1. ASSUME NEW t \in Tracks, NEW s \in Streams, AddTrack(t, s) PROVE Signal
    BY <1>1 DEF AddTrack
  <1>2. ASSUME NEW i \in DOMAIN transceivers, RemoveTrack(i) PROVE Signal
    BY <1>2 DEF RemoveTrack
  <1>3. CASE NegotiationTimer
    BY <1>3 DEF NegotiationTimer
  <1>4. ASSUME NEW num, CreateOffer(num) PROVE Signal
    BY <1>4 DEF CreateOffer
  <1>5. CASE CreateAnswer
    BY <1>5 DEF CreateAnswer
  <1>6. CASE SetLocalOffer
    BY <1>6 DEF SetLocalOffer, IsActionAllowed, UpdateSignalingState, ClosedInv
  <1>7. CASE SetLocalAnswer
    BY <1>7 DEF SetLocalAnswer, IsActionAllowed, UpdateSignalingState, ClosedInv
  <1>8. ASSUME NEW type \in {"offer", "answer"}, NEW secs, NEW bundle, NEW cands,
               SetRemoteDescription(type, secs, bundle, cands)
        PROVE Signal
    BY <1>8 DEF SetRemoteDescription, IsActionAllowed, UpdateSignalingState, ClosedInv
  <1>9. ASSUME NEW type, NEW secs, NEW bundle, SetRemoteDescriptionThrows(type, secs, bundle)
        PROVE Signal
    BY <1>9 DEF SetRemoteDescriptionThrows
  <1>10. ASSUME NEW c, NEW i, AddIceCandidate(c, i) PROVE Signal
    BY <1>10 DEF AddIceCandidate
  <1>11. CASE EndOfCandidates
    BY <1>11 DEF EndOfCandidates
  <1>12. CASE FourSecondTimer
    BY <1>12 DEF FourSecondTimer
  <1>13. CASE Close
    BY <1>13 DEF Close, UpdateSignalingState
  <1>14. ASSUME NEW t, NEW s, IceStateChange(t, s) PROVE Signal
    BY <1>14 DEF IceStateChange
  <1>15. ASSUME NEW t, NEW s, DtlsStateChange(t, s) PROVE Signal
    BY <1>15 DEF DtlsStateChange
  <1>16. CASE UNCHANGED vars
    BY <1>16 DEF vars
  <1> QED
    BY <1>1, <1>2, <1>3, <1>4, <1>5, <1>6, <1>7, <1>8, <1>9, <1>10, <1>11, <1>12, <1>13,
       <1>14, <1>15, <1>16 DEF Next

(* ClosedInv is inductive.                                                   *)
THEOREM ClosedAgrees == Spec => []ClosedInv
  <1>1. Init => ClosedInv
    BY DEF Init, ClosedInv
  <1>2. ClosedInv /\ [Next]_vars => ClosedInv'
    <2> SUFFICES ASSUME ClosedInv, Signal PROVE ClosedInv'
      BY NextSignals
    <2>1. CASE Quiet
      BY <2>1, Zenon DEF ClosedInv, Quiet
    <2>2. CASE ~isClosed' /\ signalingState' \in {"stable", "have-local-offer", "have-remote-offer"}
                 /\ isClosed' \in BOOLEAN
      BY <2>2 DEF ClosedInv
    <2>3. CASE signalingState' = "closed" /\ isClosed' = TRUE
      BY <2>3 DEF ClosedInv
    <2> QED
      BY <2>1, <2>2, <2>3 DEF Signal
  <1> QED
    BY <1>1, <1>2, PTL DEF Spec

(* The connection implements the signalling state machine of Jsep, for any   *)
(* sequence of calls, descriptions and events.                               *)
THEOREM PeerImplementsJsep == Spec => JsepSpec
  <1>1. Init => Promise!Init
    BY DEF Init, Promise!Init
  <1>2. ClosedInv /\ [Next]_vars => [Promise!Next]_<<signalingState, isClosed>>
    <2> SUFFICES ASSUME ClosedInv, Signal
                 PROVE [Promise!Next]_<<signalingState, isClosed>>
      BY NextSignals
    <2> USE DEF Promise!Next, Promise!Move, Promise!LocalOffer, Promise!RemoteOffer,
                Promise!LocalAnswer, Promise!RemoteAnswer, Promise!Close, ClosedInv
    <2>1. ASSUME isClosed = FALSE, isClosed' = FALSE PROVE UNCHANGED isClosed
      BY <2>1
    <2>2. CASE Quiet
      BY <2>2 DEF Quiet
    <2>3. CASE ~isClosed /\ isClosed' = FALSE /\ signalingState' = "have-local-offer"
               /\ signalingState \in {"stable", "have-local-offer"}
      BY <2>1, <2>3
    <2>4. CASE ~isClosed /\ isClosed' = FALSE /\ signalingState' = "have-remote-offer"
               /\ signalingState \in {"stable", "have-remote-offer"}
      BY <2>1, <2>4
    <2>5. CASE ~isClosed /\ isClosed' = FALSE /\ signalingState' = "stable"
               /\ signalingState \in {"have-local-offer", "have-remote-offer"}
      BY <2>1, <2>5
    <2>6. CASE signalingState' = "closed" /\ isClosed' = TRUE
      BY <2>6
    <2> QED
      BY <2>2, <2>3, <2>4, <2>5, <2>6 DEF Signal
  <1> QED
    BY <1>1, <1>2, ClosedAgrees, PTL DEF Spec, JsepSpec, Promise!Spec, Promise!jvars

(* After close no event reaches the application, whatever still runs.        *)
THEOREM ClosedIsSilent == Spec => SilentAfterClose
  <1>1. ClosedInv /\ [Next]_vars => [isClosed => seen' = seen]_vars
    <2> SUFFICES ASSUME ClosedInv, [Next]_vars, isClosed PROVE seen' = seen
      OBVIOUS
    <2> USE DEF svars, evars, cvars, mvars
    <2>1. ASSUME NEW t \in Tracks, NEW s \in Streams, AddTrack(t, s) PROVE FALSE
      BY <2>1 DEF AddTrack
    <2>2. ASSUME NEW i \in DOMAIN transceivers, RemoveTrack(i) PROVE FALSE
      BY <2>2 DEF RemoveTrack
    <2>3. CASE NegotiationTimer
      BY <2>3 DEF NegotiationTimer
    <2>4. ASSUME NEW num, CreateOffer(num) PROVE FALSE
      BY <2>4 DEF CreateOffer
    <2>5. CASE CreateAnswer
      BY <2>5 DEF CreateAnswer
    <2>6. CASE SetLocalOffer
      BY <2>6 DEF SetLocalOffer
    <2>7. CASE SetLocalAnswer
      BY <2>7 DEF SetLocalAnswer
    <2>8. ASSUME NEW type, NEW secs, NEW bundle, NEW cands,
                 SetRemoteDescription(type, secs, bundle, cands)
          PROVE FALSE
      BY <2>8 DEF SetRemoteDescription
    <2>9. ASSUME NEW type, NEW secs, NEW bundle,
                 SetRemoteDescriptionThrows(type, secs, bundle)
          PROVE FALSE
      BY <2>9 DEF SetRemoteDescriptionThrows
    <2>10. ASSUME NEW c, NEW i, AddIceCandidate(c, i) PROVE seen' = seen
      BY <2>10 DEF AddIceCandidate
    <2>11. CASE EndOfCandidates
      BY <2>11 DEF EndOfCandidates
    <2>12. CASE FourSecondTimer
      BY <2>12 DEF FourSecondTimer
    <2>13. CASE Close
      BY <2>13 DEF Close, UpdateSignalingState, Tell
    <2>14. ASSUME NEW t, NEW s, IceStateChange(t, s) PROVE seen' = seen
      BY <2>14 DEF IceStateChange, UpdateIceAndConnectionState
    <2>15. ASSUME NEW t, NEW s, DtlsStateChange(t, s) PROVE seen' = seen
      BY <2>15 DEF DtlsStateChange, UpdateConnectionState, Tell
    <2>16. CASE UNCHANGED vars
      BY <2>16 DEF vars
    <2> QED
      BY <2>1, <2>2, <2>3, <2>4, <2>5, <2>6, <2>7, <2>8, <2>9, <2>10, <2>11, <2>12, <2>13,
         <2>14, <2>15, <2>16 DEF Next
  <1> QED
    BY <1>1, ClosedAgrees, PTL DEF Spec, SilentAfterClose

-----------------------------------------------------------------------------
(* Numbers.                                                                  *)

LEMMA LeastNumber ==
  ASSUME NEW S \in SUBSET Nat, S # {}
  PROVE  \E n \in S : \A m \in S : n <= m
  <1>1. IsWellFoundedOn(OpToRel(<, Nat), Nat)
    BY NatLessThanWellFounded
  <1>2. PICK n \in S : \A m \in S : <<m, n>> \notin OpToRel(<, Nat)
    BY <1>1, WFMin
  <1>3. \A m \in S : ~ (m < n)
    BY <1>2 DEF OpToRel
  <1> QED
    BY <1>3

LEMMA MinIsLeast ==
  ASSUME NEW S \in SUBSET Nat, S # {}
  PROVE  Min(S) \in S /\ \A x \in S : Min(S) <= x
  <1>1. \E n \in S : \A m \in S : n <= m
    BY LeastNumber
  <1> QED
    BY <1>1 DEF Min

LEMMA MaxIsLargest ==
  ASSUME NEW n \in Nat, NEW S \in SUBSET (0 .. n), S # {}
  PROVE  Max(S) \in S /\ \A x \in S : x <= Max(S)
  <1> DEFINE Above == {m \in Nat : \A x \in S : x <= m}
  <1>1. PICK m \in Above : \A k \in Above : m <= k
    <2>1. n \in Above /\ Above \in SUBSET Nat
      OBVIOUS
    <2> QED
      BY <2>1, LeastNumber
  <1>2. m \in S
    <2> SUFFICES ASSUME m \notin S PROVE FALSE
      OBVIOUS
    <2>1. \A x \in S : x < m
      OBVIOUS
    <2>2. m # 0
      <3>1. PICK x \in S : x < m
        BY <2>1
      <3> QED
        BY <3>1
    <2>3. m - 1 \in Above
      BY <2>1, <2>2
    <2> QED
      BY <1>1, <2>2, <2>3
  <1>3. \E x \in S : \A y \in S : x >= y
    BY <1>2
  <1> QED
    BY <1>3 DEF Max

LEMMA LaterNumbers ==
  ASSUME NEW a \in Nat, NEW b \in Nat, NEW c \in Nat, a <= b
  PROVE  b + 1 .. c \subseteq a + 1 .. c
  OBVIOUS

(* The length of the longer of two sequences.                                *)
LEMMA MaxOfTwo ==
  ASSUME NEW a \in Nat, NEW b \in Nat
  PROVE  /\ Max({a, b}) \in Nat /\ a <= Max({a, b}) /\ b <= Max({a, b})
         /\ Max({a, b}) \in {a, b}
  <1>1. {a, b} \in SUBSET (0 .. a + b) /\ {a, b} # {}
    OBVIOUS
  <1>2. Max({a, b}) \in {a, b} /\ \A x \in {a, b} : x <= Max({a, b})
    BY <1>1, MaxIsLargest
  <1> QED
    BY <1>2

-----------------------------------------------------------------------------
(* m-lines.                                                                  *)

(* An m-line keeps its type when transports are added.                       *)
LEMMA LineGrows ==
  ASSUME NEW n \in Nat, NEW m \in Nat, n <= m
  PROVE  /\ \A l \in LineType(n) : l \in LineType(m)
         /\ \A q \in Seq(LineType(n)) : q \in Seq(LineType(m))
  <1>1. 0 .. n \subseteq 0 .. m
    OBVIOUS
  <1>2. \A l \in LineType(n) : l \in LineType(m)
    BY <1>1 DEF LineType
  <1> HIDE DEF LineType
  <1> QED
    BY <1>2

LEMMA BlankTyped ==
  ASSUME NEW n \in Nat, NEW kind \in Kinds, NEW tp \in 0 .. n
  PROVE  /\ Blank(kind, tp) \in LineType(n)
         /\ Blank(kind, tp).tp = tp /\ ~Blank(kind, tp).rejected
         /\ Blank(kind, tp).track = None /\ Blank(kind, tp).stream = None
         /\ ~Blank(kind, tp).sending
         /\ RejectedLine(kind) \in LineType(n)
         /\ RejectedLine(kind).tp = 0
  <1>1. Blank(kind, tp) \in LineType(n)
    BY DEF Blank, LineType
  <1>2. Blank(kind, 0) \in LineType(n) /\ Blank(kind, 0).tp = 0
    BY DEF Blank, LineType
  <1> DEFINE l == Blank(kind, 0)
  <1> HIDE DEF l
  <1>3. l \in LineType(n) => LET k == [l EXCEPT !.want = FALSE, !.rejected = TRUE]
                             IN k \in LineType(n) /\ k.tp = l.tp
    BY DEF LineType
  <1>4. RejectedLine(kind) \in LineType(n) /\ RejectedLine(kind).tp = 0
    BY <1>2, <1>3 DEF l, RejectedLine
  <1> QED
    BY <1>1, <1>4 DEF Blank

(* _createTransceiver appends an m-line with the first one's transport or a  *)
(* new one.                                                                  *)
LEMMA WithNewTyped ==
  ASSUME NEW n \in Nat, NEW q \in Seq(LineType(n)), NEW kind \in Kinds
  PROVE  /\ CountNew(q, n) \in {n, n + 1}
         /\ WithNew(q, kind, n) \in Seq(LineType(CountNew(q, n)))
         /\ Len(WithNew(q, kind, n)) = Len(q) + 1
         /\ \A i \in DOMAIN q : WithNew(q, kind, n)[i] = q[i]
         /\ WithNew(q, kind, n)[Len(q) + 1] =
              Blank(kind, IF Shares(q) THEN q[1].tp ELSE n + 1)
         /\ (IF Shares(q) THEN q[1].tp ELSE n + 1) \in 0 .. CountNew(q, n)
  <1> DEFINE tp == IF Shares(q) THEN q[1].tp ELSE n + 1
             m == CountNew(q, n)
  <1>1. m \in {n, n + 1} /\ m \in Nat
    BY DEF CountNew
  <1>2. tp \in 0 .. m
    <2>1. CASE Shares(q)
      <3>1. q[1] \in LineType(n)
        BY <2>1 DEF Shares
      <3>2. q[1].tp \in 0 .. n
        BY <3>1 DEF LineType
      <3> QED
        BY <2>1, <3>2 DEF CountNew
    <2>2. CASE ~Shares(q)
      BY <2>2 DEF CountNew
    <2> QED
      BY <2>1, <2>2
  <1>3. Blank(kind, tp) \in LineType(m) /\ q \in Seq(LineType(m))
    BY <1>1, <1>2, BlankTyped, LineGrows
  <1>4. WithNew(q, kind, n) = Append(q, Blank(kind, tp))
    BY DEF WithNew
  <1> DEFINE b == Blank(kind, tp)
  <1> HIDE DEF m, b, tp
  <1>5. /\ Append(q, b) \in Seq(LineType(m)) /\ Len(Append(q, b)) = Len(q) + 1
        /\ \A i \in DOMAIN q : Append(q, b)[i] = q[i]
        /\ Append(q, b)[Len(q) + 1] = b
    BY <1>3 DEF b
  <1> QED
    BY <1>1, <1>2, <1>4, <1>5 DEF b, tp, m

-----------------------------------------------------------------------------
(* The invariant.                                                            *)

(* The object of a rejected m-line has no transport.                         *)
Bare == \A i \in DOMAIN transceivers : transceivers[i].rejected => transceivers[i].tp = 0

(* A transport that was not created yet is as new.                           *)
Untouched == \A t \in created + 1 .. MaxTransports : transports[t] = NewTransport

(* Each remote description starts one timer.                                 *)
Timed == timers <= rounds

(* The sections of remoteDescription are m-lines of the connection.          *)
Described == remoteLines <= Len(transceivers)

PeerInv == TypeOK /\ Bare /\ Untouched /\ Timed /\ Described /\ ToldWhileOpen /\ FailureReported

(* What every step does to the m-lines: their transports are the ones some   *)
(* m-line used, or new ones, or none.                                        *)
LinesStep ==
  /\ created' \in created .. MaxTransports
  /\ transceivers' \in Seq(LineType(created'))
  /\ Len(transceivers') <= MaxLines /\ Len(transceivers) <= Len(transceivers')
  /\ \A i \in DOMAIN transceivers' :
       IF transceivers'[i].rejected THEN transceivers'[i].tp = 0
       ELSE transceivers'[i].tp \in {0} \cup LiveTransports \cup (created + 1 .. created')

(* What every step but IceStateChange does to the transports.                *)
TransportsStep ==
  /\ transports' \in [1 .. MaxTransports -> TransportType]
  /\ \A t \in 1 .. MaxTransports :
       transports'[t].ice = "failed" => transports[t].ice = "failed"
  /\ \A t \in created' + 1 .. MaxTransports : transports'[t] = NewTransport

(* The variables beside the m-lines and the transports.                      *)
RestOK ==
  /\ signalingState \in {"stable", "have-local-offer", "have-remote-offer", "closed"}
  /\ isClosed \in BOOLEAN /\ usingBundle \in BOOLEAN /\ needNegotiation \in BOOLEAN
  /\ refused \in BOOLEAN
  /\ localStreams \subseteq Streams /\ unannounced \subseteq Tracks
  /\ iceConnectionState \in IceStates /\ connectionState \in IceStates \cup DtlsStates
  /\ pending \in [type : {"none", "offer", "answer"}, lines : 0 .. MaxLines]
  /\ {localLines, remoteLines, mlines} \subseteq 0 .. MaxLines
  /\ moves \in 0 .. MaxMoves /\ timers \in 0 .. MaxRounds /\ rounds \in 0 .. MaxRounds
  /\ timers <= rounds

(* What PeerInv says of one m-line.                                          *)
LEMMA OneLine ==
  ASSUME PeerInv, NEW i \in DOMAIN transceivers
  PROVE  /\ created \in Nat /\ created <= MaxTransports /\ MaxTransports \in Nat
         /\ transceivers[i] \in LineType(created)
         /\ transceivers[i].tp \in 0 .. created
         /\ IF transceivers[i].rejected THEN transceivers[i].tp = 0
            ELSE transceivers[i].tp \in {0} \cup LiveTransports
  <1>1. created \in Nat /\ created <= MaxTransports /\ MaxTransports \in Nat
    BY BoundsAssumption DEF PeerInv, TypeOK
  <1>2. transceivers[i] \in LineType(created)
    BY DEF PeerInv, TypeOK
  <1>3. transceivers[i].tp \in 0 .. created
    BY <1>2 DEF LineType
  <1>4. transceivers[i].rejected => transceivers[i].tp = 0
    BY DEF PeerInv, Bare
  <1>5. ~transceivers[i].rejected => transceivers[i].tp \in {0} \cup LiveTransports
    BY DEF LiveTransports
  <1> QED
    BY <1>1, <1>2, <1>3, <1>4, <1>5

LEMMA LinesUnchanged ==
  ASSUME PeerInv, UNCHANGED <<transceivers, created>>
  PROVE  LinesStep
  <1>1. created' \in created .. MaxTransports
    BY BoundsAssumption DEF PeerInv, TypeOK
  <1>2. transceivers' \in Seq(LineType(created')) /\ Len(transceivers') <= MaxLines
    BY DEF PeerInv, TypeOK
  <1> QED
    BY <1>1, <1>2, OneLine DEF LinesStep

LEMMA TransportsUnchanged ==
  ASSUME PeerInv, created' \in created .. MaxTransports, UNCHANGED transports
  PROVE  TransportsStep
  <1>1. transports \in [1 .. MaxTransports -> TransportType]
    BY DEF PeerInv, TypeOK
  <1>2. created \in Nat /\ created' \in Nat /\ created <= created'
    BY BoundsAssumption DEF PeerInv, TypeOK
  <1>3. \A t \in created' + 1 .. MaxTransports : transports[t] = NewTransport
    <2>1. created' + 1 .. MaxTransports \subseteq created + 1 .. MaxTransports
      BY <1>2, BoundsAssumption, LaterNumbers
    <2> QED
      BY <2>1 DEF PeerInv, Untouched
  <1> QED
    BY <1>1, <1>3 DEF TransportsStep

(* Steps of these two kinds keep the invariant's part about m-lines, and     *)
(* without a new failure none goes unreported.                               *)
LEMMA StepsKeep ==
  ASSUME PeerInv, LinesStep, TransportsStep
  PROVE  /\ created' \in 0 .. MaxTransports
         /\ transceivers' \in Seq(LineType(created')) /\ Len(transceivers') <= MaxLines
         /\ transports' \in [1 .. MaxTransports -> TransportType]
         /\ Bare' /\ Untouched'
         /\ UNCHANGED iceConnectionState => FailureReported'
  <1>1. created \in 0 .. MaxTransports /\ created' \in 0 .. MaxTransports
    BY BoundsAssumption DEF PeerInv, TypeOK, LinesStep
  <1>2. Bare' /\ Untouched'
    BY DEF LinesStep, TransportsStep, Bare, Untouched
  <1>3. ASSUME UNCHANGED iceConnectionState, NEW t \in LiveTransports',
               transports'[t].ice = "failed"
        PROVE  iceConnectionState' = "failed"
    <2>1. PICK i \in DOMAIN transceivers' : ~transceivers'[i].rejected /\ transceivers'[i].tp = t
      BY DEF LiveTransports
    <2>2. t # 0
      BY DEF LiveTransports
    <2>3. t \in LiveTransports \/ t \in created + 1 .. created'
      BY <2>1, <2>2 DEF LinesStep
    <2>4. t \in 1 .. MaxTransports
      <3>1. transceivers'[i] \in LineType(created')
        BY DEF LinesStep
      <3>2. transceivers'[i].tp \in 0 .. created'
        BY <3>1 DEF LineType
      <3> QED
        BY <1>1, <2>1, <2>2, <3>2, BoundsAssumption
    <2>5. transports[t].ice = "failed"
      BY <1>3, <2>4 DEF TransportsStep
    <2>6. t \notin created + 1 .. MaxTransports
      BY <2>5 DEF PeerInv, Untouched, NewTransport
    <2> QED
      BY <1>1, <1>3, <2>3, <2>4, <2>5, <2>6 DEF PeerInv, FailureReported
  <1> QED
    BY <1>1, <1>2, <1>3 DEF LinesStep, TransportsStep, FailureReported

-----------------------------------------------------------------------------
(* The steps that touch tracks and local descriptions.                       *)

(* Changes of m-lines that leave their transports alone.                     *)
LEMMA LinesEdited ==
  ASSUME PeerInv, created' = created,
         DOMAIN transceivers' = DOMAIN transceivers,
         transceivers' \in Seq(LineType(created)),
         \A i \in DOMAIN transceivers :
           /\ transceivers'[i].tp = transceivers[i].tp
           /\ transceivers'[i].rejected = transceivers[i].rejected
  PROVE  LinesStep
  <1>1. created' \in created .. MaxTransports
    BY BoundsAssumption DEF PeerInv, TypeOK
  <1>2. Len(transceivers') = Len(transceivers) /\ Len(transceivers) <= MaxLines
    BY DEF PeerInv, TypeOK
  <1> QED
    BY <1>1, <1>2, OneLine DEF LinesStep

(* An m-line _createTransceiver adds to the ones there are, or to these      *)
(* after another addition.                                                   *)
LEMMA AddedLine ==
  ASSUME PeerInv, NEW n \in Nat, created <= n, NEW q \in Seq(LineType(n)), NEW kind \in Kinds,
         \A i \in DOMAIN q :
           IF q[i].rejected THEN q[i].tp = 0
           ELSE q[i].tp \in {0} \cup LiveTransports \cup (created + 1 .. n)
  PROVE  LET w == WithNew(q, kind, n)
             m == CountNew(q, n)
         IN /\ m \in Nat /\ n <= m
            /\ w \in Seq(LineType(m)) /\ Len(w) = Len(q) + 1
            /\ \A i \in DOMAIN w :
                 IF w[i].rejected THEN w[i].tp = 0
                 ELSE w[i].tp \in {0} \cup LiveTransports \cup (created + 1 .. m)
  <1> DEFINE w == WithNew(q, kind, n)
             m == CountNew(q, n)
             tp == IF Shares(q) THEN q[1].tp ELSE n + 1
  <1>1. /\ m \in {n, n + 1} /\ w \in Seq(LineType(m)) /\ Len(w) = Len(q) + 1
        /\ \A i \in DOMAIN q : w[i] = q[i]
        /\ w[Len(q) + 1] = Blank(kind, tp) /\ tp \in 0 .. m
    BY WithNewTyped
  <1>2. tp \in {0} \cup LiveTransports \cup (created + 1 .. m)
    <2>1. CASE Shares(q)
      BY <1>1, <2>1, OneLine DEF Shares
    <2>2. CASE ~Shares(q)
      BY <2>2 DEF CountNew, PeerInv, TypeOK
    <2> QED
      BY <2>1, <2>2
  <1>3. ~Blank(kind, tp).rejected /\ Blank(kind, tp).tp = tp
    BY DEF Blank
  <1>4. created \in Nat
    BY BoundsAssumption DEF PeerInv, TypeOK
  <1>5. created + 1 .. n \subseteq created + 1 .. m
    BY <1>1, <1>4
  <1> HIDE DEF w, m, tp
  <1>6. \A i \in DOMAIN w : i \in DOMAIN q \/ i = Len(q) + 1
    BY <1>1
  <1>7. \A i \in DOMAIN w :
          IF w[i].rejected THEN w[i].tp = 0
          ELSE w[i].tp \in {0} \cup LiveTransports \cup (created + 1 .. m)
    BY <1>1, <1>2, <1>3, <1>5, <1>6
  <1> QED
    BY <1>1, <1>7 DEF w, m

(* The m-lines as they are satisfy what AddedLine asks for.                  *)
LEMMA LinesNow ==
  ASSUME PeerInv
  PROVE  /\ created \in Nat /\ transceivers \in Seq(LineType(created))
         /\ \A i \in DOMAIN transceivers :
              IF transceivers[i].rejected THEN transceivers[i].tp = 0
              ELSE transceivers[i].tp \in {0} \cup LiveTransports \cup (created + 1 .. created)
  <1>1. created \in Nat /\ transceivers \in Seq(LineType(created))
    BY BoundsAssumption DEF PeerInv, TypeOK
  <1> QED
    BY <1>1, OneLine

LEMMA AddTrackLines ==
  ASSUME PeerInv, NEW t \in Tracks, NEW s \in Streams, AddTrack(t, s)
  PROVE  LinesStep
  <1> DEFINE free == {i \in DOMAIN transceivers :
                       transceivers[i].track = None /\ transceivers[i].kind = KindOf(t)}
             extended == IF free = {} THEN WithNew(transceivers, KindOf(t), created)
                         ELSE transceivers
             i == IF free = {} THEN Len(extended) ELSE Max(free)
             n == IF free = {} THEN CountNew(transceivers, created) ELSE created
  <1>1. /\ created' = n /\ n <= MaxTransports /\ Len(extended) <= MaxLines
        /\ transceivers' = [extended EXCEPT ![i].track = t, ![i].stream = s, ![i].sending = FALSE]
    BY DEF AddTrack
  <1>2. KindOf(t) \in Kinds
    BY DEF KindOf, Kinds
  <1>3. /\ n \in Nat /\ created <= n /\ extended \in Seq(LineType(n))
        /\ Len(transceivers) <= Len(extended)
        /\ \A j \in DOMAIN extended :
             IF extended[j].rejected THEN extended[j].tp = 0
             ELSE extended[j].tp \in {0} \cup LiveTransports \cup (created + 1 .. n)
    BY <1>2, LinesNow, AddedLine
  <1>4. i \in DOMAIN extended
    <2>1. CASE free = {}
      BY <1>2, <2>1, LinesNow, AddedLine
    <2>2. CASE free # {}
      <3>1. Len(transceivers) \in Nat /\ free \in SUBSET (0 .. Len(transceivers))
        BY LinesNow
      <3> QED
        BY <2>2, <3>1, MaxIsLargest
    <2> QED
      BY <2>1, <2>2
  <1> HIDE DEF extended, n, i
  <1>5. /\ transceivers' = [extended EXCEPT ![i] =
                              [extended[i] EXCEPT !.track = t, !.stream = s, !.sending = FALSE]]
        /\ extended[i] \in LineType(n)
    <2>1. extended[i] \in LineType(n)
      BY <1>3, <1>4
    <2>2. ASSUME NEW q, NEW j \in DOMAIN q
          PROVE  [q EXCEPT ![j].track = t, ![j].stream = s, ![j].sending = FALSE] =
                 [q EXCEPT ![j] = [q[j] EXCEPT !.track = t, !.stream = s, !.sending = FALSE]]
      OBVIOUS
    <2> QED
      BY <1>1, <1>4, <2>1, <2>2
  <1>6. LET k == [extended[i] EXCEPT !.track = t, !.stream = s, !.sending = FALSE]
        IN k \in LineType(n) /\ k.tp = extended[i].tp /\ k.rejected = extended[i].rejected
    BY <1>5 DEF LineType
  <1>7. /\ transceivers' \in Seq(LineType(n)) /\ Len(transceivers') = Len(extended)
        /\ \A j \in DOMAIN extended : /\ transceivers'[j].tp = extended[j].tp
                                      /\ transceivers'[j].rejected = extended[j].rejected
    BY <1>3, <1>4, <1>5, <1>6
  <1>8. created' \in created .. MaxTransports
    BY <1>1, <1>3, BoundsAssumption, LinesNow
  <1> QED
    BY <1>1, <1>3, <1>7, <1>8 DEF LinesStep

LEMMA RemoveTrackLines ==
  ASSUME PeerInv, NEW i \in DOMAIN transceivers, RemoveTrack(i)
  PROVE  LinesStep
  <1>1. /\ created' = created
        /\ transceivers' = [transceivers EXCEPT ![i] =
             [transceivers[i] EXCEPT !.track = None, !.stream = None, !.sending = FALSE]]
    BY DEF RemoveTrack
  <1>2. LET k == [transceivers[i] EXCEPT !.track = None, !.stream = None, !.sending = FALSE]
        IN k \in LineType(created) /\ k.tp = transceivers[i].tp
           /\ k.rejected = transceivers[i].rejected
    <2>1. created \in Nat /\ transceivers[i] \in LineType(created)
      BY OneLine
    <2> QED
      BY <2>1 DEF LineType
  <1>3. /\ transceivers' \in Seq(LineType(created))
        /\ DOMAIN transceivers' = DOMAIN transceivers
        /\ \A j \in DOMAIN transceivers : /\ transceivers'[j].tp = transceivers[j].tp
                                         /\ transceivers'[j].rejected = transceivers[j].rejected
    BY <1>1, <1>2, LinesNow
  <1> QED
    BY <1>1, <1>3, LinesEdited

(* createOffer and the calls that only mark m-lines.                         *)
LEMMA Marked ==
  ASSUME NEW n \in Nat, NEW q \in Seq(LineType(n)), NEW r, DOMAIN r = DOMAIN q,
         NEW X, \A i \in DOMAIN q : IF q[i].rejected THEN q[i].tp = 0 ELSE q[i].tp \in X,
         r = [i \in DOMAIN q |-> r[i]],
         \A i \in DOMAIN q : /\ r[i] \in LineType(n) /\ r[i].tp = q[i].tp
                             /\ r[i].rejected = q[i].rejected
  PROVE  /\ r \in Seq(LineType(n)) /\ Len(r) = Len(q)
         /\ \A i \in DOMAIN r : IF r[i].rejected THEN r[i].tp = 0 ELSE r[i].tp \in X
  <1>1. r \in Seq(LineType(n)) /\ Len(r) = Len(q)
    <2>1. DOMAIN q = 1 .. Len(q) /\ Len(q) \in Nat
      OBVIOUS
    <2>2. r \in [1 .. Len(q) -> LineType(n)]
      BY <2>1
    <2> QED
      BY <2>1, <2>2
  <1> QED
    BY <1>1

LEMMA CreateOfferLines ==
  ASSUME PeerInv, NEW num, CreateOffer(num)
  PROVE  LinesStep
  <1> DEFINE X(m) == {0} \cup LiveTransports \cup (created + 1 .. m)
             Fit(q, m) == \A i \in DOMAIN q :
                            IF q[i].rejected THEN q[i].tp = 0 ELSE q[i].tp \in X(m)
             wants == [i \in DOMAIN transceivers |->
                         [transceivers[i] EXCEPT !.want = Wanted(i, num)]]
             a == num["audio"] > Cardinality(OfKind("audio"))
             v == num["video"] > Cardinality(OfKind("video"))
             withA == IF a THEN WithNew(wants, "audio", created) ELSE wants
             createdA == IF a THEN CountNew(wants, created) ELSE created
             withV == IF v THEN WithNew(withA, "video", createdA) ELSE withA
             n == IF v THEN CountNew(withA, createdA) ELSE createdA
             done == [i \in DOMAIN withV |->
                       [withV[i] EXCEPT !.gath = TRUE, !.recv = IF withV[i].want THEN "idle" ELSE @]]
  <1>1. /\ created' = n /\ n <= MaxTransports /\ transceivers' = done
        /\ Len(withV) \in Lines
    BY DEF CreateOffer
  <1>2. /\ created \in Nat /\ wants \in Seq(LineType(created)) /\ Fit(wants, created)
        /\ Len(wants) = Len(transceivers)
    <2>1. /\ created \in Nat /\ transceivers \in Seq(LineType(created))
          /\ Fit(transceivers, created)
      BY LinesNow
    <2>2. \A i \in DOMAIN transceivers :
            /\ wants[i] \in LineType(created) /\ wants[i].tp = transceivers[i].tp
            /\ wants[i].rejected = transceivers[i].rejected
      <3> SUFFICES ASSUME NEW i \in DOMAIN transceivers
                   PROVE  /\ wants[i] \in LineType(created) /\ wants[i].tp = transceivers[i].tp
                          /\ wants[i].rejected = transceivers[i].rejected
        OBVIOUS
      <3>1. Wanted(i, num) \in BOOLEAN
        BY DEF Wanted
      <3>2. transceivers[i] \in LineType(created)
        BY <2>1
      <3> QED
        BY <3>1, <3>2 DEF LineType
    <2>3. DOMAIN wants = DOMAIN transceivers /\ wants = [i \in DOMAIN transceivers |-> wants[i]]
      OBVIOUS
    <2> HIDE DEF wants
    <2> QED
      BY <2>1, <2>2, <2>3, Marked
  <1> HIDE DEF wants
  <1>3. /\ createdA \in Nat /\ created <= createdA /\ withA \in Seq(LineType(createdA))
        /\ Fit(withA, createdA) /\ Len(wants) <= Len(withA)
    BY <1>2, AddedLine DEF Kinds
  <1> HIDE DEF withA, createdA
  <1>4. /\ n \in Nat /\ created <= n /\ withV \in Seq(LineType(n)) /\ Fit(withV, n)
        /\ Len(withA) <= Len(withV)
    BY <1>2, <1>3, AddedLine DEF Kinds
  <1> HIDE DEF withV, n
  <1>5. done \in Seq(LineType(n)) /\ Len(done) = Len(withV) /\ Fit(done, n)
    <2>1. \A i \in DOMAIN withV :
            /\ done[i] \in LineType(n) /\ done[i].tp = withV[i].tp
            /\ done[i].rejected = withV[i].rejected
      <3> SUFFICES ASSUME NEW i \in DOMAIN withV
                   PROVE  /\ done[i] \in LineType(n) /\ done[i].tp = withV[i].tp
                          /\ done[i].rejected = withV[i].rejected
        OBVIOUS
      <3>1. withV[i] \in LineType(n)
        BY <1>4
      <3> QED
        BY <3>1 DEF LineType
    <2>2. DOMAIN done = DOMAIN withV /\ done = [i \in DOMAIN withV |-> done[i]]
      OBVIOUS
    <2> HIDE DEF done
    <2> QED
      BY <1>4, <2>1, <2>2, Marked
  <1> HIDE DEF done
  <1>6. n \in created .. MaxTransports
    BY <1>1, <1>2, <1>4, BoundsAssumption
  <1>7. Len(withV) <= MaxLines /\ Len(transceivers) <= Len(done)
    <2>1. /\ Len(transceivers) \in Nat /\ Len(wants) \in Nat /\ Len(withA) \in Nat
          /\ Len(withV) \in Nat
      BY <1>2, <1>3, <1>4, LinesNow
    <2> QED
      BY <1>1, <1>2, <1>3, <1>4, <1>5, <2>1, BoundsAssumption DEF Lines
  <1> QED
    BY <1>1, <1>5, <1>6, <1>7 DEF LinesStep

(* m-lines that are only marked.                                             *)
LEMMA MarkedNow ==
  ASSUME PeerInv, created' = created,
         transceivers' = [i \in DOMAIN transceivers |-> transceivers'[i]],
         \A i \in DOMAIN transceivers :
           /\ transceivers'[i] \in LineType(created)
           /\ transceivers'[i].tp = transceivers[i].tp
           /\ transceivers'[i].rejected = transceivers[i].rejected
  PROVE  LinesStep
  <1>1. DOMAIN transceivers' = DOMAIN transceivers
    OBVIOUS
  <1>2. transceivers' \in Seq(LineType(created))
    BY <1>1, LinesNow, Marked
  <1> QED
    BY <1>1, <1>2, LinesEdited

LEMMA SetLocalAnswerLines ==
  ASSUME PeerInv, SetLocalAnswer
  PROVE  LinesStep
  <1> DEFINE accepted == {i \in 1 .. remoteLines : ~transceivers[i].rejected}
             done == [i \in DOMAIN transceivers |->
                       IF i \in accepted
                       THEN [transceivers[i] EXCEPT !.sending = @ \/ transceivers[i].track # None]
                       ELSE transceivers[i]]
  <1>1. created' = created /\ transceivers' = done
    BY DEF SetLocalAnswer
  <1>2. \A i \in DOMAIN transceivers :
          /\ done[i] \in LineType(created) /\ done[i].tp = transceivers[i].tp
          /\ done[i].rejected = transceivers[i].rejected
    <2> SUFFICES ASSUME NEW i \in DOMAIN transceivers
                 PROVE  /\ done[i] \in LineType(created) /\ done[i].tp = transceivers[i].tp
                        /\ done[i].rejected = transceivers[i].rejected
      OBVIOUS
    <2>1. transceivers[i] \in LineType(created)
      BY OneLine
    <2> QED
      BY <2>1 DEF LineType
  <1> QED
    BY <1>1, <1>2, MarkedNow

LEMMA CloseLines ==
  ASSUME PeerInv, Close
  PROVE  LinesStep
  <1> DEFINE done == [i \in DOMAIN transceivers |->
                       [transceivers[i] EXCEPT !.sending = FALSE,
                                               !.recv = IF @ = "none" THEN @ ELSE "stopped"]]
  <1>1. created' = created /\ transceivers' = done
    BY DEF Close
  <1>2. \A i \in DOMAIN transceivers :
          /\ done[i] \in LineType(created) /\ done[i].tp = transceivers[i].tp
          /\ done[i].rejected = transceivers[i].rejected
    <2> SUFFICES ASSUME NEW i \in DOMAIN transceivers
                 PROVE  /\ done[i] \in LineType(created) /\ done[i].tp = transceivers[i].tp
                        /\ done[i].rejected = transceivers[i].rejected
      OBVIOUS
    <2>1. transceivers[i] \in LineType(created)
      BY OneLine
    <2> QED
      BY <2>1 DEF LineType
  <1> QED
    BY <1>1, <1>2, MarkedNow

-----------------------------------------------------------------------------
(* The steps that touch transports.                                          *)

LEMMA TransportChanges ==
  ASSUME NEW x \in TransportType
  PROVE  /\ Started(x) \in TransportType /\ (Started(x).ice = "failed" => x.ice = "failed")
         /\ End(x) \in TransportType /\ End(x).ice = x.ice
  <1>1. Started(x) \in TransportType /\ (Started(x).ice = "failed" => x.ice = "failed")
    BY DEF TransportType, Started, IceStates, DtlsStates
  <1>2. End(x) \in TransportType /\ End(x).ice = x.ice
    BY DEF TransportType, End
  <1> QED
    BY <1>1, <1>2

LEMMA TransportsMapped ==
  ASSUME PeerInv, created' \in created .. MaxTransports,
         transports' = [t \in DOMAIN transports |-> transports'[t]],
         \A t \in DOMAIN transports :
           /\ transports'[t] \in TransportType
           /\ transports'[t].ice = "failed" => transports[t].ice = "failed"
           /\ t > created' => transports'[t] = transports[t]
  PROVE  TransportsStep
  <1>1. DOMAIN transports = 1 .. MaxTransports
    BY DEF PeerInv, TypeOK
  <1>2. created \in Nat /\ created' \in Nat /\ created <= created'
    BY BoundsAssumption DEF PeerInv, TypeOK
  <1>3. \A t \in created' + 1 .. MaxTransports : transports[t] = NewTransport
    <2>1. created' + 1 .. MaxTransports \subseteq created + 1 .. MaxTransports
      BY <1>2, BoundsAssumption, LaterNumbers
    <2> QED
      BY <2>1 DEF PeerInv, Untouched
  <1>4. \A t \in created' + 1 .. MaxTransports : t \in 1 .. MaxTransports /\ t > created'
    BY <1>2, BoundsAssumption
  <1> QED
    BY <1>1, <1>3, <1>4 DEF TransportsStep

(* The transport of an m-line is one that was created.                       *)
LEMMA TransportOf ==
  ASSUME PeerInv, NEW i \in DOMAIN transceivers
  PROVE  ~(transceivers[i].tp > created)
  BY OneLine

(* Changes to some of the transports that m-lines use.                       *)
LEMMA SomeStarted ==
  ASSUME PeerInv, created' \in created .. MaxTransports,
         NEW S, \A t \in S : t \in Nat => t <= created',
         transports' = [t \in DOMAIN transports |->
           IF t \in S THEN Started(transports[t]) ELSE transports[t]]
  PROVE  TransportsStep
  <1>1. \A t \in DOMAIN transports : t \in Nat /\ transports[t] \in TransportType
    BY DEF PeerInv, TypeOK
  <1>2. created' \in Nat
    BY BoundsAssumption DEF PeerInv, TypeOK
  <1> QED
    BY <1>1, <1>2, TransportChanges, TransportsMapped

LEMMA SomeEnded ==
  ASSUME PeerInv, created' = created,
         NEW S, \A t \in S : ~(t > created),
         transports' = [t \in DOMAIN transports |->
           IF t \in S THEN End(transports[t]) ELSE transports[t]]
  PROVE  TransportsStep
  <1>1. \A t \in DOMAIN transports : transports[t] \in TransportType
    BY DEF PeerInv, TypeOK
  <1>2. created' \in created .. MaxTransports
    BY BoundsAssumption DEF PeerInv, TypeOK
  <1> QED
    BY <1>1, <1>2, TransportChanges, TransportsMapped

LEMMA SetLocalAnswerTransports ==
  ASSUME PeerInv, SetLocalAnswer
  PROVE  TransportsStep
  <1> DEFINE accepted == {i \in 1 .. remoteLines : ~transceivers[i].rejected}
             starting == {transceivers[i].tp : i \in {j \in accepted : j = 1 \/ ~usingBundle}}
  <1>1. created' \in created .. MaxTransports /\ created' = created
    BY BoundsAssumption DEF SetLocalAnswer, PeerInv, TypeOK
  <1>2. transports' = [t \in DOMAIN transports |->
          IF t \in starting THEN Started(transports[t]) ELSE transports[t]]
    BY DEF SetLocalAnswer
  <1>3. 1 .. remoteLines \subseteq DOMAIN transceivers
    BY DEF PeerInv, TypeOK, Described
  <1>4. \A t \in starting : t \in Nat => t <= created'
    BY <1>1, <1>3, OneLine
  <1> HIDE DEF starting
  <1> QED
    BY <1>1, <1>2, <1>4, SomeStarted

LEMMA AddIceCandidateTransports ==
  ASSUME PeerInv, NEW c \in Candidates, NEW i \in DOMAIN transceivers, AddIceCandidate(c, i)
  PROVE  TransportsStep
  <1> DEFINE t == transceivers[i].tp
  <1>1. /\ created' = created /\ t # 0
        /\ transports' = [transports EXCEPT ![t].remote = @ \cup {c}]
    BY DEF AddIceCandidate
  <1>2. t \in 1 .. created /\ created <= MaxTransports /\ created \in Nat
    BY <1>1, OneLine
  <1>3. transports \in [1 .. MaxTransports -> TransportType]
    BY DEF PeerInv, TypeOK
  <1>4. t \in 1 .. MaxTransports
    BY <1>2, BoundsAssumption
  <1> HIDE DEF t
  <1>5. transports'[t] \in TransportType /\ transports'[t].ice = transports[t].ice
    <2>1. transports'[t] = [transports[t] EXCEPT !.remote = @ \cup {c}]
      BY <1>1, <1>3, <1>4
    <2>2. transports[t] \in TransportType
      BY <1>3, <1>4
    <2> QED
      BY <2>1, <2>2 DEF TransportType
  <1>6. \A u \in DOMAIN transports \ {t} : transports'[u] = transports[u]
    BY <1>1
  <1>7. created' \in created .. MaxTransports /\ ~(t > created')
    BY <1>1, <1>2, BoundsAssumption
  <1>8. transports' = [u \in DOMAIN transports |-> transports'[u]]
    BY <1>1
  <1> QED
    BY <1>3, <1>5, <1>6, <1>7, <1>8, TransportsMapped

LEMMA EndOfCandidatesTransports ==
  ASSUME PeerInv, EndOfCandidates
  PROVE  TransportsStep
  <1> DEFINE live == {i \in DOMAIN transceivers : ~transceivers[i].rejected}
             lines == IF usingBundle /\ live # {} THEN {Min(live)} ELSE live
             ended == {transceivers[i].tp : i \in lines}
  <1>1. /\ created' = created
        /\ transports' = [t \in DOMAIN transports |->
             IF t \in ended THEN End(transports[t]) ELSE transports[t]]
    BY DEF EndOfCandidates
  <1>2. lines \subseteq DOMAIN transceivers
    <2>1. live \in SUBSET Nat
      BY LinesNow
    <2> QED
      BY <2>1, MinIsLeast
  <1> HIDE DEF lines
  <1>3. \A t \in ended : ~(t > created)
    BY <1>2, TransportOf
  <1> HIDE DEF ended
  <1> QED
    BY <1>1, <1>3, SomeEnded

LEMMA FourSecondTimerTransports ==
  ASSUME PeerInv, FourSecondTimer
  PROVE  TransportsStep
  <1> DEFINE waiting == {transceivers[i].tp : i \in DOMAIN transceivers}
             S == {t \in waiting : transports[t].ice = "new" /\ transports[t].remote # {}}
  <1>1. /\ created' = created
        /\ transports' = [t \in DOMAIN transports |->
             IF t \in S THEN End(transports[t]) ELSE transports[t]]
    BY DEF FourSecondTimer
  <1>2. \A t \in S : ~(t > created)
    BY TransportOf
  <1> HIDE DEF S
  <1> QED
    BY <1>1, <1>2, SomeEnded

LEMMA CloseTransports ==
  ASSUME PeerInv, Close
  PROVE  TransportsStep
  <1> DEFINE owned == {transceivers[i].tp : i \in DOMAIN transceivers}
  <1>1. created' \in created .. MaxTransports /\ created' = created
    <2>1. created' = created
      BY DEF Close
    <2> QED
      BY <2>1, BoundsAssumption DEF PeerInv, TypeOK
  <1>2. transports' = [t \in DOMAIN transports |->
          IF t \in owned THEN [transports[t] EXCEPT !.ice = "closed", !.dtls = "closed"]
          ELSE transports[t]]
    BY DEF Close
  <1>3. \A t \in owned : ~(t > created)
    BY TransportOf
  <1>4. \A t \in DOMAIN transports : transports[t] \in TransportType
    BY DEF PeerInv, TypeOK
  <1> HIDE DEF owned
  <1>5. ASSUME NEW t \in DOMAIN transports
        PROVE  /\ transports'[t] \in TransportType
               /\ transports'[t].ice = "failed" => transports[t].ice = "failed"
    BY <1>2, <1>4 DEF TransportType, IceStates, DtlsStates
  <1> QED
    BY <1>1, <1>2, <1>3, <1>5, TransportsMapped

LEMMA DtlsStateChangeTransports ==
  ASSUME PeerInv, NEW t \in 1 .. created, NEW s \in {"connected", "failed"}, DtlsStateChange(t, s)
  PROVE  TransportsStep
  <1>1. created' = created /\ transports' = [transports EXCEPT ![t].dtls = s]
    BY DEF DtlsStateChange
  <1>2. /\ created \in Nat /\ created' \in created .. MaxTransports
        /\ transports \in [1 .. MaxTransports -> TransportType]
    BY <1>1, BoundsAssumption DEF PeerInv, TypeOK
  <1>3. t \in DOMAIN transports /\ ~(t > created')
    BY <1>1, <1>2, BoundsAssumption
  <1>4. transports'[t] \in TransportType /\ transports'[t].ice = transports[t].ice
    <2>1. transports'[t] = [transports[t] EXCEPT !.dtls = s]
      BY <1>1, <1>2, <1>3
    <2>2. transports[t] \in TransportType
      BY <1>2, <1>3
    <2> QED
      BY <2>1, <2>2 DEF TransportType, DtlsStates
  <1>5. \A u \in DOMAIN transports \ {t} : transports'[u] = transports[u]
    BY <1>1
  <1>6. transports' = [u \in DOMAIN transports |-> transports'[u]]
    BY <1>1
  <1> QED
    BY <1>2, <1>3, <1>4, <1>5, <1>6, TransportsMapped

(* What First finds: one of the states, or the default; and the first of the *)
(* order when it is there.                                                   *)
LEMMA FirstHit ==
  ASSUME NEW states, NEW order, DOMAIN order \subseteq Nat \ {0}, NEW default
  PROVE  /\ First(states, order, default) \in states \cup {default}
         /\ (1 \in DOMAIN order /\ order[1] \in states)
              => First(states, order, default) = order[1]
  <1> DEFINE hits == {k \in DOMAIN order : order[k] \in states}
  <1>1. hits # {} => Min(hits) \in hits /\ \A x \in hits : Min(hits) <= x
    <2>1. hits \in SUBSET Nat
      OBVIOUS
    <2> QED
      BY <2>1, MinIsLeast
  <1>2. (1 \in DOMAIN order /\ order[1] \in states) => Min(hits) = 1
    BY <1>1
  <1>3. First(states, order, default) = IF hits = {} THEN default ELSE order[Min(hits)]
    BY DEF First
  <1> QED
    BY <1>1, <1>2, <1>3

(* The aggregated ICE state is a state of ICE, and reports a failure.        *)
LEMMA AggregateReports ==
  ASSUME NEW tps, \A t \in LiveTransports : tps[t].ice \in IceStates
  PROVE  /\ AggregateIce(tps) \in IceStates
         /\ (\E t \in LiveTransports : tps[t].ice = "failed") => AggregateIce(tps) = "failed"
  <1> DEFINE order == <<"failed", "checking", "disconnected", "new", "connected", "completed">>
             states == {tps[t].ice : t \in LiveTransports}
  <1>1. DOMAIN order \subseteq Nat \ {0} /\ 1 \in DOMAIN order /\ order[1] = "failed"
    OBVIOUS
  <1>2. AggregateIce(tps) = First(states, order, "new")
    BY DEF AggregateIce
  <1>3. (\E t \in LiveTransports : tps[t].ice = "failed") => "failed" \in states
    BY Zenon
  <1>4. states \subseteq IceStates /\ "new" \in IceStates
    BY DEF IceStates
  <1> HIDE DEF order, states
  <1>5. /\ First(states, order, "new") \in states \cup {"new"}
        /\ order[1] \in states => First(states, order, "new") = order[1]
    BY <1>1, FirstHit
  <1>6. AggregateIce(tps) \in IceStates
    BY <1>2, <1>4, <1>5
  <1>7. "failed" \in states => AggregateIce(tps) = "failed"
    BY <1>1, <1>2, <1>5
  <1> QED
    BY <1>3, <1>6, <1>7

LEMMA AggregateConnectionTyped ==
  ASSUME NEW tps,
         \A t \in LiveTransports : tps[t].ice \in IceStates /\ tps[t].dtls \in DtlsStates
  PROVE  AggregateConnection(tps) \in IceStates \cup DtlsStates
  <1> DEFINE order == <<"failed", "connecting", "disconnected", "new", "connected", "completed">>
             states == {tps[t].ice : t \in LiveTransports} \cup {tps[t].dtls : t \in LiveTransports}
             s == First(states, order, "new")
  <1>1. DOMAIN order \subseteq Nat \ {0}
    OBVIOUS
  <1>2. AggregateConnection(tps) = IF s = "completed" THEN "connected" ELSE s
    BY DEF AggregateConnection
  <1>3. states \subseteq IceStates \cup DtlsStates
    OBVIOUS
  <1> HIDE DEF order, states
  <1>4. s \in states \cup {"new"}
    BY <1>1, FirstHit
  <1> HIDE DEF s
  <1> QED
    BY <1>2, <1>3, <1>4 DEF IceStates

(* Every transport some m-line uses exists.                                  *)
LEMMA LiveExist ==
  ASSUME PeerInv
  PROVE  LiveTransports \subseteq 1 .. MaxTransports
  <1> SUFFICES ASSUME NEW t \in LiveTransports PROVE t \in 1 .. MaxTransports
    OBVIOUS
  <1>1. PICK i \in DOMAIN transceivers : transceivers[i].tp = t /\ t # 0
    BY DEF LiveTransports
  <1> QED
    BY <1>1, OneLine

LEMMA IceStateChangeKeeps ==
  ASSUME PeerInv, NEW t \in 1 .. created,
         NEW s \in {"connected", "completed", "disconnected", "failed"}, IceStateChange(t, s)
  PROVE  /\ transports' \in [1 .. MaxTransports -> TransportType]
         /\ Bare' /\ Untouched' /\ FailureReported'
         /\ iceConnectionState' \in IceStates /\ connectionState' \in IceStates \cup DtlsStates
  <1>1. UNCHANGED <<transceivers, created>> /\ transports' = [transports EXCEPT ![t].ice = s]
    BY DEF IceStateChange
  <1>2. created \in Nat /\ created <= MaxTransports
        /\ transports \in [1 .. MaxTransports -> TransportType]
    BY BoundsAssumption DEF PeerInv, TypeOK
  <1>3. t \in DOMAIN transports
    BY <1>2, BoundsAssumption
  <1>4. transports' \in [1 .. MaxTransports -> TransportType]
    <2>1. transports[t] \in TransportType
      BY <1>2, <1>3
    <2>2. [transports[t] EXCEPT !.ice = s] \in TransportType
      BY <2>1 DEF TransportType, IceStates
    <2> QED
      BY <1>1, <1>2, <2>2
  <1>5. Bare' /\ Untouched'
    <2>1. Bare'
      BY <1>1 DEF PeerInv, Bare
    <2>2. \A u \in created + 1 .. MaxTransports : transports'[u] = transports[u]
      BY <1>1, <1>2, BoundsAssumption
    <2> QED
      BY <1>1, <2>1, <2>2 DEF PeerInv, Untouched
  <1>6. /\ iceConnectionState' = AggregateIce(transports')
        /\ connectionState' = AggregateConnection(transports')
    BY DEF IceStateChange, UpdateIceAndConnectionState
  <1>7. \A u \in LiveTransports : /\ transports'[u].ice \in IceStates
                                 /\ transports'[u].dtls \in DtlsStates
    BY <1>4, LiveExist DEF TransportType
  <1>8. LiveTransports' = LiveTransports
    BY <1>1 DEF LiveTransports
  <1>9. /\ AggregateIce(transports') \in IceStates
        /\ (\E u \in LiveTransports : transports'[u].ice = "failed")
             => AggregateIce(transports') = "failed"
        /\ AggregateConnection(transports') \in IceStates \cup DtlsStates
    BY <1>7, AggregateReports, AggregateConnectionTyped
  <1> QED
    BY <1>4, <1>5, <1>6, <1>8, <1>9 DEF FailureReported

LEMMA DtlsStateChangeTyped ==
  ASSUME PeerInv, NEW t \in 1 .. created, NEW s \in {"connected", "failed"}, DtlsStateChange(t, s)
  PROVE  connectionState' \in IceStates \cup DtlsStates
  <1>1. transports' \in [1 .. MaxTransports -> TransportType]
    BY DtlsStateChangeTransports DEF TransportsStep
  <1>2. connectionState' = AggregateConnection(transports')
    BY DEF DtlsStateChange, UpdateConnectionState
  <1>3. \A u \in LiveTransports : /\ transports'[u].ice \in IceStates
                                 /\ transports'[u].dtls \in DtlsStates
    BY <1>1, LiveExist DEF TransportType
  <1> QED
    BY <1>2, <1>3, AggregateConnectionTyped

-----------------------------------------------------------------------------
(* Remote descriptions.                                                      *)

LEMMA SectionsTyped ==
  ASSUME PeerInv, NEW type \in {"offer", "answer"}, NEW secs \in Sections(type)
  PROVE  /\ Len(secs) \in 0 .. MaxLines /\ DOMAIN secs = 1 .. Len(secs)
         /\ \A i \in DOMAIN secs : secs[i].kind \in Kinds
  <1> DEFINE Section == [kind : Kinds, rejected : Rejects, dir : Directions]
  <1>1. localLines \in 0 .. MaxLines /\ mlines \in 0 .. MaxLines /\ MaxLines \in Nat
    BY BoundsAssumption DEF PeerInv, TypeOK
  <1>2. Max({1, mlines}) \in Nat
    BY <1>1, MaxOfTwo
  <1>3. PICK n \in IF type = "answer" THEN {localLines} ELSE Max({1, mlines}) .. MaxLines :
          secs \in [1 .. n -> Section]
    BY DEF Sections
  <1>4. n \in 0 .. MaxLines
    BY <1>1, <1>2
  <1> HIDE DEF Section
  <1>5. secs \in Seq(Section) /\ Len(secs) = n
    BY <1>1, <1>3, <1>4
  <1>6. \A i \in DOMAIN secs : secs[i] \in Section
    BY <1>3
  <1>7. \A x \in Section : x.kind \in Kinds
    BY DEF Section
  <1> QED
    BY <1>3, <1>4, <1>5, <1>6, <1>7

(* The sections up to some number that make new transports.                  *)
LEMMA FreshFinite ==
  ASSUME NEW secs, NEW k \in Nat, DOMAIN secs = 1 .. k, NEW bundle, NEW T,
         T \subseteq Fresh(secs, bundle)
  PROVE  /\ IsFiniteSet(T) /\ Cardinality(T) \in Nat
         /\ T # {} => Cardinality(T) >= 1
         /\ \A U \in SUBSET T : Cardinality(U) <= Cardinality(T)
  <1>1. IsFiniteSet(1 .. k)
    BY FS_Interval
  <1>2. T \subseteq 1 .. k
    BY DEF Fresh
  <1>3. IsFiniteSet(T)
    BY <1>1, <1>2, FS_Subset
  <1>4. Cardinality(T) \in Nat
    BY <1>3, FS_CardinalityType
  <1>5. T # {} => Cardinality(T) # 0
    BY <1>3, FS_EmptySet
  <1>6. \A U \in SUBSET T : Cardinality(U) <= Cardinality(T)
    BY <1>3, FS_Subset
  <1> QED
    BY <1>3, <1>4, <1>5, <1>6

(* The transport of an accepted section: one that is in use already, or one  *)
(* that this description creates, or none.                                   *)
LEMMA TransportOfSection ==
  ASSUME PeerInv, NEW secs, NEW k \in Nat, DOMAIN secs = 1 .. k, NEW bundle,
         NEW i \in Kept(secs), NEW N \in Nat,
         created + Cardinality({j \in Fresh(secs, bundle) : j <= i}) <= N
  PROVE  /\ Tp(secs, bundle, i) \in 0 .. N
         /\ Tp(secs, bundle, i) \in {0} \cup LiveTransports \cup (created + 1 .. N)
  <1> DEFINE F == {j \in Fresh(secs, bundle) : j <= i}
             Good(t) == t \in 0 .. N /\ t \in {0} \cup LiveTransports \cup (created + 1 .. N)
  <1>1. /\ Cardinality(F) \in Nat
        /\ F # {} => Cardinality(F) >= 1
    BY FreshFinite
  <1>2. created \in Nat /\ created + Cardinality(F) <= N
    BY LinesNow
  <1>3. i \in 1 .. k /\ i \in Nat
    BY DEF Kept
  <1> HIDE DEF F
  <1>4. created <= N
    BY <1>1, <1>2
  <1>5. \A j \in DOMAIN transceivers : Good(transceivers[j].tp)
    BY <1>2, <1>4, OneLine
  <1>6. ASSUME NEW j \in Kept(secs), j \notin Fresh(secs, bundle), ~(bundle /\ j > 1)
        PROVE  j \in DOMAIN transceivers
    <2>1. j \in DOMAIN secs /\ j \in 1 .. k
      BY DEF Kept
    <2>2. Len(transceivers) \in Nat /\ DOMAIN transceivers = 1 .. Len(transceivers)
      BY LinesNow
    <2>3. CASE ~IsNew(secs, j)
      BY <2>1, <2>2, <2>3 DEF IsNew
    <2>4. CASE IsNew(secs, j)
      <3>1. bundle /\ transceivers # <<>> /\ j = 1
        BY <1>6, <2>1, <2>4 DEF Fresh
      <3> QED
        BY <3>1, <2>2, LinesNow
    <2> QED
      BY <2>3, <2>4
  <1>7. Good(FirstTp(secs, bundle))
    <2>1. CASE 1 \notin Kept(secs)
      BY <2>1, <1>2 DEF FirstTp
    <2>2. CASE 1 \in Kept(secs) /\ 1 \in Fresh(secs, bundle)
      <3>1. 1 \in F
        BY <1>3, <2>2 DEF F
      <3>2. created + 1 <= N
        BY <1>1, <1>2, <3>1
      <3> QED
        BY <1>2, <2>2, <3>2 DEF FirstTp
    <2>3. CASE 1 \in Kept(secs) /\ 1 \notin Fresh(secs, bundle)
      <3>1. 1 \in DOMAIN transceivers
        BY <1>6, <2>3
      <3> QED
        BY <1>5, <2>3, <3>1 DEF FirstTp
    <2> QED
      BY <2>1, <2>2, <2>3
  <1>8. CASE bundle /\ i > 1
    BY <1>7, <1>8 DEF Tp
  <1>9. CASE ~(bundle /\ i > 1) /\ i \in Fresh(secs, bundle)
    <2>1. i \in F
      BY <1>3, <1>9 DEF F
    <2>2. Tp(secs, bundle, i) = created + Cardinality(F)
      BY <1>9 DEF Tp, F
    <2> QED
      BY <1>1, <1>2, <2>1, <2>2
  <1>10. CASE ~(bundle /\ i > 1) /\ i \notin Fresh(secs, bundle)
    BY <1>5, <1>6, <1>10 DEF Tp
  <1> QED
    BY <1>8, <1>9, <1>10

(* An m-line that an accepted section makes, or takes over.                  *)
LEMMA BaseTyped ==
  ASSUME PeerInv, NEW secs, NEW k \in Nat, DOMAIN secs = 1 .. k,
         \A j \in DOMAIN secs : secs[j].kind \in Kinds,
         NEW bundle, NEW i \in Kept(secs), NEW N \in Nat, created <= N,
         Tp(secs, bundle, i) \in 0 .. N
  PROVE  /\ Base(secs, bundle, i) \in LineType(N) /\ ~Base(secs, bundle, i).rejected
         /\ Base(secs, bundle, i).tp = Tp(secs, bundle, i)
  <1> DEFINE old == IF IsNew(secs, i) THEN Blank(secs[i].kind, 0) ELSE transceivers[i]
             tp == Tp(secs, bundle, i)
             g == IF bundle /\ i > 1 THEN 1 \in Kept(secs) ELSE old.gath
  <1>1. created \in Nat /\ i \in DOMAIN secs
    BY LinesNow DEF Kept
  <1>2. old \in LineType(N) /\ ~old.rejected
    <2>1. CASE IsNew(secs, i)
      BY <1>1, <2>1, BlankTyped
    <2>2. CASE ~IsNew(secs, i)
      <3>1. i \in DOMAIN transceivers /\ ~transceivers[i].rejected
        BY <1>1, <2>2, LinesNow DEF IsNew
      <3>2. transceivers[i] \in LineType(N)
        BY <1>1, <3>1, OneLine, LineGrows
      <3> QED
        BY <2>2, <3>1, <3>2
    <2> QED
      BY <2>1, <2>2
  <1>3. Base(secs, bundle, i) = [old EXCEPT !.tp = tp, !.gath = g]
    BY DEF Base
  <1> HIDE DEF old, tp
  <1>4. g \in BOOLEAN
    <2>1. old.gath \in BOOLEAN
      BY <1>2 DEF LineType
    <2>2. (1 \in Kept(secs)) \in BOOLEAN
      OBVIOUS
    <2> QED
      BY <2>1, <2>2, Zenon
  <1> HIDE DEF g
  <1>5. tp \in 0 .. N
    BY DEF tp
  <1>6. /\ [old EXCEPT !.tp = tp, !.gath = g] \in LineType(N)
        /\ [old EXCEPT !.tp = tp, !.gath = g].rejected = old.rejected
        /\ [old EXCEPT !.tp = tp, !.gath = g].tp = tp
    BY <1>2, <1>4, <1>5 DEF LineType
  <1> QED
    BY <1>2, <1>3, <1>6 DEF tp

(* The m-line of section i after the description.                            *)
LEMMA RemoteLineTyped ==
  ASSUME PeerInv, NEW secs, NEW k \in Nat, DOMAIN secs = 1 .. k,
         \A j \in DOMAIN secs : secs[j].kind \in Kinds,
         NEW type, NEW bundle, NEW i \in DOMAIN secs, NEW N \in Nat,
         created + Cardinality({j \in Fresh(secs, bundle) : j <= i}) <= N
  PROVE  LET l == RemoteLine(type, secs, bundle, i)
         IN /\ l \in LineType(N)
            /\ IF l.rejected THEN l.tp = 0
               ELSE l.tp \in {0} \cup LiveTransports \cup (created + 1 .. N)
  <1> DEFINE X == {0} \cup LiveTransports \cup (created + 1 .. N)
             F == {j \in Fresh(secs, bundle) : j <= i}
  <1>1. CASE secs[i].rejected
    <2>1. RemoteLine(type, secs, bundle, i) = RejectedLine(secs[i].kind)
      BY <1>1 DEF RemoteLine
    <2>2. RejectedLine(secs[i].kind) \in LineType(N) /\ RejectedLine(secs[i].kind).tp = 0
      BY BlankTyped
    <2>3. RejectedLine(secs[i].kind).rejected
      BY DEF RejectedLine, Blank
    <2> QED
      BY <2>1, <2>2, <2>3
  <1>2. CASE ~secs[i].rejected
    <2> DEFINE b == Base(secs, bundle, i)
    <2>1. i \in Kept(secs)
      BY <1>2 DEF Kept
    <2>2. Cardinality(F) \in Nat /\ created \in Nat
      BY FreshFinite, LinesNow
    <2>3. created <= N
      BY <2>2
    <2>4. Tp(secs, bundle, i) \in 0 .. N /\ Tp(secs, bundle, i) \in X
      BY <2>1, TransportOfSection
    <2>5. b \in LineType(N) /\ ~b.rejected /\ b.tp \in X
      BY <2>1, <2>3, <2>4, BaseTyped
    <2> HIDE DEF X
    <2>6. CASE type = "offer"
      <3> DEFINE g == b.gath \/ ~bundle \/ i = 1
                 r == IF ~Sends(secs[i]) THEN "none"
                      ELSE IF b.recv = "none" THEN "receiving" ELSE b.recv
      <3>1. RemoteLine(type, secs, bundle, i) = [b EXCEPT !.gath = g, !.recv = r]
        BY <1>2, <2>6 DEF RemoteLine, OfferedLine
      <3> HIDE DEF b
      <3>2. g \in BOOLEAN /\ r \in {"none", "idle", "receiving", "stopped"}
        BY <2>5 DEF LineType
      <3> HIDE DEF g, r
      <3>3. LET l == [b EXCEPT !.gath = g, !.recv = r]
            IN l \in LineType(N) /\ l.tp = b.tp /\ l.rejected = b.rejected
        BY <2>5, <3>2 DEF LineType
      <3> QED
        BY <2>5, <3>1, <3>3 DEF X
    <2>7. CASE type # "offer"
      <3> DEFINE s == b.sending \/ (Receives(secs[i]) /\ b.track # None)
                 r == IF Sends(secs[i]) /\ b.recv # "none" THEN "receiving" ELSE "none"
      <3>1. RemoteLine(type, secs, bundle, i) = [b EXCEPT !.sending = s, !.recv = r]
        BY <1>2, <2>7 DEF RemoteLine, AnsweredLine
      <3> HIDE DEF b
      <3>2. s \in BOOLEAN /\ r \in {"none", "receiving"}
        BY <2>5 DEF LineType
      <3> HIDE DEF s, r
      <3>3. LET l == [b EXCEPT !.sending = s, !.recv = r]
            IN l \in LineType(N) /\ l.tp = b.tp /\ l.rejected = b.rejected
        BY <2>5, <3>2 DEF LineType
      <3> QED
        BY <2>5, <3>1, <3>3 DEF X
    <2> QED
      BY <2>6, <2>7
  <1> QED
    BY <1>1, <1>2

(* m-lines after a description, in the terms of LinesStep.                   *)
LEMMA LinesBuilt ==
  ASSUME PeerInv, created' \in created .. MaxTransports, NEW n \in Nat,
         Len(transceivers) <= n, n <= MaxLines,
         transceivers' = [i \in 1 .. n |-> transceivers'[i]],
         \A i \in 1 .. n :
           /\ transceivers'[i] \in LineType(created')
           /\ IF transceivers'[i].rejected THEN transceivers'[i].tp = 0
              ELSE transceivers'[i].tp \in {0} \cup LiveTransports \cup (created + 1 .. created')
  PROVE  LinesStep
  <1>1. transceivers' \in [1 .. n -> LineType(created')]
    OBVIOUS
  <1>2. /\ transceivers' \in Seq(LineType(created')) /\ Len(transceivers') = n
        /\ DOMAIN transceivers' = 1 .. n
    BY <1>1
  <1> QED
    BY <1>2 DEF LinesStep

(* An m-line the description does not touch.                                 *)
LEMMA LineKept ==
  ASSUME PeerInv, created' \in created .. MaxTransports, NEW i \in DOMAIN transceivers
  PROVE  /\ transceivers[i] \in LineType(created')
         /\ IF transceivers[i].rejected THEN transceivers[i].tp = 0
            ELSE transceivers[i].tp \in {0} \cup LiveTransports \cup (created + 1 .. created')
  <1>1. created \in Nat /\ created' \in Nat /\ created <= created'
    BY BoundsAssumption, LinesNow
  <1>2. transceivers[i] \in LineType(created')
    BY <1>1, OneLine, LineGrows
  <1> QED
    BY <1>2, OneLine

LEMMA SetRemoteDescriptionLines ==
  ASSUME PeerInv, NEW type \in {"offer", "answer"}, NEW secs \in Sections(type), NEW bundle,
         NEW cands, SetRemoteDescription(type, secs, bundle, cands)
  PROVE  /\ LinesStep
         /\ \A i \in Kept(secs) : Tp(secs, bundle, i) \in 0 .. created'
         /\ remoteLines' \in 0 .. MaxLines /\ remoteLines' <= Len(transceivers')
  <1> DEFINE n == Max({Len(secs), Len(transceivers)})
             k == Len(secs)
             All == Fresh(secs, bundle)
  <1>1. /\ created' = created + Cardinality(All) /\ created' <= MaxTransports
        /\ transceivers' = [i \in 1 .. n |-> RemoteLine(type, secs, bundle, i)]
        /\ remoteLines' = k
    BY DEF SetRemoteDescription
  <1>2. /\ k \in 0 .. MaxLines /\ DOMAIN secs = 1 .. k
        /\ \A i \in DOMAIN secs : secs[i].kind \in Kinds
    BY SectionsTyped
  <1>3. Len(transceivers) \in Nat /\ Len(transceivers) <= MaxLines /\ created \in Nat
    BY LinesNow DEF PeerInv, TypeOK
  <1>4. k \in Nat
    BY <1>2
  <1>5. /\ n \in Nat /\ k <= n /\ Len(transceivers) <= n /\ n \in {k, Len(transceivers)}
    BY <1>3, <1>4, MaxOfTwo
  <1> HIDE DEF n, k
  <1>6. n <= MaxLines
    BY <1>2, <1>3, <1>5, BoundsAssumption
  <1>7. Cardinality(All) \in Nat
    BY <1>2, <1>4, FreshFinite
  <1>8. created' \in Nat /\ created' \in created .. MaxTransports
    BY <1>1, <1>3, <1>7, BoundsAssumption
  <1>9. ASSUME NEW i PROVE created + Cardinality({j \in All : j <= i}) <= created'
    <2> DEFINE U == {j \in All : j <= i}
    <2>1. U \subseteq All
      OBVIOUS
    <2> HIDE DEF U
    <2>2. Cardinality(U) <= Cardinality(All) /\ Cardinality(U) \in Nat
      BY <1>2, <1>4, <2>1, FreshFinite
    <2> QED
      BY <1>1, <1>3, <1>7, <2>2 DEF U
  <1>10. ASSUME NEW i \in 1 .. n
         PROVE  /\ transceivers'[i] \in LineType(created')
                /\ IF transceivers'[i].rejected THEN transceivers'[i].tp = 0
                   ELSE transceivers'[i].tp \in {0} \cup LiveTransports \cup (created + 1 .. created')
    <2>1. transceivers'[i] = RemoteLine(type, secs, bundle, i)
      BY <1>1
    <2>2. CASE i \in DOMAIN secs
      <3> DEFINE l == RemoteLine(type, secs, bundle, i)
      <3>1. created + Cardinality({j \in Fresh(secs, bundle) : j <= i}) <= created'
        BY <1>9
      <3>2. /\ l \in LineType(created')
            /\ IF l.rejected THEN l.tp = 0
               ELSE l.tp \in {0} \cup LiveTransports \cup (created + 1 .. created')
        BY <1>2, <1>4, <1>8, <2>2, <3>1, RemoteLineTyped
      <3> QED
        BY <2>1, <3>2
    <2>3. CASE i \notin DOMAIN secs
      <3>1. i \in DOMAIN transceivers
        BY <1>2, <1>3, <1>4, <1>5, <2>3, LinesNow
      <3>2. transceivers'[i] = transceivers[i]
        BY <2>1, <2>3 DEF RemoteLine
      <3> QED
        BY <1>8, <3>1, <3>2, LineKept
    <2> QED
      BY <2>2, <2>3
  <1>11. LinesStep
    <2>1. transceivers' = [i \in 1 .. n |-> transceivers'[i]]
      BY <1>1
    <2> QED
      BY <1>5, <1>6, <1>8, <1>10, <2>1, LinesBuilt
  <1>12. Len(transceivers') = n
    <2>1. DOMAIN transceivers' = 1 .. n
      BY <1>1
    <2> QED
      BY <1>5, <1>11, <2>1 DEF LinesStep
  <1>13. \A i \in Kept(secs) : Tp(secs, bundle, i) \in 0 .. created'
    BY <1>2, <1>4, <1>8, <1>9, TransportOfSection
  <1> QED
    BY <1>1, <1>2, <1>5, <1>11, <1>12, <1>13

(* Candidates of a description change no state, and reach transports that    *)
(* exist.                                                                    *)
LEMMA SdpCandidates ==
  ASSUME PeerInv, Candidates # {}, NEW secs, NEW bundle, NEW t \in DOMAIN transports
  PROVE  LET w == WithSdpCandidates(transports, secs, bundle)
         IN /\ DOMAIN w = DOMAIN transports
            /\ w[t] \in TransportType /\ w[t].ice = transports[t].ice
            /\ w[t] # transports[t] => \E i \in Kept(secs) : Tp(secs, bundle, i) = t
  <1> DEFINE c == CHOOSE d \in Candidates : TRUE
             w == WithSdpCandidates(transports, secs, bundle)
             hit == transports[t].ice = "new" /\ \E i \in Kept(secs) : Tp(secs, bundle, i) = t
  <1>1. c \in Candidates
    OBVIOUS
  <1>2. transports[t] \in TransportType
    BY DEF PeerInv, TypeOK
  <1>3. /\ DOMAIN w = DOMAIN transports
        /\ w[t] = IF hit THEN [transports[t] EXCEPT !.remote = @ \cup {c}] ELSE transports[t]
    BY DEF WithSdpCandidates
  <1> HIDE DEF w, c
  <1>4. /\ [transports[t] EXCEPT !.remote = @ \cup {c}] \in TransportType
        /\ [transports[t] EXCEPT !.remote = @ \cup {c}].ice = transports[t].ice
    BY <1>1, <1>2 DEF TransportType
  <1> QED
    BY <1>2, <1>3, <1>4 DEF w

LEMMA SetRemoteDescriptionTransports ==
  ASSUME PeerInv, NEW type \in {"offer", "answer"}, NEW secs \in Sections(type), NEW bundle,
         NEW cands \in InSdp, SetRemoteDescription(type, secs, bundle, cands)
  PROVE  TransportsStep
  <1> DEFINE w == WithSdpCandidates(transports, secs, bundle)
             received == IF cands THEN w ELSE transports
             starting == {Tp(secs, bundle, i) : i \in {j \in Kept(secs) : j = 1 \/ ~bundle}}
  <1>1. transports' = [t \in DOMAIN transports |->
          IF type = "answer" /\ t \in starting THEN Started(received[t]) ELSE received[t]]
    BY DEF SetRemoteDescription
  <1>2. created' \in created .. MaxTransports
    BY SetRemoteDescriptionLines DEF LinesStep
  <1>3. created' \in Nat
    BY <1>2, LinesNow
  <1>4. cands => Candidates # {}
    BY RemoteAssumption
  <1>5. ASSUME NEW t \in DOMAIN transports
        PROVE  /\ received[t] \in TransportType /\ received[t].ice = transports[t].ice
               /\ received[t] # transports[t] => \E i \in Kept(secs) : Tp(secs, bundle, i) = t
    <2>1. CASE cands
      BY <1>4, <2>1, SdpCandidates
    <2>2. CASE ~cands
      BY <2>2 DEF PeerInv, TypeOK
    <2> QED
      BY <2>1, <2>2
  <1>6. \A i \in Kept(secs) : ~(Tp(secs, bundle, i) > created')
    BY <1>3, SetRemoteDescriptionLines
  <1>7. \A t \in starting : \E i \in Kept(secs) : Tp(secs, bundle, i) = t
    OBVIOUS
  <1> HIDE DEF received, starting
  <1>8. ASSUME NEW t \in DOMAIN transports
        PROVE  /\ transports'[t] \in TransportType
               /\ transports'[t].ice = "failed" => transports[t].ice = "failed"
               /\ t > created' => transports'[t] = transports[t]
    <2>1. transports'[t] \in {received[t], Started(received[t])}
      BY <1>1
    <2>2. t > created' => transports'[t] = transports[t]
      BY <1>1, <1>5, <1>6, <1>7
    <2> QED
      BY <1>5, <2>1, <2>2, TransportChanges
  <1>9. transports' = [t \in DOMAIN transports |-> transports'[t]]
    BY <1>1
  <1> QED
    BY <1>2, <1>8, <1>9, TransportsMapped

(* The same for a call that throws on the section b.                         *)
LEMMA ThrowsLines ==
  ASSUME PeerInv, NEW type \in {"offer", "answer"}, NEW secs \in Sections(type), NEW bundle,
         SetRemoteDescriptionThrows(type, secs, bundle)
  PROVE  /\ LinesStep
         /\ \A i \in Kept(secs) :
              i < Min(Broken(secs, bundle)) => Tp(secs, bundle, i) \in 0 .. created'
  <1> DEFINE b == Min(Broken(secs, bundle))
             n == Max({b, Len(transceivers)})
             k == Len(secs)
             fresh == {i \in Fresh(secs, bundle) : i < b}
             g == type = "offer" /\ (~bundle \/ b = 1)
             last == [Base(secs, bundle, b) EXCEPT !.gath = @ \/ g]
  <1>1. /\ created' = created + Cardinality(fresh) /\ created' <= MaxTransports
        /\ Broken(secs, bundle) # {}
        /\ transceivers' = [i \in 1 .. n |->
             IF i < b THEN RemoteLine(type, secs, bundle, i)
             ELSE IF i = b THEN [Base(secs, bundle, i) EXCEPT
                                   !.gath = @ \/ (type = "offer" /\ (~bundle \/ i = 1))]
             ELSE transceivers[i]]
    BY DEF SetRemoteDescriptionThrows
  <1>2. /\ k \in 0 .. MaxLines /\ k \in Nat /\ DOMAIN secs = 1 .. k
        /\ \A i \in DOMAIN secs : secs[i].kind \in Kinds
    BY SectionsTyped
  <1>3. Len(transceivers) \in Nat /\ Len(transceivers) <= MaxLines /\ created \in Nat
    BY LinesNow DEF PeerInv, TypeOK
  <1>4. b \in Kept(secs) /\ Tp(secs, bundle, b) = 0
    <2>1. Broken(secs, bundle) \in SUBSET Nat
      BY <1>2 DEF Broken, Kept
    <2> QED
      BY <1>1, <2>1, MinIsLeast DEF Broken
  <1>5. b \in Nat /\ b \in 1 .. k
    BY <1>2, <1>4 DEF Kept
  <1>6. /\ n \in Nat /\ b <= n /\ Len(transceivers) <= n /\ n \in {b, Len(transceivers)}
    BY <1>3, <1>5, MaxOfTwo
  <1> HIDE DEF n, k, b
  <1>7. n <= MaxLines
    BY <1>2, <1>3, <1>5, <1>6, BoundsAssumption
  <1>8. fresh \subseteq Fresh(secs, bundle)
    OBVIOUS
  <1>9. Cardinality(fresh) \in Nat
    BY <1>2, <1>8, FreshFinite
  <1>10. created' \in Nat /\ created' \in created .. MaxTransports /\ created <= created'
    BY <1>1, <1>3, <1>9, BoundsAssumption
  <1>11. ASSUME NEW i \in DOMAIN secs, i < b
         PROVE  created + Cardinality({j \in Fresh(secs, bundle) : j <= i}) <= created'
    <2> DEFINE U == {j \in Fresh(secs, bundle) : j <= i}
    <2>1. \A j \in Fresh(secs, bundle) : j \in Nat
      BY <1>2 DEF Fresh
    <2>2. U \subseteq fresh
      BY <1>2, <1>5, <1>11, <2>1
    <2> HIDE DEF U, fresh
    <2>3. Cardinality(U) <= Cardinality(fresh) /\ Cardinality(U) \in Nat
      BY <1>2, <1>8, <2>2, FreshFinite
    <2> QED
      BY <1>1, <1>3, <1>9, <2>3 DEF U
  <1> HIDE DEF fresh
  <1>12. ASSUME NEW i \in 1 .. n
         PROVE  /\ transceivers'[i] \in LineType(created')
                /\ IF transceivers'[i].rejected THEN transceivers'[i].tp = 0
                   ELSE transceivers'[i].tp \in {0} \cup LiveTransports \cup (created + 1 .. created')
    <2>1. CASE i < b
      <3> DEFINE l == RemoteLine(type, secs, bundle, i)
      <3>1. i \in DOMAIN secs
        BY <1>2, <1>5, <1>6, <2>1
      <3>2. created + Cardinality({j \in Fresh(secs, bundle) : j <= i}) <= created'
        BY <1>11, <2>1, <3>1
      <3>3. /\ l \in LineType(created')
            /\ IF l.rejected THEN l.tp = 0
               ELSE l.tp \in {0} \cup LiveTransports \cup (created + 1 .. created')
        BY <1>2, <1>10, <3>1, <3>2, RemoteLineTyped
      <3>4. transceivers'[i] = l
        BY <1>1, <2>1
      <3> QED
        BY <3>3, <3>4
    <2>2. CASE i = b
      <3>1. transceivers'[i] = last
        BY <1>1, <1>5, <2>2
      <3>2. /\ Base(secs, bundle, b) \in LineType(created') /\ ~Base(secs, bundle, b).rejected
            /\ Base(secs, bundle, b).tp = 0
        BY <1>2, <1>4, <1>10, BaseTyped
      <3> DEFINE base == Base(secs, bundle, b)
      <3> HIDE DEF base
      <3>3. [base EXCEPT !.gath = @ \/ g] \in LineType(created')
            /\ [base EXCEPT !.gath = @ \/ g].tp = base.tp
            /\ [base EXCEPT !.gath = @ \/ g].rejected = base.rejected
        BY <3>2 DEF LineType, base
      <3> QED
        BY <3>1, <3>2, <3>3 DEF base
    <2>3. CASE ~(i < b) /\ i # b
      <3>1. i \in DOMAIN transceivers
        BY <1>3, <1>5, <1>6, <2>3, LinesNow
      <3>2. transceivers'[i] = transceivers[i]
        BY <1>1, <2>3
      <3> QED
        BY <1>10, <3>1, <3>2, LineKept
    <2> QED
      BY <2>1, <2>2, <2>3
  <1>13. LinesStep
    <2>1. transceivers' = [i \in 1 .. n |-> transceivers'[i]]
      BY <1>1
    <2> QED
      BY <1>6, <1>7, <1>10, <1>12, <2>1, LinesBuilt
  <1>14. ASSUME NEW i \in Kept(secs), i < b PROVE Tp(secs, bundle, i) \in 0 .. created'
    <2>1. i \in DOMAIN secs
      BY DEF Kept
    <2>2. created + Cardinality({j \in Fresh(secs, bundle) : j <= i}) <= created'
      BY <1>11, <1>14, <2>1
    <2> QED
      BY <1>2, <1>10, <2>2, TransportOfSection
  <1> QED
    BY <1>13, <1>14 DEF b

LEMMA ThrowsTransports ==
  ASSUME PeerInv, TRUE \in InSdp, NEW type \in {"offer", "answer"}, NEW secs \in Sections(type),
         NEW bundle, SetRemoteDescriptionThrows(type, secs, bundle)
  PROVE  TransportsStep
  <1> DEFINE b == Min(Broken(secs, bundle))
             before == {i \in Kept(secs) : i < b}
             starting == {Tp(secs, bundle, i) : i \in {j \in before : j = 1 \/ ~bundle}}
             reached == {Tp(secs, bundle, i) : i \in before}
             received == WithSdpCandidates(transports, secs, bundle)
  <1>1. transports' = [t \in DOMAIN transports |->
          IF t \notin reached THEN transports[t]
          ELSE IF type = "answer" /\ t \in starting THEN Started(received[t])
          ELSE received[t]]
    BY DEF SetRemoteDescriptionThrows
  <1>2. created' \in created .. MaxTransports
    BY ThrowsLines DEF LinesStep
  <1>3. created' \in Nat
    BY <1>2, LinesNow
  <1>4. \A t \in reached : ~(t > created')
    BY <1>3, ThrowsLines
  <1>5. ASSUME NEW t \in DOMAIN transports
        PROVE  received[t] \in TransportType /\ received[t].ice = transports[t].ice
    BY RemoteAssumption, SdpCandidates
  <1> HIDE DEF received, reached, starting
  <1>6. ASSUME NEW t \in DOMAIN transports
        PROVE  /\ transports'[t] \in TransportType
               /\ transports'[t].ice = "failed" => transports[t].ice = "failed"
               /\ t > created' => transports'[t] = transports[t]
    <2>1. transports[t] \in TransportType
      BY DEF PeerInv, TypeOK
    <2>2. transports'[t] \in {transports[t], received[t], Started(received[t])}
      BY <1>1
    <2>3. t > created' => transports'[t] = transports[t]
      BY <1>1, <1>4
    <2> QED
      BY <1>5, <2>1, <2>2, <2>3, TransportChanges
  <1>7. transports' = [t \in DOMAIN transports |-> transports'[t]]
    BY <1>1
  <1> QED
    BY <1>2, <1>6, <1>7, TransportsMapped

-----------------------------------------------------------------------------
(* The other variables, and what the application is told.                    *)

LEMMA RestNow ==
  ASSUME PeerInv
  PROVE  RestOK
  BY DEF PeerInv, TypeOK, RestOK, Timed

(* What a step that keeps the negotiation variables has to show.             *)
LEMMA RestKept ==
  ASSUME PeerInv, UNCHANGED svars, UNCHANGED cvars,
         localStreams' \subseteq Streams, unannounced' \subseteq Tracks,
         needNegotiation' \in BOOLEAN
  PROVE  RestOK'
  BY RestNow DEF RestOK, svars, cvars

LEMMA RestTyped ==
  ASSUME PeerInv, [Next]_vars
  PROVE  RestOK'
  <1> USE RestNow, BoundsAssumption
  <1>1. ASSUME NEW t \in Tracks, NEW s \in Streams, AddTrack(t, s) PROVE RestOK'
    <2>1. UNCHANGED <<svars, cvars>>
      BY <1>1 DEF AddTrack
    <2>2. localStreams' \subseteq Streams /\ unannounced' \subseteq Tracks
      BY <1>1 DEF AddTrack, RestOK
    <2>3. needNegotiation' \in BOOLEAN
      BY <1>1 DEF AddTrack, MaybeFireNegotiationNeeded, RestOK
    <2> QED
      BY <2>1, <2>2, <2>3, RestKept
  <1>2. ASSUME NEW i \in DOMAIN transceivers, RemoveTrack(i) PROVE RestOK'
    <2>1. UNCHANGED <<svars, cvars>>
      BY <1>2 DEF RemoveTrack
    <2>2. localStreams' \subseteq Streams /\ unannounced' \subseteq Tracks
      BY <1>2 DEF RemoveTrack, RestOK
    <2>3. needNegotiation' \in BOOLEAN
      BY <1>2 DEF RemoveTrack, MaybeFireNegotiationNeeded, RestOK
    <2> QED
      BY <2>1, <2>2, <2>3, RestKept
  <1>3. CASE NegotiationTimer
    <2>1. UNCHANGED <<svars, cvars, localStreams>> /\ needNegotiation' = FALSE
      BY <1>3 DEF NegotiationTimer
    <2>2. unannounced' \subseteq Tracks
      BY <1>3 DEF NegotiationTimer, RestOK
    <2> QED
      BY <2>1, <2>2, RestKept DEF RestOK
  <1>4. ASSUME NEW num, CreateOffer(num) PROVE RestOK'
    <2> DEFINE wants == [i \in DOMAIN transceivers |->
                           [transceivers[i] EXCEPT !.want = Wanted(i, num)]]
               a == num["audio"] > Cardinality(OfKind("audio"))
               v == num["video"] > Cardinality(OfKind("video"))
               withA == IF a THEN WithNew(wants, "audio", created) ELSE wants
               createdA == IF a THEN CountNew(wants, created) ELSE created
               withV == IF v THEN WithNew(withA, "video", createdA) ELSE withA
    <2>1. UNCHANGED <<signalingState, isClosed, usingBundle, localLines, remoteLines,
                      mlines, timers, rounds, refused, evars, cvars>>
      BY <1>4 DEF CreateOffer
    <2>2. pending' \in [type : {"none", "offer", "answer"}, lines : 0 .. MaxLines]
      <3>1. /\ Len(withV) \in Lines
            /\ pending' = IF \A i \in DOMAIN withV : withV[i].tp # 0
                          THEN [type |-> "offer", lines |-> Len(withV)]
                          ELSE [type |-> "none", lines |-> 0]
        BY <1>4 DEF CreateOffer
      <3> HIDE DEF withV
      <3> QED
        BY <3>1 DEF Lines
    <2> QED
      BY <2>1, <2>2 DEF RestOK, evars, cvars
  <1>5. CASE CreateAnswer
    BY <1>5 DEF CreateAnswer, RestOK, mvars, evars, cvars
  <1>6. CASE SetLocalOffer
    BY <1>6 DEF SetLocalOffer, UpdateSignalingState, RestOK, mvars, evars, cvars
  <1>7. CASE SetLocalAnswer
    <2>1. UNCHANGED <<isClosed, usingBundle, localLines, remoteLines, timers, rounds,
                      refused, evars, cvars>>
          /\ pending' = [pending EXCEPT !.type = "none"]
          /\ mlines' = remoteLines /\ signalingState' = "stable"
      BY <1>7 DEF SetLocalAnswer, UpdateSignalingState
    <2> QED
      BY <2>1 DEF RestOK, evars, cvars
  <1>8. ASSUME NEW type \in {"offer", "answer"}, NEW secs \in Sections(type),
               NEW bundle \in Bundle, NEW cands \in InSdp,
               SetRemoteDescription(type, secs, bundle, cands)
        PROVE  RestOK'
    <2>1. /\ rounds < MaxRounds /\ rounds' = rounds + 1 /\ timers' = timers + 1
          /\ usingBundle' = bundle /\ remoteLines' = Len(secs)
          /\ mlines' = IF type = "answer" THEN Len(secs) ELSE mlines
          /\ pending' = [type |-> "none", lines |-> 0]
          /\ signalingState' = IF type = "offer" THEN "have-remote-offer" ELSE "stable"
          /\ refused' \in BOOLEAN
          /\ UNCHANGED <<isClosed, localLines, evars, cvars>>
      BY <1>8 DEF SetRemoteDescription, UpdateSignalingState, Remember, RestOK
    <2>2. Len(secs) \in 0 .. MaxLines /\ bundle \in BOOLEAN
      BY SectionsTyped, RemoteAssumption
    <2> QED
      BY <2>1, <2>2 DEF RestOK, evars, cvars
  <1>9. ASSUME NEW type \in {"offer", "answer"}, NEW secs \in Sections(type),
               NEW bundle \in Bundle, SetRemoteDescriptionThrows(type, secs, bundle)
        PROVE  RestOK'
    <2>1. /\ rounds < MaxRounds /\ rounds' = rounds + 1 /\ usingBundle' = bundle
          /\ pending' = [type |-> "none", lines |-> 0] /\ refused' \in BOOLEAN
          /\ UNCHANGED <<signalingState, isClosed, localLines, remoteLines, mlines, timers,
                         evars, cvars>>
      BY <1>9 DEF SetRemoteDescriptionThrows, Remember, RestOK
    <2>2. bundle \in BOOLEAN
      BY RemoteAssumption
    <2> QED
      BY <2>1, <2>2 DEF RestOK, evars, cvars
  <1>10. ASSUME NEW c, NEW i, AddIceCandidate(c, i) PROVE RestOK'
    <2>1. UNCHANGED <<svars, evars, cvars>>
      BY <1>10 DEF AddIceCandidate
    <2> QED
      BY <2>1, RestKept DEF RestOK, evars
  <1>11. CASE EndOfCandidates
    <2>1. UNCHANGED <<svars, evars, cvars>>
      BY <1>11 DEF EndOfCandidates
    <2> QED
      BY <2>1, RestKept DEF RestOK, evars
  <1>12. CASE FourSecondTimer
    <2>1. /\ timers > 0 /\ timers' = timers - 1
          /\ UNCHANGED <<signalingState, isClosed, usingBundle, pending, localLines, remoteLines,
                         mlines, rounds, refused, evars, cvars>>
      BY <1>12 DEF FourSecondTimer
    <2> QED
      BY <2>1 DEF RestOK, evars, cvars
  <1>13. CASE Close
    <2>1. /\ isClosed' = TRUE /\ signalingState' = "closed"
          /\ UNCHANGED <<usingBundle, pending, localLines, remoteLines, mlines, timers, rounds,
                         refused, evars, cvars>>
      BY <1>13 DEF Close, UpdateSignalingState
    <2> QED
      BY <2>1 DEF RestOK, evars, cvars
  <1>14. ASSUME NEW t \in 1 .. created,
                NEW s \in {"connected", "completed", "disconnected", "failed"},
                IceStateChange(t, s)
         PROVE  RestOK'
    <2>1. moves < MaxMoves /\ moves' = moves + 1 /\ UNCHANGED <<svars, evars>>
      BY <1>14 DEF IceStateChange
    <2>2. iceConnectionState' \in IceStates /\ connectionState' \in IceStates \cup DtlsStates
      BY <1>14, IceStateChangeKeeps
    <2> QED
      BY <2>1, <2>2 DEF RestOK, svars, evars
  <1>15. ASSUME NEW t \in 1 .. created, NEW s \in {"connected", "failed"}, DtlsStateChange(t, s)
         PROVE  RestOK'
    <2>1. /\ moves < MaxMoves /\ moves' = moves + 1
          /\ UNCHANGED <<svars, evars, iceConnectionState>>
      BY <1>15 DEF DtlsStateChange, UpdateConnectionState
    <2>2. connectionState' \in IceStates \cup DtlsStates
      BY <1>15, DtlsStateChangeTyped
    <2> QED
      BY <2>1, <2>2 DEF RestOK, svars, evars
  <1>16. CASE UNCHANGED vars
    BY <1>16 DEF vars, svars, evars, cvars, RestOK
  <1> QED
    BY <1>1, <1>2, <1>3, <1>4, <1>5, <1>6, <1>7, <1>8, <1>9, <1>10, <1>11, <1>12, <1>13,
       <1>14, <1>15, <1>16 DEF Next

(* Every update of a state comes with its event.                             *)
LEMMA ToldStep ==
  ASSUME PeerInv, [Next]_vars
  PROVE  ToldWhileOpen'
  <1>0. ToldWhileOpen
    BY DEF PeerInv
  <1>1. ASSUME UNCHANGED <<signalingState, isClosed, cvars, seen>> PROVE ToldWhileOpen'
    BY <1>0, <1>1 DEF ToldWhileOpen, cvars
  <1>2. ASSUME NEW t \in Tracks, NEW s \in Streams, AddTrack(t, s) PROVE ToldWhileOpen'
    BY <1>1, <1>2 DEF AddTrack, svars
  <1>3. ASSUME NEW i \in DOMAIN transceivers, RemoveTrack(i) PROVE ToldWhileOpen'
    BY <1>1, <1>3 DEF RemoveTrack, svars
  <1>4. CASE NegotiationTimer
    BY <1>1, <1>4 DEF NegotiationTimer, svars
  <1>5. ASSUME NEW num, CreateOffer(num) PROVE ToldWhileOpen'
    BY <1>1, <1>5 DEF CreateOffer
  <1>6. CASE CreateAnswer
    BY <1>1, <1>6 DEF CreateAnswer
  <1>7. ASSUME NEW new, UNCHANGED <<isClosed, cvars>>, UpdateSignalingState(new, isClosed)
        PROVE  ToldWhileOpen'
    <2>1. /\ UNCHANGED <<isClosed, iceConnectionState, connectionState>> /\ signalingState' = new
          /\ isClosed \/ seen' = [seen EXCEPT !["signaling"] = new]
      BY <1>7 DEF cvars, UpdateSignalingState, Tell
    <2> QED
      BY <1>0, <2>1 DEF ToldWhileOpen
  <1>8. CASE SetLocalOffer
    BY <1>7, <1>8 DEF SetLocalOffer
  <1>9. CASE SetLocalAnswer
    BY <1>7, <1>9 DEF SetLocalAnswer
  <1>10. ASSUME NEW type, NEW secs, NEW bundle, NEW cands,
                SetRemoteDescription(type, secs, bundle, cands)
         PROVE  ToldWhileOpen'
    BY <1>7, <1>10 DEF SetRemoteDescription
  <1>11. ASSUME NEW type, NEW secs, NEW bundle, SetRemoteDescriptionThrows(type, secs, bundle)
         PROVE  ToldWhileOpen'
    BY <1>1, <1>11 DEF SetRemoteDescriptionThrows
  <1>12. ASSUME NEW c, NEW i, AddIceCandidate(c, i) PROVE ToldWhileOpen'
    BY <1>1, <1>12 DEF AddIceCandidate, svars
  <1>13. CASE EndOfCandidates
    BY <1>1, <1>13 DEF EndOfCandidates, svars
  <1>14. CASE FourSecondTimer
    BY <1>1, <1>14 DEF FourSecondTimer
  <1>15. CASE Close
    BY <1>15 DEF Close, ToldWhileOpen
  <1>16. ASSUME NEW t, NEW s, IceStateChange(t, s) PROVE ToldWhileOpen'
    <2>1. /\ UNCHANGED <<signalingState, isClosed>>
          /\ isClosed \/ seen' = [seen EXCEPT !.ice = iceConnectionState',
                                              !.connection = connectionState']
      BY <1>16 DEF IceStateChange, UpdateIceAndConnectionState, svars
    <2>2. CASE isClosed
      BY <2>1, <2>2 DEF ToldWhileOpen
    <2>3. CASE ~isClosed
      <3>1. seen' = [signaling |-> signalingState, ice |-> iceConnectionState',
                     connection |-> connectionState']
        <4>1. seen = [signaling |-> signalingState, ice |-> iceConnectionState,
                      connection |-> connectionState]
          BY <1>0, <2>3 DEF ToldWhileOpen
        <4> DEFINE y == [seen EXCEPT !.ice = iceConnectionState']
        <4>2. y = [signaling |-> signalingState, ice |-> iceConnectionState',
                   connection |-> connectionState]
          BY <4>1
        <4>3. seen' = [y EXCEPT !.connection = connectionState']
          BY <2>1, <2>3
        <4> HIDE DEF y
        <4> QED
          BY <4>2, <4>3
      <3> QED
        BY <2>1, <3>1 DEF ToldWhileOpen
    <2> QED
      BY <2>2, <2>3
  <1>17. ASSUME NEW t, NEW s, DtlsStateChange(t, s) PROVE ToldWhileOpen'
    <2>1. /\ UNCHANGED <<signalingState, isClosed, iceConnectionState>>
          /\ isClosed \/ seen' = [seen EXCEPT !.connection = connectionState']
      BY <1>17 DEF DtlsStateChange, UpdateConnectionState, Tell, svars
    <2> QED
      BY <1>0, <2>1 DEF ToldWhileOpen
  <1>18. CASE UNCHANGED vars
    BY <1>1, <1>18 DEF vars, svars
  <1> QED
    BY <1>2, <1>3, <1>4, <1>5, <1>6, <1>8, <1>9, <1>10, <1>11, <1>12, <1>13, <1>14, <1>15,
       <1>16, <1>17, <1>18 DEF Next

-----------------------------------------------------------------------------
(* The theorem.                                                              *)

LEMMA InitPeer == Init => PeerInv
  <1> SUFFICES ASSUME Init PROVE PeerInv
    OBVIOUS
  <1> USE BoundsAssumption, RemoteAssumption DEF Init
  <1>1. transceivers = <<>> /\ transceivers \in Seq(LineType(created)) /\ Len(transceivers) = 0
    OBVIOUS
  <1>2. NewTransport \in TransportType
    BY DEF NewTransport, TransportType, IceStates, DtlsStates
  <1>3. transports \in [1 .. MaxTransports -> TransportType]
    BY <1>2
  <1>4. RestOK
    <2>1. usingBundle \in BOOLEAN
      OBVIOUS
    <2>2. "new" \in IceStates
      BY DEF IceStates
    <2>3. /\ pending \in [type : {"none", "offer", "answer"}, lines : 0 .. MaxLines]
          /\ {localLines, remoteLines, mlines} \subseteq 0 .. MaxLines
      OBVIOUS
    <2>4. /\ moves \in 0 .. MaxMoves /\ timers \in 0 .. MaxRounds /\ rounds \in 0 .. MaxRounds
          /\ timers <= rounds
      OBVIOUS
    <2>5. /\ localStreams \subseteq Streams /\ unannounced \subseteq Tracks
          /\ isClosed \in BOOLEAN /\ needNegotiation \in BOOLEAN /\ refused \in BOOLEAN
          /\ iceConnectionState \in IceStates /\ connectionState \in IceStates \cup DtlsStates
      BY <2>2
    <2>6. signalingState \in {"stable", "have-local-offer", "have-remote-offer", "closed"}
      OBVIOUS
    <2> QED
      BY <2>1, <2>3, <2>4, <2>5, <2>6 DEF RestOK
  <1>5. TypeOK
    BY <1>1, <1>3, <1>4 DEF TypeOK, RestOK
  <1>6. Bare /\ Timed /\ Described
    BY <1>1 DEF Bare, Timed, Described
  <1>7. Untouched
    BY DEF Untouched
  <1>8. ToldWhileOpen
    BY DEF ToldWhileOpen
  <1>9. LiveTransports = {}
    BY <1>1 DEF LiveTransports
  <1> QED
    BY <1>5, <1>6, <1>7, <1>8, <1>9 DEF PeerInv, FailureReported

(* Described survives: no step shortens the m-lines, and a description has   *)
(* no more sections than it leaves m-lines.                                  *)
LEMMA PartsAgain ==
  ASSUME PeerInv, LinesStep, TransportsStep, UNCHANGED iceConnectionState,
         remoteLines' = remoteLines \/ remoteLines' <= Len(transceivers'),
         RestOK', ToldWhileOpen'
  PROVE  PeerInv'
  <1>1. /\ created' \in 0 .. MaxTransports
        /\ transceivers' \in Seq(LineType(created')) /\ Len(transceivers') <= MaxLines
        /\ transports' \in [1 .. MaxTransports -> TransportType]
        /\ Bare' /\ Untouched' /\ FailureReported'
    BY StepsKeep
  <1>2. TypeOK' /\ Timed'
    BY <1>1 DEF RestOK, TypeOK, Timed
  <1>3. Described'
    <2>1. /\ Len(transceivers) \in Nat /\ Len(transceivers') \in Nat
          /\ Len(transceivers) <= Len(transceivers')
      BY <1>1, LinesNow DEF LinesStep
    <2>2. remoteLines \in Nat /\ remoteLines <= Len(transceivers)
      BY BoundsAssumption DEF PeerInv, TypeOK, Described
    <2> QED
      BY <2>1, <2>2 DEF Described
  <1> QED
    BY <1>1, <1>2, <1>3 DEF PeerInv

LEMMA NextPeer == PeerInv /\ [Next]_vars => PeerInv'
  <1> SUFFICES ASSUME PeerInv, [Next]_vars PROVE PeerInv'
    OBVIOUS
  <1> USE RestTyped, ToldStep
  <1>1. ASSUME NEW t \in Tracks, NEW s \in Streams, AddTrack(t, s) PROVE PeerInv'
    <2>1. UNCHANGED <<transports, iceConnectionState, remoteLines>>
      BY <1>1 DEF AddTrack, svars, cvars
    <2>2. LinesStep
      BY <1>1, AddTrackLines
    <2> QED
      BY <2>1, <2>2, TransportsUnchanged, PartsAgain DEF LinesStep
  <1>2. ASSUME NEW i \in DOMAIN transceivers, RemoveTrack(i) PROVE PeerInv'
    <2>1. UNCHANGED <<transports, iceConnectionState, remoteLines>>
      BY <1>2 DEF RemoveTrack, svars, cvars
    <2>2. LinesStep
      BY <1>2, RemoveTrackLines
    <2> QED
      BY <2>1, <2>2, TransportsUnchanged, PartsAgain DEF LinesStep
  <1>3. ASSUME UNCHANGED <<mvars, iceConnectionState, remoteLines>> PROVE PeerInv'
    <2>1. LinesStep
      BY <1>3, LinesUnchanged DEF mvars
    <2>2. TransportsStep
      BY <1>3, <2>1, TransportsUnchanged DEF mvars, LinesStep
    <2> QED
      BY <1>3, <2>1, <2>2, PartsAgain
  <1>4. CASE NegotiationTimer
    BY <1>3, <1>4 DEF NegotiationTimer, svars, cvars
  <1>5. ASSUME NEW num, CreateOffer(num) PROVE PeerInv'
    <2>1. UNCHANGED <<transports, iceConnectionState, remoteLines>>
      BY <1>5 DEF CreateOffer, cvars
    <2>2. LinesStep
      BY <1>5, CreateOfferLines
    <2> QED
      BY <2>1, <2>2, TransportsUnchanged, PartsAgain DEF LinesStep
  <1>6. CASE CreateAnswer
    BY <1>3, <1>6 DEF CreateAnswer, cvars
  <1>7. CASE SetLocalOffer
    BY <1>3, <1>7 DEF SetLocalOffer, cvars
  <1>8. CASE SetLocalAnswer
    <2>1. UNCHANGED <<iceConnectionState, remoteLines>>
      BY <1>8 DEF SetLocalAnswer, cvars
    <2> QED
      BY <1>8, <2>1, SetLocalAnswerLines, SetLocalAnswerTransports, PartsAgain
  <1>9. ASSUME NEW type \in {"offer", "answer"}, NEW secs \in Sections(type),
               NEW bundle \in Bundle, NEW cands \in InSdp,
               SetRemoteDescription(type, secs, bundle, cands)
        PROVE  PeerInv'
    <2>1. UNCHANGED iceConnectionState
      BY <1>9 DEF SetRemoteDescription, cvars
    <2>2. LinesStep /\ remoteLines' <= Len(transceivers')
      BY <1>9, SetRemoteDescriptionLines
    <2> QED
      BY <1>9, <2>1, <2>2, SetRemoteDescriptionTransports, PartsAgain
  <1>10. ASSUME TRUE \in InSdp, NEW type \in {"offer", "answer"}, NEW secs \in Sections(type),
                NEW bundle \in Bundle, SetRemoteDescriptionThrows(type, secs, bundle)
         PROVE  PeerInv'
    <2>1. UNCHANGED <<iceConnectionState, remoteLines>>
      BY <1>10 DEF SetRemoteDescriptionThrows, cvars
    <2>2. LinesStep
      BY <1>10, ThrowsLines
    <2> QED
      BY <1>10, <2>1, <2>2, ThrowsTransports, PartsAgain
  <1>11. ASSUME UNCHANGED <<transceivers, created, iceConnectionState, remoteLines>>,
                TransportsStep
         PROVE  PeerInv'
    BY <1>11, LinesUnchanged, PartsAgain
  <1>12. ASSUME NEW c \in Candidates, NEW i \in DOMAIN transceivers, AddIceCandidate(c, i)
         PROVE  PeerInv'
    <2>1. UNCHANGED <<transceivers, created, iceConnectionState, remoteLines>>
      BY <1>12 DEF AddIceCandidate, svars, cvars
    <2> QED
      BY <1>11, <1>12, <2>1, AddIceCandidateTransports
  <1>13. CASE EndOfCandidates
    <2>1. UNCHANGED <<transceivers, created, iceConnectionState, remoteLines>>
      BY <1>13 DEF EndOfCandidates, svars, cvars
    <2> QED
      BY <1>11, <1>13, <2>1, EndOfCandidatesTransports
  <1>14. CASE FourSecondTimer
    <2>1. UNCHANGED <<transceivers, created, iceConnectionState, remoteLines>>
      BY <1>14 DEF FourSecondTimer, cvars
    <2> QED
      BY <1>11, <1>14, <2>1, FourSecondTimerTransports
  <1>15. CASE Close
    <2>1. UNCHANGED <<iceConnectionState, remoteLines>>
      BY <1>15 DEF Close, cvars
    <2> QED
      BY <1>15, <2>1, CloseLines, CloseTransports, PartsAgain
  <1>16. ASSUME NEW t \in 1 .. created,
                NEW s \in {"connected", "completed", "disconnected", "failed"},
                IceStateChange(t, s)
         PROVE  PeerInv'
    <2>1. UNCHANGED <<transceivers, created, remoteLines>>
      BY <1>16 DEF IceStateChange, svars
    <2>2. /\ transports' \in [1 .. MaxTransports -> TransportType]
          /\ Bare' /\ Untouched' /\ FailureReported'
      BY <1>16, IceStateChangeKeeps
    <2>3. TypeOK' /\ Timed'
      <3>1. LinesStep
        BY <2>1, LinesUnchanged
      <3>2. created' \in 0 .. MaxTransports
        BY <3>1, LinesNow, BoundsAssumption DEF LinesStep
      <3> QED
        BY <2>2, <3>1, <3>2 DEF LinesStep, RestOK, TypeOK, Timed
    <2>4. Described'
      BY <2>1 DEF PeerInv, Described
    <2> QED
      BY <2>2, <2>3, <2>4 DEF PeerInv
  <1>17. ASSUME NEW t \in 1 .. created, NEW s \in {"connected", "failed"}, DtlsStateChange(t, s)
         PROVE  PeerInv'
    <2>1. UNCHANGED <<transceivers, created, iceConnectionState, remoteLines>>
      BY <1>17 DEF DtlsStateChange, UpdateConnectionState, svars
    <2> QED
      BY <1>11, <1>17, <2>1, DtlsStateChangeTransports
  <1>18. CASE UNCHANGED vars
    BY <1>3, <1>18 DEF vars, mvars, svars, cvars
  <1> QED
    BY <1>1, <1>2, <1>4, <1>5, <1>6, <1>7, <1>8, <1>9, <1>10, <1>12, <1>13, <1>14, <1>15,
       <1>16, <1>17, <1>18 DEF Next

(* _updateConnectionState and its kin: in any connection, with any number of *)
(* m-lines, transports, descriptions and events, whatever is rejected and    *)
(* wherever a description fails, the m-lines are well formed, the            *)
(* application has been told the states, and it hears of a failure.          *)
THEOREM ToldCorrect == Spec => []ToldRight
  <1>1. PeerInv => ToldRight
    BY DEF PeerInv, ToldRight
  <1> QED
    BY <1>1, InitPeer, NextPeer, PTL DEF Spec

-----------------------------------------------------------------------------
(* Agreement of m-lines, tracks and transports, as long as the remote peer   *)
(* has rejected nothing.                                                     *)

(* Each m-line has a transport, and a track exactly with its stream.         *)
Complete ==
  \A i \in DOMAIN transceivers :
    /\ ~transceivers[i].rejected /\ transceivers[i].tp # 0
    /\ transceivers[i].track = None <=> transceivers[i].stream = None

(* No description has more sections than there are m-lines.                  *)
CountsFit == {localLines, remoteLines, mlines, pending.lines} \subseteq 0 .. Len(transceivers)

(* Agreed m-lines run on started transports in every state, not only when    *)
(* the signalling state is stable.                                           *)
AgreedStarted == \A i \in 1 .. mlines : HasStarted(transceivers[i].tp)

(* What sends has started, and so has the first m-line, whose transport a    *)
(* later description may make it share.                                      *)
SendersStarted ==
  \A i \in DOMAIN transceivers :
    transceivers[i].sending => HasStarted(transceivers[i].tp) /\ HasStarted(transceivers[1].tp)

(* An offer with BUNDLE that waits for its answer has its m-lines together.  *)
OfferBundled ==
  (signalingState = "have-remote-offer" /\ usingBundle) =>
    \A i \in 1 .. remoteLines : transceivers[i].tp = transceivers[1].tp

FitInv == /\ Complete /\ CountsFit /\ LocalStreamsOfTracks
          /\ AgreedStarted /\ SendersStarted /\ OfferBundled /\ BundledTogether

AgreeInv == PeerInv /\ (~refused => FitInv)

(* What most steps do to the m-lines: transports stay, nobody starts to send.*)
LinesPlain ==
  /\ Len(transceivers) <= Len(transceivers')
  /\ \A i \in DOMAIN transceivers' : ~transceivers'[i].rejected /\ transceivers'[i].tp # 0
  /\ \A i \in DOMAIN transceivers :
       /\ transceivers'[i].tp = transceivers[i].tp
       /\ transceivers'[i].sending => transceivers[i].sending
  /\ \A i \in DOMAIN transceivers' \ DOMAIN transceivers : ~transceivers'[i].sending

(* No transport is new again.                                                *)
GoingOn == \A t \in 1 .. MaxTransports : HasStarted(t) => HasStarted(t)'

(* Tracks and streams stay where they are, new m-lines have none.            *)
TracksStay ==
  /\ Len(transceivers) <= Len(transceivers')
  /\ \A i \in DOMAIN transceivers' :
       IF i \in DOMAIN transceivers
       THEN /\ transceivers'[i].track = transceivers[i].track
            /\ transceivers'[i].stream = transceivers[i].stream
       ELSE transceivers'[i].track = None /\ transceivers'[i].stream = None

(* The part of FitInv about tracks.                                          *)
Paired == \A i \in DOMAIN transceivers :
            transceivers[i].track = None <=> transceivers[i].stream = None

LEMMA FitFacts ==
  ASSUME PeerInv, FitInv
  PROVE  /\ Len(transceivers) \in Nat /\ DOMAIN transceivers = 1 .. Len(transceivers)
         /\ \A i \in DOMAIN transceivers : transceivers[i].tp \in 1 .. MaxTransports
         /\ mlines \in 0 .. Len(transceivers) /\ remoteLines \in 0 .. Len(transceivers)
         /\ localLines \in 0 .. Len(transceivers) /\ pending.lines \in 0 .. Len(transceivers)
  <1>1. Len(transceivers) \in Nat /\ DOMAIN transceivers = 1 .. Len(transceivers)
    BY LinesNow
  <1>2. \A i \in DOMAIN transceivers : transceivers[i].tp \in 1 .. MaxTransports
    BY OneLine DEF FitInv, Complete
  <1> QED
    BY <1>1, <1>2 DEF FitInv, CountsFit

LEMMA StreamsStay ==
  ASSUME PeerInv, LinesStep, FitInv, TracksStay, UNCHANGED localStreams
  PROVE  Paired' /\ LocalStreamsOfTracks'
  <1>1. /\ Len(transceivers) \in Nat /\ DOMAIN transceivers = 1 .. Len(transceivers)
        /\ Len(transceivers') \in Nat /\ DOMAIN transceivers' = 1 .. Len(transceivers')
    BY LinesNow DEF LinesStep
  <1>2. DOMAIN transceivers \subseteq DOMAIN transceivers'
    BY <1>1 DEF TracksStay
  <1>3. Paired'
    BY DEF FitInv, Complete, Paired, TracksStay
  <1>4. {transceivers'[i].stream : i \in DOMAIN transceivers'} \ {None} =
          {transceivers[i].stream : i \in DOMAIN transceivers} \ {None}
    BY <1>2 DEF TracksStay
  <1> QED
    BY <1>3, <1>4 DEF FitInv, LocalStreamsOfTracks

(* A step that leaves agreements and transports of m-lines alone.            *)
LEMMA PlainKeeps ==
  ASSUME PeerInv, LinesStep, FitInv, LinesPlain, GoingOn,
         UNCHANGED <<mlines, remoteLines, usingBundle>>,
         {localLines', pending'.lines} \subseteq 0 .. Len(transceivers'),
         signalingState' \in {signalingState, "have-local-offer", "closed"},
         Paired', LocalStreamsOfTracks'
  PROVE  FitInv'
  <1>1. /\ Len(transceivers) \in Nat /\ DOMAIN transceivers = 1 .. Len(transceivers)
        /\ Len(transceivers') \in Nat /\ DOMAIN transceivers' = 1 .. Len(transceivers')
        /\ Len(transceivers) <= Len(transceivers')
    BY LinesNow DEF LinesStep
  <1>2. /\ \A i \in DOMAIN transceivers : transceivers[i].tp \in 1 .. MaxTransports
        /\ mlines \in 0 .. Len(transceivers) /\ remoteLines \in 0 .. Len(transceivers)
    BY FitFacts
  <1>3. ASSUME NEW i \in DOMAIN transceivers, HasStarted(transceivers[i].tp)
        PROVE  HasStarted(transceivers[i].tp)'
    <2>1. transceivers'[i].tp = transceivers[i].tp
      BY DEF LinesPlain
    <2> QED
      BY <1>2, <1>3, <2>1 DEF GoingOn, HasStarted
  <1>4. Complete'
    BY DEF LinesPlain, Complete, Paired
  <1>5. CountsFit'
    BY <1>1, <1>2 DEF CountsFit
  <1>6. AgreedStarted'
    BY <1>1, <1>2, <1>3 DEF FitInv, AgreedStarted
  <1>7. SendersStarted'
    <2> SUFFICES ASSUME NEW i \in DOMAIN transceivers', transceivers'[i].sending
                 PROVE  HasStarted(transceivers[i].tp)' /\ HasStarted(transceivers[1].tp)'
      BY DEF SendersStarted
    <2>1. i \in DOMAIN transceivers /\ transceivers[i].sending
      BY DEF LinesPlain
    <2>2. 1 \in DOMAIN transceivers
      BY <1>1, <2>1
    <2> QED
      BY <1>3, <2>1, <2>2 DEF FitInv, SendersStarted
  <1>8. OfferBundled' /\ BundledTogether'
    <2>1. \A i \in DOMAIN transceivers : transceivers'[i].tp = transceivers[i].tp
      BY DEF LinesPlain
    <2>2. \A i \in 1 .. remoteLines : i \in DOMAIN transceivers /\ 1 \in DOMAIN transceivers
      BY <1>1, <1>2
    <2>3. \A i \in 1 .. mlines : i \in DOMAIN transceivers /\ 1 \in DOMAIN transceivers
      BY <1>1, <1>2
    <2>4. OfferBundled'
      BY <2>1, <2>2 DEF FitInv, OfferBundled
    <2>5. BundledTogether'
      BY <2>1, <2>3 DEF FitInv, BundledTogether
    <2> QED
      BY <2>4, <2>5
  <1> QED
    BY <1>4, <1>5, <1>6, <1>7, <1>8 DEF FitInv

LEMMA GoesOn ==
  ASSUME \A t \in 1 .. MaxTransports :
           /\ transports'[t].ice = "new" => transports[t].ice = "new"
           /\ transports'[t].dtls = "new" => transports[t].dtls = "new"
  PROVE  GoingOn
  BY DEF GoingOn, HasStarted

LEMMA ChangesGoOn ==
  ASSUME NEW x \in TransportType
  PROVE  /\ Started(x).ice # "new" /\ Started(x).dtls # "new"
         /\ End(x).ice = x.ice /\ End(x).dtls = x.dtls
  <1>1. Started(x).ice # "new" /\ Started(x).dtls # "new"
    BY DEF TransportType, Started
  <1>2. End(x).ice = x.ice /\ End(x).dtls = x.dtls
    BY DEF TransportType, End
  <1> QED
    BY <1>1, <1>2

(* The steps that touch transports and leave the agreement alone.            *)
LEMMA TransportsGoOn ==
  ASSUME PeerInv
  PROVE  /\ SetLocalAnswer => GoingOn
         /\ \A c \in Candidates, i \in DOMAIN transceivers : AddIceCandidate(c, i) => GoingOn
         /\ EndOfCandidates => GoingOn
         /\ FourSecondTimer => GoingOn
         /\ Close => GoingOn
         /\ \A t \in 1 .. created, s \in {"connected", "completed", "disconnected", "failed"} :
              IceStateChange(t, s) => GoingOn
         /\ \A t \in 1 .. created, s \in {"connected", "failed"} :
              DtlsStateChange(t, s) => GoingOn
  <1>1. /\ DOMAIN transports = 1 .. MaxTransports
        /\ transports \in [1 .. MaxTransports -> TransportType]
    BY DEF PeerInv, TypeOK
  <1>2. \A t \in 1 .. MaxTransports : transports[t] \in TransportType
    BY <1>1
  <1>3. ASSUME NEW S, transports' = [t \in DOMAIN transports |->
                        IF t \in S THEN Started(transports[t]) ELSE transports[t]]
        PROVE  GoingOn
    BY <1>1, <1>2, <1>3, ChangesGoOn, GoesOn
  <1>4. ASSUME NEW S, transports' = [t \in DOMAIN transports |->
                        IF t \in S THEN End(transports[t]) ELSE transports[t]]
        PROVE  GoingOn
    BY <1>1, <1>2, <1>4, ChangesGoOn, GoesOn
  <1>5. CASE SetLocalAnswer
    <2> DEFINE S == {transceivers[i].tp : i \in
                      {j \in {i \in 1 .. remoteLines : ~transceivers[i].rejected} :
                         j = 1 \/ ~usingBundle}}
    <2>1. transports' = [t \in DOMAIN transports |->
                          IF t \in S THEN Started(transports[t]) ELSE transports[t]]
      BY <1>5 DEF SetLocalAnswer
    <2> HIDE DEF S
    <2> QED
      BY <1>3, <2>1
  <1>6. ASSUME NEW c, NEW i, AddIceCandidate(c, i) PROVE GoingOn
    <2> DEFINE u == transceivers[i].tp
    <2>1. transports' = [transports EXCEPT ![u].remote = @ \cup {c}]
      BY <1>6 DEF AddIceCandidate
    <2> HIDE DEF u
    <2>2. ASSUME NEW t \in 1 .. MaxTransports
          PROVE  transports'[t].ice = transports[t].ice /\ transports'[t].dtls = transports[t].dtls
      <3>1. CASE t = u
        <4>1. transports'[t] = [transports[t] EXCEPT !.remote = @ \cup {c}]
          BY <1>1, <2>1, <3>1
        <4> QED
          BY <1>2, <4>1 DEF TransportType
      <3>2. CASE t # u
        BY <1>1, <2>1, <3>2
      <3> QED
        BY <3>1, <3>2
    <2> QED
      BY <2>2, GoesOn
  <1>7. CASE EndOfCandidates
    <2> DEFINE live == {i \in DOMAIN transceivers : ~transceivers[i].rejected}
               S == {transceivers[i].tp : i \in IF usingBundle /\ live # {} THEN {Min(live)} ELSE live}
    <2>1. transports' = [t \in DOMAIN transports |->
                          IF t \in S THEN End(transports[t]) ELSE transports[t]]
      BY <1>7 DEF EndOfCandidates
    <2> HIDE DEF S
    <2> QED
      BY <1>4, <2>1
  <1>8. CASE FourSecondTimer
    <2> DEFINE S == {t \in {transceivers[i].tp : i \in DOMAIN transceivers} :
                       transports[t].ice = "new" /\ transports[t].remote # {}}
    <2>1. transports' = [t \in DOMAIN transports |->
                          IF t \in S THEN End(transports[t]) ELSE transports[t]]
      BY <1>8 DEF FourSecondTimer
    <2> HIDE DEF S
    <2> QED
      BY <1>4, <2>1
  <1>9. CASE Close
    <2> DEFINE S == {transceivers[i].tp : i \in DOMAIN transceivers}
    <2>1. transports' = [t \in DOMAIN transports |->
            IF t \in S THEN [transports[t] EXCEPT !.ice = "closed", !.dtls = "closed"]
            ELSE transports[t]]
      BY <1>9 DEF Close
    <2> HIDE DEF S
    <2>2. ASSUME NEW x \in TransportType
          PROVE  LET y == [x EXCEPT !.ice = "closed", !.dtls = "closed"]
                 IN y.ice # "new" /\ y.dtls # "new"
      BY DEF TransportType
    <2> QED
      BY <1>1, <1>2, <2>1, <2>2, GoesOn
  <1>10. ASSUME NEW t, NEW s \in {"connected", "completed", "disconnected", "failed"},
                IceStateChange(t, s)
         PROVE  GoingOn
    <2>1. transports' = [transports EXCEPT ![t].ice = s] /\ s # "new"
      BY <1>10 DEF IceStateChange
    <2>2. ASSUME NEW u \in 1 .. MaxTransports
          PROVE  /\ transports'[u].ice = "new" => transports[u].ice = "new"
                 /\ transports'[u].dtls = transports[u].dtls
      <3>1. CASE t = u
        <4>1. transports'[u] = [transports[u] EXCEPT !.ice = s]
          BY <1>1, <2>1, <3>1
        <4> QED
          BY <1>2, <2>1, <4>1 DEF TransportType
      <3>2. CASE t # u
        BY <1>1, <2>1, <3>2
      <3> QED
        BY <3>1, <3>2
    <2> QED
      BY <2>2, GoesOn
  <1>11. ASSUME NEW t, NEW s \in {"connected", "failed"}, DtlsStateChange(t, s)
         PROVE  GoingOn
    <2>1. transports' = [transports EXCEPT ![t].dtls = s] /\ s # "new"
      BY <1>11 DEF DtlsStateChange
    <2>2. ASSUME NEW u \in 1 .. MaxTransports
          PROVE  /\ transports'[u].dtls = "new" => transports[u].dtls = "new"
                 /\ transports'[u].ice = transports[u].ice
      <3>1. CASE t = u
        <4>1. transports'[u] = [transports[u] EXCEPT !.dtls = s]
          BY <1>1, <2>1, <3>1
        <4> QED
          BY <1>2, <2>1, <4>1 DEF TransportType
      <3>2. CASE t # u
        BY <1>1, <2>1, <3>2
      <3> QED
        BY <3>1, <3>2
    <2> QED
      BY <2>2, GoesOn
  <1> QED
    BY <1>5, <1>6, <1>7, <1>8, <1>9, <1>10, <1>11

(* The m-lines there are, unchanged but for marks, and new ones after them.  *)
Extends(q) ==
  /\ DOMAIN transceivers \subseteq DOMAIN q
  /\ \A i \in DOMAIN q : ~q[i].rejected /\ q[i].tp # 0
  /\ \A i \in DOMAIN transceivers :
       /\ q[i].tp = transceivers[i].tp /\ q[i].sending = transceivers[i].sending
       /\ q[i].track = transceivers[i].track /\ q[i].stream = transceivers[i].stream
  /\ \A i \in DOMAIN q \ DOMAIN transceivers :
       q[i].track = None /\ q[i].stream = None /\ ~q[i].sending

LEMMA ExtendsNow ==
  ASSUME FitInv
  PROVE  Extends(transceivers)
  BY DEF Extends, FitInv, Complete

(* _createTransceiver adds an m-line that has a transport.                   *)
LEMMA AddedExtends ==
  ASSUME PeerInv, FitInv, NEW n \in Nat, NEW q \in Seq(LineType(n)), NEW kind \in Kinds,
         Extends(q)
  PROVE  Extends(WithNew(q, kind, n))
  <1> DEFINE w == WithNew(q, kind, n)
             tp == IF Shares(q) THEN q[1].tp ELSE n + 1
             b == Blank(kind, tp)
  <1>1. /\ w \in Seq(LineType(CountNew(q, n))) /\ Len(w) = Len(q) + 1
        /\ \A i \in DOMAIN q : w[i] = q[i]
        /\ w[Len(q) + 1] = b
    BY WithNewTyped
  <1>2. tp # 0
    <2>1. CASE Shares(q)
      <3>1. 1 \in DOMAIN q
        BY <2>1 DEF Shares
      <3> QED
        BY <2>1, <3>1 DEF Extends
    <2>2. CASE ~Shares(q)
      BY <2>2
    <2> QED
      BY <2>1, <2>2
  <1>3. ~b.rejected /\ b.tp = tp /\ b.track = None /\ b.stream = None /\ ~b.sending
    BY DEF Blank
  <1>4. DOMAIN q = 1 .. Len(q) /\ Len(q) \in Nat /\ DOMAIN w = 1 .. Len(q) + 1
    BY <1>1
  <1> HIDE DEF w, b, tp
  <1>5. /\ DOMAIN q \subseteq DOMAIN w /\ Len(q) + 1 \notin DOMAIN q
        /\ \A i \in DOMAIN w : i \in DOMAIN q \/ i = Len(q) + 1
    BY <1>4
  <1>6. DOMAIN transceivers \subseteq DOMAIN w
    BY <1>5 DEF Extends
  <1>7. \A i \in DOMAIN w : ~w[i].rejected /\ w[i].tp # 0
    BY <1>1, <1>2, <1>3, <1>5 DEF Extends
  <1>8. \A i \in DOMAIN transceivers :
          /\ w[i].tp = transceivers[i].tp /\ w[i].sending = transceivers[i].sending
          /\ w[i].track = transceivers[i].track /\ w[i].stream = transceivers[i].stream
    BY <1>1, <1>5 DEF Extends
  <1>9. \A i \in DOMAIN w \ DOMAIN transceivers :
          w[i].track = None /\ w[i].stream = None /\ ~w[i].sending
    BY <1>1, <1>3, <1>5 DEF Extends
  <1> QED
    BY <1>6, <1>7, <1>8, <1>9 DEF w, Extends

LEMMA ExtendsPlain ==
  ASSUME PeerInv, LinesStep, Extends(transceivers')
  PROVE  LinesPlain /\ TracksStay
  <1>1. Len(transceivers) <= Len(transceivers')
    BY DEF LinesStep
  <1> QED
    BY <1>1 DEF Extends, LinesPlain, TracksStay

LEMMA GoingOnUnchanged ==
  ASSUME UNCHANGED transports
  PROVE  GoingOn
  BY DEF GoingOn, HasStarted

(* The steps that leave the m-lines as they are.                             *)
LEMMA FitUnchanged ==
  ASSUME PeerInv, FitInv, GoingOn,
         UNCHANGED <<transceivers, created, localStreams, mlines, remoteLines, usingBundle>>,
         {localLines', pending'.lines} \subseteq 0 .. Len(transceivers),
         signalingState' \in {signalingState, "have-local-offer", "closed"}
  PROVE  FitInv'
  <1>1. LinesStep
    BY LinesUnchanged
  <1>2. LinesPlain /\ TracksStay
    BY <1>1, ExtendsNow, ExtendsPlain
  <1>3. Paired' /\ LocalStreamsOfTracks'
    BY <1>1, <1>2, StreamsStay
  <1> QED
    BY <1>1, <1>2, <1>3, PlainKeeps

LEMMA AddTrackFits ==
  ASSUME PeerInv, FitInv, NEW t \in Tracks, NEW s \in Streams, AddTrack(t, s)
  PROVE  FitInv'
  <1> DEFINE free == {i \in DOMAIN transceivers :
                       transceivers[i].track = None /\ transceivers[i].kind = KindOf(t)}
             extended == IF free = {} THEN WithNew(transceivers, KindOf(t), created)
                         ELSE transceivers
             i == IF free = {} THEN Len(extended) ELSE Max(free)
             n == IF free = {} THEN CountNew(transceivers, created) ELSE created
  <1>1. /\ transceivers' = [extended EXCEPT ![i].track = t, ![i].stream = s, ![i].sending = FALSE]
        /\ localStreams' = localStreams \cup {s}
        /\ UNCHANGED <<transports, svars>>
    BY DEF AddTrack
  <1>2. KindOf(t) \in Kinds /\ t # None /\ s # None
    BY NoneAssumption DEF KindOf, Kinds
  <1>3. LinesStep
    BY AddTrackLines
  <1>4. extended \in Seq(LineType(n)) /\ Extends(extended)
    <2>1. CASE free = {}
      BY <1>2, <2>1, LinesNow, WithNewTyped, ExtendsNow, AddedExtends
    <2>2. CASE free # {}
      BY <2>2, LinesNow, ExtendsNow
    <2> QED
      BY <2>1, <2>2
  <1>5. i \in DOMAIN extended /\ extended[i].track = None /\ extended[i].stream = None
    <2>1. CASE free = {}
      <3>1. Len(extended) = Len(transceivers) + 1 /\ Len(transceivers) \in Nat
        BY <1>2, <2>1, LinesNow, WithNewTyped
      <3>2. i \in DOMAIN extended \ DOMAIN transceivers
        BY <1>4, <2>1, <3>1, LinesNow
      <3> QED
        BY <1>4, <3>2 DEF Extends
    <2>2. CASE free # {}
      <3>1. Len(transceivers) \in Nat /\ free \in SUBSET (0 .. Len(transceivers))
        BY LinesNow
      <3>2. i \in free
        BY <2>2, <3>1, MaxIsLargest
      <3> QED
        BY <2>2, <3>2 DEF FitInv, Complete
    <2> QED
      BY <2>1, <2>2
  <1> HIDE DEF extended, i, n
  <1>6. /\ DOMAIN transceivers' = DOMAIN extended
        /\ \A j \in DOMAIN extended \ {i} : transceivers'[j] = extended[j]
        /\ transceivers'[i] = [extended[i] EXCEPT !.track = t, !.stream = s, !.sending = FALSE]
    BY <1>1, <1>5
  <1>7. /\ transceivers'[i].track = t /\ transceivers'[i].stream = s
        /\ ~transceivers'[i].sending
        /\ transceivers'[i].tp = extended[i].tp
        /\ transceivers'[i].rejected = extended[i].rejected
    <2>1. extended[i] \in LineType(n)
      BY <1>4, <1>5
    <2> QED
      BY <1>6, <2>1 DEF LineType
  <1>8. LinesPlain
    <2>1. Len(transceivers) <= Len(transceivers')
      BY <1>3 DEF LinesStep
    <2>2. ASSUME NEW j \in DOMAIN transceivers'
          PROVE  ~transceivers'[j].rejected /\ transceivers'[j].tp # 0
      <3>1. j \in DOMAIN extended /\ ~extended[j].rejected /\ extended[j].tp # 0
        BY <1>4, <1>6 DEF Extends
      <3>2. CASE j = i
        BY <1>7, <3>1, <3>2
      <3>3. CASE j # i
        BY <1>6, <3>1, <3>3
      <3> QED
        BY <3>2, <3>3
    <2>3. ASSUME NEW j \in DOMAIN transceivers
          PROVE  /\ transceivers'[j].tp = transceivers[j].tp
                 /\ transceivers'[j].sending => transceivers[j].sending
      <3>1. /\ j \in DOMAIN extended /\ extended[j].tp = transceivers[j].tp
            /\ extended[j].sending = transceivers[j].sending
        BY <1>4 DEF Extends
      <3>2. CASE j = i
        BY <1>7, <3>1, <3>2
      <3>3. CASE j # i
        BY <1>6, <3>1, <3>3
      <3> QED
        BY <3>2, <3>3
    <2>4. \A j \in DOMAIN transceivers' \ DOMAIN transceivers : ~transceivers'[j].sending
      BY <1>4, <1>6, <1>7 DEF Extends
    <2> QED
      BY <2>1, <2>2, <2>3, <2>4 DEF LinesPlain
  <1>9. Paired'
    <2> SUFFICES ASSUME NEW j \in DOMAIN transceivers'
                 PROVE  transceivers'[j].track = None <=> transceivers'[j].stream = None
      BY DEF Paired
    <2>1. CASE j = i
      BY <1>2, <1>7, <2>1
    <2>2. CASE j # i /\ j \in DOMAIN transceivers
      BY <1>4, <1>6, <2>2 DEF Extends, FitInv, Complete
    <2>3. CASE j # i /\ j \notin DOMAIN transceivers
      BY <1>4, <1>6, <2>3 DEF Extends
    <2> QED
      BY <2>1, <2>2, <2>3
  <1>10. LocalStreamsOfTracks'
    <2>1. {transceivers'[j].stream : j \in DOMAIN transceivers'} \ {None} =
            ({extended[j].stream : j \in DOMAIN extended} \ {None}) \cup {s}
      <3>1. ASSUME NEW x
            PROVE  x \in {transceivers'[j].stream : j \in DOMAIN transceivers'} \ {None} <=>
                   x \in ({extended[j].stream : j \in DOMAIN extended} \ {None}) \cup {s}
        <4>1. CASE x = s
          BY <1>2, <1>5, <1>6, <1>7, <4>1
        <4>2. CASE x = None
          BY <1>2, <4>2
        <4>3. ASSUME x # s, x # None, NEW j \in DOMAIN extended
              PROVE  transceivers'[j].stream = x <=> extended[j].stream = x
          <5>1. CASE j = i
            BY <1>5, <1>7, <4>3, <5>1
          <5>2. CASE j # i
            BY <1>6, <5>2
          <5> QED
            BY <5>1, <5>2
        <4> QED
          BY <1>6, <4>1, <4>2, <4>3
      <3> QED
        BY <3>1
    <2>2. {extended[j].stream : j \in DOMAIN extended} \ {None} =
            {transceivers[j].stream : j \in DOMAIN transceivers} \ {None}
      BY <1>4 DEF Extends
    <2> QED
      BY <1>1, <2>1, <2>2 DEF FitInv, LocalStreamsOfTracks
  <1>11. {localLines', pending'.lines} \subseteq 0 .. Len(transceivers')
    <2>1. Len(transceivers) \in Nat /\ Len(transceivers') \in Nat
          /\ Len(transceivers) <= Len(transceivers')
      BY <1>3, LinesNow DEF LinesStep
    <2> QED
      BY <1>1, <2>1, FitFacts DEF svars
  <1> QED
    BY <1>1, <1>3, <1>8, <1>9, <1>10, <1>11, GoingOnUnchanged, PlainKeeps DEF svars

LEMMA RemoveTrackFits ==
  ASSUME PeerInv, FitInv, NEW i \in DOMAIN transceivers, RemoveTrack(i)
  PROVE  FitInv'
  <1> DEFINE s == transceivers[i].stream
             left == [transceivers EXCEPT ![i].track = None, ![i].stream = None, ![i].sending = FALSE]
  <1>1. /\ transceivers' = left /\ transceivers[i].track # None
        /\ localStreams' = IF \E j \in DOMAIN left : left[j].stream = s
                           THEN localStreams ELSE localStreams \ {s}
        /\ UNCHANGED <<transports, svars>>
    BY DEF RemoveTrack
  <1>2. LinesStep
    BY RemoveTrackLines
  <1>3. s # None
    BY <1>1 DEF FitInv, Complete
  <1>4. /\ DOMAIN left = DOMAIN transceivers
        /\ \A j \in DOMAIN transceivers \ {i} : left[j] = transceivers[j]
        /\ left[i] = [transceivers[i] EXCEPT !.track = None, !.stream = None, !.sending = FALSE]
    OBVIOUS
  <1> HIDE DEF left
  <1>5. /\ left[i].track = None /\ left[i].stream = None /\ ~left[i].sending
        /\ left[i].tp = transceivers[i].tp /\ left[i].rejected = transceivers[i].rejected
    <2>1. transceivers[i] \in LineType(created)
      BY OneLine
    <2> QED
      BY <1>4, <2>1 DEF LineType
  <1>6. LinesPlain
    <2>1. Len(transceivers) <= Len(transceivers')
      BY <1>2 DEF LinesStep
    <2>2. \A j \in DOMAIN transceivers :
            /\ ~left[j].rejected /\ left[j].tp # 0
            /\ left[j].tp = transceivers[j].tp
            /\ left[j].sending => transceivers[j].sending
      BY <1>4, <1>5 DEF FitInv, Complete
    <2> QED
      BY <1>1, <1>4, <2>1, <2>2 DEF LinesPlain
  <1>7. Paired'
    BY <1>1, <1>4, <1>5 DEF Paired, FitInv, Complete
  <1>8. LocalStreamsOfTracks'
    <2>1. ASSUME NEW x, x # None
          PROVE  (x \in {left[j].stream : j \in DOMAIN left}) <=>
                   \E j \in DOMAIN transceivers \ {i} : transceivers[j].stream = x
      BY <1>4, <1>5, <2>1
    <2>2. localStreams = {transceivers[j].stream : j \in DOMAIN transceivers} \ {None}
      BY DEF FitInv, LocalStreamsOfTracks
    <2>3. ASSUME NEW x
          PROVE  x \in localStreams' <=> x \in {left[j].stream : j \in DOMAIN left} \ {None}
      <3>1. CASE x = None
        BY <1>1, <2>2, <3>1
      <3>2. CASE x = s
        BY <1>1, <1>3, <2>1, <2>2, <3>2
      <3>3. CASE x # None /\ x # s
        BY <1>1, <2>1, <2>2, <3>3
      <3> QED
        BY <3>1, <3>2, <3>3
    <2> QED
      BY <1>1, <2>3 DEF LocalStreamsOfTracks
  <1>9. {localLines', pending'.lines} \subseteq 0 .. Len(transceivers')
    <2>1. Len(transceivers) \in Nat /\ Len(transceivers') \in Nat
          /\ Len(transceivers) <= Len(transceivers')
      BY <1>2, LinesNow DEF LinesStep
    <2> QED
      BY <1>1, <2>1, FitFacts DEF svars
  <1> QED
    BY <1>1, <1>2, <1>6, <1>7, <1>8, <1>9, GoingOnUnchanged, PlainKeeps DEF svars

LEMMA CreateOfferFits ==
  ASSUME PeerInv, FitInv, NEW num, CreateOffer(num)
  PROVE  FitInv'
  <1> DEFINE wants == [i \in DOMAIN transceivers |->
                         [transceivers[i] EXCEPT !.want = Wanted(i, num)]]
             a == num["audio"] > Cardinality(OfKind("audio"))
             v == num["video"] > Cardinality(OfKind("video"))
             withA == IF a THEN WithNew(wants, "audio", created) ELSE wants
             createdA == IF a THEN CountNew(wants, created) ELSE created
             withV == IF v THEN WithNew(withA, "video", createdA) ELSE withA
             n == IF v THEN CountNew(withA, createdA) ELSE createdA
             r(i) == IF withV[i].want THEN "idle" ELSE withV[i].recv
             done == [i \in DOMAIN withV |-> [withV[i] EXCEPT !.gath = TRUE, !.recv = r(i)]]
  <1>1. /\ transceivers' = done /\ Len(withV) \in Lines
        /\ pending'.lines \in {0, Len(withV)}
        /\ UNCHANGED <<transports, signalingState, usingBundle, localLines, remoteLines, mlines,
                       localStreams>>
    BY DEF CreateOffer, evars
  <1>2. LinesStep
    BY CreateOfferLines
  <1>3. created \in Nat /\ wants \in Seq(LineType(created)) /\ Extends(wants)
    <2>1. created \in Nat /\ transceivers \in Seq(LineType(created))
      BY LinesNow
    <2>2. ASSUME NEW i \in DOMAIN transceivers
          PROVE  /\ wants[i] \in LineType(created) /\ wants[i].tp = transceivers[i].tp
                 /\ wants[i].rejected = transceivers[i].rejected
                 /\ wants[i].sending = transceivers[i].sending
                 /\ wants[i].track = transceivers[i].track
                 /\ wants[i].stream = transceivers[i].stream
      <3>1. Wanted(i, num) \in BOOLEAN
        BY DEF Wanted
      <3>2. transceivers[i] \in LineType(created)
        BY <2>1
      <3> QED
        BY <3>1, <3>2 DEF LineType
    <2>3. DOMAIN wants = DOMAIN transceivers /\ wants = [i \in DOMAIN transceivers |-> wants[i]]
      OBVIOUS
    <2> HIDE DEF wants
    <2>4. wants \in Seq(LineType(created))
      <3>1. wants \in [1 .. Len(transceivers) -> LineType(created)] /\ Len(transceivers) \in Nat
        BY <2>1, <2>2, <2>3
      <3> QED
        BY <3>1
    <2> QED
      BY <2>1, <2>2, <2>3, <2>4 DEF Extends, FitInv, Complete
  <1> HIDE DEF wants
  <1>4. createdA \in Nat /\ withA \in Seq(LineType(createdA)) /\ Extends(withA)
    BY <1>3, WithNewTyped, AddedExtends DEF Kinds
  <1> HIDE DEF withA, createdA
  <1>5. withV \in Seq(LineType(n)) /\ Extends(withV)
    BY <1>4, WithNewTyped, AddedExtends DEF Kinds
  <1> HIDE DEF withV, n
  <1>6. Extends(done) /\ DOMAIN done = 1 .. Len(withV)
    <2>1. ASSUME NEW i \in DOMAIN withV
          PROVE  /\ done[i].tp = withV[i].tp /\ done[i].rejected = withV[i].rejected
                 /\ done[i].sending = withV[i].sending
                 /\ done[i].track = withV[i].track /\ done[i].stream = withV[i].stream
      <3>1. withV[i] \in LineType(n)
        BY <1>5
      <3>2. done[i] = [withV[i] EXCEPT !.gath = TRUE, !.recv = r(i)]
        OBVIOUS
      <3> HIDE DEF done, r
      <3> QED
        BY <3>1, <3>2 DEF LineType
    <2>2. DOMAIN done = DOMAIN withV /\ DOMAIN withV = 1 .. Len(withV)
      BY <1>5
    <2> HIDE DEF done
    <2>3. DOMAIN transceivers \subseteq DOMAIN done
      BY <1>5, <2>2 DEF Extends
    <2>4. \A i \in DOMAIN done : ~done[i].rejected /\ done[i].tp # 0
      BY <1>5, <2>1, <2>2 DEF Extends
    <2>5. \A i \in DOMAIN transceivers :
            /\ done[i].tp = transceivers[i].tp /\ done[i].sending = transceivers[i].sending
            /\ done[i].track = transceivers[i].track /\ done[i].stream = transceivers[i].stream
      BY <1>5, <2>1, <2>2 DEF Extends
    <2>6. \A i \in DOMAIN done \ DOMAIN transceivers :
            done[i].track = None /\ done[i].stream = None /\ ~done[i].sending
      BY <1>5, <2>1, <2>2 DEF Extends
    <2> QED
      BY <2>2, <2>3, <2>4, <2>5, <2>6 DEF Extends
  <1> HIDE DEF done
  <1>7. Extends(transceivers') /\ Len(transceivers') = Len(withV)
    <2>1. DOMAIN transceivers' = 1 .. Len(withV) /\ Len(withV) \in Nat
      BY <1>1, <1>6, BoundsAssumption DEF Lines
    <2>2. DOMAIN transceivers' = 1 .. Len(transceivers') /\ Len(transceivers') \in Nat
      BY <1>2 DEF LinesStep
    <2> QED
      BY <1>1, <1>6, <2>1, <2>2
  <1>8. LinesPlain /\ TracksStay
    BY <1>2, <1>7, ExtendsPlain
  <1>9. Paired' /\ LocalStreamsOfTracks'
    BY <1>1, <1>2, <1>8, StreamsStay
  <1>10. {localLines', pending'.lines} \subseteq 0 .. Len(transceivers')
    <2>1. /\ Len(transceivers) \in Nat /\ Len(transceivers') \in Nat
          /\ Len(transceivers) <= Len(transceivers')
      BY <1>2, LinesNow DEF LinesStep
    <2> QED
      BY <1>1, <1>7, <2>1, FitFacts
  <1> QED
    BY <1>1, <1>2, <1>8, <1>9, <1>10, GoingOnUnchanged, PlainKeeps

(* close: transports are closed, senders stop, nothing else.                 *)
LEMMA CloseFits ==
  ASSUME PeerInv, FitInv, Close
  PROVE  FitInv'
  <1> DEFINE r(i) == IF transceivers[i].recv = "none" THEN transceivers[i].recv ELSE "stopped"
             done == [i \in DOMAIN transceivers |->
                       [transceivers[i] EXCEPT !.sending = FALSE, !.recv = r(i)]]
  <1>1. /\ transceivers' = done /\ signalingState' = "closed"
        /\ UNCHANGED <<usingBundle, localLines, remoteLines, mlines, pending, localStreams>>
    BY DEF Close, UpdateSignalingState, evars
  <1>2. LinesStep
    BY CloseLines
  <1>3. ASSUME NEW i \in DOMAIN transceivers
        PROVE  /\ done[i].tp = transceivers[i].tp /\ done[i].rejected = transceivers[i].rejected
               /\ ~done[i].sending
               /\ done[i].track = transceivers[i].track /\ done[i].stream = transceivers[i].stream
    <2>1. transceivers[i] \in LineType(created)
      BY OneLine
    <2>2. done[i] = [transceivers[i] EXCEPT !.sending = FALSE, !.recv = r(i)]
      OBVIOUS
    <2> HIDE DEF done, r
    <2> QED
      BY <2>1, <2>2 DEF LineType
  <1>4. DOMAIN done = DOMAIN transceivers
    OBVIOUS
  <1> HIDE DEF done
  <1>5. Len(transceivers) <= Len(transceivers')
    BY <1>2 DEF LinesStep
  <1>6. LinesPlain
    BY <1>1, <1>3, <1>4, <1>5 DEF LinesPlain, FitInv, Complete
  <1>7. TracksStay
    BY <1>1, <1>3, <1>4, <1>5 DEF TracksStay
  <1>8. Paired' /\ LocalStreamsOfTracks'
    BY <1>1, <1>2, <1>7, StreamsStay
  <1>9. {localLines', pending'.lines} \subseteq 0 .. Len(transceivers')
    <2>1. /\ Len(transceivers) \in Nat /\ Len(transceivers') \in Nat
          /\ Len(transceivers) <= Len(transceivers')
      BY <1>2, LinesNow DEF LinesStep
    <2> QED
      BY <1>1, <2>1, FitFacts
  <1> QED
    BY <1>1, <1>2, <1>6, <1>8, <1>9, TransportsGoOn, PlainKeeps

(* setLocalDescription of an answer: the agreed m-lines' transports start,   *)
(* or with BUNDLE the one transport they all have.                           *)
LEMMA SetLocalAnswerFits ==
  ASSUME PeerInv, FitInv, SetLocalAnswer
  PROVE  FitInv'
  <1> DEFINE accepted == {i \in 1 .. remoteLines : ~transceivers[i].rejected}
             starting == {transceivers[i].tp : i \in {j \in accepted : j = 1 \/ ~usingBundle}}
             done == [i \in DOMAIN transceivers |->
                       IF i \in accepted
                       THEN [transceivers[i] EXCEPT !.sending = @ \/ transceivers[i].track # None]
                       ELSE transceivers[i]]
  <1>1. /\ transceivers' = done /\ mlines' = remoteLines /\ signalingState' = "stable"
        /\ signalingState = "have-remote-offer"
        /\ transports' = [t \in DOMAIN transports |->
             IF t \in starting THEN Started(transports[t]) ELSE transports[t]]
        /\ pending' = [pending EXCEPT !.type = "none"]
        /\ UNCHANGED <<usingBundle, localLines, remoteLines, localStreams>>
    BY DEF SetLocalAnswer, IsActionAllowed, UpdateSignalingState, evars
  <1>2. LinesStep /\ GoingOn
    BY SetLocalAnswerLines, TransportsGoOn
  <1>3. /\ Len(transceivers) \in Nat /\ DOMAIN transceivers = 1 .. Len(transceivers)
        /\ \A i \in DOMAIN transceivers : transceivers[i].tp \in 1 .. MaxTransports
        /\ remoteLines \in 0 .. Len(transceivers) /\ localLines \in 0 .. Len(transceivers)
        /\ pending.lines \in 0 .. Len(transceivers)
    BY FitFacts
  <1>4. \A i \in 1 .. remoteLines : i \in DOMAIN transceivers /\ 1 \in 1 .. remoteLines
    BY <1>3
  <1>5. ASSUME NEW i \in DOMAIN transceivers
        PROVE  /\ done[i].tp = transceivers[i].tp /\ done[i].rejected = transceivers[i].rejected
               /\ done[i].sending => transceivers[i].sending \/ i \in 1 .. remoteLines
               /\ done[i].track = transceivers[i].track /\ done[i].stream = transceivers[i].stream
    <2>1. transceivers[i] \in LineType(created)
      BY OneLine
    <2> QED
      BY <2>1 DEF LineType
  <1>6. DOMAIN done = DOMAIN transceivers
    OBVIOUS
  <1>7. ASSUME NEW i \in 1 .. remoteLines
        PROVE  transceivers[i].tp \in starting
    <2>1. i \in accepted /\ 1 \in accepted
      BY <1>4 DEF FitInv, Complete
    <2>2. usingBundle => transceivers[i].tp = transceivers[1].tp
      BY <1>1 DEF FitInv, OfferBundled
    <2> HIDE DEF accepted
    <2> QED
      BY <2>1, <2>2
  <1> HIDE DEF done, starting, accepted
  <1>8. ASSUME NEW i \in 1 .. remoteLines
        PROVE  HasStarted(transceivers[i].tp)'
    <2> DEFINE t == transceivers[i].tp
    <2>1. t \in 1 .. MaxTransports /\ t \in starting /\ transceivers'[i].tp = t
      BY <1>1, <1>3, <1>4, <1>5, <1>7
    <2> HIDE DEF t
    <2>2. DOMAIN transports = 1 .. MaxTransports /\ transports[t] \in TransportType
      BY <2>1 DEF PeerInv, TypeOK
    <2>3. transports'[t] = Started(transports[t])
      BY <1>1, <2>1, <2>2
    <2> QED
      BY <2>1, <2>2, <2>3, ChangesGoOn DEF HasStarted
  <1>9. ASSUME NEW i \in DOMAIN transceivers, HasStarted(transceivers[i].tp)
        PROVE  HasStarted(transceivers[i].tp)'
    BY <1>1, <1>2, <1>3, <1>5, <1>9 DEF GoingOn, HasStarted
  <1>10. Len(transceivers') = Len(transceivers)
    BY <1>1, <1>2, <1>3, <1>6 DEF LinesStep
  <1>11. TracksStay
    BY <1>1, <1>3, <1>5, <1>6, <1>10 DEF TracksStay
  <1>12. Paired' /\ LocalStreamsOfTracks'
    BY <1>1, <1>2, <1>11, StreamsStay
  <1>13. Complete'
    BY <1>1, <1>5, <1>6, <1>12 DEF Complete, Paired, FitInv
  <1>14. CountsFit'
    <2>1. pending'.lines = pending.lines
      BY <1>1 DEF PeerInv, TypeOK
    <2> QED
      BY <1>1, <1>3, <1>10, <2>1 DEF CountsFit
  <1>15. AgreedStarted'
    BY <1>1, <1>8 DEF AgreedStarted
  <1>16. SendersStarted'
    <2> SUFFICES ASSUME NEW i \in DOMAIN transceivers, transceivers'[i].sending
                 PROVE  HasStarted(transceivers[i].tp)' /\ HasStarted(transceivers[1].tp)'
      BY <1>1, <1>6 DEF SendersStarted
    <2>1. CASE i \in 1 .. remoteLines
      BY <1>4, <1>8, <2>1
    <2>2. CASE i \notin 1 .. remoteLines
      <3>1. transceivers[i].sending /\ 1 \in DOMAIN transceivers
        BY <1>1, <1>3, <1>5, <2>2
      <3> QED
        BY <1>9, <3>1 DEF FitInv, SendersStarted
    <2> QED
      BY <2>1, <2>2
  <1>17. OfferBundled' /\ BundledTogether'
    <2>1. OfferBundled'
      BY <1>1 DEF OfferBundled
    <2>2. BundledTogether'
      BY <1>1, <1>4, <1>5 DEF FitInv, OfferBundled, BundledTogether
    <2> QED
      BY <2>1, <2>2
  <1> QED
    BY <1>12, <1>13, <1>14, <1>15, <1>16, <1>17 DEF FitInv

(* Sections of a description that rejects none: each has a transport, its    *)
(* m-line's own or the first one's, and with BUNDLE they share it.           *)
LEMMA SectionTransports ==
  ASSUME PeerInv, FitInv, NEW secs, NEW k \in Nat, DOMAIN secs = 1 .. k, Kept(secs) = 1 .. k,
         NEW bundle \in BOOLEAN, NEW i \in 1 .. k
  PROVE  /\ Tp(secs, bundle, i) # 0
         /\ bundle => Tp(secs, bundle, i) = Tp(secs, bundle, 1)
         /\ i \in DOMAIN transceivers =>
              /\ Tp(secs, bundle, 1) = transceivers[1].tp
              /\ ~bundle => Tp(secs, bundle, i) = transceivers[i].tp
  <1> DEFINE Upto(j) == {m \in Fresh(secs, bundle) : m <= j}
  <1>1. Len(transceivers) \in Nat /\ DOMAIN transceivers = 1 .. Len(transceivers)
    BY FitFacts
  <1>2. created \in Nat
    BY LinesNow
  <1>3. i \in Nat /\ 1 \in 1 .. k
    OBVIOUS
  <1>4. \A j \in DOMAIN transceivers : j \notin Fresh(secs, bundle)
    BY <1>1 DEF Fresh, IsNew, FitInv, Complete
  <1>5. ASSUME NEW j \in 1 .. k, j \notin Fresh(secs, bundle), ~(bundle /\ j > 1)
        PROVE  j \in DOMAIN transceivers
    <2>1. CASE ~IsNew(secs, j)
      BY <1>1, <2>1 DEF IsNew
    <2>2. CASE IsNew(secs, j)
      <3>1. bundle /\ transceivers # <<>> /\ j = 1
        BY <1>5, <2>2 DEF Fresh
      <3> QED
        BY <1>1, <3>1, LinesNow
    <2> QED
      BY <2>1, <2>2
  <1>6. \A j \in Nat : Cardinality(Upto(j)) \in Nat
    BY FreshFinite
  <1>7. \A j \in 1 .. k : j \in Fresh(secs, bundle) => Cardinality(Upto(j)) >= 1
    <2> SUFFICES ASSUME NEW j \in 1 .. k, j \in Fresh(secs, bundle)
                 PROVE  Cardinality(Upto(j)) >= 1
      OBVIOUS
    <2>1. j \in Upto(j)
      OBVIOUS
    <2> QED
      BY <2>1, FreshFinite
  <1>8. 1 \in Fresh(secs, bundle) => Cardinality(Upto(1)) = 1
    <2> SUFFICES ASSUME 1 \in Fresh(secs, bundle) PROVE Cardinality(Upto(1)) = 1
      OBVIOUS
    <2>1. Upto(1) = {1}
      <3>1. \A m \in Fresh(secs, bundle) : m \in 1 .. k
        BY DEF Fresh
      <3> QED
        BY <3>1
    <2> QED
      BY <2>1, FS_Singleton
  <1>9. Tp(secs, bundle, 1) = FirstTp(secs, bundle)
    BY <1>3, <1>8 DEF Tp, FirstTp
  <1>10. FirstTp(secs, bundle) # 0
    <2>1. CASE 1 \in Fresh(secs, bundle)
      BY <1>2, <1>3, <2>1 DEF FirstTp
    <2>2. CASE 1 \notin Fresh(secs, bundle)
      <3>1. 1 \in DOMAIN transceivers
        BY <1>3, <1>5, <2>2
      <3> QED
        BY <1>3, <2>2, <3>1 DEF FirstTp, FitInv, Complete
    <2> QED
      BY <2>1, <2>2
  <1>11. Tp(secs, bundle, i) # 0
    <2>1. CASE bundle /\ i > 1
      BY <1>10, <2>1 DEF Tp
    <2>2. CASE ~(bundle /\ i > 1) /\ i \in Fresh(secs, bundle)
      <3>1. Tp(secs, bundle, i) = created + Cardinality(Upto(i))
        BY <2>2 DEF Tp
      <3>2. Cardinality(Upto(i)) >= 1 /\ Cardinality(Upto(i)) \in Nat
        BY <1>3, <1>6, <1>7, <2>2
      <3> HIDE DEF Upto
      <3> QED
        BY <1>2, <3>1, <3>2
    <2>3. CASE ~(bundle /\ i > 1) /\ i \notin Fresh(secs, bundle)
      BY <1>5, <2>3 DEF Tp, FitInv, Complete
    <2> QED
      BY <2>1, <2>2, <2>3
  <1>12. ASSUME bundle PROVE Tp(secs, bundle, i) = Tp(secs, bundle, 1)
    <2>1. CASE i = 1
      BY <2>1
    <2>2. CASE i > 1
      BY <1>9, <1>12, <2>2 DEF Tp
    <2> QED
      BY <1>3, <2>1, <2>2
  <1>13. ASSUME i \in DOMAIN transceivers
         PROVE  /\ Tp(secs, bundle, 1) = transceivers[1].tp
                /\ ~bundle => Tp(secs, bundle, i) = transceivers[i].tp
    <2>1. 1 \in DOMAIN transceivers
      BY <1>1, <1>13
    <2> QED
      BY <1>4, <1>13, <2>1 DEF Tp
  <1> QED
    BY <1>11, <1>12, <1>13

(* An accepted section keeps its m-line's track, or makes an m-line without  *)
(* one; only an answer makes a sender start.                                 *)
LEMMA SectionLine ==
  ASSUME PeerInv, FitInv, NEW secs, NEW k \in Nat, DOMAIN secs = 1 .. k, Kept(secs) = 1 .. k,
         \A j \in DOMAIN secs : secs[j].kind \in Kinds,
         NEW type, NEW bundle, NEW i \in 1 .. k, NEW N \in Nat, created <= N,
         Tp(secs, bundle, i) \in 0 .. N
  PROVE  LET l == RemoteLine(type, secs, bundle, i)
         IN /\ l.tp = Tp(secs, bundle, i) /\ ~l.rejected
            /\ IF i \in DOMAIN transceivers
               THEN l.track = transceivers[i].track /\ l.stream = transceivers[i].stream
               ELSE l.track = None /\ l.stream = None
            /\ l.sending => \/ type # "offer"
                            \/ i \in DOMAIN transceivers /\ transceivers[i].sending
  <1> DEFINE old == IF IsNew(secs, i) THEN Blank(secs[i].kind, 0) ELSE transceivers[i]
             tp == Tp(secs, bundle, i)
             h == IF bundle /\ i > 1 THEN 1 \in Kept(secs) ELSE old.gath
             b == Base(secs, bundle, i)
             Same(x, y) == x.track = y.track /\ x.stream = y.stream
  <1>1. i \in Kept(secs) /\ ~secs[i].rejected /\ i \in DOMAIN secs
    BY DEF Kept
  <1>2. /\ Len(transceivers) \in Nat /\ DOMAIN transceivers = 1 .. Len(transceivers)
        /\ created \in Nat
    BY FitFacts, LinesNow
  <1>3. IsNew(secs, i) <=> i \notin DOMAIN transceivers
    BY <1>1, <1>2 DEF IsNew, FitInv, Complete
  <1>4. /\ old \in LineType(N)
        /\ IF i \in DOMAIN transceivers
           THEN Same(old, transceivers[i]) /\ old.sending = transceivers[i].sending
           ELSE old.track = None /\ old.stream = None /\ ~old.sending
    <2>1. CASE i \in DOMAIN transceivers
      <3>1. transceivers[i] \in LineType(N)
        BY <1>2, <2>1, OneLine, LineGrows
      <3> QED
        BY <1>3, <2>1, <3>1
    <2>2. CASE i \notin DOMAIN transceivers
      BY <1>1, <1>2, <1>3, <2>2, BlankTyped
    <2> QED
      BY <2>1, <2>2
  <1>5. b \in LineType(N) /\ ~b.rejected /\ b.tp = tp
    BY <1>1, BaseTyped
  <1>6. b = [old EXCEPT !.tp = tp, !.gath = h]
    BY DEF Base
  <1> HIDE DEF old, tp, h, b
  <1>7. Same(b, old) /\ b.sending = old.sending
    BY <1>4, <1>6 DEF LineType
  <1>8. CASE type = "offer"
    <2> DEFINE g == b.gath \/ ~bundle \/ i = 1
               r == IF ~Sends(secs[i]) THEN "none"
                    ELSE IF b.recv = "none" THEN "receiving" ELSE b.recv
    <2>1. RemoteLine(type, secs, bundle, i) = [b EXCEPT !.gath = g, !.recv = r]
      BY <1>1, <1>8 DEF RemoteLine, OfferedLine, b
    <2> HIDE DEF g, r
    <2>2. LET l == [b EXCEPT !.gath = g, !.recv = r]
          IN l.tp = b.tp /\ l.rejected = b.rejected /\ Same(l, b) /\ l.sending = b.sending
      BY <1>5 DEF LineType
    <2> QED
      BY <1>4, <1>5, <1>7, <2>1, <2>2 DEF tp
  <1>9. CASE type # "offer"
    <2> DEFINE s == b.sending \/ (Receives(secs[i]) /\ b.track # None)
               r == IF Sends(secs[i]) /\ b.recv # "none" THEN "receiving" ELSE "none"
    <2>1. RemoteLine(type, secs, bundle, i) = [b EXCEPT !.sending = s, !.recv = r]
      BY <1>1, <1>9 DEF RemoteLine, AnsweredLine, b
    <2> HIDE DEF s, r
    <2>2. LET l == [b EXCEPT !.sending = s, !.recv = r]
          IN l.tp = b.tp /\ l.rejected = b.rejected /\ Same(l, b)
      BY <1>5 DEF LineType
    <2> QED
      BY <1>4, <1>5, <1>7, <1>9, <2>1, <2>2 DEF tp
  <1> QED
    BY <1>8, <1>9

(* The transports of a description that is applied to the end: none is new   *)
(* again, and an answer starts the ones it is to start.                      *)
LEMMA SetRemoteDescriptionGoesOn ==
  ASSUME PeerInv, NEW type \in {"offer", "answer"}, NEW secs \in Sections(type), NEW bundle,
         NEW cands \in InSdp, SetRemoteDescription(type, secs, bundle, cands)
  PROVE  /\ GoingOn
         /\ \A i \in {j \in Kept(secs) : j = 1 \/ ~bundle}, t \in 1 .. MaxTransports :
              (type = "answer" /\ t = Tp(secs, bundle, i)) => HasStarted(t)'
  <1> DEFINE w == WithSdpCandidates(transports, secs, bundle)
             received == IF cands THEN w ELSE transports
             starting == {Tp(secs, bundle, i) : i \in {j \in Kept(secs) : j = 1 \/ ~bundle}}
  <1>1. transports' = [t \in DOMAIN transports |->
          IF type = "answer" /\ t \in starting THEN Started(received[t]) ELSE received[t]]
    BY DEF SetRemoteDescription
  <1>2. DOMAIN transports = 1 .. MaxTransports
    BY DEF PeerInv, TypeOK
  <1>3. cands => Candidates # {}
    BY RemoteAssumption
  <1>4. ASSUME NEW t \in DOMAIN transports
        PROVE  /\ received[t] \in TransportType /\ received[t].ice = transports[t].ice
               /\ received[t].dtls = transports[t].dtls
    <2>1. transports[t] \in TransportType
      BY DEF PeerInv, TypeOK
    <2>2. CASE cands
      <3> DEFINE c == CHOOSE d \in Candidates : TRUE
      <3>1. w[t] \in {transports[t], [transports[t] EXCEPT !.remote = @ \cup {c}]}
        BY DEF WithSdpCandidates
      <3>2. w[t] \in TransportType /\ w[t].ice = transports[t].ice
        BY <1>3, <2>2, SdpCandidates
      <3> HIDE DEF w, c
      <3>3. [transports[t] EXCEPT !.remote = @ \cup {c}].dtls = transports[t].dtls
        BY <2>1 DEF TransportType
      <3> QED
        BY <2>2, <3>1, <3>2, <3>3
    <2>3. CASE ~cands
      BY <2>1, <2>3
    <2> QED
      BY <2>2, <2>3
  <1> HIDE DEF received
  <1>5. \A t \in 1 .. MaxTransports :
          /\ transports'[t].ice = "new" => transports[t].ice = "new"
          /\ transports'[t].dtls = "new" => transports[t].dtls = "new"
          /\ type = "answer" /\ t \in starting =>
               transports'[t].ice # "new" /\ transports'[t].dtls # "new"
    <2> SUFFICES ASSUME NEW t \in 1 .. MaxTransports
                 PROVE  /\ transports'[t].ice = "new" => transports[t].ice = "new"
                        /\ transports'[t].dtls = "new" => transports[t].dtls = "new"
                        /\ type = "answer" /\ t \in starting =>
                             transports'[t].ice # "new" /\ transports'[t].dtls # "new"
      OBVIOUS
    <2> HIDE DEF starting
    <2>1. CASE type = "answer" /\ t \in starting
      <3>1. transports'[t] = Started(received[t])
        BY <1>1, <1>2, <2>1
      <3> QED
        BY <1>2, <1>4, <3>1, ChangesGoOn
    <2>2. CASE ~(type = "answer" /\ t \in starting)
      <3>1. transports'[t] = received[t]
        BY <1>1, <1>2, <2>2
      <3> QED
        BY <1>2, <1>4, <2>2, <3>1
    <2> QED
      BY <2>1, <2>2
  <1>6. GoingOn
    BY <1>5, GoesOn
  <1>7. ASSUME NEW i \in {j \in Kept(secs) : j = 1 \/ ~bundle}, NEW t \in 1 .. MaxTransports,
               type = "answer", t = Tp(secs, bundle, i)
        PROVE  HasStarted(t)'
    <2>1. t \in starting
      BY <1>7
    <2>2. transports'[t].ice # "new" /\ transports'[t].dtls # "new"
      BY <1>5, <1>7, <2>1
    <2> QED
      BY <2>2 DEF HasStarted
  <1> QED
    BY <1>6, <1>7

(* A description that rejects nothing: m-lines get the transports BUNDLE     *)
(* says, started ones stay started, and an answer starts what it agrees on.  *)
LEMMA SetRemoteDescriptionFits ==
  ASSUME PeerInv, FitInv, NEW type \in {"offer", "answer"}, NEW secs \in Sections(type),
         NEW bundle \in Bundle, NEW cands \in InSdp,
         SetRemoteDescription(type, secs, bundle, cands), ~refused'
  PROVE  FitInv'
  <1> DEFINE k == Len(secs)
             n == Max({Len(secs), Len(transceivers)})
             Line(i) == RemoteLine(type, secs, bundle, i)
             tp(i) == Tp(secs, bundle, i)
  <1>1. /\ transceivers' = [i \in 1 .. n |-> Line(i)]
        /\ usingBundle' = bundle /\ remoteLines' = k /\ pending'.lines = 0
        /\ mlines' = (IF type = "answer" THEN k ELSE mlines)
        /\ signalingState' = IF type = "offer" THEN "have-remote-offer" ELSE "stable"
        /\ UNCHANGED <<localLines, localStreams>>
        /\ \A i \in DOMAIN secs : ~secs[i].rejected
        /\ bundle \in BOOLEAN
    BY RemoteAssumption DEF SetRemoteDescription, UpdateSignalingState, Remember, evars
  <1>2. /\ LinesStep /\ GoingOn
        /\ \A i \in Kept(secs) : tp(i) \in 0 .. created'
        /\ \A i \in {j \in Kept(secs) : j = 1 \/ ~bundle}, t \in 1 .. MaxTransports :
             (type = "answer" /\ t = tp(i)) => HasStarted(t)'
    BY SetRemoteDescriptionLines, SetRemoteDescriptionGoesOn
  <1>3. /\ k \in Nat /\ DOMAIN secs = 1 .. k /\ Kept(secs) = 1 .. k
        /\ \A i \in DOMAIN secs : secs[i].kind \in Kinds
    BY <1>1, SectionsTyped DEF Kept
  <1>4. /\ Len(transceivers) \in Nat /\ DOMAIN transceivers = 1 .. Len(transceivers)
        /\ \A i \in DOMAIN transceivers : transceivers[i].tp \in 1 .. MaxTransports
        /\ mlines \in 0 .. Len(transceivers) /\ localLines \in 0 .. Len(transceivers)
    BY FitFacts
  <1>5. created \in Nat /\ created' \in Nat /\ created <= created' /\ created' <= MaxTransports
    BY <1>2, LinesNow, BoundsAssumption DEF LinesStep
  <1> HIDE DEF k
  <1>6. n \in Nat /\ k <= n /\ Len(transceivers) <= n /\ n \in {k, Len(transceivers)}
    BY <1>3, <1>4, MaxOfTwo DEF k
  <1> HIDE DEF n
  <1>7. /\ Len(transceivers') = n /\ DOMAIN transceivers' = 1 .. n
        /\ DOMAIN transceivers \subseteq 1 .. n /\ 1 .. k \subseteq 1 .. n
        /\ \A i \in 1 .. n : i \in 1 .. k \/ i \in DOMAIN transceivers
    <2>1. DOMAIN transceivers' = 1 .. n
      BY <1>1
    <2>2. Len(transceivers') = n
      BY <1>2, <1>6, <2>1 DEF LinesStep
    <2>3. DOMAIN transceivers \subseteq 1 .. n /\ 1 .. k \subseteq 1 .. n
      <3>1. \A a \in Nat, b \in Nat : a <= b => 1 .. a \subseteq 1 .. b
        OBVIOUS
      <3> QED
        BY <1>3, <1>4, <1>6, <3>1
    <2>4. \A i \in 1 .. n : i \in 1 .. k \/ i \in DOMAIN transceivers
      BY <1>4, <1>6
    <2> QED
      BY <2>1, <2>2, <2>3, <2>4
  <1>8. \A i \in 1 .. k :
          /\ tp(i) \in 1 .. MaxTransports
          /\ bundle => tp(i) = tp(1)
          /\ i \in DOMAIN transceivers => /\ tp(1) = transceivers[1].tp
                                          /\ ~bundle => tp(i) = transceivers[i].tp
    <2> SUFFICES ASSUME NEW i \in 1 .. k
                 PROVE  /\ tp(i) \in 1 .. MaxTransports
                        /\ bundle => tp(i) = tp(1)
                        /\ i \in DOMAIN transceivers =>
                             /\ tp(1) = transceivers[1].tp
                             /\ ~bundle => tp(i) = transceivers[i].tp
      OBVIOUS
    <2>1. /\ tp(i) # 0
          /\ bundle => tp(i) = tp(1)
          /\ i \in DOMAIN transceivers => /\ tp(1) = transceivers[1].tp
                                          /\ ~bundle => tp(i) = transceivers[i].tp
      BY <1>1, <1>3, SectionTransports
    <2>2. tp(i) \in 0 .. created'
      BY <1>2, <1>3
    <2> HIDE DEF tp
    <2>3. tp(i) \in 1 .. MaxTransports
      BY <1>5, <2>1, <2>2, BoundsAssumption
    <2> QED
      BY <2>1, <2>3
  <1>9. ASSUME NEW i \in 1 .. n
        PROVE  /\ ~transceivers'[i].rejected
               /\ transceivers'[i].tp = IF i \in 1 .. k THEN tp(i) ELSE transceivers[i].tp
               /\ IF i \in DOMAIN transceivers
                  THEN /\ transceivers'[i].track = transceivers[i].track
                       /\ transceivers'[i].stream = transceivers[i].stream
                  ELSE transceivers'[i].track = None /\ transceivers'[i].stream = None
               /\ transceivers'[i].sending =>
                    \/ type = "answer" /\ i \in 1 .. k
                    \/ i \in DOMAIN transceivers /\ transceivers[i].sending
    <2>1. transceivers'[i] = Line(i)
      BY <1>1
    <2>2. CASE i \in 1 .. k
      <3>1. tp(i) \in 0 .. created'
        BY <1>2, <1>3, <2>2
      <3>2. /\ Line(i).tp = tp(i) /\ ~Line(i).rejected
            /\ IF i \in DOMAIN transceivers
               THEN Line(i).track = transceivers[i].track /\ Line(i).stream = transceivers[i].stream
               ELSE Line(i).track = None /\ Line(i).stream = None
            /\ Line(i).sending => \/ type # "offer"
                                  \/ i \in DOMAIN transceivers /\ transceivers[i].sending
        BY <1>3, <1>5, <2>2, <3>1, SectionLine
      <3> HIDE DEF Line, tp
      <3> QED
        BY <2>1, <2>2, <3>2
    <2>3. CASE i \notin 1 .. k
      <3>1. i \in DOMAIN transceivers /\ Line(i) = transceivers[i]
        BY <1>3, <1>7, <2>3 DEF RemoteLine
      <3> HIDE DEF Line, tp
      <3> QED
        BY <2>1, <2>3, <3>1 DEF FitInv, Complete
    <2> QED
      BY <2>2, <2>3
  <1> HIDE DEF Line, tp
  <1>10. ASSUME NEW i \in DOMAIN transceivers, HasStarted(transceivers[i].tp),
                HasStarted(transceivers[1].tp)
         PROVE  HasStarted(transceivers[i].tp)' /\ HasStarted(transceivers[1].tp)'
    <2>1. 1 \in DOMAIN transceivers
      BY <1>4
    <2>2. \A j \in {1, i} : transceivers'[j].tp \in {transceivers[1].tp, transceivers[i].tp}
      <3>1. 1 \in 1 .. k => tp(1) = transceivers[1].tp
        BY <1>8, <2>1
      <3>2. i \in 1 .. k => tp(i) \in {transceivers[1].tp, transceivers[i].tp}
        BY <1>8
      <3> QED
        BY <1>7, <1>9, <2>1, <3>1, <3>2
    <2>3. \A t \in {transceivers[1].tp, transceivers[i].tp} : HasStarted(t)'
      BY <1>2, <1>4, <1>10, <2>1 DEF GoingOn
    <2> QED
      BY <2>2, <2>3 DEF HasStarted
  <1>11. ASSUME NEW i \in 1 .. k, type = "answer"
         PROVE  HasStarted(transceivers[i].tp)'
    <2>1. 1 \in 1 .. k
      BY <1>3
    <2>2. transceivers'[i].tp = tp(i)
      BY <1>7, <1>9
    <2>3. ASSUME NEW t \in 1 .. MaxTransports, t = tp(i) PROVE HasStarted(t)'
      <3>1. CASE bundle
        <4>1. t = tp(1)
          BY <1>8, <2>3, <3>1
        <4> QED
          BY <1>2, <1>3, <1>11, <2>1, <4>1
      <3>2. CASE ~bundle
        BY <1>2, <1>3, <1>11, <2>3, <3>2
      <3> QED
        BY <3>1, <3>2
    <2>4. tp(i) \in 1 .. MaxTransports
      BY <1>8
    <2> QED
      BY <2>2, <2>3, <2>4 DEF HasStarted
  <1>12. TracksStay
    BY <1>6, <1>7, <1>9 DEF TracksStay
  <1>13. Paired' /\ LocalStreamsOfTracks'
    BY <1>1, <1>2, <1>12, StreamsStay
  <1>14. Complete'
    <2>1. \A i \in 1 .. n : transceivers'[i].tp # 0
      BY <1>4, <1>7, <1>8, <1>9
    <2> QED
      BY <1>7, <1>9, <1>13, <2>1 DEF Complete, Paired
  <1>15. CountsFit'
    BY <1>1, <1>3, <1>4, <1>6, <1>7 DEF CountsFit
  <1>16. AgreedStarted'
    <2> SUFFICES ASSUME NEW i \in 1 .. mlines' PROVE HasStarted(transceivers[i].tp)'
      BY DEF AgreedStarted
    <2>1. CASE type = "answer"
      BY <1>1, <1>11, <2>1
    <2>2. CASE type # "answer"
      <3>1. i \in 1 .. mlines /\ 1 \in 1 .. mlines /\ i \in DOMAIN transceivers
        BY <1>1, <1>4, <2>2
      <3> QED
        BY <1>10, <3>1 DEF FitInv, AgreedStarted
    <2> QED
      BY <2>1, <2>2
  <1>17. SendersStarted'
    <2> SUFFICES ASSUME NEW i \in 1 .. n, transceivers'[i].sending
                 PROVE  HasStarted(transceivers[i].tp)' /\ HasStarted(transceivers[1].tp)'
      BY <1>7 DEF SendersStarted
    <2>1. CASE type = "answer" /\ i \in 1 .. k
      <3>1. 1 \in 1 .. k
        BY <1>3, <2>1
      <3> QED
        BY <1>11, <2>1, <3>1
    <2>2. CASE ~(type = "answer" /\ i \in 1 .. k)
      <3>1. i \in DOMAIN transceivers /\ transceivers[i].sending
        BY <1>9, <2>2
      <3> QED
        BY <1>10, <3>1 DEF FitInv, SendersStarted
    <2> QED
      BY <2>1, <2>2
  <1>18. bundle => \A i \in 1 .. k : transceivers'[i].tp = transceivers'[1].tp
    <2> SUFFICES ASSUME bundle, NEW i \in 1 .. k
                 PROVE  transceivers'[i].tp = transceivers'[1].tp
      OBVIOUS
    <2>1. 1 \in 1 .. k
      BY <1>3
    <2> QED
      BY <1>7, <1>8, <1>9, <2>1
  <1>19. OfferBundled' /\ BundledTogether'
    BY <1>1, <1>18 DEF OfferBundled, BundledTogether
  <1> QED
    BY <1>13, <1>14, <1>15, <1>16, <1>17, <1>19 DEF FitInv

(* A description can only throw on a section without a transport, which some *)
(* rejection left behind.                                                    *)
LEMMA ThrowsFits ==
  ASSUME PeerInv, FitInv, NEW type \in {"offer", "answer"}, NEW secs \in Sections(type),
         NEW bundle \in Bundle, SetRemoteDescriptionThrows(type, secs, bundle)
  PROVE  refused'
  <1> SUFFICES ASSUME ~refused' PROVE FALSE
    OBVIOUS
  <1>1. /\ Broken(secs, bundle) # {} /\ bundle \in BOOLEAN
        /\ \A i \in DOMAIN secs : ~secs[i].rejected
    BY RemoteAssumption DEF SetRemoteDescriptionThrows, Remember
  <1> DEFINE k == Len(secs)
  <1>2. k \in Nat /\ DOMAIN secs = 1 .. k /\ Kept(secs) = 1 .. k
    BY <1>1, SectionsTyped DEF Kept
  <1> HIDE DEF k
  <1>3. PICK i \in 1 .. k : Tp(secs, bundle, i) = 0
    BY <1>1, <1>2 DEF Broken
  <1> QED
    BY <1>1, <1>2, <1>3, SectionTransports

LEMMA InitAgree == Init => AgreeInv
  <1> SUFFICES ASSUME Init PROVE FitInv
    BY InitPeer DEF AgreeInv
  <1> USE DEF Init
  <1>1. transceivers = <<>> /\ Len(transceivers) = 0 /\ DOMAIN transceivers = {}
    OBVIOUS
  <1>2. Complete /\ LocalStreamsOfTracks /\ AgreedStarted /\ SendersStarted
    BY <1>1 DEF Complete, LocalStreamsOfTracks, AgreedStarted, SendersStarted
  <1>3. CountsFit
    BY <1>1 DEF CountsFit
  <1>4. OfferBundled /\ BundledTogether
    BY DEF OfferBundled, BundledTogether
  <1> QED
    BY <1>2, <1>3, <1>4 DEF FitInv

LEMMA NextAgree == AgreeInv /\ [Next]_vars => AgreeInv'
  <1> SUFFICES ASSUME AgreeInv, [Next]_vars, ~refused' PROVE FitInv'
    BY NextPeer DEF AgreeInv
  <1>1. PeerInv /\ (~refused => FitInv)
    BY DEF AgreeInv
  <1>2. ASSUME UNCHANGED refused PROVE FitInv
    BY <1>1, <1>2
  <1>3. ASSUME FitInv, GoingOn,
               UNCHANGED <<transceivers, created, localStreams, usingBundle, mlines, remoteLines,
                           localLines, pending, signalingState>>
        PROVE  FitInv'
    BY <1>1, <1>3, FitFacts, FitUnchanged
  <1>4. ASSUME NEW t \in Tracks, NEW s \in Streams, AddTrack(t, s) PROVE FitInv'
    BY <1>1, <1>2, <1>4, AddTrackFits DEF AddTrack, svars
  <1>5. ASSUME NEW i \in DOMAIN transceivers, RemoveTrack(i) PROVE FitInv'
    BY <1>1, <1>2, <1>5, RemoveTrackFits DEF RemoveTrack, svars
  <1>6. CASE NegotiationTimer
    <2>1. UNCHANGED <<mvars, svars, localStreams>>
      BY <1>6 DEF NegotiationTimer
    <2> QED
      BY <1>2, <1>3, <2>1, GoingOnUnchanged DEF mvars, svars
  <1>7. ASSUME NEW num, CreateOffer(num) PROVE FitInv'
    BY <1>1, <1>2, <1>7, CreateOfferFits DEF CreateOffer
  <1>8. CASE CreateAnswer
    <2>1. /\ UNCHANGED <<mvars, signalingState, usingBundle, localLines, remoteLines, mlines,
                         refused, localStreams>>
          /\ pending'.lines = remoteLines
      BY <1>8 DEF CreateAnswer, evars
    <2>2. FitInv /\ GoingOn
      BY <1>2, <2>1, GoingOnUnchanged DEF mvars
    <2>3. {localLines', pending'.lines} \subseteq 0 .. Len(transceivers)
      BY <1>1, <2>1, <2>2, FitFacts
    <2> QED
      BY <1>1, <2>1, <2>2, <2>3, FitUnchanged DEF mvars
  <1>9. CASE SetLocalOffer
    <2>1. /\ UNCHANGED <<mvars, usingBundle, remoteLines, mlines, refused, localStreams>>
          /\ pending' = [pending EXCEPT !.type = "none"]
          /\ localLines' = pending.lines /\ signalingState' = "have-local-offer"
      BY <1>9 DEF SetLocalOffer, UpdateSignalingState, evars
    <2>2. FitInv /\ GoingOn
      BY <1>2, <2>1, GoingOnUnchanged DEF mvars
    <2>3. pending'.lines = pending.lines
      BY <1>1, <2>1 DEF PeerInv, TypeOK
    <2>4. {localLines', pending'.lines} \subseteq 0 .. Len(transceivers)
      BY <1>1, <2>1, <2>2, <2>3, FitFacts
    <2> QED
      BY <1>1, <2>1, <2>2, <2>4, FitUnchanged DEF mvars
  <1>10. CASE SetLocalAnswer
    BY <1>1, <1>2, <1>10, SetLocalAnswerFits DEF SetLocalAnswer
  <1>11. ASSUME NEW type \in {"offer", "answer"}, NEW secs \in Sections(type),
                NEW bundle \in Bundle, NEW cands \in InSdp,
                SetRemoteDescription(type, secs, bundle, cands)
         PROVE  FitInv'
    <2>1. ~refused
      BY <1>11 DEF SetRemoteDescription, Remember
    <2> QED
      BY <1>1, <1>11, <2>1, SetRemoteDescriptionFits
  <1>12. ASSUME NEW type \in {"offer", "answer"}, NEW secs \in Sections(type),
                NEW bundle \in Bundle, SetRemoteDescriptionThrows(type, secs, bundle)
         PROVE  FitInv'
    <2>1. ~refused
      BY <1>12 DEF SetRemoteDescriptionThrows, Remember
    <2> QED
      BY <1>1, <1>12, <2>1, ThrowsFits
  <1>13. ASSUME NEW c \in Candidates, NEW i \in DOMAIN transceivers, AddIceCandidate(c, i)
         PROVE  FitInv'
    <2>1. UNCHANGED <<transceivers, created, svars, evars>>
      BY <1>13 DEF AddIceCandidate
    <2> QED
      BY <1>1, <1>2, <1>3, <1>13, <2>1, TransportsGoOn DEF svars, evars
  <1>14. CASE EndOfCandidates
    <2>1. UNCHANGED <<transceivers, created, svars, evars>>
      BY <1>14 DEF EndOfCandidates
    <2> QED
      BY <1>1, <1>2, <1>3, <1>14, <2>1, TransportsGoOn DEF svars, evars
  <1>15. CASE FourSecondTimer
    <2>1. UNCHANGED <<transceivers, created, evars, usingBundle, mlines, remoteLines, localLines,
                      pending, signalingState, refused>>
      BY <1>15 DEF FourSecondTimer
    <2> QED
      BY <1>1, <1>2, <1>3, <1>15, <2>1, TransportsGoOn DEF evars
  <1>16. CASE Close
    BY <1>1, <1>2, <1>16, CloseFits DEF Close
  <1>17. ASSUME NEW t \in 1 .. created,
                NEW s \in {"connected", "completed", "disconnected", "failed"},
                IceStateChange(t, s)
         PROVE  FitInv'
    <2>1. UNCHANGED <<transceivers, created, svars, evars>>
      BY <1>17 DEF IceStateChange
    <2> QED
      BY <1>1, <1>2, <1>3, <1>17, <2>1, TransportsGoOn DEF svars, evars
  <1>18. ASSUME NEW t \in 1 .. created, NEW s \in {"connected", "failed"}, DtlsStateChange(t, s)
         PROVE  FitInv'
    <2>1. UNCHANGED <<transceivers, created, svars, evars>>
      BY <1>18 DEF DtlsStateChange
    <2> QED
      BY <1>1, <1>2, <1>3, <1>18, <2>1, TransportsGoOn DEF svars, evars
  <1>19. CASE UNCHANGED vars
    BY <1>2, <1>3, <1>19, GoingOnUnchanged DEF vars, mvars, svars, evars
  <1> QED
    BY <1>4, <1>5, <1>6, <1>7, <1>8, <1>9, <1>10, <1>11, <1>12, <1>13, <1>14, <1>15, <1>16,
       <1>17, <1>18, <1>19 DEF Next

(* Until the remote peer first rejects an m-line, getLocalStreams is the set *)
(* of the streams being sent, agreed and sending m-lines run on started      *)
(* transports, and BUNDLE puts the agreed ones on the first one's: after any *)
(* number of negotiations, tracks added and removed, and changes of mind     *)
(* about BUNDLE.                                                             *)
THEOREM LinesCorrect == Spec => []LinesAgree
  <1>1. AgreeInv => LinesAgree
    <2> SUFFICES ASSUME AgreeInv, ~refused
                 PROVE  /\ LocalStreamsOfTracks /\ NegotiatedLinesStarted
                        /\ SendingStarted /\ BundledTogether
      BY DEF LinesAgree
    <2> QED
      BY DEF AgreeInv, FitInv, AgreedStarted, SendersStarted, NegotiatedLinesStarted,
             SendingStarted
  <1> QED
    BY <1>1, InitAgree, NextAgree, PTL DEF Spec
=============================================================================
