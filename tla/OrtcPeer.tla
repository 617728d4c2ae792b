------------------------------ MODULE OrtcPeer ------------------------------
(* RTCPeerConnection as the page's adapter builds it over ORTC objects       *)
(* (adapter-7.4.0.js, module 16): transceivers (one per m-line), the ICE and *)
(* DTLS transports they own or share, offers and answers, candidates, the    *)
(* aggregated states and the events an application sees.                     *)
(*                                                                           *)
(* JavaScript is single threaded: each call, each native event and each      *)
(* timer callback is one step.  The page's application is free to make any   *)
(* call at any time; the remote peer sends any description that keeps the    *)
(* m-lines negotiated so far.                                                *)
EXTENDS Naturals, Sequences, FiniteSets, FiniteSetsExt

CONSTANTS
  AudioTracks, VideoTracks,  \* local media tracks
  Streams,                   \* local media streams
  None,                      \* null
  Candidates,                \* remote ICE candidates
  MaxLines,                  \* bound: m-lines of a connection
  MaxTransports,             \* bound: transports ever created
  MaxRounds,                 \* bound: remote descriptions applied
  MaxMoves,                  \* bound: state changes of the native transports
  Counts,                    \* what offerToReceiveAudio and -Video may ask for
  Bundle,                    \* the BUNDLE choices of the remote peer
  Rejects,                   \* m-line rejections the remote peer may use
  Directions,                \* directions of a remote m-line
  InSdp                      \* remote descriptions carry candidates or not

Tracks == AudioTracks \cup VideoTracks
Kinds == {"audio", "video"}
Lines == 1 .. MaxLines

ASSUME BoundsAssumption == 
  /\ MaxLines \in Nat \ {0} /\ MaxTransports \in Nat
  /\ MaxRounds \in Nat /\ MaxMoves \in Nat
ASSUME NoneAssumption == None \notin Tracks \cup Streams
ASSUME RemoteAssumption ==
  /\ Bundle \subseteq BOOLEAN /\ Rejects \subseteq BOOLEAN
  /\ InSdp \subseteq BOOLEAN
  /\ Directions \subseteq {"sendrecv", "sendonly", "recvonly", "inactive"}
  /\ TRUE \in InSdp => Candidates # {}

VARIABLES
  transceivers,        \* the m-lines, in order
  transports,          \* the ICE and DTLS transport pairs
  created,             \* transports created so far
  signalingState, isClosed, usingBundle,
  localStreams,
  needNegotiation,     \* set exactly while its zero-delay timer is pending
  iceConnectionState, connectionState,
  pending,             \* the description createOffer or createAnswer made last
  localLines,          \* sections of the local offer applied last
  remoteLines,         \* sections of remoteDescription, 0 before there is one
  mlines,              \* m-lines the two peers agreed on
  timers,              \* pending four second timers
  rounds,              \* remote descriptions applied
  refused,             \* history: some remote description rejected an m-line
  moves,               \* native state changes so far
  seen,                \* what the application was told by the last events
  unannounced          \* tracks added while stable and not yet announced

mvars == <<transceivers, transports, created>>
svars == <<signalingState, isClosed, usingBundle, pending, localLines, remoteLines, mlines,
           timers, rounds, refused>>
evars == <<localStreams, needNegotiation, unannounced>>
cvars == <<iceConnectionState, connectionState, moves>>
vars == <<mvars, svars, evars, cvars, seen>>

KindOf(t) == IF t \in AudioTracks THEN "audio" ELSE "video"

(* A new transceiver; tp is the transport it uses, 0 for undefined.          *)
Blank(kind, tp) ==
  [kind |-> kind, track |-> None, stream |-> None, tp |-> tp, gath |-> FALSE,
   recv |-> "none", want |-> TRUE, sending |-> FALSE, rejected |-> FALSE]

(* The object that replaces a transceiver whose m-line was rejected: it has  *)
(* no transport, no sender, no receiver.                                     *)
RejectedLine(kind) == [Blank(kind, 0) EXCEPT !.want = FALSE, !.rejected = TRUE]

NewTransport == [ice |-> "new", dtls |-> "new", remote |-> {}, ends |-> 0]

Init ==
  /\ transceivers = <<>>
  /\ transports = [t \in 1 .. MaxTransports |-> NewTransport]
  /\ created = 0
  /\ signalingState = "stable" /\ isClosed = FALSE
  /\ usingBundle \in Bundle  \* bundlePolicy 'max-bundle'
  /\ localStreams = {} /\ needNegotiation = FALSE
  /\ iceConnectionState = "new" /\ connectionState = "new"
  /\ pending = [type |-> "none", lines |-> 0]
  /\ localLines = 0 /\ remoteLines = 0 /\ mlines = 0
  /\ timers = 0 /\ rounds = 0 /\ refused = FALSE /\ moves = 0
  /\ seen = [signaling |-> "stable", ice |-> "new", connection |-> "new"]
  /\ unannounced = {}

-----------------------------------------------------------------------------
(* Events.                                                                   *)

Tell_Bug(closed, field, value) == seen' = [seen EXCEPT ![field] = value]

(* _dispatchEvent: nothing reaches the application once it is closed.        *)
Tell(closed, field, value) ==
  seen' = IF closed THEN seen ELSE [seen EXCEPT ![field] = value]

IsActionAllowed_Bug(side, type) ==
  signalingState \in
    CASE type = "offer" -> {"stable", "have-local-offer", "have-remote-offer"}
      [] type = "answer" -> {IF side = "local" THEN "have-remote-offer" ELSE "have-local-offer"}

(* The signalling state machine: isActionAllowedInSignalingState.            *)
IsActionAllowed(side, type) ==
  signalingState \in
    CASE type = "offer" -> {"stable", IF side = "local" THEN "have-local-offer" ELSE "have-remote-offer"}
      [] type = "answer" -> {IF side = "local" THEN "have-remote-offer" ELSE "have-local-offer"}

UpdateSignalingState(new, closed) ==
  /\ signalingState' = new
  /\ Tell(closed, "signaling", new)

(* The timer the flag stands for fires the event later (NegotiationTimer).   *)
MaybeFireNegotiationNeeded ==
  needNegotiation' = (needNegotiation \/ signalingState = "stable")

-----------------------------------------------------------------------------
(* Aggregated states, over the transports of the m-lines that are not        *)
(* rejected.                                                                 *)

LiveTransports == 
  {transceivers[i].tp : i \in {j \in DOMAIN transceivers : ~transceivers[j].rejected}} \ {0}

First(states, order, default) ==
  LET hits == {k \in DOMAIN order : order[k] \in states}
  IN IF hits = {} THEN default ELSE order[Min(hits)]

AggregateIce_Bug(tps) ==
  First({tps[t].ice : t \in LiveTransports},
        <<"checking", "connected", "completed", "disconnected", "failed", "new">>, "new")

AggregateIce(tps) ==
  First({tps[t].ice : t \in LiveTransports},
        <<"failed", "checking", "disconnected", "new", "connected", "completed">>, "new")

(* 'checking' is no key of the counters, so a checking transport counts for  *)
(* nothing.                                                                  *)
AggregateConnection(tps) ==
  LET s == First({tps[t].ice : t \in LiveTransports} \cup {tps[t].dtls : t \in LiveTransports},
                 <<"failed", "connecting", "disconnected", "new", "connected", "completed">>, "new")
  IN IF s = "completed" THEN "connected" ELSE s

UpdateConnectionState(tps) ==
  /\ connectionState' = AggregateConnection(tps)
  /\ UNCHANGED iceConnectionState
  /\ Tell(isClosed, "connection", AggregateConnection(tps))

UpdateIceAndConnectionState_Bug(tps) ==
  /\ iceConnectionState' = AggregateIce(tps)
  /\ connectionState' = AggregateConnection(tps)
  /\ Tell(isClosed, "ice", AggregateIce(tps))

UpdateIceAndConnectionState(tps) ==
  /\ iceConnectionState' = AggregateIce(tps)
  /\ connectionState' = AggregateConnection(tps)
  /\ seen' = IF isClosed THEN seen
             ELSE [seen EXCEPT !.ice = AggregateIce(tps), !.connection = AggregateConnection(tps)]

-----------------------------------------------------------------------------
(* Local tracks.                                                             *)

(* _createTransceiver: with BUNDLE every m-line but the first takes the      *)
(* first one's transports.                                                   *)
Shares(seq) == usingBundle /\ seq # <<>>
WithNew(seq, kind, n) == Append(seq, Blank(kind, IF Shares(seq) THEN seq[1].tp ELSE n + 1))
CountNew_Bug(seq, n) == IF usingBundle THEN n ELSE n + 1

CountNew(seq, n) == IF Shares(seq) THEN n ELSE n + 1

AddTrack(t, s) ==
  LET free == {i \in DOMAIN transceivers :
                 transceivers[i].track = None /\ transceivers[i].kind = KindOf(t)}
      extended == IF free = {} THEN WithNew(transceivers, KindOf(t), created) ELSE transceivers
      i == IF free = {} THEN Len(extended) ELSE Max(free)
  IN /\ ~isClosed
     /\ \A j \in DOMAIN transceivers : transceivers[j].track # t
     /\ Len(extended) <= MaxLines
     /\ created' = IF free = {} THEN CountNew(transceivers, created) ELSE created
     /\ created' <= MaxTransports
     /\ transceivers' = [extended EXCEPT ![i].track = t, ![i].stream = s, ![i].sending = FALSE]
     /\ localStreams' = localStreams \cup {s}
     /\ MaybeFireNegotiationNeeded
     /\ unannounced' = IF signalingState = "stable" THEN unannounced \cup {t} ELSE unannounced
     /\ UNCHANGED <<transports, svars, cvars, seen>>

RemoveTrack_Bug(i) ==
  /\ ~isClosed
  /\ transceivers[i].track # None
  /\ transceivers' = [transceivers EXCEPT ![i].track = None, ![i].stream = None, ![i].sending = FALSE]
  /\ localStreams' = localStreams \ {transceivers[i].stream}
  /\ MaybeFireNegotiationNeeded
  /\ unannounced' = unannounced \ {transceivers[i].track}
  /\ UNCHANGED <<transports, created, svars, cvars, seen>>

RemoveTrack(i) ==
  LET s == transceivers[i].stream
      left == [transceivers EXCEPT ![i].track = None, ![i].stream = None, ![i].sending = FALSE]
  IN /\ ~isClosed
     /\ transceivers[i].track # None
     /\ transceivers' = left
     /\ localStreams' = IF \E j \in DOMAIN left : left[j].stream = s
                        THEN localStreams ELSE localStreams \ {s}
     /\ MaybeFireNegotiationNeeded
     /\ unannounced' = unannounced \ {transceivers[i].track}
     /\ UNCHANGED <<transports, created, svars, cvars, seen>>

NegotiationTimer_Bug ==
  /\ needNegotiation /\ signalingState = "stable"
  /\ needNegotiation' = FALSE
  /\ unannounced' = {}
  /\ UNCHANGED <<mvars, svars, cvars, localStreams, seen>>

(* The zero-delay timer of _maybeFireNegotiationNeeded.                      *)
NegotiationTimer ==
  /\ needNegotiation
  /\ needNegotiation' = FALSE
  /\ unannounced' = IF isClosed THEN unannounced ELSE {}
  /\ UNCHANGED <<mvars, svars, cvars, localStreams, seen>>

-----------------------------------------------------------------------------
(* Local descriptions.                                                       *)

OfKind(kind) == {i \in DOMAIN transceivers : transceivers[i].kind = kind}

(* wantReceive is dropped for the m-lines of a kind beyond the number asked  *)
(* for, and never set again.                                                 *)
Wanted(i, num) == 
  LET k == transceivers[i].kind
  IN transceivers[i].want /\ Cardinality({j \in OfKind(k) : j <= i}) <= num[k]

(* createOffer.  num is how many m-lines of a kind are to receive: by        *)
(* default those there are, or 0 or 1 by offerToReceiveAudio and             *)
(* offerToReceiveVideo.  A transceiver without a transport (a rejected       *)
(* m-line, or one bundled with it) makes writeMediaSection throw when all    *)
(* the transceivers have been changed already: then there is no offer.       *)
CreateOffer(num) ==
  LET wants == [i \in DOMAIN transceivers |->
                  [transceivers[i] EXCEPT !.want = Wanted(i, num)]]
      a == num["audio"] > Cardinality(OfKind("audio"))
      v == num["video"] > Cardinality(OfKind("video"))
      withA == IF a THEN WithNew(wants, "audio", created) ELSE wants
      createdA == IF a THEN CountNew(wants, created) ELSE created
      withV == IF v THEN WithNew(withA, "video", createdA) ELSE withA
  IN /\ ~isClosed
     /\ Len(withV) \in Lines
     /\ created' = IF v THEN CountNew(withA, createdA) ELSE createdA
     /\ created' <= MaxTransports
     /\ transceivers' = [i \in DOMAIN withV |->
          [withV[i] EXCEPT !.gath = TRUE, !.recv = IF withV[i].want THEN "idle" ELSE @]]
     /\ pending' = IF \A i \in DOMAIN withV : withV[i].tp # 0
                   THEN [type |-> "offer", lines |-> Len(withV)]
                   ELSE [type |-> "none", lines |-> 0]
     /\ UNCHANGED <<transports, signalingState, isClosed, usingBundle, localLines, remoteLines,
                    mlines, timers, rounds, refused, evars, cvars, seen>>

(* createAnswer throws in writeMediaSection as well when an accepted m-line  *)
(* has no transport.                                                         *)
CreateAnswer ==
  /\ ~isClosed
  /\ signalingState = "have-remote-offer"
  /\ \A i \in 1 .. remoteLines : transceivers[i].rejected \/ transceivers[i].tp # 0
  /\ pending' = [type |-> "answer", lines |-> remoteLines]
  /\ UNCHANGED <<mvars, signalingState, isClosed, usingBundle, localLines, remoteLines,
                 mlines, timers, rounds, refused, evars, cvars, seen>>

(* setLocalDescription of an offer: every transceiver starts to gather, and  *)
(* one that came after the offer has no gatherer, which throws before the    *)
(* state changes.                                                            *)
SetLocalOffer ==
  /\ pending.type = "offer"
  /\ IsActionAllowed("local", "offer") /\ ~isClosed
  /\ \A i \in DOMAIN transceivers : transceivers[i].gath
  /\ pending' = [pending EXCEPT !.type = "none"]
  /\ localLines' = pending.lines
  /\ UpdateSignalingState("have-local-offer", isClosed)
  /\ UNCHANGED <<mvars, isClosed, usingBundle, remoteLines, mlines, timers, rounds,
                 refused, evars, cvars>>

Started(t) == [t EXCEPT !.ice = IF @ = "new" THEN "checking" ELSE @,
                        !.dtls = IF @ = "new" THEN "connecting" ELSE @]

SetLocalAnswer_Bug ==
  /\ pending.type = "answer"
  /\ IsActionAllowed("local", "answer") /\ ~isClosed
  /\ transports' = [t \in DOMAIN transports |->
       IF t = transceivers[1].tp THEN Started(transports[t]) ELSE transports[t]]
  /\ pending' = [pending EXCEPT !.type = "none"]
  /\ mlines' = remoteLines
  /\ UpdateSignalingState("stable", isClosed)
  /\ UNCHANGED <<transceivers, created, isClosed, usingBundle, localLines, remoteLines,
                 timers, rounds, refused, evars, cvars>>

(* setLocalDescription of an answer: the transports of the accepted m-lines  *)
(* start (only the first one's with BUNDLE), and so do the senders.          *)
SetLocalAnswer ==
  LET accepted == {i \in 1 .. remoteLines : ~transceivers[i].rejected}
      starting == {transceivers[i].tp : i \in {j \in accepted : j = 1 \/ ~usingBundle}}
  IN /\ pending.type = "answer"
     /\ IsActionAllowed("local", "answer") /\ ~isClosed
     /\ transports' = [t \in DOMAIN transports |->
          IF t \in starting THEN Started(transports[t]) ELSE transports[t]]
     /\ transceivers' = [i \in DOMAIN transceivers |->
          IF i \in accepted
          THEN [transceivers[i] EXCEPT !.sending = @ \/ transceivers[i].track # None]
          ELSE transceivers[i]]
     /\ pending' = [pending EXCEPT !.type = "none"]
     /\ mlines' = remoteLines
     /\ UpdateSignalingState("stable", isClosed)
     /\ UNCHANGED <<created, isClosed, usingBundle, localLines, remoteLines, timers, rounds,
                    refused, evars, cvars>>

-----------------------------------------------------------------------------
(* Remote descriptions.                                                      *)

(* The sections a remote peer may send: an offer keeps the m-lines agreed so *)
(* far and their kinds, an answer has the sections of the offer.             *)
Sections(type) ==
  {secs \in UNION {[1 .. n -> [kind : Kinds, rejected : Rejects, dir : Directions]] :
                     n \in IF type = "answer" THEN {localLines} ELSE Max({1, mlines}) .. MaxLines} :
     \A i \in DOMAIN secs : 
       (type = "answer" \/ i <= mlines) => secs[i].kind = transceivers[i].kind}

Sends(sec) == sec.dir \in {"sendrecv", "sendonly"}
Receives(sec) == sec.dir \in {"sendrecv", "recvonly"}

Kept(secs) == {i \in DOMAIN secs : ~secs[i].rejected}

(* A section makes a transceiver when there is none yet at its index, and    *)
(* recycles a rejected one.                                                  *)
IsNew(secs, i) ==
  i \in Kept(secs) /\ (i > Len(transceivers) \/ transceivers[i].rejected)

(* Transports are created for a new transceiver unless the description       *)
(* bundles and there is some transceiver already, the rejected one of m-line *)
(* 1 included.                                                               *)
Fresh(secs, bundle) ==
  {i \in DOMAIN secs : IsNew(secs, i) /\ ~(bundle /\ (i > 1 \/ transceivers # <<>>))}

(* The transport of section i: _createTransceiver, then the check "if we can *)
(* use BUNDLE", which disposes an m-line's own transport for the first one's *)
(* without stopping it.                                                      *)
FirstTp(secs, bundle) == 
  IF 1 \notin Kept(secs) THEN 0
  ELSE IF 1 \in Fresh(secs, bundle) THEN created + 1
  ELSE transceivers[1].tp
Tp(secs, bundle, i) ==
  IF bundle /\ i > 1 THEN FirstTp(secs, bundle)
  ELSE IF i \in Fresh(secs, bundle)
       THEN created + Cardinality({j \in Fresh(secs, bundle) : j <= i})
       ELSE transceivers[i].tp

Base_Bug(secs, bundle, i) ==
  LET old == IF IsNew(secs, i) THEN Blank(secs[i].kind, 0) ELSE transceivers[i]
      keep == old.tp # 0 /\ transports[old.tp].ice # "new"
  IN [old EXCEPT !.tp = IF keep THEN @ ELSE Tp(secs, bundle, i),
                 !.gath = keep \/ (bundle /\ i > 1)]

Base(secs, bundle, i) ==
  LET old == IF IsNew(secs, i) THEN Blank(secs[i].kind, 0) ELSE transceivers[i]
  IN [old EXCEPT !.tp = Tp(secs, bundle, i),
                 !.gath = IF bundle /\ i > 1 THEN 1 \in Kept(secs) ELSE old.gath]

OfferedLine_Bug(secs, bundle, i) ==
  LET old == Base(secs, bundle, i) IN
  [old EXCEPT !.gath = TRUE, !.sending = old.track # None,
              !.recv = IF Sends(secs[i]) THEN "receiving" ELSE "none"]

(* An offered section: the receiver is created, and started, only when there *)
(* was none; it is dropped when the remote peer does not send.               *)
OfferedLine(secs, bundle, i) ==
  LET old == Base(secs, bundle, i) IN
  [old EXCEPT !.gath = @ \/ ~bundle \/ i = 1,
              !.recv = IF ~Sends(secs[i]) THEN "none"
                       ELSE IF @ = "none" THEN "receiving" ELSE @]

(* An answered section: sender and receiver start as the answer's direction  *)
(* says.                                                                     *)
AnsweredLine(secs, bundle, i) ==
  LET old == Base(secs, bundle, i) IN
  [old EXCEPT !.sending = @ \/ (Receives(secs[i]) /\ old.track # None),
              !.recv = IF Sends(secs[i]) /\ @ # "none" THEN "receiving" ELSE "none"]

RemoteLine(type, secs, bundle, i) ==
  IF i \notin DOMAIN secs THEN transceivers[i]
  ELSE IF secs[i].rejected THEN RejectedLine(secs[i].kind)
  ELSE IF type = "offer" THEN OfferedLine(secs, bundle, i)
  ELSE AnsweredLine(secs, bundle, i)

(* The first section whose candidates find no transport: reading its state   *)
(* throws, and the call stops there.                                         *)
Broken(secs, bundle) == {i \in Kept(secs) : Tp(secs, bundle, i) = 0}

(* Candidates of the description go to transports that have not started.     *)
WithSdpCandidates(tps, secs, bundle) ==
  [t \in DOMAIN tps |->
     IF tps[t].ice = "new" /\ \E i \in Kept(secs) : Tp(secs, bundle, i) = t
     THEN [tps[t] EXCEPT !.remote = @ \cup {CHOOSE c \in Candidates : TRUE}] ELSE tps[t]]

(* History, for LinesAgree.                                                  *)
Remember(secs) == refused' = (refused \/ \E i \in DOMAIN secs : secs[i].rejected)

SetRemoteDescription(type, secs, bundle, cands) ==
  LET n == Max({Len(secs), Len(transceivers)})
      received == IF cands THEN WithSdpCandidates(transports, secs, bundle) ELSE transports
      starting == {Tp(secs, bundle, i) : i \in {j \in Kept(secs) : j = 1 \/ ~bundle}}
  IN /\ IsActionAllowed("remote", type) /\ ~isClosed
     /\ rounds < MaxRounds /\ rounds' = rounds + 1 /\ Remember(secs)
     /\ ~(cands /\ Broken(secs, bundle) # {})
     /\ created' = created + Cardinality(Fresh(secs, bundle))
     /\ created' <= MaxTransports
     /\ usingBundle' = bundle
     /\ transceivers' = [i \in 1 .. n |-> RemoteLine(type, secs, bundle, i)]
     /\ transports' = [t \in DOMAIN transports |->
          IF type = "answer" /\ t \in starting THEN Started(received[t]) ELSE received[t]]
     /\ remoteLines' = Len(secs)
     /\ mlines' = IF type = "answer" THEN Len(secs) ELSE mlines
     /\ pending' = [type |-> "none", lines |-> 0]
     /\ timers' = timers + 1
     /\ UpdateSignalingState(IF type = "offer" THEN "have-remote-offer" ELSE "stable", isClosed)
     /\ UNCHANGED <<isClosed, localLines, evars, cvars>>

SetRemoteDescriptionThrows_Bug(type, secs, bundle) ==
  /\ IsActionAllowed("remote", type) /\ ~isClosed
  /\ rounds < MaxRounds /\ rounds' = rounds + 1 /\ Remember(secs)
  /\ Broken(secs, bundle) # {}
  /\ transceivers' = [i \in 1 .. Max({Len(secs), Len(transceivers)}) |->
                        RemoteLine(type, secs, bundle, i)]
  /\ usingBundle' = bundle
  /\ signalingState' = IF type = "offer" THEN "have-remote-offer" ELSE "stable"
  /\ UNCHANGED <<created, transports, isClosed, pending, localLines, remoteLines, mlines, timers,
                 evars, cvars, seen>>

(* The call that throws on section b: the sections before b are applied, b   *)
(* has its new transport only, and the signalling state stays.               *)
SetRemoteDescriptionThrows(type, secs, bundle) ==
  LET b == Min(Broken(secs, bundle))
      n == Max({b, Len(transceivers)})
      before == {i \in Kept(secs) : i < b}
      starting == {Tp(secs, bundle, i) : i \in {j \in before : j = 1 \/ ~bundle}}
      fresh == {i \in Fresh(secs, bundle) : i < b}
  IN /\ IsActionAllowed("remote", type) /\ ~isClosed
     /\ rounds < MaxRounds /\ rounds' = rounds + 1 /\ Remember(secs)
     /\ Broken(secs, bundle) # {}
     /\ created' = created + Cardinality(fresh)
     /\ created' <= MaxTransports
     /\ usingBundle' = bundle
     /\ transceivers' = [i \in 1 .. n |-> 
          IF i < b THEN RemoteLine(type, secs, bundle, i)
          ELSE IF i = b THEN [Base(secs, bundle, i) EXCEPT
                                !.gath = @ \/ (type = "offer" /\ (~bundle \/ i = 1))]
          ELSE transceivers[i]]
     /\ transports' = LET received == WithSdpCandidates(transports, secs, bundle)
                      IN [t \in DOMAIN transports |->
                            IF t \notin {Tp(secs, bundle, i) : i \in before} THEN transports[t]
                            ELSE IF type = "answer" /\ t \in starting THEN Started(received[t])
                            ELSE received[t]]
     /\ pending' = [type |-> "none", lines |-> 0]
     /\ UNCHANGED <<signalingState, isClosed, localLines, remoteLines, mlines, timers,
                    evars, cvars, seen>>

-----------------------------------------------------------------------------
(* Candidates.                                                               *)

End(t) == [t EXCEPT !.ends = IF @ < 2 THEN @ + 1 ELSE @]

(* addIceCandidate of a candidate for m-line i: a bundled m-line's candidate *)
(* is kept out of the first one's transport, a candidate the transport has   *)
(* already is refused.                                                       *)
AddIceCandidate(c, i) ==
  LET t == transceivers[i].tp IN
  /\ remoteLines # 0
  /\ ~transceivers[i].rejected /\ t # 0 /\ transports[t].ice # "closed"
  /\ i = 1 \/ t # transceivers[1].tp
  /\ c \notin transports[t].remote
  /\ transports' = [transports EXCEPT ![t].remote = @ \cup {c}]
  /\ UNCHANGED <<transceivers, created, svars, evars, cvars, seen>>

(* addIceCandidate of the end: for the first accepted m-line only when       *)
(* bundling, else for each.                                                  *)
EndOfCandidates ==
  LET live == {i \in DOMAIN transceivers : ~transceivers[i].rejected}
      lines == IF usingBundle /\ live # {} THEN {Min(live)} ELSE live
      ended == {transceivers[i].tp : i \in lines}
  IN /\ remoteLines # 0 /\ Candidates # {}
     /\ transports' = [t \in DOMAIN transports |->
          IF t \in ended THEN End(transports[t]) ELSE transports[t]]
     /\ UNCHANGED <<transceivers, created, svars, evars, cvars, seen>>

(* The timer setRemoteDescription starts: a transport that is still waiting  *)
(* to start and has candidates is told there are no more.                    *)
FourSecondTimer ==
  LET waiting == {transceivers[i].tp : i \in DOMAIN transceivers}
  IN /\ timers > 0
     /\ timers' = timers - 1
     /\ transports' = [t \in DOMAIN transports |->
          IF t \in waiting /\ transports[t].ice = "new" /\ transports[t].remote # {}
          THEN End(transports[t]) ELSE transports[t]]
     /\ UNCHANGED <<transceivers, created, signalingState, isClosed, usingBundle, pending,
                    localLines, remoteLines, mlines, rounds, refused, evars, cvars, seen>>

-----------------------------------------------------------------------------
(* Closing, and the events of the native transports.                         *)

(* close stops what the transceivers refer to, and nothing else.             *)
Close ==
  LET owned == {transceivers[i].tp : i \in DOMAIN transceivers}
  IN /\ transports' = [t \in DOMAIN transports |->
          IF t \in owned THEN [transports[t] EXCEPT !.ice = "closed", !.dtls = "closed"]
          ELSE transports[t]]
     /\ transceivers' = [i \in DOMAIN transceivers |->
          [transceivers[i] EXCEPT !.sending = FALSE, !.recv = IF @ = "none" THEN @ ELSE "stopped"]]
     /\ isClosed' = TRUE
     /\ UpdateSignalingState("closed", TRUE)
     /\ UNCHANGED <<created, usingBundle, pending, localLines, remoteLines, mlines, timers,
                    rounds, refused, evars, cvars>>

(* What the browser's ICE and DTLS transports do on their own.  Deleting a   *)
(* handler attribute leaves the handler in place (the attribute lives on the *)
(* prototype), so a disposed transport reports too.                          *)
IceMoves == [checking |-> {"connected", "failed"}, connected |-> {"disconnected", "completed"},
             completed |-> {"disconnected"}, disconnected |-> {"connected", "failed"}]

IceStateChange(t, s) ==
  /\ moves < MaxMoves /\ moves' = moves + 1
  /\ transports[t].ice \in DOMAIN IceMoves
  /\ s \in IceMoves[transports[t].ice]
  /\ transports' = [transports EXCEPT ![t].ice = s]
  /\ UpdateIceAndConnectionState(transports')
  /\ UNCHANGED <<transceivers, created, svars, evars>>

(* ondtlsstatechange, or onerror, which sets the state to failed itself.     *)
DtlsStateChange(t, s) ==
  /\ moves < MaxMoves /\ moves' = moves + 1
  /\ \/ transports[t].dtls = "connecting" /\ transports[t].ice \in {"connected", "completed"}
     \/ transports[t].dtls = "connected" /\ s = "failed"
  /\ transports' = [transports EXCEPT ![t].dtls = s]
  /\ UpdateConnectionState(transports')
  /\ UNCHANGED <<transceivers, created, svars, evars>>

Next ==
  \/ \E t \in Tracks, s \in Streams : AddTrack(t, s)
  \/ \E i \in DOMAIN transceivers : RemoveTrack(i)
  \/ NegotiationTimer
  \/ \E num \in [Kinds -> Counts] : CreateOffer(num)
  \/ CreateOffer([k \in Kinds |-> Cardinality(OfKind(k))])
  \/ CreateAnswer
  \/ SetLocalOffer
  \/ SetLocalAnswer
  \/ \E type \in {"offer", "answer"}, bundle \in Bundle :
       \E secs \in Sections(type) :
         \/ \E cands \in InSdp : SetRemoteDescription(type, secs, bundle, cands)
         \/ TRUE \in InSdp /\ SetRemoteDescriptionThrows(type, secs, bundle)
  \/ \E c \in Candidates, i \in DOMAIN transceivers : AddIceCandidate(c, i)
  \/ EndOfCandidates
  \/ FourSecondTimer
  \/ Close
  \/ \E t \in 1 .. created :
       \/ \E s \in {"connected", "completed", "disconnected", "failed"} : IceStateChange(t, s)
       \/ \E s \in {"connected", "failed"} : DtlsStateChange(t, s)

Spec == Init /\ [][Next]_vars /\ WF_vars(NegotiationTimer)

-----------------------------------------------------------------------------
(* Properties.                                                               *)

LineType(n) ==
  [kind : Kinds, track : Tracks \cup {None}, stream : Streams \cup {None}, tp : 0 .. n,
   gath : BOOLEAN, recv : {"none", "idle", "receiving", "stopped"}, want : BOOLEAN,
   sending : BOOLEAN, rejected : BOOLEAN]

IceStates == {"new", "checking", "connected", "completed", "disconnected", "failed", "closed"}
DtlsStates == {"new", "connecting", "connected", "failed", "closed"}
TransportType == [ice : IceStates, dtls : DtlsStates, remote : SUBSET Candidates, ends : 0 .. 2]

(* Every variable has its type: no m-line refers to a transport that was     *)
(* never created, whatever the order of bundling, recycling and rejecting.   *)
TypeOK ==
  /\ created \in 0 .. MaxTransports
  /\ transceivers \in Seq(LineType(created)) /\ Len(transceivers) <= MaxLines
  /\ transports \in [1 .. MaxTransports -> TransportType]
  /\ signalingState \in {"stable", "have-local-offer", "have-remote-offer", "closed"}
  /\ isClosed \in BOOLEAN /\ usingBundle \in BOOLEAN /\ needNegotiation \in BOOLEAN
  /\ refused \in BOOLEAN
  /\ localStreams \subseteq Streams /\ unannounced \subseteq Tracks
  /\ iceConnectionState \in IceStates /\ connectionState \in IceStates \cup DtlsStates
  /\ pending \in [type : {"none", "offer", "answer"}, lines : 0 .. MaxLines]
  /\ {localLines, remoteLines, mlines} \subseteq 0 .. MaxLines
  /\ moves \in 0 .. MaxMoves /\ timers \in 0 .. MaxRounds /\ rounds \in 0 .. MaxRounds

(* The signalling state machine is the one offers and answers promise        *)
(* (module Jsep): guards of set*Description, and the closed flag, taken      *)
(* together over any sequence of calls.                                      *)
Promise == INSTANCE Jsep
JsepSpec == Promise!Spec

(* As long as the connection is open, the states its events told the         *)
(* application are the states it is in: no update of a state goes without    *)
(* its event (_updateSignalingState, _updateIceConnectionState,              *)
(* _updateConnectionState).                                                  *)
ToldWhileOpen ==
  ~isClosed => seen = [signaling |-> signalingState, ice |-> iceConnectionState,
                       connection |-> connectionState]

(* After close no event reaches the application, whatever the transports and *)
(* the timers still do.                                                      *)
SilentAfterClose == [][isClosed => seen' = seen]_vars

(* getLocalStreams is the set of the streams of the tracks being sent: two   *)
(* tracks of one stream keep it until both are removed.                      *)
LocalStreamsOfTracks ==
  localStreams = {transceivers[i].stream : i \in DOMAIN transceivers} \ {None}

HasStarted(t) == t # 0 /\ transports[t].ice # "new" /\ transports[t].dtls # "new"

(* When a negotiation is over, each m-line it accepted has transports that   *)
(* were started, its own or the first one's, however bundling changed        *)
(* between negotiations.                                                     *)
NegotiatedLinesStarted ==
  signalingState = "stable" =>
    \A i \in 1 .. mlines : transceivers[i].rejected \/ HasStarted(transceivers[i].tp)

(* A sender sends only over transports that were started.                    *)
SendingStarted ==
  \A i \in DOMAIN transceivers : transceivers[i].sending => HasStarted(transceivers[i].tp)

(* After a negotiation with BUNDLE all the agreed m-lines use the first      *)
(* one's transports.                                                         *)
BundledTogether ==
  (signalingState = "stable" /\ usingBundle) =>
    \A i \in 1 .. mlines : transceivers[i].tp = transceivers[1].tp

(* The m-lines of a connection (createOffer to close): what is sent belongs  *)
(* to a track, and agreed m-lines run on started transports, shared as       *)
(* BUNDLE says.  A rejection takes an m-line away with its track and its     *)
(* transport, so this is a promise until the first one.                      *)
LinesAgree ==
  ~refused => /\ LocalStreamsOfTracks /\ NegotiatedLinesStarted
              /\ SendingStarted /\ BundledTogether

(* An ICE transport some m-line uses and that has failed is reported: the    *)
(* aggregate stays failed whatever events and negotiations follow.           *)
FailureReported ==
  (\E t \in LiveTransports : transports[t].ice = "failed") => iceConnectionState = "failed"

(* _updateConnectionState and its kin: whatever transports report, whatever  *)
(* is rejected and wherever a description fails, the m-lines are well        *)
(* formed, and the application has been told the states and hears of a       *)
(* failure.                                                                  *)
ToldRight == TypeOK /\ ToldWhileOpen /\ FailureReported

(* A track added in the stable state is announced by negotiationneeded, or   *)
(* removed, or the connection closes: the flag that merges announcements     *)
(* loses none.                                                               *)
Announced == (unannounced # {}) ~> (unannounced = {} \/ isClosed)

(* Applications that answer an offer before they make another.               *)
AnswersFirst == signalingState = "have-remote-offer" => pending'.type # "offer"
AnswerSpec == Init /\ [][Next /\ AnswersFirst]_vars /\ WF_vars(NegotiationTimer)

(* "Start the RTCRtpSender. The RTCRtpReceiver for this transceiver has      *)
(* already been started in setRemoteDescription": when the answer to a       *)
(* remote offer is set, no m-line of it is left with a receiver that was     *)
(* created and not started.                                                  *)
ReceiversStarted ==
  [][signalingState = "have-remote-offer" /\ signalingState' = "stable" =>
       \A i \in 1 .. mlines' : transceivers'[i].recv # "idle"]_vars
=============================================================================
