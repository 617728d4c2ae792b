---------------------------- MODULE Negotiation ----------------------------
(* Two pages with the adapter's peer connection (adapter-7.4.0.js, module    *)
(* 16) negotiate the parameters of one m-line: capabilities, payload types,  *)
(* header extensions, SSRCs, retransmission and RTCP, in rounds of an offer  *)
(* and an answer from either side.  OrtcPeer has the states, the transports  *)
(* and the events of one connection; here only what the descriptions say     *)
(* about the m-line counts, and the text is that of Sdp.                     *)
EXTENDS Sdp

CONSTANTS
  Peers,
  Kind,            \* "audio" or "video"
  Names,           \* names of codecs a browser may have
  Bases,           \* first payload type of a browser's own numbering
  Modern,          \* edgeVersion is 15019 or more: retransmission is offered
  WantReceive,     \* offerToReceive of createOffer
  MaxRounds        \* bound: offers made

VARIABLES
  native,    \* what getCapabilities of each browser returns, and its version
  line,      \* the transceiver of each peer
  wire,      \* the description on its way, <<>> for none
  offerer,   \* whose offer is open, <<>> when both are stable
  rounds     \* offers made

vars == <<native, line, wire, offerer, rounds>>

Other(p) == CHOOSE q \in Peers : q # p

-----------------------------------------------------------------------------
(* The browser: its codecs in the order it prefers, each video codec with a  *)
(* retransmission codec; payload types count from a base, codec by codec.    *)

Codec(name, pt, channels, feedback) ==
  [name |-> name, preferredPayloadType |-> pt, payloadType |-> Undefined,
   clockRate |-> CASE name = "opus" -> 48000 [] name = "PCMU" -> 8000 [] OTHER -> 90000,
   channels |-> 0, numChannels |-> channels, rtcpFeedback |-> feedback,
   parameters |-> IF name = "H264" THEN <<[key |-> "level", value |-> <<"42e01f">>]>> ELSE <<>>]

Rtx(pt, apt) == 
  [Codec("rtx", pt, 1, <<>>) EXCEPT !.parameters = <<[key |-> "apt", value |-> <<apt>>]>>]

Nack == [type |-> "nack", parameter |-> <<>>]
NackPli == [type |-> "nack", parameter |-> <<"pli">>]

Preferences == UNION {SetToSeqs(s) : s \in SUBSET Names \ {{}}}

NativeCapabilities(names, base, channels, feedback, extension) ==
  [codecs |-> FlattenSeq([i \in DOMAIN names |->
     LET pt == base + IF names[i] \in {"VP8", "opus"} THEN 2 ELSE 4
     IN <<Codec(names[i], pt, channels, feedback)>> 
        \o (IF Kind = "video" THEN <<Rtx(pt + 1, pt)>> ELSE <<>>)]),
   headerExtensions |-> <<[id |-> extension, direction |-> "", uri |-> "mid"]>>,
   fecMechanisms |-> {}]

NativeStates ==
  {[caps |-> NativeCapabilities(n, b, c, f, b), modern |-> m] :
     n \in Preferences, b \in Bases, m \in Modern,
     c \in IF Kind = "audio" THEN {1, 2} ELSE {1},
     f \in IF Kind = "video" THEN {<<Nack, NackPli>>, <<NackPli>>} ELSE {<<>>}}

(* getCapabilities, less the retransmission codecs an old Edge cannot use.   *)
LocalCapabilities(p) ==
  LET caps == native[p].caps
  IN IF native[p].modern THEN caps
     ELSE [caps EXCEPT !.codecs = SelectSeq(@, LAMBDA c : c.name # "rtx")]

-----------------------------------------------------------------------------
(* The transceiver.  sending and receiving are the parameters given to the   *)
(* RTCRtpSender and RTCRtpReceiver, <<>> before; send has ssrc 0 until there *)
(* are encodings.                                                            *)

NoCaps == [codecs |-> <<>>, headerExtensions |-> <<>>, fecMechanisms |-> {}]
NoEncoding == [ssrc |-> 0, rtx |-> 0, fec |-> ""]

Blank(p) ==
  [exists |-> FALSE, rejected |-> FALSE, kind |-> Kind, mid |-> "m", sender |-> FALSE,
   receiver |-> FALSE, want |-> TRUE, stream |-> "-", track |-> "t", ice |-> <<"u", "pw">>,
   fingerprint |-> "fp", local |-> NoCaps, remote |-> NoCaps, send |-> NoEncoding,
   recv |-> <<>>, rtcp |-> [cname |-> "", ssrc |-> 0, compound |-> TRUE, mux |-> TRUE],
   sending |-> <<>>, receiving |-> <<>>]

Init ==
  /\ native \in [Peers -> NativeStates]
  /\ line = [p \in Peers |-> Blank(p)]
  /\ wire = <<>> /\ offerer = <<>> /\ rounds = 0

HasRtx(caps) == \E i \in DOMAIN caps.codecs : Lower(caps.codecs[i].name) = "rtx"

Common(l) == GetCommonCapabilities(l.local, l.remote)

(* _transceive.                                                              *)
Transceive(p, l, send, recv) ==
  LET params == Common(l)
      old == Kind = "video" /\ ~native[p].modern
      mine == IF old THEN Map(LAMBDA e : [e EXCEPT !.rtx = 0], l.recv) ELSE l.recv
  IN [l EXCEPT !.sending = IF send /\ l.sender
                           THEN <<[caps |-> params, enc |-> l.send, compound |-> l.rtcp.compound]>>
                           ELSE @,
               !.receiving = IF recv /\ l.receiver /\ params.codecs # <<>>
                             THEN <<[caps |-> params, recv |-> mine]>> ELSE @,
               !.recv = IF recv /\ l.receiver /\ params.codecs # <<>> THEN mine ELSE @]

AddRtx(p, l) ==
  IF native[p].modern /\ Kind = "video" /\ l.sender /\ l.send.rtx = 0
  THEN [l EXCEPT !.send.rtx = l.send.ssrc + 1] ELSE l

(* If the other side has no retransmission, ours is not announced.           *)
DropRtx(l) == IF HasRtx(Common(l)) THEN l ELSE [l EXCEPT !.send.rtx = 0]

-----------------------------------------------------------------------------

(* addTrack, for a line that is not rejected.                                *)
AddTrack(p) ==
  /\ ~line[p].sender /\ ~line[p].rejected
  /\ line' = [line EXCEPT ![p].sender = TRUE, ![p].exists = TRUE, ![p].stream = "s"]
  /\ UNCHANGED <<native, wire, offerer, rounds>>

Remapped_Bug(caps, remote) == caps

(* For later offers, payload types and extension numbers of the last remote  *)
(* description; the last match counts.                                       *)
Remapped(caps, remote) ==
  LET Same(c) == SelectSeq(remote.codecs, LAMBDA r : /\ Lower(r.name) = Lower(c.name)
                                                     /\ r.clockRate = c.clockRate)
      Level(c) == IF c.name = "H264" THEN <<[key |-> "asymmetry", value |-> <<1>>]>> ELSE <<>>
      Of(e) == SelectSeq(remote.headerExtensions, LAMBDA r : r.uri = e.uri)
  IN [caps EXCEPT
       !.codecs = Map(LAMBDA c :
         [c EXCEPT !.preferredPayloadType = IF Same(c) = <<>> THEN @ ELSE Last(Same(c)).payloadType,
                   !.parameters = @ \o Level(c)], @),
       !.headerExtensions = Map(LAMBDA e : 
         [e EXCEPT !.id = IF Of(e) = <<>> THEN @ ELSE Last(Of(e)).id], @)]

(* createOffer and setLocalDescription, which reads its own text back.       *)
Offer(p) ==
  /\ offerer = <<>> /\ rounds < MaxRounds
  /\ ~line[p].rejected  \* createOffer throws on a rejected line
  /\ \E want \in WantReceive :
       LET l == line[p]
           wants == l.want /\ want
           made == AddRtx(p, [l EXCEPT
                     !.exists = TRUE, !.want = wants, !.receiver = @ \/ wants,
                     !.receiving = IF wants THEN <<>> ELSE @,  \* a new RTCRtpReceiver
                     !.send = IF @.ssrc = 0 THEN [@ EXCEPT !.ssrc = 1001] ELSE @])
           section == WriteMediaSection(made, Remapped(LocalCapabilities(p), l.remote), p)
                      \o << <<"rtcp-rsize">> >>
       IN /\ l.exists \/ want
          /\ line' = [line EXCEPT ![p] = [made EXCEPT !.local = ParseRtpParameters(section)]]
          /\ wire' = <<[type |-> "offer", from |-> p, section |-> section]>>
  /\ offerer' = <<p>> /\ rounds' = rounds + 1
  /\ UNCHANGED native

(* What is left of a line that is rejected: an object without anything.      *)
Reject(p) == [Blank(p) EXCEPT !.exists = TRUE, !.rejected = TRUE]

(* setRemoteDescription of an offer.  The receiver starts, unless it already *)
(* runs; a line rejected before is made anew.                                *)
ReceiveOffer(q) ==
  /\ wire # <<>> /\ wire[1].type = "offer" /\ wire[1].from # q
  /\ LET section == wire[1].section
         base == IF line[q].rejected THEN Blank(q) ELSE line[q]
         receives == GetDirection(section, <<>>) \in {"sendrecv", "sendonly"}
         l == [base EXCEPT
                 !.exists = TRUE, !.mid = GetMid(section), !.receiver = receives,
                 !.receiving = IF receives THEN @ ELSE <<>>,
                 !.local = LocalCapabilities(q), !.remote = ParseRtpParameters(section),
                 !.rtcp = ParseRtcpParameters(section),
                 !.send = IF @.ssrc = 0 THEN [@ EXCEPT !.ssrc = 2002] ELSE @,
                 !.recv = ParseRtpEncodingParameters(section)]
     IN line' = [line EXCEPT ![q] = IF IsRejected(section) THEN Reject(q)
                                    ELSE Transceive(q, l, FALSE, receives /\ ~base.receiver)]
  /\ wire' = <<>>
  /\ UNCHANGED <<native, offerer, rounds>>

WithReducedSize_Bug(section, rtcp) == section

WithReducedSize(section, rtcp) ==
  section \o (IF rtcp.compound THEN <<>> ELSE << <<"rtcp-rsize">> >>)

MaySend_Bug(l) == TRUE

MaySend(l) == Common(l).codecs # <<>>

(* createAnswer and setLocalDescription.  The sender starts.                 *)
Answer(q) ==
  /\ offerer # <<>> /\ offerer[1] # q /\ wire = <<>>
  /\ ~line[q].rejected
  /\ LET l == DropRtx(AddRtx(q, line[q]))
         section == WithReducedSize(WriteMediaSection(l, Common(l), q), l.rtcp)
     IN /\ line' = [line EXCEPT ![q] = Transceive(q, l, MaySend(l), FALSE)]
        /\ wire' = <<[type |-> "answer", from |-> q, section |-> section]>>
  /\ UNCHANGED <<native, offerer, rounds>>

(* setRemoteDescription of an answer.                                        *)
ReceiveAnswer(p) ==
  /\ wire # <<>> /\ wire[1].type = "answer" /\ offerer = <<p>>
  /\ LET section == wire[1].section
         dir == GetDirection(section, <<>>)
         l == DropRtx([line[p] EXCEPT
                         !.recv = ParseRtpEncodingParameters(section),
                         !.remote = ParseRtpParameters(section),
                         !.rtcp = ParseRtcpParameters(section)])
         receives == dir \in {"sendrecv", "sendonly"}
         started == Transceive(p, l, dir \in {"sendrecv", "recvonly"}, receives)
     IN line' = [line EXCEPT ![p] = 
          IF IsRejected(section) THEN Reject(p)
          ELSE [started EXCEPT !.receiver = @ /\ receives,
                               !.receiving = IF receives THEN @ ELSE <<>>]]
  /\ wire' = <<>> /\ offerer' = <<>>
  /\ UNCHANGED <<native, rounds>>

Next ==
  \E p \in Peers :
    AddTrack(p) \/ Offer(p) \/ ReceiveOffer(p) \/ Answer(p) \/ ReceiveAnswer(p)

Spec == Init /\ [][Next]_vars

-----------------------------------------------------------------------------

Ids(codecs) == {[pt |-> PayloadType(c), name |-> Lower(c.name), rate |-> c.clockRate] : c \in codecs}
Extensions(caps) == {[id |-> e.id, uri |-> e.uri] : e \in Range(caps.headerExtensions)}

MediaOf(caps) == {c \in Range(caps.codecs) : Lower(c.name) # "rtx"}

(* The sender of one side and the receiver of the other, while no offer is   *)
(* open and both run.                                                        *)
Running(p, q) == 
  p # q /\ offerer = <<>> /\ line[p].sending # <<>> /\ line[q].receiving # <<>>

(* What a sender may send, the other side's receiver understands, in every   *)
(* round and whoever offers: the same payload type for the same codec, the   *)
(* same number for the same header extension, and the SSRC it was told of.   *)
(* Receivers are not restarted in later rounds, so numbers must not move.    *)
Understood ==
  \A p, q \in Peers : Running(p, q) =>
    LET s == line[p].sending[1]  r == line[q].receiving[1]
    IN /\ Ids(MediaOf(s.caps)) \subseteq Ids(MediaOf(r.caps))
       /\ Extensions(s.caps) \subseteq Extensions(r.caps)
       /\ r.recv # <<>> /\ s.enc.ssrc = r.recv[1].ssrc

(* In the first round a sender retransmits only with a codec the receiver    *)
(* has under the same number, meant for the same media codec, and with the   *)
(* SSRC the receiver was told of.  (In later rounds every retransmission     *)
(* codec has the number of the last one, and apt is not renumbered.)         *)
RetransmissionUnderstood ==
  \A p, q \in Peers : Running(p, q) /\ rounds = 1 /\ line[p].sending[1].enc.rtx # 0 =>
    LET s == line[p].sending[1]  r == line[q].receiving[1]
        RtxOf(caps) == {<<PayloadType(c), Parameter(c, "apt")>> : c \in Range(caps.codecs) \ MediaOf(caps)}
    IN /\ RtxOf(s.caps) # {} /\ RtxOf(s.caps) \subseteq RtxOf(r.caps)
       /\ \A x \in RtxOf(s.caps) : \E c \in MediaOf(s.caps) : PayloadType(c) = x[2]
       /\ s.enc.rtx = r.recv[1].rtx

(* A sender reacts to feedback, and a receiver gives feedback, that both     *)
(* browsers have for that codec.                                             *)
FeedbackAgreed ==
  \A p, q \in Peers : Running(p, q) =>
    \A c \in MediaOf(line[p].sending[1].caps) \cup MediaOf(line[q].receiving[1].caps), o \in Peers :
      \E n \in Range(native[o].caps.codecs) :
        Lower(n.name) = Lower(c.name) /\ Range(c.rtcpFeedback) \subseteq Range(n.rtcpFeedback)

(* Both sides use the same form of RTCP, compound or reduced in size.        *)
RtcpAgreed ==
  \A p, q \in Peers : Running(p, q) => line[p].sending[1].compound = line[q].rtcp.compound

(* Nobody sends into a line that the answer rejected.                        *)
RejectedIsSilent ==
  \A p, q \in Peers : p # q /\ offerer = <<>> /\ line[p].rejected => line[q].sending = <<>>

(* Whatever codecs, orders and versions two browsers have, and from whatever *)
(* base each numbers its own codecs, one by one: what one sends after any    *)
(* number of offers and answers, the other has set up to receive, and        *)
(* nothing else is sent. (Other numberings may put two codecs of a browser   *)
(* on one number once it takes those of the remote offer.)                   *)
NegotiationAgrees ==
  Understood /\ RetransmissionUnderstood /\ FeedbackAgreed /\ RtcpAgreed /\ RejectedIsSilent
=============================================================================
