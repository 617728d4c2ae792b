------------------------------ MODULE SdpLines ------------------------------
(* Single attributes of SDP go out and come back: a local candidate is       *)
(* written into an icecandidate event and a description, read by the other   *)
(* side and, when that side passes it on, written again (_gather and         *)
(* _emitGatheringStateChange read their own text back, too); a data channel  *)
(* is described in one of two drafts; transport, direction and stream may be *)
(* said in several places.                                                   *)
EXTENDS Sdp, FiniteSets

CONSTANTS
  Addresses,       \* addresses of candidates
  RelatedPorts,    \* rport of a reflexive or relayed candidate, 0 for hidden
  Fragments,       \* username fragments, "" for none
  Sizes,           \* max-message-size, when it is given
  SctpPorts

VARIABLES
  input,    \* what the program was given
  line,     \* what it wrote
  read,     \* what was read from it
  again     \* what was written from that

vars == <<input, line, read, again>>

(* What an ICE gatherer may give.                                            *)
LocalCandidates ==
  [foundation : {"f"}, component : {1}, protocol : {"udp", "tcp"}, priority : {7},
   address : Addresses, port : {9}, type : {"host", "srflx", "relay"},
   relatedAddress : Addresses \cup {""}, relatedPort : RelatedPorts,
   tcpType : {"", "active", "passive"}, usernameFragment : Fragments]

SctpMedia == [kind : {"application"}, protocol : {"DTLS/SCTP", "UDP/DTLS/SCTP", "TCP/DTLS/SCTP"}]
SctpParameters ==
  [port : SctpPorts, protocol : {"webrtc-datachannel"}, maxMessageSize : Sizes \cup {Undefined}]

Nothing == [type |-> "none"]

Init == input = Nothing /\ line = <<>> /\ read = <<>> /\ again = <<>>

SendCandidate ==
  /\ input = Nothing
  /\ \E c \in LocalCandidates :
       /\ input' = [type |-> "candidate", value |-> c]
       /\ line' = WriteCandidate(c)
  /\ UNCHANGED <<read, again>>

(* Browsers add extensions, which may stand before the known fields.         *)
ReceiveCandidate ==
  /\ input.type = "candidate" /\ read = <<>>
  /\ \E extension \in {<<>>, <<"generation", 0>>} :
       LET received == SubSeq(line, 1, 9) \o extension \o SubSeq(line, 10, Len(line))
           c == ParseCandidate(received)
       IN read' = <<c>> /\ again' = WriteCandidate(c)
  /\ UNCHANGED <<input, line>>

SendSctp ==
  /\ input = Nothing
  /\ \E media \in SctpMedia, sctp \in SctpParameters :
       /\ input' = [type |-> "sctp", media |-> media, value |-> sctp]
       /\ line' = WriteSctpDescription(media, sctp)
  /\ UNCHANGED <<read, again>>

ReceiveSctp ==
  /\ input.type = "sctp" /\ read = <<>>
  /\ LET sctp == ParseSctpDescription(line)
     IN read' = <<sctp>> /\ again' = WriteSctpDescription(input.media, sctp)
  /\ UNCHANGED <<input, line>>

(* Transport lines and the direction may stand in the media section, in the  *)
(* session part, or in both; streams in either form, or, for a track in two  *)
(* streams, twice in the new form.                                           *)
Levels == {"media", "session"}

TransportLines(level) == 
  << <<"ice-ufrag", <<"u", level>> >>, <<"ice-pwd", <<"p", level>> >>, 
     <<"fingerprint", "SHA-256", level>> >>

At(level, levels, lines) == IF level \in levels THEN lines ELSE <<>>

SendMedia ==
  /\ input = Nothing
  /\ \E transport, direction \in SUBSET Levels, spec \in 0 .. 2, planB \in BOOLEAN,
        dirs \in [Levels -> DirectionLines] :
       /\ input' = [type |-> "media", transport |-> transport, direction |-> direction,
                    dirs |-> dirs, spec |-> spec, planB |-> planB]
       /\ line' = LET Said(l) == At(l, transport, TransportLines(l))
                                \o At(l, direction, << <<dirs[l]>> >>)
                  IN [session |-> Said("session"),
                      media |-> Said("media")
                        \o [i \in 1 .. spec |-> <<"msid", "s", "t">>]
                        \o (IF planB THEN << <<"ssrc", 1, "cname", "c">>,
                                             <<"ssrc", 1, "msid", <<"s", "t">> >> >> ELSE <<>>)]
  /\ UNCHANGED <<read, again>>

ReceiveMedia ==
  /\ input.type = "media" /\ read = <<>>
  /\ LET m == line.media  s == line.session
     IN read' = <<[ice |-> GetIceParameters(m, s), dtls |-> GetDtlsParameters(m, s),
                   direction |-> GetDirection(m, s), msid |-> ParseMsid(m)]>>
  /\ UNCHANGED <<input, line, again>>

Next == SendMedia \/ ReceiveMedia \/ SendCandidate \/ ReceiveCandidate \/ SendSctp \/ ReceiveSctp

Spec == Init /\ [][Next]_vars

-----------------------------------------------------------------------------

(* Whatever way a candidate was written, the text is final: a peer that      *)
(* reads it, with extensions in any place, and writes what it read produces  *)
(* the same text.  Candidates are compared and passed on as text, and a      *)
(* gatherer's candidate is written twice (event and description).            *)
CandidateTextFinal ==
  input.type = "candidate" /\ read # <<>> => again = line

(* The fields that decide where a connectivity check is sent, and the        *)
(* fragment that says to which ICE session it belongs, arrive unchanged; the *)
(* related address arrives whole, or not at all.                             *)
CandidateArrives ==
  input.type = "candidate" /\ read # <<>> =>
    LET c == input.value  r == read[1]
    IN /\ \A f \in {"foundation", "component", "protocol", "priority", "address", "port", "type",
                    "usernameFragment"} : r[f] = c[f]
       /\ r.relatedAddress = "" <=> r.relatedPort = 0
       /\ r.relatedAddress \in {"", c.relatedAddress} /\ r.relatedPort \in {0, c.relatedPort}
       /\ r.tcpType # "" => r.protocol = "tcp"

(* Both drafts of SCTP mean the same to the reader, except that a size left  *)
(* out is read as the default of 65536 bytes.                                *)
SctpArrives ==
  input.type = "sctp" /\ read # <<>> =>
    /\ read[1].port = input.value.port /\ read[1].protocol = input.value.protocol
    /\ read[1].maxMessageSize = 
         IF input.value.maxMessageSize = Undefined THEN 65536 ELSE input.value.maxMessageSize

(* What a media section says of itself wins over the session part, and only  *)
(* what it does not say is taken from there: user and password from the same *)
(* level, the fingerprint of that level first, the direction likewise.       *)
MediaLevelWins ==
  input.type = "media" /\ read # <<>> =>
    LET r == read[1]
        From(levels) == IF "media" \in levels THEN "media" ELSE "session"
        t == From(input.transport)
    IN /\ r.ice = IF input.transport = {} THEN <<>> ELSE << <<"u", t>>, <<"p", t>> >>
       /\ Len(r.dtls) = Cardinality(input.transport)
       /\ input.transport # {} => r.dtls[1] = [algorithm |-> "sha-256", value |-> t]
       /\ r.direction = IF input.direction = {} THEN "sendrecv" ELSE input.dirs[From(input.direction)]

(* The stream of a track is found in whichever form it is written; a track   *)
(* in two streams has one only if the old form names it.                     *)
StreamFound ==
  input.type = "media" /\ read # <<>> =>
    (read[1].msid = <<"s", "t">> <=> input.spec = 1 \/ input.planB)

(* What one browser writes is what the other reads, in every form the text   *)
(* may take.                                                                 *)
TextArrives ==
  CandidateTextFinal /\ CandidateArrives /\ SctpArrives /\ MediaLevelWins /\ StreamFound
=============================================================================
