-------------------------------- MODULE Sdp --------------------------------
(* SDP as the page's adapter writes and reads it (adapter-7.4.0.js, modules  *)
(* 16 and 17).  A section is a sequence of lines, a line a tuple that starts *)
(* with its attribute and goes on with its tokens.  Numbers are numbers, so  *)
(* parseInt is left out; letter case is kept where the code changes it.      *)
EXTENDS Integers, Sequences, SequencesExt, Filter

Undefined == -1  \* a number JavaScript has no value for

Lower(s) == CASE s = "UDP" -> "udp" [] s = "TCP" -> "tcp" [] s = "RTX" -> "rtx"
              [] s = "VP8" -> "vp8" [] s = "SHA-256" -> "sha-256" [] OTHER -> s
Upper(s) == CASE s = "udp" -> "UDP" [] s = "tcp" -> "TCP" [] s = "rtx" -> "RTX"
              [] s = "red" -> "RED" [] s = "ulpfec" -> "ULPFEC" [] OTHER -> s

LinesOf(section, attributes) ==
  Pick(section, {i \in DOMAIN section : section[i][1] \in attributes})

MatchPrefix(section, attribute) == LinesOf(section, {attribute})

(* matchPrefix with 'a=rtpmap:' + pt + ' ' and the like.                     *)
OfPayloadType(section, attribute, pt) ==
  SelectSeq(MatchPrefix(section, attribute), LAMBDA l : l[2] = pt)

Map(op(_), s) == [i \in DOMAIN s |-> op(s[i])]
FirstOf(s) == IF s = <<>> THEN <<>> ELSE <<s[1]>>

-----------------------------------------------------------------------------
(* Candidates.  Optional string fields are "" and ports 0 when undefined.    *)

ParseCandidate_Bug(line) ==
  LET Value(key, default, i) ==
        IF Len(line) > i /\ line[i] = key THEN line[i + 1] ELSE default
  IN [foundation |-> line[2], component |-> line[3], protocol |-> Lower(line[4]),
      priority |-> line[5], address |-> line[6], port |-> line[7], type |-> line[9],
      relatedAddress |-> Value("raddr", "", 10), relatedPort |-> Value("rport", 0, 12),
      tcpType |-> Value("tcptype", "", 10), usernameFragment |-> Value("ufrag", "", Len(line) - 1)]

ParseCandidate(line) ==
  LET Value(key, default) ==
        LET hits == {i \in DOMAIN line : i >= 10 /\ i % 2 = 0 /\ line[i] = key}
        IN IF hits = {} THEN default ELSE line[Max(hits) + 1]
  IN [foundation |-> line[2], component |-> line[3], protocol |-> Lower(line[4]),
      priority |-> line[5], address |-> line[6], port |-> line[7], type |-> line[9],
      relatedAddress |-> Value("raddr", ""), relatedPort |-> Value("rport", 0),
      tcpType |-> Value("tcptype", ""), usernameFragment |-> Value("ufrag", "")]

WriteCandidate_Bug(c) ==
  <<"candidate", c.foundation, c.component, Upper(c.protocol), c.priority, c.address, c.port,
    "typ", c.type>>
  \o (IF c.type # "host" /\ c.relatedAddress # ""
      THEN <<"raddr", c.relatedAddress, "rport", c.relatedPort>> ELSE <<>>)
  \o (IF c.tcpType # "" THEN <<"tcptype", c.tcpType>> ELSE <<>>)
  \o (IF c.usernameFragment # "" THEN <<"ufrag", c.usernameFragment>> ELSE <<>>)

WriteCandidate(c) ==
  <<"candidate", c.foundation, c.component, Upper(c.protocol), c.priority, c.address, c.port,
    "typ", c.type>>
  \o (IF c.type # "host" /\ c.relatedAddress # "" /\ c.relatedPort # 0
      THEN <<"raddr", c.relatedAddress, "rport", c.relatedPort>> ELSE <<>>)
  \o (IF c.tcpType # "" /\ Lower(c.protocol) = "tcp" THEN <<"tcptype", c.tcpType>> ELSE <<>>)
  \o (IF c.usernameFragment # "" THEN <<"ufrag", c.usernameFragment>> ELSE <<>>)

-----------------------------------------------------------------------------
(* Codecs.  A codec has preferredPayloadType (capabilities of the browser)   *)
(* or payloadType (parsed), and two names for its channels.  A parameter is  *)
(* a key and the parts of its value between '=' signs, <<>> if it has none.  *)

PayloadType(codec) == IF codec.preferredPayloadType # Undefined
                      THEN codec.preferredPayloadType ELSE codec.payloadType

ParseRtpMap(line) ==
  LET channels == IF Len(line) = 5 THEN line[5] ELSE 1
  IN [payloadType |-> line[2], preferredPayloadType |-> Undefined, name |-> line[3],
      clockRate |-> line[4], channels |-> channels, numChannels |-> channels,
      parameters |-> <<>>, rtcpFeedback |-> <<>>]

WriteRtpMap(codec) ==
  LET channels == IF codec.channels > 0 THEN codec.channels
                  ELSE IF codec.numChannels > 0 THEN codec.numChannels ELSE 1
  IN <<"rtpmap", PayloadType(codec), codec.name, codec.clockRate>>
     \o (IF channels # 1 THEN <<channels>> ELSE <<>>)

(* kv[1]: what follows a second '=' of a value is dropped.                   *)
ParseFmtp(line) == 
  Map(LAMBDA p : [key |-> p.key, value |-> FirstOf(p.value)], line[3])

WriteFmtp(codec) ==
  IF codec.parameters = <<>> THEN <<>>
  ELSE << <<"fmtp", PayloadType(codec), codec.parameters>> >>

ParseRtcpFb(line) == [type |-> line[3], parameter |-> SubSeq(line, 4, Len(line))]

WriteRtcpFb(codec) == 
  Map(LAMBDA fb : <<"rtcp-fb", PayloadType(codec), fb.type>> \o fb.parameter, codec.rtcpFeedback)

(* An empty direction stands for undefined.                                  *)
ParseExtmap(line) ==
  [id |-> line[2], direction |-> IF Len(line) = 4 THEN line[3] ELSE "sendrecv",
   uri |-> line[Len(line)]]

WriteExtmap(e) ==
  <<"extmap", e.id>>
  \o (IF e.direction \notin {"", "sendrecv"} THEN <<e.direction>> ELSE <<>>) \o <<e.uri>>

Parameter(codec, key) ==
  LET hits == SelectSeq(codec.parameters, LAMBDA p : p.key = key)
  IN IF hits = <<>> \/ hits[1].value = <<>> THEN Undefined ELSE hits[1].value[1]

-----------------------------------------------------------------------------
(* Media sections.                                                           *)

MLine(section) == section[1]

ParseRtpParameters(section) ==
  LET Known(pt) == OfPayloadType(section, "rtpmap", pt) # <<>>
      Codec(pt) ==
        LET fmtps == OfPayloadType(section, "fmtp", pt)
        IN [ParseRtpMap(OfPayloadType(section, "rtpmap", pt)[1]) EXCEPT
              !.parameters = IF fmtps = <<>> THEN <<>> ELSE ParseFmtp(fmtps[1]),
              !.rtcpFeedback = Map(ParseRtcpFb, OfPayloadType(section, "rtcp-fb", pt))]
      codecs == Map(Codec, SelectSeq(MLine(section)[5], Known))
  IN [codecs |-> codecs,
      headerExtensions |-> Map(ParseExtmap, MatchPrefix(section, "extmap")),
      fecMechanisms |-> {Upper(codecs[i].name) : i \in DOMAIN codecs} \cap {"RED", "ULPFEC"}]

(* c=, a=rtcp and a=maxptime lines are read by nobody and left out.          *)
WriteRtpDescription(kind, caps) ==
  << <<"m", kind, IF caps.codecs = <<>> THEN 0 ELSE 9, "UDP/TLS/RTP/SAVPF",
       Map(PayloadType, caps.codecs)>> >>
  \o FlattenSeq(Map(LAMBDA c : <<WriteRtpMap(c)>> \o WriteFmtp(c) \o WriteRtcpFb(c), caps.codecs))
  \o << <<"rtcp-mux">> >> \o Map(WriteExtmap, caps.headerExtensions)

ParseSsrcMedia(line) == [ssrc |-> line[2], attribute |-> line[3], value |-> line[4]]

SsrcsWith(section, attribute) ==
  LET parsed == Map(ParseSsrcMedia, MatchPrefix(section, "ssrc"))
  IN Pick(parsed, {i \in DOMAIN parsed : parsed[i].attribute = attribute})

(* Encodings have ssrc, the ssrc of rtx and the FEC mechanism; 0 and "" for  *)
(* undefined.                                                                *)
ParseRtpEncodingParameters(section) ==
  LET description == ParseRtpParameters(section)
      cnames == SsrcsWith(section, "cname")
      primary == IF cnames = <<>> THEN 0 ELSE cnames[1].ssrc
      flows == SelectSeq(MatchPrefix(section, "ssrc-group"), LAMBDA l : l[2] = "FID")
      secondary == IF flows # <<>> /\ Len(flows[1]) > 3 /\ flows[1][3] = primary
                   THEN flows[1][4] ELSE 0
      isRtx(c) == Upper(c.name) = "RTX" /\ Parameter(c, "apt") # Undefined
      base == [ssrc |-> primary, rtx |-> IF primary = 0 THEN 0 ELSE secondary, fec |-> ""]
      red == [base EXCEPT !.fec = IF "ULPFEC" \in description.fecMechanisms
                                  THEN "red+ulpfec" ELSE "red"]
      each == IF "RED" \in description.fecMechanisms THEN <<base, red>> ELSE <<base>>
      encodings == FlattenSeq(Map(LAMBDA c : each, SelectSeq(description.codecs, isRtx)))
  IN IF encodings = <<>> /\ primary # 0
     THEN << [ssrc |-> primary, rtx |-> 0, fec |-> ""] >> ELSE encodings

ParseRtcpParameters(section) ==
  LET cnames == SsrcsWith(section, "cname")
  IN [cname |-> IF cnames = <<>> THEN "" ELSE cnames[1].value,
      ssrc |-> IF cnames = <<>> THEN 0 ELSE cnames[1].ssrc,
      compound |-> MatchPrefix(section, "rtcp-rsize") = <<>>,
      mux |-> MatchPrefix(section, "rtcp-mux") # <<>>]

ParseMsid_Bug(section) ==
  LET spec == MatchPrefix(section, "msid")
  IN IF Len(spec) = 1 THEN Tail(spec[1]) ELSE <<>>

(* <<stream, track>>, or <<>> when neither form is there.                    *)
ParseMsid(section) ==
  LET spec == MatchPrefix(section, "msid")
      planB == SsrcsWith(section, "msid")
  IN CASE Len(spec) = 1 -> Tail(spec[1])
       [] Len(spec) # 1 /\ planB # <<>> -> planB[1].value
       [] OTHER -> <<>>

(* Media lines come first, those of the session after them.                  *)
GetDtlsParameters(section, session) ==
  Map(LAMBDA l : [algorithm |-> Lower(l[2]), value |-> l[3]],
      MatchPrefix(section \o session, "fingerprint"))

GetIceParameters_Bug(section, session) ==
  LET ufrag == MatchPrefix(section \o session, "ice-ufrag")
      pwd == MatchPrefix(session \o section, "ice-pwd")
  IN IF ufrag = <<>> \/ pwd = <<>> THEN <<>> ELSE <<ufrag[1][2], pwd[1][2]>>

GetIceParameters(section, session) ==
  LET ufrag == MatchPrefix(section \o session, "ice-ufrag")
      pwd == MatchPrefix(section \o session, "ice-pwd")
  IN IF ufrag = <<>> \/ pwd = <<>> THEN <<>> ELSE <<ufrag[1][2], pwd[1][2]>>

DirectionLines == {"sendrecv", "sendonly", "recvonly", "inactive"}

GetDirection(section, session) ==
  LET lines == LinesOf(section \o session, DirectionLines)
  IN IF lines = <<>> THEN "sendrecv" ELSE lines[1][1]

GetMid(section) == MatchPrefix(section, "mid")[1][2]
IsRejected(section) == MLine(section)[3] = 0

(* The module-level writeMediaSection of the peer connection: line describes *)
(* the transceiver, enc is its sendEncodingParameters[0].                    *)
WriteMediaSection(line, caps, cname) ==
  LET enc == line.send
      msid == <<line.stream, line.track>>
      rtx == line.sender /\ enc.rtx # 0
  IN WriteRtpDescription(line.kind, caps)
     \o << <<"ice-ufrag", line.ice[1]>>, <<"ice-pwd", line.ice[2]>>,
           <<"fingerprint", "sha-256", line.fingerprint>>, <<"mid", line.mid>>,
           <<CASE line.sender /\ line.receiver -> "sendrecv"
               [] line.sender /\ ~line.receiver -> "sendonly"
               [] ~line.sender /\ line.receiver -> "recvonly"
               [] OTHER -> "inactive">> >>
     \o (IF line.sender
         THEN << <<"msid">> \o msid, <<"ssrc", enc.ssrc, "msid", msid>> >> ELSE <<>>)
     \o (IF rtx
         THEN << <<"ssrc", enc.rtx, "msid", msid>>, <<"ssrc-group", "FID", enc.ssrc, enc.rtx>> >>
         ELSE <<>>)
     \o << <<"ssrc", enc.ssrc, "cname", cname>> >>
     \o (IF rtx THEN << <<"ssrc", enc.rtx, "cname", cname>> >> ELSE <<>>)

-----------------------------------------------------------------------------
(* Data channels: the two drafts of SCTP in SDP.                             *)

ParseSctpDescription(section) ==
  LET size == MatchPrefix(section, "max-message-size")
      port == MatchPrefix(section, "sctp-port")
      map == MatchPrefix(section, "sctpmap")
      Of(p, protocol) == [port |-> p, protocol |-> protocol, 
                          maxMessageSize |-> IF size = <<>> THEN 65536 ELSE size[1][2]]
  IN CASE port # <<>> -> Of(port[1][2], MLine(section)[5][1])
       [] port = <<>> /\ map # <<>> -> Of(map[1][2], map[1][3])
       [] OTHER -> Of(Undefined, "")

WriteSctpDescription_Bug(media, sctp) ==
  (IF media.protocol # "DTLS/SCTP"
   THEN << <<"m", media.kind, 9, media.protocol, <<sctp.protocol>> >>, <<"sctp-port", sctp.port>> >>
   ELSE << <<"m", media.kind, 9, media.protocol, <<sctp.port>> >>,
           <<"sctpmap", sctp.port, sctp.protocol, 65535>> >>)
  \o (IF sctp.maxMessageSize > 0
      THEN << <<"max-message-size", sctp.maxMessageSize>> >> ELSE <<>>)

WriteSctpDescription(media, sctp) ==
  (IF media.protocol # "DTLS/SCTP"
   THEN << <<"m", media.kind, 9, media.protocol, <<sctp.protocol>> >>, <<"sctp-port", sctp.port>> >>
   ELSE << <<"m", media.kind, 9, media.protocol, <<sctp.port>> >>,
           <<"sctpmap", sctp.port, sctp.protocol, 65535>> >>)
  \o (IF sctp.maxMessageSize # Undefined
      THEN << <<"max-message-size", sctp.maxMessageSize>> >> ELSE <<>>)

-----------------------------------------------------------------------------
(* getCommonCapabilities: the codecs of both sides, as the remote side named *)
(* them.                                                                     *)

FindCodecByPayloadType(pt, codecs) ==
  SelectSeq(codecs, LAMBDA c : pt \in {c.payloadType, c.preferredPayloadType})

RtxCapabilityMatches(lRtx, rRtx, lCodecs, rCodecs) ==
  LET l == FindCodecByPayloadType(Parameter(lRtx, "apt"), lCodecs)
      r == FindCodecByPayloadType(Parameter(rRtx, "apt"), rCodecs)
  IN l # <<>> /\ r # <<>> /\ Lower(l[1].name) = Lower(r[1].name)

CodecMatches_Bug(lCodec, rCodec, lCodecs, rCodecs) ==
  Lower(lCodec.name) = Lower(rCodec.name) /\ lCodec.clockRate = rCodec.clockRate

CodecMatches(lCodec, rCodec, lCodecs, rCodecs) ==
  /\ Lower(lCodec.name) = Lower(rCodec.name) /\ lCodec.clockRate = rCodec.clockRate
  /\ \/ Lower(lCodec.name) # "rtx" \/ Parameter(rCodec, "apt") = Undefined
     \/ RtxCapabilityMatches(lCodec, rCodec, lCodecs, rCodecs)

CommonCodec_Bug(lCodec, rCodec) ==
  [rCodec EXCEPT !.numChannels = IF lCodec.numChannels < @ THEN lCodec.numChannels ELSE @]

(* The copy of rCodec goes through JSON, which drops the parameters without  *)
(* a value.  Only numChannels is set to the common number of channels.       *)
CommonCodec(lCodec, rCodec) ==
  [rCodec EXCEPT
     !.numChannels = IF lCodec.numChannels < @ THEN lCodec.numChannels ELSE @,
     !.parameters = SelectSeq(@, LAMBDA p : p.value # <<>>),
     !.rtcpFeedback = SelectSeq(@, LAMBDA fb : fb \in Range(lCodec.rtcpFeedback))]

GetCommonCapabilities(localCaps, remoteCaps) ==
  LET Hits(l) == SelectSeq(remoteCaps.codecs, 
                           LAMBDA r : CodecMatches(l, r, localCaps.codecs, remoteCaps.codecs))
      Ext(l) == SelectSeq(remoteCaps.headerExtensions, LAMBDA r : r.uri = l.uri)
  IN [codecs |-> FlattenSeq(Map(LAMBDA l : Map(LAMBDA r : CommonCodec(l, r), FirstOf(Hits(l))),
                                localCaps.codecs)),
      headerExtensions |-> FlattenSeq(Map(LAMBDA l : FirstOf(Ext(l)), localCaps.headerExtensions)),
      fecMechanisms |-> {}]
=============================================================================
