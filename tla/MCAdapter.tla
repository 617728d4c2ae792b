------------------------------ MODULE MCAdapter ------------------------------
(* TLC's model of the adapter's parts other than the peer connection (MCPeer):  *)
(* the text of descriptions (SdpLines), what they agree on (Negotiation), both  *)
(* shims of local streams (LocalStreams, StreamIds) and the filters of servers  *)
(* (IceServers). They share no state: a behaviour runs one of them, and the     *)
(* variables of the others are idle.                                            *)
EXTENDS Naturals

CONSTANTS Addresses, RelatedPorts, Fragments, Sizes, SctpPorts,
          Peers, Names, Bases, Modern, WantReceive, MaxRounds,
          Stream, Track, Sender, NoTrack, NoStream, MaxPerStream,
          External, Internal, ExternalTrack, Least,
          EdgeVersions, MaxServers, MaxUrls, MaxAttempts

(* "No stream" is none of the page's.                                          *)
ASSUME LocalAssumption == NoStream \notin Stream

(* A stream without tracks could be added twice under one id.                  *)
ASSUME IdsAssumption == Least \in Nat \ {0}

VARIABLES
  part,
  input, text, read, again,
  caps, line, wire, offerer, rounds,
  tracksOf, sends, made, local, mark,
  tracksIn, inner, native, streams, reverse, added,
  asked, config, edgeVersion, call, used, attempts

textVars == <<input, text, read, again>>
codecVars == <<caps, line, wire, offerer, rounds>>
localVars == <<tracksOf, sends, made, local, mark>>
idVars == <<tracksIn, inner, native, streams, reverse, added>>
serverVars == <<asked, config, edgeVersion, call, used, attempts>>

Text == INSTANCE SdpLines WITH line <- text
Codecs == INSTANCE Negotiation WITH Kind <- "video", native <- caps
Local == INSTANCE LocalStreams
Ids == INSTANCE StreamIds
         WITH Stream <- External, Track <- ExternalTrack, tracksOf <- tracksIn
Servers == INSTANCE IceServers

TextIdle == input = 0 /\ text = 0 /\ read = 0 /\ again = 0
CodecsIdle == caps = 0 /\ line = 0 /\ wire = 0 /\ offerer = 0 /\ rounds = 0
LocalIdle == tracksOf = 0 /\ sends = 0 /\ made = 0 /\ local = 0 /\ mark = 0
IdsIdle == tracksIn = 0 /\ inner = 0 /\ native = 0 /\ streams = 0 /\ reverse = 0 /\ added = 0
ServersIdle == /\ asked = 0 /\ config = 0 /\ edgeVersion = 0 /\ call = 0 /\ used = 0
               /\ attempts = 0

MCInit ==
  /\ part \in {"text", "codecs", "local", "ids", "servers"}
  /\ IF part = "text" THEN Text!Init ELSE TextIdle
  /\ IF part = "codecs" THEN Codecs!Init ELSE CodecsIdle
  /\ IF part = "local" THEN Local!Init ELSE LocalIdle
  /\ IF part = "ids" THEN Ids!Init ELSE IdsIdle
  /\ IF part = "servers" THEN Servers!Init ELSE ServersIdle

MCNext ==
  \/ /\ part = "text" /\ Text!Next
     /\ UNCHANGED <<part, codecVars, localVars, idVars, serverVars>>
  \/ /\ part = "codecs" /\ Codecs!Next
     /\ UNCHANGED <<part, textVars, localVars, idVars, serverVars>>
  \/ /\ part = "local" /\ Local!Next
     /\ UNCHANGED <<part, textVars, codecVars, idVars, serverVars>>
  \/ /\ part = "ids" /\ Ids!Next
     /\ UNCHANGED <<part, textVars, codecVars, localVars, serverVars>>
  \/ /\ part = "servers" /\ Servers!Next
     /\ UNCHANGED <<part, textVars, codecVars, localVars, idVars>>

MCSpec == MCInit /\ [][MCNext]_<<part, textVars, codecVars, localVars, idVars, serverVars>>

-----------------------------------------------------------------------------
(* SDPUtils: what is written is what is read.                                   *)
TextArrives == part = "text" => Text!TextArrives

(* createOffer, createAnswer, set...Description: what is sent is understood.    *)
NegotiationAgrees == part = "codecs" => Codecs!NegotiationAgrees

(* shimAddTrackRemoveTrackWithNative: getLocalStreams is what is sent, of plain *)
(* streams.                                                                     *)
LocalAgrees == part = "local" => Local!TypeOK /\ Local!LocalAgrees

(* shimAddTrackRemoveTrack: ids come back, what is sent is what was added.      *)
IdsKept == part = "ids" => Ids!IdsKept

(* filterIceServers, twice: the TURN server that can be used is used.           *)
TurnKept == part = "servers" => Servers!TurnKept
=============================================================================
