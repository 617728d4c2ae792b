------------------------------- MODULE MCPeer --------------------------------
(* TLC's model of the peer connection. All of it at once is out of reach, so    *)
(* four cases stand side by side, each with the constants of the cfg cut down   *)
(* to what it is about:                                                         *)
(*   keep    what long sequences of tracks, offers and answers leave behind     *)
(*   states  native transports that report anything at any time                 *)
(*   reject  rejected m-lines, candidates, descriptions that are half applied   *)
(*   live    every kind of offer, for negotiationneeded                         *)
(* and beside them the gathering of candidates (OrtcGather), with the bundling  *)
(* of an answer as another choice. The peer connection does not look at what it *)
(* gathers, so a behaviour runs one and leaves the other where it began.        *)
EXTENDS OrtcPeer

CONSTANTS MLines, PerGatherer, Bundled

VARIABLES case, iceGatherer, bundling, found, state, buffered, replay, gathering,
          iceGatheringState, lines, events

gatherVars == <<iceGatherer, bundling, found, state, buffered, replay, gathering,
                iceGatheringState, lines, events>>

Keep == INSTANCE OrtcPeer
          WITH Candidates <- {}, MaxMoves <- 0, Counts <- {}, Rejects <- {FALSE},
               InSdp <- {FALSE}
States == INSTANCE OrtcPeer
            WITH VideoTracks <- {}, Streams <- {"s"}, Candidates <- {}, MaxRounds <- 2,
                 Counts <- {}, Rejects <- {FALSE}, InSdp <- {FALSE}
Reject == INSTANCE OrtcPeer
            WITH AudioTracks <- {}, Streams <- {"s"}, MaxRounds <- 2, MaxMoves <- 0,
                 Counts <- {}, Bundle <- {TRUE}, InSdp <- {TRUE}
Live == INSTANCE OrtcPeer
          WITH Streams <- {"s"}, Candidates <- {}, MaxRounds <- 1, MaxMoves <- 0,
               Rejects <- {FALSE}, InSdp <- {FALSE}

Gather == INSTANCE OrtcGather WITH LateBundle <- FALSE, usingBundle <- bundling
Late == INSTANCE OrtcGather WITH LateBundle <- TRUE, usingBundle <- bundling

MCInit == /\ case \in {"keep", "states", "reject", "live", "gather", "late"}
          /\ Init /\ Gather!Init
          /\ IF case \in {"gather", "late"} THEN ~usingBundle ELSE ~bundling
MCNext == \/ case = "keep" /\ Keep!Next /\ UNCHANGED <<case, gatherVars>>
          \/ case = "states" /\ States!Next /\ UNCHANGED <<case, gatherVars>>
          \/ case = "reject" /\ Reject!Next /\ UNCHANGED <<case, gatherVars>>
          \/ case = "live" /\ Live!Next /\ UNCHANGED <<case, gatherVars>>
          \/ case = "gather" /\ Gather!Next /\ UNCHANGED <<case, vars>>
          \/ case = "late" /\ Late!Next /\ UNCHANGED <<case, vars>>

(* Fairness of timers and native gatherers: that of OrtcPeer and OrtcGather.    *)
Announces == case = "live" /\ NegotiationTimer
Finds(g) == case = "gather" /\ Gather!LocalCandidate(g)
Replays(g) == case = "gather" /\ Gather!ReplayBuffered(g)
MCSpec == /\ MCInit /\ [][MCNext]_<<vars, case, gatherVars>>
          /\ WF_vars(Announces)
          /\ \A g \in 1 .. MLines : WF_gatherVars(Finds(g)) /\ WF_gatherVars(Replays(g))

-----------------------------------------------------------------------------
(* Announced of _maybeFireNegotiationNeeded, where fairness is assumed.         *)
TracksAnnounced == case = "live" => Announced

(* _createIceGatherer and _gather: candidates found before and after the local  *)
(* description all become events and lines of it, once and in order, also when  *)
(* an answer bundles late; and gathering ends, with the null candidate.         *)
GatheredRight ==
  /\ [](case = "gather" => Gather!TypeOK /\ Gather!DescriptionMatchesEvents
                           /\ Gather!NothingLost /\ Gather!EndsWithNull)
  /\ [](case = "late" => Late!TypeOK /\ Late!DescriptionMatchesEvents /\ Late!NothingLost)
  /\ (case = "gather" => Gather!GatheringEnds)
=============================================================================
