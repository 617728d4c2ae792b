----------------------------- MODULE MCSignaling -----------------------------
(* TLC's model of the signalling, in three cases that stand side by side: links *)
(* that break, a server that restarts, and (without candidates, which answer    *)
(* nothing) the liveness of playing.                                            *)
EXTENDS Signaling

VARIABLE case

Drops == INSTANCE Signaling WITH MaxRestarts <- 0, BrokerFails <- FALSE
Restarts == INSTANCE Signaling WITH MaxDrops <- 0
Live == INSTANCE Signaling
          WITH MaxRestarts <- 0, MaxCandidates <- 0, BrokerFails <- FALSE

MCInit == case \in {"drops", "restarts", "live"} /\ Init
MCNext == \/ case = "drops" /\ Drops!Next /\ UNCHANGED case
          \/ case = "restarts" /\ Restarts!Next /\ UNCHANGED case
          \/ case = "live" /\ Live!Next /\ UNCHANGED case

(* The fairness of FairSpec, for the case that needs it.                        *)
MCSpec ==
  /\ MCInit /\ [][MCNext]_<<vars, case>>
  /\ WF_vars(case = "live" /\ Live!MessageThread)
  /\ \A c \in Client : /\ WF_vars(case = "live" /\ Live!ConnectUp(c))
                       /\ WF_vars(case = "live" /\ Live!Offer(c))
                       /\ WF_vars(case = "live" /\ Live!Page(c))

-----------------------------------------------------------------------------
(* PlayMakesOffer and OfferSettled of the page, where fairness is assumed.      *)
PlaysGetAnswers == case = "live" => PlayMakesOffer /\ OfferSettled
=============================================================================
