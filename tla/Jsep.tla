-------------------------------- MODULE Jsep --------------------------------
(* What a peer connection promises about negotiation: the signalling state   *)
(* machine of offers and answers.  An offer belongs to the side that made    *)
(* it until the other side answers, a second offer of the same side only     *)
(* replaces the first, there is no rollback, and a closed connection never   *)
(* negotiates again.  OrtcPeer implements it.                                *)
VARIABLES signalingState, isClosed

jvars == <<signalingState, isClosed>>

SignalingStates == {"stable", "have-local-offer", "have-remote-offer", "closed"}

Init == signalingState = "stable" /\ isClosed = FALSE

Move(from, to) == 
  /\ ~isClosed
  /\ signalingState = from
  /\ signalingState' = to
  /\ UNCHANGED isClosed

LocalOffer == Move("stable", "have-local-offer")
RemoteOffer == Move("stable", "have-remote-offer")
LocalAnswer == Move("have-remote-offer", "stable")
RemoteAnswer == Move("have-local-offer", "stable")

Close ==
  /\ signalingState' = "closed"
  /\ isClosed' = TRUE

Next == LocalOffer \/ RemoteOffer \/ LocalAnswer \/ RemoteAnswer \/ Close

Spec == Init /\ [][Next]_jvars
=============================================================================
