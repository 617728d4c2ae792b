----------------------------- MODULE OrtcGather -----------------------------
(* Candidate gathering of the adapter's RTCPeerConnection (adapter-7.4.0.js, *)
(* module 16): the candidates a native gatherer finds before                 *)
(* setLocalDescription are buffered and replayed by a timer, the later ones  *)
(* go straight to the handler; each becomes a line of the local description  *)
(* and an icecandidate event, and a null candidate says that all is found.   *)
(* The candidate pool is empty (iceCandidatePoolSize 0, the default).        *)
EXTENDS Naturals, Sequences, SequencesExt

CONSTANTS
  MLines,      \* number of m-lines
  PerGatherer, \* candidates a gatherer finds
  Bundled,     \* whether BUNDLE is known from the start (an answerer's offer)
  LateBundle   \* whether the answer to an offer may bundle

Indices == 1 .. MLines
End == PerGatherer + 1   \* the event that says a gatherer found all

VARIABLES
  iceGatherer,       \* the gatherer each transceiver refers to, 0 for none
  usingBundle,
  found,             \* native events of each gatherer so far
  state,             \* state of each gatherer, as the shim keeps it
  buffered,          \* bufferedCandidateEvents of each gatherer
  replay,            \* whether the timer that replays the buffer is pending
  gathering,         \* whether onlocalcandidate is installed
  iceGatheringState,
  lines,             \* candidate lines of each section of the description
  events             \* icecandidate events: <<m-line, candidate>>, or Null

vars == <<iceGatherer, usingBundle, found, state, buffered, replay, gathering,
          iceGatheringState, lines, events>>

Null == <<0, 0>>

Init ==
  /\ iceGatherer = [i \in Indices |-> 0]
  /\ usingBundle \in Bundled
  /\ found = [g \in Indices |-> 0]
  /\ state = [g \in Indices |-> "new"]
  /\ buffered = [g \in Indices |-> <<>>]
  /\ replay = [g \in Indices |-> FALSE] /\ gathering = [g \in Indices |-> FALSE]
  /\ iceGatheringState = "new"
  /\ lines = [i \in Indices |-> <<>>] /\ events = <<>>

(* _createIceGatherer, for the next m-line of createOffer or of a remote     *)
(* offer: its own gatherer, or the first m-line's when bundling.             *)
CreateIceGatherer(i) ==
  /\ iceGatherer[i] = 0 /\ \A j \in 1 .. i - 1 : iceGatherer[j] # 0
  /\ iceGatherer' = [iceGatherer EXCEPT ![i] = IF usingBundle THEN 1 ELSE i]
  /\ UNCHANGED <<usingBundle, found, state, buffered, replay, gathering, iceGatheringState,
                 lines, events>>

-----------------------------------------------------------------------------
(* What the handler of gatherer g reads and writes.                          *)
Here(g) == [state |-> state[g], gs |-> iceGatheringState, lines |-> lines[g], events |-> events]

(* Every transceiver's gatherer is completed; s is the state of gatherer g.  *)
AllCompleted(g, s) ==
  \A i \in Indices : /\ iceGatherer[i] # 0
                     /\ (IF iceGatherer[i] = g THEN s ELSE state[iceGatherer[i]]) = "completed"

HandleCandidate_BugEnd(g, h, e) ==
  IF usingBundle /\ g > 1 THEN h
  ELSE [state |-> IF e = End THEN "completed" ELSE h.state, gs |-> "gathering",
        lines |-> Append(h.lines, e), events |-> Append(h.events, <<g, e>>)]

HandleCandidate_BugOrder(g, h, e) ==
  LET s == IF e = End THEN "completed" ELSE "gathering"
      told == IF AllCompleted(g, s) THEN Append(h.events, Null) ELSE h.events
  IN IF usingBundle /\ g > 1 THEN h
     ELSE [state |-> s,
           gs |-> IF AllCompleted(g, s) THEN "complete" ELSE "gathering",
           lines |-> Append(h.lines, e),
           events |-> IF e = End THEN told ELSE Append(told, <<g, e>>)]

HandleCandidate_BugDrop(g, h, e) ==
  IF usingBundle /\ g > 1 THEN [h EXCEPT !.lines = Append(@, e)]
  ELSE [state |-> h.state, gs |-> "gathering", lines |-> Append(h.lines, e),
        events |-> IF e = End THEN h.events ELSE Append(h.events, <<g, e>>)]

HandleCandidate_BugAll(g, h, e) ==
  IF usingBundle THEN h
  ELSE [state |-> h.state, gs |-> "gathering", lines |-> Append(h.lines, e),
        events |-> IF e = End THEN h.events ELSE Append(h.events, <<g, e>>)]

(* onlocalcandidate: an event of a gatherer bundled away is dropped; any     *)
(* other updates the description, is dispatched unless it is the end, and is *)
(* followed by the null candidate when all the gatherers are complete.       *)
HandleCandidate(g, h, e) ==
  LET end == e = End
      s == IF end THEN "completed" ELSE IF h.state = "new" THEN "gathering" ELSE h.state
      complete == AllCompleted(g, s)
      told == IF end THEN h.events ELSE Append(h.events, <<g, e>>)
  IN IF usingBundle /\ g > 1 THEN h
     ELSE [state |-> s,
           gs |-> IF complete THEN "complete" ELSE "gathering",
           lines |-> Append(h.lines, e),
           events |-> IF complete THEN Append(told, Null) ELSE told]

Commit(g, h) ==
  /\ state' = [state EXCEPT ![g] = h.state]
  /\ iceGatheringState' = h.gs
  /\ lines' = [lines EXCEPT ![g] = h.lines]
  /\ events' = h.events

(* The next event of a native gatherer, to the buffering listener: a         *)
(* gatherer starts on its own once it exists.                                *)
Exists(g) == \E i \in Indices : iceGatherer[i] = g
BufferCandidates(g) ==
  /\ Exists(g) /\ ~gathering[g] /\ found[g] < End
  /\ found' = [found EXCEPT ![g] = @ + 1]
  /\ state' = [state EXCEPT ![g] = IF found'[g] = End THEN "completed" ELSE "gathering"]
  /\ buffered' = [buffered EXCEPT ![g] = Append(@, found'[g])]
  /\ UNCHANGED <<iceGatherer, usingBundle, replay, gathering, iceGatheringState, lines, events>>

LocalCandidate_Bug(g) ==
  /\ gathering[g] /\ found[g] < End
  /\ found' = [found EXCEPT ![g] = @ + 1]
  /\ buffered' = [buffered EXCEPT ![g] = Append(@, found'[g])]
  /\ Commit(g, HandleCandidate(g, Here(g), found'[g]))
  /\ UNCHANGED <<iceGatherer, usingBundle, replay, gathering>>

(* ... and to the handler.  A gatherer that was bundled away still reports.  *)
LocalCandidate(g) ==
  /\ gathering[g] /\ found[g] < End
  /\ found' = [found EXCEPT ![g] = @ + 1]
  /\ Commit(g, HandleCandidate(g, Here(g), found'[g]))
  /\ UNCHANGED <<iceGatherer, usingBundle, buffered, replay, gathering>>

SetLocalDescription_Bug ==
  LET starting == {g \in Indices : Exists(g) /\ ~gathering[g]}
  IN /\ \A i \in Indices : iceGatherer[i] # 0
     /\ starting # {}
     /\ gathering' = [g \in Indices |-> gathering[g] \/ g \in starting]
     /\ replay' = [g \in Indices |-> replay[g] \/ g \in starting]
     /\ buffered' = [g \in Indices |-> IF g \in starting THEN <<>> ELSE buffered[g]]
     /\ UNCHANGED <<iceGatherer, usingBundle, found, state, iceGatheringState, lines, events>>

(* setLocalDescription starts gathering for every m-line: the handler takes  *)
(* the place of the listener, and a zero-delay timer replays the buffer.  A  *)
(* gatherer that has its handler is left alone.                              *)
SetLocalDescription ==
  LET starting == {g \in Indices : Exists(g) /\ ~gathering[g]}
  IN /\ \A i \in Indices : iceGatherer[i] # 0
     /\ starting # {}
     /\ gathering' = [g \in Indices |-> gathering[g] \/ g \in starting]
     /\ replay' = [g \in Indices |-> replay[g] \/ g \in starting]
     /\ UNCHANGED <<iceGatherer, usingBundle, found, state, buffered, iceGatheringState, lines,
                    events>>

ReplayBuffered_Bug(g) ==
  /\ replay[g] /\ iceGatheringState = "gathering"
  /\ replay' = [replay EXCEPT ![g] = FALSE]
  /\ buffered' = [buffered EXCEPT ![g] = <<>>]
  /\ Commit(g, FoldLeft(LAMBDA h, e : HandleCandidate(g, h, e), Here(g), buffered[g]))
  /\ UNCHANGED <<iceGatherer, usingBundle, found, gathering>>

(* That timer.                                                               *)
ReplayBuffered(g) ==
  /\ replay[g]
  /\ replay' = [replay EXCEPT ![g] = FALSE]
  /\ buffered' = [buffered EXCEPT ![g] = <<>>]
  /\ Commit(g, FoldLeft(LAMBDA h, e : HandleCandidate(g, h, e), Here(g), buffered[g]))
  /\ UNCHANGED <<iceGatherer, usingBundle, found, gathering>>

(* The answer to the offer bundles: the other m-lines' gatherers are given   *)
(* up for the first one's.                                                   *)
BundleOnAnswer ==
  /\ LateBundle /\ ~usingBundle
  /\ \A g \in Indices : gathering[g]
  /\ usingBundle' = TRUE
  /\ iceGatherer' = [i \in Indices |-> 1]
  /\ UNCHANGED <<found, state, buffered, replay, gathering, iceGatheringState, lines, events>>

Next ==
  \/ \E i \in Indices : CreateIceGatherer(i)
  \/ \E g \in Indices : BufferCandidates(g) \/ LocalCandidate(g) \/ ReplayBuffered(g)
  \/ SetLocalDescription
  \/ BundleOnAnswer

(* Native gatherers find their candidates and timers fire; nothing obliges   *)
(* the application to go on.                                                 *)
Fairness == \A g \in Indices : WF_vars(LocalCandidate(g)) /\ WF_vars(ReplayBuffered(g))
Spec == Init /\ [][Next]_vars /\ Fairness

-----------------------------------------------------------------------------
CandidatesOf(seq) == SelectSeq(seq, LAMBDA e : e # End)
Dispatched(g) == SelectSeq(events, LAMBDA ev : ev[1] = g)

TypeOK ==
  /\ iceGatherer \in [Indices -> 0 .. MLines] /\ usingBundle \in BOOLEAN
  /\ found \in [Indices -> 0 .. End]
  /\ state \in [Indices -> {"new", "gathering", "completed"}]
  /\ buffered \in [Indices -> Seq(1 .. End)] /\ lines \in [Indices -> Seq(1 .. End)]
  /\ replay \in [Indices -> BOOLEAN] /\ gathering \in [Indices -> BOOLEAN]
  /\ iceGatheringState \in {"new", "gathering", "complete"}
  /\ events \in Seq((0 .. MLines) \X (0 .. PerGatherer))

(* The local description and the events the application signals with tell    *)
(* the other side the same candidates, in the same order, none twice: a      *)
(* candidate that is buffered when the handler is installed is neither lost  *)
(* to the description nor handled a second time by the replay.               *)
DescriptionMatchesEvents ==
  \A g \in Indices :
    /\ CandidatesOf(lines[g]) = [k \in DOMAIN Dispatched(g) |-> Dispatched(g)[k][2]]
    /\ IsInjective(lines[g])

(* No candidate falls between the listener and the handler: whatever a       *)
(* gatherer in use has found is in the buffer, in the description, or was    *)
(* dropped by bundling.                                                      *)
NothingLost ==
  \A g \in Indices : (~usingBundle \/ g = 1) =>
    1 .. found[g] = {lines[g][k] : k \in DOMAIN lines[g]} \cup {buffered[g][k] : k \in DOMAIN buffered[g]}

(* Once every gatherer has found all and every timer has run, the gathering  *)
(* state is complete and the last candidate event was the null one, however  *)
(* late the local description was set.                                       *)
AllFound == \A i \in Indices : iceGatherer[i] # 0 /\ found[iceGatherer[i]] = End
EndsWithNull ==
  (AllFound /\ \A g \in Indices : ~replay[g] /\ (Exists(g) => gathering[g])) =>
    iceGatheringState = "complete" /\ Last(events) = Null

(* A local description is followed by the end of gathering.                  *)
GatheringEnds ==
  (\A g \in Indices : Exists(g) => gathering[g]) /\ iceGatherer[MLines] # 0
    ~> iceGatheringState = "complete"
=============================================================================
