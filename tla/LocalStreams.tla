---------------------------- MODULE LocalStreams ----------------------------
(* The adapter's own list of local streams (shimAddTrackRemoveTrackWithNative *)
(* of adapter-7.4.0.js, Chrome from 65): the browser's connection knows       *)
(* senders, and getLocalStreams is answered from a mapping of each stream to  *)
(* its senders, kept beside it by addTrack, addStream, removeTrack and        *)
(* removeStream.                                                              *)
EXTENDS Naturals, FiniteSets

CONSTANTS Stream, Track, Sender,
          NoTrack, NoStream,
          MaxPerStream   \* bound: tracks of a stream

VARIABLES
  tracksOf,   \* the tracks of each stream, which do not change
  sends,      \* the connection: per sender its track and the stream it is sent with
  made,       \* the connection: senders that exist, getSenders()
  local,      \* _shimmedLocalStreams
  mark        \* history: how each stream was used

vars == <<tracksOf, sends, made, local, mark>>

Idle == [track |-> NoTrack, stream |-> NoStream]

(* Streams may share tracks, and have none.                                  *)
Init ==
  /\ tracksOf \in [Stream -> {T \in SUBSET Track : Cardinality(T) <= MaxPerStream}]
  /\ sends = [x \in Sender |-> Idle]
  /\ made = {} /\ local = [s \in {} |-> {}]
  /\ mark = [s \in Stream |-> "plain"]

-----------------------------------------------------------------------------
(* The browser: a track is sent once; a sender that sends nothing is used    *)
(* again or left alone; removing a track leaves the sender, idle.            *)

Sent(t) == \E x \in made : sends[x].track = t
Usable == {x \in made : sends[x] = Idle}
Fresh == CHOOSE x \in Sender : x \notin made
Candidates == Usable \cup (IF made = Sender THEN {} ELSE {Fresh})

Sending(x, t, s) == [sends EXCEPT ![x] = [track |-> t, stream |-> s]]

-----------------------------------------------------------------------------

GetLocalStreams == DOMAIN local

With(s, senders) == [u \in DOMAIN local \cup {s} |-> IF u = s THEN senders ELSE local[u]]

Listed(s) == IF s \in DOMAIN local THEN local[s] ELSE {}

(* Any track may be added with any stream; one that is not the stream's own  *)
(* is on record.                                                             *)
AddTrack(t, s) ==
  /\ ~Sent(t)
  /\ \E x \in Candidates :
       /\ sends' = Sending(x, t, s)
       /\ made' = made \cup {x}
       /\ local' = With(s, Listed(s) \cup {x})
  /\ mark' = IF t \in tracksOf[s] THEN mark ELSE [mark EXCEPT ![s] = "loose"]
  /\ UNCHANGED tracksOf

(* addTrack without a stream is left to the browser.                         *)
AddTrackAlone(t) ==
  /\ ~Sent(t)
  /\ \E x \in Candidates :
       /\ sends' = Sending(x, t, NoStream)
       /\ made' = made \cup {x}
  /\ UNCHANGED <<tracksOf, local, mark>>

(* Listed are the senders that were not there before the browser added the   *)
(* stream; that one was used again is on record.                             *)
AddStream(s) ==
  /\ \A t \in tracksOf[s] : ~Sent(t)
  /\ \E f \in [tracksOf[s] -> Usable \cup (Sender \ made)] :
       /\ \A t, u \in tracksOf[s] : t # u => f[t] # f[u]
       /\ sends' = [x \in Sender |->
                      IF \E t \in tracksOf[s] : f[t] = x
                      THEN [track |-> CHOOSE t \in tracksOf[s] : f[t] = x, stream |-> s]
                      ELSE sends[x]]
       /\ made' = made \cup {f[t] : t \in tracksOf[s]}
       /\ local' = With(s, {f[t] : t \in tracksOf[s]} \ made)
       /\ mark' = IF mark[s] = "plain" /\ \E t \in tracksOf[s] : f[t] \in made
                  THEN [mark EXCEPT ![s] = "reused"] ELSE mark
  /\ UNCHANGED tracksOf

RemoveStream(s) ==
  /\ local' = [u \in DOMAIN local \ {s} |-> local[u]]
  /\ sends' = [x \in Sender |-> IF sends[x].track \in tracksOf[s] THEN Idle ELSE sends[x]]
  /\ mark' = IF mark[s] = "reused" THEN [mark EXCEPT ![s] = "plain"] ELSE mark
  /\ UNCHANGED <<tracksOf, made>>

RemoveTrack_Bug(x) ==
  /\ x \in made
  /\ local' = [s \in DOMAIN local |-> local[s] \ {x}]
  /\ sends' = [sends EXCEPT ![x] = Idle]
  /\ mark' = [s \in Stream |-> IF mark[s] = "reused" THEN "loose" ELSE mark[s]]
  /\ UNCHANGED <<tracksOf, made>>

(* A stream that has no sender left in the mapping goes, whether this sender *)
(* was its last or not.                                                      *)
RemoveTrack(x) ==
  /\ x \in made
  /\ local' = [s \in {u \in DOMAIN local : local[u] \ {x} # {}} |-> local[s] \ {x}]
  /\ sends' = [sends EXCEPT ![x] = Idle]
  /\ mark' = [s \in Stream |-> IF mark[s] = "reused" THEN "loose" ELSE mark[s]]
  /\ UNCHANGED <<tracksOf, made>>

Next ==
  \/ \E s \in Stream : AddStream(s) \/ RemoveStream(s) \/ \E t \in Track : AddTrack(t, s)
  \/ \E t \in Track : AddTrackAlone(t)
  \/ \E x \in Sender : RemoveTrack(x)

Spec == Init /\ [][Next]_vars

-----------------------------------------------------------------------------

TypeOK ==
  /\ tracksOf \in [Stream -> SUBSET Track]
  /\ sends \in [Sender -> [track : Track \cup {NoTrack}, stream : Stream \cup {NoStream}]]
  /\ made \subseteq Sender
  /\ DOMAIN local \subseteq Stream /\ \A s \in DOMAIN local : local[s] \subseteq made
  /\ mark \in [Stream -> {"plain", "reused", "loose"}]

(* A stream with tracks of its own only, that no foreign track was added     *)
(* with, and of which no removeTrack came after addStream had used a sender  *)
(* again. (A sender of another track goes on when the stream is removed; one *)
(* used again is not listed, so removing a track drops the stream; removing  *)
(* one stream stops the shared tracks of another, which stays listed.)       *)
Plain(s) ==
  /\ tracksOf[s] # {} /\ mark[s] # "loose"
  /\ \A u \in Stream \ {s} : tracksOf[s] \cap tracksOf[u] = {}

(* The list the page gets agrees with what the connection sends: whatever is *)
(* called, with this stream and with others that share tracks or are empty,  *)
(* a plain stream is in it while some sender sends with it.                  *)
LocalAgrees ==
  \A s \in Stream : Plain(s) => (s \in GetLocalStreams <=> \E x \in made : sends[x].stream = s)
=============================================================================
