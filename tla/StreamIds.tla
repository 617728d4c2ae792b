------------------------------ MODULE StreamIds ------------------------------
(* addTrack and removeTrack where the browser knows only streams              *)
(* (shimAddTrackRemoveTrack of adapter-7.4.0.js, Chrome before 65): the       *)
(* adapter gives the browser a stream of its own, the internal one, for each  *)
(* stream of the page, keeps two maps between them, and exchanges their ids   *)
(* in every description that passes.                                          *)
EXTENDS Naturals, FiniteSets

CONSTANTS Stream,     \* streams of the page
          Internal,   \* streams the adapter makes, a bound
          Track,
          Least       \* tracks a stream of the page has at least

VARIABLES
  tracksOf,    \* of the page's streams
  inner,       \* of the internal streams
  native,      \* streams the browser's connection sends
  streams,     \* _streams: external to internal
  reverse,     \* _reverseStreams: internal to external
  added        \* what the page has added and not removed: <<track, stream>>

vars == <<tracksOf, inner, native, streams, reverse, added>>

NoMap == [s \in {} |-> {}]

Init ==
  /\ tracksOf \in [Stream -> SUBSET Track]
  /\ \A s \in Stream : Cardinality(tracksOf[s]) >= Least
  /\ \A s, t \in Stream : s # t => tracksOf[s] \cap tracksOf[t] = {}
  /\ inner = [i \in Internal |-> {}]
  /\ native = {} /\ streams = NoMap /\ reverse = NoMap /\ added = {}

-----------------------------------------------------------------------------

Put(f, k, v) == [x \in DOMAIN f \cup {k} |-> IF x = k THEN v ELSE f[x]]
Drop(f, k) == [x \in DOMAIN f \ {k} |-> f[x]]

SentTracks == UNION {inner[i] : i \in native}

(* A new MediaStream, with the id mapping both ways.                         *)
MakeInternal(s, tracks) ==
  \E i \in Internal :
    /\ inner[i] = {} /\ i \notin DOMAIN reverse /\ i \notin native
    /\ inner' = [inner EXCEPT ![i] = tracks]
    /\ native' = native \cup {i}
    /\ streams' = Put(streams, s, i)
    /\ reverse' = Put(reverse, i, s)

AddStream(s) ==
  /\ tracksOf[s] \cap SentTracks = {}
  /\ MakeInternal(s, tracksOf[s])
  /\ added' = added \cup {<<t, s>> : t \in tracksOf[s]}
  /\ UNCHANGED tracksOf

RemoveStream_Bug(s) ==
  /\ s \in DOMAIN streams
  /\ native' = native \ {streams[s]}
  /\ inner' = [inner EXCEPT ![streams[s]] = {}]
  /\ reverse' = Drop(reverse, s)
  /\ streams' = Drop(streams, s)
  /\ added' = {a \in added : a[2] # s}
  /\ UNCHANGED tracksOf

(* The internal stream of s, with both entries.                              *)
RemoveStream(s) ==
  /\ s \in DOMAIN streams
  /\ native' = native \ {streams[s]}
  /\ inner' = [inner EXCEPT ![streams[s]] = {}]
  /\ reverse' = Drop(reverse, streams[s])
  /\ streams' = Drop(streams, s)
  /\ added' = {a \in added : a[2] # s}
  /\ UNCHANGED tracksOf

(* The first track of a stream makes the internal one, the others are added  *)
(* to it.                                                                    *)
AddTrack_Bug(t, s) ==
  /\ t \in tracksOf[s] /\ t \notin SentTracks
  /\ MakeInternal(s, {t})
  /\ added' = added \cup {<<t, s>>}
  /\ UNCHANGED tracksOf

AddTrack(t, s) ==
  /\ t \in tracksOf[s] /\ t \notin SentTracks
  /\ IF s \in DOMAIN streams
     THEN /\ inner' = [inner EXCEPT ![streams[s]] = @ \cup {t}]
          /\ UNCHANGED <<native, streams, reverse>>
     ELSE MakeInternal(s, {t})
  /\ added' = added \cup {<<t, s>>}
  /\ UNCHANGED tracksOf

RemoveTrack_Bug(t) ==   \* takes the stream along if the track is one of its own
  \E s \in DOMAIN streams :
    /\ t \in inner[streams[s]]
    /\ native' = native \ {streams[s]}
    /\ inner' = [inner EXCEPT ![streams[s]] = {}]
    /\ reverse' = Drop(reverse, streams[s])
    /\ streams' = Drop(streams, s)
    /\ added' = {a \in added : a[1] # t}
    /\ UNCHANGED tracksOf

(* The last track of an internal stream takes it along.                      *)
RemoveTrack(t) ==
  \E s \in DOMAIN streams :
    /\ t \in inner[streams[s]]
    /\ IF inner[streams[s]] = {t}
       THEN /\ native' = native \ {streams[s]}
            /\ inner' = [inner EXCEPT ![streams[s]] = {}]
            /\ reverse' = Drop(reverse, streams[s])
            /\ streams' = Drop(streams, s)
       ELSE /\ inner' = [inner EXCEPT ![streams[s]] = @ \ {t}]
            /\ UNCHANGED <<native, streams, reverse>>
    /\ added' = {a \in added : a[1] # t}
    /\ UNCHANGED tracksOf

Next ==
  \/ \E s \in Stream : AddStream(s) \/ RemoveStream(s) \/ \E t \in Track : AddTrack(t, s)
  \/ \E t \in Track : RemoveTrack(t)

Spec == Init /\ [][Next]_vars

-----------------------------------------------------------------------------
(* What the page reads.                                                      *)

GetLocalStreams == {IF i \in DOMAIN reverse THEN reverse[i] ELSE "undefined" : i \in native}

(* An id in the browser's description, as the page sees it.                  *)
ReplaceInternalStreamId(i) == IF i \in DOMAIN reverse THEN reverse[i] ELSE i

(* An id in the page's description, as the browser gets it.                  *)
ReplaceExternalStreamId(s) ==
  IF \E i \in DOMAIN reverse : reverse[i] = s THEN streams[s] ELSE s

(* Descriptions can be read and set: for each id that is replaced there is   *)
(* the internal stream it is looked up by.                                   *)
Readable == \A i \in DOMAIN reverse : reverse[i] \in DOMAIN streams

(* Of a description that goes out and comes back, the browser sees its own   *)
(* ids again, and the page never sees one of them.                           *)
IdsReturn ==
  \A i \in native : /\ ReplaceInternalStreamId(i) \in Stream
                    /\ ReplaceExternalStreamId(ReplaceInternalStreamId(i)) = i

(* The browser sends the tracks the page has added, each in the stream the   *)
(* page added it with.                                                       *)
SendsAdded ==
  added = UNION {{<<t, reverse[i]>> : t \in inner[i]} : i \in native \cap DOMAIN reverse}

(* The two mappings and the browser's streams agree, however streams and     *)
(* tracks are added and removed.                                             *)
IdsKept == Readable /\ IdsReturn /\ SendsAdded
=============================================================================
