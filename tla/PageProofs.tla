------------------------------ MODULE PageProofs ------------------------------
(* Proofs about scripts of the page: the refresh utility (AsyncRefresh), for any *)
(* number of views, restarts and popovers; the two shims of local streams        *)
(* (LocalStreams and StreamIds, as MCAdapter sets them side by side), for any    *)
(* streams, tracks and senders; the filters of servers (IceServers), for any     *)
(* list; the way of an address to the request (Url, as MCPage runs it), for      *)
(* any hosts, ports, parameters and lengths; and the text of descriptions (Sdp,  *)
(* as SdpLines runs it), for any addresses, ports, fragments and sizes.          *)
EXTENDS MCPage, MCAdapter, Filter, Integers, FiniteSetTheorems, SequenceTheorems,
        WellFoundedInduction, TLAPS

(* Every set of numbers that is not empty has a least one: what the proofs about *)
(* the elements of a list are by.                                                *)
LEMMA LeastNumber ==
  ASSUME NEW S \in SUBSET Nat, S # {}
  PROVE  \E n \in S : \A m \in S : n <= m
  <1>1. IsWellFoundedOn(OpToRel(<, Nat), Nat)
    BY NatLessThanWellFounded
  <1>2. PICK n \in S : \A m \in S : <<m, n>> \notin OpToRel(<, Nat)
    BY <1>1, WFMin
  <1>3. \A m \in S : ~ (m < n)
    BY <1>2 DEF OpToRel
  <1> QED
    BY <1>3

(* Array.filter by places, taken apart: nothing is picked of nothing, and     *)
(* each place adds its element or none.                                       *)
Unfolds(s, passed, f) ==
  /\ Pick(s, passed) = f[Len(s)] /\ f[0] = <<>>
  /\ \A n \in 1 .. Len(s) :
       f[n] = IF n \in passed THEN Append(f[n - 1], s[n]) ELSE f[n - 1]

LEMMA PickUnfolds ==
  ASSUME NEW S, NEW s \in Seq(S), NEW passed
  PROVE  \E f : Unfolds(s, passed, f)
  <1> DEFINE Body(f, n) == IF n = 0 THEN <<>>
                           ELSE IF n \in passed THEN Append(f[n - 1], s[n]) ELSE f[n - 1]
             Rec(f, m) == f = [n \in 0 .. m |-> Body(f, n)]
             picked == CHOOSE f : Rec(f, Len(s))
  <1>1. Pick(s, passed) = picked[Len(s)]
    BY DEF Pick
  <1>2. Len(s) \in Nat
    OBVIOUS
  <1>3. \E f : Rec(f, Len(s))
    <2> DEFINE Bad == {m \in Nat : ~ \E f : Rec(f, m)}
    <2> SUFFICES ASSUME Bad # {} PROVE FALSE
      BY <1>2
    <2>1. PICK m \in Bad : \A n \in Bad : m <= n
      <3> HIDE DEF Bad
      <3>1. Bad \in SUBSET Nat BY DEF Bad
      <3> QED BY <3>1, LeastNumber
    <2>2. m # 0
      <3>1. Rec([n \in 0 .. 0 |-> <<>>], 0) OBVIOUS
      <3> QED BY <3>1
    <2>3. PICK f : Rec(f, m - 1)
      <3>1. m - 1 \in Nat /\ ~ (m <= m - 1) BY <2>2
      <3> QED BY <3>1, <2>1
    <2> DEFINE g == [n \in 0 .. m |-> Body(f, n)]
    <2>4. ASSUME NEW n \in 0 .. m PROVE g[n] = Body(g, n)
      <3>1. g[n] = Body(f, n) OBVIOUS
      <3>2. CASE n = 0 BY <3>1, <3>2
      <3>3. CASE n # 0
        <4>1. n - 1 \in 0 .. m /\ n - 1 \in 0 .. m - 1 BY <3>3
        <4>2. g[n - 1] = Body(f, n - 1) BY <4>1
        <4>3. f[n - 1] = Body(f, n - 1) BY <4>1, <2>3
        <4> QED BY <3>1, <4>2, <4>3
      <3> QED BY <3>2, <3>3
    <2>5. Rec(g, m)
      <3>1. g = [n \in 0 .. m |-> g[n]] OBVIOUS
      <3> HIDE DEF g, Body
      <3> QED BY <3>1, <2>4
    <2> QED BY <2>5
  <1>4. \A n \in 0 .. Len(s) : picked[n] = Body(picked, n)
    <2>1. Rec(picked, Len(s)) BY <1>3
    <2> HIDE DEF picked
    <2> QED BY <2>1
  <1> HIDE DEF picked
  <1>5. picked[0] = <<>> BY <1>2, <1>4
  <1>6. \A n \in 1 .. Len(s) :
          picked[n] = IF n \in passed THEN Append(picked[n - 1], s[n]) ELSE picked[n - 1]
    BY <1>4
  <1> QED BY <1>1, <1>5, <1>6 DEF Unfolds

(* Where each picked element comes from: every passed place, once.            *)
TakenFrom(r, s, passed, g) ==
  /\ g \in [DOMAIN r -> DOMAIN s \cap passed]
  /\ \A n \in DOMAIN r : r[n] = s[g[n]]
  /\ \A m, n \in DOMAIN r : g[m] = g[n] => m = n
  /\ \A i \in DOMAIN s \cap passed : \E n \in DOMAIN r : g[n] = i

LEMMA PickPlaces ==
  ASSUME NEW S, NEW s \in Seq(S), NEW passed
  PROVE  /\ Pick(s, passed) \in Seq(S)
         /\ \E g : TakenFrom(Pick(s, passed), s, passed, g)
  <1>1. PICK f : /\ Pick(s, passed) = f[Len(s)] /\ f[0] = <<>>
                 /\ \A n \in 1 .. Len(s) :
                      f[n] = IF n \in passed THEN Append(f[n - 1], s[n]) ELSE f[n - 1]
    BY PickUnfolds DEF Unfolds
  <1> DEFINE From(r, g, n) ==
               /\ g \in [1 .. Len(r) -> (1 .. n) \cap passed]
               /\ \A x \in 1 .. Len(r) : r[x] = s[g[x]]
               /\ \A x, y \in 1 .. Len(r) : g[x] = g[y] => x = y
               /\ \A i \in (1 .. n) \cap passed : \E x \in 1 .. Len(r) : g[x] = i
             Good(n) == f[n] \in Seq(S) /\ \E g : From(f[n], g, n)
             Bad == {n \in 0 .. Len(s) : ~ Good(n)}
  <1>2. Good(0)
    <2>1. From(<<>>, [x \in 1 .. 0 |-> 0], 0) OBVIOUS
    <2>2. <<>> \in Seq(S) OBVIOUS
    <2>3. f[0] = <<>> BY <1>1
    <2> HIDE DEF From
    <2> QED BY <2>1, <2>2, <2>3
  <1>3. ASSUME NEW n \in 1 .. Len(s), Good(n - 1) PROVE Good(n)
    <2> DEFINE r == f[n - 1]
    <2>1. r \in Seq(S) BY <1>3
    <2>2. PICK g : From(r, g, n - 1) BY <1>3
    <2>3. f[n] = IF n \in passed THEN Append(r, s[n]) ELSE r BY <1>1
    <2> HIDE DEF r
    <2>4. CASE n \notin passed
      <3>1. (1 .. n) \cap passed = (1 .. n - 1) \cap passed BY <2>4
      <3>2. From(r, g, n) BY <2>2, <3>1
      <3>3. f[n] = r BY <2>3, <2>4
      <3> HIDE DEF From
      <3> QED BY <2>1, <3>2, <3>3
    <2>5. CASE n \in passed
      <3> DEFINE t == Append(r, s[n])
                 h == [x \in 1 .. Len(t) |-> IF x = Len(t) THEN n ELSE g[x]]
      <3>1. t \in Seq(S) /\ Len(t) = Len(r) + 1 /\ t[Len(t)] = s[n]
            /\ \A x \in 1 .. Len(r) : t[x] = r[x]
        BY <2>1
      <3> HIDE DEF t
      <3>2. /\ Len(r) \in Nat
            /\ h[Len(t)] = n
            /\ \A x \in 1 .. Len(r) : h[x] = g[x]
            /\ \A x \in 1 .. Len(t) : x = Len(t) \/ x \in 1 .. Len(r)
            /\ \A x \in 1 .. Len(r) : x \in 1 .. Len(t)
            /\ Len(t) \in 1 .. Len(t)
        BY <2>1, <3>1
      <3>3. h \in [1 .. Len(t) -> (1 .. n) \cap passed]
        <4>1. \A x \in 1 .. Len(r) : g[x] \in (1 .. n) \cap passed BY <2>2
        <4>2. n \in (1 .. n) \cap passed BY <2>5
        <4>3. \A x \in 1 .. Len(t) : h[x] \in (1 .. n) \cap passed BY <3>2, <4>1, <4>2
        <4> QED BY <4>3
      <3> HIDE DEF h
      <3>4. \A x \in 1 .. Len(t) : t[x] = s[h[x]]
        BY <2>2, <3>1, <3>2
      <3>5. \A x \in 1 .. Len(r) : g[x] \in 1 .. n - 1 /\ g[x] # n BY <2>2
      <3>6. \A x, y \in 1 .. Len(t) : h[x] = h[y] => x = y
        BY <2>2, <3>2, <3>5
      <3>7. \A i \in (1 .. n) \cap passed : \E x \in 1 .. Len(t) : h[x] = i
        <4> SUFFICES ASSUME NEW i \in (1 .. n) \cap passed PROVE \E x \in 1 .. Len(t) : h[x] = i
          OBVIOUS
        <4>1. CASE i = n BY <4>1, <3>2
        <4>2. CASE i # n
          <5>1. i \in (1 .. n - 1) \cap passed BY <4>2
          <5>2. PICK x \in 1 .. Len(r) : g[x] = i BY <2>2, <5>1
          <5> QED BY <3>2, <5>2
        <4> QED BY <4>1, <4>2
      <3>8. From(t, h, n) BY <3>3, <3>4, <3>6, <3>7
      <3>9. f[n] = t BY <2>3, <2>5 DEF t
      <3> HIDE DEF From
      <3> QED BY <3>1, <3>8, <3>9
    <2> QED BY <2>4, <2>5
  <1>4. Bad = {}
    <2> SUFFICES ASSUME Bad # {} PROVE FALSE OBVIOUS
    <2> HIDE DEF Good
    <2>1. PICK n \in Bad : \A m \in Bad : n <= m
      <3>1. Bad \in SUBSET Nat OBVIOUS
      <3> HIDE DEF Bad
      <3> QED BY <3>1, LeastNumber
    <2>2. n \in 0 .. Len(s) /\ ~ Good(n) /\ n # 0 BY <1>2
    <2>3. n - 1 \in 0 .. Len(s) /\ ~ (n <= n - 1) BY <2>2
    <2>4. Good(n - 1) BY <2>1, <2>3
    <2> QED BY <1>3, <2>2, <2>4
  <1>5. Good(Len(s))
    <2> HIDE DEF Good
    <2>1. Len(s) \in 0 .. Len(s) OBVIOUS
    <2> QED BY <1>4, <2>1
  <1> DEFINE r == Pick(s, passed)
  <1>6. r \in Seq(S) BY <1>1, <1>5
  <1>7. PICK g : From(r, g, Len(s)) BY <1>1, <1>5
  <1> HIDE DEF r
  <1>8. DOMAIN r = 1 .. Len(r) /\ DOMAIN s = 1 .. Len(s) BY <1>6
  <1>9. g \in [DOMAIN r -> DOMAIN s \cap passed] BY <1>7, <1>8
  <1>10. /\ \A n \in DOMAIN r : r[n] = s[g[n]]
         /\ \A m, n \in DOMAIN r : g[m] = g[n] => m = n
         /\ \A i \in DOMAIN s \cap passed : \E n \in DOMAIN r : g[n] = i
    BY <1>7, <1>8
  <1>11. TakenFrom(r, s, passed, g) BY <1>9, <1>10 DEF TakenFrom
  <1> QED BY <1>6, <1>11 DEF r

LEMMA SamePick ==
  \A s, passed : Servers!Pick(s, passed) = Pick(s, passed) /\ Text!Pick(s, passed) = Pick(s, passed)
  BY DEF Servers!Pick, Text!Pick, Pick

-----------------------------------------------------------------------------
(* AsyncRefresh.                                                                 *)

(* Only the view that is open can be enabled: what makes an armed timer of an *)
(* old view harmless.                                                         *)
OnlyCurrent == \A c \in Calls : enabled[c] => c = current

RefreshInv == TypeOK /\ OneTimer /\ OnlyCurrent

LEMMA RefreshInit == Init => RefreshInv
<1> SUFFICES ASSUME Init PROVE RefreshInv OBVIOUS
<1>1. 0 \in Calls BY BoundsAssumption DEF Calls
<1>2. TypeOK BY <1>1 DEF Init, TypeOK
<1>3. OneTimer /\ OnlyCurrent BY DEF Init, OneTimer, OnlyCurrent
<1> QED BY <1>2, <1>3 DEF RefreshInv

(* A request leaves at most one timer of each call.                           *)
LEMMA RequestOne ==
  ASSUME NEW f \in [Calls -> Nat], NEW c \in Calls, NEW has \in BOOLEAN,
         \A d \in Calls : f[d] <= 1
  PROVE  /\ Request(f, c, has) \in [Calls -> Nat]
         /\ \A d \in Calls : Request(f, c, has)[d] <= 1
  BY DEF Request

LEMMA FiredOne ==
  ASSUME NEW c \in Calls, RefreshInv, armed[c] > 0
  PROVE  /\ Fired(c) \in [Calls -> Nat]
         /\ \A d \in Calls : Fired(c)[d] <= 1
  BY DEF RefreshInv, TypeOK, OneTimer, Fired

LEMMA RefreshNext == RefreshInv /\ [Next]_vars => RefreshInv'
<1> SUFFICES ASSUME RefreshInv, [Next]_vars PROVE RefreshInv' OBVIOUS
<1> USE DEF RefreshInv
<1>0. current \in Calls /\ hasPfn[current] \in BOOLEAN BY DEF TypeOK
<1>1. ASSUME NEW has \in BOOLEAN, RefreshChange(has) PROVE RefreshInv'
  <2>1. current + 1 \in Calls BY <1>1, BoundsAssumption DEF RefreshChange, Calls, TypeOK
  <2>2. armed' \in [Calls -> Nat] /\ \A d \in Calls : armed'[d] <= 1
    BY <1>1, <2>1, RequestOne DEF RefreshChange, TypeOK, OneTimer
  <2>3. TypeOK' BY <1>1, <2>1, <2>2 DEF RefreshChange, TypeOK
  <2>4. OnlyCurrent'
    BY <1>1, <2>1 DEF RefreshChange, TypeOK, OnlyCurrent, Calls
  <2> QED BY <2>2, <2>3, <2>4 DEF OneTimer
<1>2. CASE Stop BY <1>2 DEF Stop, TypeOK, OneTimer, OnlyCurrent
<1>3. CASE Restart
  <2>1. armed' \in [Calls -> Nat] /\ \A d \in Calls : armed'[d] <= 1
    BY <1>0, <1>3, RequestOne DEF Restart, TypeOK, OneTimer
  <2>2. TypeOK' BY <1>0, <1>3, <2>1 DEF Restart, TypeOK
  <2> QED BY <1>3, <2>1, <2>2 DEF Restart, TypeOK, OneTimer, OnlyCurrent
<1>4. ASSUME NEW c \in Calls, FireDisabled(c) \/ Fire(c) PROVE RefreshInv'
  <2>1. armed' \in [Calls -> Nat] /\ \A d \in Calls : armed'[d] <= 1
    BY <1>4, FiredOne DEF FireDisabled, Fire
  <2>2. loads' \in [Calls -> Nat] BY <1>4 DEF FireDisabled, Fire, TypeOK
  <2> QED BY <1>4, <2>1, <2>2 DEF FireDisabled, Fire, TypeOK, OneTimer, OnlyCurrent
<1>5. ASSUME NEW c \in Calls, FireAborted(c) PROVE RefreshInv'
  <2>1. armed' \in [Calls -> Nat] /\ \A d \in Calls : armed'[d] <= 1
    BY <1>0, <1>5, FiredOne, RequestOne DEF FireAborted
  <2> QED BY <1>5, <2>1 DEF FireAborted, TypeOK, OneTimer, OnlyCurrent
<1>6. ASSUME NEW c \in Calls, Loaded(c) PROVE RefreshInv'
  <2>1. armed' \in [Calls -> Nat] /\ \A d \in Calls : armed'[d] <= 1
    BY <1>0, <1>6, RequestOne DEF Loaded, TypeOK, OneTimer
  <2>2. loads' \in [Calls -> Nat] BY <1>6 DEF Loaded, TypeOK
  <2> QED BY <1>6, <2>1, <2>2 DEF Loaded, TypeOK, OneTimer, OnlyCurrent
<1>7. CASE OpenPopover
  <2>1. popover' \in BOOLEAN /\ popovers' \in Nat BY <1>7 DEF OpenPopover, TypeOK
  <2> QED BY <1>7, <2>1 DEF OpenPopover, TypeOK, OneTimer, OnlyCurrent
<1>8. CASE ClosePopover
  <2>1. popover' \in BOOLEAN BY <1>8 DEF ClosePopover
  <2> QED BY <1>8, <2>1 DEF ClosePopover, TypeOK, OneTimer, OnlyCurrent
<1>9. CASE UNCHANGED vars BY <1>9 DEF vars, TypeOK, OneTimer, OnlyCurrent
<1> QED BY <1>1, <1>2, <1>3, <1>4, <1>5, <1>6, <1>7, <1>8, <1>9 DEF Next

LEMMA RefreshAlways == Spec => []RefreshInv
  BY RefreshInit, RefreshNext, PTL DEF Spec

(* Whoever asks for a request, a call never has two timers. The timer of an   *)
(* old view may fire after refresh_change, and does nothing: the disabled     *)
(* flag does what the broken clearTimeout does not.                           *)
THEOREM OldSilent == Spec => OldIsHarmless
<1>1. RefreshInv => OneTimer BY DEF RefreshInv
<1>2. RefreshInv /\ [Next]_vars => [\A c \in Calls : loads'[c] > loads[c] => c = current]_vars
  <2> SUFFICES ASSUME RefreshInv, Next, NEW d \in Calls, loads'[d] > loads[d] PROVE d = current
    OBVIOUS
  <2> USE DEF RefreshInv, TypeOK
  <2>1. CASE \E c \in Calls : Fire(c)
    BY <2>1 DEF Fire, OnlyCurrent
  <2>2. CASE \E c \in Calls : Loaded(c)
    BY <2>2 DEF Loaded
  <2>3. CASE UNCHANGED loads BY <2>3
  <2> QED
    BY <2>1, <2>2, <2>3
    DEF Next, RefreshChange, Stop, Restart, FireDisabled, FireAborted, OpenPopover, ClosePopover
<1> QED BY RefreshAlways, <1>1, <1>2, PTL DEF Spec, OldIsHarmless

-----------------------------------------------------------------------------
(* LocalStreams.                                                                 *)

(* What the connection sends of a stream.                                    *)
SendersOf(s) == {x \in made : sends[x].stream = s}

(* A sender that is not there sends nothing.                                 *)
UnmadeIdle == \A x \in Sender \ made : sends[x] = Local!Idle

(* What sends with a stream sends tracks of its own, it is listed while      *)
(* there is one, and listed are all of them until a sender was used again.   *)
Faithful(s) ==
  /\ \A x \in Sender : sends[x].stream = s => sends[x].track \in tracksOf[s]
  /\ mark[s] = "plain" => Local!Listed(s) = SendersOf(s)
  /\ s \in DOMAIN local <=> SendersOf(s) # {}

LocalInv == Local!TypeOK /\ UnmadeIdle /\ \A s \in Stream : Local!Plain(s) => Faithful(s)

LEMMA LocalHolds == LocalInv => Local!LocalAgrees
  BY DEF LocalInv, Faithful, Local!LocalAgrees, Local!GetLocalStreams, SendersOf

LEMMA LocalStart == Local!Init => LocalInv
  <1> SUFFICES ASSUME Local!Init PROVE LocalInv
    OBVIOUS
  <1> USE DEF Local!Init
  <1>1. tracksOf \in [Stream -> SUBSET Track]
    <2> DEFINE Small == {T \in SUBSET Track : Local!Cardinality(T) <= MaxPerStream}
    <2>1. tracksOf \in [Stream -> Small] OBVIOUS
    <2>2. Small \subseteq SUBSET Track OBVIOUS
    <2> HIDE DEF Small
    <2> QED BY <2>1, <2>2
  <1>2. Local!TypeOK /\ UnmadeIdle
    BY <1>1 DEF Local!TypeOK, Local!Idle, UnmadeIdle
  <1>3. ASSUME NEW s \in Stream PROVE Faithful(s)
    BY LocalAssumption DEF Faithful, SendersOf, Local!Listed, Local!Idle
  <1> QED
    BY <1>2, <1>3 DEF LocalInv

(* A stream that is plain after a step was so before.                        *)
LEMMA PlainBefore ==
  ASSUME Local!TypeOK, UNCHANGED tracksOf, NEW s \in Stream, Local!Plain(s)',
         mark'[s] = "loose" \/ mark[s] # "loose"
  PROVE  Local!Plain(s)
  BY DEF Local!Plain

(* One sender is taken for a track, in a stream.                             *)
LEMMA AddTrackKeeps ==
  ASSUME LocalInv, NEW s \in Stream, NEW t \in Track, Local!AddTrack(t, s)
  PROVE  LocalInv'
  <1> USE DEF LocalInv
  <1>1. PICK x \in Local!Candidates :
          /\ sends' = Local!Sending(x, t, s)
          /\ made' = made \cup {x}
          /\ local' = Local!With(s, Local!Listed(s) \cup {x})
    BY DEF Local!AddTrack
  <1>2. /\ UNCHANGED tracksOf
        /\ mark' = IF t \in tracksOf[s] THEN mark ELSE [mark EXCEPT ![s] = "loose"]
    BY DEF Local!AddTrack
  <1>3. x \in Sender /\ sends[x] = Local!Idle
    BY DEF Local!Candidates, Local!Usable, Local!Fresh, Local!TypeOK, UnmadeIdle
  <1>4. /\ sends' = [sends EXCEPT ![x] = [track |-> t, stream |-> s]]
        /\ \A y \in Sender : sends'[y] = IF y = x THEN [track |-> t, stream |-> s] ELSE sends[y]
    BY <1>1 DEF Local!Sending, Local!TypeOK
  <1>5. /\ DOMAIN local' = DOMAIN local \cup {s}
        /\ \A u \in DOMAIN local \cup {s} :
             local'[u] = IF u = s THEN Local!Listed(s) \cup {x} ELSE local[u]
    BY <1>1 DEF Local!With
  <1>6. Local!TypeOK'
    <2>1. tracksOf' \in [Stream -> SUBSET Track] /\ made' \subseteq Sender
      BY <1>1, <1>2, <1>3 DEF Local!TypeOK
    <2>2. sends' \in [Sender -> [track : Track \cup {NoTrack}, stream : Stream \cup {NoStream}]]
      BY <1>3, <1>4 DEF Local!TypeOK
    <2>3. DOMAIN local' \subseteq Stream /\ \A u \in DOMAIN local' : local'[u] \subseteq made'
      BY <1>1, <1>5 DEF Local!TypeOK, Local!Listed
    <2>4. mark' \in [Stream -> {"plain", "reused", "loose"}]
      BY <1>2 DEF Local!TypeOK
    <2> QED
      BY <2>1, <2>2, <2>3, <2>4 DEF Local!TypeOK
  <1>7. UnmadeIdle'
    BY <1>1, <1>3, <1>4 DEF UnmadeIdle, Local!TypeOK
  <1>8. ASSUME NEW u \in Stream, Local!Plain(u)' PROVE Faithful(u)'
    <2>1. mark'[u] = mark[u] /\ (u = s => t \in tracksOf[s])
      BY <1>2, <1>8 DEF Local!Plain, Local!TypeOK
    <2>2. Local!Plain(u)
      BY <1>2, <1>8, <2>1, PlainBefore
    <2>3. Faithful(u)
      BY <2>2
    <2>4. SendersOf(u)' = IF u = s THEN SendersOf(u) \cup {x} ELSE SendersOf(u)
      BY <1>1, <1>3, <1>4, LocalAssumption DEF SendersOf, Local!TypeOK, Local!Idle
    <2>5. Local!Listed(u)' = IF u = s THEN Local!Listed(u) \cup {x} ELSE Local!Listed(u)
      BY <1>5 DEF Local!Listed
    <2>6. \A y \in Sender : sends'[y].stream = u => sends'[y].track \in tracksOf'[u]
      BY <1>2, <1>4, <2>1, <2>3 DEF Faithful
    <2> QED
      BY <1>5, <2>1, <2>3, <2>4, <2>5, <2>6 DEF Faithful
  <1> QED
    BY <1>6, <1>7, <1>8

(* One is taken for a track that is sent in no stream.                       *)
LEMMA AddTrackAloneKeeps ==
  ASSUME LocalInv, NEW t \in Track, Local!AddTrackAlone(t)
  PROVE  LocalInv'
  <1> USE DEF LocalInv
  <1>1. PICK x \in Local!Candidates :
          sends' = Local!Sending(x, t, NoStream) /\ made' = made \cup {x}
    BY DEF Local!AddTrackAlone
  <1>2. UNCHANGED <<tracksOf, local, mark>>
    BY DEF Local!AddTrackAlone
  <1>3. x \in Sender /\ sends[x] = Local!Idle
    BY DEF Local!Candidates, Local!Usable, Local!Fresh, Local!TypeOK, UnmadeIdle
  <1>4. /\ sends' = [sends EXCEPT ![x] = [track |-> t, stream |-> NoStream]]
        /\ \A y \in Sender :
             sends'[y] = IF y = x THEN [track |-> t, stream |-> NoStream] ELSE sends[y]
    BY <1>1 DEF Local!Sending, Local!TypeOK
  <1>5. Local!TypeOK'
    <2>1. sends' \in [Sender -> [track : Track \cup {NoTrack}, stream : Stream \cup {NoStream}]]
      BY <1>3, <1>4 DEF Local!TypeOK
    <2> QED
      BY <1>1, <1>2, <1>3, <2>1 DEF Local!TypeOK
  <1>6. UnmadeIdle'
    BY <1>1, <1>3, <1>4 DEF UnmadeIdle, Local!TypeOK
  <1>7. ASSUME NEW u \in Stream, Local!Plain(u)' PROVE Faithful(u)'
    <2>1. Faithful(u)
      BY <1>2, <1>7, PlainBefore
    <2>2. SendersOf(u)' = SendersOf(u)
      BY <1>1, <1>3, <1>4, LocalAssumption DEF SendersOf, Local!TypeOK, Local!Idle
    <2>3. Local!Listed(u)' = Local!Listed(u)
      BY <1>2 DEF Local!Listed
    <2>4. \A y \in Sender : sends'[y].stream = u => sends'[y].track \in tracksOf'[u]
      BY <1>2, <1>4, <2>1, LocalAssumption DEF Faithful
    <2> QED
      BY <1>2, <2>1, <2>2, <2>3, <2>4 DEF Faithful
  <1> QED
    BY <1>5, <1>6, <1>7

(* All tracks of a stream get a sender; none of them had one.                *)
LEMMA AddStreamKeeps ==
  ASSUME LocalInv, NEW s \in Stream, Local!AddStream(s)
  PROVE  LocalInv'
  <1> USE DEF LocalInv
  <1> DEFINE Free == Local!Usable \cup (Sender \ made)
  <1>1. PICK f \in [tracksOf[s] -> Free] :
          /\ \A t, u \in tracksOf[s] : t # u => f[t] # f[u]
          /\ sends' = [x \in Sender |->
                         IF \E t \in tracksOf[s] : f[t] = x
                         THEN [track |-> CHOOSE t \in tracksOf[s] : f[t] = x, stream |-> s]
                         ELSE sends[x]]
          /\ made' = made \cup {f[t] : t \in tracksOf[s]}
          /\ local' = Local!With(s, {f[t] : t \in tracksOf[s]} \ made)
          /\ mark' = IF mark[s] = "plain" /\ \E t \in tracksOf[s] : f[t] \in made
                     THEN [mark EXCEPT ![s] = "reused"] ELSE mark
    BY DEF Local!AddStream
  <1> DEFINE Taken == {f[t] : t \in tracksOf[s]}
  <1>2. UNCHANGED tracksOf
    BY DEF Local!AddStream
  <1>3. \A t \in tracksOf[s] : ~ Local!Sent(t)
    BY DEF Local!AddStream
  <1>4. \A x \in Taken : x \in Sender /\ sends[x] = Local!Idle
    BY <1>1 DEF Local!Usable, Local!TypeOK, UnmadeIdle
  <1>5. \A x \in Sender :
          /\ x \in Taken => sends'[x].stream = s /\ sends'[x].track \in tracksOf[s]
          /\ x \notin Taken => sends'[x] = sends[x]
    <2> TAKE x \in Sender
    <2>1. x \in Taken <=> \E t \in tracksOf[s] : f[t] = x
      OBVIOUS
    <2>2. CASE x \in Taken
      <3>1. (CHOOSE t \in tracksOf[s] : f[t] = x) \in tracksOf[s]
        BY <2>1, <2>2
      <3>2. sends'[x] = [track |-> CHOOSE t \in tracksOf[s] : f[t] = x, stream |-> s]
        BY <1>1, <2>1, <2>2
      <3> QED
        BY <2>2, <3>1, <3>2
    <2>3. CASE x \notin Taken
      BY <1>1, <2>1, <2>3
    <2> QED
      BY <2>2, <2>3
  <1>6. /\ DOMAIN local' = DOMAIN local \cup {s}
        /\ \A u \in DOMAIN local \cup {s} :
             local'[u] = IF u = s THEN Taken \ made ELSE local[u]
    BY <1>1 DEF Local!With
  <1>7. tracksOf[s] # {} => Taken # {}
    OBVIOUS
  <1>8. made' = made \cup Taken
    BY <1>1
  <1>9. Local!TypeOK'
    <2>1. \A x \in Sender :
            sends'[x] \in [track : Track \cup {NoTrack}, stream : Stream \cup {NoStream}]
      <3> TAKE x \in Sender
      <3>1. CASE x \in Taken
        <4>1. PICK t \in tracksOf[s] : f[t] = x
          BY <3>1
        <4>2. (CHOOSE u \in tracksOf[s] : f[u] = x) \in Track
          BY <4>1 DEF Local!TypeOK
        <4>3. sends'[x] = [track |-> CHOOSE u \in tracksOf[s] : f[u] = x, stream |-> s]
          BY <1>1, <4>1
        <4> QED
          BY <4>2, <4>3
      <3>2. CASE x \notin Taken
        BY <1>5, <3>2 DEF Local!TypeOK
      <3> QED
        BY <3>1, <3>2
    <2>2. sends' \in [Sender -> [track : Track \cup {NoTrack}, stream : Stream \cup {NoStream}]]
      BY <1>1, <2>1
    <2>3. made' \subseteq Sender
      BY <1>4, <1>8 DEF Local!TypeOK
    <2>4. DOMAIN local' \subseteq Stream /\ \A u \in DOMAIN local' : local'[u] \subseteq made'
      BY <1>6, <1>8 DEF Local!TypeOK
    <2>5. mark' \in [Stream -> {"plain", "reused", "loose"}]
      BY <1>1 DEF Local!TypeOK
    <2> QED
      BY <1>2, <2>2, <2>3, <2>4, <2>5 DEF Local!TypeOK
  <1>10. /\ \A u \in Stream : u # s => mark'[u] = mark[u]
         /\ mark'[s] = "plain" => mark[s] = "plain" /\ Taken \cap made = {}
         /\ mark'[s] # "loose" => mark[s] # "loose"
    BY <1>1 DEF Local!TypeOK
  <1> HIDE DEF Taken
  <1>11. UnmadeIdle'
    BY <1>5, <1>8 DEF UnmadeIdle
  <1>12. \A u \in Stream : SendersOf(u)' = IF u = s THEN SendersOf(u) \cup Taken ELSE SendersOf(u)
    BY <1>4, <1>5, <1>8, LocalAssumption DEF SendersOf, Local!TypeOK, Local!Idle
  <1>13. ASSUME NEW u \in Stream, Local!Plain(u)' PROVE Faithful(u)'
    <2>1. mark'[u] # "loose" /\ tracksOf[u] # {}
      BY <1>2, <1>13 DEF Local!Plain
    <2>2. Local!Plain(u)
      BY <1>2, <1>10, <1>13, <2>1, PlainBefore
    <2>3. Faithful(u)
      BY <2>2
    <2>4. \A y \in Sender : sends'[y].stream = u => sends'[y].track \in tracksOf'[u]
      BY <1>2, <1>5, <2>3 DEF Faithful
    <2>5. CASE u # s
      <3>1. SendersOf(u)' = SendersOf(u) BY <1>12, <2>5
      <3>2. Local!Listed(u)' = Local!Listed(u) /\ (u \in DOMAIN local' <=> u \in DOMAIN local)
        BY <1>6, <2>5 DEF Local!Listed
      <3>3. mark'[u] = mark[u] BY <1>10, <2>5
      <3> QED BY <2>3, <2>4, <3>1, <3>2, <3>3 DEF Faithful
    <2>6. CASE u = s
      <3>1. SendersOf(s) = {}
        BY <1>3, <2>3, <2>6 DEF Faithful, SendersOf, Local!Sent, Local!TypeOK
      <3>2. SendersOf(s)' = Taken /\ Taken # {}
        BY <1>7, <1>12, <2>1, <2>6, <3>1
      <3>3. Local!Listed(s)' = Taken \ made /\ s \in DOMAIN local'
        BY <1>6 DEF Local!Listed
      <3>4. mark'[s] = "plain" => Taken \ made = Taken
        BY <1>10
      <3> QED BY <2>4, <2>6, <3>2, <3>3, <3>4 DEF Faithful
    <2> QED BY <2>5, <2>6
  <1> QED
    BY <1>9, <1>11, <1>13

(* Whatever sends a track of the stream stops.                               *)
LEMMA RemoveStreamKeeps ==
  ASSUME LocalInv, NEW s \in Stream, Local!RemoveStream(s)
  PROVE  LocalInv'
  <1> USE DEF LocalInv
  <1>1. /\ UNCHANGED <<tracksOf, made>>
        /\ mark' = IF mark[s] = "reused" THEN [mark EXCEPT ![s] = "plain"] ELSE mark
    BY DEF Local!RemoveStream
  <1>2. /\ DOMAIN local' = DOMAIN local \ {s}
        /\ \A u \in DOMAIN local \ {s} : local'[u] = local[u]
    BY DEF Local!RemoveStream
  <1>3. /\ sends' = [x \in Sender |-> IF sends[x].track \in tracksOf[s] THEN Local!Idle ELSE sends[x]]
        /\ \A x \in Sender :
             sends'[x] = IF sends[x].track \in tracksOf[s] THEN Local!Idle ELSE sends[x]
    BY DEF Local!RemoveStream
  <1>4. Local!TypeOK'
    <2>1. \A x \in Sender :
            sends'[x] \in [track : Track \cup {NoTrack}, stream : Stream \cup {NoStream}]
      BY <1>3 DEF Local!TypeOK, Local!Idle
    <2>2. sends' \in [Sender -> [track : Track \cup {NoTrack}, stream : Stream \cup {NoStream}]]
      BY <1>3, <2>1
    <2>3. mark' \in [Stream -> {"plain", "reused", "loose"}]
      BY <1>1 DEF Local!TypeOK
    <2> QED
      BY <1>1, <1>2, <2>2, <2>3 DEF Local!TypeOK
  <1>5. UnmadeIdle'
    BY <1>1, <1>3 DEF UnmadeIdle
  <1>6. ASSUME NEW u \in Stream, Local!Plain(u)' PROVE Faithful(u)'
    <2>1. Local!Plain(u)
      <3>1. mark'[u] = "loose" \/ mark[u] # "loose" BY <1>1 DEF Local!TypeOK
      <3> QED BY <1>1, <1>6, <3>1, PlainBefore
    <2>2. Faithful(u)
      BY <2>1
    <2>3. \A x \in Sender : sends[x].stream = u => sends[x].track \in tracksOf[u]
      BY <2>2 DEF Faithful
    <2>4. u # s => tracksOf[u] \cap tracksOf[s] = {}
      BY <2>1 DEF Local!Plain
    <2>5. \A x \in Sender : sends'[x].stream = u <=> u # s /\ sends[x].stream = u
      BY <1>3, <2>3, <2>4, LocalAssumption DEF Local!Idle
    <2>6. SendersOf(u)' = IF u = s THEN {} ELSE SendersOf(u)
      BY <1>1, <2>5 DEF SendersOf, Local!TypeOK
    <2>7. \A x \in Sender : sends'[x].stream = u => sends'[x].track \in tracksOf'[u]
      BY <1>1, <1>3, <2>3, LocalAssumption DEF Local!Idle
    <2>8. CASE u = s
      BY <1>2, <2>6, <2>7, <2>8 DEF Faithful, Local!Listed
    <2>9. CASE u # s
      <3>1. Local!Listed(u)' = Local!Listed(u) /\ (u \in DOMAIN local' <=> u \in DOMAIN local)
        BY <1>2, <2>9 DEF Local!Listed
      <3>2. mark'[u] = mark[u] BY <1>1, <2>9 DEF Local!TypeOK
      <3> QED BY <2>2, <2>6, <2>7, <2>9, <3>1, <3>2 DEF Faithful
    <2> QED BY <2>8, <2>9
  <1> QED
    BY <1>4, <1>5, <1>6

(* The sender stops, and goes from the list of its stream.                   *)
LEMMA RemoveTrackKeeps ==
  ASSUME LocalInv, NEW x \in Sender, Local!RemoveTrack(x)
  PROVE  LocalInv'
  <1> USE DEF LocalInv
  <1>1. /\ UNCHANGED <<tracksOf, made>> /\ x \in made
        /\ mark' = [s \in Stream |-> IF mark[s] = "reused" THEN "loose" ELSE mark[s]]
    BY DEF Local!RemoveTrack
  <1>2. /\ DOMAIN local' = {u \in DOMAIN local : local[u] \ {x} # {}}
        /\ \A u \in DOMAIN local' : local'[u] = local[u] \ {x}
    BY DEF Local!RemoveTrack
  <1>3. /\ sends' = [sends EXCEPT ![x] = Local!Idle]
        /\ \A y \in Sender : sends'[y] = IF y = x THEN Local!Idle ELSE sends[y]
    BY DEF Local!RemoveTrack, Local!TypeOK
  <1>4. Local!TypeOK'
    <2>1. Local!Idle \in [track : Track \cup {NoTrack}, stream : Stream \cup {NoStream}]
      BY DEF Local!Idle
    <2>2. sends' \in [Sender -> [track : Track \cup {NoTrack}, stream : Stream \cup {NoStream}]]
      BY <1>3, <2>1 DEF Local!TypeOK
    <2>3. mark' \in [Stream -> {"plain", "reused", "loose"}]
      BY <1>1 DEF Local!TypeOK
    <2> QED
      BY <1>1, <1>2, <2>2, <2>3 DEF Local!TypeOK
  <1>5. UnmadeIdle'
    BY <1>1, <1>3 DEF UnmadeIdle
  <1>6. ASSUME NEW u \in Stream, Local!Plain(u)' PROVE Faithful(u)'
    <2>1. mark[u] = "plain" /\ mark'[u] = "plain"
      BY <1>1, <1>6 DEF Local!Plain, Local!TypeOK
    <2>2. Faithful(u)
      BY <1>1, <1>6, <2>1, PlainBefore
    <2>3. SendersOf(u)' = SendersOf(u) \ {x}
      BY <1>1, <1>3, LocalAssumption DEF SendersOf, Local!Idle, Local!TypeOK
    <2>4. Local!Listed(u) = SendersOf(u)
      BY <2>1, <2>2 DEF Faithful
    <2>5. u \in DOMAIN local' <=> SendersOf(u) \ {x} # {}
      BY <1>2, <2>4 DEF Local!Listed
    <2>6. Local!Listed(u)' = Local!Listed(u) \ {x}
      BY <1>2 DEF Local!Listed
    <2>7. \A y \in Sender : sends'[y].stream = u => sends'[y].track \in tracksOf'[u]
      BY <1>1, <1>3, <2>2, LocalAssumption DEF Faithful, Local!Idle
    <2> QED BY <2>3, <2>4, <2>5, <2>6, <2>7 DEF Faithful
  <1> QED
    BY <1>4, <1>5, <1>6

LEMMA LocalStep == LocalInv /\ [Local!Next]_localVars => LocalInv'
  <1> SUFFICES ASSUME LocalInv, [Local!Next]_localVars PROVE LocalInv'
    OBVIOUS
  <1>1. CASE UNCHANGED localVars
    BY <1>1
       DEF localVars, LocalInv, Local!TypeOK, UnmadeIdle, Local!Plain, Faithful, Local!Listed, SendersOf
  <1> QED
    BY <1>1, AddTrackKeeps, AddTrackAloneKeeps, AddStreamKeeps, RemoveStreamKeeps,
       RemoveTrackKeeps
       DEF Local!Next

(* shimAddTrackRemoveTrackWithNative: getLocalStreams tells of every plain      *)
(* stream whether it is sent, over any sequence of calls of the four functions, *)
(* for any streams (sharing tracks, or empty), tracks and senders.              *)
THEOREM LocalStreamsAgree == MCSpec => []LocalAgrees
  <1> DEFINE Inv == part = "local" => LocalInv
  <1>1. MCInit => Inv
    BY LocalStart DEF MCInit
  <1>2. Inv /\ [MCNext]_<<part, textVars, codecVars, localVars, idVars, serverVars>> => Inv'
    <2> SUFFICES ASSUME Inv, part' = "local",
                        [MCNext]_<<part, textVars, codecVars, localVars, idVars, serverVars>>
                 PROVE  LocalInv'
      OBVIOUS
    <2>1. part = "local" /\ [Local!Next]_localVars
      BY DEF MCNext
    <2> QED
      BY <2>1, LocalStep
  <1>3. Inv => LocalAgrees
    BY LocalHolds DEF LocalInv, LocalAgrees
  <1> QED
    BY <1>1, <1>2, <1>3, PTL DEF MCSpec

-----------------------------------------------------------------------------
(* StreamIds.                                                                    *)

(* Streams of the page have tracks, each one track of one stream.            *)
OwnTracks ==
  /\ tracksIn \in [External -> SUBSET ExternalTrack]
  /\ \A s \in External : tracksIn[s] # {}
  /\ \A s, t \in External : s # t => tracksIn[s] \cap tracksIn[t] = {}

(* The two maps are each other's inverse; internal are the streams the       *)
(* connection sends.                                                         *)
MapsInverse ==
  /\ native \subseteq Internal /\ DOMAIN reverse = native /\ DOMAIN streams \subseteq External
  /\ \A i \in native : reverse[i] \in DOMAIN streams /\ streams[reverse[i]] = i
  /\ \A s \in DOMAIN streams : streams[s] \in native /\ reverse[streams[s]] = s

(* An internal stream that is sent has tracks of the page's stream it stands *)
(* for, at least one; one that is not has none.                              *)
InnerOfOwn ==
  /\ inner \in [Internal -> SUBSET ExternalTrack]
  /\ \A i \in native : inner[i] # {} /\ inner[i] \subseteq tracksIn[reverse[i]]
  /\ \A i \in Internal \ native : inner[i] = {}

AddedIsSent ==
  added = {a \in ExternalTrack \X External :
             a[2] \in DOMAIN streams /\ a[1] \in inner[streams[a[2]]]}

IdsInv == OwnTracks /\ MapsInverse /\ InnerOfOwn /\ AddedIsSent

LEMMA IdsStart == Ids!Init => IdsInv
  <1> SUFFICES ASSUME Ids!Init PROVE IdsInv
    OBVIOUS
  <1> USE DEF Ids!Init, Ids!NoMap
  <1>1. ASSUME NEW s \in External PROVE tracksIn[s] # {}
    <2>1. Ids!Cardinality(tracksIn[s]) >= Least
      OBVIOUS
    <2>2. Ids!Cardinality({}) = 0
      BY FS_EmptySet DEF Ids!Cardinality, Cardinality
    <2>3. ~(0 >= Least)
      BY IdsAssumption
    <2> QED
      BY <2>1, <2>2, <2>3
  <1>2. OwnTracks
    BY <1>1 DEF OwnTracks
  <1> QED
    BY <1>2 DEF IdsInv, MapsInverse, InnerOfOwn, AddedIsSent

(* A track that is sent is sent in the internal stream of its own.           *)
LEMMA SentWhere ==
  ASSUME IdsInv, NEW s \in External, NEW t \in tracksIn[s]
  PROVE  t \in Ids!SentTracks <=> s \in DOMAIN streams /\ t \in inner[streams[s]]
  <1> USE DEF IdsInv
  <1>1. ASSUME NEW i \in native, t \in inner[i] PROVE s \in DOMAIN streams /\ streams[s] = i
    <2>1. reverse[i] \in External /\ t \in tracksIn[reverse[i]]
      BY <1>1 DEF MapsInverse, InnerOfOwn
    <2>2. reverse[i] = s
      BY <2>1 DEF OwnTracks
    <2> QED
      BY <2>2 DEF MapsInverse
  <1>2. t \in Ids!SentTracks <=> \E i \in native : t \in inner[i]
    BY DEF Ids!SentTracks
  <1> QED
    BY <1>1, <1>2 DEF MapsInverse

(* A new internal stream for a stream of the page that has none.             *)
LEMMA MakeInternalKeeps ==
  ASSUME IdsInv, NEW s \in External, s \notin DOMAIN streams,
         NEW T \in SUBSET tracksIn[s], T # {},
         Ids!MakeInternal(s, T), UNCHANGED tracksIn,
         added' = added \cup {<<t, s>> : t \in T}
  PROVE  IdsInv'
  <1> USE DEF IdsInv
  <1>1. PICK i \in Internal :
          /\ inner[i] = {} /\ i \notin DOMAIN reverse /\ i \notin native
          /\ inner' = [inner EXCEPT ![i] = T]
          /\ native' = native \cup {i}
          /\ streams' = Ids!Put(streams, s, i)
          /\ reverse' = Ids!Put(reverse, i, s)
    BY DEF Ids!MakeInternal
  <1>2. /\ DOMAIN streams' = DOMAIN streams \cup {s}
        /\ \A x \in DOMAIN streams \cup {s} : streams'[x] = IF x = s THEN i ELSE streams[x]
    BY <1>1 DEF Ids!Put
  <1>3. /\ DOMAIN reverse' = DOMAIN reverse \cup {i}
        /\ \A x \in DOMAIN reverse \cup {i} : reverse'[x] = IF x = i THEN s ELSE reverse[x]
    BY <1>1 DEF Ids!Put
  <1>4. \A j \in Internal : inner'[j] = IF j = i THEN T ELSE inner[j]
    BY <1>1 DEF InnerOfOwn
  <1>5. OwnTracks'
    BY DEF OwnTracks
  <1>6. MapsInverse'
    BY <1>1, <1>2, <1>3 DEF MapsInverse
  <1>7. InnerOfOwn'
    <2>1. T \subseteq ExternalTrack
      BY DEF OwnTracks
    <2>2. inner' \in [Internal -> SUBSET ExternalTrack]
      BY <1>1, <2>1 DEF InnerOfOwn
    <2>3. \A j \in native' : inner'[j] # {} /\ inner'[j] \subseteq tracksIn'[reverse'[j]]
      BY <1>1, <1>3, <1>4 DEF InnerOfOwn, MapsInverse
    <2>4. \A j \in Internal \ native' : inner'[j] = {}
      BY <1>1, <1>4 DEF InnerOfOwn
    <2> QED
      BY <2>2, <2>3, <2>4 DEF InnerOfOwn
  <1>8. AddedIsSent'
    <2> DEFINE Now == {a \in ExternalTrack \X External :
                         a[2] \in DOMAIN streams' /\ a[1] \in inner'[streams'[a[2]]]}
    <2>1. ASSUME NEW u \in ExternalTrack, NEW v \in External
          PROVE  <<u, v>> \in Now <=> <<u, v>> \in added \/ (v = s /\ u \in T)
      <3>1. <<u, v>> \in Now <=> v \in DOMAIN streams' /\ u \in inner'[streams'[v]]
        OBVIOUS
      <3>2. <<u, v>> \in added <=> v \in DOMAIN streams /\ u \in inner[streams[v]]
        BY DEF AddedIsSent
      <3>3. CASE v = s
        BY <1>1, <1>2, <1>4, <3>1, <3>2, <3>3
      <3>4. CASE v # s
        BY <1>1, <1>2, <1>4, <3>1, <3>2, <3>4 DEF MapsInverse
      <3> QED
        BY <3>3, <3>4
    <2>2. added' \subseteq ExternalTrack \X External
      BY DEF AddedIsSent, OwnTracks
    <2> HIDE DEF Now
    <2>3. \A u \in ExternalTrack, v \in External : <<u, v>> \in added' <=> <<u, v>> \in Now
      BY <2>1
    <2>4. added' = Now
      BY <2>2, <2>3 DEF Now
    <2> QED
      BY <2>4 DEF AddedIsSent, Now
  <1> QED
    BY <1>5, <1>6, <1>7, <1>8

(* An internal stream gets other tracks, the rest stays.                     *)
LEMMA ChangeInternalKeeps ==
  ASSUME IdsInv, NEW s \in DOMAIN streams, NEW T \in SUBSET tracksIn[s], T # {},
         inner' = [inner EXCEPT ![streams[s]] = T],
         UNCHANGED <<tracksIn, native, streams, reverse>>,
         added' \subseteq ExternalTrack \X External,
         \A u \in ExternalTrack, v \in External :
           <<u, v>> \in added' <=> IF v = s THEN u \in T ELSE <<u, v>> \in added
  PROVE  IdsInv'
  <1> USE DEF IdsInv
  <1>1. streams[s] \in native /\ reverse[streams[s]] = s /\ streams[s] \in Internal /\ s \in External
    BY DEF MapsInverse
  <1>2. \A j \in Internal : inner'[j] = IF j = streams[s] THEN T ELSE inner[j]
    BY <1>1 DEF InnerOfOwn
  <1>3. OwnTracks' /\ MapsInverse'
    BY DEF OwnTracks, MapsInverse
  <1>4. InnerOfOwn'
    <2>1. T \subseteq ExternalTrack
      BY <1>1 DEF OwnTracks
    <2>2. inner' \in [Internal -> SUBSET ExternalTrack]
      BY <1>1, <2>1 DEF InnerOfOwn
    <2> QED
      BY <1>1, <1>2, <2>2 DEF InnerOfOwn, MapsInverse
  <1>5. AddedIsSent'
    <2> DEFINE Now == {a \in ExternalTrack \X External :
                         a[2] \in DOMAIN streams' /\ a[1] \in inner'[streams'[a[2]]]}
    <2>1. ASSUME NEW u \in ExternalTrack, NEW v \in External
          PROVE  <<u, v>> \in Now <=> <<u, v>> \in added'
      <3>1. <<u, v>> \in Now <=> v \in DOMAIN streams /\ u \in inner'[streams[v]]
        OBVIOUS
      <3>2. <<u, v>> \in added <=> v \in DOMAIN streams /\ u \in inner[streams[v]]
        BY DEF AddedIsSent
      <3> HIDE DEF Now
      <3>3. CASE v = s
        BY <1>1, <1>2, <3>1, <3>3
      <3>4. CASE v # s
        BY <1>1, <1>2, <3>1, <3>2, <3>4 DEF MapsInverse
      <3> QED
        BY <3>3, <3>4
    <2> HIDE DEF Now
    <2>2. added' = Now
      BY <2>1 DEF Now
    <2> QED
      BY <2>2 DEF AddedIsSent, Now
  <1> QED
    BY <1>3, <1>4, <1>5

(* An internal stream goes, with its entries in both maps.                   *)
LEMMA DropInternalKeeps ==
  ASSUME IdsInv, NEW s \in DOMAIN streams,
         native' = native \ {streams[s]},
         inner' = [inner EXCEPT ![streams[s]] = {}],
         reverse' = Ids!Drop(reverse, streams[s]),
         streams' = Ids!Drop(streams, s),
         added' = {a \in added : a[2] # s},
         UNCHANGED tracksIn
  PROVE  IdsInv'
  <1> USE DEF IdsInv
  <1>1. streams[s] \in native /\ reverse[streams[s]] = s /\ streams[s] \in Internal /\ s \in External
    BY DEF MapsInverse
  <1>2. \A j \in Internal : inner'[j] = IF j = streams[s] THEN {} ELSE inner[j]
    BY <1>1 DEF InnerOfOwn
  <1>3. DOMAIN streams' = DOMAIN streams \ {s} /\ \A v \in DOMAIN streams' : streams'[v] = streams[v]
    BY DEF Ids!Drop
  <1>4. /\ DOMAIN reverse' = DOMAIN reverse \ {streams[s]}
        /\ \A j \in DOMAIN reverse' : reverse'[j] = reverse[j]
    BY DEF Ids!Drop
  <1>5. OwnTracks'
    BY DEF OwnTracks
  <1>6. MapsInverse'
    BY <1>1, <1>3, <1>4 DEF MapsInverse
  <1>7. InnerOfOwn'
    <2>1. inner' \in [Internal -> SUBSET ExternalTrack]
      BY <1>1 DEF InnerOfOwn
    <2>2. \A j \in native' : inner'[j] # {} /\ inner'[j] \subseteq tracksIn'[reverse'[j]]
      BY <1>1, <1>2, <1>4 DEF InnerOfOwn, MapsInverse
    <2>3. \A j \in Internal \ native' : inner'[j] = {}
      BY <1>1, <1>2 DEF InnerOfOwn
    <2> QED
      BY <2>1, <2>2, <2>3 DEF InnerOfOwn
  <1>8. AddedIsSent'
    <2> DEFINE Now == {a \in ExternalTrack \X External :
                         a[2] \in DOMAIN streams' /\ a[1] \in inner'[streams'[a[2]]]}
    <2>1. ASSUME NEW u \in ExternalTrack, NEW v \in External
          PROVE  <<u, v>> \in Now <=> <<u, v>> \in added'
      <3>1. <<u, v>> \in Now <=> v \in DOMAIN streams' /\ u \in inner'[streams'[v]]
        OBVIOUS
      <3>2. <<u, v>> \in added <=> v \in DOMAIN streams /\ u \in inner[streams[v]]
        BY DEF AddedIsSent
      <3>3. <<u, v>> \in added' <=> <<u, v>> \in added /\ v # s
        OBVIOUS
      <3> HIDE DEF Now
      <3>4. CASE v = s
        BY <1>3, <3>1, <3>3, <3>4
      <3>5. CASE v # s
        BY <1>1, <1>2, <1>3, <3>1, <3>2, <3>3, <3>5 DEF MapsInverse
      <3> QED
        BY <3>4, <3>5
    <2> HIDE DEF Now
    <2>2. added' \subseteq ExternalTrack \X External
      BY DEF AddedIsSent
    <2>3. added' = Now
      BY <2>1, <2>2 DEF Now
    <2> QED
      BY <2>3 DEF AddedIsSent, Now
  <1> QED
    BY <1>5, <1>6, <1>7, <1>8

LEMMA IdsStep == IdsInv /\ [Ids!Next]_idVars => IdsInv'
  <1> SUFFICES ASSUME IdsInv, [Ids!Next]_idVars PROVE IdsInv'
    OBVIOUS
  <1>1. CASE UNCHANGED idVars
    BY <1>1 DEF idVars, IdsInv, OwnTracks, MapsInverse, InnerOfOwn, AddedIsSent
  <1>2. ASSUME NEW s \in External, Ids!AddStream(s) PROVE IdsInv'
    <2>1. s \notin DOMAIN streams
      <3> SUFFICES ASSUME s \in DOMAIN streams PROVE FALSE
        OBVIOUS
      <3>1. PICK t : t \in inner[streams[s]]
        BY DEF IdsInv, MapsInverse, InnerOfOwn
      <3>2. t \in tracksIn[s]
        BY <3>1 DEF IdsInv, MapsInverse, InnerOfOwn
      <3> QED
        BY <1>2, <3>1, <3>2, SentWhere DEF Ids!AddStream
    <2>2. tracksIn[s] # {}
      BY DEF IdsInv, OwnTracks
    <2> QED
      BY <1>2, <2>1, <2>2, MakeInternalKeeps DEF Ids!AddStream
  <1>3. ASSUME NEW s \in External, Ids!RemoveStream(s) PROVE IdsInv'
    BY <1>3, DropInternalKeeps DEF Ids!RemoveStream
  <1>4. ASSUME NEW s \in External, NEW t \in ExternalTrack, Ids!AddTrack(t, s) PROVE IdsInv'
    <2>1. t \in tracksIn[s] /\ UNCHANGED tracksIn
      BY <1>4 DEF Ids!AddTrack
    <2>2. CASE s \in DOMAIN streams
      <3> DEFINE T == inner[streams[s]] \cup {t}
      <3>1. inner' = [inner EXCEPT ![streams[s]] = T] /\ UNCHANGED <<native, streams, reverse>>
        BY <1>4, <2>2 DEF Ids!AddTrack
      <3>2. T \in SUBSET tracksIn[s] /\ T # {}
        BY <2>1, <2>2 DEF IdsInv, MapsInverse, InnerOfOwn
      <3>3. added' = added \cup {<<t, s>>}
        BY <1>4 DEF Ids!AddTrack
      <3>4. added' \subseteq ExternalTrack \X External
        BY <3>3 DEF IdsInv, AddedIsSent
      <3>5. \A u \in ExternalTrack, v \in External :
              <<u, v>> \in added' <=> IF v = s THEN u \in T ELSE <<u, v>> \in added
        BY <2>2, <3>3 DEF IdsInv, AddedIsSent
      <3> QED
        BY <2>1, <2>2, <3>1, <3>2, <3>4, <3>5, ChangeInternalKeeps
    <2>3. CASE s \notin DOMAIN streams
      <3>1. Ids!MakeInternal(s, {t})
        BY <1>4, <2>3 DEF Ids!AddTrack
      <3>2. added' = added \cup {<<u, s>> : u \in {t}}
        BY <1>4 DEF Ids!AddTrack
      <3>3. {t} \in SUBSET tracksIn[s] /\ {t} # {}
        BY <2>1
      <3> QED
        BY <2>1, <2>3, <3>1, <3>2, <3>3, MakeInternalKeeps
    <2> QED
      BY <2>2, <2>3
  <1>5. ASSUME NEW t \in ExternalTrack, Ids!RemoveTrack(t) PROVE IdsInv'
    <2>1. PICK s \in DOMAIN streams :
            /\ t \in inner[streams[s]]
            /\ IF inner[streams[s]] = {t}
               THEN /\ native' = native \ {streams[s]}
                    /\ inner' = [inner EXCEPT ![streams[s]] = {}]
                    /\ reverse' = Ids!Drop(reverse, streams[s])
                    /\ streams' = Ids!Drop(streams, s)
               ELSE /\ inner' = [inner EXCEPT ![streams[s]] = @ \ {t}]
                    /\ UNCHANGED <<native, streams, reverse>>
            /\ added' = {a \in added : a[1] # t}
            /\ UNCHANGED tracksIn
      BY <1>5 DEF Ids!RemoveTrack
    <2>2. s \in External /\ t \in tracksIn[s]
      BY <2>1 DEF IdsInv, MapsInverse, InnerOfOwn
    <2>3. \A v \in DOMAIN streams : t \in inner[streams[v]] => v = s
      BY <2>1, <2>2 DEF IdsInv, MapsInverse, InnerOfOwn, OwnTracks
    <2>4. CASE inner[streams[s]] = {t}
      <3>1. \A a \in added : a[1] = t <=> a[2] = s
        BY <2>1, <2>3, <2>4 DEF IdsInv, AddedIsSent
      <3>2. added' = {a \in added : a[2] # s}
        BY <2>1, <3>1
      <3> QED
        BY <2>1, <2>4, <3>2, DropInternalKeeps
    <2>5. CASE inner[streams[s]] # {t}
      <3> DEFINE T == inner[streams[s]] \ {t}
      <3>1. inner' = [inner EXCEPT ![streams[s]] = T] /\ UNCHANGED <<tracksIn, native, streams, reverse>>
        BY <2>1, <2>5
      <3>2. T \in SUBSET tracksIn[s] /\ T # {}
        BY <2>1, <2>5 DEF IdsInv, MapsInverse, InnerOfOwn
      <3>3. added' \subseteq ExternalTrack \X External
        BY <2>1 DEF IdsInv, AddedIsSent
      <3>4. \A u \in ExternalTrack, v \in External :
              <<u, v>> \in added' <=> IF v = s THEN u \in T ELSE <<u, v>> \in added
        BY <2>1, <2>3 DEF IdsInv, AddedIsSent
      <3> HIDE DEF T
      <3> QED
        BY <3>1, <3>2, <3>3, <3>4, ChangeInternalKeeps
    <2> QED
      BY <2>4, <2>5
  <1> QED
    BY <1>1, <1>2, <1>3, <1>4, <1>5 DEF Ids!Next

LEMMA IdsKeptThen == IdsInv => Ids!IdsKept
  <1> SUFFICES ASSUME IdsInv PROVE Ids!IdsKept
    OBVIOUS
  <1> USE DEF IdsInv
  <1>1. Ids!Readable
    BY DEF Ids!Readable, MapsInverse
  <1>2. Ids!IdsReturn
    BY DEF Ids!IdsReturn, Ids!ReplaceInternalStreamId, Ids!ReplaceExternalStreamId, MapsInverse
  <1>3. Ids!SendsAdded
    <2> DEFINE Sent == UNION {{<<t, reverse[i]>> : t \in inner[i]} : i \in native \cap DOMAIN reverse}
    <2>1. \A u \in ExternalTrack, v \in External : <<u, v>> \in Sent <=> <<u, v>> \in added
      BY DEF AddedIsSent, MapsInverse
    <2>2. Sent \subseteq ExternalTrack \X External
      BY DEF MapsInverse, InnerOfOwn
    <2>3. added \subseteq ExternalTrack \X External
      BY DEF AddedIsSent
    <2>4. added = Sent
      <3> HIDE DEF Sent
      <3> QED
        BY <2>1, <2>2, <2>3
    <2> QED
      BY <2>4 DEF Ids!SendsAdded
  <1> QED
    BY <1>1, <1>2, <1>3 DEF Ids!IdsKept

(* shimAddTrackRemoveTrack: the two maps between the streams of the page and  *)
(* those of the browser stay each other's inverse, so that ids come back, and *)
(* what is sent is what the page added, over any sequence of calls.           *)
THEOREM StreamIdsKept == MCSpec => []IdsKept
  <1> DEFINE Inv == part = "ids" => IdsInv
  <1>1. MCInit => Inv
    BY IdsStart DEF MCInit
  <1>2. Inv /\ [MCNext]_<<part, textVars, codecVars, localVars, idVars, serverVars>> => Inv'
    <2> SUFFICES ASSUME Inv, part' = "ids",
                        [MCNext]_<<part, textVars, codecVars, localVars, idVars, serverVars>>
                 PROVE  IdsInv'
      OBVIOUS
    <2>1. part = "ids" /\ [Ids!Next]_idVars
      BY DEF MCNext
    <2> QED
      BY <2>1, IdsStep
  <1>3. Inv => IdsKept
    BY IdsKeptThen DEF IdsKept
  <1> QED
    BY <1>1, <1>2, <1>3, PTL DEF MCSpec

-----------------------------------------------------------------------------
(* MCPage: the way of an address from the page to the request (Url). Queries  *)
(* are sequences of keys and values first.                                     *)

(* A key that stands in a query stands somewhere for the last time.           *)
LEMMA LastExists ==
  ASSUME NEW S, NEW s \in Seq(S), NEW k \in {s[i].key : i \in DOMAIN s}
  PROVE  \E i \in DOMAIN s : s[i].key = k /\ \A j \in i + 1 .. Len(s) : s[j].key # k
  <1> DEFINE Tails == {n \in Nat : n < Len(s) /\ s[Len(s) - n].key = k}
  <1>1. PICK i \in DOMAIN s : s[i].key = k
    OBVIOUS
  <1>2. Len(s) - i \in Tails
    BY <1>1
  <1>3. PICK n \in Tails : \A m \in Tails : n <= m
    <2> HIDE DEF Tails
    <2>1. Tails \in SUBSET Nat BY DEF Tails
    <2> QED BY <2>1, <1>2, LeastNumber
  <1>4. ASSUME NEW j \in Len(s) - n + 1 .. Len(s), s[j].key = k PROVE FALSE
    <2>1. Len(s) - j \in Tails BY <1>4
    <2> QED BY <2>1, <1>3
  <1>5. Len(s) - n \in DOMAIN s /\ s[Len(s) - n].key = k
    BY <1>3
  <1> QED BY <1>4, <1>5

(* fill_query: the fields of the object are the keys of the query, and the   *)
(* value of a key is one it has, the last.                                   *)
LEMMA FillQueryReads ==
  ASSUME NEW S, NEW s \in Seq(S)
  PROVE  /\ DOMAIN U!FillQuery(s) = {s[i].key : i \in DOMAIN s}
         /\ \A k \in DOMAIN U!FillQuery(s) :
              \E i \in DOMAIN s : s[i].key = k /\ U!FillQuery(s)[k] = U!Text(s[i].value)
  <1>1. DOMAIN U!FillQuery(s) = {s[i].key : i \in DOMAIN s} BY DEF U!FillQuery
  <1>2. ASSUME NEW k \in {s[i].key : i \in DOMAIN s}
        PROVE  \E i \in DOMAIN s : s[i].key = k /\ U!FillQuery(s)[k] = U!Text(s[i].value)
    <2> DEFINE at == CHOOSE i \in DOMAIN s :
                       s[i].key = k /\ \A j \in i + 1 .. Len(s) : s[j].key # k
    <2>1. U!FillQuery(s)[k] = U!Text(s[at].value) BY DEF U!FillQuery
    <2>2. at \in DOMAIN s /\ s[at].key = k BY LastExists
    <2> QED BY <2>1, <2>2
  <1> QED BY <1>1, <1>2

LEMMA FillQueryLast ==
  ASSUME NEW S, NEW s \in Seq(S), NEW i \in U!SaidLast(s)
  PROVE  U!FillQuery(s)[s[i].key] = U!Text(s[i].value)
  <1> DEFINE at == CHOOSE x \in DOMAIN s :
                     s[x].key = s[i].key /\ \A j \in x + 1 .. Len(s) : s[j].key # s[i].key
  <1>1. U!FillQuery(s)[s[i].key] = U!Text(s[at].value) BY DEF U!FillQuery, U!SaidLast
  <1>2. /\ at \in DOMAIN s /\ s[at].key = s[i].key
        /\ \A j \in at + 1 .. Len(s) : s[j].key # s[i].key
    BY DEF U!SaidLast
  <1>3. at = i
    <2> HIDE DEF at
    <2> QED BY <1>2 DEF U!SaidLast
  <1> QED BY <1>1, <1>3

(* SetToSeq lists a finite set whole.                                        *)
LEMMA SetToSeqLists ==
  ASSUME NEW S, IsFiniteSet(S)
  PROVE  /\ U!SetToSeq(S) \in Seq(S)
         /\ \A x \in S : \E i \in DOMAIN U!SetToSeq(S) : U!SetToSeq(S)[i] = x
  <1> DEFINE n == Cardinality(S)
             Listing(f) == f \in [1 .. n -> S] /\ \A a, b \in DOMAIN f : f[a] = f[b] => a = b
             list == CHOOSE f : Listing(f)
  <1>1. n \in Nat /\ Cardinality(1 .. n) = n /\ IsFiniteSet(1 .. n)
    BY FS_CardinalityType, FS_Interval
  <1>2. PICK f : Listing(f)
    <2>1. PICK f \in Bijection(1 .. n, S) : TRUE
      BY FS_CardinalityType DEF ExistsBijection
    <2> QED BY <2>1 DEF Bijection, Injection, U!IsInjective, IsInjective
  <1>0. U!Cardinality(S) = n
    BY DEF U!Cardinality, Cardinality
  <1>3. U!SetToSeq(S) = CHOOSE g \in [1 .. n -> S] : \A a, b \in DOMAIN g : g[a] = g[b] => a = b
    BY <1>0 DEF U!SetToSeq, U!IsInjective
  <1>4. Listing(U!SetToSeq(S))
    BY <1>2, <1>3
  <1>5. U!SetToSeq(S) \in Injection(1 .. n, S)
    BY <1>4 DEF Injection, U!IsInjective, IsInjective
  <1>6. U!SetToSeq(S) \in Surjection(1 .. n, S)
    BY <1>1, <1>5, FS_Injection
  <1> QED BY <1>1, <1>4, <1>6 DEF Surjection

-----------------------------------------------------------------------------
(* What is asked of the SDK, and what it makes of it.                         *)
AddressInv ==
  /\ sdk \in U!Sdks
  /\ \/ query = <<>> /\ url = <<>> /\ parsed = <<>> /\ api = <<>>
     \/ /\ \/ \E search \in U!PageQueries :
                /\ query = <<search>>
                /\ url = <<U!BuildDefaultRtcUrl(U!ParseQueryString(search), page)>>
           \/ /\ query = <<>>
              /\ \E u : url = <<u>> /\ u.search \in U!TypedQueries /\ u.schema = "webrtc"
        /\ \/ parsed = <<>> /\ api = <<>>
           \/ /\ parsed = <<U!Parse(sdk, url[1], page)>>
              /\ api = <<U!PrepareUrl(sdk, url[1], page)>>
     \/ /\ \E search \in U!FlvQueries :
             /\ query = <<search>>
             /\ url = <<U!BuildDefaultFlvUrl(U!ParseQueryString(search), page)>>
        /\ parsed = <<U!ParseRtmpUrl(url[1], page)>> /\ api = <<>>

LEMMA AddressStart == PageInit => AddressInv
  BY DEF PageInit, IdleAddress, U!Init, U!None, AddressInv, U!Sdks

LEMMA AddressStep == AddressInv /\ [PageNext]_<<side, refreshing, address>> => AddressInv'
  <1> SUFFICES ASSUME AddressInv, [PageNext]_<<side, refreshing, address>> PROVE AddressInv'
    OBVIOUS
  <1>1. CASE U!LoadPage
    BY <1>1 DEF U!LoadPage, AddressInv, U!None
  <1>2. CASE U!LoadFlvPage
    BY <1>2 DEF U!LoadFlvPage, AddressInv, U!None
  <1>3. CASE U!TypeUrl
    <2>1. PICK u \in [schema : {"webrtc"}, host : U!Hosts, port : Ports \cup {""}, app : {"live"},
                      appVhost : VHosts \cup {""}, stream : {"livestream"},
                      search : U!TypedQueries] : url' = <<u>>
      BY <1>3 DEF U!TypeUrl
    <2>2. u.search \in U!TypedQueries /\ u.schema = "webrtc" BY <2>1
    <2>3. query' = <<>> /\ parsed' = <<>> /\ api' = <<>> /\ sdk' \in U!Sdks
      BY <1>3 DEF U!TypeUrl, AddressInv, U!None
    <2> QED BY <2>1, <2>2, <2>3 DEF AddressInv
  <1>4. CASE U!Play
    BY <1>4 DEF U!Play, AddressInv, U!None
  <1>5. CASE UNCHANGED address
    BY <1>5 DEF address, AddressInv
  <1> QED BY <1>1, <1>2, <1>3, <1>4, <1>5 DEF PageNext, U!Next

(* The parameters that may stand in the query of a page.                     *)
OfKey(k, vs) == {[key |-> k, value |-> <<v>>] : v \in vs}

RtcParameters ==
  UNION {OfKey("server", U!Hosts), OfKey("vhost", VHosts \cup {"__defaultVhost__"}),
         OfKey("api", Ports), OfKey("schema", {"http", "https"}), OfKey("token", Tokens),
         OfKey("domain", VHosts)}
RtcKeys == {"server", "vhost", "api", "schema", "token", "domain"}

FlvPorts == Ports \cup {"80", "443", "1935", "8080"}
FlvSchemas == {"http", "https", "rtmp"}
FlvParameters ==
  UNION {OfKey("server", U!Hosts), OfKey("vhost", VHosts), OfKey("port", FlvPorts),
         OfKey("schema", FlvSchemas)}
FlvKeys == {"server", "vhost", "port", "schema"}

LEMMA ParameterKeys ==
  /\ \A r \in RtcParameters : r.key \in RtcKeys
  /\ \A r \in FlvParameters : /\ r.key \in FlvKeys
                              /\ r.key = "port" => r.value \in {<<v>> : v \in FlvPorts}
                              /\ r.key = "schema" => r.value \in {<<v>> : v \in FlvSchemas}
  <1>1. \A k, vs : \A r \in OfKey(k, vs) : r.key = k /\ r.value \in {<<v>> : v \in vs}
    BY DEF OfKey
  <1>2. ASSUME NEW r \in RtcParameters PROVE r.key \in RtcKeys
    BY <1>1 DEF RtcParameters, RtcKeys
  <1>3. ASSUME NEW r \in FlvParameters
        PROVE  /\ r.key \in FlvKeys
               /\ r.key = "port" => r.value \in {<<v>> : v \in FlvPorts}
               /\ r.key = "schema" => r.value \in {<<v>> : v \in FlvSchemas}
    <2>1. CASE r \in OfKey("server", U!Hosts) \cup OfKey("vhost", VHosts)
      BY <1>1, <2>1 DEF FlvKeys
    <2>2. CASE r \in OfKey("port", FlvPorts)
      BY <1>1, <2>2 DEF FlvKeys
    <2>3. CASE r \in OfKey("schema", FlvSchemas)
      BY <1>1, <2>3 DEF FlvKeys
    <2> QED BY <2>1, <2>2, <2>3 DEF FlvParameters
  <1> QED BY <1>2, <1>3

LEMMA MaybeParameter ==
  ASSUME NEW P, NEW k, NEW vs, OfKey(k, vs) \subseteq P
  PROVE  U!Maybe(k, vs) \subseteq Seq(P)
  <1>1. ASSUME NEW v \in vs PROVE <<[key |-> k, value |-> <<v>>]>> \in Seq(P)
    <2> DEFINE r == [key |-> k, value |-> <<v>>]
    <2>1. r \in P BY DEF OfKey
    <2> HIDE DEF r
    <2>2. <<r>> \in Seq(P) BY <2>1
    <2> QED BY <2>2 DEF r
  <1>2. <<>> \in Seq(P) OBVIOUS
  <1> QED BY <1>1, <1>2 DEF U!Maybe

LEMMA PageKeys == U!PageQueries \subseteq Seq(RtcParameters)
  <1> DEFINE P == RtcParameters
             A == U!Maybe("server", U!Hosts)  B == U!Maybe("vhost", VHosts \cup {"__defaultVhost__"})
             C == U!Maybe("api", Ports)       D == U!Maybe("schema", {"http", "https"})
             E == U!Maybe("token", Tokens)    F == U!Maybe("domain", VHosts)
  <1>1. /\ A \subseteq Seq(P) /\ B \subseteq Seq(P) /\ C \subseteq Seq(P)
        /\ D \subseteq Seq(P) /\ E \subseteq Seq(P) /\ F \subseteq Seq(P)
    BY MaybeParameter DEF RtcParameters
  <1>2. U!PageQueries =
          {a \o b \o c \o d \o e \o f : a \in A, b \in B, c \in C, d \in D, e \in E, f \in F}
    BY DEF U!PageQueries
  <1> HIDE DEF P, A, B, C, D, E, F
  <1>3. ASSUME NEW s \in U!PageQueries PROVE s \in Seq(P)
    <2>1. PICK a \in A, b \in B, c \in C, d \in D, e \in E, f \in F :
            s = a \o b \o c \o d \o e \o f
      BY <1>2
    <2>2. /\ a \in Seq(P) /\ b \in Seq(P) /\ c \in Seq(P)
          /\ d \in Seq(P) /\ e \in Seq(P) /\ f \in Seq(P)
      BY <1>1
    <2> QED BY <2>1, <2>2
  <1>4. U!PageQueries \subseteq Seq(P)
    BY <1>3
  <1> QED BY <1>4 DEF P

LEMMA FlvPageKeys == U!FlvQueries \subseteq Seq(FlvParameters)
  <1> DEFINE P == FlvParameters
             A == U!Maybe("server", U!Hosts)  B == U!Maybe("vhost", VHosts)
             C == U!Maybe("port", Ports \cup {"80", "443", "1935", "8080"})
             D == U!Maybe("schema", {"http", "https", "rtmp"})
  <1>1. A \subseteq Seq(P) /\ B \subseteq Seq(P) /\ C \subseteq Seq(P) /\ D \subseteq Seq(P)
    BY MaybeParameter DEF FlvParameters, FlvPorts, FlvSchemas
  <1>2. U!FlvQueries = {a \o b \o c \o d : a \in A, b \in B, c \in C, d \in D}
    BY DEF U!FlvQueries
  <1> HIDE DEF P, A, B, C, D
  <1>3. ASSUME NEW s \in U!FlvQueries PROVE s \in Seq(P)
    <2>1. PICK a \in A, b \in B, c \in C, d \in D : s = a \o b \o c \o d
      BY <1>2
    <2>2. a \in Seq(P) /\ b \in Seq(P) /\ c \in Seq(P) /\ d \in Seq(P)
      BY <1>1
    <2> QED BY <2>1, <2>2
  <1>4. U!FlvQueries \subseteq Seq(P)
    BY <1>3
  <1> QED BY <1>4 DEF P

(* parse_query_string adds a vhost to the keys, that of the domain.          *)
LEMMA QueryKeys ==
  ASSUME NEW keys, "vhost" \in keys, NEW P, \A r \in P : r.key \in keys, NEW s \in Seq(P)
  PROVE  LET q == U!ParseQueryString(s)
         IN /\ DOMAIN q \subseteq keys
            /\ U!Field(q, "domain", "") # "" => "vhost" \in DOMAIN q /\ q["vhost"] = q["domain"]
  <1> DEFINE f == U!FillQuery(s)
  <1>1. DOMAIN f = {s[i].key : i \in DOMAIN s} BY FillQueryReads
  <1>2. DOMAIN f \subseteq keys
    <2> SUFFICES ASSUME NEW i \in DOMAIN s PROVE s[i].key \in keys BY <1>1
    <2>1. s[i] \in P OBVIOUS
    <2> QED BY <2>1
  <1> HIDE DEF f
  <1> DEFINE g == [k \in DOMAIN f \cup {"vhost"} |-> IF k = "vhost" THEN f["domain"] ELSE f[k]]
  <1>3. U!ParseQueryString(s) = IF U!Field(f, "domain", "") # "" THEN g ELSE f
    BY DEF U!ParseQueryString, f
  <1>4. CASE U!Field(f, "domain", "") # ""
    <2>1. U!ParseQueryString(s) = g BY <1>3, <1>4
    <2>2. DOMAIN g = DOMAIN f \cup {"vhost"} /\ "domain" \in DOMAIN f
      BY <1>4 DEF U!Field, U!Has
    <2>3. g["vhost"] = f["domain"] /\ g["domain"] = f["domain"]
      BY <2>2
    <2> HIDE DEF g
    <2> QED BY <1>2, <2>1, <2>2, <2>3
  <1>5. CASE U!Field(f, "domain", "") = ""
    BY <1>2, <1>3, <1>5
  <1> QED BY <1>4, <1>5

(* user_extra_params: the keys that are nobody's own, and every one of them. *)
LEMMA ExtraParams ==
  ASSUME NEW q, NEW keys, DOMAIN q \subseteq keys, IsFiniteSet(keys)
  PROVE  LET extra == {[key |-> k, value |-> <<q[k]>>] : k \in {x \in DOMAIN q \ U!Own : q[x] \notin U!Falsy}}
         IN /\ U!UserExtraParams(q) \in Seq(extra)
            /\ \A x \in extra : \E i \in DOMAIN U!UserExtraParams(q) : U!UserExtraParams(q)[i] = x
  <1> DEFINE passed == {x \in DOMAIN q \ U!Own : q[x] \notin U!Falsy}
             extra == {[key |-> k, value |-> <<q[k]>>] : k \in passed}
             f == [k \in passed |-> [key |-> k, value |-> <<q[k]>>]]
  <1>1. IsFiniteSet(passed) BY FS_Subset
  <1>2. f \in Surjection(passed, extra) BY DEF Surjection
  <1>3. IsFiniteSet(extra)
    <2> HIDE DEF passed, extra, f
    <2> QED BY <1>1, <1>2, FS_Surjection
  <1>4. U!UserExtraParams(q) = U!SetToSeq(extra) BY DEF U!UserExtraParams
  <1> HIDE DEF extra
  <1>5. /\ U!UserExtraParams(q) \in Seq(extra)
        /\ \A x \in extra : \E i \in DOMAIN U!UserExtraParams(q) : U!UserExtraParams(q)[i] = x
    BY <1>3, <1>4, SetToSeqLists
  <1> QED BY <1>5 DEF extra

(* x is an element of s.                                                     *)
Occurs(s, x) == \E i \in DOMAIN s : s[i] = x

LEMMA ConcatHas ==
  ASSUME NEW S, NEW s \in Seq(S), NEW t \in Seq(S)
  PROVE  s \o t \in Seq(S) /\ \A x : Occurs(s \o t, x) <=> Occurs(s, x) \/ Occurs(t, x)
  <1>1. s \o t \in Seq(S) /\ Len(s \o t) = Len(s) + Len(t) OBVIOUS
  <1>2. ASSUME NEW i \in DOMAIN (s \o t)
        PROVE  Occurs(s, (s \o t)[i]) \/ Occurs(t, (s \o t)[i])
    <2>1. CASE i <= Len(s) BY <1>2, <2>1 DEF Occurs
    <2>2. CASE i > Len(s)
      <3>1. i - Len(s) \in DOMAIN t /\ t[i - Len(s)] = (s \o t)[i] BY <1>2, <2>2
      <3> QED BY <3>1 DEF Occurs
    <2> QED BY <2>1, <2>2
  <1>3. ASSUME NEW i \in DOMAIN s PROVE Occurs(s \o t, s[i])
    <2>1. i \in DOMAIN (s \o t) /\ (s \o t)[i] = s[i] BY <1>3
    <2> QED BY <2>1 DEF Occurs
  <1>4. ASSUME NEW i \in DOMAIN t PROVE Occurs(s \o t, t[i])
    <2>1. i + Len(s) \in DOMAIN (s \o t) /\ (s \o t)[i + Len(s)] = t[i] BY <1>4
    <2> QED BY <2>1 DEF Occurs
  <1>5. ASSUME NEW x, Occurs(s \o t, x) PROVE Occurs(s, x) \/ Occurs(t, x)
    BY <1>2, <1>5 DEF Occurs
  <1>6. ASSUME NEW x, Occurs(s, x) \/ Occurs(t, x) PROVE Occurs(s \o t, x)
    <2>1. CASE Occurs(s, x) BY <1>3, <2>1 DEF Occurs
    <2>2. CASE Occurs(t, x) BY <1>4, <2>2 DEF Occurs
    <2> QED BY <1>6, <2>1, <2>2
  <1> QED BY <1>1, <1>5, <1>6

(* What is read back of an address the page built.                           *)
LEMMA BuiltReads ==
  ASSUME NEW search \in U!PageQueries
  PROVE  LET q == U!ParseQueryString(search)
             user == U!FillQuery(U!BuildDefaultRtcUrl(q, page).search)
             vhost == U!Field(q, "vhost", page.hostname)
         IN /\ {"server", "app", "stream", "port"} \cap DOMAIN user = {}
            /\ U!Field(user, "domain", "") = U!Field(q, "domain", "")
            /\ U!Field(user, "schema", "") =
                 IF U!Field(q, "schema", page.protocol) # page.protocol THEN q["schema"] ELSE ""
            /\ IF vhost \notin {U!Field(q, "server", page.hostname), "__defaultVhost__"}
               THEN "vhost" \in DOMAIN user /\ user["vhost"] = vhost
               ELSE "vhost" \notin DOMAIN user
  <1> DEFINE q == U!ParseQueryString(search)
             server == U!Field(q, "server", page.hostname)
             vhost == U!Field(q, "vhost", page.hostname)
             ofVhost == [key |-> "vhost", value |-> <<vhost>>]
             ofSchema == [key |-> "schema", value |-> <<q["schema"]>>]
             extra == {[key |-> k, value |-> <<q[k]>>] : k \in {x \in DOMAIN q \ U!Own : q[x] \notin U!Falsy}}
             R == {ofVhost, ofSchema} \cup extra
             vhosts == IF vhost \notin {server, "__defaultVhost__"} THEN <<ofVhost>> ELSE <<>>
             schemas == IF U!Field(q, "schema", page.protocol) # page.protocol THEN <<ofSchema>> ELSE <<>>
             params == U!UserExtraParams(q)
             s == vhosts \o schemas \o params
             user == U!FillQuery(s)
  <1>1. U!BuildDefaultRtcUrl(q, page).search = s
    BY DEF U!BuildDefaultRtcUrl
  <1>2. DOMAIN q \subseteq RtcKeys
    <2>1. search \in Seq(RtcParameters) /\ "vhost" \in RtcKeys BY PageKeys DEF RtcKeys
    <2> QED BY <2>1, ParameterKeys, QueryKeys
  <1>3. IsFiniteSet(RtcKeys)
    <2> DEFINE list == <<"server", "vhost", "api", "schema", "token", "domain">>
    <2>1. list \in Seq(RtcKeys) /\ \A k \in RtcKeys : \E i \in 1 .. Len(list) : list[i] = k
      BY DEF RtcKeys
    <2> QED BY <2>1 DEF IsFiniteSet
  <1>4. /\ params \in Seq(extra)
        /\ \A x \in extra : Occurs(params, x)
    BY <1>2, <1>3, ExtraParams DEF Occurs
  <1>5. \A x \in extra : /\ x.key \in {"token", "domain"} \cap DOMAIN q
                         /\ x.value = <<q[x.key]>> /\ q[x.key] \notin U!Falsy
    <2> SUFFICES ASSUME NEW x \in extra
                 PROVE  /\ x.key \in {"token", "domain"} \cap DOMAIN q
                        /\ x.value = <<q[x.key]>> /\ q[x.key] \notin U!Falsy
      OBVIOUS
    <2>1. PICK k \in {y \in DOMAIN q \ U!Own : q[y] \notin U!Falsy} : x = [key |-> k, value |-> <<q[k]>>]
      OBVIOUS
    <2>2. k \in {"token", "domain"} BY <1>2, <2>1 DEF RtcKeys, U!Own
    <2> QED BY <2>1, <2>2
  <1>6. "domain" \in DOMAIN q /\ q["domain"] \notin U!Falsy => [key |-> "domain", value |-> <<q["domain"]>>] \in extra
    BY DEF U!Own
  <1> HIDE DEF q, extra, params
  <1>7. vhosts \in Seq(R) /\ schemas \in Seq(R) /\ params \in Seq(R)
    <2>1. params \in Seq(R) BY <1>4
    <2>2. \A x \in R : <<x>> \in Seq(R) OBVIOUS
    <2> HIDE DEF R, ofVhost, ofSchema
    <2>3. ofVhost \in R /\ ofSchema \in R BY DEF R
    <2> QED BY <2>1, <2>2, <2>3
  <1>8. /\ s \in Seq(R)
        /\ \A x : Occurs(s, x) <=> Occurs(vhosts, x) \/ Occurs(schemas, x) \/ Occurs(params, x)
    <2> HIDE DEF vhosts, schemas, R
    <2> DEFINE front == vhosts \o schemas
    <2>1. front \in Seq(R) /\ \A x : Occurs(front, x) <=> Occurs(vhosts, x) \/ Occurs(schemas, x)
      BY <1>7, ConcatHas
    <2> HIDE DEF front
    <2>2. front \o params \in Seq(R) /\ \A x : Occurs(front \o params, x) <=> Occurs(front, x) \/ Occurs(params, x)
      BY <1>7, <2>1, ConcatHas
    <2> QED BY <2>1, <2>2 DEF front
  <1>9. \A x \in R : \/ x.key = "vhost" /\ x.value = <<vhost>>
                     \/ x = ofSchema
                     \/ /\ x.key = "domain" /\ x.value = <<q["domain"]>>
                        /\ q["domain"] \notin U!Falsy /\ "domain" \in DOMAIN q
                     \/ x.key = "token"
    <2> SUFFICES ASSUME NEW x \in R
                 PROVE  \/ x.key = "vhost" /\ x.value = <<vhost>>
                        \/ x = ofSchema
                        \/ /\ x.key = "domain" /\ x.value = <<q["domain"]>>
                           /\ q["domain"] \notin U!Falsy /\ "domain" \in DOMAIN q
                        \/ x.key = "token"
      OBVIOUS
    <2>1. CASE x = ofVhost BY <2>1
    <2>2. CASE x = ofSchema BY <2>2
    <2>3. CASE x \in extra
      <3> HIDE DEF ofVhost, ofSchema
      <3> QED BY <1>5, <2>3
    <2> QED BY <2>1, <2>2, <2>3
  <1>10. /\ DOMAIN user = {s[i].key : i \in DOMAIN s}
         /\ \A k \in DOMAIN user : \E i \in DOMAIN s : s[i].key = k /\ user[k] = U!Text(s[i].value)
    <2> HIDE DEF s, R
    <2> QED BY <1>8, FillQueryReads
  <1>11. \A v : U!Text(<<v>>) = v
    BY DEF U!Text
  <1>12. \A i \in DOMAIN s : s[i] \in R
    <2> HIDE DEF s, R
    <2> QED BY <1>8
  <1> HIDE DEF user, s
  <1>13. {"server", "app", "stream", "port"} \cap DOMAIN user = {}
    BY <1>9, <1>10, <1>12
  <1>14. U!Field(user, "domain", "") = U!Field(q, "domain", "")
    <2>1. CASE "domain" \in DOMAIN user
      <3>1. PICK i \in DOMAIN s : s[i].key = "domain" /\ user["domain"] = U!Text(s[i].value)
        BY <1>10, <2>1
      <3>2. s[i].value = <<q["domain"]>> /\ q["domain"] \notin U!Falsy /\ "domain" \in DOMAIN q
        BY <1>9, <1>12, <3>1
      <3>3. user["domain"] = q["domain"] BY <3>1, <3>2, <1>11
      <3> QED BY <2>1, <3>2, <3>3 DEF U!Field, U!Has
    <2>2. CASE "domain" \notin DOMAIN user
      <3> SUFFICES ASSUME "domain" \in DOMAIN q, q["domain"] \notin U!Falsy PROVE FALSE
        BY <2>2 DEF U!Field, U!Has
      <3> DEFINE r == [key |-> "domain", value |-> <<q["domain"]>>]
      <3>1. r \in extra BY <1>6
      <3>2. r.key = "domain" OBVIOUS
      <3> HIDE DEF r
      <3>3. Occurs(params, r) BY <1>4, <3>1
      <3>4. Occurs(s, r)
        <4> HIDE DEF vhosts, schemas
        <4> QED BY <1>8, <3>3
      <3> QED BY <1>10, <2>2, <3>2, <3>4 DEF Occurs
    <2> QED BY <2>1, <2>2
  <1>15. ASSUME vhost \notin {server, "__defaultVhost__"}
         PROVE  "vhost" \in DOMAIN user /\ user["vhost"] = vhost
    <2>1. vhosts[1] = ofVhost /\ 1 \in DOMAIN vhosts BY <1>15
    <2>2. Occurs(s, ofVhost)
      <3> HIDE DEF vhosts, schemas, ofVhost
      <3> QED BY <1>8, <2>1 DEF Occurs
    <2>3. "vhost" \in DOMAIN user BY <1>10, <2>2 DEF Occurs
    <2>4. PICK i \in DOMAIN s : s[i].key = "vhost" /\ user["vhost"] = U!Text(s[i].value)
      BY <1>10, <2>3
    <2>5. s[i].value = <<vhost>> BY <1>9, <1>12, <2>4
    <2> QED BY <1>11, <2>3, <2>4, <2>5
  <1>16. ASSUME vhost \in {server, "__defaultVhost__"}
         PROVE  "vhost" \notin DOMAIN user
    <2> SUFFICES ASSUME NEW i \in DOMAIN s, s[i].key = "vhost" PROVE FALSE
      BY <1>10
    <2>1. s[i] \notin extra BY <1>5
    <2>2. ~ Occurs(params, s[i]) BY <1>4, <2>1 DEF Occurs
    <2>3. ~ Occurs(schemas, s[i])
      <3>1. \A j \in DOMAIN schemas : schemas[j].key = "schema" OBVIOUS
      <3> QED BY <3>1, <1>16 DEF Occurs
    <2>4. ~ Occurs(vhosts, s[i]) BY <1>16 DEF Occurs
    <2>5. Occurs(s, s[i]) BY DEF Occurs
    <2> HIDE DEF vhosts, schemas
    <2> QED BY <1>8, <2>2, <2>3, <2>4, <2>5
  <1>17. ASSUME U!Field(q, "schema", page.protocol) # page.protocol
         PROVE  U!Field(user, "schema", "") = q["schema"]
    <2>1. schemas[1] = ofSchema /\ 1 \in DOMAIN schemas BY <1>17
    <2>2. Occurs(s, ofSchema)
      <3> HIDE DEF vhosts, schemas, ofSchema
      <3> QED BY <1>8, <2>1 DEF Occurs
    <2>3. "schema" \in DOMAIN user BY <1>10, <2>2 DEF Occurs
    <2>4. PICK i \in DOMAIN s : s[i].key = "schema" /\ user["schema"] = U!Text(s[i].value)
      BY <1>10, <2>3
    <2>5. s[i].value = <<q["schema"]>> BY <1>9, <1>12, <2>4
    <2>6. q["schema"] \notin U!Falsy BY <1>17 DEF U!Field
    <2> QED BY <1>11, <2>3, <2>4, <2>5, <2>6 DEF U!Field, U!Has
  <1>18. ASSUME U!Field(q, "schema", page.protocol) = page.protocol
         PROVE  "schema" \notin DOMAIN user
    <2> SUFFICES ASSUME NEW i \in DOMAIN s, s[i].key = "schema" PROVE FALSE
      BY <1>10
    <2>1. s[i] \notin extra BY <1>5
    <2>2. ~ Occurs(params, s[i]) BY <1>4, <2>1 DEF Occurs
    <2>3. ~ Occurs(vhosts, s[i])
      <3>1. \A j \in DOMAIN vhosts : vhosts[j].key = "vhost" OBVIOUS
      <3> QED BY <3>1 DEF Occurs
    <2>4. ~ Occurs(schemas, s[i]) BY <1>18 DEF Occurs
    <2>5. Occurs(s, s[i]) BY DEF Occurs
    <2> HIDE DEF vhosts, schemas
    <2> QED BY <1>8, <2>2, <2>3, <2>4, <2>5
  <1>19. U!Field(user, "schema", "") =
           IF U!Field(q, "schema", page.protocol) # page.protocol THEN q["schema"] ELSE ""
    BY <1>17, <1>18 DEF U!Field, U!Has
  <1> QED BY <1>1, <1>13, <1>14, <1>15, <1>16, <1>19 DEF q, s, user

(* The virtual host of an address without parameters.                        *)
OwnVhost(u) ==
  LET own == IF u.appVhost # "" THEN u.appVhost ELSE u.host
  IN IF own = u.host /\ u.host \in Numbers THEN "__defaultVhost__" ELSE own

LEMMA ParseUrlReads ==
  ASSUME NEW u, NEW rtcScheme, NEW p
  PROVE  LET user == U!FillQuery(u.search)
             o == U!ParseUrl(u, rtcScheme, p)
         IN /\ o.url = U!Overwritten(user, "url", u)
            /\ o.server = U!Overwritten(user, "server", u.host)
            /\ o.app = U!Overwritten(user, "app", u.app)
            /\ o.stream = U!Overwritten(user, "stream", u.stream)
            /\ o.vhost = U!Field(user, "domain", U!Overwritten(user, "vhost", OwnVhost(u)))
            /\ o.user_query = user
  BY DEF U!ParseUrl, OwnVhost

LEMMA FieldOr ==
  ASSUME NEW f, NEW key, NEW default
  PROVE  U!Field(f, key, default) = IF U!Field(f, key, "") # "" THEN U!Field(f, key, "") ELSE default
  BY DEF U!Field, U!Falsy

(* The port that was asked for, or that of the API: where dropped is what    *)
(* the browser leaves out.                                                   *)
AskedPort(u, dropped) ==
  U!Overwritten(U!FillQuery(u.search), "port", IF u.port = dropped THEN "" ELSE u.port)
PortOr(asking, secure) ==
  IF asking \notin U!Falsy THEN asking ELSE IF secure THEN "443" ELSE "1985"
Secure(u, p) == U!Field(U!FillQuery(u.search), "schema", "") = "https" \/ p.protocol = "https"
Dropped(rtcScheme) == IF rtcScheme = "https" THEN "443" ELSE "80"

LEMMA ParsePort ==
  ASSUME NEW u, u.schema = "webrtc", NEW rtcScheme \in {"http", "https"}, NEW p
  PROVE  U!ParseUrl(u, rtcScheme, p).port = PortOr(AskedPort(u, Dropped(rtcScheme)), Secure(u, p))
  <1> DEFINE user == U!FillQuery(u.search)
             kept == IF u.port = Dropped(rtcScheme) THEN "" ELSE u.port
             written == IF U!AnchorPort(u, rtcScheme) # "" THEN U!AnchorPort(u, rtcScheme)
                        ELSE U!DefaultPort("webrtc")
  <1>1. U!DefaultPort("webrtc") = "" BY DEF U!DefaultPort
  <1>2. U!AnchorPort(u, rtcScheme) = kept
    <2>1. CASE rtcScheme = "http" BY <2>1 DEF U!AnchorPort, Dropped
    <2>2. CASE rtcScheme = "https" BY <2>2 DEF U!AnchorPort, Dropped
    <2> QED BY <2>1, <2>2
  <1>3. written = kept BY <1>1, <1>2
  <1> HIDE DEF user, kept, written
  <1>4. U!ParseUrl(u, rtcScheme, p).port =
          U!ApiPort("webrtc", user, U!Overwritten(user, "port", written), p)
    BY DEF U!ParseUrl, user, written
  <1>5. AskedPort(u, Dropped(rtcScheme)) = U!Overwritten(user, "port", kept)
    BY DEF AskedPort, user, kept
  <1>6. Secure(u, p) <=> U!Field(user, "schema", "") = "https" \/ p.protocol = "https"
    BY DEF Secure, user
  <1> QED BY <1>3, <1>4, <1>5, <1>6 DEF U!ApiPort, PortOr

(* Where the request goes.                                                   *)
SchemeOf(s) == IF s \in {"ipc", "hd", "zlm"} THEN "https" ELSE "http"

LEMMA RequestGoes ==
  ASSUME NEW s \in U!Sdks, NEW u, u.schema = "webrtc", NEW p
  PROVE  LET o == U!ParseUrl(u, SchemeOf(s), p)
             request == U!PrepareUrl(s, u, p)
             port == PortOr(AskedPort(u, Dropped(SchemeOf(s))), Secure(u, p))
         IN /\ U!Parse(s, u, p) = o
            /\ request.server = o.server
            /\ request.port = IF s = "zlm" /\ port = "1985" THEN "80" ELSE port
            /\ s = "zlm" => {<<"app", <<o.app>>>>, <<"stream", <<o.stream>>>>} \subseteq request.params
  <1> DEFINE o == U!ParseUrl(u, SchemeOf(s), p)
             request == U!PrepareUrl(s, u, p)
             port == PortOr(AskedPort(u, Dropped(SchemeOf(s))), Secure(u, p))
  <1>1. o.port = port
    BY ParsePort DEF SchemeOf
  <1>2. port \notin U!Falsy
    BY DEF PortOr, U!Falsy
  <1>3. U!Parse(s, u, p) = o
    <2>1. CASE s \in {"ipc", "hd", "zlm"} BY <2>1 DEF U!Parse, U!YangUrlParse, SchemeOf
    <2>2. CASE s \notin {"ipc", "hd", "zlm"} BY <2>2 DEF U!Parse, U!ParseRtmpUrl, SchemeOf
    <2> QED BY <2>1, <2>2
  <1>4. CASE s # "zlm"
    <2>1. \E schema, path : request = U!ApiUrl(o, schema, path)
      <3>1. s \in {"publisher", "player", "p2p", "ipc", "hd"} BY <1>4 DEF U!Sdks
      <3>2. CASE s = "publisher" BY <3>2 DEF U!PrepareUrl, U!PublisherUrl, SchemeOf
      <3>3. CASE s = "player" BY <3>3 DEF U!PrepareUrl, U!PlayerUrl, SchemeOf
      <3>4. CASE s = "p2p" BY <3>4 DEF U!PrepareUrl, U!P2pUrl, SchemeOf
      <3>5. CASE s = "ipc" BY <3>5 DEF U!PrepareUrl, U!IpcUrl, U!YangUrlParse, SchemeOf
      <3>6. CASE s = "hd" BY <3>6 DEF U!PrepareUrl, U!HdUrl, U!YangUrlParse, SchemeOf
      <3> QED BY <3>1, <3>2, <3>3, <3>4, <3>5, <3>6
    <2>2. PICK schema, path : request = U!ApiUrl(o, schema, path) BY <2>1
    <2> HIDE DEF o, request, port
    <2>3. request.server = o.server /\ request.port = o.port
      BY <1>1, <1>2, <2>2 DEF U!ApiUrl
    <2> QED BY <1>1, <1>3, <1>4, <2>3 DEF o, request, port
  <1>5. CASE s = "zlm"
    <2>1. o = U!YangUrlParse(u, p) BY <1>5 DEF U!YangUrlParse, SchemeOf
    <2>2. request = U!ZlmUrl(u, p) BY <1>5 DEF U!PrepareUrl
    <2> HIDE DEF o, request, port
    <2>3. /\ request.server = o.server
          /\ request.port = IF o.port = "1985" THEN "80" ELSE o.port
          /\ {<<"app", <<o.app>>>>, <<"stream", <<o.stream>>>>} \subseteq request.params
      BY <2>1, <2>2 DEF U!ZlmUrl
    <2> QED BY <1>1, <1>3, <1>5, <2>3 DEF o, request, port
  <1> QED BY <1>4, <1>5

LEMMA PageIntentKept == AddressInv => U!PageIntent
  <1> SUFFICES ASSUME AddressInv, U!FromPage PROVE U!PageIntent
    BY DEF U!PageIntent
  <1>1. PICK search \in U!PageQueries :
          /\ query = <<search>>
          /\ url = <<U!BuildDefaultRtcUrl(U!ParseQueryString(search), page)>>
          /\ parsed = <<U!Parse(sdk, url[1], page)>>
    BY DEF AddressInv, U!FromPage, U!Played, U!None
  <1> DEFINE q == U!ParseQueryString(search)
             u == U!BuildDefaultRtcUrl(q, page)
             user == U!FillQuery(u.search)
             server == U!Field(q, "server", page.hostname)
             vhost == U!Field(q, "vhost", page.hostname)
             o == parsed[1]
  <1>2. query[1] = search /\ url[1] = u /\ o = U!Parse(sdk, u, page)
    BY <1>1
  <1>3. /\ {"server", "app", "stream"} \cap DOMAIN user = {}
        /\ U!Field(user, "domain", "") = U!Field(q, "domain", "")
        /\ IF vhost \notin {server, "__defaultVhost__"}
           THEN "vhost" \in DOMAIN user /\ user["vhost"] = vhost
           ELSE "vhost" \notin DOMAIN user
    BY BuiltReads
  <1>4. U!Field(q, "domain", "") # "" => vhost = U!Field(q, "domain", "")
    <2>1. search \in Seq(RtcParameters) /\ "vhost" \in RtcKeys BY PageKeys DEF RtcKeys
    <2>2. U!Field(q, "domain", "") # "" => "vhost" \in DOMAIN q /\ q["vhost"] = q["domain"]
      BY <2>1, ParameterKeys, QueryKeys
    <2> HIDE DEF q
    <2> QED BY <2>2 DEF U!Field, U!Has
  <1>5. /\ u.host = server /\ u.appVhost = "" /\ u.app = U!Field(q, "app", "live")
        /\ u.stream = U!Field(q, "stream", "livestream")
    BY DEF U!BuildDefaultRtcUrl
  <1>6. U!Field(q, "app", "live") = "live" /\ U!Field(q, "stream", "livestream") = "livestream"
    <2>1. search \in Seq(RtcParameters) /\ "vhost" \in RtcKeys BY PageKeys DEF RtcKeys
    <2>2. DOMAIN q \subseteq RtcKeys BY <2>1, ParameterKeys, QueryKeys
    <2> HIDE DEF q
    <2> QED BY <2>2 DEF U!Field, U!Has, RtcKeys
  <1> HIDE DEF u, q, user
  <1>7. /\ o.server = U!Overwritten(user, "server", u.host)
        /\ o.app = U!Overwritten(user, "app", u.app)
        /\ o.stream = U!Overwritten(user, "stream", u.stream)
        /\ o.vhost = U!Field(user, "domain", U!Overwritten(user, "vhost", OwnVhost(u)))
    <2>1. PICK scheme : o = U!ParseUrl(u, scheme, page)
      BY <1>2 DEF U!Parse, U!YangUrlParse, U!ParseRtmpUrl
    <2>2. user = U!FillQuery(u.search) BY DEF user
    <2> DEFINE p == U!ParseUrl(u, scheme, page)
    <2>3. /\ p.server = U!Overwritten(user, "server", u.host)
          /\ p.app = U!Overwritten(user, "app", u.app)
          /\ p.stream = U!Overwritten(user, "stream", u.stream)
          /\ p.vhost = U!Field(user, "domain", U!Overwritten(user, "vhost", OwnVhost(u)))
      BY <2>2, ParseUrlReads
    <2> HIDE DEF o, p
    <2> QED BY <2>1, <2>3 DEF p
  <1>8. o.server = server /\ o.app = "live" /\ o.stream = "livestream"
    BY <1>3, <1>5, <1>6, <1>7 DEF U!Overwritten, U!Has
  <1>9. U!Field(q, "domain", "") # "" => o.vhost = vhost
    <2>1. o.vhost = IF U!Field(user, "domain", "") # "" THEN U!Field(user, "domain", "")
                    ELSE U!Overwritten(user, "vhost", OwnVhost(u))
      BY <1>7, FieldOr
    <2> QED BY <1>3, <1>4, <2>1
  <1>10. U!Field(q, "domain", "") = "" =>
           o.vhost = IF vhost \notin {server, "__defaultVhost__"} THEN vhost
                     ELSE IF server \in Numbers THEN "__defaultVhost__" ELSE server
    <2>1. o.vhost = IF U!Field(user, "domain", "") # "" THEN U!Field(user, "domain", "")
                    ELSE U!Overwritten(user, "vhost", OwnVhost(u))
      BY <1>7, FieldOr
    <2>2. OwnVhost(u) = IF server \in Numbers THEN "__defaultVhost__" ELSE server
      BY <1>5 DEF OwnVhost
    <2> QED BY <1>3, <2>1, <2>2 DEF U!Overwritten, U!Has
  <1> HIDE DEF o
  <1> QED BY <1>2, <1>8, <1>9, <1>10 DEF U!PageIntent, q, o

(* What the player reads of an address that srs_init_flv built: nothing but a *)
(* vhost is in its query.                                                     *)
LEMMA FlvBuiltReads ==
  ASSUME NEW search \in U!FlvQueries
  PROVE  LET user == U!FillQuery(U!BuildDefaultFlvUrl(U!ParseQueryString(search), page).search)
         IN "schema" \notin DOMAIN user /\ "port" \notin DOMAIN user
  <1> DEFINE q == U!ParseQueryString(search)
             server == U!Field(q, "server", page.hostname)
             vhost == U!Field(q, "vhost", page.hostname)
             ofVhost == [key |-> "vhost", value |-> <<vhost>>]
             vhosts == IF vhost \notin {server, "__defaultVhost__"} THEN <<ofVhost>> ELSE <<>>
             extra == {[key |-> k, value |-> <<q[k]>>] : k \in {x \in DOMAIN q \ U!Own : q[x] \notin U!Falsy}}
             params == U!UserExtraParams(q)
             s == vhosts \o params
  <1>1. U!BuildDefaultFlvUrl(q, page).search = s
    BY DEF U!BuildDefaultFlvUrl
  <1>2. DOMAIN q \subseteq FlvKeys
    <2>1. search \in Seq(FlvParameters) /\ "vhost" \in FlvKeys BY FlvPageKeys DEF FlvKeys
    <2> QED BY <2>1, ParameterKeys, QueryKeys
  <1>3. IsFiniteSet(FlvKeys)
    <2> DEFINE list == <<"server", "vhost", "port", "schema">>
    <2>1. list \in Seq(FlvKeys) /\ \A k \in FlvKeys : \E i \in 1 .. Len(list) : list[i] = k
      BY DEF FlvKeys
    <2> QED BY <2>1 DEF IsFiniteSet
  <1>4. params \in Seq(extra)
    BY <1>2, <1>3, ExtraParams
  <1>5. extra = {}
    <2>1. DOMAIN q \ U!Own = {} BY <1>2 DEF FlvKeys, U!Own
    <2> HIDE DEF q
    <2> QED BY <2>1
  <1> HIDE DEF params, extra
  <1>6. params = <<>>
    BY <1>4, <1>5
  <1> DEFINE R == {ofVhost}
  <1>7. vhosts \in Seq(R)
    <2> HIDE DEF ofVhost
    <2>1. <<ofVhost>> \in Seq(R) /\ <<>> \in Seq(R) OBVIOUS
    <2> QED BY <2>1
  <1>8. s \in Seq(R)
    <2> HIDE DEF vhosts, R
    <2> QED BY <1>6, <1>7
  <1>9. DOMAIN U!FillQuery(s) = {s[i].key : i \in DOMAIN s}
    <2> HIDE DEF s, R
    <2> QED BY <1>8, FillQueryReads
  <1>10. \A i \in DOMAIN s : s[i] \in R
    <2> HIDE DEF s, R
    <2> QED BY <1>8
  <1>11. \A i \in DOMAIN s : s[i].key = "vhost"
    <2> HIDE DEF s
    <2> QED BY <1>10
  <1> HIDE DEF s
  <1> QED BY <1>1, <1>9, <1>11 DEF q

LEMMA FlvPortAlways == AddressInv => U!FlvPortKept
  <1> SUFFICES ASSUME AddressInv, parsed # <<>>, api = <<>> PROVE U!FlvPortKept
    BY DEF U!FlvPortKept, U!None, U!Played
  <1>1. PICK search \in U!FlvQueries :
          /\ query = <<search>>
          /\ url = <<U!BuildDefaultFlvUrl(U!ParseQueryString(search), page)>>
          /\ parsed = <<U!ParseRtmpUrl(url[1], page)>>
    BY DEF AddressInv
  <1> DEFINE q == U!ParseQueryString(search)
             schema == U!Field(q, "schema", "http")
             asking == U!Field(q, "port", IF schema = "http" THEN "8080" ELSE "1935")
             u == U!BuildDefaultFlvUrl(q, page)
             user == U!FillQuery(u.search)
  <1>2. query[1] = search /\ parsed[1] = U!ParseUrl(u, "http", page)
    BY <1>1 DEF U!ParseRtmpUrl
  <1>3. u.schema = schema /\ u.port = IF U!IsDefaultPort(schema, asking) THEN "" ELSE asking
    BY DEF U!BuildDefaultFlvUrl
  <1>4. "port" \notin DOMAIN user
    BY FlvBuiltReads
  <1>5. schema \in FlvSchemas /\ asking \in FlvPorts
    <2>1. search \in Seq(FlvParameters) BY FlvPageKeys
    <2> DEFINE f == U!FillQuery(search)
    <2>2. \A k \in DOMAIN f : \E i \in DOMAIN search : search[i].key = k /\ f[k] = U!Text(search[i].value)
      BY <2>1, FillQueryReads
    <2>3. \A v : U!Text(<<v>>) = v BY DEF U!Text
    <2>4. \A i \in DOMAIN search : search[i] \in FlvParameters BY <2>1
    <2>5. "schema" \in DOMAIN f => f["schema"] \in FlvSchemas
      BY <2>2, <2>3, <2>4, ParameterKeys
    <2>6. "port" \in DOMAIN f => f["port"] \in FlvPorts
      BY <2>2, <2>3, <2>4, ParameterKeys
    <2>7. "domain" \notin DOMAIN f
      BY <2>2, <2>4, ParameterKeys DEF FlvKeys
    <2> HIDE DEF f
    <2>8. q = f BY <2>7 DEF U!ParseQueryString, U!Field, U!Has, f
    <2> HIDE DEF q
    <2> QED BY <2>5, <2>6, <2>8 DEF U!Field, U!Has, FlvSchemas, FlvPorts
  <1>a. asking # "" /\ schema \in {"http", "https", "rtmp"}
    BY <1>5, PortsAssumption DEF FlvPorts, FlvSchemas
  <1> HIDE DEF u, schema, asking, user
  <1>6. /\ schema = "http" =>
             parsed[1].port = IF U!AnchorPort(u, "http") # "" THEN U!AnchorPort(u, "http") ELSE "80"
        /\ schema = "https" =>
             parsed[1].port = IF U!AnchorPort(u, "https") # "" THEN U!AnchorPort(u, "https") ELSE "443"
        /\ schema = "rtmp" =>
             parsed[1].port = IF U!AnchorPort(u, "http") # "" THEN U!AnchorPort(u, "http") ELSE "1935"
    <2> DEFINE scheme == IF schema = "rtmp" THEN "http" ELSE schema
               written == IF U!AnchorPort(u, scheme) # "" THEN U!AnchorPort(u, scheme)
                          ELSE U!DefaultPort(schema)
    <2>1. U!DefaultPort(schema) # ""
      BY <1>a DEF U!DefaultPort
    <2>2. u.schema = schema BY <1>3
    <2> HIDE DEF written
    <2>3. U!ParseUrl(u, "http", page).port =
            LET w == IF U!AnchorPort(u, scheme) # "" THEN U!AnchorPort(u, scheme) ELSE U!DefaultPort(u.schema)
            IN U!ApiPort(u.schema, user, U!Overwritten(user, "port", w), page)
      BY <1>a, <2>2 DEF U!ParseUrl, user
    <2>4. parsed[1].port = U!Overwritten(user, "port", written)
      BY <1>2, <1>a, <2>2, <2>3 DEF written, U!ApiPort
    <2>5. parsed[1].port = written
      BY <1>4, <2>4 DEF U!Overwritten, U!Has
    <2> QED BY <2>5, <1>a DEF U!DefaultPort, written
  <1>7. U!AnchorPort(u, "http") = IF u.port = "80" THEN "" ELSE u.port
    BY DEF U!AnchorPort
  <1>8. U!AnchorPort(u, "https") = IF u.port = "443" THEN "" ELSE u.port
    BY DEF U!AnchorPort
  <1>9. U!IsDefaultPort(schema, asking) <=>
          \/ schema = "http" /\ asking = "80"
          \/ schema = "https" /\ asking = "443"
          \/ schema = "rtmp" /\ asking = "1935"
    <2>1. \A a, b, c, d : <<a, b>> = <<c, d>> <=> a = c /\ b = d OBVIOUS
    <2>2. U!IsDefaultPort(schema, asking) <=>
            \/ <<schema, asking>> = <<"http", "80">>
            \/ <<schema, asking>> = <<"https", "443">>
            \/ <<schema, asking>> = <<"webrtc", "1985">>
            \/ <<schema, asking>> = <<"rtmp", "1935">>
      BY DEF U!IsDefaultPort
    <2> QED BY <1>a, <2>1, <2>2
  <1>10. <<schema, asking>> # <<"rtmp", "80">> => parsed[1].port = asking
    <2>1. \A a, b, c, d : <<a, b>> = <<c, d>> <=> a = c /\ b = d OBVIOUS
    <2>2. u.port = IF U!IsDefaultPort(schema, asking) THEN "" ELSE asking BY <1>3
    <2>3. CASE schema = "http"
      <3>1. parsed[1].port = IF U!AnchorPort(u, "http") # "" THEN U!AnchorPort(u, "http") ELSE "80"
        BY <1>6, <2>3
      <3>2. u.port = IF asking = "80" THEN "" ELSE asking BY <1>9, <2>2, <2>3
      <3> QED BY <1>a, <1>7, <3>1, <3>2
    <2>4. CASE schema = "https"
      <3>1. parsed[1].port = IF U!AnchorPort(u, "https") # "" THEN U!AnchorPort(u, "https") ELSE "443"
        BY <1>6, <2>4
      <3>2. u.port = IF asking = "443" THEN "" ELSE asking BY <1>9, <2>2, <2>4
      <3> QED BY <1>a, <1>8, <3>1, <3>2
    <2>5. CASE schema = "rtmp"
      <3>1. parsed[1].port = IF U!AnchorPort(u, "http") # "" THEN U!AnchorPort(u, "http") ELSE "1935"
        BY <1>6, <2>5
      <3>2. u.port = IF asking = "1935" THEN "" ELSE asking BY <1>9, <2>2, <2>5
      <3>3. <<schema, asking>> # <<"rtmp", "80">> => asking # "80" BY <2>5
      <3> QED BY <1>a, <1>7, <3>1, <3>2, <3>3
    <2> QED BY <1>a, <2>3, <2>4, <2>5
  <1> QED BY <1>2, <1>10 DEF U!FlvPortKept, q, schema, asking

(* The parameters of the request, but for the player of ZLM.                 *)
LEMMA RequestReads ==
  ASSUME NEW s \in U!Sdks \ {"zlm"}, NEW u, NEW p
  PROVE  LET user == U!FillQuery(u.search)
             keys == DOMAIN user \ {"api", "play"}
             request == U!PrepareUrl(s, u, p)
         IN /\ request.params = {<<k, <<user[k]>>>> : k \in keys}
            /\ request.separator = IF keys = {} THEN "" ELSE "?"
  <1> DEFINE user == U!FillQuery(u.search)
             keys == DOMAIN user \ {"api", "play"}
             o(scheme) == U!ParseUrl(u, scheme, p)
  <1>1. \A scheme : o(scheme).user_query = user
    BY ParseUrlReads
  <1>2. ASSUME NEW r, r.user_query = user, NEW schema, NEW path
        PROVE  /\ U!ApiUrl(r, schema, path).params = {<<k, <<user[k]>>>> : k \in keys}
               /\ U!ApiUrl(r, schema, path).separator = IF keys = {} THEN "" ELSE "?"
    <2> HIDE DEF user
    <2> QED BY <1>2 DEF U!ApiUrl
  <1>3. \E scheme, schema, path : U!PrepareUrl(s, u, p) = U!ApiUrl(o(scheme), schema, path)
    <2> HIDE DEF user, keys
    <2>1. s \in {"publisher", "player", "p2p", "ipc", "hd"} BY DEF U!Sdks
    <2>2. CASE s = "publisher" BY <2>2 DEF U!PrepareUrl, U!PublisherUrl
    <2>3. CASE s = "player" BY <2>3 DEF U!PrepareUrl, U!PlayerUrl
    <2>4. CASE s = "p2p" BY <2>4 DEF U!PrepareUrl, U!P2pUrl
    <2>5. CASE s = "ipc" BY <2>5 DEF U!PrepareUrl, U!IpcUrl, U!YangUrlParse
    <2>6. CASE s = "hd" BY <2>6 DEF U!PrepareUrl, U!HdUrl, U!YangUrlParse
    <2> QED BY <2>1, <2>2, <2>3, <2>4, <2>5, <2>6
  <1>4. PICK scheme, schema, path : U!PrepareUrl(s, u, p) = U!ApiUrl(o(scheme), schema, path)
    BY <1>3
  <1> DEFINE oo == o(scheme)
             request == U!ApiUrl(oo, schema, path)
  <1>5. oo.user_query = user
    BY <1>1
  <1> HIDE DEF oo, user
  <1>6. request.params = {<<k, <<user[k]>>>> : k \in keys} /\ request.separator = IF keys = {} THEN "" ELSE "?"
    BY <1>2, <1>5
  <1> HIDE DEF request
  <1> QED BY <1>4, <1>6 DEF user, oo, request

LEMMA ZlmRequest ==
  ASSUME NEW u, NEW p
  PROVE  U!PrepareUrl("zlm", u, p).separator = "?" /\ U!PrepareUrl("zlm", u, p).params # {}
  BY DEF U!PrepareUrl, U!ZlmUrl

LEMMA RequestWellFormed == AddressInv => U!WellFormedRequest
  <1> SUFFICES ASSUME AddressInv, api # <<>> PROVE U!WellFormedRequest
    BY DEF U!WellFormedRequest, U!None, U!Played
  <1>1. sdk \in U!Sdks /\ api[1] = U!PrepareUrl(sdk, url[1], page)
    BY DEF AddressInv
  <1>2. CASE sdk = "zlm"
    BY <1>1, <1>2, ZlmRequest DEF U!WellFormedRequest
  <1>3. CASE sdk # "zlm"
    <2> DEFINE user == U!FillQuery(url[1].search)
               keys == DOMAIN user \ {"api", "play"}
    <2>1. /\ api[1].params = {<<k, <<user[k]>>>> : k \in keys}
          /\ api[1].separator = IF keys = {} THEN "" ELSE "?"
      <3> DEFINE request == U!PrepareUrl(sdk, url[1], page)
      <3>1. sdk \in U!Sdks \ {"zlm"} /\ api[1] = request BY <1>1, <1>3
      <3>2. /\ request.params = {<<k, <<user[k]>>>> : k \in keys}
            /\ request.separator = IF keys = {} THEN "" ELSE "?"
        BY <3>1, RequestReads
      <3> HIDE DEF request, user, keys
      <3> QED BY <3>1, <3>2
    <2> HIDE DEF user, keys
    <2> QED BY <2>1 DEF U!WellFormedRequest
  <1> QED BY <1>2, <1>3

LEMMA FillQueryKeys ==
  ASSUME NEW S, NEW s \in Seq(S)
  PROVE  DOMAIN U!FillQuery(s) = {s[i].key : i \in DOMAIN s}
  BY FillQueryReads

(* What a user types: keys and values that are not taken for another's.      *)
LEMMA TypedKeys ==
  ASSUME NEW s \in U!TypedQueries
  PROVE  \E R : /\ s \in Seq(R)
                /\ \A r \in R : /\ r.key \in {"token", "vhost", "schema", "play", "port"}
                                /\ Len(r.value) = 1 => r.value = <<U!Text(r.value)>>
  <1> DEFINE keys == [key : {"token", "vhost"}, value : U!Values \cup {<<>>}]
                       \cup [key : {"schema"}, value : {<<"https">>}]
                       \cup [key : {"play"}, value : {<<x>> : x \in Paths} \cup {<<>>}]
                       \cup [key : {"port"}, value : {<<x>> : x \in Ports} \cup {<<>>}]
  <1>1. PICK n \in 0 .. MaxKeys : s \in [1 .. n -> keys]
    BY DEF U!TypedQueries
  <1>2. s \in Seq(keys)
    <2> HIDE DEF keys
    <2> QED BY <1>1
  <1>3. ASSUME NEW v, Len(<<v>>) = 1 PROVE <<v>> = <<U!Text(<<v>>)>>
    BY DEF U!Text
  <1>4. ASSUME NEW r \in keys
        PROVE  /\ r.key \in {"token", "vhost", "schema", "play", "port"}
               /\ Len(r.value) = 1 => r.value = <<U!Text(r.value)>>
    <2>1. r.key \in {"token", "vhost", "schema", "play", "port"} OBVIOUS
    <2>2. \/ \E v : r.value = <<v>>
          \/ \E v : r.value = <<v, "">>
          \/ r.value = <<>>
      BY DEF U!Values
    <2>3. \A v : Len(<<v, "">>) = 2 /\ <<v>> # <<>> /\ Head(<<v>>) = v
      OBVIOUS
    <2>4. Len(<<>>) = 0
      OBVIOUS
    <2>5. CASE \E v : r.value = <<v>> BY <1>3, <2>1, <2>5
    <2>6. CASE \E v : r.value = <<v, "">>
      <3>1. PICK v : r.value = <<v, "">> BY <2>6
      <3>2. Len(r.value) = 2 BY <2>3, <3>1
      <3> QED BY <2>1, <3>2
    <2>7. CASE r.value = <<>> BY <2>1, <2>4, <2>7
    <2> QED BY <2>2, <2>5, <2>6, <2>7
  <1> HIDE DEF keys
  <1> QED BY <1>2, <1>4

(* One parameter for each key, whatever is repeated.                         *)
LEMMA AsManyParameters ==
  ASSUME NEW R, NEW s \in Seq(R), NEW hidden
  PROVE  LET user == U!FillQuery(s)
             last == {i \in U!SaidLast(s) : s[i].key \notin hidden}
             params == {<<k, <<user[k]>>>> : k \in DOMAIN user \ hidden}
         IN Cardinality(params) = Cardinality(last)
  <1> DEFINE user == U!FillQuery(s)
             last == {i \in U!SaidLast(s) : s[i].key \notin hidden}
             keys == DOMAIN user \ hidden
             params == {<<k, <<user[k]>>>> : k \in keys}
             f == [i \in last |-> <<s[i].key, <<user[s[i].key]>>>>]
  <1>1. DOMAIN user = {s[i].key : i \in DOMAIN s}
    BY FillQueryReads
  <1>2. last \subseteq DOMAIN s /\ \A i \in last : s[i].key \in keys
    BY <1>1 DEF U!SaidLast
  <1>3. IsFiniteSet(last)
    <2>1. IsFiniteSet(1 .. Len(s)) BY FS_Interval
    <2>2. last \subseteq 1 .. Len(s) BY <1>2
    <2> HIDE DEF last
    <2> QED BY <2>1, <2>2, FS_Subset
  <1>4. \A k \in keys : \E i \in last : s[i].key = k
    <2> SUFFICES ASSUME NEW k \in keys PROVE \E i \in last : s[i].key = k
      OBVIOUS
    <2>1. PICK i \in DOMAIN s : s[i].key = k /\ \A j \in i + 1 .. Len(s) : s[j].key # k
      BY <1>1, LastExists
    <2>2. i \in last BY <2>1 DEF U!SaidLast
    <2> QED BY <2>1, <2>2
  <1>5. \A i, j \in last : s[i].key = s[j].key => i = j
    BY DEF U!SaidLast
  <1> HIDE DEF user, last, keys
  <1>6. \A i \in last : f[i] = <<s[i].key, <<user[s[i].key]>>>> /\ f[i] \in params
    BY <1>2
  <1>7. f \in [last -> params]
    BY <1>6
  <1>8. \A i, j \in last : f[i] = f[j] => i = j
    BY <1>5
  <1>9. \A x \in params : \E i \in last : f[i] = x
    BY <1>4
  <1> HIDE DEF f, params
  <1>10. f \in Bijection(last, params)
    BY <1>7, <1>8, <1>9 DEF Bijection, Injection, Surjection, IsInjective
  <1>11. Cardinality(params) = Cardinality(last)
    BY <1>3, <1>10, FS_Bijection DEF ExistsBijection
  <1> QED BY <1>11 DEF user, last, keys, params

LEMMA ParametersArrive == AddressInv => U!ParametersPass
  <1> SUFFICES ASSUME AddressInv, api # <<>>, query = <<>>, sdk # "zlm" PROVE U!ParametersPass
    BY DEF U!ParametersPass, U!Typed, U!Played, U!None
  <1> DEFINE s == url[1].search
             user == U!FillQuery(s)
             hidden == {"api", "play"}
             last == {i \in U!SaidLast(s) : s[i].key # "play"}
  <1>1. s \in U!TypedQueries /\ sdk \in U!Sdks /\ api[1] = U!PrepareUrl(sdk, url[1], page)
    BY DEF AddressInv
  <1>2. api[1].params = {<<k, <<user[k]>>>> : k \in DOMAIN user \ hidden}
    <2> DEFINE request == U!PrepareUrl(sdk, url[1], page)
    <2>1. sdk \in U!Sdks \ {"zlm"} /\ api[1] = request BY <1>1
    <2>2. request.params = {<<k, <<user[k]>>>> : k \in DOMAIN user \ hidden}
      BY <2>1, RequestReads
    <2> HIDE DEF request, user, hidden
    <2> QED BY <2>1, <2>2
  <1>3. PICK R : /\ s \in Seq(R)
                 /\ \A r \in R : /\ r.key \in {"token", "vhost", "schema", "play", "port"}
                                 /\ Len(r.value) = 1 => r.value = <<U!Text(r.value)>>
    BY <1>1, TypedKeys
  <1>4. last = {i \in U!SaidLast(s) : s[i].key \notin hidden}
    <2>1. \A i \in U!SaidLast(s) : s[i] \in R BY <1>3 DEF U!SaidLast
    <2> HIDE DEF s
    <2> QED BY <1>3, <2>1
  <1>5. Cardinality(api[1].params) = Cardinality(last)
    <2> DEFINE l == {i \in U!SaidLast(s) : s[i].key \notin hidden}
               params == {<<k, <<user[k]>>>> : k \in DOMAIN user \ hidden}
    <2>1. s \in Seq(R) BY <1>3
    <2> HIDE DEF s, hidden
    <2>2. Cardinality(params) = Cardinality(l)
      BY <2>1, AsManyParameters
    <2> HIDE DEF l, params, last
    <2> QED BY <1>2, <1>4, <2>2 DEF l, params
  <1>6. U!Cardinality(api[1].params) = U!Cardinality(last)
    BY <1>5 DEF U!Cardinality, Cardinality
  <1>7. ASSUME NEW i \in last, Len(s[i].value) = 1
        PROVE  <<s[i].key, s[i].value>> \in api[1].params
    <2> HIDE DEF s
    <2>1. i \in U!SaidLast(s) /\ i \in DOMAIN s /\ s[i] \in R
      BY <1>3 DEF U!SaidLast
    <2>2. user[s[i].key] = U!Text(s[i].value)
      BY <1>3, <2>1, FillQueryLast
    <2>3. s[i].value = <<user[s[i].key]>>
      BY <1>3, <1>7, <2>1, <2>2
    <2>4. s[i].key \in DOMAIN user \ hidden
      <3>1. DOMAIN user = {s[j].key : j \in DOMAIN s} 
        <4>1. s \in Seq(R) BY <1>3
        <4> HIDE DEF hidden, last
        <4> QED BY <4>1, FillQueryKeys
      <3> HIDE DEF user
      <3> QED BY <1>4, <2>1, <3>1
    <2> HIDE DEF user, last, hidden
    <2> QED BY <1>2, <2>3, <2>4
  <1> HIDE DEF user
  <1> QED BY <1>6, <1>7 DEF U!ParametersPass

(* The request goes to the port that was asked for.                          *)
LEMMA PortAlways == AddressInv => U!PortArrives
  <1> SUFFICES ASSUME AddressInv, api # <<>> PROVE U!PortArrives
    BY DEF U!PortArrives, U!Played, U!None
  <1> DEFINE u == url[1]
             dropped == Dropped(SchemeOf(sdk))
             port == PortOr(AskedPort(u, dropped), Secure(u, page))
  <1>1. sdk \in U!Sdks /\ api[1] = U!PrepareUrl(sdk, u, page) /\ u.schema = "webrtc"
    <2>1. sdk \in U!Sdks /\ api[1] = U!PrepareUrl(sdk, u, page) BY DEF AddressInv
    <2>2. \/ \E search : url = <<U!BuildDefaultRtcUrl(U!ParseQueryString(search), page)>>
          \/ \E v : url = <<v>> /\ v.schema = "webrtc"
      BY DEF AddressInv
    <2>3. ASSUME NEW q PROVE U!BuildDefaultRtcUrl(q, page).schema = "webrtc"
      BY DEF U!BuildDefaultRtcUrl
    <2> QED BY <2>1, <2>2, <2>3
  <1>2. api[1].port = IF sdk = "zlm" /\ port = "1985" THEN "80" ELSE port
    <2> DEFINE request == U!PrepareUrl(sdk, u, page)
    <2> HIDE DEF u
    <2>1. request.port = IF sdk = "zlm" /\ port = "1985" THEN "80" ELSE port
      BY <1>1, RequestGoes
    <2> HIDE DEF request, port
    <2> QED BY <1>1, <2>1 DEF request
  <1>0. dropped = IF sdk \in {"ipc", "hd", "zlm"} THEN "443" ELSE "80"
    BY DEF Dropped, SchemeOf
  <1>3. CASE query = <<>>
    <2> DEFINE q == U!FillQuery(u.search)
               kept == IF u.port = dropped THEN "" ELSE u.port
    <2>1. AskedPort(u, dropped) = IF U!Has(q, "port") THEN q["port"] ELSE kept
      BY DEF AskedPort, U!Overwritten
    <2>2. Secure(u, page) <=> page.protocol = "https" \/ U!Field(q, "schema", "") = "https"
      BY DEF Secure
    <2> DEFINE asking == IF U!Has(q, "port") THEN q["port"] ELSE kept
               secure == page.protocol = "https" \/ U!Field(q, "schema", "") = "https"
               p == IF asking \notin U!Falsy THEN asking ELSE IF secure THEN "443" ELSE "1985"
    <2> HIDE DEF q, kept, dropped, u
    <2>3. port = p BY <2>1, <2>2 DEF PortOr
    <2>4. ~U!FromPage /\ (api # <<>> => U!Typed)
      BY <1>3 DEF U!FromPage, U!Typed, U!Played, U!None
    <2> HIDE DEF p, port
    <2>5. api[1].port = IF sdk = "zlm" /\ p = "1985" THEN "80" ELSE p
      BY <1>2, <2>3
    <2> QED BY <1>0, <2>4, <2>5 DEF U!PortArrives, q, kept, u, p
  <1>4. CASE query # <<>>
    <2>1. PICK search \in U!PageQueries :
            query = <<search>> /\ url = <<U!BuildDefaultRtcUrl(U!ParseQueryString(search), page)>>
      BY <1>4 DEF AddressInv
    <2> DEFINE q == U!ParseQueryString(search)
               user == U!FillQuery(u.search)
               written == U!Field(q, "api", "")
               kept == IF written = dropped THEN "" ELSE written
    <2>2. u = U!BuildDefaultRtcUrl(q, page) /\ query[1] = search BY <2>1
    <2>3. u.port = written
      <3> HIDE DEF q, u
      <3>1. U!BuildDefaultRtcUrl(q, page).port = U!Field(q, "api", "") BY DEF U!BuildDefaultRtcUrl
      <3> QED BY <2>2, <3>1
    <2>4. /\ {"server", "app", "stream", "port"} \cap DOMAIN user = {}
          /\ U!Field(user, "schema", "") =
               IF U!Field(q, "schema", page.protocol) # page.protocol THEN q["schema"] ELSE ""
      BY <2>2, BuiltReads
    <2> HIDE DEF q, written, dropped, u
    <2>5. AskedPort(u, dropped) = kept
      BY <2>3, <2>4 DEF AskedPort, U!Overwritten, U!Has
    <2>6. Secure(u, page) <=> page.protocol = "https" \/ U!Field(q, "schema", "") = "https"
      <3>1. Secure(u, page) <=> U!Field(user, "schema", "") = "https" \/ page.protocol = "https"
        BY DEF Secure
      <3> HIDE DEF user
      <3> QED BY <2>4, <3>1 DEF U!Field
    <2> HIDE DEF kept, user
    <2>7. U!FromPage /\ ~U!Typed
      BY <1>4 DEF U!FromPage, U!Typed, U!Played, U!None
    <2> DEFINE secure == page.protocol = "https" \/ U!Field(q, "schema", "") = "https"
               p == IF kept \notin U!Falsy THEN kept ELSE IF secure THEN "443" ELSE "1985"
    <2>8. port = p BY <2>5, <2>6 DEF PortOr
    <2> HIDE DEF p, port
    <2>9. api[1].port = IF sdk = "zlm" /\ p = "1985" THEN "80" ELSE p
      BY <1>2, <2>8
    <2> QED BY <1>0, <2>2, <2>7, <2>9 DEF U!PortArrives, q, kept, written, p
  <1> QED BY <1>3, <1>4

(* What is typed is what is understood.                                      *)
LEMMA TypedIntentKept == AddressInv => U!TypedIntent
  <1> SUFFICES ASSUME AddressInv, api # <<>>, query = <<>> PROVE U!TypedIntent
    BY DEF U!TypedIntent, U!Typed, U!Played, U!None
  <1> DEFINE u == url[1]
             s == u.search
             user == U!FillQuery(s)
             o == parsed[1]
             request == U!PrepareUrl(sdk, u, page)
             vhosts == {i \in U!SaidLast(s) : s[i].key = "vhost"}
             vhost == OwnVhost(u)
  <1>1. /\ sdk \in U!Sdks /\ api[1] = request /\ o = U!Parse(sdk, u, page)
        /\ u.schema = "webrtc" /\ s \in U!TypedQueries
    BY DEF AddressInv
  <1>2. PICK R : /\ s \in Seq(R)
                 /\ \A r \in R : r.key \in {"token", "vhost", "schema", "play", "port"}
    BY <1>1, TypedKeys
  <1>3. DOMAIN user = {s[i].key : i \in DOMAIN s}
    BY <1>2, FillQueryReads
  <1>4. DOMAIN user \subseteq {"token", "vhost", "schema", "play", "port"}
    <2> HIDE DEF s, user
    <2> QED BY <1>2, <1>3
  <1>5. /\ o.url = U!Overwritten(user, "url", u)
        /\ o.server = U!Overwritten(user, "server", u.host)
        /\ o.app = U!Overwritten(user, "app", u.app)
        /\ o.stream = U!Overwritten(user, "stream", u.stream)
        /\ o.vhost = U!Field(user, "domain", U!Overwritten(user, "vhost", vhost))
        /\ request.server = o.server
        /\ sdk = "zlm" => {<<"app", <<o.app>>>>, <<"stream", <<o.stream>>>>} \subseteq request.params
    <2> DEFINE p == U!ParseUrl(u, SchemeOf(sdk), page)
    <2>1. /\ U!Parse(sdk, u, page) = p
          /\ request.server = p.server
          /\ sdk = "zlm" => {<<"app", <<p.app>>>>, <<"stream", <<p.stream>>>>} \subseteq request.params
      BY <1>1, RequestGoes
    <2>2. /\ p.url = U!Overwritten(user, "url", u)
          /\ p.server = U!Overwritten(user, "server", u.host)
          /\ p.app = U!Overwritten(user, "app", u.app)
          /\ p.stream = U!Overwritten(user, "stream", u.stream)
          /\ p.vhost = U!Field(user, "domain", U!Overwritten(user, "vhost", vhost))
      BY ParseUrlReads
    <2> HIDE DEF p, o, request, user, vhost, u
    <2> QED BY <1>1, <2>1, <2>2
  <1>6. ASSUME NEW i \in vhosts PROVE user["vhost"] = U!Text(s[i].value) /\ "vhost" \in DOMAIN user
    <2>1. i \in U!SaidLast(s) /\ s[i].key = "vhost" /\ i \in DOMAIN s
      BY DEF U!SaidLast
    <2>2. user[s[i].key] = U!Text(s[i].value)
      <3> HIDE DEF s
      <3> QED BY <1>2, <2>1, FillQueryLast
    <2> HIDE DEF user, s
    <2> QED BY <1>3, <2>1, <2>2
  <1>7. ASSUME vhosts = {} PROVE "vhost" \notin DOMAIN user
    <2> SUFFICES ASSUME "vhost" \in DOMAIN user PROVE FALSE
      OBVIOUS
    <2>1. "vhost" \in {s[i].key : i \in DOMAIN s} BY <1>3
    <2>2. PICK i \in DOMAIN s : s[i].key = "vhost" /\ \A j \in i + 1 .. Len(s) : s[j].key # "vhost"
      <3> HIDE DEF s
      <3> QED BY <1>2, <2>1, LastExists
    <2>3. i \in vhosts BY <2>2 DEF U!SaidLast
    <2> QED BY <1>7, <2>3
  <1> HIDE DEF user, request, vhosts, s, u, o, vhost
  <1>8. /\ o.url = u /\ o.server = u.host /\ o.app = u.app /\ o.stream = u.stream
        /\ o.vhost = U!Overwritten(user, "vhost", vhost)
    BY <1>4, <1>5 DEF U!Overwritten, U!Has, U!Field
  <1>9. /\ \A i \in vhosts : o.vhost = U!Text(s[i].value)
        /\ vhosts = {} => o.vhost = vhost
    BY <1>6, <1>7, <1>8 DEF U!Overwritten, U!Has
  <1>10. vhost = IF u.appVhost \notin {"", u.host} THEN u.appVhost
                 ELSE IF u.host \in Numbers THEN "__defaultVhost__" ELSE u.host
    BY DEF vhost, OwnVhost
  <1>11. /\ api[1].server = u.host
         /\ sdk = "zlm" => {<<"app", <<u.app>>>>, <<"stream", <<u.stream>>>>} \subseteq api[1].params
    BY <1>1, <1>5, <1>8
  <1> QED BY <1>8, <1>9, <1>10, <1>11 DEF U!TypedIntent, u, o, vhosts, s

(* From the address of the page, or the one typed, to the request of the     *)
(* API, whatever the page and the address: server, application, stream,      *)
(* virtual host, port and parameters arrive (parse, prepareUrl,              *)
(* build_default_rtc_url, build_default_flv_url).                            *)
THEOREM AddressAlways == PageSpec => []AddressArrives
  <1>1. AddressInv => AddressArrives
    BY PageIntentKept, TypedIntentKept, PortAlways, FlvPortAlways, ParametersArrive, RequestWellFormed
    DEF AddressArrives, U!AddressArrives
  <1> QED BY <1>1, AddressStart, AddressStep, PTL DEF PageSpec

-----------------------------------------------------------------------------
(* IceServers.                                                                *)

LEMMA PlacesAre ==
  ASSUME NEW servers
  PROVE  /\ \A i \in DOMAIN servers : \A j \in DOMAIN servers[i] : <<i, j>> \in Servers!Places(servers)
         /\ \A p \in Servers!Places(servers) :
              p[1] \in DOMAIN servers /\ p[2] \in DOMAIN servers[p[1]] /\ p = <<p[1], p[2]>>
  BY DEF Servers!Places

(* The places of the urls a filter keeps.                                     *)
Passed(servers, turn, stays) ==
  Servers!FirstTurn(servers, turn)
    \cup {p \in Servers!Places(servers) : Servers!At(servers, p) \in stays}

(* Each kept url comes from a place of its own, and all those places are kept. *)
LEMMA KeptPlaces ==
  ASSUME NEW Any, NEW servers \in Seq(Seq(Any)), NEW turn, NEW stays
  PROVE  LET r == Servers!Kept(servers, turn, stays)
             passed == Passed(servers, turn, stays)
         IN /\ r \in Seq(Seq(Any))
            /\ \E g \in [Servers!Places(r) -> passed] :
                 /\ \A p \in Servers!Places(r) : Servers!At(r, p) = Servers!At(servers, g[p])
                 /\ \A p, q \in Servers!Places(r) : g[p] = g[q] => p = q
                 /\ \A x \in passed : \E p \in Servers!Places(r) : g[p] = x
  <1> DEFINE passed == Passed(servers, turn, stays)
             at(i) == {j \in DOMAIN servers[i] : <<i, j>> \in passed}
             left == [i \in DOMAIN servers |-> Pick(servers[i], at(i))]
             full == {i \in DOMAIN servers : left[i] # <<>>}
             r == Pick(left, full)
             In(i, h) == TakenFrom(left[i], servers[i], at(i), h)
  <1>1. Servers!Kept(servers, turn, stays) = r
    BY SamePick DEF Servers!Kept, Passed
  <1>2. passed \subseteq Servers!Places(servers)
    BY DEF Passed, Servers!FirstTurn
  <1> HIDE DEF passed
  <1>3. ASSUME NEW i \in DOMAIN servers
        PROVE  left[i] \in Seq(Any) /\ \E h : In(i, h)
    <2>1. servers[i] \in Seq(Any) OBVIOUS
    <2>2. left[i] = Pick(servers[i], at(i)) OBVIOUS
    <2> HIDE DEF left, at
    <2> QED BY <2>1, <2>2, PickPlaces
  <1>4. left \in Seq(Seq(Any)) /\ DOMAIN left = DOMAIN servers
    <2>1. DOMAIN left = 1 .. Len(servers) OBVIOUS
    <2>2. left = [i \in 1 .. Len(servers) |-> left[i]] OBVIOUS
    <2>3. \A i \in 1 .. Len(servers) : left[i] \in Seq(Any) BY <1>3
    <2>4. Len(servers) \in Nat OBVIOUS
    <2> HIDE DEF left
    <2>5. left \in [1 .. Len(servers) -> Seq(Any)] BY <2>2, <2>3
    <2> DEFINE S == Seq(Any)
               n == Len(servers)
    <2>6. n \in Nat /\ left \in [1 .. n -> S] BY <2>4, <2>5
    <2> HIDE DEF S, n
    <2>7. left \in Seq(S) BY <2>6
    <2>8. DOMAIN servers = 1 .. Len(servers) OBVIOUS
    <2> QED BY <2>1, <2>7, <2>8 DEF S
  <1> DEFINE h == [i \in DOMAIN servers |-> CHOOSE f : In(i, f)]
  <1>5. \A i \in DOMAIN servers : In(i, h[i])
    <2> HIDE DEF left, at, In
    <2> QED BY <1>3
  <1>a. ASSUME NEW i \in DOMAIN servers
        PROVE  /\ h[i] \in [DOMAIN left[i] -> at(i)]
               /\ \A n \in DOMAIN left[i] : left[i][n] = servers[i][h[i][n]]
               /\ \A m, n \in DOMAIN left[i] : h[i][m] = h[i][n] => m = n
               /\ \A j \in at(i) : \E n \in DOMAIN left[i] : h[i][n] = j
    <2>1. DOMAIN servers[i] \cap at(i) = at(i) OBVIOUS
    <2>2. In(i, h[i]) BY <1>5
    <2> HIDE DEF left, at, h
    <2> QED BY <2>1, <2>2 DEF TakenFrom
  <1>6. DOMAIN left \cap full = full BY <1>4
  <1> HIDE DEF left, h
  <1>7. r \in Seq(Seq(Any)) /\ \E g : TakenFrom(r, left, full, g)
    <2> HIDE DEF full
    <2> QED BY <1>4, PickPlaces
  <1>8. PICK g0 \in [DOMAIN r -> full] :
             /\ \A n \in DOMAIN r : r[n] = left[g0[n]]
             /\ \A m, n \in DOMAIN r : g0[m] = g0[n] => m = n
             /\ \A i \in full : \E n \in DOMAIN r : g0[n] = i
    <2>1. PICK g : TakenFrom(r, left, full, g) BY <1>7
    <2> HIDE DEF r, full
    <2> QED BY <1>6, <2>1 DEF TakenFrom
  <1>9. full \subseteq DOMAIN servers OBVIOUS
  <1>10. \A i \in DOMAIN servers : DOMAIN left[i] # {} => i \in full
    OBVIOUS
  <1> HIDE DEF r, full
  <1> DEFINE g == [p \in Servers!Places(r) |-> <<g0[p[1]], h[g0[p[1]]][p[2]]>>]
  <1>11. ASSUME NEW p \in Servers!Places(r)
         PROVE  /\ p[1] \in DOMAIN r /\ p = <<p[1], p[2]>>
                /\ g0[p[1]] \in DOMAIN servers /\ p[2] \in DOMAIN left[g0[p[1]]]
                /\ g[p] = <<g0[p[1]], h[g0[p[1]]][p[2]]>>
                /\ h[g0[p[1]]][p[2]] \in at(g0[p[1]])
    <2>1. p[1] \in DOMAIN r /\ p[2] \in DOMAIN r[p[1]] /\ p = <<p[1], p[2]>>
      BY PlacesAre
    <2>2. g0[p[1]] \in DOMAIN servers /\ p[2] \in DOMAIN left[g0[p[1]]]
      BY <1>8, <1>9, <2>1
    <2>4. h[g0[p[1]]][p[2]] \in at(g0[p[1]])
      <3> HIDE DEF at
      <3> QED BY <1>a, <2>2
    <2> QED BY <2>1, <2>2, <2>4
  <1>12. \A p \in Servers!Places(r) : g[p] \in passed
    BY <1>11
  <1>13. ASSUME NEW p \in Servers!Places(r)
         PROVE  Servers!At(r, p) = Servers!At(servers, g[p])
    <2> DEFINE i == g0[p[1]]
    <2>1. r[p[1]] = left[i] BY <1>8, <1>11
    <2>2. left[i][p[2]] = servers[i][h[i][p[2]]]
      <3>1. i \in DOMAIN servers /\ p[2] \in DOMAIN left[i] BY <1>11
      <3> HIDE DEF i, at
      <3> QED BY <1>a, <3>1
    <2>3. g[p][1] = i /\ g[p][2] = h[i][p[2]] BY <1>11
    <2> HIDE DEF i, g
    <2> QED BY <2>1, <2>2, <2>3 DEF Servers!At
  <1>14. ASSUME NEW p \in Servers!Places(r), NEW q \in Servers!Places(r), g[p] = g[q]
         PROVE  p = q
    <2>1. g0[p[1]] = g0[q[1]] /\ h[g0[p[1]]][p[2]] = h[g0[q[1]]][q[2]]
      BY <1>11, <1>14
    <2>2. p[1] = q[1] BY <1>8, <1>11, <2>1
    <2> DEFINE i == g0[p[1]]
    <2>3. p[2] \in DOMAIN left[i] /\ q[2] \in DOMAIN left[i] /\ i \in DOMAIN servers
      BY <1>11, <2>1
    <2>4. h[i][p[2]] = h[i][q[2]] BY <2>1
    <2>5. \A m, n \in DOMAIN left[i] : h[i][m] = h[i][n] => m = n BY <1>a, <2>3
    <2> HIDE DEF i
    <2>6. p[2] = q[2] BY <2>3, <2>4, <2>5
    <2> QED BY <1>11, <2>2, <2>6
  <1>15. ASSUME NEW x \in passed PROVE \E p \in Servers!Places(r) : g[p] = x
    <2>1. /\ x \in Servers!Places(servers) /\ x[1] \in DOMAIN servers
          /\ x[2] \in DOMAIN servers[x[1]] /\ x = <<x[1], x[2]>>
      BY <1>2, PlacesAre
    <2>2. x[2] \in at(x[1]) BY <2>1
    <2>3. PICK n \in DOMAIN left[x[1]] : h[x[1]][n] = x[2]
      <3> HIDE DEF at
      <3> QED BY <1>a, <2>1, <2>2
    <2>4. x[1] \in full BY <1>10, <2>1, <2>3
    <2>5. PICK m \in DOMAIN r : g0[m] = x[1] BY <1>8, <2>4
    <2>6. r[m] = left[x[1]] BY <1>8, <2>5
    <2>7. <<m, n>> \in Servers!Places(r) BY <2>3, <2>6, PlacesAre
    <2>8. g[<<m, n>>] = <<x[1], x[2]>> BY <2>3, <2>5, <2>7
    <2> HIDE DEF g
    <2> QED BY <2>1, <2>7, <2>8
  <1>16. g \in [Servers!Places(r) -> passed]
    BY <1>12
  <1>17. \E f \in [Servers!Places(r) -> passed] :
           /\ \A p \in Servers!Places(r) : Servers!At(r, p) = Servers!At(servers, f[p])
           /\ \A p, q \in Servers!Places(r) : f[p] = f[q] => p = q
           /\ \A x \in passed : \E p \in Servers!Places(r) : f[p] = x
    <2> HIDE DEF g
    <2> QED BY <1>13, <1>14, <1>15, <1>16
  <1>18. r \in Seq(Seq(Any)) BY <1>7 DEF r
  <1> HIDE DEF g
  <1> QED BY <1>1, <1>17, <1>18 DEF passed

-----------------------------------------------------------------------------
(* One place is first, and there is one when there is any.                    *)
LEMMA FirstOnly ==
  ASSUME NEW Any, NEW servers \in Seq(Seq(Any)), NEW turn,
         NEW p \in Servers!FirstTurn(servers, turn), NEW q \in Servers!FirstTurn(servers, turn)
  PROVE  p = q
  <1>1. p \in Servers!Places(servers) /\ q \in Servers!Places(servers)
    BY DEF Servers!FirstTurn
  <1>2. ~ Servers!Before(p, q) /\ ~ Servers!Before(q, p)
    BY <1>1 DEF Servers!FirstTurn
  <1>3. /\ p[1] \in Int /\ q[1] \in Int /\ p[2] \in Int /\ q[2] \in Int
        /\ p = <<p[1], p[2]>> /\ q = <<q[1], q[2]>>
    <2>1. /\ p[1] \in DOMAIN servers /\ p[2] \in DOMAIN servers[p[1]] /\ p = <<p[1], p[2]>>
          /\ q[1] \in DOMAIN servers /\ q[2] \in DOMAIN servers[q[1]] /\ q = <<q[1], q[2]>>
      BY <1>1, PlacesAre
    <2>2. \A i \in DOMAIN servers : i \in Int /\ \A j \in DOMAIN servers[i] : j \in Int
      OBVIOUS
    <2> QED BY <2>1, <2>2
  <1>4. p[1] = q[1] /\ p[2] = q[2]
    BY <1>2, <1>3 DEF Servers!Before
  <1> QED BY <1>3, <1>4

LEMMA FirstExists ==
  ASSUME NEW Any, NEW servers \in Seq(Seq(Any)), NEW turn,
         NEW p \in Servers!Places(servers), Servers!At(servers, p) \in turn
  PROVE  Servers!FirstTurn(servers, turn) # {}
  <1> DEFINE In(i, j) == /\ i \in DOMAIN servers /\ j \in DOMAIN servers[i]
                         /\ servers[i][j] \in turn
             Is == {i \in Nat : \E j : In(i, j)}
  <1>0. \A i \in DOMAIN servers : i \in Nat /\ \A j \in DOMAIN servers[i] : j \in Nat
    OBVIOUS
  <1>1. p[1] \in Is
    BY <1>0, PlacesAre DEF Servers!At
  <1>2. PICK i \in Is : \A m \in Is : i <= m
    <2>1. Is \in SUBSET Nat OBVIOUS
    <2> HIDE DEF Is
    <2> QED BY <1>1, <2>1, LeastNumber
  <1> DEFINE Js == {j \in Nat : In(i, j)}
  <1>3. PICK j \in Js : \A m \in Js : j <= m
    <2>1. Js \in SUBSET Nat /\ Js # {} BY <1>0, <1>2
    <2> HIDE DEF Js
    <2> QED BY <2>1, LeastNumber
  <1>4. In(i, j) BY <1>3
  <1>5. <<i, j>> \in Servers!Places(servers) /\ Servers!At(servers, <<i, j>>) \in turn
    BY <1>4, PlacesAre DEF Servers!At
  <1>6. ASSUME NEW q \in Servers!Places(servers), Servers!Before(q, <<i, j>>)
        PROVE  Servers!At(servers, q) \notin turn
    <2> SUFFICES ASSUME Servers!At(servers, q) \in turn PROVE FALSE
      OBVIOUS
    <2>1. In(q[1], q[2]) BY PlacesAre DEF Servers!At
    <2>2. q[1] \in Nat /\ q[2] \in Nat /\ i \in Nat /\ j \in Nat BY <1>0, <1>4, <2>1
    <2>3. q[1] < i \/ (q[1] = i /\ q[2] < j) BY <1>6 DEF Servers!Before
    <2>4. q[1] \in Is BY <2>1, <2>2
    <2>5. q[1] = i /\ q[2] < j
      <3> HIDE DEF Is
      <3> QED BY <1>2, <2>2, <2>3, <2>4
    <2>6. q[2] \in Js BY <2>1, <2>2, <2>5
    <2> HIDE DEF Js
    <2> QED BY <1>3, <2>2, <2>5, <2>6
  <1> QED BY <1>5, <1>6 DEF Servers!FirstTurn

(* After the shim's filter one url at most is left: the first its test takes  *)
(* for a TURN server of those the page asked for.                             *)
EdgeTurns == {u \in Servers!Url : Servers!EdgeTurn(u)}
OrtcTurns == {u \in Servers!Url : Servers!OrtcTurn(u)}
OrtcStuns == {u \in Servers!Url : Servers!OrtcStun(u)}

Filtered(servers) ==
  /\ servers \in Seq(Seq(Servers!Url))
  /\ \A p, q \in Servers!Places(servers) : p = q
  /\ \A p \in Servers!Places(servers) :
       \E x \in Servers!FirstTurn(asked, EdgeTurns) : Servers!At(servers, p) = Servers!At(asked, x)
  /\ Servers!FirstTurn(asked, EdgeTurns) # {} => Servers!Places(servers) # {}

ServersInv ==
  /\ asked \in Seq(Seq(Servers!Url))
  /\ \/ call = "idle" /\ config = asked
     \/ call \in {"filtered", "refused"} /\ Filtered(config)
     \/ call = "open" /\ Filtered(config) /\ used = Servers!FilterOrtc(config)

LEMMA BoundedIsSeq ==
  ASSUME NEW S, NEW n
  PROVE  Servers!BoundedSeq(S, n) \subseteq Seq(S)
  <1> SUFFICES ASSUME NEW m \in 0 .. n, NEW s \in [1 .. m -> S] PROVE s \in Seq(S)
    BY DEF Servers!BoundedSeq, Servers!SeqOf
  <1>1. m \in Nat OBVIOUS
  <1> QED BY <1>1

LEMMA ServersStart == Servers!Init => ServersInv
  <1> SUFFICES ASSUME Servers!Init PROVE ServersInv OBVIOUS
  <1>1. asked \in Seq(Servers!Server)
    BY BoundedIsSeq DEF Servers!Init
  <1>2. Servers!Server \subseteq Seq(Servers!Url)
    BY BoundedIsSeq DEF Servers!Server
  <1>3. asked \in Seq(Seq(Servers!Url))
    <2> DEFINE A == Servers!Server  B == Seq(Servers!Url)
    <2> HIDE DEF A, B
    <2>1. asked \in Seq(A) /\ A \subseteq B BY <1>1, <1>2 DEF A, B
    <2>2. asked \in Seq(B) BY <2>1
    <2> QED BY <2>2 DEF B
  <1> QED BY <1>3 DEF Servers!Init, ServersInv

(* The shim's filter, of what the page asked for and of what it left itself.  *)
LEMMA EdgeFilters ==
  ASSUME asked \in Seq(Seq(Servers!Url)), config = asked \/ Filtered(config)
  PROVE  Filtered(Servers!FilterEdge(config))
  <1> DEFINE r == Servers!FilterEdge(config)
             first == Servers!FirstTurn(config, EdgeTurns)
  <1>1. r = Servers!Kept(config, EdgeTurns, {}) /\ Passed(config, EdgeTurns, {}) = first
    BY DEF Servers!FilterEdge, EdgeTurns, Passed
  <1>2. config \in Seq(Seq(Servers!Url))
    BY DEF Filtered
  <1>3. /\ r \in Seq(Seq(Servers!Url))
        /\ \E g \in [Servers!Places(r) -> first] :
             /\ \A p \in Servers!Places(r) : Servers!At(r, p) = Servers!At(config, g[p])
             /\ \A p, q \in Servers!Places(r) : g[p] = g[q] => p = q
             /\ \A x \in first : \E p \in Servers!Places(r) : g[p] = x
    <2> HIDE DEF r, first
    <2> QED BY <1>1, <1>2, KeptPlaces
  <1>4. PICK g \in [Servers!Places(r) -> first] :
             /\ \A p \in Servers!Places(r) : Servers!At(r, p) = Servers!At(config, g[p])
             /\ \A p, q \in Servers!Places(r) : g[p] = g[q] => p = q
             /\ \A x \in first : \E p \in Servers!Places(r) : g[p] = x
    BY <1>3
  <1> HIDE DEF r
  <1>5. \A p, q \in Servers!Places(r) : p = q
    <2>1. \A x, y \in first : x = y BY <1>2, FirstOnly
    <2> HIDE DEF first
    <2> QED BY <1>4, <2>1
  <1>6. \A p \in Servers!Places(r) :
          \E x \in Servers!FirstTurn(asked, EdgeTurns) : Servers!At(r, p) = Servers!At(asked, x)
    <2>1. \A y \in first : \E x \in Servers!FirstTurn(asked, EdgeTurns) :
            Servers!At(config, y) = Servers!At(asked, x)
      BY DEF Filtered, Servers!FirstTurn
    <2> HIDE DEF first
    <2> QED BY <1>4, <2>1
  <1>7. Servers!FirstTurn(asked, EdgeTurns) # {} => Servers!Places(r) # {}
    <2> SUFFICES ASSUME Servers!FirstTurn(asked, EdgeTurns) # {} PROVE first # {}
      BY <1>4
    <2>1. CASE config = asked BY <2>1
    <2>2. CASE Filtered(config)
      <3>1. PICK p \in Servers!Places(config) : TRUE BY <2>2 DEF Filtered
      <3>2. Servers!At(config, p) \in EdgeTurns BY <2>2 DEF Filtered, Servers!FirstTurn
      <3> QED BY <1>2, <3>1, <3>2, FirstExists
    <2> QED BY <2>1, <2>2
  <1>8. Filtered(r) BY <1>3, <1>5, <1>6, <1>7 DEF Filtered
  <1> QED BY <1>8 DEF r

LEMMA ServersStep == ServersInv /\ [Servers!Next]_serverVars => ServersInv'
  <1> SUFFICES ASSUME ServersInv, [Servers!Next]_serverVars PROVE ServersInv' OBVIOUS
  <1>1. CASE Servers!Construct
    <2>1. config' = Servers!FilterEdge(config) /\ asked' = asked /\ call' = "filtered"
      BY <1>1 DEF Servers!Construct
    <2>2. Filtered(Servers!FilterEdge(config))
      BY EdgeFilters DEF ServersInv
    <2>3. Filtered(config)'
      BY <2>1, <2>2 DEF Filtered, EdgeTurns, Servers!EdgeTurn
    <2> QED BY <2>1, <2>3 DEF ServersInv
  <1>2. CASE Servers!Refuse
    BY <1>2 DEF Servers!Refuse, ServersInv, Filtered, EdgeTurns
  <1>3. CASE Servers!Configure
    <2>1. /\ config' = config /\ asked' = asked /\ edgeVersion' = edgeVersion
          /\ call' = "open" /\ used' = Servers!FilterOrtc(config)
      BY <1>3 DEF Servers!Configure
    <2>2. (used = Servers!FilterOrtc(config))'
      BY <2>1 DEF Servers!FilterOrtc, Servers!OrtcStun
    <2>3. Filtered(config)' 
      BY <1>3, <2>1 DEF Servers!Configure, ServersInv, Filtered, EdgeTurns
    <2> QED BY <2>1, <2>2, <2>3 DEF ServersInv
  <1>4. CASE UNCHANGED serverVars
    <2>1. /\ asked' = asked /\ config' = config /\ call' = call /\ used' = used
          /\ edgeVersion' = edgeVersion
      BY <1>4 DEF serverVars
    <2>2. Filtered(config) => Filtered(config)' BY <2>1 DEF Filtered, EdgeTurns
    <2>3. Servers!FilterOrtc(config)' = Servers!FilterOrtc(config)
      BY <2>1 DEF Servers!FilterOrtc, Servers!OrtcStun
    <2> QED BY <2>1, <2>2, <2>3 DEF ServersInv
  <1> QED BY <1>1, <1>2, <1>3, <1>4 DEF Servers!Next

LEMMA ServersTurnKept == ServersInv => Servers!TurnKept
  <1> SUFFICES ASSUME ServersInv, call = "open"
               PROVE  Servers!AtMostOneTurn /\ Servers!TurnSurvives
    BY DEF Servers!TurnKept, Servers!AtMostOneTurn, Servers!TurnSurvives
  <1> DEFINE passed == Passed(config, OrtcTurns, OrtcStuns)
  <1>1. Filtered(config) /\ used = Servers!Kept(config, OrtcTurns, OrtcStuns)
    BY DEF ServersInv, Servers!FilterOrtc, OrtcTurns, OrtcStuns
  <1>2. /\ used \in Seq(Seq(Servers!Url))
        /\ \E g \in [Servers!Places(used) -> passed] :
             /\ \A p \in Servers!Places(used) : Servers!At(used, p) = Servers!At(config, g[p])
             /\ \A p, q \in Servers!Places(used) : g[p] = g[q] => p = q
             /\ \A x \in passed : \E p \in Servers!Places(used) : g[p] = x
    <2>1. config \in Seq(Seq(Servers!Url)) BY <1>1 DEF Filtered
    <2> HIDE DEF passed
    <2> QED BY <1>1, <2>1, KeptPlaces DEF passed
  <1>3. PICK g \in [Servers!Places(used) -> passed] :
             /\ \A p \in Servers!Places(used) : Servers!At(used, p) = Servers!At(config, g[p])
             /\ \A p, q \in Servers!Places(used) : g[p] = g[q] => p = q
             /\ \A x \in passed : \E p \in Servers!Places(used) : g[p] = x
    BY <1>2
  <1>4. passed \subseteq Servers!Places(config)
    BY DEF Passed, Servers!FirstTurn
  <1>5. \A p, q \in Servers!Places(config) : p = q
    BY <1>1 DEF Filtered
  <1>6. \A p, q \in Servers!Places(used) : p = q
    <2> HIDE DEF passed
    <2> QED BY <1>3, <1>4, <1>5
  <1>7. Servers!AtMostOneTurn
    BY <1>6 DEF Servers!AtMostOneTurn
  <1>8. ASSUME NEW p \in Servers!Places(asked), Servers!OrtcTurn(Servers!At(asked, p)),
               ~ \E x \in Servers!Places(asked) :
                   /\ Servers!At(asked, x).scheme = "turns" /\ Servers!At(asked, x).udp
                   /\ \A q \in Servers!Places(asked) :
                        Servers!Before(q, x) => ~ Servers!OrtcTurn(Servers!At(asked, q))
        PROVE  \E q \in Servers!Places(used) : Servers!OrtcTurn(Servers!At(used, q))
    <2>1. asked \in Seq(Seq(Servers!Url)) BY DEF ServersInv
    <2>2. \A x \in Servers!Places(asked) : Servers!At(asked, x) \in Servers!Url
      <3>1. \A x \in Servers!Places(asked) : x[1] \in DOMAIN asked /\ x[2] \in DOMAIN asked[x[1]]
        BY PlacesAre
      <3>2. \A i \in DOMAIN asked : \A j \in DOMAIN asked[i] : asked[i][j] \in Servers!Url
        <4> DEFINE Z == Servers!Url
        <4> HIDE DEF Z
        <4>1. asked \in Seq(Seq(Z)) BY <2>1 DEF Z
        <4>2. \A i \in DOMAIN asked : \A j \in DOMAIN asked[i] : asked[i][j] \in Z BY <4>1
        <4> QED BY <4>2 DEF Z
      <3> QED BY <3>1, <3>2 DEF Servers!At
    <2>3. \A u : Servers!OrtcTurn(u) => Servers!EdgeTurn(u)
      BY DEF Servers!OrtcTurn, Servers!EdgeTurn
    <2>4. Servers!At(asked, p) \in EdgeTurns
      BY <1>8, <2>2, <2>3 DEF EdgeTurns
    <2>5. Servers!FirstTurn(asked, EdgeTurns) # {}
      BY <2>1, <2>4, FirstExists
    <2>6. PICK y \in Servers!Places(config) : TRUE
      BY <1>1, <2>5 DEF Filtered
    <2>7. PICK x \in Servers!FirstTurn(asked, EdgeTurns) :
            Servers!At(config, y) = Servers!At(asked, x)
      BY <1>1, <2>6 DEF Filtered
    <2> DEFINE u == Servers!At(asked, x)
    <2>8. x \in Servers!Places(asked) /\ u \in Servers!Url /\ Servers!EdgeTurn(u)
      BY <2>2, <2>7 DEF Servers!FirstTurn, EdgeTurns
    <2>9. Servers!OrtcTurn(u)
      <3> SUFFICES ASSUME ~ Servers!OrtcTurn(u) PROVE FALSE OBVIOUS
      <3>1. u.scheme = "turns" /\ u.udp
        BY <2>8 DEF Servers!OrtcTurn, Servers!EdgeTurn
      <3>2. ASSUME NEW q \in Servers!Places(asked), Servers!Before(q, x),
                   Servers!OrtcTurn(Servers!At(asked, q))
            PROVE  FALSE
        <4>1. Servers!At(asked, q) \in EdgeTurns BY <2>2, <2>3, <3>2 DEF EdgeTurns
        <4> QED BY <2>7, <3>2, <4>1 DEF Servers!FirstTurn
      <3> QED BY <1>8, <2>8, <3>1, <3>2
    <2>10. Servers!At(config, y) \in OrtcTurns
      BY <2>7, <2>8, <2>9 DEF OrtcTurns
    <2>11. config \in Seq(Seq(Servers!Url)) BY <1>1 DEF Filtered
    <2>12. Servers!FirstTurn(config, OrtcTurns) # {}
      BY <2>10, <2>11, FirstExists
    <2>13. PICK z \in Servers!FirstTurn(config, OrtcTurns) : TRUE BY <2>12
    <2>14. z \in passed /\ Servers!At(config, z) \in OrtcTurns
      BY <2>13 DEF Passed, Servers!FirstTurn
    <2> HIDE DEF passed
    <2>15. PICK q \in Servers!Places(used) : g[q] = z BY <1>3, <2>14
    <2>16. Servers!At(used, q) \in OrtcTurns BY <1>3, <2>14, <2>15
    <2> QED BY <2>16 DEF OrtcTurns
  <1>9. Servers!TurnSurvives
    BY <1>8 DEF Servers!TurnSurvives
  <1> QED BY <1>7, <1>9

(* Whatever the page lists, and however often it constructs: one TURN server  *)
(* at most, and the one that can be used, gets to the gatherers               *)
(* (filterIceServers, of the shim and of the polyfill).                       *)
THEOREM OneTurnUsed == MCSpec => []TurnKept
  <1> DEFINE Inv == part = "servers" => ServersInv
  <1>1. MCInit => Inv
    BY ServersStart DEF MCInit
  <1>2. Inv /\ [MCNext]_<<part, textVars, codecVars, localVars, idVars, serverVars>> => Inv'
    <2> SUFFICES ASSUME Inv, [MCNext]_<<part, textVars, codecVars, localVars, idVars, serverVars>>,
                        part' = "servers"
                 PROVE  ServersInv'
      OBVIOUS
    <2>1. part = "servers" /\ [Servers!Next]_serverVars
      BY DEF MCNext
    <2> QED BY <2>1, ServersStep
  <1>3. Inv => TurnKept
    BY ServersTurnKept DEF TurnKept
  <1> HIDE DEF Inv
  <1> QED BY <1>1, <1>2, <1>3, PTL DEF MCSpec
-----------------------------------------------------------------------------
(* The text of descriptions: Sdp, as SdpLines runs it.                        *)

(* The lines of two parts of a description, one behind the other.             *)
LEMMA LinesConcat ==
  ASSUME NEW S, NEW a \in Seq(S), NEW b \in Seq(S), NEW A
  PROVE  Text!LinesOf(a \o b, A) = Text!LinesOf(a, A) \o Text!LinesOf(b, A)
  <1> DEFINE c == a \o b
             In(s) == {i \in DOMAIN s : s[i][1] \in A}
             k == Len(a)
             m == Len(b)
  <1>1. /\ c \in Seq(S) /\ Len(c) = k + m /\ k \in Nat /\ m \in Nat
        /\ \A i \in 1 .. k : c[i] = a[i]
        /\ \A i \in 1 .. m : c[k + i] = b[i] /\ b[i] \in S
    OBVIOUS
  <1>2. \A s \in Seq(S) : Text!LinesOf(s, A) = Pick(s, In(s))
    BY SamePick DEF Text!LinesOf
  <1>3. /\ \A i \in 1 .. k : i \in In(c) <=> i \in In(a)
        /\ \A i \in 1 .. m : k + i \in In(c) <=> i \in In(b)
    <2> HIDE DEF c
    <2> QED BY <1>1
  <1> HIDE DEF c, In
  <1>4. PICK f : /\ Pick(a, In(a)) = f[k] /\ f[0] = <<>>
                 /\ \A n \in 1 .. k : f[n] = IF n \in In(a) THEN Append(f[n - 1], a[n]) ELSE f[n - 1]
    BY PickUnfolds DEF Unfolds
  <1>5. PICK g : /\ Pick(b, In(b)) = g[m] /\ g[0] = <<>>
                 /\ \A n \in 1 .. m : g[n] = IF n \in In(b) THEN Append(g[n - 1], b[n]) ELSE g[n - 1]
    BY PickUnfolds DEF Unfolds
  <1>6. PICK h : /\ Pick(c, In(c)) = h[k + m] /\ h[0] = <<>>
                 /\ \A n \in 1 .. k + m : h[n] = IF n \in In(c) THEN Append(h[n - 1], c[n]) ELSE h[n - 1]
    <2>1. PICK h : Unfolds(c, In(c), h) BY <1>1, PickUnfolds
    <2> QED BY <1>1, <2>1 DEF Unfolds
  <1> HIDE DEF k, m
  <1>7. \A n \in 0 .. k : h[n] = f[n]
    <2> DEFINE Bad == {n \in 0 .. k : h[n] # f[n]}
    <2> SUFFICES ASSUME Bad # {} PROVE FALSE OBVIOUS
    <2>1. PICK n \in Bad : \A i \in Bad : n <= i
      <3>1. Bad \in SUBSET Nat BY <1>1
      <3> HIDE DEF Bad
      <3> QED BY <3>1, LeastNumber
    <2>2. n \in 0 .. k /\ h[n] # f[n] /\ n # 0 BY <1>4, <1>6
    <2>3. n - 1 \in 0 .. k /\ ~ (n <= n - 1) /\ n \in 1 .. k /\ n \in 1 .. k + m BY <1>1, <2>2
    <2>4. h[n - 1] = f[n - 1] BY <2>1, <2>3
    <2>5. c[n] = a[n] /\ (n \in In(c) <=> n \in In(a)) BY <1>1, <1>3, <2>3
    <2>6. h[n] = f[n] BY <1>4, <1>6, <2>3, <2>4, <2>5
    <2> QED BY <2>2, <2>6
  <1>8. f[k] \in Seq(S)
    <2>1. f[k] = Pick(a, In(a)) BY <1>4
    <2> QED BY <2>1, PickPlaces
  <1>9. \A n \in 0 .. m : g[n] \in Seq(S) /\ h[k + n] = f[k] \o g[n]
    <2> DEFINE Good(n) == g[n] \in Seq(S) /\ h[k + n] = f[k] \o g[n]
               Bad == {n \in 0 .. m : ~ Good(n)}
    <2> SUFFICES ASSUME Bad # {} PROVE FALSE OBVIOUS
    <2>1. PICK n \in Bad : \A i \in Bad : n <= i
      <3> HIDE DEF Good
      <3>1. Bad \in SUBSET Nat BY <1>1
      <3> HIDE DEF Bad
      <3> QED BY <3>1, LeastNumber
    <2>2. Good(0)
      <3>1. h[k] = f[k] BY <1>1, <1>7
      <3>2. f[k] \o <<>> = f[k] /\ <<>> \in Seq(S) BY <1>8, ConcatEmptySeq
      <3>3. g[0] = <<>> /\ k + 0 = k BY <1>1, <1>5
      <3> QED BY <3>1, <3>2, <3>3
    <2>3. n \in 0 .. m /\ ~ Good(n) /\ n # 0
      <3> HIDE DEF Good
      <3> QED BY <2>2
    <2>4. n - 1 \in 0 .. m /\ ~ (n <= n - 1) /\ n \in 1 .. m /\ k + n \in 1 .. k + m
          /\ k + n - 1 = k + (n - 1)
      BY <1>1, <2>3
    <2>5. Good(n - 1)
      <3> HIDE DEF Good
      <3> QED BY <2>1, <2>4
    <2>6. c[k + n] = b[n] /\ b[n] \in S /\ (k + n \in In(c) <=> n \in In(b)) BY <1>1, <1>3, <2>4
    <2> DEFINE x == f[k]  y == g[n - 1]
    <2>7. g[n] = IF n \in In(b) THEN Append(y, b[n]) ELSE y BY <1>5, <2>4
    <2>8. h[k + n] = IF n \in In(b) THEN Append(h[k + n - 1], b[n]) ELSE h[k + n - 1]
      <3> DEFINE j == k + n
      <3>1. j \in 1 .. k + m /\ (j \in In(c) <=> n \in In(b)) /\ c[j] = b[n] BY <2>4, <2>6
      <3> HIDE DEF j
      <3>2. h[j] = IF n \in In(b) THEN Append(h[j - 1], b[n]) ELSE h[j - 1] BY <1>6, <3>1
      <3>3. h[j - 1] = h[k + n - 1] BY <1>1, <2>4 DEF j
      <3>4. h[j] = h[k + n] BY DEF j
      <3> QED BY <3>2, <3>3, <3>4
    <2>9. h[k + n - 1] = x \o y /\ x \in Seq(S) /\ y \in Seq(S) BY <1>8, <2>4, <2>5
    <2> HIDE DEF x, y
    <2> DEFINE e == b[n]
    <2>a. e \in S BY <2>6
    <2> HIDE DEF e
    <2>10. Append(x \o y, e) = x \o Append(y, e) /\ Append(y, e) \in Seq(S)
      <3>1. x \in Seq(S) /\ y \in Seq(S) BY <2>9
      <3>2. Append(y, e) \in Seq(S) BY <3>1, <2>a
      <3> HIDE DEF Good, Bad
      <3>3. Append(x \o y, e) = x \o Append(y, e)
        <4>1. x \o y \in Seq(S) /\ <<e>> \in Seq(S) BY <2>a, <3>1
        <4>2. Append(x \o y, e) = (x \o y) \o <<e>> BY <2>a, <4>1, AppendIsConcat
        <4>3. Append(y, e) = y \o <<e>> BY <2>a, <3>1, AppendIsConcat
        <4>4. (x \o y) \o <<e>> = x \o (y \o <<e>>) BY <3>1, <4>1, ConcatAssociative
        <4> QED BY <4>2, <4>3, <4>4
      <3> QED BY <3>2, <3>3
    <2>11. g[n] \in Seq(S) /\ h[k + n] = x \o g[n] BY <2>7, <2>8, <2>9, <2>10 DEF e
    <2> QED BY <2>3, <2>11 DEF x
  <1>10. h[k + m] = f[k] \o g[m]
    <2>1. m \in 0 .. m BY <1>1
    <2> QED BY <1>9, <2>1
  <1> QED BY <1>1, <1>2, <1>4, <1>5, <1>6, <1>10 DEF c

LEMMA LinesSmall ==
  ASSUME NEW A
  PROVE  /\ Text!LinesOf(<<>>, A) = <<>>
         /\ \A l : Text!LinesOf(<<l>>, A) = IF l[1] \in A THEN <<l>> ELSE <<>>
  <1> DEFINE In(s) == {i \in DOMAIN s : s[i][1] \in A}
  <1>1. \A s : Text!LinesOf(s, A) = Pick(s, In(s))
    BY SamePick DEF Text!LinesOf
  <1>2. Pick(<<>>, In(<<>>)) = <<>>
    <2>1. <<>> \in Seq({}) /\ Len(<<>>) = 0 OBVIOUS
    <2> DEFINE s == <<>>
    <2> HIDE DEF In, s
    <2>2. PICK f : Unfolds(s, In(s), f) BY <2>1, PickUnfolds DEF s
    <2>3. Pick(s, In(s)) = f[Len(s)] /\ f[0] = <<>> BY <2>2 DEF Unfolds
    <2> QED BY <2>1, <2>3 DEF s
  <1>3. ASSUME NEW l PROVE Pick(<<l>>, In(<<l>>)) = IF l[1] \in A THEN <<l>> ELSE <<>>
    <2> DEFINE s == <<l>>
    <2>1. s \in Seq({l}) /\ Len(s) = 1 /\ s[1] = l OBVIOUS
    <2>2. 1 \in In(s) <=> l[1] \in A BY <2>1
    <2> HIDE DEF s, In
    <2>3. PICK f : Unfolds(s, In(s), f) BY <2>1, PickUnfolds
    <2>4. Pick(s, In(s)) = f[1] /\ f[1] = IF l[1] \in A THEN Append(<<>>, l) ELSE <<>>
      <3>1. 1 \in 1 .. Len(s) BY <2>1
      <3>2. f[1] = IF 1 \in In(s) THEN Append(f[1 - 1], s[1]) ELSE f[1 - 1] BY <2>3, <3>1 DEF Unfolds
      <3>3. f[1 - 1] = <<>> /\ Pick(s, In(s)) = f[1] BY <2>1, <2>3 DEF Unfolds
      <3> QED BY <2>1, <2>2, <3>2, <3>3
    <2>5. Append(<<>>, l) = <<l>> OBVIOUS
    <2> QED BY <2>4, <2>5 DEF s
  <1> HIDE DEF In
  <1> QED BY <1>1, <1>2, <1>3

(* Pairs of keys and values, the last of a key being the one that is read:    *)
(* v is what key stands for in pairs, d if it does not occur.                 *)
Reads(pairs, key, d, v) ==
  LET At(j) == j \in DOMAIN pairs /\ j % 2 = 1 /\ pairs[j] = key
  IN \/ (\A j \in DOMAIN pairs : ~ At(j)) /\ v = d
     \/ \E j \in DOMAIN pairs : /\ At(j) /\ v = pairs[j + 1]
                                /\ \A i \in DOMAIN pairs : At(i) => i <= j

LEMMA ConcatPlaces ==
  ASSUME NEW S, NEW a \in Seq(S), NEW b \in Seq(S)
  PROVE  /\ a \o b \in Seq(S) /\ Len(a \o b) = Len(a) + Len(b)
         /\ Len(a) \in Nat /\ Len(b) \in Nat /\ DOMAIN a = 1 .. Len(a) /\ DOMAIN b = 1 .. Len(b)
         /\ DOMAIN (a \o b) = 1 .. Len(a) + Len(b)
         /\ \A i \in 1 .. Len(a) : (a \o b)[i] = a[i]
         /\ \A i \in 1 .. Len(b) : (a \o b)[Len(a) + i] = b[i]
  OBVIOUS

LEMMA Parity ==
  /\ \A a, i \in Nat : a % 2 = 0 => (a + i) % 2 = i % 2
  /\ \A j \in Nat : (9 + j) % 2 = 0 <=> j % 2 = 1
  /\ \A m, j \in Nat : m % 2 = 0 /\ j % 2 = 1 /\ j <= m => j + 1 <= m
  <1>1. \A a, i \in Nat : a % 2 = 0 => (a + i) % 2 = i % 2 OBVIOUS
  <1>2. \A j \in Nat : (9 + j) % 2 = 0 <=> j % 2 = 1 OBVIOUS
  <1>3. \A m, j \in Nat : m % 2 = 0 /\ j % 2 = 1 /\ j <= m => j + 1 <= m OBVIOUS
  <1> QED BY <1>1, <1>2, <1>3

LEMMA ReadsFew ==
  ASSUME NEW key, NEW d
  PROVE  /\ Reads(<<>>, key, d, d)
         /\ \A k, v : Reads(<<k, v>>, key, d, IF k = key THEN v ELSE d)
         /\ \A k1, v1, k2, v2 :
              Reads(<<k1, v1, k2, v2>>, key, d, IF k2 = key THEN v2 ELSE IF k1 = key THEN v1 ELSE d)
  <1>1. Reads(<<>>, key, d, d) BY DEF Reads
  <1>2. ASSUME NEW k, NEW v PROVE Reads(<<k, v>>, key, d, IF k = key THEN v ELSE d)
    <2> DEFINE p == <<k, v>>
    <2>1. DOMAIN p = {1, 2} /\ p[1] = k /\ p[2] = v /\ 1 % 2 = 1 /\ 2 % 2 = 0 /\ 1 + 1 = 2
      OBVIOUS
    <2> HIDE DEF p
    <2>2. Reads(p, key, d, IF k = key THEN v ELSE d) BY <2>1 DEF Reads
    <2> QED BY <2>2 DEF p
  <1>3. ASSUME NEW k1, NEW v1, NEW k2, NEW v2
        PROVE  Reads(<<k1, v1, k2, v2>>, key, d, IF k2 = key THEN v2 ELSE IF k1 = key THEN v1 ELSE d)
    <2> DEFINE p == <<k1, v1, k2, v2>>
    <2>1. /\ DOMAIN p = {1, 2, 3, 4} /\ p[1] = k1 /\ p[2] = v1 /\ p[3] = k2 /\ p[4] = v2
          /\ 1 % 2 = 1 /\ 2 % 2 = 0 /\ 3 % 2 = 1 /\ 4 % 2 = 0 /\ 1 + 1 = 2 /\ 3 + 1 = 4
          /\ 1 <= 3 /\ 1 <= 1 /\ 3 <= 3
      OBVIOUS
    <2> HIDE DEF p
    <2>2. CASE k2 = key BY <2>1, <2>2 DEF Reads
    <2>3. CASE k2 # key /\ k1 = key BY <2>1, <2>3 DEF Reads
    <2>4. CASE k2 # key /\ k1 # key BY <2>1, <2>4 DEF Reads
    <2> QED BY <2>2, <2>3, <2>4 DEF p
  <1> QED BY <1>1, <1>2, <1>3

(* Lists of keys and values in turn.                                          *)
Pairs(S) == {s \in Seq(S) : Len(s) % 2 = 0}

LEMMA PairsFew ==
  ASSUME NEW S
  PROVE  /\ <<>> \in Pairs(S)
         /\ \A k, v \in S : <<k, v>> \in Pairs(S)
         /\ \A k1, v1, k2, v2 \in S : <<k1, v1, k2, v2>> \in Pairs(S)
  <1>1. 0 % 2 = 0 /\ 2 % 2 = 0 /\ 4 % 2 = 0 OBVIOUS
  <1>2. /\ <<>> \in Seq(S) /\ Len(<<>>) = 0
        /\ \A k, v \in S : <<k, v>> \in Seq(S) /\ Len(<<k, v>>) = 2
        /\ \A k1, v1, k2, v2 \in S :
             <<k1, v1, k2, v2>> \in Seq(S) /\ Len(<<k1, v1, k2, v2>>) = 4
    OBVIOUS
  <1>3. <<>> \in Pairs(S) BY <1>1, <1>2 DEF Pairs
  <1>4. ASSUME NEW k \in S, NEW v \in S PROVE <<k, v>> \in Pairs(S)
    <2> DEFINE s == <<k, v>>
    <2>1. s \in Seq(S) /\ Len(s) = 2 BY <1>2
    <2> HIDE DEF s
    <2>2. s \in Pairs(S) BY <1>1, <2>1 DEF Pairs
    <2> QED BY <2>2 DEF s
  <1>5. ASSUME NEW k1 \in S, NEW v1 \in S, NEW k2 \in S, NEW v2 \in S
        PROVE  <<k1, v1, k2, v2>> \in Pairs(S)
    <2> DEFINE s == <<k1, v1, k2, v2>>
    <2>1. s \in Seq(S) /\ Len(s) = 4 BY <1>2
    <2> HIDE DEF s
    <2>2. s \in Pairs(S) BY <1>1, <2>1 DEF Pairs
    <2> QED BY <2>2 DEF s
  <1> QED BY <1>3, <1>4, <1>5

LEMMA PairsConcat ==
  ASSUME NEW S, NEW a \in Pairs(S), NEW b \in Pairs(S)
  PROVE  a \o b \in Pairs(S)
  <1>1. /\ a \in Seq(S) /\ b \in Seq(S) /\ Len(a) % 2 = 0 /\ Len(b) % 2 = 0
        /\ Len(a) \in Nat /\ Len(b) \in Nat
    BY DEF Pairs
  <1> DEFINE c == a \o b
  <1>2. c \in Seq(S) /\ Len(c) = Len(a) + Len(b) BY <1>1
  <1>3. (Len(a) + Len(b)) % 2 = Len(b) % 2 BY <1>1, Parity
  <1> HIDE DEF c
  <1>4. c \in Pairs(S) BY <1>1, <1>2, <1>3 DEF Pairs
  <1> QED BY <1>4 DEF c

LEMMA ReadsConcat ==
  ASSUME NEW S, NEW a \in Pairs(S), NEW b \in Pairs(S),
         NEW key, NEW d, NEW x, NEW v, Reads(a, key, d, x), Reads(b, key, x, v)
  PROVE  Reads(a \o b, key, d, v)
  <1> DEFINE c == a \o b  k == Len(a)  m == Len(b)
  <1>1. /\ c \in Seq(S) /\ Len(c) = k + m /\ k \in Nat /\ m \in Nat
        /\ DOMAIN c = 1 .. k + m /\ DOMAIN a = 1 .. k /\ DOMAIN b = 1 .. m
        /\ \A i \in 1 .. k : c[i] = a[i]
        /\ \A i \in 1 .. m : c[k + i] = b[i]
    BY DEF Pairs
  <1>a. k % 2 = 0 /\ m % 2 = 0 BY DEF Pairs
  <1>3. \A i \in 1 .. m : (k + i) % 2 = i % 2
    <2> HIDE DEF k, m
    <2> SUFFICES ASSUME NEW i \in 1 .. m PROVE (k + i) % 2 = i % 2 OBVIOUS
    <2>1. i \in Nat OBVIOUS
    <2> QED BY <1>1, <1>a, <2>1, Parity
  <1>4. \A i \in 1 .. k + m : i \in 1 .. k \/ (i - k \in 1 .. m /\ i = k + (i - k)) BY <1>1
  <1>5. k % 2 = 0 /\ m % 2 = 0 BY <1>a
  <1> HIDE DEF c, k, m
  <1>6. ASSUME \E j \in 1 .. m : j % 2 = 1 /\ b[j] = key PROVE Reads(c, key, d, v)
    <2>1. PICK j \in 1 .. m : /\ j % 2 = 1 /\ b[j] = key /\ v = b[j + 1]
                              /\ \A i \in 1 .. m : i % 2 = 1 /\ b[i] = key => i <= j
      BY <1>1, <1>6 DEF Reads
    <2>2. j + 1 \in 1 .. m
      <3>1. j \in Nat /\ j <= m BY <1>1
      <3>2. j + 1 <= m BY <1>1, <1>5, <2>1, <3>1, Parity
      <3> QED BY <1>1, <3>1, <3>2
    <2>3. k + j \in 1 .. k + m /\ (k + j) % 2 = 1 /\ c[k + j] = key
      <3>1. k + j \in 1 .. k + m BY <1>1
      <3>2. (k + j) % 2 = 1 BY <1>3, <2>1
      <3>3. c[k + j] = key BY <1>1, <2>1
      <3> QED BY <3>1, <3>2, <3>3
    <2>4. c[k + j + 1] = v
      <3>1. c[k + (j + 1)] = b[j + 1] /\ k + (j + 1) = k + j + 1 BY <1>1, <2>2
      <3> QED BY <2>1, <3>1
    <2>5. ASSUME NEW i \in 1 .. k + m, i % 2 = 1, c[i] = key PROVE i <= k + j
      <3>1. CASE i \in 1 .. k BY <1>1, <2>1, <3>1
      <3>2. CASE i - k \in 1 .. m
        <4> DEFINE n == i - k
        <4>1. n \in 1 .. m /\ i = k + n BY <1>1, <3>2
        <4> HIDE DEF n
        <4>2. n % 2 = 1 /\ b[n] = key BY <1>1, <1>3, <2>5, <4>1
        <4>3. n <= j BY <2>1, <4>1, <4>2
        <4> QED BY <1>1, <2>1, <4>1, <4>3
      <3> QED BY <1>4, <3>1, <3>2
    <2>6. Reads(c, key, d, v)
      <3> DEFINE l == k + j
      <3>1. l \in DOMAIN c /\ l % 2 = 1 /\ c[l] = key /\ v = c[l + 1] BY <1>1, <2>3, <2>4
      <3>2. \A i \in DOMAIN c : i % 2 = 1 /\ c[i] = key => i <= l BY <1>1, <2>5
      <3> HIDE DEF l
      <3> QED BY <3>1, <3>2 DEF Reads
    <2> QED BY <2>6
  <1>7. ASSUME ~ \E j \in 1 .. m : j % 2 = 1 /\ b[j] = key PROVE Reads(c, key, d, v)
    <2>1. v = x BY <1>1, <1>7 DEF Reads
    <2>2. ASSUME NEW i \in 1 .. k + m, i % 2 = 1, c[i] = key PROVE i \in 1 .. k
      <3> SUFFICES ASSUME i - k \in 1 .. m PROVE FALSE BY <1>4
      <3> DEFINE n == i - k
      <3>1. n \in 1 .. m /\ i = k + n BY <1>1
      <3> HIDE DEF n
      <3>2. n % 2 = 1 /\ b[n] = key BY <1>1, <1>3, <2>2, <3>1
      <3> QED BY <1>7, <3>1, <3>2
    <2>3. CASE \E j \in 1 .. k : j % 2 = 1 /\ a[j] = key
      <3>1. PICK j \in 1 .. k : /\ j % 2 = 1 /\ a[j] = key /\ x = a[j + 1]
                                /\ \A i \in 1 .. k : i % 2 = 1 /\ a[i] = key => i <= j
        BY <1>1, <2>3 DEF Reads
      <3>2. j + 1 \in 1 .. k /\ j \in DOMAIN c BY <1>1, <1>5, <3>1
      <3>3. c[j] = key /\ c[j + 1] = v BY <1>1, <2>1, <3>1, <3>2
      <3>4. \A i \in DOMAIN c : i % 2 = 1 /\ c[i] = key => i <= j BY <1>1, <2>2, <3>1
      <3>5. Reads(c, key, d, v) BY <3>1, <3>2, <3>3, <3>4 DEF Reads
      <3> QED BY <3>5
    <2>4. CASE ~ \E j \in 1 .. k : j % 2 = 1 /\ a[j] = key
      <3>1. x = d BY <1>1, <2>4 DEF Reads
      <3>2. \A i \in DOMAIN c : ~ (i % 2 = 1 /\ c[i] = key) BY <1>1, <2>2, <2>4
      <3>3. Reads(c, key, d, v) BY <2>1, <3>1, <3>2 DEF Reads
      <3> QED BY <3>3
    <2> QED BY <2>3, <2>4
  <1> QED BY <1>6, <1>7 DEF c

(* parseCandidate: what is read of the pairs behind the nine fields.          *)
ValueOf(said, key, default) ==
  LET hits == {i \in DOMAIN said : i >= 10 /\ i % 2 = 0 /\ said[i] = key}
  IN IF hits = {} THEN default ELSE said[Text!Max(hits) + 1]

LEMMA ValueReads ==
  ASSUME NEW S, NEW h \in Seq(S), NEW pairs \in Pairs(S)
  PROVE  Len(h) = 9 => \A key, d, v : Reads(pairs, key, d, v) => ValueOf(h \o pairs, key, d) = v
  <1> DEFINE r == h \o pairs  k == Len(h)  m == Len(pairs)
  <1>0. pairs \in Seq(S) /\ m % 2 = 0 BY DEF Pairs
  <1>b. /\ m \in Nat /\ DOMAIN r = 1 .. k + m /\ DOMAIN pairs = 1 .. m
        /\ \A j \in 1 .. m : r[k + j] = pairs[j]
    BY <1>0, ConcatPlaces
  <1> SUFFICES ASSUME k = 9, NEW key, NEW d, NEW v, Reads(pairs, key, d, v)
               PROVE  ValueOf(r, key, d) = v
    OBVIOUS
  <1> DEFINE hits == {i \in DOMAIN r : i >= 10 /\ i % 2 = 0 /\ r[i] = key}
  <1>1. /\ m \in Nat /\ DOMAIN r = 1 .. 9 + m /\ DOMAIN pairs = 1 .. m
        /\ \A j \in 1 .. m : r[9 + j] = pairs[j]
    <2> HIDE DEF k, m, r
    <2> QED BY <1>b
  <1>a. m % 2 = 0 BY <1>0
  <1>2. \A i \in DOMAIN r : i >= 10 => i - 9 \in 1 .. m /\ i = 9 + (i - 9)
    <2> HIDE DEF m, r
    <2> QED BY <1>1
  <1>3. \A j \in 1 .. m : ((9 + j) % 2 = 0 <=> j % 2 = 1) /\ 9 + j \in DOMAIN r /\ 9 + j >= 10
    <2> SUFFICES ASSUME NEW j \in 1 .. m
                 PROVE ((9 + j) % 2 = 0 <=> j % 2 = 1) /\ 9 + j \in DOMAIN r /\ 9 + j >= 10
      OBVIOUS
    <2>1. j \in Nat /\ 9 + j \in DOMAIN r /\ 9 + j >= 10 BY <1>1
    <2>2. (9 + j) % 2 = 0 <=> j % 2 = 1 BY <2>1, Parity
    <2> QED BY <2>1, <2>2
  <1>4. \A j \in 1 .. m : 9 + j \in hits <=> j % 2 = 1 /\ pairs[j] = key BY <1>1, <1>3
  <1>5. \A i \in hits : i - 9 \in 1 .. m /\ i = 9 + (i - 9) BY <1>2
  <1>6. ValueOf(r, key, d) = IF hits = {} THEN d ELSE r[Text!Max(hits) + 1] BY DEF ValueOf
  <1> HIDE DEF hits, m, r
  <1>7. ASSUME \A j \in 1 .. m : ~ (j % 2 = 1 /\ pairs[j] = key) PROVE ValueOf(r, key, d) = v
    <2>1. v = d BY <1>1, <1>7 DEF Reads
    <2>2. hits = {} BY <1>4, <1>5, <1>7
    <2> QED BY <1>6, <2>1, <2>2
  <1>8. ASSUME ~ \A j \in 1 .. m : ~ (j % 2 = 1 /\ pairs[j] = key) PROVE ValueOf(r, key, d) = v
    <2>1. PICK j \in 1 .. m : /\ j % 2 = 1 /\ pairs[j] = key /\ v = pairs[j + 1]
                              /\ \A i \in 1 .. m : i % 2 = 1 /\ pairs[i] = key => i <= j
      BY <1>1, <1>8 DEF Reads
    <2>2. 9 + j \in hits BY <1>4, <2>1
    <2>3. \A i \in hits : 9 + j >= i
      <3> SUFFICES ASSUME NEW i \in hits PROVE 9 + j >= i OBVIOUS
      <3> DEFINE n == i - 9
      <3>1. n \in 1 .. m /\ i = 9 + n BY <1>5
      <3> HIDE DEF n
      <3>2. n <= j BY <1>4, <2>1, <3>1
      <3> QED BY <2>1, <3>1, <3>2
    <2>4. Text!Max(hits) = 9 + j
      <3>1. hits \subseteq Int BY <1>1, <1>5
      <3> DEFINE x == CHOOSE x \in hits : \A y \in hits : x >= y
      <3>2. x \in hits /\ \A y \in hits : x >= y BY <2>2, <2>3
      <3>3. Text!Max(hits) = x BY DEF Text!Max
      <3> HIDE DEF x
      <3>4. x >= 9 + j /\ 9 + j >= x /\ x \in Int /\ 9 + j \in Int BY <2>2, <2>3, <3>1, <3>2
      <3>5. x = 9 + j BY <3>4
      <3> QED BY <3>3, <3>5
    <2>5. r[9 + j + 1] = v
      <3>1. j \in Nat /\ j <= m BY <1>1
      <3>2. j + 1 <= m BY <1>1, <1>a, <2>1, <3>1, Parity
      <3>3. j + 1 \in 1 .. m /\ 9 + j + 1 = 9 + (j + 1) BY <1>1, <3>1, <3>2
      <3> QED BY <1>1, <2>1, <3>3
    <2> QED BY <1>6, <2>2, <2>4, <2>5
  <1> QED BY <1>7, <1>8 DEF r

(* The parts of a candidate line.                                             *)
HasRelated(c) == c.type # "host" /\ c.relatedAddress # "" /\ c.relatedPort # 0
HasTcpType(c) == c.tcpType # "" /\ Text!Lower(c.protocol) = "tcp"
NineFields(c) ==
  <<"candidate", c.foundation, c.component, Text!Upper(c.protocol), c.priority, c.address, c.port,
    "typ", c.type>>
RelatedPairs(c) ==
  IF HasRelated(c) THEN <<"raddr", c.relatedAddress, "rport", c.relatedPort>> ELSE <<>>
TcpTypePair(c) == IF HasTcpType(c) THEN <<"tcptype", c.tcpType>> ELSE <<>>
FragmentPair(c) == IF c.usernameFragment # "" THEN <<"ufrag", c.usernameFragment>> ELSE <<>>

LEMMA CandidateParts ==
  ASSUME NEW c
  PROVE  Text!WriteCandidate(c) = NineFields(c) \o RelatedPairs(c) \o TcpTypePair(c) \o FragmentPair(c)
  BY DEF Text!WriteCandidate, NineFields, RelatedPairs, TcpTypePair, FragmentPair, HasRelated, HasTcpType

(* A candidate line as it may be received: an extension behind the nine       *)
(* fields, then the pairs.                                                    *)
Rest(c) == (RelatedPairs(c) \o TcpTypePair(c)) \o FragmentPair(c)
Extensions == {<<>>, <<"generation", 0>>}
Received(c, extension) ==
  LET l == Text!WriteCandidate(c)
  IN SubSeq(l, 1, 9) \o extension \o SubSeq(l, 10, Len(l))

(* All that stands in a candidate line.                                       *)
Words(c) == {"candidate", "typ", "raddr", "rport", "tcptype", "ufrag", "generation", 0,
              c.foundation, c.component, Text!Upper(c.protocol), c.priority, c.address, c.port,
              c.type, c.relatedAddress, c.relatedPort, c.tcpType, c.usernameFragment}

LEMMA PairsIsSeq ==
  ASSUME NEW S, NEW s \in Pairs(S)
  PROVE  s \in Seq(S)
  BY DEF Pairs

LEMMA CandidateLists ==
  ASSUME NEW c, NEW extension \in Extensions
  PROVE  /\ NineFields(c) \in Seq(Words(c)) /\ Len(NineFields(c)) = 9
         /\ RelatedPairs(c) \in Pairs(Words(c))
         /\ TcpTypePair(c) \in Pairs(Words(c))
         /\ FragmentPair(c) \in Pairs(Words(c))
         /\ Rest(c) \in Pairs(Words(c))
         /\ extension \in Pairs(Words(c))
         /\ extension \o Rest(c) \in Pairs(Words(c))
  <1> DEFINE S == Words(c)
  <1>1. NineFields(c) \in Seq(S) /\ Len(NineFields(c)) = 9 BY DEF NineFields, Words
  <1>2. /\ "raddr" \in S /\ "rport" \in S /\ "tcptype" \in S /\ "ufrag" \in S
        /\ "generation" \in S /\ 0 \in S /\ c.relatedAddress \in S /\ c.relatedPort \in S
        /\ c.tcpType \in S /\ c.usernameFragment \in S
    BY DEF Words
  <1> HIDE DEF S
  <1>3. RelatedPairs(c) \in Pairs(S) BY <1>2, PairsFew DEF RelatedPairs
  <1>4. TcpTypePair(c) \in Pairs(S) BY <1>2, PairsFew DEF TcpTypePair
  <1>5. FragmentPair(c) \in Pairs(S) BY <1>2, PairsFew DEF FragmentPair
  <1>6. extension \in Pairs(S) BY <1>2, PairsFew DEF Extensions
  <1>7. RelatedPairs(c) \o TcpTypePair(c) \in Pairs(S) BY <1>3, <1>4, PairsConcat
  <1>8. Rest(c) \in Pairs(S) BY <1>5, <1>7, PairsConcat DEF Rest
  <1>9. extension \o Rest(c) \in Pairs(S) BY <1>6, <1>8, PairsConcat
  <1> QED BY <1>1, <1>3, <1>4, <1>5, <1>6, <1>8, <1>9 DEF S

LEMMA Halves ==
  ASSUME NEW S, NEW h \in Seq(S), NEW rest \in Seq(S)
  PROVE  /\ SubSeq(h \o rest, 1, Len(h)) = h
         /\ SubSeq(h \o rest, Len(h) + 1, Len(h \o rest)) = rest
  <1> DEFINE l == h \o rest  k == Len(h)  m == Len(rest)
  <1>1. /\ l \in Seq(S) /\ Len(l) = k + m /\ k \in Nat /\ m \in Nat
        /\ \A i \in 1 .. k : l[i] = h[i]
        /\ \A i \in 1 .. m : l[k + i] = rest[i]
    OBVIOUS
  <1>2. SubSeq(l, 1, k) = h
    <2> DEFINE s == SubSeq(l, 1, k)
    <2> HIDE DEF l
    <2>1. s \in Seq(S) /\ Len(s) = k BY <1>1
    <2>2. \A i \in 1 .. k : s[i] = l[i] BY <1>1
    <2> HIDE DEF s
    <2>3. s = h BY <1>1, <2>1, <2>2
    <2> QED BY <2>3 DEF s
  <1>3. SubSeq(l, k + 1, Len(l)) = rest
    <2> DEFINE s == SubSeq(l, k + 1, Len(l))
    <2> HIDE DEF l
    <2>1. s \in Seq(S) /\ Len(s) = m BY <1>1
    <2>2. \A i \in 1 .. m : s[i] = l[k + i] BY <1>1
    <2> HIDE DEF s
    <2>3. s = rest BY <1>1, <2>1, <2>2
    <2> QED BY <2>3 DEF s
  <1> QED BY <1>2, <1>3

LEMMA WrittenCandidate ==
  ASSUME NEW c
  PROVE  Text!WriteCandidate(c) = NineFields(c) \o Rest(c)
  <1> DEFINE S == Words(c)  h == NineFields(c)  related == RelatedPairs(c)
             tcp == TcpTypePair(c)  fragment == FragmentPair(c)
  <1>1. Text!WriteCandidate(c) = ((h \o related) \o tcp) \o fragment BY CandidateParts
  <1>2. <<>> \in Extensions BY DEF Extensions
  <1>3. h \in Seq(S) /\ related \in Pairs(S) /\ tcp \in Pairs(S) /\ fragment \in Pairs(S)
    BY <1>2, CandidateLists
  <1> HIDE DEF S, h, related, tcp, fragment
  <1>4. related \in Seq(S) /\ tcp \in Seq(S) /\ fragment \in Seq(S) BY <1>3, PairsIsSeq
  <1>5. (h \o related) \o tcp = h \o (related \o tcp) BY <1>3, <1>4, ConcatAssociative
  <1>6. related \o tcp \in Seq(S) BY <1>4
  <1>7. (h \o (related \o tcp)) \o fragment = h \o ((related \o tcp) \o fragment)
    BY <1>3, <1>4, <1>6, ConcatAssociative
  <1> QED BY <1>1, <1>5, <1>7 DEF Rest, h, related, tcp, fragment

LEMMA ReceivedIs ==
  ASSUME NEW c, NEW extension \in Extensions
  PROVE  Received(c, extension) = NineFields(c) \o (extension \o Rest(c))
  <1> DEFINE S == Words(c)  h == NineFields(c)  rest == Rest(c)  l == h \o rest
  <1>1. h \in Seq(S) /\ Len(h) = 9 /\ rest \in Pairs(S) /\ extension \in Pairs(S)
    BY CandidateLists
  <1>2. Text!WriteCandidate(c) = l BY WrittenCandidate
  <1> HIDE DEF S, h, rest
  <1>3. rest \in Seq(S) /\ extension \in Seq(S) BY <1>1, PairsIsSeq
  <1>4. SubSeq(l, 1, Len(h)) = h /\ SubSeq(l, Len(h) + 1, Len(l)) = rest BY <1>1, <1>3, Halves
  <1>5. (h \o extension) \o rest = h \o (extension \o rest) BY <1>1, <1>3, ConcatAssociative
  <1> HIDE DEF l
  <1>6. SubSeq(l, 1, 9) = h BY <1>1, <1>4
  <1>7. SubSeq(l, 10, Len(l)) = rest
    <2>1. Len(h) + 1 = 10 BY <1>1
    <2> QED BY <1>4, <2>1
  <1>8. Received(c, extension) = (h \o extension) \o rest BY <1>2, <1>6, <1>7 DEF Received
  <1> QED BY <1>5, <1>8 DEF h, rest

LEMMA CandidateReads ==
  ASSUME NEW c, NEW extension \in Extensions
  PROVE  LET r == Received(c, extension)
         IN /\ \A i \in 1 .. 9 : r[i] = NineFields(c)[i]
            /\ ValueOf(r, "raddr", "") = IF HasRelated(c) THEN c.relatedAddress ELSE ""
            /\ ValueOf(r, "rport", 0) = IF HasRelated(c) THEN c.relatedPort ELSE 0
            /\ ValueOf(r, "tcptype", "") = IF HasTcpType(c) THEN c.tcpType ELSE ""
            /\ ValueOf(r, "ufrag", "") = c.usernameFragment
  <1> DEFINE r == Received(c, extension)
             S == Words(c)  h == NineFields(c)  related == RelatedPairs(c)
             tcp == TcpTypePair(c)  fragment == FragmentPair(c)  rest == Rest(c)
             pairs == extension \o rest
  <1>1. /\ h \in Seq(S) /\ Len(h) = 9 /\ related \in Pairs(S) /\ tcp \in Pairs(S)
        /\ fragment \in Pairs(S) /\ rest \in Pairs(S) /\ extension \in Pairs(S)
        /\ pairs \in Pairs(S)
    BY CandidateLists
  <1>2. r = h \o pairs BY ReceivedIs
  <1>3. rest = (related \o tcp) \o fragment BY DEF Rest
  <1> HIDE DEF r, S, h, related, tcp, fragment, rest
  <1>4. \A key, d, u, v, w, x :
          /\ Reads(extension, key, d, u) /\ Reads(related, key, u, v)
          /\ Reads(tcp, key, v, w) /\ Reads(fragment, key, w, x)
          => ValueOf(r, key, d) = x
    <2> SUFFICES ASSUME NEW key, NEW d, NEW u, NEW v, NEW w, NEW x,
                        Reads(extension, key, d, u), Reads(related, key, u, v),
                        Reads(tcp, key, v, w), Reads(fragment, key, w, x)
                 PROVE  ValueOf(r, key, d) = x
      OBVIOUS
    <2>1. Reads(related \o tcp, key, u, w) BY <1>1, ReadsConcat
    <2>2. related \o tcp \in Pairs(S) BY <1>1, PairsConcat
    <2>3. Reads(rest, key, u, x) BY <1>1, <1>3, <2>1, <2>2, ReadsConcat
    <2>4. Reads(pairs, key, d, x) BY <1>1, <2>3, ReadsConcat
    <2> HIDE DEF pairs
    <2> QED BY <1>1, <1>2, <2>4, ValueReads
  <1>5. \A i \in 1 .. 9 : r[i] = h[i]
    <2>1. pairs \in Seq(S) BY <1>1, PairsIsSeq
    <2> HIDE DEF pairs
    <2>2. \A i \in 1 .. Len(h) : (h \o pairs)[i] = h[i] BY <1>1, <2>1, ConcatPlaces
    <2> QED BY <1>1, <1>2, <2>2
  <1>6. \A key, d : key # "generation" => Reads(extension, key, d, d)
    <2> SUFFICES ASSUME NEW key, NEW d, key # "generation" PROVE Reads(extension, key, d, d)
      OBVIOUS
    <2>1. CASE extension = <<>> BY <2>1, ReadsFew
    <2>2. CASE extension = <<"generation", 0>>
      <3>1. Reads(<<"generation", 0>>, key, d, IF "generation" = key THEN 0 ELSE d) BY ReadsFew
      <3>2. (IF "generation" = key THEN 0 ELSE d) = d OBVIOUS
      <3> QED BY <2>2, <3>1, <3>2
    <2> QED BY <2>1, <2>2 DEF Extensions
  <1>7. \A key, d : /\ key # "raddr" /\ key # "rport" => Reads(related, key, d, d)
                    /\ ~ HasRelated(c) => Reads(related, key, d, d)
                    /\ HasRelated(c) => /\ Reads(related, "raddr", d, c.relatedAddress)
                                        /\ Reads(related, "rport", d, c.relatedPort)
    BY ReadsFew DEF RelatedPairs, related
  <1>8. \A key, d : /\ key # "tcptype" => Reads(tcp, key, d, d)
                    /\ ~ HasTcpType(c) => Reads(tcp, key, d, d)
                    /\ HasTcpType(c) => Reads(tcp, "tcptype", d, c.tcpType)
    BY ReadsFew DEF TcpTypePair, tcp
  <1>9. \A key, d : /\ key # "ufrag" => Reads(fragment, key, d, d)
                    /\ c.usernameFragment = "" => Reads(fragment, key, d, d)
                    /\ c.usernameFragment # "" => Reads(fragment, "ufrag", d, c.usernameFragment)
    BY ReadsFew DEF FragmentPair, fragment
  <1> HIDE DEF pairs
  <1>10. ValueOf(r, "raddr", "") = IF HasRelated(c) THEN c.relatedAddress ELSE ""
    <2> DEFINE v == IF HasRelated(c) THEN c.relatedAddress ELSE ""
    <2>1. Reads(extension, "raddr", "", "") BY <1>6
    <2>2. Reads(related, "raddr", "", v) BY <1>7
    <2>3. Reads(tcp, "raddr", v, v) BY <1>8
    <2>4. Reads(fragment, "raddr", v, v) BY <1>9
    <2> HIDE DEF v
    <2>5. ValueOf(r, "raddr", "") = v BY <1>4, <2>1, <2>2, <2>3, <2>4
    <2> QED BY <2>5 DEF v
  <1>11. ValueOf(r, "rport", 0) = IF HasRelated(c) THEN c.relatedPort ELSE 0
    <2> DEFINE v == IF HasRelated(c) THEN c.relatedPort ELSE 0
    <2>1. Reads(extension, "rport", 0, 0) BY <1>6
    <2>2. Reads(related, "rport", 0, v) BY <1>7
    <2>3. Reads(tcp, "rport", v, v) BY <1>8
    <2>4. Reads(fragment, "rport", v, v) BY <1>9
    <2> HIDE DEF v
    <2>5. ValueOf(r, "rport", 0) = v BY <1>4, <2>1, <2>2, <2>3, <2>4
    <2> QED BY <2>5 DEF v
  <1>12. ValueOf(r, "tcptype", "") = IF HasTcpType(c) THEN c.tcpType ELSE ""
    <2> DEFINE v == IF HasTcpType(c) THEN c.tcpType ELSE ""
    <2>1. Reads(extension, "tcptype", "", "") BY <1>6
    <2>2. Reads(related, "tcptype", "", "") BY <1>7
    <2>3. Reads(tcp, "tcptype", "", v) BY <1>8
    <2>4. Reads(fragment, "tcptype", v, v) BY <1>9
    <2> HIDE DEF v
    <2>5. ValueOf(r, "tcptype", "") = v BY <1>4, <2>1, <2>2, <2>3, <2>4
    <2> QED BY <2>5 DEF v
  <1>13. ValueOf(r, "ufrag", "") = c.usernameFragment
    <2>1. Reads(extension, "ufrag", "", "") BY <1>6
    <2>2. Reads(related, "ufrag", "", "") BY <1>7
    <2>3. Reads(tcp, "ufrag", "", "") BY <1>8
    <2>4. Reads(fragment, "ufrag", "", c.usernameFragment) BY <1>9
    <2> QED BY <1>4, <2>1, <2>2, <2>3, <2>4
  <1> QED BY <1>5, <1>10, <1>11, <1>12, <1>13 DEF r, h

LEMMA CandidateFinal ==
  ASSUME NEW c \in Text!LocalCandidates, NEW extension \in Extensions
  PROVE  LET r == Text!ParseCandidate(Received(c, extension))
         IN /\ Text!WriteCandidate(r) = Text!WriteCandidate(c)
            /\ r.foundation = c.foundation /\ r.component = c.component
            /\ r.protocol = c.protocol /\ r.priority = c.priority
            /\ r.address = c.address /\ r.port = c.port /\ r.type = c.type
            /\ r.usernameFragment = c.usernameFragment
            /\ r.relatedAddress = IF HasRelated(c) THEN c.relatedAddress ELSE ""
            /\ r.relatedPort = IF HasRelated(c) THEN c.relatedPort ELSE 0
            /\ r.tcpType = IF HasTcpType(c) THEN c.tcpType ELSE ""
  <1> DEFINE l == Received(c, extension)
             r == Text!ParseCandidate(l)
             h == NineFields(c)
  <1>1. r = [foundation |-> l[2], component |-> l[3], protocol |-> Text!Lower(l[4]),
             priority |-> l[5], address |-> l[6], port |-> l[7], type |-> l[9],
             relatedAddress |-> ValueOf(l, "raddr", ""), relatedPort |-> ValueOf(l, "rport", 0),
             tcpType |-> ValueOf(l, "tcptype", ""), usernameFragment |-> ValueOf(l, "ufrag", "")]
    BY DEF Text!ParseCandidate, ValueOf
  <1>2. /\ \A i \in 1 .. 9 : l[i] = h[i]
        /\ ValueOf(l, "raddr", "") = IF HasRelated(c) THEN c.relatedAddress ELSE ""
        /\ ValueOf(l, "rport", 0) = IF HasRelated(c) THEN c.relatedPort ELSE 0
        /\ ValueOf(l, "tcptype", "") = IF HasTcpType(c) THEN c.tcpType ELSE ""
        /\ ValueOf(l, "ufrag", "") = c.usernameFragment
    BY CandidateReads
  <1>3. /\ h[2] = c.foundation /\ h[3] = c.component /\ h[4] = Text!Upper(c.protocol)
        /\ h[5] = c.priority /\ h[6] = c.address /\ h[7] = c.port /\ h[9] = c.type
    BY DEF NineFields
  <1> HIDE DEF l, h
  <1>4. /\ l[2] = h[2] /\ l[3] = h[3] /\ l[4] = h[4] /\ l[5] = h[5] /\ l[6] = h[6] /\ l[7] = h[7]
        /\ l[9] = h[9]
    <2>1. \A i \in 1 .. 9 : l[i] = h[i] BY <1>2
    <2>2. {2, 3, 4, 5, 6, 7, 9} \subseteq 1 .. 9 OBVIOUS
    <2> QED BY <2>1, <2>2
  <1> HIDE DEF r
  <1>5. c.protocol \in {"udp", "tcp"} BY DEF Text!LocalCandidates
  <1>6. Text!Lower(Text!Upper(c.protocol)) = c.protocol /\ Text!Lower(c.protocol) = c.protocol
    <2>1. CASE c.protocol = "udp" BY <2>1 DEF Text!Lower, Text!Upper
    <2>2. CASE c.protocol = "tcp" BY <2>2 DEF Text!Lower, Text!Upper
    <2> QED BY <1>5, <2>1, <2>2
  <1>7. /\ r.foundation = c.foundation /\ r.component = c.component
        /\ r.priority = c.priority
        /\ r.address = c.address /\ r.port = c.port /\ r.type = c.type
    BY <1>1, <1>3, <1>4
  <1>8. r.protocol = c.protocol BY <1>1, <1>3, <1>4, <1>6
  <1>9. /\ r.usernameFragment = c.usernameFragment
        /\ r.relatedAddress = IF HasRelated(c) THEN c.relatedAddress ELSE ""
        /\ r.relatedPort = IF HasRelated(c) THEN c.relatedPort ELSE 0
        /\ r.tcpType = IF HasTcpType(c) THEN c.tcpType ELSE ""
    BY <1>1, <1>2
  <1>10. HasRelated(r) <=> HasRelated(c) BY <1>7, <1>9 DEF HasRelated
  <1>11. HasTcpType(r) <=> HasTcpType(c) BY <1>8, <1>9 DEF HasTcpType
  <1>12. NineFields(r) = NineFields(c) BY <1>7, <1>8 DEF NineFields
  <1>13. RelatedPairs(r) = RelatedPairs(c) BY <1>9, <1>10 DEF RelatedPairs
  <1>14. TcpTypePair(r) = TcpTypePair(c) BY <1>9, <1>11 DEF TcpTypePair
  <1>15. FragmentPair(r) = FragmentPair(c) BY <1>9 DEF FragmentPair
  <1>16. Text!WriteCandidate(r) = Text!WriteCandidate(c)
    BY <1>12, <1>13, <1>14, <1>15, CandidateParts
  <1> QED BY <1>7, <1>8, <1>9, <1>16 DEF r, l

(* Lists of two and of three lines.                                           *)
LEMMA PairJoined ==
  ASSUME NEW x, NEW y
  PROVE  <<x>> \o <<y>> = <<x, y>>
  <1> DEFINE S == {x, y}  a == <<x>>  b == <<y>>  p == Append(a, y)  q == <<x, y>>
  <1>1. a \in Seq(S) /\ b \in Seq(S) /\ y \in S OBVIOUS
  <1>2. p = a \o b
    <2> HIDE DEF S, a
    <2> QED BY <1>1, AppendIsConcat
  <1>3. p \in Seq(S) /\ Len(p) = 2 /\ p[1] = x /\ p[2] = y OBVIOUS
  <1>4. q \in Seq(S) /\ Len(q) = 2 /\ q[1] = x /\ q[2] = y OBVIOUS
  <1> HIDE DEF S, a, b, p, q
  <1>5. \A i \in 1 .. 2 : p[i] = q[i] BY <1>3, <1>4
  <1>6. p = q BY <1>3, <1>4, <1>5, SeqEqual
  <1> QED BY <1>2, <1>6 DEF a, b, q

LEMMA LinesOfTwo ==
  ASSUME NEW A, NEW x, NEW y
  PROVE  Text!LinesOf(<<x, y>>, A) = Text!LinesOf(<<x>>, A) \o Text!LinesOf(<<y>>, A)
  <1> DEFINE a == <<x>>  b == <<y>>
  <1>1. a \in Seq({x, y}) /\ b \in Seq({x, y}) OBVIOUS
  <1>2. a \o b = <<x, y>> BY PairJoined
  <1> HIDE DEF a, b
  <1>3. Text!LinesOf(a \o b, A) = Text!LinesOf(a, A) \o Text!LinesOf(b, A) BY <1>1, LinesConcat
  <1> QED BY <1>2, <1>3 DEF a, b

Joined(a, b, c) == (a \o b) \o c

LEMMA LinesOfThree ==
  ASSUME NEW A, NEW x, NEW y, NEW z
  PROVE  Text!LinesOf(<<x, y, z>>, A)
           = Joined(Text!LinesOf(<<x>>, A), Text!LinesOf(<<y>>, A), Text!LinesOf(<<z>>, A))
  <1> DEFINE S == {x, y, z}  a == <<x, y>>  b == <<z>>  p == Append(a, z)  q == <<x, y, z>>
  <1>1. a \in Seq(S) /\ b \in Seq(S) /\ z \in S OBVIOUS
  <1>2. p = a \o b
    <2> HIDE DEF S, a
    <2> QED BY <1>1, AppendIsConcat
  <1>3. p \in Seq(S) /\ Len(p) = 3 /\ p[1] = x /\ p[2] = y /\ p[3] = z OBVIOUS
  <1>4. q \in Seq(S) /\ Len(q) = 3 /\ q[1] = x /\ q[2] = y /\ q[3] = z OBVIOUS
  <1> HIDE DEF S, b, p, q
  <1>5. \A i \in 1 .. 3 : p[i] = q[i] BY <1>3, <1>4
  <1>6. p = q BY <1>3, <1>4, <1>5, SeqEqual
  <1>7. Text!LinesOf(a, A) = Text!LinesOf(<<x>>, A) \o Text!LinesOf(<<y>>, A) BY LinesOfTwo
  <1> HIDE DEF a
  <1>8. Text!LinesOf(a \o b, A) = Text!LinesOf(a, A) \o Text!LinesOf(b, A) BY <1>1, LinesConcat
  <1> QED BY <1>2, <1>6, <1>7, <1>8 DEF b, q, Joined

LEMMA SctpParsed ==
  ASSUME NEW section
  PROVE  LET size == Text!MatchPrefix(section, "max-message-size")
             port == Text!MatchPrefix(section, "sctp-port")
             map == Text!MatchPrefix(section, "sctpmap")
             most == IF size = <<>> THEN 65536 ELSE size[1][2]
         IN /\ port # <<>> =>
                 Text!ParseSctpDescription(section)
                   = [port |-> port[1][2], protocol |-> section[1][5][1],
                      maxMessageSize |-> most]
            /\ port = <<>> /\ map # <<>> =>
                 Text!ParseSctpDescription(section)
                   = [port |-> map[1][2], protocol |-> map[1][3], maxMessageSize |-> most]
  <1> DEFINE size == Text!MatchPrefix(section, "max-message-size")
             port == Text!MatchPrefix(section, "sctp-port")
             map == Text!MatchPrefix(section, "sctpmap")
             Of(p, protocol) == [port |-> p, protocol |-> protocol,
                                 maxMessageSize |-> IF size = <<>> THEN 65536 ELSE size[1][2]]
  <1>1. Text!ParseSctpDescription(section)
          = CASE port # <<>> -> Of(port[1][2], section[1][5][1])
              [] port = <<>> /\ map # <<>> -> Of(map[1][2], map[1][3])
              [] OTHER -> Of(Text!Undefined, "")
    BY DEF Text!ParseSctpDescription, Text!MLine
  <1> HIDE DEF port, map, Of
  <1>2. CASE port # <<>>
    <2>1. Text!ParseSctpDescription(section) = Of(port[1][2], section[1][5][1]) BY <1>1, <1>2
    <2> QED BY <1>2, <2>1 DEF port, map, Of
  <1>3. CASE port = <<>> /\ map # <<>>
    <2>1. Text!ParseSctpDescription(section) = Of(map[1][2], map[1][3]) BY <1>1, <1>3
    <2> QED BY <1>3, <2>1 DEF port, map, Of
  <1>4. CASE port = <<>> /\ map = <<>> BY <1>4 DEF port, map
  <1> QED BY <1>2, <1>3, <1>4

LEMMA SctpRead ==
  ASSUME NEW media \in Text!SctpMedia, NEW sctp \in Text!SctpParameters
  PROVE  LET r == Text!ParseSctpDescription(Text!WriteSctpDescription(media, sctp))
         IN /\ r.port = sctp.port /\ r.protocol = sctp.protocol
            /\ r.maxMessageSize = IF sctp.maxMessageSize = Text!Undefined THEN 65536
                                  ELSE sctp.maxMessageSize
  <1> DEFINE old == media.protocol = "DTLS/SCTP"
             m == IF old THEN <<"m", media.kind, 9, media.protocol, <<sctp.port>> >>
                  ELSE <<"m", media.kind, 9, media.protocol, <<sctp.protocol>> >>
             x == IF old THEN <<"sctpmap", sctp.port, sctp.protocol, 65535>>
                  ELSE <<"sctp-port", sctp.port>>
             z == <<"max-message-size", sctp.maxMessageSize>>
             last == IF sctp.maxMessageSize # Text!Undefined THEN <<z>> ELSE <<>>
             head == <<m, x>>
             line1 == head \o last
  <1>1. Text!WriteSctpDescription(media, sctp) = line1 BY DEF Text!WriteSctpDescription
  <1>2. m[1] = "m" /\ z[1] = "max-message-size" /\ z[2] = sctp.maxMessageSize OBVIOUS
  <1>3. old => x[1] = "sctpmap" /\ x[2] = sctp.port /\ x[3] = sctp.protocol OBVIOUS
  <1>4. ~ old => x[1] = "sctp-port" /\ x[2] = sctp.port /\ m[5][1] = sctp.protocol OBVIOUS
  <1> HIDE DEF m, x, z, old
  <1>5. line1[1] = m
    <2> DEFINE S == {m, x, z}
    <2>1. head \in Seq(S) /\ Len(head) = 2 /\ head[1] = m OBVIOUS
    <2>2. last \in Seq(S)
      <3>1. <<z>> \in Seq(S) /\ <<>> \in Seq(S) OBVIOUS
      <3>2. last = <<z>> \/ last = <<>> OBVIOUS
      <3> HIDE DEF S, last
      <3> QED BY <3>1, <3>2
    <2> HIDE DEF S, head, last
    <2>3. \A i \in 1 .. Len(head) : (head \o last)[i] = head[i] BY <2>1, <2>2, ConcatPlaces
    <2>4. 1 \in 1 .. Len(head) BY <2>1
    <2> QED BY <2>1, <2>3, <2>4
  <1>6. \A A : Text!LinesOf(line1, A) = (Text!LinesOf(<<m>>, A) \o Text!LinesOf(<<x>>, A))
                                        \o Text!LinesOf(last, A)
    <2> SUFFICES ASSUME NEW A
                 PROVE  Text!LinesOf(line1, A) = (Text!LinesOf(<<m>>, A) \o Text!LinesOf(<<x>>, A))
                                                 \o Text!LinesOf(last, A)
      OBVIOUS
    <2> DEFINE S == {m, x, z}
    <2>1. head \in Seq(S) /\ last \in Seq(S)
      <3>1. <<m, x>> \in Seq(S) /\ <<z>> \in Seq(S) /\ <<>> \in Seq(S) OBVIOUS
      <3>2. last = <<z>> \/ last = <<>> OBVIOUS
      <3> HIDE DEF S, last
      <3> QED BY <3>1, <3>2
    <2>2. Text!LinesOf(head, A) = Text!LinesOf(<<m>>, A) \o Text!LinesOf(<<x>>, A) BY LinesOfTwo
    <2> HIDE DEF S, head, last
    <2>3. Text!LinesOf(head \o last, A) = Text!LinesOf(head, A) \o Text!LinesOf(last, A)
      BY <2>1, LinesConcat
    <2> QED BY <2>2, <2>3
  <1>7. \A A : /\ "m" \notin A => Text!LinesOf(<<m>>, A) = <<>>
               /\ Text!LinesOf(<<x>>, A) = IF x[1] \in A THEN <<x>> ELSE <<>>
               /\ "max-message-size" \notin A => Text!LinesOf(last, A) = <<>>
               /\ "max-message-size" \in A => Text!LinesOf(last, A) = last
    BY <1>2, LinesSmall
  <1> HIDE DEF line1, head
  <1>8. /\ Text!MatchPrefix(line1, "max-message-size") = last
        /\ Text!MatchPrefix(line1, "sctp-port") = IF old THEN <<>> ELSE <<x>>
        /\ Text!MatchPrefix(line1, "sctpmap") = IF old THEN <<x>> ELSE <<>>
    <2> HIDE DEF last
    <2>1. last \in Seq({z})
      <3>1. <<z>> \in Seq({z}) /\ <<>> \in Seq({z}) OBVIOUS
      <3>2. last = <<z>> \/ last = <<>> BY DEF last
      <3> QED BY <3>1, <3>2
    <2>2. \A s : (<<>> \o <<>>) \o s = <<>> \o s /\ (<<>> \o <<x>>) \o <<>> = <<x>> OBVIOUS
    <2>3. (<<>> \o <<>>) \o last = last /\ (<<>> \o <<>>) \o <<>> = <<>> BY <2>1
    <2>4. Text!MatchPrefix(line1, "max-message-size") = last
      <3>1. Text!LinesOf(<<m>>, {"max-message-size"}) = <<>> BY <1>7
      <3>2. Text!LinesOf(<<x>>, {"max-message-size"}) = <<>> BY <1>3, <1>4, <1>7
      <3>3. Text!LinesOf(last, {"max-message-size"}) = last BY <1>7
      <3> QED BY <1>6, <2>3, <3>1, <3>2, <3>3 DEF Text!MatchPrefix
    <2>5. Text!MatchPrefix(line1, "sctp-port") = IF old THEN <<>> ELSE <<x>>
      <3>1. Text!LinesOf(<<m>>, {"sctp-port"}) = <<>> BY <1>7
      <3>2. Text!LinesOf(<<x>>, {"sctp-port"}) = IF old THEN <<>> ELSE <<x>> BY <1>3, <1>4, <1>7
      <3>3. Text!LinesOf(last, {"sctp-port"}) = <<>> BY <1>7
      <3> QED BY <1>6, <2>2, <2>3, <3>1, <3>2, <3>3 DEF Text!MatchPrefix
    <2>6. Text!MatchPrefix(line1, "sctpmap") = IF old THEN <<x>> ELSE <<>>
      <3>1. Text!LinesOf(<<m>>, {"sctpmap"}) = <<>> BY <1>7
      <3>2. Text!LinesOf(<<x>>, {"sctpmap"}) = IF old THEN <<x>> ELSE <<>> BY <1>3, <1>4, <1>7
      <3>3. Text!LinesOf(last, {"sctpmap"}) = <<>> BY <1>7
      <3> QED BY <1>6, <2>2, <2>3, <3>1, <3>2, <3>3 DEF Text!MatchPrefix
    <2> QED BY <2>4, <2>5, <2>6
  <1> DEFINE r == Text!ParseSctpDescription(line1)
             size == IF last = <<>> THEN 65536 ELSE last[1][2]
  <1>9. size = IF sctp.maxMessageSize = Text!Undefined THEN 65536 ELSE sctp.maxMessageSize
    BY <1>2
  <1> HIDE DEF last
  <1>10. CASE old
    <2>1. <<x>> # <<>> /\ <<x>>[1] = x OBVIOUS
    <2>2. /\ Text!MatchPrefix(line1, "max-message-size") = last
          /\ Text!MatchPrefix(line1, "sctp-port") = <<>>
          /\ Text!MatchPrefix(line1, "sctpmap") = <<x>>
      BY <1>8, <1>10
    <2>3. r = [port |-> x[2], protocol |-> x[3], maxMessageSize |-> size]
      BY <2>1, <2>2, SctpParsed
    <2> HIDE DEF r, size
    <2> QED BY <1>1, <1>3, <1>9, <1>10, <2>3 DEF r
  <1>11. CASE ~ old
    <2>1. <<x>> # <<>> /\ <<x>>[1] = x OBVIOUS
    <2>2. /\ Text!MatchPrefix(line1, "max-message-size") = last
          /\ Text!MatchPrefix(line1, "sctp-port") = <<x>>
      BY <1>8, <1>11
    <2>3. r = [port |-> x[2], protocol |-> m[5][1], maxMessageSize |-> size]
      BY <1>5, <2>1, <2>2, SctpParsed
    <2> HIDE DEF r, size
    <2> QED BY <1>1, <1>4, <1>9, <1>11, <2>3 DEF r
  <1> QED BY <1>10, <1>11

(* What ReceiveMedia reads: what is said on one level, streams in the new and *)
(* in the old form.                                                           *)
SaidAt(l, transport, direction, dirs) ==
  Text!At(l, transport, Text!TransportLines(l)) \o Text!At(l, direction, << <<dirs[l]>> >>)
Msids(spec) == [i \in 1 .. spec |-> <<"msid", "s", "t">>]
OldForm(planB) ==
  IF planB THEN << <<"ssrc", 1, "cname", "c">>, <<"ssrc", 1, "msid", <<"s", "t">> >> >> ELSE <<>>
Section(transport, direction, dirs, spec, planB) ==
  (SaidAt("media", transport, direction, dirs) \o Msids(spec)) \o OldForm(planB)

(* All lines of both levels.                                                  *)
LinesAt(l, dirs) ==
  {<<"ice-ufrag", <<"u", l>> >>, <<"ice-pwd", <<"p", l>> >>, <<"fingerprint", "SHA-256", l>>,
   <<dirs[l]>> }
StreamLines ==
  {<<"msid", "s", "t">>, <<"ssrc", 1, "cname", "c">>, <<"ssrc", 1, "msid", <<"s", "t">> >> }
AllLines(dirs) == (UNION {LinesAt(l, dirs) : l \in Text!Levels}) \cup StreamLines

LEMMA MsidsAre ==
  /\ Msids(0) = <<>>
  /\ Msids(1) = << <<"msid", "s", "t">> >>
  /\ Msids(2) = << <<"msid", "s", "t">>, <<"msid", "s", "t">> >>
  <1> DEFINE x == <<"msid", "s", "t">>
  <1>1. \A n : Msids(n) = [i \in 1 .. n |-> x] BY DEF Msids
  <1> HIDE DEF x
  <1>2. [i \in 1 .. 0 |-> x] = <<>> OBVIOUS
  <1>3. [i \in 1 .. 1 |-> x] = <<x>> OBVIOUS
  <1>4. [i \in 1 .. 2 |-> x] = <<x, x>> OBVIOUS
  <1> QED BY <1>1, <1>2, <1>3, <1>4 DEF x

LEMMA PartsAreLines ==
  ASSUME NEW dirs, NEW transport, NEW direction
  PROVE  /\ \A l \in Text!Levels :
              /\ Text!At(l, transport, Text!TransportLines(l)) \in Seq(AllLines(dirs))
              /\ Text!At(l, direction, << <<dirs[l]>> >>) \in Seq(AllLines(dirs))
              /\ SaidAt(l, transport, direction, dirs) \in Seq(AllLines(dirs))
         /\ \A spec \in 0 .. 2 : Msids(spec) \in Seq(AllLines(dirs))
         /\ \A planB : OldForm(planB) \in Seq(AllLines(dirs))
         /\ \A spec \in 0 .. 2 : \A planB :
              Section(transport, direction, dirs, spec, planB) \in Seq(AllLines(dirs))
  <1> DEFINE S == AllLines(dirs)
  <1>0. <<>> \in Seq(S) OBVIOUS
  <1>1. ASSUME NEW l \in Text!Levels
        PROVE  /\ Text!At(l, transport, Text!TransportLines(l)) \in Seq(S)
               /\ Text!At(l, direction, << <<dirs[l]>> >>) \in Seq(S)
               /\ SaidAt(l, transport, direction, dirs) \in Seq(S)
    <2> DEFINE a == <<"ice-ufrag", <<"u", l>> >>  b == <<"ice-pwd", <<"p", l>> >>
               c == <<"fingerprint", "SHA-256", l>>  d == <<dirs[l]>>
               some == {a, b, c, d}
    <2>1. some \subseteq S
      <3> HIDE DEF a, b, c, d
      <3>1. \A k \in Text!Levels :
              LinesAt(k, dirs) \subseteq S
        BY DEF AllLines
      <3> HIDE DEF S
      <3> QED BY <3>1, Zenon DEF LinesAt, a, b, c, d
    <2>2. a \in S /\ b \in S /\ c \in S /\ d \in S
      <3> HIDE DEF a, b, c, d, S
      <3> QED BY <2>1
    <2>3. Text!TransportLines(l) = <<a, b, c>> BY DEF Text!TransportLines
    <2> HIDE DEF a, b, c, d, S
    <2>4. <<a, b, c>> \in Seq(S) /\ <<d>> \in Seq(S) BY <2>2
    <2>5. Text!At(l, transport, Text!TransportLines(l)) \in Seq(S) BY <1>0, <2>3, <2>4 DEF Text!At
    <2>6. Text!At(l, direction, << <<dirs[l]>> >>) \in Seq(S) BY <1>0, <2>4 DEF Text!At, d
    <2> QED BY <2>5, <2>6 DEF SaidAt
  <1>2. /\ <<"msid", "s", "t">> \in S /\ <<"ssrc", 1, "cname", "c">> \in S
        /\ <<"ssrc", 1, "msid", <<"s", "t">> >> \in S
    <2> DEFINE x == <<"msid", "s", "t">>  y == <<"ssrc", 1, "cname", "c">>
               z == <<"ssrc", 1, "msid", <<"s", "t">> >>
    <2>0. StreamLines \subseteq S BY DEF AllLines
    <2>1. {x, y, z} \subseteq S
      <3> HIDE DEF S
      <3> QED BY <2>0, Zenon DEF StreamLines
    <2> HIDE DEF x, y, z, S
    <2>2. x \in S /\ y \in S /\ z \in S BY <2>1
    <2> QED BY <2>2 DEF x, y, z
  <1> HIDE DEF S
  <1>3. \A spec \in 0 .. 2 : Msids(spec) \in Seq(S)
    <2> DEFINE x == <<"msid", "s", "t">>
    <2>1. x \in S BY <1>2
    <2>2. \A n : Msids(n) = [i \in 1 .. n |-> x] BY DEF Msids
    <2> HIDE DEF x
    <2> QED BY <2>1, <2>2
  <1>4. \A planB : OldForm(planB) \in Seq(S)
    <2> DEFINE x == <<"ssrc", 1, "cname", "c">>  y == <<"ssrc", 1, "msid", <<"s", "t">> >>
    <2>1. x \in S /\ y \in S BY <1>2
    <2>2. \A planB : OldForm(planB) = IF planB THEN <<x, y>> ELSE <<>> BY DEF OldForm
    <2> HIDE DEF x, y
    <2>3. <<x, y>> \in Seq(S) BY <2>1
    <2> QED BY <1>0, <2>2, <2>3
  <1>5. ASSUME NEW spec \in 0 .. 2, NEW planB
        PROVE  Section(transport, direction, dirs, spec, planB) \in Seq(S)
    <2> DEFINE a == SaidAt("media", transport, direction, dirs)  b == Msids(spec)  c == OldForm(planB)
    <2>1. a \in Seq(S) /\ b \in Seq(S) /\ c \in Seq(S) BY <1>1, <1>3, <1>4 DEF Text!Levels
    <2>2. Section(transport, direction, dirs, spec, planB) = (a \o b) \o c BY DEF Section
    <2> HIDE DEF a, b, c
    <2> QED BY <2>1, <2>2
  <1> QED BY <1>1, <1>3, <1>4, <1>5 DEF S

(* What the reader finds on one level.                                        *)
FoundAt(l, transport, direction, dirs) ==
  LET Of(A) == Text!LinesOf(SaidAt(l, transport, direction, dirs), A)
  IN /\ Of({"ice-ufrag"}) = Text!At(l, transport, << <<"ice-ufrag", <<"u", l>> >> >>)
     /\ Of({"ice-pwd"}) = Text!At(l, transport, << <<"ice-pwd", <<"p", l>> >> >>)
     /\ Of({"fingerprint"}) = Text!At(l, transport, << <<"fingerprint", "SHA-256", l>> >>)
     /\ Of(Text!DirectionLines) = Text!At(l, direction, << <<dirs[l]>> >>)
     /\ Of({"msid"}) = <<>> /\ Of({"ssrc"}) = <<>>

LEMMA SaidLines ==
  ASSUME NEW l \in Text!Levels, NEW transport, NEW direction,
         NEW dirs \in [Text!Levels -> Text!DirectionLines]
  PROVE  FoundAt(l, transport, direction, dirs)
  <1> DEFINE a == <<"ice-ufrag", <<"u", l>> >>  b == <<"ice-pwd", <<"p", l>> >>
             c == <<"fingerprint", "SHA-256", l>>  d == <<dirs[l]>>
             t == Text!At(l, transport, Text!TransportLines(l))
             e == Text!At(l, direction, <<d>>)
             One(x, A) == IF x[1] \in A THEN <<x>> ELSE <<>>
             D == Text!DirectionLines
  <1>1. a[1] = "ice-ufrag" /\ b[1] = "ice-pwd" /\ c[1] = "fingerprint" /\ d[1] \in D
    OBVIOUS
  <1>2. /\ t = IF l \in transport THEN <<a, b, c>> ELSE <<>>
        /\ e = IF l \in direction THEN <<d>> ELSE <<>>
    BY DEF Text!At, Text!TransportLines
  <1>3. t \in Seq(AllLines(dirs)) /\ e \in Seq(AllLines(dirs))
    BY PartsAreLines
  <1>4. SaidAt(l, transport, direction, dirs) = t \o e BY DEF SaidAt
  <1> HIDE DEF a, b, c, d, t, e, D
  <1>5. ASSUME NEW A
        PROVE  Text!LinesOf(t \o e, A)
                 = (IF l \in transport THEN (One(a, A) \o One(b, A)) \o One(c, A) ELSE <<>>)
                   \o (IF l \in direction THEN One(d, A) ELSE <<>>)
    <2>1. Text!LinesOf(t \o e, A) = Text!LinesOf(t, A) \o Text!LinesOf(e, A) BY <1>3, LinesConcat
    <2>2. \A x : Text!LinesOf(<<x>>, A) = One(x, A) BY LinesSmall
    <2>3. Text!LinesOf(<<>>, A) = <<>> BY LinesSmall
    <2> HIDE DEF One
    <2>4. Text!LinesOf(<<a, b, c>>, A) = (One(a, A) \o One(b, A)) \o One(c, A)
      <3>1. Text!LinesOf(<<a, b, c>>, A)
              = Joined(Text!LinesOf(<<a>>, A), Text!LinesOf(<<b>>, A), Text!LinesOf(<<c>>, A))
        BY LinesOfThree
      <3> QED BY <2>2, <3>1 DEF Joined
    <2>5. Text!LinesOf(t, A) = IF l \in transport THEN (One(a, A) \o One(b, A)) \o One(c, A) ELSE <<>>
      BY <1>2, <2>3, <2>4
    <2>6. Text!LinesOf(e, A) = IF l \in direction THEN One(d, A) ELSE <<>> BY <1>2, <2>2, <2>3
    <2> QED BY <2>1, <2>5, <2>6
  <1>6. /\ (<<>> \o <<>>) \o <<>> = <<>> /\ <<>> \o <<>> = <<>>
        /\ \A x : /\ (<<x>> \o <<>>) \o <<>> = <<x>> /\ (<<>> \o <<x>>) \o <<>> = <<x>>
                  /\ (<<>> \o <<>>) \o <<x>> = <<x>> /\ <<x>> \o <<>> = <<x>> /\ <<>> \o <<x>> = <<x>>
    OBVIOUS
  <1>7. D = {"sendrecv", "sendonly", "recvonly", "inactive"} BY DEF D, Text!DirectionLines
  <1> DEFINE Of(A) == Text!LinesOf(t \o e, A)
  <1>8. /\ Of({"ice-ufrag"}) = Text!At(l, transport, <<a>>)
        /\ Of({"ice-pwd"}) = Text!At(l, transport, <<b>>)
        /\ Of({"fingerprint"}) = Text!At(l, transport, <<c>>)
        /\ Of({"msid"}) = <<>> /\ Of({"ssrc"}) = <<>>
    <2> HIDE DEF Of
    <2>1. Of({"ice-ufrag"}) = Text!At(l, transport, <<a>>)
      <3> DEFINE A == {"ice-ufrag"}
      <3>1. One(a, A) = <<a>> /\ One(b, A) = <<>> /\ One(c, A) = <<>> /\ One(d, A) = <<>>
        BY <1>1, <1>7
      <3> QED BY <1>5, <1>6, <3>1 DEF Of, Text!At
    <2>2. Of({"ice-pwd"}) = Text!At(l, transport, <<b>>)
      <3> DEFINE A == {"ice-pwd"}
      <3>1. One(a, A) = <<>> /\ One(b, A) = <<b>> /\ One(c, A) = <<>> /\ One(d, A) = <<>>
        BY <1>1, <1>7
      <3> QED BY <1>5, <1>6, <3>1 DEF Of, Text!At
    <2>3. Of({"fingerprint"}) = Text!At(l, transport, <<c>>)
      <3> DEFINE A == {"fingerprint"}
      <3>1. One(a, A) = <<>> /\ One(b, A) = <<>> /\ One(c, A) = <<c>> /\ One(d, A) = <<>>
        BY <1>1, <1>7
      <3> QED BY <1>5, <1>6, <3>1 DEF Of, Text!At
    <2>4. \A name \in {"msid", "ssrc"} : Of({name}) = <<>>
      <3> TAKE name \in {"msid", "ssrc"}
      <3> DEFINE A == {name}
      <3>1. One(a, A) = <<>> /\ One(b, A) = <<>> /\ One(c, A) = <<>> /\ One(d, A) = <<>>
        BY <1>1, <1>7
      <3> QED BY <1>5, <1>6, <3>1 DEF Of
    <2> QED BY <2>1, <2>2, <2>3, <2>4
  <1>9. Of(D) = e
    <2>1. One(a, D) = <<>> /\ One(b, D) = <<>> /\ One(c, D) = <<>> /\ One(d, D) = <<d>>
      BY <1>1, <1>7
    <2> HIDE DEF One
    <2> QED BY <1>2, <1>5, <1>6, <2>1
  <1> QED BY <1>4, <1>8, <1>9 DEF FoundAt, a, b, c, d, e, D

LEMMA StreamParts ==
  ASSUME NEW spec \in 0 .. 2, NEW planB \in BOOLEAN
  PROVE  /\ Text!LinesOf(Msids(spec), {"msid"}) = Msids(spec)
         /\ Text!LinesOf(OldForm(planB), {"ssrc"}) = OldForm(planB)
         /\ \A A : /\ "msid" \notin A => Text!LinesOf(Msids(spec), A) = <<>>
                   /\ "ssrc" \notin A => Text!LinesOf(OldForm(planB), A) = <<>>
  <1> DEFINE One(x, A) == IF x[1] \in A THEN <<x>> ELSE <<>>
  <1>0. /\ <<>> \o <<>> = <<>>
    OBVIOUS
  <1>1. ASSUME NEW A, NEW x, NEW y, x[1] = y[1]
        PROVE  /\ x[1] \notin A => /\ Text!LinesOf(<<x>>, A) = <<>>
                                   /\ Text!LinesOf(<<x, y>>, A) = <<>>
               /\ x[1] \in A => /\ Text!LinesOf(<<x>>, A) = <<x>>
                                /\ Text!LinesOf(<<x, y>>, A) = <<x, y>>
    <2> DEFINE B == Text!LinesOf(<<x>>, A)  C == Text!LinesOf(<<y>>, A)
    <2>1. B = (IF x[1] \in A THEN <<x>> ELSE <<>>) /\ C = (IF y[1] \in A THEN <<y>> ELSE <<>>)
      BY LinesSmall
    <2>2. Text!LinesOf(<<x, y>>, A) = B \o C BY LinesOfTwo
    <2> HIDE DEF B, C
    <2>3. CASE x[1] \notin A
      <3>1. B = <<>> /\ C = <<>> BY <1>1, <2>1, <2>3
      <3>2. B \o C = <<>> BY <3>1, <1>0
      <3> QED BY <2>2, <2>3, <3>1, <3>2 DEF B
    <2>4. CASE x[1] \in A
      <3>1. B = <<x>> /\ C = <<y>> BY <1>1, <2>1, <2>4
      <3>2. B \o C = <<x>> \o <<y>> BY <3>1
      <3>3. <<x>> \o <<y>> = <<x, y>> BY PairJoined
      <3> QED BY <2>2, <2>4, <3>1, <3>2, <3>3 DEF B
    <2> QED BY <2>3, <2>4
  <1>2. \A A : Text!LinesOf(<<>>, A) = <<>> BY LinesSmall
  <1>3. /\ Text!LinesOf(Msids(spec), {"msid"}) = Msids(spec)
        /\ \A A : "msid" \notin A => Text!LinesOf(Msids(spec), A) = <<>>
    <2> DEFINE x == <<"msid", "s", "t">>
    <2>1. Msids(0) = <<>> /\ Msids(1) = <<x>> /\ Msids(2) = <<x, x>> BY MsidsAre
    <2>2. x[1] = "msid" OBVIOUS
    <2> HIDE DEF x
    <2>3. CASE spec = 0 BY <1>2, <2>1, <2>3
    <2>4. CASE spec = 1 BY <1>1, <2>1, <2>2, <2>4
    <2>5. CASE spec = 2 BY <1>1, <2>1, <2>2, <2>5
    <2> QED BY <2>3, <2>4, <2>5
  <1>4. /\ Text!LinesOf(OldForm(planB), {"ssrc"}) = OldForm(planB)
        /\ \A A : "ssrc" \notin A => Text!LinesOf(OldForm(planB), A) = <<>>
    <2> DEFINE x == <<"ssrc", 1, "cname", "c">>  y == <<"ssrc", 1, "msid", <<"s", "t">> >>
    <2>1. OldForm(planB) = IF planB THEN <<x, y>> ELSE <<>> BY DEF OldForm
    <2>2. x[1] = "ssrc" /\ y[1] = "ssrc" OBVIOUS
    <2> HIDE DEF x, y
    <2>3. CASE planB BY <1>1, <2>1, <2>2, <2>3
    <2>4. CASE ~ planB BY <1>2, <2>1, <2>4
    <2> QED BY <2>3, <2>4
  <1> QED BY <1>3, <1>4

(* What the reader finds in a section, and in the section and the session.    *)
SectionFound(transport, direction, dirs, spec, planB) ==
  LET said == SaidAt("media", transport, direction, dirs)
      session == SaidAt("session", transport, direction, dirs)
      section == Section(transport, direction, dirs, spec, planB)
  IN /\ Text!LinesOf(section, {"msid"}) = Msids(spec)
     /\ Text!LinesOf(section, {"ssrc"}) = OldForm(planB)
     /\ \A A : "msid" \notin A /\ "ssrc" \notin A =>
          Text!LinesOf(section \o session, A)
            = Text!LinesOf(said, A) \o Text!LinesOf(session, A)

LEMMA SectionLines ==
  ASSUME NEW transport, NEW direction, NEW dirs \in [Text!Levels -> Text!DirectionLines],
         NEW spec \in 0 .. 2, NEW planB \in BOOLEAN
  PROVE  SectionFound(transport, direction, dirs, spec, planB)
  <1> DEFINE said == SaidAt("media", transport, direction, dirs)
             session == SaidAt("session", transport, direction, dirs)
             section == Section(transport, direction, dirs, spec, planB)
             a == Msids(spec)
             b == OldForm(planB)
             S == AllLines(dirs)
  <1>1. /\ said \in Seq(S) /\ session \in Seq(S) /\ section \in Seq(S) /\ a \in Seq(S) /\ b \in Seq(S)
    BY PartsAreLines DEF Text!Levels
  <1>2. section = (said \o a) \o b BY DEF Section
  <1>3. Text!LinesOf(said, {"msid"}) = <<>> /\ Text!LinesOf(said, {"ssrc"}) = <<>>
    <2>1. "media" \in Text!Levels BY DEF Text!Levels
    <2>2. FoundAt("media", transport, direction, dirs) BY <2>1, SaidLines
    <2> QED BY <2>2 DEF FoundAt
  <1>4. /\ Text!LinesOf(a, {"msid"}) = a /\ Text!LinesOf(b, {"ssrc"}) = b
        /\ \A A : /\ "msid" \notin A => Text!LinesOf(a, A) = <<>>
                  /\ "ssrc" \notin A => Text!LinesOf(b, A) = <<>>
    BY StreamParts
  <1> HIDE DEF said, session, section, a, b, S
  <1>5. ASSUME NEW A
        PROVE  Text!LinesOf(section, A)
                 = (Text!LinesOf(said, A) \o Text!LinesOf(a, A)) \o Text!LinesOf(b, A)
    <2> DEFINE c == said \o a
    <2>1. c \in Seq(S) BY <1>1
    <2>0. said \in Seq(S) /\ a \in Seq(S) /\ b \in Seq(S) BY <1>1
    <2>2. Text!LinesOf(said \o a, A) = Text!LinesOf(said, A) \o Text!LinesOf(a, A)
      BY <2>0, LinesConcat
    <2> HIDE DEF c
    <2>3. Text!LinesOf(c \o b, A) = Text!LinesOf(c, A) \o Text!LinesOf(b, A) BY <2>0, <2>1, LinesConcat
    <2>4. section = c \o b BY <1>2 DEF c
    <2> QED BY <2>2, <2>3, <2>4 DEF c
  <1>6. \A s \in Seq(S) : (<<>> \o s) \o <<>> = s /\ (<<>> \o <<>>) \o s = s /\ (s \o <<>>) \o <<>> = s
    OBVIOUS
  <1>7. Text!LinesOf(section, {"msid"}) = a
    <2>1. Text!LinesOf(section, {"msid"}) = (<<>> \o a) \o <<>> BY <1>3, <1>4, <1>5
    <2> QED BY <1>1, <1>6, <2>1
  <1>8. Text!LinesOf(section, {"ssrc"}) = b
    <2>1. Text!LinesOf(section, {"ssrc"}) = (<<>> \o <<>>) \o b BY <1>3, <1>4, <1>5
    <2> QED BY <1>1, <1>6, <2>1
  <1>9. ASSUME NEW A, "msid" \notin A, "ssrc" \notin A
        PROVE  Text!LinesOf(section \o session, A) = Text!LinesOf(said, A) \o Text!LinesOf(session, A)
    <2> DEFINE x == Text!LinesOf(said, A)
    <2>1. x \in Seq(S)
      <3>1. x = Pick(said, {i \in DOMAIN said : said[i][1] \in A}) BY SamePick DEF Text!LinesOf
      <3> QED BY <1>1, <3>1, PickPlaces
    <2>2. Text!LinesOf(section, A) = (x \o <<>>) \o <<>> BY <1>4, <1>5, <1>9
    <2>3. (x \o <<>>) \o <<>> = x BY <1>6, <2>1
    <2>4. Text!LinesOf(section \o session, A) = Text!LinesOf(section, A) \o Text!LinesOf(session, A)
      <3>1. section \in Seq(S) /\ session \in Seq(S) BY <1>1
      <3> HIDE DEF x
      <3> QED BY <3>1, LinesConcat
    <2> QED BY <2>2, <2>3, <2>4
  <1> QED BY <1>7, <1>8, <1>9 DEF SectionFound, said, session, section, a, b

(* What is said by the media section comes first, then what by the session.   *)
From(levels) == IF "media" \in levels THEN "media" ELSE "session"
Both(levels, x, y) == Text!At("media", levels, <<x>>) \o Text!At("session", levels, <<y>>)

LEMMA BothAre ==
  ASSUME NEW levels \in SUBSET Text!Levels, NEW x, NEW y
  PROVE  \/ levels = {} /\ Both(levels, x, y) = <<>>
         \/ levels = {"media"} /\ Both(levels, x, y) = <<x>>
         \/ levels = {"session"} /\ Both(levels, x, y) = <<y>>
         \/ levels = {"media", "session"} /\ Both(levels, x, y) = <<x, y>>
  <1>1. \/ levels = {} \/ levels = {"media"} \/ levels = {"session"}
        \/ levels = {"media", "session"}
    BY DEF Text!Levels
  <1>2. <<>> \o <<>> = <<>> /\ <<x>> \o <<>> = <<x>> /\ <<>> \o <<y>> = <<y>> OBVIOUS
  <1>3. <<x>> \o <<y>> = <<x, y>> BY PairJoined
  <1>4. CASE levels = {} BY <1>2, <1>4 DEF Both, Text!At
  <1>5. CASE levels = {"media"} BY <1>2, <1>5 DEF Both, Text!At
  <1>6. CASE levels = {"session"} BY <1>2, <1>6 DEF Both, Text!At
  <1>7. CASE levels = {"media", "session"}
    <2>1. Both(levels, x, y) = <<x>> \o <<y>> BY <1>7 DEF Both, Text!At
    <2> QED BY <1>3, <1>7, <2>1
  <1> QED BY <1>1, <1>4, <1>5, <1>6, <1>7

LEMMA BothFirst ==
  ASSUME NEW levels \in SUBSET Text!Levels, NEW x, NEW y
  PROVE  /\ Both(levels, x, y) = <<>> <=> levels = {}
         /\ levels # {} => Both(levels, x, y)[1] = IF From(levels) = "media" THEN x ELSE y
  <1>1. <<x>>[1] = x /\ <<y>>[1] = y /\ <<x, y>>[1] = x /\ <<x>> # <<>> /\ <<y>> # <<>> /\ <<x, y>> # <<>>
    OBVIOUS
  <1> DEFINE b == Both(levels, x, y)
  <1>2. \/ levels = {} /\ b = <<>>
        \/ levels = {"media"} /\ b = <<x>>
        \/ levels = {"session"} /\ b = <<y>>
        \/ levels = {"media", "session"} /\ b = <<x, y>>
    BY BothAre
  <1> HIDE DEF b
  <1>3. (b = <<>> <=> levels = {}) /\ (levels # {} => b[1] = IF From(levels) = "media" THEN x ELSE y)
    <2>1. CASE levels = {} /\ b = <<>> BY <2>1
    <2>2. CASE levels = {"media"} /\ b = <<x>> BY <1>1, <2>2 DEF From
    <2>3. CASE levels = {"session"} /\ b = <<y>> BY <1>1, <2>3 DEF From
    <2>4. CASE levels = {"media", "session"} /\ b = <<x, y>> BY <1>1, <2>4 DEF From
    <2> QED BY <1>2, <2>1, <2>2, <2>3, <2>4
  <1> QED BY <1>3 DEF b

LEMMA BothSize ==
  ASSUME NEW levels \in SUBSET Text!Levels, NEW x, NEW y
  PROVE  /\ DOMAIN Both(levels, x, y) = 1 .. Cardinality(levels)
         /\ Cardinality(levels) \in Nat
         /\ levels # {} => Cardinality(levels) >= 1
  <1>1. /\ Cardinality({}) = 0 /\ Cardinality({"media"}) = 1 /\ Cardinality({"session"}) = 1
    BY FS_EmptySet, FS_Singleton
  <1>2. Cardinality({"media", "session"}) = 2
    <2>1. "session" \notin {"media"} /\ {"media"} \cup {"session"} = {"media", "session"} OBVIOUS
    <2>2. IsFiniteSet({"media"}) BY FS_Singleton
    <2>3. Cardinality({"media"} \cup {"session"}) = Cardinality({"media"}) + 1
      BY <2>1, <2>2, FS_AddElement
    <2> QED BY <1>1, <2>1, <2>3
  <1>3. DOMAIN <<>> = 1 .. 0 /\ DOMAIN <<x>> = 1 .. 1 /\ DOMAIN <<y>> = 1 .. 1 /\ DOMAIN <<x, y>> = 1 .. 2
    OBVIOUS
  <1> DEFINE b == Both(levels, x, y)
  <1>4. \/ levels = {} /\ b = <<>>
        \/ levels = {"media"} /\ b = <<x>>
        \/ levels = {"session"} /\ b = <<y>>
        \/ levels = {"media", "session"} /\ b = <<x, y>>
    BY BothAre
  <1> HIDE DEF b
  <1>5. CASE levels = {} /\ b = <<>> BY <1>1, <1>3, <1>5 DEF b
  <1>6. CASE levels = {"media"} /\ b = <<x>> BY <1>1, <1>3, <1>6 DEF b
  <1>7. CASE levels = {"session"} /\ b = <<y>> BY <1>1, <1>3, <1>7 DEF b
  <1>8. CASE levels = {"media", "session"} /\ b = <<x, y>> BY <1>2, <1>3, <1>8 DEF b
  <1> QED BY <1>4, <1>5, <1>6, <1>7, <1>8

LEMMA MediaFound ==
  ASSUME NEW transport \in SUBSET Text!Levels, NEW direction \in SUBSET Text!Levels,
         NEW dirs \in [Text!Levels -> Text!DirectionLines],
         NEW spec \in 0 .. 2, NEW planB \in BOOLEAN
  PROVE  LET session == SaidAt("session", transport, direction, dirs)
             section == Section(transport, direction, dirs, spec, planB)
         IN /\ Text!MatchPrefix(section \o session, "ice-ufrag")
                 = Both(transport, <<"ice-ufrag", <<"u", "media">> >>, <<"ice-ufrag", <<"u", "session">> >>)
            /\ Text!MatchPrefix(section \o session, "ice-pwd")
                 = Both(transport, <<"ice-pwd", <<"p", "media">> >>, <<"ice-pwd", <<"p", "session">> >>)
            /\ Text!MatchPrefix(section \o session, "fingerprint")
                 = Both(transport, <<"fingerprint", "SHA-256", "media">>,
                                   <<"fingerprint", "SHA-256", "session">>)
            /\ Text!LinesOf(section \o session, Text!DirectionLines)
                 = Both(direction, <<dirs["media"]>>, <<dirs["session"]>>)
            /\ Text!MatchPrefix(section, "msid") = Msids(spec)
            /\ Text!MatchPrefix(section, "ssrc") = OldForm(planB)
  <1> DEFINE said == SaidAt("media", transport, direction, dirs)
             session == SaidAt("session", transport, direction, dirs)
             section == Section(transport, direction, dirs, spec, planB)
  <1>1. FoundAt("media", transport, direction, dirs) /\ FoundAt("session", transport, direction, dirs)
    <2>1. "media" \in Text!Levels /\ "session" \in Text!Levels BY DEF Text!Levels
    <2> QED BY <2>1, SaidLines
  <1>2. /\ Text!LinesOf(section, {"msid"}) = Msids(spec)
        /\ Text!LinesOf(section, {"ssrc"}) = OldForm(planB)
        /\ \A A : "msid" \notin A /\ "ssrc" \notin A =>
             Text!LinesOf(section \o session, A) = Text!LinesOf(said, A) \o Text!LinesOf(session, A)
    <2>1. SectionFound(transport, direction, dirs, spec, planB) BY SectionLines
    <2> QED BY <2>1, Zenon DEF SectionFound
  <1>3. Text!LinesOf(section \o session, {"ice-ufrag"})
          = Text!LinesOf(said, {"ice-ufrag"}) \o Text!LinesOf(session, {"ice-ufrag"})
    <2> HIDE DEF said, session, section
    <2> QED BY <1>2
  <1>4. Text!LinesOf(section \o session, {"ice-pwd"})
          = Text!LinesOf(said, {"ice-pwd"}) \o Text!LinesOf(session, {"ice-pwd"})
    <2> HIDE DEF said, session, section
    <2> QED BY <1>2
  <1>5. Text!LinesOf(section \o session, {"fingerprint"})
          = Text!LinesOf(said, {"fingerprint"}) \o Text!LinesOf(session, {"fingerprint"})
    <2> HIDE DEF said, session, section
    <2> QED BY <1>2
  <1>6. Text!LinesOf(section \o session, Text!DirectionLines)
          = Text!LinesOf(said, Text!DirectionLines) \o Text!LinesOf(session, Text!DirectionLines)
    <2> DEFINE D == Text!DirectionLines
    <2>1. "msid" \notin D /\ "ssrc" \notin D BY DEF Text!DirectionLines
    <2> HIDE DEF said, session, section, D
    <2>2. Text!LinesOf(section \o session, D) = Text!LinesOf(said, D) \o Text!LinesOf(session, D)
      BY <1>2, <2>1
    <2> QED BY <2>2 DEF D
  <1>7. Text!MatchPrefix(section, "msid") = Msids(spec) /\ Text!MatchPrefix(section, "ssrc") = OldForm(planB)
    BY <1>2 DEF Text!MatchPrefix
  <1>8. Text!MatchPrefix(section \o session, "ice-ufrag")
          = Both(transport, <<"ice-ufrag", <<"u", "media">> >>, <<"ice-ufrag", <<"u", "session">> >>)
    BY <1>1, <1>3, Zenon DEF FoundAt, Both, Text!MatchPrefix
  <1>9. Text!MatchPrefix(section \o session, "ice-pwd")
          = Both(transport, <<"ice-pwd", <<"p", "media">> >>, <<"ice-pwd", <<"p", "session">> >>)
    BY <1>1, <1>4, Zenon DEF FoundAt, Both, Text!MatchPrefix
  <1>10. Text!MatchPrefix(section \o session, "fingerprint")
           = Both(transport, <<"fingerprint", "SHA-256", "media">>,
                             <<"fingerprint", "SHA-256", "session">>)
    BY <1>1, <1>5, Zenon DEF FoundAt, Both, Text!MatchPrefix
  <1>11. Text!LinesOf(section \o session, Text!DirectionLines)
           = Both(direction, <<dirs["media"]>>, <<dirs["session"]>>)
    BY <1>1, <1>6, Zenon DEF FoundAt, Both
  <1> QED BY <1>7, <1>8, <1>9, <1>10, <1>11

LEMMA TransportRead ==
  ASSUME NEW section, NEW session, NEW transport \in SUBSET Text!Levels,
         Text!MatchPrefix(section \o session, "ice-ufrag")
           = Both(transport, <<"ice-ufrag", <<"u", "media">> >>, <<"ice-ufrag", <<"u", "session">> >>),
         Text!MatchPrefix(section \o session, "ice-pwd")
           = Both(transport, <<"ice-pwd", <<"p", "media">> >>, <<"ice-pwd", <<"p", "session">> >>),
         Text!MatchPrefix(section \o session, "fingerprint")
           = Both(transport, <<"fingerprint", "SHA-256", "media">>, <<"fingerprint", "SHA-256", "session">>)
  PROVE  /\ Text!GetIceParameters(section, session)
              = IF transport = {} THEN <<>> ELSE << <<"u", From(transport)>>, <<"p", From(transport)>> >>
         /\ Len(Text!GetDtlsParameters(section, session)) = Cardinality(transport)
         /\ transport # {} => Text!GetDtlsParameters(section, session)[1]
                                = [algorithm |-> "sha-256", value |-> From(transport)]
  <1> DEFINE f == Text!MatchPrefix(section \o session, "fingerprint")
             u == Text!MatchPrefix(section \o session, "ice-ufrag")
             p == Text!MatchPrefix(section \o session, "ice-pwd")
  <1>1. /\ u = <<>> <=> transport = {}
        /\ transport # {} => u[1] = <<"ice-ufrag", <<"u", From(transport)>> >>
    <2> DEFINE x == <<"ice-ufrag", <<"u", "media">> >>  y == <<"ice-ufrag", <<"u", "session">> >>
    <2>1. u = Both(transport, x, y) BY Zenon
    <2> HIDE DEF u, x, y
    <2>2. /\ Both(transport, x, y) = <<>> <=> transport = {}
          /\ transport # {} => Both(transport, x, y)[1] = IF From(transport) = "media" THEN x ELSE y
      BY BothFirst
    <2>3. From(transport) = "media" \/ From(transport) = "session" BY DEF From
    <2> QED BY <2>1, <2>2, <2>3 DEF x, y
  <1>2. /\ p = <<>> <=> transport = {}
        /\ transport # {} => p[1] = <<"ice-pwd", <<"p", From(transport)>> >>
    <2> DEFINE x == <<"ice-pwd", <<"p", "media">> >>  y == <<"ice-pwd", <<"p", "session">> >>
    <2>1. p = Both(transport, x, y) BY Zenon
    <2> HIDE DEF p, x, y
    <2>2. /\ Both(transport, x, y) = <<>> <=> transport = {}
          /\ transport # {} => Both(transport, x, y)[1] = IF From(transport) = "media" THEN x ELSE y
      BY BothFirst
    <2>3. From(transport) = "media" \/ From(transport) = "session" BY DEF From
    <2> QED BY <2>1, <2>2, <2>3 DEF x, y
  <1>3. /\ transport # {} => f[1] = <<"fingerprint", "SHA-256", From(transport)>>
        /\ DOMAIN f = 1 .. Cardinality(transport) /\ Cardinality(transport) \in Nat
        /\ transport # {} => Cardinality(transport) >= 1
    <2> DEFINE x == <<"fingerprint", "SHA-256", "media">>  y == <<"fingerprint", "SHA-256", "session">>
    <2>1. f = Both(transport, x, y) BY Zenon
    <2> HIDE DEF f, x, y
    <2>2. /\ Both(transport, x, y) = <<>> <=> transport = {}
          /\ transport # {} => Both(transport, x, y)[1] = IF From(transport) = "media" THEN x ELSE y
      BY BothFirst
    <2>3. From(transport) = "media" \/ From(transport) = "session" BY DEF From
    <2>4. /\ DOMAIN Both(transport, x, y) = 1 .. Cardinality(transport)
          /\ Cardinality(transport) \in Nat
          /\ transport # {} => Cardinality(transport) >= 1
      BY BothSize
    <2> QED BY <2>1, <2>2, <2>3, <2>4 DEF x, y
  <1>4. Text!GetIceParameters(section, session)
          = IF u = <<>> \/ p = <<>> THEN <<>> ELSE <<u[1][2], p[1][2]>>
    BY DEF Text!GetIceParameters
  <1>5. Text!GetDtlsParameters(section, session)
          = [i \in DOMAIN f |-> [algorithm |-> Text!Lower(f[i][2]), value |-> f[i][3]]]
    BY DEF Text!GetDtlsParameters, Text!Map
  <1> HIDE DEF f, u, p
  <1>6. Text!GetIceParameters(section, session)
          = IF transport = {} THEN <<>> ELSE << <<"u", From(transport)>>, <<"p", From(transport)>> >>
    <2>1. CASE transport = {} BY <1>1, <1>2, <1>4, <2>1
    <2>2. CASE transport # {}
      <3>1. u[1][2] = <<"u", From(transport)>> /\ p[1][2] = <<"p", From(transport)>>
        BY <1>1, <1>2, <2>2
      <3>2. Text!GetIceParameters(section, session) = <<u[1][2], p[1][2]>> BY <1>1, <1>2, <1>4, <2>2
      <3> QED BY <2>2, <3>1, <3>2
    <2> QED BY <2>1, <2>2
  <1>7. Len(Text!GetDtlsParameters(section, session)) = Cardinality(transport)
    <2> DEFINE d == Text!GetDtlsParameters(section, session)  n == Cardinality(transport)
    <2>1. DOMAIN d = 1 .. n /\ n \in Nat BY <1>3, <1>5
    <2>2. d = [i \in 1 .. n |-> d[i]] BY <1>3, <1>5
    <2> HIDE DEF d, n
    <2>3. Len([i \in 1 .. n |-> d[i]]) = n BY <2>1
    <2>4. Len(d) = n BY <2>2, <2>3, Zenon
    <2> QED BY <2>4 DEF d, n
  <1>8. ASSUME transport # {}
        PROVE  Text!GetDtlsParameters(section, session)[1]
                 = [algorithm |-> "sha-256", value |-> From(transport)]
    <2>1. 1 \in DOMAIN f BY <1>3, <1>8
    <2>2. Text!GetDtlsParameters(section, session)[1]
            = [algorithm |-> Text!Lower(f[1][2]), value |-> f[1][3]]
      BY <1>5, <2>1
    <2>3. f[1][2] = "SHA-256" /\ f[1][3] = From(transport) BY <1>3, <1>8
    <2>4. Text!Lower("SHA-256") = "sha-256" BY DEF Text!Lower
    <2> QED BY <2>2, <2>3, <2>4
  <1> QED BY <1>6, <1>7, <1>8

LEMMA MsidRead ==
  ASSUME NEW section, NEW spec \in 0 .. 2, NEW planB \in BOOLEAN,
         Text!MatchPrefix(section, "msid") = Msids(spec),
         Text!MatchPrefix(section, "ssrc") = OldForm(planB)
  PROVE  Text!ParseMsid(section) = <<"s", "t">> <=> spec = 1 \/ planB
  <1> DEFINE x == <<"ssrc", 1, "cname", "c">>  y == <<"ssrc", 1, "msid", <<"s", "t">> >>
             a == [ssrc |-> 1, attribute |-> "cname", value |-> "c"]
             b == [ssrc |-> 1, attribute |-> "msid", value |-> <<"s", "t">>]
             lines == OldForm(planB)
             listed == [i \in DOMAIN lines |-> Text!ParseSsrcMedia(lines[i])]
             passed == {i \in DOMAIN listed : listed[i].attribute = "msid"}
             found == Text!SsrcsWith(section, "msid")
             named == Msids(spec)
  <1>1. found = Pick(listed, passed)
    <2>1. Text!MatchPrefix(section, "ssrc") = lines BY Zenon
    <2>2. found = Text!Pick(listed, passed)
      BY <2>1 DEF Text!SsrcsWith, Text!Map
    <2> HIDE DEF found, listed, passed
    <2> QED BY <2>2, SamePick
  <1>2. lines = IF planB THEN <<x, y>> ELSE <<>> BY DEF OldForm
  <1>3. Text!ParseSsrcMedia(x) = a /\ Text!ParseSsrcMedia(y) = b BY DEF Text!ParseSsrcMedia
  <1>4. a.attribute = "cname" /\ b.attribute = "msid" /\ b.value = <<"s", "t">> OBVIOUS
  <1> HIDE DEF x, y, a, b, lines, found
  <1>5. ASSUME planB PROVE found # <<>> /\ found[1].value = <<"s", "t">>
    <2>1. lines = <<x, y>> BY <1>2, <1>5
    <2>2. DOMAIN lines = 1 .. 2 /\ lines[1] = x /\ lines[2] = y BY <2>1
    <2>3. DOMAIN listed = 1 .. 2 /\ listed[1] = a /\ listed[2] = b BY <1>3, <2>2
    <2>4. listed \in Seq({a, b})
      <3>1. listed \in [1 .. 2 -> {a, b}]
        <4>1. \A i \in 1 .. 2 : i = 1 \/ i = 2 OBVIOUS
        <4>2. \A i \in 1 .. 2 : listed[i] \in {a, b} BY <2>3, <4>1
        <4>3. listed = [i \in 1 .. 2 |-> listed[i]] BY <2>2
        <4> HIDE DEF listed
        <4> QED BY <4>2, <4>3
      <3> DEFINE T == {a, b}
      <3> HIDE DEF listed, T
      <3>2. \A s : s \in [1 .. 2 -> T] => s \in Seq(T)
        <4>1. Seq(T) = UNION {[1 .. n -> T] : n \in Nat} BY SeqDef
        <4>2. 2 \in Nat OBVIOUS
        <4> QED BY <4>1, <4>2, Zenon
      <3>3. listed \in [1 .. 2 -> T] BY <3>1 DEF T
      <3>4. listed \in Seq(T) BY <3>2, <3>3
      <3> QED BY <3>4 DEF T
    <2>5. 2 \in DOMAIN listed \cap passed /\ \A i \in DOMAIN listed \cap passed : i = 2
      BY <1>4, <2>3
    <2> HIDE DEF listed, passed
    <2>6. PICK g : TakenFrom(Pick(listed, passed), listed, passed, g) BY <2>4, PickPlaces
    <2>7. Pick(listed, passed) \in Seq({a, b}) BY <2>4, PickPlaces
    <2>8. found # <<>> /\ found[1] = b
      <3>1. PICK n \in DOMAIN found : g[n] = 2 BY <1>1, <2>5, <2>6 DEF TakenFrom
      <3>2. found \in Seq({a, b}) BY <1>1, <2>7
      <3>3. 1 \in DOMAIN found /\ found # <<>> BY <3>1, <3>2
      <3>4. found[1] = listed[g[1]] /\ g[1] \in DOMAIN listed \cap passed
        BY <1>1, <2>6, <3>3 DEF TakenFrom
      <3> QED BY <2>3, <2>5, <3>3, <3>4
    <2> QED BY <1>4, <2>8
  <1>6. ASSUME ~ planB PROVE found = <<>>
    <2>1. DOMAIN lines = {} BY <1>2, <1>6
    <2>2. listed = <<>> BY <2>1
    <2> HIDE DEF listed, passed
    <2>3. <<>> \in Seq({}) /\ Len(<<>>) = 0 OBVIOUS
    <2>4. listed \in Seq({}) /\ Len(listed) = 0 BY <2>2, <2>3
    <2>5. PICK f : Unfolds(listed, passed, f) BY <2>4, PickUnfolds
    <2>6. Pick(listed, passed) = f[Len(listed)] /\ f[0] = <<>> BY <2>5 DEF Unfolds
    <2> QED BY <1>1, <2>4, <2>6
  <1>7. Text!ParseMsid(section)
          = CASE Len(named) = 1 -> Tail(named[1])
              [] Len(named) # 1 /\ found # <<>> -> found[1].value
              [] OTHER -> <<>>
    <2>1. Text!MatchPrefix(section, "msid") = named BY Zenon
    <2> HIDE DEF named
    <2> QED BY <2>1 DEF Text!ParseMsid, found
  <1>8. <<>> # <<"s", "t">> OBVIOUS
  <1>9. CASE spec = 1
    <2> DEFINE m == <<"msid", "s", "t">>
    <2>1. Tail(m) = <<"s", "t">>
      <3> DEFINE t == Tail(m)  q == <<"s", "t">>
      <3>1. t \in Seq({"msid", "s", "t"}) /\ Len(t) = 2 /\ t[1] = "s" /\ t[2] = "t" OBVIOUS
      <3>2. q \in Seq({"msid", "s", "t"}) /\ Len(q) = 2 /\ q[1] = "s" /\ q[2] = "t" OBVIOUS
      <3> HIDE DEF t, q
      <3>3. \A i \in 1 .. 2 : t[i] = q[i] BY <3>1, <3>2
      <3>4. t = q BY <3>1, <3>2, <3>3, SeqEqual
      <3> QED BY <3>4 DEF t, q
    <2>2. named = <<m>> BY <1>9, MsidsAre
    <2> HIDE DEF named, m
    <2>3. Len(named) = 1 /\ named[1] = m BY <2>2
    <2> QED BY <1>7, <1>9, <2>1, <2>3
  <1>10. ASSUME spec # 1 PROVE Len(named) # 1
    <2> DEFINE m == <<"msid", "s", "t">>
    <2>1. spec = 0 \/ spec = 2 BY <1>10
    <2>2. Msids(0) = <<>> /\ Msids(2) = <<m, m>> BY MsidsAre
    <2> HIDE DEF m
    <2>3. Len(<<>>) = 0 /\ Len(<<m, m>>) = 2 OBVIOUS
    <2> QED BY <2>1, <2>2, <2>3
  <1> HIDE DEF named
  <1>11. CASE spec # 1 /\ planB
    <2>1. Len(named) # 1 BY <1>10, <1>11
    <2> QED BY <1>5, <1>7, <1>11, <2>1
  <1>12. CASE spec # 1 /\ ~ planB
    <2>1. Len(named) # 1 BY <1>10, <1>12
    <2> QED BY <1>6, <1>7, <1>8, <1>12, <2>1
  <1> QED BY <1>9, <1>11, <1>12

(* A behaviour sends one thing and reads it once.                             *)
CandidateSent(c) ==
  /\ input = [type |-> "candidate", value |-> c] /\ text = Text!WriteCandidate(c)
  /\ \/ read = <<>>
     \/ \E extension \in Extensions :
          LET r == Text!ParseCandidate(Received(c, extension))
          IN read = <<r>> /\ again = Text!WriteCandidate(r)

SctpSent(media, sctp) ==
  /\ input = [type |-> "sctp", media |-> media, value |-> sctp]
  /\ text = Text!WriteSctpDescription(media, sctp)
  /\ read = <<>> \/ read = <<Text!ParseSctpDescription(text)>>

MediaSent(transport, direction, dirs, spec, planB) ==
  LET session == SaidAt("session", transport, direction, dirs)
      section == Section(transport, direction, dirs, spec, planB)
  IN /\ input = [type |-> "media", transport |-> transport, direction |-> direction,
                 dirs |-> dirs, spec |-> spec, planB |-> planB]
     /\ text = [session |-> session, media |-> section]
     /\ \/ read = <<>>
        \/ read = <<[ice |-> Text!GetIceParameters(section, session),
                     dtls |-> Text!GetDtlsParameters(section, session),
                     direction |-> Text!GetDirection(section, session),
                     msid |-> Text!ParseMsid(section)]>>

TextInv ==
  \/ input = Text!Nothing /\ read = <<>>
  \/ \E c \in Text!LocalCandidates : CandidateSent(c)
  \/ \E media \in Text!SctpMedia, sctp \in Text!SctpParameters : SctpSent(media, sctp)
  \/ \E transport, direction \in SUBSET Text!Levels, dirs \in [Text!Levels -> Text!DirectionLines],
        spec \in 0 .. 2, planB \in BOOLEAN : MediaSent(transport, direction, dirs, spec, planB)

LEMMA SentTypes ==
  /\ Text!Nothing.type = "none"
  /\ \A c : CandidateSent(c) => input.type = "candidate"
  /\ \A media, sctp : SctpSent(media, sctp) => input.type = "sctp"
  /\ \A transport, direction, dirs, spec, planB :
       MediaSent(transport, direction, dirs, spec, planB) => input.type = "media"
  <1>1. Text!Nothing.type = "none" BY DEF Text!Nothing
  <1>2. \A c : CandidateSent(c) => input.type = "candidate" BY DEF CandidateSent
  <1>3. \A media, sctp : SctpSent(media, sctp) => input.type = "sctp" BY DEF SctpSent
  <1>4. ASSUME NEW transport, NEW direction, NEW dirs, NEW spec, NEW planB,
               MediaSent(transport, direction, dirs, spec, planB)
        PROVE  input.type = "media"
    <2>1. input = [type |-> "media", transport |-> transport, direction |-> direction,
                   dirs |-> dirs, spec |-> spec, planB |-> planB]
      BY <1>4, Zenon DEF MediaSent
    <2> QED BY <2>1
  <1> QED BY <1>1, <1>2, <1>3, <1>4

LEMMA TextStart == Text!Init => TextInv
  BY DEF Text!Init, TextInv

LEMMA TextStep == TextInv /\ [Text!Next]_textVars => TextInv'
  <1> SUFFICES ASSUME TextInv, [Text!Next]_textVars PROVE TextInv' OBVIOUS
  <1>1. CASE Text!SendCandidate
    <2>1. PICK c \in Text!LocalCandidates :
            input' = [type |-> "candidate", value |-> c] /\ text' = Text!WriteCandidate(c)
      BY <1>1, Zenon DEF Text!SendCandidate
    <2>2. input = Text!Nothing /\ read' = read BY <1>1, Zenon DEF Text!SendCandidate
    <2>3. read = <<>> BY <2>2, SentTypes DEF TextInv
    <2>4. CandidateSent(c)' BY <2>1, <2>2, <2>3, Zenon DEF CandidateSent
    <2> QED BY <2>4, Zenon DEF TextInv
  <1>2. CASE Text!SendSctp
    <2>1. PICK media \in Text!SctpMedia, sctp \in Text!SctpParameters :
            /\ input' = [type |-> "sctp", media |-> media, value |-> sctp]
            /\ text' = Text!WriteSctpDescription(media, sctp)
      BY <1>2, Zenon DEF Text!SendSctp
    <2>2. input = Text!Nothing /\ read' = read BY <1>2, Zenon DEF Text!SendSctp
    <2>3. read = <<>> BY <2>2, SentTypes DEF TextInv
    <2>4. SctpSent(media, sctp)' BY <2>1, <2>2, <2>3, Zenon DEF SctpSent
    <2> QED BY <2>4, Zenon DEF TextInv
  <1>3. CASE Text!SendMedia
    <2>1. PICK transport \in SUBSET Text!Levels, direction \in SUBSET Text!Levels, spec \in 0 .. 2,
               planB \in BOOLEAN, dirs \in [Text!Levels -> Text!DirectionLines] :
            /\ input' = [type |-> "media", transport |-> transport, direction |-> direction,
                         dirs |-> dirs, spec |-> spec, planB |-> planB]
            /\ text' = [session |-> SaidAt("session", transport, direction, dirs),
                        media |-> Section(transport, direction, dirs, spec, planB)]
      BY <1>3, Zenon DEF Text!SendMedia, SaidAt, Section, Msids, OldForm
    <2>2. input = Text!Nothing /\ read' = read BY <1>3, Zenon DEF Text!SendMedia
    <2>3. read = <<>> BY <2>2, SentTypes DEF TextInv
    <2>4. MediaSent(transport, direction, dirs, spec, planB)' BY <2>1, <2>2, <2>3, Zenon DEF MediaSent
    <2> QED BY <2>4, Zenon DEF TextInv
  <1>4. CASE Text!ReceiveCandidate
    <2>1. input.type = "candidate" /\ input' = input /\ text' = text
      BY <1>4, Zenon DEF Text!ReceiveCandidate
    <2>2. PICK c \in Text!LocalCandidates : CandidateSent(c)
      BY <2>1, SentTypes DEF TextInv
    <2>3. text = Text!WriteCandidate(c) BY <2>2 DEF CandidateSent
    <2>4. PICK extension \in Extensions :
            LET r == Text!ParseCandidate(SubSeq(text, 1, 9) \o extension \o SubSeq(text, 10, Len(text)))
            IN read' = <<r>> /\ again' = Text!WriteCandidate(r)
      BY <1>4, Zenon DEF Text!ReceiveCandidate, Extensions
    <2>5. Received(c, extension) = SubSeq(text, 1, 9) \o extension \o SubSeq(text, 10, Len(text))
      BY <2>3, Zenon DEF Received
    <2>6. CandidateSent(c)'
      <3>1. input' = [type |-> "candidate", value |-> c] /\ text' = Text!WriteCandidate(c)
        BY <2>1, <2>2, Zenon DEF CandidateSent
      <3>2. LET r == Text!ParseCandidate(Received(c, extension))
            IN read' = <<r>> /\ again' = Text!WriteCandidate(r)
        BY <2>4, <2>5, Zenon
      <3> QED BY <3>1, <3>2, Zenon DEF CandidateSent
    <2> QED BY <2>6, Zenon DEF TextInv
  <1>5. CASE Text!ReceiveSctp
    <2>1. input.type = "sctp" /\ input' = input /\ text' = text
      BY <1>5, Zenon DEF Text!ReceiveSctp
    <2>2. PICK media \in Text!SctpMedia, sctp \in Text!SctpParameters : SctpSent(media, sctp)
      BY <2>1, SentTypes DEF TextInv
    <2>3. read' = <<Text!ParseSctpDescription(text)>> BY <1>5, Zenon DEF Text!ReceiveSctp
    <2>4. SctpSent(media, sctp)' BY <2>1, <2>2, <2>3, Zenon DEF SctpSent
    <2> QED BY <2>4, Zenon DEF TextInv
  <1>6. CASE Text!ReceiveMedia
    <2>1. input.type = "media" /\ input' = input /\ text' = text
      BY <1>6, Zenon DEF Text!ReceiveMedia
    <2>2. PICK transport \in SUBSET Text!Levels, direction \in SUBSET Text!Levels,
               dirs \in [Text!Levels -> Text!DirectionLines], spec \in 0 .. 2, planB \in BOOLEAN :
            MediaSent(transport, direction, dirs, spec, planB)
      BY <2>1, SentTypes DEF TextInv
    <2> DEFINE session == SaidAt("session", transport, direction, dirs)
               section == Section(transport, direction, dirs, spec, planB)
    <2>3. text = [session |-> session, media |-> section] BY <2>2, Zenon DEF MediaSent
    <2> HIDE DEF session, section
    <2>4. text.media = section /\ text.session = session BY <2>3
    <2>5. read' = <<[ice |-> Text!GetIceParameters(section, session),
                     dtls |-> Text!GetDtlsParameters(section, session),
                     direction |-> Text!GetDirection(section, session),
                     msid |-> Text!ParseMsid(section)]>>
      BY <1>6, <2>4, Zenon DEF Text!ReceiveMedia
    <2>6. MediaSent(transport, direction, dirs, spec, planB)'
      BY <2>1, <2>2, <2>5, Zenon DEF MediaSent, session, section
    <2> QED BY <2>6, Zenon DEF TextInv
  <1>7. CASE UNCHANGED textVars
    BY <1>7 DEF textVars, TextInv, CandidateSent, SctpSent, MediaSent
  <1> QED BY <1>1, <1>2, <1>3, <1>4, <1>5, <1>6, <1>7 DEF Text!Next

LEMMA CandidateGood ==
  ASSUME NEW c \in Text!LocalCandidates, CandidateSent(c)
  PROVE  Text!TextArrives
  <1>1. input.type = "candidate" /\ input.value = c /\ text = Text!WriteCandidate(c)
    BY DEF CandidateSent
  <1>2. /\ Text!SctpArrives /\ Text!MediaLevelWins /\ Text!StreamFound
    BY <1>1 DEF Text!SctpArrives, Text!MediaLevelWins, Text!StreamFound
  <1>3. CASE read = <<>>
    BY <1>2, <1>3 DEF Text!TextArrives, Text!CandidateTextFinal, Text!CandidateArrives
  <1>4. CASE read # <<>>
    <2>1. PICK extension \in Extensions :
            LET r == Text!ParseCandidate(Received(c, extension))
            IN read = <<r>> /\ again = Text!WriteCandidate(r)
      BY <1>4, Zenon DEF CandidateSent
    <2> DEFINE r == Text!ParseCandidate(Received(c, extension))
    <2>2. read[1] = r /\ again = Text!WriteCandidate(r) BY <2>1
    <2>3. /\ Text!WriteCandidate(r) = Text!WriteCandidate(c)
          /\ r.foundation = c.foundation /\ r.component = c.component
          /\ r.protocol = c.protocol /\ r.priority = c.priority
          /\ r.address = c.address /\ r.port = c.port /\ r.type = c.type
          /\ r.usernameFragment = c.usernameFragment
          /\ r.relatedAddress = IF HasRelated(c) THEN c.relatedAddress ELSE ""
          /\ r.relatedPort = IF HasRelated(c) THEN c.relatedPort ELSE 0
          /\ r.tcpType = IF HasTcpType(c) THEN c.tcpType ELSE ""
      BY CandidateFinal
    <2> HIDE DEF r
    <2>4. Text!CandidateTextFinal BY <1>1, <2>2, <2>3 DEF Text!CandidateTextFinal
    <2>5. \A f \in {"foundation", "component", "protocol", "priority", "address", "port", "type",
                    "usernameFragment"} : r[f] = c[f]
      BY <2>3
    <2>6. /\ r.relatedAddress = "" <=> r.relatedPort = 0
          /\ r.relatedAddress \in {"", c.relatedAddress} /\ r.relatedPort \in {0, c.relatedPort}
      BY <2>3 DEF HasRelated
    <2>7. r.tcpType # "" => r.protocol = "tcp"
      <3>1. c.protocol = "udp" \/ c.protocol = "tcp" BY DEF Text!LocalCandidates
      <3>2. Text!Lower("udp") = "udp" BY DEF Text!Lower
      <3> QED BY <2>3, <3>1, <3>2 DEF HasTcpType
    <2>8. Text!CandidateArrives BY <1>1, <2>2, <2>5, <2>6, <2>7, Zenon DEF Text!CandidateArrives
    <2> QED BY <1>2, <2>4, <2>8 DEF Text!TextArrives
  <1> QED BY <1>3, <1>4

LEMMA SctpGood ==
  ASSUME NEW media \in Text!SctpMedia, NEW sctp \in Text!SctpParameters, SctpSent(media, sctp)
  PROVE  Text!TextArrives
  <1>1. /\ input.type = "sctp" /\ input.value = sctp
        /\ text = Text!WriteSctpDescription(media, sctp)
        /\ read = <<>> \/ read = <<Text!ParseSctpDescription(text)>>
    BY DEF SctpSent
  <1>2. /\ Text!CandidateTextFinal /\ Text!CandidateArrives /\ Text!MediaLevelWins /\ Text!StreamFound
    BY <1>1 DEF Text!CandidateTextFinal, Text!CandidateArrives, Text!MediaLevelWins, Text!StreamFound
  <1>3. CASE read = <<>> BY <1>2, <1>3 DEF Text!TextArrives, Text!SctpArrives
  <1>4. CASE read # <<>>
    <2> DEFINE r == Text!ParseSctpDescription(Text!WriteSctpDescription(media, sctp))
    <2>1. read[1] = r BY <1>1, <1>4
    <2>2. /\ r.port = sctp.port /\ r.protocol = sctp.protocol
          /\ r.maxMessageSize = IF sctp.maxMessageSize = Text!Undefined THEN 65536
                                ELSE sctp.maxMessageSize
      BY SctpRead
    <2> HIDE DEF r
    <2>3. Text!SctpArrives BY <1>1, <2>1, <2>2 DEF Text!SctpArrives
    <2> QED BY <1>2, <2>3 DEF Text!TextArrives
  <1> QED BY <1>3, <1>4

LEMMA MediaGood ==
  ASSUME NEW transport \in SUBSET Text!Levels, NEW direction \in SUBSET Text!Levels,
         NEW dirs \in [Text!Levels -> Text!DirectionLines], NEW spec \in 0 .. 2, NEW planB \in BOOLEAN,
         MediaSent(transport, direction, dirs, spec, planB)
  PROVE  Text!TextArrives
  <1> DEFINE session == SaidAt("session", transport, direction, dirs)
             section == Section(transport, direction, dirs, spec, planB)
             r == [ice |-> Text!GetIceParameters(section, session),
                   dtls |-> Text!GetDtlsParameters(section, session),
                   direction |-> Text!GetDirection(section, session),
                   msid |-> Text!ParseMsid(section)]
  <1>1. /\ input = [type |-> "media", transport |-> transport, direction |-> direction,
                    dirs |-> dirs, spec |-> spec, planB |-> planB]
        /\ read = <<>> \/ read = <<r>>
    BY Zenon DEF MediaSent
  <1>2. /\ input.type = "media" /\ input.transport = transport /\ input.direction = direction
        /\ input.dirs = dirs /\ input.spec = spec /\ input.planB = planB
    BY <1>1
  <1>3. /\ Text!CandidateTextFinal /\ Text!CandidateArrives /\ Text!SctpArrives
    BY <1>2 DEF Text!CandidateTextFinal, Text!CandidateArrives, Text!SctpArrives
  <1>4. CASE read = <<>> BY <1>3, <1>4 DEF Text!TextArrives, Text!MediaLevelWins, Text!StreamFound
  <1>5. CASE read # <<>>
    <2>1. /\ Text!MatchPrefix(section \o session, "ice-ufrag")
               = Both(transport, <<"ice-ufrag", <<"u", "media">> >>, <<"ice-ufrag", <<"u", "session">> >>)
          /\ Text!MatchPrefix(section \o session, "ice-pwd")
               = Both(transport, <<"ice-pwd", <<"p", "media">> >>, <<"ice-pwd", <<"p", "session">> >>)
          /\ Text!MatchPrefix(section \o session, "fingerprint")
               = Both(transport, <<"fingerprint", "SHA-256", "media">>,
                                 <<"fingerprint", "SHA-256", "session">>)
          /\ Text!LinesOf(section \o session, Text!DirectionLines)
               = Both(direction, <<dirs["media"]>>, <<dirs["session"]>>)
          /\ Text!MatchPrefix(section, "msid") = Msids(spec)
          /\ Text!MatchPrefix(section, "ssrc") = OldForm(planB)
      BY MediaFound
    <2>2. read[1] = r
      <3> HIDE DEF r
      <3> QED BY <1>1, <1>5
    <2>3. /\ r.ice = Text!GetIceParameters(section, session)
          /\ r.dtls = Text!GetDtlsParameters(section, session)
          /\ r.direction = Text!GetDirection(section, session)
          /\ r.msid = Text!ParseMsid(section)
      <3> HIDE DEF section, session
      <3> QED OBVIOUS
    <2> HIDE DEF session, section, r
    <2>4. /\ Text!GetIceParameters(section, session)
               = IF transport = {} THEN <<>> ELSE << <<"u", From(transport)>>, <<"p", From(transport)>> >>
          /\ Len(Text!GetDtlsParameters(section, session)) = Cardinality(transport)
          /\ transport # {} => Text!GetDtlsParameters(section, session)[1]
                                 = [algorithm |-> "sha-256", value |-> From(transport)]
      BY <2>1, TransportRead
    <2>5. Text!GetDirection(section, session)
            = IF direction = {} THEN "sendrecv" ELSE dirs[From(direction)]
      <3> DEFINE x == <<dirs["media"]>>  y == <<dirs["session"]>>  b == Both(direction, x, y)
      <3>1. Text!GetDirection(section, session) = IF b = <<>> THEN "sendrecv" ELSE b[1][1]
        BY <2>1, Zenon DEF Text!GetDirection
      <3>2. x[1] = dirs["media"] /\ y[1] = dirs["session"] OBVIOUS
      <3> HIDE DEF x, y
      <3>3. /\ b = <<>> <=> direction = {}
            /\ direction # {} => b[1] = IF From(direction) = "media" THEN x ELSE y
        BY BothFirst
      <3>4. From(direction) = "media" \/ From(direction) = "session" BY DEF From
      <3> HIDE DEF b
      <3> QED BY <3>1, <3>2, <3>3, <3>4
    <2>6. Text!ParseMsid(section) = <<"s", "t">> <=> spec = 1 \/ planB
      BY <2>1, MsidRead
    <2>7. Text!Cardinality(transport) = Cardinality(transport)
      BY DEF Text!Cardinality, Cardinality
    <2>8. Text!MediaLevelWins
      <3>1. /\ read[1].ice = IF transport = {} THEN <<>>
                             ELSE << <<"u", From(transport)>>, <<"p", From(transport)>> >>
            /\ Len(read[1].dtls) = Text!Cardinality(transport)
            /\ transport # {} => read[1].dtls[1] = [algorithm |-> "sha-256", value |-> From(transport)]
            /\ read[1].direction = IF direction = {} THEN "sendrecv" ELSE dirs[From(direction)]
        BY <2>2, <2>3, <2>4, <2>5, <2>7
      <3> QED BY <1>2, <3>1, Zenon DEF Text!MediaLevelWins, From
    <2>9. Text!StreamFound BY <1>2, <2>2, <2>3, <2>6, Zenon DEF Text!StreamFound
    <2> QED BY <1>3, <2>8, <2>9 DEF Text!TextArrives
  <1> QED BY <1>4, <1>5

(* SDPUtils: what one browser writes, the other reads, and whoever passes a   *)
(* candidate on passes the same text.                                         *)
THEOREM TextAlways == MCSpec => []TextArrives
  <1> DEFINE Inv == part = "text" => TextInv
  <1>1. MCInit => Inv
    BY TextStart DEF MCInit
  <1>2. Inv /\ [MCNext]_<<part, textVars, codecVars, localVars, idVars, serverVars>> => Inv'
    <2> SUFFICES ASSUME Inv, [MCNext]_<<part, textVars, codecVars, localVars, idVars, serverVars>>,
                        part' = "text"
                 PROVE  TextInv'
      OBVIOUS
    <2>1. part = "text" /\ [Text!Next]_textVars
      BY DEF MCNext
    <2> QED BY <2>1, TextStep
  <1>3. Inv => TextArrives
    <2> SUFFICES ASSUME TextInv PROVE Text!TextArrives BY DEF TextArrives
    <2>1. CASE input = Text!Nothing /\ read = <<>>
      BY <2>1 DEF Text!TextArrives, Text!CandidateTextFinal, Text!CandidateArrives, Text!SctpArrives,
                  Text!MediaLevelWins, Text!StreamFound
    <2> QED BY <2>1, CandidateGood, SctpGood, MediaGood DEF TextInv
  <1> HIDE DEF Inv
  <1> QED BY <1>1, <1>2, <1>3, PTL DEF MCSpec
=============================================================================
