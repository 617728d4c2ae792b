---------------------------- MODULE SignalingProofs ----------------------------
(* Proofs about Signaling, for any number of pages, peer connections, clicks,  *)
(* lost links and restarts. The messages on their way are what makes them      *)
(* long, so the steps are first described by what they do to the three groups  *)
(* of variables the properties are about (the server's and the pages' uids,    *)
(* the life of a peer, the messages), and each invariant is then proved from   *)
(* these descriptions alone.                                                   *)
EXTENDS Signaling, SequenceTheorems, WellFoundedInduction, TLAPS

-----------------------------------------------------------------------------
(* The invariants.                                                             *)

(* While the server's thread is handling an offer, in one stage or the other,  *)
(* the offer is there.                                                         *)
Handled == /\ pending # NoPeer \/ negotiated # NoPeer => queue # <<>>
           /\ pending = NoPeer \/ negotiated = NoPeer

TypeInv == TypeOK /\ Handled

(* The life of a peer: it is born, gets its answer, is told its description,   *)
(* and only then finds candidates.                                             *)
LifeInv ==
  /\ told \subseteq born /\ live \subseteq born
  /\ pending # NoPeer => pending \in born \ told
  /\ \A p \in Peer : cand[p] \in Client \union {NoClient} => p \in told

(* What is on its way to a page is about peers that have got that far.         *)
MailInv ==
  \A c \in Client : \A i \in DOMAIN inbox[c] :
    /\ inbox[c][i].type = "Answer" => inbox[c][i].peer \in born
    /\ inbox[c][i].type = "Candidate" => inbox[c][i].peer \in told

(* A uid is nobody's but page c's: given out, and to no other page.            *)
Belongs(c, u) ==
  u # NoUid => u < uidSeq /\ \A d \in Client : connCids[d] = u => d = c

(* As long as the server lives, every uid that is kept or on its way belongs   *)
(* to the page it is kept for or travels with.                                 *)
UidInv ==
  restarts = 0 =>
    /\ \A c \in Client : Belongs(c, uid[c])
    /\ \A c \in Client : sdk[c] \in {"offering", "crossed"} => uid[c] # NoUid
    /\ \A c \in Client : \A i \in DOMAIN inbox[c] :
         inbox[c][i].type = "LoginResponse" =>
           inbox[c][i].uid # NoUid /\ Belongs(c, inbox[c][i].uid)
    /\ \A i \in DOMAIN queue : Belongs(queue[i].cid, queue[i].uid)
    /\ \A i \in DOMAIN queue : queue[i].type = "ConnectSdp" => queue[i].uid # NoUid

(* A peer belongs to the page whose offer it was made for.                     *)
OwnerInv ==
  restarts = 0 =>
    /\ \A p \in born : /\ owner[p].cid \in Client /\ owner[p].uid # NoUid
                       /\ Belongs(owner[p].cid, owner[p].uid)
    /\ pending # NoPeer => owner[pending].cid = Head(queue).cid
    /\ \A p \in Peer : cand[p] \in Client => owner[p].cid = cand[p]

(* Login responses arrive in the order of their uids.                          *)
OrderInv ==
  restarts = 0 =>
    \A c \in Client : \A i \in DOMAIN inbox[c] :
      inbox[c][i].type = "LoginResponse" =>
        /\ uid[c] <= inbox[c][i].uid
        /\ \A j \in DOMAIN inbox[c] :
             i < j /\ inbox[c][j].type = "LoginResponse"
               => inbox[c][i].uid <= inbox[c][j].uid

IInv == /\ TypeInv /\ LifeInv /\ MailInv /\ AnswerBeforeCandidate
        /\ UidsUnique /\ UidInv /\ OwnerInv /\ OwnRepliesOnly /\ OrderInv

-----------------------------------------------------------------------------
(* What is left of a sequence of messages. Without is recursive; what it       *)
(* computes is shown with the least number that would contradict it.           *)

LEMMA LeastNumber ==
  ASSUME NEW S \in SUBSET Nat, S # {}
  PROVE  \E n \in S : \A m \in S : n <= m
  <1>1. IsWellFoundedOn(OpToRel(<, Nat), Nat)
    BY NatLessThanWellFounded
  <1>2. PICK n \in S : \A m \in S : <<m, n>> \notin OpToRel(<, Nat)
    BY <1>1, WFMin
  <1>3. \A m \in S : ~ (m < n)
    BY <1>2 DEF OpToRel
  <1> QED
    BY <1>3

(* Messages are lost whole: what is left was there before, and the one that is *)
(* being handled stays in front.                                               *)
LEMMA WithoutKeeps ==
  ASSUME NEW s \in Seq(Request), NEW c \in Client, NEW k \in Nat
  PROVE  /\ Without(s, c, k) \in Seq(Request)
         /\ \A i \in DOMAIN Without(s, c, k) :
              \E j \in DOMAIN s : Without(s, c, k)[i] = s[j]
         /\ k >= 1 /\ s # <<>> => /\ Without(s, c, k) # <<>>
                                  /\ Head(Without(s, c, k)) = Head(s)
  <1> DEFINE Body(f, n) == IF n = 0 THEN <<>>
                           ELSE IF n <= k \/ s[n].cid # c THEN Append(f[n - 1], s[n])
                           ELSE f[n - 1]
             Rec(f, m) == f = [n \in 0 .. m |-> Body(f, n)]
             rest == CHOOSE f : Rec(f, Len(s))
  <1>1. Without(s, c, k) = rest[Len(s)]
    BY DEF Without
  <1>2. Len(s) \in Nat
    OBVIOUS
  <1>3. \E f : Rec(f, Len(s))
    <2> DEFINE Bad == {m \in Nat : ~ \E f : Rec(f, m)}
    <2> SUFFICES ASSUME Bad # {} PROVE FALSE
      BY <1>2
    <2>1. PICK m \in Bad : \A n \in Bad : m <= n
      <3> HIDE DEF Bad
      <3>1. Bad \in SUBSET Nat
        BY DEF Bad
      <3> QED
        BY <3>1, LeastNumber
    <2>2. m # 0
      <3>1. Rec([n \in 0 .. 0 |-> <<>>], 0)
        OBVIOUS
      <3> QED
        BY <3>1
    <2>3. PICK f : Rec(f, m - 1)
      <3>1. m - 1 \in Nat /\ ~ (m <= m - 1)
        BY <2>2
      <3> QED
        BY <3>1, <2>1
    <2> DEFINE g == [n \in 0 .. m |-> Body(f, n)]
    <2>4. ASSUME NEW n \in 0 .. m PROVE g[n] = Body(g, n)
      <3>1. g[n] = Body(f, n)
        OBVIOUS
      <3>2. CASE n = 0
        BY <3>1, <3>2
      <3>3. CASE n # 0
        <4>1. n - 1 \in 0 .. m /\ n - 1 \in 0 .. m - 1
          BY <3>3
        <4>2. g[n - 1] = Body(f, n - 1)
          BY <4>1
        <4>3. f[n - 1] = Body(f, n - 1)
          BY <4>1, <2>3
        <4> QED
          BY <3>1, <4>2, <4>3
      <3> QED
        BY <3>2, <3>3
    <2>5. Rec(g, m)
      <3>1. g = [n \in 0 .. m |-> g[n]]
        OBVIOUS
      <3> HIDE DEF g, Body
      <3> QED
        BY <3>1, <2>4
    <2> QED
      BY <2>5
  <1>4. \A n \in 0 .. Len(s) : rest[n] = Body(rest, n)
    <2>1. Rec(rest, Len(s))
      BY <1>3
    <2> HIDE DEF rest
    <2> QED
      BY <2>1
  <1> HIDE DEF rest
  <1> DEFINE Good(n) ==
        /\ rest[n] \in Seq(Request)
        /\ \A i \in DOMAIN rest[n] : \E j \in DOMAIN s : rest[n][i] = s[j]
        /\ k >= 1 /\ n >= 1 => rest[n] # <<>> /\ Head(rest[n]) = Head(s)
  <1>5. ASSUME NEW n \in 1 .. Len(s), Good(n - 1) PROVE Good(n)
    <2>1. rest[n] = IF n <= k \/ s[n].cid # c THEN Append(rest[n - 1], s[n]) ELSE rest[n - 1]
      BY <1>4
    <2>2. s[n] \in Request /\ n \in DOMAIN s
      OBVIOUS
    <2>3. n = 1 => rest[n - 1] = <<>> /\ s[n] = Head(s)
      BY <1>4
    <2>4. CASE n <= k \/ s[n].cid # c
      <3>1. rest[n] = Append(rest[n - 1], s[n])
        BY <2>1, <2>4
      <3> DEFINE r == rest[n - 1]
      <3>2. r \in Seq(Request) /\ Append(r, s[n]) \in Seq(Request)
        BY <1>5, <2>2
      <3> HIDE DEF r
      <3>3. ASSUME NEW i \in DOMAIN Append(r, s[n])
            PROVE  \E j \in DOMAIN s : Append(r, s[n])[i] = s[j]
        <4>1. i \in DOMAIN r => \E j \in DOMAIN s : r[i] = s[j]
          BY <1>5 DEF r
        <4>2. i \in DOMAIN r \/ i = Len(r) + 1
          BY <3>2, <3>3
        <4>3. CASE i \in DOMAIN r
          <5>1. Append(r, s[n])[i] = r[i]
            BY <3>2, <4>3
          <5> QED
            BY <5>1, <4>1, <4>3
        <4>4. CASE i = Len(r) + 1
          <5>1. Append(r, s[n])[i] = s[n]
            BY <3>2, <4>4
          <5> QED
            BY <5>1, <2>2
        <4> QED
          BY <4>2, <4>3, <4>4
      <3>4. ASSUME k >= 1 PROVE Append(r, s[n]) # <<>> /\ Head(Append(r, s[n])) = Head(s)
        <4>1. CASE n = 1
          <5>1. r = <<>> /\ s[n] = Head(s)
            BY <2>3, <4>1 DEF r
          <5>2. Append(<<>>, s[n]) = << s[n] >>
            OBVIOUS
          <5> QED
            BY <5>1, <5>2
        <4>2. CASE n # 1
          <5>1. r # <<>> /\ Head(r) = Head(s)
            BY <1>5, <3>4, <4>2 DEF r
          <5> QED
            BY <5>1, <3>2
        <4> QED
          BY <4>1, <4>2
      <3> QED
        BY <3>1, <3>2, <3>3, <3>4 DEF r
    <2>5. CASE ~ (n <= k \/ s[n].cid # c)
      <3>1. rest[n] = rest[n - 1]
        BY <2>1, <2>5
      <3>2. k >= 1 => n # 1
        BY <2>5
      <3> QED
        BY <1>5, <3>1, <3>2
    <2> QED
      BY <2>4, <2>5
  <1>6. Good(0)
    <2>1. rest[0] = <<>>
      BY <1>4, <1>2
    <2>2. <<>> \in Seq(Request) /\ DOMAIN <<>> = {}
      OBVIOUS
    <2> QED
      BY <2>1, <2>2
  <1>7. Good(Len(s))
    <2> DEFINE Bad == {n \in 0 .. Len(s) : ~ Good(n)}
    <2> SUFFICES ASSUME Bad # {} PROVE FALSE
      BY <1>2
    <2>1. PICK m \in Bad : \A n \in Bad : m <= n
      <3>1. Bad \in SUBSET Nat
        OBVIOUS
      <3> HIDE DEF Bad
      <3> QED
        BY <3>1, LeastNumber
    <2> HIDE DEF Good
    <2>2. m # 0
      BY <1>6
    <2>3. m - 1 \in 0 .. Len(s) /\ m \in 1 .. Len(s) /\ m - 1 \notin Bad
      BY <2>1, <2>2, <1>2
    <2> QED
      BY <2>3, <1>5
  <1> QED
    BY <1>1, <1>7, <1>2

-----------------------------------------------------------------------------
(* Messages that are added.                                                    *)

Types == {"Login", "Close", "ConnectSdp", "Other"}

(* Whether or not the link is up, a page adds messages of its own only, behind *)
(* those that are there.                                                       *)
LEMMA PublishAdds ==
  ASSUME TypeOK, NEW c \in Client, NEW types \in Seq(Types), Publish(c, types)
  PROVE  /\ queue' \in Seq(Request)
         /\ queue # <<>> => queue' # <<>> /\ Head(queue') = Head(queue)
         /\ \A i \in DOMAIN queue' :
              \/ \E j \in DOMAIN queue : queue'[i] = queue[j]
              \/ /\ queue'[i].cid = c /\ queue'[i].uid = uid[c]
                 /\ \E j \in DOMAIN types : queue'[i].type = types[j]
  <1> DEFINE new == [i \in 1 .. Len(types) |-> [type |-> types[i], cid |-> c, uid |-> uid[c]]]
  <1>1. queue \in Seq(Request) /\ uid[c] \in Uids
    BY DEF TypeOK
  <1>2. new \in Seq(Request) /\ Len(new) = Len(types)
    <2>1. \A i \in 1 .. Len(types) : types[i] \in Types
      OBVIOUS
    <2>2. \A i \in 1 .. Len(types) : new[i] \in Request
      BY <1>1, <2>1 DEF Request, Types
    <2> QED
      BY <2>2
  <1>3. \A i \in DOMAIN new : /\ new[i].cid = c /\ new[i].uid = uid[c]
                              /\ new[i].type = types[i] /\ i \in DOMAIN types
    OBVIOUS
  <1>4. CASE link[c] # "up"
    BY <1>1, <1>4 DEF Publish
  <1>5. CASE link[c] = "up"
    <2>1. queue' = queue \o new
      BY <1>5 DEF Publish
    <2> HIDE DEF new
    <2>2. /\ queue' \in Seq(Request) /\ Len(queue') = Len(queue) + Len(new)
          /\ \A i \in 1 .. Len(queue) + Len(new) :
               queue'[i] = IF i <= Len(queue) THEN queue[i] ELSE new[i - Len(queue)]
      BY <1>1, <1>2, <2>1, ConcatProperties
    <2>3. queue # <<>> => queue' # <<>> /\ Head(queue') = Head(queue)
      BY <1>1, <1>2, <2>2
    <2>4. ASSUME NEW i \in DOMAIN queue'
          PROVE  \/ \E j \in DOMAIN queue : queue'[i] = queue[j]
                 \/ /\ queue'[i].cid = c /\ queue'[i].uid = uid[c]
                    /\ \E j \in DOMAIN types : queue'[i].type = types[j]
      <3>1. i \in 1 .. Len(queue) + Len(new)
        BY <2>2, <2>4
      <3>2. CASE i <= Len(queue)
        BY <1>1, <2>2, <3>1, <3>2
      <3>3. CASE i > Len(queue)
        <4>1. i - Len(queue) \in DOMAIN new /\ queue'[i] = new[i - Len(queue)]
          BY <1>1, <1>2, <2>2, <3>1, <3>3
        <4> QED
          BY <1>3, <4>1
      <3> QED
        BY <1>1, <3>1, <3>2, <3>3
    <2> QED
      BY <2>2, <2>3, <2>4
  <1> QED
    BY <1>4, <1>5

(* The server adds messages for one page, or none if it or the page is not     *)
(* connected.                                                                  *)
LEMMA SendingAdds ==
  ASSUME TypeOK, NEW c \in Client, NEW new \in Seq(Reply)
  PROVE  /\ Sending(c, new) \in [Client -> Seq(Reply)]
         /\ \A d \in Client : \/ Sending(c, new)[d] = inbox[d]
                              \/ d = c /\ Sending(c, new)[d] = inbox[d] \o new
  <1>1. inbox \in [Client -> Seq(Reply)]
    BY DEF TypeOK
  <1>2. inbox[c] \o new \in Seq(Reply)
    BY <1>1
  <1> QED
    BY <1>1, <1>2 DEF Sending

(* What the server sends besides answers, candidates and uids.                 *)
Remarks == {r \in Reply : r.type \in {"NotLogin", "HasConnected"}}

LEMMA RemarksTyped ==
  ASSUME NEW m \in Request
  PROVE  /\ NotLogin(m) \in Seq(Reply)
         /\ NotLogin(m) \o HasConnected(m) \in Seq(Reply)
         /\ \A i \in DOMAIN NotLogin(m) : NotLogin(m)[i] \in Remarks
         /\ \A i \in DOMAIN (NotLogin(m) \o HasConnected(m)) :
              (NotLogin(m) \o HasConnected(m))[i] \in Remarks
  <1> DEFINE a == [type |-> "NotLogin", uid |-> m.uid]
             b == [type |-> "HasConnected", uid |-> m.uid]
  <1>1. a \in Remarks /\ b \in Remarks
    <2>1. a \in [type : {"LoginResponse", "NotLogin", "HasConnected"}, uid : Uids]
      BY DEF Request
    <2>2. b \in [type : {"LoginResponse", "NotLogin", "HasConnected"}, uid : Uids]
      BY DEF Request
    <2> QED
      BY <2>1, <2>2 DEF Remarks, Reply
  <1> HIDE DEF a, b
  <1>2. <<>> \in Seq(Remarks) /\ << a >> \in Seq(Remarks) /\ << b >> \in Seq(Remarks)
    BY <1>1
  <1>3. NotLogin(m) \in Seq(Remarks) /\ HasConnected(m) \in Seq(Remarks)
    BY <1>2 DEF NotLogin, HasConnected, a, b
  <1>4. NotLogin(m) \o HasConnected(m) \in Seq(Remarks)
    BY <1>3
  <1>5. Remarks \subseteq Reply
    BY DEF Remarks
  <1> HIDE DEF Remarks
  <1>6. \A s \in Seq(Remarks) : s \in Seq(Reply) /\ \A i \in DOMAIN s : s[i] \in Remarks
    BY <1>5
  <1> QED
    BY <1>3, <1>4, <1>6

-----------------------------------------------------------------------------
(* Types.                                                                      *)

(* A message is taken out of the list when its handling is over.               *)
LEMMA DoneTyped ==
  ASSUME TypeOK, queue # <<>>, Done
  PROVE  queue' \in Seq(Request)
  BY DEF TypeOK, Done

(* What is at the head of the list is a message.                               *)
LEMMA HeadTyped ==
  ASSUME TypeOK, queue # <<>>
  PROVE  Head(queue) \in Request /\ Head(queue).cid \in Client /\ Head(queue).uid \in Uids
  <1>1. Head(queue) \in Request
    BY DEF TypeOK
  <1> QED
    BY <1>1 DEF Request

(* A message has arrived, and is taken out.                                    *)
LEMMA ReceiveTyped ==
  ASSUME TypeOK, NEW c \in Client, inbox[c] # <<>>
  PROVE  /\ Head(inbox[c]) \in Reply
         /\ Receive(c) => inbox' \in [Client -> Seq(Reply)]
  <1>1. inbox \in [Client -> Seq(Reply)]
    BY DEF TypeOK
  <1>2. Head(inbox[c]) \in Reply /\ Tail(inbox[c]) \in Seq(Reply)
    BY <1>1
  <1> QED
    BY <1>1, <1>2 DEF Receive

LEMMA TypeStep == TypeInv /\ [Next]_vars => TypeInv'
  <1> SUFFICES ASSUME TypeInv, [Next]_vars PROVE TypeInv'
    OBVIOUS
  <1> USE DEF TypeInv, Handled, browser, server, slots, peers, bounds
  <1> USE NoClientAssumption, NoPeerAssumption, BoundsAssumption, FirstUidAssumption
  <1>1. ASSUME NEW c \in Client, Play(c) PROVE TypeInv'
    <2> DEFINE types == (IF playing[c] THEN <<"Close">> ELSE <<>>) \o <<"Login">>
    <2>1. types \in Seq(Types)
      <3>1. << "Login" >> \in Seq(Types) /\ << "Close" >> \in Seq(Types) /\ <<>> \in Seq(Types)
        BY DEF Types
      <3> QED
        BY <3>1
    <2>2. Publish(c, types)
      BY <1>1 DEF Play
    <2>3. queue' \in Seq(Request) /\ (queue # <<>> => queue' # <<>>)
      BY <2>1, <2>2, PublishAdds
    <2> HIDE DEF types
    <2> QED
      BY <1>1, <2>3 DEF Play, TypeOK
  <1>2. ASSUME NEW c \in Client, Stop(c) PROVE TypeInv'
    <2>1. << "Close" >> \in Seq(Types)
      BY DEF Types
    <2>2. queue' \in Seq(Request) /\ (queue # <<>> => queue' # <<>>)
      BY <1>2, <2>1, PublishAdds DEF Stop
    <2> QED
      BY <1>2, <2>2 DEF Stop, TypeOK, ClosedSdk
  <1>3. ASSUME NEW c \in Client, Chatter(c) PROVE TypeInv'
    <2>1. << "Other" >> \in Seq(Types)
      BY DEF Types
    <2>2. queue' \in Seq(Request) /\ (queue # <<>> => queue' # <<>>)
      BY <1>3, <2>1, PublishAdds DEF Chatter
    <2> QED
      BY <1>3, <2>2 DEF Chatter, TypeOK
  <1>4. ASSUME NEW c \in Client, ConnectUp(c) PROVE TypeInv'
    <2>1. [type |-> "Login", cid |-> c, uid |-> uid[c]] \in Request
      BY DEF TypeOK, Request
    <2>2. queue' \in Seq(Request) /\ queue' # <<>>
      BY <1>4, <2>1 DEF ConnectUp, TypeOK
    <2> QED
      BY <1>4, <2>2 DEF ConnectUp, TypeOK
  <1>5. ASSUME NEW c \in Client, LinkLost(c) PROVE TypeInv'
    <2>1. PICK k \in Handling .. Len(queue) : queue' = Without(queue, c, k)
      BY <1>5 DEF LinkLost
    <2>2. k \in Nat /\ (Handling = 1 => k >= 1)
      BY DEF Handling, TypeOK
    <2>3. queue' \in Seq(Request) /\ (Handling = 1 /\ queue # <<>> => queue' # <<>>)
      BY <2>1, <2>2, WithoutKeeps DEF TypeOK
    <2>4. inbox' \in [Client -> Seq(Reply)]
      <3>1. <<>> \in Seq(Reply)
        OBVIOUS
      <3> QED
        BY <1>5, <3>1 DEF LinkLost, Disconnected, TypeOK
    <2> QED
      BY <1>5, <2>3, <2>4 DEF LinkLost, Disconnected, TypeOK, Handling
  <1>6. ASSUME NEW c \in Client, ReceiveLoginResponse(c) PROVE TypeInv'
    <2>1. inbox' \in [Client -> Seq(Reply)] /\ Head(inbox[c]) \in Reply
      BY <1>6, ReceiveTyped DEF ReceiveLoginResponse, Arrives
    <2>2. Head(inbox[c]).uid \in Uids
      BY <2>1 DEF Reply
    <2> QED
      BY <1>6, <2>1, <2>2 DEF ReceiveLoginResponse, TypeOK
  <1>7. ASSUME NEW c \in Client, Offer(c) PROVE TypeInv'
    <2>1. << "ConnectSdp" >> \in Seq(Types)
      BY DEF Types
    <2>2. queue' \in Seq(Request) /\ (queue # <<>> => queue' # <<>>)
      BY <1>7, <2>1, PublishAdds DEF Offer
    <2> QED
      BY <1>7, <2>2 DEF Offer, TypeOK
  <1>8. ASSUME NEW c \in Client, ReceiveOnClosed(c) PROVE TypeInv'
    <2>1. inbox' \in [Client -> Seq(Reply)]
      <3>1. <<>> \in Seq(Reply)
        OBVIOUS
      <3> QED
        BY <1>8, <3>1 DEF ReceiveOnClosed, Disconnected, TypeOK
    <2> QED
      BY <1>8, <2>1 DEF ReceiveOnClosed, Disconnected, TypeOK
  <1>9. ASSUME NEW c \in Client, ReceiveAnswer(c) PROVE TypeInv'
    <2>1. inbox' \in [Client -> Seq(Reply)]
      BY <1>9, ReceiveTyped DEF ReceiveAnswer, Arrives
    <2>2. sdk' \in [Client -> {"none", "offering", "crossed", "offered", "answered", "closed"}]
      BY <1>9 DEF ReceiveAnswer, TypeOK
    <2> QED
      BY <1>9, <2>1, <2>2 DEF ReceiveAnswer, TypeOK
  <1>10. ASSUME NEW c \in Client, ReceiveCandidate(c) PROVE TypeInv'
    <2>1. inbox' \in [Client -> Seq(Reply)]
      BY <1>10, ReceiveTyped DEF ReceiveCandidate, Arrives
    <2> QED
      BY <1>10, <2>1 DEF ReceiveCandidate, TypeOK
  <1>11. ASSUME NEW c \in Client, ReceiveRefusal(c) PROVE TypeInv'
    <2>1. inbox' \in [Client -> Seq(Reply)]
      BY <1>11, ReceiveTyped DEF ReceiveRefusal, Arrives
    <2> QED
      BY <1>11, <2>1 DEF ReceiveRefusal, TypeOK, ClosedSdk
  <1>12. ASSUME NEW c \in Client, ReceiveNotLogin(c) PROVE TypeInv'
    <2>1. inbox' \in [Client -> Seq(Reply)]
      BY <1>12, ReceiveTyped DEF ReceiveNotLogin, Arrives
    <2> QED
      BY <1>12, <2>1 DEF ReceiveNotLogin, TypeOK
  <1>13. CASE HandleLogin
    <2>1. queue # <<>> /\ queue' \in Seq(Request) /\ Head(queue).cid \in Client
      BY <1>13, DoneTyped, HeadTyped DEF HandleLogin, HandlerAt
    <2>2. << [type |-> "LoginResponse", uid |-> uidSeq] >> \in Seq(Reply)
      BY DEF Reply, Uids, TypeOK
    <2>3. inbox' \in [Client -> Seq(Reply)]
      BY <1>13, <2>1, <2>2, SendingAdds DEF HandleLogin
    <2>4. uidSeq \in Uids /\ uidSeq + 1 \in Nat
      BY DEF TypeOK, Uids
    <2> QED
      BY <1>13, <2>1, <2>3, <2>4 DEF HandleLogin, TypeOK, Session!Close, HandlerAt
  <1>14. CASE HandleClose
    <2>1. queue # <<>> /\ queue' \in Seq(Request) /\ Head(queue) \in Request
      BY <1>14, DoneTyped, HeadTyped DEF HandleClose, HandlerAt
    <2>2. inbox' \in [Client -> Seq(Reply)]
      BY <1>14, <2>1, RemarksTyped, SendingAdds, HeadTyped DEF HandleClose
    <2> QED
      BY <1>14, <2>1, <2>2 DEF HandleClose, TypeOK, Session!Close, HandlerAt
  <1>15. CASE HandleOther
    <2>1. queue # <<>> /\ queue' \in Seq(Request) /\ Head(queue) \in Request
      BY <1>15, DoneTyped, HeadTyped DEF HandleOther, HandlerAt
    <2>2. inbox' \in [Client -> Seq(Reply)]
      BY <1>15, <2>1, RemarksTyped, SendingAdds, HeadTyped DEF HandleOther
    <2> QED
      BY <1>15, <2>1, <2>2 DEF HandleOther, TypeOK, HandlerAt
  <1>16. CASE DropUnverified
    <2>1. queue' \in Seq(Request)
      BY <1>16, DoneTyped DEF DropUnverified, HandlerAt
    <2> QED
      BY <1>16, <2>1 DEF DropUnverified, TypeOK, HandlerAt
  <1>17. CASE Refuse
    <2>1. queue # <<>> /\ queue' \in Seq(Request) /\ Head(queue) \in Request
      BY <1>17, DoneTyped, HeadTyped DEF Refuse, HandlerAt
    <2>2. inbox' \in [Client -> Seq(Reply)]
      BY <1>17, <2>1, RemarksTyped, SendingAdds, HeadTyped DEF Refuse
    <2> QED
      BY <1>17, <2>1, <2>2 DEF Refuse, TypeOK, HandlerAt
  <1>18. CASE ConnectFails
    <2>1. queue # <<>> /\ queue' \in Seq(Request) /\ Head(queue) \in Request
      BY <1>18, DoneTyped, HeadTyped DEF ConnectFails, HandlerAt
    <2>2. inbox' \in [Client -> Seq(Reply)]
      BY <1>18, <2>1, RemarksTyped, SendingAdds, HeadTyped DEF ConnectFails
    <2> QED
      BY <1>18, <2>1, <2>2 DEF ConnectFails, TypeOK, HandlerAt, Session!Close
  <1>19. CASE Accept
    <2> DEFINE p == CHOOSE q \in Peer : q \notin born
    <2>1. queue # <<>> /\ Head(queue) \in Request /\ Head(queue).cid \in Client
          /\ Head(queue).uid \in Uids
      BY <1>19, HeadTyped DEF Accept, HandlerAt
    <2>2. p \in Peer \ born
      BY <1>19 DEF Accept, TypeOK
    <2>3. inbox' \in [Client -> Seq(Reply)]
      BY <1>19, <2>1, RemarksTyped, SendingAdds DEF Accept
    <2>4. /\ Session!Begin(p)
          /\ owner' = [owner EXCEPT ![p] = [cid |-> Head(queue).cid, uid |-> Head(queue).uid]]
      BY <1>19 DEF Accept
    <2> HIDE DEF p
    <2>5. owner' \in [Peer -> [cid : Client \union {NoClient}, uid : Uids]]
      BY <2>1, <2>2, <2>4 DEF TypeOK
    <2> QED
      BY <1>19, <2>1, <2>2, <2>3, <2>4, <2>5 DEF Accept, TypeOK, HandlerAt, Session!Begin
  <1>20. CASE SendAnswer
    <2>1. pending # NoPeer /\ queue # <<>> /\ Head(queue).cid \in Client
          /\ Head(queue).uid \in Uids
      BY <1>20, HeadTyped DEF SendAnswer, Session!Install
    <2>2. AnswerMessage(Head(queue)) \in Seq(Reply)
      BY <2>1 DEF AnswerMessage, Reply, TypeOK
    <2>3. inbox' \in [Client -> Seq(Reply)]
      BY <1>20, <2>1, <2>2, SendingAdds DEF SendAnswer
    <2> QED
      BY <1>20, <2>1, <2>3 DEF SendAnswer, TypeOK, Session!Install
  <1>21. CASE AnswerNotSent
    <2>1. queue' \in Seq(Request)
      BY <1>21, DoneTyped DEF AnswerNotSent, Session!Install
    <2> QED
      BY <1>21, <2>1 DEF AnswerNotSent, TypeOK, Session!Install
  <1>22. CASE SetLocalDescription
    <2>1. queue' \in Seq(Request)
      BY <1>22, DoneTyped DEF SetLocalDescription
    <2> QED
      BY <1>22, <2>1 DEF SetLocalDescription, TypeOK
  <1>23. ASSUME NEW p \in Peer, FindCandidate(p) PROVE TypeInv'
    <2>1. cand' \in [Peer -> Client \union {NoClient, Waiting, Sent}]
      BY <1>23 DEF FindCandidate, TypeOK
    <2> QED
      BY <1>23, <2>1 DEF FindCandidate, TypeOK
  <1>24. ASSUME NEW p \in Peer, SendCandidate(p) PROVE TypeInv'
    <2> DEFINE new == << [type |-> "Candidate", uid |-> owner[p].uid, peer |-> p] >>
    <2>1. new \in Seq(Reply)
      BY DEF Reply, TypeOK
    <2> HIDE DEF new
    <2>2. inbox' \in [Client -> Seq(Reply)]
      <3>1. inbox' = IF cand[p] = NoClient THEN inbox ELSE Sending(cand[p], new)
        BY <1>24 DEF SendCandidate, new
      <3>2. cand[p] # NoClient => cand[p] \in Client
        BY <1>24 DEF SendCandidate
      <3> QED
        BY <3>1, <3>2, <2>1, SendingAdds DEF TypeOK
    <2>3. cand' \in [Peer -> Client \union {NoClient, Waiting, Sent}]
      BY <1>24 DEF SendCandidate, TypeOK
    <2> QED
      BY <1>24, <2>2, <2>3 DEF SendCandidate, TypeOK
  <1>25. CASE SessionStep
    BY <1>25 DEF SessionStep, TypeOK, Session!Close, Session!Decide, Session!Reap
  <1>26. CASE ConnectError
    BY <1>26 DEF ConnectError, TypeOK
  <1>27. CASE Restart
    <2>1. /\ <<>> \in Seq(Request)
          /\ connCids' \in [Client -> Uids]
          /\ cand' \in [Peer -> Client \union {NoClient, Waiting, Sent}]
      BY <1>27 DEF Restart, Uids
    <2>2. queue' = <<>> /\ uidSeq' \in Nat /\ restarts' \in 0 .. MaxRestarts
      BY <1>27 DEF Restart, TypeOK
    <2>3. TypeOK'
      BY <1>27, <2>1, <2>2 DEF Restart, TypeOK
    <2>4. Handled'
      BY <1>27 DEF Restart
    <2> QED
      BY <2>3, <2>4
  <1>28. CASE UNCHANGED vars
    BY <1>28 DEF vars, TypeOK
  <1> QED
    BY <1>1, <1>2, <1>3, <1>4, <1>5, <1>6, <1>7, <1>8, <1>9, <1>10, <1>11, <1>12, <1>13,
       <1>14, <1>15, <1>16, <1>17, <1>18, <1>19, <1>20, <1>21, <1>22, <1>23, <1>24, <1>25,
       <1>26, <1>27, <1>28
       DEF Next, User, Page, MessageThread, CandidateThread

LEMMA TypeInit == Init => TypeInv
  <1> SUFFICES ASSUME Init PROVE TypeInv
    OBVIOUS
  <1>1. /\ <<>> \in Seq(Request) /\ <<>> \in Seq(Reply)
        /\ inbox \in [Client -> Seq(Reply)]
        /\ owner \in [Peer -> [cid : Client \union {NoClient}, uid : Uids]]
        /\ uid \in [Client -> Uids] /\ connCids \in [Client -> Uids]
    BY DEF Init, Uids
  <1>2. /\ link \in [Client -> {"off", "connecting", "up"}]
        /\ playing \in [Client -> BOOLEAN]
        /\ sdk \in [Client -> {"none", "offering", "crossed", "offered", "answered", "closed"}]
        /\ cand \in [Peer -> Client \union {NoClient, Waiting, Sent}]
    BY DEF Init
  <1>3. /\ queue \in Seq(Request) /\ uidSeq \in Nat
        /\ clicks \in 0 .. MaxClicks /\ drops \in 0 .. MaxDrops
        /\ restarts \in 0 .. MaxRestarts
    BY <1>1, BoundsAssumption, FirstUidAssumption DEF Init
  <1>4. TypeOK
    BY <1>1, <1>2, <1>3 DEF Init, TypeOK, Session!Init
  <1> QED
    BY <1>4 DEF Init, TypeInv, Handled, Session!Init

(* Every message, list and table of the page and the server is what the code   *)
(* takes it for, and what is being handled is at the head of the list.         *)
THEOREM TypeCorrect == Spec => []TypeInv
  BY TypeInit, TypeStep, PTL DEF Spec

-----------------------------------------------------------------------------
(* What a step does.                                                           *)

(* The server answers a login of page c with the next uid.                     *)
Login(c) == uidSeq' = uidSeq + 1 /\ connCids' = [connCids EXCEPT ![c] = uidSeq]

Pending == {"offering", "crossed"}   \* a page that will publish an offer

(* The uids the server and the pages keep.                                     *)
UidMoves ==
  /\ \/ UNCHANGED <<restarts, connCids, uidSeq>>
     \/ restarts' = restarts /\ \E c \in Client : Login(c)
     \/ /\ restarts' = restarts + 1
        /\ connCids' = [c \in Client |-> NoUid]
  /\ \A c \in Client :
       \/ uid'[c] = uid[c] /\ (sdk'[c] \in Pending => sdk[c] \in Pending)
       \/ /\ inbox[c] # <<>> /\ Head(inbox[c]).type = "LoginResponse"
          /\ uid'[c] = Head(inbox[c]).uid /\ inbox'[c] = Tail(inbox[c])

LEMMA UidSteps == TypeInv /\ [Next]_vars => UidMoves
  <1> SUFFICES ASSUME TypeInv, [Next]_vars PROVE UidMoves
    OBVIOUS
  <1> USE DEF UidMoves, Login, Pending, browser, server, slots, peers, bounds
  <1> USE DEF TypeInv, TypeOK
  <1>1. ASSUME NEW c \in Client, Play(c) PROVE UidMoves
    BY <1>1 DEF Play
  <1>2. ASSUME NEW c \in Client, Stop(c) PROVE UidMoves
    BY <1>2 DEF Stop, ClosedSdk
  <1>3. ASSUME NEW c \in Client, Chatter(c) PROVE UidMoves
    BY <1>3 DEF Chatter
  <1>4. ASSUME NEW c \in Client, ConnectUp(c) PROVE UidMoves
    BY <1>4 DEF ConnectUp
  <1>5. ASSUME NEW c \in Client, LinkLost(c) PROVE UidMoves
    BY <1>5 DEF LinkLost
  <1>6. ASSUME NEW c \in Client, ReceiveLoginResponse(c) PROVE UidMoves
    BY <1>6 DEF ReceiveLoginResponse, Arrives, Receive
  <1>7. ASSUME NEW c \in Client, Offer(c) PROVE UidMoves
    BY <1>7 DEF Offer
  <1>8. ASSUME NEW c \in Client, ReceiveOnClosed(c) PROVE UidMoves
    BY <1>8 DEF ReceiveOnClosed
  <1>9. ASSUME NEW c \in Client, ReceiveAnswer(c) PROVE UidMoves
    BY <1>9 DEF ReceiveAnswer
  <1>10. ASSUME NEW c \in Client, ReceiveCandidate(c) PROVE UidMoves
    BY <1>10 DEF ReceiveCandidate
  <1>11. ASSUME NEW c \in Client, ReceiveRefusal(c) PROVE UidMoves
    BY <1>11 DEF ReceiveRefusal, ClosedSdk
  <1>12. ASSUME NEW c \in Client, ReceiveNotLogin(c) PROVE UidMoves
    BY <1>12 DEF ReceiveNotLogin
  <1>13. CASE HandleLogin
    <2>1. Head(queue).cid \in Client
      BY <1>13, HeadTyped DEF HandleLogin, HandlerAt
    <2>2. Login(Head(queue).cid) /\ restarts' = restarts
      BY <1>13 DEF HandleLogin
    <2>3. \A c \in Client : uid'[c] = uid[c] /\ (sdk'[c] \in Pending => sdk[c] \in Pending)
      BY <1>13 DEF HandleLogin
    <2> HIDE DEF Login
    <2> QED
      BY <2>1, <2>2, <2>3
  <1>14. CASE HandleClose
    BY <1>14 DEF HandleClose
  <1>15. CASE HandleOther
    BY <1>15 DEF HandleOther
  <1>16. CASE DropUnverified
    BY <1>16 DEF DropUnverified
  <1>17. CASE Refuse
    BY <1>17 DEF Refuse
  <1>18. CASE ConnectFails
    BY <1>18 DEF ConnectFails
  <1>19. CASE Accept
    BY <1>19 DEF Accept
  <1>20. CASE SendAnswer
    BY <1>20 DEF SendAnswer
  <1>21. CASE AnswerNotSent
    BY <1>21 DEF AnswerNotSent
  <1>22. CASE SetLocalDescription
    BY <1>22 DEF SetLocalDescription
  <1>23. ASSUME NEW p \in Peer, FindCandidate(p) PROVE UidMoves
    BY <1>23 DEF FindCandidate
  <1>24. ASSUME NEW p \in Peer, SendCandidate(p) PROVE UidMoves
    BY <1>24 DEF SendCandidate
  <1>25. CASE SessionStep
    BY <1>25 DEF SessionStep
  <1>26. CASE ConnectError
    BY <1>26 DEF ConnectError
  <1>27. CASE Restart
    BY <1>27 DEF Restart
  <1>28. CASE UNCHANGED vars
    BY <1>28 DEF vars
  <1> QED
    BY <1>1, <1>2, <1>3, <1>4, <1>5, <1>6, <1>7, <1>8, <1>9, <1>10, <1>11, <1>12,
       <1>13, <1>14, <1>15, <1>16, <1>17, <1>18, <1>19, <1>20, <1>21, <1>22, <1>23,
       <1>24, <1>25, <1>26, <1>27, <1>28
       DEF Next, User, Page, MessageThread, CandidateThread

(* The peers: one is born, its answer is sent or not, it is told its           *)
(* description, it finds a candidate, a restart forgets it.                    *)
LifeMoves ==
  \/ live' \subseteq live /\ UNCHANGED <<born, told, pending, negotiated, owner, cand>>
  \/ \E p \in Peer \ born :
       /\ queue # <<>> /\ queue' = queue /\ Head(queue).type = "ConnectSdp"
       /\ pending = NoPeer /\ pending' = p
       /\ born' = born \union {p} /\ live' = live \union {p}
       /\ owner' = [owner EXCEPT ![p] = [cid |-> Head(queue).cid, uid |-> Head(queue).uid]]
       /\ UNCHANGED <<told, cand>>
  \/ pending' = NoPeer /\ UNCHANGED <<born, told, live, owner, cand>>
  \/ /\ pending = NoPeer /\ pending' = NoPeer
     /\ told \subseteq told' /\ told' \subseteq told \union live
     /\ UNCHANGED <<born, live, owner, cand>>
  \/ \E p \in told : /\ \/ cand' = [cand EXCEPT ![p] = NoClient]
                        \/ \E c \in Client : /\ connCids[c] = owner[p].uid
                                             /\ cand' = [cand EXCEPT ![p] = c]
                     /\ UNCHANGED <<born, told, live, pending, owner>>
  \/ \E p \in Peer : /\ cand' = [cand EXCEPT ![p] = Sent]
                     /\ UNCHANGED <<born, told, live, pending, owner>>
  \/ /\ pending' = NoPeer /\ live' = {} /\ restarts' = restarts + 1
     /\ \A p \in Peer : cand'[p] \in {Waiting, Sent}
     /\ UNCHANGED <<born, told, owner>>

LEMMA LifeSteps == TypeInv /\ [Next]_vars => LifeMoves
  <1> SUFFICES ASSUME TypeInv, [Next]_vars PROVE LifeMoves
    OBVIOUS
  <1> USE DEF TypeInv, browser, server, slots, peers, bounds
  <1>1. ASSUME NEW c \in Client, Play(c) PROVE LifeMoves
    BY <1>1 DEF Play, LifeMoves
  <1>2. ASSUME NEW c \in Client, Stop(c) PROVE LifeMoves
    BY <1>2 DEF Stop, LifeMoves
  <1>3. ASSUME NEW c \in Client, Chatter(c) PROVE LifeMoves
    BY <1>3 DEF Chatter, LifeMoves
  <1>4. ASSUME NEW c \in Client, ConnectUp(c) PROVE LifeMoves
    BY <1>4 DEF ConnectUp, LifeMoves
  <1>5. ASSUME NEW c \in Client, LinkLost(c) PROVE LifeMoves
    BY <1>5 DEF LinkLost, LifeMoves
  <1>6. ASSUME NEW c \in Client, ReceiveLoginResponse(c) PROVE LifeMoves
    BY <1>6 DEF ReceiveLoginResponse, LifeMoves
  <1>7. ASSUME NEW c \in Client, Offer(c) PROVE LifeMoves
    BY <1>7 DEF Offer, LifeMoves
  <1>8. ASSUME NEW c \in Client, ReceiveOnClosed(c) PROVE LifeMoves
    BY <1>8 DEF ReceiveOnClosed, LifeMoves
  <1>9. ASSUME NEW c \in Client, ReceiveAnswer(c) PROVE LifeMoves
    BY <1>9 DEF ReceiveAnswer, LifeMoves
  <1>10. ASSUME NEW c \in Client, ReceiveCandidate(c) PROVE LifeMoves
    BY <1>10 DEF ReceiveCandidate, LifeMoves
  <1>11. ASSUME NEW c \in Client, ReceiveRefusal(c) PROVE LifeMoves
    BY <1>11 DEF ReceiveRefusal, LifeMoves
  <1>12. ASSUME NEW c \in Client, ReceiveNotLogin(c) PROVE LifeMoves
    BY <1>12 DEF ReceiveNotLogin, LifeMoves
  <1>13. CASE HandleLogin
    BY <1>13 DEF HandleLogin, LifeMoves, Session!Close
  <1>14. CASE HandleClose
    BY <1>14 DEF HandleClose, LifeMoves, Session!Close
  <1>15. CASE HandleOther
    BY <1>15 DEF HandleOther, LifeMoves
  <1>16. CASE DropUnverified
    BY <1>16 DEF DropUnverified, LifeMoves
  <1>17. CASE Refuse
    BY <1>17 DEF Refuse, LifeMoves
  <1>18. CASE ConnectFails
    BY <1>18 DEF ConnectFails, LifeMoves, Session!Close
  <1>19. CASE Accept
    <2> DEFINE p == CHOOSE q \in Peer : q \notin born
    <2>1. p \in Peer \ born
      BY <1>19 DEF Accept, TypeOK
    <2>2. /\ queue # <<>> /\ queue' = queue /\ Head(queue).type = "ConnectSdp"
          /\ Session!Begin(p) /\ UNCHANGED <<told, cand>>
          /\ owner' = [owner EXCEPT ![p] = [cid |-> Head(queue).cid, uid |-> Head(queue).uid]]
      BY <1>19 DEF Accept, HandlerAt
    <2> HIDE DEF p
    <2> QED
      BY <2>1, <2>2 DEF LifeMoves, Session!Begin
  <1>20. CASE SendAnswer
    BY <1>20 DEF SendAnswer, LifeMoves, Session!Install
  <1>21. CASE AnswerNotSent
    BY <1>21 DEF AnswerNotSent, LifeMoves, Session!Install
  <1>22. CASE SetLocalDescription
    BY <1>22 DEF SetLocalDescription, LifeMoves, Handled
  <1>23. ASSUME NEW p \in Peer, FindCandidate(p) PROVE LifeMoves
    BY <1>23 DEF FindCandidate, LifeMoves
  <1>24. ASSUME NEW p \in Peer, SendCandidate(p) PROVE LifeMoves
    BY <1>24 DEF SendCandidate, LifeMoves
  <1>25. CASE SessionStep
    BY <1>25 DEF SessionStep, LifeMoves, Session!Close, Session!Decide, Session!Reap
  <1>26. CASE ConnectError
    BY <1>26 DEF ConnectError, LifeMoves
  <1>27. CASE Restart
    BY <1>27 DEF Restart, LifeMoves
  <1>28. CASE UNCHANGED vars
    BY <1>28 DEF vars, LifeMoves
  <1> QED
    BY <1>1, <1>2, <1>3, <1>4, <1>5, <1>6, <1>7, <1>8, <1>9, <1>10, <1>11, <1>12,
       <1>13, <1>14, <1>15, <1>16, <1>17, <1>18, <1>19, <1>20, <1>21, <1>22, <1>23,
       <1>24, <1>25, <1>26, <1>27, <1>28
       DEF Next, User, Page, MessageThread, CandidateThread

(* The list of messages to the server: what is in it was in it before or comes *)
(* from a page with the uid that page has, and the message that is being       *)
(* handled stays in front.                                                     *)
QueueMoves ==
  /\ \A i \in DOMAIN queue' :
       \/ \E j \in DOMAIN queue : queue'[i] = queue[j]
       \/ \E c \in Client : /\ queue'[i].cid = c /\ queue'[i].uid = uid[c]
                            /\ queue'[i].type = "ConnectSdp" => sdk[c] \in Pending
  /\ pending # NoPeer /\ pending' # NoPeer => Head(queue') = Head(queue)

LEMMA QueueSame == queue' = queue => QueueMoves
  BY DEF QueueMoves

LEMMA QueueTail == TypeOK /\ queue # <<>> /\ Done /\ (pending = NoPeer \/ pending' = NoPeer) => QueueMoves
  <1> SUFFICES ASSUME TypeOK, queue # <<>>, Done, pending = NoPeer \/ pending' = NoPeer
               PROVE  QueueMoves
    OBVIOUS
  <1>1. \A i \in DOMAIN Tail(queue) : i + 1 \in DOMAIN queue /\ Tail(queue)[i] = queue[i + 1]
    BY DEF TypeOK
  <1> QED
    BY <1>1 DEF Done, QueueMoves

LEMMA QueuePublish ==
  ASSUME TypeInv, NEW c \in Client, NEW types \in Seq(Types), Publish(c, types),
         pending' = pending,
         sdk[c] \in Pending \/ \A j \in DOMAIN types : types[j] # "ConnectSdp"
  PROVE  QueueMoves
  <1>1. pending # NoPeer => Head(queue') = Head(queue)
    BY PublishAdds DEF TypeInv, Handled
  <1>2. ASSUME NEW i \in DOMAIN queue'
        PROVE  \/ \E j \in DOMAIN queue : queue'[i] = queue[j]
               \/ /\ queue'[i].cid = c /\ queue'[i].uid = uid[c]
                  /\ \E j \in DOMAIN types : queue'[i].type = types[j]
    BY <1>2, PublishAdds DEF TypeInv
  <1> QED
    BY <1>1, <1>2 DEF QueueMoves

Clicked == {"Close", "Login"}   \* what a click on Play publishes

LEMMA QueueSteps == TypeInv /\ [Next]_vars => QueueMoves
  <1> SUFFICES ASSUME TypeInv, [Next]_vars PROVE QueueMoves
    OBVIOUS
  <1> USE DEF TypeInv, browser, server, slots, peers, bounds
  <1>1. ASSUME NEW c \in Client, Play(c) PROVE QueueMoves
    <2> DEFINE types == (IF playing[c] THEN <<"Close">> ELSE <<>>) \o <<"Login">>
    <2>1. types \in Seq(Clicked)
      <3>1. << "Login" >> \in Seq(Clicked) /\ << "Close" >> \in Seq(Clicked) /\ <<>> \in Seq(Clicked)
        BY DEF Clicked
      <3> QED
        BY <3>1
    <2>2. Publish(c, types) /\ pending' = pending
      BY <1>1 DEF Play
    <2> HIDE DEF types
    <2>3. types \in Seq(Types) /\ \A j \in DOMAIN types : types[j] # "ConnectSdp"
      BY <2>1 DEF Types, Clicked
    <2> QED
      BY <2>2, <2>3, QueuePublish
  <1>2. ASSUME NEW c \in Client, Stop(c) PROVE QueueMoves
    <2>1. << "Close" >> \in Seq(Types)
      BY DEF Types
    <2>2. \A j \in DOMAIN << "Close" >> : << "Close" >>[j] # "ConnectSdp"
      OBVIOUS
    <2> QED
      BY <1>2, <2>1, <2>2, QueuePublish DEF Stop
  <1>3. ASSUME NEW c \in Client, Chatter(c) PROVE QueueMoves
    <2>1. << "Other" >> \in Seq(Types)
      BY DEF Types
    <2>2. \A j \in DOMAIN << "Other" >> : << "Other" >>[j] # "ConnectSdp"
      OBVIOUS
    <2> QED
      BY <1>3, <2>1, <2>2, QueuePublish DEF Chatter
  <1>4. ASSUME NEW c \in Client, ConnectUp(c) PROVE QueueMoves
    <2> DEFINE m == [type |-> "Login", cid |-> c, uid |-> uid[c]]
    <2>1. m \in Request /\ m.cid = c /\ m.uid = uid[c] /\ m.type # "ConnectSdp"
      BY DEF TypeOK, Request
    <2>2. queue' = Append(queue, m) /\ pending' = pending
      BY <1>4 DEF ConnectUp
    <2> HIDE DEF m
    <2>3. queue \in Seq(Request) /\ (pending # NoPeer => queue # <<>>)
      BY DEF TypeOK, Handled
    <2>4. /\ \A i \in DOMAIN queue' : (i \in DOMAIN queue /\ queue'[i] = queue[i]) \/ queue'[i] = m
          /\ pending # NoPeer => Head(queue') = Head(queue)
      BY <2>1, <2>2, <2>3
    <2> QED
      BY <2>1, <2>4 DEF QueueMoves
  <1>5. ASSUME NEW c \in Client, LinkLost(c) PROVE QueueMoves
    <2>1. PICK k \in Handling .. Len(queue) : queue' = Without(queue, c, k)
      BY <1>5 DEF LinkLost
    <2>2. k \in Nat /\ (Handling = 1 => k >= 1) /\ queue \in Seq(Request)
      BY DEF Handling, TypeOK
    <2>3. /\ \A i \in DOMAIN queue' : \E j \in DOMAIN queue : queue'[i] = queue[j]
          /\ Handling = 1 /\ queue # <<>> => Head(queue') = Head(queue)
      BY <2>1, <2>2, WithoutKeeps
    <2> QED
      BY <2>3 DEF QueueMoves, Handling, Handled
  <1>6. ASSUME NEW c \in Client, ReceiveLoginResponse(c) PROVE QueueMoves
    BY <1>6, QueueSame DEF ReceiveLoginResponse
  <1>7. ASSUME NEW c \in Client, Offer(c) PROVE QueueMoves
    <2>1. << "ConnectSdp" >> \in Seq(Types)
      BY DEF Types
    <2> QED
      BY <1>7, <2>1, QueuePublish DEF Offer, Pending
  <1>8. ASSUME NEW c \in Client, ReceiveOnClosed(c) PROVE QueueMoves
    BY <1>8, QueueSame DEF ReceiveOnClosed
  <1>9. ASSUME NEW c \in Client, ReceiveAnswer(c) PROVE QueueMoves
    BY <1>9, QueueSame DEF ReceiveAnswer
  <1>10. ASSUME NEW c \in Client, ReceiveCandidate(c) PROVE QueueMoves
    BY <1>10, QueueSame DEF ReceiveCandidate
  <1>11. ASSUME NEW c \in Client, ReceiveRefusal(c) PROVE QueueMoves
    BY <1>11, QueueSame DEF ReceiveRefusal
  <1>12. ASSUME NEW c \in Client, ReceiveNotLogin(c) PROVE QueueMoves
    BY <1>12, QueueSame DEF ReceiveNotLogin
  <1>13. CASE HandleLogin
    BY <1>13, QueueTail DEF HandleLogin, HandlerAt
  <1>14. CASE HandleClose
    BY <1>14, QueueTail DEF HandleClose, HandlerAt
  <1>15. CASE HandleOther
    BY <1>15, QueueTail DEF HandleOther, HandlerAt
  <1>16. CASE DropUnverified
    BY <1>16, QueueTail DEF DropUnverified, HandlerAt
  <1>17. CASE Refuse
    BY <1>17, QueueTail DEF Refuse, HandlerAt
  <1>18. CASE ConnectFails
    BY <1>18, QueueTail DEF ConnectFails, HandlerAt
  <1>19. CASE Accept
    BY <1>19, QueueSame DEF Accept
  <1>20. CASE SendAnswer
    BY <1>20, QueueSame DEF SendAnswer
  <1>21. CASE AnswerNotSent
    BY <1>21, QueueTail DEF AnswerNotSent, Session!Install, Handled
  <1>22. CASE SetLocalDescription
    BY <1>22, QueueTail DEF SetLocalDescription, Handled
  <1>23. ASSUME NEW p \in Peer, FindCandidate(p) PROVE QueueMoves
    BY <1>23, QueueSame DEF FindCandidate
  <1>24. ASSUME NEW p \in Peer, SendCandidate(p) PROVE QueueMoves
    BY <1>24, QueueSame DEF SendCandidate
  <1>25. CASE SessionStep
    BY <1>25, QueueSame DEF SessionStep
  <1>26. CASE ConnectError
    BY <1>26, QueueSame DEF ConnectError
  <1>27. CASE Restart
    BY <1>27 DEF Restart, QueueMoves
  <1>28. CASE UNCHANGED vars
    BY <1>28, QueueSame DEF vars
  <1> QED
    BY <1>1, <1>2, <1>3, <1>4, <1>5, <1>6, <1>7, <1>8, <1>9, <1>10, <1>11, <1>12,
       <1>13, <1>14, <1>15, <1>16, <1>17, <1>18, <1>19, <1>20, <1>21, <1>22, <1>23,
       <1>24, <1>25, <1>26, <1>27, <1>28
       DEF Next, User, Page, MessageThread, CandidateThread

(* A message the server sends to page c.                                       *)
Sends(c, m) ==
  \/ m.type \in {"NotLogin", "HasConnected"}
  \/ m.type = "LoginResponse" /\ m.uid = uidSeq /\ Login(c)
  \/ m.type = "Answer" /\ m.peer = pending /\ pending # NoPeer /\ Head(queue).cid = c
  \/ m.type = "Candidate" /\ m.peer \in Peer /\ cand[m.peer] = c

(* The messages to the pages: the first is taken out, all are lost, or others  *)
(* are added behind.                                                           *)
InboxMoves ==
  \A c \in Client :
    \/ inbox'[c] = inbox[c]
    \/ inbox'[c] = <<>>
    \/ inbox[c] # <<>> /\ inbox'[c] = Tail(inbox[c])
    \/ \E new \in Seq(Reply) : /\ inbox'[c] = inbox[c] \o new
                               /\ \A i \in DOMAIN new : Sends(c, new[i])

LEMMA InboxSame == inbox' = inbox => InboxMoves
  BY DEF InboxMoves

LEMMA InboxReceive == TypeOK => \A c \in Client : inbox[c] # <<>> /\ Receive(c) => InboxMoves
  BY DEF TypeOK, InboxMoves, Receive

LEMMA InboxSending ==
  ASSUME TypeOK, NEW c \in Client, NEW new \in Seq(Reply), inbox' = Sending(c, new),
         \A i \in DOMAIN new : Sends(c, new[i])
  PROVE  InboxMoves
  <1> SUFFICES ASSUME NEW d \in Client
               PROVE  \/ inbox'[d] = inbox[d]
                      \/ \E s \in Seq(Reply) : /\ inbox'[d] = inbox[d] \o s
                                              /\ \A i \in DOMAIN s : Sends(d, s[i])
    BY DEF InboxMoves
  <1>1. inbox'[d] = inbox[d] \/ (d = c /\ inbox'[d] = inbox[d] \o new)
    <2>1. \A e \in Client : \/ Sending(c, new)[e] = inbox[e]
                            \/ e = c /\ Sending(c, new)[e] = inbox[e] \o new
      BY SendingAdds
    <2> QED
      BY <2>1
  <1> QED
    BY <1>1

(* The same for a single message.                                              *)
LEMMA InboxSendingOne ==
  ASSUME TypeOK, NEW c \in Client, NEW m \in Reply, inbox' = Sending(c, << m >>), Sends(c, m)
  PROVE  InboxMoves
  <1>1. << m >> \in Seq(Reply) /\ \A i \in DOMAIN << m >> : << m >>[i] = m
    OBVIOUS
  <1>2. \A i \in DOMAIN << m >> : Sends(c, << m >>[i])
    BY <1>1
  <1> QED
    BY <1>1, <1>2, InboxSending

LEMMA InboxRemarks ==
  ASSUME TypeOK, queue # <<>>,
         \/ inbox' = Sending(Head(queue).cid, NotLogin(Head(queue)))
         \/ inbox' = Sending(Head(queue).cid, NotLogin(Head(queue)) \o HasConnected(Head(queue)))
  PROVE  InboxMoves
  <1>1. Head(queue) \in Request /\ Head(queue).cid \in Client
    BY HeadTyped
  <1>2. \A c \in Client, r \in Remarks : Sends(c, r)
    BY DEF Remarks, Sends
  <1>3. CASE inbox' = Sending(Head(queue).cid, NotLogin(Head(queue)))
    BY <1>1, <1>2, <1>3, RemarksTyped, InboxSending
  <1>4. CASE inbox' = Sending(Head(queue).cid, NotLogin(Head(queue)) \o HasConnected(Head(queue)))
    BY <1>1, <1>2, <1>4, RemarksTyped, InboxSending
  <1> QED
    BY <1>3, <1>4

LEMMA InboxSteps == TypeInv /\ [Next]_vars => InboxMoves
  <1> SUFFICES ASSUME TypeInv, [Next]_vars PROVE InboxMoves
    OBVIOUS
  <1> USE DEF TypeInv, browser, server, slots, peers, bounds
  <1>1. ASSUME NEW c \in Client, Play(c) PROVE InboxMoves
    BY <1>1, InboxSame DEF Play
  <1>2. ASSUME NEW c \in Client, Stop(c) PROVE InboxMoves
    BY <1>2, InboxSame DEF Stop
  <1>3. ASSUME NEW c \in Client, Chatter(c) PROVE InboxMoves
    BY <1>3, InboxSame DEF Chatter
  <1>4. ASSUME NEW c \in Client, ConnectUp(c) PROVE InboxMoves
    BY <1>4, InboxSame DEF ConnectUp
  <1>5. ASSUME NEW c \in Client, LinkLost(c) PROVE InboxMoves
    BY <1>5 DEF LinkLost, Disconnected, InboxMoves, TypeOK
  <1>6. ASSUME NEW c \in Client, ReceiveLoginResponse(c) PROVE InboxMoves
    BY <1>6, InboxReceive DEF ReceiveLoginResponse, Arrives
  <1>7. ASSUME NEW c \in Client, Offer(c) PROVE InboxMoves
    BY <1>7, InboxSame DEF Offer
  <1>8. ASSUME NEW c \in Client, ReceiveOnClosed(c) PROVE InboxMoves
    BY <1>8 DEF ReceiveOnClosed, Disconnected, InboxMoves, TypeOK
  <1>9. ASSUME NEW c \in Client, ReceiveAnswer(c) PROVE InboxMoves
    BY <1>9, InboxReceive DEF ReceiveAnswer, Arrives
  <1>10. ASSUME NEW c \in Client, ReceiveCandidate(c) PROVE InboxMoves
    BY <1>10, InboxReceive DEF ReceiveCandidate, Arrives
  <1>11. ASSUME NEW c \in Client, ReceiveRefusal(c) PROVE InboxMoves
    BY <1>11, InboxReceive DEF ReceiveRefusal, Arrives
  <1>12. ASSUME NEW c \in Client, ReceiveNotLogin(c) PROVE InboxMoves
    BY <1>12, InboxReceive DEF ReceiveNotLogin, Arrives
  <1>13. CASE HandleLogin
    <2> DEFINE r == [type |-> "LoginResponse", uid |-> uidSeq]
               c == Head(queue).cid
    <2>1. r \in Reply /\ c \in Client
      BY <1>13, HeadTyped DEF HandleLogin, HandlerAt, Reply, Uids, TypeOK
    <2>2. Login(c) /\ inbox' = Sending(c, << r >>)
      BY <1>13 DEF HandleLogin, Login
    <2>3. Sends(c, r)
      BY <2>2 DEF Sends
    <2> HIDE DEF r, c
    <2> QED
      BY <2>1, <2>2, <2>3, InboxSendingOne
  <1>14. CASE HandleClose
    BY <1>14, InboxRemarks DEF HandleClose, HandlerAt
  <1>15. CASE HandleOther
    BY <1>15, InboxRemarks DEF HandleOther, HandlerAt
  <1>16. CASE DropUnverified
    BY <1>16, InboxSame DEF DropUnverified
  <1>17. CASE Refuse
    BY <1>17, InboxRemarks DEF Refuse, HandlerAt
  <1>18. CASE ConnectFails
    BY <1>18, InboxRemarks DEF ConnectFails, HandlerAt
  <1>19. CASE Accept
    BY <1>19, InboxRemarks DEF Accept, HandlerAt
  <1>20. CASE SendAnswer
    <2> DEFINE r == [type |-> "Answer", uid |-> Head(queue).uid, peer |-> pending]
               c == Head(queue).cid
    <2>1. pending # NoPeer
      BY <1>20 DEF SendAnswer, Session!Install
    <2>2. r \in Reply /\ c \in Client
      BY <2>1, HeadTyped DEF Reply, TypeOK, Handled
    <2>3. inbox' = Sending(c, << r >>)
      BY <1>20 DEF SendAnswer, AnswerMessage
    <2>4. Sends(c, r)
      BY <2>1 DEF Sends
    <2> HIDE DEF r, c
    <2> QED
      BY <2>2, <2>3, <2>4, InboxSendingOne
  <1>21. CASE AnswerNotSent
    BY <1>21, InboxSame DEF AnswerNotSent
  <1>22. CASE SetLocalDescription
    BY <1>22, InboxSame DEF SetLocalDescription
  <1>23. ASSUME NEW p \in Peer, FindCandidate(p) PROVE InboxMoves
    BY <1>23, InboxSame DEF FindCandidate
  <1>24. ASSUME NEW p \in Peer, SendCandidate(p) PROVE InboxMoves
    <2> DEFINE r == [type |-> "Candidate", uid |-> owner[p].uid, peer |-> p]
    <2>1. r \in Reply
      BY DEF Reply, TypeOK
    <2>2. CASE cand[p] = NoClient
      BY <1>24, <2>2, InboxSame DEF SendCandidate
    <2>3. CASE cand[p] # NoClient
      <3>1. cand[p] \in Client /\ inbox' = Sending(cand[p], << r >>)
        BY <1>24, <2>3 DEF SendCandidate
      <3>2. Sends(cand[p], r)
        BY DEF Sends
      <3> HIDE DEF r
      <3> QED
        BY <2>1, <3>1, <3>2, InboxSendingOne
    <2> QED
      BY <2>2, <2>3
  <1>25. CASE SessionStep
    BY <1>25, InboxSame DEF SessionStep
  <1>26. CASE ConnectError
    BY <1>26, InboxSame DEF ConnectError
  <1>27. CASE Restart
    BY <1>27, InboxSame DEF Restart
  <1>28. CASE UNCHANGED vars
    BY <1>28, InboxSame DEF vars
  <1> QED
    BY <1>1, <1>2, <1>3, <1>4, <1>5, <1>6, <1>7, <1>8, <1>9, <1>10, <1>11, <1>12,
       <1>13, <1>14, <1>15, <1>16, <1>17, <1>18, <1>19, <1>20, <1>21, <1>22, <1>23,
       <1>24, <1>25, <1>26, <1>27, <1>28
       DEF Next, User, Page, MessageThread, CandidateThread
-----------------------------------------------------------------------------
(* Where the messages to a page are after a step: each was there before, at    *)
(* the same place or one further behind, or has just been sent.                *)
LEMMA InboxMessages ==
  ASSUME TypeOK, InboxMoves, NEW c \in Client
  PROVE  \/ \E k \in {0, 1} : \A i \in DOMAIN inbox'[c] :
               i + k \in DOMAIN inbox[c] /\ inbox'[c][i] = inbox[c][i + k]
         \/ /\ Len(inbox[c]) \in Nat
            /\ \A i \in DOMAIN inbox'[c] :
                 \/ i \in DOMAIN inbox[c] /\ inbox'[c][i] = inbox[c][i]
                 \/ i > Len(inbox[c]) /\ Sends(c, inbox'[c][i])
            /\ \A i \in DOMAIN inbox[c] : i <= Len(inbox[c])
  <1> DEFINE s == inbox[c]
  <1>1. s \in Seq(Reply)
    BY DEF TypeOK
  <1>2. CASE inbox'[c] = inbox[c]
    <2>1. \A i \in DOMAIN s : i + 0 = i
      BY <1>1
    <2> QED
      BY <1>2, <2>1
  <1>3. CASE inbox'[c] = <<>>
    BY <1>3
  <1>4. CASE inbox[c] # <<>> /\ inbox'[c] = Tail(inbox[c])
    <2> HIDE DEF s
    <2>1. s # <<>> => \A i \in DOMAIN Tail(s) : i + 1 \in DOMAIN s /\ Tail(s)[i] = s[i + 1]
      BY <1>1
    <2> QED
      BY <1>4, <2>1 DEF s
  <1>5. ASSUME NEW new \in Seq(Reply), inbox'[c] = inbox[c] \o new,
               \A i \in DOMAIN new : Sends(c, new[i])
        PROVE  /\ Len(inbox[c]) \in Nat
               /\ \A i \in DOMAIN inbox'[c] :
                    \/ i \in DOMAIN inbox[c] /\ inbox'[c][i] = inbox[c][i]
                    \/ i > Len(inbox[c]) /\ Sends(c, inbox'[c][i])
               /\ \A i \in DOMAIN inbox[c] : i <= Len(inbox[c])
    <2> HIDE DEF s
    <2>1. /\ Len(s) \in Nat /\ DOMAIN s = 1 .. Len(s)
          /\ DOMAIN (s \o new) = 1 .. Len(s) + Len(new)
          /\ \A i \in 1 .. Len(s) + Len(new) :
               (s \o new)[i] = IF i <= Len(s) THEN s[i] ELSE new[i - Len(s)]
      BY <1>1
    <2>2. ASSUME NEW i \in DOMAIN (s \o new)
          PROVE  \/ i \in DOMAIN s /\ (s \o new)[i] = s[i]
                 \/ i > Len(s) /\ Sends(c, (s \o new)[i])
      <3>1. CASE i <= Len(s)
        BY <2>1, <3>1
      <3>2. CASE i > Len(s)
        <4>1. i - Len(s) \in DOMAIN new /\ (s \o new)[i] = new[i - Len(s)]
          BY <2>1, <3>2
        <4> QED
          BY <1>5, <3>2, <4>1
      <3> QED
        BY <2>1, <3>1, <3>2
    <2> QED
      BY <1>5, <2>1, <2>2 DEF s
  <1> QED
    BY <1>2, <1>3, <1>4, <1>5 DEF InboxMoves

-----------------------------------------------------------------------------
(* The life of a peer goes one way only, and what is sent about it follows.    *)

LEMMA LifeStep == TypeInv /\ LifeInv /\ LifeMoves => /\ LifeInv'
                                                     /\ born \subseteq born' /\ told \subseteq told'
  <1> SUFFICES ASSUME TypeInv, LifeInv, LifeMoves
               PROVE  LifeInv' /\ born \subseteq born' /\ told \subseteq told'
    OBVIOUS
  <1> USE DEF LifeInv
  <1>1. cand \in [Peer -> Client \union {NoClient, Waiting, Sent}]
    BY DEF TypeInv, TypeOK
  <1>2. CASE live' \subseteq live /\ UNCHANGED <<born, told, pending, negotiated, owner, cand>>
    BY <1>2
  <1>3. ASSUME NEW p \in Peer \ born, pending' = p,
               born' = born \union {p}, live' = live \union {p}, UNCHANGED <<told, cand>>
        PROVE  LifeInv' /\ born \subseteq born' /\ told \subseteq told'
    BY <1>3
  <1>4. CASE pending' = NoPeer /\ UNCHANGED <<born, told, live, owner, cand>>
    BY <1>4
  <1>5. CASE /\ pending = NoPeer /\ pending' = NoPeer
             /\ told \subseteq told' /\ told' \subseteq told \union live
             /\ UNCHANGED <<born, live, owner, cand>>
    BY <1>5
  <1>6. ASSUME NEW p \in told, NEW c, cand' = [cand EXCEPT ![p] = c],
               UNCHANGED <<born, told, live, pending, owner>>
        PROVE  LifeInv' /\ born \subseteq born' /\ told \subseteq told'
    BY <1>1, <1>6
  <1>7. ASSUME NEW p \in Peer, cand' = [cand EXCEPT ![p] = Sent],
               UNCHANGED <<born, told, live, pending, owner>>
        PROVE  LifeInv' /\ born \subseteq born' /\ told \subseteq told'
    BY <1>1, <1>7, CallbackAssumption
  <1>8. CASE /\ pending' = NoPeer /\ live' = {} /\ restarts' = restarts + 1
             /\ \A p \in Peer : cand'[p] \in {Waiting, Sent}
             /\ UNCHANGED <<born, told, owner>>
    BY <1>8, CallbackAssumption
  <1> QED
    BY <1>2, <1>3, <1>4, <1>5, <1>6, <1>7, <1>8 DEF LifeMoves

(* An answer is sent for the peer being negotiated, which nothing has been     *)
(* told; a candidate only for a peer that has been told.                       *)
LEMMA SendsLife ==
  ASSUME LifeInv, NEW c \in Client, NEW m, Sends(c, m)
  PROVE  /\ m.type = "Answer" => m.peer \in born \ told
         /\ m.type = "Candidate" => m.peer \in told
  BY DEF LifeInv, Sends

LEMMA MailStep ==
  ASSUME TypeInv, LifeInv, MailInv, InboxMoves, born \subseteq born', told \subseteq told'
  PROVE  MailInv'
  <1> SUFFICES ASSUME NEW c \in Client, NEW i \in DOMAIN inbox'[c]
               PROVE  /\ inbox'[c][i].type = "Answer" => inbox'[c][i].peer \in born'
                      /\ inbox'[c][i].type = "Candidate" => inbox'[c][i].peer \in told'
    BY DEF MailInv
  <1>1. (\E j \in DOMAIN inbox[c] : inbox'[c][i] = inbox[c][j]) \/ Sends(c, inbox'[c][i])
    BY InboxMessages DEF TypeInv
  <1> QED
    BY <1>1, SendsLife DEF MailInv

LEMMA AnswerFirstStep ==
  ASSUME TypeInv, TypeInv', LifeInv, MailInv, AnswerBeforeCandidate, InboxMoves
  PROVE  AnswerBeforeCandidate'
  <1> SUFFICES ASSUME NEW c \in Client, NEW i \in DOMAIN inbox'[c], NEW j \in DOMAIN inbox'[c],
                      inbox'[c][i].type = "Candidate", inbox'[c][j].type = "Answer",
                      inbox'[c][i].peer = inbox'[c][j].peer
               PROVE  j < i
    BY DEF AnswerBeforeCandidate
  <1>0. i \in Nat /\ j \in Nat
    <2>1. inbox'[c] \in Seq(Reply)
      BY DEF TypeInv, TypeOK
    <2> QED
      BY <2>1
  <1>1. ASSUME NEW k \in {0, 1},
               \A n \in DOMAIN inbox'[c] :
                  n + k \in DOMAIN inbox[c] /\ inbox'[c][n] = inbox[c][n + k]
        PROVE  j < i
    <2>1. /\ i + k \in DOMAIN inbox[c] /\ inbox'[c][i] = inbox[c][i + k]
          /\ j + k \in DOMAIN inbox[c] /\ inbox'[c][j] = inbox[c][j + k]
      BY <1>1
    <2>2. j + k < i + k
      BY <2>1 DEF AnswerBeforeCandidate
    <2> QED
      BY <1>0, <2>2
  <1>2. ASSUME Len(inbox[c]) \in Nat,
               \A n \in DOMAIN inbox'[c] :
                  \/ n \in DOMAIN inbox[c] /\ inbox'[c][n] = inbox[c][n]
                  \/ n > Len(inbox[c]) /\ Sends(c, inbox'[c][n]),
               \A n \in DOMAIN inbox[c] : n <= Len(inbox[c])
        PROVE  j < i
    <2>1. CASE j \in DOMAIN inbox[c] /\ inbox'[c][j] = inbox[c][j]
      <3>1. CASE i \in DOMAIN inbox[c] /\ inbox'[c][i] = inbox[c][i]
        BY <2>1, <3>1 DEF AnswerBeforeCandidate
      <3>2. CASE i > Len(inbox[c])
        BY <1>0, <1>2, <2>1, <3>2
      <3> QED
        BY <1>2, <3>1, <3>2
    <2>2. CASE Sends(c, inbox'[c][j])
      <3>1. inbox'[c][j].peer \notin told
        BY <2>2, SendsLife
      <3>2. inbox'[c][i].peer \in told
        BY <1>2, SendsLife DEF MailInv
      <3> QED
        BY <3>1, <3>2
    <2> QED
      BY <1>2, <2>1, <2>2
  <1> QED
    BY <1>1, <1>2, InboxMessages DEF TypeInv

-----------------------------------------------------------------------------
(* Uids. As long as the server lives none is given out twice, so what belongs  *)
(* to a page goes on belonging to it.                                          *)

LEMMA NoRestart == TypeInv /\ UidMoves /\ restarts' = 0 =>
                     /\ restarts = 0
                     /\ \/ UNCHANGED <<connCids, uidSeq>>
                        \/ \E c \in Client : Login(c)
  BY DEF TypeInv, TypeOK, UidMoves

LEMMA UniqueStep == TypeInv /\ UidsUnique /\ UidMoves => UidsUnique'
  <1> SUFFICES ASSUME TypeInv, UidsUnique, UidMoves PROVE UidsUnique'
    OBVIOUS
  <1>1. connCids \in [Client -> Uids] /\ uidSeq \in Nat
    BY DEF TypeInv, TypeOK
  <1>2. CASE UNCHANGED <<restarts, connCids, uidSeq>>
    BY <1>2 DEF UidsUnique, Known
  <1>3. ASSUME NEW e \in Client, Login(e) PROVE UidsUnique'
    <2> SUFFICES ASSUME NEW c \in Client, NEW d \in Client, connCids'[c] # NoUid
                 PROVE  connCids'[c] < uidSeq' /\ (connCids'[d] = connCids'[c] => c = d)
      BY DEF UidsUnique, Known
    <2>1. /\ uidSeq' = uidSeq + 1
          /\ \A f \in Client : connCids'[f] = IF f = e THEN uidSeq ELSE connCids[f]
      BY <1>1, <1>3 DEF Login
    <2>2. \A f \in Client : connCids[f] \in Int /\ connCids[f] # uidSeq
      BY <1>1 DEF Uids, NoUid, UidsUnique, Known
    <2> QED
      BY <1>1, <2>1, <2>2 DEF UidsUnique, Known
  <1>4. CASE connCids' = [c \in Client |-> NoUid]
    BY <1>4 DEF UidsUnique, Known
  <1> QED
    BY <1>2, <1>3, <1>4 DEF UidMoves

LEMMA BelongsStays ==
  ASSUME TypeInv, UidMoves, restarts' = 0, NEW c \in Client, NEW u \in Uids, Belongs(c, u),
         u # NoUid
  PROVE  u < uidSeq' /\ \A d \in Client : connCids'[d] = u => d = c
  <1>1. connCids \in [Client -> Uids] /\ uidSeq \in Nat /\ u \in Nat
    BY DEF TypeInv, TypeOK, Uids
  <1>2. u < uidSeq /\ \A d \in Client : connCids[d] = u => d = c
    BY DEF Belongs
  <1>3. CASE UNCHANGED <<connCids, uidSeq>>
    BY <1>2, <1>3
  <1>4. ASSUME NEW e \in Client, Login(e)
        PROVE  u < uidSeq' /\ \A d \in Client : connCids'[d] = u => d = c
    <2>1. /\ uidSeq' = uidSeq + 1
          /\ \A f \in Client : connCids'[f] = IF f = e THEN uidSeq ELSE connCids[f]
      BY <1>1, <1>4 DEF Login
    <2> QED
      BY <1>1, <1>2, <2>1
  <1> QED
    BY <1>3, <1>4, NoRestart

(* A uid just given out belongs to the page that logged in.                    *)
LEMMA BelongsNew ==
  ASSUME TypeInv, UidsUnique, NEW c \in Client, Login(c)
  PROVE  uidSeq < uidSeq' /\ \A d \in Client : connCids'[d] = uidSeq => d = c
  <1>1. connCids \in [Client -> Uids] /\ uidSeq \in Nat
    BY DEF TypeInv, TypeOK
  <1>2. /\ uidSeq' = uidSeq + 1
        /\ \A f \in Client : connCids'[f] = IF f = c THEN uidSeq ELSE connCids[f]
    BY <1>1 DEF Login
  <1>3. \A f \in Client : connCids[f] # uidSeq
    BY <1>1 DEF UidsUnique, Known, Uids, NoUid
  <1> QED
    BY <1>1, <1>2, <1>3

(* The messages on their way have the types of TypeOK.                         *)
LEMMA UidTyped ==
  ASSUME TypeInv
  PROVE  /\ \A c \in Client : uid[c] \in Uids
         /\ \A c \in Client : \A i \in DOMAIN inbox[c] :
              inbox[c][i].type = "LoginResponse" => inbox[c][i].uid \in Uids
         /\ \A i \in DOMAIN queue : queue[i].cid \in Client /\ queue[i].uid \in Uids
  <1>1. \A i \in DOMAIN queue : queue[i] \in Request
    BY DEF TypeInv, TypeOK
  <1>2. \A c \in Client : \A i \in DOMAIN inbox[c] : inbox[c][i] \in Reply
    BY DEF TypeInv, TypeOK
  <1> QED
    BY <1>1, <1>2 DEF TypeInv, TypeOK, Request, Reply

LEMMA HeadMessage == TypeInv => \A c \in Client : inbox[c] # <<>> =>
                                  1 \in DOMAIN inbox[c] /\ Head(inbox[c]) = inbox[c][1]
  BY DEF TypeInv, TypeOK

LEMMA UidStep ==
  ASSUME TypeInv, TypeInv', UidsUnique, UidInv, UidMoves, QueueMoves, InboxMoves
  PROVE  UidInv'
  <1> SUFFICES ASSUME restarts' = 0
               PROVE  /\ \A c \in Client : Belongs(c, uid[c])'
                      /\ \A c \in Client : sdk'[c] \in Pending => uid'[c] # NoUid
                      /\ \A c \in Client : \A i \in DOMAIN inbox'[c] :
                           inbox'[c][i].type = "LoginResponse" =>
                             inbox'[c][i].uid # NoUid /\ Belongs(c, inbox[c][i].uid)'
                      /\ \A i \in DOMAIN queue' : Belongs(queue[i].cid, queue[i].uid)'
                      /\ \A i \in DOMAIN queue' :
                           queue'[i].type = "ConnectSdp" => queue'[i].uid # NoUid
    BY DEF UidInv, Pending
  <1>1. /\ \A c \in Client : uid[c] \in Uids /\ Belongs(c, uid[c])
        /\ \A c \in Client : sdk[c] \in Pending => uid[c] # NoUid
        /\ \A c \in Client : \A i \in DOMAIN inbox[c] :
             inbox[c][i].type = "LoginResponse" =>
               /\ inbox[c][i].uid \in Uids /\ inbox[c][i].uid # NoUid
               /\ Belongs(c, inbox[c][i].uid)
        /\ \A i \in DOMAIN queue : /\ queue[i].cid \in Client /\ queue[i].uid \in Uids
                                   /\ Belongs(queue[i].cid, queue[i].uid)
        /\ \A i \in DOMAIN queue : queue[i].type = "ConnectSdp" => queue[i].uid # NoUid
    BY NoRestart, UidTyped DEF UidInv, Pending
  <1>2. ASSUME NEW c \in Client
        PROVE  Belongs(c, uid[c])' /\ (sdk'[c] \in Pending => uid'[c] # NoUid)
    <2>1. CASE uid'[c] = uid[c] /\ (sdk'[c] \in Pending => sdk[c] \in Pending)
      BY <1>1, <2>1, BelongsStays DEF Belongs
    <2>2. CASE /\ inbox[c] # <<>> /\ Head(inbox[c]).type = "LoginResponse"
               /\ uid'[c] = Head(inbox[c]).uid
      <3>1. 1 \in DOMAIN inbox[c] /\ inbox[c][1].type = "LoginResponse" /\ uid'[c] = inbox[c][1].uid
        BY <2>2, HeadMessage
      <3> QED
        BY <1>1, <3>1, BelongsStays DEF Belongs
    <2> QED
      BY <2>1, <2>2 DEF UidMoves
  <1>3. ASSUME NEW c \in Client, NEW i \in DOMAIN inbox'[c], inbox'[c][i].type = "LoginResponse"
        PROVE  inbox'[c][i].uid # NoUid /\ Belongs(c, inbox[c][i].uid)'
    <2>1. (\E j \in DOMAIN inbox[c] : inbox'[c][i] = inbox[c][j]) \/ Sends(c, inbox'[c][i])
      BY InboxMessages DEF TypeInv
    <2>2. CASE \E j \in DOMAIN inbox[c] : inbox'[c][i] = inbox[c][j]
      BY <1>1, <1>3, <2>2, BelongsStays DEF Belongs
    <2>3. CASE Sends(c, inbox'[c][i])
      <3>1. inbox'[c][i].uid = uidSeq /\ Login(c)
        BY <1>3, <2>3 DEF Sends
      <3>2. uidSeq # NoUid
        BY DEF TypeInv, TypeOK, NoUid
      <3> QED
        BY <3>1, <3>2, BelongsNew DEF Belongs
    <2> QED
      BY <2>1, <2>2, <2>3
  <1>4. ASSUME NEW i \in DOMAIN queue'
        PROVE  /\ Belongs(queue[i].cid, queue[i].uid)'
               /\ queue'[i].type = "ConnectSdp" => queue'[i].uid # NoUid
    <2>1. CASE \E j \in DOMAIN queue : queue'[i] = queue[j]
      BY <1>1, <2>1, BelongsStays DEF Belongs
    <2>2. CASE \E c \in Client : /\ queue'[i].cid = c /\ queue'[i].uid = uid[c]
                                 /\ queue'[i].type = "ConnectSdp" => sdk[c] \in Pending
      BY <1>1, <2>2, BelongsStays DEF Belongs
    <2> QED
      BY <2>1, <2>2 DEF QueueMoves
  <1> QED
    BY <1>2, <1>3, <1>4

-----------------------------------------------------------------------------
(* A peer connection, what it finds and what is sent about it stay with the    *)
(* page whose offer it was made for.                                           *)

LEMMA OwnerStep ==
  ASSUME TypeInv, TypeInv', LifeInv, UidInv, OwnerInv, UidMoves, LifeMoves, QueueMoves
  PROVE  OwnerInv'
  <1> SUFFICES ASSUME restarts' = 0
               PROVE  /\ \A p \in born' : /\ owner'[p].cid \in Client /\ owner'[p].uid # NoUid
                                          /\ Belongs(owner[p].cid, owner[p].uid)'
                      /\ pending' # NoPeer => owner'[pending'].cid = Head(queue').cid
                      /\ \A p \in Peer : cand'[p] \in Client => owner'[p].cid = cand'[p]
    BY DEF OwnerInv
  <1>1. /\ restarts = 0
        /\ \A p \in born : /\ owner[p].cid \in Client /\ owner[p].uid # NoUid
                           /\ Belongs(owner[p].cid, owner[p].uid)
        /\ pending # NoPeer => owner[pending].cid = Head(queue).cid
        /\ \A p \in Peer : cand[p] \in Client => owner[p].cid = cand[p]
    BY NoRestart DEF OwnerInv
  <1>2. /\ owner \in [Peer -> [cid : Client \union {NoClient}, uid : Uids]]
        /\ cand \in [Peer -> Client \union {NoClient, Waiting, Sent}]
        /\ born \subseteq Peer
    BY DEF TypeInv, TypeOK
  <1>3. \A p \in born : owner[p].uid \in Uids
    BY <1>2
  <1>4. \A p \in born : /\ owner[p].uid < uidSeq'
                        /\ \A d \in Client : connCids'[d] = owner[p].uid => d = owner[p].cid
    BY <1>1, <1>3, BelongsStays
  <1>5. ASSUME owner' = owner, born' = born
        PROVE  \A p \in born' : /\ owner'[p].cid \in Client /\ owner'[p].uid # NoUid
                                /\ Belongs(owner[p].cid, owner[p].uid)'
    BY <1>1, <1>4, <1>5 DEF Belongs
  <1>6. ASSUME owner' = owner, pending' = pending
        PROVE  pending' # NoPeer => owner'[pending'].cid = Head(queue').cid
    BY <1>1, <1>6 DEF QueueMoves
  <1>7. CASE live' \subseteq live /\ UNCHANGED <<born, told, pending, negotiated, owner, cand>>
    BY <1>1, <1>5, <1>6, <1>7
  <1>8. ASSUME NEW p \in Peer \ born, queue # <<>>, queue' = queue,
               Head(queue).type = "ConnectSdp", pending' = p, born' = born \union {p},
               owner' = [owner EXCEPT ![p] = [cid |-> Head(queue).cid, uid |-> Head(queue).uid]],
               UNCHANGED cand
        PROVE  OwnerInv'
    <2>1. /\ Head(queue).cid \in Client /\ Head(queue).uid \in Uids
          /\ Head(queue).uid # NoUid /\ Belongs(Head(queue).cid, Head(queue).uid)
      <3>1. 1 \in DOMAIN queue /\ Head(queue) = queue[1]
        BY <1>8 DEF TypeInv, TypeOK
      <3> QED
        BY <1>1, <1>8, <3>1, HeadTyped DEF UidInv, TypeInv
    <2>2. /\ Head(queue).uid < uidSeq'
          /\ \A d \in Client : connCids'[d] = Head(queue).uid => d = Head(queue).cid
      BY <2>1, BelongsStays
    <2>3. /\ owner'[p].cid = Head(queue).cid /\ owner'[p].uid = Head(queue).uid
          /\ \A q \in Peer : q # p => owner'[q] = owner[q]
      BY <1>2, <1>8
    <2>4. ASSUME NEW q \in born'
          PROVE  /\ owner'[q].cid \in Client /\ owner'[q].uid # NoUid
                 /\ Belongs(owner[q].cid, owner[q].uid)'
      <3>1. CASE q = p
        BY <2>1, <2>2, <2>3, <3>1 DEF Belongs
      <3>2. CASE q \in born /\ q # p
        <4>1. owner'[q] = owner[q]
          BY <1>2, <2>3, <3>2
        <4> QED
          BY <1>1, <1>4, <3>2, <4>1 DEF Belongs
      <3> QED
        BY <1>8, <3>1, <3>2
    <2>5. ASSUME NEW q \in Peer, cand'[q] \in Client PROVE owner'[q].cid = cand'[q]
      <3>1. q \in born
        BY <1>8, <2>5 DEF LifeInv
      <3> QED
        BY <1>1, <1>8, <2>3, <2>5, <3>1
    <2>6. owner'[pending'].cid = Head(queue').cid
      BY <1>8, <2>3
    <2> QED
      BY <2>4, <2>5, <2>6 DEF OwnerInv
  <1>9. CASE pending' = NoPeer /\ UNCHANGED <<born, owner, cand>>
    BY <1>1, <1>5, <1>9
  <1>10. ASSUME NEW p \in told, UNCHANGED <<born, pending, owner>>,
                \/ cand' = [cand EXCEPT ![p] = NoClient]
                \/ \E c \in Client : connCids[c] = owner[p].uid /\ cand' = [cand EXCEPT ![p] = c]
         PROVE  OwnerInv'
    <2>1. ASSUME NEW q \in Peer, cand'[q] \in Client PROVE owner'[q].cid = cand'[q]
      <3>1. CASE q # p
        <4>1. cand'[q] = cand[q]
          BY <1>2, <1>10, <3>1
        <4> QED
          BY <1>1, <1>10, <2>1, <4>1
      <3>2. CASE q = p
        <4>1. cand'[p] # NoClient
          BY <2>1, <3>2, NoClientAssumption
        <4>2. PICK c \in Client : connCids[c] = owner[p].uid /\ cand'[p] = c
          BY <1>2, <1>10, <4>1, <3>2
        <4>3. c = owner[p].cid
          BY <1>1, <4>2 DEF LifeInv, Belongs
        <4> QED
          BY <1>10, <3>2, <4>2, <4>3
      <3> QED
        BY <3>1, <3>2
    <2> QED
      BY <1>5, <1>6, <1>10, <2>1 DEF OwnerInv
  <1>11. ASSUME NEW p \in Peer, cand' = [cand EXCEPT ![p] = Sent],
                UNCHANGED <<born, pending, owner>>
         PROVE  OwnerInv'
    <2>1. \A q \in Peer : cand'[q] \in Client => cand'[q] = cand[q]
      BY <1>2, <1>11, CallbackAssumption
    <2> QED
      BY <1>1, <1>5, <1>6, <1>11, <2>1 DEF OwnerInv
  <1>12. CASE restarts' = restarts + 1
    BY <1>1, <1>12
  <1> QED
    BY <1>7, <1>8, <1>9, <1>10, <1>11, <1>12 DEF LifeMoves, OwnerInv

LEMMA RepliesStep ==
  ASSUME TypeInv, LifeInv, MailInv, OwnerInv, OwnRepliesOnly, UidMoves, LifeMoves, InboxMoves
  PROVE  OwnRepliesOnly'
  <1> SUFFICES ASSUME restarts' = 0, NEW c \in Client, NEW i \in DOMAIN inbox'[c],
                      inbox'[c][i].type \in {"Answer", "Candidate"}
               PROVE  owner'[inbox'[c][i].peer].cid = c
    BY DEF OwnRepliesOnly
  <1>1. restarts = 0
    BY NoRestart
  <1>2. \A p \in born : owner'[p] = owner[p]
    BY DEF LifeMoves, TypeInv, TypeOK
  <1>3. (\E j \in DOMAIN inbox[c] : inbox'[c][i] = inbox[c][j]) \/ Sends(c, inbox'[c][i])
    BY InboxMessages DEF TypeInv
  <1>4. CASE \E j \in DOMAIN inbox[c] : inbox'[c][i] = inbox[c][j]
    <2>1. inbox'[c][i].peer \in born
      BY <1>4 DEF MailInv, LifeInv
    <2> QED
      BY <1>1, <1>2, <1>4, <2>1 DEF OwnRepliesOnly
  <1>5. CASE Sends(c, inbox'[c][i])
    <2>1. inbox'[c][i].peer \in born
      BY <1>5, SendsLife DEF LifeInv
    <2>2. owner[inbox'[c][i].peer].cid = c
      BY <1>1, <1>5 DEF Sends, OwnerInv
    <2> QED
      BY <1>2, <2>1, <2>2
  <1> QED
    BY <1>3, <1>4, <1>5

(* Login responses queue up behind those with smaller uids.                    *)
LEMMA OrderStep ==
  ASSUME TypeInv, TypeInv', UidInv, OrderInv, UidMoves, InboxMoves
  PROVE  OrderInv'
  <1> SUFFICES ASSUME restarts' = 0, NEW c \in Client, NEW i \in DOMAIN inbox'[c],
                      inbox'[c][i].type = "LoginResponse"
               PROVE  /\ uid'[c] <= inbox'[c][i].uid
                      /\ \A j \in DOMAIN inbox'[c] :
                           i < j /\ inbox'[c][j].type = "LoginResponse"
                             => inbox'[c][i].uid <= inbox'[c][j].uid
    BY DEF OrderInv
  <1>1. /\ restarts = 0 /\ uidSeq \in Nat
        /\ inbox[c] \in Seq(Reply) /\ inbox'[c] \in Seq(Reply)
    BY NoRestart DEF TypeInv, TypeOK
  <1>2. uid[c] \in Int /\ uid[c] < uidSeq
    <2>1. uid[c] \in Uids /\ (uid[c] # NoUid => uid[c] < uidSeq)
      BY <1>1, UidTyped DEF UidInv, Belongs
    <2> QED
      BY <1>1, <2>1 DEF Uids, NoUid
  <1>3. ASSUME NEW n \in DOMAIN inbox[c], inbox[c][n].type = "LoginResponse"
        PROVE  /\ inbox[c][n].uid \in Int /\ inbox[c][n].uid < uidSeq
               /\ uid[c] <= inbox[c][n].uid
               /\ \A m \in DOMAIN inbox[c] :
                    n <= m /\ inbox[c][m].type = "LoginResponse" =>
                      inbox[c][n].uid <= inbox[c][m].uid
    <2>1. /\ inbox[c][n].uid \in Uids /\ inbox[c][n].uid < uidSeq
          /\ uid[c] <= inbox[c][n].uid
      BY <1>1, <1>3, UidTyped DEF UidInv, Belongs, OrderInv
    <2>2. inbox[c][n].uid \in Int
      BY <2>1 DEF Uids, NoUid
    <2>3. \A m \in DOMAIN inbox[c] :
            n < m /\ inbox[c][m].type = "LoginResponse" => inbox[c][n].uid <= inbox[c][m].uid
      BY <1>1, <1>3 DEF OrderInv
    <2>4. \A m \in DOMAIN inbox[c] : n <= m => n < m \/ m = n
      BY <1>1
    <2> QED
      BY <2>1, <2>2, <2>3, <2>4
  <1>4. /\ uid'[c] \in Int /\ uid'[c] < uidSeq
        /\ \A n \in DOMAIN inbox[c] :
             inbox[c][n].type = "LoginResponse" => uid'[c] <= inbox[c][n].uid
    <2>1. CASE uid'[c] = uid[c]
      BY <1>2, <1>3, <2>1
    <2>2. CASE /\ inbox[c] # <<>> /\ Head(inbox[c]).type = "LoginResponse"
               /\ uid'[c] = Head(inbox[c]).uid
      <3>1. /\ 1 \in DOMAIN inbox[c] /\ inbox[c][1].type = "LoginResponse"
            /\ uid'[c] = inbox[c][1].uid
        BY <2>2, HeadMessage
      <3>2. \A n \in DOMAIN inbox[c] : 1 <= n
        BY <1>1
      <3> QED
        BY <1>3, <3>1, <3>2
    <2> QED
      BY <2>1, <2>2 DEF UidMoves
  <1>5. ASSUME NEW k \in {0, 1},
               \A n \in DOMAIN inbox'[c] :
                  n + k \in DOMAIN inbox[c] /\ inbox'[c][n] = inbox[c][n + k]
        PROVE  /\ uid'[c] <= inbox'[c][i].uid
               /\ \A j \in DOMAIN inbox'[c] :
                    i < j /\ inbox'[c][j].type = "LoginResponse"
                      => inbox'[c][i].uid <= inbox'[c][j].uid
    <2>1. i + k \in DOMAIN inbox[c] /\ inbox'[c][i] = inbox[c][i + k]
      BY <1>5
    <2>2. ASSUME NEW j \in DOMAIN inbox'[c], i < j, inbox'[c][j].type = "LoginResponse"
          PROVE  inbox'[c][i].uid <= inbox'[c][j].uid
      <3>1. j + k \in DOMAIN inbox[c] /\ inbox'[c][j] = inbox[c][j + k]
        BY <1>5
      <3>2. i + k <= j + k
        BY <1>1, <2>2
      <3> QED
        BY <1>3, <2>1, <2>2, <3>1, <3>2
    <2> QED
      BY <1>4, <2>1, <2>2
  <1>6. ASSUME Len(inbox[c]) \in Nat,
               \A n \in DOMAIN inbox'[c] :
                  \/ n \in DOMAIN inbox[c] /\ inbox'[c][n] = inbox[c][n]
                  \/ n > Len(inbox[c]) /\ Sends(c, inbox'[c][n]),
               \A n \in DOMAIN inbox[c] : n <= Len(inbox[c])
        PROVE  /\ uid'[c] <= inbox'[c][i].uid
               /\ \A j \in DOMAIN inbox'[c] :
                    i < j /\ inbox'[c][j].type = "LoginResponse"
                      => inbox'[c][i].uid <= inbox'[c][j].uid
    <2>1. \A n \in DOMAIN inbox'[c] : inbox'[c][n].type = "LoginResponse" =>
            \/ n \in DOMAIN inbox[c] /\ inbox'[c][n] = inbox[c][n]
            \/ n > Len(inbox[c]) /\ inbox'[c][n].uid = uidSeq
      BY <1>6 DEF Sends
    <2>2. ASSUME NEW j \in DOMAIN inbox'[c], i < j, inbox'[c][j].type = "LoginResponse"
          PROVE  inbox'[c][i].uid <= inbox'[c][j].uid
      <3>1. i \in Nat /\ j \in Nat
        BY <1>1
      <3>2. CASE j \in DOMAIN inbox[c] /\ inbox'[c][j] = inbox[c][j]
        <4>1. i \in DOMAIN inbox[c] /\ inbox'[c][i] = inbox[c][i]
          BY <1>6, <2>1, <2>2, <3>1, <3>2
        <4> QED
          BY <1>3, <2>2, <3>1, <3>2, <4>1
      <3>3. CASE inbox'[c][j].uid = uidSeq
        BY <1>1, <1>3, <2>1, <3>3
      <3> QED
        BY <2>1, <2>2, <3>2, <3>3
    <2>3. uid'[c] <= inbox'[c][i].uid
      BY <1>1, <1>4, <2>1
    <2> QED
      BY <2>2, <2>3
  <1> QED
    BY <1>5, <1>6, InboxMessages DEF TypeInv

-----------------------------------------------------------------------------
(* Everything together.                                                        *)

LEMMA InvStep == IInv /\ [Next]_vars => IInv' /\ UidMoves
  <1> SUFFICES ASSUME IInv, [Next]_vars PROVE IInv' /\ UidMoves
    OBVIOUS
  <1> USE DEF IInv
  <1>1. TypeInv' /\ UidMoves /\ LifeMoves /\ QueueMoves /\ InboxMoves
    BY TypeStep, UidSteps, LifeSteps, QueueSteps, InboxSteps
  <1>2. LifeInv' /\ MailInv'
    BY <1>1, LifeStep, MailStep
  <1>3. AnswerBeforeCandidate'
    BY <1>1, AnswerFirstStep
  <1>4. UidsUnique' /\ UidInv'
    BY <1>1, UniqueStep, UidStep
  <1>5. OwnerInv' /\ OwnRepliesOnly'
    BY <1>1, OwnerStep, RepliesStep
  <1>6. OrderInv'
    BY <1>1, OrderStep
  <1> QED
    BY <1>1, <1>2, <1>3, <1>4, <1>5, <1>6

LEMMA InvInit == Init => IInv
  <1> SUFFICES ASSUME Init PROVE IInv
    OBVIOUS
  <1>1. TypeInv
    BY TypeInit
  <1>2. queue = <<>> /\ \A c \in Client : inbox[c] = <<>> /\ uid[c] = NoUid /\ sdk[c] = "none"
                                         /\ connCids[c] = NoUid
    BY DEF Init
  <1>3. born = {} /\ told = {} /\ live = {} /\ pending = NoPeer /\ \A p \in Peer : cand[p] = Waiting
    BY DEF Init, Session!Init
  <1>4. LifeInv /\ MailInv /\ AnswerBeforeCandidate
    BY <1>2, <1>3, CallbackAssumption DEF LifeInv, MailInv, AnswerBeforeCandidate
  <1>5. UidsUnique /\ UidInv /\ OrderInv
    BY <1>2 DEF UidsUnique, Known, UidInv, OrderInv, Belongs
  <1>6. OwnerInv /\ OwnRepliesOnly
    BY <1>2, <1>3, CallbackAssumption DEF OwnerInv, OwnRepliesOnly
  <1> QED
    BY <1>1, <1>4, <1>5, <1>6 DEF IInv

(* All of it holds in every state: what is kept of pages and peers agrees with *)
(* what is on its way.                                                         *)
THEOREM InvCorrect == Spec => []IInv
  BY InvInit, InvStep, PTL DEF Spec

(* YangIpcMessage: in one life of the server, no two pages hold the same uid,  *)
(* and what is sent about a peer connection goes to the page it was made for,  *)
(* although a candidate finds its page by the uid alone, and later.            *)
THEOREM RoutingCorrect == Spec => []RoutedByUid
  <1>1. IInv => RoutedByUid
    BY DEF IInv, TypeInv, RoutedByUid
  <1> QED
    BY <1>1, InvCorrect, PTL

(* YangIpcMessage: the answer is sent before the peer is told its description, *)
(* so no candidate of the peer overtakes it, on no page and after no restart.  *)
THEOREM AnswerFirst == Spec => []AnswerBeforeCandidate
  <1>1. IInv => AnswerBeforeCandidate
    BY DEF IInv
  <1> QED
    BY <1>1, InvCorrect, PTL

(* yangmqtt.js: a page never takes an older uid for a newer one, as long as    *)
(* the server lives.                                                           *)
THEOREM UidsOnlyGrow == Spec => UidsGrow
  <1>1. IInv /\ [Next]_vars =>
          [restarts' = 0 => \A c \in Client : uid'[c] >= uid[c]]_vars
    <2> SUFFICES ASSUME IInv, [Next]_vars, restarts' = 0, NEW c \in Client
                 PROVE  uid'[c] >= uid[c]
      OBVIOUS
    <2>1. UidMoves /\ TypeInv /\ OrderInv
      BY InvStep DEF IInv
    <2>2. restarts = 0 /\ uid[c] \in Int
      BY <2>1, NoRestart, UidTyped DEF Uids, NoUid
    <2>3. inbox[c] # <<>> /\ Head(inbox[c]).type = "LoginResponse" => uid[c] <= Head(inbox[c]).uid
      BY <2>1, <2>2, HeadMessage DEF OrderInv
    <2> QED
      BY <2>1, <2>2, <2>3 DEF UidMoves
  <1> QED
    BY <1>1, InvCorrect, PTL DEF Spec, UidsGrow
=============================================================================
