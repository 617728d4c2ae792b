----------------------------- MODULE IceServers -----------------------------
(***************************************************************************)
(* What becomes of the ICE servers a page asks for on legacy Edge          *)
(* (adapter-7.4.0.js).  The browser shim wraps the RTCPeerConnection       *)
(* constructor: it filters the list of servers, writes the result back     *)
(* into the page's own configuration object, and calls the polyfill's      *)
(* constructor, which copies the configuration, refuses one policy, and    *)
(* filters the list again with rules of its own before the gatherers get   *)
(* it.  The page may construct again with the same object.                 *)
(*                                                                         *)
(* A url is its scheme, whether it says ?transport=udp, and whether its    *)
(* host is an IPv6 literal; a server is the sequence of its urls.          *)
(***************************************************************************)
EXTENDS Naturals, Sequences, SequencesExt, FiniteSets, Filter

CONSTANTS EdgeVersions,  \* the browser versions checked; 14393 is the first
                         \* whose STUN support the polyfill trusts
          MaxServers,    \* bound on the servers the page lists
          MaxUrls,       \* bound on the urls of a server
          MaxAttempts    \* bound on the constructions

VARIABLES asked,    \* what the page wrote into its configuration
          config,   \* iceServers in the page's configuration object
          edgeVersion,
          call,     \* "idle", "filtered" (in the polyfill's constructor),
                    \* "open", "refused"
          used,     \* the servers the gatherers get
          attempts

vars == <<asked, config, edgeVersion, call, used, attempts>>

Url == [scheme : {"stun", "turn", "turns"}, udp : BOOLEAN, v6 : BOOLEAN]
Server == BoundedSeq(Url, MaxUrls)

(* The places of urls in a list of servers, in the order of the list.      *)
Places(servers) == UNION {{i} \X DOMAIN servers[i] : i \in DOMAIN servers}
At(servers, p) == servers[p[1]][p[2]]
Before(p, q) == p[1] < q[1] \/ (p[1] = q[1] /\ p[2] < q[2])

-----------------------------------------------------------------------------
(* The shim's filter: no STUN, and the first url that is a TURN server by  *)
(* its test, which "turns:" passes as well.                                *)
EdgeTurn(u) == u.scheme \in {"turn", "turns"} /\ u.udp
               /\ ~(u.scheme = "turn" /\ u.v6)

(* The polyfill's filter: the first "turn:" url over udp to a host that is *)
(* not IPv6, and from version 14393 on STUN that does not name a           *)
(* transport.                                                              *)
OrtcTurn(u) == u.scheme = "turn" /\ u.udp /\ ~u.v6

OrtcStun(u) == u.scheme = "stun" /\ edgeVersion >= 14393 /\ ~u.udp

(* Both run through the servers with hasTurn shared by all of them: a url *)
(* finds it false when no valid TURN url came before.                      *)

(* hasTurn starts again with every server. *)
FirstTurn_Bug(servers, turn) ==
    {p \in Places(servers) :
        /\ At(servers, p) \in turn
        /\ \A q \in Places(servers) :
              q[1] = p[1] /\ Before(q, p) => At(servers, q) \notin turn}

FirstTurn(servers, turn) ==
    {p \in Places(servers) :
        /\ At(servers, p) \in turn
        /\ \A q \in Places(servers) : Before(q, p) => At(servers, q) \notin turn}

(* The first valid TURN url is kept, and those that stay anyway; a server  *)
(* that has no url left is dropped.                                        *)
Kept(servers, turn, stays) ==
    LET passed == FirstTurn(servers, turn)
                    \cup {p \in Places(servers) : At(servers, p) \in stays}
        left == [i \in DOMAIN servers |->
                    Pick(servers[i], {j \in DOMAIN servers[i] : <<i, j>> \in passed})]
    IN  Pick(left, {i \in DOMAIN servers : left[i] # <<>>})

(* Any url that begins with "turn" takes the place of the one that stays. *)
FilterEdge_Bug(servers) == Kept(servers, {u \in Url : u.scheme # "stun"}, {})

FilterEdge(servers) == Kept(servers, {u \in Url : EdgeTurn(u)}, {})

FilterOrtc(servers) ==
    Kept(servers, {u \in Url : OrtcTurn(u)}, {u \in Url : OrtcStun(u)})

-----------------------------------------------------------------------------
Init ==
    /\ asked \in BoundedSeq(Server, MaxServers)
    /\ config = asked
    /\ edgeVersion \in EdgeVersions
    /\ call = "idle"
    /\ used = <<>>
    /\ attempts = 0

(* new RTCPeerConnection(config), the shim's part. *)
Construct ==
    /\ call \in {"idle", "refused", "open"}
    /\ attempts < MaxAttempts
    /\ config' = FilterEdge(config)
    /\ call' = "filtered"
    /\ used' = <<>>
    /\ attempts' = attempts + 1
    /\ UNCHANGED <<asked, edgeVersion>>

(* The polyfill's constructor refuses rtcpMuxPolicy 'negotiate'. *)
Refuse ==
    /\ call = "filtered"
    /\ call' = "refused"
    /\ UNCHANGED <<asked, config, edgeVersion, used, attempts>>

(* It filters its own copy of the list and keeps it for the gatherers. *)
Configure ==
    /\ call = "filtered"
    /\ used' = FilterOrtc(config)
    /\ call' = "open"
    /\ UNCHANGED <<asked, config, edgeVersion, attempts>>

Next == Construct \/ Refuse \/ Configure

Spec == Init /\ [][Next]_vars

-----------------------------------------------------------------------------
(* At most one TURN url reaches the gatherers, however the page spreads    *)
(* its urls over servers: Edge fails when there are two.                   *)
AtMostOneTurn ==
    call = "open" =>
        \A p, q \in Places(used) :
            At(used, p).scheme # "stun" /\ At(used, q).scheme # "stun" => p = q

(* A TURN url that Edge can use is not lost on the way through the two     *)
(* filters and through a refused or a repeated construction, except when a *)
(* turns: url over udp stands before it: the shim keeps that one, which    *)
(* the polyfill then drops.                                                *)
TurnSurvives ==
    LET Usable(servers) == \E p \in Places(servers) : OrtcTurn(At(servers, p))
        Shadowed ==
            \E p \in Places(asked) :
                /\ At(asked, p).scheme = "turns" /\ At(asked, p).udp
                /\ \A q \in Places(asked) : Before(q, p) => ~OrtcTurn(At(asked, q))
    IN  call = "open" /\ Usable(asked) /\ ~Shadowed => Usable(used)

(* Through both filters, refusals and repeated constructions, one TURN       *)
(* server at most, and the one that can be used, gets to the gatherers.      *)
TurnKept == AtMostOneTurn /\ TurnSurvives
=============================================================================
