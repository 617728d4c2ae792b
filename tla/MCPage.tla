------------------------------- MODULE MCPage -------------------------------
(* TLC's model of what the pages do around a session: the refreshing of the   *)
(* open view, and the way of an address from the page to the request. They    *)
(* share nothing; side says which of them a behaviour is about.               *)
EXTENDS AsyncRefresh

CONSTANTS HostNames, Numbers, Ports, VHosts, Tokens, Padded, Paths, MaxKeys

(* A port is what is written behind the ':', if anything is, and no value is  *)
(* spelled like the one a key without '=' has.                                *)
ASSUME PortsAssumption == {"", "undefined"} \cap Ports = {}

VARIABLES side, page, sdk, query, url, parsed, api

U == INSTANCE Url WITH Names <- HostNames

refreshing == <<current, hasPfn, enabled, armed, loads, popover, restarts, popovers>>
address == <<page, sdk, query, url, parsed, api>>

IdleAddress ==
  /\ page = [protocol |-> "http", hostname |-> CHOOSE h \in HostNames : TRUE, https |-> FALSE]
  /\ sdk = "player" /\ query = <<>> /\ url = <<>> /\ parsed = <<>> /\ api = <<>>

PageInit ==
  /\ Init
  /\ \/ side = "refresh" /\ IdleAddress
     \/ side = "url" /\ U!Init

PageNext ==
  \/ side = "refresh" /\ Next /\ UNCHANGED <<side, address>>
  \/ side = "url" /\ U!Next /\ UNCHANGED <<side, refreshing>>

(* Nothing is armed or loading on the other side: the fairness is of this one. *)
PageSpec == PageInit /\ [][PageNext]_<<side, refreshing, address>> /\ Fairness

-----------------------------------------------------------------------------
(* From the address of the page, or the one typed, to the request of the API, *)
(* through two parsers and a builder: server, stream, virtual host, port and  *)
(* parameters arrive.                                                         *)
AddressArrives == U!AddressArrives
=============================================================================
