-------------------------------- MODULE Url --------------------------------
(* From the address of a page to the request its SDK sends: the page builds  *)
(* a webrtc:// address from its own query (srs.page.js, winlin.utility.js),  *)
(* or the user types one; the SDK takes it apart and makes the address of    *)
(* the HTTP API, with all the user's parameters (srs.sdk.js, srs.sdk.p2p.js, *)
(* ipc.mqtt.sdk.js, ipc_hd.mqtt.sdk.js, each with a copy of its own).        *)
(*                                                                           *)
(* An address is a record; a query is a sequence of keys and values, a value *)
(* the parts of its text between '=' signs, <<>> for a key without '='.      *)
EXTENDS Naturals, Sequences, FiniteSets, SequencesExt

CONSTANTS
  Names, Numbers,    \* host names, host addresses in digits
  Ports,             \* ports a user writes, in digits
  VHosts,            \* virtual hosts
  Tokens,            \* plain parameter values
  Padded,            \* parameter values with '=' signs at the end, or none
  Paths,             \* values of the play parameter, "" for none
  MaxKeys            \* bound: parameters of a typed address

VARIABLES
  page,      \* window.location and the checkbox for https
  sdk,       \* which SDK the page uses
  query,     \* the query of the page, <<>> when the user types the address
  url,       \* the address to play
  parsed,    \* what parse returns
  api        \* what prepareUrl returns

vars == <<page, sdk, query, url, parsed, api>>

Hosts == Names \cup Numbers
None == <<>>
Sdks == {"publisher", "player", "p2p", "ipc", "hd", "zlm"}
Values == {<<t>> : t \in Tokens} \cup {<<t, "">> : t \in Padded}

-----------------------------------------------------------------------------
(* fill_query: the fields of obj that are named by a key take its value, the *)
(* last of them if it is repeated; what follows a second '=' is dropped, and *)
(* a key without '=' has the value undefined. (Not modelled: a key named     *)
(* user_query, which would replace the record of all the keys.)              *)

Text(value) == IF value = <<>> THEN "undefined" ELSE Head(value)

FillQuery_Bug(search) ==
  LET FirstAt(k) == CHOOSE i \in DOMAIN search :
                      search[i].key = k /\ \A j \in 1 .. i - 1 : search[j].key # k
  IN [k \in {search[i].key : i \in DOMAIN search} |-> Text(search[FirstAt(k)].value)]

FillQuery(search) ==
  LET LastAt(k) == CHOOSE i \in DOMAIN search :
                     search[i].key = k /\ \A j \in i + 1 .. Len(search) : search[j].key # k
  IN [k \in {search[i].key : i \in DOMAIN search} |-> Text(search[LastAt(k)].value)]

Falsy == {"", "undefined"}

(* A field of the object, set before or by a key; and obj.key || default.    *)
Has(f, key) == key \in DOMAIN f
Overwritten(f, key, value) == IF Has(f, key) THEN f[key] ELSE value
Field(f, key, default) == IF Has(f, key) /\ f[key] \notin Falsy THEN f[key] ELSE default

(* What the <a> element makes of the address: a port that is the default of  *)
(* the scheme it was given is dropped (browser).                             *)
AnchorPort(u, scheme) ==
  IF u.port = CASE scheme = "http" -> "80" [] scheme = "https" -> "443" [] OTHER -> "" THEN ""
  ELSE u.port

DefaultPort(schema) ==
  CASE schema = "http" -> "80" [] schema = "https" -> "443" [] schema = "rtmp" -> "1935" [] OTHER -> ""

ApiPort_Bug(schema, user, port, p) ==
  IF port \notin Falsy \/ schema \notin {"webrtc", "rtc"} THEN port
  ELSE IF Field(user, "schema", "") = "https" THEN "443" ELSE "1985"

(* "For webrtc API, we use 443 if page is https, or schema specified it."    *)
ApiPort(schema, user, port, p) ==
  IF port \notin Falsy \/ schema \notin {"webrtc", "rtc"} THEN port
  ELSE IF Field(user, "schema", "") = "https" \/ p.protocol = "https" THEN "443" ELSE "1985"

(* parse, where rtcScheme is put for webrtc:// to have the browser read it.  *)
(* The keys of the query overwrite the fields of the same name, before the   *)
(* port of the API is chosen.                                                *)
ParseUrl(u, rtcScheme, p) ==
  LET user == FillQuery(u.search)
      scheme == CASE u.schema = "webrtc" -> rtcScheme [] u.schema \in {"rtc", "rtmp"} -> "http"
                  [] OTHER -> u.schema
      own == IF u.appVhost # "" THEN u.appVhost ELSE u.host
      vhost == IF own = u.host /\ u.host \in Numbers THEN "__defaultVhost__" ELSE own
      written == IF AnchorPort(u, scheme) # "" THEN AnchorPort(u, scheme) ELSE DefaultPort(u.schema)
  IN [url |-> Overwritten(user, "url", u), schema |-> Overwritten(user, "schema", u.schema),
      port |-> ApiPort(u.schema, user, Overwritten(user, "port", written), p),
      server |-> Overwritten(user, "server", u.host),
      app |-> Overwritten(user, "app", u.app), stream |-> Overwritten(user, "stream", u.stream),
      vhost |-> Field(user, "domain", Overwritten(user, "vhost", vhost)),
      user_query |-> user]

(* yang_url_parse of the page's own SDK.                                     *)
YangUrlParse(u, p) == ParseUrl(u, "https", p)

(* srs_parse_rtmp_url.                                                       *)
ParseRtmpUrl(u, p) == ParseUrl(u, "http", p)

(* The address of the API: schema, server, port, path and parameters.  The   *)
(* parameters are added with '&', then the first '&' after the path is made  *)
(* a '?'.                                                                    *)
ApiUrl_Bug(o, schema, defaultPath) ==
  LET keys == DOMAIN o.user_query \ {"api", "play"}
      path == Field(o.user_query, "play", defaultPath)
      port == IF o.port \notin Falsy THEN o.port ELSE IF schema = "https" THEN "443" ELSE "1985"
  IN [schema |-> schema, server |-> o.server, port |-> port, path |-> path,
      params |-> {<<k, <<o.user_query[k]>>>> : k \in keys},
      separator |-> IF keys = {} THEN "" ELSE IF path = defaultPath THEN "?" ELSE "&"]

ApiUrl(o, schema, defaultPath) ==
  LET keys == DOMAIN o.user_query \ {"api", "play"}
      path == Field(o.user_query, "play", defaultPath)
      port == IF o.port \notin Falsy THEN o.port ELSE IF schema = "https" THEN "443" ELSE "1985"
  IN [schema |-> schema, server |-> o.server, port |-> port, path |-> path,
      params |-> {<<k, <<o.user_query[k]>>>> : k \in keys},
      separator |-> IF keys = {} THEN "" ELSE "?"]

UserSchema(o, p) == Field(o.user_query, "schema", p.protocol)
CheckedSchema(p) == IF p.https THEN "https" ELSE "http"

(* parse and prepareUrl of each SDK.                                         *)
PublisherUrl(u, p) == 
  LET o == ParseUrl(u, "http", p) IN ApiUrl(o, UserSchema(o, p), "/rtc/v1/publish/")
PlayerUrl(u, p) ==
  LET o == ParseUrl(u, "http", p) IN ApiUrl(o, UserSchema(o, p), "/rtc/v1/play/")
P2pUrl(u, p) ==
  LET o == ParseUrl(u, "http", p) IN ApiUrl(o, CheckedSchema(p), "/rtc/v1/play/")
IpcUrl(u, p) ==
  LET o == YangUrlParse(u, p) IN ApiUrl(o, CheckedSchema(p), "/rtc/v1/play/")
HdUrl(u, p) ==
  LET o == YangUrlParse(u, p) IN ApiUrl(o, CheckedSchema(p), "/rtc/v1/play/")

(* playZlm: its own path and parameters, always http, and port 80 for 1985.  *)
ZlmUrl(u, p) ==
  LET o == YangUrlParse(u, p)
  IN [schema |-> "http", server |-> o.server, port |-> IF o.port = "1985" THEN "80" ELSE o.port,
      path |-> "/index/api/webrtc", separator |-> "?",
      params |-> {<<"app", <<o.app>>>>, <<"stream", <<o.stream>>>>, <<"type", <<"play">>>>}]

PrepareUrl(s, u, p) ==
  CASE s = "publisher" -> PublisherUrl(u, p) [] s = "player" -> PlayerUrl(u, p)
    [] s = "p2p" -> P2pUrl(u, p) [] s = "ipc" -> IpcUrl(u, p) [] s = "hd" -> HdUrl(u, p)
    [] s = "zlm" -> ZlmUrl(u, p)

Parse(s, u, p) == IF s \in {"ipc", "hd", "zlm"} THEN YangUrlParse(u, p) ELSE ParseRtmpUrl(u, p)

-----------------------------------------------------------------------------
(* The page.                                                                 *)

(* Parameters that are not passed on as they are.                            *)
Own == {"app", "autostart", "dir", "filename", "host", "hostname", "http_port", "pathname",
        "port", "server", "stream", "buffer", "schema", "vhost", "api"}

UserExtraParams(q) ==
  SetToSeq({[key |-> k, value |-> <<q[k]>>] : k \in {x \in DOMAIN q \ Own : q[x] \notin Falsy}})

(* parse_query_string, of the keys of the page's own query.                  *)
ParseQueryString(search) ==
  LET q == FillQuery(search)
  IN IF Field(q, "domain", "") # ""
     THEN [k \in DOMAIN q \cup {"vhost"} |-> IF k = "vhost" THEN q["domain"] ELSE q[k]] ELSE q

IsDefaultPort_Bug(schema, port) ==
  <<schema, port>> \in {<<"http", "80">>, <<"http", "8080">>, <<"https", "443">>, <<"webrtc", "1985">>, <<"rtmp", "1935">>}

IsDefaultPort(schema, port) ==
  <<schema, port>> \in {<<"http", "80">>, <<"https", "443">>, <<"webrtc", "1985">>, <<"rtmp", "1935">>}

BuildDefaultFlvUrl(q, p) ==
  LET schema == Field(q, "schema", "http")
      server == Field(q, "server", p.hostname)
      port == Field(q, "port", IF schema = "http" THEN "8080" ELSE "1935")
      vhost == Field(q, "vhost", p.hostname)
      vhosts == IF vhost \notin {server, "__defaultVhost__"}
                THEN <<[key |-> "vhost", value |-> <<vhost>>]>> ELSE <<>>
  IN [schema |-> schema, host |-> server, port |-> IF IsDefaultPort(schema, port) THEN "" ELSE port,
      app |-> Field(q, "app", "live"), appVhost |-> "",
      stream |-> Field(q, "stream", "livestream.flv"), search |-> vhosts \o UserExtraParams(q)]

BuildDefaultRtcUrl_Bug(q, p) ==
  LET server == Field(q, "server", p.hostname)
      vhost == Field(q, "vhost", p.hostname)
      vhosts == IF vhost # p.hostname /\ vhost # "__defaultVhost__"
                THEN <<[key |-> "vhost", value |-> <<vhost>>]>> ELSE <<>>
  IN [schema |-> "webrtc", host |-> server, port |-> Field(q, "api", ""),
      app |-> Field(q, "app", "live"), appVhost |-> "", stream |-> Field(q, "stream", "livestream"),
      search |-> vhosts \o UserExtraParams(q)]

BuildDefaultRtcUrl(q, p) ==
  LET server == Field(q, "server", p.hostname)
      vhost == Field(q, "vhost", p.hostname)
      vhosts == IF vhost \notin {server, "__defaultVhost__"}
                THEN <<[key |-> "vhost", value |-> <<vhost>>]>> ELSE <<>>
      schemas == IF Field(q, "schema", p.protocol) # p.protocol
                 THEN <<[key |-> "schema", value |-> <<q["schema"]>>]>> ELSE <<>>
  IN [schema |-> "webrtc", host |-> server, port |-> Field(q, "api", ""),
      app |-> Field(q, "app", "live"), appVhost |-> "", stream |-> Field(q, "stream", "livestream"),
      search |-> vhosts \o schemas \o UserExtraParams(q)]

-----------------------------------------------------------------------------

Init ==
  /\ page \in [protocol : {"http", "https"}, hostname : Hosts, https : BOOLEAN]
  /\ sdk \in Sdks
  /\ query = None /\ url = None /\ parsed = None /\ api = None

(* One key of each kind, or none.                                            *)
Maybe(key, values) == {<<>>} \cup {<<[key |-> key, value |-> <<v>>]>> : v \in values}
PageQueries ==
  {a \o b \o c \o d \o e \o f :
     a \in Maybe("server", Hosts), b \in Maybe("vhost", VHosts \cup {"__defaultVhost__"}),
     c \in Maybe("api", Ports), d \in Maybe("schema", {"http", "https"}),
     e \in Maybe("token", Tokens), f \in Maybe("domain", VHosts)}

(* The page fills in the address when it is loaded (srs_init_rtc).           *)
LoadPage ==
  /\ url = None
  /\ \E search \in PageQueries :
       /\ query' = <<search>>
       /\ url' = <<BuildDefaultRtcUrl(ParseQueryString(search), page)>>
  /\ UNCHANGED <<page, sdk, parsed, api>>

FlvQueries ==
  {a \o b \o c \o d :
     a \in Maybe("server", Hosts), b \in Maybe("vhost", VHosts),
     c \in Maybe("port", Ports \cup {"80", "443", "1935", "8080"}), d \in Maybe("schema", {"http", "https", "rtmp"})}

(* srs_init_flv; the player takes the address apart (srs_parse_rtmp_url).    *)
LoadFlvPage ==
  /\ url = None
  /\ \E search \in FlvQueries :
       /\ query' = <<search>>
       /\ url' = <<BuildDefaultFlvUrl(ParseQueryString(search), page)>>
  /\ parsed' = <<ParseRtmpUrl(url'[1], page)>>
  /\ UNCHANGED <<page, sdk, api>>

TypedQueries ==
  LET keys == [key : {"token", "vhost"}, value : Values \cup {<<>>}]
                \cup [key : {"schema"}, value : {<<"https">>}]
                \cup [key : {"play"}, value : {<<x>> : x \in Paths} \cup {<<>>}]
                \cup [key : {"port"}, value : {<<x>> : x \in Ports} \cup {<<>>}]
  IN UNION {[1 .. n -> keys] : n \in 0 .. MaxKeys}

TypeUrl ==
  /\ url = None
  /\ \E u \in [schema : {"webrtc"}, host : Hosts, port : Ports \cup {""}, app : {"live"},
               appVhost : VHosts \cup {""}, stream : {"livestream"}, search : TypedQueries] :
       url' = <<u>>
  /\ UNCHANGED <<page, sdk, query, parsed, api>>

(* play or publish: prepareUrl, which calls parse.                           *)
Play ==
  /\ url # None /\ parsed = None
  /\ parsed' = <<Parse(sdk, url[1], page)>>
  /\ api' = <<PrepareUrl(sdk, url[1], page)>>
  /\ UNCHANGED <<page, sdk, query, url>>

Next == LoadPage \/ LoadFlvPage \/ TypeUrl \/ Play

Spec == Init /\ [][Next]_vars

-----------------------------------------------------------------------------

Played == api # None
FromPage == Played /\ query # None
Typed == Played /\ query = None

SaidLast(s) == {i \in DOMAIN s : \A j \in i + 1 .. Len(s) : s[j].key # s[i].key}

(* What the page was asked to play is what the SDK understands after the     *)
(* address was built and taken apart again: server, stream and virtual host. *)
(* (The name __defaultVhost__ cannot be said as the vhost of an address: it  *)
(* stands for the server's own. As the domain it can.)                       *)
PageIntent ==
  FromPage =>
    LET q == ParseQueryString(query[1])
        o == parsed[1]
        server == Field(q, "server", page.hostname)
        vhost == Field(q, "vhost", page.hostname)
        said == vhost \notin {server, "__defaultVhost__"} \/ Field(q, "domain", "") # ""
    IN /\ o.server = server /\ o.app = "live" /\ o.stream = "livestream"
       /\ said => o.vhost = vhost
       /\ ~said => o.vhost = IF server \in Numbers THEN "__defaultVhost__" ELSE server

(* What is typed is what the SDK understands: server, application and stream *)
(* as typed, and the virtual host of the query, else that of the             *)
(* application, else the server's own. ZLM is told application and stream,   *)
(* SRS the address as it was typed (streamUrl).                              *)
TypedIntent ==
  Typed =>
    LET u == url[1]
        o == parsed[1]
        vhosts == {i \in SaidLast(u.search) : u.search[i].key = "vhost"}
    IN /\ o.server = u.host /\ o.app = u.app /\ o.stream = u.stream
       /\ o.url = u /\ api[1].server = u.host
       /\ \A i \in vhosts : o.vhost = Text(u.search[i].value)
       /\ vhosts = {} => o.vhost = IF u.appVhost \notin {"", u.host} THEN u.appVhost
                                  ELSE IF u.host \in Numbers THEN "__defaultVhost__" ELSE u.host
       /\ sdk = "zlm" => {<<"app", <<u.app>>>>, <<"stream", <<u.stream>>>>} \subseteq api[1].params

(* "or specifies the API port": the request goes to the port that was asked  *)
(* for, by the api of the page, in the address or by a key of it; and if     *)
(* none was, to 443 when page or parameters say https, to 1985 otherwise.    *)
(* Asking for the port the browser drops from an address (that of the scheme *)
(* put for webrtc) is asking for none, and ZLM has 80 for 1985.              *)
PortArrives ==
  Played =>
    LET q == IF FromPage THEN ParseQueryString(query[1]) ELSE FillQuery(url[1].search)
        dropped == IF sdk \in {"ipc", "hd", "zlm"} THEN "443" ELSE "80"
        written == IF FromPage THEN Field(q, "api", "") ELSE url[1].port
        kept == IF written = dropped THEN "" ELSE written
        asking == IF Typed /\ Has(q, "port") THEN q["port"] ELSE kept
        secure == page.protocol = "https" \/ Field(q, "schema", "") = "https"
        port == IF asking \notin Falsy THEN asking ELSE IF secure THEN "443" ELSE "1985"
    IN api[1].port = IF sdk = "zlm" /\ port = "1985" THEN "80" ELSE port

(* An HTTP or RTMP address the page builds is read back with the port that   *)
(* was asked for, or with 8080 for http and 1935 for the others if none was: *)
(* is_default_port and the parser agree about what may be left out. (Not for *)
(* rtmp on port 80, which the browser leaves out.)                           *)
FlvPortKept ==
  parsed # None /\ ~Played =>
    LET q == ParseQueryString(query[1])
        schema == Field(q, "schema", "http")
        asked == Field(q, "port", IF schema = "http" THEN "8080" ELSE "1935")
    IN <<schema, asked>> # <<"rtmp", "80">> => parsed[1].port = asked

(* "or any other information, will pass-by in the query": every parameter    *)
(* that was typed with a plain value reaches the API, the last value if it   *)
(* is repeated, and none is invented.                                        *)
ParametersPass ==
  Typed /\ sdk # "zlm" =>
    LET s == url[1].search
        last == {i \in SaidLast(s) : s[i].key # "play"}
    IN /\ \A i \in last : Len(s[i].value) = 1 => <<s[i].key, s[i].value>> \in api[1].params
       /\ Cardinality(api[1].params) = Cardinality(last)

(* The parameters of the request are set off by exactly one '?', whatever    *)
(* the path.                                                                 *)
WellFormedRequest == Played => (api[1].separator = "?" <=> api[1].params # {})

(* From the address of the page, or the one typed, to the request of the     *)
(* API, through two parsers and a builder: server, stream, virtual host,     *)
(* port and parameters arrive.                                               *)
AddressArrives ==
  /\ PageIntent /\ TypedIntent /\ PortArrives
  /\ FlvPortKept /\ ParametersPass /\ WellFormedRequest
=============================================================================
