------------------------------- MODULE Parse --------------------------------
(***************************************************************************)
(* Subscription parsing (internal/subscription/parse.go): which documents  *)
(* are taken, which nodes they hold and which identity a node gets.        *)
(*                                                                         *)
(* Abstractions:                                                           *)
(*  - a map[string]any is a function from the keys it has.  An entry that  *)
(*    is no map is one without keys: the code skips both.  A number that   *)
(*    is missing or does not parse is one out of range, and reality-opts   *)
(*    that are no map are empty: the code takes the same branch;           *)
(*  - type, scheme, security and transport names come trimmed and in lower *)
(*    case, and the synonyms of a key (sni, servername, peer) under one;   *)
(*  - a body is [syntax, root, complex, entries].  syntax is what its      *)
(*    bytes decode as: "json", "yaml" (a YAML map that is not JSON),       *)
(*    "base64" or "text".  complex: validateStructure fails.  root is what *)
(*    the decoded value holds: an "outbounds" or "proxies" list, an        *)
(*    "array", or "other".  entries is that list, or the non-blank lines;  *)
(*  - a line is a "uri", a "record" (four fields, the first an IPv4        *)
(*    address), or "other".  A record's credential with white space in it  *)
(*    is an empty one: the code takes the same branch;                     *)
(*  - a digest stands for the map it is taken of (no two maps collide).    *)
(***************************************************************************)
EXTENDS Integers, Sequences, TLC

CONSTANT MaxNodesPerSource

ASSUME ParseAssumption == MaxNodesPerSource \in Nat

ignoredOutboundTypes == {"block", "direct", "dns", "selector", "urltest"}
supportedRuntimeTypes ==
    {"anytls", "http", "hysteria2", "trojan", "vless", "shadowsocks"}
supportedNormalizedTypes == {"http", "vless", "anytls"}
Ports == 1 .. 65535

\* Reading and building option maps.
NoOptions == [key \in {} |-> ""]
Has(map, key) == key \in DOMAIN map
stringValue(map, key) == IF Has(map, key) THEN map[key] ELSE ""
intValue(map, key) == IF Has(map, key) THEN map[key] ELSE -1
boolValue(map, key) == Has(map, key) /\ map[key]
Option(key, value, present) == IF present THEN key :> value ELSE NoOptions
\* One option, under the key `as', unless the map has no value for `key'.
Copied(map, key, as) == Option(as, stringValue(map, key), stringValue(map, key) # "")
copyString(map, key) == Copied(map, key, key)

Some(entries, Test(_)) == \E i \in DOMAIN entries : Test(entries[i])
\* The entries that pass, each converted.
Collect(entries, Keep(_), Convert(_)) ==
    LET kept == SelectSeq(entries, Keep)
    IN  [i \in DOMAIN kept |-> Convert(kept[i])]

Rejected == [ok |-> FALSE, nodes |-> <<>>]
Accepted(nodes) == [ok |-> TRUE, nodes |-> nodes]

-----------------------------------------------------------------------------
(* Identity *)

\* The map the id is a digest of: names do not count, and port is server_port.
stableMapIDWithTag(options) == options
stableMapID(options) ==
    LET port == IF Has(options, "port") THEN {"server_port"} ELSE {}
    IN  [key \in port \cup (DOMAIN options \ {"tag", "name", "port"}) |->
            options[IF key \in port THEN "port" ELSE key]]

enforceNodeLimit(result) ==
    IF Len(result.nodes) > MaxNodesPerSource THEN Rejected ELSE result

unsupportedType(entries, allowed) ==
    Some(entries, LAMBDA item :
        stringValue(item, "type") \notin {""} \cup ignoredOutboundTypes \cup allowed)

-----------------------------------------------------------------------------
(* sing-box JSON *)

Chrome == [enabled |-> TRUE, fingerprint |-> "chrome"]

\* Reality needs a uTLS fingerprint: one is added when none is given.
normalizeSingBoxVLESS(item) ==
    IF /\ item.type = "vless" /\ Has(item, "tls")
       /\ Has(item.tls, "reality") /\ boolValue(item.tls.reality, "enabled")
       /\ ~Has(item.tls, "utls")
    THEN [item EXCEPT !.tls = [utls |-> Chrome] @@ item.tls]
    ELSE item

nodesFromMaps(entries) ==
    Collect(entries,
            LAMBDA item : stringValue(item, "type") \in supportedRuntimeTypes,
            normalizeSingBoxVLESS)

parseJSON(body) ==
    IF \/ body.complex
       \/ body.root \notin {"outbounds", "array"}
       \/ unsupportedType(body.entries, supportedRuntimeTypes)
    THEN Rejected
    ELSE Accepted(nodesFromMaps(body.entries))

-----------------------------------------------------------------------------
(* Clash YAML *)

SessionOptions == {"idle-session-check-interval", "idle-session-timeout",
                   "min-idle-session"}
Securities == {"", "none", "tls", "reality"}
Networks == {"", "tcp", "ws", "websocket", "grpc", "http", "h2"}

\* A node that fails this condemns its whole document.
validateClashNode(item) ==
    /\ stringValue(item, "type") = "anytls" =>
         /\ stringValue(item, "password") # ""
         /\ \A key \in SessionOptions : Has(item, key) => item[key] >= 0
    /\ stringValue(item, "type") = "vless" =>
         /\ stringValue(item, "security") \in Securities
         /\ stringValue(item, "network") \in Networks
         /\ stringValue(item, "security") = "reality" => Has(item, "reality-opts")
         /\ Has(item, "reality-opts") =>
               stringValue(item["reality-opts"], "public-key") # ""

\* normalizeClashNode's second result: a node that fails this is skipped.
UsableClashNode(item) ==
    /\ stringValue(item, "type") \in supportedNormalizedTypes
    /\ stringValue(item, "server") # ""
    /\ intValue(item, "port") \in Ports
    /\ item.type = "vless" => stringValue(item, "uuid") # ""

clashReality(item) ==
    IF ~Has(item, "reality-opts") THEN NoOptions
    ELSE "reality" :> ([enabled |-> TRUE]
                         @@ Copied(item["reality-opts"], "public-key", "public_key")
                         @@ Copied(item["reality-opts"], "short-id", "short_id"))

uTLS(map, key) ==
    Option("utls", [enabled |-> TRUE, fingerprint |-> stringValue(map, key)],
           stringValue(map, key) # "")

clashTLS(item) ==
    "tls" :> ([enabled |-> TRUE]
                @@ Copied(item, "servername", "server_name")
                @@ Option("insecure", TRUE, boolValue(item, "skip-cert-verify"))
                @@ uTLS(item, "client-fingerprint")
                @@ clashReality(item))

Transport(options) == "transport" :> options

clashTransport(item) ==
    LET network == stringValue(item, "network")
        opts(key) == IF Has(item, key) THEN item[key] ELSE NoOptions
        ws == opts("ws-opts")
    IN  CASE network \in {"ws", "websocket"} ->
               Transport([type |-> "ws"]
                           @@ copyString(ws, "path")
                           @@ [key \in DOMAIN ws \cap {"headers"} |-> ws[key]])
          [] network = "grpc" ->
               Transport([type |-> "grpc"]
                           @@ Copied(opts("grpc-opts"), "service-name", "service_name"))
          [] network \in {"http", "h2"} -> Transport([type |-> "http"])
          [] OTHER -> NoOptions

\* Intervals become durations in seconds.
clashSession(item, key, as) ==
    Option(as, IF key = "min-idle-session" THEN intValue(item, key)
                                            ELSE <<intValue(item, key), "s">>,
           Has(item, key))

normalizeClashNode(item) ==
    [type |-> item.type, tag |-> stringValue(item, "name"),
     server |-> item.server, server_port |-> item.port]
    @@ CASE item.type = "anytls" ->
              copyString(item, "password") @@ clashTLS(item)
              @@ clashSession(item, "idle-session-check-interval",
                              "idle_session_check_interval")
              @@ clashSession(item, "idle-session-timeout", "idle_session_timeout")
              @@ clashSession(item, "min-idle-session", "min_idle_session")
         [] item.type = "http" ->
              copyString(item, "username") @@ copyString(item, "password")
              @@ IF boolValue(item, "tls") THEN clashTLS(item) ELSE NoOptions
         [] item.type = "vless" ->
              copyString(item, "uuid") @@ copyString(item, "flow")
              @@ clashTransport(item)
              @@ IF \/ boolValue(item, "tls")
                    \/ stringValue(item, "security") \in {"tls", "reality"}
                    \/ Has(item, "reality-opts")
                 THEN clashTLS(item) ELSE NoOptions

parseClash(body) ==
    IF \/ body.complex
       \/ unsupportedType(body.entries, supportedNormalizedTypes)
       \/ Some(body.entries, LAMBDA item : ~validateClashNode(item))
    THEN Rejected
    ELSE Accepted(Collect(body.entries, UsableClashNode, normalizeClashNode))

-----------------------------------------------------------------------------
(* Lines: Webshare records, and proxy URIs in the clear or in base64 *)

lines(body) == IF body.syntax \in {"text", "base64"} THEN body.entries ELSE <<>>

IsWebshare(body) ==
    body.syntax = "text" /\ Len(body.entries) > 0 /\ body.entries[1].kind = "record"

\* One bad record condemns the document.
parseWebshare(records) ==
    IF Some(records, LAMBDA line : \/ line.kind # "record"
                                  \/ line.username = "" \/ line.password = ""
                                  \/ line.port \notin Ports)
    THEN Rejected
    ELSE Accepted(Collect(records, LAMBDA line : TRUE, LAMBDA line :
            [type |-> "http", server |-> line.server, server_port |-> line.port,
             username |-> line.username, password |-> line.password]))

\* The decoded text is taken only if it holds a URI; else the text stays one
\* line that is none.
decodeBase64(body) ==
    IF body.syntax = "base64" /\ ~Some(body.entries, LAMBDA line : line.kind = "uri")
    THEN <<>> ELSE lines(body)

validateVLESSURI(uri) ==
    /\ stringValue(uri.query, "security") \in Securities
    /\ stringValue(uri.query, "type") \in Networks
    /\ stringValue(uri.query, "security") = "reality" =>
          stringValue(uri.query, "pbk") # ""

UsableURI(uri) ==
    /\ uri.port \in Ports
    /\ \/ uri.scheme \in {"http", "https"}
       \/ uri.scheme = "vless" /\ stringValue(uri.user, "username") # ""

uriTransport(query) ==
    LET type == stringValue(query, "type")
    IN  CASE type \in {"ws", "websocket"} ->
               Transport([type |-> "ws"]
                           @@ copyString(query, "path")
                           @@ Option("headers", [Host |-> stringValue(query, "host")],
                                     stringValue(query, "host") # ""))
          [] type = "grpc" ->
               Transport([type |-> "grpc"]
                           @@ Copied(query, "serviceName", "service_name"))
          [] type \in {"http", "h2"} -> Transport([type |-> "http"])
          [] OTHER -> NoOptions

uriTLS(query) ==
    "tls" :> ([enabled |-> TRUE]
                @@ Copied(query, "sni", "server_name")
                @@ Option("insecure", TRUE, boolValue(query, "allowInsecure"))
                @@ uTLS(query, "fp")
                @@ Option("reality",
                          [enabled |-> TRUE, public_key |-> stringValue(query, "pbk"),
                           short_id |-> stringValue(query, "sid")],
                          stringValue(query, "security") = "reality"))

normalizeURINode(uri) ==
    [tag |-> uri.fragment, server |-> uri.host, server_port |-> uri.port]
    @@ IF uri.scheme = "vless"
       THEN [type |-> "vless", uuid |-> uri.user.username]
              @@ copyString(uri.query, "flow")
              @@ uriTransport(uri.query)
              @@ IF stringValue(uri.query, "security") \in {"tls", "reality"}
                 THEN uriTLS(uri.query) ELSE NoOptions
       ELSE [type |-> "http"] @@ uri.user
              @@ Option("tls", [enabled |-> TRUE, server_name |-> uri.host],
                        uri.scheme = "https")

\* Lines that are no URI and nodes without what they need are skipped; a
\* foreign scheme or a VLESS URI that cannot be honoured condemns the list.
parseURIs(text) ==
    LET uris == SelectSeq(text, LAMBDA line : line.kind = "uri")
        nodes == Collect(uris, UsableURI, normalizeURINode)
    IN  IF \/ Some(uris, LAMBDA uri : uri.scheme \notin {"vless", "http", "https"})
           \/ Some(uris, LAMBDA uri : uri.scheme = "vless" /\ ~validateVLESSURI(uri))
           \/ nodes = <<>>
        THEN Rejected
        ELSE Accepted(nodes)

-----------------------------------------------------------------------------
\* The first format that recognizes the body decides.
Parse(body) ==
    enforceNodeLimit(
        CASE body.syntax = "json" -> parseJSON(body)
          [] body.syntax = "yaml" /\ (body.complex \/ body.root = "proxies") ->
               parseClash(body)
          [] IsWebshare(body) -> parseWebshare(body.entries)
          [] OTHER -> parseURIs(decodeBase64(body)))

\* The ids of the nodes of a body, {} when it is rejected or holds none.
ParsedIDs(body) ==
    LET nodes == Parse(body).nodes IN {stableMapID(nodes[i]) : i \in DOMAIN nodes}
=============================================================================
