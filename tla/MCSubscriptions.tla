-------------------------- MODULE MCSubscriptions ---------------------------
(***************************************************************************)
(* Subscriptions with two sources that answer in every format.  Each       *)
(* answer is a body together with the outbounds it offers, written down    *)
(* as the sing-box options they stand for and not computed from the body:  *)
(* the reference Parse is compared with.                                   *)
(***************************************************************************)
EXTENDS Subscriptions

\* The outbounds the documents offer.
Proxy == [type |-> "http", server |-> "1.2.3.4", server_port |-> 65535,
          username |-> "u", password |-> "p"]
Reality == [type |-> "vless", server |-> "edge", server_port |-> 1, uuid |-> "id",
            tls |-> [enabled |-> TRUE, server_name |-> "front", utls |-> Chrome,
                     reality |-> [enabled |-> TRUE, public_key |-> "k",
                                  short_id |-> "01"]],
            transport |-> [type |-> "ws", path |-> "/s", headers |-> [Host |-> "front"]]]
AnyTLS == [type |-> "anytls", server |-> "any", server_port |-> 443, password |-> "p",
           tls |-> [enabled |-> TRUE, insecure |-> TRUE],
           idle_session_timeout |-> <<30, "s">>, min_idle_session |-> 0]

\* A Reality outbound without short id and fingerprint, and a TLS proxy without
\* server name: what the formats make of them differs, and so do the nodes.  A
\* URI gets a short id and a server name (parse.go:520, 547), a Clash node does
\* not (377-378); only sing-box JSON gets a fingerprint (285), which makes
\* JSONReality below the node Reality.
Without(map, keys) == [k \in DOMAIN map \ keys |-> map[k]]
Plain == [Reality EXCEPT !.tls = [enabled |-> TRUE, server_name |-> "front",
                                  reality |-> [enabled |-> TRUE, public_key |-> "k"]]]
PlainInURI == [Plain EXCEPT !.tls.reality = [short_id |-> ""] @@ Plain.tls.reality]
TLSProxy == [type |-> "http", server |-> "proxy", server_port |-> 443,
             tls |-> [enabled |-> TRUE]]
TLSProxyInURI == [TLSProxy EXCEPT !.tls = [enabled |-> TRUE, server_name |-> "proxy"]]

\* The same outbounds as each format writes them.
Named(options, name) == [tag |-> name] @@ options
JSONReality ==
    [Named(Reality, "r") EXCEPT !.tls = Without(Reality.tls, {"utls"})]
JSONProxy == [port |-> 65535] @@ Without(Named(Proxy, "p"), {"server_port"})
ClashProxy == [type |-> "http", name |-> "a", server |-> "1.2.3.4", port |-> 65535,
               username |-> "u", password |-> "p", tls |-> FALSE]
ClashReality ==
    [type |-> "vless", name |-> "b", server |-> "edge", port |-> 1, uuid |-> "id",
     network |-> "websocket", servername |-> "front"]
    @@ "client-fingerprint" :> "chrome"
    @@ "reality-opts" :> ("public-key" :> "k" @@ "short-id" :> "01")
    @@ "ws-opts" :> [path |-> "/s", headers |-> [Host |-> "front"]]
ClashPlain == [Without(ClashReality, {"client-fingerprint"}) EXCEPT
                  !["reality-opts"] = "public-key" :> "k"]
ClashTLSProxy == [type |-> "http", name |-> "d", server |-> "proxy", port |-> 443,
                  tls |-> TRUE]
ClashAnyTLS ==
    [type |-> "anytls", name |-> "c", server |-> "any", port |-> 443, password |-> "p"]
    @@ "skip-cert-verify" :> TRUE
    @@ "idle-session-timeout" :> 30
    @@ "min-idle-session" :> 0
URI(scheme, user, host, port, query) ==
    [kind |-> "uri", scheme |-> scheme, user |-> user, host |-> host, port |-> port,
     fragment |-> "name", query |-> query]
URIProxy(port) == URI("http", [username |-> "u", password |-> "p"], "1.2.3.4", port, NoOptions)
URIReality(pbk) ==
    URI("vless", [username |-> "id"], "edge", 1,
        [security |-> "reality", type |-> "ws", path |-> "/s", host |-> "front",
         sni |-> "front", fp |-> "chrome", pbk |-> pbk, sid |-> "01"])
URIPlain == [URIReality("k") EXCEPT !.query = Without(@, {"fp", "sid"})]
URITLSProxy == URI("https", NoOptions, "proxy", 443, NoOptions)
Record(port) == [kind |-> "record", server |-> "1.2.3.4", port |-> port,
                 username |-> "u", password |-> "p"]
Noise == [kind |-> "other"]
Of(type) == [type |-> type, name |-> "x", tag |-> "x", server |-> "s", port |-> 1,
             uuid |-> "id"]

Doc(syntax, root, entries) ==
    [syntax |-> syntax, root |-> root, complex |-> FALSE, entries |-> entries]
JSON(entries) == Doc("json", "outbounds", entries)
Clash(entries) == Doc("yaml", "proxies", entries)
Text(entries) == Doc("text", "other", entries)

Answer(body, offers) == [body |-> body, offers |-> offers]
MCAnswers ==
    \* taken, with what is skipped
    [json |-> Answer(JSON(<<Of("direct"), JSONProxy, NoOptions, JSONReality,
                            Named(AnyTLS, "z")>>), {Proxy, Reality, AnyTLS}),
     array |-> Answer(Doc("json", "array", <<Named(Proxy, "q")>>), {Proxy}),
     clash |-> Answer(Clash(<<ClashProxy, [ClashAnyTLS EXCEPT !.port = 65536], ClashReality,
                              ClashAnyTLS, Of("selector")>>), {Proxy, Reality, AnyTLS}),
     clashPlain |-> Answer(Clash(<<[ClashReality EXCEPT !.uuid = ""], ClashPlain,
                                   ClashTLSProxy>>), {Plain, TLSProxy}),
     uris |-> Answer(Text(<<Noise, URIReality("k"), URIProxy(0), URIProxy(65535), URIPlain,
                            URITLSProxy>>), {Proxy, Reality, PlainInURI, TLSProxyInURI}),
     base64 |-> Answer(Doc("base64", "other", <<URIProxy(65535), URIProxy(65535), Noise>>),
                       {Proxy}),
     webshare |-> Answer(Text(<<Record(65535), Record(65535)>>), {Proxy}),
     \* not to be taken
     empty |-> Answer(Text(<<>>), {}),
     page |-> Answer(Text(<<Noise, Record(1)>>), {}),
     scalar |-> Answer(Doc("json", "other", <<>>), {}),
     noNodes |-> Answer(JSON(<<Of("direct")>>), {}),
     clashJSON |-> Answer(Doc("json", "proxies", <<ClashProxy>>), {}),
     complex |-> Answer([Clash(<<ClashProxy>>) EXCEPT !.complex = TRUE], {}),
     noProxies |-> Answer(Doc("yaml", "other", <<>>), {}),
     foreign |-> Answer(JSON(<<JSONReality, Of("wireguard")>>), {}),
     clashForeign |-> Answer(Clash(<<ClashProxy, Of("trojan")>>), {}),
     clashQuic |-> Answer(Clash(<<ClashProxy, [ClashReality EXCEPT !.network = "quic"]>>), {}),
     clashNoKey |-> Answer(Clash(<<ClashProxy,
                      [ClashReality EXCEPT !["reality-opts"] = NoOptions]>>), {}),
     clashSession |-> Answer(Clash(<<ClashProxy,
                      [ClashAnyTLS EXCEPT !["min-idle-session"] = -1]>>), {}),
     uriForeign |-> Answer(Text(<<URIProxy(65535),
                      URI("trojan", NoOptions, "h", 1, NoOptions)>>), {}),
     uriNoKey |-> Answer(Text(<<URIProxy(65535), URIReality("")>>), {}),
     badPort |-> Answer(Text(<<Record(65535), Record(65536)>>), {}),
     mixed |-> Answer(Text(<<Record(65535), URIProxy(65535)>>), {}),
     base64Records |-> Answer(Doc("base64", "other", <<Record(65535)>>), {}),
     tooMany |-> Answer(Text([i \in 1 .. MaxNodesPerSource + 1 |-> Record(65535)]), {})]

Symmetry == Permutations(Sources)
=============================================================================
