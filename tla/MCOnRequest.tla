------------------------------ MODULE MCOnRequest ------------------------------
(* Instances of OnRequest: sets of configurations and requests.                  *)
EXTENDS OnRequest

Written(h) == [k \in {x \in DOMAIN h : h[x] # None} |-> h[k]]

Url(host, port) == [host |-> host, port |-> port]

\* A request to a host and path that no property looks at.
Ask(headers, ua, websocket) ==
    [headers |-> headers, ua |-> ua, websocket |-> websocket, path |-> <<<<>>>>,
     url |-> [name |-> <<"shop", "com">>, v6 |-> FALSE, port |-> None]]

Curl == [exact |-> None, marks |-> {}, tokens |-> {}]

Hop   == Url(<<"eu", "hops", "net">>, "3128")
Other == Url(<<"elsewhere", "org">>, "80")
HopPattern == Url(<<"*", "hops", "net">>, None)

Ids == [edgeWindows |-> [family |-> "edge", platform |-> "windows"],
        firefoxLinux |-> [family |-> "firefox", platform |-> "linux"]]

(* A UA of the catalogue, an Edge newer than the catalogue, and curl.            *)
UserAgents ==
    {[exact |-> Ids.firefoxLinux, marks |-> {"firefox"}, tokens |-> {"linux"}],
     [exact |-> None, marks |-> {"edge", "chrome"}, tokens |-> {"windows"}],
     Curl}

(* Edge on an iPhone, whose OS Edge has no profile for, and a bare Edge token.   *)
EdgeOddities ==
    {[exact |-> None, marks |-> {"edge"}, tokens |-> {"ios", "macos"}],
     [exact |-> None, marks |-> {"edge"}, tokens |-> {}]}

HeaderMaps(browser, os, match, profile, proxy, forcehttp) ==
    {Written([browser |-> b, os |-> o, match |-> m, profile |-> i, proxy |-> x, forcehttp |-> f]) :
        b \in browser, o \in os, m \in match, i \in profile, x \in proxy, f \in forcehttp}

One(v) == <<v>>

NoDefaults ==
    [defaults |-> <<>>, deny |-> {}, proxyHosts |-> {}, requireProxy |-> FALSE,
     users |-> {}, collectors |-> {"requests"}, routes |-> <<>>]

PolicyConfigs ==
    {[NoDefaults EXCEPT !.defaults = d, !.deny = deny, !.proxyHosts = hosts, !.requireProxy = required] :
        d \in HeaderMaps({None, One(<<"edge">>)}, {None, One(<<"ios">>)}, {None, One("true")},
                         {None, One(Ids.firefoxLinux)}, {None, One(Hop), One(Other)}, {None}),
        deny \in {{}, {"proxy"}}, hosts \in {{}, {HopPattern}}, required \in BOOLEAN}

PolicyRequests ==
    {Ask(h, ua, FALSE) :
        h \in HeaderMaps({None, One(<<"firefox">>), One(<<"edge", "random">>)}, {None, One(<<"ios">>)},
                         {None, One("true"), One("false")}, {None, One(Ids.edgeWindows)},
                         {None, One(Other), One(Hop)}, {None}),
        ua \in UserAgents}

(* Lists sent on several lines, blanks, refused values, repeated scalars, ids the *)
(* catalogue lacks, unknown names, websockets and HTTP/3 through a proxy.        *)
ShapeRequests ==
    {Ask(h, ua, ws) :
        h \in HeaderMaps({None, <<<<"chrome">>, <<"edge">>>>, One(<<Blank>>), One(<<"edge", Malformed>>)},
                         {None, One(<<"ios", "linux">>), One(<<"random">>)}, {None, One("true")},
                         {None, One(Stale), One(Malformed), <<Stale, Stale>>}, {None, One(Hop)}, {None, One("3")})
              \cup {[bogus |-> One("x")]},
        ua \in UserAgents \cup EdgeOddities, ws \in BOOLEAN}

(* Lists with several members to choose from, over and over on one connection.   *)
ListRequests ==
    {Ask(h, ua, FALSE) :
        h \in HeaderMaps({None, One(<<"random">>), One(<<"edge", "chrome">>)},
                         {None, One(<<"ios", "windows">>)}, {None, One("true")}, {None}, {None}, {None}),
        ua \in {[exact |-> None, marks |-> {"edge"}, tokens |-> {}]}}

FewRequests ==
    {Ask(h, Curl, FALSE) :
        h \in {<<>>} \cup HeaderMaps({One(<<"chrome">>)}, {One(<<"ios", "android">>), One(<<"linux">>)},
                                     {None}, {None}, {None}, {None})}

MatchDefaults == [NoDefaults EXCEPT !.defaults = [browser |-> One(<<"chrome">>), match |-> One("true")]]

MatchRequests ==
    {Ask(h, ua, FALSE) :
        h \in HeaderMaps({None}, {None, One(<<"ios">>)}, {None, One("true")}, {None}, {None}, {None}),
        ua \in UserAgents \cup EdgeOddities}

(* Every preset and every provider, every way to write two HTTP/3 settings, and  *)
(* a proxy over HTTP/3.                                                          *)
Http3Lines ==
    {<<<<[name |-> a, value |-> "1"], [name |-> b, value |-> v]>>>> :
        a, b \in {"grease", "h3datagram", "headertablesize"}, v \in {"1", Malformed}}

TableRequests ==
    {Ask(h, Curl, FALSE) : h \in
        {<<>>} \cup {[ja |-> One(v)] : v \in JaPresets \cup {Malformed}}
          \cup {[dnsovertls |-> One(v)] : v \in DotProviders \cup {Custom, Malformed}}
          \cup {[http3settings |-> v, browser |-> One(<<"chrome">>)] : v \in Http3Lines}
          \cup {[http2settings |-> v] : v \in Http3Lines}
          \cup {[proxy |-> One(Hop), forcehttp |-> One(v)] : v \in {"2", "3"}}}

(* Requests that may meet a client that another one left in the cache.           *)
CacheRequests ==
    {Ask(Written([browser |-> b, proxy |-> p, ja |-> j, dns |-> d]), Curl, FALSE) :
        b \in {None, One(<<"edge">>)}, p \in {None, One(Hop), One(Other)}, j \in {None, One("ios")},
        d \in {None, One("1.1.1.1:53")}}

(* --- routes --- *)

Shop == <<"shop", "com">>
Literal(s) == [prefix |-> s, param |-> Nothing]
Param(s, name) == [prefix |-> s, param |-> name]
Route(name, host, path, capture) == [name |-> name, host |-> host, path |-> path, capture |-> capture]

(* /u/:id and /@:user/<star> and /, a star for what is left, a parameter twice  *)
(* for the host that is called a star, and two that cannot be: a star in the     *)
(* middle, and a capture of no parameter.                                        *)
SomeRoutes ==
    {Route("id", <<"*">> \o Shop, <<Literal(<<"u">>), Param(<<>>, "id")>>, {"id"}),
     Route("user", Shop, <<Param(<<"@">>, "user"), Star>>, {"user"}),
     Route("root", Shop, <<Literal(<<>>)>>, {}),
     Route("rest", <<"*", "com">>, <<Literal(<<"u">>), Star>>, {}),
     Route("twice", <<"*">>, <<Param(<<>>, "id"), Param(<<>>, "id")>>, {"id"})}

BadRoutes ==
    {Route("star", Shop, <<Star, Literal(<<"u">>)>>, {}), Route("none", Shop, <<Literal(<<"u">>)>>, {"id"})}

RouteConfigs ==
    {[NoDefaults EXCEPT !.collectors = {"requests", "latency", "bandwidth"}, !.routes = r] :
        r \in {<<a>> : a \in SomeRoutes \cup BadRoutes} \cup {<<a, b>> : a, b \in SomeRoutes}}

Segments == {<<>>, <<"u">>, <<"@">>, <<"@", "x">>}

RouteRequests ==
    {[Ask(<<>>, Curl, FALSE) EXCEPT !.path = p, !.url.name = h] :
        p \in {<<a>> : a \in Segments} \cup {<<a, b>> : a, b \in Segments} \cup {<<<<"u">>, a, b>> : a, b \in Segments},
        h \in {Shop, <<"api">> \o Shop, <<"com">>, <<"*">>}}

\* A capture that has the name of a label of the requests' metric.
CaptureConfig ==
    [NoDefaults EXCEPT !.routes = <<Route("id", Shop, <<Literal(<<"u">>), Param(<<>>, "host")>>, {"host"})>>]

(* --- users --- *)

Alice == [user |-> "alice", password |-> "right"]

UserConfig == [NoDefaults EXCEPT !.users = {Alice, [user |-> "bob", password |-> "other"]}]

Logins == {None, Alice, [user |-> "alice", password |-> "other"], [user |-> "carol", password |-> "right"]}

(* --- the scheme directive --- *)

SchemeRequests ==
    {[Ask(Written([scheme |-> s]), Curl, FALSE) EXCEPT !.url = [n EXCEPT !.port = p]] :
        s \in {None, One("https")}, p \in {None, "80", "8080"},
        n \in {[name |-> Shop, v6 |-> FALSE, port |-> None], [name |-> <<"fd00::1">>, v6 |-> TRUE, port |-> None]}}

(* Policies are tried with one request, what requests leave behind with several. *)
MCRequests(kind) ==
    CASE kind = "policy" -> PolicyRequests
      [] kind = "shapes" -> ShapeRequests
      [] kind = "tables" -> TableRequests
      [] kind = "cache"  -> CacheRequests
      [] kind = "routes" -> RouteRequests
      [] kind = "lists"  -> ListRequests
      [] kind \in {"few", "auth"} -> FewRequests
      [] kind = "match"  -> MatchRequests
      [] kind = "scheme" -> SchemeRequests

MCMaxRequests(kind) ==
    CASE kind = "lists" -> 4
      [] kind \in {"few", "cache"} -> 2
      [] OTHER          -> 1

Tunnelled(kind) == [kind |-> kind, tunnelled |-> TRUE, login |-> None]
OverPlain(kind) == [kind |-> kind, tunnelled |-> FALSE, login |-> None]

AllMeetings ==
    (PolicyConfigs \X {Tunnelled("policy")})
      \cup ({NoDefaults} \X {Tunnelled("shapes"), Tunnelled("lists"), Tunnelled("tables"), OverPlain("cache"),
                             OverPlain("scheme")})
      \cup (RouteConfigs \X {OverPlain("routes")})
      \cup ({UserConfig} \X [kind : {"auth"}, tunnelled : BOOLEAN, login : Logins])
      \cup {<<CaptureConfig, OverPlain("auth")>>}

FewMeetings == {<<NoDefaults, Tunnelled("few")>>}
PlainMeetings == {<<NoDefaults, OverPlain("few")>>}
MatchMeetings == {<<MatchDefaults, Tunnelled("match")>>}
CaptureMeetings == {<<CaptureConfig, OverPlain("auth")>>}
SchemeMeetings == {<<NoDefaults, OverPlain("scheme")>>}
================================================================================
