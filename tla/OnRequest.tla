------------------------------- MODULE OnRequest -------------------------------
(* The configuration and one client connection (run in cmd/tip/main.go, onConnect *)
(* and plainAuth in internal/proxy/proxy.go, onRequest in handler.go): startup   *)
(* turns the configuration into a policy and the metrics' labels; a CONNECT, or  *)
(* each plain request, is authenticated; a request is parsed under the policy,   *)
(* its profile or its User-Agent is resolved to a browser and an OS, which a     *)
(* CONNECT tunnel remembers, and it is given a client, built or cached; when it  *)
(* is over it is counted under its route. tunnel.pick and tunnel.remember each   *)
(* hold tunnel.mu, so each is one step; the choice between them holds nothing.   *)
(* Draining and the round trip are ProxyServer, the cache's inside ClientCache.  *)
EXTENDS Build, Routes

CONSTANTS Worker,   \* the goroutines serving requests of the connection: one over HTTP/1.1, several over h2
          Meeting,  \* pairs of a configuration and a client, [kind, tunnelled, login]
          Requests(_),   \* the requests that a kind of client may send: [headers, ua, websocket, url, host]
          MaxRequests(_) \* bound on how many it sends on the connection

ASSUME MaxRequestsIsNat == \A m \in Meeting : MaxRequests(m[2].kind) \in Nat

\* A header that is there has a line, with at least one token if it is a list.
ASSUME RequestsAreWritten ==
    \A m \in Meeting : \A r \in Requests(m[2].kind) : \A k \in DOMAIN r.headers :
        /\ k \in ListKeys => FlattenSeq(r.headers[k]) # <<>>
        /\ k \in Scalars => r.headers[k][1] # None

\* So has a default. And a client may send nothing, or name a proxy that it is allowed.
ASSUME DefaultsAreWritten == \A m \in Meeting : "proxy" \in DOMAIN m[1].defaults => m[1].defaults["proxy"][1] # None

ASSUME ClientsAreFree ==
    \A m \in Meeting :
        LET sent == {r.headers : r \in Requests(m[2].kind)}
        IN  /\ \E h \in sent : DOMAIN h = {}
            /\ (m[1].requireProxy /\ "proxy" \notin DOMAIN m[1].defaults) =>
                  \E h \in sent : /\ DOMAIN h = {"proxy"} /\ Len(h["proxy"]) = 1
                                  /\ h["proxy"][1] \notin {Blank, Malformed} /\ ProxyAllowed(h["proxy"][1], m[1].proxyHosts)

\* What the configuration's schema makes of routes, and the URL of a request.
ASSUME RoutesAreWritten ==
    \A m \in Meeting :
        /\ m[1].collectors \subseteq DOMAIN Fixed
        /\ m[1].routes \in Seq([name : STRING, host : Seq(STRING) \ {<<>>}, capture : SUBSET STRING,
                                path : Seq([prefix : Seq(STRING), param : STRING])])
        /\ \A i \in DOMAIN m[1].routes : IsFiniteSet(m[1].routes[i].capture)
        /\ \A r \in Requests(m[2].kind) : r.url.name \in Seq(STRING) /\ r.path \in Seq(Seq(STRING))

VARIABLES config, \* what the process was started with: [defaults, deny, proxyHosts, requireProxy, users, collectors, routes]
          client, \* the client at the other end of the connection
          stage,  \* "starting", "serving", "refused" or "panicked"
          policy, \* directive.Policy of the server
          tunnel, \* the CONNECT: "none", "open" or "rejected"
          cached, \* the client that the last build left in the cache: [key, spec] or None
          counted, \* history: the last request to be counted, [host, path, values], or None
          picks,  \* tunnel.picks, a partial function from lists to identities
          received, \* requests received so far, up to MaxRequests(client)
          pc, req, dir,
          answer, \* what the worker's last request came to
          given   \* history: every identity the connection gave, with the lists it was asked for

server == <<config, client, stage, policy, tunnel>>
vars == <<server, cached, counted, picks, received, pc, req, dir, answer, given>>

NoAnswer == [status |-> "none"]

Init ==
    /\ \E m \in Meeting : config = m[1] /\ client = m[2]
    /\ stage = "starting" /\ policy = NoPolicy /\ tunnel = "none"
    /\ cached = None /\ counted = None
    /\ picks = <<>> /\ received = 0 /\ given = {}
    /\ pc = [w \in Worker |-> "idle"]
    /\ req = [w \in Worker |-> None]
    /\ dir = [w \in Worker |-> None]
    /\ answer = [w \in Worker |-> NoAnswer]

Step(w, from, to) == pc[w] = from /\ pc' = [pc EXCEPT ![w] = to]

(* main.run: NewPolicy, ProxyHosts and RequireProxy, then metrics.New; any of    *)
(* them ends the start.                                                          *)
Start ==
    LET p == NewPolicy(config.defaults, config.deny)
        q == [p EXCEPT !.proxyHosts = config.proxyHosts]
        valid == /\ NewPolicyOk(config.defaults, config.deny)
                 /\ ProxyHostsOk(p, config.proxyHosts)
                 /\ config.requireProxy => RequireProxyOk(q)
                 /\ NewMatcherOk(config.routes)
        panics == Clash(config.collectors, config.routes)
    IN  /\ stage = "starting"
        /\ stage' = IF ~valid THEN "refused" ELSE IF panics THEN "panicked" ELSE "serving"
        /\ policy' = IF valid THEN [q EXCEPT !.requireProxy = config.requireProxy] ELSE NoPolicy
        /\ UNCHANGED <<config, client, tunnel, cached, counted, picks, received, pc, req, dir, answer, given>>

Authenticated == config.users = {} \/ client.login \in config.users

(* A CONNECT: BasicConnect rejects it, or onConnect opens the tunnel.            *)
Connect ==
    /\ stage = "serving" /\ client.tunnelled /\ tunnel = "none"
    /\ tunnel' = IF Authenticated THEN "open" ELSE "rejected"
    /\ UNCHANGED <<config, client, stage, policy, cached, counted, picks, received, pc, req, dir, answer, given>>

FaultPlainAuth == TRUE

\* plainAuth leaves the requests of a tunnel alone: their CONNECT has been asked.
PlainAuth == client.tunnelled \/ Authenticated

\* state.spec, which is empty until the identity is resolved.
Browser(w) == IF pc[w] = "client" THEN Spec(dir[w]).browser ELSE None

Teapot(w, why) ==
    /\ Step(w, pc[w], "done")
    /\ answer' = [answer EXCEPT ![w] = [status |-> "teapot", why |-> why, browser |-> Browser(w)]]
    /\ dir' = [dir EXCEPT ![w] = None]

WithProfile(d) ==
    IF d.profile = None THEN d
    ELSE [d EXCEPT !.browser = <<d.profile.family>>, !.os = <<d.profile.platform>>]

WithMatch(d, ua) ==
    LET found == Infer(ua)
    IN  IF d.match /\ "browser" \notin d.fromRequest /\ found.browser # None
        THEN [d EXCEPT !.browser = <<found.browser>>,
                       !.os = IF found.os # None /\ "os" \notin d.fromRequest THEN <<found.os>> ELSE d.os]
        ELSE d

WithUpgrade(d, websocket) ==
    IF d.forcehttp = None /\ websocket THEN [d EXCEPT !.forcehttp = "1"] ELSE d

Ready(w, r) ==
    /\ stage = "serving" /\ pc[w] = "idle" /\ (client.tunnelled => tunnel = "open")
    /\ received < MaxRequests(client.kind) /\ received' = received + 1
    /\ req' = [req EXCEPT ![w] = r]
    /\ UNCHANGED <<server, cached, counted, picks, given>>

\* 407, before onRequest sees the request.
Challenge(w, r) ==
    /\ Ready(w, r) /\ ~PlainAuth
    /\ Step(w, "idle", "done")
    /\ answer' = [answer EXCEPT ![w] = [status |-> "challenge"]]
    /\ UNCHANGED dir

(* onRequest up to the call of resolve.                                          *)
Receive(w, r) ==
    LET parsed == Parse(r.headers, policy)
        d == parsed.directive
    IN  /\ Ready(w, r) /\ PlainAuth
        /\ \/ /\ parsed.issues # {}
              /\ Teapot(w, parsed.issues)
           \/ /\ parsed.issues = {} /\ d.profile # None /\ ~Lookup(d.profile)
              /\ Teapot(w, Issue("stale", {"profile"}))
           \/ /\ parsed.issues = {} /\ (d.profile = None \/ Lookup(d.profile))
              /\ Step(w, "idle", "resolve")
              /\ dir' = [dir EXCEPT ![w] = WithUpgrade(WithMatch(WithProfile(d), r.ua), r.websocket)]
              /\ UNCHANGED answer

Identity(d) == <<d.browser, d.os>>

KeyOf(d) == <<d.browser, d.os>>

Give(w, key, d) ==
    /\ dir' = [dir EXCEPT ![w] = d]
    /\ given' = IF d.browser = <<>> THEN given ELSE given \cup {[lists |-> key, got |-> Identity(d)]}

FaultRemembered(key) == FALSE

Remembered(key) == client.tunnelled /\ key \in DOMAIN picks

(* resolve, the lookup in tunnel.picks. *)
Pick(w) ==
    LET key == KeyOf(dir[w])
    IN  /\ pc[w] = "resolve"
        /\ IF Remembered(key)
           THEN /\ Step(w, "resolve", "client")
                /\ Give(w, key, [dir[w] EXCEPT !.browser = picks[key][1], !.os = picks[key][2]])
           ELSE /\ Step(w, "resolve", "choose")
                /\ UNCHANGED <<dir, given>>
        /\ UNCHANGED <<server, cached, counted, picks, received, req, answer>>

\* A panic of the handler takes the goroutine with it.
Panic(w, why) ==
    /\ Step(w, pc[w], "done")
    /\ answer' = [answer EXCEPT ![w] = [status |-> "panicked", why |-> why]]
    /\ dir' = [dir EXCEPT ![w] = None]

(* resolve, Directive.Resolve and tunnel.remember; nothing is seen between them  *)
(* but the random choice, which is the worker's own.                             *)
ChooseIdentity(w) ==
    LET key == KeyOf(dir[w])
    IN  /\ pc[w] = "choose"
        /\ \/ /\ ~ResolveOk(dir[w])
              /\ Teapot(w, Issue("unavailable", {"os"}))
              /\ UNCHANGED <<picks, given>>
           \/ /\ ResolveOk(dir[w])
              /\ IF PicksFromNone(dir[w])
                 THEN Panic(w, "pick") /\ UNCHANGED <<picks, given>>
                 ELSE /\ Step(w, "choose", "client")
                      /\ \E d \in Resolutions(dir[w]) :
                            /\ Give(w, key, d)
                            /\ picks' = IF client.tunnelled /\ d.browser # <<>>
                                        THEN [k \in DOMAIN picks \cup {key} |-> IF k = key THEN Identity(d) ELSE picks[k]]
                                        ELSE picks
                      /\ UNCHANGED answer
        /\ UNCHANGED <<server, cached, counted, received, req>>

Authority(url) == [name |-> url.name, bracketed |-> url.v6, port |-> url.port]

(* upgrade: the scheme, and port 80 off the URL and off the Host header, which   *)
(* net.SplitHostPort takes apart without its brackets.                           *)
Sent(d, url) ==
    LET stripped == [Authority(url) EXCEPT !.port = None]
        whole == [url |-> Authority(url), host |-> Authority(url)]
    IN  IF d.scheme # "https" \/ url.port # "80" THEN whole
        ELSE [url |-> stripped, host |-> [stripped EXCEPT !.bracketed = FALSE]]

FaultServe(w, spec) ==
    /\ Step(w, "client", "done")
    /\ answer' = [answer EXCEPT ![w] = [status |-> "served", browser |-> Browser(w), spec |-> spec, sent |-> Sent(dir[w], req[w].url)]]
    /\ dir' = dir

Serve(w, spec) ==
    /\ Step(w, "client", "done")
    /\ answer' = [answer EXCEPT ![w] = [status |-> "served", browser |-> Browser(w), spec |-> spec, sent |-> Sent(dir[w], req[w].url)]]
    /\ dir' = [dir EXCEPT ![w] = None]

(* clients.Get on the Spec: the client that is cached under its key, or a build, *)
(* which Build may refuse, and surf may refuse what Build accepts; Build may     *)
(* panic too.                                                                    *)
GetClient(w) ==
    LET s == Spec(dir[w])
    IN  /\ pc[w] = "client"
        /\ \/ /\ cached # None /\ cached.key = Key(s)
              /\ Serve(w, cached.spec) /\ UNCHANGED cached
           \/ /\ Refusal(s) = None
              /\ Serve(w, s) /\ cached' = [key |-> Key(s), spec |-> s]
           \/ /\ IF Panics(s) THEN Panic(w, Refusal(s))
                 ELSE Teapot(w, Issue(IF Refusal(s) = None THEN "build" ELSE Refusal(s), {""}))
              /\ UNCHANGED cached
        /\ UNCHANGED <<server, counted, picks, received, req, given>>

(* finish: at once for a teapot, and when the round trip is over for a request   *)
(* that was served. A challenged one was never counted.                          *)
Finish(w) ==
    /\ Step(w, "done", "idle") /\ answer[w].status # "panicked"
    /\ counted' = IF answer[w].status = "challenge" THEN counted
                  ELSE [host |-> req[w].url.name, path |-> req[w].path,
                        values |-> Finished(config.collectors, config.routes,
                          [host |-> req[w].url.name, path |-> req[w].path, method |-> "method", status |-> "status",
                           browser |-> answer[w].browser])]
    /\ req' = [req EXCEPT ![w] = None]
    /\ answer' = [answer EXCEPT ![w] = NoAnswer]
    /\ UNCHANGED <<server, cached, picks, received, dir, given>>

Next ==
    \/ Start
    \/ Connect
    \/ \E w \in Worker :
         \/ \E r \in Requests(client.kind) : Receive(w, r) \/ Challenge(w, r)
         \/ Pick(w)
         \/ ChooseIdentity(w)
         \/ GetClient(w)
         \/ Finish(w)

SpecOf == Init /\ [][Next]_vars

--------------------------------------------------------------------------------
(* The fields have their types, and a worker between steps has a directive with  *)
(* every field.                                                                  *)
TypeOK ==
    /\ stage \in {"starting", "serving", "refused", "panicked"} /\ tunnel \in {"none", "open", "rejected"}
    /\ received \in 0..MaxRequests(client.kind)
    /\ \A w \in Worker :
         /\ pc[w] \in {"idle", "resolve", "choose", "client", "done"}
         /\ IF pc[w] = "idle" THEN req[w] = None ELSE req[w] \in Requests(client.kind)
         /\ IF pc[w] \in {"resolve", "choose", "client"} THEN DOMAIN dir[w] = Known \cup {"fromRequest"} ELSE dir[w] = None
         /\ pc[w] = "done" <=> answer[w].status # "none"
         /\ answer[w].status \in {"none", "challenge", "teapot", "panicked", "served"}
    /\ \A key \in DOMAIN picks : Len(key) = 2 /\ picks[key][1] # <<>>

Served(w) == answer[w].status = "served"
SpecServed(w) == answer[w].spec
Asked(w) == req[w].headers
Names(h, key, v) == key \in DOMAIN h /\ (v \in Range(FlattenSeq(h[key])) \/ "random" \in Range(FlattenSeq(h[key])))

\* Directives that go into the Spec as they come.
Plain == {"ja", "forcehttp", "proxy", "dns", "dnsovertls", "interfaceaddr"}

(* "Explicit X-Tip-Browser and X-Tip-Os always win": whatever the defaults, the  *)
(* User-Agent, the tunnel's memory and the client that an earlier request left   *)
(* in the cache, a served request that names browsers or OSes has one of those   *)
(* it named, one that names a profile has exactly that profile, and one that     *)
(* names a proxy, a preset or a resolver goes out through that one; a request    *)
(* that names none has the operator's default, or none.                          *)
RequestWins ==
    \A w \in Worker : Served(w) =>
        LET h == Asked(w)
            s == SpecServed(w)
        IN  /\ "browser" \in DOMAIN h => Names(h, "browser", s.browser)
            /\ ("os" \in DOMAIN h /\ s.browser # None) => Names(h, "os", s.os)
            /\ "profile" \in DOMAIN h =>
                 s.browser = h["profile"][1].family /\ s.os = h["profile"][1].platform
            /\ \A k \in Plain : s[k] \in
                 IF k \in DOMAIN h THEN {h[k][1]}
                 ELSE IF k \in DOMAIN config.defaults THEN {config.defaults[k][1]}
                 ELSE {None} \cup (IF k = "forcehttp" /\ req[w].websocket THEN {"1"} ELSE {})

(* Every served request leaves as the operator's policy says: through the        *)
(* default proxy if clients may not choose one, through some proxy if one is     *)
(* required, and through a host of the allow-list if there is one.               *)
EgressObeysPolicy ==
    \A w \in Worker : Served(w) =>
        LET s == SpecServed(w)
        IN  /\ "proxy" \in config.deny =>
                 s.proxy = IF "proxy" \in DOMAIN config.defaults THEN config.defaults["proxy"][1] ELSE None
            /\ config.requireProxy => s.proxy # None
            /\ s.proxy # None => ProxyAllowed(s.proxy, config.proxyHosts)

(* What validation, inference and the choice let through, Build can build: it    *)
(* never refuses an identity or a preset, and never calls a provider or          *)
(* dereferences a setting that it does not have, which would panic inside        *)
(* Cache.Get and leave the key's flight open for ever. Nor is the choice ever    *)
(* made among no browsers, or no OSes of the browser chosen: pick(0) panics.     *)
ValidatedIsBuildable ==
    \A w \in Worker :
        /\ answer[w].status # "panicked"
        /\ answer[w].status = "teapot" => \A i \in answer[w].why : i.why \notin {"identity", "ja"}

(* Startup refuses a policy under which "no request could pass": under one it    *)
(* accepts, some request has no issues.                                          *)
AcceptedPolicyServes ==
    stage = "serving" => \E r \in Requests(client.kind) : Parse(r.headers, policy).issues = {}

(* "A list is chosen from once per connection": requests of one connection that  *)
(* ask for the same lists of browsers and OSes get the same identity.            *)
ChosenOnce == \A a, b \in given : a.lists = b.lists => a.got = b.got

(* A proxy with users serves, and even parses, only requests of one of them,     *)
(* whether each request carries the login or its tunnel's CONNECT did; and it    *)
(* challenges none of theirs.                                                    *)
OnlyUsersServed ==
    config.users # {} => \A w \in Worker :
        /\ answer[w].status \notin {"none", "challenge"} \/ dir[w] # None => client.login \in config.users
        /\ answer[w].status = "challenge" => client.login \notin config.users

(* A request is counted under the first route that covers it, with the captured  *)
(* parts of its path in the places of their names: every collector has as many   *)
(* values as labels, which client_golang demands, and they agree.                *)
CountedAsDeclared ==
    counted # None => \A c \in config.collectors : \A v \in counted.values[c] :
        LET names == Labels(c, config.routes)
            n     == Len(Fixed[c])
            first == {i \in DOMAIN config.routes :
                        /\ Covers(config.routes[i], counted.host, counted.path)
                        /\ \A j \in 1..(i - 1) : ~Covers(config.routes[j], counted.host, counted.path)}
        IN  /\ Len(v) = Len(names)
            /\ \A k \in 1..n : names[k] = "route" => v[k] = IF first = {} THEN Nothing ELSE config.routes[CHOOSE i \in first : TRUE].name
            /\ \A k \in n + 1..Len(names) :
                 v[k] = IF \E i \in first : names[k] \in config.routes[i].capture
                        THEN CapturedBy(config.routes[CHOOSE i \in first : TRUE], names[k], counted.path) ELSE <<>>

(* A default browser and Match "gives every request a real fingerprint": none is *)
(* told that the OS it asked for is not available for a browser it did not name. *)
MatchFitsOs ==
    \A w \in Worker : (answer[w].status = "teapot" /\ "browser" \notin DOMAIN Asked(w)) =>
        \A i \in answer[w].why : i.why # "unavailable"

(* The Host header of a request that X-Tip-Scheme upgrades names the host that   *)
(* it is sent to, written as the URL writes it.                                  *)
UpgradeKeepsHost == \A w \in Worker : Served(w) => answer[w].sent.url = answer[w].sent.host

(* A configuration whose routes capture parameters starts or is refused.         *)
CapturesStart == stage # "panicked"
================================================================================
