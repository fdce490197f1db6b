---------------------------- MODULE OnRequestProofs ----------------------------
(* Proofs about OnRequest, for every configuration, client and set of requests:  *)
(* who is served, by which way out, and, on one HTTP/1.1 tunnel, as whom.        *)
EXTENDS OnRequest, TLAPS

PerWorker ==
    /\ pc = [w \in Worker |-> pc[w]] /\ dir = [w \in Worker |-> dir[w]]
    /\ answer = [w \in Worker |-> answer[w]]

(* The pool has only browsers with an OS left, so the pick is never among none.   *)
LEMMA PickFinds == ASSUME NEW d, ResolveOk(d) PROVE ~PicksFromNone(d)
BY Zenon DEF ResolveOk, PicksFromNone, Pool

LEMMA PerWorkerStep == ASSUME PerWorker, [Next]_vars PROVE PerWorker'
<1> USE DEF PerWorker
<1>1. CASE UNCHANGED vars \/ Start \/ Connect
  BY <1>1 DEF Start, Connect, vars, server
<1>2. ASSUME NEW w \in Worker, NEW r, Receive(w, r) \/ Challenge(w, r) PROVE PerWorker'
  BY <1>2 DEF Receive, Challenge, Step, Teapot
<1>3. ASSUME NEW w \in Worker, Pick(w) PROVE PerWorker'
  BY <1>3 DEF Pick, Step, Give
<1>4. ASSUME NEW w \in Worker, ChooseIdentity(w) PROVE PerWorker'
  BY <1>4, PickFinds DEF ChooseIdentity, Step, Give, Teapot
<1>5. ASSUME NEW w \in Worker, GetClient(w) PROVE PerWorker'
  BY <1>5 DEF GetClient, Step, Serve, Panic, Teapot
<1>6. ASSUME NEW w \in Worker, Finish(w) PROVE PerWorker'
  BY <1>6 DEF Finish, Step
<1>7. QED
  BY <1>1, <1>2, <1>3, <1>4, <1>5, <1>6 DEF Next

--------------------------------------------------------------------------------
(* clients.Get ends the worker's part of the request, and what it serves with is *)
(* the client of the request's Spec, or one that is cached under the same key.   *)
LEMMA GetClientEnds ==
  ASSUME NEW w \in Worker, GetClient(w)
  PROVE  /\ pc[w] = "client" /\ pc' = [pc EXCEPT ![w] = "done"] /\ dir' = [dir EXCEPT ![w] = None]
         /\ \/ \E a : answer' = [answer EXCEPT ![w] = a] /\ a.status \in {"teapot", "panicked"} /\ cached' = cached
            \/ \E a : /\ answer' = [answer EXCEPT ![w] = a] /\ a.status = "served"
                     /\ \/ /\ cached # None /\ cached.key = Key(Spec(dir[w])) /\ a.spec = cached.spec
                           /\ cached' = cached
                        \/ /\ a.spec = Spec(dir[w])
                           /\ cached' = [key |-> Key(Spec(dir[w])), spec |-> Spec(dir[w])]
<1> DEFINE s == Spec(dir[w])
<1>1. CASE cached # None /\ cached.key = Key(s) /\ Serve(w, cached.spec) /\ UNCHANGED cached
  <2> DEFINE a == [status |-> "served", browser |-> Browser(w), spec |-> cached.spec, sent |-> Sent(dir[w], req[w].url)]
  <2>1. a.status = "served" /\ a.spec = cached.spec /\ answer' = [answer EXCEPT ![w] = a]
    BY <1>1 DEF Serve
  <2> HIDE DEF a
  <2>2. QED
    BY <1>1, <2>1 DEF Serve, Step
<1>2. CASE Serve(w, s) /\ cached' = [key |-> Key(s), spec |-> s]
  <2> DEFINE a == [status |-> "served", browser |-> Browser(w), spec |-> s, sent |-> Sent(dir[w], req[w].url)]
  <2>1. a.status = "served" /\ a.spec = s /\ answer' = [answer EXCEPT ![w] = a]
    BY <1>2 DEF Serve
  <2> HIDE DEF a
  <2>2. QED
    BY <1>2, <2>1 DEF Serve, Step
<1>3. ASSUME NEW why, pc[w] = "client", Panic(w, why), UNCHANGED cached
      PROVE \E a : /\ answer' = [answer EXCEPT ![w] = a] /\ a.status \in {"teapot", "panicked"}
                  /\ pc' = [pc EXCEPT ![w] = "done"] /\ dir' = [dir EXCEPT ![w] = None]
  BY <1>3 DEF Panic, Step
<1>4. ASSUME NEW why, pc[w] = "client", Teapot(w, why), UNCHANGED cached
      PROVE \E a : /\ answer' = [answer EXCEPT ![w] = a] /\ a.status \in {"teapot", "panicked"}
                  /\ pc' = [pc EXCEPT ![w] = "done"] /\ dir' = [dir EXCEPT ![w] = None]
  BY <1>4 DEF Teapot, Step
<1>5. pc[w] = "client"
  BY DEF GetClient
<1> HIDE DEF s
<1>6. \/ cached # None /\ cached.key = Key(s) /\ Serve(w, cached.spec) /\ UNCHANGED cached
      \/ Serve(w, s) /\ cached' = [key |-> Key(s), spec |-> s]
      \/ (\E why : Panic(w, why)) /\ UNCHANGED cached
      \/ (\E why : Teapot(w, why)) /\ UNCHANGED cached
  BY DEF GetClient, s
<1>7. QED
  BY <1>1, <1>2, <1>3, <1>4, <1>5, <1>6

(* Whoever is past the door is a user of the proxy, or there are none.           *)
DoorInv ==
    /\ PerWorker
    /\ tunnel = "open" => Authenticated
    /\ \A w \in Worker :
         /\ answer[w].status \notin {"none", "challenge"} \/ dir[w] # None => Authenticated
         /\ pc[w] \notin {"idle", "done"} => Authenticated
         /\ answer[w].status = "challenge" => ~Authenticated

LEMMA DoorInvStep == ASSUME DoorInv, [Next]_vars PROVE DoorInv'
<1>0. PerWorker' /\ (Authenticated' <=> Authenticated)
  <2>1. config' = config /\ client' = client
    BY DEF Next, vars, server, Start, Connect, Receive, Challenge, Ready, Pick, ChooseIdentity, GetClient, Finish
  <2>2. QED
    BY <2>1, PerWorkerStep DEF DoorInv, Authenticated
<1>1. CASE UNCHANGED vars \/ Start \/ Connect
  BY <1>0, <1>1 DEF Start, Connect, vars, server, DoorInv
<1>2. ASSUME NEW w \in Worker, NEW r, Receive(w, r) PROVE DoorInv'
  <2>1. Authenticated /\ tunnel' = tunnel
    BY <1>2 DEF Receive, Ready, PlainAuth, DoorInv, server
  <2>2. \A v \in Worker : answer'[v].status # "challenge"
    BY <1>2, <2>1 DEF Receive, Teapot, DoorInv, PerWorker
  <2>3. QED
    BY <1>0, <2>1, <2>2 DEF DoorInv
<1>3. ASSUME NEW w \in Worker, NEW r, Challenge(w, r) PROVE DoorInv'
  BY <1>0, <1>3 DEF Challenge, Ready, PlainAuth, DoorInv, server, Step, PerWorker
<1>4. ASSUME NEW w \in Worker, Pick(w) \/ ChooseIdentity(w) \/ GetClient(w) PROVE DoorInv'
  <2>1. Authenticated /\ tunnel' = tunnel
    BY <1>4 DEF Pick, ChooseIdentity, GetClient, Serve, Panic, Teapot, Step, DoorInv, server
  <2>2. \A v \in Worker : answer'[v].status # "challenge"
    <3>1. \A v \in Worker : answer[v].status # "challenge"
      BY <2>1 DEF DoorInv
    <3>2. CASE Pick(w)
      BY <3>1, <3>2 DEF Pick
    <3>3. CASE ChooseIdentity(w)
      BY <3>1, <3>3, PickFinds DEF ChooseIdentity, Teapot, DoorInv, PerWorker
    <3>4. CASE GetClient(w)
      BY <3>1, <3>4, GetClientEnds DEF DoorInv, PerWorker
    <3>5. QED
      BY <1>4, <3>2, <3>3, <3>4
  <2>3. QED
    BY <1>0, <2>1, <2>2 DEF DoorInv
<1>5. ASSUME NEW w \in Worker, Finish(w) PROVE DoorInv'
  BY <1>0, <1>5 DEF Finish, Step, DoorInv, PerWorker, NoAnswer, server
<1>6. QED
  BY <1>1, <1>2, <1>3, <1>4, <1>5 DEF Next

(* A proxy with users parses and serves only their requests, and challenges none *)
(* of theirs: plainAuth and BasicConnect between them leave no way in, whether   *)
(* a request carries the login or the CONNECT of its tunnel did.                 *)
THEOREM OnlyUsersServedAlways == SpecOf => []OnlyUsersServed
<1>1. Init => DoorInv
  BY DEF Init, DoorInv, PerWorker, NoAnswer
<1>2. DoorInv /\ [Next]_vars => DoorInv'
  BY DoorInvStep
<1>3. DoorInv => OnlyUsersServed
  BY DEF DoorInv, OnlyUsersServed, Authenticated
<1>4. QED
  BY <1>1, <1>2, <1>3, PTL DEF SpecOf

--------------------------------------------------------------------------------
(* The way out, as the operator wants it.                                        *)
Fit(proxy) ==
    /\ "proxy" \in config.deny =>
         proxy = IF "proxy" \in DOMAIN config.defaults THEN config.defaults["proxy"][1] ELSE None
    /\ config.requireProxy => proxy # None
    /\ proxy # None => ProxyAllowed(proxy, config.proxyHosts)

Fields == Known \cup {"fromRequest"}

\* The server's policy is the configuration's.
PolicyMade ==
    /\ DOMAIN policy.defaults = DOMAIN config.defaults
    /\ "proxy" \in DOMAIN config.defaults => policy.defaults["proxy"] = config.defaults["proxy"][1]
    /\ policy.deny = config.deny
    /\ policy.proxyHosts = config.proxyHosts
    /\ policy.requireProxy = config.requireProxy

EgressInv ==
    /\ PerWorker
    /\ stage = "serving" => PolicyMade
    /\ cached # None => cached.key = Key(cached.spec)
    /\ \A w \in Worker :
         /\ pc[w] \in {"resolve", "choose", "client"} => DOMAIN dir[w] = Fields /\ Fit(dir[w].proxy)
         /\ answer[w].status = "served" => Fit(answer[w].spec.proxy)

LEMMA ProxyIsKnown == "proxy" \in Known /\ "proxy" \in SpecFields /\ "proxy" \notin Flags
                      /\ "proxy" \notin ListKeys /\ "proxy" \notin DOMAIN KvKeys
BY DEF Known, SpecFields, Scalars, Flags, ListKeys, KvKeys

LEMMA NamedIssue == ASSUME NEW why, NEW k, NEW keys, k \in keys PROVE Issue(why, keys) # {}
BY DEF Issue

LEMMA ParsedProxy ==
  ASSUME NEW h, NEW p, Parse(h, p).issues = {}
  PROVE  LET d == Parse(h, p).directive
         IN  /\ DOMAIN d = Fields
             /\ "proxy" \in p.deny => d.proxy = IF "proxy" \in DOMAIN p.defaults THEN p.defaults["proxy"] ELSE None
             /\ p.requireProxy => d.proxy # None
             /\ d.proxy # None => ProxyAllowed(d.proxy, p.proxyHosts)
<1> DEFINE allowed  == {k \in DOMAIN h \cap Known : ~Denied(p, k)}
           asked    == {k \in allowed : WellShaped(k, h[k])}
           kept     == {k \in DOMAIN p.defaults : ~Displaced(asked, k)}
           in       == [k \in asked \cup kept |-> IF k \in asked THEN Shaped(k, h[k]) ELSE p.defaults[k]]
           d        == Decode(in, asked)
<1>1. Parse(h, p).directive = d /\ ProxyIssues(d, p) = {}
  BY DEF Parse
<1>2. DOMAIN d = Fields /\ d.proxy = FieldOf(in, "proxy", None)
  BY ProxyIsKnown DEF Decode, Fields
<1>3. ASSUME "proxy" \in p.deny
      PROVE  d.proxy = IF "proxy" \in DOMAIN p.defaults THEN p.defaults["proxy"] ELSE None
  <2>1. "proxy" \notin asked
    BY <1>3 DEF Denied
  <2>2. CASE "proxy" \in DOMAIN p.defaults
    <3>1. "proxy" \in kept
      BY <2>1, <2>2 DEF Displaced, Trio
    <3>2. QED
      BY <1>2, <2>1, <2>2, <3>1 DEF FieldOf
  <2>3. CASE "proxy" \notin DOMAIN p.defaults
    BY <1>2, <2>1, <2>3 DEF FieldOf
  <2>4. QED
    BY <2>2, <2>3
<1> HIDE DEF d
<1>4. p.requireProxy => d.proxy # None
  <2> SUFFICES ASSUME p.requireProxy, d.proxy = None PROVE FALSE
    OBVIOUS
  <2>1. Issue("required", {"proxy"}) # {}
    BY NamedIssue
  <2>2. QED
    BY <1>1, <2>1 DEF ProxyIssues
<1>5. d.proxy # None => ProxyAllowed(d.proxy, p.proxyHosts)
  <2> SUFFICES ASSUME d.proxy # None, ~ProxyAllowed(d.proxy, p.proxyHosts) PROVE FALSE
    OBVIOUS
  <2>1. Issue("host", {"proxy"}) # {}
    BY NamedIssue
  <2>2. QED
    BY <1>1, <2>1 DEF ProxyIssues
<1>6. QED
  BY <1>1, <1>2, <1>3, <1>4, <1>5

(* Two Specs with one key go out by the same proxy.                              *)
LEMMA KeyTellsProxy == ASSUME NEW s, NEW t, Key(s) = Key(t) PROVE s.proxy = t.proxy
<1>1. "proxy" \in DOMAIN Key(s) <=> s.proxy # None
  BY ProxyIsKnown DEF Key, Given
<1>2. "proxy" \in DOMAIN Key(t) <=> t.proxy # None
  BY ProxyIsKnown DEF Key, Given
<1>3. s.proxy # None => Key(s)["proxy"] = s.proxy
  BY ProxyIsKnown DEF Key, Given
<1>4. t.proxy # None => Key(t)["proxy"] = t.proxy
  BY ProxyIsKnown DEF Key, Given
<1>5. QED
  BY <1>1, <1>2, <1>3, <1>4

LEMMA SpecProxy == ASSUME NEW d PROVE Spec(d).proxy = d.proxy
BY ProxyIsKnown DEF Spec

(* Neither the profile, nor inference, nor the upgrade, nor the choice of an     *)
(* identity touches the proxy.                                                   *)
LEMMA SameProxy ==
  ASSUME NEW d, DOMAIN d = Fields
  PROVE  /\ DOMAIN WithProfile(d) = Fields /\ WithProfile(d).proxy = d.proxy
         /\ \A ua : DOMAIN WithMatch(d, ua) = Fields /\ WithMatch(d, ua).proxy = d.proxy
         /\ \A b : DOMAIN WithUpgrade(d, b) = Fields /\ WithUpgrade(d, b).proxy = d.proxy
         /\ \A e \in Resolutions(d) : DOMAIN e = Fields /\ e.proxy = d.proxy
<1> USE ProxyIsKnown DEF Fields
<1>1. DOMAIN WithProfile(d) = Fields /\ WithProfile(d).proxy = d.proxy
  BY DEF WithProfile
<1>2. ASSUME NEW ua PROVE DOMAIN WithMatch(d, ua) = Fields /\ WithMatch(d, ua).proxy = d.proxy
  <2>1. \A x, y : DOMAIN [d EXCEPT !.browser = x, !.os = y] = Fields /\ [d EXCEPT !.browser = x, !.os = y].proxy = d.proxy
    OBVIOUS
  <2>2. QED
    BY <2>1 DEF WithMatch
<1>3. ASSUME NEW b PROVE DOMAIN WithUpgrade(d, b) = Fields /\ WithUpgrade(d, b).proxy = d.proxy
  BY DEF WithUpgrade
<1>4. ASSUME NEW e \in Resolutions(d) PROVE DOMAIN e = Fields /\ e.proxy = d.proxy
  <2>1. \/ e = d
        \/ \E b : e = [d EXCEPT !.browser = <<b>>]
        \/ \E b, o : e = [d EXCEPT !.browser = <<b>>, !.os = <<o>>]
    <3>1. CASE d.browser = <<>>
      BY <3>1 DEF Resolutions
    <3>2. CASE d.browser # <<>>
      <4>1. PICK b \in Pool(d) :
              e \in IF d.os = <<>> THEN {[d EXCEPT !.browser = <<b>>]}
                   ELSE {[d EXCEPT !.browser = <<b>>, !.os = <<o>>] : o \in Choose(d.os, Families[b])}
        BY <3>2, Zenon DEF Resolutions
      <4>2. CASE d.os = <<>>
        BY <4>1, <4>2
      <4>3. CASE d.os # <<>>
        <5>1. PICK o \in Choose(d.os, Families[b]) : e = [d EXCEPT !.browser = <<b>>, !.os = <<o>>]
          BY <4>1, <4>3, Zenon
        <5>2. QED
          BY <5>1, Zenon
      <4>4. QED
        BY <4>2, <4>3
    <3>3. QED
      BY <3>1, <3>2
  <2>2. QED
    BY <2>1
<1>5. QED
  BY <1>1, <1>2, <1>3, <1>4

LEMMA EgressInvStep == ASSUME EgressInv, [Next]_vars PROVE EgressInv'
<1>0. PerWorker' /\ config' = config
  BY PerWorkerStep DEF EgressInv, Next, vars, server, Start, Connect, Receive, Challenge, Ready, Pick,
                       ChooseIdentity, GetClient, Finish
<1>1. \A x : Fit(x)' <=> Fit(x)
  BY <1>0 DEF Fit
<1>2. CASE UNCHANGED vars \/ Connect
  BY <1>0, <1>1, <1>2 DEF Connect, vars, server, EgressInv, PolicyMade
<1>3. CASE Start
  <2>1. stage' = "serving" => PolicyMade'
    <3> SUFFICES ASSUME stage' = "serving" PROVE PolicyMade'
      OBVIOUS
    <3> DEFINE p == NewPolicy(config.defaults, config.deny)
               q == [p EXCEPT !.proxyHosts = config.proxyHosts]
    <3>1. policy' = [q EXCEPT !.requireProxy = config.requireProxy]
      BY <1>3 DEF Start
    <3>2. /\ DOMAIN p = {"defaults", "deny", "proxyHosts", "requireProxy"}
          /\ p.defaults = [k \in DOMAIN config.defaults |-> Shaped(k, config.defaults[k])]
          /\ p.deny = config.deny
      BY DEF NewPolicy, NoPolicy
    <3> HIDE DEF p
    <3>3. /\ policy'.defaults = p.defaults /\ policy'.deny = config.deny
          /\ policy'.proxyHosts = config.proxyHosts /\ policy'.requireProxy = config.requireProxy
      BY <3>1, <3>2
    <3>4. \A l : Shaped("proxy", l) = l[1]
      BY ProxyIsKnown DEF Shaped
    <3>5. QED
      BY <1>0, <3>2, <3>3, <3>4 DEF PolicyMade
  <2>2. QED
    BY <1>0, <1>1, <1>3, <2>1 DEF Start, EgressInv
<1>4. ASSUME NEW w \in Worker, NEW r, Receive(w, r) PROVE EgressInv'
  <2> DEFINE parsed == Parse(r.headers, policy)
             d == parsed.directive
             made == WithUpgrade(WithMatch(WithProfile(d), r.ua), r.websocket)
  <2>1. stage = "serving" /\ PolicyMade /\ stage' = stage /\ policy' = policy /\ cached' = cached
    BY <1>4 DEF Receive, Ready, EgressInv, server
  <2>2. CASE \E why : Teapot(w, why)
    BY <1>0, <1>1, <2>1, <2>2 DEF Teapot, Step, EgressInv, PerWorker, PolicyMade
  <2>3. CASE parsed.issues = {} /\ pc' = [pc EXCEPT ![w] = "resolve"] /\ dir' = [dir EXCEPT ![w] = made] /\ answer' = answer
    <3>1. DOMAIN d = Fields /\ Fit(d.proxy)
      BY <2>1, <2>3, ParsedProxy DEF Fit, PolicyMade
    <3> HIDE DEF d
    <3>2. DOMAIN made = Fields /\ made.proxy = d.proxy
      <4> DEFINE e == WithProfile(d)
                 f == WithMatch(e, r.ua)
      <4>1. DOMAIN e = Fields /\ e.proxy = d.proxy
        BY <3>1, SameProxy
      <4> HIDE DEF e
      <4>2. DOMAIN f = Fields /\ f.proxy = d.proxy
        BY <4>1, SameProxy
      <4> HIDE DEF f
      <4>3. DOMAIN WithUpgrade(f, r.websocket) = Fields /\ WithUpgrade(f, r.websocket).proxy = d.proxy
        BY <4>2, SameProxy
      <4>4. QED
        BY <4>3 DEF e, f
    <3> HIDE DEF made
    <3>3. pc'[w] = "resolve" /\ DOMAIN dir'[w] = Fields /\ Fit(dir'[w].proxy)
      BY <2>3, <3>1, <3>2 DEF EgressInv, PerWorker
    <3>4. \A v \in Worker \ {w} : pc'[v] = pc[v] /\ dir'[v] = dir[v]
      BY <2>3 DEF EgressInv, PerWorker
    <3>5. PolicyMade'
      BY <1>0, <2>1 DEF PolicyMade
    <3>6. answer' = answer
      BY <2>3
    <3>7. QED
      BY <1>0, <1>1, <2>1, <3>3, <3>4, <3>5, <3>6 DEF EgressInv
  <2>4. QED
    BY <1>4, <2>2, <2>3 DEF Receive, Step
<1>5. ASSUME NEW w \in Worker, NEW r, Challenge(w, r) PROVE EgressInv'
  BY <1>0, <1>1, <1>5 DEF Challenge, Ready, server, Step, EgressInv, PerWorker, PolicyMade
<1>6. ASSUME NEW w \in Worker, Pick(w) PROVE EgressInv'
  <2>1. UNCHANGED <<stage, policy, cached, answer>> /\ pc[w] = "resolve"
    BY <1>6 DEF Pick, server
  <2>2. /\ \A v \in Worker \ {w} : pc'[v] = pc[v] /\ dir'[v] = dir[v]
        /\ DOMAIN dir'[w] = Fields /\ dir'[w].proxy = dir[w].proxy
    <3>1. DOMAIN dir[w] = Fields
      BY <2>1 DEF EgressInv
    <3>2. \A x, y : LET e == [dir[w] EXCEPT !.browser = x, !.os = y] IN DOMAIN e = Fields /\ e.proxy = dir[w].proxy
      BY <3>1, ProxyIsKnown DEF Fields
    <3>3. \/ dir' = dir
          \/ \E x, y : dir' = [dir EXCEPT ![w] = [dir[w] EXCEPT !.browser = x, !.os = y]]
      BY <1>6, Zenon DEF Pick, Give
    <3>4. \A v \in Worker \ {w} : pc'[v] = pc[v]
      BY <1>6 DEF Pick, Step, EgressInv, PerWorker
    <3>5. CASE dir' = dir
      BY <3>1, <3>4, <3>5
    <3>6. ASSUME NEW e, dir' = [dir EXCEPT ![w] = e], DOMAIN e = Fields, e.proxy = dir[w].proxy
          PROVE  /\ \A v \in Worker \ {w} : dir'[v] = dir[v]
                 /\ DOMAIN dir'[w] = Fields /\ dir'[w].proxy = dir[w].proxy
      BY <3>6 DEF EgressInv, PerWorker
    <3>7. CASE \E x, y : dir' = [dir EXCEPT ![w] = [dir[w] EXCEPT !.browser = x, !.os = y]]
      <4>1. PICK x, y : dir' = [dir EXCEPT ![w] = [dir[w] EXCEPT !.browser = x, !.os = y]]
        BY <3>7, Zenon
      <4> DEFINE e == [dir[w] EXCEPT !.browser = x, !.os = y]
      <4>2. DOMAIN e = Fields /\ e.proxy = dir[w].proxy /\ dir' = [dir EXCEPT ![w] = e]
        BY <3>2, <4>1
      <4> HIDE DEF e
      <4>3. QED
        BY <3>4, <3>6, <4>2
    <3>8. QED
      BY <3>3, <3>5, <3>7
  <2>3. QED
    BY <1>0, <1>1, <2>1, <2>2 DEF EgressInv, PolicyMade
<1>7. ASSUME NEW w \in Worker, ChooseIdentity(w) PROVE EgressInv'
  <2>1. UNCHANGED <<stage, policy, cached>> /\ pc[w] = "choose" /\ DOMAIN dir[w] = Fields
    BY <1>7 DEF ChooseIdentity, server, EgressInv
  <2>2. CASE Teapot(w, Issue("unavailable", {"os"}))
    BY <1>0, <1>1, <2>1, <2>2 DEF Teapot, Step, EgressInv, PerWorker, PolicyMade
  <2>3. ASSUME NEW d \in Resolutions(dir[w]), pc' = [pc EXCEPT ![w] = "client"], dir' = [dir EXCEPT ![w] = d], answer' = answer
        PROVE EgressInv'
    BY <1>0, <1>1, <2>1, <2>3, SameProxy DEF EgressInv, PerWorker, PolicyMade
  <2>4. QED
    BY <1>7, <2>2, <2>3, PickFinds DEF ChooseIdentity, Give, Step
<1>8. ASSUME NEW w \in Worker, GetClient(w) PROVE EgressInv'
  <2>1. UNCHANGED <<stage, policy>> /\ Fit(Spec(dir[w]).proxy)
    BY <1>8, SpecProxy DEF GetClient, server, EgressInv
  <2>2. cached # None => cached.key = Key(cached.spec)
    BY DEF EgressInv
  <2>3. cached' # None => cached'.key = Key(cached'.spec)
    BY <1>8, <2>2, GetClientEnds
  <2>4. /\ pc' = [pc EXCEPT ![w] = "done"] /\ dir' = [dir EXCEPT ![w] = None]
        /\ \E a : answer' = [answer EXCEPT ![w] = a] /\ (a.status = "served" => Fit(a.spec.proxy))
    <3>1. CASE \E a : answer' = [answer EXCEPT ![w] = a] /\ a.status \in {"teapot", "panicked"}
      BY <1>8, <3>1, GetClientEnds
    <3>2. ASSUME NEW a, answer' = [answer EXCEPT ![w] = a],
                 a.spec = Spec(dir[w]) \/ (cached # None /\ cached.key = Key(Spec(dir[w])) /\ a.spec = cached.spec)
          PROVE \E b : answer' = [answer EXCEPT ![w] = b] /\ (b.status = "served" => Fit(b.spec.proxy))
      <4>1. a.spec.proxy = Spec(dir[w]).proxy
        BY <2>2, <3>2, KeyTellsProxy
      <4>2. QED
        BY <2>1, <3>2, <4>1
    <3>3. QED
      BY <1>8, <3>1, <3>2, GetClientEnds
  <2>5. QED
    BY <1>0, <1>1, <2>1, <2>3, <2>4 DEF EgressInv, PerWorker, PolicyMade
<1>9. ASSUME NEW w \in Worker, Finish(w) PROVE EgressInv'
  BY <1>0, <1>1, <1>9 DEF Finish, Step, EgressInv, PerWorker, NoAnswer, server, PolicyMade
<1>10. QED
  BY <1>2, <1>3, <1>4, <1>5, <1>6, <1>7, <1>8, <1>9 DEF Next

LEMMA EgressInvariant == SpecOf => []EgressInv
<1>1. Init => EgressInv
  BY DEF Init, EgressInv, PerWorker, NoAnswer
<1>2. EgressInv /\ [Next]_vars => EgressInv'
  BY EgressInvStep
<1>3. QED
  BY <1>1, <1>2, PTL DEF SpecOf

(* The way out is the operator's: whatever the requests carry, and whichever     *)
(* client the cache hands out, what is served leaves through the proxy that the  *)
(* policy of NewPolicy, ProxyHosts and RequireProxy allows and demands.          *)
THEOREM EgressObeysPolicyAlways == SpecOf => []EgressObeysPolicy
<1>1. EgressInv => EgressObeysPolicy
  BY DEF EgressInv, EgressObeysPolicy, Fit, Served, SpecServed
<1>2. QED
  BY <1>1, EgressInvariant, PTL

--------------------------------------------------------------------------------
(* Types, with what they rest on: every worker has a place of its own, and the   *)
(* client is one of those that may come.                                         *)
Typed(p, r, d, a) ==
    /\ p \in {"idle", "resolve", "choose", "client", "done"}
    /\ IF p = "idle" THEN r = None ELSE r \in Requests(client.kind)
    /\ p \notin {"resolve", "choose", "client"} => d = None
    /\ p = "done" <=> a.status # "none"
    /\ a.status \in {"none", "challenge", "teapot", "panicked", "served"}

TypeInv ==
    /\ PerWorker /\ req = [w \in Worker |-> req[w]]
    /\ \E m \in Meeting : config = m[1] /\ client = m[2]
    /\ stage \in {"starting", "serving", "refused", "panicked"} /\ tunnel \in {"none", "open", "rejected"}
    /\ received \in 0..MaxRequests(client.kind)
    /\ \A w \in Worker : Typed(pc[w], req[w], dir[w], answer[w])
    /\ \A key \in DOMAIN picks : Len(key) = 2 /\ picks[key][1] # <<>>

LEMMA TypeInvAfter ==
  ASSUME TypeInv, PerWorker', config' = config, client' = client, stage' = stage, tunnel' = tunnel,
         received' \in 0..MaxRequests(client.kind), \A key \in DOMAIN picks' : Len(key) = 2 /\ picks'[key][1] # <<>>,
         NEW w \in Worker, NEW p, NEW r, NEW d, NEW a, Typed(p, r, d, a),
         pc' = [pc EXCEPT ![w] = p], req' = [req EXCEPT ![w] = r],
         dir' = [dir EXCEPT ![w] = d], answer' = [answer EXCEPT ![w] = a]
  PROVE  TypeInv'
<1>1. \A p1, r1, d1, a1 : Typed(p1, r1, d1, a1)' <=> Typed(p1, r1, d1, a1)
  BY DEF Typed
<1>2. ASSUME NEW v \in Worker PROVE Typed(pc'[v], req'[v], dir'[v], answer'[v])
  <2>1. CASE v = w
    BY <2>1 DEF TypeInv, PerWorker
  <2>2. CASE v # w
    <3>1. pc'[v] = pc[v] /\ req'[v] = req[v] /\ dir'[v] = dir[v] /\ answer'[v] = answer[v]
      BY <2>2 DEF TypeInv, PerWorker
    <3>2. QED
      BY <3>1 DEF TypeInv
  <2>3. QED
    BY <2>1, <2>2
<1>3. \A v \in Worker : Typed(pc[v], req[v], dir[v], answer[v])'
  BY <1>1, <1>2
<1>4. req' = [v \in Worker |-> req'[v]]
  BY DEF TypeInv
<1>5. QED
  BY <1>3, <1>4 DEF TypeInv

LEMMA TypeInvStep == ASSUME TypeInv, [Next]_vars PROVE TypeInv'
<1>0. PerWorker' /\ config' = config /\ client' = client
  BY PerWorkerStep DEF TypeInv, Next, vars, server, Start, Connect, Receive, Challenge, Ready, Pick,
                       ChooseIdentity, GetClient, Finish
<1>1. \A p, r, d, a : Typed(p, r, d, a)' <=> Typed(p, r, d, a)
  BY <1>0 DEF Typed
<1>2. CASE UNCHANGED vars \/ Start \/ Connect
  <2>1. UNCHANGED <<received, picks, pc, req, dir, answer>>
    BY <1>2 DEF Start, Connect, vars
  <2>2. stage' \in {"starting", "serving", "refused", "panicked"} /\ tunnel' \in {"none", "open", "rejected"}
    BY <1>2 DEF Start, Connect, vars, server, TypeInv
  <2>3. QED
    BY <1>0, <1>1, <2>1, <2>2 DEF TypeInv
<1>3. /\ \A key \in DOMAIN picks : Len(key) = 2 /\ picks[key][1] # <<>>
      /\ received \in 0..MaxRequests(client.kind)
  BY DEF TypeInv
<1>4. ASSUME NEW w \in Worker
      PROVE  /\ pc = [pc EXCEPT ![w] = pc[w]] /\ req = [req EXCEPT ![w] = req[w]]
             /\ dir = [dir EXCEPT ![w] = dir[w]] /\ answer = [answer EXCEPT ![w] = answer[w]]
             /\ Typed(pc[w], req[w], dir[w], answer[w])
  BY DEF TypeInv, PerWorker
<1>5. ASSUME NEW w \in Worker, NEW r \in Requests(client.kind), Receive(w, r) \/ Challenge(w, r) PROVE TypeInv'
  <2>1. stage' = stage /\ tunnel' = tunnel /\ picks' = picks /\ req' = [req EXCEPT ![w] = r] /\ pc[w] = "idle"
    BY <1>5 DEF Receive, Challenge, Ready, server
  <2>2. received' \in 0..MaxRequests(client.kind)
    <3>1. received < MaxRequests(client.kind) /\ received' = received + 1
      BY <1>5 DEF Receive, Challenge, Ready
    <3>2. MaxRequests(client.kind) \in Nat
      BY MaxRequestsIsNat DEF TypeInv
    <3>3. QED
      BY <1>3, <3>1, <3>2
  <2>3. dir[w] = None /\ answer[w].status = "none"
    BY <1>4, <2>1 DEF Typed
  <2>4. ASSUME NEW a, a.status \in {"challenge", "teapot"} PROVE Typed("done", r, None, a)
    BY <1>5, <2>4 DEF Typed
  <2>5. ASSUME NEW d, pc' = [pc EXCEPT ![w] = "resolve"], dir' = [dir EXCEPT ![w] = d], answer' = answer PROVE TypeInv'
    <3>1. Typed("resolve", r, d, answer[w])
      BY <1>5, <2>3 DEF Typed
    <3>2. QED
      BY <1>0, <1>3, <1>4, <2>1, <2>2, <2>5, <3>1, TypeInvAfter
  <2>6. CASE Challenge(w, r)
    <3> DEFINE a == [status |-> "challenge"]
    <3>1. /\ a.status = "challenge" /\ answer' = [answer EXCEPT ![w] = a]
          /\ pc' = [pc EXCEPT ![w] = "done"] /\ dir' = dir
      BY <2>6 DEF Challenge, Step
    <3> HIDE DEF a
    <3>2. Typed("done", r, None, a) /\ dir' = [dir EXCEPT ![w] = None]
      BY <1>4, <2>3, <2>4, <3>1
    <3>3. QED
      BY <1>0, <1>3, <2>1, <2>2, <3>1, <3>2, TypeInvAfter
  <2>7. ASSUME NEW why, Teapot(w, why) PROVE TypeInv'
    <3> DEFINE a == [status |-> "teapot", why |-> why, browser |-> Browser(w)]
    <3>1. /\ a.status = "teapot" /\ answer' = [answer EXCEPT ![w] = a]
          /\ pc' = [pc EXCEPT ![w] = "done"] /\ dir' = [dir EXCEPT ![w] = None]
      BY <2>7 DEF Teapot, Step
    <3> HIDE DEF a
    <3>2. Typed("done", r, None, a)
      BY <2>4, <3>1
    <3>3. QED
      BY <1>0, <1>3, <2>1, <2>2, <3>1, <3>2, TypeInvAfter
  <2>8. CASE Receive(w, r)
    BY <2>5, <2>7, <2>8 DEF Receive, Step
  <2>9. QED
    BY <1>5, <2>6, <2>8
<1>6. ASSUME NEW w \in Worker, Pick(w) PROVE TypeInv'
  <2>1. /\ UNCHANGED <<stage, tunnel, picks, received, req, answer>> /\ pc[w] = "resolve"
        /\ \E p \in {"client", "choose"} : \E d : pc' = [pc EXCEPT ![w] = p] /\ dir' = [dir EXCEPT ![w] = d]
    BY <1>4, <1>6 DEF Pick, Give, Step, server
  <2>2. PICK p, d : p \in {"client", "choose"} /\ pc' = [pc EXCEPT ![w] = p] /\ dir' = [dir EXCEPT ![w] = d]
    BY <2>1
  <2>3. Typed(p, req[w], d, answer[w])
    BY <1>4, <2>1, <2>2 DEF Typed
  <2>4. /\ req' = [req EXCEPT ![w] = req[w]] /\ answer' = [answer EXCEPT ![w] = answer[w]]
        /\ stage' = stage /\ tunnel' = tunnel /\ received' \in 0..MaxRequests(client.kind)
        /\ \A key \in DOMAIN picks' : Len(key) = 2 /\ picks'[key][1] # <<>>
    BY <1>3, <1>4, <2>1
  <2>5. QED
    BY <1>0, <2>2, <2>3, <2>4, TypeInvAfter
<1>7. ASSUME NEW w \in Worker, ChooseIdentity(w) PROVE TypeInv'
  <2>1. UNCHANGED <<stage, tunnel, received, req>> /\ pc[w] = "choose"
    BY <1>7 DEF ChooseIdentity, server
  <2>2. CASE Teapot(w, Issue("unavailable", {"os"})) /\ picks' = picks
    <3> DEFINE a == [status |-> "teapot", why |-> Issue("unavailable", {"os"}), browser |-> Browser(w)]
    <3>1. /\ a.status = "teapot" /\ answer' = [answer EXCEPT ![w] = a]
          /\ pc' = [pc EXCEPT ![w] = "done"] /\ dir' = [dir EXCEPT ![w] = None]
      BY <2>2 DEF Teapot, Step
    <3> HIDE DEF a
    <3>2. Typed("done", req[w], None, a)
      BY <1>4, <2>1, <3>1 DEF Typed
    <3>3. QED
      BY <1>0, <1>3, <1>4, <2>1, <2>2, <3>1, <3>2, TypeInvAfter
  <2>3. ASSUME NEW d, pc' = [pc EXCEPT ![w] = "client"], dir' = [dir EXCEPT ![w] = d], answer' = answer,
               picks' = IF client.tunnelled /\ d.browser # <<>>
                        THEN [k \in DOMAIN picks \cup {KeyOf(dir[w])} |-> IF k = KeyOf(dir[w]) THEN Identity(d) ELSE picks[k]]
                        ELSE picks
        PROVE  TypeInv'
    <3>1. Typed("client", req[w], d, answer[w])
      BY <1>4, <2>1 DEF Typed
    <3>2. Len(KeyOf(dir[w])) = 2 /\ Identity(d)[1] = d.browser
      BY DEF KeyOf, Identity
    <3>3. \A key \in DOMAIN picks' : Len(key) = 2 /\ picks'[key][1] # <<>>
      BY <1>3, <2>3, <3>2
    <3>4. /\ req' = [req EXCEPT ![w] = req[w]] /\ answer' = [answer EXCEPT ![w] = answer[w]]
          /\ stage' = stage /\ tunnel' = tunnel /\ received' \in 0..MaxRequests(client.kind)
      BY <1>3, <1>4, <2>1, <2>3
    <3>5. QED
      BY <1>0, <2>3, <3>1, <3>3, <3>4, TypeInvAfter
  <2>4. QED
    BY <1>7, <2>2, <2>3, PickFinds DEF ChooseIdentity, Give, Step
<1>8. ASSUME NEW w \in Worker, GetClient(w) PROVE TypeInv'
  <2>1. UNCHANGED <<stage, tunnel, picks, received, req>> /\ pc[w] = "client"
    BY <1>8 DEF GetClient, server
  <2>2. PICK a : a.status \in {"teapot", "panicked", "served"} /\ answer' = [answer EXCEPT ![w] = a]
    BY <1>8, GetClientEnds
  <2>3. pc' = [pc EXCEPT ![w] = "done"] /\ dir' = [dir EXCEPT ![w] = None]
    BY <1>8, GetClientEnds
  <2>4. Typed("done", req[w], None, a)
    BY <1>4, <2>1, <2>2 DEF Typed
  <2>5. QED
    BY <1>0, <1>3, <1>4, <2>1, <2>2, <2>3, <2>4, TypeInvAfter
<1>9. ASSUME NEW w \in Worker, Finish(w) PROVE TypeInv'
  <2>1. /\ UNCHANGED <<stage, tunnel, picks, received, dir>> /\ pc[w] = "done"
        /\ pc' = [pc EXCEPT ![w] = "idle"] /\ req' = [req EXCEPT ![w] = None]
        /\ answer' = [answer EXCEPT ![w] = NoAnswer]
    BY <1>9 DEF Finish, Step, server
  <2>2. Typed("idle", None, dir[w], NoAnswer)
    BY <1>4, <2>1 DEF Typed, NoAnswer
  <2>3. QED
    BY <1>0, <1>3, <1>4, <2>1, <2>2, TypeInvAfter
<1>10. QED
  BY <1>2, <1>5, <1>6, <1>7, <1>8, <1>9 DEF Next

LEMMA TypeInvariant == SpecOf => []TypeInv
<1>1. Init => TypeInv
  BY MaxRequestsIsNat DEF Init, TypeInv, PerWorker, Typed, NoAnswer
<1>2. TypeInv /\ [Next]_vars => TypeInv'
  BY TypeInvStep
<1>3. QED
  BY <1>1, <1>2, PTL DEF SpecOf

(* Type correctness: each goroutine has a request of its connection from its     *)
(* receipt to finish, a whole directive until the client is there, and an answer *)
(* just when it is done; the tunnel remembers identities, under pairs of lists.  *)
THEOREM TypesHold == SpecOf => []TypeOK
<1>1. TypeInv /\ EgressInv => TypeOK
  BY DEF TypeInv, Typed, EgressInv, Fields, TypeOK
<1>2. QED
  BY <1>1, TypeInvariant, EgressInvariant, PTL

--------------------------------------------------------------------------------
(* What the connection gave is what the tunnel remembers, and a worker chooses   *)
(* only where nothing is remembered.                                             *)
PicksInv ==
    /\ client.tunnelled
    /\ \A k \in DOMAIN picks : picks[k] = <<picks[k][1], picks[k][2]>>
    /\ \A g \in given : g.lists \in DOMAIN picks /\ picks[g.lists] = g.got
    /\ \A w \in Worker : pc[w] = "choose" => KeyOf(dir[w]) \notin DOMAIN picks

(* One stream at a time, and nothing comes between the lookup and the choice.    *)
InOrder == /\ \A m \in Meeting : m[2].tunnelled
           /\ \A v, w \in Worker : v = w

LEMMA PicksInvStep == ASSUME InOrder, EgressInv, PicksInv, [Next]_vars PROVE PicksInv'
<1>0. client'.tunnelled
  BY DEF PicksInv, Next, vars, server, Start, Connect, Receive, Challenge, Ready, Pick, ChooseIdentity, GetClient, Finish
<1>1. CASE UNCHANGED vars \/ Start \/ Connect
  BY <1>0, <1>1 DEF Start, Connect, vars, server, PicksInv, KeyOf
<1>2. ASSUME NEW w \in Worker,
             \/ \E r : Receive(w, r) \/ Challenge(w, r)
             \/ GetClient(w)
             \/ Finish(w)
      PROVE  PicksInv'
  <2>1. UNCHANGED <<picks, given>>
    BY <1>2 DEF Receive, Challenge, Ready, GetClient, Finish
  <2>2. pc'[w] # "choose"
    BY <1>2 DEF Receive, Challenge, Step, Teapot, GetClient, Serve, Panic, Finish, EgressInv, PerWorker
  <2>3. QED
    BY <1>0, <2>1, <2>2 DEF InOrder, PicksInv
<1>3. ASSUME NEW w \in Worker, Pick(w) PROVE PicksInv'
  <2> DEFINE key == KeyOf(dir[w])
             d == [dir[w] EXCEPT !.browser = picks[key][1], !.os = picks[key][2]]
  <2>1. picks' = picks /\ pc[w] = "resolve"
    BY <1>3 DEF Pick
  <2>2. CASE key \in DOMAIN picks
    <3>1. pc'[w] = "client" /\ Give(w, key, d)
      BY <1>3, <2>2, Zenon DEF Pick, Step, Remembered, PicksInv, EgressInv, PerWorker
    <3>2. Identity(d) = picks[key]
      <4>1. "browser" \in DOMAIN dir[w] /\ "os" \in DOMAIN dir[w]
        BY <2>1 DEF EgressInv, Fields, Known, ListKeys
      <4>2. d.browser = picks[key][1] /\ d.os = picks[key][2]
        BY <4>1
      <4>3. QED
        BY <2>2, <4>2 DEF Identity, PicksInv
    <3> HIDE DEF d
    <3>3. \A g \in given' : g \in given \/ (g.lists = key /\ g.got = picks[key])
      BY <3>1, <3>2 DEF Give
    <3>4. QED
      BY <1>0, <2>1, <2>2, <3>1, <3>3 DEF PicksInv, InOrder
  <2>3. CASE key \notin DOMAIN picks
    <3>1. ~Remembered(key)
      BY <2>3 DEF Remembered
    <3>2. UNCHANGED <<dir, given>>
      BY <1>3, <3>1, Zenon DEF Pick
    <3>3. QED
      BY <1>0, <2>1, <2>3, <3>2 DEF PicksInv, InOrder, KeyOf
  <2>4. QED
    BY <2>2, <2>3
<1>4. ASSUME NEW w \in Worker, ChooseIdentity(w) PROVE PicksInv'
  <2> DEFINE key == KeyOf(dir[w])
  <2>1. pc'[w] # "choose" /\ key \notin DOMAIN picks
    BY <1>4, PickFinds DEF ChooseIdentity, Step, Teapot, PicksInv, EgressInv, PerWorker
  <2>2. CASE UNCHANGED <<picks, given>>
    BY <1>0, <2>1, <2>2 DEF PicksInv, InOrder
  <2>3. ASSUME NEW d, Give(w, key, d), d.browser # <<>>,
               picks' = [k \in DOMAIN picks \cup {key} |-> IF k = key THEN Identity(d) ELSE picks[k]]
        PROVE PicksInv'
    <3>1. /\ DOMAIN picks' = DOMAIN picks \cup {key} /\ picks'[key] = Identity(d)
          /\ \A k \in DOMAIN picks : picks'[k] = picks[k]
      BY <2>1, <2>3
    <3>2. \A g \in given' : g \in given \/ (g.lists = key /\ g.got = Identity(d))
      BY <2>3 DEF Give
    <3>3. \A g \in given' : g.lists \in DOMAIN picks' /\ picks'[g.lists] = g.got
      BY <3>1, <3>2 DEF PicksInv
    <3>4. \A k \in DOMAIN picks' : picks'[k] = <<picks'[k][1], picks'[k][2]>>
      BY <3>1 DEF PicksInv, Identity
    <3>5. QED
      BY <1>0, <2>1, <3>3, <3>4 DEF PicksInv, InOrder
  <2>4. QED
    <3>1. CASE UNCHANGED <<picks, given>>
      BY <2>2, <3>1
    <3>2. ASSUME NEW d, Give(w, key, d),
                 picks' = IF client.tunnelled /\ d.browser # <<>>
                          THEN [k \in DOMAIN picks \cup {key} |-> IF k = key THEN Identity(d) ELSE picks[k]]
                          ELSE picks
          PROVE PicksInv'
      BY <2>2, <2>3, <3>2, Zenon DEF Give, PicksInv
    <3>3. QED
      BY <1>4, <3>1, <3>2, Zenon DEF ChooseIdentity
<1>5. QED
  BY <1>1, <1>2, <1>3, <1>4 DEF Next

(* "A list is chosen from once per connection" holds of a tunnel whose requests  *)
(* come one at a time, as over HTTP/1.1: the two sections of tunnel.mu are then  *)
(* as good as one.                                                               *)
THEOREM ChosenOnceInOrder == ASSUME InOrder PROVE SpecOf => []ChosenOnce
<1>1. Init => PicksInv
  BY DEF InOrder, Init, PicksInv
<1>2. PicksInv /\ EgressInv /\ [Next]_vars => PicksInv'
  BY PicksInvStep
<1>3. PicksInv => ChosenOnce
  BY DEF PicksInv, ChosenOnce
<1>4. QED
  BY <1>1, <1>2, <1>3, EgressInvariant, PTL DEF SpecOf
================================================================================
