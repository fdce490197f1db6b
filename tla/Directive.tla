------------------------------- MODULE Directive -------------------------------
(* Package directive and the identity tables of package impersonate: how the     *)
(* X-Tip-* headers of a request and the operator's policy become a Directive,    *)
(* how a User-Agent is placed, and how a Directive becomes the Spec of a client. *)
(* Pure operators; OnRequest strings them together.                              *)
(*                                                                               *)
(* A header map is a function from directive names to the lines sent under the   *)
(* name. A line of a list header is a sequence of tokens, a line of a key-value   *)
(* header a sequence of [name, value] pairs, a line of any other header a value. *)
EXTENDS Naturals, Sequences, FiniteSets, SequencesExt

CONSTANTS None,      \* the zero value of a field
          Blank,     \* a value of spaces only
          Malformed, \* a value the schema of no directive accepts
          Custom,    \* a DNS-over-TLS provider given by name and addresses
          Stale      \* a well-formed profile id that is not in the catalogue

ASSUME NoneIsNoVersion == None \notin {"1", "2", "3"}

(* --- the identities: profiles.go, catalogue.go, infer.go --- *)

AllOses == {"windows", "macos", "linux", "android", "ios"}

Families == [chrome |-> AllOses, firefox |-> AllOses, edge |-> AllOses \ {"ios"}]

Browsers == DOMAIN Families

\* An id is a digest of its pair, so the pair stands for it.
Profiles == {[family |-> b, platform |-> o] : b \in Browsers, o \in AllOses}
              \ {[family |-> "edge", platform |-> "ios"]}

Lookup(id) == id \in Profiles

DetectionOrder == <<"edge", "firefox", "chrome">>

PlatformOrder == <<"android", "ios", "windows", "macos", "linux">>

FirstIn(order, found) == order[CHOOSE i \in DOMAIN order :
    order[i] \in found /\ \A j \in 1..(i - 1) : order[j] \notin found]

Platform(tokens) == IF tokens = {} THEN None ELSE FirstIn(PlatformOrder, tokens)

Closest(browser, os) ==
    IF os # None /\ os \notin Families[browser]
    THEN [browser |-> "chrome", os |-> os]
    ELSE [browser |-> browser, os |-> os]

(* A User-Agent is told by the catalogue entry it equals, if any, the families   *)
(* whose markers it contains and the platforms its tokens name.                  *)
Infer(ua) ==
    IF ua.exact # None THEN [browser |-> ua.exact.family, os |-> ua.exact.platform]
    ELSE IF ua.marks # {} THEN Closest(FirstIn(DetectionOrder, ua.marks), Platform(ua.tokens))
    ELSE [browser |-> None, os |-> None]

(* --- parsing: parse.go, schema.go --- *)

ListKeys == {"browser", "os", "keep"}
Flags    == {"match", "securetls", "disablekeepalive", "h2c"}
Scalars  == Flags \cup {"ja", "forcehttp", "proxy", "timeout", "dns", "dnsovertls", "interfaceaddr", "scheme", "profile"}
Trio     == {"browser", "os", "match"}

KvKeys ==
    [http2settings |-> {"headertablesize", "enablepush", "maxconcurrentstreams", "initialwindowsize", "maxframesize",
                        "maxheaderlistsize", "norfc7540priorities", "connectionflow", "initialstreamid"},
     http3settings |-> {"qpackmaxtablecapacity", "maxfieldsectionsize", "qpackblockedstreams", "enableconnectprotocol",
                        "settingsh3datagram", "h3datagram", "enablewebtransport", "grease"}]

Known == ListKeys \cup Scalars \cup DOMAIN KvKeys

PairNames(lines) == [i \in DOMAIN FlattenSeq(lines) |-> FlattenSeq(lines)[i].name]

WellShaped(key, lines) ==
    CASE key \in ListKeys      -> FlattenSeq(lines) # <<Blank>>
      [] key \in DOMAIN KvKeys -> /\ FlattenSeq(lines) # <<>> /\ Range(PairNames(lines)) \subseteq KvKeys[key]
                                 /\ IsInjective(PairNames(lines))
      [] OTHER                 -> Len(lines) = 1 /\ lines[1] # Blank

FaultShaped(key, lines) ==
    CASE key \in ListKeys      -> FlattenSeq(lines)
      [] key \in DOMAIN KvKeys -> [order |-> PairNames(lines), values |-> <<>>]
      [] OTHER                 -> lines[1]

(* parsePairs keeps the values by name and the order in which they were written. *)
Shaped(key, lines) ==
    CASE key \in ListKeys      -> FlattenSeq(lines)
      [] key \in DOMAIN KvKeys ->
           [order  |-> PairNames(lines),
            values |-> [n \in Range(PairNames(lines)) |->
                          (CHOOSE p \in Range(FlattenSeq(lines)) : p.name = n).value]]
      [] OTHER                 -> lines[1]

(* The presets that surf has, by the names that X-Tip-Ja and X-Tip-DnsOverTls    *)
(* accept; Custom is a name with addresses of its own.                           *)
JaPresets ==
    {"android", "chrome", "chrome58", "chrome62", "chrome70", "chrome72", "chrome83", "chrome87", "chrome96",
     "chrome100", "chrome102", "chrome106", "chrome120", "chrome120pq", "chrome152", "edge", "edge85", "edge106",
     "firefox", "firefox55", "firefox56", "firefox63", "firefox65", "firefox99", "firefox102", "firefox105",
     "firefox120", "firefox148", "ios", "ios11", "ios12", "ios13", "ios14", "randomized", "randomizedalpn",
     "randomizednoalpn", "safari"}

DotProviders ==
    {"adguard", "google", "cloudflare", "quad9", "switch", "cirashield", "ali", "quad101", "sb", "forge", "libredns"}

Accepts(key, value) ==
    CASE key = "browser"   -> \A i \in DOMAIN value : value[i] \in Browsers \cup {"random"}
      [] key = "os"        -> \A i \in DOMAIN value : value[i] \in AllOses \cup {"random"}
      [] key \in Flags     -> value \in {"true", "false"}
      [] key = "forcehttp" -> value \in {"1", "2", "3"}
      [] key = "ja"        -> value \in JaPresets
      [] key = "dnsovertls" -> value \in DotProviders \cup {Custom}
      [] key = "scheme"    -> value = "https"
      [] key = "keep"      -> Blank \notin Range(value)
      [] key \in DOMAIN KvKeys -> Malformed \notin Range(value.values)
      [] OTHER             -> value # Malformed

(* A default gives way to the same directive in the request, and to one from the *)
(* other side of the exclusion between Profile and Browser, Os, Match.           *)
Displaced(asked, key) ==
    \/ key \in asked
    \/ key \in Trio /\ "profile" \in asked
    \/ key = "profile" /\ asked \cap Trio # {}

FieldOf(in, key, zero) == IF key \in DOMAIN in THEN in[key] ELSE zero

\* Http2 has no field for the order, Http3 has.
Decode(in, asked) ==
    [k \in Known \cup {"fromRequest"} |->
        IF k = "fromRequest" THEN asked
        ELSE IF k \in Flags THEN FieldOf(in, k, "false") = "true"
        ELSE IF k = "http2settings" /\ k \in DOMAIN in THEN in[k].values
        ELSE FieldOf(in, k, IF k \in ListKeys THEN <<>> ELSE None)]

Combined(d) == d.profile # None /\ (d.browser # <<>> \/ d.os # <<>> \/ d.match)

Issue(why, keys) == {[why |-> why, path |-> k] : k \in keys}

SchemaIssues(in) ==
    LET bad == {k \in DOMAIN in : ~Accepts(k, in[k])}
    IN  Issue("value", bad)
          \cup (IF bad = {} /\ Combined(Decode(in, {})) THEN Issue("combined", {"profile"}) ELSE {})

(* --- the policy: policy.go --- *)

IsWildcard(host) == Len(host) > 1 /\ host[1] = "*"

MatchesHost(pattern, url) ==
    /\ pattern.port # None => pattern.port = url.port
    /\ \/ pattern.host = url.host
       \/ /\ IsWildcard(pattern.host)
          /\ Len(url.host) >= Len(pattern.host)
          /\ IsSuffix(Tail(pattern.host), url.host)

ProxyAllowed(url, hosts) == hosts = {} \/ \E pattern \in hosts : MatchesHost(pattern, url)

FaultDenied(p, key) == FALSE

Denied(p, key) == key \in p.deny

ProxyIssues(d, p) ==
    (IF d.proxy = None /\ p.requireProxy THEN Issue("required", {"proxy"}) ELSE {})
      \cup (IF d.proxy # None /\ ~ProxyAllowed(d.proxy, p.proxyHosts)
            THEN Issue("host", {"proxy"}) ELSE {})

Parse(h, p) ==
    LET allowed  == {k \in DOMAIN h \cap Known : ~Denied(p, k)}
        asked    == {k \in allowed : WellShaped(k, h[k])}
        kept     == {k \in DOMAIN p.defaults : ~Displaced(asked, k)}
        in       == [k \in asked \cup kept |-> IF k \in asked THEN Shaped(k, h[k]) ELSE p.defaults[k]]
        d        == Decode(in, asked)
        rejected == Issue("unknown", DOMAIN h \ Known)
                      \cup Issue("denied", (DOMAIN h \cap Known) \ allowed)
                      \cup Issue("shape", allowed \ asked) \cup SchemaIssues(in)
    IN  [directive |-> d, issues |-> IF rejected # {} THEN rejected ELSE ProxyIssues(d, p)]

NoPolicy == [defaults |-> <<>>, deny |-> {}, proxyHosts |-> {}, requireProxy |-> FALSE]

NewPolicyOk(defaults, deny) == deny \subseteq Known /\ Parse(defaults, NoPolicy).issues = {}

NewPolicy(defaults, deny) ==
    [NoPolicy EXCEPT !.defaults = [k \in DOMAIN defaults |-> Shaped(k, defaults[k])], !.deny = deny]

ProxyHostsOk(p, patterns) ==
    "proxy" \in DOMAIN p.defaults => ProxyAllowed(p.defaults["proxy"], patterns)

FaultRequireProxyOk(p) == TRUE

RequireProxyOk(p) == "proxy" \in p.deny => "proxy" \in DOMAIN p.defaults

(* --- choosing one identity: directive.go --- *)

Choose(want, available) ==
    IF want = <<>> \/ "random" \in Range(want) THEN available ELSE Range(want) \cap available

FaultPool(d) == Choose(d.browser, Browsers)

Pool(d) == {b \in Choose(d.browser, Browsers) : Choose(d.os, Families[b]) # {}}

ResolveOk(d) == d.browser = <<>> \/ Pool(d) # {}

\* Every directive that Resolve can return, over the values of its random pick.
Resolutions(d) ==
    IF d.browser = <<>> THEN {d}
    ELSE UNION {IF d.os = <<>> THEN {[d EXCEPT !.browser = <<b>>]}
                ELSE {[d EXCEPT !.browser = <<b>>, !.os = <<o>>] : o \in Choose(d.os, Families[b])}
                  : b \in Pool(d)}

\* The random pick, of a browser or of an OS for it, would be one of none: pick(0) panics.
PicksFromNone(d) ==
    d.browser # <<>> /\ (Pool(d) = {} \/ (d.os # <<>> /\ \E b \in Pool(d) : Choose(d.os, Families[b]) = {}))

SpecFields == Known \ {"timeout", "scheme", "keep", "match", "profile"}

Spec(d) ==
    [k \in SpecFields |->
        CASE k = "browser" -> IF d.browser = <<>> THEN None ELSE d.browser[1]
          [] k = "os"      -> IF d.browser = <<>> \/ d.os = <<>> THEN None ELSE d.os[1]
          [] OTHER         -> d[k]]

Given(s, field) == IF field \in Flags THEN s[field] ELSE s[field] # None

FaultKey(s) == [f \in {x \in SpecFields \ {"proxy"} : Given(s, x)} |-> s[f]]

\* Spec.Key: the JSON of the fields that are not empty.
Key(s) == [f \in {x \in SpecFields : Given(s, x)} |-> s[f]]
================================================================================
