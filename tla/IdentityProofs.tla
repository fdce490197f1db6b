----------------------------- MODULE IdentityProofs -----------------------------
(* Proofs about OnRequest, for every configuration, client and set of requests:  *)
(* what a request asks for is what it is served with, and what the directives    *)
(* let through can be built.                                                     *)
EXTENDS OnRequestProofs

(* Parse, when nothing is rejected: every header is asked for, and its value and *)
(* those of the defaults that are kept are accepted.                             *)
In(h, p) ==
    [k \in DOMAIN h \cup {x \in DOMAIN p.defaults : ~Displaced(DOMAIN h, x)} |->
        IF k \in DOMAIN h THEN Shaped(k, h[k]) ELSE p.defaults[k]]

LEMMA NoIssue == ASSUME NEW why, NEW keys, Issue(why, keys) = {} PROVE keys = {}
BY NamedIssue

LEMMA IssueWhy == ASSUME NEW why, NEW keys, NEW i \in Issue(why, keys) PROVE i.why = why
<1>1. PICK k \in keys : i = [why |-> why, path |-> k]
  BY DEF Issue
<1>2. QED
  BY <1>1

LEMMA ParsedIn ==
  ASSUME NEW h, NEW p, Parse(h, p).issues = {}
  PROVE  /\ Parse(h, p).directive = Decode(In(h, p), DOMAIN h)
         /\ DOMAIN h \subseteq Known
         /\ \A k \in DOMAIN In(h, p) : Accepts(k, In(h, p)[k])
         /\ ~Combined(Decode(In(h, p), {}))
<1> DEFINE allowed  == {k \in DOMAIN h \cap Known : ~Denied(p, k)}
           asked    == {k \in allowed : WellShaped(k, h[k])}
           kept     == {k \in DOMAIN p.defaults : ~Displaced(asked, k)}
           in       == [k \in asked \cup kept |-> IF k \in asked THEN Shaped(k, h[k]) ELSE p.defaults[k]]
           rejected == Issue("unknown", DOMAIN h \ Known)
                         \cup Issue("denied", (DOMAIN h \cap Known) \ allowed)
                         \cup Issue("shape", allowed \ asked) \cup SchemaIssues(in)
<1>1. Parse(h, p).directive = Decode(in, asked) /\ rejected = {}
  BY DEF Parse
<1>2. /\ Issue("unknown", DOMAIN h \ Known) = {} /\ Issue("denied", (DOMAIN h \cap Known) \ allowed) = {}
      /\ Issue("shape", allowed \ asked) = {} /\ SchemaIssues(in) = {}
  BY <1>1
<1>3. DOMAIN h \subseteq Known /\ asked = DOMAIN h
  <2>1. DOMAIN h \ Known = {} /\ (DOMAIN h \cap Known) \ allowed = {} /\ allowed \ asked = {}
    BY <1>2, NoIssue
  <2> HIDE DEF allowed
  <2>2. asked \subseteq allowed
    OBVIOUS
  <2> HIDE DEF asked
  <2>3. allowed \subseteq DOMAIN h
    BY DEF allowed
  <2>4. QED
    BY <2>1, <2>2, <2>3
<1>4. in = In(h, p)
  BY <1>3 DEF In
<1> HIDE DEF in, asked
<1>5. {k \in DOMAIN in : ~Accepts(k, in[k])} = {} /\ ~Combined(Decode(in, {}))
  <2> DEFINE bad == {k \in DOMAIN in : ~Accepts(k, in[k])}
  <2>1. Issue("value", bad) = {}
    BY <1>2 DEF SchemaIssues
  <2>2. bad = {}
    BY <2>1, NoIssue
  <2>3. Issue("combined", {"profile"}) # {}
    BY NamedIssue
  <2>4. ~Combined(Decode(in, {}))
    BY <1>2, <2>2, <2>3, Zenon DEF SchemaIssues
  <2>5. QED
    BY <2>2, <2>4
<1>6. QED
  BY <1>1, <1>3, <1>4, <1>5

(* The fields of a directive that properties are about.                          *)
LEMMA DecodedFields ==
  ASSUME NEW in, NEW asked
  PROVE  LET d == Decode(in, asked)
         IN  /\ DOMAIN d = Fields /\ d.fromRequest = asked
             /\ d.match = (FieldOf(in, "match", "false") = "true")
             /\ \A k \in {"browser", "os"} : d[k] = FieldOf(in, k, <<>>)
             /\ \A k \in Plain \cup {"profile", "http3settings"} : d[k] = FieldOf(in, k, None)
<1> DEFINE d == Decode(in, asked)
<1>1. d = [k \in Fields |->
            IF k = "fromRequest" THEN asked
            ELSE IF k \in Flags THEN FieldOf(in, k, "false") = "true"
            ELSE IF k = "http2settings" /\ k \in DOMAIN in THEN in[k].values
            ELSE FieldOf(in, k, IF k \in ListKeys THEN <<>> ELSE None)]
  BY DEF Decode, Fields
<1> HIDE DEF d
<1>2. /\ "match" \in Flags /\ "match" \in Fields /\ "match" # "fromRequest"
      /\ \A k \in {"browser", "os"} : k \in Fields /\ k \in ListKeys /\ k \notin Flags /\ k \notin {"fromRequest", "http2settings"}
      /\ \A k \in Plain \cup {"profile", "http3settings"} :
           k \in Fields /\ k \notin ListKeys /\ k \notin Flags /\ k \notin {"fromRequest", "http2settings"}
  BY DEF Fields, Known, Scalars, Flags, ListKeys, KvKeys, Plain
<1>3. QED
  <2>1. DOMAIN d = Fields
    BY <1>1
  <2>2. d.fromRequest = asked
    BY <1>1 DEF Fields
  <2>3. d.match = (FieldOf(in, "match", "false") = "true")
    BY <1>1, <1>2, Zenon
  <2>4. \A k \in {"browser", "os"} : d[k] = FieldOf(in, k, <<>>)
    BY <1>1, <1>2
  <2>5. \A k \in Plain \cup {"profile", "http3settings"} : d[k] = FieldOf(in, k, None)
    BY <1>1, <1>2
  <2>6. QED
    BY <2>1, <2>2, <2>3, <2>4, <2>5 DEF d

--------------------------------------------------------------------------------
(* What a request with the headers h asks for, and what it has once an identity  *)
(* is chosen for it.                                                             *)
Wanted(h, websocket, k) ==
    IF k \in DOMAIN h THEN {h[k][1]}
    ELSE IF k \in DOMAIN config.defaults THEN {config.defaults[k][1]}
    ELSE {None} \cup (IF k = "forcehttp" /\ websocket THEN {"1"} ELSE {})

Written(h) ==
    \A k \in DOMAIN h : /\ k \in ListKeys => FlattenSeq(h[k]) # <<>>
                        /\ k \in Scalars => h[k][1] # None

\* The fields that a request may set and no identity touches, and what Build looks up of them.
Good(h, websocket, d) ==
    /\ DOMAIN d = Fields
    /\ \A k \in Plain : d[k] \in Wanted(h, websocket, k)
    /\ d.ja = None \/ d.ja \in BuildPresets
    /\ d.dnsovertls \in BuildProviders \cup {None, Custom}
    /\ d.http3settings # None => Range(d.http3settings.order) \subseteq DOMAIN d.http3settings.values

Wants(h, d) ==
    /\ "browser" \in DOMAIN h => d.browser = FlattenSeq(h["browser"]) /\ d.browser # <<>>
    /\ "os" \in DOMAIN h => d.os = FlattenSeq(h["os"]) /\ d.os # <<>>
    /\ "profile" \in DOMAIN h => /\ h["profile"][1] \in Profiles
                                 /\ d.browser = <<h["profile"][1].family>> /\ d.os = <<h["profile"][1].platform>>

Has(h, d) ==
    /\ d.browser # <<>> => /\ d.browser[1] \in Browsers
                           /\ d.os # <<>> => d.os[1] \in Families[d.browser[1]]
    /\ "browser" \in DOMAIN h => d.browser # <<>> /\ Names(h, "browser", d.browser[1])
    /\ ("os" \in DOMAIN h /\ d.browser # <<>>) => d.os # <<>> /\ Names(h, "os", d.os[1])
    /\ "profile" \in DOMAIN h => /\ d.browser # <<>> /\ d.browser[1] = h["profile"][1].family
                                 /\ d.os # <<>> /\ d.os[1] = h["profile"][1].platform

Defaulted == policy.defaults = [k \in DOMAIN config.defaults |-> Shaped(k, config.defaults[k])]

LEMMA TablesAgree == JaPresets \subseteq BuildPresets /\ DotProviders \subseteq BuildProviders
BY DEF JaPresets, BuildPresets, DotProviders, BuildProviders

LEMMA ShapedFields ==
  ASSUME NEW l
  PROVE  /\ \A k \in Plain \cup {"profile"} : Shaped(k, l) = l[1]
         /\ \A k \in {"browser", "os"} : Shaped(k, l) = FlattenSeq(l)
         /\ Range(Shaped("http3settings", l).order) = DOMAIN Shaped("http3settings", l).values
<1>1. \A k \in Plain \cup {"profile"} : k \notin ListKeys /\ k \notin DOMAIN KvKeys
  BY DEF Plain, ListKeys, KvKeys
<1>2. \A k \in {"browser", "os"} : k \in ListKeys
  BY DEF ListKeys
<1>3. "http3settings" \in DOMAIN KvKeys /\ "http3settings" \notin ListKeys
  BY DEF KvKeys, ListKeys
<1>4. Shaped("http3settings", l).order = PairNames(l) /\ DOMAIN Shaped("http3settings", l).values = Range(PairNames(l))
  <2> DEFINE values == [n \in Range(PairNames(l)) |-> (CHOOSE p \in Range(FlattenSeq(l)) : p.name = n).value]
  <2>1. Shaped("http3settings", l) = [order |-> PairNames(l), values |-> values]
    BY <1>3 DEF Shaped
  <2>2. DOMAIN values = Range(PairNames(l))
    OBVIOUS
  <2> HIDE DEF values
  <2>3. QED
    BY <2>1, <2>2
<1>5. ASSUME NEW k, k \notin ListKeys, k \notin DOMAIN KvKeys PROVE Shaped(k, l) = l[1]
  BY <1>5 DEF Shaped
<1>6. ASSUME NEW k \in ListKeys PROVE Shaped(k, l) = FlattenSeq(l)
  BY <1>6 DEF Shaped, ListKeys, KvKeys
<1>7. QED
  BY <1>1, <1>2, <1>4, <1>5, <1>6

LEMMA AcceptedFields ==
  ASSUME NEW v
  PROVE  /\ Accepts("ja", v) => v \in BuildPresets
         /\ Accepts("dnsovertls", v) => v \in BuildProviders \cup {Custom}
         /\ Accepts("forcehttp", v) => v # None
<1>1. Accepts("ja", v) => v \in JaPresets
  BY DEF Accepts, Flags, KvKeys
<1>2. Accepts("dnsovertls", v) => v \in DotProviders \cup {Custom}
  BY DEF Accepts, Flags, KvKeys
<1>3. Accepts("forcehttp", v) => v \in {"1", "2", "3"}
  BY DEF Accepts, Flags, KvKeys
<1>4. QED
  BY <1>1, <1>2, <1>3, TablesAgree, NoneIsNoVersion

(* What Parse makes of headers that are written and pass.                        *)
LEMMA ParsedWants ==
  ASSUME NEW h, Written(h), Defaulted, Parse(h, policy).issues = {}
  PROVE  LET d == Parse(h, policy).directive
         IN  /\ DOMAIN d = Fields /\ d.fromRequest = DOMAIN h
             /\ \A k \in Plain : d[k] \in Wanted(h, FALSE, k)
             /\ "forcehttp" \in DOMAIN h \cup DOMAIN config.defaults => d.forcehttp # None
             /\ d.ja = None \/ d.ja \in BuildPresets
             /\ d.dnsovertls \in BuildProviders \cup {None, Custom}
             /\ d.http3settings # None => Range(d.http3settings.order) \subseteq DOMAIN d.http3settings.values
             /\ "browser" \in DOMAIN h => d.browser = FlattenSeq(h["browser"]) /\ d.browser # <<>> /\ d.profile = None
             /\ "os" \in DOMAIN h => d.os = FlattenSeq(h["os"]) /\ d.os # <<>> /\ d.profile = None
             /\ "profile" \in DOMAIN h => d.profile = h["profile"][1] /\ d.profile # None
             /\ d.profile # None => d.browser = <<>> /\ d.os = <<>> /\ ~d.match
<1> DEFINE in == In(h, policy)
           d  == Parse(h, policy).directive
<1>1. /\ d = Decode(in, DOMAIN h) /\ \A k \in DOMAIN in : Accepts(k, in[k])
      /\ ~Combined(Decode(in, {}))
  BY ParsedIn
<1>2. /\ DOMAIN d = Fields /\ d.fromRequest = DOMAIN h
      /\ \A k \in {"browser", "os"} : d[k] = FieldOf(in, k, <<>>)
      /\ \A k \in Plain \cup {"profile", "http3settings"} : d[k] = FieldOf(in, k, None)
  BY <1>1, DecodedFields
<1>3. d.profile # None => d.browser = <<>> /\ d.os = <<>> /\ ~d.match
  <2> DEFINE e == Decode(in, {})
  <2>1. /\ e.match = (FieldOf(in, "match", "false") = "true")
        /\ \A k \in {"browser", "os"} : e[k] = FieldOf(in, k, <<>>)
        /\ e.profile = FieldOf(in, "profile", None)
    BY DecodedFields
  <2>2. d.match = (FieldOf(in, "match", "false") = "true") /\ d.profile = FieldOf(in, "profile", None)
    BY <1>1, DecodedFields
  <2>3. d.match = e.match /\ d.browser = e.browser /\ d.os = e.os /\ d.profile = e.profile
    BY <1>2, <2>1, <2>2
  <2> HIDE DEF e
  <2>4. e.profile # None => e.browser = <<>> /\ e.os = <<>> /\ ~e.match
    BY <1>1, Zenon DEF Combined, e
  <2> HIDE DEF d
  <2>5. QED
    BY <2>3, <2>4, Zenon
<1> HIDE DEF d
<1>4. /\ \A k \in DOMAIN h : k \in DOMAIN in /\ in[k] = Shaped(k, h[k])
      /\ \A k \in DOMAIN in : k \notin DOMAIN h => k \in DOMAIN config.defaults /\ in[k] = Shaped(k, config.defaults[k])
      /\ \A k \in Plain : k \in DOMAIN config.defaults => k \in DOMAIN in
  <2>1. DOMAIN policy.defaults = DOMAIN config.defaults
        /\ \A k \in DOMAIN config.defaults : policy.defaults[k] = Shaped(k, config.defaults[k])
    BY DEF Defaulted
  <2>2. \A k \in Plain : k \notin DOMAIN h => ~Displaced(DOMAIN h, k)
    BY DEF Plain, Displaced, Trio
  <2>3. QED
    BY <2>1, <2>2 DEF In
<1> HIDE DEF in
<1>5. \A k \in Plain : d[k] \in Wanted(h, FALSE, k)
  <2> SUFFICES ASSUME NEW k \in Plain PROVE d[k] \in Wanted(h, FALSE, k)
    OBVIOUS
  <2>1. d[k] = FieldOf(in, k, None) /\ \A l : Shaped(k, l) = l[1]
    BY <1>2, ShapedFields
  <2>2. CASE k \in DOMAIN h
    BY <1>4, <2>1, <2>2 DEF FieldOf, Wanted
  <2>3. CASE k \notin DOMAIN h /\ k \in DOMAIN config.defaults
    BY <1>4, <2>1, <2>3 DEF FieldOf, Wanted
  <2>4. CASE k \notin DOMAIN h /\ k \notin DOMAIN config.defaults
    BY <1>4, <2>1, <2>4 DEF FieldOf, Wanted
  <2>5. QED
    BY <2>2, <2>3, <2>4
<1>6. "forcehttp" \in DOMAIN h \cup DOMAIN config.defaults => d.forcehttp # None
  BY <1>1, <1>2, <1>4, AcceptedFields DEF Plain, FieldOf
<1>7. /\ d.ja = None \/ d.ja \in BuildPresets
      /\ d.dnsovertls \in BuildProviders \cup {None, Custom}
  BY <1>1, <1>2, AcceptedFields DEF Plain, FieldOf
<1>8. d.http3settings # None => Range(d.http3settings.order) \subseteq DOMAIN d.http3settings.values
  <2> SUFFICES ASSUME d.http3settings # None
               PROVE  Range(d.http3settings.order) \subseteq DOMAIN d.http3settings.values
    OBVIOUS
  <2>1. "http3settings" \in DOMAIN in /\ d.http3settings = in["http3settings"]
    BY <1>2 DEF FieldOf
  <2>2. PICK l : in["http3settings"] = Shaped("http3settings", l)
    BY <1>4, <2>1
  <2>3. QED
    BY <2>1, <2>2, ShapedFields
<1>9. /\ "browser" \in DOMAIN h => d.browser = FlattenSeq(h["browser"]) /\ d.browser # <<>>
      /\ "os" \in DOMAIN h => d.os = FlattenSeq(h["os"]) /\ d.os # <<>>
  <2>1. \A k \in {"browser", "os"} : k \in DOMAIN h => d[k] = FlattenSeq(h[k]) /\ d[k] # <<>>
    BY <1>2, <1>4, ShapedFields DEF FieldOf, Written, ListKeys
  <2>2. QED
    BY <2>1
<1>10. "profile" \in DOMAIN h => d.profile = h["profile"][1] /\ d.profile # None
  BY <1>2, <1>4, ShapedFields DEF FieldOf, Written, Scalars
<1>11. QED
  BY <1>2, <1>3, <1>5, <1>6, <1>7, <1>8, <1>9, <1>10 DEF d

(* The profile, the inference and the upgrade leave what was asked for alone.    *)
LEMMA MadeWants ==
  ASSUME NEW h, NEW r, r.headers = h, Written(h), Defaulted, Parse(h, policy).issues = {},
         LET p == Parse(h, policy).directive.profile IN p = None \/ Lookup(p)
  PROVE  LET d == Parse(h, policy).directive
             made == WithUpgrade(WithMatch(WithProfile(d), r.ua), r.websocket)
         IN  Good(h, r.websocket, made) /\ Wants(h, made)
<1> DEFINE d == Parse(h, policy).directive
           e == WithProfile(d)
           f == WithMatch(e, r.ua)
           made == WithUpgrade(f, r.websocket)
           Rest == Fields \ {"browser", "os", "forcehttp"}
<1>1. /\ DOMAIN d = Fields /\ d.fromRequest = DOMAIN h
      /\ \A k \in Plain : d[k] \in Wanted(h, FALSE, k)
      /\ "forcehttp" \in DOMAIN h \cup DOMAIN config.defaults => d.forcehttp # None
      /\ d.ja = None \/ d.ja \in BuildPresets
      /\ d.dnsovertls \in BuildProviders \cup {None, Custom}
      /\ d.http3settings # None => Range(d.http3settings.order) \subseteq DOMAIN d.http3settings.values
      /\ "browser" \in DOMAIN h => d.browser = FlattenSeq(h["browser"]) /\ d.browser # <<>> /\ d.profile = None
      /\ "os" \in DOMAIN h => d.os = FlattenSeq(h["os"]) /\ d.os # <<>> /\ d.profile = None
      /\ "profile" \in DOMAIN h => d.profile = h["profile"][1] /\ d.profile # None
      /\ d.profile # None => d.browser = <<>> /\ d.os = <<>> /\ ~d.match
  BY ParsedWants
<1>2. d.profile # None => d.profile \in Profiles
  BY DEF Lookup
<1> HIDE DEF d
<1>3. {"browser", "os", "forcehttp", "fromRequest", "match"} \subseteq Fields
  BY DEF Fields, Known, ListKeys, Scalars, Flags
<1>4. /\ DOMAIN e = Fields /\ e.fromRequest = d.fromRequest /\ e.match = d.match /\ e.forcehttp = d.forcehttp
      /\ \A k \in Rest : e[k] = d[k]
      /\ d.profile = None => e.browser = d.browser /\ e.os = d.os
      /\ d.profile # None => e.browser = <<d.profile.family>> /\ e.os = <<d.profile.platform>>
  <2>1. CASE d.profile = None
    BY <1>1, <2>1 DEF WithProfile
  <2>2. CASE d.profile # None
    BY <1>1, <1>3, <2>2 DEF WithProfile
  <2>3. QED
    BY <2>1, <2>2
<1> HIDE DEF e
<1>5. /\ DOMAIN f = Fields /\ f.forcehttp = e.forcehttp
      /\ \A k \in Rest : f[k] = e[k]
      /\ "browser" \in e.fromRequest => f.browser = e.browser /\ f.os = e.os
      /\ "os" \in e.fromRequest => f.os = e.os
      /\ ~e.match => f.browser = e.browser /\ f.os = e.os
  <2> DEFINE found == Infer(r.ua)
             x == <<found.browser>>
             y == IF found.os # None /\ "os" \notin e.fromRequest THEN <<found.os>> ELSE e.os
  <2>1. \/ f = e
        \/ /\ e.match /\ "browser" \notin e.fromRequest
           /\ f = [e EXCEPT !.browser = x, !.os = y]
    BY Zenon DEF WithMatch
  <2>2. "os" \in e.fromRequest => y = e.os
    OBVIOUS
  <2> HIDE DEF x, y
  <2>3. CASE f = e
    BY <1>4, <2>3
  <2>4. CASE /\ e.match /\ "browser" \notin e.fromRequest
             /\ f = [e EXCEPT !.browser = x, !.os = y]
    <3>1. /\ DOMAIN f = Fields /\ f.forcehttp = e.forcehttp /\ f.os = y
          /\ \A k \in Rest : f[k] = e[k]
      BY <1>3, <1>4, <2>4
    <3>2. QED
      BY <2>2, <2>4, <3>1, Zenon
  <2>5. QED
    BY <2>1, <2>3, <2>4
<1> HIDE DEF f
<1>6. /\ DOMAIN made = Fields /\ made.browser = f.browser /\ made.os = f.os
      /\ \A k \in Rest : made[k] = f[k]
      /\ made.forcehttp = IF f.forcehttp = None /\ r.websocket THEN "1" ELSE f.forcehttp
  <2>1. CASE f.forcehttp = None /\ r.websocket
    BY <1>3, <1>5, <2>1 DEF WithUpgrade
  <2>2. CASE ~(f.forcehttp = None /\ r.websocket)
    BY <1>5, <2>2 DEF WithUpgrade
  <2>3. QED
    BY <2>1, <2>2
<1> HIDE DEF made
<1>7. \A k \in Plain : made[k] \in Wanted(h, r.websocket, k)
  <2> SUFFICES ASSUME NEW k \in Plain PROVE made[k] \in Wanted(h, r.websocket, k)
    OBVIOUS
  <2>1. CASE k # "forcehttp"
    <3>1. k \in Rest
      BY <2>1 DEF Plain, Fields, Known, Scalars
    <3>2. made[k] = d[k]
      BY <1>4, <1>5, <1>6, <3>1
    <3>3. QED
      BY <1>1, <2>1, <3>2, Zenon DEF Wanted
  <2>2. CASE k = "forcehttp"
    <3>1. f.forcehttp = d.forcehttp /\ d.forcehttp \in Wanted(h, FALSE, "forcehttp")
      BY <1>1, <1>4, <1>5, <2>2
    <3>2. CASE "forcehttp" \in DOMAIN h \cup DOMAIN config.defaults
      <4>1. made.forcehttp = d.forcehttp
        BY <1>1, <1>6, <3>1, <3>2
      <4>2. Wanted(h, FALSE, "forcehttp") \subseteq Wanted(h, r.websocket, "forcehttp")
        BY <3>2 DEF Wanted
      <4>3. QED
        BY <2>2, <3>1, <4>1, <4>2
    <3>3. CASE "forcehttp" \notin DOMAIN h \cup DOMAIN config.defaults
      <4>1. d.forcehttp = None
        BY <3>1, <3>3 DEF Wanted
      <4>2. CASE r.websocket
        BY <1>6, <2>2, <3>1, <3>3, <4>1, <4>2 DEF Wanted
      <4>3. CASE ~r.websocket
        BY <1>6, <2>2, <3>1, <3>3, <4>1, <4>3 DEF Wanted
      <4>4. QED
        BY <4>2, <4>3
    <3>4. QED
      BY <3>2, <3>3
  <2>3. QED
    BY <2>1, <2>2
<1>8. made.ja = d.ja /\ made.dnsovertls = d.dnsovertls /\ made.http3settings = d.http3settings
  <2>1. {"ja", "dnsovertls", "http3settings"} \subseteq Rest
    BY DEF Fields, Known, Scalars, KvKeys
  <2>2. QED
    BY <1>4, <1>5, <1>6, <2>1
<1>9. Good(h, r.websocket, made)
  BY <1>1, <1>6, <1>7, <1>8 DEF Good
<1>10. Wants(h, made)
  BY <1>1, <1>2, <1>4, <1>5, <1>6 DEF Wants
<1>11. QED
  BY <1>9, <1>10 DEF made, f, e, d

--------------------------------------------------------------------------------
(* The identity that is chosen for two lists, by this request or one before it.  *)
Chosen(lists, got) ==
    /\ got[1] # <<>> /\ got[1][1] \in Choose(lists[1], Browsers)
    /\ lists[2] = <<>> => got[2] = <<>>
    /\ lists[2] # <<>> => got[2] # <<>> /\ got[2][1] \in Choose(lists[2], Families[got[1][1]])

LEMMA ChosenHas ==
  ASSUME NEW h, NEW websocket, NEW d, Good(h, websocket, d), Wants(h, d), NEW x, NEW y, Chosen(KeyOf(d), <<x, y>>)
  PROVE  LET e == [d EXCEPT !.browser = x, !.os = y] IN Good(h, websocket, e) /\ Has(h, e)
<1> DEFINE e == [d EXCEPT !.browser = x, !.os = y]
<1>1. DOMAIN d = Fields /\ "browser" \in Fields /\ "os" \in Fields
      /\ \A k \in Plain \cup {"http3settings"} : k \in Fields /\ k # "browser" /\ k # "os"
  BY DEF Good, Fields, Known, ListKeys, Scalars, Plain, KvKeys
<1>2. DOMAIN e = Fields /\ e.browser = x /\ e.os = y /\ \A k \in Plain \cup {"http3settings"} : e[k] = d[k]
  BY <1>1
<1> HIDE DEF e
<1>3. Good(h, websocket, e)
  BY <1>2 DEF Good, Plain
<1>4. /\ x # <<>> /\ x[1] \in Choose(d.browser, Browsers)
      /\ d.os = <<>> => y = <<>>
      /\ d.os # <<>> => y # <<>> /\ y[1] \in Choose(d.os, Families[x[1]])
  BY DEF Chosen, KeyOf
<1>5. x[1] \in Browsers /\ (d.browser # <<>> => x[1] \in Range(d.browser) \/ "random" \in Range(d.browser))
  BY <1>4 DEF Choose
<1>6. d.os # <<>> => /\ y[1] \in Families[x[1]]
                     /\ y[1] \in Range(d.os) \/ "random" \in Range(d.os)
  BY <1>4 DEF Choose
<1>7. "browser" \in DOMAIN h => Names(h, "browser", x[1])
  BY <1>5 DEF Wants, Names
<1>8. "os" \in DOMAIN h => y # <<>> /\ Names(h, "os", y[1])
  BY <1>4, <1>6 DEF Wants, Names
<1>9. "profile" \in DOMAIN h => /\ x[1] = h["profile"][1].family
                                /\ y # <<>> /\ y[1] = h["profile"][1].platform
  <2> SUFFICES ASSUME "profile" \in DOMAIN h
               PROVE  /\ x[1] = h["profile"][1].family
                      /\ y # <<>> /\ y[1] = h["profile"][1].platform
    OBVIOUS
  <2> DEFINE i == h["profile"][1]
  <2>1. i \in Profiles /\ d.browser = <<i.family>> /\ d.os = <<i.platform>>
    BY DEF Wants
  <2>2. i.family \in Browsers /\ i.platform \in AllOses
    BY <2>1 DEF Profiles
  <2>3. "random" \notin Browsers /\ "random" \notin AllOses
    BY DEF Browsers, Families, AllOses
  <2>4. Range(<<i.family>>) = {i.family} /\ Range(<<i.platform>>) = {i.platform}
    BY DEF Range
  <2> HIDE DEF i
  <2>5. x[1] = i.family
    BY <1>5, <2>1, <2>2, <2>3, <2>4
  <2>6. d.os # <<>>
    BY <2>1
  <2>7. y # <<>> /\ y[1] = i.platform
    BY <1>4, <1>6, <2>1, <2>2, <2>3, <2>4, <2>6
  <2>8. QED
    BY <2>5, <2>7 DEF i
<1>10. Has(h, e)
  BY <1>2, <1>4, <1>5, <1>6, <1>7, <1>8, <1>9 DEF Has
<1>11. QED
  BY <1>3, <1>10 DEF e

LEMMA NoListsHas ==
  ASSUME NEW h, NEW d, Wants(h, d), d.browser = <<>>
  PROVE  Has(h, d)
BY DEF Wants, Has

(* What Directive.Resolve may return.                                            *)
LEMMA ResolutionChosen ==
  ASSUME NEW d, DOMAIN d = Fields, NEW e \in Resolutions(d), d.browser # <<>>
  PROVE  Chosen(KeyOf(d), Identity(e)) /\ e = [d EXCEPT !.browser = e.browser, !.os = e.os] /\ e.browser # <<>>
<1>1. "browser" \in Fields /\ "os" \in Fields
  BY DEF Fields, Known, ListKeys
<1>2. PICK b \in Pool(d) :
        e \in IF d.os = <<>> THEN {[d EXCEPT !.browser = <<b>>]}
             ELSE {[d EXCEPT !.browser = <<b>>, !.os = <<o>>] : o \in Choose(d.os, Families[b])}
  BY Zenon DEF Resolutions
<1>3. b \in Choose(d.browser, Browsers)
  BY DEF Pool
<1>4. CASE d.os = <<>>
  <2>1. e = [d EXCEPT !.browser = <<b>>]
    BY <1>2, <1>4
  <2>2. e.browser = <<b>> /\ e.os = <<>>
    BY <1>1, <1>4, <2>1
  <2>3. e = [d EXCEPT !.browser = e.browser, !.os = e.os]
    BY <1>1, <1>4, <2>1, <2>2
  <2>4. QED
    BY <1>3, <1>4, <2>2, <2>3 DEF Chosen, KeyOf, Identity
<1>5. CASE d.os # <<>>
  <2>1. PICK o \in Choose(d.os, Families[b]) : e = [d EXCEPT !.browser = <<b>>, !.os = <<o>>]
    BY <1>2, <1>5, Zenon
  <2>2. e.browser = <<b>> /\ e.os = <<o>>
    BY <1>1, <2>1
  <2>3. e = [d EXCEPT !.browser = e.browser, !.os = e.os]
    BY <2>1, <2>2
  <2>4. QED
    BY <1>3, <1>5, <2>1, <2>2, <2>3 DEF Chosen, KeyOf, Identity
<1>6. QED
  BY <1>4, <1>5

--------------------------------------------------------------------------------
(* The Spec of a directive, and the client that is served for it.                *)
Right(r, s) ==
    /\ "browser" \in DOMAIN r.headers => Names(r.headers, "browser", s.browser)
    /\ ("os" \in DOMAIN r.headers /\ s.browser # None) => Names(r.headers, "os", s.os)
    /\ "profile" \in DOMAIN r.headers =>
         s.browser = r.headers["profile"][1].family /\ s.os = r.headers["profile"][1].platform
    /\ \A k \in Plain : s[k] \in Wanted(r.headers, r.websocket, k)

Told == Plain \cup {"browser", "os"}

LEMMA ToldFields ==
  /\ Told \subseteq SpecFields /\ Told \cap Flags = {}
  /\ \A k \in Plain \cup {"http3settings"} : k \in SpecFields /\ k \notin {"browser", "os"}
BY DEF Told, Plain, SpecFields, Known, ListKeys, Scalars, Flags, KvKeys

(* Two Specs with one key agree on all that a request can ask for.               *)
LEMMA KeyTells == ASSUME NEW s, NEW t, Key(s) = Key(t), NEW k \in Told PROVE s[k] = t[k]
<1>1. k \in SpecFields /\ k \notin Flags
  BY ToldFields
<1>2. (k \in DOMAIN Key(s) <=> s[k] # None) /\ (k \in DOMAIN Key(t) <=> t[k] # None)
  BY <1>1 DEF Key, Given
<1>3. (s[k] # None => Key(s)[k] = s[k]) /\ (t[k] # None => Key(t)[k] = t[k])
  BY <1>1 DEF Key, Given
<1>4. QED
  BY <1>2, <1>3

LEMMA SpecOfDirective ==
  ASSUME NEW d
  PROVE  /\ \A k \in Plain \cup {"http3settings"} : Spec(d)[k] = d[k]
         /\ Spec(d).browser = IF d.browser = <<>> THEN None ELSE d.browser[1]
         /\ Spec(d).os = IF d.browser = <<>> \/ d.os = <<>> THEN None ELSE d.os[1]
<1>1. "browser" \in SpecFields /\ "os" \in SpecFields
  BY ToldFields DEF Told
<1>2. ASSUME NEW k \in Plain \cup {"http3settings"} PROVE Spec(d)[k] = d[k]
  BY ToldFields DEF Spec
<1>3. Spec(d).browser = IF d.browser = <<>> THEN None ELSE d.browser[1]
  BY <1>1 DEF Spec
<1>4. Spec(d).os = IF d.browser = <<>> \/ d.os = <<>> THEN None ELSE d.os[1]
  BY <1>1 DEF Spec
<1>5. QED
  BY <1>2, <1>3, <1>4

LEMMA HasIsRight ==
  ASSUME NEW r, NEW d, Good(r.headers, r.websocket, d), Has(r.headers, d), NEW s, \A k \in Told : s[k] = Spec(d)[k]
  PROVE  Right(r, s)
<1>1. \A k \in Plain : s[k] \in Wanted(r.headers, r.websocket, k)
  BY SpecOfDirective DEF Good, Told
<1>2. /\ s.browser = IF d.browser = <<>> THEN None ELSE d.browser[1]
      /\ s.os = IF d.browser = <<>> \/ d.os = <<>> THEN None ELSE d.os[1]
  BY SpecOfDirective DEF Told
<1>3. "browser" \in DOMAIN r.headers => Names(r.headers, "browser", s.browser)
  BY <1>2 DEF Has
<1>4. ("os" \in DOMAIN r.headers /\ s.browser # None) => Names(r.headers, "os", s.os)
  BY <1>2 DEF Has
<1>5. "profile" \in DOMAIN r.headers =>
         s.browser = r.headers["profile"][1].family /\ s.os = r.headers["profile"][1].platform
  BY <1>2 DEF Has
<1>6. QED
  BY <1>1, <1>3, <1>4, <1>5 DEF Right

LEMMA GoodIsBuildable ==
  ASSUME NEW h, NEW websocket, NEW d, Good(h, websocket, d), Has(h, d)
  PROVE  Refusal(Spec(d)) \in {"proxy", None} /\ ~Panics(Spec(d))
<1> DEFINE s == Spec(d)
<1>1. /\ s.browser = IF d.browser = <<>> THEN None ELSE d.browser[1]
      /\ s.os = IF d.browser = <<>> \/ d.os = <<>> THEN None ELSE d.os[1]
      /\ s.ja = d.ja /\ s.dnsovertls = d.dnsovertls /\ s.http3settings = d.http3settings
  BY SpecOfDirective DEF Plain
<1> HIDE DEF s
<1>2. ~RefusesIdentity(s)
  BY <1>1 DEF RefusesIdentity, Has
<1>3. ~RefusesJa(s)
  BY <1>1 DEF RefusesJa, Good
<1>4. ~DerefsNil(s)
  BY <1>1 DEF DerefsNil, Good
<1>5. ~CallsNil(s)
  BY <1>1 DEF CallsNil, Good
<1>6. Refusal(s) \in {"proxy", None}
  BY <1>2, <1>3, <1>4, <1>5 DEF Refusal
<1>7. ~Panics(s)
  BY <1>6, NoneIsNoRefusal DEF Panics
<1>8. QED
  BY <1>6, <1>7 DEF s

(* A worker whose directive is good gets a client of its Spec's key, or a teapot *)
(* that is not about the identity or the preset.                                 *)
LEMMA GetClientAnswers ==
  ASSUME NEW w \in Worker, GetClient(w), Refusal(Spec(dir[w])) \in {"proxy", None}, ~Panics(Spec(dir[w])),
         cached # None => cached.key = Key(cached.spec)
  PROVE  \E a : /\ answer' = [answer EXCEPT ![w] = a] /\ a.status \in {"teapot", "served"}
                /\ a.status = "teapot" => \A i \in a.why : i.why \notin {"identity", "ja"}
                /\ a.status = "served" => \A k \in Told : a.spec[k] = Spec(dir[w])[k]
<1> DEFINE s == Spec(dir[w])
<1>1. ASSUME NEW t, Key(t) = Key(s), Serve(w, t)
      PROVE \E a : /\ answer' = [answer EXCEPT ![w] = a] /\ a.status = "served"
                   /\ \A k \in Told : a.spec[k] = s[k]
  <2> DEFINE a == [status |-> "served", browser |-> Browser(w), spec |-> t, sent |-> Sent(dir[w], req[w].url)]
  <2>1. a.status = "served" /\ a.spec = t /\ answer' = [answer EXCEPT ![w] = a]
    BY <1>1 DEF Serve
  <2> HIDE DEF a
  <2>2. \A k \in Told : a.spec[k] = s[k]
    BY <1>1, <2>1, KeyTells
  <2>3. QED
    BY <2>1, <2>2
<1> DEFINE reason == IF Refusal(s) = None THEN "build" ELSE Refusal(s)
<1>2. ASSUME Teapot(w, Issue(reason, {""}))
      PROVE \E a : /\ answer' = [answer EXCEPT ![w] = a] /\ a.status = "teapot"
                   /\ \A i \in a.why : i.why \notin {"identity", "ja"}
  <2> DEFINE a == [status |-> "teapot", why |-> Issue(reason, {""}), browser |-> Browser(w)]
  <2>1. a.status = "teapot" /\ a.why = Issue(reason, {""}) /\ answer' = [answer EXCEPT ![w] = a]
    BY <1>2 DEF Teapot
  <2> HIDE DEF a
  <2>2. reason \notin {"identity", "ja"}
    <3>1. Refusal(s) = None \/ Refusal(s) = "proxy"
      OBVIOUS
    <3> HIDE DEF s
    <3>2. QED
      BY <3>1
  <2> HIDE DEF reason
  <2>3. \A i \in Issue(reason, {""}) : i.why = reason
    BY IssueWhy
  <2>4. QED
    BY <2>1, <2>2, <2>3
<1> HIDE DEF s, reason
<1>3. \/ cached # None /\ cached.key = Key(s) /\ Serve(w, cached.spec)
      \/ Serve(w, s)
      \/ Teapot(w, Issue(reason, {""}))
  BY Zenon DEF GetClient, s, reason
<1>4. QED
  BY <1>1, <1>2, <1>3 DEF s

LEMMA ParseWhys == ASSUME NEW h, NEW p, NEW i \in Parse(h, p).issues PROVE i.why \notin {"identity", "ja"}
<1> DEFINE told == {"unknown", "denied", "shape", "value", "combined", "required", "host"}
<1>1. ASSUME NEW in, NEW j \in SchemaIssues(in) PROVE j.why \in told
  <2>1. \/ \E keys : j \in Issue("value", keys)
        \/ \E keys : j \in Issue("combined", keys)
    BY <1>1, Zenon DEF SchemaIssues
  <2>2. QED
    BY <2>1, IssueWhy
<1>2. ASSUME NEW d, NEW j \in ProxyIssues(d, p) PROVE j.why \in told
  <2>1. \/ \E keys : j \in Issue("required", keys)
        \/ \E keys : j \in Issue("host", keys)
    BY <1>2, Zenon DEF ProxyIssues
  <2>2. QED
    BY <2>1, IssueWhy
<1>3. \/ \E keys : i \in Issue("unknown", keys) \cup Issue("denied", keys) \cup Issue("shape", keys)
      \/ \E in : i \in SchemaIssues(in)
      \/ \E d : i \in ProxyIssues(d, p)
  BY Zenon DEF Parse
<1>4. i.why \in told
  BY <1>1, <1>2, <1>3, IssueWhy
<1>5. QED
  BY <1>4

--------------------------------------------------------------------------------
(* A worker's request, its directive while there is one, and its answer.         *)
Kept(p, r, d, a) ==
    /\ p \in {"resolve", "choose"} => Good(r.headers, r.websocket, d) /\ Wants(r.headers, d)
    /\ p = "client" => Good(r.headers, r.websocket, d) /\ Has(r.headers, d)
    /\ a.status # "none" => p = "done"
    /\ a.status = "served" => Right(r, a.spec)
    /\ a.status # "panicked"
    /\ a.status = "teapot" => \A i \in a.why : i.why \notin {"identity", "ja"}

WishInv ==
    /\ PerWorker /\ req = [w \in Worker |-> req[w]]
    /\ \E m \in Meeting : config = m[1] /\ client = m[2]
    /\ stage = "serving" => Defaulted
    /\ \A key \in DOMAIN picks : Chosen(key, picks[key])
    /\ \A w \in Worker : Kept(pc[w], req[w], dir[w], answer[w])

LEMMA KeptStays == ASSUME config' = config PROVE \A p, r, d, a : Kept(p, r, d, a)' <=> Kept(p, r, d, a)
BY DEF Kept, Good, Wants, Has, Right, Wanted

(* Steps that leave the workers alone, and steps of one of them.                 *)
LEMMA WishInvStays ==
  ASSUME WishInv, UNCHANGED <<config, client, picks, pc, req, dir, answer>>, stage' = "serving" => Defaulted'
  PROVE  WishInv'
<1>1. \A w \in Worker : Kept(pc[w], req[w], dir[w], answer[w])'
  BY KeptStays DEF WishInv
<1>2. QED
  BY <1>1 DEF WishInv, PerWorker

LEMMA WishInvAfter ==
  ASSUME WishInv, [Next]_vars, stage' = "serving" => Defaulted', \A key \in DOMAIN picks' : Chosen(key, picks'[key]),
         NEW w \in Worker, NEW p, NEW r, NEW d, NEW a, Kept(p, r, d, a),
         pc' = [pc EXCEPT ![w] = p], req' = [req EXCEPT ![w] = r],
         dir' = [dir EXCEPT ![w] = d], answer' = [answer EXCEPT ![w] = a]
  PROVE  WishInv'
<1>1. PerWorker' /\ req' = [v \in Worker |-> req'[v]]
  BY PerWorkerStep DEF WishInv
<1>2. config' = config /\ client' = client
  BY DEF Next, vars, server, Start, Connect, Receive, Challenge, Ready, Pick, ChooseIdentity, GetClient, Finish
<1>3. \A p1, r1, d1, a1 : Kept(p1, r1, d1, a1)' <=> Kept(p1, r1, d1, a1)
  BY <1>2, KeptStays
<1>4. ASSUME NEW v \in Worker PROVE Kept(pc'[v], req'[v], dir'[v], answer'[v])
  <2>1. CASE v = w
    <3>1. pc'[v] = p /\ req'[v] = r /\ dir'[v] = d /\ answer'[v] = a
      BY <2>1 DEF WishInv, PerWorker
    <3>2. QED
      BY <3>1
  <2>2. CASE v # w
    <3>1. pc'[v] = pc[v] /\ req'[v] = req[v] /\ dir'[v] = dir[v] /\ answer'[v] = answer[v]
      BY <2>2 DEF WishInv, PerWorker
    <3>2. QED
      BY <3>1 DEF WishInv
  <2>3. QED
    BY <2>1, <2>2
<1>5. \A v \in Worker : Kept(pc[v], req[v], dir[v], answer[v])'
  BY <1>3, <1>4
<1>6. QED
  BY <1>1, <1>2, <1>5 DEF WishInv

LEMMA Untouched ==
  ASSUME WishInv, NEW w \in Worker
  PROVE  /\ pc = [pc EXCEPT ![w] = pc[w]] /\ req = [req EXCEPT ![w] = req[w]]
         /\ dir = [dir EXCEPT ![w] = dir[w]] /\ answer = [answer EXCEPT ![w] = answer[w]]
         /\ Kept(pc[w], req[w], dir[w], answer[w])
<1>1. Kept(pc[w], req[w], dir[w], answer[w])
  BY DEF WishInv
<1>2. QED
  BY <1>1 DEF WishInv, PerWorker

LEMMA KeptByReceive ==
  ASSUME WishInv, [Next]_vars, NEW w \in Worker, NEW r \in Requests(client.kind), Receive(w, r)
  PROVE  WishInv'
<1> DEFINE d    == Parse(r.headers, policy).directive
           made == WithUpgrade(WithMatch(WithProfile(d), r.ua), r.websocket)
<1>1. /\ pc[w] = "idle" /\ req' = [req EXCEPT ![w] = r] /\ picks' = picks
      /\ stage = "serving" /\ stage' = stage /\ config' = config /\ policy' = policy
  BY DEF Receive, Ready, server
<1>2. Defaulted /\ Defaulted' /\ \A key \in DOMAIN picks' : Chosen(key, picks'[key])
  BY <1>1 DEF WishInv, Defaulted
<1>3. answer[w].status = "none"
  BY <1>1, Untouched DEF Kept
<1>4. ASSUME NEW why, Teapot(w, why), \A i \in why : i.why \notin {"identity", "ja"} PROVE WishInv'
  <2> DEFINE a == [status |-> "teapot", why |-> why, browser |-> Browser(w)]
  <2>1. /\ a.status = "teapot" /\ a.why = why
        /\ pc' = [pc EXCEPT ![w] = "done"] /\ dir' = [dir EXCEPT ![w] = None] /\ answer' = [answer EXCEPT ![w] = a]
    BY <1>4 DEF Teapot, Step
  <2> HIDE DEF a
  <2>2. Kept("done", r, None, a)
    BY <1>4, <2>1 DEF Kept
  <2>3. QED
    BY <1>1, <1>2, <2>1, <2>2, WishInvAfter
<1>5. ASSUME Parse(r.headers, policy).issues = {}, d.profile = None \/ Lookup(d.profile),
             Step(w, "idle", "resolve"), dir' = [dir EXCEPT ![w] = made], UNCHANGED answer
      PROVE  WishInv'
  <2>1. Written(r.headers)
    <3>1. PICK m \in Meeting : client = m[2]
      BY DEF WishInv
    <3>2. QED
      BY <3>1, RequestsAreWritten DEF Written
  <2>2. Good(r.headers, r.websocket, made) /\ Wants(r.headers, made)
    BY <1>2, <1>5, <2>1, MadeWants
  <2>3. pc' = [pc EXCEPT ![w] = "resolve"] /\ dir' = [dir EXCEPT ![w] = made] /\ answer' = answer
    BY <1>5 DEF Step
  <2> HIDE DEF made
  <2>4. Kept("resolve", r, made, answer[w])
    BY <1>3, <2>2 DEF Kept
  <2>5. answer' = [answer EXCEPT ![w] = answer[w]]
    BY <2>3, Untouched
  <2>6. QED
    BY <1>1, <1>2, <2>3, <2>4, <2>5, WishInvAfter
<1>6. \A i \in Issue("stale", {"profile"}) : i.why \notin {"identity", "ja"}
  BY IssueWhy
<1>7. \/ Teapot(w, Parse(r.headers, policy).issues)
      \/ Teapot(w, Issue("stale", {"profile"}))
      \/ /\ Parse(r.headers, policy).issues = {} /\ (d.profile = None \/ Lookup(d.profile))
         /\ Step(w, "idle", "resolve") /\ dir' = [dir EXCEPT ![w] = made] /\ UNCHANGED answer
  BY DEF Receive
<1> HIDE DEF d, made
<1>8. QED
  BY <1>4, <1>5, <1>6, <1>7, ParseWhys

LEMMA KeptByPick == ASSUME EgressInv, WishInv, [Next]_vars, NEW w \in Worker, Pick(w) PROVE WishInv'
<1> DEFINE key == KeyOf(dir[w])
           d   == [dir[w] EXCEPT !.browser = picks[key][1], !.os = picks[key][2]]
<1>1. /\ pc[w] = "resolve" /\ req' = req /\ answer' = answer /\ picks' = picks
      /\ stage' = stage /\ config' = config /\ policy' = policy
  BY DEF Pick, server
<1>2. /\ stage' = "serving" => Defaulted'
      /\ \A k \in DOMAIN picks' : Chosen(k, picks'[k])
  BY <1>1 DEF WishInv, Defaulted
<1>3. /\ req' = [req EXCEPT ![w] = req[w]] /\ answer' = [answer EXCEPT ![w] = answer[w]]
      /\ Good(req[w].headers, req[w].websocket, dir[w]) /\ Wants(req[w].headers, dir[w])
      /\ Kept(pc[w], req[w], dir[w], answer[w])
  BY <1>1, Untouched DEF Kept
<1>4. CASE Remembered(key)
  <2>1. pc' = [pc EXCEPT ![w] = "client"] /\ dir' = [dir EXCEPT ![w] = d]
    BY <1>4, Zenon DEF Pick, Step, Give
  <2>2. Chosen(key, <<picks[key][1], picks[key][2]>>)
    BY <1>4 DEF Remembered, WishInv, Chosen
  <2>3. Good(req[w].headers, req[w].websocket, d) /\ Has(req[w].headers, d)
    BY <1>3, <2>2, ChosenHas
  <2> HIDE DEF d
  <2>4. Kept("client", req[w], d, answer[w])
    BY <1>1, <1>3, <2>3 DEF Kept
  <2>5. QED
    BY <1>2, <1>3, <2>1, <2>4, WishInvAfter
<1>5. CASE ~Remembered(key)
  <2>1. pc' = [pc EXCEPT ![w] = "choose"] /\ dir' = dir
    BY <1>5, Zenon DEF Pick, Step
  <2>2. dir' = [dir EXCEPT ![w] = dir[w]]
    BY <2>1, Untouched
  <2>3. Kept("choose", req[w], dir[w], answer[w])
    BY <1>1, <1>3 DEF Kept
  <2>4. QED
    BY <1>2, <1>3, <2>1, <2>2, <2>3, WishInvAfter
<1>6. QED
  BY <1>4, <1>5

LEMMA KeptByChoose == ASSUME EgressInv, WishInv, [Next]_vars, NEW w \in Worker, ChooseIdentity(w) PROVE WishInv'
<1> DEFINE key == KeyOf(dir[w])
<1>1. pc[w] = "choose" /\ req' = req /\ stage' = stage /\ config' = config /\ policy' = policy
  BY DEF ChooseIdentity, server
<1>2. (stage' = "serving" => Defaulted') /\ \A k \in DOMAIN picks : Chosen(k, picks[k])
  BY <1>1 DEF WishInv, Defaulted
<1>3. /\ req' = [req EXCEPT ![w] = req[w]] /\ answer = [answer EXCEPT ![w] = answer[w]]
      /\ Good(req[w].headers, req[w].websocket, dir[w]) /\ Wants(req[w].headers, dir[w])
      /\ Kept(pc[w], req[w], dir[w], answer[w]) /\ DOMAIN dir[w] = Fields
  BY <1>1, Untouched DEF Kept, EgressInv
<1>4. CASE Teapot(w, Issue("unavailable", {"os"})) /\ UNCHANGED picks
  <2> DEFINE a == [status |-> "teapot", why |-> Issue("unavailable", {"os"}), browser |-> Browser(w)]
  <2>1. /\ a.status = "teapot" /\ a.why = Issue("unavailable", {"os"})
        /\ pc' = [pc EXCEPT ![w] = "done"] /\ dir' = [dir EXCEPT ![w] = None] /\ answer' = [answer EXCEPT ![w] = a]
    BY <1>4 DEF Teapot, Step
  <2> HIDE DEF a
  <2>2. Kept("done", req[w], None, a)
    BY <2>1, IssueWhy DEF Kept
  <2>3. QED
    BY <1>2, <1>3, <1>4, <2>1, <2>2, WishInvAfter
<1>5. ASSUME NEW d \in Resolutions(dir[w]), Step(w, "choose", "client"), Give(w, key, d), UNCHANGED answer,
             picks' = IF client.tunnelled /\ d.browser # <<>>
                      THEN [k \in DOMAIN picks \cup {key} |-> IF k = key THEN Identity(d) ELSE picks[k]]
                      ELSE picks
      PROVE  WishInv'
  <2>1. /\ Good(req[w].headers, req[w].websocket, d) /\ Has(req[w].headers, d)
        /\ d.browser # <<>> => Chosen(key, Identity(d))
    <3>1. CASE dir[w].browser = <<>>
      <4>1. d = dir[w]
        BY <1>5, <3>1 DEF Resolutions
      <4>2. QED
        BY <1>3, <3>1, <4>1, NoListsHas
    <3>2. CASE dir[w].browser # <<>>
      <4>1. Chosen(key, Identity(d)) /\ d = [dir[w] EXCEPT !.browser = d.browser, !.os = d.os]
        BY <1>3, <1>5, <3>2, ResolutionChosen
      <4>2. Identity(d) = <<d.browser, d.os>>
        BY DEF Identity
      <4> DEFINE e == [dir[w] EXCEPT !.browser = d.browser, !.os = d.os]
      <4>3. Good(req[w].headers, req[w].websocket, e) /\ Has(req[w].headers, e)
        BY <1>3, <4>1, <4>2, ChosenHas
      <4>4. d = e
        BY <4>1
      <4> HIDE DEF e
      <4>5. QED
        BY <4>1, <4>3, <4>4
    <3>3. QED
      BY <3>1, <3>2
  <2>2. \A k \in DOMAIN picks' : Chosen(k, picks'[k])
    <3>1. CASE picks' = picks
      BY <1>2, <3>1
    <3>2. CASE d.browser # <<>> /\ picks' = [k \in DOMAIN picks \cup {key} |-> IF k = key THEN Identity(d) ELSE picks[k]]
      BY <1>2, <2>1, <3>2
    <3>3. QED
      BY <1>5, <3>1, <3>2
  <2>3. pc' = [pc EXCEPT ![w] = "client"] /\ dir' = [dir EXCEPT ![w] = d] /\ answer' = [answer EXCEPT ![w] = answer[w]]
    BY <1>3, <1>5 DEF Step, Give
  <2>4. Kept("client", req[w], d, answer[w])
    BY <1>1, <1>3, <2>1 DEF Kept
  <2>5. QED
    BY <1>2, <1>3, <2>2, <2>3, <2>4, WishInvAfter
<1>6. QED
  BY <1>4, <1>5, PickFinds DEF ChooseIdentity

LEMMA KeptByGetClient == ASSUME EgressInv, WishInv, [Next]_vars, NEW w \in Worker, GetClient(w) PROVE WishInv'
<1>1. pc[w] = "client" /\ UNCHANGED <<req, picks, stage, config, policy>>
  BY DEF GetClient, server
<1>2. (stage' = "serving" => Defaulted') /\ \A k \in DOMAIN picks' : Chosen(k, picks'[k])
  BY <1>1 DEF WishInv, Defaulted
<1>3. req' = [req EXCEPT ![w] = req[w]] /\ Good(req[w].headers, req[w].websocket, dir[w]) /\ Has(req[w].headers, dir[w])
  BY <1>1, Untouched DEF Kept
<1>4. Refusal(Spec(dir[w])) \in {"proxy", None} /\ ~Panics(Spec(dir[w]))
  BY <1>3, GoodIsBuildable
<1>5. cached # None => cached.key = Key(cached.spec)
  BY DEF EgressInv
<1>6. PICK a : /\ answer' = [answer EXCEPT ![w] = a] /\ a.status \in {"teapot", "served"}
               /\ a.status = "teapot" => \A i \in a.why : i.why \notin {"identity", "ja"}
               /\ a.status = "served" => \A k \in Told : a.spec[k] = Spec(dir[w])[k]
  BY <1>4, <1>5, GetClientAnswers
<1>7. a.status = "served" => Right(req[w], a.spec)
  BY <1>3, <1>6, HasIsRight
<1>8. pc' = [pc EXCEPT ![w] = "done"] /\ dir' = [dir EXCEPT ![w] = None]
  BY GetClientEnds
<1>9. Kept("done", req[w], None, a)
  BY <1>6, <1>7 DEF Kept
<1>10. QED
  BY <1>2, <1>3, <1>6, <1>8, <1>9, WishInvAfter

LEMMA WishInvStep == ASSUME EgressInv, WishInv, [Next]_vars PROVE WishInv'
<1>1. CASE UNCHANGED vars \/ Connect
  <2>1. UNCHANGED <<config, client, stage, policy, picks, pc, req, dir, answer>>
    BY <1>1 DEF Connect, vars, server
  <2>2. stage' = "serving" => Defaulted'
    BY <2>1 DEF WishInv, Defaulted
  <2>3. QED
    BY <2>1, <2>2, WishInvStays
<1>2. CASE Start
  <2>1. UNCHANGED <<config, client, picks, pc, req, dir, answer>>
    BY <1>2 DEF Start
  <2>2. stage' = "serving" => Defaulted'
    <3> SUFFICES ASSUME stage' = "serving" PROVE Defaulted'
      OBVIOUS
    <3> DEFINE p == NewPolicy(config.defaults, config.deny)
               q == [p EXCEPT !.proxyHosts = config.proxyHosts]
    <3>1. policy' = [q EXCEPT !.requireProxy = config.requireProxy]
      BY <1>2 DEF Start
    <3>2. /\ DOMAIN p = {"defaults", "deny", "proxyHosts", "requireProxy"}
          /\ p.defaults = [k \in DOMAIN config.defaults |-> Shaped(k, config.defaults[k])]
      BY DEF NewPolicy, NoPolicy
    <3> HIDE DEF p
    <3>3. policy'.defaults = [k \in DOMAIN config.defaults |-> Shaped(k, config.defaults[k])]
      BY <3>1, <3>2
    <3>4. QED
      BY <2>1, <3>3 DEF Defaulted
  <2>3. QED
    BY <2>1, <2>2, WishInvStays
<1>3. ASSUME NEW w \in Worker, NEW r, Challenge(w, r) PROVE WishInv'
  <2> DEFINE a == [status |-> "challenge"]
  <2>1. /\ pc' = [pc EXCEPT ![w] = "done"] /\ req' = [req EXCEPT ![w] = r] /\ dir' = dir
        /\ answer' = [answer EXCEPT ![w] = a] /\ a.status = "challenge"
        /\ UNCHANGED <<picks, stage, config, policy>>
    BY <1>3 DEF Challenge, Ready, Step, server
  <2> HIDE DEF a
  <2>2. Kept("done", r, dir[w], a)
    BY <2>1 DEF Kept
  <2>3. dir' = [dir EXCEPT ![w] = dir[w]]
    BY <2>1, Untouched
  <2>4. (stage' = "serving" => Defaulted') /\ \A k \in DOMAIN picks' : Chosen(k, picks'[k])
    BY <2>1 DEF WishInv, Defaulted
  <2>5. QED
    BY <2>1, <2>2, <2>3, <2>4, WishInvAfter
<1>4. ASSUME NEW w \in Worker, Finish(w) PROVE WishInv'
  <2>1. /\ pc' = [pc EXCEPT ![w] = "idle"] /\ req' = [req EXCEPT ![w] = None] /\ dir' = dir
        /\ answer' = [answer EXCEPT ![w] = NoAnswer] /\ UNCHANGED <<picks, stage, config, policy>>
    BY <1>4 DEF Finish, Step, server
  <2>2. Kept("idle", None, dir[w], NoAnswer)
    BY DEF Kept, NoAnswer
  <2>3. dir' = [dir EXCEPT ![w] = dir[w]]
    BY <2>1, Untouched
  <2>4. (stage' = "serving" => Defaulted') /\ \A k \in DOMAIN picks' : Chosen(k, picks'[k])
    BY <2>1 DEF WishInv, Defaulted
  <2>5. QED
    BY <2>1, <2>2, <2>3, <2>4, WishInvAfter
<1>5. QED
  BY <1>1, <1>2, <1>3, <1>4, KeptByReceive, KeptByPick, KeptByChoose, KeptByGetClient DEF Next

LEMMA WishInvariant == SpecOf => []WishInv
<1>1. Init => WishInv
  BY DEF Init, WishInv, PerWorker, Kept, NoAnswer
<1>2. EgressInv /\ WishInv /\ [Next]_vars => WishInv'
  BY WishInvStep
<1>3. QED
  BY <1>1, <1>2, EgressInvariant, PTL DEF SpecOf

(* "Explicit X-Tip-Browser and X-Tip-Os always win": whatever the defaults, the  *)
(* inference from the User-Agent, the memory of the tunnel and the key under     *)
(* which clients are shared, a served request has what it asked for.             *)
THEOREM RequestsWin == SpecOf => []RequestWins
<1>1. WishInv => RequestWins
  <2> SUFFICES ASSUME WishInv PROVE RequestWins
    OBVIOUS
  <2>1. \A w \in Worker : Served(w) => Right(req[w], SpecServed(w))
    BY DEF WishInv, Kept, Served, SpecServed
  <2>2. QED
    BY <2>1 DEF RequestWins, Right, Wanted, Asked
<1>2. QED
  BY <1>1, WishInvariant, PTL

(* Validation is as strict as Build: the tables of package directive and those   *)
(* of package impersonate, the order of the settings and the family of every     *)
(* inferred or chosen OS agree, so that Build never refuses an identity or a     *)
(* preset and never panics inside Cache.Get.                                     *)
THEOREM ValidatedAreBuildable == SpecOf => []ValidatedIsBuildable
<1>1. WishInv => ValidatedIsBuildable
  BY DEF WishInv, Kept, ValidatedIsBuildable
<1>2. QED
  BY <1>1, WishInvariant, PTL

--------------------------------------------------------------------------------
(* Startup, and what it promises of the requests to come.                        *)
LEMMA Passes ==
  ASSUME NEW h, NEW p, DOMAIN h \subseteq Known, \A k \in DOMAIN h : ~Denied(p, k) /\ WellShaped(k, h[k]),
         \A k \in DOMAIN In(h, p) : Accepts(k, In(h, p)[k]), ~Combined(Decode(In(h, p), {})),
         ProxyIssues(Decode(In(h, p), DOMAIN h), p) = {}
  PROVE  Parse(h, p).issues = {}
<1> DEFINE allowed  == {k \in DOMAIN h \cap Known : ~Denied(p, k)}
           asked    == {k \in allowed : WellShaped(k, h[k])}
           kept     == {k \in DOMAIN p.defaults : ~Displaced(asked, k)}
           in       == [k \in asked \cup kept |-> IF k \in asked THEN Shaped(k, h[k]) ELSE p.defaults[k]]
           rejected == Issue("unknown", DOMAIN h \ Known)
                         \cup Issue("denied", (DOMAIN h \cap Known) \ allowed)
                         \cup Issue("shape", allowed \ asked) \cup SchemaIssues(in)
<1>1. Parse(h, p).issues = IF rejected # {} THEN rejected ELSE ProxyIssues(Decode(in, asked), p)
  BY DEF Parse
<1>2. /\ asked = DOMAIN h /\ DOMAIN h \ Known = {} /\ (DOMAIN h \cap Known) \ allowed = {} /\ allowed \ asked = {}
  OBVIOUS
<1>3. in = In(h, p)
  BY <1>2 DEF In
<1>4. \A why : Issue(why, {}) = {}
  BY DEF Issue
<1> HIDE DEF in
<1>5. SchemaIssues(in) = {}
  <2>1. {k \in DOMAIN in : ~Accepts(k, in[k])} = {}
    BY <1>3
  <2>2. QED
    BY <1>3, <1>4, <2>1, Zenon DEF SchemaIssues
<1> HIDE DEF asked, allowed
<1>6. rejected = {}
  BY <1>2, <1>4, <1>5
<1>7. QED
  BY <1>1, <1>2, <1>3, <1>6

LEMMA DefaultsPass ==
  ASSUME NEW defaults, NEW deny, NewPolicyOk(defaults, deny)
  PROVE  LET in == [k \in DOMAIN defaults |-> Shaped(k, defaults[k])]
         IN  /\ \A k \in DOMAIN defaults : Accepts(k, in[k])
             /\ ~Combined(Decode(in, {}))
<1> DEFINE in == [k \in DOMAIN defaults |-> Shaped(k, defaults[k])]
<1>1. In(defaults, NoPolicy) = in
  BY DEF In, NoPolicy
<1>2. Parse(defaults, NoPolicy).issues = {}
  BY DEF NewPolicyOk
<1>3. DOMAIN in = DOMAIN defaults
  OBVIOUS
<1> HIDE DEF in
<1>4. (\A k \in DOMAIN in : Accepts(k, in[k])) /\ ~Combined(Decode(in, {}))
  BY <1>1, <1>2, ParsedIn
<1>5. QED
  BY <1>3, <1>4 DEF in

LEMMA BarePasses ==
  ASSUME PolicyMade, Defaulted, NewPolicyOk(config.defaults, config.deny),
         "proxy" \in DOMAIN policy.defaults => policy.defaults["proxy"] # None /\ ProxyAllowed(policy.defaults["proxy"], config.proxyHosts),
         config.requireProxy => "proxy" \in DOMAIN policy.defaults,
         NEW h, DOMAIN h = {}
  PROVE  Parse(h, policy).issues = {}
<1> DEFINE in == policy.defaults
<1>1. In(h, policy) = in
  <2>1. \A k : ~Displaced({}, k)
    BY DEF Displaced
  <2>2. QED
    BY <2>1 DEF In, Defaulted
<1>2. (\A k \in DOMAIN in : Accepts(k, in[k])) /\ ~Combined(Decode(in, {}))
  BY DefaultsPass DEF Defaulted
<1>3. Decode(in, DOMAIN h).proxy = FieldOf(in, "proxy", None)
  BY DecodedFields DEF Plain
<1>4. ProxyIssues(Decode(in, DOMAIN h), policy) = {}
  BY <1>3 DEF ProxyIssues, FieldOf, PolicyMade
<1>5. QED
  BY <1>1, <1>2, <1>4, Passes

LEMMA ProxiedPasses ==
  ASSUME PolicyMade, Defaulted, NewPolicyOk(config.defaults, config.deny),
         "proxy" \notin DOMAIN policy.defaults, "proxy" \notin config.deny,
         NEW h, DOMAIN h = {"proxy"}, Len(h["proxy"]) = 1,
         h["proxy"][1] \notin {None, Blank, Malformed}, ProxyAllowed(h["proxy"][1], config.proxyHosts)
  PROVE  Parse(h, policy).issues = {}
<1> DEFINE in  == In(h, policy)
           old == policy.defaults
           url == h["proxy"][1]
<1>1. /\ DOMAIN in = DOMAIN old \cup {"proxy"} /\ in["proxy"] = url
      /\ \A k \in DOMAIN old : in[k] = old[k]
  <2>1. \A k \in DOMAIN old : ~Displaced(DOMAIN h, k)
    BY DEF Displaced, Trio
  <2>2. Shaped("proxy", h["proxy"]) = url
    BY ShapedFields DEF Plain
  <2>3. QED
    BY <2>1, <2>2 DEF In
<1>2. (\A k \in DOMAIN old : Accepts(k, old[k])) /\ ~Combined(Decode(old, {}))
  BY DefaultsPass DEF Defaulted
<1>3. Accepts("proxy", url)
  BY DEF Accepts, Flags, KvKeys
<1> HIDE DEF in, old, url
<1>4. ~Combined(Decode(in, {}))
  <2>1. \A k \in {"browser", "os", "profile", "match"} : \A zero : FieldOf(in, k, zero) = FieldOf(old, k, zero)
    BY <1>1 DEF FieldOf
  <2>2. LET d == Decode(in, {})
            e == Decode(old, {})
        IN  d.match = e.match /\ d.browser = e.browser /\ d.os = e.os /\ d.profile = e.profile
    <3>1. \A x : LET d == Decode(x, {})
                 IN  /\ d.match = (FieldOf(x, "match", "false") = "true")
                     /\ d.browser = FieldOf(x, "browser", <<>>) /\ d.os = FieldOf(x, "os", <<>>)
                     /\ d.profile = FieldOf(x, "profile", None)
      BY DecodedFields
    <3>2. QED
      BY <2>1, <3>1
  <2>3. QED
    BY <1>2, <2>2, Zenon DEF Combined
<1>5. Decode(in, DOMAIN h).proxy = url
  BY <1>1, DecodedFields DEF Plain, FieldOf
<1>6. ProxyIssues(Decode(in, DOMAIN h), policy) = {}
  BY <1>5 DEF ProxyIssues, PolicyMade, url
<1>7. "proxy" \in Known /\ ~Denied(policy, "proxy") /\ WellShaped("proxy", h["proxy"])
  BY ProxyIsKnown DEF Denied, PolicyMade, WellShaped, url
<1>8. \A k \in DOMAIN in : Accepts(k, in[k])
  BY <1>1, <1>2, <1>3
<1>9. QED
  BY <1>4, <1>6, <1>7, <1>8, Passes DEF in

\* What startup has accepted.
Accepted ==
    /\ NewPolicyOk(config.defaults, config.deny)
    /\ "proxy" \in DOMAIN config.defaults => ProxyAllowed(config.defaults["proxy"][1], config.proxyHosts)
    /\ (config.requireProxy /\ "proxy" \in config.deny) => "proxy" \in DOMAIN config.defaults

AcceptedInv == stage = "serving" => Accepted

LEMMA AcceptedInvStep == ASSUME AcceptedInv, [Next]_vars PROVE AcceptedInv'
<1>1. CASE Start
  <2> SUFFICES ASSUME stage' = "serving" PROVE Accepted'
    BY DEF AcceptedInv
  <2> DEFINE p == NewPolicy(config.defaults, config.deny)
             q == [p EXCEPT !.proxyHosts = config.proxyHosts]
  <2>1. /\ config' = config /\ NewPolicyOk(config.defaults, config.deny)
        /\ ProxyHostsOk(p, config.proxyHosts) /\ (config.requireProxy => RequireProxyOk(q))
    BY <1>1, Zenon DEF Start
  <2>2. /\ DOMAIN p = {"defaults", "deny", "proxyHosts", "requireProxy"} /\ p.deny = config.deny
        /\ p.defaults = [k \in DOMAIN config.defaults |-> Shaped(k, config.defaults[k])]
    BY DEF NewPolicy, NoPolicy
  <2> HIDE DEF p
  <2>3. q.deny = config.deny /\ q.defaults = p.defaults
    BY <2>2
  <2> HIDE DEF q
  <2>4. "proxy" \in DOMAIN config.defaults => p.defaults["proxy"] = config.defaults["proxy"][1]
    BY <2>2, ShapedFields DEF Plain
  <2>5. QED
    BY <2>1, <2>2, <2>3, <2>4 DEF Accepted, ProxyHostsOk, RequireProxyOk
<1>2. CASE ~Start
  <2>1. config' = config /\ stage' = stage
    BY <1>2 DEF Next, vars, server, Connect, Receive, Challenge, Ready, Pick, ChooseIdentity, GetClient, Finish
  <2>2. QED
    BY <2>1 DEF AcceptedInv, Accepted
<1>3. QED
  BY <1>1, <1>2

(* "No request could pass" is what startup refuses: under a policy that NewPolicy, *)
(* ProxyHosts and RequireProxy accept, one without directives has no issues, or, *)
(* where a proxy is required and none is the default, one that names a proxy of  *)
(* the allow-list.                                                               *)
THEOREM AcceptedPoliciesServe == SpecOf => []AcceptedPolicyServes
<1>1. Init => AcceptedInv
  BY DEF Init, AcceptedInv
<1>2. AcceptedInv /\ [Next]_vars => AcceptedInv'
  BY AcceptedInvStep
<1>3. AcceptedInv /\ EgressInv /\ WishInv => AcceptedPolicyServes
  <2> SUFFICES ASSUME AcceptedInv, EgressInv, WishInv, stage = "serving"
               PROVE  \E r \in Requests(client.kind) : Parse(r.headers, policy).issues = {}
    BY DEF AcceptedPolicyServes
  <2>1. Accepted /\ PolicyMade /\ Defaulted
    BY DEF AcceptedInv, EgressInv, WishInv
  <2>2. PICK m \in Meeting : config = m[1] /\ client = m[2]
    BY DEF WishInv
  <2>3. "proxy" \in DOMAIN policy.defaults =>
          policy.defaults["proxy"] # None /\ ProxyAllowed(policy.defaults["proxy"], config.proxyHosts)
    BY <2>1, <2>2, DefaultsAreWritten DEF Accepted, PolicyMade
  <2>4. CASE config.requireProxy => "proxy" \in DOMAIN config.defaults
    <3>1. PICK r \in Requests(client.kind) : DOMAIN r.headers = {}
      BY <2>2, ClientsAreFree
    <3>2. QED
      BY <2>1, <2>3, <2>4, <3>1, BarePasses DEF Accepted, PolicyMade
  <2>5. CASE config.requireProxy /\ "proxy" \notin DOMAIN config.defaults
    <3>1. PICK r \in Requests(client.kind) :
            /\ DOMAIN r.headers = {"proxy"} /\ Len(r.headers["proxy"]) = 1
            /\ r.headers["proxy"][1] \notin {Blank, Malformed}
            /\ ProxyAllowed(r.headers["proxy"][1], config.proxyHosts)
      BY <2>2, <2>5, ClientsAreFree
    <3>2. r.headers["proxy"][1] # None
      BY <2>2, <3>1, RequestsAreWritten DEF Scalars
    <3>3. QED
      BY <2>1, <2>5, <3>1, <3>2, ProxiedPasses DEF Accepted, PolicyMade
  <2>6. QED
    BY <2>4, <2>5
<1>4. QED
  BY <1>1, <1>2, <1>3, EgressInvariant, WishInvariant, PTL DEF SpecOf
================================================================================
