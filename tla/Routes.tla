--------------------------------- MODULE Routes ---------------------------------
(* The route matcher and the labels of the request metrics                       *)
(* (internal/metrics/routes.go and metrics.go). Pure operators; OnRequest counts *)
(* the requests it ends with them.                                               *)
(*                                                                               *)
(* A host is the sequence of its labels in lower case, a path the sequence of    *)
(* its segments, a segment a sequence of tokens, and <<>> an empty one. A        *)
(* pattern of a segment is a prefix, and the name of the parameter that follows  *)
(* it, if any.                                                                   *)
EXTENDS Naturals, Sequences, FiniteSets, SequencesExt

Nothing == ""

Star == [prefix |-> <<"*">>, param |-> Nothing]

Params(r) == {r.path[i].param : i \in DOMAIN r.path} \ {Nothing}

(* A route is [name, host, path, capture].                                       *)
NewMatcherOk(routes) ==
    \A i \in DOMAIN routes :
        /\ \A j \in DOMAIN routes[i].path : routes[i].path[j] = Star => j = Len(routes[i].path)
        /\ routes[i].capture \subseteq Params(routes[i])

Captures(routes) == SetToSeq(UNION {routes[i].capture : i \in DOMAIN routes})

\* *.suffix needs a label in front of the suffix, and a star alone is a host like any other.
MatchHost(pattern, host) ==
    IF Len(pattern) > 1 /\ pattern[1] = "*" THEN IsStrictSuffix(Tail(pattern), host) ELSE pattern = host

Fits(p, segment) ==
    /\ segment # <<>>
    /\ IF p.param # Nothing THEN IsStrictPrefix(p.prefix, segment) ELSE segment = p.prefix

FaultVerdict(r, segments, i) ==
    IF i > Len(segments) \/ ~Fits(r.path[i], segments[i]) THEN "no"
    ELSE IF r.path[i] = Star THEN "yes" ELSE "on"

\* What the i-th pattern makes of a path: a star accepts all that is left, if anything.
Verdict(r, segments, i) ==
    IF r.path[i] = Star THEN "yes"
    ELSE IF i > Len(segments) \/ ~Fits(r.path[i], segments[i]) THEN "no" ELSE "on"

(* matchPath walks the patterns until one of them decides.                       *)
MatchPath(r, segments) ==
    LET i == SelectInSeq([j \in DOMAIN r.path |-> Verdict(r, segments, j)], LAMBDA v : v # "on")
    IN  IF i = 0 THEN Len(segments) = Len(r.path) ELSE Verdict(r, segments, i) = "yes"

(* What matchPath captures of a path that it matches.                            *)
LabelsOf(r, segments) ==
    LET At(name) == Max({i \in DOMAIN r.path : r.path[i].param = name})
    IN  [name \in r.capture |-> SubSeq(segments[At(name)], Len(r.path[At(name)].prefix) + 1, Len(segments[At(name)]))]

NoRoute == [name |-> Nothing, labels |-> <<>>]

(* The first route that matches, with what it captured.                          *)
Match(routes, host, segments) ==
    LET i == SelectInSeq(routes, LAMBDA r : MatchHost(r.host, host) /\ MatchPath(r, segments))
    IN  IF i = 0 THEN NoRoute
        ELSE [name |-> routes[i].name, labels |-> LabelsOf(routes[i], segments)]

(* --- metrics.go --- *)

\* The collectors with labels of a request.
Fixed == [requests  |-> <<"host", "method", "status", "browser", "route">>,
          latency   |-> <<"host", "route">>,
          bandwidth |-> <<"host", "route", "direction">>]

Labels(collector, routes) == Fixed[collector] \o Captures(routes)

(* client_golang panics in New on two labels of one name.                        *)
Clash(collectors, routes) == \E c \in collectors : ~IsInjective(Labels(c, routes))

(* RequestFinished: the values under which each collector counts a request.      *)
Finished(collectors, routes, event) ==
    LET found == Match(routes, event.host, event.path)
        captured == [i \in DOMAIN Captures(routes) |->
            IF Captures(routes)[i] \in DOMAIN found.labels THEN found.labels[Captures(routes)[i]] ELSE <<>>]
        Value(name, way) ==
            CASE name = "route" -> found.name [] name = "direction" -> way [] OTHER -> event[name]
    IN  [c \in collectors |->
            {[i \in DOMAIN Fixed[c] |-> Value(Fixed[c][i], way)] \o captured :
                way \in IF c = "bandwidth" THEN {"in", "out"} ELSE {Nothing}}]

--------------------------------------------------------------------------------
(* What a route says it covers: its host; and segment by segment, none of them   *)
(* empty, its path, or with a star its path so far and whatever follows.         *)
Covers(r, host, segments) ==
    LET rest == r.path # <<>> /\ r.path[Len(r.path)] = Star
        n    == IF rest THEN Len(r.path) - 1 ELSE Len(r.path)
    IN  /\ r.host = host \/ (r.host[1] = "*" /\ \E k \in 1..(Len(host) - 1) : SubSeq(host, k + 1, Len(host)) = Tail(r.host))
        /\ IF rest THEN Len(segments) >= n ELSE Len(segments) = n
        /\ \A i \in 1..n : /\ segments[i] # <<>>
                           /\ IF r.path[i].param = "" THEN segments[i] = r.path[i].prefix
                              ELSE \E k \in 0..(Len(segments[i]) - 1) : SubSeq(segments[i], 1, k) = r.path[i].prefix

\* A parameter that a path has twice is what it was last.
CapturedBy(r, name, segments) ==
    LET i == CHOOSE j \in DOMAIN r.path : r.path[j].param = name /\ \A k \in DOMAIN r.path : r.path[k].param = name => k <= j
    IN  SubSeq(segments[i], Len(r.path[i].prefix) + 1, Len(segments[i]))
================================================================================
