# TIP, the TLS-impersonating proxy: a verification project

TLA+ models of TLS-Impersonate-Proxy (`src/`), the TLC configurations that
model-check them, and TLAPS proofs: every safety property that a passing run checks
is also a theorem, for every value of the constants, of the client cache, the
life of a request up to the end of the process, a connection's requests under the
operator's policy, the hop's dialer, one exchange with an origin, and the CA with
the leaves it signs.

TIP is a forward proxy. A client sends it plain requests or opens a CONNECT
tunnel, which TIP terminates with a certificate of its own CA; `X-Tip-*` headers
on each request (the *directives*) say which browser and OS to impersonate, how
to route and what to tune; TIP sends the request on with a TLS client that has
that browser's fingerprint, perhaps through an upstream proxy (the *hop*), and
hands the response back.

## 1. Inventory

| Component | Source | State | Operations | Correct when |
|---|---|---|---|---|
| Client cache | `impersonate/cache.go`, `client.go` | `entries`, `pending`, `mu`; per client `inflight`, `lastUsed`, `retired`, `closed` | `Get`, `share`, `insert`, `evict`, `Sweep`, `Close`, `Release`, `retire` | one flight per key; never over `Max`; counts right; a client is closed exactly when it is retired and unused |
| Request lifecycle and shutdown | `proxy/handler.go`, `roundtrip.go`, `body.go`, `proxy.go`, `cmd/tip/main.go` | `active`, `draining`, each request's lease, timer, context, body hook | `onRequest`, `RoundTrip`, `finish`, `closeHook.Close`, `Drain`, `run` | each way out gives the client back and is counted once; a drain ends, and under no request it admitted |
| Directives and identity | `directive/*.go`, `impersonate/profiles.go`, `catalogue.go`, `infer.go`, `proxy/handler.go` | the policy; a tunnel's `picks` | `NewPolicy`, `ProxyHosts`, `RequireProxy`, `Parse`, `Infer`, `resolve`, `Spec` | the request beats defaults and inference; the way out is the operator's; lists are chosen from once |
| Upstream proxy dialer, diagnosis | `connect/connect.go`, `impersonate/client.go` (`Classify`), `proxy/roundtrip.go` (`diagnose`), `status.go`, `errors.go` | the memo (`phase`, `verdict`), each attempt's connection, deadline and AfterFunc | `DialContext`, `connect`, `Memo.set`, `diagnose` | a refusal is final and relayed; a failure names what failed; a tunnel outlives its context; a stalled hop is let go |
| Request body | `proxy/body.go`, `roundtrip.go` | `consumed`, the count of bytes | `Read`, `Close`, `replay`, `GetBody` | an origin that is told a body is whole was given the whole of it |
| Header finalisation | `proxy/handler.go`, `impersonate/context.go` | the kept headers, the captured lines | the clone for Keep, `Strip`, `finalize` | a kept header leaves as the client sent it; the log shows what leaves |
| Response encoding | `proxy/encoding.go` | a response's headers, its decoder | `negotiate`, `decoder`, `Close` | headers and bytes agree; decoded only what the client cannot read |
| CA files | `proxy/ca.go` | two files | `LoadOrCreateCA`, `createCA` | one CA, whatever crashes |
| Leaf certificate store | `proxy/certs.go` | a bounded map | `Fetch` | never over its bound; every leaf is for its host and signed by the trusted CA |
| Client build | `impersonate/build.go`, `settings.go` | none | `Build` | it can build whatever validation lets through |
| Metrics and routes | `metrics/*.go` | counters, one gauge | the matcher, `RequestFinished`, observer calls | the gauge accounts for the cache; a request is counted under its route with as many values as labels |
| Configuration | `config/*.go` | none | load, validate | not modelled |
| Logging | `logging/*.go` | none | redaction | not modelled |
| Front and admin | `proxy/proxy.go`, `observer.go` | `draining` | `onConnect`, `plainAuth`, readiness | only users are served, on either way in |
| Command | `cmd/tip/main.go` | where `run` is | start, sweep, drain, exit | with the components above |

How they interact. `run` loads the CA, builds the policy, starts the sweeper and
serves. A CONNECT makes a `tunnel` (the memory of choices) and hijacks the
connection. For each request goproxy runs a goroutine that calls `onRequest`:
test `draining`, count in `active`, parse under the policy, infer and choose an
identity, lease a client from the cache by the Spec's key. `RoundTrip` then
arms a timer, sends through the client, whose transport may call the hop's
dialer; a failure is diagnosed from the error, the memo and the trace, a
response is negotiated and its body wrapped in a hook whose close gives the
client back and counts the request down. A signal makes `run` drain (poll
`active`), shut the server down, and return, which closes the cache.

What is hard, and where: the two lock-free words of a client (`inflight`,
`retired`) against the locked sections of the cache; the flag and the counter
that `onRequest` and `Drain` read in opposite orders; the timer against the
transport's return, and the AfterFunc against a late CONNECT answer; several
dial attempts sharing one memo; two HTTP/2 streams sharing one tunnel; the
interplay of defaults, request, profile and User-Agent; two tables of the same
names, one of which validates and the other is called; a body that is asked for
again after something was read of it; a decoder that has read what it then
refuses; crashes between two files; two sections of the leaf store's mutex with
the signing in between. `PROJECT.json` lists each under
"hazards", at its line.

## 2. Modules

    ClientPool          the promise of the cache: one slot per key
    ClientCache         the cache with its threads; refines ClientPool
    ClientCacheProofs   theorems about ClientCache
    MCClientCache       instances
    ProxyServer         requests, drain, exit
    ProxyServerProofs   theorems about ProxyServer
    MCProxyServer       instances
    Directive           pure operators: policy, parsing, inference, choice, Spec, key
    Build               pure operators, over Directive: what Build refuses or would panic on
    Routes              pure operators: the route matcher and the metrics' labels
    OnRequest           startup, CONNECT and the requests of one connection, over Build and Routes
    OnRequestProofs     theorems about OnRequest: types, who is served and by which way out
    IdentityProofs      theorems about OnRequest, Directive and Build: what is asked for is had
    RoutesProofs        theorems about Routes and what OnRequest counts
    MCOnRequest         sets of configurations and requests
    Diagnosis           pure operators: Classify, diagnose, errorType, upstreamFailure
    HopDialer           the dial attempts of a request, over Diagnosis
    HopDialerProofs     theorems about HopDialer
    MCHopDialer         instances
    Encoding            one response's body
    MCEncoding          instances of Encoding alone, for finding 5 and an observation
    RequestBody         one request's body over the transport's attempts
    Exchange            headers out, body out, response back: over Encoding and RequestBody
    ExchangeProofs      theorems about Exchange: the body, the headers and their log, the response
    MCExchange          calls and answers
    CaFiles             the CA's two files
    MCCaFiles           instances of CaFiles alone, for an observation
    CertStore           the leaf stores of the replicas, on top of CaFiles
    CertStoreProofs     theorems about CaFiles and CertStore
    MCCertStore         instances

Operators named `Fault...` are small, plausible mistakes in the definition that
follows them: with one of them in the definition's place TLC finds the property
that is meant to notice violated. No specification uses them.

### ClientCache

A step is one section under `Cache.mu`, except where something outside the mutex
can see into it: `Release` takes no lock, so a section that retires a client is
cut between the store of `retired` and the load of `inflight` (`Evict...`, then
`RetireCheck`), and `Release` between its add and its load (`Release`, then
`ReleaseCheck`). These are the steps the sequentially consistent atomics of Go
have. Builds, the observer's calls and the round trip run outside the mutex and
are steps of their own.

| Code | Actions |
|---|---|
| `Cache.Get` | `GetHit`, `GetWait`, `GetMiss`; then `BuildOk` or `BuildFail`; `EvictOldest`* `Insert`; `Publish`; `ReportBuilt`, `ReportEvicted` |
| `Cache.share` | `Share`, `ShareFailed` |
| `Client.RoundTrip`, `Release` | `RoundTrip`; `Release`, `ReleaseCheck` |
| `Cache.Sweep` | `SweepStart`, `SweepEvict`/`SweepKeep` in any order of the map, `SweepEnd`, `SweepReport` |
| `Cache.Close` | `CloseStart`, `CloseEvict`, `CloseEnd` |

A member of `Client` is a `pending` record together with the client its build
returns. The collector gives names out again: a miss may take any name nothing
refers to (`Unreferenced`), so runs are unbounded in length and finite in state.
`Time` is a set of readings and any of them may be read at any moment: this
covers clocks that jump, and the properties hold under all of them.
`ClientPool` has one variable, `slot`; `SlotOf` maps the cache to it (cached,
being built between registration and insert or failure, or absent).

### ProxyServer

A request goes `idle`, `checked` (it has loaded `draining`), `deciding` (it has
counted itself), `leased`, `sending`, then `headers` or `failed`, then
`streaming`, `read`, `closed` or `answered`. Its timer and its client's
departure may strike at any step. The main goroutine goes `serving`,
`draining`, `shutdown`, `leaving`, `exited`. Which directives a request carries
is free: every branch of `onRequest` is open to every request. `Shutdown`
returns when no plain request is left or the grace is over; it does not see
tunnelled requests, whose connections are hijacked.

### Directive, Build, Routes and OnRequest

`Directive` has `NewPolicy`, `Parse`, `Infer`, `Resolutions`, `Spec` and `Key` as
operators over header maps in which values are tokens; all eighteen directives
are there, and each schema accepts some tokens and refuses others. `Build` has
the tables that `impersonate.Build` keeps apart from the schema's, and every
reason for which it refuses, or would call a nil function or dereference a nil
setting on, what it is handed. `Routes` has the validation of routes, the matcher and the
labels and values of the request collectors.

`OnRequest` strings them together:

| Code | Actions |
|---|---|
| `run`: policy, `ProxyHosts`, `RequireProxy`, `metrics.New` | `Start`: serving, refused, or panicked |
| `BasicConnect`, `onConnect` | `Connect` |
| `plainAuth` | a guard of `Receive`, and `Challenge` |
| `onRequest` up to `resolve` | `Receive` |
| `tunnel.pick`; `Resolve` and `tunnel.remember` | `Pick`; `ChooseIdentity`, which panics where `Resolve` would pick of none (`PicksFromNone`) |
| `upgrade`, `clients.Get`, `Build` | `GetClient`: served by the client cached under the Spec's key, or by a new one, or a teapot, or a panic |
| `finish` | `Finish`, which counts the request under its route |

Several workers are HTTP/2 streams of a tunnel; a client that is not `tunnelled`
sends plain requests. `cached` is the client of the last build, so that a key
that left out something of the Spec would hand it to the wrong request.

### Diagnosis and HopDialer

An attempt goes `new`, `begun`, `dialing`, `handshake` (https hops), `connect`,
`asked`, then `stopping` or, when the hop refuses, `refusing` (the head of the answer
is there, its body is being read), and ends `up`, `dropped` or `failed`; its AfterFunc
is `off`, `armed`, `started`, `ran` or `stopped`. Each step writes the memo as the
code does. A dial, a handshake, the CONNECT and the origin may each fail by a timeout
of the network (`NetTimeouts`: the system's, the resolver's, surf's own timers) while
the context is live, and `Classify` names that a timeout too. The body of a refusal
is read to its end or to what cuts it, whose error the code drops: either way the
verdict stands (`BodyRead`). What the transport does with a request is surf's and `net/http`'s
code: it may start attempts one after the other or at once, give the request a
connection another one returned, drop a tunnel and fall back, and fail. The
constant `Liberties` says which of these a run allows. `Diagnosis` is the
classification, with errors as records of what `errors.As` finds in them.

### RequestBody, Encoding and Exchange

`RequestBody` follows the client's stream through the attempts of the transport:
`replayable.Read` is `ReadChunk` and `Mark`, since the bytes are out, and counted,
before `consumed` is set; `Retry` is `GetBody`, which hands out the same reader or
refuses. `Overlapping` says whether the transport may ask while an attempt still
reads. `Encoding` follows one response through `negotiate`, the client's read and
the close. Bodies are told apart by how far a decoder gets: `whole`, `foreign`
(wrong from the first bytes), `unopenable` (the header is refused after it was
read), `corrupt` (breaks later), `nothing`.

`Exchange` joins the two by the request's headers: `Prepare` reads the offers,
clones for Keep and strips; `SendHeaders` lays the profile over the rest and runs
`finalize`; `SendBody` is a step of `RequestBody`; `Answer` lets the origin see
what was sent; `Deliver` is a step of `Encoding`.

### CaFiles and CertStore

`CaFiles` has each `os.Stat`, read and both halves of each `os.WriteFile`
(truncate, fill) as steps, with crashes, failed writes, a lost file and an
operator's `chmod` in between. `CertStore` adds a store to each running replica:
`Fetch` is the first section of the mutex, `Gen` or `GenFails` the signing outside
it, `Insert` the second section with its arbitrary victim, `Verify` the client.
A process takes its store and its handshakes with it.

## 3. Runs

| Run | Instance | States | Shows |
|---|---|---|---|
| `cache_contention` | 3 goroutines, 2 keys, 4 names, room for 1, everything stale | 362,000 | all safety of the cache, and `ImplementsPool` |
| `cache_ends` | 2 goroutines, 1 key, fairness | 17,000 | `GetReturns`, `RetiredIsClosed` |
| `cache_release_race` | as contention | - | *violation*: finding 1 |
| `cache_share_race` | as contention | - | *violation*: finding 2 |
| `server_requests` | 2 requests, fairness | 94,000 | all of ProxyServer |
| `server_drain_race` | 2 requests | - | *violation*: finding 3 |
| `identity_connection` | 384 policies with each request of a set; shapes, tables, routes, logins, schemes; 4 requests for lists, 2 for the cache | 406,000 | all of OnRequest, Directive, Build, Routes |
| `identity_h2_race` | 2 workers on one tunnel | - | *violation*: finding 4 |
| `hop_requests` | 2 attempts, in turn or at once, with and without a hop, fairness | 333,000 | all of HopDialer |
| `encoding_bodies` | every mode, coding, status, length and body but `unopenable`, for every way to offer and to keep; a body of 2 chunks over 2 attempts | 344,000 | all of Exchange |
| `encoding_unopenable` | with `unopenable` | - | *violation*: finding 5 |
| `ca_restarts` | 1 replica, 3 creations, 3 hosts, 2 handshakes, room for 2 leaves | 5,700 | `LeafIsTrusted`, `StoreBounded`, `OwnFilesAccepted` |

Why the bounds are enough. *Cache*: with room for one client and two keys every
insert is at the limit and evicts; three goroutines are a builder, a waiter and
a holder, or two holders of a client that a third one evicts, which is all a
client's two words can be raced by. One reading of the clock with a negative TTL
makes every client stale, so that only `inflight` keeps the sweeper off. Names:
a cached client and one that each goroutine refers to need `MaxClients +
|Proc|`, and nobody ever waits for a name; in `cache_ends` two do, as with one
key the last goroutine can only miss when nothing is cached. Liveness is checked
with one key, where a client is retired by the sweep and by `Close`; `evict` is
the same code there as for a full cache. *Server*: requests interact only
through `active` and the main goroutine; two give a request that the drain sees
and one that it does not. The theorems cover any number. *Identity*: a request
reads nothing of earlier ones but `picks` and the cache, so one request per
configuration suffices for everything but those; lists are asked for four times
on a connection, and clients that differ in browser, proxy, preset or resolver
meet each other in the cache two at a time, which is all a key can confuse. The
sets of requests are the products of the values that the code tells apart, one
set for each group of directives that it treats together, and every preset by
itself. Two routes and up to three segments give each verdict of a pattern and
each order of two routes that overlap.
*Hop*: two attempts are one and its fallback; a third meets the same memo.
*Exchange*: attempts meet only through the stream, and an attempt that broke with
a chunk read and one to come is what the next must not continue; the theorem
covers any number of both.
*CA*: three identities to create and one provided: a third creation would need
two restarts that find the directory empty, and `LoseFile` leaves one file. Two
handshakes of three hosts over a store of two are two insertions at the limit
that both found room, or both evict, the host's own leaf included.

Deadlock is checked for the cache and the CA files. It is not for the other
modules, which really stop: the process exits, the connection's requests are
spent, the response is closed.

Fairness, and why the code justifies it.
- *Cache*: `Build` and `Share` wait for `Cache.mu`; they are strongly fair as
  `sync.Mutex` hands itself to a waiter that has starved for a millisecond. A
  build is local work. Holders use and release their client: the request has an
  end (below), and its body is closed by goproxy. The sweeper and the closer
  finish what they have begun, and nothing makes them begin.
- *Server*: the main goroutine runs, the grace's context expires, a goroutine
  runs through `onRequest`, an armed timer fires, the transport returns when its
  context is cancelled. Nothing makes an upstream answer, a client read, or a
  body end.
- *Hop*: the dialer's own steps, a dial and a handshake that obey their context,
  the runtime's AfterFunc, a read that meets its deadline, of a refusal's body
  included. Nothing makes the hop
  answer.

## 4. Properties

Each says in its module's comment what it promises and of which code. The ones a
reviewer should read first:

- `InflightCounts`, `NoLeak`: the two halves of the reference counting, with the
  waiters' late acquire and the two-step release; `RetiredIsClosed` its progress.
- `SingleFlight`, `Capacity`, `ImplementsPool`: what the locked sections add up to.
- `GaugeAccounts`: the gauge is written outside the mutex and in any order; it
  is right up to the calls still to come.
- `ActiveCounts`, `LeaseEndsWithRequest`: four ways out of a request and a body
  that is closed several times.
- `ExitSparesPlain`: requests that `Drain` misses but `Shutdown` waits for.
- `RequestWins`, `EgressObeysPolicy`, `AcceptedPolicyServes`: configurations,
  requests and the clients that earlier ones left in the cache, against each other.
- `ValidatedIsBuildable`: the schema's tables against those of `Build`, where a name
  missing in the second would panic inside `Cache.Get`; and the pools that `Resolve`
  picks from, none of them empty.
- `OnlyUsersServed`: the two ways in, one authenticated at the CONNECT and the
  other at every request.
- `CountedAsDeclared`: labels fixed at startup against values gathered later, over
  routes that overlap.
- `TunnelOutlivesContext`, `RefusalIsFinal`, `OwnPhaseIsTrue`: the AfterFunc and
  the memo.
- `TimeoutIsPlaced`: an attempt that was cut fails with the context's error or the
  hop's verdict, whatever the connection said; a 504 has a timeout behind it, of the
  request or of the network, and is placed where it struck: in the hop's phase under
  way, at the origin's response, or at the connection.
- `WholeBodyOrNone`: no retry continues where a failed attempt stopped.
- `HeadersArrive`, `KeepGetsBytes`: what Keep hands back on the way out decides what
  the client may be handed on the way in.
- `BodyFitsLabel`, `OfferedIsKept`, `UnofferedIsDecoded`: headers and bytes.
- `LeafIsTrusted`: no sequence of crashes, evictions and handshakes hands a client a
  leaf of another host or another CA. `OneCA`, which it includes, is proved.

## 5. Findings

1. **A client may be closed under its holder** (`client.go:46`). `Release` brings
   `inflight` to zero; before it loads `retired`, another `Get` leases the same
   client and an eviction retires it, leaving the close to the last `Release`;
   the first one now reads `retired` and closes. `cache_release_race`.
2. **`share` may return a closed client** (`cache.go:96`). A waiter acquires
   after it was woken, in a section of its own; the builder may have released
   the client and an eviction closed it by then. `cache_share_race`.
3. **`Drain` may miss a request** (`handler.go:55`). `draining` is loaded before
   `active` is raised; `Drain` stores the one and loads the other in between,
   and the process exits under a tunnelled request with grace left. Plain
   requests are safe, since `Shutdown` waits for them (`ExitSparesPlain`,
   proved). `server_drain_race`.
4. **Two choices on one tunnel** (`handler.go:123`). The lookup and the
   remembering are two sections. `identity_h2_race`.
5. **A beheaded body** (`encoding.go:80`). A gzip or zlib header that is refused
   after the peek has been read off the body that is then passed through.
   `encoding_unopenable`.

Smaller disagreements, each with a configuration that has TLC show it, outside
the standing runs:

- `MCProxyServer_timer.cfg` (`TimerSparesBody`): the timeout's timer fires
  between the transport's return and `timer.Stop()` (`roundtrip.go:54`) and cuts
  the body of a response that was in time; `README.md:60` calls the timeout the
  "time to response headers".
- `MCOnRequest_plain.cfg` (`ChosenOnce`): plain mode has no tunnel to remember
  in (`handler.go:122`), while `README.md:51` promises one choice per connection.
- `MCOnRequest_match.cfg` (`MatchFitsOs`): an Edge User-Agent with `X-Tip-Os: iOS`
  is refused under defaults that, by `README.md:84`, give "every request a real
  fingerprint" (`handler.go:85`).
- `MCHopDialer_reuse.cfg` (`PhaseIsTrue`): a request given an idle connection
  while its own dial is under way, then timing out on the origin, blames the hop
  (`roundtrip.go:146`).
- `MCHopDialer_name.cfg` (`KindNamesCause`): `Classify` matches words in texts
  that carry host names (`client.go:95`).
- `MCOnRequest_capture.cfg` (`CapturesStart`): a capture named like one of a
  collector's own labels (`host`) makes `metrics.New` panic at startup, where
  `README.md:182` offers captures without such a condition.
- `MCOnRequest_host.cfg` (`UpgradeKeepsHost`): an IPv6 literal on port 80 that
  `X-Tip-Scheme` upgrades loses its brackets in the Host header (`handler.go:150`).
- `MCExchange_keep.cfg` (`DirectivesStay`): `X-Tip-Keep: X-Tip-Browser` hands the
  directive back, while `README.md:94` has every `X-Tip-*` header removed.
- `MCExchange_overlap.cfg` (`WholeBodyOrNone`): a transport that asked for the body
  while an attempt still reads could catch `replayable` between its read and its
  mark; net/http asks in turn, and the theorem assumes so.
- `MCEncoding_refused.cfg` (`UnofferedIsDecoded`): `gzip;q=0` counts as an offer
  (`encoding.go:21`).
- `MCCaFiles_shared.cfg` (`OneCA`): replicas that start together on one empty
  volume each mint a CA (`ca.go:26`), while `helm/tip/values.yaml:76` says a
  shared volume prevents that.

## 6. Proofs

TLAPS checks them for every value of the constants. The assumptions on these are
named in the modules that declare them, and TLC evaluates each on the instances:

- *Sizes*: `ConstantsAssumption` (sets of goroutines and keys are finite and
  disjoint from their marks, `MaxClients` is positive), `RequestAssumption` (finitely
  many requests), `CertCacheSizeAssumption`, `AttemptsAssumption`, `MaxRequestsIsNat`.
- *Marks*: `None` and its kind are none of the values they are told apart from
  (`MarksAreNoIds`, `MarksDiffer`, `NoneIsNothing`, `NoneIsNoRefusal`,
  `NoneIsNoVersion`, `VerdictsAreRefusals`).
- *Inputs*: a header that is there has a line, and a list of it a token
  (`RequestsAreWritten`, `DefaultsAreWritten`); header maps are finite and hold
  sequences (`CallsHaveHeaders`); routes are what the YAML can say, with a host
  (`RoutesAreWritten`; paths are sequences of segments and a segment a sequence of
  strings); a response that HTTP gives no body has none (`AnswersAreSendable`).
- *Freedom*: `ClientsAreFree`, for `AcceptedPolicyServes` alone: among the requests
  are one without directives and, where a proxy is required and none is the default,
  one that names a proxy of the allow-list.

Where a theorem assumes more, its statement says so: `WholeBodyInTurn`,
`ChosenOnceInOrder`, `BodiesFitLabels`, `UnofferedAreDecoded` and those about a single
replica, each with a configuration (section 5) that shows why it must.

**ClientCacheProofs.** `InflightCounts` is not inductive: that a goroutine's
acquire adds exactly one lessee needs to know where it was, who owns the name it
acquires, and that the name's outcome cannot change under it. The argument goes
in layers, each an invariant by itself that the next one uses:

1. `Shape`: types of all variables but the counts (`TypeShape`), who holds `mu`
   at which step (`LockShape`), what a goroutine has in its locals (`LocalShape`).
2. `Ownership`: a name being built belongs to one goroutine (`BuilderOwns`), a
   registered flight has its builder (`FlightRegistered`), an outcome is known
   from the insert on (`OutcomeKnown`), a client between the two steps of retire
   is marked (`RetireOrder`), with `CachedIsLive` and `ClosedWasRetired`, which
   hold each other up.
3. `InflightCounts`, by four lemmas on cardinalities: an acquire adds a lessee, a
   release takes one away, other steps keep them.

From these follow `TypeCorrect` (counts never below zero), `SingleFlight`,
`Capacity` (an insert follows `Full` being false under the same lock), `NoLeak`
(inductive with the layers), and the action properties `SweepSparesLessees` and
`RetireSparesLessees`. `CacheImplementsPool` maps every action to a `Start`,
`Fill`, `Abort` or `Drop` of the pool or to a stutter, which the shape of `SlotOf`
decides, and needs `SingleFlight` and `CachedIsLive` to know that no other key's
slot moves.

`GaugeAccounts` says that the gauge is the size of the cache, less the builds and
plus the evictions whose reports are to come. The evictions are a number per thread,
written as the set `PendingEvictions` of pairs of a thread and a number below its
count, so that their sum is a cardinality; `GaugeInv` adds that the set is finite.
Each step moves one element of one of three sets, or moves one element from a set
to another, and what remains is arithmetic. It ends where `Close` begins, which
reports nothing.

**ProxyServerProofs.** `Shape` ties lease, timer, hook and status to the step a
request is at. `ActiveCounts` is then inductive by lemmas on one request joining
or leaving, `LeaseEndsWithRequest` follows at once, `DrainOnlyShrinks` needs
that `draining` is set from `Drain` on, and `ExitSparesPlain` is strengthened to
`PlainSpared`, which claims the same from the return of `Shutdown` on and adds
that nothing has drained before the drain is over: a request that slipped past
`Drain` is seen by `Shutdown`, and none starts after.

**OnRequestProofs.** Any number of workers, any configuration, any requests.
`OnlyUsersServed` follows from `DoorInv`: an open tunnel, and a worker past the
door, mean a user. `EgressObeysPolicy` follows from `EgressInv`: the policy that
serves is the configuration's, what `Parse` returns without issues fits it
(`ParsedProxy`), nothing between the parse and the build touches the proxy
(`SameProxy`), and what the cache holds is filed under its own key, which tells
the proxy (`KeyTellsProxy`). `ChosenOnce` is false in general (finding 4, and plain
mode below it): `ChosenOnceInOrder` assumes tunnels and a single worker, the
conditions whose absence the two counterexamples use, and shows that nothing else
is missing. Its invariant `PicksInv` says that what was given is what the tunnel
remembers, and that a worker about to choose has found nothing. `TypesHold` is proved
as `TypeInv`, worker by worker (`Typed`).

**IdentityProofs.** `WishInv` follows a request from its parse to its answer (`Kept`),
with a claim about the directive at each step: `Good`, that what passes into the
Spec as it came is the request's or else the default, and of the kinds that Build
knows (`TablesAgree`: the schema's tables are within Build's); `Wants`, that the lists
are those of the request where it has any; `Has`, that what was chosen is of these
lists and that the OS fits the browser. What a tunnel remembers is a choice for the
lists it is filed under (`Chosen`), so it serves as well as a new one; and a cached
client serves as well as a new one because equal keys mean equal fields
(`KeyTells`), which is `Right`. `RequestWins` and `ValidatedIsBuildable` are then parts
of `WishInv` (`GoodIsBuildable`; `PickFinds`: a browser left in the pool
has an OS to pick). `AcceptedPolicyServes` needs `AcceptedInv`, what
`Start` tested, and that each of the requests that `ClientsAreFree` promises has no
issues under it (`BarePasses`, `ProxiedPasses`).

**RoutesProofs.** Lemmas give each operator of the matcher the meaning that `Covers`
and `CapturedBy` state independently of its walk: hosts (`HostMatches`), the patterns
of a path up to the one that decides (`PathMatches`), the first route that covers
(`MatchIs`), what it captures (`CapturedIs`).
`CountInv` says that what was counted last came from `Finished` under routes that
`NewMatcher` accepted; `FinishedFits` says that this has one value for each label:
the fixed ones first, then for each captured name what the path has there.

**HopDialerProofs.** Any number of attempts, in turn or at once. `FuncInv` ties the
AfterFunc and the deadline to the attempt's step and the end of its context:
`TunnelOutlives`. `AnswerInv` says that every refusal in the memo or in an error was
the hop's answer to an attempt, and that an error is the context's only after the
context ended; `RefusalRelayed` follows step by step. `TurnInv`, for dials that do
not overlap: no attempt goes on once a hop has refused, whence `RefusalsAreFinal`, and
while one is under way the memo holds its phase. `PhaseInv`: the memo's phase is one an
attempt is in or ended in, whence `OwnPhases`. `TimeoutsArePlaced` puts these together:
an attempt that its AfterFunc caught was caught after its context had ended (`FuncInv`),
so `cause` gives the context's error; with its own connection a request that was sent
finds the memo without a phase (`PhaseInv`) and `Connected` set (`SentInv`); and what the response
says of a timeout follows from the error's own phase or the memo's (`BlameDiagnosed`),
which is that of the one attempt under way (`TurnInv`).

**ExchangeProofs.** `WholeBodyInTurn` assumes `~Overlapping`. Its invariant
`BodyInv` has one attempt under way at a time, which has been given all that was
read, and `consumed` telling of it but in the middle of a `Read`: so a retry that
`GetBody` allows starts at the first chunk.

`HeaderInv` says what the headers, the offers and the kept original are on each leg,
and that nothing is sent or answered before the last; what `Finalized` does to a
name follows by cases (`HeadersKept`), the first half of `HeadersArrive`. For the
second, `LinesAre`: whatever order `SetToSeq` lists the remaining names in, the
flattened lines hold each name's in one block and nothing else. That goes by
induction over the names, made of the least element of a set of numbers (`CountUp`)
because the library's induction theorems take an operator: adding a block under a
new name moves no other (`PlacedStays`) and completes its own (`PlacedLast`).

`AnswerInv` says how label, length, decoder and what the client gets follow from
what the origin sent (`Negotiated`, `Given`). `OffersAreKept` and `UnofferedAreDecoded`
read it off for each mode; `BodiesFitLabels` needs that no body is `unopenable`
(finding 5); `KeepBringsBytes` joins it to `HeaderInv`: the offers that decide are
those that went out.

**CertStoreProofs.** `StoreBounded` needs nothing but the bound's sign: `Insert`
tests and inserts in one section (`Replaced` counts). The rest assumes one
replica (`Alone`), as `MCCaFiles_shared.cfg` shows it must. `CaInv` ties what a
start has read or made to what the files hold, and says that once clients trust a
CA one half of it stays, so that no start creates another; `OneCA` follows.
`OwnInv` says which pairs of files a start can meet while nothing harmed them.
`LeafInv` adds that only a serving replica has leaves, all by the trusted CA.

**Model-checked only.** Liveness, and whatever rests on ENABLED, is out of the
provers' reach: `GetReturns`, `RetiredIsClosed`, `ShutdownEnds`,
`TimedRequestsReturn`, `StalledAttemptEnds`. The finite bounds on clients' names and
readings of the clock that they need are in section 3. What `SetToSeq` and `CHOOSE`
pick is left open by the proofs, which hold for any pick, and is one fixed order in
TLC's runs.

## 7. Not modelled

- *Configuration* (`config/*.go`): one YAML document is read, defaulted and validated
  once, in sequence and without state. Its bounds are the models' assumptions.
- *Logging and redaction*: text. Of the debug log only which header lines it shows is
  modelled (`HeadersArrive`).
- *Examples, container and chart*: no program state.
- In parts that are otherwise modelled: the options that `Build` gives surf once it
  has accepted a Spec, the relayed headers and wording of failures, SOCKS and DNS,
  `/ca.pem`, `/profiles`, `/healthz`, the counters that only count up, flags,
  `preserveWriter`, and the fields of certificates.
- Two hazards that the models contain and no property names: `Cache.Close` leaves
  the flights alone (`cache.go:154`), so a build that ends after it inserts a client
  that only the end of the process closes; and a clock that steps back
  (`cache.go:115`) makes `leastRecent` choose another victim and postpones a sweep,
  under which all of ClientCache's properties hold, since `Time` may be read in any
  order.
- The transport, goproxy and `net/http` are modelled as far as TIP relies on them,
  and marked external. The cache is not composed with the server: `ProxyServer`
  knows of a client only that it is leased and given back, which is what
  `ClientCache` assumes of its holders.

## 8. Plan

The order so far: cache, server, identity, hop, encoding, CA files; then the leaf
store, the request's body, headers and the exchange, the build, routes and
authentication; then proofs of every safety property of these. Next:

1. A composition of `ProxyServer` and `ClientCache` through `Get` and `Release`, with
   the lease of each request a holder of the cache.
2. Abstract specifications for `CertStore` (a bounded map of trusted leaves) and for
   the hop's memo, with the refinements proved as `CacheImplementsPool` is.

To reproduce: `tlc -workers 2 -config <run's cfg> <run's module>` for each entry
of "runs" in `PROJECT.json`, and `tlapm <module>` for each `*Proofs.tla`.
