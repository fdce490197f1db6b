----------------------------- MODULE ClientCache -----------------------------
(***************************************************************************)
(* The cache of impersonating clients: internal/impersonate/cache.go with  *)
(* the reference counting of internal/impersonate/client.go.               *)
(*                                                                         *)
(* Request goroutines (Proc) lease a client from Get, send one request     *)
(* with it and Release it.  The sweeper goroutine of cmd/tip calls Sweep   *)
(* at every tick of its clock and the main goroutine (Closer) calls Close  *)
(* when the program ends.  Cache.mu makes each section between Lock and    *)
(* Unlock exclusive, but Release runs without it: a section that retires a *)
(* client is therefore two steps (store `retired`, then load `inflight`),  *)
(* and so is Release (add to `inflight`, then load `retired`).             *)
(*                                                                         *)
(* A member of Client names one `pending` record together with the client  *)
(* its build returns, and is given out again once nothing refers to it, as *)
(* the garbage collector does.                                             *)
(***************************************************************************)
EXTENDS Integers, FiniteSets

CONSTANTS Key,         \* the cache keys, directive.Spec.Key()
          Client,      \* names for pending records and their clients
          Proc,        \* the request goroutines
          Sweeper,     \* the goroutine of cmd/tip sweep()
          Closer,      \* the main goroutine, which closes the cache
          MaxClients,  \* CacheOptions.Max
          Time,        \* readings of the wall clock
          IdleTtl,     \* CacheOptions.IdleTtl
          None,        \* no key, client or thread
          Building     \* a slot being built, for the abstract ClientPool

Thread == Proc \cup {Sweeper, Closer}

ASSUME ConstantsAssumption ==
  /\ IsFiniteSet(Key) /\ IsFiniteSet(Proc)
  /\ MaxClients \in Nat \ {0}
  /\ Time \subseteq Int /\ Time # {} /\ IdleTtl \in Int
  /\ Sweeper \notin Proc /\ Closer \notin Proc /\ Sweeper # Closer
  /\ None \notin Key \cup Client \cup Thread
  /\ Building \notin Client \cup {None}

VARIABLES
  entries,   \* Cache.entries: the cached client of a key
  pending,   \* Cache.pending: the flight building a key's client
  mu,        \* the thread holding Cache.mu
  retiring,  \* the client between the two halves of retire(), under mu
  todo,      \* the keys a Sweep or a Close has still to visit, under mu
  cutoff,    \* the cutoff of the Sweep under way
  inflight,  \* Client.inflight
  lastUsed,  \* Client.lastUsed
  retired,   \* Client.retired
  closed,    \* Client.closed
  outcome,   \* pending.client and pending.err: what the build gave
  done,      \* pending.done is closed
  pc,        \* where each thread is
  want,      \* the key a request goroutine asked for
  held,      \* the flight it waits for or the client it leased
  unreported,\* evictions a thread has still to pass to the observer
  gauge      \* metrics clientsActive, moved by ClientBuilt and ClientEvicted

cacheVars  == <<entries, pending, mu, retiring, todo, cutoff>>
clientVars == <<inflight, lastUsed, retired, closed>>
flightVars == <<outcome, done>>
procVars   == <<want, held>>
obsVars    == <<unreported, gauge>>
vars == <<cacheVars, clientVars, flightVars, pc, procVars, obsVars>>

ProcState == {"idle", "waiting", "building", "inserting", "publishing",
              "reporting", "reportingEvictions", "holding", "serving",
              "refused", "released"}

TypeOK ==
  /\ entries \in [Key -> Client \cup {None}]
  /\ pending \in [Key -> Client \cup {None}]
  /\ mu \in Thread \cup {None}
  /\ retiring \in Client \cup {None}
  /\ todo \subseteq Key
  /\ cutoff \in Int
  /\ inflight \in [Client -> Nat]
  /\ lastUsed \in [Client -> Int]
  /\ retired \in [Client -> BOOLEAN]
  /\ closed \in [Client -> BOOLEAN]
  /\ outcome \in [Client -> {"none", "built", "failed"}]
  /\ done \in [Client -> BOOLEAN]
  /\ pc \in [Thread -> ProcState \cup {"sweeping", "closing", "ended"}]
  /\ want \in [Proc -> Key \cup {None}]
  /\ held \in [Proc -> Client \cup {None}]
  /\ unreported \in [Thread -> Nat]
  /\ gauge \in Int

Init ==
  /\ entries = [k \in Key |-> None]
  /\ pending = [k \in Key |-> None]
  /\ mu = None /\ retiring = None /\ todo = {} /\ cutoff = 0
  /\ inflight = [c \in Client |-> 0]
  /\ lastUsed = [c \in Client |-> 0]
  /\ retired = [c \in Client |-> FALSE]
  /\ closed = [c \in Client |-> FALSE]
  /\ outcome = [c \in Client |-> "none"]
  /\ done = [c \in Client |-> FALSE]
  /\ pc = [t \in Thread |-> "idle"]
  /\ want = [p \in Proc |-> None]
  /\ held = [p \in Proc |-> None]
  /\ unreported = [t \in Thread |-> 0]
  /\ gauge = 0

-----------------------------------------------------------------------------
(* Single faults of the helpers below, one plausible slip each; every       *)
(* property is shown to fail under one of them.                            *)

FaultAcquireStores(c) == \E now \in Time :
  /\ inflight' = [inflight EXCEPT ![c] = 1]
  /\ lastUsed' = [lastUsed EXCEPT ![c] = now]

FaultAcquireForgets(c) == \E now \in Time :
  lastUsed' = [lastUsed EXCEPT ![c] = now] /\ UNCHANGED inflight

FaultFullOffByOne == Cardinality({k \in Key : entries[k] # None}) > MaxClients

FaultRegisterNothing(k, c) == UNCHANGED pending

FaultNeverClose(c) == UNCHANGED closed

FaultIdleIgnoresLessees(c) == lastUsed[c] < cutoff

FaultEvictionUncounted(t) == UNCHANGED unreported

FaultWakeOnSuccessOnly(c) ==
  IF outcome[c] = "built" THEN done' = [done EXCEPT ![c] = TRUE]
                          ELSE UNCHANGED done

-----------------------------------------------------------------------------
(* Helpers *)

GoTo(t, from, to) == pc[t] = from /\ pc' = [pc EXCEPT ![t] = to]

CachedKeys == {k \in Key : entries[k] # None}

(* The condition of insert()'s loop.                                       *)
Full == Cardinality(CachedKeys) >= MaxClients

(* A name nothing refers to: no map, no goroutine, no half-done retire.    *)
Unreferenced(c) ==
  /\ \A k \in Key : entries[k] # c /\ pending[k] # c
  /\ \A p \in Proc : held[p] # c
  /\ retiring # c

(* acquire(): both stores happen under mu.                                 *)
Acquire(c) == \E now \in Time :
  /\ inflight' = [inflight EXCEPT ![c] = @ + 1]
  /\ lastUsed' = [lastUsed EXCEPT ![c] = now]

(* leastRecent(): any key of the smallest lastUsed, map order being free.  *)
LeastRecent ==
  {k \in CachedKeys : \A l \in CachedKeys :
                        lastUsed[entries[k]] <= lastUsed[entries[l]]}

(* evict() up to the first store of retire().                              *)
Evict(k) ==
  /\ entries' = [entries EXCEPT ![k] = None]
  /\ retired' = [retired EXCEPT ![entries[k]] = TRUE]
  /\ retiring' = entries[k]

(* Close(), behind closeOnce: a second call changes nothing.               *)
CloseClient(c) == closed' = [closed EXCEPT ![c] = TRUE]

(* The second halves of retire() and of Release().                         *)
CloseIfUnused(c) == IF inflight[c] = 0 THEN CloseClient(c) ELSE UNCHANGED closed
CloseIfRetired(c) == IF retired[c] THEN CloseClient(c) ELSE UNCHANGED closed

Register(k, c) == pending' = [pending EXCEPT ![k] = c]

Wake(c) == done' = [done EXCEPT ![c] = TRUE]

CountEviction(t) == unreported' = [unreported EXCEPT ![t] = @ + 1]

(* What Sweep evicts.                                                      *)
Idle(c) == lastUsed[c] < cutoff /\ inflight[c] = 0

-----------------------------------------------------------------------------
(* Get *)

(* The client is cached: lease it.                                         *)
GetHit(p, k) ==
  /\ mu = None
  /\ entries[k] # None
  /\ GoTo(p, "idle", "holding")
  /\ Acquire(entries[k])
  /\ held' = [held EXCEPT ![p] = entries[k]]
  /\ UNCHANGED <<cacheVars, retired, closed, flightVars, want, obsVars>>

(* Another goroutine is building it: wait for that flight.                 *)
GetWait(p, k) ==
  /\ mu = None
  /\ entries[k] = None /\ pending[k] # None
  /\ GoTo(p, "idle", "waiting")
  /\ held' = [held EXCEPT ![p] = pending[k]]
  /\ UNCHANGED <<cacheVars, clientVars, flightVars, want, obsVars>>

(* Neither: register a flight and build.                                   *)
GetMiss(p, k) ==
  /\ mu = None
  /\ entries[k] = None /\ pending[k] = None
  /\ GoTo(p, "idle", "building")
  /\ \E c \in Client :
       /\ Unreferenced(c)
       /\ Register(k, c)
       /\ held' = [held EXCEPT ![p] = c]
       /\ inflight' = [inflight EXCEPT ![c] = 0]
       /\ lastUsed' = [lastUsed EXCEPT ![c] = 0]
       /\ retired' = [retired EXCEPT ![c] = FALSE]
       /\ closed' = [closed EXCEPT ![c] = FALSE]
       /\ outcome' = [outcome EXCEPT ![c] = "none"]
       /\ done' = [done EXCEPT ![c] = FALSE]
  /\ want' = [want EXCEPT ![p] = k]
  /\ UNCHANGED <<entries, mu, retiring, todo, cutoff, obsVars>>

(* The build, which runs unlocked, succeeded: lock, end the flight.        *)
BuildOk(p) ==
  /\ mu = None
  /\ GoTo(p, "building", "inserting")
  /\ mu' = p
  /\ pending' = [pending EXCEPT ![want[p]] = None]
  /\ outcome' = [outcome EXCEPT ![held[p]] = "built"]
  /\ UNCHANGED <<entries, retiring, todo, cutoff, clientVars, done, procVars,
                 obsVars>>

(* It failed: the same, with nothing to insert before the unlock.          *)
BuildFail(p) ==
  /\ mu = None
  /\ GoTo(p, "building", "publishing")
  /\ pending' = [pending EXCEPT ![want[p]] = None]
  /\ outcome' = [outcome EXCEPT ![held[p]] = "failed"]
  /\ want' = [want EXCEPT ![p] = None]
  /\ UNCHANGED <<entries, mu, retiring, todo, cutoff, clientVars, done, held,
                 obsVars>>

(* insert(), one turn of its loop: the cache is full, evict the oldest.    *)
EvictOldest(p) ==
  /\ pc[p] = "inserting" /\ retiring = None
  /\ Full
  /\ \E k \in LeastRecent : Evict(k)
  /\ CountEviction(p)
  /\ UNCHANGED <<pending, mu, todo, cutoff, inflight, lastUsed, closed,
                 flightVars, pc, procVars, gauge>>

(* insert() after its loop, then the builder's own acquire and the unlock. *)
Insert(p) ==
  /\ retiring = None
  /\ ~Full
  /\ GoTo(p, "inserting", "publishing")
  /\ entries' = [entries EXCEPT ![want[p]] = held[p]]
  /\ Acquire(held[p])
  /\ mu' = None
  /\ want' = [want EXCEPT ![p] = None]
  /\ UNCHANGED <<pending, retiring, todo, cutoff, retired, closed, flightVars,
                 held, obsVars>>

(* close(p.done); a goroutine whose build failed returns the error.        *)
Publish(p) ==
  /\ GoTo(p, "publishing",
          IF outcome[held[p]] = "failed" THEN "idle" ELSE "reporting")
  /\ Wake(held[p])
  /\ held' = [held EXCEPT ![p] = IF outcome[@] = "failed" THEN None ELSE @]
  /\ UNCHANGED <<cacheVars, clientVars, outcome, want, obsVars>>

ReportBuilt(p) ==
  /\ GoTo(p, "reporting",
          IF unreported[p] > 0 THEN "reportingEvictions" ELSE "holding")
  /\ gauge' = gauge + 1
  /\ UNCHANGED <<cacheVars, clientVars, flightVars, procVars, unreported>>

ReportEvicted(p) ==
  /\ GoTo(p, "reportingEvictions",
          IF unreported[p] > 1 THEN "reportingEvictions" ELSE "holding")
  /\ unreported' = [unreported EXCEPT ![p] = @ - 1]
  /\ gauge' = gauge - 1
  /\ UNCHANGED <<cacheVars, clientVars, flightVars, procVars>>

(* share(): the flight is over, lock again to lease the client it built.   *)
Share(p) ==
  /\ mu = None
  /\ GoTo(p, "waiting", "holding")
  /\ done[held[p]] /\ outcome[held[p]] = "built"
  /\ Acquire(held[p])
  /\ UNCHANGED <<cacheVars, retired, closed, flightVars, procVars, obsVars>>

ShareFailed(p) ==
  /\ GoTo(p, "waiting", "idle")
  /\ done[held[p]] /\ outcome[held[p]] = "failed"
  /\ held' = [held EXCEPT ![p] = None]
  /\ UNCHANGED <<cacheVars, clientVars, flightVars, want, obsVars>>

-----------------------------------------------------------------------------
(* Client *)

(* Client.RoundTrip: ErrClosed when the client is closed already.          *)
RoundTrip(p) ==
  /\ GoTo(p, "holding", IF closed[held[p]] THEN "refused" ELSE "serving")
  /\ UNCHANGED <<cacheVars, clientVars, flightVars, procVars, obsVars>>

(* Release(), its inflight.Add(-1): the last holder goes on to look at     *)
(* retired, any other one is through.                                      *)
Release(p) ==
  LET last == inflight[held[p]] = 1 IN
  /\ pc[p] \in {"serving", "refused"}
  /\ inflight' = [inflight EXCEPT ![held[p]] = @ - 1]
  /\ pc' = [pc EXCEPT ![p] = IF last THEN "released" ELSE "idle"]
  /\ held' = [held EXCEPT ![p] = IF last THEN @ ELSE None]
  /\ UNCHANGED <<cacheVars, lastUsed, retired, closed, flightVars, want,
                 obsVars>>

(* Release(), its retired.Load(), and Close() when it is set.              *)
ReleaseCheck(p) ==
  /\ GoTo(p, "released", "idle")
  /\ CloseIfRetired(held[p])
  /\ held' = [held EXCEPT ![p] = None]
  /\ UNCHANGED <<cacheVars, inflight, lastUsed, retired, flightVars, want,
                 obsVars>>

(* retire(), its inflight.Load(), by the thread that holds mu.             *)
RetireCheck ==
  /\ retiring # None
  /\ CloseIfUnused(retiring)
  /\ retiring' = None
  /\ UNCHANGED <<entries, pending, mu, todo, cutoff, inflight, lastUsed,
                 retired, flightVars, pc, procVars, obsVars>>

-----------------------------------------------------------------------------
(* Sweep and Close *)

SweepStart ==
  /\ mu = None
  /\ GoTo(Sweeper, "idle", "sweeping")
  /\ mu' = Sweeper
  /\ todo' = CachedKeys
  /\ \E now \in Time : cutoff' = now - IdleTtl
  /\ UNCHANGED <<entries, pending, retiring, clientVars, flightVars, procVars,
                 obsVars>>

SweepEvict(k) ==
  /\ pc[Sweeper] = "sweeping" /\ retiring = None
  /\ k \in todo /\ Idle(entries[k])
  /\ Evict(k)
  /\ todo' = todo \ {k}
  /\ CountEviction(Sweeper)
  /\ UNCHANGED <<pending, mu, cutoff, inflight, lastUsed, closed, flightVars,
                 pc, procVars, gauge>>

SweepKeep(k) ==
  /\ pc[Sweeper] = "sweeping" /\ retiring = None
  /\ k \in todo /\ ~Idle(entries[k])
  /\ todo' = todo \ {k}
  /\ UNCHANGED <<entries, pending, mu, retiring, cutoff, clientVars,
                 flightVars, pc, procVars, obsVars>>

SweepEnd ==
  /\ retiring = None /\ todo = {}
  /\ GoTo(Sweeper, "sweeping", "reportingEvictions")
  /\ mu' = None
  /\ cutoff' = 0
  /\ UNCHANGED <<entries, pending, retiring, todo, clientVars, flightVars,
                 procVars, obsVars>>

SweepReport ==
  /\ pc[Sweeper] = "reportingEvictions"
  /\ IF unreported[Sweeper] > 0
       THEN /\ unreported' = [unreported EXCEPT ![Sweeper] = @ - 1]
            /\ gauge' = gauge - 1
            /\ UNCHANGED pc
       ELSE /\ GoTo(Sweeper, "reportingEvictions", "idle")
            /\ UNCHANGED obsVars
  /\ UNCHANGED <<cacheVars, clientVars, flightVars, procVars>>

CloseStart ==
  /\ mu = None
  /\ GoTo(Closer, "idle", "closing")
  /\ mu' = Closer
  /\ todo' = CachedKeys
  /\ UNCHANGED <<entries, pending, retiring, cutoff, clientVars, flightVars,
                 procVars, obsVars>>

(* No observer call here: Close() evicts without reporting.                *)
CloseEvict(k) ==
  /\ pc[Closer] = "closing" /\ retiring = None
  /\ k \in todo
  /\ Evict(k)
  /\ todo' = todo \ {k}
  /\ UNCHANGED <<pending, mu, cutoff, inflight, lastUsed, closed, flightVars,
                 pc, procVars, obsVars>>

CloseEnd ==
  /\ retiring = None /\ todo = {}
  /\ GoTo(Closer, "closing", "ended")
  /\ mu' = None
  /\ UNCHANGED <<entries, pending, retiring, todo, cutoff, clientVars,
                 flightVars, procVars, obsVars>>

-----------------------------------------------------------------------------

Get(p) == \E k \in Key : GetHit(p, k) \/ GetWait(p, k) \/ GetMiss(p, k)

(* What a goroutine inside Get does to return from it.                     *)
Build(p) == BuildOk(p) \/ BuildFail(p)

Return(p) ==
  \/ EvictOldest(p) \/ Insert(p) \/ Publish(p) \/ ReportBuilt(p)
  \/ ReportEvicted(p) \/ Share(p) \/ ShareFailed(p)

Use(p) == RoundTrip(p) \/ Release(p) \/ ReleaseCheck(p)

Sweep == SweepStart \/ (\E k \in Key : SweepEvict(k) \/ SweepKeep(k))
         \/ SweepEnd \/ SweepReport

Close == CloseStart \/ (\E k \in Key : CloseEvict(k)) \/ CloseEnd

Next ==
  \/ \E p \in Proc : Get(p) \/ Build(p) \/ Return(p) \/ Use(p)
  \/ RetireCheck
  \/ Sweep
  \/ Close

Spec == Init /\ [][Next]_vars

(* Fairness.  A goroutine that can run runs.  sync.Mutex hands the lock to *)
(* a waiter that has starved for a millisecond, so locking is strongly     *)
(* fair; a build is local work and ends; a holder's request ends and its   *)
(* body is closed, which is what releases the client.                      *)
Fairness ==
  /\ \A p \in Proc : /\ SF_vars(Build(p))
                     /\ SF_vars(Share(p))
                     /\ WF_vars(Return(p))
                     /\ WF_vars(Use(p))
  /\ WF_vars(RetireCheck)
  /\ WF_vars(Sweep /\ pc[Sweeper] # "idle")
  /\ WF_vars(Close /\ pc[Closer] # "idle")

FairSpec == Spec /\ Fairness

-----------------------------------------------------------------------------
(* Properties *)

(* The goroutines that have acquired c and not yet given it back.          *)
Lessees(c) ==
  {p \in Proc : /\ held[p] = c
                /\ outcome[c] = "built"
                /\ pc[p] \in {"publishing", "reporting", "reportingEvictions",
                             "holding", "serving", "refused"}}

(* Get can only hand out what is in `entries`: a client found there is     *)
(* built, neither retired nor closed, and cached under one key only, at    *)
(* every moment, the inside of an eviction included (evict, retire).       *)
CachedIsLive ==
  \A k \in Key : entries[k] # None =>
    /\ outcome[entries[k]] = "built"
    /\ ~retired[entries[k]] /\ ~closed[entries[k]]
    /\ \A l \in Key : entries[l] = entries[k] => l = k

(* insert makes room before it adds, so concurrent builds of several keys  *)
(* never push the cache past opts.Max.                                     *)
Capacity == Cardinality(CachedKeys) <= MaxClients

(* One flight per key (cache.go:62-70): two goroutines never build the     *)
(* same key at once, a key being built is not cached, and a registered     *)
(* flight has its builder.                                                 *)
SingleFlight ==
  /\ \A k \in Key : pending[k] # None =>
       /\ entries[k] = None
       /\ \E p \in Proc : pc[p] = "building" /\ want[p] = k /\ held[p] = pending[k]
  /\ \A p, q \in Proc :
       pc[p] \in {"building", "inserting"} /\ pc[q] \in {"building", "inserting"}
         /\ want[p] = want[q] => p = q

(* inflight is exactly the number of goroutines that hold the client,      *)
(* whichever of the three acquires and however many releases came between. *)
InflightCounts == \A c \in Client : inflight[c] = Cardinality(Lessees(c))

(* Release and retire each write first and read the other's word second:   *)
(* whoever comes last closes.  Once no thread is between its two steps, a  *)
(* retired client nobody holds is closed, so no transport leaks.           *)
NoLeak ==
  \A c \in Client :
    /\ retired[c] /\ inflight[c] = 0 /\ retiring # c
    /\ \A p \in Proc : ~(pc[p] = "released" /\ held[p] = c)
    => closed[c]

(* Builds whose ClientBuilt has not been called yet. *)
PendingBuilds ==
  {p \in Proc : \/ pc[p] = "reporting"
                \/ pc[p] = "publishing" /\ outcome[held[p]] = "built"}

(* Evictions whose ClientEvicted has not been called yet: a thread's first, second... *)
PendingEvictions == UNION {{t} \X (1..unreported[t]) : t \in Thread}

(* The clients gauge of the metrics is what the cache holds, less the      *)
(* builds and plus the evictions whose observer call is still to come      *)
(* (they are made after the unlock, in any order), until Close, which      *)
(* reports none.                                                           *)
GaugeAccounts ==
  pc[Closer] = "idle" =>
    gauge = Cardinality(CachedKeys) - Cardinality(PendingBuilds) + Cardinality(PendingEvictions)

(* A client is closed only after it was retired (never while Get can find  *)
(* it): Release looks at retired before it closes.                         *)
ClosedWasRetired == \A c \in Client : closed[c] => retired[c]

(* Sweep's test of inflight and its eviction are one locked section: it    *)
(* never retires a client some goroutine holds (cache.go:136).             *)
SweepSparesLessees ==
  [][pc[Sweeper] = "sweeping" =>
       \A c \in Client : retired'[c] /\ ~retired[c] => Lessees(c) = {}]_vars

(* retire() closes the transport itself only when nobody holds the client  *)
(* (client.go:67): an eviction under load leaves that to the last Release. *)
RetireSparesLessees ==
  [][retiring # None /\ retiring' = None /\ closed'[retiring] /\ ~closed[retiring]
       => Lessees(retiring) = {}]_vars

(* "retired client must still serve its in-flight holder": a client is     *)
(* never closed under a goroutine that holds it (client.go Release), while *)
(* the program is not shutting down.                                       *)
NeverClosedWhileHeld ==
  [][pc[Closer] = "idle" =>
       \A c \in Client : closed'[c] /\ ~closed[c] => Lessees(c) = {}]_vars

(* What Get returns to a goroutine that waited for another's build is a    *)
(* client it can use: share() never leases one already closed, while the   *)
(* program is not shutting down.                                           *)
SharedIsOpen ==
  [][pc[Closer] = "idle" =>
       \A p \in Proc : pc[p] = "waiting" /\ pc'[p] = "holding"
                           => ~closed'[held'[p]]]_vars

(* Every Get returns: a waiter is woken by its flight's end, failed or     *)
(* not, and a builder gets its lock back.                                  *)
GetReturns ==
  \A p \in Proc : pc[p] \in {"waiting", "building", "inserting", "publishing"}
                     ~> pc[p] \in {"idle", "holding"}

(* Every retired client is eventually closed, once its holders are done.   *)
RetiredIsClosed == \A c \in Client : retired[c] ~> closed[c]

(* A key is building from its registration to the insert or the failure,   *)
(* the locked stretch between delete(c.pending) and insert included.       *)
SlotOf(k) ==
  IF entries[k] # None THEN entries[k]
  ELSE IF pending[k] # None \/ \E p \in Proc : pc[p] = "inserting" /\ want[p] = k
       THEN Building
  ELSE None

(* The cache implements the pool of slots: Get, Sweep and Close, however   *)
(* they interleave, only ever start, fill, abort or drop one key's slot.   *)
Pool == INSTANCE ClientPool WITH slot <- [k \in Key |-> SlotOf(k)],
                                 Absent <- None

ImplementsPool == Pool!Spec
=============================================================================
