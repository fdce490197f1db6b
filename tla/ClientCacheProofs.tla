--------------------------- MODULE ClientCacheProofs ---------------------------
(***************************************************************************)
(* Proofs about ClientCache, for any number of goroutines, keys, clients,  *)
(* clock readings and any bound.  The inductive invariant is built in      *)
(* layers, each proved from the ones before: the shape of the state and    *)
(* the lock, who owns a flight, and how many hold a client.                *)
(***************************************************************************)
EXTENDS ClientCache, TLAPS, FiniteSetTheorems

(* TypeOK, but for inflight and unreported, whose sign takes an argument.  *)
TypeShape ==
  /\ entries \in [Key -> Client \cup {None}]
  /\ pending \in [Key -> Client \cup {None}]
  /\ mu \in Thread \cup {None}
  /\ retiring \in Client \cup {None}
  /\ todo \subseteq Key
  /\ cutoff \in Int
  /\ inflight \in [Client -> Int]
  /\ lastUsed \in [Client -> Int]
  /\ retired \in [Client -> BOOLEAN]
  /\ closed \in [Client -> BOOLEAN]
  /\ outcome \in [Client -> {"none", "built", "failed"}]
  /\ done \in [Client -> BOOLEAN]
  /\ pc \in [Thread -> ProcState \cup {"sweeping", "closing", "ended"}]
  /\ want \in [Proc -> Key \cup {None}]
  /\ held \in [Proc -> Client \cup {None}]
  /\ unreported \in [Thread -> Nat]
  /\ gauge \in Int

(* A thread is inside a locked section of several steps exactly while it   *)
(* holds mu, and a retire is under way only then.                          *)
LockShape ==
  /\ \A p \in Proc : pc[p] = "inserting" <=> mu = p
  /\ pc[Sweeper] = "sweeping" <=> mu = Sweeper
  /\ pc[Closer] = "closing" <=> mu = Closer
  /\ retiring # None => mu # None
  /\ mu \notin {Sweeper, Closer} => todo = {}
  /\ \A k \in todo : entries[k] # None

(* What a goroutine knows at each point.                                   *)
LocalShape ==
  \A p \in Proc :
    /\ pc[p] \in ProcState
    /\ pc[p] \in {"building", "inserting"} => want[p] \in Key
    /\ pc[p] = "idle" <=> held[p] = None
    /\ pc[p] = "reportingEvictions" => unreported[p] > 0

Shape == TypeShape /\ LockShape /\ LocalShape
LEMMA ShapeInvariant == Spec => []Shape
<1> USE ConstantsAssumption
<1>1. Init => Shape
  BY DEF Init, Shape, TypeShape, LockShape, LocalShape, ProcState, Thread
<1>2. Shape /\ [Next]_vars => Shape'
  <2> SUFFICES ASSUME Shape, [Next]_vars PROVE Shape'
    OBVIOUS
  <2> USE DEF Shape, TypeShape, LockShape, LocalShape, ProcState, Thread
  <2>1. ASSUME NEW p \in Proc, NEW k \in Key, GetHit(p, k)
        PROVE  Shape'
    BY <2>1 DEF GetHit, GoTo, Acquire, cacheVars, clientVars, flightVars, procVars, obsVars
  <2>2. ASSUME NEW p \in Proc, NEW k \in Key, GetWait(p, k)
        PROVE  Shape'
    BY <2>2 DEF GetWait, GoTo, cacheVars, clientVars, flightVars, procVars, obsVars
  <2>3. ASSUME NEW p \in Proc, NEW k \in Key, GetMiss(p, k)
        PROVE  Shape'
    BY <2>3 DEF GetMiss, GoTo, Unreferenced, Register, cacheVars, clientVars, flightVars, procVars, obsVars
  <2>4. ASSUME NEW p \in Proc, BuildOk(p)
        PROVE  Shape'
    BY <2>4 DEF BuildOk, GoTo, cacheVars, clientVars, flightVars, procVars, obsVars
  <2>5. ASSUME NEW p \in Proc, BuildFail(p)
        PROVE  Shape'
    BY <2>5 DEF BuildFail, GoTo, cacheVars, clientVars, flightVars, procVars, obsVars
  <2>6. ASSUME NEW p \in Proc, EvictOldest(p)
        PROVE  Shape'
    BY <2>6 DEF EvictOldest, Evict, LeastRecent, CachedKeys, CountEviction, cacheVars, clientVars, flightVars, procVars, obsVars
  <2>7. ASSUME NEW p \in Proc, Insert(p)
        PROVE  Shape'
    BY <2>7 DEF Insert, GoTo, Acquire, cacheVars, clientVars, flightVars, procVars, obsVars
  <2>8. ASSUME NEW p \in Proc, Publish(p)
        PROVE  Shape'
    BY <2>8 DEF Publish, GoTo, Wake, cacheVars, clientVars, flightVars, procVars, obsVars
  <2>9. ASSUME NEW p \in Proc, ReportBuilt(p)
        PROVE  Shape'
    BY <2>9 DEF ReportBuilt, GoTo, cacheVars, clientVars, flightVars, procVars, obsVars
  <2>10. ASSUME NEW p \in Proc, ReportEvicted(p)
        PROVE  Shape'
    BY <2>10 DEF ReportEvicted, GoTo, cacheVars, clientVars, flightVars, procVars, obsVars
  <2>11. ASSUME NEW p \in Proc, Share(p)
        PROVE  Shape'
    BY <2>11 DEF Share, GoTo, Acquire, cacheVars, clientVars, flightVars, procVars, obsVars
  <2>12. ASSUME NEW p \in Proc, ShareFailed(p)
        PROVE  Shape'
    BY <2>12 DEF ShareFailed, GoTo, cacheVars, clientVars, flightVars, procVars, obsVars
  <2>13. ASSUME NEW p \in Proc, RoundTrip(p)
        PROVE  Shape'
    BY <2>13 DEF RoundTrip, GoTo, cacheVars, clientVars, flightVars, procVars, obsVars
  <2>14. ASSUME NEW p \in Proc, Release(p)
        PROVE  Shape'
    BY <2>14 DEF Release, cacheVars, clientVars, flightVars, procVars, obsVars
  <2>15. ASSUME NEW p \in Proc, ReleaseCheck(p)
        PROVE  Shape'
    BY <2>15 DEF ReleaseCheck, GoTo, CloseIfRetired, CloseClient, cacheVars, clientVars, flightVars, procVars, obsVars
  <2>16. ASSUME RetireCheck
        PROVE  Shape'
    BY <2>16 DEF RetireCheck, CloseIfUnused, CloseClient, cacheVars, clientVars, flightVars, procVars, obsVars
  <2>17. ASSUME SweepStart
        PROVE  Shape'
    BY <2>17 DEF SweepStart, GoTo, CachedKeys, cacheVars, clientVars, flightVars, procVars, obsVars
  <2>18. ASSUME NEW k \in Key, SweepEvict(k)
        PROVE  Shape'
    BY <2>18 DEF SweepEvict, Evict, CountEviction, cacheVars, clientVars, flightVars, procVars, obsVars
  <2>19. ASSUME NEW k \in Key, SweepKeep(k)
        PROVE  Shape'
    BY <2>19 DEF SweepKeep, cacheVars, clientVars, flightVars, procVars, obsVars
  <2>20. ASSUME SweepEnd
        PROVE  Shape'
    BY <2>20 DEF SweepEnd, GoTo, cacheVars, clientVars, flightVars, procVars, obsVars
  <2>21. ASSUME SweepReport
        PROVE  Shape'
    BY <2>21 DEF SweepReport, GoTo, cacheVars, clientVars, flightVars, procVars, obsVars
  <2>22. ASSUME CloseStart
        PROVE  Shape'
    BY <2>22 DEF CloseStart, GoTo, CachedKeys, cacheVars, clientVars, flightVars, procVars, obsVars
  <2>23. ASSUME NEW k \in Key, CloseEvict(k)
        PROVE  Shape'
    BY <2>23 DEF CloseEvict, Evict, cacheVars, clientVars, flightVars, procVars, obsVars
  <2>24. ASSUME CloseEnd
        PROVE  Shape'
    BY <2>24 DEF CloseEnd, GoTo, cacheVars, clientVars, flightVars, procVars, obsVars
  <2>25. CASE UNCHANGED vars
    BY <2>25 DEF vars, cacheVars, clientVars, flightVars, procVars, obsVars
  <2>26. QED
    BY <2>1, <2>2, <2>3, <2>4, <2>5, <2>6, <2>7, <2>8, <2>9, <2>10, <2>11, <2>12, <2>13, <2>14, <2>15, <2>16, <2>17, <2>18, <2>19, <2>20, <2>21, <2>22, <2>23, <2>24, <2>25 DEF Next, Get, Build, Return, Use, Sweep, Close
<1>3. QED
  BY <1>1, <1>2, PTL DEF Spec

-----------------------------------------------------------------------------
(* Who owns a flight.  Its builder is the only goroutine that knows the    *)
(* client it builds, but for those that wait for the flight.               *)
BuilderOwns ==
  \A p \in Proc : pc[p] \in {"building", "inserting"} =>
    /\ ~retired[held[p]] /\ ~closed[held[p]] /\ retiring # held[p]
    /\ \A k \in Key : entries[k] # held[p]
    /\ \A q \in Proc : q # p /\ held[q] = held[p] => pc[q] = "waiting"

FlightRegistered ==
  /\ \A k \in Key : pending[k] # None =>
       /\ entries[k] = None
       /\ \E p \in Proc : pc[p] = "building" /\ want[p] = k /\ held[p] = pending[k]
  /\ \A p \in Proc : pc[p] = "building" => pending[want[p]] = held[p]
  /\ \A p \in Proc : pc[p] = "inserting" =>
       entries[want[p]] = None /\ pending[want[p]] = None

OutcomeKnown ==
  \A p \in Proc :
    /\ pc[p] = "building" => outcome[held[p]] = "none"
    /\ pc[p] = "publishing" => outcome[held[p]] \in {"built", "failed"}
    /\ pc[p] \in {"inserting", "reporting", "reportingEvictions", "holding",
                 "serving", "refused", "released"} => outcome[held[p]] = "built"

RetireOrder == retiring # None => retired[retiring]

Ownership ==
  /\ BuilderOwns /\ FlightRegistered /\ OutcomeKnown /\ RetireOrder
  /\ CachedIsLive /\ ClosedWasRetired

LEMMA OwnershipInvariant == Spec => []Ownership
<1> USE ConstantsAssumption
<1>1. Init => Ownership
  BY DEF Init, Ownership, BuilderOwns, FlightRegistered, OutcomeKnown,
         RetireOrder, CachedIsLive, ClosedWasRetired, Thread
<1>2. Shape /\ Ownership /\ [Next]_vars => Ownership'
  <2> SUFFICES ASSUME Shape, Ownership, [Next]_vars PROVE Ownership'
    OBVIOUS
  <2> USE DEF Shape, TypeShape, LockShape, LocalShape, Ownership, BuilderOwns,
              FlightRegistered, OutcomeKnown, RetireOrder, CachedIsLive,
              ClosedWasRetired, Thread
  <2>1. ASSUME NEW p \in Proc, NEW k \in Key, GetHit(p, k)
        PROVE  Ownership'
    BY <2>1 DEF GetHit, GoTo, Acquire, cacheVars, clientVars, flightVars, procVars, obsVars
  <2>2. ASSUME NEW p \in Proc, NEW k \in Key, GetWait(p, k)
        PROVE  Ownership'
    BY <2>2 DEF GetWait, GoTo, cacheVars, clientVars, flightVars, procVars, obsVars
  <2>3. ASSUME NEW p \in Proc, NEW k \in Key, GetMiss(p, k)
        PROVE  Ownership'
    BY <2>3 DEF GetMiss, GoTo, Unreferenced, Register, cacheVars, clientVars, flightVars, procVars, obsVars
  <2>4. ASSUME NEW p \in Proc, BuildOk(p)
        PROVE  Ownership'
    BY <2>4 DEF BuildOk, GoTo, cacheVars, clientVars, flightVars, procVars, obsVars
  <2>5. ASSUME NEW p \in Proc, BuildFail(p)
        PROVE  Ownership'
    BY <2>5 DEF BuildFail, GoTo, cacheVars, clientVars, flightVars, procVars, obsVars
  <2>6. ASSUME NEW p \in Proc, EvictOldest(p)
        PROVE  Ownership'
    BY <2>6 DEF EvictOldest, Evict, LeastRecent, CachedKeys, CountEviction, cacheVars, clientVars, flightVars, procVars, obsVars
  <2>7. ASSUME NEW p \in Proc, Insert(p)
        PROVE  Ownership'
    BY <2>7 DEF Insert, GoTo, Acquire, cacheVars, clientVars, flightVars, procVars, obsVars
  <2>8. ASSUME NEW p \in Proc, Publish(p)
        PROVE  Ownership'
    BY <2>8 DEF Publish, GoTo, Wake, cacheVars, clientVars, flightVars, procVars, obsVars
  <2>9. ASSUME NEW p \in Proc, ReportBuilt(p)
        PROVE  Ownership'
    BY <2>9 DEF ReportBuilt, GoTo, cacheVars, clientVars, flightVars, procVars, obsVars
  <2>10. ASSUME NEW p \in Proc, ReportEvicted(p)
        PROVE  Ownership'
    BY <2>10 DEF ReportEvicted, GoTo, cacheVars, clientVars, flightVars, procVars, obsVars
  <2>11. ASSUME NEW p \in Proc, Share(p)
        PROVE  Ownership'
    BY <2>11 DEF Share, GoTo, Acquire, cacheVars, clientVars, flightVars, procVars, obsVars
  <2>12. ASSUME NEW p \in Proc, ShareFailed(p)
        PROVE  Ownership'
    BY <2>12 DEF ShareFailed, GoTo, cacheVars, clientVars, flightVars, procVars, obsVars
  <2>13. ASSUME NEW p \in Proc, RoundTrip(p)
        PROVE  Ownership'
    BY <2>13 DEF RoundTrip, GoTo, cacheVars, clientVars, flightVars, procVars, obsVars
  <2>14. ASSUME NEW p \in Proc, Release(p)
        PROVE  Ownership'
    BY <2>14 DEF Release, cacheVars, clientVars, flightVars, procVars, obsVars
  <2>15. ASSUME NEW p \in Proc, ReleaseCheck(p)
        PROVE  Ownership'
    BY <2>15 DEF ReleaseCheck, GoTo, CloseIfRetired, CloseClient, cacheVars, clientVars, flightVars, procVars, obsVars
  <2>16. ASSUME RetireCheck
        PROVE  Ownership'
    BY <2>16 DEF RetireCheck, CloseIfUnused, CloseClient, cacheVars, clientVars, flightVars, procVars, obsVars
  <2>17. ASSUME SweepStart
        PROVE  Ownership'
    BY <2>17 DEF SweepStart, GoTo, CachedKeys, cacheVars, clientVars, flightVars, procVars, obsVars
  <2>18. ASSUME NEW k \in Key, SweepEvict(k)
        PROVE  Ownership'
    BY <2>18 DEF SweepEvict, Evict, CountEviction, cacheVars, clientVars, flightVars, procVars, obsVars
  <2>19. ASSUME NEW k \in Key, SweepKeep(k)
        PROVE  Ownership'
    BY <2>19 DEF SweepKeep, cacheVars, clientVars, flightVars, procVars, obsVars
  <2>20. ASSUME SweepEnd
        PROVE  Ownership'
    BY <2>20 DEF SweepEnd, GoTo, cacheVars, clientVars, flightVars, procVars, obsVars
  <2>21. ASSUME SweepReport
        PROVE  Ownership'
    BY <2>21 DEF SweepReport, GoTo, cacheVars, clientVars, flightVars, procVars, obsVars
  <2>22. ASSUME CloseStart
        PROVE  Ownership'
    BY <2>22 DEF CloseStart, GoTo, CachedKeys, cacheVars, clientVars, flightVars, procVars, obsVars
  <2>23. ASSUME NEW k \in Key, CloseEvict(k)
        PROVE  Ownership'
    BY <2>23 DEF CloseEvict, Evict, cacheVars, clientVars, flightVars, procVars, obsVars
  <2>24. ASSUME CloseEnd
        PROVE  Ownership'
    BY <2>24 DEF CloseEnd, GoTo, cacheVars, clientVars, flightVars, procVars, obsVars
  <2>25. CASE UNCHANGED vars
    BY <2>25 DEF vars, cacheVars, clientVars, flightVars, procVars, obsVars
  <2>26. QED
    BY <2>1, <2>2, <2>3, <2>4, <2>5, <2>6, <2>7, <2>8, <2>9, <2>10, <2>11, <2>12, <2>13, <2>14, <2>15, <2>16, <2>17, <2>18, <2>19, <2>20, <2>21, <2>22, <2>23, <2>24, <2>25 DEF Next, Get, Build, Return, Use, Sweep, Close
<1>3. QED
  BY <1>1, <1>2, ShapeInvariant, PTL DEF Spec
-----------------------------------------------------------------------------
(* How many hold a client.                                                 *)

LEMMA LesseesFinite ==
  ASSUME NEW c \in Client
  PROVE  IsFiniteSet(Lessees(c)) /\ Cardinality(Lessees(c)) \in Nat
<1>1. Lessees(c) \subseteq Proc
  BY DEF Lessees
<1>2. IsFiniteSet(Lessees(c))
  BY <1>1, ConstantsAssumption, FS_Subset
<1>3. QED
  BY <1>2, FS_CardinalityType

(* An acquire adds its goroutine to the lessees of one client.             *)
LEMMA AcquireCounts ==
  ASSUME TypeShape, InflightCounts, NEW p \in Proc, NEW d \in Client,
         inflight' = [inflight EXCEPT ![d] = @ + 1],
         p \notin Lessees(d), Lessees(d)' = Lessees(d) \cup {p},
         \A c \in Client \ {d} : Lessees(c)' = Lessees(c)
  PROVE  InflightCounts'
<1>1. Cardinality(Lessees(d) \cup {p}) = Cardinality(Lessees(d)) + 1
  BY LesseesFinite, FS_AddElement
<1>2. ASSUME NEW c \in Client
      PROVE  inflight'[c] = Cardinality(Lessees(c)')
  BY <1>1 DEF InflightCounts, TypeShape
<1>3. QED
  BY <1>2 DEF InflightCounts

(* A release takes its goroutine away from them.                           *)
LEMMA ReleaseCounts ==
  ASSUME TypeShape, InflightCounts, NEW p \in Proc, NEW d \in Client,
         inflight' = [inflight EXCEPT ![d] = @ - 1],
         p \in Lessees(d), Lessees(d)' = Lessees(d) \ {p},
         \A c \in Client \ {d} : Lessees(c)' = Lessees(c)
  PROVE  InflightCounts'
<1>1. Cardinality(Lessees(d) \ {p}) = Cardinality(Lessees(d)) - 1
  BY LesseesFinite, FS_RemoveElement
<1>2. ASSUME NEW c \in Client
      PROVE  inflight'[c] = Cardinality(Lessees(c)')
  BY <1>1 DEF InflightCounts, TypeShape
<1>3. QED
  BY <1>2 DEF InflightCounts

LEMMA SameCounts ==
  ASSUME InflightCounts, UNCHANGED inflight,
         \A c \in Client : Lessees(c)' = Lessees(c)
  PROVE  InflightCounts'
BY DEF InflightCounts

(* inflight is the number of lessees, in every reachable state.            *)
THEOREM InflightCountsInvariant == Spec => []InflightCounts
<1> USE ConstantsAssumption
<1>1. Init => InflightCounts
  <2> SUFFICES ASSUME Init, NEW c \in Client
               PROVE  inflight[c] = Cardinality(Lessees(c))
    BY DEF InflightCounts
  <2>1. Lessees(c) = {}
    BY DEF Init, Lessees, Thread
  <2>2. QED
    BY <2>1, FS_EmptySet DEF Init
<1>2. Shape /\ Ownership /\ InflightCounts /\ [Next]_vars => InflightCounts'
  <2> SUFFICES ASSUME Shape, Ownership, InflightCounts, [Next]_vars
               PROVE  InflightCounts'
    OBVIOUS
  <2>0. TypeShape
    BY DEF Shape
  <2>1. ASSUME NEW p \in Proc, NEW k \in Key, GetHit(p, k)
        PROVE  InflightCounts'
    <3>1. PICK d \in Client : d = entries[k] /\ inflight' = [inflight EXCEPT ![d] = @ + 1]
      BY <2>1 DEF GetHit, GoTo, Acquire, Shape, TypeShape, LocalShape, Thread
    <3>2. p \notin Lessees(d) /\ Lessees(d)' = Lessees(d) \cup {p}
      BY <2>1, <3>1 DEF GetHit, GoTo, Acquire, cacheVars, clientVars, flightVars, procVars, obsVars,
           Shape, TypeShape, LockShape, LocalShape, Ownership,
           BuilderOwns, FlightRegistered, OutcomeKnown, RetireOrder, CachedIsLive,
           Thread, Lessees
    <3>3. \A c \in Client \ {d} : Lessees(c)' = Lessees(c)
      BY <2>1, <3>1 DEF GetHit, GoTo, Acquire, cacheVars, clientVars, flightVars, procVars, obsVars,
           Shape, TypeShape, LockShape, LocalShape, Ownership,
           BuilderOwns, FlightRegistered, OutcomeKnown, RetireOrder, CachedIsLive,
           Thread, Lessees
    <3>4. QED
      BY <2>0, <3>1, <3>2, <3>3, AcquireCounts
  <2>2. ASSUME NEW p \in Proc, NEW k \in Key, GetWait(p, k)
        PROVE  InflightCounts'
    <3>1. \A c \in Client : Lessees(c)' = Lessees(c)
      BY <2>2 DEF GetWait, GoTo, cacheVars, clientVars, flightVars, procVars, obsVars,
           Shape, TypeShape, LockShape, LocalShape, Ownership,
           BuilderOwns, FlightRegistered, OutcomeKnown, RetireOrder, CachedIsLive,
           Thread, Lessees
    <3>2. QED
      BY <2>2, <3>1, SameCounts DEF GetWait, clientVars
  <2>3. ASSUME NEW p \in Proc, NEW k \in Key, GetMiss(p, k)
        PROVE  InflightCounts'
    <3>1. PICK d \in Client : /\ Unreferenced(d)
                            /\ held' = [held EXCEPT ![p] = d]
                            /\ inflight' = [inflight EXCEPT ![d] = 0]
                            /\ outcome' = [outcome EXCEPT ![d] = "none"]
                            /\ pc' = [pc EXCEPT ![p] = "building"]
                            /\ pc[p] = "idle"
      BY <2>3 DEF GetMiss, GoTo
    <3>2. Lessees(d)' = {}
      BY <3>1 DEF Shape, TypeShape, LockShape, LocalShape, Ownership,
           BuilderOwns, FlightRegistered, OutcomeKnown, RetireOrder, CachedIsLive,
           Thread, Lessees
    <3>3. inflight'[d] = Cardinality(Lessees(d)')
      BY <3>1, <3>2, FS_EmptySet DEF Shape, TypeShape
    <3>4. ASSUME NEW c \in Client \ {d}
          PROVE  inflight'[c] = Cardinality(Lessees(c)')
      <4>1. Lessees(c)' = Lessees(c)
        BY <3>1 DEF Shape, TypeShape, LockShape, LocalShape, Ownership,
           BuilderOwns, FlightRegistered, OutcomeKnown, RetireOrder, CachedIsLive,
           Thread, Lessees
      <4>2. QED
        BY <3>1, <4>1 DEF InflightCounts, Shape, TypeShape
    <3>5. QED
      BY <3>3, <3>4 DEF InflightCounts
  <2>4. ASSUME NEW p \in Proc, BuildOk(p)
        PROVE  InflightCounts'
    <3>1. \A c \in Client : Lessees(c)' = Lessees(c)
      BY <2>4 DEF BuildOk, GoTo, cacheVars, clientVars, flightVars, procVars, obsVars,
           Shape, TypeShape, LockShape, LocalShape, Ownership,
           BuilderOwns, FlightRegistered, OutcomeKnown, RetireOrder, CachedIsLive,
           Thread, Lessees
    <3>2. QED
      BY <2>4, <3>1, SameCounts DEF BuildOk, clientVars
  <2>5. ASSUME NEW p \in Proc, BuildFail(p)
        PROVE  InflightCounts'
    <3>1. \A c \in Client : Lessees(c)' = Lessees(c)
      BY <2>5 DEF BuildFail, GoTo, cacheVars, clientVars, flightVars, procVars, obsVars,
           Shape, TypeShape, LockShape, LocalShape, Ownership,
           BuilderOwns, FlightRegistered, OutcomeKnown, RetireOrder, CachedIsLive,
           Thread, Lessees
    <3>2. QED
      BY <2>5, <3>1, SameCounts DEF BuildFail, clientVars
  <2>6. ASSUME NEW p \in Proc, EvictOldest(p)
        PROVE  InflightCounts'
    <3>1. \A c \in Client : Lessees(c)' = Lessees(c)
      BY <2>6 DEF EvictOldest, Evict, LeastRecent, CachedKeys, CountEviction, cacheVars, clientVars, flightVars, procVars, obsVars,
           Shape, TypeShape, LockShape, LocalShape, Ownership,
           BuilderOwns, FlightRegistered, OutcomeKnown, RetireOrder, CachedIsLive,
           Thread, Lessees
    <3>2. QED
      BY <2>6, <3>1, SameCounts DEF EvictOldest, clientVars
  <2>7. ASSUME NEW p \in Proc, Insert(p)
        PROVE  InflightCounts'
    <3>1. PICK d \in Client : d = held[p] /\ inflight' = [inflight EXCEPT ![d] = @ + 1]
      BY <2>7 DEF Insert, GoTo, Acquire, Shape, TypeShape, LocalShape, Thread
    <3>2. p \notin Lessees(d) /\ Lessees(d)' = Lessees(d) \cup {p}
      BY <2>7, <3>1 DEF Insert, GoTo, Acquire, cacheVars, clientVars, flightVars, procVars, obsVars,
           Shape, TypeShape, LockShape, LocalShape, Ownership,
           BuilderOwns, FlightRegistered, OutcomeKnown, RetireOrder, CachedIsLive,
           Thread, Lessees
    <3>3. \A c \in Client \ {d} : Lessees(c)' = Lessees(c)
      BY <2>7, <3>1 DEF Insert, GoTo, Acquire, cacheVars, clientVars, flightVars, procVars, obsVars,
           Shape, TypeShape, LockShape, LocalShape, Ownership,
           BuilderOwns, FlightRegistered, OutcomeKnown, RetireOrder, CachedIsLive,
           Thread, Lessees
    <3>4. QED
      BY <2>0, <3>1, <3>2, <3>3, AcquireCounts
  <2>8. ASSUME NEW p \in Proc, Publish(p)
        PROVE  InflightCounts'
    <3>1. \A c \in Client : Lessees(c)' = Lessees(c)
      BY <2>8 DEF Publish, GoTo, Wake, cacheVars, clientVars, flightVars, procVars, obsVars,
           Shape, TypeShape, LockShape, LocalShape, Ownership,
           BuilderOwns, FlightRegistered, OutcomeKnown, RetireOrder, CachedIsLive,
           Thread, Lessees
    <3>2. QED
      BY <2>8, <3>1, SameCounts DEF Publish, clientVars
  <2>9. ASSUME NEW p \in Proc, ReportBuilt(p)
        PROVE  InflightCounts'
    <3>1. \A c \in Client : Lessees(c)' = Lessees(c)
      BY <2>9 DEF ReportBuilt, GoTo, cacheVars, clientVars, flightVars, procVars, obsVars,
           Shape, TypeShape, LockShape, LocalShape, Ownership,
           BuilderOwns, FlightRegistered, OutcomeKnown, RetireOrder, CachedIsLive,
           Thread, Lessees
    <3>2. QED
      BY <2>9, <3>1, SameCounts DEF ReportBuilt, clientVars
  <2>10. ASSUME NEW p \in Proc, ReportEvicted(p)
        PROVE  InflightCounts'
    <3>1. \A c \in Client : Lessees(c)' = Lessees(c)
      BY <2>10 DEF ReportEvicted, GoTo, cacheVars, clientVars, flightVars, procVars, obsVars,
           Shape, TypeShape, LockShape, LocalShape, Ownership,
           BuilderOwns, FlightRegistered, OutcomeKnown, RetireOrder, CachedIsLive,
           Thread, Lessees
    <3>2. QED
      BY <2>10, <3>1, SameCounts DEF ReportEvicted, clientVars
  <2>11. ASSUME NEW p \in Proc, Share(p)
        PROVE  InflightCounts'
    <3>1. PICK d \in Client : d = held[p] /\ inflight' = [inflight EXCEPT ![d] = @ + 1]
      BY <2>11 DEF Share, GoTo, Acquire, Shape, TypeShape, LocalShape, Thread
    <3>2. p \notin Lessees(d) /\ Lessees(d)' = Lessees(d) \cup {p}
      BY <2>11, <3>1 DEF Share, GoTo, Acquire, cacheVars, clientVars, flightVars, procVars, obsVars,
           Shape, TypeShape, LockShape, LocalShape, Ownership,
           BuilderOwns, FlightRegistered, OutcomeKnown, RetireOrder, CachedIsLive,
           Thread, Lessees
    <3>3. \A c \in Client \ {d} : Lessees(c)' = Lessees(c)
      BY <2>11, <3>1 DEF Share, GoTo, Acquire, cacheVars, clientVars, flightVars, procVars, obsVars,
           Shape, TypeShape, LockShape, LocalShape, Ownership,
           BuilderOwns, FlightRegistered, OutcomeKnown, RetireOrder, CachedIsLive,
           Thread, Lessees
    <3>4. QED
      BY <2>0, <3>1, <3>2, <3>3, AcquireCounts
  <2>12. ASSUME NEW p \in Proc, ShareFailed(p)
        PROVE  InflightCounts'
    <3>1. \A c \in Client : Lessees(c)' = Lessees(c)
      BY <2>12 DEF ShareFailed, GoTo, cacheVars, clientVars, flightVars, procVars, obsVars,
           Shape, TypeShape, LockShape, LocalShape, Ownership,
           BuilderOwns, FlightRegistered, OutcomeKnown, RetireOrder, CachedIsLive,
           Thread, Lessees
    <3>2. QED
      BY <2>12, <3>1, SameCounts DEF ShareFailed, clientVars
  <2>13. ASSUME NEW p \in Proc, RoundTrip(p)
        PROVE  InflightCounts'
    <3>1. \A c \in Client : Lessees(c)' = Lessees(c)
      BY <2>13 DEF RoundTrip, GoTo, cacheVars, clientVars, flightVars, procVars, obsVars,
           Shape, TypeShape, LockShape, LocalShape, Ownership,
           BuilderOwns, FlightRegistered, OutcomeKnown, RetireOrder, CachedIsLive,
           Thread, Lessees
    <3>2. QED
      BY <2>13, <3>1, SameCounts DEF RoundTrip, clientVars
  <2>14. ASSUME NEW p \in Proc, Release(p)
        PROVE  InflightCounts'
    <3>1. PICK d \in Client : d = held[p] /\ inflight' = [inflight EXCEPT ![d] = @ - 1]
      BY <2>14 DEF Release, Shape, TypeShape, LocalShape, Thread
    <3>2. p \in Lessees(d) /\ Lessees(d)' = Lessees(d) \ {p}
      BY <2>14, <3>1 DEF Release, cacheVars, clientVars, flightVars, procVars, obsVars,
           Shape, TypeShape, LockShape, LocalShape, Ownership,
           BuilderOwns, FlightRegistered, OutcomeKnown, RetireOrder, CachedIsLive,
           Thread, Lessees
    <3>3. \A c \in Client \ {d} : Lessees(c)' = Lessees(c)
      BY <2>14, <3>1 DEF Release, cacheVars, clientVars, flightVars, procVars, obsVars,
           Shape, TypeShape, LockShape, LocalShape, Ownership,
           BuilderOwns, FlightRegistered, OutcomeKnown, RetireOrder, CachedIsLive,
           Thread, Lessees
    <3>4. QED
      BY <2>0, <3>1, <3>2, <3>3, ReleaseCounts
  <2>15. ASSUME NEW p \in Proc, ReleaseCheck(p)
        PROVE  InflightCounts'
    <3>1. \A c \in Client : Lessees(c)' = Lessees(c)
      BY <2>15 DEF ReleaseCheck, GoTo, CloseIfRetired, CloseClient, cacheVars, clientVars, flightVars, procVars, obsVars,
           Shape, TypeShape, LockShape, LocalShape, Ownership,
           BuilderOwns, FlightRegistered, OutcomeKnown, RetireOrder, CachedIsLive,
           Thread, Lessees
    <3>2. QED
      BY <2>15, <3>1, SameCounts DEF ReleaseCheck, clientVars
  <2>16. ASSUME RetireCheck
        PROVE  InflightCounts'
    <3>1. \A c \in Client : Lessees(c)' = Lessees(c)
      BY <2>16 DEF RetireCheck, CloseIfUnused, CloseClient, cacheVars, clientVars, flightVars, procVars, obsVars,
           Shape, TypeShape, LockShape, LocalShape, Ownership,
           BuilderOwns, FlightRegistered, OutcomeKnown, RetireOrder, CachedIsLive,
           Thread, Lessees
    <3>2. QED
      BY <2>16, <3>1, SameCounts DEF RetireCheck, clientVars
  <2>17. ASSUME SweepStart
        PROVE  InflightCounts'
    <3>1. \A c \in Client : Lessees(c)' = Lessees(c)
      BY <2>17 DEF SweepStart, GoTo, CachedKeys, cacheVars, clientVars, flightVars, procVars, obsVars,
           Shape, TypeShape, LockShape, LocalShape, Ownership,
           BuilderOwns, FlightRegistered, OutcomeKnown, RetireOrder, CachedIsLive,
           Thread, Lessees
    <3>2. QED
      BY <2>17, <3>1, SameCounts DEF SweepStart, clientVars
  <2>18. ASSUME NEW k \in Key, SweepEvict(k)
        PROVE  InflightCounts'
    <3>1. \A c \in Client : Lessees(c)' = Lessees(c)
      BY <2>18 DEF SweepEvict, Evict, CountEviction, cacheVars, clientVars, flightVars, procVars, obsVars,
           Shape, TypeShape, LockShape, LocalShape, Ownership,
           BuilderOwns, FlightRegistered, OutcomeKnown, RetireOrder, CachedIsLive,
           Thread, Lessees
    <3>2. QED
      BY <2>18, <3>1, SameCounts DEF SweepEvict, clientVars
  <2>19. ASSUME NEW k \in Key, SweepKeep(k)
        PROVE  InflightCounts'
    <3>1. \A c \in Client : Lessees(c)' = Lessees(c)
      BY <2>19 DEF SweepKeep, cacheVars, clientVars, flightVars, procVars, obsVars,
           Shape, TypeShape, LockShape, LocalShape, Ownership,
           BuilderOwns, FlightRegistered, OutcomeKnown, RetireOrder, CachedIsLive,
           Thread, Lessees
    <3>2. QED
      BY <2>19, <3>1, SameCounts DEF SweepKeep, clientVars
  <2>20. ASSUME SweepEnd
        PROVE  InflightCounts'
    <3>1. \A c \in Client : Lessees(c)' = Lessees(c)
      BY <2>20 DEF SweepEnd, GoTo, cacheVars, clientVars, flightVars, procVars, obsVars,
           Shape, TypeShape, LockShape, LocalShape, Ownership,
           BuilderOwns, FlightRegistered, OutcomeKnown, RetireOrder, CachedIsLive,
           Thread, Lessees
    <3>2. QED
      BY <2>20, <3>1, SameCounts DEF SweepEnd, clientVars
  <2>21. ASSUME SweepReport
        PROVE  InflightCounts'
    <3>1. \A c \in Client : Lessees(c)' = Lessees(c)
      BY <2>21 DEF SweepReport, GoTo, cacheVars, clientVars, flightVars, procVars, obsVars,
           Shape, TypeShape, LockShape, LocalShape, Ownership,
           BuilderOwns, FlightRegistered, OutcomeKnown, RetireOrder, CachedIsLive,
           Thread, Lessees
    <3>2. QED
      BY <2>21, <3>1, SameCounts DEF SweepReport, clientVars
  <2>22. ASSUME CloseStart
        PROVE  InflightCounts'
    <3>1. \A c \in Client : Lessees(c)' = Lessees(c)
      BY <2>22 DEF CloseStart, GoTo, CachedKeys, cacheVars, clientVars, flightVars, procVars, obsVars,
           Shape, TypeShape, LockShape, LocalShape, Ownership,
           BuilderOwns, FlightRegistered, OutcomeKnown, RetireOrder, CachedIsLive,
           Thread, Lessees
    <3>2. QED
      BY <2>22, <3>1, SameCounts DEF CloseStart, clientVars
  <2>23. ASSUME NEW k \in Key, CloseEvict(k)
        PROVE  InflightCounts'
    <3>1. \A c \in Client : Lessees(c)' = Lessees(c)
      BY <2>23 DEF CloseEvict, Evict, cacheVars, clientVars, flightVars, procVars, obsVars,
           Shape, TypeShape, LockShape, LocalShape, Ownership,
           BuilderOwns, FlightRegistered, OutcomeKnown, RetireOrder, CachedIsLive,
           Thread, Lessees
    <3>2. QED
      BY <2>23, <3>1, SameCounts DEF CloseEvict, clientVars
  <2>24. ASSUME CloseEnd
        PROVE  InflightCounts'
    <3>1. \A c \in Client : Lessees(c)' = Lessees(c)
      BY <2>24 DEF CloseEnd, GoTo, cacheVars, clientVars, flightVars, procVars, obsVars,
           Shape, TypeShape, LockShape, LocalShape, Ownership,
           BuilderOwns, FlightRegistered, OutcomeKnown, RetireOrder, CachedIsLive,
           Thread, Lessees
    <3>2. QED
      BY <2>24, <3>1, SameCounts DEF CloseEnd, clientVars
  <2>25. CASE UNCHANGED vars
    <3>1. \A c \in Client : Lessees(c)' = Lessees(c)
      BY <2>25 DEF vars, cacheVars, clientVars, flightVars, procVars, obsVars, Lessees
    <3>2. QED
      BY <2>25, <3>1, SameCounts DEF vars, clientVars
  <2>26. QED
    BY <2>1, <2>2, <2>3, <2>4, <2>5, <2>6, <2>7, <2>8, <2>9, <2>10, <2>11, <2>12, <2>13, <2>14, <2>15, <2>16, <2>17, <2>18, <2>19, <2>20, <2>21, <2>22, <2>23, <2>24, <2>25 DEF Next, Get, Build, Return, Use, Sweep, Close
<1>3. QED
  BY <1>1, <1>2, ShapeInvariant, OwnershipInvariant, PTL DEF Spec

(* Type correctness, with a count that never goes below zero.              *)
THEOREM TypeCorrect == Spec => []TypeOK
<1>1. Shape /\ InflightCounts => TypeOK
  BY LesseesFinite DEF Shape, TypeShape, TypeOK, InflightCounts
<1>2. QED
  BY <1>1, ShapeInvariant, InflightCountsInvariant, PTL
-----------------------------------------------------------------------------
(* The properties.                                                         *)

(* What Get can hand out of the map is live, at every moment.              *)
THEOREM CachedIsLiveInvariant == Spec => []CachedIsLive
<1>1. Ownership => CachedIsLive
  BY DEF Ownership
<1>2. QED
  BY <1>1, OwnershipInvariant, PTL

(* A key has one flight at a time, with a builder, and is not cached.      *)
THEOREM SingleFlightInvariant == Spec => []SingleFlight
<1>1. Shape /\ Ownership => SingleFlight
  BY ConstantsAssumption
     DEF Shape, TypeShape, LockShape, LocalShape, Ownership, BuilderOwns,
         FlightRegistered, SingleFlight
<1>2. QED
  BY <1>1, ShapeInvariant, OwnershipInvariant, PTL

LEMMA CachedFinite == IsFiniteSet(CachedKeys) /\ Cardinality(CachedKeys) \in Nat
<1>1. CachedKeys \subseteq Key
  BY DEF CachedKeys
<1>2. QED
  BY <1>1, ConstantsAssumption, FS_Subset, FS_CardinalityType

LEMMA ShrinkKeepsCapacity ==
  ASSUME Capacity, CachedKeys' \subseteq CachedKeys
  PROVE  Capacity'
<1>1. Cardinality(CachedKeys') <= Cardinality(CachedKeys) /\ Cardinality(CachedKeys') \in Nat
  BY CachedFinite, FS_Subset, FS_CardinalityType
<1>2. QED
  BY <1>1, CachedFinite, ConstantsAssumption DEF Capacity

(* The cache never holds more than MaxClients clients.                     *)
THEOREM CapacityInvariant == Spec => []Capacity
<1> USE ConstantsAssumption
<1>1. Init => Capacity
  <2> SUFFICES ASSUME Init PROVE Capacity
    OBVIOUS
  <2>1. CachedKeys = {}
    BY DEF Init, CachedKeys
  <2>2. QED
    BY <2>1, FS_EmptySet DEF Capacity
<1>2. Shape /\ Capacity /\ [Next]_vars => Capacity'
  <2> SUFFICES ASSUME Shape, Capacity, [Next]_vars PROVE Capacity'
    OBVIOUS
  <2>1. ASSUME NEW p \in Proc, NEW k \in Key, GetHit(p, k)
        PROVE  Capacity'
    <3>1. CachedKeys' \subseteq CachedKeys
      BY <2>1 DEF GetHit, GoTo, Acquire, CachedKeys, cacheVars, Shape, TypeShape
    <3>2. QED
      BY <3>1, ShrinkKeepsCapacity
  <2>2. ASSUME NEW p \in Proc, NEW k \in Key, GetWait(p, k)
        PROVE  Capacity'
    <3>1. CachedKeys' \subseteq CachedKeys
      BY <2>2 DEF GetWait, GoTo, CachedKeys, cacheVars, Shape, TypeShape
    <3>2. QED
      BY <3>1, ShrinkKeepsCapacity
  <2>3. ASSUME NEW p \in Proc, NEW k \in Key, GetMiss(p, k)
        PROVE  Capacity'
    <3>1. CachedKeys' \subseteq CachedKeys
      BY <2>3 DEF GetMiss, GoTo, Unreferenced, Register, CachedKeys, cacheVars, Shape, TypeShape
    <3>2. QED
      BY <3>1, ShrinkKeepsCapacity
  <2>4. ASSUME NEW p \in Proc, BuildOk(p)
        PROVE  Capacity'
    <3>1. CachedKeys' \subseteq CachedKeys
      BY <2>4 DEF BuildOk, GoTo, CachedKeys, cacheVars, Shape, TypeShape
    <3>2. QED
      BY <3>1, ShrinkKeepsCapacity
  <2>5. ASSUME NEW p \in Proc, BuildFail(p)
        PROVE  Capacity'
    <3>1. CachedKeys' \subseteq CachedKeys
      BY <2>5 DEF BuildFail, GoTo, CachedKeys, cacheVars, Shape, TypeShape
    <3>2. QED
      BY <3>1, ShrinkKeepsCapacity
  <2>6. ASSUME NEW p \in Proc, EvictOldest(p)
        PROVE  Capacity'
    <3>1. CachedKeys' \subseteq CachedKeys
      BY <2>6 DEF EvictOldest, Evict, LeastRecent, CachedKeys, CountEviction, cacheVars, Shape, TypeShape
    <3>2. QED
      BY <3>1, ShrinkKeepsCapacity
  <2>7. ASSUME NEW p \in Proc, Insert(p)
        PROVE  Capacity'
    <3>1. want[p] \in Key /\ held[p] # None
      BY <2>7 DEF Insert, GoTo, Shape, TypeShape, LocalShape
    <3>2. CachedKeys' \subseteq CachedKeys \cup {want[p]}
      BY <2>7, <3>1 DEF Insert, CachedKeys, Shape, TypeShape
    <3>3. /\ IsFiniteSet(CachedKeys \cup {want[p]})
          /\ Cardinality(CachedKeys \cup {want[p]}) <= Cardinality(CachedKeys) + 1
          /\ Cardinality(CachedKeys \cup {want[p]}) \in Nat
      <4>1. /\ IsFiniteSet(CachedKeys \cup {want[p]})
            /\ Cardinality(CachedKeys \cup {want[p]}) =
                 IF want[p] \in CachedKeys THEN Cardinality(CachedKeys)
                                           ELSE Cardinality(CachedKeys) + 1
        BY CachedFinite, FS_AddElement
      <4>2. QED
        BY <4>1, CachedFinite
    <3>4. Cardinality(CachedKeys') <= Cardinality(CachedKeys) + 1
          /\ Cardinality(CachedKeys') \in Nat
      BY <3>2, <3>3, CachedFinite, FS_Subset, FS_CardinalityType
    <3>5. QED
      BY <2>7, <3>4, CachedFinite DEF Insert, Full, Capacity
  <2>8. ASSUME NEW p \in Proc, Publish(p)
        PROVE  Capacity'
    <3>1. CachedKeys' \subseteq CachedKeys
      BY <2>8 DEF Publish, GoTo, Wake, CachedKeys, cacheVars, Shape, TypeShape
    <3>2. QED
      BY <3>1, ShrinkKeepsCapacity
  <2>9. ASSUME NEW p \in Proc, ReportBuilt(p)
        PROVE  Capacity'
    <3>1. CachedKeys' \subseteq CachedKeys
      BY <2>9 DEF ReportBuilt, GoTo, CachedKeys, cacheVars, Shape, TypeShape
    <3>2. QED
      BY <3>1, ShrinkKeepsCapacity
  <2>10. ASSUME NEW p \in Proc, ReportEvicted(p)
        PROVE  Capacity'
    <3>1. CachedKeys' \subseteq CachedKeys
      BY <2>10 DEF ReportEvicted, GoTo, CachedKeys, cacheVars, Shape, TypeShape
    <3>2. QED
      BY <3>1, ShrinkKeepsCapacity
  <2>11. ASSUME NEW p \in Proc, Share(p)
        PROVE  Capacity'
    <3>1. CachedKeys' \subseteq CachedKeys
      BY <2>11 DEF Share, GoTo, Acquire, CachedKeys, cacheVars, Shape, TypeShape
    <3>2. QED
      BY <3>1, ShrinkKeepsCapacity
  <2>12. ASSUME NEW p \in Proc, ShareFailed(p)
        PROVE  Capacity'
    <3>1. CachedKeys' \subseteq CachedKeys
      BY <2>12 DEF ShareFailed, GoTo, CachedKeys, cacheVars, Shape, TypeShape
    <3>2. QED
      BY <3>1, ShrinkKeepsCapacity
  <2>13. ASSUME NEW p \in Proc, RoundTrip(p)
        PROVE  Capacity'
    <3>1. CachedKeys' \subseteq CachedKeys
      BY <2>13 DEF RoundTrip, GoTo, CachedKeys, cacheVars, Shape, TypeShape
    <3>2. QED
      BY <3>1, ShrinkKeepsCapacity
  <2>14. ASSUME NEW p \in Proc, Release(p)
        PROVE  Capacity'
    <3>1. CachedKeys' \subseteq CachedKeys
      BY <2>14 DEF Release, CachedKeys, cacheVars, Shape, TypeShape
    <3>2. QED
      BY <3>1, ShrinkKeepsCapacity
  <2>15. ASSUME NEW p \in Proc, ReleaseCheck(p)
        PROVE  Capacity'
    <3>1. CachedKeys' \subseteq CachedKeys
      BY <2>15 DEF ReleaseCheck, GoTo, CloseIfRetired, CloseClient, CachedKeys, cacheVars, Shape, TypeShape
    <3>2. QED
      BY <3>1, ShrinkKeepsCapacity
  <2>16. ASSUME RetireCheck
        PROVE  Capacity'
    <3>1. CachedKeys' \subseteq CachedKeys
      BY <2>16 DEF RetireCheck, CloseIfUnused, CloseClient, CachedKeys, cacheVars, Shape, TypeShape
    <3>2. QED
      BY <3>1, ShrinkKeepsCapacity
  <2>17. ASSUME SweepStart
        PROVE  Capacity'
    <3>1. CachedKeys' \subseteq CachedKeys
      BY <2>17 DEF SweepStart, GoTo, CachedKeys, cacheVars, Shape, TypeShape
    <3>2. QED
      BY <3>1, ShrinkKeepsCapacity
  <2>18. ASSUME NEW k \in Key, SweepEvict(k)
        PROVE  Capacity'
    <3>1. CachedKeys' \subseteq CachedKeys
      BY <2>18 DEF SweepEvict, Evict, CountEviction, CachedKeys, cacheVars, Shape, TypeShape
    <3>2. QED
      BY <3>1, ShrinkKeepsCapacity
  <2>19. ASSUME NEW k \in Key, SweepKeep(k)
        PROVE  Capacity'
    <3>1. CachedKeys' \subseteq CachedKeys
      BY <2>19 DEF SweepKeep, CachedKeys, cacheVars, Shape, TypeShape
    <3>2. QED
      BY <3>1, ShrinkKeepsCapacity
  <2>20. ASSUME SweepEnd
        PROVE  Capacity'
    <3>1. CachedKeys' \subseteq CachedKeys
      BY <2>20 DEF SweepEnd, GoTo, CachedKeys, cacheVars, Shape, TypeShape
    <3>2. QED
      BY <3>1, ShrinkKeepsCapacity
  <2>21. ASSUME SweepReport
        PROVE  Capacity'
    <3>1. CachedKeys' \subseteq CachedKeys
      BY <2>21 DEF SweepReport, GoTo, CachedKeys, cacheVars, Shape, TypeShape
    <3>2. QED
      BY <3>1, ShrinkKeepsCapacity
  <2>22. ASSUME CloseStart
        PROVE  Capacity'
    <3>1. CachedKeys' \subseteq CachedKeys
      BY <2>22 DEF CloseStart, GoTo, CachedKeys, cacheVars, Shape, TypeShape
    <3>2. QED
      BY <3>1, ShrinkKeepsCapacity
  <2>23. ASSUME NEW k \in Key, CloseEvict(k)
        PROVE  Capacity'
    <3>1. CachedKeys' \subseteq CachedKeys
      BY <2>23 DEF CloseEvict, Evict, CachedKeys, cacheVars, Shape, TypeShape
    <3>2. QED
      BY <3>1, ShrinkKeepsCapacity
  <2>24. ASSUME CloseEnd
        PROVE  Capacity'
    <3>1. CachedKeys' \subseteq CachedKeys
      BY <2>24 DEF CloseEnd, GoTo, CachedKeys, cacheVars, Shape, TypeShape
    <3>2. QED
      BY <3>1, ShrinkKeepsCapacity
  <2>25. CASE UNCHANGED vars
    BY <2>25 DEF vars, cacheVars, Capacity, CachedKeys
  <2>26. QED
    BY <2>1, <2>2, <2>3, <2>4, <2>5, <2>6, <2>7, <2>8, <2>9, <2>10, <2>11, <2>12, <2>13, <2>14, <2>15, <2>16, <2>17, <2>18, <2>19, <2>20, <2>21, <2>22, <2>23, <2>24, <2>25 DEF Next, Get, Build, Return, Use, Sweep, Close
<1>3. QED
  BY <1>1, <1>2, ShapeInvariant, PTL DEF Spec

(* Whoever comes last, the last Release or the retire, closes the client.  *)
THEOREM NoLeakInvariant == Spec => []NoLeak
<1> USE ConstantsAssumption
<1>1. Init => NoLeak
  BY DEF Init, NoLeak
<1>2. TypeOK /\ Shape /\ Ownership /\ InflightCounts /\ NoLeak /\ [Next]_vars => NoLeak'
  <2> SUFFICES ASSUME TypeOK, Shape, Ownership, InflightCounts, NoLeak, [Next]_vars
               PROVE  NoLeak'
    OBVIOUS
  <2>0. inflight \in [Client -> Nat]
    BY DEF TypeOK
  <2>1. ASSUME NEW p \in Proc, NEW k \in Key, GetHit(p, k)
        PROVE  NoLeak'
    BY <2>0, <2>1 DEF GetHit, GoTo, Acquire, NoLeak, cacheVars, clientVars, flightVars, procVars, obsVars,
           Shape, TypeShape, LockShape, LocalShape, Ownership,
           BuilderOwns, FlightRegistered, OutcomeKnown, RetireOrder, CachedIsLive,
           ClosedWasRetired, Thread
  <2>2. ASSUME NEW p \in Proc, NEW k \in Key, GetWait(p, k)
        PROVE  NoLeak'
    BY <2>0, <2>2 DEF GetWait, GoTo, NoLeak, cacheVars, clientVars, flightVars, procVars, obsVars,
           Shape, TypeShape, LockShape, LocalShape, Ownership,
           BuilderOwns, FlightRegistered, OutcomeKnown, RetireOrder, CachedIsLive,
           ClosedWasRetired, Thread
  <2>3. ASSUME NEW p \in Proc, NEW k \in Key, GetMiss(p, k)
        PROVE  NoLeak'
    BY <2>0, <2>3 DEF GetMiss, GoTo, Unreferenced, Register, NoLeak, cacheVars, clientVars, flightVars, procVars, obsVars,
           Shape, TypeShape, LockShape, LocalShape, Ownership,
           BuilderOwns, FlightRegistered, OutcomeKnown, RetireOrder, CachedIsLive,
           ClosedWasRetired, Thread
  <2>4. ASSUME NEW p \in Proc, BuildOk(p)
        PROVE  NoLeak'
    BY <2>0, <2>4 DEF BuildOk, GoTo, NoLeak, cacheVars, clientVars, flightVars, procVars, obsVars,
           Shape, TypeShape, LockShape, LocalShape, Ownership,
           BuilderOwns, FlightRegistered, OutcomeKnown, RetireOrder, CachedIsLive,
           ClosedWasRetired, Thread
  <2>5. ASSUME NEW p \in Proc, BuildFail(p)
        PROVE  NoLeak'
    BY <2>0, <2>5 DEF BuildFail, GoTo, NoLeak, cacheVars, clientVars, flightVars, procVars, obsVars,
           Shape, TypeShape, LockShape, LocalShape, Ownership,
           BuilderOwns, FlightRegistered, OutcomeKnown, RetireOrder, CachedIsLive,
           ClosedWasRetired, Thread
  <2>6. ASSUME NEW p \in Proc, EvictOldest(p)
        PROVE  NoLeak'
    BY <2>0, <2>6 DEF EvictOldest, Evict, LeastRecent, CachedKeys, CountEviction, NoLeak, cacheVars, clientVars, flightVars, procVars, obsVars,
           Shape, TypeShape, LockShape, LocalShape, Ownership,
           BuilderOwns, FlightRegistered, OutcomeKnown, RetireOrder, CachedIsLive,
           ClosedWasRetired, Thread
  <2>7. ASSUME NEW p \in Proc, Insert(p)
        PROVE  NoLeak'
    BY <2>0, <2>7 DEF Insert, GoTo, Acquire, NoLeak, cacheVars, clientVars, flightVars, procVars, obsVars,
           Shape, TypeShape, LockShape, LocalShape, Ownership,
           BuilderOwns, FlightRegistered, OutcomeKnown, RetireOrder, CachedIsLive,
           ClosedWasRetired, Thread
  <2>8. ASSUME NEW p \in Proc, Publish(p)
        PROVE  NoLeak'
    BY <2>0, <2>8 DEF Publish, GoTo, Wake, NoLeak, cacheVars, clientVars, flightVars, procVars, obsVars,
           Shape, TypeShape, LockShape, LocalShape, Ownership,
           BuilderOwns, FlightRegistered, OutcomeKnown, RetireOrder, CachedIsLive,
           ClosedWasRetired, Thread
  <2>9. ASSUME NEW p \in Proc, ReportBuilt(p)
        PROVE  NoLeak'
    BY <2>0, <2>9 DEF ReportBuilt, GoTo, NoLeak, cacheVars, clientVars, flightVars, procVars, obsVars,
           Shape, TypeShape, LockShape, LocalShape, Ownership,
           BuilderOwns, FlightRegistered, OutcomeKnown, RetireOrder, CachedIsLive,
           ClosedWasRetired, Thread
  <2>10. ASSUME NEW p \in Proc, ReportEvicted(p)
        PROVE  NoLeak'
    BY <2>0, <2>10 DEF ReportEvicted, GoTo, NoLeak, cacheVars, clientVars, flightVars, procVars, obsVars,
           Shape, TypeShape, LockShape, LocalShape, Ownership,
           BuilderOwns, FlightRegistered, OutcomeKnown, RetireOrder, CachedIsLive,
           ClosedWasRetired, Thread
  <2>11. ASSUME NEW p \in Proc, Share(p)
        PROVE  NoLeak'
    BY <2>0, <2>11 DEF Share, GoTo, Acquire, NoLeak, cacheVars, clientVars, flightVars, procVars, obsVars,
           Shape, TypeShape, LockShape, LocalShape, Ownership,
           BuilderOwns, FlightRegistered, OutcomeKnown, RetireOrder, CachedIsLive,
           ClosedWasRetired, Thread
  <2>12. ASSUME NEW p \in Proc, ShareFailed(p)
        PROVE  NoLeak'
    BY <2>0, <2>12 DEF ShareFailed, GoTo, NoLeak, cacheVars, clientVars, flightVars, procVars, obsVars,
           Shape, TypeShape, LockShape, LocalShape, Ownership,
           BuilderOwns, FlightRegistered, OutcomeKnown, RetireOrder, CachedIsLive,
           ClosedWasRetired, Thread
  <2>13. ASSUME NEW p \in Proc, RoundTrip(p)
        PROVE  NoLeak'
    BY <2>0, <2>13 DEF RoundTrip, GoTo, NoLeak, cacheVars, clientVars, flightVars, procVars, obsVars,
           Shape, TypeShape, LockShape, LocalShape, Ownership,
           BuilderOwns, FlightRegistered, OutcomeKnown, RetireOrder, CachedIsLive,
           ClosedWasRetired, Thread
  <2>14. ASSUME NEW p \in Proc, Release(p)
        PROVE  NoLeak'
    BY <2>0, <2>14 DEF Release, NoLeak, cacheVars, clientVars, flightVars, procVars, obsVars,
           Shape, TypeShape, LockShape, LocalShape, Ownership,
           BuilderOwns, FlightRegistered, OutcomeKnown, RetireOrder, CachedIsLive,
           ClosedWasRetired, Thread
  <2>15. ASSUME NEW p \in Proc, ReleaseCheck(p)
        PROVE  NoLeak'
    BY <2>0, <2>15 DEF ReleaseCheck, GoTo, CloseIfRetired, CloseClient, NoLeak, cacheVars, clientVars, flightVars, procVars, obsVars,
           Shape, TypeShape, LockShape, LocalShape, Ownership,
           BuilderOwns, FlightRegistered, OutcomeKnown, RetireOrder, CachedIsLive,
           ClosedWasRetired, Thread
  <2>16. ASSUME RetireCheck
        PROVE  NoLeak'
    BY <2>0, <2>16 DEF RetireCheck, CloseIfUnused, CloseClient, NoLeak, cacheVars, clientVars, flightVars, procVars, obsVars,
           Shape, TypeShape, LockShape, LocalShape, Ownership,
           BuilderOwns, FlightRegistered, OutcomeKnown, RetireOrder, CachedIsLive,
           ClosedWasRetired, Thread
  <2>17. ASSUME SweepStart
        PROVE  NoLeak'
    BY <2>0, <2>17 DEF SweepStart, GoTo, CachedKeys, NoLeak, cacheVars, clientVars, flightVars, procVars, obsVars,
           Shape, TypeShape, LockShape, LocalShape, Ownership,
           BuilderOwns, FlightRegistered, OutcomeKnown, RetireOrder, CachedIsLive,
           ClosedWasRetired, Thread
  <2>18. ASSUME NEW k \in Key, SweepEvict(k)
        PROVE  NoLeak'
    BY <2>0, <2>18 DEF SweepEvict, Evict, CountEviction, NoLeak, cacheVars, clientVars, flightVars, procVars, obsVars,
           Shape, TypeShape, LockShape, LocalShape, Ownership,
           BuilderOwns, FlightRegistered, OutcomeKnown, RetireOrder, CachedIsLive,
           ClosedWasRetired, Thread
  <2>19. ASSUME NEW k \in Key, SweepKeep(k)
        PROVE  NoLeak'
    BY <2>0, <2>19 DEF SweepKeep, NoLeak, cacheVars, clientVars, flightVars, procVars, obsVars,
           Shape, TypeShape, LockShape, LocalShape, Ownership,
           BuilderOwns, FlightRegistered, OutcomeKnown, RetireOrder, CachedIsLive,
           ClosedWasRetired, Thread
  <2>20. ASSUME SweepEnd
        PROVE  NoLeak'
    BY <2>0, <2>20 DEF SweepEnd, GoTo, NoLeak, cacheVars, clientVars, flightVars, procVars, obsVars,
           Shape, TypeShape, LockShape, LocalShape, Ownership,
           BuilderOwns, FlightRegistered, OutcomeKnown, RetireOrder, CachedIsLive,
           ClosedWasRetired, Thread
  <2>21. ASSUME SweepReport
        PROVE  NoLeak'
    BY <2>0, <2>21 DEF SweepReport, GoTo, NoLeak, cacheVars, clientVars, flightVars, procVars, obsVars,
           Shape, TypeShape, LockShape, LocalShape, Ownership,
           BuilderOwns, FlightRegistered, OutcomeKnown, RetireOrder, CachedIsLive,
           ClosedWasRetired, Thread
  <2>22. ASSUME CloseStart
        PROVE  NoLeak'
    BY <2>0, <2>22 DEF CloseStart, GoTo, CachedKeys, NoLeak, cacheVars, clientVars, flightVars, procVars, obsVars,
           Shape, TypeShape, LockShape, LocalShape, Ownership,
           BuilderOwns, FlightRegistered, OutcomeKnown, RetireOrder, CachedIsLive,
           ClosedWasRetired, Thread
  <2>23. ASSUME NEW k \in Key, CloseEvict(k)
        PROVE  NoLeak'
    BY <2>0, <2>23 DEF CloseEvict, Evict, NoLeak, cacheVars, clientVars, flightVars, procVars, obsVars,
           Shape, TypeShape, LockShape, LocalShape, Ownership,
           BuilderOwns, FlightRegistered, OutcomeKnown, RetireOrder, CachedIsLive,
           ClosedWasRetired, Thread
  <2>24. ASSUME CloseEnd
        PROVE  NoLeak'
    BY <2>0, <2>24 DEF CloseEnd, GoTo, NoLeak, cacheVars, clientVars, flightVars, procVars, obsVars,
           Shape, TypeShape, LockShape, LocalShape, Ownership,
           BuilderOwns, FlightRegistered, OutcomeKnown, RetireOrder, CachedIsLive,
           ClosedWasRetired, Thread
  <2>25. CASE UNCHANGED vars
    BY <2>25 DEF vars, cacheVars, clientVars, flightVars, procVars, obsVars, NoLeak
  <2>26. QED
    BY <2>1, <2>2, <2>3, <2>4, <2>5, <2>6, <2>7, <2>8, <2>9, <2>10, <2>11, <2>12, <2>13, <2>14, <2>15, <2>16, <2>17, <2>18, <2>19, <2>20, <2>21, <2>22, <2>23, <2>24, <2>25 DEF Next, Get, Build, Return, Use, Sweep, Close
<1>3. QED
  BY <1>1, <1>2, TypeCorrect, ShapeInvariant, OwnershipInvariant,
     InflightCountsInvariant, PTL DEF Spec
-----------------------------------------------------------------------------
(* Action properties.                                                      *)

LEMMA UnusedHasNoLessees ==
  ASSUME InflightCounts, NEW c \in Client, inflight[c] = 0
  PROVE  Lessees(c) = {}
BY LesseesFinite, FS_EmptySet DEF InflightCounts

(* The sweeper never retires a client that a goroutine holds.              *)
THEOREM SweepSparesLesseesHolds == Spec => SweepSparesLessees
<1> USE ConstantsAssumption
<1>1. Shape /\ Ownership /\ InflightCounts /\ [Next]_vars =>
        (pc[Sweeper] = "sweeping" =>
           \A c \in Client : retired'[c] /\ ~retired[c] => Lessees(c) = {})
  <2> SUFFICES ASSUME Shape, Ownership, InflightCounts, [Next]_vars,
                      pc[Sweeper] = "sweeping",
                      NEW c \in Client, retired'[c], ~retired[c]
               PROVE  Lessees(c) = {}
    OBVIOUS
  <2>1. PICK k \in Key : SweepEvict(k)
    <3>1. ~(\E p \in Proc : EvictOldest(p)) /\ ~(\E k \in Key : CloseEvict(k))
      BY DEF EvictOldest, CloseEvict, Shape, LockShape
    <3>2. ~(\E p \in Proc, k \in Key : GetMiss(p, k))
      BY DEF GetMiss, Shape, LockShape, Thread
    <3>3. QED
      BY <3>1, <3>2
         DEF Next, Get, Build, Return, Use, Sweep, Close, vars, GetHit, GetWait,
             BuildOk, BuildFail, Insert, Publish, ReportBuilt, ReportEvicted,
             Share, ShareFailed, RoundTrip, Release, ReleaseCheck, RetireCheck,
             SweepStart, SweepKeep, SweepEnd, SweepReport, CloseStart, CloseEnd,
             clientVars
  <2>2. c = entries[k] /\ inflight[c] = 0
    BY <2>1 DEF SweepEvict, Evict, Idle, Shape, TypeShape, LockShape
  <2>3. QED
    BY <2>2, UnusedHasNoLessees
<1>2. QED
  BY <1>1, ShapeInvariant, OwnershipInvariant, InflightCountsInvariant, PTL
     DEF Spec, SweepSparesLessees

(* Nor does the end of a retire close a client that a goroutine holds.     *)
THEOREM RetireSparesLesseesHolds == Spec => RetireSparesLessees
<1> USE ConstantsAssumption
<1>1. Shape /\ InflightCounts /\ [Next]_vars =>
        (retiring # None /\ retiring' = None /\ closed'[retiring] /\ ~closed[retiring]
           => Lessees(retiring) = {})
  <2> SUFFICES ASSUME Shape, InflightCounts, [Next]_vars,
                      retiring # None, retiring' = None,
                      closed'[retiring], ~closed[retiring]
               PROVE  Lessees(retiring) = {}
    OBVIOUS
  <2>1. RetireCheck
    BY DEF Next, Get, Build, Return, Use, Sweep, Close, vars, GetHit, GetWait,
           GetMiss, BuildOk, BuildFail, EvictOldest, Insert, Publish, ReportBuilt,
           ReportEvicted, Share, ShareFailed, RoundTrip, Release, ReleaseCheck,
           SweepStart, SweepEvict, SweepKeep, SweepEnd, SweepReport, CloseStart,
           CloseEvict, CloseEnd, cacheVars
  <2>2. retiring \in Client /\ inflight[retiring] = 0
    BY <2>1 DEF RetireCheck, CloseIfUnused, Shape, TypeShape
  <2>3. QED
    BY <2>2, UnusedHasNoLessees
<1>2. QED
  BY <1>1, ShapeInvariant, InflightCountsInvariant, PTL DEF Spec, RetireSparesLessees

-----------------------------------------------------------------------------
(* The cache implements the pool of slots.                                 *)

LEMMA PoolCardinality == \A S : Pool!Cardinality(S) = Cardinality(S)
BY DEF Pool!Cardinality, Pool!IsFiniteSet, Cardinality, IsFiniteSet

LEMMA FilledIsCached == TypeShape => Pool!Filled = CachedKeys
BY ConstantsAssumption DEF Pool!Filled, CachedKeys, SlotOf, TypeShape

LEMMA SameSlots ==
  ASSUME \A k \in Key : SlotOf(k)' = SlotOf(k)
  PROVE  UNCHANGED [k \in Key |-> SlotOf(k)]
OBVIOUS

LEMMA OneSlot ==
  ASSUME NEW k \in Key, NEW v, SlotOf(k)' = v,
         \A l \in Key \ {k} : SlotOf(l)' = SlotOf(l)
  PROVE  [l \in Key |-> SlotOf(l)]' = [[l \in Key |-> SlotOf(l)] EXCEPT ![k] = v]
OBVIOUS

(* Every step of the cache starts, fills, aborts or drops one slot, or     *)
(* leaves them all alone.                                                  *)
THEOREM CacheImplementsPool == Spec => ImplementsPool
<1> USE ConstantsAssumption
<1>1. Init => Pool!Init
  BY DEF Init, Pool!Init, SlotOf, Thread
<1>2. Shape /\ Ownership /\ [Next]_vars =>
        [Pool!Next]_([k \in Key |-> SlotOf(k)])
  <2> DEFINE slot == [k \in Key |-> SlotOf(k)]
  <2> SUFFICES ASSUME Shape, Ownership, [Next]_vars
               PROVE  Pool!Next \/ UNCHANGED slot
    OBVIOUS
  <2>0. TypeShape
    BY DEF Shape
  <2>1. ASSUME NEW p \in Proc, NEW k \in Key, GetHit(p, k)
        PROVE  Pool!Next \/ UNCHANGED slot
    <3>1. \A l \in Key : SlotOf(l)' = SlotOf(l)
      BY <2>1 DEF GetHit, GoTo, Acquire, SlotOf, cacheVars, clientVars, flightVars, procVars, obsVars,
           Shape, TypeShape, LockShape, LocalShape, Ownership,
           BuilderOwns, FlightRegistered, OutcomeKnown, CachedIsLive, Thread
    <3>2. QED
      BY <3>1
  <2>2. ASSUME NEW p \in Proc, NEW k \in Key, GetWait(p, k)
        PROVE  Pool!Next \/ UNCHANGED slot
    <3>1. \A l \in Key : SlotOf(l)' = SlotOf(l)
      BY <2>2 DEF GetWait, GoTo, SlotOf, cacheVars, clientVars, flightVars, procVars, obsVars,
           Shape, TypeShape, LockShape, LocalShape, Ownership,
           BuilderOwns, FlightRegistered, OutcomeKnown, CachedIsLive, Thread
    <3>2. QED
      BY <3>1
  <2>3. ASSUME NEW p \in Proc, NEW k \in Key, GetMiss(p, k)
        PROVE  Pool!Next \/ UNCHANGED slot
    <3>1. SlotOf(k) = None /\ SlotOf(k)' = Building
      BY <2>3 DEF GetMiss, GoTo, Unreferenced, Register, SlotOf, cacheVars, clientVars, flightVars, procVars, obsVars,
           Shape, TypeShape, LockShape, LocalShape, Ownership,
           BuilderOwns, FlightRegistered, OutcomeKnown, CachedIsLive, Thread
    <3>2. \A l \in Key \ {k} : SlotOf(l)' = SlotOf(l)
      BY <2>3 DEF GetMiss, GoTo, Unreferenced, Register, SlotOf, cacheVars, clientVars, flightVars, procVars, obsVars,
           Shape, TypeShape, LockShape, LocalShape, Ownership,
           BuilderOwns, FlightRegistered, OutcomeKnown, CachedIsLive, Thread
    <3>3. slot' = [slot EXCEPT ![k] = Building]
      BY <3>1, <3>2, OneSlot
    <3>4. Pool!Start(k)
      BY <3>1, <3>3 DEF Pool!Start
    <3>5. QED
      BY <3>4 DEF Pool!Next
  <2>4. ASSUME NEW p \in Proc, BuildOk(p)
        PROVE  Pool!Next \/ UNCHANGED slot
    <3>1. \A l \in Key : SlotOf(l)' = SlotOf(l)
      BY <2>4 DEF BuildOk, GoTo, SlotOf, cacheVars, clientVars, flightVars, procVars, obsVars,
           Shape, TypeShape, LockShape, LocalShape, Ownership,
           BuilderOwns, FlightRegistered, OutcomeKnown, CachedIsLive, Thread
    <3>2. QED
      BY <3>1
  <2>5. ASSUME NEW p \in Proc, BuildFail(p)
        PROVE  Pool!Next \/ UNCHANGED slot
    <3>1. PICK k \in Key : k = want[p]
      BY <2>5 DEF BuildFail, GoTo, Shape, LocalShape
    <3>2. SlotOf(k) = Building /\ SlotOf(k)' = None
      BY <2>5, <3>1 DEF BuildFail, GoTo, SlotOf, cacheVars, clientVars, flightVars, procVars, obsVars,
           Shape, TypeShape, LockShape, LocalShape, Ownership,
           BuilderOwns, FlightRegistered, OutcomeKnown, CachedIsLive, Thread
    <3>3. \A l \in Key \ {k} : SlotOf(l)' = SlotOf(l)
      BY <2>5, <3>1 DEF BuildFail, GoTo, SlotOf, cacheVars, clientVars, flightVars, procVars, obsVars,
           Shape, TypeShape, LockShape, LocalShape, Ownership,
           BuilderOwns, FlightRegistered, OutcomeKnown, CachedIsLive, Thread
    <3>4. slot' = [slot EXCEPT ![k] = None]
      BY <3>2, <3>3, OneSlot
    <3>5. Pool!Abort(k)
      BY <3>2, <3>4 DEF Pool!Abort
    <3>6. QED
      BY <3>5 DEF Pool!Next
  <2>6. ASSUME NEW p \in Proc, EvictOldest(p)
        PROVE  Pool!Next \/ UNCHANGED slot
    <3>0. PICK k \in Key : entries[k] # None /\ Evict(k) /\ pc' = pc /\ want' = want /\ pending' = pending
      BY <2>6 DEF EvictOldest, LeastRecent, CachedKeys, procVars
    <3>1. pending[k] = None /\ ~(\E q \in Proc : pc[q] = "inserting" /\ want[q] = k)
      BY <3>0 DEF Ownership, FlightRegistered
    <3>2. SlotOf(k) \in Client /\ SlotOf(k)' = None
      BY <3>0, <3>1 DEF Evict, SlotOf, Shape, TypeShape
    <3>3. \A l \in Key \ {k} : SlotOf(l)' = SlotOf(l)
      BY <3>0 DEF Evict, SlotOf, Shape, TypeShape
    <3>4. slot' = [slot EXCEPT ![k] = None]
      BY <3>2, <3>3, OneSlot
    <3>5. Pool!Drop(k)
      BY <3>2, <3>4 DEF Pool!Drop
    <3>6. QED
      BY <3>5 DEF Pool!Next
  <2>7. ASSUME NEW p \in Proc, Insert(p)
        PROVE  Pool!Next \/ UNCHANGED slot
    <3>1. PICK k \in Key, c \in Client : k = want[p] /\ c = held[p]
      BY <2>7 DEF Insert, GoTo, Acquire, Shape, TypeShape, LocalShape
    <3>2. SlotOf(k) = Building /\ SlotOf(k)' = c
      BY <2>7, <3>1 DEF Insert, GoTo, Acquire, SlotOf, cacheVars, clientVars, flightVars, procVars, obsVars,
           Shape, TypeShape, LockShape, LocalShape, Ownership,
           BuilderOwns, FlightRegistered, OutcomeKnown, CachedIsLive, Thread
    <3>3. \A l \in Key \ {k} : SlotOf(l)' = SlotOf(l)
      BY <2>7, <3>1 DEF Insert, GoTo, Acquire, SlotOf, cacheVars, clientVars, flightVars, procVars, obsVars,
           Shape, TypeShape, LockShape, LocalShape, Ownership,
           BuilderOwns, FlightRegistered, OutcomeKnown, CachedIsLive, Thread
    <3>4. slot' = [slot EXCEPT ![k] = c]
      BY <3>2, <3>3, OneSlot
    <3>5. \A l \in Key : slot[l] # c
      BY <2>7, <3>1 DEF Insert, GoTo, Acquire, SlotOf, Shape, TypeShape, Ownership, BuilderOwns
    <3>6. Cardinality(Pool!Filled) < MaxClients
      BY <2>0, <2>7, FilledIsCached, CachedFinite DEF Insert, Full
    <3>7. Pool!Fill(k, c)
      BY <3>2, <3>4, <3>5, <3>6, PoolCardinality DEF Pool!Fill
    <3>8. QED
      BY <3>7 DEF Pool!Next
  <2>8. ASSUME NEW p \in Proc, Publish(p)
        PROVE  Pool!Next \/ UNCHANGED slot
    <3>1. \A l \in Key : SlotOf(l)' = SlotOf(l)
      BY <2>8 DEF Publish, GoTo, Wake, SlotOf, cacheVars, clientVars, flightVars, procVars, obsVars,
           Shape, TypeShape, LockShape, LocalShape, Ownership,
           BuilderOwns, FlightRegistered, OutcomeKnown, CachedIsLive, Thread
    <3>2. QED
      BY <3>1
  <2>9. ASSUME NEW p \in Proc, ReportBuilt(p)
        PROVE  Pool!Next \/ UNCHANGED slot
    <3>1. \A l \in Key : SlotOf(l)' = SlotOf(l)
      BY <2>9 DEF ReportBuilt, GoTo, SlotOf, cacheVars, clientVars, flightVars, procVars, obsVars,
           Shape, TypeShape, LockShape, LocalShape, Ownership,
           BuilderOwns, FlightRegistered, OutcomeKnown, CachedIsLive, Thread
    <3>2. QED
      BY <3>1
  <2>10. ASSUME NEW p \in Proc, ReportEvicted(p)
        PROVE  Pool!Next \/ UNCHANGED slot
    <3>1. \A l \in Key : SlotOf(l)' = SlotOf(l)
      BY <2>10 DEF ReportEvicted, GoTo, SlotOf, cacheVars, clientVars, flightVars, procVars, obsVars,
           Shape, TypeShape, LockShape, LocalShape, Ownership,
           BuilderOwns, FlightRegistered, OutcomeKnown, CachedIsLive, Thread
    <3>2. QED
      BY <3>1
  <2>11. ASSUME NEW p \in Proc, Share(p)
        PROVE  Pool!Next \/ UNCHANGED slot
    <3>1. \A l \in Key : SlotOf(l)' = SlotOf(l)
      BY <2>11 DEF Share, GoTo, Acquire, SlotOf, cacheVars, clientVars, flightVars, procVars, obsVars,
           Shape, TypeShape, LockShape, LocalShape, Ownership,
           BuilderOwns, FlightRegistered, OutcomeKnown, CachedIsLive, Thread
    <3>2. QED
      BY <3>1
  <2>12. ASSUME NEW p \in Proc, ShareFailed(p)
        PROVE  Pool!Next \/ UNCHANGED slot
    <3>1. \A l \in Key : SlotOf(l)' = SlotOf(l)
      BY <2>12 DEF ShareFailed, GoTo, SlotOf, cacheVars, clientVars, flightVars, procVars, obsVars,
           Shape, TypeShape, LockShape, LocalShape, Ownership,
           BuilderOwns, FlightRegistered, OutcomeKnown, CachedIsLive, Thread
    <3>2. QED
      BY <3>1
  <2>13. ASSUME NEW p \in Proc, RoundTrip(p)
        PROVE  Pool!Next \/ UNCHANGED slot
    <3>1. \A l \in Key : SlotOf(l)' = SlotOf(l)
      BY <2>13 DEF RoundTrip, GoTo, SlotOf, cacheVars, clientVars, flightVars, procVars, obsVars,
           Shape, TypeShape, LockShape, LocalShape, Ownership,
           BuilderOwns, FlightRegistered, OutcomeKnown, CachedIsLive, Thread
    <3>2. QED
      BY <3>1
  <2>14. ASSUME NEW p \in Proc, Release(p)
        PROVE  Pool!Next \/ UNCHANGED slot
    <3>1. \A l \in Key : SlotOf(l)' = SlotOf(l)
      BY <2>14 DEF Release, SlotOf, cacheVars, clientVars, flightVars, procVars, obsVars,
           Shape, TypeShape, LockShape, LocalShape, Ownership,
           BuilderOwns, FlightRegistered, OutcomeKnown, CachedIsLive, Thread
    <3>2. QED
      BY <3>1
  <2>15. ASSUME NEW p \in Proc, ReleaseCheck(p)
        PROVE  Pool!Next \/ UNCHANGED slot
    <3>1. \A l \in Key : SlotOf(l)' = SlotOf(l)
      BY <2>15 DEF ReleaseCheck, GoTo, CloseIfRetired, CloseClient, SlotOf, cacheVars, clientVars, flightVars, procVars, obsVars,
           Shape, TypeShape, LockShape, LocalShape, Ownership,
           BuilderOwns, FlightRegistered, OutcomeKnown, CachedIsLive, Thread
    <3>2. QED
      BY <3>1
  <2>16. ASSUME RetireCheck
        PROVE  Pool!Next \/ UNCHANGED slot
    <3>1. \A l \in Key : SlotOf(l)' = SlotOf(l)
      BY <2>16 DEF RetireCheck, CloseIfUnused, CloseClient, SlotOf, cacheVars, clientVars, flightVars, procVars, obsVars,
           Shape, TypeShape, LockShape, LocalShape, Ownership,
           BuilderOwns, FlightRegistered, OutcomeKnown, CachedIsLive, Thread
    <3>2. QED
      BY <3>1
  <2>17. ASSUME SweepStart
        PROVE  Pool!Next \/ UNCHANGED slot
    <3>1. \A l \in Key : SlotOf(l)' = SlotOf(l)
      BY <2>17 DEF SweepStart, GoTo, CachedKeys, SlotOf, cacheVars, clientVars, flightVars, procVars, obsVars,
           Shape, TypeShape, LockShape, LocalShape, Ownership,
           BuilderOwns, FlightRegistered, OutcomeKnown, CachedIsLive, Thread
    <3>2. QED
      BY <3>1
  <2>18. ASSUME NEW k \in Key, SweepEvict(k)
        PROVE  Pool!Next \/ UNCHANGED slot
    <3>0. entries[k] # None /\ Evict(k) /\ pc' = pc /\ want' = want /\ pending' = pending
      BY <2>18 DEF SweepEvict, Shape, LockShape, procVars
    <3>1. pending[k] = None /\ ~(\E q \in Proc : pc[q] = "inserting" /\ want[q] = k)
      BY <3>0 DEF Ownership, FlightRegistered
    <3>2. SlotOf(k) \in Client /\ SlotOf(k)' = None
      BY <3>0, <3>1 DEF Evict, SlotOf, Shape, TypeShape
    <3>3. \A l \in Key \ {k} : SlotOf(l)' = SlotOf(l)
      BY <3>0 DEF Evict, SlotOf, Shape, TypeShape
    <3>4. slot' = [slot EXCEPT ![k] = None]
      BY <3>2, <3>3, OneSlot
    <3>5. Pool!Drop(k)
      BY <3>2, <3>4 DEF Pool!Drop
    <3>6. QED
      BY <3>5 DEF Pool!Next
  <2>19. ASSUME NEW k \in Key, SweepKeep(k)
        PROVE  Pool!Next \/ UNCHANGED slot
    <3>1. \A l \in Key : SlotOf(l)' = SlotOf(l)
      BY <2>19 DEF SweepKeep, SlotOf, cacheVars, clientVars, flightVars, procVars, obsVars,
           Shape, TypeShape, LockShape, LocalShape, Ownership,
           BuilderOwns, FlightRegistered, OutcomeKnown, CachedIsLive, Thread
    <3>2. QED
      BY <3>1
  <2>20. ASSUME SweepEnd
        PROVE  Pool!Next \/ UNCHANGED slot
    <3>1. \A l \in Key : SlotOf(l)' = SlotOf(l)
      BY <2>20 DEF SweepEnd, GoTo, SlotOf, cacheVars, clientVars, flightVars, procVars, obsVars,
           Shape, TypeShape, LockShape, LocalShape, Ownership,
           BuilderOwns, FlightRegistered, OutcomeKnown, CachedIsLive, Thread
    <3>2. QED
      BY <3>1
  <2>21. ASSUME SweepReport
        PROVE  Pool!Next \/ UNCHANGED slot
    <3>1. \A l \in Key : SlotOf(l)' = SlotOf(l)
      BY <2>21 DEF SweepReport, GoTo, SlotOf, cacheVars, clientVars, flightVars, procVars, obsVars,
           Shape, TypeShape, LockShape, LocalShape, Ownership,
           BuilderOwns, FlightRegistered, OutcomeKnown, CachedIsLive, Thread
    <3>2. QED
      BY <3>1
  <2>22. ASSUME CloseStart
        PROVE  Pool!Next \/ UNCHANGED slot
    <3>1. \A l \in Key : SlotOf(l)' = SlotOf(l)
      BY <2>22 DEF CloseStart, GoTo, CachedKeys, SlotOf, cacheVars, clientVars, flightVars, procVars, obsVars,
           Shape, TypeShape, LockShape, LocalShape, Ownership,
           BuilderOwns, FlightRegistered, OutcomeKnown, CachedIsLive, Thread
    <3>2. QED
      BY <3>1
  <2>23. ASSUME NEW k \in Key, CloseEvict(k)
        PROVE  Pool!Next \/ UNCHANGED slot
    <3>0. entries[k] # None /\ Evict(k) /\ pc' = pc /\ want' = want /\ pending' = pending
      BY <2>23 DEF CloseEvict, Shape, LockShape, procVars
    <3>1. pending[k] = None /\ ~(\E q \in Proc : pc[q] = "inserting" /\ want[q] = k)
      BY <3>0 DEF Ownership, FlightRegistered
    <3>2. SlotOf(k) \in Client /\ SlotOf(k)' = None
      BY <3>0, <3>1 DEF Evict, SlotOf, Shape, TypeShape
    <3>3. \A l \in Key \ {k} : SlotOf(l)' = SlotOf(l)
      BY <3>0 DEF Evict, SlotOf, Shape, TypeShape
    <3>4. slot' = [slot EXCEPT ![k] = None]
      BY <3>2, <3>3, OneSlot
    <3>5. Pool!Drop(k)
      BY <3>2, <3>4 DEF Pool!Drop
    <3>6. QED
      BY <3>5 DEF Pool!Next
  <2>24. ASSUME CloseEnd
        PROVE  Pool!Next \/ UNCHANGED slot
    <3>1. \A l \in Key : SlotOf(l)' = SlotOf(l)
      BY <2>24 DEF CloseEnd, GoTo, SlotOf, cacheVars, clientVars, flightVars, procVars, obsVars,
           Shape, TypeShape, LockShape, LocalShape, Ownership,
           BuilderOwns, FlightRegistered, OutcomeKnown, CachedIsLive, Thread
    <3>2. QED
      BY <3>1
  <2>25. CASE UNCHANGED vars
    BY <2>25 DEF vars, cacheVars, clientVars, flightVars, procVars, obsVars, SlotOf
  <2>26. QED
    BY <2>1, <2>2, <2>3, <2>4, <2>5, <2>6, <2>7, <2>8, <2>9, <2>10, <2>11, <2>12, <2>13, <2>14, <2>15, <2>16, <2>17, <2>18, <2>19, <2>20, <2>21, <2>22, <2>23, <2>24, <2>25 DEF Next, Get, Build, Return, Use, Sweep, Close
<1>3. QED
  BY <1>1, <1>2, ShapeInvariant, OwnershipInvariant, PTL DEF Spec, ImplementsPool, Pool!Spec

-----------------------------------------------------------------------------
(* What the metrics' gauge of clients shows.                                *)

LEMMA BuildsFinite == IsFiniteSet(PendingBuilds) /\ Cardinality(PendingBuilds) \in Nat
<1>1. PendingBuilds \subseteq Proc
  BY DEF PendingBuilds
<1>2. QED
  BY <1>1, ConstantsAssumption, FS_Subset, FS_CardinalityType

LEMMA EvictionsAre ==
  \A x : x \in PendingEvictions <=> \E t \in Thread : \E n \in 1..unreported[t] : x = <<t, n>>
BY DEF PendingEvictions

GaugeInv ==
  pc[Closer] = "idle" =>
    /\ IsFiniteSet(PendingEvictions)
    /\ gauge = Cardinality(CachedKeys) - Cardinality(PendingBuilds) + Cardinality(PendingEvictions)

LEMMA GaugeStays ==
  ASSUME GaugeInv, pc'[Closer] = "idle" => pc[Closer] = "idle", UNCHANGED <<gauge, unreported>>,
         CachedKeys' = CachedKeys, PendingBuilds' = PendingBuilds
  PROVE  GaugeInv'
BY DEF GaugeInv, PendingEvictions

(* Another eviction to report, and one less.                               *)
LEMMA OneMoreEviction ==
  ASSUME TypeShape, NEW t \in Thread, unreported' = [unreported EXCEPT ![t] = @ + 1], IsFiniteSet(PendingEvictions)
  PROVE  /\ IsFiniteSet(PendingEvictions')
         /\ Cardinality(PendingEvictions') = Cardinality(PendingEvictions) + 1
<1> DEFINE n == unreported[t]
           x == <<t, n + 1>>
<1>1. n \in Nat /\ unreported'[t] = n + 1 /\ \A u \in Thread \ {t} : unreported'[u] = unreported[u]
  BY DEF TypeShape
<1>2. x \notin PendingEvictions
  BY <1>1, EvictionsAre
<1>3. \A y : y \in PendingEvictions' <=> \E u \in Thread : \E i \in 1..unreported'[u] : y = <<u, i>>
  BY DEF PendingEvictions
<1>4. \A y : y \in PendingEvictions' <=> y \in PendingEvictions \/ y = x
  BY <1>1, <1>3, EvictionsAre
<1>5. PendingEvictions' = PendingEvictions \cup {x}
  BY <1>4
<1>6. QED
  BY <1>2, <1>5, FS_AddElement

LEMMA OneLessEviction ==
  ASSUME TypeShape, NEW t \in Thread, unreported[t] > 0, unreported' = [unreported EXCEPT ![t] = @ - 1],
         IsFiniteSet(PendingEvictions)
  PROVE  /\ IsFiniteSet(PendingEvictions')
         /\ Cardinality(PendingEvictions') = Cardinality(PendingEvictions) - 1
<1> DEFINE n == unreported[t]
           x == <<t, n>>
<1>1. n \in Nat /\ n > 0 /\ unreported'[t] = n - 1 /\ \A u \in Thread \ {t} : unreported'[u] = unreported[u]
  BY DEF TypeShape
<1>2. x \in PendingEvictions
  BY <1>1, EvictionsAre
<1>3. \A y : y \in PendingEvictions' <=> \E u \in Thread : \E i \in 1..unreported'[u] : y = <<u, i>>
  BY DEF PendingEvictions
<1>4. \A y : y \in PendingEvictions' <=> y \in PendingEvictions /\ y # x
  BY <1>1, <1>3, EvictionsAre
<1>5. PendingEvictions' = PendingEvictions \ {x}
  BY <1>4
<1>6. QED
  BY <1>2, <1>5, FS_RemoveElement

LEMMA EvictionMoves ==
  ASSUME TypeShape, GaugeInv, NEW t \in Thread, unreported' = [unreported EXCEPT ![t] = @ + 1],
         NEW k \in CachedKeys, CachedKeys' = CachedKeys \ {k}, PendingBuilds' = PendingBuilds, UNCHANGED <<pc, gauge>>
  PROVE  GaugeInv'
<1> SUFFICES ASSUME pc'[Closer] = "idle"
             PROVE  /\ IsFiniteSet(PendingEvictions')
                    /\ gauge' = Cardinality(CachedKeys') - Cardinality(PendingBuilds') + Cardinality(PendingEvictions')
  BY DEF GaugeInv
<1>1. /\ IsFiniteSet(PendingEvictions) /\ Cardinality(PendingEvictions) \in Nat
      /\ gauge = Cardinality(CachedKeys) - Cardinality(PendingBuilds) + Cardinality(PendingEvictions)
  BY FS_CardinalityType DEF GaugeInv
<1>2. IsFiniteSet(PendingEvictions') /\ Cardinality(PendingEvictions') = Cardinality(PendingEvictions) + 1
  BY <1>1, OneMoreEviction
<1>3. Cardinality(CachedKeys') = Cardinality(CachedKeys) - 1
  BY CachedFinite, FS_RemoveElement
<1>4. QED
  BY <1>1, <1>2, <1>3, CachedFinite, BuildsFinite

LEMMA EvictionReported ==
  ASSUME TypeShape, GaugeInv, NEW t \in Thread, unreported[t] > 0, unreported' = [unreported EXCEPT ![t] = @ - 1],
         gauge' = gauge - 1, CachedKeys' = CachedKeys, PendingBuilds' = PendingBuilds,
         pc'[Closer] = "idle" => pc[Closer] = "idle"
  PROVE  GaugeInv'
<1> SUFFICES ASSUME pc'[Closer] = "idle"
             PROVE  /\ IsFiniteSet(PendingEvictions')
                    /\ gauge' = Cardinality(CachedKeys') - Cardinality(PendingBuilds') + Cardinality(PendingEvictions')
  BY DEF GaugeInv
<1>1. /\ IsFiniteSet(PendingEvictions) /\ Cardinality(PendingEvictions) \in Nat
      /\ gauge = Cardinality(CachedKeys) - Cardinality(PendingBuilds) + Cardinality(PendingEvictions)
  BY FS_CardinalityType DEF GaugeInv
<1>2. IsFiniteSet(PendingEvictions') /\ Cardinality(PendingEvictions') = Cardinality(PendingEvictions) - 1
  BY <1>1, OneLessEviction
<1>3. QED
  BY <1>1, <1>2, CachedFinite, BuildsFinite DEF TypeShape

(* The gauge is what the cache holds, but for the calls of the observer    *)
(* that are still to come, however the builders and the sweeper come to    *)
(* make them after they have unlocked.                                     *)
THEOREM GaugeAccountsInvariant == Spec => []GaugeAccounts
<1> USE ConstantsAssumption
<1>1. Init => GaugeInv
  <2> SUFFICES ASSUME Init PROVE GaugeInv
    OBVIOUS
  <2>1. CachedKeys = {} /\ PendingBuilds = {} /\ gauge = 0
    BY DEF Init, CachedKeys, PendingBuilds, Thread
  <2>2. PendingEvictions = {}
    <3>1. \A t \in Thread : 1..unreported[t] = {}
      BY DEF Init
    <3>2. QED
      BY <3>1, EvictionsAre
  <2>3. QED
    BY <2>1, <2>2, FS_EmptySet DEF GaugeInv
<1>2. Shape /\ Ownership /\ GaugeInv /\ [Next]_vars => GaugeInv'
  <2> SUFFICES ASSUME Shape, Ownership, GaugeInv, [Next]_vars PROVE GaugeInv'
    OBVIOUS
  <2>0. TypeShape /\ Closer \in Thread
    BY DEF Shape, Thread
  <2>1. ASSUME NEW p \in Proc, NEW k \in Key, GetHit(p, k)
        PROVE  GaugeInv'
    <3>1. CachedKeys' = CachedKeys /\ PendingBuilds' = PendingBuilds /\ UNCHANGED <<gauge, unreported>>
      BY <2>0, <2>1 DEF GetHit, GoTo, Acquire, CachedKeys, PendingBuilds, cacheVars, clientVars, flightVars, procVars, obsVars,
                  Shape, TypeShape, LocalShape, Ownership, BuilderOwns, OutcomeKnown
    <3>2. pc'[Closer] = "idle" => pc[Closer] = "idle"
      BY <2>0, <2>1 DEF GetHit, GoTo, Acquire, TypeShape, cacheVars, clientVars, flightVars, procVars, obsVars
    <3>3. QED
      BY <3>1, <3>2, GaugeStays
  <2>2. ASSUME NEW p \in Proc, NEW k \in Key, GetWait(p, k)
        PROVE  GaugeInv'
    <3>1. CachedKeys' = CachedKeys /\ PendingBuilds' = PendingBuilds /\ UNCHANGED <<gauge, unreported>>
      BY <2>0, <2>2 DEF GetWait, GoTo, CachedKeys, PendingBuilds, cacheVars, clientVars, flightVars, procVars, obsVars,
                  Shape, TypeShape, LocalShape, Ownership, BuilderOwns, OutcomeKnown
    <3>2. pc'[Closer] = "idle" => pc[Closer] = "idle"
      BY <2>0, <2>2 DEF GetWait, GoTo, TypeShape, cacheVars, clientVars, flightVars, procVars, obsVars
    <3>3. QED
      BY <3>1, <3>2, GaugeStays
  <2>3. ASSUME NEW p \in Proc, NEW k \in Key, GetMiss(p, k)
        PROVE  GaugeInv'
    <3>1. CachedKeys' = CachedKeys /\ PendingBuilds' = PendingBuilds /\ UNCHANGED <<gauge, unreported>>
      BY <2>0, <2>3 DEF GetMiss, GoTo, Unreferenced, Register, CachedKeys, PendingBuilds, cacheVars, clientVars, flightVars, procVars, obsVars,
                  Shape, TypeShape, LocalShape, Ownership, BuilderOwns, OutcomeKnown
    <3>2. pc'[Closer] = "idle" => pc[Closer] = "idle"
      BY <2>0, <2>3 DEF GetMiss, GoTo, Unreferenced, Register, TypeShape, cacheVars, clientVars, flightVars, procVars, obsVars
    <3>3. QED
      BY <3>1, <3>2, GaugeStays
  <2>4. ASSUME NEW p \in Proc, BuildOk(p)
        PROVE  GaugeInv'
    <3>1. CachedKeys' = CachedKeys /\ PendingBuilds' = PendingBuilds /\ UNCHANGED <<gauge, unreported>>
      BY <2>0, <2>4 DEF BuildOk, GoTo, CachedKeys, PendingBuilds, cacheVars, clientVars, flightVars, procVars, obsVars,
                  Shape, TypeShape, LocalShape, Ownership, BuilderOwns, OutcomeKnown
    <3>2. pc'[Closer] = "idle" => pc[Closer] = "idle"
      BY <2>0, <2>4 DEF BuildOk, GoTo, TypeShape, cacheVars, clientVars, flightVars, procVars, obsVars
    <3>3. QED
      BY <3>1, <3>2, GaugeStays
  <2>5. ASSUME NEW p \in Proc, BuildFail(p)
        PROVE  GaugeInv'
    <3>1. CachedKeys' = CachedKeys /\ PendingBuilds' = PendingBuilds /\ UNCHANGED <<gauge, unreported>>
      BY <2>0, <2>5 DEF BuildFail, GoTo, CachedKeys, PendingBuilds, cacheVars, clientVars, flightVars, procVars, obsVars,
                  Shape, TypeShape, LocalShape, Ownership, BuilderOwns, OutcomeKnown
    <3>2. pc'[Closer] = "idle" => pc[Closer] = "idle"
      BY <2>0, <2>5 DEF BuildFail, GoTo, TypeShape, cacheVars, clientVars, flightVars, procVars, obsVars
    <3>3. QED
      BY <3>1, <3>2, GaugeStays
  <2>6. ASSUME NEW p \in Proc, EvictOldest(p)
        PROVE  GaugeInv'
    <3>1. PICK k \in CachedKeys : Evict(k)
      BY <2>6, Zenon DEF EvictOldest, LeastRecent
    <3>2. CachedKeys' = CachedKeys \ {k}
      BY <2>0, <3>1 DEF Evict, CachedKeys, TypeShape
    <3>3. PendingBuilds' = PendingBuilds /\ UNCHANGED <<pc, gauge>>
      BY <2>0, <2>6 DEF EvictOldest, PendingBuilds, flightVars, procVars
    <3>4. p \in Thread /\ unreported' = [unreported EXCEPT ![p] = @ + 1]
      BY <2>0, <2>6 DEF EvictOldest, CountEviction, Thread
    <3>5. QED
      BY <2>0, <3>2, <3>3, <3>4, EvictionMoves
  <2>7. ASSUME NEW p \in Proc, Insert(p)
        PROVE  GaugeInv'
    <3>1. want[p] \in Key \ CachedKeys /\ CachedKeys' = CachedKeys \cup {want[p]}
      <4>1. want[p] \in Key /\ entries[want[p]] = None /\ held[p] \in Client
        BY <2>0, <2>7 DEF Insert, GoTo, TypeShape, Shape, LocalShape, Ownership, FlightRegistered
      <4>2. entries' = [entries EXCEPT ![want[p]] = held[p]]
        BY <2>7 DEF Insert
      <4>3. \A l \in Key : entries'[l] # None <=> entries[l] # None \/ l = want[p]
        BY <2>0, <4>1, <4>2 DEF TypeShape
      <4>4. QED
        BY <4>1, <4>3 DEF CachedKeys
    <3>2. p \notin PendingBuilds /\ PendingBuilds' = PendingBuilds \cup {p}
      <4>1. pc[p] = "inserting" /\ pc' = [pc EXCEPT ![p] = "publishing"] /\ UNCHANGED <<outcome, held>> /\ outcome[held[p]] = "built"
        BY <2>7 DEF Insert, GoTo, Ownership, OutcomeKnown, flightVars
      <4>2. p \in Proc /\ p \in Thread /\ pc'[p] = "publishing" /\ \A q \in Proc : q # p => pc'[q] = pc[q]
        BY <2>0, <4>1 DEF TypeShape, Thread
      <4>3. \A q \in Proc : q \in PendingBuilds' <=> q \in PendingBuilds \/ q = p
        BY <4>1, <4>2 DEF PendingBuilds
      <4>4. PendingBuilds \subseteq Proc /\ PendingBuilds' \subseteq Proc
        BY DEF PendingBuilds
      <4>5. p \notin PendingBuilds
        BY <4>1 DEF PendingBuilds
      <4>6. QED
        BY <4>2, <4>3, <4>4, <4>5
    <3>3. Cardinality(CachedKeys') = Cardinality(CachedKeys) + 1
      BY <3>1, CachedFinite, FS_AddElement
    <3>4. Cardinality(PendingBuilds') = Cardinality(PendingBuilds) + 1
      BY <3>2, BuildsFinite, FS_AddElement
    <3>5. UNCHANGED <<gauge, unreported>> /\ PendingEvictions' = PendingEvictions
      BY <2>0, <2>7 DEF Insert, obsVars, PendingEvictions
    <3>6. pc'[Closer] = "idle" => pc[Closer] = "idle"
      BY <2>0, <2>7 DEF Insert, GoTo, TypeShape
    <3>7. QED
      BY <2>0, <3>3, <3>4, <3>5, <3>6, CachedFinite, BuildsFinite, FS_CardinalityType DEF GaugeInv, TypeShape
  <2>8. ASSUME NEW p \in Proc, Publish(p)
        PROVE  GaugeInv'
    <3>1. CachedKeys' = CachedKeys /\ PendingBuilds' = PendingBuilds /\ UNCHANGED <<gauge, unreported>>
      <4>1. pc[p] = "publishing" /\ outcome[held[p]] \in {"built", "failed"} /\ UNCHANGED <<entries, outcome, gauge, unreported>>
        BY <2>8 DEF Publish, GoTo, Ownership, OutcomeKnown, cacheVars, obsVars
      <4>2. /\ p \in Thread /\ pc'[p] = IF outcome[held[p]] = "failed" THEN "idle" ELSE "reporting"
            /\ \A q \in Proc : q # p => pc'[q] = pc[q] /\ held'[q] = held[q]
        BY <2>0, <2>8 DEF Publish, GoTo, TypeShape, Thread
      <4>3. \A q \in Proc : q \in PendingBuilds' <=> q \in PendingBuilds
        BY <4>1, <4>2 DEF PendingBuilds
      <4>4. PendingBuilds \subseteq Proc /\ PendingBuilds' \subseteq Proc
        BY DEF PendingBuilds
      <4>5. QED
        BY <4>1, <4>3, <4>4 DEF CachedKeys
    <3>2. pc'[Closer] = "idle" => pc[Closer] = "idle"
      BY <2>0, <2>8 DEF Publish, GoTo, Wake, TypeShape, cacheVars, clientVars, flightVars, procVars, obsVars
    <3>3. QED
      BY <3>1, <3>2, GaugeStays
  <2>9. ASSUME NEW p \in Proc, ReportBuilt(p)
        PROVE  GaugeInv'
    <3>1. p \in PendingBuilds /\ PendingBuilds' = PendingBuilds \ {p}
      <4>1. pc[p] = "reporting" /\ UNCHANGED <<outcome, held>>
        BY <2>9 DEF ReportBuilt, GoTo, flightVars, procVars
      <4>2. p \in Thread /\ pc'[p] \in {"reportingEvictions", "holding"} /\ \A q \in Proc : q # p => pc'[q] = pc[q]
        BY <2>0, <2>9 DEF ReportBuilt, GoTo, TypeShape, Thread
      <4>3. \A q \in Proc : q \in PendingBuilds' <=> q \in PendingBuilds /\ q # p
        BY <4>1, <4>2 DEF PendingBuilds
      <4>4. PendingBuilds \subseteq Proc /\ PendingBuilds' \subseteq Proc
        BY DEF PendingBuilds
      <4>5. p \in PendingBuilds
        BY <4>1 DEF PendingBuilds
      <4>6. QED
        BY <4>3, <4>4, <4>5
    <3>2. Cardinality(PendingBuilds') = Cardinality(PendingBuilds) - 1
      BY <3>1, BuildsFinite, FS_RemoveElement
    <3>3. gauge' = gauge + 1 /\ CachedKeys' = CachedKeys /\ PendingEvictions' = PendingEvictions
      BY <2>0, <2>9 DEF ReportBuilt, cacheVars, CachedKeys, PendingEvictions
    <3>4. pc'[Closer] = "idle" => pc[Closer] = "idle"
      BY <2>0, <2>9 DEF ReportBuilt, GoTo, TypeShape
    <3>5. QED
      BY <2>0, <3>2, <3>3, <3>4, CachedFinite, BuildsFinite, FS_CardinalityType DEF GaugeInv, TypeShape
  <2>10. ASSUME NEW p \in Proc, ReportEvicted(p)
        PROVE  GaugeInv'
    <3>1. p \in Thread /\ unreported[p] > 0 /\ unreported' = [unreported EXCEPT ![p] = @ - 1] /\ gauge' = gauge - 1
      BY <2>0, <2>10 DEF ReportEvicted, GoTo, Shape, LocalShape, Thread
    <3>2. CachedKeys' = CachedKeys /\ PendingBuilds' = PendingBuilds
      BY <2>0, <2>10 DEF ReportEvicted, GoTo, cacheVars, flightVars, procVars, CachedKeys, PendingBuilds, TypeShape
    <3>3. pc'[Closer] = "idle" => pc[Closer] = "idle"
      BY <2>0, <2>10 DEF ReportEvicted, GoTo, TypeShape
    <3>4. QED
      BY <2>0, <3>1, <3>2, <3>3, EvictionReported
  <2>11. ASSUME NEW p \in Proc, Share(p)
        PROVE  GaugeInv'
    <3>1. CachedKeys' = CachedKeys /\ PendingBuilds' = PendingBuilds /\ UNCHANGED <<gauge, unreported>>
      BY <2>0, <2>11 DEF Share, GoTo, Acquire, CachedKeys, PendingBuilds, cacheVars, clientVars, flightVars, procVars, obsVars,
                  Shape, TypeShape, LocalShape, Ownership, BuilderOwns, OutcomeKnown
    <3>2. pc'[Closer] = "idle" => pc[Closer] = "idle"
      BY <2>0, <2>11 DEF Share, GoTo, Acquire, TypeShape, cacheVars, clientVars, flightVars, procVars, obsVars
    <3>3. QED
      BY <3>1, <3>2, GaugeStays
  <2>12. ASSUME NEW p \in Proc, ShareFailed(p)
        PROVE  GaugeInv'
    <3>1. CachedKeys' = CachedKeys /\ PendingBuilds' = PendingBuilds /\ UNCHANGED <<gauge, unreported>>
      BY <2>0, <2>12 DEF ShareFailed, GoTo, CachedKeys, PendingBuilds, cacheVars, clientVars, flightVars, procVars, obsVars,
                  Shape, TypeShape, LocalShape, Ownership, BuilderOwns, OutcomeKnown
    <3>2. pc'[Closer] = "idle" => pc[Closer] = "idle"
      BY <2>0, <2>12 DEF ShareFailed, GoTo, TypeShape, cacheVars, clientVars, flightVars, procVars, obsVars
    <3>3. QED
      BY <3>1, <3>2, GaugeStays
  <2>13. ASSUME NEW p \in Proc, RoundTrip(p)
        PROVE  GaugeInv'
    <3>1. CachedKeys' = CachedKeys /\ PendingBuilds' = PendingBuilds /\ UNCHANGED <<gauge, unreported>>
      BY <2>0, <2>13 DEF RoundTrip, GoTo, CachedKeys, PendingBuilds, cacheVars, clientVars, flightVars, procVars, obsVars,
                  Shape, TypeShape, LocalShape, Ownership, BuilderOwns, OutcomeKnown
    <3>2. pc'[Closer] = "idle" => pc[Closer] = "idle"
      BY <2>0, <2>13 DEF RoundTrip, GoTo, TypeShape, cacheVars, clientVars, flightVars, procVars, obsVars
    <3>3. QED
      BY <3>1, <3>2, GaugeStays
  <2>14. ASSUME NEW p \in Proc, Release(p)
        PROVE  GaugeInv'
    <3>1. CachedKeys' = CachedKeys /\ PendingBuilds' = PendingBuilds /\ UNCHANGED <<gauge, unreported>>
      BY <2>0, <2>14 DEF Release, CachedKeys, PendingBuilds, cacheVars, clientVars, flightVars, procVars, obsVars,
                  Shape, TypeShape, LocalShape, Ownership, BuilderOwns, OutcomeKnown
    <3>2. pc'[Closer] = "idle" => pc[Closer] = "idle"
      BY <2>0, <2>14 DEF Release, TypeShape, cacheVars, clientVars, flightVars, procVars, obsVars
    <3>3. QED
      BY <3>1, <3>2, GaugeStays
  <2>15. ASSUME NEW p \in Proc, ReleaseCheck(p)
        PROVE  GaugeInv'
    <3>1. CachedKeys' = CachedKeys /\ PendingBuilds' = PendingBuilds /\ UNCHANGED <<gauge, unreported>>
      BY <2>0, <2>15 DEF ReleaseCheck, GoTo, CloseIfRetired, CloseClient, CachedKeys, PendingBuilds, cacheVars, clientVars, flightVars, procVars, obsVars,
                  Shape, TypeShape, LocalShape, Ownership, BuilderOwns, OutcomeKnown
    <3>2. pc'[Closer] = "idle" => pc[Closer] = "idle"
      BY <2>0, <2>15 DEF ReleaseCheck, GoTo, CloseIfRetired, CloseClient, TypeShape, cacheVars, clientVars, flightVars, procVars, obsVars
    <3>3. QED
      BY <3>1, <3>2, GaugeStays
  <2>16. ASSUME RetireCheck
        PROVE  GaugeInv'
    <3>1. CachedKeys' = CachedKeys /\ PendingBuilds' = PendingBuilds /\ UNCHANGED <<gauge, unreported>>
      BY <2>0, <2>16 DEF RetireCheck, CloseIfUnused, CloseClient, CachedKeys, PendingBuilds, cacheVars, clientVars, flightVars, procVars, obsVars,
                  Shape, TypeShape, LocalShape, Ownership, BuilderOwns, OutcomeKnown
    <3>2. pc'[Closer] = "idle" => pc[Closer] = "idle"
      BY <2>0, <2>16 DEF RetireCheck, CloseIfUnused, CloseClient, TypeShape, cacheVars, clientVars, flightVars, procVars, obsVars
    <3>3. QED
      BY <3>1, <3>2, GaugeStays
  <2>17. ASSUME SweepStart
        PROVE  GaugeInv'
    <3>1. CachedKeys' = CachedKeys /\ PendingBuilds' = PendingBuilds /\ UNCHANGED <<gauge, unreported>>
      BY <2>0, <2>17 DEF SweepStart, GoTo, CachedKeys, PendingBuilds, cacheVars, clientVars, flightVars, procVars, obsVars,
                  Shape, TypeShape, LocalShape, Ownership, BuilderOwns, OutcomeKnown
    <3>2. pc'[Closer] = "idle" => pc[Closer] = "idle"
      BY <2>0, <2>17 DEF SweepStart, GoTo, TypeShape, cacheVars, clientVars, flightVars, procVars, obsVars
    <3>3. QED
      BY <3>1, <3>2, GaugeStays
  <2>18. ASSUME NEW k \in Key, SweepEvict(k)
        PROVE  GaugeInv'
    <3>1. k \in CachedKeys /\ Evict(k)
      BY <2>0, <2>18 DEF SweepEvict, CachedKeys, Shape, LockShape
    <3>2. CachedKeys' = CachedKeys \ {k}
      BY <2>0, <3>1 DEF Evict, CachedKeys, TypeShape
    <3>3. PendingBuilds' = PendingBuilds /\ UNCHANGED <<pc, gauge>>
      BY <2>0, <2>18 DEF SweepEvict, PendingBuilds, flightVars, procVars
    <3>4. Sweeper \in Thread /\ unreported' = [unreported EXCEPT ![Sweeper] = @ + 1]
      BY <2>0, <2>18 DEF SweepEvict, CountEviction, Thread
    <3>5. QED
      BY <2>0, <3>1, <3>2, <3>3, <3>4, EvictionMoves
  <2>19. ASSUME NEW k \in Key, SweepKeep(k)
        PROVE  GaugeInv'
    <3>1. CachedKeys' = CachedKeys /\ PendingBuilds' = PendingBuilds /\ UNCHANGED <<gauge, unreported>>
      BY <2>0, <2>19 DEF SweepKeep, CachedKeys, PendingBuilds, cacheVars, clientVars, flightVars, procVars, obsVars,
                  Shape, TypeShape, LocalShape, Ownership, BuilderOwns, OutcomeKnown
    <3>2. pc'[Closer] = "idle" => pc[Closer] = "idle"
      BY <2>0, <2>19 DEF SweepKeep, TypeShape, cacheVars, clientVars, flightVars, procVars, obsVars
    <3>3. QED
      BY <3>1, <3>2, GaugeStays
  <2>20. ASSUME SweepEnd
        PROVE  GaugeInv'
    <3>1. CachedKeys' = CachedKeys /\ PendingBuilds' = PendingBuilds /\ UNCHANGED <<gauge, unreported>>
      BY <2>0, <2>20 DEF SweepEnd, GoTo, CachedKeys, PendingBuilds, cacheVars, clientVars, flightVars, procVars, obsVars,
                  Shape, TypeShape, LocalShape, Ownership, BuilderOwns, OutcomeKnown
    <3>2. pc'[Closer] = "idle" => pc[Closer] = "idle"
      BY <2>0, <2>20 DEF SweepEnd, GoTo, TypeShape, cacheVars, clientVars, flightVars, procVars, obsVars
    <3>3. QED
      BY <3>1, <3>2, GaugeStays
  <2>21. ASSUME SweepReport
        PROVE  GaugeInv'
    <3>1. CachedKeys' = CachedKeys /\ PendingBuilds' = PendingBuilds
      BY <2>0, <2>21 DEF SweepReport, GoTo, cacheVars, flightVars, procVars, CachedKeys, PendingBuilds, TypeShape, Thread
    <3>2. pc'[Closer] = "idle" => pc[Closer] = "idle"
      BY <2>0, <2>21 DEF SweepReport, GoTo, TypeShape, Thread
    <3>3. CASE unreported[Sweeper] > 0
      <4>1. unreported' = [unreported EXCEPT ![Sweeper] = @ - 1] /\ gauge' = gauge - 1 /\ Sweeper \in Thread
        BY <2>21, <3>3 DEF SweepReport, Thread
      <4>2. QED
        BY <2>0, <3>1, <3>2, <3>3, <4>1, EvictionReported
    <3>4. CASE ~(unreported[Sweeper] > 0)
      BY <2>21, <3>1, <3>2, <3>4, GaugeStays DEF SweepReport, obsVars
    <3>5. QED
      BY <3>3, <3>4
  <2>22. ASSUME CloseStart \/ (\E k \in Key : CloseEvict(k)) \/ CloseEnd
        PROVE  GaugeInv'
    <3>1. pc'[Closer] # "idle"
      BY <2>0, <2>22 DEF CloseStart, CloseEvict, CloseEnd, GoTo, TypeShape
    <3>2. QED
      BY <3>1 DEF GaugeInv
  <2>23. CASE UNCHANGED vars
    BY <2>23, GaugeStays DEF vars, cacheVars, clientVars, flightVars, procVars, obsVars, CachedKeys, PendingBuilds
  <2>24. QED
    BY <2>1, <2>2, <2>3, <2>4, <2>5, <2>6, <2>7, <2>8, <2>9, <2>10, <2>11, <2>12, <2>13, <2>14, <2>15, <2>16, <2>17, <2>18, <2>19, <2>20, <2>21, <2>22, <2>23
       DEF Next, Get, Build, Return, Use, Sweep, Close
<1>3. GaugeInv => GaugeAccounts
  BY DEF GaugeInv, GaugeAccounts
<1>4. QED
  BY <1>1, <1>2, <1>3, ShapeInvariant, OwnershipInvariant, PTL DEF Spec
=============================================================================
