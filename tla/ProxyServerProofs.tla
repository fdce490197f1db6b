--------------------------- MODULE ProxyServerProofs ---------------------------
(***************************************************************************)
(* Proofs about ProxyServer, for any finite number of request goroutines.  *)
(***************************************************************************)
EXTENDS ProxyServer, TLAPS, FiniteSetTheorems

(* TypeOK, but for the sign of active.                                     *)
TypeShape ==
  /\ main \in {"serving", "draining", "shutdown", "leaving", "exited"}
  /\ draining \in BOOLEAN /\ drained \in BOOLEAN /\ graceOver \in BOOLEAN
  /\ active \in Int
  /\ pc \in [Request -> Counted \cup {"idle", "checked", "answered", "closed"}]
  /\ tunnelled \in [Request -> BOOLEAN]
  /\ lease \in [Request -> BOOLEAN]
  /\ timer \in [Request -> {"none", "armed", "fired", "stopped"}]
  /\ cancelled \in [Request -> BOOLEAN]
  /\ hooked \in [Request -> BOOLEAN]
  /\ status \in [Request -> {"none", "200", "cut", "418", "502", "504", "503"}]

(* The hook of a body has not run before its first Close, and has after.   *)
HookShape ==
  \A r \in Request : /\ pc[r] \in Counted \cup {"idle", "checked"} => ~hooked[r]
                     /\ pc[r] = "closed" => hooked[r]

(* Once Drain has begun, draining stays set.                               *)
DrainShape == main \in {"draining", "shutdown"} => draining

Shape == TypeShape /\ HookShape /\ DrainShape /\ LeaseEndsWithRequest

LEMMA ShapeInvariant == Spec => []Shape
<1>1. Init => Shape
  <2> SUFFICES ASSUME Init PROVE Shape
    OBVIOUS
  <2>1. TypeShape /\ DrainShape
    <3>1. active \in Int
      BY DEF Init
    <3>2. draining \in BOOLEAN /\ drained \in BOOLEAN /\ graceOver \in BOOLEAN
      BY DEF Init
    <3>3. QED
      BY <3>1, <3>2 DEF Init, TypeShape, DrainShape
  <2>2. HookShape
    BY DEF Init, HookShape, Counted
  <2>3. LeaseEndsWithRequest
    BY DEF Init, LeaseEndsWithRequest, Counted
  <2>4. QED
    BY <2>1, <2>2, <2>3 DEF Shape
<1>2. Shape /\ [Next]_vars => Shape'
  <2> SUFFICES ASSUME Shape, [Next]_vars PROVE Shape'
    OBVIOUS
  <2> USE DEF Shape, TypeShape, HookShape, DrainShape, LeaseEndsWithRequest, Counted
  <2>1. ASSUME NEW r \in Request, NEW t \in BOOLEAN, Arrive(r, t)
        PROVE  Shape'
    BY <2>1 DEF Arrive, At, Answer, endVars, reqVars
  <2>2. ASSUME NEW r \in Request, Enter(r)
        PROVE  Shape'
    BY <2>2 DEF Enter, GoTo, At, endVars, reqVars
  <2>3. ASSUME NEW r \in Request, Refuse(r)
        PROVE  Shape'
    BY <2>3 DEF Refuse, GoTo, At, Finish, Answer, endVars, reqVars
  <2>4. ASSUME NEW r \in Request, LeaseClient(r)
        PROVE  Shape'
    BY <2>4 DEF LeaseClient, GoTo, At, endVars, reqVars
  <2>5. ASSUME NEW r \in Request, Send(r)
        PROVE  Shape'
    BY <2>5 DEF Send, GoTo, At, endVars, reqVars
  <2>6. ASSUME NEW r \in Request, Headers(r)
        PROVE  Shape'
    BY <2>6 DEF Headers, GoTo, At, endVars, reqVars
  <2>7. ASSUME NEW r \in Request, UpstreamError(r)
        PROVE  Shape'
    BY <2>7 DEF UpstreamError, GoTo, At, endVars, reqVars
  <2>8. ASSUME NEW r \in Request, GiveUp(r)
        PROVE  Shape'
    BY <2>8 DEF GiveUp, UpstreamError, GoTo, At, endVars, reqVars
  <2>9. ASSUME NEW r \in Request, ClientGone(r)
        PROVE  Shape'
    BY <2>9 DEF ClientGone, At, Cancel, endVars, reqVars
  <2>10. ASSUME NEW r \in Request, TimerFires(r)
        PROVE  Shape'
    BY <2>10 DEF TimerFires, At, Cancel, endVars, reqVars
  <2>11. ASSUME NEW r \in Request, Fail(r)
        PROVE  Shape'
    BY <2>11 DEF Fail, GoTo, At, StopTimer, Answer, Cancel, Release, Finish, endVars, reqVars
  <2>12. ASSUME NEW r \in Request, Respond(r)
        PROVE  Shape'
    BY <2>12 DEF Respond, GoTo, At, StopTimer, endVars, reqVars
  <2>13. ASSUME NEW r \in Request, Copy(r)
        PROVE  Shape'
    BY <2>13 DEF Copy, GoTo, At, Answer, endVars, reqVars
  <2>14. ASSUME NEW r \in Request, CloseBody(r)
        PROVE  Shape'
    <3>1. ~hooked[r]
      BY <2>14 DEF CloseBody, GoTo, At
    <3>2. lease' = [lease EXCEPT ![r] = FALSE] /\ hooked' = [hooked EXCEPT ![r] = TRUE]
      BY <2>14, <3>1 DEF CloseBody, Hook, Release
    <3>3. TypeShape' /\ DrainShape'
      <4>1. active' = active - 1 /\ cancelled' = [cancelled EXCEPT ![r] = TRUE]
        BY <2>14, <3>1 DEF CloseBody, Hook, Finish, Cancel
      <4>2. QED
        BY <2>14, <3>2, <4>1 DEF CloseBody, GoTo, At, endVars
    <3>4. HookShape'
      BY <2>14, <3>2 DEF CloseBody, GoTo, At
    <3>5. LeaseEndsWithRequest'
      BY <2>14, <3>2 DEF CloseBody, GoTo, At
    <3>6. QED
      BY <3>3, <3>4, <3>5
  <2>15. ASSUME NEW r \in Request, CloseAgain(r)
        PROVE  Shape'
    BY <2>15 DEF CloseAgain, GoTo, At, Hook, Finish, Release, Cancel, endVars, reqVars
  <2>16. ASSUME NEW r \in Request, Done(r)
        PROVE  Shape'
    BY <2>16 DEF Done, At, endVars, reqVars
  <2>17. ASSUME Signal
        PROVE  Shape'
    BY <2>17 DEF Signal, MarkDraining, endVars, reqVars
  <2>18. ASSUME ServeFails
        PROVE  Shape'
    BY <2>18 DEF ServeFails, endVars, reqVars
  <2>19. ASSUME GraceExpires
        PROVE  Shape'
    BY <2>19 DEF GraceExpires, endVars, reqVars
  <2>20. ASSUME DrainDone
        PROVE  Shape'
    BY <2>20 DEF DrainDone, endVars, reqVars
  <2>21. ASSUME DrainTimesOut
        PROVE  Shape'
    BY <2>21 DEF DrainTimesOut, GivesUpDraining, endVars, reqVars
  <2>22. ASSUME Shutdown
        PROVE  Shape'
    BY <2>22 DEF Shutdown, ShutdownReturns, endVars, reqVars
  <2>23. ASSUME Exit
        PROVE  Shape'
    BY <2>23 DEF Exit, endVars, reqVars
  <2>24. CASE UNCHANGED vars
    BY <2>24 DEF vars, endVars, reqVars
  <2>25. QED
    BY <2>1, <2>2, <2>3, <2>4, <2>5, <2>6, <2>7, <2>8, <2>9, <2>10, <2>11, <2>12, <2>13, <2>14, <2>15, <2>16, <2>17, <2>18, <2>19, <2>20, <2>21, <2>22, <2>23, <2>24 DEF Next, Serve, End
<1>3. QED
  BY <1>1, <1>2, PTL DEF Spec

(* A request holds its client exactly while it deals with the upstream     *)
(* (roundTripper.RoundTrip and its closeHook).                             *)
THEOREM LeaseEndsWithRequestHolds == Spec => []LeaseEndsWithRequest
<1>1. Shape => LeaseEndsWithRequest
  BY DEF Shape
<1>2. QED
  BY <1>1, ShapeInvariant, PTL

(* No request joins those under way once Drain has begun (onRequest loads  *)
(* draining before it counts itself).                                      *)
THEOREM DrainOnlyShrinksHolds == Spec => DrainOnlyShrinks
<1>1. Shape /\ [Next]_vars =>
        ((main \in {"draining", "shutdown"}) => InFlight' \subseteq InFlight)
  <2> SUFFICES ASSUME Shape, [Next]_vars, main \in {"draining", "shutdown"}
               PROVE  InFlight' \subseteq InFlight
    OBVIOUS
  <2> USE DEF InFlight, Counted
  <2>1. ASSUME NEW r \in Request, NEW t \in BOOLEAN, Arrive(r, t)
        PROVE  InFlight' \subseteq InFlight
    BY <2>1 DEF Arrive, At, Answer, reqVars, Shape, TypeShape, DrainShape
  <2>2. ASSUME NEW r \in Request, Enter(r)
        PROVE  InFlight' \subseteq InFlight
    BY <2>2 DEF Enter, GoTo, At, reqVars, Shape, TypeShape, DrainShape
  <2>3. ASSUME NEW r \in Request, Refuse(r)
        PROVE  InFlight' \subseteq InFlight
    BY <2>3 DEF Refuse, GoTo, At, Finish, Answer, reqVars, Shape, TypeShape, DrainShape
  <2>4. ASSUME NEW r \in Request, LeaseClient(r)
        PROVE  InFlight' \subseteq InFlight
    BY <2>4 DEF LeaseClient, GoTo, At, reqVars, Shape, TypeShape, DrainShape
  <2>5. ASSUME NEW r \in Request, Send(r)
        PROVE  InFlight' \subseteq InFlight
    BY <2>5 DEF Send, GoTo, At, reqVars, Shape, TypeShape, DrainShape
  <2>6. ASSUME NEW r \in Request, Headers(r)
        PROVE  InFlight' \subseteq InFlight
    BY <2>6 DEF Headers, GoTo, At, reqVars, Shape, TypeShape, DrainShape
  <2>7. ASSUME NEW r \in Request, UpstreamError(r)
        PROVE  InFlight' \subseteq InFlight
    BY <2>7 DEF UpstreamError, GoTo, At, reqVars, Shape, TypeShape, DrainShape
  <2>8. ASSUME NEW r \in Request, GiveUp(r)
        PROVE  InFlight' \subseteq InFlight
    BY <2>8 DEF GiveUp, UpstreamError, GoTo, At, reqVars, Shape, TypeShape, DrainShape
  <2>9. ASSUME NEW r \in Request, ClientGone(r)
        PROVE  InFlight' \subseteq InFlight
    BY <2>9 DEF ClientGone, At, Cancel, reqVars, Shape, TypeShape, DrainShape
  <2>10. ASSUME NEW r \in Request, TimerFires(r)
        PROVE  InFlight' \subseteq InFlight
    BY <2>10 DEF TimerFires, At, Cancel, reqVars, Shape, TypeShape, DrainShape
  <2>11. ASSUME NEW r \in Request, Fail(r)
        PROVE  InFlight' \subseteq InFlight
    BY <2>11 DEF Fail, GoTo, At, StopTimer, Answer, Cancel, Release, Finish, reqVars, Shape, TypeShape, DrainShape
  <2>12. ASSUME NEW r \in Request, Respond(r)
        PROVE  InFlight' \subseteq InFlight
    BY <2>12 DEF Respond, GoTo, At, StopTimer, reqVars, Shape, TypeShape, DrainShape
  <2>13. ASSUME NEW r \in Request, Copy(r)
        PROVE  InFlight' \subseteq InFlight
    BY <2>13 DEF Copy, GoTo, At, Answer, reqVars, Shape, TypeShape, DrainShape
  <2>14. ASSUME NEW r \in Request, CloseBody(r)
        PROVE  InFlight' \subseteq InFlight
    BY <2>14 DEF CloseBody, GoTo, At, Hook, Finish, Release, Cancel, reqVars, Shape, TypeShape, DrainShape
  <2>15. ASSUME NEW r \in Request, CloseAgain(r)
        PROVE  InFlight' \subseteq InFlight
    BY <2>15 DEF CloseAgain, GoTo, At, Hook, Finish, Release, Cancel, reqVars, Shape, TypeShape, DrainShape
  <2>16. ASSUME NEW r \in Request, Done(r)
        PROVE  InFlight' \subseteq InFlight
    BY <2>16 DEF Done, At, reqVars, Shape, TypeShape, DrainShape
  <2>17. ASSUME Signal
        PROVE  InFlight' \subseteq InFlight
    BY <2>17 DEF Signal, MarkDraining, reqVars, Shape, TypeShape, DrainShape
  <2>18. ASSUME ServeFails
        PROVE  InFlight' \subseteq InFlight
    BY <2>18 DEF ServeFails, reqVars, Shape, TypeShape, DrainShape
  <2>19. ASSUME GraceExpires
        PROVE  InFlight' \subseteq InFlight
    BY <2>19 DEF GraceExpires, reqVars, Shape, TypeShape, DrainShape
  <2>20. ASSUME DrainDone
        PROVE  InFlight' \subseteq InFlight
    BY <2>20 DEF DrainDone, reqVars, Shape, TypeShape, DrainShape
  <2>21. ASSUME DrainTimesOut
        PROVE  InFlight' \subseteq InFlight
    BY <2>21 DEF DrainTimesOut, GivesUpDraining, reqVars, Shape, TypeShape, DrainShape
  <2>22. ASSUME Shutdown
        PROVE  InFlight' \subseteq InFlight
    BY <2>22 DEF Shutdown, ShutdownReturns, reqVars, Shape, TypeShape, DrainShape
  <2>23. ASSUME Exit
        PROVE  InFlight' \subseteq InFlight
    BY <2>23 DEF Exit, reqVars, Shape, TypeShape, DrainShape
  <2>24. CASE UNCHANGED vars
    BY <2>24 DEF vars, reqVars
  <2>25. QED
    BY <2>1, <2>2, <2>3, <2>4, <2>5, <2>6, <2>7, <2>8, <2>9, <2>10, <2>11, <2>12, <2>13, <2>14, <2>15, <2>16, <2>17, <2>18, <2>19, <2>20, <2>21, <2>22, <2>23, <2>24 DEF Next, Serve, End
<1>2. QED
  BY <1>1, ShapeInvariant, PTL DEF Spec, DrainOnlyShrinks

(* From the return of Shutdown on, the claim of ExitSparesPlain.           *)
PlainSpared ==
  /\ main \in {"serving", "draining"} => ~drained
  /\ main \in {"leaving", "exited"} /\ drained /\ ~graceOver =>
       \A r \in Request : pc[r] # "idle" => tunnelled[r]

(* A drain that succeeded within the grace ends under no plain request     *)
(* (run calls proxyServer.Shutdown before it returns).                     *)
THEOREM ExitSparesPlainHolds == Spec => []ExitSparesPlain
<1>1. Init => PlainSpared
  BY DEF Init, PlainSpared
<1>2. Shape /\ PlainSpared /\ [Next]_vars => PlainSpared'
  <2> SUFFICES ASSUME Shape, PlainSpared, [Next]_vars PROVE PlainSpared'
    OBVIOUS
  <2> USE DEF PlainSpared
  <2>1. ASSUME NEW r \in Request, NEW t \in BOOLEAN, Arrive(r, t)
        PROVE  PlainSpared'
    BY <2>1 DEF Arrive, At, Answer, endVars, reqVars, Shape, TypeShape
  <2>2. ASSUME NEW r \in Request, Enter(r)
        PROVE  PlainSpared'
    BY <2>2 DEF Enter, GoTo, At, endVars, reqVars, Shape, TypeShape
  <2>3. ASSUME NEW r \in Request, Refuse(r)
        PROVE  PlainSpared'
    BY <2>3 DEF Refuse, GoTo, At, Finish, Answer, endVars, reqVars, Shape, TypeShape
  <2>4. ASSUME NEW r \in Request, LeaseClient(r)
        PROVE  PlainSpared'
    BY <2>4 DEF LeaseClient, GoTo, At, endVars, reqVars, Shape, TypeShape
  <2>5. ASSUME NEW r \in Request, Send(r)
        PROVE  PlainSpared'
    BY <2>5 DEF Send, GoTo, At, endVars, reqVars, Shape, TypeShape
  <2>6. ASSUME NEW r \in Request, Headers(r)
        PROVE  PlainSpared'
    BY <2>6 DEF Headers, GoTo, At, endVars, reqVars, Shape, TypeShape
  <2>7. ASSUME NEW r \in Request, UpstreamError(r)
        PROVE  PlainSpared'
    BY <2>7 DEF UpstreamError, GoTo, At, endVars, reqVars, Shape, TypeShape
  <2>8. ASSUME NEW r \in Request, GiveUp(r)
        PROVE  PlainSpared'
    BY <2>8 DEF GiveUp, UpstreamError, GoTo, At, endVars, reqVars, Shape, TypeShape
  <2>9. ASSUME NEW r \in Request, ClientGone(r)
        PROVE  PlainSpared'
    BY <2>9 DEF ClientGone, At, Cancel, endVars, reqVars, Shape, TypeShape
  <2>10. ASSUME NEW r \in Request, TimerFires(r)
        PROVE  PlainSpared'
    BY <2>10 DEF TimerFires, At, Cancel, endVars, reqVars, Shape, TypeShape
  <2>11. ASSUME NEW r \in Request, Fail(r)
        PROVE  PlainSpared'
    BY <2>11 DEF Fail, GoTo, At, StopTimer, Answer, Cancel, Release, Finish, endVars, reqVars, Shape, TypeShape
  <2>12. ASSUME NEW r \in Request, Respond(r)
        PROVE  PlainSpared'
    BY <2>12 DEF Respond, GoTo, At, StopTimer, endVars, reqVars, Shape, TypeShape
  <2>13. ASSUME NEW r \in Request, Copy(r)
        PROVE  PlainSpared'
    BY <2>13 DEF Copy, GoTo, At, Answer, endVars, reqVars, Shape, TypeShape
  <2>14. ASSUME NEW r \in Request, CloseBody(r)
        PROVE  PlainSpared'
    BY <2>14 DEF CloseBody, GoTo, At, Hook, Finish, Release, Cancel, endVars, reqVars, Shape, TypeShape
  <2>15. ASSUME NEW r \in Request, CloseAgain(r)
        PROVE  PlainSpared'
    BY <2>15 DEF CloseAgain, GoTo, At, Hook, Finish, Release, Cancel, endVars, reqVars, Shape, TypeShape
  <2>16. ASSUME NEW r \in Request, Done(r)
        PROVE  PlainSpared'
    BY <2>16 DEF Done, At, endVars, reqVars, Shape, TypeShape
  <2>17. ASSUME Signal
        PROVE  PlainSpared'
    BY <2>17 DEF Signal, MarkDraining, endVars, reqVars, Shape, TypeShape
  <2>18. ASSUME ServeFails
        PROVE  PlainSpared'
    BY <2>18 DEF ServeFails, endVars, reqVars, Shape, TypeShape
  <2>19. ASSUME GraceExpires
        PROVE  PlainSpared'
    BY <2>19 DEF GraceExpires, endVars, reqVars, Shape, TypeShape
  <2>20. ASSUME DrainDone
        PROVE  PlainSpared'
    BY <2>20 DEF DrainDone, endVars, reqVars, Shape, TypeShape
  <2>21. ASSUME DrainTimesOut
        PROVE  PlainSpared'
    BY <2>21 DEF DrainTimesOut, GivesUpDraining, endVars, reqVars, Shape, TypeShape
  <2>22. ASSUME Shutdown
        PROVE  PlainSpared'
    BY <2>22 DEF Shutdown, ShutdownReturns, endVars, reqVars, Shape, TypeShape
  <2>23. ASSUME Exit
        PROVE  PlainSpared'
    BY <2>23 DEF Exit, endVars, reqVars, Shape, TypeShape
  <2>24. CASE UNCHANGED vars
    BY <2>24 DEF vars, endVars, reqVars
  <2>25. QED
    BY <2>1, <2>2, <2>3, <2>4, <2>5, <2>6, <2>7, <2>8, <2>9, <2>10, <2>11, <2>12, <2>13, <2>14, <2>15, <2>16, <2>17, <2>18, <2>19, <2>20, <2>21, <2>22, <2>23, <2>24 DEF Next, Serve, End
<1>3. PlainSpared => ExitSparesPlain
  BY DEF PlainSpared, ExitSparesPlain
<1>4. QED
  BY <1>1, <1>2, <1>3, ShapeInvariant, PTL DEF Spec

-----------------------------------------------------------------------------
(* The count that Drain polls.                                             *)
CountedNow == {r \in Request : pc[r] \in Counted}

LEMMA CountedFinite ==
  IsFiniteSet(CountedNow) /\ Cardinality(CountedNow) \in Nat
<1>1. CountedNow \subseteq Request
  BY DEF CountedNow
<1>2. QED
  BY <1>1, RequestAssumption, FS_Subset, FS_CardinalityType

LEMMA OneJoins ==
  ASSUME TypeShape, ActiveCounts, NEW r \in Request, active' = active + 1,
         r \notin CountedNow, CountedNow' = CountedNow \cup {r}
  PROVE  ActiveCounts'
BY CountedFinite, FS_AddElement DEF ActiveCounts, CountedNow

LEMMA OneLeaves ==
  ASSUME TypeShape, ActiveCounts, NEW r \in Request, active' = active - 1,
         r \in CountedNow, CountedNow' = CountedNow \ {r}
  PROVE  ActiveCounts'
BY CountedFinite, FS_RemoveElement DEF ActiveCounts, CountedNow

LEMMA SameCount ==
  ASSUME ActiveCounts, UNCHANGED active, CountedNow' = CountedNow
  PROVE  ActiveCounts'
BY DEF ActiveCounts, CountedNow

(* active is the number of requests between onRequest's count and finish.  *)
THEOREM ActiveCountsHolds == Spec => []ActiveCounts
<1>1. Init => ActiveCounts
  <2> SUFFICES ASSUME Init PROVE ActiveCounts
    OBVIOUS
  <2>1. {r \in Request : pc[r] \in Counted} = {}
    BY DEF Init, Counted
  <2>2. QED
    BY <2>1, FS_EmptySet DEF Init, ActiveCounts
<1>2. Shape /\ ActiveCounts /\ [Next]_vars => ActiveCounts'
  <2> SUFFICES ASSUME Shape, ActiveCounts, [Next]_vars PROVE ActiveCounts'
    OBVIOUS
  <2>0. TypeShape
    BY DEF Shape
  <2>1. ASSUME NEW r \in Request, NEW t \in BOOLEAN, Arrive(r, t)
        PROVE  ActiveCounts'
    <3>1. CountedNow' = CountedNow
      BY <2>1 DEF Arrive, At, Answer, endVars, reqVars, CountedNow, Counted,
           Shape, TypeShape, HookShape
    <3>2. QED
      BY <2>1, <3>1, SameCount DEF Arrive
  <2>2. ASSUME NEW r \in Request, Enter(r)
        PROVE  ActiveCounts'
    <3>1. r \notin CountedNow /\ CountedNow' = CountedNow \cup {r}
      BY <2>2 DEF Enter, GoTo, At, endVars, reqVars, CountedNow, Counted,
           Shape, TypeShape, HookShape
    <3>2. QED
      BY <2>0, <2>2, <3>1, OneJoins DEF Enter
  <2>3. ASSUME NEW r \in Request, Refuse(r)
        PROVE  ActiveCounts'
    <3>1. r \in CountedNow /\ CountedNow' = CountedNow \ {r}
      BY <2>3 DEF Refuse, GoTo, At, Finish, Answer, endVars, reqVars, CountedNow, Counted,
           Shape, TypeShape, HookShape
    <3>2. active' = active - 1
      BY <2>3 DEF Refuse, Finish
    <3>3. QED
      BY <2>0, <3>1, <3>2, OneLeaves
  <2>4. ASSUME NEW r \in Request, LeaseClient(r)
        PROVE  ActiveCounts'
    <3>1. CountedNow' = CountedNow
      BY <2>4 DEF LeaseClient, GoTo, At, endVars, reqVars, CountedNow, Counted,
           Shape, TypeShape, HookShape
    <3>2. QED
      BY <2>4, <3>1, SameCount DEF LeaseClient
  <2>5. ASSUME NEW r \in Request, Send(r)
        PROVE  ActiveCounts'
    <3>1. CountedNow' = CountedNow
      BY <2>5 DEF Send, GoTo, At, endVars, reqVars, CountedNow, Counted,
           Shape, TypeShape, HookShape
    <3>2. QED
      BY <2>5, <3>1, SameCount DEF Send
  <2>6. ASSUME NEW r \in Request, Headers(r)
        PROVE  ActiveCounts'
    <3>1. CountedNow' = CountedNow
      BY <2>6 DEF Headers, GoTo, At, endVars, reqVars, CountedNow, Counted,
           Shape, TypeShape, HookShape
    <3>2. QED
      BY <2>6, <3>1, SameCount DEF Headers
  <2>7. ASSUME NEW r \in Request, UpstreamError(r)
        PROVE  ActiveCounts'
    <3>1. CountedNow' = CountedNow
      BY <2>7 DEF UpstreamError, GoTo, At, endVars, reqVars, CountedNow, Counted,
           Shape, TypeShape, HookShape
    <3>2. QED
      BY <2>7, <3>1, SameCount DEF UpstreamError
  <2>8. ASSUME NEW r \in Request, GiveUp(r)
        PROVE  ActiveCounts'
    <3>1. CountedNow' = CountedNow
      BY <2>8 DEF GiveUp, UpstreamError, GoTo, At, endVars, reqVars, CountedNow, Counted,
           Shape, TypeShape, HookShape
    <3>2. QED
      BY <2>8, <3>1, SameCount DEF GiveUp, UpstreamError
  <2>9. ASSUME NEW r \in Request, ClientGone(r)
        PROVE  ActiveCounts'
    <3>1. CountedNow' = CountedNow
      BY <2>9 DEF ClientGone, At, Cancel, endVars, reqVars, CountedNow, Counted,
           Shape, TypeShape, HookShape
    <3>2. QED
      BY <2>9, <3>1, SameCount DEF ClientGone
  <2>10. ASSUME NEW r \in Request, TimerFires(r)
        PROVE  ActiveCounts'
    <3>1. CountedNow' = CountedNow
      BY <2>10 DEF TimerFires, At, Cancel, endVars, reqVars, CountedNow, Counted,
           Shape, TypeShape, HookShape
    <3>2. QED
      BY <2>10, <3>1, SameCount DEF TimerFires
  <2>11. ASSUME NEW r \in Request, Fail(r)
        PROVE  ActiveCounts'
    <3>1. r \in CountedNow /\ CountedNow' = CountedNow \ {r}
      BY <2>11 DEF Fail, GoTo, At, StopTimer, Answer, Cancel, Release, Finish, endVars, reqVars, CountedNow, Counted,
           Shape, TypeShape, HookShape
    <3>2. active' = active - 1
      BY <2>11 DEF Fail, Finish
    <3>3. QED
      BY <2>0, <3>1, <3>2, OneLeaves
  <2>12. ASSUME NEW r \in Request, Respond(r)
        PROVE  ActiveCounts'
    <3>1. CountedNow' = CountedNow
      BY <2>12 DEF Respond, GoTo, At, StopTimer, endVars, reqVars, CountedNow, Counted,
           Shape, TypeShape, HookShape
    <3>2. QED
      BY <2>12, <3>1, SameCount DEF Respond
  <2>13. ASSUME NEW r \in Request, Copy(r)
        PROVE  ActiveCounts'
    <3>1. CountedNow' = CountedNow
      BY <2>13 DEF Copy, GoTo, At, Answer, endVars, reqVars, CountedNow, Counted,
           Shape, TypeShape, HookShape
    <3>2. QED
      BY <2>13, <3>1, SameCount DEF Copy
  <2>14. ASSUME NEW r \in Request, CloseBody(r)
        PROVE  ActiveCounts'
    <3>1. r \in CountedNow /\ CountedNow' = CountedNow \ {r}
      BY <2>14 DEF CloseBody, GoTo, At, Hook, Finish, Release, Cancel, endVars, reqVars, CountedNow, Counted,
           Shape, TypeShape, HookShape
    <3>2. active' = active - 1
      BY <2>14 DEF CloseBody, GoTo, At, Hook, Finish,
             Shape, HookShape, Counted
    <3>3. QED
      BY <2>0, <3>1, <3>2, OneLeaves
  <2>15. ASSUME NEW r \in Request, CloseAgain(r)
        PROVE  ActiveCounts'
    <3>1. CountedNow' = CountedNow
      BY <2>15 DEF CloseAgain, GoTo, At, Hook, Finish, Release, Cancel, endVars, reqVars, CountedNow, Counted,
           Shape, TypeShape, HookShape
    <3>2. QED
      BY <2>15, <3>1, SameCount DEF CloseAgain, GoTo, At, Hook, Shape, HookShape
  <2>16. ASSUME NEW r \in Request, Done(r)
        PROVE  ActiveCounts'
    <3>1. CountedNow' = CountedNow
      BY <2>16 DEF Done, At, endVars, reqVars, CountedNow, Counted,
           Shape, TypeShape, HookShape
    <3>2. QED
      BY <2>16, <3>1, SameCount DEF Done
  <2>17. ASSUME Signal
        PROVE  ActiveCounts'
    <3>1. CountedNow' = CountedNow
      BY <2>17 DEF Signal, MarkDraining, endVars, reqVars, CountedNow, Counted,
           Shape, TypeShape, HookShape
    <3>2. QED
      BY <2>17, <3>1, SameCount DEF Signal
  <2>18. ASSUME ServeFails
        PROVE  ActiveCounts'
    <3>1. CountedNow' = CountedNow
      BY <2>18 DEF ServeFails, endVars, reqVars, CountedNow, Counted,
           Shape, TypeShape, HookShape
    <3>2. QED
      BY <2>18, <3>1, SameCount DEF ServeFails
  <2>19. ASSUME GraceExpires
        PROVE  ActiveCounts'
    <3>1. CountedNow' = CountedNow
      BY <2>19 DEF GraceExpires, endVars, reqVars, CountedNow, Counted,
           Shape, TypeShape, HookShape
    <3>2. QED
      BY <2>19, <3>1, SameCount DEF GraceExpires
  <2>20. ASSUME DrainDone
        PROVE  ActiveCounts'
    <3>1. CountedNow' = CountedNow
      BY <2>20 DEF DrainDone, endVars, reqVars, CountedNow, Counted,
           Shape, TypeShape, HookShape
    <3>2. QED
      BY <2>20, <3>1, SameCount DEF DrainDone
  <2>21. ASSUME DrainTimesOut
        PROVE  ActiveCounts'
    <3>1. CountedNow' = CountedNow
      BY <2>21 DEF DrainTimesOut, GivesUpDraining, endVars, reqVars, CountedNow, Counted,
           Shape, TypeShape, HookShape
    <3>2. QED
      BY <2>21, <3>1, SameCount DEF DrainTimesOut
  <2>22. ASSUME Shutdown
        PROVE  ActiveCounts'
    <3>1. CountedNow' = CountedNow
      BY <2>22 DEF Shutdown, ShutdownReturns, endVars, reqVars, CountedNow, Counted,
           Shape, TypeShape, HookShape
    <3>2. QED
      BY <2>22, <3>1, SameCount DEF Shutdown
  <2>23. ASSUME Exit
        PROVE  ActiveCounts'
    <3>1. CountedNow' = CountedNow
      BY <2>23 DEF Exit, endVars, reqVars, CountedNow, Counted,
           Shape, TypeShape, HookShape
    <3>2. QED
      BY <2>23, <3>1, SameCount DEF Exit
  <2>24. CASE UNCHANGED vars
    BY <2>24 DEF vars, reqVars, ActiveCounts
  <2>25. QED
    BY <2>1, <2>2, <2>3, <2>4, <2>5, <2>6, <2>7, <2>8, <2>9, <2>10, <2>11, <2>12, <2>13, <2>14, <2>15, <2>16, <2>17, <2>18, <2>19, <2>20, <2>21, <2>22, <2>23, <2>24 DEF Next, Serve, End
<1>3. QED
  BY <1>1, <1>2, ShapeInvariant, PTL DEF Spec

(* Type correctness, with a count that never goes below zero.              *)
THEOREM TypeCorrect == Spec => []TypeOK
<1>1. Shape /\ ActiveCounts => TypeOK
  BY CountedFinite DEF Shape, TypeShape, TypeOK, ActiveCounts, CountedNow
<1>2. QED
  BY <1>1, ShapeInvariant, ActiveCountsHolds, PTL
=============================================================================
