----------------------------- MODULE ProxyServer -----------------------------
(***************************************************************************)
(* The life of a request and the end of the program: onRequest             *)
(* (internal/proxy/handler.go), RoundTrip and finish (roundtrip.go), the   *)
(* body hook (body.go), Drain (proxy.go) and run (cmd/tip/main.go).        *)
(*                                                                         *)
(* goproxy runs one goroutine per request; each loads `draining`, counts   *)
(* itself in `active`, leases a client, sends, streams the body back and   *)
(* finishes.  A plain request is answered by net/http, whose Shutdown      *)
(* waits for it; a tunnelled one on a hijacked connection, for which it    *)
(* does not.  The main goroutine drains, shuts down and leaves run, which  *)
(* closes the client cache and ends every goroutine with the process.      *)
(***************************************************************************)
EXTENDS Integers, FiniteSets

CONSTANT Request       \* request goroutines

ASSUME RequestAssumption == IsFiniteSet(Request)

VARIABLES
  main,       \* where run() is
  draining,   \* Server.draining
  active,     \* Server.active
  drained,    \* Drain returned nil
  graceOver,  \* graceCtx has expired
  pc,         \* where a request is
  tunnelled,  \* it came through a CONNECT tunnel
  lease,      \* it holds a client of the cache
  timer,      \* its time.AfterFunc(timeout, cancel)
  cancelled,  \* its context is cancelled
  hooked,     \* its closeHook has run
  status      \* what it was answered

reqVars == <<pc, tunnelled, lease, timer, cancelled, hooked, status>>
endVars == <<main, draining, drained, graceOver>>
vars == <<endVars, active, reqVars>>

(* Between active.Add(1) and the deferred active.Add(-1) of finish.        *)
Counted == {"deciding", "leased", "sending", "headers", "failed", "streaming", "read"}

TypeOK ==
  /\ main \in {"serving", "draining", "shutdown", "leaving", "exited"}
  /\ draining \in BOOLEAN /\ drained \in BOOLEAN /\ graceOver \in BOOLEAN
  /\ active \in Nat
  /\ pc \in [Request -> Counted \cup {"idle", "checked", "answered", "closed"}]
  /\ tunnelled \in [Request -> BOOLEAN]
  /\ lease \in [Request -> BOOLEAN]
  /\ timer \in [Request -> {"none", "armed", "fired", "stopped"}]
  /\ cancelled \in [Request -> BOOLEAN]
  /\ hooked \in [Request -> BOOLEAN]
  /\ status \in [Request -> {"none", "200", "cut", "418", "502", "504", "503"}]

Init ==
  /\ main = "serving"
  /\ draining = FALSE /\ drained = FALSE /\ graceOver = FALSE
  /\ active = 0
  /\ pc = [r \in Request |-> "idle"]
  /\ tunnelled = [r \in Request |-> FALSE]
  /\ lease = [r \in Request |-> FALSE]
  /\ timer = [r \in Request |-> "none"]
  /\ cancelled = [r \in Request |-> FALSE]
  /\ hooked = [r \in Request |-> FALSE]
  /\ status = [r \in Request |-> "none"]

-----------------------------------------------------------------------------
(* Single faults of the helpers below, one plausible slip each.            *)

FaultFinishNothing == UNCHANGED active

FaultNoRelease(r) == UNCHANGED lease

FaultHookEveryTime(r) ==
  /\ active' = active - 1
  /\ lease' = [lease EXCEPT ![r] = FALSE]
  /\ cancelled' = [cancelled EXCEPT ![r] = TRUE]
  /\ hooked' = [hooked EXCEPT ![r] = TRUE]

FaultDrainUnmarked == UNCHANGED draining

FaultCancelNothing(r) == UNCHANGED cancelled

FaultDrainForever == FALSE

-----------------------------------------------------------------------------
(* Helpers *)

(* A goroutine takes steps as long as there is a process.                  *)
At(r, places) == main # "exited" /\ pc[r] \in places
GoTo(r, from, to) == At(r, {from}) /\ pc' = [pc EXCEPT ![r] = to]

Answer(r, code) == status' = [status EXCEPT ![r] = code]

(* finish(): the counters of the observer, then active.Add(-1).            *)
Finish == active' = active - 1

Release(r) == lease' = [lease EXCEPT ![r] = FALSE]

Cancel(r) == cancelled' = [cancelled EXCEPT ![r] = TRUE]

(* The closure of onClose, behind closeHook.once.                          *)
Hook(r) ==
  IF hooked[r] THEN UNCHANGED <<active, lease, cancelled, hooked>>
  ELSE /\ Finish
       /\ Release(r)
       /\ Cancel(r)
       /\ hooked' = [hooked EXCEPT ![r] = TRUE]

MarkDraining == draining' = TRUE

-----------------------------------------------------------------------------
(* A request *)

(* It arrives: on a tunnel at any time, plainly while the listener is      *)
(* open.  onRequest loads draining and answers 503 when it is set.         *)
Arrive(r, t) ==
  /\ t \/ main \in {"serving", "draining"}
  /\ At(r, {"idle"})
  /\ tunnelled' = [tunnelled EXCEPT ![r] = t]
  /\ IF draining
       THEN Answer(r, "503") /\ pc' = [pc EXCEPT ![r] = "answered"]
       ELSE UNCHANGED status /\ pc' = [pc EXCEPT ![r] = "checked"]
  /\ UNCHANGED <<endVars, active, lease, timer, cancelled, hooked>>

(* active.Add(1), RequestStarted.                                          *)
Enter(r) ==
  /\ GoTo(r, "checked", "deciding")
  /\ active' = active + 1
  /\ UNCHANGED <<endVars, tunnelled, lease, timer, cancelled, hooked, status>>

(* Directives with issues, a profile unknown, an OS the browser lacks or a *)
(* client that cannot be built: finish, then hand back a 418.              *)
Refuse(r) ==
  /\ GoTo(r, "deciding", "answered")
  /\ Finish
  /\ Answer(r, "418")
  /\ UNCHANGED <<endVars, tunnelled, lease, timer, cancelled, hooked>>

(* clients.Get gave a client; goproxy calls RoundTrip with it.             *)
LeaseClient(r) ==
  /\ GoTo(r, "deciding", "leased")
  /\ lease' = [lease EXCEPT ![r] = TRUE]
  /\ UNCHANGED <<endVars, active, tunnelled, timer, cancelled, hooked, status>>

(* RoundTrip up to the transport's; no timer without a timeout.            *)
Send(r) ==
  /\ GoTo(r, "leased", "sending")
  /\ \E timed \in BOOLEAN :
       timer' = [timer EXCEPT ![r] = IF timed THEN "armed" ELSE "none"]
  /\ UNCHANGED <<endVars, active, tunnelled, lease, cancelled, hooked, status>>

(* The transport returns the response's headers.                           *)
Headers(r) ==
  /\ ~cancelled[r]
  /\ GoTo(r, "sending", "headers")
  /\ UNCHANGED <<endVars, active, tunnelled, lease, timer, cancelled, hooked, status>>

(* It returns an error of its own...                                       *)
UpstreamError(r) ==
  /\ GoTo(r, "sending", "failed")
  /\ UNCHANGED <<endVars, active, tunnelled, lease, timer, cancelled, hooked, status>>

(* ...or because the context is cancelled.                                 *)
GiveUp(r) == cancelled[r] /\ UpstreamError(r)

(* The client goes away: net/http or goproxy cancels the request.          *)
ClientGone(r) ==
  /\ At(r, {"sending", "streaming"})
  /\ ~cancelled[r]
  /\ Cancel(r)
  /\ UNCHANGED <<endVars, active, pc, tunnelled, lease, timer, hooked, status>>

(* The timer's goroutine runs cancel().                                    *)
TimerFires(r) ==
  /\ At(r, {"sending", "headers", "failed"})
  /\ timer[r] = "armed"
  /\ timer' = [timer EXCEPT ![r] = "fired"]
  /\ Cancel(r)
  /\ UNCHANGED <<endVars, active, pc, tunnelled, lease, hooked, status>>

StopTimer(r) ==
  timer' = [timer EXCEPT ![r] = IF @ = "armed" THEN "stopped" ELSE @]

(* err # nil: stop the timer, cancel, release, finish, hand back a 502, or *)
(* a 504 for a cancelled context (Classify calls either a timeout).        *)
Fail(r) ==
  /\ GoTo(r, "failed", "answered")
  /\ StopTimer(r)
  /\ Answer(r, IF cancelled[r] THEN "504" ELSE "502")
  /\ Cancel(r)
  /\ Release(r)
  /\ Finish
  /\ UNCHANGED <<endVars, tunnelled, hooked>>

(* err = nil: stop the timer, dress the response, hand it back.            *)
Respond(r) ==
  /\ GoTo(r, "headers", "streaming")
  /\ StopTimer(r)
  /\ UNCHANGED <<endVars, active, tunnelled, lease, cancelled, hooked, status>>

(* goproxy copies the body to the client; a cancelled context cuts it.     *)
Copy(r) ==
  /\ GoTo(r, "streaming", "read")
  /\ Answer(r, IF cancelled[r] THEN "cut" ELSE "200")
  /\ UNCHANGED <<endVars, active, tunnelled, lease, timer, cancelled, hooked>>

(* Body.Close(), which goproxy and the transport may both call.            *)
CloseBody(r) ==
  /\ GoTo(r, "read", "closed")
  /\ Hook(r)
  /\ UNCHANGED <<endVars, tunnelled, timer, status>>

CloseAgain(r) ==
  /\ GoTo(r, "closed", "answered")
  /\ Hook(r)
  /\ UNCHANGED <<endVars, tunnelled, timer, status>>

(* The answer is written out; the goroutine serves its next request.       *)
Done(r) ==
  /\ At(r, {"closed", "answered"})
  /\ pc' = [pc EXCEPT ![r] = "idle"]
  /\ tunnelled' = [tunnelled EXCEPT ![r] = FALSE]
  /\ timer' = [timer EXCEPT ![r] = "none"]
  /\ cancelled' = [cancelled EXCEPT ![r] = FALSE]
  /\ hooked' = [hooked EXCEPT ![r] = FALSE]
  /\ status' = [status EXCEPT ![r] = "none"]
  /\ UNCHANGED <<endVars, active, lease>>

-----------------------------------------------------------------------------
(* run() *)

(* SIGTERM or an interrupt: Drain stores draining, then polls active.      *)
Signal ==
  /\ main = "serving"
  /\ main' = "draining"
  /\ MarkDraining
  /\ UNCHANGED <<drained, graceOver, active, reqVars>>

(* A listener failed: run returns at once, without draining.               *)
ServeFails ==
  /\ main = "serving"
  /\ main' = "leaving"
  /\ UNCHANGED <<draining, drained, graceOver, active, reqVars>>

GraceExpires ==
  /\ main \in {"draining", "shutdown"}
  /\ ~graceOver
  /\ graceOver' = TRUE
  /\ UNCHANGED <<main, draining, drained, active, reqVars>>

DrainDone ==
  /\ main = "draining"
  /\ active = 0
  /\ main' = "shutdown"
  /\ drained' = TRUE
  /\ UNCHANGED <<draining, graceOver, active, reqVars>>

(* Drain's select may see the context done.                                *)
GivesUpDraining == active > 0 /\ graceOver

DrainTimesOut ==
  /\ main = "draining"
  /\ GivesUpDraining
  /\ main' = "shutdown"
  /\ UNCHANGED <<draining, drained, graceOver, active, reqVars>>

(* http.Server.Shutdown waits for the connections it still owns, not for   *)
(* hijacked ones, and no longer than graceCtx.                             *)
ShutdownReturns ==
  \/ graceOver
  \/ \A r \in Request : pc[r] # "idle" => tunnelled[r]

FaultShutdown ==
  /\ main = "shutdown"
  /\ main' = "leaving"
  /\ UNCHANGED <<draining, drained, graceOver, active, reqVars>>

Shutdown ==
  /\ main = "shutdown"
  /\ ShutdownReturns
  /\ main' = "leaving"
  /\ UNCHANGED <<draining, drained, graceOver, active, reqVars>>

(* The deferred cache.Close(), and the process is gone.                    *)
Exit ==
  /\ main = "leaving"
  /\ main' = "exited"
  /\ UNCHANGED <<draining, drained, graceOver, active, reqVars>>

-----------------------------------------------------------------------------

Serve(r) ==
  \/ \E t \in BOOLEAN : Arrive(r, t)
  \/ Enter(r) \/ Refuse(r) \/ LeaseClient(r) \/ Send(r)
  \/ Headers(r) \/ UpstreamError(r) \/ GiveUp(r) \/ ClientGone(r) \/ TimerFires(r)
  \/ Fail(r) \/ Respond(r) \/ Copy(r) \/ CloseBody(r) \/ CloseAgain(r) \/ Done(r)

End == Signal \/ ServeFails \/ GraceExpires \/ DrainDone \/ DrainTimesOut
       \/ Shutdown \/ Exit

Next == (\E r \in Request : Serve(r)) \/ End

Spec == Init /\ [][Next]_vars

(* Fairness: the main goroutine and the grace timer run; a goroutine goes  *)
(* through onRequest; a timer that is due fires; the transport returns     *)
(* once its context is cancelled.  Nothing makes an upstream answer.       *)
Fairness ==
  /\ WF_vars(GraceExpires) /\ WF_vars(DrainDone \/ DrainTimesOut)
  /\ WF_vars(Shutdown) /\ WF_vars(Exit)
  /\ \A r \in Request :
       /\ WF_vars(TimerFires(r))
       /\ WF_vars(GiveUp(r))
       /\ WF_vars(Enter(r) \/ Refuse(r) \/ LeaseClient(r) \/ Send(r))
       /\ WF_vars(Fail(r) \/ Respond(r))

FairSpec == Spec /\ Fairness

-----------------------------------------------------------------------------
(* Properties *)

(* The requests between their test of draining and their finish.           *)
InFlight == {r \in Request : pc[r] \in Counted \cup {"checked"}}

(* active, which Drain polls, is the number of requests between their      *)
(* active.Add(1) and their finish: each of the four ways out of a request  *)
(* (418, 502, 504, the body's close) finishes it, and none does so twice,  *)
(* however often a body is closed.                                         *)
ActiveCounts == active = Cardinality({r \in Request : pc[r] \in Counted})

(* A request holds its client from Get until it is through with the        *)
(* upstream, and no longer: no way out keeps a client in flight for ever.  *)
LeaseEndsWithRequest ==
  \A r \in Request : lease[r] <=> pc[r] \in Counted \ {"deciding"}

(* From the moment Drain begins no request joins those under way, on a     *)
(* tunnel or not: what is left to wait for only shrinks.                   *)
DrainOnlyShrinks ==
  [][(main \in {"draining", "shutdown"}) => InFlight' \subseteq InFlight]_vars

(* When Drain succeeded within the grace, the process does not end under a *)
(* plain request: Shutdown waits for those that Drain did not see.         *)
ExitSparesPlain ==
  main = "exited" /\ drained /\ ~graceOver
    => \A r \in Request : pc[r] # "idle" => tunnelled[r]

(* "in-flight requests finish" (proxy.go:124): when Drain succeeded within *)
(* the grace, the process does not end under any request.                  *)
ExitSparesAll ==
  main = "exited" /\ drained /\ ~graceOver => InFlight = {}

(* X-Tip-Timeout is the "time to response headers" (README.md:60): the     *)
(* timer never cuts the body of a response whose headers came in time.     *)
TimerSparesBody ==
  \A r \in Request : status[r] = "cut" => timer[r] # "fired"

(* The grace bounds the end: once told to, the program exits, whatever its *)
(* requests and its upstreams do.                                          *)
ShutdownEnds == main = "draining" ~> main = "exited"

(* A request with a timeout is not held for ever by an upstream that sends *)
(* no headers.                                                             *)
TimedRequestsReturn ==
  \A r \in Request :
    pc[r] = "sending" /\ timer[r] = "armed"
      ~> pc[r] # "sending" \/ main = "exited"
=============================================================================
