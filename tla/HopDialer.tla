------------------------------- MODULE HopDialer -------------------------------
(* One request through an upstream proxy (internal/connect, and the failure path *)
(* of internal/proxy/roundtrip.go): the transport's dial attempts, the CONNECT   *)
(* handshake each holds with the hop, the context.AfterFunc that cuts a stalled  *)
(* one, the memo the attempts share with the request, and the diagnosis made of  *)
(* a failure. The transport is surf's: what it may do with a request is assumed  *)
(* and marked as external.                                                       *)
EXTENDS Diagnosis

CONSTANTS Attempt,   \* the dials the transport may start for the request
          Tls,       \* TRUE for an https hop
          Routes,    \* whether requests have an upstream proxy: a set of booleans
          Verdicts,  \* the answers with which the hop may refuse a CONNECT
          HostWords, \* the marker words in the origin's name
          Liberties  \* what transports may do: sets of "reuse", to give the request a connection another
                     \* one returned, and "overlap", to start a dial while an earlier one is under way

ASSUME SwitchesAreBoolean == {Tls} \cup Routes \subseteq BOOLEAN
ASSUME LibertiesAreKnown == Liberties \subseteq SUBSET {"reuse", "overlap"}
ASSUME VerdictsAreRefusals == None \notin Verdicts /\ "tunnel" \notin Verdicts
ASSUME NoneIsNothing ==
    /\ None \notin Causes
    /\ \A p \in Phases, v \in Verdicts \cup {None}, c \in Causes \cup {None} : HopError(p, v, c).hop # None

VARIABLES may,      \* the liberties of the transport
          proxied,  \* whether the request's Spec names a proxy
          ctx,      \* the request's context: "live" or "done"
          phase, verdict, \* Memo
          at,       \* where each attempt is in DialContext
          after,    \* its AfterFunc: "off", "armed", "started", "ran" or "stopped"
          deadline, \* the deadline on its connection: "none" or "past"
          answers,  \* history: what the hop answered the CONNECT of each attempt
          failure,  \* the error an attempt returned
          request,  \* "waiting" for a connection, "sent", "answered" or "failed"
          connected,\* Capture.Connected
          blamed    \* the response made of a failure, with how far the request was

attemptVars == <<at, after, deadline, answers, failure>>
requestVars == <<may, proxied, ctx, request, connected, blamed>>
memoVars == <<phase, verdict>>
vars == <<attemptVars, requestVars, memoVars>>

Init ==
    /\ may \in Liberties /\ proxied \in Routes
    /\ ctx = "live" /\ phase = None /\ verdict = None
    /\ at = [a \in Attempt |-> "new"]
    /\ after = [a \in Attempt |-> "off"]
    /\ deadline = [a \in Attempt |-> "none"]
    /\ answers = [a \in Attempt |-> None]
    /\ failure = [a \in Attempt |-> None]
    /\ request = "waiting" /\ connected = FALSE /\ blamed = None

Ended == {"up", "dropped", "failed"}
Running(a) == at[a] \notin {"new"} \cup Ended

Go(a, from, to) == at[a] = from /\ at' = [at EXCEPT ![a] = to]

FaultSet(p, v) == phase' = p /\ UNCHANGED verdict

\* Memo.set, under the memo's mutex.
Set(p, v) ==
    /\ phase' = p
    /\ verdict' = IF v # None THEN v ELSE verdict

Fail(a, from, e) ==
    /\ Go(a, from, "failed")
    /\ failure' = [failure EXCEPT ![a] = e]

FaultCause(c) == c

\* cause: the context's error, if it has one, stands for whatever the connection said.
Cause(c) == IF ctx = "done" THEN "canceled" ELSE c

--------------------------------------------------------------------------------
(* DialContext starts and asks the memo: a hop that refused is not asked again.  *)
Begin(a) ==
    /\ proxied /\ request = "waiting" /\ ctx = "live"
    /\ "overlap" \in may \/ \A b \in Attempt : at[b] \in {"new", "dropped", "failed"}
    /\ IF verdict # None THEN Fail(a, "new", HopError("proxy-connect", verdict, None))
                         ELSE Go(a, "new", "begun") /\ UNCHANGED failure
    /\ UNCHANGED <<after, deadline, answers, requestVars, memoVars>>

StartDial(a) ==
    /\ Go(a, "begun", "dialing") /\ Set("proxy-dial", None)
    /\ UNCHANGED <<after, deadline, answers, failure, requestVars>>

Dialed(a) ==
    /\ IF Tls THEN Go(a, "dialing", "handshake") /\ Set("proxy-tls", None)
              ELSE Go(a, "dialing", "connect") /\ Set("proxy-connect", None)
    /\ UNCHANGED <<after, deadline, answers, failure, requestVars>>

FaultShaken(a) ==
    /\ Go(a, "handshake", "connect")
    /\ UNCHANGED <<after, deadline, answers, failure, requestVars, memoVars>>

Shaken(a) ==
    /\ Go(a, "handshake", "connect") /\ Set("proxy-connect", None)
    /\ UNCHANGED <<after, deadline, answers, failure, requestVars>>

\* The dial and the TLS handshake fail on their own, a timeout of the network among the reasons, or because the
\* context ended.
DialFails(a) ==
    /\ \E c \in DialCauses \cup NetTimeouts : Fail(a, "dialing", HopError("proxy-dial", None, c))
    /\ UNCHANGED <<after, deadline, answers, requestVars, memoVars>>

HandshakeFails(a) ==
    /\ \E c \in TlsCauses \cup NetTimeouts : Fail(a, "handshake", HopError("proxy-tls", None, c))
    /\ UNCHANGED <<after, deadline, answers, requestVars, memoVars>>

ContextCuts(a) ==
    /\ ctx = "done"
    /\ \/ Fail(a, "dialing", HopError("proxy-dial", None, "canceled"))
       \/ Fail(a, "handshake", HopError("proxy-tls", None, "canceled"))
    /\ UNCHANGED <<after, deadline, answers, requestVars, memoVars>>

FaultConnect(a) ==
    /\ Go(a, "connect", "asked")
    /\ UNCHANGED <<after, deadline, answers, failure, requestVars, memoVars>>

\* connect: the AfterFunc is armed, or starts at once, and the CONNECT is written.
Connect(a) ==
    /\ Go(a, "connect", "asked")
    /\ after' = [after EXCEPT ![a] = IF ctx = "done" THEN "started" ELSE "armed"]
    /\ UNCHANGED <<deadline, answers, failure, requestVars, memoVars>>

\* The runtime starts the function of a context that ended, and the function runs.
FuncStarts(a) ==
    /\ ctx = "done" /\ after[a] = "armed"
    /\ after' = [after EXCEPT ![a] = "started"]
    /\ UNCHANGED <<at, deadline, answers, failure, requestVars, memoVars>>

FuncRuns(a) ==
    /\ after[a] = "started"
    /\ after' = [after EXCEPT ![a] = "ran"]
    /\ deadline' = [deadline EXCEPT ![a] = "past"]
    /\ UNCHANGED <<at, answers, failure, requestVars, memoVars>>

\* stop() is true exactly when it keeps the function from starting.
Stopped(a) == IF after[a] = "armed" THEN [after EXCEPT ![a] = "stopped"] ELSE after

\* The connection breaks or times out by itself, or the past deadline fails the write or the read.
Breaks(a) ==
    /\ \E c \in ReadCauses \cup NetTimeouts : Fail(a, "asked", HopError("proxy-connect", None, Cause(c)))
    /\ after' = Stopped(a)
    /\ Set("proxy-connect", None)
    /\ UNCHANGED <<deadline, answers, requestVars>>

DeadlineHits(a) ==
    /\ deadline[a] = "past"
    /\ Fail(a, "asked", HopError("proxy-connect", None, Cause("net timeout")))
    /\ after' = Stopped(a)
    /\ Set("proxy-connect", None)
    /\ UNCHANGED <<deadline, answers, requestVars>>

\* The head of a refusal is there. Its body is read next, and what cuts that short leaves the verdict as it is.
Refused(a, v) ==
    /\ deadline[a] = "none"
    /\ Go(a, "asked", "refusing")
    /\ answers' = [answers EXCEPT ![a] = v]
    /\ UNCHANGED <<after, deadline, failure, requestVars, memoVars>>

BodyRead(a) ==
    /\ Fail(a, "refusing", HopError("proxy-connect", answers[a], None))
    /\ after' = Stopped(a)
    /\ Set("proxy-connect", answers[a])
    /\ UNCHANGED <<deadline, answers, requestVars>>

Accepted(a) ==
    /\ deadline[a] = "none"
    /\ Go(a, "asked", "stopping")
    /\ answers' = [answers EXCEPT ![a] = "tunnel"]
    /\ UNCHANGED <<after, deadline, failure, requestVars, memoVars>>

FaultStopKeepsPhase(a) ==
    /\ \/ /\ after[a] = "armed"
          /\ Go(a, "stopping", "up")
          /\ after' = Stopped(a)
          /\ UNCHANGED <<deadline, failure>>
       \/ /\ after[a] # "armed"
          /\ Fail(a, "stopping", HopError("proxy-connect", None, "canceled"))
          /\ UNCHANGED <<after, deadline>>
    /\ UNCHANGED <<answers, requestVars, memoVars>>

FaultStop(a) ==
    /\ Go(a, "stopping", "up")
    /\ after' = Stopped(a)
    /\ deadline' = [deadline EXCEPT ![a] = "none"]
    /\ Set(None, None)
    /\ UNCHANGED <<answers, failure, requestVars>>

\* if !stop() the tunnel is given up; otherwise its deadline is cleared and so is the phase.
Stop(a) ==
    /\ \/ /\ after[a] = "armed"
          /\ Go(a, "stopping", "up")
          /\ after' = Stopped(a)
          /\ deadline' = [deadline EXCEPT ![a] = "none"]
          /\ Set(None, None) /\ UNCHANGED failure
       \/ /\ after[a] # "armed"
          /\ Fail(a, "stopping", HopError("proxy-connect", None, "canceled"))
          /\ Set("proxy-connect", None) /\ UNCHANGED <<after, deadline>>
    /\ UNCHANGED <<answers, requestVars>>

--------------------------------------------------------------------------------
(* The request: external, but for the timer, Client.RoundTrip's trace and the    *)
(* failure path of RoundTrip.                                                    *)
Expire ==
    /\ ctx = "live" /\ request \in {"waiting", "sent"}
    /\ ctx' = "done"
    /\ UNCHANGED <<may, proxied, request, connected, blamed, memoVars, attemptVars>>

Obtains ==
    /\ request = "waiting" /\ ctx = "live"
    /\ ~proxied \/ "reuse" \in may \/ \E a \in Attempt : at[a] = "up"
    /\ request' = "sent" /\ connected' = TRUE
    /\ UNCHANGED <<may, proxied, ctx, blamed, memoVars, attemptVars>>

\* The handshake with the origin failed behind a tunnel, and the transport falls back.
Drops(a) ==
    /\ request = "waiting" /\ Go(a, "up", "dropped")
    /\ UNCHANGED <<after, deadline, answers, failure, requestVars, memoVars>>

Headers ==
    /\ request = "sent" /\ request' = "answered"
    /\ UNCHANGED <<may, proxied, ctx, connected, blamed, memoVars, attemptVars>>

InPhase == [new |-> None, begun |-> None, dialing |-> "proxy-dial", handshake |-> "proxy-tls",
            connect |-> "proxy-connect", asked |-> "proxy-connect",
            refusing |-> "proxy-connect", stopping |-> "proxy-connect", up |-> None, dropped |-> None]

\* History: the phases the attempts are in, or ended in, and those that are under way.
PhasesSeen == {IF at[a] = "failed" THEN failure[a].hop.phase ELSE InPhase[at[a]] : a \in Attempt}
PhasesUnderWay == {InPhase[at[a]] : a \in {b \in Attempt : Running(b)}} \ {None}

(* RoundTrip's error path: the context is cancelled and the failure diagnosed.   *)
Blame(e) ==
    LET d == Diagnose(e, proxied, phase, connected)
    IN  /\ request' = "failed" /\ ctx' = "done"
        /\ blamed' = [response |-> UpstreamFailure(d, e), cause |-> e.cause,
                      reached |-> request, expired |-> ctx = "done", seen |-> PhasesSeen, under |-> PhasesUnderWay]
        /\ UNCHANGED <<may, proxied, connected, memoVars, attemptVars>>

\* The transport gives up with the error of an attempt when no other is under way.
AttemptsFail ==
    /\ request = "waiting"
    /\ \A b \in Attempt : ~Running(b)
    /\ \A b \in Attempt : at[b] # "up"
    /\ \E a \in Attempt : at[a] = "failed" /\ Blame(failure[a])

\* The context ended and the transport says so itself.
TimesOut == request \in {"waiting", "sent"} /\ ctx = "done" /\ Blame(OwnError("canceled", {}))

\* Without a hop the dial is surf's; behind the tunnel the origin may fail. Surf's timers for the dial, the handshake
\* and the response headers are its own: they run out whether the context is live or not.
OriginFails ==
    \/ request = "waiting" /\ ~proxied /\ \E c \in DialCauses \cup NetTimeouts : Blame(OwnError(c, HostWords))
    \/ /\ request = "sent" \/ (request = "waiting" /\ \E a \in Attempt : at[a] = "up")
       /\ \E c \in TlsCauses \cup ReadCauses \cup NetTimeouts : Blame(OwnError(c, HostWords))

AttemptStep(a) ==
    \/ Begin(a) \/ StartDial(a) \/ Dialed(a) \/ Shaken(a)
    \/ DialFails(a) \/ HandshakeFails(a) \/ ContextCuts(a)
    \/ Connect(a) \/ FuncStarts(a) \/ FuncRuns(a)
    \/ Breaks(a) \/ DeadlineHits(a) \/ BodyRead(a) \/ Accepted(a) \/ Stop(a) \/ Drops(a)
    \/ \E v \in Verdicts : Refused(a, v)

Next ==
    \/ \E a \in Attempt : AttemptStep(a)
    \/ Expire \/ Obtains \/ Headers \/ AttemptsFail \/ TimesOut \/ OriginFails

(* A goroutine that can go on does, a dial and a TLS handshake end with their    *)
(* context, and the runtime runs the function of a context that ended. Nothing   *)
(* is asked of the hop: it may stall for ever, before its answer or inside it.   *)
Fairness ==
    \A a \in Attempt :
        /\ WF_vars(StartDial(a)) /\ WF_vars(Connect(a)) /\ WF_vars(Stop(a))
        /\ WF_vars(ContextCuts(a)) /\ WF_vars(DeadlineHits(a))
        /\ WF_vars(deadline[a] = "past" /\ BodyRead(a))
        /\ WF_vars(FuncStarts(a)) /\ WF_vars(FuncRuns(a))

Spec == Init /\ [][Next]_vars
FairSpec == Spec /\ Fairness

--------------------------------------------------------------------------------
(* The fields have their types.                                                  *)
TypeOK ==
    /\ may \in Liberties /\ proxied \in Routes /\ ctx \in {"live", "done"} /\ phase \in Phases \cup {None}
    /\ verdict \in Verdicts \cup {None}
    /\ \A a \in Attempt :
         /\ after[a] \in {"off", "armed", "started", "ran", "stopped"}
         /\ deadline[a] \in {"none", "past"}
         /\ (failure[a] # None) = (at[a] = "failed")
         /\ after[a] # "off" => at[a] \in {"asked", "refusing", "stopping"} \cup Ended
    /\ request \in {"waiting", "sent", "answered", "failed"}
    /\ (blamed # None) = (request = "failed")

(* A tunnel handed to the transport never has its deadline moved to the past:    *)
(* the transport keeps it for later requests, long after this one's context has  *)
(* ended and its AfterFunc may be late.                                          *)
TunnelOutlivesContext == \A a \in Attempt : at[a] \in {"up", "dropped"} => deadline[a] = "none" /\ after[a] = "stopped"

(* A hop that refused a request's CONNECT is not asked again by a fallback       *)
(* attempt of the same request, when its attempts come one after the other.      *)
RefusalIsFinal ==
    [][\A a \in Attempt : ("overlap" \notin may /\ at[a] = "connect" /\ at'[a] = "asked") =>
           \A b \in Attempt : answers[b] \notin Verdicts]_vars

(* A response that carries a hop's status is a 502 of kind proxy_rejected, and   *)
(* the hop did answer this request with that status, whichever attempt's error   *)
(* the transport returned and whatever the memo kept from the ones before.       *)
RefusalIsRelayed ==
    (blamed # None /\ blamed.response.received # None) =>
        /\ blamed.response.status = 502 /\ blamed.response.kind = "proxy_rejected"
        /\ \E a \in Attempt : answers[a] = blamed.response.received

(* An attempt that its AfterFunc caught fails with the context's error or with    *)
(* the hop's verdict, whatever the connection said when the deadline cut it.     *)
CutIsTimeout ==
    \A a \in Attempt : (at[a] = "failed" /\ after[a] \in {"started", "ran"}) =>
        failure[a].hop.verdict # None \/ failure[a].cause = "canceled"

Placed(b) ==
    LET r == b.response
    IN  /\ b.cause = "canceled" => r.status = 504
        /\ r.status = 504 => b.expired \/ b.cause = "net timeout"
        /\ r.error = "http_response_timeout" => b.reached = "sent"
        /\ (r.status = 504 /\ may = {} /\ b.reached = "sent") => r.error = "http_response_timeout"
        /\ (r.status = 504 /\ "overlap" \notin may) => b.under \subseteq {r.phase}

(* "502, or a 504 for a timeout", and a timeout "is placed by the hop phase the  *)
(* memo saw under way, else by whether a connection to the origin had been       *)
(* obtained": the end of the context is never answered 502 and 504 has a timeout *)
(* behind it; a request said to have waited for its response had been sent, and  *)
(* with its own connection one that was sent is never said to have been          *)
(* connecting; and what timed out inside a phase of its hop names that phase.    *)
TimeoutIsPlaced == CutIsTimeout /\ (blamed # None => Placed(blamed))

(* "A failure before the tunnel is up names its phase, anything after it is the  *)
(* origin's": the response names a phase of the hop only if the request was      *)
(* still waiting for its connection, and then one in which an attempt of it was, *)
(* or ended.                                                                     *)
PhaseIsTrue ==
    (blamed # None /\ blamed.response.phase # None) =>
        blamed.reached = "waiting" /\ blamed.response.phase \in blamed.seen

(* So it is for a request whose attempts come one after the other and which waits *)
(* for them: what the memo kept is never a phase that is over.                   *)
OwnPhaseIsTrue == may = {} => PhaseIsTrue

(* The kind says what failed: a name that does not resolve is a failed dial,     *)
(* whatever the name.                                                            *)
KindNamesCause ==
    (blamed # None /\ blamed.cause = "dns") => blamed.response.kind \in {"dial", "proxy"}

(* An attempt against a hop that stalls comes back once the request's context    *)
(* has ended.                                                                    *)
StalledAttemptEnds == \A a \in Attempt : (ctx = "done" /\ Running(a)) ~> at[a] \in Ended
================================================================================
