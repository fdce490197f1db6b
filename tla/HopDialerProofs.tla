---------------------------- MODULE HopDialerProofs ----------------------------
(* Proofs about HopDialer, for any number of attempts, with and without a hop:   *)
(* the deadline of a tunnel, the finality of a refusal and how it is relayed,    *)
(* which failures are timeouts, and the phase that is blamed.                    *)
EXTENDS HopDialer, TLAPS

Early == {"new", "begun", "dialing", "handshake", "connect"}

--------------------------------------------------------------------------------
(* The AfterFunc and the deadline follow the attempt; the function starts only   *)
(* on a context that ended, and only it moves the deadline.                      *)
FuncInv ==
    /\ at \in [Attempt -> Early \cup {"asked", "refusing", "stopping"} \cup Ended]
    /\ after \in [Attempt -> {"off", "armed", "started", "ran", "stopped"}]
    /\ deadline \in [Attempt -> {"none", "past"}]
    /\ \A a \in Attempt :
         /\ at[a] \in Early => after[a] = "off"
         /\ at[a] \in {"asked", "refusing", "stopping"} => after[a] \in {"armed", "started", "ran"}
         /\ at[a] \in Ended => after[a] # "armed"
         /\ at[a] \in {"up", "dropped"} => after[a] = "stopped"
         /\ deadline[a] = "past" => after[a] = "ran"
         /\ after[a] \in {"started", "ran"} => ctx = "done"

LEMMA FuncInvStep == ASSUME FuncInv, [Next]_vars PROVE FuncInv'
<1> USE DEF FuncInv, Early, Ended, Go, Fail, Stopped
<1>1. ASSUME NEW a \in Attempt, Begin(a) \/ StartDial(a) \/ Dialed(a) \/ Shaken(a) PROVE FuncInv'
  BY <1>1 DEF Begin, StartDial, Dialed, Shaken, requestVars
<1>2. ASSUME NEW a \in Attempt, DialFails(a) \/ HandshakeFails(a) \/ ContextCuts(a) \/ Drops(a) PROVE FuncInv'
  BY <1>2 DEF DialFails, HandshakeFails, ContextCuts, Drops, requestVars
<1>3. ASSUME NEW a \in Attempt, Connect(a) \/ FuncStarts(a) \/ FuncRuns(a) PROVE FuncInv'
  BY <1>3 DEF Connect, FuncStarts, FuncRuns, requestVars
<1>4. ASSUME NEW a \in Attempt, Breaks(a) \/ DeadlineHits(a) \/ BodyRead(a) PROVE FuncInv'
  <2>1. /\ at[a] \in {"asked", "refusing"} /\ at' = [at EXCEPT ![a] = "failed"]
        /\ after' = IF after[a] = "armed" THEN [after EXCEPT ![a] = "stopped"] ELSE after
        /\ deadline' = deadline /\ ctx' = ctx
    BY <1>4 DEF Breaks, DeadlineHits, BodyRead, requestVars
  <2>2. after'[a] \in {"stopped", "started", "ran"} /\ (deadline[a] = "past" => after'[a] = "ran")
    BY <2>1
  <2>3. after'[a] \in {"started", "ran"} => after[a] = after'[a]
    BY <2>1
  <2>4. \A b \in Attempt : b # a => after'[b] = after[b] /\ at'[b] = at[b]
    BY <2>1
  <2>5. at'[a] = "failed" /\ after' \in [Attempt -> {"off", "armed", "started", "ran", "stopped"}]
    BY <2>1
  <2>6. at' \in [Attempt -> Early \cup {"asked", "refusing", "stopping"} \cup Ended]
    BY <2>1
  <2>7. QED
    BY <2>1, <2>2, <2>3, <2>4, <2>5, <2>6
<1>5. ASSUME NEW a \in Attempt, Accepted(a) \/ (\E v \in Verdicts : Refused(a, v)) PROVE FuncInv'
  BY <1>5 DEF Accepted, Refused, requestVars
<1>6. ASSUME NEW a \in Attempt, Stop(a) PROVE FuncInv'
  BY <1>6 DEF Stop, requestVars
<1>7. CASE Expire \/ Obtains \/ Headers \/ AttemptsFail \/ TimesOut \/ OriginFails \/ UNCHANGED vars
  <2>1. UNCHANGED <<at, after, deadline>> /\ (ctx' = ctx \/ ctx' = "done")
    BY <1>7 DEF Expire, Obtains, Headers, AttemptsFail, TimesOut, OriginFails, Blame, vars, attemptVars, requestVars
  <2>2. QED
    BY <2>1
<1>8. QED
  BY <1>1, <1>2, <1>3, <1>4, <1>5, <1>6, <1>7 DEF Next, AttemptStep

LEMMA FuncInvariant == Spec => []FuncInv
<1>1. Init => FuncInv
  BY DEF Init, FuncInv, Early
<1>2. FuncInv /\ [Next]_vars => FuncInv'
  BY FuncInvStep
<1>3. QED
  BY <1>1, <1>2, PTL DEF Spec

(* The AfterFunc of a context that ends late never reaches a tunnel that was     *)
(* handed out: stop() was true, so the function never starts, and connect has    *)
(* cleared the deadline.                                                         *)
THEOREM TunnelOutlives == Spec => []TunnelOutlivesContext
<1>1. FuncInv => TunnelOutlivesContext
  BY DEF FuncInv, TunnelOutlivesContext
<1>2. QED
  BY <1>1, FuncInvariant, PTL

--------------------------------------------------------------------------------
(* What the memo and the errors say of a refusal, the hop has said.              *)
AnswerInv ==
    /\ answers \in [Attempt -> Verdicts \cup {None, "tunnel"}]
    /\ failure = [a \in Attempt |-> failure[a]]
    /\ \A a \in Attempt : at[a] \in Early \cup {"asked"} => answers[a] = None
    /\ \A a \in Attempt : at[a] = "refusing" => answers[a] \in Verdicts
    /\ \A a \in Attempt : answers[a] \in Verdicts => verdict # None \/ at[a] = "refusing"
    /\ verdict \in Verdicts \cup {None}
    /\ verdict # None => \E b \in Attempt : answers[b] = verdict
    /\ \A a \in Attempt : at[a] = "failed" =>
         \E p \in Phases, v \in Verdicts \cup {None}, c \in Causes \cup {None} :
             /\ failure[a] = HopError(p, v, c)
             /\ v # None => c = None /\ \E b \in Attempt : answers[b] = v
             /\ c = "canceled" => ctx = "done"

LEMMA FailureKept ==
  ASSUME NEW a \in Attempt, FuncInv, AnswerInv,
         NEW p \in Phases, NEW v \in Verdicts \cup {None}, NEW c \in Causes \cup {None},
         at' = [at EXCEPT ![a] = "failed"], failure' = [failure EXCEPT ![a] = HopError(p, v, c)],
         v # None => c = None /\ \E b \in Attempt : answers'[b] = v,
         c = "canceled" => ctx = "done", ctx' = ctx,
         \A b \in Attempt : answers[b] # None => answers'[b] = answers[b],
         answers' \in [Attempt -> Verdicts \cup {None, "tunnel"}],
         \A b \in Attempt : b # a => answers'[b] = answers[b],
         \A b \in Attempt : answers'[b] \in Verdicts => verdict' # None \/ at'[b] = "refusing",
         verdict' \in Verdicts \cup {None},
         verdict' # None => \E b \in Attempt : answers'[b] = verdict'
  PROVE  AnswerInv'
<1> USE DEF AnswerInv, FuncInv
<1>1. ASSUME NEW b \in Attempt, b # a, at'[b] = "failed"
      PROVE \E q \in Phases, w \in Verdicts \cup {None}, d \in Causes \cup {None} :
              /\ failure'[b] = HopError(q, w, d)
              /\ w # None => d = None /\ \E e \in Attempt : answers'[e] = w
              /\ d = "canceled" => ctx' = "done"
  <2>1. at[b] = "failed" /\ failure'[b] = failure[b]
    BY <1>1
  <2>2. PICK q \in Phases, w \in Verdicts \cup {None}, d \in Causes \cup {None} :
          /\ failure[b] = HopError(q, w, d)
          /\ w # None => d = None /\ \E e \in Attempt : answers[e] = w
          /\ d = "canceled" => ctx = "done"
    BY <2>1
  <2>3. w # None => \E e \in Attempt : answers'[e] = w
    BY <2>2
  <2>4. failure'[b] = HopError(q, w, d) /\ (w # None => d = None) /\ (d = "canceled" => ctx' = "done")
    BY <2>1, <2>2
  <2> HIDE DEF AnswerInv, FuncInv
  <2>5. QED
    BY <2>2, <2>3, <2>4
<1>2. \E q \in Phases, w \in Verdicts \cup {None}, d \in Causes \cup {None} :
         /\ failure'[a] = HopError(q, w, d)
         /\ w # None => d = None /\ \E e \in Attempt : answers'[e] = w
         /\ d = "canceled" => ctx' = "done"
  OBVIOUS
<1>3. \A b \in Attempt : at'[b] \in Early \cup {"asked"} => answers'[b] = None
  BY DEF Early
<1>4. failure' = [b \in Attempt |-> failure'[b]]
  OBVIOUS
<1>5. \A b \in Attempt : at'[b] = "refusing" => answers'[b] \in Verdicts
  OBVIOUS
<1>6. \A b \in Attempt : at'[b] = "failed" =>
         \E q \in Phases, w \in Verdicts \cup {None}, d \in Causes \cup {None} :
             /\ failure'[b] = HopError(q, w, d)
             /\ w # None => d = None /\ \E e \in Attempt : answers'[e] = w
             /\ d = "canceled" => ctx' = "done"
  BY <1>1, <1>2
<1>7. QED
  BY <1>3, <1>4, <1>5, <1>6

LEMMA AnswerInvStep == ASSUME FuncInv, AnswerInv, [Next]_vars PROVE AnswerInv'
<1> USE VerdictsAreRefusals, NoneIsNothing
<1> DEFINE Kept == UNCHANGED <<answers, failure, verdict, ctx>>
           Quiet == /\ Kept
                    /\ \A b \in Attempt : at'[b] = "failed" => at[b] = "failed"
                    /\ \A b \in Attempt : at'[b] \in Early \cup {"asked"} => at[b] \in Early \cup {"asked"}
                    /\ \A b \in Attempt : at'[b] = "refusing" <=> at[b] = "refusing"
<1>1. CASE Quiet
  BY <1>1 DEF AnswerInv
<1>2. ASSUME NEW a \in Attempt,
             StartDial(a) \/ Dialed(a) \/ Shaken(a) \/ Connect(a) \/ FuncStarts(a) \/ FuncRuns(a) \/ Drops(a)
      PROVE  Quiet
  BY <1>2 DEF StartDial, Dialed, Shaken, Connect, FuncStarts, FuncRuns, Drops, Go, Set, FuncInv, requestVars, memoVars, Early
<1>3. ASSUME NEW a \in Attempt, NEW p \in Phases, NEW from, NEW c \in Causes,
             Fail(a, from, HopError(p, None, c)), from # "refusing", UNCHANGED <<answers, verdict, ctx>>,
             c = "canceled" => ctx = "done"
      PROVE  AnswerInv'
  <2>1. at[a] = from /\ at' = [at EXCEPT ![a] = "failed"] /\ failure' = [failure EXCEPT ![a] = HopError(p, None, c)]
    BY <1>3 DEF Fail, Go
  <2>2. \A b \in Attempt : answers'[b] \in Verdicts => verdict' # None \/ at'[b] = "refusing"
    BY <1>3, <2>1 DEF AnswerInv, FuncInv
  <2>3. QED
    BY <1>3, <2>1, <2>2, FailureKept DEF AnswerInv
<1>4. ASSUME NEW a \in Attempt, Begin(a) PROVE AnswerInv'
  <2>1. CASE verdict # None
    <3>1. Fail(a, "new", HopError("proxy-connect", verdict, None)) /\ UNCHANGED <<answers, verdict, ctx>>
      BY <1>4, <2>1 DEF Begin, requestVars, memoVars
    <3>2. None # "canceled"
      BY DEF Causes
    <3>3. QED
      BY <2>1, <3>1, <3>2, FailureKept DEF Fail, Go, AnswerInv, Phases
  <2>2. CASE verdict = None
    BY <1>1, <1>4, <2>2 DEF Begin, requestVars, memoVars, Go, FuncInv, Early
  <2>3. QED
    BY <2>1, <2>2
<1>5. ASSUME NEW a \in Attempt, DialFails(a) PROVE AnswerInv'
  <2>1. PICK c \in DialCauses \cup NetTimeouts : Fail(a, "dialing", HopError("proxy-dial", None, c))
    BY <1>5 DEF DialFails
  <2>2. c \in Causes /\ c # "canceled"
    BY DEF DialCauses, NetTimeouts, Causes
  <2>3. QED
    BY <1>3, <1>5, <2>1, <2>2 DEF DialFails, Phases, requestVars, memoVars
<1>6. ASSUME NEW a \in Attempt, HandshakeFails(a) PROVE AnswerInv'
  <2>1. PICK c \in TlsCauses \cup NetTimeouts : Fail(a, "handshake", HopError("proxy-tls", None, c))
    BY <1>6 DEF HandshakeFails
  <2>2. c \in Causes /\ c # "canceled"
    BY DEF TlsCauses, NetTimeouts, Causes
  <2>3. QED
    BY <1>3, <1>6, <2>1, <2>2 DEF HandshakeFails, Phases, requestVars, memoVars
<1>7. ASSUME NEW a \in Attempt, ContextCuts(a) PROVE AnswerInv'
  BY <1>3, <1>7 DEF ContextCuts, Phases, Causes, requestVars, memoVars
<1>8. ASSUME NEW a \in Attempt, Breaks(a) PROVE AnswerInv'
  <2>1. PICK c \in ReadCauses \cup NetTimeouts : Fail(a, "asked", HopError("proxy-connect", None, Cause(c)))
    BY <1>8 DEF Breaks
  <2>2. Cause(c) \in Causes /\ (Cause(c) = "canceled" => ctx = "done")
    BY DEF Cause, ReadCauses, NetTimeouts, Causes
  <2>3. QED
    BY <1>3, <1>8, <2>1, <2>2 DEF Breaks, Set, Phases, requestVars
<1>9. ASSUME NEW a \in Attempt, DeadlineHits(a) PROVE AnswerInv'
  <2>1. ctx = "done" /\ Cause("net timeout") \in Causes
    BY <1>9 DEF DeadlineHits, FuncInv, Cause, Causes, NetTimeouts
  <2>2. QED
    BY <1>3, <1>9, <2>1 DEF DeadlineHits, Set, Phases, requestVars
<1>10. ASSUME NEW a \in Attempt, Accepted(a) PROVE AnswerInv'
  <2>1. /\ at[a] = "asked" /\ at' = [at EXCEPT ![a] = "stopping"] /\ answers' = [answers EXCEPT ![a] = "tunnel"]
        /\ UNCHANGED <<failure, verdict, ctx>>
    BY <1>10 DEF Accepted, Go, requestVars, memoVars
  <2>2. answers[a] = None
    BY <2>1 DEF AnswerInv
  <2>3. \A v \in Verdicts : (\E b \in Attempt : answers[b] = v) => \E b \in Attempt : answers'[b] = v
    BY <2>1, <2>2 DEF AnswerInv
  <2>4. /\ answers' \in [Attempt -> Verdicts \cup {None, "tunnel"}]
        /\ \A b \in Attempt : at'[b] \in Early \cup {"asked"} => answers'[b] = None
        /\ \A b \in Attempt : at'[b] = "refusing" => answers'[b] \in Verdicts
        /\ \A b \in Attempt : answers'[b] \in Verdicts => verdict' # None \/ at'[b] = "refusing"
    BY <2>1 DEF AnswerInv, FuncInv, Early
  <2>5. \A b \in Attempt : at'[b] = "failed" => at[b] = "failed"
    BY <2>1 DEF FuncInv
  <2>6. QED
    BY <2>1, <2>3, <2>4, <2>5 DEF AnswerInv
<1>11. ASSUME NEW a \in Attempt, NEW v \in Verdicts, Refused(a, v) PROVE AnswerInv'
  <2>1. /\ at[a] = "asked" /\ at' = [at EXCEPT ![a] = "refusing"] /\ answers' = [answers EXCEPT ![a] = v]
        /\ UNCHANGED <<failure, verdict, ctx>>
    BY <1>11 DEF Refused, Go, requestVars, memoVars
  <2>2. answers[a] = None
    BY <2>1 DEF AnswerInv
  <2>3. \A w \in Verdicts : (\E b \in Attempt : answers[b] = w) => \E b \in Attempt : answers'[b] = w
    BY <2>1, <2>2 DEF AnswerInv
  <2>4. /\ answers' \in [Attempt -> Verdicts \cup {None, "tunnel"}]
        /\ \A b \in Attempt : at'[b] \in Early \cup {"asked"} => answers'[b] = None
        /\ \A b \in Attempt : at'[b] = "refusing" => answers'[b] \in Verdicts
        /\ \A b \in Attempt : answers'[b] \in Verdicts => verdict' # None \/ at'[b] = "refusing"
    BY <2>1 DEF AnswerInv, FuncInv, Early
  <2>5. \A b \in Attempt : at'[b] = "failed" => at[b] = "failed"
    BY <2>1 DEF FuncInv
  <2>6. QED
    BY <2>1, <2>3, <2>4, <2>5 DEF AnswerInv
<1>11a. ASSUME NEW a \in Attempt, BodyRead(a) PROVE AnswerInv'
  <2>1. /\ at[a] = "refusing" /\ at' = [at EXCEPT ![a] = "failed"] /\ answers' = answers
        /\ failure' = [failure EXCEPT ![a] = HopError("proxy-connect", answers[a], None)]
        /\ verdict' = answers[a] /\ ctx' = ctx
    <3>1. answers[a] # None
      BY <1>11a DEF BodyRead, Fail, Go, AnswerInv
    <3>2. QED
      BY <1>11a, <3>1 DEF BodyRead, Fail, Go, Set, requestVars
  <2>2. answers[a] \in Verdicts /\ answers[a] # None /\ None # "canceled"
    BY <2>1 DEF AnswerInv, Causes
  <2>3. QED
    BY <2>1, <2>2, FailureKept DEF Phases, AnswerInv
<1>12. ASSUME NEW a \in Attempt, Stop(a) PROVE AnswerInv'
  <2>1. CASE after[a] = "armed"
    BY <1>1, <1>12, <2>1 DEF Stop, Go, Set, FuncInv, requestVars, Early
  <2>2. CASE after[a] # "armed"
    <3>1. ctx = "done"
      BY <1>12, <2>2 DEF Stop, Fail, Go, FuncInv
    <3>2. QED
      BY <1>3, <1>12, <2>2, <3>1 DEF Stop, Set, Phases, Causes, requestVars
  <2>3. QED
    BY <2>1, <2>2
<1>13. CASE Expire \/ Obtains \/ Headers \/ AttemptsFail \/ TimesOut \/ OriginFails \/ UNCHANGED vars
  <2>1. UNCHANGED <<at, answers, failure, verdict>> /\ (ctx = "done" => ctx' = "done")
    BY <1>13 DEF Expire, Obtains, Headers, AttemptsFail, TimesOut, OriginFails, Blame, vars, attemptVars, requestVars, memoVars
  <2>2. QED
    BY <2>1 DEF AnswerInv
<1>14. QED
  BY <1>1, <1>2, <1>4, <1>5, <1>6, <1>7, <1>8, <1>9, <1>10, <1>11, <1>11a, <1>12, <1>13 DEF Next, AttemptStep

LEMMA AnswerInvariant == Spec => []AnswerInv
<1>1. Init => AnswerInv
  BY VerdictsAreRefusals DEF Init, AnswerInv
<1>2. FuncInv /\ AnswerInv /\ [Next]_vars => AnswerInv'
  BY AnswerInvStep
<1>3. QED
  BY <1>1, <1>2, FuncInvariant, PTL DEF Spec

(* What is answered to a failure of the hop: the verdict if there is one, and    *)
(* the phase that the error carries.                                             *)
LEMMA HopBlamed ==
  ASSUME NEW p \in Phases, NEW v \in Verdicts \cup {None}, NEW c \in Causes \cup {None},
         NEW via, NEW memo, NEW reached
  PROVE  LET e == HopError(p, v, c)
             r == UpstreamFailure(Diagnose(e, via, memo, reached), e)
         IN  /\ r.received = v /\ r.phase = p /\ e.cause = c
             /\ r.status = IF v = None /\ IsTimeout(c) THEN 504 ELSE 502
             /\ v # None => r.kind = "proxy_rejected"
<1> DEFINE e == HopError(p, v, c)
           d == Diagnose(e, via, memo, reached)
<1>1. e.hop # None /\ e.hop.verdict = v /\ e.hop.cause = c /\ e.hop.phase = p /\ e.cause = c
  BY NoneIsNothing DEF HopError
<1> HIDE DEF e
<1>2. Classify(e) = IF v # None THEN "proxy_rejected" ELSE IF IsTimeout(c) THEN "timeout" ELSE "proxy"
  BY <1>1, Zenon DEF Classify, ClassifyHop
<1>3. d.kind = Classify(e) /\ d.verdict = v /\ d.phase = p
  BY <1>1, <1>2 DEF Diagnose
<1> HIDE DEF d
<1>4. QED
  BY <1>1, <1>2, <1>3 DEF UpstreamFailure, e, d

(* What is answered to an error of the transport's own.                          *)
LEMMA OwnBlamed ==
  ASSUME NEW c \in Causes, NEW words, NEW via, NEW memo, NEW reached
  PROVE  LET e == OwnError(c, words)
             r == UpstreamFailure(Diagnose(e, via, memo, reached), e)
         IN  /\ r.received = None /\ e.cause = c
             /\ r.phase = IF IsTimeout(c) THEN memo ELSE None
             /\ r.status = IF IsTimeout(c) THEN 504 ELSE 502
<1> DEFINE e == OwnError(c, words)
           d == Diagnose(e, via, memo, reached)
<1>1. e.hop = None /\ e.cause = c
  BY DEF OwnError
<1> HIDE DEF e
<1>2. Classify(e) = "timeout" <=> IsTimeout(c)
  <2>1. CASE IsTimeout(c)
    BY <1>1, <2>1, Zenon DEF Classify
  <2>2. CASE ~IsTimeout(c)
    <3>1. Classify(e) \in {"proxy", "tls", "dial", "read"}
      BY <1>1, <2>2 DEF Classify
    <3>2. QED
      BY <2>2, <3>1, Zenon
  <2>3. QED
    BY <2>1, <2>2
<1>3. /\ d.kind = "timeout" <=> Classify(e) = "timeout"
      /\ d.verdict = None
      /\ d.phase = IF d.kind = "timeout" THEN memo ELSE None
  BY <1>1 DEF Diagnose
<1> HIDE DEF d
<1>4. QED
  BY <1>1, <1>2, <1>3 DEF UpstreamFailure, e, d

(* What the hop answered stays, and only a failure is blamed.                    *)
LEMMA AnswersStay ==
  ASSUME AnswerInv, [Next]_vars
  PROVE  /\ \A b \in Attempt : answers[b] # None => answers'[b] = answers[b]
         /\ (blamed' = blamed /\ (request' = "failed" => request = "failed")) \/ AttemptsFail \/ TimesOut \/ OriginFails
<1> DEFINE Goal == /\ \A b \in Attempt : answers[b] # None => answers'[b] = answers[b]
                   /\ blamed' = blamed /\ request' = request
<1>1. ASSUME NEW a \in Attempt, AttemptStep(a) PROVE Goal
  <2>1. CASE UNCHANGED <<answers, blamed, request>>
    BY <2>1
  <2>2. ASSUME NEW v \in Verdicts \cup {"tunnel"}, at[a] = "asked", answers' = [answers EXCEPT ![a] = v],
               UNCHANGED <<blamed, request>>
        PROVE  Goal
    BY <2>2 DEF AnswerInv
  <2>3. QED
    BY <1>1, <2>1, <2>2 DEF AttemptStep, Begin, StartDial, Dialed, Shaken, DialFails, HandshakeFails, ContextCuts, Connect,
       FuncStarts, FuncRuns, Breaks, DeadlineHits, BodyRead, Accepted, Stop, Drops, Refused, Fail, Go, requestVars
<1>2. CASE Expire \/ Obtains \/ Headers \/ UNCHANGED vars
  BY <1>2 DEF Expire, Obtains, Headers, vars, attemptVars, requestVars
<1>3. CASE AttemptsFail \/ TimesOut \/ OriginFails
  BY <1>3 DEF AttemptsFail, TimesOut, OriginFails, Blame, attemptVars
<1>4. QED
  BY <1>1, <1>2, <1>3 DEF Next

LEMMA RelayedStep == ASSUME AnswerInv, RefusalIsRelayed, [Next]_vars PROVE RefusalIsRelayed'
<1>1. CASE blamed' = blamed
  BY <1>1, AnswersStay DEF RefusalIsRelayed
<1>2. ASSUME NEW c \in Causes, NEW words, Blame(OwnError(c, words)) PROVE RefusalIsRelayed'
  <2> DEFINE r == UpstreamFailure(Diagnose(OwnError(c, words), proxied, phase, connected), OwnError(c, words))
  <2>1. r.received = None
    BY OwnBlamed
  <2>2. blamed'.response = r
    BY <1>2 DEF Blame
  <2> HIDE DEF r
  <2>3. QED
    BY <2>1, <2>2 DEF RefusalIsRelayed
<1>3. CASE AttemptsFail
  <2>1. PICK a \in Attempt : at[a] = "failed" /\ Blame(failure[a])
    BY <1>3 DEF AttemptsFail
  <2>2. PICK p \in Phases, v \in Verdicts \cup {None}, c \in Causes \cup {None} :
          /\ failure[a] = HopError(p, v, c)
          /\ v # None => c = None /\ \E b \in Attempt : answers[b] = v
    BY <2>1 DEF AnswerInv
  <2> DEFINE r == UpstreamFailure(Diagnose(HopError(p, v, c), proxied, phase, connected), HopError(p, v, c))
  <2>3. /\ r.received = v
        /\ r.status = IF v = None /\ IsTimeout(c) THEN 504 ELSE 502
        /\ v # None => r.kind = "proxy_rejected"
    BY HopBlamed
  <2>4. blamed'.response = r
    BY <2>1, <2>2 DEF Blame
  <2>5. answers' = answers
    BY <2>1 DEF Blame, attemptVars
  <2> HIDE DEF r
  <2>6. v # None => (\E b \in Attempt : answers'[b] = v) /\ r.status = 502
    BY <2>2, <2>3, <2>5
  <2>7. QED
    BY <2>3, <2>4, <2>6 DEF RefusalIsRelayed
<1>4. CASE TimesOut
  <2>1. "canceled" \in Causes
    BY DEF Causes
  <2>2. QED
    BY <1>2, <1>4, <2>1 DEF TimesOut
<1>5. CASE OriginFails
  <2>1. PICK c \in DialCauses \cup TlsCauses \cup ReadCauses \cup NetTimeouts : Blame(OwnError(c, HostWords))
    BY <1>5 DEF OriginFails
  <2>2. c \in Causes
    BY DEF Causes
  <2>3. QED
    BY <1>2, <2>1, <2>2
<1>6. QED
  BY <1>1, <1>3, <1>4, <1>5, AnswersStay

(* The status a client is shown as the hop's was answered by the hop to this     *)
(* request, through any sequence of attempts and what the memo kept of them.     *)
THEOREM RefusalRelayed == Spec => []RefusalIsRelayed
<1>1. Init => RefusalIsRelayed
  BY DEF Init, RefusalIsRelayed
<1>2. AnswerInv /\ RefusalIsRelayed /\ [Next]_vars => RefusalIsRelayed'
  BY RelayedStep
<1>3. QED
  BY <1>1, <1>2, AnswerInvariant, PTL DEF Spec

--------------------------------------------------------------------------------
(* A transport whose dials do not overlap has at most one attempt that is not    *)
(* over; it goes on only while no hop has refused, and from its dial on the memo  *)
(* holds the phase it is in, which is none once it is up.                        *)
Idle == {"new", "dropped", "failed"}

TurnInv ==
    "overlap" \notin may =>
        /\ \A a, b \in Attempt : a # b => at[a] \in Idle \/ at[b] \in Idle
        /\ \A a \in Attempt : at[a] \notin Idle => verdict = None
        /\ \A a \in Attempt : at[a] \notin Idle \cup {"begun"} => phase = InPhase[at[a]]

LEMMA TurnKept ==
  ASSUME NEW a \in Attempt, NEW x, FuncInv, TurnInv, may' = may, at' = [at EXCEPT ![a] = x],
         "overlap" \notin may => \A b \in Attempt : b # a => at[b] \in Idle,
         "overlap" \notin may /\ x \notin Idle => verdict' = None,
         "overlap" \notin may /\ x \notin Idle \cup {"begun"} => phase' = InPhase[x]
  PROVE  TurnInv'
BY DEF FuncInv, TurnInv, Idle

LEMMA TurnInvStep == ASSUME FuncInv, TurnInv, [Next]_vars PROVE TurnInv'
<1>1. ASSUME NEW a \in Attempt, NEW x, at[a] \notin Idle, at' = [at EXCEPT ![a] = x], may' = may,
             x \in Idle \/ verdict' = verdict,
             x \in Idle \/ phase' = InPhase[x] \/ (at[a] # "begun" /\ phase' = phase /\ InPhase[x] = InPhase[at[a]])
      PROVE  TurnInv'
  BY <1>1, TurnKept DEF TurnInv
<1>2. ASSUME NEW a \in Attempt, Begin(a) PROVE TurnInv'
  <2>1. "overlap" \notin may => \A b \in Attempt : at[b] \in Idle
    BY <1>2 DEF Begin, Idle
  <2>2. CASE verdict = None
    BY <1>2, <2>1, <2>2, TurnKept DEF Begin, Go, requestVars, memoVars
  <2>3. CASE verdict # None
    BY <1>2, <2>1, <2>3, TurnKept DEF Begin, Fail, Go, requestVars, memoVars, Idle
  <2>4. QED
    BY <2>2, <2>3
<1>3. ASSUME NEW a \in Attempt, StartDial(a) \/ Dialed(a) \/ Shaken(a) \/ Connect(a) \/ Accepted(a)
                                 \/ (\E v \in Verdicts : Refused(a, v))
      PROVE  TurnInv'
  BY <1>1, <1>3 DEF StartDial, Dialed, Shaken, Connect, Accepted, Refused, Go, Set, InPhase, requestVars, memoVars, Idle
<1>4. ASSUME NEW a \in Attempt, DialFails(a) \/ HandshakeFails(a) \/ ContextCuts(a) \/ Breaks(a) \/ DeadlineHits(a)
                                 \/ BodyRead(a) \/ Drops(a)
      PROVE  TurnInv'
  <2>1. \E x \in Idle : at[a] \notin Idle /\ at' = [at EXCEPT ![a] = x] /\ may' = may /\ x # "up"
    BY <1>4 DEF DialFails, HandshakeFails, ContextCuts, Breaks, DeadlineHits, BodyRead, Drops, Fail, Go, Idle, requestVars
  <2>2. QED
    BY <1>1, <2>1
<1>5. ASSUME NEW a \in Attempt, Stop(a) PROVE TurnInv'
  <2>1. CASE after[a] = "armed"
    BY <1>1, <1>5, <2>1 DEF Stop, Go, Set, Idle, InPhase, requestVars
  <2>2. CASE after[a] # "armed"
    BY <1>1, <1>5, <2>2 DEF Stop, Fail, Go, Idle, requestVars
  <2>3. QED
    BY <2>1, <2>2
<1>6. ASSUME NEW a \in Attempt, FuncStarts(a) \/ FuncRuns(a) PROVE TurnInv'
  BY <1>6 DEF FuncStarts, FuncRuns, requestVars, memoVars, TurnInv
<1>7. CASE Expire \/ Obtains \/ Headers \/ AttemptsFail \/ TimesOut \/ OriginFails \/ UNCHANGED vars
  <2>1. UNCHANGED <<at, may, verdict, phase>>
    BY <1>7 DEF Expire, Obtains, Headers, AttemptsFail, TimesOut, OriginFails, Blame, vars, attemptVars, requestVars, memoVars
  <2>2. QED
    BY <2>1 DEF TurnInv
<1>8. QED
  BY <1>2, <1>3, <1>4, <1>5, <1>6, <1>7 DEF Next, AttemptStep

LEMMA TurnInvariant == Spec => []TurnInv
<1>1. Init => TurnInv
  BY DEF Init, TurnInv, Idle
<1>2. FuncInv /\ TurnInv /\ [Next]_vars => TurnInv'
  BY TurnInvStep
<1>3. QED
  BY <1>1, <1>2, FuncInvariant, PTL DEF Spec

(* A hop that refused a request's CONNECT is not asked again by a later attempt  *)
(* of the same request, however many there are.                                  *)
THEOREM RefusalsAreFinal == Spec => RefusalIsFinal
<1>1. AnswerInv /\ TurnInv =>
         \A a \in Attempt : ("overlap" \notin may /\ at[a] = "connect" /\ at'[a] = "asked") =>
             \A b \in Attempt : answers[b] \notin Verdicts
  BY DEF AnswerInv, TurnInv, Idle
<1>2. QED
  BY <1>1, AnswerInvariant, TurnInvariant, PTL DEF RefusalIsFinal

--------------------------------------------------------------------------------
(* The phase in the memo is one an attempt is in, or ended in; and a request     *)
(* that has its own connection has no attempt under way and an empty memo.       *)
Where(a) == IF at[a] = "failed" THEN failure[a].hop.phase ELSE InPhase[at[a]]

PhaseInv ==
    /\ phase # None => \E a \in Attempt : phase = Where(a)
    /\ ~proxied => phase = None /\ \A a \in Attempt : at[a] = "new"
    /\ (may = {} /\ request = "sent") => phase = None /\ \A a \in Attempt : ~Running(a)

LEMMA PhasesSeenAre == \A p : p \in PhasesSeen <=> \E a \in Attempt : p = Where(a)
BY Zenon DEF PhasesSeen, Where

LEMMA HopErrorPhase == \A p, v, c : HopError(p, v, c).hop.phase = p
BY DEF HopError

(* One attempt moves: the memo is emptied, set to where it now is, or kept while *)
(* the attempt stays in its phase or leaves none.                                *)
LEMMA PhaseKept ==
  ASSUME NEW a \in Attempt, NEW here, PhaseInv,
         \A b \in Attempt : b # a => at'[b] = at[b] /\ failure'[b] = failure[b],
         Where(a)' = here,
         phase' \in {None, here} \/ (phase' = phase /\ Where(a) \in {None, here})
  PROVE  phase' # None => \E b \in Attempt : phase' = Where(b)'
<1>1. \A b \in Attempt : b # a => Where(b)' = Where(b)
  BY DEF Where
<1>2. CASE phase' \in {None, here}
  BY <1>2
<1>3. CASE phase' = phase /\ Where(a) \in {None, here}
  BY <1>1, <1>3 DEF PhaseInv
<1>4. QED
  BY <1>2, <1>3

LEMMA PhaseInvStep == ASSUME FuncInv, AnswerInv, TurnInv, PhaseInv, [Next]_vars PROVE PhaseInv'
<1> DEFINE Rest == /\ ~proxied' => phase' = None /\ \A b \in Attempt : at'[b] = "new"
                   /\ (may' = {} /\ request' = "sent") => phase' = None /\ \A b \in Attempt : ~Running(b)'
<1>1. ASSUME NEW a \in Attempt, at[a] # "new" \/ (proxied /\ request = "waiting"),
             Running(a) \/ request = "waiting", UNCHANGED <<may, proxied, request>>
      PROVE  Rest
  BY <1>1 DEF PhaseInv
<1>2. ASSUME NEW a \in Attempt, NEW x \in {"begun", "dialing", "handshake", "connect", "asked", "refusing", "stopping", "up", "dropped"},
             at' = [at EXCEPT ![a] = x], failure' = failure,
             phase' \in {None, InPhase[x]} \/ (phase' = phase /\ InPhase[at[a]] \in {None, InPhase[x]}),
             at[a] # "failed"
      PROVE  phase' # None => \E b \in Attempt : phase' = Where(b)'
  <2>1. Where(a)' = InPhase[x] /\ Where(a) = InPhase[at[a]]
    BY <1>2 DEF FuncInv, Where
  <2>2. \A b \in Attempt : b # a => at'[b] = at[b] /\ failure'[b] = failure[b]
    BY <1>2 DEF FuncInv
  <2>3. QED
    BY <1>2, <2>1, <2>2, PhaseKept
<1>3. ASSUME NEW a \in Attempt, NEW from, NEW p \in Phases, NEW v, NEW c, Fail(a, from, HopError(p, v, c)),
             phase' = p \/ (phase' = phase /\ InPhase[from] \in {None, p}), from # "failed"
      PROVE  phase' # None => \E b \in Attempt : phase' = Where(b)'
  <2>1. Where(a)' = p
    BY <1>3, HopErrorPhase DEF FuncInv, AnswerInv, Where, Fail, Go
  <2>2. \A b \in Attempt : b # a => at'[b] = at[b] /\ failure'[b] = failure[b]
    BY <1>3 DEF FuncInv, AnswerInv, Fail, Go
  <2>3. Where(a) = InPhase[from]
    BY <1>3 DEF Where, Fail, Go
  <2>4. QED
    BY <1>3, <2>1, <2>2, <2>3, PhaseKept
<1> DEFINE Seen == phase' # None => \E b \in Attempt : phase' = Where(b)'
<1> HIDE DEF Rest
<1>4. ASSUME NEW a \in Attempt, Begin(a) PROVE Seen /\ Rest
  <2>1. Rest
    BY <1>1, <1>4 DEF Begin, requestVars
  <2>2. CASE verdict = None
    BY <1>2, <1>4, <2>1, <2>2 DEF Begin, Go, InPhase, memoVars
  <2>3. CASE verdict # None
    BY <1>3, <1>4, <2>1, <2>3 DEF Begin, Fail, Go, InPhase, memoVars, Phases
  <2>4. QED
    BY <2>2, <2>3
<1>5. ASSUME NEW a \in Attempt, StartDial(a) \/ Dialed(a) \/ Shaken(a) \/ Connect(a) \/ Accepted(a) \/ Drops(a)
                                 \/ (\E v \in Verdicts : Refused(a, v))
      PROVE  Seen /\ Rest
  <2>1. Rest
    BY <1>1, <1>5 DEF StartDial, Dialed, Shaken, Connect, Accepted, Refused, Drops, Go, Running, Ended, requestVars
  <2>2. Seen
    BY <1>2, <1>5 DEF StartDial, Dialed, Shaken, Connect, Accepted, Refused, Drops, Go, Set, InPhase, memoVars
  <2>3. QED
    BY <2>1, <2>2
<1>6. ASSUME NEW a \in Attempt, DialFails(a) \/ HandshakeFails(a) \/ ContextCuts(a) PROVE Seen /\ Rest
  <2>1. Rest
    BY <1>1, <1>6 DEF DialFails, HandshakeFails, ContextCuts, Fail, Go, Running, Ended, requestVars
  <2>2. Seen
    BY <1>3, <1>6 DEF DialFails, HandshakeFails, ContextCuts, InPhase, memoVars, Phases
  <2>3. QED
    BY <2>1, <2>2
<1>7. ASSUME NEW a \in Attempt, Breaks(a) \/ DeadlineHits(a) \/ BodyRead(a) PROVE Seen /\ Rest
  <2>1. Rest
    BY <1>1, <1>7 DEF Breaks, DeadlineHits, BodyRead, Fail, Go, Running, Ended, requestVars
  <2>2. Seen
    BY <1>3, <1>7 DEF Breaks, DeadlineHits, BodyRead, Set, Phases
  <2>3. QED
    BY <2>1, <2>2
<1>8. ASSUME NEW a \in Attempt, Stop(a) PROVE Seen /\ Rest
  <2>1. Rest
    BY <1>1, <1>8 DEF Stop, Fail, Go, Running, Ended, requestVars
  <2>2. CASE after[a] = "armed"
    BY <1>8, <2>1, <2>2 DEF Stop, Set
  <2>3. CASE after[a] # "armed"
    BY <1>3, <1>8, <2>1, <2>3 DEF Stop, Set, Phases
  <2>4. QED
    BY <2>2, <2>3
<1>9. CASE (\E a \in Attempt : FuncStarts(a) \/ FuncRuns(a)) \/ Expire \/ Headers \/ AttemptsFail \/ TimesOut \/ OriginFails
           \/ UNCHANGED vars
  <2>1. UNCHANGED <<at, failure, may, proxied, phase>> /\ (request' = "sent" => request = "sent")
    BY <1>9 DEF FuncStarts, FuncRuns, Expire, Headers, AttemptsFail, TimesOut, OriginFails, Blame,
       vars, attemptVars, requestVars, memoVars
  <2>2. QED
    BY <2>1 DEF PhaseInv, Where, Running
<1>10. CASE Obtains
  <2>1. UNCHANGED <<at, failure, may, proxied, phase>>
    BY <1>10 DEF Obtains, attemptVars, memoVars
  <2>2. may = {} => phase = None /\ \A a \in Attempt : ~Running(a)
    <3>1. SUFFICES ASSUME may = {} PROVE phase = None /\ \A a \in Attempt : ~Running(a)
      OBVIOUS
    <3>2. CASE ~proxied
      BY <3>2 DEF PhaseInv, Running
    <3>3. ASSUME NEW u \in Attempt, at[u] = "up" PROVE phase = None /\ \A a \in Attempt : ~Running(a)
      BY <3>1, <3>3 DEF TurnInv, Idle, Running, Ended, InPhase
    <3>4. QED
      BY <1>10, <3>1, <3>2, <3>3 DEF Obtains
  <2>3. QED
    BY <2>1, <2>2 DEF PhaseInv, Where, Running
<1>11. QED
  BY <1>4, <1>5, <1>6, <1>7, <1>8, <1>9, <1>10 DEF Next, AttemptStep, PhaseInv, Rest

LEMMA PhaseInvariant == Spec => []PhaseInv
<1>1. Init => PhaseInv
  BY DEF Init, PhaseInv
<1>2. FuncInv /\ AnswerInv /\ TurnInv /\ PhaseInv /\ [Next]_vars => PhaseInv'
  BY PhaseInvStep
<1>3. QED
  BY <1>1, <1>2, FuncInvariant, AnswerInvariant, TurnInvariant, PTL DEF Spec

LEMMA OwnPhaseStep == ASSUME AnswerInv, TurnInv, PhaseInv, OwnPhaseIsTrue, [Next]_vars PROVE OwnPhaseIsTrue'
<1>1. may' = may
  BY DEF Next, AttemptStep, Begin, StartDial, Dialed, Shaken, DialFails, HandshakeFails, ContextCuts, Connect, FuncStarts,
     FuncRuns, Breaks, DeadlineHits, BodyRead, Accepted, Stop, Drops, Refused, Expire, Obtains, Headers, AttemptsFail, TimesOut,
     OriginFails, Blame, requestVars, vars
<1>2. CASE blamed' = blamed
  BY <1>1, <1>2 DEF OwnPhaseIsTrue, PhaseIsTrue
<1>3. ASSUME NEW p, NEW e, Blame(e), request \in {"waiting", "sent"},
             UpstreamFailure(Diagnose(e, proxied, phase, connected), e).phase = p,
             (may = {} /\ p # None) => request = "waiting" /\ p \in PhasesSeen
      PROVE  OwnPhaseIsTrue'
  <2>1. blamed'.response.phase = p /\ blamed'.reached = request /\ blamed'.seen = PhasesSeen
    BY <1>3 DEF Blame
  <2>2. QED
    BY <1>1, <1>3, <2>1, Zenon DEF OwnPhaseIsTrue, PhaseIsTrue
<1>4. CASE AttemptsFail
  <2>1. PICK a \in Attempt : at[a] = "failed" /\ Blame(failure[a])
    BY <1>4 DEF AttemptsFail
  <2>2. PICK p \in Phases, v \in Verdicts \cup {None}, c \in Causes \cup {None} : failure[a] = HopError(p, v, c)
    BY <2>1 DEF AnswerInv
  <2>3. UpstreamFailure(Diagnose(failure[a], proxied, phase, connected), failure[a]).phase = p
    BY <2>2, HopBlamed
  <2>4. p \in PhasesSeen
    BY <2>1, <2>2, HopErrorPhase, PhasesSeenAre DEF Where
  <2>5. QED
    BY <1>3, <1>4, <2>1, <2>3, <2>4 DEF AttemptsFail
<1>5. CASE TimesOut
  <2>1. UpstreamFailure(Diagnose(OwnError("canceled", {}), proxied, phase, connected), OwnError("canceled", {})).phase = phase
    <3>1. "canceled" \in Causes /\ IsTimeout("canceled")
      BY DEF Causes, IsTimeout
    <3>2. QED
      BY <3>1, OwnBlamed
  <2>2. (may = {} /\ phase # None) => request = "waiting" /\ phase \in PhasesSeen
    BY <1>5, PhasesSeenAre DEF TimesOut, PhaseInv
  <2>3. QED
    BY <1>3, <1>5, <2>1, <2>2 DEF TimesOut
<1>6. CASE OriginFails
  <2>1. PICK c \in DialCauses \cup TlsCauses \cup ReadCauses \cup NetTimeouts : Blame(OwnError(c, HostWords))
    BY <1>6 DEF OriginFails
  <2>2. c \in Causes
    BY DEF Causes
  <2>3. PICK p : /\ p \in {None, phase}
                 /\ UpstreamFailure(Diagnose(OwnError(c, HostWords), proxied, phase, connected), OwnError(c, HostWords)).phase = p
    BY <2>2, OwnBlamed
  <2>4. may = {} => phase = None
    <3>1. CASE request = "sent" \/ ~proxied
      BY <3>1 DEF PhaseInv
    <3>2. ASSUME may = {}, NEW u \in Attempt, at[u] = "up" PROVE phase = None
      BY <3>2 DEF TurnInv, Idle, InPhase
    <3>3. QED
      BY <1>6, <3>1, <3>2 DEF OriginFails
  <2>5. QED
    BY <1>3, <1>6, <2>1, <2>3, <2>4 DEF OriginFails
<1>7. QED
  BY <1>2, <1>4, <1>5, <1>6, AnswersStay

(* A request with its own connection and its attempts one after the other: the   *)
(* phase in its answer is one an attempt of it was in, and only while it waited  *)
(* for its connection.                                                           *)
THEOREM OwnPhases == Spec => []OwnPhaseIsTrue
<1>1. Init => OwnPhaseIsTrue
  BY DEF Init, OwnPhaseIsTrue, PhaseIsTrue
<1>2. AnswerInv /\ TurnInv /\ PhaseInv /\ OwnPhaseIsTrue /\ [Next]_vars => OwnPhaseIsTrue'
  BY OwnPhaseStep
<1>3. QED
  BY <1>1, <1>2, AnswerInvariant, TurnInvariant, PhaseInvariant, PTL DEF Spec

--------------------------------------------------------------------------------
(* An attempt that fails on its own, without a verdict, and not by the context,  *)
(* has stopped its AfterFunc or never had one.                                   *)
LEMMA CutStep == ASSUME FuncInv, AnswerInv, CutIsTimeout, [Next]_vars PROVE CutIsTimeout'
<1> DEFINE Cut(b) == (at[b] = "failed" /\ after[b] \in {"started", "ran"}) =>
                        failure[b].hop.verdict # None \/ failure[b].cause = "canceled"
<1>1. \A p, v, c : HopError(p, v, c).hop.verdict = v /\ HopError(p, v, c).cause = c
  BY DEF HopError
<1>2. ASSUME \A b \in Attempt : at'[b] = "failed" => at[b] = "failed" /\ failure'[b] = failure[b],
             \A b \in Attempt : at[b] = "failed" /\ after'[b] \in {"started", "ran"} => after[b] \in {"started", "ran"}
      PROVE  CutIsTimeout'
  BY <1>2 DEF CutIsTimeout
<1>3. ASSUME NEW a \in Attempt, NEW from, NEW p, NEW v, NEW c, Fail(a, from, HopError(p, v, c)),
             v # None \/ c = "canceled" \/ after'[a] \notin {"started", "ran"},
             \A b \in Attempt : b # a => after'[b] = after[b]
      PROVE  CutIsTimeout'
  <2>1. failure'[a] = HopError(p, v, c) /\ \A b \in Attempt : b # a => at'[b] = at[b] /\ failure'[b] = failure[b]
    BY <1>3 DEF Fail, Go, FuncInv, AnswerInv
  <2>2. \A b \in Attempt : Cut(b)'
    BY <1>1, <1>3, <2>1 DEF CutIsTimeout
  <2>3. QED
    BY <2>2 DEF CutIsTimeout
<1>4. ASSUME NEW a \in Attempt, Begin(a) PROVE CutIsTimeout'
  <2>1. CASE verdict = None
    BY <1>2, <1>4, <2>1 DEF Begin, Go, FuncInv
  <2>2. CASE verdict # None
    BY <1>3, <1>4, <2>2 DEF Begin
  <2>3. QED
    BY <2>1, <2>2
<1>5. ASSUME NEW a \in Attempt, DialFails(a) \/ HandshakeFails(a) \/ ContextCuts(a) PROVE CutIsTimeout'
  <2>1. at[a] \in {"dialing", "handshake"} /\ after' = after
    BY <1>5 DEF DialFails, HandshakeFails, ContextCuts, Fail, Go
  <2>2. after'[a] = "off"
    BY <2>1 DEF FuncInv, Early
  <2>3. \E from, p, c : Fail(a, from, HopError(p, None, c))
    BY <1>5, Zenon DEF DialFails, HandshakeFails, ContextCuts
  <2>4. QED
    BY <1>3, <2>1, <2>2, <2>3
<1>6. ASSUME NEW a \in Attempt, Breaks(a) \/ DeadlineHits(a) PROVE CutIsTimeout'
  <2>1. at[a] = "asked" /\ after' = Stopped(a) /\ \E c : Fail(a, "asked", HopError("proxy-connect", None, Cause(c)))
    BY <1>6 DEF Breaks, DeadlineHits, Fail, Go
  <2>2. \A b \in Attempt : b # a => after'[b] = after[b]
    BY <2>1 DEF Stopped, FuncInv
  <2>3. CASE ctx = "done"
    BY <1>3, <2>1, <2>2, <2>3 DEF Cause
  <2>4. CASE ctx # "done"
    <3>1. after'[a] \notin {"started", "ran"}
      BY <2>1, <2>4 DEF Stopped, FuncInv
    <3>2. QED
      BY <1>3, <2>1, <2>2, <3>1
  <2>5. QED
    BY <2>3, <2>4
<1>7. ASSUME NEW a \in Attempt, BodyRead(a) PROVE CutIsTimeout'
  <2>1. answers[a] # None /\ \A b \in Attempt : b # a => after'[b] = after[b]
    BY <1>7, VerdictsAreRefusals DEF BodyRead, Fail, Go, AnswerInv, FuncInv, Stopped
  <2>2. QED
    BY <1>3, <1>7, <2>1 DEF BodyRead
<1>8. ASSUME NEW a \in Attempt, Stop(a) PROVE CutIsTimeout'
  <2>1. CASE after[a] = "armed"
    BY <1>2, <1>8, <2>1 DEF Stop, Stopped, Go, FuncInv
  <2>2. CASE after[a] # "armed"
    BY <1>3, <1>8, <2>2 DEF Stop
  <2>3. QED
    BY <2>1, <2>2
<1>9. ASSUME NEW a \in Attempt, StartDial(a) \/ Dialed(a) \/ Shaken(a) \/ Connect(a) \/ FuncStarts(a) \/ FuncRuns(a)
                                 \/ Accepted(a) \/ Drops(a) \/ (\E v \in Verdicts : Refused(a, v))
      PROVE  CutIsTimeout'
  BY <1>2, <1>9 DEF StartDial, Dialed, Shaken, Connect, FuncStarts, FuncRuns, Accepted, Drops, Refused, Go, FuncInv,
     Ended, requestVars, memoVars
<1>10. CASE Expire \/ Obtains \/ Headers \/ AttemptsFail \/ TimesOut \/ OriginFails \/ UNCHANGED vars
  <2>1. UNCHANGED <<at, after, failure>>
    BY <1>10 DEF Expire, Obtains, Headers, AttemptsFail, TimesOut, OriginFails, Blame, vars, attemptVars
  <2>2. QED
    BY <2>1 DEF CutIsTimeout
<1>11. QED
  BY <1>4, <1>5, <1>6, <1>7, <1>8, <1>9, <1>10 DEF Next, AttemptStep

(* A request has its connection to the origin exactly once it is sent.           *)
SentInv == (request = "waiting" => ~connected) /\ (request = "sent" => connected)

LEMMA SentInvariant == Spec => []SentInv
<1>1. Init => SentInv
  BY DEF Init, SentInv
<1>2. SentInv /\ [Next]_vars => SentInv'
  <2> SUFFICES ASSUME SentInv, [Next]_vars PROVE SentInv'
    OBVIOUS
  <2>1. CASE UNCHANGED <<request, connected>>
    BY <2>1 DEF SentInv
  <2>2. CASE \E a \in Attempt : AttemptStep(a)
    BY <2>1, <2>2 DEF AttemptStep, Begin, StartDial, Dialed, Shaken, DialFails, HandshakeFails, ContextCuts, Connect,
       FuncStarts, FuncRuns, Breaks, DeadlineHits, BodyRead, Accepted, Stop, Drops, Refused, requestVars
  <2>3. CASE Obtains \/ Headers \/ AttemptsFail \/ TimesOut \/ OriginFails
    BY <2>3 DEF Obtains, Headers, AttemptsFail, TimesOut, OriginFails, Blame, SentInv
  <2>4. QED
    BY <2>1, <2>2, <2>3 DEF Next, Expire, vars, requestVars
<1>3. QED
  BY <1>1, <1>2, PTL DEF Spec

(* Only a timeout of one that had its connection waits for the response.         *)
LEMMA ResponseTimeout ==
  ASSUME NEW d, NEW e
  PROVE  ErrorType(d, e) = "http_response_timeout" <=> d.kind = "timeout" /\ d.phase = None /\ d.connected
<1>1. DialErrorType(e) # "http_response_timeout" /\ TlsErrorType(e) # "http_response_timeout"
  BY DEF DialErrorType, TlsErrorType
<1>2. CASE d.kind = "timeout"
  BY <1>2 DEF ErrorType
<1>3. CASE d.kind # "timeout"
  BY <1>1, <1>3 DEF ErrorType
<1>4. QED
  BY <1>2, <1>3

(* What an answer says of its error, with the diagnosis it was made of.          *)
LEMMA BlameDiagnosed ==
  ASSUME NEW e, Blame(e)
  PROVE  LET d == Diagnose(e, proxied, phase, connected)
         IN  /\ blamed'.response = UpstreamFailure(d, e) /\ blamed'.cause = e.cause /\ blamed'.reached = request
             /\ blamed'.expired <=> ctx = "done"
             /\ blamed'.under = PhasesUnderWay
             /\ blamed'.response.status = 504 <=> d.kind = "timeout"
             /\ blamed'.response.error = "http_response_timeout" <=> d.kind = "timeout" /\ d.phase = None /\ connected
             /\ blamed'.response.phase = d.phase
<1> DEFINE d == Diagnose(e, proxied, phase, connected)
<1>1. /\ blamed'.response = UpstreamFailure(d, e) /\ blamed'.cause = e.cause /\ blamed'.reached = request
      /\ blamed'.expired <=> ctx = "done"
      /\ blamed'.under = PhasesUnderWay
  BY Zenon DEF Blame
<1>2. d.connected <=> connected
  BY DEF Diagnose
<1> HIDE DEF d
<1>3. UpstreamFailure(d, e).status = 504 <=> d.kind = "timeout"
  BY DEF UpstreamFailure
<1>4. UpstreamFailure(d, e).error = ErrorType(d, e) /\ UpstreamFailure(d, e).phase = d.phase
  BY DEF UpstreamFailure
<1>5. QED
  BY <1>1, <1>2, <1>3, <1>4, ResponseTimeout DEF d

(* Dials that do not overlap leave one phase under way, the memo's.              *)
LEMMA UnderIsMemo == ASSUME TurnInv, "overlap" \notin may PROVE PhasesUnderWay \subseteq {phase}
BY DEF TurnInv, PhasesUnderWay, Running, Ended, Idle, InPhase

LEMMA PlacedStep ==
  ASSUME FuncInv, AnswerInv, TurnInv, PhaseInv, SentInv, blamed # None => Placed(blamed), [Next]_vars
  PROVE  (blamed # None => Placed(blamed))'
<1>1. may' = may
  BY DEF Next, AttemptStep, Begin, StartDial, Dialed, Shaken, DialFails, HandshakeFails, ContextCuts, Connect, FuncStarts,
     FuncRuns, Breaks, DeadlineHits, BodyRead, Accepted, Stop, Drops, Refused, Expire, Obtains, Headers, AttemptsFail,
     TimesOut, OriginFails, Blame, requestVars, vars
<1>2. CASE blamed' = blamed
  BY <1>1, <1>2 DEF Placed
<1>3. CASE AttemptsFail
  <2>1. PICK a \in Attempt : at[a] = "failed" /\ Blame(failure[a])
    BY <1>3 DEF AttemptsFail
  <2>2. PICK p \in Phases, v \in Verdicts \cup {None}, c \in Causes \cup {None} :
          /\ failure[a] = HopError(p, v, c)
          /\ v # None => c = None
          /\ c = "canceled" => ctx = "done"
    BY <2>1 DEF AnswerInv
  <2>3. blamed'.response.status = 504 <=> v = None /\ IsTimeout(c)
    <3>1. UpstreamFailure(Diagnose(HopError(p, v, c), proxied, phase, connected), HopError(p, v, c)).status
            = IF v = None /\ IsTimeout(c) THEN 504 ELSE 502
      BY HopBlamed
    <3>2. blamed'.response = UpstreamFailure(Diagnose(failure[a], proxied, phase, connected), failure[a])
      BY <2>1, Zenon DEF Blame
    <3>3. blamed'.response.status = IF v = None /\ IsTimeout(c) THEN 504 ELSE 502
      BY <2>2, <3>1, <3>2
    <3>4. QED
      BY <3>3
  <2>4. failure[a].cause = c
    BY <2>2 DEF HopError
  <2>5. /\ blamed'.cause = c /\ (blamed'.expired <=> ctx = "done") /\ blamed'.reached = "waiting"
        /\ blamed'.under = PhasesUnderWay
        /\ blamed'.response.error = "http_response_timeout" => connected
    BY <1>3, <2>1, <2>4, BlameDiagnosed DEF AttemptsFail
  <2>6. PhasesUnderWay = {}
    BY <1>3 DEF AttemptsFail, PhasesUnderWay
  <2>7. ~connected
    BY <1>3 DEF AttemptsFail, SentInv
  <2>8. (c = "canceled" => v = None /\ IsTimeout(c)) /\ (IsTimeout(c) => c \in {"canceled", "net timeout"})
    BY <2>2, NoneIsNothing DEF IsTimeout, NetTimeouts, Causes
  <2>9. QED
    BY <2>2, <2>3, <2>5, <2>6, <2>7, <2>8 DEF Placed
<1>4. ASSUME NEW c \in Causes, NEW words, Blame(OwnError(c, words)), request \in {"waiting", "sent"},
             c = "canceled" => ctx = "done"
      PROVE  Placed(blamed)'
  <2> DEFINE e == OwnError(c, words)
             r == UpstreamFailure(Diagnose(e, proxied, phase, connected), e)
  <2>1. (r.status = 504 <=> IsTimeout(c)) /\ (IsTimeout(c) => r.phase = phase) /\ e.cause = c
    BY OwnBlamed
  <2>2. /\ blamed'.response = r /\ blamed'.cause = e.cause /\ blamed'.reached = request
        /\ blamed'.expired <=> ctx = "done"
        /\ blamed'.under = PhasesUnderWay
    BY <1>4, BlameDiagnosed
  <2>2a. r.error = "http_response_timeout" <=> r.status = 504 /\ r.phase = None /\ connected
    <3> DEFINE d == Diagnose(e, proxied, phase, connected)
    <3>1. /\ blamed'.response.status = 504 <=> d.kind = "timeout"
          /\ blamed'.response.error = "http_response_timeout" <=> d.kind = "timeout" /\ d.phase = None /\ connected
          /\ blamed'.response.phase = d.phase
      BY <1>4, BlameDiagnosed
    <3> HIDE DEF d, r, e
    <3>2. QED
      BY <2>2, <3>1
  <2> HIDE DEF r, e
  <2>3. (c = "canceled" => IsTimeout(c)) /\ (IsTimeout(c) => c \in {"canceled", "net timeout"})
    BY DEF IsTimeout, NetTimeouts
  <2>4. connected <=> request = "sent"
    BY <1>4 DEF SentInv
  <2>5. (may = {} /\ request = "sent") => phase = None
    BY DEF PhaseInv
  <2>6. "overlap" \notin may => PhasesUnderWay \subseteq {phase}
    BY UnderIsMemo
  <2>7. /\ blamed'.cause = "canceled" => blamed'.response.status = 504
        /\ blamed'.response.status = 504 => blamed'.expired \/ blamed'.cause = "net timeout"
    BY <1>4, <2>1, <2>2, <2>3, Zenon
  <2>8. /\ blamed'.response.error = "http_response_timeout" => blamed'.reached = "sent"
        /\ (blamed'.response.status = 504 /\ may = {} /\ blamed'.reached = "sent")
             => blamed'.response.error = "http_response_timeout"
        /\ (blamed'.response.status = 504 /\ "overlap" \notin may) => blamed'.under \subseteq {blamed'.response.phase}
    BY <2>1, <2>2, <2>4, <2>5, <2>6, <2>2a
  <2>9. QED
    BY <1>1, <2>7, <2>8 DEF Placed
<1>5. CASE TimesOut
  <2>1. "canceled" \in Causes
    BY DEF Causes
  <2>2. QED
    BY <1>4, <1>5, <2>1 DEF TimesOut
<1>6. CASE OriginFails
  <2>1. PICK c \in DialCauses \cup TlsCauses \cup ReadCauses \cup NetTimeouts : Blame(OwnError(c, HostWords))
    BY <1>6 DEF OriginFails
  <2>2. c \in Causes /\ c # "canceled"
    BY DEF Causes, DialCauses, TlsCauses, ReadCauses, NetTimeouts
  <2>3. QED
    BY <1>4, <1>6, <2>1, <2>2 DEF OriginFails
<1>7. QED
  BY <1>2, <1>3, <1>5, <1>6, AnswersStay

(* However many attempts there are and whatever they meet: the end of the        *)
(* context is a 504, never the fault of the connection it cut; a 504 has a       *)
(* timeout behind it, of the context or of the network; and it is placed where   *)
(* the request was, waiting for its hop, its connection or its response.         *)
THEOREM TimeoutsArePlaced == Spec => []TimeoutIsPlaced
<1>1. Init => CutIsTimeout /\ (blamed # None => Placed(blamed))
  BY DEF Init, CutIsTimeout
<1>2. FuncInv /\ AnswerInv /\ CutIsTimeout /\ [Next]_vars => CutIsTimeout'
  BY CutStep
<1>3. FuncInv /\ AnswerInv /\ TurnInv /\ PhaseInv /\ SentInv /\ (blamed # None => Placed(blamed)) /\ [Next]_vars
        => (blamed # None => Placed(blamed))'
  BY PlacedStep
<1>4. QED
  BY <1>1, <1>2, <1>3, FuncInvariant, AnswerInvariant, TurnInvariant, PhaseInvariant, SentInvariant, PTL
     DEF Spec, TimeoutIsPlaced
================================================================================
