------------------------------- MODULE Diagnosis -------------------------------
(* How a failed round trip is named: impersonate.Classify, proxy.diagnose,       *)
(* errorType and upstreamFailure. An error is a record of what errors.As and     *)
(* errors.Is find in it: the connect.Error it wraps, if any, the cause at the    *)
(* bottom, and the marker words of its text. Pure operators; HopDialer produces  *)
(* the errors.                                                                   *)
EXTENDS Naturals, FiniteSets

CONSTANT None

Phases == {"proxy-dial", "proxy-tls", "proxy-connect"}

DialCauses == {"dns", "refused", "unroutable", "other dial"}
TlsCauses  == {"certificate", "alert", "protocol"}
ReadCauses == {"reset", "unexpected eof"}
\* A net.Error that says Timeout: of the system, the resolver or a timer of the transport's own, on a live context too.
NetTimeouts == {"net timeout"}
\* "canceled" stands for context.Canceled and DeadlineExceeded.
Causes == {"canceled"} \cup NetTimeouts \cup DialCauses \cup TlsCauses \cup ReadCauses

(* The words Classify looks for that the libraries put in the text. The texts of *)
(* a failed lookup and of a refused certificate carry the host's name too.       *)
Words(cause, hostWords) ==
    (CASE cause \in DialCauses -> {"dial"}
       [] cause \in TlsCauses  -> {"tls"}
       [] OTHER                -> {})
      \cup (IF cause \in {"dns", "certificate"} THEN hostWords ELSE {})

HopError(phase, verdict, cause) ==
    [hop |-> [phase |-> phase, verdict |-> verdict, cause |-> cause], cause |-> cause, says |-> {}]

OwnError(cause, hostWords) == [hop |-> None, cause |-> cause, says |-> Words(cause, hostWords)]

IsTimeout(cause) == cause \in {"canceled"} \cup NetTimeouts

ClassifyHop(hop) ==
    IF hop.verdict # None THEN "proxy_rejected"
    ELSE IF IsTimeout(hop.cause) THEN "timeout" ELSE "proxy"

FaultClassify(e) ==
    IF e.hop # None THEN ClassifyHop([e.hop EXCEPT !.verdict = None]) ELSE "read"

Classify(e) ==
    IF e.hop # None          THEN ClassifyHop(e.hop)
    ELSE IF IsTimeout(e.cause)    THEN "timeout"
    ELSE IF "proxy" \in e.says    THEN "proxy"
    ELSE IF "tls" \in e.says      THEN "tls"
    ELSE IF e.cause \in DialCauses \/ "dial" \in e.says THEN "dial"
    ELSE "read"

(* diagnose: a hop error carries its own phase; a timeout of the transport's own *)
(* gets the phase the memo saw, else whether the origin was reached.             *)
Diagnose(e, proxied, memoPhase, connected) ==
    LET named == Classify(e)
        kind  == IF proxied /\ named = "dial" THEN "proxy" ELSE named
    IN  [kind      |-> kind,
         connected |-> connected,
         verdict   |-> IF e.hop # None THEN e.hop.verdict ELSE None,
         phase     |-> IF e.hop # None THEN e.hop.phase
                       ELSE IF kind = "timeout" THEN memoPhase ELSE None,
         nextHop   |-> IF proxied THEN "hop" ELSE "origin"]

TlsErrorType(e) ==
    IF e.cause = "certificate" THEN "tls_certificate_error"
    ELSE IF e.cause = "alert"  THEN "tls_alert_received" ELSE "tls_protocol_error"

DialErrorType(e) ==
    CASE e.cause = "dns"        -> "dns_error"
      [] e.cause = "refused"    -> "connection_refused"
      [] e.cause = "unroutable" -> "destination_ip_unroutable"
      [] OTHER                  -> "destination_unavailable"

ErrorType(d, e) ==
    CASE d.kind = "timeout"        -> IF d.phase # None \/ ~d.connected
                                      THEN "connection_timeout" ELSE "http_response_timeout"
      [] d.kind = "proxy_rejected" -> "http_request_error"
      [] d.kind = "tls"            -> TlsErrorType(e)
      [] d.kind \in {"dial", "proxy"} -> IF d.phase = "proxy-tls" THEN TlsErrorType(e) ELSE DialErrorType(e)
      [] OTHER -> IF e.cause = "unexpected eof" THEN "http_response_incomplete" ELSE "connection_terminated"

UpstreamFailure(d, e) ==
    [status   |-> IF d.kind = "timeout" THEN 504 ELSE 502,
     error    |-> ErrorType(d, e),
     received |-> d.verdict,
     kind     |-> d.kind,
     phase    |-> d.phase]
================================================================================
