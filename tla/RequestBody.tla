------------------------------ MODULE RequestBody ------------------------------
(* The body of a request on its way to the origin (internal/proxy/body.go and    *)
(* its use in RoundTrip): one stream from the client, which the transport may    *)
(* ask for again, by GetBody, when a first attempt has failed. replay hands out  *)
(* the very same reader, so it may do so only while nothing was read of it.      *)
EXTENDS Naturals

CONSTANTS Attempts,   \* bound on the attempts of the transport at one request
          Overlapping \* whether it may ask for the body while an attempt still reads it

ASSUME AttemptsAssumption == Attempts \in Nat \ {0}
ASSUME OverlappingAssumption == Overlapping \in BOOLEAN

VARIABLES size,     \* the chunks of the client's body
          read,     \* how many were read; bytesIn counts the same
          consumed, \* replayable.consumed
          shut,     \* whether the transport has closed the body
          try       \* the attempts: the step each is at and the chunks it got

bodyVars == <<size, read, consumed, shut, try>>

BodyInit(n) ==
    /\ size = n /\ read = 0 /\ consumed = FALSE /\ shut = FALSE
    /\ try = [a \in 1..Attempts |-> [step |-> "unused", got |-> 0]]

Goes(a, from, to) == try[a].step = from /\ try' = [try EXCEPT ![a].step = to]

Send == Goes(1, "unused", "sending") /\ UNCHANGED <<size, read, consumed, shut>>

(* replayable.Read: the bytes are there, and counted, before consumed is set.    *)
ReadChunk(a) ==
    /\ try[a].step = "sending" /\ ~shut /\ read < size
    /\ read' = read + 1
    /\ try' = [try EXCEPT ![a] = [step |-> "marking", got |-> @.got + 1]]
    /\ UNCHANGED <<size, consumed, shut>>

Mark(a) == Goes(a, "marking", "sending") /\ consumed' = TRUE /\ UNCHANGED <<size, read, shut>>

\* The stream ends: the attempt tells its origin that this was all.
ReadEnd(a) ==
    /\ ~shut /\ read = size
    /\ Goes(a, "sending", "whole") /\ UNCHANGED <<size, read, consumed, shut>>

ReadShut(a) == shut /\ Goes(a, "sending", "failed") /\ UNCHANGED <<size, read, consumed, shut>>

\* The connection breaks under an attempt that is not inside Read.
Break(a) ==
    /\ try[a].step \in {"sending", "whole"}
    /\ Goes(a, try[a].step, "failed") /\ UNCHANGED <<size, read, consumed, shut>>

\* The transport closes the body of an attempt that failed, or does not.
Shut(a) == try[a].step = "failed" /\ ~shut /\ shut' = TRUE /\ UNCHANGED <<size, read, consumed, try>>

GivenUp(a) == try[a].step = "failed" \/ (Overlapping /\ try[a].step \in {"sending", "marking"})

FaultReplays == ~shut

Replays == ~consumed

(* GetBody, before attempt a: the same reader, or errBodyConsumed.               *)
Retry(a) ==
    /\ a > 1 /\ GivenUp(a - 1)
    /\ Goes(a, "unused", IF Replays THEN "sending" ELSE "failed")
    /\ UNCHANGED <<size, read, consumed, shut>>

BodyNext ==
    \/ Send
    \/ \E a \in 1..Attempts :
         ReadChunk(a) \/ Mark(a) \/ ReadEnd(a) \/ ReadShut(a) \/ Break(a) \/ Shut(a) \/ Retry(a)

--------------------------------------------------------------------------------
(* A body is presented to an origin as complete only if that attempt was given   *)
(* all of it: no retry continues where a failed one stopped.                     *)
WholeBodyOrNone == \A a \in 1..Attempts : try[a].step = "whole" => try[a].got = size
================================================================================
