-------------------------------- MODULE Exchange --------------------------------
(* One exchange with an origin: what becomes of the client's headers on the way  *)
(* out (the end of onRequest in handler.go, Strip in directive/parse.go, WithKeep *)
(* and finalize in impersonate/context.go), the request's body (RequestBody) and *)
(* the response on the way back (Encoding). The origin is given what was sent    *)
(* and the client what the mode makes of the answer, so that a header handed     *)
(* back to the client by X-Tip-Keep can be followed to the body it asks for.     *)
(*                                                                               *)
(* A header map is a function from names to the sequence of the lines sent under *)
(* them. A line of Accept-Encoding is a sequence of offers, any other a token.   *)
EXTENDS Encoding, RequestBody

CONSTANTS Calls,     \* what clients ask for: [headers, keep, browser, chunks]
          Answers(_) \* the responses that an origin may give to a call

ASSUME CallsHaveHeaders ==
    \A c \in Calls : /\ c.headers # None /\ IsFiniteSet(DOMAIN c.headers)
                     /\ \A n \in DOMAIN c.headers : c.headers[n] \in Seq(Range(c.headers[n]))
ASSUME AnswersAreSendable == \A c \in Calls : \A r \in Answers(c) : r \in Responses /\ Sendable(r)

VARIABLES call,
          header,   \* the headers of the request, as far as TIP has come with them
          original, \* state.original: the headers before Strip, or None
          logged,   \* Capture.Headers: the header lines that the debug log shows
          leg       \* "received", "stripped" or "sent"

headerVars == <<call, header, original, logged, leg>>
exchangeVars == <<vars, bodyVars, headerVars>>

AE == "accept-encoding"

Directives == {"x-tip-keep", "x-tip-browser"}

\* Of the names the profile owns, two that clients send too.
Owned == {AE, "user-agent"}

ProfileLine(name) ==
    IF name = AE THEN <<[coding |-> "gzip", weight |-> 1], [coding |-> "br", weight |-> 1], [coding |-> "zstd", weight |-> 1]>>
                 ELSE "profile's"

ExchangeInit ==
    /\ call \in Calls /\ header = call.headers
    /\ original = None /\ logged = <<>> /\ leg = "received"
    /\ BodyInit(call.chunks)
    /\ mode \in Modes /\ accept = <<>> /\ sent = None
    /\ label = None /\ length = "as sent" /\ decoder = None /\ lost = FALSE
    /\ got = None /\ open = {} /\ stage = "awaited"

LinesOf(h, name) == IF name \in DOMAIN h THEN h[name] ELSE <<>>

Without(h, names) == [n \in DOMAIN h \ names |-> h[n]]

(* onRequest: the offers are read and the headers cloned while the directives    *)
(* are still there, and the clone is kept only for Keep.                         *)
Prepare ==
    /\ leg = "received" /\ leg' = "stripped"
    /\ accept' = FlattenSeq(LinesOf(header, AE))
    /\ original' = IF call.keep # <<>> THEN header ELSE None
    /\ header' = Without(header, Directives)
    /\ UNCHANGED <<call, logged, bodyVars, mode, sent, label, length, decoder, lost, got, open, stage>>

\* surf's profile, over whatever the client sent under its names.
Impersonated(h) == [n \in DOMAIN h \cup Owned |-> IF n \in Owned THEN <<ProfileLine(n)>> ELSE h[n]]

FaultFinalized(h) ==
    IF original = None THEN h
    ELSE [n \in DOMAIN h \cup (Range(call.keep) \cap DOMAIN original) |->
              IF n \in Range(call.keep) THEN LinesOf(h, n) \o LinesOf(original, n) ELSE h[n]]

FaultFinalizedEmpty(h) == IF original = None THEN h ELSE Without(h, Range(call.keep))

(* finalize: each kept name is deleted, and the client's values are added to it. *)
(* No name touches another, and one that is kept twice ends the same.            *)
Finalized(h) ==
    IF original = None THEN h
    ELSE [n \in (DOMAIN h \ Range(call.keep)) \cup (Range(call.keep) \cap DOMAIN original) |->
              IF n \in Range(call.keep) THEN original[n] ELSE h[n]]

HeaderOrder == <<"user-agent", AE, "cookie">>

(* lines: the names of the transport's order first, the rest sorted, each once.  *)
Lines(h) ==
    LET names    == HeaderOrder \o SetToSeq(DOMAIN h \ Range(HeaderOrder))
        Under(n) == [j \in DOMAIN LinesOf(h, n) |-> <<n, LinesOf(h, n)[j]>>]
    IN  FlattenSeq([i \in DOMAIN names |-> Under(names[i])])

(* client.RoundTrip, up to the transport: the profile, if there is one, and then *)
(* finalize, which runs last.                                                    *)
SendHeaders ==
    /\ leg = "stripped" /\ leg' = "sent"
    /\ header' = Finalized(IF call.browser THEN Impersonated(header) ELSE header)
    /\ logged' = Lines(header')
    /\ UNCHANGED <<call, original, bodyVars, vars>>

SendBody ==
    /\ leg = "sent" /\ stage = "awaited"
    /\ BodyNext
    /\ UNCHANGED <<headerVars, vars>>

\* An origin may answer before it has read the body, but not to an attempt that failed.
Answer ==
    /\ \E a \in 1..Attempts : try[a].step \in {"sending", "whole"} /\ \A b \in (a + 1)..Attempts : try[b].step = "unused"
    /\ \E r \in Answers(call) : Arrive(r)
    /\ UNCHANGED <<headerVars, bodyVars>>

Deliver == (Negotiate \/ Read \/ Close) /\ UNCHANGED <<headerVars, bodyVars>>

ExchangeNext == Prepare \/ SendHeaders \/ SendBody \/ Answer \/ Deliver

ExchangeSpec == ExchangeInit /\ [][ExchangeNext]_exchangeVars

--------------------------------------------------------------------------------
Asks(lines, coding) == \E i \in DOMAIN FlattenSeq(lines) :
    FlattenSeq(lines)[i].coding \in {coding, "*"} /\ FlattenSeq(lines)[i].weight > 0

\* The origin encodes only as the request it was sent allows.
Honest == AE \notin DOMAIN header \/ sent.label \in {None, "identity"} \/ Asks(header[AE], sent.label)

(* "Hands those headers back to you after the profile runs": what leaves under a *)
(* kept name is what the client sent under it, no more and no less, whatever the *)
(* profile has there; and what the profile does not own leaves unchanged.        *)
LinesArrive ==
    leg = "sent" =>
        \A n \in (DOMAIN call.headers \cup Range(call.keep) \cup Owned) \ Directives :
            (n \in Range(call.keep) \/ n \notin Owned \/ ~call.browser) =>
                LinesOf(header, n) = LinesOf(call.headers, n)

(* The log shows the lines of a name together, in their order, and nothing else  *)
(* under that name.                                                              *)
ShownOnce(lines, n) ==
    \E k \in 0..(Len(logged) - Len(lines)) :
        /\ \A i \in 1..Len(lines) : logged[k + i] = <<n, lines[i]>>
        /\ \A i \in 1..Len(logged) : logged[i][1] = n => i \in k + 1..k + Len(lines)

(* So they arrive, and the debug log shows every line that leaves, once, and no  *)
(* line that does not.                                                           *)
HeadersArrive ==
    /\ LinesArrive
    /\ leg = "sent" => /\ \A n \in DOMAIN header : ShownOnce(header[n], n)
                       /\ \A i \in 1..Len(logged) : logged[i][1] \in DOMAIN header

(* "X-Tip-Keep: Accept-Encoding gets you the origin's bytes and length as sent": *)
(* the client's offers go out, an honest origin answers to them, and the same    *)
(* offers decide on the way back.                                                *)
KeepGetsBytes ==
    (got # None /\ AE \in Range(call.keep) /\ AE \in DOMAIN call.headers /\ mode # "decode" /\ Honest)
      => got = "as sent" /\ label = sent.label /\ length = "as sent"

(* "Every X-Tip-* header is removed before the request leaves TIP."              *)
DirectivesStay == leg = "sent" => DOMAIN header \cap Directives = {}
================================================================================
