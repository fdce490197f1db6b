------------------------------- MODULE MCExchange -------------------------------
(* Instances of Exchange: calls, and the answers to them.                        *)
EXTENDS Exchange

Offer(coding, weight) == [coding |-> coding, weight |-> weight]

\* Nothing, one coding, several on two lines, everything, and only the identity.
OfferLines ==
    {<<>>, <<<<Offer("gzip", 1)>>>>, <<<<Offer("br", 1)>>, <<Offer("zstd", 1)>>>>, <<<<Offer("*", 1)>>>>, <<<<Offer("identity", 1)>>>>}

Headers(offers) ==
    [n \in {"cookie", "user-agent", "x-tip-browser"} \cup (IF offers = <<>> THEN {} ELSE {AE}) |->
        IF n = AE THEN offers ELSE <<"client's">>]

Call(offers, keep, browser, chunks) ==
    [headers |-> Headers(offers), keep |-> keep, browser |-> browser, chunks |-> chunks]

BodyCall == Call(<<<<Offer("gzip", 1)>>>>, <<>>, TRUE, 2)

EncodingCalls ==
    UNION {{Call(o, <<>>, FALSE, 0), Call(o, <<>>, TRUE, 0), Call(o, <<AE>>, TRUE, 0)} : o \in OfferLines}

HeaderCalls ==
    {Call(o, k, b, 0) : o \in OfferLines, b \in BOOLEAN, k \in {<<"user-agent", "accept", "user-agent">>, <<"cookie", AE>>}}

MCCalls == EncodingCalls \cup HeaderCalls \cup {BodyCall}

KeepDirectiveCalls == {Call(<<>>, <<"x-tip-browser">>, TRUE, 0)}

Openable == BodyKinds \ {"unopenable"}

PlainAnswer == [label |-> None, body |-> "whole", length |-> "some", status |-> 200, head |-> FALSE]

MCAnswers(c) == IF c \in EncodingCalls THEN {r \in Responses : Sendable(r)} ELSE {PlainAnswer}
================================================================================
