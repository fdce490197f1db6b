------------------------------- MODULE MCEncoding -------------------------------
(* Instances of Encoding: the lists of offers.                                   *)
EXTENDS Encoding

Offer(coding, weight) == [coding |-> coding, weight |-> weight]

\* Nothing, one coding, several, everything, and only the identity.
OfferLists ==
    {<<>>, <<Offer("gzip", 1)>>, <<Offer("br", 1), Offer("zstd", 1)>>, <<Offer("*", 1)>>, <<Offer("identity", 1)>>}

RefusingLists == {<<Offer("gzip", 0), Offer("identity", 1)>>}

Openable == BodyKinds \ {"unopenable"}
================================================================================
