-------------------------------- MODULE Encoding --------------------------------
(* What becomes of a response's body and its framing (internal/proxy/encoding.go *)
(* and the lines of RoundTrip that call it): TIP keeps the origin's bytes when   *)
(* the client offered their encoding, and decodes them otherwise, if they turn   *)
(* out to be what the header says. One response; the bytes are told apart by how *)
(* far a decoder gets with them.                                                 *)
EXTENDS Naturals, Sequences, FiniteSets, SequencesExt

CONSTANTS Accepts, \* the Accept-Encoding lists a request may have: sequences of offers
          Bodies,  \* the kinds of body an origin may send, of BodyKinds
          None

(* "whole" decodes; "foreign" does not begin like its encoding; "unopenable"     *)
(* begins like it, and its header is then refused; "corrupt" breaks further on;  *)
(* "nothing" has no bytes.                                                       *)
BodyKinds == {"whole", "foreign", "unopenable", "corrupt", "nothing"}

ASSUME BodiesAreKinds == Bodies \subseteq BodyKinds

Codings == {"gzip", "deflate", "br", "zstd"}

\* "several" is a list of codings in one header, or one that TIP does not know.
Labels == Codings \cup {"several", "identity", None}

Modes == {"negotiate", "decode", "passthrough"}

ASSUME NoneIsNothing ==
    None \notin Codings \cup {"several", "identity", "as sent", "decoded", "beheaded", "broken off"}

VARIABLES mode, accept,
          sent,     \* the response as the origin sent it, [label, body, length, status, head], or None
          label,    \* its Content-Encoding now
          length,   \* its Content-Length now: "as sent" or None
          decoder,  \* the decoder in front of the body, or None
          lost,     \* whether bytes were read off the body by a decoder that was given up
          got,      \* what the client has read: None, "as sent", "decoded", "beheaded" or "broken off"
          open,     \* the parts of the body that Close has still to release
          stage

vars == <<mode, accept, sent, label, length, decoder, lost, got, open, stage>>

Responses ==
    [label : Labels, body : Bodies, length : {"zero", "some", "unknown"}, status : {200, 204, 304, 101}, head : BOOLEAN]

Bodiless(r) == r.status \in {204, 304} \/ r.length = "zero" \/ r.head

\* What HTTP allows an origin to send.
Sendable(r) == Bodiless(r) => r.body = "nothing"

Init ==
    /\ mode \in Modes /\ accept \in Accepts /\ sent = None
    /\ label = None /\ length = "as sent" /\ decoder = None /\ lost = FALSE
    /\ got = None /\ open = {} /\ stage = "awaited"

(* client.RoundTrip returns a response.                                          *)
Arrive(r) ==
    /\ stage = "awaited" /\ stage' = "headers"
    /\ sent' = r /\ label' = r.label /\ open' = {"source"}
    /\ UNCHANGED <<mode, accept, length, decoder, lost, got>>

(* acceptEncodings keeps the name of an offer and drops its weight.              *)
AcceptEncodings(offers) == {offers[i].coding : i \in DOMAIN offers}

FaultKeeps(r) == mode = "passthrough" \/ (mode = "negotiate" /\ r.label \in AcceptEncodings(accept))

\* negotiate's early returns.
Keeps(r) ==
    \/ r.label \in {None, "identity"} \/ mode = "passthrough"
    \/ mode = "negotiate" /\ {r.label, "*"} \cap AcceptEncodings(accept) # {}

Untouched(r) == r.status \in {204, 304} \/ r.length = "zero" \/ r.head

FaultBegins(coding, body) == coding = "br" \/ (coding \in {"gzip", "deflate"} /\ body \notin {"foreign", "nothing"})

\* The peek at the first bytes; brotli has nothing to look for.
Begins(coding, body) == coding = "br" \/ (coding \in Codings /\ body \notin {"foreign", "nothing"})

\* gzip.NewReader and zlib.NewReader read a header, the others read nothing yet.
Opens(coding, body) == ~(coding \in {"gzip", "deflate"} /\ body = "unopenable")

Decodable(r) == Begins(r.label, r.body) /\ Opens(r.label, r.body)

FaultNegotiate ==
    /\ stage = "headers" /\ stage' = "body"
    /\ LET done == sent.status # 101 /\ ~Keeps(sent) /\ ~Untouched(sent) /\ Decodable(sent)
       IN  /\ decoder' = IF done THEN sent.label ELSE None
           /\ open' = IF done THEN open \cup {"decoder"} ELSE open
           /\ label' = IF done THEN None ELSE label
    /\ UNCHANGED <<mode, accept, sent, length, lost, got>>

Negotiate ==
    /\ stage = "headers" /\ stage' = "body"
    /\ LET tried == sent.status # 101 /\ ~Keeps(sent) /\ ~Untouched(sent)
           done  == tried /\ Decodable(sent)
       IN  /\ decoder' = IF done THEN sent.label ELSE None
           /\ open' = IF done THEN open \cup {"decoder"} ELSE open
           /\ label' = IF done THEN None ELSE label
           /\ length' = IF done THEN None ELSE length
           /\ lost' = (tried /\ Begins(sent.label, sent.body) /\ ~Opens(sent.label, sent.body))
    /\ UNCHANGED <<mode, accept, sent, got>>

(* The client's copy of the body: external, but for what the readers return.     *)
Read ==
    /\ stage = "body" /\ got = None /\ open # {}
    /\ got' = IF decoder = None THEN (IF lost THEN "beheaded" ELSE "as sent")
              ELSE IF sent.body \in {"whole", "nothing"} THEN "decoded" ELSE "broken off"
    /\ UNCHANGED <<mode, accept, sent, label, length, decoder, lost, open, stage>>

\* decoded.Close closes the decoder and then the source; brotli's is a NopCloser.
Released == IF decoder = None THEN {"source"} ELSE {"decoder", "source"}

Close ==
    /\ stage = "body" /\ stage' = "closed"
    /\ open' = open \ Released
    /\ UNCHANGED <<mode, accept, sent, label, length, decoder, lost, got>>

Next == (\E r \in Responses : Sendable(r) /\ Arrive(r)) \/ Negotiate \/ Read \/ Close

Spec == Init /\ [][Next]_vars

--------------------------------------------------------------------------------
(* The fields have their types, and closing the body leaves nothing of it open,  *)
(* whichever decoder was put in front.                                           *)
TypeOK ==
    /\ label \in Labels /\ length \in {"as sent", None} /\ decoder \in Codings \cup {None}
    /\ open \subseteq {"source", "decoder"} /\ stage \in {"awaited", "headers", "body", "closed"}
    /\ stage = "closed" => open = {}

(* What the client reads is what the headers it got promise: under the origin's  *)
(* Content-Encoding and Content-Length the origin's bytes, all of them; without  *)
(* them the decoded body, or a copy that visibly breaks off.                     *)
BodyFitsLabel ==
    got # None =>
        /\ label = sent.label => got = "as sent"
        /\ label # sent.label => got \in {"decoded", "broken off"} /\ length = None

(* A client that can read what the origin sent, by its own Accept-Encoding, gets *)
(* it as it was sent, and so does every client when the mode is passthrough.     *)
OfferedIsKept ==
    (stage \in {"body", "closed"} /\ (mode = "passthrough"
        \/ (mode = "negotiate" /\ \E i \in DOMAIN accept : accept[i].coding \in {sent.label, "*"} /\ accept[i].weight > 0)))
      => label = sent.label /\ length = "as sent" /\ ~lost

(* A response that has no body keeps its headers, whatever the encoding.         *)
BodilessIsUntouched == (sent # None /\ Bodiless(sent)) => label = sent.label /\ length = "as sent"

(* "When the destination compresses with an encoding you did not offer, TIP      *)
(* decodes the body": nothing that TIP can decode reaches the client in a coding *)
(* it did not offer, or refused.                                                 *)
UnofferedIsDecoded ==
    (got = "as sent" /\ mode = "negotiate" /\ sent.status = 200 /\ sent.body = "whole" /\ label \in Codings)
      => \E i \in DOMAIN accept : accept[i].coding \in {label, "*"} /\ accept[i].weight > 0
================================================================================
