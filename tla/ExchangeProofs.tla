----------------------------- MODULE ExchangeProofs -----------------------------
(* Proofs about Exchange: the request's body, for any number of attempts; the    *)
(* headers that leave and the log of them; and what the client is given of any    *)
(* answer, for any calls.                                                        *)
EXTENDS Exchange, FiniteSetTheorems, SequenceTheorems, WellFoundedInduction, TLAPS

Steps == {"unused", "sending", "marking", "whole", "failed"}

BodyShape ==
    /\ read \in Nat /\ consumed \in BOOLEAN
    /\ try \in [1..Attempts -> [step : Steps, got : Nat]]

(* One attempt is under way at a time, and it has been given all that was read.  *)
InTurn ==
    /\ try[1].step = "unused" => read = 0
    /\ \A a, b \in 1..Attempts : a < b /\ try[b].step # "unused" => try[a].step = "failed"
    /\ \A a \in 1..Attempts : try[a].step = "unused" => try[a].got = 0
    /\ \A a \in 1..Attempts : try[a].step \in {"sending", "marking", "whole"} => try[a].got = read

(* consumed tells that something was read, except in the middle of replayable.Read. *)
Marked == read = 0 \/ consumed \/ \E a \in 1..Attempts : try[a].step = "marking"

BodyInv == BodyShape /\ InTurn /\ Marked /\ WholeBodyOrNone

LEMMA BodyInvStep == ASSUME ~Overlapping, BodyInv, BodyNext PROVE BodyInv'
<1> USE AttemptsAssumption DEF BodyInv, BodyShape, Steps, InTurn, Marked, WholeBodyOrNone, Goes
<1>1. CASE Send
  <2>1. \A b \in 1..Attempts : try[b].step = "unused" /\ try[b].got = 0
    BY <1>1 DEF Send
  <2>2. read = 0
    BY <2>1
  <2>3. QED
    BY <1>1, <2>1, <2>2 DEF Send
<1>2. ASSUME NEW a \in 1..Attempts, ReadChunk(a) PROVE BodyInv'
  <2>1. \A b \in 1..Attempts : b # a => try[b].step \in {"unused", "failed"}
    BY <1>2 DEF ReadChunk
  <2>2. /\ try[a].step = "sending" /\ read' = read + 1 /\ consumed' = consumed /\ size' = size
        /\ try[a].got = read
        /\ try' = [try EXCEPT ![a] = [step |-> "marking", got |-> read + 1]]
    <3>1. try[a].step = "sending" /\ try[a].got = read
      BY <1>2 DEF ReadChunk
    <3>2. try' = [try EXCEPT ![a] = [step |-> "marking", got |-> try[a].got + 1]]
      BY <1>2 DEF ReadChunk
    <3>3. QED
      BY <1>2, <3>1, <3>2 DEF ReadChunk
  <2>3. /\ try'[a] = [step |-> "marking", got |-> read + 1]
        /\ \A b \in 1..Attempts : b # a => try'[b] = try[b]
        /\ DOMAIN try' = 1..Attempts
    BY <2>2
  <2>4. BodyShape'
    BY <2>2
  <2>5. try'[1].step # "unused"
    BY <2>1, <2>2, <2>3
  <2>6. InTurn'
    BY <2>1, <2>2, <2>3, <2>5
  <2>7. Marked'
    BY <2>2, <2>3
  <2>8. WholeBodyOrNone'
    BY <2>1, <2>2, <2>3
  <2>9. QED
    BY <2>4, <2>6, <2>7, <2>8
<1>3. ASSUME NEW a \in 1..Attempts, Mark(a) PROVE BodyInv'
  BY <1>3 DEF Mark
<1>4. ASSUME NEW a \in 1..Attempts, ReadEnd(a) PROVE BodyInv'
  BY <1>4 DEF ReadEnd
<1>5. ASSUME NEW a \in 1..Attempts, ReadShut(a) \/ Break(a) PROVE BodyInv'
  <2>1. PICK from \in {"sending", "whole"} :
          /\ try[a].step = from /\ try' = [try EXCEPT ![a].step = "failed"]
          /\ UNCHANGED <<size, read, consumed, shut>>
    BY <1>5 DEF ReadShut, Break
  <2>2. BodyShape' /\ InTurn'
    BY <2>1
  <2>3. Marked'
    BY <2>1
  <2>4. WholeBodyOrNone'
    BY <2>1
  <2>5. QED
    BY <2>2, <2>3, <2>4
<1>6. ASSUME NEW a \in 1..Attempts, Shut(a) PROVE BodyInv'
  BY <1>6 DEF Shut
<1>7. ASSUME NEW a \in 1..Attempts, Retry(a) PROVE BodyInv'
  <2>1. a > 1 /\ a - 1 \in 1..Attempts /\ try[a].step = "unused" /\ try[a - 1].step = "failed"
    BY <1>7 DEF Retry, GivenUp
  <2>2. \A b \in 1..Attempts : b # a => try[b].step = (IF b < a THEN "failed" ELSE "unused")
    BY <2>1
  <2>3. CASE consumed
    BY <1>7, <2>1, <2>2, <2>3 DEF Retry, Replays
  <2>4. CASE ~consumed
    <3>1. read = 0
      BY <2>1, <2>2, <2>4
    <3>2. QED
      BY <1>7, <2>1, <2>2, <2>4, <3>1 DEF Retry, Replays
  <2>5. QED
    BY <2>3, <2>4
<1>8. QED
  BY <1>1, <1>2, <1>3, <1>4, <1>5, <1>6, <1>7 DEF BodyNext

(* If the transport asks for the body again only once the attempt before has     *)
(* failed, replayable never lets an origin take part of a body for the whole of  *)
(* it, however many attempts there are.                                          *)
THEOREM WholeBodyInTurn == ASSUME ~Overlapping PROVE ExchangeSpec => []WholeBodyOrNone
<1>1. ExchangeInit => BodyInv
  <2> SUFFICES ASSUME ExchangeInit PROVE BodyInv
    OBVIOUS
  <2>1. read = 0 /\ consumed = FALSE /\ try = [a \in 1..Attempts |-> [step |-> "unused", got |-> 0]]
    BY DEF ExchangeInit, BodyInit
  <2>2. BodyShape
    BY <2>1 DEF BodyShape, Steps
  <2>3. InTurn /\ Marked /\ WholeBodyOrNone
    BY <2>1, AttemptsAssumption DEF InTurn, Marked, WholeBodyOrNone
  <2>4. QED
    BY <2>2, <2>3 DEF BodyInv
<1>2. BodyInv /\ [ExchangeNext]_exchangeVars => BodyInv'
  <2> SUFFICES ASSUME BodyInv, [ExchangeNext]_exchangeVars PROVE BodyInv'
    OBVIOUS
  <2>1. CASE SendBody
    BY <2>1, BodyInvStep DEF SendBody
  <2>2. CASE UNCHANGED bodyVars
    BY <2>2 DEF bodyVars, BodyInv, BodyShape, InTurn, Marked, WholeBodyOrNone
  <2>3. QED
    BY <2>1, <2>2 DEF ExchangeNext, Prepare, SendHeaders, Answer, Deliver, exchangeVars
<1>3. BodyInv => WholeBodyOrNone
  BY DEF BodyInv
<1>4. QED
  BY <1>1, <1>2, <1>3, PTL DEF ExchangeSpec

--------------------------------------------------------------------------------
(* The headers on their way, leg by leg; nothing is sent before the last leg.    *)
Stripped == Without(call.headers, Directives)

HeaderInv ==
    /\ call \in Calls
    /\ leg \in {"received", "stripped", "sent"}
    /\ leg = "received" => header = call.headers
    /\ leg # "received" => /\ accept = FlattenSeq(LinesOf(call.headers, AE))
                           /\ original = IF call.keep # <<>> THEN call.headers ELSE None
    /\ leg = "stripped" => header = Stripped
    /\ leg = "sent" => header = Finalized(IF call.browser THEN Impersonated(Stripped) ELSE Stripped)
    /\ leg # "sent" => \A a \in 1..Attempts : try[a].step = "unused"
    /\ stage # "awaited" => leg = "sent"

LEMMA HeaderInvStep == ASSUME HeaderInv, [ExchangeNext]_exchangeVars PROVE HeaderInv'
<1>1. CASE Prepare
  <2>1. /\ leg = "received" /\ leg' = "stripped" /\ header' = Without(header, Directives)
        /\ accept' = FlattenSeq(LinesOf(header, AE))
        /\ original' = IF call.keep # <<>> THEN header ELSE None
        /\ UNCHANGED <<call, try, stage>>
    BY <1>1 DEF Prepare, bodyVars
  <2>2. header = call.headers /\ call' = call
    BY <2>1 DEF HeaderInv
  <2>3. QED
    BY <2>1, <2>2, Zenon DEF HeaderInv, Stripped
<1>2. CASE SendHeaders
  <2>1. /\ leg = "stripped" /\ leg' = "sent" /\ UNCHANGED <<call, original, accept>>
        /\ header' = Finalized(IF call.browser THEN Impersonated(header) ELSE header)
    BY <1>2 DEF SendHeaders, vars
  <2>2. header = Stripped
    BY <2>1 DEF HeaderInv
  <2>3. Finalized(IF call.browser THEN Impersonated(Stripped) ELSE Stripped)'
          = Finalized(IF call.browser THEN Impersonated(Stripped) ELSE Stripped)
    BY <2>1 DEF Finalized, Impersonated, Stripped, Without, LinesOf
  <2>4. QED
    BY <2>1, <2>2, <2>3, Zenon DEF HeaderInv
<1>3. CASE SendBody \/ Answer \/ Deliver \/ UNCHANGED exchangeVars
  <2>1. /\ UNCHANGED <<call, header, original, leg, accept>>
        /\ leg # "sent" => try' = try
        /\ stage' # "awaited" => leg = "sent"
    <3>1. CASE SendBody
      BY <3>1 DEF SendBody, headerVars, vars, HeaderInv
    <3>2. CASE Answer
      <4>1. UNCHANGED <<call, header, original, leg, try, accept>>
        BY <3>2 DEF Answer, Arrive, headerVars, bodyVars
      <4>2. \E a \in 1..Attempts : try[a].step \in {"sending", "whole"}
        BY <3>2 DEF Answer
      <4>3. QED
        BY <4>1, <4>2 DEF HeaderInv
    <3>3. CASE Deliver
      BY <3>3 DEF Deliver, Negotiate, Read, Close, headerVars, bodyVars, HeaderInv
    <3>4. CASE UNCHANGED exchangeVars
      BY <3>4 DEF exchangeVars, headerVars, bodyVars, vars, HeaderInv
    <3>5. QED
      BY <1>3, <3>1, <3>2, <3>3, <3>4
  <2>2. Finalized(IF call.browser THEN Impersonated(Stripped) ELSE Stripped)'
          = Finalized(IF call.browser THEN Impersonated(Stripped) ELSE Stripped)
    BY <2>1 DEF Finalized, Impersonated, Stripped, Without, LinesOf
  <2>3. Stripped' = Stripped
    BY <2>1 DEF Stripped, Without
  <2>4. QED
    BY <2>1, <2>2, <2>3, Zenon DEF HeaderInv
<1>4. QED
  BY <1>1, <1>2, <1>3 DEF ExchangeNext

LEMMA HeaderInvariant == ExchangeSpec => []HeaderInv
<1>1. ExchangeInit => HeaderInv
  <2> SUFFICES ASSUME ExchangeInit PROVE HeaderInv
    OBVIOUS
  <2>1. /\ call \in Calls /\ header = call.headers /\ leg = "received" /\ stage = "awaited"
        /\ try = [a \in 1..Attempts |-> [step |-> "unused", got |-> 0]]
    BY DEF ExchangeInit, BodyInit
  <2>2. \A a \in 1..Attempts : try[a].step = "unused"
    BY <2>1
  <2>3. QED
    BY <2>1, <2>2 DEF HeaderInv
<1>2. HeaderInv /\ [ExchangeNext]_exchangeVars => HeaderInv'
  BY HeaderInvStep
<1>3. QED
  BY <1>1, <1>2, PTL DEF ExchangeSpec

LEMMA HeadersKept ==
  ASSUME HeaderInv, leg = "sent"
  PROVE  LinesArrive /\ (AE \in Range(call.keep) /\ AE \in DOMAIN call.headers =>
                             AE \in DOMAIN header /\ header[AE] = call.headers[AE])
<1> DEFINE base == IF call.browser THEN Impersonated(Stripped) ELSE Stripped
<1>1. header = Finalized(base) /\ call.headers # None
  BY CallsHaveHeaders DEF HeaderInv
<1>2. /\ call.keep # <<>> => original = call.headers /\ original # None
      /\ call.keep = <<>> => original = None
  BY <1>1 DEF HeaderInv
<1>3. call.keep = <<>> => Range(call.keep) = {}
  BY DEF Range
<1>4. \A n : n \notin Directives /\ (n \notin Owned \/ ~call.browser) =>
         /\ n \in DOMAIN base <=> n \in DOMAIN call.headers
         /\ n \in DOMAIN call.headers => base[n] = call.headers[n]
  <2>1. \A n : n \notin Directives =>
           /\ n \in DOMAIN Stripped <=> n \in DOMAIN call.headers
           /\ n \in DOMAIN call.headers => Stripped[n] = call.headers[n]
    BY DEF Stripped, Without
  <2>2. \A n : n \notin Owned =>
           /\ n \in DOMAIN Impersonated(Stripped) <=> n \in DOMAIN Stripped
           /\ n \in DOMAIN Stripped => Impersonated(Stripped)[n] = Stripped[n]
    BY DEF Impersonated
  <2>3. QED
    BY <2>1, <2>2
<1> HIDE DEF base
<1>5. ASSUME NEW n, n \in Range(call.keep)
      PROVE  /\ n \in DOMAIN header <=> n \in DOMAIN call.headers
             /\ n \in DOMAIN call.headers => header[n] = call.headers[n]
  BY <1>1, <1>2, <1>3, <1>5 DEF Finalized
<1>6. ASSUME NEW n, n \notin Range(call.keep)
      PROVE  /\ n \in DOMAIN header <=> n \in DOMAIN base
             /\ n \in DOMAIN base => header[n] = base[n]
  BY <1>1, <1>2, <1>6 DEF Finalized
<1>7. LinesArrive
  <2> SUFFICES ASSUME NEW n, n \notin Directives, n \in Range(call.keep) \/ n \notin Owned \/ ~call.browser
               PROVE  LinesOf(header, n) = LinesOf(call.headers, n)
    BY DEF LinesArrive
  <2>1. /\ n \in DOMAIN header <=> n \in DOMAIN call.headers
        /\ n \in DOMAIN call.headers => header[n] = call.headers[n]
    BY <1>4, <1>5, <1>6
  <2>2. QED
    BY <2>1, Zenon DEF LinesOf
<1>8. QED
  BY <1>5, <1>7

--------------------------------------------------------------------------------
(* What the debug log shows of the headers. Numbers that hold 1 and, with each   *)
(* number up to m, the next, hold them all: the induction that the sums below of *)
(* a sequence of sequences, and with them FlattenSeq, are reasoned about with.   *)
LEMMA CountUp ==
  ASSUME NEW m \in Nat, NEW S, 1 \in S, \A i \in S : i \in 1..m /\ i < m => i + 1 \in S
  PROVE  \A i \in 1..m : i \in S
<1> DEFINE R == OpToRel(<, Nat)
           B == {i \in 1..m : i \notin S}
<1>1. IsWellFoundedOn(R, Nat)
  BY NatLessThanWellFounded
<1>2. \A x, y \in Nat : <<x, y>> \in R <=> x < y
  BY DEF OpToRel
<1>3. SUFFICES ASSUME B # {} PROVE FALSE
  OBVIOUS
<1> HIDE DEF R
<1>4. B \in SUBSET Nat
  OBVIOUS
<1>5. PICK x \in B : \A y \in B : <<y, x>> \notin R
  BY <1>1, <1>3, <1>4, WFMin
<1>6. x \in Nat /\ x # 1 /\ x \in 1..m /\ x - 1 \in 1..m /\ x - 1 < x /\ x - 1 \in Nat
  BY <1>5
<1>7. <<x - 1, x>> \in R
  BY <1>2, <1>6
<1>8. x - 1 \notin B
  BY <1>5, <1>7
<1>9. x - 1 \in S /\ x - 1 < m /\ (x - 1) + 1 = x
  BY <1>6, <1>8
<1>10. x \in S
  BY <1>6, <1>9
<1>11. QED
  BY <1>5, <1>10

(* g adds up the sequences of s.                                                *)
Sums(g, s, m) == g[1] = s[1] /\ \A i \in 2..m : g[i] = g[i - 1] \o s[i]

LEMMA SumsExist ==
  ASSUME NEW V, NEW m \in Nat, m # 0, NEW s \in [1..m -> Seq(V)]
  PROVE  \E g \in [1..m -> Seq(V)] : Sums(g, s, m)
<1> DEFINE S == {n \in 1..m : \E g \in [1..n -> Seq(V)] : Sums(g, s, n)}
<1>1. 1 \in S
  <2> DEFINE g == [i \in 1..1 |-> s[1]]
  <2>1. g \in [1..1 -> Seq(V)] /\ g[1] = s[1] /\ 1 \in 1..m
    OBVIOUS
  <2>2. Sums(g, s, 1)
    BY <2>1 DEF Sums
  <2>3. QED
    BY <2>1, <2>2
<1>2. ASSUME NEW n \in S, n < m PROVE n + 1 \in S
  <2>1. PICK g \in [1..n -> Seq(V)] : Sums(g, s, n)
    OBVIOUS
  <2>2. n \in Nat /\ n >= 1 /\ n + 1 \in 1..m /\ n \in 1..n
    BY <1>2
  <2> DEFINE f == [i \in 1..(n + 1) |-> IF i \in 1..n THEN g[i] ELSE g[n] \o s[n + 1]]
  <2>3. g[n] \o s[n + 1] \in Seq(V)
    BY <2>2, ConcatProperties
  <2>4. f \in [1..(n + 1) -> Seq(V)]
    BY <2>2, <2>3
  <2>5. \A i \in 1..n : f[i] = g[i]
    BY <2>2
  <2>6. f[n + 1] = g[n] \o s[n + 1]
    BY <2>2
  <2> HIDE DEF f
  <2>7. Sums(f, s, n + 1)
    <3>1. f[1] = s[1]
      BY <2>1, <2>2, <2>5 DEF Sums
    <3>2. ASSUME NEW i \in 2..(n + 1) PROVE f[i] = f[i - 1] \o s[i]
      <4>1. CASE i = n + 1
        <5>1. i - 1 = n /\ f[n] = g[n]
          BY <2>2, <2>5, <4>1
        <5>2. QED
          BY <2>6, <4>1, <5>1
      <4>2. CASE i # n + 1
        <5>1. i \in 2..n /\ i \in 1..n /\ i - 1 \in 1..n
          BY <2>2, <4>2
        <5>2. f[i] = g[i] /\ f[i - 1] = g[i - 1]
          BY <2>5, <5>1
        <5>3. g[i] = g[i - 1] \o s[i]
          BY <2>1, <5>1 DEF Sums
        <5>4. QED
          BY <5>2, <5>3
      <4>3. QED
        BY <4>1, <4>2
    <3>3. QED
      BY <3>1, <3>2 DEF Sums
  <2>8. QED
    BY <2>2, <2>4, <2>7
<1> HIDE DEF S
<1>3. \A i \in 1..m : i \in S
  BY <1>1, <1>2, CountUp
<1>4. m \in S
  BY <1>3
<1>5. QED
  BY <1>4 DEF S

(* FlattenSeq adds them up.                                                      *)
LEMMA FlattenIs ==
  ASSUME NEW V, NEW m \in Nat, m # 0, NEW s \in [1..m -> Seq(V)]
  PROVE  \E g \in [1..m -> Seq(V)] : Sums(g, s, m) /\ FlattenSeq(s) = g[m]
<1> DEFINE F(g) == g = [i \in 1..m |-> IF i = 1 THEN s[i] ELSE g[i - 1] \o s[i]]
<1>1. PICK g \in [1..m -> Seq(V)] : Sums(g, s, m)
  BY SumsExist
<1>2. F(g)
  <2>1. ASSUME NEW i \in 1..m PROVE g[i] = IF i = 1 THEN s[i] ELSE g[i - 1] \o s[i]
    <3>1. CASE i = 1
      BY <1>1, <3>1, Zenon DEF Sums
    <3>2. CASE i # 1
      <4>1. i \in 2..m
        BY <3>2
      <4>2. g[i] = g[i - 1] \o s[i]
        BY <1>1, <4>1 DEF Sums
      <4>3. QED
        BY <3>2, <4>2, Zenon
    <3>3. QED
      BY <3>1, <3>2
  <2>2. QED
    BY <2>1
<1>3. Len(s) = m
  OBVIOUS
<1>4. FlattenSeq(s) = (CHOOSE f : F(f))[m]
  BY <1>3 DEF FlattenSeq
<1>5. F(CHOOSE f : F(f))
  <2> HIDE DEF F
  <2>1. QED
    BY <1>2
<1> DEFINE f == CHOOSE x : F(x)
<1>6. DOMAIN f = 1..m /\ \A i \in 1..m : f[i] = IF i = 1 THEN s[i] ELSE f[i - 1] \o s[i]
  <2> HIDE DEF f
  <2>1. F(f)
    BY <1>5 DEF f
  <2>2. QED
    BY <2>1
<1> HIDE DEF f
<1> DEFINE S == {i \in 1..m : f[i] = g[i]}
<1>7. 1 \in S
  BY <1>1, <1>6 DEF Sums
<1>8. ASSUME NEW i \in S, i < m PROVE i + 1 \in S
  <2>1. i \in 1..m /\ i + 1 \in 2..m /\ i + 1 \in 1..m /\ i + 1 # 1 /\ (i + 1) - 1 = i /\ f[i] = g[i]
    BY <1>8
  <2>2. g[i + 1] = g[i] \o s[i + 1]
    BY <1>1, <2>1 DEF Sums
  <2>3. f[i + 1] = f[i] \o s[i + 1]
    BY <1>6, <2>1
  <2>4. QED
    BY <2>1, <2>2, <2>3
<1> HIDE DEF S
<1>9. \A i \in 1..m : i \in S
  BY <1>7, <1>8, CountUp
<1>10. m \in S
  BY <1>9
<1>11. f[m] = g[m]
  BY <1>10 DEF S
<1>12. QED
  BY <1>1, <1>4, <1>11 DEF f
(* The lines of t, one after another, are all that log has under x.              *)
Placed(log, t, x) ==
    \E k \in 0..(Len(log) - Len(t)) :
        /\ \A q \in 1..Len(t) : log[k + q] = t[q]
        /\ \A q \in 1..Len(log) : log[q][1] = x => q \in k + 1..k + Len(t)

(* fu is f followed by u, index by index.                                        *)
Joins(fu, f, u) ==
    /\ Len(fu) = Len(f) + Len(u)
    /\ \A q \in 1..Len(f) : fu[q] = f[q]
    /\ \A q \in 1..Len(u) : fu[Len(f) + q] = u[q]
    /\ \A q \in 1..Len(fu) : q \in 1..Len(f) \/ \E r \in 1..Len(u) : q = Len(f) + r

LEMMA Appends ==
  ASSUME NEW V, NEW f \in Seq(V), NEW u \in Seq(V)
  PROVE  f \o u \in Seq(V) /\ Joins(f \o u, f, u)
<1>1. Len(f) \in Nat /\ Len(u) \in Nat
  OBVIOUS
<1>2. f \o u \in Seq(V) /\ Len(f \o u) = Len(f) + Len(u) /\ \A q \in 1..Len(f) + Len(u) : (f \o u)[q] = IF q <= Len(f) THEN f[q] ELSE u[q - Len(f)]
  BY ConcatProperties
<1> DEFINE fu == f \o u
           F == Len(f)
           U == Len(u)
<1>3. F \in Nat /\ U \in Nat /\ Len(fu) = F + U /\ \A q \in 1..F + U : fu[q] = IF q <= F THEN f[q] ELSE u[q - F]
  BY <1>1, <1>2
<1>4. fu \in Seq(V)
  BY <1>2
<1> SUFFICES Joins(fu, f, u)
  BY <1>4
<1> HIDE DEF fu
<1>5. \A q \in 1..F : fu[q] = f[q]
  BY <1>3
<1>6. \A q \in 1..U : fu[F + q] = u[q]
  <2>1. ASSUME NEW q \in 1..U PROVE fu[F + q] = u[q]
    <3>1. F + q \in 1..F + U /\ ~(F + q <= F) /\ (F + q) - F = q
      BY <1>3
    <3>2. QED
      BY <1>3, <3>1
  <2>2. QED
    BY <2>1
<1>7. ASSUME NEW q \in 1..Len(fu), q \notin 1..F PROVE \E r \in 1..U : q = F + r
  <2>1. q - F \in 1..U /\ q = F + (q - F)
    BY <1>3, <1>7
  <2>2. QED
    BY <2>1
<1>8. QED
  BY <1>3, <1>5, <1>6, <1>7 DEF Joins

(* A block stays in place when lines of other names follow, and the last block   *)
(* is in place if none of its name came before.                                  *)
LEMMA PlacedStays ==
  ASSUME NEW V, NEW f \in Seq(V), NEW u \in Seq(V), NEW t \in Seq(V), NEW x, Placed(f, t, x),
         \A q \in 1..Len(u) : u[q][1] # x
  PROVE  Placed(f \o u, t, x)
<1> DEFINE fu == f \o u
<1>1. Joins(fu, f, u)
  BY Appends
<1> HIDE DEF fu
<1>2. PICK k \in 0..(Len(f) - Len(t)) :
        /\ \A q \in 1..Len(t) : f[k + q] = t[q]
        /\ \A q \in 1..Len(f) : f[q][1] = x => q \in k + 1..k + Len(t)
  BY DEF Placed
<1>3. Len(f) \in Nat /\ Len(u) \in Nat /\ Len(t) \in Nat
  OBVIOUS
<1>4. k \in 0..(Len(fu) - Len(t))
  BY <1>1, <1>3 DEF Joins
<1>5. ASSUME NEW q \in 1..Len(t) PROVE fu[k + q] = t[q]
  <2>1. k + q \in 1..Len(f)
    BY <1>3
  <2>2. QED
    BY <1>1, <1>2, <2>1 DEF Joins
<1>6. ASSUME NEW q \in 1..Len(fu), fu[q][1] = x PROVE q \in k + 1..k + Len(t)
  <2>1. CASE q \in 1..Len(f)
    BY <1>1, <1>2, <1>6, <2>1 DEF Joins
  <2>2. ASSUME NEW r \in 1..Len(u), q = Len(f) + r PROVE FALSE
    <3>1. fu[q] = u[r]
      BY <1>1, <2>2 DEF Joins
    <3>2. QED
      BY <1>6, <3>1
  <2>3. QED
    BY <1>1, <2>1, <2>2 DEF Joins
<1>7. QED
  BY <1>4, <1>5, <1>6 DEF Placed, fu

LEMMA PlacedLast ==
  ASSUME NEW V, NEW f \in Seq(V), NEW u \in Seq(V), NEW x, \A q \in 1..Len(f) : f[q][1] # x
  PROVE  Placed(f \o u, u, x)
<1> DEFINE fu == f \o u
           k == Len(f)
<1>1. Joins(fu, f, u)
  BY Appends
<1> HIDE DEF fu
<1>2. Len(f) \in Nat /\ Len(u) \in Nat
  OBVIOUS
<1>3. k \in 0..(Len(fu) - Len(u)) /\ \A q \in 1..Len(u) : fu[k + q] = u[q]
  BY <1>1, <1>2 DEF Joins
<1>4. ASSUME NEW q \in 1..Len(fu), fu[q][1] = x PROVE q \in k + 1..k + Len(u)
  <2>1. q \notin 1..Len(f)
    BY <1>1, <1>4 DEF Joins
  <2>2. PICK r \in 1..Len(u) : q = Len(f) + r
    BY <1>1, <2>1 DEF Joins
  <2>3. QED
    BY <1>2, <2>2
<1>5. QED
  BY <1>3, <1>4 DEF Placed, fu

(* The lines of s[i] are those of the name N[i], and no name has two of them.    *)
OnceEach(N, m) == \A i, j \in 1..m : N[i] = N[j] => i = j

Tagged(s, N, m) == \A i \in 1..m : \A q \in 1..Len(s[i]) : s[i][q][1] = N[i]

InBlocks(log, s, N, m) ==
    /\ \A i \in 1..m : Placed(log, s[i], N[i])
    /\ \A p \in 1..Len(log) : \E i \in 1..m : Len(s[i]) # 0 /\ log[p][1] = N[i]

LEMMA BlocksArePlaced ==
  ASSUME NEW V, NEW m \in Nat, m # 0, NEW N, NEW s \in [1..m -> Seq(V)], OnceEach(N, m), Tagged(s, N, m)
  PROVE  FlattenSeq(s) \in Seq(V) /\ InBlocks(FlattenSeq(s), s, N, m)
<1>1. PICK g \in [1..m -> Seq(V)] : Sums(g, s, m) /\ FlattenSeq(s) = g[m]
  BY FlattenIs
<1>0. /\ \A i, j \in 1..m : N[i] = N[j] => i = j
      /\ \A i \in 1..m : \A q \in 1..Len(s[i]) : s[i][q][1] = N[i]
  BY DEF OnceEach, Tagged
<1> DEFINE Names(n) == \A p \in 1..Len(g[n]) : \E i \in 1..n : Len(s[i]) # 0 /\ g[n][p][1] = N[i]
           Places(n) == \A i \in 1..n : Placed(g[n], s[i], N[i])
           S == {n \in 1..m : Names(n) /\ Places(n)}
<1>2. 1 \in S
  <2>1. 1 \in 1..m /\ g[1] = s[1] /\ s[1] \in Seq(V)
    BY <1>1 DEF Sums
  <2>2. Names(1)
    <3>1. ASSUME NEW p \in 1..Len(g[1]) PROVE \E i \in 1..1 : Len(s[i]) # 0 /\ g[1][p][1] = N[i]
      <4>1. Len(s[1]) # 0 /\ g[1][p][1] = N[1]
        BY <1>0, <2>1
      <4>2. QED
        BY <4>1
    <3>2. QED
      BY <3>1
  <2>3. Placed(s[1], s[1], N[1])
    <3>1. 0 \in 0..(Len(s[1]) - Len(s[1])) /\ \A q \in 1..Len(s[1]) : 0 + q = q
      BY <2>1
    <3>2. QED
      BY <2>1, <3>1 DEF Placed
  <2>4. Places(1)
    BY <2>1, <2>3
  <2>5. QED
    BY <2>1, <2>2, <2>4
<1>3. ASSUME NEW n \in S, n < m PROVE n + 1 \in S
  <2>1. n \in 1..m /\ n + 1 \in 1..m /\ n + 1 \in 2..m /\ (n + 1) - 1 = n /\ Names(n) /\ Places(n)
    <3> HIDE DEF Names, Places
    <3>1. n \in 1..m /\ Names(n) /\ Places(n)
      OBVIOUS
    <3>2. QED
      BY <1>3, <3>1
  <2> DEFINE f == g[n]
             u == s[n + 1]
             fu == g[n + 1]
  <2>2. f \in Seq(V) /\ u \in Seq(V) /\ fu = f \o u
    <3>1. g[n + 1] = g[n] \o s[n + 1]
      BY <1>1, <2>1 DEF Sums
    <3>2. QED
      BY <2>1, <3>1
  <2>3. \A q \in 1..Len(u) : u[q][1] = N[n + 1]
    BY <1>0, <2>1
  <2>4. \A p \in 1..Len(f) : \E i \in 1..n : Len(s[i]) # 0 /\ f[p][1] = N[i]
    BY <2>1
  <2>5. \A i \in 1..n : i \in 1..m /\ i \in 1..(n + 1) /\ i # n + 1 /\ N[i] # N[n + 1] /\ s[i] \in Seq(V) /\ Placed(f, s[i], N[i])
    BY <1>0, <2>1
  <2>6. n + 1 \in 1..(n + 1) /\ \A i \in 1..(n + 1) : i \in 1..n \/ i = n + 1
    <3>1. n \in Nat
      BY <2>1
    <3>2. QED
      BY <3>1
  <2> HIDE DEF f, u, fu
  <2>7. Joins(fu, f, u)
    BY <2>2, Appends
  <2>8. ASSUME NEW p \in 1..Len(fu) PROVE \E i \in 1..(n + 1) : Len(s[i]) # 0 /\ fu[p][1] = N[i]
    <3>1. CASE p \in 1..Len(f)
      <4>1. fu[p] = f[p]
        BY <2>7, <3>1 DEF Joins
      <4>2. PICK i \in 1..n : Len(s[i]) # 0 /\ f[p][1] = N[i]
        BY <2>4, <3>1
      <4>3. i \in 1..(n + 1)
        BY <2>5
      <4>4. QED
        BY <4>1, <4>2, <4>3
    <3>2. ASSUME NEW r \in 1..Len(u), p = Len(f) + r PROVE \E i \in 1..(n + 1) : Len(s[i]) # 0 /\ fu[p][1] = N[i]
      <4>1. fu[p] = u[r]
        BY <2>7, <3>2 DEF Joins
      <4>2. Len(s[n + 1]) # 0
        BY <2>2 DEF u
      <4>3. QED
        BY <2>3, <2>6, <4>1, <4>2
    <3>3. QED
      BY <2>7, <3>1, <3>2 DEF Joins
  <2>9. ASSUME NEW i \in 1..(n + 1) PROVE Placed(fu, s[i], N[i])
    <3>1. CASE i = n + 1
      <4>1. \A p \in 1..Len(f) : f[p][1] # N[n + 1]
        BY <2>4, <2>5
      <4>2. Placed(fu, u, N[n + 1])
        BY <2>2, <4>1, PlacedLast
      <4>3. QED
        BY <3>1, <4>2 DEF u
    <3>2. CASE i \in 1..n
      <4>1. \A q \in 1..Len(u) : u[q][1] # N[i]
        BY <2>3, <2>5, <3>2
      <4>2. QED
        BY <2>2, <2>5, <3>2, <4>1, PlacedStays
    <3>3. QED
      BY <2>6, <3>1, <3>2
  <2>10. QED
    BY <2>1, <2>8, <2>9 DEF fu
<1> HIDE DEF S
<1>4. \A n \in 1..m : n \in S
  BY <1>2, <1>3, CountUp
<1>5. m \in 1..m /\ m \in S
  BY <1>4
<1>6. Names(m) /\ Places(m)
  BY <1>5 DEF S
<1>7. QED
  BY <1>1, <1>5, <1>6 DEF InBlocks

(* The names in the order of lines: every name of the headers, and none twice.   *)
NamesOf(h) == HeaderOrder \o SetToSeq(DOMAIN h \ Range(HeaderOrder))

(* SetToSeq lists the members of a finite set, each once.                        *)
LEMMA SetToSeqIs ==
  ASSUME NEW S, IsFiniteSet(S)
  PROVE  /\ Cardinality(S) \in Nat /\ SetToSeq(S) \in [1..Cardinality(S) -> S]
         /\ \A i, j \in 1..Cardinality(S) : SetToSeq(S)[i] = SetToSeq(S)[j] => i = j
         /\ \A x \in S : \E i \in 1..Cardinality(S) : SetToSeq(S)[i] = x
<1> DEFINE k == Cardinality(S)
           f == SetToSeq(S)
<1>1. k \in Nat /\ \E g \in [1..k -> S] : IsInjective(g)
  BY FS_CardinalityType DEF ExistsBijection, Bijection, Injection
<1>2. f \in [1..k -> S] /\ IsInjective(f)
  BY <1>1 DEF SetToSeq
<1>3. IsFiniteSet(1..k) /\ Cardinality(1..k) = k
  BY <1>1, FS_Interval
<1>4. f \in Injection(1..k, S)
  BY <1>2 DEF Injection
<1> HIDE DEF f
<1>5. f \in Surjection(1..k, S)
  BY <1>3, <1>4, FS_Injection
<1>6. QED
  BY <1>1, <1>2, <1>5 DEF IsInjective, Surjection, f

LEMMA NamesAre ==
  ASSUME NEW h, IsFiniteSet(DOMAIN h)
  PROVE  \E m \in Nat : /\ m # 0 /\ DOMAIN NamesOf(h) = 1..m
                        /\ \A i, j \in 1..m : NamesOf(h)[i] = NamesOf(h)[j] => i = j
                        /\ \A n \in DOMAIN h : \E i \in 1..m : NamesOf(h)[i] = n
<1> DEFINE R == Range(HeaderOrder)
           S == DOMAIN h \ R
           q == SetToSeq(S)
           k == Cardinality(S)
           V == R \cup S
           names == HeaderOrder \o q
<1>1. IsFiniteSet(S)
  BY FS_Difference
<1>2. /\ k \in Nat /\ q \in [1..k -> S]
      /\ \A i, j \in 1..k : q[i] = q[j] => i = j
      /\ \A x \in S : \E i \in 1..k : q[i] = x
  <2> HIDE DEF S
  <2>1. QED
    BY <1>1, SetToSeqIs
<1>3. /\ HeaderOrder \in Seq(R) /\ Len(HeaderOrder) = 3
      /\ \A i, j \in 1..3 : HeaderOrder[i] = HeaderOrder[j] => i = j
      /\ \A x \in R : \E i \in 1..3 : HeaderOrder[i] = x
      /\ \A i \in 1..3 : HeaderOrder[i] \in R
  BY DEF HeaderOrder, AE, Range
<1>4. \A n \in DOMAIN h : n \in R \/ n \in S
  OBVIOUS
<1>5. \A n \in S : n \notin R
  OBVIOUS
<1> HIDE DEF R, S, q, k
<1>6. HeaderOrder \in Seq(V) /\ q \in Seq(V) /\ Len(q) = k
  BY <1>2, <1>3
<1>7. names \in Seq(V) /\ Joins(names, HeaderOrder, q)
  BY <1>6, Appends
<1> HIDE DEF names
<1>8. /\ DOMAIN names = 1..(3 + k) /\ 3 + k \in Nat /\ 3 + k # 0
      /\ \A i \in 1..3 : names[i] = HeaderOrder[i]
      /\ \A i \in 1..k : names[3 + i] = q[i]
      /\ \A i \in 1..(3 + k) : i \in 1..3 \/ \E j \in 1..k : i = 3 + j
  BY <1>2, <1>3, <1>6, <1>7 DEF Joins
<1>9. ASSUME NEW i \in 1..(3 + k), NEW j \in 1..(3 + k), names[i] = names[j] PROVE i = j
  <2>1. CASE i \in 1..3 /\ j \in 1..3
    BY <1>3, <1>8, <1>9, <2>1
  <2>2. ASSUME NEW a \in 1..3, NEW b \in 1..k PROVE names[a] # names[3 + b]
    <3>1. HeaderOrder[a] \in R /\ q[b] \in S
      BY <1>2, <1>3
    <3>2. HeaderOrder[a] # q[b]
      BY <1>5, <3>1
    <3>3. QED
      BY <1>8, <3>2
  <2>3. ASSUME NEW a \in 1..k, NEW b \in 1..k, i = 3 + a, j = 3 + b PROVE i = j
    <3>1. q[a] = q[b]
      BY <1>8, <1>9, <2>3
    <3>2. QED
      BY <1>2, <2>3, <3>1
  <2>4. QED
    BY <1>8, <1>9, <2>1, <2>2, <2>3
<1>10. ASSUME NEW n \in DOMAIN h PROVE \E i \in 1..(3 + k) : names[i] = n
  <2>1. CASE n \in R
    <3>1. PICK i \in 1..3 : HeaderOrder[i] = n
      BY <1>3, <2>1
    <3>2. i \in 1..(3 + k) /\ names[i] = n
      BY <1>2, <1>8, <3>1
    <3>3. QED
      BY <3>2
  <2>2. CASE n \in S
    <3>1. PICK i \in 1..k : q[i] = n
      BY <1>2, <2>2
    <3>2. 3 + i \in 1..(3 + k) /\ names[3 + i] = n
      BY <1>2, <1>8, <3>1
    <3>3. QED
      BY <3>2
  <2>3. QED
    BY <1>4, <2>1, <2>2
<1>11. NamesOf(h) = names
  BY DEF NamesOf, names, q, S, R
<1>12. QED
  BY <1>8, <1>9, <1>10, <1>11

(* The lines of a header map hold the lines of each name in one block, whatever  *)
(* names there are besides those of HeaderOrder, and those in any order.         *)
LEMMA LinesAre ==
  ASSUME NEW h, IsFiniteSet(DOMAIN h), \A n \in DOMAIN h : h[n] \in Seq(Range(h[n]))
  PROVE  /\ Len(Lines(h)) \in Nat
         /\ \A n \in DOMAIN h : \E k \in 0..(Len(Lines(h)) - Len(h[n])) :
                /\ \A i \in 1..Len(h[n]) : Lines(h)[k + i] = <<n, h[n][i]>>
                /\ \A i \in 1..Len(Lines(h)) : Lines(h)[i][1] = n => i \in k + 1..k + Len(h[n])
         /\ \A i \in 1..Len(Lines(h)) : Lines(h)[i][1] \in DOMAIN h
<1> DEFINE names == NamesOf(h)
           Under(n) == [j \in DOMAIN LinesOf(h, n) |-> <<n, LinesOf(h, n)[j]>>]
           s == [i \in DOMAIN names |-> Under(names[i])]
           V == {<<n, x>> : n \in DOMAIN h, x \in UNION {Range(h[n]) : n \in DOMAIN h}}
<1>1. PICK m \in Nat : /\ m # 0 /\ DOMAIN names = 1..m
                       /\ \A i, j \in 1..m : names[i] = names[j] => i = j
                       /\ \A n \in DOMAIN h : \E i \in 1..m : names[i] = n
  BY NamesAre
<1>2. Lines(h) = FlattenSeq(s)
  BY DEF Lines, NamesOf
<1> HIDE DEF names
<1>3. ASSUME NEW n \in DOMAIN h
      PROVE  /\ Len(h[n]) \in Nat /\ Under(n) \in Seq(V) /\ Len(Under(n)) = Len(h[n])
             /\ \A j \in 1..Len(h[n]) : Under(n)[j] = <<n, h[n][j]>>
  <2>1. LinesOf(h, n) = h[n] /\ Len(h[n]) \in Nat /\ DOMAIN h[n] = 1..Len(h[n])
    BY DEF LinesOf
  <2>2. \A j \in 1..Len(h[n]) : h[n][j] \in UNION {Range(h[k]) : k \in DOMAIN h}
    <3>1. \A j \in 1..Len(h[n]) : h[n][j] \in Range(h[n])
      BY <2>1 DEF Range
    <3>2. Range(h[n]) \in {Range(h[k]) : k \in DOMAIN h}
      OBVIOUS
    <3>3. QED
      BY <3>1, <3>2
  <2>3. \A j \in 1..Len(h[n]) : <<n, h[n][j]>> \in V
    BY <2>2
  <2> HIDE DEF V
  <2>4. QED
    BY <2>1, <2>3
<1>4. ASSUME NEW n, n \notin DOMAIN h PROVE Under(n) \in Seq(V) /\ Len(Under(n)) = 0
  <2> HIDE DEF V
  <2>1. LinesOf(h, n) = <<>>
    BY <1>4 DEF LinesOf
  <2>2. QED
    BY <2>1
<1>5. \A i \in 1..m : s[i] = Under(names[i])
  BY <1>1
<1>6. DOMAIN s = 1..m
  BY <1>1
<1> HIDE DEF Under, V
<1>7. s \in [1..m -> Seq(V)]
  BY <1>3, <1>4, <1>5, <1>6
<1> HIDE DEF s
<1>8. ASSUME NEW i \in 1..m, NEW q \in 1..Len(s[i]) PROVE s[i][q][1] = names[i]
  BY <1>3, <1>4, <1>5
<1> DEFINE f == FlattenSeq(s)
<1>9. f \in Seq(V) /\ InBlocks(f, s, names, m)
  <2>1. OnceEach(names, m) /\ Tagged(s, names, m)
    BY <1>1, <1>8 DEF OnceEach, Tagged
  <2>2. QED
    BY <1>1, <1>7, <2>1, BlocksArePlaced DEF f
<1> HIDE DEF f
<1>10. ASSUME NEW n \in DOMAIN h
       PROVE  \E k \in 0..(Len(f) - Len(h[n])) :
                /\ \A i \in 1..Len(h[n]) : f[k + i] = <<n, h[n][i]>>
                /\ \A i \in 1..Len(f) : f[i][1] = n => i \in k + 1..k + Len(h[n])
  <2>1. PICK i \in 1..m : names[i] = n
    BY <1>1
  <2>2. Placed(f, Under(n), n)
    BY <1>5, <1>9, <2>1 DEF InBlocks
  <2>3. Len(Under(n)) = Len(h[n]) /\ \A j \in 1..Len(h[n]) : Under(n)[j] = <<n, h[n][j]>>
    BY <1>3
  <2>4. QED
    BY <2>2, <2>3 DEF Placed
<1>11. ASSUME NEW p \in 1..Len(f) PROVE f[p][1] \in DOMAIN h
  <2>1. PICK i \in 1..m : Len(s[i]) # 0 /\ f[p][1] = names[i]
    BY <1>9 DEF InBlocks
  <2>2. names[i] \in DOMAIN h
    BY <1>4, <1>5, <2>1
  <2>3. QED
    BY <2>1, <2>2
<1>12. QED
  <2>1. Len(f) \in Nat
    BY <1>9
  <2>2. f = Lines(h)
    BY <1>2 DEF f
  <2>3. QED
    BY <1>10, <1>11, <2>1, <2>2

(* What leaves is a finite header map, however it was finalized.                 *)
LEMMA HeaderIsFinite ==
  ASSUME HeaderInv, leg = "sent"
  PROVE  IsFiniteSet(DOMAIN header) /\ \A n \in DOMAIN header : header[n] \in Seq(Range(header[n]))
<1> DEFINE Good(h) == IsFiniteSet(DOMAIN h) /\ \A n \in DOMAIN h : h[n] \in Seq(Range(h[n]))
           base == IF call.browser THEN Impersonated(Stripped) ELSE Stripped
<1>1. header = Finalized(base) /\ original \in {None, call.headers}
  BY DEF HeaderInv
<1>2. Good(call.headers)
  BY CallsHaveHeaders DEF HeaderInv
<1>3. IsFiniteSet(Owned)
  <2>1. IsFiniteSet({AE})
    BY FS_Singleton
  <2>2. Owned = {AE} \cup {"user-agent"}
    BY DEF Owned
  <2>3. QED
    BY <2>1, <2>2, FS_AddElement
<1>4. Good(Stripped)
  <2>1. DOMAIN Stripped \subseteq DOMAIN call.headers /\ \A n \in DOMAIN Stripped : Stripped[n] = call.headers[n]
    BY DEF Stripped, Without
  <2>2. QED
    BY <1>2, <2>1, FS_Subset
<1>5. Good(Impersonated(Stripped))
  <2> DEFINE h == Impersonated(Stripped)
  <2>1. /\ DOMAIN h = DOMAIN Stripped \cup Owned
        /\ \A n \in DOMAIN h : h[n] = IF n \in Owned THEN <<ProfileLine(n)>> ELSE Stripped[n]
    BY DEF Impersonated
  <2> HIDE DEF h
  <2>2. IsFiniteSet(DOMAIN h)
    BY <1>3, <1>4, <2>1, FS_Union
  <2>3. ASSUME NEW n \in DOMAIN h PROVE h[n] \in Seq(Range(h[n]))
    <3>1. CASE n \in Owned
      <4> DEFINE x == ProfileLine(n)
      <4>1. h[n] = <<x>>
        BY <2>1, <3>1
      <4> HIDE DEF x
      <4>2. <<x>> \in Seq(Range(<<x>>))
        BY DEF Range
      <4>3. QED
        BY <4>1, <4>2
    <3>2. CASE n \notin Owned
      BY <1>4, <2>1, <3>2
    <3>3. QED
      BY <3>1, <3>2
  <2>4. QED
    BY <2>2, <2>3 DEF h
<1>6. Good(base)
  BY <1>4, <1>5
<1> HIDE DEF base
<1>7. CASE original = None
  BY <1>1, <1>6, <1>7 DEF Finalized
<1>8. CASE original = call.headers /\ original # None
  <2>1. DOMAIN header \subseteq DOMAIN base \cup DOMAIN original
    BY <1>1, <1>8 DEF Finalized
  <2>2. \A n \in DOMAIN header : \/ n \in DOMAIN base /\ header[n] = base[n]
                                 \/ n \in DOMAIN original /\ header[n] = original[n]
    BY <1>1, <1>8 DEF Finalized
  <2>3. IsFiniteSet(DOMAIN base \cup DOMAIN original)
    BY <1>2, <1>6, <1>8, FS_Union
  <2>4. IsFiniteSet(DOMAIN header)
    BY <2>1, <2>3, FS_Subset
  <2>5. ASSUME NEW n \in DOMAIN header PROVE header[n] \in Seq(Range(header[n]))
    BY <1>2, <1>6, <1>8, <2>2
  <2>6. QED
    BY <2>4, <2>5
<1>9. QED
  BY <1>1, <1>7, <1>8

LoggedInv == leg = "sent" => logged = Lines(header)

(* What the client asked to keep, and what the profile does not own, leaves as   *)
(* it came, for any headers and any list of names to keep; and the debug log has *)
(* each line that leaves, once and under its own name, and no other.             *)
THEOREM HeadersAllArrive == ExchangeSpec => []HeadersArrive
<1>1. ExchangeInit => LoggedInv
  BY DEF ExchangeInit, LoggedInv
<1>2. ASSUME HeaderInv, LoggedInv, [ExchangeNext]_exchangeVars PROVE LoggedInv'
  <2>1. CASE Prepare
    BY <2>1 DEF Prepare, LoggedInv
  <2>2. CASE SendHeaders
    BY <2>2 DEF SendHeaders, LoggedInv
  <2>3. CASE SendBody \/ Answer \/ Deliver \/ UNCHANGED exchangeVars
    <3>1. UNCHANGED <<header, logged, leg>>
      BY <2>3 DEF SendBody, Answer, Deliver, exchangeVars, headerVars
    <3>2. QED
      BY <1>2, <3>1 DEF LoggedInv
  <2>4. QED
    BY <1>2, <2>1, <2>2, <2>3 DEF ExchangeNext
<1>3. ASSUME HeaderInv, LoggedInv PROVE HeadersArrive
  <2>1. LinesArrive
    BY <1>3, HeadersKept DEF LinesArrive
  <2>2. ASSUME leg = "sent"
        PROVE  /\ \A n \in DOMAIN header : ShownOnce(header[n], n)
               /\ \A i \in 1..Len(logged) : logged[i][1] \in DOMAIN header
    <3>1. logged = Lines(header)
      BY <1>3, <2>2 DEF LoggedInv
    <3>2. IsFiniteSet(DOMAIN header) /\ \A n \in DOMAIN header : header[n] \in Seq(Range(header[n]))
      BY <1>3, <2>2, HeaderIsFinite
    <3>3. QED
      BY <3>1, <3>2, LinesAre DEF ShownOnce
  <2>3. QED
    BY <2>1, <2>2 DEF HeadersArrive
<1>4. QED
  BY <1>1, <1>2, <1>3, HeaderInvariant, PTL DEF ExchangeSpec

--------------------------------------------------------------------------------
(* The response: how its headers, its decoder and what the client reads of it    *)
(* follow from what the origin sent, the mode and the client's offers.           *)
Tried == sent.status # 101 /\ ~Keeps(sent) /\ ~Untouched(sent)

Negotiated ==
    /\ Tried /\ Decodable(sent) => decoder = sent.label /\ label = None /\ length = None
    /\ ~(Tried /\ Decodable(sent)) => decoder = None /\ label = sent.label /\ length = "as sent"
    /\ lost => Tried /\ Begins(sent.label, sent.body) /\ ~Opens(sent.label, sent.body)

Given ==
    /\ decoder # None => got \in {"decoded", "broken off"}
    /\ decoder = None => got = IF lost THEN "beheaded" ELSE "as sent"

AnswerInv ==
    /\ stage \in {"awaited", "headers", "body", "closed"} /\ lost \in BOOLEAN
    /\ stage = "awaited" => length = "as sent" /\ decoder = None /\ ~lost /\ got = None
    /\ stage # "awaited" => sent \in Responses /\ Sendable(sent)
    /\ stage = "headers" => label = sent.label /\ length = "as sent" /\ decoder = None /\ ~lost /\ got = None
    /\ stage \in {"body", "closed"} => Negotiated
    /\ got # None => stage \in {"body", "closed"} /\ Given

LEMMA AnswerInvStep == ASSUME HeaderInv, AnswerInv, [ExchangeNext]_exchangeVars PROVE AnswerInv'
<1>1. CASE Answer
  <2>1. PICK r \in Answers(call) : Arrive(r)
    BY <1>1 DEF Answer
  <2>2. r \in Responses /\ Sendable(r)
    BY AnswersAreSendable DEF HeaderInv
  <2>3. stage = "awaited" /\ stage' = "headers" /\ sent' = r /\ label' = r.label /\ UNCHANGED <<length, decoder, lost, got>>
    BY <2>1 DEF Arrive
  <2>4. Sendable(sent)'
    BY <2>2, <2>3 DEF Sendable, Bodiless
  <2>5. QED
    BY <2>2, <2>3, <2>4 DEF AnswerInv
<1>2. CASE Negotiate /\ UNCHANGED <<headerVars, bodyVars>>
  <2>1. /\ stage = "headers" /\ stage' = "body" /\ UNCHANGED <<mode, accept, sent, got>> /\ got = None
        /\ sent \in Responses /\ Sendable(sent)
    BY <1>2 DEF Negotiate, AnswerInv
  <2>2. Tried' = Tried /\ Decodable(sent)' = Decodable(sent) /\ Sendable(sent)' = Sendable(sent)
    BY <2>1 DEF Tried, Keeps, AcceptEncodings, Untouched, Decodable, Begins, Opens, Sendable, Bodiless
  <2>3. Begins(sent.label, sent.body)' = Begins(sent.label, sent.body) /\ Opens(sent.label, sent.body)' = Opens(sent.label, sent.body)
    BY <2>1 DEF Begins, Opens
  <2>4. /\ Tried /\ Decodable(sent) => decoder' = sent.label /\ label' = None /\ length' = None
        /\ ~(Tried /\ Decodable(sent)) => decoder' = None /\ label' = label /\ length' = length
        /\ lost' = (Tried /\ Begins(sent.label, sent.body) /\ ~Opens(sent.label, sent.body))
    BY <1>2, Zenon DEF Negotiate, Tried
  <2>5. label = sent.label /\ length = "as sent" /\ sent' = sent
    BY <2>1 DEF AnswerInv
  <2>6. Negotiated' /\ lost' \in BOOLEAN
    BY <2>2, <2>3, <2>4, <2>5, Zenon DEF Negotiated
  <2>7. QED
    BY <2>1, <2>2, <2>6 DEF AnswerInv
<1> DEFINE Same == /\ UNCHANGED <<mode, accept, sent, label, length, decoder, lost>>
                   /\ Negotiated' = Negotiated /\ Sendable(sent)' = Sendable(sent)
<1>3. ASSUME UNCHANGED <<mode, accept, sent, label, length, decoder, lost>> PROVE Same
  <2>1. Tried' = Tried /\ Decodable(sent)' = Decodable(sent) /\ Sendable(sent)' = Sendable(sent)
    BY <1>3 DEF Tried, Keeps, AcceptEncodings, Untouched, Decodable, Begins, Opens, Sendable, Bodiless
  <2>2. Begins(sent.label, sent.body)' = Begins(sent.label, sent.body) /\ Opens(sent.label, sent.body)' = Opens(sent.label, sent.body)
    BY <1>3 DEF Begins, Opens
  <2>3. QED
    BY <1>3, <2>1, <2>2, Zenon DEF Negotiated
<1>4. CASE Read /\ UNCHANGED <<headerVars, bodyVars>>
  <2>1. stage = "body" /\ stage' = "body" /\ got = None /\ Same
    BY <1>3, <1>4 DEF Read
  <2>2. Given'
    BY <1>4, Zenon DEF Read, Given
  <2>3. QED
    BY <2>1, <2>2 DEF AnswerInv
<1>5. CASE Close /\ UNCHANGED <<headerVars, bodyVars>>
  <2>1. stage = "body" /\ stage' = "closed" /\ got' = got /\ Same
    BY <1>3, <1>5 DEF Close
  <2>2. Given' = Given
    BY <2>1 DEF Given
  <2>3. QED
    BY <2>1, <2>2 DEF AnswerInv
<1>6. CASE Prepare
  <2>1. stage = "awaited" /\ UNCHANGED <<stage, length, decoder, lost, got>>
    BY <1>6 DEF Prepare, HeaderInv
  <2>2. QED
    BY <2>1 DEF AnswerInv
<1>7. CASE SendHeaders \/ SendBody \/ UNCHANGED exchangeVars
  <2>1. stage' = stage /\ got' = got /\ Same
    BY <1>3, <1>7 DEF SendHeaders, SendBody, exchangeVars, vars
  <2>2. Given' = Given
    BY <2>1 DEF Given
  <2>3. QED
    BY <2>1, <2>2 DEF AnswerInv
<1>8. QED
  BY <1>1, <1>2, <1>4, <1>5, <1>6, <1>7 DEF ExchangeNext, Deliver

LEMMA AnswerInvariant == ExchangeSpec => []AnswerInv
<1>1. ExchangeInit => AnswerInv
  BY DEF ExchangeInit, AnswerInv
<1>2. HeaderInv /\ AnswerInv /\ [ExchangeNext]_exchangeVars => AnswerInv'
  BY AnswerInvStep
<1>3. QED
  BY <1>1, <1>2, HeaderInvariant, PTL DEF ExchangeSpec

(* TIP decodes only what has a coding; bytes are lost only to a header refused.  *)
LEMMA TriedHasLabel == Tried => sent.label # None
BY DEF Tried, Keeps

LEMMA LostIsUnopenable == ASSUME AnswerInv, stage \in {"body", "closed"}, lost PROVE Tried /\ sent.body = "unopenable"
<1>1. Negotiated
  BY DEF AnswerInv
<1>2. Tried /\ ~Opens(sent.label, sent.body)
  BY <1>1, Zenon DEF Negotiated
<1>3. QED
  BY <1>2 DEF Opens

LEMMA SentIsAnswer == ASSUME AnswerInv, stage # "awaited" PROVE sent.body \in Bodies
BY DEF AnswerInv, Responses

(* Under the origin's label the client reads the origin's bytes, and without it  *)
(* the decoded ones or a copy that breaks off, if no body begins like its coding *)
(* with a header that is then refused.                                           *)
THEOREM BodiesFitLabels == ASSUME "unopenable" \notin Bodies PROVE ExchangeSpec => []BodyFitsLabel
<1>1. AnswerInv => BodyFitsLabel
  <2> SUFFICES ASSUME AnswerInv, got # None
               PROVE  /\ label = sent.label => got = "as sent"
                      /\ label # sent.label => got \in {"decoded", "broken off"} /\ length = None
    BY DEF BodyFitsLabel
  <2>1. stage \in {"body", "closed"} /\ stage # "awaited" /\ Given /\ Negotiated
    BY DEF AnswerInv
  <2>2. ~lost
    BY <2>1, LostIsUnopenable, SentIsAnswer
  <2>3. CASE Tried /\ Decodable(sent)
    BY <2>1, <2>3, TriedHasLabel DEF Negotiated, Given
  <2>4. CASE ~(Tried /\ Decodable(sent))
    BY <2>1, <2>2, <2>4 DEF Negotiated, Given
  <2>5. QED
    BY <2>3, <2>4
<1>2. QED
  BY <1>1, AnswerInvariant, PTL

(* What the mode or the client's offers keep is not touched.                     *)
LEMMA KeptIsAsSent ==
  ASSUME AnswerInv, stage \in {"body", "closed"}, Keeps(sent)
  PROVE  label = sent.label /\ length = "as sent" /\ decoder = None /\ ~lost
BY DEF AnswerInv, Negotiated, Tried

LEMMA OfferKeeps ==
  ASSUME mode = "passthrough"
           \/ (mode = "negotiate" /\ \E i \in DOMAIN accept : accept[i].coding \in {sent.label, "*"})
  PROVE  Keeps(sent)
BY Zenon DEF Keeps, AcceptEncodings

(* Whoever can read what the origin sent gets it as it was sent, for any list of *)
(* offers, weighted or not, and in passthrough whatever was offered.             *)
THEOREM OffersAreKept == ExchangeSpec => []OfferedIsKept
<1>1. AnswerInv => OfferedIsKept
  BY KeptIsAsSent, OfferKeeps DEF OfferedIsKept
<1>2. QED
  BY <1>1, AnswerInvariant, PTL

(* A coding that a client did not offer does not reach it, if clients refuse no  *)
(* coding by a weight of zero.                                                   *)
THEOREM UnofferedAreDecoded ==
  ASSUME \A c \in Calls : \A i \in DOMAIN FlattenSeq(LinesOf(c.headers, AE)) :
             FlattenSeq(LinesOf(c.headers, AE))[i].weight > 0
  PROVE  ExchangeSpec => []UnofferedIsDecoded
<1>1. ASSUME HeaderInv, AnswerInv, got = "as sent", mode = "negotiate", sent.status = 200, sent.body = "whole", label \in Codings
      PROVE  \E i \in DOMAIN accept : accept[i].coding \in {label, "*"} /\ accept[i].weight > 0
  <2>1. stage \in {"body", "closed"} /\ Given /\ Negotiated /\ sent \in Responses /\ Sendable(sent)
    BY <1>1, NoneIsNothing DEF AnswerInv
  <2>2. ~(Tried /\ Decodable(sent)) /\ label = sent.label /\ decoder = None
    BY <1>1, <2>1, NoneIsNothing DEF Given, Negotiated
  <2>3. Decodable(sent)
    BY <1>1, <2>2 DEF Decodable, Begins, Opens
  <2>4. ~Untouched(sent) /\ sent.status # 101
    <3>1. Untouched(sent) => Bodiless(sent)
      BY Zenon DEF Untouched, Bodiless
    <3>2. ~Bodiless(sent)
      BY <1>1, <2>1, Zenon DEF Sendable
    <3>3. sent.status # 101
      <4>1. 200 # 101
        OBVIOUS
      <4>2. QED
        BY <1>1, <4>1, Zenon
    <3>4. QED
      BY <3>1, <3>2, <3>3, Zenon
  <2>5. Keeps(sent)
    BY <2>2, <2>3, <2>4, Zenon DEF Tried
  <2>6. {label, "*"} \cap AcceptEncodings(accept) # {}
    BY <1>1, <2>2, <2>5, NoneIsNothing DEF Keeps, Codings
  <2>7. PICK i \in DOMAIN accept : accept[i].coding \in {label, "*"}
    BY <2>6 DEF AcceptEncodings
  <2>8. accept = FlattenSeq(LinesOf(call.headers, AE)) /\ call \in Calls
    BY <1>1, <2>1 DEF HeaderInv
  <2>9. accept[i].weight > 0
    BY <2>7, <2>8
  <2>10. QED
    BY <2>7, <2>9
<1>2. HeaderInv /\ AnswerInv => UnofferedIsDecoded
  BY <1>1 DEF UnofferedIsDecoded
<1>3. QED
  BY <1>2, HeaderInvariant, AnswerInvariant, PTL

(* X-Tip-Keep: Accept-Encoding brings the origin's bytes, length and label from  *)
(* any origin that answers to the offers it was sent.                            *)
THEOREM KeepBringsBytes == ExchangeSpec => []KeepGetsBytes
<1>1. ASSUME HeaderInv, AnswerInv, got # None, AE \in Range(call.keep), AE \in DOMAIN call.headers,
             mode # "decode", mode \in Modes, Honest
      PROVE  got = "as sent" /\ label = sent.label /\ length = "as sent"
  <2>1. stage \in {"body", "closed"} /\ Given /\ leg = "sent"
    BY <1>1 DEF AnswerInv, HeaderInv
  <2>2. accept = FlattenSeq(call.headers[AE])
    BY <1>1, <2>1 DEF HeaderInv, LinesOf
  <2>3. header[AE] = call.headers[AE]
    BY <1>1, <2>1, HeadersKept
  <2>4. Keeps(sent)
    <3>1. CASE sent.label \in {None, "identity"}
      BY <3>1 DEF Keeps
    <3>2. CASE Asks(header[AE], sent.label)
      BY <1>1, <2>2, <2>3, <3>2, OfferKeeps DEF Asks, Modes
    <3>3. CASE AE \notin DOMAIN header
      BY <1>1, <2>1, <3>3, HeadersKept
    <3>4. QED
      BY <1>1, <3>1, <3>2, <3>3 DEF Honest
  <2>5. QED
    BY <1>1, <2>1, <2>4, KeptIsAsSent DEF Given
<1>2. HeaderInv /\ AnswerInv /\ mode \in Modes => KeepGetsBytes
  BY <1>1 DEF KeepGetsBytes
<1>3. ExchangeSpec => [](mode \in Modes)
  <2>1. ExchangeInit => mode \in Modes
    BY DEF ExchangeInit
  <2>2. [ExchangeNext]_exchangeVars => mode' = mode
    BY DEF ExchangeNext, Prepare, SendHeaders, SendBody, Answer, Arrive, Deliver, Negotiate, Read, Close, exchangeVars, vars
  <2>3. mode \in Modes /\ [ExchangeNext]_exchangeVars => (mode \in Modes)'
    BY <2>2
  <2>4. QED
    BY <2>1, <2>3, PTL DEF ExchangeSpec
<1>4. QED
  BY <1>2, <1>3, HeaderInvariant, AnswerInvariant, PTL
================================================================================
