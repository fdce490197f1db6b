----------------------------- MODULE RoutesProofs -----------------------------
(* Proofs about Routes and what OnRequest counts: the walk of the matcher finds  *)
(* the first route that covers a request, and the values fit the labels.         *)
EXTENDS OnRequestProofs, FiniteSetTheorems, SequenceTheorems

\* The routes, hosts and paths that RoutesAreWritten speaks of.
Host == Seq(STRING)
Path == Seq(Seq(STRING))
Patterns == [prefix : Seq(STRING), param : STRING]
Route == [name : STRING, host : Host \ {<<>>}, capture : SUBSET STRING, path : Seq(Patterns)]

LEMMA SmallestIs == ASSUME NEW S \in SUBSET Nat, S # {} PROVE Min(S) \in S /\ \A n \in S : Min(S) <= n
<1> DEFINE R == OpToRel(<, Nat)
<1>1. IsWellFoundedOn(R, Nat)
  BY NatLessThanWellFounded
<1>2. \A x, y \in Nat : <<x, y>> \in R <=> x < y
  BY DEF OpToRel
<1> HIDE DEF R
<1>3. PICK x \in S : \A y \in S : <<y, x>> \notin R
  BY <1>1, WFMin
<1>4. \A y \in S : ~(y < x)
  BY <1>2, <1>3
<1>5. \A y \in S : x <= y
  BY <1>4
<1>6. QED
  BY <1>5 DEF Min

LEMMA LargestIs ==
  ASSUME NEW n \in Nat, NEW S \in SUBSET (1..n), S # {}
  PROVE  Max(S) \in S /\ \A k \in S : k <= Max(S)
<1> DEFINE T == {k \in 0..n : n - k \in S}
<1>1. \A k \in S : n - k \in 0..n /\ n - (n - k) = k
  OBVIOUS
<1>2. \A k \in S : n - k \in T
  BY <1>1
<1>3. T \in SUBSET Nat /\ \A k \in T : n - k \in S
  OBVIOUS
<1> HIDE DEF T
<1>4. T # {}
  BY <1>2
<1>5. Min(T) \in T /\ \A k \in T : Min(T) <= k
  BY <1>3, <1>4, SmallestIs
<1>6. n - Min(T) \in S /\ \A k \in S : n - Min(T) >= k
  <2>1. Min(T) \in Nat
    BY <1>3, <1>5
  <2>2. \A k \in S : Min(T) <= n - k
    BY <1>2, <1>5
  <2>3. QED
    BY <1>3, <1>5, <2>1, <2>2
<1>7. \E x \in S : \A y \in S : x >= y
  BY <1>6
<1>8. Max(S) \in S /\ \A y \in S : Max(S) >= y
  BY <1>7 DEF Max
<1>9. QED
  BY <1>8

--------------------------------------------------------------------------------
(* The hosts and the paths that a route covers are those it matches.             *)
LEMMA SuffixIs ==
  ASSUME NEW S, NEW s \in Seq(S), NEW t \in Seq(S), s # <<>>
  PROVE  IsStrictSuffix(s, t) <=> \E k \in 1..(Len(t) - 1) : SubSeq(t, k + 1, Len(t)) = s
<1> DEFINE m == Len(s)
           n == Len(t)
           Ends == m <= n /\ \A i \in 1..m : s[m - i + 1] = t[n - i + 1]
<1>1. m \in Nat /\ n \in Nat /\ m > 0 /\ Len(s) = m /\ Len(t) = n
  BY EmptySeq
<1> HIDE DEF m, n
<1>2. IsSuffix(s, t) <=> Ends
  <2> DEFINE a == Reverse(s)
             b == Reverse(t)
  <2>1. /\ a \in Seq(S) /\ Len(a) = m /\ \A i \in 1..m : a[i] = s[m - i + 1]
        /\ b \in Seq(S) /\ Len(b) = n /\ \A i \in 1..n : b[i] = t[n - i + 1]
    BY <1>1 DEF Reverse
  <2> HIDE DEF a, b
  <2>2. ASSUME m <= n
        PROVE  SubSeq(a, 1, m) = SubSeq(b, 1, m) <=> \A i \in 1..m : a[i] = b[i]
    <3>1. /\ SubSeq(a, 1, m) \in Seq(S) /\ Len(SubSeq(a, 1, m)) = m
          /\ \A i \in 1..m : SubSeq(a, 1, m)[i] = a[i]
      BY <1>1, <2>1
    <3>2. /\ SubSeq(b, 1, m) \in Seq(S) /\ Len(SubSeq(b, 1, m)) = m
          /\ \A i \in 1..m : SubSeq(b, 1, m)[i] = b[i]
      BY <1>1, <2>1, <2>2
    <3>3. QED
      BY <3>1, <3>2, SeqEqual
  <2> DEFINE Same == \A i \in 1..m : a[i] = b[i]
  <2>3. IsPrefix(a, b) <=> (m <= n /\ Same)
    <3>1. m <= n => (SubSeq(a, 1, m) = SubSeq(b, 1, m) <=> Same)
      BY <2>2
    <3>2. Len(a) = m /\ Len(b) = n
      BY <2>1
    <3> HIDE DEF Same
    <3>3. QED
      BY <3>1, <3>2, Zenon DEF IsPrefix
  <2>4. QED
    BY <1>1, <2>1, <2>3 DEF IsSuffix, a, b
<1>3. ASSUME Ends, s # t PROVE \E k \in 1..(n - 1) : SubSeq(t, k + 1, n) = s
  <2> DEFINE k == n - m
             u == SubSeq(t, k + 1, n)
  <2>1. \A j \in 1..m : s[j] = t[k + j]
    <3> SUFFICES ASSUME NEW j \in 1..m PROVE s[j] = t[k + j]
      OBVIOUS
    <3>1. m - j + 1 \in 1..m /\ m - (m - j + 1) + 1 = j /\ n - (m - j + 1) + 1 = k + j
      BY <1>1, <1>3
    <3>2. QED
      BY <1>3, <3>1
  <2>2. k \in 0..(n - 1)
    BY <1>1, <1>3
  <2>3. u \in Seq(S) /\ Len(u) = m /\ \A j \in 1..m : u[j] = t[k + j]
    BY <1>1, <2>2
  <2> HIDE DEF u
  <2>4. u = s
    BY <1>1, <2>1, <2>3, SeqEqual
  <2>5. k # 0
    <3> SUFFICES ASSUME k = 0 PROVE FALSE
      OBVIOUS
    <3>1. u = t
      BY <1>1, SubSeqFull DEF u
    <3>2. QED
      BY <1>3, <2>4, <3>1
  <2>6. QED
    BY <2>2, <2>4, <2>5 DEF u
<1>4. ASSUME NEW k \in 1..(n - 1), SubSeq(t, k + 1, n) = s PROVE Ends /\ s # t
  <2>1. \A i \in (k + 1)..n : t[i] \in S
    BY <1>1, ElementOfSeq
  <2>2. m = n - k /\ \A j \in 1..m : s[j] = t[k + j]
    BY <1>1, <1>4, <2>1, SubSeqProperties
  <2>3. \A i \in 1..m : m - i + 1 \in 1..m /\ k + (m - i + 1) = n - i + 1
    BY <1>1, <2>2
  <2>4. QED
    BY <1>1, <2>2, <2>3
<1>5. QED
  BY <1>1, <1>2, <1>3, <1>4 DEF IsStrictSuffix

LEMMA PrefixIs ==
  ASSUME NEW S, NEW s \in Seq(S), NEW t \in Seq(S)
  PROVE  IsStrictPrefix(s, t) <=> \E k \in 0..(Len(t) - 1) : SubSeq(t, 1, k) = s
<1> DEFINE m == Len(s)
           n == Len(t)
<1>1. m \in Nat /\ n \in Nat /\ Len(s) = m /\ Len(t) = n /\ SubSeq(s, 1, m) = s /\ SubSeq(t, 1, n) = t
  BY SubSeqFull
<1> HIDE DEF m, n
<1>2. \A k \in 0..n : Len(SubSeq(t, 1, k)) = k
  BY <1>1
<1>3. ASSUME IsStrictPrefix(s, t) PROVE \E k \in 0..(n - 1) : SubSeq(t, 1, k) = s
  <2>1. m <= n /\ SubSeq(t, 1, m) = s /\ s # t
    BY <1>1, <1>3 DEF IsStrictPrefix, IsPrefix
  <2>2. m # n
    BY <1>1, <2>1
  <2>3. m \in 0..(n - 1)
    BY <1>1, <2>1, <2>2
  <2>4. QED
    BY <2>1, <2>3
<1>4. ASSUME NEW k \in 0..(n - 1), SubSeq(t, 1, k) = s PROVE IsStrictPrefix(s, t)
  <2>1. k = m
    BY <1>1, <1>2, <1>4
  <2>2. QED
    BY <1>1, <1>4, <2>1 DEF IsStrictPrefix, IsPrefix
<1>5. QED
  BY <1>1, <1>3, <1>4

LEMMA NoneLong == ASSUME NEW S, NEW s \in Seq(S) PROVE Len(s) = 0 <=> s = <<>>
BY EmptySeq

LEMMA HostMatches ==
  ASSUME NEW p \in Host \ {<<>>}, NEW h \in Host
  PROVE  MatchHost(p, h) <=> \/ p = h
                             \/ p[1] = "*" /\ \E k \in 1..(Len(h) - 1) : SubSeq(h, k + 1, Len(h)) = Tail(p)
<1> DEFINE n == Len(h)
<1>1. n \in Nat /\ Len(h) = n /\ Len(p) \in Nat /\ Len(p) > 0 /\ Tail(p) \in Host /\ Len(Tail(p)) = Len(p) - 1
  BY EmptySeq, HeadTailProperties DEF Host
<1> HIDE DEF n
<1>2. CASE Len(p) > 1 /\ p[1] = "*"
  <2>1. Tail(p) # <<>>
    BY <1>1, <1>2
  <2>2. IsStrictSuffix(Tail(p), h) <=> \E k \in 1..(n - 1) : SubSeq(h, k + 1, n) = Tail(p)
    BY <1>1, <2>1, SuffixIs DEF Host
  <2>3. p = h => SubSeq(h, 2, n) = Tail(p) /\ 1 \in 1..(n - 1) /\ 1 + 1 = 2
    BY <1>1, <1>2, TailIsSubSeq DEF Host
  <2>4. QED
    BY <1>1, <1>2, <2>2, <2>3 DEF MatchHost
<1>3. CASE p[1] # "*"
  BY <1>3 DEF MatchHost
<1>4. CASE Len(p) = 1
  <2> DEFINE t == Tail(p)
  <2>0. t \in Host /\ Len(t) = 0
    BY <1>1, <1>4
  <2> HIDE DEF t
  <2>1. t = <<>>
    BY <2>0, NoneLong DEF Host
  <2>2. ASSUME NEW k \in 1..(n - 1) PROVE SubSeq(h, k + 1, n) # t
    <3>1. \A i \in (k + 1)..n : h[i] \in STRING
      BY <1>1, ElementOfSeq DEF Host
    <3>2. Len(SubSeq(h, k + 1, n)) = n - k /\ n - k > 0
      BY <1>1, <3>1, SubSeqProperties
    <3>3. Len(SubSeq(h, k + 1, n)) # Len(t)
      BY <1>1, <2>0, <3>2
    <3>4. QED
      BY <3>3
  <2>3. QED
    BY <1>1, <1>4, <2>2 DEF MatchHost, t
<1>5. QED
  BY <1>1, <1>2, <1>3, <1>4

\* What a pattern that is no star covers.
Fitted(p, segment) ==
    /\ segment # <<>>
    /\ IF p.param = "" THEN segment = p.prefix
       ELSE \E k \in 0..(Len(segment) - 1) : SubSeq(segment, 1, k) = p.prefix

LEMMA FitsIs == ASSUME NEW p \in Patterns, NEW segment \in Seq(STRING) PROVE Fits(p, segment) <=> Fitted(p, segment)
<1>1. p.prefix \in Seq(STRING)
  BY DEF Patterns
<1>2. IsStrictPrefix(p.prefix, segment) <=> \E k \in 0..(Len(segment) - 1) : SubSeq(segment, 1, k) = p.prefix
  BY <1>1, PrefixIs
<1>3. QED
  BY <1>2 DEF Fits, Fitted, Nothing

LEMMA PathMatches ==
  ASSUME NEW r \in Route, \A j \in DOMAIN r.path : r.path[j] = Star => j = Len(r.path), NEW segments \in Path
  PROVE  LET rest == r.path # <<>> /\ r.path[Len(r.path)] = Star
             n    == IF rest THEN Len(r.path) - 1 ELSE Len(r.path)
         IN  MatchPath(r, segments) <=> /\ IF rest THEN Len(segments) >= n ELSE Len(segments) = n
                                        /\ \A i \in 1..n : Fitted(r.path[i], segments[i])
<1> DEFINE len  == Len(r.path)
           size == Len(segments)
           rest == r.path # <<>> /\ r.path[len] = Star
           n    == IF rest THEN len - 1 ELSE len
           V    == [j \in DOMAIN r.path |-> Verdict(r, segments, j)]
           I    == {j \in 1..Len(V) : V[j] # "on"}
<1>1. /\ len \in Nat /\ size \in Nat /\ Len(r.path) = len /\ Len(segments) = size
      /\ DOMAIN r.path = 1..len /\ \A j \in 1..len : r.path[j] \in Patterns
      /\ \A j \in 1..size : segments[j] \in Seq(STRING)
      /\ r.path # <<>> => len > 0
  BY EmptySeq DEF Route, Path
<1>2. Len(V) = len
  BY <1>1
<1>3. \A j \in 1..len : V[j] = Verdict(r, segments, j)
  BY <1>1
<1> HIDE DEF len, size, V
<1>4. \A j \in 1..len : /\ V[j] = "yes" <=> r.path[j] = Star
                        /\ V[j] = "on" <=> r.path[j] # Star /\ j <= size /\ Fitted(r.path[j], segments[j])
  <2> SUFFICES ASSUME NEW j \in 1..len
               PROVE  /\ V[j] = "yes" <=> r.path[j] = Star
                      /\ V[j] = "on" <=> r.path[j] # Star /\ j <= size /\ Fitted(r.path[j], segments[j])
    OBVIOUS
  <2>1. V[j] = IF r.path[j] = Star THEN "yes"
               ELSE IF j > size \/ ~Fits(r.path[j], segments[j]) THEN "no" ELSE "on"
    BY <1>1, <1>3 DEF Verdict
  <2>2. CASE j > size
    BY <1>1, <2>1, <2>2
  <2>3. CASE j <= size
    <3>1. Fits(r.path[j], segments[j]) <=> Fitted(r.path[j], segments[j])
      BY <1>1, <2>3, FitsIs
    <3>2. ~(j > size)
      BY <1>1, <2>3
    <3>3. QED
      BY <2>1, <2>3, <3>1, <3>2
  <2>4. QED
    BY <1>1, <2>2, <2>3
<1>5. I \in SUBSET Nat /\ I \subseteq 1..len /\ \A j \in 1..len : j \in I <=> V[j] # "on"
  BY <1>1, <1>2
<1>6. MatchPath(r, segments) <=> IF I = {} THEN size = len ELSE V[Min(I)] = "yes"
  <2> DEFINE i == IF I # {} THEN Min(I) ELSE 0
  <2>1. MatchPath(r, segments) <=> IF i = 0 THEN size = len ELSE Verdict(r, segments, i) = "yes"
    BY <1>1 DEF MatchPath, SelectInSeq, V
  <2>2. I # {} => Min(I) \in 1..len /\ V[Min(I)] = Verdict(r, segments, Min(I))
    BY <1>3, <1>5, SmallestIs
  <2> HIDE DEF I
  <2>3. QED
    BY <1>1, <2>1, <2>2
<1>7. I # {} => Min(I) \in I /\ \A j \in I : Min(I) <= j
  BY <1>5, SmallestIs
<1> HIDE DEF I
<1>8. CASE ~rest
  <2>1. \A j \in 1..len : r.path[j] # Star
    BY <1>1, <1>8
  <2>2. I # {} => V[Min(I)] # "yes"
    BY <1>4, <1>5, <1>7, <2>1
  <2>3. I = {} <=> \A j \in 1..len : j <= size /\ Fitted(r.path[j], segments[j])
    BY <1>4, <1>5, <2>1
  <2>4. n = len
    BY <1>8
  <2>5. QED
    BY <1>1, <1>6, <1>8, <2>2, <2>3, <2>4
<1>9. CASE rest
  <2>1. len \in 1..len /\ len \in I /\ V[len] = "yes" /\ n = len - 1
    BY <1>1, <1>4, <1>5, <1>9
  <2>2. \A j \in 1..n : j \in 1..len /\ r.path[j] # Star
    BY <1>1, <2>1
  <2>3. V[Min(I)] = "yes" <=> Min(I) = len
    BY <1>1, <1>4, <1>5, <1>7, <2>1
  <2>4. Min(I) = len <=> \A j \in 1..n : j \notin I
    <3>1. Min(I) \in 1..len
      BY <1>5, <1>7, <2>1
    <3>2. QED
      BY <1>1, <1>5, <1>7, <2>1, <3>1
  <2>5. (\A j \in 1..n : j \notin I) <=> \A j \in 1..n : j <= size /\ Fitted(r.path[j], segments[j])
    BY <1>4, <1>5, <2>2
  <2>6. (\A j \in 1..n : j <= size) <=> size >= n
    BY <1>1, <2>1
  <2>7. I # {}
    BY <2>1
  <2> HIDE DEF n
  <2>8. MatchPath(r, segments) <=> size >= n /\ \A j \in 1..n : Fitted(r.path[j], segments[j])
    BY <1>6, <2>3, <2>4, <2>5, <2>6, <2>7
  <2>9. QED
    BY <1>9, <2>8 DEF n, size, len
<1>10. QED
  BY <1>8, <1>9 DEF n, size, len

LEMMA CoversIs ==
  ASSUME NEW r \in Route, \A j \in DOMAIN r.path : r.path[j] = Star => j = Len(r.path),
         NEW host \in Host, NEW segments \in Path
  PROVE  (MatchHost(r.host, host) /\ MatchPath(r, segments)) <=> Covers(r, host, segments)
<1>1. r.host \in Host \ {<<>>}
  BY DEF Route
<1>2. MatchHost(r.host, host) <=> \/ r.host = host
                                  \/ r.host[1] = "*" /\ \E k \in 1..(Len(host) - 1) :
                                                           SubSeq(host, k + 1, Len(host)) = Tail(r.host)
  BY <1>1, HostMatches
<1>3. QED
  BY <1>2, PathMatches DEF Covers, Fitted

--------------------------------------------------------------------------------
(* The walk, and the captures.                                                   *)
First(routes, host, segments) ==
    {i \in DOMAIN routes : /\ Covers(routes[i], host, segments)
                           /\ \A j \in 1..(i - 1) : ~Covers(routes[j], host, segments)}

LEMMA MatchIs ==
  ASSUME NEW routes \in Seq(Route), NewMatcherOk(routes), NEW host \in Host, NEW segments \in Path
  PROVE  /\ First(routes, host, segments) = {} => Match(routes, host, segments) = NoRoute
         /\ \A i \in First(routes, host, segments) :
              /\ First(routes, host, segments) = {i}
              /\ Match(routes, host, segments) = [name |-> routes[i].name, labels |-> LabelsOf(routes[i], segments)]
<1> DEFINE len == Len(routes)
           I   == {i \in 1..len : MatchHost(routes[i].host, host) /\ MatchPath(routes[i], segments)}
           at  == IF I # {} THEN Min(I) ELSE 0
           C   == {i \in 1..len : Covers(routes[i], host, segments)}
<1>1. len \in Nat /\ Len(routes) = len /\ DOMAIN routes = 1..len /\ \A i \in 1..len : routes[i] \in Route
  OBVIOUS
<1>2. Match(routes, host, segments) =
        IF at = 0 THEN NoRoute ELSE [name |-> routes[at].name, labels |-> LabelsOf(routes[at], segments)]
  BY DEF Match, SelectInSeq
<1> HIDE DEF len
<1>3. I = C
  <2>1. ASSUME NEW i \in 1..len
        PROVE  (MatchHost(routes[i].host, host) /\ MatchPath(routes[i], segments)) <=> Covers(routes[i], host, segments)
    <3>1. routes[i] \in Route /\ \A j \in DOMAIN routes[i].path : routes[i].path[j] = Star => j = Len(routes[i].path)
      BY <1>1, <2>1 DEF NewMatcherOk
    <3>2. QED
      BY <3>1, CoversIs
  <2>2. QED
    BY <2>1
<1> HIDE DEF I
<1>4. C \in SUBSET Nat /\ C \subseteq 1..len
  BY <1>1
<1>5. \A i : i \in First(routes, host, segments) <=> i \in C /\ \A j \in C : i <= j
  <2> SUFFICES ASSUME NEW i
               PROVE i \in First(routes, host, segments) <=> i \in C /\ \A j \in C : i <= j
    OBVIOUS
  <2>1. i \in First(routes, host, segments) <=> i \in C /\ \A j \in 1..(i - 1) : ~Covers(routes[j], host, segments)
    BY <1>1 DEF First
  <2>2. i \in C => ((\A j \in 1..(i - 1) : ~Covers(routes[j], host, segments)) <=> \A j \in C : i <= j)
    BY <1>1
  <2>3. QED
    BY <2>1, <2>2
<1> HIDE DEF C
<1>6. C # {} => Min(C) \in C /\ \A j \in C : Min(C) <= j
  BY <1>4, SmallestIs
<1>7. ASSUME First(routes, host, segments) = {} PROVE Match(routes, host, segments) = NoRoute
  BY <1>2, <1>3, <1>5, <1>6, <1>7
<1>8. ASSUME NEW i \in First(routes, host, segments)
      PROVE  /\ First(routes, host, segments) = {i}
             /\ Match(routes, host, segments) = [name |-> routes[i].name, labels |-> LabelsOf(routes[i], segments)]
  <2>0. i \in C /\ i \in Nat /\ i # 0 /\ \A j \in C : i <= j
    <3>1. i \in C /\ \A j \in C : i <= j
      BY <1>5, <1>8, Zenon
    <3>2. i \in 1..len
      BY <1>4, <3>1
    <3>3. QED
      BY <1>1, <3>1, <3>2
  <2>1. ASSUME NEW j \in First(routes, host, segments) PROVE j = i
    <3>1. j \in C /\ j <= i
      BY <1>5, <2>0, <2>1
    <3>2. j \in Nat /\ i <= j
      BY <1>4, <2>0, <3>1
    <3>3. QED
      BY <2>0, <3>1, <3>2
  <2>2. i = Min(C) /\ C # {}
    <3>1. Min(C) \in C /\ Min(C) <= i
      BY <1>6, <2>0
    <3>2. Min(C) \in Nat /\ i <= Min(C)
      BY <1>4, <2>0, <3>1
    <3>3. QED
      BY <2>0, <3>1, <3>2
  <2>3. QED
    BY <1>2, <1>3, <1>8, <2>0, <2>1, <2>2
<1>9. QED
  BY <1>7, <1>8

LEMMA CapturesAre ==
  ASSUME NEW routes \in Seq(Route), \A i \in DOMAIN routes : IsFiniteSet(routes[i].capture)
  PROVE  Captures(routes) \in Seq(STRING)
<1> DEFINE n == Len(routes)
           T == {routes[i].capture : i \in DOMAIN routes}
           f == [i \in 1..n |-> routes[i].capture]
           S == UNION T
<1>0. n \in Nat /\ DOMAIN routes = 1..n /\ \A i \in 1..n : routes[i] \in Route
  OBVIOUS
<1>1. n \in Nat /\ DOMAIN routes = 1..n /\ \A i \in 1..n : routes[i].capture \subseteq STRING
  <2> HIDE DEF n
  <2>1. \A r \in Route : r.capture \subseteq STRING
    BY DEF Route
  <2>2. QED
    BY <1>0, <2>1
<1> HIDE DEF n
<1>2. IsFiniteSet(T)
  <2>1. IsFiniteSet(1..n)
    BY <1>1, FS_Interval
  <2>2. f \in Surjection(1..n, T)
    BY <1>1 DEF Surjection
  <2>3. QED
    BY <2>1, <2>2, FS_Surjection
<1>3. IsFiniteSet(S)
  <2>1. \A x \in T : IsFiniteSet(x)
    OBVIOUS
  <2> HIDE DEF T
  <2>2. QED
    BY <1>2, <2>1, FS_UNION
<1>4. S \subseteq STRING
  BY <1>1
<1> HIDE DEF T
<1> HIDE DEF S
<1>5. Cardinality(S) \in Nat /\ \E g \in [1..Cardinality(S) -> S] : IsInjective(g)
  BY <1>3, FS_CardinalityType DEF ExistsBijection, Bijection, Injection
<1>6. SetToSeq(S) \in [1..Cardinality(S) -> S]
  BY <1>5 DEF SetToSeq
<1>7. SetToSeq(S) \in Seq(STRING)
  <2> DEFINE k == Cardinality(S)
             q == SetToSeq(S)
  <2>1. k \in Nat /\ q \in [1..k -> S]
    BY <1>5, <1>6
  <2> HIDE DEF k, q
  <2>2. q \in [1..k -> STRING]
    BY <1>4, <2>1
  <2>3. q \in Seq(STRING)
    BY <2>1, <2>2, SeqDef
  <2>4. QED
    BY <2>3 DEF q
<1>8. QED
  BY <1>7 DEF Captures, S, T

LEMMA CapturedIs ==
  ASSUME NEW r \in Route, r.capture \subseteq Params(r), NEW segments, NEW name \in r.capture
  PROVE  LabelsOf(r, segments)[name] = CapturedBy(r, name, segments)
<1> DEFINE n == Len(r.path)
           S == {i \in DOMAIN r.path : r.path[i].param = name}
           Final(j) == j \in DOMAIN r.path /\ r.path[j].param = name /\ \A k \in DOMAIN r.path : r.path[k].param = name => k <= j
<1>1. n \in Nat /\ DOMAIN r.path = 1..n
  BY DEF Route
<1>2. S \in SUBSET (1..n) /\ S # {}
  BY <1>1 DEF Params
<1> HIDE DEF n
<1>3. Max(S) \in S /\ \A k \in S : k <= Max(S)
  BY <1>1, <1>2, LargestIs
<1>4. Final(Max(S))
  BY <1>3
<1>5. ASSUME NEW j, Final(j) PROVE j = Max(S)
  <2>1. j \in S /\ j \in Nat /\ Max(S) \in Nat
    BY <1>1, <1>2, <1>3, <1>5
  <2>2. Max(S) <= j
    BY <1>3, <1>5
  <2>3. j <= Max(S)
    BY <1>3, <2>1
  <2> HIDE DEF S
  <2>4. QED
    BY <2>1, <2>2, <2>3
<1>6. (CHOOSE j \in DOMAIN r.path : r.path[j].param = name /\ \A k \in DOMAIN r.path : r.path[k].param = name => k <= j) = Max(S)
  BY <1>4, <1>5
<1>7. QED
  BY <1>6, Zenon DEF LabelsOf, CapturedBy

IsJoined(s, t, u) ==
    /\ Len(u) = Len(s) + Len(t)
    /\ \A i \in 1..Len(s) : u[i] = s[i]
    /\ \A i \in 1..Len(t) : u[Len(s) + i] = t[i]

LEMMA Joined == ASSUME NEW S, NEW s \in Seq(S), NEW T, NEW t \in Seq(T) PROVE IsJoined(s, t, s \o t)
<1> DEFINE m == Len(s)
           n == Len(t)
<1>1. s \in Seq(S \cup T) /\ t \in Seq(S \cup T) /\ m \in Nat /\ n \in Nat /\ Len(s) = m /\ Len(t) = n
  OBVIOUS
<1> HIDE DEF m, n
<1>2. Len(s \o t) = m + n /\ \A i \in 1..(m + n) : (s \o t)[i] = IF i <= m THEN s[i] ELSE t[i - m]
  BY <1>1, ConcatProperties
<1>3. \A i \in 1..m : i \in 1..(m + n) /\ i <= m
  BY <1>1
<1>4. \A i \in 1..n : m + i \in 1..(m + n) /\ ~(m + i <= m) /\ (m + i) - m = i
  BY <1>1
<1>5. QED
  BY <1>1, <1>2, <1>3, <1>4 DEF IsJoined

Words == {"host", "method", "status", "browser", "route", "direction"}

LEMMA FixedAreWords == \A c \in DOMAIN Fixed : Fixed[c] \in Seq(Words)
<1>1. DOMAIN Fixed = {"requests", "latency", "bandwidth"}
  BY DEF Fixed
<1>2. Fixed["requests"] = <<"host", "method", "status", "browser", "route">>
  BY DEF Fixed
<1>3. Fixed["latency"] = <<"host", "route">>
  BY DEF Fixed
<1>4. Fixed["bandwidth"] = <<"host", "route", "direction">>
  BY DEF Fixed
<1>5. Fixed["requests"] \in Seq(Words)
  BY <1>2 DEF Words
<1>6. Fixed["latency"] \in Seq(Words)
  BY <1>3 DEF Words
<1>7. Fixed["bandwidth"] \in Seq(Words)
  BY <1>4 DEF Words
<1>8. QED
  BY <1>1, <1>5, <1>6, <1>7

(* RequestFinished counts under the first route that covers the request.         *)
Fitting(c, routes, host, path, v) ==
    LET names == Labels(c, routes)
        n     == Len(Fixed[c])
        first == First(routes, host, path)
    IN  /\ Len(v) = Len(names)
        /\ \A k \in 1..n : names[k] = "route" => v[k] = IF first = {} THEN Nothing ELSE routes[CHOOSE i \in first : TRUE].name
        /\ \A k \in n + 1..Len(names) :
             v[k] = IF \E i \in first : names[k] \in routes[i].capture
                    THEN CapturedBy(routes[CHOOSE i \in first : TRUE], names[k], path) ELSE <<>>

LEMMA FinishedFits ==
  ASSUME NEW routes \in Seq(Route), NewMatcherOk(routes), \A i \in DOMAIN routes : IsFiniteSet(routes[i].capture),
         NEW collectors \in SUBSET DOMAIN Fixed, NEW event, event.host \in Host, event.path \in Path,
         NEW c \in collectors, NEW v \in Finished(collectors, routes, event)[c]
  PROVE  Fitting(c, routes, event.host, event.path, v)
<1> DEFINE found    == Match(routes, event.host, event.path)
           first    == First(routes, event.host, event.path)
           caps     == Captures(routes)
           captured == [i \in DOMAIN caps |-> IF caps[i] \in DOMAIN found.labels THEN found.labels[caps[i]] ELSE <<>>]
           Value(name, way) ==
               CASE name = "route" -> found.name [] name = "direction" -> way [] OTHER -> event[name]
           fixed(way) == [i \in DOMAIN Fixed[c] |-> Value(Fixed[c][i], way)]
           names == Labels(c, routes)
           n == Len(Fixed[c])
           m == Len(caps)
<1>1. /\ Fixed[c] \in Seq(Words) /\ n \in Nat /\ Len(Fixed[c]) = n /\ DOMAIN Fixed[c] = 1..n
  <2>1. Fixed[c] \in Seq(Words)
    BY FixedAreWords
  <2>2. QED
    BY <2>1
<1>2. caps \in Seq(STRING) /\ m \in Nat /\ Len(caps) = m /\ DOMAIN caps = 1..m
  BY CapturesAre
<1>3. PICK way : v = fixed(way) \o captured
  <2>1. Finished(collectors, routes, event)[c] =
          {fixed(way) \o captured : way \in IF c = "bandwidth" THEN {"in", "out"} ELSE {Nothing}}
    BY DEF Finished
  <2>2. QED
    BY <2>1
<1> HIDE DEF n, m, caps, found, first
<1>4. /\ names = Fixed[c] \o caps /\ Len(names) = n + m
      /\ \A i \in 1..n : names[i] = Fixed[c][i]
      /\ \A i \in 1..m : names[n + i] = caps[i]
  <2> DEFINE f == Fixed[c]
  <2>1. names = f \o caps
    BY DEF Labels, caps
  <2>2. f \in Seq(Words) /\ Len(f) = n
    BY <1>1
  <2> HIDE DEF f, names
  <2>3. Len(names) = n + m /\ (\A i \in 1..n : names[i] = f[i]) /\ \A i \in 1..m : names[n + i] = caps[i]
    <3>1. IsJoined(f, caps, names)
      BY <1>2, <2>1, <2>2, Joined
    <3>2. QED
      BY <1>2, <2>2, <3>1 DEF IsJoined
  <2>4. QED
    BY <2>1, <2>3 DEF f
<1>5. /\ Len(v) = n + m
      /\ \A i \in 1..n : v[i] = Value(Fixed[c][i], way)
      /\ \A i \in 1..m : v[n + i] = captured[i]
  <2> DEFINE a == fixed(way)
             b == captured
  <2>1. a \in Seq({a[i] : i \in 1..n}) /\ Len(a) = n /\ \A i \in 1..n : a[i] = Value(Fixed[c][i], way)
    BY <1>1
  <2>2. b \in Seq({b[i] : i \in 1..m}) /\ Len(b) = m
    BY <1>2
  <2>3. v = a \o b
    BY <1>3
  <2> HIDE DEF a, b
  <2>4. /\ Len(v) = n + m /\ \A i \in 1..n : v[i] = a[i]
        /\ \A i \in 1..m : v[n + i] = b[i]
    <3>1. IsJoined(a, b, v)
      BY <2>1, <2>2, <2>3, Joined
    <3>2. QED
      BY <2>1, <2>2, <3>1 DEF IsJoined
  <2>5. QED
    BY <2>1, <2>4 DEF b
<1> HIDE DEF names
<1>6. ASSUME NEW k \in 1..n, names[k] = "route" PROVE v[k] = found.name
  <2>1. v[k] = Value("route", way)
    BY <1>4, <1>5, <1>6
  <2>2. QED
    BY <2>1
<1>7. \A i \in 1..m : v[n + i] = IF names[n + i] \in DOMAIN found.labels THEN found.labels[names[n + i]] ELSE <<>>
  <2> SUFFICES ASSUME NEW i \in 1..m
               PROVE v[n + i] = IF names[n + i] \in DOMAIN found.labels THEN found.labels[names[n + i]] ELSE <<>>
    OBVIOUS
  <2>1. names[n + i] = caps[i] /\ v[n + i] = captured[i]
    BY <1>4, <1>5
  <2>2. captured[i] = IF caps[i] \in DOMAIN found.labels THEN found.labels[caps[i]] ELSE <<>>
    BY <1>2
  <2> HIDE DEF captured
  <2>3. QED
    BY <2>1, <2>2, Zenon
<1> HIDE DEF captured, Value, fixed
<1>8. \A k \in n + 1..Len(names) : v[k] = IF names[k] \in DOMAIN found.labels THEN found.labels[names[k]] ELSE <<>>
  <2> SUFFICES ASSUME NEW k \in n + 1..Len(names)
               PROVE v[k] = IF names[k] \in DOMAIN found.labels THEN found.labels[names[k]] ELSE <<>>
    OBVIOUS
  <2>1. k - n \in 1..m /\ n + (k - n) = k
    BY <1>1, <1>2, <1>4
  <2>2. QED
    BY <1>7, <2>1
<1>9. CASE first = {}
  <2>1. found = NoRoute
    BY <1>9, MatchIs DEF found, first
  <2>2. found.name = Nothing /\ DOMAIN found.labels = {}
    BY <2>1 DEF NoRoute
  <2>3. QED
    BY <1>4, <1>5, <1>6, <1>8, <1>9, <2>2 DEF Fitting, names, n, first
<1>10. ASSUME NEW i \in first PROVE Fitting(c, routes, event.host, event.path, v)
  <2>1. first = {i} /\ found = [name |-> routes[i].name, labels |-> LabelsOf(routes[i], event.path)]
    BY <1>10, MatchIs DEF found, first
  <2>2. (CHOOSE j \in first : TRUE) = i
    BY <2>1
  <2>3. routes[i] \in Route /\ routes[i].capture \subseteq Params(routes[i])
    BY <1>10 DEF first, First, NewMatcherOk
  <2>4. /\ found.name = routes[i].name /\ DOMAIN found.labels = routes[i].capture
        /\ \A name \in routes[i].capture : found.labels[name] = CapturedBy(routes[i], name, event.path)
    <3>1. DOMAIN LabelsOf(routes[i], event.path) = routes[i].capture
      BY DEF LabelsOf
    <3>2. QED
      BY <2>1, <2>3, <3>1, CapturedIs
  <2>5. \A k \in n + 1..Len(names) :
          v[k] = IF \E j \in first : names[k] \in routes[j].capture
                 THEN CapturedBy(routes[CHOOSE j \in first : TRUE], names[k], event.path) ELSE <<>>
    BY <1>8, <2>1, <2>2, <2>4
  <2>6. \A k \in 1..n : names[k] = "route" => v[k] = IF first = {} THEN Nothing ELSE routes[CHOOSE j \in first : TRUE].name
    BY <1>6, <2>1, <2>2, <2>4
  <2>7. QED
    BY <1>4, <1>5, <2>5, <2>6 DEF Fitting, names, n, first
<1>11. QED
  BY <1>9, <1>10

--------------------------------------------------------------------------------
(* What was counted last was counted by RequestFinished, under routes that       *)
(* NewMatcher accepted.                                                          *)
CountInv ==
    /\ stage = "serving" => NewMatcherOk(config.routes)
    /\ \A w \in Worker : pc[w] # "idle" => stage = "serving"
    /\ counted # None =>
         /\ NewMatcherOk(config.routes)
         /\ counted.host \in Host /\ counted.path \in Path
         /\ \E event : /\ event.host = counted.host /\ event.path = counted.path
                       /\ counted.values = Finished(config.collectors, config.routes, event)

LEMMA CountInvStep == ASSUME TypeInv, CountInv, [Next]_vars PROVE CountInv'
<1>1. config' = config
  BY DEF Next, vars, server, Start, Connect, Receive, Challenge, Ready, Pick, ChooseIdentity, GetClient, Finish
<1>2. CASE UNCHANGED vars \/ Connect
  BY <1>1, <1>2 DEF Connect, vars, server, CountInv
<1>3. CASE Start
  BY <1>1, <1>3 DEF Start, CountInv
<1>4. ASSUME NEW w \in Worker,
             \/ \E r : Receive(w, r) \/ Challenge(w, r)
             \/ Pick(w) \/ ChooseIdentity(w) \/ GetClient(w)
      PROVE  CountInv'
  <2>1. UNCHANGED <<stage, counted>> /\ stage = "serving"
    <3>1. UNCHANGED <<stage, counted>>
      BY <1>4 DEF Receive, Challenge, Ready, Pick, ChooseIdentity, GetClient, server
    <3>2. stage = "serving"
      <4>1. CASE \E r : Receive(w, r) \/ Challenge(w, r)
        BY <4>1 DEF Receive, Challenge, Ready
      <4>2. CASE pc[w] \in {"resolve", "choose", "client"}
        BY <4>2 DEF CountInv
      <4>3. QED
        BY <1>4, <4>1, <4>2 DEF Pick, ChooseIdentity, GetClient
    <3>3. QED
      BY <3>1, <3>2
  <2>2. QED
    BY <1>1, <2>1 DEF CountInv
<1>5. ASSUME NEW w \in Worker, Finish(w) PROVE CountInv'
  <2> DEFINE event == [host |-> req[w].url.name, path |-> req[w].path, method |-> "method", status |-> "status",
                       browser |-> answer[w].browser]
  <2>1. pc[w] = "done" /\ pc' = [pc EXCEPT ![w] = "idle"] /\ stage' = stage
    BY <1>5 DEF Finish, Step, server
  <2>2. stage = "serving" /\ NewMatcherOk(config.routes)
    BY <2>1 DEF CountInv
  <2>3. \/ counted' = counted
        \/ counted' = [host |-> event.host, path |-> event.path,
                       values |-> Finished(config.collectors, config.routes, event)]
    BY <1>5 DEF Finish
  <2>4. event.host \in Host /\ event.path \in Path
    <3>1. PICK m \in Meeting : config = m[1] /\ client = m[2]
      BY DEF TypeInv
    <3>2. req[w] \in Requests(m[2].kind)
      BY <2>1, <3>1 DEF TypeInv, Typed
    <3>3. req[w].url.name \in Seq(STRING) /\ req[w].path \in Seq(Seq(STRING))
      BY <3>1, <3>2, RoutesAreWritten
    <3>4. QED
      BY <3>3 DEF Host, Path
  <2> HIDE DEF event
  <2>5. counted' # None =>
         /\ counted'.host \in Host /\ counted'.path \in Path
         /\ \E e : /\ e.host = counted'.host /\ e.path = counted'.path
                   /\ counted'.values = Finished(config.collectors, config.routes, e)
    <3>1. CASE counted' = counted
      BY <3>1 DEF CountInv
    <3>2. CASE counted' = [host |-> event.host, path |-> event.path,
                           values |-> Finished(config.collectors, config.routes, event)]
      <4>1. counted'.host = event.host /\ counted'.path = event.path
            /\ counted'.values = Finished(config.collectors, config.routes, event)
        BY <3>2
      <4>2. QED
        BY <2>4, <4>1
    <3>3. QED
      BY <2>3, <3>1, <3>2
  <2>6. QED
    BY <1>1, <2>1, <2>2, <2>5 DEF CountInv
<1>6. QED
  BY <1>2, <1>3, <1>4, <1>5 DEF Next

(* Whatever routes NewMatcher accepts, however they overlap, and whatever a      *)
(* request's host and path: RequestFinished gives every collector a value for    *)
(* each of its labels, under the first route that covers the request, and in the *)
(* place of each captured name what the path has there.                          *)
THEOREM CountsFitLabels == SpecOf => []CountedAsDeclared
<1>1. Init => CountInv
  BY DEF Init, CountInv
<1>2. TypeInv /\ CountInv /\ [Next]_vars => CountInv'
  BY CountInvStep
<1>3. TypeInv /\ CountInv => CountedAsDeclared
  <2> SUFFICES ASSUME TypeInv, CountInv, counted # None, NEW c \in config.collectors, NEW v \in counted.values[c]
               PROVE  Fitting(c, config.routes, counted.host, counted.path, v)
    BY DEF CountedAsDeclared, Fitting, First
  <2>1. PICK event : /\ event.host = counted.host /\ event.path = counted.path
                     /\ counted.values = Finished(config.collectors, config.routes, event)
    BY DEF CountInv
  <2>2. /\ config.routes \in Seq(Route) /\ \A i \in DOMAIN config.routes : IsFiniteSet(config.routes[i].capture)
        /\ config.collectors \in SUBSET DOMAIN Fixed
    BY RoutesAreWritten, Zenon DEF TypeInv, Route, Host, Patterns
  <2>3. NewMatcherOk(config.routes) /\ event.host \in Host /\ event.path \in Path
    BY <2>1 DEF CountInv
  <2>4. QED
    BY <2>1, <2>2, <2>3, FinishedFits
<1>4. QED
  BY <1>1, <1>2, <1>3, TypeInvariant, PTL DEF SpecOf
================================================================================
