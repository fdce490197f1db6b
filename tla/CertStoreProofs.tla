---------------------------- MODULE CertStoreProofs ----------------------------
(* Proofs about CertStore: its bound, for any number of hosts, handshakes and    *)
(* replicas; and, for a replica that has its files to itself, that it serves one *)
(* CA whose leaves its clients trust, and accepts the files it wrote.            *)
EXTENDS CertStore, TLAPS, FiniteSetTheorems

allVars == <<vars, certVars>>

--------------------------------------------------------------------------------
(* The store's bound.                                                            *)

StoreShape ==
    /\ certs = [r \in Replica |-> [h \in Host |-> certs[r][h]]]
    /\ \A r \in Replica : IsFiniteSet(Held(r))
    /\ StoreBounded

(* Taking a member out of a full set and putting another in does not outgrow it. *)
LEMMA Replaced ==
    ASSUME NEW S, IsFiniteSet(S), Cardinality(S) <= CertCacheSize, NEW victims, NEW h, NEW T,
           T \subseteq (S \ victims) \cup {h},
           \/ Cardinality(S) < CertCacheSize
           \/ \E v \in S : victims = {v}
    PROVE  IsFiniteSet(T) /\ Cardinality(T) <= CertCacheSize
<1> USE CertCacheSizeAssumption
<1> DEFINE U == (S \ victims) \cup {h}
<1>1. Cardinality(S) \in Nat
  BY FS_CardinalityType
<1>2. IsFiniteSet(S \ victims) /\ Cardinality(S \ victims) \in Nat /\ Cardinality(S \ victims) <= CertCacheSize - 1
  <2>1. CASE Cardinality(S) < CertCacheSize
    <3>1. S \ victims \subseteq S
      OBVIOUS
    <3>2. QED
      BY <3>1, <2>1, <1>1, FS_Subset, FS_CardinalityType
  <2>2. CASE \E v \in S : victims = {v}
    <3>1. PICK v \in S : victims = {v}
      BY <2>2
    <3>2. IsFiniteSet(S \ {v}) /\ Cardinality(S \ {v}) = Cardinality(S) - 1
      BY FS_RemoveElement
    <3>3. QED
      BY <3>1, <3>2, <1>1, FS_CardinalityType
  <2>3. QED
    BY <2>1, <2>2
<1>3. IsFiniteSet(U) /\ Cardinality(U) \in Nat /\ Cardinality(U) <= CertCacheSize
  <2>1. IsFiniteSet(U) /\ (Cardinality(U) = Cardinality(S \ victims) \/ Cardinality(U) = Cardinality(S \ victims) + 1)
    BY <1>2, FS_AddElement
  <2>2. QED
    BY <2>1, <1>2, FS_CardinalityType
<1>4. QED
  BY <1>3, FS_Subset, FS_CardinalityType

LEMMA StoreShapeInvariant == CertSpec => []StoreShape
<1>1. CertInit => StoreShape
  <2> SUFFICES ASSUME CertInit PROVE StoreShape
    OBVIOUS
  <2>1. certs = [r \in Replica |-> [h \in Host |-> None]]
    BY DEF CertInit, NoCerts
  <2>2. \A r \in Replica : Held(r) = {}
    BY <2>1 DEF Held
  <2>3. QED
    BY <2>1, <2>2, FS_EmptySet, CertCacheSizeAssumption DEF StoreShape, StoreBounded
<1>2. StoreShape /\ [CertNext]_allVars => StoreShape'
  <2> SUFFICES ASSUME StoreShape, [CertNext]_allVars PROVE StoreShape'
    OBVIOUS
  <2>1. CASE UNCHANGED certs
    BY <2>1 DEF StoreShape, StoreBounded, Held
  <2>2. ASSUME NEW s \in Handshake, Insert(s)
        PROVE  StoreShape'
    <3> DEFINE at == fetch[s].at
    <3>1. PICK victims \in (IF Full(at) THEN {{h} : h \in Held(at)} ELSE {{}}) :
            certs' = [certs EXCEPT ![at] = [[h \in Host |-> IF h \in victims THEN None ELSE certs[at][h]]
                                              EXCEPT ![fetch[s].host] = fetch[s].leaf]]
      BY <2>2 DEF Insert
    <3>2. certs' = [r \in Replica |-> [h \in Host |-> certs'[r][h]]]
      BY <3>1 DEF StoreShape
    <3>3. ASSUME NEW r \in Replica
          PROVE  IsFiniteSet(Held(r)') /\ Cardinality(Held(r)') <= CertCacheSize
      <4>1. IsFiniteSet(Held(r)) /\ Cardinality(Held(r)) <= CertCacheSize
        BY DEF StoreShape, StoreBounded
      <4>2. CASE r # at
        <5>1. Held(r)' = Held(r)
          BY <3>1, <4>2 DEF StoreShape, Held
        <5>2. QED
          BY <4>1, <5>1
      <4>3. CASE r = at
        <5>1. Held(r)' \subseteq (Held(r) \ victims) \cup {fetch[s].host}
          BY <3>1, <4>3 DEF StoreShape, Held
        <5>2. \/ Cardinality(Held(r)) < CertCacheSize
              \/ \E v \in Held(r) : victims = {v}
          BY <3>1, <4>1, <4>3, FS_CardinalityType, CertCacheSizeAssumption DEF Full
        <5>3. QED
          BY <4>1, <5>1, <5>2, Replaced
      <4>4. QED
        BY <4>2, <4>3
    <3>4. QED
      BY <3>2, <3>3 DEF StoreShape, StoreBounded
  <2>3. CASE CaStep
    <3>1. certs' = [r \in Replica |-> IF pc'[r] = "serving" THEN certs[r] ELSE NoCerts]
      BY <2>3 DEF CaStep
    <3>2. certs' = [r \in Replica |-> [h \in Host |-> certs'[r][h]]]
      <4>1. ASSUME NEW r \in Replica PROVE certs'[r] = [h \in Host |-> certs'[r][h]]
        BY <3>1, certs[r] = [h \in Host |-> certs[r][h]] DEF StoreShape, NoCerts
      <4>2. QED
        BY <3>1, <4>1
    <3>3. ASSUME NEW r \in Replica
          PROVE  IsFiniteSet(Held(r)') /\ Cardinality(Held(r)') <= CertCacheSize
      <4>1. Held(r)' = Held(r) \/ Held(r)' = {}
        BY <3>1 DEF Held, NoCerts
      <4>2. IsFiniteSet({}) /\ Cardinality({}) <= CertCacheSize
        BY FS_EmptySet, CertCacheSizeAssumption
      <4>3. IsFiniteSet(Held(r)) /\ Cardinality(Held(r)) <= CertCacheSize
        BY DEF StoreShape, StoreBounded
      <4>4. QED
        BY <4>1, <4>2, <4>3
    <3>4. QED
      BY <3>2, <3>3 DEF StoreShape, StoreBounded
  <2>4. QED
    BY <2>1, <2>2, <2>3 DEF CertNext, HandshakeStep, Fetch, Gen, GenFails, Verify, allVars, certVars
<1>3. QED
  BY <1>1, <1>2, PTL DEF CertSpec, allVars

(* However many handshakes sign leaves at once, the store of certs.go never      *)
(* holds more than its bound.                                                    *)
THEOREM StoreBoundedInvariant == CertSpec => []StoreBounded
<1>1. StoreShape => StoreBounded
  BY DEF StoreShape
<1>2. QED
  BY <1>1, StoreShapeInvariant, PTL

--------------------------------------------------------------------------------
(* One replica.                                                                  *)

Alone == \A a, b \in Replica : a = b

Steps == Writing \cup {"down", "stat cert", "stat key", "create", "read cert", "read key", "serving", "failed"}

FilesShape ==
    /\ cert \in Contents /\ key \in Contents /\ exposed \in BOOLEAN /\ harmed \in BOOLEAN
    /\ spent \subseteq Id /\ trusted \in Id \cup {None}
    /\ pc \in [Replica -> Steps] /\ sawCert \in [Replica -> BOOLEAN]
    /\ made \in [Replica -> Id \cup {Empty, None}] /\ ca \in [Replica -> Id \cup {None}]

(* What a start has read or made, and a server serves, is what the files hold.   *)
StartOk(r) ==
    /\ pc[r] = "stat key" /\ ~sawCert[r] => cert = Absent
    /\ pc[r] \in Writing => made[r] \in Id
    /\ pc[r] \in {"open key", "fill key"} => cert \in {made[r], Absent}
    /\ pc[r] = "read key" /\ made[r] \in Id =>
         cert \in {made[r], Absent} /\ (trusted # None => made[r] = trusted)
    /\ pc[r] = "serving" => trusted # None /\ ca[r] = trusted

(* Once clients trust a CA no start makes another, because a half is left.       *)
TrustOk ==
    trusted # None =>
        /\ cert \in {trusted, Absent} /\ key \in {trusted, Absent} /\ ~(cert = Absent /\ key = Absent)
        /\ \A r \in Replica : pc[r] \notin Writing \cup {"create"}

CaInv == FilesShape /\ TrustOk /\ \A r \in Replica : StartOk(r)

LEMMA CaInvInit == Init => CaInv
<1> SUFFICES ASSUME Init PROVE CaInv
  OBVIOUS
<1>1. FilesShape
  BY ProvidedIsAnId DEF Init, FilesShape, Contents, Steps
<1>2. TrustOk /\ \A r \in Replica : StartOk(r)
  BY DEF Init, TrustOk, StartOk, Writing
<1>3. QED
  BY <1>1, <1>2 DEF CaInv

LEMMA CaInvStep == ASSUME Alone, CaInv, [Next]_vars PROVE CaInv'
<1> USE MarksAreNoIds, MarksDiffer DEF CaInv, FilesShape, Contents, Steps, Writing, StartOk, TrustOk
<1>1. ASSUME NEW r \in Replica, ProcessStep(r) PROVE CaInv'
  <2>0. \A q \in Replica : q = r
    BY DEF Alone
  <2> USE <2>0 DEF Step, files
  <2>1. CASE Start(r)
    BY <2>1 DEF Start
  <2>2. CASE StatCert(r)
    BY <2>2 DEF StatCert
  <2>3. CASE StatKey(r)
    BY <2>3 DEF StatKey, Fresh
  <2>4. CASE Create(r)
    <3>1. PICK id \in Id \ spent : made' = [made EXCEPT ![r] = id] /\ spent' = spent \cup {id}
      BY <2>4 DEF Create
    <3>2. pc[r] = "create" /\ pc' = [pc EXCEPT ![r] = "open cert"] /\ UNCHANGED <<files, sawCert, ca, trusted, harmed>>
      BY <2>4 DEF Create
    <3>3. QED
      BY <3>1, <3>2
  <2>5. CASE OpenCert(r)
    BY <2>5 DEF OpenCert
  <2>6. CASE FillCert(r)
    BY <2>6 DEF FillCert
  <2>7. CASE OpenKey(r)
    BY <2>7 DEF OpenKey, ModeOf
  <2>8. CASE FillKey(r)
    BY <2>8 DEF FillKey, Serve
  <2>9. CASE WriteFails(r)
    BY <2>9 DEF WriteFails
  <2>10. CASE ReadCert(r)
    BY <2>10 DEF ReadCert
  <2>11. CASE ReadKey(r)
    BY <2>11 DEF ReadKey, IsPair, Serve
  <2>12. CASE Crash(r)
    BY <2>12 DEF Crash
  <2>13. QED
    BY <1>1, <2>1, <2>2, <2>3, <2>4, <2>5, <2>6, <2>7, <2>8, <2>9, <2>10, <2>11, <2>12 DEF ProcessStep
<1>2. CASE LoseFile
  BY <1>2 DEF LoseFile
<1>3. CASE Chmod
  BY <1>3 DEF Chmod
<1>4. CASE UNCHANGED vars
  BY <1>4 DEF vars, files
<1>5. QED
  BY <1>1, <1>2, <1>3, <1>4 DEF Next

\* A step of CertStore is a step of CaFiles, or leaves its variables alone.
LEMMA StepsOfCa == [CertNext]_allVars => [Next]_vars
BY DEF CertNext, HandshakeStep, Fetch, Gen, GenFails, Insert, Verify, CaStep, allVars, certVars

LEMMA CaInvariant == ASSUME Alone PROVE CertSpec => []CaInv
<1>1. CertInit => CaInv
  BY CaInvInit DEF CertInit
<1>2. CaInv /\ [CertNext]_allVars => CaInv'
  BY StepsOfCa, CaInvStep
<1>3. QED
  BY <1>1, <1>2, PTL DEF CertSpec, allVars

(* A replica whose files no other writes serves, after any crashes, failed       *)
(* writes and the loss of one of the files, the CA that clients were first told  *)
(* to trust: LoadOrCreateCA refuses half a pair and makes no other.              *)
THEOREM OneCAAlone == ASSUME Alone PROVE CertSpec => []OneCA
<1>1. CaInv => OneCA
  BY DEF CaInv, StartOk, OneCA
<1>2. QED
  BY <1>1, CaInvariant, PTL

--------------------------------------------------------------------------------
(* The files TIP wrote.                                                          *)

Whole == cert \in Id /\ key = cert /\ ~exposed

Nothing == cert = Absent /\ key = Absent

Unharmed(r) ==
    /\ pc[r] # "failed"
    /\ pc[r] \in {"down", "stat cert"} => Whole \/ Nothing
    /\ pc[r] = "stat key" => (sawCert[r] /\ Whole) \/ (~sawCert[r] /\ Nothing)
    /\ pc[r] \in {"create", "open cert"} => Nothing
    /\ pc[r] = "fill cert" => cert = Empty /\ key = Absent
    /\ pc[r] = "open key" => cert = made[r] /\ key = Absent
    /\ pc[r] = "fill key" => cert = made[r] /\ key = Empty /\ ~exposed
    /\ pc[r] = "read key" => Whole /\ made[r] = cert
    /\ pc[r] \in {"read cert", "serving"} => Whole

OwnInv == ~harmed => \A r \in Replica : Unharmed(r)

LEMMA OwnInvStep == ASSUME Alone, CaInv, OwnInv, [Next]_vars PROVE OwnInv'
<1> USE MarksAreNoIds, MarksDiffer DEF CaInv, FilesShape, Contents, Steps, Writing, StartOk, OwnInv, Unharmed, Whole, Nothing
<1>1. ASSUME NEW r \in Replica, ProcessStep(r) PROVE OwnInv'
  <2>0. \A q \in Replica : q = r
    BY DEF Alone
  <2> USE <2>0 DEF Step, files
  <2>1. CASE Start(r)
    BY <2>1 DEF Start
  <2>2. CASE StatCert(r)
    <3>1. pc[r] = "stat cert" /\ pc'[r] = "stat key" /\ UNCHANGED <<files, made, harmed>>
      BY <2>2 DEF StatCert
    <3>2. sawCert'[r] <=> cert # Absent
      BY <2>2 DEF StatCert
    <3>3. harmed \/ Whole \/ Nothing
      BY <3>1
    <3>4. CASE harmed
      BY <3>1, <3>4
    <3>5. CASE ~harmed /\ Whole
      <4>1. cert # Absent /\ Whole' /\ sawCert'[r]
        BY <3>1, <3>2, <3>5
      <4>2. Unharmed(r)'
        BY <3>1, <4>1
      <4>3. QED
        BY <4>2
    <3>6. CASE ~harmed /\ Nothing
      <4>1. Nothing' /\ ~sawCert'[r]
        BY <3>1, <3>2, <3>6
      <4>2. Unharmed(r)'
        BY <3>1, <4>1
      <4>3. QED
        BY <4>2
    <3>7. QED
      BY <3>3, <3>4, <3>5, <3>6
  <2>3. CASE StatKey(r)
    <3>1. pc[r] = "stat key" /\ UNCHANGED <<files, sawCert, made, harmed>>
      BY <2>3 DEF StatKey
    <3>2. CASE harmed
      BY <3>1, <3>2
    <3>3. CASE ~harmed /\ sawCert[r] /\ Whole
      <4>1. pc'[r] = "read cert"
        BY <2>3, <3>3 DEF StatKey, Fresh, Usable
      <4>2. Unharmed(r)'
        BY <3>1, <3>3, <4>1
      <4>3. QED
        BY <4>2
    <3>4. CASE ~harmed /\ ~sawCert[r] /\ Nothing
      <4>1. pc'[r] = "create"
        BY <2>3, <3>4 DEF StatKey, Fresh
      <4>2. Unharmed(r)'
        BY <3>1, <3>4, <4>1
      <4>3. QED
        BY <4>2
    <3>5. QED
      BY <3>1, <3>2, <3>3, <3>4
  <2>4. CASE Create(r)
    <3>1. PICK id \in Id \ spent : made' = [made EXCEPT ![r] = id] /\ spent' = spent \cup {id}
      BY <2>4 DEF Create
    <3>2. pc[r] = "create" /\ pc' = [pc EXCEPT ![r] = "open cert"] /\ UNCHANGED <<files, sawCert, ca, trusted, harmed>>
      BY <2>4 DEF Create
    <3>3. QED
      BY <3>1, <3>2
  <2>5. CASE OpenCert(r)
    BY <2>5 DEF OpenCert
  <2>6. CASE FillCert(r)
    BY <2>6 DEF FillCert
  <2>7. CASE OpenKey(r)
    BY <2>7 DEF OpenKey, ModeOf
  <2>8. CASE FillKey(r)
    BY <2>8 DEF FillKey, Serve
  <2>9. CASE WriteFails(r)
    BY <2>9 DEF WriteFails
  <2>10. CASE ReadCert(r)
    BY <2>10 DEF ReadCert
  <2>11. CASE ReadKey(r)
    BY <2>11 DEF ReadKey, IsPair, Serve
  <2>12. CASE Crash(r)
    BY <2>12 DEF Crash
  <2>13. QED
    BY <1>1, <2>1, <2>2, <2>3, <2>4, <2>5, <2>6, <2>7, <2>8, <2>9, <2>10, <2>11, <2>12 DEF ProcessStep
<1>2. CASE LoseFile
  BY <1>2 DEF LoseFile
<1>3. CASE Chmod
  BY <1>3 DEF Chmod
<1>4. CASE UNCHANGED vars
  BY <1>4 DEF vars, files
<1>5. QED
  BY <1>1, <1>2, <1>3, <1>4 DEF Next

(* A start of LoadOrCreateCA refuses only files that somebody touched, or whose  *)
(* creation was cut short.                                                       *)
THEOREM OwnFilesAcceptedAlone == ASSUME Alone PROVE CertSpec => []OwnFilesAccepted
<1>1. CertInit => OwnInv
  BY ProvidedIsAnId, MarksAreNoIds, MarksDiffer DEF CertInit, Init, OwnInv, Unharmed, Whole, Nothing
<1>2. CaInv /\ OwnInv /\ [CertNext]_allVars => OwnInv'
  BY StepsOfCa, OwnInvStep
<1>3. OwnInv => OwnFilesAccepted
  BY DEF OwnInv, Unharmed, OwnFilesAccepted
<1>4. QED
  BY <1>1, <1>2, <1>3, CaInvariant, PTL DEF CertSpec, allVars

--------------------------------------------------------------------------------
(* The leaves.                                                                   *)

LeafFor(h) == [host |-> h, signer |-> trusted]

LeafShape ==
    /\ certs \in [Replica -> [Host -> Leaf \cup {None}]]
    /\ fetch \in [Handshake -> [step : {"idle", "gen", "insert", "done"}, at : Replica \cup {None},
                               host : Host \cup {None}, leaf : Leaf \cup {None}]]

(* A replica has leaves, and handshakes, only while it serves, and every leaf is *)
(* signed with the CA that it serves.                                            *)
LeafInv ==
    /\ LeafShape
    /\ \A r \in Replica, h \in Host : certs[r][h] # None => pc[r] = "serving" /\ certs[r][h] = LeafFor(h)
    /\ \A s \in Handshake : fetch[s].step # "idle" =>
         fetch[s].at \in Replica /\ fetch[s].host \in Host /\ pc[fetch[s].at] = "serving"
    /\ \A s \in Handshake : fetch[s].step \in {"insert", "done"} => fetch[s].leaf = LeafFor(fetch[s].host)

LEMMA TrustIsKept == ASSUME [Next]_vars, trusted # None PROVE trusted' = trusted
BY DEF Next, ProcessStep, LoseFile, Chmod, Start, StatCert, StatKey, Create, OpenCert, FillCert, OpenKey, FillKey,
       WriteFails, ReadCert, ReadKey, Crash, Serve, vars

LEMMA LeafInvStep == ASSUME CaInv, CaInv', LeafInv, [CertNext]_allVars PROVE LeafInv'
<1> USE DEF LeafInv, LeafShape, LeafFor
<1>1. ASSUME NEW s \in Handshake, Fetch(s) PROVE LeafInv'
  BY <1>1 DEF Fetch, IsHit, Held, vars
<1>2. ASSUME NEW s \in Handshake, Gen(s) PROVE LeafInv'
  <2>1. fetch[s].at \in Replica /\ fetch[s].host \in Host /\ ca[fetch[s].at] = trusted /\ trusted \in Id
    BY <1>2 DEF Gen, CaInv, StartOk, FilesShape
  <2>2. LeafFor(fetch[s].host) \in Leaf
    BY <2>1 DEF Leaf
  <2>3. QED
    BY <1>2, <2>1, <2>2 DEF Gen, vars
<1>3. ASSUME NEW s \in Handshake, GenFails(s) \/ Verify(s) PROVE LeafInv'
  BY <1>3 DEF GenFails, Verify, Idle, vars
<1>4. ASSUME NEW s \in Handshake, Insert(s) PROVE LeafInv'
  <2> DEFINE at == fetch[s].at
  <2>1. at \in Replica /\ fetch[s].host \in Host /\ pc[at] = "serving" /\ fetch[s].leaf = LeafFor(fetch[s].host)
    BY <1>4 DEF Insert
  <2>2. PICK victims :
          certs' = [certs EXCEPT ![at] = [[h \in Host |-> IF h \in victims THEN None ELSE certs[at][h]]
                                            EXCEPT ![fetch[s].host] = fetch[s].leaf]]
    BY <1>4 DEF Insert
  <2>3. certs' \in [Replica -> [Host -> Leaf \cup {None}]]
    BY <2>1, <2>2
  <2>4. \A r \in Replica, h \in Host : certs'[r][h] # None => pc[r] = "serving" /\ certs'[r][h] = LeafFor(h)
    BY <2>1, <2>2
  <2>5. fetch' = [fetch EXCEPT ![s].step = "done"] /\ UNCHANGED <<pc, trusted>>
    BY <1>4 DEF Insert, vars
  <2>6. QED
    BY <2>1, <2>3, <2>4, <2>5
<1>5. CASE CaStep
  <2>1. \A r \in Replica : pc[r] = "serving" => trusted # None
    BY DEF CaInv, StartOk
  <2>2. (\E r \in Replica : pc[r] = "serving") => trusted' = trusted
    BY <2>1, <1>5, TrustIsKept DEF CaStep
  <2>3. certs' = [r \in Replica |-> IF pc'[r] = "serving" THEN certs[r] ELSE NoCerts]
    BY <1>5 DEF CaStep
  <2>4. fetch' = [s \in Handshake |->
                    IF fetch[s].at \in Replica /\ pc'[fetch[s].at] # "serving" THEN Idle ELSE fetch[s]]
    BY <1>5 DEF CaStep
  <2>5. LeafShape'
    BY <2>3, <2>4 DEF NoCerts, Idle
  <2>6. \A r \in Replica, h \in Host : certs'[r][h] # None => pc'[r] = "serving" /\ certs'[r][h] = LeafFor(h)'
    BY <2>2, <2>3 DEF NoCerts
  <2>7. \A s \in Handshake : fetch'[s].step # "idle" =>
          fetch'[s] = fetch[s] /\ fetch[s].at \in Replica /\ fetch[s].host \in Host /\ pc'[fetch[s].at] = "serving" /\ trusted' = trusted
    BY <2>2, <2>4 DEF Idle
  <2>8. QED
    BY <2>5, <2>6, <2>7
<1>6. CASE UNCHANGED allVars
  BY <1>6 DEF allVars, certVars, vars
<1>7. QED
  BY <1>1, <1>2, <1>3, <1>4, <1>5, <1>6 DEF CertNext, HandshakeStep

(* With one replica, a handshake ends with a leaf for its host that is signed    *)
(* with the CA clients were told to trust, whatever happened to the files since. *)
THEOREM LeafIsTrustedAlone == ASSUME Alone PROVE CertSpec => []LeafIsTrusted
<1>1. CertInit => LeafInv
  BY DEF CertInit, LeafInv, LeafShape, NoCerts, Idle
<1>2. CaInv /\ CaInv' /\ LeafInv /\ [CertNext]_allVars => LeafInv'
  BY LeafInvStep
<1>3. LeafInv => LeafIsTrusted
  BY DEF LeafInv, LeafFor, LeafIsTrusted
<1>4. QED
  BY <1>1, <1>2, <1>3, CaInvariant, PTL DEF CertSpec, allVars
================================================================================
