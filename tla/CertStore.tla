------------------------------- MODULE CertStore -------------------------------
(* The leaves of MITM'd hosts (internal/proxy/certs.go), on top of the CA that   *)
(* signs them: one bounded store for each running replica, which every handshake *)
(* reads and writes in two sections of its mutex, with the signing in between.   *)
(* A store lives as long as its process.                                         *)
EXTENDS CaFiles

CONSTANTS Host, Handshake,
          CertCacheSize

ASSUME CertCacheSizeAssumption == CertCacheSize \in Nat \ {0}

VARIABLES certs, \* what a replica has for a host: a leaf or None
          fetch  \* a handshake: the step it is at, its replica and host, and its leaf

certVars == <<certs, fetch>>

Leaf == [host : Host, signer : Id]

NoCerts == [h \in Host |-> None]

Idle == [step |-> "idle", at |-> None, host |-> None, leaf |-> None]

CertInit ==
    /\ Init
    /\ certs = [r \in Replica |-> NoCerts]
    /\ fetch = [s \in Handshake |-> Idle]

Held(r) == {h \in Host : certs[r][h] # None}

FaultIsHit(r, h) == Held(r) # {}

IsHit(r, h) == h \in Held(r)

(* A client's handshake inside a tunnel; goproxy asks the store for its host.    *)
Fetch(s) ==
    /\ fetch[s].step = "idle"
    /\ \E r \in Replica, h \in Host :
         /\ pc[r] = "serving"
         /\ fetch' = [fetch EXCEPT ![s] =
              [step |-> IF IsHit(r, h) THEN "done" ELSE "gen", at |-> r, host |-> h,
               leaf |-> IF IsHit(r, h) THEN certs[r][h] ELSE None]]
    /\ UNCHANGED <<vars, certs>>

(* gen: goproxy signs a leaf with the CA that New was given.                     *)
Gen(s) ==
    /\ fetch[s].step = "gen"
    /\ fetch' = [fetch EXCEPT ![s].step = "insert",
                              ![s].leaf = [host |-> fetch[s].host, signer |-> ca[fetch[s].at]]]
    /\ UNCHANGED <<vars, certs>>

GenFails(s) ==
    /\ fetch[s].step = "gen"
    /\ fetch' = [fetch EXCEPT ![s] = Idle]
    /\ UNCHANGED <<vars, certs>>

FaultFull(r) == Cardinality(Held(r)) > CertCacheSize

Full(r) == Cardinality(Held(r)) >= CertCacheSize

(* The victim is whichever the map yields first, the host's own leaf included.   *)
Insert(s) ==
    /\ fetch[s].step = "insert"
    /\ fetch' = [fetch EXCEPT ![s].step = "done"]
    /\ LET r == fetch[s].at
           Without(victims) == [h \in Host |-> IF h \in victims THEN None ELSE certs[r][h]]
       IN  \E victims \in IF Full(r) THEN {{h} : h \in Held(r)} ELSE {{}} :
             certs' = [certs EXCEPT ![r] = [Without(victims) EXCEPT ![fetch[s].host] = fetch[s].leaf]]
    /\ UNCHANGED vars

\* The client verifies the leaf against the CA it was told to trust.
Verify(s) ==
    /\ fetch[s].step = "done"
    /\ fetch' = [fetch EXCEPT ![s] = Idle]
    /\ UNCHANGED <<vars, certs>>

HandshakeStep(s) == Fetch(s) \/ Gen(s) \/ GenFails(s) \/ Insert(s) \/ Verify(s)

(* A step of the starts and of the files; a process takes its memory with it.    *)
CaStep ==
    /\ Next
    /\ certs' = [r \in Replica |-> IF pc'[r] = "serving" THEN certs[r] ELSE NoCerts]
    /\ fetch' = [s \in Handshake |->
                   IF fetch[s].at \in Replica /\ pc'[fetch[s].at] # "serving" THEN Idle ELSE fetch[s]]

CertNext == (\E s \in Handshake : HandshakeStep(s)) \/ CaStep

CertSpec == CertInit /\ [][CertNext]_<<vars, certVars>>

--------------------------------------------------------------------------------
(* The fields have their types.                                                  *)
CertTypeOK ==
    /\ certs \in [Replica -> [Host -> Leaf \cup {None}]]
    /\ \A s \in Handshake :
         /\ fetch[s].step \in {"idle", "gen", "insert", "done"}
         /\ fetch[s].at \in Replica \cup {None} /\ fetch[s].host \in Host \cup {None}
         /\ fetch[s].leaf \in Leaf \cup {None}

(* A handshake ends with a leaf that its client accepts: for the host it asked   *)
(* for, signed by the CA that clients were first told to trust. It may come from *)
(* the store, where two handshakes of a host or an eviction between the store's  *)
(* two sections may have changed it, and the CA from files that crashes, failed  *)
(* writes and losses have been at since.                                         *)
LeafIsTrusted ==
    \A s \in Handshake : fetch[s].step = "done" => fetch[s].leaf = [host |-> fetch[s].host, signer |-> trusted]

(* However many handshakes are signing at once, a store holds no more leaves     *)
(* than CertCacheSize.                                                           *)
StoreBounded == \A r \in Replica : Cardinality(Held(r)) <= CertCacheSize
================================================================================
