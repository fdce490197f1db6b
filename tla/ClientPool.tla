------------------------------ MODULE ClientPool ------------------------------
(***************************************************************************)
(* What the client cache promises, with none of its threads, locks or      *)
(* reference counts: each key has one slot, which is absent, or building,  *)
(* or holds a client; a key is built by one flight at a time; at most      *)
(* MaxClients slots hold a client, no client sits in two slots, and a slot *)
(* is filled only by its own build.                                        *)
(***************************************************************************)
EXTENDS Naturals, FiniteSets

CONSTANTS Key, Client, MaxClients, Absent, Building

VARIABLE slot

Filled == {k \in Key : slot[k] \in Client}

TypeOK == slot \in [Key -> Client \cup {Absent, Building}]

Init == slot = [k \in Key |-> Absent]

(* A flight takes off. *)
Start(k) ==
  /\ slot[k] = Absent
  /\ slot' = [slot EXCEPT ![k] = Building]

(* It gives a client, for which there is room. *)
Fill(k, c) ==
  /\ slot[k] = Building
  /\ Cardinality(Filled) < MaxClients
  /\ \A l \in Key : slot[l] # c
  /\ slot' = [slot EXCEPT ![k] = c]

(* It fails, and the next Get of the key starts over. *)
Abort(k) ==
  /\ slot[k] = Building
  /\ slot' = [slot EXCEPT ![k] = Absent]

(* The client leaves the cache: evicted, swept, or the cache is closed. *)
Drop(k) ==
  /\ slot[k] \in Client
  /\ slot' = [slot EXCEPT ![k] = Absent]

Next == \E k \in Key : \/ Start(k) \/ Abort(k) \/ Drop(k)
                       \/ \E c \in Client : Fill(k, c)

Spec == Init /\ [][Next]_slot
=============================================================================
