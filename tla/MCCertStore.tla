------------------------------ MODULE MCCertStore ------------------------------
(* Instances of CertStore; hosts and handshakes are interchangeable.             *)
EXTENDS CertStore, TLC

Symmetry == Permutations(Host) \cup Permutations(Handshake)
================================================================================
