------------------------------ MODULE MCHopDialer ------------------------------
(* Instances of HopDialer: two or three attempts of one request.                 *)
EXTENDS HopDialer
================================================================================
