---------------------------- MODULE MCClientCache ----------------------------
(***************************************************************************)
(* Small instances of ClientCache for TLC.                                 *)
(***************************************************************************)
EXTENDS ClientCache, TLC

MCTime == {0, 1}
MCNow == {0}

(* With a single reading, a negative TTL makes every client stale at once: *)
(* what the sweeper may take is then up to inflight alone.                 *)
MCStale == -1

Symmetry == Permutations(Key) \cup Permutations(Client) \cup Permutations(Proc)
=============================================================================
