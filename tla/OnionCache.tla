----------------------------- MODULE OnionCache -----------------------------
(***************************************************************************)
(* The replay cache of an onion hop (router/onion.rs, onion_digest_seen):  *)
(* a FIFO of digests of bounded length and a HashSet that mirrors it.      *)
(***************************************************************************)
EXTENDS Naturals, Sequences

CONSTANT REPLAY_CACHE_SIZE      \* ONION_REPLAY_CACHE_SIZE

ASSUME CacheAssumption == REPLAY_CACHE_SIZE \in Nat \ {0}

Full(queue) == Len(queue) >= REPLAY_CACHE_SIZE

set_after_M(queue, set, d) ==
    (set \cup {d}) \ (IF Full(queue) THEN {d} ELSE {})

(* insert, and remove what the FIFO evicts.                                *)
set_after(queue, set, d) ==
    (set \cup {d}) \ (IF Full(queue) THEN {Head(queue)} ELSE {})

(* pop_front of a full FIFO, then push_back.                               *)
queue_after(queue, d) == Append(IF Full(queue) THEN Tail(queue) ELSE queue, d)
=============================================================================
