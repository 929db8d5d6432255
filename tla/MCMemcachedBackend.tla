------------------------- MODULE MCMemcachedBackend -------------------------
(* Two clients; the two keys share the second of two tracking shards. *)
EXTENDS MemcachedBackend, TLC

MCShardOf == [k \in Keys |-> 2]

MCSymmetry == Permutations(Clients) \cup Permutations(Keys)
=============================================================================
