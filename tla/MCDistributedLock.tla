------------------------- MODULE MCDistributedLock -------------------------
(* Three tasks of one process and one of another. *)
EXTENDS DistributedLock, TLC

CONSTANTS a, b, c, x, P, Q

MCProcessOf == [t \in Tasks |-> IF t = x THEN Q ELSE P]

(* Redis with any lateness and no watchdog; Memcached with both bounded. *)
MCProfiles == {[store |-> "redis", ttl |-> 2, delay |-> Unbounded, local |-> Unbounded],
               [store |-> "memcached", ttl |-> 5, delay |-> 1, local |-> 1]}

MCSymmetry == Permutations({a, b, c})

MCLate == {[store |-> "memcached", ttl |-> 5, delay |-> Unbounded, local |-> 1]}
=============================================================================
