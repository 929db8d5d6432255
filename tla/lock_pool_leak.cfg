SPECIFICATION PoolSpec
CONSTANTS
  Users = {u1, u2, u3}
  Names = {a, b, c}
  Locks = {l1, l2, l3, l4, l5}
  Nobody = Nobody
  MaxSize = 1
  Headroom = 2
  MaxLeaked = 1
SYMMETRY Symmetry
INVARIANT NoLockLeaked
CHECK_DEADLOCK FALSE
