----------------------------- MODULE LockUsers -----------------------------
(* Who uses the locks of traffik/_locks.py: a re-entrant lock knows its owner by
   the current asyncio task. *)
EXTENDS Naturals

CONSTANTS Tasks,     \* the asyncio tasks that share the locks
          NoTask,    \* None, as an owner
          MaxDepth   \* bound: how deeply a task nests its acquires

ASSUME NoTaskAssumption == NoTask \notin Tasks
ASSUME DepthAssumption == MaxDepth \in Nat \ {0}
=============================================================================
