-------------------------- MODULE MCFairAsyncRLock --------------------------
(* Three tasks: while the first waiter is being handed the lock, the second is
   still queued and the task that released it comes back as a newcomer.  Two
   nested acquires tell an inner release from the outermost one. *)
EXTENDS FairAsyncRLock, TLC
=============================================================================
