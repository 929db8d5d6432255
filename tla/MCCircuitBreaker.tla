-------------------------- MODULE MCCircuitBreaker --------------------------
(* Three calls: while one probes, one let through before the outage is still to
   report and one more asks.  Thresholds of two tell the first report from the
   last, two attempts a failure that is retried from one that is reported. *)
EXTENDS CircuitBreaker
=============================================================================
