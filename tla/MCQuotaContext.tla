--------------------------- MODULE MCQuotaContext ---------------------------
(* Two requests contend for the lock.  A root and one nested context, two calls
   that may be aggregated or not, one apply that fails and may be repeated. *)
EXTENDS QuotaContext
=============================================================================
