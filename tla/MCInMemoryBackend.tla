------------------------- MODULE MCInMemoryBackend -------------------------
(* Two keys, so that the last of the index takes the place of another; two tasks. *)
EXTENDS InMemoryBackend, TLC

MCCounts == 1 .. 2

\* Told nothing, to clear and close, or neither to clear nor to close.
MCArguments ==
  {Default, [persistent |-> FALSE, close_on_exit |-> TRUE],
   [persistent |-> TRUE, close_on_exit |-> FALSE]}

MCSymmetry == Permutations(Tasks) \cup Permutations(Keys)
=============================================================================
