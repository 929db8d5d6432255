--------------------------- MODULE MCSharedTable ---------------------------
(* Four keys for three slots.  They are looked for at the end of the table, so
   that probes wrap around and pass over one another; one is of another namespace. *)
EXTENDS SharedTable, TLC

CONSTANTS k1, k2, k3, k4

MCKeys == {k1, k2, k3, k4}

MCOwned == {k1, k2, k4}

MCHash == [k \in MCKeys |-> IF k = k2 THEN 7 ELSE 6]

MCBatches == {{k1}, {k2, k3}}

MCSymmetry == Permutations(Workers)
=============================================================================
