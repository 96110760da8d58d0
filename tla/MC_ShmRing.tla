------------------------------ MODULE MC_ShmRing ------------------------------
(* Model-checking instance of ShmRing: a 16-byte ring, payloads of 1 and 4 *)
(* bytes (entries of 5 and 8 bytes, both reserving 8), so that entries and *)
(* their length prefixes straddle the end of the region.                   *)
EXTENDS ShmRing

CONSTANTS c1, c2

MCProcs1 == {c1}
MCProcs2 == {c1, c2}
MCMortal == {c2}
=============================================================================
