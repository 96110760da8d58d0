----------------------------- MODULE MC_Watchdog -----------------------------
(* Model-checking instance of Watchdog: owner threads as model values.     *)
EXTENDS Watchdog

CONSTANTS w1, w2

MCOwners1 == {w1}
MCOwners2 == {w1, w2}
=============================================================================
