------------------------------ MODULE MC_IpcBus ------------------------------
(* Model-checking instance of IpcBus: one or two publisher threads, two    *)
(* publishes, retry_count 1 and a retry interval of one tick.              *)
EXTENDS IpcBus

CONSTANTS p1, p2

MCPublishers1 == {p1}
MCPublishers2 == {p1, p2}
=============================================================================
