------------------------------ MODULE MC_LocalBus ------------------------------
(* Model-checking instance of LocalBus: two threads, two topics.           *)
EXTENDS LocalBus

CONSTANTS t1, t2, ta, tb

MCThreads == {t1, t2}
MCTopics == {ta, tb}
=============================================================================
