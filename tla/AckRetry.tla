------------------------------ MODULE AckRetry ------------------------------
(***************************************************************************)
(* What the reliable-delivery bookkeeping of IpcBus promises, without      *)
(* threads, clocks, locks or channels: a credit protocol per sequence.    *)
(*                                                                         *)
(* A publish issues a fresh sequence and authorises one transmission; an   *)
(* at-least-once sequence is also tracked with retry_count credits.  While *)
(* a sequence is tracked, a resend may be committed: it spends one credit  *)
(* and authorises one transmission, which may happen later, after the     *)
(* sequence stopped being tracked.  Tracking ends with the ack, or when a  *)
(* resend is due with no credit left.  An authorised transmission may fail *)
(* (nothing reaches the transport).                                        *)
(***************************************************************************)
EXTENDS Naturals

CONSTANTS Seqs, RetryCount

VARIABLES
  issued,    \* sequences handed out
  tracked,   \* sequences awaiting an ack
  credit,    \* resends a tracked sequence may still commit
  owed,      \* committed transmissions not yet made, per sequence
  sent,      \* transmissions made, per sequence
  acked      \* sequences whose ack has been processed

vars == <<issued, tracked, credit, owed, sent, acked>>

Init ==
  /\ issued = {} /\ tracked = {}
  /\ credit = [s \in Seqs |-> 0]
  /\ owed = [s \in Seqs |-> 0]
  /\ sent = [s \in Seqs |-> 0]
  /\ acked = {}

Issue(s, reliable) ==
  /\ s \notin issued
  /\ issued' = issued \cup {s}
  /\ owed' = [owed EXCEPT ![s] = @ + 1]
  /\ tracked' = IF reliable THEN tracked \cup {s} ELSE tracked
  /\ credit' = IF reliable THEN [credit EXCEPT ![s] = RetryCount] ELSE credit
  /\ UNCHANGED <<sent, acked>>

Transmit(s) ==
  /\ owed[s] > 0
  /\ owed' = [owed EXCEPT ![s] = @ - 1]
  /\ sent' \in {sent, [sent EXCEPT ![s] = @ + 1]}
  /\ UNCHANGED <<issued, tracked, credit, acked>>

CommitResend(s) ==
  /\ s \in tracked /\ credit[s] > 0
  /\ credit' = [credit EXCEPT ![s] = @ - 1]
  /\ owed' = [owed EXCEPT ![s] = @ + 1]
  /\ UNCHANGED <<issued, tracked, sent, acked>>

GiveUp(s) ==
  /\ s \in tracked /\ credit[s] = 0
  /\ tracked' = tracked \ {s}
  /\ UNCHANGED <<issued, credit, owed, sent, acked>>

\* An ack exists only for a sequence that was transmitted; a second ack,
\* or one after the bus gave up, only records it.
Ack(s) ==
  /\ sent[s] > 0
  /\ tracked' = tracked \ {s}
  /\ credit' = [credit EXCEPT ![s] = 0]
  /\ acked' = acked \cup {s}
  /\ UNCHANGED <<issued, owed, sent>>

Next ==
  \E s \in Seqs :
    \/ \E reliable \in BOOLEAN : Issue(s, reliable)
    \/ Transmit(s) \/ CommitResend(s) \/ GiveUp(s) \/ Ack(s)

Spec == Init /\ [][Next]_vars

=============================================================================
