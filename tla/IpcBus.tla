------------------------------- MODULE IpcBus -------------------------------
(***************************************************************************)
(* The reliable-delivery core of IpcBus (src/src/ipc/src/ipc_bus.cpp):     *)
(* publish with at-least-once bookkeeping, the ack path of dispatch, and   *)
(* the background retry_loop, together with the destructor that stops it. *)
(*                                                                         *)
(* One bus is modelled in full.  Its transport is a pair of FIFO channels  *)
(* to and from a remote peer bus; a transport publish may fail, which      *)
(* drops the frame (IpcTransport::publish returning false is ignored by    *)
(* the bus).  The peer is abstracted to what its dispatch does with an     *)
(* incoming data frame: send_ack for at-least-once frames, then invoke     *)
(* its handlers.                                                           *)
(*                                                                         *)
(* Every lock-protected critical section that does not wait is one atomic  *)
(* step.  The retry thread is the only thread that holds pending_mutex_    *)
(* across several steps (it keeps its unique_lock for a whole pass), so    *)
(* the mutex is represented by the retry thread's program counter.         *)
(* send_mutex_ serialises serialize+transport publish, which is one step.  *)
(***************************************************************************)
EXTENDS Naturals, Sequences, FiniteSets

CONSTANTS
  Publishers,   \* user threads calling IpcBus::publish
  RetryCount,   \* Options::retry_count
  Interval,     \* Options::retry_interval, in clock ticks
  LongWait,     \* the 24 hour wait of retry_loop, in clock ticks
  MaxPublish,   \* bound on the number of publish calls
  MaxTime       \* bound on the clock

ASSUME /\ Publishers # {}
       /\ RetryCount \in Nat
       /\ Interval \in Nat \ {0}
       /\ MaxPublish \in Nat \ {0}
       /\ MaxTime \in Nat
       /\ LongWait > MaxTime

BestEffort == 0     \* DeliveryQos::kBestEffort
AtLeastOnce == 1    \* DeliveryQos::kAtLeastOnce

Seqs == 1 .. MaxPublish   \* sequences next_sequence_ can hand out

\* A frame on the wire: the fields of IpcMessage the binary codec carries
\* and this model uses.  An ack carries sequence 0 (send_ack never sets it).
Frame == [seq : 0 .. MaxPublish, qos : {BestEffort, AtLeastOnce},
          ackFor : 0 .. MaxPublish, isAck : BOOLEAN]

VARIABLES
  now,          \* steady_clock::now()
  nextSequence, \* next_sequence_
  pending,      \* pending_ : sequence -> [retries, due]
  running,      \* running_
  pub,          \* per publisher thread: pc and the message being published
  rt,           \* the retry thread: pc, pass snapshot and loop locals
  toPeer,       \* frames the bus's transport carries to the peer
  toBus,        \* frames the peer's transport carries back to the bus
  dtor,         \* progress of IpcBus::~IpcBus
  sends,        \* history: transport publish calls per sequence
  delivered,    \* history: handler invocations at the peer per sequence
  acked         \* history: sequences whose ack handle_ack has processed

vars == <<now, nextSequence, pending, running, pub, rt, toPeer, toBus, dtor,
          sends, delivered, acked>>

RtPcs == {"loop", "check", "pass", "send", "relock", "waitEmpty", "waitTimed",
          "exited"}

\* retry_loop holds pending_mutex_ everywhere except while sending and waiting.
HoldsPendingMutex == rt.pc \in {"loop", "check", "pass"}

MinOf(a, b) == IF a <= b THEN a ELSE b

\* PendingMessage: retries_left and next_due; the message it holds is the
\* one its key, the sequence, names.
PendingMessage == [retries : Nat, due : Nat]

\* pending_[seq] = entry (insert or overwrite)
PutPending(s, e) == [x \in DOMAIN pending \cup {s} |->
                       IF x = s THEN e ELSE pending[x]]

\* pending_.erase(seq)
ErasePending(s) == [x \in DOMAIN pending \ {s} |-> pending[x]]

\* serializer_->serialize + transport_->publish under send_mutex_.  A
\* serialisation failure (oversized message) sends nothing; a transport
\* failure loses the frame.
Transmit(f, fits) ==
  IF ~fits
  THEN UNCHANGED <<toPeer, sends>>
  ELSE /\ sends' = IF f.isAck THEN sends
                   ELSE [sends EXCEPT ![f.seq] = @ + 1]
       /\ \/ toPeer' = Append(toPeer, f)
          \/ UNCHANGED toPeer

\* pending_cv_.notify_one / notify_all: the retry thread is the only waiter.
WakeRetry(r) ==
  IF r.pc \in {"waitEmpty", "waitTimed"} THEN [r EXCEPT !.pc = "loop"] ELSE r

-----------------------------------------------------------------------------
(* IpcBus::publish, split at its three critical sections.                  *)

\* Stamp the message: topic check, timestamp and next_sequence_.fetch_add.
\* The inputs are the QoS and whether the message fits the codec's limits.
PublishStart(p) ==
  /\ pub[p].pc = "idle"
  /\ dtor = "alive"
  /\ nextSequence <= MaxPublish
  /\ \E q \in {BestEffort, AtLeastOnce}, fits \in BOOLEAN :
       pub' = [pub EXCEPT ![p] = [pc |-> IF q = AtLeastOnce THEN "register"
                                          ELSE "send",
                                  seq |-> nextSequence, qos |-> q,
                                  fits |-> fits]]
  /\ nextSequence' = nextSequence + 1
  /\ UNCHANGED <<now, pending, running, rt, toPeer, toBus, dtor, sends,
                 delivered, acked>>

\* Mutant of PublishRegister: the entry is given one retry too many.
PublishRegisterExtraRetry(p) ==
  /\ pub[p].pc = "register"
  /\ ~HoldsPendingMutex
  /\ pending' = PutPending(pub[p].seq, [retries |-> RetryCount + 1,
                                       due |-> now + Interval])
  /\ pub' = [pub EXCEPT ![p].pc = "notify"]
  /\ UNCHANGED <<now, nextSequence, running, rt, toPeer, toBus, dtor, sends,
                 delivered, acked>>

\* Register the PendingMessage under pending_mutex_, before the send.
PublishRegister(p) ==
  /\ pub[p].pc = "register"
  /\ ~HoldsPendingMutex
  /\ pending' = PutPending(pub[p].seq, [retries |-> RetryCount,
                                       due |-> now + Interval])
  /\ pub' = [pub EXCEPT ![p].pc = "notify"]
  /\ UNCHANGED <<now, nextSequence, running, rt, toPeer, toBus, dtor, sends,
                 delivered, acked>>

\* pending_cv_.notify_one(), after the lock is released.
PublishNotify(p) ==
  /\ pub[p].pc = "notify"
  /\ rt' = WakeRetry(rt)
  /\ pub' = [pub EXCEPT ![p].pc = "send"]
  /\ UNCHANGED <<now, nextSequence, pending, running, toPeer, toBus, dtor,
                 sends, delivered, acked>>

PublishSend(p) ==
  /\ pub[p].pc = "send"
  /\ Transmit([seq |-> pub[p].seq, qos |-> pub[p].qos, ackFor |-> 0,
               isAck |-> FALSE], pub[p].fits)
  /\ pub' = [pub EXCEPT ![p].pc = "idle"]
  /\ UNCHANGED <<now, nextSequence, pending, running, rt, toBus, dtor,
                 delivered, acked>>

-----------------------------------------------------------------------------
(* The inbound path of the bus: transport callback -> deserialize ->       *)
(* dispatch.  The peer only sends acks to this bus, so dispatch takes its  *)
(* is_ack branch: handle_ack(ack_for) erases the pending entry.            *)

\* Mutant of HandleAck: erase by the ack's own sequence (always 0), not by
\* ack_for.
HandleAckWrongKey(s) ==
  /\ ~HoldsPendingMutex
  /\ pending' = ErasePending(0)
  /\ acked' = acked \cup {s}

HandleAck(s) ==
  /\ ~HoldsPendingMutex
  /\ pending' = ErasePending(s)
  /\ acked' = acked \cup {s}

BusReceive ==
  /\ toBus # <<>>
  /\ dtor # "stopped"
  /\ LET f == Head(toBus) IN
       IF f.isAck /\ f.ackFor # 0
       THEN HandleAck(f.ackFor)
       ELSE UNCHANGED <<pending, acked>>
  /\ toBus' = Tail(toBus)
  /\ UNCHANGED <<now, nextSequence, running, pub, rt, toPeer, dtor, sends,
                 delivered>>

\* The peer bus's dispatch of a data frame: send_ack before the handlers
\* for at-least-once frames (its transport may fail to deliver the ack),
\* then one invocation of its subscribed handler.
PeerReceive ==
  /\ toPeer # <<>>
  /\ LET f == Head(toPeer) IN
       /\ delivered' = [delivered EXCEPT ![f.seq] = @ + 1]
       /\ IF f.qos = AtLeastOnce /\ f.seq # 0
          THEN \/ toBus' = Append(toBus, [seq |-> 0, qos |-> BestEffort,
                                          ackFor |-> f.seq, isAck |-> TRUE])
               \/ UNCHANGED toBus
          ELSE UNCHANGED toBus
  /\ toPeer' = Tail(toPeer)
  /\ UNCHANGED <<now, nextSequence, pending, running, pub, rt, dtor, sends,
                 acked>>

-----------------------------------------------------------------------------
(* IpcBus::retry_loop.  rt.passNow is the loop's local `now`, rt.nextDue   *)
(* its `next_due`, rt.toVisit the entries the unordered_map iteration has  *)
(* yet to reach, rt.cur the sequence being resent.                         *)

RtUnchanged == UNCHANGED <<now, nextSequence, running, pub, toPeer, toBus,
                          dtor, sends, delivered, acked>>

\* while (running_.load())
RetryLoop ==
  /\ rt.pc = "loop"
  /\ rt' = [rt EXCEPT !.pc = IF running THEN "check" ELSE "exited"]
  /\ UNCHANGED pending
  /\ RtUnchanged

\* if (pending_.empty()) wait; otherwise start a pass over pending_.
RetryCheck ==
  /\ rt.pc = "check"
  /\ rt' = IF DOMAIN pending = {}
           THEN [rt EXCEPT !.pc = "waitEmpty"]
           ELSE [rt EXCEPT !.pc = "pass", !.passNow = now,
                           !.nextDue = now + LongWait,
                           !.toVisit = DOMAIN pending, !.seen = {}]
  /\ UNCHANGED pending
  /\ RtUnchanged

\* The loop has reached pending_.end(): wait_until(next_due).
RetryPassEnd ==
  /\ rt.pc = "pass"
  /\ rt.toVisit = {}
  /\ rt' = [rt EXCEPT !.pc = "waitTimed", !.deadline = rt.nextDue]
  /\ UNCHANGED pending
  /\ RtUnchanged

\* Mutant of RetryVisit: no erase of an exhausted entry, so the unsigned
\* retries_left is decremented below zero.
RetryVisitNoBudget ==
  /\ rt.pc = "pass"
  /\ \E s \in rt.toVisit :
       LET e == pending[s] IN
       IF e.due <= rt.passNow
       THEN /\ pending' = [pending EXCEPT ![s] =
                              [retries |-> e.retries - 1,
                               due |-> rt.passNow + Interval]]
            /\ rt' = [rt EXCEPT !.pc = "send", !.cur = s,
                                !.toVisit = @ \ {s}, !.seen = @ \cup {s}]
       ELSE /\ rt' = [rt EXCEPT !.nextDue = MinOf(@, e.due),
                                !.toVisit = @ \ {s}, !.seen = @ \cup {s}]
            /\ UNCHANGED pending
  /\ RtUnchanged

\* Mutant of RetryVisit: the resend leaves retries_left as it was.
RetryVisitNoDecrement ==
  /\ rt.pc = "pass"
  /\ \E s \in rt.toVisit :
       LET e == pending[s] IN
       IF e.due <= rt.passNow
       THEN IF e.retries = 0
            THEN /\ pending' = ErasePending(s)
                 /\ rt' = [rt EXCEPT !.toVisit = @ \ {s},
                                     !.seen = @ \cup {s}]
            ELSE /\ pending' = [pending EXCEPT ![s] =
                                  [retries |-> e.retries,
                                   due |-> rt.passNow + Interval]]
                 /\ rt' = [rt EXCEPT !.pc = "send", !.cur = s,
                                     !.toVisit = @ \ {s},
                                     !.seen = @ \cup {s}]
       ELSE /\ rt' = [rt EXCEPT !.nextDue = MinOf(@, e.due),
                                !.toVisit = @ \ {s}, !.seen = @ \cup {s}]
            /\ UNCHANGED pending
  /\ RtUnchanged

\* One iteration over the entry the iterator points at; the order of an
\* unordered_map is unspecified, so any unvisited entry may come next.
RetryVisit ==
  /\ rt.pc = "pass"
  /\ \E s \in rt.toVisit :
       LET e == pending[s] IN
       IF e.due <= rt.passNow
       THEN IF e.retries = 0
            THEN /\ pending' = ErasePending(s)
                 /\ rt' = [rt EXCEPT !.toVisit = @ \ {s},
                                     !.seen = @ \cup {s}]
            ELSE /\ pending' = [pending EXCEPT ![s] =
                                  [retries |-> e.retries - 1,
                                   due |-> rt.passNow + Interval]]
                 /\ rt' = [rt EXCEPT !.pc = "send", !.cur = s,
                                     !.toVisit = @ \ {s},
                                     !.seen = @ \cup {s}]
       ELSE /\ rt' = [rt EXCEPT !.nextDue = MinOf(@, e.due),
                                !.toVisit = @ \ {s}, !.seen = @ \cup {s}]
            /\ UNCHANGED pending
  /\ RtUnchanged

\* lock.unlock(); serialize and publish the copied message under send_mutex_.
RetrySend(fits) ==
  /\ rt.pc = "send"
  /\ Transmit([seq |-> rt.cur, qos |-> AtLeastOnce, ackFor |-> 0,
               isAck |-> FALSE], fits)
  /\ rt' = [rt EXCEPT !.pc = "relock"]
  /\ UNCHANGED <<now, nextSequence, pending, running, pub, toBus, dtor,
                 delivered, acked>>

\* lock.lock(); it = pending_.find(sequence).  If an ack erased the entry
\* meanwhile, `it` is end() and the pass is over.  If a publish inserted an
\* entry meanwhile, the map may have rehashed and the rest of the iteration
\* covers some subset of the entries not yet visited.
RetryRelock ==
  /\ rt.pc = "relock"
  /\ IF rt.cur \notin DOMAIN pending
     THEN rt' = [rt EXCEPT !.pc = "pass", !.passNow = now, !.toVisit = {}]
     ELSE LET left == rt.toVisit \cap DOMAIN pending
              fresh == DOMAIN pending \ (rt.toVisit \cup rt.seen)
          IN \E next \in IF fresh = {} THEN {left}
                         ELSE SUBSET (left \cup fresh) :
               rt' = [rt EXCEPT !.pc = "pass", !.passNow = now,
                                !.nextDue = MinOf(@, pending[rt.cur].due),
                                !.toVisit = next,
                                !.seen = @ \cup fresh]
  /\ UNCHANGED pending
  /\ RtUnchanged

\* wait_until(next_due) returns on timeout.  A wait pending at the model's
\* time horizon may also return (a spurious wakeup, which the standard
\* allows), so that no wait is stuck only because the clock is bounded.
RetryTimeout ==
  /\ rt.pc = "waitTimed"
  /\ now >= rt.deadline \/ now = MaxTime
  /\ rt' = [rt EXCEPT !.pc = "loop"]
  /\ UNCHANGED pending
  /\ RtUnchanged

-----------------------------------------------------------------------------
(* IpcBus::~IpcBus: running_ = false and notify_all without taking         *)
(* pending_mutex_, join the retry thread, then stop the transport.  The    *)
(* destructor runs once no publish call is in progress.                    *)

DtorSignal ==
  /\ dtor = "alive"
  /\ \A p \in Publishers : pub[p].pc = "idle"
  /\ running' = FALSE
  /\ rt' = WakeRetry(rt)
  /\ dtor' = "joining"
  /\ UNCHANGED <<now, nextSequence, pending, pub, toPeer, toBus, sends,
                 delivered, acked>>

DtorJoin ==
  /\ dtor = "joining"
  /\ rt.pc = "exited"
  /\ dtor' = "stopped"
  /\ UNCHANGED <<now, nextSequence, pending, running, pub, rt, toPeer, toBus,
                 sends, delivered, acked>>

Tick ==
  /\ now < MaxTime
  /\ now' = now + 1
  /\ UNCHANGED <<nextSequence, pending, running, pub, rt, toPeer, toBus, dtor,
                 sends, delivered, acked>>

-----------------------------------------------------------------------------

Init ==
  /\ now = 0
  /\ nextSequence = 1
  /\ pending = [s \in {} |-> [retries |-> 0, due |-> 0]]
  /\ running = TRUE
  /\ pub = [p \in Publishers |-> [pc |-> "idle", seq |-> 0,
                                  qos |-> BestEffort, fits |-> TRUE]]
  /\ rt = [pc |-> "loop", passNow |-> 0, nextDue |-> 0, deadline |-> 0,
           toVisit |-> {}, seen |-> {}, cur |-> 0]
  /\ toPeer = <<>>
  /\ toBus = <<>>
  /\ dtor = "alive"
  /\ sends = [s \in Seqs |-> 0]
  /\ delivered = [s \in Seqs |-> 0]
  /\ acked = {}

Next ==
  \/ \E p \in Publishers : \/ PublishStart(p) \/ PublishRegister(p)
                           \/ PublishNotify(p) \/ PublishSend(p)
  \/ BusReceive
  \/ PeerReceive
  \/ RetryLoop \/ RetryCheck \/ RetryPassEnd \/ RetryVisit
  \/ \E fits \in BOOLEAN : RetrySend(fits)
  \/ RetryRelock \/ RetryTimeout
  \/ DtorSignal \/ DtorJoin
  \/ Tick

\* Every thread of the bus, the transport's delivery and the peer keep
\* running when they can; the user is not obliged to publish or to destroy.
Fairness ==
  /\ \A p \in Publishers : WF_vars(PublishRegister(p) \/ PublishNotify(p)
                                   \/ PublishSend(p))
  /\ WF_vars(BusReceive) /\ WF_vars(PeerReceive)
  /\ WF_vars(RetryLoop \/ RetryCheck \/ RetryPassEnd \/ RetryVisit
             \/ (\E fits \in BOOLEAN : RetrySend(fits)) \/ RetryRelock
             \/ RetryTimeout)
  /\ WF_vars(DtorJoin)
  /\ WF_vars(Tick)

Spec == Init /\ [][Next]_vars /\ Fairness

-----------------------------------------------------------------------------

TypeOK ==
  /\ now \in 0 .. MaxTime
  /\ nextSequence \in 1 .. MaxPublish + 1
  /\ DOMAIN pending \subseteq Seqs
  /\ \A s \in DOMAIN pending : pending[s] \in PendingMessage
  /\ running \in BOOLEAN
  /\ \A p \in Publishers :
       pub[p].pc \in {"idle", "register", "notify", "send"}
  /\ rt.pc \in RtPcs
  /\ toPeer \in Seq(Frame) /\ toBus \in Seq(Frame)
  /\ dtor \in {"alive", "joining", "stopped"}
  /\ sends \in [Seqs -> Nat] /\ delivered \in [Seqs -> Nat]
  /\ acked \subseteq Seqs

(* Safety, publish vs. the ack path: once handle_ack has processed the ack *)
(* for a sequence, no pending entry for that sequence exists, now or       *)
(* later.  It fails if publish registered the PendingMessage after handing *)
(* the bytes to the transport, or if the ack cleared the wrong key.        *)
AckedNeverPending == \A s \in acked : s \notin DOMAIN pending

(* Safety, retry budget: the bus hands a sequence to the transport at most *)
(* 1 + retry_count times (the original send and retry_loop's resends),     *)
(* however acks, publishes and the retry pass interleave.                  *)
SendBudget == \A s \in Seqs : sends[s] <= 1 + RetryCount

(* Spec section 8: once a matching ack is processed, no further resend of  *)
(* that sequence occurs.  retry_loop copies the message, unlocks and then  *)
(* sends, so an ack processed in between is followed by a resend.          *)
NoResendAfterAck ==
  [][\A s \in acked : sends'[s] = sends[s]]_vars

(* Spec section 4.1: the retry scheduler must tolerate an entry removed by *)
(* an ack mid-pass.  When retry_loop goes to sleep it must wake no later   *)
(* than the earliest due time of a pending entry whose publisher has       *)
(* already notified it.                                                    *)
NoOversleep ==
  rt.pc = "waitTimed" =>
    \A s \in DOMAIN pending :
      (\A p \in Publishers : ~(pub[p].pc = "notify" /\ pub[p].seq = s))
        => rt.deadline <= pending[s].due

(* Liveness, teardown: once ~IpcBus has signalled the retry thread, the    *)
(* join returns.  The destructor stores running_ and notifies without      *)
(* holding pending_mutex_, so a notify may fall between the thread's check *)
(* of running_ and its wait on an empty pending_ map.                      *)
ShutdownCompletes == dtor = "joining" ~> dtor = "stopped"

-----------------------------------------------------------------------------
(* Refinement: the bookkeeping of pending_, the publish threads and the    *)
(* retry thread, seen as the credit protocol of AckRetry.  A publisher    *)
(* that has stamped an at-least-once message but not yet inserted it into *)
(* pending_ counts as tracked with its full budget; a publisher before its *)
(* send, or the retry thread in its unlocked send window, holds a         *)
(* committed transmission.                                                *)

Registering == {pub[p].seq : p \in {q \in Publishers : pub[q].pc = "register"}}

Owed(s) ==
  Cardinality({p \in Publishers :
                 pub[p].pc \in {"register", "notify", "send"} /\ pub[p].seq = s})
  + (IF rt.pc = "send" /\ rt.cur = s THEN 1 ELSE 0)

AR == INSTANCE AckRetry WITH
        issued  <- 1 .. nextSequence - 1,
        tracked <- DOMAIN pending \cup Registering,
        credit  <- [s \in Seqs |-> IF s \in DOMAIN pending THEN pending[s].retries
                                  ELSE IF s \in Registering THEN RetryCount
                                  ELSE 0],
        owed    <- [s \in Seqs |-> Owed(s)],
        sent    <- sends

(* Refinement (publish, handle_ack, retry_loop): every step of the bus is  *)
(* a step of the credit protocol, or leaves it unchanged: a resend is     *)
(* committed only while its entry is in pending_ and spends one of its    *)
(* retry_count credits, a transmission happens only as committed, and an  *)
(* entry leaves pending_ only by its ack or with no credit left.          *)
ImplementsAckRetry == AR!Spec

=============================================================================
