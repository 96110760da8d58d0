------------------------------ MODULE LocalBus ------------------------------
(***************************************************************************)
(* IpcBus over LocalTransport, the default IpcBus() topology (ipc_bus.cpp, *)
(* local_transport.cpp): LocalTransport::publish calls the bus's receive  *)
(* callback on the publishing thread, so deserialize, dispatch, send_ack   *)
(* and the user handlers all run inside IpcBus::publish, while it holds    *)
(* send_mutex_.  Handlers may themselves publish (spec 4.1 allows it).     *)
(*                                                                         *)
(* Each thread has a call stack of publish activations.  subscriptions_    *)
(* and its mutex_ are modelled with subscribe, unsubscribe and the handler *)
(* snapshot of dispatch; a handler is named by its subscription id.  The   *)
(* pending_ bookkeeping of at-least-once publishes is modelled in IpcBus.  *)
(* Locking std::mutex twice from one thread is undefined; with glibc's     *)
(* default (non error-checking) mutex the thread blocks for ever, which is *)
(* the outcome modelled.                                                   *)
(***************************************************************************)
EXTENDS Naturals, Sequences, FiniteSets

CONSTANTS
  Threads,      \* user threads
  Topics,       \* topic strings (exact-match keys)
  MaxSubs,      \* bound on subscribe calls
  MaxPublish,   \* bound on publish calls, handlers' included
  MaxDepth      \* bound on publish calls nested inside handlers

ASSUME MaxSubs \in Nat /\ MaxPublish \in Nat /\ MaxDepth \in Nat \ {0}

BestEffort == 0
AtLeastOnce == 1
None == "none"
Ids == 1 .. MaxSubs

VARIABLES
  subs,         \* subscriptions_ : id -> topic
  nextId,       \* next_id_
  sendOwner,    \* the thread holding send_mutex_, or None
  stack,        \* per thread: the publish activations in progress
  published     \* number of publish calls so far

vars == <<subs, nextId, sendOwner, stack, published>>

\* A publish activation: where it is, its message, and the handlers of its
\* dispatch's snapshot not yet called.
Activation == [pc : {"send", "ack", "snapshot", "invoke",
                     "deadlocked"},
               topic : Topics, qos : {BestEffort, AtLeastOnce},
               todo : SUBSET Ids]

Top(t) == stack[t][Len(stack[t])]
SetTop(t, a) == stack' = [stack EXCEPT ![t][Len(stack[t])] = a]
Idle(t) == stack[t] = <<>>

\* std::mutex::lock on send_mutex_: taken when free; a thread that already
\* holds it blocks for ever; otherwise the thread waits (not enabled).
LockSend(t, next) ==
  \/ /\ sendOwner = None
     /\ sendOwner' = t
     /\ SetTop(t, [Top(t) EXCEPT !.pc = next])
  \/ /\ sendOwner = t
     /\ SetTop(t, [Top(t) EXCEPT !.pc = "deadlocked"])
     /\ UNCHANGED sendOwner

NewActivation(topic, q) ==
  [pc |-> "send", topic |-> topic, qos |-> q, todo |-> {}]

-----------------------------------------------------------------------------

\* IpcBus::subscribe: a non-empty topic and a handler get a fresh id.
Subscribe(t, topic) ==
  /\ Idle(t)
  /\ nextId <= MaxSubs
  /\ subs' = [i \in DOMAIN subs \cup {nextId} |->
                IF i = nextId THEN topic ELSE subs[i]]
  /\ nextId' = nextId + 1
  /\ UNCHANGED <<sendOwner, stack, published>>

\* IpcBus::unsubscribe: erase, a no-op for an unknown id.
Unsubscribe(t, id) ==
  /\ Idle(t)
  /\ subs' = [i \in DOMAIN subs \ {id} |-> subs[i]]
  /\ UNCHANGED <<nextId, sendOwner, stack, published>>

\* A user call of IpcBus::publish (pending_ registration aside).
PublishCall(t, topic, q) ==
  /\ Idle(t)
  /\ published < MaxPublish
  /\ stack' = [stack EXCEPT ![t] = <<NewActivation(topic, q)>>]
  /\ published' = published + 1
  /\ UNCHANGED <<subs, nextId, sendOwner>>

\* publish takes send_mutex_, serializes, and LocalTransport::publish hands
\* the bytes to the bus callback on this thread: deserialize and dispatch.
\* dispatch sends an ack first for an at-least-once message.
PublishSend(t) ==
  /\ ~Idle(t)
  /\ Top(t).pc = "send"
  /\ LockSend(t, IF Top(t).qos = AtLeastOnce THEN "ack" ELSE "snapshot")
  /\ UNCHANGED <<subs, nextId, published>>

\* send_ack: lock send_mutex_, serialize the ack, LocalTransport delivers it
\* to dispatch, which runs handle_ack, then unlock.
SendAck(t) ==
  /\ ~Idle(t)
  /\ Top(t).pc = "ack"
  /\ IF sendOwner = t
     THEN SetTop(t, [Top(t) EXCEPT !.pc = "deadlocked"])
     ELSE /\ sendOwner = None
          /\ SetTop(t, [Top(t) EXCEPT !.pc = "snapshot"])
  /\ UNCHANGED <<subs, nextId, sendOwner, published>>

\* Under mutex_: the handlers whose subscription topic matches exactly.
Snapshot(t) ==
  /\ ~Idle(t)
  /\ Top(t).pc = "snapshot"
  /\ LET hs == {i \in DOMAIN subs : subs[i] = Top(t).topic} IN
       SetTop(t, [Top(t) EXCEPT !.pc = "invoke", !.todo = hs])
  /\ UNCHANGED <<subs, nextId, sendOwner, published>>

\* Call the next handler of the snapshot, outside mutex_.  The handler may
\* return at once or publish on this thread.
Invoke(t) ==
  /\ ~Idle(t)
  /\ Top(t).pc = "invoke"
  /\ Top(t).todo # {}
  /\ \E h \in Top(t).todo :
       LET a == [Top(t) EXCEPT !.todo = @ \ {h}] IN
       \/ /\ SetTop(t, a)
          /\ UNCHANGED published
       \/ /\ Len(stack[t]) < MaxDepth
          /\ published < MaxPublish
          /\ \E topic \in Topics, q \in {BestEffort, AtLeastOnce} :
               stack' = [stack EXCEPT ![t] =
                           Append([@ EXCEPT ![Len(@)] = a],
                                  NewActivation(topic, q))]
          /\ published' = published + 1
  /\ UNCHANGED <<subs, nextId, sendOwner>>

\* Every handler called: dispatch returns, LocalTransport::publish returns,
\* the lock_guard releases send_mutex_ and publish returns to its caller.
PublishReturn(t) ==
  /\ ~Idle(t)
  /\ Top(t).pc = "invoke"
  /\ Top(t).todo = {}
  /\ sendOwner' = None
  /\ stack' = [stack EXCEPT ![t] = SubSeq(@, 1, Len(@) - 1)]
  /\ UNCHANGED <<subs, nextId, published>>

-----------------------------------------------------------------------------

Init ==
  /\ subs = [i \in {} |-> CHOOSE x \in Topics : TRUE]
  /\ nextId = 1
  /\ sendOwner = None
  /\ stack = [t \in Threads |-> <<>>]
  /\ published = 0

Next ==
  \E t \in Threads :
    \/ \E topic \in Topics : Subscribe(t, topic)
    \/ \E id \in Ids : Unsubscribe(t, id)
    \/ \E topic \in Topics, q \in {BestEffort, AtLeastOnce} :
         PublishCall(t, topic, q)
    \/ PublishSend(t) \/ SendAck(t) \/ Snapshot(t) \/ Invoke(t)
    \/ PublishReturn(t)

\* A thread inside publish keeps running when it can.
Fairness ==
  \A t \in Threads : WF_vars(PublishSend(t) \/ SendAck(t) \/ Snapshot(t)
                             \/ Invoke(t) \/ PublishReturn(t))

Spec == Init /\ [][Next]_vars /\ Fairness

-----------------------------------------------------------------------------

TypeOK ==
  /\ DOMAIN subs \subseteq Ids /\ \A i \in DOMAIN subs : subs[i] \in Topics
  /\ nextId \in 1 .. MaxSubs + 1
  /\ sendOwner \in Threads \cup {None}
  /\ \A t \in Threads : stack[t] \in Seq(Activation)
  /\ published \in 0 .. MaxPublish

(* Spec 4.1 and 5: handlers run unlocked, so a handler may publish without *)
(* deadlocking, and an at-least-once publish acknowledges itself through   *)
(* the loopback: every publish call eventually returns.                    *)
PublishReturns ==
  \A t \in Threads : ~Idle(t) ~> Idle(t)

=============================================================================
