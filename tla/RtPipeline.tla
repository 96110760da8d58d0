----------------------------- MODULE RtPipeline -----------------------------
(***************************************************************************)
(* RtStage<In, Out> of rt_pipeline.h over two RtQueue<T> of rt_queue.h: the *)
(* main thread starts the stage, pushes into its input queue (try_push),    *)
(* pops from its output queue (try_pop) and stops it; the stage thread      *)
(* loops pop_for(10 ms) on the input queue, applies the handler and         *)
(* try_pushes the result into the output queue, whose capacity is 64 in    *)
(* the code.  Every queue method runs under the queue's mutex and is one    *)
(* step; a wait_for with a predicate re-checks it under the lock, so it     *)
(* returns with an item as soon as one is there and times out only on an   *)
(* empty queue.  Items are the numbers 1..MaxItems pushed in order; the     *)
(* handler is the identity, since what it computes is not in question.      *)
(***************************************************************************)
EXTENDS Naturals, Sequences, SequencesExt

CONSTANTS
  Capacity,      \* the input queue's capacity (constructor argument)
  OutCapacity,   \* output_'s capacity, 64 in the code
  MaxItems       \* bound on the items the main thread pushes

Items == 1 .. MaxItems
None == 0

VARIABLES
  running,   \* running_
  ctl,       \* main thread: "new", "up", "stopping" (in join), "stopped"
  stage,     \* stage thread: "idle", "loop", "wait", "handle", "done"
  cur,       \* the item the stage thread holds between pop_for and try_push
  inQ,       \* queue_.queue_
  outQ,      \* output_.queue_
  next,      \* the next item the main thread pushes
  accepted,  \* history: items whose push returned true, in order
  dropped,   \* history: results output_.try_push refused
  popped     \* history: results pop returned, in order

vars == <<running, ctl, stage, cur, inQ, outQ, next, accepted, dropped, popped>>

-----------------------------------------------------------------------------
(* RtQueue<T>                                                              *)

\* The state of an RtQueue<T>: its deque, never longer than capacity_.
Queue(cap) == {q \in Seq(Items) : Len(q) <= cap}

\* Mutant of TryPush: the capacity test is missing.
TryPushUnbounded(q, x, cap) == Append(q, x)

\* Mutant of TryPush: refuses one item early (size() + 1 >= capacity_).
TryPushEarly(q, x, cap) == IF Len(q) + 1 >= cap THEN q ELSE Append(q, x)

\* try_push: refuse at capacity, otherwise push_back (and notify_one).
TryPush(q, x, cap) == IF Len(q) >= cap THEN q ELSE Append(q, x)

\* Mutant of PopFront: front() is read but pop_front() is missing.
PopFrontKeep(q) == q

\* The front()/pop_front() pair of try_pop and pop_for.
PopFront(q) == Tail(q)

-----------------------------------------------------------------------------

Init ==
  /\ running = FALSE /\ ctl = "new" /\ stage = "idle" /\ cur = None
  /\ inQ = <<>> /\ outQ = <<>> /\ next = 1
  /\ accepted = <<>> /\ dropped = {} /\ popped = <<>>

\* start(): running_ = true, then the thread is created and enters run().
\* After stop() the old thread is joined, so a stage may be started again.
Start ==
  /\ ctl \in {"new", "stopped"}
  /\ running' = TRUE /\ ctl' = "up" /\ stage' = "loop"
  /\ UNCHANGED <<cur, inQ, outQ, next, accepted, dropped, popped>>

\* push(item) == queue_.try_push(item); legal before start and after stop.
Push ==
  /\ ctl \in {"new", "up", "stopped"} /\ next <= MaxItems
  /\ inQ' = TryPush(inQ, next, Capacity)
  /\ accepted' = IF Len(inQ) >= Capacity THEN accepted ELSE Append(accepted, next)
  /\ next' = next + 1
  /\ UNCHANGED <<running, ctl, stage, cur, outQ, dropped, popped>>

\* pop(out) == output_.try_pop(out): false on an empty queue.
Pop ==
  /\ ctl \in {"new", "up", "stopped"} /\ outQ # <<>>
  /\ popped' = Append(popped, Head(outQ))
  /\ outQ' = PopFront(outQ)
  /\ UNCHANGED <<running, ctl, stage, cur, inQ, next, accepted, dropped>>

\* stop(): running_ = false; join only if a thread was started.
Stop ==
  /\ ctl \in {"new", "up"}
  /\ running' = FALSE
  /\ ctl' = IF ctl = "up" THEN "stopping" ELSE "stopped"
  /\ UNCHANGED <<stage, cur, inQ, outQ, next, accepted, dropped, popped>>

StopJoin ==
  /\ ctl = "stopping" /\ stage = "done"
  /\ ctl' = "stopped"
  /\ UNCHANGED <<running, stage, cur, inQ, outQ, next, accepted, dropped, popped>>

-----------------------------------------------------------------------------
(* The stage thread: run()                                                 *)

\* while (running_.load()) is false: run() returns.
StageExit ==
  /\ stage = "loop" /\ ~running
  /\ stage' = "done"
  /\ UNCHANGED <<running, ctl, cur, inQ, outQ, next, accepted, dropped, popped>>

\* pop_for finds an item at once, or is woken by try_push's notify_one (or
\* a spurious wakeup) with the predicate true: it takes the front.
StageTake ==
  /\ \/ stage = "loop" /\ running
     \/ stage = "wait"
  /\ inQ # <<>>
  /\ cur' = Head(inQ) /\ inQ' = PopFront(inQ)
  /\ stage' = "handle"
  /\ UNCHANGED <<running, ctl, outQ, next, accepted, dropped, popped>>

\* pop_for finds the queue empty and waits on not_empty_.
StageBlock ==
  /\ stage = "loop" /\ running /\ inQ = <<>>
  /\ stage' = "wait"
  /\ UNCHANGED <<running, ctl, cur, inQ, outQ, next, accepted, dropped, popped>>

\* Mutant of StageTimeout: the wait has no timeout (not_empty_.wait).
StageTimeoutNever == FALSE

\* The 10 ms elapse with the queue still empty: pop_for returns false and
\* the loop continues.
StageTimeout ==
  /\ stage = "wait" /\ inQ = <<>>
  /\ stage' = "loop"
  /\ UNCHANGED <<running, ctl, cur, inQ, outQ, next, accepted, dropped, popped>>

\* out = handler_(input); output_.try_push(out), whose false result is
\* ignored: a result that finds output_ full is lost.
StageHandle ==
  /\ stage = "handle"
  /\ outQ' = TryPush(outQ, cur, OutCapacity)
  /\ dropped' = IF Len(outQ) >= OutCapacity THEN dropped \cup {cur} ELSE dropped
  /\ cur' = None /\ stage' = "loop"
  /\ UNCHANGED <<running, ctl, inQ, next, accepted, popped>>

StageThread == StageExit \/ StageTake \/ StageBlock \/ StageTimeout \/ StageHandle

Next ==
  \/ Start \/ Push \/ Pop \/ Stop \/ StopJoin
  \/ StageThread

\* The stage thread and a stop in progress are scheduled; the main thread's
\* calls are the application's choice.
Spec == Init /\ [][Next]_vars /\ WF_vars(StageThread) /\ WF_vars(StopJoin)

-----------------------------------------------------------------------------

TypeOK ==
  /\ running \in BOOLEAN
  /\ ctl \in {"new", "up", "stopping", "stopped"}
  /\ stage \in {"idle", "loop", "wait", "handle", "done"}
  /\ cur \in Items \cup {None} /\ (stage = "handle") = (cur # None)
  /\ inQ \in Queue(Capacity) /\ outQ \in Queue(OutCapacity)
  /\ next \in 1 .. MaxItems + 1
  /\ dropped \subseteq Items

\* Where the accepted items are now, in pipeline order.
InFlight == popped \o outQ \o (IF stage = "handle" THEN <<cur>> ELSE <<>>) \o inQ

(* The two queues and the stage thread neither lose, duplicate nor        *)
(* reorder an item: what pop returned, then output_, the item the stage    *)
(* thread holds, then queue_, are exactly the items push accepted, in      *)
(* order, less the results run() lost to a full output_.                   *)
PipelineOrder == InFlight = SelectSeq(accepted, LAMBDA i : i \notin dropped)

(* stop() returns once called on a started stage: the stage thread blocked *)
(* in pop_for wakes after its 10 ms timeout, sees running_ false and       *)
(* leaves run(), so the join completes.                                     *)
StopReturns == ctl = "stopping" ~> ctl = "stopped"

\* The item the stage thread holds, then queue_: accepted, not yet handled.
Unhandled == (IF stage = "handle" THEN <<cur>> ELSE <<>>) \o inQ

S == INSTANCE RtStageSpec WITH
       on <- running, todo <- Unhandled, done <- outQ, delivered <- popped

(* RtStage implements its abstract specification: push is refused only   *)
(* when queue_ is full, run() loses a result only when output_ is full,   *)
(* results reach pop in order, and a running stage thread keeps handling  *)
(* what queue_ holds (pop_for's wakeup and 10 ms timeout never strand an  *)
(* item).                                                                 *)
ImplementsRtStage == S!Spec

=============================================================================
