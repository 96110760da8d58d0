---------------------------- MODULE RtStageSpec -----------------------------
(***************************************************************************)
(* What an RtStage promises its caller, without queues or threads: items   *)
(* offered by push are accepted or refused, accepted items are handled in  *)
(* order into results, a result is lost only when the output side is full, *)
(* and pop returns the results in order.  A push is refused only when the  *)
(* input side holds its capacity.  While the stage runs, accepted items do *)
(* not wait for ever.                                                      *)
(*                                                                         *)
(* todo: accepted, not yet handled;  done: results not yet popped;        *)
(* delivered: results popped;  on: the stage is running.                   *)
(***************************************************************************)
EXTENDS Naturals, Sequences

CONSTANTS Capacity, OutCapacity, MaxItems

VARIABLES on, todo, done, delivered, next

avars == <<on, todo, done, delivered, next>>

Init ==
  /\ on = FALSE /\ todo = <<>> /\ done = <<>> /\ delivered = <<>> /\ next = 1

\* The next item is offered: accepted while the input side has room (one
\* item may already be in the handler), refused only when it is full.
Offer ==
  /\ next <= MaxItems /\ next' = next + 1
  /\ \/ Len(todo) <= Capacity /\ todo' = Append(todo, next)
     \/ Len(todo) >= Capacity /\ UNCHANGED todo
  /\ UNCHANGED <<on, done, delivered>>

\* The oldest accepted item is handled and its result kept.
Process ==
  /\ todo # <<>> /\ Len(done) < OutCapacity
  /\ done' = Append(done, Head(todo)) /\ todo' = Tail(todo)
  /\ UNCHANGED <<on, delivered, next>>

\* The oldest accepted item is handled and its result lost: output is full.
Drop ==
  /\ todo # <<>> /\ Len(done) >= OutCapacity
  /\ todo' = Tail(todo)
  /\ UNCHANGED <<on, done, delivered, next>>

\* The oldest result is returned to the caller.
Deliver ==
  /\ done # <<>>
  /\ delivered' = Append(delivered, Head(done)) /\ done' = Tail(done)
  /\ UNCHANGED <<on, todo, next>>

Run  == on' = TRUE  /\ UNCHANGED <<todo, done, delivered, next>>
Halt == on' = FALSE /\ UNCHANGED <<todo, done, delivered, next>>

Next == Offer \/ Process \/ Drop \/ Deliver \/ Run \/ Halt

\* A running stage keeps handling what it has accepted.
Spec == Init /\ [][Next]_avars /\ WF_avars(on /\ (Process \/ Drop))

=============================================================================
