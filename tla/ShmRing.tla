------------------------------- MODULE ShmRing -------------------------------
(***************************************************************************)
(* The shared-memory ring of ShmTransport (src/src/ipc/src/shm_transport.  *)
(* cpp): the ShmRingBuffer header and byte region shared by several        *)
(* processes, each attached as a consumer with its own slot and receive    *)
(* thread, and any of them publishing frames into the ring.                *)
(*                                                                         *)
(* Every section between pthread_mutex_lock and unlock (or a wait on       *)
(* not_empty) is one atomic step.  A byte of the region holds the frame it *)
(* was written for and its index in that frame ([f |-> 0] for a byte never *)
(* written), so a reader reconstructs a length prefix and a payload from   *)
(* the bytes actually present: a frame read from overwritten bytes shows   *)
(* up as a corrupt read.  The ring was initialised by its owner (init_ring)*)
(* before any process in Procs started; the owner's own re-initialisation *)
(* is not part of this module.                                             *)
(***************************************************************************)
EXTENDS Naturals, Sequences, FiniteSets

CONSTANTS
  Procs,        \* processes attached as consumers, one slot each
  Capacity,     \* ShmTransportConfig::size_bytes (the ring's capacity)
  Lens,         \* payload sizes publish is called with
  MaxWrites,    \* bound on successful writes
  MaxStarts,    \* bound on start() calls per process
  Mortal        \* processes that may crash

ASSUME /\ Capacity \in Nat \ {0}
       /\ Lens \subseteq Nat \ {0}
       /\ MaxWrites \in Nat /\ MaxStarts \in Nat \ {0}
       /\ Mortal \subseteq Procs

LenBytes == 4               \* sizeof(uint32_t) length prefix
Offsets == 0 .. Capacity - 1
NoByte == [f |-> 0, k |-> 0]
Corrupt == 0                \* what a reader records for a garbled frame

VARIABLES
  head,       \* ring->head
  tails,      \* ring->tails[slot]
  active,     \* ring->active[slot]
  cells,      \* ring->data
  log,        \* history: payload length of every frame written, in order
  running,    \* running_ of each process
  spc,        \* lifecycle of each process: start / stop progress
  tpc,        \* program counter of each process's receive thread
  ltail,      \* read_frame's local `tail`
  llen,       \* read_frame's local `length`
  lframe,     \* frame whose length prefix read_frame decoded
  waitNE,     \* threads blocked in pthread_cond_wait(not_empty)
  got,        \* history: frames delivered to the handler since attach
  since,      \* history: Len(log) when the process last attached
  starts      \* number of start() calls per process

vars == <<head, tails, active, cells, log, running, spc, tpc, ltail, llen,
          lframe, waitNE, got, since, starts>>

-----------------------------------------------------------------------------
(* The ring helpers of shm_transport.cpp.                                  *)

\* aligned_size: round up to a multiple of 8.
AlignedSize(v) == ((v + 7) \div 8) * 8

\* ring_min_tail: the smallest tail offset among active slots, or head.
RingMinTail ==
  LET act == {p \in Procs : active[p]} IN
  IF act = {} THEN head
  ELSE CHOOSE t \in {tails[p] : p \in act} : \A p \in act : t <= tails[p]

\* ring_has_space
RingHasSpace(needed) ==
  LET tail == RingMinTail IN
  IF head >= tail THEN (Capacity - (head - tail) - 1) >= needed
  ELSE (tail - head - 1) >= needed

\* ring_size: bytes between a tail and head.
RingSize(tail) ==
  IF head >= tail THEN head - tail ELSE Capacity - (tail - head)

\* ring_write of the length prefix followed by the payload of frame f.
WriteBytes(f, len) ==
  [i \in Offsets |->
     LET d == (i - head + Capacity) % Capacity IN
     IF d < LenBytes + len THEN [f |-> f, k |-> d] ELSE cells[i]]

\* The frame whose bytes 0..n-1 sit at offsets t .. t+n-1, or Corrupt.
FrameAt(t, first, n) ==
  LET c == cells[t] IN
  IF /\ c.f # 0
     /\ \A i \in 0 .. n - 1 :
          cells[(t + i) % Capacity] = [f |-> c.f, k |-> first + i]
  THEN c.f ELSE Corrupt

\* Mutant of AdvanceHead: head not reduced modulo the capacity.
AdvanceHeadNoWrap(len) == head + LenBytes + len

\* ring_write's head update, over the prefix and the payload.
AdvanceHead(len) == (head + LenBytes + len) % Capacity

-----------------------------------------------------------------------------
\* Mutant of Start: the slot's tail starts at offset 0, not at head.
StartAtZero(p) ==
  /\ spc[p] \in {"stopped", "crashed"}
  /\ starts[p] < MaxStarts
  /\ running' = [running EXCEPT ![p] = TRUE]
  /\ active' = [active EXCEPT ![p] = TRUE]
  /\ tails' = [tails EXCEPT ![p] = 0]
  /\ tpc' = [tpc EXCEPT ![p] = "loop"]
  /\ spc' = [spc EXCEPT ![p] = "started"]
  /\ got' = [got EXCEPT ![p] = <<>>]
  /\ since' = [since EXCEPT ![p] = Len(log)]
  /\ starts' = [starts EXCEPT ![p] = @ + 1]
  /\ UNCHANGED <<head, cells, log, ltail, llen, lframe, waitNE>>

(* ShmTransport::start: mark the slot active at the current head, then    *)
(* spawn the receive thread.                                               *)
Start(p) ==
  /\ spc[p] \in {"stopped", "crashed"}
  /\ starts[p] < MaxStarts
  /\ running' = [running EXCEPT ![p] = TRUE]
  /\ active' = [active EXCEPT ![p] = TRUE]
  /\ tails' = [tails EXCEPT ![p] = head]
  /\ tpc' = [tpc EXCEPT ![p] = "loop"]
  /\ spc' = [spc EXCEPT ![p] = "started"]
  /\ got' = [got EXCEPT ![p] = <<>>]
  /\ since' = [since EXCEPT ![p] = Len(log)]
  /\ starts' = [starts EXCEPT ![p] = @ + 1]
  /\ UNCHANGED <<head, cells, log, ltail, llen, lframe, waitNE>>

(* ShmTransport::start when shm_open, the owner's ftruncate or mmap fails: *)
(* running_ is set and cleared again (directly, or by stop() with no      *)
(* mapping and no thread to join), the slot is never attached and no     *)
(* receive thread runs.  Nothing another process can see changes.        *)
StartFail(p) ==
  /\ spc[p] \in {"stopped", "crashed"}
  /\ starts[p] < MaxStarts
  /\ starts' = [starts EXCEPT ![p] = @ + 1]
  /\ UNCHANGED <<head, tails, active, cells, log, running, spc, tpc, ltail,
                 llen, lframe, waitNE, got, since>>

\* ShmTransport::stop, first step: running_.exchange(false).
StopBegin(p) ==
  /\ spc[p] = "started"
  /\ running' = [running EXCEPT ![p] = FALSE]
  /\ spc' = [spc EXCEPT ![p] = "detach"]
  /\ UNCHANGED <<head, tails, active, cells, log, tpc, ltail, llen, lframe,
                 waitNE, got, since, starts>>

\* Under the mutex: deactivate the slot, reset its tail to head, broadcast
\* not_empty and not_full.
StopDetach(p) ==
  /\ spc[p] = "detach"
  /\ active' = [active EXCEPT ![p] = FALSE]
  /\ tails' = [tails EXCEPT ![p] = head]
  /\ tpc' = [q \in Procs |-> IF q \in waitNE
                             THEN IF tpc[q] = "waitLen" THEN "wokeLen"
                                  ELSE "wokePay"
                             ELSE tpc[q]]
  /\ waitNE' = {}
  /\ spc' = [spc EXCEPT ![p] = "join"]
  /\ UNCHANGED <<head, cells, log, running, ltail, llen, lframe, got, since,
                 starts>>

\* receiver_thread_.join(), then munmap and close.
StopJoin(p) ==
  /\ spc[p] = "join"
  /\ tpc[p] = "exited"
  /\ spc' = [spc EXCEPT ![p] = "stopped"]
  /\ tpc' = [tpc EXCEPT ![p] = "idle"]
  /\ UNCHANGED <<head, tails, active, cells, log, running, ltail, llen,
                 lframe, waitNE, got, since, starts>>

(* A process with the segment mapped dies between two mutex sections: its *)
(* threads are gone, and nothing in the code clears its slot, so the slot *)
(* stays active with its tail where it was.  A process started later with *)
(* the same consumer_id takes the slot over (Start).                       *)
Crash(p) ==
  /\ p \in Mortal
  /\ spc[p] \in {"started", "detach", "join"}
  /\ spc' = [spc EXCEPT ![p] = "crashed"]
  /\ tpc' = [tpc EXCEPT ![p] = "dead"]
  /\ running' = [running EXCEPT ![p] = FALSE]
  /\ waitNE' = waitNE \ {p}
  /\ UNCHANGED <<head, tails, active, cells, log, ltail, llen, lframe, got,
                 since, starts>>

-----------------------------------------------------------------------------
(* ShmTransport::publish -> write_frame, by a started process.  No space:  *)
(* signal not_full (nobody waits on it) and fail.  Otherwise write the     *)
(* length prefix and payload and signal not_empty, which wakes at most one *)
(* waiting thread of any process.                                          *)

\* pthread_cond_signal(not_empty)
SignalNotEmpty ==
  IF waitNE = {}
  THEN UNCHANGED <<tpc, waitNE>>
  ELSE \E q \in waitNE :
         /\ waitNE' = waitNE \ {q}
         /\ tpc' = [tpc EXCEPT ![q] = IF @ = "waitLen" THEN "wokeLen"
                                      ELSE "wokePay"]

WriteFrame(p, len) ==
  /\ running[p]
  /\ Len(log) < MaxWrites
  /\ RingHasSpace(AlignedSize(LenBytes + len))
  /\ cells' = WriteBytes(Len(log) + 1, len)
  /\ head' = AdvanceHead(len)
  /\ log' = Append(log, len)
  /\ SignalNotEmpty
  /\ UNCHANGED <<tails, active, running, spc, ltail, llen, lframe, got, since,
                 starts>>

-----------------------------------------------------------------------------
(* ShmTransport::receive_loop and read_frame.                              *)

RecvUnchanged == UNCHANGED <<head, active, cells, log, running, spc, since,
                            starts>>

\* while (running_.load()) read_frame ... ; the thread ends otherwise.
ReceiveLoop(p) ==
  /\ tpc[p] = "loop"
  /\ tpc' = [tpc EXCEPT ![p] = IF running[p] THEN "read" ELSE "exited"]
  /\ UNCHANGED <<tails, ltail, llen, lframe, waitNE, got>>
  /\ RecvUnchanged

\* Read the payload of lframe's entry at t; advance the slot's tail.
ReadPayload(p, t, len, f) ==
  LET g == IF f # Corrupt /\ FrameAt(t, LenBytes, len) = f THEN f
           ELSE Corrupt
  IN /\ tails' = [tails EXCEPT ![p] = (t + len) % Capacity]
     /\ got' = [got EXCEPT ![p] = Append(@, g)]
     /\ tpc' = [tpc EXCEPT ![p] = "loop"]
     /\ UNCHANGED <<ltail, llen, lframe, waitNE>>

\* Decode the length prefix at tail, then wait for or read the payload.
\* A garbled prefix decodes to a length the model does not track: any
\* value, 0 and Capacity + 1 standing for the ones read_frame rejects.
ReadLength(p, tail) ==
  LET f == FrameAt(tail, 0, LenBytes)
      t == (tail + LenBytes) % Capacity
  IN \E len \in IF f = Corrupt THEN 0 .. Capacity + 1 ELSE {log[f]} :
       IF len = 0 \/ len > Capacity
       THEN /\ tpc' = [tpc EXCEPT ![p] = "loop"]
            /\ UNCHANGED <<tails, ltail, llen, lframe, waitNE, got>>
       ELSE IF RingSize(t) < len
       THEN /\ waitNE' = waitNE \cup {p}
            /\ tpc' = [tpc EXCEPT ![p] = "waitPay"]
            /\ ltail' = [ltail EXCEPT ![p] = t]
            /\ llen' = [llen EXCEPT ![p] = len]
            /\ lframe' = [lframe EXCEPT ![p] = f]
            /\ UNCHANGED <<tails, got>>
       ELSE ReadPayload(p, t, len, f)

\* The first wait loop of read_frame, evaluated with the slot's tail.
AwaitLength(p, tail) ==
  IF running[p] /\ RingSize(tail) < LenBytes
  THEN /\ waitNE' = waitNE \cup {p}
       /\ tpc' = [tpc EXCEPT ![p] = "waitLen"]
       /\ UNCHANGED <<tails, ltail, llen, lframe, got>>
  ELSE IF ~running[p]
  THEN /\ tpc' = [tpc EXCEPT ![p] = "loop"]
       /\ UNCHANGED <<tails, ltail, llen, lframe, waitNE, got>>
  ELSE ReadLength(p, tail)

\* read_frame entry: lock; an inactive slot returns false at once.
ReadFrame(p) ==
  /\ tpc[p] = "read"
  /\ IF ~active[p]
     THEN /\ tpc' = [tpc EXCEPT ![p] = "loop"]
          /\ UNCHANGED <<tails, ltail, llen, lframe, waitNE, got>>
     ELSE AwaitLength(p, tails[p])
  /\ RecvUnchanged

\* Woken from the first wait: re-read tails[slot] and re-test.
WakeLength(p) ==
  /\ tpc[p] = "wokeLen"
  /\ AwaitLength(p, tails[p])
  /\ RecvUnchanged

\* Woken from the second wait: re-test with the local tail only.
WakePayload(p) ==
  /\ tpc[p] = "wokePay"
  /\ IF RingSize(ltail[p]) < llen[p]
     THEN /\ waitNE' = waitNE \cup {p}
          /\ tpc' = [tpc EXCEPT ![p] = "waitPay"]
          /\ UNCHANGED <<tails, ltail, llen, lframe, got>>
     ELSE ReadPayload(p, ltail[p], llen[p], lframe[p])
  /\ RecvUnchanged

-----------------------------------------------------------------------------

Init ==
  /\ head = 0
  /\ tails = [p \in Procs |-> 0]
  /\ active = [p \in Procs |-> FALSE]
  /\ cells = [i \in Offsets |-> NoByte]
  /\ log = <<>>
  /\ running = [p \in Procs |-> FALSE]
  /\ spc = [p \in Procs |-> "stopped"]
  /\ tpc = [p \in Procs |-> "idle"]
  /\ ltail = [p \in Procs |-> 0]
  /\ llen = [p \in Procs |-> 0]
  /\ lframe = [p \in Procs |-> 0]
  /\ waitNE = {}
  /\ got = [p \in Procs |-> <<>>]
  /\ since = [p \in Procs |-> 0]
  /\ starts = [p \in Procs |-> 0]

ThreadStep(p) ==
  ReceiveLoop(p) \/ ReadFrame(p) \/ WakeLength(p) \/ WakePayload(p)

Next ==
  \E p \in Procs :
    \/ Start(p) \/ StartFail(p) \/ StopBegin(p) \/ StopDetach(p) \/ StopJoin(p)
    \/ Crash(p)
    \/ \E len \in Lens : WriteFrame(p, len)
    \/ ThreadStep(p)

\* Receive threads and a stop() in progress run when they can; starting,
\* stopping and publishing are up to the application.
Fairness ==
  \A p \in Procs : /\ WF_vars(ThreadStep(p))
                   /\ WF_vars(StopDetach(p)) /\ WF_vars(StopJoin(p))

Spec == Init /\ [][Next]_vars /\ Fairness

-----------------------------------------------------------------------------

TypeOK ==
  /\ head \in Offsets
  /\ tails \in [Procs -> Offsets]
  /\ active \in [Procs -> BOOLEAN]
  /\ log \in Seq(Lens) /\ Len(log) <= MaxWrites
  /\ running \in [Procs -> BOOLEAN]
  /\ spc \in [Procs -> {"stopped", "started", "detach", "join", "crashed"}]
  /\ tpc \in [Procs -> {"idle", "loop", "read", "waitLen", "wokeLen",
                        "waitPay", "wokePay", "exited", "dead"}]
  /\ waitNE \subseteq Procs
  /\ got \in [Procs -> Seq(0 .. MaxWrites)]

(* Safety, broadcast stream (spec 3 and 4.4): what each attached consumer  *)
(* hands to its handler is exactly the frames written since it attached,   *)
(* in write order, each intact.  The writer's space check must leave every *)
(* active consumer's unread bytes alone, across wrap-around and reattach.  *)
StreamIntact ==
  \A p \in Procs :
    /\ Len(got[p]) <= Len(log) - since[p]
    /\ \A i \in 1 .. Len(got[p]) : got[p][i] = since[p] + i

(* Safety, corruption containment (spec 4.4, read_frame): whatever the ring's bytes hold, a frame *)
(* read_frame hands over intact is one written since the consumer attached *)
(* and later than every intact frame it handed over before: a garbled     *)
(* length never makes a consumer replay an old frame or go back in the    *)
(* stream.                                                                 *)
NoStaleFrame ==
  \A p \in Procs : \A i \in 1 .. Len(got[p]) :
    got[p][i] # Corrupt =>
      /\ since[p] < got[p][i] /\ got[p][i] <= Len(log)
      /\ \A j \in 1 .. i - 1 : got[p][j] # Corrupt => got[p][j] < got[p][i]

(* Liveness, teardown (spec 5): once stop() has cleared running_, its join *)
(* of the receive thread returns; every wait in read_frame must be woken   *)
(* and must re-check running_.                                             *)
StopTerminates ==
  \A p \in Procs : spc[p] = "detach" ~> spc[p] = "stopped"

(* Liveness, broadcast (spec 4.4): every active consumer eventually        *)
(* observes every byte written: while a consumer stays attached, a frame   *)
(* written after it attached is eventually handed to its handler.          *)
EveryFrameRead ==
  \A p \in Procs, i \in 1 .. MaxWrites :
    (spc[p] = "started" /\ since[p] < i /\ i <= Len(log))
      ~> (spc[p] # "started" \/ Len(got[p]) >= i - since[p])

=============================================================================
