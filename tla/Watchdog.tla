------------------------------ MODULE Watchdog ------------------------------
(***************************************************************************)
(* Watchdog of src/src/diagnostics/src/watchdog.cpp.  Owner threads call   *)
(* start(timeout, handler) and stop(); a monitored thread calls kick(); the *)
(* watchdog thread created by start runs run(): copy the configuration     *)
(* under config_mutex_, sleep timeout/4, and call the handler when more    *)
(* than timeout has passed since last_kick_ns_, which it then resets.      *)
(*                                                                         *)
(* Every atomic load, store or exchange, and every config_mutex_ section,  *)
(* is one step.  Time is a discrete steady clock that advances by Tick.    *)
(* Only differences of clock readings matter to the code, so the model     *)
(* keeps age = now - last_kick_ns_ and the time left of the current sleep, *)
(* both capped where larger values compare the same.  A handler is named   *)
(* by what it does: "none" (an empty std::function), "plain" (returns) or  *)
(* "stops" (calls stop() on the watchdog thread).                          *)
(***************************************************************************)
EXTENDS Naturals, FiniteSets

CONSTANTS
  Owners,          \* threads that call start and stop
  Timeouts,        \* timeouts start is called with, in clock ticks
  Handlers,        \* handlers start is called with
  DefaultTimeout   \* timeout_'s initial value (1000 ms)

ASSUME /\ Timeouts \subseteq Nat /\ DefaultTimeout \in Nat
       /\ Handlers \subseteq {"none", "plain", "stops"}

\* Ages beyond the largest timeout compare the same way against every one.
Cap == 1 + CHOOSE t \in Timeouts \cup {DefaultTimeout} :
             \A u \in Timeouts \cup {DefaultTimeout} : u <= t

CapAt(n) == IF n >= Cap THEN Cap ELSE n

VARIABLES
  running,     \* running_
  timeout,     \* timeout_
  handler,     \* handler_
  age,         \* now - last_kick_ns_, capped
  joinable,    \* thread_.joinable()
  opc,         \* per owner: where its start or stop call is
  arg,         \* per owner: the (timeout, handler) of its start call
  wpc,         \* the watchdog thread: "none" before start or after join
  tcopy,       \* run(): timeout_copy
  hcopy,       \* run(): handler_copy
  sleepLeft,   \* run(): ticks left of sleep_for(timeout_copy / 4)
  silence,     \* history: ticks since the last kick() or start(), capped
  terminated   \* std::terminate was called: the process is gone

vars == <<running, timeout, handler, age, joinable, opc, arg, wpc, tcopy,
          hcopy, sleepLeft, silence, terminated>>

Alive == ~terminated

-----------------------------------------------------------------------------
(* Watchdog::start                                                         *)

\* if (running_.load()) return;
StartCheck(o, t, h) ==
  /\ Alive /\ opc[o] = "idle"
  /\ opc' = [opc EXCEPT ![o] = IF running THEN "idle" ELSE "config"]
  /\ arg' = [arg EXCEPT ![o] = [t |-> t, h |-> h]]
  /\ UNCHANGED <<running, timeout, handler, age, joinable, wpc, tcopy, hcopy,
                 sleepLeft, silence, terminated>>

\* Under config_mutex_: timeout_ = timeout; handler_ = handler.
StartConfig(o) ==
  /\ Alive /\ opc[o] = "config"
  /\ timeout' = arg[o].t /\ handler' = arg[o].h
  /\ opc' = [opc EXCEPT ![o] = "kick"]
  /\ UNCHANGED <<running, age, joinable, arg, wpc, tcopy, hcopy, sleepLeft,
                 silence, terminated>>

\* last_kick_ns_.store(now_ns());
StartKick(o) ==
  /\ Alive /\ opc[o] = "kick"
  /\ age' = 0 /\ silence' = 0
  /\ opc' = [opc EXCEPT ![o] = "run"]
  /\ UNCHANGED <<running, timeout, handler, joinable, arg, wpc, tcopy, hcopy,
                 sleepLeft, terminated>>

\* running_.store(true);
StartRun(o) ==
  /\ Alive /\ opc[o] = "run"
  /\ running' = TRUE
  /\ opc' = [opc EXCEPT ![o] = "spawn"]
  /\ UNCHANGED <<timeout, handler, age, joinable, arg, wpc, tcopy, hcopy,
                 sleepLeft, silence, terminated>>

\* thread_ = std::thread(...): move-assigning to a joinable std::thread
\* calls std::terminate.
StartSpawn(o) ==
  /\ Alive /\ opc[o] = "spawn"
  /\ IF joinable
     THEN /\ terminated' = TRUE
          /\ UNCHANGED <<joinable, wpc, opc>>
     ELSE /\ joinable' = TRUE /\ wpc' = "loop"
          /\ opc' = [opc EXCEPT ![o] = "idle"]
          /\ UNCHANGED terminated
  /\ UNCHANGED <<running, timeout, handler, age, arg, tcopy, hcopy, sleepLeft,
                 silence>>

-----------------------------------------------------------------------------
(* Watchdog::stop (also run by ~Watchdog) and kick                         *)

\* if (!running_.exchange(false)) return;
StopExchange(o) ==
  /\ Alive /\ opc[o] = "idle"
  /\ running' = FALSE
  /\ opc' = [opc EXCEPT ![o] = IF running THEN "join" ELSE "idle"]
  /\ UNCHANGED <<timeout, handler, age, joinable, arg, wpc, tcopy, hcopy,
                 sleepLeft, silence, terminated>>

\* Mutant of StopJoin: the thread is detached instead of joined.
StopDetach(o) ==
  /\ Alive /\ opc[o] = "join"
  /\ joinable' = FALSE
  /\ opc' = [opc EXCEPT ![o] = "idle"]
  /\ UNCHANGED <<running, timeout, handler, age, arg, wpc, tcopy, hcopy,
                 sleepLeft, silence, terminated>>

\* if (thread_.joinable()) thread_.join(); the join returns once run() has.
StopJoin(o) ==
  /\ Alive /\ opc[o] = "join"
  /\ joinable => wpc = "exited"
  /\ joinable' = FALSE
  /\ wpc' = IF joinable THEN "none" ELSE wpc
  /\ opc' = [opc EXCEPT ![o] = "idle"]
  /\ UNCHANGED <<running, timeout, handler, age, arg, tcopy, hcopy,
                 sleepLeft, silence, terminated>>

\* kick(): last_kick_ns_.store(now_ns()), from any thread, at any time.
Kick ==
  /\ Alive
  /\ age' = 0 /\ silence' = 0
  /\ UNCHANGED <<running, timeout, handler, joinable, opc, arg, wpc, tcopy,
                 hcopy, sleepLeft, terminated>>

-----------------------------------------------------------------------------
(* Watchdog::run, on the watchdog thread                                   *)

\* Mutant of RunLoop: the loop never tests running_ (while (true)).
RunLoopForever ==
  /\ Alive /\ wpc = "loop"
  /\ wpc' = "copy"
  /\ UNCHANGED <<running, timeout, handler, age, joinable, opc, arg, tcopy,
                 hcopy, sleepLeft, silence, terminated>>

\* while (running_.load())
RunLoop ==
  /\ Alive /\ wpc = "loop"
  /\ wpc' = IF running THEN "copy" ELSE "exited"
  /\ UNCHANGED <<running, timeout, handler, age, joinable, opc, arg, tcopy,
                 hcopy, sleepLeft, silence, terminated>>

\* Mutant of RunCopy: sleep_for(timeout_copy), the division dropped.
RunCopySleepFull ==
  /\ Alive /\ wpc = "copy"
  /\ tcopy' = timeout /\ hcopy' = handler
  /\ sleepLeft' = timeout
  /\ wpc' = "sleep"
  /\ UNCHANGED <<running, timeout, handler, age, joinable, opc, arg, silence,
                 terminated>>

\* Under config_mutex_: copy timeout_ and handler_; then sleep_for(
\* timeout_copy / 4), an integer division of milliseconds.
RunCopy ==
  /\ Alive /\ wpc = "copy"
  /\ tcopy' = timeout /\ hcopy' = handler
  /\ sleepLeft' = timeout \div 4
  /\ wpc' = "sleep"
  /\ UNCHANGED <<running, timeout, handler, age, joinable, opc, arg, silence,
                 terminated>>

\* Mutant of RunWake: last_kick_ns_ is reset on every pass, before the test.
RunWakeResetFirst ==
  /\ Alive /\ wpc = "sleep" /\ sleepLeft = 0
  /\ age' = 0
  /\ wpc' = "loop"
  /\ UNCHANGED <<running, timeout, handler, joinable, opc, arg, tcopy, hcopy,
                 sleepLeft, silence, terminated>>

\* The sleep is over (sleep_for may oversleep): elapsed = now_ns() -
\* last_kick_ns_.load(); the handler is due when elapsed > timeout_copy.
RunWake ==
  /\ Alive /\ wpc = "sleep" /\ sleepLeft = 0
  /\ wpc' = IF age > tcopy
            THEN IF hcopy = "none" THEN "store" ELSE "handler"
            ELSE "loop"
  /\ UNCHANGED <<running, timeout, handler, age, joinable, opc, arg, tcopy,
                 hcopy, sleepLeft, silence, terminated>>

\* handler_copy() returns; a handler that calls stop() while running_ is
\* still true makes the thread join itself: join throws std::system_error,
\* which leaves run() and the thread function, and std::terminate runs.
RunHandler ==
  /\ Alive /\ wpc = "handler"
  /\ IF hcopy = "stops"
     THEN /\ running' = FALSE
          /\ IF running
             THEN /\ terminated' = TRUE /\ UNCHANGED wpc
             ELSE /\ wpc' = "store" /\ UNCHANGED terminated
     ELSE /\ wpc' = "store"
          /\ UNCHANGED <<running, terminated>>
  /\ UNCHANGED <<timeout, handler, age, joinable, opc, arg, tcopy, hcopy,
                 sleepLeft, silence>>

\* last_kick_ns_.store(now_ns()) after the handler.
RunStore ==
  /\ Alive /\ wpc = "store"
  /\ age' = 0
  /\ wpc' = "loop"
  /\ UNCHANGED <<running, timeout, handler, joinable, opc, arg, tcopy, hcopy,
                 sleepLeft, silence, terminated>>

\* steady_clock advances: every reading taken later is larger.
Tick ==
  /\ Alive
  /\ \/ age < Cap \/ silence < Cap \/ sleepLeft > 0
  /\ age' = CapAt(age + 1) /\ silence' = CapAt(silence + 1)
  /\ sleepLeft' = IF sleepLeft > 0 THEN sleepLeft - 1 ELSE 0
  /\ UNCHANGED <<running, timeout, handler, joinable, opc, arg, wpc, tcopy,
                 hcopy, terminated>>

-----------------------------------------------------------------------------

Init ==
  /\ running = FALSE /\ timeout = DefaultTimeout /\ handler = "none"
  /\ age = Cap /\ joinable = FALSE
  /\ opc = [o \in Owners |-> "idle"]
  /\ arg = [o \in Owners |-> [t |-> DefaultTimeout, h |-> "none"]]
  /\ wpc = "none" /\ tcopy = DefaultTimeout /\ hcopy = "none"
  /\ sleepLeft = 0 /\ silence = Cap /\ terminated = FALSE

OwnerCall(o) ==
  StartConfig(o) \/ StartKick(o) \/ StartRun(o) \/ StartSpawn(o) \/ StopJoin(o)

WatchdogThread == RunLoop \/ RunCopy \/ RunWake \/ RunHandler \/ RunStore

Next ==
  \/ \E o \in Owners :
       \/ \E t \in Timeouts, h \in Handlers : StartCheck(o, t, h)
       \/ StopExchange(o)
       \/ OwnerCall(o)
  \/ Kick
  \/ WatchdogThread
  \/ Tick

(* The watchdog thread runs when it can, a start or stop call once made    *)
(* runs to its end, and the steady clock keeps advancing.  Whether owners  *)
(* call start or stop, and whether the monitored thread kicks, is up to    *)
(* the application.                                                        *)
Spec ==
  /\ Init /\ [][Next]_vars
  /\ WF_vars(WatchdogThread) /\ WF_vars(Tick)
  /\ \A o \in Owners : WF_vars(OwnerCall(o))

-----------------------------------------------------------------------------

TypeOK ==
  /\ running \in BOOLEAN /\ joinable \in BOOLEAN /\ terminated \in BOOLEAN
  /\ timeout \in Timeouts \cup {DefaultTimeout}
  /\ handler \in Handlers \cup {"none"}
  /\ age \in 0 .. Cap /\ silence \in 0 .. Cap
  /\ opc \in [Owners -> {"idle", "config", "kick", "run", "spawn", "join"}]
  /\ wpc \in {"none", "loop", "copy", "sleep", "handler", "store", "exited"}
  /\ sleepLeft \in 0 .. Cap \div 4

\* A call of an owner is between its first and last step.
InCall == \E o \in Owners : opc[o] # "idle"

(* stop() ends monitoring: once every stop() has returned and no start()   *)
(* is in progress, a watchdog that is not running has no thread left, so   *)
(* its handler can no longer be called.  It rests on stop joining the      *)
(* thread, which in turn only leaves run() at a test of running_.          *)
NoThreadAfterStop == ~InCall /\ ~running => wpc = "none"

(* stop() returns: the watchdog thread, asleep or in the handler when       *)
(* running_ is cleared, reaches the loop test and leaves run(), so the     *)
(* join completes.                                                         *)
StopReturns == \A o \in Owners : opc[o] = "join" ~> opc[o] = "idle"

\* The watchdog runs with a handler and has not been kicked for longer than
\* its timeout.
Overdue == running /\ handler # "none" /\ silence > timeout

(* A missed kick is reported: while the watchdog runs with a handler and   *)
(* nobody calls kick() for longer than the timeout, the handler is         *)
(* eventually called (or the watchdog is stopped or kicked).  run() must   *)
(* compare the time since the last kick, not since its own last pass.      *)
TimeoutFires == Overdue ~> (wpc = "handler" \/ ~Overdue)

(* std::terminate is never reached: no thread_ is overwritten while        *)
(* joinable and no thread joins itself.                                    *)
NoTerminate == ~terminated

=============================================================================
