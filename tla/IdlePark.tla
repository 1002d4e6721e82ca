------------------------------- MODULE IdlePark -------------------------------
(***************************************************************************)
(* How idle workers sleep and who wakes them (scheduler.rs, IdlePark,      *)
(* park_for_work, notify_workers, find_work, worker_loop).  Work is a      *)
(* number of runnable processes in a worker's own deque or in the global   *)
(* injector, priorities aside.  The timers are the set of instants that    *)
(* Deadlines promises, behind a gate that is their soonest.  A hold of the *)
(* sleeper mutex is one step: waiting releases the mutex in the same step, *)
(* so a notifier finds a parker either before its re-check or waiting.     *)
(***************************************************************************)
EXTENDS Integers, FiniteSets, FiniteSetsExt

CONSTANTS
    Workers,
    IDLE_ACTIVE, IDLE_QUIET,  \* the idle park with and without an active process
    MaxClock, MaxWork         \* bounds on time and on the work handed out

ASSUME IdleAssumption ==
    /\ Workers # {} /\ IsFiniteSet(Workers)
    /\ IDLE_ACTIVE \in Nat /\ IDLE_QUIET \in Nat /\ IDLE_ACTIVE <= IDLE_QUIET
    /\ MaxClock \in Nat /\ MaxWork \in Nat

VARIABLES
    clock,
    timers,     \* the pending fire instants
    injector,   \* work published to every worker
    local,      \* by worker: the work in its deque
    given,      \* work handed out so far
    main_dead,  \* main has died, or no process is left
    shutdown,   \* SHUTDOWN
    sleepers,   \* IDLE_PARK.sleepers
    pc,         \* by worker: where it is in its loop
    read,       \* by worker: the clock reading its park works with
    slept,      \* by worker: when it began to wait
    until,      \* by worker: when its wait times out
    owed        \* wakes the reactor has published and not yet notified
vars == <<clock, timers, injector, local, given, main_dead, shutdown, sleepers, pc,
          read, slept, until, owed>>

Init ==
    /\ clock = 0 /\ timers = {} /\ injector = 0
    /\ \E main \in Workers : local = [w \in Workers |-> IF w = main THEN 1 ELSE 0]
    /\ given = 1
    /\ main_dead = FALSE /\ shutdown = FALSE /\ sleepers = 0
    /\ pc = [w \in Workers |-> "top"]
    /\ read = [w \in Workers |-> 0]
    /\ slept = [w \in Workers |-> 0]
    /\ until = [w \in Workers |-> 0]
    /\ owed = 0

Waiting == {w \in Workers : pc[w] = "asleep"}

goto(w, label) == pc' = [pc EXCEPT ![w] = label]

\* pc after worker w goes to label and the workers in `woken' are notified.
goto_waking(w, label, woken) ==
    pc' = [v \in Workers |-> IF v = w THEN label ELSE IF v \in woken THEN "woken" ELSE pc[v]]

\* Whom notify_one called min(count, sleepers) times may wake.  The count also
\* includes workers that are notified or timed out and have not run yet.
notify_workers(count) ==
    kSubset(Min({count, sleepers, Cardinality(Waiting)}), Waiting)

---------------------------------------------------------------------------
\* One pass of the loop: stop, or fire what is due and make its waiters runnable.
top(w) ==
    /\ pc[w] = "top"
    /\ \/ shutdown /\ goto(w, "done") /\ UNCHANGED <<timers, local>>
       \/ /\ ~shutdown
          /\ LET fired == {t \in timers : t <= clock}
             IN  /\ timers' = timers \ fired
                 /\ local' = [local EXCEPT ![w] = @ + Cardinality(fired)]
          /\ goto(w, "find")
    /\ UNCHANGED <<clock, injector, given, main_dead, shutdown, sleepers, read, slept, until, owed>>

\* The worker's own deque, then a batch of the injector, then a batch of a peer's
\* deque.  The scan looks at one queue after the other, so it may come up empty
\* while work arrives where it has already looked.
find_work(w) ==
    /\ pc[w] = "find"
    /\ \/ /\ local[w] > 0
          /\ local' = [local EXCEPT ![w] = @ - 1]
          /\ goto(w, "run")
          /\ UNCHANGED injector
       \/ /\ local[w] = 0
          /\ \E k \in 1 .. injector :
                injector' = injector - k /\ local' = [local EXCEPT ![w] = k - 1]
          /\ goto(w, "run")
       \/ /\ local[w] = 0
          /\ \E v \in Workers \ {w} : \E k \in 1 .. local[v] :
                local' = [local EXCEPT ![v] = @ - k, ![w] = k - 1]
          /\ goto(w, "run")
          /\ UNCHANGED injector
       \/ local[w] = 0 /\ goto(w, "idle") /\ UNCHANGED <<local, injector>>
    /\ UNCHANGED <<clock, timers, given, main_dead, shutdown, sleepers, read, slept, until, owed>>

---------------------------------------------------------------------------
(* What a process does with its turn.                                      *)

\* It parks, or exits and is not main.
quantum(w) ==
    /\ pc[w] = "run" /\ goto(w, "after")
    /\ UNCHANGED <<clock, timers, injector, local, given, main_dead, shutdown, sleepers,
                   read, slept, until, owed>>

\* It wakes another (send, reply, spawn) or is still runnable (yield): a wake on
\* a worker thread goes to that worker's deque and notifies nobody.
route_wake(w) ==
    /\ pc[w] = "run" /\ given < MaxWork
    /\ given' = given + 1
    /\ local' = [local EXCEPT ![w] = @ + 1]
    /\ UNCHANGED <<clock, timers, injector, main_dead, shutdown, sleepers, pc, read, slept,
                   until, owed>>

\* It parks with a deadline.
arm(w, t) ==
    /\ pc[w] = "run" /\ given < MaxWork
    /\ given' = given + 1
    /\ timers' = timers \cup {t}
    /\ goto(w, "after")
    /\ UNCHANGED <<clock, injector, local, main_dead, shutdown, sleepers, read, slept, until, owed>>

\* It schedules a message and wakes a parked worker to re-size its park.
koja_rt_send_after(w, t) ==
    /\ pc[w] = "run" /\ given < MaxWork
    /\ given' = given + 1
    /\ timers' = timers \cup {t}
    /\ \E woken \in notify_workers(1) : goto_waking(w, "run", woken)
    /\ UNCHANGED <<clock, injector, local, main_dead, shutdown, sleepers, read, slept, until, owed>>

\* Main dies; its trampoline nudges everyone.
main_exits(w) ==
    /\ pc[w] = "run" /\ ~main_dead
    /\ main_dead' = TRUE
    /\ goto(w, "nudge")
    /\ UNCHANGED <<clock, timers, injector, local, given, shutdown, sleepers, read, slept, until, owed>>

---------------------------------------------------------------------------
notify_all_workers(w, label, next) ==
    /\ pc[w] = label
    /\ goto_waking(w, next, Waiting)
    /\ UNCHANGED <<clock, timers, injector, local, given, main_dead, shutdown, sleepers,
                   read, slept, until, owed>>

\* Mutant: the runtime outlives main while a timer is pending.
should_shutdown_Timers == main_dead /\ timers = {}

should_shutdown == main_dead

\* The store of SHUTDOWN; the broadcast follows it.
after(w) ==
    /\ pc[w] = "after"
    /\ shutdown' = (shutdown \/ should_shutdown)
    /\ goto(w, IF should_shutdown THEN "broadcast" ELSE "top")
    /\ UNCHANGED <<clock, timers, injector, local, given, main_dead, sleepers, read, slept,
                   until, owed>>

park_for_work(w) ==
    /\ pc[w] = "idle"
    /\ read' = [read EXCEPT ![w] = clock]
    /\ shutdown' = (shutdown \/ should_shutdown)
    /\ goto(w, IF should_shutdown THEN "broadcast" ELSE "lock")
    /\ UNCHANGED <<clock, timers, injector, local, given, main_dead, sleepers, slept, until, owed>>

\* Mutant: no re-check of the injector.
stays_awake_NoInjector == shutdown

\* The re-check under the sleeper mutex.
stays_awake == injector > 0 \/ shutdown

\* Mutant: the idle park is slept whatever the timers say.
timeout_Flat(now, idle_park) == idle_park

\* How long a park that read the clock at `now' waits: to the gate, and only
\* when no timer is pending for the idle park.
timeout(now, idle_park) == IF timers = {} THEN idle_park ELSE Max({Min(timers) - now, 0})

lock(w) ==
    /\ pc[w] = "lock"
    /\ \/ /\ stays_awake
          /\ goto(w, "top")
          /\ UNCHANGED <<sleepers, slept, until>>
       \/ /\ ~stays_awake
          /\ sleepers' = sleepers + 1
          /\ slept' = [slept EXCEPT ![w] = clock]
          /\ \E idle_park \in {IDLE_ACTIVE, IDLE_QUIET} :
                until' = [until EXCEPT ![w] = clock + timeout(read[w], idle_park)]
          /\ goto(w, "asleep")
    /\ UNCHANGED <<clock, timers, injector, local, given, main_dead, shutdown, read, owed>>

times_out(w) ==
    /\ pc[w] = "asleep" /\ clock >= until[w]
    /\ goto(w, "woken")
    /\ UNCHANGED <<clock, timers, injector, local, given, main_dead, shutdown, sleepers,
                   read, slept, until, owed>>

wake_up(w) ==
    /\ pc[w] = "woken"
    /\ sleepers' = sleepers - 1
    /\ read' = [read EXCEPT ![w] = 0]
    /\ slept' = [slept EXCEPT ![w] = 0]
    /\ until' = [until EXCEPT ![w] = 0]
    /\ goto(w, "top")
    /\ UNCHANGED <<clock, timers, injector, local, given, main_dead, shutdown, owed>>

---------------------------------------------------------------------------
(* The reactor thread: it publishes a promoted waiter to the injector and  *)
(* then notifies.                                                          *)

apply_wakers ==
    /\ ~shutdown /\ owed = 0 /\ given < MaxWork
    /\ given' = given + 1
    /\ injector' = injector + 1
    /\ owed' = 1
    /\ UNCHANGED <<clock, timers, local, main_dead, shutdown, sleepers, pc, read, slept, until>>

reactor_notifies ==
    /\ owed > 0
    /\ owed' = 0
    /\ \E woken \in notify_workers(owed) :
          pc' = [v \in Workers |-> IF v \in woken THEN "woken" ELSE pc[v]]
    /\ UNCHANGED <<clock, timers, injector, local, given, main_dead, shutdown, sleepers,
                   read, slept, until>>

Tick ==
    /\ clock < MaxClock /\ clock' = clock + 1
    /\ UNCHANGED <<timers, injector, local, given, main_dead, shutdown, sleepers, pc, read,
                   slept, until, owed>>

Runtime(w) ==
    \/ top(w) \/ find_work(w) \/ quantum(w) \/ after(w) \/ park_for_work(w) \/ lock(w)
    \/ wake_up(w)
    \/ notify_all_workers(w, "nudge", "after")
    \/ notify_all_workers(w, "broadcast", "done")

Body(w) ==
    \/ route_wake(w) \/ main_exits(w)
    \/ \E t \in clock .. MaxClock : arm(w, t) \/ koja_rt_send_after(w, t)

Next ==
    \/ \E w \in Workers : Runtime(w) \/ Body(w) \/ times_out(w)
    \/ apply_wakers \/ reactor_notifies \/ Tick

Spec == Init /\ [][Next]_vars

\* Worker and reactor threads are scheduled.  Time need not pass: no wake below
\* may rest on a timeout.
FairSpec ==
    Spec /\ WF_vars(reactor_notifies) /\ \A w \in Workers : WF_vars(Runtime(w))

---------------------------------------------------------------------------
AllAsleep == \A w \in Workers : pc[w] = "asleep"

\* IdlePark's lost-wakeup guard: when every worker sleeps, no work is runnable,
\* or the reactor that published it has yet to notify.
NoWorkWhileAllSleep ==
    AllAsleep => owed > 0 \/ (injector = 0 /\ \A w \in Workers : local[w] = 0)

\* "Gates and idle parks built on it cannot oversleep" (timer_service.rs): when
\* every worker sleeps, for each pending timer one of them waits no longer than
\* the timer was away when it read the clock.
NoOversleep ==
    AllAsleep =>
        \A t \in timers : \E w \in Workers : until[w] - slept[w] <= Max({t - read[w], 0})

\* When main is dead every worker leaves its loop, even if time stands still.
EveryoneLeaves == main_dead ~> \A w \in Workers : pc[w] = "done"
================================================================================
