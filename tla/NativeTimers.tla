----------------------------- MODULE NativeTimers -----------------------------
(***************************************************************************)
(* The native host's timers (scheduler.rs, Timers): the timer service      *)
(* behind a mutex, with the next-fire instant in an atomic `gate' that     *)
(* workers read without the lock.  A worker reads the clock, then the      *)
(* gate, then (with the reading it made before) takes the lock to drain,   *)
(* and applies what it drained after the lock is released.  Processes arm, *)
(* cancel and schedule between any two of these steps.  One step is one    *)
(* hold of the lock, one atomic load or one clock reading.                 *)
(***************************************************************************)
EXTENDS TimerService

CONSTANTS
    Workers,
    GRACE,       \* the drain grace window
    MaxInstant,  \* bound on the clock
    MaxInserts   \* bound on the entries asked for

ASSUME NativeTimersAssumption ==
    /\ GRACE \in Nat
    /\ MaxInstant \in Nat
    /\ MaxInserts \in Nat

VARIABLES
    service,   \* behind the mutex
    gate,      \* nanoseconds to the next fire, NoInstant for u64::MAX
    clock,     \* what Instant::now returns
    seen,      \* by worker: its latest reading of the clock
    pc,        \* by worker: where it is in its loop
    batch,     \* by worker: the drained entries it has yet to apply
    expired,   \* by worker: grace_fired
    latched,   \* a SIGTERM no worker has polled yet
    draining,  \* the table's drain flag
    shutdown   \* SHUTDOWN
vars == <<service, gate, clock, seen, pc, batch, expired, latched, draining, shutdown>>

Instants == 0 .. MaxInstant

Init ==
    /\ service = NewService
    /\ gate = NoInstant
    /\ clock = 0
    /\ seen = [w \in Workers |-> 0]
    /\ pc = [w \in Workers |-> "top"]
    /\ batch = [w \in Workers |-> {}]
    /\ expired = [w \in Workers |-> FALSE]
    /\ latched = FALSE
    /\ draining = FALSE
    /\ shutdown = FALSE

\* Runs under the service lock and refreshes the gate before the release.
with(sv) == service' = sv /\ gate' = next_fire(sv)

goto(w, label) == pc' = [pc EXCEPT ![w] = label]

read_clock(w) == seen' = [seen EXCEPT ![w] = clock] /\ goto(w, "gate")

\* The reading is not used again.
forget(w) == seen' = [seen EXCEPT ![w] = 0]

---------------------------------------------------------------------------
(* Processes.  The instant was computed from a clock reading made before   *)
(* the lock was taken, however long ago.                                   *)

MayInsert == service.wheel.seq < MaxInserts

Arm(p, fire_at) ==
    /\ MayInsert
    /\ with(arm_deadline(service, p, fire_at))
    /\ UNCHANGED <<clock, seen, pc, batch, expired, latched, draining, shutdown>>

Cancel(p) ==
    /\ service.armed[p] # NoToken
    /\ with(cancel_deadline(service, p))
    /\ UNCHANGED <<clock, seen, pc, batch, expired, latched, draining, shutdown>>

koja_rt_send_after(p, fire_at) ==
    /\ MayInsert
    /\ with(schedule_deliver(service, fire_at, p))
    /\ UNCHANGED <<clock, seen, pc, batch, expired, latched, draining, shutdown>>

---------------------------------------------------------------------------
(* The worker loop.                                                        *)

\* The first SIGTERM switches to draining, which arms the grace deadline
\* before this pass goes on.
poll_signals(w) ==
    /\ pc[w] = "top" /\ ~shutdown
    /\ latched' = FALSE
    /\ draining' = (draining \/ latched)
    /\ \/ /\ latched /\ ~draining
          /\ goto(w, "grace")
          /\ UNCHANGED seen
       \/ /\ ~latched \/ draining
          /\ read_clock(w)
    /\ UNCHANGED <<service, gate, clock, batch, expired, shutdown>>

arm_drain_grace(w) ==
    /\ pc[w] = "grace"
    /\ with(arm_grace(service, clock + GRACE))
    /\ read_clock(w)
    /\ UNCHANGED <<clock, batch, expired, latched, draining, shutdown>>

due(w) ==
    /\ pc[w] = "gate"
    /\ \/ /\ gate # NoInstant /\ seen[w] >= gate
          /\ goto(w, "advance")
          /\ UNCHANGED seen
       \/ /\ gate = NoInstant \/ seen[w] < gate
          /\ goto(w, "top")
          /\ forget(w)
    /\ UNCHANGED <<service, gate, clock, batch, expired, latched, draining, shutdown>>

drain(w) ==
    /\ pc[w] = "advance"
    /\ with(advance(service, seen[w]))
    /\ batch' = [batch EXCEPT ![w] = advanced(service, seen[w])]
    /\ expired' = [expired EXCEPT ![w] = grace_expired(service, seen[w])]
    /\ goto(w, "apply")
    /\ forget(w)
    /\ UNCHANGED <<clock, latched, draining, shutdown>>

apply_due(w) ==
    /\ pc[w] = "apply"
    /\ \E e \in batch[w] :
          /\ \A d \in batch[w] \ {e} : fires_before(e, d)
          /\ batch' = [batch EXCEPT ![w] = @ \ {e}]
    /\ UNCHANGED <<service, gate, clock, seen, pc, expired, latched, draining, shutdown>>

\* The batch is applied: force-kill the stragglers if the grace is over.
applied(w) ==
    /\ pc[w] = "apply" /\ batch[w] = {}
    /\ shutdown' = (shutdown \/ (expired[w] /\ draining))
    /\ expired' = [expired EXCEPT ![w] = FALSE]
    /\ goto(w, "top")
    /\ UNCHANGED <<service, gate, clock, seen, batch, latched, draining>>

---------------------------------------------------------------------------
Tick ==
    /\ clock < MaxInstant /\ clock' = clock + 1
    /\ UNCHANGED <<service, gate, seen, pc, batch, expired, latched, draining, shutdown>>

\* A second SIGTERM changes nothing (enter_draining switches once).
SigTerm ==
    /\ ~draining
    /\ ~latched /\ latched' = TRUE
    /\ UNCHANGED <<service, gate, clock, seen, pc, batch, expired, draining, shutdown>>

Worker(w) ==
    \/ poll_signals(w) \/ arm_drain_grace(w) \/ due(w) \/ drain(w)
    \/ apply_due(w) \/ applied(w)

Process ==
    \E p \in TimerPids :
        Cancel(p) \/ \E t \in Instants : Arm(p, t) \/ koja_rt_send_after(p, t)

Next == Process \/ (\E w \in Workers : Worker(w)) \/ Tick \/ SigTerm

Spec == Init /\ [][Next]_vars

---------------------------------------------------------------------------
Wheel == service.wheel
Pending == held(Wheel)

\* "May be stale-low after a cancel, never stale-high" (timer_wheel.rs,
\* soonest_bound): the gate that workers read without the lock is never later
\* than a pending entry or the armed grace deadline.
GateNeverLate ==
    /\ \A e \in Pending : gate # NoInstant /\ gate <= e.fire_at
    /\ service.grace_deadline # NoInstant => gate # NoInstant /\ gate <= service.grace_deadline

\* The wheel behind its lock-free gate, advanced by workers whose clock readings
\* are of any age, does what a plain set of deadlines does: no entry is lost,
\* fired early, fired twice or handed to two workers.
Abstract ==
    INSTANCE Deadlines WITH Servers <- Workers, Clients <- TimerPids, Times <- Instants,
        entries <- Pending, issued <- Wheel.seq, served <- service.last_advance,
        taken <- batch
ImplementsDeadlines == Abstract!Spec
================================================================================
