------------------------- MODULE CooperativeScheduler -------------------------
(***************************************************************************)
(* The interpreter's scheduler: the cooperative driver loop (driver.rs)    *)
(* over the ready queue, and the executor that runs each process as a      *)
(* future (koja-ir-eval/src/scheduler.rs, reactor.rs, the `receive' of     *)
(* interpreter.rs and the Ref methods of intrinsics/process.rs).           *)
(*                                                                         *)
(* One thread runs everything, so a table operation is one pure operator   *)
(* here, on a record `s' of the processes and the ready levels; the loop   *)
(* is a program counter `phase'; the clock, the signals and the            *)
(* descriptors change at any time.                                         *)
(*                                                                         *)
(* Abstractions.  A PID is used once (process_table.rs recycles the slot   *)
(* under a new generation).  The wheel is the set of its entries.  Every   *)
(* process has one descriptor, named by its PID.  One counter mints the    *)
(* tokens of calls, monitors and timer entries.                            *)
(***************************************************************************)
EXTENDS ReadyQueue, FiniteSets, SequencesExt

MB == INSTANCE Mailbox

CONSTANTS
    ArmSets,  \* the sets of tags a `receive' may have arms for
    Grace,    \* the drain grace window
    MaxTime,  \* bound: the last instant at which a wait may end; a drain goes on
    Scenarios,  \* the operations and signals of a behaviour, bounds on them and on processes
    Timeout   \* the timeout of a call, a receive or a timer

ASSUME CooperativeAssumption ==
    Pids \in SUBSET (Nat \X Nat) /\ MaxTime \in Nat

NoPid == <<0, 0>>
Main == <<0, 1>>
ASSUME MainAssumption == Main \in Pids /\ NoPid \notin Pids

Live == {"Created", "Runnable", "Running", "Blocked", "WaitingIO"}
Parked == {"Blocked", "WaitingIO"}
Signals == {"Reload", "Shutdown"}
NormalPriority == 1

\* A process: the slot, its hot state, and where its future continues.
Unborn == [state |-> "Unborn", parent |-> NoPid, priority |-> NormalPriority,
           waiting |-> "Receive", deadline |-> 0, awaiting |-> 0,
           mailbox |-> MB!EmptyMailbox, at |-> "body", until |-> 0, token |-> 0,
           callee |-> NoPid, arms |-> {}, held |-> {}]

EmptyRegistry == [monitors |-> {}, call_waiters |-> {}, pending_kills |-> {},
                  pending_exit_notices |-> {}, pending_call_downs |-> {}]

VARIABLES
    scenario,        \* the scenario of this behaviour, a choice made at the start
    phase,           \* where the loop is
    current,         \* the process being resumed
    now,             \* the loop's reading of the clock
    clock,           \* the time
    latched,         \* the signals latched and not yet drained
    raised,          \* history: the signals raised so far, each at most once
    proc,            \* [Pids -> process]
    registry,        \* the table's cross-process bookkeeping
    draining,        \* the table's mode is Draining
    grace_deadline,  \* the timer service's backstop, 0 when not armed
    timers,          \* the entries on the wheel
    futures,         \* the processes whose future the executor stores
    pending_spawns,  \* PENDING_SPAWNS
    armed,           \* [Pids -> waker]: the reactor's registry, by descriptor
    ready_fds,       \* the descriptors that are ready
    minted,          \* the last token minted
    fuel             \* operations left (bound)

coop_vars == <<scenario, phase, current, now, clock, latched, raised, proc, registry, draining,
               grace_deadline, timers, futures, pending_spawns, armed, ready_fds,
               minted, fuel>>
allVars == <<queue_vars, coop_vars>>

------------------------------------------------------------------------------
\* The table and the ready queue, as one value.

State == [proc |-> proc, levels |-> levels]
Becomes(s) == proc' = s.proc /\ levels' = s.levels

alive_in(s, p) == p \in Pids /\ s.proc[p].state \in Live
is_alive(p) == alive_in(State, p)

push_wake(s, p) ==
    [s EXCEPT !.levels[s.proc[p].priority] = Append(@, p)]

wake_edge(s, p) == push_wake([s EXCEPT !.proc[p].state = "Runnable"], p)

\* Mutant: a lifecycle message does not interrupt an I/O wait.
wakes_NotIo(s, p, m) == s.proc[p].state = "Blocked" /\ s.proc[p].waiting = MB!target_of(m)

wakes(s, p, m) ==
    \/ s.proc[p].state = "Blocked" /\ s.proc[p].waiting = MB!target_of(m)
    \/ s.proc[p].state = "WaitingIO" /\ m.tag = "Lifecycle"

\* deliver and the push of the wake it returns.  A message for the dead bounces.
route_delivery(s, p, m) ==
    LET pushed == [s EXCEPT !.proc[p].mailbox = MB!push(@, m)]
    IN  IF ~alive_in(s, p) THEN s
        ELSE IF wakes(s, p, m) THEN wake_edge(pushed, p) ELSE pushed

deliver_reply(s, p, token) ==
    IF s.proc[p].awaiting = token
    THEN route_delivery(s, p, MB!Message("Reply", NoPid, token)) ELSE s

promote(s, p) == wake_edge([s EXCEPT !.proc[p].deadline = 0], p)

promote_expired(s, p, fire_at) ==
    IF s.proc[p].state \in Parked /\ s.proc[p].deadline = fire_at THEN promote(s, p) ELSE s

promote_io_waiter(s, p) == IF s.proc[p].state = "WaitingIO" THEN promote(s, p) ELSE s

promote_call_waiter(s, p, token) ==
    IF /\ s.proc[p].state = "Blocked"
       /\ s.proc[p].waiting = "Reply"
       /\ s.proc[p].awaiting = token
    THEN promote(s, p) ELSE s

Reclaimed == [Unborn EXCEPT !.state = "Dead"]

\* The table after the death edges of the processes D, and the registry after
\* their registry passes.  The process being resumed keeps its slot until it
\* is switched out.
death_edge(s, D) ==
    [s EXCEPT !.proc = [p \in Pids |->
        IF p \notin D THEN s.proc[p]
        ELSE IF p = current THEN [s.proc[p] EXCEPT !.state = "Dead"] ELSE Reclaimed]]

notify_exit(r, s, D) ==
    [monitors |-> {m \in r.monitors : m.target \notin D /\ m.watcher \notin D},
     call_waiters |-> {c \in r.call_waiters : c.callee \notin D /\ c.caller \notin D},
     pending_kills |-> r.pending_kills \cup {c \in Pids : alive_in(s, c) /\ s.proc[c].parent \in D},
     pending_exit_notices |-> r.pending_exit_notices \cup {m \in r.monitors : m.target \in D},
     pending_call_downs |-> r.pending_call_downs \cup {c \in r.call_waiters : c.callee \in D}]

should_shutdown_in(s) == ~alive_in(s, Main)

\* The end of an iteration of `run'.
next_iteration(s) ==
    /\ current' = NoPid
    /\ phase' = IF should_shutdown_in(s) THEN "stopped" ELSE "signals"

\* Records with distinct tokens, in the order of their tokens.
in_order(S) == SetToSortSeq(S, LAMBDA a, b : a.token < b.token)

------------------------------------------------------------------------------
\* The timer service, as the set of its entries.

Entry(fire_at, kind, p, token) ==
    [fire_at |-> fire_at, kind |-> kind, pid |-> p, token |-> token]

cancel_deadline(tm, p) == {e \in tm : e.kind = "Deliver" \/ e.pid # p}

arm_deadline(tm, p, fire_at) ==
    IF fire_at = 0 THEN tm
    ELSE cancel_deadline(tm, p) \cup {Entry(fire_at, "Promote", p, 0)}

fires_before(a, b) == a.fire_at < b.fire_at \/ (a.fire_at = b.fire_at /\ a.token < b.token)

fire(s, e) ==
    IF e.kind = "Promote" THEN promote_expired(s, e.pid, e.fire_at)
    ELSE route_delivery(s, e.pid, MB!Message("Business", NoPid, 0))

------------------------------------------------------------------------------
\* The driver's loop.

Init_cooperative ==
    /\ phase = "signals" /\ current = NoPid /\ now = 1 /\ clock = 1
    /\ latched = {} /\ raised = {}
    /\ proc = [p \in Pids |-> IF p = Main THEN [Unborn EXCEPT !.state = "Created"] ELSE Unborn]
    /\ registry = EmptyRegistry
    /\ draining = FALSE /\ grace_deadline = 0 /\ timers = {}
    /\ futures = {Main} /\ pending_spawns = {}
    /\ armed = [p \in Pids |-> "None"] /\ ready_fds = {}
    /\ minted = 0 /\ scenario \in Scenarios /\ fuel = scenario.fuel
    /\ ages = [l \in Levels |-> 0] /\ served = None
    /\ levels = [l \in Levels |-> IF l = NormalPriority THEN <<Main>> ELSE <<>>]

queue_kept == UNCHANGED <<ages, served>>
world_kept == UNCHANGED <<scenario, clock, latched, raised, ready_fds>>
program_kept == UNCHANGED <<futures, pending_spawns, minted, fuel>>

\* Mutant: the drain starts without its deadline.
grace_after_Unarmed(starts) == grace_deadline

grace_after(starts) == IF starts THEN clock + Grace ELSE grace_deadline

\* Every latched signal becomes a Lifecycle message for the entry process; a
\* first Shutdown starts the drain and arms the grace deadline.
deliver_signals ==
    LET starts == "Shutdown" \in latched /\ ~draining
        events == [i \in 1 .. Cardinality(latched) |-> MB!Message("Lifecycle", NoPid, 0)]
    IN  /\ phase = "signals" /\ phase' = "timers"
        /\ latched' = {}
        /\ draining' = (draining \/ starts)
        /\ grace_deadline' = grace_after(starts)
        /\ Becomes(FoldLeft(LAMBDA s, m : route_delivery(s, Main, m), State, events))
        /\ queue_kept /\ program_kept
        /\ UNCHANGED <<scenario, current, now, clock, raised, registry, timers, armed, ready_fds>>

\* Mutant: the timers are fired up to the reading of an earlier iteration.
fire_due_timers_Stale ==
    LET due == {e \in timers : e.fire_at <= now}
    IN  /\ phase = "timers" /\ phase' = "grace"
        /\ timers' = timers \ due
        /\ Becomes(FoldLeft(fire, State, SetToSortSeq(due, fires_before)))
        /\ queue_kept /\ program_kept /\ world_kept
        /\ UNCHANGED <<now, current, registry, draining, grace_deadline, armed>>

fire_due_timers ==
    LET due == {e \in timers : e.fire_at <= clock}
    IN  /\ phase = "timers" /\ phase' = "grace"
        /\ now' = clock
        /\ timers' = timers \ due
        /\ Becomes(FoldLeft(fire, State, SetToSortSeq(due, fires_before)))
        /\ queue_kept /\ program_kept /\ world_kept
        /\ UNCHANGED <<current, registry, draining, grace_deadline, armed>>

grace_expired == grace_deadline # 0 /\ now >= grace_deadline

\* kill_all neither cancels the deadlines nor settles the deaths: the run ends.
enforce_grace ==
    LET stragglers == IF grace_expired /\ draining THEN {p \in Pids : is_alive(p)} ELSE {}
        s == death_edge(State, stragglers)
    IN  /\ phase = "grace" /\ phase' = "claim"
        /\ Becomes(s) /\ registry' = notify_exit(registry, s, stragglers)
        /\ queue_kept /\ program_kept /\ world_kept
        /\ UNCHANGED <<current, now, draining, grace_deadline, timers, armed>>

claimable(p) == proc[p].state \in {"Created", "Runnable"}

\* One turn of claim_next's loop, and the start of the resume it leads to: a
\* process without a future would be a no-op resume.
claim_next ==
    /\ phase = "claim" /\ NonEmpty # {}
    /\ pop
    /\ LET p == Head(levels[served'])
       IN  IF claimable(p)
           THEN /\ proc' = [proc EXCEPT ![p].state = "Running"]
                /\ current' = p /\ futures' = futures \ {p}
                /\ phase' = IF p \in futures THEN "running" ELSE "install"
           ELSE UNCHANGED <<proc, current, futures, phase>>
    /\ world_kept
    /\ UNCHANGED <<now, registry, draining, grace_deadline, timers, pending_spawns, armed,
                   minted, fuel>>

nothing_ready ==
    /\ phase = "claim" /\ NonEmpty = {}
    /\ phase' = IF should_shutdown_in(State) THEN "stopped" ELSE "idle"
    /\ queue_kept /\ program_kept /\ world_kept
    /\ UNCHANGED <<levels, proc, current, now, registry, draining, grace_deadline, timers, armed>>

\* A fired descriptor leaves the registry and wakes or notifies its process.
wake_fd(s, p) ==
    IF armed[p] = "Resume" THEN promote_io_waiter(s, p)
    ELSE route_delivery(s, p, MB!Message("IOReady", NoPid, 0))

\* The reactor's poll returns at once when a descriptor is ready, else it waits
\* out the timeout and returns nothing.
idle ==
    LET fired == {p \in ready_fds : armed[p] # "None"}
        s == FoldLeft(wake_fd, State, SetToSeq(fired))
    IN  /\ phase = "idle" /\ next_iteration(s)
        /\ Becomes(s)
        /\ armed' = [p \in Pids |-> IF p \in fired THEN "None" ELSE armed[p]]
        /\ queue_kept /\ program_kept /\ world_kept
        /\ UNCHANGED <<now, registry, draining, grace_deadline, timers>>

\* Mutant: a process that gave up the thread is not queued again.
after_switch_Forgets ==
    LET p == current
        s == IF proc[p].state = "Dead" THEN [State EXCEPT !.proc[p] = Reclaimed] ELSE State
    IN  /\ phase = "switch" /\ next_iteration(s)
        /\ Becomes(s)
        /\ queue_kept /\ program_kept /\ world_kept
        /\ UNCHANGED <<now, registry, draining, grace_deadline, timers, armed>>

after_switch ==
    LET p == current
        s == CASE claimable(p)            -> push_wake(State, p)
               [] proc[p].state = "Dead"  -> [State EXCEPT !.proc[p] = Reclaimed]
               [] OTHER                   -> State
    IN  /\ phase = "switch" /\ next_iteration(s)
        /\ Becomes(s)
        /\ queue_kept /\ program_kept /\ world_kept
        /\ UNCHANGED <<now, registry, draining, grace_deadline, timers, armed>>

------------------------------------------------------------------------------
\* The executor around a resume.

\* The future returned Pending: it is stored again and the loop regains control.
yields ==
    /\ phase' = "install" /\ futures' = futures \cup {current}
    /\ UNCHANGED pending_spawns

install_pending_spawns ==
    /\ phase = "install" /\ phase' = "settle"
    /\ futures' = futures \cup pending_spawns
    /\ pending_spawns' = {}
    /\ queue_kept /\ world_kept
    /\ UNCHANGED <<levels, proc, current, now, registry, draining, grace_deadline, timers,
                   armed, minted, fuel>>

\* Mutant: the deaths of the staged processes are not announced in their turn.
settle_kills_OneGeneration ==
    LET staged == registry.pending_kills
        D == {p \in staged : is_alive(p)}
    IN  /\ phase = "settle" /\ staged # {}
        /\ Becomes(death_edge(State, D))
        /\ registry' = [registry EXCEPT !.pending_kills = {}]
        /\ timers' = {e \in timers : e.kind = "Deliver" \/ e.pid \notin D \ {current}}
        /\ futures' = futures \ staged
        /\ queue_kept /\ world_kept
        /\ UNCHANGED <<phase, current, now, draining, grace_deadline, pending_spawns, armed,
                       minted, fuel>>

\* One turn of settle_exits' loop: kill every staged process that is still
\* alive, cancel the deadlines of the reclaimed, drop the futures.
settle_kills ==
    LET staged == registry.pending_kills
        D == {p \in staged : is_alive(p)}
        s == death_edge(State, D)
    IN  /\ phase = "settle" /\ staged # {}
        /\ Becomes(s)
        /\ registry' = notify_exit([registry EXCEPT !.pending_kills = {}], s, D)
        /\ timers' = {e \in timers : e.kind = "Deliver" \/ e.pid \notin D \ {current}}
        /\ futures' = futures \ staged
        /\ queue_kept /\ world_kept
        /\ UNCHANGED <<phase, current, now, draining, grace_deadline, pending_spawns, armed,
                       minted, fuel>>

deliver_exit_signals(s) ==
    FoldLeft(LAMBDA t, n : route_delivery(t, n.watcher, MB!Message("ExitSignal", n.target, 0)),
             s, in_order(registry.pending_exit_notices))

wake_call_waiters(s) ==
    FoldLeft(LAMBDA t, c : promote_call_waiter(t, c.caller, c.token),
             s, in_order(registry.pending_call_downs))

\* The rest of settle_exits.
settle_signals ==
    /\ phase = "settle" /\ registry.pending_kills = {}
    /\ phase' = "switch"
    /\ Becomes(wake_call_waiters(deliver_exit_signals(State)))
    /\ registry' = [registry EXCEPT !.pending_exit_notices = {}, !.pending_call_downs = {}]
    /\ queue_kept /\ program_kept /\ world_kept
    /\ UNCHANGED <<current, now, draining, grace_deadline, timers, armed>>

------------------------------------------------------------------------------
\* What the process being resumed does.  A process killed by its own hand goes
\* on to its next yield.

me == proc[current]

\* An operation of the body, at the cost of one unit of fuel.
does(op) ==
    /\ phase = "running" /\ me.at = "body" /\ op \in scenario.menu
    /\ fuel > 0 /\ fuel' = fuel - 1
    /\ queue_kept /\ world_kept
    /\ UNCHANGED <<current, now, draining, grace_deadline>>

born == {p \in Pids : proc[p].state # "Unborn"}

next_pid == CHOOSE p \in Pids \ born : \A q \in Pids \ born : p[1] <= q[1]

\* Refused while draining and over the spawner's tombstone.
spawn_child ==
    LET child == [Unborn EXCEPT !.state = "Created", !.parent = current]
    IN  /\ does("spawn")
        /\ Cardinality(born) < scenario.processes
        /\ IF draining \/ ~is_alive(current)
           THEN UNCHANGED <<levels, proc, pending_spawns>>
           ELSE /\ Becomes(push_wake([State EXCEPT !.proc[next_pid] = child], next_pid))
                /\ pending_spawns' = pending_spawns \cup {next_pid}
        /\ UNCHANGED <<phase, registry, timers, futures, armed, minted>>

cast ==
    /\ does("cast")
    /\ \E p \in born : Becomes(route_delivery(State, p, MB!Message("Business", NoPid, 0)))
    /\ UNCHANGED <<phase, registry, timers, futures, pending_spawns, armed, minted>>

\* Ref.signal: a lifecycle event from a process.
signal ==
    /\ does("signal")
    /\ \E p \in born : Becomes(route_delivery(State, p, MB!Message("Lifecycle", NoPid, 0)))
    /\ UNCHANGED <<phase, registry, timers, futures, pending_spawns, armed, minted>>

send_after ==
    /\ does("send_after") /\ clock + Timeout <= MaxTime
    /\ minted' = minted + 1
    /\ \E p \in born : timers' = timers \cup {Entry(clock + Timeout, "Deliver", p, minted')}
    /\ UNCHANGED <<levels, proc, phase, registry, futures, pending_spawns, armed>>

\* A directly killed process leaves its future behind in the executor's map.
kill ==
    /\ does("kill")
    /\ \E p \in {q \in born : is_alive(q)} :
        LET s == death_edge(State, {p})
        IN  /\ Becomes(s)
            /\ registry' = notify_exit(registry, s, {p})
            /\ timers' = IF p = current THEN timers ELSE cancel_deadline(timers, p)
    /\ UNCHANGED <<phase, futures, pending_spawns, armed, minted>>

\* A dead target is reported at once.
monitor ==
    /\ does("monitor")
    /\ minted' = minted + 1
    /\ \E p \in born :
        LET m == [watcher |-> current, target |-> p, token |-> minted']
        IN  registry' = IF is_alive(p) THEN [registry EXCEPT !.monitors = @ \cup {m}]
                        ELSE [registry EXCEPT !.pending_exit_notices = @ \cup {m}]
    /\ UNCHANGED <<levels, proc, phase, timers, futures, pending_spawns, armed>>

demonitor ==
    /\ does("demonitor")
    /\ \E m \in {n \in registry.monitors : n.watcher = current} :
        registry' = [registry EXCEPT !.monitors = @ \ {m}]
    /\ UNCHANGED <<levels, proc, phase, timers, futures, pending_spawns, armed, minted>>

\* Takes effect at the next enqueue.
set_priority ==
    /\ does("set_priority")
    /\ \E l \in Levels \ {me.priority} : proc' = [proc EXCEPT ![current].priority = l]
    /\ UNCHANGED <<levels, phase, registry, timers, futures, pending_spawns, armed, minted>>

reply ==
    /\ does("call")
    /\ \E r \in me.held :
        Becomes(deliver_reply([State EXCEPT !.proc[current].held = @ \ {r}], r[1], r[2]))
    /\ UNCHANGED <<phase, registry, timers, futures, pending_spawns, armed, minted>>

watch ==
    /\ does("watch")
    /\ armed' = [armed EXCEPT ![current] = "Deliver"]
    /\ UNCHANGED <<levels, proc, phase, registry, timers, futures, pending_spawns, minted>>

unwatch ==
    /\ does("watch") /\ armed[current] # "None"
    /\ armed' = [armed EXCEPT ![current] = "None"]
    /\ UNCHANGED <<levels, proc, phase, registry, timers, futures, pending_spawns, minted>>

------------------------------------------------------------------------------
\* The waits.  A wait begins in the body and goes on, after each resume, from
\* where its future stopped.

continues(at) ==
    /\ phase = "running" /\ me.at = at
    /\ queue_kept /\ world_kept
    /\ UNCHANGED <<current, now, draining, grace_deadline, minted, fuel>>

expired == me.until # 0 /\ clock >= me.until

\* The record of the current process once its wait is over, deadline cleared
\* and continuation back in the body.
done(pr) == [pr EXCEPT !.at = "body", !.until = 0, !.deadline = 0, !.token = 0,
                       !.callee = NoPid, !.arms = {}]

\* Mutant: a completed wait leaves its entry on the wheel.
timers_done_Kept == timers

timers_done == IF me.until # 0 THEN cancel_deadline(timers, current) ELSE timers

\* park_edge, with the arming of the deadline: refused over a tombstone.
park(pr, to, target) ==
    IF pr.state = "Running"
    THEN /\ proc' = [proc EXCEPT ![current] =
                        [pr EXCEPT !.state = to, !.deadline = pr.until, !.waiting = target]]
         /\ timers' = arm_deadline(timers, current, pr.until)
    ELSE proc' = [proc EXCEPT ![current] = pr] /\ UNCHANGED timers

\* No deadline, or one within the bound.
deadlines ==
    {0} \cup {t \in {clock + Timeout} : t <= MaxTime /\ "after" \in scenario.menu}

begin_receive ==
    /\ does("receive")
    /\ \E arms \in ArmSets, until \in deadlines :
        proc' = [proc EXCEPT ![current].at = "receive", ![current].arms = arms,
                             ![current].until = until]
    /\ UNCHANGED <<levels, phase, registry, timers, futures, pending_spawns, armed, minted>>

\* The reply coordinates a request carries.
held_by(m) == IF m.token # 0 THEN {<<m.from, m.token>>} ELSE {}

\* IOReady and ExitSignal have the arm the business arm's type asked for.
arm_of(m) == IF m.tag = "Lifecycle" THEN "Lifecycle" ELSE "Business"

\* One turn of execute_receive's loop.  A message no arm takes is dropped, and
\* the turn goes on to the deadline and the park.
execute_receive ==
    LET mail == MB!depth(me.mailbox) > 0
        m == MB!received(me.mailbox)
        popped == IF mail THEN [me EXCEPT !.mailbox = MB!after_pop(@)] ELSE me
        over(pr) == /\ proc' = [proc EXCEPT ![current] = done(pr)]
                    /\ timers' = timers_done
                    /\ UNCHANGED <<phase, futures, pending_spawns>>
    IN  /\ continues("receive")
        /\ IF mail /\ arm_of(m) \in me.arms
           THEN over([popped EXCEPT !.held = @ \cup held_by(m)])
           ELSE IF expired THEN over(popped)
           ELSE park(popped, "Blocked", "Receive") /\ yields
        /\ UNCHANGED <<levels, registry, armed>>

begin_call ==
    LET s == [State EXCEPT !.proc[current].at = "call", !.proc[current].until = clock + Timeout,
                           !.proc[current].token = minted', !.proc[current].awaiting = minted']
    IN  /\ does("call") /\ clock + Timeout <= MaxTime
        /\ minted' = minted + 1
        /\ \E p \in born :
            Becomes(route_delivery([s EXCEPT !.proc[current].callee = p], p,
                                   MB!Message("Business", current, minted')))
        /\ UNCHANGED <<phase, registry, timers, futures, pending_spawns, armed>>

call_over ==
    /\ proc' = [proc EXCEPT ![current] = [done(me) EXCEPT !.awaiting = 0,
                                             !.mailbox = MB!after_take(@)]]
    /\ timers' = timers_done
    /\ registry' = [registry EXCEPT !.call_waiters = {c \in @ : c.caller # current}]
    /\ UNCHANGED <<phase, futures, pending_spawns>>

call_given_up ==
    /\ proc' = [proc EXCEPT ![current] = [done(me) EXCEPT !.awaiting = 0]]
    /\ timers' = timers_done
    /\ registry' = [registry EXCEPT !.call_waiters = {c \in @ : c.caller # current}]
    /\ UNCHANGED <<phase, futures, pending_spawns>>

drop_stale ==
    /\ proc' = [proc EXCEPT ![current].mailbox = MB!after_take(@)]
    /\ UNCHANGED <<phase, timers, futures, pending_spawns>>

\* ensure_call_waiter, which take_reply_or_park runs first.
ensure_call_waiter ==
    LET w == [caller |-> current, callee |-> me.callee, token |-> me.token]
    IN  IF is_alive(me.callee) /\ is_alive(current)
        THEN [registry EXCEPT !.call_waiters = @ \cup {w}] ELSE registry

\* One turn of ref_call's loop: the timeout is checked before the reply.
ref_call ==
    /\ continues("call")
    /\ \/ expired /\ call_given_up
       \/ ~expired /\ MB!has_reply(me.mailbox) /\ me.mailbox.reply.token = me.token /\ call_over
       \/ /\ ~expired /\ MB!has_reply(me.mailbox) /\ me.mailbox.reply.token # me.token
          /\ drop_stale /\ registry' = ensure_call_waiter
       \/ ~expired /\ ~MB!has_reply(me.mailbox) /\ ~is_alive(me.callee) /\ call_given_up
       \/ /\ ~expired /\ ~MB!has_reply(me.mailbox) /\ is_alive(me.callee)
          /\ park(me, "Blocked", "Reply") /\ yields /\ registry' = ensure_call_waiter
    /\ UNCHANGED <<levels, armed>>

\* io_block on the process's own descriptor, up to the park.  A system message
\* interrupts the wait before it begins; a refused park does not register.
io_block ==
    /\ does("io_block")
    /\ current \notin ready_fds /\ ~MB!has_system(me.mailbox)
    /\ \E until \in deadlines :
        park([me EXCEPT !.at = IF me.state = "Running" THEN "io" ELSE @,
                        !.until = IF me.state = "Running" THEN until ELSE 0], "WaitingIO", "Receive")
    /\ IF me.state = "Running"
       THEN armed' = [armed EXCEPT ![current] = "Resume"] /\ yields
       ELSE UNCHANGED <<armed, phase, futures, pending_spawns>>
    /\ UNCHANGED <<levels, registry, minted>>

io_resumed ==
    /\ continues("io")
    /\ armed' = [armed EXCEPT ![current] = "None"]
    /\ proc' = [proc EXCEPT ![current] = done(me)]
    /\ timers' = timers_done
    /\ UNCHANGED <<levels, phase, registry, futures, pending_spawns>>

\* A YieldCheck that finds the quantum spent.
reduce ==
    /\ continues("body")
    /\ proc' = [proc EXCEPT ![current].state = IF @ = "Running" THEN "Runnable" ELSE @]
    /\ yields
    /\ UNCHANGED <<levels, registry, timers, armed>>

\* The future is Ready, or it panicked: it is not stored again.
completes ==
    /\ continues("body")
    /\ phase' = "install"
    /\ IF is_alive(current)
       THEN LET s == death_edge(State, {current})
            IN  Becomes(s) /\ registry' = notify_exit(registry, s, {current})
       ELSE UNCHANGED <<levels, proc, registry>>
    /\ UNCHANGED <<timers, futures, pending_spawns, armed>>

------------------------------------------------------------------------------
\* The world.  Each part of it changes whenever the loop is about to read it:
\* at any other time the change would go unseen until then.  Time passes while
\* something waits for it.

tick ==
    /\ phase \in {"signals", "timers", "running"}
    /\ clock < MaxTime \/ clock < grace_deadline
    /\ timers # {} \/ grace_deadline # 0 \/ \E p \in Pids : proc[p].until # 0
    /\ clock' = clock + 1
    /\ UNCHANGED <<queue_vars, scenario, phase, current, now, latched, raised, proc, registry, draining,
                   grace_deadline, timers, futures, pending_spawns, armed, ready_fds, minted,
                   fuel>>

raise ==
    /\ phase = "signals"
    /\ \E g \in scenario.signals \ raised :
        latched' = latched \cup {g} /\ raised' = raised \cup {g}
    /\ UNCHANGED <<queue_vars, scenario, phase, current, now, clock, proc, registry, draining, grace_deadline,
                   timers, futures, pending_spawns, armed, ready_fds, minted, fuel>>

fd_ready ==
    /\ phase \in {"idle", "running"}
    /\ \E p \in {q \in Pids : armed[q] # "None"} \ ready_fds :
        ready_fds' = ready_fds \cup {p}
    /\ UNCHANGED <<queue_vars, scenario, phase, current, now, clock, latched, raised, proc, registry, draining,
                   grace_deadline, timers, futures, pending_spawns, armed, minted, fuel>>

Driver ==
    \/ deliver_signals \/ fire_due_timers \/ enforce_grace \/ claim_next \/ nothing_ready
    \/ idle \/ after_switch
    \/ install_pending_spawns \/ settle_kills \/ settle_signals

Process ==
    \/ spawn_child \/ cast \/ signal \/ send_after \/ kill \/ monitor \/ demonitor \/ set_priority
    \/ reply \/ watch \/ unwatch
    \/ begin_receive \/ execute_receive \/ begin_call \/ ref_call \/ io_block \/ io_resumed
    \/ reduce \/ completes

Next_cooperative == Driver \/ Process \/ tick \/ raise \/ fd_ready

\* The one thread keeps running, and time passes.  Time passes in every phase;
\* `tick' is confined to some only to save states, hence the strong fairness.
Spec_cooperative ==
    /\ Init_cooperative /\ [][Next_cooperative]_allVars
    /\ WF_allVars(Driver \/ Process) /\ SF_allVars(tick)

------------------------------------------------------------------------------
\* Between two resumes no process is being run.
between == phase \in {"signals", "timers", "grace", "idle"}

\* settle_exits finishes what a death starts before any other process runs: no
\* staged kill, notice or call-down is left, no monitor still waits for a
\* death that happened, no process outlives its parent, and no caller is
\* parked on a dead callee.
DeathsSettled ==
    between =>
        /\ registry.pending_kills = {} /\ registry.pending_exit_notices = {}
        /\ registry.pending_call_downs = {}
        /\ \A m \in registry.monitors : is_alive(m.target)
        /\ \A p \in Pids : is_alive(p) =>
            /\ proc[p].parent # NoPid => is_alive(proc[p].parent)
            /\ proc[p].state = "Blocked" /\ proc[p].waiting = "Reply" => is_alive(proc[p].callee)

\* "A child's future is always present by the time it is picked up": between
\* resumes every live process has its future in the executor's map, so no
\* resume of a live process is a no-op, and every process that can run is on
\* the ready queue, however it got there and however often it was re-queued.
NoProcessLost ==
    between =>
        \A p \in Pids : is_alive(p) =>
            /\ p \in futures
            /\ proc[p].state # "Running"
            /\ claimable(p) => \E l \in Levels : \E i \in DOMAIN levels[l] : levels[l][i] = p

\* A parked process has nothing to wake for: a receiver's mailbox is empty, a
\* caller's reply slot is empty, an I/O waiter has no system mail and is
\* registered with the reactor.
ParkedWithNothingToDo ==
    between =>
        \A p \in Pids : is_alive(p) =>
            /\ proc[p].state = "Blocked" /\ proc[p].waiting = "Receive"
                  => MB!depth(proc[p].mailbox) = 0
            /\ proc[p].state = "Blocked" /\ proc[p].waiting = "Reply"
                  => ~MB!has_reply(proc[p].mailbox)
            /\ proc[p].state = "WaitingIO"
                  => armed[p] = "Resume" /\ ~MB!has_system(proc[p].mailbox)

\* The timer service and the table agree on deadlines: a process parked with a
\* deadline has exactly that entry on the wheel, and a live process has no
\* entry of a wait it is no longer in ("completed waits leave nothing behind").
DeadlinesAgree ==
    between =>
        /\ \A p \in Pids : proc[p].state \in Parked /\ proc[p].deadline # 0
              => {e \in timers : e.kind = "Promote" /\ e.pid = p}
                     = {Entry(proc[p].deadline, "Promote", p, 0)}
        /\ \A e \in timers : e.kind = "Promote" /\ is_alive(e.pid) => proc[e.pid].until # 0

\* A process on the ready queue is resumed, however many others keep yielding
\* at a higher priority (the queue's aging), unless it dies or the run ends.
RunnableRuns ==
    \A p \in Pids : claimable(p) ~> (current = p \/ ~is_alive(p) \/ phase = "stopped")

\* A wait with a deadline ends: the driver fires it even if nothing else
\* happens to the process.
DeadlineEndsWait ==
    \A p \in Pids : (proc[p].state \in Parked /\ proc[p].until # 0)
                        ~> (proc[p].at = "body" \/ ~is_alive(p) \/ phase = "stopped")

\* After SIGTERM the run ends, even if every process ignores the signal: the
\* grace deadline kills the stragglers.
DrainEnds == draining ~> (phase = "stopped")
==============================================================================
