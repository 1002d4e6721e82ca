---------------------------- MODULE NativeScheduler ----------------------------
(***************************************************************************)
(* The native driver (koja-runtime-posix scheduler.rs, reactor.rs) over    *)
(* the process table: worker threads that claim, resume and release        *)
(* processes, the runtime intrinsics the processes call, the settlement of *)
(* staged deaths, deadline timers, the reactor thread and the shutdown     *)
(* drain.  Each worker has a program counter; a step is one hold of a      *)
(* table, registry or timer mutex or one atomic, never more.               *)
(*                                                                         *)
(* What a process does between intrinsics is its own business, so a        *)
(* running body takes any intrinsic it has budget for.  A process killed   *)
(* while it runs keeps running until it yields, as in the code.            *)
(***************************************************************************)
EXTENDS ProcessTable

CONSTANTS
    Scenarios,   \* bound: the budgets of intrinsic calls that are explored
    MaxNow,      \* bound: the last clock reading
    MaxMonitors, \* bound: monitor tokens minted
    MaxCalls     \* bound: call tokens minted

Intrinsics == {"spawn", "kill", "exit", "crash", "yield", "send", "receive",
               "receive_timeout", "call", "reply", "monitor", "demonitor",
               "io", "signal"}

ASSUME BudgetAssumption ==
    /\ Scenarios \subseteq [Intrinsics -> Nat]
    /\ MaxNow \in Nat /\ MaxMonitors \in Nat /\ MaxCalls \in Nat

VARIABLES
    pc,        \* [Workers -> label]
    cur,       \* [Workers -> MaybePid]: the process the worker holds the claim of
    reap,      \* [Workers -> MaybePid]: the dead process it must reclaim and free
    hand,      \* [Workers -> record]: what it has taken off a staging queue
    SHUTDOWN,  \* the shutdown flag
    latched,   \* a termination signal is latched
    grace,     \* the drain grace timer is armed
    armed,     \* [Pids -> Nat]: the armed deadline of a process, 0 for none
    now,       \* the monotonic clock
    wakers,    \* processes with a waker registered at the reactor
    events,    \* readiness the reactor thread has polled and not yet applied
    call_token,\* call tokens minted so far
    replies,   \* reply handles a process has received with a request
    accepted,  \* history: call tokens whose reply was answered Delivered
    given_up,  \* history: call tokens whose caller returned without a reply
    budget     \* calls left to the processes of the scenario, by intrinsic

driverVars == <<pc, cur, reap, hand>>
timerVars == <<armed, now, grace>>
ioVars == <<wakers, events>>
callVars == <<call_token, replies, accepted, given_up>>
flagVars == <<SHUTDOWN, latched>>
vars == <<tableVars, driverVars, timerVars, ioVars, callVars, flagVars, budget>>

NoMonitor == [target |-> NoPid, token |-> 0, watcher |-> NoPid,
              reason |-> "Normal", crash_info |-> FALSE]

EmptyHand == [kills |-> {}, freed |-> {}, notices |-> {}, downs |-> {}, due |-> {},
              back |-> "loop", monitor |-> NoMonitor, scan |-> 0, until |-> 0]

\* PIDs handed out so far: the only ones a process can name.
Known == {p \in Pids : \/ word[Slot(p)].generation > Generation(p)
                       \/ here(p) /\ state(p) # "Vacant"}

me(w) == Slot(cur[w])
frame(w) == execution[me(w)]
goto(w, label) == pc' = [pc EXCEPT ![w] = label]
set_frame(w, f) == execution' = [execution EXCEPT ![me(w)] = f]
Spend(i) == budget[i] > 0 /\ budget' = [budget EXCEPT ![i] = @ - 1]
\* A body about to call intrinsic i.
Calls(w, i) == pc[w] = "run" /\ frame(w).at = "body" /\ Spend(i)

------------------------------------------------------------------------------
\* Mutant: a stale entry is popped a second time when it is dropped.
try_claim_pops_twice(w) ==
    /\ pc[w] = "idle"
    /\ \E p \in {q \in Pids : ready[q] > 0} :
        /\ IF claimable(word[Slot(p)], Generation(p))
           THEN /\ ready' = [ready EXCEPT ![p] = @ - 1]
                /\ word' = [word EXCEPT ![Slot(p)] = claimed(@)]
                /\ cur' = [cur EXCEPT ![w] = p]
                /\ goto(w, "claimed")
           ELSE ready' = [ready EXCEPT ![p] = @ - 2] /\ UNCHANGED <<word, cur, pc>>
    /\ UNCHANGED <<parent, execution, hot, published, registry, counters, dying,
                   notified, reap, hand, timerVars, ioVars, callVars, flagVars, budget>>

\* claim_work: pop an entry and validate it; a stale one is dropped.
try_claim(w) ==
    /\ pc[w] = "idle"
    /\ \E p \in {q \in Pids : ready[q] > 0} :
        /\ ready' = [ready EXCEPT ![p] = @ - 1]
        /\ IF claimable(word[Slot(p)], Generation(p))
           THEN /\ word' = [word EXCEPT ![Slot(p)] = claimed(@)]
                /\ cur' = [cur EXCEPT ![w] = p]
                /\ goto(w, "claimed")
           ELSE UNCHANGED <<word, cur, pc>>
    /\ UNCHANGED <<parent, execution, hot, published, registry, counters, dying,
                   notified, reap, hand, timerVars, ioVars, callVars, flagVars, budget>>

\* try_claim's active increment, after its CAS.
count_claim(w) ==
    /\ pc[w] = "claimed"
    /\ active' = active + 1
    /\ goto(w, "run")
    /\ UNCHANGED <<slotVars, registry, alive, main_pid, ready, dying, notified, cur,
                   reap, hand, timerVars, ioVars, callVars, flagVars, budget>>

\* koja_rt_yield_check flags the worker and switches out.
koja_rt_yield_check(w) ==
    /\ Calls(w, "yield")
    /\ goto(w, "yielded")
    /\ UNCHANGED <<tableVars, cur, reap, hand, timerVars, ioVars, callVars, flagVars>>

\* Mutant: the yield edge forgets the active count.
yield_running_uncounted(w) ==
    /\ pc[w] = "yielded"
    /\ word' = IF can_park(cur[w]) THEN [word EXCEPT ![me(w)] = moved(@, "Runnable")] ELSE word
    /\ goto(w, "switch")
    /\ UNCHANGED <<parent, execution, hot, published, registry, counters, ready, dying,
                   notified, cur, reap, hand, timerVars, ioVars, callVars, flagVars, budget>>

\* The worker replays the yield edge; a kill tombstone refuses it.
yield_running(w) ==
    /\ pc[w] = "yielded"
    /\ IF can_park(cur[w])
       THEN /\ word' = [word EXCEPT ![me(w)] = moved(@, "Runnable")]
            /\ active' = active - 1
       ELSE UNCHANGED <<word, active>>
    /\ goto(w, "switch")
    /\ UNCHANGED <<parent, execution, hot, published, registry, alive, main_pid, ready,
                   dying, notified, cur, reap, hand, timerVars, ioVars, callVars,
                   flagVars, budget>>

\* Mutant: a yielded process is released and not re-queued.
after_switch_no_requeue(w) ==
    /\ pc[w] = "switch"
    /\ word' = [word EXCEPT ![me(w)] = released(@)]
    /\ cur' = [cur EXCEPT ![w] = NoPid]
    /\ reap' = IF state(cur[w]) = "Dead" THEN [reap EXCEPT ![w] = cur[w]] ELSE reap
    /\ goto(w, IF state(cur[w]) = "Dead" THEN "reclaim" ELSE "check")
    /\ UNCHANGED <<parent, execution, hot, published, registry, counters, ready, dying,
                   notified, hand, timerVars, ioVars, callVars, flagVars, budget>>

\* after_switch: release the claim, then route by the state left behind.
after_switch(w) ==
    /\ pc[w] = "switch"
    /\ word' = [word EXCEPT ![me(w)] = released(@)]
    /\ cur' = [cur EXCEPT ![w] = NoPid]
    /\ IF state(cur[w]) = "Dead"
       THEN /\ reap' = [reap EXCEPT ![w] = cur[w]]
            /\ goto(w, "reclaim")
            /\ UNCHANGED ready
       ELSE /\ ready' = IF state(cur[w]) \in {"Created", "Runnable"}
                        THEN [ready EXCEPT ![cur[w]] = @ + 1] ELSE ready
            /\ goto(w, "check")
            /\ UNCHANGED reap
    /\ UNCHANGED <<parent, execution, hot, published, registry, counters, dying,
                   notified, hand, timerVars, ioVars, callVars, flagVars, budget>>

reclaim(w) ==
    /\ pc[w] = "reclaim"
    /\ reclaim_slot(reap[w])
    /\ goto(w, "free")
    /\ UNCHANGED <<parent, published, registry, counters, ready, dying, notified, cur,
                   reap, hand, timerVars, ioVars, callVars, flagVars, budget>>

free(w) ==
    /\ pc[w] = "free"
    /\ free_slot(reap[w])
    /\ goto(w, "check")
    /\ UNCHANGED <<slotVars, counters, ready, dying, notified, cur, reap, hand,
                   timerVars, ioVars, callVars, flagVars, budget>>

\* The worker loop's should_shutdown test after a switch.
check_shutdown(w) ==
    /\ pc[w] = "check"
    /\ SHUTDOWN' = (SHUTDOWN \/ should_shutdown)
    /\ hand' = [hand EXCEPT ![w].back = IF should_shutdown THEN "halt" ELSE "loop"]
    /\ goto(w, IF reap[w] # NoPid THEN "cancel_reaped"
               ELSE IF should_shutdown THEN "halt" ELSE "loop")
    /\ UNCHANGED <<tableVars, cur, reap, timerVars, ioVars, callVars, latched, budget>>

\* A reclaimed process may have died with a deadline armed.
cancel_reaped(w) ==
    /\ pc[w] = "cancel_reaped"
    /\ armed' = [armed EXCEPT ![reap[w]] = 0]
    /\ reap' = [reap EXCEPT ![w] = NoPid]
    /\ goto(w, hand[w].back)
    /\ UNCHANGED <<tableVars, cur, hand, now, grace, ioVars, callVars, flagVars, budget>>

------------------------------------------------------------------------------
\* The worker loop between processes.

\* One iteration's SHUTDOWN test.
worker_loop(w) ==
    /\ pc[w] = "loop"
    /\ goto(w, IF SHUTDOWN THEN "halt" ELSE "idle")
    /\ UNCHANGED <<tableVars, cur, reap, hand, timerVars, ioVars, callVars, flagVars, budget>>

\* park_for_work with nothing to pop: shut down, or sleep and go round.
park_for_work(w) ==
    /\ pc[w] = "idle"
    /\ \A p \in Pids : ready[p] = 0
    /\ SHUTDOWN' = (SHUTDOWN \/ should_shutdown)
    /\ goto(w, IF should_shutdown THEN "halt" ELSE "loop")
    /\ UNCHANGED <<tableVars, cur, reap, hand, timerVars, ioVars, callVars, latched, budget>>

\* The signal handler (external) latches a SIGTERM.
sigterm ==
    /\ Spend("signal")
    /\ latched' = TRUE
    /\ UNCHANGED <<tableVars, driverVars, timerVars, ioVars, callVars, SHUTDOWN>>

\* poll_signals: drain the latch, switch the mode, arm the grace window once,
\* then deliver the lifecycle message to main.
poll_signals(w) ==
    /\ pc[w] = "idle" /\ latched
    /\ latched' = FALSE
    /\ goto(w, "drain")
    /\ UNCHANGED <<tableVars, cur, reap, hand, timerVars, ioVars, callVars, SHUTDOWN, budget>>

enter_draining(w) ==
    /\ pc[w] = "drain"
    /\ registry' = [registry EXCEPT !.mode = "Draining"]
    /\ goto(w, IF registry.mode = "Draining" THEN "lifecycle" ELSE "grace")
    /\ UNCHANGED <<slotVars, counters, ready, dying, notified, cur, reap, hand,
                   timerVars, ioVars, callVars, flagVars, budget>>

arm_grace(w) ==
    /\ pc[w] = "grace"
    /\ grace' = TRUE
    /\ goto(w, "lifecycle")
    /\ UNCHANGED <<tableVars, cur, reap, hand, armed, now, ioVars, callVars, flagVars, budget>>

send_lifecycle(w) ==
    /\ pc[w] = "lifecycle"
    /\ deliver(main_pid, Message("Lifecycle", NoPid, 0))
    /\ goto(w, "idle")
    /\ UNCHANGED <<parent, execution, published, registry, alive, main_pid, dying,
                   notified, cur, reap, hand, timerVars, ioVars, callVars, flagVars, budget>>

\* Timers::advance: take every due deadline off the wheel, then re-validate
\* and promote them one slot hold at a time (apply_due).
advance(w) ==
    LET due == {p \in Pids : armed[p] # 0 /\ armed[p] <= now}
    IN  /\ pc[w] = "idle" /\ due # {}
        /\ hand' = [hand EXCEPT ![w].due = {<<p, armed[p]>> : p \in due}]
        /\ armed' = [p \in Pids |-> IF p \in due THEN 0 ELSE armed[p]]
        /\ goto(w, "firing")
        /\ UNCHANGED <<tableVars, cur, reap, now, grace, ioVars, callVars, flagVars, budget>>

promote_expired(w) ==
    /\ pc[w] = "firing"
    /\ \E e \in hand[w].due :
        /\ promote(e[1], promotes_expired(e[1], e[2]))
        /\ hand' = [hand EXCEPT ![w].due = @ \ {e}]
        /\ goto(w, IF hand[w].due = {e} THEN "idle" ELSE "firing")
    /\ UNCHANGED <<parent, execution, published, registry, alive, main_pid, dying,
                   notified, cur, reap, timerVars, ioVars, callVars, flagVars, budget>>

Tick ==
    /\ now < MaxNow
    /\ now' = now + 1
    /\ UNCHANGED <<tableVars, driverVars, armed, grace, ioVars, callVars, flagVars, budget>>

\* Mutant: the scan skips the first slot.
grace_expired_off_by_one(w) ==
    /\ pc[w] = "idle" /\ grace
    /\ registry.mode = "Draining"
    /\ hand' = [hand EXCEPT ![w].scan = 1, ![w].until = published, ![w].back = "halt"]
    /\ goto(w, "scan")
    /\ UNCHANGED <<tableVars, cur, reap, timerVars, ioVars, callVars, flagVars, budget>>

\* The grace window has run out while draining: kill_all.
grace_expired(w) ==
    /\ pc[w] = "idle" /\ grace
    /\ registry.mode = "Draining"
    /\ hand' = [hand EXCEPT ![w].scan = 0, ![w].until = published, ![w].back = "halt"]
    /\ goto(w, "scan")
    /\ UNCHANGED <<tableVars, cur, reap, timerVars, ioVars, callVars, flagVars, budget>>

\* live_pids loads one slot's word per step; kill_all then kills what it saw.
live_pids(w) ==
    /\ pc[w] = "scan"
    /\ IF hand[w].scan >= hand[w].until
       THEN /\ goto(w, IF hand[w].kills = {} THEN "kills" ELSE "killing")
            /\ UNCHANGED hand
       ELSE LET s == hand[w].scan
            IN  /\ hand' = [hand EXCEPT ![w].scan = @ + 1,
                       ![w].kills = IF word[s].state \in LiveStates
                                    THEN @ \cup {<<s, word[s].generation>>} ELSE @]
                /\ UNCHANGED pc
    /\ UNCHANGED <<tableVars, cur, reap, timerVars, ioVars, callVars, flagVars, budget>>

------------------------------------------------------------------------------
\* Spawn: the drain test and the table's spawn are two registry holds.
koja_rt_spawn(w) ==
    /\ Calls(w, "spawn")
    /\ goto(w, IF registry.mode = "Draining" THEN "run" ELSE "spawning")
    /\ UNCHANGED <<tableVars, cur, reap, hand, timerVars, ioVars, callVars, flagVars>>

\* Mutant: the spawner's aliveness is not re-checked under the registry hold.
table_spawn_unchecked(w) ==
    /\ pc[w] = "spawning"
    /\ spawn_fits /\ spawn(cur[w])
    /\ goto(w, "run")
    /\ UNCHANGED <<hot, active, dying, notified, cur, reap, hand, timerVars, ioVars,
                   callVars, flagVars, budget>>

table_spawn(w) ==
    /\ pc[w] = "spawning"
    /\ IF is_alive(cur[w])
       THEN spawn_fits /\ spawn(cur[w])
       ELSE UNCHANGED <<word, parent, execution, published, registry, alive, main_pid, ready>>
    /\ goto(w, "run")
    /\ UNCHANGED <<hot, active, dying, notified, cur, reap, hand, timerVars, ioVars,
                   callVars, flagVars, budget>>

------------------------------------------------------------------------------
\* Death edges and their settlement (settle_exits).

\* kill(p): the slot hold of the death edge, when it applies.
kill(w, p, otherwise) ==
    IF is_alive(p)
    THEN death_edge(w, p, "Killed") /\ goto(w, "pass")
    ELSE UNCHANGED <<word, hot, execution, alive, active, dying>> /\ goto(w, otherwise)

\* Mutant: the settler forgets what it freed.
freed_by_forgets(p) == {}

\* The PID a kill just reclaimed, whose deadline the settler cancels.
freed_by(p) == IF is_alive(p) /\ ~word[Slot(p)].on_cpu THEN {p} ELSE {}

koja_rt_kill(w) ==
    /\ Calls(w, "kill")
    /\ \E p \in Known :
        /\ kill(w, p, "kills")
        /\ hand' = [hand EXCEPT ![w].back = "run", ![w].freed = freed_by(p)]
    /\ UNCHANGED <<parent, published, registry, main_pid, ready, notified, cur, reap,
                   timerVars, ioVars, callVars, flagVars>>

\* koja_rt_process_exit records the stop reason; the body then returns.
koja_rt_process_exit(w) ==
    /\ Calls(w, "exit")
    /\ \E r \in {"Normal", "Shutdown"} :
        hot' = [hot EXCEPT ![me(w)].exit_reason = r]
    /\ goto(w, "dying")
    /\ UNCHANGED <<word, parent, execution, published, registry, counters, ready, dying,
                   notified, cur, reap, hand, timerVars, ioVars, callVars, flagVars>>

\* A crash unwinds to the trampoline, which records reason and capture in
\* two slot holds.
crash(w) ==
    /\ Calls(w, "crash")
    /\ hot' = [hot EXCEPT ![me(w)].exit_reason = "Crashed"]
    /\ goto(w, "crashing")
    /\ UNCHANGED <<word, parent, execution, published, registry, counters, ready, dying,
                   notified, cur, reap, hand, timerVars, ioVars, callVars, flagVars>>

set_crash_info(w) ==
    /\ pc[w] = "crashing"
    /\ hot' = [hot EXCEPT ![me(w)].crash_info = TRUE]
    /\ goto(w, "dying")
    /\ UNCHANGED <<word, parent, execution, published, registry, counters, ready, dying,
                   notified, cur, reap, hand, timerVars, ioVars, callVars, flagVars, budget>>

mark_dead_if_alive(w) ==
    /\ pc[w] = "dying"
    /\ IF is_alive(cur[w])
       THEN death_edge(w, cur[w], "None") /\ goto(w, "pass")
       ELSE UNCHANGED <<word, hot, execution, alive, active, dying>> /\ goto(w, "kills")
    /\ hand' = [hand EXCEPT ![w].back = "switch"]
    /\ UNCHANGED <<parent, published, registry, main_pid, ready, notified, cur, reap,
                   timerVars, ioVars, callVars, flagVars, budget>>

\* Mutant: the settler does not go back for the kills this pass staged.
death_pass_once(w) ==
    /\ pc[w] = "pass"
    /\ notify_exit(dying[w])
    /\ dying' = [dying EXCEPT ![w] = NoDeath]
    /\ goto(w, IF hand[w].kills = {} THEN "notices" ELSE "killing")
    /\ UNCHANGED <<slotVars, counters, ready, cur, reap, hand, timerVars, ioVars,
                   callVars, flagVars, budget>>

\* The death edge's registry hold, back in the loop that killed.
death_pass(w) ==
    /\ pc[w] = "pass"
    /\ notify_exit(dying[w])
    /\ dying' = [dying EXCEPT ![w] = NoDeath]
    /\ goto(w, IF hand[w].kills = {} THEN "kills" ELSE "killing")
    /\ UNCHANGED <<slotVars, counters, ready, cur, reap, hand, timerVars, ioVars,
                   callVars, flagVars, budget>>

take_pending_kills(w) ==
    /\ pc[w] = "kills"
    /\ registry' = [registry EXCEPT !.pending_kills = {}]
    /\ hand' = [hand EXCEPT ![w].kills = registry.pending_kills]
    /\ goto(w, IF registry.pending_kills = {} THEN "notices" ELSE "killing")
    /\ UNCHANGED <<slotVars, counters, ready, dying, notified, cur, reap, timerVars,
                   ioVars, callVars, flagVars, budget>>

kill_staged(w) ==
    /\ pc[w] = "killing"
    /\ \E p \in hand[w].kills :
        /\ kill(w, p, IF hand[w].kills = {p} THEN "kills" ELSE "killing")
        /\ hand' = [hand EXCEPT ![w].kills = @ \ {p}, ![w].freed = @ \cup freed_by(p)]
    /\ UNCHANGED <<parent, published, registry, main_pid, ready, notified, cur, reap,
                   timerVars, ioVars, callVars, flagVars, budget>>

take_exit_notices(w) ==
    /\ pc[w] = "notices"
    /\ registry' = [registry EXCEPT !.pending_exit_notices = {}]
    /\ hand' = [hand EXCEPT ![w].notices = registry.pending_exit_notices]
    /\ goto(w, IF registry.pending_exit_notices = {} THEN "downs" ELSE "notifying")
    /\ UNCHANGED <<slotVars, counters, ready, dying, notified, cur, reap, timerVars,
                   ioVars, callVars, flagVars, budget>>

deliver_exit_signals(w) ==
    /\ pc[w] = "notifying"
    /\ \E n \in hand[w].notices :
        /\ deliver(n.watcher, Message("ExitSignal", n.target, n.token))
        /\ hand' = [hand EXCEPT ![w].notices = @ \ {n}]
        /\ goto(w, IF hand[w].notices = {n} THEN "downs" ELSE "notifying")
    /\ UNCHANGED <<parent, execution, published, registry, alive, main_pid, dying,
                   notified, cur, reap, timerVars, ioVars, callVars, flagVars, budget>>

take_call_downs(w) ==
    /\ pc[w] = "downs"
    /\ registry' = [registry EXCEPT !.pending_call_downs = {}]
    /\ hand' = [hand EXCEPT ![w].downs = registry.pending_call_downs]
    /\ goto(w, IF registry.pending_call_downs = {} THEN "settled" ELSE "promoting")
    /\ UNCHANGED <<slotVars, counters, ready, dying, notified, cur, reap, timerVars,
                   ioVars, callVars, flagVars, budget>>

wake_call_waiters(w) ==
    /\ pc[w] = "promoting"
    /\ \E c \in hand[w].downs :
        /\ promote(c.caller, promotes_call(c.caller, c.token))
        /\ hand' = [hand EXCEPT ![w].downs = @ \ {c}]
        /\ goto(w, IF hand[w].downs = {c} THEN "settled" ELSE "promoting")
    /\ UNCHANGED <<parent, execution, published, registry, alive, main_pid, dying,
                   notified, cur, reap, timerVars, ioVars, callVars, flagVars, budget>>

\* The settler's return: cancel the deadlines of what it freed, or, after the
\* grace window's kill_all, raise SHUTDOWN and leave the loop.
settled(w) ==
    /\ pc[w] = "settled"
    /\ armed' = [p \in Pids |-> IF p \in hand[w].freed /\ hand[w].back # "halt"
                                THEN 0 ELSE armed[p]]
    /\ SHUTDOWN' = (SHUTDOWN \/ hand[w].back = "halt")
    /\ hand' = [hand EXCEPT ![w] = EmptyHand]
    /\ goto(w, hand[w].back)
    /\ UNCHANGED <<tableVars, cur, reap, now, grace, ioVars, callVars, latched, budget>>

------------------------------------------------------------------------------
\* Mail.

koja_rt_send(w) ==
    /\ Calls(w, "send")
    /\ \E p \in Known : deliver(p, Message("Business", cur[w], 0))
    /\ UNCHANGED <<parent, execution, published, registry, alive, main_pid, dying, notified,
                   pc, cur, reap, hand, timerVars, ioVars, callVars, flagVars>>

\* Popping a request hands the receiver its reply handle.
pop(w) ==
    LET m == received(mailbox(cur[w]))
    IN  /\ hot' = [hot EXCEPT ![me(w)].mailbox = after_pop(@)]
        /\ replies' = IF m.tag = "Business" /\ m.token # 0
                      THEN replies \cup {<<m.from, m.token>>} ELSE replies

\* receive_or_park: pop, or park in the same hold, or refuse over a tombstone.
receive_or_park(w, f, parked) ==
    IF depth(mailbox(cur[w])) > 0
    THEN pop(w) /\ UNCHANGED <<word, active, execution, pc>>
    ELSE /\ IF can_park(cur[w])
            THEN park(cur[w], "Blocked", "Receive", f.deadline) /\ goto(w, parked)
            ELSE UNCHANGED <<word, hot, active>> /\ goto(w, "switch")
         /\ set_frame(w, f)
         /\ UNCHANGED replies

koja_rt_receive(w) ==
    /\ Calls(w, "receive")
    /\ receive_or_park(w, [Body EXCEPT !.at = "receive"], "switch")
    /\ UNCHANGED <<parent, published, registry, alive, main_pid, ready, dying, notified, cur,
                   reap, hand, timerVars, ioVars, call_token, accepted, given_up, flagVars>>

\* koja_rt_receive's second half: pop what woke it, -1 on empty queues.
resume_receive(w) ==
    /\ pc[w] = "run" /\ frame(w).at = "receive"
    /\ IF depth(mailbox(cur[w])) > 0 THEN pop(w) ELSE UNCHANGED <<hot, replies>>
    /\ set_frame(w, Body)
    /\ UNCHANGED <<word, parent, published, registry, counters, ready, dying, notified, pc,
                   cur, reap, hand, timerVars, ioVars, call_token, accepted, given_up,
                   flagVars, budget>>

\* A deadline already past only polls.  The deadline is computed before the
\* hold, so it may have passed by the time of the park.
koja_rt_receive_timeout(w) ==
    /\ Calls(w, "receive_timeout")
    /\ \/ /\ IF depth(mailbox(cur[w])) > 0 THEN pop(w) ELSE UNCHANGED <<hot, replies>>
          /\ UNCHANGED <<word, active, execution, pc>>
       \/ \E d \in now .. MaxNow :
            receive_or_park(w, [Body EXCEPT !.at = "receive_timeout", !.deadline = d], "arm")
    /\ UNCHANGED <<parent, published, registry, alive, main_pid, ready, dying, notified, cur,
                   reap, hand, timerVars, ioVars, call_token, accepted, given_up, flagVars>>

\* Mutant: the parked process's deadline never reaches the wheel.
arm_deadline_forgotten(w) ==
    /\ pc[w] = "arm"
    /\ goto(w, "switch")
    /\ UNCHANGED <<tableVars, cur, reap, hand, timerVars, ioVars, callVars, flagVars, budget>>

\* Arm after the park, outside the slot hold, then switch out.
arm_deadline(w) ==
    /\ pc[w] = "arm"
    /\ armed' = [armed EXCEPT ![cur[w]] = frame(w).deadline]
    /\ goto(w, "switch")
    /\ UNCHANGED <<tableVars, cur, reap, hand, now, grace, ioVars, callVars, flagVars, budget>>

clear_deadline(w) ==
    /\ \/ pc[w] = "run" /\ frame(w).at = "receive_timeout" /\ goto(w, "pop")
       \/ pc[w] = "io_clear" /\ goto(w, "cancel")
       \/ pc[w] = "call_expired" /\ goto(w, "call_clear")
    /\ hot' = [hot EXCEPT ![me(w)].deadline = 0]
    /\ UNCHANGED <<word, parent, execution, published, registry, counters, ready, dying,
                   notified, cur, reap, hand, timerVars, ioVars, callVars, flagVars, budget>>

pop_received(w) ==
    /\ pc[w] = "pop"
    /\ IF depth(mailbox(cur[w])) > 0 THEN pop(w) ELSE UNCHANGED <<hot, replies>>
    /\ goto(w, "cancel")
    /\ UNCHANGED <<word, parent, execution, published, registry, counters, ready, dying,
                   notified, cur, reap, hand, timerVars, ioVars, call_token, accepted,
                   given_up, flagVars, budget>>

cancel_deadline(w) ==
    /\ pc[w] = "cancel"
    /\ armed' = [armed EXCEPT ![cur[w]] = 0]
    /\ set_frame(w, Body)
    /\ goto(w, "run")
    /\ UNCHANGED <<word, parent, hot, published, registry, counters, ready, dying, notified,
                   cur, reap, hand, now, grace, ioVars, callVars, flagVars, budget>>

------------------------------------------------------------------------------
\* Call and reply.

\* koja_rt_call_token: mint, and await the reply before the request is sent.
koja_rt_call_token(w) ==
    /\ Calls(w, "call") /\ call_token < MaxCalls
    /\ call_token' = call_token + 1
    /\ hot' = [hot EXCEPT ![me(w)].awaiting_reply = call_token + 1]
    /\ \E p \in Known :
        set_frame(w, [Body EXCEPT !.at = "call", !.token = call_token + 1, !.callee = p])
    /\ goto(w, "call_send")
    /\ UNCHANGED <<word, parent, published, registry, counters, ready, dying, notified, cur,
                   reap, hand, timerVars, ioVars, replies, accepted, given_up, flagVars>>

\* The request itself, and the deadline koja_rt_call_receive then computes.
call_send(w) ==
    /\ pc[w] = "call_send"
    /\ deliver(frame(w).callee, Message("Business", cur[w], frame(w).token))
    /\ \E d \in now .. MaxNow : set_frame(w, [frame(w) EXCEPT !.deadline = d])
    /\ goto(w, "run")
    /\ UNCHANGED <<parent, published, registry, alive, main_pid, dying, notified, cur, reap,
                   hand, timerVars, ioVars, callVars, flagVars, budget>>

\* One iteration of koja_rt_call_receive: the timeout check comes first.
koja_rt_call_receive(w) ==
    /\ pc[w] = "run" /\ frame(w).at = "call"
    /\ goto(w, IF now >= frame(w).deadline THEN "call_expired" ELSE "call_ensure")
    /\ UNCHANGED <<tableVars, cur, reap, hand, timerVars, ioVars, callVars, flagVars, budget>>

\* Mutant: a caller that gives up stays registered for the reply.
clear_awaiting_reply_forgotten(w) ==
    /\ pc[w] = "call_clear"
    /\ given_up' = given_up \cup {frame(w).token}
    /\ goto(w, "call_evict")
    /\ UNCHANGED <<tableVars, cur, reap, hand, timerVars, ioVars, call_token, replies,
                   accepted, flagVars, budget>>

clear_awaiting_reply(w) ==
    /\ pc[w] = "call_clear"
    /\ hot' = [hot EXCEPT ![me(w)].awaiting_reply = 0]
    /\ given_up' = given_up \cup {frame(w).token}
    /\ goto(w, "call_evict")
    /\ UNCHANGED <<word, parent, execution, published, registry, counters, ready, dying,
                   notified, cur, reap, hand, timerVars, ioVars, call_token, replies,
                   accepted, flagVars, budget>>

\* Mutant: the waiter index is not maintained.
ensure_call_waiter_skipped(w) ==
    /\ pc[w] = "call_ensure"
    /\ goto(w, "call_take")
    /\ UNCHANGED <<tableVars, cur, reap, hand, timerVars, ioVars, callVars, flagVars, budget>>

ensure_call_waiter(w) ==
    LET c == [callee |-> frame(w).callee, caller |-> cur[w], token |-> frame(w).token]
        registered == \E x \in registry.call_waiters :
                          x.caller = c.caller /\ x.token = c.token
    IN  /\ pc[w] = "call_ensure"
        /\ registry' = [registry EXCEPT !.call_waiters =
               IF ~registered /\ is_alive(c.callee) /\ is_alive(c.caller)
               THEN @ \cup {c} ELSE @]
        /\ goto(w, "call_take")
        /\ UNCHANGED <<slotVars, counters, ready, dying, notified, cur, reap, hand,
                       timerVars, ioVars, callVars, flagVars, budget>>

\* take_reply_or_park's slot hold: the matching reply, else drop a stale one
\* and retry, else give up on a dead callee, else park, else refuse.
take_reply_or_park(w) ==
    LET p == cur[w]
        matched == mailbox(p).reply.token = frame(w).token
    IN  /\ pc[w] = "call_take"
        /\ CASE has_reply(mailbox(p)) ->
                  /\ hot' = [hot EXCEPT
                         ![me(w)].mailbox = after_take(@),
                         ![me(w)].awaiting_reply = IF matched THEN 0 ELSE @,
                         ![me(w)].deadline = IF matched THEN 0 ELSE @]
                  /\ goto(w, IF matched THEN "call_evict" ELSE "run")
                  /\ UNCHANGED <<word, active, given_up>>
             [] ~has_reply(mailbox(p)) /\ ~is_alive(frame(w).callee) ->
                  /\ hot' = [hot EXCEPT ![me(w)].awaiting_reply = 0,
                                        ![me(w)].deadline = 0]
                  /\ given_up' = given_up \cup {frame(w).token}
                  /\ goto(w, "call_evict")
                  /\ UNCHANGED <<word, active>>
             [] OTHER ->
                  /\ IF can_park(p)
                     THEN park(p, "Blocked", "Reply", frame(w).deadline) /\ goto(w, "arm")
                     ELSE UNCHANGED <<word, hot, active>> /\ goto(w, "switch")
                  /\ UNCHANGED given_up
        /\ UNCHANGED <<parent, execution, published, registry, alive, main_pid, ready, dying,
                       notified, cur, reap, hand, timerVars, ioVars, call_token, replies,
                       accepted, flagVars, budget>>

evict_call_waiter(w) ==
    /\ pc[w] = "call_evict"
    /\ registry' = [registry EXCEPT !.call_waiters = {c \in @ : c.caller # cur[w]}]
    /\ goto(w, "cancel")
    /\ UNCHANGED <<slotVars, counters, ready, dying, notified, cur, reap, hand, timerVars,
                   ioVars, callVars, flagVars, budget>>

\* Any holder of a reply handle may use it, also after the call is over.
koja_rt_reply(w) ==
    /\ Calls(w, "reply")
    /\ \E r \in replies :
        /\ deliver_reply(r[1], r[2])
        /\ accepted' = IF accepts_reply(r[1], r[2]) THEN accepted \cup {r[2]} ELSE accepted
    /\ UNCHANGED <<parent, execution, published, registry, alive, main_pid, dying, notified,
                   pc, cur, reap, hand, timerVars, ioVars, call_token, replies, given_up,
                   flagVars>>

------------------------------------------------------------------------------
\* Monitors.

\* monitor's first registry hold: mint, and register a live target.
koja_rt_monitor(w) ==
    LET token == registry.next_monitor_token
    IN  /\ Calls(w, "monitor") /\ token <= MaxMonitors
        /\ \E p \in Known :
            LET m == [target |-> p, token |-> token, watcher |-> cur[w]]
            IN  /\ registry' = [registry EXCEPT
                       !.next_monitor_token = token + 1,
                       !.monitors = IF is_alive(p) THEN @ \cup {m} ELSE @]
                /\ hand' = [hand EXCEPT ![w].back = "run",
                       ![w].monitor = IF is_alive(p) THEN @ ELSE
                           [NoMonitor EXCEPT !.target = p, !.token = token,
                                             !.watcher = cur[w]]]
                /\ goto(w, IF is_alive(p) THEN "kills" ELSE "mon_read")
        /\ UNCHANGED <<slotVars, counters, ready, dying, notified, cur, reap, timerVars,
                       ioVars, callVars, flagVars>>

\* A dead target: snapshot what its tombstone still records ...
monitor_snapshot(w) ==
    LET p == hand[w].monitor.target
    IN  /\ pc[w] = "mon_read"
        /\ hand' = IF here(p) /\ state(p) = "Dead"
                   THEN [hand EXCEPT ![w].monitor.reason = hot[Slot(p)].exit_reason,
                                     ![w].monitor.crash_info = hot[Slot(p)].crash_info]
                   ELSE hand
        /\ goto(w, "mon_stage")
        /\ UNCHANGED <<tableVars, cur, reap, timerVars, ioVars, callVars, flagVars, budget>>

\* Mutant: a dead target is registered too, besides its immediate notice.
monitor_stage_and_register(w) ==
    LET m == hand[w].monitor
    IN  /\ pc[w] = "mon_stage"
        /\ registry' = [registry EXCEPT
               !.pending_exit_notices = @ \cup {Notice(m, m.reason, m.crash_info)},
               !.monitors = @ \cup {[target |-> m.target, token |-> m.token,
                                     watcher |-> m.watcher]}]
        /\ notified' = [notified EXCEPT ![m.token] = @ + 1]
        /\ hand' = [hand EXCEPT ![w].monitor = NoMonitor]
        /\ goto(w, "kills")
        /\ UNCHANGED <<slotVars, counters, ready, dying, cur, reap, timerVars, ioVars,
                       callVars, flagVars, budget>>

\* ... and stage the immediate notice under a second registry hold.
monitor_stage(w) ==
    LET m == hand[w].monitor
    IN  /\ pc[w] = "mon_stage"
        /\ registry' = [registry EXCEPT !.pending_exit_notices =
               @ \cup {Notice(m, m.reason, m.crash_info)}]
        /\ notified' = [notified EXCEPT ![m.token] = @ + 1]
        /\ hand' = [hand EXCEPT ![w].monitor = NoMonitor]
        /\ goto(w, "kills")
        /\ UNCHANGED <<slotVars, counters, ready, dying, cur, reap, timerVars, ioVars,
                       callVars, flagVars, budget>>

koja_rt_demonitor(w) ==
    /\ Calls(w, "demonitor")
    /\ \E t \in 1 .. (registry.next_monitor_token - 1) :
        registry' = [registry EXCEPT !.monitors = {m \in @ : m.token # t}]
    /\ UNCHANGED <<slotVars, counters, ready, dying, notified, pc, cur, reap, hand,
                   timerVars, ioVars, callVars, flagVars>>

------------------------------------------------------------------------------
\* Blocking I/O: one fd per process, so a registration is its process.

io_block(w) ==
    /\ Calls(w, "io")
    /\ \E d \in {0} \cup now .. MaxNow :
        IF has_system(mailbox(cur[w]))
        THEN UNCHANGED <<word, hot, active, execution, pc>>
        ELSE /\ IF can_park(cur[w])
                THEN park(cur[w], "WaitingIO", "Receive", d) /\ goto(w, "io_register")
                ELSE UNCHANGED <<word, hot, active>> /\ goto(w, "switch")
             /\ set_frame(w, [Body EXCEPT !.at = "io", !.deadline = d])
    /\ UNCHANGED <<parent, published, registry, alive, main_pid, ready, dying, notified, cur,
                   reap, hand, timerVars, ioVars, callVars, flagVars>>

register(w) ==
    /\ pc[w] = "io_register"
    /\ wakers' = wakers \cup {cur[w]}
    /\ goto(w, IF frame(w).deadline = 0 THEN "switch" ELSE "arm")
    /\ UNCHANGED <<tableVars, cur, reap, hand, timerVars, events, callVars, flagVars, budget>>

\* io_block after its switch: deregister, then drop the deadline if there is one.
deregister(w) ==
    /\ pc[w] = "run" /\ frame(w).at = "io"
    /\ wakers' = wakers \ {cur[w]}
    /\ IF frame(w).deadline = 0
       THEN set_frame(w, Body) /\ UNCHANGED pc
       ELSE goto(w, "io_clear") /\ UNCHANGED execution
    /\ UNCHANGED <<word, parent, hot, published, registry, counters, ready, dying, notified,
                   cur, reap, hand, timerVars, events, callVars, flagVars, budget>>

\* The reactor thread polls readiness of registered fds, then applies it.
reactor_poll ==
    /\ events = {}
    /\ \E e \in SUBSET wakers : e # {} /\ events' = e
    /\ UNCHANGED <<tableVars, driverVars, timerVars, wakers, callVars, flagVars, budget>>

apply_wakers ==
    /\ \E p \in events :
        /\ promote(p, promotes_io(p))
        /\ events' = events \ {p}
    /\ UNCHANGED <<parent, execution, published, registry, alive, main_pid, dying, notified,
                   driverVars, timerVars, wakers, callVars, flagVars, budget>>

------------------------------------------------------------------------------
\* The entry process has been spawned by the host thread; the workers start.
Init ==
    LET main == <<0, 1>>
    IN  /\ word = [s \in Slots |-> IF s = 0 THEN occupied(1) ELSE FreshWord]
        /\ parent = [s \in Slots |-> NoPid]
        /\ execution = [s \in Slots |-> IF s = 0 THEN Body ELSE NoExecution]
        /\ hot = [s \in Slots |-> FreshHot]
        /\ published = 1
        /\ registry = FreshRegistry
        /\ alive = 1 /\ active = 0 /\ main_pid = main
        /\ ready = [p \in Pids |-> IF p = main THEN 1 ELSE 0]
        /\ dying = [w \in Workers |-> NoDeath]
        /\ notified = [t \in 1 .. MaxMonitors |-> 0]
        /\ pc = [w \in Workers |-> "loop"]
        /\ cur = [w \in Workers |-> NoPid]
        /\ reap = [w \in Workers |-> NoPid]
        /\ hand = [w \in Workers |-> EmptyHand]
        /\ SHUTDOWN = FALSE /\ latched = FALSE /\ grace = FALSE
        /\ armed = [p \in Pids |-> 0] /\ now = 1
        /\ wakers = {} /\ events = {}
        /\ call_token = 0 /\ replies = {} /\ accepted = {} /\ given_up = {}
        /\ budget \in Scenarios

\* The runtime's own steps: finite code between two intrinsics of a body.
Claim(w) == try_claim(w) \/ count_claim(w)

SwitchOut(w) ==
    \/ yield_running(w) \/ after_switch(w) \/ reclaim(w) \/ free(w)
    \/ check_shutdown(w) \/ cancel_reaped(w)

Loop(w) ==
    \/ worker_loop(w) \/ park_for_work(w) \/ poll_signals(w) \/ enter_draining(w)
    \/ arm_grace(w) \/ send_lifecycle(w) \/ advance(w) \/ promote_expired(w)
    \/ grace_expired(w) \/ live_pids(w)

Settle(w) ==
    \/ death_pass(w) \/ take_pending_kills(w) \/ kill_staged(w)
    \/ take_exit_notices(w) \/ deliver_exit_signals(w)
    \/ take_call_downs(w) \/ wake_call_waiters(w) \/ settled(w)

Resume(w) ==
    \/ resume_receive(w) \/ arm_deadline(w) \/ clear_deadline(w) \/ pop_received(w)
    \/ cancel_deadline(w) \/ call_send(w) \/ koja_rt_call_receive(w)
    \/ clear_awaiting_reply(w) \/ ensure_call_waiter(w) \/ take_reply_or_park(w)
    \/ evict_call_waiter(w) \/ table_spawn(w) \/ set_crash_info(w)
    \/ mark_dead_if_alive(w) \/ monitor_snapshot(w) \/ monitor_stage(w)
    \/ register(w) \/ deregister(w)

\* What a process body chooses to do.
Intrinsic(w) ==
    \/ koja_rt_yield_check(w) \/ koja_rt_spawn(w) \/ koja_rt_kill(w)
    \/ koja_rt_process_exit(w) \/ crash(w) \/ koja_rt_send(w) \/ koja_rt_receive(w)
    \/ koja_rt_receive_timeout(w) \/ koja_rt_call_token(w) \/ koja_rt_reply(w)
    \/ koja_rt_monitor(w) \/ koja_rt_demonitor(w) \/ io_block(w)

Runtime(w) == Claim(w) \/ SwitchOut(w) \/ Loop(w) \/ Settle(w) \/ Resume(w)

Next ==
    \/ \E w \in Workers : Runtime(w) \/ Intrinsic(w)
    \/ sigterm \/ Tick \/ reactor_poll \/ apply_wakers

Spec == Init /\ [][Next]_vars
==============================================================================
