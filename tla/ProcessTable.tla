----------------------------- MODULE ProcessTable -----------------------------
(***************************************************************************)
(* The sharded process table (process_table.rs).  A slot has a lifecycle   *)
(* word, a parent, an execution cell and a mutex-guarded hot state; one    *)
(* registry mutex guards the cross-process bookkeeping.  No code path      *)
(* holds two of these mutexes at once, so the operators here are the       *)
(* critical sections ("holds"): each is one atomic step, and a table       *)
(* operation that takes several holds is several steps of its caller.      *)
(*                                                                         *)
(* The relaxed counters alive and active change in the step of the edge    *)
(* they follow, except in try_claim, where another thread's kill of the    *)
(* same process can come between the CAS and the increment.                *)
(***************************************************************************)
EXTENDS Integers, Sequences, FiniteSets, Lifecycle, Mailbox

CONSTANTS
    MaxSlots,       \* bound: slots the arena may publish
    MaxGeneration,  \* bound: occupants a slot may have over its life
    Workers         \* the worker threads

ASSUME TableAssumption ==
    MaxSlots \in Nat \ {0} /\ MaxGeneration \in Nat \ {0}

Slots == 0 .. (MaxSlots - 1)

\* A packed PID is its (slot, generation) pair; the invalid handle 0 is <<0, 0>>.
Pids == Slots \X (1 .. MaxGeneration)

NoPid == <<0, 0>>

MaybePid == Pids \cup {NoPid}

Slot(p) == p[1]

Generation(p) == p[2]

ExitReason == {"Normal", "Shutdown", "Killed", "Crashed"}

Mode == {"Running", "Draining"}

\* The execution cell: where the process continues when it is next resumed,
\* with the arguments of the blocking call it is inside.
Body == [at |-> "body", token |-> 0, callee |-> NoPid, deadline |-> 0]

NoExecution == [Body EXCEPT !.at = "none"]

\* HotState::default (0 is the absent deadline and the absent call token).
FreshHot == [awaiting_reply |-> 0, crash_info |-> FALSE, deadline |-> 0,
             exit_reason |-> "Normal", mailbox |-> EmptyMailbox,
             waiting |-> "Receive"]

FreshRegistry == [call_waiters |-> {}, children |-> {}, free |-> <<>>,
                  mode |-> "Running", monitors |-> {}, next_monitor_token |-> 1,
                  pending_call_downs |-> {}, pending_exit_notices |-> {},
                  pending_kills |-> {}]

\* What a death edge snapshots under the slot hold for its registry hold.
NoDeath == [pid |-> NoPid, parent |-> NoPid, reason |-> "Normal",
            crash_info |-> FALSE, reclaimed |-> FALSE]

VARIABLES
    word,       \* [Slots -> WordState]
    parent,     \* [Slots -> MaybePid]
    execution,  \* [Slots -> execution cell]
    hot,        \* [Slots -> HotState]
    published,  \* number of slots the arena has published
    registry,   \* the record the registry mutex guards
    alive,      \* ProcessTable.alive
    active,     \* ProcessTable.active
    main_pid,   \* ProcessTable.main_pid
    ready,      \* [Pids -> Nat]: run-queue entries and wakes being routed
    dying,      \* [Workers -> death snapshot awaiting its registry hold]
    notified    \* history: notices staged so far for each monitor token

slotVars == <<word, parent, execution, hot, published>>
counters == <<alive, active, main_pid>>
tableVars == <<slotVars, registry, counters, ready, dying, notified>>

is_alive(p) == alive_at(word[Slot(p)], Generation(p))

\* with_hot's generation check: the occupant, alive or a tombstone.
here(p) == word[Slot(p)].generation = Generation(p)

state(p) == word[Slot(p)].state

mailbox(p) == hot[Slot(p)].mailbox

------------------------------------------------------------------------------
\* Wakes.

\* wake_edge, under the slot hold; the wake fact it emits is routed at once.
wake_edge(p) ==
    /\ word' = [word EXCEPT ![Slot(p)] = moved(@, "Runnable")]
    /\ active' = IF state(p) = "WaitingIO" THEN active - 1 ELSE active
    /\ ready' = [ready EXCEPT ![p] = @ + 1]

\* Mutant: a delivery does not wake a target that is still on its worker.
wakes_off_cpu(p, m) ==
    ~word[Slot(p)].on_cpu /\ state(p) = "Blocked" /\ hot[Slot(p)].waiting = target_of(m)

\* The wake condition of deliver_locked.
wakes(p, m) ==
    \/ state(p) = "Blocked" /\ hot[Slot(p)].waiting = target_of(m)
    \/ state(p) = "WaitingIO" /\ m.tag = "Lifecycle"

\* deliver, and deliver_locked on a process known to be alive: push and wake
\* in one slot hold.  A message for a dead or stale PID bounces.
deliver(p, m) ==
    IF is_alive(p)
    THEN /\ hot' = [hot EXCEPT ![Slot(p)].mailbox = push(@, m)]
         /\ IF wakes(p, m) THEN wake_edge(p) ELSE UNCHANGED <<word, active, ready>>
    ELSE UNCHANGED <<word, hot, active, ready>>

accepts_reply(p, token) == is_alive(p) /\ hot[Slot(p)].awaiting_reply = token

deliver_reply(p, token) ==
    IF accepts_reply(p, token)
    THEN deliver(p, Message("Reply", NoPid, token))
    ELSE UNCHANGED <<word, hot, active, ready>>

\* Mutant: a fired timer is not re-validated against the recorded deadline.
promotes_any_expired(p, fire_at) == is_alive(p) /\ state(p) \in {"Blocked", "WaitingIO"}

promotes_expired(p, fire_at) ==
    /\ is_alive(p)
    /\ state(p) \in {"Blocked", "WaitingIO"}
    /\ hot[Slot(p)].deadline = fire_at

promotes_io(p) == is_alive(p) /\ state(p) = "WaitingIO"

\* Mutant: the wait target is swapped.
promotes_call_receiver(p, token) ==
    /\ is_alive(p)
    /\ state(p) = "Blocked"
    /\ hot[Slot(p)].waiting = "Receive"
    /\ hot[Slot(p)].awaiting_reply = token

promotes_call(p, token) ==
    /\ is_alive(p)
    /\ state(p) = "Blocked"
    /\ hot[Slot(p)].waiting = "Reply"
    /\ hot[Slot(p)].awaiting_reply = token

\* The promote_* family: when its re-validation holds, forget the deadline
\* and wake; otherwise the source of the wake was stale and nothing happens.
promote(p, valid) ==
    IF valid
    THEN hot' = [hot EXCEPT ![Slot(p)].deadline = 0] /\ wake_edge(p)
    ELSE UNCHANGED <<word, hot, active, ready>>

------------------------------------------------------------------------------
\* Parks, under the parker's own slot hold.

\* park_edge refuses a park over a tombstone.
can_park(p) == is_alive(p) /\ state(p) = "Running"

park(p, to, target, deadline) ==
    /\ word' = [word EXCEPT ![Slot(p)] = moved(@, to)]
    /\ hot' = [hot EXCEPT ![Slot(p)].deadline = deadline,
                          ![Slot(p)].waiting = IF to = "Blocked" THEN target ELSE @]
    /\ active' = IF to = "Blocked" THEN active - 1 ELSE active

------------------------------------------------------------------------------
\* Spawn: one registry hold from the parent check to the published word.

\* The popped slot, or the next one the arena grows.
spawn_slot ==
    LET free == registry.free
    IN  IF free # <<>> THEN free[Len(free)] ELSE published

spawn_generation == LET g == word[spawn_slot].generation IN IF g = 0 THEN 1 ELSE g

\* Bound: the model stops handing out PIDs at MaxSlots and MaxGeneration.
spawn_fits == spawn_slot \in Slots /\ spawn_generation <= MaxGeneration

\* Mutant: the word is published with no execution in the cell.
spawn_no_execution(par) ==
    LET s     == spawn_slot
        child == <<s, spawn_generation>>
    IN  /\ word' = [word EXCEPT ![s] = occupied(spawn_generation)]
        /\ parent' = [parent EXCEPT ![s] = par]
        /\ published' = IF registry.free # <<>> THEN published ELSE published + 1
        /\ registry' = [registry EXCEPT
               !.free = IF @ # <<>> THEN SubSeq(@, 1, Len(@) - 1) ELSE @,
               !.children = IF par # NoPid THEN @ \cup {<<par, child>>} ELSE @]
        /\ alive' = alive + 1
        /\ main_pid' = IF main_pid = NoPid THEN child ELSE main_pid
        /\ ready' = [ready EXCEPT ![child] = @ + 1]
        /\ UNCHANGED execution

spawn(par) ==
    LET s     == spawn_slot
        child == <<s, spawn_generation>>
    IN  /\ word' = [word EXCEPT ![s] = occupied(spawn_generation)]
        /\ parent' = [parent EXCEPT ![s] = par]
        /\ execution' = [execution EXCEPT ![s] = Body]
        /\ published' = IF registry.free # <<>> THEN published ELSE published + 1
        /\ registry' = [registry EXCEPT
               !.free = IF @ # <<>> THEN SubSeq(@, 1, Len(@) - 1) ELSE @,
               !.children = IF par # NoPid THEN @ \cup {<<par, child>>} ELSE @]
        /\ alive' = alive + 1
        /\ main_pid' = IF main_pid = NoPid THEN child ELSE main_pid
        /\ ready' = [ready EXCEPT ![child] = @ + 1]

------------------------------------------------------------------------------
\* Death.

\* Mutant: the on_cpu test is dropped and a running process is reclaimed.
death_edge_always_reclaims(w, p, forced) ==
    LET s == Slot(p)
    IN  /\ word' = [word EXCEPT ![s] = vacated(moved(@, "Dead"))]
        /\ hot' = [hot EXCEPT ![s] = FreshHot]
        /\ execution' = [execution EXCEPT ![s] = NoExecution]
        /\ alive' = alive - 1
        /\ active' = IF state(p) \in {"Running", "WaitingIO"} THEN active - 1 ELSE active
        /\ dying' = [dying EXCEPT ![w] =
               [pid |-> p, parent |-> parent[s], reason |-> "Killed",
                crash_info |-> FALSE, reclaimed |-> TRUE]]

\* death_edge's slot hold on a live p: tombstone, account, snapshot for the
\* registry hold, and reclaim at once when no worker owns p.
death_edge(w, p, forced) ==
    LET s      == Slot(p)
        off    == ~word[s].on_cpu
        reason == IF forced = "None" THEN hot[s].exit_reason ELSE forced
        dead   == moved(word[s], "Dead")
    IN  /\ word' = [word EXCEPT ![s] = IF off THEN vacated(dead) ELSE dead]
        /\ hot' = [hot EXCEPT ![s] = IF off THEN FreshHot
                                     ELSE [@ EXCEPT !.exit_reason = reason]]
        /\ execution' = [execution EXCEPT ![s] = IF off THEN NoExecution ELSE @]
        /\ alive' = alive - 1
        /\ active' = IF state(p) \in {"Running", "WaitingIO"} THEN active - 1 ELSE active
        /\ dying' = [dying EXCEPT ![w] =
               [pid |-> p, parent |-> parent[s], reason |-> reason,
                crash_info |-> hot[s].crash_info, reclaimed |-> off]]

\* An exit notice.  The code's notice does not name its monitor: the token is
\* history, so that two notices for one monitor can be told apart.
Notice(m, reason, crash) ==
    [watcher |-> m.watcher, target |-> m.target, token |-> m.token,
     reason |-> reason, crash_info |-> crash]

\* Mutant: the slot goes on the freelist although its owner still has it.
notify_exit_always_frees(d) ==
    /\ registry' = [registry EXCEPT
           !.pending_kills = @ \cup {c[2] : c \in {x \in registry.children : x[1] = d.pid}},
           !.free = Append(@, Slot(d.pid))]
    /\ UNCHANGED notified

\* death_edge's registry hold: notify_exit and the freelist push.
notify_exit(d) ==
    LET p       == d.pid
        watched == {m \in registry.monitors : m.target = p}
        callers == {c \in registry.call_waiters : c.callee = p /\ c.caller # p}
        orphans == {c \in registry.children : c[1] = p}
    IN  /\ registry' = [registry EXCEPT
               !.monitors = {m \in @ : m.target # p /\ m.watcher # p},
               !.pending_exit_notices =
                    @ \cup {Notice(m, d.reason, d.crash_info) : m \in watched},
               !.call_waiters = {c \in @ : c.callee # p /\ c.caller # p},
               !.pending_call_downs = @ \cup callers,
               !.children = {c \in @ : c[1] # p /\ c # <<d.parent, p>>},
               !.pending_kills = @ \cup {c[2] : c \in orphans},
               !.free = IF d.reclaimed THEN Append(@, Slot(p)) ELSE @]
        /\ notified' = [t \in DOMAIN notified |->
               IF \E m \in watched : m.token = t THEN notified[t] + 1 ELSE notified[t]]

\* reclaim's slot hold (reclaim_locked) and its registry hold.
reclaim_slot(p) ==
    /\ word' = [word EXCEPT ![Slot(p)] = vacated(@)]
    /\ hot' = [hot EXCEPT ![Slot(p)] = FreshHot]
    /\ execution' = [execution EXCEPT ![Slot(p)] = NoExecution]

free_slot(p) == registry' = [registry EXCEPT !.free = Append(@, Slot(p))]

should_shutdown == alive = 0 \/ (main_pid # NoPid /\ ~is_alive(main_pid))
==============================================================================
