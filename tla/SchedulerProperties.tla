-------------------------- MODULE SchedulerProperties --------------------------
(***************************************************************************)
(* What the native scheduler promises of wakes, deadlines, children,       *)
(* monitors and calls, over the states and steps of NativeScheduler.       *)
(***************************************************************************)
EXTENDS SchedulerCustody

\* No claimable process is forgotten: it has a run-queue entry or a wake on
\* its way to one (stale entries and requeues included).
NoLostProcess ==
    \A p \in Pids : claimable(word[Slot(p)], Generation(p)) => ready[p] > 0

\* The relaxed counters agree with the words, up to claims whose increment
\* is still to come.
CountersAgree ==
    /\ alive = Cardinality({s \in Slots : word[s].state \in LiveStates})
    /\ active + Cardinality({w \in Workers : pc[w] = "claimed"})
         = Cardinality({s \in Slots : word[s].state \in {"Running", "WaitingIO"}})

------------------------------------------------------------------------------
\* No child outlives its parent's settled death (invariant 6 of the table): a
\* live process whose parent is dead is still reached by the cascade, through
\* its parent's pending registry pass, the staging queue or a settler's hand;
\* and the staging queue always has a settler that will look at it again.
NoOrphans ==
    /\ \A p \in Pids : is_alive(p) /\ parent[Slot(p)] # NoPid =>
         \/ is_alive(parent[Slot(p)])
         \/ \E w \in Workers : dying[w].pid = parent[Slot(p)]
         \/ p \in registry.pending_kills
         \/ \E w \in Workers : p \in hand[w].kills
    /\ registry.pending_kills # {} => \E w \in Workers : pc[w] \in KillLabels

\* A parked receiver has nothing to receive, a parked caller has no reply for
\* its call, and an I/O waiter has no system mail: no delivery slips between
\* the empty check and the park, and none leaves its target asleep.
NoLostWakeup ==
    \A s \in Slots :
        /\ word[s].state = "Blocked" /\ hot[s].waiting = "Receive" =>
               depth(hot[s].mailbox) = 0
        /\ word[s].state = "Blocked" /\ hot[s].waiting = "Reply" =>
               hot[s].mailbox.reply.token # hot[s].awaiting_reply
        /\ word[s].state = "WaitingIO" => ~has_system(hot[s].mailbox)

\* koja_rt_receive never returns -1: a process resumed inside it has mail.
ReceiveFindsMail ==
    \A w \in Workers : pc[w] = "run" /\ frame(w).at = "receive" => depth(mailbox(cur[w])) > 0

\* A process parked with a deadline can be woken by it: the deadline is armed,
\* about to be armed by its own worker, or already taken off the wheel by a
\* worker that will promote it.
DeadlineWillFire ==
    \A p \in Pids :
        is_alive(p) /\ state(p) \in {"Blocked", "WaitingIO"} /\ hot[Slot(p)].deadline # 0 =>
            \/ armed[p] = hot[Slot(p)].deadline
            \/ \E w \in Workers : <<p, hot[Slot(p)].deadline>> \in hand[w].due
            \/ \E w \in Workers : cur[w] = p /\ pc[w] \in {"arm", "io_register"}

\* No deadline outlives its process: an armed entry's process still occupies
\* its slot, or the worker that freed it is on its way to cancel it (kill_all
\* at the end of the grace window leaves its entries to the teardown).
NoLeakedDeadline ==
    \A p \in Pids : armed[p] # 0 =>
        \/ here(p)
        \/ \E w \in Workers : p \in hand[w].freed \/ reap[w] = p
        \/ SHUTDOWN

------------------------------------------------------------------------------
\* A monitor is answered exactly once (invariant 5): never twice, and a
\* registered entry's target is alive or its death has yet to sweep it; staged
\* notices always have a settler that will take them.
MonitorAnsweredOnce ==
    /\ \A t \in DOMAIN notified : notified[t] <= 1
    /\ \A m \in registry.monitors :
         /\ notified[m.token] = 0
         /\ is_alive(m.target) \/ \E w \in Workers : dying[w].pid = m.target
    /\ registry.pending_exit_notices # {} =>
         \E w \in Workers : pc[w] \in KillLabels \cup {"notices"}

\* A caller parked on the reply of a dead callee is still going to be woken:
\* its waiter entry awaits the callee's registry pass, or its wake is staged
\* or in a settler's hand.
CallerNotStranded ==
    /\ \A p \in Pids :
         LET f == execution[Slot(p)]
             c == [callee |-> f.callee, caller |-> p, token |-> f.token]
         IN  is_alive(p) /\ state(p) = "Blocked" /\ hot[Slot(p)].waiting = "Reply"
               /\ ~is_alive(f.callee) =>
               \/ c \in registry.call_waiters /\ \E w \in Workers : dying[w].pid = f.callee
               \/ c \in registry.pending_call_downs
               \/ \E w \in Workers : c \in hand[w].downs
    /\ registry.pending_call_downs # {} =>
         \E w \in Workers : pc[w] \in KillLabels \cup {"notices", "notifying", "downs"}

\* Expired is authoritative: once a caller has given up on a call, no reply to
\* it is ever answered Delivered.
NoReplyAfterGivingUp ==
    [][\A t \in accepted' \ accepted : t \notin given_up]_vars

------------------------------------------------------------------------------
\* Fairness: a worker thread is scheduled by the OS, so the runtime's own
\* steps are taken; a body is not obliged to call anything.
FairSpec == Spec /\ \A w \in Workers : WF_vars(Runtime(w))

\* A death cascades: once a process's parent is dead, the process dies.
OrphansDie ==
    \A p \in Pids :
        is_alive(p) /\ parent[Slot(p)] # NoPid /\ ~is_alive(parent[Slot(p)]) ~> ~is_alive(p)

\* A caller parked on the reply of a callee that has died is woken.
CallersOfTheDeadWake ==
    \A p \in Pids :
        LET stranded == /\ is_alive(p) /\ state(p) = "Blocked"
                        /\ hot[Slot(p)].waiting = "Reply"
                        /\ ~is_alive(execution[Slot(p)].callee)
        IN  stranded ~> ~stranded

\* When the worker that ran the grace window's kill_all is through, every
\* process dies, the ones spawned behind its scan included.
GraceEndsEveryone ==
    (\E w \in Workers : pc[w] = "settled" /\ hand[w].back = "halt") ~> alive = 0
==============================================================================
