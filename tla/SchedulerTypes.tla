---------------------------- MODULE SchedulerTypes -----------------------------
(***************************************************************************)
(* The domains of the native scheduler's variables, and what the label of  *)
(* a worker says of what it holds.                                         *)
(***************************************************************************)
EXTENDS NativeScheduler

\* Labels at which a worker settles a death (settle_exits and its kills).
KillLabels == {"pass", "kills", "killing"}

SettleLabels == KillLabels \cup {"notices", "notifying", "downs", "promoting", "settled"}

\* Labels at which the worker is running the process it claimed.
RunLabels == {"claimed", "run", "yielded", "spawning", "pop", "cancel", "io_clear",
              "crashing", "dying", "call_send", "call_ensure", "call_take",
              "call_expired", "call_clear", "call_evict", "mon_read", "mon_stage"}

Labels == RunLabels \cup SettleLabels \cup
          {"arm", "io_register", "switch", "reclaim", "free", "check", "cancel_reaped",
           "loop", "idle", "drain", "grace", "lifecycle", "firing", "scan", "halt"}

\* Any (slot, generation) pair: what a PID-valued field may hold, NoPid included.
AnyPid == Slots \X Nat

Frames == [at : {"none", "body", "receive", "receive_timeout", "call", "io"},
           token : Nat, callee : AnyPid, deadline : Nat]

Messages == [tag : Tags, from : AnyPid, token : Nat]

Mailboxes == [business : Seq(Messages), reply : Messages \cup {NoMessage},
              system : Seq(Messages)]

HotStates == [awaiting_reply : Nat, crash_info : BOOLEAN, deadline : Nat,
              exit_reason : ExitReason, mailbox : Mailboxes, waiting : WaitTarget]

MonitorEntries == [target : AnyPid, token : Nat, watcher : AnyPid]

Notices == [watcher : AnyPid, target : AnyPid, token : Nat,
            reason : ExitReason, crash_info : BOOLEAN]

CallWaiters == [callee : AnyPid, caller : AnyPid, token : Nat]

Registries == [call_waiters : SUBSET CallWaiters, children : SUBSET (AnyPid \X AnyPid),
               free : Seq(Slots), mode : Mode, monitors : SUBSET MonitorEntries,
               next_monitor_token : Nat, pending_call_downs : SUBSET CallWaiters,
               pending_exit_notices : SUBSET Notices, pending_kills : SUBSET AnyPid]

Deaths == [pid : AnyPid, parent : AnyPid, reason : ExitReason,
           crash_info : BOOLEAN, reclaimed : BOOLEAN]

PendingMonitors == [target : AnyPid, token : Nat, watcher : AnyPid,
                    reason : ExitReason, crash_info : BOOLEAN]

Hands == [kills : SUBSET AnyPid, freed : SUBSET AnyPid, notices : SUBSET Notices,
          downs : SUBSET CallWaiters, due : SUBSET (Pids \X Nat),
          back : {"loop", "run", "switch", "halt"}, monitor : PendingMonitors,
          scan : 0 .. MaxSlots, until : 0 .. MaxSlots]

TableTypeOK ==
    /\ word \in [Slots -> WordState]
    /\ parent \in [Slots -> AnyPid]
    /\ execution \in [Slots -> Frames]
    /\ hot \in [Slots -> HotStates]
    /\ published \in 0 .. MaxSlots
    /\ registry \in Registries
    /\ alive \in Int /\ active \in Int /\ main_pid \in AnyPid
    /\ ready \in [Pids -> Nat]
    /\ dying \in [Workers -> Deaths]
    /\ notified \in [1 .. MaxMonitors -> Nat]

DriverTypeOK ==
    /\ pc \in [Workers -> Labels]
    /\ cur \in [Workers -> AnyPid] /\ reap \in [Workers -> AnyPid]
    /\ hand \in [Workers -> Hands]
    /\ SHUTDOWN \in BOOLEAN /\ latched \in BOOLEAN /\ grace \in BOOLEAN
    /\ armed \in [Pids -> Nat] /\ now \in Nat
    /\ wakers \in SUBSET AnyPid /\ events \in SUBSET AnyPid
    /\ call_token \in Nat /\ replies \in SUBSET (AnyPid \X Nat)
    /\ accepted \in SUBSET Nat /\ given_up \in SUBSET Nat
    /\ budget \in [Intrinsics -> Nat]

\* Every variable stays in its domain.
TypeOK == TableTypeOK /\ DriverTypeOK

\* Labels at which a worker holds a claim whatever it came from.
OwningLabels == RunLabels \cup {"arm", "io_register", "switch"}

\* What a worker's label says of what it holds: the claim, the way back from
\* a settlement, and a reclaimed slot only between the two holds of a death.
LabelAgrees(w) ==
    /\ pc[w] \in OwningLabels => cur[w] # NoPid
    /\ pc[w] \notin OwningLabels \cup SettleLabels => cur[w] = NoPid
    /\ pc[w] \in SettleLabels /\ cur[w] = NoPid => hand[w].back = "halt"
    /\ pc[w] \in SettleLabels /\ cur[w] # NoPid => hand[w].back \in {"run", "switch"}
    /\ pc[w] = "scan" => hand[w].back = "halt"
    /\ pc[w] \in {"mon_read", "mon_stage"} => hand[w].back = "run"
    /\ pc[w] = "cancel_reaped" => hand[w].back \in {"loop", "halt"}
    /\ pc[w] # "pass" => ~dying[w].reclaimed
==============================================================================
