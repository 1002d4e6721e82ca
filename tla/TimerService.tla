----------------------------- MODULE TimerService -----------------------------
(***************************************************************************)
(* The timer service (timer_service.rs) over the wheel: at most one armed  *)
(* deadline per process, and the drain-grace backstop.  Pure operators on  *)
(* a record `sv' with the fields of the struct.                            *)
(***************************************************************************)
EXTENDS TimerWheel

CONSTANT TimerPids  \* the processes that may arm a deadline or get a message

NoToken == [fire_at |-> NoInstant, seq |-> 0, slot |-> NoSlot]

NewService ==
    [armed |-> [p \in TimerPids |-> NoToken], grace_deadline |-> NoInstant,
     last_advance |-> NoInstant, wheel |-> NewWheel]

disarm(wh, token) == IF token = NoToken THEN wh ELSE cancel(wh, token)

\* The new entry goes in first, then the superseded one is cancelled.
arm_deadline(sv, pid, fire_at) ==
    [sv EXCEPT !.armed[pid] = TimerToken(sv.wheel, fire_at),
               !.wheel = disarm(insert(sv.wheel, fire_at, pid, "Promote"), sv.armed[pid])]

cancel_deadline(sv, pid) ==
    [sv EXCEPT !.armed[pid] = NoToken, !.wheel = disarm(sv.wheel, sv.armed[pid])]

schedule_deliver(sv, fire_at, target_pid) ==
    [sv EXCEPT !.wheel = insert(sv.wheel, fire_at, target_pid, "Deliver")]

\* Mutant: a caller whose clock reading is old drains all the same.
stale_Never(sv, now) == FALSE

\* Somebody has already advanced the wheel to `now' or beyond.
stale(sv, now) == sv.last_advance # NoInstant /\ now <= sv.last_advance

promoted(due) == {e.pid : e \in {d \in due : d.kind = "Promote"}}

\* The service after `advance'; `advanced' is what it returns.
advance(sv, now) ==
    IF stale(sv, now) THEN sv
    ELSE [sv EXCEPT !.last_advance = now,
                    !.wheel = drain_due(sv.wheel, now),
                    !.armed = [p \in TimerPids |->
                                  IF p \in promoted(drained(sv.wheel, now))
                                  THEN NoToken ELSE @[p]]]

advanced(sv, now) == IF stale(sv, now) THEN {} ELSE drained(sv.wheel, now)

next_fire(sv) ==
    LET timer == soonest_bound(sv.wheel)
        grace == sv.grace_deadline
    IN  IF timer # NoInstant /\ grace # NoInstant
        THEN IF timer < grace THEN timer ELSE grace
        ELSE IF timer # NoInstant THEN timer ELSE grace

arm_grace(sv, deadline) ==
    [sv EXCEPT !.grace_deadline = IF @ = NoInstant THEN deadline ELSE @]

grace_expired(sv, now) == sv.grace_deadline # NoInstant /\ now >= sv.grace_deadline
================================================================================
