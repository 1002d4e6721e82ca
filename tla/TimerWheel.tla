------------------------------ MODULE TimerWheel ------------------------------
(***************************************************************************)
(* The hashed timing wheel with its overflow map (timer_wheel.rs), as pure *)
(* operators on a record `wh' with the fields of the struct.  A bucket and *)
(* the overflow map are sets of entries, the occupancy bitmap is the set   *)
(* of its one-bits.  An instant is a natural number.                       *)
(***************************************************************************)
EXTENDS Integers, FiniteSets

CONSTANTS
    WHEEL_SLOTS,  \* buckets of the wheel
    WHEEL_TICK    \* instants per tick

ASSUME WheelAssumption == WHEEL_SLOTS \in Nat \ {0} /\ WHEEL_TICK \in Nat \ {0}

least(a, b) == IF a < b THEN a ELSE b
most(a, b) == IF a < b THEN b ELSE a

\* The least instant of a finite non-empty set.
earliest(T) == CHOOSE t \in T : \A u \in T : t <= u

NoInstant == -1  \* Option::None
NoSlot == -1

Buckets == 0 .. WHEEL_SLOTS - 1

Entry(fire_at, kind, pid, seq) ==
    [fire_at |-> fire_at, kind |-> kind, pid |-> pid, seq |-> seq]

NewWheel ==
    [base |-> NoInstant, cursor_tick |-> 0, occupied |-> {}, overflow |-> {},
     pending |-> 0, seq |-> 0, slots |-> [i \in Buckets |-> {}], soonest |-> NoInstant]

tick_of(base, t) == IF t < base THEN 0 ELSE (t - base) \div WHEEL_TICK

\* The bucket of an entry due at tick t, and whether the wheel reaches that far.
bucket_of(t) == t % WHEEL_SLOTS
in_horizon(wh, t) == t < wh.cursor_tick + WHEEL_SLOTS

ensure_base(wh, t) == IF wh.base = NoInstant THEN t ELSE wh.base

\* The tick an entry due at instant t is filed under, never behind the cursor.
target_tick(wh, t) == most(tick_of(ensure_base(wh, t), t), wh.cursor_tick)

slot_for(wh, t) ==
    IF in_horizon(wh, target_tick(wh, t)) THEN bucket_of(target_tick(wh, t)) ELSE NoSlot

\* Mutant: the bound is not tightened by an earlier entry.
soonest_with_Kept(wh, t) == IF wh.soonest = NoInstant THEN t ELSE wh.soonest

soonest_with(wh, t) == IF wh.soonest = NoInstant THEN t ELSE least(wh.soonest, t)

insert(wh, fire_at, pid, kind) ==
    LET e == Entry(fire_at, kind, pid, wh.seq + 1)
        idx == slot_for(wh, fire_at)
        pushed == [wh.slots EXCEPT ![idx] = @ \cup {e}]
    IN  [wh EXCEPT
            !.base = ensure_base(wh, fire_at),
            !.seq = @ + 1,
            !.pending = @ + 1,
            !.soonest = soonest_with(wh, fire_at),
            !.occupied = IF idx = NoSlot THEN @ ELSE @ \cup {idx},
            !.slots = IF idx = NoSlot THEN @ ELSE pushed,
            !.overflow = IF idx = NoSlot THEN @ \cup {e} ELSE @]

\* What `insert' returns: where the entry landed.
TimerToken(wh, fire_at) ==
    [fire_at |-> fire_at, seq |-> wh.seq + 1, slot |-> slot_for(wh, fire_at)]

release_bucket_if_empty(occupied, slots, idx) ==
    IF slots[idx] = {} THEN occupied \ {idx} ELSE occupied

\* The entries the token names, one or none: it may have fired already.
named(wh, token) ==
    IF token.slot = NoSlot
    THEN {e \in wh.overflow : e.fire_at = token.fire_at /\ e.seq = token.seq}
    ELSE {e \in wh.slots[token.slot] : e.seq = token.seq}

cancel(wh, token) ==
    LET gone == named(wh, token)
        slots == [i \in Buckets |-> IF i = token.slot THEN wh.slots[i] \ gone ELSE wh.slots[i]]
    IN  IF gone = {} THEN wh
        ELSE IF token.slot = NoSlot
             THEN [wh EXCEPT !.overflow = @ \ gone, !.pending = @ - 1]
             ELSE [wh EXCEPT !.slots = slots,
                             !.occupied = release_bucket_if_empty(@, slots, token.slot),
                             !.pending = @ - 1]

\* The soonest entry of the overflow map and of the buckets the bitmap names.
nearest(occupied, overflow, slots) ==
    LET seen == overflow \cup UNION {slots[i] : i \in occupied}
    IN  IF seen = {} THEN NoInstant ELSE earliest({e.fire_at : e \in seen})

\* The buckets a drain visits: from the cursor through the target tick, at
\* most one rotation.
scanned(wh, target) ==
    LET span == least(most(target - wh.cursor_tick, 0), WHEEL_SLOTS)
    IN  {bucket_of(wh.cursor_tick + step) : step \in 0 .. span}

idle(wh, now) == wh.pending = 0 \/ (wh.soonest # NoInstant /\ now < wh.soonest)

\* The entries a drain takes.
due_at(wh, now) ==
    {e \in wh.overflow \cup UNION {wh.slots[i] : i \in scanned(wh, tick_of(wh.base, now))} :
        e.fire_at <= now}

\* The wheel after a drain; `drained' is what the drain returns.
drain_due(wh, now) ==
    LET target == tick_of(wh.base, now)
        due == due_at(wh, now)
        slots == [i \in Buckets |-> IF i \in scanned(wh, target) THEN wh.slots[i] \ due
                                                                 ELSE wh.slots[i]]
        occupied == {i \in wh.occupied : i \in scanned(wh, target) => slots[i] # {}}
        overflow == wh.overflow \ due
    IN  IF idle(wh, now) THEN wh
        ELSE [wh EXCEPT !.cursor_tick = target, !.slots = slots, !.occupied = occupied,
                        !.overflow = overflow, !.pending = @ - Cardinality(due),
                        !.soonest = nearest(occupied, overflow, slots)]

drained(wh, now) == IF idle(wh, now) THEN {} ELSE due_at(wh, now)

\* The order in which a drain returns its entries.
fires_before(d, e) == d.fire_at < e.fire_at \/ (d.fire_at = e.fire_at /\ d.seq < e.seq)

soonest_bound(wh) == IF wh.pending = 0 THEN NoInstant ELSE wh.soonest

\* Every entry the wheel holds.
held(wh) == wh.overflow \cup UNION {wh.slots[i] : i \in Buckets}
================================================================================
