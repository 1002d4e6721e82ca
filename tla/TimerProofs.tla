------------------------------ MODULE TimerProofs ------------------------------
(***************************************************************************)
(* Proofs about the timers, for wheels of any size and resolution and any  *)
(* number of workers and processes: the wheel behind its lock-free gate is *)
(* a plain set of deadlines (Deadlines), and the gate is never late.       *)
(***************************************************************************)
EXTENDS NativeTimers, FiniteSetTheorems, TLAPS

Entries == [fire_at : Nat, kind : {"Promote", "Deliver"}, pid : TimerPids,
            seq : Nat \ {0}]

Wheels ==
    [base : Nat \cup {NoInstant}, cursor_tick : Nat, occupied : SUBSET Buckets,
     overflow : SUBSET Entries, pending : Int, seq : Nat,
     slots : [Buckets -> SUBSET Entries], soonest : Nat \cup {NoInstant}]

\* Where an entry may be filed, and what is filed there.
Places == Buckets \cup {NoSlot}
At(wh, s) == IF s = NoSlot THEN wh.overflow ELSE wh.slots[s]

\* An entry is filed in one place, under its own number.
Placed(wh) ==
    /\ \A e \in held(wh) : e.seq <= wh.seq
    /\ \A d, e \in held(wh) : d.seq = e.seq => d = e
    /\ \A r, s \in Places : r # s => At(wh, r) \cap At(wh, s) = {}

\* The fields that summarise what is filed.
Summed(wh) ==
    /\ IsFiniteSet(held(wh)) /\ wh.pending = Cardinality(held(wh))
    /\ \A i \in Buckets : wh.slots[i] # {} => i \in wh.occupied
    /\ \A e \in held(wh) : wh.soonest # NoInstant /\ wh.soonest <= e.fire_at

\* "Any entry whose fire_at <= now is visited before the cursor passes its
\* bucket" (timer_wheel.rs): an entry in a bucket is there under its tick, or
\* under the cursor's if it was late, and within a rotation of the cursor.
Filed(wh) ==
    /\ wh.base = NoInstant => wh.cursor_tick = 0 /\ held(wh) = {}
    /\ \A i \in Buckets : \A e \in wh.slots[i] :
          in_horizon(wh, target_tick(wh, e.fire_at)) /\ i = bucket_of(target_tick(wh, e.fire_at))

WheelOK(wh) == wh \in Wheels /\ Placed(wh) /\ Summed(wh) /\ Filed(wh)

\* The cursor is not past the instant served last.
Behind(wh, served) == wh.cursor_tick = 0 \/ wh.cursor_tick <= tick_of(wh.base, served)

------------------------------------------------------------------------------
\* Division keeps order.
LEMMA DivMonotone ==
    ASSUME NEW T \in Nat \ {0}, NEW a \in Nat, NEW b \in Nat, a <= b
    PROVE  a \div T \in Nat /\ a \div T <= b \div T
<1> DEFINE q == a \div T
           r == b \div T
<1>1. q \in Nat /\ q * T <= a /\ a < q * T + T
  OBVIOUS
<1>2. r \in Nat /\ r * T <= b /\ b < r * T + T
  OBVIOUS
<1>3. ASSUME r < q PROVE FALSE
  <2> HIDE DEF q, r
  <2>1. (r + 1) * T <= q * T
    BY <1>1, <1>2, <1>3
  <2>2. (r + 1) * T = r * T + T
    BY <1>2
  <2>3. r * T \in Int /\ q * T \in Int
    BY <1>1, <1>2
  <2> QED  BY <2>1, <2>2, <2>3, <1>1, <1>2
<1> QED  BY <1>1, <1>2, <1>3

\* Later instants have later ticks.
LEMMA TickMonotone ==
    ASSUME NEW b \in Int, NEW s \in Int, NEW t \in Int, s <= t
    PROVE  tick_of(b, s) \in Nat /\ tick_of(b, t) \in Nat /\ tick_of(b, s) <= tick_of(b, t)
<1> WHEEL_TICK \in Nat \ {0}
  BY Zenon, WheelAssumption
<1>1. CASE t < b
  BY <1>1 DEF tick_of
<1>2. CASE s < b /\ ~ (t < b)
  <2>1. (t - b) \div WHEEL_TICK \in Nat
    BY <1>2, DivMonotone
  <2> QED  BY <1>2, <2>1 DEF tick_of
<1>3. CASE ~ (s < b)
  <2>1. /\ (s - b) \div WHEEL_TICK \in Nat /\ (t - b) \div WHEEL_TICK \in Nat
        /\ (s - b) \div WHEEL_TICK <= (t - b) \div WHEEL_TICK
    <3>1. s - b \in Nat /\ t - b \in Nat /\ s - b <= t - b
      BY <1>3
    <3> QED  BY <3>1, DivMonotone
  <2> QED  BY <1>3, <2>1 DEF tick_of
<1> QED  BY Zenon, <1>1, <1>2, <1>3

\* A bucket is where an index modulo the number of buckets says.
LEMMA BucketType ==
    ASSUME NEW t \in Nat
    PROVE  bucket_of(t) \in Buckets /\ bucket_of(t) # NoSlot
BY WheelAssumption DEF bucket_of, Buckets, NoSlot

\* The entries of a wheel are those filed in its places.
LEMMA HeldAt ==
    ASSUME NEW wh
    PROVE  \A e : e \in held(wh) <=> \E s \in Places : e \in At(wh, s)
<1>1. NoSlot \notin Buckets
  BY DEF Buckets, NoSlot
<1> QED  BY Zenon, <1>1 DEF held, Places, At

\* What the wheel's type says, one field at a time.
LEMMA WheelFields ==
    ASSUME NEW wh \in Wheels
    PROVE  /\ wh.base \in Nat \cup {NoInstant} /\ wh.base \in Int /\ wh.cursor_tick \in Nat
           /\ wh.occupied \in SUBSET Buckets /\ wh.overflow \in SUBSET Entries
           /\ wh.pending \in Int /\ wh.seq \in Nat
           /\ wh.slots \in [Buckets -> SUBSET Entries]
           /\ wh.soonest \in Nat \cup {NoInstant} /\ wh.soonest \in Int
           /\ \A s \in Places : At(wh, s) \in SUBSET Entries
           /\ held(wh) \in SUBSET Entries
BY DEF Wheels, NoInstant, Places, At, held

\* The tick an entry is filed under.
LEMMA TargetType ==
    ASSUME NEW wh \in Wheels, NEW t \in Nat
    PROVE  /\ ensure_base(wh, t) \in Nat
           /\ target_tick(wh, t) \in Nat /\ target_tick(wh, t) >= wh.cursor_tick
           /\ slot_for(wh, t) \in Places
           /\ slot_for(wh, t) # NoSlot =>
                  /\ slot_for(wh, t) \in Buckets
                  /\ slot_for(wh, t) = bucket_of(target_tick(wh, t))
                  /\ in_horizon(wh, target_tick(wh, t))
<1>1. ensure_base(wh, t) \in Nat
  BY Zenon, WheelFields DEF ensure_base
<1>2. target_tick(wh, t) \in Nat /\ target_tick(wh, t) >= wh.cursor_tick
  <2>1. tick_of(ensure_base(wh, t), t) \in Nat
    BY <1>1, TickMonotone
  <2> QED  BY <2>1, WheelFields DEF target_tick, most
<1>3. bucket_of(target_tick(wh, t)) \in Buckets /\ bucket_of(target_tick(wh, t)) # NoSlot
  BY Zenon, <1>2, BucketType
<1> QED  BY Zenon, <1>1, <1>2, <1>3 DEF slot_for, Places

\* The wheel `new' is `wh' with the entry e, due at t, in its place.
Inserted(wh, t, e, new) ==
    /\ e \in Entries
    /\ new \in Wheels
    /\ new.base = ensure_base(wh, t) /\ new.cursor_tick = wh.cursor_tick
    /\ new.seq = wh.seq + 1 /\ new.pending = wh.pending + 1
    /\ new.soonest = soonest_with(wh, t)
    /\ new.occupied = IF slot_for(wh, t) = NoSlot THEN wh.occupied
                      ELSE wh.occupied \cup {slot_for(wh, t)}
    /\ \A s \in Places : At(new, s) = IF s = slot_for(wh, t) THEN At(wh, s) \cup {e}
                                      ELSE At(wh, s)

\* insert files the entry in one place and touches no other.
LEMMA InsertAt ==
    ASSUME NEW wh \in Wheels, NEW t \in Nat, NEW p \in TimerPids,
           NEW k \in {"Promote", "Deliver"}
    PROVE  Inserted(wh, t, Entry(t, k, p, wh.seq + 1), insert(wh, t, p, k))
<1> DEFINE e == Entry(t, k, p, wh.seq + 1)
           new == insert(wh, t, p, k)
           idx == slot_for(wh, t)
<1>1. e \in Entries
  BY WheelFields DEF Entry, Entries
<1>2. idx \in Places /\ (idx # NoSlot => idx \in Buckets) /\ ensure_base(wh, t) \in Nat
  BY Zenon, TargetType
<1>3. soonest_with(wh, t) \in Nat
  BY Zenon, WheelFields DEF soonest_with, least
<1>4. /\ new \in Wheels
      /\ new.base = ensure_base(wh, t) /\ new.cursor_tick = wh.cursor_tick
      /\ new.seq = wh.seq + 1 /\ new.pending = wh.pending + 1
      /\ new.soonest = soonest_with(wh, t)
      /\ new.occupied = IF idx = NoSlot THEN wh.occupied ELSE wh.occupied \cup {idx}
      /\ new.overflow = IF idx = NoSlot THEN wh.overflow \cup {e} ELSE wh.overflow
      /\ new.slots = IF idx = NoSlot THEN wh.slots ELSE [wh.slots EXCEPT ![idx] = @ \cup {e}]
  <2> DEFINE oc == IF idx = NoSlot THEN wh.occupied ELSE wh.occupied \cup {idx}
             sl == IF idx = NoSlot THEN wh.slots ELSE [wh.slots EXCEPT ![idx] = @ \cup {e}]
             ov == IF idx = NoSlot THEN wh.overflow \cup {e} ELSE wh.overflow
             ba == ensure_base(wh, t)
             se == wh.seq + 1
             pe == wh.pending + 1
             so == soonest_with(wh, t)
  <2>1. new = [wh EXCEPT !.base = ba, !.seq = se, !.pending = pe, !.soonest = so,
                         !.occupied = oc, !.slots = sl, !.overflow = ov]
    BY Zenon DEF insert
  <2>2. ba \in Nat /\ se \in Nat /\ pe \in Int /\ so \in Nat /\ oc \in SUBSET Buckets
        /\ sl \in [Buckets -> SUBSET Entries] /\ ov \in SUBSET Entries
    <3> HIDE DEF idx, e
    <3> QED  BY <1>1, <1>2, <1>3, WheelFields
  <2> HIDE DEF oc, sl, ov, ba, se, pe, so, new
  <2>3. /\ new \in Wheels /\ new.cursor_tick = wh.cursor_tick
        /\ new.base = ba /\ new.seq = se /\ new.pending = pe /\ new.soonest = so
        /\ new.occupied = oc /\ new.slots = sl /\ new.overflow = ov
    BY Zenon, <2>1, <2>2 DEF Wheels
  <2> QED  BY Zenon, <2>3 DEF oc, sl, ov, ba, se, pe, so
<1>5. NoSlot \notin Buckets
  BY DEF NoSlot, Buckets
<1> HIDE DEF e, new, idx
<1>7. ASSUME NEW s \in Places
      PROVE  At(new, s) = IF s = idx THEN At(wh, s) \cup {e} ELSE At(wh, s)
  BY Zenon, <1>2, <1>4, <1>5, <1>7, WheelFields DEF At, Places
<1> QED  BY Zenon, <1>1, <1>4, <1>7 DEF e, new, idx, Inserted


\* An earlier bound stays one, and bounds the new entry.
LEMMA SoonestWith ==
    ASSUME NEW wh \in Wheels, NEW t \in Nat
    PROVE  /\ soonest_with(wh, t) \in Nat /\ soonest_with(wh, t) <= t
           /\ wh.soonest # NoInstant => soonest_with(wh, t) <= wh.soonest
BY WheelFields DEF soonest_with, least, NoInstant

\* The tick of an entry depends on the base and the cursor only.
LEMMA SameTarget ==
    ASSUME NEW wh \in Wheels, NEW new \in Wheels, new.cursor_tick = wh.cursor_tick,
           NEW t \in Nat, ensure_base(new, t) = ensure_base(wh, t)
    PROVE  /\ target_tick(new, t) = target_tick(wh, t)
           /\ \A n \in Nat : in_horizon(new, n) <=> in_horizon(wh, n)
BY DEF target_tick, in_horizon

\* The wheel stays sound under insert, and holds the entry as well.
LEMMA InsertOK ==
    ASSUME NEW wh, WheelOK(wh), NEW t \in Nat, NEW p \in TimerPids,
           NEW k \in {"Promote", "Deliver"}
    PROVE  LET e == Entry(t, k, p, wh.seq + 1)
               new == insert(wh, t, p, k)
           IN  /\ WheelOK(new)
               /\ e \notin held(wh) /\ held(new) = held(wh) \cup {e}
               /\ \A served \in Int : Behind(wh, served) => Behind(new, served)
<1> DEFINE e == Entry(t, k, p, wh.seq + 1)
           new == insert(wh, t, p, k)
           idx == slot_for(wh, t)
<1>w. wh \in Wheels
  BY Zenon DEF WheelOK
<1>1. /\ e \in Entries /\ new \in Wheels
      /\ new.base = ensure_base(wh, t) /\ new.cursor_tick = wh.cursor_tick
      /\ new.seq = wh.seq + 1 /\ new.pending = wh.pending + 1
      /\ new.soonest = soonest_with(wh, t)
      /\ new.occupied = IF idx = NoSlot THEN wh.occupied ELSE wh.occupied \cup {idx}
      /\ \A s \in Places : At(new, s) = IF s = idx THEN At(wh, s) \cup {e} ELSE At(wh, s)
  <2>1. Inserted(wh, t, e, new)
    BY Zenon, <1>w, InsertAt
  <2> HIDE DEF e, new
  <2> QED  BY Zenon, <2>1 DEF Inserted
<1>2. e.fire_at = t /\ e.seq = wh.seq + 1 /\ wh.seq \in Nat
  BY Zenon, <1>w, WheelFields DEF Entry
<1>3. idx \in Places /\ NoSlot \notin Buckets
  BY <1>w, TargetType DEF NoSlot, Buckets
<1> HIDE DEF e, new, idx
<1>4. e \notin held(wh)
  BY <1>2 DEF WheelOK, Placed
<1>5. held(new) = held(wh) \cup {e}
  <2>1. \A d : d \in held(new) <=> \E s \in Places : d \in At(new, s)
    BY Zenon, HeldAt
  <2>2. \A d : d \in held(wh) <=> \E s \in Places : d \in At(wh, s)
    BY Zenon, HeldAt
  <2> QED  BY Zenon, <1>1, <1>3, <2>1, <2>2
<1>6. Placed(new)
  <2>1. \A d \in held(wh) : d.seq \in Nat /\ d.seq <= wh.seq
    BY Zenon, <1>w, WheelFields DEF WheelOK, Placed, Entries
  <2>2. \A d, f \in held(wh) : d.seq = f.seq => d = f
    BY Zenon DEF WheelOK, Placed
  <2>3. \A d \in held(new) : d.seq <= new.seq
    BY <1>1, <1>2, <1>5, <2>1
  <2>4. \A d, f \in held(new) : d.seq = f.seq => d = f
    BY <1>2, <1>5, <2>1, <2>2
  <2>5. ASSUME NEW r \in Places, NEW s \in Places, r # s PROVE At(new, r) \cap At(new, s) = {}
    <3>1. At(wh, r) \cap At(wh, s) = {} /\ e \notin At(wh, r) /\ e \notin At(wh, s)
      BY Zenon, <1>4, <2>5, HeldAt DEF WheelOK, Placed
    <3> QED  BY Zenon, <1>1, <2>5, <3>1
  <2> QED  BY Zenon, <2>3, <2>4, <2>5 DEF Placed
<1>7. Summed(new)
  <2>1. IsFiniteSet(held(new)) /\ Cardinality(held(new)) = Cardinality(held(wh)) + 1
    BY <1>4, <1>5, FS_AddElement DEF WheelOK, Summed
  <2>2. new.pending = Cardinality(held(new))
    BY Zenon, <1>1, <2>1 DEF WheelOK, Summed
  <2>3. ASSUME NEW i \in Buckets, new.slots[i] # {} PROVE i \in new.occupied
    <3>1. i \in Places /\ i # NoSlot
      BY Zenon, <1>3 DEF Places
    <3>2. new.slots[i] = At(new, i) /\ wh.slots[i] = At(wh, i)
      BY Zenon, <3>1 DEF At
    <3> QED  BY Zenon, <1>1, <2>3, <3>1, <3>2 DEF WheelOK, Summed
  <2>4. \A d \in held(new) : new.soonest # NoInstant /\ new.soonest <= d.fire_at
    <3>1. \A d \in held(wh) : wh.soonest # NoInstant /\ wh.soonest <= d.fire_at /\ d.fire_at \in Nat
      BY Zenon, <1>w, WheelFields DEF WheelOK, Summed, Entries
    <3>2. wh.soonest \in Int /\ new.soonest \in Nat /\ new.soonest <= t
          /\ (wh.soonest # NoInstant => new.soonest <= wh.soonest)
      BY Zenon, <1>1, <1>w, SoonestWith, WheelFields
    <3> QED  BY <1>2, <1>5, <3>1, <3>2 DEF NoInstant
  <2> QED  BY Zenon, <2>1, <2>2, <2>3, <2>4 DEF Summed
<1>b. new.base \in Nat /\ (wh.base # NoInstant => new.base = wh.base)
  BY Zenon, <1>1, <1>w, TargetType DEF ensure_base
<1>n. new.base # NoInstant
  BY <1>b DEF NoInstant
<1>8. Filed(new)
  <2>1. ASSUME NEW i \in Buckets, NEW d \in new.slots[i]
        PROVE  /\ in_horizon(new, target_tick(new, d.fire_at))
               /\ i = bucket_of(target_tick(new, d.fire_at))
    <3>1. i \in Places /\ i # NoSlot
      BY Zenon, <1>3 DEF Places
    <3>2. new.slots[i] = At(new, i) /\ wh.slots[i] = At(wh, i)
      BY Zenon, <3>1 DEF At
    <3>3. CASE d \in wh.slots[i]
      <4>1. d \in held(wh) /\ d.fire_at \in Nat
        BY <1>w, <3>1, <3>2, <3>3, HeldAt, WheelFields DEF Entries
      <4>2. wh.base # NoInstant
        BY Zenon, <4>1 DEF WheelOK, Filed
      <4>3. ensure_base(new, d.fire_at) = ensure_base(wh, d.fire_at)
        BY Zenon, <4>2, <1>b, <1>n DEF ensure_base
      <4>4. in_horizon(wh, target_tick(wh, d.fire_at)) /\ i = bucket_of(target_tick(wh, d.fire_at))
        BY Zenon, <3>3 DEF WheelOK, Filed
      <4>5. target_tick(wh, d.fire_at) \in Nat
        BY Zenon, <1>w, <4>1, TargetType
      <4>6. /\ target_tick(new, d.fire_at) = target_tick(wh, d.fire_at)
            /\ \A n \in Nat : in_horizon(new, n) <=> in_horizon(wh, n)
        BY Zenon, <1>1, <1>w, <4>1, <4>3, SameTarget
      <4> QED  BY Zenon, <4>4, <4>5, <4>6
    <3>4. CASE d \notin wh.slots[i]
      <4>1. i = idx /\ d = e
        BY Zenon, <1>1, <2>1, <3>1, <3>2, <3>4
      <4>2. i = bucket_of(target_tick(wh, t)) /\ in_horizon(wh, target_tick(wh, t))
        BY Zenon, <1>w, <3>1, <4>1, TargetType DEF idx
      <4>3. ensure_base(new, t) = ensure_base(wh, t)
        BY Zenon, <1>1, <1>n DEF ensure_base
      <4>4. target_tick(wh, t) \in Nat
        BY Zenon, <1>w, TargetType
      <4>5. /\ target_tick(new, t) = target_tick(wh, t)
            /\ \A n \in Nat : in_horizon(new, n) <=> in_horizon(wh, n)
        BY Zenon, <1>1, <1>w, <4>3, SameTarget
      <4> QED  BY Zenon, <1>2, <4>1, <4>2, <4>4, <4>5
    <3> QED  BY Zenon, <3>3, <3>4
  <2> QED  BY Zenon, <1>n, <2>1 DEF Filed
<1>9. ASSUME NEW served \in Int, Behind(wh, served) PROVE Behind(new, served)
  <2>1. wh.base = NoInstant => wh.cursor_tick = 0
    BY Zenon DEF WheelOK, Filed
  <2> QED  BY Zenon, <1>1, <1>9, <1>b, <2>1 DEF Behind
<1> QED  BY Zenon, <1>1, <1>4, <1>5, <1>6, <1>7, <1>8, <1>9 DEF e, new, WheelOK


\* The wheel `new' is `wh' without the entries `gone', which were in place s.
Removed(wh, s, gone, new) ==
    /\ new \in Wheels
    /\ new.base = wh.base /\ new.cursor_tick = wh.cursor_tick /\ new.seq = wh.seq
    /\ new.soonest = wh.soonest /\ new.pending = wh.pending - 1
    /\ \A i \in Buckets : i \in wh.occupied /\ new.slots[i] # {} => i \in new.occupied
    /\ \A r \in Places : At(new, r) = IF r = s THEN At(wh, r) \ gone ELSE At(wh, r)

\* cancel removes what the token names from the place the token names.
LEMMA CancelAt ==
    ASSUME NEW wh \in Wheels, NEW token, token.slot \in Places, named(wh, token) # {}
    PROVE  Removed(wh, token.slot, named(wh, token), cancel(wh, token))
<1> DEFINE gone == named(wh, token)
           new == cancel(wh, token)
           sl == [i \in Buckets |-> IF i = token.slot THEN wh.slots[i] \ gone ELSE wh.slots[i]]
           ov == wh.overflow \ gone
           pe == wh.pending - 1
           oc == release_bucket_if_empty(wh.occupied, sl, token.slot)
<1>1. NoSlot \notin Buckets
  BY DEF NoSlot, Buckets
<1>2. sl \in [Buckets -> SUBSET Entries] /\ ov \in SUBSET Entries /\ pe \in Int
  <2> HIDE DEF gone
  <2> QED  BY WheelFields
<1>3. oc \in SUBSET Buckets
  <2> HIDE DEF sl
  <2> QED  BY Zenon, WheelFields DEF release_bucket_if_empty
<1>4. CASE token.slot = NoSlot
  <2>1. new = [wh EXCEPT !.overflow = ov, !.pending = pe]
    BY Zenon, <1>4 DEF cancel
  <2> HIDE DEF new, ov, pe, sl, oc, gone
  <2>2. /\ new \in Wheels /\ new.base = wh.base /\ new.cursor_tick = wh.cursor_tick
        /\ new.seq = wh.seq /\ new.soonest = wh.soonest /\ new.pending = pe
        /\ new.occupied = wh.occupied /\ new.slots = wh.slots /\ new.overflow = ov
    BY Zenon, <1>2, <2>1 DEF Wheels
  <2>3. \A r \in Places : At(new, r) = IF r = token.slot THEN At(wh, r) \ gone ELSE At(wh, r)
    BY Zenon, <1>4, <2>2 DEF At, ov
  <2> QED  BY Zenon, <2>2, <2>3 DEF Removed, pe, new, gone
<1>5. CASE token.slot # NoSlot
  <2>1. new = [wh EXCEPT !.slots = sl, !.occupied = oc, !.pending = pe]
    BY Zenon, <1>5 DEF cancel
  <2> HIDE DEF new, ov, pe, oc, gone
  <2>2. /\ new \in Wheels /\ new.base = wh.base /\ new.cursor_tick = wh.cursor_tick
        /\ new.seq = wh.seq /\ new.soonest = wh.soonest /\ new.pending = pe
        /\ new.occupied = oc /\ new.slots = sl /\ new.overflow = wh.overflow
    <3> HIDE DEF sl
    <3> QED  BY Zenon, <1>2, <1>3, <2>1 DEF Wheels
  <2>3. \A i \in Buckets : sl[i] = IF i = token.slot THEN wh.slots[i] \ gone ELSE wh.slots[i]
    BY Zenon
  <2> HIDE DEF sl
  <2>4. \A r \in Places : At(new, r) = IF r = token.slot THEN At(wh, r) \ gone ELSE At(wh, r)
    BY Zenon, <1>1, <1>5, <2>2, <2>3 DEF At, Places
  <2>5. \A i \in Buckets : i \in wh.occupied /\ new.slots[i] # {} => i \in new.occupied
    BY Zenon, <2>2 DEF oc, release_bucket_if_empty
  <2> QED  BY Zenon, <2>2, <2>4, <2>5 DEF Removed, pe, new, gone
<1> QED  BY Zenon, <1>4, <1>5

\* The wheel stays sound under cancel, and holds all but the entry g.
LEMMA CancelOK ==
    ASSUME NEW wh, WheelOK(wh), NEW new, NEW s \in Places, NEW g \in At(wh, s),
           Removed(wh, s, {g}, new)
    PROVE  /\ WheelOK(new)
           /\ held(new) = held(wh) \ {g}
           /\ \A served \in Int : Behind(wh, served) => Behind(new, served)
<1>w. wh \in Wheels
  BY Zenon DEF WheelOK
<1>1. /\ new \in Wheels
      /\ new.base = wh.base /\ new.cursor_tick = wh.cursor_tick /\ new.seq = wh.seq
      /\ new.soonest = wh.soonest /\ new.pending = wh.pending - 1
      /\ \A i \in Buckets : i \in wh.occupied /\ new.slots[i] # {} => i \in new.occupied
      /\ \A r \in Places : At(new, r) = IF r = s THEN At(wh, r) \ {g} ELSE At(wh, r)
  BY Zenon DEF Removed
<1>2. \A r \in Places : r # s => g \notin At(wh, r)
  BY Zenon DEF WheelOK, Placed
<1>3. \A r \in Places : At(new, r) = At(wh, r) \ {g}
  BY Zenon, <1>1, <1>2
<1>4. held(new) = held(wh) \ {g} /\ g \in held(wh)
  <2>1. \A d : d \in held(new) <=> \E r \in Places : d \in At(new, r)
    BY Zenon, HeldAt
  <2>2. \A d : d \in held(wh) <=> \E r \in Places : d \in At(wh, r)
    BY Zenon, HeldAt
  <2> QED  BY <1>3, <2>1, <2>2
<1>5. \A i \in Buckets : new.slots[i] \subseteq wh.slots[i]
  <2>1. \A i \in Buckets : i \in Places /\ i # NoSlot
    BY DEF Places, Buckets, NoSlot
  <2> QED  BY Zenon, <1>3, <2>1 DEF At
<1>6. Placed(new)
  BY Zenon, <1>1, <1>3, <1>4 DEF WheelOK, Placed
<1>7. Summed(new)
  <2>1. /\ IsFiniteSet(held(new)) /\ Cardinality(held(new)) = Cardinality(held(wh)) - 1
    BY <1>4, FS_RemoveElement DEF WheelOK, Summed
  <2>2. new.pending = Cardinality(held(new))
    BY Zenon, <1>1, <2>1 DEF WheelOK, Summed
  <2>3. \A i \in Buckets : new.slots[i] # {} => i \in new.occupied
    BY Zenon, <1>1, <1>5 DEF WheelOK, Summed
  <2>4. \A d \in held(new) : new.soonest # NoInstant /\ new.soonest <= d.fire_at
    BY Zenon, <1>1, <1>4 DEF WheelOK, Summed
  <2> QED  BY Zenon, <2>1, <2>2, <2>3, <2>4 DEF Summed
<1>8. Filed(new)
  <2>1. \A t \in Nat : /\ target_tick(new, t) = target_tick(wh, t)
                       /\ \A n \in Nat : in_horizon(new, n) <=> in_horizon(wh, n)
    BY Zenon, <1>1, <1>w, SameTarget DEF ensure_base
  <2>2. ASSUME NEW i \in Buckets, NEW d \in new.slots[i]
        PROVE  /\ in_horizon(new, target_tick(new, d.fire_at))
               /\ i = bucket_of(target_tick(new, d.fire_at))
    <3>1. d \in wh.slots[i]
      BY Zenon, <1>5
    <3>2. d.fire_at \in Nat
      BY <1>w, <3>1, WheelFields DEF Entries
    <3>3. target_tick(wh, d.fire_at) \in Nat
      BY Zenon, <1>w, <3>2, TargetType
    <3> QED  BY Zenon, <2>1, <3>1, <3>2, <3>3 DEF WheelOK, Filed
  <2> QED  BY Zenon, <1>1, <1>4, <2>2 DEF WheelOK, Filed
<1>9. \A served \in Int : Behind(wh, served) => Behind(new, served)
  BY Zenon, <1>1 DEF Behind
<1> QED  BY Zenon, <1>1, <1>4, <1>6, <1>7, <1>8, <1>9 DEF WheelOK


\* A set of naturals has a least element, and `earliest' is it.
LEMMA Earliest ==
    ASSUME NEW T \in SUBSET Nat, T # {}
    PROVE  earliest(T) \in T /\ \A u \in T : earliest(T) <= u
<1>1. \E t \in T : \A u \in T : ~ (<<u, t>> \in OpToRel(<, Nat))
  BY Zenon, NatLessThanWellFounded, WFMin
<1>2. \E t \in T : \A u \in T : t <= u
  <2>1. ASSUME NEW t \in T, NEW u \in T, ~ (<<u, t>> \in OpToRel(<, Nat)) PROVE t <= u
    <3>1. t \in Nat /\ u \in Nat
      BY Zenon
    <3>2. ~ (u < t)
      BY Zenon, <2>1, <3>1 DEF OpToRel
    <3> QED  BY <3>1, <3>2
  <2> QED  BY Zenon, <1>1, <2>1
<1> QED  BY Zenon, <1>2 DEF earliest

\* The buckets a drain visits are buckets.
LEMMA ScannedType ==
    ASSUME NEW wh \in Wheels, NEW target \in Nat
    PROVE  scanned(wh, target) \in SUBSET Buckets
<1>1. least(most(target - wh.cursor_tick, 0), WHEEL_SLOTS) \in Int
  BY WheelAssumption, WheelFields DEF least, most
<1>2. \A step \in 0 .. least(most(target - wh.cursor_tick, 0), WHEEL_SLOTS) :
          wh.cursor_tick + step \in Nat
  BY <1>1, WheelFields
<1> QED  BY Zenon, <1>2, BucketType DEF scanned

\* "Any entry whose fire_at <= now is visited": no due entry is in a bucket
\* that the drain leaves out.
LEMMA DueScanned ==
    ASSUME NEW wh, WheelOK(wh), NEW served \in Int, Behind(wh, served),
           NEW now \in Nat, served <= now, wh.base # NoInstant,
           NEW i \in Buckets, NEW e \in wh.slots[i], e.fire_at <= now
    PROVE  i \in scanned(wh, tick_of(wh.base, now))
<1> DEFINE target == tick_of(wh.base, now)
           c == wh.cursor_tick
           t == target_tick(wh, e.fire_at)
<1>1. wh \in Wheels /\ c \in Nat /\ wh.base \in Int
  BY Zenon, WheelFields DEF WheelOK
<1>2. e.fire_at \in Nat
  BY <1>1, WheelFields DEF Entries
<1>3. target \in Nat /\ tick_of(wh.base, e.fire_at) \in Nat /\ tick_of(wh.base, e.fire_at) <= target
  <2>1. e.fire_at \in Int /\ now \in Int /\ e.fire_at <= now
    BY <1>2
  <2> QED  BY Zenon, <1>1, <2>1, TickMonotone
<1>4. c <= target
  <2>1. tick_of(wh.base, served) \in Nat /\ tick_of(wh.base, served) <= target
    <3>1. now \in Int
      OBVIOUS
    <3> QED  BY Zenon, <1>1, <3>1, TickMonotone
  <2> QED  BY <1>1, <1>3, <2>1 DEF Behind
<1>5. t = most(tick_of(wh.base, e.fire_at), c)
  BY Zenon DEF target_tick, ensure_base
<1>6. in_horizon(wh, t) /\ i = bucket_of(t)
  BY Zenon DEF WheelOK, Filed
<1> HIDE DEF target, t, c
<1>7. t \in Nat /\ c <= t /\ t <= target
  BY <1>1, <1>3, <1>4, <1>5 DEF most
<1>8. t < c + WHEEL_SLOTS
  BY Zenon, <1>6 DEF in_horizon, c
<1>9. t - c \in 0 .. least(most(target - c, 0), WHEEL_SLOTS) /\ c + (t - c) = t
  BY <1>1, <1>3, <1>7, <1>8, WheelAssumption DEF least, most
<1> QED  BY Zenon, <1>6, <1>9 DEF scanned, target, c

\* A drain takes what is due and nothing else, from every place.
LEMMA DueExact ==
    ASSUME NEW wh, WheelOK(wh), NEW served \in Int, Behind(wh, served),
           NEW now \in Nat, served <= now, wh.base # NoInstant
    PROVE  due_at(wh, now) = {e \in held(wh) : e.fire_at <= now}
<1>1. wh \in Wheels /\ tick_of(wh.base, now) \in Nat
  <2>1. wh \in Wheels /\ wh.base \in Int /\ now \in Int /\ now <= now
    BY WheelFields DEF WheelOK
  <2> QED  BY Zenon, <2>1, TickMonotone
<1>2. scanned(wh, tick_of(wh.base, now)) \in SUBSET Buckets
  BY Zenon, <1>1, ScannedType
<1>3. \A i \in Buckets : \A e \in wh.slots[i] :
          e.fire_at <= now => i \in scanned(wh, tick_of(wh.base, now))
  BY Zenon, DueScanned
<1> QED  BY Zenon, <1>2, <1>3 DEF due_at, held


\* The cursor stays behind later instants.
LEMMA BehindLater ==
    ASSUME NEW wh \in Wheels, NEW served \in Int, NEW now \in Int, served <= now,
           Behind(wh, served)
    PROVE  Behind(wh, now)
<1>1. /\ tick_of(wh.base, served) \in Nat /\ tick_of(wh.base, now) \in Nat
      /\ tick_of(wh.base, served) <= tick_of(wh.base, now)
  BY Zenon, WheelFields, TickMonotone
<1> QED  BY <1>1, WheelFields DEF Behind

\* The fast path of drain_due is taken only when nothing is due.
LEMMA IdleNothingDue ==
    ASSUME NEW wh, WheelOK(wh), NEW now \in Nat, idle(wh, now)
    PROVE  \A e \in held(wh) : ~ (e.fire_at <= now)
<1>1. wh \in Wheels /\ wh.soonest \in Int /\ \A e \in held(wh) : e.fire_at \in Nat
  BY Zenon, WheelFields DEF WheelOK, Entries
<1>2. CASE wh.pending = 0
  BY Zenon, <1>2, FS_EmptySet DEF WheelOK, Summed
<1>3. CASE wh.pending # 0
  BY <1>1, <1>3 DEF idle, WheelOK, Summed
<1> QED  BY Zenon, <1>2, <1>3

\* The wheel `new' is `wh' with what is due at `now' taken out.
Drained(wh, now, new) ==
    /\ new \in Wheels /\ new.base = wh.base /\ new.seq = wh.seq
    /\ new.cursor_tick = tick_of(wh.base, now)
    /\ new.pending = wh.pending - Cardinality(due_at(wh, now))
    /\ \A i \in Buckets : i \in wh.occupied /\ new.slots[i] # {} => i \in new.occupied
    /\ \A s \in Places : At(new, s) = {e \in At(wh, s) : ~ (e.fire_at <= now)}
    /\ \A e \in held(new) : new.soonest # NoInstant /\ new.soonest <= e.fire_at

\* The slow path of drain_due.
LEMMA DrainAt ==
    ASSUME NEW wh, WheelOK(wh), NEW served \in Int, Behind(wh, served),
           NEW now \in Nat, served <= now, ~ idle(wh, now), wh.base # NoInstant
    PROVE  Drained(wh, now, drain_due(wh, now))
<1> DEFINE target == tick_of(wh.base, now)
           gone == due_at(wh, now)
           scan == scanned(wh, target)
           sl == [i \in Buckets |-> IF i \in scan THEN wh.slots[i] \ gone ELSE wh.slots[i]]
           oc == {i \in wh.occupied : i \in scan => sl[i] # {}}
           ov == wh.overflow \ gone
           pe == wh.pending - Cardinality(gone)
           so == nearest(oc, ov, sl)
           new == drain_due(wh, now)
<1>w. /\ wh \in Wheels /\ wh.occupied \in SUBSET Buckets /\ wh.overflow \in SUBSET Entries
      /\ wh.slots \in [Buckets -> SUBSET Entries] /\ wh.base \in Int
  BY Zenon, WheelFields DEF WheelOK
<1>1. target \in Nat
  <2>1. now \in Int /\ now <= now
    OBVIOUS
  <2> QED  BY Zenon, <1>w, <2>1, TickMonotone
<1>2. gone = {e \in held(wh) : e.fire_at <= now}
  BY Zenon, DueExact
<1>3. \A i \in Buckets : \A e \in wh.slots[i] : e.fire_at <= now => i \in scan
  BY Zenon, DueScanned
<1>4. new = [wh EXCEPT !.cursor_tick = target, !.slots = sl, !.occupied = oc,
                       !.overflow = ov, !.pending = pe, !.soonest = so]
  BY Zenon DEF drain_due
<1> HIDE DEF target, gone, scan, new
<1>5. \A i \in Buckets : sl[i] = {e \in wh.slots[i] : ~ (e.fire_at <= now)}
  <2>1. \A i \in Buckets : wh.slots[i] \subseteq held(wh)
    BY Zenon DEF held
  <2> QED  BY Zenon, <1>2, <1>3, <2>1
<1>6. ov = {e \in wh.overflow : ~ (e.fire_at <= now)}
  BY Zenon, <1>2 DEF held
<1>7. sl \in [Buckets -> SUBSET Entries] /\ oc \in SUBSET Buckets /\ ov \in SUBSET Entries
  <2>1. sl \in [Buckets -> SUBSET Entries]
    BY Zenon, <1>w
  <2> HIDE DEF sl
  <2> QED  BY Zenon, <1>w, <2>1
<1>8. pe \in Int
  <2>1. IsFiniteSet(gone)
    BY Zenon, <1>2, FS_Subset DEF WheelOK, Summed
  <2> QED  BY <1>w, <2>1, FS_CardinalityType, WheelFields
<1>9. \A i \in Buckets : sl[i] # {} => i \in oc
  <2> HIDE DEF sl
  <2>1. \A i \in Buckets : sl[i] # {} => wh.slots[i] # {}
    BY Zenon, <1>5
  <2> QED  BY Zenon, <2>1 DEF WheelOK, Summed
<1> DEFINE kept == ov \cup UNION {sl[i] : i \in oc}
<1> HIDE DEF sl, ov
<1>10. \A e : e \in kept <=> e \in ov \/ \E i \in Buckets : e \in sl[i]
  <2> HIDE DEF oc
  <2> QED  BY Zenon, <1>7, <1>9
<1> HIDE DEF oc
<1>11. kept \in SUBSET Entries
  BY Zenon, <1>7
<1>12. /\ so \in Nat \cup {NoInstant}
       /\ \A e \in kept : so # NoInstant /\ so <= e.fire_at
  <2>1. CASE kept = {}
    BY Zenon, <2>1 DEF nearest
  <2>2. CASE kept # {}
    <3> DEFINE T == {e.fire_at : e \in kept}
    <3>1. T \in SUBSET Nat /\ T # {} /\ \A e \in kept : e.fire_at \in T
      BY <1>11, <2>2 DEF Entries
    <3>2. so = earliest(T)
      BY Zenon, <2>2 DEF nearest
    <3> HIDE DEF T, so, kept
    <3>3. so \in T /\ \A u \in T : so <= u
      BY Zenon, <3>1, <3>2, Earliest
    <3>4. so \in Nat /\ so # NoInstant
      BY <3>1, <3>3 DEF NoInstant
    <3> QED  BY Zenon, <3>1, <3>3, <3>4
  <2> QED  BY Zenon, <2>1, <2>2
<1> HIDE DEF pe, so, kept
<1>13. /\ new \in Wheels /\ new.base = wh.base /\ new.seq = wh.seq /\ new.cursor_tick = target
       /\ new.slots = sl /\ new.occupied = oc /\ new.overflow = ov /\ new.pending = pe
       /\ new.soonest = so
  BY Zenon, <1>w, <1>1, <1>4, <1>7, <1>8, <1>12 DEF Wheels
<1>14. \A s \in Places : At(new, s) = {e \in At(wh, s) : ~ (e.fire_at <= now)}
  BY Zenon, <1>5, <1>6, <1>13 DEF At, Places
<1>15. \A e \in held(new) : e \in kept
  BY Zenon, <1>10, <1>13 DEF held
<1>16. \A i \in Buckets : i \in wh.occupied /\ new.slots[i] # {} => i \in new.occupied
  BY Zenon, <1>9, <1>13
<1> QED
  BY Zenon, <1>12, <1>13, <1>14, <1>15, <1>16 DEF Drained, pe, gone, target, new


\* The wheel stays sound under a drain, which takes what is due and leaves the
\* rest where it was.
LEMMA DrainOK ==
    ASSUME NEW wh, WheelOK(wh), NEW served \in Int, Behind(wh, served),
           NEW now \in Nat, served <= now
    PROVE  /\ WheelOK(drain_due(wh, now)) /\ Behind(drain_due(wh, now), now)
           /\ drain_due(wh, now).seq = wh.seq
           /\ drained(wh, now) = {e \in held(wh) : e.fire_at <= now}
           /\ held(drain_due(wh, now)) = {e \in held(wh) : ~ (e.fire_at <= now)}
           /\ \A s \in Places :
                  At(drain_due(wh, now), s) = {e \in At(wh, s) : ~ (e.fire_at <= now)}
<1> DEFINE new == drain_due(wh, now)
<1>w. wh \in Wheels /\ now \in Int
  BY DEF WheelOK
<1>1. CASE idle(wh, now)
  <2>1. \A e \in held(wh) : ~ (e.fire_at <= now)
    BY Zenon, <1>1, IdleNothingDue
  <2>2. drain_due(wh, now) = wh /\ drained(wh, now) = {}
    BY Zenon, <1>1 DEF drain_due, drained
  <2>3. Behind(wh, now)
    BY Zenon, <1>w, BehindLater
  <2>4. \A s \in Places : \A e \in At(wh, s) : ~ (e.fire_at <= now)
    BY Zenon, <2>1, HeldAt
  <2> QED  BY Zenon, <2>1, <2>2, <2>3, <2>4
<1>2. CASE ~ idle(wh, now)
  <2>1. wh.base # NoInstant
    BY Zenon, <1>2, FS_EmptySet DEF idle, WheelOK, Filed, Summed
  <2>2. Drained(wh, now, new)
    BY Zenon, <1>2, <2>1, DrainAt
  <2>3. due_at(wh, now) = {e \in held(wh) : e.fire_at <= now} /\ drained(wh, now) = due_at(wh, now)
    BY Zenon, <1>2, <2>1, DueExact DEF drained
  <2> HIDE DEF new
  <2>4. held(new) = {e \in held(wh) : ~ (e.fire_at <= now)}
    <3>1. \A d : d \in held(new) <=> \E s \in Places : d \in At(new, s)
      BY Zenon, HeldAt
    <3>2. \A d : d \in held(wh) <=> \E s \in Places : d \in At(wh, s)
      BY Zenon, HeldAt
    <3>3. \A s \in Places : At(new, s) = {e \in At(wh, s) : ~ (e.fire_at <= now)}
      BY Zenon, <2>2 DEF Drained
    <3> QED  BY <3>1, <3>2, <3>3
  <2>5. Placed(new)
    <3>1. \A d \in held(new) : d \in held(wh)
      BY Zenon, <2>4
    <3>2. \A s \in Places : At(new, s) \subseteq At(wh, s)
      BY Zenon, <2>2 DEF Drained
    <3>3. new.seq = wh.seq
      BY Zenon, <2>2 DEF Drained
    <3>4. \A r, s \in Places : r # s => At(wh, r) \cap At(wh, s) = {}
      BY Zenon DEF WheelOK, Placed
    <3>5. \A r, s \in Places : r # s => At(new, r) \cap At(new, s) = {}
      BY Zenon, <3>2, <3>4
    <3> QED  BY Zenon, <3>1, <3>3, <3>5 DEF WheelOK, Placed
  <2>6. Summed(new)
    <3>1. IsFiniteSet(held(wh)) /\ wh.pending = Cardinality(held(wh))
      BY Zenon DEF WheelOK, Summed
    <3>2. held(new) = held(wh) \ due_at(wh, now) /\ held(wh) \cap due_at(wh, now) = due_at(wh, now)
      BY Zenon, <2>3, <2>4
    <3>3. /\ IsFiniteSet(held(new))
          /\ Cardinality(held(new)) = Cardinality(held(wh)) - Cardinality(due_at(wh, now))
      <4> DEFINE gone == due_at(wh, now)
      <4> HIDE DEF gone
      <4>1. /\ IsFiniteSet(held(wh) \ gone)
            /\ Cardinality(held(wh) \ gone) = Cardinality(held(wh)) - Cardinality(held(wh) \cap gone)
        BY Zenon, <3>1, FS_Difference
      <4> QED  BY Zenon, <3>2, <4>1 DEF gone
    <3>4. new.pending = wh.pending - Cardinality(due_at(wh, now))
      BY Zenon, <2>2 DEF Drained
    <3>5. ASSUME NEW i \in Buckets, new.slots[i] # {} PROVE i \in new.occupied
      <4>1. i \in Places /\ i # NoSlot
        BY DEF Places, Buckets, NoSlot
      <4>2. new.slots[i] = {e \in wh.slots[i] : ~ (e.fire_at <= now)}
        BY Zenon, <2>2, <4>1 DEF Drained, At
      <4>3. i \in wh.occupied
        BY Zenon, <3>5, <4>2 DEF WheelOK, Summed
      <4> QED  BY Zenon, <2>2, <3>5, <4>3 DEF Drained
    <3>6. \A d \in held(new) : new.soonest # NoInstant /\ new.soonest <= d.fire_at
      BY Zenon, <2>2 DEF Drained
    <3> QED  BY Zenon, <3>1, <3>3, <3>4, <3>5, <3>6 DEF Summed
  <2>7. new \in Wheels /\ new.base = wh.base /\ new.cursor_tick = tick_of(wh.base, now)
        /\ new.seq = wh.seq
    BY Zenon, <2>2 DEF Drained
  <2>8. Filed(new)
    <3>1. ASSUME NEW i \in Buckets, NEW d \in new.slots[i]
          PROVE  /\ in_horizon(new, target_tick(new, d.fire_at))
                 /\ i = bucket_of(target_tick(new, d.fire_at))
      <4>1. i \in Places /\ i # NoSlot
        BY DEF Places, Buckets, NoSlot
      <4>2. d \in wh.slots[i] /\ ~ (d.fire_at <= now)
        BY Zenon, <2>2, <4>1, <3>1 DEF Drained, At
      <4>3. d.fire_at \in Nat
        BY <1>w, <4>2, WheelFields DEF Entries
      <4> DEFINE n == tick_of(wh.base, d.fire_at)
                 target == tick_of(wh.base, now)
      <4>4. target \in Nat /\ n \in Nat /\ target <= n
        <5>1. d.fire_at \in Int /\ now <= d.fire_at /\ wh.base \in Int
          BY <1>w, <4>2, <4>3, WheelFields
        <5> QED  BY Zenon, <1>w, <5>1, TickMonotone
      <4>5. wh.cursor_tick \in Nat /\ wh.cursor_tick <= target
        <5>1. Behind(wh, now)
          BY Zenon, <1>w, BehindLater
        <5> QED  BY <1>w, <4>4, <5>1, WheelFields DEF Behind
      <4>6. /\ target_tick(wh, d.fire_at) = most(n, wh.cursor_tick)
            /\ target_tick(new, d.fire_at) = most(n, target)
        BY Zenon, <2>1, <2>7 DEF target_tick, ensure_base
      <4> HIDE DEF n, target
      <4>7. target_tick(wh, d.fire_at) = n /\ target_tick(new, d.fire_at) = n
        BY <4>4, <4>5, <4>6 DEF most
      <4>8. in_horizon(wh, n) /\ i = bucket_of(n)
        BY Zenon, <4>2, <4>7 DEF WheelOK, Filed
      <4>9. in_horizon(new, n)
        BY <2>7, <4>4, <4>5, <4>8, WheelAssumption DEF in_horizon, target
      <4> QED  BY Zenon, <4>7, <4>8, <4>9
    <3> QED  BY Zenon, <2>1, <2>7, <3>1 DEF Filed
  <2>9. Behind(new, now)
    <3>1. tick_of(wh.base, now) \in Nat
      BY Zenon, <1>w, TickMonotone, WheelFields
    <3> QED  BY <2>7, <3>1 DEF Behind
  <2> QED
    BY Zenon, <2>2, <2>3, <2>4, <2>5, <2>6, <2>7, <2>8, <2>9 DEF WheelOK, Drained, new
<1> QED  BY Zenon, <1>1, <1>2


------------------------------------------------------------------------------
Tokens == [fire_at : Nat \cup {NoInstant}, seq : Nat, slot : Places]

Services ==
    [armed : [TimerPids -> Tokens], grace_deadline : Nat \cup {NoInstant},
     last_advance : Nat \cup {NoInstant}, wheel : Wheels]

\* The deadlines the wheel holds for process p.
DeadlinesOf(wh, p) == {e \in held(wh) : e.kind = "Promote" /\ e.pid = p}

\* The token leads to the entries G of the wheel: one, or none.
Names(wh, token, G) ==
    \/ token = NoToken /\ G = {}
    \/ \E g \in At(wh, token.slot) :
           token.seq = g.seq /\ token.fire_at = g.fire_at /\ G = {g}

\* Each process's token leads to its deadline.
ServiceOK(sv) ==
    /\ sv \in Services
    /\ WheelOK(sv.wheel) /\ Behind(sv.wheel, sv.last_advance)
    /\ \A p \in TimerPids : Names(sv.wheel, sv.armed[p], DeadlinesOf(sv.wheel, p))

\* Taking back what a token leads to: TimerWheel::cancel under the service.
LEMMA DisarmOK ==
    ASSUME NEW wh, WheelOK(wh), NEW token \in Tokens, NEW G, Names(wh, token, G)
    PROVE  /\ WheelOK(disarm(wh, token)) /\ disarm(wh, token).seq = wh.seq
           /\ held(disarm(wh, token)) = held(wh) \ G
           /\ \A s \in Places : At(disarm(wh, token), s) = At(wh, s) \ G
           /\ \A served \in Int : Behind(wh, served) => Behind(disarm(wh, token), served)
<1>w. wh \in Wheels /\ token.slot \in Places
  BY Zenon DEF WheelOK, Tokens
<1>1. CASE token = NoToken
  <2>1. disarm(wh, token) = wh
    BY Zenon, <1>1 DEF disarm
  <2>2. G = {}
    <3>1. \A s \in Places : \A g \in At(wh, s) : g.seq # 0
      BY Zenon, <1>w, WheelFields DEF Entries
    <3>2. token.seq = 0
      BY Zenon, <1>1 DEF NoToken
    <3> QED  BY Zenon, <1>w, <3>1, <3>2 DEF Names
  <2> QED  BY Zenon, <2>1, <2>2
<1>2. CASE token # NoToken
  <2>1. PICK g \in At(wh, token.slot) :
            token.seq = g.seq /\ token.fire_at = g.fire_at /\ G = {g}
    BY Zenon, <1>2 DEF Names
  <2>2. named(wh, token) = {g}
    <3>1. \A d \in At(wh, token.slot) : d.seq = g.seq => d = g
      BY Zenon, <1>w, HeldAt DEF WheelOK, Placed
    <3>2. named(wh, token) = IF token.slot = NoSlot
                             THEN {e \in At(wh, token.slot) : e.fire_at = token.fire_at
                                                              /\ e.seq = token.seq}
                             ELSE {e \in At(wh, token.slot) : e.seq = token.seq}
      BY Zenon DEF named, At
    <3> QED  BY Zenon, <2>1, <3>1, <3>2
  <2>3. Removed(wh, token.slot, {g}, disarm(wh, token))
    <3>1. named(wh, token) # {}
      BY Zenon, <2>2
    <3> QED  BY Zenon, <1>w, <1>2, <2>2, <3>1, CancelAt DEF disarm
  <2> DEFINE new == disarm(wh, token)
  <2> HIDE DEF new
  <2>4. /\ WheelOK(new) /\ held(new) = held(wh) \ {g}
        /\ \A served \in Int : Behind(wh, served) => Behind(new, served)
    BY Zenon, <1>w, <2>1, <2>3, CancelOK DEF new
  <2>5. new.seq = wh.seq
    BY Zenon, <2>3 DEF Removed, new
  <2>6. \A s \in Places : At(new, s) = At(wh, s) \ {g}
    <3>1. \A s \in Places : s # token.slot => g \notin At(wh, s)
      BY Zenon, <1>w, <2>1 DEF WheelOK, Placed
    <3>2. \A s \in Places : At(new, s) = IF s = token.slot THEN At(wh, s) \ {g} ELSE At(wh, s)
      BY Zenon, <2>3 DEF Removed, new
    <3> QED  BY Zenon, <3>1, <3>2
  <2> QED  BY Zenon, <2>1, <2>4, <2>5, <2>6 DEF new
<1> QED  BY Zenon, <1>1, <1>2


\* What the service's type says.
LEMMA ServiceFields ==
    ASSUME NEW sv, ServiceOK(sv)
    PROVE  /\ sv \in Services /\ WheelOK(sv.wheel) /\ sv.wheel \in Wheels /\ sv.wheel.seq \in Nat
           /\ sv.last_advance \in Int /\ sv.last_advance >= NoInstant
           /\ Behind(sv.wheel, sv.last_advance)
           /\ sv.grace_deadline \in Nat \cup {NoInstant}
           /\ sv.armed \in [TimerPids -> Tokens]
           /\ \A p \in TimerPids : sv.armed[p] \in Tokens /\ sv.armed[p].slot \in Places
           /\ \A p \in TimerPids : Names(sv.wheel, sv.armed[p], DeadlinesOf(sv.wheel, p))
<1>1. sv \in Services /\ sv.wheel \in Wheels
  BY Zenon DEF ServiceOK, Services
<1> QED  BY <1>1, WheelFields DEF ServiceOK, Services, Tokens, NoInstant

\* Tokens lead where they did as long as what they lead to stays.
LEMMA NamesKept ==
    ASSUME NEW wh, NEW new, NEW token \in Tokens, NEW G, Names(wh, token, G),
           \A g \in G : \A s \in Places : g \in At(wh, s) => g \in At(new, s)
    PROVE  Names(new, token, G)
<1>1. token.slot \in Places
  BY Zenon DEF Tokens
<1> QED  BY Zenon, <1>1 DEF Names

\* send_after: the entry is added and every deadline stays.
LEMMA DeliverOK ==
    ASSUME NEW sv, ServiceOK(sv), NEW t \in Nat, NEW p \in TimerPids
    PROVE  LET new == schedule_deliver(sv, t, p)
           IN  /\ ServiceOK(new) /\ new.last_advance = sv.last_advance
               /\ new.wheel.seq = sv.wheel.seq + 1
               /\ held(new.wheel) = held(sv.wheel) \cup {Entry(t, "Deliver", p, sv.wheel.seq + 1)}
<1> DEFINE new == schedule_deliver(sv, t, p)
           wh == sv.wheel
           nw == insert(wh, t, p, "Deliver")
           e == Entry(t, "Deliver", p, wh.seq + 1)
<1>1. /\ sv \in Services /\ WheelOK(wh) /\ wh \in Wheels /\ sv.last_advance \in Int
      /\ Behind(wh, sv.last_advance)
  BY Zenon, ServiceFields
<1>2. Inserted(wh, t, e, nw)
  <2> HIDE DEF wh
  <2> QED  BY Zenon, <1>1, InsertAt
<1>3. /\ WheelOK(nw) /\ held(nw) = held(wh) \cup {e} /\ Behind(nw, sv.last_advance)
  <2> HIDE DEF wh
  <2> QED  BY Zenon, <1>1, InsertOK
<1>4. new = [sv EXCEPT !.wheel = nw]
  BY Zenon DEF schedule_deliver
<1>5. e.kind # "Promote"
  BY Zenon DEF Entry
<1> HIDE DEF new, nw, e
<1>6. nw \in Wheels /\ nw.seq = wh.seq + 1
      /\ \A s \in Places : At(wh, s) \subseteq At(nw, s)
  BY Zenon, <1>2 DEF Inserted
<1>7. /\ new \in Services /\ new.wheel = nw /\ new.armed = sv.armed
      /\ new.last_advance = sv.last_advance
  BY Zenon, <1>1, <1>4, <1>6 DEF Services
<1>8. ASSUME NEW q \in TimerPids PROVE Names(nw, sv.armed[q], DeadlinesOf(nw, q))
  <2>1. DeadlinesOf(nw, q) = DeadlinesOf(wh, q)
    BY Zenon, <1>3, <1>5 DEF DeadlinesOf
  <2>2. Names(wh, sv.armed[q], DeadlinesOf(wh, q)) /\ sv.armed[q] \in Tokens
    BY Zenon, ServiceFields
  <2> QED  BY Zenon, <1>6, <2>1, <2>2, NamesKept
<1> QED  BY Zenon, <1>3, <1>6, <1>7, <1>8 DEF ServiceOK, new, e

\* Cancelling p's deadline removes it and leads every other token where it did.
LEMMA CancelDeadlineOK ==
    ASSUME NEW sv, ServiceOK(sv), NEW p \in TimerPids
    PROVE  LET new == cancel_deadline(sv, p)
           IN  /\ ServiceOK(new) /\ new.last_advance = sv.last_advance
               /\ new.wheel.seq = sv.wheel.seq
               /\ held(new.wheel) = held(sv.wheel) \ DeadlinesOf(sv.wheel, p)
<1> DEFINE new == cancel_deadline(sv, p)
           wh == sv.wheel
           nw == disarm(wh, sv.armed[p])
           G == DeadlinesOf(wh, p)
<1>1. /\ sv \in Services /\ WheelOK(wh) /\ wh \in Wheels /\ sv.last_advance \in Int
      /\ Behind(wh, sv.last_advance) /\ sv.armed \in [TimerPids -> Tokens]
      /\ \A q \in TimerPids : sv.armed[q] \in Tokens /\ Names(wh, sv.armed[q], DeadlinesOf(wh, q))
  BY Zenon, ServiceFields
<1>2. /\ WheelOK(nw) /\ nw.seq = wh.seq /\ held(nw) = held(wh) \ G /\ Behind(nw, sv.last_advance)
      /\ \A s \in Places : At(nw, s) = At(wh, s) \ G
  <2> DEFINE tk == sv.armed[p]
  <2>1. tk \in Tokens /\ Names(wh, tk, G)
    BY Zenon, <1>1
  <2> HIDE DEF wh, G, tk
  <2>2. /\ WheelOK(disarm(wh, tk)) /\ disarm(wh, tk).seq = wh.seq
        /\ held(disarm(wh, tk)) = held(wh) \ G
        /\ \A s \in Places : At(disarm(wh, tk), s) = At(wh, s) \ G
        /\ \A served \in Int : Behind(wh, served) => Behind(disarm(wh, tk), served)
    BY Zenon, <1>1, <2>1, DisarmOK
  <2> QED  BY Zenon, <1>1, <2>2 DEF tk
<1>3. new = [sv EXCEPT !.armed[p] = NoToken, !.wheel = nw]
  BY Zenon DEF cancel_deadline
<1>4. NoToken \in Tokens
  BY Zenon DEF NoToken, Tokens, NoInstant, Places
<1> HIDE DEF new, nw
<1>5. /\ new \in Services /\ new.wheel = nw /\ new.armed = [sv.armed EXCEPT ![p] = NoToken]
      /\ new.last_advance = sv.last_advance
  <2>1. nw \in Wheels
    BY Zenon, <1>2 DEF WheelOK
  <2> QED  BY Zenon, <1>1, <1>3, <1>4, <2>1 DEF Services
<1>6. ASSUME NEW q \in TimerPids PROVE Names(nw, new.armed[q], DeadlinesOf(nw, q))
  <2>1. CASE q = p
    <3>1. DeadlinesOf(nw, q) = {} /\ new.armed[q] = NoToken
      BY Zenon, <1>1, <1>2, <1>5, <2>1 DEF DeadlinesOf
    <3> QED  BY Zenon, <3>1 DEF Names
  <2>2. CASE q # p
    <3>1. DeadlinesOf(nw, q) = DeadlinesOf(wh, q) /\ \A g \in DeadlinesOf(wh, q) : g \notin G
      BY Zenon, <1>2, <2>2 DEF DeadlinesOf
    <3>2. new.armed[q] = sv.armed[q]
      BY Zenon, <1>1, <1>5, <2>2
    <3> HIDE DEF G
    <3> QED  BY Zenon, <1>1, <1>2, <3>1, <3>2, NamesKept
  <2> QED  BY Zenon, <2>1, <2>2
<1> QED  BY Zenon, <1>2, <1>5, <1>6 DEF ServiceOK, new


\* Arming puts the new deadline in and takes the superseded one out.
LEMMA ArmOK ==
    ASSUME NEW sv, ServiceOK(sv), NEW t \in Nat, NEW p \in TimerPids
    PROVE  LET new == arm_deadline(sv, p, t)
           IN  /\ ServiceOK(new) /\ new.last_advance = sv.last_advance
               /\ new.wheel.seq = sv.wheel.seq + 1
               /\ held(new.wheel) = (held(sv.wheel) \ DeadlinesOf(sv.wheel, p))
                                        \cup {Entry(t, "Promote", p, sv.wheel.seq + 1)}
<1> DEFINE new == arm_deadline(sv, p, t)
           wh == sv.wheel
           w1 == insert(wh, t, p, "Promote")
           old == sv.armed[p]
           w2 == disarm(w1, old)
           e == Entry(t, "Promote", p, wh.seq + 1)
           token == TimerToken(wh, t)
           G == DeadlinesOf(wh, p)
<1>1. /\ sv \in Services /\ WheelOK(wh) /\ wh \in Wheels /\ sv.last_advance \in Int
      /\ Behind(wh, sv.last_advance) /\ sv.armed \in [TimerPids -> Tokens]
      /\ \A q \in TimerPids : sv.armed[q] \in Tokens /\ Names(wh, sv.armed[q], DeadlinesOf(wh, q))
  BY Zenon, ServiceFields
<1>2. Inserted(wh, t, e, w1)
  <2> HIDE DEF wh
  <2> QED  BY Zenon, <1>1, InsertAt
<1>3. /\ WheelOK(w1) /\ held(w1) = held(wh) \cup {e} /\ e \notin held(wh)
      /\ Behind(w1, sv.last_advance)
  <2> HIDE DEF wh
  <2> QED  BY Zenon, <1>1, InsertOK
<1>4. new = [sv EXCEPT !.armed[p] = token, !.wheel = w2]
  BY Zenon DEF arm_deadline
<1>5. /\ e.kind = "Promote" /\ e.pid = p /\ e.seq = token.seq /\ e.fire_at = token.fire_at
      /\ token.slot = slot_for(wh, t) /\ token \in Tokens
  <2>1. slot_for(wh, t) \in Places /\ wh.seq \in Nat
    <3> HIDE DEF wh
    <3> QED  BY Zenon, <1>1, TargetType, WheelFields
  <2> QED  BY <2>1 DEF Entry, TimerToken, Tokens
<1>6. old \in Tokens /\ Names(wh, old, G)
  BY Zenon, <1>1
<1> HIDE DEF new, wh, w1, w2, old, e, token, G
<1>7. /\ w1.seq = wh.seq + 1 /\ e \in At(w1, token.slot) /\ token.slot \in Places
      /\ \A s \in Places : At(wh, s) \subseteq At(w1, s)
  BY Zenon, <1>2, <1>5 DEF Inserted, Tokens
<1>8. Names(w1, old, G)
  BY Zenon, <1>6, <1>7, NamesKept
<1>9. /\ WheelOK(w2) /\ w2.seq = w1.seq /\ held(w2) = held(w1) \ G /\ Behind(w2, sv.last_advance)
      /\ \A s \in Places : At(w2, s) = At(w1, s) \ G
  <2>1. /\ WheelOK(disarm(w1, old)) /\ disarm(w1, old).seq = w1.seq
        /\ held(disarm(w1, old)) = held(w1) \ G
        /\ \A s \in Places : At(disarm(w1, old), s) = At(w1, s) \ G
        /\ \A served \in Int : Behind(w1, served) => Behind(disarm(w1, old), served)
    BY Zenon, <1>3, <1>6, <1>8, DisarmOK
  <2> QED  BY Zenon, <1>1, <1>3, <2>1 DEF w2
<1>10. e \notin G /\ held(w2) = (held(wh) \ G) \cup {e}
  BY Zenon, <1>3, <1>9 DEF G, DeadlinesOf
<1>11. /\ new \in Services /\ new.wheel = w2 /\ new.armed = [sv.armed EXCEPT ![p] = token]
       /\ new.last_advance = sv.last_advance
  <2>1. w2 \in Wheels
    BY Zenon, <1>9 DEF WheelOK
  <2> QED  BY Zenon, <1>1, <1>4, <1>5, <2>1 DEF Services
<1>12. ASSUME NEW q \in TimerPids PROVE Names(w2, new.armed[q], DeadlinesOf(w2, q))
  <2>1. CASE q = p
    <3>1. DeadlinesOf(w2, q) = {e}
      BY Zenon, <1>5, <1>10, <2>1 DEF DeadlinesOf, G
    <3>2. new.armed[q] = token
      BY Zenon, <1>1, <1>11, <2>1
    <3>3. e \in At(w2, token.slot)
      BY Zenon, <1>7, <1>9, <1>10
    <3> QED  BY Zenon, <1>5, <3>1, <3>2, <3>3 DEF Names
  <2>2. CASE q # p
    <3>1. DeadlinesOf(w2, q) = DeadlinesOf(wh, q) /\ \A g \in DeadlinesOf(wh, q) : g \notin G
      BY <1>5, <1>10, <2>2 DEF DeadlinesOf, G
    <3>2. new.armed[q] = sv.armed[q]
      BY Zenon, <1>1, <1>11, <2>2
    <3>3. \A g \in DeadlinesOf(wh, q) : \A s \in Places : g \in At(wh, s) => g \in At(w2, s)
      BY Zenon, <1>7, <1>9, <3>1
    <3> QED  BY Zenon, <1>1, <3>1, <3>2, <3>3, NamesKept
  <2> QED  BY Zenon, <2>1, <2>2
<1>13. w2.seq = wh.seq + 1
  BY Zenon, <1>7, <1>9
<1> QED  BY Zenon, <1>9, <1>10, <1>11, <1>12, <1>13 DEF ServiceOK, new, wh, e, G

\* A drain at a new instant takes exactly what is due, and clears the tokens
\* of the deadlines it takes.
LEMMA AdvanceOK ==
    ASSUME NEW sv, ServiceOK(sv), NEW now \in Nat, ~ stale(sv, now)
    PROVE  LET new == advance(sv, now)
           IN  /\ ServiceOK(new) /\ new.last_advance = now /\ sv.last_advance < now
               /\ new.wheel.seq = sv.wheel.seq
               /\ held(new.wheel) = {e \in held(sv.wheel) : ~ (e.fire_at <= now)}
               /\ advanced(sv, now) = {e \in held(sv.wheel) : e.fire_at <= now}
<1> DEFINE new == advance(sv, now)
           wh == sv.wheel
           nw == drain_due(wh, now)
           gone == drained(wh, now)
           arm == [q \in TimerPids |-> IF q \in promoted(gone) THEN NoToken ELSE sv.armed[q]]
<1>1. /\ sv \in Services /\ WheelOK(wh) /\ wh \in Wheels /\ sv.last_advance \in Int
      /\ sv.last_advance >= NoInstant
      /\ Behind(wh, sv.last_advance) /\ sv.armed \in [TimerPids -> Tokens]
      /\ \A q \in TimerPids : sv.armed[q] \in Tokens /\ Names(wh, sv.armed[q], DeadlinesOf(wh, q))
  BY Zenon, ServiceFields
<1>2. sv.last_advance < now
  BY <1>1 DEF stale, NoInstant
<1>3. /\ WheelOK(nw) /\ Behind(nw, now) /\ nw.seq = wh.seq
      /\ gone = {e \in held(wh) : e.fire_at <= now}
      /\ held(nw) = {e \in held(wh) : ~ (e.fire_at <= now)}
      /\ \A s \in Places : At(nw, s) = {e \in At(wh, s) : ~ (e.fire_at <= now)}
  <2>1. sv.last_advance <= now
    BY <1>1, <1>2
  <2> HIDE DEF wh
  <2>2. /\ WheelOK(drain_due(wh, now)) /\ Behind(drain_due(wh, now), now)
        /\ drain_due(wh, now).seq = wh.seq
        /\ drained(wh, now) = {e \in held(wh) : e.fire_at <= now}
        /\ held(drain_due(wh, now)) = {e \in held(wh) : ~ (e.fire_at <= now)}
        /\ \A s \in Places :
               At(drain_due(wh, now), s) = {e \in At(wh, s) : ~ (e.fire_at <= now)}
    BY <1>1, <2>1, DrainOK
  <2> QED  BY Zenon, <2>2
<1>4. new = [sv EXCEPT !.last_advance = now, !.wheel = nw, !.armed = arm]
  BY Zenon DEF advance
<1>5. arm \in [TimerPids -> Tokens]
  <2>1. NoToken \in Tokens
    BY Zenon DEF NoToken, Tokens, NoInstant, Places
  <2> QED  BY Zenon, <1>1, <2>1
<1>6. \A q \in TimerPids : arm[q] = IF q \in promoted(gone) THEN NoToken ELSE sv.armed[q]
  BY Zenon
<1>7. advanced(sv, now) = gone
  BY Zenon DEF advanced
<1> HIDE DEF new, wh, nw, gone, arm
<1>8. /\ new \in Services /\ new.wheel = nw /\ new.armed = arm /\ new.last_advance = now
  <2>1. nw \in Wheels
    BY Zenon, <1>3 DEF WheelOK
  <2> QED  BY Zenon, <1>1, <1>4, <1>5, <2>1 DEF Services
<1>9. ASSUME NEW q \in TimerPids PROVE Names(nw, arm[q], DeadlinesOf(nw, q))
  <2> DEFINE D == DeadlinesOf(wh, q)
  <2>0. Names(wh, sv.armed[q], D) /\ sv.armed[q] \in Tokens
    BY Zenon, <1>1
  <2>1. CASE q \in promoted(gone)
    <3>1. PICK d \in D : d.fire_at <= now
      BY Zenon, <1>3, <2>1 DEF promoted, DeadlinesOf
    <3>2. D = {d}
      <4> HIDE DEF D
      <4> QED  BY Zenon, <2>0, <3>1 DEF Names
    <3>3. DeadlinesOf(nw, q) = {}
      BY Zenon, <1>3, <3>1, <3>2 DEF DeadlinesOf
    <3> QED  BY Zenon, <1>6, <2>1, <3>3 DEF Names
  <2>2. CASE q \notin promoted(gone)
    <3>1. \A d \in D : ~ (d.fire_at <= now)
      BY Zenon, <1>3, <2>2 DEF promoted, DeadlinesOf
    <3>2. DeadlinesOf(nw, q) = D
      BY Zenon, <1>3, <3>1 DEF DeadlinesOf
    <3>3. \A g \in D : \A s \in Places : g \in At(wh, s) => g \in At(nw, s)
      BY Zenon, <1>3, <3>1
    <3> HIDE DEF D
    <3> QED  BY Zenon, <1>6, <2>0, <2>2, <3>2, <3>3, NamesKept
  <2> QED  BY Zenon, <2>1, <2>2
<1> QED  BY Zenon, <1>2, <1>3, <1>7, <1>8, <1>9 DEF ServiceOK, new, wh

\* Arming the grace deadline touches nothing else.
LEMMA GraceOK ==
    ASSUME NEW sv, ServiceOK(sv), NEW t \in Nat
    PROVE  /\ ServiceOK(arm_grace(sv, t)) /\ arm_grace(sv, t).wheel = sv.wheel
           /\ arm_grace(sv, t).last_advance = sv.last_advance
<1> DEFINE new == arm_grace(sv, t)
           gr == IF sv.grace_deadline = NoInstant THEN t ELSE sv.grace_deadline
<1>1. sv \in Services /\ gr \in Nat \cup {NoInstant}
  BY Zenon, ServiceFields
<1>2. new = [sv EXCEPT !.grace_deadline = gr]
  BY Zenon DEF arm_grace
<1> HIDE DEF new, gr
<1>3. /\ new \in Services /\ new.wheel = sv.wheel /\ new.armed = sv.armed
      /\ new.last_advance = sv.last_advance
  BY Zenon, <1>1, <1>2 DEF Services
<1> QED  BY Zenon, <1>3 DEF ServiceOK, new


------------------------------------------------------------------------------
\* The inductive invariant of the host's timers: the service is sound, the gate
\* is what it was refreshed to, and a worker has a batch only while it applies it.
TimersInv ==
    /\ ServiceOK(service)
    /\ gate = next_fire(service)
    /\ clock \in Instants /\ seen \in [Workers -> Instants]
    /\ batch \in [Workers -> SUBSET Entries]
    /\ \A w \in Workers : pc[w] # "apply" => batch[w] = {}
    /\ pc \in [Workers -> {"top", "grace", "gate", "advance", "apply"}]

\* An empty service is sound.
LEMMA NewServiceOK ==
    /\ ServiceOK(NewService) /\ held(NewService.wheel) = {} /\ NewService.wheel.seq = 0
    /\ NewService.last_advance = NoInstant /\ next_fire(NewService) = NoInstant
<1> DEFINE wh == NewWheel
<1>1. /\ wh \in Wheels /\ wh.base = NoInstant /\ wh.cursor_tick = 0 /\ wh.seq = 0
      /\ wh.pending = 0 /\ wh.overflow = {} /\ wh.slots = [i \in Buckets |-> {}]
  <2>1. [i \in Buckets |-> {}] \in [Buckets -> SUBSET Entries]
    BY Zenon
  <2>2. wh \in Wheels
    BY <2>1 DEF NewWheel, Wheels
  <2> QED  BY Zenon, <2>2 DEF NewWheel
<1>2. NewService.wheel = wh /\ NewService.last_advance = NoInstant
      /\ NewService.grace_deadline = NoInstant
      /\ NewService.armed = [p \in TimerPids |-> NoToken]
  BY Zenon DEF NewService
<1>3. NewService \in Services
  BY Zenon, <1>1, <1>2 DEF NewService, Services, Tokens, NoToken, NoInstant, Places
<1> HIDE DEF wh
<1>4. held(wh) = {} /\ \A s \in Places : At(wh, s) = {}
  BY <1>1 DEF held, At, Places
<1>5. WheelOK(wh)
  BY Zenon, <1>1, <1>4, FS_EmptySet DEF WheelOK, Placed, Summed, Filed
<1>6. Behind(wh, NoInstant)
  BY Zenon, <1>1 DEF Behind
<1>7. \A p \in TimerPids : Names(wh, NewService.armed[p], DeadlinesOf(wh, p))
  BY Zenon, <1>2, <1>4 DEF Names, DeadlinesOf
<1>8. next_fire(NewService) = NoInstant
  BY Zenon, <1>1, <1>2 DEF next_fire, soonest_bound
<1> QED  BY <1>1, <1>2, <1>3, <1>4, <1>5, <1>6, <1>7, <1>8 DEF ServiceOK

\* The host starts sound.
LEMMA TimersInit == Init => TimersInv
<1> SUFFICES ASSUME Init PROVE TimersInv
  BY Zenon
<1>1. 0 \in Instants
  BY NativeTimersAssumption DEF Instants
<1> QED  BY Zenon, <1>1, NewServiceOK DEF Init, TimersInv

\* A sound service's next-fire instant is never late.
LEMMA NextFireBound ==
    ASSUME NEW sv, ServiceOK(sv)
    PROVE  /\ \A e \in held(sv.wheel) : next_fire(sv) # NoInstant /\ next_fire(sv) <= e.fire_at
           /\ sv.grace_deadline # NoInstant =>
                  next_fire(sv) # NoInstant /\ next_fire(sv) <= sv.grace_deadline
<1>1. /\ WheelOK(sv.wheel) /\ sv.wheel.soonest \in Nat \cup {NoInstant}
      /\ sv.grace_deadline \in Nat \cup {NoInstant}
      /\ \A e \in held(sv.wheel) : e.fire_at \in Nat
  BY ServiceFields, WheelFields DEF Entries
<1>2. \A e \in held(sv.wheel) : /\ soonest_bound(sv.wheel) = sv.wheel.soonest
                                /\ sv.wheel.soonest # NoInstant /\ sv.wheel.soonest <= e.fire_at
  <2>1. held(sv.wheel) # {} => sv.wheel.pending # 0
    BY Zenon, <1>1, FS_EmptySet DEF WheelOK, Summed
  <2> QED  BY Zenon, <1>1, <2>1 DEF soonest_bound, WheelOK, Summed
<1>3. soonest_bound(sv.wheel) \in Nat \cup {NoInstant}
  BY Zenon, <1>1 DEF soonest_bound
<1> QED  BY <1>1, <1>2, <1>3 DEF next_fire, NoInstant


\* A step of the host as the abstract timers see it.
DeadlinesStep == [Abstract!Next]_(Abstract!vars)

\* The abstract state is that of the service and the batches.
AbstractKept ==
    /\ held(service'.wheel) = held(service.wheel) /\ service'.wheel.seq = service.wheel.seq
    /\ service'.last_advance = service.last_advance /\ batch' = batch

\* Keeping the abstract state is a stutter.
LEMMA StutterStep ==
    ASSUME AbstractKept
    PROVE  DeadlinesStep
BY Zenon DEF AbstractKept, DeadlinesStep, Abstract!vars, Pending, Wheel

\* Arming, as the abstract timers see it.
LEMMA ArmStep ==
    ASSUME TimersInv, NEW p \in TimerPids, NEW t \in Instants, Arm(p, t)
    PROVE  TimersInv' /\ DeadlinesStep
<1> DEFINE e == Entry(t, "Promote", p, service.wheel.seq + 1)
<1>1. t \in Nat /\ ServiceOK(service)
  BY NativeTimersAssumption DEF Instants, TimersInv
<1>2. /\ ServiceOK(service') /\ service'.last_advance = service.last_advance
      /\ service'.wheel.seq = service.wheel.seq + 1
      /\ held(service'.wheel) = (held(service.wheel) \ DeadlinesOf(service.wheel, p)) \cup {e}
  BY Zenon, <1>1, ArmOK DEF Arm, with
<1>3. TimersInv'
  BY Zenon, <1>2 DEF TimersInv, Arm, with
<1>4. Abstract!Arm(p, t)
  BY Zenon, <1>2 DEF Abstract!Arm, Abstract!Ask, Abstract!Deadline, DeadlinesOf, Entry, Pending, Wheel,
              Arm
<1> QED  BY Zenon, <1>3, <1>4 DEF DeadlinesStep, Abstract!Next

\* koja_rt_send_after, as the abstract timers see it.
LEMMA SendStep ==
    ASSUME TimersInv, NEW p \in TimerPids, NEW t \in Instants, koja_rt_send_after(p, t)
    PROVE  TimersInv' /\ DeadlinesStep
<1> DEFINE e == Entry(t, "Deliver", p, service.wheel.seq + 1)
<1>1. t \in Nat /\ ServiceOK(service)
  BY NativeTimersAssumption DEF Instants, TimersInv
<1>2. /\ ServiceOK(service') /\ service'.last_advance = service.last_advance
      /\ service'.wheel.seq = service.wheel.seq + 1
      /\ held(service'.wheel) = held(service.wheel) \cup {e}
  BY Zenon, <1>1, DeliverOK DEF koja_rt_send_after, with
<1>3. TimersInv'
  BY Zenon, <1>2 DEF TimersInv, koja_rt_send_after, with
<1>4. Abstract!SendAfter(p, t)
  BY Zenon, <1>2 DEF Abstract!SendAfter, Abstract!Ask, Entry, Pending, Wheel, koja_rt_send_after
<1> QED  BY Zenon, <1>3, <1>4 DEF DeadlinesStep, Abstract!Next

\* Cancelling, as the abstract timers see it.
LEMMA CancelStep ==
    ASSUME TimersInv, NEW p \in TimerPids, Cancel(p)
    PROVE  TimersInv' /\ DeadlinesStep
<1>1. ServiceOK(service)
  BY Zenon DEF TimersInv
<1>2. /\ ServiceOK(service') /\ service'.last_advance = service.last_advance
      /\ service'.wheel.seq = service.wheel.seq
      /\ held(service'.wheel) = held(service.wheel) \ DeadlinesOf(service.wheel, p)
  BY Zenon, <1>1, CancelDeadlineOK DEF Cancel, with
<1>3. TimersInv'
  BY Zenon, <1>2 DEF TimersInv, Cancel, with
<1>4. Abstract!Cancel(p)
  BY Zenon, <1>2 DEF Abstract!Cancel, Abstract!Deadline, DeadlinesOf, Pending, Wheel, Cancel
<1> QED  BY Zenon, <1>3, <1>4 DEF DeadlinesStep, Abstract!Next

\* A drain serves the instant its worker read, or finds that somebody served a
\* later one, which changes nothing.
LEMMA DrainStep ==
    ASSUME TimersInv, NEW w \in Workers, drain(w)
    PROVE  TimersInv' /\ DeadlinesStep
<1> DEFINE now == seen[w]
<1>1. now \in Instants /\ now \in Nat /\ ServiceOK(service) /\ batch[w] = {}
  BY NativeTimersAssumption DEF Instants, TimersInv, drain
<1>2. /\ service' = advance(service, now) /\ gate' = next_fire(service')
      /\ batch' = [batch EXCEPT ![w] = advanced(service, now)]
  BY Zenon DEF drain, with
<1>3. clock' \in Instants /\ seen' \in [Workers -> Instants]
      /\ pc' \in [Workers -> {"top", "grace", "gate", "advance", "apply"}]
  BY NativeTimersAssumption DEF TimersInv, drain, forget, goto, Instants
<1>4. \A v \in Workers : pc'[v] # "apply" => v # w /\ pc[v] # "apply"
  BY Zenon DEF TimersInv, drain, goto
<1>5. CASE stale(service, now)
  <2>1. service' = service /\ advanced(service, now) = {}
    BY Zenon, <1>2, <1>5 DEF advance, advanced
  <2>2. batch' = batch
    BY Zenon, <1>1, <1>2, <2>1 DEF TimersInv
  <2>3. TimersInv'
    BY Zenon, <1>1, <1>2, <1>3, <1>4, <2>1, <2>2 DEF TimersInv
  <2> QED  BY Zenon, <2>1, <2>2, <2>3, StutterStep DEF AbstractKept
<1>6. CASE ~ stale(service, now)
  <2> DEFINE due_now == {e \in held(service.wheel) : e.fire_at <= now}
  <2>1. /\ ServiceOK(service') /\ service'.last_advance = now /\ service.last_advance < now
        /\ service'.wheel.seq = service.wheel.seq
        /\ held(service'.wheel) = {e \in held(service.wheel) : ~ (e.fire_at <= now)}
        /\ advanced(service, now) = due_now
    <3> HIDE DEF now
    <3> QED  BY <1>1, <1>2, <1>6, AdvanceOK
  <2>2. \A e \in held(service.wheel) : e \in Entries /\ e.fire_at \in Nat
    BY <1>1, ServiceFields, WheelFields DEF Entries
  <2>3. batch' \in [Workers -> SUBSET Entries]
        /\ \A v \in Workers : v # w => batch'[v] = batch[v]
    <3>1. due_now \in SUBSET Entries
      BY Zenon, <2>2
    <3> HIDE DEF due_now
    <3> QED  BY Zenon, <1>2, <2>1, <3>1 DEF TimersInv
  <2>4. TimersInv'
    BY <1>2, <1>3, <1>4, <2>1, <2>3 DEF TimersInv
  <2>5. held(service'.wheel) = {e \in held(service.wheel) : e.fire_at > now}
    BY <1>1, <2>1, <2>2
  <2>6. now > service.last_advance
    BY Zenon, <1>1, <2>1, ServiceFields
  <2> HIDE DEF now
  <2>7. Abstract!Serve(w, now)
    BY Zenon, <1>1, <1>2, <2>1, <2>5, <2>6 DEF Abstract!Serve, Pending, Wheel
  <2> QED  BY Zenon, <1>1, <2>4, <2>7 DEF DeadlinesStep, Abstract!Next
<1> QED  BY Zenon, <1>5, <1>6

\* Applying an entry, as the abstract timers see it.
LEMMA ApplyStep ==
    ASSUME TimersInv, NEW w \in Workers, apply_due(w)
    PROVE  TimersInv' /\ DeadlinesStep
<1>1. PICK e \in batch[w] : /\ \A d \in batch[w] \ {e} : fires_before(e, d)
                            /\ batch' = [batch EXCEPT ![w] = @ \ {e}]
  BY Zenon DEF apply_due
<1>2. service' = service /\ gate' = gate /\ clock' = clock /\ seen' = seen /\ pc' = pc
      /\ pc[w] = "apply"
  BY Zenon DEF apply_due
<1>3. TimersInv'
  <2>1. batch' \in [Workers -> SUBSET Entries] /\ \A v \in Workers : v # w => batch'[v] = batch[v]
    BY Zenon, <1>1 DEF TimersInv
  <2> QED  BY Zenon, <1>2, <2>1 DEF TimersInv
<1>4. Abstract!Apply(w)
  BY Zenon, <1>1, <1>2 DEF Abstract!Apply, fires_before, Pending, Wheel
<1> QED  BY Zenon, <1>3, <1>4 DEF DeadlinesStep, Abstract!Next

\* The steps that touch no timer.
LEMMA OtherStep ==
    ASSUME TimersInv,
           \/ \E w \in Workers : poll_signals(w) \/ arm_drain_grace(w) \/ due(w) \/ applied(w)
           \/ Tick \/ SigTerm \/ UNCHANGED vars
    PROVE  TimersInv' /\ DeadlinesStep
<1>1. ASSUME NEW w \in Workers, poll_signals(w) PROVE TimersInv' /\ AbstractKept
  BY <1>1 DEF poll_signals, goto, read_clock, TimersInv, AbstractKept
<1>2. ASSUME NEW w \in Workers, arm_drain_grace(w) PROVE TimersInv' /\ AbstractKept
  <2>1. clock + GRACE \in Nat /\ ServiceOK(service)
    BY NativeTimersAssumption DEF TimersInv, Instants
  <2>2. /\ ServiceOK(service') /\ service'.wheel = service.wheel
        /\ service'.last_advance = service.last_advance
    BY Zenon, <1>2, <2>1, GraceOK DEF arm_drain_grace, with
  <2> QED  BY Zenon, <1>2, <2>2 DEF arm_drain_grace, goto, read_clock, with, TimersInv, AbstractKept
<1>3. ASSUME NEW w \in Workers, due(w) PROVE TimersInv' /\ AbstractKept
  <2>1. 0 \in Instants
    BY NativeTimersAssumption DEF Instants
  <2> QED  BY <1>3, <2>1 DEF due, goto, forget, TimersInv, AbstractKept
<1>4. ASSUME NEW w \in Workers, applied(w) PROVE TimersInv' /\ AbstractKept
  BY Zenon, <1>4 DEF applied, goto, TimersInv, AbstractKept
<1>5. ASSUME Tick PROVE TimersInv' /\ AbstractKept
  BY <1>5, NativeTimersAssumption DEF Tick, Instants, TimersInv, AbstractKept
<1>6. ASSUME SigTerm PROVE TimersInv' /\ AbstractKept
  BY Zenon, <1>6 DEF SigTerm, TimersInv, AbstractKept
<1>7. ASSUME UNCHANGED vars PROVE TimersInv' /\ AbstractKept
  BY Zenon, <1>7 DEF vars, TimersInv, AbstractKept
<1> QED  BY <1>1, <1>2, <1>3, <1>4, <1>5, <1>6, <1>7, StutterStep

\* Every step keeps the invariant and is one of the abstract timers or none.
LEMMA TimersNext == TimersInv /\ [Next]_vars => TimersInv' /\ DeadlinesStep
<1> SUFFICES ASSUME TimersInv, [Next]_vars PROVE TimersInv' /\ DeadlinesStep
  BY Zenon
<1> QED
  BY Zenon, ArmStep, SendStep, CancelStep, DrainStep, ApplyStep, OtherStep
     DEF Next, Process, Worker

\* "May be stale-low after a cancel, never stale-high": the gate that workers
\* read without the lock is never later than a pending entry or the armed grace
\* deadline, for wheels of any size.
THEOREM GateNeverLateHolds == Spec => []GateNeverLate
<1>1. TimersInv => GateNeverLate
  BY Zenon, NextFireBound DEF TimersInv, GateNeverLate, Pending, Wheel
<1> QED  BY <1>1, TimersInit, TimersNext, PTL DEF Spec

\* The timing wheel with its overflow map, bitmap, cursor and cached bound,
\* advanced by workers whose clock readings are of any age, is a plain set of
\* deadlines: no entry is lost, fired early, fired twice or kept past its drain.
THEOREM DeadlinesHold == Spec => ImplementsDeadlines
<1>1. Init => Abstract!Init
  BY Zenon, NewServiceOK DEF Init, Abstract!Init, Pending, Wheel, NoInstant
<1> QED
  BY <1>1, TimersInit, TimersNext, PTL
     DEF Spec, ImplementsDeadlines, Abstract!Spec, DeadlinesStep

==============================================================================
