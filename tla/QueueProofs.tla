---------------------------- MODULE QueueProofs ----------------------------
(***************************************************************************)
(* Proofs about the two run queues.                                        *)
(*                                                                         *)
(* The native one and the workers that sleep when it is empty (IdlePark),  *)
(* for any number of workers, timers and pieces of work: the last worker   *)
(* to lie down saw the injector empty and sized its wait to the soonest    *)
(* timer, so that no work and no timer is slept through.                   *)
(*                                                                         *)
(* The interpreter's (ReadyQueue), for every threshold, set of PIDs and    *)
(* queue length: the aging bound.                                          *)
(***************************************************************************)
EXTENDS IdlePark, ReadyQueue, FiniteSetTheorems, TLAPS

Labels == {"top", "find", "run", "idle", "lock", "asleep", "woken", "after", "nudge",
           "broadcast", "done"}

IdleTypeOK ==
    /\ clock \in Nat /\ timers \in SUBSET Nat /\ IsFiniteSet(timers)
    /\ injector \in Nat /\ local \in [Workers -> Nat] /\ owed \in Nat
    /\ sleepers \in Int /\ pc \in [Workers -> Labels]
    /\ read \in [Workers -> Nat] /\ slept \in [Workers -> Nat] /\ until \in [Workers -> Int]

Sleeping == {w \in Workers : pc[w] \in {"asleep", "woken"}}

\* IDLE_PARK.sleepers is the number of workers inside their wait.
Counted == sleepers = Cardinality(Sleeping)

\* A worker that found nothing has an empty deque until it looks again.
EmptyHanded == \A w \in Workers : pc[w] \in {"idle", "lock", "asleep"} => local[w] = 0

IdleInv == IdleTypeOK /\ Counted /\ EmptyHanded /\ NoWorkWhileAllSleep /\ NoOversleep

\* A finite set of integers has a least element, and `Min' is it.
LEMMA MinFinite ==
    ASSUME NEW S \in SUBSET Int, IsFiniteSet(S), S # {}
    PROVE  Min(S) \in S /\ \A t \in S : Min(S) <= t
<1> DEFINE below(x) == {y \in S : y <= x}
           T == {below(x) : x \in S}
<1>1. T \subseteq FiniteSubsetsOf(S) /\ T # {}
  <2>1. ASSUME NEW x \in S PROVE below(x) \in SUBSET S /\ IsFiniteSet(below(x))
    BY Zenon, FS_Subset
  <2>2. \A B \in T : B \in SUBSET S /\ IsFiniteSet(B)
    BY Zenon, <2>1
  <2>3. T # {}
    BY Zenon
  <2> HIDE DEF T
  <2> QED  BY Zenon, <2>2, <2>3 DEF FiniteSubsetsOf
<1>2. PICK B \in T : \A C \in T : ~ (<<C, B>> \in StrictSubsetOrdering(S))
  <2> HIDE DEF T
  <2> QED  BY Zenon, <1>1, FS_StrictSubsetOrderingWellFounded, WFMin
<1>3. PICK x \in S : B = below(x)
  BY Zenon
<1>4. ASSUME NEW y \in S, y < x PROVE FALSE
  <2>1. below(y) \in T
    BY Zenon
  <2>0. x \in Int /\ y \in Int /\ \A z \in S : z \in Int /\ (z <= y => z <= x)
    BY <1>4
  <2>2. below(y) \subseteq below(x) /\ x \in below(x) /\ x \notin below(y)
    <3>1. ~ (x <= y) /\ x <= x
      BY <1>4, <2>0
    <3> QED  BY Zenon, <2>0, <3>1
  <2> HIDE DEF T, below
  <2>3. below(y) \in SUBSET S /\ below(x) \in SUBSET S
    BY Zenon, <1>1, <1>3, <2>1 DEF FiniteSubsetsOf
  <2> QED  BY Zenon, <1>2, <1>3, <2>1, <2>2, <2>3 DEF StrictSubsetOrdering
<1>5. \A y \in S : x <= y
  BY <1>4
<1> QED  BY Zenon, <1>5 DEF Min

\* The larger of two integers.
LEMMA MaxPair ==
    ASSUME NEW a \in Int, NEW b \in Int
    PROVE  Max({a, b}) = IF a >= b THEN a ELSE b
<1>1. PICK m \in {a, b} : m >= a /\ m >= b
  OBVIOUS
<1> QED  BY <1>1 DEF Max

\* The smallest of three integers.
LEMMA MinTriple ==
    ASSUME NEW a \in Int, NEW b \in Int, NEW c \in Int
    PROVE  Min({a, b, c}) \in {a, b, c}
<1>1. PICK m \in {a, b, c} : m <= a /\ m <= b /\ m <= c
  OBVIOUS
<1> QED  BY Zenon, <1>1 DEF Min

\* The sets of workers that are counted are finite.
LEMMA SleepingFinite == IsFiniteSet(Sleeping) /\ IsFiniteSet(Waiting)
BY IdleAssumption, FS_Subset DEF Sleeping, Waiting

\* A wait is never longer than the soonest timer was away.
LEMMA TimeoutType ==
    ASSUME IdleTypeOK, NEW now \in Nat, NEW idle_park \in Nat
    PROVE  /\ timeout(now, idle_park) \in Int
           /\ \A t \in timers : timeout(now, idle_park) <= Max({t - now, 0})
<1>1. CASE timers = {}
  BY <1>1 DEF timeout
<1>2. CASE timers # {}
  <2>1. Min(timers) \in timers /\ Min(timers) \in Nat /\ \A t \in timers : Min(timers) <= t
    <3>1. timers \in SUBSET Int /\ timers \in SUBSET Nat /\ IsFiniteSet(timers)
      BY DEF IdleTypeOK
    <3> QED  BY Zenon, <1>2, <3>1, MinFinite
  <2>2. timeout(now, idle_park) = IF Min(timers) - now >= 0 THEN Min(timers) - now ELSE 0
    BY <1>2, <2>1, MaxPair DEF timeout
  <2>3. \A t \in timers : t \in Nat /\ Max({t - now, 0}) = IF t - now >= 0 THEN t - now ELSE 0
    BY MaxPair DEF IdleTypeOK
  <2> QED  BY <2>1, <2>2, <2>3
<1> QED  BY Zenon, <1>1, <1>2

\* While everybody is asleep, a notification wakes somebody.
LEMMA SomeoneNotified ==
    ASSUME IdleTypeOK, Counted, AllAsleep, NEW count \in Nat, count > 0,
           NEW woken \in notify_workers(count)
    PROVE  woken # {}
<1>1. Waiting = Workers /\ Sleeping = Workers
  BY Zenon DEF AllAsleep, Waiting, Sleeping
<1>2. Cardinality(Workers) \in Nat /\ Cardinality(Workers) > 0
  BY IdleAssumption, FS_CardinalityType, FS_EmptySet
<1>3. Min({count, sleepers, Cardinality(Waiting)}) > 0
  BY <1>1, <1>2, MinTriple DEF Counted
<1>4. Cardinality(woken) > 0
  BY Zenon, <1>3 DEF notify_workers, kSubset
<1> QED  BY <1>4, FS_EmptySet

\* Types are kept, and so is the finiteness of the pending timers.
LEMMA TypeStep ==
    ASSUME IdleTypeOK, [Next]_vars
    PROVE  IdleTypeOK'
<1>1. ASSUME NEW w \in Workers, top(w) PROVE IdleTypeOK'
  <2> DEFINE fired == {t \in timers : t <= clock}
  <2>1. IsFiniteSet(fired) /\ IsFiniteSet(timers \ fired) /\ timers \ fired \in SUBSET Nat
    BY Zenon, FS_Subset DEF IdleTypeOK
  <2>2. Cardinality(fired) \in Nat
    BY Zenon, <2>1, FS_CardinalityType
  <2>3. \/ UNCHANGED <<timers, local>>
        \/ timers' = timers \ fired /\ local' = [local EXCEPT ![w] = local[w] + Cardinality(fired)]
    BY Zenon, <1>1 DEF top
  <2>4. pc' \in [Workers -> Labels]
    BY Zenon, <1>1 DEF IdleTypeOK, Labels, top, goto
  <2> HIDE DEF fired
  <2>5. timers' \in SUBSET Nat /\ IsFiniteSet(timers')
    BY Zenon, <2>1, <2>3 DEF IdleTypeOK
  <2>6. local' \in [Workers -> Nat]
    <3>1. \E n \in Nat : local' = local \/ local' = [local EXCEPT ![w] = local[w] + n]
      BY Zenon, <2>2, <2>3
    <3> QED  BY <3>1 DEF IdleTypeOK
  <2> QED  BY Zenon, <1>1, <2>4, <2>5, <2>6 DEF IdleTypeOK, top
<1>2. ASSUME NEW w \in Workers, find_work(w) PROVE IdleTypeOK'
  BY <1>2 DEF IdleTypeOK, Labels, find_work, goto
<1>3. ASSUME NEW w \in Workers, quantum(w) PROVE IdleTypeOK'
  BY Zenon, <1>3 DEF IdleTypeOK, Labels, quantum, goto
<1>4. ASSUME NEW w \in Workers, after(w) PROVE IdleTypeOK'
  BY Zenon, <1>4 DEF IdleTypeOK, Labels, after, goto
<1>5. ASSUME NEW w \in Workers, park_for_work(w) PROVE IdleTypeOK'
  BY Zenon, <1>5 DEF IdleTypeOK, Labels, park_for_work, goto
<1>6. ASSUME NEW w \in Workers, lock(w) PROVE IdleTypeOK'
  <2>1. timeout(read[w], IDLE_ACTIVE) \in Int /\ timeout(read[w], IDLE_QUIET) \in Int
    BY Zenon, TimeoutType, IdleAssumption DEF IdleTypeOK
  <2> QED  BY <1>6, <2>1 DEF IdleTypeOK, Labels, lock, goto
<1>7. ASSUME NEW w \in Workers, wake_up(w) PROVE IdleTypeOK'
  <2>1. w \in Sleeping /\ Cardinality(Sleeping) \in Nat
    BY Zenon, <1>7, SleepingFinite, FS_CardinalityType DEF Sleeping, wake_up
  <2> QED  BY <1>7, <2>1 DEF IdleTypeOK, Labels, wake_up, goto
<1>8. ASSUME NEW w \in Workers, notify_all_workers(w, "nudge", "after") PROVE IdleTypeOK'
  BY Zenon, <1>8 DEF IdleTypeOK, Labels, notify_all_workers, goto_waking
<1>9. ASSUME NEW w \in Workers, notify_all_workers(w, "broadcast", "done") PROVE IdleTypeOK'
  BY Zenon, <1>9 DEF IdleTypeOK, Labels, notify_all_workers, goto_waking
<1>10. ASSUME NEW w \in Workers, route_wake(w) PROVE IdleTypeOK'
  BY <1>10 DEF IdleTypeOK, Labels, route_wake
<1>11. ASSUME NEW w \in Workers, main_exits(w) PROVE IdleTypeOK'
  BY Zenon, <1>11 DEF IdleTypeOK, Labels, main_exits, goto
<1>12. ASSUME NEW w \in Workers, NEW t \in clock .. MaxClock, arm(w, t) PROVE IdleTypeOK'
  <2>1. t \in Nat /\ IsFiniteSet(timers \cup {t})
    BY FS_AddElement, IdleAssumption DEF IdleTypeOK
  <2> QED  BY Zenon, <1>12, <2>1 DEF IdleTypeOK, Labels, arm, goto
<1>13. ASSUME NEW w \in Workers, NEW t \in clock .. MaxClock, koja_rt_send_after(w, t) PROVE IdleTypeOK'
  <2>1. t \in Nat /\ IsFiniteSet(timers \cup {t})
    BY FS_AddElement, IdleAssumption DEF IdleTypeOK
  <2> QED  BY Zenon, <1>13, <2>1 DEF IdleTypeOK, Labels, koja_rt_send_after, goto_waking
<1>14. ASSUME NEW w \in Workers, times_out(w) PROVE IdleTypeOK'
  BY Zenon, <1>14 DEF IdleTypeOK, Labels, times_out, goto
<1>15. CASE apply_wakers
  BY <1>15 DEF IdleTypeOK, Labels, apply_wakers
<1>16. CASE reactor_notifies
  BY Zenon, <1>16 DEF IdleTypeOK, Labels, reactor_notifies
<1>17. CASE Tick
  BY <1>17 DEF IdleTypeOK, Labels, Tick
<1>18. CASE UNCHANGED vars
  BY Zenon, <1>18 DEF IdleTypeOK, Labels, vars
<1> QED  BY Zenon, <1>1, <1>2, <1>3, <1>4, <1>5, <1>6, <1>7, <1>8, <1>9, <1>10, <1>11, <1>12,
            <1>13, <1>14, <1>15, <1>16, <1>17, <1>18 DEF Next, Runtime, Body

\* `sleepers' counts the workers that wait or were woken and have not run yet.
LEMMA CountStep ==
    ASSUME IdleTypeOK, Counted, [Next]_vars
    PROVE  Counted'
<1>1. ASSUME NEW w \in Workers, top(w) PROVE Counted'
  <2>1. Sleeping' = Sleeping /\ sleepers' = sleepers
    BY Zenon, <1>1 DEF IdleTypeOK, Sleeping, top, goto
  <2> QED  BY Zenon, <2>1 DEF Counted
<1>2. ASSUME NEW w \in Workers, find_work(w) PROVE Counted'
  <2>1. Sleeping' = Sleeping /\ sleepers' = sleepers
    BY Zenon, <1>2 DEF IdleTypeOK, Sleeping, find_work, goto
  <2> QED  BY Zenon, <2>1 DEF Counted
<1>3. ASSUME NEW w \in Workers, quantum(w) PROVE Counted'
  <2>1. Sleeping' = Sleeping /\ sleepers' = sleepers
    BY Zenon, <1>3 DEF IdleTypeOK, Sleeping, quantum, goto
  <2> QED  BY Zenon, <2>1 DEF Counted
<1>4. ASSUME NEW w \in Workers, after(w) PROVE Counted'
  <2>1. Sleeping' = Sleeping /\ sleepers' = sleepers
    BY Zenon, <1>4 DEF IdleTypeOK, Sleeping, after, goto
  <2> QED  BY Zenon, <2>1 DEF Counted
<1>5. ASSUME NEW w \in Workers, park_for_work(w) PROVE Counted'
  <2>1. Sleeping' = Sleeping /\ sleepers' = sleepers
    BY Zenon, <1>5 DEF IdleTypeOK, Sleeping, park_for_work, goto
  <2> QED  BY Zenon, <2>1 DEF Counted
<1>6. ASSUME NEW w \in Workers, lock(w) PROVE Counted'
  <2>1. CASE UNCHANGED sleepers /\ goto(w, "top")
    <3>1. Sleeping' = Sleeping
      BY Zenon, <1>6, <2>1 DEF IdleTypeOK, Sleeping, lock, goto
    <3> QED  BY Zenon, <2>1, <3>1 DEF Counted
  <2>2. CASE sleepers' = sleepers + 1 /\ goto(w, "asleep")
    <3>1. Sleeping' = Sleeping \cup {w} /\ w \notin Sleeping
      BY Zenon, <1>6, <2>2 DEF IdleTypeOK, Sleeping, lock, goto
    <3> QED  BY Zenon, <2>2, <3>1, SleepingFinite, FS_AddElement DEF Counted
  <2> QED  BY Zenon, <1>6, <2>1, <2>2 DEF lock
<1>7. ASSUME NEW w \in Workers, wake_up(w) PROVE Counted'
  <2>1. Sleeping' = Sleeping \ {w} /\ w \in Sleeping /\ sleepers' = sleepers - 1
    BY Zenon, <1>7 DEF IdleTypeOK, Sleeping, wake_up, goto
  <2> QED  BY Zenon, <2>1, SleepingFinite, FS_RemoveElement DEF Counted
<1>8. ASSUME NEW w \in Workers, notify_all_workers(w, "nudge", "after") PROVE Counted'
  <2>1. Sleeping' = Sleeping /\ sleepers' = sleepers
    BY Zenon, <1>8 DEF IdleTypeOK, Sleeping, Waiting, notify_all_workers, goto_waking
  <2> QED  BY Zenon, <2>1 DEF Counted
<1>9. ASSUME NEW w \in Workers, notify_all_workers(w, "broadcast", "done") PROVE Counted'
  <2>1. Sleeping' = Sleeping /\ sleepers' = sleepers
    BY Zenon, <1>9 DEF IdleTypeOK, Sleeping, Waiting, notify_all_workers, goto_waking
  <2> QED  BY Zenon, <2>1 DEF Counted
<1>10. ASSUME NEW w \in Workers, route_wake(w) PROVE Counted'
  <2>1. Sleeping' = Sleeping /\ sleepers' = sleepers
    BY Zenon, <1>10 DEF IdleTypeOK, Sleeping, route_wake
  <2> QED  BY Zenon, <2>1 DEF Counted
<1>11. ASSUME NEW w \in Workers, main_exits(w) PROVE Counted'
  <2>1. Sleeping' = Sleeping /\ sleepers' = sleepers
    BY Zenon, <1>11 DEF IdleTypeOK, Sleeping, main_exits, goto
  <2> QED  BY Zenon, <2>1 DEF Counted
<1>12. ASSUME NEW w \in Workers, NEW t \in clock .. MaxClock, arm(w, t) PROVE Counted'
  <2>1. Sleeping' = Sleeping /\ sleepers' = sleepers
    BY Zenon, <1>12 DEF IdleTypeOK, Sleeping, arm, goto
  <2> QED  BY Zenon, <2>1 DEF Counted
<1>13. ASSUME NEW w \in Workers, NEW t \in clock .. MaxClock, koja_rt_send_after(w, t) PROVE Counted'
  <2>1. Sleeping' = Sleeping /\ sleepers' = sleepers
    BY Zenon, <1>13 DEF IdleTypeOK, Sleeping, notify_workers, kSubset, Waiting, koja_rt_send_after, goto_waking
  <2> QED  BY Zenon, <2>1 DEF Counted
<1>14. ASSUME NEW w \in Workers, times_out(w) PROVE Counted'
  <2>1. Sleeping' = Sleeping /\ sleepers' = sleepers
    BY Zenon, <1>14 DEF IdleTypeOK, Sleeping, times_out, goto
  <2> QED  BY Zenon, <2>1 DEF Counted
<1>15. CASE apply_wakers
  <2>1. Sleeping' = Sleeping /\ sleepers' = sleepers
    BY Zenon, <1>15 DEF IdleTypeOK, Sleeping, apply_wakers
  <2> QED  BY Zenon, <2>1 DEF Counted
<1>16. CASE reactor_notifies
  <2>1. Sleeping' = Sleeping /\ sleepers' = sleepers
    BY Zenon, <1>16 DEF IdleTypeOK, Sleeping, notify_workers, kSubset, Waiting, reactor_notifies
  <2> QED  BY Zenon, <2>1 DEF Counted
<1>17. CASE Tick
  <2>1. Sleeping' = Sleeping /\ sleepers' = sleepers
    BY Zenon, <1>17 DEF IdleTypeOK, Sleeping, Tick
  <2> QED  BY Zenon, <2>1 DEF Counted
<1>18. CASE UNCHANGED vars
  <2>1. Sleeping' = Sleeping /\ sleepers' = sleepers
    BY Zenon, <1>18 DEF IdleTypeOK, Sleeping, vars
  <2> QED  BY Zenon, <2>1 DEF Counted
<1> QED  BY Zenon, <1>1, <1>2, <1>3, <1>4, <1>5, <1>6, <1>7, <1>8, <1>9, <1>10, <1>11, <1>12,
            <1>13, <1>14, <1>15, <1>16, <1>17, <1>18 DEF Next, Runtime, Body

\* A worker on its way to sleep keeps an empty deque: only it fills its deque.
LEMMA EmptyStep ==
    ASSUME IdleTypeOK, EmptyHanded, [Next]_vars
    PROVE  EmptyHanded'
<1>1. ASSUME NEW w \in Workers, top(w) PROVE EmptyHanded'
  BY Zenon, <1>1 DEF IdleTypeOK, EmptyHanded, top, goto
<1>2. ASSUME NEW w \in Workers, find_work(w) PROVE EmptyHanded'
  <2>1. ASSUME NEW v \in Workers \ {w}, NEW k \in 1 .. local[v],
               local' = [local EXCEPT ![v] = local[v] - k, ![w] = k - 1], goto(w, "run")
        PROVE  EmptyHanded'
    BY <2>1 DEF IdleTypeOK, EmptyHanded, goto
  <2>2. CASE ~ \E v \in Workers \ {w} : \E k \in 1 .. local[v] :
                  local' = [local EXCEPT ![v] = local[v] - k, ![w] = k - 1]
    BY Zenon, <1>2, <2>2 DEF IdleTypeOK, EmptyHanded, find_work, goto
  <2>3. CASE goto(w, "run")
    BY Zenon, <2>1, <2>2, <2>3
  <2>4. CASE local' = local /\ goto(w, "idle") /\ local[w] = 0
    BY Zenon, <2>4 DEF IdleTypeOK, EmptyHanded, goto
  <2> QED  BY Zenon, <1>2, <2>3, <2>4 DEF find_work
<1>3. ASSUME NEW w \in Workers, quantum(w) PROVE EmptyHanded'
  BY Zenon, <1>3 DEF IdleTypeOK, EmptyHanded, quantum, goto
<1>4. ASSUME NEW w \in Workers, after(w) PROVE EmptyHanded'
  BY Zenon, <1>4 DEF IdleTypeOK, EmptyHanded, after, goto
<1>5. ASSUME NEW w \in Workers, park_for_work(w) PROVE EmptyHanded'
  BY Zenon, <1>5 DEF IdleTypeOK, EmptyHanded, park_for_work, goto
<1>6. ASSUME NEW w \in Workers, lock(w) PROVE EmptyHanded'
  BY Zenon, <1>6 DEF IdleTypeOK, EmptyHanded, lock, goto
<1>7. ASSUME NEW w \in Workers, wake_up(w) PROVE EmptyHanded'
  BY Zenon, <1>7 DEF IdleTypeOK, EmptyHanded, wake_up, goto
<1>8. ASSUME NEW w \in Workers, notify_all_workers(w, "nudge", "after") PROVE EmptyHanded'
  BY Zenon, <1>8 DEF IdleTypeOK, EmptyHanded, notify_all_workers, goto_waking
<1>9. ASSUME NEW w \in Workers, notify_all_workers(w, "broadcast", "done") PROVE EmptyHanded'
  BY Zenon, <1>9 DEF IdleTypeOK, EmptyHanded, notify_all_workers, goto_waking
<1>10. ASSUME NEW w \in Workers, route_wake(w) PROVE EmptyHanded'
  BY Zenon, <1>10 DEF IdleTypeOK, EmptyHanded, route_wake
<1>11. ASSUME NEW w \in Workers, main_exits(w) PROVE EmptyHanded'
  BY Zenon, <1>11 DEF IdleTypeOK, EmptyHanded, main_exits, goto
<1>12. ASSUME NEW w \in Workers, NEW t \in clock .. MaxClock, arm(w, t) PROVE EmptyHanded'
  BY Zenon, <1>12 DEF IdleTypeOK, EmptyHanded, arm, goto
<1>13. ASSUME NEW w \in Workers, NEW t \in clock .. MaxClock, koja_rt_send_after(w, t) PROVE EmptyHanded'
  BY Zenon, <1>13 DEF IdleTypeOK, EmptyHanded, koja_rt_send_after, goto_waking
<1>14. ASSUME NEW w \in Workers, times_out(w) PROVE EmptyHanded'
  BY Zenon, <1>14 DEF IdleTypeOK, EmptyHanded, times_out, goto
<1>15. CASE apply_wakers
  BY Zenon, <1>15 DEF IdleTypeOK, EmptyHanded, apply_wakers
<1>16. CASE reactor_notifies
  BY Zenon, <1>16 DEF IdleTypeOK, EmptyHanded, reactor_notifies
<1>17. CASE Tick
  BY Zenon, <1>17 DEF IdleTypeOK, EmptyHanded, Tick
<1>18. CASE UNCHANGED vars
  BY Zenon, <1>18 DEF IdleTypeOK, EmptyHanded, vars
<1> QED  BY Zenon, <1>1, <1>2, <1>3, <1>4, <1>5, <1>6, <1>7, <1>8, <1>9, <1>10, <1>11, <1>12,
            <1>13, <1>14, <1>15, <1>16, <1>17, <1>18 DEF Next, Runtime, Body

\* Everybody is asleep only after the last worker lies down, or as before.
LEMMA LastStep ==
    ASSUME IdleTypeOK, Counted, AllAsleep', [Next]_vars
    PROVE  (\E v \in Workers : lock(v)) \/ (AllAsleep /\ (apply_wakers \/ Tick \/ UNCHANGED vars))
<1>1. ASSUME NEW w \in Workers, top(w) PROVE FALSE
  BY Zenon, <1>1 DEF IdleTypeOK, AllAsleep, top, goto
<1>2. ASSUME NEW w \in Workers, find_work(w) PROVE FALSE
  BY Zenon, <1>2 DEF IdleTypeOK, AllAsleep, find_work, goto
<1>3. ASSUME NEW w \in Workers, quantum(w) PROVE FALSE
  BY Zenon, <1>3 DEF IdleTypeOK, AllAsleep, quantum, goto
<1>4. ASSUME NEW w \in Workers, after(w) PROVE FALSE
  BY Zenon, <1>4 DEF IdleTypeOK, AllAsleep, after, goto
<1>5. ASSUME NEW w \in Workers, park_for_work(w) PROVE FALSE
  BY Zenon, <1>5 DEF IdleTypeOK, AllAsleep, park_for_work, goto
<1>6. ASSUME NEW w \in Workers, lock(w) PROVE (\E v \in Workers : lock(v)) \/ (AllAsleep /\ (apply_wakers \/ Tick \/ UNCHANGED vars))
  BY Zenon, <1>6
<1>7. ASSUME NEW w \in Workers, wake_up(w) PROVE FALSE
  BY Zenon, <1>7 DEF IdleTypeOK, AllAsleep, wake_up, goto
<1>8. ASSUME NEW w \in Workers, notify_all_workers(w, "nudge", "after") PROVE FALSE
  BY Zenon, <1>8 DEF IdleTypeOK, AllAsleep, notify_all_workers, goto_waking
<1>9. ASSUME NEW w \in Workers, notify_all_workers(w, "broadcast", "done") PROVE FALSE
  BY Zenon, <1>9 DEF IdleTypeOK, AllAsleep, notify_all_workers, goto_waking
<1>10. ASSUME NEW w \in Workers, route_wake(w) PROVE FALSE
  BY Zenon, <1>10 DEF IdleTypeOK, AllAsleep, route_wake
<1>11. ASSUME NEW w \in Workers, main_exits(w) PROVE FALSE
  BY Zenon, <1>11 DEF IdleTypeOK, AllAsleep, main_exits, goto
<1>12. ASSUME NEW w \in Workers, NEW t \in clock .. MaxClock, arm(w, t) PROVE FALSE
  BY Zenon, <1>12 DEF IdleTypeOK, AllAsleep, arm, goto
<1>13. ASSUME NEW w \in Workers, NEW t \in clock .. MaxClock, koja_rt_send_after(w, t) PROVE FALSE
  BY Zenon, <1>13 DEF IdleTypeOK, AllAsleep, koja_rt_send_after, goto_waking
<1>14. ASSUME NEW w \in Workers, times_out(w) PROVE FALSE
  BY Zenon, <1>14 DEF IdleTypeOK, AllAsleep, times_out, goto
<1>15. CASE apply_wakers
  BY Zenon, <1>15 DEF AllAsleep, apply_wakers
<1>16. CASE reactor_notifies
  <2>1. PICK woken \in notify_workers(owed) : pc' = [v \in Workers |-> IF v \in woken THEN "woken" ELSE pc[v]]
    BY Zenon, <1>16 DEF reactor_notifies
  <2>2. woken = {} /\ AllAsleep
    BY Zenon, <2>1 DEF AllAsleep, IdleTypeOK, notify_workers, kSubset, Waiting
  <2> QED  BY Zenon, <1>16, <2>1, <2>2, SomeoneNotified DEF reactor_notifies, IdleTypeOK
<1>17. CASE Tick
  BY Zenon, <1>17 DEF AllAsleep, Tick
<1>18. CASE UNCHANGED vars
  BY Zenon, <1>18 DEF AllAsleep, vars
<1> QED  BY Zenon, <1>1, <1>2, <1>3, <1>4, <1>5, <1>6, <1>7, <1>8, <1>9, <1>10, <1>11, <1>12,
            <1>13, <1>14, <1>15, <1>16, <1>17, <1>18 DEF Next, Runtime, Body

\* Work is published to sleepers only with a notification owed, and the last
\* worker to lie down finds the injector empty.
LEMMA WorkStep ==
    ASSUME IdleTypeOK, Counted, EmptyHanded, EmptyHanded', NoWorkWhileAllSleep, [Next]_vars
    PROVE  NoWorkWhileAllSleep'
<1> SUFFICES ASSUME AllAsleep' PROVE owed' > 0 \/ (injector' = 0 /\ \A w \in Workers : local'[w] = 0)
  BY Zenon DEF NoWorkWhileAllSleep
<1>1. \A w \in Workers : local'[w] = 0
  BY Zenon DEF AllAsleep, EmptyHanded
<1>2. ASSUME NEW w \in Workers, lock(w) PROVE injector' = 0
  BY <1>2 DEF AllAsleep, IdleTypeOK, lock, goto, stays_awake
<1>3. CASE AllAsleep /\ apply_wakers
  BY <1>3 DEF apply_wakers
<1>4. CASE AllAsleep /\ (Tick \/ UNCHANGED vars)
  BY Zenon, <1>1, <1>4 DEF NoWorkWhileAllSleep, Tick, vars
<1> QED  BY Zenon, <1>1, <1>2, <1>3, <1>4, LastStep

\* The last worker to lie down has seen every timer.
LEMMA OversleepStep ==
    ASSUME IdleTypeOK, Counted, NoOversleep, [Next]_vars
    PROVE  NoOversleep'
<1> SUFFICES ASSUME AllAsleep', NEW t \in timers'
             PROVE  \E w \in Workers : until'[w] - slept'[w] <= Max({t - read'[w], 0})
  BY Zenon DEF NoOversleep
<1>1. ASSUME NEW w \in Workers, lock(w)
      PROVE  until'[w] - slept'[w] <= Max({t - read'[w], 0})
  <2>1. PICK idle_park \in {IDLE_ACTIVE, IDLE_QUIET} :
            until' = [until EXCEPT ![w] = clock + timeout(read[w], idle_park)]
    BY Zenon, <1>1 DEF AllAsleep, IdleTypeOK, lock, goto
  <2>2. slept' = [slept EXCEPT ![w] = clock] /\ read' = read /\ timers' = timers
    BY Zenon, <1>1 DEF AllAsleep, IdleTypeOK, lock, goto
  <2>3. /\ timeout(read[w], idle_park) \in Int
        /\ timeout(read[w], idle_park) <= Max({t - read[w], 0})
    BY Zenon, <2>2, TimeoutType, IdleAssumption DEF IdleTypeOK
  <2>4. until'[w] = clock + timeout(read[w], idle_park) /\ slept'[w] = clock /\ clock \in Int
    BY <2>1, <2>2 DEF IdleTypeOK
  <2> QED  BY <2>2, <2>3, <2>4
<1>2. CASE AllAsleep /\ (apply_wakers \/ Tick \/ UNCHANGED vars)
  <2>1. UNCHANGED <<timers, until, slept, read>>
    BY Zenon, <1>2 DEF apply_wakers, Tick, vars
  <2> QED  BY Zenon, <1>2, <2>1 DEF NoOversleep
<1> QED  BY Zenon, <1>1, <1>2, LastStep

\* The runtime starts with every worker awake.
LEMMA IdleInit == Init => IdleInv
<1> SUFFICES ASSUME Init PROVE IdleInv
  BY Zenon
<1>1. IdleTypeOK
  BY FS_EmptySet DEF Init, IdleTypeOK, Labels
<1>2. Sleeping = {}
  BY Zenon DEF Init, Sleeping
<1>3. ~ AllAsleep /\ EmptyHanded
  BY Zenon, IdleAssumption DEF Init, AllAsleep, EmptyHanded
<1> QED  BY Zenon, <1>1, <1>2, <1>3, FS_EmptySet DEF Init, IdleInv, Counted, NoWorkWhileAllSleep, NoOversleep

\* Every step of a worker, of the reactor and of time keeps the invariant.
LEMMA IdleNext == IdleInv /\ [Next]_vars => IdleInv'
<1> SUFFICES ASSUME IdleInv, [Next]_vars PROVE IdleInv'
  BY Zenon
<1> USE DEF IdleInv
<1>1. IdleTypeOK'
  BY Zenon, TypeStep
<1>2. Counted'
  BY Zenon, CountStep
<1>3. EmptyHanded'
  BY Zenon, EmptyStep
<1>4. NoWorkWhileAllSleep'
  BY Zenon, <1>3, WorkStep
<1>5. NoOversleep'
  BY Zenon, OversleepStep
<1> QED  BY Zenon, <1>1, <1>2, <1>3, <1>4, <1>5

\* The lost-wakeup guard of park_for_work and notify_workers: for any number of
\* workers, when all of them sleep no work is runnable, unless the reactor that
\* published it has yet to notify.
THEOREM NoWorkWhileAllSleepHolds == Spec => []NoWorkWhileAllSleep
<1>1. IdleInv => NoWorkWhileAllSleep
  BY Zenon DEF IdleInv
<1> QED  BY <1>1, IdleInit, IdleNext, PTL DEF Spec

\* When all the workers sleep, one of them waits no longer than any given timer
\* was away when it read the clock.
THEOREM NoOversleepHolds == Spec => []NoOversleep
<1>1. IdleInv => NoOversleep
  BY Zenon DEF IdleInv
<1> QED  BY <1>1, IdleInit, IdleNext, PTL DEF Spec

----------------------------------------------------------------------------
\* The three priority levels, listed.
LEMMA LevelsDef == Levels = {0, 1, 2} /\ LEVELS = 3
BY DEF Levels, LEVELS

(* Starting empty, every level has age 0.                                  *)
LEMMA InitAgeInv == Init_queue => AgeInv
BY LevelsDef, ThresholdAssumption
   DEF Init_queue, AgeInv, AgeBound, TypeOK, None

(* A push touches no age.                                                  *)
LEMMA PushAgeInv ==
  ASSUME AgeInv, NEW pid \in Pids, NEW priority \in Levels, push(pid, priority)
  PROVE  AgeInv'
<1>1. TypeOK'
  <2>1. levels \in [Levels -> Seq(Pids)] /\ ages \in [Levels -> Nat]
    BY Zenon DEF AgeInv, TypeOK
  <2>2. levels[priority] \in Seq(Pids)
    BY Zenon, <2>1
  <2>3. Append(levels[priority], pid) \in Seq(Pids)
    BY <2>2
  <2>4. levels' \in [Levels -> Seq(Pids)]
    BY Zenon, <2>1, <2>3 DEF push
  <2> QED BY Zenon, <2>1, <2>4 DEF TypeOK, AgeInv, push
<1>2. \A l \in Levels : levels[l] # <<>> => levels'[l] # <<>>
  <2> TAKE l \in Levels
  <2> HAVE levels[l] # <<>>
  <2>1. CASE l = priority
    <3>1. levels[l] \in Seq(Pids) /\ levels'[l] = Append(levels[l], pid)
      BY Zenon, <2>1 DEF AgeInv, TypeOK, push
    <3> QED BY <3>1
  <2>2. CASE l # priority
    BY Zenon, <2>2 DEF AgeInv, TypeOK, push
  <2> QED BY Zenon, <2>1, <2>2
<1>3. ages' = ages
  BY Zenon DEF push
<1> QED BY Zenon, <1>1, <1>2, <1>3 DEF AgeInv, AgeBound

(* A pop resets the level it serves and ages the other non-empty ones.     *)
LEMMA PopAgeInv == AgeInv /\ pop => AgeInv'
<1> SUFFICES ASSUME AgeInv, NEW c \in Levels, IsNextLevel(c),
                    ages' = [l \in Levels |-> AgeAfter(l, c)],
                    levels' = [levels EXCEPT ![c] = Tail(@)],
                    served' = c
             PROVE  AgeInv'
  BY Zenon DEF pop
<1> DEFINE T == STARVATION_THRESHOLD
<1>1. /\ ages \in [Levels -> Nat] /\ levels \in [Levels -> Seq(Pids)]
      /\ T \in Nat \ {0}
  BY Zenon, ThresholdAssumption DEF AgeInv, TypeOK
<1>2. levels[c] # <<>>
  BY Zenon DEF IsNextLevel, Starved, NonEmpty
<1>3. \A l \in Levels : ages'[l] = IF l = c \/ levels[l] = <<>> THEN 0 ELSE ages[l] + 1
  BY Zenon DEF AgeAfter
<1>4. ages' \in [Levels -> Nat]
  BY <1>1 DEF AgeAfter
<1>5. TypeOK'
  <2>1. Tail(levels[c]) \in Seq(Pids)
    BY <1>1, <1>2
  <2>2. levels' \in [Levels -> Seq(Pids)]
    BY Zenon, <1>1, <2>1
  <2> QED BY Zenon, <1>4, <2>2 DEF TypeOK
\* What the choice of c says of the level it passes over.
<1>6. \A l \in Levels : l # c /\ levels[l] # <<>> /\ ages[l] >= T =>
        ages[c] >= T /\ ages[l] <= ages[c]
  <2> TAKE l \in Levels
  <2> HAVE l # c /\ levels[l] # <<>> /\ ages[l] >= T
  <2>1. l \in Starved
    BY Zenon DEF Starved, NonEmpty
  <2>2. c \in Starved /\ AgedAtMost(l, c)
    BY Zenon, <2>1 DEF IsNextLevel
  <2> QED BY <1>1, <2>2 DEF AgedAtMost, Starved
<1>7. \A l \in Levels : ages[l] <= T + 1
  BY <1>1, LevelsDef DEF AgeInv, AgeBound
<1>8. \A k, l \in Levels : ages[k] > T /\ ages[l] > T => k = l
  BY Zenon DEF AgeInv
\* A level that is passed over was at most at the threshold.
<1>9. \A l \in Levels : l # c /\ levels[l] # <<>> => ages[l] <= T
  <2> TAKE l \in Levels
  <2> HAVE l # c /\ levels[l] # <<>>
  <2>1. ages[l] \in Nat /\ ages[c] \in Nat
    BY Zenon, <1>1
  <2>2. ages[l] > T => ages[c] >= T /\ ages[l] <= ages[c]
    BY <1>1, <1>6, <2>1
  <2> QED BY <1>1, <1>8, <2>1, <2>2
<1>10. AgeBound'
  <2>1. ASSUME NEW l \in Levels PROVE ages'[l] <= T + 1
    <3>1. CASE l = c \/ levels[l] = <<>>
      <4>1. ages'[l] = 0
        BY Zenon, <1>3, <3>1
      <4> QED BY <1>1, <4>1
    <3>2. CASE l # c /\ levels[l] # <<>>
      <4>1. ages'[l] = ages[l] + 1 /\ ages[l] <= T
        BY Zenon, <1>3, <1>9, <3>2
      <4>2. ages[l] \in Nat
        BY Zenon, <1>1
      <4> QED BY <1>1, <4>1, <4>2
    <3> QED BY Zenon, <3>1, <3>2
  <2>2. T + LEVELS - 2 = T + 1
    BY <1>1, LevelsDef
  <2> QED BY Zenon, <2>1, <2>2 DEF AgeBound
<1>11. \E l \in Levels : ages'[l] = 0
  BY Zenon, <1>3
\* Only one level can pass the threshold: of the three, one had age 0.
<1>12. \A k, l \in Levels : ages'[k] > T /\ ages'[l] > T => k = l
  <2> SUFFICES ASSUME NEW k \in Levels, NEW l \in Levels,
                      ages'[k] > T, ages'[l] > T, k # l
               PROVE  FALSE
    BY Zenon
  <2>1. /\ k # c /\ levels[k] # <<>> /\ ages[k] >= T
        /\ l # c /\ levels[l] # <<>> /\ ages[l] >= T
    BY <1>1, <1>3
  <2>2. ages[c] >= T
    BY Zenon, <1>6, <2>1
  <2>3. ASSUME NEW z \in Levels PROVE ages[z] > 0
    <3>1. z = k \/ z = l \/ z = c
      BY Zenon, <2>1, LevelsDef
    <3>2. ages[z] >= T
      BY Zenon, <2>1, <2>2, <3>1
    <3> HIDE <2>1, <2>2
    <3>3. ages[z] \in Nat
      BY Zenon, <1>1
    <3> QED BY <1>1, <3>2, <3>3
  <2> QED BY <2>3 DEF AgeInv
<1>13. \A l \in Levels : ages'[l] > 0 => levels'[l] # <<>>
  BY <1>1, <1>3
<1> QED BY Zenon, <1>5, <1>10, <1>11, <1>12, <1>13 DEF AgeInv

(* No level of the ready queue is passed over more than                    *)
(* STARVATION_THRESHOLD + 1 times in a row (ReadyQueue::next_level).       *)
THEOREM AgeBoundHolds == Spec_queue => []AgeBound
<1>1. AgeInv /\ [Next_queue]_queue_vars => AgeInv'
  <2> SUFFICES ASSUME AgeInv, [Next_queue]_queue_vars PROVE AgeInv'
    BY Zenon
  <2>1. CASE \E pid \in Pids, priority \in Levels : push(pid, priority)
    BY Zenon, <2>1, PushAgeInv
  <2>2. CASE pop
    BY Zenon, <2>2, PopAgeInv
  <2>3. CASE UNCHANGED queue_vars
    BY Zenon, <2>3 DEF queue_vars, AgeInv, AgeBound, TypeOK
  <2> QED BY Zenon, <2>1, <2>2, <2>3 DEF Next_queue
<1>2. AgeInv => AgeBound
  BY Zenon DEF AgeInv
<1> QED BY InitAgeInv, <1>1, <1>2, PTL DEF Spec_queue
============================================================================
