----------------------------- MODULE ReadyQueue -----------------------------
(***************************************************************************)
(* The cooperative driver's ready queue                                    *)
(* (crates/koja-runtime-core/src/ready_queue.rs): one FIFO level per       *)
(* priority, with per-level aging so that no level starves.                *)
(*                                                                         *)
(* `ages' and `levels' are the two fields of the struct.  `served' is the  *)
(* level the latest pop chose; no operation reads it.                      *)
(***************************************************************************)
EXTENDS Integers, Sequences

CONSTANTS
  Pids,                  \* the process identifiers that may be enqueued
  STARVATION_THRESHOLD,  \* passes after which a non-empty level preempts
  MaxLen                 \* bound on the length of one level (VecDeque has none)

ASSUME ThresholdAssumption == STARVATION_THRESHOLD \in Nat \ {0}
ASSUME MaxLenAssumption == MaxLen \in Nat

LEVELS == 3
Levels == 0 .. LEVELS - 1
None == LEVELS  \* `served' before the first pop

VARIABLES ages, levels, served
queue_vars == <<ages, levels, served>>

Init_queue ==
  /\ ages = [l \in Levels |-> 0]
  /\ levels = [l \in Levels |-> <<>>]
  /\ served = None

push(pid, priority) ==
  /\ Len(levels[priority]) < MaxLen
  /\ levels' = [levels EXCEPT ![priority] = Append(@, pid)]
  /\ UNCHANGED <<ages, served>>

NonEmpty == {l \in Levels : levels[l] # <<>>}

(* Levels passed over STARVATION_THRESHOLD times or more.                  *)
Starved == {l \in NonEmpty : ages[l] >= STARVATION_THRESHOLD}

(* The order of max_by_key(|level| (ages[level], level)).                  *)
AgedAtMost(k, l) == ages[k] < ages[l] \/ (ages[k] = ages[l] /\ k <= l)

(* The level `pop' serves: the most aged starved level, ties towards the   *)
(* higher priority, else the highest-priority non-empty one.               *)
IsNextLevel(l) ==
  IF Starved # {}
    THEN l \in Starved /\ \A k \in Starved : AgedAtMost(k, l)
    ELSE l \in NonEmpty /\ \A k \in NonEmpty : k <= l

(* Mutants: aging that forgets the levels it passes over, and that does    *)
(* not reset the level it serves.                                          *)
AgeAfter_NoAging(l, chosen) == 0
AgeAfter_NoReset(l, chosen) == IF levels[l] = <<>> THEN 0 ELSE ages[l] + 1

AgeAfter(l, chosen) ==
  IF l = chosen \/ levels[l] = <<>> THEN 0 ELSE ages[l] + 1

pop ==
  \E chosen \in Levels :
    /\ IsNextLevel(chosen)
    /\ ages' = [l \in Levels |-> AgeAfter(l, chosen)]
    /\ levels' = [levels EXCEPT ![chosen] = Tail(@)]
    /\ served' = chosen

Next_queue ==
  \/ \E pid \in Pids, priority \in Levels : push(pid, priority)
  \/ pop

Spec_queue == Init_queue /\ [][Next_queue]_queue_vars

-----------------------------------------------------------------------------
TypeOK ==
  /\ ages \in [Levels -> Nat]
  /\ levels \in [Levels -> Seq(Pids)]
  /\ served \in Levels \cup {None}

(* STARVATION_THRESHOLD "bound[s] every level's wait": whatever is pushed  *)
(* between the pops, no level is passed over more than one time beyond the *)
(* threshold, even when two levels reach it in the same pop.               *)
AgeBound == \A l \in Levels : ages[l] <= STARVATION_THRESHOLD + LEVELS - 2

(* The inductive form of AgeBound.  A level that was served last (or is    *)
(* empty) has age 0, so at most the two others can be starved at once; the *)
(* most aged of them is served first, so only one can go past the          *)
(* threshold, by one.                                                      *)
AgeInv ==
  /\ TypeOK
  /\ AgeBound
  /\ \E l \in Levels : ages[l] = 0
  /\ \A k, l \in Levels :
       ages[k] > STARVATION_THRESHOLD /\ ages[l] > STARVATION_THRESHOLD => k = l
  /\ \A l \in Levels : ages[l] > 0 => levels[l] # <<>>
=============================================================================
