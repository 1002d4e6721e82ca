------------------------------ MODULE Lifecycle ------------------------------
(***************************************************************************)
(* The packed lifecycle word of one process slot (lifecycle.rs): a         *)
(* generation, a state and the on_cpu claim bit, changed only by CAS       *)
(* edges.  Every CAS loop of the code retries until its guard fails or its *)
(* swap succeeds, so each edge is one guarded update here: the guard is    *)
(* the condition the loop re-checks, the update is the word it swaps in.   *)
(***************************************************************************)
EXTENDS Naturals

LiveStates == {"Created", "Runnable", "Running", "Blocked", "WaitingIO"}

ProcessState == LiveStates \cup {"Dead"}

\* A decoded word.  "Vacant" stands for WordState.state = None.
WordState == [generation : Nat, on_cpu : BOOLEAN,
              state : ProcessState \cup {"Vacant"}]

\* LifecycleWord::new: a vacant slot at generation 0.
FreshWord == [generation |-> 0, on_cpu |-> FALSE, state |-> "Vacant"]

\* WordState::is_alive.
alive_at(wd, g) == wd.generation = g /\ wd.state \in LiveStates

\* The guard of LifecycleWord::try_claim.
claimable(wd, g) ==
    wd.generation = g /\ ~wd.on_cpu /\ wd.state \in {"Created", "Runnable"}

claimed(wd) == [wd EXCEPT !.on_cpu = TRUE, !.state = "Running"]

\* try_edge and try_kill move the state and leave the claim bit alone.
moved(wd, to) == [wd EXCEPT !.state = to]

\* release drops the claim and leaves the state alone.
released(wd) == [wd EXCEPT !.on_cpu = FALSE]

occupied(g) == [generation |-> g, on_cpu |-> FALSE, state |-> "Created"]

\* Mutant: the generation is not bumped.
vacated_same_generation(wd) == [wd EXCEPT !.on_cpu = FALSE, !.state = "Vacant"]

\* vacate bumps the generation, which is what makes every stale PID miss.
vacated(wd) ==
    [generation |-> wd.generation + 1, on_cpu |-> FALSE, state |-> "Vacant"]
==============================================================================
