--------------------------- MODULE SchedulerCustody ----------------------------
(***************************************************************************)
(* Who answers for a slot of the process table, and the lifetime of a PID  *)
(* the table implements.                                                   *)
(***************************************************************************)
EXTENDS SchedulerTypes

\* The claim bit is ownership (with_execution's safety contract): a worker
\* holds a process exactly while the process's slot, at its generation, is
\* on_cpu; no two workers hold one process; and the execution cell a worker
\* is running on is never taken away under it, not even by a kill.
OneOwner ==
    /\ \A w \in Workers : cur[w] # NoPid =>
           here(cur[w]) /\ word[me(w)].on_cpu /\ frame(w) # NoExecution
    /\ \A s \in Slots : word[s].on_cpu =>
           \E w \in Workers : cur[w] = <<s, word[s].generation>>
    /\ \A v, w \in Workers : v # w /\ cur[v] # NoPid => cur[v] # cur[w]

Freeing(s) == {w \in Workers : \/ pc[w] = "free" /\ Slot(reap[w]) = s
                               \/ dying[w].reclaimed /\ Slot(dying[w].pid) = s}

\* A slot is neither leaked nor handed out twice: a published vacant slot is
\* on the freelist once or in the hands of the one worker about to push it,
\* never both; an occupied or unpublished slot is in neither; and a dead
\* process no worker owns has exactly one worker about to reclaim it.
SlotsConserved ==
    /\ \A i, j \in DOMAIN registry.free : registry.free[i] = registry.free[j] => i = j
    /\ \A s \in Slots :
         LET listed == \E i \in DOMAIN registry.free : registry.free[i] = s
         IN  IF s < published /\ word[s].state = "Vacant"
             THEN /\ listed => Freeing(s) = {}
                  /\ ~listed => \E w \in Workers : Freeing(s) = {w}
             ELSE ~listed /\ Freeing(s) = {}
    /\ \A s \in Slots : word[s].state = "Dead" /\ ~word[s].on_cpu =>
         \E w \in Workers : {v \in Workers : pc[v] = "reclaim" /\ reap[v] =
                                <<s, word[s].generation>>} = {w}

Listed(s) == \E i \in DOMAIN registry.free : registry.free[i] = s

Reaps(w, s) == pc[w] = "reclaim" /\ Slot(reap[w]) = s

Frees(w, s) == \/ pc[w] = "free" /\ Slot(reap[w]) = s
               \/ dying[w].reclaimed /\ Slot(dying[w].pid) = s

\* A worker's claim and its slot's on_cpu bit name each other.
ClaimsAgree ==
    /\ \A w \in Workers : cur[w] # NoPid =>
         word[Slot(cur[w])].on_cpu /\ word[Slot(cur[w])].generation = Generation(cur[w])
    /\ \A s \in Slots : word[s].on_cpu =>
         word[s].state # "Vacant" /\ \E w \in Workers : cur[w] = <<s, word[s].generation>>
    /\ \A v, w \in Workers : v # w /\ cur[v] # NoPid => cur[v] # cur[w]

OccupiedAgree ==
    \A s \in Slots : word[s].state # "Vacant" =>
        s < published /\ word[s].generation \in 1 .. MaxGeneration /\ execution[s].at # "none"

\* A dead slot off the CPU is what exactly one worker is about to reclaim.
ReapersAgree ==
    /\ \A s \in Slots, w \in Workers : Reaps(w, s) =>
         /\ word[s].state = "Dead" /\ ~word[s].on_cpu
         /\ word[s].generation = Generation(reap[w])
         /\ \A v \in Workers : Reaps(v, s) => v = w
    /\ \A s \in Slots : word[s].state = "Dead" /\ ~word[s].on_cpu =>
         \E w \in Workers : Reaps(w, s)

\* A published vacant slot is on the freelist or about to be pushed on it.
FreersAgree ==
    /\ \A s \in Slots, w \in Workers : Frees(w, s) =>
         /\ word[s].state = "Vacant" /\ s < published /\ ~Listed(s)
         /\ \A v \in Workers : Frees(v, s) => v = w
    /\ \A s \in Slots : Listed(s) => word[s].state = "Vacant" /\ s < published
    /\ \A s \in Slots : word[s].state = "Vacant" /\ s < published =>
         Listed(s) \/ \E w \in Workers : Frees(w, s)

ListedOnce ==
    \A i, j \in DOMAIN registry.free : registry.free[i] = registry.free[j] => i = j

\* Who answers for a slot: an on_cpu slot has the worker that claimed it, a
\* dead one off the CPU the worker about to reclaim it, a published vacant one
\* the freelist or the worker about to push it, and never two of them.
Custody ==
    /\ \A w \in Workers : LabelAgrees(w)
    /\ ClaimsAgree /\ OccupiedAgree /\ ReapersAgree /\ FreersAgree /\ ListedOnce

\* The lifetime a PID has reached, read off its slot's word.
phase_of(p) ==
    LET wd == word[Slot(p)]
    IN  CASE wd.generation > Generation(p) -> "freed"
          [] wd.generation = Generation(p) /\ wd.state = "Dead" -> "dead"
          [] wd.generation = Generation(p) /\ wd.state \in LiveStates -> "live"
          [] OTHER -> "unborn"

Lifetime == INSTANCE ProcessLifetime WITH
    SlotIds <- Slots, LastGeneration <- MaxGeneration,
    phase <- [p \in Pids |-> phase_of(p)],
    owned <- [p \in Pids |-> here(p) /\ word[Slot(p)].on_cpu]

\* The table implements the PID lifetime: whatever steps the workers take, a
\* PID is born, dies and is freed once each, never while a worker owns it, and
\* a stale PID never comes back to life in its recycled slot.
ImplementsLifetime == Lifetime!Spec
==============================================================================
