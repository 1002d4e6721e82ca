---------------------------- MODULE CustodyProofs ----------------------------
(***************************************************************************)
(* Who answers for a slot, and the lifetimes of the processes in it.       *)
(*                                                                         *)
(* Custody is inductive: nearly every step of the runtime is quiet         *)
(* (OwnershipProofs), and the nine that are not hand one slot from one     *)
(* custodian to the next.                                                  *)
(*                                                                         *)
(* The runtime implements ProcessLifetime: the phase of a PID is a         *)
(* function of its slot's word, a quiet word keeps every phase, and each   *)
(* of the five edges that are not quiet is one step of one PID's lifetime. *)
(***************************************************************************)
EXTENDS OwnershipProofs, SchedulerCustody

Vacant(s) == word[s].state = "Vacant"

Tombstone(s) == word[s].state = "Dead" /\ ~word[s].on_cpu

\* What TypeOK says of a slot and of a worker, one field at a time.
LEMMA SlotTypes ==
    ASSUME TypeOK
    PROVE  /\ \A s \in Slots : /\ word[s].generation \in Nat /\ word[s].on_cpu \in BOOLEAN
                               /\ word[s].state \in LiveStates \cup {"Dead", "Vacant"}
           /\ \A w \in Workers : /\ cur[w] \in AnyPid /\ Slot(cur[w]) \in Slots
                                 /\ reap[w] \in AnyPid /\ Slot(reap[w]) \in Slots
                                 /\ dying[w].pid \in AnyPid /\ Slot(dying[w].pid) \in Slots
           /\ registry.free \in Seq(Slots)
<1>1. ASSUME NEW s \in Slots
      PROVE  /\ word[s].generation \in Nat /\ word[s].on_cpu \in BOOLEAN
             /\ word[s].state \in LiveStates \cup {"Dead", "Vacant"}
  BY DEF TypeOK, TableTypeOK, WordState, ProcessState
<1>2. ASSUME NEW w \in Workers
      PROVE  /\ cur[w] \in AnyPid /\ reap[w] \in AnyPid /\ dying[w].pid \in AnyPid
  BY DEF TypeOK, TableTypeOK, DriverTypeOK, Deaths
<1>3. registry.free \in Seq(Slots)
  BY DEF TypeOK, TableTypeOK, Registries
<1>4. QED  BY Zenon, <1>1, <1>2, <1>3, PidTypes

\* One edge changes one word.
LEMMA OneWord ==
    ASSUME TypeOK, NEW t \in Slots, NEW wd, word' = [word EXCEPT ![t] = wd]
    PROVE  word'[t] = wd /\ \A s \in Slots : s # t => word'[s] = word[s]
BY DEF TypeOK, TableTypeOK

\* Claims survive a step that leaves the owned words owned.
LEMMA ClaimsKept ==
    ASSUME TypeOK, ClaimsAgree, cur' = cur,
           \A s \in Slots : word'[s].on_cpu <=> word[s].on_cpu,
           \A s \in Slots : word[s].on_cpu =>
               word'[s].generation = word[s].generation /\ word'[s].state # "Vacant"
    PROVE  ClaimsAgree'
<1>1. ASSUME NEW w \in Workers, cur[w] # NoPid
      PROVE  word'[Slot(cur[w])].on_cpu /\ word'[Slot(cur[w])].generation = Generation(cur[w])
  BY Zenon, <1>1, SlotTypes DEF ClaimsAgree
<1>2. ASSUME NEW s \in Slots, word'[s].on_cpu
      PROVE  word'[s].state # "Vacant" /\ \E w \in Workers : cur[w] = <<s, word'[s].generation>>
  BY Zenon, <1>2 DEF ClaimsAgree
<1>3. QED  BY Zenon, <1>1, <1>2 DEF ClaimsAgree

\* Reapers survive a step that neither makes nor takes a tombstone.
LEMMA ReapersKept ==
    ASSUME ReapersAgree,
           \A w \in Workers, s \in Slots : Reaps(w, s)' <=> Reaps(w, s),
           \A w \in Workers, s \in Slots : Reaps(w, s) => reap'[w] = reap[w],
           \A s \in Slots : Tombstone(s)' <=> Tombstone(s),
           \A s \in Slots : Tombstone(s) => word'[s].generation = word[s].generation
    PROVE  ReapersAgree'
<1>1. ASSUME NEW s \in Slots, NEW w \in Workers, Reaps(w, s)'
      PROVE  /\ Tombstone(s)' /\ word'[s].generation = Generation(reap'[w])
             /\ \A v \in Workers : Reaps(v, s)' => v = w
  <2>1. Tombstone(s) /\ word[s].generation = Generation(reap[w]) /\ reap'[w] = reap[w]
    BY Zenon, <1>1 DEF ReapersAgree, Tombstone
  <2>2. \A v \in Workers : Reaps(v, s)' => v = w
    BY Zenon, <1>1 DEF ReapersAgree
  <2>3. QED  BY Zenon, <2>1, <2>2
<1>2. ASSUME NEW s \in Slots, Tombstone(s)' PROVE \E w \in Workers : Reaps(w, s)'
  BY Zenon, <1>2 DEF ReapersAgree, Tombstone
<1>3. QED  BY Zenon, <1>1, <1>2 DEF ReapersAgree, Tombstone

\* Freers survive a step that neither vacates nor occupies a slot.
LEMMA FreersKept ==
    ASSUME FreersAgree, ListedOnce, registry'.free = registry.free, published' = published,
           \A w \in Workers, s \in Slots : Frees(w, s)' <=> Frees(w, s),
           \A s \in Slots : Vacant(s)' <=> Vacant(s)
    PROVE  FreersAgree' /\ ListedOnce'
<1>1. \A s \in Slots : Listed(s)' <=> Listed(s)
  BY Zenon DEF Listed
<1>2. FreersAgree'
  BY Zenon, <1>1 DEF FreersAgree, Vacant
<1>3. QED  BY Zenon, <1>2 DEF ListedOnce

\* A quiet step keeps every custodian.
LEMMA CustodyQuiet ==
    ASSUME TypeOK, Custody, Quiet, \A w \in Workers : LabelAgrees(w)'
    PROVE  Custody'
<1>1. /\ \A s \in Slots : word'[s].generation = word[s].generation
      /\ \A s \in Slots : word'[s].on_cpu = word[s].on_cpu
      /\ \A s \in Slots : Vacant(s)' <=> Vacant(s)
      /\ \A s \in Slots : word'[s].state = "Dead" <=> word[s].state = "Dead"
      /\ \A s \in Slots : execution'[s].at = "none" => execution[s].at = "none"
      /\ cur' = cur /\ dying' = dying /\ published' = published
      /\ registry'.free = registry.free
  BY Zenon DEF Quiet, WordsQuiet, CellsQuiet, LiveStates, Vacant
<1>2. \A w \in Workers, s \in Slots : Reaps(w, s)' <=> Reaps(w, s)
  BY Zenon DEF Quiet, ReapsQuiet, Reaps
<1>3. \A w \in Workers, s \in Slots : Frees(w, s)' <=> Frees(w, s)
  BY Zenon, <1>1 DEF Quiet, ReapsQuiet, Frees
<1>4. \A w \in Workers, s \in Slots : Reaps(w, s) => reap'[w] = reap[w]
  BY Zenon DEF Quiet, ReapsQuiet, Reaps
<1>5. ClaimsAgree'
  BY Zenon, <1>1, ClaimsKept DEF Custody, ClaimsAgree, Vacant
<1>6. OccupiedAgree'
  BY Zenon, <1>1 DEF Custody, OccupiedAgree, Vacant
<1>7. ReapersAgree'
  BY Zenon, <1>1, <1>2, <1>4, ReapersKept DEF Custody, Tombstone
<1>8. FreersAgree' /\ ListedOnce'
  BY Zenon, <1>1, <1>3, FreersKept DEF Custody
<1>9. QED  BY Zenon, <1>5, <1>6, <1>7, <1>8 DEF Custody

\* try_claim: an unowned live slot gets an owner.
LEMMA ClaimCustody ==
    ASSUME TypeOK, Custody, \A w \in Workers : LabelAgrees(w)',
           NEW w \in Workers, try_claim(w)
    PROVE  Custody'
<1>1. PICK p \in Pids :
        IF claimable(word[Slot(p)], Generation(p))
        THEN /\ word' = [word EXCEPT ![Slot(p)] = claimed(@)]
             /\ cur' = [cur EXCEPT ![w] = p]
             /\ goto(w, "claimed")
        ELSE UNCHANGED <<word, cur, pc>>
  BY Zenon DEF try_claim
<1>2. CASE ~claimable(word[Slot(p)], Generation(p))
  <2>1. Quiet
    BY Zenon, <1>1, <1>2 DEF try_claim, Quiet, WordsQuiet, CellsQuiet, ReapsQuiet
  <2>2. QED  BY Zenon, <2>1, CustodyQuiet
<1>3. CASE claimable(word[Slot(p)], Generation(p))
  <2>1. PICK t \in Slots : t = Slot(p)
    BY PidTypes
  <2>2. /\ p = <<t, Generation(p)>> /\ p # NoPid
        /\ word[t].generation = Generation(p) /\ ~word[t].on_cpu
        /\ word[t].state \in {"Created", "Runnable"}
    BY <1>3, <2>1 DEF Pids, NoPid, Slot, Generation, claimable
  <2>3. word' = [word EXCEPT ![t] = claimed(word[t])]
    BY Zenon, <1>1, <1>3, <2>1
  <2>4. word'[t] = claimed(word[t]) /\ \A s \in Slots : s # t => word'[s] = word[s]
    BY Zenon, <2>3, OneWord
  <2>5. /\ word'[t].generation = word[t].generation /\ word'[t].on_cpu
        /\ word'[t].state = "Running"
    BY <2>4 DEF claimed, TypeOK, TableTypeOK, WordState
  <2>6. /\ cur'[w] = p /\ \A v \in Workers : v # w => cur'[v] = cur[v]
        /\ pc'[w] = "claimed" /\ pc[w] = "idle" /\ \A v \in Workers : v # w => pc'[v] = pc[v]
        /\ UNCHANGED <<execution, published, registry, dying, reap>>
    BY Zenon, <1>1, <1>3 DEF try_claim, goto, TypeOK, DriverTypeOK
  <2>7. cur[w] = NoPid
    BY Zenon, <2>6 DEF Custody, LabelAgrees, OwningLabels, SettleLabels, KillLabels, RunLabels
  <2>8. \A v \in Workers, s \in Slots :
          (Reaps(v, s)' <=> Reaps(v, s)) /\ (Frees(v, s)' <=> Frees(v, s))
    BY Zenon, <2>6 DEF Reaps, Frees
  <2>9. ASSUME NEW v \in Workers, cur[v] # NoPid
        PROVE  Slot(cur[v]) \in Slots /\ Slot(cur[v]) # t /\ v # w
    BY Zenon, <2>2, <2>7, <2>9, SlotTypes DEF Custody, ClaimsAgree
  <2>10. ClaimsAgree'
    <3>1. ASSUME NEW v \in Workers, cur'[v] # NoPid
          PROVE  /\ word'[Slot(cur'[v])].on_cpu
                 /\ word'[Slot(cur'[v])].generation = Generation(cur'[v])
      <4>1. CASE v = w
        BY Zenon, <2>1, <2>2, <2>5, <2>6, <4>1
      <4>2. CASE v # w
        <5>1. cur'[v] = cur[v] /\ Slot(cur[v]) \in Slots /\ Slot(cur[v]) # t
          BY Zenon, <2>6, <2>9, <3>1, <4>2
        <5>2. QED  BY Zenon, <2>4, <3>1, <5>1 DEF Custody, ClaimsAgree
      <4>3. QED  BY <4>1, <4>2
    <3>2. ASSUME NEW s \in Slots, word'[s].on_cpu
          PROVE  /\ word'[s].state # "Vacant"
                 /\ \E v \in Workers : cur'[v] = <<s, word'[s].generation>>
      <4>1. CASE s = t
        BY <2>2, <2>5, <2>6, <4>1
      <4>2. CASE s # t
        <5>1. /\ word'[s] = word[s] /\ word[s].state # "Vacant"
              /\ \E v \in Workers : cur[v] = <<s, word[s].generation>>
          BY Zenon, <2>4, <3>2, <4>2 DEF Custody, ClaimsAgree
        <5>2. <<s, word[s].generation>> # NoPid
          BY <5>1 DEF Custody, OccupiedAgree, NoPid
        <5>3. QED  BY Zenon, <2>6, <2>7, <5>1, <5>2
      <4>3. QED  BY <4>1, <4>2
    <3>3. ASSUME NEW u \in Workers, NEW v \in Workers, u # v, cur'[u] # NoPid
          PROVE  cur'[u] # cur'[v]
      <4>1. CASE u = w
        BY Zenon, <2>1, <2>2, <2>6, <2>9, <3>3, <4>1
      <4>2. CASE v = w
        BY Zenon, <2>1, <2>6, <2>9, <3>3, <4>2
      <4>3. CASE u # w /\ v # w
        BY Zenon, <2>6, <3>3, <4>3 DEF Custody, ClaimsAgree
      <4>4. QED  BY <4>1, <4>2, <4>3
    <3>4. QED  BY Zenon, <3>1, <3>2, <3>3 DEF ClaimsAgree
  <2>11. OccupiedAgree'
    BY <2>2, <2>4, <2>5, <2>6 DEF Custody, OccupiedAgree
  <2>12. \A s \in Slots : (Vacant(s)' <=> Vacant(s)) /\ (Tombstone(s)' <=> Tombstone(s))
    BY <2>2, <2>4, <2>5 DEF Vacant, Tombstone
  <2>13. ReapersAgree'
    <3>1. \A s \in Slots : Tombstone(s) => word'[s].generation = word[s].generation
      BY Zenon, <2>4, <2>5
    <3>2. QED  BY Zenon, <2>6, <2>8, <2>12, <3>1, ReapersKept DEF Custody
  <2>14. FreersAgree' /\ ListedOnce'
    BY Zenon, <2>6, <2>8, <2>12, FreersKept DEF Custody
  <2>15. QED  BY Zenon, <2>10, <2>11, <2>13, <2>14 DEF Custody
<1>4. QED  BY <1>2, <1>3

\* after_switch: the owner lets go, and answers for the tombstone it leaves.
LEMMA SwitchCustody ==
    ASSUME TypeOK, Custody, \A w \in Workers : LabelAgrees(w)',
           NEW w \in Workers, after_switch(w)
    PROVE  Custody'
<1>1. PICK t \in Slots : t = me(w)
  BY SlotTypes DEF me
<1>2. pc[w] = "switch" /\ cur[w] # NoPid
  BY Zenon DEF after_switch, Custody, LabelAgrees, OwningLabels
<1>3. word[t].on_cpu /\ word[t].generation = Generation(cur[w]) /\ word[t].state # "Vacant"
  BY Zenon, <1>1, <1>2 DEF Custody, ClaimsAgree, me
<1>4. word' = [word EXCEPT ![t] = released(word[t])]
  BY Zenon, <1>1 DEF after_switch
<1>5. word'[t] = released(word[t]) /\ \A s \in Slots : s # t => word'[s] = word[s]
  BY Zenon, <1>4, OneWord
<1>6. /\ word'[t].generation = word[t].generation /\ ~word'[t].on_cpu
      /\ word'[t].state = word[t].state
  BY <1>5 DEF released, TypeOK, TableTypeOK, WordState
<1>7. /\ cur'[w] = NoPid /\ \A v \in Workers : v # w => cur'[v] = cur[v]
      /\ \A v \in Workers : v # w => pc'[v] = pc[v] /\ reap'[v] = reap[v]
      /\ UNCHANGED <<execution, published, registry, dying>>
  BY Zenon DEF after_switch, goto, TypeOK, DriverTypeOK
<1>8. IF word[t].state = "Dead" THEN pc'[w] = "reclaim" /\ reap'[w] = cur[w]
                                ELSE pc'[w] = "check"
  BY Zenon, <1>1 DEF after_switch, goto, state, me, TypeOK, DriverTypeOK
<1>9. ASSUME NEW v \in Workers, v # w, cur[v] # NoPid
      PROVE  Slot(cur[v]) \in Slots /\ Slot(cur[v]) # t
  <2>1. Slot(cur[v]) \in Slots /\ cur[v] # cur[w]
    BY Zenon, <1>2, <1>9, SlotTypes DEF Custody, ClaimsAgree
  <2>2. word[Slot(cur[v])].generation = Generation(cur[v])
    BY Zenon, <1>9 DEF Custody, ClaimsAgree
  <2>3. cur[v] \in AnyPid /\ cur[w] \in AnyPid
    BY Zenon, SlotTypes
  <2>4. QED  BY <1>1, <1>3, <2>1, <2>2, <2>3 DEF me, AnyPid, Slot, Generation
<1>10. ClaimsAgree'
  <2>1. ASSUME NEW v \in Workers, cur'[v] # NoPid
        PROVE  /\ word'[Slot(cur'[v])].on_cpu
               /\ word'[Slot(cur'[v])].generation = Generation(cur'[v])
    <3>1. v # w /\ cur'[v] = cur[v] /\ Slot(cur[v]) \in Slots /\ Slot(cur[v]) # t
      BY Zenon, <1>7, <1>9, <2>1
    <3>2. QED  BY Zenon, <1>5, <2>1, <3>1 DEF Custody, ClaimsAgree
  <2>2. ASSUME NEW s \in Slots, word'[s].on_cpu
        PROVE  /\ word'[s].state # "Vacant"
               /\ \E v \in Workers : cur'[v] = <<s, word'[s].generation>>
    <3>1. s # t /\ word'[s] = word[s]
      BY Zenon, <1>5, <1>6, <2>2
    <3>2. /\ word[s].state # "Vacant"
          /\ \E v \in Workers : cur[v] = <<s, word[s].generation>>
      BY Zenon, <2>2, <3>1 DEF Custody, ClaimsAgree
    <3>3. cur[w] # <<s, word[s].generation>>
      BY <1>1, <3>1 DEF me, Slot
    <3>4. QED  BY Zenon, <1>7, <3>1, <3>2, <3>3
  <2>3. ASSUME NEW u \in Workers, NEW v \in Workers, u # v, cur'[u] # NoPid
        PROVE  cur'[u] # cur'[v]
    <3>1. CASE v = w
      BY Zenon, <1>7, <2>3, <3>1
    <3>2. CASE v # w
      BY Zenon, <1>7, <2>3, <3>2 DEF Custody, ClaimsAgree
    <3>3. QED  BY <3>1, <3>2
  <2>4. QED  BY Zenon, <2>1, <2>2, <2>3 DEF ClaimsAgree
<1>11. OccupiedAgree'
  BY <1>3, <1>5, <1>6, <1>7 DEF Custody, OccupiedAgree
<1>12. ReapersAgree'
  <2>1. \A s \in Slots : Tombstone(s)' <=> Tombstone(s) \/ (s = t /\ word[t].state = "Dead")
    BY <1>3, <1>5, <1>6 DEF Tombstone
  <2>2. \A v \in Workers, s \in Slots : Reaps(v, s)' <=>
          Reaps(v, s) \/ (v = w /\ s = t /\ word[t].state = "Dead")
    BY <1>1, <1>2, <1>7, <1>8 DEF Reaps, me
  <2>3. \A v \in Workers : ~Reaps(v, t)
    BY Zenon, <1>3 DEF Custody, ReapersAgree
  <2>4. ASSUME NEW s \in Slots, NEW v \in Workers, Reaps(v, s)'
        PROVE  /\ Tombstone(s)' /\ word'[s].generation = Generation(reap'[v])
               /\ \A u \in Workers : Reaps(u, s)' => u = v
    <3>1. CASE s = t
      <4>1. v = w /\ word[t].state = "Dead" /\ \A u \in Workers : Reaps(u, s)' => u = w
        BY Zenon, <2>2, <2>3, <2>4, <3>1
      <4>2. QED  BY Zenon, <1>3, <1>6, <1>8, <2>1, <3>1, <4>1
    <3>2. CASE s # t
      <4>1. Reaps(v, s) /\ v # w /\ \A u \in Workers : Reaps(u, s)' => Reaps(u, s)
        BY Zenon, <1>2, <2>2, <2>4, <3>2 DEF Reaps
      <4>2. /\ Tombstone(s) /\ word[s].generation = Generation(reap[v])
            /\ \A u \in Workers : Reaps(u, s) => u = v
        BY Zenon, <4>1 DEF Custody, ReapersAgree, Tombstone
      <4>3. QED  BY Zenon, <1>5, <1>7, <2>1, <3>2, <4>1, <4>2
    <3>3. QED  BY <3>1, <3>2
  <2>5. ASSUME NEW s \in Slots, Tombstone(s)' PROVE \E v \in Workers : Reaps(v, s)'
    BY Zenon, <2>1, <2>2, <2>5 DEF Custody, ReapersAgree, Tombstone
  <2>6. QED  BY Zenon, <2>4, <2>5 DEF ReapersAgree, Tombstone
<1>13. FreersAgree' /\ ListedOnce'
  <2>1. \A v \in Workers, s \in Slots : Frees(v, s)' <=> Frees(v, s)
    BY Zenon, <1>2, <1>7, <1>8 DEF Frees
  <2>2. \A s \in Slots : Vacant(s)' <=> Vacant(s)
    BY Zenon, <1>5, <1>6 DEF Vacant
  <2>3. QED  BY Zenon, <1>7, <2>1, <2>2, FreersKept DEF Custody
<1>14. QED  BY Zenon, <1>10, <1>11, <1>12, <1>13 DEF Custody

\* A slot vacated by w is one more slot that w is about to push.
LEMMA FreersGain ==
    ASSUME FreersAgree, ListedOnce, registry'.free = registry.free, published' = published,
           NEW w \in Workers, NEW t \in Slots, ~Vacant(t), t < published,
           \A v \in Workers, s \in Slots : Frees(v, s)' <=> Frees(v, s) \/ (v = w /\ s = t),
           \A s \in Slots : Vacant(s)' <=> Vacant(s) \/ s = t
    PROVE  FreersAgree' /\ ListedOnce'
<1>1. \A s \in Slots : Listed(s)' <=> Listed(s)
  BY Zenon DEF Listed
<1>2. ~Listed(t) /\ \A v \in Workers : ~Frees(v, t)
  BY Zenon DEF FreersAgree, Vacant
<1>3. ASSUME NEW s \in Slots, NEW v \in Workers, Frees(v, s)'
      PROVE  /\ Vacant(s)' /\ s < published' /\ ~Listed(s)'
             /\ \A u \in Workers : Frees(u, s)' => u = v
  <2>1. CASE s = t
    BY Zenon, <1>1, <1>2, <1>3, <2>1
  <2>2. CASE s # t
    BY Zenon, <1>1, <1>3, <2>2 DEF FreersAgree, Vacant
  <2>3. QED  BY <2>1, <2>2
<1>4. ASSUME NEW s \in Slots, Listed(s)' PROVE Vacant(s)' /\ s < published'
  BY Zenon, <1>1, <1>4 DEF FreersAgree, Vacant
<1>5. ASSUME NEW s \in Slots, Vacant(s)', s < published'
      PROVE  Listed(s)' \/ \E v \in Workers : Frees(v, s)'
  BY Zenon, <1>1, <1>5 DEF FreersAgree, Vacant
<1>6. FreersAgree'
  BY Zenon, <1>3, <1>4, <1>5 DEF FreersAgree, Vacant
<1>7. QED  BY Zenon, <1>6 DEF ListedOnce

\* The push hands the slot from its freer to the freelist.
LEMMA FreersPush ==
    ASSUME TypeOK, FreersAgree, ListedOnce, published' = published,
           NEW w \in Workers, NEW t \in Slots, Frees(w, t),
           registry'.free = Append(registry.free, t),
           \A v \in Workers, s \in Slots : Frees(v, s)' <=> Frees(v, s) /\ s # t,
           \A s \in Slots : Vacant(s)' <=> Vacant(s)
    PROVE  FreersAgree' /\ ListedOnce'
<1>1. Vacant(t) /\ t < published /\ ~Listed(t)
  BY Zenon DEF FreersAgree, Vacant
<1>a. /\ registry.free \in Seq(Slots) /\ Distinct(registry.free)
      /\ ~InList(registry.free, t)
  BY Zenon, <1>1, SlotTypes DEF Listed, InList, ListedOnce, Distinct
<1>b. /\ Distinct(registry'.free)
      /\ \A s \in Slots : InList(registry'.free, s) <=> InList(registry.free, s) \/ s = t
  <2> DEFINE f == registry.free
  <2>1. /\ Distinct(Append(f, t))
        /\ \A s \in Slots : InList(Append(f, t), s) <=> InList(f, s) \/ s = t
    <3>1. f \in Seq(Slots) /\ Distinct(f) /\ ~InList(f, t)
      BY <1>a
    <3> HIDE DEF f
    <3> QED  BY Zenon, <3>1, PushList
  <2>2. QED  BY Zenon, <2>1
<1>2. \A s \in Slots : Listed(s)' <=> Listed(s) \/ s = t
  BY Zenon, <1>b DEF Listed, InList
<1>3. ListedOnce'
  BY Zenon, <1>b DEF ListedOnce, Distinct
<1>4. ASSUME NEW s \in Slots, NEW v \in Workers, Frees(v, s)'
      PROVE  /\ Vacant(s)' /\ s < published' /\ ~Listed(s)'
             /\ \A u \in Workers : Frees(u, s)' => u = v
  BY Zenon, <1>2, <1>4 DEF FreersAgree, Vacant
<1>5. ASSUME NEW s \in Slots, Listed(s)' PROVE Vacant(s)' /\ s < published'
  BY Zenon, <1>1, <1>2, <1>5 DEF FreersAgree, Vacant
<1>6. ASSUME NEW s \in Slots, Vacant(s)', s < published'
      PROVE  Listed(s)' \/ \E v \in Workers : Frees(v, s)'
  BY Zenon, <1>2, <1>6 DEF FreersAgree, Vacant
<1>7. QED  BY Zenon, <1>3, <1>4, <1>5, <1>6 DEF FreersAgree, Vacant

\* reclaim: the tombstone's reaper becomes the freer of its slot.
LEMMA ReclaimCustody ==
    ASSUME TypeOK, Custody, \A w \in Workers : LabelAgrees(w)',
           NEW w \in Workers, reclaim(w)
    PROVE  Custody'
<1>1. PICK t \in Slots : t = Slot(reap[w])
  BY SlotTypes
<1>2. pc[w] = "reclaim" /\ Reaps(w, t)
  BY Zenon, <1>1 DEF reclaim, Reaps
<1>3. word[t].state = "Dead" /\ ~word[t].on_cpu /\ \A v \in Workers : Reaps(v, t) => v = w
  BY Zenon, <1>2 DEF Custody, ReapersAgree
<1>4. t < published
  BY <1>3 DEF Custody, OccupiedAgree
<1>5. word' = [word EXCEPT ![t] = vacated(word[t])]
  BY Zenon, <1>1 DEF reclaim, reclaim_slot
<1>6. word'[t] = vacated(word[t]) /\ \A s \in Slots : s # t => word'[s] = word[s]
  BY Zenon, <1>5, OneWord
<1>7. ~word'[t].on_cpu /\ word'[t].state = "Vacant"
  BY <1>6 DEF vacated
<1>8. /\ \A s \in Slots : s # t => execution'[s] = execution[s]
      /\ pc'[w] = "free" /\ \A v \in Workers : v # w => pc'[v] = pc[v]
      /\ UNCHANGED <<published, registry, dying, cur, reap>>
  BY Zenon, <1>1 DEF reclaim, reclaim_slot, goto, TypeOK, TableTypeOK, DriverTypeOK
<1>9. ~dying[w].reclaimed
  BY Zenon, <1>2 DEF Custody, LabelAgrees
<1>10. ClaimsAgree'
  <2>1. \A s \in Slots : word'[s].on_cpu <=> word[s].on_cpu
    BY Zenon, <1>3, <1>6, <1>7
  <2>2. \A s \in Slots : word[s].on_cpu =>
          word'[s].generation = word[s].generation /\ word'[s].state # "Vacant"
    BY Zenon, <1>3, <1>6 DEF Custody, ClaimsAgree
  <2>3. QED  BY Zenon, <1>8, <2>1, <2>2, ClaimsKept DEF Custody
<1>11. OccupiedAgree'
  BY <1>6, <1>7, <1>8 DEF Custody, OccupiedAgree
<1>12. ReapersAgree'
  <2>1. \A v \in Workers, s \in Slots : Reaps(v, s)' <=> Reaps(v, s) /\ s # t
    BY Zenon, <1>1, <1>2, <1>3, <1>8 DEF Reaps
  <2>2. \A s \in Slots : Tombstone(s)' <=> Tombstone(s) /\ s # t
    BY Zenon, <1>6, <1>7 DEF Tombstone
  <2>3. ASSUME NEW s \in Slots, NEW v \in Workers, Reaps(v, s)'
        PROVE  /\ Tombstone(s)' /\ word'[s].generation = Generation(reap'[v])
               /\ \A u \in Workers : Reaps(u, s)' => u = v
    <3>1. s # t /\ Reaps(v, s) /\ reap' = reap
      BY Zenon, <1>8, <2>1, <2>3
    <3>2. Tombstone(s) /\ word[s].generation = Generation(reap[v])
      BY Zenon, <3>1 DEF Custody, ReapersAgree, Tombstone
    <3>3. \A u \in Workers : Reaps(u, s)' => u = v
      BY Zenon, <2>1, <3>1 DEF Custody, ReapersAgree
    <3>4. QED  BY Zenon, <1>6, <2>2, <3>1, <3>2, <3>3
  <2>4. ASSUME NEW s \in Slots, Tombstone(s)' PROVE \E v \in Workers : Reaps(v, s)'
    BY Zenon, <2>1, <2>2, <2>4 DEF Custody, ReapersAgree, Tombstone
  <2>5. QED  BY Zenon, <2>3, <2>4 DEF ReapersAgree, Tombstone
<1>13. FreersAgree' /\ ListedOnce'
  <2>1. \A v \in Workers, s \in Slots : Frees(v, s)' <=> Frees(v, s) \/ (v = w /\ s = t)
    BY Zenon, <1>1, <1>2, <1>8, <1>9 DEF Frees
  <2>2. \A s \in Slots : Vacant(s)' <=> Vacant(s) \/ s = t
    BY Zenon, <1>6, <1>7 DEF Vacant
  <2>3. ~Vacant(t)
    BY <1>3 DEF Vacant
  <2>4. QED  BY Zenon, <1>4, <1>8, <2>1, <2>2, <2>3, FreersGain DEF Custody
<1>14. QED  BY Zenon, <1>10, <1>11, <1>12, <1>13 DEF Custody

\* free: the freelist takes the slot over.
LEMMA FreeCustody ==
    ASSUME TypeOK, Custody, \A w \in Workers : LabelAgrees(w)',
           NEW w \in Workers, free(w)
    PROVE  Custody'
<1>1. PICK t \in Slots : t = Slot(reap[w])
  BY SlotTypes
<1>2. pc[w] = "free" /\ ~dying[w].reclaimed /\ Frees(w, t)
  BY Zenon, <1>1 DEF free, Frees, Custody, LabelAgrees
<1>3. /\ pc'[w] = "check" /\ \A v \in Workers : v # w => pc'[v] = pc[v]
      /\ UNCHANGED <<word, execution, published, dying, cur, reap>>
  BY Zenon DEF free, goto, slotVars, TypeOK, DriverTypeOK
<1>4. registry'.free = Append(registry.free, t)
  BY <1>1 DEF free, free_slot, TypeOK, TableTypeOK, Registries
<1>5. \A v \in Workers, s \in Slots : Frees(v, s)' <=> Frees(v, s) /\ s # t
  <2>1. \A v \in Workers : Frees(v, t) => v = w
    BY Zenon, <1>2 DEF Custody, FreersAgree
  <2>2. \A s \in Slots : ~Frees(w, s)' /\ (Frees(w, s) => s = t)
    BY Zenon, <1>1, <1>2, <1>3 DEF Frees
  <2>3. \A v \in Workers, s \in Slots : v # w => (Frees(v, s)' <=> Frees(v, s))
    BY Zenon, <1>3 DEF Frees
  <2>4. QED  BY Zenon, <2>1, <2>2, <2>3
<1>6. \A s \in Slots : (Vacant(s)' <=> Vacant(s)) /\ (Tombstone(s)' <=> Tombstone(s))
  BY Zenon, <1>3 DEF Vacant, Tombstone
<1>7. FreersAgree' /\ ListedOnce'
  BY Zenon, <1>2, <1>3, <1>4, <1>5, <1>6, FreersPush DEF Custody
<1>8. ReapersAgree'
  <2>1. \A v \in Workers, s \in Slots : Reaps(v, s)' <=> Reaps(v, s)
    BY Zenon, <1>2, <1>3 DEF Reaps
  <2>2. QED  BY Zenon, <1>3, <1>6, <2>1, ReapersKept DEF Custody
<1>9. ClaimsAgree' /\ OccupiedAgree'
  BY Zenon, <1>3 DEF Custody, ClaimsAgree, OccupiedAgree
<1>10. QED  BY Zenon, <1>7, <1>8, <1>9 DEF Custody

\* The slot hold of a death: an owned process leaves a tombstone to its
\* owner; an unowned one is vacated and its slot is w's to push.
LEMMA DeathCustody ==
    ASSUME TypeOK, Custody, \A w \in Workers : LabelAgrees(w)',
           NEW w \in Workers, NEW p \in AnyPid, NEW forced, is_alive(p), death_edge(w, p, forced),
           pc[w] \notin {"pass", "reclaim", "free"}, goto(w, "pass"),
           UNCHANGED <<published, registry, cur, reap>>
    PROVE  Custody'
<1>1. PICK t \in Slots : t = Slot(p)
  BY PidTypes
<1>2. word[t].state \in LiveStates /\ t < published
  BY <1>1 DEF is_alive, alive_at, Custody, OccupiedAgree, LiveStates
<1>3. /\ pc'[w] = "pass" /\ \A v \in Workers : v # w => pc'[v] = pc[v]
      /\ \A v \in Workers : v # w => dying'[v] = dying[v]
      /\ dying'[w].pid = p /\ dying'[w].reclaimed = ~word[t].on_cpu
      /\ \A s \in Slots : s # t => execution'[s] = execution[s]
  BY Zenon, <1>1 DEF death_edge, goto, TypeOK, TableTypeOK, DriverTypeOK
<1>4. ~dying[w].reclaimed
  BY Zenon DEF Custody, LabelAgrees
<1>5. \A v \in Workers, s \in Slots : Reaps(v, s)' <=> Reaps(v, s)
  BY Zenon, <1>3 DEF Reaps
<1>6. \A v \in Workers, s \in Slots :
        Frees(v, s)' <=> Frees(v, s) \/ (v = w /\ s = t /\ ~word[t].on_cpu)
  BY Zenon, <1>1, <1>3, <1>4 DEF Frees
<1>7. CASE word[t].on_cpu
  <2>1. word' = [word EXCEPT ![t] = moved(word[t], "Dead")] /\ execution'[t] = execution[t]
    BY Zenon, <1>1, <1>7 DEF death_edge, TypeOK, TableTypeOK
  <2>2. word'[t] = moved(word[t], "Dead") /\ \A s \in Slots : s # t => word'[s] = word[s]
    BY Zenon, <2>1, OneWord
  <2>3. /\ word'[t].generation = word[t].generation /\ word'[t].on_cpu
        /\ word'[t].state = "Dead"
    BY <1>7, <2>2 DEF moved, TypeOK, TableTypeOK, WordState
  <2>4. ClaimsAgree'
    <3>1. \A s \in Slots : word'[s].on_cpu <=> word[s].on_cpu
      BY Zenon, <1>7, <2>2, <2>3
    <3>2. \A s \in Slots : word[s].on_cpu =>
            word'[s].generation = word[s].generation /\ word'[s].state # "Vacant"
      BY Zenon, <2>2, <2>3 DEF Custody, ClaimsAgree
    <3>3. QED  BY Zenon, <3>1, <3>2, ClaimsKept DEF Custody
  <2>5. OccupiedAgree'
    BY <1>2, <1>3, <2>1, <2>2, <2>3 DEF Custody, OccupiedAgree, LiveStates
  <2>6. \A s \in Slots : (Vacant(s)' <=> Vacant(s)) /\ (Tombstone(s)' <=> Tombstone(s))
    BY <1>2, <1>7, <2>2, <2>3 DEF Vacant, Tombstone, LiveStates
  <2>7. \A s \in Slots : Tombstone(s) => word'[s].generation = word[s].generation
    BY Zenon, <2>2, <2>3
  <2>8. ReapersAgree'
    BY Zenon, <1>5, <2>6, <2>7, ReapersKept DEF Custody
  <2>9. FreersAgree' /\ ListedOnce'
    BY Zenon, <1>6, <1>7, <2>6, FreersKept DEF Custody
  <2>10. QED  BY Zenon, <2>4, <2>5, <2>8, <2>9 DEF Custody
<1>8. CASE ~word[t].on_cpu
  <2>1. word' = [word EXCEPT ![t] = vacated(moved(word[t], "Dead"))]
    BY Zenon, <1>1, <1>8 DEF death_edge
  <2>2. /\ word'[t] = vacated(moved(word[t], "Dead"))
        /\ \A s \in Slots : s # t => word'[s] = word[s]
    BY Zenon, <2>1, OneWord
  <2>3. ~word'[t].on_cpu /\ word'[t].state = "Vacant"
    BY <2>2 DEF vacated
  <2>4. ClaimsAgree'
    <3>1. \A s \in Slots : word'[s].on_cpu <=> word[s].on_cpu
      BY Zenon, <1>8, <2>2, <2>3
    <3>2. \A s \in Slots : word[s].on_cpu =>
            word'[s].generation = word[s].generation /\ word'[s].state # "Vacant"
      BY Zenon, <1>8, <2>2 DEF Custody, ClaimsAgree
    <3>3. QED  BY Zenon, <3>1, <3>2, ClaimsKept DEF Custody
  <2>5. OccupiedAgree'
    BY <1>3, <2>2, <2>3 DEF Custody, OccupiedAgree
  <2>6. /\ \A s \in Slots : Vacant(s)' <=> Vacant(s) \/ s = t
        /\ \A s \in Slots : Tombstone(s)' <=> Tombstone(s)
        /\ ~Vacant(t) /\ ~Tombstone(t)
    BY <1>2, <2>2, <2>3 DEF Vacant, Tombstone, LiveStates
  <2>7. \A s \in Slots : Tombstone(s) => word'[s].generation = word[s].generation
    BY Zenon, <2>2, <2>6
  <2>8. ReapersAgree'
    BY Zenon, <1>5, <2>6, <2>7, ReapersKept DEF Custody
  <2>9. FreersAgree' /\ ListedOnce'
    BY Zenon, <1>2, <1>6, <1>8, <2>6, FreersGain DEF Custody
  <2>10. QED  BY Zenon, <2>4, <2>5, <2>8, <2>9 DEF Custody
<1>9. QED  BY <1>7, <1>8

\* The registry hold of a death: a reclaimed slot is pushed.
LEMMA PassCustody ==
    ASSUME TypeOK, Custody, \A w \in Workers : LabelAgrees(w)',
           NEW w \in Workers, death_pass(w)
    PROVE  Custody'
<1>1. PICK t \in Slots : t = Slot(dying[w].pid)
  BY SlotTypes
<1>2. /\ pc[w] = "pass" /\ pc'[w] \in {"kills", "killing"}
      /\ \A v \in Workers : v # w => pc'[v] = pc[v] /\ dying'[v] = dying[v]
      /\ dying'[w] = NoDeath
      /\ UNCHANGED <<word, execution, published, cur, reap>>
  BY Zenon DEF death_pass, goto, slotVars, TypeOK, TableTypeOK, DriverTypeOK
<1>3. registry'.free = IF dying[w].reclaimed THEN Append(registry.free, t) ELSE registry.free
  BY <1>1 DEF death_pass, notify_exit, TypeOK, TableTypeOK, Registries
<1>4. ~dying'[w].reclaimed
  BY <1>2 DEF NoDeath
<1>5. \A v \in Workers, s \in Slots : Reaps(v, s)' <=> Reaps(v, s)
  BY Zenon, <1>2 DEF Reaps
<1>6. \A s \in Slots : (Vacant(s)' <=> Vacant(s)) /\ (Tombstone(s)' <=> Tombstone(s))
  BY Zenon, <1>2 DEF Vacant, Tombstone
<1>7. ReapersAgree'
  BY Zenon, <1>2, <1>5, <1>6, ReapersKept DEF Custody
<1>8. ClaimsAgree' /\ OccupiedAgree'
  BY Zenon, <1>2 DEF Custody, ClaimsAgree, OccupiedAgree
<1>9. \A s \in Slots : ~Frees(w, s)' /\ (Frees(w, s) => s = t /\ dying[w].reclaimed)
  BY Zenon, <1>1, <1>2, <1>4 DEF Frees
<1>10. \A v \in Workers, s \in Slots : v # w => (Frees(v, s)' <=> Frees(v, s))
  BY Zenon, <1>2 DEF Frees
<1>11. FreersAgree' /\ ListedOnce'
  <2>1. CASE dying[w].reclaimed
    <3>1. Frees(w, t)
      BY Zenon, <1>1, <2>1 DEF Frees
    <3>2. \A v \in Workers : Frees(v, t) => v = w
      BY Zenon, <3>1 DEF Custody, FreersAgree
    <3>3. \A v \in Workers, s \in Slots : Frees(v, s)' <=> Frees(v, s) /\ s # t
      BY Zenon, <1>9, <1>10, <3>2
    <3>4. QED  BY Zenon, <1>2, <1>3, <1>6, <2>1, <3>1, <3>3, FreersPush DEF Custody
  <2>2. CASE ~dying[w].reclaimed
    <3>1. \A v \in Workers, s \in Slots : Frees(v, s)' <=> Frees(v, s)
      BY Zenon, <1>9, <1>10, <2>2
    <3>2. QED  BY Zenon, <1>2, <1>3, <1>6, <2>2, <3>1, FreersKept DEF Custody
  <2>3. QED  BY <2>1, <2>2
<1>12. QED  BY Zenon, <1>7, <1>8, <1>11 DEF Custody

\* The slot a spawn takes is vacant, unowned, and listed or not yet published.
LEMMA SpawnSlot ==
    ASSUME TypeOK, Custody, NEW t \in Slots, t = spawn_slot
    PROVE  /\ Vacant(t) /\ ~word[t].on_cpu
           /\ registry.free # <<>> => Listed(t) /\ t < published
           /\ registry.free = <<>> => ~Listed(t) /\ t = published
<1>1. registry.free \in Seq(Slots) /\ Distinct(registry.free)
  BY Zenon, SlotTypes DEF Custody, ListedOnce, Distinct
<1>2. CASE registry.free # <<>>
  <2>1. Listed(t)
    BY Zenon, <1>1, <1>2, PopList DEF spawn_slot, Listed, InList
  <2>2. QED  BY Zenon, <1>2, <2>1 DEF Custody, FreersAgree, ClaimsAgree, Vacant
<1>3. CASE registry.free = <<>>
  <2>1. t = published /\ ~(t < published)
    BY <1>3 DEF spawn_slot, Slots
  <2>2. QED  BY Zenon, <1>3, <2>1
               DEF Custody, OccupiedAgree, FreersAgree, ClaimsAgree, Vacant
<1>4. QED  BY <1>2, <1>3

\* table_spawn: a listed or fresh slot gets an occupant and loses its place.
LEMMA SpawnCustody ==
    ASSUME TypeOK, Custody, \A w \in Workers : LabelAgrees(w)',
           NEW w \in Workers, table_spawn(w), is_alive(cur[w])
    PROVE  Custody'
<1>1. spawn_fits /\ spawn(cur[w]) /\ pc[w] = "spawning" /\ goto(w, "run")
      /\ UNCHANGED <<dying, cur, reap>>
  BY Zenon DEF table_spawn
<1>2. PICK t \in Slots : t = spawn_slot
  BY <1>1 DEF spawn_fits
<1>3. word' = [word EXCEPT ![t] = occupied(spawn_generation)]
  BY Zenon, <1>1, <1>2 DEF spawn
<1>4. word'[t] = occupied(spawn_generation) /\ \A s \in Slots : s # t => word'[s] = word[s]
  BY Zenon, <1>3, OneWord
<1>5. /\ ~word'[t].on_cpu /\ word'[t].state = "Created"
      /\ word'[t].generation \in 1 .. MaxGeneration
  <2>1. word[t].generation \in Nat
    BY Zenon, SlotTypes
  <2>2. spawn_generation \in 1 .. MaxGeneration
    BY <1>1, <1>2, <2>1, TableAssumption DEF spawn_fits, spawn_generation
  <2>3. QED  BY <1>4, <2>2 DEF occupied
<1>6. Vacant(t) /\ ~word[t].on_cpu
  BY Zenon, <1>2, SpawnSlot
<1>7. /\ execution'[t] = Body /\ \A s \in Slots : s # t => execution'[s] = execution[s]
      /\ pc'[w] = "run" /\ \A v \in Workers : v # w => pc'[v] = pc[v]
  BY Zenon, <1>1, <1>2 DEF spawn, goto, TypeOK, TableTypeOK, DriverTypeOK
<1>8. \A v \in Workers, s \in Slots :
        (Reaps(v, s)' <=> Reaps(v, s)) /\ (Frees(v, s)' <=> Frees(v, s))
  BY Zenon, <1>1, <1>7 DEF Reaps, Frees
<1>9. /\ \A s \in Slots : Vacant(s)' <=> Vacant(s) /\ s # t
      /\ \A s \in Slots : Tombstone(s)' <=> Tombstone(s)
  BY <1>4, <1>5, <1>6 DEF Vacant, Tombstone
<1>10. published \in Nat /\ published' \in Nat /\ t \in Nat /\ \A s \in Slots : s \in Nat
  BY <1>1 DEF spawn, TypeOK, TableTypeOK, Slots
<1>11. \A s \in Slots : s < published' <=> s < published \/ s = t
  <2>1. CASE registry.free # <<>>
    <3>1. published' = published /\ t < published
      BY Zenon, <1>1, <1>2, <2>1, SpawnSlot DEF spawn
    <3>2. QED  BY <3>1
  <2>2. CASE registry.free = <<>>
    <3>1. published' = published + 1 /\ t = published
      BY Zenon, <1>1, <1>2, <2>2, SpawnSlot DEF spawn
    <3>2. QED  BY <1>10, <3>1
  <2>3. QED  BY <2>1, <2>2
<1>12. Distinct(registry'.free) /\ \A s \in Slots : Listed(s)' <=> Listed(s) /\ s # t
  <2>1. registry.free \in Seq(Slots) /\ Distinct(registry.free)
    BY Zenon, SlotTypes DEF Custody, ListedOnce, Distinct
  <2>2. registry'.free = IF registry.free # <<>>
                         THEN SubSeq(registry.free, 1, Len(registry.free) - 1)
                         ELSE registry.free
    BY <1>1 DEF spawn, TypeOK, TableTypeOK, Registries
  <2>3. CASE registry.free # <<>>
    <3>1. t = registry.free[Len(registry.free)]
      BY Zenon, <1>2, <2>3 DEF spawn_slot
    <3> DEFINE f == registry.free
               g == SubSeq(f, 1, Len(f) - 1)
    <3>2. /\ registry'.free = g /\ t = f[Len(f)]
          /\ f \in Seq(Slots) /\ f # <<>> /\ Distinct(f)
      BY Zenon, <2>1, <2>2, <2>3, <3>1
    <3> HIDE DEF f
    <3>3. Distinct(g) /\ \A s \in Slots : InList(g, s) <=> InList(f, s) /\ s # t
      BY Zenon, <3>2, PopList
    <3> HIDE DEF g
    <3>4. QED  BY Zenon, <3>2, <3>3 DEF Listed, InList, f
  <2>4. CASE registry.free = <<>>
    <3>1. registry'.free = registry.free /\ ~Listed(t)
      BY Zenon, <1>2, <2>2, <2>4, SpawnSlot
    <3>2. QED  BY Zenon, <2>1, <3>1 DEF Listed
  <2>5. QED  BY <2>3, <2>4
<1>13. ClaimsAgree'
  <2>1. \A s \in Slots : word'[s].on_cpu <=> word[s].on_cpu
    BY Zenon, <1>4, <1>5, <1>6
  <2>2. \A s \in Slots : word[s].on_cpu =>
          word'[s].generation = word[s].generation /\ word'[s].state # "Vacant"
    BY Zenon, <1>4, <1>6 DEF Custody, ClaimsAgree
  <2>3. QED  BY Zenon, <1>1, <2>1, <2>2, ClaimsKept DEF Custody
<1>14. OccupiedAgree'
  <2>1. ASSUME NEW s \in Slots, word'[s].state # "Vacant"
        PROVE  /\ s < published' /\ word'[s].generation \in 1 .. MaxGeneration
               /\ execution'[s].at # "none"
    <3>1. CASE s = t
      BY <1>5, <1>7, <1>11, <3>1 DEF Body
    <3>2. CASE s # t
      BY Zenon, <1>4, <1>7, <1>11, <2>1, <3>2 DEF Custody, OccupiedAgree
    <3>3. QED  BY <3>1, <3>2
  <2>2. QED  BY Zenon, <2>1 DEF OccupiedAgree
<1>15. ReapersAgree'
  <2>1. \A s \in Slots : Tombstone(s) => word'[s].generation = word[s].generation
    BY Zenon, <1>4, <1>5, <1>9 DEF Tombstone
  <2>2. QED  BY Zenon, <1>1, <1>8, <1>9, <2>1, ReapersKept DEF Custody
<1>16. FreersAgree' /\ ListedOnce'
  <2>1. \A v \in Workers : ~Frees(v, t)
    <3>1. CASE registry.free # <<>>
      BY Zenon, <1>2, <3>1, SpawnSlot DEF Custody, FreersAgree
    <3>2. CASE registry.free = <<>>
      <4>1. t = published /\ ~(t < published)
        BY <1>2, <1>10, <3>2, SpawnSlot
      <4>2. QED  BY Zenon, <4>1 DEF Custody, FreersAgree
    <3>3. QED  BY <3>1, <3>2
  <2>2. ASSUME NEW s \in Slots, NEW v \in Workers, Frees(v, s)'
        PROVE  /\ Vacant(s)' /\ s < published' /\ ~Listed(s)'
               /\ \A u \in Workers : Frees(u, s)' => u = v
    <3>1. Frees(v, s) /\ s # t
      BY Zenon, <1>8, <2>1, <2>2
    <3>2. /\ Vacant(s) /\ s < published /\ ~Listed(s)
          /\ \A u \in Workers : Frees(u, s) => u = v
      BY Zenon, <3>1 DEF Custody, FreersAgree, Vacant
    <3>3. QED  BY Zenon, <1>8, <1>9, <1>11, <1>12, <3>1, <3>2 DEF Vacant
  <2>3. ASSUME NEW s \in Slots, Listed(s)' PROVE Vacant(s)' /\ s < published'
    BY Zenon, <1>9, <1>11, <1>12, <2>3 DEF Custody, FreersAgree, Vacant
  <2>4. ASSUME NEW s \in Slots, Vacant(s)', s < published'
        PROVE  Listed(s)' \/ \E v \in Workers : Frees(v, s)'
    BY Zenon, <1>8, <1>9, <1>11, <1>12, <2>4 DEF Custody, FreersAgree, Vacant
  <2>5. FreersAgree'
    BY Zenon, <2>2, <2>3, <2>4 DEF FreersAgree, Vacant
  <2>6. QED  BY Zenon, <1>12, <2>5 DEF ListedOnce, Distinct
<1>17. QED  BY Zenon, <1>13, <1>14, <1>15, <1>16 DEF Custody

\* The environment and stuttering are quiet.
LEMMA EnvironmentQuiet ==
    ASSUME TypeOK, sigterm \/ Tick \/ reactor_poll \/ apply_wakers \/ UNCHANGED vars
    PROVE  Quiet /\ UNCHANGED driverVars
<1> USE DEF vars, tableVars, slotVars, driverVars
<1>1. CASE sigterm \/ Tick \/ reactor_poll \/ UNCHANGED vars
  BY Zenon, <1>1 DEF sigterm, Tick, reactor_poll, Quiet, WordsQuiet, CellsQuiet, ReapsQuiet
<1>2. CASE apply_wakers
  <2>1. PICK p \in events : promote(p, promotes_io(p))
    BY Zenon, <1>2 DEF apply_wakers
  <2>2. p \in AnyPid /\ (promotes_io(p) => is_alive(p))
    BY PidTypes DEF TypeOK, DriverTypeOK, promotes_io
  <2>3. WordsQuiet
    BY Zenon, <2>1, <2>2, PromoteQuiet
  <2>4. QED  BY Zenon, <1>2, <2>3 DEF apply_wakers, Quiet, CellsQuiet, ReapsQuiet
<1>3. QED  BY <1>1, <1>2

\* A kill, and a process's own end: a death edge, or nothing to kill.
LEMMA KillCustody ==
    ASSUME TypeOK, Custody, \A w \in Workers : LabelAgrees(w)', NEW w \in Workers,
           koja_rt_kill(w) \/ kill_staged(w) \/ mark_dead_if_alive(w)
    PROVE  Custody'
<1>1. /\ pc[w] \in {"run", "killing", "dying"}
      /\ UNCHANGED <<published, registry, cur, reap>>
  BY Zenon DEF koja_rt_kill, kill_staged, mark_dead_if_alive, Calls
<1>2. PICK p, forced, l :
        /\ p \in AnyPid /\ l \in {"kills", "killing"}
        /\ IF is_alive(p) THEN death_edge(w, p, forced) /\ goto(w, "pass")
           ELSE UNCHANGED <<word, execution, dying>> /\ goto(w, l)
  <2>1. CASE koja_rt_kill(w)
    <3>1. Known \subseteq AnyPid
      BY PidTypes DEF Known
    <3>2. QED  BY Zenon, <2>1, <3>1 DEF koja_rt_kill, kill
  <2>2. CASE kill_staged(w)
    <3>1. hand[w].kills \subseteq AnyPid
      BY DEF TypeOK, DriverTypeOK, Hands
    <3>2. PICK p \in hand[w].kills : kill(w, p, IF hand[w].kills = {p} THEN "kills" ELSE "killing")
      BY Zenon, <2>2 DEF kill_staged
    <3>3. QED  BY Zenon, <3>1, <3>2 DEF kill
  <2>3. CASE mark_dead_if_alive(w)
    BY Zenon, <2>3, SlotTypes DEF mark_dead_if_alive
  <2>4. QED  BY <2>1, <2>2, <2>3
<1>3. CASE is_alive(p)
  BY Zenon, <1>1, <1>2, <1>3, DeathCustody
<1>4. CASE ~is_alive(p)
  <2>1. ReapsQuiet
    BY Zenon, <1>1, <1>2, <1>4 DEF ReapsQuiet, goto, TypeOK, DriverTypeOK
  <2>2. Quiet
    BY Zenon, <1>1, <1>2, <1>4, <2>1 DEF Quiet, WordsQuiet, CellsQuiet
  <2>3. QED  BY Zenon, <2>2, CustodyQuiet
<1>5. QED  BY <1>3, <1>4

\* At start main occupies slot 0, no worker holds anything and nothing is free.
LEMMA InitCustody ==
    Init => Custody
<1> SUFFICES ASSUME Init PROVE Custody
  OBVIOUS
<1>1. /\ \A w \in Workers : pc[w] = "loop" /\ cur[w] = NoPid /\ ~dying[w].reclaimed
      /\ registry.free = <<>> /\ published = 1
  BY DEF Init, FreshRegistry, NoDeath
<1>2. \A w \in Workers : LabelAgrees(w)
  BY <1>1 DEF LabelAgrees, OwningLabels, RunLabels, SettleLabels, KillLabels
<1>3. \A s \in Slots : /\ ~word[s].on_cpu /\ word[s].state = IF s = 0 THEN "Created" ELSE "Vacant"
                       /\ s = 0 => word[s].generation = 1 /\ execution[s].at = "body"
  BY DEF Init, occupied, FreshWord, Body
<1>4. ClaimsAgree /\ OccupiedAgree
  BY <1>1, <1>3, TableAssumption DEF ClaimsAgree, OccupiedAgree
<1>5. \A w \in Workers, s \in Slots : ~Reaps(w, s) /\ ~Frees(w, s)
  BY Zenon, <1>1 DEF Reaps, Frees
<1>6. ReapersAgree
  BY <1>3, <1>5 DEF ReapersAgree
<1>7. DOMAIN registry.free = {}
  BY <1>1
<1>8. FreersAgree /\ ListedOnce
  <2>1. \A s \in Slots : ~Listed(s)
    BY Zenon, <1>7 DEF Listed
  <2>2. \A s \in Slots : ~(word[s].state = "Vacant" /\ s < published)
    BY <1>1, <1>3 DEF Slots
  <2>3. QED  BY Zenon, <1>5, <1>7, <2>1, <2>2 DEF FreersAgree, ListedOnce
<1>9. QED  BY Zenon, <1>2, <1>4, <1>6, <1>8 DEF Custody

\* Every slot has exactly the custodian its word calls for: the claims of
\* try_claim and after_switch, the reclaims of a death and the freelist never
\* disagree, whatever the workers' interleaving.
THEOREM CustodyHolds == Spec => []Custody
<1>1. TypeOK /\ Custody /\ [Next]_vars => Custody'
  <2> SUFFICES ASSUME TypeOK, Custody, [Next]_vars PROVE Custody'
    OBVIOUS
  <2>1. ASSUME NEW w \in Workers, Runtime(w) \/ Intrinsic(w) PROVE Custody'
    <3>1. \A v \in Workers : LabelAgrees(v)'
      BY Zenon, <2>1, LoopLabels, ResumeLabels, IntrinsicLabels DEF Custody, Runtime
    <3>2. CASE Claim(w) \/ SwitchOut(w) \/ Loop(w)
      BY Zenon, <3>1, <3>2, LoopQuiet, CustodyQuiet, ClaimCustody, SwitchCustody,
         ReclaimCustody, FreeCustody DEF Claim, SwitchOut, Loop
    <3>3. CASE Settle(w) \/ Resume(w)
      <4>1. CASE table_spawn(w) /\ ~is_alive(cur[w])
        <5>1. pc'[w] = "run" /\ pc[w] = "spawning" /\ \A v \in Workers : v # w => pc'[v] = pc[v]
          BY Zenon, <4>1 DEF table_spawn, goto, TypeOK, DriverTypeOK
        <5>2. Quiet
          BY Zenon, <4>1, <5>1 DEF table_spawn, Quiet, WordsQuiet, CellsQuiet, ReapsQuiet
        <5>3. QED  BY Zenon, <3>1, <5>2, CustodyQuiet
      <4>2. CASE ~(table_spawn(w) /\ ~is_alive(cur[w]))
        BY Zenon, <3>1, <3>3, <4>2, ResumeQuiet, CustodyQuiet, PassCustody, KillCustody,
           SpawnCustody DEF Settle, Resume
      <4>3. QED  BY <4>1, <4>2
    <3>4. CASE Intrinsic(w)
      BY Zenon, <3>1, <3>4, IntrinsicQuiet, CustodyQuiet, KillCustody DEF Intrinsic
    <3>5. QED  BY Zenon, <2>1, <3>2, <3>3, <3>4 DEF Runtime
  <2>2. CASE sigterm \/ Tick \/ reactor_poll \/ apply_wakers \/ UNCHANGED vars
    <3>1. Quiet /\ UNCHANGED driverVars
      BY Zenon, <2>2, EnvironmentQuiet
    <3>2. \A v \in Workers : LabelAgrees(v)'
      <4>1. pc' = pc /\ cur' = cur /\ hand' = hand /\ dying' = dying
        BY Zenon, <3>1 DEF Quiet, driverVars
      <4>2. QED  BY <4>1 DEF Custody, LabelAgrees
    <3>3. QED  BY Zenon, <3>1, <3>2, CustodyQuiet
  <2>3. QED  BY Zenon, <2>1, <2>2 DEF Next
<1>2. QED  BY Zenon, <1>1, TypeCorrect, InitCustody, PTL DEF Spec

\* The claim bit is ownership: with_execution's contract, for any number of
\* workers and slots.
THEOREM OneOwnerHolds == Spec => []OneOwner
<1>1. TypeOK /\ Custody => OneOwner
  <2> SUFFICES ASSUME TypeOK, Custody PROVE OneOwner
    OBVIOUS
  <2>1. ASSUME NEW w \in Workers, cur[w] # NoPid
        PROVE  here(cur[w]) /\ word[me(w)].on_cpu /\ frame(w) # NoExecution
    <3>1. me(w) \in Slots
      BY Zenon, SlotTypes DEF me
    <3>2. word[me(w)].on_cpu /\ word[me(w)].generation = Generation(cur[w])
      BY Zenon, <2>1 DEF Custody, ClaimsAgree, me
    <3>3. frame(w).at # "none"
      BY Zenon, <3>1, <3>2 DEF Custody, ClaimsAgree, OccupiedAgree, frame
    <3>4. NoExecution.at = "none"
      BY DEF NoExecution, Body
    <3>5. QED  BY Zenon, <3>2, <3>3, <3>4 DEF here, me
  <2>2. QED  BY Zenon, <2>1 DEF Custody, ClaimsAgree, OneOwner
<1>2. QED  BY Zenon, <1>1, TypeCorrect, CustodyHolds, PTL

\* No slot is leaked and none is handed out twice.
THEOREM SlotsConservedHolds == Spec => []SlotsConserved
<1>1. TypeOK /\ Custody => SlotsConserved
  <2> SUFFICES ASSUME TypeOK, Custody PROVE SlotsConserved
    OBVIOUS
  <2>1. \A s \in Slots : Freeing(s) = {w \in Workers : Frees(w, s)}
    BY Zenon DEF Freeing, Frees
  <2>2. ASSUME NEW s \in Slots
        PROVE  IF s < published /\ word[s].state = "Vacant"
               THEN /\ Listed(s) => Freeing(s) = {}
                    /\ ~Listed(s) => \E w \in Workers : Freeing(s) = {w}
               ELSE ~Listed(s) /\ Freeing(s) = {}
    <3>1. Listed(s) => Freeing(s) = {}
      BY Zenon, <2>1 DEF Custody, FreersAgree
    <3>2. ASSUME ~Listed(s), s < published, word[s].state = "Vacant"
          PROVE  \E w \in Workers : Freeing(s) = {w}
      <4>1. PICK w \in Workers : Frees(w, s)
        BY Zenon, <3>2 DEF Custody, FreersAgree
      <4>2. \A v \in Workers : Frees(v, s) <=> v = w
        BY Zenon, <4>1 DEF Custody, FreersAgree
      <4>3. QED  BY Zenon, <2>1, <4>2
    <3>3. ASSUME ~(s < published /\ word[s].state = "Vacant")
          PROVE  ~Listed(s) /\ Freeing(s) = {}
      BY Zenon, <2>1, <3>3 DEF Custody, FreersAgree
    <3>4. QED  BY Zenon, <3>1, <3>2, <3>3
  <2>3. ASSUME NEW s \in Slots, word[s].state = "Dead", ~word[s].on_cpu
        PROVE  \E w \in Workers : {v \in Workers : pc[v] = "reclaim" /\ reap[v] =
                                       <<s, word[s].generation>>} = {w}
    <3>1. PICK w \in Workers : Reaps(w, s)
      BY Zenon, <2>3 DEF Custody, ReapersAgree
    <3>2. ASSUME NEW v \in Workers
          PROVE  Reaps(v, s) <=> pc[v] = "reclaim" /\ reap[v] = <<s, word[s].generation>>
      <4>1. Reaps(v, s) => word[s].generation = Generation(reap[v])
        BY Zenon DEF Custody, ReapersAgree
      <4>2. reap[v] \in AnyPid
        BY Zenon, SlotTypes
      <4>3. QED  BY <4>1, <4>2 DEF Reaps, Slot, Generation, AnyPid
    <3>3. \A v \in Workers : Reaps(v, s) <=> v = w
      BY Zenon, <3>1 DEF Custody, ReapersAgree
    <3>4. QED  BY Zenon, <3>2, <3>3
  <2>4. QED  BY Zenon, <2>2, <2>3 DEF SlotsConserved, Listed, Custody, ListedOnce
<1>2. QED  BY Zenon, <1>1, TypeCorrect, CustodyHolds, PTL

------------------------------------------------------------------------------
Owned(p) == here(p) /\ word[Slot(p)].on_cpu

\* The phase by the generation and the state of the word.
LEMMA PhaseCases ==
    ASSUME TypeOK, NEW p \in Pids
    PROVE  LET wd == word[Slot(p)]
           IN  /\ wd.generation > Generation(p) => phase_of(p) = "freed"
               /\ wd.generation < Generation(p) => phase_of(p) = "unborn"
               /\ wd.generation = Generation(p) =>
                    /\ wd.state = "Dead" => phase_of(p) = "dead"
                    /\ wd.state = "Vacant" => phase_of(p) = "unborn"
                    /\ wd.state \in LiveStates => phase_of(p) = "live"
<1>1. Slot(p) \in Slots /\ Generation(p) \in Nat /\ word[Slot(p)].generation \in Nat
  BY Zenon, PidTypes, SlotTypes
<1>2. QED  BY <1>1 DEF phase_of, LiveStates

\* A quiet word keeps every phase and every claim.
LEMMA QuietPhases ==
    ASSUME TypeOK, TypeOK', WordsQuiet
    PROVE  UNCHANGED Lifetime!lifetimeVars
<1>1. ASSUME NEW p \in Pids PROVE phase_of(p)' = phase_of(p) /\ Owned(p)' = Owned(p)
  <2>1. PICK s \in Slots : s = Slot(p)
    BY PidTypes
  <2>2. /\ word'[s].generation = word[s].generation /\ word'[s].on_cpu = word[s].on_cpu
        /\ \/ word'[s].state = word[s].state
           \/ word'[s].state \in LiveStates /\ word[s].state \in LiveStates
    BY Zenon DEF WordsQuiet
  <2>3. QED  BY <2>1, <2>2 DEF phase_of, Owned, here, LiveStates
<1>2. QED  BY Zenon, <1>1 DEF Lifetime!lifetimeVars, Owned

\* What one PID's step is, seen as functions of the PIDs.
LEMMA PhaseStep ==
    ASSUME NEW q \in Pids, NEW x,
           \A p \in Pids : phase_of(p)' = IF p = q THEN x ELSE phase_of(p)
    PROVE  [p \in Pids |-> phase_of(p)]' = [[p \in Pids |-> phase_of(p)] EXCEPT ![q] = x]
BY Zenon DEF phase_of

\* A claim or a release changes the abstract owned at one PID.
LEMMA OwnedStep ==
    ASSUME NEW q \in Pids, NEW x,
           \A p \in Pids : Owned(p)' = IF p = q THEN x ELSE Owned(p)
    PROVE  [p \in Pids |-> Owned(p)]' = [[p \in Pids |-> Owned(p)] EXCEPT ![q] = x]
BY Zenon DEF Owned, here

\* An edge of one word moves at most the PID of that word's generation.
LEMMA OtherPids ==
    ASSUME TypeOK, TypeOK', NEW t \in Slots, \A s \in Slots : s # t => word'[s] = word[s],
           word'[t].generation \in {word[t].generation, word[t].generation + 1},
           word'[t].generation = word[t].generation \/ word'[t].state = "Vacant",
           ~word'[t].on_cpu \/ word'[t].generation = word[t].generation,
           NEW p \in Pids, p # <<t, word[t].generation>>
    PROVE  phase_of(p)' = phase_of(p) /\ (Owned(p)' <=> Owned(p))
<1>1. Slot(p) \in Slots /\ Generation(p) \in Nat /\ p = <<Slot(p), Generation(p)>>
  BY DEF Pids, Slot, Generation
<1>2. CASE Slot(p) # t
  BY <1>1, <1>2 DEF phase_of, Owned, here
<1>3. CASE Slot(p) = t
  <2>1. Generation(p) # word[t].generation /\ word[t].generation \in Nat
    BY Zenon, <1>1, <1>3, SlotTypes
  <2>2. QED  BY <1>1, <1>3, <2>1 DEF phase_of, Owned, here, LiveStates
<1>4. QED  BY <1>2, <1>3

\* try_claim is Claim.
LEMMA ClaimStep ==
    ASSUME TypeOK, TypeOK', NEW q \in Pids, NEW t \in Slots, q = <<t, word[t].generation>>,
           \A s \in Slots : s # t => word'[s] = word[s],
           word'[t].generation = word[t].generation,
           word[t].state \in LiveStates, word'[t].state \in LiveStates,
           ~word[t].on_cpu, word'[t].on_cpu
    PROVE  Lifetime!Claim(q)
<1>1. Slot(q) = t /\ Generation(q) = word[t].generation
  BY DEF Slot, Generation
<1>2. phase_of(q) = "live" /\ phase_of(q)' = "live"
  BY <1>1 DEF phase_of, LiveStates
<1>3. Owned(q) = FALSE /\ Owned(q)' = TRUE
  BY <1>1 DEF Owned, here
<1>4. \A p \in Pids : p # q => phase_of(p)' = phase_of(p) /\ (Owned(p)' <=> Owned(p))
  BY Zenon, OtherPids
<1>5. [p \in Pids |-> phase_of(p)]' = [p \in Pids |-> phase_of(p)]
  BY Zenon, <1>2, <1>4
<1>6. [p \in Pids |-> Owned(p)]' = [[p \in Pids |-> Owned(p)] EXCEPT ![q] = TRUE]
  <2>1. \A p \in Pids : Owned(p)' = IF p = q THEN TRUE ELSE Owned(p)
    BY Zenon, <1>3, <1>4 DEF Owned, here
  <2>2. QED  BY Zenon, <2>1, OwnedStep
<1>7. QED  BY Zenon, <1>2, <1>3, <1>5, <1>6 DEF Lifetime!Claim, Owned

\* after_switch is Release.
LEMMA ReleaseStep ==
    ASSUME TypeOK, TypeOK', NEW q \in Pids, NEW t \in Slots, q = <<t, word[t].generation>>,
           \A s \in Slots : s # t => word'[s] = word[s],
           word'[t].generation = word[t].generation, word'[t].state = word[t].state,
           word[t].on_cpu, ~word'[t].on_cpu
    PROVE  Lifetime!Release(q)
<1>1. Slot(q) = t /\ Generation(q) = word[t].generation
  BY DEF Slot, Generation
<1>2. phase_of(q)' = phase_of(q)
  BY <1>1 DEF phase_of
<1>3. Owned(q) = TRUE /\ Owned(q)' = FALSE
  BY <1>1, SlotTypes DEF Owned, here
<1>4. \A p \in Pids : p # q => phase_of(p)' = phase_of(p) /\ (Owned(p)' <=> Owned(p))
  BY Zenon, OtherPids
<1>5. [p \in Pids |-> phase_of(p)]' = [p \in Pids |-> phase_of(p)]
  BY Zenon, <1>2, <1>4
<1>6. [p \in Pids |-> Owned(p)]' = [[p \in Pids |-> Owned(p)] EXCEPT ![q] = FALSE]
  <2>1. \A p \in Pids : Owned(p)' = IF p = q THEN FALSE ELSE Owned(p)
    BY Zenon, <1>3, <1>4 DEF Owned, here
  <2>2. QED  BY Zenon, <2>1, OwnedStep
<1>7. QED  BY Zenon, <1>3, <1>5, <1>6 DEF Lifetime!Release, Owned

\* A death edge on an owned process is Die, on an unowned one Vanish, and
\* reclaim is Free: the claims stay, the phase of one PID moves.
LEMMA EndStep ==
    ASSUME TypeOK, TypeOK', NEW q \in Pids, NEW t \in Slots, q = <<t, word[t].generation>>,
           \A s \in Slots : s # t => word'[s] = word[s],
           \/ /\ word[t].state \in LiveStates /\ word'[t].state = "Dead"
              /\ word[t].on_cpu /\ word'[t].on_cpu
              /\ word'[t].generation = word[t].generation
           \/ /\ word[t].state \in LiveStates \cup {"Dead"} /\ word'[t].state = "Vacant"
              /\ ~word[t].on_cpu /\ ~word'[t].on_cpu
              /\ word'[t].generation = word[t].generation + 1
    PROVE  Lifetime!Die(q) \/ Lifetime!Free(q) \/ Lifetime!Vanish(q)
<1>1. Slot(q) = t /\ Generation(q) = word[t].generation
  BY DEF Slot, Generation
<1>2. word[t].generation \in Nat /\ word[t].on_cpu \in BOOLEAN /\ word'[t].on_cpu \in BOOLEAN
  BY DEF TypeOK, TableTypeOK, WordState
<1>3. \/ phase_of(q) = "live" /\ Owned(q) /\ phase_of(q)' = "dead"
      \/ phase_of(q) = "live" /\ ~Owned(q) /\ phase_of(q)' = "freed"
      \/ phase_of(q) = "dead" /\ ~Owned(q) /\ phase_of(q)' = "freed"
  <2>1. Owned(q) <=> word[t].on_cpu
    BY Zenon, <1>1 DEF Owned, here
  <2>2. phase_of(q) = IF word[t].state = "Dead" THEN "dead"
                      ELSE IF word[t].state \in LiveStates THEN "live" ELSE phase_of(q)
    BY <1>1, <1>2 DEF phase_of, LiveStates
  <2>3. word'[t].generation = word[t].generation /\ word'[t].state = "Dead" => phase_of(q)' = "dead"
    BY <1>1, <1>2 DEF phase_of, LiveStates
  <2>4. word'[t].generation = word[t].generation + 1 => phase_of(q)' = "freed"
    BY <1>1, <1>2 DEF phase_of
  <2>5. "Dead" \notin LiveStates
    BY DEF LiveStates
  <2> QED BY Zenon, <2>1, <2>2, <2>3, <2>4, <2>5
<1>4. Owned(q)' <=> Owned(q)
  BY <1>1, <1>2 DEF Owned, here
<1>5. \A p \in Pids : p # q => phase_of(p)' = phase_of(p) /\ (Owned(p)' <=> Owned(p))
  BY Zenon, OtherPids
<1>6. [p \in Pids |-> Owned(p)]' = [p \in Pids |-> Owned(p)]
  BY Zenon, <1>4, <1>5 DEF Owned, here
<1>7. [p \in Pids |-> phase_of(p)]' =
        [[p \in Pids |-> phase_of(p)] EXCEPT ![q] = phase_of(q)']
  <2>1. \A p \in Pids : phase_of(p)' = IF p = q THEN phase_of(q)' ELSE phase_of(p)
    BY Zenon, <1>5
  <2>2. QED  BY Zenon, <2>1, PhaseStep
<1>8. QED
  BY Zenon, <1>3, <1>6, <1>7 DEF Lifetime!Die, Lifetime!Free, Lifetime!Vanish, Owned

\* spawn is Birth: the slot's previous generations are all freed.
LEMMA BirthStep ==
    ASSUME TypeOK, TypeOK', NEW t \in Slots, NEW g \in 1 .. MaxGeneration,
           \A s \in Slots : s # t => word'[s] = word[s],
           word[t].state = "Vacant", ~word[t].on_cpu,
           g = IF word[t].generation = 0 THEN 1 ELSE word[t].generation,
           word'[t].generation = g, word'[t].state = "Created", ~word'[t].on_cpu
    PROVE  Lifetime!Birth(<<t, g>>)
<1> DEFINE q == <<t, g>>
<1>1. q \in Pids /\ Slot(q) = t /\ Generation(q) = g
  BY DEF Pids, Slot, Generation
<1>2. word[t].generation \in Nat
  BY Zenon, SlotTypes
<1>3. phase_of(q) = "unborn" /\ phase_of(q)' = "live"
  BY <1>1, <1>2 DEF phase_of, LiveStates
<1>4. \A p \in Pids : Owned(p)' <=> Owned(p)
  BY DEF Owned, here, Pids, Slot
<1>5. ASSUME NEW p \in Pids, p # q PROVE phase_of(p)' = phase_of(p)
  <2>1. /\ Slot(p) \in Slots /\ Generation(p) \in 1 .. MaxGeneration
        /\ p = <<Slot(p), Generation(p)>>
    BY DEF Pids, Slot, Generation
  <2>2. CASE Slot(p) # t
    BY <2>1, <2>2 DEF phase_of
  <2>3. CASE Slot(p) = t
    <3>1. Generation(p) # g
      BY Zenon, <1>5, <2>1, <2>3
    <3>2. QED  BY <1>2, <2>1, <2>3, <3>1 DEF phase_of, LiveStates
  <2>4. QED  BY <2>2, <2>3
<1>6. [p \in Pids |-> Owned(p)]' = [p \in Pids |-> Owned(p)]
  BY Zenon, <1>4 DEF Owned, here
<1>7. [p \in Pids |-> phase_of(p)]' = [[p \in Pids |-> phase_of(p)] EXCEPT ![q] = "live"]
  <2>1. \A p \in Pids : phase_of(p)' = IF p = q THEN "live" ELSE phase_of(p)
    BY Zenon, <1>3, <1>5
  <2>2. QED  BY Zenon, <1>1, <2>1, PhaseStep
<1>8. q[2] = 1 \/ [p \in Pids |-> phase_of(p)][<<q[1], q[2] - 1>>] = "freed"
  <2>1. CASE g = 1
    BY <2>1
  <2>2. CASE g # 1
    <3>1. <<t, g - 1>> \in Pids /\ phase_of(<<t, g - 1>>) = "freed"
      BY <1>2, <2>2, TableAssumption DEF Pids, phase_of, Slot, Generation
    <3>2. QED  BY <3>1
  <2>3. QED  BY <2>1, <2>2
<1>9. QED
  BY Zenon, <1>1, <1>3, <1>6, <1>7, <1>8 DEF Lifetime!Birth, Lifetime!Vacant, Owned

\* The occupant of a slot that is not vacant is a PID that was handed out.
LEMMA Occupant ==
    ASSUME TypeOK, Custody, NEW t \in Slots, ~Vacant(t)
    PROVE  <<t, word[t].generation>> \in Pids
BY DEF Custody, OccupiedAgree, Vacant, Pids

LifetimeStep == [Lifetime!Next]_(Lifetime!lifetimeVars)

\* A step that moves words only among live states stutters.
LEMMA QuietLifetime ==
    ASSUME TypeOK, TypeOK', WordsQuiet
    PROVE  LifetimeStep
BY Zenon, QuietPhases DEF LifetimeStep

\* One step of one PID is a step of the abstract specification.
LEMMA PidLifetime ==
    ASSUME NEW q \in Pids,
           \/ Lifetime!Birth(q) \/ Lifetime!Claim(q) \/ Lifetime!Release(q)
           \/ Lifetime!Die(q) \/ Lifetime!Free(q) \/ Lifetime!Vanish(q)
    PROVE  LifetimeStep
<1>1. Lifetime!Pid = Pids
  BY DEF Lifetime!Pid, Pids
<1>2. Lifetime!Next
  BY Zenon, <1>1 DEF Lifetime!Next
<1>3. QED  BY Zenon, <1>2 DEF LifetimeStep

\* try_claim is Claim, and the release of after_switch is Release.
LEMMA ClaimLifetime ==
    ASSUME TypeOK, TypeOK', Custody, NEW w \in Workers, try_claim(w) \/ after_switch(w)
    PROVE  LifetimeStep
<1>1. CASE try_claim(w)
  <2>1. PICK p \in Pids : IF claimable(word[Slot(p)], Generation(p))
                          THEN word' = [word EXCEPT ![Slot(p)] = claimed(@)]
                          ELSE word' = word
    BY Zenon, <1>1 DEF try_claim
  <2>2. CASE ~claimable(word[Slot(p)], Generation(p))
    <3>1. WordsQuiet
      BY Zenon, <2>1, <2>2 DEF WordsQuiet
    <3>2. QED  BY Zenon, <3>1, QuietLifetime
  <2>3. CASE claimable(word[Slot(p)], Generation(p))
    <3>1. PICK t \in Slots : t = Slot(p)
      BY PidTypes
    <3>2. /\ p = <<t, word[t].generation>> /\ ~word[t].on_cpu
          /\ word[t].state \in LiveStates
      BY <2>3, <3>1 DEF Pids, Slot, Generation, claimable, LiveStates
    <3>3. word'[t] = claimed(word[t]) /\ \A s \in Slots : s # t => word'[s] = word[s]
      <4>1. word' = [word EXCEPT ![t] = claimed(word[t])]
        BY Zenon, <2>1, <2>3, <3>1
      <4>2. QED  BY Zenon, <4>1, OneWord
    <3>4. /\ word'[t].generation = word[t].generation /\ word'[t].on_cpu
          /\ word'[t].state \in LiveStates
      BY <3>3 DEF claimed, LiveStates, TypeOK, TableTypeOK, WordState
    <3>5. QED  BY Zenon, <3>2, <3>3, <3>4, ClaimStep, PidLifetime
  <2>4. QED  BY <2>2, <2>3
<1>2. CASE after_switch(w)
  <2>1. PICK t \in Slots : t = me(w)
    BY SlotTypes DEF me
  <2>2. cur[w] # NoPid
    BY Zenon, <1>2 DEF after_switch, Custody, LabelAgrees, OwningLabels
  <2>3. word[t].on_cpu /\ ~Vacant(t)
    BY Zenon, <2>1, <2>2 DEF Custody, ClaimsAgree, me, Vacant
  <2>4. word'[t] = released(word[t]) /\ \A s \in Slots : s # t => word'[s] = word[s]
    <3>1. word' = [word EXCEPT ![t] = released(word[t])]
      BY Zenon, <1>2, <2>1 DEF after_switch
    <3>2. QED  BY Zenon, <3>1, OneWord
  <2>5. /\ word'[t].generation = word[t].generation /\ ~word'[t].on_cpu
        /\ word'[t].state = word[t].state
    BY <2>4 DEF released, TypeOK, TableTypeOK, WordState
  <2>6. QED  BY Zenon, <2>3, <2>4, <2>5, Occupant, ReleaseStep, PidLifetime
<1>3. QED  BY <1>1, <1>2

\* The owner's reclaim of its tombstone is Free.
LEMMA ReclaimLifetime ==
    ASSUME TypeOK, TypeOK', Custody, NEW w \in Workers, reclaim(w)
    PROVE  LifetimeStep
<1>1. PICK t \in Slots : t = Slot(reap[w])
  BY SlotTypes
<1>2. word[t].state = "Dead" /\ ~word[t].on_cpu /\ ~Vacant(t)
  BY Zenon, <1>1 DEF reclaim, Reaps, Custody, ReapersAgree, Vacant
<1>3. word'[t] = vacated(word[t]) /\ \A s \in Slots : s # t => word'[s] = word[s]
  <2>1. word' = [word EXCEPT ![t] = vacated(word[t])]
    BY Zenon, <1>1 DEF reclaim, reclaim_slot
  <2>2. QED  BY Zenon, <2>1, OneWord
<1>4. /\ word'[t].generation = word[t].generation + 1 /\ ~word'[t].on_cpu
      /\ word'[t].state = "Vacant"
  BY <1>3 DEF vacated
<1> DEFINE q == <<t, word[t].generation>>
<1>5. q \in Pids
  BY Zenon, <1>2, Occupant
<1>6. Lifetime!Die(q) \/ Lifetime!Free(q) \/ Lifetime!Vanish(q)
  BY Zenon, <1>2, <1>3, <1>4, <1>5, EndStep
<1>7. QED  BY Zenon, <1>5, <1>6, PidLifetime

\* A death edge is Die on a worker, and Vanish off one.
LEMMA DeathLifetime ==
    ASSUME TypeOK, TypeOK', Custody, NEW w \in Workers, NEW p \in AnyPid, NEW forced,
           is_alive(p), death_edge(w, p, forced)
    PROVE  LifetimeStep
<1>1. PICK t \in Slots : t = Slot(p)
  BY PidTypes
<1>2. word[t].state \in LiveStates /\ ~Vacant(t)
  BY <1>1 DEF is_alive, alive_at, Vacant, LiveStates
<1>3. /\ word'[t] = IF ~word[t].on_cpu THEN vacated(moved(word[t], "Dead"))
                                       ELSE moved(word[t], "Dead")
      /\ \A s \in Slots : s # t => word'[s] = word[s]
  <2>1. word' = [word EXCEPT ![t] = IF ~word[t].on_cpu THEN vacated(moved(word[t], "Dead"))
                                                       ELSE moved(word[t], "Dead")]
    BY Zenon, <1>1 DEF death_edge
  <2>2. QED  BY Zenon, <2>1, OneWord
<1>4. \/ /\ word'[t].state = "Dead" /\ word[t].on_cpu /\ word'[t].on_cpu
         /\ word'[t].generation = word[t].generation
      \/ /\ word'[t].state = "Vacant" /\ ~word[t].on_cpu /\ ~word'[t].on_cpu
         /\ word'[t].generation = word[t].generation + 1
  BY <1>3 DEF vacated, moved, TypeOK, TableTypeOK, WordState
<1> DEFINE q == <<t, word[t].generation>>
<1>5. q \in Pids
  BY Zenon, <1>2, Occupant
<1>6. \A s \in Slots : s # t => word'[s] = word[s]
  BY Zenon, <1>3
<1>7. Lifetime!Die(q) \/ Lifetime!Free(q) \/ Lifetime!Vanish(q)
  BY Zenon, <1>2, <1>4, <1>5, <1>6, EndStep
<1>8. QED  BY Zenon, <1>5, <1>7, PidLifetime

\* Every death edge of the runtime: a kill, a staged kill, a process's own end.
LEMMA KillLifetime ==
    ASSUME TypeOK, TypeOK', Custody, NEW w \in Workers,
           koja_rt_kill(w) \/ kill_staged(w) \/ mark_dead_if_alive(w)
    PROVE  LifetimeStep
<1>1. PICK p, forced : p \in AnyPid /\ IF is_alive(p) THEN death_edge(w, p, forced)
                                                      ELSE word' = word
  <2>1. CASE koja_rt_kill(w)
    <3>1. Known \subseteq AnyPid
      BY PidTypes DEF Known
    <3>2. QED  BY Zenon, <2>1, <3>1 DEF koja_rt_kill, kill
  <2>2. CASE kill_staged(w)
    <3>1. hand[w].kills \subseteq AnyPid
      BY DEF TypeOK, DriverTypeOK, Hands
    <3>2. QED  BY Zenon, <2>2, <3>1 DEF kill_staged, kill
  <2>3. CASE mark_dead_if_alive(w)
    BY Zenon, <2>3, SlotTypes DEF mark_dead_if_alive
  <2>4. QED  BY <2>1, <2>2, <2>3
<1>2. CASE is_alive(p)
  BY Zenon, <1>1, <1>2, DeathLifetime
<1>3. CASE ~is_alive(p)
  <2>1. WordsQuiet
    BY Zenon, <1>1, <1>3 DEF WordsQuiet
  <2>2. QED  BY Zenon, <2>1, QuietLifetime
<1>4. QED  BY <1>2, <1>3

\* A spawn is the Birth of its slot's next PID, or is refused and stutters.
LEMMA SpawnLifetime ==
    ASSUME TypeOK, TypeOK', Custody, NEW w \in Workers, table_spawn(w)
    PROVE  LifetimeStep
<1>1. CASE is_alive(cur[w])
  <2>1. spawn_fits /\ spawn(cur[w])
    BY Zenon, <1>1 DEF table_spawn
  <2>2. PICK t \in Slots : t = spawn_slot
    BY <2>1 DEF spawn_fits
  <2>3. word[t].state = "Vacant" /\ ~word[t].on_cpu /\ word[t].generation \in Nat
    BY Zenon, <2>2, SpawnSlot, SlotTypes DEF Vacant
  <2>4. PICK g \in 1 .. MaxGeneration :
          g = spawn_generation /\ g = IF word[t].generation = 0 THEN 1 ELSE word[t].generation
    BY <2>1, <2>2, <2>3, TableAssumption DEF spawn_fits, spawn_generation
  <2>5. word'[t] = occupied(g) /\ \A s \in Slots : s # t => word'[s] = word[s]
    <3>1. word' = [word EXCEPT ![t] = occupied(g)]
      BY Zenon, <2>1, <2>2, <2>4 DEF spawn
    <3>2. QED  BY Zenon, <3>1, OneWord
  <2>6. word'[t].generation = g /\ word'[t].state = "Created" /\ ~word'[t].on_cpu
    BY <2>5 DEF occupied
  <2>7. Lifetime!Birth(<<t, g>>)
    BY Zenon, <2>3, <2>4, <2>5, <2>6, BirthStep
  <2>8. <<t, g>> \in Pids
    BY Zenon DEF Pids
  <2>9. QED  BY Zenon, <2>7, <2>8, PidLifetime
<1>2. CASE ~is_alive(cur[w])
  <2>1. WordsQuiet
    BY Zenon, <1>2 DEF table_spawn, WordsQuiet
  <2>2. QED  BY Zenon, <2>1, QuietLifetime
<1>3. QED  BY <1>1, <1>2

\* At start main is live and every other PID is unborn.
LEMMA InitLifetime ==
    ASSUME Init
    PROVE  Lifetime!Init
<1>1. <<0, 1>> \in Pids /\ Lifetime!Pid = Pids
  BY TableAssumption DEF Pids, Slots, Lifetime!Pid
<1>2. \A s \in Slots : word[s] = IF s = 0 THEN occupied(1) ELSE FreshWord
  BY DEF Init
<1>3. ASSUME NEW p \in Pids PROVE phase_of(p) = IF p = <<0, 1>> THEN "live" ELSE "unborn"
  <2>1. /\ Slot(p) \in Slots /\ Generation(p) \in 1 .. MaxGeneration
        /\ p = <<Slot(p), Generation(p)>>
    BY DEF Pids, Slot, Generation
  <2>2. CASE Slot(p) = 0
    BY <1>2, <2>1, <2>2, TableAssumption DEF phase_of, occupied, LiveStates
  <2>3. CASE Slot(p) # 0
    BY <1>2, <2>1, <2>3, TableAssumption DEF phase_of, FreshWord, LiveStates
  <2>4. QED  BY <2>2, <2>3
<1>4. ASSUME NEW p \in Pids PROVE (here(p) /\ word[Slot(p)].on_cpu) = FALSE
  <2>1. Slot(p) \in Slots
    BY PidTypes
  <2>2. QED  BY <1>2, <2>1 DEF occupied, FreshWord
<1>5. [p \in Pids |-> phase_of(p)] = [p \in Pids |-> IF p = <<0, 1>> THEN "live" ELSE "unborn"]
  BY Zenon, <1>3
<1>6. [p \in Pids |-> here(p) /\ word[Slot(p)].on_cpu] = [p \in Pids |-> FALSE]
  BY Zenon, <1>4
<1>7. <<0, 1>>[2] = 1
  OBVIOUS
<1>8. QED  BY Zenon, <1>1, <1>5, <1>6, <1>7 DEF Lifetime!Init

\* The runtime implements the PID lifetime: a PID is born, dies and is freed
\* once each, never while a worker owns it, and never comes back.
THEOREM LifetimeHolds == Spec => ImplementsLifetime
<1>1. TypeOK /\ TypeOK' /\ Custody /\ [Next]_vars => LifetimeStep
  <2> SUFFICES ASSUME TypeOK, TypeOK', Custody, [Next]_vars PROVE LifetimeStep
    OBVIOUS
  <2>q. Quiet => LifetimeStep
    BY Zenon, QuietLifetime DEF Quiet
  <2>1. ASSUME NEW w \in Workers, Claim(w) \/ SwitchOut(w) \/ Loop(w) PROVE LifetimeStep
    <3>1. CASE free(w)
      <4>1. WordsQuiet
        BY Zenon, <3>1 DEF free, slotVars, WordsQuiet
      <4>2. QED  BY Zenon, <4>1, QuietLifetime
    <3>2. CASE ~free(w)
      BY Zenon, <2>q, <2>1, <3>2, LoopQuiet, ClaimLifetime, ReclaimLifetime
         DEF Claim, SwitchOut, Loop
    <3>3. QED  BY <3>1, <3>2
  <2>2. ASSUME NEW w \in Workers, Settle(w) \/ Resume(w) PROVE LifetimeStep
    <3>1. CASE death_pass(w)
      <4>1. WordsQuiet
        BY Zenon, <3>1 DEF death_pass, slotVars, WordsQuiet
      <4>2. QED  BY Zenon, <4>1, QuietLifetime
    <3>2. CASE ~death_pass(w)
      BY Zenon, <2>q, <2>2, <3>2, ResumeQuiet, KillLifetime, SpawnLifetime DEF Settle, Resume
    <3>3. QED  BY <3>1, <3>2
  <2>3. ASSUME NEW w \in Workers, Intrinsic(w) PROVE LifetimeStep
    BY Zenon, <2>q, <2>3, IntrinsicQuiet, KillLifetime DEF Intrinsic
  <2>4. CASE sigterm \/ Tick \/ reactor_poll \/ apply_wakers \/ UNCHANGED vars
    BY Zenon, <2>q, <2>4, EnvironmentQuiet
  <2>5. QED  BY Zenon, <2>1, <2>2, <2>3, <2>4 DEF Next, Runtime
<1>2. Init => Lifetime!Init
  BY Zenon, InitLifetime
<1>3. QED
  BY <1>1, <1>2, TypeCorrect, CustodyHolds, PTL
     DEF Spec, ImplementsLifetime, Lifetime!Spec, LifetimeStep
==============================================================================
