----------------------------- MODULE WakeupProofs -----------------------------
(***************************************************************************)
(* No wakeup is lost: a claimable process has a run-queue entry, a parked  *)
(* process has nothing to wake for, and a process that comes back from the *)
(* park inside koja_rt_receive has mail.                                   *)
(*                                                                         *)
(* A step does one of six things to a slot its actor does not own (Touched *)
(* below), and each keeps what the slot promises.  What is left are the    *)
(* steps of a worker on the process it owns: its claim, its parks and its  *)
(* pops.                                                                   *)
(***************************************************************************)
EXTENDS SchedulerCustody, TLAPS

\* The process that occupies slot s.
occupant(s) == <<s, word[s].generation>>

CallLabels == {"call_send", "call_ensure", "call_take", "call_expired", "call_clear"}

\* A slot whose process is claimable has a run-queue entry for it.
QueueOK(s) == claimable(word[s], word[s].generation) => ready[occupant(s)] > 0

\* A parked process has nothing to wake for.
WakeOK(s) ==
    /\ word[s].state = "Blocked" /\ hot[s].waiting = "Receive" => depth(hot[s].mailbox) = 0
    /\ word[s].state = "Blocked" /\ hot[s].waiting = "Reply" =>
           hot[s].mailbox.reply.token # hot[s].awaiting_reply
    /\ word[s].state = "WaitingIO" => ~has_system(hot[s].mailbox)

\* A process inside koja_rt_receive is parked for mail alone, with no deadline, or
\* has mail; one inside a call and off its worker awaits the call's token.
FrameOK(s) ==
    /\ execution[s].at = "receive" =>
        /\ word[s].state # "WaitingIO"
        /\ word[s].state = "Blocked" => hot[s].waiting = "Receive" /\ hot[s].deadline = 0
        /\ word[s].state \in {"Created", "Runnable", "Running"} => depth(hot[s].mailbox) > 0
    /\ execution[s].at = "call" /\ ~word[s].on_cpu =>
        hot[s].awaiting_reply = execution[s].token /\ execution[s].token # 0

SlotOK(s) == QueueOK(s) /\ WakeOK(s) /\ FrameOK(s)

\* What the label of a worker says of the process it owns.
RunOK(w) ==
    cur[w] # NoPid =>
        /\ pc[w] \notin {"arm", "io_register", "switch"} =>
               word[me(w)].state \in {"Running", "Dead"}
        /\ frame(w).at = "receive" => pc[w] \in {"claimed", "run", "switch"}
        /\ frame(w).at = "receive" /\ pc[w] # "switch" => depth(hot[me(w)].mailbox) > 0
        /\ frame(w).at = "call" /\ pc[w] \notin {"call_evict", "cancel"} =>
               hot[me(w)].awaiting_reply = frame(w).token /\ frame(w).token # 0
        /\ pc[w] \in CallLabels => frame(w).at = "call"

\* No deadline taken off the wheel is the absent one.
DueOK == \A w \in Workers : \A e \in hand[w].due : e[2] # 0

WakeInv ==
    /\ \A s \in Slots : SlotOK(s)
    /\ \A w \in Workers : RunOK(w)
    /\ DueOK

------------------------------------------------------------------------------
\* The process's place in its blocking call, and what it waits for, are kept.
Settled(s) ==
    /\ execution'[s].at = execution[s].at /\ execution'[s].token = execution[s].token
    /\ hot'[s].waiting = hot[s].waiting /\ hot'[s].awaiting_reply = hot[s].awaiting_reply

\* Nothing happens to the slot, but entries of its process may be queued.
Kept(s) ==
    /\ Settled(s) /\ word'[s] = word[s]
    /\ hot'[s].mailbox = hot[s].mailbox /\ hot'[s].deadline = hot[s].deadline
    /\ claimable(word[s], word[s].generation) => ready'[occupant(s)] >= ready[occupant(s)]

SameClaim(s) ==
    word'[s].generation = word[s].generation /\ word'[s].on_cpu = word[s].on_cpu

\* wake_edge: the parked process is runnable and has an entry.
Woken(s) ==
    /\ word[s].state \in {"Blocked", "WaitingIO"}
    /\ SameClaim(s) /\ word'[s].state = "Runnable" /\ ready'[occupant(s)] > 0

\* deliver: a message for the process, which wakes it if it waits for that.
Pushed(s) ==
    \E m \in Messages :
        /\ Settled(s) /\ hot'[s].mailbox = push(hot[s].mailbox, m)
        /\ hot'[s].deadline = hot[s].deadline
        /\ IF \/ word[s].state = "Blocked" /\ hot[s].waiting = target_of(m)
              \/ word[s].state = "WaitingIO" /\ m.tag = "Lifecycle"
           THEN Woken(s)
           ELSE word'[s] = word[s] /\ ready' = ready

\* promote: a wake by a timer, the reactor or a dead callee.
Promoted(s) ==
    /\ Settled(s) /\ Woken(s) /\ hot'[s].mailbox = hot[s].mailbox
    /\ word[s].state = "Blocked" /\ hot[s].waiting = "Receive" => hot[s].deadline # 0

\* death_edge under a worker's claim, and off it or after it.
Killed(s) ==
    /\ Settled(s) /\ SameClaim(s) /\ word[s].on_cpu /\ word'[s].state = "Dead"
    /\ hot'[s].mailbox = hot[s].mailbox

Vacated(s) ==
    /\ ~word[s].on_cpu /\ word'[s].state = "Vacant" /\ execution'[s].at = "none"
    /\ hot'[s].awaiting_reply = 0

Born(s) ==
    /\ ~word[s].on_cpu /\ word'[s].state = "Created" /\ execution'[s].at = "body"
    /\ ready'[<<s, word'[s].generation>>] > 0 /\ hot'[s] = hot[s]

Touched(s) == Kept(s) \/ Pushed(s) \/ Promoted(s) \/ Killed(s) \/ Vacated(s) \/ Born(s)

\* The labels a worker may go to from its own without touching its process.
Advances(w, l) ==
    \/ l = pc[w]
    \/ pc[w] = "claimed" /\ l = "run"
    \/ /\ frame(w).at # "receive" /\ pc[w] # "switch"
       /\ pc[w] \in {"arm", "io_register"} => l \in {"arm", "switch"}
       /\ pc[w] \in {"call_evict", "cancel"} => l = "cancel"
       /\ l \in CallLabels => frame(w).at = "call"

Moves(w) == cur'[w] = cur[w] /\ (cur[w] # NoPid => Advances(w, pc'[w]))

------------------------------------------------------------------------------
\* The parts of a PID.
LEMMA PidFields ==
    /\ \A p \in AnyPid :
         Slot(p) \in Slots /\ Generation(p) \in Nat /\ p = <<Slot(p), Generation(p)>>
    /\ Pids \subseteq AnyPid
BY DEF Slots, AnyPid, Pids, Slot, Generation

\* One edge changes one word.
LEMMA OneEdge ==
    ASSUME TypeOK, NEW t \in Slots, NEW wd, word' = [word EXCEPT ![t] = wd]
    PROVE  word'[t] = wd /\ \A s \in Slots : s # t => word'[s] = word[s]
BY DEF TypeOK, TableTypeOK

\* A worker's process has a slot, and is its only occupant while it is owned.
LEMMA Owner ==
    ASSUME TypeOK, ClaimsAgree, NEW w \in Workers
    PROVE  /\ cur[w] \in AnyPid /\ me(w) \in Slots
           /\ cur[w] # NoPid => /\ word[me(w)].on_cpu
                                /\ word[me(w)].generation = Generation(cur[w])
                                /\ \A v \in Workers : v # w /\ cur[v] # NoPid => me(v) # me(w)
<1>1. \A v \in Workers : cur[v] \in AnyPid /\ me(v) \in Slots
  BY Zenon, PidFields DEF TypeOK, DriverTypeOK, me
<1>2. ASSUME NEW v \in Workers, cur[v] # NoPid
      PROVE  word[me(v)].on_cpu /\ word[me(v)].generation = Generation(cur[v])
  BY Zenon, <1>2 DEF ClaimsAgree, me
<1>3. ASSUME NEW v \in Workers, v # w, cur[v] # NoPid, cur[w] # NoPid, me(v) = me(w)
      PROVE  FALSE
  <2>1. Generation(cur[v]) = Generation(cur[w])
    BY Zenon, <1>2, <1>3
  <2>2. cur[v] = cur[w]
    BY Zenon, <1>1, <1>3, <2>1, PidFields DEF me
  <2>3. QED  BY Zenon, <1>3, <2>2 DEF ClaimsAgree
<1>4. QED  BY Zenon, <1>1, <1>2, <1>3

\* Routing by tag: a push fills the queue its tag names and no other.
LEMMA PushMail ==
    ASSUME NEW mb \in Mailboxes, NEW m \in Messages
    PROVE  LET mc == push(mb, m)
           IN  /\ depth(mb) \in Nat
               /\ m.tag = "Reply" => mc.system = mb.system /\ mc.business = mb.business
               /\ m.tag # "Reply" => mc.reply = mb.reply /\ depth(mc) = depth(mb) + 1
               /\ m.tag # "Lifecycle" => mc.system = mb.system
<1>1. mb.business \in Seq(Messages) /\ mb.system \in Seq(Messages)
  BY DEF Mailboxes
<1>2. /\ Len(mb.business) \in Nat /\ Len(mb.system) \in Nat
      /\ Len(Append(mb.business, m)) = Len(mb.business) + 1
      /\ Len(Append(mb.system, m)) = Len(mb.system) + 1
  BY <1>1
<1>3. CASE m.tag = "Lifecycle"
  <2>1. push(mb, m) = [mb EXCEPT !.system = Append(mb.system, m)]
    BY <1>3 DEF push
  <2>2. QED  BY <1>2, <1>3, <2>1 DEF depth, Mailboxes
<1>4. CASE m.tag = "Reply"
  <2>1. push(mb, m) = [mb EXCEPT !.reply = m]
    BY <1>4 DEF push
  <2>2. QED  BY <1>2, <1>4, <2>1 DEF depth, Mailboxes
<1>5. CASE m.tag \notin {"Lifecycle", "Reply"}
  <2>1. push(mb, m) = [mb EXCEPT !.business = Append(mb.business, m)]
    BY <1>5 DEF push
  <2>2. QED  BY <1>2, <1>5, <2>1 DEF depth, Mailboxes
<1>6. QED  BY <1>3, <1>4, <1>5

\* A mailbox's depth is a count.
LEMMA DepthCounts ==
    ASSUME NEW mb \in Mailboxes
    PROVE  depth(mb) \in Nat
<1>1. mb.business \in Seq(Messages) /\ mb.system \in Seq(Messages)
  BY DEF Mailboxes
<1>2. Len(mb.business) \in Nat /\ Len(mb.system) \in Nat
  BY <1>1
<1>3. \A i, j \in Nat : i + j \in Nat
  OBVIOUS
<1>4. QED  BY Zenon, <1>2, <1>3 DEF depth

\* The fields of a slot's word and hot state.
LEMMA SlotFields ==
    ASSUME TypeOK, NEW s \in Slots
    PROVE  /\ word[s] \in WordState /\ word[s].generation \in Nat
           /\ word[s].state \in LiveStates \cup {"Dead", "Vacant"}
           /\ hot[s] \in HotStates /\ hot[s].mailbox \in Mailboxes
           /\ hot[s].waiting \in {"Receive", "Reply"}
           /\ depth(hot[s].mailbox) \in Nat
<1>1. word[s] \in WordState /\ hot[s] \in HotStates
  BY DEF TypeOK, TableTypeOK
<1>2. hot[s].mailbox \in Mailboxes /\ hot[s].waiting \in {"Receive", "Reply"}
  BY <1>1 DEF HotStates, WaitTarget
<1>4. depth(hot[s].mailbox) \in Nat
  BY Zenon, <1>2, DepthCounts
<1>5. /\ word[s].generation \in Nat /\ word[s].state \in LiveStates \cup {"Dead", "Vacant"}
  BY <1>1 DEF WordState, ProcessState
<1>6. QED  BY Zenon, <1>1, <1>2, <1>4, <1>5

\* An occupied slot's process is a PID, so it has a run-queue counter.
LEMMA OccupantQueued ==
    ASSUME TypeOK, OccupiedAgree, NEW s \in Slots, word[s].state # "Vacant"
    PROVE  occupant(s) \in Pids /\ ready[occupant(s)] \in Nat
<1>1. occupant(s) \in Pids
  BY DEF OccupiedAgree, occupant, Pids
<1>2. QED  BY <1>1 DEF TypeOK, TableTypeOK

\* What a slot promises survives whatever a step does to a slot of others.
LEMMA TouchedSlot ==
    ASSUME TypeOK, TypeOK', OccupiedAgree, NEW s \in Slots, SlotOK(s), Touched(s)
    PROVE  SlotOK(s)'
<1>a. /\ word[s].state \in LiveStates \cup {"Dead", "Vacant"}
      /\ hot[s].mailbox \in Mailboxes /\ hot[s].waiting \in {"Receive", "Reply"}
      /\ depth(hot[s].mailbox) \in Nat
  BY Zenon, SlotFields
<1>b. claimable(word[s], word[s].generation) =>
          ready[occupant(s)] \in Nat /\ ready'[occupant(s)] \in Nat
  <2>1. SUFFICES ASSUME claimable(word[s], word[s].generation)
                 PROVE  ready[occupant(s)] \in Nat /\ ready'[occupant(s)] \in Nat
    OBVIOUS
  <2>2. word[s].state # "Vacant"
    BY <2>1 DEF claimable
  <2>3. occupant(s) \in Pids /\ ready[occupant(s)] \in Nat
    BY Zenon, <2>2, OccupantQueued
  <2>4. QED  BY <2>3 DEF TypeOK, TableTypeOK
<1>c. QueueOK(s) /\ WakeOK(s) /\ FrameOK(s)
  BY DEF SlotOK
<1>1. CASE Kept(s)
  <2>1. QueueOK(s)'
    BY <1>1, <1>b, <1>c DEF Kept, QueueOK, occupant
  <2>2. WakeOK(s)' /\ FrameOK(s)'
    BY Zenon, <1>1, <1>c DEF Kept, Settled, WakeOK, FrameOK
  <2>3. QED  BY <2>1, <2>2 DEF SlotOK
<1>2. CASE Pushed(s)
  <2>1. PICK m \in Messages :
            /\ Settled(s) /\ hot'[s].mailbox = push(hot[s].mailbox, m)
            /\ hot'[s].deadline = hot[s].deadline
            /\ IF \/ word[s].state = "Blocked" /\ hot[s].waiting = target_of(m)
                  \/ word[s].state = "WaitingIO" /\ m.tag = "Lifecycle"
               THEN Woken(s)
               ELSE word'[s] = word[s] /\ ready' = ready
    BY Zenon, <1>2 DEF Pushed
  <2> DEFINE mb == hot[s].mailbox
             mc == hot'[s].mailbox
  <2>2. /\ m.tag = "Reply" => mc.system = mb.system /\ mc.business = mb.business
        /\ m.tag # "Reply" => mc.reply = mb.reply /\ depth(mc) = depth(mb) + 1
        /\ m.tag # "Lifecycle" => mc.system = mb.system
    BY <1>a, <2>1, PushMail
  <2>a. depth(mb) \in Nat
    BY <1>a
  <2> HIDE DEF mb, mc
  <2>b. m.tag = "Reply" => depth(mc) = depth(mb)
    BY Zenon, <2>2 DEF depth
  <2>3. /\ depth(mc) >= depth(mb)
        /\ m.tag = "Reply" => depth(mc) = depth(mb) /\ target_of(m) = "Reply"
        /\ m.tag # "Reply" => depth(mc) > 0 /\ target_of(m) = "Receive"
        /\ m.tag # "Lifecycle" /\ ~has_system(mb) => ~has_system(mc)
    BY <2>2, <2>a, <2>b DEF target_of, has_system
  <2>4. QueueOK(s)'
    BY <1>b, <1>c, <2>1 DEF QueueOK, occupant, Woken, SameClaim, claimable
  <2>5. WakeOK(s)'
    BY <1>a, <1>c, <2>1, <2>2, <2>3 DEF WakeOK, Settled, Woken, mb, mc
  <2>6. FrameOK(s)'
    <3>1. word[s].state \in {"Created", "Runnable", "Running"} =>
              word'[s] = word[s]
      BY <2>1
    <3>2. word'[s] = word[s] \/ Woken(s)
      BY <2>1
    <3>3. Woken(s) /\ hot[s].waiting = "Receive" /\ word[s].state # "WaitingIO" => m.tag # "Reply"
      BY <2>1, <2>3 DEF Woken
    <3>4. QED  BY <1>a, <1>c, <2>1, <2>3, <3>1, <3>2, <3>3
               DEF FrameOK, Settled, Woken, SameClaim, mb, mc
  <2>7. QED  BY <2>4, <2>5, <2>6 DEF SlotOK
<1>3. CASE Promoted(s)
  <2>1. QueueOK(s)'
    BY <1>3 DEF Promoted, Woken, SameClaim, QueueOK, occupant, claimable
  <2>2. WakeOK(s)' /\ FrameOK(s)'
    BY <1>3, <1>c DEF Promoted, Settled, Woken, SameClaim, WakeOK, FrameOK
  <2>3. QED  BY <2>1, <2>2 DEF SlotOK
<1>4. CASE Killed(s) \/ Vacated(s)
  BY <1>4, <1>c DEF Killed, Vacated, SameClaim, SlotOK, QueueOK, WakeOK, FrameOK, claimable
<1>5. CASE Born(s)
  BY <1>5, <1>c DEF Born, SlotOK, QueueOK, WakeOK, FrameOK, occupant
<1>6. QED  BY Zenon, <1>1, <1>2, <1>3, <1>4, <1>5 DEF Touched

\* What a worker's label promises of its process survives it too, and survives
\* the worker's own steps that leave the process alone.
LEMMA TouchedOwner ==
    ASSUME TypeOK, Custody, NEW w \in Workers, RunOK(w), Moves(w), Touched(me(w))
    PROVE  RunOK(w)'
<1> DEFINE s == me(w)
<1>1. CASE cur[w] = NoPid
  BY <1>1 DEF RunOK, Moves
<1>2. CASE cur[w] # NoPid
  <2>1. /\ cur'[w] = cur[w] /\ Advances(w, pc'[w]) /\ s \in Slots
        /\ word[s].on_cpu /\ s = Slot(cur[w])
    BY Zenon, <1>2, Owner DEF Moves, Custody, me
  <2>2. /\ pc[w] \notin {"arm", "io_register", "switch"} => word[s].state \in {"Running", "Dead"}
        /\ execution[s].at = "receive" => pc[w] \in {"claimed", "run", "switch"}
        /\ execution[s].at = "receive" /\ pc[w] # "switch" => depth(hot[s].mailbox) > 0
        /\ execution[s].at = "call" /\ pc[w] \notin {"call_evict", "cancel"} =>
               hot[s].awaiting_reply = execution[s].token /\ execution[s].token # 0
        /\ pc[w] \in CallLabels => execution[s].at = "call"
    BY Zenon, <1>2 DEF RunOK, frame
  <2>3. \/ pc'[w] = pc[w]
        \/ pc[w] = "claimed" /\ pc'[w] = "run"
        \/ /\ execution[s].at # "receive" /\ pc[w] # "switch"
           /\ pc[w] \in {"arm", "io_register"} => pc'[w] \in {"arm", "switch"}
           /\ pc[w] \in {"call_evict", "cancel"} => pc'[w] = "cancel"
           /\ pc'[w] \in CallLabels => execution[s].at = "call"
    BY Zenon, <2>1 DEF Advances, frame
  <2>4. /\ Settled(s)
        /\ word[s].state \in {"Running", "Dead"} => word'[s].state \in {"Running", "Dead"}
        /\ \/ hot'[s].mailbox = hot[s].mailbox
           \/ depth(hot'[s].mailbox) >= depth(hot[s].mailbox) /\ depth(hot'[s].mailbox) \in Nat
    <3>1. CASE Kept(s)
      BY <3>1 DEF Kept
    <3>2. CASE Pushed(s)
      <4>1. PICK m \in Messages :
                /\ Settled(s) /\ hot'[s].mailbox = push(hot[s].mailbox, m)
                /\ Woken(s) \/ word'[s] = word[s]
        BY Zenon, <3>2 DEF Pushed
      <4>2. hot[s].mailbox \in Mailboxes
        BY Zenon, <2>1, SlotFields
      <4>3. /\ depth(hot[s].mailbox) \in Nat
            /\ m.tag = "Reply" => depth(hot'[s].mailbox) = depth(hot[s].mailbox)
            /\ m.tag # "Reply" => depth(hot'[s].mailbox) = depth(hot[s].mailbox) + 1
        BY Zenon, <4>1, <4>2, PushMail DEF depth
      <4>4. QED  BY <4>1, <4>3 DEF Woken
    <3>3. CASE Promoted(s) \/ Killed(s)
      BY <3>3 DEF Promoted, Killed, Woken
    <3>4. QED  BY Zenon, <2>1, <3>1, <3>2, <3>3 DEF Touched, Vacated, Born
  <2>5. depth(hot[s].mailbox) \in Nat
    BY Zenon, <2>1, SlotFields
  <2>6. /\ execution'[s].at = execution[s].at /\ execution'[s].token = execution[s].token
        /\ hot'[s].awaiting_reply = hot[s].awaiting_reply
    BY <2>4 DEF Settled
  <2>7. /\ pc'[w] \notin {"arm", "io_register", "switch"} => word'[s].state \in {"Running", "Dead"}
        /\ execution'[s].at = "receive" => pc'[w] \in {"claimed", "run", "switch"}
        /\ execution'[s].at = "receive" /\ pc'[w] # "switch" => depth(hot'[s].mailbox) > 0
        /\ execution'[s].at = "call" /\ pc'[w] \notin {"call_evict", "cancel"} =>
               hot'[s].awaiting_reply = execution'[s].token /\ execution'[s].token # 0
        /\ pc'[w] \in CallLabels => execution'[s].at = "call"
    <3> HIDE DEF s
    <3>1. pc'[w] \notin {"arm", "io_register", "switch"} => pc[w] \notin {"arm", "io_register", "switch"}
      BY <2>3
    <3>2. execution[s].at = "receive" /\ pc'[w] # "switch" => pc[w] # "switch"
      BY <2>3
    <3>3. pc'[w] \notin {"call_evict", "cancel"} => pc[w] \notin {"call_evict", "cancel"}
      BY <2>3
    <3>4. QED  BY <2>2, <2>3, <2>4, <2>5, <2>6, <3>1, <3>2, <3>3 DEF CallLabels
  <2>8. QED  BY Zenon, <2>1, <2>7 DEF RunOK, frame, me
<1>3. QED  BY <1>1, <1>2

------------------------------------------------------------------------------
\* What the table's operations do to the slots.

Undisturbed == \A s \in Slots :
    execution'[s].at = execution[s].at /\ execution'[s].token = execution[s].token

\* A slot nothing is written to is kept, whatever is queued meanwhile.
LEMMA KeptSlot ==
    ASSUME NEW s \in Slots, word'[s] = word[s], hot'[s] = hot[s],
           execution'[s].at = execution[s].at, execution'[s].token = execution[s].token,
           claimable(word[s], word[s].generation) => ready'[occupant(s)] >= ready[occupant(s)]
    PROVE  Touched(s)
BY Zenon DEF Touched, Kept, Settled

\* A step that leaves the words, the hot state and the run queue alone touches
\* no slot.
LEMMA AllKept ==
    ASSUME TypeOK, OccupiedAgree, word' = word, hot' = hot, ready' = ready, Undisturbed
    PROVE  \A s \in Slots : Touched(s)
<1> SUFFICES ASSUME NEW s \in Slots PROVE Touched(s)
  OBVIOUS
<1>1. claimable(word[s], word[s].generation) => ready'[occupant(s)] >= ready[occupant(s)]
  <2>1. claimable(word[s], word[s].generation) => word[s].state # "Vacant"
    BY DEF claimable
  <2>2. claimable(word[s], word[s].generation) => ready[occupant(s)] \in Nat
    BY Zenon, <2>1, OccupantQueued
  <2>3. QED  BY <2>2
<1>2. QED  BY Zenon, <1>1, KeptSlot DEF Undisturbed

\* A live PID is the occupant of its slot, and the only one there.
LEMMA AliveOccupies ==
    ASSUME TypeOK, OccupiedAgree, NEW p \in AnyPid, is_alive(p)
    PROVE  /\ Slot(p) \in Slots /\ occupant(Slot(p)) = p /\ p \in Pids /\ ready[p] \in Nat
           /\ word[Slot(p)].state \in LiveStates
           /\ \A s \in Slots : occupant(s) = p => s = Slot(p)
<1>1. Slot(p) \in Slots /\ word[Slot(p)].state \in LiveStates
  BY Zenon, PidFields DEF is_alive, alive_at
<1>2. occupant(Slot(p)) = p
  BY DEF is_alive, alive_at, occupant, AnyPid, Slot, Generation
<1>3. word[Slot(p)].state # "Vacant"
  BY <1>1 DEF LiveStates
<1>4. p \in Pids /\ ready[p] \in Nat
  BY Zenon, <1>1, <1>2, <1>3, OccupantQueued
<1>5. \A s \in Slots : occupant(s) = p => s = Slot(p)
  BY DEF occupant, Slot
<1>6. QED  BY Zenon, <1>1, <1>2, <1>4, <1>5

\* wake_edge wakes its process and keeps every other slot's word and entries.
LEMMA WakeEdge ==
    ASSUME TypeOK, OccupiedAgree, NEW p \in AnyPid, is_alive(p),
           state(p) \in {"Blocked", "WaitingIO"}, wake_edge(p)
    PROVE  /\ Woken(Slot(p))
           /\ \A s \in Slots : s # Slot(p) =>
                word'[s] = word[s] /\ ready'[occupant(s)] = ready[occupant(s)]
<1> DEFINE t == Slot(p)
<1>1. /\ t \in Slots /\ occupant(t) = p /\ p \in Pids /\ ready[p] \in Nat
      /\ \A s \in Slots : occupant(s) = p => s = t
  BY Zenon, AliveOccupies
<1>2. word[t] \in WordState
  BY Zenon, <1>1, SlotFields
<1>3. word'[t] = moved(word[t], "Runnable") /\ \A s \in Slots : s # t => word'[s] = word[s]
  BY Zenon, <1>1, OneEdge DEF wake_edge
<1>4. ready \in [Pids -> Nat] /\ ready' = [ready EXCEPT ![p] = ready[p] + 1]
  BY DEF wake_edge, TypeOK, TableTypeOK
<1>5. ready'[p] > 0
  BY <1>1, <1>4
<1>6. \A s \in Slots : s # t => ready'[occupant(s)] = ready[occupant(s)]
  <2>1. SUFFICES ASSUME NEW s \in Slots, s # t PROVE ready'[occupant(s)] = ready[occupant(s)]
    OBVIOUS
  <2>2. occupant(s) # p
    BY Zenon, <1>1, <2>1
  <2>3. QED  BY <1>4, <2>2
<1>7. /\ word'[t].state = "Runnable" /\ word'[t].on_cpu = word[t].on_cpu
      /\ word'[t].generation = word[t].generation
  BY <1>2, <1>3 DEF moved, WordState
<1>8. QED  BY Zenon, <1>1, <1>3, <1>5, <1>6, <1>7 DEF Woken, SameClaim, state

\* A slot that neither the word, the hot state nor the queue entries of a step
\* name is kept.
LEMMA OtherKept ==
    ASSUME TypeOK, OccupiedAgree, NEW s \in Slots, word'[s] = word[s], hot'[s] = hot[s],
           ready'[occupant(s)] = ready[occupant(s)],
           execution'[s].at = execution[s].at, execution'[s].token = execution[s].token
    PROVE  Touched(s)
<1>1. claimable(word[s], word[s].generation) => ready'[occupant(s)] >= ready[occupant(s)]
  <2>1. claimable(word[s], word[s].generation) => word[s].state # "Vacant"
    BY DEF claimable
  <2>2. claimable(word[s], word[s].generation) => ready[occupant(s)] \in Nat
    BY Zenon, <2>1, OccupantQueued
  <2>3. QED  BY <2>2
<1>2. QED  BY Zenon, <1>1, KeptSlot

\* deliver reaches at most the target's slot: it pushes, and wakes if that is what
\* the target waits for.
LEMMA DeliverTouches ==
    ASSUME TypeOK, OccupiedAgree, NEW p \in AnyPid, NEW m \in Messages, deliver(p, m),
           Undisturbed
    PROVE  \A s \in Slots : Touched(s)
<1> DEFINE t == Slot(p)
<1>1. CASE ~is_alive(p)
  BY Zenon, <1>1, AllKept DEF deliver
<1>2. CASE is_alive(p)
  <2>1. /\ t \in Slots /\ hot' = [hot EXCEPT ![t].mailbox = push(hot[t].mailbox, m)]
        /\ IF wakes(p, m) THEN wake_edge(p) ELSE word' = word /\ ready' = ready
    BY Zenon, <1>2, AliveOccupies DEF deliver
  <2>2. hot \in [Slots -> HotStates] /\ hot[t] \in HotStates
    BY <2>1 DEF TypeOK, TableTypeOK
  <2>3. /\ hot'[t] = [hot[t] EXCEPT !.mailbox = push(hot[t].mailbox, m)]
        /\ \A s \in Slots : s # t => hot'[s] = hot[s]
    BY Zenon, <2>1, <2>2
  <2>4. /\ hot'[t].mailbox = push(hot[t].mailbox, m) /\ hot'[t].deadline = hot[t].deadline
        /\ hot'[t].waiting = hot[t].waiting /\ hot'[t].awaiting_reply = hot[t].awaiting_reply
    BY Zenon, <2>2, <2>3 DEF HotStates
  <2>5. wakes(p, m) => /\ Woken(t)
                       /\ \A s \in Slots : s # t =>
                            word'[s] = word[s] /\ ready'[occupant(s)] = ready[occupant(s)]
    <3>1. wakes(p, m) => state(p) \in {"Blocked", "WaitingIO"}
      BY DEF wakes
    <3>2. QED  BY Zenon, <1>2, <2>1, <3>1, WakeEdge
  <2>6. Pushed(t)
    <3>1. Settled(t)
      BY Zenon, <2>1, <2>4 DEF Settled, Undisturbed
    <3>2. IF \/ word[t].state = "Blocked" /\ hot[t].waiting = target_of(m)
             \/ word[t].state = "WaitingIO" /\ m.tag = "Lifecycle"
          THEN Woken(t)
          ELSE word'[t] = word[t] /\ ready' = ready
      BY Zenon, <2>1, <2>5 DEF wakes, state
    <3>3. QED  BY Zenon, <2>4, <3>1, <3>2 DEF Pushed
  <2>7. ASSUME NEW s \in Slots, s # t PROVE Touched(s)
    BY Zenon, <2>1, <2>3, <2>5, <2>7, OtherKept DEF Undisturbed
  <2>8. QED  BY Zenon, <2>6, <2>7 DEF Touched
<1>3. QED  BY <1>1, <1>2

\* promote wakes its process or, its re-validation failed, does nothing.
LEMMA PromoteTouches ==
    ASSUME TypeOK, OccupiedAgree, NEW p \in AnyPid, NEW valid, promote(p, valid), Undisturbed,
           valid => is_alive(p) /\ state(p) \in {"Blocked", "WaitingIO"},
           valid /\ state(p) = "Blocked" /\ hot[Slot(p)].waiting = "Receive" =>
               hot[Slot(p)].deadline # 0
    PROVE  \A s \in Slots : Touched(s)
<1> DEFINE t == Slot(p)
<1>1. CASE ~valid
  BY Zenon, <1>1, AllKept DEF promote
<1>2. CASE valid
  <2>1. t \in Slots /\ hot' = [hot EXCEPT ![t].deadline = 0] /\ wake_edge(p)
    BY Zenon, <1>2, AliveOccupies DEF promote
  <2>2. hot \in [Slots -> HotStates] /\ hot[t] \in HotStates
    BY <2>1 DEF TypeOK, TableTypeOK
  <2>3. /\ hot'[t] = [hot[t] EXCEPT !.deadline = 0]
        /\ \A s \in Slots : s # t => hot'[s] = hot[s]
    BY Zenon, <2>1, <2>2
  <2>4. /\ hot'[t].mailbox = hot[t].mailbox
        /\ hot'[t].waiting = hot[t].waiting /\ hot'[t].awaiting_reply = hot[t].awaiting_reply
    BY Zenon, <2>2, <2>3 DEF HotStates
  <2>5. /\ Woken(t)
        /\ \A s \in Slots : s # t =>
             word'[s] = word[s] /\ ready'[occupant(s)] = ready[occupant(s)]
    BY Zenon, <1>2, <2>1, WakeEdge
  <2>6. Promoted(t)
    BY Zenon, <1>2, <2>1, <2>4, <2>5 DEF Promoted, Settled, Undisturbed, state
  <2>7. ASSUME NEW s \in Slots, s # t PROVE Touched(s)
    BY Zenon, <2>1, <2>3, <2>5, <2>7, OtherKept DEF Undisturbed
  <2>8. QED  BY Zenon, <2>6, <2>7 DEF Touched
<1>3. QED  BY <1>1, <1>2

\* death_edge leaves a tombstone under a claim and vacates the slot off it.
LEMMA DeathTouches ==
    ASSUME TypeOK, OccupiedAgree, NEW w, NEW p \in AnyPid, NEW forced, is_alive(p),
           death_edge(w, p, forced), ready' = ready
    PROVE  \A s \in Slots : Touched(s)
<1> DEFINE t == Slot(p)
           off == ~word[t].on_cpu
<1>1. /\ t \in Slots /\ word[t] \in WordState /\ word[t].generation \in Nat
      /\ hot \in [Slots -> HotStates] /\ hot[t] \in HotStates
      /\ execution \in [Slots -> Frames] /\ word \in [Slots -> WordState]
  BY Zenon, PidFields, SlotFields DEF TypeOK, TableTypeOK
<1>2. PICK r : /\ word' = [word EXCEPT ![t] = IF off THEN vacated(moved(word[t], "Dead"))
                                              ELSE moved(word[t], "Dead")]
               /\ hot' = [hot EXCEPT ![t] = IF off THEN FreshHot
                                            ELSE [hot[t] EXCEPT !.exit_reason = r]]
               /\ execution' = [execution EXCEPT ![t] = IF off THEN NoExecution
                                                        ELSE execution[t]]
  BY Zenon DEF death_edge
<1>3. \A s \in Slots : s # t =>
        word'[s] = word[s] /\ hot'[s] = hot[s] /\ execution'[s] = execution[s]
  BY Zenon, <1>1, <1>2
<1>4. CASE off
  <2>1. /\ word'[t] = vacated(moved(word[t], "Dead")) /\ execution'[t] = NoExecution
        /\ hot'[t] = FreshHot
    BY Zenon, <1>1, <1>2, <1>4
  <2>2. Vacated(t)
    BY <1>4, <2>1 DEF Vacated, vacated, NoExecution, Body, FreshHot
  <2>3. QED  BY Zenon, <1>3, <2>2, OtherKept DEF Touched
<1>5. CASE ~off
  <2>1. /\ word'[t] = moved(word[t], "Dead") /\ execution'[t] = execution[t]
        /\ hot'[t] = [hot[t] EXCEPT !.exit_reason = r]
    BY Zenon, <1>1, <1>2, <1>5
  <2>2. /\ word'[t].state = "Dead" /\ word'[t].on_cpu = word[t].on_cpu
        /\ word'[t].generation = word[t].generation
    BY <1>1, <2>1 DEF moved, WordState
  <2>3. /\ hot'[t].mailbox = hot[t].mailbox
        /\ hot'[t].waiting = hot[t].waiting /\ hot'[t].awaiting_reply = hot[t].awaiting_reply
    BY Zenon, <1>1, <2>1 DEF HotStates
  <2>4. Killed(t)
    BY Zenon, <1>5, <2>1, <2>2, <2>3 DEF Killed, Settled, SameClaim
  <2>5. QED  BY Zenon, <1>3, <2>4, OtherKept DEF Touched
<1>6. QED  BY <1>4, <1>5

\* The slot a spawn takes is vacant.
LEMMA SpawnsVacant ==
    ASSUME TypeOK, Custody, spawn_slot \in Slots
    PROVE  word[spawn_slot].state = "Vacant"
<1>1. CASE registry.free # <<>>
  <2>1. registry.free \in Seq(Slots)
    BY DEF TypeOK, TableTypeOK, Registries
  <2>2. Len(registry.free) \in DOMAIN registry.free /\ spawn_slot = registry.free[Len(registry.free)]
    BY <1>1, <2>1 DEF spawn_slot
  <2>3. Listed(spawn_slot)
    BY Zenon, <2>2 DEF Listed
  <2>4. QED  BY Zenon, <2>3 DEF Custody, FreersAgree
<1>2. CASE registry.free = <<>>
  <2>1. spawn_slot = published /\ published \in Nat
    BY <1>2 DEF spawn_slot, TypeOK, TableTypeOK
  <2>2. ~(spawn_slot < published)
    BY <2>1
  <2>3. QED  BY Zenon, <2>2 DEF Custody, OccupiedAgree
<1>3. QED  BY <1>1, <1>2

\* spawn gives a vacant slot to a queued process.
LEMMA SpawnTouches ==
    ASSUME TypeOK, Custody, NEW par, spawn_fits, spawn(par), hot' = hot
    PROVE  \A s \in Slots : Touched(s)
<1> DEFINE t == spawn_slot
           g == spawn_generation
<1>1. /\ t \in Slots /\ g <= MaxGeneration /\ word \in [Slots -> WordState]
      /\ execution \in [Slots -> Frames] /\ ready \in [Pids -> Nat]
  BY DEF spawn_fits, TypeOK, TableTypeOK
<1>2. g \in Nat \ {0}
  <2>1. word[t].generation \in Nat
    BY Zenon, <1>1, SlotFields
  <2>2. QED  BY <2>1 DEF spawn_generation
<1>3. <<t, g>> \in Pids
  BY <1>1, <1>2, TableAssumption DEF Pids
<1>4. /\ word' = [word EXCEPT ![t] = occupied(g)] /\ execution' = [execution EXCEPT ![t] = Body]
      /\ ready' = [ready EXCEPT ![<<t, g>>] = ready[<<t, g>>] + 1]
  BY Zenon DEF spawn
<1> HIDE DEF t, g
<1>5. word'[t] = occupied(g) /\ execution'[t] = Body
  BY Zenon, <1>1, <1>4
<1>6. ready'[<<t, g>>] > 0
  BY <1>1, <1>3, <1>4
<1>7. /\ word'[t].state = "Created" /\ word'[t].generation = g /\ execution'[t].at = "body"
  BY <1>5 DEF occupied, Body
<1>8. ~word[t].on_cpu
  <2>1. word[t].state = "Vacant"
    BY Zenon, <1>1, SpawnsVacant DEF t
  <2>2. QED  BY Zenon, <1>1, <2>1 DEF Custody, ClaimsAgree
<1>9. Born(t)
  BY <1>6, <1>7, <1>8 DEF Born
<1>10. ASSUME NEW s \in Slots, s # t PROVE Touched(s)
  <2>1. word'[s] = word[s] /\ execution'[s] = execution[s]
    BY Zenon, <1>1, <1>4, <1>10
  <2>2. occupant(s) # <<t, g>>
    BY <1>10 DEF occupant
  <2>3. ready'[occupant(s)] = ready[occupant(s)]
    BY <1>1, <1>4, <2>2
  <2>4. QED  BY Zenon, <2>1, <2>3, OtherKept DEF Custody
<1>11. QED  BY Zenon, <1>9, <1>10 DEF Touched

\* reclaim vacates the tombstone its worker reaps.
LEMMA ReclaimTouches ==
    ASSUME TypeOK, Custody, NEW w \in Workers, reclaim(w)
    PROVE  \A s \in Slots : Touched(s)
<1> DEFINE t == Slot(reap[w])
<1>1. t \in Slots
  BY Zenon, PidFields DEF TypeOK, DriverTypeOK
<1>2. ~word[t].on_cpu
  <2>1. Reaps(w, t)
    BY DEF reclaim, Reaps
  <2>2. QED  BY Zenon, <1>1, <2>1 DEF Custody, ReapersAgree
<1>3. /\ word' = [word EXCEPT ![t] = vacated(word[t])] /\ hot' = [hot EXCEPT ![t] = FreshHot]
      /\ execution' = [execution EXCEPT ![t] = NoExecution] /\ ready' = ready
  BY Zenon DEF reclaim, reclaim_slot
<1>4. /\ word'[t] = vacated(word[t]) /\ execution'[t] = NoExecution /\ hot'[t] = FreshHot
      /\ \A s \in Slots : s # t =>
           word'[s] = word[s] /\ hot'[s] = hot[s] /\ execution'[s] = execution[s]
  BY Zenon, <1>1, <1>3 DEF TypeOK, TableTypeOK
<1>5. Vacated(t)
  BY <1>2, <1>4 DEF Vacated, vacated, NoExecution, Body, FreshHot
<1>6. QED  BY Zenon, <1>3, <1>4, <1>5, OtherKept DEF Touched, Custody

\* The trampoline records how its process ended and leaves the rest alone.
LEMMA ExitTouches ==
    ASSUME TypeOK, Custody, NEW t \in Slots, NEW h, hot' = [hot EXCEPT ![t] = h],
           word' = word, ready' = ready, execution' = execution,
           h.mailbox = hot[t].mailbox, h.deadline = hot[t].deadline,
           h.waiting = hot[t].waiting, h.awaiting_reply = hot[t].awaiting_reply
    PROVE  \A s \in Slots : Touched(s)
<1>1. hot'[t] = h /\ \A s \in Slots : s # t => hot'[s] = hot[s]
  BY Zenon DEF TypeOK, TableTypeOK
<1>2. \A s \in Slots : s # t => Touched(s)
  BY Zenon, <1>1, OtherKept DEF Custody
<1>3. claimable(word[t], word[t].generation) => ready'[occupant(t)] >= ready[occupant(t)]
  <2>1. claimable(word[t], word[t].generation) => word[t].state # "Vacant"
    BY DEF claimable
  <2>2. claimable(word[t], word[t].generation) => ready[occupant(t)] \in Nat
    BY Zenon, <2>1, OccupantQueued DEF Custody
  <2>3. QED  BY <2>2
<1>4. Touched(t)
  BY Zenon, <1>1, <1>3 DEF Touched, Kept, Settled
<1>5. QED  BY Zenon, <1>2, <1>4

------------------------------------------------------------------------------
\* The steps, by what they touch.

\* Steps of a worker that change slots it need not own.
Touching(w) ==
    \/ send_lifecycle(w) \/ promote_expired(w) \/ deliver_exit_signals(w)
    \/ wake_call_waiters(w) \/ koja_rt_send(w) \/ koja_rt_reply(w) \/ call_send(w)
    \/ kill_staged(w) \/ koja_rt_kill(w) \/ mark_dead_if_alive(w) \/ table_spawn(w)
    \/ reclaim(w) \/ koja_rt_process_exit(w) \/ crash(w) \/ set_crash_info(w)

\* Steps of a worker that leave every slot and the run queue alone.
Passing(w) ==
    \/ count_claim(w) \/ free(w) \/ check_shutdown(w) \/ cancel_reaped(w) \/ worker_loop(w)
    \/ park_for_work(w) \/ poll_signals(w) \/ enter_draining(w) \/ arm_grace(w) \/ advance(w)
    \/ grace_expired(w) \/ live_pids(w) \/ death_pass(w) \/ take_pending_kills(w)
    \/ take_exit_notices(w) \/ take_call_downs(w) \/ settled(w) \/ arm_deadline(w)
    \/ koja_rt_call_receive(w) \/ ensure_call_waiter(w) \/ evict_call_waiter(w)
    \/ monitor_snapshot(w) \/ monitor_stage(w) \/ register(w) \/ koja_rt_yield_check(w)
    \/ koja_rt_spawn(w) \/ koja_rt_monitor(w) \/ koja_rt_demonitor(w)

\* Steps of a worker on the process it claims, owns or releases.
Owning(w) ==
    \/ try_claim(w) \/ yield_running(w) \/ after_switch(w) \/ resume_receive(w)
    \/ clear_deadline(w) \/ pop_received(w) \/ cancel_deadline(w) \/ clear_awaiting_reply(w)
    \/ take_reply_or_park(w) \/ deregister(w) \/ koja_rt_receive(w)
    \/ koja_rt_receive_timeout(w) \/ koja_rt_call_token(w) \/ io_block(w)

\* deliver, promote, death_edge, spawn and reclaim, each in the steps that call it.
LEMMA TouchingStep ==
    ASSUME TypeOK, Custody, DueOK, NEW w \in Workers, Touching(w)
    PROVE  \A s \in Slots : Touched(s)
<1>a. /\ OccupiedAgree /\ main_pid \in AnyPid /\ cur[w] \in AnyPid /\ hand[w] \in Hands
      /\ me(w) \in Slots /\ NoPid \in AnyPid
  <2>1. NoPid \in AnyPid
    BY TableAssumption DEF NoPid, AnyPid, Slots
  <2>2. QED  BY Zenon, <2>1, Owner DEF Custody, TypeOK, TableTypeOK, DriverTypeOK
<1>b. \A tag \in Tags, p \in AnyPid, n \in Nat : Message(tag, p, n) \in Messages
  BY DEF Message, Messages
<1>c. execution' = execution => Undisturbed
  BY Zenon DEF Undisturbed
<1>d. Known \subseteq AnyPid
  BY Zenon, PidFields DEF Known
<1>1. CASE send_lifecycle(w)
  <2>1. deliver(main_pid, Message("Lifecycle", NoPid, 0)) /\ execution' = execution
    BY Zenon, <1>1 DEF send_lifecycle
  <2>2. Message("Lifecycle", NoPid, 0) \in Messages
    BY <1>a, <1>b DEF Tags
  <2>3. QED  BY Zenon, <1>a, <1>c, <2>1, <2>2, DeliverTouches
<1>2. CASE promote_expired(w)
  <2>1. PICK e \in hand[w].due : promote(e[1], promotes_expired(e[1], e[2]))
    BY Zenon, <1>2 DEF promote_expired
  <2>2. e[1] \in AnyPid /\ e[2] # 0
    BY <1>a, PidFields DEF Hands, DueOK
  <2>3. execution' = execution
    BY Zenon, <1>2 DEF promote_expired
  <2>4. promotes_expired(e[1], e[2]) =>
            /\ is_alive(e[1]) /\ state(e[1]) \in {"Blocked", "WaitingIO"}
            /\ hot[Slot(e[1])].deadline # 0
    BY Zenon, <2>2 DEF promotes_expired
  <2>5. QED  BY Zenon, <1>a, <1>c, <2>1, <2>2, <2>3, <2>4, PromoteTouches
<1>3. CASE deliver_exit_signals(w)
  <2>1. PICK n \in hand[w].notices : deliver(n.watcher, Message("ExitSignal", n.target, n.token))
    BY Zenon, <1>3 DEF deliver_exit_signals
  <2>2. n.watcher \in AnyPid /\ n.target \in AnyPid /\ n.token \in Nat
    BY <1>a DEF Hands, Notices
  <2>3. execution' = execution
    BY Zenon, <1>3 DEF deliver_exit_signals
  <2>4. Message("ExitSignal", n.target, n.token) \in Messages
    BY <1>b, <2>2 DEF Tags
  <2>5. QED  BY Zenon, <1>a, <1>c, <2>1, <2>2, <2>3, <2>4, DeliverTouches
<1>4. CASE wake_call_waiters(w)
  <2>1. PICK c \in hand[w].downs : promote(c.caller, promotes_call(c.caller, c.token))
    BY Zenon, <1>4 DEF wake_call_waiters
  <2>2. c.caller \in AnyPid
    BY <1>a DEF Hands, CallWaiters
  <2>3. execution' = execution
    BY Zenon, <1>4 DEF wake_call_waiters
  <2>4. promotes_call(c.caller, c.token) =>
            /\ is_alive(c.caller) /\ state(c.caller) \in {"Blocked", "WaitingIO"}
            /\ hot[Slot(c.caller)].waiting # "Receive"
    BY DEF promotes_call
  <2>5. QED  BY Zenon, <1>a, <1>c, <2>1, <2>2, <2>3, <2>4, PromoteTouches
<1>5. CASE koja_rt_send(w)
  <2>1. PICK p \in Known : deliver(p, Message("Business", cur[w], 0))
    BY Zenon, <1>5 DEF koja_rt_send
  <2>2. execution' = execution
    BY Zenon, <1>5 DEF koja_rt_send
  <2>3. Message("Business", cur[w], 0) \in Messages
    BY <1>a, <1>b DEF Tags
  <2>4. QED  BY Zenon, <1>a, <1>c, <1>d, <2>1, <2>2, <2>3, DeliverTouches
<1>6. CASE koja_rt_reply(w)
  <2>1. PICK r \in replies : deliver_reply(r[1], r[2])
    BY Zenon, <1>6 DEF koja_rt_reply
  <2>2. r[1] \in AnyPid /\ r[2] \in Nat
    BY DEF TypeOK, DriverTypeOK
  <2>3. execution' = execution
    BY Zenon, <1>6 DEF koja_rt_reply
  <2>4. Message("Reply", NoPid, r[2]) \in Messages
    BY <1>a, <1>b, <2>2 DEF Tags
  <2>5. CASE accepts_reply(r[1], r[2])
    BY Zenon, <1>a, <1>c, <2>1, <2>2, <2>3, <2>4, <2>5, DeliverTouches DEF deliver_reply
  <2>6. CASE ~accepts_reply(r[1], r[2])
    BY Zenon, <1>a, <1>c, <2>1, <2>3, <2>6, AllKept DEF deliver_reply
  <2>7. QED  BY <2>5, <2>6
<1>7. CASE call_send(w)
  <2>1. PICK d : /\ deliver(frame(w).callee, Message("Business", cur[w], frame(w).token))
                 /\ execution' = [execution EXCEPT ![me(w)] = [frame(w) EXCEPT !.deadline = d]]
    BY Zenon, <1>7 DEF call_send, set_frame
  <2>2. execution \in [Slots -> Frames] /\ frame(w) \in Frames
    BY <1>a DEF TypeOK, TableTypeOK, frame
  <2>3. frame(w).callee \in AnyPid /\ frame(w).token \in Nat
    BY <2>2 DEF Frames
  <2>4. Message("Business", cur[w], frame(w).token) \in Messages
    BY <1>a, <1>b, <2>3 DEF Tags
  <2>5. Undisturbed
    <3>1. /\ execution'[me(w)] = [execution[me(w)] EXCEPT !.deadline = d]
          /\ \A s \in Slots : s # me(w) => execution'[s] = execution[s]
      BY Zenon, <1>a, <2>1, <2>2 DEF frame
    <3>2. execution'[me(w)].at = execution[me(w)].at /\ execution'[me(w)].token = execution[me(w)].token
      BY Zenon, <2>2, <3>1 DEF frame, Frames
    <3>3. QED  BY Zenon, <3>1, <3>2 DEF Undisturbed
  <2>6. QED  BY Zenon, <1>a, <2>1, <2>3, <2>4, <2>5, DeliverTouches
<1>8. CASE kill_staged(w) \/ koja_rt_kill(w)
  <2>1. PICK p \in AnyPid : \E l : kill(w, p, l)
    BY Zenon, <1>8, <1>a, <1>d DEF kill_staged, koja_rt_kill, Hands
  <2>2. ready' = ready
    BY Zenon, <1>8 DEF kill_staged, koja_rt_kill
  <2>3. CASE is_alive(p)
    BY Zenon, <1>a, <2>1, <2>2, <2>3, DeathTouches DEF kill
  <2>4. CASE ~is_alive(p)
    BY Zenon, <1>a, <1>c, <2>1, <2>2, <2>4, AllKept DEF kill
  <2>5. QED  BY <2>3, <2>4
<1>9. CASE mark_dead_if_alive(w)
  <2>1. ready' = ready
    BY Zenon, <1>9 DEF mark_dead_if_alive
  <2>2. CASE is_alive(cur[w])
    BY Zenon, <1>9, <1>a, <2>1, <2>2, DeathTouches DEF mark_dead_if_alive
  <2>3. CASE ~is_alive(cur[w])
    BY Zenon, <1>9, <1>a, <1>c, <2>1, <2>3, AllKept DEF mark_dead_if_alive
  <2>4. QED  BY <2>2, <2>3
<1>10. CASE table_spawn(w)
  <2>1. CASE is_alive(cur[w])
    BY Zenon, <1>10, <2>1, SpawnTouches DEF table_spawn
  <2>2. CASE ~is_alive(cur[w])
    BY Zenon, <1>10, <1>a, <1>c, <2>2, AllKept DEF table_spawn
  <2>3. QED  BY <2>1, <2>2
<1>11. CASE koja_rt_process_exit(w) \/ crash(w) \/ set_crash_info(w)
  <2>1. /\ word' = word /\ ready' = ready /\ execution' = execution
        /\ \E r : \/ hot' = [hot EXCEPT ![me(w)] = [hot[me(w)] EXCEPT !.exit_reason = r]]
                  \/ hot' = [hot EXCEPT ![me(w)] = [hot[me(w)] EXCEPT !.crash_info = r]]
    BY Zenon, <1>11 DEF koja_rt_process_exit, crash, set_crash_info, counters
  <2>2. PICK h : /\ hot' = [hot EXCEPT ![me(w)] = h]
                 /\ \E r : \/ h = [hot[me(w)] EXCEPT !.exit_reason = r]
                           \/ h = [hot[me(w)] EXCEPT !.crash_info = r]
    BY Zenon, <2>1
  <2>3. hot[me(w)] \in HotStates
    BY Zenon, <1>a, SlotFields
  <2>4. /\ h.mailbox = hot[me(w)].mailbox /\ h.deadline = hot[me(w)].deadline
        /\ h.waiting = hot[me(w)].waiting /\ h.awaiting_reply = hot[me(w)].awaiting_reply
    BY Zenon, <2>2, <2>3 DEF HotStates
  <2>5. QED  BY Zenon, <1>a, <2>1, <2>2, <2>4, ExitTouches
<1>12. CASE reclaim(w)
  BY Zenon, <1>12, ReclaimTouches
<1>13. QED  BY Zenon, <1>1, <1>2, <1>3, <1>4, <1>5, <1>6, <1>7, <1>8, <1>9, <1>10, <1>11, <1>12
            DEF Touching

\* A worker that only moves on takes its process nowhere it may not be.
LEMMA Goes ==
    ASSUME TypeOK, NEW w \in Workers, NEW l, cur' = cur, pc' = [pc EXCEPT ![w] = l],
           cur[w] # NoPid => Advances(w, l)
    PROVE  \A v \in Workers : Moves(v)
<1>1. pc'[w] = l /\ \A v \in Workers : v # w => pc'[v] = pc[v]
  BY DEF TypeOK, DriverTypeOK
<1>2. QED  BY Zenon, <1>1 DEF Moves, Advances

\* These steps take a worker only where the process it owns may be.
LEMMA MovingStep ==
    ASSUME TypeOK, Custody, NEW w \in Workers, RunOK(w), Passing(w) \/ Touching(w)
    PROVE  \A v \in Workers : Moves(v)
<1> USE DEF goto
<1>a. /\ pc[w] \in OwningLabels => cur[w] # NoPid
      /\ pc[w] \notin OwningLabels \cup SettleLabels => cur[w] = NoPid
      /\ pc[w] \in SettleLabels /\ cur[w] # NoPid => hand[w].back \in {"run", "switch"}
  BY Zenon DEF Custody, LabelAgrees
<1>b. cur[w] # NoPid /\ pc[w] \notin {"claimed", "run", "switch"} => frame(w).at # "receive"
  BY Zenon DEF RunOK
<1>c. cur[w] # NoPid /\ pc[w] \in CallLabels => frame(w).at = "call"
  BY Zenon DEF RunOK
\* Labels between processes hold no claim.
<1>1. CASE \/ free(w) \/ check_shutdown(w) \/ cancel_reaped(w) \/ worker_loop(w)
           \/ park_for_work(w) \/ poll_signals(w) \/ enter_draining(w) \/ arm_grace(w)
           \/ advance(w) \/ grace_expired(w) \/ live_pids(w) \/ send_lifecycle(w)
           \/ promote_expired(w) \/ reclaim(w)
  <2>1. /\ pc[w] \in {"free", "check", "cancel_reaped", "loop", "idle", "drain", "grace", "scan",
                      "lifecycle", "firing", "reclaim"}
        /\ cur' = cur /\ \E l : pc' = [pc EXCEPT ![w] = l]
    <3>1. pc' = pc => \E l : pc' = [pc EXCEPT ![w] = l]
      BY Zenon DEF TypeOK, DriverTypeOK
    <3>2. QED  BY Zenon, <1>1, <3>1 DEF free, check_shutdown, cancel_reaped, worker_loop,
                 park_for_work, poll_signals, enter_draining, arm_grace, advance,
                 grace_expired, live_pids, send_lifecycle, promote_expired, reclaim
  <2>2. cur[w] = NoPid
    BY <1>a, <2>1 DEF OwningLabels, RunLabels, SettleLabels, KillLabels
  <2>3. QED  BY Zenon, <2>1, <2>2, Goes
\* A settler stays among its labels until it goes back.
<1>2. CASE \/ death_pass(w) \/ take_pending_kills(w) \/ take_exit_notices(w)
           \/ take_call_downs(w) \/ deliver_exit_signals(w) \/ wake_call_waiters(w)
           \/ kill_staged(w) \/ mark_dead_if_alive(w) \/ monitor_snapshot(w)
           \/ monitor_stage(w) \/ set_crash_info(w) \/ table_spawn(w)
  <2>1. PICK l \in SettleLabels \cup {"mon_stage", "dying", "run"} : pc' = [pc EXCEPT ![w] = l]
    <3> USE DEF SettleLabels, KillLabels
    <3>1. CASE death_pass(w)
      BY Zenon, <3>1 DEF death_pass
    <3>2. CASE take_pending_kills(w) \/ take_exit_notices(w) \/ take_call_downs(w)
      BY Zenon, <3>2 DEF take_pending_kills, take_exit_notices, take_call_downs
    <3>3. CASE deliver_exit_signals(w) \/ wake_call_waiters(w)
      BY Zenon, <3>3 DEF deliver_exit_signals, wake_call_waiters
    <3>4. CASE kill_staged(w) \/ mark_dead_if_alive(w)
      BY Zenon, <3>4 DEF kill_staged, kill, mark_dead_if_alive
    <3>5. CASE monitor_snapshot(w) \/ monitor_stage(w) \/ set_crash_info(w) \/ table_spawn(w)
      BY Zenon, <3>5 DEF monitor_snapshot, monitor_stage, set_crash_info, table_spawn
    <3>6. QED  BY Zenon, <1>2, <3>1, <3>2, <3>3, <3>4, <3>5
  <2>2. /\ cur' = cur
        /\ pc[w] \in {"pass", "kills", "notices", "downs", "notifying", "promoting", "killing",
                      "dying", "mon_read", "mon_stage", "crashing", "spawning"}
    BY Zenon, <1>2 DEF death_pass, take_pending_kills, take_exit_notices, take_call_downs,
       deliver_exit_signals, wake_call_waiters, kill_staged, mark_dead_if_alive,
       monitor_snapshot, monitor_stage, set_crash_info, table_spawn
  <2>3. l \notin CallLabels
    BY DEF SettleLabels, KillLabels, CallLabels
  <2>4. cur[w] # NoPid => Advances(w, l)
    BY <1>b, <2>2, <2>3 DEF Advances
  <2>5. QED  BY Zenon, <2>1, <2>2, <2>4, Goes
<1>3. CASE settled(w)
  <2>1. pc[w] = "settled" /\ cur' = cur /\ pc' = [pc EXCEPT ![w] = hand[w].back]
    BY Zenon, <1>3 DEF settled
  <2>2. cur[w] # NoPid => hand[w].back \in {"run", "switch"}
    BY <1>a, <2>1 DEF SettleLabels, KillLabels
  <2>3. cur[w] # NoPid => Advances(w, hand[w].back)
    BY <1>b, <2>1, <2>2 DEF Advances, CallLabels
  <2>4. QED  BY Zenon, <2>1, <2>3, Goes
\* A body calls an intrinsic.
<1>4. CASE \/ koja_rt_yield_check(w) \/ koja_rt_spawn(w) \/ koja_rt_monitor(w)
           \/ koja_rt_demonitor(w) \/ koja_rt_send(w) \/ koja_rt_reply(w)
           \/ koja_rt_process_exit(w) \/ crash(w) \/ koja_rt_kill(w)
  <2>1. pc[w] = "run" /\ frame(w).at = "body" /\ cur' = cur
    BY Zenon, <1>4 DEF koja_rt_yield_check, koja_rt_spawn, koja_rt_monitor, koja_rt_demonitor,
       koja_rt_send, koja_rt_reply, koja_rt_process_exit, crash, koja_rt_kill, Calls
  <2>2. PICK l \in {"run", "yielded", "spawning", "kills", "mon_read", "dying", "crashing", "pass"} :
          pc' = [pc EXCEPT ![w] = l]
    <3>1. pc = [pc EXCEPT ![w] = "run"]
      BY Zenon, <2>1 DEF TypeOK, DriverTypeOK
    <3>2. CASE koja_rt_yield_check(w) \/ koja_rt_spawn(w) \/ koja_rt_process_exit(w) \/ crash(w)
      BY Zenon, <3>2 DEF koja_rt_yield_check, koja_rt_spawn, koja_rt_process_exit, crash
    <3>3. CASE koja_rt_monitor(w)
      BY Zenon, <3>3 DEF koja_rt_monitor
    <3>4. CASE koja_rt_demonitor(w) \/ koja_rt_send(w) \/ koja_rt_reply(w)
      <4>1. pc' = pc
        BY Zenon, <3>4 DEF koja_rt_demonitor, koja_rt_send, koja_rt_reply
      <4>2. QED  BY Zenon, <3>1, <4>1
    <3>5. CASE koja_rt_kill(w)
      BY Zenon, <3>5 DEF koja_rt_kill, kill
    <3>6. QED  BY Zenon, <1>4, <3>2, <3>3, <3>4, <3>5
  <2>3. Advances(w, l)
    BY <2>1 DEF Advances, CallLabels
  <2>4. QED  BY Zenon, <2>1, <2>2, <2>3, Goes
<1>5. CASE count_claim(w) \/ arm_deadline(w) \/ register(w)
  <2>1. PICK l : /\ pc' = [pc EXCEPT ![w] = l] /\ cur' = cur
                 /\ \/ pc[w] = "claimed" /\ l = "run"
                    \/ pc[w] \in {"arm", "io_register"} /\ l \in {"arm", "switch"}
    BY Zenon, <1>5 DEF count_claim, arm_deadline, register
  <2>2. cur[w] # NoPid => Advances(w, l)
    BY <1>b, <2>1 DEF Advances, CallLabels
  <2>3. QED  BY Zenon, <2>1, <2>2, Goes
<1>6. CASE koja_rt_call_receive(w) \/ ensure_call_waiter(w) \/ evict_call_waiter(w) \/ call_send(w)
  <2>1. PICK l : /\ pc' = [pc EXCEPT ![w] = l] /\ cur' = cur
                 /\ \/ pc[w] = "run" /\ frame(w).at = "call" /\ l \in CallLabels
                    \/ pc[w] \in CallLabels /\ l \in CallLabels \cup {"run"}
                    \/ pc[w] = "call_evict" /\ l = "cancel"
    BY Zenon, <1>6 DEF koja_rt_call_receive, ensure_call_waiter, evict_call_waiter, call_send,
       CallLabels
  <2>2. cur[w] # NoPid => Advances(w, l)
    BY <1>b, <1>c, <2>1 DEF Advances, CallLabels
  <2>3. QED  BY Zenon, <2>1, <2>2, Goes
<1>7. QED  BY Zenon, <1>1, <1>2, <1>3, <1>4, <1>5, <1>6 DEF Passing, Touching

\* The loop, the settler and the registry calls leave every slot alone.
LEMMA PassingStep ==
    ASSUME TypeOK, Custody, NEW w \in Workers, Passing(w)
    PROVE  \A s \in Slots : Touched(s)
<1>1. word' = word /\ hot' = hot /\ execution' = execution /\ ready' = ready
  BY Zenon DEF Passing, slotVars, tableVars, counters, count_claim, free, check_shutdown,
     cancel_reaped, worker_loop, park_for_work, poll_signals, enter_draining, arm_grace,
     advance, grace_expired, live_pids, death_pass, take_pending_kills, take_exit_notices,
     take_call_downs, settled, arm_deadline, koja_rt_call_receive, ensure_call_waiter,
     evict_call_waiter, monitor_snapshot, monitor_stage, register, koja_rt_yield_check,
     koja_rt_spawn, koja_rt_monitor, koja_rt_demonitor
<1>2. QED  BY Zenon, <1>1, AllKept DEF Undisturbed, Custody

------------------------------------------------------------------------------
\* The steps of a worker on its own process.

\* It is enough to look at the process's slot and its worker.
LEMMA OwnersDo ==
    ASSUME TypeOK, TypeOK', Custody, WakeInv, NEW w \in Workers, NEW t \in Slots,
           \A s \in Slots : s # t => Touched(s),
           \A v \in Workers : v # w => cur'[v] = cur[v] /\ pc'[v] = pc[v],
           \A v \in Workers : v # w /\ cur[v] # NoPid => me(v) # t,
           SlotOK(t)', RunOK(w)'
    PROVE  (\A s \in Slots : SlotOK(s)') /\ (\A v \in Workers : RunOK(v)')
<1>1. ASSUME NEW s \in Slots, s # t PROVE SlotOK(s)'
  BY Zenon, <1>1, TouchedSlot DEF Custody, WakeInv
<1>2. ASSUME NEW v \in Workers, v # w PROVE RunOK(v)'
  <2>1. CASE cur[v] = NoPid
    BY Zenon, <1>2, <2>1 DEF RunOK
  <2>2. CASE cur[v] # NoPid
    <3>1. me(v) \in Slots /\ Touched(me(v))
      BY Zenon, <1>2, <2>2, Owner DEF Custody
    <3>2. RunOK(v) /\ Moves(v)
      BY Zenon, <1>2 DEF WakeInv, Moves, Advances
    <3>3. QED  BY Zenon, <3>1, <3>2, TouchedOwner
  <2>3. QED  BY <2>1, <2>2
<1>3. QED  BY Zenon, <1>1, <1>2

\* Its process runs on, or is dead under it.
LEMMA OwnerRuns ==
    ASSUME NEW w \in Workers, NEW t \in Slots, t = me(w), cur' = cur,
           word'[t].on_cpu, word'[t].state \in {"Running", "Dead"},
           execution'[t].at = "receive" => word'[t].state = "Dead" /\ pc'[w] = "switch",
           execution'[t].at = "call" /\ pc'[w] \notin {"call_evict", "cancel"} =>
               hot'[t].awaiting_reply = execution'[t].token /\ execution'[t].token # 0,
           pc'[w] \in CallLabels => execution'[t].at = "call"
    PROVE  SlotOK(t)' /\ RunOK(w)'
<1>1. SlotOK(t)'
  BY DEF SlotOK, QueueOK, WakeOK, FrameOK, claimable
<1>2. RunOK(w)'
  <2>1. Slot(cur'[w]) = t
    BY Zenon DEF me
  <2>2. QED  BY Zenon, <2>1 DEF RunOK, me, frame
<1>3. QED  BY <1>1, <1>2

\* Its process parks.
LEMMA OwnerParks ==
    ASSUME NEW w \in Workers, NEW t \in Slots, t = me(w), cur' = cur,
           word'[t].on_cpu, word'[t].state \in {"Blocked", "WaitingIO"}, WakeOK(t)',
           pc'[w] \in {"arm", "io_register", "switch"},
           execution'[t].at = "receive" =>
               /\ pc'[w] = "switch" /\ word'[t].state = "Blocked"
               /\ hot'[t].waiting = "Receive" /\ hot'[t].deadline = 0,
           execution'[t].at = "call" =>
               hot'[t].awaiting_reply = execution'[t].token /\ execution'[t].token # 0
    PROVE  SlotOK(t)' /\ RunOK(w)'
<1>1. QueueOK(t)'
  BY DEF QueueOK, claimable
<1>2. FrameOK(t)'
  BY DEF FrameOK
<1>3. RunOK(w)'
  <2>1. Slot(cur'[w]) = t
    BY Zenon DEF me
  <2>2. pc'[w] \notin CallLabels
    BY DEF CallLabels
  <2>3. QED  BY Zenon, <2>1, <2>2 DEF RunOK, me, frame
<1>4. QED  BY <1>1, <1>2, <1>3 DEF SlotOK

\* A worker at a running label owns a process that runs or is dead, and only
\* a dead one refuses to park.
LEMMA OwnFacts ==
    ASSUME TypeOK, Custody, WakeInv, NEW w \in Workers, pc[w] \in RunLabels
    PROVE  /\ me(w) \in Slots /\ cur[w] # NoPid /\ word[me(w)].on_cpu
           /\ word[me(w)].state \in {"Running", "Dead"}
           /\ can_park(cur[w]) <=> word[me(w)].state = "Running"
           /\ \A v \in Workers : v # w /\ cur[v] # NoPid => me(v) # me(w)
<1>1. cur[w] # NoPid
  BY Zenon DEF Custody, LabelAgrees, OwningLabels
<1>2. /\ me(w) \in Slots /\ word[me(w)].on_cpu /\ word[me(w)].generation = Generation(cur[w])
      /\ \A v \in Workers : v # w /\ cur[v] # NoPid => me(v) # me(w)
  BY Zenon, <1>1, Owner DEF Custody
<1>3. pc[w] \notin {"arm", "io_register", "switch"}
  BY DEF RunLabels
<1>4. word[me(w)].state \in {"Running", "Dead"}
  BY Zenon, <1>1, <1>3 DEF WakeInv, RunOK
<1>5. can_park(cur[w]) <=> word[me(w)].state = "Running"
  BY <1>2, <1>4 DEF can_park, is_alive, alive_at, state, me, LiveStates
<1>6. QED  BY Zenon, <1>1, <1>2, <1>4, <1>5

\* A step that writes one slot keeps the others.
LEMMA OnlyOne ==
    ASSUME TypeOK, Custody, NEW t \in Slots, ready' = ready,
           \A s \in Slots : s # t =>
               word'[s] = word[s] /\ hot'[s] = hot[s] /\ execution'[s] = execution[s]
    PROVE  \A s \in Slots : s # t => Touched(s)
BY Zenon, OtherKept DEF Custody

\* park: the edge and the wait it records.
LEMMA ParkEdge ==
    ASSUME TypeOK, NEW p \in AnyPid, NEW to, NEW target, NEW d, park(p, to, target, d),
           NEW t \in Slots, t = Slot(p)
    PROVE  /\ word'[t].state = to /\ word'[t].on_cpu = word[t].on_cpu
           /\ hot'[t].mailbox = hot[t].mailbox /\ hot'[t].deadline = d
           /\ hot'[t].awaiting_reply = hot[t].awaiting_reply
           /\ to = "Blocked" => hot'[t].waiting = target
           /\ \A s \in Slots : s # t => word'[s] = word[s] /\ hot'[s] = hot[s]
<1>2. word[t] \in WordState /\ hot[t] \in HotStates /\ hot \in [Slots -> HotStates]
  BY Zenon, SlotFields DEF TypeOK, TableTypeOK
<1>3. word'[t] = moved(word[t], to) /\ \A s \in Slots : s # t => word'[s] = word[s]
  BY Zenon, OneEdge DEF park
<1>4. PICK x : /\ to = "Blocked" => x = target
               /\ hot' = [hot EXCEPT ![t] = [hot[t] EXCEPT !.deadline = d, !.waiting = x]]
  <2>1. DEFINE y == IF to = "Blocked" THEN target ELSE hot[t].waiting
  <2>2. hot' = [hot EXCEPT ![t] = [hot[t] EXCEPT !.deadline = d, !.waiting = y]]
    BY Zenon, <1>2 DEF park, HotStates
  <2>3. QED  BY Zenon, <2>2
<1>5. /\ hot'[t] = [hot[t] EXCEPT !.deadline = d, !.waiting = x]
      /\ \A s \in Slots : s # t => hot'[s] = hot[s]
  BY Zenon, <1>2, <1>4
<1>6. word'[t].state = to /\ word'[t].on_cpu = word[t].on_cpu
  BY <1>2, <1>3 DEF moved, WordState
<1>7. /\ hot'[t].mailbox = hot[t].mailbox /\ hot'[t].deadline = d /\ hot'[t].waiting = x
      /\ hot'[t].awaiting_reply = hot[t].awaiting_reply
  BY <1>2, <1>5 DEF HotStates
<1>8. QED  BY Zenon, <1>3, <1>4, <1>5, <1>6, <1>7

\* What a worker writes when its process neither parks nor leaves it.
Writes(w, h, f) ==
    /\ word' = word /\ ready' = ready /\ cur' = cur
    /\ hot' = [hot EXCEPT ![me(w)] = h] /\ execution' = [execution EXCEPT ![me(w)] = f]

\* A process that runs on keeps what it owes, if the frame it is in and the
\* label of its worker fit.
LEMMA WritesStep ==
    ASSUME TypeOK, TypeOK', Custody, WakeInv, NEW w \in Workers, pc[w] \in RunLabels,
           NEW h, NEW f, NEW l, Writes(w, h, f), pc' = [pc EXCEPT ![w] = l],
           f.at = "receive" => word[me(w)].state = "Dead" /\ l = "switch",
           f.at = "call" /\ l \notin {"call_evict", "cancel"} =>
               h.awaiting_reply = f.token /\ f.token # 0,
           l \in CallLabels => f.at = "call"
    PROVE  (\A s \in Slots : SlotOK(s)') /\ (\A v \in Workers : RunOK(v)')
<1>1. PICK t \in Slots : t = me(w)
  BY Zenon, OwnFacts
<1>2. /\ cur[w] # NoPid /\ word[t].on_cpu /\ word[t].state \in {"Running", "Dead"}
      /\ \A v \in Workers : v # w /\ cur[v] # NoPid => me(v) # t
  BY Zenon, <1>1, OwnFacts
<1>3. /\ hot'[t] = h /\ execution'[t] = f /\ word'[t] = word[t]
      /\ \A s \in Slots : s # t =>
           word'[s] = word[s] /\ hot'[s] = hot[s] /\ execution'[s] = execution[s]
  BY Zenon, <1>1 DEF Writes, TypeOK, TableTypeOK
<1>4. pc'[w] = l /\ \A v \in Workers : v # w => pc'[v] = pc[v]
  BY Zenon DEF TypeOK, DriverTypeOK
<1>5. SlotOK(t)' /\ RunOK(w)'
  <2>1. /\ execution'[t].at = "receive" => word'[t].state = "Dead" /\ pc'[w] = "switch"
        /\ execution'[t].at = "call" /\ pc'[w] \notin {"call_evict", "cancel"} =>
               hot'[t].awaiting_reply = execution'[t].token /\ execution'[t].token # 0
        /\ pc'[w] \in CallLabels => execution'[t].at = "call"
    BY Zenon, <1>1, <1>3, <1>4
  <2>2. word'[t].on_cpu /\ word'[t].state \in {"Running", "Dead"} /\ cur' = cur
    BY Zenon, <1>2, <1>3 DEF Writes
  <2>3. QED  BY Zenon, <1>1, <2>1, <2>2, OwnerRuns
<1>6. \A s \in Slots : s # t => Touched(s)
  BY Zenon, <1>3, OnlyOne DEF Writes
<1>7. QED  BY Zenon, <1>1, <1>2, <1>4, <1>5, <1>6, OwnersDo DEF Writes

\* A park keeps what the process owes, if it has nothing to wake for.
LEMMA ParksStep ==
    ASSUME TypeOK, TypeOK', Custody, WakeInv, NEW w \in Workers, pc[w] \in RunLabels,
           NEW to \in {"Blocked", "WaitingIO"}, NEW target \in WaitTarget, NEW d, NEW f, NEW l,
           park(cur[w], to, target, d), execution' = [execution EXCEPT ![me(w)] = f],
           cur' = cur, ready' = ready, pc' = [pc EXCEPT ![w] = l],
           l \in {"arm", "io_register", "switch"},
           to = "Blocked" /\ target = "Receive" => depth(hot[me(w)].mailbox) = 0,
           to = "Blocked" /\ target = "Reply" =>
               hot[me(w)].mailbox.reply.token # hot[me(w)].awaiting_reply,
           to = "WaitingIO" => ~has_system(hot[me(w)].mailbox),
           f.at = "receive" => l = "switch" /\ to = "Blocked" /\ target = "Receive" /\ d = 0,
           f.at = "call" => hot[me(w)].awaiting_reply = f.token /\ f.token # 0
    PROVE  (\A s \in Slots : SlotOK(s)') /\ (\A v \in Workers : RunOK(v)')
<1>1. PICK t \in Slots : t = me(w)
  BY Zenon, OwnFacts
<1>2. /\ cur[w] # NoPid /\ word[t].on_cpu /\ cur[w] \in AnyPid
      /\ \A v \in Workers : v # w /\ cur[v] # NoPid => me(v) # t
  BY Zenon, <1>1, OwnFacts, Owner DEF Custody
<1>3. /\ word'[t].state = to /\ word'[t].on_cpu = word[t].on_cpu
      /\ hot'[t].mailbox = hot[t].mailbox /\ hot'[t].deadline = d
      /\ hot'[t].awaiting_reply = hot[t].awaiting_reply
      /\ to = "Blocked" => hot'[t].waiting = target
      /\ \A s \in Slots : s # t => word'[s] = word[s] /\ hot'[s] = hot[s]
  <2>1. t = Slot(cur[w])
    BY <1>1 DEF me
  <2>2. park(cur[w], to, target, d) /\ cur[w] \in AnyPid
    BY <1>2
  <2>3. QED  BY <2>1, <2>2, ParkEdge
<1>4. execution'[t] = f /\ \A s \in Slots : s # t => execution'[s] = execution[s]
  BY Zenon, <1>1 DEF TypeOK, TableTypeOK
<1>5. pc'[w] = l /\ \A v \in Workers : v # w => pc'[v] = pc[v]
  BY Zenon DEF TypeOK, DriverTypeOK
<1>6. WakeOK(t)'
  <2>1. /\ to = "Blocked" /\ hot'[t].waiting = "Receive" => depth(hot'[t].mailbox) = 0
        /\ to = "Blocked" /\ hot'[t].waiting = "Reply" =>
               hot'[t].mailbox.reply.token # hot'[t].awaiting_reply
        /\ to = "WaitingIO" => ~has_system(hot'[t].mailbox)
    BY Zenon, <1>1, <1>3
  <2>2. QED  BY Zenon, <1>3, <2>1 DEF WakeOK
<1>7. SlotOK(t)' /\ RunOK(w)'
  <2>1. execution'[t].at = "receive" =>
            /\ pc'[w] = "switch" /\ word'[t].state = "Blocked"
            /\ hot'[t].waiting = "Receive" /\ hot'[t].deadline = 0
    BY Zenon, <1>3, <1>4, <1>5
  <2>2. execution'[t].at = "call" =>
            hot'[t].awaiting_reply = execution'[t].token /\ execution'[t].token # 0
    BY Zenon, <1>1, <1>3, <1>4
  <2>3. /\ word'[t].on_cpu /\ word'[t].state \in {"Blocked", "WaitingIO"}
        /\ pc'[w] \in {"arm", "io_register", "switch"}
    BY Zenon, <1>2, <1>3, <1>5
  <2>4. QED  BY Zenon, <1>1, <1>6, <2>1, <2>2, <2>3, OwnerParks
<1>8. \A s \in Slots : s # t => Touched(s)
  BY Zenon, <1>3, <1>4, OnlyOne
<1>9. QED  BY Zenon, <1>1, <1>2, <1>5, <1>7, <1>8, OwnersDo

\* A slot, an execution cell and a label that a step leaves alone.
LEMMA Unwritten ==
    ASSUME TypeOK, NEW w \in Workers, me(w) \in Slots
    PROVE  /\ hot = [hot EXCEPT ![me(w)] = hot[me(w)]]
           /\ execution = [execution EXCEPT ![me(w)] = execution[me(w)]]
           /\ pc = [pc EXCEPT ![w] = pc[w]]
BY DEF TypeOK, TableTypeOK, DriverTypeOK

\* Everything a process does between its parks.
LEMMA RunsOn ==
    ASSUME TypeOK, TypeOK', Custody, WakeInv, NEW w \in Workers,
           \/ resume_receive(w) \/ clear_deadline(w) \/ pop_received(w) \/ cancel_deadline(w)
           \/ clear_awaiting_reply(w) \/ deregister(w) \/ koja_rt_call_token(w)
    PROVE  (\A s \in Slots : SlotOK(s)') /\ (\A v \in Workers : RunOK(v)')
<1> USE DEF goto, set_frame, counters
<1> DEFINE t == me(w)
<1>a. pc[w] \in RunLabels
  <2>1. pc[w] \in {"run", "pop", "io_clear", "call_expired", "cancel", "call_clear"}
    BY Zenon DEF resume_receive, clear_deadline, pop_received, cancel_deadline,
       clear_awaiting_reply, deregister, koja_rt_call_token, Calls
  <2>2. QED  BY <2>1 DEF RunLabels
<1>b. /\ t \in Slots /\ cur[w] # NoPid /\ hot[t] \in HotStates
      /\ frame(w) = execution[t]
  BY Zenon, <1>a, OwnFacts, SlotFields DEF frame
<1>c. /\ hot = [hot EXCEPT ![t] = hot[t]] /\ execution = [execution EXCEPT ![t] = execution[t]]
      /\ pc = [pc EXCEPT ![w] = pc[w]]
  BY Zenon, <1>b, Unwritten
<1>d. /\ pc[w] \notin {"claimed", "run", "switch"} => execution[t].at # "receive"
      /\ execution[t].at = "call" /\ pc[w] \notin {"call_evict", "cancel"} =>
             hot[t].awaiting_reply = execution[t].token /\ execution[t].token # 0
      /\ pc[w] \in CallLabels => execution[t].at = "call"
  BY Zenon, <1>b DEF WakeInv, RunOK, frame
<1>e. Body.at = "body"
  BY DEF Body
<1>1. CASE resume_receive(w)
  <2>1. PICK h : hot' = [hot EXCEPT ![t] = h]
    BY Zenon, <1>1, <1>c DEF resume_receive, pop
  <2>2. Writes(w, h, Body) /\ pc' = [pc EXCEPT ![w] = "run"]
    BY Zenon, <1>1, <1>c, <2>1 DEF resume_receive, Writes
  <2>3. "run" \notin CallLabels
    BY DEF CallLabels
  <2>4. QED  BY Zenon, <1>a, <1>e, <2>2, <2>3, WritesStep
<1>2. CASE cancel_deadline(w)
  <2>1. Writes(w, hot[t], Body) /\ pc' = [pc EXCEPT ![w] = "run"]
    BY Zenon, <1>2, <1>c DEF cancel_deadline, Writes
  <2>2. "run" \notin CallLabels
    BY DEF CallLabels
  <2>3. QED  BY Zenon, <1>a, <1>e, <2>1, <2>2, WritesStep
<1>3. CASE deregister(w)
  <2>1. PICK f, l : /\ Writes(w, hot[t], f) /\ pc' = [pc EXCEPT ![w] = l]
                    /\ f.at \in {"body", "io"} /\ l \in {"run", "io_clear"}
    <3>1. CASE frame(w).deadline = 0
      BY Zenon, <1>3, <1>c, <1>e, <3>1 DEF deregister, Writes
    <3>2. CASE frame(w).deadline # 0
      BY Zenon, <1>3, <1>b, <1>c, <3>2 DEF deregister, Writes
    <3>3. QED  BY <3>1, <3>2
  <2>2. f.at # "receive" /\ f.at # "call" /\ l \notin CallLabels
    BY <2>1 DEF CallLabels
  <2>3. QED  BY Zenon, <1>a, <2>1, <2>2, WritesStep
<1>4. CASE pop_received(w)
  <2>1. PICK h : hot' = [hot EXCEPT ![t] = h]
    BY Zenon, <1>4, <1>c DEF pop_received, pop
  <2>2. /\ Writes(w, h, execution[t]) /\ pc' = [pc EXCEPT ![w] = "cancel"]
        /\ execution[t].at # "receive"
    BY Zenon, <1>4, <1>c, <1>d, <2>1 DEF pop_received, Writes
  <2>3. "cancel" \notin CallLabels
    BY DEF CallLabels
  <2>4. QED  BY Zenon, <1>a, <2>2, <2>3, WritesStep
<1>5. CASE clear_deadline(w)
  <2> DEFINE h == [hot[t] EXCEPT !.deadline = 0]
  <2>1. h.awaiting_reply = hot[t].awaiting_reply
    BY <1>b DEF HotStates
  <2>2. Writes(w, h, execution[t])
    BY Zenon, <1>5, <1>c DEF clear_deadline, Writes
  <2>3. PICK l \in {"pop", "cancel", "call_clear"} :
            /\ pc' = [pc EXCEPT ![w] = l] /\ execution[t].at # "receive"
            /\ pc[w] \in {"run", "io_clear", "call_expired"}
            /\ l = "call_clear" => pc[w] = "call_expired"
    BY Zenon, <1>5, <1>b, <1>d DEF clear_deadline
  <2>4. /\ l \in CallLabels => execution[t].at = "call"
        /\ execution[t].at = "call" => hot[t].awaiting_reply = execution[t].token /\ execution[t].token # 0
    BY <1>d, <2>3 DEF CallLabels
  <2> HIDE DEF h
  <2>5. QED  BY Zenon, <1>a, <2>1, <2>2, <2>3, <2>4, WritesStep
<1>6. CASE clear_awaiting_reply(w)
  <2>1. PICK h : Writes(w, h, execution[t])
    BY Zenon, <1>6, <1>c DEF clear_awaiting_reply, Writes
  <2>2. /\ pc' = [pc EXCEPT ![w] = "call_evict"] /\ execution[t].at # "receive"
    BY Zenon, <1>6, <1>d DEF clear_awaiting_reply
  <2>3. "call_evict" \notin CallLabels
    BY DEF CallLabels
  <2>4. QED  BY Zenon, <1>a, <2>1, <2>2, <2>3, WritesStep
<1>7. CASE koja_rt_call_token(w)
  <2>1. PICK p : execution' = [execution EXCEPT ![t] =
                     [Body EXCEPT !.at = "call", !.token = call_token + 1, !.callee = p]]
    BY Zenon, <1>7 DEF koja_rt_call_token
  <2> DEFINE f == [Body EXCEPT !.at = "call", !.token = call_token + 1, !.callee = p]
             h == [hot[t] EXCEPT !.awaiting_reply = call_token + 1]
  <2>2. f.at = "call" /\ f.token = call_token + 1 /\ h.awaiting_reply = call_token + 1
    BY <1>b DEF Body, HotStates
  <2>3. call_token + 1 # 0
    BY DEF TypeOK, DriverTypeOK
  <2>4. Writes(w, h, f) /\ pc' = [pc EXCEPT ![w] = "call_send"]
    BY Zenon, <1>7, <2>1 DEF koja_rt_call_token, Writes
  <2> HIDE DEF f, h
  <2>5. QED  BY Zenon, <1>a, <2>2, <2>3, <2>4, WritesStep
<1>8. QED  BY Zenon, <1>1, <1>2, <1>3, <1>4, <1>5, <1>6, <1>7

\* receive_or_park pops, or parks over empty queues, or is refused by its own
\* tombstone.
LEMMA ReceiveOrPark ==
    ASSUME TypeOK, TypeOK', Custody, WakeInv, NEW w \in Workers, pc[w] = "run",
           frame(w).at = "body", NEW f, NEW l, receive_or_park(w, f, l),
           cur' = cur, ready' = ready, f.at \in {"receive", "receive_timeout"},
           l \in {"arm", "switch"}, f.at = "receive" => l = "switch" /\ f.deadline = 0
    PROVE  (\A s \in Slots : SlotOK(s)') /\ (\A v \in Workers : RunOK(v)')
<1> USE DEF goto, set_frame
<1> DEFINE t == me(w)
<1>a. pc[w] \in RunLabels /\ "run" \notin CallLabels /\ "switch" \notin CallLabels
  BY DEF RunLabels, CallLabels
<1>b. /\ t \in Slots /\ cur[w] # NoPid /\ word[t].state \in {"Running", "Dead"}
      /\ can_park(cur[w]) <=> word[t].state = "Running"
      /\ execution[t].at = "body" /\ mailbox(cur[w]) = hot[t].mailbox
      /\ depth(hot[t].mailbox) \in Nat
  BY Zenon, <1>a, OwnFacts, SlotFields DEF frame, mailbox, me
<1>c. /\ hot = [hot EXCEPT ![t] = hot[t]] /\ execution = [execution EXCEPT ![t] = execution[t]]
      /\ pc = [pc EXCEPT ![w] = "run"]
  BY Zenon, <1>b, Unwritten
<1>1. CASE depth(mailbox(cur[w])) > 0
  <2>1. PICK h : hot' = [hot EXCEPT ![t] = h]
    BY Zenon, <1>1 DEF receive_or_park, pop
  <2>2. Writes(w, h, execution[t]) /\ pc' = [pc EXCEPT ![w] = "run"]
    BY Zenon, <1>1, <1>c, <2>1 DEF receive_or_park, Writes
  <2>3. QED  BY Zenon, <1>a, <1>b, <2>2, WritesStep
<1>2. CASE ~(depth(mailbox(cur[w])) > 0) /\ can_park(cur[w])
  <2>1. /\ park(cur[w], "Blocked", "Receive", f.deadline)
        /\ execution' = [execution EXCEPT ![t] = f] /\ pc' = [pc EXCEPT ![w] = l]
    BY Zenon, <1>2 DEF receive_or_park
  <2>2. depth(hot[t].mailbox) = 0
    BY <1>2, <1>b
  <2>3. "Blocked" \in {"Blocked", "WaitingIO"} /\ "Receive" \in WaitTarget /\ f.at # "call"
    BY DEF WaitTarget
  <2>4. l \in {"arm", "io_register", "switch"}
    OBVIOUS
  <2>5. QED  BY Zenon, <1>a, <2>1, <2>2, <2>3, <2>4, ParksStep
<1>3. CASE ~(depth(mailbox(cur[w])) > 0) /\ ~can_park(cur[w])
  <2>1. Writes(w, hot[t], f) /\ pc' = [pc EXCEPT ![w] = "switch"]
    BY Zenon, <1>3, <1>c DEF receive_or_park, Writes
  <2>2. word[t].state = "Dead" /\ f.at # "call"
    BY Zenon, <1>3, <1>b
  <2>3. QED  BY Zenon, <1>a, <2>1, <2>2, WritesStep
<1>4. QED  BY <1>1, <1>2, <1>3

\* The four parks: each tests its queues and parks in one slot hold.
LEMMA Parking ==
    ASSUME TypeOK, TypeOK', Custody, WakeInv, NEW w \in Workers,
           \/ koja_rt_receive(w) \/ koja_rt_receive_timeout(w) \/ take_reply_or_park(w)
           \/ io_block(w)
    PROVE  (\A s \in Slots : SlotOK(s)') /\ (\A v \in Workers : RunOK(v)')
<1> USE DEF goto, set_frame
<1> DEFINE t == me(w)
<1>a. pc[w] \in {"run", "call_take"}
  BY Zenon DEF koja_rt_receive, koja_rt_receive_timeout, take_reply_or_park, io_block, Calls
<1>b. /\ pc[w] \in RunLabels /\ "run" \notin CallLabels /\ "switch" \notin CallLabels
      /\ "call_take" \in CallLabels /\ "call_evict" \notin CallLabels
  BY <1>a DEF RunLabels, CallLabels
<1>c. /\ t \in Slots /\ cur[w] # NoPid /\ word[t].state \in {"Running", "Dead"}
      /\ can_park(cur[w]) <=> word[t].state = "Running"
      /\ frame(w) = execution[t] /\ mailbox(cur[w]) = hot[t].mailbox
      /\ hot[t] \in HotStates
  BY Zenon, <1>b, OwnFacts, SlotFields DEF frame, mailbox, me
<1>d. /\ hot = [hot EXCEPT ![t] = hot[t]] /\ execution = [execution EXCEPT ![t] = execution[t]]
      /\ pc = [pc EXCEPT ![w] = pc[w]]
  BY Zenon, <1>c, Unwritten
<1>e. /\ "Blocked" \in {"Blocked", "WaitingIO"} /\ "WaitingIO" \in {"Blocked", "WaitingIO"}
      /\ "Receive" \in WaitTarget /\ "Reply" \in WaitTarget
  BY DEF WaitTarget
<1>1. CASE koja_rt_receive(w)
  <2> DEFINE f == [Body EXCEPT !.at = "receive"]
  <2>1. f.at = "receive" /\ f.deadline = 0
    BY DEF Body
  <2>2. /\ pc[w] = "run" /\ frame(w).at = "body" /\ cur' = cur /\ ready' = ready
        /\ receive_or_park(w, f, "switch")
    BY Zenon, <1>1 DEF koja_rt_receive, Calls
  <2> HIDE DEF f
  <2>3. QED  BY Zenon, <2>1, <2>2, ReceiveOrPark
<1>2. CASE koja_rt_receive_timeout(w)
  <2>1. pc[w] = "run" /\ frame(w).at = "body" /\ cur' = cur /\ ready' = ready
    BY Zenon, <1>2 DEF koja_rt_receive_timeout, Calls
  <2>2. CASE /\ IF depth(mailbox(cur[w])) > 0 THEN pop(w) ELSE UNCHANGED <<hot, replies>>
             /\ UNCHANGED <<word, active, execution, pc>>
    <3>1. PICK h : hot' = [hot EXCEPT ![t] = h]
      BY Zenon, <1>d, <2>2 DEF pop
    <3>2. /\ Writes(w, h, execution[t]) /\ pc' = [pc EXCEPT ![w] = "run"]
          /\ execution[t].at = "body"
      BY Zenon, <1>c, <1>d, <2>1, <2>2, <3>1 DEF Writes
    <3>3. QED  BY Zenon, <1>b, <3>2, WritesStep
  <2>3. CASE \E d \in now .. MaxNow :
               receive_or_park(w, [Body EXCEPT !.at = "receive_timeout", !.deadline = d], "arm")
    <3>1. PICK d : receive_or_park(w, [Body EXCEPT !.at = "receive_timeout", !.deadline = d], "arm")
      BY Zenon, <2>3
    <3> DEFINE f == [Body EXCEPT !.at = "receive_timeout", !.deadline = d]
    <3>2. f.at = "receive_timeout"
      BY DEF Body
    <3> HIDE DEF f
    <3>3. receive_or_park(w, f, "arm")
      BY <3>1 DEF f
    <3>4. QED  BY Zenon, <2>1, <3>2, <3>3, ReceiveOrPark
  <2>4. QED  BY Zenon, <1>2, <2>2, <2>3 DEF koja_rt_receive_timeout
<1>3. CASE take_reply_or_park(w)
  <2>1. /\ pc[w] = "call_take" /\ execution' = execution /\ cur' = cur /\ ready' = ready
    BY Zenon, <1>3 DEF take_reply_or_park
  <2>2. /\ execution[t].at = "call"
        /\ hot[t].awaiting_reply = execution[t].token /\ execution[t].token # 0
    <3>1. frame(w).at = "call"
      BY Zenon, <1>b, <1>c, <2>1 DEF WakeInv, RunOK
    <3>2. QED  BY Zenon, <1>c, <2>1, <3>1 DEF WakeInv, RunOK
  <2>3. CASE has_reply(mailbox(cur[w]))
    <3>1. PICK h, l : /\ hot' = [hot EXCEPT ![t] = h] /\ pc' = [pc EXCEPT ![w] = l]
                      /\ l \in {"call_evict", "run"} /\ word' = word
                      /\ l # "call_evict" => h.awaiting_reply = hot[t].awaiting_reply
      <4> DEFINE m == mailbox(cur[w]).reply.token = frame(w).token
                 h == [hot[t] EXCEPT !.mailbox = after_take(@),
                           !.awaiting_reply = IF m THEN 0 ELSE @,
                           !.deadline = IF m THEN 0 ELSE @]
                 l == IF m THEN "call_evict" ELSE "run"
      <4>1. /\ hot' = [hot EXCEPT ![t].mailbox = after_take(@),
                                  ![t].awaiting_reply = IF m THEN 0 ELSE @,
                                  ![t].deadline = IF m THEN 0 ELSE @]
            /\ pc' = [pc EXCEPT ![w] = l] /\ word' = word
        BY Zenon, <1>3, <2>3 DEF take_reply_or_park
      <4>2. hot' = [hot EXCEPT ![t] = h]
        BY Zenon, <1>c, <4>1 DEF TypeOK, TableTypeOK, HotStates
      <4>3. l # "call_evict" => h.awaiting_reply = hot[t].awaiting_reply
        BY <1>c DEF HotStates
      <4>4. l \in {"call_evict", "run"}
        OBVIOUS
      <4> HIDE DEF m, h, l
      <4>5. QED  BY Zenon, <4>1, <4>2, <4>3, <4>4
    <3>2. Writes(w, h, execution[t])
      BY Zenon, <1>d, <2>1, <3>1 DEF Writes
    <3>3. QED  BY Zenon, <1>b, <2>2, <3>1, <3>2, WritesStep
  <2>4. CASE ~has_reply(mailbox(cur[w])) /\ ~is_alive(frame(w).callee)
    <3>1. PICK h : /\ hot' = [hot EXCEPT ![t] = h] /\ pc' = [pc EXCEPT ![w] = "call_evict"]
                   /\ word' = word
      BY Zenon, <1>3, <2>4 DEF take_reply_or_park
    <3>2. Writes(w, h, execution[t])
      BY Zenon, <1>d, <2>1, <3>1 DEF Writes
    <3>3. QED  BY Zenon, <1>b, <2>2, <3>1, <3>2, WritesStep
  <2>5. CASE ~has_reply(mailbox(cur[w])) /\ is_alive(frame(w).callee)
    <3>1. IF can_park(cur[w])
          THEN /\ park(cur[w], "Blocked", "Reply", frame(w).deadline)
               /\ pc' = [pc EXCEPT ![w] = "arm"]
          ELSE word' = word /\ hot' = hot /\ pc' = [pc EXCEPT ![w] = "switch"]
      BY Zenon, <1>3, <2>5 DEF take_reply_or_park
    <3>2. CASE can_park(cur[w])
      <4>1. hot[t].mailbox.reply.token # hot[t].awaiting_reply
        <5>1. hot[t].mailbox.reply = NoMessage
          BY Zenon, <1>c, <2>5 DEF has_reply
        <5>2. QED  BY <2>2, <5>1 DEF NoMessage
      <4>2. execution' = [execution EXCEPT ![t] = execution[t]]
        BY Zenon, <1>d, <2>1
      <4>3. /\ park(cur[w], "Blocked", "Reply", frame(w).deadline)
            /\ pc' = [pc EXCEPT ![w] = "arm"] /\ cur' = cur /\ ready' = ready
        BY Zenon, <2>1, <3>1, <3>2
      <4>4. QED  BY Zenon, <1>b, <1>e, <2>2, <4>1, <4>2, <4>3, ParksStep
    <3>3. CASE ~can_park(cur[w])
      <4>1. Writes(w, hot[t], execution[t]) /\ pc' = [pc EXCEPT ![w] = "switch"]
        BY Zenon, <1>d, <2>1, <3>1, <3>3 DEF Writes
      <4>2. QED  BY Zenon, <1>b, <2>2, <4>1, WritesStep
    <3>4. QED  BY <3>2, <3>3
  <2>6. QED  BY <2>3, <2>4, <2>5
<1>4. CASE io_block(w)
  <2>1. /\ pc[w] = "run" /\ frame(w).at = "body" /\ cur' = cur /\ ready' = ready
    BY Zenon, <1>4 DEF io_block, Calls
  <2>2. PICK d : IF has_system(mailbox(cur[w]))
                 THEN UNCHANGED <<word, hot, active, execution, pc>>
                 ELSE /\ IF can_park(cur[w])
                         THEN /\ park(cur[w], "WaitingIO", "Receive", d)
                              /\ pc' = [pc EXCEPT ![w] = "io_register"]
                         ELSE /\ UNCHANGED <<word, hot, active>>
                              /\ pc' = [pc EXCEPT ![w] = "switch"]
                      /\ execution' = [execution EXCEPT ![t] =
                             [Body EXCEPT !.at = "io", !.deadline = d]]
    BY Zenon, <1>4 DEF io_block
  <2> DEFINE f == [Body EXCEPT !.at = "io", !.deadline = d]
  <2>3. f.at = "io"
    BY DEF Body
  <2> HIDE DEF f
  <2>4. CASE has_system(mailbox(cur[w]))
    <3>1. Writes(w, hot[t], execution[t]) /\ pc' = [pc EXCEPT ![w] = "run"]
      BY Zenon, <1>d, <2>1, <2>2, <2>4 DEF Writes
    <3>2. execution[t].at = "body"
      BY Zenon, <1>c, <2>1
    <3>3. QED  BY Zenon, <1>b, <3>1, <3>2, WritesStep
  <2>5. CASE ~has_system(mailbox(cur[w])) /\ can_park(cur[w])
    <3>1. /\ park(cur[w], "WaitingIO", "Receive", d) /\ pc' = [pc EXCEPT ![w] = "io_register"]
          /\ execution' = [execution EXCEPT ![t] = f]
      BY Zenon, <2>2, <2>5 DEF f
    <3>2. ~has_system(hot[t].mailbox)
      BY Zenon, <1>c, <2>5
    <3>3. QED  BY Zenon, <1>b, <1>e, <2>1, <2>3, <3>1, <3>2, ParksStep
  <2>6. CASE ~has_system(mailbox(cur[w])) /\ ~can_park(cur[w])
    <3>1. Writes(w, hot[t], f) /\ pc' = [pc EXCEPT ![w] = "switch"]
      BY Zenon, <1>d, <2>1, <2>2, <2>6 DEF Writes, f
    <3>2. QED  BY Zenon, <1>b, <2>3, <3>1, WritesStep
  <2>7. QED  BY <2>4, <2>5, <2>6
<1>5. QED  BY Zenon, <1>1, <1>2, <1>3, <1>4

\* try_claim takes a claimable process that no worker owns, with all its slot
\* promised; a stale entry was not the occupant's.
LEMMA Claiming ==
    ASSUME TypeOK, TypeOK', Custody, WakeInv, NEW w \in Workers, try_claim(w)
    PROVE  (\A s \in Slots : SlotOK(s)') /\ (\A v \in Workers : RunOK(v)')
<1> USE DEF goto
<1>1. PICK p \in Pids :
          /\ ready[p] > 0 /\ ready' = [ready EXCEPT ![p] = ready[p] - 1]
          /\ IF claimable(word[Slot(p)], Generation(p))
             THEN /\ word' = [word EXCEPT ![Slot(p)] = claimed(word[Slot(p)])]
                  /\ cur' = [cur EXCEPT ![w] = p] /\ pc' = [pc EXCEPT ![w] = "claimed"]
             ELSE word' = word /\ cur' = cur /\ pc' = pc
  BY Zenon DEF try_claim
<1>2. hot' = hot /\ execution' = execution
  BY Zenon DEF try_claim
<1>3. PICK t \in Slots : t = Slot(p)
  BY Zenon, PidFields
<1>4. ready \in [Pids -> Nat] /\ p = <<t, Generation(p)>>
  BY <1>3 DEF TypeOK, TableTypeOK, Pids, Slot, Generation
<1>5. ASSUME NEW s \in Slots, word'[s] = word[s],
             claimable(word[s], word[s].generation) => occupant(s) # p
      PROVE  Touched(s)
  <2>1. claimable(word[s], word[s].generation) => ready'[occupant(s)] = ready[occupant(s)]
    <3>1. claimable(word[s], word[s].generation) => word[s].state # "Vacant"
      BY DEF claimable
    <3>2. claimable(word[s], word[s].generation) => occupant(s) \in Pids
      BY Zenon, <3>1, OccupantQueued DEF Custody
    <3>3. QED  BY Zenon, <1>1, <1>4, <1>5, <3>2
  <2>2. claimable(word[s], word[s].generation) => ready'[occupant(s)] >= ready[occupant(s)]
    <3>1. claimable(word[s], word[s].generation) => word[s].state # "Vacant"
      BY DEF claimable
    <3>2. claimable(word[s], word[s].generation) => ready[occupant(s)] \in Nat
      BY Zenon, <3>1, OccupantQueued DEF Custody
    <3>3. QED  BY <2>1, <3>2
  <2>3. QED  BY Zenon, <1>2, <1>5, <2>2 DEF Touched, Kept, Settled
<1>6. CASE ~claimable(word[Slot(p)], Generation(p))
  <2>1. ASSUME NEW s \in Slots PROVE SlotOK(s)'
    <3>1. claimable(word[s], word[s].generation) => occupant(s) # p
      BY <1>3, <1>4, <1>6 DEF occupant
    <3>2. Touched(s)
      BY Zenon, <1>1, <1>5, <1>6, <3>1
    <3>3. QED  BY Zenon, <3>2, TouchedSlot DEF Custody, WakeInv
  <2>2. ASSUME NEW v \in Workers PROVE RunOK(v)'
    BY Zenon, <1>1, <1>2, <1>6 DEF WakeInv, RunOK, me, frame
  <2>3. QED  BY <2>1, <2>2
<1>7. CASE claimable(word[Slot(p)], Generation(p))
  <2>1. /\ word[t] \in WordState /\ ~word[t].on_cpu /\ word[t].state \in {"Created", "Runnable"}
        /\ SlotOK(t)
    BY Zenon, <1>3, <1>7, SlotFields DEF claimable, WakeInv
  <2>2. word'[t] = claimed(word[t]) /\ \A s \in Slots : s # t => word'[s] = word[s]
    BY Zenon, <1>1, <1>3, <1>7, OneEdge
  <2>3. word'[t].on_cpu /\ word'[t].state = "Running"
    BY <2>1, <2>2 DEF claimed, WordState
  <2>4. /\ cur'[w] = p /\ pc'[w] = "claimed"
        /\ \A v \in Workers : v # w => cur'[v] = cur[v] /\ pc'[v] = pc[v]
    BY Zenon, <1>1, <1>7 DEF TypeOK, DriverTypeOK
  <2>5. \A v \in Workers : v # w /\ cur[v] # NoPid => me(v) # t
    BY Zenon, <2>1, Owner DEF Custody
  <2>6. ASSUME NEW s \in Slots, s # t PROVE Touched(s)
    <3>1. occupant(s) # p
      BY <1>4, <2>6 DEF occupant
    <3>2. QED  BY Zenon, <1>5, <2>2, <2>6, <3>1
  <2>7. /\ execution[t].at = "receive" => depth(hot[t].mailbox) > 0
        /\ execution[t].at = "call" =>
               hot[t].awaiting_reply = execution[t].token /\ execution[t].token # 0
    BY Zenon, <2>1 DEF SlotOK, FrameOK
  <2>8. SlotOK(t)'
    <3>1. QueueOK(t)' /\ WakeOK(t)'
      BY <2>3 DEF QueueOK, WakeOK, claimable
    <3>2. FrameOK(t)'
      BY <1>2, <2>3, <2>7 DEF FrameOK
    <3>3. QED  BY <3>1, <3>2 DEF SlotOK
  <2>9. RunOK(w)'
    <3>1. Slot(cur'[w]) = t
      BY Zenon, <1>3, <2>4
    <3>2. "claimed" \notin CallLabels
      BY DEF CallLabels
    <3>3. QED  BY Zenon, <1>2, <2>3, <2>4, <2>7, <3>1, <3>2 DEF RunOK, me, frame
  <2>10. QED  BY Zenon, <2>4, <2>5, <2>6, <2>8, <2>9, OwnersDo
<1>8. QED  BY <1>6, <1>7

\* A yield or its refusal, and the release of the claim, which queues a process
\* that is still runnable.
LEMMA Leaving ==
    ASSUME TypeOK, TypeOK', Custody, WakeInv, NEW w \in Workers,
           yield_running(w) \/ after_switch(w)
    PROVE  (\A s \in Slots : SlotOK(s)') /\ (\A v \in Workers : RunOK(v)')
<1> USE DEF goto
<1>a. pc[w] \in {"yielded", "switch"} /\ hot' = hot /\ execution' = execution
  BY Zenon DEF yield_running, after_switch
<1>b. /\ cur[w] # NoPid /\ cur[w] \in AnyPid /\ me(w) \in Slots /\ word[me(w)].on_cpu
      /\ word[me(w)].generation = Generation(cur[w])
      /\ \A v \in Workers : v # w /\ cur[v] # NoPid => me(v) # me(w)
  <2>1. pc[w] \in OwningLabels
    BY <1>a DEF OwningLabels, RunLabels
  <2>2. cur[w] # NoPid
    BY Zenon, <2>1 DEF Custody, LabelAgrees
  <2>3. QED  BY Zenon, <2>2, Owner DEF Custody
<1>c. PICK t \in Slots : t = me(w)
  BY Zenon, <1>b
<1>d. SlotOK(t) /\ RunOK(w) /\ word[t] \in WordState /\ word[t].state # "Vacant"
  <2>1. word[t].state # "Vacant"
    BY Zenon, <1>b, <1>c DEF Custody, ClaimsAgree
  <2>2. QED  BY Zenon, <2>1, SlotFields DEF WakeInv
<1>1. CASE yield_running(w)
  <2>1. pc[w] = "yielded" /\ cur' = cur /\ ready' = ready /\ pc' = [pc EXCEPT ![w] = "switch"]
    BY Zenon, <1>1 DEF yield_running
  <2>2. PICK wd : /\ word' = [word EXCEPT ![t] = wd] /\ wd.on_cpu
                  /\ wd.state \in {"Runnable", "Running", "Dead"}
    <3>1. word = [word EXCEPT ![t] = word[t]]
      BY Zenon DEF TypeOK, TableTypeOK
    <3>2. word[t].state \in {"Running", "Dead"}
      BY Zenon, <1>b, <1>c, <1>d, <2>1 DEF RunOK
    <3>3. moved(word[t], "Runnable").on_cpu /\ moved(word[t], "Runnable").state = "Runnable"
      BY <1>b, <1>c, <1>d DEF moved, WordState
    <3>4. CASE can_park(cur[w])
      BY Zenon, <1>1, <1>c, <3>3, <3>4 DEF yield_running
    <3>5. CASE ~can_park(cur[w])
      BY Zenon, <1>1, <1>b, <1>c, <3>1, <3>2, <3>5 DEF yield_running
    <3>6. QED  BY <3>4, <3>5
  <2>3. word'[t] = wd /\ \A s \in Slots : s # t => word'[s] = word[s]
    BY Zenon, <2>2, OneEdge
  <2>4. pc'[w] = "switch" /\ \A v \in Workers : v # w => pc'[v] = pc[v]
    BY Zenon, <2>1 DEF TypeOK, DriverTypeOK
  <2>5. /\ execution[t].at # "receive"
        /\ execution[t].at = "call" =>
               hot[t].awaiting_reply = execution[t].token /\ execution[t].token # 0
    BY Zenon, <1>b, <1>c, <1>d, <2>1 DEF RunOK, frame
  <2>6. SlotOK(t)'
    BY Zenon, <1>a, <2>2, <2>3, <2>5 DEF SlotOK, QueueOK, WakeOK, FrameOK, claimable
  <2>7. RunOK(w)'
    <3>1. Slot(cur'[w]) = t
      BY Zenon, <1>c, <2>1 DEF me
    <3>2. "switch" \notin CallLabels
      BY DEF CallLabels
    <3>3. QED  BY Zenon, <1>a, <2>4, <2>5, <3>1, <3>2 DEF RunOK, me, frame
  <2>8. \A s \in Slots : s # t => Touched(s)
    BY Zenon, <1>a, <2>1, <2>3, OnlyOne
  <2>9. QED  BY Zenon, <1>b, <1>c, <2>1, <2>4, <2>6, <2>7, <2>8, OwnersDo
<1>2. CASE after_switch(w)
  <2>1. /\ word' = [word EXCEPT ![t] = released(word[t])] /\ cur' = [cur EXCEPT ![w] = NoPid]
        /\ pc[w] = "switch" /\ \E l : pc' = [pc EXCEPT ![w] = l]
        /\ ready' = IF word[t].state \in {"Created", "Runnable"}
                    THEN [ready EXCEPT ![cur[w]] = ready[cur[w]] + 1] ELSE ready
    <3>1. state(cur[w]) = word[t].state
      BY Zenon, <1>c DEF state, me
    <3>2. word[t].state = "Dead" => word[t].state \notin {"Created", "Runnable"}
      OBVIOUS
    <3>3. QED  BY Zenon, <1>2, <1>c, <3>1, <3>2 DEF after_switch
  <2>2. word'[t] = released(word[t]) /\ \A s \in Slots : s # t => word'[s] = word[s]
    BY Zenon, <2>1, OneEdge
  <2>3. /\ ~word'[t].on_cpu /\ word'[t].state = word[t].state
        /\ word'[t].generation = word[t].generation
    BY <1>d, <2>2 DEF released, WordState
  <2>4. /\ cur'[w] = NoPid
        /\ \A v \in Workers : v # w => cur'[v] = cur[v] /\ pc'[v] = pc[v]
    BY Zenon, <2>1 DEF TypeOK, DriverTypeOK
  <2>5. /\ occupant(t) = cur[w] /\ occupant(t) \in Pids
    <3>1. occupant(t) = cur[w]
      BY Zenon, <1>b, <1>c, PidFields DEF occupant, me
    <3>2. QED  BY Zenon, <1>d, <3>1, OccupantQueued DEF Custody
  <2>6. ready \in [Pids -> Nat]
    BY DEF TypeOK, TableTypeOK
  <2>7. QueueOK(t)'
    <3>1. word[t].state \in {"Created", "Runnable"} => ready'[occupant(t)] > 0
      BY <2>1, <2>5, <2>6
    <3>2. occupant(t)' = occupant(t)
      BY Zenon, <2>3 DEF occupant
    <3>3. QED  BY Zenon, <2>3, <3>1, <3>2 DEF QueueOK, claimable
  <2>8. WakeOK(t)' /\ FrameOK(t)'
    <3>1. WakeOK(t)'
      BY Zenon, <1>a, <1>d, <2>3 DEF SlotOK, WakeOK
    <3>2. execution[t].at = "call" =>
              hot[t].awaiting_reply = execution[t].token /\ execution[t].token # 0
      BY Zenon, <1>b, <1>c, <1>d, <2>1 DEF RunOK, frame
    <3>3. FrameOK(t)'
      BY Zenon, <1>a, <1>d, <2>3, <3>2 DEF SlotOK, FrameOK
    <3>4. QED  BY <3>1, <3>3
  <2>9. ASSUME NEW s \in Slots, s # t PROVE Touched(s)
    <3>1. occupant(s) # cur[w]
      BY <2>5, <2>9 DEF occupant
    <3>2. ready'[occupant(s)] = ready[occupant(s)]
      BY <2>1, <2>6, <3>1
    <3>3. QED  BY Zenon, <1>a, <2>2, <2>9, <3>2, OtherKept DEF Custody
  <2>10. RunOK(w)'
    BY Zenon, <2>4 DEF RunOK
  <2>11. QED  BY Zenon, <1>b, <1>c, <2>4, <2>7, <2>8, <2>9, <2>10, OwnersDo DEF SlotOK
<1>3. QED  BY <1>1, <1>2

------------------------------------------------------------------------------
\* No step puts the absent deadline in a worker's hand: advance takes armed
\* entries off the wheel, the other edits of a hand leave due deadlines or drop
\* them.
LEMMA DueStep ==
    ASSUME TypeOK, DueOK, NEW w \in Workers, Touching(w) \/ Passing(w) \/ Owning(w)
    PROVE  DueOK'
<1>a. hand \in [Workers -> Hands] /\ hand[w] \in Hands
  BY DEF TypeOK, DriverTypeOK
<1>b. ASSUME NEW h, hand' = [hand EXCEPT ![w] = h], \A e \in h.due : e[2] # 0
      PROVE  DueOK'
  <2>1. hand'[w] = h /\ \A v \in Workers : v # w => hand'[v] = hand[v]
    BY Zenon, <1>a, <1>b
  <2>2. QED  BY Zenon, <1>b, <2>1 DEF DueOK
<1>c. ASSUME NEW h, hand' = [hand EXCEPT ![w] = h], h.due = hand[w].due
      PROVE  DueOK'
  BY Zenon, <1>b, <1>c DEF DueOK
<1>d. hand' = hand => DueOK'
  BY Zenon DEF DueOK
<1>1. CASE check_shutdown(w) \/ mark_dead_if_alive(w)
  <2>1. PICK x : hand' = [hand EXCEPT ![w] = [hand[w] EXCEPT !.back = x]]
    BY Zenon, <1>1 DEF check_shutdown, mark_dead_if_alive
  <2>2. [hand[w] EXCEPT !.back = x].due = hand[w].due
    BY <1>a DEF Hands
  <2>3. QED  BY Zenon, <1>c, <2>1, <2>2
<1>2. CASE grace_expired(w)
  <2> DEFINE h == [hand[w] EXCEPT !.scan = 0, !.until = published, !.back = "halt"]
  <2>1. hand' = [hand EXCEPT ![w] = h]
    BY Zenon, <1>2, <1>a DEF grace_expired, Hands
  <2>2. h.due = hand[w].due
    BY <1>a DEF Hands
  <2> HIDE DEF h
  <2>3. QED  BY Zenon, <1>c, <2>1, <2>2
<1>3. CASE live_pids(w) /\ hand' # hand
  <2>1. PICK x, y : hand' = [hand EXCEPT ![w].scan = x, ![w].kills = y]
    BY Zenon, <1>3 DEF live_pids
  <2>2. hand' = [hand EXCEPT ![w] = [hand[w] EXCEPT !.scan = x, !.kills = y]]
    BY Zenon, <1>a, <2>1 DEF Hands
  <2>3. [hand[w] EXCEPT !.scan = x, !.kills = y].due = hand[w].due
    BY <1>a DEF Hands
  <2>4. QED  BY Zenon, <1>c, <2>2, <2>3
<1>4. CASE koja_rt_kill(w)
  <2>1. PICK x : hand' = [hand EXCEPT ![w].back = "run", ![w].freed = x]
    BY Zenon, <1>4 DEF koja_rt_kill
  <2>2. hand' = [hand EXCEPT ![w] = [hand[w] EXCEPT !.back = "run", !.freed = x]]
    BY Zenon, <1>a, <2>1 DEF Hands
  <2>3. [hand[w] EXCEPT !.back = "run", !.freed = x].due = hand[w].due
    BY <1>a DEF Hands
  <2>4. QED  BY Zenon, <1>c, <2>2, <2>3
<1>5. CASE kill_staged(w)
  <2>1. PICK x, y : hand' = [hand EXCEPT ![w].kills = x, ![w].freed = y]
    BY Zenon, <1>5 DEF kill_staged
  <2>2. hand' = [hand EXCEPT ![w] = [hand[w] EXCEPT !.kills = x, !.freed = y]]
    BY Zenon, <1>a, <2>1 DEF Hands
  <2>3. [hand[w] EXCEPT !.kills = x, !.freed = y].due = hand[w].due
    BY <1>a DEF Hands
  <2>4. QED  BY Zenon, <1>c, <2>2, <2>3
<1>6. CASE \/ take_pending_kills(w) \/ take_exit_notices(w) \/ deliver_exit_signals(w)
           \/ take_call_downs(w) \/ wake_call_waiters(w) \/ monitor_stage(w)
  <2>1. PICK h : /\ hand' = [hand EXCEPT ![w] = h]
                 /\ \E x : \/ h = [hand[w] EXCEPT !.kills = x]
                           \/ h = [hand[w] EXCEPT !.notices = x]
                           \/ h = [hand[w] EXCEPT !.downs = x]
                           \/ h = [hand[w] EXCEPT !.monitor = x]
    BY Zenon, <1>6 DEF take_pending_kills, take_exit_notices, deliver_exit_signals,
       take_call_downs, wake_call_waiters, monitor_stage
  <2>2. h.due = hand[w].due
    BY Zenon, <1>a, <2>1 DEF Hands
  <2>3. QED  BY Zenon, <1>c, <2>1, <2>2
<1>7. CASE koja_rt_monitor(w)
  <2>1. PICK x : hand' = [hand EXCEPT ![w].back = "run", ![w].monitor = x]
    BY Zenon, <1>7 DEF koja_rt_monitor
  <2>2. hand' = [hand EXCEPT ![w] = [hand[w] EXCEPT !.back = "run", !.monitor = x]]
    BY Zenon, <1>a, <2>1 DEF Hands
  <2>3. [hand[w] EXCEPT !.back = "run", !.monitor = x].due = hand[w].due
    BY <1>a DEF Hands
  <2>4. QED  BY Zenon, <1>c, <2>2, <2>3
<1>8. CASE monitor_snapshot(w) /\ hand' # hand
  <2>1. PICK x, y : hand' = [hand EXCEPT ![w].monitor.reason = x, ![w].monitor.crash_info = y]
    BY Zenon, <1>8 DEF monitor_snapshot
  <2>2. PICK z : hand' = [hand EXCEPT ![w] = [hand[w] EXCEPT !.monitor = z]]
    <3>1. hand' = [hand EXCEPT ![w] = [hand[w] EXCEPT !.monitor =
                       [hand[w].monitor EXCEPT !.reason = x, !.crash_info = y]]]
      BY Zenon, <1>a, <2>1 DEF Hands, PendingMonitors
    <3>2. QED  BY Zenon, <3>1
  <2>3. [hand[w] EXCEPT !.monitor = z].due = hand[w].due
    BY <1>a DEF Hands
  <2>4. QED  BY Zenon, <1>c, <2>2, <2>3
<1>9. CASE settled(w)
  <2>1. hand' = [hand EXCEPT ![w] = EmptyHand]
    BY Zenon, <1>9 DEF settled
  <2>2. EmptyHand.due = {}
    BY DEF EmptyHand
  <2>3. QED  BY Zenon, <1>b, <2>1, <2>2
<1>10. CASE promote_expired(w)
  <2>1. PICK e : hand' = [hand EXCEPT ![w] = [hand[w] EXCEPT !.due = hand[w].due \ {e}]]
    BY Zenon, <1>10 DEF promote_expired
  <2> DEFINE h == [hand[w] EXCEPT !.due = hand[w].due \ {e}]
  <2>2. h.due = hand[w].due \ {e}
    BY <1>a DEF Hands
  <2> HIDE DEF h
  <2>3. \A x \in h.due : x[2] # 0
    BY Zenon, <2>2 DEF DueOK
  <2>4. hand' = [hand EXCEPT ![w] = h]
    BY <2>1 DEF h
  <2>5. QED  BY Zenon, <1>b, <2>3, <2>4
<1>11. CASE advance(w)
  <2> DEFINE due == {p \in Pids : armed[p] # 0 /\ armed[p] <= now}
             new == {<<p, armed[p]>> : p \in due}
             h == [hand[w] EXCEPT !.due = new]
  <2>1. hand' = [hand EXCEPT ![w] = h]
    BY Zenon, <1>11 DEF advance
  <2>2. h.due = new
    BY <1>a DEF Hands
  <2>3. \A x \in new : x[2] # 0
    OBVIOUS
  <2> HIDE DEF h, new
  <2>4. QED  BY Zenon, <1>b, <2>1, <2>2, <2>3
<1>12. CASE \/ Owning(w) \/ hand' = hand
            \/ count_claim(w) \/ free(w) \/ cancel_reaped(w) \/ worker_loop(w)
            \/ park_for_work(w) \/ poll_signals(w) \/ enter_draining(w) \/ arm_grace(w)
            \/ death_pass(w) \/ arm_deadline(w) \/ koja_rt_call_receive(w)
            \/ ensure_call_waiter(w) \/ evict_call_waiter(w) \/ register(w)
            \/ koja_rt_yield_check(w) \/ koja_rt_spawn(w) \/ koja_rt_demonitor(w)
            \/ send_lifecycle(w) \/ koja_rt_send(w) \/ koja_rt_reply(w) \/ call_send(w)
            \/ table_spawn(w) \/ reclaim(w) \/ koja_rt_process_exit(w) \/ crash(w)
            \/ set_crash_info(w)
  <2>1. CASE Owning(w)
    <3>1. hand' = hand
      BY Zenon, <2>1 DEF Owning, try_claim, yield_running, after_switch, resume_receive,
         clear_deadline, pop_received, cancel_deadline, clear_awaiting_reply,
         take_reply_or_park, deregister, koja_rt_receive, koja_rt_receive_timeout,
         koja_rt_call_token, io_block
    <3>2. QED  BY Zenon, <1>d, <3>1
  <2>2. CASE ~Owning(w)
    <3>1. hand' = hand
      BY Zenon, <1>12, <2>2 DEF count_claim, free, cancel_reaped, worker_loop, park_for_work,
         poll_signals, enter_draining, arm_grace, death_pass, arm_deadline,
         koja_rt_call_receive, ensure_call_waiter, evict_call_waiter, register,
         koja_rt_yield_check, koja_rt_spawn, koja_rt_demonitor, send_lifecycle,
         koja_rt_send, koja_rt_reply, call_send, table_spawn, reclaim,
         koja_rt_process_exit, crash, set_crash_info
    <3>2. QED  BY Zenon, <1>d, <3>1
  <2>3. QED  BY <2>1, <2>2
<1>13. QED  BY Zenon, <1>1, <1>2, <1>3, <1>4, <1>5, <1>6, <1>7, <1>8, <1>9, <1>10, <1>11, <1>12
            DEF Touching, Passing

\* The claims of a worker's steps, together.
LEMMA OwnStep ==
    ASSUME TypeOK, TypeOK', Custody, WakeInv, NEW w \in Workers, Owning(w)
    PROVE  WakeInv'
<1>1. (\A s \in Slots : SlotOK(s)') /\ (\A v \in Workers : RunOK(v)')
  BY Zenon, RunsOn, Parking, Claiming, Leaving DEF Owning
<1>2. DueOK'
  BY Zenon, DueStep DEF WakeInv
<1>3. QED  BY Zenon, <1>1, <1>2 DEF WakeInv

\* A step whose slots are only touched and whose workers only move on.
LEMMA TouchStep ==
    ASSUME TypeOK, TypeOK', Custody, WakeInv, \A s \in Slots : Touched(s),
           \A v \in Workers : Moves(v), DueOK'
    PROVE  WakeInv'
<1>1. ASSUME NEW s \in Slots PROVE SlotOK(s)'
  BY Zenon, TouchedSlot DEF Custody, WakeInv
<1>2. ASSUME NEW v \in Workers PROVE RunOK(v)'
  <2>1. RunOK(v) /\ Moves(v) /\ Touched(me(v))
    BY Zenon, Owner DEF WakeInv, Custody
  <2>2. QED  BY Zenon, <2>1, TouchedOwner
<1>3. QED  BY Zenon, <1>1, <1>2 DEF WakeInv

\* The steps of a worker, by what they touch.
LEMMA EveryStep ==
    ASSUME NEW w \in Workers, Runtime(w) \/ Intrinsic(w)
    PROVE  Touching(w) \/ Passing(w) \/ Owning(w)
BY Zenon DEF Touching, Passing, Owning, Runtime, Intrinsic, Claim, SwitchOut, Loop, Settle, Resume

\* Signals, the clock and the reactor's callbacks.
LEMMA EnvironmentTouches ==
    ASSUME TypeOK, Custody, sigterm \/ Tick \/ reactor_poll \/ apply_wakers \/ UNCHANGED vars
    PROVE  \A s \in Slots : Touched(s)
<1> USE DEF tableVars, slotVars, driverVars
<1>1. Undisturbed /\ OccupiedAgree
  BY Zenon DEF Undisturbed, Custody, sigterm, Tick, reactor_poll, apply_wakers, vars
<1>2. CASE apply_wakers
  <2>1. PICK p \in events : promote(p, promotes_io(p))
    BY Zenon, <1>2 DEF apply_wakers
  <2>2. p \in AnyPid
    BY Zenon DEF TypeOK, DriverTypeOK
  <2>3. promotes_io(p) => is_alive(p) /\ state(p) = "WaitingIO" /\ state(p) # "Blocked"
    BY DEF promotes_io
  <2>4. QED  BY Zenon, <1>1, <2>1, <2>2, <2>3, PromoteTouches
<1>3. CASE sigterm \/ Tick \/ reactor_poll \/ UNCHANGED vars
  <2>1. word' = word /\ hot' = hot /\ ready' = ready
    BY Zenon, <1>3 DEF sigterm, Tick, reactor_poll, vars
  <2>2. QED  BY Zenon, <1>1, <2>1, AllKept
<1>4. QED  BY Zenon, <1>2, <1>3

\* They leave the workers and what they hold alone.
LEMMA EnvironmentStep ==
    ASSUME TypeOK, TypeOK', Custody, WakeInv,
           sigterm \/ Tick \/ reactor_poll \/ apply_wakers \/ UNCHANGED vars
    PROVE  WakeInv'
<1>1. pc' = pc /\ cur' = cur /\ hand' = hand
  BY Zenon DEF sigterm, Tick, reactor_poll, apply_wakers, vars, driverVars
<1>2. DueOK' /\ \A v \in Workers : Moves(v)
  BY Zenon, <1>1 DEF DueOK, WakeInv, Moves, Advances
<1>3. QED  BY Zenon, <1>2, EnvironmentTouches, TouchStep

\* Every step keeps WakeInv.
LEMMA WakeStep ==
    ASSUME TypeOK, TypeOK', Custody, WakeInv, [Next]_vars
    PROVE  WakeInv'
<1>1. ASSUME NEW w \in Workers, Touching(w) \/ Passing(w) PROVE WakeInv'
  <2>1. DueOK' /\ \A v \in Workers : Moves(v)
    BY Zenon, <1>1, DueStep, MovingStep DEF WakeInv
  <2>2. \A s \in Slots : Touched(s)
    BY Zenon, <1>1, TouchingStep, PassingStep DEF WakeInv
  <2>3. QED  BY Zenon, <2>1, <2>2, TouchStep
<1>2. ASSUME NEW w \in Workers, Runtime(w) \/ Intrinsic(w) PROVE WakeInv'
  BY Zenon, <1>1, <1>2, EveryStep, OwnStep
<1>3. QED  BY Zenon, <1>2, EnvironmentStep DEF Next

\* The first process is queued, and nobody waits.
LEMMA WakeInit ==
    ASSUME Init
    PROVE  WakeInv
<1>1. ASSUME NEW s \in Slots PROVE SlotOK(s)
  <2>1. /\ word[s].state \in {"Created", "Vacant"} /\ ~word[s].on_cpu
        /\ word[s].state = "Created" => s = 0 /\ word[s].generation = 1
    BY DEF Init, occupied, FreshWord
  <2>2. execution[s].at \in {"body", "none"}
    BY DEF Init, Body, NoExecution
  <2>3. <<0, 1>> \in Pids
    BY TableAssumption DEF Pids, Slots
  <2>4. ready[<<0, 1>>] = 1
    BY <2>3 DEF Init
  <2>5. QueueOK(s)
    BY <2>1, <2>4 DEF QueueOK, claimable, occupant
  <2>6. WakeOK(s) /\ FrameOK(s)
    BY <2>1, <2>2 DEF WakeOK, FrameOK
  <2>7. QED  BY <2>5, <2>6 DEF SlotOK
<1>2. ASSUME NEW w \in Workers PROVE RunOK(w)
  BY DEF Init, RunOK
<1>3. DueOK
  BY DEF Init, DueOK, EmptyHand
<1>4. QED  BY <1>1, <1>2, <1>3 DEF WakeInv
==============================================================================
