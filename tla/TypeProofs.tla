------------------------------ MODULE TypeProofs ------------------------------
(***************************************************************************)
(* Type correctness of the native scheduler, for every number of slots,    *)
(* workers, generations and budgets: Spec => []TypeOK.                     *)
(*                                                                         *)
(* The lemmas say what each hold of the table does to the types of the     *)
(* variables it writes; the theorem then takes the actions one by one.     *)
(***************************************************************************)
EXTENDS SchedulerTypes, TLAPS

\* The mailboxes and the freelist are sequences.  An empty one:
LEMMA QueueEmpty == ASSUME NEW S PROVE <<>> \in Seq(S) /\ Len(<<>>) = 0
  OBVIOUS

\* The elements of one, and a pop at the front (a mailbox's):
LEMMA QueueFacts ==
    ASSUME NEW S, NEW q \in Seq(S)
    PROVE  /\ Len(q) \in Nat /\ DOMAIN q = 1 .. Len(q) /\ (q = <<>> <=> Len(q) = 0)
           /\ \A i \in 1 .. Len(q) : q[i] \in S
           /\ q # <<>> => Head(q) \in S /\ Tail(q) \in Seq(S)
  OBVIOUS

\* A push at the back:
LEMMA QueuePush ==
    ASSUME NEW S, NEW q \in Seq(S), NEW e \in S
    PROVE  /\ Append(q, e) \in Seq(S) /\ Len(Append(q, e)) = Len(q) + 1
           /\ \A i \in 1 .. Len(q) : Append(q, e)[i] = q[i]
           /\ Append(q, e)[Len(q) + 1] = e
  OBVIOUS

\* A pop at the back (the freelist's):
LEMMA QueueDrop ==
    ASSUME NEW S, NEW q \in Seq(S), q # <<>>
    PROVE  LET g == SubSeq(q, 1, Len(q) - 1)
           IN  /\ g \in Seq(S) /\ DOMAIN g = 1 .. (Len(q) - 1)
               /\ \A i \in 1 .. (Len(q) - 1) : g[i] = q[i]
<1>1. Len(q) \in Nat /\ Len(q) > 0
  OBVIOUS
<1>2. QED  BY <1>1

\* A slot index is a slot, and the invalid handle is a pair like any other.
LEMMA PidTypes ==
    /\ 0 \in Slots
    /\ NoPid \in AnyPid
    /\ Pids \subseteq AnyPid
    /\ \A p \in AnyPid : Slot(p) \in Slots /\ Generation(p) \in Nat
BY TableAssumption DEF Slots, NoPid, AnyPid, Pids, Slot, Generation

\* Every edge of the lifecycle word yields a word.
LEMMA WordTypes ==
    ASSUME NEW wd \in WordState
    PROVE  /\ claimed(wd) \in WordState /\ released(wd) \in WordState
           /\ vacated(wd) \in WordState
           /\ \A to \in ProcessState : moved(wd, to) \in WordState
           /\ \A g \in Nat : occupied(g) \in WordState
<1>1. claimed(wd) \in WordState /\ released(wd) \in WordState
  BY Zenon DEF WordState, claimed, released, ProcessState, LiveStates
<1>2. vacated(wd) \in WordState
  BY DEF WordState, vacated
<1>3. ASSUME NEW to \in ProcessState PROVE moved(wd, to) \in WordState
  BY <1>3 DEF WordState, moved
<1>4. ASSUME NEW g \in Nat PROVE occupied(g) \in WordState
  BY <1>4 DEF WordState, occupied, ProcessState, LiveStates
<1>5. QED  BY Zenon, <1>1, <1>2, <1>3, <1>4

\* Mailbox operations keep a mailbox a mailbox.
LEMMA MailboxTypes ==
    ASSUME NEW mb \in Mailboxes
    PROVE  /\ \A m \in Messages : push(mb, m) \in Mailboxes
           /\ after_take(mb) \in Mailboxes
           /\ depth(mb) > 0 => after_pop(mb) \in Mailboxes /\ received(mb) \in Messages
<1>1. mb.business \in Seq(Messages) /\ mb.system \in Seq(Messages)
  BY DEF Mailboxes
<1>2. ASSUME NEW m \in Messages PROVE push(mb, m) \in Mailboxes
  <2>1. Append(mb.business, m) \in Seq(Messages) /\ Append(mb.system, m) \in Seq(Messages)
    BY Zenon, <1>1, QueuePush
  <2>2. CASE m.tag = "Lifecycle"
    BY Zenon, <2>1, <2>2 DEF push, Mailboxes
  <2>3. CASE m.tag = "Reply"
    BY <2>3 DEF push, Mailboxes
  <2>4. CASE m.tag # "Lifecycle" /\ m.tag # "Reply"
    BY Zenon, <2>1, <2>4 DEF push, Mailboxes
  <2>5. QED  BY Zenon, <2>2, <2>3, <2>4
<1>3. after_take(mb) \in Mailboxes
  BY DEF after_take, Mailboxes
<1>4. ASSUME depth(mb) > 0 PROVE after_pop(mb) \in Mailboxes /\ received(mb) \in Messages
  <2>1. CASE has_system(mb)
    <3>1. Head(mb.system) \in Messages /\ Tail(mb.system) \in Seq(Messages)
      BY <1>1, <2>1, QueueFacts DEF has_system
    <3>2. QED  BY Zenon, <2>1, <3>1 DEF after_pop, received, Mailboxes
  <2>2. CASE ~has_system(mb)
    <3>1. mb.system = <<>> /\ Len(mb.system) = 0
      BY <1>1, <2>2, QueueFacts DEF has_system
    <3>2. Len(mb.business) > 0
      BY SMTT(30), <1>1, <1>4, <3>1, QueueFacts DEF depth
    <3>3. mb.business # <<>>
      BY <1>1, <3>2, QueueFacts
    <3>4. Head(mb.business) \in Messages /\ Tail(mb.business) \in Seq(Messages)
      BY Zenon, <1>1, <3>3, QueueFacts
    <3>5. QED  BY Zenon, <2>2, <3>4 DEF after_pop, received, Mailboxes
  <2>3. QED  BY <2>1, <2>2
<1>5. QED  BY <1>2, <1>3, <1>4

\* What the holds below write: the word, the hot state, the active count and
\* the run queue, each in its domain.
WakeTypes ==
    word' \in [Slots -> WordState] /\ hot' \in [Slots -> HotStates]
    /\ active' \in Int /\ ready' \in [Pids -> Nat]

\* wake_edge keeps the types of what it writes.
LEMMA WakeEdgeTypes ==
    ASSUME TableTypeOK, NEW p \in AnyPid, wake_edge(p)
    PROVE  word' \in [Slots -> WordState] /\ active' \in Int /\ ready' \in [Pids -> Nat]
<1>1. Slot(p) \in Slots
  BY Zenon, PidTypes
<1>2. "Runnable" \in ProcessState
  BY DEF ProcessState, LiveStates
<1>3. word' \in [Slots -> WordState]
  BY Zenon, <1>1, <1>2, WordTypes DEF wake_edge, TableTypeOK
<1>4. active' \in Int
  BY DEF wake_edge, TableTypeOK
<1>5. ready' \in [Pids -> Nat]
  <2>1. ready \in [Pids -> Nat] /\ ready' = [ready EXCEPT ![p] = ready[p] + 1]
    BY DEF wake_edge, TableTypeOK
  <2>2. CASE p \in Pids
    BY <2>1, <2>2
  <2>3. CASE p \notin Pids
    BY Zenon, <2>1, <2>3
  <2>4. QED  BY <2>2, <2>3
<1>6. QED  BY Zenon, <1>3, <1>4, <1>5

\* deliver and deliver_reply keep the types of what they write.
LEMMA DeliverTypes ==
    ASSUME TableTypeOK, NEW p \in AnyPid, NEW m \in Messages, deliver(p, m)
    PROVE  WakeTypes
<1>1. CASE ~is_alive(p)
  BY <1>1 DEF deliver, WakeTypes, TableTypeOK
<1>2. CASE is_alive(p)
  <2>1. hot[Slot(p)] \in HotStates /\ Slot(p) \in Slots
    BY Zenon, PidTypes DEF TableTypeOK
  <2>2. push(hot[Slot(p)].mailbox, m) \in Mailboxes
    BY Zenon, <2>1, MailboxTypes DEF HotStates
  <2> DEFINE h == [hot[Slot(p)] EXCEPT !.mailbox = push(hot[Slot(p)].mailbox, m)]
  <2>a. h \in HotStates
    BY Zenon, <2>1, <2>2 DEF HotStates
  <2>b. hot' = [hot EXCEPT ![Slot(p)] = h]
    BY Zenon, <1>2 DEF deliver
  <2>3. hot' \in [Slots -> HotStates]
    BY Zenon, <2>1, <2>a, <2>b DEF TableTypeOK
  <2>4. word' \in [Slots -> WordState] /\ active' \in Int /\ ready' \in [Pids -> Nat]
    BY Zenon, <1>2, WakeEdgeTypes DEF deliver, TableTypeOK
  <2>5. QED  BY <2>3, <2>4 DEF WakeTypes
<1>3. QED  BY <1>1, <1>2

\* deliver_reply, accepted or expired, keeps the types of what a wake changes.
LEMMA DeliverReplyTypes ==
    ASSUME TableTypeOK, NEW p \in AnyPid, NEW t \in Nat, deliver_reply(p, t)
    PROVE  WakeTypes
<1>1. Message("Reply", NoPid, t) \in Messages
  BY Zenon, PidTypes DEF Message, Messages, Tags
<1>2. CASE accepts_reply(p, t)
  BY Zenon, <1>1, <1>2, DeliverTypes DEF deliver_reply
<1>3. CASE ~accepts_reply(p, t)
  BY Zenon, <1>3 DEF deliver_reply, WakeTypes, TableTypeOK
<1>4. QED  BY Zenon, <1>2, <1>3

\* A promotion keeps the types of what it writes, stale or not.
LEMMA PromoteTypes ==
    ASSUME TableTypeOK, NEW p \in AnyPid, NEW valid \in BOOLEAN, promote(p, valid)
    PROVE  WakeTypes
<1>1. CASE ~valid
  BY Zenon, <1>1 DEF promote, WakeTypes, TableTypeOK
<1>2. CASE valid
  <2> DEFINE h == [hot[Slot(p)] EXCEPT !.deadline = 0]
  <2>a. hot[Slot(p)] \in HotStates /\ Slot(p) \in Slots
    BY Zenon, PidTypes DEF TableTypeOK
  <2>b. h \in HotStates
    BY Zenon, <2>a DEF HotStates
  <2>1. hot' \in [Slots -> HotStates]
    BY Zenon, <1>2, <2>a, <2>b DEF promote, TableTypeOK
  <2>2. QED  BY Zenon, <1>2, <2>1, WakeEdgeTypes DEF promote, WakeTypes
<1>3. QED  BY Zenon, <1>1, <1>2

\* A park keeps the types of what it writes.
LEMMA ParkTypes ==
    ASSUME TableTypeOK, NEW p \in AnyPid, NEW to \in {"Blocked", "WaitingIO"},
           NEW target \in WaitTarget, NEW d \in Nat, park(p, to, target, d)
    PROVE  word' \in [Slots -> WordState] /\ hot' \in [Slots -> HotStates] /\ active' \in Int
<1>1. Slot(p) \in Slots /\ to \in ProcessState
  BY Zenon, PidTypes DEF ProcessState, LiveStates
<1>2. word' \in [Slots -> WordState]
  BY Zenon, <1>1, WordTypes DEF park, TableTypeOK
<1>3. hot' \in [Slots -> HotStates]
  <2>1. hot[Slot(p)] \in HotStates /\ hot[Slot(p)].waiting \in WaitTarget
    BY <1>1 DEF TableTypeOK, HotStates
  <2>2. PICK x \in WaitTarget :
          hot' = [hot EXCEPT ![Slot(p)].deadline = d, ![Slot(p)].waiting = x]
    BY Zenon, <2>1 DEF park
  <2>3. [hot[Slot(p)] EXCEPT !.deadline = d, !.waiting = x] \in HotStates
    BY Zenon, <2>1 DEF HotStates
  <2>4. QED  BY Zenon, <1>1, <2>2, <2>3 DEF TableTypeOK
<1>4. active' \in Int
  BY DEF park, TableTypeOK
<1>5. QED  BY Zenon, <1>2, <1>3, <1>4

\* spawn keeps the types of what it writes.
LEMMA SpawnTypes ==
    ASSUME TableTypeOK, NEW par \in AnyPid, spawn_fits, spawn(par)
    PROVE  /\ word' \in [Slots -> WordState] /\ parent' \in [Slots -> AnyPid]
           /\ execution' \in [Slots -> Frames] /\ published' \in 0 .. MaxSlots
           /\ registry' \in Registries /\ alive' \in Int /\ main_pid' \in AnyPid
           /\ ready' \in [Pids -> Nat]
<1> DEFINE s == spawn_slot
           g == spawn_generation
           child == <<s, g>>
<1>1. s \in Slots
  BY DEF spawn_fits
<1>2. g \in Nat /\ child \in Pids
  <2>1. word[s].generation \in Nat
    BY Zenon, <1>1 DEF TableTypeOK, WordState
  <2>2. g \in Nat /\ g >= 1 /\ g <= MaxGeneration
    BY <2>1 DEF spawn_generation, spawn_fits
  <2>3. QED  BY <1>1, <2>2, TableAssumption DEF Pids
<1>3. word' \in [Slots -> WordState]
  BY Zenon, <1>1, <1>2, WordTypes DEF spawn, TableTypeOK
<1>4. parent' \in [Slots -> AnyPid] /\ execution' \in [Slots -> Frames]
  <2>1. Body \in Frames
    BY PidTypes DEF Body, Frames
  <2>2. QED  BY <1>1, <2>1 DEF spawn, TableTypeOK
<1>5. published' \in 0 .. MaxSlots /\ alive' \in Int
  BY <1>1, TableAssumption DEF spawn, spawn_slot, Slots, TableTypeOK
<1>6. main_pid' \in AnyPid
  BY Zenon, <1>2, PidTypes DEF spawn, TableTypeOK
<1>7. ready' \in [Pids -> Nat]
  BY <1>2 DEF spawn, TableTypeOK
<1>8. registry' \in Registries
  <2>1. registry \in Registries /\ registry.free \in Seq(Slots)
    BY DEF TableTypeOK, Registries
  <2> DEFINE fr == IF registry.free # <<>>
                   THEN SubSeq(registry.free, 1, Len(registry.free) - 1) ELSE registry.free
             ch == IF par # NoPid THEN registry.children \cup {<<par, child>>}
                                  ELSE registry.children
  <2>2. fr \in Seq(Slots)
    BY Zenon, <2>1, QueueDrop
  <2>3. ch \in SUBSET (AnyPid \X AnyPid)
    BY SMTT(30), <2>1, <1>2, PidTypes DEF Registries
  <2>4. registry' = [registry EXCEPT !.free = fr, !.children = ch]
    BY DEF spawn
  <2>5. QED  BY Zenon, <2>1, <2>2, <2>3, <2>4 DEF Registries
<1>9. QED  BY Zenon, <1>3, <1>4, <1>5, <1>6, <1>7, <1>8

\* The slot hold of a death edge keeps the types of what it writes.
LEMMA DeathEdgeTypes ==
    ASSUME TableTypeOK, NEW w \in Workers, NEW p \in AnyPid,
           NEW forced \in ExitReason \cup {"None"}, death_edge(w, p, forced)
    PROVE  /\ word' \in [Slots -> WordState] /\ hot' \in [Slots -> HotStates]
           /\ execution' \in [Slots -> Frames] /\ alive' \in Int /\ active' \in Int
           /\ dying' \in [Workers -> Deaths]
<1> DEFINE s == Slot(p)
           reason == IF forced = "None" THEN hot[s].exit_reason ELSE forced
<1>1. s \in Slots /\ hot[s] \in HotStates /\ word[s] \in WordState /\ parent[s] \in AnyPid
  BY Zenon, PidTypes DEF TableTypeOK
<1>2. reason \in ExitReason /\ hot[s].crash_info \in BOOLEAN
  BY Zenon, <1>1 DEF HotStates, ExitReason
<1>3. word' \in [Slots -> WordState]
  <2>1. moved(word[s], "Dead") \in WordState /\ vacated(moved(word[s], "Dead")) \in WordState
    BY Zenon, <1>1, WordTypes DEF ProcessState
  <2>2. QED  BY Zenon, <1>1, <2>1 DEF death_edge, TableTypeOK
<1>4. hot' \in [Slots -> HotStates]
  <2>1. FreshHot \in HotStates
    BY Zenon, QueueEmpty DEF FreshHot, HotStates, EmptyMailbox, Mailboxes, ExitReason, WaitTarget
  <2>2. [hot[s] EXCEPT !.exit_reason = reason] \in HotStates
    BY Zenon, <1>1, <1>2 DEF HotStates
  <2>3. QED  BY Zenon, <1>1, <2>1, <2>2 DEF death_edge, TableTypeOK
<1>5. execution' \in [Slots -> Frames]
  <2>1. NoExecution \in Frames
    BY Zenon, PidTypes DEF NoExecution, Body, Frames
  <2>2. QED  BY Zenon, <1>1, <2>1 DEF death_edge, TableTypeOK
<1>6. alive' \in Int /\ active' \in Int
  BY DEF death_edge, TableTypeOK
<1>7. dying' \in [Workers -> Deaths]
  <2> DEFINE d == [pid |-> p, parent |-> parent[s], reason |-> reason,
                   crash_info |-> hot[s].crash_info, reclaimed |-> ~word[s].on_cpu]
  <2>1. d \in Deaths
    BY Zenon, <1>1, <1>2 DEF Deaths
  <2>2. dying' = [dying EXCEPT ![w] = d]
    BY DEF death_edge
  <2>3. QED  BY Zenon, <2>1, <2>2 DEF TableTypeOK
<1>8. QED  BY <1>3, <1>4, <1>5, <1>6, <1>7

\* The registry hold of a death edge keeps the types of what it writes.
LEMMA NotifyExitTypes ==
    ASSUME TableTypeOK, NEW d \in Deaths, notify_exit(d)
    PROVE  registry' \in Registries /\ notified' \in [1 .. MaxMonitors -> Nat]
<1>1. registry \in Registries /\ d.pid \in AnyPid /\ Slot(d.pid) \in Slots
  BY Zenon, PidTypes DEF TableTypeOK, Deaths
<1> DEFINE p == d.pid
           watched == {m \in registry.monitors : m.target = p}
           callers == {c \in registry.call_waiters : c.callee = p /\ c.caller # p}
           orphans == {c \in registry.children : c[1] = p}
           mon == {m \in registry.monitors : m.target # p /\ m.watcher # p}
           nts == registry.pending_exit_notices
                      \cup {Notice(m, d.reason, d.crash_info) : m \in watched}
           cws == {c \in registry.call_waiters : c.callee # p /\ c.caller # p}
           dns == registry.pending_call_downs \cup callers
           chd == {c \in registry.children : c[1] # p /\ c # <<d.parent, p>>}
           kls == registry.pending_kills \cup {c[2] : c \in orphans}
           fre == IF d.reclaimed THEN Append(registry.free, Slot(p)) ELSE registry.free
<1>2. mon \in SUBSET MonitorEntries /\ cws \in SUBSET CallWaiters /\ dns \in SUBSET CallWaiters
  BY Zenon, <1>1 DEF Registries
<1>3. nts \in SUBSET Notices
  <2>1. ASSUME NEW m \in watched PROVE Notice(m, d.reason, d.crash_info) \in Notices
    <3>1. m \in MonitorEntries
      BY Zenon, <1>1 DEF Registries
    <3>2. QED  BY Zenon, <3>1 DEF Notice, Notices, MonitorEntries, Deaths
  <2>2. QED  BY Zenon, <1>1, <2>1 DEF Registries
<1>4. chd \in SUBSET (AnyPid \X AnyPid) /\ kls \in SUBSET AnyPid
  BY Zenon, <1>1 DEF Registries
<1>5. fre \in Seq(Slots)
  BY Zenon, <1>1, QueuePush DEF Registries
<1>6. registry' = [registry EXCEPT !.monitors = mon, !.pending_exit_notices = nts,
                      !.call_waiters = cws, !.pending_call_downs = dns, !.children = chd,
                      !.pending_kills = kls, !.free = fre]
  BY DEF notify_exit
<1>7. registry' \in Registries
  <2> HIDE DEF mon, nts, cws, dns, chd, kls, fre
  <2> QED  BY Zenon, <1>1, <1>2, <1>3, <1>4, <1>5, <1>6 DEF Registries
<1>8. notified' \in [1 .. MaxMonitors -> Nat]
  BY DEF notify_exit, TableTypeOK
<1>9. QED  BY Zenon, <1>7, <1>8

\* Reclaiming a slot keeps the types of what it writes.
LEMMA ReclaimTypes ==
    ASSUME TableTypeOK, NEW p \in AnyPid, reclaim_slot(p)
    PROVE  /\ word' \in [Slots -> WordState] /\ hot' \in [Slots -> HotStates]
           /\ execution' \in [Slots -> Frames]
<1>1. Slot(p) \in Slots
  BY PidTypes
<1>2. FreshHot \in HotStates /\ NoExecution \in Frames
  BY Zenon, PidTypes, QueueEmpty DEF FreshHot, HotStates, EmptyMailbox, Mailboxes, ExitReason,
        WaitTarget, NoExecution, Body, Frames
<1>3. QED  BY <1>1, <1>2, WordTypes DEF reclaim_slot, TableTypeOK

\* Popping a message keeps the types of what it writes.
LEMMA PopTypes ==
    ASSUME TypeOK, NEW w \in Workers, depth(mailbox(cur[w])) > 0, pop(w)
    PROVE  hot' \in [Slots -> HotStates] /\ replies' \in SUBSET (AnyPid \X Nat)
<1>1. me(w) \in Slots /\ hot[me(w)] \in HotStates /\ hot[me(w)].mailbox \in Mailboxes
  BY Zenon, PidTypes DEF TypeOK, TableTypeOK, DriverTypeOK, me, HotStates
<1>2. /\ after_pop(hot[me(w)].mailbox) \in Mailboxes
      /\ received(hot[me(w)].mailbox) \in Messages
  BY Zenon, <1>1, MailboxTypes DEF mailbox, me
<1>3. hot' \in [Slots -> HotStates]
  <2> DEFINE h == [hot[me(w)] EXCEPT !.mailbox = after_pop(hot[me(w)].mailbox)]
  <2>1. h \in HotStates
    BY Zenon, <1>1, <1>2 DEF HotStates
  <2>2. hot' = [hot EXCEPT ![me(w)] = h]
    BY Zenon DEF pop
  <2>3. QED  BY Zenon, <1>1, <2>1, <2>2 DEF TypeOK, TableTypeOK
<1>4. replies' \in SUBSET (AnyPid \X Nat)
  BY <1>2 DEF pop, mailbox, me, Messages, TypeOK, DriverTypeOK
<1>5. QED  BY Zenon, <1>3, <1>4

\* receive_or_park keeps the types of what it writes.
LEMMA ReceiveOrParkTypes ==
    ASSUME TypeOK, NEW w \in Workers, NEW f \in Frames, NEW parked \in Labels,
           receive_or_park(w, f, parked)
    PROVE  /\ word' \in [Slots -> WordState] /\ hot' \in [Slots -> HotStates]
           /\ active' \in Int /\ execution' \in [Slots -> Frames]
           /\ pc' \in [Workers -> Labels] /\ replies' \in SUBSET (AnyPid \X Nat)
<1>1. cur[w] \in AnyPid /\ me(w) \in Slots /\ f.deadline \in Nat
  BY Zenon, PidTypes DEF TypeOK, DriverTypeOK, me, Frames
<1>2. CASE depth(mailbox(cur[w])) > 0
  BY Zenon, <1>2, PopTypes DEF receive_or_park, TypeOK, TableTypeOK, DriverTypeOK
<1>3. CASE ~(depth(mailbox(cur[w])) > 0)
  <2>1. "Receive" \in WaitTarget /\ "switch" \in Labels
    BY DEF WaitTarget, Labels
  <2>2. word' \in [Slots -> WordState] /\ hot' \in [Slots -> HotStates] /\ active' \in Int
    <3>1. CASE can_park(cur[w])
      BY Zenon, <1>1, <1>3, <2>1, <3>1, ParkTypes DEF receive_or_park, TypeOK
    <3>2. CASE ~can_park(cur[w])
      BY Zenon, <1>3, <3>2 DEF receive_or_park, TypeOK, TableTypeOK
    <3>3. QED  BY Zenon, <3>1, <3>2
  <2>3. execution' \in [Slots -> Frames] /\ replies' \in SUBSET (AnyPid \X Nat)
    BY Zenon, <1>1, <1>3 DEF receive_or_park, set_frame, TypeOK, TableTypeOK, DriverTypeOK
  <2>4. pc' \in [Workers -> Labels]
    BY Zenon, <1>3, <2>1 DEF receive_or_park, goto, TypeOK, DriverTypeOK
  <2>5. QED  BY <2>2, <2>3, <2>4
<1>4. QED  BY Zenon, <1>2, <1>3

\* Updating a function keeps its type, also outside its domain.
LEMMA UpdateTypes ==
    ASSUME NEW S, NEW T, NEW f \in [S -> T], NEW x, NEW v,
           x \in S => v \in T
    PROVE  [f EXCEPT ![x] = v] \in [S -> T]
<1>1. CASE x \in S  BY Zenon, <1>1
<1>2. CASE x \notin S  BY Zenon, <1>2
<1>3. QED  BY Zenon, <1>1, <1>2

\* Updating one field of a worker's hand, of a hot state or of the registry.
LEMMA HandTypes ==
    ASSUME NEW h \in Hands
    PROVE  /\ \A x \in SUBSET AnyPid : [h EXCEPT !.kills = x] \in Hands
           /\ \A x \in SUBSET AnyPid : [h EXCEPT !.freed = x] \in Hands
           /\ \A x \in SUBSET Notices : [h EXCEPT !.notices = x] \in Hands
           /\ \A x \in SUBSET CallWaiters : [h EXCEPT !.downs = x] \in Hands
           /\ \A x \in SUBSET (Pids \X Nat) : [h EXCEPT !.due = x] \in Hands
           /\ \A x \in {"loop", "run", "switch", "halt"} : [h EXCEPT !.back = x] \in Hands
           /\ \A x \in PendingMonitors : [h EXCEPT !.monitor = x] \in Hands
           /\ \A x \in 0 .. MaxSlots : [h EXCEPT !.scan = x] \in Hands
           /\ \A x \in 0 .. MaxSlots : [h EXCEPT !.until = x] \in Hands
BY Zenon DEF Hands

\* Assigning one field of a slot's hot state keeps its type.
LEMMA HotTypes ==
    ASSUME NEW h \in HotStates
    PROVE  /\ \A x \in Nat : [h EXCEPT !.awaiting_reply = x] \in HotStates
           /\ \A x \in BOOLEAN : [h EXCEPT !.crash_info = x] \in HotStates
           /\ \A x \in Nat : [h EXCEPT !.deadline = x] \in HotStates
           /\ \A x \in ExitReason : [h EXCEPT !.exit_reason = x] \in HotStates
           /\ \A x \in Mailboxes : [h EXCEPT !.mailbox = x] \in HotStates
BY DEF HotStates

\* Assigning one field of the registry keeps its type.
LEMMA RegistryTypes ==
    ASSUME NEW r \in Registries
    PROVE  /\ \A x \in SUBSET CallWaiters : [r EXCEPT !.call_waiters = x] \in Registries
           /\ \A x \in SUBSET MonitorEntries : [r EXCEPT !.monitors = x] \in Registries
           /\ \A x \in Nat : [r EXCEPT !.next_monitor_token = x] \in Registries
           /\ \A x \in SUBSET CallWaiters : [r EXCEPT !.pending_call_downs = x] \in Registries
           /\ \A x \in SUBSET Notices : [r EXCEPT !.pending_exit_notices = x] \in Registries
           /\ \A x \in SUBSET AnyPid : [r EXCEPT !.pending_kills = x] \in Registries
BY DEF Registries

\* The constants of the records.
LEMMA FreshTypes ==
    /\ FreshHot \in HotStates /\ NoExecution \in Frames /\ Body \in Frames
    /\ FreshRegistry \in Registries /\ NoDeath \in Deaths
    /\ NoMonitor \in PendingMonitors /\ EmptyHand \in Hands
<1>1. FreshHot \in HotStates
  BY Zenon, QueueEmpty DEF FreshHot, HotStates, EmptyMailbox, Mailboxes, ExitReason, WaitTarget
<1>2. NoExecution \in Frames /\ Body \in Frames
  BY Zenon, PidTypes DEF NoExecution, Body, Frames
<1>3. FreshRegistry \in Registries
  BY Zenon, QueueEmpty DEF FreshRegistry, Registries, Mode
<1>4. NoDeath \in Deaths /\ NoMonitor \in PendingMonitors
  BY Zenon, PidTypes DEF NoDeath, Deaths, NoMonitor, PendingMonitors, ExitReason
<1>5. EmptyHand \in Hands
  <2>1. 0 \in 0 .. MaxSlots
    BY TableAssumption
  <2>2. QED  BY Zenon, <1>4, <2>1 DEF EmptyHand, Hands
<1>6. QED  BY Zenon, <1>1, <1>2, <1>3, <1>4, <1>5

\* TypeOK is kept by claims, switch-outs and the worker loop.
LEMMA LoopTypes ==
    ASSUME TypeOK, NEW w \in Workers, Claim(w) \/ SwitchOut(w) \/ Loop(w)
    PROVE  TypeOK'
<1> USE DEF tableVars, slotVars, counters, timerVars, ioVars, callVars, flagVars, goto
<1>1. CASE try_claim(w)
  <2>1. PICK p \in {q \in Pids : ready[q] > 0} :
          /\ ready' = [ready EXCEPT ![p] = @ - 1]
          /\ IF claimable(word[Slot(p)], Generation(p))
             THEN /\ word' = [word EXCEPT ![Slot(p)] = claimed(@)]
                  /\ cur' = [cur EXCEPT ![w] = p]
                  /\ pc' = [pc EXCEPT ![w] = "claimed"]
             ELSE UNCHANGED <<word, cur, pc>>
    BY Zenon, <1>1 DEF try_claim
  <2>2. ready' \in [Pids -> Nat]
    BY <2>1 DEF TypeOK, TableTypeOK
  <2>3. p \in AnyPid /\ Slot(p) \in Slots /\ "claimed" \in Labels
    BY PidTypes DEF Labels, RunLabels
  <2>4. word' \in [Slots -> WordState]
    <3>1. claimed(word[Slot(p)]) \in WordState
      BY Zenon, <2>3, WordTypes DEF TypeOK, TableTypeOK
    <3>2. QED  BY Zenon, <2>1, <2>3, <3>1 DEF TypeOK, TableTypeOK
  <2>5. cur' \in [Workers -> AnyPid] /\ pc' \in [Workers -> Labels]
    BY Zenon, <2>1, <2>3 DEF TypeOK, DriverTypeOK
  <2>6. QED  BY Zenon, <1>1, <2>2, <2>4, <2>5 DEF try_claim, TypeOK, TableTypeOK, DriverTypeOK
<1>2. CASE count_claim(w)
  BY SMTT(30), <1>2 DEF count_claim, TypeOK, TableTypeOK, DriverTypeOK, Labels, RunLabels
<1>3. CASE yield_running(w)
  <2>1. me(w) \in Slots /\ "Runnable" \in ProcessState /\ "switch" \in Labels
    BY Zenon, PidTypes DEF me, TypeOK, DriverTypeOK, ProcessState, LiveStates, Labels
  <2>2. word' \in [Slots -> WordState] /\ active' \in Int
    <3>1. moved(word[me(w)], "Runnable") \in WordState
      BY Zenon, <2>1, WordTypes DEF TypeOK, TableTypeOK
    <3>2. QED  BY SMTT(30), <1>3, <2>1, <3>1 DEF yield_running, TypeOK, TableTypeOK
  <2>3. pc' \in [Workers -> Labels]
    BY <1>3, <2>1 DEF yield_running, TypeOK, DriverTypeOK
  <2>4. QED  BY Zenon, <1>3, <2>2, <2>3 DEF yield_running, TypeOK, TableTypeOK, DriverTypeOK
<1>4. CASE after_switch(w)
  <2>1. me(w) \in Slots /\ cur[w] \in AnyPid /\ "reclaim" \in Labels /\ "check" \in Labels
    BY Zenon, PidTypes DEF me, TypeOK, DriverTypeOK, Labels
  <2>2. word' \in [Slots -> WordState]
    BY Zenon, <1>4, <2>1, WordTypes DEF after_switch, TypeOK, TableTypeOK
  <2>3. cur' \in [Workers -> AnyPid] /\ reap' \in [Workers -> AnyPid]
    BY Zenon, <1>4, <2>1, PidTypes DEF after_switch, TypeOK, DriverTypeOK
  <2>4. pc' \in [Workers -> Labels]
    BY Zenon, <1>4, <2>1 DEF after_switch, TypeOK, DriverTypeOK
  <2>5. ready' \in [Pids -> Nat]
    <3>1. [ready EXCEPT ![cur[w]] = ready[cur[w]] + 1] \in [Pids -> Nat]
      <4>1. ready \in [Pids -> Nat] /\ (cur[w] \in Pids => ready[cur[w]] + 1 \in Nat)
        BY SMTT(30) DEF TypeOK, TableTypeOK
      <4>2. QED  BY SMTT(30), <4>1, UpdateTypes
    <3>2. QED  BY Zenon, <1>4, <3>1 DEF after_switch, TypeOK, TableTypeOK
  <2>6. QED
    BY Zenon, <1>4, <2>2, <2>3, <2>4, <2>5 DEF after_switch, TypeOK, TableTypeOK, DriverTypeOK
<1>5. CASE reclaim(w)
  BY Zenon, <1>5, ReclaimTypes DEF reclaim, TypeOK, TableTypeOK, DriverTypeOK, Labels
<1>6. CASE free(w)
  BY Zenon, <1>6, QueuePush, PidTypes DEF free, TypeOK, TableTypeOK, DriverTypeOK, Labels, free_slot, Registries
<1>7. CASE check_shutdown(w)
  <2>1. hand' \in [Workers -> Hands]
    BY Zenon, <1>7, HandTypes DEF check_shutdown, TypeOK, DriverTypeOK
  <2>2. pc' \in [Workers -> Labels]
    BY <1>7 DEF check_shutdown, TypeOK, DriverTypeOK, Labels
  <2>3. SHUTDOWN' \in BOOLEAN
    BY <1>7 DEF check_shutdown
  <2>4. QED  BY <1>7, <2>1, <2>2, <2>3 DEF check_shutdown, TypeOK, TableTypeOK, DriverTypeOK
<1>8. CASE cancel_reaped(w)
  <2>1. hand[w].back \in Labels
    BY Zenon DEF TypeOK, DriverTypeOK, Hands, Labels, RunLabels
  <2>2. pc' \in [Workers -> Labels] /\ reap' \in [Workers -> AnyPid]
    BY Zenon, <1>8, <2>1, PidTypes DEF cancel_reaped, TypeOK, DriverTypeOK
  <2>3. armed' \in [Pids -> Nat]
    BY Zenon, <1>8, UpdateTypes DEF cancel_reaped, TypeOK, DriverTypeOK
  <2>4. QED  BY Zenon, <1>8, <2>2, <2>3 DEF cancel_reaped, TypeOK, TableTypeOK, DriverTypeOK
<1>9. CASE worker_loop(w)
  BY Zenon, <1>9 DEF worker_loop, TypeOK, TableTypeOK, DriverTypeOK, Labels
<1>10. CASE park_for_work(w)
  BY Zenon, <1>10 DEF park_for_work, TypeOK, TableTypeOK, DriverTypeOK, Labels
<1>11. CASE poll_signals(w)
  BY Zenon, <1>11 DEF poll_signals, TypeOK, TableTypeOK, DriverTypeOK, Labels
<1>12. CASE enter_draining(w)
  BY Zenon, <1>12 DEF enter_draining, TypeOK, TableTypeOK, DriverTypeOK, Labels, Registries, Mode
<1>13. CASE arm_grace(w)
  BY Zenon, <1>13 DEF arm_grace, TypeOK, TableTypeOK, DriverTypeOK, Labels
<1>14. CASE send_lifecycle(w)
  BY Zenon, <1>14, DeliverTypes, PidTypes DEF send_lifecycle, TypeOK, TableTypeOK, DriverTypeOK, Labels, WakeTypes, Message, Messages, Tags
<1>15. CASE advance(w)
  <2> DEFINE due == {p \in Pids : armed[p] # 0 /\ armed[p] <= now}
             ds == {<<p, armed[p]>> : p \in due}
  <2>1. ds \in SUBSET (Pids \X Nat)
    BY DEF TypeOK, DriverTypeOK
  <2>2. hand' = [hand EXCEPT ![w] = [hand[w] EXCEPT !.due = ds]]
    BY Zenon, <1>15 DEF advance
  <2>3. hand' \in [Workers -> Hands]
    <3> HIDE DEF ds
    <3> QED  BY Zenon, <2>1, <2>2, HandTypes DEF TypeOK, DriverTypeOK
  <2>4. armed' \in [Pids -> Nat]
    BY <1>15 DEF advance, TypeOK, DriverTypeOK
  <2>5. pc' \in [Workers -> Labels]
    BY Zenon, <1>15 DEF advance, TypeOK, DriverTypeOK, Labels
  <2>6. QED  BY Zenon, <1>15, <2>3, <2>4, <2>5 DEF advance, TypeOK, TableTypeOK, DriverTypeOK
<1>16. CASE promote_expired(w)
  <2>1. PICK e \in hand[w].due :
          /\ promote(e[1], promotes_expired(e[1], e[2]))
          /\ hand' = [hand EXCEPT ![w].due = @ \ {e}]
          /\ pc' = [pc EXCEPT ![w] = IF hand[w].due = {e} THEN "idle" ELSE "firing"]
    BY Zenon, <1>16 DEF promote_expired
  <2>2. e[1] \in AnyPid /\ promotes_expired(e[1], e[2]) \in BOOLEAN
    BY SMTT(30), PidTypes DEF TypeOK, DriverTypeOK, Hands, promotes_expired, is_alive, alive_at
  <2>3. WakeTypes
    BY Zenon, <2>1, <2>2, PromoteTypes DEF TypeOK
  <2>4. hand' \in [Workers -> Hands]
    <3>1. hand[w] \in Hands /\ hand[w].due \ {e} \in SUBSET (Pids \X Nat)
      BY Zenon DEF TypeOK, DriverTypeOK, Hands
    <3>2. [hand[w] EXCEPT !.due = hand[w].due \ {e}] \in Hands
      BY Zenon, <3>1, HandTypes
    <3>3. QED  BY Zenon, <2>1, <3>2 DEF TypeOK, DriverTypeOK
  <2>5. pc' \in [Workers -> Labels]
    BY <2>1 DEF TypeOK, DriverTypeOK, Labels
  <2>6. QED
    BY Zenon, <1>16, <2>3, <2>4, <2>5 DEF promote_expired, WakeTypes, TypeOK, TableTypeOK, DriverTypeOK
<1>17. CASE grace_expired(w)
  <2> DEFINE h == [[[hand[w] EXCEPT !.scan = 0] EXCEPT !.until = published] EXCEPT !.back = "halt"]
  <2>1. hand[w] \in Hands /\ 0 \in 0 .. MaxSlots /\ published \in 0 .. MaxSlots
    BY TableAssumption DEF TypeOK, TableTypeOK, DriverTypeOK
  <2>2. hand' = [hand EXCEPT ![w] = h]
    BY Zenon, <1>17 DEF grace_expired
  <2>3. h \in Hands
    BY Zenon, <2>1, HandTypes
  <2>4. hand' \in [Workers -> Hands]
    <3> HIDE DEF h
    <3> QED  BY Zenon, <2>2, <2>3 DEF TypeOK, DriverTypeOK
  <2>5. pc' \in [Workers -> Labels]
    BY Zenon, <1>17 DEF grace_expired, TypeOK, DriverTypeOK, Labels
  <2>6. QED  BY Zenon, <1>17, <2>4, <2>5 DEF grace_expired, TypeOK, TableTypeOK, DriverTypeOK
<1>18. CASE live_pids(w)
  <2>1. pc' \in [Workers -> Labels]
    BY Zenon, <1>18 DEF live_pids, TypeOK, DriverTypeOK, Labels, SettleLabels, KillLabels
  <2>2. hand' \in [Workers -> Hands]
    <3>1. CASE hand[w].scan >= hand[w].until
      BY Zenon, <1>18, <3>1 DEF live_pids, TypeOK, DriverTypeOK
    <3>2. CASE ~(hand[w].scan >= hand[w].until)
      <4> DEFINE s == hand[w].scan
                 ks == IF word[s].state \in LiveStates
                       THEN hand[w].kills \cup {<<s, word[s].generation>>}
                       ELSE hand[w].kills
                 h == [[hand[w] EXCEPT !.scan = s + 1] EXCEPT !.kills = ks]
      <4>1. hand' = [hand EXCEPT ![w] = h]
        BY Zenon, <1>18, <3>2 DEF live_pids
      <4>2. hand[w] \in Hands /\ hand[w].kills \in SUBSET AnyPid
        BY Zenon DEF TypeOK, DriverTypeOK, Hands
      <4>3. s \in Slots /\ s + 1 \in 0 .. MaxSlots
        BY <3>2, <4>2, TableAssumption DEF Hands, Slots
      <4>4. ks \in SUBSET AnyPid
        <5> HIDE DEF s
        <5>1. <<s, word[s].generation>> \in AnyPid
          BY <4>3 DEF TypeOK, TableTypeOK, WordState, AnyPid
        <5>2. QED  BY Zenon, <4>2, <5>1
      <4>5. h \in Hands
        <5> HIDE DEF s, ks
        <5> QED  BY Zenon, <4>2, <4>3, <4>4, HandTypes
      <4>6. QED
        <5> HIDE DEF h
        <5> QED  BY Zenon, <4>1, <4>5 DEF TypeOK, DriverTypeOK
    <3>3. QED  BY <3>1, <3>2
  <2>3. QED  BY Zenon, <1>18, <2>1, <2>2 DEF live_pids, TypeOK, TableTypeOK, DriverTypeOK
<1>19. QED
  BY <1>1, <1>2, <1>3, <1>4, <1>5, <1>6, <1>7, <1>8, <1>9, <1>10, <1>11, <1>12, <1>13, <1>14, <1>15, <1>16, <1>17, <1>18 DEF Claim, SwitchOut, Loop

\* The slot hold of a kill keeps the types of what it writes.
LEMMA KillTypes ==
    ASSUME TypeOK, NEW w \in Workers, NEW p \in AnyPid, NEW l \in Labels, kill(w, p, l)
    PROVE  /\ word' \in [Slots -> WordState] /\ hot' \in [Slots -> HotStates]
           /\ execution' \in [Slots -> Frames] /\ alive' \in Int /\ active' \in Int
           /\ dying' \in [Workers -> Deaths] /\ pc' \in [Workers -> Labels]
           /\ freed_by(p) \in SUBSET AnyPid
<1>1. pc' \in [Workers -> Labels] /\ freed_by(p) \in SUBSET AnyPid
  BY Zenon DEF kill, goto, freed_by, TypeOK, DriverTypeOK, Labels, SettleLabels, KillLabels
<1>2. CASE is_alive(p)
  <2>1. "Killed" \in ExitReason \cup {"None"} /\ TableTypeOK
    BY Zenon DEF ExitReason, TypeOK
  <2>2. QED  BY Zenon, <1>1, <1>2, <2>1, DeathEdgeTypes DEF kill
<1>3. CASE ~is_alive(p)
  BY Zenon, <1>1, <1>3 DEF kill, TypeOK, TableTypeOK
<1>4. QED  BY <1>2, <1>3

\* TypeOK is kept by the settlement of deaths.
LEMMA SettleTypes ==
    ASSUME TypeOK, NEW w \in Workers, Settle(w)
    PROVE  TypeOK'
<1> USE DEF tableVars, slotVars, counters, timerVars, ioVars, callVars, flagVars, goto
<1>a. hand[w] \in Hands /\ registry \in Registries /\ TableTypeOK
  BY Zenon DEF TypeOK, TableTypeOK, DriverTypeOK
<1>b. /\ hand[w].kills \in SUBSET AnyPid /\ hand[w].freed \in SUBSET AnyPid
      /\ hand[w].notices \in SUBSET Notices /\ hand[w].downs \in SUBSET CallWaiters
      /\ hand[w].back \in Labels
  BY Zenon, <1>a DEF Hands, Labels, RunLabels
<1>c. /\ registry.pending_kills \in SUBSET AnyPid
      /\ registry.pending_exit_notices \in SUBSET Notices
      /\ registry.pending_call_downs \in SUBSET CallWaiters
  BY Zenon, <1>a DEF Registries
<1>d. SettleLabels \subseteq Labels /\ SettleLabels = {"pass", "kills", "killing", "notices",
          "notifying", "downs", "promoting", "settled"}
  BY Zenon DEF SettleLabels, KillLabels, Labels
<1>1. CASE death_pass(w)
  <2>1. dying[w] \in Deaths /\ NoDeath \in Deaths
    BY Zenon, FreshTypes DEF TypeOK, TableTypeOK
  <2>2. registry' \in Registries /\ notified' \in [1 .. MaxMonitors -> Nat]
    BY Zenon, <1>1, <1>a, <2>1, NotifyExitTypes DEF death_pass
  <2>3. dying' \in [Workers -> Deaths]
    BY Zenon, <1>1, <2>1 DEF death_pass, TypeOK, TableTypeOK
  <2>4. pc' \in [Workers -> Labels]
    BY Zenon, <1>1, <1>d DEF death_pass, TypeOK, DriverTypeOK
  <2>5. QED  BY Zenon, <1>1, <2>2, <2>3, <2>4 DEF death_pass, TypeOK, TableTypeOK, DriverTypeOK
<1>2. CASE take_pending_kills(w)
  <2>1. registry' \in Registries
    BY Zenon, <1>2, <1>a, RegistryTypes DEF take_pending_kills
  <2>2. hand' \in [Workers -> Hands]
    BY Zenon, <1>2, <1>a, <1>c, HandTypes DEF take_pending_kills, TypeOK, DriverTypeOK
  <2>3. pc' \in [Workers -> Labels]
    BY Zenon, <1>2, <1>d DEF take_pending_kills, TypeOK, DriverTypeOK
  <2>4. QED
    BY Zenon, <1>2, <2>1, <2>2, <2>3 DEF take_pending_kills, TypeOK, TableTypeOK, DriverTypeOK
<1>3. CASE kill_staged(w)
  <2>1. PICK p \in hand[w].kills :
          /\ kill(w, p, IF hand[w].kills = {p} THEN "kills" ELSE "killing")
          /\ hand' = [hand EXCEPT ![w].kills = @ \ {p}, ![w].freed = @ \cup freed_by(p)]
    BY Zenon, <1>3 DEF kill_staged
  <2>2. p \in AnyPid /\ (IF hand[w].kills = {p} THEN "kills" ELSE "killing") \in Labels
    BY <1>b, <1>d
  <2>3. /\ word' \in [Slots -> WordState] /\ hot' \in [Slots -> HotStates]
        /\ execution' \in [Slots -> Frames] /\ alive' \in Int /\ active' \in Int
        /\ dying' \in [Workers -> Deaths] /\ pc' \in [Workers -> Labels]
        /\ freed_by(p) \in SUBSET AnyPid
    BY Zenon, <2>1, <2>2, KillTypes
  <2>4. hand' \in [Workers -> Hands]
    <3> DEFINE k == hand[w].kills \ {p}
               f == hand[w].freed \cup freed_by(p)
    <3>1. k \in SUBSET AnyPid /\ f \in SUBSET AnyPid
      BY Zenon, <1>b, <2>3
    <3>2. hand' = [hand EXCEPT ![w] = [[hand[w] EXCEPT !.kills = k] EXCEPT !.freed = f]]
      BY Zenon, <2>1
    <3>3. [[hand[w] EXCEPT !.kills = k] EXCEPT !.freed = f] \in Hands
      <4> HIDE DEF k, f
      <4> QED  BY Zenon, <1>a, <3>1, HandTypes
    <3>4. QED
      <4> HIDE DEF k, f
      <4> QED  BY Zenon, <3>2, <3>3 DEF TypeOK, DriverTypeOK
  <2>5. QED  BY Zenon, <1>3, <2>3, <2>4 DEF kill_staged, TypeOK, TableTypeOK, DriverTypeOK
<1>4. CASE take_exit_notices(w)
  <2>1. registry' \in Registries
    BY Zenon, <1>4, <1>a, RegistryTypes DEF take_exit_notices
  <2>2. hand' \in [Workers -> Hands]
    BY Zenon, <1>4, <1>a, <1>c, HandTypes DEF take_exit_notices, TypeOK, DriverTypeOK
  <2>3. pc' \in [Workers -> Labels]
    BY <1>4, <1>d DEF take_exit_notices, TypeOK, DriverTypeOK
  <2>4. QED
    BY Zenon, <1>4, <2>1, <2>2, <2>3 DEF take_exit_notices, TypeOK, TableTypeOK, DriverTypeOK
<1>5. CASE deliver_exit_signals(w)
  <2>1. PICK n \in hand[w].notices :
          /\ deliver(n.watcher, Message("ExitSignal", n.target, n.token))
          /\ hand' = [hand EXCEPT ![w].notices = @ \ {n}]
          /\ pc' = [pc EXCEPT ![w] = IF hand[w].notices = {n} THEN "downs" ELSE "notifying"]
    BY Zenon, <1>5 DEF deliver_exit_signals
  <2>2. n.watcher \in AnyPid /\ Message("ExitSignal", n.target, n.token) \in Messages
    BY Zenon, <1>b DEF Notices, Message, Messages, Tags
  <2>3. WakeTypes
    BY Zenon, <1>a, <2>1, <2>2, DeliverTypes
  <2>4. hand' \in [Workers -> Hands]
    <3>1. [hand[w] EXCEPT !.notices = hand[w].notices \ {n}] \in Hands
      BY Zenon, <1>a, <1>b, HandTypes
    <3>2. QED  BY Zenon, <2>1, <3>1 DEF TypeOK, DriverTypeOK
  <2>5. pc' \in [Workers -> Labels]
    BY <1>d, <2>1 DEF TypeOK, DriverTypeOK
  <2>6. QED  BY Zenon, <1>5, <2>3, <2>4, <2>5
               DEF deliver_exit_signals, WakeTypes, TypeOK, TableTypeOK, DriverTypeOK
<1>6. CASE take_call_downs(w)
  <2>1. registry' \in Registries
    BY Zenon, <1>6, <1>a, RegistryTypes DEF take_call_downs
  <2>2. hand' \in [Workers -> Hands]
    BY Zenon, <1>6, <1>a, <1>c, HandTypes DEF take_call_downs, TypeOK, DriverTypeOK
  <2>3. pc' \in [Workers -> Labels]
    BY <1>6, <1>d DEF take_call_downs, TypeOK, DriverTypeOK
  <2>4. QED
    BY Zenon, <1>6, <2>1, <2>2, <2>3 DEF take_call_downs, TypeOK, TableTypeOK, DriverTypeOK
<1>7. CASE wake_call_waiters(w)
  <2>1. PICK c \in hand[w].downs :
          /\ promote(c.caller, promotes_call(c.caller, c.token))
          /\ hand' = [hand EXCEPT ![w].downs = @ \ {c}]
          /\ pc' = [pc EXCEPT ![w] = IF hand[w].downs = {c} THEN "settled" ELSE "promoting"]
    BY Zenon, <1>7 DEF wake_call_waiters
  <2>2. c.caller \in AnyPid /\ promotes_call(c.caller, c.token) \in BOOLEAN
    BY <1>b DEF CallWaiters, promotes_call, is_alive, alive_at
  <2>3. WakeTypes
    BY Zenon, <1>a, <2>1, <2>2, PromoteTypes
  <2>4. hand' \in [Workers -> Hands]
    <3>1. [hand[w] EXCEPT !.downs = hand[w].downs \ {c}] \in Hands
      BY Zenon, <1>a, <1>b, HandTypes
    <3>2. QED  BY Zenon, <2>1, <3>1 DEF TypeOK, DriverTypeOK
  <2>5. pc' \in [Workers -> Labels]
    BY <1>d, <2>1 DEF TypeOK, DriverTypeOK
  <2>6. QED  BY Zenon, <1>7, <2>3, <2>4, <2>5
               DEF wake_call_waiters, WakeTypes, TypeOK, TableTypeOK, DriverTypeOK
<1>8. CASE settled(w)
  <2>1. hand' \in [Workers -> Hands] /\ pc' \in [Workers -> Labels]
    BY Zenon, <1>8, <1>b, FreshTypes DEF settled, TypeOK, DriverTypeOK
  <2>2. armed' \in [Pids -> Nat] /\ SHUTDOWN' \in BOOLEAN
    BY Zenon, <1>8 DEF settled, TypeOK, DriverTypeOK
  <2>3. QED  BY Zenon, <1>8, <2>1, <2>2 DEF settled, TypeOK, TableTypeOK, DriverTypeOK
<1>9. QED  BY Zenon, <1>1, <1>2, <1>3, <1>4, <1>5, <1>6, <1>7, <1>8 DEF Settle

\* TypeOK is kept by the steps that continue an intrinsic.
LEMMA ResumeTypes ==
    ASSUME TypeOK, NEW w \in Workers, Resume(w)
    PROVE  TypeOK'
<1> USE DEF tableVars, slotVars, counters, timerVars, ioVars, callVars, flagVars, goto, set_frame
<1>a. /\ hand[w] \in Hands /\ registry \in Registries /\ TableTypeOK
      /\ cur[w] \in AnyPid /\ me(w) \in Slots /\ hot[me(w)] \in HotStates
      /\ frame(w) \in Frames /\ hot \in [Slots -> HotStates]
  BY Zenon, PidTypes DEF TypeOK, TableTypeOK, DriverTypeOK, me, frame
<1>b. frame(w).token \in Nat /\ frame(w).callee \in AnyPid /\ frame(w).deadline \in Nat
  BY <1>a DEF Frames
<1>c. {"run", "pop", "cancel", "switch", "io_clear", "call_clear", "call_expired",
       "call_ensure", "call_evict", "call_take", "dying", "pass", "kills", "mon_stage",
       "arm"} \subseteq Labels
  BY Zenon DEF Labels, RunLabels, SettleLabels, KillLabels
<1>d. Body \in Frames /\ NoMonitor \in PendingMonitors
  BY Zenon, FreshTypes
<1>1. CASE resume_receive(w)
  <2>1. hot' \in [Slots -> HotStates] /\ replies' \in SUBSET (AnyPid \X Nat)
    BY Zenon, <1>1, PopTypes DEF resume_receive, TypeOK, TableTypeOK, DriverTypeOK
  <2>2. execution' \in [Slots -> Frames]
    BY Zenon, <1>1, <1>a, <1>d DEF resume_receive, TypeOK, TableTypeOK
  <2>3. QED  BY Zenon, <1>1, <2>1, <2>2 DEF resume_receive, TypeOK, TableTypeOK, DriverTypeOK
<1>2. CASE arm_deadline(w)
  <2>1. armed' \in [Pids -> Nat]
    BY Zenon, <1>2, <1>b, UpdateTypes DEF arm_deadline, TypeOK, DriverTypeOK
  <2>2. pc' \in [Workers -> Labels]
    BY <1>2, <1>c DEF arm_deadline, TypeOK, DriverTypeOK
  <2>3. QED  BY Zenon, <1>2, <2>1, <2>2 DEF arm_deadline, TypeOK, TableTypeOK, DriverTypeOK
<1>3. CASE clear_deadline(w)
  <2>1. hot' \in [Slots -> HotStates]
    <3>1. [hot[me(w)] EXCEPT !.deadline = 0] \in HotStates
      BY Zenon, <1>a, HotTypes
    <3>2. QED  BY Zenon, <1>3, <1>a, <3>1 DEF clear_deadline
  <2>2. pc' \in [Workers -> Labels]
    BY Zenon, <1>3, <1>c DEF clear_deadline, TypeOK, DriverTypeOK
  <2>3. QED  BY Zenon, <1>3, <2>1, <2>2 DEF clear_deadline, TypeOK, TableTypeOK, DriverTypeOK
<1>4. CASE pop_received(w)
  <2>1. hot' \in [Slots -> HotStates] /\ replies' \in SUBSET (AnyPid \X Nat)
    BY Zenon, <1>4, PopTypes DEF pop_received, TypeOK, TableTypeOK, DriverTypeOK
  <2>2. pc' \in [Workers -> Labels]
    BY Zenon, <1>4, <1>c DEF pop_received, TypeOK, DriverTypeOK
  <2>3. QED  BY Zenon, <1>4, <2>1, <2>2 DEF pop_received, TypeOK, TableTypeOK, DriverTypeOK
<1>5. CASE cancel_deadline(w)
  <2>1. armed' \in [Pids -> Nat]
    BY Zenon, <1>5, UpdateTypes DEF cancel_deadline, TypeOK, DriverTypeOK
  <2>2. pc' \in [Workers -> Labels] /\ execution' \in [Slots -> Frames]
    BY Zenon, <1>5, <1>a, <1>c, <1>d DEF cancel_deadline, TypeOK, TableTypeOK, DriverTypeOK
  <2>3. QED  BY Zenon, <1>5, <2>1, <2>2 DEF cancel_deadline, TypeOK, TableTypeOK, DriverTypeOK
<1>6. CASE call_send(w)
  <2>1. Message("Business", cur[w], frame(w).token) \in Messages
    BY Zenon, <1>a, <1>b DEF Message, Messages, Tags
  <2>2. WakeTypes
    BY Zenon, <1>6, <1>a, <1>b, <2>1, DeliverTypes DEF call_send
  <2>3. PICK d \in now .. MaxNow :
          execution' = [execution EXCEPT ![me(w)] = [frame(w) EXCEPT !.deadline = d]]
    BY Zenon, <1>6 DEF call_send
  <2>4. d \in Nat
    BY BudgetAssumption DEF TypeOK, DriverTypeOK
  <2>5. [frame(w) EXCEPT !.deadline = d] \in Frames
    BY Zenon, <1>a, <2>4 DEF Frames
  <2>6. execution' \in [Slots -> Frames]
    BY Zenon, <1>a, <2>3, <2>5 DEF TypeOK, TableTypeOK
  <2>7. pc' \in [Workers -> Labels]
    BY Zenon, <1>6, <1>c DEF call_send, TypeOK, DriverTypeOK
  <2>8. QED
    BY Zenon, <1>6, <2>2, <2>6, <2>7 DEF call_send, WakeTypes, TypeOK, TableTypeOK, DriverTypeOK
<1>7. CASE koja_rt_call_receive(w)
  <2>1. pc' \in [Workers -> Labels]
    BY Zenon, <1>7, <1>c DEF koja_rt_call_receive, TypeOK, DriverTypeOK
  <2>2. QED  BY Zenon, <1>7, <2>1 DEF koja_rt_call_receive, TypeOK, TableTypeOK, DriverTypeOK
<1>8. CASE clear_awaiting_reply(w)
  <2>1. hot' \in [Slots -> HotStates]
    <3>1. [hot[me(w)] EXCEPT !.awaiting_reply = 0] \in HotStates
      BY Zenon, <1>a, HotTypes
    <3>2. QED  BY Zenon, <1>8, <1>a, <3>1 DEF clear_awaiting_reply
  <2>2. pc' \in [Workers -> Labels] /\ given_up' \in SUBSET Nat
    BY Zenon, <1>8, <1>b, <1>c DEF clear_awaiting_reply, TypeOK, DriverTypeOK
  <2>3. QED  BY Zenon, <1>8, <2>1, <2>2 DEF clear_awaiting_reply, TypeOK, TableTypeOK, DriverTypeOK
<1>9. CASE ensure_call_waiter(w)
  <2> DEFINE c == [callee |-> frame(w).callee, caller |-> cur[w], token |-> frame(w).token]
             cs == IF /\ ~(\E x \in registry.call_waiters :
                               x.caller = c.caller /\ x.token = c.token)
                      /\ is_alive(c.callee) /\ is_alive(c.caller)
                   THEN registry.call_waiters \cup {c} ELSE registry.call_waiters
  <2>1. cs \in SUBSET CallWaiters
    <3>1. c \in CallWaiters /\ registry.call_waiters \in SUBSET CallWaiters
      BY Zenon, <1>a, <1>b DEF CallWaiters, Registries
    <3>2. QED
      <4> HIDE DEF c
      <4> QED  BY Zenon, <3>1
  <2>2. registry' = [registry EXCEPT !.call_waiters = cs]
    BY Zenon, <1>9 DEF ensure_call_waiter
  <2>3. registry' \in Registries
    <3> HIDE DEF cs
    <3> QED  BY Zenon, <1>a, <2>1, <2>2, RegistryTypes
  <2>4. pc' \in [Workers -> Labels]
    BY Zenon, <1>9, <1>c DEF ensure_call_waiter, TypeOK, DriverTypeOK
  <2>5. QED  BY Zenon, <1>9, <2>3, <2>4 DEF ensure_call_waiter, TypeOK, TableTypeOK, DriverTypeOK
<1>10. CASE take_reply_or_park(w)
  <2>1. pc' \in [Workers -> Labels] /\ given_up' \in SUBSET Nat
    BY Zenon, <1>10, <1>b, <1>c DEF take_reply_or_park, TypeOK, DriverTypeOK
  <2>2. word' \in [Slots -> WordState] /\ hot' \in [Slots -> HotStates] /\ active' \in Int
    <3>a. word \in [Slots -> WordState] /\ active \in Int
      BY Zenon DEF TypeOK, TableTypeOK
    <3>1. CASE has_reply(mailbox(cur[w]))
      <4> DEFINE matched == mailbox(cur[w]).reply.token = frame(w).token
                 h == [hot[me(w)] EXCEPT
                         !.mailbox = after_take(hot[me(w)].mailbox),
                         !.awaiting_reply = IF matched THEN 0 ELSE hot[me(w)].awaiting_reply,
                         !.deadline = IF matched THEN 0 ELSE hot[me(w)].deadline]
      <4>1. hot' = [hot EXCEPT ![me(w)] = h] /\ UNCHANGED <<word, active>>
        BY Zenon, <1>10, <3>1 DEF take_reply_or_park
      <4>2. after_take(hot[me(w)].mailbox) \in Mailboxes
        BY Zenon, <1>a, MailboxTypes DEF HotStates
      <4>3. h \in HotStates
        <5>1. /\ (IF matched THEN 0 ELSE hot[me(w)].awaiting_reply) \in Nat
              /\ (IF matched THEN 0 ELSE hot[me(w)].deadline) \in Nat
          BY Zenon, <1>a DEF HotStates
        <5>2. QED
          <6> HIDE DEF matched
          <6> QED  BY Zenon, <1>a, <4>2, <5>1 DEF HotStates
      <4>4. QED
        <5> HIDE DEF h
        <5> QED  BY Zenon, <1>a, <3>a, <4>1, <4>3
    <3>2. CASE ~has_reply(mailbox(cur[w])) /\ ~is_alive(frame(w).callee)
      <4> DEFINE h == [hot[me(w)] EXCEPT !.awaiting_reply = 0, !.deadline = 0]
      <4>1. hot' = [hot EXCEPT ![me(w)] = h] /\ UNCHANGED <<word, active>>
        BY Zenon, <1>10, <3>2 DEF take_reply_or_park
      <4>2. h \in HotStates
        BY Zenon, <1>a DEF HotStates
      <4>3. QED
        <5> HIDE DEF h
        <5> QED  BY Zenon, <1>a, <3>a, <4>1, <4>2
    <3>3. CASE ~has_reply(mailbox(cur[w])) /\ is_alive(frame(w).callee)
      <4>1. IF can_park(cur[w]) THEN park(cur[w], "Blocked", "Reply", frame(w).deadline)
                                ELSE UNCHANGED <<word, hot, active>>
        BY Zenon, <1>10, <3>3 DEF take_reply_or_park
      <4>2. "Reply" \in WaitTarget
        BY Zenon DEF WaitTarget
      <4>3. QED  BY Zenon, <1>a, <1>b, <3>a, <4>1, <4>2, ParkTypes
    <3>4. QED  BY Zenon, <3>1, <3>2, <3>3
  <2>3. QED  BY Zenon, <1>10, <2>1, <2>2 DEF take_reply_or_park, TypeOK, TableTypeOK, DriverTypeOK
<1>11. CASE evict_call_waiter(w)
  <2>1. registry' \in Registries
    BY Zenon, <1>11, <1>a DEF evict_call_waiter, Registries
  <2>2. pc' \in [Workers -> Labels]
    BY <1>11, <1>c DEF evict_call_waiter, TypeOK, DriverTypeOK
  <2>3. QED  BY SMTT(30), <1>11, <2>1, <2>2 DEF evict_call_waiter, TypeOK, TableTypeOK, DriverTypeOK
<1>12. CASE table_spawn(w)
  <2>1. /\ word' \in [Slots -> WordState] /\ parent' \in [Slots -> AnyPid]
        /\ execution' \in [Slots -> Frames] /\ published' \in 0 .. MaxSlots
        /\ registry' \in Registries /\ alive' \in Int /\ main_pid' \in AnyPid
        /\ ready' \in [Pids -> Nat]
    <3>1. CASE is_alive(cur[w])
      BY Zenon, <1>12, <1>a, <3>1, SpawnTypes DEF table_spawn
    <3>2. CASE ~is_alive(cur[w])
      BY Zenon, <1>12, <3>2 DEF table_spawn, TypeOK, TableTypeOK
    <3>3. QED  BY Zenon, <3>1, <3>2
  <2>2. pc' \in [Workers -> Labels]
    BY Zenon, <1>12, <1>c DEF table_spawn, TypeOK, DriverTypeOK
  <2>3. QED  BY Zenon, <1>12, <2>1, <2>2 DEF table_spawn, TypeOK, TableTypeOK, DriverTypeOK
<1>13. CASE set_crash_info(w)
  <2>1. hot' \in [Slots -> HotStates]
    <3>1. [hot[me(w)] EXCEPT !.crash_info = TRUE] \in HotStates
      BY Zenon, <1>a, HotTypes
    <3>2. QED  BY Zenon, <1>13, <1>a, <3>1 DEF set_crash_info
  <2>2. pc' \in [Workers -> Labels]
    BY <1>13, <1>c DEF set_crash_info, TypeOK, DriverTypeOK
  <2>3. QED  BY Zenon, <1>13, <2>1, <2>2 DEF set_crash_info, TypeOK, TableTypeOK, DriverTypeOK
<1>14. CASE mark_dead_if_alive(w)
  <2>1. /\ word' \in [Slots -> WordState] /\ hot' \in [Slots -> HotStates]
        /\ execution' \in [Slots -> Frames] /\ alive' \in Int /\ active' \in Int
        /\ dying' \in [Workers -> Deaths]
    <3>1. CASE is_alive(cur[w])
      BY Zenon, <1>14, <1>a, <3>1, DeathEdgeTypes DEF mark_dead_if_alive
    <3>2. CASE ~is_alive(cur[w])
      BY Zenon, <1>14, <3>2 DEF mark_dead_if_alive, TypeOK, TableTypeOK
    <3>3. QED  BY Zenon, <3>1, <3>2
  <2>2. hand' \in [Workers -> Hands]
    <3>1. [hand[w] EXCEPT !.back = "switch"] \in Hands
      BY Zenon, <1>a, HandTypes
    <3>2. QED  BY Zenon, <1>14, <3>1 DEF mark_dead_if_alive, TypeOK, DriverTypeOK
  <2>3. pc' \in [Workers -> Labels]
    BY <1>14, <1>c DEF mark_dead_if_alive, TypeOK, DriverTypeOK
  <2>4. QED
    BY Zenon, <1>14, <2>1, <2>2, <2>3 DEF mark_dead_if_alive, TypeOK, TableTypeOK, DriverTypeOK
<1>15. CASE monitor_snapshot(w)
  <2> DEFINE p == hand[w].monitor.target
             m == [hand[w].monitor EXCEPT !.reason = hot[Slot(p)].exit_reason,
                                          !.crash_info = hot[Slot(p)].crash_info]
  <2>1. hand[w].monitor \in PendingMonitors /\ p \in AnyPid
    BY Zenon, <1>a DEF Hands, PendingMonitors
  <2>2. hot[Slot(p)] \in HotStates
    BY Zenon, <1>a, <2>1, PidTypes
  <2>3. m \in PendingMonitors
    BY Zenon, <2>1, <2>2 DEF PendingMonitors, HotStates
  <2>4. hand' \in [Workers -> Hands]
    <3>1. [hand[w] EXCEPT !.monitor = m] \in Hands
      <4> HIDE DEF m
      <4> QED  BY Zenon, <1>a, <2>3, HandTypes
    <3>2. hand' = hand \/ hand' = [hand EXCEPT ![w] = [hand[w] EXCEPT !.monitor = m]]
      BY Zenon, <1>15 DEF monitor_snapshot
    <3>3. QED
      <4> HIDE DEF m
      <4> QED  BY <3>1, <3>2 DEF TypeOK, DriverTypeOK
  <2>5. pc' \in [Workers -> Labels]
    BY Zenon, <1>15, <1>c DEF monitor_snapshot, TypeOK, DriverTypeOK
  <2>6. QED  BY Zenon, <1>15, <2>4, <2>5 DEF monitor_snapshot, TypeOK, TableTypeOK, DriverTypeOK
<1>16. CASE monitor_stage(w)
  <2> DEFINE m == hand[w].monitor
             ns == registry.pending_exit_notices \cup {Notice(m, m.reason, m.crash_info)}
  <2>1. ns \in SUBSET Notices
    <3>1. Notice(m, m.reason, m.crash_info) \in Notices
      BY Zenon, <1>a DEF Hands, PendingMonitors, Notice, Notices
    <3>2. QED  BY Zenon, <1>a, <3>1 DEF Registries
  <2>2. registry' = [registry EXCEPT !.pending_exit_notices = ns]
    BY Zenon, <1>16 DEF monitor_stage
  <2>3. registry' \in Registries
    <3> HIDE DEF ns
    <3> QED  BY Zenon, <1>a, <2>1, <2>2, RegistryTypes
  <2>4. notified' \in [1 .. MaxMonitors -> Nat]
    <3> DEFINE n == notified[m.token] + 1
    <3>1. notified \in [1 .. MaxMonitors -> Nat] /\ (m.token \in 1 .. MaxMonitors => n \in Nat)
      BY SMTT(30) DEF TypeOK, TableTypeOK
    <3>2. notified' = [notified EXCEPT ![m.token] = n]
      BY Zenon, <1>16 DEF monitor_stage
    <3>3. QED
      <4> HIDE DEF m, n
      <4> QED  BY Zenon, <3>1, <3>2, UpdateTypes
  <2>5. hand' \in [Workers -> Hands]
    <3>1. [hand[w] EXCEPT !.monitor = NoMonitor] \in Hands
      BY Zenon, <1>a, <1>d, HandTypes
    <3>2. QED  BY Zenon, <1>16, <3>1 DEF monitor_stage, TypeOK, DriverTypeOK
  <2>6. pc' \in [Workers -> Labels]
    BY <1>16, <1>c DEF monitor_stage, TypeOK, DriverTypeOK
  <2>7. QED  BY Zenon, <1>16, <2>3, <2>4, <2>5, <2>6
               DEF monitor_stage, TypeOK, TableTypeOK, DriverTypeOK
<1>17. CASE register(w)
  <2>1. wakers' \in SUBSET AnyPid /\ pc' \in [Workers -> Labels]
    BY Zenon, <1>17, <1>a, <1>c DEF register, TypeOK, DriverTypeOK
  <2>2. QED  BY Zenon, <1>17, <2>1 DEF register, TypeOK, TableTypeOK, DriverTypeOK
<1>18. CASE deregister(w)
  <2>1. /\ wakers' \in SUBSET AnyPid /\ pc' \in [Workers -> Labels]
        /\ execution' \in [Slots -> Frames]
    BY Zenon, <1>18, <1>a, <1>c, <1>d DEF deregister, TypeOK, TableTypeOK, DriverTypeOK
  <2>2. QED  BY Zenon, <1>18, <2>1 DEF deregister, TypeOK, TableTypeOK, DriverTypeOK
<1>19. QED
  BY Zenon, <1>1, <1>2, <1>3, <1>4, <1>5, <1>6, <1>7, <1>8, <1>9, <1>10, <1>11, <1>12, <1>13,
     <1>14, <1>15, <1>16, <1>17, <1>18 DEF Resume

\* TypeOK is kept by the intrinsics a body calls.
LEMMA IntrinsicTypes ==
    ASSUME TypeOK, NEW w \in Workers, Intrinsic(w)
    PROVE  TypeOK'
<1> USE DEF tableVars, slotVars, counters, timerVars, ioVars, callVars, flagVars, goto, set_frame
<1>a. /\ hand[w] \in Hands /\ registry \in Registries /\ TableTypeOK
      /\ cur[w] \in AnyPid /\ me(w) \in Slots /\ hot[me(w)] \in HotStates
      /\ frame(w) \in Frames /\ hot \in [Slots -> HotStates]
  BY Zenon, PidTypes DEF TypeOK, TableTypeOK, DriverTypeOK, me, frame
<1>b. Known \subseteq AnyPid
  BY Zenon, PidTypes DEF Known
<1>c. {"run", "yielded", "spawning", "dying", "crashing", "switch", "arm", "call_send",
       "kills", "pass", "mon_read", "io_register"} \subseteq Labels
  BY Zenon DEF Labels, RunLabels, SettleLabels, KillLabels
<1>d. Body \in Frames /\ NoMonitor \in PendingMonitors
  BY FreshTypes
<1>e. ASSUME NEW i \in Intrinsics, Calls(w, i) PROVE budget' \in [Intrinsics -> Nat]
  BY SMTT(30), <1>e DEF Calls, Spend, TypeOK, DriverTypeOK
<1>f. now .. MaxNow \subseteq Nat
  BY SMTT(30), BudgetAssumption DEF TypeOK, DriverTypeOK
<1>1. CASE koja_rt_yield_check(w)
  <2>1. budget' \in [Intrinsics -> Nat] /\ pc' \in [Workers -> Labels]
    BY Zenon, <1>1, <1>c, <1>e DEF koja_rt_yield_check, Intrinsics, TypeOK, DriverTypeOK
  <2>2. QED  BY Zenon, <1>1, <2>1 DEF koja_rt_yield_check, TypeOK, TableTypeOK, DriverTypeOK
<1>2. CASE koja_rt_spawn(w)
  <2>1. budget' \in [Intrinsics -> Nat] /\ pc' \in [Workers -> Labels]
    BY Zenon, <1>2, <1>c, <1>e DEF koja_rt_spawn, Intrinsics, TypeOK, DriverTypeOK
  <2>2. QED  BY Zenon, <1>2, <2>1 DEF koja_rt_spawn, TypeOK, TableTypeOK, DriverTypeOK
<1>3. CASE koja_rt_kill(w)
  <2>1. PICK p \in Known :
          /\ kill(w, p, "kills")
          /\ hand' = [hand EXCEPT ![w].back = "run", ![w].freed = freed_by(p)]
    BY Zenon, <1>3 DEF koja_rt_kill
  <2>2. /\ word' \in [Slots -> WordState] /\ hot' \in [Slots -> HotStates]
        /\ execution' \in [Slots -> Frames] /\ alive' \in Int /\ active' \in Int
        /\ dying' \in [Workers -> Deaths] /\ pc' \in [Workers -> Labels]
        /\ freed_by(p) \in SUBSET AnyPid
    BY <1>b, <1>c, <2>1, KillTypes
  <2>3. hand' \in [Workers -> Hands]
    <3>1. [hand[w] EXCEPT !.back = "run"] \in Hands
      BY Zenon, <1>a, HandTypes
    <3>2. [[hand[w] EXCEPT !.back = "run"] EXCEPT !.freed = freed_by(p)] \in Hands
      BY Zenon, <2>2, <3>1, HandTypes
    <3>3. hand' = [hand EXCEPT ![w] =
                     [[hand[w] EXCEPT !.back = "run"] EXCEPT !.freed = freed_by(p)]]
      BY Zenon, <2>1
    <3>4. QED  BY Zenon, <3>2, <3>3 DEF TypeOK, DriverTypeOK
  <2>4. budget' \in [Intrinsics -> Nat]
    BY <1>3, <1>e DEF koja_rt_kill, Intrinsics
  <2>5. QED  BY Zenon, <1>3, <2>2, <2>3, <2>4 DEF koja_rt_kill, TypeOK, TableTypeOK, DriverTypeOK
<1>4. CASE koja_rt_process_exit(w)
  <2>1. PICK r \in {"Normal", "Shutdown"} : hot' = [hot EXCEPT ![me(w)].exit_reason = r]
    BY Zenon, <1>4 DEF koja_rt_process_exit
  <2>2. [hot[me(w)] EXCEPT !.exit_reason = r] \in HotStates
    BY Zenon, <1>a, HotTypes DEF ExitReason
  <2>3. hot' \in [Slots -> HotStates]
    BY Zenon, <1>a, <2>1, <2>2
  <2>4. budget' \in [Intrinsics -> Nat] /\ pc' \in [Workers -> Labels]
    BY Zenon, <1>4, <1>c, <1>e DEF koja_rt_process_exit, Intrinsics, TypeOK, DriverTypeOK
  <2>5. QED  BY Zenon, <1>4, <2>3, <2>4 DEF koja_rt_process_exit, TypeOK, TableTypeOK, DriverTypeOK
<1>5. CASE crash(w)
  <2>1. [hot[me(w)] EXCEPT !.exit_reason = "Crashed"] \in HotStates
    BY Zenon, <1>a, HotTypes DEF ExitReason
  <2>2. hot' \in [Slots -> HotStates]
    BY <1>5, <1>a, <2>1 DEF crash
  <2>3. budget' \in [Intrinsics -> Nat] /\ pc' \in [Workers -> Labels]
    BY Zenon, <1>5, <1>c, <1>e DEF crash, Intrinsics, TypeOK, DriverTypeOK
  <2>4. QED  BY Zenon, <1>5, <2>2, <2>3 DEF crash, TypeOK, TableTypeOK, DriverTypeOK
<1>6. CASE koja_rt_send(w)
  <2>1. PICK p \in Known : deliver(p, Message("Business", cur[w], 0))
    BY Zenon, <1>6 DEF koja_rt_send
  <2>2. Message("Business", cur[w], 0) \in Messages
    BY Zenon, <1>a DEF Message, Messages, Tags
  <2>3. WakeTypes
    BY Zenon, <1>a, <1>b, <2>1, <2>2, DeliverTypes
  <2>4. budget' \in [Intrinsics -> Nat]
    BY Zenon, <1>6, <1>e DEF koja_rt_send, Intrinsics
  <2>5. QED  BY Zenon, <1>6, <2>3, <2>4 DEF koja_rt_send, WakeTypes, TypeOK, TableTypeOK, DriverTypeOK
<1>7. CASE koja_rt_receive(w)
  <2>1. [Body EXCEPT !.at = "receive"] \in Frames
    BY Zenon, <1>d DEF Frames
  <2>2. /\ word' \in [Slots -> WordState] /\ hot' \in [Slots -> HotStates]
        /\ active' \in Int /\ execution' \in [Slots -> Frames]
        /\ pc' \in [Workers -> Labels] /\ replies' \in SUBSET (AnyPid \X Nat)
    BY Zenon, <1>7, <1>c, <2>1, ReceiveOrParkTypes DEF koja_rt_receive
  <2>3. budget' \in [Intrinsics -> Nat]
    BY Zenon, <1>7, <1>e DEF koja_rt_receive, Intrinsics
  <2>4. QED  BY Zenon, <1>7, <2>2, <2>3 DEF koja_rt_receive, TypeOK, TableTypeOK, DriverTypeOK
<1>8. CASE koja_rt_receive_timeout(w)
  <2>1. /\ word' \in [Slots -> WordState] /\ hot' \in [Slots -> HotStates]
        /\ active' \in Int /\ execution' \in [Slots -> Frames]
        /\ pc' \in [Workers -> Labels] /\ replies' \in SUBSET (AnyPid \X Nat)
    <3>1. CASE /\ IF depth(mailbox(cur[w])) > 0 THEN pop(w) ELSE UNCHANGED <<hot, replies>>
               /\ UNCHANGED <<word, active, execution, pc>>
      BY Zenon, <3>1, PopTypes DEF TypeOK, TableTypeOK, DriverTypeOK
    <3>2. ASSUME NEW d \in now .. MaxNow,
                 receive_or_park(w, [Body EXCEPT !.at = "receive_timeout", !.deadline = d], "arm")
          PROVE  /\ word' \in [Slots -> WordState] /\ hot' \in [Slots -> HotStates]
                 /\ active' \in Int /\ execution' \in [Slots -> Frames]
                 /\ pc' \in [Workers -> Labels] /\ replies' \in SUBSET (AnyPid \X Nat)
      <4>1. [Body EXCEPT !.at = "receive_timeout", !.deadline = d] \in Frames
        BY Zenon, <1>d, <1>f DEF Frames
      <4>2. QED  BY Zenon, <1>c, <3>2, <4>1, ReceiveOrParkTypes
    <3>3. QED  BY Zenon, <1>8, <3>1, <3>2 DEF koja_rt_receive_timeout
  <2>2. budget' \in [Intrinsics -> Nat]
    BY Zenon, <1>8, <1>e DEF koja_rt_receive_timeout, Intrinsics
  <2>3. QED  BY Zenon, <1>8, <2>1, <2>2 DEF koja_rt_receive_timeout, TypeOK, TableTypeOK, DriverTypeOK
<1>9. CASE koja_rt_call_token(w)
  <2>1. call_token + 1 \in Nat
    BY DEF TypeOK, DriverTypeOK
  <2>2. hot' \in [Slots -> HotStates]
    <3>1. [hot[me(w)] EXCEPT !.awaiting_reply = call_token + 1] \in HotStates
      BY Zenon, <1>a, <2>1, HotTypes
    <3>2. QED  BY Zenon, <1>9, <1>a, <3>1 DEF koja_rt_call_token
  <2>3. execution' \in [Slots -> Frames]
    <3>1. PICK p \in Known : execution' = [execution EXCEPT ![me(w)] =
              [Body EXCEPT !.at = "call", !.token = call_token + 1, !.callee = p]]
      BY Zenon, <1>9 DEF koja_rt_call_token
    <3>2. [Body EXCEPT !.at = "call", !.token = call_token + 1, !.callee = p] \in Frames
      BY Zenon, <1>b, <1>d, <2>1 DEF Frames
    <3>3. QED  BY Zenon, <1>a, <3>1, <3>2 DEF TypeOK, TableTypeOK
  <2>4. budget' \in [Intrinsics -> Nat] /\ pc' \in [Workers -> Labels]
    BY <1>9, <1>c, <1>e DEF koja_rt_call_token, Intrinsics, TypeOK, DriverTypeOK
  <2>5. QED  BY Zenon, <1>9, <2>1, <2>2, <2>3, <2>4
               DEF koja_rt_call_token, TypeOK, TableTypeOK, DriverTypeOK
<1>10. CASE koja_rt_reply(w)
  <2>1. PICK r \in replies :
          /\ deliver_reply(r[1], r[2])
          /\ accepted' = IF accepts_reply(r[1], r[2]) THEN accepted \cup {r[2]} ELSE accepted
    BY Zenon, <1>10 DEF koja_rt_reply
  <2>2. r[1] \in AnyPid /\ r[2] \in Nat
    BY DEF TypeOK, DriverTypeOK
  <2>3. WakeTypes
    BY Zenon, <1>a, <2>1, <2>2, DeliverReplyTypes
  <2>4. budget' \in [Intrinsics -> Nat] /\ accepted' \in SUBSET Nat
    BY Zenon, <1>10, <1>e, <2>1, <2>2 DEF koja_rt_reply, Intrinsics, TypeOK, DriverTypeOK
  <2>5. QED  BY Zenon, <1>10, <2>3, <2>4 DEF koja_rt_reply, WakeTypes, TypeOK, TableTypeOK, DriverTypeOK
<1>11. CASE koja_rt_monitor(w)
  <2> DEFINE t == registry.next_monitor_token
  <2>1. PICK p \in Known :
          /\ registry' = [registry EXCEPT
                 !.next_monitor_token = t + 1,
                 !.monitors = IF is_alive(p)
                              THEN @ \cup {[target |-> p, token |-> t, watcher |-> cur[w]]}
                              ELSE @]
          /\ hand' = [hand EXCEPT ![w].back = "run",
                 ![w].monitor = IF is_alive(p) THEN @ ELSE
                     [NoMonitor EXCEPT !.target = p, !.token = t, !.watcher = cur[w]]]
          /\ pc' = [pc EXCEPT ![w] = IF is_alive(p) THEN "kills" ELSE "mon_read"]
    BY Zenon, <1>11 DEF koja_rt_monitor
  <2>2. t \in Nat /\ p \in AnyPid
    BY Zenon, <1>a, <1>b DEF Registries
  <2>3. registry' \in Registries
    <3> DEFINE ms == IF is_alive(p)
                     THEN registry.monitors
                          \cup {[target |-> p, token |-> t, watcher |-> cur[w]]}
                     ELSE registry.monitors
    <3>1. ms \in SUBSET MonitorEntries
      <4>1. [target |-> p, token |-> t, watcher |-> cur[w]] \in MonitorEntries
        BY Zenon, <1>a, <2>2 DEF MonitorEntries
      <4>2. registry.monitors \in SUBSET MonitorEntries
        BY Zenon, <1>a DEF Registries
      <4>3. QED  BY Zenon, <4>1, <4>2
    <3>2. registry' = [[registry EXCEPT !.next_monitor_token = t + 1] EXCEPT !.monitors = ms]
      BY Zenon, <2>1
    <3>3. [registry EXCEPT !.next_monitor_token = t + 1] \in Registries
      BY SMTT(30), <1>a, <2>2, RegistryTypes
    <3>4. QED
      <4> HIDE DEF ms, t
      <4> QED  BY Zenon, <3>1, <3>2, <3>3, RegistryTypes
  <2>4. hand' \in [Workers -> Hands]
    <3> DEFINE pm == IF is_alive(p) THEN hand[w].monitor ELSE
                       [NoMonitor EXCEPT !.target = p, !.token = t, !.watcher = cur[w]]
    <3>1. pm \in PendingMonitors
      <4>1. hand[w].monitor \in PendingMonitors
        BY Zenon, <1>a DEF Hands
      <4>2. [NoMonitor EXCEPT !.target = p, !.token = t, !.watcher = cur[w]] \in PendingMonitors
        BY Zenon, <1>a, <1>d, <2>2 DEF PendingMonitors
      <4>3. QED  BY Zenon, <4>1, <4>2
    <3>2. hand' = [hand EXCEPT ![w] = [[hand[w] EXCEPT !.back = "run"] EXCEPT !.monitor = pm]]
      BY Zenon, <2>1
    <3>3. [hand[w] EXCEPT !.back = "run"] \in Hands
      BY Zenon, <1>a, HandTypes
    <3>4. [[hand[w] EXCEPT !.back = "run"] EXCEPT !.monitor = pm] \in Hands
      <4> HIDE DEF pm
      <4> QED  BY Zenon, <3>1, <3>3, HandTypes
    <3>5. QED
      <4> HIDE DEF pm
      <4> QED  BY Zenon, <3>2, <3>4 DEF TypeOK, DriverTypeOK
  <2>5. pc' \in [Workers -> Labels]
    BY <1>c, <2>1 DEF TypeOK, DriverTypeOK
  <2>6. budget' \in [Intrinsics -> Nat]
    BY Zenon, <1>11, <1>e DEF koja_rt_monitor, Intrinsics
  <2>7. QED  BY Zenon, <1>11, <2>3, <2>4, <2>5, <2>6
               DEF koja_rt_monitor, TypeOK, TableTypeOK, DriverTypeOK
<1>12. CASE koja_rt_demonitor(w)
  <2>1. registry' \in Registries
    BY <1>12, <1>a DEF koja_rt_demonitor, Registries
  <2>2. budget' \in [Intrinsics -> Nat]
    BY Zenon, <1>12, <1>e DEF koja_rt_demonitor, Intrinsics
  <2>3. QED  BY Zenon, <1>12, <2>1, <2>2 DEF koja_rt_demonitor, TypeOK, TableTypeOK, DriverTypeOK
<1>13. CASE io_block(w)
  <2>1. PICK d \in {0} \cup now .. MaxNow :
        IF has_system(mailbox(cur[w]))
        THEN UNCHANGED <<word, hot, active, execution, pc>>
        ELSE /\ IF can_park(cur[w])
                THEN /\ park(cur[w], "WaitingIO", "Receive", d)
                     /\ pc' = [pc EXCEPT ![w] = "io_register"]
                ELSE UNCHANGED <<word, hot, active>> /\ pc' = [pc EXCEPT ![w] = "switch"]
             /\ execution' = [execution EXCEPT ![me(w)] =
                                [Body EXCEPT !.at = "io", !.deadline = d]]
    BY Zenon, <1>13 DEF io_block
  <2>2. d \in Nat /\ "Receive" \in WaitTarget
    BY <1>f DEF WaitTarget
  <2>3. [Body EXCEPT !.at = "io", !.deadline = d] \in Frames
    BY Zenon, <1>d, <2>2 DEF Frames
  <2>4. execution' \in [Slots -> Frames] /\ pc' \in [Workers -> Labels]
    BY Zenon, <1>a, <1>c, <2>1, <2>3 DEF TypeOK, TableTypeOK, DriverTypeOK
  <2>5. word' \in [Slots -> WordState] /\ hot' \in [Slots -> HotStates] /\ active' \in Int
    <3>1. CASE ~has_system(mailbox(cur[w])) /\ can_park(cur[w])
      BY SMTT(30), <1>a, <2>1, <2>2, <3>1, ParkTypes
    <3>2. CASE has_system(mailbox(cur[w])) \/ ~can_park(cur[w])
      BY Zenon, <2>1, <3>2 DEF TypeOK, TableTypeOK
    <3>3. QED  BY Zenon, <3>1, <3>2
  <2>6. budget' \in [Intrinsics -> Nat]
    BY Zenon, <1>13, <1>e DEF io_block, Intrinsics
  <2>7. QED  BY SMTT(30), <1>13, <2>4, <2>5, <2>6 DEF io_block, TypeOK, TableTypeOK, DriverTypeOK
<1>14. QED
  BY SMTT(30), <1>1, <1>2, <1>3, <1>4, <1>5, <1>6, <1>7, <1>8, <1>9, <1>10, <1>11, <1>12, <1>13
     DEF Intrinsic

\* TypeOK is kept by the signal handler, the clock and the reactor thread.
LEMMA EnvironmentTypes ==
    ASSUME TypeOK, sigterm \/ Tick \/ reactor_poll \/ apply_wakers
    PROVE  TypeOK'
<1> USE DEF tableVars, slotVars, counters, driverVars, timerVars, ioVars, callVars, flagVars
<1>1. CASE sigterm
  <2>1. budget' \in [Intrinsics -> Nat]
    BY SMTT(30), <1>1 DEF sigterm, Spend, Intrinsics, TypeOK, DriverTypeOK
  <2>2. QED  BY Zenon, <1>1, <2>1 DEF sigterm, TypeOK, TableTypeOK, DriverTypeOK
<1>2. CASE Tick
  BY SMTT(30), <1>2 DEF Tick, TypeOK, TableTypeOK, DriverTypeOK
<1>3. CASE reactor_poll
  BY Zenon, <1>3 DEF reactor_poll, TypeOK, TableTypeOK, DriverTypeOK
<1>4. CASE apply_wakers
  <2>1. PICK p \in events : promote(p, promotes_io(p)) /\ events' = events \ {p}
    BY Zenon, <1>4 DEF apply_wakers
  <2>2. p \in AnyPid /\ promotes_io(p) \in BOOLEAN /\ events' \in SUBSET AnyPid
    BY Zenon, <2>1 DEF TypeOK, DriverTypeOK, promotes_io, is_alive, alive_at
  <2>3. WakeTypes
    BY Zenon, <2>1, <2>2, PromoteTypes DEF TypeOK
  <2>4. QED  BY Zenon, <1>4, <2>2, <2>3 DEF apply_wakers, WakeTypes, TypeOK, TableTypeOK, DriverTypeOK
<1>5. QED  BY Zenon, <1>1, <1>2, <1>3, <1>4

\* The initial state is well typed.
LEMMA InitTypes == Init => TypeOK
<1> SUFFICES ASSUME Init PROVE TypeOK
  OBVIOUS
<1> USE TableAssumption, BudgetAssumption
<1>1. FreshWord \in WordState /\ occupied(1) \in WordState
  BY Zenon DEF FreshWord, occupied, WordState, ProcessState, LiveStates
<1>2. <<0, 1>> \in AnyPid
  BY Zenon, PidTypes DEF AnyPid
<1>3. TableTypeOK
  <2>1. /\ word \in [Slots -> WordState] /\ parent \in [Slots -> AnyPid]
        /\ execution \in [Slots -> Frames] /\ hot \in [Slots -> HotStates]
    BY Zenon, <1>1, PidTypes, FreshTypes DEF Init
  <2>2. /\ published \in 0 .. MaxSlots /\ registry \in Registries
        /\ alive \in Int /\ active \in Int /\ main_pid \in AnyPid
    BY SMTT(30), <1>2, FreshTypes DEF Init
  <2>3. /\ ready \in [Pids -> Nat] /\ dying \in [Workers -> Deaths]
        /\ notified \in [1 .. MaxMonitors -> Nat]
    BY Zenon, FreshTypes DEF Init
  <2>4. QED  BY Zenon, <2>1, <2>2, <2>3 DEF TableTypeOK
<1>4. DriverTypeOK
  <2>1. /\ pc \in [Workers -> Labels] /\ cur \in [Workers -> AnyPid]
        /\ reap \in [Workers -> AnyPid] /\ hand \in [Workers -> Hands]
    BY PidTypes, FreshTypes DEF Init, Labels
  <2>2. QED  BY Zenon, <2>1 DEF Init, DriverTypeOK
<1>5. QED  BY Zenon, <1>3, <1>4 DEF TypeOK

\* Type correctness: whatever the workers, the processes and the environment
\* do, every variable of the scheduler stays in its domain.
THEOREM TypeCorrect == Spec => []TypeOK
<1>1. TypeOK /\ [Next]_vars => TypeOK'
  <2> SUFFICES ASSUME TypeOK, [Next]_vars PROVE TypeOK'
    OBVIOUS
  <2>1. CASE Next
    <3>1. ASSUME NEW w \in Workers, Runtime(w) \/ Intrinsic(w) PROVE TypeOK'
      BY Zenon, <3>1, LoopTypes, SettleTypes, ResumeTypes, IntrinsicTypes DEF Runtime
    <3>2. QED  BY Zenon, <2>1, <3>1, EnvironmentTypes DEF Next
  <2>2. CASE UNCHANGED vars
    BY Zenon, <2>2 DEF vars, tableVars, slotVars, counters, driverVars, timerVars, ioVars, callVars,
          flagVars, TypeOK, TableTypeOK, DriverTypeOK
  <2>3. QED  BY Zenon, <2>1, <2>2
<1>2. QED  BY Zenon, <1>1, InitTypes, PTL DEF Spec
==============================================================================
