---------------------------- MODULE OwnershipProofs ----------------------------
(***************************************************************************)
(* The claim bit is ownership and no slot is leaked or handed out twice,   *)
(* for every number of slots, workers and generations: the inductive       *)
(* invariant is Custody, which says who answers for each slot.             *)
(***************************************************************************)
EXTENDS TypeProofs

\* A freelist: no slot twice.
Distinct(f) == \A i, j \in DOMAIN f : f[i] = f[j] => i = j

InList(f, s) == \E i \in DOMAIN f : f[i] = s

\* Pushing an unlisted slot lists it, once.
LEMMA PushList ==
    ASSUME NEW f \in Seq(Slots), NEW s \in Slots, Distinct(f), ~InList(f, s)
    PROVE  /\ Distinct(Append(f, s))
           /\ \A t \in Slots : InList(Append(f, s), t) <=> InList(f, t) \/ t = s
<1> DEFINE g == Append(f, s)
<1>1. /\ Len(f) \in Nat /\ DOMAIN f = 1 .. Len(f) /\ DOMAIN g = 1 .. (Len(f) + 1)
      /\ \A i \in 1 .. Len(f) : g[i] = f[i]
      /\ g[Len(f) + 1] = s
  BY QueuePush, QueueFacts
<1>2. \A i \in DOMAIN g : i \in DOMAIN f \/ i = Len(f) + 1
  BY <1>1
<1>3. Distinct(g)
  <2> HIDE DEF g
  <2> QED  BY <1>1, <1>2 DEF Distinct, InList
<1>4. ASSUME NEW t \in Slots PROVE InList(g, t) <=> InList(f, t) \/ t = s
  <2> HIDE DEF g
  <2>1. ASSUME InList(g, t) PROVE InList(f, t) \/ t = s
    BY <1>1, <1>2, <2>1 DEF InList
  <2>2. ASSUME InList(f, t) PROVE InList(g, t)
    BY <1>1, <2>2 DEF InList
  <2>3. ASSUME t = s PROVE InList(g, t)
    BY <1>1, <2>3 DEF InList
  <2>4. QED  BY <2>1, <2>2, <2>3
<1>5. QED  BY <1>3, <1>4

\* Popping the last slot unlists it, and only it.
LEMMA PopList ==
    ASSUME NEW f \in Seq(Slots), f # <<>>, Distinct(f)
    PROVE  LET g == SubSeq(f, 1, Len(f) - 1)
               l == f[Len(f)]
           IN  /\ l \in Slots /\ InList(f, l) /\ Distinct(g)
               /\ \A t \in Slots : InList(g, t) <=> InList(f, t) /\ t # l
<1> DEFINE g == SubSeq(f, 1, Len(f) - 1)
           l == f[Len(f)]
<1>1. Len(f) \in Nat /\ Len(f) > 0 /\ DOMAIN f = 1 .. Len(f)
  BY QueueFacts
<1>2. l \in Slots /\ InList(f, l)
  BY <1>1, QueueFacts DEF InList
<1>3. DOMAIN g = 1 .. (Len(f) - 1) /\ \A i \in 1 .. (Len(f) - 1) : g[i] = f[i]
  BY Zenon, QueueDrop
<1>4. Distinct(g)
  <2> HIDE DEF g
  <2> QED  BY <1>1, <1>3 DEF Distinct
<1>5. ASSUME NEW t \in Slots PROVE InList(g, t) <=> InList(f, t) /\ t # l
  <2>1. ASSUME InList(g, t) PROVE InList(f, t) /\ t # l
    <3>1. PICK i \in 1 .. (Len(f) - 1) : f[i] = t
      <4> HIDE DEF g
      <4> QED  BY <1>3, <2>1 DEF InList
    <3>2. i \in DOMAIN f /\ Len(f) \in DOMAIN f /\ i # Len(f)
      <4>1. i \in 1 .. Len(f) /\ Len(f) \in 1 .. Len(f) /\ i # Len(f)
        <5>1. \A n \in Nat : n > 0 => \A k \in 1 .. (n - 1) :
                  k \in 1 .. n /\ n \in 1 .. n /\ k # n
          OBVIOUS
        <5>2. QED  BY Zenon, <1>1, <5>1
      <4>2. QED  BY Zenon, <1>1, <4>1
    <3>3. QED  BY <3>1, <3>2 DEF Distinct, InList
  <2>2. ASSUME InList(f, t), t # l PROVE InList(g, t)
    <3>1. PICK i \in DOMAIN f : f[i] = t
      BY <2>2 DEF InList
    <3>2. i \in 1 .. (Len(f) - 1)
      BY <1>1, <2>2, <3>1
    <3>3. QED
      <4> HIDE DEF g
      <4> QED  BY <1>3, <3>1, <3>2 DEF InList
  <2>3. QED  BY <2>1, <2>2
<1>6. QED  BY <1>2, <1>4, <1>5

\* The words keep their generations, their claim bits and, up to the five live
\* states, their states.
WordsQuiet ==
    \A s \in Slots :
        /\ word'[s].generation = word[s].generation
        /\ word'[s].on_cpu = word[s].on_cpu
        /\ word'[s].state = word[s].state \/
             (word'[s].state \in LiveStates /\ word[s].state \in LiveStates)

\* No execution cell is taken away.
CellsQuiet == \A s \in Slots : execution'[s].at = "none" => execution[s].at = "none"

\* No worker starts or ends a reclaim.
ReapsQuiet ==
    \A w \in Workers :
        /\ pc'[w] # pc[w] => pc[w] \notin {"reclaim", "free"} /\ pc'[w] \notin {"reclaim", "free"}
        /\ reap'[w] # reap[w] => pc[w] \notin {"reclaim", "free"}

\* A step that moves no slot from one custodian to another.
Quiet ==
    /\ WordsQuiet /\ CellsQuiet /\ ReapsQuiet
    /\ registry'.free = registry.free
    /\ UNCHANGED <<published, cur, dying>>

\* Moving a live word to a live state is quiet.
LEMMA MoveQuiet ==
    ASSUME TypeOK, NEW s \in Slots, NEW to \in LiveStates, word[s].state \in LiveStates,
           word' = [word EXCEPT ![s] = moved(@, to)]
    PROVE  WordsQuiet
<1>1. word \in [Slots -> WordState]
  BY DEF TypeOK, TableTypeOK
<1>2. ASSUME NEW t \in Slots, t # s PROVE word'[t] = word[t]
  BY <1>1, <1>2
<1>3. word'[s] = [word[s] EXCEPT !.state = to]
  BY <1>1 DEF moved
<1>4. /\ word'[s].generation = word[s].generation
      /\ word'[s].on_cpu = word[s].on_cpu /\ word'[s].state = to
  BY <1>1, <1>3 DEF WordState
<1>5. QED  BY <1>2, <1>4 DEF WordsQuiet

\* wake_edge makes a live process Runnable and moves no custody.
LEMMA WakeQuiet ==
    ASSUME TypeOK, NEW p \in AnyPid, is_alive(p), wake_edge(p)
    PROVE  WordsQuiet
<1>1. Slot(p) \in Slots /\ word[Slot(p)].state \in LiveStates /\ "Runnable" \in LiveStates
  BY PidTypes DEF is_alive, alive_at, LiveStates
<1>2. QED  BY Zenon, <1>1, MoveQuiet DEF wake_edge

\* Deliveries, promotions and parks are quiet.
LEMMA DeliverQuiet ==
    ASSUME TypeOK, NEW p \in AnyPid, NEW m, deliver(p, m)
    PROVE  WordsQuiet
<1>1. CASE is_alive(p) /\ wakes(p, m)
  BY <1>1, WakeQuiet DEF deliver
<1>2. CASE ~(is_alive(p) /\ wakes(p, m))
  BY <1>2 DEF deliver, WordsQuiet
<1>3. QED  BY <1>1, <1>2

\* An expired deadline, or a callee's death, wakes a live process or nobody.
LEMMA PromoteQuiet ==
    ASSUME TypeOK, NEW p \in AnyPid, NEW valid, valid => is_alive(p), promote(p, valid)
    PROVE  WordsQuiet
<1>1. CASE valid
  BY <1>1, WakeQuiet DEF promote
<1>2. CASE ~valid
  BY <1>2 DEF promote, WordsQuiet
<1>3. QED  BY <1>1, <1>2

\* A park moves its own live process and leaves the claim with its worker.
LEMMA ParkQuiet ==
    ASSUME TypeOK, NEW p \in AnyPid, can_park(p), NEW to \in LiveStates,
           NEW target, NEW d, park(p, to, target, d)
    PROVE  WordsQuiet
<1>1. Slot(p) \in Slots /\ word[Slot(p)].state \in LiveStates
  BY PidTypes DEF can_park, is_alive, alive_at
<1>2. QED  BY Zenon, <1>1, MoveQuiet DEF park

\* A worker that keeps its claim may go to any label that owns one, except
\* the two of a monitor registration, which also say where to go back to.
LEMMA OwningStep ==
    ASSUME NEW w \in Workers, LabelAgrees(w), pc[w] \in OwningLabels, cur'[w] = cur[w],
           dying'[w] = dying[w], pc'[w] \in OwningLabels,
           pc'[w] \in {"mon_read", "mon_stage"} => hand'[w].back = "run"
    PROVE  LabelAgrees(w)'
<1>1. /\ pc'[w] \notin SettleLabels \cup {"scan", "cancel_reaped", "pass"}
      /\ pc[w] # "pass"
  BY DEF OwningLabels, RunLabels, SettleLabels, KillLabels
<1>2. cur[w] # NoPid /\ ~dying[w].reclaimed
  BY Zenon, <1>1 DEF LabelAgrees
<1>3. QED  BY Zenon, <1>1, <1>2 DEF LabelAgrees

\* Labels agree after claims, switch-outs and the worker loop.
LEMMA LoopLabels ==
    ASSUME TypeOK, NEW w \in Workers, Claim(w) \/ SwitchOut(w) \/ Loop(w), \A v \in Workers : LabelAgrees(v)
    PROVE  \A v \in Workers : LabelAgrees(v)'
<1> USE DEF tableVars, slotVars, counters, timerVars, ioVars, callVars, flagVars, goto, Calls
<1>a. /\ pc \in [Workers -> Labels] /\ cur \in [Workers -> AnyPid] /\ hand \in [Workers -> Hands]
      /\ dying \in [Workers -> Deaths] /\ hand[w] \in Hands /\ LabelAgrees(w)
  BY Zenon DEF TypeOK, TableTypeOK, DriverTypeOK
<1> DEFINE others == \A v \in Workers : v # w =>
             pc'[v] = pc[v] /\ cur'[v] = cur[v] /\ hand'[v] = hand[v] /\ dying'[v] = dying[v]
<1>c. others /\ LabelAgrees(w)' => \A v \in Workers : LabelAgrees(v)'
  BY Zenon DEF LabelAgrees
<1>1. CASE try_claim(w)
  <2>1. LabelAgrees(w)'
    <3>1. PICK p \in Pids :
            IF claimable(word[Slot(p)], Generation(p))
            THEN cur' = [cur EXCEPT ![w] = p] /\ pc' = [pc EXCEPT ![w] = "claimed"]
            ELSE UNCHANGED <<cur, pc>>
      BY Zenon, <1>1 DEF try_claim
    <3>2. p # NoPid
      BY DEF Pids, NoPid
    <3>3. pc[w] = "idle" /\ hand' = hand /\ dying' = dying
      BY Zenon, <1>1 DEF try_claim
    <3>4. QED
      BY <1>a, <3>1, <3>2, <3>3 DEF LabelAgrees, OwningLabels, RunLabels, SettleLabels, KillLabels
  <2>2. others
    BY Zenon, <1>1, <1>a DEF try_claim
  <2>3. QED  BY <1>c, <2>1, <2>2
<1>2. CASE count_claim(w)
  <2>1. LabelAgrees(w)'
    BY <1>2, <1>a DEF count_claim, LabelAgrees, OwningLabels, RunLabels, SettleLabels, KillLabels
  <2>2. others
    BY Zenon, <1>2, <1>a DEF count_claim
  <2>3. QED  BY <1>c, <2>1, <2>2
<1>3. CASE yield_running(w)
  <2>1. LabelAgrees(w)'
    BY <1>3, <1>a DEF yield_running, LabelAgrees, OwningLabels, RunLabels, SettleLabels, KillLabels
  <2>2. others
    BY Zenon, <1>3, <1>a DEF yield_running
  <2>3. QED  BY <1>c, <2>1, <2>2
<1>4. CASE after_switch(w)
  <2>1. LabelAgrees(w)'
    BY <1>4, <1>a DEF after_switch, LabelAgrees, OwningLabels, RunLabels, SettleLabels, KillLabels
  <2>2. others
    BY Zenon, <1>4, <1>a DEF after_switch
  <2>3. QED  BY <1>c, <2>1, <2>2
<1>5. CASE reclaim(w)
  <2>1. LabelAgrees(w)'
    BY <1>5, <1>a DEF reclaim, LabelAgrees, OwningLabels, RunLabels, SettleLabels, KillLabels
  <2>2. others
    BY Zenon, <1>5, <1>a DEF reclaim
  <2>3. QED  BY <1>c, <2>1, <2>2
<1>6. CASE free(w)
  <2>1. LabelAgrees(w)'
    BY <1>6, <1>a DEF free, LabelAgrees, OwningLabels, RunLabels, SettleLabels, KillLabels
  <2>2. others
    BY Zenon, <1>6, <1>a DEF free
  <2>3. QED  BY <1>c, <2>1, <2>2
<1>7. CASE check_shutdown(w)
  <2>1. LabelAgrees(w)'
    BY <1>7, <1>a DEF check_shutdown, LabelAgrees, OwningLabels, RunLabels, SettleLabels, KillLabels
  <2>2. others
    BY Zenon, <1>7, <1>a DEF check_shutdown
  <2>3. QED  BY <1>c, <2>1, <2>2
<1>8. CASE cancel_reaped(w)
  <2>1. LabelAgrees(w)'
    BY <1>8, <1>a DEF cancel_reaped, LabelAgrees, OwningLabels, RunLabels, SettleLabels, KillLabels
  <2>2. others
    BY Zenon, <1>8, <1>a DEF cancel_reaped
  <2>3. QED  BY <1>c, <2>1, <2>2
<1>9. CASE worker_loop(w)
  <2>1. LabelAgrees(w)'
    BY <1>9, <1>a DEF worker_loop, LabelAgrees, OwningLabels, RunLabels, SettleLabels, KillLabels
  <2>2. others
    BY Zenon, <1>9, <1>a DEF worker_loop
  <2>3. QED  BY <1>c, <2>1, <2>2
<1>10. CASE park_for_work(w)
  <2>1. LabelAgrees(w)'
    BY <1>10, <1>a DEF park_for_work, LabelAgrees, OwningLabels, RunLabels, SettleLabels, KillLabels
  <2>2. others
    BY Zenon, <1>10, <1>a DEF park_for_work
  <2>3. QED  BY <1>c, <2>1, <2>2
<1>11. CASE poll_signals(w)
  <2>1. LabelAgrees(w)'
    BY <1>11, <1>a DEF poll_signals, LabelAgrees, OwningLabels, RunLabels, SettleLabels, KillLabels
  <2>2. others
    BY Zenon, <1>11, <1>a DEF poll_signals
  <2>3. QED  BY <1>c, <2>1, <2>2
<1>12. CASE enter_draining(w)
  <2>1. LabelAgrees(w)'
    BY <1>12, <1>a DEF enter_draining, LabelAgrees, OwningLabels, RunLabels, SettleLabels, KillLabels
  <2>2. others
    BY Zenon, <1>12, <1>a DEF enter_draining
  <2>3. QED  BY <1>c, <2>1, <2>2
<1>13. CASE arm_grace(w)
  <2>1. LabelAgrees(w)'
    BY <1>13, <1>a DEF arm_grace, LabelAgrees, OwningLabels, RunLabels, SettleLabels, KillLabels
  <2>2. others
    BY Zenon, <1>13, <1>a DEF arm_grace
  <2>3. QED  BY <1>c, <2>1, <2>2
<1>14. CASE send_lifecycle(w)
  <2>1. LabelAgrees(w)'
    BY <1>14, <1>a DEF send_lifecycle, LabelAgrees, OwningLabels, RunLabels, SettleLabels, KillLabels
  <2>2. others
    BY Zenon, <1>14, <1>a DEF send_lifecycle
  <2>3. QED  BY <1>c, <2>1, <2>2
<1>15. CASE advance(w)
  <2>1. LabelAgrees(w)'
    BY <1>15, <1>a DEF advance, LabelAgrees, OwningLabels, RunLabels, SettleLabels, KillLabels
  <2>2. others
    BY Zenon, <1>15, <1>a DEF advance
  <2>3. QED  BY <1>c, <2>1, <2>2
<1>16. CASE promote_expired(w)
  <2>1. LabelAgrees(w)'
    BY <1>16, <1>a DEF promote_expired, LabelAgrees, OwningLabels, RunLabels, SettleLabels, KillLabels
  <2>2. others
    BY Zenon, <1>16, <1>a DEF promote_expired
  <2>3. QED  BY <1>c, <2>1, <2>2
<1>17. CASE grace_expired(w)
  <2>1. LabelAgrees(w)'
    BY <1>17, <1>a DEF grace_expired, LabelAgrees, OwningLabels, RunLabels, SettleLabels, KillLabels
  <2>2. others
    BY Zenon, <1>17, <1>a DEF grace_expired
  <2>3. QED  BY <1>c, <2>1, <2>2
<1>18. CASE live_pids(w)
  <2>1. LabelAgrees(w)'
    <3>1. /\ hand'[w].back = hand[w].back /\ cur' = cur /\ dying' = dying
          /\ pc[w] = "scan" /\ pc'[w] \in {"scan", "kills", "killing"}
      BY <1>18, <1>a DEF live_pids, Hands
    <3>2. QED  BY <1>a, <3>1 DEF LabelAgrees, OwningLabels, RunLabels, SettleLabels, KillLabels
  <2>2. others
    BY Zenon, <1>18, <1>a DEF live_pids
  <2>3. QED  BY <1>c, <2>1, <2>2
<1>19. QED
  BY <1>1, <1>2, <1>3, <1>4, <1>5, <1>6, <1>7, <1>8, <1>9, <1>10, <1>11, <1>12, <1>13, <1>14, <1>15, <1>16, <1>17, <1>18 DEF Claim, SwitchOut, Loop

\* Labels agree after settlements and resumed intrinsics.
LEMMA ResumeLabels ==
    ASSUME TypeOK, NEW w \in Workers, Settle(w) \/ Resume(w), \A v \in Workers : LabelAgrees(v)
    PROVE  \A v \in Workers : LabelAgrees(v)'
<1> USE DEF tableVars, slotVars, counters, timerVars, ioVars, callVars, flagVars, goto, Calls
<1>a. /\ pc \in [Workers -> Labels] /\ cur \in [Workers -> AnyPid] /\ hand \in [Workers -> Hands]
      /\ dying \in [Workers -> Deaths] /\ hand[w] \in Hands /\ LabelAgrees(w)
  BY Zenon DEF TypeOK, TableTypeOK, DriverTypeOK
<1> DEFINE others == \A v \in Workers : v # w =>
             pc'[v] = pc[v] /\ cur'[v] = cur[v] /\ hand'[v] = hand[v] /\ dying'[v] = dying[v]
<1>c. others /\ LabelAgrees(w)' => \A v \in Workers : LabelAgrees(v)'
  BY Zenon DEF LabelAgrees
<1>1. CASE death_pass(w)
  <2>1. LabelAgrees(w)'
    <3>1. /\ hand' = hand /\ cur' = cur /\ ~dying'[w].reclaimed
          /\ pc[w] = "pass" /\ pc'[w] \in {"kills", "killing"}
      BY <1>1, <1>a DEF death_pass, NoDeath
    <3>2. QED  BY <1>a, <3>1 DEF LabelAgrees, OwningLabels, RunLabels, SettleLabels, KillLabels
  <2>2. others
    BY Zenon, <1>1, <1>a DEF death_pass
  <2>3. QED  BY <1>c, <2>1, <2>2
<1>2. CASE take_pending_kills(w)
  <2>1. LabelAgrees(w)'
    BY <1>2, <1>a DEF take_pending_kills, LabelAgrees, OwningLabels, RunLabels, SettleLabels, KillLabels
  <2>2. others
    BY Zenon, <1>2, <1>a DEF take_pending_kills
  <2>3. QED  BY <1>c, <2>1, <2>2
<1>3. CASE kill_staged(w)
  <2>1. LabelAgrees(w)'
    <3>1. /\ hand'[w].back = hand[w].back /\ cur' = cur /\ pc[w] = "killing"
      BY <1>3, <1>a DEF kill_staged, Hands
    <3>2. pc'[w] \in {"pass", "kills", "killing"} /\ (pc'[w] # "pass" => dying' = dying)
      BY <1>3, <1>a DEF kill_staged, kill
    <3>3. QED  BY <1>a, <3>1, <3>2 DEF LabelAgrees, OwningLabels, RunLabels, SettleLabels, KillLabels
  <2>2. others
    <3>1. PICK p \in hand[w].kills :
            /\ kill(w, p, IF hand[w].kills = {p} THEN "kills" ELSE "killing")
            /\ hand' = [hand EXCEPT ![w].kills = @ \ {p}, ![w].freed = @ \cup freed_by(p)]
      BY Zenon, <1>3 DEF kill_staged
    <3>2. cur' = cur /\ \A v \in Workers : v # w => hand'[v] = hand[v]
      BY <1>3, <1>a, <3>1 DEF kill_staged
    <3>3. \A v \in Workers : v # w => pc'[v] = pc[v] /\ dying'[v] = dying[v]
      BY Zenon, <1>a, <3>1 DEF kill, death_edge
    <3>4. QED  BY Zenon, <3>2, <3>3
  <2>3. QED  BY <1>c, <2>1, <2>2
<1>4. CASE take_exit_notices(w)
  <2>1. LabelAgrees(w)'
    BY <1>4, <1>a DEF take_exit_notices, LabelAgrees, OwningLabels, RunLabels, SettleLabels, KillLabels
  <2>2. others
    BY Zenon, <1>4, <1>a DEF take_exit_notices
  <2>3. QED  BY <1>c, <2>1, <2>2
<1>5. CASE deliver_exit_signals(w)
  <2>1. LabelAgrees(w)'
    BY <1>5, <1>a DEF deliver_exit_signals, LabelAgrees, OwningLabels, RunLabels, SettleLabels, KillLabels
  <2>2. others
    BY Zenon, <1>5, <1>a DEF deliver_exit_signals
  <2>3. QED  BY <1>c, <2>1, <2>2
<1>6. CASE take_call_downs(w)
  <2>1. LabelAgrees(w)'
    BY <1>6, <1>a DEF take_call_downs, LabelAgrees, OwningLabels, RunLabels, SettleLabels, KillLabels
  <2>2. others
    BY Zenon, <1>6, <1>a DEF take_call_downs
  <2>3. QED  BY <1>c, <2>1, <2>2
<1>7. CASE wake_call_waiters(w)
  <2>1. LabelAgrees(w)'
    BY <1>7, <1>a DEF wake_call_waiters, LabelAgrees, OwningLabels, RunLabels, SettleLabels, KillLabels
  <2>2. others
    BY Zenon, <1>7, <1>a DEF wake_call_waiters
  <2>3. QED  BY <1>c, <2>1, <2>2
<1>8. CASE settled(w)
  <2>1. LabelAgrees(w)'
    <3>1. pc[w] = "settled" /\ pc'[w] = hand[w].back /\ cur'[w] = cur[w] /\ dying'[w] = dying[w]
      BY Zenon, <1>8, <1>a DEF settled
    <3>2. ~dying[w].reclaimed /\ (cur[w] = NoPid => hand[w].back = "halt")
          /\ (cur[w] # NoPid => hand[w].back \in {"run", "switch"})
      BY Zenon, <1>a, <3>1 DEF LabelAgrees, SettleLabels
    <3>3. QED
      BY <3>1, <3>2 DEF LabelAgrees, OwningLabels, RunLabels, SettleLabels, KillLabels
  <2>2. others
    BY Zenon, <1>8, <1>a DEF settled
  <2>3. QED  BY <1>c, <2>1, <2>2
<1>9. CASE resume_receive(w)
  <2>1. LabelAgrees(w)'
    BY <1>9, <1>a DEF resume_receive, LabelAgrees, OwningLabels, RunLabels, SettleLabels, KillLabels
  <2>2. others
    BY Zenon, <1>9, <1>a DEF resume_receive
  <2>3. QED  BY <1>c, <2>1, <2>2
<1>10. CASE arm_deadline(w)
  <2>1. LabelAgrees(w)'
    BY <1>10, <1>a DEF arm_deadline, LabelAgrees, OwningLabels, RunLabels, SettleLabels, KillLabels
  <2>2. others
    BY Zenon, <1>10, <1>a DEF arm_deadline
  <2>3. QED  BY <1>c, <2>1, <2>2
<1>11. CASE clear_deadline(w)
  <2>1. LabelAgrees(w)'
    BY <1>11, <1>a DEF clear_deadline, LabelAgrees, OwningLabels, RunLabels, SettleLabels, KillLabels
  <2>2. others
    BY Zenon, <1>11, <1>a DEF clear_deadline
  <2>3. QED  BY <1>c, <2>1, <2>2
<1>12. CASE pop_received(w)
  <2>1. LabelAgrees(w)'
    BY <1>12, <1>a DEF pop_received, LabelAgrees, OwningLabels, RunLabels, SettleLabels, KillLabels
  <2>2. others
    BY Zenon, <1>12, <1>a DEF pop_received
  <2>3. QED  BY <1>c, <2>1, <2>2
<1>13. CASE cancel_deadline(w)
  <2>1. LabelAgrees(w)'
    BY <1>13, <1>a DEF cancel_deadline, LabelAgrees, OwningLabels, RunLabels, SettleLabels, KillLabels
  <2>2. others
    BY Zenon, <1>13, <1>a DEF cancel_deadline
  <2>3. QED  BY <1>c, <2>1, <2>2
<1>14. CASE call_send(w)
  <2>1. LabelAgrees(w)'
    BY <1>14, <1>a DEF call_send, LabelAgrees, OwningLabels, RunLabels, SettleLabels, KillLabels
  <2>2. others
    BY Zenon, <1>14, <1>a DEF call_send
  <2>3. QED  BY <1>c, <2>1, <2>2
<1>15. CASE koja_rt_call_receive(w)
  <2>1. LabelAgrees(w)'
    BY <1>15, <1>a DEF koja_rt_call_receive, LabelAgrees, OwningLabels, RunLabels, SettleLabels, KillLabels
  <2>2. others
    BY Zenon, <1>15, <1>a DEF koja_rt_call_receive
  <2>3. QED  BY <1>c, <2>1, <2>2
<1>16. CASE clear_awaiting_reply(w)
  <2>1. LabelAgrees(w)'
    BY <1>16, <1>a DEF clear_awaiting_reply, LabelAgrees, OwningLabels, RunLabels, SettleLabels, KillLabels
  <2>2. others
    BY Zenon, <1>16, <1>a DEF clear_awaiting_reply
  <2>3. QED  BY <1>c, <2>1, <2>2
<1>17. CASE ensure_call_waiter(w)
  <2>1. LabelAgrees(w)'
    BY <1>17, <1>a DEF ensure_call_waiter, LabelAgrees, OwningLabels, RunLabels, SettleLabels, KillLabels
  <2>2. others
    BY Zenon, <1>17, <1>a DEF ensure_call_waiter
  <2>3. QED  BY <1>c, <2>1, <2>2
<1>18. CASE take_reply_or_park(w)
  <2>1. LabelAgrees(w)'
    BY <1>18, <1>a DEF take_reply_or_park, LabelAgrees, OwningLabels, RunLabels, SettleLabels, KillLabels
  <2>2. others
    BY Zenon, <1>18, <1>a DEF take_reply_or_park
  <2>3. QED  BY <1>c, <2>1, <2>2
<1>19. CASE evict_call_waiter(w)
  <2>1. LabelAgrees(w)'
    BY <1>19, <1>a DEF evict_call_waiter, LabelAgrees, OwningLabels, RunLabels, SettleLabels, KillLabels
  <2>2. others
    BY Zenon, <1>19, <1>a DEF evict_call_waiter
  <2>3. QED  BY <1>c, <2>1, <2>2
<1>20. CASE table_spawn(w)
  <2>1. LabelAgrees(w)'
    BY <1>20, <1>a DEF table_spawn, LabelAgrees, OwningLabels, RunLabels, SettleLabels, KillLabels
  <2>2. others
    BY Zenon, <1>20, <1>a DEF table_spawn
  <2>3. QED  BY <1>c, <2>1, <2>2
<1>21. CASE set_crash_info(w)
  <2>1. LabelAgrees(w)'
    BY <1>21, <1>a DEF set_crash_info, LabelAgrees, OwningLabels, RunLabels, SettleLabels, KillLabels
  <2>2. others
    BY Zenon, <1>21, <1>a DEF set_crash_info
  <2>3. QED  BY <1>c, <2>1, <2>2
<1>22. CASE mark_dead_if_alive(w)
  <2>1. LabelAgrees(w)'
    BY <1>22, <1>a DEF mark_dead_if_alive, death_edge, LabelAgrees, OwningLabels, RunLabels, SettleLabels, KillLabels
  <2>2. others
    BY Zenon, <1>22, <1>a DEF mark_dead_if_alive, death_edge
  <2>3. QED  BY <1>c, <2>1, <2>2
<1>23. CASE monitor_snapshot(w)
  <2>1. LabelAgrees(w)'
    <3>1. /\ pc[w] = "mon_read" /\ pc'[w] = "mon_stage" /\ cur'[w] = cur[w] /\ dying'[w] = dying[w]
          /\ hand[w].back = "run"
      BY Zenon, <1>23, <1>a DEF monitor_snapshot, LabelAgrees
    <3>2. hand'[w].back = hand[w].back
      BY <1>23, <1>a DEF monitor_snapshot, Hands
    <3>3. {"mon_read", "mon_stage"} \subseteq OwningLabels
      BY Zenon DEF OwningLabels, RunLabels
    <3>4. QED  BY Zenon, <1>a, <3>1, <3>2, <3>3, OwningStep
  <2>2. others
    BY Zenon, <1>23, <1>a DEF monitor_snapshot
  <2>3. QED  BY <1>c, <2>1, <2>2
<1>24. CASE monitor_stage(w)
  <2>1. LabelAgrees(w)'
    BY <1>24, <1>a DEF monitor_stage, LabelAgrees, OwningLabels, RunLabels, SettleLabels, KillLabels
  <2>2. others
    BY Zenon, <1>24, <1>a DEF monitor_stage
  <2>3. QED  BY <1>c, <2>1, <2>2
<1>25. CASE register(w)
  <2>1. LabelAgrees(w)'
    BY <1>25, <1>a DEF register, LabelAgrees, OwningLabels, RunLabels, SettleLabels, KillLabels
  <2>2. others
    BY Zenon, <1>25, <1>a DEF register
  <2>3. QED  BY <1>c, <2>1, <2>2
<1>26. CASE deregister(w)
  <2>1. LabelAgrees(w)'
    BY <1>26, <1>a DEF deregister, LabelAgrees, OwningLabels, RunLabels, SettleLabels, KillLabels
  <2>2. others
    BY Zenon, <1>26, <1>a DEF deregister
  <2>3. QED  BY <1>c, <2>1, <2>2
<1>27. QED
  BY <1>1, <1>2, <1>3, <1>4, <1>5, <1>6, <1>7, <1>8, <1>9, <1>10, <1>11, <1>12, <1>13, <1>14, <1>15, <1>16, <1>17, <1>18, <1>19, <1>20, <1>21, <1>22, <1>23, <1>24, <1>25, <1>26 DEF Settle, Resume

\* Labels agree after the intrinsics a body calls.
LEMMA IntrinsicLabels ==
    ASSUME TypeOK, NEW w \in Workers, Intrinsic(w), \A v \in Workers : LabelAgrees(v)
    PROVE  \A v \in Workers : LabelAgrees(v)'
<1> USE DEF tableVars, slotVars, counters, timerVars, ioVars, callVars, flagVars, goto, Calls
<1>a. /\ pc \in [Workers -> Labels] /\ cur \in [Workers -> AnyPid] /\ hand \in [Workers -> Hands]
      /\ dying \in [Workers -> Deaths] /\ hand[w] \in Hands /\ LabelAgrees(w)
  BY Zenon DEF TypeOK, TableTypeOK, DriverTypeOK
<1> DEFINE others == \A v \in Workers : v # w =>
             pc'[v] = pc[v] /\ cur'[v] = cur[v] /\ hand'[v] = hand[v] /\ dying'[v] = dying[v]
<1>c. others /\ LabelAgrees(w)' => \A v \in Workers : LabelAgrees(v)'
  BY Zenon DEF LabelAgrees
<1>1. CASE koja_rt_yield_check(w)
  <2>1. LabelAgrees(w)'
    BY <1>1, <1>a DEF koja_rt_yield_check, LabelAgrees, OwningLabels, RunLabels, SettleLabels, KillLabels
  <2>2. others
    BY Zenon, <1>1, <1>a DEF koja_rt_yield_check
  <2>3. QED  BY <1>c, <2>1, <2>2
<1>2. CASE koja_rt_spawn(w)
  <2>1. LabelAgrees(w)'
    BY <1>2, <1>a DEF koja_rt_spawn, LabelAgrees, OwningLabels, RunLabels, SettleLabels, KillLabels
  <2>2. others
    BY Zenon, <1>2, <1>a DEF koja_rt_spawn
  <2>3. QED  BY <1>c, <2>1, <2>2
<1>3. CASE koja_rt_kill(w)
  <2>1. LabelAgrees(w)'
    BY <1>3, <1>a DEF koja_rt_kill, kill, death_edge, LabelAgrees, OwningLabels, RunLabels, SettleLabels, KillLabels
  <2>2. others
    <3>1. pc' = [pc EXCEPT ![w] = "pass"] \/ pc' = [pc EXCEPT ![w] = "kills"]
      BY Zenon, <1>3 DEF koja_rt_kill, kill
    <3>2. cur' = cur /\ \A v \in Workers : v # w => hand'[v] = hand[v]
      BY Zenon, <1>3, <1>a DEF koja_rt_kill, kill
    <3>3. \A v \in Workers : v # w => dying'[v] = dying[v]
      BY Zenon, <1>3, <1>a DEF koja_rt_kill, kill, death_edge
    <3>4. QED  BY Zenon, <1>a, <3>1, <3>2, <3>3
  <2>3. QED  BY <1>c, <2>1, <2>2
<1>4. CASE koja_rt_process_exit(w)
  <2>1. LabelAgrees(w)'
    BY <1>4, <1>a DEF koja_rt_process_exit, LabelAgrees, OwningLabels, RunLabels, SettleLabels, KillLabels
  <2>2. others
    BY Zenon, <1>4, <1>a DEF koja_rt_process_exit
  <2>3. QED  BY <1>c, <2>1, <2>2
<1>5. CASE crash(w)
  <2>1. LabelAgrees(w)'
    BY <1>5, <1>a DEF crash, LabelAgrees, OwningLabels, RunLabels, SettleLabels, KillLabels
  <2>2. others
    BY Zenon, <1>5, <1>a DEF crash
  <2>3. QED  BY <1>c, <2>1, <2>2
<1>6. CASE koja_rt_send(w)
  <2>1. LabelAgrees(w)'
    BY <1>6, <1>a DEF koja_rt_send, LabelAgrees, OwningLabels, RunLabels, SettleLabels, KillLabels
  <2>2. others
    BY Zenon, <1>6, <1>a DEF koja_rt_send
  <2>3. QED  BY <1>c, <2>1, <2>2
<1>7. CASE koja_rt_receive(w)
  <2>1. LabelAgrees(w)'
    BY <1>7, <1>a DEF koja_rt_receive, receive_or_park, LabelAgrees, OwningLabels, RunLabels, SettleLabels, KillLabels
  <2>2. others
    BY Zenon, <1>7, <1>a DEF koja_rt_receive, receive_or_park
  <2>3. QED  BY <1>c, <2>1, <2>2
<1>8. CASE koja_rt_receive_timeout(w)
  <2>1. LabelAgrees(w)'
    <3>1. /\ pc[w] = "run" /\ pc'[w] \in {"run", "arm", "switch"}
          /\ cur'[w] = cur[w] /\ dying'[w] = dying[w]
      BY Zenon, <1>8, <1>a DEF koja_rt_receive_timeout, receive_or_park
    <3>2. {"run", "arm", "switch"} \subseteq OwningLabels \ {"mon_read", "mon_stage"}
      BY Zenon DEF OwningLabels, RunLabels
    <3>3. QED  BY Zenon, <1>a, <3>1, <3>2, OwningStep
  <2>2. others
    BY Zenon, <1>8, <1>a DEF koja_rt_receive_timeout, receive_or_park
  <2>3. QED  BY <1>c, <2>1, <2>2
<1>9. CASE koja_rt_call_token(w)
  <2>1. LabelAgrees(w)'
    BY <1>9, <1>a DEF koja_rt_call_token, LabelAgrees, OwningLabels, RunLabels, SettleLabels, KillLabels
  <2>2. others
    BY Zenon, <1>9, <1>a DEF koja_rt_call_token
  <2>3. QED  BY <1>c, <2>1, <2>2
<1>10. CASE koja_rt_reply(w)
  <2>1. LabelAgrees(w)'
    BY <1>10, <1>a DEF koja_rt_reply, LabelAgrees, OwningLabels, RunLabels, SettleLabels, KillLabels
  <2>2. others
    BY Zenon, <1>10, <1>a DEF koja_rt_reply
  <2>3. QED  BY <1>c, <2>1, <2>2
<1>11. CASE koja_rt_monitor(w)
  <2>1. LabelAgrees(w)'
    BY <1>11, <1>a DEF koja_rt_monitor, LabelAgrees, OwningLabels, RunLabels, SettleLabels, KillLabels
  <2>2. others
    BY Zenon, <1>11, <1>a DEF koja_rt_monitor
  <2>3. QED  BY <1>c, <2>1, <2>2
<1>12. CASE koja_rt_demonitor(w)
  <2>1. LabelAgrees(w)'
    BY <1>12, <1>a DEF koja_rt_demonitor, LabelAgrees, OwningLabels, RunLabels, SettleLabels, KillLabels
  <2>2. others
    BY Zenon, <1>12, <1>a DEF koja_rt_demonitor
  <2>3. QED  BY <1>c, <2>1, <2>2
<1>13. CASE io_block(w)
  <2>1. LabelAgrees(w)'
    BY <1>13, <1>a DEF io_block, LabelAgrees, OwningLabels, RunLabels, SettleLabels, KillLabels
  <2>2. others
    BY Zenon, <1>13, <1>a DEF io_block
  <2>3. QED  BY <1>c, <2>1, <2>2
<1>14. QED
  BY <1>1, <1>2, <1>3, <1>4, <1>5, <1>6, <1>7, <1>8, <1>9, <1>10, <1>11, <1>12, <1>13 DEF Intrinsic

\* The quiet steps of the worker loop.
LEMMA LoopQuiet ==
    ASSUME TypeOK, NEW w \in Workers,
           \/ count_claim(w) \/ yield_running(w) \/ check_shutdown(w) \/ cancel_reaped(w)
           \/ worker_loop(w) \/ park_for_work(w) \/ poll_signals(w) \/ enter_draining(w)
           \/ arm_grace(w) \/ send_lifecycle(w) \/ advance(w) \/ promote_expired(w)
           \/ grace_expired(w) \/ live_pids(w)
    PROVE  Quiet
<1> USE DEF tableVars, slotVars, counters, timerVars, ioVars, callVars, flagVars, Calls
<1>a. word' = word => WordsQuiet
  BY Zenon DEF WordsQuiet
<1>b. execution' = execution => CellsQuiet
  BY Zenon DEF CellsQuiet
<1>c. ASSUME NEW f, f.at # "none", set_frame(w, f) PROVE CellsQuiet
  BY Zenon, <1>c DEF CellsQuiet, set_frame, TypeOK, TableTypeOK
<1>d. ASSUME NEW l, goto(w, l), l \notin {"reclaim", "free"}, pc[w] \notin {"reclaim", "free"},
             \A v \in Workers : v # w => reap'[v] = reap[v]
      PROVE  ReapsQuiet
  BY Zenon, <1>d DEF ReapsQuiet, goto, TypeOK, DriverTypeOK
<1>e. pc' = pc /\ reap' = reap => ReapsQuiet
  BY Zenon DEF ReapsQuiet
<1>x. ASSUME NEW f, f.at = frame(w).at, set_frame(w, f) PROVE CellsQuiet
  BY Zenon, <1>x DEF CellsQuiet, set_frame, frame, me, TypeOK, TableTypeOK
<1>f. Body.at = "body"
  BY DEF Body
<1>p. /\ cur[w] \in AnyPid /\ Slot(cur[w]) \in Slots /\ main_pid \in AnyPid
      /\ Known \subseteq AnyPid /\ hand[w] \in Hands /\ frame(w) \in Frames
      /\ frame(w).callee \in AnyPid /\ registry \in Registries
  BY Zenon, PidTypes DEF TypeOK, TableTypeOK, DriverTypeOK, Known, frame, me, Frames
<1>h. hand[w].back \notin {"reclaim", "free"}
  BY Zenon, <1>p DEF Hands
<1>g. ASSUME NEW x
      PROVE  /\ [registry EXCEPT !.mode = x].free = registry.free
             /\ [registry EXCEPT !.pending_kills = x].free = registry.free
             /\ [registry EXCEPT !.pending_exit_notices = x].free = registry.free
             /\ [registry EXCEPT !.pending_call_downs = x].free = registry.free
             /\ [registry EXCEPT !.call_waiters = x].free = registry.free
             /\ [registry EXCEPT !.monitors = x].free = registry.free
             /\ \A y : [registry EXCEPT !.next_monitor_token = y, !.monitors = x].free = registry.free
  BY <1>p DEF Registries
<1>1. CASE count_claim(w)
  <2>1. WordsQuiet
    BY Zenon, <1>1, <1>a DEF count_claim
  <2>2. CellsQuiet
    BY Zenon, <1>1, <1>b, <1>c, <1>f DEF count_claim
  <2>3. ReapsQuiet
    BY Zenon, <1>1, <1>d, <1>e DEF count_claim
  <2>4. registry'.free = registry.free /\ UNCHANGED <<published, cur, dying>>
    BY Zenon, <1>1 DEF count_claim
  <2>5. QED  BY Zenon, <2>1, <2>2, <2>3, <2>4 DEF Quiet
<1>2. CASE yield_running(w)
  <2>1. WordsQuiet
    <3>1. CASE can_park(cur[w])
      <4>1. me(w) \in Slots /\ word[me(w)].state \in LiveStates /\ "Runnable" \in LiveStates
        BY Zenon, <1>p, <3>1 DEF can_park, is_alive, alive_at, LiveStates, me
      <4>2. QED  BY Zenon, <1>2, <3>1, <4>1, MoveQuiet DEF yield_running
    <3>2. CASE ~can_park(cur[w])
      BY Zenon, <1>2, <1>a, <3>2 DEF yield_running
    <3>3. QED  BY <3>1, <3>2
  <2>2. CellsQuiet
    BY Zenon, <1>2, <1>b, <1>c, <1>f DEF yield_running
  <2>3. ReapsQuiet
    BY Zenon, <1>2, <1>d, <1>e DEF yield_running
  <2>4. registry'.free = registry.free /\ UNCHANGED <<published, cur, dying>>
    BY Zenon, <1>2 DEF yield_running
  <2>5. QED  BY Zenon, <2>1, <2>2, <2>3, <2>4 DEF Quiet
<1>3. CASE check_shutdown(w)
  <2>1. WordsQuiet
    BY Zenon, <1>3, <1>a DEF check_shutdown
  <2>2. CellsQuiet
    BY Zenon, <1>3, <1>b, <1>c, <1>f DEF check_shutdown
  <2>3. ReapsQuiet
    BY Zenon, <1>3, <1>d, <1>e DEF check_shutdown
  <2>4. registry'.free = registry.free /\ UNCHANGED <<published, cur, dying>>
    BY Zenon, <1>3 DEF check_shutdown
  <2>5. QED  BY Zenon, <2>1, <2>2, <2>3, <2>4 DEF Quiet
<1>4. CASE cancel_reaped(w)
  <2>1. WordsQuiet
    BY Zenon, <1>4, <1>a DEF cancel_reaped
  <2>2. CellsQuiet
    BY Zenon, <1>4, <1>b, <1>c, <1>f DEF cancel_reaped
  <2>3. ReapsQuiet
    <3>1. \A v \in Workers : v # w => reap'[v] = reap[v]
      BY Zenon, <1>4 DEF cancel_reaped, TypeOK, DriverTypeOK
    <3>2. QED  BY Zenon, <1>4, <1>d, <1>h, <3>1 DEF cancel_reaped
  <2>4. registry'.free = registry.free /\ UNCHANGED <<published, cur, dying>>
    BY Zenon, <1>4 DEF cancel_reaped
  <2>5. QED  BY Zenon, <2>1, <2>2, <2>3, <2>4 DEF Quiet
<1>5. CASE worker_loop(w)
  <2>1. WordsQuiet
    BY Zenon, <1>5, <1>a DEF worker_loop
  <2>2. CellsQuiet
    BY Zenon, <1>5, <1>b, <1>c, <1>f DEF worker_loop
  <2>3. ReapsQuiet
    BY Zenon, <1>5, <1>d, <1>e DEF worker_loop
  <2>4. registry'.free = registry.free /\ UNCHANGED <<published, cur, dying>>
    BY Zenon, <1>5 DEF worker_loop
  <2>5. QED  BY Zenon, <2>1, <2>2, <2>3, <2>4 DEF Quiet
<1>6. CASE park_for_work(w)
  <2>1. WordsQuiet
    BY Zenon, <1>6, <1>a DEF park_for_work
  <2>2. CellsQuiet
    BY Zenon, <1>6, <1>b, <1>c, <1>f DEF park_for_work
  <2>3. ReapsQuiet
    BY Zenon, <1>6, <1>d, <1>e DEF park_for_work
  <2>4. registry'.free = registry.free /\ UNCHANGED <<published, cur, dying>>
    BY Zenon, <1>6 DEF park_for_work
  <2>5. QED  BY Zenon, <2>1, <2>2, <2>3, <2>4 DEF Quiet
<1>7. CASE poll_signals(w)
  <2>1. WordsQuiet
    BY Zenon, <1>7, <1>a DEF poll_signals
  <2>2. CellsQuiet
    BY Zenon, <1>7, <1>b, <1>c, <1>f DEF poll_signals
  <2>3. ReapsQuiet
    BY Zenon, <1>7, <1>d, <1>e DEF poll_signals
  <2>4. registry'.free = registry.free /\ UNCHANGED <<published, cur, dying>>
    BY Zenon, <1>7 DEF poll_signals
  <2>5. QED  BY Zenon, <2>1, <2>2, <2>3, <2>4 DEF Quiet
<1>8. CASE enter_draining(w)
  <2>1. WordsQuiet
    BY Zenon, <1>8, <1>a DEF enter_draining
  <2>2. CellsQuiet
    BY Zenon, <1>8, <1>b, <1>c, <1>f DEF enter_draining
  <2>3. ReapsQuiet
    BY Zenon, <1>8, <1>d, <1>e DEF enter_draining
  <2>4. registry'.free = registry.free /\ UNCHANGED <<published, cur, dying>>
    BY Zenon, <1>8, <1>g DEF enter_draining
  <2>5. QED  BY Zenon, <2>1, <2>2, <2>3, <2>4 DEF Quiet
<1>9. CASE arm_grace(w)
  <2>1. WordsQuiet
    BY Zenon, <1>9, <1>a DEF arm_grace
  <2>2. CellsQuiet
    BY Zenon, <1>9, <1>b, <1>c, <1>f DEF arm_grace
  <2>3. ReapsQuiet
    BY Zenon, <1>9, <1>d, <1>e DEF arm_grace
  <2>4. registry'.free = registry.free /\ UNCHANGED <<published, cur, dying>>
    BY Zenon, <1>9 DEF arm_grace
  <2>5. QED  BY Zenon, <2>1, <2>2, <2>3, <2>4 DEF Quiet
<1>10. CASE send_lifecycle(w)
  <2>1. WordsQuiet
    BY Zenon, <1>10, <1>p, DeliverQuiet DEF send_lifecycle
  <2>2. CellsQuiet
    BY Zenon, <1>10, <1>b, <1>c, <1>f DEF send_lifecycle
  <2>3. ReapsQuiet
    BY Zenon, <1>10, <1>d, <1>e DEF send_lifecycle
  <2>4. registry'.free = registry.free /\ UNCHANGED <<published, cur, dying>>
    BY Zenon, <1>10 DEF send_lifecycle
  <2>5. QED  BY Zenon, <2>1, <2>2, <2>3, <2>4 DEF Quiet
<1>11. CASE advance(w)
  <2>1. WordsQuiet
    BY Zenon, <1>11, <1>a DEF advance
  <2>2. CellsQuiet
    BY Zenon, <1>11, <1>b, <1>c, <1>f DEF advance
  <2>3. ReapsQuiet
    BY Zenon, <1>11, <1>d, <1>e DEF advance
  <2>4. registry'.free = registry.free /\ UNCHANGED <<published, cur, dying>>
    BY Zenon, <1>11 DEF advance
  <2>5. QED  BY Zenon, <2>1, <2>2, <2>3, <2>4 DEF Quiet
<1>12. CASE promote_expired(w)
  <2>1. WordsQuiet
    <3>1. PICK e \in hand[w].due : promote(e[1], promotes_expired(e[1], e[2]))
      BY Zenon, <1>12 DEF promote_expired
    <3>2. e[1] \in AnyPid /\ (promotes_expired(e[1], e[2]) => is_alive(e[1]))
      BY Zenon, <1>p, PidTypes DEF Hands, promotes_expired
    <3>3. QED  BY Zenon, <3>1, <3>2, PromoteQuiet
  <2>2. CellsQuiet
    BY Zenon, <1>12, <1>b, <1>c, <1>f DEF promote_expired
  <2>3. ReapsQuiet
    BY Zenon, <1>12, <1>d, <1>e DEF promote_expired
  <2>4. registry'.free = registry.free /\ UNCHANGED <<published, cur, dying>>
    BY Zenon, <1>12 DEF promote_expired
  <2>5. QED  BY Zenon, <2>1, <2>2, <2>3, <2>4 DEF Quiet
<1>13. CASE grace_expired(w)
  <2>1. WordsQuiet
    BY Zenon, <1>13, <1>a DEF grace_expired
  <2>2. CellsQuiet
    BY Zenon, <1>13, <1>b, <1>c, <1>f DEF grace_expired
  <2>3. ReapsQuiet
    BY Zenon, <1>13, <1>d, <1>e DEF grace_expired
  <2>4. registry'.free = registry.free /\ UNCHANGED <<published, cur, dying>>
    BY Zenon, <1>13 DEF grace_expired
  <2>5. QED  BY Zenon, <2>1, <2>2, <2>3, <2>4 DEF Quiet
<1>14. CASE live_pids(w)
  <2>1. WordsQuiet
    BY Zenon, <1>14, <1>a DEF live_pids
  <2>2. CellsQuiet
    BY Zenon, <1>14, <1>b, <1>c, <1>f DEF live_pids
  <2>3. ReapsQuiet
    BY Zenon, <1>14, <1>d, <1>e DEF live_pids
  <2>4. registry'.free = registry.free /\ UNCHANGED <<published, cur, dying>>
    BY Zenon, <1>14 DEF live_pids
  <2>5. QED  BY Zenon, <2>1, <2>2, <2>3, <2>4 DEF Quiet
<1>15. QED
  BY Zenon, <1>1, <1>2, <1>3, <1>4, <1>5, <1>6, <1>7, <1>8, <1>9, <1>10, <1>11, <1>12, <1>13, <1>14

\* The quiet steps of settlements and resumed intrinsics.
LEMMA ResumeQuiet ==
    ASSUME TypeOK, NEW w \in Workers,
           \/ take_pending_kills(w) \/ take_exit_notices(w) \/ deliver_exit_signals(w) \/ take_call_downs(w)
           \/ wake_call_waiters(w) \/ settled(w) \/ resume_receive(w) \/ arm_deadline(w)
           \/ clear_deadline(w) \/ pop_received(w) \/ cancel_deadline(w) \/ call_send(w)
           \/ koja_rt_call_receive(w) \/ clear_awaiting_reply(w) \/ ensure_call_waiter(w) \/ take_reply_or_park(w)
           \/ evict_call_waiter(w) \/ set_crash_info(w) \/ monitor_snapshot(w) \/ monitor_stage(w)
           \/ register(w) \/ deregister(w)
    PROVE  Quiet
<1> USE DEF tableVars, slotVars, counters, timerVars, ioVars, callVars, flagVars, Calls
<1>a. word' = word => WordsQuiet
  BY Zenon DEF WordsQuiet
<1>b. execution' = execution => CellsQuiet
  BY Zenon DEF CellsQuiet
<1>c. ASSUME NEW f, f.at # "none", set_frame(w, f) PROVE CellsQuiet
  BY Zenon, <1>c DEF CellsQuiet, set_frame, TypeOK, TableTypeOK
<1>d. ASSUME NEW l, goto(w, l), l \notin {"reclaim", "free"}, pc[w] \notin {"reclaim", "free"},
             \A v \in Workers : v # w => reap'[v] = reap[v]
      PROVE  ReapsQuiet
  BY Zenon, <1>d DEF ReapsQuiet, goto, TypeOK, DriverTypeOK
<1>e. pc' = pc /\ reap' = reap => ReapsQuiet
  BY Zenon DEF ReapsQuiet
<1>x. ASSUME NEW f, f.at = frame(w).at, set_frame(w, f) PROVE CellsQuiet
  BY Zenon, <1>x DEF CellsQuiet, set_frame, frame, me, TypeOK, TableTypeOK
<1>f. Body.at = "body"
  BY DEF Body
<1>p. /\ cur[w] \in AnyPid /\ Slot(cur[w]) \in Slots /\ main_pid \in AnyPid
      /\ Known \subseteq AnyPid /\ hand[w] \in Hands /\ frame(w) \in Frames
      /\ frame(w).callee \in AnyPid /\ registry \in Registries
  BY Zenon, PidTypes DEF TypeOK, TableTypeOK, DriverTypeOK, Known, frame, me, Frames
<1>h. hand[w].back \notin {"reclaim", "free"}
  BY Zenon, <1>p DEF Hands
<1>g. ASSUME NEW x
      PROVE  /\ [registry EXCEPT !.mode = x].free = registry.free
             /\ [registry EXCEPT !.pending_kills = x].free = registry.free
             /\ [registry EXCEPT !.pending_exit_notices = x].free = registry.free
             /\ [registry EXCEPT !.pending_call_downs = x].free = registry.free
             /\ [registry EXCEPT !.call_waiters = x].free = registry.free
             /\ [registry EXCEPT !.monitors = x].free = registry.free
             /\ \A y : [registry EXCEPT !.next_monitor_token = y, !.monitors = x].free = registry.free
  BY <1>p DEF Registries
<1>1. CASE take_pending_kills(w)
  <2>1. WordsQuiet
    BY Zenon, <1>1, <1>a DEF take_pending_kills
  <2>2. CellsQuiet
    BY Zenon, <1>1, <1>b, <1>c, <1>f DEF take_pending_kills
  <2>3. ReapsQuiet
    BY Zenon, <1>1, <1>d, <1>e DEF take_pending_kills
  <2>4. registry'.free = registry.free /\ UNCHANGED <<published, cur, dying>>
    BY Zenon, <1>1, <1>g DEF take_pending_kills
  <2>5. QED  BY Zenon, <2>1, <2>2, <2>3, <2>4 DEF Quiet
<1>2. CASE take_exit_notices(w)
  <2>1. WordsQuiet
    BY Zenon, <1>2, <1>a DEF take_exit_notices
  <2>2. CellsQuiet
    BY Zenon, <1>2, <1>b, <1>c, <1>f DEF take_exit_notices
  <2>3. ReapsQuiet
    BY Zenon, <1>2, <1>d, <1>e DEF take_exit_notices
  <2>4. registry'.free = registry.free /\ UNCHANGED <<published, cur, dying>>
    BY Zenon, <1>2, <1>g DEF take_exit_notices
  <2>5. QED  BY Zenon, <2>1, <2>2, <2>3, <2>4 DEF Quiet
<1>3. CASE deliver_exit_signals(w)
  <2>1. WordsQuiet
    <3>1. PICK n \in hand[w].notices : deliver(n.watcher, Message("ExitSignal", n.target, n.token))
      BY Zenon, <1>3 DEF deliver_exit_signals
    <3>2. n.watcher \in AnyPid
      BY Zenon, <1>p DEF Hands, Notices
    <3>3. QED  BY Zenon, <3>1, <3>2, DeliverQuiet
  <2>2. CellsQuiet
    BY Zenon, <1>3, <1>b, <1>c, <1>f DEF deliver_exit_signals
  <2>3. ReapsQuiet
    BY Zenon, <1>3, <1>d, <1>e DEF deliver_exit_signals
  <2>4. registry'.free = registry.free /\ UNCHANGED <<published, cur, dying>>
    BY Zenon, <1>3 DEF deliver_exit_signals
  <2>5. QED  BY Zenon, <2>1, <2>2, <2>3, <2>4 DEF Quiet
<1>4. CASE take_call_downs(w)
  <2>1. WordsQuiet
    BY Zenon, <1>4, <1>a DEF take_call_downs
  <2>2. CellsQuiet
    BY Zenon, <1>4, <1>b, <1>c, <1>f DEF take_call_downs
  <2>3. ReapsQuiet
    BY Zenon, <1>4, <1>d, <1>e DEF take_call_downs
  <2>4. registry'.free = registry.free /\ UNCHANGED <<published, cur, dying>>
    BY Zenon, <1>4, <1>g DEF take_call_downs
  <2>5. QED  BY Zenon, <2>1, <2>2, <2>3, <2>4 DEF Quiet
<1>5. CASE wake_call_waiters(w)
  <2>1. WordsQuiet
    <3>1. PICK c \in hand[w].downs : promote(c.caller, promotes_call(c.caller, c.token))
      BY Zenon, <1>5 DEF wake_call_waiters
    <3>2. c.caller \in AnyPid /\ (promotes_call(c.caller, c.token) => is_alive(c.caller))
      BY Zenon, <1>p DEF Hands, CallWaiters, promotes_call
    <3>3. QED  BY Zenon, <3>1, <3>2, PromoteQuiet
  <2>2. CellsQuiet
    BY Zenon, <1>5, <1>b, <1>c, <1>f DEF wake_call_waiters
  <2>3. ReapsQuiet
    BY Zenon, <1>5, <1>d, <1>e DEF wake_call_waiters
  <2>4. registry'.free = registry.free /\ UNCHANGED <<published, cur, dying>>
    BY Zenon, <1>5 DEF wake_call_waiters
  <2>5. QED  BY Zenon, <2>1, <2>2, <2>3, <2>4 DEF Quiet
<1>6. CASE settled(w)
  <2>1. WordsQuiet
    BY Zenon, <1>6, <1>a DEF settled
  <2>2. CellsQuiet
    BY Zenon, <1>6, <1>b, <1>c, <1>f DEF settled
  <2>3. ReapsQuiet
    BY Zenon, <1>6, <1>d, <1>h DEF settled
  <2>4. registry'.free = registry.free /\ UNCHANGED <<published, cur, dying>>
    BY Zenon, <1>6 DEF settled
  <2>5. QED  BY Zenon, <2>1, <2>2, <2>3, <2>4 DEF Quiet
<1>7. CASE resume_receive(w)
  <2>1. WordsQuiet
    BY Zenon, <1>7, <1>a DEF resume_receive
  <2>2. CellsQuiet
    BY Zenon, <1>7, <1>b, <1>c, <1>f DEF resume_receive
  <2>3. ReapsQuiet
    BY Zenon, <1>7, <1>d, <1>e DEF resume_receive
  <2>4. registry'.free = registry.free /\ UNCHANGED <<published, cur, dying>>
    BY Zenon, <1>7 DEF resume_receive
  <2>5. QED  BY Zenon, <2>1, <2>2, <2>3, <2>4 DEF Quiet
<1>8. CASE arm_deadline(w)
  <2>1. WordsQuiet
    BY Zenon, <1>8, <1>a DEF arm_deadline
  <2>2. CellsQuiet
    BY Zenon, <1>8, <1>b, <1>c, <1>f DEF arm_deadline
  <2>3. ReapsQuiet
    BY Zenon, <1>8, <1>d, <1>e DEF arm_deadline
  <2>4. registry'.free = registry.free /\ UNCHANGED <<published, cur, dying>>
    BY Zenon, <1>8 DEF arm_deadline
  <2>5. QED  BY Zenon, <2>1, <2>2, <2>3, <2>4 DEF Quiet
<1>9. CASE clear_deadline(w)
  <2>1. WordsQuiet
    BY Zenon, <1>9, <1>a DEF clear_deadline
  <2>2. CellsQuiet
    BY Zenon, <1>9, <1>b, <1>c, <1>f DEF clear_deadline
  <2>3. ReapsQuiet
    BY Zenon, <1>9, <1>d, <1>e DEF clear_deadline
  <2>4. registry'.free = registry.free /\ UNCHANGED <<published, cur, dying>>
    BY Zenon, <1>9 DEF clear_deadline
  <2>5. QED  BY Zenon, <2>1, <2>2, <2>3, <2>4 DEF Quiet
<1>10. CASE pop_received(w)
  <2>1. WordsQuiet
    BY Zenon, <1>10, <1>a DEF pop_received
  <2>2. CellsQuiet
    BY Zenon, <1>10, <1>b, <1>c, <1>f DEF pop_received
  <2>3. ReapsQuiet
    BY Zenon, <1>10, <1>d, <1>e DEF pop_received
  <2>4. registry'.free = registry.free /\ UNCHANGED <<published, cur, dying>>
    BY Zenon, <1>10 DEF pop_received
  <2>5. QED  BY Zenon, <2>1, <2>2, <2>3, <2>4 DEF Quiet
<1>11. CASE cancel_deadline(w)
  <2>1. WordsQuiet
    BY Zenon, <1>11, <1>a DEF cancel_deadline
  <2>2. CellsQuiet
    BY Zenon, <1>11, <1>b, <1>c, <1>f DEF cancel_deadline
  <2>3. ReapsQuiet
    BY Zenon, <1>11, <1>d, <1>e DEF cancel_deadline
  <2>4. registry'.free = registry.free /\ UNCHANGED <<published, cur, dying>>
    BY Zenon, <1>11 DEF cancel_deadline
  <2>5. QED  BY Zenon, <2>1, <2>2, <2>3, <2>4 DEF Quiet
<1>12. CASE call_send(w)
  <2>1. WordsQuiet
    BY Zenon, <1>12, <1>p, DeliverQuiet DEF call_send
  <2>2. CellsQuiet
    <3>1. PICK d \in now .. MaxNow : set_frame(w, [frame(w) EXCEPT !.deadline = d])
      BY Zenon, <1>12 DEF call_send
    <3>2. [frame(w) EXCEPT !.deadline = d].at = frame(w).at
      BY <1>p DEF Frames
    <3>3. QED  BY Zenon, <3>1, <3>2, <1>x
  <2>3. ReapsQuiet
    BY Zenon, <1>12, <1>d, <1>e DEF call_send
  <2>4. registry'.free = registry.free /\ UNCHANGED <<published, cur, dying>>
    BY Zenon, <1>12 DEF call_send
  <2>5. QED  BY Zenon, <2>1, <2>2, <2>3, <2>4 DEF Quiet
<1>13. CASE koja_rt_call_receive(w)
  <2>1. WordsQuiet
    BY Zenon, <1>13, <1>a DEF koja_rt_call_receive
  <2>2. CellsQuiet
    BY Zenon, <1>13, <1>b, <1>c, <1>f DEF koja_rt_call_receive
  <2>3. ReapsQuiet
    BY Zenon, <1>13, <1>d, <1>e DEF koja_rt_call_receive
  <2>4. registry'.free = registry.free /\ UNCHANGED <<published, cur, dying>>
    BY Zenon, <1>13 DEF koja_rt_call_receive
  <2>5. QED  BY Zenon, <2>1, <2>2, <2>3, <2>4 DEF Quiet
<1>14. CASE clear_awaiting_reply(w)
  <2>1. WordsQuiet
    BY Zenon, <1>14, <1>a DEF clear_awaiting_reply
  <2>2. CellsQuiet
    BY Zenon, <1>14, <1>b, <1>c, <1>f DEF clear_awaiting_reply
  <2>3. ReapsQuiet
    BY Zenon, <1>14, <1>d, <1>e DEF clear_awaiting_reply
  <2>4. registry'.free = registry.free /\ UNCHANGED <<published, cur, dying>>
    BY Zenon, <1>14 DEF clear_awaiting_reply
  <2>5. QED  BY Zenon, <2>1, <2>2, <2>3, <2>4 DEF Quiet
<1>15. CASE ensure_call_waiter(w)
  <2>1. WordsQuiet
    BY Zenon, <1>15, <1>a DEF ensure_call_waiter
  <2>2. CellsQuiet
    BY Zenon, <1>15, <1>b, <1>c, <1>f DEF ensure_call_waiter
  <2>3. ReapsQuiet
    BY Zenon, <1>15, <1>d, <1>e DEF ensure_call_waiter
  <2>4. registry'.free = registry.free /\ UNCHANGED <<published, cur, dying>>
    BY Zenon, <1>15, <1>g DEF ensure_call_waiter
  <2>5. QED  BY Zenon, <2>1, <2>2, <2>3, <2>4 DEF Quiet
<1>16. CASE take_reply_or_park(w)
  <2>1. WordsQuiet
    <3>1. \/ word' = word
          \/ can_park(cur[w]) /\ park(cur[w], "Blocked", "Reply", frame(w).deadline)
      BY Zenon, <1>16 DEF take_reply_or_park
    <3>2. QED  BY Zenon, <1>a, <1>p, <3>1, ParkQuiet DEF LiveStates
  <2>2. CellsQuiet
    BY Zenon, <1>16, <1>b, <1>c, <1>f DEF take_reply_or_park
  <2>3. ReapsQuiet
    BY Zenon, <1>16, <1>d, <1>e DEF take_reply_or_park
  <2>4. registry'.free = registry.free /\ UNCHANGED <<published, cur, dying>>
    BY Zenon, <1>16 DEF take_reply_or_park
  <2>5. QED  BY Zenon, <2>1, <2>2, <2>3, <2>4 DEF Quiet
<1>17. CASE evict_call_waiter(w)
  <2>1. WordsQuiet
    BY Zenon, <1>17, <1>a DEF evict_call_waiter
  <2>2. CellsQuiet
    BY Zenon, <1>17, <1>b, <1>c, <1>f DEF evict_call_waiter
  <2>3. ReapsQuiet
    BY Zenon, <1>17, <1>d, <1>e DEF evict_call_waiter
  <2>4. registry'.free = registry.free /\ UNCHANGED <<published, cur, dying>>
    BY Zenon, <1>17, <1>g DEF evict_call_waiter
  <2>5. QED  BY Zenon, <2>1, <2>2, <2>3, <2>4 DEF Quiet
<1>18. CASE set_crash_info(w)
  <2>1. WordsQuiet
    BY Zenon, <1>18, <1>a DEF set_crash_info
  <2>2. CellsQuiet
    BY Zenon, <1>18, <1>b, <1>c, <1>f DEF set_crash_info
  <2>3. ReapsQuiet
    BY Zenon, <1>18, <1>d, <1>e DEF set_crash_info
  <2>4. registry'.free = registry.free /\ UNCHANGED <<published, cur, dying>>
    BY Zenon, <1>18 DEF set_crash_info
  <2>5. QED  BY Zenon, <2>1, <2>2, <2>3, <2>4 DEF Quiet
<1>19. CASE monitor_snapshot(w)
  <2>1. WordsQuiet
    BY Zenon, <1>19, <1>a DEF monitor_snapshot
  <2>2. CellsQuiet
    BY Zenon, <1>19, <1>b, <1>c, <1>f DEF monitor_snapshot
  <2>3. ReapsQuiet
    BY Zenon, <1>19, <1>d, <1>e DEF monitor_snapshot
  <2>4. registry'.free = registry.free /\ UNCHANGED <<published, cur, dying>>
    BY Zenon, <1>19 DEF monitor_snapshot
  <2>5. QED  BY Zenon, <2>1, <2>2, <2>3, <2>4 DEF Quiet
<1>20. CASE monitor_stage(w)
  <2>1. WordsQuiet
    BY Zenon, <1>20, <1>a DEF monitor_stage
  <2>2. CellsQuiet
    BY Zenon, <1>20, <1>b, <1>c, <1>f DEF monitor_stage
  <2>3. ReapsQuiet
    BY Zenon, <1>20, <1>d, <1>e DEF monitor_stage
  <2>4. registry'.free = registry.free /\ UNCHANGED <<published, cur, dying>>
    BY Zenon, <1>20, <1>g DEF monitor_stage
  <2>5. QED  BY Zenon, <2>1, <2>2, <2>3, <2>4 DEF Quiet
<1>21. CASE register(w)
  <2>1. WordsQuiet
    BY Zenon, <1>21, <1>a DEF register
  <2>2. CellsQuiet
    BY Zenon, <1>21, <1>b, <1>c, <1>f DEF register
  <2>3. ReapsQuiet
    BY Zenon, <1>21, <1>d, <1>e DEF register
  <2>4. registry'.free = registry.free /\ UNCHANGED <<published, cur, dying>>
    BY Zenon, <1>21 DEF register
  <2>5. QED  BY Zenon, <2>1, <2>2, <2>3, <2>4 DEF Quiet
<1>22. CASE deregister(w)
  <2>1. WordsQuiet
    BY Zenon, <1>22, <1>a DEF deregister
  <2>2. CellsQuiet
    BY Zenon, <1>22, <1>b, <1>c, <1>f DEF deregister
  <2>3. ReapsQuiet
    BY Zenon, <1>22, <1>d, <1>e DEF deregister
  <2>4. registry'.free = registry.free /\ UNCHANGED <<published, cur, dying>>
    BY Zenon, <1>22 DEF deregister
  <2>5. QED  BY Zenon, <2>1, <2>2, <2>3, <2>4 DEF Quiet
<1>23. QED
  BY Zenon, <1>1, <1>2, <1>3, <1>4, <1>5, <1>6, <1>7, <1>8, <1>9, <1>10, <1>11, <1>12, <1>13, <1>14, <1>15, <1>16, <1>17, <1>18, <1>19, <1>20, <1>21, <1>22

\* The quiet intrinsics.
LEMMA IntrinsicQuiet ==
    ASSUME TypeOK, NEW w \in Workers,
           \/ koja_rt_yield_check(w) \/ koja_rt_spawn(w) \/ koja_rt_process_exit(w) \/ crash(w)
           \/ koja_rt_send(w) \/ koja_rt_receive(w) \/ koja_rt_receive_timeout(w) \/ koja_rt_call_token(w)
           \/ koja_rt_reply(w) \/ koja_rt_monitor(w) \/ koja_rt_demonitor(w) \/ io_block(w)
    PROVE  Quiet
<1> USE DEF tableVars, slotVars, counters, timerVars, ioVars, callVars, flagVars, Calls
<1>a. word' = word => WordsQuiet
  BY Zenon DEF WordsQuiet
<1>b. execution' = execution => CellsQuiet
  BY Zenon DEF CellsQuiet
<1>c. ASSUME NEW f, f.at # "none", set_frame(w, f) PROVE CellsQuiet
  BY Zenon, <1>c DEF CellsQuiet, set_frame, TypeOK, TableTypeOK
<1>d. ASSUME NEW l, goto(w, l), l \notin {"reclaim", "free"}, pc[w] \notin {"reclaim", "free"},
             \A v \in Workers : v # w => reap'[v] = reap[v]
      PROVE  ReapsQuiet
  BY Zenon, <1>d DEF ReapsQuiet, goto, TypeOK, DriverTypeOK
<1>e. pc' = pc /\ reap' = reap => ReapsQuiet
  BY Zenon DEF ReapsQuiet
<1>x. ASSUME NEW f, f.at = frame(w).at, set_frame(w, f) PROVE CellsQuiet
  BY Zenon, <1>x DEF CellsQuiet, set_frame, frame, me, TypeOK, TableTypeOK
<1>f. Body.at = "body"
  BY DEF Body
<1>p. /\ cur[w] \in AnyPid /\ Slot(cur[w]) \in Slots /\ main_pid \in AnyPid
      /\ Known \subseteq AnyPid /\ hand[w] \in Hands /\ frame(w) \in Frames
      /\ frame(w).callee \in AnyPid /\ registry \in Registries
  BY Zenon, PidTypes DEF TypeOK, TableTypeOK, DriverTypeOK, Known, frame, me, Frames
<1>h. hand[w].back \notin {"reclaim", "free"}
  BY Zenon, <1>p DEF Hands
<1>g. ASSUME NEW x
      PROVE  /\ [registry EXCEPT !.mode = x].free = registry.free
             /\ [registry EXCEPT !.pending_kills = x].free = registry.free
             /\ [registry EXCEPT !.pending_exit_notices = x].free = registry.free
             /\ [registry EXCEPT !.pending_call_downs = x].free = registry.free
             /\ [registry EXCEPT !.call_waiters = x].free = registry.free
             /\ [registry EXCEPT !.monitors = x].free = registry.free
             /\ \A y : [registry EXCEPT !.next_monitor_token = y, !.monitors = x].free = registry.free
  BY <1>p DEF Registries
<1>1. CASE koja_rt_yield_check(w)
  <2>1. WordsQuiet
    BY Zenon, <1>1, <1>a DEF koja_rt_yield_check
  <2>2. CellsQuiet
    BY Zenon, <1>1, <1>b, <1>c, <1>f DEF koja_rt_yield_check
  <2>3. ReapsQuiet
    BY Zenon, <1>1, <1>d, <1>e DEF koja_rt_yield_check
  <2>4. registry'.free = registry.free /\ UNCHANGED <<published, cur, dying>>
    BY Zenon, <1>1 DEF koja_rt_yield_check
  <2>5. QED  BY Zenon, <2>1, <2>2, <2>3, <2>4 DEF Quiet
<1>2. CASE koja_rt_spawn(w)
  <2>1. WordsQuiet
    BY Zenon, <1>2, <1>a DEF koja_rt_spawn
  <2>2. CellsQuiet
    BY Zenon, <1>2, <1>b, <1>c, <1>f DEF koja_rt_spawn
  <2>3. ReapsQuiet
    BY Zenon, <1>2, <1>d, <1>e DEF koja_rt_spawn
  <2>4. registry'.free = registry.free /\ UNCHANGED <<published, cur, dying>>
    BY Zenon, <1>2 DEF koja_rt_spawn
  <2>5. QED  BY Zenon, <2>1, <2>2, <2>3, <2>4 DEF Quiet
<1>3. CASE koja_rt_process_exit(w)
  <2>1. WordsQuiet
    BY Zenon, <1>3, <1>a DEF koja_rt_process_exit
  <2>2. CellsQuiet
    BY Zenon, <1>3, <1>b, <1>c, <1>f DEF koja_rt_process_exit
  <2>3. ReapsQuiet
    BY Zenon, <1>3, <1>d, <1>e DEF koja_rt_process_exit
  <2>4. registry'.free = registry.free /\ UNCHANGED <<published, cur, dying>>
    BY Zenon, <1>3 DEF koja_rt_process_exit
  <2>5. QED  BY Zenon, <2>1, <2>2, <2>3, <2>4 DEF Quiet
<1>4. CASE crash(w)
  <2>1. WordsQuiet
    BY Zenon, <1>4, <1>a DEF crash
  <2>2. CellsQuiet
    BY Zenon, <1>4, <1>b, <1>c, <1>f DEF crash
  <2>3. ReapsQuiet
    BY Zenon, <1>4, <1>d, <1>e DEF crash
  <2>4. registry'.free = registry.free /\ UNCHANGED <<published, cur, dying>>
    BY Zenon, <1>4 DEF crash
  <2>5. QED  BY Zenon, <2>1, <2>2, <2>3, <2>4 DEF Quiet
<1>5. CASE koja_rt_send(w)
  <2>1. WordsQuiet
    BY Zenon, <1>5, <1>p, DeliverQuiet DEF koja_rt_send
  <2>2. CellsQuiet
    BY Zenon, <1>5, <1>b, <1>c, <1>f DEF koja_rt_send
  <2>3. ReapsQuiet
    BY Zenon, <1>5, <1>d, <1>e DEF koja_rt_send
  <2>4. registry'.free = registry.free /\ UNCHANGED <<published, cur, dying>>
    BY Zenon, <1>5 DEF koja_rt_send
  <2>5. QED  BY Zenon, <2>1, <2>2, <2>3, <2>4 DEF Quiet
<1>6. CASE koja_rt_receive(w)
  <2>1. WordsQuiet
    <3>1. word' = word \/ \E d : can_park(cur[w]) /\ park(cur[w], "Blocked", "Receive", d)
      BY Zenon, <1>6 DEF koja_rt_receive, receive_or_park
    <3>2. QED  BY Zenon, <1>a, <1>p, <3>1, ParkQuiet DEF LiveStates
  <2>2. CellsQuiet
    <3> DEFINE f == [Body EXCEPT !.at = "receive"]
    <3>1. execution' = execution \/ set_frame(w, f)
      BY Zenon, <1>6 DEF koja_rt_receive, receive_or_park
    <3>2. f.at # "none"
      BY DEF Body
    <3>3. QED  BY Zenon, <1>b, <1>c, <3>1, <3>2
  <2>3. ReapsQuiet
    BY Zenon, <1>6, <1>d, <1>e DEF koja_rt_receive, receive_or_park
  <2>4. registry'.free = registry.free /\ UNCHANGED <<published, cur, dying>>
    BY Zenon, <1>6 DEF koja_rt_receive, receive_or_park
  <2>5. QED  BY Zenon, <2>1, <2>2, <2>3, <2>4 DEF Quiet
<1>7. CASE koja_rt_receive_timeout(w)
  <2>1. WordsQuiet
    <3>1. word' = word \/ \E d : can_park(cur[w]) /\ park(cur[w], "Blocked", "Receive", d)
      BY Zenon, <1>7 DEF koja_rt_receive_timeout, receive_or_park
    <3>2. QED  BY Zenon, <1>a, <1>p, <3>1, ParkQuiet DEF LiveStates
  <2>2. CellsQuiet
    <3>1. CASE execution' = execution
      BY <3>1, <1>b
    <3>2. ASSUME NEW d \in now .. MaxNow,
                 receive_or_park(w, [Body EXCEPT !.at = "receive_timeout", !.deadline = d], "arm")
          PROVE  CellsQuiet
      <4> DEFINE f == [Body EXCEPT !.at = "receive_timeout", !.deadline = d]
      <4>1. execution' = execution \/ set_frame(w, f)
        BY Zenon, <3>2 DEF receive_or_park
      <4>2. f.at # "none"
        BY DEF Body
      <4>3. QED  BY Zenon, <1>b, <1>c, <4>1, <4>2
    <3>3. QED  BY Zenon, <1>7, <3>1, <3>2 DEF koja_rt_receive_timeout
  <2>3. ReapsQuiet
    BY Zenon, <1>7, <1>d, <1>e DEF koja_rt_receive_timeout, receive_or_park
  <2>4. registry'.free = registry.free /\ UNCHANGED <<published, cur, dying>>
    BY Zenon, <1>7 DEF koja_rt_receive_timeout, receive_or_park
  <2>5. QED  BY Zenon, <2>1, <2>2, <2>3, <2>4 DEF Quiet
<1>8. CASE koja_rt_call_token(w)
  <2>1. WordsQuiet
    BY Zenon, <1>8, <1>a DEF koja_rt_call_token
  <2>2. CellsQuiet
    <3>1. PICK p \in Known :
            set_frame(w, [Body EXCEPT !.at = "call", !.token = call_token + 1, !.callee = p])
      BY Zenon, <1>8 DEF koja_rt_call_token
    <3> DEFINE f == [Body EXCEPT !.at = "call", !.token = call_token + 1, !.callee = p]
    <3>2. f.at # "none"
      BY DEF Body
    <3>3. QED  BY Zenon, <3>1, <3>2, <1>c
  <2>3. ReapsQuiet
    BY Zenon, <1>8, <1>d, <1>e DEF koja_rt_call_token
  <2>4. registry'.free = registry.free /\ UNCHANGED <<published, cur, dying>>
    BY Zenon, <1>8 DEF koja_rt_call_token
  <2>5. QED  BY Zenon, <2>1, <2>2, <2>3, <2>4 DEF Quiet
<1>9. CASE koja_rt_reply(w)
  <2>1. WordsQuiet
    <3>1. PICK r \in replies : deliver_reply(r[1], r[2])
      BY Zenon, <1>9 DEF koja_rt_reply
    <3>2. r[1] \in AnyPid
      BY DEF TypeOK, DriverTypeOK
    <3>3. CASE accepts_reply(r[1], r[2])
      BY Zenon, <3>1, <3>2, <3>3, DeliverQuiet DEF deliver_reply
    <3>4. CASE ~accepts_reply(r[1], r[2])
      BY Zenon, <1>a, <3>1, <3>4 DEF deliver_reply
    <3>5. QED  BY <3>3, <3>4
  <2>2. CellsQuiet
    BY Zenon, <1>9, <1>b, <1>c, <1>f DEF koja_rt_reply
  <2>3. ReapsQuiet
    BY Zenon, <1>9, <1>d, <1>e DEF koja_rt_reply
  <2>4. registry'.free = registry.free /\ UNCHANGED <<published, cur, dying>>
    BY Zenon, <1>9 DEF koja_rt_reply
  <2>5. QED  BY Zenon, <2>1, <2>2, <2>3, <2>4 DEF Quiet
<1>10. CASE koja_rt_monitor(w)
  <2>1. WordsQuiet
    BY Zenon, <1>10, <1>a DEF koja_rt_monitor
  <2>2. CellsQuiet
    BY Zenon, <1>10, <1>b, <1>c, <1>f DEF koja_rt_monitor
  <2>3. ReapsQuiet
    BY Zenon, <1>10, <1>d, <1>e DEF koja_rt_monitor
  <2>4. registry'.free = registry.free /\ UNCHANGED <<published, cur, dying>>
    <3>1. PICK y, x : registry' = [registry EXCEPT !.next_monitor_token = y, !.monitors = x]
      BY Zenon, <1>10 DEF koja_rt_monitor
    <3>2. QED  BY Zenon, <1>10, <1>g, <3>1 DEF koja_rt_monitor
  <2>5. QED  BY Zenon, <2>1, <2>2, <2>3, <2>4 DEF Quiet
<1>11. CASE koja_rt_demonitor(w)
  <2>1. WordsQuiet
    BY Zenon, <1>11, <1>a DEF koja_rt_demonitor
  <2>2. CellsQuiet
    BY Zenon, <1>11, <1>b, <1>c, <1>f DEF koja_rt_demonitor
  <2>3. ReapsQuiet
    BY Zenon, <1>11, <1>d, <1>e DEF koja_rt_demonitor
  <2>4. registry'.free = registry.free /\ UNCHANGED <<published, cur, dying>>
    BY Zenon, <1>11, <1>g DEF koja_rt_demonitor
  <2>5. QED  BY Zenon, <2>1, <2>2, <2>3, <2>4 DEF Quiet
<1>12. CASE io_block(w)
  <2>1. WordsQuiet
    <3>1. PICK d \in {0} \cup now .. MaxNow :
            word' = word \/ (can_park(cur[w]) /\ park(cur[w], "WaitingIO", "Receive", d))
      BY Zenon, <1>12 DEF io_block
    <3>2. QED  BY Zenon, <1>a, <1>p, <3>1, ParkQuiet DEF LiveStates
  <2>2. CellsQuiet
    <3>1. PICK d \in {0} \cup now .. MaxNow :
            execution' = execution \/ set_frame(w, [Body EXCEPT !.at = "io", !.deadline = d])
      BY Zenon, <1>12 DEF io_block
    <3> DEFINE f == [Body EXCEPT !.at = "io", !.deadline = d]
    <3>2. f.at # "none"
      BY DEF Body
    <3>3. QED  BY Zenon, <1>b, <1>c, <3>1, <3>2
  <2>3. ReapsQuiet
    BY Zenon, <1>12, <1>d, <1>e DEF io_block
  <2>4. registry'.free = registry.free /\ UNCHANGED <<published, cur, dying>>
    BY Zenon, <1>12 DEF io_block
  <2>5. QED  BY Zenon, <2>1, <2>2, <2>3, <2>4 DEF Quiet
<1>13. QED
  BY Zenon, <1>1, <1>2, <1>3, <1>4, <1>5, <1>6, <1>7, <1>8, <1>9, <1>10, <1>11, <1>12
==============================================================================
