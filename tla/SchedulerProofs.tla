--------------------------- MODULE SchedulerProofs ---------------------------
(***************************************************************************)
(* What the custody of the slots (CustodyProofs) and the promises of the   *)
(* wakeups (WakeupProofs) give together: a process that can run is queued, *)
(* one that is parked has nothing to wake for, one that is resumed in      *)
(* koja_rt_receive has mail, and a call that is over gets no reply.        *)
(***************************************************************************)
EXTENDS SchedulerProperties, CustodyProofs, WakeupProofs

\* What the wakeup theorems rest on: no step breaks what a slot promises to the
\* process in it and what a worker's label says of the process it owns.
LEMMA WakeInvariant == Spec => [](TypeOK /\ Custody /\ WakeInv)
<1>1. Init => WakeInv
  BY Zenon, WakeInit
<1>2. TypeOK /\ TypeOK' /\ Custody /\ WakeInv /\ [Next]_vars => WakeInv'
  BY Zenon, WakeStep
<1>3. QED  BY <1>1, <1>2, TypeCorrect, CustodyHolds, PTL DEF Spec

\* What WakeInv is for.
LEMMA WakeImplies ==
    ASSUME TypeOK, Custody, WakeInv
    PROVE  NoLostProcess /\ NoLostWakeup /\ ReceiveFindsMail
<1>1. NoLostProcess
  <2> SUFFICES ASSUME NEW p \in Pids, claimable(word[Slot(p)], Generation(p))
               PROVE  ready[p] > 0
    BY Zenon DEF NoLostProcess
  <2>1. PICK s \in Slots : s = Slot(p)
    BY Zenon, PidFields
  <2>2. word[s].generation = Generation(p) /\ claimable(word[s], word[s].generation)
    BY <2>1 DEF claimable
  <2>3. occupant(s) = p
    BY Zenon, <2>1, <2>2, PidFields DEF occupant
  <2>4. QED  BY Zenon, <2>2, <2>3 DEF WakeInv, SlotOK, QueueOK
<1>2. NoLostWakeup
  BY Zenon DEF NoLostWakeup, WakeInv, SlotOK, WakeOK
<1>3. ReceiveFindsMail
  <2> SUFFICES ASSUME NEW w \in Workers, pc[w] = "run", frame(w).at = "receive"
               PROVE  depth(mailbox(cur[w])) > 0
    BY Zenon DEF ReceiveFindsMail
  <2>1. "run" \in OwningLabels
    BY DEF OwningLabels, RunLabels
  <2>2. cur[w] # NoPid
    BY Zenon, <2>1 DEF Custody, LabelAgrees
  <2>3. mailbox(cur[w]) = hot[me(w)].mailbox
    BY Zenon DEF mailbox, me
  <2>4. pc[w] # "switch"
    OBVIOUS
  <2>5. QED  BY Zenon, <2>2, <2>3, <2>4 DEF WakeInv, RunOK
<1>4. QED  BY <1>1, <1>2, <1>3

\* No claimable process is forgotten: whatever the wakes, requeues and stale
\* entries, it has an entry in the run queue.
THEOREM NoLostProcessHolds == Spec => []NoLostProcess
<1>1. TypeOK /\ Custody /\ WakeInv => NoLostProcess
  BY Zenon, WakeImplies
<1>2. QED  BY <1>1, WakeInvariant, PTL

\* No wakeup is lost: no delivery slips between a receiver's empty check and its
\* park, and none leaves a parked receiver, caller or I/O waiter asleep.
THEOREM NoLostWakeupHolds == Spec => []NoLostWakeup
<1>1. TypeOK /\ Custody /\ WakeInv => NoLostWakeup
  BY Zenon, WakeImplies
<1>2. QED  BY <1>1, WakeInvariant, PTL

\* koja_rt_receive never returns empty-handed: only a delivery wakes a process
\* parked in it, and nobody else pops its mail.
THEOREM ReceiveFindsMailHolds == Spec => []ReceiveFindsMail
<1>1. TypeOK /\ Custody /\ WakeInv => ReceiveFindsMail
  BY Zenon, WakeImplies
<1>2. QED  BY <1>1, WakeInvariant, PTL

------------------------------------------------------------------------------
\* Call tokens: a caller awaits the token it minted last or none, no two callers
\* await one token, and none awaits a token it has given up.
TokenInv ==
    /\ \A s \in Slots : /\ hot[s].awaiting_reply <= call_token
                        /\ hot[s].awaiting_reply \notin given_up
    /\ \A t \in given_up : t # 0 /\ t <= call_token
    /\ \A s, r \in Slots :
           s # r /\ hot[s].awaiting_reply = hot[r].awaiting_reply => hot[s].awaiting_reply = 0

\* A wait for a reply goes on or is over.
Waits(s) == hot'[s].awaiting_reply \in {hot[s].awaiting_reply, 0}

\* A touched slot awaits what it did, or its process is gone.
LEMMA TouchedWaits ==
    ASSUME NEW s, Touched(s)
    PROVE  Waits(s)
BY Zenon DEF Touched, Kept, Pushed, Promoted, Killed, Vacated, Born, Settled, Waits

\* The types that token arithmetic needs.
LEMMA TokenTypes ==
    ASSUME TypeOK
    PROVE  call_token \in Nat /\ \A s \in Slots : hot[s].awaiting_reply \in Nat
<1>1. call_token \in Nat /\ hot \in [Slots -> HotStates]
  BY DEF TypeOK, TableTypeOK, DriverTypeOK
<1>2. QED  BY <1>1 DEF HotStates

\* A step after which every wait goes on or is over, and which gives up none.
LEMMA WaitsStep ==
    ASSUME TypeOK, TokenInv, \A s \in Slots : Waits(s),
           given_up' = given_up, call_token' = call_token
    PROVE  TokenInv'
<1>1. /\ call_token \in Nat /\ 0 <= call_token /\ 0 \notin given_up
  BY TokenTypes DEF TokenInv
<1>2. ASSUME NEW s \in Slots
      PROVE  hot'[s].awaiting_reply <= call_token /\ hot'[s].awaiting_reply \notin given_up
  BY Zenon, <1>1 DEF TokenInv, Waits
<1>3. ASSUME NEW s \in Slots, NEW r \in Slots, s # r,
             hot'[s].awaiting_reply = hot'[r].awaiting_reply
      PROVE  hot'[s].awaiting_reply = 0
  BY Zenon, <1>3 DEF TokenInv, Waits
<1>4. QED  BY Zenon, <1>2, <1>3 DEF TokenInv

\* A worker's process gives up the token it awaits, and awaits none.
LEMMA GivesUpStep ==
    ASSUME TypeOK, TokenInv, NEW t \in Slots, hot[t].awaiting_reply # 0,
           hot'[t].awaiting_reply = 0, \A s \in Slots : s # t => hot'[s] = hot[s],
           given_up' = given_up \cup {hot[t].awaiting_reply}, call_token' = call_token
    PROVE  TokenInv'
<1>1. /\ call_token \in Nat /\ 0 <= call_token /\ 0 \notin given_up
  BY TokenTypes DEF TokenInv
<1>2. ASSUME NEW s \in Slots
      PROVE  hot'[s].awaiting_reply <= call_token /\ hot'[s].awaiting_reply \notin given_up'
  <2>1. CASE s = t
    BY Zenon, <1>1, <2>1
  <2>2. CASE s # t
    BY Zenon, <2>2 DEF TokenInv
  <2>3. QED  BY <2>1, <2>2
<1>3. ASSUME NEW s \in Slots, NEW r \in Slots, s # r,
             hot'[s].awaiting_reply = hot'[r].awaiting_reply
      PROVE  hot'[s].awaiting_reply = 0
  BY Zenon, <1>3 DEF TokenInv
<1>4. \A x \in given_up' : x # 0 /\ x <= call_token
  BY Zenon DEF TokenInv
<1>5. QED  BY Zenon, <1>2, <1>3, <1>4 DEF TokenInv

\* A worker's process awaits a token nobody had.
LEMMA MintStep ==
    ASSUME TypeOK, TokenInv, NEW t \in Slots, hot'[t].awaiting_reply = call_token + 1,
           \A s \in Slots : s # t => hot'[s] = hot[s],
           given_up' = given_up, call_token' = call_token + 1
    PROVE  TokenInv'
<1>1. call_token \in Nat /\ \A s \in Slots : hot[s].awaiting_reply \in Nat
  BY Zenon, TokenTypes
<1>2. /\ \A s \in Slots : hot[s].awaiting_reply <= call_token
      /\ \A x \in given_up : x # 0 /\ x <= call_token
  BY Zenon DEF TokenInv
<1>3. call_token + 1 \notin given_up
  BY <1>1, <1>2
<1>4. ASSUME NEW s \in Slots, s # t
      PROVE  /\ hot'[s].awaiting_reply <= call_token + 1
             /\ hot'[s].awaiting_reply # call_token + 1
  <2>1. hot[s].awaiting_reply \in Nat /\ hot[s].awaiting_reply <= call_token
    BY Zenon, <1>1, <1>2
  <2>2. QED  BY <1>1, <1>4, <2>1
<1>5. ASSUME NEW s \in Slots
      PROVE  hot'[s].awaiting_reply <= call_token' /\ hot'[s].awaiting_reply \notin given_up'
  <2>1. CASE s = t
    BY <1>1, <1>3, <2>1
  <2>2. CASE s # t
    BY Zenon, <1>4, <2>2 DEF TokenInv
  <2>3. QED  BY <2>1, <2>2
<1>6. ASSUME NEW s \in Slots, NEW r \in Slots, s # r,
             hot'[s].awaiting_reply = hot'[r].awaiting_reply
      PROVE  hot'[s].awaiting_reply = 0
  <2>1. s # t /\ r # t
    BY Zenon, <1>4, <1>6
  <2>2. QED  BY Zenon, <1>6, <2>1 DEF TokenInv
<1>7. \A x \in given_up' : x # 0 /\ x <= call_token'
  <2>1. ASSUME NEW x \in given_up PROVE x # 0 /\ x <= call_token + 1
    BY <1>1, <1>2 DEF TypeOK, DriverTypeOK
  <2>2. QED  BY Zenon, <2>1
<1>8. QED  BY Zenon, <1>5, <1>6, <1>7 DEF TokenInv

\* The steps of a worker on its process that do not end a call or begin one.
LEMMA OwnWaits ==
    ASSUME TypeOK, Custody, NEW w \in Workers, Owning(w),
           ~clear_awaiting_reply(w), ~take_reply_or_park(w), ~koja_rt_call_token(w)
    PROVE  /\ \A s \in Slots : Waits(s)
           /\ given_up' = given_up /\ call_token' = call_token /\ accepted' = accepted
<1> USE DEF goto, set_frame, callVars
<1> DEFINE t == me(w)
<1>1. given_up' = given_up /\ call_token' = call_token /\ accepted' = accepted
  BY Zenon DEF Owning, try_claim, yield_running, after_switch, resume_receive,
     clear_deadline, pop_received, cancel_deadline, deregister, koja_rt_receive,
     koja_rt_receive_timeout, io_block
<1>2. t \in Slots /\ hot \in [Slots -> HotStates] /\ hot[t] \in HotStates
  BY Zenon, Owner DEF TypeOK, TableTypeOK, Custody
<1>3. ASSUME NEW h, hot' = [hot EXCEPT ![t] = h], h.awaiting_reply = hot[t].awaiting_reply
      PROVE  \A s \in Slots : Waits(s)
  <2>1. hot'[t] = h /\ \A s \in Slots : s # t => hot'[s] = hot[s]
    BY Zenon, <1>2, <1>3
  <2>2. QED  BY Zenon, <1>3, <2>1 DEF Waits
<1>4. hot' = hot => \A s \in Slots : Waits(s)
  BY Zenon DEF Waits
<1>5. ASSUME NEW x, NEW y, hot' = [hot EXCEPT ![t].deadline = x, ![t].waiting = y]
      PROVE  \A s \in Slots : Waits(s)
  <2>1. hot' = [hot EXCEPT ![t] = [hot[t] EXCEPT !.deadline = x, !.waiting = y]]
    BY Zenon, <1>2, <1>5 DEF HotStates
  <2>2. [hot[t] EXCEPT !.deadline = x, !.waiting = y].awaiting_reply = hot[t].awaiting_reply
    BY <1>2 DEF HotStates
  <2>3. QED  BY Zenon, <1>3, <2>1, <2>2
<1>6. ASSUME NEW h, hot' = [hot EXCEPT ![t] = h],
             \E x : h = [hot[t] EXCEPT !.deadline = x] \/ h = [hot[t] EXCEPT !.mailbox = x]
      PROVE  \A s \in Slots : Waits(s)
  <2>1. h.awaiting_reply = hot[t].awaiting_reply
    BY Zenon, <1>2, <1>6 DEF HotStates
  <2>2. QED  BY Zenon, <1>3, <1>6, <2>1
<1>7. ASSUME NEW to, NEW target, NEW d, park(cur[w], to, target, d)
      PROVE  \A s \in Slots : Waits(s)
  <2>1. \E x, y : hot' = [hot EXCEPT ![t].deadline = x, ![t].waiting = y]
    BY Zenon, <1>7 DEF park, me
  <2>2. QED  BY Zenon, <1>5, <2>1
<1>8. ASSUME pop(w) PROVE \A s \in Slots : Waits(s)
  BY Zenon, <1>6, <1>8 DEF pop
<1>9. ASSUME NEW f, NEW l, receive_or_park(w, f, l) PROVE \A s \in Slots : Waits(s)
  BY Zenon, <1>4, <1>7, <1>8, <1>9 DEF receive_or_park
<1>10. CASE clear_deadline(w)
  BY Zenon, <1>6, <1>10 DEF clear_deadline
<1>11. CASE \/ try_claim(w) \/ yield_running(w) \/ after_switch(w) \/ cancel_deadline(w)
            \/ deregister(w)
  <2>1. hot' = hot
    BY Zenon, <1>11 DEF try_claim, yield_running, after_switch, cancel_deadline, deregister
  <2>2. QED  BY Zenon, <1>1, <1>4, <2>1
<1>12. CASE resume_receive(w) \/ pop_received(w)
  BY Zenon, <1>4, <1>8, <1>12 DEF resume_receive, pop_received
<1>13. CASE koja_rt_receive(w) \/ koja_rt_receive_timeout(w)
  BY Zenon, <1>4, <1>8, <1>9, <1>13 DEF koja_rt_receive, koja_rt_receive_timeout
<1>14. CASE io_block(w)
  BY Zenon, <1>4, <1>7, <1>14 DEF io_block
<1>15. QED  BY Zenon, <1>1, <1>10, <1>11, <1>12, <1>13, <1>14 DEF Owning

\* The calls: a token is minted, awaited, answered or given up by the process
\* that awaits it.
LEMMA CallTokens ==
    ASSUME TypeOK, Custody, WakeInv, TokenInv, NEW w \in Workers,
           clear_awaiting_reply(w) \/ take_reply_or_park(w) \/ koja_rt_call_token(w)
    PROVE  TokenInv' /\ accepted' = accepted
<1> USE DEF goto, set_frame, callVars
<1> DEFINE t == me(w)
<1>1. accepted' = accepted
  BY Zenon DEF clear_awaiting_reply, take_reply_or_park, koja_rt_call_token
<1>2. t \in Slots /\ hot \in [Slots -> HotStates] /\ hot[t] \in HotStates
  BY Zenon, Owner DEF TypeOK, TableTypeOK, Custody
<1>3. ASSUME NEW h, hot' = [hot EXCEPT ![t] = h]
      PROVE  hot'[t] = h /\ \A s \in Slots : s # t => hot'[s] = hot[s]
  BY Zenon, <1>2, <1>3
\* The token of the frame is the one awaited.
<1>4. ASSUME pc[w] \in CallLabels
      PROVE  frame(w).token = hot[t].awaiting_reply /\ hot[t].awaiting_reply # 0
  <2>1. pc[w] \in RunLabels /\ pc[w] \notin {"call_evict", "cancel"}
    BY <1>4 DEF CallLabels, RunLabels
  <2>2. cur[w] # NoPid
    BY Zenon, <2>1, OwnFacts
  <2>3. QED  BY Zenon, <1>4, <2>1, <2>2 DEF WakeInv, RunOK
<1>5. CASE clear_awaiting_reply(w)
  <2> DEFINE h == [hot[t] EXCEPT !.awaiting_reply = 0]
  <2>1. /\ hot' = [hot EXCEPT ![t] = h] /\ pc[w] = "call_clear"
        /\ given_up' = given_up \cup {frame(w).token} /\ call_token' = call_token
    BY Zenon, <1>5 DEF clear_awaiting_reply
  <2>2. h.awaiting_reply = 0
    BY <1>2 DEF HotStates
  <2>3. frame(w).token = hot[t].awaiting_reply /\ hot[t].awaiting_reply # 0
    BY <1>4, <2>1 DEF CallLabels
  <2> HIDE DEF h
  <2>4. QED  BY Zenon, <1>1, <1>2, <1>3, <2>1, <2>2, <2>3, GivesUpStep
<1>6. CASE koja_rt_call_token(w)
  <2> DEFINE h == [hot[t] EXCEPT !.awaiting_reply = call_token + 1]
  <2>1. /\ hot' = [hot EXCEPT ![t] = h] /\ given_up' = given_up /\ call_token' = call_token + 1
    BY Zenon, <1>6 DEF koja_rt_call_token
  <2>2. h.awaiting_reply = call_token + 1
    BY <1>2 DEF HotStates
  <2> HIDE DEF h
  <2>3. QED  BY Zenon, <1>1, <1>2, <1>3, <2>1, <2>2, MintStep
<1>7. CASE take_reply_or_park(w)
  <2>1. pc[w] = "call_take" /\ call_token' = call_token
    BY Zenon, <1>7 DEF take_reply_or_park
  <2>2. frame(w).token = hot[t].awaiting_reply /\ hot[t].awaiting_reply # 0
    BY <1>4, <2>1 DEF CallLabels
  <2>3. CASE has_reply(mailbox(cur[w]))
    <3> DEFINE m == mailbox(cur[w]).reply.token = frame(w).token
               h == [hot[t] EXCEPT !.mailbox = after_take(@),
                         !.awaiting_reply = IF m THEN 0 ELSE @,
                         !.deadline = IF m THEN 0 ELSE @]
    <3>1. /\ hot' = [hot EXCEPT ![t].mailbox = after_take(@),
                                ![t].awaiting_reply = IF m THEN 0 ELSE @,
                                ![t].deadline = IF m THEN 0 ELSE @]
          /\ given_up' = given_up
      BY Zenon, <1>7, <2>3 DEF take_reply_or_park
    <3>2. hot' = [hot EXCEPT ![t] = h]
      BY Zenon, <1>2, <3>1 DEF HotStates
    <3>3. h.awaiting_reply \in {hot[t].awaiting_reply, 0}
      BY <1>2 DEF HotStates
    <3> HIDE DEF m, h
    <3>4. \A s \in Slots : Waits(s)
      BY Zenon, <1>3, <3>2, <3>3 DEF Waits
    <3>5. QED  BY Zenon, <1>1, <2>1, <3>1, <3>4, WaitsStep
  <2>4. CASE ~has_reply(mailbox(cur[w])) /\ ~is_alive(frame(w).callee)
    <3> DEFINE h == [hot[t] EXCEPT !.awaiting_reply = 0, !.deadline = 0]
    <3>1. /\ hot' = [hot EXCEPT ![t].awaiting_reply = 0, ![t].deadline = 0]
          /\ given_up' = given_up \cup {frame(w).token}
      BY Zenon, <1>7, <2>4 DEF take_reply_or_park
    <3>2. hot' = [hot EXCEPT ![t] = h]
      BY Zenon, <1>2, <3>1 DEF HotStates
    <3>3. h.awaiting_reply = 0
      BY <1>2 DEF HotStates
    <3> HIDE DEF h
    <3>4. QED  BY Zenon, <1>1, <1>2, <1>3, <2>1, <2>2, <3>1, <3>2, <3>3, GivesUpStep
  <2>5. CASE ~has_reply(mailbox(cur[w])) /\ is_alive(frame(w).callee)
    <3>1. /\ given_up' = given_up
          /\ hot' = hot \/ park(cur[w], "Blocked", "Reply", frame(w).deadline)
      BY Zenon, <1>7, <2>5 DEF take_reply_or_park
    <3>2. hot' = hot => \A s \in Slots : Waits(s)
      BY Zenon DEF Waits
    <3>3. ASSUME park(cur[w], "Blocked", "Reply", frame(w).deadline)
          PROVE  \A s \in Slots : Waits(s)
      <4>1. PICK x, y : hot' = [hot EXCEPT ![t].deadline = x, ![t].waiting = y]
        BY Zenon, <3>3 DEF park, me
      <4> DEFINE h == [hot[t] EXCEPT !.deadline = x, !.waiting = y]
      <4>2. hot' = [hot EXCEPT ![t] = h]
        BY Zenon, <1>2, <4>1 DEF HotStates
      <4>3. h.awaiting_reply = hot[t].awaiting_reply
        BY <1>2 DEF HotStates
      <4> HIDE DEF h
      <4>4. QED  BY Zenon, <1>3, <4>2, <4>3 DEF Waits
    <3>4. QED  BY Zenon, <1>1, <2>1, <3>1, <3>2, <3>3, WaitsStep
  <2>6. QED  BY <2>3, <2>4, <2>5
<1>8. QED  BY <1>5, <1>6, <1>7

\* A reply is accepted only by a process that awaits its token.
Answers == \A t \in accepted' \ accepted : \E s \in Slots : hot[s].awaiting_reply = t

\* No other step ends a wait for a reply or accepts one.
LEMMA TouchTokens ==
    ASSUME TypeOK, NEW w \in Workers, Touching(w) \/ Passing(w)
    PROVE  given_up' = given_up /\ call_token' = call_token /\ Answers
<1> USE DEF callVars
<1>1. CASE koja_rt_reply(w)
  <2>1. PICK r \in replies :
            accepted' = IF accepts_reply(r[1], r[2]) THEN accepted \cup {r[2]} ELSE accepted
    BY Zenon, <1>1 DEF koja_rt_reply
  <2>2. Slot(r[1]) \in Slots
    BY PidFields DEF TypeOK, DriverTypeOK
  <2>3. Answers
    BY Zenon, <2>1, <2>2 DEF Answers, accepts_reply
  <2>4. QED  BY Zenon, <1>1, <2>3 DEF koja_rt_reply
<1>2. CASE Touching(w) /\ ~koja_rt_reply(w)
  <2>1. given_up' = given_up /\ call_token' = call_token /\ accepted' = accepted
    BY Zenon, <1>2 DEF Touching, send_lifecycle, promote_expired, deliver_exit_signals,
       wake_call_waiters, koja_rt_send, call_send, kill_staged, koja_rt_kill,
       mark_dead_if_alive, table_spawn, reclaim, koja_rt_process_exit, crash, set_crash_info
  <2>2. QED  BY Zenon, <2>1 DEF Answers
<1>3. CASE Passing(w)
  <2>1. given_up' = given_up /\ call_token' = call_token /\ accepted' = accepted
    BY Zenon, <1>3 DEF Passing, count_claim, free, check_shutdown, cancel_reaped,
       worker_loop, park_for_work, poll_signals, enter_draining, arm_grace, advance,
       grace_expired, live_pids, death_pass, take_pending_kills, take_exit_notices,
       take_call_downs, settled, arm_deadline, koja_rt_call_receive, ensure_call_waiter,
       evict_call_waiter, monitor_snapshot, monitor_stage, register, koja_rt_yield_check,
       koja_rt_spawn, koja_rt_monitor, koja_rt_demonitor
  <2>2. QED  BY Zenon, <2>1 DEF Answers
<1>4. QED  BY Zenon, <1>1, <1>2, <1>3

\* Every step keeps TokenInv, and accepts only a reply that is awaited.
LEMMA TokenStep ==
    ASSUME TypeOK, TypeOK', Custody, WakeInv, TokenInv, [Next]_vars
    PROVE  TokenInv' /\ Answers
<1>1. ASSUME NEW w \in Workers, Touching(w) \/ Passing(w) PROVE TokenInv' /\ Answers
  <2>1. \A s \in Slots : Waits(s)
    BY Zenon, <1>1, TouchingStep, PassingStep, TouchedWaits DEF WakeInv
  <2>2. QED  BY Zenon, <1>1, <2>1, TouchTokens, WaitsStep
<1>2. ASSUME NEW w \in Workers, Owning(w) PROVE TokenInv' /\ Answers
  <2>1. CASE clear_awaiting_reply(w) \/ take_reply_or_park(w) \/ koja_rt_call_token(w)
    BY Zenon, <2>1, CallTokens DEF Answers
  <2>2. CASE ~(clear_awaiting_reply(w) \/ take_reply_or_park(w) \/ koja_rt_call_token(w))
    <3>1. /\ \A s \in Slots : Waits(s)
          /\ given_up' = given_up /\ call_token' = call_token /\ accepted' = accepted
      BY Zenon, <1>2, <2>2, OwnWaits
    <3>2. QED  BY Zenon, <3>1, WaitsStep DEF Answers
  <2>3. QED  BY <2>1, <2>2
<1>3. ASSUME sigterm \/ Tick \/ reactor_poll \/ apply_wakers \/ UNCHANGED vars
      PROVE  TokenInv' /\ Answers
  <2>1. given_up' = given_up /\ call_token' = call_token /\ accepted' = accepted
    BY Zenon, <1>3 DEF sigterm, Tick, reactor_poll, apply_wakers, vars, callVars
  <2>2. \A s \in Slots : Waits(s)
    BY Zenon, <1>3, EnvironmentTouches, TouchedWaits
  <2>3. QED  BY Zenon, <2>1, <2>2, WaitsStep DEF Answers
<1>4. ASSUME NEW w \in Workers, Runtime(w) \/ Intrinsic(w) PROVE TokenInv' /\ Answers
  BY Zenon, <1>1, <1>2, <1>4, EveryStep
<1>5. QED  BY Zenon, <1>3, <1>4 DEF Next

\* No token has been minted.
LEMMA TokenInit ==
    ASSUME Init
    PROVE  TokenInv
BY DEF Init, TokenInv, FreshHot

\* A token that has been given up is awaited by nobody, so a reply to it bounces.
LEMMA TokenImplies ==
    ASSUME TokenInv, Answers
    PROVE  \A t \in accepted' \ accepted : t \notin given_up
BY Zenon DEF TokenInv, Answers

\* Expired is authoritative: once a caller has given up on a call, at its deadline
\* or because the callee is dead, no reply to it is answered Delivered.
THEOREM NoReplyAfterGivingUpHolds == Spec => NoReplyAfterGivingUp
<1>1. Init => TokenInv
  BY Zenon, TokenInit
<1>2. TypeOK /\ TypeOK' /\ Custody /\ WakeInv /\ TokenInv /\ [Next]_vars => TokenInv'
  BY Zenon, TokenStep
<1>3. TypeOK /\ TypeOK' /\ Custody /\ WakeInv /\ TokenInv /\ [Next]_vars
        => [\A t \in accepted' \ accepted : t \notin given_up]_vars
  BY Zenon, TokenStep, TokenImplies
<1>4. QED  BY <1>1, <1>2, <1>3, WakeInvariant, PTL DEF Spec, NoReplyAfterGivingUp
==============================================================================
