------------------------------- MODULE ReactorProofs -------------------------------
(***************************************************************************)
(* Proofs about the native reactor: for any number of processes,           *)
(* descriptors, files and calls, no closed number keeps a waker, and, while *)
(* no number is reused under a running call, nobody is stranded.           *)
(***************************************************************************)
EXTENDS NativeReactor, TLAPS

Labels == {"body", "syscall", "park", "insert", "arm", "take_back", "wake", "remove", "disarm",
           "close", "parked", "resumed"}

OnNumber == {"block", "watch", "unwatch"}  \* the calls that use a number

Wakers == {Nobody} \cup {Resume(p) : p \in Processes} \cup {Deliver(p) : p \in Processes}

ReactorTypeOK ==
    /\ file \in [Fds -> Nat] /\ opened \in Nat
    /\ polled \in [Fds -> {"absent", "armed", "disabled"}]
    /\ wakers \in [Fds -> Wakers]
    /\ events \subseteq Fds /\ fired \subseteq Wakers
    /\ pc \in [Processes -> Labels] /\ op \in [Processes -> OnNumber \cup {"none", "close"}]
    /\ fd \in [Processes -> Fds] /\ owned \in [Processes -> Nat]
    /\ state \in [Processes -> {"Running", "WaitingIO", "Runnable", "Dead"}]
    /\ mail \in [Processes -> BOOLEAN] /\ told \in [Processes -> BOOLEAN]
    /\ claim \in [Processes -> Wakers]

\* What a label says of the call in progress.
OpAgrees(p) ==
    /\ pc[p] = "body" => op[p] = "none"
    /\ pc[p] \in {"syscall", "park", "parked", "resumed"} => op[p] = "block"
    /\ pc[p] \in {"insert", "arm", "take_back"} => op[p] \in {"block", "watch"}
    /\ pc[p] \in {"remove", "disarm"} => op[p] \in {"block", "unwatch"}
    /\ pc[p] = "close" => op[p] = "close"
    /\ pc[p] = "wake" => op[p] \in {"block", "watch", "close"}

\* A registration of p on number n may still take its waker back.
registering(p, n) ==
    pc[p] \in {"arm", "take_back"} /\ fd[p] = n /\ wakers[n] = waker_of(p)

\* The waker of a closed number belongs to a registration in progress.
ClosedWakers ==
    \A n \in Fds : file[n] = 0 /\ wakers[n] # Nobody => \E p \in Processes : registering(p, n)

\* A number about to be closed, with `wakers' locked, has no waker.
LockedWakers == \A p \in Processes : pc[p] = "close" => wakers[fd[p]] = Nobody

ClosedInv == ReactorTypeOK /\ (\A p \in Processes : OpAgrees(p)) /\ ClosedWakers /\ LockedWakers

USE DEF kernel, tables, thread, procs, bounds

\* A waker names its process and its kind.
LEMMA WakersDiffer ==
    /\ \A p : Resume(p).kind = "Resume" /\ Resume(p).pid = p
    /\ \A p : Deliver(p).kind = "Deliver" /\ Deliver(p).pid = p
    /\ Nobody.kind = "None"
    /\ \A p : Resume(p) # Nobody /\ Deliver(p) # Nobody
    /\ \A p, q : Resume(p) # Deliver(q)
    /\ \A p, q : Resume(p) = Resume(q) \/ Deliver(p) = Deliver(q) => p = q
<1>1. /\ \A p : Resume(p).kind = "Resume" /\ Resume(p).pid = p
      /\ \A p : Deliver(p).kind = "Deliver" /\ Deliver(p).pid = p
      /\ Nobody.kind = "None"
  BY Zenon DEF Resume, Deliver, Nobody
<1>2. \A p : Resume(p) # Nobody /\ Deliver(p) # Nobody
  BY Zenon DEF Resume, Deliver, Nobody
<1>3. \A p, q : Resume(p) # Deliver(q)
  BY Zenon DEF Resume, Deliver
<1>4. \A p, q : Resume(p) = Resume(q) \/ Deliver(p) = Deliver(q) => p = q
  BY Zenon DEF Resume, Deliver
<1> QED  BY Zenon, <1>1, <1>2, <1>3, <1>4

\* What is inserted into the map or taken out of it is a waker.
LEMMA WakerTypes ==
    Nobody \in Wakers /\ \A p \in Processes : waker_of(p) \in Wakers
BY DEF Wakers, waker_of

\* Where a registration goes on.
LEMMA ResumesAt ==
    ASSUME ReactorTypeOK, NEW p \in Processes, resumes_at(p)
    PROVE  /\ pc' \in [Processes -> Labels] /\ op' \in [Processes -> OnNumber \cup {"none", "close"}]
           /\ \A q \in Processes \ {p} : pc'[q] = pc[q] /\ op'[q] = op[q]
           /\ op[p] = "block" => op'[p] = "block" /\ pc'[p] \in {"resumed", "parked"}
           /\ op[p] # "block" => op'[p] = "none" /\ pc'[p] = "body"
BY DEF ReactorTypeOK, Labels, OnNumber, resumes_at, returns, go

\* What carrying out a waker changes, and for whom.
LEMMA CarryOut ==
    ASSUME ReactorTypeOK, NEW w \in Wakers, carry_out(w)
    PROVE  /\ state' \in [Processes -> {"Running", "WaitingIO", "Runnable", "Dead"}]
           /\ told' \in [Processes -> BOOLEAN]
           /\ \A p \in Processes : state'[p] = "WaitingIO" => state[p] = "WaitingIO" /\ w # Resume(p)
           /\ \A p \in Processes : ~told'[p] => ~told[p] /\ w # Deliver(p)
<1>1. CASE w.kind = "Resume" /\ promote_io_waiter(w.pid) /\ UNCHANGED told
  <2>1. PICK q \in Processes : w = Resume(q)
    BY Zenon, <1>1, WakersDiffer DEF Wakers
  <2>0. w.pid = q
    BY Zenon, <2>1, WakersDiffer
  <2>2. state' = [state EXCEPT ![q] = IF @ = "WaitingIO" THEN "Runnable" ELSE @]
    BY Zenon, <1>1, <2>0 DEF promote_io_waiter
  <2>3. /\ state' \in [Processes -> {"Running", "WaitingIO", "Runnable", "Dead"}]
        /\ \A p \in Processes : state'[p] = "WaitingIO" => state[p] = "WaitingIO" /\ p # q
    BY Zenon, <2>2 DEF ReactorTypeOK
  <2>4. told' \in [Processes -> BOOLEAN]
    BY Zenon, <1>1 DEF ReactorTypeOK
  <2> QED  BY Zenon, <1>1, <2>1, <2>3, <2>4, WakersDiffer
<1>2. CASE w.kind = "Deliver" /\ told' = [told EXCEPT ![w.pid] = TRUE] /\ UNCHANGED state
  <2>1. PICK q \in Processes : w = Deliver(q)
    BY Zenon, <1>2, WakersDiffer DEF Wakers
  <2>2. told' = [told EXCEPT ![q] = TRUE]
    BY Zenon, <1>2, <2>1, WakersDiffer
  <2>3. /\ told' \in [Processes -> BOOLEAN]
        /\ \A p \in Processes : ~told'[p] => ~told[p] /\ p # q
    BY Zenon, <2>2 DEF ReactorTypeOK
  <2>4. state' \in [Processes -> {"Running", "WaitingIO", "Runnable", "Dead"}]
    BY Zenon, <1>2 DEF ReactorTypeOK
  <2> QED  BY Zenon, <1>2, <2>1, <2>3, <2>4, WakersDiffer
<1> QED  BY Zenon, <1>1, <1>2 DEF carry_out

\* Types are kept.
LEMMA TypeStep ==
    ASSUME ReactorTypeOK, [Next]_vars
    PROVE  ReactorTypeOK'
<1>1. ASSUME NEW p \in Processes, open(p) PROVE ReactorTypeOK'
  BY <1>1 DEF ReactorTypeOK, Labels, OnNumber, Wakers, waker_of, open, body, has_file
<1>2. ASSUME NEW p \in Processes, call(p) PROVE ReactorTypeOK'
  BY Zenon, <1>2 DEF ReactorTypeOK, Labels, OnNumber, Wakers, waker_of, call, begins, spends, body, go
<1>3. ASSUME NEW p \in Processes, koja_rt_watch_fd(p) PROVE ReactorTypeOK'
  BY Zenon, <1>3 DEF ReactorTypeOK, Labels, OnNumber, Wakers, waker_of, koja_rt_watch_fd, begins,
     spends, body, go
<1>4. ASSUME NEW p \in Processes, koja_rt_unwatch_fd(p) PROVE ReactorTypeOK'
  BY Zenon, <1>4 DEF ReactorTypeOK, Labels, OnNumber, Wakers, waker_of, koja_rt_unwatch_fd, begins,
     spends, body, go
<1>5. ASSUME NEW p \in Processes, takes_mail(p) PROVE ReactorTypeOK'
  BY Zenon, <1>5 DEF ReactorTypeOK, Labels, OnNumber, Wakers, waker_of, takes_mail, body
<1>6. ASSUME NEW p \in Processes, release_fd(p) PROVE ReactorTypeOK'
  BY <1>6 DEF ReactorTypeOK, Labels, OnNumber, Wakers, waker_of, release_fd, spends, body,
     disarmed, go, wakers_unlocked
<1>7. ASSUME NEW p \in Processes, insert(p) PROVE ReactorTypeOK'
  BY Zenon, <1>7 DEF ReactorTypeOK, Labels, OnNumber, Wakers, waker_of, insert, go, wakers_unlocked
<1>8. ASSUME NEW p \in Processes, arm(p) PROVE ReactorTypeOK'
  BY <1>8 DEF ReactorTypeOK, Labels, OnNumber, Wakers, waker_of, arm, arms, resumes_at, returns,
     go
<1>9. ASSUME NEW p \in Processes, take_back(p) PROVE ReactorTypeOK'
  <2>1. CASE wakers[fd[p]] = waker_of(p)
    BY <1>9, <2>1, WakerTypes DEF ReactorTypeOK, Labels, take_back, go
  <2>2. CASE wakers[fd[p]] # waker_of(p)
    BY Zenon, <1>9, <2>2, ResumesAt DEF ReactorTypeOK, take_back
  <2> QED  BY Zenon, <2>1, <2>2
<1>10. ASSUME NEW p \in Processes, wake(p) PROVE ReactorTypeOK'
  <2>1. claim[p] \in Wakers /\ carry_out(claim[p])
    BY Zenon, <1>10 DEF ReactorTypeOK, wake
  <2>2. /\ state' \in [Processes -> {"Running", "WaitingIO", "Runnable", "Dead"}]
        /\ told' \in [Processes -> BOOLEAN]
    BY Zenon, <2>1, CarryOut
  <2>3. /\ pc' \in [Processes -> Labels] /\ op' \in [Processes -> OnNumber \cup {"none", "close"}]
        /\ claim' \in [Processes -> Wakers]
    BY Zenon, <1>10, ResumesAt, WakerTypes DEF ReactorTypeOK, wake
  <2> QED  BY Zenon, <1>10, <2>2, <2>3 DEF ReactorTypeOK, wake
<1>11. ASSUME NEW p \in Processes, remove(p) PROVE ReactorTypeOK'
  BY Zenon, <1>11 DEF ReactorTypeOK, Labels, OnNumber, Wakers, waker_of, remove, go, wakers_unlocked
<1>12. ASSUME NEW p \in Processes, disarm(p) PROVE ReactorTypeOK'
  BY <1>12 DEF ReactorTypeOK, Labels, OnNumber, Wakers, waker_of, disarm, disarmed, resumes_at,
     returns, go
<1>13. ASSUME NEW p \in Processes, close_raw(p) PROVE ReactorTypeOK'
  BY <1>13 DEF ReactorTypeOK, Labels, OnNumber, Wakers, waker_of, close_raw, returns, go
<1>14. ASSUME NEW p \in Processes, syscall(p) PROVE ReactorTypeOK'
  BY <1>14 DEF ReactorTypeOK, Labels, OnNumber, Wakers, waker_of, syscall, returns, go
<1>15. ASSUME NEW p \in Processes, try_park_io(p) PROVE ReactorTypeOK'
  BY <1>15 DEF ReactorTypeOK, Labels, OnNumber, Wakers, waker_of, try_park_io, returns, go
<1>16. ASSUME NEW p \in Processes, resume(p) PROVE ReactorTypeOK'
  BY Zenon, <1>16 DEF ReactorTypeOK, Labels, OnNumber, Wakers, waker_of, resume, go
<1>17. ASSUME NEW p \in Processes, resumed(p) PROVE ReactorTypeOK'
  <2>1. CASE mail[p]
    BY Zenon, <1>17, <2>1 DEF ReactorTypeOK, Labels, resumed, returns, go
  <2>2. CASE ~ mail[p]
    BY Zenon, <1>17, <2>2 DEF ReactorTypeOK, Labels, resumed, go
  <2> QED  BY Zenon, <2>1, <2>2
<1>18. ASSUME NEW p \in Processes, promote_expired(p) PROVE ReactorTypeOK'
  BY Zenon, <1>18 DEF ReactorTypeOK, Labels, OnNumber, Wakers, waker_of, promote_expired,
     promote_io_waiter
<1>19. ASSUME NEW p \in Processes, deadline_passes(p) PROVE ReactorTypeOK'
  BY Zenon, <1>19 DEF ReactorTypeOK, Labels, OnNumber, Wakers, waker_of, deadline_passes
<1>20. ASSUME NEW p \in Processes, signal(p) PROVE ReactorTypeOK'
  BY Zenon, <1>20 DEF ReactorTypeOK, Labels, OnNumber, Wakers, waker_of, signal, spends,
     promote_io_waiter
<1>21. ASSUME NEW p \in Processes, kill(p) PROVE ReactorTypeOK'
  BY Zenon, <1>21 DEF ReactorTypeOK, Labels, OnNumber, Wakers, waker_of, kill, spends
<1>22. ASSUME poll_wait PROVE ReactorTypeOK'
  BY <1>22 DEF ReactorTypeOK, Labels, OnNumber, Wakers, waker_of, poll_wait, ready_entries
<1>23. ASSUME poll_collect PROVE ReactorTypeOK'
  BY <1>23 DEF ReactorTypeOK, Labels, OnNumber, Wakers, waker_of, poll_collect
<1>24. ASSUME apply_wakers PROVE ReactorTypeOK'
  <2>1. PICK w \in fired : carry_out(w) /\ fired' = fired \ {w}
    BY Zenon, <1>24 DEF apply_wakers
  <2>2. /\ state' \in [Processes -> {"Running", "WaitingIO", "Runnable", "Dead"}]
        /\ told' \in [Processes -> BOOLEAN]
    <3>1. w \in Wakers
      BY Zenon, <2>1 DEF ReactorTypeOK
    <3> QED  BY Zenon, <2>1, <3>1, CarryOut
  <2> QED  BY Zenon, <1>24, <2>1, <2>2 DEF ReactorTypeOK, apply_wakers
<1>25. ASSUME becomes_ready PROVE ReactorTypeOK'
  BY Zenon, <1>25 DEF ReactorTypeOK, Labels, OnNumber, Wakers, waker_of, becomes_ready
<1>26. ASSUME UNCHANGED vars PROVE ReactorTypeOK'
  BY Zenon, <1>26 DEF ReactorTypeOK, Labels, OnNumber, Wakers, waker_of, vars
<1> QED  BY Zenon, <1>1, <1>2, <1>3, <1>4, <1>5, <1>6, <1>7, <1>8, <1>9, <1>10, <1>11, <1>12, <1>13,
            <1>14, <1>15, <1>16, <1>17, <1>18, <1>19, <1>20, <1>21, <1>22, <1>23, <1>24, <1>25,
            <1>26 DEF Next, Calls, Runtime, Poll

\* Which actions change what.
Frames ==
    /\ wakers' = wakers \/ \E p \in Processes : insert(p) \/ take_back(p) \/ remove(p) \/ release_fd(p)
    /\ \/ polled' = polled \/ poll_wait
       \/ \E p \in Processes : arm(p) \/ disarm(p) \/ release_fd(p) \/ close_raw(p)
    /\ UNCHANGED <<file, opened, owned>> \/ \E p \in Processes : open(p) \/ close_raw(p)
    /\ UNCHANGED <<stage, events, fired>> \/ Poll
    /\ told' = told \/ apply_wakers \/ \E p \in Processes : koja_rt_watch_fd(p) \/ wake(p)
    /\ \/ state' = state \/ apply_wakers
       \/ \E p \in Processes : wake(p) \/ try_park_io(p) \/ resume(p) \/ promote_expired(p) \/ signal(p) \/ kill(p)

\* Every step keeps to the frames.
LEMMA FramesStep ==
    ASSUME TRUE, [Next]_vars
    PROVE  Frames
<1>1. ASSUME NEW p \in Processes, open(p) PROVE Frames
  BY Zenon, <1>1 DEF Frames, Poll, open, body, has_file
<1>2. ASSUME NEW p \in Processes, call(p) PROVE Frames
  BY Zenon, <1>2 DEF Frames, Poll, call, begins, spends, body, go
<1>3. ASSUME NEW p \in Processes, koja_rt_watch_fd(p) PROVE Frames
  BY Zenon, <1>3 DEF Frames, Poll, koja_rt_watch_fd, begins, spends, body, go
<1>4. ASSUME NEW p \in Processes, koja_rt_unwatch_fd(p) PROVE Frames
  BY Zenon, <1>4 DEF Frames, Poll, koja_rt_unwatch_fd, begins, spends, body, go
<1>5. ASSUME NEW p \in Processes, takes_mail(p) PROVE Frames
  BY Zenon, <1>5 DEF Frames, Poll, takes_mail, body
<1>6. ASSUME NEW p \in Processes, release_fd(p) PROVE Frames
  BY Zenon, <1>6 DEF Frames, Poll, release_fd, spends, body, disarmed, go, wakers_unlocked
<1>7. ASSUME NEW p \in Processes, insert(p) PROVE Frames
  BY Zenon, <1>7 DEF Frames, Poll, insert, go, wakers_unlocked
<1>8. ASSUME NEW p \in Processes, arm(p) PROVE Frames
  BY Zenon, <1>8 DEF Frames, Poll, arm, arms, resumes_at, returns, go
<1>9. ASSUME NEW p \in Processes, take_back(p) PROVE Frames
  BY Zenon, <1>9 DEF Frames, Poll, take_back, resumes_at, returns, go, wakers_unlocked
<1>10. ASSUME NEW p \in Processes, wake(p) PROVE Frames
  BY Zenon, <1>10 DEF Frames, Poll, wake, carry_out, promote_io_waiter, resumes_at, returns, go
<1>11. ASSUME NEW p \in Processes, remove(p) PROVE Frames
  BY Zenon, <1>11 DEF Frames, Poll, remove, go, wakers_unlocked
<1>12. ASSUME NEW p \in Processes, disarm(p) PROVE Frames
  BY Zenon, <1>12 DEF Frames, Poll, disarm, disarmed, resumes_at, returns, go
<1>13. ASSUME NEW p \in Processes, close_raw(p) PROVE Frames
  BY Zenon, <1>13 DEF Frames, Poll, close_raw, returns, go
<1>14. ASSUME NEW p \in Processes, syscall(p) PROVE Frames
  BY Zenon, <1>14 DEF Frames, Poll, syscall, returns, go
<1>15. ASSUME NEW p \in Processes, try_park_io(p) PROVE Frames
  BY Zenon, <1>15 DEF Frames, Poll, try_park_io, returns, go
<1>16. ASSUME NEW p \in Processes, resume(p) PROVE Frames
  BY Zenon, <1>16 DEF Frames, Poll, resume, go
<1>17. ASSUME NEW p \in Processes, resumed(p) PROVE Frames
  BY Zenon, <1>17 DEF Frames, Poll, resumed, returns, go
<1>18. ASSUME NEW p \in Processes, promote_expired(p) PROVE Frames
  BY Zenon, <1>18 DEF Frames, Poll, promote_expired, promote_io_waiter
<1>19. ASSUME NEW p \in Processes, deadline_passes(p) PROVE Frames
  BY Zenon, <1>19 DEF Frames, Poll, deadline_passes
<1>20. ASSUME NEW p \in Processes, signal(p) PROVE Frames
  BY Zenon, <1>20 DEF Frames, Poll, signal, spends, promote_io_waiter
<1>21. ASSUME NEW p \in Processes, kill(p) PROVE Frames
  BY Zenon, <1>21 DEF Frames, Poll, kill, spends
<1>22. ASSUME poll_wait PROVE Frames
  BY Zenon, <1>22 DEF Frames, Poll, poll_wait, ready_entries
<1>23. ASSUME poll_collect PROVE Frames
  BY Zenon, <1>23 DEF Frames, Poll, poll_collect
<1>24. ASSUME apply_wakers PROVE Frames
  BY Zenon, <1>24 DEF Frames, Poll, apply_wakers, carry_out, promote_io_waiter
<1>25. ASSUME becomes_ready PROVE Frames
  BY Zenon, <1>25 DEF Frames, Poll, becomes_ready
<1>26. ASSUME UNCHANGED vars PROVE Frames
  BY Zenon, <1>26 DEF Frames, Poll, vars
<1> QED  BY Zenon, <1>1, <1>2, <1>3, <1>4, <1>5, <1>6, <1>7, <1>8, <1>9, <1>10, <1>11, <1>12, <1>13,
            <1>14, <1>15, <1>16, <1>17, <1>18, <1>19, <1>20, <1>21, <1>22, <1>23, <1>24, <1>25,
            <1>26 DEF Next, Calls, Runtime, Poll

\* The steps of a process inside its call.
Walks(p) ==
    \/ call(p) \/ koja_rt_watch_fd(p) \/ koja_rt_unwatch_fd(p) \/ release_fd(p)
    \/ insert(p) \/ arm(p) \/ take_back(p) \/ wake(p) \/ remove(p) \/ disarm(p) \/ close_raw(p)
    \/ syscall(p) \/ try_park_io(p) \/ resume(p) \/ resumed(p)

\* Process p stays where it is in its call.
Stays(p) == pc'[p] = pc[p] /\ op'[p] = op[p] /\ fd'[p] = fd[p] /\ claim'[p] = claim[p]

\* A step moves at most the process that takes it.
LEMMA StaysStep ==
    ASSUME ReactorTypeOK, NEW r \in Processes, [Next]_vars
    PROVE  Stays(r) \/ Walks(r)
<1>1. ASSUME NEW p \in Processes, call(p), p # r PROVE Stays(r)
  BY Zenon, <1>1 DEF ReactorTypeOK, Stays, call, begins, spends, body, go
<1>2. ASSUME NEW p \in Processes, koja_rt_watch_fd(p), p # r PROVE Stays(r)
  BY Zenon, <1>2 DEF ReactorTypeOK, Stays, koja_rt_watch_fd, begins, spends, body, go
<1>3. ASSUME NEW p \in Processes, koja_rt_unwatch_fd(p), p # r PROVE Stays(r)
  BY Zenon, <1>3 DEF ReactorTypeOK, Stays, koja_rt_unwatch_fd, begins, spends, body, go
<1>4. ASSUME NEW p \in Processes, release_fd(p), p # r PROVE Stays(r)
  BY <1>4 DEF ReactorTypeOK, Stays, release_fd, spends, body, disarmed, go, wakers_unlocked
<1>5. ASSUME NEW p \in Processes, insert(p), p # r PROVE Stays(r)
  BY Zenon, <1>5 DEF ReactorTypeOK, Stays, insert, go, wakers_unlocked
<1>6. ASSUME NEW p \in Processes, arm(p), p # r PROVE Stays(r)
  BY <1>6 DEF ReactorTypeOK, Stays, arm, arms, resumes_at, returns, go
<1>7. ASSUME NEW p \in Processes, take_back(p), p # r PROVE Stays(r)
  BY <1>7 DEF ReactorTypeOK, Stays, take_back, resumes_at, returns, go, wakers_unlocked
<1>8. ASSUME NEW p \in Processes, wake(p), p # r PROVE Stays(r)
  BY <1>8, ResumesAt DEF Stays, wake
<1>9. ASSUME NEW p \in Processes, remove(p), p # r PROVE Stays(r)
  BY Zenon, <1>9 DEF ReactorTypeOK, Stays, remove, go, wakers_unlocked
<1>10. ASSUME NEW p \in Processes, disarm(p), p # r PROVE Stays(r)
  BY Zenon, <1>10 DEF ReactorTypeOK, Stays, disarm, disarmed, resumes_at, returns, go
<1>11. ASSUME NEW p \in Processes, close_raw(p), p # r PROVE Stays(r)
  BY Zenon, <1>11 DEF ReactorTypeOK, Stays, close_raw, returns, go
<1>12. ASSUME NEW p \in Processes, syscall(p), p # r PROVE Stays(r)
  BY Zenon, <1>12 DEF ReactorTypeOK, Stays, syscall, returns, go
<1>13. ASSUME NEW p \in Processes, try_park_io(p), p # r PROVE Stays(r)
  BY Zenon, <1>13 DEF ReactorTypeOK, Stays, try_park_io, returns, go
<1>14. ASSUME NEW p \in Processes, resume(p), p # r PROVE Stays(r)
  BY Zenon, <1>14 DEF ReactorTypeOK, Stays, resume, go
<1>15. ASSUME NEW p \in Processes, resumed(p), p # r PROVE Stays(r)
  BY <1>15 DEF ReactorTypeOK, Stays, resumed, returns, go
<1>16. ASSUME NEW p \in Processes,
             \/ open(p) \/ takes_mail(p) \/ promote_expired(p)
             \/ deadline_passes(p) \/ signal(p) \/ kill(p)
      PROVE  Stays(r)
  BY Zenon, <1>16 DEF Stays, open, takes_mail, promote_expired, deadline_passes, signal, kill
<1>17. CASE Poll \/ becomes_ready \/ UNCHANGED vars
  BY Zenon, <1>17 DEF Stays, Poll, poll_wait, poll_collect, apply_wakers, becomes_ready, vars
<1> QED  BY Zenon, <1>1, <1>2, <1>3, <1>4, <1>5, <1>6, <1>7, <1>8, <1>9, <1>10, <1>11, <1>12, <1>13,
            <1>14, <1>15, <1>16, <1>17 DEF Next, Calls, Runtime, Walks

\* How process r may have come to a label.
Enters(r) ==
    /\ pc'[r] = "parked" =>
        \/ pc[r] = "parked" /\ fd'[r] = fd[r]
        \/ arm(r) \/ take_back(r) \/ wake(r) \/ try_park_io(r)
    /\ pc'[r] \in {"arm", "take_back"} =>
        \/ insert(r)
        \/ pc[r] \in {"arm", "take_back"} /\ op'[r] = op[r] /\ fd'[r] = fd[r]
    /\ pc'[r] = "close" => release_fd(r) \/ (pc[r] = "close" /\ fd'[r] = fd[r])
    /\ pc'[r] = "disarm" => remove(r) \/ (pc[r] = "disarm" /\ fd'[r] = fd[r])
    /\ pc'[r] = "wake" =>
        \/ take_back(r) \/ close_raw(r)
        \/ pc[r] = "wake" /\ op'[r] = op[r] /\ claim'[r] = claim[r]

\* How process r may go on from a label, end a watch or begin a call.
Leaves(r) ==
    /\ pc[r] \in {"arm", "take_back"} =>
        \/ arm(r) \/ take_back(r)
        \/ pc'[r] = pc[r] /\ op'[r] = op[r] /\ fd'[r] = fd[r]
    /\ pc[r] \in {"close", "wake"} =>
        \/ close_raw(r) \/ wake(r)
        \/ pc'[r] = pc[r] /\ claim'[r] = claim[r]
    /\ op[r] = "watch" /\ op'[r] # "watch" => arm(r) \/ take_back(r) \/ wake(r)
    /\ \/ fd'[r] = fd[r] /\ (op'[r] = op[r] \/ op'[r] = "none")
       \/ call(r) \/ koja_rt_watch_fd(r) \/ koja_rt_unwatch_fd(r) \/ release_fd(r)

\* The walk through a call, label by label.
LEMMA WalkStep ==
    ASSUME ReactorTypeOK, NEW r \in Processes, OpAgrees(r), [Next]_vars
    PROVE  OpAgrees(r)' /\ Enters(r) /\ Leaves(r)
<1>1. CASE call(r)
  BY Zenon, <1>1 DEF ReactorTypeOK, OpAgrees, Enters, Leaves, call, begins, spends, body, go
<1>2. CASE koja_rt_watch_fd(r)
  BY Zenon, <1>2 DEF ReactorTypeOK, OpAgrees, Enters, Leaves, koja_rt_watch_fd, begins, spends,
     body, go
<1>3. CASE koja_rt_unwatch_fd(r)
  BY Zenon, <1>3 DEF ReactorTypeOK, OpAgrees, Enters, Leaves, koja_rt_unwatch_fd, begins,
     spends, body, go
<1>4. CASE release_fd(r)
  <2>1. pc'[r] = "close" /\ pc[r] = "body" /\ op'[r] = "close"
    BY <1>4 DEF ReactorTypeOK, release_fd, body, go
  <2> QED  BY Zenon, <1>4, <2>1 DEF OpAgrees, Enters, Leaves
<1>5. CASE insert(r)
  BY Zenon, <1>5 DEF ReactorTypeOK, OpAgrees, Enters, Leaves, insert, go, wakers_unlocked
<1>6. CASE arm(r)
  <2>1. fd'[r] = fd[r] /\ pc[r] = "arm"
    BY Zenon, <1>6 DEF arm
  <2>2. \/ op'[r] = op[r] /\ pc'[r] = "take_back"
        \/ op[r] = "block" /\ op'[r] = op[r] /\ pc'[r] \in {"resumed", "parked"}
        \/ op'[r] = "none" /\ pc'[r] = "body"
    BY Zenon, <1>6, ResumesAt DEF ReactorTypeOK, arm, go
  <2> QED  BY Zenon, <1>6, <2>1, <2>2 DEF OpAgrees, Enters, Leaves
<1>7. CASE take_back(r)
  BY <1>7 DEF ReactorTypeOK, OpAgrees, Enters, Leaves, take_back, resumes_at, returns, go,
     wakers_unlocked
<1>8. CASE wake(r)
  <2>1. /\ fd'[r] = fd[r] /\ pc[r] = "wake" /\ op'[r] \in {op[r], "none"}
        /\ pc'[r] \in {"resumed", "parked", "body"} /\ (pc'[r] # "body" => op'[r] = "block")
        /\ pc'[r] = "body" => op'[r] = "none"
    BY Zenon, <1>8, ResumesAt DEF wake
  <2> QED  BY Zenon, <1>8, <2>1 DEF OpAgrees, Enters, Leaves
<1>9. CASE remove(r)
  BY Zenon, <1>9 DEF ReactorTypeOK, OpAgrees, Enters, Leaves, remove, go, wakers_unlocked
<1>10. CASE disarm(r)
  BY <1>10 DEF ReactorTypeOK, OpAgrees, Enters, Leaves, disarm, disarmed, resumes_at, returns,
     go
<1>11. CASE close_raw(r)
  BY <1>11 DEF ReactorTypeOK, OpAgrees, Enters, Leaves, close_raw, returns, go
<1>12. CASE syscall(r)
  BY <1>12 DEF ReactorTypeOK, OpAgrees, Enters, Leaves, syscall, returns, go
<1>13. CASE try_park_io(r)
  BY <1>13 DEF ReactorTypeOK, OpAgrees, Enters, Leaves, try_park_io, returns, go
<1>14. CASE resume(r)
  BY Zenon, <1>14 DEF ReactorTypeOK, OpAgrees, Enters, Leaves, resume, go
<1>15. CASE resumed(r)
  BY <1>15 DEF ReactorTypeOK, OpAgrees, Enters, Leaves, resumed, returns, go
<1>16. CASE Stays(r)
  BY Zenon, <1>16 DEF OpAgrees, Stays, Enters, Leaves
<1> QED  BY Zenon, <1>1, <1>2, <1>3, <1>4, <1>5, <1>6, <1>7, <1>8, <1>9, <1>10, <1>11, <1>12, <1>13,
            <1>14, <1>15, <1>16, StaysStep DEF Walks

\* Only the call that parks enters the I/O wait.
LEMMA ParkStep ==
    ASSUME ReactorTypeOK, NEW r \in Processes, [Next]_vars
    PROVE  state'[r] = "WaitingIO" => state[r] = "WaitingIO" \/ try_park_io(r)
<1>1. ASSUME apply_wakers PROVE state'[r] = "WaitingIO" => state[r] = "WaitingIO"
  <2>1. PICK w \in fired : carry_out(w)
    BY Zenon, <1>1 DEF apply_wakers
  <2>2. w \in Wakers
    BY Zenon, <2>1 DEF ReactorTypeOK
  <2> QED  BY Zenon, <2>1, <2>2, CarryOut
<1>2. ASSUME NEW p \in Processes, wake(p) PROVE state'[r] = "WaitingIO" => state[r] = "WaitingIO"
  BY Zenon, <1>2, CarryOut DEF ReactorTypeOK, wake
<1>3. ASSUME NEW p \in Processes, try_park_io(p), ~ try_park_io(r) PROVE state'[r] = state[r]
  BY Zenon, <1>3 DEF ReactorTypeOK, try_park_io
<1>4. ASSUME NEW p \in Processes, resume(p) \/ kill(p)
      PROVE  state'[r] = "WaitingIO" => state[r] = "WaitingIO"
  BY Zenon, <1>4 DEF ReactorTypeOK, resume, kill
<1>5. ASSUME NEW p \in Processes, promote_expired(p) \/ signal(p)
      PROVE  state'[r] = "WaitingIO" => state[r] = "WaitingIO"
  BY Zenon, <1>5 DEF ReactorTypeOK, promote_expired, signal, promote_io_waiter
<1> QED  BY Zenon, <1>1, <1>2, <1>3, <1>4, <1>5, FramesStep DEF Frames

\* A number gets a waker by a registration.
LEMMA GainStep ==
    ASSUME ReactorTypeOK, NEW n \in Fds, [Next]_vars
    PROVE  \/ wakers'[n] = wakers[n] \/ wakers'[n] = Nobody
           \/ \E q \in Processes : insert(q) /\ fd[q] = n /\ wakers'[n] = waker_of(q)
<1>1. CASE wakers' = wakers
  BY Zenon, <1>1
<1>2. ASSUME NEW p \in Processes, insert(p)
      PROVE  wakers'[n] = wakers[n] \/ (fd[p] = n /\ wakers'[n] = waker_of(p))
  BY Zenon, <1>2 DEF ReactorTypeOK, insert
<1>3. ASSUME NEW p \in Processes, take_back(p) PROVE wakers'[n] \in {wakers[n], Nobody}
  BY Zenon, <1>3 DEF ReactorTypeOK, take_back
<1>4. ASSUME NEW p \in Processes, remove(p) PROVE wakers'[n] \in {wakers[n], Nobody}
  BY Zenon, <1>4 DEF ReactorTypeOK, remove
<1>5. ASSUME NEW p \in Processes, release_fd(p) PROVE wakers'[n] \in {wakers[n], Nobody}
  BY Zenon, <1>5 DEF ReactorTypeOK, release_fd
<1> QED  BY Zenon, <1>1, <1>2, <1>3, <1>4, <1>5, FramesStep DEF Frames

\* A number about to be closed gets no waker: `wakers' is locked.
LEMMA LockedStep ==
    ASSUME ReactorTypeOK, \A q \in Processes : OpAgrees(q), LockedWakers, [Next]_vars
    PROVE  LockedWakers'
<1> SUFFICES ASSUME NEW r \in Processes, pc'[r] = "close" PROVE wakers'[fd'[r]] = Nobody
  BY Zenon DEF LockedWakers
<1>1. CASE release_fd(r)
  BY <1>1 DEF ReactorTypeOK, release_fd
<1>2. CASE pc[r] = "close" /\ fd'[r] = fd[r]
  <2>1. PICK n \in Fds : n = fd[r] /\ wakers[n] = Nobody
    BY Zenon, <1>2 DEF LockedWakers, ReactorTypeOK
  <2>2. \A q \in Processes : ~ insert(q)
    BY Zenon, <1>2 DEF insert, wakers_unlocked
  <2>3. wakers'[n] \in {wakers[n], Nobody}
    BY Zenon, <2>2, GainStep
  <2> QED  BY Zenon, <1>2, <2>1, <2>3
<1> QED  BY Zenon, <1>1, <1>2, WalkStep DEF Enters

\* A closed number gets a waker only from a registration that will fail.
LEMMA ClosedStep ==
    ASSUME ClosedInv, [Next]_vars
    PROVE  ClosedWakers'
<1> SUFFICES ASSUME NEW n \in Fds, file'[n] = 0, wakers'[n] # Nobody
             PROVE  \E p \in Processes : registering(p, n)'
  BY Zenon DEF ClosedWakers
<1>1. CASE \E q \in Processes : insert(q) /\ fd[q] = n /\ wakers'[n] = waker_of(q)
  <2>1. PICK q \in Processes : insert(q) /\ fd[q] = n /\ wakers'[n] = waker_of(q)
    BY Zenon, <1>1
  <2>2. pc'[q] = "arm" /\ op'[q] = op[q] /\ fd'[q] = n
    BY Zenon, <2>1 DEF ClosedInv, ReactorTypeOK, insert, go
  <2> QED  BY Zenon, <2>1, <2>2 DEF registering, waker_of
<1>2. CASE wakers'[n] = wakers[n]
  <2>1. file[n] = 0
    <3>1. ASSUME NEW p \in Processes, open(p) PROVE file[n] = 0
      BY Zenon, <3>1 DEF ClosedInv, ReactorTypeOK, open
    <3>2. ASSUME NEW p \in Processes, close_raw(p) PROVE file[n] = 0
      BY Zenon, <1>2, <3>2 DEF ClosedInv, ReactorTypeOK, LockedWakers, close_raw
    <3> QED  BY Zenon, <3>1, <3>2, FramesStep DEF Frames
  <2>2. PICK q \in Processes : registering(q, n)
    BY Zenon, <1>2, <2>1 DEF ClosedInv, ClosedWakers
  <2>3. CASE pc'[q] = pc[q] /\ op'[q] = op[q] /\ fd'[q] = fd[q]
    BY Zenon, <1>2, <2>2, <2>3 DEF registering, waker_of
  <2>4. CASE arm(q)
    BY Zenon, <1>2, <2>1, <2>2, <2>4 DEF ClosedInv, ReactorTypeOK, registering, waker_of, arm, arms, go
  <2>5. ~ take_back(q)
    BY Zenon, <2>2 DEF ClosedInv, ReactorTypeOK, registering, take_back
  <2> QED  BY Zenon, <2>2, <2>3, <2>4, <2>5, WalkStep DEF ClosedInv, Leaves, registering
<1> QED  BY Zenon, <1>1, <1>2, GainStep DEF ClosedInv

\* The invariant of the closed numbers holds at the start.
LEMMA ClosedInit == Init => ClosedInv
<1> SUFFICES ASSUME Init PROVE ClosedInv
  BY Zenon
<1>1. ReactorTypeOK
  BY Zenon, ReactorAssumption DEF Init, ReactorTypeOK, Labels, OnNumber, Wakers
<1>2. \A p \in Processes : OpAgrees(p)
  BY Zenon DEF Init, OpAgrees
<1>3. ClosedWakers /\ LockedWakers
  BY Zenon DEF Init, ClosedWakers, LockedWakers
<1> QED  BY Zenon, <1>1, <1>2, <1>3 DEF ClosedInv

\* Every step keeps it.
LEMMA ClosedNext == ClosedInv /\ [Next]_vars => ClosedInv'
<1> SUFFICES ASSUME ClosedInv, [Next]_vars PROVE ClosedInv'
  BY Zenon
<1>1. ReactorTypeOK'
  BY Zenon, TypeStep DEF ClosedInv
<1>2. (\A r \in Processes : OpAgrees(r))'
  BY Zenon, WalkStep DEF ClosedInv
<1>3. LockedWakers'
  BY Zenon, LockedStep DEF ClosedInv
<1>4. ClosedWakers'
  BY Zenon, ClosedStep DEF ClosedInv
<1> QED  BY Zenon, <1>1, <1>2, <1>3, <1>4 DEF ClosedInv

\* A closed number keeps no waker but one that its registration is about to
\* take back, for any processes, numbers and calls: release_fd_and_close holds
\* the `wakers' lock over the close, and a failed registration takes back what
\* it inserted.
THEOREM ClosedHasNoWakerHolds == Spec => []ClosedHasNoWaker
<1>1. ClosedInv => ClosedHasNoWaker
  BY Zenon DEF ClosedInv, ClosedWakers, registering, ClosedHasNoWaker
<1> QED  BY <1>1, ClosedInit, ClosedNext, PTL DEF Spec

------------------------------------------------------------------------------------
\* Events wait in one place at a time.
StageInv ==
    /\ stage # "collect" => events = {}
    /\ stage # "apply" => fired = {}

\* Files are opened once, have one number and one owner, and a number is used
\* by one call at a time.
FileInv ==
    /\ \A n \in Fds : file[n] <= opened
    /\ \A p \in Processes : owned[p] <= opened
    /\ \A m, n \in Fds : file[m] = file[n] /\ file[m] # 0 => m = n
    /\ \A p, q \in Processes : owned[p] = owned[q] /\ owned[p] # 0 => p = q
    /\ \A p \in Processes : op[p] \in OnNumber =>
        /\ file[fd[p]] # 0 => file[fd[p]] = owned[p]
        /\ \A n \in Fds : file[n] = owned[p] /\ file[n] # 0 => n = fd[p]
    /\ \A p, q \in Processes :
        op[p] \in OnNumber /\ op[q] \in OnNumber /\ fd[p] = fd[q] => p = q

\* Somebody other than the poller has the waker w.
taken(w) == w \in fired \/ \E q \in Processes : pc[q] \in {"close", "wake"} /\ claim[q] = w

\* The waker of an open number is its file's owner's.
OwnWaker ==
    \A n \in Fds, p \in Processes :
        wakers[n] \in {Resume(p), Deliver(p)} /\ file[n] # 0 => file[n] = owned[p]

\* A deregistration finds its number without a waker.
DisarmedWaker == \A p \in Processes : pc[p] = "disarm" => wakers[fd[p]] = Nobody

\* A failed registration wakes its own waker.
TakenBack == \A p \in Processes : pc[p] = "wake" /\ op[p] # "close" => claim[p] = waker_of(p)

\* A process that parked and is registering has a waker that somebody has.
Caught ==
    \A p \in Processes :
        pc[p] \in {"arm", "take_back"} /\ op[p] = "block" /\ state[p] = "WaitingIO"
            => wakers[fd[p]] = Resume(p) \/ taken(Resume(p))

\* NobodyStranded of the waiters, whatever the deadline, and of the watchers.
WaiterPending ==
    \A p \in Processes :
        pc[p] = "parked" /\ state[p] = "WaitingIO" => pending(Resume(p), fd[p])

WatcherPending ==
    \A p \in Processes, n \in Fds :
        wakers[n] = Deliver(p) /\ op[p] # "watch" /\ ~told[p] => pending(Deliver(p), n)

ReactorInv ==
    /\ ClosedInv /\ StageInv /\ FileInv
    /\ OwnWaker /\ DisarmedWaker /\ TakenBack /\ Caught
    /\ WaiterPending /\ WatcherPending

\* Somebody registers or deregisters on number n.
Changes(n) == \E q \in Processes : fd[q] = n /\ (insert(q) \/ remove(q) \/ disarm(q))

\* What the reactor thread took waits in one place at a time.
LEMMA StageStep ==
    ASSUME StageInv, [Next]_vars
    PROVE  StageInv'
<1>1. CASE UNCHANGED <<stage, events, fired>>
  BY Zenon, <1>1 DEF StageInv
<1>2. CASE poll_wait
  BY Zenon, <1>2 DEF StageInv, poll_wait
<1>3. CASE poll_collect
  BY Zenon, <1>3 DEF StageInv, poll_collect
<1>4. CASE apply_wakers
  BY Zenon, <1>4 DEF StageInv, apply_wakers
<1> QED  BY Zenon, <1>1, <1>2, <1>3, <1>4, FramesStep DEF Frames, Poll

\* A call that goes on or returns leaves the files in order.
LEMMA FileQuiet ==
    ASSUME FileInv, UNCHANGED <<file, opened, owned>>,
           \A q \in Processes : fd'[q] = fd[q] /\ (op'[q] = op[q] \/ op'[q] = "none")
    PROVE  FileInv'
BY DEF FileInv, OnNumber

\* So does a call that begins on the file that its process opened.
LEMMA FileBegins ==
    ASSUME ClosedInv, FileInv, NEW p \in Processes, UNCHANGED <<file, opened, owned>>,
           NEW n \in Fds, file[n] # 0, file[n] = owned[p], fd' = [fd EXCEPT ![p] = n],
           NEW what, op' = [op EXCEPT ![p] = what]
    PROVE  FileInv'
BY DEF ClosedInv, ReactorTypeOK, FileInv, OnNumber

\* Without reuse under a running call, files and numbers stay in order.
LEMMA FileStep ==
    ASSUME ~ Overlap, ClosedInv, FileInv, [Next]_vars
    PROVE  FileInv'
<1>1. ASSUME NEW p \in Processes, open(p) PROVE FileInv'
  <2>p. op[p] = "none"
    BY Zenon, <1>1 DEF ClosedInv, OpAgrees, open, body
  <2>1. PICK n \in Fds :
          /\ file[n] = 0 /\ \A q \in Processes : op[q] \in OnNumber => fd[q] # n
          /\ opened' = opened + 1
          /\ file' = [file EXCEPT ![n] = opened'] /\ owned' = [owned EXCEPT ![p] = opened']
          /\ op[p] = "none" /\ UNCHANGED <<op, fd>>
    BY Zenon, <1>1, <2>p DEF OnNumber, open
  <2> USE DEF ClosedInv, ReactorTypeOK
  <2>2. /\ \A m \in Fds : file'[m] <= opened' /\ (file'[m] = opened' <=> m = n)
        /\ \A q \in Processes : owned'[q] <= opened' /\ (owned'[q] = opened' <=> q = p)
    BY <2>1 DEF FileInv
  <2>3. /\ \A l, m \in Fds : file'[l] = file'[m] /\ file'[l] # 0 => l = m
        /\ \A q, r \in Processes : owned'[q] = owned'[r] /\ owned'[q] # 0 => q = r
    BY <2>1, <2>2 DEF FileInv
  <2>4. \A q \in Processes : op'[q] \in OnNumber =>
          /\ q # p /\ owned'[q] = owned[q] /\ file'[fd'[q]] = file[fd[q]]
          /\ \A m \in Fds : file'[m] = owned'[q] => m # n
    BY Zenon, <2>1, <2>2 DEF OnNumber
  <2>5. \A q \in Processes : op'[q] \in OnNumber =>
          /\ file'[fd'[q]] # 0 => file'[fd'[q]] = owned'[q]
          /\ \A m \in Fds : file'[m] = owned'[q] /\ file'[m] # 0 => m = fd'[q]
    BY <2>1, <2>4 DEF FileInv
  <2>6. \A q, r \in Processes :
          op'[q] \in OnNumber /\ op'[r] \in OnNumber /\ fd'[q] = fd'[r] => q = r
    BY Zenon, <2>1 DEF FileInv
  <2> QED  BY Zenon, <2>2, <2>3, <2>5, <2>6 DEF FileInv
<1>2. ASSUME NEW p \in Processes, call(p) PROVE FileInv'
  BY Zenon, <1>2, FileBegins DEF call, begins
<1>3. ASSUME NEW p \in Processes, koja_rt_watch_fd(p) PROVE FileInv'
  BY Zenon, <1>3, FileBegins DEF koja_rt_watch_fd, begins
<1>4. ASSUME NEW p \in Processes, koja_rt_unwatch_fd(p) PROVE FileInv'
  BY Zenon, <1>4, FileBegins DEF koja_rt_unwatch_fd, begins
<1>5. ASSUME NEW p \in Processes, release_fd(p) PROVE FileInv'
  BY <1>5 DEF ClosedInv, ReactorTypeOK, OnNumber, FileInv, release_fd
<1>6. ASSUME NEW p \in Processes, close_raw(p) PROVE FileInv'
  BY <1>6 DEF ClosedInv, ReactorTypeOK, OnNumber, FileInv, close_raw, returns
<1>7. CASE /\ UNCHANGED <<file, opened, owned>>
           /\ \A q \in Processes : fd'[q] = fd[q] /\ (op'[q] = op[q] \/ op'[q] = "none")
  BY Zenon, <1>7, FileQuiet
<1>8. \A q \in Processes : Leaves(q)
  BY Zenon, WalkStep DEF ClosedInv
<1> QED  BY Zenon, <1>1, <1>2, <1>3, <1>4, <1>5, <1>6, <1>7, <1>8, FramesStep DEF Frames, Leaves

\* The waker of an open number stays its file's owner's: nobody opens a number
\* whose last registration is still to be taken back.
LEMMA OwnStep ==
    ASSUME ~ Overlap, ClosedInv, FileInv, OwnWaker, [Next]_vars
    PROVE  OwnWaker'
<1> SUFFICES ASSUME NEW n \in Fds, NEW r \in Processes,
                    wakers'[n] \in {Resume(r), Deliver(r)}, file'[n] # 0
             PROVE  file'[n] = owned'[r]
  BY Zenon DEF OwnWaker
<1>1. CASE \E q \in Processes : insert(q) /\ fd[q] = n /\ wakers'[n] = waker_of(q)
  <2>1. PICK q \in Processes : insert(q) /\ fd[q] = n /\ wakers'[n] = waker_of(q)
    BY Zenon, <1>1
  <2>2. q = r
    BY Zenon, <2>1, WakersDiffer DEF waker_of
  <2>3. op[q] \in OnNumber
    BY Zenon, <2>1 DEF ClosedInv, OpAgrees, OnNumber, insert
  <2> QED  BY Zenon, <2>1, <2>2, <2>3 DEF FileInv, insert
<1>2. CASE wakers'[n] = wakers[n]
  <2>1. CASE UNCHANGED <<file, opened, owned>>
    BY Zenon, <1>2, <2>1 DEF OwnWaker
  <2>2. ASSUME NEW p \in Processes, open(p) PROVE file'[n] = owned'[r]
    <3>1. file[n] # 0
      <4>1. ASSUME file[n] = 0 PROVE \E q \in Processes : op[q] \in {"block", "watch"} /\ fd[q] = n
        BY <1>2, <4>1, WakersDiffer DEF ClosedInv, ClosedWakers, OpAgrees, registering
      <4>2. ASSUME file[n] = 0 PROVE \A q \in Processes : op[q] \in {"none", "close"} \/ fd[q] # n
        BY Zenon, <2>2, <4>2 DEF ClosedInv, ReactorTypeOK, open
      <4> QED  BY Zenon, <4>1, <4>2
    <3>2. file[n] = owned[r]
      BY Zenon, <1>2, <3>1 DEF OwnWaker
    <3>3. r # p
      BY Zenon, <2>2, <3>1, <3>2 DEF open, has_file
    <3> QED  BY <2>2, <3>1, <3>2, <3>3 DEF ClosedInv, ReactorTypeOK, open
  <2>3. ASSUME NEW p \in Processes, close_raw(p) PROVE file'[n] = owned'[r]
    BY Zenon, <1>2, <2>3 DEF ClosedInv, ReactorTypeOK, OwnWaker, close_raw
  <2> QED  BY Zenon, <2>1, <2>2, <2>3, FramesStep DEF Frames
<1> QED  BY Zenon, <1>1, <1>2, GainStep, WakersDiffer DEF ClosedInv

\* Nobody registers on the number of a deregistration.
LEMMA DisarmedStep ==
    ASSUME ClosedInv, FileInv, DisarmedWaker, [Next]_vars
    PROVE  DisarmedWaker'
<1> SUFFICES ASSUME NEW r \in Processes, pc'[r] = "disarm" PROVE wakers'[fd'[r]] = Nobody
  BY Zenon DEF DisarmedWaker
<1>1. CASE remove(r)
  BY Zenon, <1>1 DEF ClosedInv, ReactorTypeOK, remove
<1>2. CASE pc[r] = "disarm" /\ fd'[r] = fd[r]
  <2>1. wakers[fd[r]] = Nobody /\ fd[r] \in Fds
    BY Zenon, <1>2 DEF DisarmedWaker, ClosedInv, ReactorTypeOK
  <2>2. \A q \in Processes : insert(q) => fd[q] # fd[r]
    BY <1>2 DEF ClosedInv, OpAgrees, FileInv, OnNumber, insert
  <2> QED  BY Zenon, <1>2, <2>1, <2>2, GainStep DEF ClosedInv
<1> QED  BY Zenon, <1>1, <1>2, WalkStep DEF ClosedInv, Enters

\* Nobody changes the claim of another process.
LEMMA TakenBackStep ==
    ASSUME ClosedInv, TakenBack, [Next]_vars
    PROVE  TakenBack'
<1> SUFFICES ASSUME NEW r \in Processes, pc'[r] = "wake", op'[r] # "close"
             PROVE  claim'[r] = waker_of(r)'
  BY Zenon DEF TakenBack
<1>1. CASE take_back(r)
  BY <1>1 DEF ClosedInv, ReactorTypeOK, take_back, resumes_at, returns, go, waker_of
<1>2. ~ close_raw(r)
  BY DEF ClosedInv, OpAgrees, ReactorTypeOK, close_raw, returns, go
<1>3. CASE pc[r] = "wake" /\ op'[r] = op[r] /\ claim'[r] = claim[r]
  BY Zenon, <1>3 DEF TakenBack, waker_of
<1> QED  BY Zenon, <1>1, <1>2, <1>3, WalkStep DEF ClosedInv, Enters

\* A waker that was taken out stays with its taker until it is carried out.
LEMMA TakenStep ==
    ASSUME ClosedInv, StageInv, NEW w, w # Nobody, taken(w), [Next]_vars
    PROVE  taken(w)' \/ carry_out(w)
<1>1. CASE w \in fired
  <2>1. CASE poll_collect
    BY Zenon, <1>1, <2>1 DEF StageInv, poll_collect
  <2>2. CASE poll_wait
    BY Zenon, <1>1, <2>2 DEF StageInv, poll_wait
  <2>3. CASE apply_wakers
    BY Zenon, <1>1, <2>3 DEF taken, apply_wakers
  <2> QED  BY Zenon, <1>1, <2>1, <2>2, <2>3, FramesStep DEF Frames, Poll, taken
<1>2. ASSUME NEW q \in Processes, pc[q] \in {"close", "wake"}, claim[q] = w
      PROVE  taken(w)' \/ carry_out(w)
  <2>1. CASE wake(q)
    BY Zenon, <1>2, <2>1 DEF wake
  <2>2. CASE close_raw(q)
    <3>1. pc'[q] = "wake" /\ claim'[q] = w
      BY Zenon, <1>2, <2>2 DEF ClosedInv, ReactorTypeOK, close_raw, go
    <3> QED  BY Zenon, <3>1 DEF taken
  <2> QED  BY Zenon, <1>2, <2>1, <2>2, WalkStep DEF ClosedInv, Leaves, taken
<1> QED  BY Zenon, <1>1, <1>2 DEF taken

\* A waker leaves its number by a registration or a deregistration on it, or
\* to somebody who carries it out.
LEMMA ChangeStep ==
    ASSUME ClosedInv, NEW n \in Fds, NEW w, wakers[n] = w, w # Nobody, [Next]_vars
    PROVE  wakers'[n] = w \/ taken(w)' \/ Changes(n)
<1> USE DEF ClosedInv, ReactorTypeOK
<1>1. ASSUME NEW p \in Processes, insert(p) \/ remove(p) PROVE wakers'[n] = w \/ Changes(n)
  BY Zenon, <1>1 DEF Changes, insert, remove
<1>2. ASSUME NEW p \in Processes, take_back(p) PROVE wakers'[n] = w \/ taken(w)'
  <2>1. CASE fd[p] = n /\ w = waker_of(p)
    <3>1. pc'[p] = "wake" /\ claim'[p] = w
      BY <1>2, <2>1 DEF take_back, go
    <3> QED  BY Zenon, <3>1 DEF taken
  <2>2. CASE ~ (fd[p] = n /\ w = waker_of(p))
    BY Zenon, <1>2, <2>2 DEF take_back
  <2> QED  BY Zenon, <2>1, <2>2
<1>3. ASSUME NEW p \in Processes, release_fd(p) PROVE wakers'[n] = w \/ taken(w)'
  <2>1. PICK m \in Fds : /\ claim' = [claim EXCEPT ![p] = wakers[m]]
                         /\ wakers' = [wakers EXCEPT ![m] = Nobody]
                         /\ pc' = [pc EXCEPT ![p] = "close"]
    BY Zenon, <1>3 DEF release_fd, go
  <2>2. m = n => pc'[p] = "close" /\ claim'[p] = w
    BY Zenon, <2>1
  <2> QED  BY Zenon, <2>1, <2>2 DEF taken
<1> QED  BY Zenon, <1>1, <1>2, <1>3, FramesStep DEF Frames

\* What the poller or its last wait has of a number with a waker, it keeps
\* until the waker fires or is deregistered.
LEMMA ArmedStep ==
    ASSUME ClosedInv, StageInv, NEW n \in Fds, NEW w, wakers[n] = w, wakers'[n] = w, w # Nobody,
           polled[n] = "armed" \/ n \in events, [Next]_vars
    PROVE  polled'[n] = "armed" \/ n \in events' \/ w \in fired' \/ Changes(n)
<1> USE DEF ClosedInv, ReactorTypeOK
<1>1. CASE poll_wait
  BY <1>1 DEF StageInv, poll_wait
<1>2. CASE poll_collect
  BY Zenon, <1>2 DEF poll_collect
<1>3. CASE apply_wakers
  BY Zenon, <1>3 DEF apply_wakers
<1>4. ASSUME UNCHANGED <<stage, events, fired>>, NEW p \in Processes, arm(p)
      PROVE  polled'[n] = "armed" \/ n \in events'
  BY Zenon, <1>4 DEF arm
<1>5. ASSUME UNCHANGED <<stage, events, fired>>, NEW p \in Processes, disarm(p)
      PROVE  polled'[n] = "armed" \/ n \in events' \/ Changes(n)
  BY Zenon, <1>5 DEF disarm, disarmed, Changes
<1>6. ASSUME UNCHANGED <<stage, events, fired>>, NEW p \in Processes, release_fd(p)
      PROVE  polled'[n] = "armed" \/ n \in events'
  BY Zenon, <1>6 DEF release_fd, disarmed
<1>7. ASSUME UNCHANGED <<stage, events, fired>>, NEW p \in Processes, close_raw(p)
      PROVE  polled'[n] = "armed" \/ n \in events'
  BY Zenon, <1>7 DEF LockedWakers, close_raw
<1> QED  BY Zenon, <1>1, <1>2, <1>3, <1>4, <1>5, <1>6, <1>7, FramesStep DEF Frames, Poll

\* A pending waker of a number stays pending until it is deregistered.
LEMMA PendingStep ==
    ASSUME ClosedInv, StageInv, NEW n \in Fds, NEW w, wakers[n] = w, w # Nobody,
           polled[n] = "armed" \/ n \in events, [Next]_vars
    PROVE  pending(w, n)' \/ Changes(n)
<1>1. CASE taken(w)'
  BY Zenon, <1>1 DEF taken, pending
<1>2. CASE wakers'[n] = w
  BY Zenon, <1>2, ArmedStep DEF pending
<1> QED  BY Zenon, <1>1, <1>2, ChangeStep

\* Only a new watch forgets that a watcher was told.
LEMMA ToldStep ==
    ASSUME ReactorTypeOK, NEW r \in Processes, ~ told'[r], [Next]_vars
    PROVE  ~ told[r] \/ koja_rt_watch_fd(r)
<1>1. CASE told' = told
  BY Zenon, <1>1
<1>2. CASE apply_wakers
  <2>1. PICK w \in Wakers : carry_out(w)
    BY Zenon, <1>2 DEF ReactorTypeOK, apply_wakers
  <2> QED  BY Zenon, <2>1, CarryOut
<1>3. ASSUME NEW p \in Processes, wake(p) PROVE ~ told[r]
  <2>1. claim[p] \in Wakers /\ carry_out(claim[p])
    BY Zenon, <1>3 DEF ReactorTypeOK, wake
  <2> QED  BY Zenon, <2>1, CarryOut
<1>4. ASSUME NEW p \in Processes, koja_rt_watch_fd(p), p # r PROVE ~ told[r]
  BY Zenon, <1>4 DEF ReactorTypeOK, koja_rt_watch_fd
<1> QED  BY Zenon, <1>1, <1>2, <1>3, <1>4, FramesStep DEF Frames

\* A waker of a process in a call is on the number of that call.
LEMMA OwnNumber ==
    ASSUME ClosedInv, FileInv, OwnWaker,
           NEW r \in Processes, op[r] \in OnNumber, NEW n \in Fds,
           wakers[n] \in {Resume(r), Deliver(r)}
    PROVE  n = fd[r]
<1>1. CASE file[n] # 0
  BY Zenon, <1>1 DEF FileInv, OwnWaker
<1>2. CASE file[n] = 0
  <2>1. PICK q \in Processes : registering(q, n)
    BY Zenon, <1>2, WakersDiffer DEF ClosedInv, ClosedWakers
  <2>2. q = r
    BY <2>1, WakersDiffer DEF registering, waker_of
  <2> QED  BY Zenon, <2>1, <2>2 DEF registering
<1> QED  BY Zenon, <1>1, <1>2

\* Carrying out the waker of a process ends its wait, or tells it.
LEMMA CarriedOut ==
    ASSUME ReactorTypeOK, NEW r \in Processes
    PROVE  /\ carry_out(Resume(r)) => state'[r] # "WaitingIO"
           /\ carry_out(Deliver(r)) => told'[r]
<1>1. Resume(r) \in Wakers /\ Deliver(r) \in Wakers
  BY Zenon DEF Wakers
<1> QED  BY Zenon, <1>1, CarryOut

\* A waker taken from a registration in progress is kept by its taker, and
\* only the process itself deregisters on its number.
LEMMA CaughtStep ==
    ASSUME ClosedInv, StageInv, FileInv, Caught, [Next]_vars
    PROVE  Caught'
<1> SUFFICES ASSUME NEW r \in Processes,
                    pc'[r] \in {"arm", "take_back"}, op'[r] = "block", state'[r] = "WaitingIO"
             PROVE  wakers'[fd'[r]] = Resume(r) \/ taken(Resume(r))'
  BY Zenon DEF Caught
<1>1. Enters(r)
  BY Zenon, WalkStep DEF ClosedInv
<1>2. CASE insert(r)
  BY Zenon, <1>2 DEF ClosedInv, ReactorTypeOK, insert, waker_of
<1>3. CASE ~ insert(r)
  <2>1. pc[r] \in {"arm", "take_back"} /\ op[r] = "block" /\ fd'[r] = fd[r]
    BY Zenon, <1>1, <1>3 DEF Enters
  <2>2. state[r] = "WaitingIO"
    BY Zenon, <2>1, ParkStep DEF ClosedInv, try_park_io
  <2>3. CASE taken(Resume(r))
    BY Zenon, <2>3, TakenStep, CarriedOut, WakersDiffer DEF ClosedInv
  <2>4. CASE wakers[fd[r]] = Resume(r)
    <3>1. ~ Changes(fd[r])
      BY <2>1 DEF Changes, ClosedInv, OpAgrees, FileInv, OnNumber, insert, remove, disarm
    <3>2. fd[r] \in Fds
      BY Zenon DEF ClosedInv, ReactorTypeOK
    <3> QED  BY Zenon, <2>1, <2>4, <3>1, <3>2, ChangeStep, WakersDiffer DEF ClosedInv
  <2> QED  BY Zenon, <2>1, <2>2, <2>3, <2>4 DEF Caught
<1> QED  BY Zenon, <1>2, <1>3

\* A parked process keeps its pending waker: no other call is on its number.
LEMMA WaiterStep ==
    ASSUME ClosedInv, StageInv, FileInv, TakenBack, Caught, WaiterPending, [Next]_vars
    PROVE  WaiterPending'
<1> SUFFICES ASSUME NEW r \in Processes, pc'[r] = "parked", state'[r] = "WaitingIO"
             PROVE  pending(Resume(r), fd[r])'
  BY Zenon DEF WaiterPending
<1>1. Enters(r) /\ fd[r] \in Fds
  BY Zenon, WalkStep DEF ClosedInv, ReactorTypeOK
<1>2. taken(Resume(r)) => taken(Resume(r))'
  BY Zenon, TakenStep, CarriedOut, WakersDiffer DEF ClosedInv
<1>3. taken(Resume(r))' => pending(Resume(r), fd[r])'
  BY Zenon DEF taken, pending
<1>4. CASE pc[r] = "parked" /\ fd'[r] = fd[r]
  <2>1. state[r] = "WaitingIO"
    BY Zenon, <1>4, ParkStep DEF ClosedInv, try_park_io
  <2>2. pending(Resume(r), fd[r])
    BY Zenon, <1>4, <2>1 DEF WaiterPending
  <2>3. CASE wakers[fd[r]] = Resume(r) /\ (polled[fd[r]] = "armed" \/ fd[r] \in events)
    <3>1. ~ Changes(fd[r])
      BY <1>4 DEF Changes, ClosedInv, OpAgrees, FileInv, OnNumber, insert, remove, disarm
    <3>2. PICK n \in Fds : n = fd[r]
      BY Zenon, <1>1
    <3>3. pending(Resume(r), n)'
      BY Zenon, <2>3, <3>1, <3>2, PendingStep, WakersDiffer
    <3> QED  BY Zenon, <1>4, <3>2, <3>3 DEF pending
  <2> QED  BY Zenon, <1>2, <1>3, <2>2, <2>3 DEF pending, taken
<1>5. CASE arm(r)
  <2>1. op[r] = "block" /\ state[r] = "WaitingIO" /\ arms(fd[r])
    BY <1>5 DEF ClosedInv, OpAgrees, ReactorTypeOK, arm, resumes_at, returns, go
  <2>2. CASE wakers[fd[r]] = Resume(r)
    BY <1>5, <2>1, <2>2 DEF ClosedInv, ReactorTypeOK, arm, pending
  <2> QED  BY Zenon, <1>2, <1>3, <1>5, <2>1, <2>2 DEF Caught, arm
<1>6. CASE take_back(r)
  <2>1. op[r] = "block" /\ state[r] = "WaitingIO" /\ wakers[fd[r]] # Resume(r)
    BY Zenon, <1>6 DEF ClosedInv, OpAgrees, ReactorTypeOK, take_back, resumes_at, returns, go, waker_of
  <2> QED  BY Zenon, <1>2, <1>3, <1>6, <2>1 DEF Caught, take_back
<1>7. ~ wake(r)
  <2>1. ASSUME wake(r) PROVE op[r] = "block"
    BY Zenon, <2>1, ResumesAt DEF ClosedInv, wake
  <2>2. ASSUME wake(r) PROVE claim[r] = Resume(r)
    BY Zenon, <2>1, <2>2 DEF TakenBack, waker_of, wake
  <2> QED  BY Zenon, <2>2, CarriedOut DEF ClosedInv, wake
<1>8. ~ try_park_io(r)
  BY Zenon DEF ClosedInv, ReactorTypeOK, try_park_io, returns, go
<1> QED  BY Zenon, <1>1, <1>4, <1>5, <1>6, <1>7, <1>8 DEF Enters

\* A watcher that was not told keeps its pending waker.
LEMMA WatcherStep ==
    ASSUME ClosedInv, StageInv, FileInv, OwnWaker, DisarmedWaker, TakenBack,
           WatcherPending, [Next]_vars
    PROVE  WatcherPending'
<1> SUFFICES ASSUME NEW r \in Processes, NEW n \in Fds,
                    wakers'[n] = Deliver(r), op'[r] # "watch", ~ told'[r]
             PROVE  pending(Deliver(r), n)'
  BY Zenon DEF WatcherPending
<1>1. Leaves(r)
  BY Zenon, WalkStep DEF ClosedInv
<1>2. wakers[n] = Deliver(r)
  <2>1. CASE wakers'[n] = wakers[n] \/ wakers'[n] = Nobody
    BY Zenon, <2>1, WakersDiffer
  <2>2. ASSUME NEW q \in Processes, insert(q), wakers'[n] = waker_of(q) PROVE FALSE
    <3>1. q = r /\ op[q] = "watch"
      BY Zenon, <2>2, WakersDiffer DEF waker_of
    <3>2. op'[q] = op[q]
      BY Zenon, <2>2 DEF insert
    <3> QED  BY Zenon, <3>1, <3>2
  <2> QED  BY Zenon, <2>1, <2>2, GainStep DEF ClosedInv
<1>3. ~ told[r]
  BY ToldStep DEF ClosedInv, ReactorTypeOK, koja_rt_watch_fd, begins
<1>4. CASE op[r] # "watch"
  <2>1. pending(Deliver(r), n)
    BY Zenon, <1>2, <1>3, <1>4 DEF WatcherPending
  <2>2. ~ Changes(n)
    <3>1. ASSUME NEW q \in Processes, fd[q] = n PROVE ~ insert(q)
      BY <1>4, <3>1, WakersDiffer DEF ClosedInv, ReactorTypeOK, insert, waker_of
    <3>2. ASSUME NEW q \in Processes, fd[q] = n PROVE ~ remove(q)
      BY Zenon, <3>2, WakersDiffer DEF ClosedInv, ReactorTypeOK, remove
    <3>3. ASSUME NEW q \in Processes, fd[q] = n PROVE ~ disarm(q)
      BY Zenon, <1>2, <3>3, WakersDiffer DEF DisarmedWaker, disarm
    <3> QED  BY Zenon, <3>1, <3>2, <3>3 DEF Changes
  <2>3. CASE polled[n] = "armed" \/ n \in events
    BY Zenon, <1>2, <2>2, <2>3, PendingStep, WakersDiffer
  <2>4. CASE taken(Deliver(r))
    BY Zenon, <2>4, TakenStep, CarriedOut, WakersDiffer DEF ClosedInv, taken, pending
  <2> QED  BY Zenon, <2>1, <2>3, <2>4 DEF pending, taken
<1>5. CASE op[r] = "watch"
  <2>1. n = fd[r]
    BY Zenon, <1>2, <1>5, OwnNumber DEF OnNumber
  <2>2. CASE arm(r)
    <3>1. arms(fd[r])
      BY Zenon, <1>5, <2>2 DEF ClosedInv, ReactorTypeOK, arm
    <3> QED  BY Zenon, <2>1, <2>2, <3>1 DEF ClosedInv, ReactorTypeOK, arm, pending
  <2>3. ~ take_back(r)
    BY Zenon, <1>2, <1>5, <2>1 DEF take_back, waker_of
  <2>4. ~ wake(r)
    BY Zenon, <1>5, CarriedOut DEF ClosedInv, TakenBack, waker_of, wake
  <2> QED  BY Zenon, <1>1, <1>5, <2>2, <2>3, <2>4 DEF Leaves
<1> QED  BY Zenon, <1>4, <1>5

\* So does it with the invariant of the wakers, when no number is reused under
\* a running call.
LEMMA ReactorInit == Init => ReactorInv
<1> SUFFICES ASSUME Init PROVE ReactorInv
  BY Zenon
<1>1. ClosedInv
  BY Zenon, ClosedInit
<1>2. StageInv /\ FileInv
  BY DEF Init, StageInv, FileInv, OnNumber
<1>3. OwnWaker /\ DisarmedWaker /\ TakenBack /\ Caught
  BY Zenon, WakersDiffer DEF Init, OwnWaker, DisarmedWaker, TakenBack, Caught
<1>4. WaiterPending /\ WatcherPending
  BY Zenon, WakersDiffer DEF Init, WaiterPending, WatcherPending
<1> QED  BY Zenon, <1>1, <1>2, <1>3, <1>4 DEF ReactorInv

\* Every step that reuses no number under a running call keeps the invariant.
LEMMA ReactorNext ==
    ASSUME ~ Overlap
    PROVE  ReactorInv /\ [Next]_vars => ReactorInv'
<1> SUFFICES ASSUME ReactorInv, [Next]_vars PROVE ReactorInv'
  BY Zenon
<1> USE DEF ReactorInv
<1>1. ClosedInv'
  BY Zenon, ClosedNext
<1>2. StageInv'
  BY Zenon, StageStep
<1>3. FileInv'
  BY Zenon, FileStep
<1>4. OwnWaker'
  BY Zenon, OwnStep
<1>5. DisarmedWaker'
  BY Zenon, DisarmedStep
<1>6. TakenBack'
  BY Zenon, TakenBackStep
<1>7. Caught'
  BY Zenon, CaughtStep
<1>8. WaiterPending'
  BY Zenon, WaiterStep
<1>9. WatcherPending'
  BY Zenon, WatcherStep
<1> QED  BY Zenon, <1>1, <1>2, <1>3, <1>4, <1>5, <1>6, <1>7, <1>8, <1>9

\* Nobody blocked on a descriptor or watching one is stranded, for any
\* processes, numbers and calls, as long as the operating system hands out no
\* number on which a call is still going on.
THEOREM NobodyStrandedHolds ==
    ASSUME ~ Overlap
    PROVE  Spec => []NobodyStranded
<1>1. ReactorInv => NobodyStranded
  BY Zenon DEF ReactorInv, WaiterPending, WatcherPending, NobodyStranded
<1> QED  BY <1>1, ReactorInit, ReactorNext, PTL DEF Spec

====================================================================================
