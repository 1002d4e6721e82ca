------------------------------ MODULE NativeReactor ------------------------------
(***************************************************************************)
(* The native reactor (koja-runtime-posix/src/reactor.rs): processes on    *)
(* their workers block on descriptors, watch and close them, the reactor   *)
(* thread polls.  One step is one hold of the `wakers' or the `registered' *)
(* mutex, one slot hold or one system call; a close is the one operation   *)
(* that holds `wakers' over two steps.                                     *)
(*                                                                         *)
(* A file is used by the process that opened it and closed by anyone.  The *)
(* poller and the kernel are external: an entry is armed, disabled by the  *)
(* event it reports, and gone when its descriptor is closed.               *)
(***************************************************************************)
EXTENDS Naturals, FiniteSets

CONSTANTS
    Processes,
    Fds,       \* the descriptor numbers
    MaxFiles,  \* bound: files opened in a behaviour
    Menus,     \* the calls and faults of a behaviour, one menu chosen at the start
    MaxCalls,  \* bound: calls and faults in a behaviour
    Overlap    \* a number may be handed out while a call on its last file goes on

ASSUME ReactorAssumption ==
    /\ Fds \subseteq Nat /\ Fds # {} /\ IsFiniteSet(Fds)
    /\ {MaxFiles, MaxCalls} \subseteq Nat /\ Overlap \in BOOLEAN

VARIABLES
    file,        \* [Fds -> the file open under the number, 0 when closed]
    opened,      \* files opened so far
    readable,    \* the files that are ready
    polled,      \* [Fds -> the poller's entry]
    registered,  \* the set behind its mutex
    wakers,      \* the map behind its mutex
    stage,       \* where the reactor thread is
    events,      \* the descriptors its latest wait reported
    fired,       \* the wakers its latest poll returned, not yet applied
    pc,          \* [Processes -> label]
    op,          \* [Processes -> the call in progress]
    fd,          \* [Processes -> the descriptor of that call]
    owned,       \* [Processes -> the file it opened last]
    state,       \* [Processes -> lifecycle state]
    deadline,    \* [Processes -> "none", "ahead" or "past"]
    mail,        \* [Processes -> a system message is queued]
    told,        \* [Processes -> an IOReady came since the latest watch]
    claim,       \* [Processes -> the waker taken out to be woken]
    menu,        \* the menu of this behaviour
    calls        \* calls and faults so far

kernel == <<file, opened, readable, polled>>
tables == <<registered, wakers>>
thread == <<stage, events, fired>>
procs == <<pc, op, fd, owned, state, deadline, mail, told, claim>>
bounds == <<menu, calls>>
vars == <<kernel, tables, thread, procs, bounds>>

Nobody == [kind |-> "None", pid |-> "none"]
Resume(p) == [kind |-> "Resume", pid |-> p]
Deliver(p) == [kind |-> "Deliver", pid |-> p]

Init ==
    /\ file = [n \in Fds |-> 0] /\ opened = 0 /\ readable = {}
    /\ polled = [n \in Fds |-> "absent"]
    /\ registered = {} /\ wakers = [n \in Fds |-> Nobody]
    /\ stage = "wait" /\ events = {} /\ fired = {}
    /\ pc = [p \in Processes |-> "body"] /\ op = [p \in Processes |-> "none"]
    /\ fd = [p \in Processes |-> CHOOSE n \in Fds : TRUE] /\ owned = [p \in Processes |-> 0]
    /\ state = [p \in Processes |-> "Running"]
    /\ deadline = [p \in Processes |-> "none"]
    /\ mail = [p \in Processes |-> FALSE] /\ told = [p \in Processes |-> FALSE]
    /\ claim = [p \in Processes |-> Nobody]
    /\ menu \in Menus /\ calls = 0

\* A call or a fault, within the bound.
spends(what) == what \in menu /\ calls < MaxCalls /\ calls' = calls + 1 /\ UNCHANGED menu

go(p, label) == pc' = [pc EXCEPT ![p] = label]

\* Mutant: the lock is dropped between the disarm and the close.
wakers_unlocked_early == TRUE

\* Nobody holds the `wakers' mutex across steps.
wakers_unlocked == \A q \in Processes : pc[q] # "close"

\* promote_io_waiter: a process not parked on I/O is left alone.
promote_io_waiter(p) ==
    state' = [state EXCEPT ![p] = IF @ = "WaitingIO" THEN "Runnable" ELSE @]

\* A waker is carried out: the waiter is promoted, the watcher gets its message.
carry_out(w) ==
    \/ w.kind = "Resume" /\ promote_io_waiter(w.pid) /\ UNCHANGED told
    \/ w.kind = "Deliver" /\ told' = [told EXCEPT ![w.pid] = TRUE] /\ UNCHANGED state

------------------------------------------------------------------------------
\* Calls of a process body.

body(p) == pc[p] = "body"
has_file(p) == \E n \in Fds : file[n] = owned[p] /\ owned[p] # 0

\* A call of p on the file it opened begins.
begins(p, label, what) ==
    /\ body(p)
    /\ \E n \in Fds : file[n] # 0 /\ file[n] = owned[p] /\ fd' = [fd EXCEPT ![p] = n]
    /\ go(p, label) /\ op' = [op EXCEPT ![p] = what]

\* open, accept, socket: the lowest free number (external).
open(p) ==
    \E n \in Fds :
        /\ body(p) /\ ~has_file(p)
        /\ opened < MaxFiles
        /\ file[n] = 0 /\ \A m \in Fds : file[m] = 0 => n <= m
        /\ Overlap \/ \A q \in Processes : op[q] \in {"none", "close"} \/ fd[q] # n
        /\ opened' = opened + 1
        /\ file' = [file EXCEPT ![n] = opened']
        /\ owned' = [owned EXCEPT ![p] = opened']
        /\ UNCHANGED <<readable, polled, tables, thread, pc, op, fd, state, deadline, mail, told, claim, bounds>>

\* block_until_ready is called: read, write, accept, connect.
call(p) ==
    /\ spends("block") /\ begins(p, "syscall", "block")
    /\ \E d \in {"none", "ahead"} :
        /\ d = "ahead" => "deadline" \in menu
        /\ deadline' = [deadline EXCEPT ![p] = d]
    /\ UNCHANGED <<kernel, tables, thread, owned, state, mail, told, claim>>

koja_rt_watch_fd(p) ==
    /\ spends("watch") /\ begins(p, "insert", "watch")
    /\ told' = [told EXCEPT ![p] = FALSE]
    /\ UNCHANGED <<kernel, tables, thread, owned, state, deadline, mail, claim>>

koja_rt_unwatch_fd(p) ==
    /\ spends("watch") /\ begins(p, "remove", "unwatch")
    /\ UNCHANGED <<kernel, tables, thread, owned, state, deadline, mail, told, claim>>

\* The run loop takes the system message.
takes_mail(p) ==
    /\ body(p) /\ mail[p]
    /\ mail' = [mail EXCEPT ![p] = FALSE]
    /\ UNCHANGED <<kernel, tables, thread, pc, op, fd, owned, state, deadline, told, claim, bounds>>

\* The call returns to the body.
returns(p) ==
    /\ go(p, "body") /\ op' = [op EXCEPT ![p] = "none"]
    /\ deadline' = [deadline EXCEPT ![p] = "none"]

------------------------------------------------------------------------------
\* register and deregister.

waker_of(p) == IF op[p] = "watch" THEN Deliver(p) ELSE Resume(p)

\* Where a finished registration or deregistration goes on.
resumes_at(p) ==
    IF op[p] = "block" THEN go(p, IF pc[p] = "disarm" THEN "resumed" ELSE "parked")
                            /\ UNCHANGED <<op, deadline>>
    ELSE returns(p)

insert(p) ==
    /\ pc[p] = "insert" /\ wakers_unlocked
    /\ wakers' = [wakers EXCEPT ![fd[p]] = waker_of(p)]
    /\ go(p, "arm")
    /\ UNCHANGED <<kernel, registered, thread, op, fd, owned, state, deadline, mail, told, claim, bounds>>

\* modify wants an entry, add wants none; both want an open descriptor.
arms(n) == file[n] # 0 /\ (n \in registered <=> polled[n] # "absent")

arm(p) ==
    /\ pc[p] = "arm"
    /\ IF arms(fd[p])
       THEN /\ registered' = registered \cup {fd[p]}
            /\ polled' = [polled EXCEPT ![fd[p]] = "armed"]
            /\ resumes_at(p)
       ELSE /\ registered' = registered \ {fd[p]}
            /\ go(p, "take_back")
            /\ UNCHANGED <<polled, op, deadline>>
    /\ UNCHANGED <<file, opened, readable, wakers, thread, fd, owned, state, mail, told, claim, bounds>>

\* Mutant: a registration that failed keeps its waker.
take_back_Keeps(p) ==
    /\ pc[p] = "take_back" /\ wakers_unlocked
    /\ resumes_at(p)
    /\ UNCHANGED <<kernel, tables, thread, fd, owned, state, mail, told, claim, bounds>>

\* A failed registration takes back the waker it inserted, if it is still there.
take_back(p) ==
    /\ pc[p] = "take_back" /\ wakers_unlocked
    /\ IF wakers[fd[p]] = waker_of(p)
       THEN /\ wakers' = [wakers EXCEPT ![fd[p]] = Nobody]
            /\ claim' = [claim EXCEPT ![p] = waker_of(p)]
            /\ go(p, "wake")
            /\ UNCHANGED <<op, deadline>>
       ELSE resumes_at(p) /\ UNCHANGED <<wakers, claim>>
    /\ UNCHANGED <<kernel, registered, thread, fd, owned, state, mail, told, bounds>>

\* The tail of a failed registration and of a close.
wake(p) ==
    /\ pc[p] = "wake"
    /\ carry_out(claim[p])
    /\ claim' = [claim EXCEPT ![p] = Nobody]
    /\ resumes_at(p)
    /\ UNCHANGED <<kernel, tables, thread, fd, owned, mail, bounds>>

remove(p) ==
    /\ pc[p] = "remove" /\ wakers_unlocked
    /\ wakers' = [wakers EXCEPT ![fd[p]] = Nobody]
    /\ go(p, "disarm")
    /\ UNCHANGED <<kernel, registered, thread, op, fd, owned, state, deadline, mail, told, claim, bounds>>

\* The set and the poller after `disarm' of descriptor n.
disarmed(n) ==
    /\ registered' = registered \ {n}
    /\ polled' = [polled EXCEPT ![n] = IF n \in registered THEN "absent" ELSE @]

disarm(p) ==
    /\ pc[p] = "disarm"
    /\ disarmed(fd[p])
    /\ resumes_at(p)
    /\ UNCHANGED <<file, opened, readable, wakers, thread, fd, owned, state, mail, told, claim, bounds>>

------------------------------------------------------------------------------
\* release_fd_and_close, of any open descriptor.

release_fd(p) ==
    \E n \in Fds :
        /\ spends("close") /\ body(p) /\ file[n] # 0 /\ wakers_unlocked
        /\ claim' = [claim EXCEPT ![p] = wakers[n]]
        /\ wakers' = [wakers EXCEPT ![n] = Nobody]
        /\ disarmed(n)
        /\ fd' = [fd EXCEPT ![p] = n]
        /\ go(p, "close") /\ op' = [op EXCEPT ![p] = "close"]
        /\ UNCHANGED <<file, opened, readable, thread, owned, state, deadline, mail, told>>

\* Mutant: the waker that was taken out is not woken.
close_raw_Silent(p) ==
    /\ pc[p] = "close"
    /\ file' = [file EXCEPT ![fd[p]] = 0]
    /\ readable' = readable \ {file[fd[p]]}
    /\ polled' = [polled EXCEPT ![fd[p]] = "absent"]
    /\ returns(p)
    /\ UNCHANGED <<opened, tables, thread, fd, owned, state, mail, told, claim, bounds>>

\* The kernel drops the entry of a closed descriptor without a word.
close_raw(p) ==
    /\ pc[p] = "close"
    /\ file' = [file EXCEPT ![fd[p]] = 0]
    /\ readable' = readable \ {file[fd[p]]}
    /\ polled' = [polled EXCEPT ![fd[p]] = "absent"]
    /\ IF claim[p] = Nobody THEN returns(p) ELSE go(p, "wake") /\ UNCHANGED <<op, deadline>>
    /\ UNCHANGED <<opened, tables, thread, fd, owned, state, mail, told, claim, bounds>>

------------------------------------------------------------------------------
\* block_until_ready and io_block.

\* The system call: a closed descriptor ends the call, a ready one serves it,
\* else it is EAGAIN, which ends the call when the deadline is past.
syscall(p) ==
    LET f == file[fd[p]]
    IN  /\ pc[p] = "syscall"
        /\ \/ f = 0 /\ returns(p) /\ UNCHANGED readable
           \/ f \in readable /\ returns(p) /\ readable' = readable \ {f}
           \/ /\ f # 0 /\ f \notin readable /\ deadline[p] = "past"
              /\ returns(p) /\ UNCHANGED readable
           \/ /\ f # 0 /\ f \notin readable /\ deadline[p] # "past"
              /\ go(p, "park") /\ UNCHANGED <<readable, op, deadline>>
        /\ UNCHANGED <<file, opened, polled, tables, thread, fd, owned, state, mail, told, claim, bounds>>

\* try_park_io, one slot hold.  Queued system mail ends the call; over a
\* tombstone the park is refused and the process switched out for good.
try_park_io(p) ==
    /\ pc[p] = "park"
    /\ \/ mail[p] /\ returns(p) /\ UNCHANGED state
       \/ ~mail[p] /\ state[p] = "Dead" /\ go(p, "parked") /\ UNCHANGED <<op, deadline, state>>
       \/ /\ ~mail[p] /\ state[p] # "Dead"
          /\ state' = [state EXCEPT ![p] = "WaitingIO"]
          /\ go(p, "insert") /\ UNCHANGED <<op, deadline>>
    /\ UNCHANGED <<kernel, tables, thread, fd, owned, mail, told, claim, bounds>>

\* A worker claims the process, and io_block goes on to its deregister.
resume(p) ==
    /\ pc[p] = "parked" /\ state[p] = "Runnable"
    /\ state' = [state EXCEPT ![p] = "Running"]
    /\ go(p, "remove")
    /\ UNCHANGED <<kernel, tables, thread, op, fd, owned, deadline, mail, told, claim, bounds>>

\* Interrupted ends the call; Ready and TimedOut retry the system call.
resumed(p) ==
    /\ pc[p] = "resumed"
    /\ IF mail[p] THEN returns(p) ELSE go(p, "syscall") /\ UNCHANGED <<op, deadline>>
    /\ UNCHANGED <<kernel, tables, thread, fd, owned, state, mail, told, claim, bounds>>

------------------------------------------------------------------------------
\* The reactor thread.

ready_entries == {n \in Fds : polled[n] = "armed" /\ file[n] \in readable}

\* poller.wait (external): an event disables its entry.
poll_wait ==
    /\ stage = "wait"
    /\ \E E \in SUBSET ready_entries \ {{}} :
        /\ events' = E
        /\ polled' = [n \in Fds |-> IF n \in E THEN "disabled" ELSE polled[n]]
    /\ stage' = "collect"
    /\ UNCHANGED <<file, opened, readable, tables, fired, procs, bounds>>

poll_collect ==
    /\ stage = "collect" /\ wakers_unlocked
    /\ fired' = {wakers[n] : n \in events} \ {Nobody}
    /\ events' = {}
    /\ stage' = IF fired' = {} THEN "wait" ELSE "apply"
    /\ UNCHANGED <<kernel, tables, procs, bounds>>

\* apply_wakers, one slot hold at a time, the waiters first.
apply_wakers ==
    /\ stage = "apply"
    /\ \E w \in fired :
        /\ w.kind = "Deliver" => \A v \in fired : v.kind = "Deliver"
        /\ carry_out(w)
        /\ fired' = fired \ {w}
    /\ stage' = IF fired' = {} THEN "wait" ELSE "apply"
    /\ UNCHANGED <<kernel, tables, events, pc, op, fd, owned, deadline, mail, claim, bounds>>

------------------------------------------------------------------------------
\* The rest of the world.

becomes_ready ==
    /\ \E n \in Fds : file[n] # 0 /\ readable' = readable \cup {file[n]}
    /\ UNCHANGED <<file, opened, polled, tables, thread, procs, bounds>>

deadline_passes(p) ==
    /\ deadline[p] = "ahead"
    /\ deadline' = [deadline EXCEPT ![p] = "past"]
    /\ UNCHANGED <<kernel, tables, thread, pc, op, fd, owned, state, mail, told, claim, bounds>>

\* The timer that io_block armed after its registration.
promote_expired(p) ==
    /\ pc[p] = "parked" /\ state[p] = "WaitingIO" /\ deadline[p] = "past"
    /\ promote_io_waiter(p)
    /\ UNCHANGED <<kernel, tables, thread, pc, op, fd, owned, deadline, mail, told, claim, bounds>>

\* A lifecycle message: it ends the wait.
signal(p) ==
    /\ spends("signal") /\ ~mail[p] /\ state[p] # "Dead"
    /\ mail' = [mail EXCEPT ![p] = TRUE]
    /\ promote_io_waiter(p)
    /\ UNCHANGED <<kernel, tables, thread, pc, op, fd, owned, deadline, told, claim>>

\* A running process is only marked; it goes on to its next park.
kill(p) ==
    /\ spends("kill") /\ state[p] # "Dead"
    /\ state' = [state EXCEPT ![p] = "Dead"]
    /\ UNCHANGED <<kernel, tables, thread, pc, op, fd, owned, deadline, mail, told, claim>>

Calls(p) ==
    \/ open(p) \/ call(p) \/ koja_rt_watch_fd(p) \/ koja_rt_unwatch_fd(p) \/ takes_mail(p)
    \/ release_fd(p)

Runtime(p) ==
    \/ insert(p) \/ arm(p) \/ take_back(p) \/ wake(p) \/ remove(p) \/ disarm(p) \/ close_raw(p)
    \/ syscall(p) \/ try_park_io(p) \/ resume(p) \/ resumed(p) \/ promote_expired(p)

Poll == poll_wait \/ poll_collect \/ apply_wakers

Next ==
    \/ \E p \in Processes : Calls(p) \/ Runtime(p) \/ deadline_passes(p) \/ signal(p) \/ kill(p)
    \/ Poll \/ becomes_ready

\* The operating system schedules the workers and the reactor thread; a body
\* need not call anything, and nobody need signal, kill or close.
Spec ==
    /\ Init /\ [][Next]_vars
    /\ WF_vars(Poll) /\ \A p \in Processes : WF_vars(Runtime(p))

------------------------------------------------------------------------------
\* Somebody is going to carry out the waker w of descriptor n.
pending(w, n) ==
    \/ wakers[n] = w /\ (polled[n] = "armed" \/ n \in events)
    \/ w \in fired
    \/ \E q \in Processes : pc[q] \in {"close", "wake"} /\ claim[q] = w

\* "Closing an fd from one worker can't strand a process blocked on it from
\* another": a process parked on I/O without a deadline, however its
\* registration raced with events, signals and closes, has a waker that the
\* poller, the reactor thread or a closer will carry out, and so has a watcher
\* that was not told yet.
NobodyStranded ==
    \A p \in Processes :
        /\ pc[p] = "parked" /\ state[p] = "WaitingIO" /\ deadline[p] = "none"
              => pending(Resume(p), fd[p])
        /\ \A n \in Fds : wakers[n] = Deliver(p) /\ op[p] # "watch" /\ ~told[p]
              => pending(Deliver(p), n)

\* The lock held over the close "keeps fd-number reuse from attaching a stale
\* waker to an unrelated fresh fd": a closed number has a waker only while a
\* registration is about to fail and take it back.
ClosedHasNoWaker ==
    \A n \in Fds :
        file[n] = 0 /\ wakers[n] # Nobody
            => \E p \in Processes : pc[p] \in {"arm", "take_back"} /\ fd[p] = n

\* A process waiting on a descriptor that is ready or closed resumes.
WaiterResumes ==
    \A p \in Processes :
        (/\ pc[p] = "parked" /\ state[p] = "WaitingIO"
         /\ file[fd[p]] = 0 \/ file[fd[p]] \in readable) ~> state[p] # "WaitingIO"
================================================================================
