# Koja: TLA+ verification project

Koja is a language with Erlang-style processes. A program runs either natively,
compiled through LLVM and linked with a multi-threaded runtime, or in an
interpreter that runs the same intermediate code on one thread. This project
models the two runtimes and the part of the compiler that decides when memory
is released and when a process yields. TLC checks the models on small
instances; TLAPS proves the central invariants of the native runtime, its timers,
idle park and reactor for every size.

Paths are relative to `crates/`. "Table" is
`koja-runtime-core/src/process_table.rs`, "scheduler" is
`koja-runtime-posix/src/scheduler.rs`, "reactor" is
`koja-runtime-posix/src/reactor.rs`.

## 1. The system and its parts

| Part | Source | Modules |
|---|---|---|
| Lifecycle word | `koja-runtime-core/lifecycle.rs` | `Lifecycle` |
| Mailbox | `koja-runtime-core/mailbox.rs`, `protocol.rs` | `Mailbox` |
| Process table | table | `ProcessTable`, `NativeScheduler`, `CooperativeScheduler` |
| Native scheduler, signals | scheduler, `signals.rs` | `NativeScheduler` |
| Idle park | scheduler | `IdlePark` |
| Timer wheel and service | `koja-runtime-core/timer_wheel.rs`, `timer_service.rs` | `TimerWheel`, `TimerService`, `NativeTimers`, `Deadlines` |
| Native reactor | reactor | `NativeReactor`, `NativeScheduler` |
| Ready queue | `koja-runtime-core/ready_queue.rs` | `ReadyQueue` |
| Cooperative driver | `koja-runtime-core/driver.rs` | `CooperativeScheduler` |
| Interpreter's scheduler and reactor | `koja-ir-eval/scheduler.rs`, `reactor.rs`, `intrinsics/process.rs` | `CooperativeScheduler` |
| Definite assignment | `koja-typecheck/pipeline/definite_assignment.rs` | `Typecheck` |
| Lowering | `koja-ir/lower/` | `IR`, `Lowering` |
| IR passes | `koja-ir/tail_calls.rs`, `yield_checks.rs`, `dominators.rs`, `elaborate/consume.rs`, `pipeline.rs` | `TailCalls`, `YieldChecks`, `ConsumeFusion`, `Compiler` |
| Emitted code, heap blocks | `koja-ir-llvm/emit/`, `intrinsics/list.rs`, `koja-runtime-posix/util.rs` | `Machine` |
| Everything else | section 7 | not modelled |

How the parts interact. A process is a slot of the table. The slot's packed
*lifecycle word* (generation, state, `on_cpu`) is changed by compare-and-swap
edges only; the rest of the slot (mailbox, deadline, wait target, exit reason)
is behind the slot's mutex; monitors, children, call waiters, staged kills and
the freelist are behind one registry mutex. A thread holds at most one of these
locks at a time, so a kill, a monitor or a timed receive is a *sequence* of
holds, and other threads run in between. Workers pop PIDs from run queues,
claim them, run them until they park, yield or die, and release them. A killed
process that is on a worker is only tombstoned: it goes on running until it
switches out, and its owner then reclaims the slot. Deaths stage work (children
to kill, notices to deliver, callers to wake) in the registry, which
`settle_exits` drains to a fixpoint. A worker that finds nothing sleeps on a
condvar until work is published or the soonest timer is due. The reactor
thread turns readiness of descriptors into wakes.

The interpreter has the same table under a driver that does everything on one
thread: each turn of its loop delivers signals, fires timers, enforces the
grace deadline and resumes one future. There the hard part is not data races but
the order of the steps, and what a step leaves for a later one.

Nothing preempts a process: it yields where the compiler put a yield check.
Nothing collects garbage: a value is released where the compiler put a drop.
That is what ties the compiler models to the runtime ones.

## 2. Modules

| Module | What it is |
|---|---|
| `Lifecycle`, `Mailbox` | the word and the mailbox, as pure operators |
| `ProcessTable` | the table's variables and its holds as action fragments |
| `NativeScheduler` | workers, intrinsics, timers and signals over the table |
| `SchedulerTypes`, `SchedulerCustody`, `SchedulerProperties` | its types; who holds each slot; its other invariants, action and liveness properties |
| `ProcessLifetime` | abstract: what a PID's life may be |
| `TimerWheel`, `TimerService` | the wheel and the service, as pure operators |
| `NativeTimers` | the service behind its mutex and lock-free gate, drained by workers |
| `Deadlines` | abstract: a set of deadlines |
| `IdlePark` | sleeping workers and those who wake them |
| `NativeReactor` | descriptors, wakers, the poller and the reactor thread |
| `ReadyQueue` | three FIFO levels with aging |
| `CooperativeScheduler` | driver and interpreter scheduler; extends `ReadyQueue` |
| `Typecheck` | syntax and the definite-assignment analysis |
| `IR`, `Lowering` | blocks and instructions; source to IR with clones and drops |
| `TailCalls`, `YieldChecks`, `ConsumeFusion` | the passes |
| `Machine` | what emitted code does to slots, registers and heap blocks |
| `Meaning` | the reference: evaluation under value semantics |
| `Compiler` | the pipeline and an execution, composed; the properties |
| `MCScheduler`, `MCTimers`, `MCCooperative`, `MCReactor`, `MCCompiler` | instances for TLC |
| `TypeProofs`, `OwnershipProofs`, `CustodyProofs`, `WakeupProofs`, `SchedulerProofs` | proofs about `NativeScheduler` |
| `TimerProofs`, `QueueProofs`, `ReactorProofs` | proofs about `NativeTimers`, about `IdlePark` and `ReadyQueue`, about `NativeReactor` |

### The native runtime

`word`, `parent`, `execution`, `hot`, `published` are the arena (one entry per
slot); `registry` is the record behind the registry mutex; `alive`, `active`,
`main_pid` the atomics. `ready[p]` counts the run-queue entries of a PID and
the wakes on their way to one: the queues, and stealing between them, are
abstracted to a multiset, because any worker may end up with any entry. Each
worker has a label `pc`, the PID it owns `cur`, the PID it is reclaiming
`reap`, and `hand`: the local variables that survive from one hold to the next.
`dying[w]` is the snapshot a death edge carries from its slot hold to its
registry hold. `notified`, `accepted`, `given_up` and the `token` of a notice
are history: no guard reads them.

One step is one slot hold, one registry hold or one atomic operation, whole:
everything the code does under that hold happens in the step. What the code
does in two holds is two actions with a label in between: `death_edge` (slot)
then `death_pass` (registry); `after_switch`, `reclaim`, `free`; `try_claim`
then `count_claim`; `koja_rt_spawn` (the draining test) then `table_spawn`;
`take_reply_or_park` then `arm_deadline`. A body is arbitrary: at label `run`
it may call any intrinsic the scenario still allows, on any PID ever handed
out, dead and recycled ones included, or none, for ever.

Messages are a tag, a sender and a token. Time is a counter. Memory is
sequentially consistent in the model. That is an assumption, not a result: the
code uses acquire/release on the words, mutexes for most of the rest, and
relaxed atomics for `alive`, `active`, `parent` and the flags, whose loads may
be staler on a real machine than they are here.

`TimerWheel` is the struct field by field (buckets, bitmap, overflow map,
cursor, soonest bound). `NativeTimers` adds the gate that workers read without
the lock, clock readings of any age, and the batch a worker applies after it
dropped the lock. `IdlePark` has the sleeper count, the condvar and the
re-check, with the timers abstracted to what `Deadlines` promises.

`NativeReactor` has one step per hold of `wakers` or `registered`, slot hold or
system call; a close keeps `wakers` over two steps, as `release_fd_and_close`
does. The kernel is external: it hands out the lowest free number, drops the
poller's entry of a descriptor when it is closed, and disables an entry that
reported an event. A descriptor is used by the process that opened it and
closed by anybody. When two processes use one descriptor the last registration
replaces the other's waker, as the reactor's comment says ("the last `register`
for an fd wins"), and the other waits for ever; the model leaves this out.

### The interpreter's runtime

One thread runs everything, so one operation of the interpreter is one step,
and the only interleaving is with time, signals and descriptors. `phase` is
where `CooperativeDriver::run` is in its turn; `proc[p]` is a slot with its
mailbox and the place (`at`) inside an intrinsic where the future is suspended;
`levels` and `ages` are `ReadyQueue`'s. PIDs are used once here (reuse is the
native model's subject), the wheel is the set of its entries (`NativeTimers`
shows that it behaves as one), each process has one descriptor, and the token
counters of calls and monitors are one. Exit reasons, crash information,
context and spans are left out. A step of the driver is a sequence of pushes and
pops of `ReadyQueue`, so the bound proved of it in section 5 holds here.

### The compiler

`Compiler` takes a function through `Typecheck!Accepted`, `lower_function`,
`rewrite_tail_calls`, `insert_yield_checks` and the consume fusion, one step
each, then runs it one block at a time on `Machine`. Values are heap values of
one kind (a list, or a leaf block such as a string) or unit; a condition is
opaque, both outcomes are explored; a callee other than the function itself is
opaque and returns a fresh value; an append finds room in its block or does not
(`roomy`), both explored. Statements are assignment, call, append, `if`,
`while`, `loop`, `break` and `return`. `match`, `receive`, closures, struct
fields and the slot-carried fusion of `overwrite.rs` are left out.

## 3. Runs

| Run | States | What it checks |
|---|---|---|
| `death` | 387,761 | who lives and dies: `TypeOK`, `OneOwner`, `SlotsConserved`, `Custody`, `NoLostProcess`, `CountersAgree`, `NoOrphans`, `MonitorAnsweredOnce` |
| `talk` | 165,108 | who talks to whom: `NoLostWakeup`, `ReceiveFindsMail`, `DeadlineWillFire`, `NoLeakedDeadline`, `CallerNotStranded`, `NoReplyAfterGivingUp`, refinement of `ProcessLifetime` |
| `live` | 69,952 | liveness: `OrphansDie`, `CallersOfTheDeadWake`, `GraceEndsEveryone` |
| `timers` | 546,535 | `GateNeverLate`, refinement of `Deadlines` |
| `idle_park` | 218,155 | `NoWorkWhileAllSleep`, `NoOversleep`, `EveryoneLeaves` |
| `reactor` | 249,382 | `NobodyStranded`, `ClosedHasNoWaker`, `WaiterResumes` |
| `cooperative` | 110,109 | `AgeBound`, `DeathsSettled`, `NoProcessLost`, `ParkedWithNothingToDo`, `DeadlinesAgree`, `RunnableRuns`, `DeadlineEndsWait`, `DrainEnds` |
| `compiler` | 68,406 | `WellFormed`, `DominatorsExact`, `MemorySafe`, `MeaningKept`, `NothingLeaks`, `LoopsYield`, over 2222 functions |
| `stranded_mail`, `join_veto`, `consume_alias`, `fd_reuse` | violated | section 6 |

Deadlock checking is off everywhere: a program may come to rest (every process
waiting, budget spent), and a compiled function ends.

Bounds. The scheduler runs have two workers, which is where the races are:
owner against killer, parker against waker, settler against spawner.
`MaxSlots` (2 or 3) and `MaxGeneration` (1 or 2) give grandchildren, recycled
slots, and stale PIDs and queue entries that name them. `MaxNow` is 2 where a
deadline is to expire and a later one to be set. `MaxMonitors` and `MaxCalls`
(up to 2) let a token of one call or monitor meet the next one. A scenario of
`MCScheduler` says how often each intrinsic may be called: it has the
intrinsics of one protocol plus kills. Workers are symmetric; the safety runs
use that, the liveness runs do not.

`timers` has a wheel of two buckets of two instants and five instants, so that
entries land behind the cursor, in every bucket, on the horizon and in the
overflow map. `idle_park` has three pieces of work for two workers, and two
idle caps. `reactor` has two processes, two numbers and three files: one number
is reused; each menu of `MCReactor` is blocking, closing and one more way for a
wait to end, three calls in all. It assumes that no number is handed out while
a call on its previous file is still going on (`Overlap`); `fd_reuse` drops the
assumption. `cooperative` has three processes and up to four operations chosen
from the menu of a scenario, a starvation threshold of 1, and time up to 3.
`compiler` has the families of functions that `MCCompiler` lists, with at most
three conditions and ten blocks executed, enough for two iterations of a loop
in a loop and for a self-call after a branch. It leaves out the shapes of
section 6.

Fairness. The native `FairSpec` is weak fairness of each worker's `Runtime`
steps: the operating system schedules every worker thread, and the runtime code
between two intrinsics of a body is finite. Nothing is assumed of bodies,
timers or signals. `IdlePark` and `NativeReactor` add the reactor thread, for
the same reason; in `IdlePark` time need not pass, so no wake may rest on a
timeout. The interpreter has weak fairness of its one thread and strong
fairness of the clock: time passes in every phase, and `tick` is confined to
the phases that read the clock only to save states.

## 4. What the properties say

The native runtime:

* `OneOwner`: `on_cpu` is ownership. `with_execution` in the table is unsafe
  code whose contract is this property.
* `SlotsConserved`, `Custody`: between the two holds of a death a slot is in
  nobody's table. Exactly one program counter must account for it.
* `NoLostProcess`: a process that could run is queued or being queued.
* `CountersAgree`: the counters that decide shutdown never drift.
* `NoOrphans`, `OrphansDie`: a spawn racing the parent's death leaves no child.
* `MonitorAnsweredOnce`: a monitor and its target's death, however they race,
  give one notice.
* `NoLostWakeup`, `ReceiveFindsMail`: no delivery between the empty test and
  the park is missed, and no stale timer ends a later wait.
* `DeadlineWillFire`, `NoLeakedDeadline`: deadlines are armed after the park,
  so arm, wake, cancel and death come in any order.
* `CallerNotStranded`, `CallersOfTheDeadWake`, `NoReplyAfterGivingUp`: a call
  whose callee dies ends; a reply is not accepted for a call that has ended.
* `GraceEndsEveryone`: the grace kill reads the arena length once; processes
  spawned behind the scan die with their parents.
* `ImplementsDeadlines`, `GateNeverLate`: stale readings, cancels of fired
  entries and wrapped buckets never lose, repeat or advance a timer.
* `NoWorkWhileAllSleep`, `NoOversleep`, `EveryoneLeaves`: the re-check under the
  sleeper mutex is enough, and shutdown reaches every sleeper.
* `NobodyStranded`, `ClosedHasNoWaker`, `WaiterResumes`: the order of park,
  insert, arm, close and wake leaves nobody waiting for an event that cannot
  come, and no waker on a closed number.

The interpreter's runtime:

* `DeathsSettled`: a cascade is finished before anybody else runs.
* `NoProcessLost`: every live process has its future, and a queue entry if it
  can run.
* `ParkedWithNothingToDo`: nobody parks on mail, a reply or a signal.
* `DeadlinesAgree`, `DeadlineEndsWait`: waits and wheel entries correspond, and
  a wait with a deadline ends.
* `AgeBound`, `RunnableRuns`: aging keeps every priority running.
* `DrainEnds`: after SIGTERM the run ends, whatever the processes do.

The compiler, for every function and every outcome of its conditions:

* `WellFormed`: blocks are named once and every branch has a target, after
  each pass.
* `DominatorsExact`: the iteration of `dominators.rs` computes dominance as
  defined by paths.
* `MemorySafe`, `NothingLeaks`: no freed block is touched, none is left.
* `MeaningKept`: calls and results are those of `Meaning`.
* `LoopsYield`: no cycle of blocks and no self-call runs without a yield check.

Every property has a mutant: an operator beside the one it mutates, with the
bug in its name (a dropped guard, a skipped index update, a missing requeue).

## 5. Proofs

Each theorem is about the `Spec` of a module and holds for every value of the
constants its assumptions allow: `TableAssumption` and `BudgetAssumption` (any
number of slots, generations and workers, any scenarios), `IdleAssumption` (any
finite number of workers), `WheelAssumption` and `NativeTimersAssumption` (any
buckets, resolution and grace), `ReactorAssumption` (any processes, files and finite
set of numbers), `ThresholdAssumption` (any threshold).

`NativeScheduler`:

* `TypeCorrect` (`TypeProofs`): `Spec => []TypeOK`. One lemma per fragment of
  the table, one step per action.
* `CustodyHolds` (`CustodyProofs`): `Spec => []Custody`. Neither `OneOwner` nor
  `SlotsConserved` is inductive: a released tombstone needs a worker at
  `reclaim`, a vacated slot a worker at `free` or with `dying[w].reclaimed`, and
  these must be unique. `Custody` adds who that worker is, and what each label
  implies of `cur`, `hand` and `dying` (`LabelAgrees`). The proof: nearly every
  action is *quiet* (`OwnershipProofs`: it moves words only among live states
  and no slot between custodians), quiet steps preserve `Custody`
  (`CustodyQuiet`), and the nine that are not hand one slot over and are done
  one by one (`ClaimCustody`, `SwitchCustody`, `ReclaimCustody`, `FreeCustody`,
  `DeathCustody` with `KillCustody`, `PassCustody`, `SpawnCustody`).
* `OneOwnerHolds`, `SlotsConservedHolds`: consequences of `Custody`.
* `LifetimeHolds` (`CustodyProofs`): `Spec => ImplementsLifetime`. A PID's
  phase is read off its slot's word; quiet words stutter and each of the other
  edges is `Claim`, `Release`, `Die`, `Free`, `Vanish` or `Birth`. `Custody` is
  needed for `Free` (only tombstones off the CPU are reclaimed) and for `Birth`
  (the slot spawn takes is vacant).
* `NoLostProcessHolds`, `NoLostWakeupHolds`, `ReceiveFindsMailHolds`: none of the
  three is inductive. Whether a process may park depends on the frame its owner
  is in, and whether it may stay parked on who wrote its slot since. `WakeInv`
  (`WakeupProofs`) says, per slot, that a claimable word has a queue entry, that
  a parked one has nothing to wake for and has wait target, awaited token and
  deadline as its frame says (`SlotOK`); per worker, what the frame says of the
  slot it runs (`RunOK`); and that no due timer entry is the absent deadline of
  an untimed wait (`DueOK`), or a timer could wake a plain receive. The proof
  looks at each step from each slot: the owner claims it, works on it, parks it
  or leaves it; everybody else does one of six things to it (`Touched`: nothing,
  a push with its wake, a wake, a kill, a vacating, a birth), and `Touched`
  slots keep `SlotOK` whoever touched them. `Custody` says who the owner is.
* `NoReplyAfterGivingUpHolds`, an action property: `TokenInv` says that the
  awaited token of a slot was minted, was not given up and is awaited by no
  other slot. It needs `WakeInv`: the token a call gives up is the one its slot
  awaits.

The other components:

* `DeadlinesHold` (`TimerProofs`): `Spec => ImplementsDeadlines`, and
  `GateNeverLateHolds`. Of the wheel (`WheelOK`): an entry is in one place under
  a number of its own; `pending`, `occupied` and `soonest` summarise what is
  there; and an entry in a bucket is there under its own tick, or under the
  cursor's if it was late when filed, less than a rotation ahead (`Filed`). With
  the cursor not past the instant served last (`Behind`), the buckets a drain
  scans hold every due entry (`DueScanned`): the "load-bearing invariant" of
  `timer_wheel.rs`, which needs the service's stale test, since a drain with an
  older reading would move the cursor back over a late entry. Of the service:
  each process's token leads to its one deadline (`Names`). Each operation has a
  lemma that says what it does to each place (`InsertAt`, `CancelAt`,
  `DrainAt`), one that it keeps `WheelOK`, and one for the service.
* `NoWorkWhileAllSleepHolds`, `NoOversleepHolds` (`QueueProofs`): `IdleInv` adds
  that `sleepers` is the number of workers inside their wait (else a publisher
  could skip the notification while somebody sleeps) and that a worker that
  found nothing keeps an empty deque until it looks again. The step that matters
  is the last worker's lying down (`LastStep`): it saw the injector empty and
  sized its wait to the soonest timer.
* `ClosedHasNoWakerHolds` (`ReactorProofs`): through `ClosedInv`; descriptor
  numbers may be reused at any moment.
* `NobodyStrandedHolds` (`ReactorProofs`): assumes `~Overlap`, as the run does
  and as `fd_reuse` shows it must. `ReactorInv` adds to `ClosedInv` that a
  file has one number and one owner and a number one call, that the waker of an
  open number is the owner's, and that a process that parked and is still
  registering has its waker in the table or taken by somebody who will wake it
  (`Caught`).
* `AgeBoundHolds` (`QueueProofs`): `Spec_queue => []AgeBound` through `AgeInv`:
  the level served last has age 0, so at most two are starved at once and only
  one goes past the threshold, by one.

Only model-checked: the liveness properties and everything under fairness,
which are out of the prover's reach; the compiler's properties, whose modules
have recursive operators and whose induction is over programs. Not proved yet:
`CountersAgree` (cardinalities of sets the actions change), `NoOrphans`,
`MonitorAnsweredOnce`, `DeadlineWillFire`, `NoLeakedDeadline`,
`CallerNotStranded`, and the invariants of the interpreter's runtime other than
`AgeBound`.

## 6. Disagreements between code and docs

Each of the first four has a run that finds it.

1. `join_veto`. `merge_slot_states` keeps a slot after a branch only if every
   arm declared it, diverging arms included. In `if c: n = make() else: return p
   end` the value of `n` is released at the end of its arm, and a read of `n`
   after the branch, which the definite-assignment analysis accepts ("diverging
   arms … never veto a join"), reads freed memory.
2. `consume_alias`. `slot_exit_death` fuses an append with the drop of its
   receiver at the exit of the block. In `other(x, x.append(0))` the first
   argument is the slot's own value and is used after the append: the reuse
   breaks an alias that the copying path would not.
3. `stranded_mail`. One turn of the loop of `execute_receive` takes one message.
   If no arm takes it, the message is dropped and the turn goes on to the
   deadline and the park, with what is queued behind it unread. The run has the
   entry process, one cast to it, one Reload and a `receive` with a business arm
   only: the Reload comes out first and is dropped, and the process parks on the
   business message, which its arm takes. The passing run has receives with both
   arms.
4. `fd_reuse`. A descriptor is closed under a process that is in a blocking call
   on it and has not registered yet, so the close finds no waker to wake. If the
   kernel reuses the number before the process arms it, the arm succeeds on the
   new file. `register` inserts over whatever waker the number has: the old user
   and the new owner overwrite each other, and the one inserted first stays
   parked. Longer behaviours end the same way through the `deregister` of a
   process that resumes after the reuse, which removes the new owner's waker.

The rest were met while modelling and are described only:

5. Monitors are "evicted when either endpoint dies" (table:603). A process
   killed while it runs can register a monitor after its own death pass; the
   entry goes when the target dies, and the notice bounces.
6. The crash capture is "present only for `Crashed`" (table:461). A kill after a
   crash recorded its capture and before it marked itself dead yields a notice
   that says `Killed` and has a capture.
7. "New spawns are refused while this holds" (table:1798). The draining test
   and the spawn are two holds; a drain that begins between them does not refuse
   the spawn. The child is still ended by the drain (`GraceEndsEveryone`).
8. While a timer is pending a sleeping worker waits for it, not for the idle
   cap that lets it poll for signals: a latched signal waits as long.
9. `lower_break_statement` releases subject temporaries and not the locals the
   loop body bound; "Normal control-flow edges release managed values when
   their bindings leave scope" (`design/MEMORY-MODEL.md:17`). They leak.
   So do an argument temporary pending when a later argument returns, and the
   value of a loop body that ends in one. A local that is reassigned while its
   old value is a pending argument is read after its release.
10. In the interpreter a process parked while it is being resumed and woken by
    `settle_exits` has two queue entries (the stale one is skipped); the future
    of a directly killed process stays in the executor's map to the end of the
    run; a process killed in a cascade while it is resumed leaves its wheel
    entry, which fires on nobody.

## 7. Not modelled

The repository is about 127,000 lines of Rust, most of it compiler front end,
monomorphization, code generation and tools; the models cover the parts where
state is shared, ordered, released or waited for. What is left out:

* *Front end* (lexer, parser, name resolution, type inference): sequential
  passes over unbounded text and trees. No state outlives a pass, and a bounded
  instance would only restate the code. `Typecheck` has what the compiler model
  needs.
* *Monomorphization, layouts, mangling, constants*: their correctness is about
  types, which the model does not have.
* *Code generation*: only what emitted calls, locals, clones, drops, appends,
  branches and tail calls do. Debug information, object files and linking are
  I/O.
* *Lowering*: `match`, `receive`, closures, struct and enum construction,
  comprehensions, destructuring, and `overwrite.rs`. Each adds value shapes to
  the machine; the space of programs is at TLC's limit with one.
* *Native scheduler*: priorities and reductions, context and trace intrinsics,
  work stealing (the queues are one multiset).
* *Reactor*: two users of one descriptor, the direction of an event, and the
  end of the reactor thread.
* *PIDs*: the packing into 64 bits, and the wrap of a generation after 2^32
  reuses of a slot.
* *Interpreter*: the evaluator of the instruction set; a body is any sequence
  of calls. Spans, log configuration, export queue, counters.
* *Wire format, tracing, export queue, context*: byte layout and one-lock
  queues. *Files, sockets, strings, faults*: system calls and formatting.
* *Project model, driver, formatter, documentation, language server, queries,
  shell, test runner, standard library*: text and editor I/O; no state outlives
  a command.
* *Stack switching and memory ordering below the level of atomics*.
