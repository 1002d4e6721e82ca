-------------------------------- MODULE Compiler -------------------------------
(***************************************************************************)
(* The compiler's pipeline on one function (koja-ir pipeline.rs) and the   *)
(* native execution of what it produces: lower, rewrite_tail_calls,        *)
(* insert_yield_checks, the fusion of elaborate, then one step per block.  *)
(***************************************************************************)
EXTENDS Lowering, Meaning, TailCalls, YieldChecks, ConsumeFusion, Machine

CONSTANTS
    Programs,       \* the functions compiled
    MaxConditions,  \* conditions an execution may meet
    MaxBlocks       \* blocks an execution may run

VARIABLES
    prog,        \* the function compiled
    stage,       \* the pass that ran last, "run" or "done"
    fn,          \* its intermediate form
    machine,     \* the native execution
    conditions,  \* how its conditions came out so far
    blocks_run   \* blocks it ran

vars == <<prog, stage, fn, machine, conditions, blocks_run>>

NoFunction == [blocks |-> <<>>, params |-> <<>>, next_value |-> 1, heap |-> {}]
NoMachine == [fault |-> FALSE, unyielding |-> FALSE]

Init ==
    /\ prog \in {p \in Programs : Accepted(p)}
    /\ stage = "source"
    /\ fn = NoFunction
    /\ machine = NoMachine
    /\ conditions = <<>>
    /\ blocks_run = 0

\* One pass of the pipeline: the next stage and the function it leaves.
pass(from, to, rewritten) ==
    /\ stage = from
    /\ stage' = to
    /\ fn' = rewritten
    /\ UNCHANGED <<prog, machine, conditions, blocks_run>>

lower == pass("source", "lowered", lower_function(prog))
rewrite_tail_calls == pass("lowered", "tail_calls", rewrite_function(fn))
yield_checks == pass("tail_calls", "yield_checks", insert_yield_checks(fn))
elaborate == pass("yield_checks", "compiled", fuse_consuming_sites(fn))

\* Called, with room to append in place or not.
call ==
    /\ stage = "compiled"
    /\ stage' = "run"
    /\ \E roomy \in BOOLEAN : machine' = start(prog.kind, roomy, fn)
    /\ UNCHANGED <<prog, fn, conditions, blocks_run>>

\* Run on to the next call of itself or the end of the block, and leave it.
step ==
    LET m == run(machine, fn)
        term == block_named(fn, top(m).block).term
        at_call == m.fault \/ Len(m.frames) > Len(machine.frames)
        go(next) == machine' = next /\ UNCHANGED conditions
    IN  /\ stage = "run"
        /\ ~machine.fault
        /\ blocks_run < MaxBlocks
        /\ blocks_run' = blocks_run + 1
        /\ UNCHANGED <<prog, fn>>
        /\ stage' = IF ~at_call /\ term.op = "Return" /\ Len(m.frames) = 1 THEN "done" ELSE "run"
        /\ \/ at_call /\ go(m)
           \/ ~at_call /\ term.op = "Return" /\ go(do_return(m, term.args))
           \/ ~at_call /\ term.op = "Branch" /\ go(jump(m, fn, term.targets[1]))
           \/ ~at_call /\ term.op = "TailCall"
                /\ go(emit_tail_call(m, fn, term.args, promotion_prefix_len(fn) + 1))
           \/ /\ ~at_call
              /\ term.op = "CondBranch"
              /\ Len(conditions) < MaxConditions
              /\ \E outcome \in BOOLEAN :
                    /\ conditions' = Append(conditions, outcome)
                    /\ machine' = jump(m, fn, term.targets[IF outcome THEN 1 ELSE 2])

Next == lower \/ rewrite_tail_calls \/ yield_checks \/ elaborate \/ call \/ step

Spec == Init /\ [][Next]_vars

(***************************************************************************)
(* Properties                                                              *)
(***************************************************************************)

\* A branch names a block of the function and hands it one value per parameter,
\* block names are unique, and every stage keeps it so: folding a merge block
\* away leaves no edge behind.
WellFormed ==
    \A b \in DOMAIN fn.blocks :
        /\ \A c \in DOMAIN fn.blocks : fn.blocks[b].id = fn.blocks[c].id => b = c
        /\ \A i \in DOMAIN fn.blocks[b].term.targets :
              LET t == fn.blocks[b].term.targets[i]
              IN  \E c \in DOMAIN fn.blocks :
                      fn.blocks[c].id = t.block /\ Len(fn.blocks[c].params) = Len(t.args)

\* The blocks reachable from the entry without passing through `cut'.
RECURSIVE reach_without(_, _)
reach_without(cut, seen) ==
    LET next == seen \cup {s \in UNION {ToSet(successors(block_named(fn, b))) : b \in seen} : s # cut}
    IN  IF next = seen THEN seen ELSE reach_without(cut, next)

\* The immediate-dominator tree gives the dominance relation: a block dominates
\* a reachable block exactly when every path from the entry passes through it.
DominatorsExact ==
    stage = "tail_calls" =>
        LET entry == fn.blocks[1].id
            reachable == reach_without(None, {entry})
            idom == compute_immediate_dominators(fn.blocks)
        IN  \A d \in reachable, b \in reachable :
                dominates(idom, entry, d, b) <=>
                    (d = entry \/ d = b \/ b \notin reach_without(d, {entry}))

\* The compiled function never reads, releases or reuses a block of memory that
\* is no longer allocated, and its result is allocated.
MemorySafe ==
    /\ ~machine.fault
    /\ stage = "done" /\ prog.ret # "unit" => allocated(machine, machine.result)

\* When the function is done, what it allocated is freed except its result, and
\* the caller's arguments are as they were.
NothingLeaks ==
    stage = "done" =>
        LET args == 1 .. prog.params
            kept == IF prog.ret = "unit" THEN {} ELSE {machine.result.ref}
        IN  /\ DOMAIN machine.heap = args \cup kept
            /\ \A r \in args \ kept : machine.heap[r] = [rc |-> 1, data |-> <<-r>>]
            /\ \A r \in kept : machine.heap[r].rc = IF r \in args THEN 2 ELSE 1

\* Calls of other functions see the values the program means, in the order it
\* makes them, and the result is the one it means, however storage was reused.
MeaningKept ==
    stage = "done" =>
        LET means == meaning(prog, conditions)
        IN  /\ machine.calls = means.calls
            /\ prog.ret # "unit" => content(machine, machine.result) = means.result

\* No block runs twice without a yield check in between: loops and recursion
\* give other processes their turn.
LoopsYield == ~machine.unyielding
==============================================================================
