------------------------------- MODULE TailCalls -------------------------------
(***************************************************************************)
(* Turning a self-recursive call in tail position into a jump              *)
(* (koja-ir tail_calls.rs).  The pass works on the lowered function `fn':  *)
(* it first folds blocks that only release and return into the blocks      *)
(* before them, then rewrites each block that ends in a call and a return. *)
(***************************************************************************)
EXTENDS IR

contains_self_call(fn) ==
    \E b \in DOMAIN fn.blocks : \E i \in DOMAIN fn.blocks[b].code :
        fn.blocks[b].code[i].op = "Call" /\ fn.blocks[b].code[i].callee = "self"

forwarder_shape(fn, block) ==
    /\ Len(block.params) = 1
    /\ block.term.op = "Return"
    /\ \/ block.term.args = block.params
       \/ block.term.args = <<>> /\ block.params[1] \notin fn.heap
    /\ \A i \in DOMAIN block.code :
          \/ block.code[i].op = "DropLocal"
          \/ block.code[i].op = "DropValue" /\ ~uses_value(block.code[i], block.params[1])

\* The edges into a block, as pairs of a block's index and a leg's index.
edges_into(fn, id) ==
    {<<b, leg>> \in (DOMAIN fn.blocks) \X {1, 2} :
        leg \in DOMAIN fn.blocks[b].term.targets /\ fn.blocks[b].term.targets[leg].block = id}

edges_are_collapsible(fn, id) ==
    /\ edges_into(fn, id) # {}
    /\ \A e \in edges_into(fn, id) : Len(fn.blocks[e[1]].term.targets[e[2]].args) = 1

\* Mutant: the blocks are counted, some having been folded away.
next_block_id_counts(fn) == 1 + Len(fn.blocks)

\* The next block name, past every name in use.
next_block_id(fn) ==
    1 + Max({fn.blocks[b].id : b \in DOMAIN fn.blocks})

\* Fold the forwarder at index m into its predecessors: a jump becomes the
\* releases and the return, a leg of a two-way branch goes to a block of its own.
collapse_forwarder(fn, m) ==
    LET target == fn.blocks[m]
        returned(args) == IF target.term.args = <<>> THEN <<>> ELSE args
        \* the two-way legs into the target, in the order they are met
        legs == {e \in edges_into(fn, target.id) : fn.blocks[e[1]].term.op = "CondBranch"}
        rank(e) == Cardinality({d \in legs : d[1] < e[1] \/ (d[1] = e[1] /\ d[2] < e[2])})
        trampoline_id(e) == next_block_id(fn) + rank(e)
        trampoline(e) ==
            [id |-> trampoline_id(e), params |-> <<>>, code |-> target.code,
             term |-> Return(returned(fn.blocks[e[1]].term.targets[e[2]].args))]
        absorb(b) ==
            LET block == fn.blocks[b]
            IN  IF block.term.op = "Branch" /\ block.term.targets[1].block = target.id
                THEN [block EXCEPT !.code = block.code \o target.code,
                                   !.term = Return(returned(block.term.targets[1].args))]
                ELSE [block EXCEPT !.term.targets =
                        [leg \in DOMAIN @ |->
                            IF <<b, leg>> \in legs THEN BranchTarget(trampoline_id(<<b, leg>>), <<>>)
                            ELSE @[leg]]]
    IN  [fn EXCEPT !.blocks =
            RemoveAt([b \in DOMAIN @ |-> absorb(b)], m)
              \o [k \in 1 .. Cardinality(legs) |-> trampoline(CHOOSE e \in legs : rank(e) = k - 1)]]

RECURSIVE collapse_return_forwarders(_)
collapse_return_forwarders(fn) ==
    LET m == first_index({b \in 2 .. Len(fn.blocks) :
                            /\ forwarder_shape(fn, fn.blocks[b])
                            /\ edges_are_collapsible(fn, fn.blocks[b].id)})
    IN  IF m = None THEN fn ELSE collapse_return_forwarders(collapse_forwarder(fn, m))

\* The index of the call a block ends in: only releases follow it, and what the
\* block returns, if anything, is its result.
match_tail_call(block) ==
    LET at == {i \in DOMAIN block.code : ~is_drop(block.code[i])}
        last == Max(at)
        inst == block.code[last]
    IN  IF /\ block.term.op = "Return"
           /\ at # {}
           /\ inst.op = "Call"
           /\ inst.callee = "self"
           /\ block.term.args \in {<<>>, <<inst.dest>>}
        THEN last ELSE None

passthrough_slot(code, call_index, arg) ==
    LET read == first_index({i \in 1 .. call_index - 1 :
                                code[i].op = "LocalRead" /\ code[i].dest = arg})
    IN  IF \/ read = None
           \/ \E i \in read + 1 .. Len(code) :
                 code[i].op = "LocalWrite" /\ code[i].local = code[read].local
        THEN None ELSE code[read].local

\* Mutant: two arguments may take over the same release.
passthrough_drop_shared(code, call_index, arg, taken) ==
    first_index({i \in call_index .. Len(code) :
        \/ code[i].op = "DropValue" /\ uses_value(code[i], arg)
        \/ code[i].op = "DropLocal" /\ code[i].local = passthrough_slot(code, call_index, arg)})

\* The release after the call that the argument takes over as a move.
passthrough_drop(code, call_index, arg, taken) ==
    first_index({i \in (call_index .. Len(code)) \ taken :
        \/ code[i].op = "DropValue" /\ uses_value(code[i], arg)
        \/ code[i].op = "DropLocal" /\ code[i].local = passthrough_slot(code, call_index, arg)})

\* Each argument in turn: moved with the release it takes over, or cloned.
plan(block, call_index, next_value) ==
    LET acquire(acc, arg) ==
            LET drop == passthrough_drop(RemoveAt(block.code, call_index), call_index, arg, acc.elided)
            IN  IF drop # None
                THEN [acc EXCEPT !.elided = @ \cup {drop}, !.args = Append(@, arg)]
                ELSE [acc EXCEPT !.clones = Append(@, Clone(acc.next_value, arg)),
                                 !.args = Append(@, acc.next_value),
                                 !.next_value = @ + 1]
    IN  FoldLeft(acquire,
                 [elided |-> {}, args |-> <<>>, clones |-> <<>>, next_value |-> next_value],
                 block.code[call_index].args)

\* The clones go where the call was, before the releases that stay.
apply_plan(block, call_index, p) ==
    [block EXCEPT !.code = insert_before(remove_all(RemoveAt(@, call_index), p.elided),
                                         call_index, p.clones),
                  !.term = TailCall(p.args)]

rewrite_block(fn, b) ==
    LET call_index == match_tail_call(fn.blocks[b])
        p == plan(fn.blocks[b], call_index, fn.next_value)
    IN  IF call_index = None THEN fn
        ELSE [fn EXCEPT !.blocks[b] = apply_plan(@, call_index, p), !.next_value = p.next_value]

rewrite_function(fn) ==
    LET folded == IF contains_self_call(fn) THEN collapse_return_forwarders(fn) ELSE fn
    IN  FoldLeftDomain(rewrite_block, folded, folded.blocks)
==============================================================================
