------------------------------- MODULE Lowering --------------------------------
(***************************************************************************)
(* Lowering a function body to basic blocks (koja-ir lower/): the          *)
(* evaluation order, the blocks of each construct, and every acquire and   *)
(* release of a heap value.  `ctx' is FnLowerCtx: the blocks built so far, *)
(* the value counter, the values of heap type, the owned values, the live  *)
(* and the declared slots, and the exits of the enclosing loops.           *)
(***************************************************************************)
EXTENDS Typecheck

append(ctx, block, inst) == [ctx EXCEPT !.blocks[block].code = Append(@, inst)]
set_terminator(ctx, block, term) == [ctx EXCEPT !.blocks[block].term = term]

\* A fresh value is named by the counter before it is minted.
fresh_value(ctx, heap) ==
    [ctx EXCEPT !.next_value = @ + 1,
                !.heap = IF heap THEN @ \cup {ctx.next_value} ELSE @]
\* A fresh block branches to itself until its terminator is set.
fresh_block(ctx) ==
    LET id == Len(ctx.blocks) + 1
    IN  [ctx EXCEPT !.blocks = Append(@, [id |-> id, params |-> <<>>, code |-> <<>>,
                                          term |-> Branch(BranchTarget(id, <<>>))])]

mark_owned(ctx, value) == [ctx EXCEPT !.owned = @ \cup {value}]

\* What lowering an expression returns, and a body: `value' is None when the
\* body ends in no value, `open' is FALSE when its flow is closed.
Lowered(ctx, value, block) == [ctx |-> ctx, value |-> value, block |-> block]
Flow(ctx, open, value, block) == [ctx |-> ctx, open |-> open, value |-> value, block |-> block]

declare_merge_param(ctx, block, heap) ==
    LET dest == ctx.next_value
        declared == [fresh_value(ctx, heap) EXCEPT !.blocks[block].params = Append(@, dest)]
    IN  IF heap THEN mark_owned(declared, dest) ELSE declared

materialize_owned(ctx, block, value) ==
    IF value \notin ctx.heap \/ value \in ctx.owned THEN Lowered(ctx, value, block)
    ELSE LET cloned == ctx.next_value
         IN  Lowered(mark_owned(append(fresh_value(ctx, TRUE), block, Clone(cloned, value)),
                                cloned),
                     cloned, block)

drop_discarded_temp(ctx, block, value) ==
    IF value \in ctx.owned /\ value \in ctx.heap THEN append(ctx, block, DropValue(value)) ELSE ctx

release_call_temps(ctx, block, values) ==
    FoldLeft(LAMBDA c, v : drop_discarded_temp(c, block, v), ctx, values)

\* A DropLocal for each slot, the youngest first.
emit_slot_drops(ctx, block, slots) ==
    FoldLeft(LAMBDA c, s : append(c, block, DropLocal(s)),
             ctx, SetToSortSeq(slots, LAMBDA s, t : s > t))

emit_function_exit_drops(ctx, block) == emit_slot_drops(ctx, block, ctx.live)

emit_unit(ctx, block) ==
    Lowered(append(fresh_value(ctx, FALSE), block, ConstUnit(ctx.next_value)),
            ctx.next_value, block)

promote_param(ctx, local) ==
    LET id == ctx.next_value
        stored == materialize_owned(append(fresh_value(ctx, TRUE), 1, LocalDecl(local)), 1, id)
    IN  [append(stored.ctx, 1, LocalWrite(local, stored.value))
            EXCEPT !.declared = @ \cup {local}, !.live = @ \cup {local},
                   !.params = Append(@, id)]

lower_params(ctx, locals) == FoldLeft(promote_param, ctx, locals)

\* Mutant: the value a reassignment replaces is not released.
store_owned_into_local_leaks(ctx, current, local, value) ==
    LET decl == IF local \in ctx.declared THEN ctx ELSE append(ctx, 1, LocalDecl(local))
    IN  append([decl EXCEPT !.declared = @ \cup {local}, !.live = @ \cup {local}],
               current, LocalWrite(local, value))

\* The first write declares the slot in the entry block; a slot that left the
\* live set is revived; a live one has its stale value released first.
store_owned_into_local(ctx, current, local, value) ==
    LET stale == ctx.next_value
        ready == IF local \notin ctx.declared THEN append(ctx, 1, LocalDecl(local))
                 ELSE IF local \notin ctx.live THEN ctx
                 ELSE append(append(fresh_value(ctx, TRUE), current, LocalRead(stale, local)),
                             current, DropValue(stale))
    IN  append([ready EXCEPT !.declared = @ \cup {local}, !.live = @ \cup {local}],
               current, LocalWrite(local, value))

finalize_arm_value(ctx, block, value, heap) ==
    IF ~heap /\ value \in ctx.heap
    THEN emit_unit(drop_discarded_temp(ctx, block, value), block)
    ELSE materialize_owned(ctx, block, value)

merge_slot_states(branches) == {s \in UNION branches : \A b \in branches : s \in b}

\* After the arms: a slot survives when every arm has it, and an arm that goes
\* on releases its others in its last block.
join_arm_states(ctx, arms) ==
    LET merged == merge_slot_states({arms[i].live : i \in DOMAIN arms})
        drop_orphans(c, arm) ==
            IF arm.tail = None THEN c ELSE emit_slot_drops(c, arm.tail, arm.live \ merged)
    IN  FoldLeft(drop_orphans, [ctx EXCEPT !.live = merged], arms)

RECURSIVE lower_expr(_, _, _, _), lower_args(_, _, _), lower_body(_, _, _)

\* The arguments, left to right; so_far.values are the ones lowered.
lower_args(prog, args, so_far) ==
    LET then(arg) ==
            [ctx |-> arg.ctx, block |-> arg.block, values |-> Append(so_far.values, arg.value)]
    IN  IF args = <<>> THEN so_far
        ELSE lower_args(prog, Tail(args),
                        then(lower_expr(prog, Head(args), so_far.ctx, so_far.block)))

\* The call itself, its arguments lowered.
emit_call(callee, lowered, heap) ==
    LET dest == lowered.ctx.next_value
        called == append(fresh_value(lowered.ctx, heap), lowered.block,
                         Call(dest, callee, lowered.values))
    IN  Lowered(release_call_temps(mark_owned(called, dest), lowered.block, lowered.values),
                dest, lowered.block)

\* A concatenation, its left side lowered.
lower_concat(lhs) ==
    LET dest == lhs.ctx.next_value
        joined == append(fresh_value(lhs.ctx, TRUE), lhs.block, Concat(dest, lhs.value))
    IN  Lowered(drop_discarded_temp(mark_owned(joined, dest), lhs.block, lhs.value),
                dest, lhs.block)

lower_local_read(local, ctx, block) ==
    Lowered(append(fresh_value(ctx, TRUE), block, LocalRead(ctx.next_value, local)),
            ctx.next_value, block)

\* An arm's jump to the merge block, its body lowered; `tail' is its last block,
\* None when the arm returned or broke out, and `states' the arms so far.
lower_arm_into(flow, merge_block, heap, states) ==
    LET arg == IF flow.value = None THEN emit_unit(flow.ctx, flow.block)
               ELSE finalize_arm_value(flow.ctx, flow.block, flow.value, heap)
        arm(ctx, tail) ==
            [ctx |-> ctx, states |-> Append(states, [tail |-> tail, live |-> ctx.live])]
    IN  IF flow.open
        THEN arm(set_terminator(arg.ctx, flow.block,
                                Branch(BranchTarget(merge_block, <<arg.value>>))), flow.block)
        ELSE arm(flow.ctx, None)

\* The branch into the arms; without an else arm the second leg goes to the merge.
fork(ctx, block, then_block, has_else) ==
    LET unit == emit_unit(ctx, block)
    IN  IF has_else
        THEN set_terminator(fresh_block(ctx), block,
                 CondBranch(BranchTarget(then_block, <<>>), BranchTarget(then_block + 2, <<>>)))
        ELSE set_terminator(unit.ctx, block,
                 CondBranch(BranchTarget(then_block, <<>>),
                            BranchTarget(then_block + 1, <<unit.value>>)))

\* The blocks are the then block, the merge block and the else block, in this order.
lower_if(prog, e, ctx, block) ==
    LET heap == type_of(prog, e) = "heap"
        has_else == Len(e.bodies) = 2
        then_block == Len(ctx.blocks) + 1
        merge_block == then_block + 1
        opened == declare_merge_param(fresh_block(fresh_block(ctx)), merge_block, heap)
        restored(arm) == [arm.ctx EXCEPT !.live = ctx.live]
        second(arm) ==
            IF has_else
            THEN lower_arm_into(lower_body(prog, e.bodies[2],
                                           Flow(restored(arm), TRUE, None, merge_block + 1)),
                                merge_block, heap, arm.states)
            ELSE [arm EXCEPT !.states = Append(@, [tail |-> None, live |-> ctx.live])]
        joined(arms) == join_arm_states(arms.ctx, arms.states)
        forked == fork(opened, block, then_block, has_else)
    IN  Lowered(joined(second(lower_arm_into(
                    lower_body(prog, e.bodies[1], Flow(forked, TRUE, None, then_block)),
                    merge_block, heap, <<>>))),
                ctx.next_value, merge_block)

drop_body_scoped_bindings(ctx, tail, snapshot) == emit_slot_drops(ctx, tail, ctx.live \ snapshot)

\* The body of a loop: its back edge goes to `again', a break to `exit_block'.
lower_loop_body(prog, body, ctx, body_block, again, exit_block) ==
    LET entered == Flow([ctx EXCEPT !.exits = Append(@, exit_block)], TRUE, None, body_block)
        closed(flow) ==
            IF flow.open
            THEN set_terminator(drop_body_scoped_bindings(flow.ctx, flow.block, ctx.live),
                                flow.block, Branch(BranchTarget(again, <<>>)))
            ELSE flow.ctx
        left(after) == [after EXCEPT !.live = ctx.live, !.exits = ctx.exits]
    IN  emit_unit(left(closed(lower_body(prog, body, entered))), exit_block)

lower_while(prog, body, ctx, block) ==
    LET header == Len(ctx.blocks) + 1
        entered == set_terminator(fresh_block(fresh_block(fresh_block(ctx))), block,
                                  Branch(BranchTarget(header, <<>>)))
        tested == set_terminator(entered, header,
                                 CondBranch(BranchTarget(header + 1, <<>>),
                                            BranchTarget(header + 2, <<>>)))
    IN  lower_loop_body(prog, body, tested, header + 1, header, header + 2)

lower_loop(prog, body, ctx, block) ==
    LET body_block == Len(ctx.blocks) + 1
        entered == set_terminator(fresh_block(fresh_block(ctx)), block,
                                  Branch(BranchTarget(body_block, <<>>)))
    IN  lower_loop_body(prog, body, entered, body_block, body_block, body_block + 1)

lower_expr(prog, e, ctx, block) ==
    LET unlowered == [ctx |-> ctx, block |-> block, values |-> <<>>]
    IN  CASE e.k = "var" -> lower_local_read(e.local, ctx, block)
          [] e.k = "call" ->
                emit_call(e.callee, lower_args(prog, e.args, unlowered), type_of(prog, e) = "heap")
          [] e.k = "append" /\ prog.kind = "list" ->
                emit_call("append", lower_args(prog, e.args, unlowered), TRUE)
          [] e.k = "append" /\ prog.kind = "leaf" -> lower_concat(lower_expr(prog, e.args[1], ctx, block))
          [] e.k = "if" -> lower_if(prog, e, ctx, block)
          [] e.k = "while" -> lower_while(prog, e.bodies[1], ctx, block)
          [] e.k = "loop" -> lower_loop(prog, e.bodies[1], ctx, block)

Closed(ctx) == Flow(ctx, FALSE, None, None)
acquired(e) == materialize_owned(e.ctx, e.block, e.value)

\* `return' of no value, and of a value: it is acquired before the slots are
\* released.
lower_return(ctx, block) ==
    Closed(set_terminator(emit_function_exit_drops(ctx, block), block, Return(<<>>)))
lower_return_value(owned) ==
    Closed(set_terminator(emit_function_exit_drops(owned.ctx, owned.block), owned.block,
                          Return(<<owned.value>>)))

lower_break_statement(ctx, block) ==
    Closed(set_terminator(ctx, block, Branch(BranchTarget(Last(ctx.exits), <<>>))))

lower_discard(e) == Flow(drop_discarded_temp(e.ctx, e.block, e.value), TRUE, None, e.block)
lower_assignment(owned, local) ==
    Flow(store_owned_into_local(owned.ctx, owned.block, local, owned.value), TRUE, None, owned.block)

\* A statement whose expression, if it has one, is lowered in e.
lower_statement(prog, stmt, e) ==
    CASE stmt.k = "expr" /\ type_of(prog, stmt.exprs[1]) = "never" ->
            Closed(set_terminator(e.ctx, e.block, Unreachable))
      [] stmt.k = "expr" /\ type_of(prog, stmt.exprs[1]) # "never" ->
            Flow(e.ctx, TRUE, e.value, e.block)
      [] stmt.k = "return" /\ stmt.exprs = <<>> -> lower_return(e.ctx, e.block)
      [] stmt.k = "return" /\ stmt.exprs # <<>> -> lower_return_value(acquired(e))
      [] stmt.k = "break" -> lower_break_statement(e.ctx, e.block)
      [] stmt.k = "discard" -> lower_discard(e)
      [] stmt.k = "assign" -> lower_assignment(acquired(e), stmt.local)

\* The statements in order until one closes the flow; the value of the statement
\* before is released once it is superseded.
lower_body(prog, body, flow) ==
    LET ready == drop_discarded_temp(flow.ctx, flow.block, flow.value)
        value == IF Head(body).exprs = <<>> THEN Lowered(ready, None, flow.block)
                 ELSE lower_expr(prog, Head(body).exprs[1], ready, flow.block)
    IN  IF body = <<>> \/ ~flow.open THEN flow
        ELSE lower_body(prog, Tail(body), lower_statement(prog, Head(body), value))

finalize_open_flow(prog, flow) ==
    LET unit == set_terminator(emit_function_exit_drops(
                                   drop_discarded_temp(flow.ctx, flow.block, flow.value), flow.block),
                               flow.block, Return(<<>>))
    IN  IF ~flow.open THEN flow
        ELSE IF prog.ret = "unit" THEN Closed(unit) ELSE lower_return_value(acquired(flow))

NewCtx ==
    fresh_block([blocks |-> <<>>, next_value |-> 1, heap |-> {}, owned |-> {}, live |-> {},
                 declared |-> {}, exits |-> <<>>, params |-> <<>>])

\* A function of the IR: what the later passes and the backend read.
Function(ctx) ==
    [blocks |-> ctx.blocks, params |-> ctx.params, next_value |-> ctx.next_value, heap |-> ctx.heap]

lower_function(prog) ==
    LET entry == Flow(lower_params(NewCtx, [i \in 1 .. prog.params |-> i]), TRUE, None, 1)
    IN  Function(finalize_open_flow(prog, lower_body(prog, prog.body, entry)).ctx)
==============================================================================
