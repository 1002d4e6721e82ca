------------------------------ MODULE YieldChecks ------------------------------
(***************************************************************************)
(* Where a function gives other processes their turn (koja-ir              *)
(* yield_checks.rs), and the dominator tree that finds its loops           *)
(* (dominators.rs, the Cooper-Harvey-Kennedy iteration).                   *)
(***************************************************************************)
EXTENDS IR

block_of(blocks, id) == blocks[CHOOSE b \in DOMAIN blocks : blocks[b].id = id]

\* The blocks that branch into one, in the order of the function's blocks, once
\* for each edge.
predecessors(blocks, id) ==
    LET edges(b) == SelectSeq(successors(blocks[b]), LAMBDA s : s = id)
    IN  FlattenSeq([b \in DOMAIN blocks |-> [i \in DOMAIN edges(b) |-> blocks[b].id]])

RECURSIVE visit(_, _, _)
\* Depth first from the blocks `todo' of one parent; `seen' are the ones entered.
visit(blocks, todo, walk) ==
    IF todo = <<>> THEN walk
    ELSE IF Head(todo) \in walk.seen THEN visit(blocks, Tail(todo), walk)
    ELSE LET below == visit(blocks, successors(block_of(blocks, Head(todo))),
                            [walk EXCEPT !.seen = @ \cup {Head(todo)}])
         IN  visit(blocks, Tail(todo), [below EXCEPT !.order = Append(@, Head(todo))])

postorder_traversal(blocks) ==
    visit(blocks, <<blocks[1].id>>, [seen |-> {}, order |-> <<>>]).order

RECURSIVE intersect(_, _, _, _)
\* Walk the finger that finished earlier up the tree until the two meet.
intersect(b1, b2, idom, index) ==
    IF b1 = b2 THEN b1
    ELSE IF index[b1] < index[b2] THEN intersect(idom[b1], b2, idom, index)
    ELSE intersect(b1, idom[b2], idom, index)

\* Mutant: a block is dominated by its first predecessor.
join_predecessors_first(preds, idom, index) == Head(preds)

join_predecessors(preds, idom, index) ==
    FoldLeft(LAMBDA finger, p : intersect(p, finger, idom, index), Head(preds), Tail(preds))

RECURSIVE sweep(_, _, _, _)
\* One pass over the blocks in reverse postorder, position k down to the first;
\* idom is None where it is not known yet.
sweep(blocks, order, k, idom) ==
    IF k = 0 THEN idom
    ELSE LET index == [b \in ToSet(order) |-> CHOOSE i \in DOMAIN order : order[i] = b]
             known == SelectSeq(predecessors(blocks, order[k]),
                                LAMBDA p : p \in DOMAIN idom /\ idom[p] # None)
         IN  sweep(blocks, order, k - 1,
                   IF order[k] = blocks[1].id \/ known = <<>> THEN idom
                   ELSE [idom EXCEPT ![order[k]] =
                            join_predecessors(known, idom, index)])

RECURSIVE settle(_, _, _)
settle(blocks, order, idom) ==
    LET swept == sweep(blocks, order, Len(order), idom)
    IN  IF swept = idom THEN idom ELSE settle(blocks, order, swept)

\* The immediate dominator of each reachable block, None for the entry.
compute_immediate_dominators(blocks) ==
    LET order == postorder_traversal(blocks)
        entry == blocks[1].id
        idom == settle(blocks, order,
                       [b \in ToSet(order) |-> IF b = entry THEN entry ELSE None])
    IN  [idom EXCEPT ![entry] = None]

RECURSIVE dominates(_, _, _, _)
dominates(idom, entry, dominator, block) ==
    \/ dominator = entry
    \/ block = dominator
    \/ /\ block \in DOMAIN idom
       /\ idom[block] # None
       /\ dominates(idom, entry, dominator, idom[block])

\* Mutant: only a block that branches to itself is a loop.
on_back_edge_self(blocks, idom, block) == block.id \in ToSet(successors(block))

on_back_edge(blocks, idom, block) ==
    \E s \in ToSet(successors(block)) : dominates(idom, blocks[1].id, s, block.id)

insert_in_body(blocks) ==
    LET idom == compute_immediate_dominators(blocks)
    IN  [b \in DOMAIN blocks |->
            IF blocks[b].term.op = "TailCall" \/ on_back_edge(blocks, idom, blocks[b])
            THEN [blocks[b] EXCEPT !.code = Append(@, YieldCheck)]
            ELSE blocks[b]]

\* A declaration, a clone and a write for each parameter, all of heap type.
promotion_prefix_len(fn) == 3 * Len(fn.params)

contains_call(blocks) ==
    \E b \in DOMAIN blocks : \E i \in DOMAIN blocks[b].code : blocks[b].code[i].op = "Call"

insert_yield_checks(fn) ==
    LET body == insert_in_body(fn.blocks)
    IN  [fn EXCEPT !.blocks =
            IF contains_call(body)
            THEN [body EXCEPT ![1].code = insert_before(@, promotion_prefix_len(fn) + 1, <<YieldCheck>>)]
            ELSE body]
==============================================================================
