-------------------------------- MODULE Machine --------------------------------
(***************************************************************************)
(* What the native code of a compiled function does to memory              *)
(* (koja-ir-llvm emit/, intrinsics/list.rs and the runtime's reference     *)
(* counts).  A heap value is [ref, len]: a list is a pointer and its       *)
(* length held by value, a string a pointer to a counted block.  `m.heap'  *)
(* holds the blocks not yet freed, m.frames the activations, the running   *)
(* one last.  Touching a block that is not there sets m.fault.             *)
(***************************************************************************)
EXTENDS IR

Null == [ref |-> 0, len |-> 0]  \* an empty slot, and the unit value
Word == 0                       \* what an append adds

with(f, x, v) == [y \in DOMAIN f \cup {x} |-> IF y = x THEN v ELSE f[y]]
without(f, x) == Restrict(f, DOMAIN f \ {x})

top(m) == Last(m.frames)
set_reg(m, dest, v) ==
    [m EXCEPT !.frames[Len(m.frames)].regs = with(@, dest, v)]
set_slot(m, local, v) ==
    [m EXCEPT !.frames[Len(m.frames)].slots = with(@, local, v)]

allocated(m, v) == v.ref \in DOMAIN m.heap
content(m, v) == IF m.kind = "list" THEN SubSeq(m.heap[v.ref].data, 1, v.len) ELSE m.heap[v.ref].data
fault(m) == [m EXCEPT !.fault = TRUE]

\* A fresh block into a register.
alloc(m, dest, data) ==
    set_reg([m EXCEPT !.heap = with(@, m.next, [rc |-> 1, data |-> data]), !.next = @ + 1],
            dest, [ref |-> m.next, len |-> Len(data)])

\* koja_rc_dec, or the drop glue of a list; nothing for a null.
release(m, v) ==
    IF v = Null THEN m
    ELSE IF ~allocated(m, v) THEN fault(m)
    ELSE IF m.heap[v.ref].rc > 1 THEN [m EXCEPT !.heap[v.ref].rc = @ - 1]
    ELSE [m EXCEPT !.heap = without(@, v.ref)]

\* A list is copied, a string counted once more.
clone(m, dest, v) ==
    IF ~allocated(m, v) THEN fault(m)
    ELSE IF m.kind = "list" THEN alloc(m, dest, content(m, v))
    ELSE set_reg([m EXCEPT !.heap[v.ref].rc = @ + 1], dest, v)

append_copy(m, dest, v) ==
    IF ~allocated(m, v) THEN fault(m) ELSE alloc(m, dest, Append(content(m, v), Word))

\* In place while the block has room, otherwise in a new block and the old one
\* is freed.
append_in_place(m, dest, v) ==
    IF m.roomy
    THEN set_reg([m EXCEPT !.heap[v.ref].data = Append(content(m, v), Word)],
                 dest, [v EXCEPT !.len = @ + 1])
    ELSE LET grown == alloc(m, dest, Append(content(m, v), Word))
         IN  [grown EXCEPT !.heap = without(@, v.ref)]

\* A shared string is copied and loses one count.
append_consuming(m, dest, v) ==
    IF ~allocated(m, v) THEN fault(m)
    ELSE IF m.heap[v.ref].rc = 1 THEN append_in_place(m, dest, v)
    ELSE release(append_copy(m, dest, v), v)

\* A call of another function: it sees the contents of its arguments, keeps
\* copies of its own, and returns a fresh value.
call_other(m, dest, vs) ==
    IF \E i \in DOMAIN vs : ~allocated(m, vs[i]) THEN fault(m)
    ELSE LET seen == [i \in DOMAIN vs |-> content(m, vs[i])]
         IN  alloc([m EXCEPT !.calls = Append(@, seen)], dest, <<Len(m.calls) + 1>>)

\* One instruction of the running activation that is not a call of itself.
execute(m, inst) ==
    LET arg == top(m).regs[inst.args[1]]
    IN  CASE inst.op = "Const" -> set_reg(m, inst.dest, Null)
          [] inst.op = "LocalDecl" -> set_slot(m, inst.local, Null)
          [] inst.op = "LocalRead" -> set_reg(m, inst.dest, top(m).slots[inst.local])
          [] inst.op = "LocalWrite" -> set_slot(m, inst.local, arg)
          [] inst.op = "Clone" -> clone(m, inst.dest, arg)
          [] inst.op = "DropValue" -> release(m, arg)
          [] inst.op = "DropLocal" -> release(m, top(m).slots[inst.local])
          [] inst.op = "ConsumeLocal" -> m
          [] inst.op = "Concat" -> append_copy(m, inst.dest, arg)
          [] inst.op = "ConcatConsuming" -> append_consuming(m, inst.dest, arg)
          [] inst.op = "YieldCheck" -> [m EXCEPT !.entered = {}]
          [] inst.op = "Call" /\ inst.callee = "append" -> append_copy(m, inst.dest, arg)
          [] inst.op = "Call" /\ inst.callee = "append.$consume$" ->
                append_consuming(m, inst.dest, arg)
          [] inst.op = "Call" /\ inst.callee = "other" ->
                call_other(m, inst.dest, [i \in DOMAIN inst.args |-> top(m).regs[inst.args[i]]])

is_self_call(inst) == inst.op = "Call" /\ inst.callee = "self"

block_named(fn, id) == fn.blocks[CHOOSE b \in DOMAIN fn.blocks : fn.blocks[b].id = id]

\* Enter a block of the running activation at an instruction.  m.entered are the
\* blocks entered since the last yield, each with its activation, the entry
\* block once for all of them.
enter(m, id, pc) ==
    LET mark == <<IF id = 1 THEN 0 ELSE Len(m.frames), id>>
    IN  [m EXCEPT !.frames[Len(m.frames)].block = id, !.frames[Len(m.frames)].pc = pc,
                  !.entered = @ \cup {mark},
                  !.unyielding = @ \/ mark \in m.entered]

\* A new activation with these arguments, its result wanted in `dest'.
push_frame(m, fn, vs, dest) ==
    LET regs == [p \in ToSet(fn.params) |-> vs[CHOOSE i \in DOMAIN vs : fn.params[i] = p]]
    IN  enter([m EXCEPT !.frames = Append(@, [block |-> 1, pc |-> 1, regs |-> regs,
                                              slots |-> <<>>, dest |-> dest])],
              fn.blocks[1].id, 1)

RECURSIVE run(_, _)
\* Run on to the end of the block, a call of itself or a fault; a block that
\* ends in Unreachable is not survived.
run(m, fn) ==
    LET block == block_named(fn, top(m).block)
        code == block.code
        pc == top(m).pc
    IN  IF m.fault THEN m
        ELSE IF pc > Len(code) THEN IF block.term = Unreachable THEN fault(m) ELSE m
        ELSE IF is_self_call(code[pc])
             THEN push_frame([m EXCEPT !.frames[Len(m.frames)].pc = @ + 1], fn,
                             [i \in DOMAIN code[pc].args |-> top(m).regs[code[pc].args[i]]],
                             code[pc].dest)
        ELSE run([execute(m, code[pc]) EXCEPT !.frames[Len(m.frames)].pc = @ + 1], fn)

values_of(m, args) == [i \in DOMAIN args |-> top(m).regs[args[i]]]

\* Follow a branch target.
jump(m, fn, target) ==
    LET block == block_named(fn, target.block)
        vs == values_of(m, target.args)
        bound == [p \in ToSet(block.params) |->
                    vs[CHOOSE i \in DOMAIN vs : block.params[i] = p]]
    IN  enter([m EXCEPT !.frames[Len(m.frames)].regs =
                    [v \in DOMAIN @ \cup DOMAIN bound |-> IF v \in DOMAIN bound THEN bound[v] ELSE @[v]]],
              target.block, 1)

\* Leave the activation: its caller gets the result, or the program is done.
do_return(m, args) ==
    LET v == IF args = <<>> THEN Null ELSE top(m).regs[args[1]]
        popped == [m EXCEPT !.frames = Front(@)]
    IN  IF Len(m.frames) = 1 THEN [popped EXCEPT !.result = v]
        ELSE set_reg(popped, top(m).dest, v)

\* Mutant: the arguments are stored from the last slot to the first.
emit_tail_call_reversed(m, fn, args, header) ==
    LET vs == Reverse(values_of(m, args))
    IN  enter([m EXCEPT !.frames[Len(m.frames)].slots =
                    [s \in DOMAIN @ |-> IF s \in DOMAIN vs THEN vs[s] ELSE Null]],
              fn.blocks[1].id, header)

\* Store the arguments over the parameters' slots, empty every other slot, and
\* go on after the promotion of the parameters.
emit_tail_call(m, fn, args, header) ==
    LET vs == values_of(m, args)
    IN  enter([m EXCEPT !.frames[Len(m.frames)].slots =
                    [s \in DOMAIN @ |-> IF s \in DOMAIN vs THEN vs[s] ELSE Null]],
              fn.blocks[1].id, header)

\* The machine at the first instruction, called with one value per parameter.
start(kind, roomy, fn) ==
    LET n == Len(fn.params)
        m == [kind |-> kind, roomy |-> roomy, fault |-> FALSE, unyielding |-> FALSE,
              heap |-> [r \in 1 .. n |-> [rc |-> 1, data |-> <<-r>>]], next |-> n + 1,
              frames |-> <<>>, calls |-> <<>>, entered |-> {}, result |-> Null]
    IN  push_frame(m, fn, [i \in 1 .. n |-> [ref |-> i, len |-> 1]], None)
==============================================================================
