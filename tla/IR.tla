---------------------------------- MODULE IR ----------------------------------
(***************************************************************************)
(* The intermediate representation of one function (koja-ir function.rs):  *)
(* basic blocks of instructions over SSA values and local slots.  A value, *)
(* a slot and a block are numbers; block 1 is the entry.  Types are        *)
(* reduced to whether a value is heap-managed.  A condition is any         *)
(* boolean, so a two-way branch carries no operand for it.                 *)
(***************************************************************************)
EXTENDS Integers, FiniteSets, SequencesExt

None == 0  \* no value, no slot

Instruction(op, dest, local, args, callee) ==
    [op |-> op, dest |-> dest, local |-> local, args |-> args, callee |-> callee]

ConstUnit(dest) == Instruction("Const", dest, None, <<>>, "")
LocalDecl(local) == Instruction("LocalDecl", None, local, <<>>, "")
LocalRead(dest, local) == Instruction("LocalRead", dest, local, <<>>, "")
LocalWrite(local, value) == Instruction("LocalWrite", None, local, <<value>>, "")
Clone(dest, source) == Instruction("Clone", dest, None, <<source>>, "")
DropValue(value) == Instruction("DropValue", None, None, <<value>>, "")
DropLocal(local) == Instruction("DropLocal", None, local, <<>>, "")
ConsumeLocal(local) == Instruction("ConsumeLocal", None, local, <<>>, "")
Call(dest, callee, args) == Instruction("Call", dest, None, args, callee)
Concat(dest, lhs) == Instruction("Concat", dest, None, <<lhs>>, "")
ConcatConsuming(dest, lhs) == Instruction("ConcatConsuming", dest, None, <<lhs>>, "")
YieldCheck == Instruction("YieldCheck", None, None, <<>>, "")

BranchTarget(block, args) == [block |-> block, args |-> args]

\* A terminator: its branch targets in edge order, or the values it hands out.
Branch(target) == [op |-> "Branch", targets |-> <<target>>, args |-> <<>>]
CondBranch(then_target, else_target) ==
    [op |-> "CondBranch", targets |-> <<then_target, else_target>>, args |-> <<>>]
Return(args) == [op |-> "Return", targets |-> <<>>, args |-> args]
TailCall(args) == [op |-> "TailCall", targets |-> <<>>, args |-> args]
Unreachable == [op |-> "Unreachable", targets |-> <<>>, args |-> <<>>]

\* Whether the instruction reads the value as an operand.
uses_value(inst, value) == value \in ToSet(inst.args)

\* Whether the instruction reads, writes, declares or drops the slot.
touches_local(inst, local) == inst.local = local

\* Whether the value flows out of the block through its terminator.
leaves_through(term, value) ==
    value \in ToSet(term.args) \cup UNION {ToSet(t.args) : t \in ToSet(term.targets)}

is_drop(inst) == inst.op \in {"DropLocal", "DropValue"}

\* The blocks a block may be followed by, in edge order.
successors(block) == [i \in DOMAIN block.term.targets |-> block.term.targets[i].block]

\* The least index of a set, None when it is empty.
first_index(S) == IF S = {} THEN None ELSE Min(S)

\* A sequence without the elements at the indices S, and with t put in before i.
remove_all(s, S) ==
    LET kept == {i \in DOMAIN s : i \notin S}
        nth(k) == CHOOSE i \in kept : Cardinality({j \in kept : j < i}) = k - 1
    IN  [k \in 1 .. Cardinality(kept) |-> s[nth(k)]]
insert_before(s, i, t) == SubSeq(s, 1, i - 1) \o t \o SubSeq(s, i, Len(s))
==============================================================================
