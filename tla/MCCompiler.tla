------------------------------- MODULE MCCompiler -------------------------------
(***************************************************************************)
(* The functions the compiler model is checked on.  Locals 1 (and 2) are   *)
(* parameters, the others are bound by the body.                           *)
(***************************************************************************)
EXTENDS Compiler

Make == CallOf("other", <<>>)
Self(args) == CallOf("self", args)
Other(args) == CallOf("other", args)
Kinds == {"list", "leaf"}

\* Values built from the locals xs.
Values(xs) ==
    {Make, AppendTo(Make)}
      \cup UNION {{Var(x), AppendTo(Var(x)), AppendTo(AppendTo(Var(x))), Other(<<Var(x)>>)} : x \in xs}

\* Bindings and rebindings in a row, then a value or a call of itself.
Straight ==
    {Program(k, "heap", 1, <<Assign(2, e), s, Do(t)>>) :
        k \in Kinds,
        e \in {Make, Var(1)},
        s \in {Assign(2, v) : v \in Values({1, 2})} \cup {Do(Make), Discard(AppendTo(Var(2)))},
        t \in Values({1, 2}) \cup {Self(<<v>>) : v \in {Make, Var(1), AppendTo(Var(2))}}}

\* Two parameters handed on to itself in every combination.
Recursive ==
    {Program(k, r, 2, <<Do(If(<<Give(g)>>, <<>>)), Do(Self(<<a, b>>))>>) :
        k \in Kinds, r \in {"heap"}, g \in {<<Var(2)>>},
        a \in Values({1, 2}), b \in Values({1, 2})}

Arms ==
    {<<Do(v)>> : v \in Values({2}) \cup {Self(<<AppendTo(Var(2))>>)}}
      \cup {<<Assign(3, Make), Do(AppendTo(Var(3)))>>,
            <<Give(<<AppendTo(Var(2))>>)>>,
            <<Assign(2, Make), Do(If(<<Do(Var(2))>>, <<<<Do(Self(<<Var(2)>>))>>>>))>>}

\* A branch whose arms bind, return, or call itself, as the result and before it.
Branching ==
    {Program(k, "heap", 1, <<Assign(2, AppendTo(Var(1))), s>> \o t) :
        k \in Kinds,
        s \in {Do(If(a, <<b>>)) : a, b \in Arms} \cup {Assign(2, If(a, <<b>>)) : a, b \in Arms},
        t \in {<<>>, <<Do(AppendTo(Var(2)))>>}}

Bodies ==
    {<<Assign(2, AppendTo(Var(2)))>>,
     <<Assign(3, AppendTo(Var(2))), Assign(2, Other(<<Var(3)>>))>>,
     <<Do(If(<<Assign(2, Make), Break>>, <<>>)), Assign(3, Make), Discard(Other(<<Var(3)>>))>>,
     <<Do(If(<<Give(<<Var(2)>>)>>, <<<<Assign(3, Var(2))>>>>)), Assign(3, Make)>>,
     <<Assign(2, Self(<<Var(2)>>)), Break>>}

\* Loops, one inside the other, left by a condition, a break or a return.
Looping ==
    {Program(k, "heap", 1, <<Assign(2, e), Do(l), t>>) :
        k \in Kinds,
        e \in {Make, Var(1)},
        l \in UNION {{While(b), Loop(b), While(b \o <<Do(While(c))>>), While(<<Do(Loop(c))>> \o b)} :
                        b, c \in Bodies},
        t \in {Do(AppendTo(Var(2))), Do(Self(<<Var(2)>>)), Do(Other(<<Var(1), Var(2)>>))}}

\* Functions without a result.
Unit ==
    {Program(k, "unit", 1, <<Assign(2, AppendTo(Var(1))), Do(If(a, b)), t>>) :
        k \in Kinds,
        a \in {<<Give(<<>>)>>, <<Do(Self(<<Var(2)>>))>>, <<Do(Make)>>,
               <<Do(If(<<Do(Self(<<Var(2)>>))>>, <<>>))>>},
        b \in {<<>>, <<<<Do(Self(<<AppendTo(Var(1))>>))>>>>, <<<<Assign(3, Make)>>>>},
        t \in {Do(Self(<<Var(2)>>)), Do(AppendTo(Var(2))), Assign(2, Var(1)), Give(<<>>)}}

\* A local bound in one arm while the other returns, read after the branch.
ReturningArm ==
    {Program(k, "heap", 1, <<Do(If(a, <<b>>)), Do(AppendTo(Var(2)))>>) :
        k \in Kinds, a, b \in {<<Assign(2, Make)>>, <<Give(<<Var(1)>>)>>}}

\* A local passed on next to an append to it, in the last use of the local.
SharedReceiver ==
    {Program(k, "heap", 1, <<Assign(2, Make), Do(Other(<<a, b>>))>>) :
        k \in Kinds, a, b \in {Var(2), AppendTo(Var(2))}}

AllPrograms == Straight \cup Recursive \cup Branching \cup Looping \cup Unit
==============================================================================
