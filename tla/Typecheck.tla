------------------------------- MODULE Typecheck -------------------------------
(***************************************************************************)
(* The source language the compiler model works on, and what the           *)
(* typechecker accepts of it: the type of an expression                    *)
(* (resolve/control_flow) and definite assignment                          *)
(* (definite_assignment.rs).  A type is "heap" (a list, or a string when   *)
(* the program's kind is "leaf"), "unit" or "never".  Every condition is   *)
(* an opaque boolean.                                                      *)
(***************************************************************************)
EXTENDS IR

Expr(k, local, callee, args, bodies) ==
    [k |-> k, local |-> local, callee |-> callee, args |-> args, bodies |-> bodies]
Var(local) == Expr("var", local, "", <<>>, <<>>)
CallOf(callee, args) == Expr("call", None, callee, args, <<>>)
AppendTo(e) == Expr("append", None, "", <<e>>, <<>>)  \* e.append(1), or e <> "x"
If(then_body, else_bodies) == Expr("if", None, "", <<>>, <<then_body>> \o else_bodies)
While(body) == Expr("while", None, "", <<>>, <<body>>)
Loop(body) == Expr("loop", None, "", <<>>, <<body>>)

Stmt(k, local, exprs) == [k |-> k, local |-> local, exprs |-> exprs]
Do(e) == Stmt("expr", None, <<e>>)
Assign(local, e) == Stmt("assign", local, <<e>>)
Discard(e) == Stmt("discard", None, <<e>>)
Give(exprs) == Stmt("return", None, exprs)
Break == Stmt("break", None, <<>>)

\* A function: its parameters are the locals 1 .. params, `self' in calls.
Program(kind, ret, params, body) ==
    [kind |-> kind, ret |-> ret, params |-> params, body |-> body]

RECURSIVE breaks(_)
\* Whether a break of the body leaves the loop the body belongs to.
breaks(body) ==
    \E i \in DOMAIN body :
        \/ body[i].k = "break"
        \/ \E j \in DOMAIN body[i].exprs :
              LET e == body[i].exprs[j]
              IN  e.k = "if" /\ \E b \in DOMAIN e.bodies : breaks(e.bodies[b])

RECURSIVE type_of(_, _), body_tail_type(_, _)
body_tail_type(prog, body) ==
    IF \E i \in DOMAIN body : body[i].k = "return" THEN "never"
    ELSE IF body # <<>> /\ body[Len(body)].k = "expr"
         THEN type_of(prog, body[Len(body)].exprs[1]) ELSE "unit"

\* "failed" when the arms disagree.
join_two_arms(then_ty, else_ty) ==
    IF then_ty = "never" THEN else_ty
    ELSE IF else_ty \in {"never", then_ty} THEN then_ty ELSE "failed"

type_of(prog, e) ==
    CASE e.k \in {"var", "append"} -> "heap"
      [] e.k = "call" -> IF e.callee = "self" THEN prog.ret ELSE "heap"
      [] e.k = "if" /\ Len(e.bodies) = 2 ->
            join_two_arms(body_tail_type(prog, e.bodies[1]), body_tail_type(prog, e.bodies[2]))
      [] e.k = "loop" /\ ~breaks(e.bodies[1]) -> "never"
      [] OTHER -> "unit"

FlowState(assigned, diverged, ok) == [assigned |-> assigned, diverged |-> diverged, ok |-> ok]

join_arms(then_state, else_state) ==
    LET ok == then_state.ok /\ else_state.ok
    IN  IF then_state.diverged
        THEN FlowState(else_state.assigned, else_state.diverged, ok)
        ELSE IF else_state.diverged THEN FlowState(then_state.assigned, FALSE, ok)
        ELSE FlowState(then_state.assigned \cap else_state.assigned, FALSE, ok)

RECURSIVE check_expr(_, _, _), check_exprs(_, _, _), check_body(_, _, _)
check_exprs(prog, exprs, state) ==
    IF exprs = <<>> THEN state
    ELSE check_exprs(prog, Tail(exprs), check_expr(prog, Head(exprs), state))

diverge_on_never(prog, e, state) ==
    IF type_of(prog, e) = "never" THEN [state EXCEPT !.diverged = TRUE] ELSE state

check_statement(prog, stmt, state) ==
    LET after == check_exprs(prog, stmt.exprs, state)
    IN  CASE stmt.k = "assign" ->
                diverge_on_never(prog, stmt.exprs[1],
                                 [after EXCEPT !.assigned = @ \cup {stmt.local}])
          [] stmt.k = "expr" -> diverge_on_never(prog, stmt.exprs[1], after)
          [] stmt.k = "discard" -> after
          [] stmt.k \in {"return", "break"} -> [after EXCEPT !.diverged = TRUE]

check_body(prog, body, state) ==
    IF body = <<>> THEN state
    ELSE check_body(prog, Tail(body), check_statement(prog, Head(body), state))

check_expr(prog, e, state) ==
    LET arm(i) == check_body(prog, e.bodies[i], state)
        kept(i) == [state EXCEPT !.ok = arm(i).ok]  \* the body may not run
    IN  CASE e.k = "var" ->
                [state EXCEPT !.ok = @ /\ (state.diverged \/ e.local \in state.assigned)]
          [] e.k \in {"call", "append"} -> check_exprs(prog, e.args, state)
          [] e.k = "if" /\ Len(e.bodies) = 2 ->
                IF state.diverged THEN [kept(1) EXCEPT !.ok = @ /\ arm(2).ok]
                ELSE join_arms(arm(1), arm(2))
          [] OTHER -> kept(1)

check_function(prog) ==
    check_body(prog, prog.body, FlowState(1 .. prog.params, FALSE, TRUE)).ok

\* The return type: the body ends in an expression that diverges or is of it.
\* A trailing return would pass in a function with an error channel, which the
\* modelled ones do not have.
check_return_type(prog) ==
    LET last == prog.body[Len(prog.body)]
    IN  \/ prog.ret = "unit"
        \/ last.k = "expr" /\ type_of(prog, last.exprs[1]) \in {"never", prog.ret}

RECURSIVE well_typed_body(_, _)
\* Arguments, bindings and returned values are heap values, arms agree.
well_typed_body(prog, body) ==
    LET RECURSIVE well_typed(_)
        well_typed(e) ==
            /\ type_of(prog, e) # "failed"
            /\ \A i \in DOMAIN e.args :
                  well_typed(e.args[i]) /\ type_of(prog, e.args[i]) = "heap"
            /\ \A i \in DOMAIN e.bodies : well_typed_body(prog, e.bodies[i])
    IN  \A i \in DOMAIN body :
            /\ body[i].k = "return" => (body[i].exprs = <<>>) = (prog.ret = "unit")
            /\ \A j \in DOMAIN body[i].exprs :
                  /\ well_typed(body[i].exprs[j])
                  /\ body[i].k \in {"assign", "return"} => type_of(prog, body[i].exprs[j]) = "heap"

Accepted(prog) ==
    check_function(prog) /\ check_return_type(prog) /\ well_typed_body(prog, prog.body)
==============================================================================
