-------------------------------- MODULE Meaning --------------------------------
(***************************************************************************)
(* What a program means under value semantics, whatever the compiler does: *)
(* a value is its contents, an assignment binds contents to a name.  The   *)
(* evaluator is given the outcomes of the conditions in the order they are *)
(* met and yields the calls of other functions with what they were passed, *)
(* and the result.  It is the reference the compiled code is checked       *)
(* against, not a translation of code.                                     *)
(***************************************************************************)
EXTENDS Typecheck

State(env, calls, conditions) ==
    [env |-> env, calls |-> calls, conditions |-> conditions, control |-> "next", value |-> <<>>]

RECURSIVE eval(_, _, _), eval_args(_, _, _, _), eval_body(_, _, _), eval_while(_, _, _)

eval_args(prog, args, s, values) ==
    IF args = <<>> \/ s.control # "next" THEN [state |-> s, values |-> values]
    ELSE LET t == eval(prog, Head(args), s)
         IN  eval_args(prog, Tail(args), t, Append(values, t.value))

eval_call(prog, callee, s, values) ==
    LET inner == eval_body(prog, prog.body, State(values, s.calls, s.conditions))
    IN  CASE callee = "other" ->
                [s EXCEPT !.calls = Append(@, values), !.value = <<Len(s.calls) + 1>>]
          [] callee = "append" -> [s EXCEPT !.value = Append(values[1], 0)]
          [] callee = "self" ->
                [s EXCEPT !.calls = inner.calls, !.conditions = inner.conditions,
                          !.value = IF prog.ret = "unit" THEN <<>> ELSE inner.value]

eval_if(prog, e, s) ==
    LET t == [s EXCEPT !.conditions = Tail(@), !.value = <<>>]
    IN  IF Head(s.conditions) THEN eval_body(prog, e.bodies[1], t)
        ELSE IF Len(e.bodies) = 2 THEN eval_body(prog, e.bodies[2], t) ELSE t

eval_while(prog, e, s) ==
    LET once == eval_body(prog, e.bodies[1],
                          IF e.k = "while" THEN [s EXCEPT !.conditions = Tail(@)] ELSE s)
    IN  IF e.k = "while" /\ ~Head(s.conditions)
        THEN [s EXCEPT !.conditions = Tail(@), !.value = <<>>]
        ELSE CASE once.control = "next" -> eval_while(prog, e, once)
               [] once.control = "break" -> [once EXCEPT !.control = "next", !.value = <<>>]
               [] once.control = "return" -> once

eval(prog, e, s) ==
    LET args == eval_args(prog, e.args, s, <<>>)
    IN  CASE e.k = "var" -> [s EXCEPT !.value = s.env[e.local]]
          [] e.k \in {"call", "append"} ->
                IF args.state.control # "next" THEN args.state
                ELSE eval_call(prog, IF e.k = "call" THEN e.callee ELSE "append",
                               args.state, args.values)
          [] e.k = "if" -> eval_if(prog, e, s)
          [] e.k \in {"while", "loop"} -> eval_while(prog, e, s)

eval_statement(prog, stmt, s) ==
    LET t == eval(prog, stmt.exprs[1], s)
        bound == [x \in DOMAIN t.env \cup {stmt.local} |->
                    IF x = stmt.local THEN t.value ELSE t.env[x]]
    IN  CASE stmt.k = "break" -> [s EXCEPT !.control = "break"]
          [] stmt.k = "return" /\ stmt.exprs = <<>> -> [s EXCEPT !.control = "return", !.value = <<>>]
          [] stmt.k = "return" /\ stmt.exprs # <<>> ->
                IF t.control # "next" THEN t ELSE [t EXCEPT !.control = "return"]
          [] stmt.k = "assign" ->
                IF t.control # "next" THEN t ELSE [t EXCEPT !.env = bound, !.value = <<>>]
          [] stmt.k \in {"expr", "discard"} -> t

eval_body(prog, body, s) ==
    IF body = <<>> \/ s.control # "next" THEN s
    ELSE eval_body(prog, Tail(body), eval_statement(prog, Head(body), s))

\* The calls and the result of a program whose conditions come out as given.
meaning(prog, conditions) ==
    LET s == eval_body(prog, prog.body, State([i \in 1 .. prog.params |-> <<-i>>], <<>>, conditions))
    IN  [calls |-> s.calls, result |-> IF prog.ret = "unit" THEN <<>> ELSE s.value]
==============================================================================
