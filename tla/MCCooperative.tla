---------------------------- MODULE MCCooperative ----------------------------
(***************************************************************************)
(* Instances of the cooperative scheduler.                                 *)
(***************************************************************************)
EXTENDS CooperativeScheduler

ThreePids == {<<0, 1>>, <<1, 1>>, <<2, 1>>}
BothArms == {{"Business", "Lifecycle"}}
BusinessArmOnly == {{"Business"}}

Scenario(menu, n, processes, signals) ==
    [menu |-> menu, fuel |-> n, processes |-> processes, signals |-> signals]

\* Kill cascades and exit signals over three generations; calls whose callee
\* may die; timers, descriptors and signals; a process that interrupts another
\* one's I/O; spinning at three priorities.
Deaths == Scenario({"spawn", "kill", "monitor", "demonitor", "receive"}, 4, 3, {})
Calls == Scenario({"spawn", "call", "receive"}, 4, 2, {})
Waits == Scenario({"cast", "send_after", "watch", "io_block", "receive", "after"}, 3, 1, Signals)
Interrupts == Scenario({"spawn", "signal", "io_block", "receive"}, 4, 2, {})
Priorities == Scenario({"spawn", "set_priority"}, 3, 3, {"Shutdown"})

\* A message and one signal for the entry process.
MailAndSignal == {Scenario({"cast", "receive"}, 2, 1, {"Reload"})}

AllScenarios == {Deaths, Calls, Waits, Interrupts, Priorities}
==============================================================================
