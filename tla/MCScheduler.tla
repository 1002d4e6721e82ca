------------------------------ MODULE MCScheduler ------------------------------
(***************************************************************************)
(* Instances of the native scheduler for TLC.  A scenario says how often   *)
(* the processes may call each intrinsic, and a run explores every         *)
(* behaviour of each of its scenarios.                                     *)
(***************************************************************************)
EXTENDS SchedulerProperties, TLC

WorkerSymmetry == Permutations(Workers)

None == [i \in Intrinsics |-> 0]

\* Three spawns besides main over three slots: the last one recycles a slot.
Cascade ==
    [None EXCEPT !["spawn"] = 3, !["kill"] = 1, !["exit"] = 1, !["yield"] = 1]

Monitoring == [None EXCEPT !["spawn"] = 1, !["kill"] = 1, !["crash"] = 1, !["monitor"] = 2,
                           !["demonitor"] = 1, !["receive"] = 1]

Io == [None EXCEPT !["spawn"] = 1, !["kill"] = 1, !["io"] = 2, !["receive"] = 1]

Mail == [None EXCEPT !["spawn"] = 1, !["send"] = 2, !["receive"] = 1,
                     !["receive_timeout"] = 1, !["yield"] = 1]

Calls2 == [None EXCEPT !["spawn"] = 1, !["call"] = 2, !["reply"] = 1, !["receive"] = 1]

CallKilled == [None EXCEPT !["spawn"] = 1, !["kill"] = 1, !["call"] = 1, !["reply"] = 1,
                           !["receive"] = 1]

Orphaning == [None EXCEPT !["spawn"] = 2, !["kill"] = 1, !["exit"] = 1]

CallOnce == [None EXCEPT !["spawn"] = 1, !["kill"] = 1, !["call"] = 1]

Drain == [None EXCEPT !["spawn"] = 1, !["signal"] = 1, !["receive"] = 1]

\* Who lives and who dies; who talks to whom; what must happen in the end.
DeathScenarios == {Cascade, Monitoring, Io}

TalkScenarios == {Mail, Calls2, CallKilled}

LiveScenarios == {Orphaning, CallOnce, Drain}
==============================================================================
