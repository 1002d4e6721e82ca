---------------------------- MODULE ProcessLifetime ----------------------------
(***************************************************************************)
(* What the process table promises of a PID, whatever the slot, the worker *)
(* or the killer: it is born once, dies once and is freed once, it is      *)
(* never freed while a worker owns it, and a slot's next PID is born only  *)
(* after its previous one was freed.                                       *)
(***************************************************************************)
EXTENDS Naturals

CONSTANTS SlotIds, LastGeneration

Pid == SlotIds \X (1 .. LastGeneration)

VARIABLES
    phase,  \* [Pid -> {"unborn", "live", "dead", "freed"}]
    owned   \* [Pid -> BOOLEAN]: a worker may be executing it

lifetimeVars == <<phase, owned>>

Init ==
    /\ \E main \in Pid : main[2] = 1 /\
         phase = [p \in Pid |-> IF p = main THEN "live" ELSE "unborn"]
    /\ owned = [p \in Pid |-> FALSE]

\* Its predecessor in the slot is gone for good.
Vacant(p) == p[2] = 1 \/ phase[<<p[1], p[2] - 1>>] = "freed"

Birth(p) ==
    /\ phase[p] = "unborn" /\ Vacant(p)
    /\ phase' = [phase EXCEPT ![p] = "live"]
    /\ UNCHANGED owned

Claim(p) ==
    /\ phase[p] = "live" /\ ~owned[p]
    /\ owned' = [owned EXCEPT ![p] = TRUE]
    /\ UNCHANGED phase

Release(p) ==
    /\ owned[p]
    /\ owned' = [owned EXCEPT ![p] = FALSE]
    /\ UNCHANGED phase

\* A process dies under its owner, which frees it after letting go ...
Die(p) ==
    /\ phase[p] = "live" /\ owned[p]
    /\ phase' = [phase EXCEPT ![p] = "dead"]
    /\ UNCHANGED owned

Free(p) ==
    /\ phase[p] = "dead" /\ ~owned[p]
    /\ phase' = [phase EXCEPT ![p] = "freed"]
    /\ UNCHANGED owned

\* ... or unowned, and is freed in the same step.
Vanish(p) ==
    /\ phase[p] = "live" /\ ~owned[p]
    /\ phase' = [phase EXCEPT ![p] = "freed"]
    /\ UNCHANGED owned

Next == \E p \in Pid : Birth(p) \/ Claim(p) \/ Release(p) \/ Die(p) \/ Free(p) \/ Vanish(p)

Spec == Init /\ [][Next]_lifetimeVars
==============================================================================
