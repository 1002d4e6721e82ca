------------------------------ MODULE Deadlines ------------------------------
(***************************************************************************)
(* What the timers promise, without a wheel: a set of entries and the      *)
(* instant up to which it has been served.  A process has at most one      *)
(* deadline, which arming replaces.  Whoever serves an instant not served  *)
(* before takes exactly the entries due by then, and applies them soonest  *)
(* first.                                                                  *)
(***************************************************************************)
EXTENDS Integers

CONSTANTS Servers, Clients, Times

VARIABLES
    entries,  \* what has been asked for and is neither due, replaced nor cancelled
    issued,   \* how many entries have been asked for so far
    served,   \* the latest instant served, -1 before the first
    taken     \* by server: the due entries it has yet to apply
vars == <<entries, issued, served, taken>>

Init == entries = {} /\ issued = 0 /\ served = -1 /\ taken = [w \in Servers |-> {}]

Deadline(p) == {e \in entries : e.kind = "Promote" /\ e.pid = p}

Ask(e, instead) ==
    /\ e.seq = issued + 1
    /\ issued' = issued + 1
    /\ entries' = (entries \ instead) \cup {e}
    /\ UNCHANGED <<served, taken>>

Arm(p, t) ==
    Ask([fire_at |-> t, kind |-> "Promote", pid |-> p, seq |-> issued + 1], Deadline(p))

SendAfter(p, t) ==
    Ask([fire_at |-> t, kind |-> "Deliver", pid |-> p, seq |-> issued + 1], {})

Cancel(p) == entries' = entries \ Deadline(p) /\ UNCHANGED <<issued, served, taken>>

Serve(w, t) ==
    /\ taken[w] = {}
    /\ t > served
    /\ served' = t
    /\ taken' = [taken EXCEPT ![w] = {e \in entries : e.fire_at <= t}]
    /\ entries' = {e \in entries : e.fire_at > t}
    /\ UNCHANGED issued

Apply(w) ==
    \E e \in taken[w] :
        /\ \A d \in taken[w] \ {e} :
              e.fire_at < d.fire_at \/ (e.fire_at = d.fire_at /\ e.seq < d.seq)
        /\ taken' = [taken EXCEPT ![w] = @ \ {e}]
        /\ UNCHANGED <<entries, issued, served>>

Next ==
    \/ \E p \in Clients, t \in Times : Arm(p, t) \/ SendAfter(p, t)
    \/ \E p \in Clients : Cancel(p)
    \/ \E w \in Servers, t \in Times : Serve(w, t)
    \/ \E w \in Servers : Apply(w)

Spec == Init /\ [][Next]_vars
================================================================================
