------------------------------- MODULE Mailbox -------------------------------
(***************************************************************************)
(* A process mailbox (mailbox.rs): a system queue drained first, a         *)
(* business queue and a one-shot reply slot, routed by tag.  A message is  *)
(* its tag, the process it is about or from, and its token: the call token *)
(* of a request or a reply, 0 for a plain cast.                            *)
(***************************************************************************)
EXTENDS Naturals, Sequences

Tags == {"Business", "ExitSignal", "IOReady", "Lifecycle", "Reply"}

NoMessage == [tag |-> "None", from |-> <<0, 0>>, token |-> 0]

Message(tag, from, token) == [tag |-> tag, from |-> from, token |-> token]

EmptyMailbox == [business |-> <<>>, reply |-> NoMessage, system |-> <<>>]

WaitTarget == {"Receive", "Reply"}

target_of(m) == IF m.tag = "Reply" THEN "Reply" ELSE "Receive"

\* A reply displaces whatever the slot still held.
push(mb, m) ==
    CASE m.tag = "Lifecycle" -> [mb EXCEPT !.system = Append(@, m)]
      [] m.tag = "Reply"     -> [mb EXCEPT !.reply = m]
      [] OTHER               -> [mb EXCEPT !.business = Append(@, m)]

has_system(mb) == mb.system # <<>>

depth(mb) == Len(mb.business) + Len(mb.system)

\* What pop_received returns, and what it leaves behind (depth(mb) > 0).
received(mb) == IF has_system(mb) THEN Head(mb.system) ELSE Head(mb.business)

after_pop(mb) ==
    IF has_system(mb) THEN [mb EXCEPT !.system = Tail(@)]
                      ELSE [mb EXCEPT !.business = Tail(@)]

has_reply(mb) == mb.reply # NoMessage

after_take(mb) == [mb EXCEPT !.reply = NoMessage]
==============================================================================
