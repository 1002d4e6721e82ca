----------------------------- MODULE ConsumeFusion -----------------------------
(***************************************************************************)
(* Letting an append take over the storage of a receiver that dies there   *)
(* (koja-ir elaborate/consume.rs).  A site is an append of a list (a call  *)
(* of the intrinsic) or of a string (a concat); fusing rewrites it to its  *)
(* consuming form and deletes the release it replaces.                     *)
(***************************************************************************)
EXTENDS IR

is_site(inst) == (inst.op = "Call" /\ inst.callee = "append") \/ inst.op = "Concat"

receiver(inst) == inst.args[1]

apply(inst) ==
    IF inst.op = "Call" THEN [inst EXCEPT !.callee = "append.$consume$"]
    ELSE [inst EXCEPT !.op = "ConcatConsuming"]

\* The slot the receiver was read from, untouched and the receiver unused
\* between the read and the site.
receiver_slot(code, site, value) ==
    LET read == first_index({i \in 1 .. site - 1 : code[i].dest = value})
    IN  IF /\ read # None
           /\ code[read].op = "LocalRead"
           /\ \A i \in read + 1 .. site - 1 :
                 ~touches_local(code[i], code[read].local) /\ ~uses_value(code[i], value)
        THEN code[read].local ELSE None

\* A receiver's death: the indices of the instructions fusing deletes, {} when
\* the receiver does not die, and the slot whose storage is taken over.
Death(deleted, slot) == [deleted |-> deleted, slot |-> slot]
Lives == Death({}, None)

owned_temp_death(block, site) ==
    LET code == block.code
        value == receiver(code[site])
        use == first_index({i \in site + 1 .. Len(code) : uses_value(code[i], value)})
    IN  IF use # None /\ code[use].op = "DropValue" THEN Death({use}, None) ELSE Lives

rebind_trio_matches(code, stale_read, slot, result) ==
    /\ stale_read + 2 <= Len(code)
    /\ code[stale_read + 1] = DropValue(code[stale_read].dest)
    /\ code[stale_read + 2] = LocalWrite(slot, result)

\* The value the appends between a site and `stop' carry its result forward in.
rebind_carrier(code, site, stop) ==
    FoldLeft(LAMBDA carrier, inst :
                IF is_site(inst) /\ receiver(inst) = carrier THEN inst.dest ELSE carrier,
             code[site].dest, SubSeq(code, site + 1, stop - 1))

slot_rebind_death(block, site) ==
    LET code == block.code
        value == receiver(code[site])
        slot == receiver_slot(code, site, value)
        stop == first_index({i \in site + 1 .. Len(code) :
                                uses_value(code[i], value) \/ touches_local(code[i], slot)})
    IN  IF /\ slot # None
           /\ stop # None
           /\ ~uses_value(code[stop], value)
           /\ code[stop].op = "LocalRead"
           /\ stop + 2 <= Len(code)
           /\ rebind_trio_matches(code, stop, slot, rebind_carrier(code, site, stop))
        THEN Death({stop, stop + 1}, slot) ELSE Lives

slot_exit_death(block, site) ==
    LET code == block.code
        value == receiver(code[site])
        slot == receiver_slot(code, site, value)
        stop == first_index({i \in site + 1 .. Len(code) :
                                uses_value(code[i], value) \/ touches_local(code[i], slot)})
    IN  IF /\ slot # None
           /\ ~leaves_through(block.term, value)
           /\ stop # None
           /\ ~uses_value(code[stop], value)
           /\ code[stop].op = "DropLocal"
        THEN Death({stop}, slot) ELSE Lives

match_fusion(block, site) ==
    IF ~is_site(block.code[site]) THEN Lives
    ELSE IF owned_temp_death(block, site) # Lives THEN owned_temp_death(block, site)
    ELSE IF slot_rebind_death(block, site) # Lives THEN slot_rebind_death(block, site)
    ELSE slot_exit_death(block, site)

RECURSIVE fuse_from(_, _)
fuse_from(block, index) ==
    IF index > Len(block.code) THEN block
    ELSE LET death == match_fusion(block, index)
             marker == IF death.slot = None THEN <<>> ELSE <<ConsumeLocal(death.slot)>>
         IN  IF death = Lives THEN fuse_from(block, index + 1)
             ELSE fuse_from(
                    [block EXCEPT !.code =
                        insert_before(remove_all([@ EXCEPT ![index] = apply(@)], death.deleted),
                                      index, marker)],
                    index + Len(marker) + 1)

fuse_block(block) == fuse_from(block, 1)

fuse_consuming_sites(fn) == [fn EXCEPT !.blocks = [b \in DOMAIN @ |-> fuse_block(@[b])]]
==============================================================================
