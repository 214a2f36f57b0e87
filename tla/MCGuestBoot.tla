---------------------------- MODULE MCGuestBoot ----------------------------
(* Processors that race into _start, with stores in order; and processors  *)
(* that the first one switches on, with stores in any order.               *)
EXTENDS GuestBoot

MCBoots == {[together |-> TRUE, reorders |-> FALSE],
            [together |-> FALSE, reorders |-> TRUE]}
=============================================================================
