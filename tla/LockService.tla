--------------------------- MODULE LockService ---------------------------
(* What a spin lock promises: one holder at most, who took the lock when   *)
(* it was free.                                                            *)
CONSTANTS Cpus, Nobody

VARIABLE holder

Init == holder = Nobody

Acquire(c) == holder = Nobody /\ holder' = c
Release(c) == holder = c /\ holder' = Nobody

Next == \E c \in Cpus : Acquire(c) \/ Release(c)

Spec == Init /\ [][Next]_holder
=============================================================================
