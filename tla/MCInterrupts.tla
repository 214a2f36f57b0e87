---------------------------- MODULE MCInterrupts ----------------------------
(* Two processors that set up devices' interrupts, the same or neighbours, *)
(* and send each other IPIs.                                               *)
EXTENDS Interrupts, TLC

SetUp(i) == <<<<"handler", i>>, <<"prio", i>>, <<"enable", i>>>>
SendTo(ds) == <<<<"ipi", ds>>>>

MCPlans ==
    {\* the same interrupt; neighbours; number 32 beside another
     (0 :> SetUp(33) @@ 1 :> SetUp(33)),
     (0 :> SetUp(33) @@ 1 :> SetUp(34)),
     (0 :> SetUp(32) \o SetUp(34) @@ 1 :> SetUp(33)),
     \* signals to each other and to oneself, with a timer
     (0 :> SetUp(Ipi) \o SetUp(Timer) \o SendTo({0, 1})
        @@ 1 :> SetUp(Ipi) \o SendTo({0})),
     (0 :> SetUp(32) \o SetUp(Ipi) @@ 1 :> SendTo({}) \o SendTo({0}))}

\* The plans are such that SignalsAreSeen and DevicesAreHeard of
\* InterruptsProofs are about them.
ASSUME MCPlansAssumption == \A i \in Ids : RegistersFirst(i)
=============================================================================
