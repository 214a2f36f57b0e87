------------------------- MODULE InterruptsProofs -------------------------
(* Interrupts for any set of processors, interrupts and plans.             *)
EXTENDS Interrupts, TLAPS

\* An interrupt that a processor has taken and not yet completed is its own,
\* those in its private registers are private, the others are devices'.
Taken ==
    /\ intr \in [Cpus -> [pc : {"no", "ack", "run", "end"}, id : Ids \cup {None}]]
    /\ act \in [Shared -> Cpus \cup {Nobody}]
    /\ pend \in [Cpus \cup {Dist} -> SUBSET Ids]
    /\ pend[Dist] \subseteq Shared
    /\ \A c \in Cpus : pend[c] \subseteq Private
    /\ \A c \in Cpus :
         intr[c].pc \in {"run", "end"} /\ intr[c].id \in Shared
            => act[intr[c].id] = c

\* Devices have numbers of their own, of which there are IRQ_NUM.
LEMMA SharedNumbers == Shared \subseteq 32 .. 1023
<1>1. 32 .. IRQ_NUM - 1 = 32 .. 1023
  BY DEF IRQ_NUM
<1> QED BY <1>1, InterruptsAssumption

\* No device's interrupt has a private number.
LEMMA Apart == Private \cap Shared = {} /\ Dist \notin Cpus
  BY SharedNumbers, InterruptsAssumption DEF Private, Ipi, Timer

\* Nothing has been taken at the start.
LEMMA TakenInit == Init => Taken
  BY InterruptsAssumption DEF Init, Taken, Nobody, None, Ids

\* A call sends IPIs at most.
LEMMA TakenProgram ==
    ASSUME Taken, NEW c \in Cpus, Program(c)
    PROVE  Taken'
<1>1. CASE UNCHANGED irqs
  BY <1>1 DEF Taken, irqs
<1>2. CASE Post(c)
  BY <1>2 DEF Taken, Post
<1>3. ASSUME NEW ds, SetPending(ds), UNCHANGED <<act, intr>>
      PROVE  Taken'
  <2>1. pend' \in [Cpus \cup {Dist} -> SUBSET Ids]
    BY <1>3 DEF Taken, SetPending, Ids, Private
  <2>2. /\ \A d \in Cpus : pend'[d] \subseteq Private
        /\ pend'[Dist] \subseteq Shared
    BY <1>3, Apart DEF Taken, SetPending, Private
  <2> QED BY <1>3, <2>1, <2>2 DEF Taken
<1>4. CASE SendSgi(c)
  <2>1. UNCHANGED <<act, intr>> /\ (pend' = pend \/ \E d \in reg[c] : SetPending({d}))
    BY <1>4 DEF SendSgi
  <2>2. CASE pend' = pend
    BY <2>1, <2>2 DEF Taken
  <2> QED BY <1>3, <2>1, <2>2
<1>5. CASE SbiSendIpi(c)
  <2>1. SetPending(reg[c]) /\ UNCHANGED <<act, intr>>
    BY <1>5 DEF SbiSendIpi
  <2> QED BY <1>3, <2>1
<1> QED BY <1>1, <1>2, <1>4, <1>5 DEF Program

\* Only an interrupt that nobody has is acknowledged, and only who has it
\* completes it.
LEMMA TakenHandler ==
    ASSUME Taken, NEW c \in Cpus, Take(c) \/ Handler(c)
    PROVE  Taken'
<1> USE Apart
<1>1. CASE Take(c)
  <2>1. CASE intr' = [intr EXCEPT ![c].pc = "ack"]
    BY <1>1, <2>1 DEF Take, Taken
  <2>2. ASSUME NEW i \in Internal(c),
               intr' = [intr EXCEPT ![c] = [pc |-> "run", id |-> i]]
        PROVE  Taken'
    <3>1. i \in Private
      BY <2>2 DEF Internal, Taken
    <3> QED BY <1>1, <2>2, <3>1 DEF Take, Taken, Ids
  <2> QED BY <1>1, <2>1, <2>2 DEF Take
<1>2. CASE Acknowledge(c)
  <2>1. PICK i \in External(c) \cup (IF ctl = "plic" THEN {} ELSE Internal(c)) :
          LET b == IF i \in Shared THEN Dist ELSE c IN
          /\ intr' = [intr EXCEPT ![c] = [pc |-> "run", id |-> i]]
          /\ pend' = [pend EXCEPT ![b] = @ \ {i}]
          /\ act' = IF i \in Shared THEN [act EXCEPT ![i] = c] ELSE act
    BY <1>2 DEF Acknowledge
  <2>2. i \in Ids /\ (i \in Shared => act[i] = Nobody)
    BY <2>1 DEF External, Internal, Taken, Ids
  <2>3. /\ intr' \in [Cpus -> [pc : {"no", "ack", "run", "end"}, id : Ids \cup {None}]]
        /\ act' \in [Shared -> Cpus \cup {Nobody}]
    BY <2>1, <2>2 DEF Taken
  <2>4. /\ pend' \in [Cpus \cup {Dist} -> SUBSET Ids]
        /\ \A d \in Cpus : pend'[d] \subseteq Private
        /\ pend'[Dist] \subseteq Shared
    BY <2>1 DEF Taken
  <2>5. ASSUME NEW d \in Cpus, intr'[d].pc \in {"run", "end"}, intr'[d].id \in Shared
        PROVE  act'[intr'[d].id] = d
    <3>1. CASE d = c
      BY <2>1, <2>2, <2>5, <3>1 DEF Taken
    <3>2. CASE d # c
      <4>1. intr'[d] = intr[d] /\ act[intr[d].id] = d
        BY <2>1, <2>5, <3>2 DEF Taken
      <4>2. d # Nobody
        BY DEF Nobody
      <4> QED BY <2>1, <2>2, <2>5, <4>1, <4>2 DEF Taken
    <3> QED BY <3>1, <3>2
  <2> QED BY <2>3, <2>4, <2>5 DEF Taken
<1>3. CASE Spurious(c)
  <2>1. intr' = [intr EXCEPT ![c].pc = "no"] /\ UNCHANGED <<pend, act>>
    BY <1>3 DEF Spurious
  <2> QED BY <2>1 DEF Taken
<1>4. CASE Handle(c)
  <2>1. /\ intr' = [intr EXCEPT ![c].pc = "end"] /\ intr[c].pc = "run"
        /\ pend' = IF intr[c].id = Timer /\ intr[c].id \in table
                   THEN [pend EXCEPT ![c] = @ \ {Timer}] ELSE pend
        /\ act' = act
    BY <1>4 DEF Handle
  <2>2. /\ pend' \in [Cpus \cup {Dist} -> SUBSET Ids]
        /\ \A d \in Cpus : pend'[d] \subseteq Private
        /\ pend'[Dist] \subseteq Shared
    BY <2>1 DEF Taken
  <2> QED BY <2>1, <2>2 DEF Taken
<1>5. CASE Complete(c)
  <2>1. /\ intr' = [intr EXCEPT ![c] = [pc |-> "no", id |-> None]]
        /\ act' = IF intr[c].id \in Shared
                  THEN [act EXCEPT ![intr[c].id] = Nobody] ELSE act
        /\ intr[c].pc = "end"
    BY <1>5 DEF Complete
  <2>2. /\ pend' \in [Cpus \cup {Dist} -> SUBSET Ids]
        /\ \A d \in Cpus : pend'[d] \subseteq Private
        /\ pend'[Dist] \subseteq Shared
    BY <1>5 DEF Complete, Taken
  <2>3. ASSUME NEW d \in Cpus, intr'[d].pc \in {"run", "end"}, intr'[d].id \in Shared
        PROVE  act'[intr'[d].id] = d
    <3>1. d # c /\ intr'[d] = intr[d]
      BY <2>1, <2>3 DEF Taken
    <3>2. act[intr[d].id] = d
      BY <2>3, <3>1 DEF Taken
    <3>3. intr[c].id \in Shared => act[intr[c].id] = c
      BY <2>1 DEF Taken
    <3> QED BY <2>1, <2>3, <3>1, <3>2, <3>3 DEF Taken
  <2>4. /\ intr' \in [Cpus -> [pc : {"no", "ack", "run", "end"}, id : Ids \cup {None}]]
        /\ act' \in [Shared -> Cpus \cup {Nobody}]
    BY <2>1 DEF Taken
  <2> QED BY <2>2, <2>3, <2>4 DEF Taken
<1> QED BY <1>1, <1>2, <1>3, <1>4, <1>5 DEF Handler

\* Every step keeps what is taken with who took it.
LEMMA TakenNext == Taken /\ [Next]_vars => Taken'
<1> SUFFICES ASSUME Taken, [Next]_vars PROVE Taken'
  OBVIOUS
<1>1. CASE UNCHANGED vars
  BY <1>1 DEF vars, irqs, Taken
<1>2. ASSUME NEW i \in Shared, Raise(i) PROVE Taken'
  BY <1>2, Apart DEF Raise, Taken, Ids
<1>3. ASSUME NEW c \in Cpus, Tick(c) PROVE Taken'
  BY <1>3, Apart DEF Tick, Taken, Ids, Private
<1> QED BY <1>1, <1>2, <1>3, TakenProgram, TakenHandler DEF Next

\* A device's interrupt is with one handler at a time, on each controller.
THEOREM HandlersExclude == Spec => []OneHandler
<1>1. Taken => OneHandler
  BY DEF Taken, OneHandler
<1> QED BY <1>1, TakenInit, TakenNext, PTL DEF Spec

-----------------------------------------------------------------------------
(* Settings stick.                                                         *)

Steps == {"start", "get_trgt", "set_trgt", "write_trgt", "route",
          "write_enbl", "write_prio", "send"}

Types ==
    /\ ctl \in {"gicv2", "gicv3", "plic"}
    /\ todo \in [Cpus -> Seq(Calls)]
    /\ done \in [Cpus -> SUBSET Calls]
    /\ at \in [Cpus -> Steps]
    /\ DOMAIN reg = Cpus /\ DOMAIN new = Cpus
    /\ holder \in [{"gicd_lock", "gicr_lock"} -> Cpus \cup {Nobody}]
    /\ DOMAIN en = Cpus \cup {Dist}
    /\ DOMAIN prio = Cpus \cup {Dist}
    /\ trgt \in [Shared -> SUBSET Cpus]

\* What a processor that is in a call is calling.
Control(c) ==
    /\ at[c] # "start" => todo[c] # <<>>
    /\ at[c] \in {"get_trgt", "set_trgt", "write_trgt"} =>
          Op(c) = "enable" /\ ctl = "gicv2"
    /\ at[c] = "route" => Op(c) = "enable" /\ ctl = "gicv3"
    /\ at[c] = "write_enbl" =>
          Op(c) = "enable" /\ ctl = "plic" /\ Arg(c) \in Shared
          /\ reg[c] = en[c] \cap EnblWord(Arg(c))
    /\ at[c] = "write_prio" => Op(c) = "prio" /\ ctl # "plic"
    /\ at[c] = "send" => Op(c) = "ipi"

\* What is read under a lock is still there when it is written back.
Locked(c) ==
    /\ at[c] = "write_trgt" =>
          /\ holder["gicd_lock"] = c
          /\ \A j \in Beside(Arg(c)) \cap Shared :
                {d \in Cpus : <<j, d>> \in reg[c]} = trgt[j]
    /\ at[c] = "write_prio" =>
          /\ holder[Lock(Arg(c))] = c
          /\ reg[c] = prio[Bank(c, Arg(c))] \cap Beside(Arg(c))

\* Interrupts go to processors that asked for them.
Askers(i) == {c \in Cpus : Asks(c, i)}

Routed(c) ==
    at[c] \in {"set_trgt", "write_trgt"} /\ Arg(c) \in Shared =>
        c \in new[c] /\ new[c] \subseteq Askers(Arg(c))

\* What has been enabled stays so, and has a target when the call returns.
Enabled(c) ==
    \A i \in Shared : ~Unreachable(i) =>
        /\ at[c] \in {"get_trgt", "set_trgt", "write_trgt", "route"} /\ Arg(c) = i =>
              i \in en[Dist]
        /\ <<"enable", i>> \in done[c] =>
              IF ctl = "plic" THEN i \in en[c] ELSE i \in en[Dist] /\ trgt[i] # {}

Prioritised(c) ==
    \A i \in Shared :
        ~Unreachable(i) /\ <<"prio", i>> \in done[c] => i \in prio[Dist]

Of(c) == Control(c) /\ Locked(c) /\ Routed(c) /\ Enabled(c) /\ Prioritised(c)

Settled ==
    /\ Types
    /\ \A i \in Shared : trgt[i] \subseteq Askers(i)
    /\ \A c \in Cpus : Of(c)

\* At the start nobody is in a call, and none has returned.
LEMMA SettledInit == Init => Settled
  BY InterruptsAssumption DEF Init, Settled, Types, Of, Control, Locked, Routed,
     Enabled, Prioritised, Steps, Nobody

\* They are enough for the property.
LEMMA SettledEnough == Settled => SettingsStick
<1> SUFFICES ASSUME Settled, NEW c \in Cpus, NEW i \in Shared, ~Unreachable(i)
             PROVE  /\ <<"prio", i>> \in done[c] => i \in prio[Dist]
                    /\ <<"enable", i>> \in done[c] =>
                         /\ \E d \in Cpus : Asks(d, i) /\ Listens(d, i)
                         /\ (\A d \in Cpus \ {c} : ~Asks(d, i)) => Listens(c, i)
  BY DEF SettingsStick
<1>1. <<"prio", i>> \in done[c] => i \in prio[Dist]
  BY DEF Settled, Of, Prioritised
<1>2. CASE ctl = "plic"
  BY <1>1, <1>2 DEF Settled, Of, Enabled, Listens, Asks
<1>3. CASE ctl # "plic"
  <2>1. trgt[i] \subseteq Askers(i)
    BY DEF Settled
  <2> QED BY <1>1, <1>3, <2>1 DEF Settled, Of, Enabled, Listens, Askers
<1> QED BY <1>2, <1>3

\* A call that returns moves from what is to do to what is done.
LEMMA AsksKept ==
    ASSUME Types, NEW c \in Cpus, todo[c] # <<>>, Return(c)
    PROVE  /\ Head(todo[c]) \in Calls
           /\ todo' \in [Cpus -> Seq(Calls)]
           /\ done' \in [Cpus -> SUBSET Calls]
           /\ \A d \in Cpus, i \in Ids : Asks(d, i)' <=> Asks(d, i)
<1>1. todo[c] \in Seq(Calls) /\ Head(todo[c]) \in Calls
      /\ Tail(todo[c]) \in Seq(Calls)
  BY DEF Types
<1>2. todo' = [todo EXCEPT ![c] = Tail(todo[c])]
      /\ done' = [done EXCEPT ![c] = done[c] \cup {Head(todo[c])}]
  BY DEF Return, Call
<1>3. todo' \in [Cpus -> Seq(Calls)] /\ done' \in [Cpus -> SUBSET Calls]
  BY <1>1, <1>2 DEF Types
<1>4. ASSUME NEW d \in Cpus, NEW i \in Ids
      PROVE  Asks(d, i)' <=> Asks(d, i)
  <2>1. CASE d # c
    BY <1>2, <2>1 DEF Types, Asks
  <2>2. CASE d = c
    <3>1. done'[c] = done[c] \cup {Head(todo[c])} /\ todo'[c] = Tail(todo[c])
      BY <1>2 DEF Types
    <3>2. (\E n \in DOMAIN todo[c] : todo[c][n] = <<"enable", i>>) <=>
            \/ Head(todo[c]) = <<"enable", i>>
            \/ \E n \in DOMAIN Tail(todo[c]) : Tail(todo[c])[n] = <<"enable", i>>
      <4>1. ASSUME NEW n \in DOMAIN todo[c], todo[c][n] = <<"enable", i>>
            PROVE  \/ Head(todo[c]) = <<"enable", i>>
                   \/ \E k \in DOMAIN Tail(todo[c]) : Tail(todo[c])[k] = <<"enable", i>>
        <5>1. CASE n = 1
          BY <1>1, <4>1, <5>1
        <5>2. CASE n # 1
          <6>1. n - 1 \in DOMAIN Tail(todo[c]) /\ Tail(todo[c])[n - 1] = todo[c][n]
            BY <1>1, <5>2
          <6> QED BY <4>1, <6>1
        <5> QED BY <5>1, <5>2
      <4>2. ASSUME NEW n \in DOMAIN Tail(todo[c]), Tail(todo[c])[n] = <<"enable", i>>
            PROVE  \E k \in DOMAIN todo[c] : todo[c][k] = <<"enable", i>>
        <5>1. n + 1 \in DOMAIN todo[c] /\ todo[c][n + 1] = Tail(todo[c])[n]
          BY <1>1
        <5> QED BY <4>2, <5>1
      <4>3. 1 \in DOMAIN todo[c] /\ todo[c][1] = Head(todo[c])
        BY <1>1
      <4> QED BY <4>1, <4>2, <4>3
    <3> QED BY <2>2, <3>1, <3>2 DEF Asks
  <2> QED BY <2>1, <2>2
<1> QED BY <1>1, <1>3, <1>4

\* Who asks for what does not change, nor do the types of what a call moves.
LEMMA MovesOn ==
    ASSUME Types, NEW c \in Cpus, todo[c] # <<>>,
           Return(c) \/ \E s \in Steps : Go(c, s)
    PROVE  /\ todo' \in [Cpus -> Seq(Calls)] /\ done' \in [Cpus -> SUBSET Calls]
           /\ at' \in [Cpus -> Steps]
           /\ \A i \in Shared : Askers(i)' = Askers(i)
<1>1. CASE Return(c)
  BY <1>1, AsksKept DEF Return, Types, Steps, Askers, Ids
<1>2. ASSUME NEW s \in Steps, Go(c, s)
      PROVE  /\ todo' \in [Cpus -> Seq(Calls)] /\ done' \in [Cpus -> SUBSET Calls]
             /\ at' \in [Cpus -> Steps]
             /\ \A i \in Shared : Askers(i)' = Askers(i)
  BY <1>2 DEF Go, Types, Askers, Asks
<1> QED BY <1>1, <1>2

\* What stays for the others when c makes a step of a call.
LEMMA OthersKept ==
    ASSUME Settled, NEW c \in Cpus, NEW d \in Cpus \ {c}, UNCHANGED ctl,
           todo[c] # <<>>, Return(c) \/ \E s \in Steps : Go(c, s),
           reg'[d] = reg[d], new'[d] = new[d], en'[d] = en[d],
           en[Dist] \subseteq en'[Dist],
           prio[Dist] \subseteq prio'[Dist],
           \A i \in Shared : trgt[i] # {} => trgt'[i] # {},
           at[d] = "write_trgt" => holder'["gicd_lock"] = d /\ trgt' = trgt,
           at[d] = "write_prio" =>
              /\ holder'[Lock(Arg(d))] = d
              /\ prio'[Bank(d, Arg(d))] = prio[Bank(d, Arg(d))]
    PROVE  Of(d)'
<1>1. Types /\ Of(d)
  BY DEF Settled
<1>2. at'[d] = at[d] /\ todo'[d] = todo[d] /\ done'[d] = done[d]
  BY <1>1 DEF Return, Go, Types
<1>3. Op(d)' = Op(d) /\ Arg(d)' = Arg(d)
  BY <1>2 DEF Op, Arg, Call
<1>4. \A i \in Ids : Asks(d, i)' <=> Asks(d, i)
  BY <1>2 DEF Asks
<1>5. \A e \in Cpus, i \in Ids : Asks(e, i)' <=> Asks(e, i)
  BY <1>1, AsksKept DEF Go, Asks
<1>6. \A i \in Shared : Askers(i)' = Askers(i)
  BY <1>5 DEF Askers, Ids
<1>c. Control(d)'
  BY <1>1, <1>2, <1>3 DEF Of, Control
<1>l. Locked(d)'
  <2>1. CASE at[d] = "write_trgt"
    BY <1>1, <1>2, <1>3, <2>1 DEF Of, Locked
  <2>2. CASE at[d] = "write_prio"
    <3>1. Lock(Arg(d))' = Lock(Arg(d)) /\ prio[Bank(d, Arg(d))]' = prio'[Bank(d, Arg(d))]
      BY <1>3 DEF Lock, Bank
    <3> QED BY <1>1, <1>2, <1>3, <2>2, <3>1 DEF Of, Locked
  <2> QED BY <1>2, <2>1, <2>2 DEF Locked
<1>r. Routed(d)'
  BY <1>1, <1>2, <1>3, <1>6 DEF Of, Routed
<1>e. Enabled(d)'
  BY <1>1, <1>2, <1>3 DEF Of, Enabled, Unreachable, InGicd
<1>p. Prioritised(d)'
  BY <1>1, <1>2 DEF Of, Prioritised, Unreachable, InGicd
<1> QED BY <1>c, <1>l, <1>r, <1>e, <1>p DEF Of

\* A call that returns has done what it is for.
LEMMA Returned ==
    ASSUME Settled, NEW c \in Cpus, UNCHANGED ctl,
           todo[c] # <<>>, Return(c),
           en[Dist] \subseteq en'[Dist], en[c] \subseteq en'[c],
           prio[Dist] \subseteq prio'[Dist],
           \A i \in Shared : trgt[i] # {} => trgt'[i] # {},
           \A i \in Shared : ~Unreachable(i) /\ Call(c) = <<"enable", i>> =>
              IF ctl = "plic" THEN i \in en'[c] ELSE i \in en'[Dist] /\ trgt'[i] # {},
           \A i \in Shared : ~Unreachable(i) /\ Call(c) = <<"prio", i>> =>
              i \in prio'[Dist]
    PROVE  Of(c)'
<1>1. Types /\ Of(c)
  BY DEF Settled
<1>2. at'[c] = "start" /\ done'[c] = done[c] \cup {Call(c)}
  BY <1>1 DEF Return, Types
<1>c. Control(c)' /\ Locked(c)' /\ Routed(c)'
  BY <1>2 DEF Control, Locked, Routed
<1>e. Enabled(c)'
  BY <1>1, <1>2 DEF Of, Enabled, Unreachable, InGicd
<1>p. Prioritised(c)'
  BY <1>1, <1>2 DEF Of, Prioritised, Unreachable, InGicd
<1> QED BY <1>c, <1>e, <1>p DEF Of

\* A call that goes on has not undone what others were for.
LEMMA WentOn ==
    ASSUME Settled, NEW c \in Cpus, UNCHANGED ctl,
           todo[c] # <<>>, NEW s \in Steps, Go(c, s),
           en[Dist] \subseteq en'[Dist], en[c] \subseteq en'[c],
           prio' = prio, trgt' = trgt,
           Control(c)', Locked(c)', Routed(c)',
           s \in {"get_trgt", "set_trgt", "write_trgt", "route"} =>
              \A i \in Shared : ~Unreachable(i) /\ Arg(c) = i => i \in en'[Dist]
    PROVE  Of(c)'
<1>1. Types /\ Of(c)
  BY DEF Settled
<1>2. at'[c] = s /\ done'[c] = done[c] /\ Arg(c)' = Arg(c)
  BY <1>1 DEF Go, Types, Arg, Call
<1>e. Enabled(c)'
  BY <1>1, <1>2 DEF Of, Enabled, Unreachable, InGicd
<1>p. Prioritised(c)'
  BY <1>1, <1>2 DEF Of, Prioritised, Unreachable, InGicd
<1> QED BY <1>e, <1>p DEF Of

\* irq_set_handler() and irq_send_ipi() change no register of settings.
LEMMA SettledNoRegister ==
    ASSUME Settled, NEW c \in Cpus, UNCHANGED ctl,
           SetHandler(c) \/ Post(c) \/ SendSgi(c) \/ SbiSendIpi(c)
    PROVE  Settled'
<1>t. Types /\ Of(c)
  BY DEF Settled
<1>1. /\ todo[c] # <<>>
      /\ Return(c) \/ (Go(c, "send") /\ Op(c) = "ipi")
      /\ Op(c) \in {"handler", "ipi"}
  BY <1>t DEF Of, Control, SetHandler, Post, SendSgi, SbiSendIpi, InCall
<1>2. UNCHANGED <<new, holder, en, prio, trgt>>
  BY DEF SetHandler, Post, SendSgi, SbiSendIpi
<1>3. DOMAIN reg' = Cpus /\ \A d \in Cpus \ {c} : reg'[d] = reg[d]
  BY <1>t DEF Types, SetHandler, Post, SendSgi, SbiSendIpi
<1>4. "send" \in Steps
  BY DEF Steps
<1>5. /\ todo' \in [Cpus -> Seq(Calls)] /\ done' \in [Cpus -> SUBSET Calls]
      /\ at' \in [Cpus -> Steps]
      /\ \A i \in Shared : Askers(i)' = Askers(i)
  BY <1>t, <1>1, <1>4, MovesOn
<1>6. Types' /\ \A i \in Shared : (trgt[i] \subseteq Askers(i))'
  BY <1>t, <1>2, <1>3, <1>5 DEF Types, Settled
<1>7. ASSUME NEW d \in Cpus \ {c} PROVE Of(d)'
  <2>1. at[d] = "write_trgt" => holder'["gicd_lock"] = d
    BY <1>2 DEF Settled, Of, Locked
  <2>2. at[d] = "write_prio" => holder'[Lock(Arg(d))] = d
    BY <1>2 DEF Settled, Of, Locked
  <2> QED BY <1>1, <1>2, <1>3, <1>4, <2>1, <2>2, OthersKept
<1>8. Of(c)'
  <2>1. CASE Return(c)
    BY <1>1, <1>2, <2>1, Returned DEF Op
  <2>2. CASE Go(c, "send") /\ Op(c) = "ipi"
    <3>1. at'[c] = "send" /\ Op(c)' = "ipi" /\ todo'[c] # <<>>
      BY <1>t, <1>1, <2>2 DEF Go, Op, Call, Types
    <3>2. Control(c)' /\ Locked(c)' /\ Routed(c)'
      BY <3>1 DEF Control, Locked, Routed
    <3> QED BY <1>1, <1>2, <1>4, <2>2, <3>2, WentOn
  <2> QED BY <1>1, <2>1, <2>2
<1> QED BY <1>6, <1>7, <1>8 DEF Settled

\* The steps of irq_enable() on the enable registers.
LEMMA SettledEnable ==
    ASSUME Settled, NEW c \in Cpus, UNCHANGED ctl,
           GicSetEnable(c) \/ SetSie(c) \/ ReadEnbl(c) \/ WriteEnbl(c)
    PROVE  Settled'
<1> USE Apart
<1> DEFINE i == Arg(c)
<1>t. Types /\ Of(c)
  BY DEF Settled
<1>1. todo[c] # <<>> /\ Op(c) = "enable"
  BY <1>t DEF Of, Control, GicSetEnable, SetSie, ReadEnbl, WriteEnbl, InCall
<1>2. UNCHANGED <<new, holder, prio, trgt>>
  BY DEF GicSetEnable, SetSie, ReadEnbl, WriteEnbl
<1>3. DOMAIN reg' = Cpus /\ \A d \in Cpus \ {c} : reg'[d] = reg[d]
  BY <1>t DEF Types, GicSetEnable, SetSie, ReadEnbl, WriteEnbl
<1>4. /\ DOMAIN en' = Cpus \cup {Dist}
      /\ \A d \in Cpus \ {c} : en'[d] = en[d]
      /\ en[Dist] \subseteq en'[Dist] /\ en[c] \subseteq en'[c]
  <2>1. CASE GicSetEnable(c)
    <3>1. Bank(c, i) \in {c, Dist}
      BY <2>1, <1>t DEF Bank, GicSetEnable, Types
    <3> QED BY <2>1, <3>1, <1>t DEF GicSetEnable, Types
  <2>2. CASE SetSie(c) \/ ReadEnbl(c)
    BY <2>2, <1>t DEF SetSie, ReadEnbl, Types
  <2>3. CASE WriteEnbl(c)
    <3>1. reg[c] = en[c] \cap EnblWord(i)
      BY <2>3, <1>t DEF WriteEnbl, InCall, Of, Control
    <3> QED BY <2>3, <3>1, <1>t DEF WriteEnbl, Types
  <2> QED BY <2>1, <2>2, <2>3
<1>5. /\ Return(c) \/ \E s \in Steps : Go(c, s)
  BY DEF GicSetEnable, SetSie, ReadEnbl, WriteEnbl, Steps
<1>6. /\ todo' \in [Cpus -> Seq(Calls)] /\ done' \in [Cpus -> SUBSET Calls]
      /\ at' \in [Cpus -> Steps]
      /\ \A j \in Shared : Askers(j)' = Askers(j)
  BY <1>t, <1>1, <1>5, MovesOn
<1>7. Types' /\ \A j \in Shared : (trgt[j] \subseteq Askers(j))'
  BY <1>t, <1>2, <1>3, <1>4, <1>6 DEF Types, Settled
<1>8. ASSUME NEW d \in Cpus \ {c} PROVE Of(d)'
  <2>1. at[d] = "write_trgt" => holder'["gicd_lock"] = d
    BY <1>2 DEF Settled, Of, Locked
  <2>2. at[d] = "write_prio" => holder'[Lock(Arg(d))] = d
    BY <1>2 DEF Settled, Of, Locked
  <2> QED BY <1>1, <1>2, <1>3, <1>4, <1>5, <2>1, <2>2, OthersKept
<1>9. Of(c)'
  <2>0. Call(c) = <<"enable", i>>
    BY <1>t, <1>1 DEF Types, Calls, Call, Op, Arg
  <2>1. CASE GicSetEnable(c)
    <3> DEFINE s == IF ctl = "gicv2" THEN "get_trgt" ELSE "route"
    <3>1. Go(c, s) /\ s \in Steps /\ ctl \in {"gicv2", "gicv3"}
      BY <2>1, <1>t DEF GicSetEnable, Steps, Types
    <3>2. at'[c] = s /\ Op(c)' = "enable" /\ todo'[c] # <<>>
      BY <1>t, <1>1, <3>1 DEF Go, Op, Call, Types
    <3>3. Control(c)' /\ Locked(c)' /\ Routed(c)'
      BY <3>1, <3>2 DEF Control, Locked, Routed
    <3>4. i \in Shared /\ ~Unreachable(i) => i \in en'[Dist]
      <4>1. i \in Shared /\ ~Unreachable(i) => Bank(c, i) = Dist /\ Bit(i) = i
        BY <3>1, InterruptsAssumption DEF Bank, Bit, Unreachable
      <4> QED BY <2>1, <4>1, <1>t DEF GicSetEnable, Types
    <3> QED BY <1>1, <1>2, <1>4, <3>1, <3>3, <3>4, WentOn
  <2>2. CASE SetSie(c)
    <3>1. i \notin Shared
      BY <2>2 DEF SetSie
    <3>2. \A j \in Shared : Call(c) # <<"enable", j>> /\ Call(c) # <<"prio", j>>
      BY <2>0, <3>1
    <3> QED BY <2>2, <1>1, <1>2, <1>4, <3>2, Returned DEF SetSie
  <2>3. CASE ReadEnbl(c)
    <3>1. Go(c, "write_enbl") /\ "write_enbl" \in Steps /\ ctl = "plic" /\ i \in Shared
      BY <2>3 DEF ReadEnbl, Steps
    <3>2. /\ at'[c] = "write_enbl" /\ Op(c)' = "enable" /\ todo'[c] # <<>>
          /\ Arg(c)' = i
      BY <1>t, <1>1, <3>1 DEF Go, Op, Arg, Call, Types
    <3>3. reg'[c] = en'[c] \cap EnblWord(i)
      BY <2>3, <1>t DEF ReadEnbl, Types
    <3>4. Control(c)' /\ Locked(c)' /\ Routed(c)'
      BY <3>1, <3>2, <3>3 DEF Control, Locked, Routed
    <3> QED BY <1>1, <1>2, <1>4, <3>1, <3>4, WentOn
  <2>4. CASE WriteEnbl(c)
    <3>1. ctl = "plic" /\ i \in en'[c]
      BY <2>4, <1>t DEF WriteEnbl, InCall, Of, Control, Types
    <3>2. \A j \in Shared : Call(c) = <<"enable", j>> => j \in en'[c]
      BY <2>0, <3>1
    <3>3. \A j \in Shared : Call(c) # <<"prio", j>>
      BY <2>0
    <3> QED BY <2>4, <1>1, <1>2, <1>4, <3>1, <3>2, <3>3, Returned DEF WriteEnbl
  <2> QED BY <2>1, <2>2, <2>3, <2>4
<1> QED BY <1>7, <1>8, <1>9 DEF Settled

\* Who calls irq_enable(i) is one who asks for i.
LEMMA CallerAsks ==
    ASSUME Types, NEW c \in Cpus, todo[c] # <<>>, Op(c) = "enable"
    PROVE  /\ Call(c) = <<"enable", Arg(c)>> /\ Arg(c) \in Ids
           /\ c \in Askers(Arg(c))
<1>1. Head(todo[c]) \in Calls /\ 1 \in DOMAIN todo[c] /\ todo[c][1] = Head(todo[c])
  BY DEF Types
<1>2. Call(c) = <<"enable", Arg(c)>> /\ Arg(c) \in Ids
  BY <1>1 DEF Calls, Call, Op, Arg
<1> QED BY <1>1, <1>2 DEF Askers, Asks, Call

\* The targets that a processor writes are those it read, and its own.
LEMMA TargetsGrow ==
    ASSUME Settled, NEW c \in Cpus, WriteTrgts(c)
    PROVE  /\ Arg(c) \in Shared => trgt' = [trgt EXCEPT ![Arg(c)] = new[c]]
           /\ Arg(c) \notin Shared => trgt' = trgt
<1> DEFINE i == Arg(c)
           word == [j \in Beside(i) \cap Shared |->
                       IF j = i THEN new[c] ELSE {d \in Cpus : <<j, d>> \in reg[c]}]
<1>1. Types /\ Of(c) /\ at[c] = "write_trgt" /\ todo[c] # <<>>
  BY DEF Settled, WriteTrgts, InCall
<1>2. \A j \in Beside(i) \cap Shared : {d \in Cpus : <<j, d>> \in reg[c]} = trgt[j]
  BY <1>1 DEF Of, Locked
<1>3. i \in Ids
  BY <1>1, CallerAsks DEF Of, Control
<1>4. trgt' = [j \in Shared |-> IF j \in DOMAIN word THEN word[j] ELSE trgt[j]]
  BY DEF WriteTrgts
<1>5. DOMAIN word = Beside(i) \cap Shared
  OBVIOUS
<1>6. \A j \in Shared : j # i => trgt'[j] = trgt[j]
  <2> SUFFICES ASSUME NEW j \in Shared, j # i PROVE trgt'[j] = trgt[j]
    OBVIOUS
  <2>1. trgt'[j] = IF j \in Beside(i) \cap Shared
                   THEN {d \in Cpus : <<j, d>> \in reg[c]} ELSE trgt[j]
    BY <1>4, <1>5
  <2> QED BY <2>1, <1>2
<1>7. i \in Shared => trgt'[i] = new[c]
  <2> SUFFICES ASSUME i \in Shared PROVE trgt'[i] = new[c]
    OBVIOUS
  <2>1. i \in Beside(i) \cap Shared
    BY <1>3 DEF Beside
  <2> QED BY <1>4, <1>5, <2>1
<1>8. trgt \in [Shared -> SUBSET Cpus] /\ trgt' = [j \in Shared |-> trgt'[j]]
  BY <1>1, <1>4 DEF Types
<1>9. i \in Shared => trgt' = [trgt EXCEPT ![i] = new[c]]
  BY <1>6, <1>7, <1>8
<1>10. i \notin Shared => trgt' = trgt
  BY <1>6, <1>8
<1> QED BY <1>9, <1>10

\* The steps of irq_enable() on the targets.
LEMMA SettledTargets ==
    ASSUME Settled, NEW c \in Cpus, UNCHANGED ctl,
           GetTrgt(c) \/ LockTrgts(c) \/ WriteTrgts(c) \/ SetRoute(c)
    PROVE  Settled'
<1> USE Apart
<1> DEFINE i == Arg(c)
<1>t. Types /\ Of(c)
  BY DEF Settled
<1>1. todo[c] # <<>> /\ Op(c) = "enable" /\ ctl \in {"gicv2", "gicv3"}
      /\ at[c] \in {"get_trgt", "set_trgt", "write_trgt", "route"}
  BY <1>t DEF Of, Control, GetTrgt, LockTrgts, WriteTrgts, SetRoute, InCall
<1>2. Call(c) = <<"enable", i>> /\ i \in Ids /\ c \in Askers(i)
  BY <1>t, <1>1, CallerAsks
<1>3. UNCHANGED <<en, prio>>
  BY DEF GetTrgt, LockTrgts, WriteTrgts, SetRoute
<1>4. /\ DOMAIN reg' = Cpus /\ \A d \in Cpus \ {c} : reg'[d] = reg[d]
      /\ DOMAIN new' = Cpus /\ \A d \in Cpus \ {c} : new'[d] = new[d]
  BY <1>t DEF Types, GetTrgt, LockTrgts, WriteTrgts, SetRoute
<1>5. holder' \in [{"gicd_lock", "gicr_lock"} -> Cpus \cup {Nobody}]
  BY <1>t DEF Types, GetTrgt, LockTrgts, WriteTrgts, SetRoute
<1>6. Return(c) \/ \E s \in Steps : Go(c, s)
  BY DEF GetTrgt, LockTrgts, WriteTrgts, SetRoute, Steps
<1>7. /\ todo' \in [Cpus -> Seq(Calls)] /\ done' \in [Cpus -> SUBSET Calls]
      /\ at' \in [Cpus -> Steps]
      /\ \A j \in Shared : Askers(j)' = Askers(j)
  BY <1>t, <1>1, <1>6, MovesOn
<1>8. /\ trgt' \in [Shared -> SUBSET Cpus]
      /\ \A j \in Shared : trgt'[j] \subseteq Askers(j)
      /\ \A j \in Shared : trgt[j] # {} => trgt'[j] # {}
      /\ (WriteTrgts(c) \/ SetRoute(c)) /\ i \in Shared => trgt'[i] # {}
  <2>0. \A j \in Shared : trgt[j] \subseteq Askers(j) /\ Askers(j) \subseteq Cpus
    BY DEF Settled, Askers
  <2>1. CASE GetTrgt(c) \/ LockTrgts(c)
    <3>1. trgt' = trgt
      BY <2>1 DEF GetTrgt, LockTrgts
    <3>2. at[c] \in {"get_trgt", "set_trgt"}
      BY <2>1 DEF GetTrgt, LockTrgts, InCall
    <3>3. ~WriteTrgts(c) /\ ~SetRoute(c)
      BY <3>2 DEF WriteTrgts, SetRoute, InCall
    <3> QED BY <3>1, <3>3, <2>0, <1>t DEF Types
  <2>2. CASE WriteTrgts(c)
    <3>1. i \in Shared => c \in new[c] /\ new[c] \subseteq Askers(i)
      BY <2>2, <1>t DEF WriteTrgts, InCall, Of, Routed
    <3>2. CASE i \in Shared
      <4>1. trgt' = [trgt EXCEPT ![i] = new[c]]
        BY <2>2, <3>2, TargetsGrow
      <4> QED BY <2>0, <3>1, <3>2, <4>1, <1>t DEF Types
    <3>3. CASE i \notin Shared
      <4>1. trgt' = trgt
        BY <2>2, <3>3, TargetsGrow
      <4> QED BY <2>0, <3>3, <4>1, <1>t DEF Types
    <3> QED BY <3>2, <3>3
  <2>3. CASE SetRoute(c)
    <3>1. CASE i \in Shared
      <4>1. i \in 32 .. 1023
        BY <3>1, SharedNumbers
      <4>2. trgt' = IF i < 32 THEN trgt ELSE [trgt EXCEPT ![i] = {c}]
        BY <2>3 DEF SetRoute
      <4>3. trgt' = [trgt EXCEPT ![i] = {c}]
        BY <4>1, <4>2
      <4> QED BY <2>0, <3>1, <4>3, <1>2, <1>t DEF Types
    <3>2. CASE i \notin Shared
      <4>1. i \in {0, 27}
        BY <3>2, <1>2 DEF Ids, Private, Ipi, Timer
      <4>2. trgt' = IF i < 32 THEN trgt ELSE [trgt EXCEPT ![i] = {c}]
        BY <2>3 DEF SetRoute
      <4>3. trgt' = trgt
        BY <4>1, <4>2
      <4> QED BY <2>0, <3>2, <4>3, <1>t DEF Types
    <3> QED BY <3>1, <3>2
  <2> QED BY <2>1, <2>2, <2>3, <1>t DEF Settled
<1>9. Types' /\ \A j \in Shared : (trgt[j] \subseteq Askers(j))'
  BY <1>t, <1>3, <1>4, <1>5, <1>7, <1>8 DEF Types
<1>10. ASSUME NEW d \in Cpus \ {c} PROVE Of(d)'
  <2>1. Of(d)
    BY DEF Settled
  <2>2. ctl = "gicv2" => Lock(Arg(d)) = "gicd_lock"
    BY DEF Lock
  <2>3. at[d] = "write_trgt" => holder["gicd_lock"] = d /\ ctl = "gicv2"
    BY <2>1 DEF Of, Locked, Control
  <2>4. at[d] = "write_prio" => holder[Lock(Arg(d))] = d
    BY <2>1 DEF Of, Locked
  <2>5. /\ at[d] = "write_trgt" => holder'["gicd_lock"] = d /\ trgt' = trgt
        /\ at[d] = "write_prio" => holder'[Lock(Arg(d))] = d
    <3>1. CASE GetTrgt(c)
      BY <2>3, <2>4, <3>1 DEF GetTrgt
    <3>2. CASE LockTrgts(c)
      <4>1. holder["gicd_lock"] = Nobody /\ ctl = "gicv2" /\ d # Nobody
        BY <3>2, <1>t DEF LockTrgts, IsFree, Of, Control, InCall, Nobody
      <4> QED BY <2>2, <2>3, <2>4, <4>1
    <3>3. CASE WriteTrgts(c)
      <4>1. holder["gicd_lock"] = c /\ ctl = "gicv2"
        BY <3>3, <1>t DEF WriteTrgts, Of, Locked, Control, InCall
      <4> QED BY <2>2, <2>3, <2>4, <4>1
    <3>4. CASE SetRoute(c)
      <4>1. holder' = holder /\ ctl = "gicv3"
        BY <3>4, <1>t DEF SetRoute, Of, Control, InCall
      <4> QED BY <2>3, <2>4, <4>1
    <3> QED BY <3>1, <3>2, <3>3, <3>4
  <2> QED BY <1>1, <1>3, <1>4, <1>6, <1>8, <2>5, OthersKept
<1>11. Of(c)'
  <2>1. CASE GetTrgt(c) \/ LockTrgts(c)
    <3> DEFINE s == IF at[c] = "get_trgt" THEN "set_trgt" ELSE "write_trgt"
    <3>1. /\ Go(c, s) /\ s \in Steps /\ ctl = "gicv2"
          /\ s \in {"set_trgt", "write_trgt"} /\ trgt' = trgt
      BY <2>1, <1>t DEF GetTrgt, LockTrgts, InCall, Steps, Of, Control
    <3>2. at'[c] = s /\ Op(c)' = "enable" /\ todo'[c] # <<>> /\ Arg(c)' = i
      BY <1>t, <1>1, <3>1 DEF Go, Op, Arg, Call, Types
    <3>3. Control(c)'
      BY <3>1, <3>2 DEF Control
    <3>4. Locked(c)'
      <4>1. CASE GetTrgt(c)
        BY <3>2, <4>1 DEF Locked, GetTrgt, InCall
      <4>2. CASE LockTrgts(c)
        <5>1. holder'["gicd_lock"] = c /\ reg'[c] = TrgtsBeside(i)
          BY <4>2, <1>t DEF LockTrgts, Types
        <5>2. s = "write_trgt"
          BY <4>2 DEF LockTrgts, InCall
        <5>3. ASSUME NEW j \in Beside(i) \cap Shared
              PROVE  {d \in Cpus : <<j, d>> \in reg'[c]} = trgt'[j]
          BY <5>1, <5>3, <3>1, <1>t DEF TrgtsBeside, Types
        <5>4. Beside(Arg(c))' = Beside(i)
          BY <3>2 DEF Beside
        <5> QED BY <3>2, <5>1, <5>2, <5>3, <5>4 DEF Locked
      <4> QED BY <2>1, <4>1, <4>2
    <3>5. Routed(c)'
      <4>1. i \in Shared => c \in new'[c] /\ new'[c] \subseteq Askers(i)
        <5>1. CASE GetTrgt(c)
          <6>1. i \in Shared => new'[c] = trgt[i] \cup {c}
            BY <5>1, <1>t DEF GetTrgt, Types
          <6> QED BY <6>1, <1>2 DEF Settled
        <5>2. CASE LockTrgts(c)
          <6>1. new' = new /\ at[c] = "set_trgt"
            BY <5>2 DEF LockTrgts, InCall
          <6> QED BY <6>1, <1>t DEF Of, Routed
        <5> QED BY <2>1, <5>1, <5>2
      <4> QED BY <3>2, <4>1, <1>7 DEF Routed
    <3>6. \A j \in Shared : ~Unreachable(j) /\ i = j => j \in en'[Dist]
      BY <1>1, <1>3, <1>t DEF Of, Enabled
    <3> QED BY <1>1, <1>3, <3>1, <3>3, <3>4, <3>5, <3>6, WentOn
  <2>2. CASE WriteTrgts(c) \/ SetRoute(c)
    <3>1. Return(c) /\ ctl # "plic"
      BY <2>2, <1>1 DEF WriteTrgts, SetRoute
    <3>2. \A j \in Shared : ~Unreachable(j) /\ i = j => j \in en[Dist]
      BY <1>1, <1>t DEF Of, Enabled
    <3>3. \A j \in Shared : ~Unreachable(j) /\ Call(c) = <<"enable", j>> =>
             j \in en'[Dist] /\ trgt'[j] # {}
      BY <1>2, <1>3, <1>8, <2>2, <3>2
    <3>4. \A j \in Shared : Call(c) # <<"prio", j>>
      BY <1>2
    <3> QED BY <1>1, <1>3, <1>8, <3>1, <3>3, <3>4, Returned
  <2> QED BY <2>1, <2>2
<1> QED BY <1>9, <1>10, <1>11 DEF Settled

\* The steps of irq_set_prio().
LEMMA SettledPrio ==
    ASSUME Settled, NEW c \in Cpus, UNCHANGED ctl,
           LockPrio(c) \/ WritePrio(c) \/ PlicSetPrio(c)
    PROVE  Settled'
<1> USE Apart
<1> DEFINE i == Arg(c)
<1>t. Types /\ Of(c)
  BY DEF Settled
<1>1. todo[c] # <<>> /\ Op(c) = "prio"
  BY <1>t DEF Of, Control, LockPrio, WritePrio, PlicSetPrio, InCall
<1>2. Call(c) = <<"prio", i>> /\ i \in Ids
  <2>1. Head(todo[c]) \in Calls
    BY <1>t, <1>1 DEF Types
  <2> QED BY <1>1, <2>1 DEF Calls, Call, Op, Arg
<1>3. UNCHANGED <<new, en, trgt>>
  BY DEF LockPrio, WritePrio, PlicSetPrio
<1>4. DOMAIN reg' = Cpus /\ \A d \in Cpus \ {c} : reg'[d] = reg[d]
  BY <1>t DEF Types, LockPrio, WritePrio, PlicSetPrio
<1>5. Lock(i) \in {"gicd_lock", "gicr_lock"} /\ Nobody \notin Cpus
  BY DEF Lock, Nobody
<1>6. holder' \in [{"gicd_lock", "gicr_lock"} -> Cpus \cup {Nobody}]
  BY <1>t, <1>5 DEF Types, LockPrio, WritePrio, PlicSetPrio
<1>7. Return(c) \/ \E s \in Steps : Go(c, s)
  BY DEF LockPrio, WritePrio, PlicSetPrio, Steps
<1>8. /\ todo' \in [Cpus -> Seq(Calls)] /\ done' \in [Cpus -> SUBSET Calls]
      /\ at' \in [Cpus -> Steps]
      /\ \A j \in Shared : Askers(j)' = Askers(j)
  BY <1>t, <1>1, <1>7, MovesOn
\* The word that is written holds what is there and the new priority.
<1>9. WritePrio(c) =>
        \/ prio' = prio /\ i \in Shared /\ Bank(c, i) = c
        \/ prio' = [prio EXCEPT ![Bank(c, i)] = @ \cup {i}]
  <2> SUFFICES ASSUME WritePrio(c)
               PROVE  \/ prio' = prio /\ i \in Shared /\ Bank(c, i) = c
                      \/ prio' = [prio EXCEPT ![Bank(c, i)] = @ \cup {i}]
    OBVIOUS
  <2>1. reg[c] = prio[Bank(c, i)] \cap Beside(i)
    BY <1>t DEF WritePrio, InCall, Of, Locked
  <2>2. (prio[Bank(c, i)] \ Beside(i)) \cup reg[c] \cup {i} = prio[Bank(c, i)] \cup {i}
    BY <2>1
  <2>3. prio' = IF i \in Shared /\ Bank(c, i) = c THEN prio
                ELSE [prio EXCEPT ![Bank(c, i)] =
                        (prio[Bank(c, i)] \ Beside(i)) \cup reg[c] \cup {i}]
    BY DEF WritePrio
  <2> QED BY <2>2, <2>3
<1>10. ctl # "plic" => \A d \in Cpus : Bank(d, Arg(d)) \in {d, Dist}
  BY <1>t DEF Bank, Types
<1>11. /\ DOMAIN prio' = Cpus \cup {Dist}
       /\ prio[Dist] \subseteq prio'[Dist]
  <2>1. CASE LockPrio(c)
    BY <2>1, <1>t DEF LockPrio, Types
  <2>2. CASE WritePrio(c)
    BY <2>2, <1>9, <1>t DEF Types
  <2>3. CASE PlicSetPrio(c)
    BY <2>3, <1>t DEF PlicSetPrio, Types
  <2> QED BY <2>1, <2>2, <2>3
<1>12. Types' /\ \A j \in Shared : (trgt[j] \subseteq Askers(j))'
  BY <1>t, <1>3, <1>4, <1>6, <1>8, <1>11 DEF Types, Settled
<1>13. ASSUME NEW d \in Cpus \ {c} PROVE Of(d)'
  <2>1. Of(d)
    BY DEF Settled
  <2>2. at[d] = "write_trgt" => holder["gicd_lock"] = d /\ ctl = "gicv2"
    BY <2>1 DEF Of, Locked, Control
  <2>3. at[d] = "write_prio" => holder[Lock(Arg(d))] = d /\ ctl # "plic"
    BY <2>1 DEF Of, Locked, Control
  <2>4. Lock(Arg(d)) \in {"gicd_lock", "gicr_lock"}
    BY DEF Lock
  <2>5. /\ at[d] = "write_trgt" => holder'["gicd_lock"] = d
        /\ at[d] = "write_prio" =>
              /\ holder'[Lock(Arg(d))] = d
              /\ prio'[Bank(d, Arg(d))] = prio[Bank(d, Arg(d))]
    <3>1. CASE LockPrio(c)
      <4>1. holder' = [holder EXCEPT ![Lock(i)] = c] /\ prio' = prio
            /\ holder[Lock(i)] = Nobody
        BY <3>1 DEF LockPrio, IsFree
      <4> QED BY <2>2, <2>3, <2>4, <1>5, <4>1, <1>t DEF Types
    <3>2. CASE WritePrio(c)
      <4>1. holder[Lock(i)] = c /\ holder' = [holder EXCEPT ![Lock(i)] = Nobody]
            /\ ctl # "plic"
        BY <3>2, <1>t DEF WritePrio, InCall, Of, Locked, Control
      <4>2. /\ at[d] = "write_trgt" => holder'["gicd_lock"] = d
            /\ at[d] = "write_prio" => holder'[Lock(Arg(d))] = d
        BY <2>2, <2>3, <2>4, <4>1, <1>t DEF Types
      <4>3. at[d] = "write_prio" => Bank(d, Arg(d)) # Bank(c, i)
        <5>1. at[d] = "write_prio" => Lock(Arg(d)) # Lock(i)
          BY <2>3, <4>1
        <5>2. CASE ctl = "gicv2"
          BY <5>1, <5>2 DEF Lock
        <5>3. CASE ctl = "gicv3" /\ at[d] = "write_prio"
          <6>1. \/ InGicd(i) /\ ~InGicd(Arg(d))
                \/ ~InGicd(i) /\ InGicd(Arg(d))
            BY <5>1, <5>3 DEF Lock
          <6> QED BY <6>1, <5>3 DEF Bank
        <5> QED BY <4>1, <5>2, <5>3, <1>t DEF Types
      <4>4. at[d] = "write_prio" => prio'[Bank(d, Arg(d))] = prio[Bank(d, Arg(d))]
        BY <3>2, <4>1, <4>3, <1>9, <1>10, <1>t DEF Types
      <4> QED BY <4>2, <4>4
    <3>3. CASE PlicSetPrio(c)
      BY <2>2, <2>3, <3>3 DEF PlicSetPrio
    <3> QED BY <3>1, <3>2, <3>3
  <2> QED BY <1>1, <1>3, <1>4, <1>7, <1>11, <2>5, OthersKept
<1>14. Of(c)'
  <2>1. CASE LockPrio(c)
    <3>1. Go(c, "write_prio") /\ "write_prio" \in Steps /\ ctl # "plic" /\ prio' = prio
      BY <2>1 DEF LockPrio, Steps
    <3>2. at'[c] = "write_prio" /\ Op(c)' = "prio" /\ todo'[c] # <<>> /\ Arg(c)' = i
      BY <1>t, <1>1, <3>1 DEF Go, Op, Arg, Call, Types
    <3>3. Control(c)' /\ Routed(c)'
      BY <3>1, <3>2 DEF Control, Routed
    <3>4. holder'[Lock(i)] = c /\ reg'[c] = prio[Bank(c, i)] \cap Beside(i)
      BY <2>1, <1>5, <1>t DEF LockPrio, Types
    <3>5. /\ Lock(Arg(c))' = Lock(i) /\ Beside(Arg(c))' = Beside(i)
          /\ Bank(c, Arg(c))' = Bank(c, i)
      BY <3>2 DEF Lock, Beside, Bank, InGicd
    <3>6. prio[Bank(c, Arg(c))]' = prio[Bank(c, i)]
      BY <3>1, <3>5
    <3>7. Locked(c)'
      BY <3>2, <3>4, <3>5, <3>6 DEF Locked
    <3> QED BY <1>1, <1>3, <3>1, <3>3, <3>7, WentOn
  <2>2. CASE WritePrio(c) \/ PlicSetPrio(c)
    <3>1. Return(c)
      BY <2>2 DEF WritePrio, PlicSetPrio
    <3>2. ~Unreachable(i) /\ i \in Shared => i \in prio'[Dist]
      <4> SUFFICES ASSUME ~Unreachable(i), i \in Shared PROVE i \in prio'[Dist]
        OBVIOUS
      <4>1. CASE WritePrio(c)
        <5>1. ctl \in {"gicv2", "gicv3"}
          BY <4>1, <1>t DEF WritePrio, InCall, Of, Control, Types
        <5>2. Bank(c, i) = Dist
          BY <5>1, InterruptsAssumption DEF Bank, Unreachable
        <5> QED BY <4>1, <5>2, <1>9, <1>t DEF Types
      <4>2. CASE PlicSetPrio(c)
        BY <4>2, <1>t DEF PlicSetPrio, Types
      <4> QED BY <2>2, <4>1, <4>2
    <3>3. \A j \in Shared : ~Unreachable(j) /\ Call(c) = <<"prio", j>> => j \in prio'[Dist]
      BY <1>2, <3>2
    <3>4. \A j \in Shared : Call(c) # <<"enable", j>>
      BY <1>2
    <3> QED BY <1>1, <1>3, <1>11, <3>1, <3>3, <3>4, Returned
  <2> QED BY <2>1, <2>2
<1> QED BY <1>12, <1>13, <1>14 DEF Settled

\* Every step of a call, and every interrupt, leaves settings settled.
LEMMA SettledNext == Settled /\ [Next]_vars => Settled'
<1> SUFFICES ASSUME Settled, [Next]_vars PROVE Settled'
  OBVIOUS
<1>1. CASE UNCHANGED <<ctl, calls>>
  <2>1. UNCHANGED <<ctl, todo, done, at, reg, new, holder, en, prio, trgt>>
    BY <1>1 DEF calls
  <2>2. Types'
    BY <2>1 DEF Settled, Types
  <2>3. \A j \in Shared : (trgt[j] \subseteq Askers(j))'
    BY <2>1 DEF Settled, Askers, Asks
  <2>4. ASSUME NEW c \in Cpus PROVE Of(c)'
    <3>1. Of(c)
      BY DEF Settled
    <3>2. Control(c)' /\ Routed(c)'
      BY <2>1, <3>1 DEF Of, Control, Routed, Op, Arg, Call, Askers, Asks
    <3>3. Locked(c)'
      <4>1. /\ Arg(c)' = Arg(c) /\ Lock(Arg(c))' = Lock(Arg(c))
            /\ Bank(c, Arg(c))' = Bank(c, Arg(c))
            /\ Beside(Arg(c))' = Beside(Arg(c))
        BY <2>1 DEF Arg, Call, Lock, Bank, Beside, InGicd
      <4>2. prio[Bank(c, Arg(c))]' = prio[Bank(c, Arg(c))]
        BY <2>1, <4>1
      <4> QED BY <2>1, <3>1, <4>1, <4>2 DEF Of, Locked
    <3>4. Enabled(c)' /\ Prioritised(c)'
      BY <2>1, <3>1 DEF Of, Enabled, Prioritised, Arg, Call, Unreachable, InGicd
    <3> QED BY <3>2, <3>3, <3>4 DEF Of
  <2> QED BY <2>2, <2>3, <2>4 DEF Settled
<1>2. ASSUME NEW c \in Cpus, Program(c), UNCHANGED ctl PROVE Settled'
  BY <1>2, SettledNoRegister, SettledEnable, SettledTargets, SettledPrio
     DEF Program, Access
<1> QED BY <1>1, <1>2 DEF Next, vars

\* What a processor has set up stays set up, whatever others do to the
\* registers beside it, on each controller and for any plans.
THEOREM SettingsStay == Spec => []SettingsStick
  BY SettledInit, SettledNext, SettledEnough, PTL DEF Spec

-----------------------------------------------------------------------------
(* Signals are seen.                                                       *)

\* What is left of a plan registers the handler of i, if nobody has, before
\* it enables i.
HandlerFirst(c, i) ==
    \A n \in DOMAIN todo[c] : todo[c][n] = <<"enable", i>> =>
        \/ i \in table
        \/ \E m \in 1 .. n - 1 : todo[c][m] = <<"handler", i>>

\* An IPI that comes has its handler, or number 32 has enabled it.
Answerable(c) == Ipi \in table \/ (ctl = "gicv3" /\ Asks(c, 32))

\* A letter that was sent has its interrupt on the way, before the handler
\* has run; what comes after it on RISC-V, where the interrupt is still
\* pending and will be cleared, is late.
Lettered(d) ==
    /\ letter[d] = "sent" =>
          Ipi \in pend[d] \/ intr[d] = [pc |-> "run", id |-> Ipi]
    /\ letter[d] = "dropped" => ctl = "gicv3" /\ Asks(d, 32)
    /\ ctl = "plic" /\ intr[d] = [pc |-> "end", id |-> Ipi] => letter[d] # "sent"

SignalInv ==
    /\ Settled /\ Taken
    /\ DOMAIN letter = Cpus
    /\ \A c \in Cpus :
          /\ HandlerFirst(c, Ipi) /\ Lettered(c)
          /\ Ipi \in en[c] => Answerable(c)
          /\ intr[c] = [pc |-> "run", id |-> Ipi] => Answerable(c)

\* At the start no letter is written and nothing is enabled.
LEMMA SignalInit == RegistersFirst(Ipi) /\ Init => SignalInv
<1> SUFFICES ASSUME RegistersFirst(Ipi), Init PROVE SignalInv
  OBVIOUS
<1>1. Settled /\ Taken
  BY SettledInit, TakenInit
<1>2. ASSUME NEW c \in Cpus PROVE HandlerFirst(c, Ipi)
  BY DEF Init, RegistersFirst, HandlerFirst
<1>3. ASSUME NEW c \in Cpus
      PROVE  letter[c] = "none" /\ en[c] = {} /\ intr[c].pc = "no"
  BY DEF Init
<1>4. ASSUME NEW c \in Cpus PROVE Lettered(c)
  BY <1>3 DEF Lettered
<1>5. DOMAIN letter = Cpus
  BY DEF Init
<1>6. ASSUME NEW c \in Cpus PROVE intr[c] # [pc |-> "run", id |-> Ipi]
  BY <1>3
<1> QED BY <1>1, <1>2, <1>3, <1>4, <1>5, <1>6 DEF SignalInv

\* Every step of the program is a step of the call that is first.
LEMMA ProgramMoves ==
    ASSUME Settled, NEW c \in Cpus, Program(c)
    PROVE  /\ todo[c] # <<>>
           /\ Return(c) \/ \E s \in Steps : Go(c, s)
           /\ table \subseteq table'
           /\ \A i \in Ids : Call(c) = <<"handler", i>> => i \in table'
<1>1. Types /\ Control(c)
  BY DEF Settled, Of
<1>2. todo[c] # <<>>
  BY DEF Program, Access, SetHandler, GicSetEnable, GetTrgt, LockTrgts, WriteTrgts,
     SetRoute, SetSie, ReadEnbl, WriteEnbl, LockPrio, WritePrio, PlicSetPrio, Post,
     SendSgi, SbiSendIpi, InCall
<1>3. Return(c) \/ \E s \in Steps : Go(c, s)
  BY DEF Program, Access, SetHandler, GicSetEnable, GetTrgt, LockTrgts, WriteTrgts,
     SetRoute, SetSie, ReadEnbl, WriteEnbl, LockPrio, WritePrio, PlicSetPrio, Post,
     SendSgi, SbiSendIpi, Steps
<1>4. SetHandler(c) \/ table' = table
  BY DEF Program, Access, GicSetEnable, GetTrgt, LockTrgts, WriteTrgts, SetRoute,
     SetSie, ReadEnbl, WriteEnbl, LockPrio, WritePrio, PlicSetPrio, Post, SendSgi,
     SbiSendIpi
<1>5. Op(c) = "handler" => SetHandler(c)
  BY <1>1 DEF Control, Program, Access, GicSetEnable, GetTrgt, LockTrgts, WriteTrgts,
     SetRoute, SetSie, ReadEnbl, WriteEnbl, LockPrio, WritePrio, PlicSetPrio, Post,
     SendSgi, SbiSendIpi, InCall
<1>6. SetHandler(c) => table' = table \cup {Arg(c)}
  BY DEF SetHandler
<1> QED BY <1>2, <1>3, <1>4, <1>5, <1>6 DEF Op, Arg

\* What is asked for goes on being asked for.
LEMMA AsksStay ==
    ASSUME Settled, NEW c \in Cpus, Program(c), NEW d \in Cpus, NEW i, Asks(d, i)
    PROVE  Asks(d, i)'
<1>1. Types /\ todo[c] # <<>>
  BY ProgramMoves DEF Settled
<1>2. i \in Ids
  <2>1. done[d] \subseteq Calls /\ todo[d] \in Seq(Calls)
    BY <1>1 DEF Types
  <2>2. <<"enable", i>> \in Calls
    BY <2>1 DEF Asks
  <2> QED BY <2>2 DEF Calls
<1>3. CASE Return(c)
  BY <1>1, <1>2, <1>3, AsksKept
<1>4. CASE \E s \in Steps : Go(c, s)
  BY <1>4 DEF Go, Asks
<1> QED BY <1>3, <1>4, ProgramMoves

\* A handler that comes first in a plan still does when a call has returned.
LEMMA HandlerStaysFirst ==
    ASSUME Settled, NEW c \in Cpus, Program(c), NEW d \in Cpus,
           NEW i \in Ids, HandlerFirst(d, i)
    PROVE  HandlerFirst(d, i)'
<1>1. /\ todo[d] \in Seq(Calls) /\ todo[c] # <<>> /\ table \subseteq table'
      /\ todo \in [Cpus -> Seq(Calls)]
  BY ProgramMoves DEF Settled, Types
<1>2. CASE todo'[d] = todo[d]
  BY <1>1, <1>2 DEF HandlerFirst
<1>3. CASE d = c /\ Return(c)
  <2>1. todo'[c] = Tail(todo[c])
    BY <1>1, <1>3 DEF Return
  <2> SUFFICES ASSUME NEW n \in DOMAIN todo'[c], todo'[c][n] = <<"enable", i>>,
                      i \notin table'
               PROVE  \E m \in 1 .. n - 1 : todo'[c][m] = <<"handler", i>>
    BY <1>3 DEF HandlerFirst
  <2>2. n \in 1 .. Len(todo[c]) - 1 /\ todo[c][n + 1] = <<"enable", i>>
    BY <1>1, <1>3, <2>1
  <2>3. PICK m \in 1 .. n : todo[c][m] = <<"handler", i>>
    <3>1. n + 1 \in DOMAIN todo[c] /\ (n + 1) - 1 = n /\ i \notin table
      BY <1>1, <2>2
    <3>2. \E m \in 1 .. (n + 1) - 1 : todo[c][m] = <<"handler", i>>
      BY <1>3, <2>2, <3>1 DEF HandlerFirst
    <3> QED BY <3>1, <3>2
  <2>4. m # 1
    <3>1. Call(c) = todo[c][1]
      BY <1>1 DEF Call
    <3>2. Call(c) # <<"handler", i>>
      BY ProgramMoves
    <3> QED BY <2>3, <3>1, <3>2
  <2>5. m - 1 \in 1 .. n - 1 /\ todo'[c][m - 1] = todo[c][m]
    BY <1>1, <1>3, <2>1, <2>2, <2>3, <2>4
  <2> QED BY <2>3, <2>5
<1>4. \/ todo'[d] = todo[d]
      \/ d = c /\ Return(c)
  <2>1. Return(c) \/ \E s \in Steps : Go(c, s)
    BY ProgramMoves
  <2> QED BY <1>1, <2>1 DEF Return, Go
<1> QED BY <1>2, <1>3, <1>4

\* Only who enables IPIs enables IPIs, and number 32 of a GICv3.
LEMMA IpiEnabled ==
    ASSUME Settled, NEW c \in Cpus, Program(c), NEW d \in Cpus,
           Ipi \in en'[d], Ipi \notin en[d]
    PROVE  /\ d = c /\ Op(c) = "enable"
           /\ Arg(c) = Ipi \/ (ctl = "gicv3" /\ Arg(c) = 32)
<1> USE Apart
<1>1. Types /\ Control(c) /\ todo[c] # <<>>
  BY ProgramMoves DEF Settled, Of
<1>2. CASE GicSetEnable(c)
  <2>1. Op(c) = "enable" /\ ctl \in {"gicv2", "gicv3"} /\ Arg(c) \in Ids
    BY <1>1, <1>2, CallerAsks DEF GicSetEnable, Types
  <2>2. en' = [en EXCEPT ![Bank(c, Arg(c))] = @ \cup {Bit(Arg(c))}]
    BY <1>2 DEF GicSetEnable
  <2>3. Bank(c, Arg(c)) \in {c, Dist}
    BY <2>1 DEF Bank
  <2>4. d = c /\ Bit(Arg(c)) = Ipi
    BY <1>1, <2>2, <2>3 DEF Types
  <2>5. Arg(c) = Ipi \/ (ctl = "gicv3" /\ Arg(c) = 32)
    <3>1. CASE Arg(c) \in Private
      BY <2>4, <3>1 DEF Private, Timer, Ipi, Bit, InGicd
    <3>2. CASE Arg(c) \in 32 .. 1023
      BY <2>4, <3>2 DEF Ipi, Bit, InGicd
    <3>3. Arg(c) \in Private \/ Arg(c) \in 32 .. 1023
      BY <2>1, SharedNumbers DEF Ids
    <3> QED BY <3>1, <3>2, <3>3
  <2> QED BY <2>1, <2>4, <2>5
<1>3. CASE SetSie(c)
  BY <1>1, <1>3 DEF SetSie, Types
<1>4. CASE WriteEnbl(c)
  <2>1. at[c] = "write_enbl"
    BY <1>4 DEF WriteEnbl, InCall
  <2>2. reg[c] = en[c] \cap EnblWord(Arg(c)) /\ Arg(c) \in Shared
    BY <1>1, <2>1 DEF Control
  <2>3. Ipi \notin Shared
    BY DEF Private
  <2>4. en' = [en EXCEPT ![c] = (@ \ EnblWord(Arg(c))) \cup reg[c] \cup {Arg(c)}]
    BY <1>4 DEF WriteEnbl
  <2> QED BY <1>1, <2>2, <2>3, <2>4 DEF Types
<1>5. en' = en \/ GicSetEnable(c) \/ SetSie(c) \/ WriteEnbl(c)
  BY DEF Program, Access, SetHandler, GetTrgt, LockTrgts, WriteTrgts, SetRoute,
     ReadEnbl, LockPrio, WritePrio, PlicSetPrio, Post, SendSgi, SbiSendIpi
<1> QED BY <1>2, <1>3, <1>4, <1>5

\* What the program's steps keep for all that an IPI needs.
LEMMA SignalProgram ==
    ASSUME SignalInv, NEW c \in Cpus, Program(c), UNCHANGED ctl, NEW d \in Cpus
    PROVE  /\ HandlerFirst(d, Ipi)'
           /\ Answerable(d) => Answerable(d)'
           /\ Ipi \in en'[d] => Answerable(d)'
<1>1. Settled /\ Types /\ todo[c] # <<>> /\ table \subseteq table'
  BY ProgramMoves DEF SignalInv, Settled
<1>2. HandlerFirst(d, Ipi)'
  <2>1. Ipi \in Ids
    BY DEF Ids, Private
  <2> QED BY <1>1, <2>1, HandlerStaysFirst DEF SignalInv
<1>3. Answerable(d) => Answerable(d)'
  BY <1>1, AsksStay DEF Answerable
<1>4. ASSUME Ipi \in en'[d], Ipi \notin en[d] PROVE Answerable(d)
  <2>1. d = c /\ Op(c) = "enable" /\ (Arg(c) = Ipi \/ (ctl = "gicv3" /\ Arg(c) = 32))
    BY <1>1, <1>4, IpiEnabled
  <2>2. Call(c) = <<"enable", Arg(c)>> /\ c \in Askers(Arg(c))
    BY <1>1, <2>1, CallerAsks
  <2>3. CASE Arg(c) = Ipi
    <3>1. 1 \in DOMAIN todo[c] /\ todo[c][1] = <<"enable", Ipi>>
      BY <1>1, <2>2, <2>3 DEF Types, Call
    <3>2. HandlerFirst(c, Ipi)
      BY DEF SignalInv
    <3>3. Ipi \in table
      BY <3>1, <3>2 DEF HandlerFirst
    <3> QED BY <3>3 DEF Answerable
  <2> QED BY <2>1, <2>2, <2>3 DEF Answerable, Askers
<1> QED BY <1>2, <1>3, <1>4 DEF SignalInv

\* A letter that is written is posted, and then sent with its interrupt.
LEMMA LetteredProgram ==
    ASSUME SignalInv, NEW c \in Cpus, Program(c), UNCHANGED ctl
    PROVE  DOMAIN letter' = Cpus /\ \A d \in Cpus : Lettered(d)'
<1>1. Settled /\ DOMAIN letter = Cpus /\ pend \in [Cpus \cup {Dist} -> SUBSET Ids]
  BY DEF SignalInv, Taken
<1>2. ASSUME NEW d \in Cpus, Asks(d, 32) PROVE Asks(d, 32)'
  BY <1>1, <1>2, AsksStay
<1>3. CASE UNCHANGED irqs
  BY <1>1, <1>2, <1>3 DEF irqs, SignalInv, Lettered
<1>4. CASE Post(c)
  <2>1. /\ UNCHANGED <<pend, intr>>
        /\ letter' = [d \in Cpus |-> IF d \in Arg(c) THEN "posted" ELSE letter[d]]
    BY <1>4 DEF Post
  <2> QED BY <1>1, <1>2, <2>1 DEF SignalInv, Lettered
<1>5. ASSUME NEW ds, SetPending(ds), intr' = intr
      PROVE  DOMAIN letter' = Cpus /\ \A d \in Cpus : Lettered(d)'
  <2>1. /\ pend' = [b \in Cpus \cup {Dist} |->
                      IF b \in ds \cap Cpus THEN pend[b] \cup {Ipi} ELSE pend[b]]
        /\ letter' = [d \in Cpus |->
              IF d \notin ds \/ letter[d] = "none" THEN letter[d]
              ELSE IF ctl = "plic" /\ intr[d] = [pc |-> "end", id |-> Ipi]
              THEN "late" ELSE "sent"]
    BY <1>5 DEF SetPending
  <2> SUFFICES ASSUME NEW d \in Cpus PROVE Lettered(d)'
    BY <2>1
  <2>2. Lettered(d)
    BY DEF SignalInv
  <2>3. CASE letter'[d] = letter[d] /\ pend[d] \subseteq pend'[d]
    BY <1>2, <1>5, <2>2, <2>3 DEF Lettered
  <2>4. CASE letter'[d] = "late"
    BY <2>4 DEF Lettered
  <2>5. CASE letter'[d] = "sent" /\ Ipi \in pend'[d]
               /\ ~(ctl = "plic" /\ intr[d] = [pc |-> "end", id |-> Ipi])
    BY <1>5, <2>5 DEF Lettered
  <2> QED BY <2>1, <2>3, <2>4, <2>5
<1>6. CASE SendSgi(c)
  <2>1. /\ intr' = intr
        /\ UNCHANGED <<pend, letter>> \/ \E d \in reg[c] : SetPending({d})
    BY <1>6 DEF SendSgi
  <2>2. CASE UNCHANGED <<pend, letter>>
    BY <1>1, <1>2, <2>1, <2>2 DEF SignalInv, Lettered
  <2> QED BY <1>5, <2>1, <2>2
<1>7. CASE SbiSendIpi(c)
  BY <1>5, <1>7 DEF SbiSendIpi
<1> QED BY <1>3, <1>4, <1>6, <1>7 DEF Program

\* An interrupt that is taken or acknowledged is no longer pending, but its
\* handler is about to run; when it has run the letter has been read.
LEMMA SignalHandler ==
    ASSUME SignalInv, NEW c \in Cpus, Take(c) \/ Handler(c), UNCHANGED <<ctl, calls>>
    PROVE  /\ DOMAIN letter' = Cpus
           /\ \A d \in Cpus : Lettered(d)'
           /\ \A d \in Cpus : intr'[d] = [pc |-> "run", id |-> Ipi] => Answerable(d)
<1> USE Apart
<1>1. /\ DOMAIN letter = Cpus /\ Taken /\ \A d \in Cpus : Lettered(d)
      /\ \A d \in Cpus : Ipi \in en[d] => Answerable(d)
      /\ \A d \in Cpus : intr[d] = [pc |-> "run", id |-> Ipi] => Answerable(d)
  BY DEF SignalInv
<1>2. \A d \in Cpus : Asks(d, 32)' <=> Asks(d, 32)
  BY DEF calls, Asks
<1>3. \A d \in Cpus \ {c} : intr'[d] = intr[d] /\ letter'[d] = letter[d] /\ pend'[d] = pend[d]
  BY <1>1 DEF Taken, Take, Handler, Acknowledge, Spurious, Handle, Complete
<1>4. DOMAIN letter' = Cpus
  BY <1>1 DEF Take, Handler, Acknowledge, Spurious, Handle, Complete
<1>5. ASSUME NEW d \in Cpus \ {c} PROVE Lettered(d)'
  BY <1>1, <1>2, <1>3 DEF Lettered
<1>6. Lettered(c)' /\ (intr'[c] = [pc |-> "run", id |-> Ipi] => Answerable(c))
  <2>0. Lettered(c) /\ intr[c] \in [pc : {"no", "ack", "run", "end"}, id : Ids \cup {None}]
    BY <1>1 DEF Taken
  <2>1. CASE Take(c)
    <3>1. /\ letter' = letter /\ pend' = pend /\ intr[c].pc = "no"
          /\ \/ intr' = [intr EXCEPT ![c].pc = "ack"]
             \/ \E i \in Internal(c) : intr' = [intr EXCEPT ![c] = [pc |-> "run", id |-> i]]
      BY <2>1 DEF Take
    <3>2. CASE intr' = [intr EXCEPT ![c].pc = "ack"]
      <4>1. intr'[c].pc = "ack"
        BY <1>1, <3>2 DEF Taken
      <4> QED BY <1>2, <2>0, <3>1, <4>1 DEF Lettered
    <3>3. ASSUME NEW i \in Internal(c), intr' = [intr EXCEPT ![c] = [pc |-> "run", id |-> i]]
          PROVE  Lettered(c)' /\ (intr'[c] = [pc |-> "run", id |-> Ipi] => Answerable(c))
      <4>1. intr'[c] = [pc |-> "run", id |-> i] /\ i \in en[c]
        BY <1>1, <3>3 DEF Taken, Internal
      <4>2. Lettered(c)'
        BY <1>2, <2>0, <3>1, <4>1 DEF Lettered
      <4>3. intr'[c] = [pc |-> "run", id |-> Ipi] => i = Ipi
        BY <4>1
      <4> QED BY <1>1, <4>1, <4>2, <4>3
    <3> QED BY <3>1, <3>2, <3>3
  <2>2. CASE Acknowledge(c)
    <3>1. PICK i \in External(c) \cup (IF ctl = "plic" THEN {} ELSE Internal(c)) :
            LET b == IF i \in Shared THEN Dist ELSE c IN
            /\ intr' = [intr EXCEPT ![c] = [pc |-> "run", id |-> i]]
            /\ pend' = [pend EXCEPT ![b] = @ \ {i}]
      BY <2>2 DEF Acknowledge
    <3>2. letter' = letter /\ intr[c].pc = "ack" /\ intr'[c] = [pc |-> "run", id |-> i]
      BY <1>1, <2>2, <3>1 DEF Acknowledge, Taken
    <3>3. Ipi \in pend[c] => Ipi \in pend'[c] \/ i = Ipi
      BY <1>1, <3>1 DEF Taken
    <3>4. Lettered(c)'
      BY <1>2, <2>0, <3>2, <3>3 DEF Lettered
    <3>5. i = Ipi => i \in en[c]
      BY <1>1, <3>1 DEF External, Internal, Taken, Private
    <3>6. intr'[c] = [pc |-> "run", id |-> Ipi] => i = Ipi
      BY <3>2
    <3> QED BY <1>1, <3>4, <3>5, <3>6
  <2>3. CASE Spurious(c)
    <3>1. intr'[c].pc = "no" /\ UNCHANGED <<letter, pend>> /\ intr[c].pc = "ack"
      BY <1>1, <2>3 DEF Spurious, Taken
    <3> QED BY <1>2, <2>0, <3>1 DEF Lettered
  <2>4. CASE Handle(c)
    <3>1. intr[c].pc = "run" /\ intr'[c] = [pc |-> "end", id |-> intr[c].id]
      BY <1>1, <2>0, <2>4 DEF Handle, Taken
    <3>2. Ipi \in pend[c] => Ipi \in pend'[c]
      BY <1>1, <2>4 DEF Handle, Taken, Ipi, Timer
    <3>3. CASE intr[c].id = Ipi
      <4>1. intr[c] = [pc |-> "run", id |-> Ipi]
        BY <2>0, <3>1, <3>3
      <4>2. Answerable(c)
        BY <1>1, <4>1
      <4>3. letter'[c] = IF letter[c] = "none" THEN "none"
                         ELSE IF Ipi \in table THEN "none" ELSE "dropped"
        BY <1>1, <2>4, <3>3 DEF Handle
      <4> QED BY <1>2, <3>1, <4>2, <4>3 DEF Lettered, Answerable
    <3>4. CASE intr[c].id # Ipi
      <4>1. letter' = letter
        BY <2>4, <3>4 DEF Handle
      <4> QED BY <1>2, <2>0, <3>1, <3>2, <3>4, <4>1 DEF Lettered
    <3> QED BY <3>3, <3>4
  <2>5. CASE Complete(c)
    <3>1. /\ intr[c].pc = "end" /\ intr'[c] = [pc |-> "no", id |-> None]
          /\ letter' = letter
      BY <1>1, <2>5 DEF Complete, Taken
    <3>2. pend'[c] = pend[c] \/ (ctl = "plic" /\ intr[c].id = Ipi)
      BY <1>1, <2>5 DEF Complete, Taken
    <3>3. ctl = "plic" /\ intr[c].id = Ipi => letter[c] # "sent"
      BY <2>0, <3>1 DEF Lettered
    <3> QED BY <1>2, <2>0, <3>1, <3>2, <3>3 DEF Lettered
  <2> QED BY <2>1, <2>2, <2>3, <2>4, <2>5 DEF Handler
<1>7. ASSUME NEW d \in Cpus \ {c}, intr'[d] = [pc |-> "run", id |-> Ipi]
      PROVE  Answerable(d)
  BY <1>1, <1>3, <1>7
<1> QED BY <1>4, <1>5, <1>6, <1>7

\* A device or the timer that interrupts takes nothing away.
LEMMA SignalRaise ==
    ASSUME SignalInv, UNCHANGED <<ctl, calls>>, UNCHANGED <<intr, letter>>,
           \A d \in Cpus : pend[d] \subseteq pend'[d],
           NEW d \in Cpus
    PROVE  Lettered(d)'
<1>1. Lettered(d) /\ pend[d] \subseteq pend'[d]
  BY DEF SignalInv
<1>2. Asks(d, 32)' <=> Asks(d, 32)
  BY DEF calls, Asks
<1> QED BY <1>1, <1>2 DEF Lettered

\* Every step keeps what a letter needs to be seen.
LEMMA SignalNext == SignalInv /\ [Next]_vars => SignalInv'
<1> SUFFICES ASSUME SignalInv, [Next]_vars PROVE SignalInv'
  OBVIOUS
<1> USE Apart
<1>1. Settled' /\ Taken'
  BY SettledNext, TakenNext DEF SignalInv
<1>2. CASE /\ UNCHANGED <<ctl, calls>>
           /\ \/ UNCHANGED vars
              \/ \E i \in Shared : Raise(i)
              \/ \E c \in Cpus : Tick(c) \/ Take(c) \/ Handler(c)
  <2>1. \A d \in Cpus : HandlerFirst(d, Ipi)' /\ (Answerable(d)' <=> Answerable(d))
    BY <1>2 DEF SignalInv, calls, HandlerFirst, Answerable, Asks
  <2>2. UNCHANGED <<en, ctl>>
    BY <1>2 DEF calls
  <2>3. CASE /\ DOMAIN letter' = Cpus
             /\ \A d \in Cpus : Lettered(d)'
             /\ \A d \in Cpus : intr'[d] = [pc |-> "run", id |-> Ipi] => Answerable(d)
    BY <1>1, <2>1, <2>2, <2>3 DEF SignalInv
  <2>4. CASE UNCHANGED <<intr, letter>> /\ \A d \in Cpus : pend[d] \subseteq pend'[d]
    <3>1. \A d \in Cpus : Lettered(d)'
      BY <1>2, <2>4, SignalRaise
    <3> QED BY <2>3, <2>4, <3>1 DEF SignalInv
  <2>5. CASE UNCHANGED vars
    BY <2>4, <2>5 DEF vars, irqs
  <2>6. ASSUME NEW i \in Shared, Raise(i)
        PROVE  UNCHANGED <<intr, letter>> /\ \A d \in Cpus : pend[d] \subseteq pend'[d]
    BY <2>6 DEF Raise, SignalInv, Taken
  <2>7. ASSUME NEW c \in Cpus, Tick(c)
        PROVE  UNCHANGED <<intr, letter>> /\ \A d \in Cpus : pend[d] \subseteq pend'[d]
    BY <2>7 DEF Tick, SignalInv, Taken
  <2>8. ASSUME NEW c \in Cpus, Take(c) \/ Handler(c) PROVE SignalInv'
    BY <1>2, <2>3, <2>8, SignalHandler
  <2> QED BY <1>2, <2>4, <2>5, <2>6, <2>7, <2>8
<1>3. ASSUME NEW c \in Cpus, Program(c), UNCHANGED ctl PROVE SignalInv'
  <2>1. \A d \in Cpus : intr'[d] = intr[d]
    BY <1>3 DEF Program, Post, SendSgi, SbiSendIpi, irqs
  <2>2. \A d \in Cpus : /\ HandlerFirst(d, Ipi)'
                        /\ Answerable(d) => Answerable(d)'
                        /\ Ipi \in en'[d] => Answerable(d)'
    BY <1>3, SignalProgram
  <2>3. DOMAIN letter' = Cpus /\ \A d \in Cpus : Lettered(d)'
    BY <1>3, LetteredProgram
  <2> QED BY <1>1, <2>1, <2>2, <2>3 DEF SignalInv
<1>4. CASE UNCHANGED vars
  BY <1>2, <1>4 DEF vars
<1> QED BY <1>2, <1>3, <1>4 DEF Next

\* Whoever is sent an IPI will read what it is for, on each controller and
\* for any plans that register the handler of IPIs before they enable them.
THEOREM SignalsAreSeen == RegistersFirst(Ipi) => (Spec => []SignalsSeen)
<1>1. SignalInv => SignalsSeen
  BY DEF SignalInv, Lettered, SignalsSeen
<1>2. CASE RegistersFirst(Ipi)
  <2>1. Init => SignalInv
    BY <1>2, SignalInit
  <2> QED BY <1>1, <2>1, SignalNext, PTL DEF Spec
<1> QED BY <1>2

-----------------------------------------------------------------------------
(* Devices are heard.                                                      *)

\* Who has acknowledged a device's interrupt has it in hand: it will complete
\* it, and until then the controller gives the interrupt to nobody.
InHand ==
    \A i \in Shared : act[i] # Nobody =>
        intr[act[i]].pc \in {"run", "end"} /\ intr[act[i]].id = i

\* What a device wants has been seen by a handler, or its interrupt is pending
\* or in hand before its handler has run.
NoneForgotten ==
    \A i \in owed :
        i \in pend[Dist] \/ \E c \in Cpus : intr[c] = [pc |-> "run", id |-> i]

\* Enabled or about to be handled, a device's interrupt has its handler.
DeviceInv ==
    /\ Settled /\ Taken /\ NoneForgotten
    /\ owed \subseteq Shared
    /\ \A i \in Shared :
          /\ \A c \in Cpus : HandlerFirst(c, i)
          /\ \A b \in Cpus \cup {Dist} : i \in en[b] => i \in table
          /\ \A c \in Cpus : intr[c] = [pc |-> "run", id |-> i] => i \in table

\* Only the call for a device's interrupt enables it, on each controller.
LEMMA DeviceEnabled ==
    ASSUME Settled, NEW c \in Cpus, Program(c), NEW i \in Shared,
           NEW b \in Cpus \cup {Dist}, i \in en'[b], i \notin en[b]
    PROVE  Call(c) = <<"enable", i>>
<1> USE Apart
<1>1. Types /\ Control(c) /\ todo[c] # <<>>
  BY ProgramMoves DEF Settled, Of
<1>2. ASSUME Op(c) = "enable", Arg(c) = i
      PROVE  Call(c) = <<"enable", i>>
  BY <1>1, <1>2, CallerAsks
<1>3. CASE GicSetEnable(c)
  <2>1. Op(c) = "enable" /\ Arg(c) \in Ids
    BY <1>1, <1>3, CallerAsks DEF GicSetEnable, Types
  <2>2. en' = [en EXCEPT ![Bank(c, Arg(c))] = @ \cup {Bit(Arg(c))}]
    BY <1>3 DEF GicSetEnable
  <2>3. Bit(Arg(c)) = i
    BY <1>1, <2>2 DEF Types
  <2>4. Arg(c) = i
    <3>1. CASE Arg(c) \in Private
      <4>1. Bit(Arg(c)) \in Private
        BY <3>1 DEF Private, Timer, Ipi, Bit
      <4> QED BY <2>3, <4>1
    <3>2. CASE Arg(c) \in 32 .. 1023
      <4>1. Bit(Arg(c)) = Arg(c) \/ Bit(Arg(c)) = 0
        BY <3>2 DEF Bit, InGicd
      <4> QED BY <2>3, <4>1, SharedNumbers
    <3> QED BY <2>1, <3>1, <3>2, SharedNumbers DEF Ids
  <2> QED BY <1>2, <2>1, <2>4
<1>4. CASE SetSie(c)
  BY <1>1, <1>2, <1>4 DEF SetSie, Types
<1>5. CASE WriteEnbl(c)
  <2>1. at[c] = "write_enbl"
    BY <1>5 DEF WriteEnbl, InCall
  <2>2. /\ reg[c] = en[c] \cap EnblWord(Arg(c)) /\ Arg(c) \in Shared
        /\ Op(c) = "enable"
    BY <1>1, <2>1 DEF Control
  <2>3. en' = [en EXCEPT ![c] = (@ \ EnblWord(Arg(c))) \cup reg[c] \cup {Arg(c)}]
    BY <1>5 DEF WriteEnbl
  <2>4. Arg(c) = i
    BY <1>1, <2>2, <2>3 DEF Types
  <2> QED BY <1>2, <2>2, <2>4
<1>6. en' = en \/ GicSetEnable(c) \/ SetSie(c) \/ WriteEnbl(c)
  BY DEF Program, Access, SetHandler, GetTrgt, LockTrgts, WriteTrgts, SetRoute,
     ReadEnbl, LockPrio, WritePrio, PlicSetPrio, Post, SendSgi, SbiSendIpi
<1> QED BY <1>3, <1>4, <1>5, <1>6

\* The program's steps touch no device's interrupt.
LEMMA DeviceProgram ==
    ASSUME Taken, NEW c \in Cpus, Program(c)
    PROVE  UNCHANGED <<intr, act, owed>> /\ pend'[Dist] = pend[Dist]
<1>1. ASSUME NEW ds, SetPending(ds) PROVE pend'[Dist] = pend[Dist]
  BY <1>1, Apart DEF SetPending
<1>2. CASE UNCHANGED irqs
  BY <1>2 DEF irqs
<1>3. CASE Post(c)
  BY <1>3 DEF Post
<1>4. CASE SendSgi(c)
  <2>1. /\ UNCHANGED <<intr, act, owed>>
        /\ pend' = pend \/ \E d \in reg[c] : SetPending({d})
    BY <1>4 DEF SendSgi
  <2> QED BY <1>1, <2>1
<1>5. CASE SbiSendIpi(c)
  BY <1>1, <1>5 DEF SbiSendIpi
<1> QED BY <1>2, <1>3, <1>4, <1>5 DEF Program

\* What the steps of an interrupt change: what its processor has in hand, and
\* of the devices' interrupts the one that it acknowledges, handles, completes.
LEMMA DeviceStep ==
    ASSUME Taken, owed \subseteq Shared, NEW c \in Cpus, Take(c) \/ Handler(c)
    PROVE  /\ \A d \in Cpus \ {c} : intr'[d] = intr[d]
           /\ \/ /\ intr[c].pc \in {"no", "ack"} /\ UNCHANGED <<act, owed>>
                 /\ pend'[Dist] = pend[Dist]
                 /\ intr'[c].pc = "run" => intr'[c].id \in Private
              \/ \E i \in Shared :
                    /\ intr[c].pc = "ack" /\ intr'[c] = [pc |-> "run", id |-> i]
                    /\ i \in External(c) /\ pend'[Dist] = pend[Dist] \ {i}
                    /\ act' = [act EXCEPT ![i] = c] /\ owed' = owed
              \/ /\ intr[c].pc = "run" /\ intr'[c] = [pc |-> "end", id |-> intr[c].id]
                 /\ owed' = IF intr[c].id \in table THEN owed \ {intr[c].id} ELSE owed
                 /\ pend'[Dist] = pend[Dist] /\ act' = act
              \/ /\ intr[c].pc = "end" /\ intr'[c].pc = "no"
                 /\ pend'[Dist] = pend[Dist] /\ owed' = owed
                 /\ act' = IF intr[c].id \in Shared
                           THEN [act EXCEPT ![intr[c].id] = Nobody] ELSE act
<1> USE Apart DEF Taken
<1>0. \A d \in Cpus \ {c} : intr'[d] = intr[d]
  BY DEF Take, Handler, Acknowledge, Spurious, Handle, Complete
<1>1. CASE Take(c)
  <2>1. /\ UNCHANGED <<pend, act, owed>> /\ intr[c].pc = "no"
        /\ \/ intr' = [intr EXCEPT ![c].pc = "ack"]
           \/ \E i \in Internal(c) : intr' = [intr EXCEPT ![c] = [pc |-> "run", id |-> i]]
    BY <1>1 DEF Take
  <2>2. Internal(c) \subseteq Private
    BY DEF Internal
  <2>3. intr'[c].pc = "run" => intr'[c].id \in Private
    BY <2>1, <2>2
  <2> QED BY <1>0, <2>1, <2>3
<1>2. CASE Acknowledge(c)
  <2>1. /\ intr[c].pc = "ack" /\ owed' = owed
        /\ \E i \in External(c) \cup (IF ctl = "plic" THEN {} ELSE Internal(c)) :
             LET b == IF i \in Shared THEN Dist ELSE c IN
             /\ intr' = [intr EXCEPT ![c] = [pc |-> "run", id |-> i]]
             /\ pend' = [pend EXCEPT ![b] = @ \ {i}]
             /\ act' = IF i \in Shared THEN [act EXCEPT ![i] = c] ELSE act
    BY <1>2 DEF Acknowledge
  <2>2. PICK i \in External(c) \cup (IF ctl = "plic" THEN {} ELSE Internal(c)) :
          LET b == IF i \in Shared THEN Dist ELSE c IN
          /\ intr' = [intr EXCEPT ![c] = [pc |-> "run", id |-> i]]
          /\ pend' = [pend EXCEPT ![b] = @ \ {i}]
          /\ act' = IF i \in Shared THEN [act EXCEPT ![i] = c] ELSE act
    BY <2>1
  <2>3. intr'[c] = [pc |-> "run", id |-> i]
    BY <2>2
  <2>4. External(c) \subseteq Shared /\ Internal(c) \subseteq Private
    BY DEF External, Internal
  <2>5. CASE i \in Shared
    <3>1. i \in External(c)
      BY <2>2, <2>4, <2>5
    <3>2. pend'[Dist] = pend[Dist] \ {i} /\ act' = [act EXCEPT ![i] = c]
      BY <2>2, <2>5
    <3> QED BY <1>0, <2>1, <2>3, <2>5, <3>1, <3>2
  <2>6. CASE i \notin Shared
    <3>1. pend'[Dist] = pend[Dist] /\ act' = act
      BY <2>2, <2>6
    <3>2. i \in Private
      BY <2>2, <2>4, <2>6
    <3> QED BY <1>0, <2>1, <2>3, <3>1, <3>2
  <2> QED BY <2>5, <2>6
<1>3. CASE Spurious(c)
  <2>1. /\ UNCHANGED <<pend, act, owed>> /\ intr[c].pc = "ack"
        /\ intr'[c].pc = "no"
    BY <1>3 DEF Spurious
  <2> QED BY <1>0, <2>1
<1>4. CASE Handle(c)
  <2>1. /\ intr[c].pc = "run" /\ intr' = [intr EXCEPT ![c].pc = "end"] /\ act' = act
        /\ owed' = IF intr[c].id \in table THEN owed \ {intr[c].id} ELSE owed
    BY <1>4 DEF Handle
  <2>2. intr'[c] = [pc |-> "end", id |-> intr[c].id]
    BY <2>1
  <2>3. pend'[Dist] = pend[Dist]
    BY <1>4 DEF Handle
  <2> QED BY <1>0, <2>1, <2>2, <2>3
<1>5. CASE Complete(c)
  <2>1. /\ intr[c].pc = "end" /\ intr'[c].pc = "no" /\ owed' = owed
        /\ act' = IF intr[c].id \in Shared
                  THEN [act EXCEPT ![intr[c].id] = Nobody] ELSE act
    BY <1>5 DEF Complete
  <2>2. pend'[Dist] = pend[Dist]
    BY <1>5 DEF Complete
  <2> QED BY <1>0, <2>1, <2>2
<1> QED BY <1>1, <1>2, <1>3, <1>4, <1>5 DEF Handler

\* An acknowledgement and a completion change both sides together.
LEMMA InHandNext == Taken /\ owed \subseteq Shared /\ InHand /\ [Next]_vars => InHand'
<1> SUFFICES ASSUME Taken, owed \subseteq Shared, InHand, [Next]_vars PROVE InHand'
  OBVIOUS
<1>1. CASE UNCHANGED <<act, intr>>
  BY <1>1 DEF InHand
<1>2. ASSUME NEW c \in Cpus, Take(c) \/ Handler(c) PROVE InHand'
  <2> SUFFICES ASSUME NEW i \in Shared, act'[i] # Nobody
               PROVE  intr'[act'[i]].pc \in {"run", "end"} /\ intr'[act'[i]].id = i
    BY DEF InHand
  <2>1. act[i] # Nobody =>
          act[i] \in Cpus /\ intr[act[i]].pc \in {"run", "end"} /\ intr[act[i]].id = i
    BY DEF InHand, Taken
  <2>2. \A d \in Cpus \ {c} : intr'[d] = intr[d]
    BY <1>2, DeviceStep
  <2>3. CASE intr[c].pc \in {"no", "ack"} /\ UNCHANGED <<act, owed>>
    BY <2>1, <2>2, <2>3
  <2>4. ASSUME NEW j \in Shared, intr[c].pc = "ack", intr'[c] = [pc |-> "run", id |-> j],
               act' = [act EXCEPT ![j] = c]
        PROVE  intr'[act'[i]].pc \in {"run", "end"} /\ intr'[act'[i]].id = i
    <3>1. CASE i = j
      BY <2>4, <3>1 DEF Taken
    <3>2. CASE i # j
      <4>1. act'[i] = act[i] /\ act[i] # Nobody
        BY <2>4, <3>2 DEF Taken
      <4>2. act[i] # c
        BY <2>1, <2>4, <4>1
      <4> QED BY <2>1, <2>2, <4>1, <4>2
    <3> QED BY <3>1, <3>2
  <2>5. CASE /\ intr[c].pc = "run" /\ intr'[c] = [pc |-> "end", id |-> intr[c].id]
             /\ act' = act
    BY <2>1, <2>2, <2>5
  <2>6. CASE /\ intr[c].pc = "end"
             /\ act' = IF intr[c].id \in Shared
                       THEN [act EXCEPT ![intr[c].id] = Nobody] ELSE act
    <3>1. intr[c].id # i
      BY <2>6 DEF Taken
    <3>2. act'[i] = act[i]
      BY <2>6, <3>1 DEF Taken
    <3>3. act[i] # c
      BY <2>1, <3>1, <3>2
    <3> QED BY <2>1, <2>2, <3>2, <3>3
  <2> QED BY <1>2, <2>3, <2>4, <2>5, <2>6, DeviceStep
<1>3. ASSUME NEW c \in Cpus, Program(c) PROVE InHand'
  BY <1>1, <1>3, DeviceProgram
<1>4. CASE UNCHANGED vars \/ (\E i \in Shared : Raise(i)) \/ \E c \in Cpus : Tick(c)
  BY <1>1, <1>4 DEF vars, irqs, Raise, Tick
<1> QED BY <1>2, <1>3, <1>4 DEF Next

\* Only devices are owed anything.
LEMMA OwedNext == Taken /\ owed \subseteq Shared /\ [Next]_vars => owed' \subseteq Shared
<1> SUFFICES ASSUME Taken, owed \subseteq Shared, [Next]_vars PROVE owed' \subseteq Shared
  OBVIOUS
<1>1. ASSUME NEW c \in Cpus, Take(c) \/ Handler(c) PROVE owed' \subseteq owed
  BY <1>1, DeviceStep
<1>2. ASSUME NEW c \in Cpus, Program(c) PROVE owed' = owed
  BY <1>2, DeviceProgram
<1>3. CASE UNCHANGED vars \/ (\E i \in Shared : Raise(i)) \/ \E c \in Cpus : Tick(c)
  BY <1>3 DEF vars, irqs, Raise, Tick
<1> QED BY <1>1, <1>2, <1>3 DEF Next

\* No step of an interrupt loses a device's, and what is acknowledged has been
\* enabled.
LEMMA DeviceHandled ==
    ASSUME DeviceInv, NEW c \in Cpus, Take(c) \/ Handler(c), UNCHANGED <<ctl, calls>>
    PROVE  /\ NoneForgotten'
           /\ \A i \in Shared, d \in Cpus :
                 intr'[d] = [pc |-> "run", id |-> i] => i \in table
<1> USE Apart
<1>1. Taken /\ owed \subseteq Shared
  BY DEF DeviceInv
<1>2. \A d \in Cpus \ {c} : intr'[d] = intr[d]
  BY <1>1, DeviceStep
<1>3. \A i \in Shared, d \in Cpus : intr[d] = [pc |-> "run", id |-> i] => i \in table
  BY DEF DeviceInv
<1>4. \A i \in owed :
        i \in pend[Dist] \/ \E d \in Cpus : intr[d] = [pc |-> "run", id |-> i]
  BY DEF DeviceInv, NoneForgotten
<1>5. CASE /\ intr[c].pc \in {"no", "ack"} /\ UNCHANGED <<act, owed>>
           /\ pend'[Dist] = pend[Dist]
           /\ intr'[c].pc = "run" => intr'[c].id \in Private
  <2>1. NoneForgotten'
    BY <1>2, <1>4, <1>5 DEF NoneForgotten
  <2> QED BY <1>2, <1>3, <1>5, <2>1
<1>6. ASSUME NEW j \in Shared, intr[c].pc = "ack",
             intr'[c] = [pc |-> "run", id |-> j], j \in External(c),
             pend'[Dist] = pend[Dist] \ {j}, owed' = owed
      PROVE  /\ NoneForgotten'
             /\ \A i \in Shared, d \in Cpus :
                   intr'[d] = [pc |-> "run", id |-> i] => i \in table
  <2>1. NoneForgotten'
    BY <1>2, <1>4, <1>6 DEF NoneForgotten
  <2>2. j \in table
    BY <1>6 DEF External, Listens, DeviceInv
  <2> QED BY <1>2, <1>3, <1>6, <2>1, <2>2
<1>7. CASE /\ intr[c].pc = "run" /\ intr'[c] = [pc |-> "end", id |-> intr[c].id]
           /\ owed' = IF intr[c].id \in table THEN owed \ {intr[c].id} ELSE owed
           /\ pend'[Dist] = pend[Dist]
  <2>1. ASSUME NEW i \in owed'
        PROVE  i \in pend'[Dist] \/ \E d \in Cpus : intr'[d] = [pc |-> "run", id |-> i]
    <3>1. i \in owed /\ i \in Shared
      BY <1>1, <1>7
    <3>2. intr[c] # [pc |-> "run", id |-> i]
      BY <1>3, <1>7, <2>1, <3>1
    <3> QED BY <1>2, <1>4, <1>7, <3>1, <3>2
  <2>2. NoneForgotten'
    BY <2>1 DEF NoneForgotten
  <2> QED BY <1>2, <1>3, <1>7, <2>2
<1>8. CASE /\ intr[c].pc = "end" /\ intr'[c].pc = "no"
           /\ pend'[Dist] = pend[Dist] /\ owed' = owed
  <2>1. NoneForgotten'
    BY <1>2, <1>4, <1>8 DEF NoneForgotten
  <2> QED BY <1>2, <1>3, <1>8, <2>1
<1> QED BY <1>1, <1>5, <1>6, <1>7, <1>8, DeviceStep

\* A call that enables a device's interrupt comes after its handler.
LEMMA DeviceCall ==
    ASSUME DeviceInv, NEW c \in Cpus, Program(c), NEW i \in Shared
    PROVE  /\ \A d \in Cpus : HandlerFirst(d, i)'
           /\ \A b \in Cpus \cup {Dist} : i \in en'[b] => i \in table'
<1>1. Settled /\ Types /\ todo[c] # <<>> /\ table \subseteq table' /\ i \in Ids
  BY ProgramMoves DEF DeviceInv, Settled, Ids
<1>2. \A d \in Cpus : HandlerFirst(d, i)'
  BY <1>1, HandlerStaysFirst DEF DeviceInv
<1>3. ASSUME NEW b \in Cpus \cup {Dist}, i \in en'[b], i \notin en[b]
      PROVE  i \in table
  <2>1. Call(c) = <<"enable", i>>
    BY <1>1, <1>3, DeviceEnabled
  <2>2. 1 \in DOMAIN todo[c] /\ todo[c][1] = <<"enable", i>>
    BY <1>1, <2>1 DEF Types, Call
  <2>3. HandlerFirst(c, i)
    BY DEF DeviceInv
  <2> QED BY <2>2, <2>3 DEF HandlerFirst
<1>4. \A b \in Cpus \cup {Dist} : i \in en[b] => i \in table
  BY DEF DeviceInv
<1> QED BY <1>1, <1>2, <1>3, <1>4

\* Every step keeps what a device needs to be heard.
LEMMA DeviceNext == DeviceInv /\ [Next]_vars => DeviceInv'
<1> SUFFICES ASSUME DeviceInv, [Next]_vars PROVE DeviceInv'
  OBVIOUS
<1>1. Settled' /\ Taken' /\ owed' \subseteq Shared
  BY SettledNext, TakenNext, OwedNext DEF DeviceInv
<1>2. CASE /\ UNCHANGED <<ctl, calls>>
           /\ \/ UNCHANGED vars
              \/ \E i \in Shared : Raise(i)
              \/ \E c \in Cpus : Tick(c) \/ Take(c) \/ Handler(c)
  <2>1. UNCHANGED <<en, table, todo>>
    BY <1>2 DEF calls
  <2>2. \A i \in Shared :
          /\ \A c \in Cpus : HandlerFirst(c, i)'
          /\ \A b \in Cpus \cup {Dist} : i \in en'[b] => i \in table'
    BY <2>1 DEF DeviceInv, HandlerFirst
  <2>3. CASE /\ NoneForgotten'
             /\ \A i \in Shared, d \in Cpus :
                   intr'[d] = [pc |-> "run", id |-> i] => i \in table
    BY <1>1, <2>1, <2>2, <2>3 DEF DeviceInv
  <2>4. ASSUME intr' = intr, NoneForgotten' PROVE DeviceInv'
    BY <2>3, <2>4 DEF DeviceInv
  <2>5. CASE UNCHANGED vars
    BY <2>4, <2>5 DEF vars, irqs, DeviceInv, NoneForgotten
  <2>6. ASSUME NEW i \in Shared, Raise(i) PROVE intr' = intr /\ NoneForgotten'
    BY <2>6 DEF Raise, DeviceInv, Taken, NoneForgotten
  <2>7. ASSUME NEW c \in Cpus, Tick(c) PROVE intr' = intr /\ NoneForgotten'
    <3>1. intr' = intr /\ owed' = owed /\ pend'[Dist] = pend[Dist]
      BY <2>7, Apart DEF Tick, DeviceInv, Taken
    <3> QED BY <3>1 DEF DeviceInv, NoneForgotten
  <2>8. ASSUME NEW c \in Cpus, Take(c) \/ Handler(c) PROVE DeviceInv'
    BY <1>2, <2>3, <2>8, DeviceHandled
  <2> QED BY <1>2, <2>4, <2>5, <2>6, <2>7, <2>8
<1>3. ASSUME NEW c \in Cpus, Program(c) PROVE DeviceInv'
  <2>1. Taken /\ Settled
    BY DEF DeviceInv
  <2>2. UNCHANGED <<intr, act, owed>> /\ pend'[Dist] = pend[Dist]
    BY <1>3, <2>1, DeviceProgram
  <2>3. table \subseteq table'
    BY <1>3, <2>1, ProgramMoves
  <2>4. NoneForgotten'
    BY <2>2 DEF DeviceInv, NoneForgotten
  <2>5. \A i \in Shared :
          /\ \A d \in Cpus : HandlerFirst(d, i)'
          /\ \A b \in Cpus \cup {Dist} : i \in en'[b] => i \in table'
    BY <1>3, DeviceCall
  <2> QED BY <1>1, <2>2, <2>3, <2>4, <2>5 DEF DeviceInv
<1>4. CASE UNCHANGED vars
  BY <1>2, <1>4 DEF vars
<1> QED BY <1>2, <1>3, <1>4 DEF Next

\* Under any plans that register a handler before they enable its interrupt,
\* no interrupt of a device is lost before a handler has seen what the device
\* wants, on each controller and for any processors: not when it comes again
\* while it is handled, not when two processors are interrupted by it, and not
\* in a call that is half done.  The half of Handled that is safety.
THEOREM DevicesAreHeard ==
    (\A i \in Shared : RegistersFirst(i)) => (Spec => []NoneForgotten)
<1>1. DeviceInv => NoneForgotten
  BY DEF DeviceInv
<1>2. CASE \A i \in Shared : RegistersFirst(i)
  <2>1. Init => DeviceInv
    <3> SUFFICES ASSUME Init PROVE DeviceInv
      OBVIOUS
    <3>1. Settled /\ Taken
      BY SettledInit, TakenInit
    <3>2. \A i \in Shared, c \in Cpus : HandlerFirst(c, i)
      BY <1>2 DEF Init, RegistersFirst, HandlerFirst
    <3>3. /\ owed = {} /\ \A b \in Cpus \cup {Dist} : en[b] = {}
          /\ \A c \in Cpus : intr[c].pc = "no"
      BY DEF Init
    <3>4. \A i \in Shared, c \in Cpus : intr[c] # [pc |-> "run", id |-> i]
      BY <3>3
    <3>5. NoneForgotten /\ owed \subseteq Shared
      BY <3>3 DEF NoneForgotten
    <3> QED BY <3>1, <3>2, <3>3, <3>4, <3>5 DEF DeviceInv
  <2> QED BY <1>1, <2>1, DeviceNext, PTL DEF Spec
<1> QED BY <1>2

\* No processor keeps an interrupt from the others that it does not have in
\* hand: what is acknowledged is completed by the one that acknowledged it.
THEOREM NoneKept == Spec => []InHand
<1> DEFINE KeptInv == Taken /\ owed \subseteq Shared /\ InHand
<1>1. Init => KeptInv
  BY TakenInit DEF Init, InHand
<1>2. KeptInv /\ [Next]_vars => KeptInv'
  BY TakenNext, OwedNext, InHandNext
<1>3. KeptInv => InHand
  OBVIOUS
<1> HIDE DEF KeptInv
<1> QED BY <1>1, <1>2, <1>3, PTL DEF Spec

-----------------------------------------------------------------------------
(* Nobody waits for a lock that is not given back.                         *)

Locks == {"gicd_lock", "gicr_lock"}

\* The next access of c begins with taking the lock l, or ends with giving
\* it back.
Wants(c, l) ==
    \/ /\ InCall(c, "start") /\ ctl # "plic" /\ Op(c) \in {"enable", "prio"}
       /\ l = Lock(Arg(c))
    \/ InCall(c, "set_trgt") /\ l = "gicd_lock"

Leaves(c, l) ==
    \/ at[c] = "write_trgt" /\ l = "gicd_lock"
    \/ at[c] = "write_prio" /\ l = Lock(Arg(c))

\* Whoever has a lock is about to leave it.
LocksLeft == \A l \in Locks : ~IsFree(l) => Leaves(holder[l], l)

\* A processor has work that is in a call or an interrupt, and the only thing
\* it ever waits for is a lock.
HasWork(c) == todo[c] # <<>> \/ intr[c].pc # "no"
CanGoOn(c) == HasWork(c) /\ \A l \in Locks : Wants(c, l) => IsFree(l)

\* A processor that waits does so for one that can go on, with the access
\* that leaves the lock or with the interrupt that has stopped it.
NobodyBlocks ==
    \A c \in Cpus : HasWork(c) =>
        \/ CanGoOn(c)
        \/ \E l \in Locks, d \in Cpus :
              Wants(c, l) /\ holder[l] = d /\ Leaves(d, l) /\ CanGoOn(d)

\* A step of a processor that is about to leave no lock before it leaves alone
\* what the others hold.
LEMMA LeftByOthers ==
    ASSUME Settled, LocksLeft, NEW c \in Cpus, UNCHANGED ctl,
           Return(c) \/ \E s \in Steps : Go(c, s),
           NEW l \in Locks, ~Leaves(c, l), holder'[l] = holder[l]
    PROVE  ~IsFree(l)' => Leaves(holder[l], l)'
<1>1. CASE IsFree(l)
  BY <1>1 DEF IsFree
<1>2. CASE ~IsFree(l)
  <2>1. Types /\ Leaves(holder[l], l)
    BY <1>2 DEF LocksLeft, Settled
  <2>2. holder[l] \in Cpus \ {c}
    BY <1>2, <2>1 DEF Types, IsFree, Locks
  <2>3. \A d \in Cpus \ {c} : at'[d] = at[d] /\ todo'[d] = todo[d]
    BY <2>1 DEF Types, Return, Go
  <2>4. \A d \in Cpus \ {c} : Arg(d)' = Arg(d)
    BY <2>3 DEF Arg, Call
  <2> QED BY <2>1, <2>2, <2>3, <2>4 DEF Leaves, Lock
<1> QED BY <1>1, <1>2

\* What is taken is left with the next access, and no step on the way takes a
\* second lock.
LEMMA LeftProgram ==
    ASSUME Settled, LocksLeft, NEW c \in Cpus, Program(c), UNCHANGED ctl
    PROVE  LocksLeft'
<1>1. /\ Types /\ Control(c) /\ todo[c] # <<>>
      /\ Return(c) \/ \E s \in Steps : Go(c, s)
  BY ProgramMoves DEF Settled, Of
<1>2. ASSUME NEW l \in Locks, ~Leaves(c, l), holder'[l] = holder[l]
      PROVE  ~IsFree(l)' => Leaves(holder[l], l)'
  BY <1>1, <1>2, LeftByOthers
<1>3. Lock(Arg(c)) \in Locks /\ \A l \in Locks : l \in DOMAIN holder
  BY <1>1 DEF Lock, Locks, Types
<1>4. CASE LockTrgts(c) \/ LockPrio(c)
  <2>1. PICK k \in Locks :
          /\ IsFree(k) /\ holder' = [holder EXCEPT ![k] = c]
          /\ \/ at' = [at EXCEPT ![c] = "write_trgt"] /\ k = "gicd_lock"
             \/ /\ at' = [at EXCEPT ![c] = "write_prio"]
                /\ k = Lock(Arg(c)) /\ todo' = todo
    BY <1>3, <1>4 DEF LockTrgts, LockPrio, Go, Locks
  <2>2. Leaves(c, k)'
    <3>1. at'[c] \in {"write_trgt", "write_prio"}
      BY <1>1, <2>1 DEF Types
    <3> QED BY <1>1, <2>1 DEF Types, Leaves, Lock, Arg, Call
  <2>3. at[c] \in {"start", "set_trgt"}
    BY <1>4 DEF LockTrgts, LockPrio, InCall
  <2>4. \A l \in Locks : ~Leaves(c, l)
    BY <2>3 DEF Leaves
  <2>5. holder'[k] = c /\ \A l \in Locks \ {k} : holder'[l] = holder[l]
    BY <1>3, <2>1
  <2>6. ASSUME NEW l \in Locks, ~IsFree(l)' PROVE Leaves(holder[l], l)'
    <3>1. CASE l # k
      BY <1>2, <2>4, <2>5, <2>6, <3>1
    <3>2. CASE l = k
      <4>1. holder'[l] = c
        BY <2>5, <3>2
      <4> QED BY <2>2, <3>2, <4>1 DEF Leaves, Arg, Call, Lock
    <3> QED BY <3>1, <3>2
  <2> QED BY <2>6 DEF LocksLeft
<1>5. CASE WriteTrgts(c) \/ WritePrio(c)
  <2>1. PICK k \in Locks : /\ holder' = [holder EXCEPT ![k] = Nobody]
                           /\ \A l \in Locks \ {k} : ~Leaves(c, l)
    BY <1>3, <1>5 DEF WriteTrgts, WritePrio, InCall, Leaves, Locks
  <2>2. holder'[k] = Nobody /\ \A l \in Locks \ {k} : holder'[l] = holder[l]
    BY <1>3, <2>1
  <2>3. ASSUME NEW l \in Locks, ~IsFree(l)' PROVE Leaves(holder[l], l)'
    <3>1. l # k
      BY <2>2, <2>3 DEF IsFree, Nobody
    <3> QED BY <1>2, <2>1, <2>2, <2>3, <3>1
  <2> QED BY <2>3 DEF LocksLeft
<1>6. CASE UNCHANGED holder /\ at[c] \notin {"write_trgt", "write_prio"}
  <2>1. \A l \in Locks : ~Leaves(c, l) /\ holder'[l] = holder[l]
    BY <1>6 DEF Leaves
  <2> QED BY <1>2, <2>1 DEF LocksLeft
<1>7. \/ LockTrgts(c) \/ LockPrio(c) \/ WriteTrgts(c) \/ WritePrio(c)
      \/ UNCHANGED holder /\ at[c] \notin {"write_trgt", "write_prio"}
  BY DEF Program, Access, SetHandler, GicSetEnable, GetTrgt, SetRoute, SetSie, ReadEnbl,
     WriteEnbl, PlicSetPrio, Post, SendSgi, SbiSendIpi, InCall
<1> QED BY <1>4, <1>5, <1>6, <1>7

\* Interrupts neither take nor leave a lock.
LEMMA LeftNext == Settled /\ LocksLeft /\ [Next]_vars => LocksLeft'
<1> SUFFICES ASSUME Settled, LocksLeft, [Next]_vars PROVE LocksLeft'
  OBVIOUS
<1>1. CASE UNCHANGED <<ctl, calls>>
  <2>1. UNCHANGED <<ctl, todo, at, holder>>
    BY <1>1 DEF calls
  <2> QED BY <2>1 DEF LocksLeft, IsFree, Leaves, Lock, Arg, Call
<1> QED BY <1>1, LeftProgram DEF Next, vars

\* Who holds a lock neither waits for one nor has nothing to do.
LEMMA LeftIsEnough == Settled /\ LocksLeft => NobodyBlocks
<1> SUFFICES ASSUME Settled, LocksLeft, NEW c \in Cpus, HasWork(c),
                    NEW l \in Locks, Wants(c, l), ~IsFree(l)
             PROVE  \E d \in Cpus : holder[l] = d /\ Leaves(d, l) /\ CanGoOn(d)
  BY DEF NobodyBlocks, CanGoOn
<1>1. PICK d \in Cpus : holder[l] = d /\ Leaves(d, l)
  BY DEF Settled, Types, LocksLeft, IsFree, Locks
<1>2. at[d] \in {"write_trgt", "write_prio"} /\ Control(d)
  BY <1>1 DEF Leaves, Settled, Of
<1>3. HasWork(d) /\ \A k \in Locks : ~Wants(d, k)
  BY <1>2 DEF Control, HasWork, Wants, InCall
<1> QED BY <1>1, <1>3 DEF CanGoOn

\* However many processors set up interrupts, on each controller and whatever
\* interrupts them: one that waits for gicd_lock or gicr_lock waits for another
\* that can go on and is about to leave it.
THEOREM LocksAreLeft == Spec => [](LocksLeft /\ NobodyBlocks)
<1>1. Init => LocksLeft
  BY DEF Init, LocksLeft, IsFree, Locks
<1>2. Settled /\ LocksLeft => LocksLeft /\ NobodyBlocks
  BY LeftIsEnough
<1> QED BY <1>1, <1>2, LeftNext, SettledInit, SettledNext, PTL DEF Spec
=============================================================================
