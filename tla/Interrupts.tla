---------------------------- MODULE Interrupts ----------------------------
(***************************************************************************)
(* The interrupt functions of the interference guest, irq_set_handler(),   *)
(* irq_set_prio(), irq_enable() and irq_send_ipi(), and what happens when  *)
(* an interrupt comes, on each of its three controllers: GICv2, GICv3 and  *)
(* the PLIC of RISC-V.                                                     *)
(*                                                                         *)
(* Every processor makes the calls of its plan; an interrupt may come      *)
(* between any two of their register accesses.  The spin locks are those   *)
(* of LockService, which SpinLock implements.  Registers are sets: of the  *)
(* interrupts enabled, of those whose priority is no longer the lowest,    *)
(* of an interrupt's targets.  en and prio have one register for each      *)
(* processor (banked, redistributor, context) and one for all, Dist.       *)
(*                                                                         *)
(* On Armv8 an interrupt overwrites two words of the stack of whatever it  *)
(* stopped.  Whether they are in use is the compiler's choice; where they  *)
(* are, the model ends when the program goes on (spoiled).                 *)
(***************************************************************************)
EXTENDS Integers, Sequences, FiniteSets

CONSTANTS
    Cpus,       \* the processors
    Dist,       \* the registers that are not a processor's own
    Shared,     \* numbers of the devices' interrupts
    Ctls,       \* the controllers to choose from
    Plans,      \* what the processors may call, a sequence for each
    MaxRaises   \* bound on how often devices interrupt

Nobody == Dist

\* IPI_IRQ_ID and TIMER_IRQ_ID (on RISC-V 1025 and 1029).
Ipi == 0
Timer == 27
Private == {Ipi, Timer}
Ids == Private \cup Shared

\* irq_enable(id) is <<"enable", id>>, irq_send_ipi(mask) is <<"ipi", the
\* processors of the mask>>.
Calls == ({"handler", "prio", "enable"} \X Ids) \cup ({"ipi"} \X SUBSET Cpus)

\* The handlers there is room for, besides those of RISC-V's own numbers.
IRQ_NUM == 1024

ASSUME InterruptsAssumption ==
    /\ Cpus \subseteq Nat /\ Dist \notin Cpus
    /\ Shared \subseteq 32 .. IRQ_NUM - 1
    /\ Ctls \subseteq {"gicv2", "gicv3", "plic"}
    /\ Plans \subseteq [Cpus -> Seq(Calls)]
    /\ MaxRaises \in Nat

VARIABLES
    ctl,      \* the controller
    todo,     \* todo[c]: the calls c has still to make
    done,     \* done[c]: the calls of c that have returned
    at,       \* at[c]: how far the first of todo[c] has come
    reg,      \* reg[c]: what it has read
    new,      \* new[c]: the targets irq_enable() is to write on a GICv2
    holder,   \* who holds gicd_lock, and gicr_lock on a GICv3
    table,    \* irq_handlers: interrupts with a handler
    en,       \* ISENABLER, enbl and sie
    prio,     \* IPRIORITYR and prio
    trgt,     \* ITARGETSR, IROUTER
    pend,     \* interrupts that are pending, for c or for Dist
    act,      \* act[i]: the processor that has acknowledged i
    intr,     \* intr[c]: how far the interrupt that c takes has come
    letter,   \* letter[c]: what c has been sent an IPI for
    owed,     \* devices' interrupts no handler has seen yet
    raised,   \* how often devices have interrupted
    spoiled   \* a program has gone on with a stack that was overwritten
calls == <<todo, done, at, reg, new, holder, table, en, prio, trgt>>
irqs == <<pend, act, intr, letter, owed, raised>>
vars == <<ctl, calls, irqs, spoiled>>

None == -1

Call(c) == Head(todo[c])
Op(c) == Call(c)[1]
Arg(c) == Call(c)[2]

\* c executes its calls while no interrupt has stopped it.
InCall(c, step) == todo[c] # <<>> /\ intr[c].pc = "no" /\ at[c] = step

Go(c, step) == at' = [at EXCEPT ![c] = step] /\ UNCHANGED <<todo, done>>

Return(c) ==
    /\ done' = [done EXCEPT ![c] = @ \cup {Call(c)}]
    /\ todo' = [todo EXCEPT ![c] = Tail(@)]
    /\ at' = [at EXCEPT ![c] = "start"]

\* gic_init() and plic_init() are behind: nothing is enabled, every
\* priority is the lowest, nothing has a target.
Init ==
    /\ ctl \in Ctls
    /\ todo \in Plans
    /\ done = [c \in Cpus |-> {}]
    /\ at = [c \in Cpus |-> "start"]
    /\ reg = [c \in Cpus |-> {}]
    /\ new = [c \in Cpus |-> {}]
    /\ holder = [l \in {"gicd_lock", "gicr_lock"} |-> Nobody]
    /\ table = {}
    /\ en = [b \in Cpus \cup {Dist} |-> {}]
    /\ prio = [b \in Cpus \cup {Dist} |-> {}]
    /\ trgt = [i \in Shared |-> {}]
    /\ pend = [b \in Cpus \cup {Dist} |-> {}]
    /\ act = [i \in Shared |-> Nobody]
    /\ intr = [c \in Cpus |-> [pc |-> "no", id |-> None]]
    /\ letter = [c \in Cpus |-> "none"]
    /\ owed = {}
    /\ raised = 0
    /\ spoiled = FALSE

-----------------------------------------------------------------------------
(* The calls.                                                              *)

\* irq_in_gicd() of the GICv3: number 32, the first of the devices', is not
\* in the distributor for it.
InGicd(i) == i > 32 /\ i < 1025

\* Where the registers of interrupt i are for processor c, which bit of the
\* enable register is its own, and which lock protects them.
Bank(c, i) ==
    CASE ctl = "gicv2" -> IF i < 32 THEN c ELSE Dist
      [] ctl = "gicv3" -> IF InGicd(i) THEN Dist ELSE c
      [] ctl = "plic"  -> c
Bit(i) == IF ctl = "gicv3" /\ ~InGicd(i) THEN i % 32 ELSE i
Lock(i) == IF ctl = "gicv3" /\ ~InGicd(i) THEN "gicr_lock" ELSE "gicd_lock"

IsFree(l) == holder[l] = Nobody

\* The interrupts that share a register of four bytes with i, and their
\* targets.
Beside(i) == {j \in Ids : j \div 4 = i \div 4}
TrgtsBeside(i) == {jd \in Shared \X Cpus : jd[1] \in Beside(i) /\ jd[2] \in trgt[jd[1]]}

SetHandler(c) ==
    /\ InCall(c, "start") /\ Op(c) = "handler"
    /\ table' = table \cup {Arg(c)}
    /\ Return(c)
    /\ UNCHANGED <<reg, new, holder, en, prio, trgt>>

\* gic_set_enable(): a register where writing a one sets a bit, under the
\* lock.
GicSetEnable(c) ==
    LET i == Arg(c) IN
    /\ ctl # "plic" /\ InCall(c, "start") /\ Op(c) = "enable"
    /\ IsFree(Lock(i))
    /\ en' = [en EXCEPT ![Bank(c, i)] = @ \cup {Bit(i)}]
    /\ Go(c, IF ctl = "gicv2" THEN "get_trgt" ELSE "route")
    /\ UNCHANGED <<reg, new, holder, table, prio, trgt>>

\* gic_get_trgt(), which takes no lock, with the bit of c added to it.
GetTrgt(c) ==
    LET i == Arg(c) IN
    /\ InCall(c, "get_trgt")
    /\ new' = [new EXCEPT ![c] = IF i \in Shared THEN trgt[i] \cup {c} ELSE {}]
    /\ Go(c, "set_trgt")
    /\ UNCHANGED <<reg, holder, table, en, prio, trgt>>

\* Mutant of LockTrgts: the register is read without the lock.
ReadTrgtsUnlocked(c) ==
    /\ InCall(c, "set_trgt")
    /\ reg' = [reg EXCEPT ![c] = TrgtsBeside(Arg(c))]
    /\ Go(c, "write_trgt")
    /\ UNCHANGED <<new, holder, table, en, prio, trgt>>

\* gic_set_trgt(): the register holds the targets of four interrupts.  It
\* is read ...
LockTrgts(c) ==
    /\ InCall(c, "set_trgt")
    /\ IsFree("gicd_lock")
    /\ holder' = [holder EXCEPT !["gicd_lock"] = c]
    /\ reg' = [reg EXCEPT ![c] = TrgtsBeside(Arg(c))]
    /\ Go(c, "write_trgt")
    /\ UNCHANGED <<new, table, en, prio, trgt>>

\* ... and written, all four.  For private interrupts it is read-only.
WriteTrgts(c) ==
    LET i == Arg(c)
        word == [j \in Beside(i) \cap Shared |->
                    IF j = i THEN new[c] ELSE {d \in Cpus : <<j, d>> \in reg[c]}] IN
    /\ InCall(c, "write_trgt")
    /\ trgt' = [j \in Shared |-> IF j \in DOMAIN word THEN word[j] ELSE trgt[j]]
    /\ holder' = [holder EXCEPT !["gicd_lock"] = Nobody]
    /\ Return(c)
    /\ UNCHANGED <<reg, new, table, en, prio>>

\* gic_set_route(): a register for each interrupt, of devices only.
SetRoute(c) ==
    LET i == Arg(c) IN
    /\ InCall(c, "route")
    /\ trgt' = IF i < 32 THEN trgt ELSE [trgt EXCEPT ![i] = {c}]
    /\ Return(c)
    /\ UNCHANGED <<reg, new, holder, table, en, prio>>

\* CSRS(sie, ...)
SetSie(c) ==
    /\ ctl = "plic" /\ InCall(c, "start") /\ Op(c) = "enable"
    /\ Arg(c) \in Private
    /\ en' = [en EXCEPT ![c] = @ \cup {Arg(c)}]
    /\ Return(c)
    /\ UNCHANGED <<reg, new, holder, table, prio, trgt>>

\* plic_enable_interrupt(): the register, of 32 interrupts for this
\* processor only, is read and written without a lock.
EnblWord(i) == {j \in Shared : j \div 32 = i \div 32}

ReadEnbl(c) ==
    /\ ctl = "plic" /\ InCall(c, "start") /\ Op(c) = "enable"
    /\ Arg(c) \in Shared
    /\ reg' = [reg EXCEPT ![c] = en[c] \cap EnblWord(Arg(c))]
    /\ Go(c, "write_enbl")
    /\ UNCHANGED <<new, holder, table, en, prio, trgt>>

WriteEnbl(c) ==
    LET i == Arg(c) IN
    /\ InCall(c, "write_enbl")
    /\ en' = [en EXCEPT ![c] = (@ \ EnblWord(i)) \cup reg[c] \cup {i}]
    /\ Return(c)
    /\ UNCHANGED <<reg, new, holder, table, prio, trgt>>

\* gic_set_prio(): the register holds four priorities.  Those of number 32
\* on a GICv3 are looked for behind the last register of the redistributor,
\* where nothing is.
LockPrio(c) ==
    LET i == Arg(c) IN
    /\ ctl # "plic" /\ InCall(c, "start") /\ Op(c) = "prio"
    /\ IsFree(Lock(i))
    /\ holder' = [holder EXCEPT ![Lock(i)] = c]
    /\ reg' = [reg EXCEPT ![c] = prio[Bank(c, i)] \cap Beside(i)]
    /\ Go(c, "write_prio")
    /\ UNCHANGED <<new, table, en, prio, trgt>>

\* Mutant of WritePrio: the lock is not released.
WritePrioKeepsLock(c) ==
    LET i == Arg(c) IN
    /\ InCall(c, "write_prio")
    /\ prio' = [prio EXCEPT ![Bank(c, i)] = (@ \ Beside(i)) \cup reg[c] \cup {i}]
    /\ holder' = holder
    /\ Return(c)
    /\ UNCHANGED <<reg, new, table, en, trgt>>

WritePrio(c) ==
    LET i == Arg(c) IN
    /\ InCall(c, "write_prio")
    /\ prio' = IF i \in Shared /\ Bank(c, i) = c THEN prio
               ELSE [prio EXCEPT ![Bank(c, i)] =
                        (@ \ Beside(i)) \cup reg[c] \cup {i}]
    /\ holder' = [holder EXCEPT ![Lock(i)] = Nobody]
    /\ Return(c)
    /\ UNCHANGED <<reg, new, table, en, trgt>>

\* plic_set_prio(): a register for each interrupt.  The numbers of private
\* ones are behind the end of the array, in registers that are read-only.
PlicSetPrio(c) ==
    /\ ctl = "plic" /\ InCall(c, "start") /\ Op(c) = "prio"
    /\ prio' = [prio EXCEPT ![Dist] = @ \cup ({Arg(c)} \cap Shared)]
    /\ Return(c)
    /\ UNCHANGED <<reg, new, holder, table, en, trgt>>

\* Before it calls, c writes what it has to say.
Post(c) ==
    /\ InCall(c, "start") /\ Op(c) = "ipi"
    /\ letter' = [d \in Cpus |-> IF d \in Arg(c) THEN "posted" ELSE letter[d]]
    /\ reg' = [reg EXCEPT ![c] = Arg(c)]
    /\ Go(c, "send")
    /\ UNCHANGED <<new, holder, table, en, prio, trgt, pend, act, intr, owed, raised>>

\* The interrupt is set pending for the processors ds.  On RISC-V it is
\* "late" when it meets a handler that has read and not cleared it yet.
SetPending(ds) ==
    /\ pend' = [b \in Cpus \cup {Dist} |->
                  IF b \in ds \cap Cpus THEN pend[b] \cup {Ipi} ELSE pend[b]]
    /\ letter' = [d \in Cpus |->
                    IF d \notin ds \/ letter[d] = "none" THEN letter[d]
                    ELSE IF ctl = "plic" /\ intr[d] = [pc |-> "end", id |-> Ipi]
                    THEN "late" ELSE "sent"]

\* gic_send_sgi() for one processor of the mask after the other, if any.
SendSgi(c) ==
    /\ ctl # "plic" /\ InCall(c, "send")
    /\ \/ /\ reg[c] = {}
          /\ Return(c)
          /\ UNCHANGED <<reg, pend, letter>>
       \/ \E d \in reg[c] :
             /\ \A x \in reg[c] : d <= x
             /\ SetPending({d})
             /\ reg' = [reg EXCEPT ![c] = @ \ {d}]
             /\ Go(c, "send")
    /\ UNCHANGED <<new, holder, table, en, prio, trgt, act, intr, owed, raised>>

\* sbi_send_ipi() for all of them.
SbiSendIpi(c) ==
    /\ ctl = "plic" /\ InCall(c, "send")
    /\ SetPending(reg[c])
    /\ Return(c)
    /\ UNCHANGED <<reg, new, holder, table, en, prio, trgt, act, intr, owed, raised>>

Access(c) ==
    \/ SetHandler(c) \/ GicSetEnable(c) \/ GetTrgt(c) \/ LockTrgts(c)
    \/ WriteTrgts(c) \/ SetRoute(c) \/ SetSie(c) \/ ReadEnbl(c)
    \/ WriteEnbl(c) \/ LockPrio(c) \/ WritePrio(c) \/ PlicSetPrio(c)

-----------------------------------------------------------------------------
(* Interrupts.                                                             *)

\* A device's interrupt, or the timer of a processor.
Raise(i) ==
    /\ raised < MaxRaises
    /\ raised' = raised + 1
    /\ pend' = [pend EXCEPT ![Dist] = @ \cup {i}]
    /\ owed' = owed \cup {i}
    /\ UNCHANGED <<act, intr, letter>>

Tick(c) ==
    /\ raised < MaxRaises
    /\ raised' = raised + 1
    /\ pend' = [pend EXCEPT ![c] = @ \cup {Timer}]
    /\ UNCHANGED <<act, intr, letter, owed>>

\* Device i interrupts c if it may: the lowest priority is masked, and an
\* interrupt that somebody has acknowledged comes to nobody else.
Listens(c, i) ==
    IF ctl = "plic" THEN i \in en[c] ELSE i \in en[Dist] /\ c \in trgt[i]
External(c) ==
    {i \in pend[Dist] : Listens(c, i) /\ i \in prio[Dist] /\ act[i] = Nobody}

\* The same of the processor's own; those of RISC-V have no priority.
Internal(c) ==
    {i \in pend[c] : i \in en[c] /\ (ctl = "plic" \/ i \in prio[c])}

\* The processor leaves its program; interrupts are masked until it returns.
\* On RISC-V scause says of its own interrupts which one it is.
Take(c) ==
    /\ intr[c].pc = "no"
    /\ \/ /\ External(c) # {} \/ (ctl # "plic" /\ Internal(c) # {})
          /\ intr' = [intr EXCEPT ![c].pc = "ack"]
       \/ /\ ctl = "plic"
          /\ \E i \in Internal(c) : intr' = [intr EXCEPT ![c] = [pc |-> "run", id |-> i]]
    /\ UNCHANGED <<pend, act, letter, owed, raised>>

\* Mutant of Acknowledge: completed before the handler runs.
AcknowledgeAndEnd(c) ==
    /\ intr[c].pc = "ack"
    /\ \E i \in External(c) \cup (IF ctl = "plic" THEN {} ELSE Internal(c)) :
         LET b == IF i \in Shared THEN Dist ELSE c IN
         /\ intr' = [intr EXCEPT ![c] = [pc |-> "run", id |-> i]]
         /\ pend' = [pend EXCEPT ![b] = @ \ {i}]
         /\ act' = act
    /\ UNCHANGED <<letter, owed, raised>>

\* IAR and claim give an interrupt's number ...
Acknowledge(c) ==
    /\ intr[c].pc = "ack"
    /\ \E i \in External(c) \cup (IF ctl = "plic" THEN {} ELSE Internal(c)) :
         LET b == IF i \in Shared THEN Dist ELSE c IN
         /\ intr' = [intr EXCEPT ![c] = [pc |-> "run", id |-> i]]
         /\ pend' = [pend EXCEPT ![b] = @ \ {i}]
         /\ act' = IF i \in Shared THEN [act EXCEPT ![i] = c] ELSE act
    /\ UNCHANGED <<letter, owed, raised>>

\* ... or, if another processor was faster, 1023 and 0: nothing to do.
Spurious(c) ==
    /\ intr[c].pc = "ack"
    /\ External(c) = {} /\ (ctl = "plic" \/ Internal(c) = {})
    /\ intr' = [intr EXCEPT ![c].pc = "no"]
    /\ UNCHANGED <<pend, act, letter, owed, raised>>

\* irq_handle(): the handler, if there is one, reads the letter, sets the
\* timer anew, or does what the device wants.
Handle(c) ==
    LET i == intr[c].id IN
    /\ intr[c].pc = "run"
    /\ intr' = [intr EXCEPT ![c].pc = "end"]
    /\ letter' = IF i # Ipi \/ letter[c] = "none" THEN letter
                 ELSE [letter EXCEPT ![c] = IF i \in table THEN "none"
                                            ELSE "dropped"]
    /\ owed' = IF i \in table THEN owed \ {i} ELSE owed
    /\ pend' = IF i = Timer /\ i \in table
               THEN [pend EXCEPT ![c] = @ \ {Timer}] ELSE pend
    /\ UNCHANGED <<act, raised>>

\* Mutant of Complete: whatever is not a device's clears SSIP.
CompleteClears(c) ==
    LET i == intr[c].id IN
    /\ intr[c].pc = "end"
    /\ act' = IF i \in Shared THEN [act EXCEPT ![i] = Nobody] ELSE act
    /\ pend' = IF ctl = "plic" /\ i \in Private
               THEN [pend EXCEPT ![c] = @ \ {Ipi}] ELSE pend
    /\ intr' = [intr EXCEPT ![c] = [pc |-> "no", id |-> None]]
    /\ UNCHANGED <<letter, owed, raised>>

\* EOIR and complete take the number back; exception_handler() clears SSIP
\* after the handler of an IPI.
Complete(c) ==
    LET i == intr[c].id IN
    /\ intr[c].pc = "end"
    /\ act' = IF i \in Shared THEN [act EXCEPT ![i] = Nobody] ELSE act
    /\ pend' = IF ctl = "plic" /\ i = Ipi
               THEN [pend EXCEPT ![c] = @ \ {Ipi}] ELSE pend
    /\ intr' = [intr EXCEPT ![c] = [pc |-> "no", id |-> None]]
    /\ UNCHANGED <<letter, owed, raised>>

Program(c) ==
    \/ Access(c) /\ UNCHANGED irqs
    \/ Post(c) \/ SendSgi(c) \/ SbiSendIpi(c)

Handler(c) == Acknowledge(c) \/ Spurious(c) \/ Handle(c) \/ Complete(c)

\* SAVE_REGS reserves 22 words and stores x29 and x30 at the 28th: in the
\* frame of the function that was interrupted, or of one of its callers.
\* If they held anything, that is gone when RESTORE_REGS and eret resume it.
SaveRegs ==
    \/ spoiled' = spoiled
    \/ /\ ctl # "plic"
       /\ \E c \in Cpus : intr[c].pc # "no" /\ intr'[c].pc = "no"
       /\ spoiled' = TRUE

Next ==
    /\ ~spoiled
    /\ UNCHANGED ctl
    /\ \/ \E c \in Cpus : Program(c)
       \/ /\ UNCHANGED calls
          /\ \/ \E i \in Shared : Raise(i)
             \/ \E c \in Cpus : Tick(c) \/ Take(c) \/ Handler(c)
    /\ SaveRegs

Spec == Init /\ [][Next]_vars

\* Processors run, and take an interrupt that stays.
FairSpec ==
    /\ Spec
    /\ \A c \in Cpus :
         /\ WF_vars(~spoiled /\ Program(c) /\ UNCHANGED <<ctl, spoiled>>)
         /\ WF_vars(~spoiled /\ Take(c) /\ UNCHANGED <<ctl, calls, spoiled>>)
         /\ WF_vars(~spoiled /\ Handler(c) /\ SaveRegs /\ UNCHANGED <<ctl, calls>>)

-----------------------------------------------------------------------------
(* Properties.                                                             *)

TypeOK ==
    /\ ctl \in Ctls
    /\ holder \in [{"gicd_lock", "gicr_lock"} -> Cpus \cup {Nobody}]
    /\ table \subseteq Ids
    /\ en \in [Cpus \cup {Dist} -> SUBSET Ids]
    /\ prio \in [Cpus \cup {Dist} -> SUBSET Ids]
    /\ trgt \in [Shared -> SUBSET Cpus]
    /\ pend \in [Cpus \cup {Dist} -> SUBSET Ids]
    /\ act \in [Shared -> Cpus \cup {Nobody}]
    /\ intr \in [Cpus -> [pc : {"no", "ack", "run", "end"}, id : Ids \cup {None}]]
    /\ letter \in [Cpus -> {"none", "posted", "sent", "late", "dropped"}]
    /\ owed \subseteq Shared /\ raised \in 0 .. MaxRaises /\ spoiled \in BOOLEAN

\* Number 32 is a device's, but gicv3.c takes it for a private one.
Unreachable(i) == ctl = "gicv3" /\ ~InGicd(i)

Asks(c, i) ==
    \/ <<"enable", i>> \in done[c]
    \/ \E n \in DOMAIN todo[c] : todo[c][n] = <<"enable", i>>

\* When irq_enable() and irq_set_prio() have returned, a device's interrupt
\* has its priority and goes to a processor that asked for it - to this one,
\* if no other asks for the same - whatever calls for its neighbours in the
\* same registers came between.  (Two that ask for the same may lose one of
\* the two, for irq_enable() reads the targets outside the lock.)
SettingsStick ==
    \A c \in Cpus, i \in Shared : ~Unreachable(i) =>
        /\ <<"prio", i>> \in done[c] => i \in prio[Dist]
        /\ <<"enable", i>> \in done[c] =>
             /\ \E d \in Cpus : Asks(d, i) /\ Listens(d, i)
             /\ (\A d \in Cpus \ {c} : ~Asks(d, i)) => Listens(c, i)

\* No interrupt of a device is in the hands of two processors, though it
\* is sent to both of them and may come again while it is handled.
OneHandler ==
    \A c, d \in Cpus :
        /\ intr[c].pc \in {"run", "end"} /\ intr[c].id \in Shared
        /\ intr[d].pc \in {"run", "end"} /\ intr[d].id = intr[c].id
        => c = d

\* What irq_handle(), which drops an interrupt without a handler, asks of the
\* callers: in the plans, whoever enables i has registered its handler.
RegistersFirst(i) ==
    \A p \in Plans, c \in Cpus : \A n \in DOMAIN p[c] :
        p[c][n] = <<"enable", i>> =>
            \E m \in 1 .. n - 1 : p[c][m] = <<"handler", i>>

\* Who is sent an IPI will read what it is for; on RISC-V unless it comes
\* between the handler of another one and its end.  It is dropped only where
\* enabling number 32 of a GICv3 has enabled IPIs that have no handler yet.
SignalsSeen ==
    \A d \in Cpus :
        /\ letter[d] = "sent" =>
              Ipi \in pend[d] \/ intr[d] = [pc |-> "run", id |-> Ipi]
        /\ letter[d] = "dropped" => ctl = "gicv3" /\ Asks(d, 32)

\* An interrupt of a device that some processor sets up is handled: the
\* calls return, no lock is kept, none that is acknowledged stays so - unless
\* an interrupt spoils somebody's stack first.
Handled ==
    \A i \in Shared :
        (i \in owed /\ ~Unreachable(i) /\ \E c \in Cpus : Asks(c, i))
            ~> (i \notin owed \/ spoiled)
=============================================================================
