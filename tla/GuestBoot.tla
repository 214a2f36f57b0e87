---------------------------- MODULE GuestBoot ----------------------------
(***************************************************************************)
(* How the processors of the bare-metal interference guest (Armv8) come    *)
(* up: _start in arch/armv8/start.S elects a master with a load-exclusive/ *)
(* store-exclusive pair, the master clears .bss and raises wait_flag, the  *)
(* others spin on it; then each runs _init, arch_init - where the master   *)
(* switches the others on through PSCI - and main, which takes a ticket    *)
(* for an interference buffer.                                             *)
(*                                                                         *)
(* The spin locks are taken in one step here; SpinLock shows that the      *)
(* code's spin_lock() does that.  The hypervisor's PSCI calls are external.*)
(***************************************************************************)
EXTENDS Naturals

CONSTANTS
    NumCpus,   \* the processors Bao gives the guest
    NumBufs,   \* NUM_CPUS of main.c: the interference buffers
    Boots      \* the ways to boot, see how

ASSUME GuestBootAssumption ==
    /\ NumCpus \in Nat \ {0} /\ NumBufs \in Nat
    /\ Boots \subseteq [together : BOOLEAN, reorders : BOOLEAN]

Cpus  == 0 .. NumCpus - 1
Words == {"init_lock", "init_done", "print_lock", "ticket"}   \* in .bss
Flags == {"master_cpu", "wait_flag"}                          \* in .data
NoCpu == NumCpus                                              \* no processor

VARIABLES
    how,            \* how.together: all processors enter _start, else only
                    \* processor 0 does and the others wait for PSCI_CPU_ON;
                    \* how.reorders: the master's plain stores may become
                    \* visible out of order
    pc,             \* pc[c]: where processor c is
    master_cpu_set, \* the word the election is about
    monitor,        \* monitor[c]: c's exclusive monitor is armed for it
    mem,            \* the words of .bss and .data as the other processors
                    \* read them
    pending,        \* stores of the master that are not visible yet
    uncleared,      \* words the master's clear loop has still to store
    gicd,           \* the interrupt distributor is initialised
    on_next,        \* i in the loop over psci_cpu_on
    buf_index       \* buf_index[c]: the ticket of c

vars == <<how, pc, master_cpu_set, monitor, mem, pending, uncleared, gicd,
          on_next, buf_index>>

Pcs == {"off", "ldaxr", "stlxr", "master", "clear", "flag", "wait", "init",
        "init_unlock", "gic", "psci", "main", "main_unlock", "loop", "exit"}

Goto(c, l) == pc' = [pc EXCEPT ![c] = l]

\* .bss is not part of the image: its words are whatever the memory held.
\* .data is: master_cpu and wait_flag are 0.
Init ==
    /\ how \in Boots
    /\ pc = [c \in Cpus |-> IF how.together \/ c = 0 THEN "ldaxr" ELSE "off"]
    /\ master_cpu_set = FALSE
    /\ monitor = [c \in Cpus |-> FALSE]
    /\ \E garbage \in [Words -> {0, 1}] :
          mem = [x \in Words \cup Flags |->
                   IF x \in Words THEN garbage[x] ELSE 0]
    /\ pending = {} /\ uncleared = Words
    /\ gicd = FALSE /\ on_next = 0
    /\ buf_index = [c \in Cpus |-> NumCpus]

-----------------------------------------------------------------------------
(* Memory.                                                                 *)

\* What the master stores to x in _start: its own id, zeros, and one.
Stored(x, c) == CASE x = "master_cpu" -> c [] x = "wait_flag" -> 1 [] OTHER -> 0

\* A plain store of the master.
Store(x, c) ==
    IF how.reorders
      THEN pending' = pending \cup {<<x, c>>} /\ UNCHANGED mem
      ELSE mem' = [mem EXCEPT ![x] = Stored(x, c)] /\ UNCHANGED pending

Drain ==
    \E p \in pending :
        /\ pending' = pending \ {p}
        /\ mem' = [mem EXCEPT ![p[1]] = Stored(p[1], p[2])]
        /\ UNCHANGED <<how, pc, master_cpu_set, monitor, uncleared, gicd,
                       on_next,
                       buf_index>>

\* A processor's own earlier store to x comes before its later access to x.
Settled(x, c) == <<x, c>> \notin pending

-----------------------------------------------------------------------------
(* _start                                                                  *)

\* ldaxr x3, [x1]; cbnz x3, skip
LoadExclusive(c) ==
    /\ pc[c] = "ldaxr"
    /\ monitor' = [monitor EXCEPT ![c] = TRUE]
    /\ Goto(c, IF master_cpu_set THEN "wait" ELSE "stlxr")
    /\ UNCHANGED <<how, master_cpu_set, mem, pending, uncleared, gicd,
                   on_next, buf_index>>

\* Mutant of StoreExclusive: a plain store, which needs no monitor.
StorePlain(c) ==
    /\ pc[c] = "stlxr"
    /\ master_cpu_set' = TRUE
    /\ monitor' = [d \in Cpus |-> FALSE]
    /\ Goto(c, "master")
    /\ UNCHANGED <<how, mem, pending, uncleared, gicd, on_next, buf_index>>

\* stlxr w3, x2, [x1] stores when the monitor is armed, and disarms all.
StoreExclusive(c) ==
    /\ pc[c] = "stlxr" /\ monitor[c]
    /\ master_cpu_set' = TRUE
    /\ monitor' = [d \in Cpus |-> FALSE]
    /\ Goto(c, "master")
    /\ UNCHANGED <<how, mem, pending, uncleared, gicd, on_next, buf_index>>

\* stlxr may fail, with or without a reason: cbnz w3, 1b.
StoreExclusiveFails(c) ==
    /\ pc[c] = "stlxr"
    /\ monitor' = [monitor EXCEPT ![c] = FALSE]
    /\ Goto(c, "ldaxr")
    /\ UNCHANGED <<how, master_cpu_set, mem, pending, uncleared, gicd,
                   on_next, buf_index>>

\* str x0, [master_cpu]
StoreMaster(c) ==
    /\ pc[c] = "master"
    /\ Store("master_cpu", c)
    /\ Goto(c, "clear")
    /\ UNCHANGED <<how, master_cpu_set, monitor, uncleared, gicd, on_next,
                   buf_index>>

\* One turn of the loop in clear.
ClearWord(c) ==
    /\ pc[c] = "clear"
    /\ \E w \in uncleared : Store(w, c) /\ uncleared' = uncleared \ {w}
    /\ UNCHANGED <<how, pc, master_cpu_set, monitor, gicd, on_next, buf_index>>

\* Mutant of ClearDone: the loop ends one word early.
ClearStopsEarly(c) ==
    /\ pc[c] = "clear" /\ \A v, w \in uncleared : v = w
    /\ Goto(c, "flag")
    /\ UNCHANGED <<how, master_cpu_set, monitor, mem, pending, uncleared, gicd,
                   on_next, buf_index>>

ClearDone(c) ==
    /\ pc[c] = "clear" /\ uncleared = {}
    /\ Goto(c, "flag")
    /\ UNCHANGED <<how, master_cpu_set, monitor, mem, pending, uncleared, gicd,
                   on_next, buf_index>>

\* str x2, [wait_flag]
RaiseFlag(c) ==
    /\ pc[c] = "flag"
    /\ Store("wait_flag", c)
    /\ Goto(c, "wait")
    /\ UNCHANGED <<how, master_cpu_set, monitor, uncleared, gicd, on_next,
                   buf_index>>

\* ldr x2, [wait_flag]; cbz x2, 1b; then the stack is set and _init entered.
PassFlag(c) ==
    /\ pc[c] = "wait"
    /\ mem["wait_flag"] = 1 \/ ~Settled("wait_flag", c)
    /\ Goto(c, "init")
    /\ UNCHANGED <<how, master_cpu_set, monitor, mem, pending, uncleared, gicd,
                   on_next, buf_index>>

-----------------------------------------------------------------------------
(* _init and arch_init                                                     *)

\* spin_lock(&init_lock); if (!init_done) init_done = true;
InitLock(c) ==
    /\ pc[c] = "init" /\ mem["init_lock"] = 0
    /\ Settled("init_lock", c) /\ Settled("init_done", c)
    /\ mem' = [mem EXCEPT !["init_lock"] = 1, !["init_done"] = 1]
    /\ Goto(c, "init_unlock")
    /\ UNCHANGED <<how, master_cpu_set, monitor, pending, uncleared, gicd,
                   on_next, buf_index>>

InitUnlock(c) ==
    /\ pc[c] = "init_unlock"
    /\ mem' = [mem EXCEPT !["init_lock"] = 0]
    /\ Goto(c, "gic")
    /\ UNCHANGED <<how, master_cpu_set, monitor, pending, uncleared, gicd,
                   on_next, buf_index>>

\* Mutant of GicInit: psci_cpu_on() before gic_init() is over.
GicInitLate(c) ==
    /\ pc[c] = "gic"
    /\ gicd' = gicd
    /\ IF mem["master_cpu"] = c /\ Settled("master_cpu", c)
         THEN Goto(c, "psci") /\ on_next' = c + 1
         ELSE Goto(c, "main") /\ UNCHANGED on_next
    /\ UNCHANGED <<how, master_cpu_set, monitor, mem, pending, uncleared,
                   buf_index>>

\* gic_init(): processor 0 initialises the distributor; then
\* cpu_is_master(), where i = cpuid + 1.
GicInit(c) ==
    /\ pc[c] = "gic"
    /\ gicd' = (gicd \/ c = 0)
    /\ IF mem["master_cpu"] = c \/ ~Settled("master_cpu", c)
         THEN Goto(c, "psci") /\ on_next' = c + 1
         ELSE Goto(c, "main") /\ UNCHANGED on_next
    /\ UNCHANGED <<how, master_cpu_set, monitor, mem, pending, uncleared,
                   buf_index>>

\* Mutant of CpuOn: i advances twice a turn.
CpuOnSkips(c) ==
    /\ pc[c] = "psci" /\ pending = {}
    /\ on_next \in Cpus /\ pc[on_next] = "off"
    /\ pc' = [pc EXCEPT ![on_next] = "ldaxr"]
    /\ on_next' = on_next + 2
    /\ UNCHANGED <<how, master_cpu_set, monitor, mem, pending, uncleared,
                   gicd, buf_index>>

\* psci_cpu_on(i) switches a processor on that is off.  The hypervisor call
\* orders the master's stores before it.
CpuOn(c) ==
    /\ pc[c] = "psci" /\ pending = {}
    /\ on_next \in Cpus /\ pc[on_next] = "off"
    /\ pc' = [pc EXCEPT ![on_next] = "ldaxr"]
    /\ on_next' = on_next + 1
    /\ UNCHANGED <<how, master_cpu_set, monitor, mem, pending, uncleared,
                   gicd, buf_index>>

\* It returns an error when there is no such processor or it is on already,
\* and the loop ends.
CpuOnFails(c) ==
    /\ pc[c] = "psci" /\ pending = {}
    /\ on_next \in Cpus => pc[on_next] # "off"
    /\ Goto(c, "main")
    /\ UNCHANGED <<how, master_cpu_set, monitor, mem, pending, uncleared, gicd,
                   on_next, buf_index>>

-----------------------------------------------------------------------------
(* main                                                                    *)

\* Mutant of MainLock: the lock is not taken, so another processor may read
\* the ticket before it is written back.
MainNoLock(c) ==
    /\ pc[c] = "main"
    /\ Settled("print_lock", c) /\ Settled("ticket", c)
    /\ buf_index' = [buf_index EXCEPT ![c] = mem["ticket"]]
    /\ Goto(c, "main_unlock")
    /\ UNCHANGED <<how, master_cpu_set, monitor, mem, pending, uncleared,
                   gicd, on_next>>

\* spin_lock(&print_lock); buf_index = buf_index_ticket;
MainLock(c) ==
    /\ pc[c] = "main" /\ mem["print_lock"] = 0
    /\ Settled("print_lock", c) /\ Settled("ticket", c)
    /\ mem' = [mem EXCEPT !["print_lock"] = 1]
    /\ buf_index' = [buf_index EXCEPT ![c] = mem["ticket"]]
    /\ Goto(c, "main_unlock")
    /\ UNCHANGED <<how, master_cpu_set, monitor, pending, uncleared, gicd,
                   on_next>>

\* Mutant of MainUnlock: a processor that gets no buffer returns from main
\* with the lock.
MainExitsLocked(c) ==
    /\ pc[c] = "main_unlock"
    /\ LET over == buf_index[c] >= NumBufs IN
        /\ mem' = [mem EXCEPT !["ticket"] = @ + 1, !["print_lock"] = IF over THEN 1 ELSE 0]
        /\ Goto(c, IF over THEN "exit" ELSE "loop")
    /\ UNCHANGED <<how, master_cpu_set, monitor, pending, uncleared, gicd,
                   on_next, buf_index>>

\* buf_index_ticket += 1; spin_unlock(&print_lock); with no buffer left main
\* returns and the processor sleeps in _exit.
MainUnlock(c) ==
    /\ pc[c] = "main_unlock"
    /\ mem' = [mem EXCEPT !["ticket"] = @ + 1, !["print_lock"] = 0]
    /\ Goto(c, IF buf_index[c] >= NumBufs THEN "exit" ELSE "loop")
    /\ UNCHANGED <<how, master_cpu_set, monitor, pending, uncleared, gicd,
                   on_next, buf_index>>

-----------------------------------------------------------------------------
Step(c) ==
    \/ LoadExclusive(c) \/ StoreExclusive(c) \/ StoreExclusiveFails(c)
    \/ StoreMaster(c) \/ ClearWord(c) \/ ClearDone(c) \/ RaiseFlag(c)
    \/ PassFlag(c) \/ InitLock(c) \/ InitUnlock(c) \/ GicInit(c)
    \/ CpuOn(c) \/ CpuOnFails(c) \/ MainLock(c) \/ MainUnlock(c)

Next == Drain \/ \E c \in Cpus : Step(c)

Spec == Init /\ [][Next]_vars

(* Processors run, stores become visible, and a store-exclusive that is    *)
(* possible again and again succeeds; spin locks are strongly fair because *)
(* each is held for a few instructions once per processor.                 *)
Fairness ==
    /\ WF_vars(Drain)
    /\ \A c \in Cpus :
          WF_vars(Step(c)) /\ SF_vars(StoreExclusive(c))
            /\ SF_vars(InitLock(c) \/ MainLock(c))

FairSpec == Spec /\ Fairness

-----------------------------------------------------------------------------
(* Properties.                                                             *)

TypeOK ==
    /\ how \in Boots
    /\ pc \in [Cpus -> Pcs]
    /\ master_cpu_set \in BOOLEAN
    /\ monitor \in [Cpus -> BOOLEAN]
    /\ mem \in [Words \cup Flags -> Nat]
    /\ pending \subseteq (Words \cup Flags) \X Cpus
    /\ uncleared \subseteq Words
    /\ gicd \in BOOLEAN
    /\ on_next \in 0 .. NumCpus
    /\ buf_index \in [Cpus -> Nat]

InC(c)    == pc[c] \in {"init", "init_unlock", "gic", "psci", "main",
                        "main_unlock", "loop", "exit"}
Cleared   == uncleared = {} /\ \A w \in Words, c \in Cpus : Settled(w, c)

\* One processor at most is the master while .bss is being prepared: the
\* election lets one through, whatever the store-exclusives do.
OneMaster ==
    \A c, d \in Cpus :
        /\ pc[c] \in {"master", "clear", "flag"}
        /\ pc[d] \in {"master", "clear", "flag"} \/ InC(d)
        => c = d

\* No processor but the master runs C code before .bss is zero for all to
\* see; a lock word that still holds garbage, or is cleared while it is
\* held, would stop the guest or break its locks.
CleanStart == \A c \in Cpus : InC(c) /\ mem["master_cpu"] # c => Cleared

\* The processors that run in the interference loop have each a buffer of
\* their own, and it exists.
OwnBuffer ==
    \A c, d \in Cpus : pc[c] = "loop" =>
        /\ buf_index[c] < NumBufs
        /\ c # d /\ pc[d] = "loop" => buf_index[c] # buf_index[d]

\* A processor in main can take interrupts: the distributor is initialised,
\* if processor 0 is the one that starts the others.
DistributorReady ==
    ~how.together => \A c \in Cpus : pc[c] \in {"main", "main_unlock", "loop",
                                             "exit"} => gicd

\* Every processor the hypervisor gave the guest ends in the loop or asleep.
AllUp == <>(\A c \in Cpus : pc[c] \in {"loop", "exit"})
=============================================================================
