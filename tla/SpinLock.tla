---------------------------- MODULE SpinLock ----------------------------
(***************************************************************************)
(* spin_lock() and spin_unlock() of the interference guest, instruction by *)
(* instruction: ldaxr/cbnz/stxr/cbnz and stlr on Armv8, lr.w.aq/bne/       *)
(* sc.w.rl/bne and sw/fence on RISC-V, around a word that the lock is to   *)
(* protect.                                                                *)
(*                                                                         *)
(* monitor[c] is c's reservation on the lock word.  A store to the word by *)
(* another processor takes it away; a store-exclusive may also fail for no *)
(* reason visible here (an interrupt, an eviction).  Plain stores wait in  *)
(* buffer[c] until the others see them.                                    *)
(***************************************************************************)
EXTENDS Naturals

CONSTANTS
    Cpus,    \* the processors that share the lock
    Nobody   \* no processor

ASSUME SpinLockAssumption == Nobody \notin Cpus

VARIABLES
    arch,     \* the architecture
    pc,       \* pc[c]: the instruction c is at
    tmp,      \* tmp[c]: register %0
    monitor,  \* monitor[c]: c's reservation is valid
    lock,     \* the lock word
    buffer,   \* buffer[c]: stores of c that nobody else sees yet
    data,     \* the protected word, which says who wrote it
    last      \* who was the last to write it

word == <<buffer, data, last>>
vars == <<arch, pc, tmp, monitor, lock, word>>

Pcs == {"out", "load", "test", "store", "retry", "in", "unlock", "fence"}

Goto(c, l) == pc' = [pc EXCEPT ![c] = l]

\* SPINLOCK_INITVAL
Init ==
    /\ arch \in {"armv8", "riscv"}
    /\ pc = [c \in Cpus |-> "out"]
    /\ tmp = [c \in Cpus |-> 0]
    /\ monitor = [c \in Cpus |-> FALSE]
    /\ lock = 0
    /\ buffer = [c \in Cpus |-> {}]
    /\ data = Nobody
    /\ last = Nobody

\* spin_lock() is called.
Call(c) == pc[c] = "out" /\ Goto(c, "load") /\ UNCHANGED <<tmp, monitor, lock>>

\* 1: ldaxr %w0, %1
Load(c) ==
    /\ pc[c] = "load"
    /\ tmp' = [tmp EXCEPT ![c] = lock]
    /\ monitor' = [monitor EXCEPT ![c] = TRUE]
    /\ Goto(c, "test")
    /\ UNCHANGED lock

\* cbnz %w0, 1b
Test(c) ==
    /\ pc[c] = "test"
    /\ Goto(c, IF tmp[c] # 0 THEN "load" ELSE "store")
    /\ UNCHANGED <<tmp, monitor, lock>>

\* Mutant of StoreSucceeds: a plain store.
StoreAlways(c) ==
    /\ pc[c] = "store"
    /\ lock' = 1
    /\ monitor' = [d \in Cpus |-> FALSE]
    /\ tmp' = [tmp EXCEPT ![c] = 0]
    /\ Goto(c, "retry")

\* stxr %w0, %w2, %1: with a valid reservation the word becomes 1 and every
\* other reservation is gone ...
StoreSucceeds(c) ==
    /\ pc[c] = "store" /\ monitor[c]
    /\ lock' = 1
    /\ monitor' = [d \in Cpus |-> FALSE]
    /\ tmp' = [tmp EXCEPT ![c] = 0]
    /\ Goto(c, "retry")

\* ... otherwise, or for no reason, %w0 becomes 1.
StoreFails(c) ==
    /\ pc[c] = "store"
    /\ tmp' = [tmp EXCEPT ![c] = 1]
    /\ monitor' = [monitor EXCEPT ![c] = FALSE]
    /\ Goto(c, "retry")
    /\ UNCHANGED lock

\* Mutant of Retry: the result of the store is not looked at.
RetryNever(c) ==
    /\ pc[c] = "retry"
    /\ Goto(c, "in")
    /\ UNCHANGED <<tmp, monitor, lock>>

\* cbnz %w0, 1b
Retry(c) ==
    /\ pc[c] = "retry"
    /\ Goto(c, IF tmp[c] # 0 THEN "load" ELSE "in")
    /\ UNCHANGED <<tmp, monitor, lock>>

\* The caller writes the word.
Work(c) ==
    /\ pc[c] = "in"
    /\ last' = c
    /\ buffer' = [buffer EXCEPT ![c] = @ \cup {"data"}]
    /\ Goto(c, "unlock")
    /\ UNCHANGED <<tmp, monitor, lock, data>>

\* Mutant of Unlock: the lock word is not written.
UnlockForgotten(c) ==
    /\ pc[c] = "unlock"
    /\ Goto(c, "fence")
    /\ UNCHANGED <<tmp, monitor, lock, word>>

\* stlr wzr, %0 and sw zero, %0
Unlock(c) ==
    /\ pc[c] = "unlock"
    /\ buffer' = [buffer EXCEPT ![c] = @ \cup {"lock"}]
    /\ Goto(c, "fence")
    /\ UNCHANGED <<tmp, monitor, lock, data, last>>

\* The others see the word that c wrote ...
ShowData(c) ==
    /\ "data" \in buffer[c]
    /\ data' = c
    /\ buffer' = [buffer EXCEPT ![c] = @ \ {"data"}]
    /\ UNCHANGED <<pc, tmp, monitor, lock, last>>

\* Mutant of ShowLock: a plain store on Armv8, too.
ShowLockEarly(c) ==
    /\ "lock" \in buffer[c]
    /\ lock' = 0
    /\ monitor' = [d \in Cpus |-> monitor[d] /\ d = c]
    /\ buffer' = [buffer EXCEPT ![c] = @ \ {"lock"}]
    /\ UNCHANGED <<pc, tmp, data, last>>

\* ... and that the lock is free, after a store-release not before.
ShowLock(c) ==
    /\ "lock" \in buffer[c]
    /\ arch = "armv8" => "data" \notin buffer[c]
    /\ lock' = 0
    /\ monitor' = [d \in Cpus |-> monitor[d] /\ d = c]
    /\ buffer' = [buffer EXCEPT ![c] = @ \ {"lock"}]
    /\ UNCHANGED <<pc, tmp, data, last>>

\* fence rw, rw; on Armv8 the next ldaxr waits for the stlr as well.
Fence(c) ==
    /\ pc[c] = "fence" /\ buffer[c] = {}
    /\ Goto(c, "out")
    /\ UNCHANGED <<tmp, monitor, lock, word>>

Enter(c) ==
    Load(c) \/ Test(c) \/ StoreSucceeds(c) \/ StoreFails(c) \/ Retry(c)

Exit(c) ==
    Work(c) \/ Unlock(c) \/ ShowData(c) \/ ShowLock(c) \/ Fence(c)

Next ==
    /\ UNCHANGED arch
    /\ \E c \in Cpus : ((Call(c) \/ Enter(c)) /\ UNCHANGED word) \/ Exit(c)

Spec == Init /\ [][Next]_vars

(* A processor in spin_lock() executes its instructions and its critical   *)
(* section, its stores become visible, and its store-exclusive does not    *)
(* fail for ever while its reservation is valid: the architectures promise *)
(* this for such loops.                                                    *)
FairSpec ==
    Spec /\ \A c \in Cpus :
        /\ WF_vars(Enter(c) /\ UNCHANGED <<arch, word>>)
        /\ WF_vars(Exit(c) /\ UNCHANGED arch)
        /\ SF_vars(StoreSucceeds(c) /\ UNCHANGED <<arch, word>>)

-----------------------------------------------------------------------------
TypeOK ==
    /\ arch \in {"armv8", "riscv"}
    /\ pc \in [Cpus -> Pcs]
    /\ tmp \in [Cpus -> {0, 1}]
    /\ monitor \in [Cpus -> BOOLEAN]
    /\ lock \in {0, 1}
    /\ buffer \in [Cpus -> SUBSET {"data", "lock"}]
    /\ data \in Cpus \cup {Nobody} /\ last \in Cpus \cup {Nobody}

\* c has taken the lock, and nobody else sees it free yet.
Owns(c) ==
    \/ pc[c] \in {"in", "unlock"}
    \/ pc[c] = "retry" /\ tmp[c] = 0
    \/ pc[c] = "fence" /\ "lock" \in buffer[c]

\* One processor at most is past spin_lock() - two of them that both loaded
\* 0 do not both store - and on Armv8 it reads what the last one wrote.  (On
\* RISC-V it may not: the store that frees the lock is before the fence.)
LockProtects ==
    \A c \in Cpus : pc[c] = "in" =>
        /\ \A d \in Cpus : pc[d] = "in" => c = d
        /\ arch = "armv8" => data = last

\* The loop is a lock: its one step that takes effect takes a free lock, and
\* it is free for the others when they see it so.
Holder ==
    IF \E c \in Cpus : Owns(c) THEN CHOOSE c \in Cpus : Owns(c) ELSE Nobody

Service == INSTANCE LockService WITH holder <- Holder

ImplementsService == Service!Spec

\* While somebody spins somebody gets the lock (which of them is not said:
\* the lock is not fair).
SomebodyGetsIn ==
    (\E c \in Cpus : pc[c] = "load") ~> (\E c \in Cpus : pc[c] = "in")
=============================================================================
