---------------------------- MODULE HartStart ----------------------------
(***************************************************************************)
(* How the harts of the interference guest come up on RISC-V.  The         *)
(* hypervisor starts one of them; it becomes the primary hart in _start    *)
(* and clears .bss.  arch_init() then runs on EVERY hart, the primary one  *)
(* and those it started, and calls sbi_hart_start() for 0, 1, 2, ... until *)
(* a call fails: the harts overtake each other in this loop.               *)
(*                                                                         *)
(* The hypervisor's hart state management is external: it starts a hart    *)
(* that is stopped, after everything its caller has stored, and fails for  *)
(* one that is started or does not exist.                                  *)
(***************************************************************************)
EXTENDS Naturals

CONSTANTS
    NumHarts,  \* the harts of the guest
    Firsts,    \* the harts the hypervisor may start first
    Words      \* the words of .bss, init_lock among them

ASSUME HartStartAssumption ==
    /\ NumHarts \in Nat \ {0}
    /\ Firsts \subseteq 0 .. NumHarts - 1
    /\ "init_lock" \in Words

Harts == 0 .. NumHarts - 1

VARIABLES
    first,               \* the hart the hypervisor has started
    pc,                  \* pc[h]: where hart h is
    primary_hart_valid,
    primary_hart_ready,
    uncleared,           \* words the primary hart has still to clear
    init_lock,           \* the lock word, garbage before it is cleared
    i                    \* i[h]: the loop variable of arch_init() on h

vars == <<first, pc, primary_hart_valid, primary_hart_ready, uncleared,
          init_lock, i>>

Pcs == {"off", "start", "sc", "clear", "wait", "init", "init_unlock", "loop",
        "main"}

Goto(h, l) == pc' = [pc EXCEPT ![h] = l]

Init ==
    /\ first \in Firsts
    /\ pc = [h \in Harts |-> IF h = first THEN "start" ELSE "off"]
    /\ primary_hart_valid = FALSE /\ primary_hart_ready = FALSE
    /\ uncleared = Words /\ init_lock \in {0, 1}
    /\ i = [h \in Harts |-> 0]

-----------------------------------------------------------------------------
(* _start                                                                  *)

\* lr.w t2, (t0); bnez t2, skip
LoadReserved(h) ==
    /\ pc[h] = "start"
    /\ Goto(h, IF primary_hart_valid THEN "wait" ELSE "sc")
    /\ UNCHANGED <<first, primary_hart_valid, primary_hart_ready, uncleared,
                   init_lock, i>>

\* sc.w t2, t1, (t0).  No other hart stores to the word meanwhile ...
StoreConditional(h) ==
    /\ pc[h] = "sc"
    /\ primary_hart_valid' = TRUE
    /\ Goto(h, "clear")
    /\ UNCHANGED <<first, primary_hart_ready, uncleared, init_lock, i>>

\* ... but the store may fail all the same: bnez t2, 1b.
StoreConditionalFails(h) ==
    /\ pc[h] = "sc"
    /\ Goto(h, "start")
    /\ UNCHANGED <<first, primary_hart_valid, primary_hart_ready, uncleared,
                   init_lock, i>>

\* One turn of the loop that clears .bss.
ClearWord(h) ==
    /\ pc[h] = "clear"
    /\ \E w \in uncleared :
          /\ uncleared' = uncleared \ {w}
          /\ init_lock' = IF w = "init_lock" THEN 0 ELSE init_lock
    /\ UNCHANGED <<first, pc, primary_hart_valid, primary_hart_ready, i>>

\* Mutant of Ready: the flag is raised before the loop is over.
ReadyEarly(h) ==
    /\ pc[h] = "clear"
    /\ primary_hart_ready' = TRUE
    /\ Goto(h, "wait")
    /\ UNCHANGED <<first, primary_hart_valid, uncleared, init_lock, i>>

\* sw t1, primary_hart_ready
Ready(h) ==
    /\ pc[h] = "clear" /\ uncleared = {}
    /\ primary_hart_ready' = TRUE
    /\ Goto(h, "wait")
    /\ UNCHANGED <<first, primary_hart_valid, uncleared, init_lock, i>>

\* lw t1, primary_hart_ready; beqz t1, 1b
PassReady(h) ==
    /\ pc[h] = "wait" /\ primary_hart_ready
    /\ Goto(h, "init")
    /\ UNCHANGED <<first, primary_hart_valid, primary_hart_ready, uncleared,
                   init_lock, i>>

-----------------------------------------------------------------------------
(* _init and arch_init                                                     *)

\* spin_lock(&init_lock)
InitLock(h) ==
    /\ pc[h] = "init" /\ init_lock = 0
    /\ init_lock' = 1
    /\ Goto(h, "init_unlock")
    /\ UNCHANGED <<first, primary_hart_valid, primary_hart_ready, uncleared, i>>

\* Mutant of InitUnlock: the loop starts behind the hart's own number, as it
\* does on Armv8.
InitUnlockAhead(h) ==
    /\ pc[h] = "init_unlock"
    /\ init_lock' = 0
    /\ i' = [i EXCEPT ![h] = h + 1]
    /\ Goto(h, "loop")
    /\ UNCHANGED <<first, primary_hart_valid, primary_hart_ready, uncleared>>

\* spin_unlock(&init_lock), and size_t i = 0 in arch_init().
InitUnlock(h) ==
    /\ pc[h] = "init_unlock"
    /\ init_lock' = 0
    /\ i' = [i EXCEPT ![h] = 0]
    /\ Goto(h, "loop")
    /\ UNCHANGED <<first, primary_hart_valid, primary_hart_ready, uncleared>>

\* Mutant of SkipOwn: break in place of continue.
SkipOwnBreaks(h) ==
    /\ pc[h] = "loop" /\ i[h] = h
    /\ Goto(h, "main")
    /\ UNCHANGED <<first, primary_hart_valid, primary_hart_ready, uncleared,
                   init_lock, i>>

\* if (i == hart_id) continue;  it goes on to the loop's condition, where
\* ret is still SBI_SUCCESS, and i++.
SkipOwn(h) ==
    /\ pc[h] = "loop" /\ i[h] = h
    /\ i' = [i EXCEPT ![h] = @ + 1]
    /\ UNCHANGED <<first, pc, primary_hart_valid, primary_hart_ready, uncleared,
                   init_lock>>

\* Mutant of StartHart: i advances twice a turn.
StartHartSkips(h) ==
    /\ pc[h] = "loop" /\ i[h] # h
    /\ i[h] \in Harts /\ pc[i[h]] = "off"
    /\ Goto(i[h], "start")
    /\ i' = [i EXCEPT ![h] = @ + 2]
    /\ UNCHANGED <<first, primary_hart_valid, primary_hart_ready, uncleared,
                   init_lock>>

\* sbi_hart_start(i) starts a hart that is stopped.
StartHart(h) ==
    /\ pc[h] = "loop" /\ i[h] # h
    /\ i[h] \in Harts /\ pc[i[h]] = "off"
    /\ Goto(i[h], "start")
    /\ i' = [i EXCEPT ![h] = @ + 1]
    /\ UNCHANGED <<first, primary_hart_valid, primary_hart_ready, uncleared,
                   init_lock>>

\* It fails, the loop ends, and plic_init() and main() follow.
StartHartFails(h) ==
    /\ pc[h] = "loop" /\ i[h] # h
    /\ i[h] \in Harts => pc[i[h]] # "off"
    /\ Goto(h, "main")
    /\ UNCHANGED <<first, primary_hart_valid, primary_hart_ready, uncleared,
                   init_lock, i>>

-----------------------------------------------------------------------------
Step(h) ==
    \/ LoadReserved(h) \/ StoreConditional(h) \/ StoreConditionalFails(h)
    \/ ClearWord(h) \/ Ready(h) \/ PassReady(h)
    \/ InitLock(h) \/ InitUnlock(h)
    \/ SkipOwn(h) \/ StartHart(h) \/ StartHartFails(h)

Next == \E h \in Harts : Step(h)

Spec == Init /\ [][Next]_vars

(* A hart that is on runs; the store-conditional and the spin lock, tried  *)
(* again and again, succeed in the end.                                    *)
Fairness ==
    \A h \in Harts :
        WF_vars(Step(h)) /\ SF_vars(StoreConditional(h)) /\ SF_vars(InitLock(h))

FairSpec == Spec /\ Fairness

-----------------------------------------------------------------------------
(* Properties.                                                             *)

TypeOK ==
    /\ first \in Firsts
    /\ pc \in [Harts -> Pcs]
    /\ primary_hart_valid \in BOOLEAN /\ primary_hart_ready \in BOOLEAN
    /\ uncleared \subseteq Words /\ init_lock \in {0, 1}
    /\ i \in [Harts -> 0 .. NumHarts]

InC(h) == pc[h] \in {"init", "init_unlock", "loop", "main"}

\* init_lock protects init_done: it is cleared before any hart takes it, and
\* one hart holds it at a time.
LockKept ==
    /\ \A h \in Harts : InC(h) => uncleared = {}
    /\ \A g, h \in Harts : pc[g] = "init_unlock" /\ pc[h] = "init_unlock" => g = h

\* When the loops of all harts are over no hart has been left behind,
\* although each hart runs the loop and stops where another one is ahead.
NoneLeftBehind ==
    (\A h \in Harts : pc[h] \in {"off", "main"}) => \A h \in Harts : pc[h] = "main"

\* Every hart reaches main().
AllReachMain == <>(\A h \in Harts : pc[h] = "main")
=============================================================================
