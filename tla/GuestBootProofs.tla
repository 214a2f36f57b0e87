------------------------- MODULE GuestBootProofs -------------------------
(* GuestBoot for any number of processors and buffers.                     *)
EXTENDS GuestBoot, TLAPS

\* The master before it raises the flag.
Preparing(c) == pc[c] \in {"master", "clear", "flag"}

\* The flag is up, if only for the processor that raised it.
Raised == mem["wait_flag"] = 1 \/ \E c \in Cpus : ~Settled("wait_flag", c)

\* The election: nobody is past it before the word is set, and a processor
\* that may still set it finds it unset.
ElectionInv ==
    /\ ~master_cpu_set =>
          /\ \A c \in Cpus : pc[c] \in {"off", "ldaxr", "stlxr"}
          /\ pending = {} /\ mem["wait_flag"] = 0
    /\ \A c \in Cpus : pc[c] = "stlxr" /\ monitor[c] => ~master_cpu_set

\* While a master prepares .bss it is alone and the flag is down; the flag
\* goes up after the last word was cleared.
PrepareInv ==
    /\ \A c, d \in Cpus : Preparing(c) /\ Preparing(d) => c = d
    /\ \A c \in Cpus : Preparing(c) => ~Raised /\ \A d \in Cpus : ~InC(d)
    /\ \A c \in Cpus : InC(c) => uncleared = {}
    /\ \A c \in Cpus : pc[c] = "flag" => uncleared = {}
    /\ Raised => uncleared = {}

\* Stores that are not visible yet: none if stores are ordered; and if
\* processors are switched on by PSCI, none once a second one is on.
PendingInv ==
    /\ ~how.reorders => pending = {}
    /\ ~how.together => \A c \in Cpus : c # 0 /\ pc[c] # "off" =>
          pending = {} /\ master_cpu_set /\ \A d \in Cpus : ~Preparing(d)
    /\ ~how.together => mem["master_cpu"] = 0
    /\ ~how.together => \A p \in pending : p[2] = 0

BootInv == TypeOK /\ ElectionInv /\ PrepareInv /\ PendingInv

\* At reset the invariant holds: no processor has arrived anywhere.
LEMMA BootInit == Init => BootInv
<1> SUFFICES ASSUME Init PROVE BootInv
  OBVIOUS
<1> USE GuestBootAssumption
<1>1. PICK g \in [Words -> {0, 1}] :
        mem = [x \in Words \cup Flags |-> IF x \in Words THEN g[x] ELSE 0]
  BY DEF Init
<1>2. TypeOK
  <2>1. mem \in [Words \cup Flags -> Nat]
    BY <1>1
  <2>2. pc \in [Cpus -> Pcs] /\ monitor \in [Cpus -> BOOLEAN]
    BY DEF Init, Pcs
  <2>3. buf_index \in [Cpus -> Nat] /\ on_next \in 0 .. NumCpus
    BY DEF Init, Cpus
  <2> QED BY <2>1, <2>2, <2>3 DEF Init, TypeOK
<1>3. mem["wait_flag"] = 0 /\ mem["master_cpu"] = 0
  BY <1>1 DEF Words, Flags
<1> QED BY <1>2, <1>3 DEF Init, BootInv, TypeOK, ElectionInv, PrepareInv, PendingInv, Preparing,
      InC, Raised, Settled

\* Every step of a boot keeps the types.
LEMMA TypeStep == TypeOK /\ [Next]_vars => TypeOK'
<1> SUFFICES ASSUME TypeOK, [Next]_vars PROVE TypeOK'
  OBVIOUS
<1> USE GuestBootAssumption DEF TypeOK, Goto, Pcs
<1>1. CASE UNCHANGED vars
  BY <1>1 DEF vars
<1>2. ASSUME NEW c \in Cpus, Step(c) PROVE TypeOK'
  <2>1. CASE LoadExclusive(c)
    BY <2>1 DEF LoadExclusive
  <2>2. CASE StoreExclusive(c)
    BY <2>2 DEF StoreExclusive
  <2>3. CASE StoreExclusiveFails(c)
    BY <2>3 DEF StoreExclusiveFails
  <2>4. CASE StoreMaster(c)
    BY <2>4 DEF StoreMaster, Store, Stored, Cpus, Flags
  <2>5. CASE ClearWord(c)
    BY <2>5 DEF ClearWord, Store, Stored, Cpus, Flags
  <2>6. CASE ClearDone(c)
    BY <2>6 DEF ClearDone
  <2>7. CASE RaiseFlag(c)
    BY <2>7 DEF RaiseFlag, Store, Stored, Cpus, Flags
  <2>8. CASE PassFlag(c)
    BY <2>8 DEF PassFlag
  <2>9. CASE InitLock(c)
    BY <2>9 DEF InitLock
  <2>10. CASE InitUnlock(c)
    BY <2>10 DEF InitUnlock
  <2>11. CASE GicInit(c)
    BY <2>11 DEF GicInit, Cpus
  <2>12. CASE CpuOn(c)
    BY <2>12 DEF CpuOn, Cpus
  <2>13. CASE CpuOnFails(c)
    BY <2>13 DEF CpuOnFails
  <2>14. CASE MainLock(c)
    BY <2>14 DEF MainLock, Words, Flags
  <2>15. CASE MainUnlock(c)
    BY <2>15 DEF MainUnlock, Words, Flags
  <2> QED BY <1>2, <2>1, <2>2, <2>3, <2>4, <2>5, <2>6, <2>7, <2>8, <2>9, <2>10, <2>11, <2>12, <2>13, <2>14, <2>15
         DEF Step
<1>3. CASE Drain
  BY <1>3 DEF Drain, Stored, Cpus
<1> HIDE DEF TypeOK
<1> QED BY <1>1, <1>2, <1>3 DEF Next

\* Every step of a boot keeps the invariant.
LEMMA BootStep == BootInv /\ [Next]_vars => BootInv'
<1> SUFFICES ASSUME BootInv, [Next]_vars PROVE BootInv'
  OBVIOUS
<1> USE GuestBootAssumption
<1>t. TypeOK'
  BY TypeStep DEF BootInv
<1> DEFINE Rest == ElectionInv /\ PrepareInv /\ PendingInv
<1>a. /\ pc \in [Cpus -> Pcs] /\ monitor \in [Cpus -> BOOLEAN]
      /\ mem \in [Words \cup Flags -> Nat]
      /\ pending \subseteq (Words \cup Flags) \X Cpus
      /\ master_cpu_set \in BOOLEAN
      /\ {"wait_flag", "master_cpu"} \subseteq Words \cup Flags
      /\ "wait_flag" \notin Words /\ "master_cpu" \notin Words
      /\ ElectionInv /\ PrepareInv /\ PendingInv
  BY DEF BootInv, TypeOK, Words, Flags
<1> USE DEF ElectionInv, PrepareInv, PendingInv, Preparing, InC, Raised,
        Settled, Goto
<1>1. CASE UNCHANGED vars
  <2>1. Rest' BY <1>a, <1>1 DEF vars
  <2> QED BY <1>t, <2>1 DEF BootInv
<1>2. ASSUME NEW c \in Cpus, Step(c) PROVE Rest'
  <2>1. CASE LoadExclusive(c)
    <3>1. ElectionInv' BY <1>a, <2>1 DEF LoadExclusive
    <3>2. PrepareInv' BY <1>a, <2>1 DEF LoadExclusive
    <3>3. PendingInv' BY <1>a, <2>1 DEF LoadExclusive
    <3> QED BY <3>1, <3>2, <3>3
  <2>2. CASE StoreExclusive(c)
    <3>1. ElectionInv' BY <1>a, <2>2 DEF StoreExclusive
    <3>2. PrepareInv'
      <4>1. ~master_cpu_set BY <1>a, <2>2 DEF StoreExclusive
      <4>2. \A d \in Cpus : pc[d] \in {"off", "ldaxr", "stlxr"}
        BY <1>a, <4>1
      <4>4. mem["wait_flag"] = 0 /\ pending = {}
        BY <1>a, <4>1
      <4>3. pc' = [pc EXCEPT ![c] = "master"] /\ mem' = mem
            /\ pending' = pending /\ uncleared' = uncleared
        BY <2>2 DEF StoreExclusive
      <4>5. \A d \in Cpus : pc'[d] \in {"off", "ldaxr", "stlxr"} \/ (d = c /\ pc'[d] = "master")
        BY <1>a, <4>2, <4>3
      <4>6. ~Raised'
        BY <4>3, <4>4
      <4> QED BY <4>5, <4>6
    <3>3. PendingInv' BY <1>a, <2>2 DEF StoreExclusive
    <3> QED BY <3>1, <3>2, <3>3
  <2>3. CASE StoreExclusiveFails(c)
    <3>1. ElectionInv' BY <1>a, <2>3 DEF StoreExclusiveFails
    <3>2. PrepareInv' BY <1>a, <2>3 DEF StoreExclusiveFails
    <3>3. PendingInv' BY <1>a, <2>3 DEF StoreExclusiveFails
    <3> QED BY <3>1, <3>2, <3>3
  <2>4. CASE StoreMaster(c)
    <3>1. ElectionInv' BY <1>a, <2>4 DEF StoreMaster, Store, Stored
    <3>a. pc[c] = "master" /\ pc' = [pc EXCEPT ![c] = "clear"] /\ uncleared' = uncleared
          /\ master_cpu_set' = master_cpu_set
      BY <2>4 DEF StoreMaster
    <3>b. mem'["wait_flag"] = mem["wait_flag"]
      BY <1>a, <2>4 DEF StoreMaster, Store
    <3>e. pending' = pending \/ pending' = pending \cup {<<"master_cpu", c>>}
      BY <2>4 DEF StoreMaster, Store
    <3>c. \A d \in Cpus : <<"wait_flag", d>> \in pending' <=> <<"wait_flag", d>> \in pending
      BY <3>e
    <3>d. Raised' = Raised
      BY <3>b, <3>c
    <3>2. PrepareInv'
      BY <1>a, <3>a, <3>d DEF PrepareInv
    <3>3. PendingInv'
      <4>1. ~how.reorders => pending' = {}
        BY <1>a, <2>4 DEF StoreMaster, Store
      <4>2. ~how.together => c = 0
        BY <1>a, <3>a
      <4>3. ~how.together => mem'["master_cpu"] = 0
        BY <1>a, <4>2, <2>4 DEF StoreMaster, Store, Stored
      <4>4. ~how.together => \A p \in pending' : p[2] = 0
        BY <1>a, <4>2, <2>4 DEF StoreMaster, Store
      <4>5. ~how.together => \A d \in Cpus : d # 0 => pc'[d] = "off"
        BY <1>a, <3>a
      <4>6. how' = how
        BY <2>4 DEF StoreMaster
      <4> QED BY <4>1, <4>3, <4>4, <4>5, <4>6
    <3> QED BY <3>1, <3>2, <3>3
  <2>5. CASE ClearWord(c)
    <3>1. ElectionInv' BY <1>a, <2>5 DEF ClearWord, Store, Stored
    <3>a. pc[c] = "clear" /\ pc' = pc /\ uncleared' \subseteq uncleared
      BY <2>5 DEF ClearWord
    <3>b. mem'["wait_flag"] = mem["wait_flag"]
      BY <1>a, <2>5 DEF ClearWord, Store, TypeOK, BootInv
    <3>e. PICK w \in Words : pending' = pending \/ pending' = pending \cup {<<w, c>>}
      BY <2>5 DEF ClearWord, Store, TypeOK, BootInv
    <3>c. \A d \in Cpus : <<"wait_flag", d>> \in pending' <=> <<"wait_flag", d>> \in pending
      <4>1. w # "wait_flag"
        BY <1>a
      <4> QED BY <4>1, <3>e
    <3>d. Raised' = Raised
      BY <3>b, <3>c
    <3>2. PrepareInv'
      BY <1>a, <3>a, <3>d
    <3>3. PendingInv'
      <4>1. how' = how /\ master_cpu_set' = master_cpu_set
        BY <2>5 DEF ClearWord
      <4>2. ~how.reorders => pending' = {}
        BY <1>a, <2>5 DEF ClearWord, Store
      <4>3. ~how.together => c = 0
        BY <1>a, <3>a
      <4>4. ~how.together => mem'["master_cpu"] = 0
        <5>1. PICK v \in Words : Store(v, c)
          BY <2>5 DEF ClearWord, BootInv, TypeOK
        <5> QED BY <5>1, <1>a DEF Store
      <4>5. ~how.together => \A p \in pending' : p[2] = 0
        BY <1>a, <3>e, <4>3
      <4>6. ~how.together => \A d \in Cpus : d # 0 => pc'[d] = "off"
        BY <1>a, <3>a
      <4> QED BY <4>1, <4>2, <4>4, <4>5, <4>6
    <3> QED BY <3>1, <3>2, <3>3
  <2>6. CASE ClearDone(c)
    <3>1. ElectionInv' BY <1>a, <2>6 DEF ClearDone
    <3>2. PrepareInv' BY <1>a, <2>6 DEF ClearDone
    <3>3. PendingInv' BY <1>a, <2>6 DEF ClearDone
    <3> QED BY <3>1, <3>2, <3>3
  <2>7. CASE RaiseFlag(c)
    <3>1. ElectionInv' BY <1>a, <2>7 DEF RaiseFlag, Store, Stored
    <3>2. PrepareInv' BY <1>a, <2>7 DEF RaiseFlag, Store, Stored
    <3>3. PendingInv'
      <4>1. ~how.reorders => pending' = {}
        BY <1>a, <2>7 DEF RaiseFlag, Store
      <4>2. ~how.together => c = 0
        BY <1>a, <2>7 DEF RaiseFlag
      <4>3. ~how.together => mem'["master_cpu"] = 0
        BY <1>a, <2>7 DEF RaiseFlag, Store
      <4>4. ~how.together => \A p \in pending' : p[2] = 0
        BY <1>a, <4>2, <2>7 DEF RaiseFlag, Store
      <4>5. ~how.together => \A d \in Cpus : d # 0 => pc'[d] = "off"
        BY <1>a, <2>7 DEF RaiseFlag
      <4>6. how' = how
        BY <2>7 DEF RaiseFlag
      <4> QED BY <4>1, <4>3, <4>4, <4>5, <4>6
    <3> QED BY <3>1, <3>2, <3>3
  <2>8. CASE PassFlag(c)
    <3>1. ElectionInv' BY <1>a, <2>8 DEF PassFlag
    <3>2. PrepareInv' BY <1>a, <2>8 DEF PassFlag
    <3>3. PendingInv' BY <1>a, <2>8 DEF PassFlag
    <3> QED BY <3>1, <3>2, <3>3
  <2>9. CASE InitLock(c)
    BY <1>a, <2>9 DEF InitLock
  <2>10. CASE InitUnlock(c)
    BY <1>a, <2>10 DEF InitUnlock
  <2>11. CASE GicInit(c)
    <3>1. ElectionInv' BY <1>a, <2>11 DEF GicInit
    <3>2. PrepareInv' BY <1>a, <2>11 DEF GicInit
    <3>3. PendingInv'
      <4>1. PICK l \in {"psci", "main"} : pc' = [pc EXCEPT ![c] = l]
        BY <2>11 DEF GicInit
      <4>2. mem' = mem /\ pending' = pending /\ pc[c] = "gic"
            /\ master_cpu_set' = master_cpu_set /\ how' = how
        BY <2>11 DEF GicInit
      <4> QED BY <1>a, <4>1, <4>2
    <3> QED BY <3>1, <3>2, <3>3
  <2>12. CASE CpuOn(c)
    BY <1>a, <2>12 DEF CpuOn
  <2>13. CASE CpuOnFails(c)
    BY <1>a, <2>13 DEF CpuOnFails
  <2>14. CASE MainLock(c)
    <3>1. ElectionInv' BY <1>a, <2>14 DEF MainLock
    <3>2. PrepareInv' BY <1>a, <2>14 DEF MainLock
    <3>3. PendingInv' BY <1>a, <2>14 DEF MainLock
    <3> QED BY <3>1, <3>2, <3>3
  <2>15. CASE MainUnlock(c)
    BY <1>a, <2>15 DEF MainUnlock
  <2> QED BY <1>2, <2>1, <2>2, <2>3, <2>4, <2>5, <2>6, <2>7, <2>8, <2>9, <2>10, <2>11, <2>12, <2>13, <2>14, <2>15
         DEF Step
<1>3. ASSUME Drain PROVE Rest'
  <2>1. ElectionInv' BY <1>a, <1>3 DEF Drain, Stored
  <2>a. pc' = pc /\ uncleared' = uncleared
    BY <1>3 DEF Drain
  <2>c. PICK p \in pending : pending' = pending \ {p}
                  /\ mem' = [mem EXCEPT ![p[1]] = Stored(p[1], p[2])]
    BY <1>3 DEF Drain
  <2>d. p[2] \in Cpus /\ p = <<p[1], p[2]>>
    BY <1>a
  <2>e. mem'["wait_flag"] # mem["wait_flag"] => p[1] = "wait_flag"
    BY <1>a, <2>c
  <2>f. p[1] = "wait_flag" => Raised
    BY <2>d
  <2>b. Raised' => Raised
    BY <2>c, <2>e, <2>f
  <2>2. PrepareInv'
    BY <1>a, <2>a, <2>b
  <2>3. PendingInv' BY <1>a, <1>3 DEF Drain, Stored
  <2> QED BY <2>1, <2>2, <2>3
<1> HIDE DEF TypeOK, ElectionInv, PrepareInv, PendingInv
<1>4. CASE Next
  <2>1. Rest' BY <1>2, <1>3, <1>4 DEF Next
  <2> QED BY <1>t, <2>1 DEF BootInv
<1> QED BY <1>1, <1>4

\* Nothing is stored where it was not declared, whatever the processors do.
THEOREM TypeCorrect == Spec => []TypeOK
<1>1. Init => TypeOK
  BY BootInit DEF BootInv
<1> QED BY <1>1, TypeStep, PTL DEF Spec

\* The invariant holds throughout every boot.
LEMMA BootInvariant == Spec => []BootInv
BY BootInit, BootStep, PTL DEF Spec

\* The election of start.S lets one processor through, with any failures of
\* the store-exclusives and however the stores of the master are ordered.
THEOREM ElectsOne == Spec => []OneMaster
<1>1. BootInv => OneMaster
  BY DEF BootInv, PrepareInv, OneMaster, Preparing
<1> QED BY <1>1, BootInvariant, PTL

\* No processor but the master runs C code before .bss is zero for all to
\* see, if the hypervisor starts the others by PSCI_CPU_ON or if the master's
\* stores become visible in order.
THEOREM StartsClean ==
    ASSUME \A b \in Boots : ~b.together \/ ~b.reorders PROVE Spec => []CleanStart
<1>1. BootInv => CleanStart
  <2> SUFFICES ASSUME BootInv, NEW c \in Cpus, InC(c), mem["master_cpu"] # c
               PROVE Cleared
    BY DEF CleanStart
  <2>1. uncleared = {}
    BY DEF BootInv, PrepareInv
  <2>4. ~how.together \/ ~how.reorders
    BY DEF BootInv, TypeOK
  <2>2. CASE ~how.reorders
    BY <2>1, <2>2 DEF BootInv, PendingInv, Cleared, Settled
  <2>3. CASE ~how.together
    <3>1. c # 0 /\ pc[c] # "off"
      BY <2>3 DEF BootInv, PendingInv, InC
    <3> QED BY <2>1, <2>3, <3>1 DEF BootInv, PendingInv, Cleared, Settled
  <2> QED BY <2>2, <2>3, <2>4
<1> QED BY <1>1, BootInvariant, PTL

-----------------------------------------------------------------------------
(* The tickets.                                                            *)

Served(c) == pc[c] \in {"main_unlock", "loop", "exit"}

\* No late store reaches the lock or the ticket once a processor has held
\* the lock.  The holder has the current ticket, the others had smaller ones.
TicketInv ==
    /\ \A c, d \in Cpus : Served(c) =>
          Settled("print_lock", d) /\ Settled("ticket", d)
    /\ \A c \in Cpus : pc[c] = "main_unlock" =>
          mem["print_lock"] = 1 /\ buf_index[c] = mem["ticket"]
    /\ \A c \in Cpus : pc[c] \in {"loop", "exit"} => buf_index[c] < mem["ticket"]
    /\ \A c \in Cpus : pc[c] = "loop" => buf_index[c] < NumBufs
    /\ \A c, d \in Cpus : Served(c) /\ Served(d) /\ c # d =>
          buf_index[c] # buf_index[d]

\* Every step keeps the tickets distinct and in order, when stores are seen
\* in order or the processors come up one by one.
LEMMA TicketStep ==
    ASSUME \A b \in Boots : ~b.together \/ ~b.reorders
    PROVE  BootInv /\ TicketInv /\ [Next]_vars => TicketInv'
<1> SUFFICES ASSUME BootInv, TicketInv, [Next]_vars PROVE TicketInv'
  OBVIOUS
<1> USE GuestBootAssumption
<1>a. /\ pc \in [Cpus -> Pcs] /\ buf_index \in [Cpus -> Nat]
      /\ mem \in [Words \cup Flags -> Nat]
      /\ {"ticket", "print_lock", "init_lock", "init_done"} \subseteq Words
  BY DEF BootInv, TypeOK, Words
<1>b. \A c, d \in Cpus : Preparing(c) => ~Served(d)
  BY DEF BootInv, PrepareInv, InC, Served, Preparing
<1>e. ~how.together \/ ~how.reorders
  BY DEF BootInv, TypeOK
<1>c. \A c \in Cpus : pc[c] = "main" \/ Served(c) => pending = {} \/ c = 0
  BY <1>e DEF BootInv, PendingInv, Served
<1>d. ~how.reorders \/ \A p \in pending : p[2] = 0
  BY <1>e DEF BootInv, PendingInv
\* Most steps leave the lock, the ticket and the processors after it alone.
<1>f. ASSUME \A c \in Cpus : Served(c)' => pc'[c] = pc[c],
             buf_index' = buf_index, pending' \subseteq pending,
             (\E c \in Cpus : Served(c)) =>
                 mem'["print_lock"] = mem["print_lock"] /\ mem'["ticket"] = mem["ticket"]
      PROVE  TicketInv'
  <2>1. \A c \in Cpus : Served(c)' => Served(c)
    BY <1>f DEF Served
  <2>2. \A c, d \in Cpus : Served(c)' => Settled("print_lock", d)' /\ Settled("ticket", d)'
    BY <2>1, <1>f DEF TicketInv, Settled
  <2>3. \A c \in Cpus : Served(c)' =>
            mem'["print_lock"] = mem["print_lock"] /\ mem'["ticket"] = mem["ticket"]
    BY <2>1, <1>f
  <2>4. \A c \in Cpus : pc'[c] = "main_unlock" =>
            mem'["print_lock"] = 1 /\ buf_index'[c] = mem'["ticket"]
    BY <2>3, <1>f DEF TicketInv, Served
  <2>5. \A c \in Cpus : pc'[c] \in {"loop", "exit"} => buf_index'[c] < mem'["ticket"]
    BY <2>3, <1>f DEF TicketInv, Served
  <2>6. \A c \in Cpus : pc'[c] = "loop" => buf_index'[c] < NumBufs
    BY <1>f DEF TicketInv, Served
  <2>7. \A c, d \in Cpus : Served(c)' /\ Served(d)' /\ c # d => buf_index'[c] # buf_index'[d]
    BY <2>1, <1>f DEF TicketInv
  <2> QED BY <2>2, <2>4, <2>5, <2>6, <2>7 DEF TicketInv
<1> USE DEF Goto
<1>1. CASE UNCHANGED vars
  BY <1>1, <1>f DEF vars, Served
<1>2. ASSUME NEW c \in Cpus, Step(c) PROVE TicketInv'
  <2>1. CASE LoadExclusive(c)
    BY <1>a, <1>f, <2>1 DEF LoadExclusive, Served
  <2>2. CASE StoreExclusive(c)
    BY <1>a, <1>f, <2>2 DEF StoreExclusive, Served
  <2>3. CASE StoreExclusiveFails(c)
    BY <1>a, <1>f, <2>3 DEF StoreExclusiveFails, Served
  <2>4. CASE StoreMaster(c) \/ ClearWord(c) \/ RaiseFlag(c)
    <3>1. Preparing(c)
      BY <2>4 DEF StoreMaster, ClearWord, RaiseFlag, Preparing
    <3>2. \A d \in Cpus : ~Served(d)
      BY <3>1, <1>b
    <3>3. pc' = pc \/ \E l \in {"clear", "wait"} : pc' = [pc EXCEPT ![c] = l]
      BY <2>4 DEF StoreMaster, ClearWord, RaiseFlag
    <3>4. \A d \in Cpus : ~Served(d)'
      BY <3>2, <3>3, <1>a DEF Served
    <3> QED BY <3>4 DEF TicketInv, Served
  <2>5. CASE ClearDone(c)
    BY <1>a, <1>f, <2>5 DEF ClearDone, Served
  <2>6. CASE PassFlag(c)
    BY <1>a, <1>f, <2>6 DEF PassFlag, Served
  <2>7. CASE InitLock(c)
    BY <1>a, <1>f, <2>7 DEF InitLock, Served
  <2>8. CASE InitUnlock(c)
    BY <1>a, <1>f, <2>8 DEF InitUnlock, Served
  <2>9. CASE GicInit(c)
    <3>1. PICK l \in {"psci", "main"} : pc' = [pc EXCEPT ![c] = l]
      BY <2>9 DEF GicInit
    <3>2. mem' = mem /\ pending' = pending /\ buf_index' = buf_index
      BY <2>9 DEF GicInit
    <3> QED BY <1>a, <1>f, <3>1, <3>2 DEF Served
  <2>10. CASE CpuOn(c)
    BY <1>a, <1>f, <2>10 DEF CpuOn, Served
  <2>11. CASE CpuOnFails(c)
    BY <1>a, <1>f, <2>11 DEF CpuOnFails, Served
  <2>12. CASE MainLock(c)
    <3>1. /\ pc[c] = "main" /\ pc' = [pc EXCEPT ![c] = "main_unlock"]
          /\ mem["print_lock"] = 0 /\ mem' = [mem EXCEPT !["print_lock"] = 1]
          /\ buf_index' = [buf_index EXCEPT ![c] = mem["ticket"]]
          /\ pending' = pending
          /\ Settled("print_lock", c) /\ Settled("ticket", c)
      BY <2>12 DEF MainLock
    <3>2. \A d \in Cpus : pc[d] # "main_unlock"
      BY <3>1, <1>a DEF TicketInv
    <3>3. \A d \in Cpus : Settled("print_lock", d)' /\ Settled("ticket", d)'
      <4>1. CASE pending = {}
        BY <3>1, <4>1 DEF Settled
      <4>2. CASE pending # {}
        <5>1. c = 0 /\ \A p \in pending : p[2] = 0
          BY <1>c, <1>d, <3>1, <4>2 DEF BootInv, PendingInv
        <5> QED BY <5>1, <3>1 DEF Settled
      <4> QED BY <4>1, <4>2
    <3>4. \A d \in Cpus : d # c => pc'[d] = pc[d] /\ buf_index'[d] = buf_index[d]
      BY <3>1, <1>a
    <3>5. pc'[c] = "main_unlock" /\ buf_index'[c] = mem["ticket"]
          /\ mem'["ticket"] = mem["ticket"] /\ mem'["print_lock"] = 1
      BY <3>1, <1>a
    <3>6. \A d \in Cpus : d # c /\ Served(d)' => buf_index'[d] < mem["ticket"]
      BY <3>2, <3>4 DEF TicketInv, Served
    <3>7. \A d, e \in Cpus : Served(d)' /\ Served(e)' /\ d # e => buf_index'[d] # buf_index'[e]
      <4> SUFFICES ASSUME NEW d \in Cpus, NEW e \in Cpus, Served(d)', Served(e)', d # e
                   PROVE  buf_index'[d] # buf_index'[e]
        OBVIOUS
      <4>0. mem["ticket"] \in Nat /\ buf_index[d] \in Nat /\ buf_index[e] \in Nat
        BY <1>a
      <4>1. CASE d # c /\ e # c
        BY <4>1, <3>4 DEF TicketInv, Served
      <4>2. CASE d = c
        BY <4>0, <4>2, <3>4, <3>5, <3>6
      <4>3. CASE e = c
        BY <4>0, <4>3, <3>4, <3>5, <3>6
      <4> QED BY <4>1, <4>2, <4>3
    <3>8. \A d \in Cpus : pc'[d] \in {"loop", "exit"} => buf_index'[d] < mem'["ticket"]
      BY <3>5, <3>6 DEF Served
    <3>9. \A d \in Cpus : pc'[d] = "loop" => buf_index'[d] < NumBufs
      BY <3>4, <3>5 DEF TicketInv
    <3>10. \A d \in Cpus : pc'[d] = "main_unlock" =>
              mem'["print_lock"] = 1 /\ buf_index'[d] = mem'["ticket"]
      BY <3>2, <3>4, <3>5
    <3> QED BY <3>3, <3>7, <3>8, <3>9, <3>10 DEF TicketInv
  <2>13. CASE MainUnlock(c)
    <3> DEFINE l == IF buf_index[c] >= NumBufs THEN "exit" ELSE "loop"
    <3>0. l \in {"exit", "loop"} /\ (l = "loop" => ~(buf_index[c] >= NumBufs))
      OBVIOUS
    <3>1. pc' = [pc EXCEPT ![c] = l]
      BY <2>13 DEF MainUnlock
    <3> HIDE DEF l
    <3>2. /\ pc[c] = "main_unlock" /\ buf_index' = buf_index /\ pending' = pending
          /\ mem' = [mem EXCEPT !["ticket"] = mem["ticket"] + 1, !["print_lock"] = 0]
      BY <2>13 DEF MainUnlock
    <3>3. mem'["ticket"] = mem["ticket"] + 1
      BY <3>2, <1>a
    <3>4. \A d \in Cpus : d # c => pc'[d] = pc[d]
      BY <3>1, <1>a
    <3>5. pc'[c] = l /\ Served(c)
      BY <3>0, <3>1, <3>2, <1>a DEF Served
    <3>6. \A d \in Cpus : Served(d)' => Served(d)
      BY <3>4, <3>5 DEF Served
    <3>7. \A d \in Cpus : d # c => pc[d] # "main_unlock"
      <4> SUFFICES ASSUME NEW d \in Cpus, d # c, pc[d] = "main_unlock" PROVE FALSE
        OBVIOUS
      <4>1. buf_index[d] = mem["ticket"] /\ buf_index[c] = mem["ticket"]
        BY <3>2 DEF TicketInv
      <4>2. Served(c) /\ Served(d)
        BY <3>5 DEF Served
      <4> QED BY <4>1, <4>2 DEF TicketInv
    <3>8. \A d \in Cpus : pc'[d] # "main_unlock"
      BY <3>0, <3>4, <3>5, <3>7
    <3>9. \A d \in Cpus : Served(d) => buf_index[d] < mem["ticket"] + 1
      <4> SUFFICES ASSUME NEW d \in Cpus, Served(d) PROVE buf_index[d] < mem["ticket"] + 1
        OBVIOUS
      <4>0. buf_index[d] \in Nat /\ mem["ticket"] \in Nat
        BY <1>a
      <4>1. buf_index[d] < mem["ticket"] \/ buf_index[d] = mem["ticket"]
        BY DEF TicketInv, Served
      <4> QED BY <4>0, <4>1
    <3>10. \A d \in Cpus : pc'[d] \in {"loop", "exit"} => buf_index'[d] < mem'["ticket"]
      BY <3>2, <3>3, <3>6, <3>9 DEF Served
    <3>11. \A d \in Cpus : pc'[d] = "loop" => buf_index'[d] < NumBufs
      <4>1. buf_index[c] \in Nat /\ NumBufs \in Nat
        BY <1>a
      <4>2. pc'[c] = "loop" => buf_index'[c] < NumBufs
        BY <4>1, <3>0, <3>2, <3>5
      <4> QED BY <4>2, <3>2, <3>4 DEF TicketInv
    <3>12. \A d, e \in Cpus : Served(d)' => Settled("print_lock", e)' /\ Settled("ticket", e)'
      BY <3>2, <3>6 DEF TicketInv, Settled
    <3>13. \A d, e \in Cpus : Served(d)' /\ Served(e)' /\ d # e => buf_index'[d] # buf_index'[e]
      BY <3>2, <3>6 DEF TicketInv
    <3> QED BY <3>8, <3>10, <3>11, <3>12, <3>13 DEF TicketInv
  <2> QED BY <1>2, <2>1, <2>2, <2>3, <2>4, <2>5, <2>6, <2>7, <2>8, <2>9, <2>10, <2>11, <2>12, <2>13
         DEF Step
<1>3. CASE Drain
  <2>1. PICK p \in pending : pending' = pending \ {p}
                  /\ mem' = [mem EXCEPT ![p[1]] = Stored(p[1], p[2])]
    BY <1>3 DEF Drain
  <2>2. p = <<p[1], p[2]>> /\ p[2] \in Cpus
    BY DEF BootInv, TypeOK
  <2>3. (\E c \in Cpus : Served(c)) => p[1] # "print_lock" /\ p[1] # "ticket"
    BY <2>1, <2>2 DEF TicketInv, Settled
  <2>4. pc' = pc /\ buf_index' = buf_index
    BY <1>3 DEF Drain
  <2>5. (\E c \in Cpus : Served(c)) =>
            mem'["print_lock"] = mem["print_lock"] /\ mem'["ticket"] = mem["ticket"]
    BY <2>1, <2>3, <1>a
  <2> QED BY <1>f, <2>1, <2>4, <2>5 DEF Served
<1> QED BY <1>1, <1>2, <1>3 DEF Next

\* Two processors in the interference loop never share a buffer, and each
\* one's buffer exists: what print_lock and the ticket in main() are for.
THEOREM BuffersAreOwn ==
    ASSUME \A b \in Boots : ~b.together \/ ~b.reorders PROVE Spec => []OwnBuffer
<1>1. Init => TicketInv
  BY DEF Init, TicketInv, Served
<1>2. TicketInv => OwnBuffer
  BY DEF TicketInv, OwnBuffer, Served
<1>3. BootInv /\ TicketInv /\ [Next]_vars => TicketInv'
  BY TicketStep
<1> QED BY <1>1, <1>2, <1>3, BootInvariant, PTL DEF Spec

-----------------------------------------------------------------------------
(* The distributor.                                                        *)

\* A processor that is past gic_init(), or was switched on by one that is,
\* finds the distributor initialised.
GicInv ==
    ~how.together =>
        /\ \A c \in Cpus : pc[c] \in {"psci", "main", "main_unlock", "loop",
                                     "exit"} => gicd
        /\ \A c \in Cpus : c # 0 /\ pc[c] # "off" => gicd

\* Every step keeps the distributor ready for those that need it.
LEMMA GicStep == TypeOK /\ GicInv /\ [Next]_vars => GicInv'
<1> SUFFICES ASSUME TypeOK, GicInv, [Next]_vars PROVE GicInv'
  OBVIOUS
<1>a. pc \in [Cpus -> Pcs] /\ gicd \in BOOLEAN
  BY DEF TypeOK
\* Most steps move one processor, and none to where the distributor counts
\* unless it counted before.
<1>b. ASSUME NEW c \in Cpus, NEW l, pc' = [pc EXCEPT ![c] = l],
             how' = how, gicd' = gicd, pc[c] # "off",
             l \in {"main_unlock", "loop", "exit", "main"}
                => pc[c] \in {"psci", "main", "main_unlock"},
             l # "psci"
      PROVE  GicInv'
  BY <1>a, <1>b DEF GicInv
<1>1. CASE UNCHANGED vars
  BY <1>1 DEF vars, GicInv
<1>2. ASSUME NEW c \in Cpus, Step(c) PROVE GicInv'
  <2>1. CASE LoadExclusive(c) \/ StoreExclusive(c) \/ StoreExclusiveFails(c)
    <3>1. PICK l \in {"wait", "stlxr", "master", "ldaxr"} :
            pc' = [pc EXCEPT ![c] = l]
      BY <2>1 DEF LoadExclusive, StoreExclusive, StoreExclusiveFails, Goto
    <3>2. how' = how /\ gicd' = gicd /\ pc[c] # "off"
      BY <2>1 DEF LoadExclusive, StoreExclusive, StoreExclusiveFails
    <3> QED BY <1>b, <3>1, <3>2
  <2>2. CASE StoreMaster(c) \/ ClearDone(c) \/ RaiseFlag(c) \/ PassFlag(c)
    <3>1. PICK l \in {"clear", "flag", "wait", "init"} :
            pc' = [pc EXCEPT ![c] = l]
      BY <2>2 DEF StoreMaster, ClearDone, RaiseFlag, PassFlag, Goto
    <3>2. how' = how /\ gicd' = gicd /\ pc[c] # "off"
      BY <2>2 DEF StoreMaster, ClearDone, RaiseFlag, PassFlag
    <3> QED BY <1>b, <3>1, <3>2
  <2>3. CASE ClearWord(c)
    BY <2>3 DEF ClearWord, GicInv
  <2>4. CASE InitLock(c) \/ InitUnlock(c)
    <3>1. PICK l \in {"init_unlock", "gic"} : pc' = [pc EXCEPT ![c] = l]
      BY <2>4 DEF InitLock, InitUnlock, Goto
    <3>2. how' = how /\ gicd' = gicd /\ pc[c] # "off"
      BY <2>4 DEF InitLock, InitUnlock
    <3> QED BY <1>b, <3>1, <3>2
  <2>5. CASE GicInit(c)
    <3>1. PICK l \in {"psci", "main"} : pc' = [pc EXCEPT ![c] = l]
      BY <2>5 DEF GicInit, Goto
    <3>2. how' = how /\ pc[c] = "gic" /\ gicd' = (gicd \/ c = 0)
      BY <2>5 DEF GicInit
    <3>3. ~how.together => gicd'
      BY <3>2 DEF GicInv
    <3> QED BY <3>2, <3>3 DEF GicInv
  <2>6. CASE CpuOn(c)
    <3>1. pc[c] = "psci" /\ how' = how /\ gicd' = gicd
      BY <2>6 DEF CpuOn
    <3>2. ~how.together => gicd
      BY <3>1 DEF GicInv
    <3> QED BY <3>1, <3>2 DEF GicInv
  <2>7. CASE CpuOnFails(c) \/ MainLock(c)
    <3>1. PICK l \in {"main", "main_unlock"} : pc' = [pc EXCEPT ![c] = l]
      BY <2>7 DEF CpuOnFails, MainLock, Goto
    <3>2. how' = how /\ gicd' = gicd /\ pc[c] \in {"psci", "main"}
      BY <2>7 DEF CpuOnFails, MainLock
    <3> QED BY <1>b, <3>1, <3>2
  <2>8. CASE MainUnlock(c)
    <3>1. PICK l \in {"loop", "exit"} : pc' = [pc EXCEPT ![c] = l]
      BY <2>8 DEF MainUnlock, Goto
    <3>2. how' = how /\ gicd' = gicd /\ pc[c] = "main_unlock"
      BY <2>8 DEF MainUnlock
    <3> QED BY <1>b, <3>1, <3>2
  <2> QED BY <1>2, <2>1, <2>2, <2>3, <2>4, <2>5, <2>6, <2>7, <2>8 DEF Step
<1>3. CASE Drain
  BY <1>3 DEF Drain, GicInv
<1> QED BY <1>1, <1>2, <1>3 DEF Next

\* A processor in main that processor 0 has started, or that is processor 0,
\* finds the distributor initialised: gic_init() in arch_init() comes first.
THEOREM GicReady == Spec => []DistributorReady
<1>1. Init => GicInv
  BY DEF Init, GicInv
<1>2. GicInv => DistributorReady
  BY DEF GicInv, DistributorReady
<1> QED BY <1>1, <1>2, GicStep, TypeCorrect, PTL DEF Spec

-----------------------------------------------------------------------------
(* Nobody is left off, and nobody waits for nobody.                        *)

\* Places before the loop over psci_cpu_on().
Before == {"ldaxr", "stlxr", "master", "clear", "flag", "wait", "init",
           "init_unlock", "gic"}

\* Who is off has still to be reached by the loop of processor 0.
OffInv ==
    /\ how.together => \A c \in Cpus : pc[c] # "off"
    /\ ~how.together =>
         /\ pc[0] # "off" /\ \A c \in Cpus \ {0} : pc[c] # "psci"
         /\ pc[0] = "psci" => on_next # 0
         /\ \A c \in Cpus \ {0} :
              pc[c] = "off" <=> pc[0] \in Before \/ (pc[0] = "psci" /\ c >= on_next)

\* A lock word that has been cleared for all to see is zero, or somebody is
\* about to unlock it.
LockInv(w, unlock) ==
    w \notin uncleared /\ (\A c \in Cpus : Settled(w, c)) =>
        mem[w] = 0 \/ \E c \in Cpus : pc[c] = unlock

\* Once there is a master it prepares .bss until it raises the flag.
ReachInv ==
    /\ master_cpu_set => Raised \/ \E c \in Cpus : Preparing(c)
    /\ LockInv("init_lock", "init_unlock")
    /\ LockInv("print_lock", "main_unlock")

\* Nothing but the flag, the two locks, the stores before a hypercall and the
\* own stores before an access can stop a processor.
CanGoOn(c) ==
    /\ pc[c] \notin {"off", "loop", "exit"}
    /\ pc[c] = "wait" => mem["wait_flag"] = 1 \/ ~Settled("wait_flag", c)
    /\ pc[c] = "init" =>
          mem["init_lock"] = 0 /\ Settled("init_lock", c) /\ Settled("init_done", c)
    /\ pc[c] = "psci" => pending = {}
    /\ pc[c] = "main" =>
          mem["print_lock"] = 0 /\ Settled("print_lock", c) /\ Settled("ticket", c)

\* Until all processors are in the interference loop or asleep, one of them can
\* go on or a store becomes visible.
SomebodyGoesOn ==
    \/ \A c \in Cpus : pc[c] \in {"loop", "exit"}
    \/ pending # {}
    \/ \E c \in Cpus : CanGoOn(c)

\* The loop over psci_cpu_on() starts after the master's own number, leaves
\* nobody out, and ends with the last processor.
LEMMA OffStep == BootInv /\ OffInv /\ [Next]_vars => OffInv'
<1> SUFFICES ASSUME BootInv, OffInv, [Next]_vars PROVE OffInv'
  OBVIOUS
<1> USE GuestBootAssumption
<1>a. /\ pc \in [Cpus -> Pcs] /\ on_next \in 0 .. NumCpus /\ 0 \in Cpus
      /\ Cpus \subseteq Nat
      /\ ~how.together => mem["master_cpu"] = 0 /\ \A p \in pending : p[2] = 0
  BY DEF BootInv, TypeOK, PendingInv, Cpus
<1>b. ASSUME UNCHANGED <<how, on_next>>, NEW c \in Cpus,
             \/ pc' = pc
             \/ \E l \in Before : pc[c] \in Before /\ pc' = [pc EXCEPT ![c] = l]
             \/ \E l \in {"main_unlock", "loop", "exit"} :
                  pc[c] \in {"main", "main_unlock"} /\ pc' = [pc EXCEPT ![c] = l]
      PROVE  OffInv'
  BY <1>a, <1>b DEF OffInv, Before
<1>1. CASE UNCHANGED vars
  BY <1>a, <1>b, <1>1 DEF vars
<1>2. CASE Drain
  BY <1>a, <1>b, <1>2 DEF Drain
<1>3. ASSUME NEW c \in Cpus, Step(c) PROVE OffInv'
  <2>1. CASE \/ LoadExclusive(c) \/ StoreExclusive(c) \/ StoreExclusiveFails(c)
             \/ StoreMaster(c) \/ ClearWord(c) \/ ClearDone(c) \/ RaiseFlag(c)
             \/ PassFlag(c) \/ InitLock(c) \/ InitUnlock(c)
    <3>1. /\ UNCHANGED <<how, on_next>>
          /\ pc' = pc \/ \E l \in Before : pc[c] \in Before /\ pc' = [pc EXCEPT ![c] = l]
      BY <2>1 DEF LoadExclusive, StoreExclusive, StoreExclusiveFails, StoreMaster,
         ClearWord, ClearDone, RaiseFlag, PassFlag, InitLock, InitUnlock, Goto, Before
    <3> QED BY <1>b, <3>1
  <2>2. CASE MainLock(c) \/ MainUnlock(c)
    <3>1. /\ UNCHANGED <<how, on_next>> /\ pc[c] \in {"main", "main_unlock"}
          /\ \E l \in {"main_unlock", "loop", "exit"} : pc' = [pc EXCEPT ![c] = l]
      BY <2>2 DEF MainLock, MainUnlock, Goto
    <3> QED BY <1>b, <3>1
  <2>3. CASE GicInit(c)
    <3>1. /\ how' = how /\ pc[c] = "gic"
          /\ \/ pc' = [pc EXCEPT ![c] = "psci"] /\ on_next' = c + 1
             \/ pc' = [pc EXCEPT ![c] = "main"] /\ on_next' = on_next
          /\ ~how.together => (pc' = [pc EXCEPT ![c] = "psci"] <=> c = 0)
      <4>1. mem["master_cpu"] = c \/ ~Settled("master_cpu", c) <=>
              pc' = [pc EXCEPT ![c] = "psci"]
        BY <1>a, <2>3 DEF GicInit, Goto
      <4>2. ~how.together => (mem["master_cpu"] = c \/ ~Settled("master_cpu", c) <=> c = 0)
        BY <1>a DEF Settled
      <4> QED BY <2>3, <4>1, <4>2 DEF GicInit, Goto
    <3> QED BY <1>a, <3>1 DEF OffInv, Before, Cpus
  <2>4. CASE CpuOn(c)
    <3>1. /\ how' = how /\ pc[c] = "psci" /\ on_next \in Cpus /\ pc[on_next] = "off"
          /\ pc' = [pc EXCEPT ![on_next] = "ldaxr"] /\ on_next' = on_next + 1
      BY <2>4 DEF CpuOn
    <3>2. ~how.together /\ c = 0 /\ on_next # 0
      BY <3>1 DEF OffInv
    <3> QED BY <1>a, <3>1, <3>2 DEF OffInv, Before, Cpus
  <2>5. CASE CpuOnFails(c)
    <3>1. /\ UNCHANGED <<how, on_next>> /\ pc[c] = "psci"
          /\ pc' = [pc EXCEPT ![c] = "main"]
          /\ on_next \in Cpus => pc[on_next] # "off"
      BY <2>5 DEF CpuOnFails, Goto
    <3>2. ~how.together => c = 0 /\ on_next = NumCpus
      BY <1>a, <3>1 DEF OffInv, Cpus
    <3> QED BY <1>a, <3>1, <3>2 DEF OffInv, Before, Cpus
  <2> QED BY <1>3, <2>1, <2>2, <2>3, <2>4, <2>5 DEF Step
<1> QED BY <1>1, <1>2, <1>3 DEF Next

\* A lock word becomes one only by who will unlock it, and zero in all other
\* ways: when .bss is cleared, when a zero becomes visible, at the unlock.
LEMMA LockStep ==
    ASSUME TypeOK, [Next]_vars, NEW w, NEW unlock, LockInv(w, unlock),
           \/ w = "init_lock" /\ unlock = "init_unlock"
           \/ w = "print_lock" /\ unlock = "main_unlock"
    PROVE  LockInv(w, unlock)'
<1>a. /\ pc \in [Cpus -> Pcs] /\ mem \in [Words \cup Flags -> Nat]
      /\ w \in Words /\ w \notin Flags
      /\ unlock \in {"init_unlock", "main_unlock"}
  BY DEF TypeOK, Words, Flags
<1>b. ASSUME mem'[w] = mem[w], uncleared' = uncleared \/ w \in uncleared',
             \A c \in Cpus : <<w, c>> \in pending => <<w, c>> \in pending',
             \A c \in Cpus : pc[c] = unlock => pc'[c] = unlock
      PROVE  LockInv(w, unlock)'
  BY <1>b DEF LockInv, Settled
<1>c. ASSUME mem'[w] = 0 PROVE LockInv(w, unlock)'
  BY <1>c DEF LockInv
<1>1. CASE UNCHANGED vars
  BY <1>b, <1>1 DEF vars
<1>2. CASE Drain
  <2>1. PICK p \in pending : /\ pending' = pending \ {p}
                             /\ mem' = [mem EXCEPT ![p[1]] = Stored(p[1], p[2])]
                             /\ UNCHANGED <<pc, uncleared>>
    BY <1>2 DEF Drain
  <2>2. CASE p[1] = w
    <3>1. Stored(w, p[2]) = 0
      BY <1>a DEF Stored, Flags
    <3> QED BY <1>a, <1>c, <2>1, <2>2, <3>1
  <2>3. CASE p[1] # w
    <3>1. \A c \in Cpus : p # <<w, c>>
      BY <2>3
    <3> QED BY <1>a, <1>b, <2>1, <2>3, <3>1
  <2> QED BY <2>2, <2>3
<1>3. ASSUME NEW c \in Cpus, Step(c) PROVE LockInv(w, unlock)'
  <2>1. CASE \/ LoadExclusive(c) \/ StoreExclusive(c) \/ StoreExclusiveFails(c)
             \/ ClearDone(c) \/ PassFlag(c) \/ GicInit(c) \/ CpuOnFails(c)
    <3>1. /\ UNCHANGED <<mem, pending, uncleared>>
          /\ pc[c] \notin {"init_unlock", "main_unlock"}
          /\ \E l \in Pcs : pc' = [pc EXCEPT ![c] = l]
      BY <2>1 DEF LoadExclusive, StoreExclusive, StoreExclusiveFails, ClearDone, PassFlag,
         GicInit, CpuOnFails, Goto, Pcs
    <3>2. \A d \in Cpus : pc[d] = unlock => pc'[d] = unlock
      BY <1>a, <3>1
    <3> QED BY <1>b, <3>1, <3>2
  <2>2. CASE StoreMaster(c) \/ RaiseFlag(c)
    <3>1. PICK x \in Flags : Store(x, c) /\ UNCHANGED uncleared
      BY <2>2 DEF StoreMaster, RaiseFlag, Flags
    <3>2. mem'[w] = mem[w] /\ pending \subseteq pending'
      BY <1>a, <3>1 DEF Store
    <3>3. \A d \in Cpus : pc[d] = unlock => pc'[d] = unlock
      BY <1>a, <2>2 DEF StoreMaster, RaiseFlag, Goto
    <3> QED BY <1>b, <3>1, <3>2, <3>3
  <2>3. CASE ClearWord(c)
    <3>1. PICK x \in uncleared : Store(x, c) /\ uncleared' = uncleared \ {x}
      BY <2>3 DEF ClearWord
    <3>2. pc' = pc
      BY <2>3 DEF ClearWord
    <3>3. CASE x # w
      <4>1. mem'[w] = mem[w] /\ pending \subseteq pending'
        BY <1>a, <3>1, <3>3 DEF Store
      <4>2. w \in uncleared => w \in uncleared'
        BY <3>1, <3>3
      <4> QED BY <3>1, <3>2, <4>1, <4>2 DEF LockInv, Settled
    <3>4. CASE x = w
      <4>1. Stored(w, c) = 0
        BY <1>a DEF Stored, Flags
      <4>2. mem'[w] = 0 \/ <<w, c>> \in pending'
        BY <1>a, <3>1, <3>4, <4>1 DEF Store
      <4> QED BY <4>2 DEF LockInv, Settled
    <3> QED BY <3>3, <3>4
  <2>4. CASE InitLock(c) \/ MainLock(c)
    <3>1. /\ UNCHANGED <<pending, uncleared>>
          /\ \/ pc' = [pc EXCEPT ![c] = unlock]
             \/ mem'[w] = mem[w] /\ \A d \in Cpus : pc[d] = unlock => pc'[d] = unlock
      BY <1>a, <2>4 DEF InitLock, MainLock, Goto
    <3>2. pc' = [pc EXCEPT ![c] = unlock] => pc'[c] = unlock
      BY <1>a
    <3> QED BY <1>b, <3>1, <3>2 DEF LockInv
  <2>5. CASE InitUnlock(c) \/ MainUnlock(c)
    <3>1. /\ UNCHANGED <<pending, uncleared>>
          /\ \/ mem'[w] = 0
             \/ mem'[w] = mem[w] /\ \A d \in Cpus : pc[d] = unlock => pc'[d] = unlock
      BY <1>a, <2>5 DEF InitUnlock, MainUnlock, Goto
    <3> QED BY <1>b, <1>c, <3>1
  <2>6. CASE CpuOn(c)
    <3>1. /\ UNCHANGED <<mem, pending, uncleared>>
          /\ pc[on_next] = "off" /\ pc' = [pc EXCEPT ![on_next] = "ldaxr"]
      BY <2>6 DEF CpuOn
    <3>2. \A d \in Cpus : pc[d] = unlock => pc'[d] = unlock
      BY <1>a, <3>1
    <3> QED BY <1>b, <3>1, <3>2
  <2> QED BY <1>3, <2>1, <2>2, <2>3, <2>4, <2>5, <2>6 DEF Step
<1> QED BY <1>1, <1>2, <1>3 DEF Next

\* The flag that is raised stays so, and its store becomes visible.
LEMMA RaisedStays == TypeOK /\ Raised /\ [Next]_vars => Raised'
<1> SUFFICES ASSUME TypeOK, Raised, [Next]_vars PROVE Raised'
  OBVIOUS
<1>a. /\ mem \in [Words \cup Flags -> Nat]
      /\ "wait_flag" \in Flags /\ "wait_flag" \notin Words
      /\ uncleared \subseteq Words
  BY DEF TypeOK, Words, Flags
<1>b. ASSUME mem'["wait_flag"] = mem["wait_flag"] \/ mem'["wait_flag"] = 1,
             mem'["wait_flag"] = 1 \/
                \A c \in Cpus : <<"wait_flag", c>> \in pending =>
                                  <<"wait_flag", c>> \in pending'
      PROVE  Raised'
  BY <1>b DEF Raised, Settled
<1>1. CASE UNCHANGED <<mem, pending>>
  BY <1>b, <1>1
<1>2. CASE Drain
  <2>1. PICK p \in pending : /\ pending' = pending \ {p}
                             /\ mem' = [mem EXCEPT ![p[1]] = Stored(p[1], p[2])]
    BY <1>2 DEF Drain
  <2>2. CASE p[1] = "wait_flag"
    BY <1>a, <1>b, <2>1, <2>2 DEF Stored
  <2>3. CASE p[1] # "wait_flag"
    <3>1. \A c \in Cpus : p # <<"wait_flag", c>>
      BY <2>3
    <3> QED BY <1>a, <1>b, <2>1, <2>3, <3>1
  <2> QED BY <2>2, <2>3
<1>3. ASSUME NEW c \in Cpus, NEW x \in Words \cup Flags, Store(x, c) PROVE Raised'
  <2>1. CASE x = "wait_flag"
    BY <1>a, <1>b, <1>3, <2>1 DEF Store, Stored
  <2>2. CASE x # "wait_flag"
    BY <1>a, <1>b, <1>3, <2>2 DEF Store
  <2> QED BY <2>1, <2>2
<1>4. ASSUME NEW c \in Cpus, InitLock(c) \/ InitUnlock(c) \/ MainLock(c) \/ MainUnlock(c)
      PROVE  Raised'
  BY <1>a, <1>b, <1>4 DEF InitLock, InitUnlock, MainLock, MainUnlock, Words
<1>5. ASSUME NEW c \in Cpus, Step(c) PROVE Raised'
  <2>1. CASE StoreMaster(c) \/ ClearWord(c) \/ RaiseFlag(c)
    BY <1>3, <1>a, <2>1 DEF StoreMaster, ClearWord, RaiseFlag, Flags
  <2>2. CASE \/ LoadExclusive(c) \/ StoreExclusive(c) \/ StoreExclusiveFails(c)
             \/ ClearDone(c) \/ PassFlag(c) \/ GicInit(c) \/ CpuOn(c) \/ CpuOnFails(c)
    BY <1>1, <2>2 DEF LoadExclusive, StoreExclusive, StoreExclusiveFails, ClearDone,
       PassFlag, GicInit, CpuOn, CpuOnFails
  <2> QED BY <1>4, <1>5, <2>1, <2>2 DEF Step
<1>6. CASE UNCHANGED vars
  BY <1>1, <1>6 DEF vars
<1> QED BY <1>2, <1>5, <1>6 DEF Next

\* The master leaves its place only by raising the flag.
LEMMA ReachStep == BootInv /\ ReachInv /\ [Next]_vars => ReachInv'
<1> SUFFICES ASSUME BootInv, ReachInv, [Next]_vars PROVE ReachInv'
  OBVIOUS
<1>a. /\ TypeOK /\ pc \in [Cpus -> Pcs] /\ mem \in [Words \cup Flags -> Nat]
      /\ "wait_flag" \in Flags
  BY DEF BootInv, TypeOK, Flags
<1>1. LockInv("init_lock", "init_unlock")' /\ LockInv("print_lock", "main_unlock")'
  BY <1>a, LockStep DEF ReachInv
<1>2. ASSUME master_cpu_set', ~Raised' PROVE \E c \in Cpus : Preparing(c)'
  <2>1. ~Raised
    BY <1>a, <1>2, RaisedStays
  <2>2. CASE UNCHANGED <<pc, master_cpu_set>>
    BY <1>2, <2>1, <2>2 DEF ReachInv, Preparing
  <2>3. ASSUME NEW c \in Cpus, Step(c) PROVE \E d \in Cpus : Preparing(d)'
    <3>1. CASE StoreExclusive(c)
      BY <1>a, <3>1 DEF StoreExclusive, Goto, Preparing
    <3>2. CASE RaiseFlag(c)
      <4>1. Raised'
        BY <1>a, <3>2 DEF RaiseFlag, Store, Stored, Raised, Settled
      <4> QED BY <1>2, <4>1
    <3>3. CASE StoreMaster(c) \/ ClearDone(c)
      BY <1>a, <3>3 DEF StoreMaster, ClearDone, Goto, Preparing
    <3>4. CASE ClearWord(c)
      BY <2>2, <3>4 DEF ClearWord
    <3>5. CASE \/ LoadExclusive(c) \/ StoreExclusiveFails(c) \/ PassFlag(c)
               \/ InitLock(c) \/ InitUnlock(c) \/ GicInit(c) \/ CpuOn(c)
               \/ CpuOnFails(c) \/ MainLock(c) \/ MainUnlock(c)
      <4>1. master_cpu_set' = master_cpu_set
        BY <3>5 DEF LoadExclusive, StoreExclusiveFails, PassFlag, InitLock, InitUnlock,
           GicInit, CpuOn, CpuOnFails, MainLock, MainUnlock
      <4>2. PICK d \in Cpus : Preparing(d)
        BY <1>2, <2>1, <4>1 DEF ReachInv
      <4>3. pc'[d] = pc[d]
        BY <1>a, <3>5, <4>2 DEF LoadExclusive, StoreExclusiveFails, PassFlag, InitLock,
           InitUnlock, GicInit, CpuOn, CpuOnFails, MainLock, MainUnlock, Goto, Preparing
      <4> QED BY <4>2, <4>3 DEF Preparing
    <3> QED BY <2>3, <3>1, <3>2, <3>3, <3>4, <3>5 DEF Step
  <2>4. CASE Drain
    BY <2>2, <2>4 DEF Drain
  <2>5. CASE UNCHANGED vars
    BY <2>2, <2>5 DEF vars
  <2> QED BY <2>3, <2>4, <2>5 DEF Next
<1> QED BY <1>1, <1>2 DEF ReachInv

\* Who waits for the flag waits for the master, who waits for a lock for its
\* holder, and who is off for processor 0.
LEMMA ReachIsEnough == BootInv /\ OffInv /\ ReachInv => SomebodyGoesOn
<1> SUFFICES ASSUME BootInv, OffInv, ReachInv, pending = {},
                    NEW a \in Cpus, pc[a] \notin {"loop", "exit"}
             PROVE  \E c \in Cpus : CanGoOn(c)
  BY DEF SomebodyGoesOn
<1> USE GuestBootAssumption
<1>a. /\ pc \in [Cpus -> Pcs] /\ 0 \in Cpus
      /\ \A x, c : Settled(x, c)
  BY DEF BootInv, TypeOK, Cpus, Settled
<1>1. ASSUME NEW c \in Cpus, pc[c] \notin {"off", "loop", "exit"}
      PROVE  \E d \in Cpus : CanGoOn(d)
  <2>1. CASE pc[c] = "wait" /\ mem["wait_flag"] # 1
    <3>1. master_cpu_set /\ ~Raised
      BY <1>a, <2>1 DEF BootInv, ElectionInv, Raised
    <3>2. PICK d \in Cpus : Preparing(d)
      BY <3>1 DEF ReachInv
    <3> QED BY <3>2 DEF Preparing, CanGoOn
  <2>2. CASE pc[c] = "init" /\ mem["init_lock"] # 0
    <3>1. uncleared = {}
      BY <2>2 DEF BootInv, PrepareInv, InC
    <3>2. PICK d \in Cpus : pc[d] = "init_unlock"
      BY <1>a, <2>2, <3>1 DEF ReachInv, LockInv
    <3> QED BY <3>2 DEF CanGoOn
  <2>3. CASE pc[c] = "main" /\ mem["print_lock"] # 0
    <3>1. uncleared = {}
      BY <2>3 DEF BootInv, PrepareInv, InC
    <3>2. PICK d \in Cpus : pc[d] = "main_unlock"
      BY <1>a, <2>3, <3>1 DEF ReachInv, LockInv
    <3> QED BY <3>2 DEF CanGoOn
  <2> QED BY <1>1, <1>a, <2>1, <2>2, <2>3 DEF CanGoOn
<1>2. CASE pc[a] = "off"
  <2>1. pc[0] \in Before \cup {"psci"}
    BY <1>2, <1>a DEF OffInv
  <2> QED BY <1>1, <1>a, <2>1 DEF Before
<1> QED BY <1>1, <1>2

\* However many processors there are, whatever .bss held before and in whatever
\* order stores become visible: the loop over psci_cpu_on() reaches everybody,
\* and the boot does not stop half-way.
THEOREM BootGoesOn == Spec => [](OffInv /\ SomebodyGoesOn)
<1>1. ASSUME Init PROVE OffInv
  <2>1. 0 \in Cpus
    BY GuestBootAssumption DEF Cpus
  <2>2. \A c \in Cpus : pc[c] = IF how.together \/ c = 0 THEN "ldaxr" ELSE "off"
    BY <1>1 DEF Init
  <2> QED BY <2>1, <2>2 DEF OffInv, Before
<1>2. Init => ReachInv
  BY DEF Init, ReachInv, LockInv, Words
<1>3. BootInv /\ OffInv /\ ReachInv => OffInv /\ SomebodyGoesOn
  BY ReachIsEnough
<1> QED BY <1>1, <1>2, <1>3, OffStep, ReachStep, BootInvariant, PTL DEF Spec

-----------------------------------------------------------------------------
(* The two locks in .bss are used as locks.                                *)

\* The processor at a place that is before the release of a lock.
HolderAt(l) ==
    IF \E c \in Cpus : pc[c] = l THEN CHOOSE c \in Cpus : pc[c] = l ELSE NoCpu

InitService  == INSTANCE LockService
                  WITH Nobody <- NoCpu, holder <- HolderAt("init_unlock")
PrintService == INSTANCE LockService
                  WITH Nobody <- NoCpu, holder <- HolderAt("main_unlock")

\* The holder of the lock w finds it taken, there is one at most, and no late
\* store of the clear loop can give the lock away.
HeldInv(w, l) ==
    /\ \A c \in Cpus : pc[c] = l => mem[w] = 1 /\ \A d \in Cpus : Settled(w, d)
    /\ \A c, d \in Cpus : pc[c] = l /\ pc[d] = l => c = d

\* The holder is known.
HolderKnown(l) ==
    /\ \A c \in Cpus : pc[c] = l <=> HolderAt(l) = c
    /\ (\A c \in Cpus : pc[c] # l) => HolderAt(l) = NoCpu

\* There is one holder at most.
LEMMA HolderIs == ASSUME NEW w, NEW l PROVE HeldInv(w, l) => HolderKnown(l)
<1>1. NoCpu \notin Cpus
  BY GuestBootAssumption DEF NoCpu, Cpus
<1> QED BY <1>1 DEF HeldInv, HolderAt, HolderKnown

\* A step that changes nobody's place before a release changes no holder; the
\* other ones bring one processor there, or away.
LEMMA HolderMoves ==
    ASSUME NEW l, HolderKnown(l), HolderKnown(l)',
           \/ \A c \in Cpus : pc'[c] = l <=> pc[c] = l
           \/ /\ \A c \in Cpus : pc[c] # l
              /\ \E c \in Cpus : pc'[c] = l
           \/ /\ \A c \in Cpus : pc'[c] # l
              /\ \E c \in Cpus : pc[c] = l
    PROVE  \/ HolderAt(l)' = HolderAt(l)
           \/ /\ HolderAt(l) = NoCpu /\ HolderAt(l)' \in Cpus
           \/ /\ HolderAt(l) \in Cpus /\ HolderAt(l)' = NoCpu
<1>1. /\ \A c \in Cpus : pc[c] = l <=> HolderAt(l) = c
      /\ (\A c \in Cpus : pc[c] # l) => HolderAt(l) = NoCpu
  BY DEF HolderKnown
<1>2. /\ \A c \in Cpus : pc'[c] = l <=> HolderAt(l)' = c
      /\ (\A c \in Cpus : pc'[c] # l) => HolderAt(l)' = NoCpu
  BY DEF HolderKnown
<1>3. CASE \A c \in Cpus : pc'[c] = l <=> pc[c] = l
  BY <1>1, <1>2, <1>3
<1>4. CASE (\A c \in Cpus : pc[c] # l) /\ \E c \in Cpus : pc'[c] = l
  BY <1>1, <1>2, <1>4
<1>5. CASE (\A c \in Cpus : pc'[c] # l) /\ \E c \in Cpus : pc[c] = l
  BY <1>1, <1>2, <1>5
<1> QED BY <1>3, <1>4, <1>5

\* The invariant of init_lock: until it is held nobody but the master stores to
\* it, and the master is not preparing when somebody is in C.
LEMMA InitHeldStep ==
    ASSUME \A b \in Boots : ~b.together \/ ~b.reorders
    PROVE  /\ BootInv /\ HeldInv("init_lock", "init_unlock") /\ [Next]_vars
           => HeldInv("init_lock", "init_unlock")'
<1> SUFFICES ASSUME BootInv, HeldInv("init_lock", "init_unlock"), [Next]_vars
             PROVE  HeldInv("init_lock", "init_unlock")'
  OBVIOUS
<1> USE GuestBootAssumption
<1>a. /\ pc \in [Cpus -> Pcs] /\ mem \in [Words \cup Flags -> Nat]
      /\ {"print_lock", "init_lock", "init_done", "ticket"} \subseteq Words
  BY DEF BootInv, TypeOK, Words
<1>b. ~how.together \/ ~how.reorders
  BY DEF BootInv, TypeOK
<1>c. \A c \in Cpus : pc[c] = "init" =>
         pending = {} \/ (c = 0 /\ \A p \in pending : p[2] = 0)
  BY <1>b DEF BootInv, PendingInv
\* Most steps leave the word and its holder alone.
<1>d. ASSUME \A c \in Cpus : pc'[c] = "init_unlock" => pc[c] = "init_unlock",
             pending' \subseteq pending,
             (\E c \in Cpus : pc[c] = "init_unlock") => mem'["init_lock"] = mem["init_lock"]
      PROVE  HeldInv("init_lock", "init_unlock")'
  BY <1>d DEF HeldInv, Settled
<1>1. CASE UNCHANGED vars
  BY <1>1, <1>d DEF vars
<1>2. CASE Drain
  <2>1. PICK p \in pending : pending' = pending \ {p}
                  /\ mem' = [mem EXCEPT ![p[1]] = Stored(p[1], p[2])]
    BY <1>2 DEF Drain
  <2>2. p = <<p[1], p[2]>> /\ p[2] \in Cpus
    BY DEF BootInv, TypeOK
  <2>3. (\E c \in Cpus : pc[c] = "init_unlock") => p[1] # "init_lock"
    BY <2>2 DEF HeldInv, Settled
  <2>4. (\E c \in Cpus : pc[c] = "init_unlock") => mem'["init_lock"] = mem["init_lock"]
    BY <2>1, <2>3, <1>a
  <2> QED BY <1>2, <1>d, <2>1, <2>4 DEF Drain
<1>3. ASSUME NEW c \in Cpus, Step(c) PROVE HeldInv("init_lock", "init_unlock")'
  <2>1. CASE \/ LoadExclusive(c) \/ StoreExclusive(c) \/ StoreExclusiveFails(c)
             \/ ClearDone(c) \/ PassFlag(c) \/ GicInit(c) \/ CpuOnFails(c)
    <3>1. /\ UNCHANGED <<mem, pending>>
          /\ \E l \in Pcs \ {"init_unlock"} : pc' = [pc EXCEPT ![c] = l]
      BY <2>1 DEF LoadExclusive, StoreExclusive, StoreExclusiveFails, ClearDone, PassFlag,
         GicInit, CpuOnFails, Goto, Pcs
    <3> QED BY <1>a, <1>d, <3>1
  <2>2. CASE StoreMaster(c) \/ ClearWord(c) \/ RaiseFlag(c)
    <3>1. Preparing(c)
      BY <2>2 DEF StoreMaster, ClearWord, RaiseFlag, Preparing
    <3>2. \A d \in Cpus : pc[d] # "init_unlock"
      BY <3>1 DEF BootInv, PrepareInv, InC
    <3>3. pc' = pc \/ \E l \in {"clear", "wait"} : pc' = [pc EXCEPT ![c] = l]
      BY <2>2 DEF StoreMaster, ClearWord, RaiseFlag, Goto
    <3>4. \A d \in Cpus : pc'[d] # "init_unlock"
      BY <3>2, <3>3, <1>a
    <3> QED BY <3>4 DEF HeldInv
  <2>3. CASE CpuOn(c)
    BY <1>a, <1>d, <2>3 DEF CpuOn
  <2>4. CASE MainLock(c) \/ MainUnlock(c)
    BY <1>a, <1>d, <2>4 DEF MainLock, MainUnlock, Goto
  <2>5. CASE InitLock(c)
    <3>1. \A d \in Cpus : pc[d] # "init_unlock"
      BY <2>5 DEF InitLock, HeldInv
    <3>2. \A d \in Cpus : pc'[d] = "init_unlock" => d = c
      BY <1>a, <2>5, <3>1 DEF InitLock, Goto
    <3>3. mem'["init_lock"] = 1 /\ pending' = pending
      BY <1>a, <2>5 DEF InitLock
    <3>4. \A d \in Cpus : <<"init_lock", d>> \notin pending
      BY <1>c, <2>5 DEF InitLock, Settled
    <3> QED BY <3>2, <3>3, <3>4 DEF HeldInv, Settled
  <2>6. CASE InitUnlock(c)
    <3>1. \A d \in Cpus : pc'[d] # "init_unlock"
      BY <1>a, <2>6 DEF InitUnlock, Goto, HeldInv
    <3> QED BY <3>1 DEF HeldInv
  <2> QED BY <1>3, <2>1, <2>2, <2>3, <2>4, <2>5, <2>6 DEF Step
<1> QED BY <1>1, <1>2, <1>3 DEF Next

\* Where each step brings the processors that are before a release.
LEMMA HoldersStep ==
    ASSUME TypeOK, [Next]_vars, NEW w, NEW l, HeldInv(w, l), HeldInv(w, l)',
           \/ w = "init_lock" /\ l = "init_unlock"
           \/ w = "print_lock" /\ l = "main_unlock"
    PROVE  \/ \A c \in Cpus : pc'[c] = l <=> pc[c] = l
           \/ /\ \A c \in Cpus : pc[c] # l
              /\ \E c \in Cpus : pc'[c] = l
           \/ /\ \A c \in Cpus : pc'[c] # l
              /\ \E c \in Cpus : pc[c] = l
<1>a. pc \in [Cpus -> Pcs]
  BY DEF TypeOK
<1>1. CASE UNCHANGED pc
  BY <1>1
<1>2. ASSUME NEW c \in Cpus, InitLock(c) \/ MainLock(c)
      PROVE  \/ \A d \in Cpus : pc'[d] = l <=> pc[d] = l
             \/ (\A d \in Cpus : pc[d] # l) /\ \E d \in Cpus : pc'[d] = l
  <2>1. \/ pc' = [pc EXCEPT ![c] = l] /\ mem[w] = 0
        \/ pc[c] # l /\ \E k \in Pcs \ {l} : pc' = [pc EXCEPT ![c] = k]
    BY <1>2 DEF InitLock, MainLock, Goto, Pcs
  <2> QED BY <1>a, <2>1 DEF HeldInv
<1>3. ASSUME NEW c \in Cpus, InitUnlock(c) \/ MainUnlock(c)
      PROVE  \/ \A d \in Cpus : pc'[d] = l <=> pc[d] = l
             \/ (\A d \in Cpus : pc'[d] # l) /\ \E d \in Cpus : pc[d] = l
  <2>1. \E k \in Pcs \ {l} : pc' = [pc EXCEPT ![c] = k]
    BY <1>3 DEF InitUnlock, MainUnlock, Goto, Pcs
  <2> QED BY <1>a, <2>1 DEF HeldInv
<1>4. ASSUME NEW c \in Cpus,
             \/ LoadExclusive(c) \/ StoreExclusive(c) \/ StoreExclusiveFails(c)
             \/ StoreMaster(c) \/ ClearWord(c) \/ ClearDone(c) \/ RaiseFlag(c)
             \/ PassFlag(c) \/ GicInit(c) \/ CpuOn(c) \/ CpuOnFails(c)
      PROVE  \A d \in Cpus : pc'[d] = l <=> pc[d] = l
  <2>1. \/ pc' = pc
        \/ \E d \in Cpus, k \in Pcs \ {"init_unlock", "main_unlock"} :
              /\ pc[d] \notin {"init_unlock", "main_unlock"}
              /\ pc' = [pc EXCEPT ![d] = k]
    BY <1>4 DEF LoadExclusive, StoreExclusive, StoreExclusiveFails, StoreMaster,
       ClearWord, ClearDone, RaiseFlag, PassFlag, GicInit, CpuOn, CpuOnFails, Goto, Pcs
  <2> QED BY <1>a, <2>1
<1>5. ASSUME NEW c \in Cpus, Step(c)
      PROVE  \/ InitLock(c) \/ MainLock(c) \/ InitUnlock(c) \/ MainUnlock(c)
             \/ \A d \in Cpus : pc'[d] = l <=> pc[d] = l
  BY <1>4, <1>5 DEF Step
<1> QED BY <1>1, <1>2, <1>3, <1>5 DEF Next, Drain, vars

\* Both words are used as the locks that SpinLock implements: each is taken
\* when nobody has it, by the processor that gives it back, and no late zero of
\* the clear loop frees it before.  The condition is that of StartsClean.
THEOREM UsesLocks ==
    ASSUME \A b \in Boots : ~b.together \/ ~b.reorders
    PROVE  Spec => InitService!Spec /\ PrintService!Spec
<1> DEFINE I == HeldInv("init_lock", "init_unlock")
           P == HeldInv("print_lock", "main_unlock")
           KI == HolderKnown("init_unlock")
           KP == HolderKnown("main_unlock")
<1>1. Init => I /\ TicketInv
  BY DEF Init, HeldInv, TicketInv, Served
<1>2. Init => InitService!Init /\ PrintService!Init
  BY DEF Init, InitService!Init, PrintService!Init, HolderAt
<1>3. TicketInv => P
  BY DEF TicketInv, HeldInv, Served
<1>4. (I => KI) /\ (P => KP)
  BY HolderIs
<1>5. BootInv /\ I /\ I' /\ KI /\ KI' /\ [Next]_vars
        => [InitService!Next]_(HolderAt("init_unlock"))
  <2> SUFFICES ASSUME BootInv, I, I', KI, KI', [Next]_vars
               PROVE  [InitService!Next]_(HolderAt("init_unlock"))
    OBVIOUS
  <2>1. \/ HolderAt("init_unlock")' = HolderAt("init_unlock")
        \/ HolderAt("init_unlock") = NoCpu /\ HolderAt("init_unlock")' \in Cpus
        \/ HolderAt("init_unlock") \in Cpus /\ HolderAt("init_unlock")' = NoCpu
    BY HoldersStep, HolderMoves DEF BootInv
  <2> QED BY <2>1 DEF InitService!Next, InitService!Acquire, InitService!Release
<1>6. BootInv /\ P /\ P' /\ KP /\ KP' /\ [Next]_vars
        => [PrintService!Next]_(HolderAt("main_unlock"))
  <2> SUFFICES ASSUME BootInv, P, P', KP, KP', [Next]_vars
               PROVE  [PrintService!Next]_(HolderAt("main_unlock"))
    OBVIOUS
  <2>1. \/ HolderAt("main_unlock")' = HolderAt("main_unlock")
        \/ HolderAt("main_unlock") = NoCpu /\ HolderAt("main_unlock")' \in Cpus
        \/ HolderAt("main_unlock") \in Cpus /\ HolderAt("main_unlock")' = NoCpu
    BY HoldersStep, HolderMoves DEF BootInv
  <2> QED BY <2>1 DEF PrintService!Next, PrintService!Acquire, PrintService!Release
<1>7. BootInv /\ I /\ [Next]_vars => I'
  BY InitHeldStep
<1>8. BootInv /\ TicketInv /\ [Next]_vars => TicketInv'
  BY TicketStep
<1> HIDE DEF I, P, KI, KP
<1> QED BY <1>1, <1>2, <1>3, <1>4, <1>5, <1>6, <1>7, <1>8, BootInvariant, PTL
        DEF Spec, InitService!Spec, PrintService!Spec

-----------------------------------------------------------------------------
(* Every boot comes to an end.                                             *)

\* The steps that processor c has still to make at most, if its
\* store-exclusive succeeds and the words are cleared.
Left(c) ==
    CASE pc[c] \in {"loop", "exit"} -> 0
      [] pc[c] = "main_unlock" -> 1
      [] pc[c] = "main"        -> 2
      [] pc[c] = "psci"        -> 3 + (IF how.together THEN 0 ELSE NumCpus - on_next)
      [] pc[c] = "gic"         -> NumCpus + 4
      [] pc[c] = "init_unlock" -> NumCpus + 5
      [] pc[c] = "init"        -> NumCpus + 6
      [] pc[c] = "wait"        -> NumCpus + 7
      [] pc[c] = "flag"        -> NumCpus + 8
      [] pc[c] = "clear"       -> NumCpus + 9
      [] pc[c] = "master"      -> NumCpus + 10
      [] pc[c] = "stlxr"       -> NumCpus + 11
      [] pc[c] = "ldaxr"       -> NumCpus + 12
      [] pc[c] = "off"         -> NumCpus + 13

\* A step leads forward: one processor has less to do and none has more, or a
\* word less is to be cleared, or a store less is to become visible.
Forward ==
    \/ /\ \E c \in Cpus : Left(c)' < Left(c)
       /\ \A c \in Cpus : Left(c)' <= Left(c)
       /\ UNCHANGED uncleared
    \/ /\ uncleared' \subseteq uncleared /\ uncleared' # uncleared
       /\ UNCHANGED <<how, pc, on_next>>
    \/ /\ pending' \subseteq pending /\ pending' # pending
       /\ UNCHANGED <<how, pc, on_next, uncleared>>

\* The steps left are a number.
LeftTyped == \A c \in Cpus : Left(c) \in Nat

\* On every processor and at every place.
LEMMA LeftIsNat == TypeOK => LeftTyped
  BY GuestBootAssumption DEF TypeOK, Pcs, Left, LeftTyped

\* Nothing but a store-exclusive that fails leads back: no processor switches
\* another one on twice, clears a word twice, or runs arch_init or the critical
\* section in main again, in whatever order stores become visible.  With
\* SomebodyGoesOn, and as Left is a number and .bss finite, a boot ends unless
\* store-exclusives fail for ever.
THEOREM BootGoesForward ==
    Spec => [][(\E c \in Cpus : StoreExclusiveFails(c)) \/ Forward]_vars
<1>1. TypeOK /\ TypeOK' /\ OffInv /\ OffInv' /\ LeftTyped /\ LeftTyped' /\ [Next]_vars
        => [(\E c \in Cpus : StoreExclusiveFails(c)) \/ Forward]_vars
  <2> SUFFICES ASSUME TypeOK, TypeOK', OffInv, OffInv', LeftTyped, LeftTyped', Next,
                      \A c \in Cpus : ~StoreExclusiveFails(c)
               PROVE  Forward
    OBVIOUS
  <2>1. CASE Drain
    <3>1. /\ \E p \in pending : pending' = pending \ {p}
          /\ UNCHANGED <<how, pc, on_next, uncleared>>
      BY <2>1 DEF Drain
    <3> QED BY <3>1 DEF Forward
  <2>2. ASSUME NEW c \in Cpus, Step(c) PROVE Forward
    <3> USE GuestBootAssumption
    <3>a. /\ pc \in [Cpus -> Pcs] /\ on_next \in Nat /\ on_next <= NumCpus
          /\ NumCpus \in Nat /\ Cpus \subseteq Nat /\ how' = how
      BY <2>2 DEF TypeOK, Cpus, Step, LoadExclusive, StoreExclusive, StoreExclusiveFails,
         StoreMaster, ClearWord, ClearDone, RaiseFlag, PassFlag, InitLock, InitUnlock,
         GicInit, CpuOn, CpuOnFails, MainLock, MainUnlock
    <3>b. ASSUME NEW l \in Pcs, pc' = [pc EXCEPT ![c] = l],
                 UNCHANGED <<on_next, uncleared>>, Left(c)' < Left(c)
          PROVE  Forward
      <4>1. \A d \in Cpus \ {c} : Left(d)' = Left(d)
        BY <3>a, <3>b DEF Left
      <4>2. \A d \in Cpus : Left(d) \in Nat /\ Left(d)' \in Nat
        BY DEF LeftTyped
      <4> QED BY <3>b, <4>1, <4>2 DEF Forward
    <3>1. CASE ClearWord(c)
      BY <3>1, <3>a DEF ClearWord, Forward
    <3>2. CASE LoadExclusive(c)
      <4>1. \E l \in {"wait", "stlxr"} : pc' = [pc EXCEPT ![c] = l]
        BY <3>2 DEF LoadExclusive, Goto
      <4>2. pc[c] = "ldaxr" /\ UNCHANGED <<on_next, uncleared>>
        BY <3>2 DEF LoadExclusive
      <4>3. Left(c)' < Left(c)
        BY <3>a, <4>1, <4>2 DEF Left
      <4> QED BY <3>b, <4>1, <4>2, <4>3 DEF Pcs
    <3>3. CASE StoreExclusive(c) \/ StoreMaster(c) \/ ClearDone(c)
      <4>1. /\ UNCHANGED <<on_next, uncleared>>
            /\ \/ pc[c] = "stlxr" /\ pc' = [pc EXCEPT ![c] = "master"]
               \/ pc[c] = "master" /\ pc' = [pc EXCEPT ![c] = "clear"]
               \/ pc[c] = "clear" /\ pc' = [pc EXCEPT ![c] = "flag"]
        BY <3>3 DEF StoreExclusive, StoreMaster, ClearDone, Goto
      <4>2. Left(c)' < Left(c)
        BY <3>a, <4>1 DEF Left
      <4> QED BY <3>b, <4>1, <4>2 DEF Pcs
    <3>4. CASE RaiseFlag(c) \/ PassFlag(c) \/ InitLock(c) \/ InitUnlock(c)
      <4>1. /\ UNCHANGED <<on_next, uncleared>>
            /\ \/ pc[c] = "flag" /\ pc' = [pc EXCEPT ![c] = "wait"]
               \/ pc[c] = "wait" /\ pc' = [pc EXCEPT ![c] = "init"]
               \/ pc[c] = "init" /\ pc' = [pc EXCEPT ![c] = "init_unlock"]
               \/ pc[c] = "init_unlock" /\ pc' = [pc EXCEPT ![c] = "gic"]
        BY <3>4 DEF RaiseFlag, PassFlag, InitLock, InitUnlock, Goto
      <4>2. Left(c)' < Left(c)
        BY <3>a, <4>1 DEF Left
      <4> QED BY <3>b, <4>1, <4>2 DEF Pcs
    <3>5. CASE MainLock(c) \/ MainUnlock(c)
      <4>1. /\ UNCHANGED <<on_next, uncleared>>
            /\ \/ pc[c] = "main" /\ pc' = [pc EXCEPT ![c] = "main_unlock"]
               \/ pc[c] = "main_unlock" /\ pc' = [pc EXCEPT ![c] = "exit"]
               \/ pc[c] = "main_unlock" /\ pc' = [pc EXCEPT ![c] = "loop"]
        BY <3>5 DEF MainLock, MainUnlock, Goto
      <4>2. Left(c)' < Left(c)
        BY <3>a, <4>1 DEF Left
      <4> QED BY <3>b, <4>1, <4>2 DEF Pcs
    \* The number in on_next changes: nobody else is in the loop that reads it.
    <3>6. CASE GicInit(c)
      <4>1. /\ pc[c] = "gic" /\ UNCHANGED uncleared
            /\ \/ pc' = [pc EXCEPT ![c] = "psci"] /\ on_next' = c + 1
               \/ pc' = [pc EXCEPT ![c] = "main"] /\ on_next' = on_next
        BY <3>6 DEF GicInit, Goto
      <4>2. CASE pc' = [pc EXCEPT ![c] = "main"] /\ on_next' = on_next
        <5>1. Left(c)' < Left(c)
          BY <3>a, <4>1, <4>2 DEF Left
        <5> QED BY <3>b, <4>1, <4>2, <5>1 DEF Pcs
      <4>3. CASE pc' = [pc EXCEPT ![c] = "psci"] /\ on_next' = c + 1
        <5>1. Left(c)' < Left(c)
          BY <3>a, <4>1, <4>3 DEF Left
        <5>2. ~how.together => \A d \in Cpus \ {c} : pc[d] # "psci" /\ pc'[d] # "psci"
          BY <3>a, <4>3 DEF OffInv
        <5>3. \A d \in Cpus \ {c} : Left(d)' = Left(d)
          <6> TAKE d \in Cpus \ {c}
          <6>1. pc'[d] = pc[d] /\ how' = how
            BY <3>a, <4>3
          <6>2. CASE pc[d] = "psci" /\ how.together
            BY <6>1, <6>2 DEF Left
          <6>3. CASE pc[d] # "psci"
            BY <6>1, <6>3 DEF Left
          <6> QED BY <5>2, <6>2, <6>3
        <5>4. \A d \in Cpus : Left(d) \in Nat /\ Left(d)' \in Nat
          BY DEF LeftTyped
        <5> QED BY <4>1, <5>1, <5>3, <5>4 DEF Forward
      <4> QED BY <4>1, <4>2, <4>3
    <3>7. CASE CpuOn(c)
      <4>1. /\ pc[c] = "psci" /\ on_next \in Cpus /\ pc[on_next] = "off"
            /\ pc' = [pc EXCEPT ![on_next] = "ldaxr"] /\ on_next' = on_next + 1
            /\ uncleared' = uncleared
        BY <3>7 DEF CpuOn
      <4>2. ~how.together /\ c = 0 /\ on_next # c
        BY <4>1 DEF OffInv
      <4>3. pc'[c] = "psci" /\ pc'[on_next] = "ldaxr"
        BY <3>a, <4>1, <4>2
      <4>4. Left(c)' < Left(c)
        BY <3>a, <4>1, <4>2, <4>3 DEF Left
      <4>5. \A d \in Cpus : Left(d) \in Nat /\ Left(d)' \in Nat
        BY DEF LeftTyped
      <4>6. \A d \in Cpus : Left(d)' <= Left(d)
        <5> TAKE d \in Cpus
        <5>1. CASE d = c
          BY <4>4, <4>5, <5>1
        <5>2. CASE d = on_next
          <6>1. pc[d] = "off" /\ pc'[d] = "ldaxr"
            BY <4>1, <4>3, <5>2
          <6>2. Left(d) = NumCpus + 13 /\ Left(d)' = NumCpus + 12
            BY <6>1 DEF Left
          <6> QED BY <3>a, <6>2
        <5>3. CASE d \notin {c, on_next}
          <6>1. pc'[d] = pc[d] /\ pc[d] # "psci"
            BY <3>a, <4>1, <4>2, <5>3 DEF OffInv
          <6>2. Left(d)' = Left(d)
            BY <3>a, <6>1 DEF Left
          <6> QED BY <4>5, <6>2
        <5> QED BY <5>1, <5>2, <5>3
      <4> QED BY <4>1, <4>4, <4>6 DEF Forward
    <3>8. CASE CpuOnFails(c)
      <4>1. /\ UNCHANGED <<on_next, uncleared>>
            /\ pc[c] = "psci" /\ pc' = [pc EXCEPT ![c] = "main"]
        BY <3>8 DEF CpuOnFails, Goto
      <4>2. Left(c)' < Left(c)
        BY <3>a, <4>1 DEF Left
      <4> QED BY <3>b, <4>1, <4>2 DEF Pcs
    <3> QED BY <2>2, <3>1, <3>2, <3>3, <3>4, <3>5, <3>6, <3>7, <3>8 DEF Step
  <2> QED BY <2>1, <2>2 DEF Next
<1> QED BY <1>1, LeftIsNat, TypeCorrect, BootGoesOn, PTL DEF Spec
=============================================================================
