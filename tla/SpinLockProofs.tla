-------------------------- MODULE SpinLockProofs --------------------------
(* SpinLock for any set of processors.                                     *)
EXTENDS SpinLock, TLAPS

\* A processor that loaded 0 and still has its reservation sees the word as
\* it is: the store that takes the lock ends every other reservation.
ReservedFree ==
    \A c \in Cpus :
        /\ pc[c] = "store" /\ monitor[c] => lock = 0
        /\ pc[c] = "test" /\ monitor[c] /\ tmp[c] = 0 => lock = 0

\* The word is 1 exactly while there is an owner, and there is one at most.
OwnerInv ==
    /\ \A c, d \in Cpus : Owns(c) /\ Owns(d) => c = d
    /\ lock = 1 <=> \E c \in Cpus : Owns(c)

\* Stores wait from the critical section to the fence.
Waiting ==
    \A c \in Cpus :
        /\ pc[c] \notin {"unlock", "fence"} => buffer[c] = {}
        /\ pc[c] = "unlock" => "lock" \notin buffer[c]

\* On Armv8 the protected word waits in its owner's buffer or is seen.
Fresh ==
    arch = "armv8" =>
        /\ \A c \in Cpus : "data" \in buffer[c] => Owns(c) /\ last = c
        /\ (\A c \in Cpus : "data" \notin buffer[c]) => data = last

Inv == TypeOK /\ ReservedFree /\ OwnerInv /\ Waiting /\ Fresh

\* The free lock is held by nobody.
LEMMA InvInit == Init => Inv
  BY DEF Init, Inv, TypeOK, ReservedFree, OwnerInv, Waiting, Fresh, Owns, Pcs

\* The steps of spin_lock() do not touch the word.
LEMMA InvEnter ==
    ASSUME Inv, NEW c \in Cpus, Call(c) \/ Enter(c), UNCHANGED <<arch, word>>
    PROVE  Inv'
<1> USE DEF Inv, TypeOK, ReservedFree, OwnerInv, Waiting, Fresh, Owns, Pcs, Goto, word
<1>1. CASE Call(c)
  BY <1>1 DEF Call
<1>2. CASE Load(c)
  BY <1>2 DEF Load
<1>3. CASE Test(c)
  BY <1>3 DEF Test
<1>4. CASE StoreSucceeds(c)
  BY <1>4 DEF StoreSucceeds
<1>5. CASE StoreFails(c)
  BY <1>5 DEF StoreFails
<1>6. CASE Retry(c)
  BY <1>6 DEF Retry
<1> HIDE DEF Inv
<1> QED BY <1>1, <1>2, <1>3, <1>4, <1>5, <1>6 DEF Enter

\* The critical section and spin_unlock().
LEMMA InvExit ==
    ASSUME Inv, NEW c \in Cpus, Exit(c), UNCHANGED arch
    PROVE  Inv'
<1> USE DEF Inv, TypeOK, ReservedFree, OwnerInv, Waiting, Fresh, Owns, Pcs, Goto, word
<1>1. CASE Work(c)
  BY <1>1 DEF Work
<1>2. CASE Unlock(c)
  BY <1>2 DEF Unlock
<1>3. CASE ShowData(c)
  BY <1>3 DEF ShowData
<1>4. CASE ShowLock(c)
  BY <1>4 DEF ShowLock
<1>5. CASE Fence(c)
  BY <1>5 DEF Fence
<1> HIDE DEF Inv
<1> QED BY <1>1, <1>2, <1>3, <1>4, <1>5 DEF Exit

\* Every step keeps the lock word, its holder and the protected word together.
LEMMA InvHolds == Spec => []Inv
<1>1. Inv /\ [Next]_vars => Inv'
  <2>1. Inv /\ UNCHANGED vars => Inv'
    BY DEF vars, word, Inv, TypeOK, ReservedFree, OwnerInv, Waiting, Fresh, Owns
  <2> QED BY <2>1, InvEnter, InvExit DEF Next
<1> QED BY <1>1, InvInit, PTL DEF Spec

\* Two processors are never both past spin_lock(), and on Armv8 who gets past
\* it reads what the last one wrote.
THEOREM LockIsOne == Spec => []LockProtects
<1>1. Inv => LockProtects
  BY DEF Inv, OwnerInv, Waiting, Fresh, Owns, LockProtects
<1> QED BY <1>1, InvHolds, PTL

\* Every step is one of LockService, or leaves its variables alone.
LEMMA ServiceStep ==
    ASSUME Inv, Inv', [Next]_vars
    PROVE  [Service!Next]_Holder
<1> USE SpinLockAssumption
<1>1. \A c \in Cpus : Owns(c) => Holder = c
  BY DEF Inv, OwnerInv, Holder
<1>2. \A c \in Cpus : Owns(c)' => Holder' = c
  BY DEF Inv, OwnerInv, Holder
<1>3. (\A c \in Cpus : ~Owns(c)) => Holder = Nobody
  BY DEF Holder
<1>4. (\A c \in Cpus : ~Owns(c)') => Holder' = Nobody
  BY DEF Holder
<1>5. ASSUME \A c \in Cpus : Owns(c)' <=> Owns(c)
      PROVE  Holder' = Holder
  BY <1>1, <1>2, <1>3, <1>4, <1>5
<1>6. ASSUME NEW c \in Cpus, StoreSucceeds(c)
      PROVE  Holder = Nobody /\ Holder' = c
  <2>1. \A d \in Cpus : ~Owns(d)
    BY <1>6 DEF Inv, TypeOK, OwnerInv, ReservedFree, StoreSucceeds
  <2>2. Owns(c)'
    BY <1>6 DEF Inv, TypeOK, StoreSucceeds, Goto, Owns
  <2> QED BY <2>1, <2>2, <1>2, <1>3
<1>7. ASSUME NEW c \in Cpus, ShowLock(c)
      PROVE  Holder = c /\ Holder' = Nobody
  <2>1. Owns(c)
    BY <1>7 DEF ShowLock, Inv, TypeOK, Waiting, Pcs, Owns
  <2>2. \A d \in Cpus : ~Owns(d)'
    BY <1>7, <2>1 DEF Inv, TypeOK, OwnerInv, Waiting, ShowLock, Owns
  <2> QED BY <2>1, <2>2, <1>1, <1>4
<1>8. ASSUME NEW c \in Cpus, UNCHANGED word,
             Call(c) \/ Load(c) \/ Test(c) \/ StoreFails(c) \/ Retry(c)
      PROVE  \A d \in Cpus : Owns(d)' <=> Owns(d)
  BY <1>8 DEF Inv, TypeOK, Owns, Goto, Call, Load, Test, StoreFails, Retry, word
<1>9. ASSUME NEW c \in Cpus, Work(c) \/ Unlock(c) \/ ShowData(c) \/ Fence(c)
      PROVE  \A d \in Cpus : Owns(d)' <=> Owns(d)
  BY <1>9 DEF Inv, TypeOK, Owns, Goto, Work, Unlock, ShowData, Fence, word
<1>10. CASE UNCHANGED vars
  <2>1. \A d \in Cpus : Owns(d)' <=> Owns(d)
    BY <1>10 DEF vars, word, Owns
  <2> QED BY <1>5, <2>1
<1>11. CASE Next
  <2>1. PICK c \in Cpus : ((Call(c) \/ Enter(c)) /\ UNCHANGED word) \/ Exit(c)
    BY <1>11 DEF Next
  <2>2. \/ Holder = Nobody /\ Holder' = c
        \/ Holder = c /\ Holder' = Nobody
        \/ Holder' = Holder
    BY <1>5, <1>6, <1>7, <1>8, <1>9, <2>1 DEF Enter, Exit
  <2> QED BY <2>2 DEF Service!Next, Service!Acquire, Service!Release
<1> QED BY <1>10, <1>11

\* The instruction sequence implements the lock of LockService.
THEOREM LockRefines == Spec => ImplementsService
<1>1. Init => Service!Init
  BY DEF Init, Service!Init, Owns, Holder
<1>2. Inv /\ Inv' /\ [Next]_vars => [Service!Next]_Holder
  BY ServiceStep
<1> QED BY <1>1, <1>2, InvHolds, PTL DEF Spec, ImplementsService, Service!Spec

\* No lock is lost: the word is one only while there is a holder that has still
\* to show the others its release, and nothing but its own stores can stop it.
LockNotLost ==
    /\ lock = 1 <=> Holder # Nobody
    /\ \A c \in Cpus :
          lock = 1 /\ Holder = c => pc[c] \in {"retry", "in", "unlock"} \/ buffer[c] # {}

\* Whoever spins on a one spins for another processor that is on its way out.
THEOREM SpinsForSomebody == Spec => []LockNotLost
<1>1. Inv => LockNotLost
  <2> SUFFICES ASSUME Inv PROVE LockNotLost
    OBVIOUS
  <2>1. \A c \in Cpus : Owns(c) => Holder = c
    BY DEF Inv, OwnerInv, Holder
  <2>2. (\A c \in Cpus : ~Owns(c)) => Holder = Nobody
    BY DEF Holder
  <2>3. lock = 1 <=> \E c \in Cpus : Owns(c)
    BY DEF Inv, OwnerInv
  <2>4. \A c \in Cpus : Owns(c) => pc[c] \in {"retry", "in", "unlock"} \/ buffer[c] # {}
    BY DEF Owns
  <2> QED BY <2>1, <2>2, <2>3, <2>4, SpinLockAssumption DEF LockNotLost
<1> QED BY <1>1, InvHolds, PTL

-----------------------------------------------------------------------------
(* What the place of RISC-V's fence takes away.                            *)

\* Who is past spin_lock() reads what the last one wrote.
DataFresh == \A c \in Cpus : pc[c] = "in" => data = last

\* The lock is taken only when all stores that came before are seen.
FencedFirst == \A c \in Cpus : StoreSucceeds(c) => \A d \in Cpus : buffer[d] = {}

\* A store to the word waits only in the buffer of the last writer, who owns
\* the lock, or has freed it and then nobody has taken it since.
FencedInv ==
    /\ \A c \in Cpus : "data" \in buffer[c] =>
          last = c /\ \A d \in Cpus : Owns(d) => d = c
    /\ (\A c \in Cpus : "data" \notin buffer[c]) => data = last

\* Every step keeps that, if the lock is taken after the fence only.
LEMMA FencedNext ==
    Inv /\ FencedInv /\ [Next]_vars /\ [FencedFirst]_vars => FencedInv'
<1> SUFFICES ASSUME Inv, FencedInv, [Next]_vars, [FencedFirst]_vars
             PROVE  FencedInv'
  OBVIOUS
<1>a. /\ TypeOK /\ Waiting
      /\ \A c, d \in Cpus : Owns(c) /\ Owns(d) => c = d
  BY DEF Inv, OwnerInv
<1> USE DEF FencedInv, TypeOK, Owns, Goto
<1>1. CASE UNCHANGED vars
  BY <1>1 DEF vars, word
<1>2. ASSUME NEW c \in Cpus, Call(c) \/ Enter(c), UNCHANGED word PROVE FencedInv'
  <2>1. CASE Call(c) \/ Load(c) \/ Test(c) \/ StoreFails(c) \/ Retry(c)
    <3>1. \A d \in Cpus : Owns(d)' => Owns(d)
      BY <1>a, <1>2, <2>1 DEF Call, Load, Test, StoreFails, Retry, word
    <3> QED BY <1>2, <3>1 DEF word
  <2>2. CASE StoreSucceeds(c)
    <3>1. pc'[c] # pc[c]
      BY <1>a, <2>2 DEF StoreSucceeds
    <3>2. FencedFirst
      BY <3>1 DEF vars
    <3>3. \A d \in Cpus : buffer[d] = {}
      BY <2>2, <3>2 DEF FencedFirst
    <3> QED BY <1>2, <3>3 DEF word
  <2> QED BY <1>2, <2>1, <2>2 DEF Enter
<1>3. ASSUME NEW c \in Cpus, Exit(c) PROVE FencedInv'
  <2>1. CASE Work(c)
    BY <1>a, <2>1 DEF Work, Waiting
  <2>2. CASE Unlock(c)
    BY <1>a, <2>2 DEF Unlock
  <2>3. CASE ShowData(c)
    BY <1>a, <2>3 DEF ShowData
  <2>4. CASE ShowLock(c)
    BY <1>a, <2>4 DEF ShowLock
  <2>5. CASE Fence(c)
    BY <1>a, <2>5 DEF Fence, word
  <2> QED BY <1>3, <2>1, <2>2, <2>3, <2>4, <2>5 DEF Exit
<1> QED BY <1>1, <1>2, <1>3 DEF Next

\* With either instruction sequence the word is fresh in the critical section
\* of any number of processors, if the lock is taken only after the fence of
\* the one before: what is missing on RISC-V is this and nothing else ...
THEOREM FencedIsFresh == Spec /\ [][FencedFirst]_vars => []DataFresh
<1>1. Init => FencedInv
  BY DEF Init, FencedInv
<1>2. Inv /\ FencedInv => DataFresh
  BY DEF Inv, FencedInv, Waiting, OwnerInv, Owns, DataFresh
<1> QED BY <1>1, <1>2, FencedNext, InvHolds, PTL DEF Spec

\* ... and Armv8's store-release sees to it.
THEOREM ReleaseFences == Spec => [][arch = "armv8" => FencedFirst]_vars
<1>1. Inv /\ arch = "armv8" => FencedFirst
  <2> SUFFICES ASSUME Inv, arch = "armv8", NEW c \in Cpus, StoreSucceeds(c),
                      NEW d \in Cpus
               PROVE  buffer[d] = {}
    BY DEF FencedFirst
  <2>1. lock = 0
    BY DEF Inv, ReservedFree, StoreSucceeds
  <2>2. ~Owns(d)
    BY <2>1 DEF Inv, OwnerInv
  <2> QED BY <2>2 DEF Inv, TypeOK, Fresh, Waiting, Owns
<1> QED BY <1>1, InvHolds, PTL
=============================================================================
