------------------------- MODULE HartStartProofs -------------------------
(* What HartStart guarantees for any number of harts and words.            *)
EXTENDS HartStart, TLAPS

-----------------------------------------------------------------------------
(* Types.                                                                  *)

\* The initial states, one hart on and .bss full of garbage, are typed.
LEMMA InitIsTyped == Init => TypeOK
<1> SUFFICES ASSUME Init PROVE TypeOK
  OBVIOUS
<1> USE HartStartAssumption DEF HartStartAssumption, Harts, Init
<1>1. first \in Firsts /\ uncleared \subseteq Words /\ init_lock \in {0, 1}
  OBVIOUS
<1>2. primary_hart_valid \in BOOLEAN /\ primary_hart_ready \in BOOLEAN
  OBVIOUS
<1>3. pc \in [Harts -> Pcs]
  BY DEF Pcs
<1>4. i \in [Harts -> 0 .. NumHarts]
  OBVIOUS
<1> QED
  BY <1>1, <1>2, <1>3, <1>4 DEF TypeOK

\* Every variable keeps its type: in particular no loop variable passes the
\* number of harts, the first one for which the call must fail.
THEOREM TypeCorrect == Spec => []TypeOK
<1> USE HartStartAssumption DEF HartStartAssumption, Harts, Pcs
<1>1. Init => TypeOK
  BY InitIsTyped
<1>2. TypeOK /\ [Next]_vars => TypeOK'
  <2> SUFFICES ASSUME TypeOK, [Next]_vars PROVE TypeOK'
    OBVIOUS
  <2> USE DEF TypeOK, Goto
  <2>1. CASE UNCHANGED vars
    BY <2>1 DEF vars
  <2>2. ASSUME NEW h \in Harts, Step(h) PROVE TypeOK'
    <3>1. CASE LoadReserved(h)
      BY <3>1 DEF LoadReserved
    <3>2. CASE StoreConditional(h) \/ StoreConditionalFails(h)
      BY <3>2 DEF StoreConditional, StoreConditionalFails
    <3>3. CASE ClearWord(h)
      BY <3>3 DEF ClearWord
    <3>4. CASE Ready(h) \/ PassReady(h)
      BY <3>4 DEF Ready, PassReady
    <3>5. CASE InitLock(h) \/ InitUnlock(h)
      BY <3>5, SMTT(30) DEF InitLock, InitUnlock
    <3>6. CASE SkipOwn(h)
      BY <3>6 DEF SkipOwn
    <3>7. CASE StartHart(h)
      BY <3>7 DEF StartHart
    <3>8. CASE StartHartFails(h)
      BY <3>8 DEF StartHartFails
    <3> QED
      BY <2>2, <3>1, <3>2, <3>3, <3>4, <3>5, <3>6, <3>7, <3>8 DEF Step
  <2> QED
    BY <2>1, <2>2 DEF Next
<1> QED
  BY <1>1, <1>2, PTL DEF Spec

-----------------------------------------------------------------------------
(* The lock in .bss.                                                       *)

\* Harts pass the ready flag one way; it is up only when nothing is left to
\* clear; and who is past spin_lock() finds the word taken.
LockInv ==
    /\ TypeOK
    /\ primary_hart_ready => uncleared = {}
    /\ \A h \in Harts : InC(h) => primary_hart_ready
    /\ \A h \in Harts : pc[h] = "init_unlock" => init_lock = 1
    /\ \A g, h \in Harts : pc[g] = "init_unlock" /\ pc[h] = "init_unlock" => g = h

\* The strengthening is inductive: a hart gets into C code by the ready flag
\* only, and the flag ends the clearing of the lock word.
LEMMA LockInvHolds == Spec => []LockInv
<1> USE HartStartAssumption DEF HartStartAssumption, Harts, Pcs, InC
<1>1. Init => LockInv
  <2> SUFFICES ASSUME Init PROVE LockInv
    OBVIOUS
  <2>1. TypeOK
    BY InitIsTyped
  <2> QED
    BY <2>1 DEF Init, LockInv
<1>2. LockInv /\ TypeOK' /\ [Next]_vars => LockInv'
  <2> SUFFICES ASSUME LockInv, TypeOK', [Next]_vars PROVE LockInv'
    OBVIOUS
  <2> USE DEF LockInv, TypeOK, Goto
  <2>1. CASE UNCHANGED vars
    BY <2>1 DEF vars
  <2>2. ASSUME NEW h \in Harts, Step(h) PROVE LockInv'
    <3>1. CASE LoadReserved(h)
      BY <3>1 DEF LoadReserved
    <3>2. CASE StoreConditional(h) \/ StoreConditionalFails(h)
      BY <3>2 DEF StoreConditional, StoreConditionalFails
    <3>3. CASE ClearWord(h)
      <4>1. ~primary_hart_ready
        BY <3>3 DEF ClearWord
      <4> QED
        BY <3>3, <4>1 DEF ClearWord
    <3>4. CASE Ready(h) \/ PassReady(h)
      BY <3>4 DEF Ready, PassReady
    <3>5. CASE InitLock(h)
      <4>1. \A g \in Harts : pc[g] # "init_unlock"
        BY <3>5 DEF InitLock
      <4> QED
        BY <3>5, <4>1 DEF InitLock
    <3>6. CASE InitUnlock(h)
      BY <3>6 DEF InitUnlock
    <3>7. CASE SkipOwn(h)
      BY <3>7 DEF SkipOwn
    <3>8. CASE StartHart(h)
      BY <3>8 DEF StartHart
    <3>9. CASE StartHartFails(h)
      BY <3>9 DEF StartHartFails
    <3> QED
      BY <2>2, <3>1, <3>2, <3>3, <3>4, <3>5, <3>6, <3>7, <3>8, <3>9 DEF Step
  <2> QED
    BY <2>1, <2>2 DEF Next
<1> QED
  BY <1>1, <1>2, TypeCorrect, PTL DEF Spec

\* .bss is clean before a hart runs C code, and one hart at a time is inside
\* init_lock, for any number of harts.
THEOREM LockIsKept == Spec => []LockKept
<1>1. LockInv => LockKept
  BY DEF LockInv, LockKept
<1> QED
  BY <1>1, LockInvHolds, PTL

-----------------------------------------------------------------------------
(* The start loop.                                                         *)

\* Only the first hart's loop starts anybody: the harts that are on are the
\* first one and those its loop has passed, the loops of the others stop at
\* hart 0 or, on hart 0, at hart 1, and the first one's stops at the end.
LoopInv ==
    /\ TypeOK
    /\ pc[first] \notin {"loop", "main"} => i[first] = 0
    /\ \A h \in Harts : pc[h] = "off" <=> h # first /\ h >= i[first]
    /\ \A h \in Harts : h # first => i[h] = 0 \/ (h = 0 /\ i[h] = 1)
    /\ pc[first] = "main" => i[first] = NumHarts

\* It is inductive when hart 0 or hart 1 is the first.
LEMMA LoopInvHolds == ASSUME Firsts \subseteq {0, 1} PROVE Spec => []LoopInv
<1> USE HartStartAssumption DEF HartStartAssumption, Harts, Pcs
<1>1. Init => LoopInv
  <2> SUFFICES ASSUME Init PROVE LoopInv
    OBVIOUS
  <2>1. TypeOK
    BY InitIsTyped
  <2> QED
    BY <2>1 DEF Init, LoopInv
<1>2. LoopInv /\ TypeOK' /\ [Next]_vars => LoopInv'
  <2> SUFFICES ASSUME LoopInv, TypeOK', [Next]_vars PROVE LoopInv'
    OBVIOUS
  <2>0. first \in {0, 1} /\ first \in Harts
    BY DEF LoopInv, TypeOK
  <2> USE DEF LoopInv, TypeOK, Goto
  <2>1. CASE UNCHANGED vars
    BY <2>1 DEF vars
  <2>2. ASSUME NEW h \in Harts, Step(h) PROVE LoopInv'
    <3>1. CASE LoadReserved(h)
      BY <2>0, <3>1 DEF LoadReserved
    <3>2. CASE StoreConditional(h) \/ StoreConditionalFails(h)
      BY <2>0, <3>2 DEF StoreConditional, StoreConditionalFails
    <3>3. CASE ClearWord(h)
      BY <2>0, <3>3 DEF ClearWord
    <3>4. CASE Ready(h) \/ PassReady(h)
      BY <2>0, <3>4 DEF Ready, PassReady
    <3>5. CASE InitLock(h)
      BY <2>0, <3>5 DEF InitLock
    <3>6. CASE InitUnlock(h)
      BY <2>0, <3>6 DEF InitUnlock
    <3>7. CASE SkipOwn(h)
      BY <2>0, <3>7 DEF SkipOwn
    <3>8. CASE StartHart(h)
      <4>1. h = first
        <5>1. CASE h # first
          <6>1. i[h] \in {0, 1} /\ pc[h] # "off"
            BY <3>8, <5>1 DEF StartHart
          <6>2. pc[0] # "off" /\ pc[first] # "off"
            BY <2>0, <5>1, <6>1
          <6>3. CASE h = 0
            BY <2>0, <3>8, <5>1, <6>1, <6>2, <6>3 DEF StartHart
          <6>4. CASE h # 0
            BY <2>0, <3>8, <5>1, <6>1, <6>2, <6>4 DEF StartHart
          <6> QED
            BY <6>3, <6>4
        <5> QED
          BY <5>1
      <4> QED
        BY <2>0, <3>8, <4>1 DEF StartHart
    <3>9. CASE StartHartFails(h)
      <4>1. h = first => i[h] = NumHarts
        BY <2>0, <3>9 DEF StartHartFails
      <4> QED
        BY <2>0, <3>9, <4>1 DEF StartHartFails
    <3> QED
      BY <2>2, <3>1, <3>2, <3>3, <3>4, <3>5, <3>6, <3>7, <3>8, <3>9 DEF Step
  <2> QED
    BY <2>1, <2>2 DEF Next
<1> QED
  BY <1>1, <1>2, TypeCorrect, PTL DEF Spec

\* No hart is left behind, for any number of harts, if the hypervisor starts
\* hart 0 or hart 1 first.
THEOREM NobodyIsLeft ==
    ASSUME Firsts \subseteq {0, 1} PROVE Spec => []NoneLeftBehind
<1>1. LoopInv => NoneLeftBehind
  <2> SUFFICES ASSUME LoopInv, \A h \in Harts : pc[h] \in {"off", "main"},
                      NEW g \in Harts
               PROVE  pc[g] = "main"
    BY DEF NoneLeftBehind
  <2>1. first \in Harts /\ pc[first] # "off"
    BY HartStartAssumption DEF HartStartAssumption, LoopInv, TypeOK, Harts
  <2>2. i[first] = NumHarts
    BY <2>1 DEF LoopInv
  <2> QED
    BY <2>1, <2>2, HartStartAssumption DEF HartStartAssumption, LoopInv, Harts
<1> QED
  BY <1>1, LoopInvHolds, PTL

-----------------------------------------------------------------------------
(* Nobody waits for nobody.                                                *)

\* Only the ready flag and the lock can stop a hart that is on.
CanGoOn(h) ==
    /\ pc[h] \notin {"off", "main"}
    /\ pc[h] = "wait" => primary_hart_ready
    /\ pc[h] = "init" => init_lock = 0

\* While a hart is on its way, one of them can go on.
SomebodyGoesOn ==
    (\E h \in Harts : pc[h] \notin {"off", "main"}) => \E h \in Harts : CanGoOn(h)

\* A hart waits when the election is over, and the one that won it clears
\* .bss until it raises the flag; the lock word that has been cleared is zero or
\* somebody is about to unlock it.
ReachInv ==
    /\ ~primary_hart_valid => \A h \in Harts : pc[h] \in {"off", "start", "sc"}
    /\ primary_hart_valid /\ ~primary_hart_ready => \E h \in Harts : pc[h] = "clear"
    /\ "init_lock" \notin uncleared =>
          init_lock = 0 \/ \E h \in Harts : pc[h] = "init_unlock"

\* Every step of a hart keeps what the others wait for.
LEMMA ReachStep == TypeOK /\ ReachInv /\ [Next]_vars => ReachInv'
<1> SUFFICES ASSUME TypeOK, ReachInv, [Next]_vars PROVE ReachInv'
  OBVIOUS
<1> USE DEF TypeOK, ReachInv, Goto
<1>1. CASE UNCHANGED vars
  BY <1>1 DEF vars
<1>2. ASSUME NEW h \in Harts, Step(h) PROVE ReachInv'
  <2>1. CASE LoadReserved(h)
    BY <2>1 DEF LoadReserved
  <2>2. CASE StoreConditional(h) \/ StoreConditionalFails(h)
    BY <2>2 DEF StoreConditional, StoreConditionalFails
  <2>3. CASE ClearWord(h)
    BY <2>3 DEF ClearWord
  <2>4. CASE Ready(h) \/ PassReady(h)
    BY <2>4 DEF Ready, PassReady
  <2>5. CASE InitLock(h) \/ InitUnlock(h)
    BY <2>5 DEF InitLock, InitUnlock
  <2>6. CASE SkipOwn(h)
    BY <2>6 DEF SkipOwn
  <2>7. CASE StartHart(h)
    BY <2>7 DEF StartHart
  <2>8. CASE StartHartFails(h)
    BY <2>8 DEF StartHartFails
  <2> QED
    BY <1>2, <2>1, <2>2, <2>3, <2>4, <2>5, <2>6, <2>7, <2>8 DEF Step
<1> QED
  BY <1>1, <1>2 DEF Next

\* For any number of harts, whichever the hypervisor starts first: as long as
\* a hart that is on has not reached main(), one of them can go on.
THEOREM HartsGoOn == Spec => []SomebodyGoesOn
<1>1. Init => ReachInv
  BY HartStartAssumption DEF Init, ReachInv
<1>2. LockInv /\ ReachInv => SomebodyGoesOn
  <2> SUFFICES ASSUME LockInv, ReachInv, NEW h \in Harts, pc[h] \notin {"off", "main"}
               PROVE  \E g \in Harts : CanGoOn(g)
    BY DEF SomebodyGoesOn
  <2>1. CASE pc[h] = "wait" /\ ~primary_hart_ready
    <3>1. PICK g \in Harts : pc[g] = "clear"
      BY <2>1 DEF ReachInv
    <3> QED
      BY <3>1 DEF CanGoOn
  <2>2. CASE pc[h] = "init" /\ init_lock # 0
    <3>1. PICK g \in Harts : pc[g] = "init_unlock"
      BY <2>2 DEF LockInv, InC, ReachInv
    <3> QED
      BY <3>1 DEF CanGoOn
  <2> QED
    BY <2>1, <2>2 DEF CanGoOn
<1>3. LockInv => TypeOK
  BY DEF LockInv
<1> QED
  BY <1>1, <1>2, <1>3, ReachStep, LockInvHolds, PTL DEF Spec
-----------------------------------------------------------------------------
(* init_lock is used as a lock.                                            *)

\* The hart between spin_lock(&init_lock) and its release.
LockHolder ==
    IF \E h \in Harts : pc[h] = "init_unlock"
      THEN CHOOSE h \in Harts : pc[h] = "init_unlock" ELSE NumHarts

Service == INSTANCE LockService
             WITH Cpus <- Harts, Nobody <- NumHarts, holder <- LockHolder

\* It is the one hart that is there.
HolderKnown ==
    /\ \A h \in Harts : pc[h] = "init_unlock" <=> LockHolder = h
    /\ (\A h \in Harts : pc[h] # "init_unlock") => LockHolder = NumHarts

\* There is one at most.
LEMMA HolderIs == LockInv => HolderKnown
<1>1. NumHarts \notin Harts
  BY HartStartAssumption DEF HartStartAssumption, Harts
<1> QED
  BY <1>1 DEF LockInv, LockHolder, HolderKnown

\* A word of .bss that held garbage is used as the lock that SpinLock
\* implements, whichever hart comes first: it is taken when nobody has it, by
\* the hart that gives it back, and no store of the clear loop gives it away.
THEOREM UsesLock == Spec => Service!Spec
<1>1. Init => Service!Init
  BY DEF Init, Service!Init, LockHolder
<1>2. LockInv /\ LockInv' /\ HolderKnown /\ HolderKnown' /\ [Next]_vars =>
        [Service!Next]_LockHolder
  <2> SUFFICES ASSUME LockInv, LockInv', HolderKnown, HolderKnown', [Next]_vars
               PROVE  [Service!Next]_LockHolder
    OBVIOUS
  <2>1. /\ \A h \in Harts : pc[h] = "init_unlock" <=> LockHolder = h
        /\ (\A h \in Harts : pc[h] # "init_unlock") => LockHolder = NumHarts
    BY DEF HolderKnown
  <2>2. /\ \A h \in Harts : pc'[h] = "init_unlock" <=> LockHolder' = h
        /\ (\A h \in Harts : pc'[h] # "init_unlock") => LockHolder' = NumHarts
    BY DEF HolderKnown
  <2>3. ASSUME \A h \in Harts : pc'[h] = "init_unlock" <=> pc[h] = "init_unlock"
        PROVE  LockHolder' = LockHolder
    BY <2>1, <2>2, <2>3
  <2>4. CASE UNCHANGED vars
    BY <2>3, <2>4 DEF vars
  <2>5. ASSUME NEW h \in Harts, Step(h) PROVE [Service!Next]_LockHolder
    <3> USE DEF LockInv, TypeOK, Goto
    <3>1. CASE InitLock(h)
      <4>1. \A g \in Harts : pc[g] # "init_unlock"
        BY <3>1 DEF InitLock
      <4>2. LockHolder = NumHarts /\ LockHolder' = h
        BY <2>1, <2>2, <3>1, <4>1 DEF InitLock
      <4> QED
        BY <4>2 DEF Service!Next, Service!Acquire
    <3>2. CASE InitUnlock(h)
      <4>1. \A g \in Harts : pc'[g] # "init_unlock"
        BY <3>2 DEF InitUnlock
      <4>2. LockHolder = h /\ LockHolder' = NumHarts
        BY <2>1, <2>2, <3>2, <4>1 DEF InitUnlock
      <4> QED
        BY <4>2 DEF Service!Next, Service!Release
    <3>3. CASE \/ LoadReserved(h) \/ StoreConditional(h) \/ StoreConditionalFails(h)
               \/ ClearWord(h) \/ Ready(h) \/ PassReady(h)
               \/ SkipOwn(h) \/ StartHart(h) \/ StartHartFails(h)
      <4>1. \A g \in Harts : pc'[g] = "init_unlock" <=> pc[g] = "init_unlock"
        BY <3>3 DEF LoadReserved, StoreConditional, StoreConditionalFails,
           ClearWord, Ready, PassReady, SkipOwn, StartHart, StartHartFails
      <4> QED
        BY <2>3, <4>1
    <3> QED
      BY <2>5, <3>1, <3>2, <3>3 DEF Step
  <2> QED
    BY <2>4, <2>5 DEF Next
<1> QED
  BY <1>1, <1>2, HolderIs, LockInvHolds, PTL DEF Spec, Service!Spec

-----------------------------------------------------------------------------
(* Every run comes to an end.                                              *)

\* The steps that hart h has still to make at most, if its store-conditional
\* succeeds and the words are cleared.
Left(h) ==
    CASE pc[h] = "main"        -> 0
      [] pc[h] = "loop"        -> 1 + (NumHarts - i[h])
      [] pc[h] = "init_unlock" -> NumHarts + 2
      [] pc[h] = "init"        -> NumHarts + 3
      [] pc[h] = "wait"        -> NumHarts + 4
      [] pc[h] = "clear"       -> NumHarts + 5
      [] pc[h] = "sc"          -> NumHarts + 6
      [] pc[h] = "start"       -> NumHarts + 7
      [] pc[h] = "off"         -> NumHarts + 8

\* A step leads forward: a word is cleared, or one hart has less to do and none
\* has more.
Forward ==
    \/ /\ uncleared' \subseteq uncleared /\ uncleared' # uncleared
       /\ UNCHANGED <<pc, i>>
    \/ /\ \E h \in Harts : Left(h)' < Left(h)
       /\ \A h \in Harts : Left(h)' <= Left(h)
       /\ UNCHANGED uncleared

\* The steps left are a number.
LeftTyped == \A h \in Harts : Left(h) \in Nat

\* On every hart and at every place.
LEMMA LeftIsNat == TypeOK => LeftTyped
  BY HartStartAssumption DEF HartStartAssumption, TypeOK, Pcs, Left, LeftTyped

\* Nothing but a store-conditional that fails leads back: no hart starts
\* another one twice, clears a word twice or runs its loop again.  With
\* SomebodyGoesOn, and as Left is a number and .bss finite, the harts get where
\* they are going unless store-conditionals fail for ever.
THEOREM HartsGoForward ==
    Spec => [][(\E h \in Harts : StoreConditionalFails(h)) \/ Forward]_vars
<1>1. TypeOK /\ TypeOK' /\ LeftTyped /\ LeftTyped' /\ [Next]_vars =>
        [(\E h \in Harts : StoreConditionalFails(h)) \/ Forward]_vars
  <2> SUFFICES ASSUME TypeOK, TypeOK', LeftTyped, LeftTyped',
                      NEW h \in Harts, Step(h), ~StoreConditionalFails(h)
               PROVE  Forward
    BY DEF Next
  <2> USE HartStartAssumption DEF HartStartAssumption, Harts
  <2>1. ASSUME NEW l \in Pcs, pc' = [pc EXCEPT ![h] = l], UNCHANGED uncleared,
               \A g \in Harts \ {h} : i'[g] = i[g], Left(h)' < Left(h)
        PROVE  Forward
    <3>1. \A g \in Harts \ {h} : Left(g)' = Left(g)
      BY <2>1 DEF Left, TypeOK
    <3>2. \A g \in Harts : Left(g) \in Nat /\ Left(g)' \in Nat
      BY DEF LeftTyped
    <3> QED
      BY <2>1, <3>1, <3>2 DEF Forward
  <2> USE DEF TypeOK, Goto
  <2>2. CASE ClearWord(h)
    BY <2>2 DEF ClearWord, Forward
  <2>3. CASE LoadReserved(h)
    <3>1. Left(h)' < Left(h)
      BY <2>3 DEF LoadReserved, Left
    <3> QED
      BY <2>1, <2>3, <3>1 DEF LoadReserved, Pcs
  <2>4. CASE StoreConditional(h) \/ Ready(h) \/ PassReady(h) \/ InitLock(h)
    <3>1. Left(h)' < Left(h)
      BY <2>4 DEF StoreConditional, Ready, PassReady, InitLock, Left
    <3> QED
      BY <2>1, <2>4, <3>1 DEF StoreConditional, Ready, PassReady, InitLock, Pcs
  <2>5. CASE InitUnlock(h)
    <3>1. Left(h)' < Left(h)
      BY <2>5 DEF InitUnlock, Left
    <3> QED
      BY <2>1, <2>5, <3>1 DEF InitUnlock, Pcs
  <2>6. CASE StartHartFails(h)
    <3>1. Left(h)' < Left(h)
      BY <2>6 DEF StartHartFails, Left
    <3> QED
      BY <2>1, <2>6, <3>1 DEF StartHartFails, Pcs
  <2>7. CASE SkipOwn(h)
    <3>1. Left(h)' < Left(h)
      BY <2>7 DEF SkipOwn, Left
    <3>2. pc' = [pc EXCEPT ![h] = "loop"] /\ "loop" \in Pcs
      BY <2>7 DEF SkipOwn, Pcs
    <3> QED
      BY <2>1, <2>7, <3>1, <3>2 DEF SkipOwn
  <2>8. CASE StartHart(h)
    <3>1. /\ i[h] \in Harts /\ i[h] # h /\ pc[h] = "loop" /\ pc[i[h]] = "off"
          /\ pc' = [pc EXCEPT ![i[h]] = "start"] /\ i' = [i EXCEPT ![h] = @ + 1]
          /\ uncleared' = uncleared
      BY <2>8 DEF StartHart
    <3>2. Left(h)' < Left(h)
      BY <3>1 DEF Left
    <3>4. \A g \in Harts \ {h, i[h]} : Left(g)' = Left(g)
      BY <3>1 DEF Left
    <3>5. \A g \in Harts : Left(g) \in Nat /\ Left(g)' \in Nat
      BY DEF LeftTyped
    <3>6. \A g \in Harts : Left(g)' <= Left(g)
      <4> TAKE g \in Harts
      <4>1. CASE g = h
        <5>1. /\ pc[g] = "loop" /\ pc'[g] = "loop"
              /\ i[g] \in Nat /\ i'[g] = i[g] + 1
          BY <3>1, <4>1
        <5> QED
          BY <5>1, SMTT(30) DEF Left
      <4>2. CASE g = i[h]
        <5>1. pc[g] = "off" /\ pc'[g] = "start"
          BY <3>1, <4>2
        <5>2. Left(g) = NumHarts + 8 /\ Left(g)' = NumHarts + 7
          BY <5>1 DEF Left
        <5> QED
          BY <5>2
      <4>3. CASE g \in Harts \ {h, i[h]}
        BY <3>4, <3>5, <4>3
      <4> QED
        BY <4>1, <4>2, <4>3
    <3> QED
      BY <3>1, <3>2, <3>6 DEF Forward
  <2> QED
    BY <2>2, <2>3, <2>4, <2>5, <2>6, <2>7, <2>8 DEF Step
<1> QED
  BY <1>1, LeftIsNat, TypeCorrect, PTL DEF Spec
=============================================================================
