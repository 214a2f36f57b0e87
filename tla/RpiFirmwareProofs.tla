------------------------ MODULE RpiFirmwareProofs ------------------------
(* Theorems about RpiFirmware, for any guests, threads, buffers and bound. *)
EXTENDS RpiFirmware, TLAPS

-----------------------------------------------------------------------------
(* The inductive invariants.                                               *)

\* A call has a buffer exactly while it is open, and calls share none.
BufferInv ==
    /\ \A t \in Threads : mine[t] \in Bufs <=> pc[t] # "idle"
    /\ \A t, u \in Threads : mine[t] = mine[u] /\ mine[t] \in Bufs => t = u
    /\ \A t \in Threads : mine[t] \in Bufs => calls[t] \in 1 .. MaxCalls
    /\ fw = NoMsg \/ fw.buf \in Bufs
    /\ \A t \in reused : pc[t] # "idle"

BaseInv == TypeOK /\ BufferInv

\* From mutex_lock() to mutex_unlock().
InTransaction(t) ==
    pc[t] \in {"start", "reinit", "send", "wait", "end", "unlock"}

\* Inside a transaction the thread holds its guest's mutex.  (A thread that
\* aborted may hold it too: the invariant is one-sided.)
LockInv == \A t \in Threads : InTransaction(t) => lock[VmOf[t]] = t

\* Between START and END the guest holds the mailbox.
OwnerInv == \A t \in Threads : UsesMailbox(t) => owner = VmOf[t]

ExclusionInv == BaseInv /\ LockInv /\ OwnerInv

\* The call of t is open and was given a buffer that no message named.
Clean(t) == mine[t] \in Bufs /\ t \notin reused

\* The tags in the buffer of a clean call, and those the firmware read from
\* it, are those of that call.
TagsInv ==
    \A t \in Threads : Clean(t) =>
        /\ buf[mine[t]].call = Call(t)
        /\ fw.buf = mine[t] => fw.call = Call(t)

\* The firmware has the buffer of a clean call at most once ...
OnceInv ==
    \A t \in Threads : Clean(t) =>
        /\ \A i, j \in DOMAIN req : req[i] = mine[t] /\ req[j] = mine[t] => i = j
        /\ fw.buf = mine[t] => \A i \in DOMAIN req : req[i] # mine[t]

\* ... not before its call has sent it, and not after the answer.
UnsentInv ==
    \A t \in Threads :
      Clean(t) /\ pc[t] \in {"lock", "start", "reinit", "send"} =>
        /\ buf[mine[t]].status = "REQUEST"
        /\ ~WithFirmware(mine[t])

AnsweredInv ==
    \A t \in Threads : Clean(t) /\ buf[mine[t]].status # "REQUEST" =>
        ~WithFirmware(mine[t])

\* What was copied out of the buffer of a clean call is its request, or what
\* the buffer holds still.
CopiedInv ==
    \A t \in Threads : pc[t] = "check" =>
        /\ got[t] \in Tags
        /\ Clean(t) => /\ got[t].call = Call(t)
                       /\ got[t].status \in {"REQUEST", buf[mine[t]].status}

ReturnedInv ==
    \A t \in Threads : last[t].ret = "OK" =>
        /\ last[t].data \in Tags
        /\ ~last[t].reused => /\ last[t].data.call = last[t].call
                              /\ last[t].data.status \in {"REQUEST", "SUCCESS"}

DataInv ==
    BaseInv /\ TagsInv /\ OnceInv /\ UnsentInv /\ AnsweredInv /\ CopiedInv
      /\ ReturnedInv

-----------------------------------------------------------------------------
(* Type correctness.                                                       *)

\* Before the first call the types are right and no call has a buffer.
LEMMA BaseInit == Init => BaseInv
<1> SUFFICES ASSUME Init PROVE BaseInv
  OBVIOUS
<1> USE RpiFirmwareAssumption DEF Init
<1>1. /\ pc \in [Threads -> Pcs] /\ calls \in [Threads -> 0 .. MaxCalls]
      /\ ret \in [Threads -> Rets] /\ mine \in [Threads -> Bufs \cup {NoOne}]
  BY DEF Pcs, Rets
<1>2. got \in [Threads -> Tags \cup {NoOne}] /\ buf \in [Bufs -> Tags]
  BY DEF Tags, Statuses
<1>3. last \in [Threads -> [call : CallId \cup {NoOne}, ret : Rets \cup {"NONE"},
                            data : Tags \cup {NoOne}, reused : BOOLEAN]]
  OBVIOUS
<1>4. /\ lock \in [Vms -> Threads \cup {NoOne}] /\ completion \in [Vms -> Nat]
      /\ owner \in Vms \cup {NoOne}
  OBVIOUS
<1>5. req \in Seq(Bufs) /\ resp \in Seq(Bufs)
  OBVIOUS
<1>6. fw \in [buf : Bufs \cup {NoOne}, call : CallId \cup {NoOne}]
  BY DEF NoMsg
<1>7. timedout \in BOOLEAN /\ reused \subseteq Threads
  OBVIOUS
<1>8. TypeOK
  BY <1>1, <1>2, <1>3, <1>4, <1>5, <1>6, <1>7 DEF TypeOK
<1>9. BufferInv
  BY DEF BufferInv
<1> QED BY <1>8, <1>9 DEF BaseInv

\* Every step keeps the types and the ownership of the buffers.
LEMMA BaseStep == BaseInv /\ [Next]_vars => BaseInv'
<1> SUFFICES ASSUME BaseInv, [Next]_vars PROVE BaseInv'
  OBVIOUS
<1> USE RpiFirmwareAssumption DEF BaseInv, TypeOK, BufferInv, Goto
<1>1. CASE UNCHANGED vars
  BY <1>1 DEF vars
<1>2. ASSUME NEW t \in Threads, NEW r \in {"EINVAL", "ENOMEM"}, Reject(t, r)
      PROVE  BaseInv'
  BY <1>2 DEF Reject, Rets, CallId
<1>3. ASSUME NEW t \in Threads, NEW b \in Bufs, Prepare(t, b) PROVE BaseInv'
  BY <1>3 DEF Prepare, Free, Pcs, Statuses, CallId, Tags
<1>4. ASSUME NEW t \in Threads, Step(t) PROVE BaseInv'
  <2>1. CASE TransactionLock(t) BY <2>1 DEF TransactionLock, Pcs
  <2>2. CASE HypStart(t) BY <2>2 DEF HypStart, Pcs
  <2>3. CASE HypStartRefused(t)
    <3>1. CASE ChecksHyp
      <4>1. ret' \in [Threads -> Rets] BY <2>3, <3>1 DEF HypStartRefused, Rets
      <4> QED BY <2>3, <3>1, <4>1 DEF HypStartRefused, Pcs
    <3>2. CASE ~ChecksHyp
      <4>1. /\ pc[t] = "start" /\ pc' = [pc EXCEPT ![t] = "reinit"]
            /\ UNCHANGED <<calls, ret, mine, got, last, lock, completion, owner,
                           buf, req, fw, resp, timedout, reused>>
        BY <2>3, <3>2 DEF HypStartRefused
      <4>2. TypeOK' BY <4>1 DEF Pcs
      <4>3. BufferInv' BY <4>1
      <4> QED BY <4>2, <4>3
    <3> QED BY <3>1, <3>2
  <2>4. CASE ReinitCompletion(t) BY <2>4 DEF ReinitCompletion, Pcs
  <2>5. CASE SendMessage(t) BY <2>5 DEF SendMessage, Pcs
  <2>6. CASE SendMessageFails(t) BY <2>6 DEF SendMessageFails, Pcs, Rets
  <2>7. CASE WaitCompletes(t) BY <2>7 DEF WaitCompletes, Pcs, Rets
  <2>8. CASE WaitTimesOut(t) BY <2>8 DEF WaitTimesOut, Pcs, Rets
  <2>9. CASE HypEnd(t) BY <2>9 DEF HypEnd, Pcs
  <2>10. CASE HypEndRefused(t)
    <3>1. CASE ChecksHyp
      <4>1. ret' \in [Threads -> Rets] BY <2>10, <3>1 DEF HypEndRefused, Rets
      <4> QED BY <2>10, <3>1, <4>1 DEF HypEndRefused, Pcs
    <3>2. CASE ~ChecksHyp
      <4>1. /\ pc[t] = "end" /\ pc' = [pc EXCEPT ![t] = "unlock"]
            /\ UNCHANGED <<calls, ret, mine, got, last, lock, completion, owner,
                           buf, req, fw, resp, timedout, reused>>
        BY <2>10, <3>2 DEF HypEndRefused
      <4>2. TypeOK' BY <4>1 DEF Pcs
      <4>3. BufferInv' BY <4>1
      <4> QED BY <4>2, <4>3
    <3> QED BY <3>1, <3>2
  <2>11. CASE TransactionUnlock(t) BY <2>11 DEF TransactionUnlock, Pcs
  <2>12. CASE CopyTags(t) BY <2>12 DEF CopyTags, Pcs
  <2>13. CASE Finish(t)
    <3>1. /\ ListResult(t) \in Rets /\ Call(t) \in CallId
          /\ got[t] \in Tags \cup {NoOne} /\ (t \in reused) \in BOOLEAN
      BY <2>13 DEF Finish, ListResult, Rets, CallId, Call
    <3>2. last' \in [Threads -> [call : CallId \cup {NoOne},
                                ret : Rets \cup {"NONE"},
                                data : Tags \cup {NoOne}, reused : BOOLEAN]]
      <4> HIDE DEF Call
      <4> QED BY <2>13, <3>1 DEF Finish
    <3>3. /\ pc' \in [Threads -> Pcs] /\ ret' \in [Threads -> Rets]
          /\ mine' \in [Threads -> Bufs \cup {NoOne}]
          /\ got' \in [Threads -> Tags \cup {NoOne}] /\ reused' \subseteq Threads
      BY <2>13 DEF Finish, Pcs, Rets
    <3>4. TypeOK'
      BY <2>13, <3>2, <3>3 DEF Finish
    <3>5. BufferInv'
      BY <2>13 DEF Finish
    <3> QED BY <3>4, <3>5
  <2> QED BY <1>4, <2>1, <2>2, <2>3, <2>4, <2>5, <2>6, <2>7, <2>8, <2>9,
             <2>10, <2>11, <2>12, <2>13 DEF Step
<1>5. CASE FwTake
  <2>1. Head(req) \in Bufs /\ Tail(req) \in Seq(Bufs) BY <1>5 DEF FwTake
  <2>2. buf[Head(req)].call \in CallId \cup {NoOne} BY <2>1 DEF Tags
  <2> QED BY <1>5, <2>1, <2>2 DEF FwTake, NoMsg, caller
<1>6. ASSUME NEW s \in Answers, FwAnswer(s) PROVE BaseInv'
  BY <1>6 DEF FwAnswer, NoMsg, caller, Statuses, Tags
<1>7. ASSUME NEW v \in Vms, ResponseCallback(v) PROVE BaseInv'
  BY <1>7 DEF ResponseCallback, caller
<1> HIDE DEF BaseInv, TypeOK, BufferInv, Goto
<1> QED BY <1>1, <1>2, <1>3, <1>4, <1>5, <1>6, <1>7
        DEF Next, Begin, Environment

\* Every variable keeps its type: no message or answer names anything but a
\* DMA buffer, whatever the hypervisor and the firmware do.
THEOREM TypeCorrect == Spec => []TypeOK
<1>1. Spec => []BaseInv
  BY BaseInit, BaseStep, PTL DEF Spec
<1>2. BaseInv => TypeOK
  BY DEF BaseInv
<1> QED BY <1>1, <1>2, PTL

-----------------------------------------------------------------------------
(* Exclusion.                                                              *)

\* Exclusion needs the driver to heed a refused START, or a hypervisor that
\* never refuses it.
StartHeeded == ChecksHyp \/ ~StartRefuses

\* Every step keeps the mutex with the thread in its transaction and the
\* mailbox with its guest.
LEMMA ExclusionStep ==
    ASSUME StartHeeded, ExclusionInv, [Next]_vars
    PROVE  ExclusionInv'
<1> USE RpiFirmwareAssumption
<1>1. BaseInv'
  BY BaseStep DEF ExclusionInv
<1> USE DEF ExclusionInv, BaseInv, TypeOK, LockInv, OwnerInv, InTransaction,
            UsesMailbox, Goto, StartHeeded
<1>2. CASE UNCHANGED vars
  BY <1>1, <1>2 DEF vars
<1>3. ASSUME NEW t \in Threads, Begin(t) PROVE LockInv' /\ OwnerInv'
  BY <1>3 DEF Begin, Reject, Prepare
<1>4. ASSUME NEW t \in Threads, Step(t) PROVE LockInv' /\ OwnerInv'
  <2>1. CASE TransactionLock(t) BY <2>1 DEF TransactionLock
  <2>2. CASE HypStart(t) BY <2>2 DEF HypStart
  <2>3. CASE HypStartRefused(t) BY <2>3 DEF HypStartRefused
  <2>4. CASE ReinitCompletion(t) BY <2>4 DEF ReinitCompletion
  <2>5. CASE SendMessage(t) BY <2>5 DEF SendMessage
  <2>6. CASE SendMessageFails(t) BY <2>6 DEF SendMessageFails
  <2>7. CASE WaitCompletes(t) BY <2>7 DEF WaitCompletes
  <2>8. CASE WaitTimesOut(t) BY <2>8 DEF WaitTimesOut
  <2>9. CASE HypEnd(t)
    \* Another thread using the mailbox would be of the same guest, and its
    \* mutex is held by t.
    BY <2>9 DEF HypEnd
  <2>10. CASE HypEndRefused(t) BY <2>10 DEF HypEndRefused
  <2>11. CASE TransactionUnlock(t) BY <2>11 DEF TransactionUnlock
  <2>12. CASE CopyTags(t) BY <2>12 DEF CopyTags
  <2>13. CASE Finish(t) BY <2>13 DEF Finish
  <2> QED BY <1>4, <2>1, <2>2, <2>3, <2>4, <2>5, <2>6, <2>7, <2>8, <2>9,
             <2>10, <2>11, <2>12, <2>13 DEF Step
<1>5. ASSUME Environment PROVE LockInv' /\ OwnerInv'
  BY <1>5 DEF Environment, FwTake, FwAnswer, ResponseCallback, caller
<1> HIDE DEF BaseInv, TypeOK, LockInv, OwnerInv
<1> QED BY <1>1, <1>2, <1>3, <1>4, <1>5 DEF Next

\* The mutex and the mailbox stay with the thread that is in between.
LEMMA ExclusionInvariant == StartHeeded => (Spec => []ExclusionInv)
<1> SUFFICES ASSUME StartHeeded PROVE Spec => []ExclusionInv
  OBVIOUS
<1>1. Init => ExclusionInv
  BY BaseInit, RpiFirmwareAssumption
  DEF Init, ExclusionInv, LockInv, OwnerInv, InTransaction, UsesMailbox
<1>2. ExclusionInv /\ [Next]_vars => ExclusionInv'
  BY ExclusionStep
<1> QED BY <1>1, <1>2, PTL DEF Spec

\* Between the START and the END hypercall there is at most one thread of at
\* most one guest, for any number of guests, threads and calls, as long as
\* the driver heeds a refused START or none is refused.
THEOREM Exclusion == StartHeeded => (Spec => []MailboxExclusive)
<1>1. ExclusionInv => MailboxExclusive
  BY RpiFirmwareAssumption
  DEF ExclusionInv, LockInv, OwnerInv, InTransaction, UsesMailbox,
      MailboxExclusive
<1> QED BY <1>1, ExclusionInvariant, PTL

-----------------------------------------------------------------------------
(* Nobody waits for nobody.                                                *)

\* No hypercall is refused, or the only refused ones are STARTs and the driver
\* goes on: no call returns in the middle of its transaction.
TransactionsEnd == ~EndRefuses /\ (ChecksHyp => ~StartRefuses)

\* The mutex and the mailbox are held by calls that will give them back.
HeldInv ==
    /\ \A v \in Vms : lock[v] # NoOne =>
          VmOf[lock[v]] = v /\ InTransaction(lock[v])
    /\ owner # NoOne => \E t \in Threads : VmOf[t] = owner /\ UsesMailbox(t)

\* The next step of t is possible: it waits neither for its guest's mutex nor
\* for the mailbox.  (A wait for an answer ends by itself.)
CanGoOn(t) ==
    CASE pc[t] = "lock"  -> lock[VmOf[t]] = NoOne
      [] pc[t] = "start" -> owner \in {NoOne, VmOf[t]}
      [] OTHER           -> pc[t] # "idle"

\* As long as somebody is in a call, somebody in a call can go on.
SomebodyGoesOn ==
    (\E t \in Threads : pc[t] # "idle") => \E t \in Threads : CanGoOn(t)

ReturningInv == BaseInv /\ LockInv /\ HeldInv

\* Every step leaves the mutex and the mailbox with calls that return them.
LEMMA ReturningStep ==
    ASSUME TransactionsEnd, ReturningInv, [Next]_vars
    PROVE  ReturningInv'
<1> USE RpiFirmwareAssumption
<1>1. BaseInv'
  BY BaseStep DEF ReturningInv
<1>k. ASSUME lock' = lock, owner' = owner,
             \A w \in Threads :
                \/ pc'[w] = pc[w]
                \/ pc[w] = "idle"
                \/ pc[w] = "start" /\ pc'[w] = "reinit"
      PROVE  HeldInv'
  <2>1. ASSUME NEW v \in Vms, lock[v] # NoOne
        PROVE  VmOf[lock'[v]] = v /\ InTransaction(lock[v])'
    <3>1. PICK u \in Threads : u = lock[v]
      BY <2>1 DEF ReturningInv, BaseInv, TypeOK
    <3>2. VmOf[u] = v /\ InTransaction(u)
      BY <2>1, <3>1 DEF ReturningInv, HeldInv
    <3>3. InTransaction(u)' /\ u = lock'[v]
      BY <1>k, <3>1, <3>2 DEF InTransaction
    <3> QED BY <3>2, <3>3 DEF InTransaction
  <2>2. ASSUME owner # NoOne
        PROVE  \E t \in Threads : VmOf[t] = owner /\ UsesMailbox(t)'
    <3>1. PICK t \in Threads : VmOf[t] = owner /\ UsesMailbox(t)
      BY <2>2 DEF ReturningInv, HeldInv
    <3> QED BY <1>k, <3>1 DEF UsesMailbox
  <2> QED BY <1>k, <2>1, <2>2 DEF HeldInv, InTransaction, UsesMailbox
<1> USE DEF ReturningInv, BaseInv, TypeOK, LockInv, HeldInv, InTransaction,
            UsesMailbox, Goto, TransactionsEnd
<1>2. CASE UNCHANGED vars
  BY <1>1, <1>2 DEF vars
<1>3. ASSUME NEW t \in Threads, Begin(t) PROVE LockInv' /\ HeldInv'
  <2>1. /\ lock' = lock /\ owner' = owner
        /\ \A w \in Threads : pc'[w] = pc[w] \/ pc[w] = "idle"
    BY <1>3 DEF Begin, Reject, Prepare
  <2>2. LockInv'
    BY <1>3 DEF Begin, Reject, Prepare
  <2> QED BY <1>k, <2>1, <2>2
<1>4. ASSUME NEW t \in Threads, Step(t) PROVE LockInv' /\ HeldInv'
  <2>1. CASE TransactionLock(t) BY <2>1 DEF TransactionLock
  <2>2. CASE HypStart(t) BY <2>2 DEF HypStart
  <2>3. CASE HypStartRefused(t)
    <3>1. /\ pc[t] = "start" /\ pc' = [pc EXCEPT ![t] = "reinit"]
          /\ lock' = lock /\ owner' = owner
      BY <2>3 DEF HypStartRefused
    <3> QED BY <1>k, <3>1
  <2>4. CASE ReinitCompletion(t) BY <2>4 DEF ReinitCompletion
  <2>5. CASE SendMessage(t) BY <2>5 DEF SendMessage
  <2>6. CASE SendMessageFails(t) BY <2>6 DEF SendMessageFails
  <2>7. CASE WaitCompletes(t) BY <2>7 DEF WaitCompletes
  <2>8. CASE WaitTimesOut(t) BY <2>8 DEF WaitTimesOut
  <2>9. CASE HypEnd(t) BY <2>9 DEF HypEnd
  <2>10. CASE HypEndRefused(t) BY <2>10 DEF HypEndRefused
  <2>11. CASE TransactionUnlock(t) BY <2>11 DEF TransactionUnlock
  <2>12. CASE CopyTags(t) BY <2>12 DEF CopyTags
  <2>13. CASE Finish(t) BY <2>13 DEF Finish
  <2> QED BY <1>4, <2>1, <2>2, <2>3, <2>4, <2>5, <2>6, <2>7, <2>8, <2>9,
             <2>10, <2>11, <2>12, <2>13 DEF Step
<1>5. ASSUME Environment PROVE LockInv' /\ HeldInv'
  BY <1>5 DEF Environment, FwTake, FwAnswer, ResponseCallback, caller
<1> HIDE DEF BaseInv, TypeOK, LockInv, HeldInv
<1> QED BY <1>1, <1>2, <1>3, <1>4, <1>5 DEF Next

\* Calls never wait for each other in a circle, and no mutex and no mailbox
\* is left behind, for any guests, threads and calls, as long as every
\* transaction comes to its end: what can be proved of CallsReturn.
THEOREM NoDeadlock == TransactionsEnd => (Spec => [](HeldInv /\ SomebodyGoesOn))
<1>1. ReturningInv => SomebodyGoesOn
  <2> SUFFICES ASSUME ReturningInv, NEW t \in Threads, pc[t] # "idle",
                      \A u \in Threads : ~CanGoOn(u)
               PROVE  FALSE
    BY DEF SomebodyGoesOn
  <2>1. \A u \in Threads : pc[u] \in {"idle", "lock", "start"}
    BY DEF CanGoOn
  <2>2. owner = NoOne
    BY <2>1 DEF ReturningInv, HeldInv, UsesMailbox
  <2>3. \A u \in Threads : pc[u] # "start"
    BY <2>2 DEF CanGoOn
  <2>4. pc[t] = "lock" /\ lock[VmOf[t]] # NoOne
    BY <2>1, <2>3 DEF CanGoOn
  <2>5. VmOf[t] \in Vms /\ lock[VmOf[t]] \in Threads
    BY <2>4, RpiFirmwareAssumption DEF ReturningInv, BaseInv, TypeOK
  <2> QED BY <2>1, <2>3, <2>4, <2>5 DEF ReturningInv, HeldInv, InTransaction
<1>2. Init => ReturningInv
  BY BaseInit, RpiFirmwareAssumption
  DEF Init, ReturningInv, LockInv, HeldInv, InTransaction
<1>3. CASE TransactionsEnd
  <2>1. ReturningInv /\ [Next]_vars => ReturningInv'
    BY <1>3, ReturningStep
  <2> QED BY <1>1, <1>2, <2>1, PTL DEF Spec, ReturningInv
<1> QED BY <1>3

-----------------------------------------------------------------------------
(* No step leads back.                                                     *)

\* The steps that t's call has still to make, at most.
Left(t) ==
    CASE pc[t] = "idle" -> 0
      [] pc[t] = "check" -> 1
      [] pc[t] = "finish" -> 2
      [] pc[t] = "unlock" -> 3
      [] pc[t] = "end" -> 4
      [] pc[t] = "wait" -> 5
      [] pc[t] = "send" -> 6
      [] pc[t] = "reinit" -> 7
      [] pc[t] = "start" -> 8
      [] pc[t] = "lock" -> 9

\* The steps the firmware and the interrupt have still to make for messages
\* that are on their way.
LeftForMail ==
    3 * Len(req) + (IF fw = NoMsg THEN 0 ELSE 2) + Len(resp)

\* Somebody's call goes on and nobody else's changes; or they all stay where
\* they are and a message gets further.
Forward ==
    \/ \E t \in Threads :
          /\ Left(t)' < Left(t)
          /\ \A u \in Threads \ {t} : pc'[u] = pc[u]
    \/ pc' = pc /\ LeftForMail' < LeftForMail

\* A call that has begun is nine steps of its own from its end, whatever the
\* hypervisor refuses, the firmware answers and other guests do: nobody's step
\* sends it back, and there is no retry after a refused START, a message that
\* could not be sent or a timeout.  With NoDeadlock, and as mail brings nobody
\* new into a call, what is left of CallsReturn is that threads run and that
\* who waits for the mutex or for START gets a turn.
THEOREM CallsGoForward ==
    Spec => [][(\E t \in Threads : Begin(t)) \/ Forward]_vars
<1>1. BaseInv /\ [Next]_vars =>
        [(\E t \in Threads : Begin(t)) \/ Forward]_vars
  <2> USE DEF BaseInv, TypeOK
  <2>1. ASSUME BaseInv, NEW t \in Threads, Step(t)
        PROVE  Forward
    <3>1. ASSUME NEW l \in Pcs, pc' = [pc EXCEPT ![t] = l], Left(t)' < Left(t)
          PROVE  Forward
      BY <2>1, <3>1 DEF Forward
    <3>2. CASE TransactionLock(t) \/ HypStart(t) \/ HypStartRefused(t)
      <4>1. \/ pc[t] = "lock" /\ pc' = [pc EXCEPT ![t] = "start"]
            \/ pc[t] = "start" /\ pc' = [pc EXCEPT ![t] = "reinit"]
            \/ pc[t] = "start" /\ pc' = [pc EXCEPT ![t] = "finish"]
        BY <3>2 DEF TransactionLock, HypStart, HypStartRefused, Goto
      <4> QED
        BY <2>1, <3>1, <4>1 DEF Left, Pcs
    <3>3. CASE ReinitCompletion(t) \/ SendMessage(t) \/ SendMessageFails(t)
      <4>1. \/ pc[t] = "reinit" /\ pc' = [pc EXCEPT ![t] = "send"]
            \/ pc[t] = "send" /\ pc' = [pc EXCEPT ![t] = "wait"]
            \/ pc[t] = "send" /\ pc' = [pc EXCEPT ![t] = "end"]
        BY <3>3 DEF ReinitCompletion, SendMessage, SendMessageFails, Goto
      <4> QED
        BY <2>1, <3>1, <4>1 DEF Left, Pcs
    <3>4. CASE WaitCompletes(t) \/ WaitTimesOut(t)
      <4>1. pc[t] = "wait" /\ pc' = [pc EXCEPT ![t] = "end"]
        BY <3>4 DEF WaitCompletes, WaitTimesOut, Goto
      <4> QED
        BY <2>1, <3>1, <4>1 DEF Left, Pcs
    <3>5. CASE HypEnd(t) \/ HypEndRefused(t) \/ TransactionUnlock(t)
      <4>1. \/ pc[t] = "end" /\ pc' = [pc EXCEPT ![t] = "unlock"]
            \/ pc[t] \in {"end", "unlock"} /\ pc' = [pc EXCEPT ![t] = "finish"]
        BY <3>5 DEF HypEnd, HypEndRefused, TransactionUnlock, Goto
      <4> QED
        BY <2>1, <3>1, <4>1 DEF Left, Pcs
    <3>6. CASE CopyTags(t) \/ Finish(t)
      <4>1. \/ pc[t] = "finish" /\ pc' = [pc EXCEPT ![t] = "check"]
            \/ pc[t] = "check" /\ pc' = [pc EXCEPT ![t] = "idle"]
        BY <3>6 DEF CopyTags, Finish, Goto
      <4> QED
        BY <2>1, <3>1, <4>1 DEF Left, Pcs
    <3> QED
      BY <2>1, <3>2, <3>3, <3>4, <3>5, <3>6 DEF Step
  <2>2. ASSUME BaseInv, Environment
        PROVE  Forward
    <3>1. CASE FwTake
      <4>1. /\ Len(req') = Len(req) - 1 /\ Len(req) \in Nat /\ Len(resp) \in Nat
            /\ fw = NoMsg /\ resp' = resp /\ pc' = pc
        BY <2>2, <3>1 DEF FwTake, caller
      <4> QED
        BY <4>1 DEF Forward, LeftForMail
    <3>2. CASE \E s \in Answers : FwAnswer(s)
      <4>1. fw # NoMsg /\ fw' = NoMsg /\ req' = req /\ pc' = pc
        BY <3>2 DEF FwAnswer, caller
      <4>2. fw.buf \in Bufs
        BY <2>2, <4>1 DEF BufferInv
      <4>3. Len(resp') = Len(resp) + 1 /\ Len(req) \in Nat /\ Len(resp) \in Nat
        BY <2>2, <3>2, <4>2 DEF FwAnswer
      <4> QED
        BY <4>1, <4>3 DEF Forward, LeftForMail
    <3>3. CASE \E v \in Vms : ResponseCallback(v)
      <4>1. /\ Len(resp') = Len(resp) - 1 /\ Len(req) \in Nat /\ Len(resp) \in Nat
            /\ fw' = fw /\ req' = req /\ pc' = pc
        BY <2>2, <3>3 DEF ResponseCallback, caller
      <4> QED
        BY <4>1 DEF Forward, LeftForMail
    <3> QED
      BY <2>2, <3>1, <3>2, <3>3 DEF Environment
  <2> QED
    BY <2>1, <2>2 DEF Next
<1> QED
  BY <1>1, BaseInit, BaseStep, PTL DEF Spec

-----------------------------------------------------------------------------
(* Whose answer a call returns.                                            *)

\* Taking a message off the mailbox leaves the firmware with no buffer more
\* than it had.
LEMMA TakeKeeps ==
    ASSUME TypeOK, FwTake, NEW b \in Bufs
    PROVE  WithFirmware(b)' <=> WithFirmware(b)
<1> USE RpiFirmwareAssumption DEF TypeOK, FwTake, NoMsg
<1>0. req \in Seq(Bufs) /\ req # <<>> /\ req' = Tail(req)
      /\ fw' = [buf |-> Head(req), call |-> buf[Head(req)].call]
  OBVIOUS
<1>1. /\ Len(req) \in Nat \ {0} /\ DOMAIN req = 1 .. Len(req)
      /\ DOMAIN req' = 1 .. (Len(req) - 1)
      /\ \A i \in DOMAIN req' : req'[i] = req[i + 1]
      /\ fw'.buf = req[1]
  <2> HIDE DEF TypeOK, FwTake, NoMsg
  <2>1. Len(req) \in Nat \ {0} /\ DOMAIN req = 1 .. Len(req) BY <1>0
  <2>2. DOMAIN req' = 1 .. (Len(req) - 1) BY <1>0, <2>1
  <2>3. \A i \in DOMAIN req' : req'[i] = req[i + 1] BY <1>0, <2>1, <2>2
  <2>4. fw'.buf = req[1] BY <1>0
  <2> QED BY <2>1, <2>2, <2>3, <2>4
<1>2. fw.buf # b
  OBVIOUS
<1>3. ASSUME NEW i \in DOMAIN req, req[i] = b PROVE WithFirmware(b)'
  <2>1. CASE i = 1 BY <1>1, <1>3, <2>1 DEF WithFirmware
  <2>2. CASE i # 1
    <3>1. i - 1 \in DOMAIN req' /\ req'[i - 1] = b BY <1>1, <1>3, <2>2
    <3> QED BY <3>1 DEF WithFirmware
  <2> QED BY <2>1, <2>2
<1>4. ASSUME NEW i \in DOMAIN req', req'[i] = b PROVE WithFirmware(b)
  <2>1. i + 1 \in DOMAIN req /\ req[i + 1] = b BY <1>1, <1>4
  <2> QED BY <2>1 DEF WithFirmware
<1>5. fw'.buf = b => WithFirmware(b)
  <2>1. 1 \in DOMAIN req BY <1>1
  <2> QED BY <1>1, <2>1 DEF WithFirmware
<1> HIDE DEF TypeOK, FwTake, NoMsg
<1> QED BY <1>2, <1>3, <1>4, <1>5 DEF WithFirmware

\* The parts of the data invariant other than the types.
AnswersInv ==
    TagsInv /\ OnceInv /\ UnsentInv /\ AnsweredInv /\ CopiedInv /\ ReturnedInv

\* Every step keeps a call and its tags together, in the buffer, in the
\* firmware and in what was copied.
LEMMA DataStep ==
    ASSUME DataInv, [Next]_vars
    PROVE  DataInv'
<1> USE RpiFirmwareAssumption
<1>1. BaseInv'
  BY BaseStep DEF DataInv
<1>a. BaseInv /\ AnswersInv
  BY DEF DataInv, AnswersInv
<1> USE DEF BaseInv, TypeOK, BufferInv, AnswersInv, TagsInv, OnceInv,
            UnsentInv, AnsweredInv, CopiedInv, ReturnedInv, Goto, Call, Clean
<1>2. CASE UNCHANGED vars
  <2>1. AnswersInv' BY <1>a, <1>2 DEF vars, WithFirmware
  <2> QED BY <1>1, <2>1 DEF DataInv
<1>3. ASSUME NEW t \in Threads, NEW r \in {"EINVAL", "ENOMEM"}, Reject(t, r)
      PROVE  AnswersInv'
  BY <1>a, <1>3 DEF Reject, WithFirmware
<1>4. ASSUME NEW t \in Threads, NEW b \in Bufs, Prepare(t, b)
      PROVE  AnswersInv'
  \* The buffer is no other call's; if the firmware has it, t is not clean.
  <2>1. /\ pc[t] = "idle" /\ t \notin reused /\ b \in Free /\ calls[t] \in Nat
        /\ UNCHANGED <<got, last, req, fw>>
        /\ calls' = [calls EXCEPT ![t] = @ + 1]
        /\ mine' = [mine EXCEPT ![t] = b] /\ pc' = [pc EXCEPT ![t] = "lock"]
        /\ buf' = [buf EXCEPT ![b] = [status |-> "REQUEST",
                                     call |-> <<t, calls[t] + 1>>]]
        /\ reused' = IF WithFirmware(b) THEN reused \cup {t} ELSE reused
    BY <1>a, <1>4 DEF Prepare
  <2>2. ASSUME NEW u \in Threads, u # t
        PROVE  /\ pc'[u] = pc[u] /\ mine'[u] = mine[u] /\ mine[u] # b
               /\ Call(u)' = Call(u) /\ Clean(u)' = Clean(u)
               /\ mine[u] \in Bufs => buf'[mine[u]] = buf[mine[u]]
    BY <1>a, <2>1, <2>2 DEF Free
  <2>3. /\ mine'[t] = b /\ pc'[t] = "lock" /\ Call(t)' = <<t, calls[t] + 1>>
        /\ buf'[b].status = "REQUEST" /\ buf'[b].call = <<t, calls[t] + 1>>
        /\ Clean(t)' => ~WithFirmware(b)
    BY <1>a, <2>1
  <2> HIDE DEF Call, Clean, BaseInv, TypeOK, BufferInv
  <2>5. \A u \in Threads : Clean(u) => mine[u] \in Bufs
    BY DEF Clean
  <2>6. TagsInv'
    <3>1. ASSUME NEW u \in Threads, Clean(u)'
          PROVE  /\ buf'[mine'[u]].call = Call(u)'
                 /\ fw'.buf = mine'[u] => fw'.call = Call(u)'
      <4>1. CASE u # t BY <1>a, <2>1, <2>2, <2>5, <3>1, <4>1
      <4>2. CASE u = t BY <2>1, <2>3, <3>1, <4>2 DEF WithFirmware
      <4> QED BY <4>1, <4>2
    <3> QED BY <3>1
  <2>7. OnceInv'
    <3>1. ASSUME NEW u \in Threads, Clean(u)'
          PROVE  /\ \A i, j \in DOMAIN req : req[i] = mine'[u] /\ req[j] = mine'[u] => i = j
                 /\ fw.buf = mine'[u] => \A i \in DOMAIN req : req[i] # mine'[u]
      <4>1. CASE u # t BY <1>a, <2>2, <3>1, <4>1
      <4>2. CASE u = t BY <2>3, <3>1, <4>2 DEF WithFirmware
      <4> QED BY <4>1, <4>2
    <3> QED BY <2>1, <3>1
  <2>8. ASSUME NEW u \in Threads, Clean(u)'
        PROVE  /\ pc'[u] \in {"lock", "start", "reinit", "send"} =>
                     buf'[mine'[u]].status = "REQUEST" /\ ~WithFirmware(mine'[u])
               /\ buf'[mine'[u]].status # "REQUEST" => ~WithFirmware(mine'[u])
    <3>1. CASE u # t
      BY <1>a, <2>2, <2>5, <2>8, <3>1
    <3>2. CASE u = t
      BY <2>3, <2>8, <3>2
    <3> QED BY <3>1, <3>2
  <2>u. UnsentInv'
    BY <2>1, <2>8 DEF WithFirmware
  <2>v. AnsweredInv'
    BY <2>1, <2>8 DEF WithFirmware
  <2>9. CopiedInv'
    <3>1. ASSUME NEW u \in Threads, pc'[u] = "check"
          PROVE  /\ got'[u] \in Tags
                 /\ Clean(u)' => /\ got'[u].call = Call(u)'
                                 /\ got'[u].status \in {"REQUEST", buf'[mine'[u]].status}
      BY <1>a, <2>1, <2>2, <2>3, <2>5, <3>1
    <3> QED BY <3>1
  <2>10. ReturnedInv'
    BY <1>a, <2>1
  <2> QED BY <2>6, <2>7, <2>u, <2>v, <2>9, <2>10
<1>5. ASSUME NEW t \in Threads, Step(t) PROVE AnswersInv'
  <2>1. CASE TransactionLock(t)
    BY <1>a, <2>1 DEF TransactionLock, WithFirmware
  <2>2. CASE HypStart(t)
    BY <1>a, <2>2 DEF HypStart, WithFirmware
  <2>3. CASE HypStartRefused(t)
    <3>1. CASE ChecksHyp
      BY <1>a, <2>3, <3>1 DEF HypStartRefused, WithFirmware
    <3>2. CASE ~ChecksHyp
      BY <1>a, <2>3, <3>2 DEF HypStartRefused, WithFirmware
    <3> QED BY <3>1, <3>2
  <2>4. CASE ReinitCompletion(t)
    BY <1>a, <2>4 DEF ReinitCompletion, WithFirmware
  <2>5. CASE SendMessage(t)
    <3>1. /\ mine[t] \in Bufs
          /\ Clean(t) => /\ ~WithFirmware(mine[t])
                         /\ buf[mine[t]].status = "REQUEST"
          /\ \A u \in Threads : Clean(u)' = Clean(u) /\ (mine[u] = mine[t] => u = t)
      BY <1>a, <2>5 DEF SendMessage
    <3>2. /\ req \in Seq(Bufs) /\ DOMAIN req' = DOMAIN req \cup {Len(req) + 1}
          /\ \A i \in DOMAIN req : req'[i] = req[i] /\ i # Len(req) + 1
          /\ req'[Len(req) + 1] = mine[t]
      BY <1>a, <2>5, <3>1 DEF SendMessage
    <3>3. \A b \in Bufs : WithFirmware(b)' <=> WithFirmware(b) \/ b = mine[t]
      BY <2>5, <3>1, <3>2 DEF SendMessage, WithFirmware
    <3>4. OnceInv'
      BY <1>a, <2>5, <3>1, <3>2, SMTT(30) DEF SendMessage, WithFirmware
    <3>5. TagsInv' /\ CopiedInv' /\ ReturnedInv'
      BY <1>a, <2>5 DEF SendMessage
    <3>6. UnsentInv' /\ AnsweredInv'
      BY <1>a, <2>5, <3>1, <3>3 DEF SendMessage, Pcs
    <3> QED BY <3>4, <3>5, <3>6
  <2>6. CASE SendMessageFails(t)
    BY <1>a, <2>6 DEF SendMessageFails, WithFirmware
  <2>7. CASE WaitCompletes(t)
    BY <1>a, <2>7 DEF WaitCompletes, WithFirmware
  <2>8. CASE WaitTimesOut(t)
    BY <1>a, <2>8 DEF WaitTimesOut, WithFirmware
  <2>9. CASE HypEnd(t)
    BY <1>a, <2>9 DEF HypEnd, WithFirmware
  <2>10. CASE HypEndRefused(t)
    <3>1. CASE ChecksHyp
      BY <1>a, <2>10, <3>1 DEF HypEndRefused, WithFirmware
    <3>2. CASE ~ChecksHyp
      BY <1>a, <2>10, <3>2 DEF HypEndRefused, WithFirmware
    <3> QED BY <3>1, <3>2
  <2>11. CASE TransactionUnlock(t)
    BY <1>a, <2>11 DEF TransactionUnlock, WithFirmware
  <2>12. CASE CopyTags(t)
    <3>1. TagsInv' /\ OnceInv' /\ UnsentInv' /\ AnsweredInv' /\ ReturnedInv'
      BY <1>a, <2>12 DEF CopyTags, WithFirmware
    <3>2. CopiedInv'
      <4>1. /\ buf[mine[t]] \in Tags
            /\ Clean(t) => buf[mine[t]].call = Call(t)
        BY <1>a, <2>12 DEF CopyTags
      <4> QED BY <1>a, <2>12, <4>1 DEF CopyTags
    <3> QED BY <3>1, <3>2
  <2>13. CASE Finish(t)
    <3>1. TagsInv' /\ OnceInv' /\ UnsentInv' /\ AnsweredInv' /\ CopiedInv'
      BY <1>a, <2>13 DEF Finish, WithFirmware
    <3>2. ReturnedInv'
      \* The tags copied out are the call's own, and ListResult has looked
      \* at the status word.
      <4>1. pc[t] = "check" /\ mine[t] \in Bufs /\ got[t] \in Tags
        BY <1>a, <2>13 DEF Finish
      <4>2. t \notin reused => got[t].call = Call(t)
        BY <1>a, <4>1
      <4>3. t \notin reused /\ ListResult(t) = "OK" =>
              got[t].status \in {"REQUEST", "SUCCESS"}
        BY <1>a, <4>1 DEF ListResult
      <4> HIDE DEF Call, Clean
      <4> QED BY <1>a, <2>13, <4>1, <4>2, <4>3 DEF Finish
    <3> QED BY <3>1, <3>2
  <2> QED BY <1>5, <2>1, <2>2, <2>3, <2>4, <2>5, <2>6, <2>7, <2>8, <2>9,
             <2>10, <2>11, <2>12, <2>13 DEF Step
<1>6. ASSUME FwTake PROVE AnswersInv'
  <2>1. req # <<>> /\ req \in Seq(Bufs) /\ Head(req) \in Bufs
    BY <1>a, <1>6 DEF FwTake
  <2>2. /\ DOMAIN req' = 1 .. (Len(req) - 1) /\ Head(req) = req[1]
        /\ \A i \in DOMAIN req' : /\ i + 1 \in DOMAIN req /\ 1 # i + 1
                                  /\ req'[i] = req[i + 1]
        /\ 1 \in DOMAIN req
    BY <1>6, <2>1 DEF FwTake
  <2>3. OnceInv'
    <3>1. ASSUME NEW t \in Threads, Clean(t)
          PROVE  /\ \A i, j \in DOMAIN req' :
                       req'[i] = mine[t] /\ req'[j] = mine[t] => i = j
                 /\ Head(req) = mine[t] => \A i \in DOMAIN req' : req'[i] # mine[t]
      <4>1. \A i, j \in DOMAIN req : req[i] = mine[t] /\ req[j] = mine[t] => i = j
        BY <1>a, <3>1
      <4>2. \A i, j \in DOMAIN req' : i + 1 = j + 1 => i = j
        BY <2>1, <2>2
      <4> QED BY <2>2, <4>1, <4>2
    <3> QED BY <1>6, <3>1 DEF FwTake, caller
  <2>4. TagsInv' /\ CopiedInv' /\ ReturnedInv'
    BY <1>a, <1>6, <2>1 DEF FwTake, caller
  <2>5. UnsentInv' /\ AnsweredInv'
    BY <1>a, <1>6, TakeKeeps DEF FwTake, caller
  <2> QED BY <2>3, <2>4, <2>5
<1>7. ASSUME NEW s \in Answers, FwAnswer(s) PROVE AnswersInv'
  <2>1. s # "REQUEST" /\ fw.buf \in Bufs /\ fw' = NoMsg /\ req' = req
        /\ buf' = [buf EXCEPT ![fw.buf] = [status |-> s, call |-> fw.call]]
        /\ UNCHANGED caller
    BY <1>a, <1>7 DEF FwAnswer
  <2>2. \A b \in Bufs : WithFirmware(b)' => WithFirmware(b)
    BY <1>a, <2>1 DEF WithFirmware, NoMsg
  <2>3. OnceInv' /\ ReturnedInv'
    BY <1>a, <2>1 DEF caller, NoMsg
  <2>c. \A t \in Threads : Clean(t)' => Clean(t) /\ mine[t] \in Bufs
    BY <2>1 DEF caller
  <2>d. \A t \in Threads : Clean(t) /\ mine[t] = fw.buf =>
          ~WithFirmware(mine[t])' /\ fw.call = Call(t)
    BY <1>a, <2>1 DEF caller, NoMsg, WithFirmware
  <2>4. TagsInv' /\ UnsentInv' /\ AnsweredInv'
    <3>1. \A t \in Threads : Clean(t) /\ mine[t] # fw.buf =>
            buf'[mine[t]] = buf[mine[t]]
      BY <1>a, <2>1
    <3>2. TagsInv'
      BY <1>a, <2>1, <2>c, <2>d, <3>1 DEF caller, NoMsg
    <3>3. UnsentInv'
      BY <1>a, <2>1, <2>2, <2>c, <3>1 DEF caller, WithFirmware
    <3>4. AnsweredInv'
      BY <1>a, <2>1, <2>2, <2>c, <2>d, <3>1 DEF caller
    <3> QED BY <3>2, <3>3, <3>4
  <2>5. CopiedInv'
    \* The firmware still has the buffer it answers in, so that one holds a
    \* request.
    BY <1>a, <2>1 DEF caller, WithFirmware, Statuses, Tags
  <2> QED BY <2>3, <2>4, <2>5
<1>8. ASSUME NEW v \in Vms, ResponseCallback(v) PROVE AnswersInv'
  BY <1>a, <1>8 DEF ResponseCallback, caller, WithFirmware
<1> HIDE DEF BaseInv, TypeOK, BufferInv, AnswersInv
<1>9. CASE Next
  <2>1. AnswersInv'
    BY <1>9, <1>3, <1>4, <1>5, <1>6, <1>7, <1>8 DEF Next, Begin, Environment
  <2> QED BY <1>1, <2>1 DEF DataInv, AnswersInv
<1> QED BY <1>2, <1>9

\* A call and its tags stay together throughout.
LEMMA DataInvariant == Spec => []DataInv
<1>1. Init => DataInv
  BY BaseInit, RpiFirmwareAssumption
  DEF Init, DataInv, TagsInv, OnceInv, UnsentInv, AnsweredInv, CopiedInv,
      ReturnedInv, WithFirmware, NoMsg, Clean
<1>2. DataInv /\ [Next]_vars => DataInv'
  BY DataStep
<1> QED BY <1>1, <1>2, PTL DEF Spec

-----------------------------------------------------------------------------
(* As long as no wait has timed out.                                       *)

Quiet ==
    req = <<>> /\ fw = NoMsg /\ resp = <<>> /\ completion = [v \in Vms |-> 0]

\* The one message of the thread that waits: on its way to the firmware, in
\* its hands, on its way back, or become a completion.
InFlight(t) ==
    \/ /\ buf[mine[t]].status = "REQUEST"
       /\ req = <<mine[t]>> /\ fw = NoMsg /\ resp = <<>>
       /\ completion = [v \in Vms |-> 0]
    \/ /\ buf[mine[t]].status = "REQUEST"
       /\ req = <<>> /\ fw.buf = mine[t] /\ resp = <<>>
       /\ completion = [v \in Vms |-> 0]
    \/ /\ buf[mine[t]].status # "REQUEST"
       /\ req = <<>> /\ fw = NoMsg /\ resp = <<mine[t]>>
       /\ completion = [v \in Vms |-> 0]
    \/ /\ buf[mine[t]].status # "REQUEST"
       /\ req = <<>> /\ fw = NoMsg /\ resp = <<>>
       /\ completion = [v \in Vms |-> IF v = VmOf[t] THEN 1 ELSE 0]

WaitInv ==
    /\ \A t \in Threads : pc[t] = "wait" => InFlight(t)
    /\ (\A t \in Threads : pc[t] # "wait") => Quiet

\* A transaction that returned 0 was answered, and so were the tags copied
\* out and handed back.
RepliedInv ==
    /\ \A t \in Threads : pc[t] \in {"end", "unlock", "finish", "check"} /\ ret[t] = "OK" =>
          buf[mine[t]].status # "REQUEST"
    /\ \A t \in Threads : pc[t] = "check" /\ ret[t] = "OK" =>
          got[t].status # "REQUEST"
    /\ \A t \in Threads : last[t].ret = "OK" =>
          ~last[t].reused /\ last[t].data.status = "SUCCESS"
    /\ reused = {}

PromptInv == ~timedout => WaitInv /\ RepliedInv

\* Environment steps, under the assumption that exactly the waiting thread's
\* message is under way.
LEMMA PromptEnvironment ==
    ASSUME ExclusionInv, DataInv, WaitInv, RepliedInv, Environment
    PROVE  WaitInv' /\ RepliedInv'
<1> USE RpiFirmwareAssumption
<1> USE DEF ExclusionInv, DataInv, BaseInv, TypeOK, BufferInv, UsesMailbox
<1>1. PICK t \in Threads : pc[t] = "wait"
  \* In a quiet state nothing can happen outside the drivers.
  BY DEF Environment, FwTake, FwAnswer, ResponseCallback, WaitInv, Quiet
<1>2. /\ \A u \in Threads : pc[u] = "wait" => u = t
      /\ InFlight(t) /\ owner = VmOf[t] /\ mine[t] \in Bufs /\ VmOf[t] \in Vms
  BY <1>1 DEF WaitInv, LockInv, OwnerInv, InTransaction
<1>3. UNCHANGED caller
  BY DEF Environment, FwTake, FwAnswer, ResponseCallback
<1>4. \A u \in Threads : u # t /\ pc[u] # "idle" => mine[u] # mine[t] /\ mine[u] \in Bufs
  BY <1>2
<1>5. ASSUME InFlight(t)' PROVE WaitInv'
  BY <1>1, <1>2, <1>3, <1>5 DEF WaitInv, caller
<1>6. CASE FwTake
  <2>1. /\ req = <<mine[t]>> /\ resp = <<>>
        /\ completion = [v \in Vms |-> 0] /\ buf[mine[t]].status = "REQUEST"
    BY <1>2, <1>6 DEF InFlight, FwTake, NoMsg
  <2>2. /\ req' = Tail(req) /\ fw'.buf = Head(req)
        /\ UNCHANGED <<mine, buf, resp, completion>>
    BY <1>6 DEF FwTake, caller
  <2>3. Head(<<mine[t]>>) = mine[t] /\ Tail(<<mine[t]>>) = <<>>
    OBVIOUS
  <2>4. req' = <<>> /\ fw'.buf = mine[t]
    BY <2>1, <2>2, <2>3, Zenon
  <2>5. InFlight(t)'
    BY <2>1, <2>2, <2>4, Zenon DEF InFlight
  <2>6. RepliedInv'
    BY <1>3, <1>6 DEF RepliedInv, FwTake, caller
  <2> QED BY <1>5, <2>5, <2>6
<1>7. ASSUME NEW s \in Answers, FwAnswer(s) PROVE WaitInv' /\ RepliedInv'
  <2>1. fw.buf = mine[t] /\ s # "REQUEST"
        /\ buf' = [buf EXCEPT ![mine[t]] = [status |-> s, call |-> fw.call]]
    BY <1>2, <1>7 DEF InFlight, FwAnswer
  <2>2. req = <<>> /\ resp = <<>> /\ completion = [v \in Vms |-> 0]
    BY <1>2, <1>7 DEF InFlight, FwAnswer
  <2>3. /\ resp' = Append(resp, mine[t]) /\ fw' = NoMsg
        /\ UNCHANGED <<mine, req, completion>>
    BY <1>7, <2>1 DEF FwAnswer, caller
  <2>4. Append(<<>>, mine[t]) = <<mine[t]>>
    OBVIOUS
  <2>5. buf'[mine[t]].status # "REQUEST"
    BY <1>2, <2>1
  <2>6. InFlight(t)'
    BY <2>2, <2>3, <2>4, <2>5, Zenon DEF InFlight
  <2>7. RepliedInv'
    BY <1>1, <1>2, <1>3, <1>4, <2>1 DEF RepliedInv, caller
  <2> QED BY <1>5, <2>6, <2>7
<1>8. ASSUME NEW v \in Vms, ResponseCallback(v) PROVE WaitInv' /\ RepliedInv'
  <2>1. v = VmOf[t]
    BY <1>2, <1>8 DEF ResponseCallback
  <2>2. InFlight(t)'
    <3>1. resp = <<mine[t]>> /\ completion = [u \in Vms |-> 0]
          /\ req = <<>> /\ fw = NoMsg /\ buf[mine[t]].status # "REQUEST"
      BY <1>2, <1>8 DEF InFlight, ResponseCallback
    <3>2. /\ resp' = Tail(resp) /\ UNCHANGED <<mine, buf, req, fw>>
          /\ completion' = [completion EXCEPT ![VmOf[t]] = @ + 1]
      BY <1>8, <2>1 DEF ResponseCallback, caller
    <3>3. Tail(<<mine[t]>>) = <<>>
      OBVIOUS
    <3>4. completion' = [u \in Vms |-> IF u = VmOf[t] THEN 1 ELSE 0]
      <4> HIDE DEF TypeOK, BaseInv, DataInv, ExclusionInv, BufferInv
      <4>1. completion' = [u \in Vms |-> IF u = VmOf[t] THEN completion[VmOf[t]] + 1
                                                        ELSE completion[u]]
        BY <3>1, <3>2
      <4>2. completion[VmOf[t]] + 1 = 1 /\ \A u \in Vms : completion[u] = 0
        BY <1>2, <3>1
      <4> QED BY <4>1, <4>2
    <3> QED BY <3>1, <3>2, <3>3, <3>4, Zenon DEF InFlight
  <2>3. RepliedInv'
    BY <1>3, <1>8 DEF RepliedInv, ResponseCallback, caller
  <2> QED BY <1>5, <2>2, <2>3
<1> QED BY <1>6, <1>7, <1>8 DEF Environment

\* The steps of the threads.
LEMMA PromptThreads ==
    ASSUME ExclusionInv, DataInv, WaitInv, RepliedInv,
           NEW t \in Threads, Begin(t) \/ Step(t), ~timedout'
    PROVE  WaitInv' /\ RepliedInv'
<1> USE RpiFirmwareAssumption
<1> USE DEF ExclusionInv, DataInv, BaseInv, TypeOK, BufferInv, UsesMailbox, Goto
<1> DEFINE Others == UNCHANGED <<req, fw, resp, completion>>
<1>0. UsesMailbox(t) => \A u \in Threads : pc[u] = "wait" => u = t
  BY DEF LockInv, OwnerInv, InTransaction
<1>1. ASSUME NEW r \in {"EINVAL", "ENOMEM"}, Reject(t, r)
      PROVE  WaitInv' /\ RepliedInv'
  BY <1>1 DEF Reject, WaitInv, RepliedInv, InFlight, Quiet
<1>2. ASSUME NEW b \in Bufs, Prepare(t, b) PROVE WaitInv' /\ RepliedInv'
  <2>1. pc' = [pc EXCEPT ![t] = "lock"] /\ pc[t] = "idle" /\ Others /\ ret' = ret
        /\ got' = got /\ last' = last
        /\ mine' = [mine EXCEPT ![t] = b] /\ b \in Free
        /\ reused' = IF WithFirmware(b) THEN reused \cup {t} ELSE reused
    BY <1>2 DEF Prepare
  <2>2. \A u \in Threads : u # t /\ pc[u] # "idle" =>
          mine'[u] = mine[u] /\ buf'[mine[u]] = buf[mine[u]]
    BY <1>2 DEF Prepare, Free
  <2>3. WaitInv'
    <3>1. ASSUME NEW u \in Threads, pc'[u] = "wait" PROVE InFlight(u)'
      <4>1. u # t /\ pc[u] = "wait" /\ InFlight(u)
        BY <2>1, <3>1 DEF WaitInv
      <4>2. mine'[u] = mine[u] /\ buf'[mine[u]] = buf[mine[u]]
        BY <2>2, <4>1
      <4> QED BY <2>1, <4>1, <4>2 DEF InFlight
    <3>2. (\A u \in Threads : pc'[u] # "wait") => Quiet'
      BY <2>1 DEF WaitInv, Quiet
    <3> QED BY <3>1, <3>2 DEF WaitInv
  <2>4. ASSUME NEW u \in Threads, pc'[u] \in {"end", "unlock", "finish", "check"}
        PROVE  u # t /\ pc[u] = pc'[u] /\ mine'[u] = mine[u]
                 /\ buf'[mine[u]] = buf[mine[u]]
    <3>1. u # t /\ pc[u] = pc'[u]
      BY <2>1, <2>4
    <3> QED BY <2>2, <2>4, <3>1
  <2>5. reused' = {}
    \* The one buffer the firmware may have is that of the call that waits.
    <3>1. CASE \A u \in Threads : pc[u] # "wait"
      BY <2>1, <3>1 DEF WaitInv, RepliedInv, Quiet, WithFirmware, NoMsg
    <3>2. ASSUME NEW u \in Threads, pc[u] = "wait" PROVE reused' = {}
      <4>1. InFlight(u) /\ mine[u] # b
        BY <2>1, <3>2 DEF WaitInv, Free
      <4>2. ~WithFirmware(b)
        BY <4>1 DEF InFlight, WithFirmware, NoMsg
      <4> QED BY <2>1, <4>2 DEF RepliedInv
    <3> QED BY <3>1, <3>2
  <2>6. RepliedInv'
    <3> HIDE DEF ExclusionInv, DataInv, BaseInv, TypeOK, BufferInv
    <3> QED BY <2>1, <2>4, <2>5, SMTT(30) DEF RepliedInv
  <2> QED BY <2>3, <2>6
<1>3. CASE TransactionLock(t)
  BY <1>3 DEF TransactionLock, WaitInv, RepliedInv, InFlight, Quiet
<1>4. CASE HypStart(t)
  BY <1>4 DEF HypStart, WaitInv, RepliedInv, InFlight, Quiet
<1>5. CASE HypStartRefused(t)
  <2>1. WaitInv'
    BY <1>5 DEF HypStartRefused, WaitInv, InFlight, Quiet
  <2>2. CASE ChecksHyp
    <3>1. /\ pc' = [pc EXCEPT ![t] = "finish"] /\ ret' = [ret EXCEPT ![t] = "EINVAL"]
          /\ UNCHANGED <<mine, buf, got, last, reused>>
      BY <1>5, <2>2 DEF HypStartRefused
    <3>2. RepliedInv'
      BY <3>1 DEF RepliedInv
    <3> QED BY <2>1, <3>2
  <2>3. CASE ~ChecksHyp
    <3>1. /\ pc' = [pc EXCEPT ![t] = "reinit"]
          /\ UNCHANGED <<ret, mine, buf, got, last, reused>>
      BY <1>5, <2>3 DEF HypStartRefused
    <3>2. RepliedInv'
      BY <3>1 DEF RepliedInv
    <3> QED BY <2>1, <3>2
  <2> QED BY <2>2, <2>3
<1>6. CASE ReinitCompletion(t)
  <2>1. \A u \in Threads : pc[u] # "wait"
    BY <1>0, <1>6 DEF ReinitCompletion
  <2>2. completion' = [v \in Vms |-> 0]
    BY <1>6, <2>1 DEF ReinitCompletion, WaitInv, Quiet
  <2>3. WaitInv'
    <3>1. pc' = [pc EXCEPT ![t] = "send"] /\ UNCHANGED <<req, fw, resp>>
      BY <1>6 DEF ReinitCompletion
    <3>2. \A u \in Threads : pc'[u] # "wait"
      BY <2>1, <3>1
    <3>3. Quiet'
      BY <2>1, <2>2, <3>1 DEF WaitInv, Quiet
    <3> QED BY <3>2, <3>3, Zenon DEF WaitInv
  <2>4. /\ pc' = [pc EXCEPT ![t] = "send"]
        /\ UNCHANGED <<ret, mine, buf, got, last, reused>>
    BY <1>6 DEF ReinitCompletion
  <2>5. RepliedInv'
    BY <2>4 DEF RepliedInv
  <2> QED BY <2>3, <2>5
<1>7. CASE SendMessage(t)
  <2>1. \A u \in Threads : pc[u] # "wait"
    BY <1>0, <1>7 DEF SendMessage
  <2>2. req' = <<mine[t]>>
    <3>1. req = <<>> /\ req' = Append(req, mine[t])
      BY <1>7, <2>1 DEF SendMessage, WaitInv, Quiet
    <3>2. Append(<<>>, mine[t]) = <<mine[t]>>
      OBVIOUS
    <3> QED BY <3>1, <3>2, Zenon
  <2>3. buf[mine[t]].status = "REQUEST"
    BY <1>7 DEF SendMessage, UnsentInv, Clean, RepliedInv
  <2>4. InFlight(t)'
    BY <1>7, <2>1, <2>2, <2>3 DEF SendMessage, WaitInv, Quiet, InFlight
  <2>5. WaitInv'
    BY <1>7, <2>1, <2>4 DEF SendMessage, WaitInv
  <2>6. RepliedInv'
    BY <1>7 DEF SendMessage, RepliedInv
  <2> QED BY <2>5, <2>6
<1>8. CASE SendMessageFails(t)
  <2>1. \A u \in Threads : pc[u] # "wait"
    BY <1>0, <1>8 DEF SendMessageFails
  <2>2. WaitInv'
    BY <1>8, <2>1 DEF SendMessageFails, WaitInv, Quiet
  <2>3. RepliedInv'
    BY <1>8 DEF SendMessageFails, RepliedInv
  <2> QED BY <2>2, <2>3
<1>9. CASE WaitCompletes(t)
  <2>1. \A u \in Threads : pc[u] = "wait" => u = t
    BY <1>0, <1>9 DEF WaitCompletes
  <2>2. /\ buf[mine[t]].status # "REQUEST" /\ VmOf[t] \in Vms
        /\ req = <<>> /\ fw = NoMsg /\ resp = <<>>
        /\ completion = [v \in Vms |-> IF v = VmOf[t] THEN 1 ELSE 0]
    BY <1>9 DEF WaitCompletes, WaitInv, InFlight
  <2>3. completion' = [v \in Vms |-> 0]
    <3>1. completion' = [v \in Vms |-> IF v = VmOf[t] THEN completion[VmOf[t]] - 1
                                                    ELSE completion[v]]
      BY <1>9 DEF WaitCompletes
    <3>2. completion[VmOf[t]] = 1 /\ \A v \in Vms : v # VmOf[t] => completion[v] = 0
      BY <2>2
    <3> HIDE DEF ExclusionInv, DataInv, BaseInv, TypeOK, BufferInv
    <3> QED BY <3>1, <3>2
  <2>4. WaitInv'
    BY <1>9, <2>1, <2>2, <2>3 DEF WaitCompletes, WaitInv, Quiet
  <2>5. RepliedInv'
    BY <1>9, <2>2 DEF WaitCompletes, RepliedInv
  <2> QED BY <2>4, <2>5
<1>10. ~WaitTimesOut(t)
  BY DEF WaitTimesOut
<1>11. CASE HypEnd(t)
  BY <1>11 DEF HypEnd, WaitInv, RepliedInv, InFlight, Quiet
<1>12. CASE HypEndRefused(t)
  <2>1. WaitInv'
    BY <1>12 DEF HypEndRefused, WaitInv, InFlight, Quiet
  <2>2. CASE ChecksHyp
    <3>1. /\ pc' = [pc EXCEPT ![t] = "finish"] /\ ret' = [ret EXCEPT ![t] = "EINVAL"]
          /\ UNCHANGED <<mine, buf, got, last, reused>>
      BY <1>12, <2>2 DEF HypEndRefused
    <3>2. RepliedInv'
      BY <3>1 DEF RepliedInv
    <3> QED BY <2>1, <3>2
  <2>3. CASE ~ChecksHyp
    <3>1. /\ pc[t] = "end" /\ pc' = [pc EXCEPT ![t] = "unlock"]
          /\ UNCHANGED <<ret, mine, buf, got, last, reused>>
      BY <1>12, <2>3 DEF HypEndRefused
    <3>2. RepliedInv'
      BY <3>1 DEF RepliedInv
    <3> QED BY <2>1, <3>2
  <2> QED BY <2>2, <2>3
<1>13. CASE TransactionUnlock(t)
  BY <1>13 DEF TransactionUnlock, WaitInv, RepliedInv, InFlight, Quiet
<1>14. CASE CopyTags(t)
  <2>1. WaitInv'
    BY <1>14 DEF CopyTags, WaitInv, InFlight, Quiet
  <2>2. RepliedInv'
    BY <1>14 DEF CopyTags, RepliedInv
  <2> QED BY <2>1, <2>2
<1>15. CASE Finish(t)
  <2>1. WaitInv'
    BY <1>15 DEF Finish, WaitInv, InFlight, Quiet
  <2>2. ListResult(t) = "OK" => got[t].status = "SUCCESS"
    BY <1>15 DEF Finish, ListResult, RepliedInv, CopiedInv, Clean
  <2>3. RepliedInv'
    BY <1>15, <2>2 DEF Finish, RepliedInv
  <2> QED BY <2>1, <2>3
<1> HIDE DEF ExclusionInv, DataInv, BaseInv, TypeOK, BufferInv, UsesMailbox, Goto
<1> QED BY <1>1, <1>2, <1>3, <1>4, <1>5, <1>6, <1>7, <1>8, <1>9, <1>10, <1>11,
           <1>12, <1>13, <1>14, <1>15 DEF Begin, Step

\* Every step before the first timeout keeps the one message and the one
\* thread that waits for it together.
LEMMA PromptStep ==
    ASSUME ExclusionInv, DataInv, PromptInv, [Next]_vars
    PROVE  PromptInv'
<1> SUFFICES ASSUME ~timedout' PROVE WaitInv' /\ RepliedInv'
  BY DEF PromptInv
<1>1. ~timedout
  BY DEF Next, Begin, Step, Environment, Reject, Prepare, TransactionLock,
         HypStart, HypStartRefused, ReinitCompletion, SendMessage,
         SendMessageFails, WaitCompletes, WaitTimesOut, HypEnd, HypEndRefused,
         TransactionUnlock, CopyTags, Finish, FwTake, FwAnswer,
         ResponseCallback, vars
<1>2. WaitInv /\ RepliedInv
  BY <1>1 DEF PromptInv
<1>3. CASE UNCHANGED vars
  BY <1>2, <1>3 DEF vars, WaitInv, RepliedInv, InFlight, Quiet
<1>4. ASSUME NEW t \in Threads, Begin(t) \/ Step(t)
      PROVE  WaitInv' /\ RepliedInv'
  BY <1>2, <1>4, PromptThreads
<1>5. CASE Environment
  BY <1>2, <1>5, PromptEnvironment
<1> QED BY <1>3, <1>4, <1>5 DEF Next

\* Before the first timeout a wait ends with the answer to its own message.
LEMMA PromptInvariant == StartHeeded => (Spec => []PromptInv)
<1> SUFFICES ASSUME StartHeeded PROVE Spec => []PromptInv
  OBVIOUS
<1>1. Init => PromptInv
  BY DEF Init, PromptInv, WaitInv, RepliedInv, Quiet
<1>2. ExclusionInv /\ DataInv /\ PromptInv /\ [Next]_vars => PromptInv'
  BY PromptStep
<1> QED BY <1>1, <1>2, ExclusionInvariant, DataInvariant, PTL DEF Spec

\* A property call that returns 0 has tags of this call, unless it was given a
\* buffer that an earlier message still names; and before the first timeout
\* every such call has the firmware's answer: whatever the guests'
\* interleaving, late answers and failed sends, and whichever free buffer the
\* allocator hands out, as long as a refused START is heeded.
THEOREM AnswerIsMine == StartHeeded => (Spec => []SuccessIsMine)
<1>1. DataInv /\ PromptInv => SuccessIsMine
  <2> SUFFICES ASSUME DataInv, PromptInv, NEW t \in Threads, last[t].ret = "OK"
               PROVE  /\ ~last[t].reused => last[t].data.call = last[t].call
                      /\ ~timedout => last[t].data = [status |-> "SUCCESS",
                                                     call |-> last[t].call]
    BY DEF SuccessIsMine
  <2>1. /\ last[t].data \in Tags
        /\ ~last[t].reused => last[t].data.call = last[t].call
    BY DEF DataInv, ReturnedInv
  <2>2. ASSUME ~timedout
        PROVE  ~last[t].reused /\ last[t].data.status = "SUCCESS"
    BY <2>2 DEF PromptInv, RepliedInv
  <2>3. last[t].data = [status |-> last[t].data.status, call |-> last[t].data.call]
    BY <2>1 DEF Tags
  <2> QED BY <2>1, <2>2, <2>3
<1> QED BY <1>1, DataInvariant, PromptInvariant, PTL

\* Under the same condition a call that returns 0 frees a buffer that no
\* message to the firmware names any more, unless one named it already when
\* the call was given it, and no call at all does before the first timeout.
THEOREM SuccessFreesSafely == StartHeeded => (Spec => SuccessEndsUse)
<1> SUFFICES ASSUME StartHeeded PROVE Spec => SuccessEndsUse
  OBVIOUS
<1>1. DataInv /\ PromptInv /\ [Next]_vars =>
        [\A t \in Threads : Finish(t) /\ WithFirmware(mine[t]) =>
           timedout /\ (last'[t].ret = "OK" => t \in reused)]_vars
  <2> SUFFICES ASSUME DataInv, PromptInv, NEW t \in Threads, Finish(t),
                      WithFirmware(mine[t])
               PROVE  timedout /\ (last'[t].ret = "OK" => t \in reused)
    OBVIOUS
  <2>1. pc[t] = "check" /\ mine[t] \in Bufs
    BY DEF DataInv, BaseInv, BufferInv, Finish
  <2>2. ASSUME last'[t].ret = "OK", t \notin reused PROVE FALSE
    <3>1. ListResult(t) = "OK"
      BY <2>2 DEF DataInv, BaseInv, TypeOK, Finish
    <3>2. buf[mine[t]].status = "SUCCESS"
      BY <3>1 DEF ListResult
    <3> QED BY <2>1, <2>2, <3>2 DEF DataInv, AnsweredInv, Clean
  <2>3. ASSUME ~timedout PROVE FALSE
    \* The one buffer the firmware may have is that of the call that waits.
    <3>1. WaitInv
      BY <2>3 DEF PromptInv
    <3>2. PICK u \in Threads : pc[u] = "wait" /\ InFlight(u)
      BY <2>1, <3>1, RpiFirmwareAssumption DEF WaitInv, Quiet, WithFirmware, NoMsg
    <3>3. mine[u] \in Bufs /\ u # t
      BY <2>1, <3>2 DEF DataInv, BaseInv, BufferInv
    <3>4. mine[u] # mine[t]
      BY <2>1, <3>3 DEF DataInv, BaseInv, BufferInv
    <3> QED BY <2>1, <3>2, <3>4, RpiFirmwareAssumption
            DEF InFlight, WithFirmware, NoMsg
  <2> QED BY <2>2, <2>3
<1> QED BY <1>1, DataInvariant, PromptInvariant, PTL DEF Spec, SuccessEndsUse

-----------------------------------------------------------------------------
(* Refinement of the property channel.                                     *)

\* Whatever is in a buffer that a call or a message names, some call has
\* written it.
WrittenInv ==
    /\ \A t \in Threads : mine[t] \in Bufs => buf[mine[t]].call # NoOne
    /\ \A b \in Bufs : WithFirmware(b) => buf[b].call # NoOne
    /\ fw # NoMsg => fw.call # NoOne
    /\ \A t \in Threads : pc[t] = "check" => got[t].call # NoOne

\* What some call has written is overwritten by calls and answers only.
LEMMA WrittenInvariant == Spec => []WrittenInv
<1> USE RpiFirmwareAssumption
<1>1. Init => WrittenInv
  BY DEF Init, WrittenInv, WithFirmware, NoMsg
<1>2. ASSUME BaseInv, WrittenInv, [Next]_vars PROVE WrittenInv'
  <2> USE <1>2 DEF BaseInv, TypeOK, BufferInv, Goto
  <2>a. ASSUME buf' = buf, mine' = mine, fw' = fw, got' = got,
               \A b \in Bufs : WithFirmware(b)' => WithFirmware(b) \/ buf[b].call # NoOne,
               \A t \in Threads : pc'[t] = "check" => pc[t] = "check"
        PROVE  WrittenInv'
    BY <2>a DEF WrittenInv
  <2>b. ASSUME req' = req, fw' = fw
        PROVE  \A b \in Bufs : WithFirmware(b)' => WithFirmware(b)
    BY <2>b DEF WithFirmware
  <2>1. CASE UNCHANGED vars
    BY <2>1, <2>a, <2>b DEF vars
  <2>2. ASSUME NEW t \in Threads, NEW r \in {"EINVAL", "ENOMEM"}, Reject(t, r)
        PROVE  WrittenInv'
    BY <2>2, <2>a, <2>b DEF Reject
  <2>3. ASSUME NEW t \in Threads, NEW b \in Bufs, Prepare(t, b) PROVE WrittenInv'
    <3>1. /\ mine' = [mine EXCEPT ![t] = b] /\ UNCHANGED <<req, fw, got>>
          /\ buf' = [buf EXCEPT ![b] = [status |-> "REQUEST",
                                       call |-> <<t, calls[t] + 1>>]]
          /\ \A u \in Threads : pc'[u] = "check" => pc[u] = "check"
          /\ <<t, calls[t] + 1>> \in CallId
      BY <2>3 DEF Prepare, CallId
    <3>2. <<t, calls[t] + 1>> # NoOne
      BY <3>1, NoOneIsNoCall DEF CallId
    <3>3. \A c \in Bufs : buf[c].call # NoOne \/ c = b => buf'[c].call # NoOne
      BY <3>1, <3>2
    <3> QED BY <2>b, <3>1, <3>3 DEF WrittenInv
  <2>4. ASSUME NEW t \in Threads, Step(t) PROVE WrittenInv'
    <3>1. CASE SendMessage(t)
      <4>1. \A b \in Bufs : WithFirmware(b)' => WithFirmware(b) \/ b = mine[t]
        BY <2>4, <3>1 DEF SendMessage, WithFirmware
      <4>2. mine[t] \in Bufs
        BY <3>1 DEF SendMessage
      <4> QED BY <3>1, <4>1, <4>2, <2>a DEF SendMessage, WrittenInv
    <3>2. CASE CopyTags(t)
      BY <2>b, <3>2 DEF CopyTags, WrittenInv
    <3>3. CASE Finish(t)
      BY <2>b, <3>3 DEF Finish, WrittenInv
    <3>4. CASE ~(SendMessage(t) \/ CopyTags(t) \/ Finish(t))
      <4>1. /\ UNCHANGED <<buf, mine, fw, got, req>>
            /\ \A u \in Threads : pc'[u] = "check" => pc[u] = "check"
        BY <2>4, <3>4
        DEF Step, TransactionLock, HypStart, HypStartRefused, ReinitCompletion,
            SendMessageFails, WaitCompletes, WaitTimesOut, HypEnd,
            HypEndRefused, TransactionUnlock
      <4> QED BY <4>1, <2>a, <2>b
    <3> QED BY <3>1, <3>2, <3>3, <3>4
  <2>5. CASE FwTake
    <3>1. Head(req) \in Bufs /\ WithFirmware(Head(req)) /\ fw'.call = buf[Head(req)].call
      BY <2>5 DEF FwTake, WithFirmware
    <3>2. \A b \in Bufs : WithFirmware(b)' => WithFirmware(b)
      BY <2>5, TakeKeeps
    <3> QED BY <2>5, <3>1, <3>2 DEF FwTake, WrittenInv, caller
  <2>6. ASSUME NEW s \in Answers, FwAnswer(s) PROVE WrittenInv'
    <3>1. \A b \in Bufs : WithFirmware(b)' => WithFirmware(b)
      BY <2>6 DEF FwAnswer, WithFirmware, NoMsg
    <3>2. \A b \in Bufs : buf[b].call # NoOne => buf'[b].call # NoOne
      BY <2>6 DEF FwAnswer, WrittenInv
    <3> QED BY <2>6, <3>1, <3>2 DEF FwAnswer, WrittenInv, caller
  <2>7. ASSUME NEW v \in Vms, ResponseCallback(v) PROVE WrittenInv'
    BY <2>7, <2>a, <2>b DEF ResponseCallback, caller
  <2> HIDE DEF BaseInv, TypeOK, BufferInv, Goto
  <2> QED BY <2>1, <2>2, <2>3, <2>4, <2>5, <2>6, <2>7
          DEF Next, Begin, Environment
<1> QED BY <1>1, <1>2, BaseInit, BaseStep, PTL DEF Spec

\* Every step is one of PropertyChannel, or leaves its variables alone.
LEMMA ChannelStep ==
    ASSUME DataInv, PromptInv, WrittenInv, [Next]_vars
    PROVE  [Channel!Next]_(Channel!vars)
<1> USE RpiFirmwareAssumption DEF DataInv, BaseInv, TypeOK, BufferInv, Goto
<1>a. [t \in Threads |-> pc'[t] # "idle"] = [t \in Threads |-> pc[t] # "idle"]
      /\ calls' = calls /\ last' = last /\ timedout' = timedout /\ reused' = reused
        => UNCHANGED Channel!vars
  BY DEF Channel!vars
<1>1. CASE UNCHANGED vars
  BY <1>1, <1>a DEF vars
<1>2. ASSUME NEW t \in Threads, NEW r \in {"EINVAL", "ENOMEM"}, Reject(t, r)
      PROVE  Channel!Refuse(t)
  <2>1. /\ pc[t] = "idle" /\ calls[t] < MaxCalls /\ (t \in reused) = FALSE
        /\ r \in Rets \ {"OK"}
        /\ calls' = [calls EXCEPT ![t] = @ + 1]
        /\ last' = [last EXCEPT ![t] = [call |-> <<t, calls[t] + 1>>, ret |-> r,
                                       data |-> NoOne, reused |-> FALSE]]
        /\ pc' = pc /\ timedout' = timedout /\ reused' = reused
    BY <1>2 DEF Reject, Rets
  <2>2. ~[u \in Threads |-> pc[u] # "idle"][t]
        /\ [u \in Threads |-> pc'[u] # "idle"] = [u \in Threads |-> pc[u] # "idle"]
    BY <2>1
  <2>3. Channel!Return(t, <<t, calls[t] + 1>>, r, NoOne)
    BY <2>1 DEF Channel!Return
  <2> QED BY <2>1, <2>2, <2>3, Zenon DEF Channel!Refuse
<1>3. ASSUME NEW t \in Threads, NEW b \in Bufs, Prepare(t, b)
      PROVE  Channel!Open(t)
  <2>1. /\ pc[t] = "idle" /\ calls[t] < MaxCalls /\ pc' = [pc EXCEPT ![t] = "lock"]
        /\ calls' = [calls EXCEPT ![t] = @ + 1]
        /\ UNCHANGED <<last, timedout>>
        /\ reused' = IF WithFirmware(b) THEN reused \cup {t} ELSE reused
    BY <1>3 DEF Prepare
  <2>2. [u \in Threads |-> pc'[u] # "idle"]
          = [[u \in Threads |-> pc[u] # "idle"] EXCEPT ![t] = TRUE]
    BY <2>1
  <2>3. ~timedout => ~WithFirmware(b)
    \* The one buffer the firmware may have is that of the call that waits.
    <3>1. ASSUME ~timedout PROVE WaitInv
      BY <3>1 DEF PromptInv
    <3>2. b \in Free
      BY <1>3 DEF Prepare
    <3>3. ASSUME WaitInv PROVE ~WithFirmware(b)
      <4>1. CASE \A u \in Threads : pc[u] # "wait"
        BY <3>3, <4>1 DEF WaitInv, Quiet, WithFirmware, NoMsg
      <4>2. ASSUME NEW u \in Threads, pc[u] = "wait" PROVE ~WithFirmware(b)
        BY <3>2, <3>3, <4>2 DEF WaitInv, InFlight, WithFirmware, NoMsg, Free
      <4> QED BY <4>1, <4>2
    <3> QED BY <3>1, <3>3
  <2>4. ~[u \in Threads |-> pc[u] # "idle"][t]
    BY <2>1
  <2>5. reused' = reused \/ (timedout /\ reused' = reused \cup {t})
    BY <2>1, <2>3
  <2> QED BY <2>1, <2>2, <2>4, <2>5, Zenon DEF Channel!Open
<1>4. ASSUME NEW t \in Threads, Step(t), ~Finish(t)
      PROVE  UNCHANGED Channel!vars \/ Channel!GiveUp
  <2>1. PICK l \in Pcs \ {"idle"} : pc' = [pc EXCEPT ![t] = l]
    BY <1>4 DEF Step, TransactionLock, HypStart, HypStartRefused,
                ReinitCompletion, SendMessage, SendMessageFails,
                WaitCompletes, WaitTimesOut, HypEnd, HypEndRefused,
                TransactionUnlock, CopyTags, Pcs
  <2>2. pc[t] # "idle" /\ calls' = calls /\ last' = last /\ reused' = reused
        /\ (timedout' = timedout \/ timedout' = TRUE)
    BY <1>4 DEF Step, TransactionLock, HypStart, HypStartRefused,
                ReinitCompletion, SendMessage, SendMessageFails,
                WaitCompletes, WaitTimesOut, HypEnd, HypEndRefused,
                TransactionUnlock, CopyTags
  <2>3. [u \in Threads |-> pc'[u] # "idle"] = [u \in Threads |-> pc[u] # "idle"]
    BY <2>1, <2>2
  <2>4. CASE timedout' = timedout
    BY <1>a, <2>2, <2>3, <2>4
  <2>5. CASE timedout' = TRUE
    BY <2>2, <2>3, <2>5 DEF Channel!GiveUp
  <2> QED BY <2>2, <2>4, <2>5
<1>5. ASSUME NEW t \in Threads, Finish(t)
      PROVE  Channel!Succeed(t) \/ Channel!Fail(t)
  <2>1. /\ pc[t] = "check" /\ pc' = [pc EXCEPT ![t] = "idle"] /\ calls' = calls
        /\ last' = [last EXCEPT ![t] = [call |-> Call(t), ret |-> ListResult(t),
                                       data |-> got[t], reused |-> t \in reused]]
        /\ timedout' = timedout /\ reused' = reused \ {t}
    BY <1>5 DEF Finish
  <2>2. [u \in Threads |-> pc'[u] # "idle"]
          = [[u \in Threads |-> pc[u] # "idle"] EXCEPT ![t] = FALSE]
    BY <2>1
  <2>3. /\ got[t] \in Tags /\ mine[t] \in Bufs /\ ListResult(t) \in Rets
        /\ Call(t) \in CallId
    BY <2>1 DEF CopiedInv, ListResult, Rets, Call, CallId
  <2>4. PICK s \in Statuses, c \in CallId \cup {NoOne} :
          got[t] = [status |-> s, call |-> c]
    BY <2>3 DEF Tags
  <2>5. [u \in Threads |-> pc[u] # "idle"][t]
    BY <2>1
  <2>6. last' = [last EXCEPT ![t] = [call |-> <<t, calls[t]>>, ret |-> ListResult(t),
                     data |-> [status |-> s, call |-> c], reused |-> t \in reused]]
    BY <2>1, <2>4 DEF Call
  <2>7. Channel!Close(t, ListResult(t), s, c)
    BY <2>1, <2>2, <2>5, <2>6, Zenon DEF Channel!Close, Channel!Return
  <2>8. c \in CallId
    BY <2>1, <2>4 DEF WrittenInv
  <2>9. CASE ListResult(t) = "OK" /\ t \notin reused
    <3>1. Clean(t) /\ ret[t] = "OK" /\ buf[mine[t]].status = "SUCCESS"
      BY <2>3, <2>9 DEF ListResult, Clean
    <3>2. c = <<t, calls[t]>> /\ s \in {"REQUEST", "SUCCESS"}
      <4>1. got[t].call = Call(t) /\ got[t].status \in {"REQUEST", "SUCCESS"}
        BY <2>1, <3>1 DEF CopiedInv
      <4>2. got[t].call = c /\ got[t].status = s
        BY <2>4
      <4> QED BY <4>1, <4>2 DEF Call
    <3>3. ~timedout => s # "REQUEST"
      BY <2>1, <2>4, <3>1 DEF PromptInv, RepliedInv
    <3>4. Channel!Close(t, "OK", s, <<t, calls[t]>>)
      <4>1. last' = [last EXCEPT ![t] = [call |-> <<t, calls[t]>>, ret |-> "OK",
                       data |-> [status |-> s, call |-> <<t, calls[t]>>],
                       reused |-> t \in reused]]
        BY <2>6, <2>9, <3>2
      <4> QED BY <2>1, <2>2, <2>5, <4>1, Zenon DEF Channel!Close, Channel!Return
    <3>5. CASE s = "SUCCESS"
      BY <3>4, <3>5 DEF Channel!Succeed
    <3>6. CASE s = "REQUEST"
      BY <3>3, <3>4, <3>6 DEF Channel!Succeed
    <3> QED BY <3>2, <3>5, <3>6
  <2>10. CASE ListResult(t) = "OK" /\ t \in reused
    <3>1. \E w \in Statuses, d \in CallId : Channel!Close(t, "OK", w, d)
      BY <2>7, <2>8, <2>10
    <3> QED BY <2>10, <3>1 DEF Channel!Succeed, CallId
  <2>11. CASE ListResult(t) # "OK"
    <3>1. \E r \in Rets \ {"OK"}, w \in Statuses, d \in CallId :
            Channel!Close(t, r, w, d)
      BY <2>3, <2>7, <2>8, <2>11
    <3> QED BY <3>1 DEF Channel!Fail, CallId
  <2> QED BY <2>9, <2>10, <2>11
<1>6. CASE Environment
  BY <1>6, <1>a DEF Environment, FwTake, FwAnswer, ResponseCallback, caller
<1> HIDE DEF DataInv, BaseInv, TypeOK, BufferInv, Goto
<1> QED BY <1>1, <1>2, <1>3, <1>4, <1>5, <1>6 DEF Next, Begin, Channel!Next

\* The driver, the hypercalls and the firmware together are the property
\* channel of PropertyChannel.
THEOREM Refinement == StartHeeded => (Spec => ImplementsChannel)
<1> SUFFICES ASSUME StartHeeded PROVE Spec => ImplementsChannel
  OBVIOUS
<1>1. Init => Channel!Init
  BY DEF Init, Channel!Init
<1>2. DataInv /\ PromptInv /\ WrittenInv /\ [Next]_vars =>
        [Channel!Next]_(Channel!vars)
  BY ChannelStep
<1> QED BY <1>1, <1>2, DataInvariant, WrittenInvariant, PromptInvariant, PTL
        DEF Spec, ImplementsChannel, Channel!Spec
=============================================================================
