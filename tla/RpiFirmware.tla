--------------------------- MODULE RpiFirmware ---------------------------
(***************************************************************************)
(* The Raspberry Pi firmware property channel as the guests of the PX4     *)
(* demo share it: several Linux VMs, each running the patched              *)
(* drivers/firmware/raspberrypi.c, use the one VideoCore mailbox of the    *)
(* board.  Inside a VM the calls are serialised by transaction_lock;       *)
(* between VMs by two hypercalls to Bao, RPI_HYP_ARG_START ("lock access   *)
(* to mailbox, get mailbox irqs") and RPI_HYP_ARG_END ("unlock access to   *)
(* mailbox, relinquish mailbox irqs").                                     *)
(*                                                                         *)
(* Two versions of the transaction exist in the repository and both are    *)
(* modelled: the complete file rpi_firware_transaction_patch.c ignores the *)
(* value a hypercall returns (ChecksHyp = FALSE); the patch the demo       *)
(* builds with returns -EINVAL on a negative one (ChecksHyp = TRUE).       *)
(*                                                                         *)
(* The hypervisor, the VideoCore firmware and the kernel's mailbox, mutex  *)
(* and completion code are not in the repository; they are modelled from   *)
(* the way the driver uses them.                                           *)
(***************************************************************************)
EXTENDS Naturals, Sequences

CONSTANTS
    Vms,          \* the guests that own a copy of the driver
    Threads,      \* the kernel threads that make property calls
    VmOf,         \* VmOf[t]: the guest thread t belongs to
    Bufs,         \* the DMA buffers of all the guests
    HomeOf,       \* HomeOf[b]: the guest whose memory buffer b is in
    MaxCalls,     \* bound: the calls each thread makes
    ChecksHyp,    \* TRUE: the deployed patch; FALSE: results are ignored
    StartRefuses, \* may the hypervisor answer START with an error?
    EndRefuses,   \* may the hypervisor answer END with an error?
    Answers,      \* the status words the firmware may answer with
    NoOne         \* no thread, no VM, no buffer

ASSUME RpiFirmwareAssumption ==
    /\ VmOf \in [Threads -> Vms]
    /\ HomeOf \in [Bufs -> Vms]
    /\ MaxCalls \in Nat
    /\ {ChecksHyp, StartRefuses, EndRefuses} \subseteq BOOLEAN
    /\ Answers \subseteq {"SUCCESS", "ERROR"}
    /\ NoOne \notin Threads \cup Vms \cup Bufs

ASSUME NoOneIsNoCall == NoOne \notin Threads \X (1 .. MaxCalls)

VARIABLES
    pc,          \* pc[t]: where thread t is in its call
    calls,       \* calls[t]: the calls t has begun
    ret,         \* ret[t]: the local variable ret of t's call
    mine,        \* mine[t]: the buffer of t's call, or NoOne
    got,         \* got[t]: the tags copied out of it, or NoOne
    last,        \* last[t]: what t's latest completed call gave its caller
    lock,        \* lock[v]: the thread holding v's transaction_lock
    completion,  \* completion[v]: fw->c.done in guest v
    owner,       \* the guest the hypervisor gave the mailbox and its irq to
    buf,         \* buf[b]: status word and tags of each DMA buffer
    req,         \* mailbox 1: messages (buffer addresses) to the firmware
    fw,          \* the message the firmware works on, with the tags it read
    resp,        \* mailbox 0: messages from the firmware
    timedout,    \* history: some wait of some guest has timed out
    reused       \* history: the threads whose call was given a buffer that
                 \* the firmware still had from a call that timed out

caller   == <<pc, calls, ret, mine, got, last, reused>>
mailbox  == <<req, fw, resp>>
vars     == <<pc, calls, ret, mine, got, last, lock, completion, owner, buf,
              req, fw, resp, timedout, reused>>

-----------------------------------------------------------------------------
CallId   == Threads \X (1 .. MaxCalls)
Statuses == {"REQUEST", "SUCCESS", "ERROR"}
Rets     == {"OK", "EINVAL", "ENOMEM", "ETIMEDOUT", "ESEND"}
Pcs      == {"idle", "lock", "start", "reinit", "send", "wait", "end",
             "unlock", "finish", "check"}

\* A buffer: its status word, and the call whose request or (once the status
\* is SUCCESS or ERROR) whose answer its tags are.
Tags     == [status : Statuses, call : CallId \cup {NoOne}]

NoMsg    == [buf |-> NoOne, call |-> NoOne]
Free     == {b \in Bufs : \A t \in Threads : mine[t] # b}
Call(t)  == <<t, calls[t]>>

\* The buffers the firmware may still read or write.
WithFirmware(b) == (\E i \in DOMAIN req : req[i] = b) \/ fw.buf = b

\* The part of a transaction between the two hypercalls.
UsesMailbox(t) == pc[t] \in {"reinit", "send", "wait", "end"}

Goto(t, l) == pc' = [pc EXCEPT ![t] = l]

Init ==
    /\ pc = [t \in Threads |-> "idle"]
    /\ calls = [t \in Threads |-> 0]
    /\ ret = [t \in Threads |-> "OK"]
    /\ mine = [t \in Threads |-> NoOne]
    /\ got = [t \in Threads |-> NoOne]
    /\ last = [t \in Threads |-> [call |-> NoOne, ret |-> "NONE",
                                  data |-> NoOne, reused |-> FALSE]]
    /\ lock = [v \in Vms |-> NoOne]
    /\ completion = [v \in Vms |-> 0]
    /\ owner = NoOne
    /\ buf = [b \in Bufs |-> [status |-> "REQUEST", call |-> NoOne]]
    /\ req = <<>> /\ fw = NoMsg /\ resp = <<>>
    /\ timedout = FALSE /\ reused = {}

-----------------------------------------------------------------------------
(* rpi_firmware_property() and rpi_firmware_property_list() up to the      *)
(* transaction.                                                            *)

\* kmalloc() or dma_alloc_coherent() fails, or the size is not a multiple
\* of four: the call returns before it touches the mailbox.
Reject(t, r) ==
    /\ pc[t] = "idle" /\ calls[t] < MaxCalls
    /\ calls' = [calls EXCEPT ![t] = @ + 1]
    /\ last' = [last EXCEPT ![t] = [call |-> <<t, calls[t] + 1>>,
                                    ret |-> r, data |-> NoOne,
                                    reused |-> FALSE]]
    /\ UNCHANGED <<pc, ret, mine, got, lock, completion, owner, buf, req, fw,
                   resp, timedout, reused>>

\* A buffer is allocated and the header, the tags and the end tag written.
\* Free is what the allocator knows: a call that timed out has freed its
\* buffer while the firmware had it, and the next call may get the same one.
Prepare(t, b) ==
    /\ pc[t] = "idle" /\ calls[t] < MaxCalls
    /\ HomeOf[b] = VmOf[t] /\ b \in Free
    /\ calls' = [calls EXCEPT ![t] = @ + 1]
    /\ mine' = [mine EXCEPT ![t] = b]
    /\ buf' = [buf EXCEPT ![b] = [status |-> "REQUEST",
                                  call |-> <<t, calls[t] + 1>>]]
    /\ reused' = IF WithFirmware(b) THEN reused \cup {t} ELSE reused
    /\ Goto(t, "lock")
    /\ UNCHANGED <<ret, got, last, lock, completion, owner, req, fw, resp,
                   timedout>>

-----------------------------------------------------------------------------
(* rpi_firmware_transaction().                                             *)

\* mutex_lock(&transaction_lock)
TransactionLock(t) ==
    /\ pc[t] = "lock" /\ lock[VmOf[t]] = NoOne
    /\ lock' = [lock EXCEPT ![VmOf[t]] = t]
    /\ Goto(t, "start")
    /\ UNCHANGED <<calls, ret, mine, got, last, completion, owner, buf, req,
                   fw, resp, timedout, reused>>

\* Mutant of HypStart: the hypercall is not waited for.
HypStartUnguarded(t) ==
    /\ pc[t] = "start"
    /\ owner' = VmOf[t]
    /\ Goto(t, "reinit")
    /\ UNCHANGED <<calls, ret, mine, got, last, lock, completion, buf, req, fw,
                   resp, timedout, reused>>

\* hvc RPI_HYP_ARG_START; the mailbox is free, or still this guest's.
HypStart(t) ==
    /\ pc[t] = "start" /\ owner \in {NoOne, VmOf[t]}
    /\ owner' = VmOf[t]
    /\ Goto(t, "reinit")
    /\ UNCHANGED <<calls, ret, mine, got, last, lock, completion, buf, req, fw,
                   resp, timedout, reused>>

\* Mutant of HypStartRefused: the result is not looked at.
HypStartIgnored(t) ==
    /\ pc[t] = "start" /\ StartRefuses
    /\ Goto(t, "reinit")
    /\ UNCHANGED <<calls, ret, mine, got, last, lock, completion, owner, buf,
                   req, fw, resp, timedout, reused>>

\* hvc RPI_HYP_ARG_START returns a negative value.  The deployed patch
\* returns from the transaction at once, its mutex still locked; the
\* complete file goes on.
HypStartRefused(t) ==
    /\ pc[t] = "start" /\ StartRefuses
    /\ IF ChecksHyp
         THEN Goto(t, "finish") /\ ret' = [ret EXCEPT ![t] = "EINVAL"]
         ELSE Goto(t, "reinit") /\ UNCHANGED ret
    /\ UNCHANGED <<calls, mine, got, last, lock, completion, owner, buf, req,
                   fw, resp, timedout, reused>>

\* reinit_completion(&fw->c)
ReinitCompletion(t) ==
    /\ pc[t] = "reinit"
    /\ completion' = [completion EXCEPT ![VmOf[t]] = 0]
    /\ Goto(t, "send")
    /\ UNCHANGED <<calls, ret, mine, got, last, lock, owner, buf, req, fw,
                   resp, timedout, reused>>

\* mbox_send_message() puts the buffer's address in the mailbox ...
SendMessage(t) ==
    /\ pc[t] = "send"
    /\ req' = Append(req, mine[t])
    /\ Goto(t, "wait")
    /\ UNCHANGED <<calls, ret, mine, got, last, lock, completion, owner, buf,
                   fw, resp, timedout, reused>>

\* Mutant of SendMessageFails: an early return, as after a refused hypercall.
SendMessageAborts(t) ==
    /\ pc[t] = "send"
    /\ ret' = [ret EXCEPT ![t] = "ESEND"]
    /\ Goto(t, "finish")
    /\ UNCHANGED <<calls, mine, got, last, lock, completion, owner, buf, req,
                   fw, resp, timedout, reused>>

\* ... or fails, and there is nothing to wait for.
SendMessageFails(t) ==
    /\ pc[t] = "send"
    /\ ret' = [ret EXCEPT ![t] = "ESEND"]
    /\ Goto(t, "end")
    /\ UNCHANGED <<calls, mine, got, last, lock, completion, owner, buf, req,
                   fw, resp, timedout, reused>>

\* Mutant of WaitCompletes: woken without a completion.
WaitWoken(t) ==
    /\ pc[t] = "wait"
    /\ completion' = [completion EXCEPT ![VmOf[t]] = @ - 1]
    /\ ret' = [ret EXCEPT ![t] = "OK"]
    /\ Goto(t, "end")
    /\ UNCHANGED <<calls, mine, got, last, lock, owner, buf, req, fw, resp,
                   timedout, reused>>

\* wait_for_completion_timeout(&fw->c, HZ) consumes a completion.
WaitCompletes(t) ==
    /\ pc[t] = "wait" /\ completion[VmOf[t]] > 0
    /\ completion' = [completion EXCEPT ![VmOf[t]] = @ - 1]
    /\ ret' = [ret EXCEPT ![t] = "OK"]
    /\ Goto(t, "end")
    /\ UNCHANGED <<calls, mine, got, last, lock, owner, buf, req, fw, resp,
                   timedout, reused>>

\* A second has passed and fw->c was not completed.
WaitTimesOut(t) ==
    /\ pc[t] = "wait" /\ completion[VmOf[t]] = 0
    /\ ret' = [ret EXCEPT ![t] = "ETIMEDOUT"]
    /\ timedout' = TRUE
    /\ Goto(t, "end")
    /\ UNCHANGED <<calls, mine, got, last, lock, completion, owner, buf, req,
                   fw, resp, reused>>

\* hvc RPI_HYP_ARG_END; it frees the mailbox only if this guest has it.
HypEnd(t) ==
    /\ pc[t] = "end"
    /\ owner' = IF owner = VmOf[t] THEN NoOne ELSE owner
    /\ Goto(t, "unlock")
    /\ UNCHANGED <<calls, ret, mine, got, last, lock, completion, buf, req, fw,
                   resp, timedout, reused>>

\* hvc RPI_HYP_ARG_END returns a negative value: the mailbox stays with this
\* guest, and the deployed patch leaves its mutex locked too.
HypEndRefused(t) ==
    /\ pc[t] = "end" /\ EndRefuses
    /\ IF ChecksHyp
         THEN Goto(t, "finish") /\ ret' = [ret EXCEPT ![t] = "EINVAL"]
         ELSE Goto(t, "unlock") /\ UNCHANGED ret
    /\ UNCHANGED <<calls, mine, got, last, lock, completion, owner, buf, req,
                   fw, resp, timedout, reused>>

\* mutex_unlock(&transaction_lock)
TransactionUnlock(t) ==
    /\ pc[t] = "unlock"
    /\ lock' = [lock EXCEPT ![VmOf[t]] = NoOne]
    /\ Goto(t, "finish")
    /\ UNCHANGED <<calls, ret, mine, got, last, completion, owner, buf, req,
                   fw, resp, timedout, reused>>

\* The end of rpi_firmware_property_list(): the tags are copied to the
\* caller whatever the result ...
CopyTags(t) ==
    /\ pc[t] = "finish"
    /\ got' = [got EXCEPT ![t] = buf[mine[t]]]
    /\ Goto(t, "check")
    /\ UNCHANGED <<calls, ret, mine, last, lock, completion, owner, buf, req,
                   fw, resp, timedout, reused>>

\* Mutant of ListResult: the status word is not looked at.
ListResultUnchecked(t) == ret[t]

\* ... then, when the transaction returned 0, the status word of the buffer
\* decides ...
ListResult(t) ==
    IF ret[t] = "OK" /\ buf[mine[t]].status # "SUCCESS"
      THEN "EINVAL" ELSE ret[t]

\* ... and the buffer is freed.
Finish(t) ==
    /\ pc[t] = "check"
    /\ last' = [last EXCEPT ![t] = [call |-> Call(t), ret |-> ListResult(t),
                                    data |-> got[t], reused |-> t \in reused]]
    /\ mine' = [mine EXCEPT ![t] = NoOne]
    /\ got' = [got EXCEPT ![t] = NoOne]
    /\ ret' = [ret EXCEPT ![t] = "OK"]
    /\ reused' = reused \ {t}
    /\ Goto(t, "idle")
    /\ UNCHANGED <<calls, lock, completion, owner, buf, req, fw, resp, timedout>>

-----------------------------------------------------------------------------
(* The firmware and the mailbox interrupt.                                 *)

\* The firmware takes the next message and reads the buffer it names.
FwTake ==
    /\ req # <<>> /\ fw = NoMsg
    /\ fw' = [buf |-> Head(req), call |-> buf[Head(req)].call]
    /\ req' = Tail(req)
    /\ UNCHANGED <<caller, lock, completion, owner, buf, resp, timedout>>

\* It writes its answer over the request and sends the address back.
FwAnswer(status) ==
    /\ fw # NoMsg
    /\ buf' = [buf EXCEPT ![fw.buf] = [status |-> status, call |-> fw.call]]
    /\ resp' = Append(resp, fw.buf)
    /\ fw' = NoMsg
    /\ UNCHANGED <<caller, lock, completion, owner, req, timedout>>

\* response_callback() in the guest that has the mailbox irq: fw->c is
\* completed whatever message arrived.
ResponseCallback(v) ==
    /\ resp # <<>> /\ owner = v
    /\ resp' = Tail(resp)
    /\ completion' = [completion EXCEPT ![v] = @ + 1]
    /\ UNCHANGED <<caller, lock, owner, buf, req, fw, timedout>>

-----------------------------------------------------------------------------
Step(t) ==
    \/ TransactionLock(t) \/ HypStart(t) \/ HypStartRefused(t)
    \/ ReinitCompletion(t) \/ SendMessage(t) \/ SendMessageFails(t)
    \/ WaitCompletes(t) \/ WaitTimesOut(t)
    \/ HypEnd(t) \/ HypEndRefused(t) \/ TransactionUnlock(t)
    \/ CopyTags(t) \/ Finish(t)

Begin(t) ==
    \/ \E r \in {"EINVAL", "ENOMEM"} : Reject(t, r)
    \/ \E b \in Bufs : Prepare(t, b)

Environment ==
    \/ FwTake
    \/ \E s \in Answers : FwAnswer(s)
    \/ \E v \in Vms : ResponseCallback(v)

Next == (\E t \in Threads : Begin(t) \/ Step(t)) \/ Environment

Spec == Init /\ [][Next]_vars

(* A thread in a call keeps running.  The kernel mutex queues its waiters   *)
(* and hands over to them, and the hypervisor is taken to do the same with  *)
(* the guests that wait in START, so fairness is strong: a step that is     *)
(* possible again and again is taken.  Nothing is assumed of the firmware:  *)
(* an answer may never come.                                                *)
Fairness == \A t \in Threads : SF_vars(Step(t))

FairSpec == Spec /\ Fairness

-----------------------------------------------------------------------------
(* Properties.                                                             *)

TypeOK ==
    /\ pc \in [Threads -> Pcs]
    /\ calls \in [Threads -> 0 .. MaxCalls]
    /\ ret \in [Threads -> Rets]
    /\ mine \in [Threads -> Bufs \cup {NoOne}]
    /\ got \in [Threads -> Tags \cup {NoOne}]
    /\ last \in [Threads -> [call : CallId \cup {NoOne},
                             ret : Rets \cup {"NONE"},
                             data : Tags \cup {NoOne}, reused : BOOLEAN]]
    /\ lock \in [Vms -> Threads \cup {NoOne}]
    /\ completion \in [Vms -> Nat]
    /\ owner \in Vms \cup {NoOne}
    /\ buf \in [Bufs -> Tags]
    /\ req \in Seq(Bufs)
    /\ fw \in [buf : Bufs \cup {NoOne}, call : CallId \cup {NoOne}]
    /\ resp \in Seq(Bufs)
    /\ timedout \in BOOLEAN /\ reused \subseteq Threads

\* Of all the threads of all the guests at most one is between the START and
\* the END hypercall: the reason for the mutex and the two hypercalls.
MailboxExclusive ==
    \A t, u \in Threads : UsesMailbox(t) /\ UsesMailbox(u) => t = u

\* A call that returns 0 gives its caller tags of this call and of no other,
\* although response_callback() does not look at the message, unless it was
\* given a buffer that an earlier message still names; and as long as no
\* guest's wait has timed out, so that no answer is ever late and no such
\* buffer is free, every call that returns 0 has the firmware's answer to it.
SuccessIsMine ==
    \A t \in Threads : last[t].ret = "OK" =>
        /\ ~last[t].reused => last[t].data.call = last[t].call
        /\ ~timedout => last[t].data = [status |-> "SUCCESS",
                                       call |-> last[t].call]

\* "Synchronously waits for the reply": a call that returns 0 always gives
\* its caller what the firmware has answered.
ReplyIsAwaited ==
    \A t \in Threads : last[t].ret = "OK" => last[t].data.status = "SUCCESS"

\* A call that returns 0 frees a buffer the firmware has finished with, unless
\* an earlier message named the buffer already when the call was given it; and
\* before the first timeout no call at all frees a buffer the firmware has.
SuccessEndsUse ==
    [][\A t \in Threads : Finish(t) /\ WithFirmware(mine[t]) =>
          timedout /\ (last'[t].ret = "OK" => t \in reused)]_vars

\* Seen from its callers this is the property channel of PropertyChannel.
Channel == INSTANCE PropertyChannel WITH
    open <- [t \in Threads |-> pc[t] # "idle"],
    late <- timedout,
    unlucky <- reused,
    Errors <- Rets \ {"OK"},
    Statuses <- Statuses

ImplementsChannel == Channel!Spec

\* Every call returns: whatever the firmware does, no caller waits forever.
CallsReturn == \A t \in Threads : pc[t] = "lock" ~> pc[t] = "idle"

=============================================================================
