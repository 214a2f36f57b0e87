------------------------- MODULE PropertyChannel -------------------------
(***************************************************************************)
(* What rpi_firmware_property() promises its callers, whichever guest they *)
(* are in: a call is open until it returns; it returns an error, or 0 with *)
(* the firmware's answer to this very call, as long as no answer was given *)
(* up on.  After that an answer may be late, and a call may be unlucky: it *)
(* shares its buffer with an answer given up on, and 0 promises nothing.   *)
(* Mailbox, locks, hypercalls, buffers and timeouts are the business of    *)
(* RpiFirmware, which implements this specification.                       *)
(***************************************************************************)
EXTENDS Naturals

CONSTANTS
    Threads,   \* the callers
    MaxCalls,  \* bound: the calls each of them makes
    Errors,    \* the error results a call may return
    Statuses,  \* the status words of a request or an answer
    NoOne      \* "no call"

VARIABLES
    open,      \* open[t]: t is in a call
    calls,     \* calls[t]: the calls t has begun
    last,      \* last[t]: call, result and data of t's latest completed call,
               \* and whether that call was unlucky
    late,      \* some answer has been given up on
    unlucky    \* the callers whose call shares its buffer with such an answer

vars == <<open, calls, last, late, unlucky>>

Init ==
    /\ open = [t \in Threads |-> FALSE]
    /\ calls = [t \in Threads |-> 0]
    /\ last = [t \in Threads |-> [call |-> NoOne, ret |-> "NONE",
                                  data |-> NoOne, reused |-> FALSE]]
    /\ late = FALSE /\ unlucky = {}

\* The call returns r; data is what it leaves in the caller's buffer.
Return(t, call, r, data) ==
    last' = [last EXCEPT ![t] = [call |-> call, ret |-> r, data |-> data,
                                 reused |-> t \in unlucky]]

Open(t) ==
    /\ ~open[t] /\ calls[t] < MaxCalls
    /\ open' = [open EXCEPT ![t] = TRUE]
    /\ calls' = [calls EXCEPT ![t] = @ + 1]
    /\ \/ UNCHANGED unlucky
       \/ late /\ unlucky' = unlucky \cup {t}
    /\ UNCHANGED <<last, late>>

\* The call fails before it begins.
Refuse(t) ==
    /\ ~open[t] /\ calls[t] < MaxCalls
    /\ calls' = [calls EXCEPT ![t] = @ + 1]
    /\ \E r \in Errors : Return(t, <<t, calls[t] + 1>>, r, NoOne)
    /\ UNCHANGED <<open, late, unlucky>>

\* The call returns r, with tags that have status s and are those of call c.
Close(t, r, s, c) ==
    /\ open[t]
    /\ open' = [open EXCEPT ![t] = FALSE]
    /\ Return(t, <<t, calls[t]>>, r, [status |-> s, call |-> c])
    /\ unlucky' = unlucky \ {t}
    /\ UNCHANGED <<calls, late>>

\* The data is the answer to this call; once an answer may come late, it may
\* also be the request as the caller made it, and anybody's tags in the buffer
\* of an unlucky call.
Succeed(t) ==
    \/ Close(t, "OK", "SUCCESS", <<t, calls[t]>>)
    \/ late /\ Close(t, "OK", "REQUEST", <<t, calls[t]>>)
    \/ /\ t \in unlucky
       /\ \E s \in Statuses, c \in Threads \X (1 .. MaxCalls) :
             Close(t, "OK", s, c)

\* After an error the caller's buffer may hold anybody's tags.
Fail(t) ==
    \E r \in Errors, s \in Statuses, c \in Threads \X (1 .. MaxCalls) :
        Close(t, r, s, c)

GiveUp == late' = TRUE /\ UNCHANGED <<open, calls, last, unlucky>>

Next ==
    \/ GiveUp
    \/ \E t \in Threads : Open(t) \/ Refuse(t) \/ Succeed(t) \/ Fail(t)

Spec == Init /\ [][Next]_vars
=============================================================================
