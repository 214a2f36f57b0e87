----------------------------- MODULE IpcShmem -----------------------------
(***************************************************************************)
(* The inter-VM channel of the linux+zephyr demo: a shared region with a   *)
(* channel in each direction and a doorbell.  Linux processes write to     *)
(* /dev/baoipc0 (copy_from_user into the channel, then a hypercall that    *)
(* rings the bell); Zephyr copies the channel in its interrupt handler and *)
(* prints the line in it.  Zephyr writes a text on each UART interrupt,    *)
(* without a bell; Linux reads it with cat.                                *)
(*                                                                         *)
(* A cell of the channel to Zephyr holds the line its character is from,   *)
(* or the newline that ends a line; a cell of the other one the text its   *)
(* character is from.  Copies touch their cells in any order: that is how  *)
(* the other core may see them.  The hypervisor's bell is external.        *)
(***************************************************************************)
EXTENDS Naturals, Sequences, FiniteSetsExt

CONSTANTS
    Writers,   \* Linux processes that write to the device
    Lines,     \* the lines they write
    LineLen,   \* LineLen[m]: the characters of m, its newline included
    Size,      \* the cells of a channel
    MsgSize,   \* MSG_SIZE: the cells Zephyr's handler copies
    TextLen,   \* TextLen[k]: the characters of Zephyr's k-th text
    ReadMax,   \* the count of one read(2)
    MaxCalls,  \* bound: writes, UART interrupts and runs of cat together
    MaxWrites, \* bound: writes among them
    Newline,   \* the character that ends a line
    Nul        \* the character 0

ASSUME IpcAssumption ==
    /\ Size \in Nat \ {0} /\ MsgSize \in 1 .. Size /\ ReadMax \in Nat \ {0}
    /\ MaxCalls \in Nat /\ MaxWrites \in Nat
    /\ LineLen \in [Lines -> Nat \ {0}]
    /\ TextLen \in [1 .. MaxCalls -> 1 .. Size - 1]
    /\ Newline \notin Lines /\ Nul \notin Lines \cup Nat \cup {Newline}

Cells == 1 .. Size

\* The k-th character of line m.
Char(m, k) == IF k = LineLen[m] THEN Newline ELSE m

VARIABLES
    to_zephyr, to_linux,  \* the channels
    bell,                 \* the interrupt is pending at Zephyr
    zephyr,               \* where Zephyr's boot is: "off", then what is next
    erase,                \* cells memset() has still to clear
    writer,               \* writer[w]: where w is, its line, the position of
                          \* its file and the cells it has still to copy
    sends,                \* writes begun
    handler, shown,       \* shmem_irq_handler(); the line it printed last
    uart, keys,           \* cells uart_rx_handler() has to write; irq_count
    cat, cats,            \* a cat in Linux; runs of it
    last, still           \* history: the line written last, Nul if the write
                          \* did not begin the channel or was not alone;
                          \* nothing was written during cat

linuxVars == <<writer, sends, last>>
catVars   == <<cat, cats>>
isrVars   == <<handler, shown>>
uartVars  == <<uart, keys>>
vars == <<to_zephyr, to_linux, bell, zephyr, erase, linuxVars, isrVars,
          uartVars, catVars, still>>

\* The bound leaves room for one more call.
More == sends + keys + cats < MaxCalls

NoMsg == [i \in 1 .. MsgSize |-> Nul]

Init ==
    /\ to_zephyr = [i \in Cells |-> Nul] /\ to_linux = [i \in Cells |-> Nul]
    /\ bell = FALSE
    /\ zephyr = "off" /\ erase = {}
    /\ writer = [w \in Writers |->
          [pc |-> "idle", line |-> Nul, pos |-> 0, left |-> {}]]
    /\ sends = 0
    /\ handler = [pc |-> "idle", msg |-> NoMsg, left |-> {}] /\ shown = <<>>
    /\ uart = {} /\ keys = 0
    /\ cat = [pc |-> "idle", pos |-> 0, len |-> 0, got |-> <<>>, out |-> <<>>]
    /\ cats = 0
    /\ last = Nul /\ still = FALSE

-----------------------------------------------------------------------------
(* Linux writes: bao_ipcshmem_write_fops().                                *)

\* Where w writes next: at the start of a file that it has opened anew, or
\* further on in the one that it has written to.
Positions(w) == {0, writer[w].pos}

\* Mutant of WriteBegin: the count is not cut.
WriteBeginUncut(w, m, p) ==
    /\ writer[w].pc = "idle" /\ More /\ sends < MaxWrites
    /\ p < Size
    /\ writer' = [writer EXCEPT ![w] =
          [pc |-> "copy", line |-> m, pos |-> p, left |-> p + 1 .. p + LineLen[m]]]
    /\ sends' = sends + 1
    /\ last' = IF /\ p = 0 /\ zephyr = "up"
                  /\ \A v \in Writers : writer[v].pc = "idle"
               THEN m ELSE Nul
    /\ UNCHANGED <<to_zephyr, to_linux, bell, zephyr, erase, isrVars, uartVars,
                   catVars, still>>

\* The entry of write(2) at position p: past the channel it returns 0, and
\* the count is cut to what the channel has left.
WriteBegin(w, m, p) ==
    /\ writer[w].pc = "idle" /\ More /\ sends < MaxWrites
    /\ p < Size
    /\ writer' = [writer EXCEPT ![w] =
          [pc |-> "copy", line |-> m, pos |-> p,
           left |-> {i \in Cells : p < i /\ i <= p + LineLen[m]}]]
    /\ sends' = sends + 1
    /\ last' = IF /\ p = 0 /\ zephyr = "up"
                  /\ \A v \in Writers : writer[v].pc = "idle"
               THEN m ELSE Nul
    /\ UNCHANGED <<to_zephyr, to_linux, bell, zephyr, erase, isrVars, uartVars,
                   catVars, still>>

\* copy_from_user()
WriteCell(w) ==
    /\ writer[w].pc = "copy"
    /\ \E i \in writer[w].left :
          /\ to_zephyr' = [to_zephyr EXCEPT
                             ![i] = Char(writer[w].line, i - writer[w].pos)]
          /\ writer' = [writer EXCEPT ![w].left = @ \ {i}]
    /\ UNCHANGED <<to_linux, bell, zephyr, erase, sends, last, isrVars, uartVars,
                   catVars, still>>

\* *ppos += count; bao_ipcshmem_notify()
WriteNotify(w) ==
    /\ writer[w].pc = "copy" /\ writer[w].left = {}
    /\ bell' = TRUE
    /\ writer' = [writer EXCEPT ![w] =
          [pc |-> "idle", line |-> Nul,
           pos |-> Min({writer[w].pos + LineLen[writer[w].line], Size}), left |-> {}]]
    /\ UNCHANGED <<to_zephyr, to_linux, zephyr, erase, sends, last, isrVars,
                   uartVars, catVars, still>>

-----------------------------------------------------------------------------
(* Zephyr boots: the driver's init, then main().                           *)

\* The kernel starts; its interrupt controller's driver may drop the bell.
ZephyrStarts ==
    /\ zephyr = "off"
    /\ bell' \in {bell, FALSE}
    /\ zephyr' = "erase_read" /\ erase' = Cells
    /\ UNCHANGED <<to_zephyr, to_linux, linuxVars, isrVars, uartVars, catVars, still>>

\* shmemipc_init() clears the channel it reads, then the one it writes.
EraseRead ==
    /\ zephyr = "erase_read"
    /\ \E i \in erase : to_zephyr' = [to_zephyr EXCEPT ![i] = Nul] /\ erase' = erase \ {i}
    /\ UNCHANGED <<to_linux, bell, zephyr, linuxVars, isrVars, uartVars, catVars, still>>

EraseReadDone ==
    /\ zephyr = "erase_read" /\ erase = {}
    /\ zephyr' = "erase_write"
    /\ UNCHANGED <<to_zephyr, to_linux, bell, erase, linuxVars, isrVars, uartVars,
                   catVars, still>>

\* Nobody has written to the other channel yet, so the order of its cells
\* does not show.
EraseWrite ==
    /\ zephyr = "erase_write"
    /\ to_linux' = [i \in Cells |-> Nul]
    /\ zephyr' = "main"
    /\ UNCHANGED <<to_zephyr, bell, erase, linuxVars, isrVars, uartVars, catVars, still>>

\* Mutant of EnableIrqs: enabling the interrupt drops one that is pending.
EnableClears ==
    /\ zephyr = "main"
    /\ to_linux' = [to_linux EXCEPT ![1] = Nul]
    /\ zephyr' = "up" /\ bell' = FALSE
    /\ UNCHANGED <<to_zephyr, erase, linuxVars, isrVars, uartVars, catVars, still>>

\* main() writes "", connects the handler and enables the interrupts.
EnableIrqs ==
    /\ zephyr = "main"
    /\ to_linux' = [to_linux EXCEPT ![1] = Nul]
    /\ zephyr' = "up"
    /\ UNCHANGED <<to_zephyr, bell, erase, linuxVars, isrVars, uartVars, catVars, still>>

-----------------------------------------------------------------------------
(* Zephyr's interrupt handlers.                                            *)

\* Mutant of Line: a newline does not end it.
LineToNul(buf, n) ==
    LET Stops(i) == i = n \/ buf[i + 1] = Nul
    IN IF n = 0 \/ buf[1] = Nul THEN <<>>
       ELSE [i \in 1 .. Min({j \in 1 .. n : Stops(j)}) |-> buf[i]]

\* The line in a buffer: up to its first newline, or the cell before the
\* first Nul.
Line(buf, n) ==
    LET Stops(i) == i = n \/ buf[i + 1] = Nul \/ buf[i] = Newline
    IN IF n = 0 \/ buf[1] = Nul THEN <<>>
       ELSE [i \in 1 .. Min({j \in 1 .. n : Stops(j)}) |-> buf[i]]

\* The interrupt is taken, which ends its being pending.
HandlerBegin ==
    /\ zephyr = "up" /\ bell /\ handler.pc = "idle"
    /\ bell' = FALSE
    /\ handler' = [handler EXCEPT !.pc = "copy", !.left = 1 .. MsgSize]
    /\ UNCHANGED <<to_zephyr, to_linux, zephyr, erase, linuxVars, shown, uartVars,
                   catVars, still>>

\* bao_ipcshmem_read() copies MSG_SIZE characters.
HandlerCopy ==
    /\ handler.pc = "copy"
    /\ \E i \in handler.left :
          handler' = [handler EXCEPT !.msg[i] = to_zephyr[i], !.left = @ \ {i}]
    /\ UNCHANGED <<to_zephyr, to_linux, bell, zephyr, erase, linuxVars, shown,
                   uartVars, catVars, still>>

\* Mutant of HandlerPrint: the interrupt is acknowledged after the handler.
HandlerAcksLate ==
    /\ handler.pc = "copy" /\ handler.left = {}
    /\ shown' = Line(handler.msg, MsgSize - 1)
    /\ handler' = [pc |-> "idle", msg |-> NoMsg, left |-> {}]
    /\ bell' = FALSE
    /\ UNCHANGED <<to_zephyr, to_linux, zephyr, erase, linuxVars, uartVars,
                   catVars, still>>

\* The last character is made Nul, a newline ends the text; printk().
HandlerPrint ==
    /\ handler.pc = "copy" /\ handler.left = {}
    /\ shown' = Line(handler.msg, MsgSize - 1)
    /\ handler' = [pc |-> "idle", msg |-> NoMsg, left |-> {}]
    /\ UNCHANGED <<to_zephyr, to_linux, bell, zephyr, erase, linuxVars, uartVars,
                   catVars, still>>

\* uart_rx_handler(): irq_count++, and snprintf() of the k-th text and its
\* Nul into the channel.
UartBegin ==
    /\ zephyr = "up" /\ uart = {} /\ More
    /\ keys' = keys + 1
    /\ uart' = 1 .. TextLen[keys'] + 1
    /\ still' = FALSE
    /\ UNCHANGED <<to_zephyr, to_linux, bell, zephyr, erase, linuxVars, isrVars,
                   catVars>>

UartCell ==
    /\ \E i \in uart :
          /\ to_linux' = [to_linux EXCEPT ![i] = IF i = TextLen[keys] + 1
                                                   THEN Nul ELSE keys]
          /\ uart' = uart \ {i}
    /\ UNCHANGED <<to_zephyr, bell, zephyr, erase, linuxVars, isrVars, keys, catVars,
                   still>>

-----------------------------------------------------------------------------
(* Linux reads: cat /dev/baoipc0, and bao_ipcshmem_read_fops().            *)

CatOpen ==
    /\ cat.pc = "idle" /\ More
    /\ cat' = [pc |-> "strnlen", pos |-> 0, len |-> 0, got |-> <<>>, out |-> <<>>]
    /\ cats' = cats + 1
    /\ still' = (zephyr = "up" /\ uart = {})
    /\ UNCHANGED <<to_zephyr, to_linux, bell, zephyr, erase, linuxVars, isrVars, uartVars>>

\* strnlen() looks at one character after the other.
CatStrnlen ==
    /\ cat.pc = "strnlen"
    /\ cat.len < Size /\ to_linux[cat.len + 1] # Nul
    /\ cat' = [cat EXCEPT !.len = @ + 1]
    /\ UNCHANGED <<to_zephyr, to_linux, bell, zephyr, erase, linuxVars, isrVars,
                   uartVars, cats, still>>

LenKnown == cat.len = Size \/ to_linux[cat.len + 1] = Nul

\* Mutant of CatEnds: a device is read once, whatever it has left.
CatEndsOnce ==
    /\ cat.pc = "strnlen" /\ LenKnown /\ (cat.pos >= cat.len \/ cat.pos > 0)
    /\ cat' = [cat EXCEPT !.pc = "idle"]
    /\ UNCHANGED <<to_zephyr, to_linux, bell, zephyr, erase, linuxVars, isrVars,
                   uartVars, cats, still>>

\* if (*ppos >= len) return 0;  cat is done.
CatEnds ==
    /\ cat.pc = "strnlen" /\ LenKnown /\ cat.pos >= cat.len
    /\ cat' = [cat EXCEPT !.pc = "idle"]
    /\ UNCHANGED <<to_zephyr, to_linux, bell, zephyr, erase, linuxVars, isrVars,
                   uartVars, cats, still>>

\* if ((len - *ppos) < count) count = len - *ppos;  len is now the end of
\* the copy.
CatCount ==
    /\ cat.pc = "strnlen" /\ LenKnown /\ cat.pos < cat.len
    /\ cat' = [cat EXCEPT !.pc = "copy", !.len = Min({cat.len, cat.pos + ReadMax})]
    /\ UNCHANGED <<to_zephyr, to_linux, bell, zephyr, erase, linuxVars, isrVars,
                   uartVars, cats, still>>

\* copy_to_user()
CatCopy ==
    /\ cat.pc = "copy" /\ cat.pos + Len(cat.got) < cat.len
    /\ cat' = [cat EXCEPT !.got = Append(@, to_linux[cat.pos + Len(@) + 1])]
    /\ UNCHANGED <<to_zephyr, to_linux, bell, zephyr, erase, linuxVars, isrVars,
                   uartVars, cats, still>>

\* *ppos += count; return count;  cat prints it and reads on.
CatPrint ==
    /\ cat.pc = "copy" /\ cat.pos + Len(cat.got) = cat.len
    /\ cat' = [pc |-> "strnlen", pos |-> cat.len, len |-> 0, got |-> <<>>,
               out |-> cat.out \o cat.got]
    /\ UNCHANGED <<to_zephyr, to_linux, bell, zephyr, erase, linuxVars, isrVars,
                   uartVars, cats, still>>

-----------------------------------------------------------------------------
Write(w) ==
    \/ \E m \in Lines, p \in Positions(w) : WriteBegin(w, m, p)
    \/ WriteCell(w)
    \/ WriteNotify(w)
Boot     == ZephyrStarts \/ EraseRead \/ EraseReadDone \/ EraseWrite \/ EnableIrqs
Handler  == HandlerBegin \/ HandlerCopy \/ HandlerPrint
Uart     == UartBegin \/ UartCell
Cat      == CatOpen \/ CatStrnlen \/ CatEnds \/ CatCount \/ CatCopy \/ CatPrint

Next == (\E w \in Writers : Write(w)) \/ Boot \/ Handler \/ Uart \/ Cat

Spec == Init /\ [][Next]_vars

(* Every core runs: a write that began ends, Zephyr boots and takes its    *)
(* interrupts.  Nobody has to write, press a key or run cat.               *)
Fairness ==
    /\ \A w \in Writers : WF_vars(WriteCell(w) \/ WriteNotify(w))
    /\ WF_vars(Boot) /\ WF_vars(Handler)

FairSpec == Spec /\ Fairness

-----------------------------------------------------------------------------
(* Properties.                                                             *)

TypeOK ==
    /\ to_zephyr \in [Cells -> Lines \cup {Newline, Nul}]
    /\ to_linux \in [Cells -> (1 .. MaxCalls) \cup {Nul}]
    /\ bell \in BOOLEAN
    /\ zephyr \in {"off", "erase_read", "erase_write", "main", "up"} /\ erase \subseteq Cells
    /\ writer \in [Writers -> [pc : {"idle", "copy"}, line : Lines \cup {Nul},
                               pos : 0 .. Size, left : SUBSET Cells]]
    /\ sends \in 0 .. MaxCalls
    /\ handler \in [pc : {"idle", "copy"},
                    msg : [1 .. MsgSize -> Lines \cup {Newline, Nul}],
                    left : SUBSET (1 .. MsgSize)]
    /\ uart \subseteq Cells /\ keys \in 0 .. MaxCalls
    /\ cat.pc \in {"idle", "strnlen", "copy"} /\ cat.pos \in 0 .. Size
    /\ cat.len \in 0 .. Size /\ cats \in 0 .. MaxCalls

\* Nobody writes to Zephyr and its handler has no more to do.
Quiet ==
    /\ zephyr = "up" /\ ~bell /\ handler.pc = "idle"
    /\ \A w \in Writers : writer[w].pc = "idle"

\* No wake-up is lost: whenever things are quiet, what Zephyr printed last
\* is what the channel holds - however writes, boot and handler overlapped.
NothingMissed == Quiet => shown = Line(to_zephyr, MsgSize - 1)

\* ... and if the last write began the channel, had it to itself and Zephyr
\* was up, that is the line written: whatever longer line the channel held
\* before, its rest is behind the newline and is not printed.
LastLineShown ==
    Quiet /\ last # Nul =>
        shown = [i \in 1 .. Min({LineLen[last], MsgSize - 1}) |-> Char(last, i)]

\* In the end Zephyr has printed what the channel holds, for good.
EventuallyShown == <>[](shown = Line(to_zephyr, MsgSize - 1))

Text(k) == [i \in 1 .. TextLen[k] |-> k]

\* A cat that no UART interrupt disturbs prints Zephyr's last text, whole
\* and once, in however many reads.
CatPrintsLast ==
    cat.pc = "idle" /\ still => cat.out = (IF keys = 0 THEN <<>> ELSE Text(keys))

=============================================================================
