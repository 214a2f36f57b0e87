-------------------------- MODULE IpcShmemProofs --------------------------
(* IpcShmem for any number of writers, lines and texts of any length, and  *)
(* any sizes of the channel and of the reads.                              *)
EXTENDS IpcShmem, WellFoundedInduction, TLAPS

Chars == (1 .. MaxCalls) \cup {Nul}

LineChars == Lines \cup {Newline, Nul}

WriterRecs == [pc : {"idle", "copy"}, line : Lines \cup {Nul}, pos : 0 .. Size,
               left : SUBSET Cells]

Types ==
    /\ TypeOK
    /\ cat \in [pc : {"idle", "strnlen", "copy"}, pos : 0 .. Size, len : 0 .. Size,
                got : Seq(Chars), out : Seq(Chars)]
    /\ uart # {} => keys > 0
    /\ \A w \in Writers : writer[w].pc = "copy" => writer[w].line \in Lines

\* The least element of a set is the one that is below all others.
LEMMA MinIs ==
    ASSUME NEW S \in SUBSET Nat, NEW m \in S, \A y \in S : m <= y
    PROVE  Min(S) = m
<1>1. \A x \in S : (\A y \in S : x <= y) => x = m
  OBVIOUS
<1>2. \E x \in S : \A y \in S : x =< y
  OBVIOUS
<1> QED BY <1>1, <1>2 DEF Min

\* The smaller of two numbers.
LEMMA MinOfTwo ==
    ASSUME NEW a \in Nat, NEW b \in Nat
    PROVE  Min({a, b}) = IF a <= b THEN a ELSE b
<1>1. CASE a <= b
  BY <1>1, MinIs
<1>2. CASE ~(a <= b)
  BY <1>2, MinIs
<1> QED BY <1>1, <1>2

\* At the start every variable has its type.
LEMMA TypesInit == Init => Types
<1> SUFFICES ASSUME Init PROVE Types
  OBVIOUS
<1> USE IpcAssumption DEF Init
<1>1. to_zephyr \in [Cells -> LineChars]
      /\ to_linux \in [Cells -> (1 .. MaxCalls) \cup {Nul}]
  BY DEF LineChars
<1>2. writer \in [Writers -> WriterRecs] /\ \A w \in Writers : writer[w].pc = "idle"
  BY DEF WriterRecs
<1>3. handler \in [pc : {"idle", "copy"}, msg : [1 .. MsgSize -> LineChars],
                  left : SUBSET (1 .. MsgSize)]
  BY DEF NoMsg, LineChars
<1>4. cat \in [pc : {"idle", "strnlen", "copy"}, pos : 0 .. Size, len : 0 .. Size,
              got : Seq(Chars), out : Seq(Chars)]
  BY DEF Chars
<1>5. cat.pc \in {"idle", "strnlen", "copy"} /\ cat.pos \in 0 .. Size /\ cat.len \in 0 .. Size
  OBVIOUS
<1>6. uart \subseteq Cells /\ uart = {} /\ erase \subseteq Cells
      /\ sends \in 0 .. MaxCalls /\ keys \in 0 .. MaxCalls /\ cats \in 0 .. MaxCalls
  OBVIOUS
<1>7. bell \in BOOLEAN /\ zephyr \in {"off", "erase_read", "erase_write", "main", "up"}
  OBVIOUS
<1> HIDE DEF Init
<1> QED BY <1>1, <1>2, <1>3, <1>4, <1>5, <1>6, <1>7
        DEF Types, TypeOK, LineChars, WriterRecs

\* A writer that moves on keeps its line and its position.
LEMMA WriterCopies ==
    ASSUME NEW W, W \in [Writers -> WriterRecs], NEW w \in Writers, NEW S
    PROVE  [W EXCEPT ![w].left = S]
                 = [W EXCEPT ![w] = [pc |-> W[w].pc, line |-> W[w].line,
                                     pos |-> W[w].pos, left |-> S]]
<1>1. [W[w] EXCEPT !.left = S] = [pc |-> W[w].pc, line |-> W[w].line,
                                  pos |-> W[w].pos, left |-> S]
  BY DEF WriterRecs
<1> QED BY <1>1, Zenon

\* A character of a line is one that a channel may hold.
LEMMA CharType ==
    ASSUME NEW m \in Lines, NEW k
    PROVE  Char(m, k) \in LineChars /\ Char(m, k) # Nul
  BY IpcAssumption DEF Char, LineChars

\* Writes do not go beyond the channel.
LEMMA TypesWrite ==
    ASSUME Types, NEW w \in Writers, Write(w)
    PROVE  Types'
<1> USE IpcAssumption DEF Cells
<1>a. /\ to_zephyr \in [Cells -> LineChars] /\ writer \in [Writers -> WriterRecs]
      /\ \A v \in Writers : writer[v].pc = "copy" => writer[v].line \in Lines
      /\ sends \in 0 .. MaxCalls
  BY DEF Types, TypeOK, LineChars, WriterRecs
<1>b. UNCHANGED <<to_linux, zephyr, erase, isrVars, uartVars, catVars>>
  BY DEF Write, WriteBegin, WriteCell, WriteNotify
<1>c. SUFFICES /\ to_zephyr' \in [Cells -> LineChars] /\ writer' \in [Writers -> WriterRecs]
               /\ \A v \in Writers : writer'[v].pc = "copy" => writer'[v].line \in Lines
               /\ sends' \in 0 .. MaxCalls /\ bell' \in BOOLEAN
  BY <1>b DEF Types, TypeOK, LineChars, WriterRecs, isrVars, uartVars, catVars
<1>1. ASSUME NEW m \in Lines, NEW p \in Positions(w), WriteBegin(w, m, p)
      PROVE  /\ to_zephyr' \in [Cells -> LineChars] /\ writer' \in [Writers -> WriterRecs]
             /\ \A v \in Writers : writer'[v].pc = "copy" => writer'[v].line \in Lines
             /\ sends' \in 0 .. MaxCalls /\ bell' \in BOOLEAN
  <2>1. sends' \in 0 .. MaxCalls
    <3>1. keys \in Nat /\ cats \in Nat
      BY DEF Types, TypeOK
    <3> QED BY <1>1, <1>a, <3>1 DEF WriteBegin, More
  <2>2. p \in 0 .. Size
    BY <1>a DEF Positions, WriterRecs
  <2> DEFINE n == [pc |-> "copy", line |-> m, pos |-> p,
                   left |-> {i \in Cells : p < i /\ i <= p + LineLen[m]}]
  <2>3. n \in WriterRecs /\ n.line = m
    BY <2>2 DEF WriterRecs
  <2>4. writer' = [writer EXCEPT ![w] = n] /\ UNCHANGED <<to_zephyr, bell>>
    BY <1>1 DEF WriteBegin
  <2> HIDE DEF n
  <2> QED BY <1>a, <2>1, <2>3, <2>4 DEF Types, TypeOK
<1>2. CASE WriteCell(w)
  <2>1. PICK i \in writer[w].left :
            /\ to_zephyr' = [to_zephyr EXCEPT
                               ![i] = Char(writer[w].line, i - writer[w].pos)]
            /\ writer' = [writer EXCEPT ![w].left = writer[w].left \ {i}]
    BY <1>2 DEF WriteCell
  <2>2. writer[w].pc = "copy" /\ writer[w].line \in Lines
    BY <1>2, <1>a DEF WriteCell
  <2>3. to_zephyr' \in [Cells -> LineChars]
    BY <1>a, <2>1, <2>2, CharType
  <2> DEFINE n == [pc |-> writer[w].pc, line |-> writer[w].line, pos |-> writer[w].pos,
                   left |-> writer[w].left \ {i}]
  <2>4. writer' = [writer EXCEPT ![w] = n]
    BY <1>a, <2>1, WriterCopies, Zenon
  <2>5. n \in WriterRecs /\ n.line \in Lines
    BY <1>a, <2>2 DEF WriterRecs
  <2>6. UNCHANGED <<sends, bell>>
    BY <1>2 DEF WriteCell
  <2> HIDE DEF n
  <2> QED BY <1>a, <2>3, <2>4, <2>5, <2>6 DEF Types, TypeOK
<1>3. CASE WriteNotify(w)
  <2>1. writer[w].pc = "copy" /\ writer[w].line \in Lines /\ writer[w].pos \in 0 .. Size
    BY <1>3, <1>a DEF WriteNotify, WriterRecs
  <2> DEFINE q == Min({writer[w].pos + LineLen[writer[w].line], Size})
             n == [pc |-> "idle", line |-> Nul, pos |-> q, left |-> {}]
  <2>2. q \in 0 .. Size
    <3>1. writer[w].pos + LineLen[writer[w].line] \in Nat /\ Size \in Nat
      BY <2>1
    <3>2. \A a, b \in Nat : Min({a, b}) = IF a <= b THEN a ELSE b
      BY MinOfTwo
    <3>3. q = IF writer[w].pos + LineLen[writer[w].line] <= Size
              THEN writer[w].pos + LineLen[writer[w].line] ELSE Size
      BY <3>1, <3>2, Zenon
    <3> QED BY <3>1, <3>3
  <2>3. writer' = [writer EXCEPT ![w] = n] /\ UNCHANGED <<to_zephyr, sends>> /\ bell' = TRUE
    BY <1>3 DEF WriteNotify
  <2> HIDE DEF q
  <2>4. n \in WriterRecs /\ n.pc = "idle"
    BY <2>2 DEF WriterRecs
  <2> HIDE DEF n
  <2> QED BY <1>a, <2>3, <2>4
<1> QED BY <1>1, <1>2, <1>3 DEF Write

\* Zephyr's boot and handlers stay inside the channels.
LEMMA TypesZephyr ==
    ASSUME Types, Boot \/ Handler \/ Uart
    PROVE  Types'
<1> USE IpcAssumption DEF Types, TypeOK, Cells, isrVars, uartVars, catVars, linuxVars
<1>1. CASE ZephyrStarts
  BY <1>1 DEF ZephyrStarts
<1>2. CASE EraseRead
  BY <1>2 DEF EraseRead
<1>3. CASE EraseReadDone
  BY <1>3 DEF EraseReadDone
<1>4. CASE EraseWrite
  BY <1>4 DEF EraseWrite
<1>5. CASE EnableIrqs
  BY <1>5 DEF EnableIrqs
<1>6. CASE HandlerBegin
  BY <1>6 DEF HandlerBegin
<1>7. CASE HandlerCopy
  <2>1. PICK i \in handler.left :
            handler' = [handler EXCEPT !.msg[i] = to_zephyr[i], !.left = @ \ {i}]
    BY <1>7 DEF HandlerCopy
  <2>2. handler' = [pc |-> handler.pc, msg |-> [handler.msg EXCEPT ![i] = to_zephyr[i]],
                    left |-> handler.left \ {i}]
    BY <2>1
  <2>3. handler' \in [pc : {"idle", "copy"},
                      msg : [1 .. MsgSize -> Lines \cup {Newline, Nul}],
                      left : SUBSET (1 .. MsgSize)]
    BY <2>2
  <2> QED BY <1>7, <2>3 DEF HandlerCopy
<1>8. CASE HandlerPrint
  BY <1>8 DEF HandlerPrint, NoMsg
<1>9. CASE UartBegin
  <2>1. keys' \in 1 .. MaxCalls
    BY <1>9 DEF UartBegin, More
  <2>2. uart' \subseteq Cells
    BY <1>9, <2>1 DEF UartBegin
  <2> QED BY <1>9, <2>1, <2>2 DEF UartBegin
<1>10. CASE UartCell
  <2>1. to_linux' \in [Cells -> (1 .. MaxCalls) \cup {Nul}]
    <3>1. PICK i \in uart : to_linux' = [to_linux EXCEPT ![i] =
                               IF i = TextLen[keys] + 1 THEN Nul ELSE keys]
      BY <1>10 DEF UartCell
    <3>2. keys \in 1 .. MaxCalls
      OBVIOUS
    <3> QED BY <3>1, <3>2
  <2> QED BY <1>10, <2>1 DEF UartCell
<1> QED BY <1>1, <1>2, <1>3, <1>4, <1>5, <1>6, <1>7, <1>8, <1>9, <1>10 DEF Boot, Handler, Uart

\* Reads stay inside the channel.
LEMMA TypesCat ==
    ASSUME Types, Cat
    PROVE  Types'
<1> USE IpcAssumption DEF Types, TypeOK, Cells, Chars, isrVars, uartVars, linuxVars
<1>1. CASE CatOpen
  BY <1>1 DEF CatOpen, More
<1>2. CASE CatStrnlen
  <2>1. cat' = [pc |-> cat.pc, pos |-> cat.pos, len |-> cat.len + 1, got |-> cat.got,
                out |-> cat.out]
    BY <1>2 DEF CatStrnlen
  <2>2. cat.len + 1 \in 0 .. Size
    BY <1>2 DEF CatStrnlen
  <2> QED BY <1>2, <2>1, <2>2 DEF CatStrnlen
<1>3. CASE CatEnds
  BY <1>3 DEF CatEnds
<1>4. CASE CatCount
  <2>1. Min({cat.len, cat.pos + ReadMax}) \in 0 .. Size
    <3>1. cat.len \in Nat /\ cat.pos + ReadMax \in Nat
      OBVIOUS
    <3>2. \A a, b \in Nat : Min({a, b}) \in {a, b} /\ Min({a, b}) <= a
      BY MinOfTwo
    <3>3. Min({cat.len, cat.pos + ReadMax}) \in {cat.len, cat.pos + ReadMax}
          /\ Min({cat.len, cat.pos + ReadMax}) <= cat.len
      BY <3>1, <3>2, Zenon
    <3> QED BY <3>1, <3>3
  <2>2. cat' = [pc |-> "copy", pos |-> cat.pos, len |-> Min({cat.len, cat.pos + ReadMax}),
                got |-> cat.got, out |-> cat.out]
    BY <1>4 DEF CatCount
  <2> QED BY <1>4, <2>1, <2>2 DEF CatCount
<1>5. CASE CatCopy
  <2>1. cat.pos + Len(cat.got) + 1 \in Cells
    BY <1>5 DEF CatCopy
  <2>2. cat' = [pc |-> cat.pc, pos |-> cat.pos, len |-> cat.len,
                got |-> Append(cat.got, to_linux[cat.pos + Len(cat.got) + 1]),
                out |-> cat.out]
    BY <1>5 DEF CatCopy
  <2>3. to_linux[cat.pos + Len(cat.got) + 1] \in Chars
    BY <2>1
  <2>4. Append(cat.got, to_linux[cat.pos + Len(cat.got) + 1]) \in Seq(Chars)
    BY <2>3
  <2> QED BY <1>5, <2>2, <2>4 DEF CatCopy
<1>6. CASE CatPrint
  <2>1. cat.out \o cat.got \in Seq(Chars)
    OBVIOUS
  <2>2. cat' = [pc |-> "strnlen", pos |-> cat.len, len |-> 0, got |-> <<>>,
                out |-> cat.out \o cat.got]
    BY <1>6 DEF CatPrint
  <2>3. cat' \in [pc : {"idle", "strnlen", "copy"}, pos : 0 .. Size, len : 0 .. Size,
                  got : Seq(Chars), out : Seq(Chars)]
    <3> HIDE DEF Chars
    <3> QED BY <2>1, <2>2
  <2> QED BY <1>6, <2>2, <2>3 DEF CatPrint
<1> QED BY <1>1, <1>2, <1>3, <1>4, <1>5, <1>6 DEF Cat

\* Every step keeps the types.
LEMMA TypesNext == Types /\ [Next]_vars => Types'
<1>1. Types /\ UNCHANGED vars => Types'
  BY DEF Types, TypeOK, vars, isrVars, uartVars, linuxVars, catVars
<1> QED BY <1>1, TypesWrite, TypesZephyr, TypesCat DEF Next

\* All variables keep their types, and every copy its bounds.
THEOREM TypeCorrect == Spec => []TypeOK
<1>1. Types => TypeOK
  BY DEF Types
<1> QED BY <1>1, TypesInit, TypesNext, PTL DEF Spec

-----------------------------------------------------------------------------
(* Zephyr's side: what it printed last, and what the channel holds.        *)

Below == {ss \in Nat \X Nat : ss[1] < ss[2]}

\* Some element of a set of numbers is the least.
LEMMA HasLeast ==
    ASSUME NEW S \in SUBSET Nat, S # {}
    PROVE  \E m \in S : \A y \in S : m <= y
<1>1. IsWellFoundedOn(Below, Nat)
  BY NatLessThanWellFounded, SMT DEF OpToRel, Below
<1>2. PICK m \in S : \A y \in S : ~(<<y, m>> \in Below)
  BY <1>1, WFMin, Zenon
<1>3. ASSUME NEW y \in S PROVE m <= y
  <2>1. <<y, m>> \in Nat \X Nat /\ <<y, m>>[1] = y /\ <<y, m>>[2] = m
    OBVIOUS
  <2>2. ~(y < m)
    BY <1>2, <2>1, Zenon DEF Below
  <2> QED BY <2>2
<1> QED BY <1>3

\* Where a line may stop.
Ends(buf, n) == {j \in 1 .. n : \/ j = n
                                \/ buf[j + 1] = Nul
                                \/ buf[j] = Newline}

\* A line stops inside its buffer.
LEMMA LineShape ==
    ASSUME NEW n \in Nat, NEW buf
    PROVE  /\ n = 0 \/ buf[1] = Nul => Line(buf, n) = <<>>
           /\ n # 0 /\ buf[1] # Nul =>
                 /\ Line(buf, n) = [i \in 1 .. Min(Ends(buf, n)) |-> buf[i]]
                 /\ Min(Ends(buf, n)) \in 1 .. n
<1>1. Line(buf, n) = IF n = 0 \/ buf[1] = Nul THEN <<>>
                     ELSE [i \in 1 .. Min(Ends(buf, n)) |-> buf[i]]
  BY Zenon DEF Line, Ends
<1>2. ASSUME n # 0 PROVE Min(Ends(buf, n)) \in 1 .. n
  <2>1. n \in Ends(buf, n) /\ Ends(buf, n) \in SUBSET Nat
    BY <1>2 DEF Ends
  <2>2. PICK m \in Ends(buf, n) : \A y \in Ends(buf, n) : m <= y
    BY <2>1, HasLeast
  <2>3. Min(Ends(buf, n)) = m
    BY <2>1, <2>2, MinIs
  <2> QED BY <2>2, <2>3 DEF Ends
<1> QED BY <1>1, <1>2

\* The same characters make the same line.
LEMMA SameLine ==
    ASSUME NEW n \in Nat, NEW a, NEW b, \A i \in 1 .. n + 1 : a[i] = b[i]
    PROVE  Line(a, n) = Line(b, n)
<1>1. CASE n = 0
  BY <1>1, LineShape
<1>2. CASE n # 0
  <2>1. Ends(a, n) = Ends(b, n) /\ a[1] = b[1]
    BY <1>2 DEF Ends
  <2>2. CASE a[1] = Nul
    BY <2>1, <2>2, LineShape
  <2>3. CASE a[1] # Nul
    <3>1. Line(a, n) = [i \in 1 .. Min(Ends(a, n)) |-> a[i]] /\ Min(Ends(a, n)) \in 1 .. n
      BY <1>2, <2>3, LineShape
    <3>2. Line(b, n) = [i \in 1 .. Min(Ends(b, n)) |-> b[i]]
      BY <1>2, <2>1, <2>3, LineShape
    <3>3. \A i \in 1 .. Min(Ends(a, n)) : a[i] = b[i]
      BY <3>1
    <3> QED BY <2>1, <3>1, <3>2, <3>3
  <2> QED BY <2>2, <2>3
<1> QED BY <1>1, <1>2

-----------------------------------------------------------------------------
\* A bell is pending, or a writer will ring it.
Coming == bell \/ \E w \in Writers : writer[w].pc = "copy"

\* Before Zephyr is up nothing is printed.  As long as nothing is coming,
\* what the boot has erased stays so, the handler's copy is of what the
\* channel holds, and so is the line it printed.
ErasedInv ==
    /\ zephyr = "erase_read" => \A i \in Cells \ erase : to_zephyr[i] = Nul
    /\ zephyr \in {"erase_write", "main"} => \A i \in Cells : to_zephyr[i] = Nul
CopiedInv ==
    /\ zephyr = "up" /\ handler.pc = "idle" => shown = Line(to_zephyr, MsgSize - 1)
    /\ handler.pc = "copy" =>
          \A i \in (1 .. MsgSize) \ handler.left : handler.msg[i] = to_zephyr[i]
DownInv == zephyr # "up" => handler.pc = "idle" /\ shown = <<>>
ZephyrInv == DownInv /\ (~Coming => ErasedInv /\ CopiedInv)

zVars == <<to_zephyr, bell, zephyr, erase, writer, handler, shown>>

\* What Zephyr has read and shown depends on these variables only.
LEMMA ZephyrFrame == ZephyrInv /\ UNCHANGED zVars => ZephyrInv'
<1> SUFFICES ASSUME ZephyrInv, UNCHANGED zVars PROVE ZephyrInv'
  OBVIOUS
<1>1. DownInv' /\ (Coming' <=> Coming)
  BY DEF ZephyrInv, DownInv, Coming, zVars
<1>2. ErasedInv => ErasedInv'
  BY DEF ErasedInv, zVars
<1>3. CopiedInv => CopiedInv'
  BY DEF CopiedInv, zVars
<1> QED BY <1>1, <1>2, <1>3 DEF ZephyrInv

\* A writer at work, and the bell it rings, cover whatever it changes.
LEMMA ZephyrWrite ==
    ASSUME Types, ZephyrInv, NEW w \in Writers, Write(w)
    PROVE  ZephyrInv'
<1>1. UNCHANGED <<zephyr, handler, shown>>
  BY DEF Write, WriteBegin, WriteCell, WriteNotify, isrVars
<1>2. Coming'
  <2> USE DEF Types, TypeOK
  <2>1. ASSUME NEW m \in Lines, NEW p, WriteBegin(w, m, p) PROVE writer'[w].pc = "copy"
    BY <2>1 DEF WriteBegin
  <2>2. CASE WriteCell(w)
    <3>1. PICK i \in writer[w].left :
              writer' = [writer EXCEPT ![w].left = writer[w].left \ {i}]
      BY <2>2 DEF WriteCell
    <3>2. writer \in [Writers -> WriterRecs]
      BY DEF WriterRecs
    <3>3. writer'[w].pc = "copy"
      BY <2>2, <3>1, <3>2 DEF WriteCell, WriterRecs
    <3> QED BY <3>3 DEF Coming
  <2>3. CASE WriteNotify(w)
    BY <2>3 DEF WriteNotify, Coming
  <2> QED BY <2>1, <2>2, <2>3 DEF Write, Coming
<1>3. DownInv'
  BY <1>1 DEF ZephyrInv, DownInv
<1> QED BY <1>2, <1>3 DEF ZephyrInv

\* Booting erases the channel before anybody is told of it.
LEMMA ZephyrBoot ==
    ASSUME Types, ZephyrInv, Boot
    PROVE  ZephyrInv'
<1> USE IpcAssumption DEF linuxVars, isrVars
<1>1. CASE ZephyrStarts
  <2>1. ErasedInv' /\ CopiedInv' /\ DownInv'
    BY <1>1 DEF ZephyrStarts, ErasedInv, CopiedInv, DownInv, ZephyrInv
  <2> QED BY <2>1 DEF ZephyrInv
<1>2. CASE EraseRead
  <2>1. PICK i \in erase : to_zephyr' = [to_zephyr EXCEPT ![i] = Nul] /\ erase' = erase \ {i}
    BY <1>2 DEF EraseRead
  <2>2. Coming' <=> Coming
    BY <1>2 DEF EraseRead, Coming
  <2>3. ~Coming => ErasedInv'
    BY <1>2, <2>1 DEF EraseRead, ErasedInv, ZephyrInv, Types, TypeOK
  <2>4. CopiedInv' /\ DownInv'
    BY <1>2 DEF EraseRead, CopiedInv, DownInv, ZephyrInv
  <2> QED BY <2>2, <2>3, <2>4 DEF ZephyrInv
<1>3. CASE EraseReadDone
  <2>1. Coming' <=> Coming
    BY <1>3 DEF EraseReadDone, Coming
  <2>2. ~Coming => ErasedInv'
    BY <1>3 DEF EraseReadDone, ErasedInv, ZephyrInv
  <2>3. CopiedInv' /\ DownInv'
    BY <1>3 DEF EraseReadDone, CopiedInv, DownInv, ZephyrInv
  <2> QED BY <2>1, <2>2, <2>3 DEF ZephyrInv
<1>4. CASE EraseWrite
  <2>1. Coming' <=> Coming
    BY <1>4 DEF EraseWrite, Coming
  <2>2. ~Coming => ErasedInv'
    BY <1>4 DEF EraseWrite, ErasedInv, ZephyrInv
  <2>3. CopiedInv' /\ DownInv'
    BY <1>4 DEF EraseWrite, CopiedInv, DownInv, ZephyrInv
  <2> QED BY <2>1, <2>2, <2>3 DEF ZephyrInv
<1>5. CASE EnableIrqs
  <2>1. Coming' <=> Coming
    BY <1>5 DEF EnableIrqs, Coming
  <2>2. ErasedInv' /\ DownInv'
    BY <1>5 DEF EnableIrqs, ErasedInv, DownInv
  <2>3. ASSUME ~Coming PROVE CopiedInv'
    <3>1. to_zephyr'[1] = Nul /\ to_zephyr' = to_zephyr /\ MsgSize - 1 \in Nat
      BY <1>5, <2>3 DEF EnableIrqs, ErasedInv, ZephyrInv, Cells
    <3>2. Line(to_zephyr, MsgSize - 1) = <<>>
      BY <3>1, LineShape
    <3>3. Line(to_zephyr', MsgSize - 1) = <<>>
      BY <3>1, <3>2
    <3>4. shown' = <<>> /\ handler'.pc = "idle"
      BY <1>5 DEF EnableIrqs, ZephyrInv, DownInv
    <3> QED BY <3>3, <3>4 DEF CopiedInv
  <2> QED BY <2>1, <2>2, <2>3 DEF ZephyrInv
<1> QED BY <1>1, <1>2, <1>3, <1>4, <1>5 DEF Boot

\* The handler prints what it copied, and that is what the channel holds
\* unless more is coming.
LEMMA ZephyrHandler ==
    ASSUME Types, ZephyrInv, Handler
    PROVE  ZephyrInv'
<1> USE IpcAssumption DEF linuxVars
<1>1. CASE HandlerBegin
  <2>1. handler' = [pc |-> "copy", msg |-> handler.msg, left |-> 1 .. MsgSize]
    BY <1>1 DEF HandlerBegin, Types, TypeOK
  <2>2. ErasedInv' /\ CopiedInv' /\ DownInv'
    BY <1>1, <2>1 DEF HandlerBegin, ErasedInv, CopiedInv, DownInv
  <2> QED BY <2>2 DEF ZephyrInv
<1>2. CASE HandlerCopy
  <2>1. PICK i \in handler.left :
            handler' = [handler EXCEPT !.msg[i] = to_zephyr[i], !.left = @ \ {i}]
    BY <1>2 DEF HandlerCopy
  <2>2. handler' = [pc |-> handler.pc, msg |-> [handler.msg EXCEPT ![i] = to_zephyr[i]],
                    left |-> handler.left \ {i}]
    BY <2>1 DEF Types, TypeOK
  <2>3. Coming' <=> Coming
    BY <1>2 DEF HandlerCopy, Coming
  <2>4. DownInv' /\ zephyr = "up"
    BY <1>2 DEF HandlerCopy, DownInv, ZephyrInv
  <2>5. ErasedInv'
    BY <1>2, <2>4 DEF HandlerCopy, ErasedInv
  <2>6. ASSUME ~Coming PROVE CopiedInv'
    <3>1. handler.pc = "copy" /\ to_zephyr' = to_zephyr /\ handler'.pc = "copy"
          /\ handler'.left = handler.left \ {i}
          /\ handler'.msg = [handler.msg EXCEPT ![i] = to_zephyr[i]]
      BY <1>2, <2>2 DEF HandlerCopy
    <3>2. handler.msg \in [1 .. MsgSize -> Lines \cup {Newline, Nul}]
          /\ handler.left \subseteq 1 .. MsgSize
      BY DEF Types, TypeOK
    <3>3. \A j \in (1 .. MsgSize) \ handler.left : handler.msg[j] = to_zephyr[j]
      BY <2>6, <3>1 DEF ZephyrInv, CopiedInv
    <3>4. \A j \in (1 .. MsgSize) \ handler'.left : handler'.msg[j] = to_zephyr[j]
      BY <3>1, <3>2, <3>3
    <3> QED BY <3>1, <3>4 DEF CopiedInv
  <2> QED BY <2>3, <2>4, <2>5, <2>6 DEF ZephyrInv
<1>3. CASE HandlerPrint
  <2>1. Coming' <=> Coming
    BY <1>3 DEF HandlerPrint, Coming
  <2>2. DownInv' /\ zephyr = "up"
    BY <1>3 DEF HandlerPrint, DownInv, ZephyrInv
  <2>3. ErasedInv'
    BY <1>3, <2>2 DEF HandlerPrint, ErasedInv
  <2>4. ASSUME ~Coming PROVE CopiedInv'
    <3>1. \A j \in 1 .. (MsgSize - 1) + 1 : handler.msg[j] = to_zephyr[j]
      <4>1. handler.pc = "copy" /\ handler.left = {}
        BY <1>3 DEF HandlerPrint
      <4>2. \A j \in 1 .. MsgSize : handler.msg[j] = to_zephyr[j]
        BY <2>4, <4>1 DEF ZephyrInv, CopiedInv
      <4> QED BY <4>2
    <3>2. Line(handler.msg, MsgSize - 1) = Line(to_zephyr, MsgSize - 1)
      <4>1. MsgSize - 1 \in Nat
        OBVIOUS
      <4> QED BY <3>1, <4>1, SameLine
    <3>3. shown' = Line(to_zephyr, MsgSize - 1) /\ to_zephyr' = to_zephyr
          /\ handler'.pc = "idle"
      BY <1>3, <3>2 DEF HandlerPrint
    <3> QED BY <3>3 DEF CopiedInv
  <2> QED BY <2>1, <2>2, <2>3, <2>4 DEF ZephyrInv
<1> QED BY <1>1, <1>2, <1>3 DEF Handler

\* Before the boot nothing is shown.
LEMMA ZephyrInit == Init => ZephyrInv
  BY IpcAssumption DEF Init, ZephyrInv, DownInv, ErasedInv, CopiedInv

\* Every step keeps what holds unless something is coming.
LEMMA ZephyrNext == Types /\ ZephyrInv /\ [Next]_vars => ZephyrInv'
<1>1. UNCHANGED vars \/ Uart \/ Cat => UNCHANGED zVars
  BY DEF vars, zVars, linuxVars, isrVars, Uart, UartBegin, UartCell, Cat, CatOpen,
         CatStrnlen, CatEnds, CatCount, CatCopy, CatPrint
<1> QED BY <1>1, ZephyrFrame, ZephyrWrite, ZephyrBoot, ZephyrHandler DEF Next

\* At rest nothing is coming, so the line shown is the line in the channel.
LEMMA ZephyrQuiet == ZephyrInv => NothingMissed
<1> SUFFICES ASSUME ZephyrInv, Quiet PROVE shown = Line(to_zephyr, MsgSize - 1)
  BY DEF NothingMissed
<1>1. ~Coming
  BY Zenon DEF Quiet, Coming
<1> QED BY <1>1 DEF Quiet, ZephyrInv, CopiedInv

\* What Zephyr printed last is what the channel holds whenever it is quiet:
\* no write is missed, whatever writes, boot and handler do to each other.
THEOREM MissesNothing == Spec => []NothingMissed
  BY TypesInit, TypesNext, ZephyrInit, ZephyrNext, ZephyrQuiet, PTL DEF Spec

-----------------------------------------------------------------------------
(* The last write, when it had the channel to itself.                      *)

\* The last line is in the cells of S that it reaches.
Holds(S) == \A i \in S : i <= LineLen[last] => to_zephyr[i] = Char(last, i)

\* A writer at work has left the last line behind it, and so has one that
\* is done.
CleanInv ==
    last # Nul =>
       /\ zephyr = "up" /\ last \in Lines
       /\ \A w \in Writers : writer[w].pc = "copy" =>
             /\ writer[w].line = last /\ writer[w].pos = 0
             /\ Holds(Cells \ writer[w].left)
       /\ (\A w \in Writers : writer[w].pc = "idle") => Holds(Cells)

cVars == <<to_zephyr, zephyr, writer, last>>

\* What an undisturbed write leaves depends on these variables only.
LEMMA CleanFrame == CleanInv /\ UNCHANGED cVars => CleanInv'
  BY DEF CleanInv, Holds, cVars

\* Zephyr is up: it erases nothing any more.
LEMMA CleanBoot == CleanInv /\ Boot => CleanInv'
  BY DEF CleanInv, Boot, ZephyrStarts, EraseRead, EraseReadDone, EraseWrite, EnableIrqs,
         linuxVars

\* A write that nobody disturbs puts its line into the channel, cell by cell.
LEMMA CleanWrite ==
    ASSUME Types, CleanInv, NEW w \in Writers, Write(w)
    PROVE  CleanInv'
<1>1. writer \in [Writers -> WriterRecs] /\ to_zephyr \in [Cells -> LineChars]
  BY DEF Types, TypeOK, WriterRecs, LineChars
<1>2. ASSUME NEW m \in Lines, NEW p, WriteBegin(w, m, p), last' # Nul PROVE CleanInv'
  <2>1. /\ zephyr' = "up" /\ last' = m /\ p = 0
        /\ \A v \in Writers : writer[v].pc = "idle"
    BY <1>2 DEF WriteBegin
  <2> DEFINE S == {i \in Cells : p < i /\ i <= p + LineLen[m]}
             n == [pc |-> "copy", line |-> m, pos |-> p, left |-> S]
  <2>2. writer' = [writer EXCEPT ![w] = n]
    BY <1>2 DEF WriteBegin
  <2>3. n.pc = "copy" /\ n.line = m /\ n.pos = 0 /\ n.left = S
    BY <2>1
  <2>4. \A i \in Cells \ S : ~(i <= LineLen[m])
    BY <2>1, IpcAssumption DEF Cells
  <2> HIDE DEF n, S
  <2>5. \A v \in Writers : writer'[v].pc = "copy" =>
            v = w /\ writer'[v].line = m /\ writer'[v].pos = 0 /\ writer'[v].left = S
    BY <1>1, <2>1, <2>2, <2>3
  <2>6. writer'[w].pc = "copy"
    BY <1>1, <2>2, <2>3
  <2> QED BY <2>1, <2>4, <2>5, <2>6 DEF CleanInv, Holds
<1>3. ASSUME WriteCell(w), last # Nul PROVE CleanInv'
  <2>1. PICK i \in writer[w].left :
            /\ to_zephyr' = [to_zephyr EXCEPT
                               ![i] = Char(writer[w].line, i - writer[w].pos)]
            /\ writer' = [writer EXCEPT ![w].left = writer[w].left \ {i}]
    BY <1>3 DEF WriteCell
  <2> DEFINE n == [pc |-> writer[w].pc, line |-> writer[w].line, pos |-> writer[w].pos,
                   left |-> writer[w].left \ {i}]
  <2>2. writer' = [writer EXCEPT ![w] = n]
    BY <1>1, <2>1, WriterCopies, Zenon
  <2>3. /\ n.pc = writer[w].pc /\ n.line = writer[w].line /\ n.pos = writer[w].pos
        /\ n.left = writer[w].left \ {i}
    OBVIOUS
  <2> HIDE DEF n
  <2>4. writer[w].pc = "copy" /\ zephyr' = zephyr /\ last' = last
    BY <1>3 DEF WriteCell
  <2>5. /\ writer[w].line = last /\ writer[w].pos = 0 /\ writer'[w].pc = "copy"
        /\ zephyr = "up" /\ last \in Lines /\ i \in Cells
    BY <1>1, <1>3, <2>2, <2>3, <2>4 DEF CleanInv, WriterRecs
  <2>6. i - writer[w].pos = i
    BY <2>5, IpcAssumption DEF Cells
  <2>7. \A j \in Cells : to_zephyr'[j] = IF j = i THEN Char(last, i) ELSE to_zephyr[j]
    BY <1>1, <2>1, <2>5, <2>6
  <2>8. ASSUME NEW v \in Writers, writer'[v].pc = "copy"
        PROVE  /\ writer'[v].line = last /\ writer'[v].pos = 0
               /\ \A j \in Cells \ writer'[v].left :
                     j <= LineLen[last] => to_zephyr'[j] = Char(last, j)
    <3>1. /\ writer[v].pc = "copy" /\ writer'[v].line = writer[v].line
          /\ writer'[v].pos = writer[v].pos
          /\ writer[v].left \subseteq writer'[v].left \cup {i}
      BY <1>1, <2>2, <2>3, <2>8
    <3>2. writer[v].line = last /\ writer[v].pos = 0 /\ Holds(Cells \ writer[v].left)
      BY <1>3, <3>1 DEF CleanInv
    <3>3. \A j \in Cells \ writer'[v].left : j = i \/ j \in Cells \ writer[v].left
      BY <3>1
    <3> QED BY <2>7, <3>1, <3>2, <3>3 DEF Holds
  <2>9. ~(\A v \in Writers : writer'[v].pc = "idle")
    BY <2>5
  <2> QED BY <2>4, <2>5, <2>8, <2>9 DEF CleanInv, Holds
<1>4. ASSUME WriteNotify(w), last # Nul PROVE CleanInv'
  <2>1. /\ writer[w].pc = "copy" /\ writer[w].left = {}
        /\ UNCHANGED <<zephyr, last, to_zephyr>>
    BY <1>4 DEF WriteNotify
  <2>2. Holds(Cells) /\ zephyr = "up" /\ last \in Lines
    <3>1. Holds(Cells \ writer[w].left) /\ zephyr = "up" /\ last \in Lines
      BY <1>4, <2>1 DEF CleanInv
    <3> QED BY <2>1, <3>1 DEF Holds
  <2>3. ASSUME NEW v \in Writers, writer'[v].pc = "copy"
        PROVE  writer'[v].line = last /\ writer'[v].pos = 0
    <3>1. writer[v].pc = "copy" /\ writer'[v] = writer[v]
      BY <1>1, <1>4, <2>3 DEF WriteNotify
    <3> QED BY <1>4, <3>1 DEF CleanInv
  <2> QED BY <2>1, <2>2, <2>3 DEF CleanInv, Holds
<1>5. last' # Nul => \/ last # Nul
                     \/ \E m \in Lines, p \in Positions(w) : WriteBegin(w, m, p)
  BY DEF Write, WriteCell, WriteNotify
<1>6. last' = Nul => CleanInv'
  BY DEF CleanInv
<1>7. CASE WriteCell(w) \/ WriteNotify(w)
  <2>1. last' = last
    BY <1>7 DEF WriteCell, WriteNotify
  <2> QED BY <1>3, <1>4, <1>6, <1>7, <2>1
<1> QED BY <1>2, <1>6, <1>7 DEF Write

\* A buffer that begins with a line reads as that line, cut where the buffer
\* ends.
LEMMA LineReads ==
    ASSUME NEW n \in Nat, NEW m \in Lines, NEW buf,
           \A i \in 1 .. n + 1 : i <= LineLen[m] => buf[i] = Char(m, i)
    PROVE  Line(buf, n) = [i \in 1 .. Min({LineLen[m], n}) |-> Char(m, i)]
<1>1. LineLen[m] \in Nat \ {0}
  BY IpcAssumption
<1>2. Min({LineLen[m], n}) = IF LineLen[m] <= n THEN LineLen[m] ELSE n
  BY <1>1, MinOfTwo
<1>3. CASE n = 0
  <2>1. Line(buf, n) = <<>>
    BY <1>3, LineShape
  <2>2. 1 .. Min({LineLen[m], n}) = {}
    BY <1>1, <1>2, <1>3
  <2>3. [i \in {} |-> Char(m, i)] = <<>>
    OBVIOUS
  <2> QED BY <2>1, <2>2, <2>3
<1>4. CASE n # 0
  <2>1. buf[1] # Nul
    <3>1. buf[1] = Char(m, 1)
      BY <1>1, <1>4
    <3> QED BY <3>1, CharType
  <2>2. Min(Ends(buf, n)) = Min({LineLen[m], n})
    <3> DEFINE k == IF LineLen[m] <= n THEN LineLen[m] ELSE n
    <3>1. k \in Ends(buf, n)
      BY <1>1, <1>4 DEF Ends, Char
    <3>2. \A j \in Ends(buf, n) : k <= j
      <4> SUFFICES ASSUME NEW j \in Ends(buf, n), j < k PROVE FALSE
        BY <1>1, <1>4 DEF Ends
      <4>1. j \in 1 .. n /\ j # n /\ j + 1 \in 1 .. n + 1 /\ j + 1 <= LineLen[m]
            /\ j <= LineLen[m] /\ j # LineLen[m]
        BY <1>1, <1>4 DEF Ends
      <4>2. buf[j] = Char(m, j) /\ buf[j + 1] = Char(m, j + 1)
        BY <4>1
      <4>3. buf[j + 1] # Nul
        BY <4>2, CharType
      <4>4. buf[j] = m /\ m # Newline
        BY <4>1, <4>2, IpcAssumption DEF Char
      <4> QED BY <4>1, <4>3, <4>4 DEF Ends
    <3>3. Ends(buf, n) \in SUBSET Nat
      BY DEF Ends
    <3> HIDE DEF k
    <3>4. Min(Ends(buf, n)) = k
      BY <3>1, <3>2, <3>3, MinIs
    <3> QED BY <1>2, <3>4 DEF k
  <2>3. Line(buf, n) = [i \in 1 .. Min({LineLen[m], n}) |-> buf[i]]
    BY <1>4, <2>1, <2>2, LineShape
  <2>4. \A i \in 1 .. Min({LineLen[m], n}) : buf[i] = Char(m, i)
    BY <1>1, <1>2
  <2> QED BY <2>3, <2>4
<1> QED BY <1>3, <1>4

\* Types and both invariants of the way to Zephyr are kept.
LEMMA Inductive ==
    /\ Init => Types /\ ZephyrInv /\ CleanInv
    /\ Types /\ ZephyrInv /\ CleanInv /\ [Next]_vars => (Types /\ ZephyrInv /\ CleanInv)'
<1>1. Init => CleanInv
  BY DEF Init, CleanInv
<1>2. Types /\ CleanInv /\ [Next]_vars => CleanInv'
  <2>1. UNCHANGED vars \/ Handler \/ Uart \/ Cat => UNCHANGED cVars
    BY DEF vars, cVars, linuxVars, Handler, HandlerBegin, HandlerCopy, HandlerPrint, Uart,
           UartBegin, UartCell, Cat, CatOpen, CatStrnlen, CatEnds, CatCount, CatCopy, CatPrint
  <2> QED BY <2>1, CleanFrame, CleanBoot, CleanWrite DEF Next
<1> QED BY <1>1, <1>2, TypesInit, TypesNext, ZephyrInit, ZephyrNext

\* A line written while Zephyr was up and nobody else was writing is the one
\* it prints, whatever longer line the channel held before.
THEOREM ShowsLastLine == Spec => []LastLineShown
<1>1. Types /\ ZephyrInv /\ CleanInv => LastLineShown
  <2> SUFFICES ASSUME Types, ZephyrInv, CleanInv, Quiet, last # Nul
               PROVE  shown = [i \in 1 .. Min({LineLen[last], MsgSize - 1}) |-> Char(last, i)]
    BY DEF LastLineShown
  <2>1. shown = Line(to_zephyr, MsgSize - 1)
    BY ZephyrQuiet DEF NothingMissed
  <2>2. last \in Lines /\ Holds(Cells)
    BY DEF CleanInv, Quiet
  <2>3. MsgSize - 1 \in Nat /\ 1 .. (MsgSize - 1) + 1 \subseteq Cells
    BY IpcAssumption DEF Cells
  <2>4. \A i \in 1 .. (MsgSize - 1) + 1 : i <= LineLen[last] => to_zephyr[i] = Char(last, i)
    BY <2>2, <2>3 DEF Holds
  <2>5. PICK m \in Lines : m = last
    BY <2>2
  <2>6. PICK n \in Nat : n = MsgSize - 1
    BY <2>3
  <2>7. \A i \in 1 .. n + 1 : i <= LineLen[m] => to_zephyr[i] = Char(m, i)
    BY <2>4, <2>5, <2>6
  <2>8. Line(to_zephyr, n) = [i \in 1 .. Min({LineLen[m], n}) |-> Char(m, i)]
    BY <2>7, LineReads
  <2> QED BY <2>1, <2>5, <2>6, <2>8
<1> QED BY <1>1, Inductive, PTL DEF Spec

-----------------------------------------------------------------------------
(* Zephyr's texts and cat.                                                 *)

\* The length of Zephyr's last text, none before the first key.
LastLen == IF keys = 0 THEN 0 ELSE TextLen[keys]

\* The cells of S hold the last text and the Nul after it.
Shows(S) == \A i \in S : i <= LastLen + 1 =>
                to_linux[i] = IF i = LastLen + 1 THEN Nul ELSE keys

\* The text is in the channel, up to the cells that are still to be written.
TextInv ==
    /\ zephyr # "up" => keys = 0 /\ uart = {} /\ ~still
    /\ zephyr = "up" => Shows(Cells \ uart)
    /\ still => uart = {}

\* What cat has measured, copied and printed is all of that text.
CatInv ==
    still =>
       /\ cat.len <= LastLen /\ cat.pos <= LastLen
       /\ Len(cat.out) = cat.pos /\ \A i \in 1 .. cat.pos : cat.out[i] = keys
       /\ cat.pc = "strnlen" => cat.got = <<>>
       /\ cat.pc = "copy" => /\ cat.pos + Len(cat.got) <= cat.len
                             /\ \A i \in 1 .. Len(cat.got) : cat.got[i] = keys
       /\ cat.pc = "idle" => cat.pos = LastLen

tVars == <<to_linux, zephyr, uart, keys, cat, still>>

\* What cat reads and prints depends on these variables only.
LEMMA CatFrame == TextInv /\ CatInv /\ UNCHANGED tVars => (TextInv /\ CatInv)'
  BY DEF TextInv, CatInv, Shows, LastLen, tVars

\* A text is shorter than the channel.
LEMMA LastLenFits == Types => LastLen \in 0 .. Size - 1
  BY IpcAssumption DEF LastLen, Types, TypeOK

\* Zephyr empties the text before it is up.
LEMMA CatBoot ==
    ASSUME Types, TextInv, CatInv, Boot
    PROVE  (TextInv /\ CatInv)'
<1>1. zephyr # "up" /\ UNCHANGED <<keys, uart, still>>
  BY DEF Boot, ZephyrStarts, EraseRead, EraseReadDone, EraseWrite, EnableIrqs, uartVars
<1>2. keys' = 0 /\ uart' = {} /\ ~still'
  BY <1>1 DEF TextInv
<1>3. zephyr' = "up" => to_linux'[1] = Nul
  <2>1. zephyr' = "up" => EnableIrqs
    BY <1>1 DEF Boot, ZephyrStarts, EraseRead, EraseReadDone, EraseWrite
  <2> QED BY <2>1, IpcAssumption DEF EnableIrqs, Types, TypeOK, Cells
<1> QED BY <1>2, <1>3 DEF TextInv, CatInv, Shows, LastLen, Cells

\* A new text ends the stillness, and every cell of it is written.
LEMMA CatUart ==
    ASSUME Types, TextInv, CatInv, Uart
    PROVE  (TextInv /\ CatInv)'
<1>1. CASE UartBegin
  <2>1. zephyr' = "up" /\ ~still' /\ keys' # 0 /\ uart' = 1 .. TextLen[keys'] + 1
    BY <1>1 DEF UartBegin, Types, TypeOK
  <2>2. keys' \in 1 .. MaxCalls
    BY <1>1, IpcAssumption DEF UartBegin, More, Types, TypeOK
  <2>3. Shows(Cells \ uart)'
    BY <2>1, <2>2, IpcAssumption DEF Shows, LastLen, Cells
  <2> QED BY <2>1, <2>3 DEF TextInv, CatInv
<1>2. CASE UartCell
  <2>1. PICK i \in uart :
            /\ to_linux' = [to_linux EXCEPT ![i] = IF i = TextLen[keys] + 1
                                                     THEN Nul ELSE keys]
            /\ uart' = uart \ {i}
    BY <1>2 DEF UartCell
  <2>2. keys \in 1 .. MaxCalls /\ LastLen = TextLen[keys] /\ uart # {} /\ zephyr = "up"
        /\ ~still
    BY <2>1 DEF Types, TypeOK, LastLen, TextInv
  <2>3. /\ UNCHANGED <<zephyr, keys, still>> /\ LastLen' = LastLen
    BY <1>2 DEF UartCell, LastLen
  <2>4. to_linux \in [Cells -> (1 .. MaxCalls) \cup {Nul}] /\ Shows(Cells \ uart)
    BY <2>2 DEF Types, TypeOK, TextInv
  <2>5. ASSUME NEW j \in Cells \ uart', j <= LastLen + 1
        PROVE  to_linux'[j] = IF j = LastLen + 1 THEN Nul ELSE keys
    <3>1. CASE j = i
      BY <2>1, <2>2, <2>4, <3>1
    <3>2. CASE j # i
      BY <2>1, <2>4, <2>5, <3>2 DEF Shows
    <3> QED BY <3>1, <3>2
  <2>6. Shows(Cells \ uart)'
    BY <2>3, <2>5 DEF Shows
  <2> QED BY <2>2, <2>3, <2>6 DEF TextInv, CatInv
<1> QED BY <1>1, <1>2 DEF Uart

\* A read finds the end of the text, copies no more, and cat goes on.
LEMMA CatReads ==
    ASSUME Types, TextInv, CatInv, Cat
    PROVE  (TextInv /\ CatInv)'
<1> DEFINE n == LastLen
<1>1. n \in 0 .. Size - 1 /\ Size \in Nat /\ ReadMax \in Nat \ {0} /\ keys # Nul
  BY LastLenFits, IpcAssumption DEF Types, TypeOK
<1>2. /\ cat \in [pc : {"idle", "strnlen", "copy"}, pos : 0 .. Size, len : 0 .. Size,
                  got : Seq(Chars), out : Seq(Chars)]
      /\ to_linux \in [Cells -> Chars]
  BY DEF Types, TypeOK, Chars
<1>3. UNCHANGED <<to_linux, zephyr, uart, keys>> /\ LastLen' = n
  BY DEF Cat, CatOpen, CatStrnlen, CatEnds, CatCount, CatCopy, CatPrint, uartVars, LastLen
<1>4. /\ still' => zephyr = "up" /\ uart = {}
      /\ CatOpen \/ still' = still
  <2>1. CASE CatOpen
    BY <2>1 DEF CatOpen
  <2>2. CASE ~CatOpen
    <3>1. still' = still
      BY <2>2 DEF Cat, CatStrnlen, CatEnds, CatCount, CatCopy, CatPrint
    <3> QED BY <3>1 DEF TextInv
  <2> QED BY <2>1, <2>2
<1>5. TextInv'
  BY <1>3, <1>4 DEF TextInv, Shows
<1>6. ASSUME still' PROVE \A i \in Cells : i <= n + 1 =>
                              to_linux[i] = IF i = n + 1 THEN Nul ELSE keys
  BY <1>4, <1>6 DEF TextInv, Shows
<1> HIDE DEF n
<1>7. CASE CatOpen
  <2>1. cat' = [pc |-> "strnlen", pos |-> 0, len |-> 0, got |-> <<>>, out |-> <<>>]
    BY <1>7 DEF CatOpen
  <2>2. /\ cat'.pc = "strnlen" /\ cat'.pos = 0 /\ cat'.len = 0 /\ cat'.got = <<>>
        /\ Len(cat'.out) = 0
    BY <2>1
  <2> QED BY <1>1, <1>3, <1>5, <2>2 DEF CatInv
<1>8. CASE CatStrnlen /\ still'
  <2>1. cat' = [pc |-> "strnlen", pos |-> cat.pos, len |-> cat.len + 1, got |-> cat.got,
                out |-> cat.out]
    BY <1>2, <1>8 DEF CatStrnlen
  <2>2. still /\ cat.len <= n /\ to_linux[cat.len + 1] # Nul
    BY <1>8 DEF CatStrnlen, CatInv, n
  <2>3. cat.len + 1 <= n
    BY <1>1, <1>2, <1>6, <1>8, <2>2 DEF Cells
  <2> QED BY <1>2, <1>3, <1>5, <1>8, <2>1, <2>2, <2>3 DEF CatInv, CatStrnlen, n
<1>9. ASSUME still', cat.pc = "strnlen", LenKnown, still PROVE cat.len = n
  <2>1. cat.len <= n /\ (cat.len = Size \/ to_linux[cat.len + 1] = Nul)
    BY <1>9 DEF CatInv, LenKnown, n
  <2> QED BY <1>1, <1>2, <1>6, <1>9, <2>1 DEF Cells
<1>10. CASE CatEnds /\ still'
  <2>1. cat' = [pc |-> "idle", pos |-> cat.pos, len |-> cat.len, got |-> cat.got,
                out |-> cat.out]
    BY <1>2, <1>10 DEF CatEnds
  <2>2. still /\ cat.pos = n
    BY <1>1, <1>2, <1>9, <1>10 DEF CatEnds, CatInv, n
  <2> QED BY <1>2, <1>3, <1>5, <1>10, <2>1, <2>2 DEF CatInv, n
<1>11. CASE CatCount /\ still'
  <2>1. cat' = [pc |-> "copy", pos |-> cat.pos, len |-> Min({cat.len, cat.pos + ReadMax}),
                got |-> cat.got, out |-> cat.out]
    BY <1>2, <1>11 DEF CatCount
  <2>2. still /\ cat.got = <<>> /\ cat.pos < cat.len /\ cat.len <= n
    BY <1>11 DEF CatCount, CatInv, n
  <2>3. /\ Min({cat.len, cat.pos + ReadMax}) <= n
        /\ cat.pos <= Min({cat.len, cat.pos + ReadMax})
    <3>1. cat.len \in Nat /\ cat.pos + ReadMax \in Nat
      BY <1>1, <1>2
    <3>2. \A a, b \in Nat : Min({a, b}) \in {a, b} /\ Min({a, b}) <= a
      BY MinOfTwo
    <3>3. Min({cat.len, cat.pos + ReadMax}) \in {cat.len, cat.pos + ReadMax}
          /\ Min({cat.len, cat.pos + ReadMax}) <= cat.len
      BY <3>1, <3>2, Zenon
    <3> QED BY <1>1, <1>2, <2>2, <3>1, <3>3
  <2> QED BY <1>2, <1>3, <1>5, <1>11, <2>1, <2>2, <2>3 DEF CatInv, n
<1>12. CASE CatCopy /\ still'
  <2> DEFINE c == to_linux[cat.pos + Len(cat.got) + 1]
  <2>1. cat' = [pc |-> "copy", pos |-> cat.pos, len |-> cat.len,
                got |-> Append(cat.got, c), out |-> cat.out]
    BY <1>2, <1>12 DEF CatCopy
  <2>2. /\ still /\ cat.len <= n /\ cat.pos + Len(cat.got) < cat.len
        /\ \A i \in 1 .. Len(cat.got) : cat.got[i] = keys
    BY <1>12 DEF CatCopy, CatInv, n
  <2>3. cat.got \in Seq(Chars) /\ Len(cat.got) \in Nat
    BY <1>2
  <2>4. c = keys
    BY <1>1, <1>2, <1>6, <1>12, <2>2, <2>3 DEF Cells
  <2> HIDE DEF c
  <2>5. /\ Len(Append(cat.got, c)) = Len(cat.got) + 1
        /\ \A i \in 1 .. Len(cat.got) + 1 : Append(cat.got, c)[i] = keys
    BY <2>2, <2>3, <2>4
  <2>6. Len(cat.out) = cat.pos /\ \A i \in 1 .. cat.pos : cat.out[i] = keys
    BY <2>2 DEF CatInv
  <2>7. cat.pos <= n
    BY <2>2 DEF CatInv, n
  <2>8. /\ cat'.pc = "copy" /\ cat'.pos = cat.pos /\ cat'.len = cat.len
        /\ cat'.got = Append(cat.got, c) /\ cat'.out = cat.out
    BY <2>1
  <2>9. cat.pos + (Len(cat.got) + 1) <= cat.len
    BY <1>2, <2>2, <2>3
  <2> QED BY <1>3, <1>5, <2>2, <2>5, <2>6, <2>7, <2>8, <2>9 DEF CatInv
<1>13. CASE CatPrint /\ still'
  <2>1. cat' = [pc |-> "strnlen", pos |-> cat.len, len |-> 0, got |-> <<>>,
                out |-> cat.out \o cat.got]
    BY <1>13 DEF CatPrint
  <2>2. /\ still /\ cat.len <= n /\ cat.pos + Len(cat.got) = cat.len
        /\ \A i \in 1 .. Len(cat.got) : cat.got[i] = keys
        /\ Len(cat.out) = cat.pos /\ \A i \in 1 .. cat.pos : cat.out[i] = keys
    BY <1>13 DEF CatPrint, CatInv, n
  <2>3. cat.got \in Seq(Chars) /\ cat.out \in Seq(Chars)
    BY <1>2
  <2>4. /\ Len(cat.out \o cat.got) = cat.len
        /\ \A i \in 1 .. cat.len : (cat.out \o cat.got)[i] = keys
    BY <1>2, <2>2, <2>3
  <2>5. /\ cat'.pc = "strnlen" /\ cat'.pos = cat.len /\ cat'.len = 0
        /\ cat'.got = <<>> /\ cat'.out = cat.out \o cat.got
    BY <2>1
  <2>6. Len(cat'.out) = cat'.pos /\ \A i \in 1 .. cat'.pos : cat'.out[i] = keys
    BY <2>4, <2>5
  <2>7. cat'.len <= n /\ cat'.pos <= n /\ keys' = keys
    BY <1>1, <1>3, <2>2, <2>5
  <2> HIDE <2>1, <2>4
  <2> QED BY <1>3, <1>5, <2>5, <2>6, <2>7 DEF CatInv
<1>14. ~still' => CatInv'
  BY DEF CatInv
<1> QED BY <1>5, <1>7, <1>8, <1>10, <1>11, <1>12, <1>13, <1>14 DEF Cat

\* A cat that no key disturbs prints Zephyr's last text, whole and once, for
\* texts, reads and channels of any length.
THEOREM CatPrintsIt == Spec => []CatPrintsLast
<1>1. Init => TextInv /\ CatInv
  BY DEF Init, TextInv, CatInv
<1>2. Types /\ TextInv /\ CatInv /\ [Next]_vars => (TextInv /\ CatInv)'
  <2>1. ASSUME (\E w \in Writers : Write(w)) \/ Handler \/ UNCHANGED vars
        PROVE  UNCHANGED tVars
    BY <2>1 DEF Write, WriteBegin, WriteCell, WriteNotify, Handler, HandlerBegin, HandlerCopy,
           HandlerPrint, vars, tVars, uartVars, catVars
  <2> QED BY <2>1, CatFrame, CatBoot, CatUart, CatReads DEF Next
<1>3. Types /\ TextInv /\ CatInv => CatPrintsLast
  <2> SUFFICES ASSUME Types, TextInv, CatInv, cat.pc = "idle", still
               PROVE  cat.out = (IF keys = 0 THEN <<>> ELSE Text(keys))
    BY DEF CatPrintsLast
  <2>1. /\ cat.out \in Seq(Chars) /\ Len(cat.out) = LastLen
        /\ \A i \in 1 .. LastLen : cat.out[i] = keys
    BY DEF Types, CatInv
  <2>2. cat.out = [i \in 1 .. LastLen |-> keys]
    BY <2>1
  <2>3. CASE keys = 0
    <3>1. cat.out \in Seq(Chars) /\ Len(cat.out) = 0
      BY <2>1, <2>3 DEF LastLen
    <3> QED BY <2>3, <3>1
  <2>4. CASE keys # 0
    BY <2>2, <2>4 DEF LastLen, Text
  <2> QED BY <2>3, <2>4
<1> QED BY <1>1, <1>2, <1>3, TypesInit, TypesNext, PTL DEF Spec

-----------------------------------------------------------------------------
(* What a disturbed reader can rely on.                                    *)

\* A character of a text that was begun is at the place that it has in it.
FromText(c, i) == c # Nul => c \in 1 .. keys /\ i <= TextLen[c]

\* However writes, boot and handler overlap, what Zephyr prints is characters
\* that were written, and one line at most: a newline is at its end only, and
\* the handler's buffer is not exceeded.
ShownIsOneLine ==
    /\ shown \in Seq(Lines \cup {Newline}) /\ Len(shown) < MsgSize
    /\ \A i \in 1 .. Len(shown) : shown[i] = Newline => i = Len(shown)

\* Whatever keys are pressed during a cat, over however many reads, what it
\* prints is put together of characters at their places in Zephyr's texts:
\* reads neither leave out a place nor print one twice.
OutKeepsPlaces ==
    /\ Len(cat.out) = cat.pos
    /\ \A i \in DOMAIN cat.out : FromText(cat.out[i], i)

\* Characters keep their places on the way to cat, where got begins at the position of the file.
TextsInv ==
    /\ \A i \in Cells : FromText(to_linux[i], i)
    /\ \A i \in uart : i <= TextLen[keys] + 1
    /\ \A i \in 1 .. Len(cat.got) : FromText(cat.got[i], cat.pos + i)
    /\ Len(cat.out) = cat.pos /\ \A i \in 1 .. Len(cat.out) : FromText(cat.out[i], i)
    /\ cat.pc = "strnlen" => cat.got = <<>>

\* A line stops at its newline, and before a Nul.
LEMMA LineIsOneLine ==
    ASSUME NEW n \in Nat, NEW buf, \A i \in 1 .. n + 1 : buf[i] \in LineChars
    PROVE  LET s == Line(buf, n) IN
           /\ s \in Seq(Lines \cup {Newline}) /\ Len(s) <= n
           /\ \A i \in 1 .. Len(s) : s[i] = Newline => i = Len(s)
<1>1. CASE n = 0 \/ buf[1] = Nul
  <2>1. Line(buf, n) = <<>>
    BY <1>1, LineShape
  <2> QED BY <2>1
<1>2. CASE n # 0 /\ buf[1] # Nul
  <2> DEFINE m == Min(Ends(buf, n))
  <2>1. m \in 1 .. n /\ Line(buf, n) = [j \in 1 .. m |-> buf[j]]
    BY <1>2, LineShape
  <2>2. \A j \in Ends(buf, n) : m <= j
    <3>1. n \in Ends(buf, n) /\ Ends(buf, n) \in SUBSET Nat
      BY <1>2 DEF Ends
    <3>2. PICK k \in Ends(buf, n) : \A j \in Ends(buf, n) : k <= j
      BY <3>1, HasLeast
    <3> QED BY <3>1, <3>2, MinIs
  <2> HIDE DEF m
  <2>3. ASSUME NEW i \in 1 .. m PROVE buf[i] \in Lines \cup {Newline}
    <3>1. buf[i] # Nul
      <4>1. CASE i = 1
        BY <1>2, <4>1
      <4>2. CASE i # 1
        <5>1. i - 1 \in 1 .. n /\ ~(m <= i - 1) /\ (i - 1) + 1 = i
          BY <2>1, <4>2
        <5> QED BY <2>2, <5>1 DEF Ends
      <4> QED BY <4>1, <4>2
    <3>2. buf[i] \in LineChars
      BY <2>1
    <3> QED BY <3>1, <3>2 DEF LineChars
  <2>4. ASSUME NEW i \in 1 .. m, buf[i] = Newline PROVE i = m
    BY <2>1, <2>2, <2>4 DEF Ends
  <2> QED BY <2>1, <2>3, <2>4
<1> QED BY <1>1, <1>2

\* Only the handler prints.
LEMMA ShownNext == Types /\ ShownIsOneLine /\ [Next]_vars => ShownIsOneLine'
<1> SUFFICES ASSUME Types, ShownIsOneLine, [Next]_vars PROVE ShownIsOneLine'
  OBVIOUS
<1>1. CASE HandlerPrint
  <2>1. PICK n \in Nat : n = MsgSize - 1
    BY IpcAssumption
  <2>2. handler.msg \in [1 .. MsgSize -> LineChars] /\ n + 1 = MsgSize
    BY <2>1, IpcAssumption DEF Types, TypeOK, LineChars
  <2>3. \A i \in 1 .. n + 1 : handler.msg[i] \in LineChars
    BY <2>2
  <2>4. shown' = Line(handler.msg, n)
    BY <1>1, <2>1 DEF HandlerPrint
  <2>5. /\ shown' \in Seq(Lines \cup {Newline}) /\ Len(shown') <= n
        /\ \A i \in 1 .. Len(shown') : shown'[i] = Newline => i = Len(shown')
    BY <2>3, <2>4, LineIsOneLine
  <2>6. Len(shown') < MsgSize
    BY <2>1, <2>2, <2>5, IpcAssumption
  <2> QED BY <2>5, <2>6 DEF ShownIsOneLine
<1>2. ASSUME UNCHANGED shown PROVE ShownIsOneLine'
  BY <1>2 DEF ShownIsOneLine
<1>3. HandlerPrint \/ UNCHANGED shown
  BY DEF Next, Write, WriteBegin, WriteCell, WriteNotify, Boot, ZephyrStarts, EraseRead,
     EraseReadDone, EraseWrite, EnableIrqs, Handler, HandlerBegin, HandlerCopy, Uart, UartBegin,
     UartCell, Cat, CatOpen, CatStrnlen, CatEnds, CatCount, CatCopy, CatPrint, vars, isrVars
<1> QED BY <1>1, <1>2, <1>3

\* Zephyr's handler puts characters where they belong, and cat reads on where
\* it has stopped.
LEMMA TextsNext == Types /\ TextsInv /\ [Next]_vars => TextsInv'
<1> SUFFICES ASSUME Types, TextsInv, [Next]_vars PROVE TextsInv'
  OBVIOUS
<1> USE IpcAssumption
<1>a. /\ to_linux \in [Cells -> Chars] /\ uart \subseteq Cells
      /\ keys \in 0 .. MaxCalls /\ (uart # {} => keys > 0)
      /\ cat \in [pc : {"idle", "strnlen", "copy"}, pos : 0 .. Size, len : 0 .. Size,
                  got : Seq(Chars), out : Seq(Chars)]
      /\ Cells = 1 .. Size /\ Size \in Nat
  BY DEF Types, TypeOK, Cells, Chars
<1>b. ASSUME UNCHANGED <<cat, uart, keys>>,
             \A i \in Cells : to_linux'[i] \in {to_linux[i], Nul}
      PROVE  TextsInv'
  BY <1>a, <1>b DEF TextsInv, FromText
<1>1. CASE (\E w \in Writers : Write(w)) \/ Handler \/ UNCHANGED vars
  <2>1. UNCHANGED <<to_linux, cat, uart, keys>>
    BY <1>1 DEF Write, WriteBegin, WriteCell, WriteNotify, Handler, HandlerBegin, HandlerCopy,
       HandlerPrint, vars, uartVars, catVars
  <2> QED BY <1>b, <2>1
<1>2. CASE Boot
  <2>1. UNCHANGED <<cat, uart, keys>>
    BY <1>2 DEF Boot, ZephyrStarts, EraseRead, EraseReadDone, EraseWrite, EnableIrqs,
       uartVars, catVars
  <2>2. \/ to_linux' = to_linux \/ to_linux' = [i \in Cells |-> Nul]
        \/ to_linux' = [to_linux EXCEPT ![1] = Nul]
    BY <1>2 DEF Boot, ZephyrStarts, EraseRead, EraseReadDone, EraseWrite, EnableIrqs
  <2>3. \A i \in Cells : to_linux'[i] \in {to_linux[i], Nul}
    BY <1>a, <2>2
  <2> QED BY <1>b, <2>1, <2>3
<1>3. CASE UartBegin
  <2>1. /\ keys' = keys + 1 /\ uart' = 1 .. TextLen[keys'] + 1 /\ UNCHANGED <<to_linux, cat>>
        /\ 1 .. keys \subseteq 1 .. keys' /\ TextLen[keys'] \in Nat
    BY <1>a, <1>3 DEF UartBegin, catVars, More, Types, TypeOK
  <2> QED BY <2>1 DEF TextsInv, FromText
<1>4. CASE UartCell
  <2>1. PICK i \in uart :
            /\ to_linux' = [to_linux EXCEPT ![i] = IF i = TextLen[keys] + 1
                                                     THEN Nul ELSE keys]
            /\ uart' = uart \ {i}
    BY <1>4 DEF UartCell
  <2>2. /\ keys \in 1 .. MaxCalls /\ i \in Cells /\ i <= TextLen[keys] + 1
        /\ TextLen[keys] \in Nat /\ UNCHANGED <<cat, keys>>
    BY <1>a, <1>4, <2>1 DEF UartCell, TextsInv, catVars
  <2>3. \A j \in Cells : to_linux'[j] = IF j # i THEN to_linux[j]
                                        ELSE IF i = TextLen[keys] + 1 THEN Nul ELSE keys
    BY <1>a, <2>1
  <2>4. ASSUME NEW j \in Cells PROVE (FromText(to_linux[j], j))'
    <3>1. CASE j # i
      BY <2>2, <2>3, <3>1 DEF TextsInv, FromText
    <3>2. CASE j = i /\ i = TextLen[keys] + 1
      BY <2>2, <2>3, <3>2 DEF FromText
    <3>3. CASE j = i /\ i # TextLen[keys] + 1
      <4>1. to_linux'[j] = keys /\ keys \in 1 .. keys /\ i \in Nat
        BY <1>a, <2>2, <2>3, <3>3
      <4>2. i <= TextLen[keys]
        BY <2>2, <3>3, <4>1
      <4> QED BY <2>2, <3>3, <4>1, <4>2 DEF FromText
    <3> QED BY <3>1, <3>2, <3>3
  <2> QED BY <2>1, <2>2, <2>4 DEF TextsInv, FromText
<1>5. CASE Cat
  <2>0. UNCHANGED <<to_linux, uart, keys>>
    BY <1>5 DEF Cat, CatOpen, CatStrnlen, CatEnds, CatCount, CatCopy, CatPrint, uartVars
  <2>a. ASSUME /\ \A i \in 1 .. Len(cat'.got) : FromText(cat'.got[i], cat'.pos + i)
               /\ Len(cat'.out) = cat'.pos
               /\ \A i \in 1 .. Len(cat'.out) : FromText(cat'.out[i], i)
               /\ cat'.pc = "strnlen" => cat'.got = <<>>
        PROVE  TextsInv'
    BY <2>0, <2>a DEF TextsInv, FromText
  <2>1. CASE CatOpen
    <3>1. /\ cat'.got = <<>> /\ cat'.out = <<>> /\ cat'.pos = 0 /\ Len(<<>>) = 0
      BY <2>1 DEF CatOpen
    <3> QED BY <2>a, <3>1
  <2>2. CASE CatStrnlen \/ CatEnds \/ CatCount
    <3>1. /\ cat'.got = cat.got /\ cat'.out = cat.out /\ cat'.pos = cat.pos
          /\ cat.pc = "strnlen"
      BY <1>a, <2>2 DEF CatStrnlen, CatEnds, CatCount
    <3> QED BY <2>a, <3>1 DEF TextsInv
  <2>3. CASE CatCopy
    <3> DEFINE k == cat.pos + Len(cat.got) + 1
    <3>1. /\ cat'.got = Append(cat.got, to_linux[k]) /\ cat'.out = cat.out
          /\ cat'.pos = cat.pos /\ cat'.pc = "copy"
      BY <1>a, <2>3 DEF CatCopy
    <3>2. k \in Cells /\ cat.got \in Seq(Chars) /\ k = cat.pos + (Len(cat.got) + 1)
      BY <1>a, <2>3 DEF CatCopy
    <3>3. FromText(to_linux[k], k)
      BY <3>2 DEF TextsInv
    <3> HIDE DEF k
    <3>4. PICK c : c = to_linux[k]
      OBVIOUS
    <3>5. /\ Len(cat'.got) = Len(cat.got) + 1 /\ Len(cat.got) \in Nat
          /\ \A i \in 1 .. Len(cat.got) : cat'.got[i] = cat.got[i]
          /\ cat'.got[Len(cat.got) + 1] = c
      BY <3>1, <3>2, <3>4
    <3>6. ASSUME NEW i \in 1 .. Len(cat'.got) PROVE FromText(cat'.got[i], cat'.pos + i)
      <4>1. CASE i = Len(cat.got) + 1
        BY <3>1, <3>2, <3>3, <3>4, <3>5, <4>1
      <4>2. CASE i # Len(cat.got) + 1
        <5>1. i \in 1 .. Len(cat.got)
          BY <3>5, <3>6, <4>2
        <5> QED BY <3>1, <3>5, <5>1 DEF TextsInv
      <4> QED BY <4>1, <4>2
    <3> QED BY <2>a, <3>1, <3>6 DEF TextsInv
  <2>4. CASE CatPrint
    <3>1. /\ cat'.got = <<>> /\ cat'.out = cat.out \o cat.got /\ cat'.pos = cat.len
          /\ cat.pos + Len(cat.got) = cat.len /\ Len(<<>>) = 0
      BY <2>4 DEF CatPrint
    <3>2. /\ cat.got \in Seq(Chars) /\ cat.out \in Seq(Chars) /\ Len(cat.out) = cat.pos
          /\ Len(cat.out) \in Nat /\ Len(cat.got) \in Nat
      BY <1>a DEF TextsInv
    <3>3. /\ Len(cat'.out) = Len(cat.out) + Len(cat.got)
          /\ \A i \in 1 .. Len(cat.out) : cat'.out[i] = cat.out[i]
          /\ \A i \in 1 .. Len(cat.got) : cat'.out[Len(cat.out) + i] = cat.got[i]
      <4>1. PICK o \in Seq(Chars), g \in Seq(Chars) : o = cat.out /\ g = cat.got
        BY <3>2
      <4>2. /\ Len(o \o g) = Len(o) + Len(g)
            /\ \A i \in 1 .. Len(o) : (o \o g)[i] = o[i]
            /\ \A i \in 1 .. Len(g) : (o \o g)[Len(o) + i] = g[i]
        OBVIOUS
      <4> QED BY <3>1, <4>1, <4>2
    <3>4. ASSUME NEW i \in 1 .. Len(cat'.out) PROVE FromText(cat'.out[i], i)
      <4>1. CASE i <= Len(cat.out)
        <5>1. i \in 1 .. Len(cat.out)
          BY <3>2, <3>3, <4>1
        <5> QED BY <3>3, <5>1 DEF TextsInv
      <4>2. CASE ~(i <= Len(cat.out))
        <5>1. PICK j \in 1 .. Len(cat.got) : i = Len(cat.out) + j
          <6>1. i - Len(cat.out) \in 1 .. Len(cat.got) /\ i = Len(cat.out) + (i - Len(cat.out))
            BY <3>2, <3>3, <4>2
          <6> QED BY <6>1
        <5>2. FromText(cat.got[j], cat.pos + j)
          BY DEF TextsInv
        <5>3. cat'.out[i] = cat.got[j] /\ i = cat.pos + j
          BY <3>2, <3>3, <5>1
        <5> QED BY <5>2, <5>3
      <4> QED BY <4>1, <4>2
    <3>5. Len(cat'.out) = cat'.pos /\ 1 .. Len(cat'.got) = {}
      BY <1>a, <3>1, <3>2, <3>3
    <3> QED BY <2>a, <3>1, <3>4, <3>5
  <2> QED BY <1>5, <2>1, <2>2, <2>3, <2>4 DEF Cat
<1> QED BY <1>1, <1>2, <1>3, <1>4, <1>5 DEF Next, Uart

\* The other half of LastLineShown and CatPrintsLast, for readers that are
\* disturbed: Zephyr may print lines mixed, but one line at most and nothing
\* from behind a newline; cat may print texts mixed, but none is shifted, left
\* out in part or longer than all that were written.
THEOREM KeepsPlaces == Spec => [](ShownIsOneLine /\ OutKeepsPlaces)
<1>1. Init => ShownIsOneLine /\ TextsInv
  <2> SUFFICES ASSUME Init PROVE ShownIsOneLine /\ TextsInv
    OBVIOUS
  <2>1. /\ \A i \in Cells : to_linux[i] = Nul
        /\ shown = <<>> /\ Len(shown) = 0 /\ uart = {} /\ 0 < MsgSize
    BY IpcAssumption DEF Init
  <2>2. cat.got = <<>> /\ cat.out = <<>> /\ cat.pos = 0 /\ Len(<<>>) = 0
    BY DEF Init
  <2>3. ShownIsOneLine
    BY <2>1 DEF ShownIsOneLine
  <2> QED BY <2>1, <2>2, <2>3 DEF TextsInv, FromText
<1>2. Types /\ TextsInv => OutKeepsPlaces
  <2> SUFFICES ASSUME Types, TextsInv PROVE OutKeepsPlaces
    OBVIOUS
  <2>1. cat.out \in Seq(Chars)
    BY DEF Types
  <2>2. DOMAIN cat.out = 1 .. Len(cat.out)
    BY <2>1
  <2> QED BY <2>2 DEF TextsInv, OutKeepsPlaces
<1> QED BY <1>1, <1>2, ShownNext, TextsNext, TypesInit, TypesNext, PTL DEF Spec

-----------------------------------------------------------------------------
(* Every call comes to an end.                                             *)

\* A call begins: a write, a UART interrupt or a run of cat.
Begins == sends' # sends \/ keys' # keys \/ cats' # cats

\* A writer has a cell less to copy, or is done.
WriterForward(w) ==
    /\ writer[w].pc = "copy"
    /\ \/ writer'[w].pc = "idle"
       \/ /\ writer'[w].pc = "copy" /\ writer'[w].left \subseteq writer[w].left
          /\ writer'[w].left # writer[w].left
    /\ \A v \in Writers \ {w} : writer'[v] = writer[v]

\* Zephyr's boot has a cell less to clear, or gets to its next part.
BootForward ==
    \/ zephyr = "off" /\ zephyr' = "erase_read"
    \/ zephyr = "erase_read" /\ zephyr' = "erase_write"
    \/ zephyr = "erase_write" /\ zephyr' = "main"
    \/ zephyr = "main" /\ zephyr' = "up"
    \/ zephyr' = zephyr /\ erase' \subseteq erase /\ erase' # erase

\* The handler takes a bell that was rung, has a cell less to copy, or is done.
HandlerForward ==
    \/ bell /\ ~bell'
    \/ /\ bell' = bell
       /\ \/ handler.pc = "copy" /\ handler'.pc = "idle"
          \/ /\ handler'.pc = handler.pc /\ handler'.left \subseteq handler.left
             /\ handler'.left # handler.left

\* cat is further in the file, or at its place further in the read there.
CatForward ==
    \/ cat.pos < cat'.pos
    \/ /\ cat'.pos = cat.pos
       /\ \/ cat.pc = "strnlen" /\ cat'.pc # "strnlen"
          \/ cat'.pc = cat.pc /\ cat'.pc = "strnlen" /\ cat.len < cat'.len
          \/ /\ cat'.pc = cat.pc /\ cat'.pc = "copy" /\ cat'.len = cat.len
             /\ Len(cat.got) < Len(cat'.got)

\* A step that begins no call leads forward: a writer's first, for it may ring
\* the bell, then the boot's, for it may drop it, then the others'.
Forward ==
    \/ \E w \in Writers : WriterForward(w) /\ UNCHANGED <<zephyr, erase, handler, uart, cat>>
    \/ BootForward /\ UNCHANGED <<writer, handler, uart, cat>>
    \/ HandlerForward /\ UNCHANGED <<writer, zephyr, erase, uart, cat>>
    \/ /\ uart' \subseteq uart /\ uart' # uart
       /\ UNCHANGED <<writer, zephyr, erase, bell, handler, cat>>
    \/ CatForward /\ UNCHANGED <<writer, zephyr, erase, bell, handler, uart>>

\* A read that copies has something to copy.
ReadInv ==
    /\ cat.pc = "strnlen" => cat.got = <<>>
    /\ cat.pc = "copy" => cat.pos < cat.len /\ cat.pos + Len(cat.got) <= cat.len

\* Reads of nothing are those that end cat.
LEMMA ReadNext == Types /\ ReadInv /\ [Next]_vars => ReadInv'
<1> SUFFICES ASSUME Types, ReadInv, [Next]_vars PROVE ReadInv'
  OBVIOUS
<1> USE IpcAssumption
<1>a. /\ cat \in [pc : {"idle", "strnlen", "copy"}, pos : 0 .. Size, len : 0 .. Size,
                  got : Seq(Chars), out : Seq(Chars)]
      /\ to_linux \in [Cells -> Chars]
  BY DEF Types, TypeOK, Chars
<1>1. CASE cat' = cat
  BY <1>1 DEF ReadInv
<1>2. CASE CatOpen \/ CatEnds \/ CatPrint
  <2>1. cat'.pc # "copy" /\ (cat'.pc = "strnlen" => cat'.got = <<>>)
    BY <1>a, <1>2 DEF CatOpen, CatEnds, CatPrint
  <2> QED BY <2>1 DEF ReadInv
<1>3. CASE CatStrnlen
  <2>1. cat'.pc = "strnlen" /\ cat'.got = cat.got /\ cat.pc = "strnlen"
    BY <1>a, <1>3 DEF CatStrnlen
  <2> QED BY <2>1 DEF ReadInv
<1>4. CASE CatCount
  <2>1. /\ cat'.pc = "copy" /\ cat'.len = Min({cat.len, cat.pos + ReadMax})
        /\ cat'.got = <<>> /\ cat'.pos = cat.pos /\ cat.pos < cat.len
    BY <1>a, <1>4 DEF CatCount, ReadInv
  <2>2. cat.pos < Min({cat.len, cat.pos + ReadMax})
    <3>1. cat.len \in Nat /\ cat.pos + ReadMax \in Nat /\ cat.pos \in Nat /\ cat.pos < cat.pos + ReadMax
      BY <1>a
    <3>2. Min({cat.len, cat.pos + ReadMax}) = IF cat.len <= cat.pos + ReadMax
                                              THEN cat.len ELSE cat.pos + ReadMax
      BY <3>1, MinOfTwo
    <3> QED BY <2>1, <3>1, <3>2
  <2>3. cat.pos + Len(<<>>) = cat.pos /\ cat.pos \in Nat
    BY <1>a
  <2>4. PICK k : k = Min({cat.len, cat.pos + ReadMax})
    OBVIOUS
  <2>5. k \in Nat
    <3>1. cat.len \in Nat /\ cat.pos + ReadMax \in Nat
      BY <1>a
    <3> QED BY <2>4, <3>1, MinOfTwo
  <2> QED BY <2>1, <2>2, <2>3, <2>4, <2>5 DEF ReadInv
<1>5. CASE CatCopy
  <2>1. /\ cat'.pc = "copy" /\ cat.pc = "copy" /\ cat'.pos = cat.pos /\ cat'.len = cat.len
        /\ cat'.got = Append(cat.got, to_linux[cat.pos + Len(cat.got) + 1])
        /\ cat.pos + Len(cat.got) < cat.len
    BY <1>a, <1>5 DEF CatCopy
  <2>2. Len(cat'.got) = Len(cat.got) + 1 /\ Len(cat.got) \in Nat
    BY <1>a, <2>1
  <2> QED BY <1>a, <2>1, <2>2 DEF ReadInv
<1>6. cat' = cat \/ Cat
  BY DEF Next, Write, WriteBegin, WriteCell, WriteNotify, Boot, ZephyrStarts, EraseRead,
     EraseReadDone, EraseWrite, EnableIrqs, Handler, HandlerBegin, HandlerCopy, HandlerPrint,
     Uart, UartBegin, UartCell, vars, catVars
<1> QED BY <1>1, <1>2, <1>3, <1>4, <1>5, <1>6 DEF Cat

\* Writers do not wait for each other, nor the handler for them, and every read
\* that does not end cat brings it on: what can be proved of EventuallyShown,
\* as whoever is not done can always make a step.
THEOREM CallsEnd == Spec => [][Begins \/ Forward]_vars
<1>1. ASSUME Types, ReadInv, Next PROVE Begins \/ Forward
  <2> USE IpcAssumption
  <2>a. /\ writer \in [Writers -> WriterRecs]
        /\ handler \in [pc : {"idle", "copy"}, msg : [1 .. MsgSize -> LineChars],
                        left : SUBSET (1 .. MsgSize)]
        /\ cat \in [pc : {"idle", "strnlen", "copy"}, pos : 0 .. Size, len : 0 .. Size,
                    got : Seq(Chars), out : Seq(Chars)]
        /\ bell \in BOOLEAN /\ keys \in Nat /\ sends \in Nat /\ cats \in Nat
    BY <1>1 DEF Types, TypeOK, WriterRecs, LineChars
  <2>1. ASSUME NEW w \in Writers, Write(w) PROVE Begins \/ Forward
    <3>0. UNCHANGED <<zephyr, erase, handler, uart, cat>>
      BY <2>1 DEF Write, WriteBegin, WriteCell, WriteNotify, isrVars, uartVars, catVars
    <3>1. ASSUME NEW m \in Lines, NEW p, WriteBegin(w, m, p) PROVE Begins
      BY <2>a, <3>1 DEF WriteBegin, Begins
    <3>2. CASE WriteCell(w)
      <4>1. PICK i \in writer[w].left : writer' = [writer EXCEPT ![w].left = writer[w].left \ {i}]
        BY <3>2 DEF WriteCell
      <4>2. writer' = [writer EXCEPT ![w] = [pc |-> writer[w].pc, line |-> writer[w].line,
                              pos |-> writer[w].pos, left |-> writer[w].left \ {i}]]
        BY <2>a, <4>1, WriterCopies, Zenon
      <4>3. /\ writer'[w].pc = writer[w].pc /\ writer[w].pc = "copy"
            /\ writer'[w].left = writer[w].left \ {i}
            /\ \A v \in Writers \ {w} : writer'[v] = writer[v]
        BY <2>a, <3>2, <4>2 DEF WriteCell
      <4> QED BY <3>0, <4>1, <4>3 DEF Forward, WriterForward
    <3>3. CASE WriteNotify(w)
      <4>1. /\ writer'[w].pc = "idle" /\ writer[w].pc = "copy"
            /\ \A v \in Writers \ {w} : writer'[v] = writer[v]
        BY <2>a, <3>3 DEF WriteNotify
      <4> QED BY <3>0, <4>1 DEF Forward, WriterForward
    <3> QED BY <2>1, <3>1, <3>2, <3>3 DEF Write
  <2>2. CASE Boot
    <3>1. BootForward
      BY <2>2 DEF BootForward, Boot, ZephyrStarts, EraseRead, EraseReadDone, EraseWrite,
         EnableIrqs
    <3>2. UNCHANGED <<writer, handler, uart, cat>>
      BY <2>2 DEF Boot, ZephyrStarts, EraseRead, EraseReadDone, EraseWrite, EnableIrqs,
         linuxVars, isrVars, uartVars, catVars
    <3> QED BY <3>1, <3>2 DEF Forward
  <2>3. CASE Handler
    <3>0. UNCHANGED <<writer, zephyr, erase, uart, cat>>
      BY <2>3 DEF Handler, HandlerBegin, HandlerCopy, HandlerPrint, linuxVars, uartVars,
         catVars
    <3>1. CASE HandlerBegin
      BY <3>0, <3>1 DEF HandlerBegin, HandlerForward, Forward
    <3>2. CASE HandlerCopy
      <4>1. PICK i \in handler.left :
                handler' = [handler EXCEPT !.msg[i] = to_zephyr[i], !.left = @ \ {i}]
        BY <3>2 DEF HandlerCopy
      <4>2. handler'.pc = handler.pc /\ handler'.left = handler.left \ {i} /\ bell' = bell
        BY <2>a, <3>2, <4>1 DEF HandlerCopy
      <4> QED BY <3>0, <4>1, <4>2 DEF HandlerForward, Forward
    <3>3. CASE HandlerPrint
      <4>1. handler.pc = "copy" /\ handler'.pc = "idle" /\ bell' = bell
        BY <3>3 DEF HandlerPrint
      <4> QED BY <3>0, <4>1 DEF HandlerForward, Forward
    <3> QED BY <2>3, <3>1, <3>2, <3>3 DEF Handler
  <2>4. CASE UartBegin
    BY <2>a, <2>4 DEF UartBegin, Begins
  <2>5. CASE UartCell
    <3>1. PICK i \in uart : uart' = uart \ {i}
      BY <2>5 DEF UartCell
    <3>2. UNCHANGED <<writer, zephyr, erase, bell, handler, cat>>
      BY <2>5 DEF UartCell, linuxVars, isrVars, catVars
    <3> QED BY <3>1, <3>2 DEF Forward
  <2>6. CASE CatOpen
    BY <2>a, <2>6 DEF CatOpen, Begins
  <2>7. CASE CatStrnlen \/ CatEnds \/ CatCount \/ CatCopy \/ CatPrint
    <3>0. UNCHANGED <<writer, zephyr, erase, bell, handler, uart>>
      BY <2>7 DEF CatStrnlen, CatEnds, CatCount, CatCopy, CatPrint, linuxVars, isrVars,
         uartVars
    <3>1. CASE CatStrnlen
      <4>1. /\ cat'.pc = "strnlen" /\ cat.pc = "strnlen" /\ cat'.pos = cat.pos
            /\ cat'.len = cat.len + 1 /\ cat.len \in Nat
        BY <2>a, <3>1 DEF CatStrnlen
      <4> QED BY <3>0, <4>1 DEF CatForward, Forward
    <3>2. CASE CatEnds \/ CatCount
      <4>1. cat.pc = "strnlen" /\ cat'.pc # "strnlen" /\ cat'.pos = cat.pos
        BY <2>a, <3>2 DEF CatEnds, CatCount
      <4> QED BY <3>0, <4>1 DEF CatForward, Forward
    <3>3. CASE CatCopy
      <4>1. /\ cat'.pc = "copy" /\ cat.pc = "copy" /\ cat'.pos = cat.pos /\ cat'.len = cat.len
            /\ cat'.got = Append(cat.got, to_linux[cat.pos + Len(cat.got) + 1])
        BY <2>a, <3>3 DEF CatCopy
      <4>2. Len(cat.got) < Len(cat'.got)
        <5>1. Len(cat'.got) = Len(cat.got) + 1 /\ Len(cat.got) \in Nat
          BY <2>a, <4>1
        <5> QED BY <5>1
      <4> QED BY <3>0, <4>1, <4>2 DEF CatForward, Forward
    <3>4. CASE CatPrint
      <4>1. cat'.pos = cat.len /\ cat.pos < cat.len
        BY <1>1, <3>4 DEF CatPrint, ReadInv
      <4> QED BY <3>0, <4>1 DEF CatForward, Forward
    <3> QED BY <2>7, <3>1, <3>2, <3>3, <3>4
  <2> QED BY <1>1, <2>1, <2>2, <2>3, <2>4, <2>5, <2>6, <2>7 DEF Next, Uart, Cat
<1>2. Types /\ ReadInv /\ [Next]_vars => [Begins \/ Forward]_vars
  BY <1>1
<1>3. Init => ReadInv
  BY DEF Init, ReadInv
<1> QED BY <1>2, <1>3, ReadNext, TypesInit, TypesNext, PTL DEF Spec
=============================================================================
