--------------------- MODULE RpiFirmwareHandleProofs ---------------------
(* RpiFirmwareHandle for any structures, clients and values.               *)
(*                                                                         *)
(* BasicInv holds at all times; HandleInv, the account of the references,  *)
(* until a client has taken a reference in freed memory (misled).          *)
EXTENDS RpiFirmwareHandle, FiniteSetTheorems, TLAPS

\* What the driver core works with at each place.
CoreBasic ==
    /\ core = "unbound" => bound = None /\ drvdata = None
    /\ core \in {"channel", "publish"} => bound \in Objs /\ drvdata = None
    /\ core \notin {"unbound", "channel", "publish"} => bound \in Objs /\ drvdata = bound

\* A client that is not out has a pointer.
ClientInv == \A c \in Clients : cpc[c] # "out" => handle[c] \in Objs

\* What a client is to store is a value, and the attribute is there, with
\* what a process has read of it, while the device is bound.
AnswerInv ==
    /\ \A c \in Clients : cpc[c] \in {"compare", "store"} => answer[c] \in Values
    /\ attr => core \in {"bound", "shutdown", "unregistered", "put", "cleared"}
    /\ seen # None \/ woken => attr

BasicInv == TypeOK /\ CoreBasic /\ ClientInv /\ AnswerInv

\* The structure probe is working on.
CoreInv ==
    /\ core \in {"channel", "publish"} => state[bound] = "live" /\ refs[bound] = 0
    /\ core = "channel" => ~channel[bound]
    /\ core = "publish" => channel[bound]

\* What is counted is alive, and what is alive is counted.
CountInv ==
    \A o \in Objs :
        /\ refs[o] = Driver(o) + Cardinality(Holders(o))
        /\ refs[o] > 0 => state[o] = "live" /\ channel[o]
        /\ state[o] = "live" =>
              refs[o] > 0 \/ (bound = o /\ core \in {"channel", "publish"})
        /\ channel[o] => state[o] = "live"

HandleInv == CoreInv /\ CountInv

-----------------------------------------------------------------------------
(* At all times.                                                           *)

\* The start.
LEMMA BasicInit == Init => BasicInv
<1> SUFFICES ASSUME Init PROVE BasicInv
  OBVIOUS
<1>1. TypeOK
  BY HandleAssumption DEF Init, TypeOK, CorePcs, ClientPcs
<1>2. CoreBasic /\ ClientInv /\ AnswerInv
  BY DEF Init, CoreBasic, ClientInv, AnswerInv
<1> QED BY <1>1, <1>2 DEF BasicInv

\* Dropping a reference keeps the types.
LEMMA PutTypes ==
    ASSUME TypeOK, NEW o \in Objs, Put(o)
    PROVE  /\ state' \in [Objs -> {"none", "live", "freed"}]
           /\ channel' \in [Objs -> BOOLEAN] /\ refs' \in [Objs -> Nat]
<1>1. CASE Counted(o)
  <2>1. refs[o] \in Nat /\ refs[o] - 1 \in Nat
    BY <1>1 DEF TypeOK, Counted
  <2>2. refs' = [refs EXCEPT ![o] = refs[o] - 1]
    BY <1>1 DEF Put
  <2>3. refs' \in [Objs -> Nat]
    BY <2>1, <2>2 DEF TypeOK
  <2>4. channel' = [channel EXCEPT ![o] = channel[o] /\ refs[o] # 1]
    BY <1>1 DEF Put
  <2>5. (channel[o] /\ refs[o] # 1) \in BOOLEAN
    OBVIOUS
  <2>6. channel' \in [Objs -> BOOLEAN]
    BY <2>4, <2>5 DEF TypeOK
  <2>7. state' \in [Objs -> {"none", "live", "freed"}]
    BY <1>1 DEF Put, TypeOK
  <2> QED BY <2>3, <2>6, <2>7
<1>2. CASE ~Counted(o)
  BY <1>2 DEF Put, TypeOK, objects
<1> QED BY <1>1, <1>2

\* Steps of the driver core.
LEMMA BasicDevice ==
    ASSUME BasicInv, UNCHANGED misled,
           \/ \E o \in Objs : ProbeAlloc(o)
           \/ Device /\ UNCHANGED throttle
           \/ ProbeDone \/ CoreClearDrvdata
    PROVE  BasicInv'
<1> USE DEF BasicInv, TypeOK, CoreBasic, CorePcs, throttle, clients, notifier, objects
<1>1. UNCHANGED <<cpc, handle, npc, nfw, answer>>
  BY DEF Device, ProbeAlloc, ProbeChannel, ProbeChannelFails, ProbePublish, ProbeSetPdev,
     Shutdown, ShutdownDone, RemoveUnregister, RemovePut, RemoveClearPdev, ProbeDone,
     CoreClearDrvdata
<1>2. ClientInv'
  BY <1>1 DEF ClientInv
<1>3. AnswerInv'
  BY <1>1 DEF AnswerInv, Device, ProbeAlloc, ProbeChannel, ProbeChannelFails, ProbePublish,
     ProbeSetPdev, Shutdown, ShutdownDone, RemoveUnregister, RemovePut, RemoveClearPdev,
     ProbeDone, CoreClearDrvdata
<1>4. ASSUME NEW o \in Objs, ProbeAlloc(o) PROVE TypeOK' /\ CoreBasic'
  <2>1. /\ state' \in [Objs -> {"none", "live", "freed"}]
        /\ channel' \in [Objs -> BOOLEAN] /\ refs' \in [Objs -> Nat]
        /\ throttled' \in [Objs -> Values]
    BY <1>4, HandleAssumption DEF ProbeAlloc
  <2>2. core' = "channel" /\ bound' = o /\ core = "unbound"
        /\ UNCHANGED <<drvdata, g_pdev, hwmon, attr, seen, woken>>
    BY <1>4 DEF ProbeAlloc
  <2>3. CoreBasic'
    BY <1>1, <2>1, <2>2
  <2>4. TypeOK'
    BY <1>1, <2>1, <2>2
  <2> QED BY <2>3, <2>4
<1>5. CASE RemovePut /\ UNCHANGED throttle
  <2>1. bound \in Objs /\ Put(bound)
    BY <1>5 DEF RemovePut
  <2>2. /\ state' \in [Objs -> {"none", "live", "freed"}]
        /\ channel' \in [Objs -> BOOLEAN] /\ refs' \in [Objs -> Nat]
    <3> HIDE DEF TypeOK
    <3> QED BY <2>1, PutTypes
  <2>3. core = "unregistered" /\ core' = "put" /\ UNCHANGED <<bound, drvdata, g_pdev, hwmon>>
    BY <1>5 DEF RemovePut
  <2>4. CoreBasic'
    BY <1>1, <1>5, <2>2, <2>3
  <2>5. TypeOK'
    BY <1>1, <1>5, <2>2, <2>3
  <2> QED BY <1>2, <1>3, <2>4, <2>5
<1>6. CASE ProbeDone
  <2>1. /\ hwmon' \in BOOLEAN /\ attr' \in BOOLEAN /\ core = "query" /\ core' = "bound"
        /\ UNCHANGED <<bound, drvdata, g_pdev, objects, seen, woken>>
    BY <1>6 DEF ProbeDone
  <2>2. throttled' \in [Objs -> Values]
    BY <1>6 DEF ProbeDone
  <2>3. CoreBasic'
    BY <1>1, <2>1, <2>2
  <2>4. TypeOK'
    BY <1>1, <2>1, <2>2
  <2> QED BY <1>2, <1>3, <2>3, <2>4
<1>7. CASE CoreClearDrvdata
  <2>1. /\ drvdata' = None /\ bound' = None /\ core' = "unbound"
        /\ attr' = FALSE /\ seen' = None /\ woken' = FALSE
        /\ UNCHANGED <<g_pdev, hwmon, objects, throttled>>
    BY <1>7 DEF CoreClearDrvdata
  <2>2. CoreBasic'
    BY <1>1, <2>1
  <2>3. TypeOK'
    BY <1>1, <2>1
  <2> QED BY <1>2, <1>3, <2>2, <2>3
<1>8. CASE (ProbeChannel \/ ProbeChannelFails \/ ProbePublish) /\ UNCHANGED throttle
  <2>1. CoreBasic'
    BY <1>1, <1>8, HandleAssumption DEF ProbeChannel, ProbeChannelFails, ProbePublish
  <2>2. /\ state' \in [Objs -> {"none", "live", "freed"}]
        /\ channel' \in [Objs -> BOOLEAN] /\ refs' \in [Objs -> Nat]
    <3>1. CASE ProbeChannel
      BY <3>1 DEF ProbeChannel
    <3>2. CASE ProbeChannelFails
      BY <3>2 DEF ProbeChannelFails
    <3>3. CASE ProbePublish
      BY <3>3 DEF ProbePublish
    <3> QED BY <1>8, <3>1, <3>2, <3>3
  <2>3. core' \in CorePcs /\ bound' \in Objs \cup {None} /\ drvdata' \in Objs \cup {None}
        /\ UNCHANGED <<g_pdev, hwmon>>
    BY <1>8 DEF ProbeChannel, ProbeChannelFails, ProbePublish
  <2>4. TypeOK'
    BY <1>1, <1>8, <2>2, <2>3
  <2> QED BY <1>2, <1>3, <2>1, <2>4
<1>9. CASE (ProbeSetPdev \/ Shutdown \/ ShutdownDone \/ RemoveUnregister \/ RemoveClearPdev)
             /\ UNCHANGED throttle
  <2>1. CoreBasic'
    BY <1>1, <1>9
       DEF ProbeSetPdev, Shutdown, ShutdownDone, RemoveUnregister, RemoveClearPdev
  <2>2. core' \in CorePcs /\ bound' \in Objs \cup {None} /\ UNCHANGED objects
        /\ drvdata' = drvdata /\ g_pdev' \in BOOLEAN /\ hwmon' \in BOOLEAN
    BY <1>9 DEF ProbeSetPdev, Shutdown, ShutdownDone, RemoveUnregister, RemoveClearPdev
  <2>3. TypeOK'
    BY <1>1, <1>9, <2>2
  <2> QED BY <1>2, <1>3, <2>1, <2>3
<1> HIDE DEF TypeOK, CoreBasic, CorePcs, throttle, clients, notifier, objects
<1> QED BY <1>2, <1>3, <1>4, <1>5, <1>6, <1>7, <1>8, <1>9 DEF Device

\* Steps of a client, the notifier's, and those of who reads the attribute.
LEMMA BasicOthers ==
    ASSUME BasicInv,
           \/ \E c \in Clients : \/ Client(c) /\ UNCHANGED <<throttle, misled>>
                                 \/ Throttle(c) /\ UNCHANGED misled
                                 \/ GetFreed(c)
           \/ (NotifyBegin \/ NotifyRead \/ NotifyEnd) /\ UNCHANGED <<throttle, misled>>
           \/ (Show /\ UNCHANGED misled) \/ UNCHANGED vars
    PROVE  BasicInv'
<1> USE DEF BasicInv, TypeOK, ClientPcs, device, objects, clients, notifier, throttle
<1>1. UNCHANGED device
  BY DEF Client, GetRead, GetRef, GetNull, GetFreed, CallBegin, CallEnd, ClientPut, Throttle,
     CallEndThrottled, Compare, StoreThrottled, Notify, NotifyBegin, NotifyRead, NotifyEnd,
     Show, vars
<1>2. CoreBasic'
  BY <1>1 DEF CoreBasic
<1>3. ASSUME NEW c \in Clients,
             \/ /\ GetRead(c) \/ GetNull(c) \/ CallBegin(c) \/ CallEnd(c)
                /\ UNCHANGED <<throttle, misled>>
             \/ GetFreed(c)
      PROVE  BasicInv'
  <2>1. ClientInv' /\ AnswerInv'
    BY <1>1, <1>3, HandleAssumption
       DEF ClientInv, AnswerInv, GetRead, GetNull, GetFreed, CallBegin, CallEnd
  <2>2. TypeOK'
    <3>1. cpc' \in [Clients -> ClientPcs]
      <4>1. \/ cpc' = [cpc EXCEPT ![c] = "out"]
            \/ cpc' = [cpc EXCEPT ![c] = "upref"]
            \/ cpc' = [cpc EXCEPT ![c] = "held"]
            \/ cpc' = [cpc EXCEPT ![c] = "using"]
        BY <1>3 DEF GetRead, GetNull, GetFreed, CallBegin, CallEnd
      <4> QED BY <4>1
    <3>2. handle' \in [Clients -> Objs \cup {None}]
      <4>1. \/ handle' = [handle EXCEPT ![c] = None]
            \/ handle' = [handle EXCEPT ![c] = drvdata]
            \/ handle' = handle
        BY <1>3 DEF GetRead, GetNull, GetFreed, CallBegin, CallEnd
      <4> QED BY <4>1
    <3>3. /\ misled' \in BOOLEAN
          /\ UNCHANGED <<state, channel, refs, npc, nfw, throttled, answer, attr,
                         seen, woken>>
      BY <1>3 DEF GetRead, GetNull, GetFreed, CallBegin, CallEnd
    <3> QED BY <1>1, <3>1, <3>2, <3>3
  <2> HIDE DEF TypeOK
  <2> QED BY <1>2, <2>1, <2>2
<1>4. ASSUME NEW c \in Clients, GetRef(c), UNCHANGED <<throttle, misled>> PROVE BasicInv'
  <2>1. handle[c] \in Objs /\ refs[handle[c]] \in Nat
    BY <1>4 DEF ClientInv, GetRef
  <2>2. refs' \in [Objs -> Nat]
    BY <1>4, <2>1 DEF GetRef
  <2>3. ClientInv' /\ AnswerInv'
    BY <1>1, <1>4 DEF ClientInv, AnswerInv, GetRef
  <2>4. TypeOK'
    BY <1>1, <1>4, <2>2 DEF GetRef
  <2> HIDE DEF TypeOK
  <2> QED BY <1>2, <2>3, <2>4
<1>5. ASSUME NEW c \in Clients, ClientPut(c), UNCHANGED <<throttle, misled>> PROVE BasicInv'
  <2>1. handle[c] \in Objs /\ Put(handle[c])
    BY <1>5 DEF ClientInv, ClientPut
  <2>2. /\ state' \in [Objs -> {"none", "live", "freed"}]
        /\ channel' \in [Objs -> BOOLEAN] /\ refs' \in [Objs -> Nat]
    <3> HIDE DEF TypeOK
    <3> QED BY <2>1, PutTypes
  <2>3. ClientInv' /\ AnswerInv'
    BY <1>1, <1>5 DEF ClientInv, AnswerInv, ClientPut
  <2>4. TypeOK'
    BY <1>1, <1>5, <2>2 DEF ClientPut
  <2> HIDE DEF TypeOK
  <2> QED BY <1>2, <2>3, <2>4
<1>6. ASSUME NEW c \in Clients, Throttle(c), UNCHANGED misled PROVE BasicInv'
  <2>1. CASE StoreThrottled(c)
    <3>1. answer[c] \in Values /\ handle[c] \in Objs
      BY <2>1 DEF AnswerInv, ClientInv, StoreThrottled
    <3>2. throttled' \in [Objs -> Values]
      BY <2>1, <3>1 DEF StoreThrottled
    <3>3. ClientInv' /\ AnswerInv'
      BY <1>1, <2>1 DEF ClientInv, AnswerInv, StoreThrottled
    <3>4. TypeOK'
      BY <1>1, <1>6, <2>1, <3>2 DEF StoreThrottled
    <3> HIDE DEF TypeOK
    <3> QED BY <1>2, <3>3, <3>4
  <2>2. CASE CallEndThrottled(c)
    <3>1. ClientInv' /\ AnswerInv'
      BY <1>1, <2>2 DEF ClientInv, AnswerInv, CallEndThrottled
    <3>2. TypeOK'
      BY <1>1, <1>6, <2>2 DEF CallEndThrottled
    <3> HIDE DEF TypeOK
    <3> QED BY <1>2, <3>1, <3>2
  <2>3. CASE Compare(c)
    <3>1. ClientInv' /\ AnswerInv'
      BY <1>1, <2>3 DEF ClientInv, AnswerInv, Compare
    <3>2. cpc' \in [Clients -> ClientPcs] /\ answer' \in [Clients -> Values \cup {None}]
      BY <2>3 DEF Compare
    <3>3. TypeOK'
      BY <1>1, <1>6, <2>3, <3>2 DEF Compare
    <3> HIDE DEF TypeOK
    <3> QED BY <1>2, <3>1, <3>3
  <2>4. CASE Notify(c)
    <3>1. ClientInv' /\ AnswerInv'
      BY <1>1, <2>4 DEF ClientInv, AnswerInv, Notify
    <3>2. TypeOK'
      BY <1>1, <1>6, <2>4 DEF Notify
    <3> HIDE DEF TypeOK
    <3> QED BY <1>2, <3>1, <3>2
  <2> QED BY <1>6, <2>1, <2>2, <2>3, <2>4 DEF Throttle
<1>7. CASE (NotifyBegin \/ NotifyRead \/ NotifyEnd) /\ UNCHANGED <<throttle, misled>>
  BY <1>1, <1>2, <1>7 DEF NotifyBegin, NotifyRead, NotifyEnd, ClientInv, AnswerInv
<1>8. CASE Show /\ UNCHANGED misled
  BY <1>1, <1>2, <1>8 DEF Show, ClientInv, AnswerInv
<1>9. CASE UNCHANGED vars
  BY <1>1, <1>2, <1>9 DEF vars, ClientInv, AnswerInv
<1> HIDE DEF BasicInv, TypeOK, ClientPcs, device, objects, clients, notifier, throttle
<1> QED BY <1>3, <1>4, <1>5, <1>6, <1>7, <1>8, <1>9 DEF Client

\* Every step.
LEMMA BasicStep == BasicInv /\ [Next]_vars => BasicInv'
<1> SUFFICES ASSUME BasicInv, [Next]_vars PROVE BasicInv'
  OBVIOUS
<1>1. CASE \/ \E o \in Objs : ProbeAlloc(o) /\ UNCHANGED misled
           \/ Device /\ UNCHANGED throttle /\ UNCHANGED misled
           \/ (ProbeDone \/ CoreClearDrvdata) /\ UNCHANGED misled
  BY <1>1, BasicDevice
<1>2. CASE \/ \E c \in Clients : \/ Client(c) /\ UNCHANGED <<throttle, misled>>
                                 \/ Throttle(c) /\ UNCHANGED misled
                                 \/ GetFreed(c)
           \/ (NotifyBegin \/ NotifyRead \/ NotifyEnd) /\ UNCHANGED <<throttle, misled>>
           \/ (Show /\ UNCHANGED misled) \/ UNCHANGED vars
  BY <1>2, BasicOthers
<1> QED BY <1>1, <1>2 DEF Next, Sound

\* So it is at all times.
LEMMA BasicHolds == Spec => []BasicInv
  BY BasicInit, BasicStep, PTL DEF Spec

\* Variables keep their types, misled or not.
THEOREM TypeCorrect == Spec => []TypeOK
  BY BasicHolds, PTL DEF BasicInv

-----------------------------------------------------------------------------
(* Until a client is misled.                                               *)


\* The holders are among the clients, which are finitely many.
LEMMA HoldersFinite ==
    ASSUME NEW o
    PROVE  IsFiniteSet(Holders(o)) /\ Cardinality(Holders(o)) \in Nat
  BY FS_Subset, FS_CardinalityType, HandleAssumption DEF Holders

\* At the start there is nothing.
LEMMA HandleInit == Init => HandleInv
<1> SUFFICES ASSUME Init PROVE HandleInv
  OBVIOUS
<1>1. \A o \in Objs : Holders(o) = {} /\ Driver(o) = 0
  BY DEF Init, Holders, Holding, Driver
<1>2. CoreInv /\ CountInv
  BY <1>1, FS_EmptySet DEF Init, CoreInv, CountInv
<1> QED BY <1>2 DEF HandleInv

\* Probe takes new memory, or memory that was freed.
LEMMA HandleAlloc ==
    ASSUME BasicInv, BasicInv', HandleInv, NEW o \in Objs, ProbeAlloc(o)
    PROVE  HandleInv'
<1> USE DEF HandleInv, CoreInv
<1>1. /\ core = "unbound" /\ core' = "channel" /\ bound = None /\ bound' = o
      /\ state[o] # "live" /\ state' = [state EXCEPT ![o] = "live"]
      /\ channel' = [channel EXCEPT ![o] = FALSE] /\ refs' = [refs EXCEPT ![o] = 0]
      /\ UNCHANGED <<cpc, handle>>
  BY DEF ProbeAlloc, BasicInv, CoreBasic, clients
<1>2. \A p : Holders(p)' = Holders(p)
  BY <1>1 DEF Holders, Holding
<1>3. \A p \in Objs : Driver(p)' = Driver(p) /\ Driver(p) = 0
  BY <1>1 DEF Driver
<1>4. /\ state'[o] = "live" /\ ~channel'[o] /\ refs'[o] = 0
      /\ \A p \in Objs \ {o} :
            state'[p] = state[p] /\ channel'[p] = channel[p] /\ refs'[p] = refs[p]
  BY <1>1 DEF BasicInv, TypeOK
<1>5. refs[o] = 0
  BY <1>1 DEF CountInv, BasicInv, TypeOK
<1>6. CountInv'
  BY <1>1, <1>2, <1>3, <1>4, <1>5 DEF CountInv
<1>7. CoreInv'
  BY <1>1, <1>4
<1> QED BY <1>6, <1>7

\* Other steps of the driver core but those that count.
LEMMA HandleDevice ==
    ASSUME BasicInv, BasicInv', HandleInv,
           \/ ProbeChannel \/ ProbeChannelFails \/ ProbeSetPdev \/ Shutdown
           \/ ShutdownDone \/ RemoveUnregister \/ RemoveClearPdev
           \/ ProbeDone \/ CoreClearDrvdata
    PROVE  HandleInv'
<1> USE DEF HandleInv, CoreInv, clients, objects
<1>1. UNCHANGED <<cpc, handle, refs>>
  BY DEF ProbeChannel, ProbeChannelFails, ProbeSetPdev, Shutdown, ShutdownDone,
     RemoveUnregister, RemoveClearPdev, ProbeDone, CoreClearDrvdata
<1>2. \A o : Holders(o)' = Holders(o)
  BY <1>1 DEF Holders, Holding
<1>3. \A o \in Objs : Driver(o)' = Driver(o)
  BY HandleAssumption
     DEF Driver, BasicInv, CoreBasic, ProbeChannel, ProbeChannelFails, ProbeSetPdev, Shutdown,
     ShutdownDone, RemoveUnregister, RemoveClearPdev, ProbeDone, CoreClearDrvdata
<1>4. CASE ProbeChannel
  <2>1. PICK o \in Objs : o = bound
    BY <1>4 DEF ProbeChannel, BasicInv, CoreBasic
  <2>2. /\ core = "channel" /\ core' = "publish" /\ bound' = o /\ state' = state
        /\ channel' = [channel EXCEPT ![o] = TRUE] /\ state[o] = "live" /\ refs[o] = 0
    BY <1>4, <2>1 DEF ProbeChannel
  <2>3. channel'[o] /\ \A p \in Objs \ {o} : channel'[p] = channel[p]
    BY <2>2 DEF BasicInv, TypeOK
  <2>4. CountInv'
    BY <1>1, <1>2, <1>3, <2>1, <2>2, <2>3 DEF CountInv
  <2> QED BY <1>1, <2>2, <2>3, <2>4
<1>5. CASE ProbeChannelFails
  <2>1. PICK o \in Objs : o = bound
    BY <1>5 DEF ProbeChannelFails, BasicInv, CoreBasic
  <2>2. /\ refs[o] = 0 /\ ~channel[o] /\ state' = [state EXCEPT ![o] = "freed"]
        /\ core' = "unbound" /\ channel' = channel
    BY <1>5, <2>1 DEF ProbeChannelFails
  <2>3. state'[o] = "freed" /\ \A p \in Objs \ {o} : state'[p] = state[p]
    BY <2>2 DEF BasicInv, TypeOK
  <2>4. CountInv'
    BY <1>1, <1>2, <1>3, <2>1, <2>2, <2>3 DEF CountInv
  <2> QED BY <2>2, <2>4
<1>6. CASE \/ ProbeSetPdev \/ Shutdown \/ ShutdownDone \/ RemoveUnregister
           \/ RemoveClearPdev \/ ProbeDone \/ CoreClearDrvdata
  <2>1. UNCHANGED objects
    BY <1>6 DEF ProbeSetPdev, Shutdown, ShutdownDone, RemoveUnregister, RemoveClearPdev,
       ProbeDone, CoreClearDrvdata
  <2>2. core \notin {"channel", "publish"} /\ core' \notin {"channel", "publish"}
    BY <1>6 DEF ProbeSetPdev, Shutdown, ShutdownDone, RemoveUnregister, RemoveClearPdev,
       ProbeDone, CoreClearDrvdata
  <2>3. CountInv'
    BY <1>1, <1>2, <1>3, <2>1, <2>2 DEF CountInv
  <2> QED BY <2>2, <2>3
<1> QED BY <1>4, <1>5, <1>6

\* A reference is dropped by one who has it.
LEMMA PutKeeps ==
    ASSUME BasicInv, BasicInv', HandleInv, NEW o \in Objs, Put(o),
           refs[o] > 0,
           Driver(o)' + Cardinality(Holders(o)') = refs[o] - 1,
           \A p \in Objs \ {o} : Driver(p)' = Driver(p) /\ Holders(p)' = Holders(p),
           bound' = bound, core \notin {"channel", "publish"} \/ bound # o,
           core' = core \/ (core' \notin {"channel", "publish"} /\ bound = o)
    PROVE  HandleInv'
<1>1. refs[o] \in Nat /\ state[o] = "live" /\ channel[o]
  BY DEF BasicInv, TypeOK, HandleInv, CountInv
<1>2. /\ refs' = [refs EXCEPT ![o] = @ - 1]
      /\ channel' = [channel EXCEPT ![o] = @ /\ refs[o] # 1]
      /\ state' = [state EXCEPT ![o] = IF refs[o] = 1 THEN "freed" ELSE @]
  BY <1>1 DEF Put, Counted
<1>3. /\ refs'[o] = refs[o] - 1
      /\ channel'[o] <=> refs[o] # 1
      /\ state'[o] = IF refs[o] = 1 THEN "freed" ELSE "live"
  BY <1>1, <1>2 DEF BasicInv, TypeOK
<1>4. \A p \in Objs \ {o} :
         state'[p] = state[p] /\ channel'[p] = channel[p] /\ refs'[p] = refs[p]
  BY <1>2 DEF BasicInv, TypeOK
<1>5. ASSUME NEW p \in Objs \ {o}
      PROVE  /\ refs'[p] = Driver(p)' + Cardinality(Holders(p)')
             /\ refs'[p] > 0 => state'[p] = "live" /\ channel'[p]
             /\ state'[p] = "live" =>
                   refs'[p] > 0 \/ (bound' = p /\ core' \in {"channel", "publish"})
             /\ channel'[p] => state'[p] = "live"
  BY <1>4 DEF HandleInv, CountInv
<1>6. /\ refs'[o] = Driver(o)' + Cardinality(Holders(o)')
      /\ refs'[o] > 0 => state'[o] = "live" /\ channel'[o]
      /\ state'[o] = "live" => refs'[o] > 0
      /\ channel'[o] => state'[o] = "live"
  BY <1>1, <1>3
<1>7. CountInv'
  BY <1>5, <1>6 DEF CountInv
<1>8. CoreInv'
  BY <1>4 DEF HandleInv, CoreInv, BasicInv, CoreBasic
<1> QED BY <1>7, <1>8 DEF HandleInv

\* The driver's own reference.
LEMMA HandleOwn ==
    ASSUME BasicInv, BasicInv', HandleInv, ProbePublish \/ RemovePut
    PROVE  HandleInv'
<1> USE DEF HandleInv, CoreInv, clients
<1>1. UNCHANGED <<cpc, handle>>
  BY DEF ProbePublish, RemovePut
<1>2. \A o : Holders(o)' = Holders(o)
  BY <1>1 DEF Holders, Holding
<1>3. CASE ProbePublish
  <2>1. PICK o \in Objs : o = bound
    BY <1>3 DEF ProbePublish, BasicInv, CoreBasic
  <2>2. /\ core = "publish" /\ core' = "pdev" /\ bound' = o
        /\ refs' = [refs EXCEPT ![o] = 1] /\ UNCHANGED <<state, channel>>
    BY <1>3, <2>1 DEF ProbePublish
  <2>3. /\ Driver(o) = 0 /\ Driver(o)' = 1
        /\ \A p \in Objs \ {o} : Driver(p)' = Driver(p)
    BY <2>1, <2>2 DEF Driver
  <2>4. refs[o] = 0 /\ state[o] = "live" /\ channel[o]
    BY <2>1, <2>2
  <2>5. Cardinality(Holders(o)) = 0
    BY <2>3, <2>4, HoldersFinite DEF CountInv
  <2>6. refs'[o] = 1 /\ \A p \in Objs \ {o} : refs'[p] = refs[p]
    BY <2>2 DEF BasicInv, TypeOK
  <2>7. CountInv'
    BY <1>2, <2>1, <2>2, <2>3, <2>4, <2>5, <2>6 DEF CountInv
  <2> QED BY <2>2, <2>7
<1>4. CASE RemovePut
  <2>1. PICK o \in Objs : o = bound
    BY <1>4 DEF RemovePut, BasicInv, CoreBasic
  <2>2. Put(o) /\ core = "unregistered" /\ core' = "put" /\ bound' = bound
    BY <1>4, <2>1 DEF RemovePut
  <2>3. Driver(o) = 1 /\ Driver(o)' = 0
    BY <2>1, <2>2 DEF Driver
  <2>4. \A p \in Objs \ {o} : Driver(p)' = Driver(p)
    BY <2>1, <2>2 DEF Driver
  <2>5. refs[o] = 1 + Cardinality(Holders(o)) /\ Cardinality(Holders(o)) \in Nat
    BY <2>3, HoldersFinite DEF CountInv
  <2>6. refs[o] > 0 /\ Driver(o)' + Cardinality(Holders(o)') = refs[o] - 1
    BY <1>2, <2>3, <2>5
  <2> HIDE DEF HandleInv, CoreInv
  <2> QED BY <1>2, <2>1, <2>2, <2>4, <2>6, PutKeeps
<1> QED BY <1>3, <1>4

\* Steps of a client that neither take nor drop a reference, the notifier's,
\* and those of who reads the attribute.
LEMMA HandleIdle ==
    ASSUME HandleInv, BasicInv,
           \/ \E c \in Clients : \/ GetRead(c) \/ GetNull(c) \/ CallBegin(c) \/ CallEnd(c)
                                 \/ Throttle(c)
           \/ NotifyBegin \/ NotifyRead \/ NotifyEnd \/ Show \/ UNCHANGED vars
    PROVE  HandleInv'
<1> USE DEF device, objects, clients
<1>1. UNCHANGED <<device, objects>>
  BY DEF GetRead, GetNull, CallBegin, CallEnd, Throttle, CallEndThrottled, Compare,
     StoreThrottled, Notify, NotifyBegin, NotifyRead, NotifyEnd, Show, vars
<1>2. \A o : Holders(o)' = Holders(o)
  <2>1. CASE NotifyBegin \/ NotifyRead \/ NotifyEnd \/ Show \/ UNCHANGED vars
    BY <2>1 DEF NotifyBegin, NotifyRead, NotifyEnd, Show, vars, Holders, Holding
  <2>2. ASSUME NEW c \in Clients,
               GetRead(c) \/ GetNull(c) \/ CallBegin(c) \/ CallEnd(c) \/ Throttle(c)
        PROVE  \A o : Holders(o)' = Holders(o)
    BY <2>2 DEF GetRead, GetNull, CallBegin, CallEnd, Throttle, CallEndThrottled, Compare,
       StoreThrottled, Notify, Holders, Holding, BasicInv, TypeOK
  <2> QED BY <2>1, <2>2
<1> QED BY <1>1, <1>2 DEF HandleInv, CoreInv, CountInv, Driver

\* A client takes a reference of a structure that somebody else has.
LEMMA HandleGet ==
    ASSUME BasicInv, BasicInv', HandleInv, NEW c \in Clients, GetRef(c)
    PROVE  HandleInv'
<1>1. PICK o \in Objs : o = handle[c]
  BY DEF BasicInv, ClientInv, GetRef
<1>2. /\ refs' = [refs EXCEPT ![o] = refs[o] + 1] /\ refs[o] > 0
      /\ cpc' = [cpc EXCEPT ![c] = "held"] /\ cpc[c] = "upref"
      /\ UNCHANGED <<core, bound, state, channel, handle>>
  BY <1>1 DEF GetRef, Counted, device
<1>3. /\ Holders(o)' = Holders(o) \cup {c} /\ c \notin Holders(o)
      /\ \A p \in Objs \ {o} : Holders(p)' = Holders(p)
  BY <1>1, <1>2 DEF BasicInv, TypeOK, Holders, Holding
<1>4. Cardinality(Holders(o)') = Cardinality(Holders(o)) + 1
  BY <1>3, HoldersFinite, FS_AddElement
<1>5. \A p \in Objs : Driver(p)' = Driver(p) /\ Driver(p) \in {0, 1}
  BY <1>2 DEF Driver
<1>6. refs'[o] = refs[o] + 1 /\ refs[o] \in Nat /\ \A p \in Objs \ {o} : refs'[p] = refs[p]
  BY <1>2 DEF BasicInv, TypeOK
<1>7. refs'[o] = Driver(o)' + Cardinality(Holders(o)')
  BY <1>4, <1>5, <1>6, HoldersFinite DEF HandleInv, CountInv
<1>8. CountInv'
  <2>1. state[o] = "live" /\ channel[o]
    BY <1>2 DEF HandleInv, CountInv
  <2>2. \A p \in Objs \ {o} : refs'[p] = Driver(p)' + Cardinality(Holders(p)')
    BY <1>3, <1>5, <1>6 DEF HandleInv, CountInv
  <2> QED BY <1>2, <1>6, <1>7, <2>1, <2>2 DEF HandleInv, CountInv
<1>9. CoreInv'
  BY <1>2, <1>6 DEF HandleInv, CoreInv, BasicInv, CoreBasic
<1> QED BY <1>8, <1>9 DEF HandleInv

\* A client drops its reference.
LEMMA HandlePut ==
    ASSUME BasicInv, BasicInv', HandleInv, NEW c \in Clients, ClientPut(c)
    PROVE  HandleInv'
<1>1. PICK o \in Objs : o = handle[c]
  BY DEF BasicInv, ClientInv, ClientPut
<1>2. /\ Put(o)
      /\ cpc' = [cpc EXCEPT ![c] = "out"] /\ cpc[c] = "held"
      /\ handle' = [handle EXCEPT ![c] = None]
      /\ UNCHANGED <<core, bound>>
  BY <1>1 DEF ClientPut, device
<1>3. /\ Holders(o)' = Holders(o) \ {c} /\ c \in Holders(o)
      /\ \A p \in Objs \ {o} : Holders(p)' = Holders(p)
  BY <1>1, <1>2 DEF BasicInv, TypeOK, Holders, Holding
<1>4. Cardinality(Holders(o)') = Cardinality(Holders(o)) - 1
  BY <1>3, HoldersFinite, FS_RemoveElement
<1>5. Cardinality(Holders(o)) \in Nat /\ Cardinality(Holders(o)) # 0
  BY <1>3, HoldersFinite, FS_EmptySet
<1>6. \A p \in Objs : Driver(p)' = Driver(p) /\ Driver(p) \in {0, 1}
  BY <1>2 DEF Driver
<1>7. refs[o] = Driver(o) + Cardinality(Holders(o)) /\ refs[o] > 0
  BY <1>5, <1>6 DEF HandleInv, CountInv
<1>8. core \notin {"channel", "publish"} \/ bound # o
  BY <1>7 DEF HandleInv, CoreInv
<1>9. Driver(o)' + Cardinality(Holders(o)') = refs[o] - 1
  BY <1>4, <1>5, <1>6, <1>7
<1> QED BY <1>2, <1>3, <1>6, <1>7, <1>8, <1>9, PutKeeps

\* The references are accounted for until a client is misled.
LEMMA HandleHolds == Spec => [](~misled => HandleInv)
<1>1. BasicInv /\ BasicInv' /\ (~misled => HandleInv) /\ [Next]_vars
        => (~misled => HandleInv)'
  <2> SUFFICES ASSUME BasicInv, BasicInv', ~misled => HandleInv, [Next]_vars, ~misled'
               PROVE  HandleInv'
    OBVIOUS
  <2>1. (Sound /\ UNCHANGED misled) \/ UNCHANGED vars
    BY DEF Next, GetFreed
  <2>2. HandleInv
    BY <2>1 DEF vars
  <2>3. CASE UNCHANGED vars
    BY <2>2, <2>3, HandleIdle
  <2>4. CASE Sound
    BY <2>2, <2>4, HandleAlloc, HandleDevice, HandleOwn, HandleIdle, HandleGet, HandlePut
       DEF Sound, Device, Client
  <2> QED BY <2>1, <2>3, <2>4
<1>2. Init => (~misled => HandleInv)
  BY HandleInit
<1> QED BY <1>1, <1>2, BasicHolds, PTL DEF Spec

\* The count is the number of holders and the driver, and with it memory is
\* freed once, used by probe after probe, until a get finds freed memory.
THEOREM CountsHolders == Spec => []RefsAreHolders
<1>1. (~misled => HandleInv) => RefsAreHolders
  BY DEF HandleInv, CountInv, RefsAreHolders
<1> QED BY <1>1, HandleHolds, PTL

\* A holder's structure is alive and has its channel, with that exception.
THEOREM KeepsFw == Spec => []HandleKeepsFw
<1>1. BasicInv /\ (~misled => HandleInv) => HandleKeepsFw
  <2> SUFFICES ASSUME BasicInv, HandleInv, ~misled PROVE HandleKeepsFw
    BY DEF HandleKeepsFw
  <2>1. ASSUME NEW c \in Clients, Holding(c)
        PROVE  state[handle[c]] = "live" /\ channel[handle[c]]
    <3>1. PICK o \in Objs : o = handle[c]
      BY <2>1 DEF BasicInv, ClientInv, Holding
    <3>2. c \in Holders(o)
      BY <2>1, <3>1 DEF Holders
    <3>3. Cardinality(Holders(o)) \in Nat /\ Cardinality(Holders(o)) # 0
      BY <3>2, HoldersFinite, FS_EmptySet
    <3>4. refs[o] > 0
      BY <3>3 DEF HandleInv, CountInv, Driver
    <3> QED BY <3>1, <3>4 DEF HandleInv, CountInv
  <2>2. ASSUME core \in {"query", "bound", "shutdown", "unregistered"}
        PROVE  state[bound] = "live" /\ channel[bound]
    <3>1. PICK o \in Objs : o = bound
      BY <2>2 DEF BasicInv, CoreBasic
    <3>2. refs[o] > 0
      BY <2>2, <3>1, HoldersFinite DEF HandleInv, CountInv, Driver
    <3> QED BY <3>1, <3>2 DEF HandleInv, CountInv
  <2> QED BY <2>1, <2>2 DEF HandleKeepsFw
<1> QED BY <1>1, BasicHolds, HandleHolds, PTL

-----------------------------------------------------------------------------
\* Whoever polls get_throttled is told of every change, also when callers were
\* misled.
THEOREM TellsPollers == Spec => []PollersAreTold
<1>1. Init => PollersAreTold
  BY DEF Init, PollersAreTold
<1>2. BasicInv /\ PollersAreTold /\ [Next]_vars => PollersAreTold'
  <2> SUFFICES ASSUME BasicInv, PollersAreTold, [Next]_vars
               PROVE  PollersAreTold'
    OBVIOUS
  <2>1. CASE UNCHANGED vars
    BY <2>1 DEF vars, device, objects, clients, throttle, PollersAreTold
  <2>2. CASE Device /\ UNCHANGED throttle
    <3>1. UNCHANGED clients
      BY <2>2 DEF Device, ProbeChannel, ProbeChannelFails, ProbePublish,
         ProbeSetPdev, Shutdown, ShutdownDone, RemoveUnregister, RemovePut, RemoveClearPdev
    <3>2. attr => UNCHANGED drvdata
      BY <2>2 DEF Device, ProbeChannel, ProbeChannelFails, ProbePublish,
         ProbeSetPdev, Shutdown, ShutdownDone, RemoveUnregister, RemovePut, RemoveClearPdev,
         BasicInv, AnswerInv
    <3>3. attr /\ state'[drvdata] = "live" => state[drvdata] = "live"
      <4>1. CASE RemovePut
        <5>1. bound \in Objs /\ bound = drvdata /\ Put(bound)
          BY <4>1 DEF RemovePut, BasicInv, CoreBasic
        <5> QED BY <5>1 DEF Put, Counted, objects
      <4>2. CASE ~RemovePut /\ attr
        BY <2>2, <4>2 DEF Device, ProbeChannel, ProbeChannelFails, ProbePublish,
           ProbeSetPdev, Shutdown, ShutdownDone, RemoveUnregister, RemoveClearPdev,
           BasicInv, AnswerInv, objects
      <4> QED BY <4>1, <4>2
    <3> QED BY <2>2, <3>1, <3>2, <3>3 DEF throttle, clients, PollersAreTold
  <2>3. ASSUME NEW c \in Clients, Client(c), UNCHANGED throttle PROVE PollersAreTold'
    <3>1. drvdata' = drvdata
      BY <2>3 DEF Client, GetRead, GetRef, GetNull, CallBegin, CallEnd, ClientPut, device
    <3>2. \A d \in Clients : cpc[d] = "notify" => cpc'[d] = "notify" /\ handle'[d] = handle[d]
      BY <2>3 DEF Client, GetRead, GetRef, GetNull, CallBegin, CallEnd, ClientPut,
         BasicInv, TypeOK
    <3>3. attr /\ state'[drvdata] = "live" => state[drvdata] = "live"
      <4>0. attr => drvdata \in Objs
        BY DEF BasicInv, CoreBasic, AnswerInv
      <4>1. CASE ClientPut(c)
        <5>1. handle[c] \in Objs /\ Put(handle[c])
          BY <4>1 DEF ClientPut, BasicInv, ClientInv
        <5>2. state' = state \/ state' = [state EXCEPT ![handle[c]] = "freed"]
               \/ state' = [state EXCEPT ![handle[c]] = state[handle[c]]]
          BY <5>1 DEF Put, objects
        <5> QED BY <4>0, <5>1, <5>2 DEF BasicInv, TypeOK
      <4>2. CASE ~ClientPut(c)
        BY <2>3, <4>2 DEF Client, GetRead, GetRef, GetNull, CallBegin, CallEnd, objects
      <4> QED BY <4>1, <4>2
    <3> QED BY <2>3, <3>1, <3>2, <3>3 DEF throttle, PollersAreTold
  <2>4. CASE (NotifyBegin \/ NotifyRead \/ NotifyEnd) /\ UNCHANGED throttle
    BY <2>4 DEF NotifyBegin, NotifyRead, NotifyEnd, device, objects, clients, throttle,
       PollersAreTold
  <2>5. CASE ProbeDone \/ \E o \in Objs : ProbeAlloc(o)
    <3>1. seen' = None
      BY <2>5 DEF ProbeDone, ProbeAlloc, BasicInv, AnswerInv
    <3> QED BY <3>1 DEF PollersAreTold
  <2>6. CASE CoreClearDrvdata
    BY <2>6 DEF CoreClearDrvdata, PollersAreTold
  <2>7. ASSUME NEW c \in Clients, Throttle(c) PROVE PollersAreTold'
    <3>1. UNCHANGED <<drvdata, state, handle, attr, seen>>
      BY <2>7 DEF Throttle, CallEndThrottled, Compare, StoreThrottled, Notify, device, objects
    <3>2. CASE Notify(c)
      BY <3>1, <3>2 DEF Notify, PollersAreTold
    <3>3. CASE CallEndThrottled(c) \/ Compare(c)
      <4>1. UNCHANGED <<throttled, woken>>
        BY <3>3 DEF CallEndThrottled, Compare
      <4>2. \A d \in Clients : cpc[d] = "notify" => cpc'[d] = "notify"
        BY <3>3 DEF CallEndThrottled, Compare, BasicInv, TypeOK
      <4> QED BY <3>1, <4>1, <4>2 DEF PollersAreTold
    <3>4. CASE StoreThrottled(c)
      <4>1. /\ \A d \in Clients : cpc[d] = "notify" => cpc'[d] = "notify"
            /\ cpc'[c] = "notify" /\ woken' = woken
        BY <3>4 DEF StoreThrottled, BasicInv, TypeOK
      <4>2. drvdata # handle[c] => throttled'[drvdata] = throttled[drvdata]
        BY <3>4 DEF StoreThrottled, BasicInv, TypeOK
      <4> QED BY <3>1, <4>1, <4>2 DEF PollersAreTold
    <3> QED BY <2>7, <3>2, <3>3, <3>4 DEF Throttle
  <2>8. CASE Show
    BY <2>8 DEF Show, device, objects, PollersAreTold
  <2>9. ASSUME NEW c \in Clients, GetFreed(c) PROVE PollersAreTold'
    <3>1. \A d \in Clients : cpc[d] = "notify" => cpc'[d] = "notify"
      BY <2>9 DEF GetFreed, BasicInv, TypeOK
    <3> QED BY <2>9, <3>1 DEF GetFreed, device, objects, throttle, PollersAreTold
  <2> QED BY <2>1, <2>2, <2>3, <2>4, <2>5, <2>6, <2>7, <2>8, <2>9 DEF Next, Sound
<1> QED BY <1>1, <1>2, BasicHolds, PTL DEF Spec
=============================================================================
