------------------------ MODULE RpiFirmwareHandle ------------------------
(***************************************************************************)
(* The life of struct rpi_firmware in one guest: the platform driver       *)
(* creates one in probe and drops its reference in remove; other drivers   *)
(* get and put references; the reboot notifier finds the structure through *)
(* g_pdev and the driver data.  A property call is a stay in a state that  *)
(* uses the structure (RpiFirmware models what happens inside it); what is *)
(* left of GET_THROTTLED after it, a value kept in the structure that can  *)
(* be read and polled through sysfs, is here.                              *)
(*                                                                         *)
(* Memory that was freed may be handed out again, to a later probe or to   *)
(* anybody else: what is read of a freed structure may be anything, and a  *)
(* reference that is taken there counts nothing (misled).                  *)
(*                                                                         *)
(* The driver core runs probe, remove and shutdown of the device one at a  *)
(* time (it holds the device lock), and clears the driver data when a      *)
(* probe failed or a remove is done.                                       *)
(***************************************************************************)
EXTENDS Naturals, FiniteSets

CONSTANTS
    Objs,      \* the structures kzalloc may return
    Clients,   \* threads of other drivers
    Values,    \* what GET_THROTTLED may give; kzalloc leaves 0
    None       \* NULL

ASSUME HandleAssumption ==
    /\ None \notin Objs \cup Clients \cup Values
    /\ 0 \in Values
    /\ IsFiniteSet(Clients)

VARIABLES
    core,      \* where the driver core is with the device
    bound,     \* the local variable fw of probe or remove
    state,     \* state[o]: not allocated yet, live, or freed
    channel,   \* channel[o]: o holds the mailbox channel
    refs,      \* refs[o]: kref consumers
    drvdata,   \* the platform device's driver data
    g_pdev,    \* g_pdev is not NULL
    hwmon,     \* rpi_hwmon is a registered device
    cpc,       \* cpc[c]: where client c is
    handle,    \* handle[c]: the pointer c works with
    npc,       \* where the reboot notifier is
    nfw,       \* its local variable fw
    throttled, \* throttled[o]: o's get_throttled
    answer,    \* answer[c]: the caller's tag data after the call
    attr,      \* the attribute get_throttled is in sysfs
    seen,      \* what a process that polls it has read
    woken,     \* sysfs_notify() has told it to read again
    misled     \* history: a client has taken a reference in freed memory

device   == <<core, bound, drvdata, g_pdev, hwmon>>
objects  == <<state, channel, refs>>
clients  == <<cpc, handle>>
notifier == <<npc, nfw>>
throttle == <<throttled, answer, attr, seen, woken>>
vars     == <<device, objects, clients, notifier, throttle, misled>>

CorePcs   == {"unbound", "channel", "publish", "pdev", "query", "bound",
              "shutdown", "unregistered", "put", "cleared"}
ClientPcs == {"out", "upref", "held", "using", "compare", "store", "notify"}

Init ==
    /\ core = "unbound" /\ bound = None /\ drvdata = None
    /\ g_pdev = FALSE /\ hwmon = FALSE
    /\ state = [o \in Objs |-> "none"]
    /\ channel = [o \in Objs |-> FALSE]
    /\ refs = [o \in Objs |-> 0]
    /\ cpc = [c \in Clients |-> "out"] /\ handle = [c \in Clients |-> None]
    /\ npc = "idle" /\ nfw = None
    /\ throttled = [o \in Objs |-> 0] /\ answer = [c \in Clients |-> None]
    /\ attr = FALSE /\ seen = None /\ woken = FALSE /\ misled = FALSE

-----------------------------------------------------------------------------
(* Reference counting.                                                     *)

Counted(o) == state[o] = "live" /\ refs[o] > 0

\* Mutant of Put: the channel is freed, the structure is not.
PutLeaks(o) ==
    IF Counted(o)
      THEN /\ refs' = [refs EXCEPT ![o] = @ - 1]
           /\ channel' = [channel EXCEPT ![o] = @ /\ refs[o] # 1]
           /\ state' = state
      ELSE UNCHANGED objects

\* rpi_firmware_put(): kref_put(), and rpi_firmware_delete() at zero.  Putting
\* what is freed or was never taken changes no count (what else it does to
\* memory is beyond this model).
Put(o) ==
    IF Counted(o)
      THEN /\ refs' = [refs EXCEPT ![o] = @ - 1]
           /\ channel' = [channel EXCEPT ![o] = @ /\ refs[o] # 1]
           /\ state' = [state EXCEPT ![o] = IF refs[o] = 1 THEN "freed" ELSE @]
      ELSE UNCHANGED objects

-----------------------------------------------------------------------------
(* rpi_firmware_probe(), _remove() and _shutdown().                        *)

\* kzalloc(); when it fails nothing has happened.
ProbeAlloc(o) ==
    /\ core = "unbound" /\ state[o] # "live"
    /\ state' = [state EXCEPT ![o] = "live"]
    /\ channel' = [channel EXCEPT ![o] = FALSE]
    /\ refs' = [refs EXCEPT ![o] = 0]
    /\ throttled' = [throttled EXCEPT ![o] = 0]
    /\ core' = "channel" /\ bound' = o
    /\ UNCHANGED <<drvdata, g_pdev, hwmon, clients, notifier, answer, attr,
                   seen, woken>>

\* mbox_request_channel()
ProbeChannel ==
    /\ core = "channel"
    /\ channel' = [channel EXCEPT ![bound] = TRUE]
    /\ core' = "publish"
    /\ UNCHANGED <<bound, state, refs, drvdata, g_pdev, hwmon, clients, notifier>>

\* ... fails (or asks for a later probe): kfree(fw).
ProbeChannelFails ==
    /\ core = "channel"
    /\ state' = [state EXCEPT ![bound] = "freed"]
    /\ core' = "unbound" /\ bound' = None
    /\ UNCHANGED <<channel, refs, drvdata, g_pdev, hwmon, clients, notifier>>

\* kref_init(), then platform_set_drvdata(): from here on clients find it.
ProbePublish ==
    /\ core = "publish"
    /\ refs' = [refs EXCEPT ![bound] = 1]
    /\ drvdata' = bound
    /\ core' = "pdev"
    /\ UNCHANGED <<bound, state, channel, g_pdev, hwmon, clients, notifier>>

\* g_pdev = pdev, and the property calls of probe begin.
ProbeSetPdev ==
    /\ core = "pdev"
    /\ g_pdev' = TRUE /\ core' = "query"
    /\ UNCHANGED <<bound, drvdata, hwmon, objects, clients, notifier>>

\* They end; hwmon is registered if GET_THROTTLED and the registration
\* succeed, then the attribute is added.  Probe returns 0 in any case.
ProbeDone ==
    /\ core = "query"
    /\ hwmon' \in BOOLEAN /\ attr' \in {a \in BOOLEAN : a => hwmon'}
    /\ \E v \in Values : throttled' = [throttled EXCEPT ![bound] = v]
    /\ core' = "bound"
    /\ UNCHANGED <<bound, drvdata, g_pdev, objects, clients, notifier, answer, seen, woken>>

Shutdown ==
    /\ core = "bound" /\ drvdata # None
    /\ core' = "shutdown"
    /\ UNCHANGED <<bound, drvdata, g_pdev, hwmon, objects, clients, notifier>>

ShutdownDone ==
    /\ core = "shutdown" /\ core' = "bound"
    /\ UNCHANGED <<bound, drvdata, g_pdev, hwmon, objects, clients, notifier>>

\* remove: fw is read, hwmon and clk are unregistered ...
RemoveUnregister ==
    /\ core = "bound"
    /\ bound' = drvdata /\ hwmon' = FALSE
    /\ core' = "unregistered"
    /\ UNCHANGED <<drvdata, g_pdev, objects, clients, notifier>>

\* ... the driver's reference is dropped ...
RemovePut ==
    /\ core = "unregistered"
    /\ Put(bound)
    /\ core' = "put"
    /\ UNCHANGED <<bound, drvdata, g_pdev, hwmon, clients, notifier>>

\* ... g_pdev = NULL ...
RemoveClearPdev ==
    /\ core = "put"
    /\ g_pdev' = FALSE /\ core' = "cleared"
    /\ UNCHANGED <<bound, drvdata, hwmon, objects, clients, notifier>>

\* ... and the driver core takes the attribute away, which ends all polls,
\* and clears the driver data.
CoreClearDrvdata ==
    /\ core = "cleared"
    /\ drvdata' = None /\ bound' = None /\ core' = "unbound"
    /\ attr' = FALSE /\ seen' = None /\ woken' = FALSE
    /\ UNCHANGED <<g_pdev, hwmon, objects, clients, notifier, throttled, answer>>

-----------------------------------------------------------------------------
(* rpi_firmware_get(), devm_rpi_firmware_get() and rpi_firmware_put().     *)

\* fw = platform_get_drvdata(pdev), not NULL.
GetRead(c) ==
    /\ cpc[c] = "out" /\ drvdata # None
    /\ handle' = [handle EXCEPT ![c] = drvdata]
    /\ cpc' = [cpc EXCEPT ![c] = "upref"]
    /\ UNCHANGED <<device, objects, notifier>>

\* Mutant of GetRef: kref_get(), which does not look at the count.
GetRefAlways(c) ==
    /\ cpc[c] = "upref" /\ state[handle[c]] = "live"
    /\ refs' = [refs EXCEPT ![handle[c]] = @ + 1]
    /\ cpc' = [cpc EXCEPT ![c] = "held"]
    /\ UNCHANGED <<device, state, channel, handle, notifier>>

\* kref_get_unless_zero(&fw->consumers) succeeds ...
GetRef(c) ==
    /\ cpc[c] = "upref" /\ Counted(handle[c])
    /\ refs' = [refs EXCEPT ![handle[c]] = @ + 1]
    /\ cpc' = [cpc EXCEPT ![c] = "held"]
    /\ UNCHANGED <<device, state, channel, handle, notifier>>

\* ... or it finds zero and the caller gets NULL.  The structure may have been
\* freed since the driver data was read: then anything may be found, zero ...
GetNull(c) ==
    /\ cpc[c] = "upref" /\ ~Counted(handle[c])
    /\ handle' = [handle EXCEPT ![c] = None]
    /\ cpc' = [cpc EXCEPT ![c] = "out"]
    /\ UNCHANGED <<device, objects, notifier>>

\* ... or not: the caller gets a handle that keeps nothing.
GetFreed(c) ==
    /\ cpc[c] = "upref" /\ state[handle[c]] = "freed"
    /\ cpc' = [cpc EXCEPT ![c] = "held"]
    /\ misled' = TRUE
    /\ UNCHANGED <<handle, device, objects, notifier, throttle>>

CallBegin(c) ==
    /\ cpc[c] = "held" /\ cpc' = [cpc EXCEPT ![c] = "using"]
    /\ UNCHANGED <<handle, device, objects, notifier>>

CallEnd(c) ==
    /\ cpc[c] = "using" /\ cpc' = [cpc EXCEPT ![c] = "held"]
    /\ UNCHANGED <<handle, device, objects, notifier>>

\* It was GET_THROTTLED: the tag data is the firmware's answer or, if the call
\* failed, what the caller had in it.
CallEndThrottled(c) ==
    /\ cpc[c] = "using" /\ cpc' = [cpc EXCEPT ![c] = "compare"]
    /\ \E v \in Values : answer' = [answer EXCEPT ![c] = v]
    /\ UNCHANGED <<handle, device, objects, notifier, throttled, attr, seen, woken>>

\* memcmp(&fw->get_throttled, tag_data, ...), under no lock; a structure that is
\* freed may hold anything.
Compare(c) ==
    /\ cpc[c] = "compare"
    /\ \/ /\ state[handle[c]] = "live" => throttled[handle[c]] = answer[c]
          /\ cpc' = [cpc EXCEPT ![c] = "held"] /\ answer' = [answer EXCEPT ![c] = None]
       \/ /\ state[handle[c]] = "live" => throttled[handle[c]] # answer[c]
          /\ cpc' = [cpc EXCEPT ![c] = "store"] /\ answer' = answer
    /\ UNCHANGED <<handle, device, objects, notifier, throttled, attr, seen, woken>>

\* Mutant of StoreThrottled: the value is stored and nobody is told.
StoreQuietly(c) ==
    /\ cpc[c] = "store"
    /\ throttled' = [throttled EXCEPT ![handle[c]] = answer[c]]
    /\ answer' = [answer EXCEPT ![c] = None]
    /\ cpc' = [cpc EXCEPT ![c] = "held"]
    /\ UNCHANGED <<handle, device, objects, notifier, attr, seen, woken>>

\* memcpy(&fw->get_throttled, tag_data, ...)
StoreThrottled(c) ==
    /\ cpc[c] = "store"
    /\ throttled' = [throttled EXCEPT ![handle[c]] = answer[c]]
    /\ answer' = [answer EXCEPT ![c] = None]
    /\ cpc' = [cpc EXCEPT ![c] = "notify"]
    /\ UNCHANGED <<handle, device, objects, notifier, attr, seen, woken>>

\* sysfs_notify()
Notify(c) ==
    /\ cpc[c] = "notify" /\ cpc' = [cpc EXCEPT ![c] = "held"]
    /\ woken' = (seen # None)
    /\ UNCHANGED <<handle, device, objects, notifier, throttled, answer, attr, seen>>

\* get_throttled_show(), for a process that goes on to poll: at first, and
\* when it has been woken.  Remove frees the structure before the attribute
\* goes: then anything may be read.
Show ==
    /\ (attr /\ seen = None) \/ woken
    /\ seen' \in Values /\ woken' = FALSE
    /\ state[drvdata] = "live" => seen' = throttled[drvdata]
    /\ UNCHANGED <<device, objects, clients, notifier, throttled, answer, attr>>

\* rpi_firmware_put(), called by the client, by devm when its device goes,
\* or at once by devm_add_action_or_reset() when it fails.
ClientPut(c) ==
    /\ cpc[c] = "held"
    /\ Put(handle[c])
    /\ handle' = [handle EXCEPT ![c] = None]
    /\ cpc' = [cpc EXCEPT ![c] = "out"]
    /\ UNCHANGED <<device, notifier>>

-----------------------------------------------------------------------------
(* rpi_firmware_notify_reboot()                                            *)

\* if (!pdev) return 0
NotifyBegin ==
    /\ npc = "idle" /\ g_pdev
    /\ npc' = "pdev"
    /\ UNCHANGED <<nfw, device, objects, clients>>

\* fw = platform_get_drvdata(pdev); if (!fw) return 0
NotifyRead ==
    /\ npc = "pdev"
    /\ nfw' = drvdata
    /\ npc' = IF drvdata = None THEN "idle" ELSE "call"
    /\ UNCHANGED <<device, objects, clients>>

\* The property calls are over.
NotifyEnd ==
    /\ npc = "call"
    /\ npc' = "idle" /\ nfw' = None
    /\ UNCHANGED <<device, objects, clients>>

-----------------------------------------------------------------------------
Device ==
    \/ ProbeChannel \/ ProbeChannelFails \/ ProbePublish \/ ProbeSetPdev
    \/ Shutdown \/ ShutdownDone
    \/ RemoveUnregister \/ RemovePut \/ RemoveClearPdev

Client(c) ==
    GetRead(c) \/ GetRef(c) \/ GetNull(c) \/ CallBegin(c) \/ CallEnd(c)
      \/ ClientPut(c)

Throttle(c) ==
    CallEndThrottled(c) \/ Compare(c) \/ StoreThrottled(c) \/ Notify(c)

Sound ==
    \/ /\ UNCHANGED throttle
       /\ \/ Device
          \/ \E c \in Clients : Client(c)
          \/ NotifyBegin \/ NotifyRead \/ NotifyEnd
    \/ \E o \in Objs : ProbeAlloc(o)
    \/ ProbeDone \/ CoreClearDrvdata
    \/ \E c \in Clients : Throttle(c)
    \/ Show

Next == (Sound /\ UNCHANGED misled) \/ \E c \in Clients : GetFreed(c)

Spec == Init /\ [][Next]_vars

-----------------------------------------------------------------------------
(* Properties.                                                             *)

TypeOK ==
    /\ core \in CorePcs /\ bound \in Objs \cup {None}
    /\ drvdata \in Objs \cup {None} /\ g_pdev \in BOOLEAN /\ hwmon \in BOOLEAN
    /\ state \in [Objs -> {"none", "live", "freed"}]
    /\ channel \in [Objs -> BOOLEAN] /\ refs \in [Objs -> Nat]
    /\ cpc \in [Clients -> ClientPcs]
    /\ handle \in [Clients -> Objs \cup {None}]
    /\ npc \in {"idle", "pdev", "call"} /\ nfw \in Objs \cup {None}
    /\ throttled \in [Objs -> Values]
    /\ answer \in [Clients -> Values \cup {None}]
    /\ attr \in BOOLEAN /\ seen \in Values \cup {None} /\ woken \in BOOLEAN
    /\ misled \in BOOLEAN

Holding(c) == cpc[c] \notin {"out", "upref"}
Holders(o) == {c \in Clients : Holding(c) /\ handle[c] = o}

\* The driver's own reference is alive from kref_init() to remove's put.
Driver(o) ==
    IF bound = o /\ core \in {"pdev", "query", "bound", "shutdown", "unregistered"}
      THEN 1 ELSE 0

\* Who holds a handle, and the driver itself while it is bound, finds the
\* structure allocated and its channel open: "Memory will be freed by
\* rpi_firmware_delete() once all users have released their firmware handles."
\* It is so until rpi_firmware_get() first takes a reference in memory that
\* remove has freed; it can do so only if remove dropped the last reference
\* between its two reads.
HandleKeepsFw ==
    ~misled =>
      /\ \A c \in Clients : Holding(c) =>
            state[handle[c]] = "live" /\ channel[handle[c]]
      /\ core \in {"query", "bound", "shutdown", "unregistered"} =>
            state[bound] = "live" /\ channel[bound]

\* Every structure that is allocated and published is on somebody's account:
\* the count is the driver's reference plus one per holder, so nothing leaks
\* and nothing is freed twice, though memory is used again and again; with the
\* same exception.
RefsAreHolders ==
    ~misled => \A o \in Objs :
        /\ refs[o] = Driver(o) + Cardinality(Holders(o))
        /\ state[o] = "live" =>
              refs[o] > 0 \/ (bound = o /\ core \in {"channel", "publish"})
        /\ channel[o] => state[o] = "live"

\* Nobody polls a stale value: while get_throttled is not what the process has
\* read, it is told to read again or somebody is about to tell it, however
\* callers that compare and store under no lock overtake each other, and even
\* when one of them was misled.
PollersAreTold ==
    attr /\ seen # None /\ state[drvdata] = "live" /\ seen # throttled[drvdata] =>
        \/ woken
        \/ \E c \in Clients : cpc[c] = "notify" /\ handle[c] = drvdata

\* The notifier, too, calls the firmware on a structure that exists.
NotifierFindsFw == npc = "call" => state[nfw] = "live"
=============================================================================
