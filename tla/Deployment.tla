----------------------------- MODULE Deployment -----------------------------
(***************************************************************************)
(* From a configuration to running guests.  The hypervisor, which is       *)
(* outside this repository, gives each processor to a VM: first to one     *)
(* whose cpu_affinity names it, and when every processor has tried that,   *)
(* the rest to VMs that still lack some.  A VM starts when it has all its  *)
(* processors.  Its guest then takes from its device tree where memory,    *)
(* devices and the channel are, and the driver of the channel checks the   *)
(* layout it finds.                                                        *)
(***************************************************************************)
EXTENDS BaoConfig

CONSTANTS
    Deployments, \* what is deployed: a name, the processors of the platform,
                 \* a configuration, whether the platform maps memory at its
                 \* own address (mpu), where the images are put (flash), by
                 \* name, and the device trees of the VMs
    Trials,      \* Trials[n]: nodes nobody wrote that VM 1 of n may find
    Shared,      \* spans that two VMs are meant to share
    Contested,   \* the names of the files whose VMs are not kept apart,
    Unbacked,    \* of those that do not have what a guest's tree says,
    Doubled,     \* and of those that list something twice for one VM
    MaxDevices,  \* MAX_DEVICES of the Linux driver
    Width        \* 2^32 bytes in pages

\* A node of the channel: its window is not beyond 32 bits, and neither are
\* the numbers in it.
Nodes ==
    LET Word == 0 .. Width - 1 IN
    [base : Nat, pages : 0 .. Width, read : Word \X Word, write : Word \X Word,
     irq : Nat, id : Int]

ASSUME DeploymentAssumption ==
    /\ \A d \in Deployments :
          /\ d.cpus \in Nat /\ d.mpu \in BOOLEAN
          /\ Len(d.config.vms) \in Nat
          /\ DOMAIN d.config.vms = 1 .. Len(d.config.vms)
          /\ \A v \in DOMAIN d.config.vms :
               LET vm == d.config.vms[v] IN
               /\ vm.cpus \in Nat
               /\ \A r \in Elems(vm.regions) : r.base \in Nat /\ r.pages \in Nat
               /\ \A e \in Elems(vm.devs) : e.pa \in Nat /\ e.pages \in Nat
               /\ \A m \in d.trees[v].memory : m[1] \in Nat /\ m[2] \in Nat
          /\ \A v \in DOMAIN d.config.vms \cup {1} : d.trees[v].node \in Nodes
    /\ \A n \in DOMAIN Trials : Trials[n] \subseteq Nodes
    /\ MaxDevices \in Nat /\ Width \in Nat \ {0}

VARIABLES
    dep,     \* what is deployed
    node,    \* the node of the channel that the guest of VM 1 finds
    tried,   \* processors that have looked for a VM by affinity
    vmOf,    \* vmOf[c]: the VM that has processor c, 0 for none
    guest,   \* guest[v]: "off" or "on"
    driver   \* driver[v]: the channel's driver: "none", "refused", "ready"
vars == <<dep, node, tried, vmOf, guest, driver>>

Vms == dep.config.vms
VmIds == DOMAIN Vms
Cpus == 0 .. dep.cpus - 1

CpusOfVm(v) == {c \in Cpus : vmOf[c] = v}
HasRoom(v) == Cardinality(CpusOfVm(v)) < Vms[v].cpus

TreeFor(v) == dep.trees[v]

Init ==
    /\ dep \in Deployments
    /\ node \in {TreeFor(1).node} \cup
         (IF dep.name \in DOMAIN Trials THEN Trials[dep.name] ELSE {})
    /\ tried = {}
    /\ vmOf = [c \in Cpus |-> 0]
    /\ guest = [v \in VmIds |-> "off"]
    /\ driver = [v \in VmIds |-> "none"]

-----------------------------------------------------------------------------
(* The hypervisor.                                                         *)

\* Processor c takes the first VM that names it and lacks a processor.
ClaimByAffinity(c) ==
    LET mine == {v \in VmIds : c \in Vms[v].affinity /\ HasRoom(v)} IN
    /\ c \notin tried
    /\ tried' = tried \cup {c}
    /\ vmOf' = IF mine = {} THEN vmOf
               ELSE [vmOf EXCEPT ![c] = CHOOSE v \in mine :
                                          \A w \in mine : v <= w]
    /\ UNCHANGED <<dep, node, guest, driver>>

\* When all have tried, the others take what is left.
ClaimRest(c) ==
    /\ tried = Cpus /\ vmOf[c] = 0
    /\ \E v \in VmIds :
         /\ HasRoom(v) /\ \A w \in 1 .. v - 1 : ~HasRoom(w)
         /\ vmOf' = [vmOf EXCEPT ![c] = v]
    /\ UNCHANGED <<dep, node, tried, guest, driver>>

Start(v) ==
    /\ guest[v] = "off" /\ ~HasRoom(v)
    /\ guest' = [guest EXCEPT ![v] = "on"]
    /\ UNCHANGED <<dep, node, tried, vmOf, driver>>

-----------------------------------------------------------------------------
(* The drivers of the channel.                                             *)

\* bao_ipcshmem_register(): the window's end is its last byte, and the test
\* wants a channel to end before it; in whole pages, to end inside it.  The
\* offsets are unsigned and 32 bits wide, the addresses are not.
\* Mutant: the sum is 32 bits wide.
InRangeWraps(n, ch) == n.base + ((ch[1] + ch[2]) % Width) < n.base + n.pages

InRange(n, ch) == n.base + ch[1] + ch[2] < n.base + n.pages

Apart(n) ==
    LET r == n.read
        w == n.write IN
    (r[1] + r[2]) % Width <= w[1] \/ (w[1] + w[2]) % Width <= r[1]

Accepts(n) ==
    /\ InRange(n, n.read) /\ InRange(n, n.write) /\ Apart(n)
    /\ n.id < MaxDevices

NodeOf(v) == IF v = 1 THEN node ELSE TreeFor(v).node

LinuxProbes(v) ==
    /\ guest[v] = "on" /\ driver[v] = "none"
    /\ Vms[v].image = "linux" /\ NodeOf(v).pages > 0
    /\ driver' = [driver EXCEPT ![v] = IF Accepts(NodeOf(v))
                                       THEN "ready" ELSE "refused"]
    /\ UNCHANGED <<dep, node, tried, vmOf, guest>>

\* shmemipc_init() of Zephyr takes the node as it is.
ZephyrInits(v) ==
    /\ guest[v] = "on" /\ driver[v] = "none"
    /\ Vms[v].image = "zephyr" /\ NodeOf(v).pages > 0
    /\ driver' = [driver EXCEPT ![v] = "ready"]
    /\ UNCHANGED <<dep, node, tried, vmOf, guest>>

Next ==
    \/ \E c \in Cpus : ClaimByAffinity(c) \/ ClaimRest(c)
    \/ \E v \in VmIds : Start(v) \/ LinuxProbes(v) \/ ZephyrInits(v)

Spec == Init /\ [][Next]_vars

FairSpec == Spec /\ WF_vars(Next)

-----------------------------------------------------------------------------
(* Properties.                                                             *)

Running == {v \in VmIds : guest[v] = "on"}
WindowOf(v) == Vms[v].ipcs[1]

\* The guests find the nodes that are in the repository.
Deployed == node = TreeFor(1).node

\* Guests that run have no interrupt, no device, no placed memory and no
\* cache color in common, but for the page of the mailbox, which the PX4
\* guests share (RpiFirmware is about that one).
GuestsApart ==
    \A v, w \in Running : v < w =>
        /\ OwnIrqs(Vms[v]) \cap OwnIrqs(Vms[w]) = {}
        /\ SharedSpans(Vms[v], Vms[w], dep.mpu) \subseteq Shared
        /\ Vms[v].colors \cap Vms[w].colors = {}

\* So it is in every file but those in Contested, and in those it is not when
\* their guests run: exactly these files give two VMs the same.
Partitioned ==
    IF dep.name \in Contested THEN Running = VmIds => ~GuestsApart ELSE GuestsApart

\* What cpu_affinity must be like to be kept: no processor is named by two
\* VMs, and a VM that names some names as many as it asks for.
AffinitiesFit ==
    \A d \in Deployments : \A v \in DOMAIN d.config.vms :
        LET own == d.config.vms[v].affinity IN
        /\ \A w \in DOMAIN d.config.vms \ {v} :
              own \cap d.config.vms[w].affinity = {}
        /\ own # {} =>
              d.config.vms[v].cpus <= Cardinality(own \cap (0 .. d.cpus - 1))

\* A guest runs on as many processors as it asks for, and with cpu_affinity
\* on those that it names only: in whatever order they arrive, none of them
\* has gone to another VM before and none comes from those that are left.
AffinityKept ==
    \A v \in Running :
        /\ Cardinality(CpusOfVm(v)) = Vms[v].cpus
        /\ Vms[v].affinity # {} => CpusOfVm(v) \subseteq Vms[v].affinity

\* What a guest takes from its device tree, or is linked with, its VM has:
\* the memory, the interrupt controller, the devices and their interrupts,
\* and no more processors than the tree lists.  Its entry is in its memory,
\* and an image that is not copied is where the build puts it.
TreesBacked ==
    \A v \in Running :
        LET t == TreeFor(v)
            Has(m, n) == \E r \in Elems(Vms[v].regions) :
                            Inside(m, n, r.base, r.pages) IN
        /\ Vms[v].cpus <= t.cpus
        /\ \A m \in t.memory : Has(m[1], m[2])
        /\ t.gic \subseteq Vms[v].gic
        /\ \A d \in t.devs : \E e \in Elems(Vms[v].devs) :
              Inside(d.va, d.pages, e.va, e.pages)
        /\ UNION {d.irqs : d \in t.devs} \subseteq OwnIrqs(Vms[v])
        /\ Has(Vms[v].entry, 1)
        /\ Vms[v].load # -1 => Vms[v].load = dep.flash[Vms[v].image]

\* So it is in every file but those in Unbacked, and in those it is not.
GuestBacked ==
    IF dep.name \in Unbacked THEN Running = VmIds => ~TreesBacked ELSE TreesBacked

\* A VM's windows do not overlap, whatever they are windows on, and no
\* interrupt is listed with two of its devices.
WindowsOnce ==
    \A v \in Running :
        LET s == Seen(Vms[v])
            d == Vms[v].devs IN
        /\ \A i, j \in DOMAIN s :
              i < j => ~Overlap(s[i][1], s[i][2], s[j][1], s[j][2])
        /\ \A i, j \in DOMAIN d : i < j => d[i].irqs \cap d[j].irqs = {}

\* So it is in every file but those in Doubled, and in those it is not.
NothingTwice ==
    IF dep.name \in Doubled THEN Running = VmIds => ~WindowsOnce ELSE WindowsOnce

\* A driver that is ready has its channels inside the VM's window and the
\* window inside the shared object; Zephyr, which waits for doorbells, waits
\* for an interrupt that the window has.  When two guests have the channel,
\* it is the same one, and each reads where the other writes.
ChannelsMeet ==
    Deployed => \A v \in Running : driver[v] = "ready" =>
        LET n == NodeOf(v)
            w == WindowOf(v) IN
        /\ n.base = w.base
        /\ \A ch \in {n.read, n.write} : ch[1] + ch[2] <= w.pages
        /\ w.pages <= dep.config.shmem[w.shm + 1]
        /\ Vms[v].image = "zephyr" => n.irq \in w.irqs
        /\ \A o \in Running \ {v} : driver[o] = "ready" =>
             n.read = NodeOf(o).write /\ w.shm = WindowOf(o).shm

\* Whatever the node says, channels that Linux's driver accepts are inside
\* the node's window and apart from each other, so no byte written is one
\* that is read: the sums that wrap never make it accept others.
AcceptedSound ==
    \A v \in Running : driver[v] = "ready" /\ Vms[v].image = "linux" =>
        LET n == NodeOf(v) IN
        /\ \A ch \in {n.read, n.write} : ch[1] + ch[2] <= n.pages
        /\ \A x \in n.read[1] .. n.read[1] + n.read[2] - 1 :
              x \notin n.write[1] .. n.write[1] + n.write[2] - 1

\* What a node must be like to be accepted, whatever the width of a number:
\* channels that end before the window does and are apart, and a number that
\* was reserved.
NodesFit ==
    \A d \in Deployments : \A v \in DOMAIN d.config.vms :
        LET n == d.trees[v].node
            Ends(ch) == ch[1] + ch[2] IN
        n.pages > 0 =>
            /\ n.id \in 0 .. MaxDevices - 1
            /\ d.config.vms[v].image = "linux" =>
                  /\ Ends(n.read) < n.pages /\ Ends(n.write) < n.pages
                  /\ Ends(n.read) <= n.write[1] \/ Ends(n.write) <= n.read[1]

\* The driver refuses no node of the repository, though its range test
\* refuses channels that fill the window, and the device gets a number that
\* was reserved for it, though the test passes a node without one.
DeployedAccepted ==
    \A v \in VmIds : Deployed =>
        /\ driver[v] # "refused"
        /\ driver[v] = "ready" => NodeOf(v).id \in 0 .. MaxDevices - 1

\* The platform has the processors that the VMs ask for: as many as there are
\* pairs of a VM and a processor of its.
Places(vms) == UNION {{v} \X (1 .. vms[v].cpus) : v \in DOMAIN vms}
EnoughCpus ==
    \A d \in Deployments : Cardinality(Places(d.config.vms)) <= d.cpus

\* While a VM lacks a processor there is one that may still be given away: it
\* has not looked for a VM yet, or it is free and there is a VM for it.
NobodyStarves ==
    (\E v \in VmIds : HasRoom(v)) =>
        \E c \in Cpus :
            \/ c \notin tried
            \/ /\ vmOf[c] = 0
               /\ \E v \in VmIds : HasRoom(v) /\ \A w \in 1 .. v - 1 : ~HasRoom(w)

\* Every VM gets its processors and starts.
EveryVmStarts == <>(Running = VmIds)
=============================================================================
