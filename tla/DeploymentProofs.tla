-------------------------- MODULE DeploymentProofs --------------------------
(***************************************************************************)
(* The layout test of Linux's channel driver, for any node that a device   *)
(* tree can hold, and the hypervisor's processors, for any configurations. *)
(***************************************************************************)
EXTENDS Deployment, FiniteSetTheorems, TLAPS

\* A driver that is ready has accepted its node.
TestedInv ==
    /\ dep \in Deployments /\ node \in Nodes
    /\ driver \in [VmIds -> {"none", "refused", "ready"}]
    /\ \A v \in VmIds : driver[v] = "ready" /\ Vms[v].image = "linux" => Accepts(NodeOf(v))

\* Whoever is asked finds a node of the declared shape.
LEMMA NodesFound ==
    ASSUME TestedInv, NEW v \in VmIds
    PROVE  NodeOf(v) \in Nodes
<1>1. TreeFor(v).node \in Nodes
  BY DeploymentAssumption DEF TestedInv, TreeFor, VmIds, Vms
<1> QED BY <1>1 DEF TestedInv, NodeOf

\* A number that fits the width is not changed by it.
LEMMA SmallRemainder ==
    ASSUME NEW a \in Nat, NEW w \in Nat \ {0}, a < w
    PROVE  a % w = a
  OBVIOUS

\* A sum that ends inside a 32-bit window has not wrapped, so that the test
\* of the accepted channels is the one it would be with unbounded numbers.
LEMMA AcceptsIsSound ==
    ASSUME NEW n \in Nodes, Accepts(n)
    PROVE  /\ \A ch \in {n.read, n.write} : ch[1] + ch[2] <= n.pages
           /\ \A x \in n.read[1] .. n.read[1] + n.read[2] - 1 :
                 x \notin n.write[1] .. n.write[1] + n.write[2] - 1
<1>0. Width \in Nat \ {0}
  BY DeploymentAssumption
<1>1. /\ n.base \in Nat /\ n.pages \in 0 .. Width
      /\ n.read \in (0 .. Width - 1) \X (0 .. Width - 1)
      /\ n.write \in (0 .. Width - 1) \X (0 .. Width - 1)
  BY DEF Nodes
<1>2. /\ n.read[1] \in 0 .. Width - 1 /\ n.read[2] \in 0 .. Width - 1
      /\ n.write[1] \in 0 .. Width - 1 /\ n.write[2] \in 0 .. Width - 1
  BY <1>1
<1>3. /\ n.read[1] + n.read[2] < n.pages
      /\ n.write[1] + n.write[2] < n.pages
  BY <1>0, <1>1, <1>2 DEF Accepts, InRange
<1>4. /\ (n.read[1] + n.read[2]) % Width = n.read[1] + n.read[2]
      /\ (n.write[1] + n.write[2]) % Width = n.write[1] + n.write[2]
  <2>1. /\ n.read[1] + n.read[2] \in Nat /\ n.read[1] + n.read[2] < Width
        /\ n.write[1] + n.write[2] \in Nat /\ n.write[1] + n.write[2] < Width
        /\ Width \in Nat \ {0}
    BY <1>0, <1>1, <1>2, <1>3
  <2> QED BY <2>1, SmallRemainder
<1>5. \/ n.read[1] + n.read[2] <= n.write[1]
      \/ n.write[1] + n.write[2] <= n.read[1]
  BY <1>4 DEF Accepts, Apart
<1>6. \A ch \in {n.read, n.write} : ch[1] + ch[2] <= n.pages
  BY <1>1, <1>2, <1>3
<1>7. \A x \in n.read[1] .. n.read[1] + n.read[2] - 1 :
         x \notin n.write[1] .. n.write[1] + n.write[2] - 1
  BY <1>0, <1>2, <1>5
<1> QED BY <1>6, <1>7

\* No driver has probed at first.
LEMMA TestedInit == Init => TestedInv
<1> SUFFICES ASSUME Init PROVE TestedInv
  OBVIOUS
<1>1. dep \in Deployments /\ TreeFor(1).node \in Nodes
  BY DeploymentAssumption DEF Init, TreeFor
<1>2. node \in Nodes
  BY <1>1, DeploymentAssumption DEF Init
<1>3. driver = [v \in VmIds |-> "none"]
  BY DEF Init
<1> QED BY <1>1, <1>2, <1>3 DEF TestedInv

\* A probe leaves behind what its test has found.
LEMMA TestedNext == TestedInv /\ [Next]_vars => TestedInv'
<1> SUFFICES ASSUME TestedInv, [Next]_vars PROVE TestedInv'
  OBVIOUS
<1>1. dep' = dep /\ node' = node
  BY DEF Next, ClaimByAffinity, ClaimRest, Start, LinuxProbes, ZephyrInits, vars
<1>2. /\ VmIds' = VmIds /\ Vms' = Vms /\ \A v \in VmIds : NodeOf(v)' = NodeOf(v)
      /\ \A v \in VmIds : Accepts(NodeOf(v))' <=> Accepts(NodeOf(v))
  BY <1>1 DEF VmIds, Vms, NodeOf, TreeFor
<1>3. ASSUME NEW v \in VmIds, LinuxProbes(v) PROVE TestedInv'
  <2>1. driver' = [driver EXCEPT ![v] = IF Accepts(NodeOf(v)) THEN "ready" ELSE "refused"]
    BY <1>3 DEF LinuxProbes
  <2> QED BY <1>1, <1>2, <2>1 DEF TestedInv
<1>4. ASSUME NEW v \in VmIds, ZephyrInits(v) PROVE TestedInv'
  <2>1. driver' = [driver EXCEPT ![v] = "ready"] /\ Vms[v].image = "zephyr"
    BY <1>4 DEF ZephyrInits
  <2> QED BY <1>1, <1>2, <2>1 DEF TestedInv
<1>5. \/ driver' = driver
      \/ \E v \in VmIds : LinuxProbes(v) \/ ZephyrInits(v)
  BY DEF Next, ClaimByAffinity, ClaimRest, Start, vars
<1>6. CASE driver' = driver
  BY <1>1, <1>2, <1>6 DEF TestedInv
<1> QED BY <1>3, <1>4, <1>5, <1>6

\* The channels that Linux's driver accepts are inside the window and apart
\* from each other, whatever 32-bit numbers the device tree holds.
THEOREM TestIsSound == Spec => []AcceptedSound
<1>1. TestedInv => AcceptedSound
  <2> SUFFICES ASSUME TestedInv, NEW v \in Running, driver[v] = "ready",
                      Vms[v].image = "linux"
               PROVE  /\ \A ch \in {NodeOf(v).read, NodeOf(v).write} :
                            ch[1] + ch[2] <= NodeOf(v).pages
                      /\ \A x \in NodeOf(v).read[1] .. NodeOf(v).read[1] + NodeOf(v).read[2] - 1 :
                            x \notin NodeOf(v).write[1]
                                       .. NodeOf(v).write[1] + NodeOf(v).write[2] - 1
    BY DEF AcceptedSound
  <2>1. v \in VmIds
    BY DEF Running
  <2>2. PICK n \in Nodes : n = NodeOf(v)
    BY <2>1, NodesFound
  <2>3. Accepts(n)
    BY <2>1, <2>2 DEF TestedInv
  <2> QED BY <2>2, <2>3, AcceptsIsSound
<1> QED BY <1>1, TestedInit, TestedNext, PTL DEF Spec

\* Two channels that end before a window of 32 bits does are tested as with
\* unbounded numbers: the test accepts them if they are apart.
LEMMA AcceptsWhatFits ==
    ASSUME NEW n \in Nodes, n.id \in 0 .. MaxDevices - 1,
           n.read[1] + n.read[2] < n.pages, n.write[1] + n.write[2] < n.pages,
           \/ n.read[1] + n.read[2] <= n.write[1]
           \/ n.write[1] + n.write[2] <= n.read[1]
    PROVE  Accepts(n)
<1>1. Width \in Nat \ {0} /\ MaxDevices \in Nat
  BY DeploymentAssumption
<1>2. /\ n.base \in Nat /\ n.pages \in 0 .. Width
      /\ n.read \in (0 .. Width - 1) \X (0 .. Width - 1)
      /\ n.write \in (0 .. Width - 1) \X (0 .. Width - 1)
  BY DEF Nodes
<1>3. /\ n.read[1] \in 0 .. Width - 1 /\ n.read[2] \in 0 .. Width - 1
      /\ n.write[1] \in 0 .. Width - 1 /\ n.write[2] \in 0 .. Width - 1
  BY <1>2
<1>4. InRange(n, n.read) /\ InRange(n, n.write)
  BY <1>1, <1>2, <1>3 DEF InRange
<1>5. /\ (n.read[1] + n.read[2]) % Width = n.read[1] + n.read[2]
      /\ (n.write[1] + n.write[2]) % Width = n.write[1] + n.write[2]
  <2>1. /\ n.read[1] + n.read[2] \in Nat /\ n.read[1] + n.read[2] < Width
        /\ n.write[1] + n.write[2] \in Nat /\ n.write[1] + n.write[2] < Width
    BY <1>1, <1>2, <1>3
  <2> QED BY <1>1, <2>1, SmallRemainder
<1>6. Apart(n)
  BY <1>5 DEF Apart
<1> QED BY <1>1, <1>4, <1>6 DEF Accepts

\* Only a guest with a node has a driver, and only Linux's refuses one, which
\* then failed the test.
RefusedInv ==
    /\ TestedInv
    /\ \A v \in VmIds :
         /\ driver[v] # "none" => NodeOf(v).pages > 0
         /\ driver[v] = "refused" => Vms[v].image = "linux" /\ ~Accepts(NodeOf(v))

\* Only a test that fails refuses, and every driver that is ready has passed.
LEMMA RefusedNext == RefusedInv /\ [Next]_vars => RefusedInv'
<1> SUFFICES ASSUME RefusedInv, [Next]_vars PROVE RefusedInv'
  OBVIOUS
<1>1. dep' = dep /\ node' = node /\ TestedInv'
  BY TestedNext DEF RefusedInv, Next, ClaimByAffinity, ClaimRest, Start, LinuxProbes,
     ZephyrInits, vars
<1>2. /\ VmIds' = VmIds /\ Vms' = Vms /\ \A v \in VmIds : NodeOf(v)' = NodeOf(v)
      /\ \A v \in VmIds : Accepts(NodeOf(v))' <=> Accepts(NodeOf(v))
  BY <1>1 DEF VmIds, Vms, NodeOf, TreeFor
<1>3. ASSUME NEW v \in VmIds, LinuxProbes(v) PROVE RefusedInv'
  <2>1. /\ driver' = [driver EXCEPT ![v] = IF Accepts(NodeOf(v)) THEN "ready" ELSE "refused"]
        /\ Vms[v].image = "linux" /\ NodeOf(v).pages > 0
    BY <1>3 DEF LinuxProbes
  <2> QED BY <1>1, <1>2, <2>1 DEF RefusedInv, TestedInv
<1>4. ASSUME NEW v \in VmIds, ZephyrInits(v) PROVE RefusedInv'
  <2>1. driver' = [driver EXCEPT ![v] = "ready"] /\ NodeOf(v).pages > 0
    BY <1>4 DEF ZephyrInits
  <2> QED BY <1>1, <1>2, <2>1 DEF RefusedInv, TestedInv
<1>5. \/ driver' = driver
      \/ \E v \in VmIds : LinuxProbes(v) \/ ZephyrInits(v)
  BY DEF Next, ClaimByAffinity, ClaimRest, Start, vars
<1>6. CASE driver' = driver
  BY <1>1, <1>2, <1>6 DEF RefusedInv
<1> QED BY <1>3, <1>4, <1>5, <1>6

\* The test is not too strict either: it refuses no node of a device tree whose
\* channels are apart and end before the window.
THEOREM FittingAccepted == NodesFit => (Spec => []DeployedAccepted)
<1>1. Init => RefusedInv
  <2> SUFFICES ASSUME Init PROVE RefusedInv
    OBVIOUS
  <2>1. \A v \in VmIds : driver[v] = "none"
    BY DEF Init
  <2> QED BY <2>1, TestedInit DEF RefusedInv
<1>2. NodesFit /\ RefusedInv => DeployedAccepted
  <2> SUFFICES ASSUME NodesFit, RefusedInv, NEW v \in VmIds, Deployed,
                      driver[v] # "none"
               PROVE  driver[v] # "refused" /\ NodeOf(v).id \in 0 .. MaxDevices - 1
    BY DEF DeployedAccepted
  <2>1. PICK n \in Nodes : n = NodeOf(v)
    BY NodesFound DEF RefusedInv
  <2>2. n = dep.trees[v].node
    BY <2>1 DEF Deployed, NodeOf, TreeFor
  <2>3. n.pages > 0 /\ dep \in Deployments /\ v \in DOMAIN dep.config.vms
    BY <2>1 DEF RefusedInv, TestedInv, VmIds, Vms
  <2>4. /\ n.id \in 0 .. MaxDevices - 1
        /\ Vms[v].image = "linux" =>
              /\ n.read[1] + n.read[2] < n.pages /\ n.write[1] + n.write[2] < n.pages
              /\ \/ n.read[1] + n.read[2] <= n.write[1]
                 \/ n.write[1] + n.write[2] <= n.read[1]
    BY <2>2, <2>3 DEF NodesFit, Vms
  <2>5. Vms[v].image = "linux" => Accepts(n)
    BY <2>4, AcceptsWhatFits
  <2> QED BY <2>1, <2>4, <2>5 DEF RefusedInv
<1>3. CASE NodesFit
  BY <1>1, <1>2, <1>3, RefusedNext, PTL DEF Spec
<1> QED BY <1>3

-----------------------------------------------------------------------------
(* Processors.                                                             *)

\* A set of naturals that is not empty has a least element.
LEMMA LeastNatural ==
    ASSUME NEW S \in SUBSET Nat, S # {}
    PROVE  \E m \in S : \A n \in S : m <= n
<1> DEFINE R == OpToRel(<, Nat)
<1>1. IsWellFoundedOn(R, Nat)
  BY NatLessThanWellFounded
<1>2. R = {ss \in Nat \X Nat : ss[1] < ss[2]}
  BY DEF OpToRel
<1> HIDE DEF R
<1>3. PICK m \in S : \A n \in S : <<n, m>> \notin R
  BY <1>1, WFMin
<1>4. ASSUME NEW n \in S PROVE m <= n
  <2>1. n \in Nat /\ m \in Nat /\ <<n, m>> \notin R
    BY <1>3
  <2>2. n < m => <<n, m>> \in R
    BY <1>2, <2>1
  <2> QED BY <2>1, <2>2
<1> QED BY <1>4

\* What a configuration is like.
LEMMA Configured ==
    ASSUME dep \in Deployments
    PROVE  /\ VmIds \subseteq Nat \ {0} /\ IsFiniteSet(VmIds)
           /\ \A v \in VmIds : 1 .. v \subseteq VmIds
           /\ \A v \in VmIds : Vms[v].cpus \in Nat
           /\ dep.cpus \in Nat
           /\ IsFiniteSet(Cpus) /\ Cardinality(Cpus) = dep.cpus
<1>1. /\ dep.cpus \in Nat /\ Len(Vms) \in Nat /\ VmIds = 1 .. Len(Vms)
      /\ \A v \in VmIds : Vms[v].cpus \in Nat
  BY DeploymentAssumption DEF VmIds, Vms
<1>2. IsFiniteSet(1 .. Len(Vms))
  BY <1>1, FS_Interval
<1>3. IsFiniteSet(0 .. dep.cpus - 1) /\ Cardinality(0 .. dep.cpus - 1) = dep.cpus
  <2>1. PICK n \in Nat : n = dep.cpus
    BY <1>1
  <2>2. IsFiniteSet(0 .. n - 1) /\ Cardinality(0 .. n - 1) = IF 0 > n - 1 THEN 0 ELSE n - 1 - 0 + 1
    BY FS_Interval
  <2> QED BY <2>1, <2>2
<1> QED BY <1>1, <1>2, <1>3 DEF Cpus

\* No VM has more processors than it asks for, and a guest that runs has all
\* of them; a processor that has not looked for a VM has none.
ClaimInv ==
    /\ dep \in Deployments /\ tried \subseteq Cpus
    /\ vmOf \in [Cpus -> VmIds \cup {0}]
    /\ guest \in [VmIds -> {"off", "on"}]
    /\ \A c \in Cpus : vmOf[c] # 0 => c \in tried
    /\ \A v \in VmIds : /\ Cardinality(CpusOfVm(v)) <= Vms[v].cpus
                        /\ guest[v] = "on" => ~HasRoom(v)

\* The processors of a VM can be counted.
LEMMA CpusCounted ==
    ASSUME dep \in Deployments, NEW v
    PROVE  IsFiniteSet(CpusOfVm(v)) /\ Cardinality(CpusOfVm(v)) \in Nat
<1>1. CpusOfVm(v) \in SUBSET Cpus
  BY DEF CpusOfVm
<1> QED BY <1>1, Configured, FS_Subset, FS_CardinalityType

\* A VM that is given a processor has one more, the others as many as before.
LEMMA Given ==
    ASSUME ClaimInv, NEW c \in Cpus, NEW v \in VmIds, vmOf[c] = 0,
           vmOf' = [vmOf EXCEPT ![c] = v], dep' = dep
    PROVE  /\ CpusOfVm(v)' = CpusOfVm(v) \cup {c}
           /\ Cardinality(CpusOfVm(v))' = Cardinality(CpusOfVm(v)) + 1
           /\ \A w \in VmIds \ {v} : CpusOfVm(w)' = CpusOfVm(w)
<1>1. v # 0 /\ Cpus' = Cpus
  BY Configured DEF ClaimInv, Cpus
<1>2. CpusOfVm(v)' = CpusOfVm(v) \cup {c} /\ c \notin CpusOfVm(v)
  BY <1>1 DEF ClaimInv, CpusOfVm
<1>3. \A w \in VmIds \ {v} : CpusOfVm(w)' = CpusOfVm(w)
  BY <1>1, Configured DEF ClaimInv, CpusOfVm
<1>4. IsFiniteSet(CpusOfVm(v))
  BY CpusCounted DEF ClaimInv
<1>5. Cardinality(CpusOfVm(v) \cup {c}) = Cardinality(CpusOfVm(v)) + 1
  BY <1>2, <1>4, FS_AddElement
<1> QED BY <1>2, <1>3, <1>5

\* A claim by affinity is by the VM that names the processor and has room.
LEMMA ByAffinity ==
    ASSUME ClaimInv, NEW c \in Cpus, ClaimByAffinity(c)
    PROVE  /\ vmOf[c] = 0
           /\ \/ /\ vmOf' = vmOf
                 /\ \A v \in VmIds : c \in Vms[v].affinity => ~HasRoom(v)
              \/ \E v \in VmIds : /\ c \in Vms[v].affinity /\ HasRoom(v)
                                  /\ vmOf' = [vmOf EXCEPT ![c] = v]
<1> DEFINE mine == {v \in VmIds : c \in Vms[v].affinity /\ HasRoom(v)}
<1>1. vmOf[c] = 0
  BY DEF ClaimByAffinity, ClaimInv
<1>2. CASE mine = {}
  BY <1>1, <1>2 DEF ClaimByAffinity
<1>3. CASE mine # {}
  <2>1. mine \in SUBSET Nat
    BY Configured DEF ClaimInv
  <2>2. \E v \in mine : \A w \in mine : v <= w
    <3> HIDE DEF mine
    <3> QED BY <1>3, <2>1, LeastNatural
  <2>3. PICK v \in mine : vmOf' = [vmOf EXCEPT ![c] = v]
    <3>1. (CHOOSE v \in mine : \A w \in mine : v <= w) \in mine
      BY <2>2
    <3> QED BY <1>3, <3>1 DEF ClaimByAffinity
  <2> QED BY <1>1, <2>3
<1> QED BY <1>2, <1>3

\* At first no processor is given away.
LEMMA ClaimInit == Init => ClaimInv
<1> SUFFICES ASSUME Init PROVE ClaimInv
  OBVIOUS
<1>1. /\ dep \in Deployments /\ tried = {} /\ vmOf = [c \in Cpus |-> 0]
      /\ guest = [v \in VmIds |-> "off"]
  BY DEF Init
<1>2. ASSUME NEW v \in VmIds PROVE Cardinality(CpusOfVm(v)) <= Vms[v].cpus
  <2>1. CpusOfVm(v) = {}
    BY <1>1, Configured DEF CpusOfVm
  <2> QED BY <1>1, <2>1, FS_EmptySet, Configured
<1> QED BY <1>1, <1>2 DEF ClaimInv

\* Both rounds give a processor to a VM that lacks one, and keep the count.
LEMMA ClaimNext == ClaimInv /\ [Next]_vars => ClaimInv'
<1> SUFFICES ASSUME ClaimInv, [Next]_vars PROVE ClaimInv'
  OBVIOUS
<1>1. dep' = dep /\ Vms' = Vms /\ VmIds' = VmIds /\ Cpus' = Cpus
  BY DEF Next, ClaimByAffinity, ClaimRest, Start, LinuxProbes, ZephyrInits, vars,
         Vms, VmIds, Cpus
<1>2. CASE vmOf' = vmOf /\ tried \subseteq tried' /\ tried' \subseteq Cpus /\ guest' = guest
  BY <1>1, <1>2 DEF ClaimInv, CpusOfVm, HasRoom
<1>3. ASSUME NEW c \in Cpus, NEW v \in VmIds, HasRoom(v), vmOf[c] = 0,
             vmOf' = [vmOf EXCEPT ![c] = v], guest' = guest,
             tried \subseteq tried', tried' \subseteq Cpus, c \in tried'
      PROVE  ClaimInv'
  <2>1. /\ CpusOfVm(v)' = CpusOfVm(v) \cup {c}
        /\ Cardinality(CpusOfVm(v))' = Cardinality(CpusOfVm(v)) + 1
        /\ \A w \in VmIds \ {v} : CpusOfVm(w)' = CpusOfVm(w)
    BY <1>1, <1>3, Given
  <2>2. /\ Cardinality(CpusOfVm(v)) \in Nat /\ Vms[v].cpus \in Nat
        /\ Cardinality(CpusOfVm(v)) < Vms[v].cpus /\ guest[v] # "on"
    BY <1>3, Configured, CpusCounted DEF ClaimInv, HasRoom
  <2>3. ASSUME NEW w \in VmIds
        PROVE  /\ (Cardinality(CpusOfVm(w)) <= Vms[w].cpus)'
               /\ (guest[w] = "on" => ~HasRoom(w))'
    <3>1. CASE w = v
      <4>1. Cardinality(CpusOfVm(w))' = Cardinality(CpusOfVm(v)) + 1
        BY <2>1, <3>1
      <4>2. Vms'[w].cpus = Vms[v].cpus /\ guest'[w] # "on"
        BY <1>1, <1>3, <2>2, <3>1
      <4>3. Cardinality(CpusOfVm(v)) + 1 <= Vms[v].cpus
        BY <2>2
      <4> QED BY <4>1, <4>2, <4>3
    <3>2. CASE w # v
      <4>1. CpusOfVm(w)' = CpusOfVm(w)
        BY <2>1, <3>2
      <4> QED BY <1>1, <1>3, <4>1 DEF ClaimInv, HasRoom
    <3> QED BY <3>1, <3>2
  <2> QED BY <1>1, <1>3, <2>3 DEF ClaimInv
<1>4. ASSUME NEW c \in Cpus, ClaimByAffinity(c) PROVE ClaimInv'
  <2>1. /\ tried' = tried \cup {c} /\ guest' = guest /\ tried \subseteq Cpus
    BY <1>4 DEF ClaimByAffinity, ClaimInv
  <2> QED BY <1>2, <1>3, <1>4, <2>1, ByAffinity
<1>5. ASSUME NEW c \in Cpus, ClaimRest(c) PROVE ClaimInv'
  BY <1>3, <1>5 DEF ClaimRest, ClaimInv
<1>6. ASSUME NEW v \in VmIds, Start(v) PROVE ClaimInv'
  <2>1. guest' = [guest EXCEPT ![v] = "on"] /\ ~HasRoom(v) /\ UNCHANGED <<tried, vmOf>>
    BY <1>6 DEF Start
  <2>2. \A w \in VmIds : CpusOfVm(w)' = CpusOfVm(w) /\ HasRoom(w)' = HasRoom(w)
    BY <1>1, <2>1 DEF CpusOfVm, HasRoom
  <2> QED BY <1>1, <2>1, <2>2 DEF ClaimInv
<1>7. ASSUME NEW v \in VmIds, LinuxProbes(v) \/ ZephyrInits(v) PROVE ClaimInv'
  BY <1>2, <1>7 DEF LinuxProbes, ZephyrInits, ClaimInv
<1>8. CASE UNCHANGED vars
  BY <1>2, <1>8 DEF vars, ClaimInv
<1> QED BY <1>4, <1>5, <1>6, <1>7, <1>8 DEF Next

\* A VM that names processors has only such, and of those that have looked
\* for a VM it has all unless it needs no more.
Own(v) == Vms[v].affinity
AffinityInv ==
    /\ ClaimInv
    /\ \A v \in VmIds : Own(v) # {} =>
          /\ CpusOfVm(v) \subseteq Own(v)
          /\ \A c \in tried \cap Own(v) : vmOf[c] = v \/ ~HasRoom(v)

\* What AffinitiesFit says of the configuration that is deployed.
LEMMA AffinitiesOf ==
    ASSUME AffinitiesFit, dep \in Deployments, NEW v \in VmIds
    PROVE  /\ \A w \in VmIds \ {v} : Own(v) \cap Own(w) = {}
           /\ Own(v) # {} => Vms[v].cpus <= Cardinality(Own(v) \cap Cpus)
  BY DEF AffinitiesFit, VmIds, Vms, Cpus, Own

\* When every processor has looked for a VM, one that names some has enough.
LEMMA NoRoomLeft ==
    ASSUME AffinitiesFit, AffinityInv, tried = Cpus,
           NEW v \in VmIds, Own(v) # {}
    PROVE  ~HasRoom(v)
<1> SUFFICES ASSUME HasRoom(v) PROVE FALSE
  OBVIOUS
<1>1. dep \in Deployments
  BY DEF AffinityInv, ClaimInv
<1>2. Own(v) \cap Cpus \in SUBSET CpusOfVm(v)
  BY DEF AffinityInv, CpusOfVm
<1>3. IsFiniteSet(CpusOfVm(v)) /\ Cardinality(CpusOfVm(v)) \in Nat
  BY <1>1, CpusCounted
<1>4. Cardinality(Own(v) \cap Cpus) <= Cardinality(CpusOfVm(v)) /\ IsFiniteSet(Own(v) \cap Cpus)
  BY <1>2, <1>3, FS_Subset
<1>5. Cardinality(Own(v) \cap Cpus) \in Nat
  BY <1>4, FS_CardinalityType
<1>6. Vms[v].cpus <= Cardinality(Own(v) \cap Cpus) /\ Vms[v].cpus \in Nat
  BY <1>1, AffinitiesOf, Configured
<1> QED BY <1>3, <1>4, <1>5, <1>6 DEF HasRoom

\* A processor that is given to a VM that may have it leaves the others theirs.
LEMMA AffinityGiven ==
    ASSUME AffinitiesFit, AffinityInv, NEW c \in Cpus, NEW v \in VmIds,
           HasRoom(v), Own(v) # {} => c \in Own(v), vmOf[c] = 0,
           vmOf' = [vmOf EXCEPT ![c] = v], dep' = dep,
           tried' = tried \/ (tried' = tried \cup {c} /\ c \in Own(v)),
           NEW w \in VmIds, Own(w) # {}
    PROVE  /\ CpusOfVm(w)' \subseteq Own(w)
           /\ \A d \in tried' \cap Own(w) : vmOf'[d] = w \/ ~HasRoom(w)'
<1>1. /\ ClaimInv /\ CpusOfVm(w) \subseteq Own(w) /\ vmOf \in [Cpus -> VmIds \cup {0}]
      /\ dep \in Deployments /\ w # 0
      /\ \A d \in tried \cap Own(w) : vmOf[d] = w \/ ~HasRoom(w)
  BY Configured DEF AffinityInv, ClaimInv
<1>2. /\ CpusOfVm(v)' = CpusOfVm(v) \cup {c}
      /\ \A u \in VmIds \ {v} : CpusOfVm(u)' = CpusOfVm(u)
  BY <1>1, Given
<1>3. CpusOfVm(w)' \subseteq Own(w)
  <2>1. CASE w = v
    BY <1>1, <1>2, <2>1
  <2>2. CASE w # v
    BY <1>1, <1>2, <2>2
  <2> QED BY <2>1, <2>2
<1>4. ASSUME NEW d \in tried' \cap Own(w) PROVE vmOf'[d] = w \/ ~HasRoom(w)'
  <2>1. CASE d # c
    <3>1. d \in tried /\ (vmOf[d] = w => vmOf'[d] = w)
      BY <1>1, <1>4, <2>1 DEF ClaimInv
    <3>2. vmOf[d] = w \/ ~HasRoom(w)
      BY <1>1, <1>4, <3>1
    <3>3. w # v => (HasRoom(w)' <=> HasRoom(w))
      BY <1>2 DEF HasRoom, Vms
    <3> QED BY <3>1, <3>2, <3>3
  <2>2. CASE d = c /\ w = v
    BY <1>1, <2>2
  <2>3. CASE d = c /\ w # v
    <3>1. c \notin Own(v) /\ c \in tried
      BY <1>1, <1>4, <2>3, AffinitiesOf
    <3>2. ~HasRoom(w)
      BY <1>1, <1>4, <2>3, <3>1
    <3> QED BY <1>2, <2>3, <3>2 DEF HasRoom, Vms
  <2> QED BY <2>1, <2>2, <2>3
<1> QED BY <1>3, <1>4

\* At first every VM can still have the processors it names.
LEMMA AffinityInit == Init => AffinityInv
<1> SUFFICES ASSUME Init PROVE AffinityInv
  OBVIOUS
<1>1. ClaimInv /\ tried = {} /\ vmOf = [c \in Cpus |-> 0] /\ dep \in Deployments
  BY ClaimInit DEF Init
<1>2. \A v \in VmIds : CpusOfVm(v) = {}
  BY <1>1, Configured DEF CpusOfVm
<1> QED BY <1>1, <1>2 DEF AffinityInv

\* When affinities fit, no round takes a processor from the VM that names it.
LEMMA AffinityNext == AffinitiesFit /\ AffinityInv /\ [Next]_vars => AffinityInv'
<1> SUFFICES ASSUME AffinitiesFit, AffinityInv, [Next]_vars PROVE AffinityInv'
  OBVIOUS
<1>1. dep' = dep /\ VmIds' = VmIds /\ \A v \in VmIds : Own(v)' = Own(v)
  BY DEF Next, ClaimByAffinity, ClaimRest, Start, LinuxProbes, ZephyrInits, vars,
         Vms, VmIds, Own
<1>2. ClaimInv' /\ ClaimInv
  BY ClaimNext DEF AffinityInv
<1>3. SUFFICES ASSUME NEW w \in VmIds, Own(w) # {}
               PROVE  /\ CpusOfVm(w)' \subseteq Own(w)
                      /\ \A d \in tried' \cap Own(w) : vmOf'[d] = w \/ ~HasRoom(w)'
  BY <1>1, <1>2 DEF AffinityInv
<1>4. /\ CpusOfVm(w) \subseteq Own(w)
      /\ \A d \in tried \cap Own(w) : vmOf[d] = w \/ ~HasRoom(w)
  BY <1>3 DEF AffinityInv
<1>5. CASE UNCHANGED <<tried, vmOf>>
  <2>1. CpusOfVm(w)' = CpusOfVm(w) /\ (HasRoom(w)' <=> HasRoom(w))
    BY <1>1, <1>5 DEF CpusOfVm, HasRoom, Cpus, Vms
  <2> QED BY <1>4, <1>5, <2>1
<1>6. ASSUME NEW c \in Cpus, ClaimByAffinity(c)
      PROVE  /\ CpusOfVm(w)' \subseteq Own(w)
             /\ \A d \in tried' \cap Own(w) : vmOf'[d] = w \/ ~HasRoom(w)'
  <2>1. tried' = tried \cup {c} /\ vmOf[c] = 0
    BY <1>2, <1>6, ByAffinity DEF ClaimByAffinity
  <2>2. CASE /\ vmOf' = vmOf
             /\ \A v \in VmIds : c \in Vms[v].affinity => ~HasRoom(v)
    <3>1. CpusOfVm(w)' = CpusOfVm(w) /\ (HasRoom(w)' <=> HasRoom(w))
      BY <1>1, <2>2 DEF CpusOfVm, HasRoom, Cpus, Vms
    <3>2. c \in Own(w) => ~HasRoom(w)
      BY <1>3, <2>2 DEF Own
    <3> QED BY <1>4, <2>1, <2>2, <3>1, <3>2
  <2>3. ASSUME NEW v \in VmIds, c \in Own(v), HasRoom(v), vmOf' = [vmOf EXCEPT ![c] = v]
        PROVE  /\ CpusOfVm(w)' \subseteq Own(w)
               /\ \A d \in tried' \cap Own(w) : vmOf'[d] = w \/ ~HasRoom(w)'
    BY <1>1, <1>3, <2>1, <2>3, AffinityGiven
  <2> QED BY <1>2, <1>6, <2>2, <2>3, ByAffinity DEF Own
<1>7. ASSUME NEW c \in Cpus, ClaimRest(c)
      PROVE  /\ CpusOfVm(w)' \subseteq Own(w)
             /\ \A d \in tried' \cap Own(w) : vmOf'[d] = w \/ ~HasRoom(w)'
  <2>1. PICK v \in VmIds : HasRoom(v) /\ vmOf' = [vmOf EXCEPT ![c] = v]
    BY <1>7 DEF ClaimRest
  <2>2. tried = Cpus /\ vmOf[c] = 0 /\ tried' = tried
    BY <1>7 DEF ClaimRest
  <2>3. Own(v) = {}
    BY <2>1, <2>2, NoRoomLeft
  <2> QED BY <1>1, <1>3, <2>1, <2>2, <2>3, AffinityGiven
<1>8. \/ UNCHANGED <<tried, vmOf>>
      \/ \E c \in Cpus : ClaimByAffinity(c) \/ ClaimRest(c)
  BY DEF Next, Start, LinuxProbes, ZephyrInits, vars
<1> QED BY <1>5, <1>6, <1>7, <1>8

\* With cpu_affinity that can be kept, a guest runs on the processors that its
\* VM names and on as many as it asks for, in whatever order they arrive.
THEOREM AffinitiesKept == AffinitiesFit => (Spec => []AffinityKept)
<1>1. AffinityInv => AffinityKept
  <2> SUFFICES ASSUME AffinityInv, NEW v \in Running
               PROVE  /\ Cardinality(CpusOfVm(v)) = Vms[v].cpus
                      /\ Vms[v].affinity # {} => CpusOfVm(v) \subseteq Vms[v].affinity
    BY DEF AffinityKept
  <2>1. ClaimInv /\ dep \in Deployments /\ v \in VmIds /\ guest[v] = "on"
    BY DEF AffinityInv, ClaimInv, Running
  <2>2. /\ Cardinality(CpusOfVm(v)) <= Vms[v].cpus /\ ~HasRoom(v)
        /\ Cardinality(CpusOfVm(v)) \in Nat /\ Vms[v].cpus \in Nat
    BY <2>1, CpusCounted, Configured DEF ClaimInv
  <2> QED BY <2>1, <2>2 DEF HasRoom, AffinityInv, Own
<1>2. CASE AffinitiesFit
  <2>1. AffinityInv /\ [Next]_vars => AffinityInv'
    BY <1>2, AffinityNext
  <2> QED BY <1>1, <2>1, AffinityInit, PTL DEF Spec
<1> QED BY <1>2

\* The processors of a VM can be numbered, up to as many as it has.
LEMMA Numbered ==
    ASSUME dep \in Deployments, NEW v
    PROVE  \E f \in [CpusOfVm(v) -> 1 .. Cardinality(CpusOfVm(v))] :
              \A c, d \in CpusOfVm(v) : f[c] = f[d] => c = d
<1> DEFINE own == CpusOfVm(v)
           k == Cardinality(own)
<1>1. IsFiniteSet(own) /\ k \in Nat
  BY CpusCounted
<1>2. IsFiniteSet(1 .. k) /\ Cardinality(1 .. k) = k
  <2> HIDE DEF k
  <2>1. IsFiniteSet(1 .. k) /\ Cardinality(1 .. k) = IF 1 > k THEN 0 ELSE k - 1 + 1
    BY <1>1, FS_Interval
  <2> QED BY <1>1, <2>1
<1>3. ExistsBijection(own, 1 .. k)
  <2> HIDE DEF own
  <2> QED BY <1>1, <1>2, FS_SameCardinalityBij
<1> QED BY <1>3 DEF ExistsBijection, Bijection, Injection, IsInjective

\* The places of a configuration can be counted.
LEMMA PlacesFinite ==
    ASSUME dep \in Deployments
    PROVE  IsFiniteSet(Places(Vms))
<1> DEFINE row == [v \in VmIds |-> {v} \X (1 .. Vms[v].cpus)]
           rows == {row[v] : v \in VmIds}
<1>1. row \in Surjection(VmIds, rows)
  BY DEF Surjection
<1>2. IsFiniteSet(rows)
  <2> HIDE DEF row, rows
  <2> QED BY <1>1, Configured, FS_Surjection
<1>3. ASSUME NEW r \in rows PROVE IsFiniteSet(r)
  <2>1. PICK v \in VmIds : r = {v} \X (1 .. Vms[v].cpus)
    BY <1>3
  <2>2. PICK n \in Nat : n = Vms[v].cpus
    BY Configured
  <2>3. IsFiniteSet(1 .. n)
    BY FS_Interval
  <2>4. IsFiniteSet({v})
    BY FS_Singleton
  <2> QED BY <2>1, <2>2, <2>3, <2>4, FS_Product
<1>4. Places(Vms) = UNION rows
  BY DEF Places, VmIds
<1>5. IsFiniteSet(UNION rows)
  <2> HIDE DEF rows
  <2> QED BY <1>2, <1>3, FS_UNION
<1> QED BY <1>4, <1>5

\* While a VM lacks a processor, not every one can have been given away: the
\* numbers of those that have been would leave no place of a VM empty.
LEMMA OneIsFree ==
    ASSUME EnoughCpus, ClaimInv, NEW u \in VmIds, HasRoom(u)
    PROVE  \E c \in Cpus : vmOf[c] = 0
<1> SUFFICES ASSUME \A c \in Cpus : vmOf[c] \in VmIds PROVE FALSE
  BY DEF ClaimInv
<1>1. dep \in Deployments
  BY DEF ClaimInv
<1> DEFINE Numbering(v) ==
             {f \in [CpusOfVm(v) -> 1 .. Cardinality(CpusOfVm(v))] :
                \A c, d \in CpusOfVm(v) : f[c] = f[d] => c = d}
           number == [v \in VmIds |-> CHOOSE f : f \in Numbering(v)]
           place == [c \in Cpus |-> <<vmOf[c], number[vmOf[c]][c]>>]
           empty == <<u, Vms[u].cpus>>
           Rest == Places(Vms) \ {empty}
<1>2. ASSUME NEW v \in VmIds PROVE number[v] \in Numbering(v)
  <2>1. \E f : f \in Numbering(v)
    BY <1>1, Numbered
  <2> QED BY <2>1
<1>3. ASSUME NEW c \in Cpus
      PROVE  /\ c \in CpusOfVm(vmOf[c]) /\ vmOf[c] \in VmIds
             /\ number[vmOf[c]][c] \in 1 .. Cardinality(CpusOfVm(vmOf[c]))
  <2>1. c \in CpusOfVm(vmOf[c])
    BY DEF CpusOfVm
  <2> QED BY <1>2, <2>1
<1>4. ASSUME NEW c \in Cpus PROVE place[c] \in Rest
  <2>1. PICK v \in VmIds : v = vmOf[c]
    BY <1>3
  <2>2. PICK k : k = number[v][c]
    OBVIOUS
  <2>3. /\ Cardinality(CpusOfVm(v)) \in Nat /\ Vms[v].cpus \in Nat
        /\ Cardinality(CpusOfVm(v)) <= Vms[v].cpus
        /\ v = u => Cardinality(CpusOfVm(v)) < Vms[v].cpus
    BY <1>1, CpusCounted, Configured DEF ClaimInv, HasRoom
  <2>4. k \in 1 .. Cardinality(CpusOfVm(v))
    BY <1>3, <2>1, <2>2
  <2>5. k \in 1 .. Vms[v].cpus /\ (v = u => k # Vms[v].cpus)
    BY <2>3, <2>4
  <2>6. <<v, k>> \in Places(Vms)
    BY <2>5 DEF Places, VmIds
  <2>7. <<v, k>> # empty
    BY <2>5
  <2>8. place[c] = <<v, k>>
    BY <2>1, <2>2
  <2> QED BY <2>6, <2>7, <2>8
<1>5. ASSUME NEW c \in Cpus, NEW d \in Cpus, place[c] = place[d] PROVE c = d
  <2>1. vmOf[c] = vmOf[d] /\ number[vmOf[c]][c] = number[vmOf[c]][d]
    <3>1. <<vmOf[c], number[vmOf[c]][c]>> = <<vmOf[d], number[vmOf[d]][d]>>
      BY <1>5
    <3> HIDE DEF number
    <3>2. vmOf[c] = vmOf[d] /\ number[vmOf[c]][c] = number[vmOf[d]][d]
      BY <3>1
    <3> QED BY <3>2
  <2>2. c \in CpusOfVm(vmOf[c]) /\ d \in CpusOfVm(vmOf[c])
    BY <1>3, <2>1
  <2> QED BY <1>2, <1>3, <2>1, <2>2
<1>6. place \in Injection(Cpus, Rest)
  BY <1>4, <1>5 DEF Injection, IsInjective
<1>7. empty \in Places(Vms)
  <2>1. Vms[u].cpus \in 1 .. Vms[u].cpus
    BY <1>1, CpusCounted, Configured DEF HasRoom
  <2> QED BY <2>1 DEF Places, VmIds
<1>8. IsFiniteSet(Rest) /\ Cardinality(Rest) = Cardinality(Places(Vms)) - 1
  <2> HIDE DEF empty
  <2> QED BY <1>1, <1>7, PlacesFinite, FS_RemoveElement
<1>9. Cardinality(Cpus) <= Cardinality(Rest)
  <2> HIDE DEF place, Rest
  <2> QED BY <1>6, <1>8, FS_Injection
<1>10. /\ Cardinality(Cpus) = dep.cpus /\ dep.cpus \in Nat
       /\ Cardinality(Places(Vms)) \in Nat
       /\ Cardinality(Places(Vms)) <= dep.cpus
  BY <1>1, Configured, PlacesFinite, FS_CardinalityType DEF EnoughCpus, Vms
<1> QED BY <1>8, <1>9, <1>10

\* On a platform with the processors that its VMs ask for, giving them away is
\* never stuck while a VM lacks one: what can be proved of EveryVmStarts.
THEOREM ProcessorsSuffice == EnoughCpus => (Spec => []NobodyStarves)
<1>1. EnoughCpus /\ ClaimInv => NobodyStarves
  <2> SUFFICES ASSUME EnoughCpus, ClaimInv, NEW u \in VmIds, HasRoom(u), tried = Cpus
               PROVE  \E c \in Cpus : /\ vmOf[c] = 0
                                      /\ \E v \in VmIds : /\ HasRoom(v)
                                                          /\ \A w \in 1 .. v - 1 : ~HasRoom(w)
    BY DEF NobodyStarves, ClaimInv
  <2>1. dep \in Deployments
    BY DEF ClaimInv
  <2> DEFINE lacking == {v \in VmIds : HasRoom(v)}
  <2>2. lacking \in SUBSET Nat /\ lacking # {}
    BY <2>1, Configured
  <2>3. PICK v \in lacking : \A w \in lacking : v <= w
    <3> HIDE DEF lacking
    <3> QED BY <2>2, LeastNatural
  <2>4. ASSUME NEW w \in 1 .. v - 1 PROVE ~HasRoom(w)
    <3>1. v \in Nat /\ 1 .. v \subseteq VmIds
      BY <2>1, Configured
    <3>2. w \in VmIds /\ ~(v <= w)
      BY <3>1
    <3> QED BY <2>3, <3>2
  <2> QED BY <2>3, <2>4, OneIsFree
<1>2. CASE EnoughCpus
  <2>1. ClaimInv => NobodyStarves
    BY <1>1, <1>2
  <2> QED BY <2>1, ClaimInit, ClaimNext, PTL DEF Spec
<1> QED BY <1>2

-----------------------------------------------------------------------------
(* Nothing is taken back.                                                  *)

\* A step brings the deployment forward: a processor has looked for a VM or is
\* given away, a guest starts, or a driver probes.  What is given stays given,
\* a guest that runs keeps running, with the processors it has and no more,
\* and no driver probes twice.
Forward ==
    /\ UNCHANGED <<dep, node>> /\ tried \subseteq tried'
    /\ \A c \in Cpus : vmOf[c] # 0 => vmOf'[c] = vmOf[c]
    /\ \A v \in VmIds :
         /\ guest[v] = "on" => guest'[v] = "on" /\ CpusOfVm(v)' = CpusOfVm(v)
         /\ driver[v] # "none" => driver'[v] = driver[v]
    /\ \/ tried' # tried
       \/ \E c \in Cpus : vmOf[c] = 0 /\ vmOf'[c] # 0
       \/ \E v \in VmIds : guest[v] = "off" /\ guest'[v] = "on"
       \/ \E v \in VmIds : driver[v] = "none" /\ driver'[v] # "none"

\* Giving a processor away is a step forward: its VM has no guest that runs.
LEMMA GivenForward ==
    ASSUME ClaimInv, NEW c \in Cpus, NEW v \in VmIds, HasRoom(v), vmOf[c] = 0,
           vmOf' = [vmOf EXCEPT ![c] = v], tried \subseteq tried',
           UNCHANGED <<dep, node, guest, driver>>
    PROVE  Forward
<1>1. /\ vmOf \in [Cpus -> VmIds \cup {0}] /\ v # 0 /\ guest[v] # "on"
      /\ \A w \in VmIds \ {v} : CpusOfVm(w)' = CpusOfVm(w)
  BY Given, Configured DEF ClaimInv
<1> QED BY <1>1 DEF Forward

\* Every step is one.  As processors and VMs are finitely many there is a last
\* step; with NobodyStarves, and as a VM that lacks none can start, it comes
\* when every guest runs: the argument of EveryVmStarts for all deployments
\* that have EnoughCpus.
THEOREM DeploysForward == Spec => [][Forward]_vars
<1>1. ASSUME ClaimInv, TestedInv, [Next]_vars PROVE [Forward]_vars
  <2> SUFFICES ASSUME Next PROVE Forward
    BY <1>1
  <2>1. ASSUME NEW c \in Cpus, ClaimByAffinity(c) PROVE Forward
    <3>1. /\ c \notin tried /\ tried' = tried \cup {c} /\ vmOf[c] = 0
          /\ UNCHANGED <<dep, node, guest, driver>>
      BY <1>1, <2>1, ByAffinity DEF ClaimByAffinity
    <3>2. CASE vmOf' = vmOf
      <4>1. \A v \in VmIds : CpusOfVm(v)' = CpusOfVm(v)
        BY <3>1, <3>2 DEF CpusOfVm, Cpus
      <4> QED BY <3>1, <3>2, <4>1 DEF Forward
    <3>3. ASSUME NEW v \in VmIds, HasRoom(v), vmOf' = [vmOf EXCEPT ![c] = v]
          PROVE  Forward
      BY <1>1, <3>1, <3>3, GivenForward
    <3> QED BY <1>1, <2>1, <3>2, <3>3, ByAffinity
  <2>2. ASSUME NEW c \in Cpus, ClaimRest(c) PROVE Forward
    <3>1. PICK v \in VmIds : HasRoom(v) /\ vmOf' = [vmOf EXCEPT ![c] = v]
      BY <2>2 DEF ClaimRest
    <3> QED BY <1>1, <2>2, <3>1, GivenForward DEF ClaimRest
  <2>3. ASSUME NEW v \in VmIds, Start(v) PROVE Forward
    <3>1. /\ guest[v] = "off" /\ guest' = [guest EXCEPT ![v] = "on"]
          /\ UNCHANGED <<dep, node, tried, vmOf, driver>>
          /\ guest \in [VmIds -> {"off", "on"}]
      BY <1>1, <2>3 DEF Start, ClaimInv
    <3>2. \A w \in VmIds : CpusOfVm(w)' = CpusOfVm(w)
      BY <3>1 DEF CpusOfVm, Cpus
    <3> QED BY <3>1, <3>2 DEF Forward
  <2>4. ASSUME NEW v \in VmIds, LinuxProbes(v) \/ ZephyrInits(v) PROVE Forward
    <3>1. /\ driver[v] = "none" /\ UNCHANGED <<dep, node, tried, vmOf, guest>>
          /\ driver \in [VmIds -> {"none", "refused", "ready"}]
          /\ \E s \in {"refused", "ready"} : driver' = [driver EXCEPT ![v] = s]
      BY <1>1, <2>4 DEF LinuxProbes, ZephyrInits, TestedInv
    <3>2. \A w \in VmIds : CpusOfVm(w)' = CpusOfVm(w)
      BY <3>1 DEF CpusOfVm, Cpus
    <3> QED BY <3>1, <3>2 DEF Forward
  <2> QED BY <2>1, <2>2, <2>3, <2>4 DEF Next
<1> QED BY <1>1, ClaimInit, ClaimNext, TestedInit, TestedNext, PTL DEF Spec

-----------------------------------------------------------------------------
(* The channel between two guests.                                         *)

Drivers == {"linux", "zephyr"}

\* What the nodes of a deployment must say for its channel to work: each is at
\* the VM's window, the channels are inside it, Zephyr's interrupt is one that
\* the window has, and two nodes name the same object and cross over.
NodesMeet ==
    \A d \in Deployments : \A v \in DOMAIN d.config.vms :
        LET n == d.trees[v].node
            vm == d.config.vms[v]
            w == vm.ipcs[1] IN
        n.pages > 0 /\ vm.image \in Drivers =>
            /\ n.base = w.base /\ w.pages <= d.config.shmem[w.shm + 1]
            /\ \A ch \in {n.read, n.write} : ch[1] + ch[2] <= w.pages
            /\ vm.image = "zephyr" => n.irq \in w.irqs
            /\ \A o \in DOMAIN d.config.vms \ {v} :
                  LET m == d.trees[o].node IN
                  m.pages > 0 /\ d.config.vms[o].image \in Drivers =>
                     n.read = m.write /\ w.shm = d.config.vms[o].ipcs[1].shm

\* Nobody but a driver gets ready.
ReadyInv == \A v \in VmIds : driver[v] = "ready" => Vms[v].image \in Drivers

\* Only guests that have a driver probe.
LEMMA ReadyNext == TestedInv /\ ReadyInv /\ [Next]_vars => ReadyInv'
<1> SUFFICES ASSUME TestedInv, ReadyInv, [Next]_vars PROVE ReadyInv'
  OBVIOUS
<1>1. VmIds' = VmIds /\ Vms' = Vms
  BY DEF Next, ClaimByAffinity, ClaimRest, Start, LinuxProbes, ZephyrInits, vars,
         VmIds, Vms
<1>2. \/ driver' = driver
      \/ \E v \in VmIds, s \in {"refused", "ready"} :
            Vms[v].image \in Drivers /\ driver' = [driver EXCEPT ![v] = s]
  BY DEF Next, ClaimByAffinity, ClaimRest, Start, LinuxProbes, ZephyrInits, vars, Drivers
<1> QED BY <1>1, <1>2 DEF ReadyInv, TestedInv

\* The pages of the shared object that a driver writes to.
Written(v) == NodeOf(v).write[1] .. NodeOf(v).write[1] + NodeOf(v).write[2] - 1

\* Of two guests that have the channel, if one of them is Linux, no page is
\* written by both: IpcShmem may have a channel of its own for each direction.
OneWriter ==
    Deployed => \A v, o \in Running :
        /\ v # o /\ driver[v] = "ready" /\ driver[o] = "ready"
        /\ Vms[v].image = "linux"
        => Written(v) \cap Written(o) = {}

\* Where the nodes meet the windows the guests find each other, and what the
\* driver's test has found for one keeps the other's channel apart from it,
\* even where the other one, as Zephyr, tests nothing.
THEOREM ChannelsCross == NodesMeet => (Spec => [](ChannelsMeet /\ OneWriter))
<1>1. Init => RefusedInv /\ ReadyInv
  <2> SUFFICES ASSUME Init PROVE RefusedInv /\ ReadyInv
    OBVIOUS
  <2>1. \A v \in VmIds : driver[v] = "none"
    BY DEF Init
  <2> QED BY <2>1, TestedInit DEF RefusedInv, ReadyInv
<1>2. ASSUME NodesMeet, RefusedInv, ReadyInv, Deployed,
             NEW v \in Running, driver[v] = "ready"
      PROVE  /\ v \in VmIds /\ dep \in Deployments
             /\ NodeOf(v) = dep.trees[v].node /\ NodeOf(v).pages > 0
             /\ Vms[v].image \in Drivers
  BY <1>2 DEF RefusedInv, TestedInv, ReadyInv, Running, Deployed, NodeOf, TreeFor
<1>3. ASSUME NodesMeet, RefusedInv, ReadyInv PROVE ChannelsMeet
  <2> SUFFICES ASSUME Deployed, NEW v \in Running, driver[v] = "ready"
               PROVE  LET n == NodeOf(v)
                          w == WindowOf(v) IN
                      /\ n.base = w.base
                      /\ \A ch \in {n.read, n.write} : ch[1] + ch[2] <= w.pages
                      /\ w.pages <= dep.config.shmem[w.shm + 1]
                      /\ Vms[v].image = "zephyr" => n.irq \in w.irqs
                      /\ \A o \in Running \ {v} : driver[o] = "ready" =>
                           n.read = NodeOf(o).write /\ w.shm = WindowOf(o).shm
    BY DEF ChannelsMeet
  <2>1. /\ v \in DOMAIN dep.config.vms /\ dep \in Deployments
        /\ NodeOf(v) = dep.trees[v].node /\ NodeOf(v).pages > 0
        /\ dep.config.vms[v].image \in Drivers
    BY <1>2, <1>3 DEF VmIds, Vms
  <2>2. /\ NodeOf(v).base = WindowOf(v).base
        /\ \A ch \in {NodeOf(v).read, NodeOf(v).write} : ch[1] + ch[2] <= WindowOf(v).pages
        /\ WindowOf(v).pages <= dep.config.shmem[WindowOf(v).shm + 1]
        /\ Vms[v].image = "zephyr" => NodeOf(v).irq \in WindowOf(v).irqs
    BY <1>3, <2>1 DEF NodesMeet, WindowOf, Vms
  <2>3. ASSUME NEW o \in Running \ {v}, driver[o] = "ready"
        PROVE  NodeOf(v).read = NodeOf(o).write /\ WindowOf(v).shm = WindowOf(o).shm
    <3>1. /\ o \in DOMAIN dep.config.vms \ {v}
          /\ NodeOf(o) = dep.trees[o].node /\ NodeOf(o).pages > 0
          /\ dep.config.vms[o].image \in Drivers
      BY <1>2, <1>3, <2>3 DEF VmIds, Vms
    <3> QED BY <1>3, <2>1, <3>1 DEF NodesMeet, WindowOf, Vms
  <2> QED BY <2>2, <2>3
<1>4. ASSUME ChannelsMeet, TestedInv PROVE OneWriter
  <2> SUFFICES ASSUME Deployed, NEW v \in Running, NEW o \in Running, v # o,
                      driver[v] = "ready", driver[o] = "ready", Vms[v].image = "linux"
               PROVE  Written(v) \cap Written(o) = {}
    BY DEF OneWriter
  <2>1. NodeOf(o).write = NodeOf(v).read
    BY <1>4 DEF ChannelsMeet
  <2>2. PICK n \in Nodes : n = NodeOf(v)
    BY <1>4, NodesFound DEF Running
  <2>3. Accepts(n)
    BY <1>4, <2>2 DEF TestedInv, Running
  <2>4. \A x \in n.read[1] .. n.read[1] + n.read[2] - 1 :
           x \notin n.write[1] .. n.write[1] + n.write[2] - 1
    BY <2>2, <2>3, AcceptsIsSound
  <2> QED BY <2>1, <2>2, <2>4 DEF Written
<1>5. CASE NodesMeet
  <2>1. RefusedInv /\ ReadyInv => ChannelsMeet /\ OneWriter
    BY <1>3, <1>4, <1>5 DEF RefusedInv
  <2>2. RefusedInv => TestedInv
    BY DEF RefusedInv
  <2> QED BY <1>1, <2>1, <2>2, RefusedNext, ReadyNext, PTL DEF Spec
<1> QED BY <1>5

-----------------------------------------------------------------------------
(* The memory of a guest.                                                  *)

Pages(s) == s[1] .. s[1] + s[2] - 1

\* A page of memory that a guest takes from its device tree belongs to no other
\* guest that runs: it is one of those that the hypervisor finds for the VM, or
\* no device and no placed region of another VM has it, unless it is shared on
\* purpose.
MemoryIsOwn ==
    \A v, w \in Running : v # w =>
        \A m \in TreeFor(v).memory, s \in Spans(Vms[w], dep.mpu) :
           \A x \in Pages(m) \cap Pages(s) :
              \/ \E r \in Elems(Vms[v].regions) :
                    ~r.placed /\ ~dep.mpu /\ x \in Pages(<<r.base, r.pages>>)
              \/ \E t \in Shared : x \in Pages(t)

\* A span is a pair of numbers.
LEMMA SpanTyped ==
    ASSUME dep \in Deployments, NEW v \in VmIds, NEW s \in Spans(Vms[v], dep.mpu)
    PROVE  s[1] \in Nat /\ s[2] \in Nat
<1>1. /\ \A e \in Elems(Vms[v].devs) : e.pa \in Nat /\ e.pages \in Nat
      /\ \A r \in Elems(Vms[v].regions) : r.base \in Nat /\ r.pages \in Nat
  BY DeploymentAssumption DEF VmIds, Vms
<1>2. \/ \E e \in Elems(Vms[v].devs) : s = <<e.pa, e.pages>>
      \/ \E r \in Elems(Vms[v].regions) : s = <<r.base, r.pages>>
  BY DEF Spans
<1> QED BY <1>1, <1>2

\* Two spans with a page in common overlap, as SharedSpans has it.
LEMMA PagesMeet ==
    ASSUME NEW a \in Nat, NEW n \in Nat, NEW b \in Nat, NEW m \in Nat,
           NEW x \in Pages(<<a, n>>) \cap Pages(<<b, m>>)
    PROVE  Overlap(a, n, b, m)
  BY DEF Pages, Overlap

\* So it is in the files that are not named as contradicting themselves or a
\* tree.
MemoryKept == dep.name \notin Contested \cup Unbacked => MemoryIsOwn

\* That no two VMs of a configuration overlap and that it backs the device
\* trees, which is checked file by file with the files named that do neither,
\* comes to this for the guests of every other file.
THEOREM GuestsMemoryIsOwn ==
    Spec /\ []Partitioned /\ []GuestBacked => []MemoryKept
<1>1. TestedInv /\ GuestsApart /\ TreesBacked => MemoryIsOwn
  <2> SUFFICES ASSUME TestedInv, GuestsApart, TreesBacked,
                      NEW v \in Running, NEW w \in Running, v # w,
                      NEW m \in TreeFor(v).memory, NEW s \in Spans(Vms[w], dep.mpu),
                      NEW x \in Pages(m) \cap Pages(s),
                      ~\E t \in Shared : x \in Pages(t)
               PROVE  \E r \in Elems(Vms[v].regions) :
                         ~r.placed /\ ~dep.mpu /\ x \in Pages(<<r.base, r.pages>>)
    BY DEF MemoryIsOwn
  <2>1. /\ dep \in Deployments /\ v \in VmIds /\ w \in VmIds
        /\ v \in Nat /\ w \in Nat
    BY Configured DEF TestedInv, Running
  <2>2. PICK r \in Elems(Vms[v].regions) : Inside(m[1], m[2], r.base, r.pages)
    BY DEF TreesBacked
  <2>3. /\ r.base \in Nat /\ r.pages \in Nat /\ m[1] \in Nat /\ m[2] \in Nat
    BY <2>1, DeploymentAssumption DEF VmIds, Vms, TreeFor
  <2>4. x \in Pages(<<r.base, r.pages>>)
    BY <2>2, <2>3 DEF Pages, Inside
  <2>5. s[1] \in Nat /\ s[2] \in Nat /\ x \in Pages(<<s[1], s[2]>>)
    BY <2>1, SpanTyped DEF Pages
  <2>6. Overlap(r.base, r.pages, s[1], s[2]) /\ Overlap(s[1], s[2], r.base, r.pages)
    BY <2>3, <2>4, <2>5, PagesMeet
  <2> DEFINE p == <<r.base, r.pages>>
  <2>7. CASE r.placed \/ dep.mpu
    <3>1. p \in Spans(Vms[v], dep.mpu)
      BY <2>7 DEF Spans
    <3>2. CASE v < w
      <4>1. p \in SharedSpans(Vms[v], Vms[w], dep.mpu)
        BY <2>6, <3>1 DEF SharedSpans
      <4> QED BY <2>4, <3>2, <4>1 DEF GuestsApart
    <3>3. CASE w < v
      <4>1. s \in SharedSpans(Vms[w], Vms[v], dep.mpu)
        BY <2>6, <3>1 DEF SharedSpans
      <4> QED BY <3>3, <4>1 DEF GuestsApart
    <3> QED BY <2>1, <3>2, <3>3
  <2> QED BY <2>4, <2>7
<1>2. TestedInv /\ Partitioned /\ GuestBacked => MemoryKept
  BY <1>1 DEF Partitioned, GuestBacked, MemoryKept
<1> QED BY <1>2, TestedInit, TestedNext, PTL DEF Spec
=============================================================================
