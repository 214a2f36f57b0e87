----------------------------- MODULE BaoConfig -----------------------------
(***************************************************************************)
(* What a configuration of the hypervisor says (struct config of Bao's     *)
(* config.h, which is outside this repository): the shared memory objects  *)
(* and, per VM, its image, processors, memory, shared windows and devices. *)
(* Addresses and sizes are in pages of 4 KiB, the grain of a mapping: a    *)
(* window that begins or ends inside a page takes the whole page.  An      *)
(* image's base_addr equals the VM's entry in every configuration, and     *)
(* .phys of a placed region equals its .base.                              *)
(***************************************************************************)
EXTENDS Integers, Sequences, FiniteSets

\* Memory the hypervisor finds for the VM, and memory at a place of its own.
Region(base, pages) == [base |-> base, pages |-> pages, placed |-> FALSE]
Placed(base, pages) == [base |-> base, pages |-> pages, placed |-> TRUE]

\* A window on the shared memory object shm.
Ipc(base, pages, shm, irqs) ==
    [base |-> base, pages |-> pages, shm |-> shm, irqs |-> irqs]

\* A device, mapped elsewhere, at its own address, or with interrupts only.
DevAt(pa, va, pages, irqs) ==
    [pa |-> pa, va |-> va, pages |-> pages, irqs |-> irqs]
Dev(pa, pages, irqs) == DevAt(pa, pa, pages, irqs)
Irqs(irqs) == DevAt(0, 0, 0, irqs)

\* The timer of each processor: interrupt 27 is private to it.
Timer == Irqs({27})

\* Mutant: the processors are counted from zero and from one.
VmHungry(image, entry, cpus, regions, ipcs, devs, gic) ==
    [image |-> image, entry |-> entry, cpus |-> cpus + 1, affinity |-> {},
     colors |-> {}, load |-> -1, regions |-> regions, ipcs |-> ipcs,
     devs |-> devs, gic |-> gic]

Vm(image, entry, cpus, regions, ipcs, devs, gic) ==
    [image |-> image, entry |-> entry, cpus |-> cpus, affinity |-> {},
     colors |-> {}, load |-> -1, regions |-> regions, ipcs |-> ipcs,
     devs |-> devs, gic |-> gic]

\* Mutant: the first processor of the set is forgotten.
PinnedLate(vm, cpus) ==
    [vm EXCEPT !.affinity = {c \in cpus : \E d \in cpus : d < c}]

\* .cpu_affinity and .colors as sets of bits; .load_addr of VM_IMAGE_LOADED.
Pinned(vm, cpus) == [vm EXCEPT !.affinity = cpus]
Colored(vm, cpus, colors) == [vm EXCEPT !.affinity = cpus, !.colors = colors]
Loaded(vm, page) == [vm EXCEPT !.load = page]

\* A configuration: the pages of its shared memory objects, and its VMs.
Config(shmem, vms) == [shmem |-> shmem, vms |-> vms]

-----------------------------------------------------------------------------
(* What two VMs of a configuration have in common.                         *)

Elems(s) == {s[i] : i \in DOMAIN s}

Overlap(a, n, b, m) == a < b + m /\ b < a + n

\* The timer's is banked for each processor.
OwnIrqs(vm) == UNION {d.irqs : d \in Elems(vm.devs)} \ {27}

\* The stretches of the physical address space a VM is given: its devices,
\* and its placed regions (all of them where mpu says that memory is mapped
\* at its own address).
Spans(vm, mpu) ==
    {<<d.pa, d.pages>> : d \in {e \in Elems(vm.devs) : e.pages > 0}}
      \cup {<<r.base, r.pages>> : r \in {e \in Elems(vm.regions) :
                                           e.placed \/ mpu}}

\* The windows the guest sees at its own addresses.
Seen(vm) ==
    [i \in DOMAIN vm.regions |-> <<vm.regions[i].base, vm.regions[i].pages>>]
      \o [i \in DOMAIN vm.ipcs |-> <<vm.ipcs[i].base, vm.ipcs[i].pages>>]
      \o [i \in DOMAIN vm.devs |-> <<vm.devs[i].va, vm.devs[i].pages>>]

\* The spans that two VMs share.
SharedSpans(v, w, mpu) ==
    {s \in Spans(v, mpu) :
       \E t \in Spans(w, mpu) : Overlap(s[1], s[2], t[1], t[2])}

Inside(a, n, b, m) == b <= a /\ a + n <= b + m
=============================================================================
