# TLA+ models of the Bao demos

This directory models the parts of the repository that have logic of their own,
checks them with TLC on small instances, and proves the most important facts
about them with TLAPS for every value of the constants. `PROJECT.json` is the
index: components, runs, the source lines of every definition, hazards,
findings, theorems.

## 1. Inventory of the system

The repository assembles demonstrations of the Bao hypervisor: make files and
scripts, one VM configuration per demo and platform, device trees, patches and
sources of the guests, an evaluation suite. The hypervisor itself, Linux,
Zephyr, FreeRTOS and the VideoCore firmware are not in it. Code that keeps
state and meets other code at run time is found in seven places (1.1 to 1.7).
The configurations and device trees (1.8) are data, but data of several files
that must agree with each other and with what the hypervisor and the drivers
do with them. What is left is scripts and third-party code (1.9).

### 1.1 The firmware property channel of the PX4 demo

`guests/px4/rpi_firware_transaction_patch.c` (a complete driver) and
`guests/px4/linux-{px4,cam}/patches/stable_20241008/rpi_firmware_transaction.patch`
(the patch the demo builds with).

* State. Per guest: `transaction_lock`, the completion `fw->c`, the DMA buffers
  of the calls that are open. For the board: the two mailbox FIFOs, the buffer
  the firmware works on, and which guest has the mailbox and its interrupt.
* Operations. `rpi_firmware_property` / `_property_list` (allocate, fill,
  transact, copy back, test the status word, free), `rpi_firmware_transaction`
  (mutex, hypercall START, send, wait a second, hypercall END, unlock),
  `response_callback` from the mailbox interrupt.
* Interaction. Threads of a guest meet in the mutex; guests meet in the two
  hypercalls; every guest talks to one firmware through one pair of FIFOs.
* Hard. Two levels of exclusion; answers that come after the timeout, to a
  guest that no longer has the mailbox; a callback that does not look at the
  message it is called for; buffers that are freed while the firmware has their
  address; hypercalls that fail half-way.
* Correct when: one thread on the board uses the mailbox at a time; a call that
  returns 0 hands back its own tags, answered; nothing is freed in use after a
  success; every call returns.

### 1.2 The life of the firmware driver's structure

Same file: probe, remove, shutdown, `rpi_firmware_get` / `_put`, the devm
variant, the reboot notifier. State: `struct rpi_firmware` objects with their
reference counts and mailbox channel, the platform device's driver data,
`g_pdev`, the hwmon device. The clients, the driver core and the notifier run
concurrently; the notifier takes no reference. `rpi_firmware_property` of the
tag GET_THROTTLED also keeps the value in the structure and tells who polls it
in sysfs, outside any lock, from whatever the call left. Correct when a
holder's structure is alive, the count is the number of holders, and who polls
is told of every change.

### 1.3 The interference guest, Armv8 boot and `main`

`eval/guests/interf/src`: `arch/armv8/start.S`, `init.c`, `psci.c`,
`core/retarget.c`, `main.c`. State: `master_cpu_set` (the word of the
election), `master_cpu`, `wait_flag`, the words of `.bss` (`init_lock`,
`init_done`, `print_lock`, the ticket), the distributor. Either all processors
enter `_start` at once or the first switches the others on. Hard: plain stores
that another processor sees in another order; lock words that lie in the memory
that is being cleared; tickets. Correct when one master is elected, nobody runs
C code before `.bss` is clean, buffers are not shared, and all come up.

### 1.4 The interference guest, RISC-V boot

`arch/riscv/start.S`, `init.c`, `sbi.c`. The loop over `sbi_hart_start` runs on
every hart, and each loop ends at the first call that fails. Correct when no
interleaving of the loops leaves a hart off.

### 1.5 The interference guest's spin lock

`arch/armv8/inc/spinlock.h` and `arch/riscv/inc/spinlock.h`: a load-exclusive /
store-exclusive loop; Armv8 frees the lock with a store-release, RISC-V with a
plain store that comes *before* its fence. Correct when it is a lock, what was
written under it is seen by the next holder, and somebody gets in.

### 1.6 The inter-VM channel of linux+zephyr

`guests/linux/patches/v6.1/0001-add-bao-ipcshmem-driver.patch`,
`guests/zephyr/patches/v3.5.0-rc1/0001-add-bao-ipcshmem-drivers.patch`,
`demos/linux+zephyr/zephyr/app/src/main.c`. State: a shared region with a
channel each way, a doorbell interrupt, the positions of open files. Linux
writes then rings; Zephyr copies and prints in its handler; Zephyr writes
without a bell and Linux polls. There is no lock anywhere. Hard: the copy on
one side against the copy on the other, boot against use, a bell inside a
handler. Correct when no bell is lost, and a reader whom nobody disturbs sees
the last message once and whole.

### 1.7 Interrupt controllers of the interference guest

`arch/armv8/{gicv2,gicv3,irq,exceptions}.*`, `arch/riscv/{plic,irq,exceptions}.*`,
`core/irq.c`. State: registers that are banked for each processor, and
registers that all processors share, one of which holds settings of several
interrupts and is read and written back, under `gicd_lock` for the most part;
the table of handlers. Interrupts come between any two accesses. Correct when
a setting that was made stays, a device's interrupt is with one handler at a
time and is handled in the end, and an IPI is seen.

### 1.8 VM configurations and device trees

`demos/*/configs/*.c`, the device trees of their guests, the make files that
name trees and images, and the layout test in the probe of Linux's channel
driver. A demo works when VMs have nothing in common but what they are meant
to share, each guest finds what its tree says, both ends of a channel mean the
same memory, and every VM gets the processors it is promised in whatever order
they reach the hypervisor.

### 1.9 Not modelled

Section 8.

## 2. Modules

| module | models | proofs |
|---|---|---|
| `PropertyChannel` | what a property call promises its caller | |
| `RpiFirmware` | 1.1, all guests and threads; refines `PropertyChannel` | `RpiFirmwareProofs` |
| `MCRpiFirmware` | the guests `px4` and `cam` of the demo | |
| `RpiFirmwareHandle`, `MCRpiFirmwareHandle` | 1.2, one guest | `RpiFirmwareHandleProofs` |
| `LockService` | an abstract lock, which `SpinLock` implements and the boots use | |
| `SpinLock` | 1.5 by instruction, both architectures; refines `LockService` | `SpinLockProofs` |
| `GuestBoot`, `MCGuestBoot` | 1.3; takes each lock in one step, which `SpinLock` justifies; its two locks are used as `LockService` says | `GuestBootProofs` |
| `HartStart` | 1.4; its lock is used as `LockService` says | `HartStartProofs` |
| `IpcShmem`, `MCIpcShmem` | 1.6 | `IpcShmemProofs` |
| `Interrupts`, `MCInterrupts` | 1.7, three controllers | `InterruptsProofs` |
| `BaoConfig` | what a configuration can say, and sets derived from it | |
| `ConfigsBaremetal`, `ConfigsLinux`, `ConfigsLinuxFreertos`, `ConfigsLinuxZephyr`, `ConfigsPx4`, `ConfigsZephyrBaremetal` | 1.8, one definition for each configuration file | |
| `DeviceTrees` | 1.8, one definition for each tree | |
| `Deployment`, `MCDeployment` | 1.8: processors, starts and probes on top of the above | `DeploymentProofs` |

Definitions named "Mutant of X" are not part of any specification. Each is a
plausible mistake in X; put in the place of X it makes the property that
`PROJECT.json` names fail, which shows that the property depends on that line
of the code.

### 2.1 RpiFirmware

`pc[t]` is the place of thread t: `lock` (before `mutex_lock`), `start` (before
the first `hvc`), `reinit`, `send`, `wait`, `end` (before the second `hvc`),
`unlock`, `finish` (back in `property_list`, before `memcpy`) and `check`
(before the test of the status word). One action is one statement that another
thread, guest, the firmware or the interrupt can come between: in particular
`CopyTags` and `Finish` are two, because the firmware may write the buffer
between the `memcpy` and the test.

A buffer is a status word and the call its tags are about; what tags say is
abstracted to whose they are. A request's tags and its answer's tags are told
apart by the status word that was copied with them (`got`), which is how
"returned 0 with the request as data" can be said. `timedout` is a history
variable: some wait of some guest has timed out.

`ChecksHyp` selects the version of the driver: the deployed patch returns
`-EINVAL` on a refused hypercall, the complete file ignores the result.

A call that times out frees its buffer while the firmware still has the
address, and `dma_alloc_coherent` may give any free buffer to the next call,
this one included. `reused`, a second history variable, is the threads whose
call was given such a buffer; `last` records it for a call that has returned.
The driver makes no test that could tell: the properties say what they promise
a call whose buffer nobody else had, and what they promise any call.

External, as the driver uses them: the hypervisor (START waits until
the mailbox is free or this guest's; END frees it only if it is this guest's),
the mailbox (two FIFOs), the firmware (one message at a time, read when it is
taken, answered whenever and perhaps never), mutex and completion.

### 2.2 PropertyChannel

A call opens and returns an error, or 0 with its own tags. Before any answer
has been given up on these are the firmware's answer; later they may be the
request. After an error the caller's buffer may hold any call's tags, and so may
that of an `unlucky` call, one whose memory the firmware still had from another:
`RpiFirmware` maps `reused` to it.

### 2.3 RpiFirmwareHandle

Probe, remove and shutdown are split where a client or the notifier may run;
the driver core runs them one at a time and clears the driver data at the end
of remove. A structure is live, then freed, and a later probe may be given its
memory. Remove puts the driver's reference before the driver data is cleared, so
`rpi_firmware_get` may count up in a structure that is freed: it then finds
whatever the memory holds. If that is zero, or the next structure's count, the
model says which (`GetNull`, `GetRef`); if it is something else, the client is
handed a freed structure (`GetFreed`), and `misled` says from then on that this
has happened. What follows in the memory's next owner is not modelled, so the
properties of the count hold until then. Likewise what a reader finds in a
structure that is not live is any value. A call in progress is the state `using`; what comes after it for
GET_THROTTLED is `compare` (the test against `fw->get_throttled`), `store` and
`notify`, three states because other callers run between them. A call that
failed leaves the caller's value as it was, so `answer` is any value. `seen` is
what a process that polls the attribute has read, `woken` that it has been told
to read again.

### 2.4 GuestBoot

`mem` is what the other processors read. When stores are reordered the master's
plain stores go to `pending` and become visible in any order (`Drain`); its own
reads see them at once. `psci_cpu_on` is a hypercall, which orders the stores
before it. `.bss` starts with garbage. `Boots` says who enters `_start` and
whether stores are reordered; a run covers several. The exception level and the
MMU set-up are data and are left out.

### 2.5 HartStart

The hypervisor starts one hart, `first`. `sbi_hart_start(i)` starts a stopped
hart, and fails for one that is on or does not exist. Nothing else competes for
`primary_hart_valid`, so the reservation needs no state of its own.

### 2.6 SpinLock and LockService

One action per instruction, with the reservation of each processor. A
store-exclusive may also fail for no reason. Between lock and unlock a processor
reads and writes one word (`Work`), as `main` does with its ticket. Stores wait
in `buffer` until the others see them: Armv8's store-release leaves the buffer
last, RISC-V's plain store in any order, and its fence waits until the buffer is
empty.

### 2.7 IpcShmem

A cell of the channel to Zephyr holds the line its character is from, or the
newline that ends a line: the handler looks for that, so `Line` does too. A cell
of the other channel holds the text its character is from. Copies
(`copy_from_user`, `memcpy`, `memset`, `snprintf`) touch their cells in any
order, as the other core may see them. `strnlen` and `copy_to_user` go through
the cells one after the other. A write begins at 0 in a file that was opened for
it, as the shell does, or where the last one on the same file ended
(`Positions`): at the end of the channel it returns 0, and what is more than the
channel has left is cut. The channel to Linux is still empty when Zephyr's boot
clears it, so the order of its cells does not show and that `memset` is one step.

### 2.8 Interrupts

A processor works through its plan, a sequence of calls of `irq_set_handler`,
`irq_set_prio`, `irq_enable` and `irq_send_ipi`; the plans are a constant. One
action is one access to a register or memory, with the lock it takes: for
GICv2's `irq_enable` that is setting the enable bit, reading the targets
(`GetTrgt`, without the lock), reading the word of four targets under the lock
and writing it back. Registers are sets of interrupts; `Bank` says which copy
of a register a processor reaches, which is where `irq_in_gicd` of the GICv3
takes part. The path of an interrupt is `Take` (the vector), `Acknowledge` (IAR,
claim, or the cause register of RISC-V), `Handle` (the table) and `Complete`.
The words that IPIs carry (`letter`) and what devices wait for (`owed`) are
history. External: the controllers, modelled from the accesses the code makes
to them, and devices, which interrupt whenever they like up to `MaxRaises`.
Handlers do what `main` would let them do and make no call of this interface.

`SAVE_REGS` of Armv8 takes 22 words of the interrupted stack and then stores two
registers beyond them. So what a program finds in its stack when it goes on
after an interrupt is not what it left there. `SaveRegs` lets a program of a GIC
go on undamaged, when nothing that it needs was there, or `spoiled`; what it
would do then is undefined, and the model ends. So `Handled` is claimed as long
as no program is, while the safety properties hold up to that point.

### 2.9 Configurations, DeviceTrees and Deployment

Each configuration file is one constant: images, entry points, processors,
`cpu_affinity`, memory regions, shared memory windows, devices with their
interrupts, cache colors. Addresses are in pages of 4 KiB. Each tree is one
constant: processors, memory, interrupt controller, devices, and the node of the
channel; of the trees of whole boards (px4, imx8mn-ddr3l-evk) only processors and
memory, since the configurations enable a few of their devices. Device trees
that only differ in a parameter are one definition with that parameter.

`Deployment` starts from any configuration of a set. Processors reach the
hypervisor in any order: each first looks for a VM whose `cpu_affinity` names it
and which still lacks a processor (`ClaimByAffinity`), and after a barrier the
others fill up what is left (`ClaimRest`); a VM starts when it has all of its
processors. This part is external, as the configurations are written for it.
Three lists name the files of which something is known to be wrong: `Contested`
(two VMs have something in common that no one meant), `Unbacked` (a tree has
memory its VM lacks) and `Doubled` (something is listed twice in a VM). For a
file that is on none a property says that all is well, for one that is, that it
is not: a list names a file too many no more than one too few.

Then the drivers of the channel probe: `LinuxProbes` is the whole layout test
of `bao_ipcshmem_register`, with sums of offset and size that are 32 bits wide;
Zephyr's takes the node as it is. `Trials` are nodes that no file contains.

## 3. Runs

| run | instance | shows |
|---|---|---|
| `rpi_deployed` | 2 guests, 3 threads, 1 call each, all refusals, both answers; the buffer of a call that timed out may be the next one's | types, exclusion, own answers, no free in use, refinement of `PropertyChannel` for the deployed patch |
| `rpi_complete` | 2 guests, 2 threads, 2 calls each, one buffer for each guest, no refusals, answers succeed | own answers for the complete file when a guest calls again after a timeout, and every call returns |
| `rpi_late` | 2 guests, 1 call each | finding 1 |
| `rpi_stuck` | 1 guest, 2 threads, 1 call each | finding 2 |
| `handle` | 2 structures, used again, 3 clients, 2 values | until a client is handed freed memory a handle keeps its structure and the count is the number of holders, over any number of probes; pollers are told |
| `handle_reboot` | 2 structures, 1 client | finding 3 |
| `boot` | 4 processors, 2 buffers; all at once with ordered stores, and PSCI with reordered stores | one master, clean `.bss`, distributor ready, own buffers, all up |
| `harts` | 5 harts, hart 0 or 1 first | lock word clean and kept, nobody left behind, all reach `main` |
| `spinlock` | 3 processors, both architectures | one holder who reads what the last one wrote, refinement of `LockService`, somebody gets in |
| `ipc` | 2 writers, a short and a long line, channel of 4 cells, texts of 1 and 3 characters, reads of 2, 3 calls of which 2 writes | no bell lost, last line shown, cat whole and once, shown in the end |
| `irq` | 2 processors, 3 interrupts of devices, 5 plans, 3 controllers, 2 raises | settings stick, one handler, IPIs seen, interrupts handled unless the stack is overwritten |
| `deploy` | every configuration but two (section 7: one does not compile, one announces more devices than it lists); 486 nodes nobody wrote | VMs partitioned, guests backed and nothing listed twice in every file but those named, and in none of those; affinity kept, channels meet, the layout test, every VM starts |

Why the bounds are enough. Two guests and a second thread in one of them give
both levels of exclusion a contender; a second call per thread is what a late
answer needs to meet a successor in the same guest (`rpi_complete`), and a
second guest is what it needs to meet one elsewhere. The theorems of section 5
remove these bounds for the safety properties. Two structures are a remove
followed by a second probe; three clients and two values let one caller of
GET_THROTTLED overtake two others. Clients are interchangeable in it, and
the run has no liveness property, so they are a symmetry. Four processors with
two buffers let one start while another runs the loop, another spins, and some
get no buffer. Five harts let three loops overtake each other. Three processors
let one invalidate another's reservation while a third holds the lock. In
`IpcShmem` the long line is cut at the end of the channel and the short one
leaves two cells of it behind its newline, within what the handler prints; the
second text takes two reads. `MaxCalls` = 3 is shared by writes, keys and cats,
with `MaxWrites` = 2 of them writes, so that two overlapping writes and a
disturbed or undisturbed cat occur. The plans of `MCInterrupts` are two processors that set
up the same interrupt, neighbours in one register, number 32 beside another, and
IPIs to each other, to oneself beside a timer, and to nobody; `MaxRaises` = 2 lets an
interrupt come again while it is handled. `Deployment` has no bound: it runs the
files themselves, and every order of processors. `MaxCalls`, `MaxWrites`,
`MaxRaises` and the plans are the only bounds on what grows.

`CHECK_DEADLOCK FALSE` stands where the system comes to rest: all calls used up,
all processors in their loop, nothing to write. In `RpiFirmware` with a refused
hypercall a deadlock is finding 2. `SpinLock` never rests, and its run checks
for deadlock.

## 4. Fairness

* `RpiFirmware`: strong fairness of each thread's steps. The kernel mutex and
  START hand over to waiters in turn, a timer ends every wait. Nothing is
  assumed of the firmware, and no thread has to begin a call.
* `GuestBoot`, `HartStart`: a processor that is on runs (weak), stores become
  visible (weak); a store-exclusive that is possible again and again succeeds
  and a spin lock held for a few instructions is got (strong).
* `SpinLock`: weak for each instruction, for stores that wait to be seen and for
  leaving the critical section, strong for the success of a store-exclusive with
  a valid reservation, which both architectures promise for such loops. Calls
  are not assumed.
* `IpcShmem`: weak for a write that has begun, for Zephyr's boot and its handler.
  Nobody has to write, press a key or read.
* `Interrupts`: weak for each processor's next access, for its taking an
  interrupt that stays, and for the steps of the handler. Devices need not
  interrupt.
* `Deployment`: weak for the whole next-state relation, which has no cycles.

## 5. What is proved

All theorems hold for any value of the constants that meets the assumption of
the module; each assumption is evaluated in the runs.

`RpiFirmwareProofs`
* `TypeCorrect`: no condition. `BaseInv` adds to the types who owns a buffer: a
  call has one exactly while it is open and calls share none.
* `Exclusion`: if a refused START is heeded or none is refused (`StartHeeded`).
  `ExclusionInv` says that inside a transaction a thread holds its guest's
  mutex, and between the hypercalls its guest holds the mailbox. It is
  one-sided: a thread that aborted may hold the mutex too. The complete file
  with a hypervisor that refuses START does not have the property.
* `SuccessFreesSafely`: if `StartHeeded`. A call that frees its buffer while the
  firmware has it comes after some timeout, and if it returns 0 its buffer had
  been handed out again. The invariant, `DataInv`, is about the calls whose
  buffer no message named (`Clean`): the tags in it, and those the firmware read
  from it, are the call's; the firmware has it at most once; not before it is
  sent; and not after it has answered in it. It holds whatever the buffers of the
  other calls go through, since a buffer becomes unclean only by being handed out.
* `AnswerIsMine`: if `StartHeeded`. A call that returns 0 has its own tags unless
  its buffer was handed out again; and before the first timeout any call that
  returns 0 has its own answer. For the latter `PromptInv` is needed: exactly one
  message is under way while a thread waits - on its way out, in the firmware's
  hands, on its way back, or turned into a completion - and none otherwise, so
  that no buffer is handed out again either. A timeout ends this, and nothing
  restores it.
* `Refinement`: under the same condition, from `DataInv` and `PromptInv`.
* `NoDeadlock`: if END is never refused, nor START where the driver returns at a
  refusal (`TransactionsEnd`). `HeldInv` says that a lock that is held is held by
  a thread inside its transaction; so either every call has returned or some
  thread can go on (`SomebodyGoesOn`). This is the safety half of `CallsReturn`.
  Finding 2 is what happens without the condition.
* `CallsGoForward`: no condition. A step begins a call, or brings the call of the
  thread that makes it closer to its end and touches no other, or is the
  firmware's or the interrupt's and uses up mail. There is no retry: a call is
  nine steps of its own from its end. With `NoDeadlock` what is left of
  `CallsReturn` is that threads run and waiters get their turn.

`RpiFirmwareHandleProofs`, without conditions (that there are finitely many
clients is the module's assumption)
* `TypeCorrect`, `TellsPollers`: at all times. The invariant, `BasicInv`, has a
  part for the driver core (what is published, allocated and registered at each
  of its places), which no client can disturb, and one for the answers of
  GET_THROTTLED: a value that is stored is either seen, or its notification is
  still to come.
* `CountsHolders`, `KeepsFw`: until a client is handed a freed structure
  (`misled`), which is all the code gives: after `GetFreed` the count is that of
  somebody else's memory. `HandleInv` adds to `BasicInv` the clients' pointers and
  the count - the number of clients that hold the structure, and one for the
  driver from probe to remove. That a holder's structure is alive follows from
  the count, which is why the count is proved first; that a structure used again
  starts with no holder follows from it too.

`GuestBootProofs`
* `TypeCorrect`, `ElectsOne`: no condition.
* `BootGoesOn`: no condition; the safety half of `AllUp`. A processor that is off
  is one that the master has still to switch on (`OffInv`), a spin lock that is
  held has a holder who can release it, and what a processor waits for is
  somebody else's to do (`ReachInv`); so as long as one is not in its loop,
  some processor can go on.
* `BootGoesForward`: no condition. Each step but a store-exclusive that fails
  leaves somebody fewer steps to make and nobody more: no processor is switched
  on twice, clears a word twice or runs its loop again. Together with
  `BootGoesOn` this is `AllUp` but for fairness.
* `UsesLocks`: under the condition of `StartsClean`. `init_lock` and `print_lock`,
  each seen by itself, behave as `LockService`: whoever releases one holds it. So
  what `SpinLock` implements is what this module uses.
* `GicReady`: no condition; only processor 0's initialisation of the distributor
  counts, and a processor in `main` that it has started comes after that.
* `StartsClean`, `BuffersAreOwn`: if the others come up by PSCI, or stores are
  seen in order. `BootInv` ties the election to the preparation of `.bss` (before
  the word is set nobody is past it; while a master prepares it is alone) and
  says which stores can still be pending when another processor is on.
  With both at once - all enter `_start`, stores reordered - TLC finds
  `CleanStart` and `OwnBuffer` violated: the flag is a plain store, and another processor may see it before
  the zeros. Which processors enter `_start` is the hypervisor's choice, and
  `arch_init`, which switches them on by PSCI, expects the first one only; so
  this is stated as the theorems' condition and not as a finding.

`HartStartProofs`
* `TypeCorrect`, `LockIsKept`: no condition.
* `HartsGoOn`: no condition; the safety half of `AllReachMain`: while a hart that
  was started is not in `main`, one of them can go on.
* `HartsGoForward`: no condition; as `BootGoesForward`, for store-conditionals.
* `UsesLock`: no condition; `init_lock` behaves as `LockService`.
* `NobodyIsLeft`: if hart 0 or hart 1 is started first. The invariant
  strengthens "nobody is left" to what each loop still has to do for the harts
  that are off. With `Firsts = {2}` TLC finds the
  property violated: hart 2 starts hart 0, hart 0 starts hart 1 before hart 2
  does and stops at hart 2, which is on; hart 1 stops at hart 0, hart 2 at hart
  1, and hart 3 stays off. The theorem says how far the code may rely on the
  hypervisor: it has to start one of the guest's first two harts.

`SpinLockProofs`
* `LockIsOne`, `LockRefines`: no condition. A processor that loaded zero and still
  has its reservation sees the word as it is (`ReservedFree`); the word is one
  exactly while somebody owns the lock or, on RISC-V, has still to fence
  (`OwnerInv`); stores wait only from the work to the release (`Waiting`); on Armv8
  the free lock has the data of its last owner beside it (`Fresh`).
* `SpinsForSomebody`: no condition; the safety half of `SomebodyGetsIn`: whenever
  the lock word is set, somebody is on its way to clear it or its clearing store
  is on its way to memory.
* `FencedIsFresh`, `ReleaseFences`: what is left of the promise of the data on
  RISC-V, where the fence comes after the store that frees the lock. On either
  architecture the next holder reads what the last one wrote if the lock is
  taken only when all earlier stores are seen (`FencedFirst`); Armv8's
  store-release sees to that, RISC-V's sequence does not.

`IpcShmemProofs`: for any number of writers, any lines and texts and any sizes of
the channel, of the handler's buffer and of reads
* `TypeCorrect`: no copy leaves the channel.
* `MissesNothing`: the invariant, `ZephyrInv`, says what is true unless something
  is *coming*, that is unless the bell is pending or a writer has not rung yet:
  what the boot erased stays erased, the handler's copy agrees with the channel
  where it has been copied, and the line printed last is the channel's. A write
  makes itself come before it changes anything. The lemmas about `Line` need that
  a set of numbers has a least element, from the library's well-founded orders.
* `ShowsLastLine`: `CleanInv` follows an undisturbed write through its cells, up
  to the newline behind which an older line may stand.
* `CatPrintsIt`: `TextInv` and `CatInv`: as long as no key is pressed the text in
  the channel stands, and what cat has measured, copied and printed is of it.
* `KeepsPlaces`: without "undisturbed". However writes, boot, handler, keys and
  reads overlap, Zephyr prints one line at most, of characters that were written,
  and nothing from behind a newline; and each character that cat prints is at its
  place in some text: texts may be mixed, but nothing is shifted, doubled or made
  up. (Lines can be shifted: a second write on one open file starts further on.)
* `CallsEnd`: the safety half of `EventuallyShown`. A step that begins no write, no
  UART interrupt and no cat brings one that is under way closer to its end and
  sets none back; a write may ring the bell again, and nothing else can.

`InterruptsProofs`: for any processors, plans and numbers of interrupts, on each
controller, up to the point where a program goes on with an overwritten stack
* `HandlersExclude`: the processor that has an interrupt in hand is the one that
  the controller has noted as its acknowledger (`Taken`).
* `SettingsStay`: `Settled` has a part for the places and locks (who is between
  the two accesses to a shared word holds its lock, and what it has read is still
  so), for targets, enables and priorities of calls that have got so far.
* `SignalsAreSeen`: if in every plan who enables IPIs has registered their handler
  before (`RegistersFirst(Ipi)`), since `irq_handle` drops an interrupt without one.
  `SignalInv` ties the word an IPI carries to the interrupt: while it is unread
  the IPI is pending or in hand with its handler still to run; an IPI that is
  enabled or in hand has its handler in the table, or on a GICv3 the enabling of
  number 32 has let it in.
* `DevicesAreHeard`: the same for devices, if in every plan who enables a device's
  interrupt has registered its handler before. What a device wants has been seen
  by a handler, or its interrupt is pending, or in hand with the handler still to
  run (`NoneForgotten`): also when it comes again while it is handled, or when
  it interrupts two processors. With `SettingsStay`, which says who listens, it is
  the half of `Handled` that is about the interrupt; `LocksAreLeft` is the half
  about the calls.
* `NoneKept`: no condition. An interrupt that is acknowledged is in hand of the
  processor that acknowledged it (`InHand`), so none is kept from the others.
* `LocksAreLeft`: no condition. Every lock that is
  taken belongs to a processor in the middle of a call that lets it go
  (`LocksLeft`), no processor waits for a lock that it holds itself, and while
  one has work left, one can go on (`NobodyBlocks`). Its proof showed that an
  earlier `SendSgi` stopped for ever at an empty mask, where the code's loop
  just ends; the module was corrected, and a plan now has that case.

`DeploymentProofs`
* `TestIsSound`: whatever 32-bit numbers a device tree holds, channels that the
  Linux driver accepts are inside the window and apart. The assumption on the
  constants is that nodes hold such numbers, that a window has at most 2^32 bytes,
  and that addresses and sizes are natural numbers.
* `FittingAccepted`: if the nodes of the files fit (`NodesFit`: channels end before
  the window does, are apart, and the device number was reserved), no driver
  refuses one: `DeployedAccepted`. With `TestIsSound` this frames the test from
  both sides; a channel that fills its window exactly is what lies between.
* `AffinitiesKept`: if no processor is named by two VMs and a VM that names some
  names enough of the platform's (`AffinitiesFit`), every VM gets exactly the
  processors it asks for, and those it names, in any order of arrival.
  `AffinityInv` adds to the count of each VM's processors that a VM which names
  some has only those, and has all of them that have looked for a VM, unless it
  needs no more.
* `ProcessorsSuffice`: if the platform has the processors its VMs ask for
  (`EnoughCpus`), a VM that lacks one finds one that can still be given to it: the
  safety half of `EveryVmStarts`. The processors given away are numbered within
  each VM, which makes them fewer than the places the VMs have.
* `DeploysForward`: no condition. No step takes a processor from a VM, a guest that
  runs keeps exactly the processors that it started with, and no driver probes
  twice; each step gives something that was not there. With `ProcessorsSuffice` this
  is `EveryVmStarts` but for fairness.
* `ChannelsCross`: if the nodes are at the windows of their VMs and cross over
  (`NodesMeet`), guests whose drivers are ready meet (`ChannelsMeet`), and, what no
  run checks, of two such guests no page is written by both if one of them is
  Linux (`OneWriter`): its test keeps apart the channels of a Zephyr that tests
  nothing.
* `GuestsMemoryIsOwn`: if `Partitioned` and `GuestBacked` hold, as the run checks,
  then for every file that `Contested` and `Unbacked` do not name: page by page no
  memory that a guest takes from its device tree belongs to another guest that
  runs, except windows that are shared on purpose and memory that the hypervisor
  finds for the VM.

The conditions on data are not assumptions of the modules. `AffinitiesFit`,
`EnoughCpus`, `NodesFit` and `NodesMeet` hold of the files in `MCDeployment`; they
are not assumed there, since a configuration that breaks one is to fail at the
property and not at the condition. `RegistersFirst` is assumed of the plans of
`MCInterrupts`.

"Somebody can go on" would be written with ENABLED, which is out of the
prover's reach. `CanGoOn` spells the guards out instead. Added to the runs of
`boot`, `harts` and `irq` as an invariant, "`CanGoOn` is equivalent to ENABLED of
the processor's step" holds; in the runs of `RpiFirmware`, `CanGoOn` implies it.

Only model-checked:

* the liveness properties (`CallsReturn`, `AllUp`, `AllReachMain`, `SomebodyGetsIn`,
  `EventuallyShown`, `Handled`, `EveryVmStarts`): fairness is out of the prover's
  reach. For each the part that is safety is proved, as said above: that nobody
  waits for something that nobody can do (`CallsReturn`, `AllUp`, `AllReachMain`,
  `SomebodyGetsIn`, `Handled`, `EveryVmStarts`), that no step leads back
  (`CallsReturn`, `AllUp`, `AllReachMain`, `EventuallyShown`, `EveryVmStarts`), or that
  nothing is forgotten (`Handled`).
* `Partitioned`, `GuestBacked`, `NothingTwice`: they say which of the files agree
  with each other, and `deploy` evaluates them on every file. A theorem about all
  files would have to assume what it says; what follows from the first two for
  the guests is `GuestsMemoryIsOwn`.

No module uses RECURSIVE operators.

## 6. Findings

1. `rpi_late`. "Synchronously waits for the reply" is not so after a timeout.
   `response_callback` completes the wait whatever message came, so the late
   answer to one call ends the wait of another, in the same guest or the next
   that has the mailbox. `property_list` then copies the tags and only after
   that reads the status word. If the firmware answers in between, the call
   returns 0 and its data is its own request. The status word saves the
   caller in every other case (`SuccessIsMine`).
2. `rpi_stuck`. The deployed patch returns from a refused hypercall with
   `transaction_lock` held; the next call in the guest waits forever.
3. `handle_reboot`. The reboot notifier uses the structure without a reference;
   remove drops the last one before it clears `g_pdev` and the driver data.
   `get_throttled_show` reads the structure in the same way, in the same window.

Two more things go wrong that no document or comment denies, so they are part of
the models and exceptions of the properties, and no findings:

* After a timeout the buffer is freed although the firmware has its address
  (`rpi_firware_transaction_patch.c:159`), and `dma_alloc_coherent` (:130) may
  return it to the next call. `SuccessIsMine` promises a call its own tags only
  if it was not given such a buffer (`reused`). Without the exception TLC finds
  in `rpi_deployed`, after 24 steps: `t1` times out and frees `p1`; `t2` gets
  `p1`; the firmware, which had read the tags of `t1` in it, writes its answer to
  those there, and `t2` returns 0 with them.
* `rpi_firmware_get` reads the driver data and then counts up in the structure
  (:509). Between the put in remove (:471) and the clearing of the driver data the
  structure may be freed, and the count found there is whatever the memory now
  holds. `HandleKeepsFw` and `RefsAreHolders` hold until that count is not zero
  (`misled`).

## 7. Remarks met while modelling

About the configurations and trees. Five of the configurations contradict
themselves or a tree. They are in the run like all others; `MCDeployment` names
them (`MCContested`, `MCUnbacked`, `MCDoubled`), and the invariants say that
these five, and no others, break what is named here:
* `px4/mibench/bao-full.c`: two VMs share device pages and interrupts
  (`Partitioned`) and windows of one VM overlap (`NothingTwice`);
* `px4/rpi4-dualLinux-WORKING.c`, `px4/rpi4-px4-cam-working.c`: windows of one VM
  overlap, or an interrupt is listed twice (`NothingTwice`);
* `linux+zephyr/fvp-a-aarch32.c`: Linux's tree has memory at 0x80000000, its VM
  at 0xa0000000 (`GuestBacked`); it also gives the first UART to Linux, which the
  README says is Zephyr's, and two processors to a Zephyr without SMP;
* `zephyr+baremetal/fvp-r-aarch32.c`: Zephyr's tree has 1.5 GiB of memory, its VM
  128 MiB (`GuestBacked`).

`linux+freertos/imx8mn-ddr3l-evk.c` does not compile.
`linux/imx8mn-ddr3l-evk-full-NotWorking.c` announces 67 devices and lists 66. Both
are left out. Some configurations (those for aarch32, several of px4) leave
processors idle that the READMEs count. `px4/make.mk` builds `linux_px4` and
`linux_cam` while `rpi4.c` also wants an image `baremetal`. On Arm the node of
Linux names SPI 52, which is interrupt 84, while the configurations raise 52; the
driver asks for no interrupt, so nothing comes of it. On QEMU the node of Linux
beside Zephyr is 16 pages long and the VM's window 4, of which the channels take
the beginning.

About the spin lock on RISC-V. `spin_unlock` frees the lock before its fence. In
14 steps of the model the next holder reads the word before it sees the last
one's store; in `main` two harts would draw the same ticket. Nothing in the
repository claims more for RISC-V, and `LockProtects` claims the second half for
Armv8 only. `FencedIsFresh` says that the place of the fence is all that is missing.

About interrupts. Two processors that enable the same interrupt on a GICv2 may
lose one of the two targets, which the code reads outside the lock;
`SettingsStick` says what remains. Number 32 is taken for a private interrupt by
`irq_in_gicd`, so enabling it on a GICv3 enables number 0, the IPI. On RISC-V an
IPI that comes between the handler of another and the clearing of SSIP is lost;
`SignalsSeen` has that exception. Synchronous exceptions of RISC-V share the
numbers 1024 + cause with interrupts. A handler that called `irq_enable` or
`irq_set_prio` would wait for a `gicd_lock` that its own processor may hold; no
handler in the repository does. `SAVE_REGS` reserves 22 words and stores two
registers beyond them, on the interrupted program's stack (`exceptions.S:19-34`);
`SaveRegs` is that. `gicd_get_prio`'s mask and `gic_num_irqs` are odd, and
nobody calls them.

About the channel. A second write on the same open file lands behind the first
line; Zephyr's handler is told of it and prints the first line again, since it
stops at the first newline. Writes that overlap may leave a mixture of two lines,
which Zephyr prints: `LastLineShown` is about a write that was alone.
`bao_ipcshmem_unregister` is a TODO: unbinding the driver would
leave a character device whose structure is freed.

About the consoles. `pl011_uart_getc` waits until the queue is empty, and
`xil_uart_getc` tests `!status & mask`; nobody calls either.

## 8. Not modelled, and why

* The other inter-VM demos: the FreeRTOS and bare-metal sides are submodules whose
  contents are not in the repository. Linux's side is that of `IpcShmem`; Zephyr's
  shell commands are used only beside the bare-metal guest.
* Timers and consoles of the interference guest: pokes at registers without state
  of their own, and `main` has its calls of them commented out.
* The functions of `gicv2.c` and `gicv3.c` that `irq.c` does not call.
* The Linux loader: a straight-line jump to the kernel on each processor.
* Make files and deployment scripts: sequential I/O. What a make file decides for
  a configuration, the addresses images are put at, is in `DeviceTrees`.
* MiBench, copied kernel device trees, images: third-party code and data.

## 9. State of the plan

Done, in this order: the channel and its abstract specification; the life cycle;
the Armv8 boot; the spin lock; the inter-VM channel; the RISC-V boot;
configurations, trees and the layout test; the interrupts; the data under the
spin lock on both architectures; `get_throttled`; theorems for every module with
actions; the safety halves of the liveness properties; IPIs, affinities and the
layout test for any plans and files; the boots' use of the abstract lock; that no
step leads back; the fence of the lock; disturbed readers of the inter-VM
channel; devices' interrupts; the channel and the memory of two guests; buffers and
structures that are used again while somebody still has their address; the
position of open files; the interrupted stack; the files that contradict
themselves as part of the run.

What would come next: the kernel's side of probe errors in `RpiFirmwareHandle`; a
bound on how often a processor is interrupted for nothing, which would make
`Handled` a matter of fairness alone.
