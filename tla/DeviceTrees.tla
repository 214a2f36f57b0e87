---------------------------- MODULE DeviceTrees ----------------------------
(***************************************************************************)
(* What the guests' device trees say: how many processors there are, where *)
(* memory, the interrupt controller and devices are, and the node of the   *)
(* inter-VM channel.  Pages of 4 KiB, as in BaoConfig; an interrupt is the *)
(* number the controller knows it by (32 more than the number of an SPI).  *)
(* The trees of whole boards (imx8mn-ddr3l-evk, px4) are given without     *)
(* their devices, of which the configurations enable some.  A guest without*)
(* a device tree has its places from its headers.                          *)
(***************************************************************************)
EXTENDS BaoConfig

\* A bao,ipcshmem node: the window, the channels as <<offset, size>> and
\* the device's number.  Every one has id 0; -1 is a node without id.
Node(base, pages, read, write, irq) ==
    [base |-> base, pages |-> pages, read |-> read, write |-> write,
     irq |-> irq, id |-> 0]

NoNode == Node(0, 0, <<0, 0>>, <<0, 0>>, 0)

Tree(cpus, memory, gic, devs, node) ==
    [cpus |-> cpus, memory |-> memory, gic |-> gic, devs |-> devs,
     node |-> node]

-----------------------------------------------------------------------------
(* The trees of Linux.  Its node reads the first half of the channel pair  *)
(* and writes the second; on Arm the interrupt it names is SPI 52.         *)

\* Mutant: the second channel ends where the window does.
LinuxNodeFull(base, irq) == Node(base, \h10, <<0, 8>>, <<8, 8>>, irq)

LinuxNode(base, irq) == Node(base, \h10, <<0, 2>>, <<2, 2>>, irq)

FvpA(cpus, memory) ==
    Tree(cpus, {<<memory, \h40000>>}, {\h2F000, \h2F100},
         {Dev(\h1C0A0, 1, {38}), Dev(\h1A000, \h10, {47})},
         LinuxNode(\hF0000, 84))

FvpR(cpus, memory) ==
    Tree(cpus, {<<memory, \h40000>>}, {\hAF000, \hAF100},
         {Dev(\h9C0C0, 1, {40}), Dev(\h9A000, \h10, {47})},
         LinuxNode(\h70000, 84))

Imx8qm ==
    Tree(5, {<<\h80200, \h20000>>}, {\h51A00, \h51B00},
         {Dev(\h5D1C0, \h10, {209}), Dev(\h5B230, \h10, {}),
          Dev(\h5B040, \h10, {288, 289, 290, 291})},
         LinuxNode(\hF0000, 84))

QemuAarch64Virt(cpus) ==
    Tree(cpus, {<<\h60000, \h40000>>}, {\h8000, \h80A0},
         {Dev(\hA003, 1, {72 + i}) : i \in 0 .. 7}, LinuxNode(\hF0000, 84))

QemuRiscv64Virt ==
    Tree(3, {<<\h90000, \h40000>>}, {\hC000},
         {Dev(\h10000 + i, 1, {i}) : i \in 1 .. 8}, LinuxNode(\hF0000, 52))

Rpi4 ==
    Tree(3, {<<\h20000, \h40000>>}, {\hFF841, \hFF842},
         {Dev(\hFD580, \h10, {189, 190})}, LinuxNode(\hF0000, 84))

Tx2 ==
    Tree(5, {<<\h90000, \h40000>>, <<\h30000, \h50>>}, {\h3881, \h3882},
         {Dev(\h3C00, \hA0, {208}), Dev(\h2490, \h10, 218 .. 227),
          Dev(\h2200, \h20, {79, 82, 85, 88, 91, 212})},
         LinuxNode(\hF0000, 84))

Zcu104 ==
    Tree(3, {<<0, \h40000>>}, {\hF9010, \hF9020},
         {Dev(\hFF010, 1, {54}), Dev(\hFF0E0, 1, {95})},
         LinuxNode(\hF0000, 84))

Imx8mnEvk == Tree(4, {<<\h40200, \h20000>>}, {}, {}, NoNode)

Px4 == Tree(1, {<<\hBC00, \h8800>>, <<\h40000, \hBC000>>}, {}, {}, NoNode)

Cam == Tree(4, {<<\h14400, \h27000>>, <<\h100000, \h80000>>}, {}, {}, NoNode)

-----------------------------------------------------------------------------
(* The trees of Zephyr: a board's, with the demo's app.overlay.            *)

\* Mutant: the channels as Linux has them.
PeerUncrossed == Node(\h70000, 4, <<0, 2>>, <<2, 2>>, 52)

\* The channels of linux+zephyr and of zephyr+baremetal, and no channel.
PeerOfLinux == Node(\h70000, 4, <<2, 2>>, <<0, 2>>, 52)
PeerOfBaremetal == Node(\h70000, 4, <<0, 2>>, <<2, 2>>, 52)

ZephyrFvpA(node) ==
    Tree(2, {<<\h90000, \h8000>>}, {\h2F000, \h2F100},
         {Dev(\h1C0B0, 1, {39})}, node)

ZephyrFvpR(node) ==
    Tree(2, {<<\h20000, \h4000>>, <<\h24000, \h4000>>}, {\hAF000, \hAF100},
         {Dev(\h9C0B0, \h10, {39})}, node)

\* The 32-bit boards include a tree of Zephyr's own for the rest.
ZephyrFvpAAarch32(node) == Tree(1, {<<\h20000, \h8000>>}, {}, {}, node)
ZephyrFvpRAarch32(node) == Tree(1, {<<\h24000, \h60000>>}, {}, {}, node)

ZephyrQemuAarch64Virt(node) ==
    Tree(2, {<<\h80000, \h8000>>}, {\h8000, \h80A0},
         {Dev(\h9000, 1, {33})}, node)

\* Mutant: all of the board's memory above the place of the VM's.
ZephyrRpi4Big(node) ==
    Tree(1, {<<\h80000, \h40000>>}, {\hFF841, \hFF842},
         {Dev(\hFE215, 1, {125})}, node)

ZephyrRpi4(node) ==
    Tree(1, {<<\h80000, \h8000>>}, {\hFF841, \hFF842},
         {Dev(\hFE215, 1, {125})}, node)

-----------------------------------------------------------------------------
(* The interference guest as it is linked for the rpi4, with buffers for   *)
(* three processors, and where the FVP-R's images are put in its memory.   *)

Interf == Tree(3, {<<\h14400, \h1000>>}, {\hFF841, \hFF842}, {}, NoNode)

FlashBaremetal == [baremetal |-> \h10000]
FlashLinuxFreertos == [linux |-> \h20000, freertos |-> \h10000]
FlashLinuxZephyr == [linux |-> \h28000, zephyr |-> \h24000]
FlashZephyrBaremetal == [baremetal |-> \h10000, zephyr |-> \h24000]
=============================================================================
