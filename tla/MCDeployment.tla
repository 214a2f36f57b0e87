---------------------------- MODULE MCDeployment ----------------------------
(***************************************************************************)
(* Every configuration of the six demos, each on its platform, with the   *)
(* device trees of its guests.                                             *)
(***************************************************************************)
EXTENDS Deployment, DeviceTrees, TLC

B  == INSTANCE ConfigsBaremetal
L  == INSTANCE ConfigsLinux
LF == INSTANCE ConfigsLinuxFreertos
LZ == INSTANCE ConfigsLinuxZephyr
ZB == INSTANCE ConfigsZephyrBaremetal
P  == INSTANCE ConfigsPx4

Files == [baremetal |-> B!Files, linux |-> L!Files,
          linuxFreertos |-> LF!Files, linuxZephyr |-> LZ!Files,
          zephyrBaremetal |-> ZB!Files, px4 |-> P!Files]

Names == UNION {{<<d, f>> : f \in DOMAIN Files[d]} : d \in DOMAIN Files}

\* mibench/bao-full.c: both VMs are given the console, the clock manager, the
\* GPIO, DMA and I2C controllers, and their interrupts.
MCContested == {<<"px4", "MibenchFull">>}

\* linux+zephyr/fvp-a-aarch32.c: Linux's tree has memory at 0x80000000 (in a
\* node named memory@a0000000), the VM's is at 0xa0000000.
\* zephyr+baremetal/fvp-r-aarch32.c: Zephyr's tree has 1.5 GiB of memory, the
\* VM has 128 MiB.
MCUnbacked == {<<"linuxZephyr", "FvpAAarch32">>, <<"zephyrBaremetal", "FvpRAarch32">>}

\* mibench/bao-full.c and rpi4-px4-cam-working.c list the mailbox and the DMA
\* controller twice for one VM; rpi4-dualLinux-WORKING.c gives a VM a device
\* window over a placed region of its.
MCDoubled == {<<"px4", "MibenchFull">>, <<"px4", "Rpi4Px4CamWorking">>,
              <<"px4", "Rpi4DualLinux">>}

ConfigOf(n) == Files[n[1]][n[2]]

\* The processors of the platform, whose name is the file's.
CpusOf(n) == CASE n[2] \in {"Tx2", "Imx8qm"} -> 6
               [] n[2] = "BbAi64" -> 2
               [] OTHER -> 4

MCShared == {<<\hFE00B, 1>>}

FlashOfDemo ==
    [baremetal |-> FlashBaremetal, linux |-> FlashLinuxFreertos,
     linuxFreertos |-> FlashLinuxFreertos, linuxZephyr |-> FlashLinuxZephyr,
     zephyrBaremetal |-> FlashZephyrBaremetal, px4 |-> <<>>]

-----------------------------------------------------------------------------
(* The device trees of the guests.  FreeRTOS and the baremetal guest are   *)
(* not in the repository: NoTree asks for nothing.                         *)

NoTree == Tree(8, {}, {}, {}, NoNode)

LinuxBesideFreertos ==
    [FvpA |-> FvpA(3, \hA0000), FvpAAarch32 |-> FvpA(3, \hA0000),
     FvpR |-> FvpR(3, \h20000), Imx8qm |-> Imx8qm,
     QemuAarch64Virt |-> QemuAarch64Virt(3),
     QemuRiscv64Virt |-> QemuRiscv64Virt, Rpi4 |-> Rpi4, Tx2 |-> Tx2,
     Zcu104 |-> Zcu104, Imx8mnEvk |-> Imx8mnEvk]

LinuxAndZephyr ==
    [FvpA |-> <<FvpA(2, \hA0000), ZephyrFvpA(PeerOfLinux)>>,
     FvpAAarch32 |-> <<FvpA(3, \h80000), ZephyrFvpAAarch32(PeerOfLinux)>>,
     FvpR |-> <<FvpR(2, \h28000), ZephyrFvpR(PeerOfLinux)>>,
     QemuAarch64Virt |-> <<QemuAarch64Virt(2),
                           ZephyrQemuAarch64Virt(PeerOfLinux)>>,
     Rpi4 |-> <<Rpi4, ZephyrRpi4(PeerOfLinux)>>]

ZephyrBesideBaremetal ==
    [FvpA |-> ZephyrFvpA(PeerOfBaremetal),
     FvpAAarch32 |-> ZephyrFvpAAarch32(PeerOfBaremetal),
     FvpR |-> ZephyrFvpR(PeerOfBaremetal),
     FvpRAarch32 |-> ZephyrFvpRAarch32(PeerOfBaremetal)]

TreesOfImage == [linux_px4 |-> Px4, linux_cam |-> Cam, baremetal |-> Interf]

TreesOf(n) ==
    CASE n[1] \in {"linux", "linuxFreertos"} ->
           IF n[2] \in DOMAIN LinuxBesideFreertos
           THEN <<LinuxBesideFreertos[n[2]], NoTree>> ELSE <<NoTree>>
      [] n[1] = "linuxZephyr" -> LinuxAndZephyr[n[2]]
      [] n[1] = "zephyrBaremetal" -> <<ZephyrBesideBaremetal[n[2]], NoTree>>
      [] n[1] = "px4" ->
           [v \in DOMAIN ConfigOf(n).vms |->
              LET i == ConfigOf(n).vms[v].image IN
              IF i \in DOMAIN TreesOfImage THEN TreesOfImage[i] ELSE NoTree]
      [] OTHER -> <<NoTree>>

MCDeployments ==
    {[name |-> n, cpus |-> CpusOf(n), config |-> ConfigOf(n),
      mpu |-> n[2] \in {"FvpR", "FvpRAarch32"},
      flash |-> FlashOfDemo[n[1]], trees |-> TreesOf(n)] : n \in Names}

\* Nodes that nobody wrote, for Linux beside Zephyr on the rpi4.
MCWidth == 1048576
MCTrials ==
    (<<"linuxZephyr", "Rpi4">> :>
       {[LinuxNode(\hF0000, 84) EXCEPT !.pages = p, !.read = r, !.write = w,
                                       !.id = i] :
          p \in {4, \h10}, i \in {-1, 0, 16},
          r \in {0, 2, MCWidth - 2} \X {2, 3, MCWidth - 1},
          w \in {0, 2, MCWidth - 2} \X {2, 3, MCWidth - 1}})
=============================================================================
