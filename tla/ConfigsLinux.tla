---------------------------- MODULE ConfigsLinux ----------------------------
(***************************************************************************)
(* The configurations of the linux demo.  Nine of its files are those of   *)
(* linux+freertos byte for byte.  The device lists of the files for the    *)
(* imx8mn-ddr3l-evk are definitions of their own.  The file whose name ends*)
(* in full-NotWorking is left out: it says 67 devices and lists 66.        *)
(***************************************************************************)
EXTENDS BaoConfig

LF == INSTANCE ConfigsLinuxFreertos

FvpAAarch32 == LF!FvpAAarch32
FvpA == LF!FvpA
FvpR == LF!FvpR
Imx8qm == LF!Imx8qm
QemuAarch64Virt == LF!QemuAarch64Virt
QemuRiscv64Virt == LF!QemuRiscv64Virt
Rpi4 == LF!Rpi4
Tx2 == LF!Tx2
Zcu104 == LF!Zcu104
Imx8mnEvkDevicesA ==
    <<Timer, Dev(\h30220, \h10, {100, 101}), Dev(\h30230, \h10, {102, 103}),
      Dev(\h30330, \h10, {}), Dev(\h30350, \h10, {}),
      Dev(\h30360, \h10, {}), Dev(\h30380, \h10, {}),
      Dev(\h303A0, \h10, {119}), Dev(\h30890, \h10, {59}),
      Dev(\h30BE0, \h10, {150, 151, 152, 153})>>

Imx8mnEvkDevicesB ==
    <<Dev(\h30370, \h10, {51, 52, 36})>>

Imx8mnEvk ==
    Config(<<>>, <<
        Vm("linux", \h40200, 4, <<Region(\h40200, \h30000)>>, <<>>,
            Imx8mnEvkDevicesA \o Imx8mnEvkDevicesB, {\h38800, \h38880})>>)

Imx8mnEvkMediumDevicesA ==
    <<Dev(\h302B0, \h10, {66}), Timer, Dev(\h30890, \h10, {43}),
      Dev(\h30360, \h10, {}), Dev(\h30380, \h10, {}),
      Dev(\h30330, \h10, {}), Dev(\h30860, \h10, {42}),
      Dev(\h30AA0, \h10, {120})>>

Imx8mnEvkMediumDevicesB ==
    <<Dev(\h3D800, \h400, {130}), Dev(\h30B60, \h10, {40}),
      Dev(\h303A0, \h10, {119}), Dev(\h30BD0, \h10, {18})>>

Imx8mnEvkMedium ==
    Config(<<>>, <<
        Vm("linux", \h40400, 4, <<Region(\h40400, \h30000)>>, <<>>,
            Imx8mnEvkMediumDevicesA \o Imx8mnEvkMediumDevicesB,
            {\h38800, \h38880})>>)

Imx8mnEvkMajorDevicesA ==
    <<Timer, Dev(\h30890, \h10, {43}), Dev(\h30360, \h10, {}),
      Dev(\h30380, \h10, {}), Dev(\h30330, \h10, {}),
      Dev(\h30860, \h10, {42}), Dev(\h30AA0, \h10, {120}),
      Dev(\h3D800, \h400, {130})>>

Imx8mnEvkMajorDevicesB ==
    <<Dev(\h30B60, \h10, {40}), Dev(\h303A0, \h10, {119}),
      Dev(\h30BD0, \h10, {18})>>

Imx8mnEvkMajor ==
    Config(<<>>, <<
        Vm("linux", \h40400, 4, <<Region(\h40400, \h30000)>>, <<>>,
            Imx8mnEvkMajorDevicesA \o Imx8mnEvkMajorDevicesB,
            {\h38800, \h38880})>>)

\* The files by name.
Files ==
    [FvpAAarch32 |-> FvpAAarch32, FvpA |-> FvpA, FvpR |-> FvpR,
     Imx8qm |-> Imx8qm, QemuAarch64Virt |-> QemuAarch64Virt,
     QemuRiscv64Virt |-> QemuRiscv64Virt, Rpi4 |-> Rpi4, Tx2 |-> Tx2,
     Zcu104 |-> Zcu104, Imx8mnEvk |-> Imx8mnEvk,
     Imx8mnEvkMedium |-> Imx8mnEvkMedium, Imx8mnEvkMajor |-> Imx8mnEvkMajor]
=============================================================================
