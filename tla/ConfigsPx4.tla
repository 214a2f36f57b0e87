----------------------------- MODULE ConfigsPx4 -----------------------------
(***************************************************************************)
(* The configurations of the px4 demo: rpi4.c, which the build takes, and  *)
(* the variants kept beside it, one definition per file, or per VM where the*)
(* file is long.                                                           *)
(***************************************************************************)
EXTENDS BaoConfig

\* Mutant: the page of a device is listed a second time.
Px4DevicesTwice ==
    <<Timer, Dev(\hFE201, 1, {153}), Dev(\hFE101, 2, {}),
      Dev(\hFE00B, 1, {}), Dev(\hFE200, 1, {145, 146}),
      Dev(\hFE204, 1, {150}), Dev(\hFE00B, 1, {149})>>

Px4Devices ==
    <<Timer, Dev(\hFE201, 1, {153}), Dev(\hFE101, 2, {}),
      Dev(\hFE00B, 1, {}), Dev(\hFE200, 1, {145, 146}),
      Dev(\hFE215, 1, {125}), Dev(\hFE204, 1, {150}),
      Dev(\hFE007, 1, {112, 113, 114, 115, 116, 117, 118, 119, 120}),
      Dev(\hFE804, 1, {149})>>

\* Mutant: the second VM has the console too, and a color of the first.
Rpi4Mixed ==
    Config(<<>>, <<
        Colored(Vm("linux_px4", \hBC00, 1,
            <<Placed(\hBC00, \h8800), Placed(\h40000, \hBC000)>>, <<>>,
            Px4Devices, {\hFF841, \hFF842}), {0}, {0, 1, 2, 3}),
        Colored(Vm("baremetal", \h14400, 3,
            <<Region(\h14400, \h27000)>>, <<>>,
            <<Timer, Dev(\hFE201, 1, {153})>>,
            {\hFF841, \hFF842}), {1, 2, 3}, {3, 4, 5, 6})>>)

Rpi4 ==
    Config(<<>>, <<
        Colored(Vm("linux_px4", \hBC00, 1,
            <<Placed(\hBC00, \h8800), Placed(\h40000, \hBC000)>>, <<>>,
            Px4Devices, {\hFF841, \hFF842}), {0}, {0, 1, 2, 3}),
        Colored(Vm("baremetal", \h14400, 3,
            <<Region(\h14400, \h27000)>>, <<>>,
            <<Timer>>, {\hFF841, \hFF842}), {1, 2, 3}, {4, 5, 6})>>)

Mibench ==
    Config(<<>>, <<
        Pinned(Vm("linux_px4", \hBC00, 1,
            <<Placed(\hBC00, \h8800), Placed(\h40000, \hBC000)>>, <<>>,
            Px4Devices, {\hFF841, \hFF842}), {0})>>)

MibenchCol ==
    Config(<<>>, <<
        Colored(Vm("linux_px4", \hBC00, 1,
            <<Placed(\hBC00, \h8800), Placed(\h40000, \hBC000)>>, <<>>,
            Px4Devices, {\hFF841, \hFF842}), {0}, {0, 1, 2, 3, 4, 5, 6})>>)

MibenchInterf ==
    Config(<<>>, <<
        Pinned(Vm("linux_px4", \hBC00, 1,
            <<Placed(\hBC00, \h8800), Placed(\h40000, \hBC000)>>, <<>>,
            Px4Devices, {\hFF841, \hFF842}), {0}),
        Pinned(Vm("baremetal", \h14400, 3,
            <<Region(\h14400, \h27000)>>, <<>>,
            <<Timer>>, {\hFF841, \hFF842}), {1, 2, 3})>>)

MibenchInterfCol ==
    Config(<<>>, <<
        Colored(Vm("linux_px4", \hBC00, 1,
            <<Placed(\hBC00, \h8800), Placed(\h40000, \hBC000)>>, <<>>,
            Px4Devices, {\hFF841, \hFF842}), {0}, {0, 1, 2, 3}),
        Colored(Vm("baremetal", \h14400, 3,
            <<Region(\h14400, \h27000)>>, <<>>,
            <<Timer>>, {\hFF841, \hFF842}), {1, 2, 3}, {4, 5, 6})>>)

MibenchInterfTest ==
    Config(<<>>, <<
        Pinned(Vm("baremetal", \h14400, 3,
            <<Region(\h14400, \h1000)>>, <<>>,
            <<Timer, Dev(\hFE201, 1, {153})>>,
            {\hFF841, \hFF842}), {1, 2, 3})>>)

MibenchFullVm1 ==
    Vm("linux_vm2", \h9000, 1,
        <<Placed(\h9000, \hB000), Placed(\h40000, \hBC000)>>, <<>>,
        <<Timer, Dev(\hFE201, 1, {153}), Dev(\hFE101, 2, {}),
          Dev(\hFE00B, 1, {65}), Dev(\hFE200, 1, {145, 146}),
          Dev(\hFE215, 1, {125}), Dev(\hFE204, 1, {150}),
          Dev(\hFE007, 1, {112, 113, 114, 115, 116, 117, 118, 119, 120}),
          Dev(\hFE804, 1, {149})>>, {\hFF841, \hFF842})

MibenchFullVm2 ==
    Vm("linux_vm2", \h14000, 3,
        <<Placed(\h14000, \h27400), Placed(\h100000, \h80000)>>, <<>>,
        <<Timer, Dev(\hFE201, 1, {153}), Dev(\hFE101, 2, {}),
          Dev(\hFE00B, 1, {65}), Dev(\hFE200, 1, {145, 146}),
          Dev(\hFE007, 1, {112, 113, 114, 115, 116, 117, 118, 119, 120}),
          Dev(\hFE804, 1, {149}), Dev(\hFE300, 1, {158}),
          Dev(\hFE205, 1, {}), Dev(\hFE801, 2, {135}),
          Dev(\hFE00B, 1, {66}), Dev(\hFE007, 1, {121, 122, 123, 124})>>,
        {\hFF841, \hFF842})

MibenchFull ==
    Config(<<>>, <<
        MibenchFullVm1,
        MibenchFullVm2>>)

Rpi4DualLinuxVm1 ==
    Vm("linux_px4", \hBC00, 1,
        <<Placed(\hBC00, \h8800), Placed(\h40000, \hBC000)>>, <<>>,
        Px4Devices, {\hFF841, \hFF842})

Rpi4DualLinuxVm2 ==
    Vm("linux_cam", \h14400, 3, <<Placed(\h14400, \h27000),
          Placed(\h100000, \h80000),
          Placed(\h600000, \h40000)>>, <<>>,
        <<Timer, Dev(\hFE00B, 1, {}), Dev(\hFD500, \h10, {179, 180}),
          Dev(\hFD580, \h10, {189, 190}), Dev(\h600000, \h40000, {})>>,
        {\hFF841, \hFF842})

Rpi4DualLinux ==
    Config(<<>>, <<
        Rpi4DualLinuxVm1,
        Rpi4DualLinuxVm2>>)

Rpi4FullCommVm1 ==
    Vm("linux", \h200, 4, <<Region(\h200, \h20000)>>, <<>>,
        <<Timer, Dev(\hFE201, 1, {153}), Dev(\hFE101, 2, {}),
          Dev(\hFE200, 1, {145, 146}), Dev(\hFE209, 1, {132}),
          Dev(\hFE700, 1, {140})>>, {\hFF841, \hFF842})

Rpi4FullComm ==
    Config(<<>>, <<
        Rpi4FullCommVm1>>)

Rpi4Backup ==
    Config(<<\h10>>, <<
        Vm("linux", \h20000, 3,
            <<Placed(\h20000, \h40000)>>, <<Ipc(\hF0000, \h10, 0, {52})>>,
            <<Dev(\hFD580, \h10, {189, 190}), Timer>>, {\hFF841, \hFF842})>>)

Rpi4Px4CamWorking ==
    Config(<<>>, <<
        Vm("linux", \h10000, 4,
            <<Placed(\h10000, \h2B400), Placed(\h40000, \hBC000)>>, <<>>,
            <<Dev(\hFD580, \h10, {189, 190}), Timer, Dev(\hFE201, 1, {153}),
              Dev(\hFE101, 2, {}), Dev(\hFE00B, 1, {65}),
              Dev(\hFE200, 1, {145, 146}), Dev(\hFE215, 1, {125}),
              Dev(\hFE204, 1, {150}),
              Dev(\hFE007, 1, {112, 113, 114, 115, 116, 117, 118, 119, 120}),
              Dev(\hFE804, 1, {149}), Dev(\hFE300, 1, {158}),
              Dev(\hFE205, 1, {}), Dev(\hFE801, 2, {135}),
              Dev(\hFE00B, 1, {66}), Dev(\hFE007, 1, {121, 122, 123, 124})>>,
            {\hFF841, \hFF842})>>)

Rpi4Px4 ==
    Config(<<>>, <<
        Vm("linux", \h10000, 3, <<Placed(\h10000, \h2B400)>>, <<>>,
            <<Dev(\hFD580, \h10, {189, 190}), Timer, Dev(\hFE201, 1, {153}),
              Dev(\hFE101, 2, {}), Dev(\hFE00B, 1, {65}),
              Dev(\hFE200, 1, {145, 146}), Dev(\hFE215, 1, {125}),
              Dev(\hFE204, 1, {150}),
              Dev(\hFE007, 1, {112, 113, 114, 115, 116, 117, 118, 119, 120}),
              Dev(\hFE804, 1, {149}), Dev(\hFE300, 1, {158})>>,
            {\hFF841, \hFF842})>>)

Rpi4Vm1 ==
    Config(<<>>, <<
        Vm("linux", \h9000, 1,
            <<Placed(\h9000, \hB000), Placed(\h40000, \hBC000)>>, <<>>,
            <<Timer, Dev(\hFE201, 1, {153}), Dev(\hFE101, 2, {}),
              Dev(\hFE00B, 1, {65}), Dev(\hFE200, 1, {145, 146}),
              Dev(\hFE215, 1, {125}), Dev(\hFE204, 1, {150}),
              Dev(\hFE007, 1, {112, 113, 114, 115, 116, 117, 118, 119, 120}),
              Dev(\hFE804, 1, {149})>>, {\hFF841, \hFF842})>>)

Rpi4Wip ==
    Config(<<>>, <<
        Vm("linux", \h8000, 1, <<Placed(\h8000, \hC000)>>, <<>>,
            <<Timer, Dev(\hFE201, 1, {153}), Dev(\hFE101, 2, {}),
              Dev(\hFE00B, 1, {65}), Dev(\hFE200, 1, {145, 146}),
              Dev(\hFE215, 1, {125}), Dev(\hFE204, 1, {150}),
              Dev(\hFE007, 1, {112, 113, 114, 115, 116, 117, 118, 119, 120}),
              Dev(\hFE804, 1, {149})>>, {\hFF841, \hFF842})>>)

\* The files by name.
Files ==
    [Rpi4 |-> Rpi4, Mibench |-> Mibench, MibenchCol |-> MibenchCol,
     MibenchInterf |-> MibenchInterf,
     MibenchInterfCol |-> MibenchInterfCol,
     MibenchInterfTest |-> MibenchInterfTest, MibenchFull |-> MibenchFull,
     Rpi4DualLinux |-> Rpi4DualLinux, Rpi4FullComm |-> Rpi4FullComm,
     Rpi4Backup |-> Rpi4Backup, Rpi4Px4CamWorking |-> Rpi4Px4CamWorking,
     Rpi4Px4 |-> Rpi4Px4, Rpi4Vm1 |-> Rpi4Vm1, Rpi4Wip |-> Rpi4Wip]
=============================================================================
