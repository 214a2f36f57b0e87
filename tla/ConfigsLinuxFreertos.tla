------------------------ MODULE ConfigsLinuxFreertos ------------------------
(***************************************************************************)
(* The configurations of the linux+freertos demo, one definition per file. *)
(* The one for the imx8mn-ddr3l-evk is left out: it uses a macro that it   *)
(* does not define and does not compile.  The stream ids of DMA devices    *)
(* (.id) are left out, and tx2's device that has nothing else.             *)
(***************************************************************************)
EXTENDS BaoConfig

FvpAAarch32 ==
    Config(<<\h10>>, <<
        Vm("linux", \hA0000, 2,
            <<Placed(\hA0000, \h40000)>>, <<Ipc(\hF0000, \h10, 0, {52})>>,
            <<Dev(\h1C0A0, \h10, {38}), Dev(\h1A000, \h10, {47}), Timer>>,
            {\h2F000, \h2F100}),
        Vm("freertos", 0, 1,
            <<Region(0, \h8000)>>, <<Ipc(\h70000, \h10, 0, {52})>>,
            <<DevAt(\h1C090, \hFF000, \h10, {37}), Timer>>,
            {\hF9010, \hF9020})>>)

FvpA ==
    Config(<<\h10>>, <<
        Vm("linux", \hA0000, 3,
            <<Placed(\hA0000, \h40000)>>, <<Ipc(\hF0000, \h10, 0, {52})>>,
            <<Dev(\h1C0A0, \h10, {38}), Dev(\h1A000, \h10, {47}), Timer>>,
            {\h2F000, \h2F100}),
        Vm("freertos", 0, 1,
            <<Region(0, \h8000)>>, <<Ipc(\h70000, \h10, 0, {52})>>,
            <<DevAt(\h1C090, \hFF000, \h10, {37}), Timer>>,
            {\hF9010, \hF9020})>>)

FvpR ==
    Config(<<\h10>>, <<
        Loaded(Vm("linux", \h20000, 3,
            <<Region(\h20000, \h40000)>>, <<Ipc(\h70000, \h10, 0, {52})>>,
            <<Dev(\h9C0C0, \h10, {40}), Dev(\h9A000, \h10, {47}), Timer>>,
            {\hAF000, \hAF100}), \h20000),
        Loaded(Vm("freertos", \h10000, 1,
            <<Region(\h10000, \h8000)>>, <<Ipc(\h70000, \h10, 0, {52})>>,
            <<Dev(\h9C0A0, \h10, {38}), Timer>>,
            {\hAF000, \hAF100}), \h10000)>>)

Imx8qm ==
    Config(<<\h10>>, <<
        Pinned(Vm("linux", \h80200, 5,
            <<Region(\h80200, \h20000)>>, <<Ipc(\hF0000, \h10, 0, {52})>>,
            <<Dev(\h5D1C0, \h10, {209}), Timer, Dev(\h5B230, \h10, {}),
              Dev(\h5B040, \h10, {288, 289, 290, 291})>>,
            {\h51A00, \h51B00}), {0, 1, 2, 4, 5}),
        Pinned(Vm("freertos", 0, 1,
            <<Region(0, \h8000)>>, <<Ipc(\h70000, \h10, 0, {52})>>,
            <<DevAt(\h5A060, \hFF000, 1, {377}), Timer>>,
            {\hF9010, \hF9020}), {3})>>)

QemuAarch64Virt ==
    Config(<<\h10>>, <<
        Vm("linux", \h60000, 3,
            <<Placed(\h60000, \h40000)>>, <<Ipc(\hF0000, \h10, 0, {52})>>,
            <<Timer, Dev(\hA003, 1, {72, 73, 74, 75, 76, 77, 78, 79})>>,
            {\h8000, \h80A0}),
        Vm("freertos", 0, 1,
            <<Region(0, \h8000)>>, <<Ipc(\h70000, \h10, 0, {52})>>,
            <<DevAt(\h9000, \hFF000, \h10, {33}), Timer>>,
            {\hF9010, \hF9020})>>)

QemuRiscv64Virt ==
    Config(<<\h10>>, <<
        Vm("linux", \h90200, 3,
            <<Placed(\h90000, \h40000)>>, <<Ipc(\hF0000, \h10, 0, {52})>>,
            <<Dev(\h10001, 8, {1, 2, 3, 4, 5, 6, 7, 8})>>, {\hC000}),
        Vm("freertos", 0, 1,
            <<Region(0, \h8000)>>, <<Ipc(\h70000, \h10, 0, {52})>>,
            <<DevAt(\h10000, \hFF000, 1, {10})>>, {\hC000})>>)

Rpi4 ==
    Config(<<\h10>>, <<
        Vm("linux", \h20000, 3,
            <<Placed(\h20000, \h40000)>>, <<Ipc(\hF0000, \h10, 0, {52})>>,
            <<Dev(\hFD580, \h10, {189, 190}), Timer>>, {\hFF841, \hFF842}),
        Vm("freertos", 0, 1,
            <<Region(0, \h8000)>>, <<Ipc(\h70000, \h10, 0, {52})>>,
            <<DevAt(\hFE215, \hFF000, 1, {125}), Timer>>,
            {\hF9010, \hF9020})>>)

Tx2 ==
    Config(<<\h10>>, <<
        Pinned(Vm("linux", \h90000, 5,
            <<Region(\h90000, \h40000), Placed(\h30000, \h50)>>,
            <<Ipc(\hF0000, \h10, 0, {52})>>,
            <<Dev(\h2490, \h10, {226, 227, 222, 218, 223, 219, 224, 220, 225, 221}),
              Dev(\h3C00, \hA0, {208}),
              Dev(\h2200, \h20, {79, 82, 85, 88, 91, 212}), Timer>>,
            {\h3881, \h3882}), {1, 2, 3, 4, 5}),
        Vm("freertos", 0, 1,
            <<Region(0, \h8000)>>, <<Ipc(\h70000, \h10, 0, {52})>>,
            <<DevAt(\h3100, \hFF000, 1, {144}), Timer>>,
            {\hF9010, \hF9020})>>)

Zcu104 ==
    Config(<<\h10>>, <<
        Vm("linux", \h200, 3,
            <<Region(0, \h40000)>>, <<Ipc(\hF0000, \h10, 0, {52})>>,
            <<Dev(\hFF010, 1, {54}), Timer, Dev(\hFF0E0, 1, {95, 96})>>,
            {\hF9010, \hF9020}),
        Vm("freertos", 0, 1,
            <<Region(0, \h8000)>>, <<Ipc(\h70000, \h10, 0, {52})>>,
            <<Dev(\hFF000, \h10, {53}), Timer>>, {\hF9010, \hF9020})>>)

\* The files by name.
Files ==
    [FvpAAarch32 |-> FvpAAarch32, FvpA |-> FvpA, FvpR |-> FvpR,
     Imx8qm |-> Imx8qm, QemuAarch64Virt |-> QemuAarch64Virt,
     QemuRiscv64Virt |-> QemuRiscv64Virt, Rpi4 |-> Rpi4, Tx2 |-> Tx2,
     Zcu104 |-> Zcu104]
=============================================================================
