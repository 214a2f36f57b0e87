------------------------- MODULE ConfigsLinuxZephyr -------------------------
(***************************************************************************)
(* The configurations of the linux+zephyr demo, one definition per file.   *)
(***************************************************************************)
EXTENDS BaoConfig

FvpAAarch32 ==
    Config(<<\h10>>, <<
        Vm("linux", \hA0000, 2,
            <<Placed(\hA0000, \h40000)>>, <<Ipc(\hF0000, \h10, 0, {52})>>,
            <<Dev(\h1C0A0, \h10, {38}), Dev(\h1A000, \h10, {47}), Timer>>,
            {\h2F000, \h2F100}),
        Vm("zephyr", \h20000, 2,
            <<Region(\h20000, \h8000)>>, <<Ipc(\h70000, \h10, 0, {52})>>,
            <<DevAt(\h1C0B0, \h9C0B0, \h10, {39}), Timer>>,
            {\hAF000, \hAF100})>>)

FvpA ==
    Config(<<\h10>>, <<
        Vm("linux", \hA0000, 2,
            <<Placed(\hA0000, \h40000)>>, <<Ipc(\hF0000, \h10, 0, {52})>>,
            <<Dev(\h1C0A0, \h10, {38}), Dev(\h1A000, \h10, {47}), Timer>>,
            {\h2F000, \h2F100}),
        Vm("zephyr", \h90000, 2,
            <<Region(\h90000, \h8000)>>, <<Ipc(\h70000, \h10, 0, {52})>>,
            <<Dev(\h1C0B0, \h10, {39}), Timer>>, {\h2F000, \h2F100})>>)

FvpR ==
    Config(<<\h10>>, <<
        Loaded(Vm("linux", \h28000, 2,
            <<Region(\h28000, \h40000)>>, <<Ipc(\h70000, \h10, 0, {52})>>,
            <<Dev(\h9C0C0, \h10, {40}), Dev(\h9A000, \h10, {47}), Timer>>,
            {\hAF000, \hAF100}), \h28000),
        Loaded(Vm("zephyr", \h24000, 2,
            <<Region(\h20000, \h8000)>>, <<Ipc(\h70000, \h10, 0, {52})>>,
            <<Dev(\h9C0B0, \h10, {39}), Timer>>,
            {\hAF000, \hAF100}), \h24000)>>)

QemuAarch64Virt ==
    Config(<<4>>, <<
        Vm("linux", \h60000, 2,
            <<Placed(\h60000, \h40000)>>, <<Ipc(\hF0000, 4, 0, {52})>>,
            <<Timer, Dev(\hA003, 1, {72, 73, 74, 75, 76, 77, 78, 79})>>,
            {\h8000, \h80A0}),
        Vm("zephyr", \h80000, 2,
            <<Region(\h80000, \h8000)>>, <<Ipc(\h70000, 4, 0, {52})>>,
            <<Dev(\h9000, \h10, {33}), Timer>>, {\h8000, \h80A0})>>)

Rpi4 ==
    Config(<<\h10>>, <<
        Vm("linux", \h20000, 3,
            <<Placed(\h20000, \h40000)>>, <<Ipc(\hF0000, \h10, 0, {52})>>,
            <<Dev(\hFD580, \h10, {189, 190}), Timer>>, {\hFF841, \hFF842}),
        Vm("zephyr", \h80000, 1,
            <<Region(\h80000, \h8000)>>, <<Ipc(\h70000, 4, 0, {52})>>,
            <<Dev(\hFE215, 1, {125}), Timer>>, {\hFF841, \hFF842})>>)

\* The files by name.
Files ==
    [FvpAAarch32 |-> FvpAAarch32, FvpA |-> FvpA, FvpR |-> FvpR,
     QemuAarch64Virt |-> QemuAarch64Virt, Rpi4 |-> Rpi4]
=============================================================================
