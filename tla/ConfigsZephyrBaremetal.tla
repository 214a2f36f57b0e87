----------------------- MODULE ConfigsZephyrBaremetal -----------------------
(***************************************************************************)
(* The configurations of the zephyr+baremetal demo, one definition per file.*)
(***************************************************************************)
EXTENDS BaoConfig

FvpAAarch32 ==
    Config(<<\h10>>, <<
        Vm("zephyr", \h20000, 1,
            <<Region(\h20000, \h8000)>>, <<Ipc(\h70000, \h10, 0, {52})>>,
            <<DevAt(\h1C0B0, \h9C0B0, \h10, {39}), Timer>>,
            {\hAF000, \hAF100}),
        Vm("baremetal", 0, 2,
            <<Region(0, \h8000)>>, <<Ipc(\h70000, \h10, 0, {52})>>,
            <<DevAt(\h1C090, \hFF000, \h10, {37}), Timer>>,
            {\hF9010, \hF9020})>>)

FvpA ==
    Config(<<\h10>>, <<
        Vm("zephyr", \h90000, 2,
            <<Region(\h90000, \h8000)>>, <<Ipc(\h70000, \h10, 0, {52})>>,
            <<Dev(\h1C0B0, \h10, {39}), Timer>>, {\h2F000, \h2F100}),
        Vm("baremetal", 0, 2,
            <<Region(0, \h8000)>>, <<Ipc(\h70000, \h10, 0, {52})>>,
            <<DevAt(\h1C090, \hFF000, \h10, {37}), Timer>>,
            {\hF9010, \hF9020})>>)

FvpRAarch32 ==
    Config(<<\h10>>, <<
        Loaded(Vm("zephyr", \h24000, 1,
            <<Region(\h24000, \h8000)>>, <<Ipc(\h70000, \h10, 0, {52})>>,
            <<Dev(\h9C0B0, \h10, {39}), Timer>>,
            {\hAF000, \hAF100}), \h24000),
        Loaded(Vm("baremetal", \h10000, 2,
            <<Region(\h10000, \h4000)>>, <<Ipc(\h70000, \h10, 0, {52})>>,
            <<Dev(\h9C0A0, \h10, {38}), Timer>>,
            {\hAF000, \hAF100}), \h10000)>>)

FvpR ==
    Config(<<\h10>>, <<
        Loaded(Vm("zephyr", \h24000, 2,
            <<Region(\h20000, \h8000)>>, <<Ipc(\h70000, \h10, 0, {52})>>,
            <<Dev(\h9C0B0, \h10, {39}), Timer>>,
            {\hAF000, \hAF100}), \h24000),
        Loaded(Vm("baremetal", \h10000, 2,
            <<Region(\h10000, \h4000)>>, <<Ipc(\h70000, \h10, 0, {52})>>,
            <<Dev(\h9C0A0, \h10, {38}), Timer>>,
            {\hAF000, \hAF100}), \h10000)>>)

\* The files by name.
Files ==
    [FvpAAarch32 |-> FvpAAarch32, FvpA |-> FvpA,
     FvpRAarch32 |-> FvpRAarch32, FvpR |-> FvpR]
=============================================================================
