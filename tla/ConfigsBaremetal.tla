-------------------------- MODULE ConfigsBaremetal --------------------------
(***************************************************************************)
(* The configurations of the baremetal demo (demos/baremetal/configs), one *)
(* definition per file.                                                    *)
(***************************************************************************)
EXTENDS BaoConfig

BbAi64 ==
    Config(<<>>, <<
        Vm("baremetal", \h80000, 2,
            <<Region(\h80000, \h80000), Region(\h880000, \h80000)>>, <<>>,
            <<Dev(\h2800, 1, {224}), Timer>>, {\h1800, \h1900, \h6F000})>>)

FvpA ==
    Config(<<>>, <<
        Vm("baremetal", \h90000, 4, <<Region(\h90000, \h4000)>>, <<>>,
            <<Dev(\h1C090, \h10, {37}), Timer>>, {\h2F000, \h2F100})>>)

FvpR ==
    Config(<<>>, <<
        Loaded(Vm("baremetal", \h10000, 4,
            <<Region(\h10000, \h4000)>>, <<>>,
            <<Dev(\h9C0A0, \h10, {38}), Timer>>,
            {\hAF000, \hAF100}), \h10000)>>)

Imx8mnEvk ==
    Config(<<>>, <<
        Vm("baremetal", \h40400, 4, <<Region(\h40400, \h10000)>>, <<>>,
            <<Dev(\h30890, \h10, {59}), Timer>>, {\h38800, \h38880})>>)

Imx8qm ==
    Config(<<>>, <<
        Vm("baremetal", \h80200, 6, <<Region(\h80200, \h4000)>>, <<>>,
            <<DevAt(\h5A060, \hFF000, 1, {377}), Timer>>,
            {\hF9010, \hF9020})>>)

QemuAarch64Virt ==
    Config(<<>>, <<
        Vm("baremetal", \h50000, 4, <<Region(\h50000, \h4000)>>, <<>>,
            <<Dev(\h9000, \h10, {33}), Timer>>, {\h8000, \h80A0})>>)

QemuRiscv64Virt ==
    Config(<<>>, <<
        Vm("baremetal", \h80200, 4, <<Region(\h80200, \h4000)>>, <<>>,
            <<Dev(\h10000, 1, {10})>>, {\hC000})>>)

Rpi4 ==
    Config(<<>>, <<
        Vm("baremetal", \h200, 4, <<Region(\h200, \h4000)>>, <<>>,
            <<Dev(\hFE201, 1, {153}), Timer>>, {\hFF841, \hFF842})>>)

Tx2 ==
    Config(<<>>, <<
        Vm("baremetal", \hA0000, 6, <<Region(\hA0000, \h4000)>>, <<>>,
            <<Dev(\h3100, 1, {144}), Timer>>, {\h3881, \h3882})>>)

Zcu104 ==
    Config(<<>>, <<
        Vm("baremetal", \h20000, 4, <<Region(\h20000, \h4000)>>, <<>>,
            <<Dev(\hFF000, \h10, {53}), Timer>>, {\hF9010, \hF9020})>>)

\* The files by name.
Files ==
    [BbAi64 |-> BbAi64, FvpA |-> FvpA, FvpR |-> FvpR,
     Imx8mnEvk |-> Imx8mnEvk, Imx8qm |-> Imx8qm,
     QemuAarch64Virt |-> QemuAarch64Virt,
     QemuRiscv64Virt |-> QemuRiscv64Virt, Rpi4 |-> Rpi4, Tx2 |-> Tx2,
     Zcu104 |-> Zcu104]
=============================================================================
