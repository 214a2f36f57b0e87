----------------------- MODULE MCRpiFirmwareHandle -----------------------
(* Clients are interchangeable.                                            *)
EXTENDS RpiFirmwareHandle, TLC

Symmetry == Permutations(Clients)
=============================================================================
