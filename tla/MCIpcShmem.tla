---------------------------- MODULE MCIpcShmem ----------------------------
(* Instances of IpcShmem for TLC: a short line, whose newline is printed   *)
(* with something behind it, and one that is longer than the channel;      *)
(* texts whose length grows when irq_count gets a digit more.              *)
EXTENDS IpcShmem

CONSTANTS short, long

MCLineLen == [m \in Lines |-> IF m = short THEN 2 ELSE Size + 1]
MCTextLen == [k \in 1 .. MaxCalls |-> IF k = 1 THEN 1 ELSE Size - 1]
=============================================================================
