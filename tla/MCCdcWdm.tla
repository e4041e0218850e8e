------------------------------ MODULE MCCdcWdm ------------------------------
(***************************************************************************)
(* Values of CdcWdm's constants for TLC: which calls the processes make,   *)
(* and which answers the device gives (status and number of bytes).        *)
(***************************************************************************)
EXTENDS CdcWdm, TLC

CONSTANTS p1, p2

ReadWrite == [p \in Procs |-> {"read", "write", "fsync"}]
Readers == [p \in Procs |-> {"read"}]
ReadClose == [p \in Procs |-> {"read", "close"}]
WriteClose == [p \in Procs |-> {"write", "fsync", "close"}]
OneByte == {<<"ok", 1>>}
Data == {<<"ok", 1>>, <<"ok", 2>>}
Stalls == {<<"ok", 1>>, <<"EPIPE", 0>>}
Faulty == {<<"ok", 0>>, <<"ok", 1>>, <<"ok", 2>>, <<"EPIPE", 0>>, <<"EPROTO", 0>>}
Symmetry == Permutations(Procs)
=============================================================================
