------------------------------ MODULE MCStore -------------------------------
(***************************************************************************)
(* Instances of RocksStore for TLC.                                        *)
(***************************************************************************)
EXTENDS RocksStore

CONSTANT r0

Order == <<r0>>
AllSizes == 0 .. MaxLog
=============================================================================
