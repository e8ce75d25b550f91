------------------------------ MODULE MCKernel ------------------------------
(* RPCKernel on small instances.                                           *)
EXTENDS RPCKernel, TLC

CONSTANTS r1, r2, p1, p2
=============================================================================
