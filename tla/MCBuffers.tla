------------------------------ MODULE MCBuffers ------------------------------
(***************************************************************************)
(* The memory of the receiving side on small instances: the read buffer of *)
(* a connection and the object pools packets are taken from.  They share   *)
(* no state: a behaviour chooses one of them, and the other stays as it    *)
(* began.                                                                  *)
(***************************************************************************)
EXTENDS MCReadBuffer, MemPool

VARIABLE memory

BuffersInit == memory \in {"buffer", "pools"} /\ BufferInit /\ PoolInit

ReadBufferSteps == memory = "buffer" /\ BufferNext /\ UNCHANGED poolVars
PoolSteps == memory = "pools" /\ PoolNext /\ UNCHANGED bufferVars

BuffersNext == (ReadBufferSteps \/ PoolSteps) /\ UNCHANGED memory

BuffersSpec == BuffersInit /\ [][BuffersNext]_<<memory, bufferVars, poolVars>>
=============================================================================
