------------------------------ MODULE MCWriter ------------------------------
(* RPCWriter on small instances.                                           *)
EXTENDS RPCWriter, TLC

CONSTANTS w1, w2, app, r1, r2, epoll, a1, a2, f1, f2

(* Writers, addresses and numbers are interchangeable where only states    *)
(* are looked at.                                                          *)
Symmetry == Permutations(Writers) \cup Permutations(Addrs) \cup Permutations(FDs)

=============================================================================
