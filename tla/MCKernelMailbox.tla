-------------------------- MODULE MCKernelMailbox ---------------------------
(* An instance of KernelMailbox for TLC.  Threads and mails are            *)
(* interchangeable, and all properties are safety properties.              *)
EXTENDS KernelMailbox, TLC

CONSTANTS t1, t2, t3, v1, v2

Symmetry == Permutations(Threads) \cup Permutations(Values)
=============================================================================
