---------------------------- MODULE MCKernelSem -----------------------------
(* Instances of KernelSem for TLC.  No symmetry: there is a liveness       *)
(* property.                                                               *)
EXTENDS KernelSem

CONSTANTS t1, t2
=============================================================================
