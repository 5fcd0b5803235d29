--------------------------- MODULE MCKernelMutex ----------------------------
(* Instances of KernelMutex for TLC: a low, a middle and a high thread.    *)
EXTENDS KernelMutex

CONSTANTS low, mid, high, m1, m2

LowMidHigh == (low :> 3) @@ (mid :> 2) @@ (high :> 1)
=============================================================================
