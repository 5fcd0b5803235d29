--------------------------- MODULE MCKernelTimer ----------------------------
(* Instances of KernelTimer for TLC.  No symmetry: there is a liveness     *)
(* property.                                                               *)
EXTENDS KernelTimer

CONSTANTS h, s1, s2, own

(* s1 is the one-shot timer.                                               *)
Periods == [t \in {h, s1, s2} |-> IF t = s1 THEN 0 ELSE IF t = h THEN 1 ELSE 2]
=============================================================================
