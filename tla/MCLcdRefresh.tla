---------------------------- MODULE MCLcdRefresh ----------------------------
(* Instances of LcdRefresh for TLC: a frame of five words and a DMA that   *)
(* moves two at a time, so that a frame has full blocks and a short one.   *)
(* All pixels of a picture differ, so that a block out of place shows.     *)
EXTENDS LcdRefresh

Rising  == [k \in Pixels |-> [r |-> 8 * k,   g |-> 3, b |-> 255 - k]]
Falling == [k \in Pixels |-> [r |-> 200 - k, g |-> 4 * k, b |-> 16]]

White == {[k \in Pixels |-> [r |-> 255, g |-> 255, b |-> 255]]}

AllFrames == {Rising, Falling} \cup White
=============================================================================
