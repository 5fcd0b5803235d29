--------------------------- MODULE MCSdioRequest ----------------------------
(* Instances of SdioRequest for TLC.                                       *)
EXTENDS SdioRequest

CONSTANTS t1, t2, v1, v2
=============================================================================
