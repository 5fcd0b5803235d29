---------------------------- MODULE MCSdHotplug -----------------------------
(* Instances of SdHotplug: two readable cards, an unreadable one, an SDIO  *)
(* device and a card with two partitions.                                  *)
EXTENDS SdHotplug

CONSTANTS c1, c2, bad, wifi, split
=============================================================================
