------------------------- MODULE MCOpenQueueSharing -------------------------
(* Tasks of the 6P layer, which has priority, of RPL and of an application. *)
EXTENDS OpenQueueSharing

MCTaskCreator == {COMPONENT_SIXTOP_RES, COMPONENT_ICMPv6RPL}
=============================================================================
