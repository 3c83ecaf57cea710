--------------------------- MODULE MCIEEE802154E ----------------------------
(* The components whose tasks send, and what else may happen. *)
EXTENDS IEEE802154E

RPLCreator    == {COMPONENT_ICMPv6RPL}
BothCreators  == {COMPONENT_SIXTOP_RES, COMPONENT_ICMPv6RPL}
SixtopCreator == {COMPONENT_SIXTOP}

NoTrouble == {{}}
MCTrouble == {{"crypto", "schedule", "remove"}, {"roles"}, {"cells", "parent"}}

\* A bound: 6P only negotiates cells where it may take them away again.
NegotiatesWhereCellsGo == negotiatedCells = {} \/ CellsMayGo
=============================================================================
