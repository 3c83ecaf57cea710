-------------------------------- MODULE MCRpl --------------------------------
(* The root, which always announces the same rank, and a router whose rank     *)
(* rises and falls.                                                            *)
EXTENDS Rpl
CONSTANTS a, b
MCAnnounced == [n \in {a, b} |-> IF n = a THEN {MINHOPRANKINCREASE} ELSE {9, 14}]
MCAttempts  == [acked \in BOOLEAN |-> IF acked THEN {1} ELSE {2}]
=============================================================================
