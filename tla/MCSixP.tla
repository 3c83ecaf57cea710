------------------------------- MODULE MCSixP -------------------------------
(* Two slots for cells; what makes an answer late on its own, as it makes the *)
(* schedules differ, and the other faults together.                          *)
EXTENDS SixP
MCSlot == {1, 2}
EarlyTimeout == {{"earlyTimeout"}}
EachLate     == {{f} : f \in LateAnswer}
OtherFaults  == {{"slowTask", "reboot", "lostClear"}}
MCFaultSet   == EachLate \cup OtherFaults
=============================================================================
