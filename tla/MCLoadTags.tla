----------------------------- MODULE MCLoadTags -----------------------------
(***************************************************************************)
(* The two ends of a non-blocking load: its entry in the bus buffer, whose  *)
(* number is the tag (LsuBusBuffer), and the entry of decode that waits for *)
(* the tag (NbLoadCam).  Each is checked in an environment that does what   *)
(* the other may do; a behaviour moves one of them, unit says which.        *)
(***************************************************************************)
EXTENDS MCLsuBusBuffer, NbLoadCam

CONSTANT x1   \* a register

VARIABLE unit

MCRegs == {x1}

TagsInit == Init /\ CamInit /\ unit \in {"bus", "decode"}
BusUnit == unit = "bus" /\ Next /\ UNCHANGED <<unit, camVars>>
DecodeUnit == unit = "decode" /\ CamNext /\ UNCHANGED <<unit, vars>>
TagsSpec == TagsInit /\ [][BusUnit \/ DecodeUnit]_<<unit, vars, camVars>>
=============================================================================
