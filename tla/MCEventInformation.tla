------------------------ MODULE MCEventInformation ------------------------
(* Instances of EventInformation for TLC. *)
EXTENDS EventInformation

Undefined == {-1, 0, 1}
=============================================================================
