------------------------ MODULE MCForeignDeviceTable ------------------------
(* Instances of ForeignDeviceTable for TLC. *)
EXTENDS ForeignDeviceTable, TLC

CONSTANTS a1, a2, a3

Devices == {a1, a2, a3}
Interchangeable == Permutations(Devices)

=============================================================================
