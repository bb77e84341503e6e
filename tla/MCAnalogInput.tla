--------------------------- MODULE MCAnalogInput ----------------------------
(* Instances of AnalogInputIntrinsic for TLC. *)
EXTENDS AnalogInputIntrinsic

LimitChoices == {{"LOW"}, {"HIGH", "LOW"}}
NoWrites == {}

=============================================================================
