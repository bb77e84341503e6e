------------------------- MODULE MCBvlcForwarding -------------------------
(* Instances of BvlcForwarding for TLC. *)
EXTENDS BvlcForwarding

CONSTANTS b1, b2, d1, f1

OnSubnets ==
  [h \in Hosts |-> CASE h \in {b1, d1} -> "one" [] h = b2 -> "two"
                     [] OTHER -> "elsewhere"]

\* Complete tables of either kind of mask, and one with a row twice and more
\* entries than fit.  AddBdtEntry makes tables with half of the BBMDs.
All(u) == <<[bbmd |-> b1, unicast |-> u], [bbmd |-> b2, unicast |-> u]>>
BdtMessages ==
  {All(TRUE), All(FALSE), All(TRUE) \o All(TRUE)}
AddedEntries == {[bbmd |-> b2, unicast |-> FALSE]}
=============================================================================
