------------------------- MODULE MCCovSubscriptions -------------------------
(* Instances of CovSubscriptions for TLC. *)
EXTENDS CovSubscriptions

Context(c, p, o) == [client |-> c, process |-> p, object |-> o]

CONSTANTS c1, c2, o1, o2

OwnObjects == {Context(c1, 1, o1), Context(c2, 1, o2)}

=============================================================================
