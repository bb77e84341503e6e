------------------------- MODULE MCRecipientBinding -------------------------
(* Instances of RecipientBinding for TLC. *)
EXTENDS RecipientBinding

CONSTANTS d1, d2, a1, a2

ToDevice(d, confirmed) ==
  [type |-> "device", to |-> d, confirmed |-> confirmed]
ToAddress(a, confirmed) ==
  [type |-> "address", to |-> a, confirmed |-> confirmed]

StartAddress == [d \in Devices |-> IF d = d1 THEN a1 ELSE a2]

\* A device behind and before an address; with and without confirmation; none.
WrittenLists ==
  {<<ToAddress(a1, TRUE), ToDevice(d1, TRUE)>>,
   <<ToDevice(d2, TRUE), ToDevice(d1, FALSE)>>, <<>>}

=============================================================================
