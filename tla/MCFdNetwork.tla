---------------------------- MODULE MCFdNetwork ----------------------------
(* Instances of FdNetwork for TLC. *)
EXTENDS FdNetwork, TLC

\* The devices run the same program: safety does not tell them apart.
Interchangeable == Permutations(Addresses)

=============================================================================
