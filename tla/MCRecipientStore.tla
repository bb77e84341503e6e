-------------------------- MODULE MCRecipientStore --------------------------
(* Instances of RecipientStore for TLC. *)
EXTENDS RecipientStore

=============================================================================
