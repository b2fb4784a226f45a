------------------------- MODULE MCMovementDelivery -------------------------
(***************************************************************************)
(* The instances of MovementDelivery TLC checks.  Nothing in the protocol  *)
(* looks inside a content, so the contents of real commands are            *)
(* interchangeable.                                                        *)
(***************************************************************************)
EXTENDS MovementDelivery, TLC

ContentSymmetry == Permutations(Contents)

=============================================================================
