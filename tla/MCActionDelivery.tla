-------------------------- MODULE MCActionDelivery --------------------------
(***************************************************************************)
(* The instances of ActionDelivery TLC checks.  Nothing in the protocol    *)
(* looks inside an outcome, so the outcomes are interchangeable.           *)
(***************************************************************************)
EXTENDS ActionDelivery, TLC

OutcomeSymmetry == Permutations(Outcomes)

=============================================================================
