-------------------------- MODULE MCCentralDelivery --------------------------
(* Model values for checking CentralDelivery with TLC.                     *)
EXTENDS CentralDelivery, TLC

Symmetry == Permutations(Workers)
=============================================================================
