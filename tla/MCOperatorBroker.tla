-------------------------- MODULE MCOperatorBroker --------------------------
(* Small instances of OperatorBroker for TLC. *)
EXTENDS OperatorBroker, TLC

\* Identifiers, keys and work items are interchangeable in every safety property.
BrokerSymmetry ==
    Permutations(Ids) \union Permutations(Keys) \union Permutations(Targets)
=============================================================================
