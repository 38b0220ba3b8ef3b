------------------------ MODULE MCGovernedMutations ------------------------
(* Small instances of GovernedMutations: one mutation for each of the flows. *)
EXTENDS GovernedMutations, TLC

CONSTANTS item, bind, comment, k1, k2

OneOfEach == item :> "item" @@ bind :> "bind" @@ comment :> "comment"

\* All flows meet under k1, while item writes of k2 hold the ledger's lock.
AllAndAnItem ==
    [key : {k1}, mutation : Mutations] \union [key : {k2}, mutation : {item}]
=============================================================================
