---------------------------- MODULE MCLLMManager ----------------------------
(* LLMManager with a gateway, one provider of the catalogue and one of the  *)
(* owner's own, which is in use, with a model chosen, as the process starts. *)
EXTENDS LLMManager, TLC

CONSTANTS gateway, claude, own, k1, m

MCRank == (claude :> 0) @@ (gateway :> 1) @@ (own :> 2)
OneKind == [error |-> 1]

Only(p, value, others) == [q \in Providers |-> IF q = p THEN value ELSE others]
MCInit ==
    /\ Init
    /\ choice = [provider |-> own, models |-> Only(own, m, None)]
    /\ credentials = Only(own, k1, None)
    /\ registry = Only(own, "keyed", "absent")
MCSpec == MCInit /\ [][Next]_vars

Symmetry == Permutations(Desks)
=============================================================================
