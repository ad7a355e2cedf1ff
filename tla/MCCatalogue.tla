---------------------------- MODULE MCCatalogue ----------------------------
(* Two stores and three values: names that differ in an accent have one slug. *)
EXTENDS Catalogue

CONSTANT RED

MCWords == [Red |-> <<RED>>, Redd |-> <<RED>>, Reed |-> <<RED>>, Red2 |-> <<RED, 2>>]
MCFirstName == [red |-> "Red", shade |-> "Redd", tone |-> "Reed"]
MCRenames == {<<"shade", "Red2">>, <<"shade", "Redd">>}
MCSelections == {<<<<"red", "shade", "tone">>>>, <<<<"red">>, <<"shade">>>>}
MCScopes == {[storeIds |-> {"s1"}, all |-> "unset"], [storeIds |-> {}, all |-> "yes"],
             [storeIds |-> {}, all |-> "no"]}
=============================================================================
