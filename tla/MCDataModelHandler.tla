------------------------- MODULE MCDataModelHandler -------------------------
(* DataModelHandler for TLC: one topic, which matches its filter. *)
EXTENDS DataModelHandler, TLC

ASSUME AloneAssumption == Alone

MCMatches == {<<f, f>> : f \in Filters}
MCReceiversOf == [u \in Users |-> Receivers]

Symmetry == Permutations(Commands)
=============================================================================
