--------------------------- MODULE MCFeatureFlags ---------------------------
(* Instances of FeatureFlags for TLC.  Rows only differ by being different. *)
EXTENDS FeatureFlagsProperties, TLC

Symmetric == Permutations(Callers) \cup Permutations(Flags)
=============================================================================
