-------------------------------- MODULE MC_Query --------------------------------
(* Model-checking instance of Query: one flag value besides nil, two of    *)
(* the optional counts, up to two positional and two named parameters of   *)
(* every kind, and result counts 0 and 1 so that size and count differ.    *)
EXTENDS Query

MCFlagInputs == {"nil", "true"}

MCOptionalCounts == {"sort_count", "error_count"}

=============================================================================
