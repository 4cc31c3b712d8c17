------------------------------ MODULE MC_Manifest ------------------------------
(* Model-checking instance of Manifest: two manifests, sections of size 0  *)
(* or 1 and bodies of up to 2 bytes so that a value may be absent,         *)
(* present, or overrun.                                                    *)
EXTENDS Manifest

MCManifests == {"m1", "m2"}

=============================================================================
