----------------------------- MODULE MC_Backend -----------------------------
(* Model-checking instance of Backend: two Ruby threads sharing one        *)
(* Backend object, so that a close can be attempted while the other thread *)
(* has a request in flight.                                                *)
EXTENDS Backend

CONSTANTS t1, t2

MCThreads == {t1, t2}

=============================================================================
