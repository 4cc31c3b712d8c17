------------------------------- MODULE MC_Subdoc -------------------------------
(* Model-checking instance of Subdoc: every kind of opcode symbol (lookup  *)
(* only, get_doc, mutation only, the counter, one the last case of         *)
(* cb__map_subdoc_opcode names, and an unsupported one), arrays of up to   *)
(* two specs, and the replies success, a path-not-found and a mismatch.    *)
EXTENDS Subdoc

MCInputOps == {"get", "get_doc", "count", "counter", "array_add_unique",
               "bogus"}

MCReplyStatuses == {"success", "subdoc_path_not_found", "subdoc_path_mismatch"}

=============================================================================
