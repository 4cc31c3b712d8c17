--------------------------- MODULE MC_HttpResponses ---------------------------
(* Model-checking instance of HttpResponses: the analytics codes the       *)
(* decoders know (24006 link not found, 24034 dataverse not found, 24040   *)
(* dataset exists) and one they do not, in arrays of up to two entries so  *)
(* that two known codes meet in both orders.                               *)
EXTENDS HttpResponses

MCServerCodes == {24006, 24034, 24040, 21002}

=============================================================================
