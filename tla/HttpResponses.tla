---------------------------- MODULE HttpResponses ----------------------------
(***************************************************************************)
(* The decoders of HTTP service responses (make_response of the operations *)
(* under src/ext/couchbase/operations/).  No method of Couchbase::Backend  *)
(* dispatches these operations yet, so what a decoded code becomes in Ruby *)
(* is not modelled; the codes are those of the error taxonomy whose        *)
(* categories cb_raise_error_code switches on.                             *)
(*                                                                         *)
(* A response body is abstracted to what the decoders read of it: whether  *)
(* it parses as JSON; for text, whether it holds a ':' and the number it   *)
(* starts with; the phrases found in it; and for JSON the "status" field,  *)
(* the "errors" member (absent, an object or an array of {code, msg}), and *)
(* whether the "error" and result members ("analyzed", "count") exist.     *)
(* An error code is a pair <<category, code>>.                             *)
(***************************************************************************)
EXTENDS Integers, Sequences

CONSTANTS
    ServerCodes,    \* numeric codes the server may put in "errors"
    MaxErrors       \* the longest "errors" array considered

ASSUME ResponsesAssumption ==
    /\ ServerCodes \subseteq Nat
    /\ MaxErrors \in Nat

(* No leading decimal number in a text body (std::stoul would throw).      *)
NoLead == -1

HttpStatuses == {200, 202, 400, 404, 500, 503}

Phrases == {"no indexName:", "index not found",
            "index with the same name already exists",
            "no planPIndexes for indexName"}

StatusValues == {"success", "ok", "failure"}

ErrorsKinds == {"absent", "object", "array"}

ErrorSeqs == UNION {[1..n -> ServerCodes] : n \in 0..MaxErrors}

Bodies ==
    {[json |-> FALSE, empty |-> TRUE, colon |-> FALSE, lead |-> NoLead,
      phrases |-> {}, hasStatus |-> FALSE, status |-> "failure",
      errorsKind |-> "absent", errors |-> <<>>, hasError |-> FALSE,
      hasResult |-> FALSE]}
    \cup
    {[json |-> FALSE, empty |-> FALSE, colon |-> c, lead |-> l,
      phrases |-> p, hasStatus |-> FALSE, status |-> "failure",
      errorsKind |-> "absent", errors |-> <<>>, hasError |-> FALSE,
      hasResult |-> FALSE] :
         c \in BOOLEAN, l \in ServerCodes \cup {NoLead},
         p \in {{}} \cup {{x} : x \in Phrases}}
    \cup
    {[json |-> TRUE, empty |-> FALSE, colon |-> TRUE, lead |-> NoLead,
      phrases |-> p, hasStatus |-> hs, status |-> s, errorsKind |-> ek,
      errors |-> IF ek = "array" THEN e ELSE <<>>, hasError |-> he,
      hasResult |-> hr] :
         p \in {{}} \cup {{x} : x \in Phrases}, hs \in BOOLEAN,
         s \in StatusValues, ek \in ErrorsKinds, e \in ErrorSeqs,
         he \in BOOLEAN, hr \in BOOLEAN}

(* The error the transport already put in the response's context.        *)
TransportErrors == {<<"none", "none">>, <<"common", "unambiguous_timeout">>}

Responses == [ec : TransportErrors, status : HttpStatuses, body : Bodies]

(* Decoder results: no error, an error code, or an exception escaping the *)
(* decoder (std::out_of_range from json::at, std::invalid_argument from    *)
(* std::stoul, a type error from get_object).                              *)
NoError == <<"none", "none">>
Throws  == <<"throws", "throws">>
Common(c)    == <<"common", c>>
Analytics(c) == <<"analytics", c>>
Search(c)    == <<"search", c>>

Codes(b) == {b.errors[i] : i \in DOMAIN b.errors}

-----------------------------------------------------------------------------
(* bucket_update.hxx make_response.                                        *)
BucketUpdate(r) ==
    IF r.status = 404 THEN Common("bucket_not_found")
    ELSE IF r.status = 400
         THEN IF ~r.body.json THEN Common("parsing_failure")
              ELSE IF r.body.errorsKind = "array" THEN Throws
              ELSE Common("invalid_argument")
    ELSE IF r.status \in {200, 202} THEN NoError
    ELSE Common("internal_server_failure")

(* analytics_dataset_create.hxx make_response: 24040 before 24006.         *)
DatasetCreateCode(codes) ==
    IF 24040 \in codes THEN Analytics("dataset_exists")
    ELSE IF 24006 \in codes THEN Analytics("link_not_found")
    ELSE Common("internal_server_failure")

(* Mutant: the dataset-create decoder classifies by the first entry of the *)
(* errors array with a code it knows, as a loop returning on a match would.*)
DatasetCreateFirstMatch(r) ==
    LET known == {i \in DOMAIN r.body.errors :
                    r.body.errors[i] \in {24040, 24006}}
        first == CHOOSE i \in known : \A j \in known : i <= j
    IN  CASE ~r.body.json -> Common("parsing_failure")
          [] ~r.body.hasStatus -> Throws
          [] r.body.status = "success" -> NoError
          [] r.body.errorsKind = "array" /\ known # {} ->
                DatasetCreateCode({r.body.errors[first]})
          [] OTHER -> Common("internal_server_failure")

DatasetCreate(r) ==
    IF ~r.body.json THEN Common("parsing_failure")
    ELSE IF ~r.body.hasStatus THEN Throws
    ELSE IF r.body.status = "success" THEN NoError
    ELSE DatasetCreateCode(IF r.body.errorsKind = "array"
                           THEN Codes(r.body) ELSE {})

(* analytics_link_drop.hxx make_response.  A text body "<code>: <msg>" is  *)
(* read by std::stoul, cast to 32 bits; 24034 is tested before 24006.      *)
LinkDropCode(codes) ==
    IF 24034 \in codes THEN Analytics("dataverse_not_found")
    ELSE IF 24006 \in codes THEN Analytics("link_not_found")
    ELSE Common("internal_server_failure")

(* static_cast<std::uint32_t> of the unsigned long std::stoul returned.    *)
Uint32(n) == IF n < 2^16 THEN n ELSE n % (2^16 * 2^16)

LinkDrop(r) ==
    IF r.body.empty /\ r.status = 200 THEN NoError
    ELSE IF ~r.body.json
         THEN IF ~r.body.colon THEN Common("parsing_failure")
              ELSE IF r.body.lead = NoLead THEN Throws
              ELSE LinkDropCode({Uint32(r.body.lead)})
    ELSE IF ~r.body.hasStatus THEN Throws
    ELSE IF r.body.status = "success" THEN LinkDropCode({})
    ELSE LinkDropCode(IF r.body.errorsKind = "array" THEN Codes(r.body) ELSE {})

(* analytics_get_pending_mutations.hxx make_response.  For this body       *)
(* hasResult means every dataverse maps to an object of unsigned counts;   *)
(* otherwise get_object or get_unsigned throws.                            *)
PendingMutations(r) ==
    IF ~r.body.json THEN Common("parsing_failure")
    ELSE IF r.status = 200 THEN IF r.body.hasResult THEN NoError ELSE Throws
    ELSE Common("internal_server_failure")

(* search_index_analyze_document.hxx make_response.                        *)
AnalyzeDocument(r) ==
    IF r.status = 200
    THEN IF ~r.body.json THEN Common("parsing_failure")
         ELSE IF ~r.body.hasStatus THEN Throws
         ELSE IF r.body.status = "ok"
              THEN IF r.body.hasResult THEN NoError ELSE Throws
         ELSE Common("internal_server_failure")
    ELSE IF r.status = 400
    THEN IF "no indexName:" \in r.body.phrases THEN Common("index_not_found")
         ELSE IF ~r.body.json THEN Common("parsing_failure")
         ELSE IF ~(r.body.hasStatus /\ r.body.hasError) THEN Throws
         ELSE IF "index not found" \in r.body.phrases
              THEN Common("index_not_found")
         ELSE IF "index with the same name already exists" \in r.body.phrases
              THEN Common("index_exists")
         ELSE Common("internal_server_failure")
    ELSE Common("internal_server_failure")

(* Mutant: "index not found" from the search service is reported in the  *)
(* search category, which has no such code, instead of the common one.     *)
DocumentsCountWrongCategory(r) ==
    CASE r.status = 200 /\ ~r.body.json -> Common("parsing_failure")
      [] r.status = 200 /\ ~r.body.hasStatus -> Throws
      [] r.status = 200 /\ r.body.status = "ok" ->
            IF r.body.hasResult THEN NoError ELSE Throws
      [] r.status \in {400, 500} /\ ~r.body.json -> Common("parsing_failure")
      [] r.status \in {400, 500} /\ ~(r.body.hasStatus /\ r.body.hasError) ->
            Throws
      [] r.status \in {400, 500} /\ "index not found" \in r.body.phrases ->
            Search("index_not_found")
      [] r.status \in {400, 500} /\ "no planPIndexes for indexName"
                                      \in r.body.phrases ->
            Search("index_not_ready")
      [] OTHER -> Common("internal_server_failure")

(* search_index_get_documents_count.hxx make_response.                     *)
DocumentsCount(r) ==
    IF r.status = 200
    THEN IF ~r.body.json THEN Common("parsing_failure")
         ELSE IF ~r.body.hasStatus THEN Throws
         ELSE IF r.body.status = "ok"
              THEN IF r.body.hasResult THEN NoError ELSE Throws
         ELSE Common("internal_server_failure")
    ELSE IF r.status \in {400, 500}
    THEN IF ~r.body.json THEN Common("parsing_failure")
         ELSE IF ~(r.body.hasStatus /\ r.body.hasError) THEN Throws
         ELSE IF "index not found" \in r.body.phrases
              THEN Common("index_not_found")
         ELSE IF "no planPIndexes for indexName" \in r.body.phrases
              THEN Search("index_not_ready")
         ELSE Common("internal_server_failure")
    ELSE Common("internal_server_failure")

-----------------------------------------------------------------------------
(* The operations whose responses are decoded here.                        *)
Ops == {"bucket_update", "analytics_dataset_create", "analytics_link_drop",
        "analytics_get_pending_mutations", "search_index_analyze_document",
        "search_index_get_documents_count"}

(* Every make_response first keeps an error the transport already set and *)
(* only decodes the body of a response that arrived.                       *)
MakeResponse(o, r) ==
    IF r.ec # NoError THEN r.ec
    ELSE CASE o = "bucket_update" -> BucketUpdate(r)
           [] o = "analytics_dataset_create" -> DatasetCreate(r)
           [] o = "analytics_link_drop" -> LinkDrop(r)
           [] o = "analytics_get_pending_mutations" -> PendingMutations(r)
           [] o = "search_index_analyze_document" -> AnalyzeDocument(r)
           [] o = "search_index_get_documents_count" -> DocumentsCount(r)

(* The error codes of the taxonomy, by category, as the switches of        *)
(* cb_raise_error_code enumerate them.                                     *)
RaisedCodes ==
    [common |-> {"unambiguous_timeout", "ambiguous_timeout",
                 "request_canceled", "invalid_argument",
                 "service_not_available", "internal_server_failure",
                 "authentication_failure", "temporary_failure",
                 "parsing_failure", "cas_mismatch", "bucket_not_found",
                 "scope_not_found", "collection_not_found",
                 "unsupported_operation", "feature_not_available",
                 "encoding_failure", "decoding_failure", "index_not_found",
                 "index_exists"},
     key_value |-> {"document_not_found", "document_irretrievable",
                 "document_locked", "value_too_large", "document_exists",
                 "durability_level_not_available", "durability_impossible",
                 "durability_ambiguous", "durable_write_in_progress",
                 "durable_write_re_commit_in_progress", "path_not_found",
                 "path_mismatch", "path_invalid", "path_too_big",
                 "path_too_deep", "value_too_deep", "value_invalid",
                 "document_not_json", "number_too_big", "delta_invalid",
                 "path_exists", "xattr_unknown_macro",
                 "xattr_invalid_key_combo", "xattr_unknown_virtual_attribute",
                 "xattr_cannot_modify_virtual_attribute"},
     query |-> {"planning_failure", "index_failure",
                 "prepared_statement_failure"},
     view |-> {"view_not_found", "design_document_not_found"},
     analytics |-> {"compilation_failure", "job_queue_full",
                 "dataset_not_found", "dataverse_not_found", "dataset_exists",
                 "dataverse_exists", "link_not_found"},
     management |-> {"collection_exists", "scope_exists", "user_not_found",
                 "group_not_found", "user_exists", "bucket_exists",
                 "bucket_not_flushable"}]

-----------------------------------------------------------------------------
Pending     == <<"pending", "pending">>

VARIABLES
    op,         \* the operation whose response arrives
    response,   \* the HTTP response handed to make_response
    ctx         \* response.ctx.ec after make_response

hvars == <<op, response, ctx>>

Outcomes == {NoError, Throws} \cup (TransportErrors \ {NoError})
            \cup {Common(c) : c \in RaisedCodes.common}
            \cup {Analytics(c) : c \in RaisedCodes.analytics}
            \cup {Search("index_not_ready")}

(* Type invariant: every decoded code is one the error taxonomy defines in  *)
(* its category.                                                           *)
TypeOK ==
    /\ op \in Ops
    /\ response \in Responses
    /\ ctx \in Outcomes \cup {Pending}

(* A request of some operation has been sent; its response is any the     *)
(* server (or the transport) may produce.                                  *)
Init ==
    /\ op \in Ops
    /\ response \in Responses
    /\ ctx = Pending

(* The operation's make_response decodes the response.                     *)
Decode ==
    /\ ctx = Pending
    /\ ctx' = MakeResponse(op, response)
    /\ UNCHANGED <<op, response>>

HNext == Decode

HSpec == Init /\ [][HNext]_hvars

-----------------------------------------------------------------------------
(* The classification of an analytics failure depends on which codes the  *)
(* errors array holds, not on their order (spec 4.1: 24034 wins over 24006 *)
(* for link drop, 24040 over 24006 for dataset create, in any order).      *)
OrderIndependent ==
    ctx # Pending =>
        \A e \in ErrorSeqs :
            ({e[i] : i \in DOMAIN e} = Codes(response.body)
             /\ response.body.errorsKind = "array") =>
                MakeResponse(op, [response EXCEPT !.body.errors = e]) = ctx

(* Every decoder returns a response with its error context filled rather  *)
(* than throwing (spec 4.2: decode always succeeds at the data-shape       *)
(* level).                                                                 *)
DecodeTotal == ctx # Throws

(* An analytics body whose "status" is the success marker decodes without *)
(* error (spec 4.1: the errors array is scanned only when the status is    *)
(* not the success marker).                                                *)
SuccessIsNoError ==
    (/\ ctx # Pending
     /\ op \in {"analytics_dataset_create", "analytics_link_drop"}
     /\ response.ec = NoError /\ response.status = 200
     /\ response.body.json /\ response.body.hasStatus
     /\ response.body.status = "success") => ctx = NoError

=============================================================================
