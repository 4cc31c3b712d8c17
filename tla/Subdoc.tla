------------------------------- MODULE Subdoc --------------------------------
(***************************************************************************)
(* The sub-document methods of Couchbase::Backend (cb_Backend_lookup_in   *)
(* and cb_Backend_mutate_in in src/ext/couchbase/couchbase.cxx): the       *)
(* conversion of the Ruby array of spec hashes into request entries, one   *)
(* entry per loop iteration, each of which may raise; the hand-off of the  *)
(* request; and the conversion of the per-field reply into Ruby hashes     *)
(* (cb__map_subdoc_opcode, cb__map_subdoc_status, std::stoll of counters). *)
(*                                                                         *)
(* A Ruby spec hash is abstracted to its opcode symbol, whether its path   *)
(* is empty, and the class of its "param".  The xattr, create_parents and  *)
(* expand_macros flags are copied by RTEST and steer no branch, so they    *)
(* are left out.  The cluster's decoding of the binary reply is not under  *)
(* src/: the reply is taken from the spec (section 4.3): one field per     *)
(* entry, in order, with a status; a failed field has an empty value; a    *)
(* mutation reports its first failed entry by index, and the spec does not *)
(* say that a failed entry also sets the response's error code.            *)
(***************************************************************************)
EXTENDS Integers, Sequences

CONSTANTS
    InputOps,       \* opcode symbols a caller may put in a spec hash
    ReplyStatuses,  \* protocol::status values the server may give a field
    MaxSpecs        \* the longest spec array considered

ASSUME SubdocAssumption ==
    /\ MaxSpecs \in Nat
    /\ "success" \in ReplyStatuses

(* Malformed parts of the input that Check_Type rejects with a TypeError.  *)
NotHash   == [malformed |-> "entry"]
NotSymbol == "not_a_symbol"
NotString == "not_a_string"

Entries ==
    {NotHash} \cup
    [op : InputOps \cup {NotSymbol}, path : {"", "p", NotString},
     param : {"nil", "fixnum", "string", "float"}]

SpecLists == UNION {[1..n -> Entries] : n \in 0..MaxSpecs}

(* Exceptions raised in Ruby: rb_eTypeError from Check_Type, rb_eArgError *)
(* from the explicit checks, and the exception of a failed response.       *)
TypeError == "TypeError"
ArgumentError == "ArgumentError"
ResponseError == "ResponseError"

(* A loop iteration that raises instead of adding an entry.                *)
Raise(cls) == [raise |-> cls]
Raises(out) == "raise" \in DOMAIN out

-----------------------------------------------------------------------------
(* The opcode a lookup symbol selects (lines 773-782).                     *)
LookupOpcode == [get |-> "get", get_doc |-> "get", exists |-> "exists",
                 count |-> "get_count"]

(* The opcode a mutation symbol selects (lines 852-871).                   *)
MutateOpcode == [dict_add |-> "dict_add", dict_upsert |-> "dict_upsert",
                 remove |-> "remove", replace |-> "replace",
                 array_push_last |-> "array_push_last",
                 array_push_first |-> "array_push_first",
                 array_insert |-> "array_insert",
                 array_add_unique |-> "array_add_unique",
                 counter |-> "counter"]

(* One iteration of the lookup_in loop: the request entry, or the error it *)
(* raises.  The operand is never read.                                     *)
LookupEntry(e) ==
    IF e = NotHash \/ e.op = NotSymbol THEN Raise(TypeError)
    ELSE IF e.op \notin DOMAIN LookupOpcode THEN Raise(ArgumentError)
    ELSE IF e.path = NotString THEN Raise(TypeError)
    ELSE [opcode |-> LookupOpcode[e.op], path |-> e.path, operand |-> "none"]

(* One iteration of the mutate_in loop.  A nil param adds the entry with   *)
(* no operand whatever the opcode; a counter takes a Fixnum delta, every   *)
(* other opcode a String value.                                            *)
MutateEntry(e) ==
    IF e = NotHash \/ e.op = NotSymbol THEN Raise(TypeError)
    ELSE IF e.op \notin DOMAIN MutateOpcode THEN Raise(ArgumentError)
    ELSE IF e.path = NotString THEN Raise(TypeError)
    ELSE IF e.param = "nil"
         THEN [opcode |-> MutateOpcode[e.op], path |-> e.path, operand |-> "none"]
    ELSE IF MutateOpcode[e.op] = "counter"
         THEN IF e.param = "fixnum"
              THEN [opcode |-> "counter", path |-> e.path, operand |-> "delta"]
              ELSE Raise(TypeError)
    ELSE IF e.param = "string"
         THEN [opcode |-> MutateOpcode[e.op], path |-> e.path, operand |-> "value"]
    ELSE Raise(TypeError)

ConvertSpec(k, e) == IF k = "lookup" THEN LookupEntry(e) ELSE MutateEntry(e)

(* Mutant: cb__map_subdoc_opcode without the array_add_unique case.        *)
MapOpcodeMissingCase(o) ==
    IF o = "get_count" THEN "count"
    ELSE IF o \in {"get", "exists", "dict_add", "dict_upsert", "remove",
                   "replace", "array_push_last", "array_push_first",
                   "array_insert", "counter"} THEN o
    ELSE "unknown"

(* cb__map_subdoc_opcode: the symbol of an opcode; get_count is :count.    *)
MapOpcode(o) ==
    IF o = "get_count" THEN "count"
    ELSE IF o \in {"get", "exists", "dict_add", "dict_upsert", "remove",
                   "replace", "array_push_last", "array_push_first",
                   "array_insert", "array_add_unique", "counter"} THEN o
    ELSE "unknown"

(* The status symbols cb__map_subdoc_status returns, by protocol status.   *)
StatusSymbol ==
    [success |-> "success",
     subdoc_path_mismatch |-> "path_mismatch",
     subdoc_path_invalid |-> "path_invalid",
     subdoc_path_too_big |-> "path_too_big",
     subdoc_value_cannot_insert |-> "value_cannot_insert",
     subdoc_doc_not_json |-> "doc_not_json",
     subdoc_num_range_error |-> "num_range",
     subdoc_delta_invalid |-> "delta_invalid",
     subdoc_path_exists |-> "path_exists",
     subdoc_value_too_deep |-> "value_too_deep",
     subdoc_invalid_combo |-> "invalid_combo",
     subdoc_xattr_invalid_flag_combo |-> "xattr_invalid_flag_combo",
     subdoc_xattr_invalid_key_combo |-> "xattr_invalid_key_combo",
     subdoc_xattr_unknown_macro |-> "xattr_unknown_macro",
     subdoc_xattr_unknown_vattr |-> "xattr_unknown_vattr",
     subdoc_xattr_cannot_modify_vattr |-> "xattr_cannot_modify_vattr"]

StatusSymbols == {StatusSymbol[s] : s \in DOMAIN StatusSymbol} \cup {"unknown"}

(* Mutant: the default branch hands back the protocol status unmapped.     *)
MapStatusRaw(s) ==
    IF s \in DOMAIN StatusSymbol THEN StatusSymbol[s] ELSE s

(* cb__map_subdoc_status, with its default branch :unknown.                *)
MapStatus(s) ==
    IF s \in DOMAIN StatusSymbol THEN StatusSymbol[s] ELSE "unknown"

(* std::stoll of a field value: a decimal number parses, anything else    *)
(* (an empty value) throws std::invalid_argument.                          *)
Throws == "throws"
Stoll(v) == IF v = "number" THEN "integer" ELSE Throws

(* lookup_in's result hash for one field: get with an empty path is a      *)
(* whole-document fetch, tagged :get_doc.                                  *)
LookupField(f) ==
    [path |-> f.path, value |-> f.value, status |-> MapStatus(f.status),
     type |-> IF f.opcode = "get" /\ f.path = "" THEN "get_doc"
              ELSE MapOpcode(f.opcode)]

(* mutate_in's result hash for one field: a counter's value is re-parsed   *)
(* with std::stoll.                                                        *)
MutateField(f) ==
    [path |-> f.path,
     value |-> IF f.opcode = "counter" THEN Stoll(f.value) ELSE f.value,
     status |-> MapStatus(f.status), type |-> MapOpcode(f.opcode)]

-----------------------------------------------------------------------------
Methods == {"lookup", "mutate"}

(* Errors of the whole reply: none, a document-level error (the document  *)
(* does not exist) and, for mutate_in, the error of its first failed path. *)
NoError   == "none"
DocError  == "document_error"
PathError == "path_error"

(* The reply to a request (spec 4.3): one field per entry, in order, each  *)
(* with a status; a successful field carries a value (a decimal number for *)
(* a counter), a failed one an empty value.  A lookup reports a failed     *)
(* path in its field only.  A mutation reports it by a "first failing      *)
(* entry index", which the method copies at lines 911-913 only after the   *)
(* check of resp.ec at 905: the response may or may not carry PathError    *)
(* besides, and PathError names a failed path, so it needs one.            *)
Field(r, st) ==
    [opcode |-> r.opcode, path |-> r.path, status |-> st,
     value |-> IF st # "success" THEN "empty"
               ELSE IF r.opcode = "counter" THEN "number" ELSE "text"]

ReplyConsistent(k, rp) ==
    LET failed == \E j \in DOMAIN rp.fields : rp.fields[j].status # "success"
    IN  IF k = "mutate" THEN (rp.ec = PathError => failed)
        ELSE rp.ec # PathError

Replies(k, rq) ==
    {rp \in {[ec |-> e, fields |-> [j \in DOMAIN rq |-> Field(rq[j], sts[j])]] :
                sts \in [DOMAIN rq -> ReplyStatuses],
                e \in {NoError, DocError, PathError}} :
        ReplyConsistent(k, rp)}

(* The loop over resp.fields: one Ruby hash per field, in order.          *)
FieldsOf(k, fs) ==
    [j \in DOMAIN fs |-> IF k = "lookup" THEN LookupField(fs[j])
                         ELSE MutateField(fs[j])]

VARIABLES
    method,     \* lookup_in or mutate_in
    specs,      \* the Ruby array of spec hashes
    i,          \* entries converted so far by the loop
    req,        \* req.specs.entries
    phase,      \* where the method is
    reply,      \* what f.get() returned
    result,     \* the "fields" array of the result hash
    raised      \* the exception the method raised, if any

svars == <<method, specs, i, req, phase, reply, result, raised>>

Phases == {"check", "convert", "waiting", "replied", "done", "raised",
           "threw"}

(* Type invariant: the loop index stays within the spec array, and the     *)
(* result fields carry the symbols cb__map_subdoc_* produce.               *)
TypeOK ==
    /\ method \in Methods
    /\ specs \in SpecLists
    /\ i \in 0..Len(specs)
    /\ phase \in Phases
    /\ raised \in {"none", TypeError, ArgumentError, ResponseError}
    /\ \A j \in DOMAIN result :
          /\ result[j].status \in StatusSymbols
          /\ result[j].type \in {"get_doc", "count", "unknown"}
                                 \cup DOMAIN MutateOpcode \cup {"get", "exists"}

Init ==
    /\ method \in Methods
    /\ specs \in SpecLists
    /\ i = 0
    /\ req = <<>>
    /\ phase = "check"
    /\ reply = [ec |-> NoError, fields |-> <<>>]
    /\ result = <<>>
    /\ raised = "none"

(* The checks on the spec array before the loop: an empty one raises.     *)
CheckSpecs ==
    /\ phase = "check"
    /\ IF Len(specs) = 0
       THEN phase' = "raised" /\ raised' = ArgumentError
       ELSE phase' = "convert" /\ UNCHANGED raised
    /\ UNCHANGED <<method, specs, i, req, reply, result>>

(* One iteration of the conversion loop over the specs.                    *)
ConvertEntry ==
    /\ phase = "convert"
    /\ i < Len(specs)
    /\ LET out == ConvertSpec(method, specs[i + 1])
       IN  IF Raises(out)
           THEN phase' = "raised" /\ raised' = out.raise /\ UNCHANGED <<i, req>>
           ELSE /\ req' = Append(req, out)
                /\ i' = i + 1
                /\ UNCHANGED <<phase, raised>>
    /\ UNCHANGED <<method, specs, reply, result>>

(* The request is handed to the cluster and the thread blocks in f.get().  *)
Execute ==
    /\ phase = "convert"
    /\ i = Len(specs)
    /\ phase' = "waiting"
    /\ UNCHANGED <<method, specs, i, req, reply, result, raised>>

(* The barrier is fulfilled with the cluster's reply.                      *)
Reply ==
    /\ phase = "waiting"
    /\ reply' \in Replies(method, req)
    /\ phase' = "replied"
    /\ UNCHANGED <<method, specs, i, req, result, raised>>

(* After f.get(): a failed response raises; otherwise every field becomes  *)
(* a Ruby hash, and a counter value that std::stoll cannot parse throws a  *)
(* C++ exception out of the method.                                        *)
BuildResult ==
    /\ phase = "replied"
    /\ IF reply.ec # NoError
       THEN phase' = "raised" /\ raised' = ResponseError /\ UNCHANGED result
       ELSE LET out == FieldsOf(method, reply.fields)
            IN  IF \E j \in DOMAIN out : out[j].value = Throws
                THEN phase' = "threw" /\ UNCHANGED <<result, raised>>
                ELSE phase' = "done" /\ result' = out /\ UNCHANGED raised
    /\ UNCHANGED <<method, specs, i, req, reply>>

SNext == CheckSpecs \/ ConvertEntry \/ Execute \/ Reply \/ BuildResult

SSpec == Init /\ [][SNext]_svars

-----------------------------------------------------------------------------
(* The Ruby-level result names, for every spec, the operation and the path *)
(* the caller asked for, in the caller's order (spec 4.3 and the spec      *)
(* round-trip property): a get of an empty path, or get_doc, is the whole  *)
(* document.                                                               *)
Asked(e) ==
    IF e.op \in {"get", "get_doc"}
    THEN IF e.path = "" THEN "get_doc" ELSE "get"
    ELSE e.op

RoundTrip ==
    phase = "done" =>
        /\ Len(result) = Len(specs)
        /\ \A j \in DOMAIN result :
              /\ result[j].path = specs[j].path
              /\ result[j].type = Asked(specs[j])

(* mutate_in never throws a C++ exception from the std::stoll of a counter *)
(* value into the Ruby frames above it: a counter field the server failed *)
(* has an empty value, which std::stoll cannot parse (spec 4.3: counter    *)
(* values are re-parsed to integers, failures reported by the first        *)
(* failing entry index; spec 7: no throw across the boundary).             *)
CounterValueConverted == phase # "threw"

(* Only a spec list that satisfies the spec's invariant is sent: it is not *)
(* empty, every opcode belongs to the method, and a mutation's counter has *)
(* an integer operand while every other opcode has a string or none (spec *)
(* sections 3, 4.3 and the counter operand typing property).               *)
ValidSpec(k, e) ==
    /\ e # NotHash
    /\ e.op \in (IF k = "lookup" THEN DOMAIN LookupOpcode
                 ELSE DOMAIN MutateOpcode)
    /\ e.path # NotString
    /\ k = "mutate" =>
          IF e.op = "counter" THEN e.param = "fixnum"
          ELSE e.param \in {"string", "nil"}

InvalidSpecsNeverSent ==
    phase \in {"waiting", "replied", "done", "threw"} =>
        /\ Len(specs) > 0
        /\ \A j \in DOMAIN specs : ValidSpec(method, specs[j])

=============================================================================
