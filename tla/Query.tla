-------------------------------- MODULE Query ---------------------------------
(***************************************************************************)
(* Couchbase::Backend#query (cb_Backend_query and cb__for_each_named_param *)
(* in src/ext/couchbase/couchbase.cxx): the conversion of the statement    *)
(* and of the options hash into a query_request, option by option and     *)
(* parameter by parameter, each of which may raise; the hand-off of the    *)
(* request; and the conversion of the reply into the result hash.          *)
(*                                                                         *)
(* A parameter is a Ruby String holding JSON, a String that is not JSON,   *)
(* or another object.  The defaults of query_request (not under src/) are  *)
(* left abstract as "default".  The reply of the query service is taken    *)
(* from the spec (4.1, scenario B): rows, a status, and metrics whose      *)
(* optional counts may be absent.                                          *)
(***************************************************************************)
EXTENDS Integers, Sequences

CONSTANTS
    FlagInputs,     \* values given for :adhoc, :metrics and :readonly
    OptionalCounts, \* optional metrics the service may report
    MaxParams,      \* the most positional or named parameters considered
    MaxCount        \* the largest result_count / result_size considered

NotString == "not_a_string"
Params    == {"json", "not_json", NotString}
ParamLists == UNION {[1..n -> Params] : n \in 0..MaxParams}

(* Named parameters: a Ruby Hash, as its pairs in rb_hash_foreach order;   *)
(* a key is a String or some other object (a Symbol).                     *)
Pairs == [key : {"string", "symbol"}, value : Params]
NamedHashes == UNION {[1..n -> Pairs] : n \in 0..MaxParams}

Profiles == {"nil", "phases", "timings", "off", "bogus", "not_a_symbol"}

Options ==
    [statementIsString : BOOLEAN, optionsIsHash : BOOLEAN,
     adhoc : FlagInputs, metrics : FlagInputs, readonly : FlagInputs,
     profile : Profiles,
     positional : [given : {"nil", "not_an_array"}, items : {<<>>}]
                  \cup [given : {"array"}, items : ParamLists],
     named : [given : {"nil", "not_a_hash"}, items : {<<>>}]
             \cup [given : {"hash"}, items : NamedHashes]]

TypeError    == "TypeError"
ResponseError == "ResponseError"
CppException == "C++ exception"      \* tao::json::pegtl::parse_error

-----------------------------------------------------------------------------
(* if (!NIL_P(flag)) req.flag = RTEST(flag);                               *)
FlagValue(f) == IF f = "nil" THEN "default" ELSE f

(* The profile mode: a known symbol selects its mode, any other symbol is  *)
(* ignored and the default stays.                                          *)
ProfileValue(p) ==
    IF p \in {"phases", "timings", "off"} THEN p ELSE "default"

(* tao::json::from_string of one parameter, after its Check_Type.          *)
ParseParam(v) ==
    CASE v = NotString -> TypeError
      [] v = "not_json" -> CppException
      [] OTHER -> "json"

(* for (size_t i = 0; i < entries_num; ++i): the loop has run out.         *)
LoopDone(i, n) == i >= n

-----------------------------------------------------------------------------
VARIABLES
    opts,       \* the statement and options the caller passed
    phase,      \* where the method is
    i,          \* parameters converted so far by the current loop
    req,        \* the query_request built so far
    reply,      \* what f.get() returned
    result,     \* the result hash
    raised      \* the Ruby exception raised, if any

qvars == <<opts, phase, i, req, reply, result, raised>>

Phases == {"check", "positional", "named", "sent", "replied", "done",
           "raised", "escaped"}

Replies ==
    [ec : {"none", "error"}, resultCount : 0..MaxCount,
     resultSize : 0..MaxCount, present : SUBSET OptionalCounts]

NoRequest == [adhoc |-> "default", metrics |-> "default",
              readonly |-> "default", profile |-> "default",
              positional |-> <<>>, named |-> 0]

Init ==
    /\ opts \in Options
    /\ phase = "check"
    /\ i = 0
    /\ req = NoRequest
    /\ reply = [ec |-> "none", resultCount |-> 0, resultSize |-> 0,
                present |-> {}]
    /\ result = [result_count |-> 0, result_size |-> 0, counts |-> {}]
    /\ raised = "none"

Raise(cls) ==
    phase' = "raised" /\ raised' = cls /\ UNCHANGED <<i, req>>

(* The argument checks and the flag and profile options.                   *)
CheckArgs ==
    /\ phase = "check"
    /\ IF ~opts.statementIsString \/ ~opts.optionsIsHash
          \/ opts.profile = "not_a_symbol"
       THEN Raise(TypeError)
       ELSE /\ req' = [adhoc |-> FlagValue(opts.adhoc),
                        metrics |-> FlagValue(opts.metrics),
                        readonly |-> FlagValue(opts.readonly),
                        profile |-> ProfileValue(opts.profile),
                        positional |-> << >>, named |-> 0]
            /\ phase' = "positional"
            /\ UNCHANGED <<i, raised>>
    /\ UNCHANGED <<opts, reply, result>>

(* Check_Type(entry, T_STRING) and tao::json::from_string of one          *)
(* parameter: a Ruby TypeError, a C++ exception that escapes the method,   *)
(* or the parsed value added to the request by Add, and the next one.      *)
ConvertParam(v, Add) ==
    \/ ParseParam(v) = TypeError /\ Raise(TypeError)
    \/ /\ ParseParam(v) = CppException
       /\ phase' = "escaped"
       /\ UNCHANGED <<i, req, raised>>
    \/ /\ ParseParam(v) = "json"
       /\ Add
       /\ i' = i + 1
       /\ UNCHANGED <<phase, raised>>

(* One step of the positional parameters: skip them when absent, or parse  *)
(* the next entry of the array.                                            *)
ConvertPositional ==
    /\ phase = "positional"
    /\ LET p == opts.positional
       IN  \/ /\ \/ p.given = "nil"
                \/ (p.given = "array" /\ LoopDone(i, Len(p.items)))
             /\ phase' = "named" /\ i' = 0
             /\ UNCHANGED <<req, raised>>
           \/ p.given = "not_an_array" /\ Raise(TypeError)
           \/ /\ p.given = "array" /\ ~LoopDone(i, Len(p.items))
             /\ ConvertParam(p.items[i + 1],
                             req' = [req EXCEPT !.positional = Append(@, "json")])
    /\ UNCHANGED <<opts, reply, result>>

(* One call of cb__for_each_named_param from rb_hash_foreach, or the skip *)
(* of an absent hash; then the request is handed to the cluster.           *)
ConvertNamed ==
    /\ phase = "named"
    /\ LET h == opts.named
       IN  \/ /\ \/ h.given = "nil"
                \/ (h.given = "hash" /\ LoopDone(i, Len(h.items)))
             /\ phase' = "sent"
             /\ UNCHANGED <<i, req, raised>>
           \/ h.given = "not_a_hash" /\ Raise(TypeError)
           \/ /\ h.given = "hash" /\ ~LoopDone(i, Len(h.items))
             /\ h.items[i + 1].key # "string"
             /\ Raise(TypeError)
           \/ /\ h.given = "hash" /\ ~LoopDone(i, Len(h.items))
             /\ h.items[i + 1].key = "string"
             /\ ConvertParam(h.items[i + 1].value,
                             req' = [req EXCEPT !.named = @ + 1])
    /\ UNCHANGED <<opts, reply, result>>

(* The barrier is fulfilled with the query service's reply.               *)
Reply ==
    /\ phase = "sent"
    /\ reply' \in Replies
    /\ phase' = "replied"
    /\ UNCHANGED <<opts, i, req, result, raised>>

(* A failed response raises; otherwise the result hash with its metrics.  *)
BuildResult ==
    /\ phase = "replied"
    /\ IF reply.ec # "none"
       THEN phase' = "raised" /\ raised' = ResponseError /\ UNCHANGED result
       ELSE /\ result' = [result_count |-> reply.resultCount,
                          result_size |-> reply.resultCount,
                          counts |-> reply.present]
            /\ phase' = "done"
            /\ UNCHANGED raised
    /\ UNCHANGED <<opts, i, req, reply>>

QNext == CheckArgs \/ ConvertPositional \/ ConvertNamed \/ Reply \/ BuildResult

QSpec == Init /\ [][QNext]_qvars

-----------------------------------------------------------------------------
(* Malformed caller input is refused with a Ruby exception, never by a C++ *)
(* exception unwinding through the Ruby VM's frames (spec 6: errors reach  *)
(* the caller as a classified kind; 4.2 / 8: encode-time malformed input is *)
(* raised immediately).                                                    *)
NoCppExceptionEscapes == phase # "escaped"

(* The result hash reports the metrics block as the service sent it:       *)
(* result_count and result_size each from its own field, and exactly the   *)
(* optional counts present (spec 8, scenario B: a result with populated    *)
(* metrics).                                                               *)
MetricsCopied ==
    phase = "done" =>
        /\ result.result_count = reply.resultCount
        /\ result.result_size = reply.resultSize
        /\ result.counts = reply.present

=============================================================================
