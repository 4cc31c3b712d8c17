----------------------------- MODULE SubdocProofs ------------------------------
(***************************************************************************)
(* Proofs about Subdoc for every set of opcode symbols and reply statuses *)
(* and every bound on the spec array: lookup_in and mutate_in hand back   *)
(* one field per spec, in the caller's order, with the caller's path and  *)
(* operation, and only with the symbols cb__map_subdoc_* produce.          *)
(***************************************************************************)
EXTENDS Subdoc, SequenceTheorems, TLAPS

USE SubdocAssumption

(* A function on 1..n is a sequence of length n.                           *)
LEMMA ListShape ==
    ASSUME NEW S, NEW n \in Nat, NEW s \in [1..n -> S]
    PROVE  s \in Seq(S) /\ Len(s) = n
<1>1. s \in Seq(S)
  BY SeqDef
<1>2. DOMAIN s = 1..Len(s) /\ Len(s) \in Nat
  BY <1>1, LenProperties
<1>3. QED
  BY <1>1, <1>2

(* The spec array is a sequence of spec hashes of at most MaxSpecs.        *)
LEMMA SpecsShape ==
    ASSUME NEW s \in SpecLists
    PROVE  s \in Seq(Entries) /\ Len(s) \in 0..MaxSpecs
<1>1. PICK n \in 0..MaxSpecs : s \in [1..n -> Entries]
  BY DEF SpecLists
<1>2. QED
  BY <1>1, ListShape

(* A loop iteration that raises raises a TypeError or an ArgumentError.    *)
LEMMA RaiseClass ==
    ASSUME NEW k \in Methods, NEW e \in Entries, Raises(ConvertSpec(k, e))
    PROVE  ConvertSpec(k, e).raise \in {TypeError, ArgumentError}
BY DEF ConvertSpec, LookupEntry, MutateEntry, Raises, Raise, Methods

(* cb__map_subdoc_status only returns the symbols it names.                *)
LEMMA MapStatusTyped ==
    ASSUME NEW s
    PROVE  MapStatus(s) \in StatusSymbols
BY DEF MapStatus, StatusSymbols

(* The mutation symbols select the opcode of their own name, and the      *)
(* lookup symbols get, exists and get_count.                               *)
LEMMA OpcodeTables ==
    /\ DOMAIN MutateOpcode = {"dict_add", "dict_upsert", "remove", "replace",
                              "array_push_last", "array_push_first",
                              "array_insert", "array_add_unique", "counter"}
    /\ \A o \in DOMAIN MutateOpcode : MutateOpcode[o] = o
    /\ DOMAIN LookupOpcode = {"get", "get_doc", "exists", "count"}
    /\ LookupOpcode["get"] = "get" /\ LookupOpcode["get_doc"] = "get"
    /\ LookupOpcode["exists"] = "exists" /\ LookupOpcode["count"] = "get_count"
BY DEF MutateOpcode, LookupOpcode

(* The result types, as TypeOK lists them.                                  *)
ResultTypes == {"get_doc", "count", "unknown"} \cup DOMAIN MutateOpcode
                   \cup {"get", "exists"}

(* A lookup spec that converts comes back from lookup_in with its path and *)
(* the operation the caller named, whatever the field's status.            *)
LEMMA LookupRoundTrip ==
    ASSUME NEW e \in Entries, ~Raises(LookupEntry(e)), NEW st
    PROVE  LET g == LookupField(Field(LookupEntry(e), st))
           IN  /\ g.path = e.path /\ g.type = Asked(e) /\ g.value # Throws
               /\ g.type \in ResultTypes
<1>1. /\ e \in [op : InputOps \cup {NotSymbol}, path : {"", "p", NotString},
                 param : {"nil", "fixnum", "string", "float"}]
      /\ e.op \in {"get", "get_doc", "exists", "count"}
      /\ e.path \in {"", "p"}
  BY DEF Entries, LookupEntry, Raises, Raise, NotHash, LookupOpcode, NotString
<1>2. LookupEntry(e) = [opcode |-> LookupOpcode[e.op], path |-> e.path,
                        operand |-> "none"]
  <2>1. e # NotHash
    BY DEF LookupEntry, Raises, Raise
  <2>2. e.op # NotSymbol /\ e.op \in DOMAIN LookupOpcode /\ e.path # NotString
    BY <1>1 DEF NotSymbol, LookupOpcode, NotString
  <2>3. QED
    BY <2>1, <2>2 DEF LookupEntry
<1> DEFINE f == Field(LookupEntry(e), st)
<1>3. /\ f.opcode = LookupOpcode[e.op] /\ f.path = e.path
      /\ f.value \in {"empty", "number", "text"}
  BY <1>2 DEF Field
<1>4. LookupField(f).type = Asked(e)
  <2>1. CASE e.op \in {"get", "get_doc"} /\ e.path = ""
    <3>1. f.opcode = "get" /\ f.path = ""
      BY <1>3, <2>1, OpcodeTables
    <3>2. QED
      BY <2>1, <3>1 DEF LookupField, Asked
  <2>2. CASE e.op \in {"get", "get_doc"} /\ e.path # ""
    <3>1. f.opcode = "get" /\ f.path # ""
      BY <1>3, <2>2, OpcodeTables
    <3>2. QED
      BY <2>2, <3>1 DEF LookupField, Asked, MapOpcode
  <2>3. CASE e.op = "exists"
    <3>1. f.opcode = "exists"
      BY <1>3, <2>3, OpcodeTables
    <3>2. QED
      BY <2>3, <3>1 DEF LookupField, Asked, MapOpcode
  <2>4. CASE e.op = "count"
    <3>1. f.opcode = "get_count"
      BY <1>3, <2>4, OpcodeTables
    <3>2. QED
      BY <2>4, <3>1 DEF LookupField, Asked, MapOpcode
  <2>5. QED
    BY <1>1, <2>1, <2>2, <2>3, <2>4
<1>5. Asked(e) \in ResultTypes
  BY <1>1 DEF Asked, ResultTypes, MutateOpcode
<1>6. QED
  BY <1>3, <1>4, <1>5 DEF LookupField, Throws

(* A mutation spec that converts comes back from mutate_in with its path   *)
(* and operation, whatever the field's status.                             *)
LEMMA MutateRoundTrip ==
    ASSUME NEW e \in Entries, ~Raises(MutateEntry(e)), NEW st
    PROVE  LET g == MutateField(Field(MutateEntry(e), st))
           IN  /\ g.path = e.path /\ g.type = Asked(e)
               /\ g.type \in ResultTypes
<1>1. /\ e \in [op : InputOps \cup {NotSymbol}, path : {"", "p", NotString},
                 param : {"nil", "fixnum", "string", "float"}]
      /\ e.op \in DOMAIN MutateOpcode
      /\ e.path \in {"", "p"}
  BY DEF Entries, MutateEntry, Raises, Raise, NotHash, MutateOpcode, NotString
<1>2. /\ MutateEntry(e).path = e.path
      /\ MutateEntry(e).opcode = MutateOpcode[e.op]
  <2>1. e # NotHash
    BY DEF MutateEntry, Raises, Raise
  <2>2. e.op # NotSymbol /\ e.op \in DOMAIN MutateOpcode /\ e.path # NotString
    BY <1>1 DEF NotSymbol, MutateOpcode, NotString
  <2>3. QED
    BY <2>1, <2>2 DEF MutateEntry, Raise, Raises
<1> DEFINE f == Field(MutateEntry(e), st)
<1>3. f.opcode = MutateOpcode[e.op] /\ f.path = e.path
  BY <1>2 DEF Field
<1>4. /\ MapOpcode(MutateOpcode[e.op]) = e.op
      /\ Asked(e) = e.op
      /\ e.op \in ResultTypes
  <2>1. MutateOpcode[e.op] = e.op
    BY <1>1, OpcodeTables
  <2>2. e.op \in {"dict_add", "dict_upsert", "remove", "replace",
                  "array_push_last", "array_push_first",
                  "array_insert", "array_add_unique", "counter"}
    BY <1>1, OpcodeTables
  <2>3. QED
    BY <2>1, <2>2, OpcodeTables DEF MapOpcode, Asked, ResultTypes
<1>5. QED
  BY <1>3, <1>4 DEF MutateField

(* A reply has one field per request entry, built from that entry with   *)
(* some status.                                                             *)
LEMMA ReplyShape ==
    ASSUME NEW k \in Methods, NEW rq, NEW rp \in Replies(k, rq)
    PROVE  /\ DOMAIN rp.fields = DOMAIN rq
           /\ \A j \in DOMAIN rq :
                 \E st \in ReplyStatuses : rp.fields[j] = Field(rq[j], st)
<1>1. PICK sts \in [DOMAIN rq -> ReplyStatuses],
           e \in {NoError, DocError, PathError} :
           /\ rp = [ec |-> e, fields |-> [j \in DOMAIN rq |-> Field(rq[j], sts[j])]]
           /\ ReplyConsistent(k, rp)
  BY DEF Replies
<1>2. QED
  BY <1>1

(* What lookup_in and mutate_in build from a reply without error to the    *)
(* entries converted from spec array s: one hash per spec, in order, with  *)
(* the spec's path and operation, and symbols cb__map_subdoc_* produce.    *)
LEMMA BuiltFields ==
    ASSUME NEW k \in Methods, NEW s \in Seq(Entries),
           \A j \in 1..Len(s) : ~Raises(ConvertSpec(k, s[j])),
           NEW rp \in Replies(k, [j \in 1..Len(s) |-> ConvertSpec(k, s[j])]),
           rp.ec = NoError
    PROVE  LET out == FieldsOf(k, rp.fields)
           IN  /\ DOMAIN out = 1..Len(s)
               /\ \A j \in 1..Len(s) :
                     /\ out[j].path = s[j].path
                     /\ out[j].type = Asked(s[j])
                     /\ out[j].status \in StatusSymbols
                     /\ out[j].type \in ResultTypes
<1> DEFINE rq == [j \in 1..Len(s) |-> ConvertSpec(k, s[j])]
           out == FieldsOf(k, rp.fields)
<1>1. DOMAIN rp.fields = 1..Len(s)
  BY ReplyShape
<1>2. DOMAIN out = 1..Len(s)
  BY <1>1 DEF FieldsOf
<1>3. ASSUME NEW j \in 1..Len(s)
      PROVE  /\ out[j].path = s[j].path
             /\ out[j].type = Asked(s[j])
             /\ out[j].status \in StatusSymbols
             /\ out[j].type \in ResultTypes
  <2>1. s[j] \in Entries
    BY ElementOfSeq
  <2>2. PICK st \in ReplyStatuses : rp.fields[j] = Field(rq[j], st)
    BY ReplyShape
  <2>3. out[j].status \in StatusSymbols
    BY <1>1, <2>2, MapStatusTyped DEF FieldsOf, LookupField, MutateField
  <2>4. CASE k = "lookup"
    <3>1. out[j] = LookupField(Field(LookupEntry(s[j]), st))
      BY <1>1, <2>2, <2>4 DEF FieldsOf, ConvertSpec
    <3>2. ~Raises(LookupEntry(s[j]))
      BY <2>4 DEF ConvertSpec
    <3>3. QED
      BY <2>1, <2>3, <3>1, <3>2, LookupRoundTrip
  <2>5. CASE k = "mutate"
    <3>2. out[j] = MutateField(Field(MutateEntry(s[j]), st))
      BY <1>1, <2>2, <2>5 DEF FieldsOf, ConvertSpec
    <3>3. ~Raises(MutateEntry(s[j]))
      BY <2>5 DEF ConvertSpec
    <3>4. QED
      BY <2>1, <2>3, <3>2, <3>3, MutateRoundTrip
  <2>6. QED
    BY <2>4, <2>5 DEF Methods
<1>4. QED
  BY <1>2, <1>3

(* The inductive invariant behind TypeOK and RoundTrip: the request holds  *)
(* exactly the converted entries of the specs the loop has passed, none of *)
(* which raised; once the request is sent all of them are in it; the reply *)
(* is one the cluster can give to that request; and the result is the     *)
(* reply's fields converted by the method.                                 *)
IInv ==
    /\ TypeOK
    /\ req = [j \in 1..i |-> ConvertSpec(method, specs[j])]
    /\ \A j \in 1..i : ~Raises(ConvertSpec(method, specs[j]))
    /\ phase \in {"waiting", "replied", "done"} => i = Len(specs)
    /\ phase \in {"replied", "done"} => reply \in Replies(method, req)
    /\ phase = "done" => reply.ec = NoError /\ result = FieldsOf(method, reply.fields)

(* The initial state satisfies the inductive invariant.                    *)
LEMMA IInvInit == Init => IInv
<1> SUFFICES ASSUME Init PROVE IInv
  OBVIOUS
<1>1. Len(specs) \in 0..MaxSpecs
  BY SpecsShape DEF Init
<1>2. req = [j \in 1..i |-> ConvertSpec(method, specs[j])]
  BY DEF Init
<1>3. QED
  BY <1>1, <1>2 DEF Init, IInv, TypeOK, Phases

(* Appending the next converted entry extends the request by that entry.   *)
LEMMA AppendEntry ==
    ASSUME NEW k, NEW s, NEW n \in Nat,
           NEW r, r = [j \in 1..n |-> ConvertSpec(k, s[j])]
    PROVE  Append(r, ConvertSpec(k, s[n + 1]))
               = [j \in 1..n + 1 |-> ConvertSpec(k, s[j])]
<1> DEFINE S == {ConvertSpec(k, s[j]) : j \in 1..n + 1}
<1>1. r \in [1..n -> S]
  OBVIOUS
<1>2. r \in Seq(S) /\ Len(r) = n
  BY <1>1, ListShape
<1>3. ConvertSpec(k, s[n + 1]) \in S
  OBVIOUS
<1>4. /\ Append(r, ConvertSpec(k, s[n + 1])) \in Seq(S)
      /\ Len(Append(r, ConvertSpec(k, s[n + 1]))) = n + 1
      /\ \A j \in 1..n : Append(r, ConvertSpec(k, s[n + 1]))[j] = r[j]
      /\ Append(r, ConvertSpec(k, s[n + 1]))[n + 1] = ConvertSpec(k, s[n + 1])
  BY <1>2, <1>3, AppendProperties
<1>5. DOMAIN Append(r, ConvertSpec(k, s[n + 1])) = 1..n + 1
  BY <1>4, LenProperties
<1>6. QED
  BY <1>4, <1>5

(* Every step preserves the inductive invariant.                           *)
LEMMA IInvStep == IInv /\ [SNext]_svars => IInv'
<1> SUFFICES ASSUME IInv, [SNext]_svars PROVE IInv'
  OBVIOUS
<1>0. specs \in Seq(Entries) /\ Len(specs) \in 0..MaxSpecs
  BY SpecsShape DEF IInv, TypeOK
<1> USE <1>0 DEF IInv, TypeOK, Phases
<1>1. CASE CheckSpecs
  BY <1>1 DEF CheckSpecs
<1>2. CASE ConvertEntry
  <2> DEFINE out == ConvertSpec(method, specs[i + 1])
  <2>1. i + 1 \in 1..Len(specs)
    BY <1>2 DEF ConvertEntry
  <2>2. specs[i + 1] \in Entries
    BY <2>1, ElementOfSeq
  <2>3. CASE Raises(out)
    <3>1. out.raise \in {TypeError, ArgumentError}
      BY <2>2, <2>3, RaiseClass
    <3>2. QED
      BY <1>2, <2>3, <3>1 DEF ConvertEntry
  <2>4. CASE ~Raises(out)
    <3>1. /\ req' = Append(req, out) /\ i' = i + 1
          /\ UNCHANGED <<phase, raised, method, specs, reply, result>>
      BY <1>2, <2>4 DEF ConvertEntry
    <3>2. req' = [j \in 1..i + 1 |-> ConvertSpec(method, specs[j])]
      BY <3>1, AppendEntry
    <3>3. \A j \in 1..i + 1 : ~Raises(ConvertSpec(method, specs[j]))
      BY <2>4
    <3>4. QED
      BY <2>1, <3>1, <3>2, <3>3
  <2>5. QED
    BY <2>3, <2>4
<1>3. CASE Execute
  BY <1>3 DEF Execute
<1>4. CASE Reply
  BY <1>4 DEF Reply
<1>5. CASE BuildResult
  <2>1. CASE reply.ec # NoError
    BY <1>5, <2>1 DEF BuildResult
  <2>2. CASE reply.ec = NoError
    <3> DEFINE out == FieldsOf(method, reply.fields)
    <3>1. /\ DOMAIN out = 1..Len(specs)
          /\ \A j \in 1..Len(specs) :
                /\ out[j].status \in StatusSymbols
                /\ out[j].type \in ResultTypes
      BY <1>5, <2>2, BuiltFields DEF BuildResult
    <3>2. CASE \E j \in DOMAIN out : out[j].value = Throws
      <4>1. /\ phase' = "threw"
            /\ UNCHANGED <<method, specs, i, req, reply, result, raised>>
        BY <1>5, <2>2, <3>2 DEF BuildResult
      <4>2. QED
        BY <4>1
    <3>3. CASE ~\E j \in DOMAIN out : out[j].value = Throws
      <4>1. /\ phase' = "done" /\ result' = out
            /\ UNCHANGED <<method, specs, i, req, reply, raised>>
        BY <1>5, <2>2, <3>3 DEF BuildResult
      <4>2. QED
        BY <1>5, <2>2, <3>1, <4>1 DEF BuildResult, ResultTypes
    <3>4. QED
      BY <3>2, <3>3
  <2>3. QED
    BY <2>1, <2>2
<1>6. CASE UNCHANGED svars
  BY <1>6 DEF svars
<1>7. QED
  BY <1>1, <1>2, <1>3, <1>4, <1>5, <1>6 DEF SNext

(* The inductive invariant holds in every reachable state.                 *)
LEMMA IInvHolds == SSpec => []IInv
BY IInvInit, IInvStep, PTL DEF SSpec

(* Type correctness of every reachable state: the loop index stays within  *)
(* the spec array and the result carries only the symbols                  *)
(* cb__map_subdoc_opcode and cb__map_subdoc_status produce.                *)
THEOREM TypeCorrect == SSpec => []TypeOK
BY IInvHolds, PTL DEF IInv

(* The inductive invariant implies the round trip: the result has one hash *)
(* per spec, with the spec's path and operation.                           *)
LEMMA IInvRoundTrip == IInv => RoundTrip
<1> SUFFICES ASSUME IInv, phase = "done"
             PROVE  /\ Len(result) = Len(specs)
                    /\ \A j \in DOMAIN result :
                          /\ result[j].path = specs[j].path
                          /\ result[j].type = Asked(specs[j])
  BY DEF RoundTrip
<1>1. specs \in Seq(Entries) /\ Len(specs) \in 0..MaxSpecs
  BY SpecsShape DEF IInv, TypeOK
<1>2. /\ DOMAIN result = 1..Len(specs)
      /\ \A j \in 1..Len(specs) :
            /\ result[j].path = specs[j].path
            /\ result[j].type = Asked(specs[j])
  <2>1. /\ method \in Methods
        /\ \A j \in 1..Len(specs) : ~Raises(ConvertSpec(method, specs[j]))
        /\ reply \in Replies(method,
                             [j \in 1..Len(specs) |-> ConvertSpec(method, specs[j])])
        /\ reply.ec = NoError
        /\ result = FieldsOf(method, reply.fields)
    BY DEF IInv, TypeOK
  <2>2. QED
    BY <1>1, <2>1, BuiltFields
<1>3. result \in [1..Len(specs) -> {result[j] : j \in 1..Len(specs)}]
  BY <1>2 DEF IInv, FieldsOf
<1>4. Len(result) = Len(specs)
  BY <1>1, <1>3, ListShape
<1>5. QED
  BY <1>2, <1>4

(* The property the subdoc run checks, for every set of opcode symbols and *)
(* every bound on the spec array: lookup_in and mutate_in return one field *)
(* per spec, in the caller's order, with the caller's path and operation.  *)
THEOREM RoundTripHolds == SSpec => []RoundTrip
BY IInvHolds, IInvRoundTrip, PTL

=============================================================================
