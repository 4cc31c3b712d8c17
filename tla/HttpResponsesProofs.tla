------------------------- MODULE HttpResponsesProofs --------------------------
(***************************************************************************)
(* Proofs about HttpResponses for every set of server codes and every     *)
(* bound on the errors array: each decoder yields a code of the error      *)
(* taxonomy (or an escaping exception), and the classification of an       *)
(* analytics failure depends on which codes the errors array holds, never *)
(* on their order.                                                         *)
(***************************************************************************)
EXTENDS HttpResponses, TLAPS

USE ResponsesAssumption

(* The codes the analytics decoders pick between are in the taxonomy.      *)
LEMMA AnalyticsCodesTyped ==
    ASSUME NEW codes
    PROVE  /\ DatasetCreateCode(codes) \in Outcomes
           /\ LinkDropCode(codes) \in Outcomes
BY DEF DatasetCreateCode, LinkDropCode, Outcomes, Analytics, Common,
       RaisedCodes

(* make_response of every operation yields no error, an escaping          *)
(* exception, the transport's error, or a code of the taxonomy.            *)
LEMMA MakeResponseTyped ==
    ASSUME NEW o \in Ops, NEW r \in Responses
    PROVE  MakeResponse(o, r) \in Outcomes
<1>1. CASE r.ec # NoError
  BY <1>1 DEF MakeResponse, Responses, TransportErrors, Outcomes
<1>2. CASE r.ec = NoError
  <2>1. BucketUpdate(r) \in Outcomes
    BY DEF BucketUpdate, Outcomes, Common, RaisedCodes
  <2>2. DatasetCreate(r) \in Outcomes
    BY AnalyticsCodesTyped DEF DatasetCreate, Outcomes, Common, RaisedCodes
  <2>3. LinkDrop(r) \in Outcomes
    BY AnalyticsCodesTyped DEF LinkDrop, Outcomes, Common, RaisedCodes
  <2>4. PendingMutations(r) \in Outcomes
    BY DEF PendingMutations, Outcomes, Common, RaisedCodes
  <2>5. AnalyzeDocument(r) \in Outcomes
    BY DEF AnalyzeDocument, Outcomes, Common, RaisedCodes
  <2>6. DocumentsCount(r) \in Outcomes
    BY DEF DocumentsCount, Outcomes, Common, Search, RaisedCodes
  <2>7. QED
    BY <1>2, <2>1, <2>2, <2>3, <2>4, <2>5, <2>6 DEF MakeResponse, Ops
<1>3. QED
  BY <1>1, <1>2

(* make_response reads a response through its transport error, its HTTP  *)
(* status, the body's facts and the set of codes of its errors array:      *)
(* two responses that agree on these decode alike.                         *)
LEMMA DecodesByCodes ==
    ASSUME NEW o \in Ops, NEW r, NEW s,
           r.ec = s.ec, r.status = s.status,
           r.body.json = s.body.json, r.body.empty = s.body.empty,
           r.body.colon = s.body.colon, r.body.lead = s.body.lead,
           r.body.phrases = s.body.phrases,
           r.body.hasStatus = s.body.hasStatus,
           r.body.status = s.body.status,
           r.body.errorsKind = s.body.errorsKind,
           r.body.hasError = s.body.hasError,
           r.body.hasResult = s.body.hasResult,
           Codes(r.body) = Codes(s.body)
    PROVE  MakeResponse(o, r) = MakeResponse(o, s)
<1>1. BucketUpdate(r) = BucketUpdate(s)
  BY DEF BucketUpdate
<1>2. DatasetCreate(r) = DatasetCreate(s)
  BY DEF DatasetCreate
<1>3. LinkDrop(r) = LinkDrop(s)
  BY DEF LinkDrop
<1>4. PendingMutations(r) = PendingMutations(s)
  BY DEF PendingMutations
<1>5. AnalyzeDocument(r) = AnalyzeDocument(s)
  BY DEF AnalyzeDocument
<1>6. DocumentsCount(r) = DocumentsCount(s)
  BY DEF DocumentsCount
<1>7. QED
  BY <1>1, <1>2, <1>3, <1>4, <1>5, <1>6 DEF MakeResponse, Ops

(* Replacing the errors array of a response changes nothing else of it.    *)
LEMMA ReplaceErrors ==
    ASSUME NEW r \in Responses, NEW e
    PROVE  LET s == [r EXCEPT !.body.errors = e]
           IN  /\ s.ec = r.ec /\ s.status = r.status
               /\ s.body.json = r.body.json /\ s.body.empty = r.body.empty
               /\ s.body.colon = r.body.colon /\ s.body.lead = r.body.lead
               /\ s.body.phrases = r.body.phrases
               /\ s.body.hasStatus = r.body.hasStatus
               /\ s.body.status = r.body.status
               /\ s.body.errorsKind = r.body.errorsKind
               /\ s.body.hasError = r.body.hasError
               /\ s.body.hasResult = r.body.hasResult
               /\ s.body.errors = e
<1>1. /\ DOMAIN r = {"ec", "status", "body"}
      /\ DOMAIN r.body = {"json", "empty", "colon", "lead", "phrases",
                          "hasStatus", "status", "errorsKind", "errors",
                          "hasError", "hasResult"}
  BY DEF Responses, Bodies
<1>2. QED
  BY <1>1, Zenon

(* The inductive invariant behind TypeOK and OrderIndependent: once        *)
(* decoded, the context holds what make_response returns for the response *)
(* that arrived.                                                           *)
IInv ==
    /\ TypeOK
    /\ ctx # Pending => ctx = MakeResponse(op, response)

(* The initial state satisfies the inductive invariant.                    *)
LEMMA IInvInit == Init => IInv
BY DEF Init, IInv, TypeOK, Outcomes, Pending

(* Every step preserves the inductive invariant.                           *)
LEMMA IInvStep == IInv /\ [HNext]_hvars => IInv'
<1> SUFFICES ASSUME IInv, [HNext]_hvars PROVE IInv'
  OBVIOUS
<1> USE DEF IInv, TypeOK
<1>1. CASE Decode
  <2>1. MakeResponse(op, response) \in Outcomes
    BY MakeResponseTyped
  <2>2. QED
    BY <1>1, <2>1 DEF Decode
<1>3. CASE UNCHANGED hvars
  BY <1>3 DEF hvars
<1>4. QED
  BY <1>1, <1>3 DEF HNext

(* The inductive invariant holds in every reachable state.                 *)
LEMMA IInvHolds == HSpec => []IInv
BY IInvInit, IInvStep, PTL DEF HSpec

(* Type correctness of every reachable state, for every set of server      *)
(* codes: a decoder only produces codes the error taxonomy defines.         *)
THEOREM TypeCorrect == HSpec => []TypeOK
BY IInvHolds, PTL DEF IInv

(* The inductive invariant implies order independence: the decoded        *)
(* context is what any reordering of the errors array would decode to.     *)
LEMMA IInvOrderIndependent == IInv => OrderIndependent
<1> SUFFICES ASSUME IInv, ctx # Pending, NEW e \in ErrorSeqs,
                    {e[i] : i \in DOMAIN e} = Codes(response.body),
                    response.body.errorsKind = "array"
             PROVE  MakeResponse(op, [response EXCEPT !.body.errors = e]) = ctx
  BY DEF OrderIndependent
<1> DEFINE s == [response EXCEPT !.body.errors = e]
<1>1. /\ op \in Ops /\ response \in Responses
      /\ ctx = MakeResponse(op, response)
  BY DEF IInv, TypeOK
<1>2. /\ s.ec = response.ec /\ s.status = response.status
      /\ s.body.json = response.body.json /\ s.body.empty = response.body.empty
      /\ s.body.colon = response.body.colon /\ s.body.lead = response.body.lead
      /\ s.body.phrases = response.body.phrases
      /\ s.body.hasStatus = response.body.hasStatus
      /\ s.body.status = response.body.status
      /\ s.body.errorsKind = response.body.errorsKind
      /\ s.body.hasError = response.body.hasError
      /\ s.body.hasResult = response.body.hasResult
      /\ s.body.errors = e
  BY <1>1, ReplaceErrors
<1>3. Codes(s.body) = Codes(response.body)
  BY <1>2 DEF Codes
<1>4. QED
  BY <1>1, <1>2, <1>3, DecodesByCodes

(* The property the http_responses run checks, for every set of server     *)
(* codes and every bound on the errors array: the analytics decoders       *)
(* classify a failure by which codes the errors array holds, not by their  *)
(* order (24040 over 24006, 24034 over 24006, wherever they stand).        *)
THEOREM OrderIndependentHolds == HSpec => []OrderIndependent
BY IInvHolds, IInvOrderIndependent, PTL

=============================================================================
