------------------------------- MODULE Manifest -------------------------------
(***************************************************************************)
(* The get_collections_manifest command of the binary protocol             *)
(* (src/ext/couchbase/protocol/cmd_get_collections_manifest.hxx): the      *)
(* response body's parse, which checks the opcode in the header, skips     *)
(* framing extras, key and extras, and decodes the rest of the body as a   *)
(* JSON collections manifest into its manifest_ member.                    *)
(*                                                                         *)
(* A response body object is made for one response frame and parses it    *)
(* once; its manifest_ starts default-constructed.  A                      *)
(* frame is abstracted to its opcode, status, declared section sizes, body *)
(* length and what its value bytes hold.  Reading past the end of the body *)
(* is undefined behaviour: the build may crash, throw from the JSON parser *)
(* on garbage, or decode garbage that happens to look like a manifest.     *)
(***************************************************************************)
EXTENDS Naturals

CONSTANTS
    Manifests,  \* the manifests the server may send
    MaxSection, \* largest framing extras / key / extras size considered
    MaxBody     \* largest body length considered

Opcode == "get_collections_manifest"

Frames ==
    [opcode : {Opcode, "other"}, status : {"success", "not_found"},
     framing : 0..MaxSection, key : 0..MaxSection, extras : 0..MaxSection,
     bodyLen : 0..MaxBody, value : Manifests \cup {"not_manifest", "not_json"}]

(* What parse can end in: true with a manifest, false, a C++ exception     *)
(* from the JSON parser or the manifest conversion, or the end of the      *)
(* process (the Expects contract's std::terminate, or a crash).            *)
Parsed(m)   == [ok |-> TRUE, manifest |-> m]
NotParsed   == [ok |-> FALSE]
Threw       == [threw |-> "parse_error"]
Terminated  == [abort |-> "terminate"]
Crashed     == [abort |-> "crash"]

(* The offset of the value in the body.                                    *)
ValueOffset(f) == f.framing + f.key + f.extras

(* get_collections_manifest_response_body::parse, as the outcomes the     *)
(* build may produce for frame f.                                          *)
ParseOutcomes(f) ==
    IF f.opcode # Opcode THEN {Terminated}
    ELSE IF f.status # "success" THEN {NotParsed}
    ELSE IF ValueOffset(f) > f.bodyLen
         THEN {Crashed, Threw} \cup {Parsed(m) : m \in Manifests}
    ELSE IF ValueOffset(f) = f.bodyLen \/ f.value \notin Manifests THEN {Threw}
    ELSE {Parsed(f.value)}

(* manifest_ = ...as<collections_manifest>() is assigned only when the     *)
(* conversion returned; otherwise the member keeps what it held.           *)
ManifestAfter(old, f, o) == IF "manifest" \in DOMAIN o THEN o.manifest ELSE old

-----------------------------------------------------------------------------
VARIABLES
    phase,      \* "sent" (awaiting the frame), "received", "returned", "dead"
    frame,      \* the response frame read for the request
    manifest,   \* the response body's manifest_ member
    outcome     \* what parse ended in

vars == <<phase, frame, manifest, outcome>>

NoFrame == [opcode |-> Opcode, status |-> "success", framing |-> 0, key |-> 0,
            extras |-> 0, bodyLen |-> 0, value |-> "not_json"]

(* The default-constructed collections_manifest of a new response body.    *)
NoManifest == "default"

Init ==
    /\ phase = "sent"
    /\ frame = NoFrame
    /\ manifest = NoManifest
    /\ outcome = NotParsed

(* The server's response frame arrives.                                    *)
Receive ==
    /\ phase = "sent"
    /\ frame' \in Frames
    /\ phase' = "received"
    /\ UNCHANGED <<manifest, outcome>>

(* parse runs on the frame; a terminate or a crash ends the process.       *)
Parse ==
    /\ phase = "received"
    /\ \E o \in ParseOutcomes(frame) :
          /\ outcome' = o
          /\ manifest' = ManifestAfter(manifest, frame, o)
          /\ phase' = IF o \in {Terminated, Crashed} THEN "dead" ELSE "returned"
    /\ UNCHANGED frame

Next == Receive \/ Parse

Spec == Init /\ [][Next]_vars

-----------------------------------------------------------------------------
(* Decoding always returns: every response frame ends in true or false,   *)
(* never in a C++ exception, a read outside the frame or the end of the    *)
(* process (spec 4.2: decode always succeeds at the data-shape level and  *)
(* an unparseable frame is a parsing failure; a mismatching opcode is a    *)
(* protocol violation to be surfaced, not a crash).                        *)
DecodeTotal == outcome \notin {Threw, Crashed, Terminated}

=============================================================================
