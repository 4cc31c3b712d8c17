# Formal models of the Couchbase Ruby client extension

TLA+ models of `src/ext/couchbase/`, the C++ extension behind the Ruby
`Couchbase::Backend` class. The models are checked with TLC, and part of them
is proved with TLAPS.

## The system and its parts

The proofs are in `BackendProofs`, `SubdocProofs` and `HttpResponsesProofs`. Each one extends the module it is about.

| Part | Source | Module |
|---|---|---|
| What a Backend object promises its threads (abstract) | spec sections 4.4 and 5 | `BackendSession` |
| Backend object life cycle: allocate, close, GC free, worker thread | `couchbase.cxx` 71-135, 507-514 | `Backend` |
| Request dispatch by every Ruby method: closed check, argument checks, submit with a promise, `f.get()` | `couchbase.cxx` 479-1064 | `Backend` |
| HTTP response decoders (`make_response`) of bucket update, analytics dataset create, link drop and pending mutations, and search analyze document and documents count | `operations/*.hxx` | `HttpResponses` |
| Error code to Ruby exception class (`cb_raise_error_code`) | `couchbase.cxx` 271-477 | not modelled: no decoded HTTP code reaches it (see below) |
| Sub-document spec and result conversion (`lookup_in`, `mutate_in`, opcode and status maps) | `couchbase.cxx` 641-932 | `Subdoc` |
| Query options, parameters and result hash | `couchbase.cxx` 934-1064 | `Query` |
| Collections manifest response parse | `protocol/cmd_get_collections_manifest.hxx` 45-60 | `Manifest` |
| Version and exception registration (`init_*`) | `couchbase.cxx` | not modelled: defines Ruby constants once at load time |

### How the parts interact

- `cb_Backend_allocate` creates an asio `io_context` and a `couchbase::cluster`. It also starts a `std::thread` that runs `ctx->run()`: this is the worker.
- Every Ruby method holds the GVL and does four things in order:
  1. it checks that `backend->cluster` is still set;
  2. it converts its arguments, which may raise;
  3. it hands a request to the cluster with a callback that fulfils a `std::promise`;
  4. it blocks in `f.get()` **without releasing the GVL**.
- The worker runs the cluster's handlers. The completion handler of an HTTP request would call the operation's `make_response`, which decodes the body into an error code, and then the callback.
- Back on the Ruby thread, a failed response is turned into an exception by `cb_raise_error_code`.
- No Ruby method is defined for the six HTTP operations in this snapshot (`rb_define_method`, lines 1071-1079). Their decoders are modelled on their own, and the path from a decoded HTTP code to a Ruby exception is not modelled: it does not exist yet.
- `cb_Backend_close`, and the GC's `cb_Backend_free`, reset the cluster on the calling Ruby thread, join the worker, and then reset the context.

The cluster itself (`cluster.hxx`, its sessions and timers) is not under `src/`. `Backend` models what it does from the spec (sections 4.4 and 5):

- it keeps the `io_context` busy while it exists;
- it completes every request it accepted exactly once, by a reply or by a timeout;
- once open, its socket reads run handlers on the worker.

The two actions for this are `HandlerReturn` and `SessionRead`. They are marked `spec_modelled` in `PROJECT.json`.

Two further assumptions about the cluster are built into `Backend`, and no run can check them:

- `BackendCloseBegin` sets `opened' = FALSE` at `cluster.reset()` (`:81`). It assumes that destroying the cluster stops every session read.
- `WorkerExit`'s guard (no cluster, nothing pending, no handler running) stands for the io_context running dry once the cluster is gone. Line 133 is a bare `ctx->run()`; what keeps it busy is in `cluster.hxx`.

So the liveness of close (`EveryCallReturns`) is checked under these assumptions. A cluster whose destructor left a socket read or a timer on the context would make `worker.join()` hang (`:83`), and this model cannot show that.

## Module `Backend`

**State.**

| Variable | What it stands for |
|---|---|
| `cluster` | the `backend->cluster` pointer |
| `opened` | a successful `open` |
| `worker` | the worker: `running` `ctx->run()`, `exited`, or `joined` |
| `inHandler` | the worker is inside a cluster handler |
| `pending` | requests the cluster accepted and has not completed |
| `promise` | the state of each thread's barrier promise |
| `pc` | each Ruby thread: `idle`, `waiting` in `f.get()`, or `joining` in `worker.join()` |
| `gvl` | the holder of the GVL inside a backend method |
| `call` | the method a waiting thread is in |
| `outcome` | what the thread's last method returned |
| `freed` | the object has been freed by the GC |

**Actions.**

| Action | Code it models |
|---|---|
| `Init` | `cb_Backend_allocate` |
| `Dispatch(t, m)` | The common body of the eight methods `Open` … `Query`. It has three branches: raise "closed already"; raise an argument error before sending; submit and block holding the GVL. |
| `BarrierSetValue(t)` | The `[barrier](resp){ barrier->set_value(resp); }` lambda on the worker. |
| `FutureGet(t)` | `f.get()` returning. Then the method raises or builds its result, and leaves. A successful `open` opens the cluster. |
| `Close(t)` and `Free(t)` | `cb_Backend_close` and `cb_Backend_free`. Both use `BackendCloseBegin`, the `if (cluster) cluster.reset()` half of `cb__backend_close`. |
| `JoinWorker(t)` | `worker.join(); ctx.reset()`. |
| `WorkerExit` | `ctx->run()` returning, which happens once the cluster is gone and no work is left. |

**Fairness.**

- Strong fairness on `BarrierSetValue`. The cluster completes every accepted request by its reply or its timeout. Completions compete with socket reads for the single worker, but asio runs every ready handler, so a completion that stays ready is run.
- Weak fairness on `FutureGet`, `JoinWorker`, `HandlerReturn` and `WorkerExit`: a woken thread runs.
- Ruby threads are never obliged to call anything.

**Bounds.** The runs use two Ruby threads, model values `t1` and `t2`. Two is the least number for a close on one thread to race a request on the other. Every method and every branch of `Dispatch` can fire in every order. The pass run reaches 2,188 distinct states.

## Module `HttpResponses`

A response is `[ec, status, body]`:

- `ec` is the error the transport already set: none, or a timeout;
- `status` is one of 200, 202, 400, 404, 500 and 503;
- `body` is abstracted to what the decoders read of it:
  - whether it parses as JSON, and whether it is empty;
  - for text, whether it holds a `:` and the number it starts with;
  - the diagnostic phrases it contains;
  - the JSON `status` field (present or not, and its value);
  - the `errors` member: absent, an object, or an array of codes;
  - whether the `error` member and the result member (`analyzed`, `count`, or well-formed stats) are present.

Each decoder operator is a translation of its `make_response`:

- An access that throws in C++ (`at`, `std::stoul`, `get_object`, `get_unsigned`) yields `Throws`.
- The link-drop decoder keeps the `static_cast<std::uint32_t>` of the parsed number (`Uint32`).
- `MakeResponse` adds the guard every decoder starts with: a transport error is kept as it is.

The state machine has one response per behaviour:

1. `Init` picks an operation and a response.
2. `Decode` runs `make_response`.

`RaisedCodes` lists, by category, the codes that `cb_raise_error_code`'s switches enumerate. `TypeOK` checks decoded codes against it. The decoders set one code, `search_errc::index_not_ready`, from a category with no switch; `Outcomes` admits it by name.

The model does not cover malformed entries inside an `errors` array, for example a missing `"code"`, which throws too.

**Bounds.**

- Server codes are {24006, 24034, 24040, 21002}: the three codes the decoders know and one they do not.
- `errors` arrays hold up to 2 entries, so two known codes meet in both orders.
- All four search phrases are included.
- The pass run reaches 404,784 distinct states.

## Module `BackendSession` and the refinement

`BackendSession` says what a `Couchbase::Backend` object promises the Ruby
threads that use it. It has no worker, promise or cluster pointer in it:

- `session` is `open` or `closed`;
- each thread is `idle`, in a `request`, or `closing`;
- `gone` says the GC freed the object.

Its actions are:

- `Refuse`: a method on a closed session, or one with bad arguments, returns at once.
- `Submit` and `Complete`: a request is accepted only by an open session and is answered once.
- `Close` and `Free`: the session is shut. `CloseDone` means background work has stopped.

Methods enter only when no method of the object is running (`Enter`). Weak
fairness on `Complete` and `CloseDone` says that every started method returns.

`Backend` maps to it as follows (`SessionBar`, `InsideBar`, and `freed` for `gone`):

- the cluster pointer being set is an open session;
- a thread in `f.get()` is in a request;
- a thread in `worker.join()` is closing.

`Dispatch` maps to `Refuse` or `Submit`, `FutureGet` to `Complete`, `Close`,
`Free` and `JoinWorker` to their namesakes. The worker's steps
(`BarrierSetValue`, `HandlerReturn`, `SessionRead`, `WorkerExit`) are stutters.

The `backend` run checks `ImplementsSession == Session!Spec`,
fairness included, so the backend's own fairness is shown to deliver the
session's. `RefinesSession` proves the safety part for every set of threads.

## Module `Subdoc`

It models one call of `lookup_in` or `mutate_in` from the spec array to the result hash:

- `CheckSpecs` raises on an empty array.
- `ConvertEntry` converts one entry per step, in the order of the loop:
  1. `Check_Type` of the hash, the opcode symbol and the path;
  2. the opcode `if` chain;
  3. for `mutate_in`, the three param branches: nil, counter (`T_FIXNUM`) and string.
- `Execute` hands the request over and blocks, as in `Backend`.
- `Reply` is the server's multi-status reply. It is taken from the spec (4.3), because the decoding of `lookup_in_response` and `mutate_in_response` is not under `src/`:
  - one field per entry, in input order, each with a status; a failed field has an empty value;
  - a `lookup_in` field may fail on its own;
  - a `mutate_in` reply reports a failed entry by a "first failing entry index". The spec does not say that the response's `ec` is set as well, so `ReplyConsistent` allows both. It only requires that a `PathError` names some failed entry.
- `BuildResult` raises on `ec` (`:905`). Otherwise it builds each field with:
  - `cb__map_subdoc_opcode` (`MapOpcode`) and `cb__map_subdoc_status` (`MapStatus`);
  - the `get_doc` tag for an empty-path get;
  - `std::stoll` for counter values (`Stoll`, which yields `Throws` on a non-number).

  The `first_error_index` entry of the result hash (911-913) is copied and read by no branch, so it is left out.

The bounds are:

- opcodes `get`, `get_doc`, `count`, `counter`, `array_add_unique` and an unknown symbol;
- paths empty, non-empty, or not a String;
- params nil, Integer, String or Float;
- up to two entries;
- reply statuses `success`, `subdoc_path_not_found` and `subdoc_path_mismatch`.

This covers every branch of both loops and of the result conversion. The pass run reaches 71,736 distinct states.

## Module `Query`

It models one call of `query` from the argument checks to the metrics hash:

- `CheckArgs`: the `Check_Type`s, the three flags, and the profile.
  - A symbol other than `phases`, `timings` and `off` is ignored.
  - A non-symbol profile raises.
- `ConvertPositional` and `ConvertNamed`: one parameter per step, with its `Check_Type` and `tao::json::from_string`.
  - A String that is not JSON makes the parser throw a C++ exception. This is the `escaped` phase.
- `Reply` is taken from the spec.
- `BuildResult` builds the metrics hash as lines 1047-1062 do.

Rows and the string-valued meta fields are copied verbatim and are left out.

The bounds are:

- up to two positional and two named parameters, each JSON, non-JSON text, or not a String;
- named keys that are Strings or Symbols;
- flags nil or true;
- every profile case;
- result counts 0 and 1, so that `result_size` and `result_count` can differ.

`Query` has two violation runs and no pass run.

## Module `Manifest`

A response body object is made for one response frame and runs `parse` on it once. Its `manifest_` starts default-constructed (`NoManifest`).

A frame is abstracted to:

- its opcode and status;
- its framing-extras, key and extras sizes;
- its body length;
- what its value holds: a manifest, other JSON, or no JSON.

`ParseOutcomes` is `parse`:

- the `Expects` on the opcode terminates the process;
- a non-success status returns false;
- a value offset past the body is undefined behaviour, so it is the set of what the build can do: crash, throw, or decode garbage that looks like a manifest;
- an empty or non-manifest value throws;
- otherwise the manifest is stored in `manifest_` (`ManifestAfter`).

The bounds are:

- sections of size 0 or 1;
- bodies of up to 2 bytes, so that a value can be absent, present, or overrun.

`Manifest` has one violation run and no pass run. The request body has no sections and is not modelled.

## Runs

| Run | Expect | Properties | What it shows |
|---|---|---|---|
| `backend` | pass | `NoTeardownWhileWaiting`, `IInv`, `EveryCallReturns`, `ImplementsSession` | Close or GC free never destroys the cluster under a request in flight on another thread, because the GVL is held through `f.get()`. Every call, including close, returns, under the cluster assumptions above. The backend, with its worker and under its fairness, implements the abstract session, liveness included. |
| `backend_teardown_race` | violation | `TeardownOnlyWhenIdle` | The run is five states long: dispatch, then the worker runs the callback, then `f.get()` returns, then `close` resets the cluster while the worker is still inside the completion handler. Spec section 5 requires close to wait until no further work can be scheduled; the code does not. |
| `http_responses` | pass | `TypeOK`, `OrderIndependent` | Every decoded code is in the taxonomy. The analytics classification depends on the set of codes, not their order, because the code sets flags and then applies a fixed priority. |
| `http_decode_total` | violation | `DecodeTotal` | Decoders throw. Examples: a JSON body without `status`, a text body without a leading number in link drop, a 400 `errors` array in bucket update. Spec section 4.2 says decode always fills the context. |
| `http_success_body` | violation | `SuccessIsNoError` | In link drop, a JSON body whose status is `success` is classified `internal_server_failure`. |
| `subdoc` | pass | `TypeOK`, `RoundTrip` | Result fields come back with the opcode and path asked, in order, with `get_doc` for an empty-path get. Only the symbols `cb__map_subdoc_*` produce reach Ruby. |
| `subdoc_invalid_specs` | violation | `InvalidSpecsNeverSent` | A counter spec with a nil param is sent without a delta (`couchbase.cxx:880`). The spec requires an integer operand. |
| `subdoc_counter_stoll` | violation | `CounterValueConverted` | A `mutate_in` of one counter spec. The server fails the entry and reports it by index only, without `ec`. The method passes the check at `:905` and reaches `std::stoll` on the field's empty value at `:921`, which throws `std::invalid_argument` through the Ruby frames. |
| `query_cpp_exception` | violation | `NoCppExceptionEscapes` | A parameter that is a String but not JSON makes `from_string` throw a C++ exception through the Ruby method (`:994`, and `:942` inside `rb_hash_foreach`). |
| `query_metrics` | violation | `MetricsCopied` | The metrics hash reports `result_size` as the service's `result_count` (`:1049`). |
| `manifest_total` | violation | `DecodeTotal` | A frame with another opcode terminates the process through `Expects`. An empty or malformed value throws. Section sizes beyond the body read out of bounds. Spec 4.2 says decode always returns. |

`CHECK_DEADLOCK FALSE` is set for these reasons:

- In `Backend`, the end state after GC free and the worker join has nothing left to do.
- `HttpResponses`, `Subdoc` and `Query` model one call per behaviour, which then has returned.
- `Manifest` stops after its one frame is parsed, or when the process ends.

Every property of a pass run has a mutant in `PROJECT.json`: a plausible bug in the mapped code that TLC shows breaks it. The bugs are:

- releasing the GVL around the wait (`NoTeardownWhileWaiting`, `IInv`, `ImplementsSession`);
- joining the worker before resetting the cluster (`EveryCallReturns`);
- classifying by the first known entry of the array (`OrderIndependent`);
- using a wrong error category (`TypeOK` of `HttpResponses`);
- a missing case in the opcode map (`RoundTrip`);
- the raw status passed through (`TypeOK` of `Subdoc`).

## What is proved

TLAPS checks every proof to the last leaf. Each theorem holds for every value of the constants its module's `ASSUME` allows.

### `BackendProofs`

The theorems below are proved for every set of threads, assuming only `NoThread \notin Threads`:

- `TypeCorrect`: `Spec => []TypeOK`.
- `IInvHolds`: `Spec => []IInv`.
- `NoTeardownWhileWaitingHolds`.

`NoTeardownWhileWaiting` is not inductive on its own. For example, a step of `Close` preserves `NoTeardownWhileWaiting` only if no thread is waiting when close can enter. The strengthening `IInv` supplies the missing facts:

- `GVLExclusion`: a thread is waiting or joining exactly when it holds the GVL. So a thread that can enter close knows nobody is waiting.
- `WaitersHaveCluster`: a waiting thread has a live cluster, and a joining thread has reset it.
- `PendingAreWaiting`: an accepted request belongs to a waiting thread with an empty promise.
- `ClusterKeepsWorker`: a live cluster implies a running worker.

`IInvStep` has one step per action. The safety theorem follows from `IInv` by propositional reasoning. TLC also checks `IInv` itself in the `backend` run.

`RefinesSession` proves `Spec => Session!SafeSpec`, following the usual layout:

- `Init` maps to `Session!Init`;
- `SessionStep` shows that every step allowed by `IInv` maps to a session step or a stutter, with one step per action;
- the result follows with `IInvHolds` by PTL.

`IInv` is needed here too. `Close` maps to the session's `Close` only because the closing thread may `Enter`, which means no other thread is in a request; `GVLExclusion` gives that.

### `SubdocProofs`

These hold for every set of opcode symbols and reply statuses and every bound on the spec array. `RoundTrip` speaks of the end of the call, but it depends on what the loop built earlier. The strengthening `IInv`, defined in the proof module, says:

- `req` is exactly the converted entries of the first `i` specs, and none of them raised;
- from `waiting` on, all specs are converted;
- a reply is one `Replies` allows for that request;
- a `done` result is the reply converted by `FieldsOf`.

The lemmas are about the operators:

- `LookupRoundTrip` and `MutateRoundTrip`: a spec that converts comes back with its path and operation, whatever the field's status.
- `ReplyShape`: a reply has one field per entry, each built from its entry with some status.
- `BuiltFields`: the result built from a reply without error.
- `AppendEntry`: one loop step extends the request by the next converted entry.

The theorems are `TypeCorrect` and `RoundTripHolds`. They hold with the reply as the spec allows it, including a failed mutation entry that leaves `ec` unset: that case ends in `threw`, not in `done`.

### `HttpResponsesProofs`

These hold for every set of server codes and every bound on the `errors` array:

- `TypeCorrect`: every decoder yields a code of the taxonomy, by `MakeResponseTyped`.
- `OrderIndependentHolds`. The strengthening `IInv`, defined in the proof module, says that a decoded context is `MakeResponse` of the response. `DecodesByCodes` shows that `make_response` reads the `errors` array only through the set of its codes. `ReplaceErrors` shows that replacing the array changes nothing else of the response.

### Modelling choices made for the proofs

The decoders of `HttpResponses` were written as `CASE`s whose arms overlap, and so were the entry conversions of `Subdoc`, `MapOpcode`, and `ParseOutcomes` in `Manifest`. For example, an empty 200 body in link drop satisfies both the `NoError` arm and the no-colon arm. TLC evaluates the first true arm, but in TLA+ a `CASE` with several true arms is an unspecified choice among them. So a proof about such a `CASE` would be about a different function than the one TLC checks.

All of them are now `IF`/`ELSE IF` chains, or disjuncts with disjoint guards, in the order of the code's `if`/`else` chains. That is what TLC already evaluated: every run reaches the same number of states as before. The mutant operators stay as they are, because only TLC reads them.

### What stays model-checked only

- `EveryCallReturns`, and the fairness part of `ImplementsSession`: TLAPS does not reason about liveness or `ENABLED`.
- Everything about `Query` and `Manifest`: their runs are violation runs.
- The violation runs: they show counterexamples, so there is nothing to prove.
- Facts about particular finite data, such as which server codes a decoder knows. TLC covers these exhaustively for the chosen bounds; the theorems above are stated for every value of the constants instead.

## Defects visible in a single definition

`cb__map_subdoc_status` has no case for `subdoc_path_not_found`, among other statuses, so such a status reaches Ruby as `:unknown` (`MapStatus`, `couchbase.cxx:736`). No run checks this: the switch's default is what the code does, and neither the spec nor a comment lists the statuses it must name.

## Not modelled

- The memory leaked when `rb_raise` longjmps past C++ destructors (`couchbase.cxx:564` and every raise after a conversion). A finite-state model has no heap.
- The key collision in the pending-mutations stats map (`analytics_get_pending_mutations.hxx:75`). Names are abstracted to what the decoders classify.
- Request encoding: strings and paths, which no property distinguishes.
- `init_*`, which only registers Ruby classes at load time.

## Plan for what is left

1. A model of `cluster.hxx`'s destructor, should its source be added, so that the liveness of close no longer rests on the two assumptions above.
2. The pending-mutations stats map, with dataverse and dataset names as short sequences, so that the key collision becomes visible.
3. Once Ruby methods dispatch the HTTP operations, the path from a decoded code to `cb_raise_error_code`.
