------------------------------- MODULE Backend -------------------------------
(***************************************************************************)
(* The Ruby object Couchbase::Backend (src/ext/couchbase/couchbase.cxx):   *)
(* its life cycle (allocate, close, GC free) and the dispatch of every     *)
(* request method over the background worker thread.                       *)
(*                                                                         *)
(* A Ruby method runs on a Ruby thread holding the global VM lock (GVL).   *)
(* A dispatching method checks that the cluster still exists, converts its *)
(* arguments (which may raise), hands the request to the cluster with a    *)
(* callback that fulfils a std::promise, and blocks in future::get()       *)
(* without releasing the GVL.  The worker thread runs the asio io_context: *)
(* it invokes the callback, and runs the cluster's own socket handlers     *)
(* once the cluster is open.  cb__backend_close destroys the cluster on    *)
(* the calling Ruby thread and then joins the worker.                      *)
(*                                                                         *)
(* The cluster object (cluster.hxx) is not under src/: what it does is     *)
(* taken from the spec (sections 4.4 and 5): it holds the io_context busy  *)
(* while it exists, completes every request it accepted exactly once (by a *)
(* reply or by the request's timeout) and, once open, keeps socket reads   *)
(* outstanding whose handlers run on the worker.                           *)
(***************************************************************************)
EXTENDS Naturals

CONSTANTS
    Threads,    \* the Ruby threads that call methods of one Backend object
    NoThread    \* "no thread holds the GVL"

ASSUME ThreadsAssumption == NoThread \notin Threads

VARIABLES
    cluster,    \* backend->cluster is not null
    opened,     \* cluster->open() has succeeded (sessions with reads exist)
    worker,     \* backend->worker: "running" ctx->run(), "exited" it, "joined"
    inHandler,  \* the worker is executing a handler of the cluster
    pending,    \* threads whose request the cluster accepted and not completed
    promise,    \* state of each thread's barrier promise
    pc,         \* where each Ruby thread is
    gvl,        \* the Ruby thread holding the GVL inside a Backend method
    call,       \* the method a waiting thread is in
    outcome,    \* what the last method of each thread returned to Ruby
    freed       \* the object was garbage collected (cb_Backend_free)

vars == <<cluster, opened, worker, inHandler, pending, promise, pc, gvl,
          call, outcome, freed>>

(* The Ruby methods that dispatch one request through the cluster.         *)
Methods == {"open", "open_bucket", "get", "upsert", "remove",
            "lookup_in", "mutate_in", "query"}

(* What a method returns to its Ruby caller: a result, an exception raised *)
(* from the response's error code, the ArgumentError "Cluster has been     *)
(* closed already", or a TypeError/ArgumentError from argument checks.     *)
Outcomes == {"none", "ok", "error", "closed", "invalid"}

(* Type invariant of the backend object and of the Ruby threads using it.  *)
TypeOK ==
    /\ cluster \in BOOLEAN
    /\ opened \in BOOLEAN
    /\ worker \in {"running", "exited", "joined"}
    /\ inHandler \in BOOLEAN
    /\ pending \in SUBSET Threads
    /\ promise \in [Threads -> {"none", "empty", "set"}]
    /\ pc \in [Threads -> {"idle", "waiting", "joining"}]
    /\ gvl \in Threads \cup {NoThread}
    /\ call \in [Threads -> Methods \cup {"none"}]
    /\ outcome \in [Threads -> Outcomes]
    /\ freed \in BOOLEAN

-----------------------------------------------------------------------------
(* cb_Backend_allocate: make the io_context and the cluster, start the     *)
(* worker thread running ctx->run().                                       *)
Init ==
    /\ cluster = TRUE
    /\ opened = FALSE
    /\ worker = "running"
    /\ inHandler = FALSE
    /\ pending = {}
    /\ promise = [t \in Threads |-> "none"]
    /\ pc = [t \in Threads |-> "idle"]
    /\ gvl = NoThread
    /\ call = [t \in Threads |-> "none"]
    /\ outcome = [t \in Threads |-> "none"]
    /\ freed = FALSE

(* A Ruby thread may enter a method of the object when no other thread     *)
(* holds the GVL and the object is still reachable.                        *)
CanEnter(t) == gvl = NoThread /\ pc[t] = "idle" /\ ~freed

(* Mutant: the request is submitted and waited on with the GVL released.   *)
DispatchWithoutGVL(t, m) ==
    /\ CanEnter(t)
    /\ cluster
    /\ pending' = pending \cup {t}
    /\ promise' = [promise EXCEPT ![t] = "empty"]
    /\ pc' = [pc EXCEPT ![t] = "waiting"]
    /\ call' = [call EXCEPT ![t] = m]
    /\ UNCHANGED <<cluster, opened, worker, inHandler, gvl, outcome, freed>>

(* The common body of every dispatching method: the closed check, the      *)
(* argument checks that raise before anything is sent, and the hand-off of *)
(* the request with a barrier promise, after which the thread blocks in    *)
(* f.get() still holding the GVL.                                          *)
Dispatch(t, m) ==
    /\ CanEnter(t)
    /\ \/ /\ ~cluster
          /\ outcome' = [outcome EXCEPT ![t] = "closed"]
          /\ UNCHANGED <<pending, promise, pc, gvl, call>>
       \/ /\ cluster
          /\ outcome' = [outcome EXCEPT ![t] = "invalid"]
          /\ UNCHANGED <<pending, promise, pc, gvl, call>>
       \/ /\ cluster
          /\ pending' = pending \cup {t}
          /\ promise' = [promise EXCEPT ![t] = "empty"]
          /\ pc' = [pc EXCEPT ![t] = "waiting"]
          /\ gvl' = t
          /\ call' = [call EXCEPT ![t] = m]
          /\ UNCHANGED outcome
    /\ UNCHANGED <<cluster, opened, worker, inHandler, freed>>

Open(t)       == Dispatch(t, "open")
OpenBucket(t) == Dispatch(t, "open_bucket")
Get(t)        == Dispatch(t, "get")
Upsert(t)     == Dispatch(t, "upsert")
Remove(t)     == Dispatch(t, "remove")
LookupIn(t)   == Dispatch(t, "lookup_in")
MutateIn(t)   == Dispatch(t, "mutate_in")
Query(t)      == Dispatch(t, "query")

(* The callback [barrier](resp) { barrier->set_value(resp); } run by the   *)
(* worker inside the cluster's completion handler of t's request.          *)
BarrierSetValue(t) ==
    /\ worker = "running"
    /\ ~inHandler
    /\ t \in pending
    /\ pending' = pending \ {t}
    /\ promise' = [promise EXCEPT ![t] = "set"]
    /\ inHandler' = TRUE
    /\ UNCHANGED <<cluster, opened, worker, pc, gvl, call, outcome, freed>>

(* The cluster's handler returns to the io_context after the callback.     *)
HandlerReturn ==
    /\ inHandler
    /\ inHandler' = FALSE
    /\ UNCHANGED <<cluster, opened, worker, pending, promise, pc, gvl, call,
                   outcome, freed>>

(* A socket read of an open cluster completes: its handler runs on the     *)
(* worker and touches the cluster's sessions.                              *)
SessionRead ==
    /\ worker = "running"
    /\ cluster
    /\ opened
    /\ ~inHandler
    /\ inHandler' = TRUE
    /\ UNCHANGED <<cluster, opened, worker, pending, promise, pc, gvl, call,
                   outcome, freed>>

(* f.get() returns the response; the method raises from its error code or *)
(* builds its result hash, and leaves, releasing the GVL.  A successful    *)
(* open leaves the cluster open.                                           *)
FutureGet(t) ==
    /\ pc[t] = "waiting"
    /\ promise[t] = "set"
    /\ \E ok \in BOOLEAN :
          /\ outcome' = [outcome EXCEPT ![t] = IF ok THEN "ok" ELSE "error"]
          /\ opened' = (opened \/ (ok /\ call[t] = "open"))
    /\ pc' = [pc EXCEPT ![t] = "idle"]
    /\ promise' = [promise EXCEPT ![t] = "none"]
    /\ call' = [call EXCEPT ![t] = "none"]
    /\ gvl' = NoThread
    /\ UNCHANGED <<cluster, worker, inHandler, pending, freed>>

(* The first half of cb__backend_close: if the cluster exists, destroy it  *)
(* (cluster.reset) and go on to join the worker; otherwise do nothing.     *)
BackendCloseBegin(t) ==
    \/ /\ cluster
       /\ cluster' = FALSE
       /\ opened' = FALSE
       /\ pc' = [pc EXCEPT ![t] = "joining"]
       /\ gvl' = t
    \/ /\ ~cluster
       /\ UNCHANGED <<cluster, opened, pc, gvl>>

(* Mutant: join the worker before destroying the cluster.                  *)
CloseJoinFirst(t) ==
    /\ CanEnter(t)
    /\ cluster
    /\ pc' = [pc EXCEPT ![t] = "joining"]
    /\ gvl' = t
    /\ outcome' = [outcome EXCEPT ![t] = "ok"]
    /\ UNCHANGED <<cluster, opened, worker, inHandler, pending, promise, call,
                   freed>>

(* cb_Backend_close.                                                       *)
Close(t) ==
    /\ CanEnter(t)
    /\ BackendCloseBegin(t)
    /\ outcome' = [outcome EXCEPT ![t] = "ok"]
    /\ UNCHANGED <<worker, inHandler, pending, promise, call, freed>>

(* cb_Backend_free: the GC, running on thread t, frees the unreachable     *)
(* object: no method of it is running and none will be called again.      *)
Free(t) ==
    /\ CanEnter(t)
    /\ \A u \in Threads : pc[u] = "idle"
    /\ BackendCloseBegin(t)
    /\ freed' = TRUE
    /\ UNCHANGED <<worker, inHandler, pending, promise, call, outcome>>

(* ctx->run() returns on the worker once the cluster is gone and no        *)
(* handler is left to run.                                                 *)
WorkerExit ==
    /\ worker = "running"
    /\ ~cluster
    /\ pending = {}
    /\ ~inHandler
    /\ worker' = "exited"
    /\ UNCHANGED <<cluster, opened, inHandler, pending, promise, pc, gvl,
                   call, outcome, freed>>

(* The second half of cb__backend_close: worker.join() returns, then       *)
(* ctx.reset(); the method leaves and releases the GVL.                    *)
JoinWorker(t) ==
    /\ pc[t] = "joining"
    /\ worker = "exited"
    /\ worker' = "joined"
    /\ pc' = [pc EXCEPT ![t] = "idle"]
    /\ gvl' = NoThread
    /\ UNCHANGED <<cluster, opened, inHandler, pending, promise, call,
                   outcome, freed>>

-----------------------------------------------------------------------------
Next ==
    \/ \E t \in Threads :
          \/ Open(t) \/ OpenBucket(t) \/ Get(t) \/ Upsert(t) \/ Remove(t)
          \/ LookupIn(t) \/ MutateIn(t) \/ Query(t)
          \/ BarrierSetValue(t) \/ FutureGet(t)
          \/ Close(t) \/ Free(t) \/ JoinWorker(t)
    \/ HandlerReturn
    \/ SessionRead
    \/ WorkerExit

(* The worker thread is scheduled by the OS and asio runs ready handlers   *)
(* in order, so a completion that stays ready between socket reads is run  *)
(* (strong fairness); the cluster completes every accepted request by its  *)
(* reply or its timeout; a thread whose future is ready or whose worker    *)
(* has exited is woken.  Ruby threads are not obliged to call anything.    *)
Fairness ==
    /\ \A t \in Threads : SF_vars(BarrierSetValue(t))
    /\ \A t \in Threads : WF_vars(FutureGet(t))
    /\ \A t \in Threads : WF_vars(JoinWorker(t))
    /\ WF_vars(HandlerReturn)
    /\ WF_vars(WorkerExit)

Spec == Init /\ [][Next]_vars /\ Fairness

-----------------------------------------------------------------------------
(* Safety: the cluster is never destroyed while a Ruby thread waits on a   *)
(* request it handed to it, and no thread blocks on a closed backend: a    *)
(* close, an explicit one or the GC's, can never overlap a request in      *)
(* flight (spec 4.4: a dispatch after close fails at once, never hangs).   *)
NoTeardownWhileWaiting ==
    ~cluster => /\ pending = {}
                /\ \A t \in Threads : pc[t] # "waiting"

(* Liveness: every Ruby thread that entered a method of the backend (a     *)
(* request waiting in f.get(), or close waiting in worker.join()) returns  *)
(* from it.                                                                *)
EveryCallReturns ==
    \A t \in Threads : (pc[t] # "idle") ~> (pc[t] = "idle")

(* Action property: the cluster is destroyed only in a step where the      *)
(* worker thread is not executing one of its handlers (spec 5: close joins *)
(* background work only after no further work can be scheduled).          *)
TeardownOnlyWhenIdle ==
    [][cluster /\ ~cluster' => ~inHandler]_vars

(* The inductive strengthening of the two safety invariants: a thread is  *)
(* inside a blocking wait exactly when it holds the GVL, a waiting thread  *)
(* has a live cluster and an accepted request has an unfulfilled promise,  *)
(* a joining thread has destroyed the cluster, and a live cluster keeps    *)
(* the worker running.  It is what makes close and a request in flight    *)
(* mutually exclusive.                                                     *)
GVLExclusion ==
    \A t \in Threads : (pc[t] \in {"waiting", "joining"}) <=> (gvl = t)

WaitersHaveCluster ==
    /\ \A t \in Threads : pc[t] = "waiting" => cluster
    /\ \A t \in Threads : pc[t] = "joining" => ~cluster

PendingAreWaiting ==
    \A t \in pending : pc[t] = "waiting" /\ promise[t] = "empty"

ClusterKeepsWorker ==
    cluster => worker = "running"

IInv ==
    /\ TypeOK
    /\ GVLExclusion
    /\ WaitersHaveCluster
    /\ PendingAreWaiting
    /\ ClusterKeepsWorker

-----------------------------------------------------------------------------
(* The refinement mapping onto BackendSession: the session is open while   *)
(* the cluster exists; a thread blocked in f.get() is inside a request and *)
(* one blocked in worker.join() is closing.  The worker, the promises and  *)
(* the handlers are hidden: their steps are stutters of the abstraction.   *)
SessionBar == IF cluster THEN "open" ELSE "closed"

InsideBar ==
    [t \in Threads |-> CASE pc[t] = "waiting" -> "request"
                         [] pc[t] = "joining" -> "closing"
                         [] OTHER -> "idle"]

Session == INSTANCE BackendSession
               WITH session <- SessionBar, inside <- InsideBar, gone <- freed

(* Refinement: the backend object, worker thread included, behaves as the  *)
(* abstract session promises its Ruby callers: methods one at a time,      *)
(* requests only on an open session and each answered, close never under  *)
(* a request, and every method returning.                                  *)
ImplementsSession == Session!Spec

=============================================================================
